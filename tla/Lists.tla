------------------------------- MODULE Lists -------------------------------
(* What the models of routing, keys and topologies need of sequences.        *)
(* SequencesExt has the like, but brings the module of bags with it, in      *)
(* whose context every proof step costs several times as much.               *)
EXTENDS Sequences, FiniteSetsExt

\* One sequence of the sequences in seqs, in their order.
Flattened(seqs) ==
    LET joined[i \in 1..Len(seqs)] == IF i = 1 THEN seqs[i] ELSE joined[i - 1] \o seqs[i]
    IN  IF Len(seqs) = 0 THEN seqs ELSE joined[Len(seqs)]

\* The first and the last place of c in s, or 0.
FirstAt(s, c) ==
    LET places == {i \in 1..Len(s) : s[i] = c}
    IN  IF places # {} THEN Min(places) ELSE 0

LastAt(s, c) ==
    LET places == {i \in 1..Len(s) : s[i] = c}
    IN  IF places # {} THEN Max(places) ELSE 0

\* The elements of a finite set in every order.
Orders(S) ==
    LET places == 1..Cardinality(S)
    IN  {order \in [places -> S] : \A i, j \in places : i # j => order[i] # order[j]}

=============================================================================
