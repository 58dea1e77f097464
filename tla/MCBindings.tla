----------------------------- MODULE MCBindings -----------------------------
(* Constants of Bindings for TLC.                                          *)
EXTENDS Bindings, TLC

CONSTANTS c1, c2, c3, p1, p2, a, b

\* Two clients of one process that register different keys, and one of another
\* process whose code has the key of the first and not that of the second.
MCProc == (c1 :> p1) @@ (c2 :> p1) @@ (c3 :> p2)
MCVersion == (c1 :> {a}) @@ (c2 :> {b}) @@ (c3 :> {a})
=============================================================================
