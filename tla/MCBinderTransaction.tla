------------------------- MODULE MCBinderTransaction -------------------------
(***************************************************************************)
(* Small instances of BinderTransaction: the processes A, B and C with the *)
(* threads a1; b1, b2; c1.  A .cfg chooses among them.                     *)
(***************************************************************************)
EXTENDS BinderTransaction

CONSTANTS A, B, C, a1, b1, b2, c1

MCProcOf == [th \in Thread |-> CASE th = a1 -> A [] th \in {b1, b2} -> B [] th = c1 -> C]

\* Handles that let a chain of calls come back to where it started.
Ring == {<<A, B>>, <<B, C>>, <<C, A>>}
Pair == {<<A, B>>, <<B, A>>}
=============================================================================
