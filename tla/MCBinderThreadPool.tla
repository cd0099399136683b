------------------------- MODULE MCBinderThreadPool --------------------------
(***************************************************************************)
(* Small instances of BinderThreadPool.  A .cfg chooses the threads.       *)
(***************************************************************************)
EXTENDS BinderThreadPool, TLC

PooledSymmetry == Permutations(Pooled)
=============================================================================
