---------------------------- MODULE MCBinderDeath ----------------------------
(***************************************************************************)
(* Small instances of BinderDeath.  A .cfg chooses the threads.            *)
(***************************************************************************)
EXTENDS BinderDeath
=============================================================================
