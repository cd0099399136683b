---------------------------- MODULE MCBinderRefs ----------------------------
(***************************************************************************)
(* Small instances of BinderRefs.  A .cfg chooses threads and holders.     *)
(***************************************************************************)
EXTENDS BinderRefs
=============================================================================
