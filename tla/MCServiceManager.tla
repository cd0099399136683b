-------------------------- MODULE MCServiceManager --------------------------
(***************************************************************************)
(* A small instance of ServiceManager: a service with two names, and one   *)
(* more for the first of them, a restart or a rival.  The first name is    *)
(* the longest that a listing gives, the second is one unit longer.        *)
(***************************************************************************)
EXTENDS ServiceManager

CONSTANTS s1, s2, a, b

MCPermitted == {<<s1, a>>, <<s1, b>>, <<s2, a>>}

MCUnits == [n \in Name |-> IF n = a THEN 117 ELSE 118]
=============================================================================
