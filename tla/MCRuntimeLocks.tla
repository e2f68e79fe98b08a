---------------------------- MODULE MCRuntimeLocks ----------------------------
(***************************************************************************)
(* TLC instances of RuntimeLocks: everything is a model value, so there is *)
(* nothing to define here.                                                 *)
(***************************************************************************)
EXTENDS RuntimeLocks
===============================================================================
