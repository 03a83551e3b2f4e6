----------------------------- MODULE MCScanner -----------------------------
(***************************************************************************)
(* Small instances of Scanner.                                             *)
(***************************************************************************)
EXTENDS Scanner

MCCooldownOf == [HIGH |-> 1, MEDIUM |-> 2, OBSERVE |-> 1]
=============================================================================
