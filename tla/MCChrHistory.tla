---------------------------- MODULE MCChrHistory ----------------------------
(* ChrHistory on a small instance. *)
EXTENDS ChrHistory

CONSTANT l1
=============================================================================
