-------------------------------- MODULE MCChr -------------------------------
(* ChrOutbox on small instances. *)
EXTENDS ChrSafety

CONSTANTS l1, l2
=============================================================================
