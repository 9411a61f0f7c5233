------------------------------- MODULE MCTimer -------------------------------
(* TimerInvoices on small instances. *)
EXTENDS TimerInvoices, TLC

CONSTANTS l1, l2, r1, r2

RunSymmetry == Permutations(Runs)
=============================================================================
