------------------------------ MODULE MCTrigger ------------------------------
(* TriggerInvoices on small instances. *)
EXTENDS TriggerInvoices, TLC

CONSTANTS l1, l2, r1, r2

RunSymmetry == Permutations(Runs)
=============================================================================
