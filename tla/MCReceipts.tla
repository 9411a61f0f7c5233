----------------------------- MODULE MCReceipts ------------------------------
(* ReceiptPass on a small instance. *)
EXTENDS ReceiptPass, TLC

CONSTANTS m1, s1, c1, c2

Symmetry == Permutations(Clients)
=============================================================================
