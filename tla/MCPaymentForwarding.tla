------------------------- MODULE MCPaymentForwarding ---------------------------
(* Instances of PaymentForwarding for TLC.                                 *)
EXTENDS PaymentForwarding, TLC

MCSymmetry == Permutations(Proc)

===============================================================================
