---------------------------- MODULE MCCryptoPayment ---------------------------
(* Instances of CryptoPayment for TLC.                                     *)
EXTENDS CryptoPayment, TLC

MCSymmetry == Permutations(Proc)

===============================================================================
