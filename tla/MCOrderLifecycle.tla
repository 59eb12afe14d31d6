---------------------------- MODULE MCOrderLifecycle ----------------------------
(* Instances of OrderLifecycle for TLC.                                    *)
EXTENDS OrderLifecycle, TLC

MCSymmetry == Permutations(Proc)

===============================================================================
