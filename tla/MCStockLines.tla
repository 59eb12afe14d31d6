----------------------------- MODULE MCStockLines -----------------------------
(* Instances of StockLines for TLC.                                        *)
EXTENDS StockLines, TLC

CONSTANT i1

\* One item that needs two lines and one that needs a single line.
MCQuantity == [i \in Item |-> IF i = i1 THEN 2 ELSE 1]

MCSymmetry == Permutations(Line) \cup Permutations(Tx)

===============================================================================
