-------------------------------- MODULE LineLife --------------------------------
(***************************************************************************)
(* What the shop promises of its stock lines, without transactions, locks  *)
(* or a counter: each line is in one phase, an order item gets all of its  *)
(* units from the pool at once or none, and keeps or gives back all of     *)
(* them at once; what was sold or claimed stays so as long as it is there. *)
(* StockLines implements it under the mapping given there.                 *)
(***************************************************************************)
EXTENDS Integers, FiniteSets

CONSTANTS Line, Item, Quantity, NoItem

VARIABLES
    phase,      \* line -> where it is in its life
    holder      \* line -> the order item it is held for or sold to

lifeVars == <<phase, holder>>

Phases == {"absent", "free", "held", "sold", "claimed"}

In(p) == {l \in Line : phase[l] = p}
HeldFor(i) == {l \in In("held") : holder[l] = i}

\* The lines of S enter phase p, with holder h.
Move(S, p, h) ==
    /\ phase' = [l \in Line |-> IF l \in S THEN p ELSE phase[l]]
    /\ holder' = [l \in Line |-> IF l \in S THEN h ELSE holder[l]]

Init ==
    /\ phase = [l \in Line |-> "absent"]
    /\ holder = [l \in Line |-> NoItem]

Upload(S) == S \subseteq In("absent") /\ Move(S, "free", NoItem)

\* A line may be deleted in any phase: the code's test comes before its delete.
Delete(S) == Move(S, "absent", NoItem)

Hold(i, S) ==
    /\ \A l \in Line : holder[l] # i
    /\ S \subseteq In("free")
    /\ Cardinality(S) = Quantity[i]
    /\ Move(S, "held", i)

Sell(i) == Move(HeldFor(i), "sold", i)

GiveBack(i) == Move(HeldFor(i), "free", NoItem)

Claim(l) == l \in In("free") /\ Move({l}, "claimed", NoItem)

Next ==
    \/ \E S \in SUBSET Line : Upload(S) \/ Delete(S)
    \/ \E i \in Item : \/ \E S \in SUBSET Line : Hold(i, S)
                       \/ Sell(i)
                       \/ GiveBack(i)
    \/ \E l \in Line : Claim(l)

Spec == Init /\ [][Next]_lifeVars

=================================================================================
