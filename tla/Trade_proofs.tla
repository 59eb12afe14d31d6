------------------------------ MODULE Trade_proofs -----------------------------
(***************************************************************************)
(* Proofs about the shop side of the store: coupons, carts and orders      *)
(* (Checkout), drops, vouches and reviews, the catalogue, and MCTrade,     *)
(* which puts them together.                                               *)
(***************************************************************************)
EXTENDS MCTrade, FiniteSetTheorems, FunctionTheorems, TLAPS

-------------------------------------------------------------------------------
(* What the components share                                               *)

\* Calls are a function of the processes.
CallsShape == calls = [p \in Proc |-> calls[p]]

\* What holds of every call holds after a step that changes the record of one.
LEMMA OneCall ==
    ASSUME CallsShape, NEW p \in Proc, NEW c, calls' = [calls EXCEPT ![p] = c]
    PROVE  CallsShape' /\ calls'[p] = c /\ \A q \in Proc \ {p} : calls'[q] = calls[q]
BY DEF CallsShape

\* Any collection of finite sets has a member of which no other one is a part.
LEMMA SmallestSet ==
    ASSUME NEW S, IsFiniteSet(S), NEW C \in SUBSET (SUBSET S), C # {}
    PROVE  \E m \in C : \A n \in C : n \subseteq m => n = m
<1>1. IsWellFoundedOn(StrictSubsetOrdering(S), FiniteSubsetsOf(S)) /\ FiniteSubsetsOf(S) = SUBSET S
  BY FS_StrictSubsetOrderingWellFounded, FS_FiniteSubsetsOfFinite
<1>2. PICK m \in C : \A n \in C : ~(<<n, m>> \in StrictSubsetOrdering(S))
  BY <1>1, WFMin
<1>3. ASSUME NEW n \in C, n \subseteq m PROVE n = m
  BY <1>2, <1>3 DEF StrictSubsetOrdering
<1> QED BY <1>3

\* A finite set of integers has a largest member.
LEMMA MaxIsThere ==
    ASSUME NEW S, IsFiniteSet(S), S # {}, \A x \in S : x \in Int
    PROVE  Max(S) \in S /\ \A x \in S : Max(S) >= x
<1> DEFINE Bad == {s \in SUBSET S : s # {} /\ ~ \E x \in s : \A y \in s : x >= y}
<1>1. Bad = {}
  <2> SUFFICES ASSUME Bad # {} PROVE FALSE
    OBVIOUS
  <2>1. PICK m \in Bad : \A n \in Bad : n \subseteq m => n = m
    <3>1. \A C \in SUBSET (SUBSET S) : C # {} => \E m \in C : \A n \in C : n \subseteq m => n = m
      BY SmallestSet
    <3>2. Bad \in SUBSET (SUBSET S)
      OBVIOUS
    <3> HIDE DEF Bad
    <3> QED BY <3>1, <3>2
  <2>2. m \in SUBSET S /\ m # {} /\ ~ \E x \in m : \A y \in m : x >= y
    BY <2>1
  <2>3. PICK a \in m : TRUE
    BY <2>2
  <2>4. m \ {a} \notin Bad
    BY <2>1, <2>3
  <2>5. m \ {a} # {}
    <3>1. \A y \in {a} : a >= y
      BY <2>2, <2>3
    <3> QED BY <2>2, <2>3, <3>1
  <2>6. PICK b \in m \ {a} : \A y \in m \ {a} : b >= y
    BY <2>2, <2>4, <2>5
  <2>7. a \in Int /\ b \in Int
    BY <2>2, <2>3, <2>6
  <2>8. (\A y \in m : a >= y) \/ (\A y \in m : b >= y)
    BY <2>2, <2>6, <2>7
  <2> QED BY <2>2, <2>3, <2>6, <2>8
<1>2. S \notin Bad
  BY <1>1
<1>3. \E x \in S : \A y \in S : x >= y
  BY <1>2
<1> QED BY <1>3 DEF Max

\* The values of a function on a finite set are finitely many.
LEMMA ImageIsFinite ==
    ASSUME NEW f, NEW S, IsFiniteSet(S)
    PROVE  IsFiniteSet({f[x] : x \in S})
<1>1. [x \in S |-> f[x]] \in Surjection(S, {f[x] : x \in S})
  BY DEF Surjection
<1> QED BY <1>1, FS_Surjection

\* Of a set of one element at most, no two elements differ.
LEMMA OneAtMost ==
    ASSUME NEW S, IsFiniteSet(S)
    PROVE  Cardinality(S) <= 1 <=> \A x, y \in S : x = y
<1>1. ASSUME NEW x \in S, NEW y \in S, x # y PROVE ~(Cardinality(S) <= 1)
  <2>1. Cardinality({x}) = 1 /\ IsFiniteSet({x})
    BY FS_Singleton
  <2>2. Cardinality({x} \cup {y}) = 2
    BY <1>1, <2>1, FS_AddElement
  <2>3. Cardinality({x} \cup {y}) <= Cardinality(S) /\ Cardinality(S) \in Nat
    BY <1>1, FS_Subset, FS_CardinalityType
  <2> QED BY <2>2, <2>3
<1>2. ASSUME \A x, y \in S : x = y PROVE Cardinality(S) <= 1
  <2>1. CASE S = {}
    BY <2>1, FS_EmptySet
  <2>2. CASE S # {}
    <3>1. PICK x \in S : TRUE
      BY <2>2
    <3>2. S = {x}
      BY <1>2, <3>1
    <3> QED BY <3>2, FS_Singleton
  <2> QED BY <2>1, <2>2
<1> QED BY <1>1, <1>2

-------------------------------------------------------------------------------
(* Sums over finite sets *)

Chosen(s) == CHOOSE x \in s : TRUE

\* The equation of the sum of f over the subsets of S, an element at a time.
Adds(f, S, g) ==
    g = [s \in SUBSET S |-> IF s = {} THEN 0 ELSE f[Chosen(s)] + g[s \ {Chosen(s)}]]

Sums(f, S) == CHOOSE g : Adds(f, S, g)

Total(f, S) == Sums(f, S)[S]

\* The element chosen of a set is in it.
LEMMA FirstIsIn == ASSUME NEW s, s # {} PROVE Chosen(s) \in s
BY DEF Chosen

\* What the equation says of one subset.
LEMMA AddsAt ==
    ASSUME NEW f, NEW S, NEW g, Adds(f, S, g), NEW s \in SUBSET S
    PROVE  g[s] = IF s = {} THEN 0 ELSE f[Chosen(s)] + g[s \ {Chosen(s)}]
<1>1. \A t \in SUBSET S : g[t] = [u \in SUBSET S |-> IF u = {} THEN 0 ELSE f[Chosen(u)] + g[u \ {Chosen(u)}]][t]
  BY DEF Adds
<1> QED BY <1>1

\* Two solutions agree wherever both are defined.
LEMMA SumsAgree ==
    ASSUME NEW f, NEW S, NEW T, IsFiniteSet(S), NEW g, NEW h, Adds(f, S, g), Adds(f, T, h),
           NEW u \in SUBSET S, u \subseteq T
    PROVE  g[u] = h[u]
<1> DEFINE bad == {s \in SUBSET S : s \subseteq T /\ g[s] # h[s]}
<1> SUFFICES ASSUME bad # {} PROVE FALSE
  OBVIOUS
<1>1. PICK m \in bad : \A n \in bad : n \subseteq m => n = m
  <2> bad \in SUBSET (SUBSET S)
    OBVIOUS
  <2> HIDE DEF bad
  <2> QED BY SmallestSet
<1>2. g[m] = (IF m = {} THEN 0 ELSE f[Chosen(m)] + g[m \ {Chosen(m)}])
  BY AddsAt
<1>3. h[m] = (IF m = {} THEN 0 ELSE f[Chosen(m)] + h[m \ {Chosen(m)}])
  BY AddsAt
<1>4. m # {}
  BY <1>2, <1>3
<1>5. m \ {Chosen(m)} \notin bad
  BY <1>1, <1>4, FirstIsIn
<1>6. g[m \ {Chosen(m)}] = h[m \ {Chosen(m)}]
  BY <1>5
<1> QED BY <1>2, <1>3, <1>6

\* The equation has a solution on every finite set, and the one chosen solves it.
LEMMA SumsExist ==
    ASSUME NEW f, NEW S, IsFiniteSet(S)
    PROVE  Adds(f, S, Sums(f, S))
<1> DEFINE bad == {s \in SUBSET S : ~ \E g : Adds(f, s, g)}
<1>1. bad = {}
  <2> SUFFICES ASSUME bad # {} PROVE FALSE
    OBVIOUS
  <2>1. PICK m \in bad : \A n \in bad : n \subseteq m => n = m
    <3> bad \in SUBSET (SUBSET S)
      OBVIOUS
    <3> HIDE DEF bad
    <3> QED BY SmallestSet
  <2>2. ASSUME NEW u \in SUBSET m, u # m PROVE Adds(f, u, Sums(f, u))
    <3>1. u \in SUBSET S /\ u \notin bad
      BY <2>1, <2>2
    <3>2. \E g : Adds(f, u, g)
      BY <3>1
    <3> QED BY <3>2, Zenon DEF Sums
  <2>3. ASSUME NEW u \in SUBSET m, u # m, u # {}
        PROVE  Total(f, u) = f[Chosen(u)] + Total(f, u \ {Chosen(u)})
    <3>1. u \ {Chosen(u)} \in SUBSET m /\ u \ {Chosen(u)} # m
      BY <2>3, FirstIsIn
    <3>2. Adds(f, u, Sums(f, u)) /\ Adds(f, u \ {Chosen(u)}, Sums(f, u \ {Chosen(u)}))
      BY <2>2, <2>3, <3>1
    <3>3. IsFiniteSet(u)
      BY FS_Subset
    <3>4. Sums(f, u)[u \ {Chosen(u)}] = Sums(f, u \ {Chosen(u)})[u \ {Chosen(u)}]
      <4>1. PICK w, g, h : w = u \ {Chosen(u)} /\ g = Sums(f, u) /\ h = Sums(f, w)
        OBVIOUS
      <4>2. Adds(f, u, g) /\ Adds(f, w, h) /\ w \in SUBSET u /\ w \subseteq w
        BY <3>2, <4>1
      <4> QED BY <3>3, <4>1, <4>2, SumsAgree
    <3>5. Sums(f, u)[u] = f[Chosen(u)] + Sums(f, u)[u \ {Chosen(u)}]
      BY <2>3, <3>2, AddsAt
    <3> QED BY <3>4, <3>5 DEF Total
  <2>4. m # {} => Total(f, {}) = 0
    BY <2>2, AddsAt DEF Total
  <2> DEFINE g == [s \in SUBSET m |-> IF s = {} THEN 0 ELSE f[Chosen(s)] + Total(f, s \ {Chosen(s)})]
  <2>5. ASSUME NEW s \in SUBSET m, s # {} PROVE g[s \ {Chosen(s)}] = Total(f, s \ {Chosen(s)})
    <3>1. s \ {Chosen(s)} \in SUBSET m /\ s \ {Chosen(s)} # m /\ m # {}
      BY <2>5, FirstIsIn
    <3>2. CASE s \ {Chosen(s)} = {}
      BY <3>1, <3>2, <2>4
    <3>3. CASE s \ {Chosen(s)} # {}
      BY <3>1, <3>3, <2>3
    <3> QED BY <3>2, <3>3
  <2>6. Adds(f, m, g)
    BY <2>5 DEF Adds
  <2> QED BY <2>1, <2>6
<1>2. \E g : Adds(f, S, g)
  BY <1>1
<1> QED BY <1>2, Zenon DEF Sums

\* Nothing adds up to zero.
LEMMA TotalEmpty == ASSUME NEW f PROVE Total(f, {}) = 0
BY SumsExist, AddsAt, FS_EmptySet DEF Total

\* A total is the value at the element chosen and the total of the others.
LEMMA TotalFirst ==
    ASSUME NEW f, NEW S, IsFiniteSet(S), S # {}
    PROVE  Total(f, S) = f[Chosen(S)] + Total(f, S \ {Chosen(S)})
<1>1. IsFiniteSet(S \ {Chosen(S)}) /\ S \ {Chosen(S)} \in SUBSET S
  BY FS_RemoveElement
<1>2. Adds(f, S, Sums(f, S)) /\ Adds(f, S \ {Chosen(S)}, Sums(f, S \ {Chosen(S)}))
  BY <1>1, SumsExist
<1>3. Sums(f, S)[S \ {Chosen(S)}] = Sums(f, S \ {Chosen(S)})[S \ {Chosen(S)}]
  BY <1>1, <1>2, SumsAgree
<1>4. Sums(f, S)[S] = f[Chosen(S)] + Sums(f, S)[S \ {Chosen(S)}]
  BY <1>2, AddsAt
<1> QED BY <1>3, <1>4 DEF Total

\* A sum of naturals is a natural.
LEMMA TotalNat ==
    ASSUME NEW f, NEW S, IsFiniteSet(S), \A x \in S : f[x] \in Nat
    PROVE  Total(f, S) \in Nat
<1> DEFINE bad == {s \in SUBSET S : Total(f, s) \notin Nat}
<1> SUFFICES ASSUME bad # {} PROVE FALSE
  OBVIOUS
<1>1. PICK m \in bad : \A n \in bad : n \subseteq m => n = m
  <2> bad \in SUBSET (SUBSET S)
    OBVIOUS
  <2> HIDE DEF bad
  <2> QED BY SmallestSet
<1>2. m # {} /\ IsFiniteSet(m)
  <2>1. Total(f, m) \notin Nat /\ m \in SUBSET S
    OBVIOUS
  <2>2. Total(f, {}) \in Nat
    BY TotalEmpty
  <2> QED BY <2>1, <2>2, FS_Subset
<1>3. Total(f, m) = f[Chosen(m)] + Total(f, m \ {Chosen(m)})
  BY <1>2, TotalFirst
<1>4. Chosen(m) \in m /\ m \ {Chosen(m)} \notin bad
  BY <1>1, <1>2, FirstIsIn
<1>5. Total(f, m \ {Chosen(m)}) \in Nat
  BY <1>4
<1> QED BY <1>3, <1>4, <1>5

\* Any element may be taken out first.
LEMMA TotalWithout ==
    ASSUME NEW f, NEW S, IsFiniteSet(S), \A x \in S : f[x] \in Nat, NEW x \in S
    PROVE  Total(f, S) = f[x] + Total(f, S \ {x})
<1> DEFINE bad == {s \in SUBSET S : \E y \in s : Total(f, s) # f[y] + Total(f, s \ {y})}
<1> SUFFICES ASSUME bad # {} PROVE FALSE
  OBVIOUS
<1>1. PICK m \in bad : \A n \in bad : n \subseteq m => n = m
  <2> bad \in SUBSET (SUBSET S)
    OBVIOUS
  <2> HIDE DEF bad
  <2> QED BY SmallestSet
<1>2. PICK y \in m : Total(f, m) # f[y] + Total(f, m \ {y})
  BY <1>1
<1>3. PICK z \in m : z = Chosen(m)
  BY FirstIsIn
<1>4. IsFiniteSet(m) /\ m \subseteq S /\ m # {}
  BY FS_Subset
<1>5. Total(f, m) = f[z] + Total(f, m \ {z})
  BY <1>3, <1>4, TotalFirst
<1>6. y # z
  BY <1>2, <1>5
<1>7. m \ {z} \notin bad /\ m \ {y} \notin bad
  BY <1>1
<1>8. Total(f, m \ {z}) = f[y] + Total(f, (m \ {z}) \ {y}) /\ Total(f, m \ {y}) = f[z] + Total(f, (m \ {y}) \ {z})
  BY <1>4, <1>6, <1>7
<1>9. (m \ {z}) \ {y} = (m \ {y}) \ {z}
  OBVIOUS
<1>10. Total(f, (m \ {y}) \ {z}) \in Nat /\ f[y] \in Nat /\ f[z] \in Nat
  <2>1. (m \ {y}) \ {z} \in SUBSET S
    BY <1>4
  <2>2. IsFiniteSet((m \ {y}) \ {z}) /\ \A w \in (m \ {y}) \ {z} : f[w] \in Nat
    BY <2>1, FS_Subset
  <2> QED BY <1>4, <2>2, TotalNat
<1>11. PICK t \in Nat : t = Total(f, (m \ {z}) \ {y}) /\ t = Total(f, (m \ {y}) \ {z})
  BY <1>9, <1>10
<1>12. Total(f, m) = f[z] + (f[y] + t) /\ Total(f, m \ {y}) = f[z] + t
  BY <1>5, <1>8, <1>11
<1> HIDE DEF bad
<1> QED BY <1>2, <1>10, <1>12

\* One element more adds its value.
LEMMA TotalWith ==
    ASSUME NEW f, NEW S, IsFiniteSet(S), NEW x, x \notin S, \A y \in S \cup {x} : f[y] \in Nat
    PROVE  Total(f, S \cup {x}) = Total(f, S) + f[x]
<1>1. IsFiniteSet(S \cup {x}) /\ (S \cup {x}) \ {x} = S /\ x \in S \cup {x}
  BY FS_AddElement
<1>2. Total(f, S \cup {x}) = f[x] + Total(f, S)
  BY <1>1, TotalWithout
<1>3. Total(f, S) \in Nat
  BY TotalNat
<1> QED BY <1>2, <1>3

\* A part sums up to no more than the whole.
LEMMA TotalOfPart ==
    ASSUME NEW f, NEW S, IsFiniteSet(S), \A x \in S : f[x] \in Nat, NEW T \in SUBSET S
    PROVE  Total(f, T) <= Total(f, S)
<1> DEFINE bad == {s \in SUBSET S : T \subseteq s /\ ~(Total(f, T) <= Total(f, s))}
<1> SUFFICES ASSUME bad # {} PROVE FALSE
  OBVIOUS
<1>1. PICK m \in bad : \A n \in bad : n \subseteq m => n = m
  <2> bad \in SUBSET (SUBSET S)
    OBVIOUS
  <2> HIDE DEF bad
  <2> QED BY SmallestSet
<1>2. \A s \in SUBSET S : IsFiniteSet(s) /\ Total(f, s) \in Nat
  BY FS_Subset, TotalNat
<1>3. T # m
  BY <1>2
<1>4. PICK x \in m : x \notin T
  BY <1>3
<1>5. Total(f, m) = f[x] + Total(f, m \ {x})
  BY <1>2, TotalWithout
<1>6. m \ {x} \notin bad
  BY <1>1
<1>7. T \subseteq m \ {x} /\ m \ {x} \in SUBSET S /\ m \ {x} \subseteq m /\ m \ {x} # m
  BY <1>4
<1>8. Total(f, T) <= Total(f, m \ {x})
  BY <1>6, <1>7
<1>9. ~(Total(f, T) <= Total(f, m)) /\ m \in SUBSET S /\ f[x] \in Nat
  OBVIOUS
<1> HIDE DEF bad
<1>10. Total(f, T) \in Nat /\ Total(f, m) \in Nat /\ Total(f, m \ {x}) \in Nat
  BY <1>2, <1>7, <1>9
<1> QED BY <1>5, <1>8, <1>9, <1>10

\* The sum depends on the elements' own values alone.
LEMMA TotalSame ==
    ASSUME NEW f, NEW h, NEW S, IsFiniteSet(S), \A x \in S : f[x] = h[x]
    PROVE  Total(f, S) = Total(h, S)
<1> DEFINE bad == {s \in SUBSET S : Total(f, s) # Total(h, s)}
<1> SUFFICES ASSUME bad # {} PROVE FALSE
  OBVIOUS
<1>1. PICK m \in bad : \A n \in bad : n \subseteq m => n = m
  <2> bad \in SUBSET (SUBSET S)
    OBVIOUS
  <2> HIDE DEF bad
  <2> QED BY SmallestSet
<1>2. m # {} /\ IsFiniteSet(m)
  BY TotalEmpty, FS_Subset
<1>3. Total(f, m) = f[Chosen(m)] + Total(f, m \ {Chosen(m)}) /\ Total(h, m) = h[Chosen(m)] + Total(h, m \ {Chosen(m)})
  BY <1>2, TotalFirst
<1>4. Chosen(m) \in m /\ m \ {Chosen(m)} \notin bad
  BY <1>1, <1>2, FirstIsIn
<1> QED BY <1>3, <1>4

-------------------------------------------------------------------------------
\* The sums of the model, as totals of functions.
FiniteLines == {lines \in SUBSET CartLine : IsFiniteSet(lines)}

Cost == [l \in CartLine |-> l.unitPrice * l.quantity]

Amount == [l \in CartLine |-> l.quantity]

LinesOf(g, lines) == {l \in lines : l.good = g}

\* Costs and amounts of cart lines are naturals.
LEMMA CostIsNat == \A l \in CartLine : Cost[l] \in Nat /\ Amount[l] \in Nat
<1> SUFFICES ASSUME NEW l \in CartLine PROVE Cost[l] \in Nat /\ Amount[l] \in Nat
  OBVIOUS
<1>1. l.unitPrice \in Nat /\ l.quantity \in Nat
  BY CartAssumption DEF CartLine
<1>2. \A a, b \in Nat : a * b \in Nat
  OBVIOUS
<1> QED BY <1>1, <1>2 DEF Cost, Amount

\* Subtotal is the total of the costs ...
LEMMA SubtotalIsTotal ==
    ASSUME NEW lines \in FiniteLines
    PROVE  Subtotal(lines) = Total(Cost, lines)
<1> DEFINE Sum(h) == h = [s \in SUBSET lines |->
                 IF s = {} THEN 0
                 ELSE (Chosen(s).unitPrice * Chosen(s).quantity) + h[s \ {Chosen(s)}]]
<1>1. Subtotal(lines) = (CHOOSE h : Sum(h))[lines]
  BY DEF Subtotal, MapThenSumSet, MapThenFoldSet, Chosen
<1>2. ASSUME NEW h PROVE Sum(h) <=> Adds(Cost, lines, h)
  <2>1. \A s \in SUBSET lines : s # {} => Cost[Chosen(s)] = Chosen(s).unitPrice * Chosen(s).quantity
    BY FirstIsIn DEF Cost, FiniteLines
  <2> QED BY <2>1 DEF Adds
<1>3. IsFiniteSet(lines)
  BY DEF FiniteLines
<1>4. PICK g : g = CHOOSE h : Sum(h)
  OBVIOUS
<1> HIDE DEF Sum
<1>5. Sum(g)
  <2>1. \E h : Sum(h)
    BY <1>2, <1>3, SumsExist
  <2> QED BY <1>4, <2>1, Zenon
<1>6. Adds(Cost, lines, g) /\ Adds(Cost, lines, Sums(Cost, lines))
  BY <1>2, <1>3, <1>5, SumsExist
<1>7. g[lines] = Sums(Cost, lines)[lines]
  BY <1>3, <1>6, SumsAgree
<1> QED BY <1>1, <1>4, <1>7 DEF Total

\* ... and QuantityOf the total of the amounts of a good's lines.
LEMMA QuantityIsTotal ==
    ASSUME NEW g, NEW lines \in FiniteLines
    PROVE  QuantityOf(g, lines) = Total(Amount, LinesOf(g, lines))
<1>0. PICK part : part = LinesOf(g, lines)
  OBVIOUS
<1> DEFINE Sum(h) == h = [s \in SUBSET part |->
                 IF s = {} THEN 0 ELSE Chosen(s).quantity + h[s \ {Chosen(s)}]]
<1>1. QuantityOf(g, lines) = (CHOOSE h : Sum(h))[part]
  BY <1>0 DEF QuantityOf, MapThenSumSet, MapThenFoldSet, Chosen, LinesOf
<1>2. ASSUME NEW h PROVE Sum(h) <=> Adds(Amount, part, h)
  <2>1. \A s \in SUBSET part : s # {} => Amount[Chosen(s)] = Chosen(s).quantity
    BY <1>0, FirstIsIn DEF Amount, FiniteLines, LinesOf
  <2> QED BY <2>1 DEF Adds
<1>3. IsFiniteSet(part)
  BY <1>0, FS_Subset DEF FiniteLines, LinesOf
<1>4. PICK f : f = CHOOSE h : Sum(h)
  OBVIOUS
<1> HIDE DEF Sum
<1>5. Sum(f)
  <2>1. \E h : Sum(h)
    BY <1>2, <1>3, SumsExist
  <2> QED BY <1>4, <2>1, Zenon
<1>6. Adds(Amount, part, f) /\ Adds(Amount, part, Sums(Amount, part))
  BY <1>2, <1>3, <1>5, SumsExist
<1>7. f[part] = Sums(Amount, part)[part]
  BY <1>3, <1>6, SumsAgree
<1> QED BY <1>0, <1>1, <1>4, <1>7 DEF Total

\* Both are naturals.
LEMMA SubtotalIsNat ==
    ASSUME NEW lines \in FiniteLines
    PROVE  Subtotal(lines) \in Nat
BY SubtotalIsTotal, TotalNat, CostIsNat DEF FiniteLines

\* The units of a good in a set of lines are a natural.
LEMMA QuantityIsNat ==
    ASSUME NEW g, NEW lines \in FiniteLines
    PROVE  QuantityOf(g, lines) \in Nat
<1>1. LinesOf(g, lines) \subseteq lines /\ IsFiniteSet(LinesOf(g, lines))
  BY FS_Subset DEF LinesOf, FiniteLines
<1> QED BY <1>1, QuantityIsTotal, TotalNat, CostIsNat DEF FiniteLines

\* The part of a cart that a coupon is for costs no more than the cart.
LEMMA ApplicableIsPart ==
    ASSUME NEW row, NEW lines \in FiniteLines
    PROVE  Applicable(row, lines) \in 0 .. Subtotal(lines)
<1>1. PICK part : part = {l \in lines : InScope(row, l.good)}
  OBVIOUS
<1>2. part \in SUBSET lines /\ part \in FiniteLines
  BY <1>1, FS_Subset DEF FiniteLines
<1>3. Total(Cost, part) <= Total(Cost, lines)
  BY <1>2, TotalOfPart, CostIsNat DEF FiniteLines
<1>4. Subtotal(part) <= Subtotal(lines) /\ Subtotal(part) \in Nat /\ Subtotal(lines) \in Nat
  BY <1>2, <1>3, SubtotalIsTotal, SubtotalIsNat
<1> QED BY <1>1, <1>4 DEF Applicable

\* The image of a finite set, and a numbering of one.
LEMMA NumberingExists ==
    ASSUME NEW S, IsFiniteSet(S)
    PROVE  \E n \in [S -> 1 .. Cardinality(S)] : \A i, j \in S : i # j => n[i] # n[j]
<1>1. ExistsBijection(S, 1 .. Cardinality(S))
  BY FS_CardinalityType, Fun_ExistsBijSymmetric
<1>2. PICK n \in Bijection(S, 1 .. Cardinality(S)) : TRUE
  BY <1>1, Fun_ExistsBij
<1>3. n \in [S -> 1 .. Cardinality(S)] /\ \A i, j \in S : n[i] = n[j] => i = j
  BY <1>2, Fun_BijectionProperties
<1> QED BY <1>3

\* An order as createOrder writes it.
OrderRow ==
    {o \in [user : User, lines : FiniteLines, coupon : CouponId \cup {"none"}, discount : Nat, total : Nat \ {0},
            protection : BOOLEAN] :
        o.discount <= Subtotal(o.lines) /\ o.total = Subtotal(o.lines) - o.discount + FeeOf(o.protection)}

Placed == [number : Nat, order : OrderRow]

Units(g) == [o \in Placed |-> QuantityOf(g, o.order.lines)]

\* The units of a good that are on orders.
Ordered(g, placed) == MapThenSumSet(LAMBDA o : QuantityOf(g, o.order.lines), placed)

\* The units of a good in an order are a natural.
LEMMA UnitsAreNat == \A g : \A o \in Placed : Units(g)[o] \in Nat
BY QuantityIsNat DEF Units, Placed, OrderRow

\* The units ordered of a good are a total over the orders ...
LEMMA OrderedIsTotal ==
    ASSUME NEW g, NEW placed \in SUBSET Placed, IsFiniteSet(placed)
    PROVE  Ordered(g, placed) = Total(Units(g), placed)
<1> DEFINE Sum(h) == h = [s \in SUBSET placed |->
                 IF s = {} THEN 0 ELSE QuantityOf(g, Chosen(s).order.lines) + h[s \ {Chosen(s)}]]
<1>1. Ordered(g, placed) = (CHOOSE h : Sum(h))[placed]
  BY DEF Ordered, MapThenSumSet, MapThenFoldSet, Chosen
<1>2. ASSUME NEW h PROVE Sum(h) <=> Adds(Units(g), placed, h)
  <2>1. \A s \in SUBSET placed : s # {} => Units(g)[Chosen(s)] = QuantityOf(g, Chosen(s).order.lines)
    BY FirstIsIn DEF Units
  <2> QED BY <2>1 DEF Adds
<1>4. PICK f : f = CHOOSE h : Sum(h)
  OBVIOUS
<1> HIDE DEF Sum
<1>5. Sum(f)
  <2>1. \E h : Sum(h)
    BY <1>2, SumsExist
  <2> QED BY <1>4, <2>1, Zenon
<1>6. Adds(Units(g), placed, f) /\ Adds(Units(g), placed, Sums(Units(g), placed))
  BY <1>2, <1>5, SumsExist
<1>7. f[placed] = Sums(Units(g), placed)[placed]
  BY <1>6, SumsAgree
<1> QED BY <1>1, <1>4, <1>7 DEF Total

\* ... which a new order raises by its own units.
LEMMA OrderedWith ==
    ASSUME NEW g, NEW placed \in SUBSET Placed, IsFiniteSet(placed), NEW o \in Placed, o \notin placed
    PROVE  Ordered(g, placed \cup {o}) = Ordered(g, placed) + QuantityOf(g, o.order.lines)
           /\ Ordered(g, placed) \in Nat
<1>1. PICK more : more = placed \cup {o}
  OBVIOUS
<1>2. more \in SUBSET Placed /\ IsFiniteSet(more)
  BY <1>1, FS_AddElement
<1>3. Ordered(g, more) = Total(Units(g), more) /\ Ordered(g, placed) = Total(Units(g), placed)
  BY <1>2, OrderedIsTotal
<1>4. \A x \in more : Units(g)[x] \in Nat
  BY <1>2, UnitsAreNat
<1>5. Total(Units(g), more) = Total(Units(g), placed) + Units(g)[o]
  BY <1>1, <1>4, TotalWith
<1>6. Units(g)[o] = QuantityOf(g, o.order.lines)
  BY DEF Units
<1>7. Total(Units(g), placed) \in Nat
  BY <1>1, <1>4, TotalNat
<1> QED BY <1>1, <1>3, <1>5, <1>6, <1>7

\* Coupons' discount: never below zero, never above what it is applied to, whatever the row says.
LEMMA DiscountIsPart ==
    ASSUME NEW row \in CouponRow, NEW n \in Nat
    PROVE  Discount(row, n) \in 0 .. n
<1>1. row.value \in Nat
  BY CouponAssumption DEF CouponRow
<1>2. \A a, b \in Nat : a * b \in Nat
  OBVIOUS
<1>3. \A a \in Nat : (a + 50) \div 100 \in Nat
  OBVIOUS
<1>4. (n * row.value + 50) \div 100 \in Nat
  BY <1>1, <1>2, <1>3
<1>5. PICK raw \in Nat : raw = IF row.discountType = "PERCENT" THEN (n * row.value + 50) \div 100 ELSE row.value
  BY <1>1, <1>4
<1>6. Discount(row, n) = IF raw < n THEN raw ELSE n
  BY <1>5 DEF Discount
<1> QED BY <1>6

-------------------------------------------------------------------------------
(* The invariant *)

CouponHeld(c) ==
    /\ c.at = "coupon.insert" => c.dto \in CouponDto
    /\ c.at \in {"coupon.write", "coupon.delete", "coupon.toggle"} => c.id \in CouponId /\ Stored(c.id)
    /\ c.at = "coupon.write" => c.dto \in CouponPatch
    /\ c.at = "coupon.toggle" => c.isActive \in BOOLEAN
    /\ c.at = "coupon.cache" => c.key \in CacheKey /\ c.verdict \in Verdict

CartItem == [good : Good, quantity : Nat \ {0}, unitPrice : Price]

CartHeld(c) ==
    /\ c.at = "cart.find" =>
          c = [at |-> "cart.find", user |-> c.user, good |-> c.good, quantity |-> c.quantity, unitPrice |-> c.unitPrice]
    /\ c.at \in {"cart.find", "cart.create"} => c.good \in Good
    /\ c.at \in {"cart.find", "cart.create", "cart.write", "cart.quantity", "cart.delete", "cart.replace",
               "cart.commit"} => c.user \in User
    /\ c.at \in {"cart.find", "cart.create", "cart.write", "cart.quantity"} => c.quantity \in Nat \ {0}
    /\ c.at \in {"cart.find", "cart.create", "cart.write"} => c.unitPrice \in Price
    /\ c.at \in {"cart.replace", "cart.commit"} => c.items \in SUBSET CartItem /\ IsFiniteSet(c.items)

OrderHeld(c) ==
    /\ c.at \in {"order.read", "order.price"} => c.user \in User /\ c.protection \in BOOLEAN
    /\ c.at = "order.price" => c.lines \in FiniteLines
    /\ c.at = "order.commit" =>
          /\ c.order \in OrderRow
          /\ c.order.coupon # "none" => Stored(c.order.coupon) /\ c.limit \in limits[c.order.coupon]

CheckoutHeld(c) == CouponHeld(c) /\ CartHeld(c) /\ OrderHeld(c)

CheckoutCallsOK == CallsShape /\ \A p \in Proc : CheckoutHeld(calls[p])

CouponPart ==
    /\ CouponTypeOK
    /\ \A k, d \in CouponId : (k # d /\ Stored(k) /\ Stored(d)) => coupons[k].code # coupons[d].code
    /\ \A k \in CouponId : Stored(k) => coupons[k].maxUses \in limits[k]

CartPart ==
    /\ goods \in [Good -> GoodRow]
    /\ carts \in [User -> FiniteLines]
    /\ lastLine \in 0 .. MaxLines
    /\ \A g \in Lined : goods[g].stock \in Nat

OrderPart ==
    /\ orders \in SUBSET Placed
    /\ IsFiniteSet(orders)
    /\ \A o \in orders : o.number \in 1 .. Cardinality(orders)
    /\ \A o \in orders : o.order.coupon # "none" => Stored(o.order.coupon)

StockBook == \A g \in Good : goods[g].stock + Ordered(g, orders) = InitialStock

CheckoutInv == CheckoutCallsOK /\ CouponPart /\ CartPart /\ OrderPart /\ StockBook /\ CouponUseIsBounded

\* A stored row is not the absent one.
LEMMA RowIsNotNoCoupon == ASSUME NEW r \in CouponRow PROVE r # NoCoupon
BY DEF CouponRow, NoCoupon

\* A process without a call holds nothing.
LEMMA IdleHeld == CheckoutHeld(Idle)
BY DEF CheckoutHeld, CouponHeld, CartHeld, OrderHeld, Idle

\* Rows of coupons never disappear, nor does what their histories record.
RowsKept == \A k \in CouponId : Stored(k) => Stored(k)' /\ limits[k] \subseteq limits'[k]

\* One call moves, rows stay: what the others hold stays true.
LEMMA CallsKept ==
    ASSUME CheckoutCallsOK, RowsKept, NEW p \in Proc, NEW c, CheckoutHeld(c), calls' = [calls EXCEPT ![p] = c]
    PROVE  CheckoutCallsOK'
<1>1. CallsShape' /\ calls'[p] = c /\ \A q \in Proc \ {p} : calls'[q] = calls[q]
  BY OneCall DEF CheckoutCallsOK
<1>2. ASSUME NEW q \in Proc PROVE CheckoutHeld(calls[q])'
  <2>1. PICK r : r = calls'[q]
    OBVIOUS
  <2>2. CheckoutHeld(r)
    BY <1>1, <2>1 DEF CheckoutCallsOK
  <2>3. CouponHeld(r)' /\ CartHeld(r)' /\ OrderHeld(r)'
    <3>1. CouponHeld(r)'
      BY <2>2 DEF CheckoutHeld, CouponHeld, RowsKept
    <3>2. CartHeld(r)'
      BY <2>2 DEF CheckoutHeld, CartHeld
    <3>3. OrderHeld(r)'
      BY <2>2 DEF CheckoutHeld, OrderHeld, RowsKept, OrderRow
    <3> QED BY <3>1, <3>2, <3>3
  <2> QED BY <2>1, <2>3 DEF CheckoutHeld, CouponHeld, CartHeld, OrderHeld, Stored
<1> QED
  BY <1>1, <1>2 DEF CheckoutCallsOK

\* A step that changes one call alone.
LEMMA CheckoutReadStep ==
    ASSUME CheckoutInv, NEW p \in Proc, NEW c, CheckoutHeld(c), calls' = [calls EXCEPT ![p] = c],
           UNCHANGED <<couponVars, cartVars, orders>>
    PROVE  CheckoutInv'
<1>1. RowsKept
  BY DEF RowsKept, Stored, couponVars
<1>2. CheckoutCallsOK'
  BY <1>1, CallsKept DEF CheckoutInv
<1>3. CouponPart'
  BY DEF CheckoutInv, CouponPart, CouponTypeOK, Live, Stored, couponVars
<1>4. CartPart' /\ StockBook'
  BY DEF CheckoutInv, CartPart, StockBook, cartVars
<1>5. OrderPart' /\ CouponUseIsBounded'
  BY DEF CheckoutInv, OrderPart, CouponUseIsBounded, OrdersWith, Stored, couponVars
<1> QED BY <1>2, <1>3, <1>4, <1>5 DEF CheckoutInv

\* A row of a coupon is written; its uses stay as they are.
LEMMA CouponRowStep ==
    ASSUME CheckoutInv, NEW k \in CouponId, Stored(k), NEW row \in CouponRow, row.used = coupons[k].used,
           \A d \in CouponId \ {k} : Stored(d) => coupons[d].code # row.code,
           NEW n \in SUBSET Limits, limits[k] \subseteq n, row.maxUses \in n,
           coupons' = [coupons EXCEPT ![k] = row], limits' = [limits EXCEPT ![k] = n],
           UNCHANGED <<verdicts, cartVars, orders>>
    PROVE  /\ RowsKept /\ CouponPart' /\ CartPart' /\ OrderPart' /\ StockBook' /\ CouponUseIsBounded'
<1>1. row # NoCoupon
  BY RowIsNotNoCoupon
<1>2. coupons \in [CouponId -> CouponRow \cup {NoCoupon}] /\ limits \in [CouponId -> SUBSET Limits]
  BY DEF CheckoutInv, CouponPart, CouponTypeOK
<1>3. RowsKept /\ \A d \in CouponId : Stored(d)' = Stored(d)
  BY <1>1, <1>2 DEF RowsKept, Stored
<1>4. CouponPart'
  BY <1>1, <1>2 DEF CheckoutInv, CouponPart, CouponTypeOK, Stored, Live
<1>5. CartPart' /\ StockBook'
  BY DEF CheckoutInv, CartPart, StockBook, cartVars
<1>6. OrderPart'
  BY <1>3 DEF CheckoutInv, OrderPart, Placed, OrderRow
<1>7. CouponUseIsBounded'
  <2>1. ASSUME NEW d \in CouponId, Stored(d)
        PROVE  coupons'[d].used = coupons[d].used /\ limits[d] \subseteq limits'[d]
    BY <1>2 DEF Stored
  <2>2. ASSUME NEW d \in CouponId PROVE OrdersWith(d)' = OrdersWith(d)
    BY DEF OrdersWith
  <2> QED BY <1>3, <2>1, <2>2 DEF CheckoutInv, CouponUseIsBounded
<1> QED BY <1>3, <1>4, <1>5, <1>6, <1>7

\* The fields of a request, written to a row.
LEMMA CouponPatched ==
    ASSUME NEW row \in CouponRow, NEW dto \in CouponPatch
    PROVE  /\ Patched(row, dto) \in CouponRow /\ Patched(row, dto).used = row.used
           /\ Patched(row, dto).code = IF "code" \in DOMAIN dto THEN dto.code ELSE row.code
           /\ Patched(row, dto).maxUses = IF "maxUses" \in DOMAIN dto THEN dto.maxUses ELSE row.maxUses
           /\ "maxUses" \in DOMAIN dto => dto.maxUses \in Limits
<1>0. PICK r : r = Patched(row, dto)
  OBVIOUS
<1>1. r = [code |-> r.code, discountType |-> r.discountType, value |-> r.value, expiry |-> r.expiry,
           maxUses |-> r.maxUses, used |-> r.used, scope |-> r.scope, categories |-> r.categories,
           isActive |-> r.isActive, deleted |-> r.deleted]
  BY <1>0 DEF Patched, CouponRow
<1>2. /\ r.code \in Code /\ r.discountType \in DiscountType /\ r.value \in Values /\ r.expiry \in Expiry
      /\ r.maxUses \in Limits /\ r.used = row.used /\ r.scope \in {"ALL", "SPECIFIC"}
      /\ r.categories \in SUBSET Category /\ r.isActive \in BOOLEAN /\ r.deleted \in BOOLEAN
  BY <1>0 DEF Patched, CouponRow, CouponPatch
<1>3. /\ r.code = IF "code" \in DOMAIN dto THEN dto.code ELSE row.code
      /\ r.maxUses = IF "maxUses" \in DOMAIN dto THEN dto.maxUses ELSE row.maxUses
      /\ "maxUses" \in DOMAIN dto => dto.maxUses \in Limits
  BY <1>0 DEF Patched, CouponRow, CouponPatch
<1>4. r \in CouponRow
  BY <1>1, <1>2 DEF CouponRow
<1> QED
  BY <1>0, <1>2, <1>3, <1>4

\* No call moves, rows stay.
LEMMA CallsSame ==
    ASSUME CheckoutCallsOK, RowsKept, UNCHANGED calls
    PROVE  CheckoutCallsOK'
<1>1. ASSUME NEW q \in Proc PROVE CheckoutHeld(calls[q])'
  <2>1. PICK r : r = calls[q]
    OBVIOUS
  <2>2. CheckoutHeld(r)
    BY <2>1 DEF CheckoutCallsOK
  <2>3. CouponHeld(r)'
    BY <2>2 DEF CheckoutHeld, CouponHeld, RowsKept
  <2>4. CartHeld(r)'
    BY <2>2 DEF CheckoutHeld, CartHeld
  <2>5. OrderHeld(r)'
    BY <2>2 DEF CheckoutHeld, OrderHeld, RowsKept, OrderRow
  <2> QED BY <2>1, <2>3, <2>4, <2>5 DEF CheckoutHeld, CouponHeld, CartHeld, OrderHeld, Stored
<1> QED
  BY <1>1 DEF CheckoutCallsOK, CallsShape

\* The row create inserts.
LEMMA NewRowTyped ==
    ASSUME NEW dto \in CouponDto
    PROVE  NewRow(dto) \in CouponRow /\ NewRow(dto).used = 0 /\ NewRow(dto).code = dto.code
           /\ NewRow(dto).maxUses = dto.maxUses /\ dto.maxUses \in Limits
<1>0. PICK r : r = NewRow(dto)
  OBVIOUS
<1>1. r = [code |-> r.code, discountType |-> r.discountType, value |-> r.value, expiry |-> r.expiry,
           maxUses |-> r.maxUses, used |-> r.used, scope |-> r.scope, categories |-> r.categories,
           isActive |-> r.isActive, deleted |-> r.deleted]
  BY <1>0 DEF NewRow, CouponDto
<1>2. /\ r.code \in Code /\ r.discountType \in DiscountType /\ r.value \in Values /\ r.expiry \in Expiry
      /\ r.maxUses \in Limits /\ r.used = 0 /\ r.scope \in {"ALL", "SPECIFIC"}
      /\ r.categories \in SUBSET Category /\ r.isActive \in BOOLEAN /\ r.deleted \in BOOLEAN
      /\ r.code = dto.code /\ r.maxUses = dto.maxUses
  BY <1>0 DEF NewRow, CouponDto
<1>3. r \in CouponRow
  BY <1>1, <1>2 DEF CouponRow
<1> QED
  BY <1>0, <1>2, <1>3

\* create, at its insert: the code is tested again by the unique index.
LEMMA CouponInsertStep ==
    ASSUME CheckoutInv, NEW p \in Proc, CouponInsert(p), UNCHANGED <<cartVars, orders>>
    PROVE  CheckoutInv'
<1>1. calls' = [calls EXCEPT ![p] = Idle] /\ CheckoutHeld(Idle)
  BY IdleHeld DEF CouponInsert, Return, Goto
<1>2. PICK dto : dto = calls[p].dto
  OBVIOUS
<1>3. dto \in CouponDto
  BY <1>2 DEF CouponInsert, At, CheckoutInv, CheckoutCallsOK, CheckoutHeld, CouponHeld
<1>4. CASE UNCHANGED couponVars
  BY <1>1, <1>4, CheckoutReadStep
<1>5. ASSUME NEW k \in CouponId, ~CodeIndexed(dto.code, {}), ~Stored(k), coupons' = [coupons EXCEPT ![k] = NewRow(dto)],
             limits' = [limits EXCEPT ![k] = {dto.maxUses}], UNCHANGED verdicts
      PROVE  CheckoutInv'
  <2>1. PICK row \in CouponRow : row = NewRow(dto) /\ row.used = 0 /\ row.code = dto.code /\ row.maxUses = dto.maxUses
                                 /\ dto.maxUses \in Limits /\ row # NoCoupon
    BY <1>3, NewRowTyped, RowIsNotNoCoupon
  <2>2. coupons \in [CouponId -> CouponRow \cup {NoCoupon}] /\ limits \in [CouponId -> SUBSET Limits]
    BY DEF CheckoutInv, CouponPart, CouponTypeOK
  <2>3. /\ coupons'[k] = row /\ limits'[k] = {row.maxUses}
        /\ \A d \in CouponId \ {k} : coupons'[d] = coupons[d] /\ limits'[d] = limits[d]
    BY <1>5, <2>1, <2>2
  <2>4. RowsKept
    BY <1>5, <2>3 DEF RowsKept, Stored
  <2>5. CouponPart'
    <3>1. \A d \in CouponId : Stored(d) => coupons[d].code # row.code
      BY <1>5, <2>1 DEF CodeIndexed
    <3>2. \A c, d \in CouponId : (c # d /\ Stored(c)' /\ Stored(d)') => coupons'[c].code # coupons'[d].code
      BY <2>3, <3>1 DEF Stored, CheckoutInv, CouponPart
    <3>3. \A d \in CouponId : Stored(d)' => coupons'[d].maxUses \in limits'[d]
      BY <2>3 DEF Stored, CheckoutInv, CouponPart
    <3>4. CouponTypeOK'
      BY <1>5, <2>1, <3>2 DEF CouponTypeOK, Live, Stored, CheckoutInv, CouponPart
    <3> QED BY <3>2, <3>3, <3>4 DEF CouponPart
  <2>6. CartPart' /\ StockBook'
    BY DEF CheckoutInv, CartPart, StockBook, cartVars
  <2>7. OrderPart'
    BY <2>4 DEF RowsKept, CheckoutInv, OrderPart, Placed, OrderRow
  <2>8. CouponUseIsBounded'
    <3>1. OrdersWith(k) = {}
      BY <1>5, CheckoutAssumption DEF OrdersWith, CheckoutInv, OrderPart
    <3>2. row.maxUses \in limits'[k] /\ coupons'[k].used = 0 /\ 0 <= row.maxUses
      <4>1. row.maxUses \in Nat
        BY <2>1, CouponAssumption
      <4> QED BY <2>1, <2>3, <4>1
    <3>3. \A d \in CouponId : OrdersWith(d)' = OrdersWith(d)
      BY DEF OrdersWith
    <3>4. coupons'[k].used = Cardinality(OrdersWith(k)') /\ \E n \in limits'[k] : coupons'[k].used <= n
      BY <3>1, <3>2, <3>3, FS_EmptySet
    <3> QED BY <2>3, <3>3, <3>4 DEF CheckoutInv, CouponUseIsBounded, Stored
  <2>9. CheckoutCallsOK'
    BY <1>1, <2>4, CallsKept DEF CheckoutInv
  <2> QED BY <2>5, <2>6, <2>7, <2>8, <2>9 DEF CheckoutInv
<1> QED
  BY <1>2, <1>4, <1>5 DEF CouponInsert

\* update: the patch is merged into the row of this moment.
LEMMA CouponWriteStep ==
    ASSUME CheckoutInv, NEW p \in Proc, CouponWrite(p), UNCHANGED <<cartVars, orders>>
    PROVE  CheckoutInv'
<1>1. calls' = [calls EXCEPT ![p] = Idle] /\ CheckoutHeld(Idle)
  BY IdleHeld DEF CouponWrite, Return, Goto
<1>2. PICK k, dto : k = calls[p].id /\ dto = calls[p].dto
  OBVIOUS
<1>3. k \in CouponId /\ Stored(k) /\ dto \in CouponPatch /\ coupons[k] \in CouponRow
  BY <1>2 DEF CouponWrite, At, CheckoutInv, CheckoutCallsOK, CheckoutHeld, CouponHeld, CouponPart, CouponTypeOK, Stored
<1>4. CASE UNCHANGED couponVars
  BY <1>1, <1>4, CheckoutReadStep
<1>5. ASSUME ~("code" \in DOMAIN dto /\ CodeIndexed(dto.code, {k})),
             coupons' = [coupons EXCEPT ![k] = Patched(coupons[k], dto)],
             limits' = [limits EXCEPT ![k] = IF "maxUses" \in DOMAIN dto THEN limits[k] \cup {dto.maxUses} ELSE limits[k]],
             UNCHANGED verdicts
      PROVE  CheckoutInv'
  <2>1. PICK row \in CouponRow :
           /\ row = Patched(coupons[k], dto) /\ row.used = coupons[k].used
           /\ row.code = IF "code" \in DOMAIN dto THEN dto.code ELSE coupons[k].code
           /\ row.maxUses = IF "maxUses" \in DOMAIN dto THEN dto.maxUses ELSE coupons[k].maxUses
           /\ "maxUses" \in DOMAIN dto => dto.maxUses \in Limits
    BY <1>3, CouponPatched
  <2>2. PICK n : n = IF "maxUses" \in DOMAIN dto THEN limits[k] \cup {dto.maxUses} ELSE limits[k]
    OBVIOUS
  <2>3. n \in SUBSET Limits /\ limits[k] \subseteq n /\ row.maxUses \in n
    BY <1>3, <2>1, <2>2 DEF CheckoutInv, CouponPart, CouponTypeOK
  <2>4. \A d \in CouponId \ {k} : Stored(d) => coupons[d].code # row.code
    BY <1>3, <1>5, <2>1 DEF CodeIndexed, CheckoutInv, CouponPart
  <2>5. coupons' = [coupons EXCEPT ![k] = row] /\ limits' = [limits EXCEPT ![k] = n] /\ UNCHANGED <<verdicts, cartVars, orders>>
    BY <1>5, <2>1, <2>2
  <2>6. row.used = coupons[k].used /\ Stored(k) /\ k \in CouponId
    BY <1>3, <2>1
  <2>7. /\ RowsKept /\ CouponPart' /\ CartPart' /\ OrderPart' /\ StockBook' /\ CouponUseIsBounded'
    BY <2>3, <2>4, <2>5, <2>6, CouponRowStep
  <2>8. CheckoutCallsOK'
    BY <1>1, <2>7, CallsKept DEF CheckoutInv
  <2> QED BY <2>7, <2>8 DEF CheckoutInv
<1> QED
  BY <1>2, <1>4, <1>5 DEF CouponWrite

\* Flags of a row: deleted, active, expired.
LEMMA CouponFlagStep ==
    ASSUME CheckoutInv, NEW k \in CouponId, Stored(k), NEW row,
           \/ row = [coupons[k] EXCEPT !.deleted = TRUE]
           \/ \E b \in BOOLEAN : row = [coupons[k] EXCEPT !.isActive = b]
           \/ row = [coupons[k] EXCEPT !.expiry = "past"],
           coupons' = [coupons EXCEPT ![k] = row], UNCHANGED <<verdicts, limits, cartVars, orders>>
    PROVE  /\ RowsKept /\ CouponPart' /\ CartPart' /\ OrderPart' /\ StockBook' /\ CouponUseIsBounded'
<1>1. coupons[k] \in CouponRow /\ limits \in [CouponId -> SUBSET Limits]
  BY DEF CheckoutInv, CouponPart, CouponTypeOK, Stored
<1>2. row \in CouponRow /\ row.used = coupons[k].used /\ row.code = coupons[k].code /\ row.maxUses = coupons[k].maxUses
  BY <1>1 DEF CouponRow, Expiry
<1>3. limits' = [limits EXCEPT ![k] = limits[k]] /\ limits[k] \in SUBSET Limits
  BY <1>1
<1>4. row.maxUses \in limits[k] /\ \A d \in CouponId \ {k} : Stored(d) => coupons[d].code # row.code
  BY <1>2 DEF CheckoutInv, CouponPart
<1> QED
  BY <1>2, <1>3, <1>4, CouponRowStep

\* toggle and delete.
LEMMA CouponMarkStep ==
    ASSUME CheckoutInv, NEW p \in Proc, CouponDeleteWrite(p) \/ CouponToggleWrite(p), UNCHANGED <<cartVars, orders>>
    PROVE  CheckoutInv'
<1>1. calls' = [calls EXCEPT ![p] = Idle] /\ CheckoutHeld(Idle) /\ UNCHANGED <<verdicts, limits>>
  BY IdleHeld DEF CouponDeleteWrite, CouponToggleWrite, Return, Goto
<1>2. PICK k, b : k = calls[p].id /\ b = calls[p].isActive
  OBVIOUS
<1>3. k \in CouponId /\ Stored(k) /\ (calls[p].at = "coupon.toggle" => b \in BOOLEAN)
  BY <1>2 DEF CouponDeleteWrite, CouponToggleWrite, At, CheckoutInv, CheckoutCallsOK, CheckoutHeld, CouponHeld
<1>4. PICK row : /\ coupons' = [coupons EXCEPT ![k] = row]
                 /\ \/ row = [coupons[k] EXCEPT !.deleted = TRUE]
                    \/ \E x \in BOOLEAN : row = [coupons[k] EXCEPT !.isActive = x]
  <2>1. CASE CouponDeleteWrite(p)
    BY <1>2, <2>1 DEF CouponDeleteWrite
  <2>2. CASE CouponToggleWrite(p)
    BY <1>2, <1>3, <2>2 DEF CouponToggleWrite, At
  <2> QED BY <2>1, <2>2
<1>5. /\ RowsKept /\ CouponPart' /\ CartPart' /\ OrderPart' /\ StockBook' /\ CouponUseIsBounded'
  BY <1>1, <1>3, <1>4, CouponFlagStep
<1>6. CheckoutCallsOK'
  BY <1>1, <1>5, CallsKept DEF CheckoutInv
<1> QED
  BY <1>5, <1>6 DEF CheckoutInv

\* The cache of validate.
LEMMA VerdictsStep ==
    ASSUME CheckoutInv, verdicts' \in [CacheKey -> Verdict], UNCHANGED <<coupons, limits, cartVars, orders>>
    PROVE  /\ RowsKept /\ CouponPart' /\ CartPart' /\ OrderPart' /\ StockBook' /\ CouponUseIsBounded'
<1>1. RowsKept /\ CouponPart'
  BY DEF RowsKept, Stored, CheckoutInv, CouponPart, CouponTypeOK, Live
<1>2. CartPart' /\ StockBook'
  BY DEF CheckoutInv, CartPart, StockBook, cartVars
<1>3. OrderPart' /\ CouponUseIsBounded'
  BY DEF CheckoutInv, OrderPart, CouponUseIsBounded, OrdersWith, Stored
<1> QED BY <1>1, <1>2, <1>3

\* validate, when it writes its verdict to the cache.
LEMMA CouponCacheStep ==
    ASSUME CheckoutInv, NEW p \in Proc, CouponCache(p), UNCHANGED <<cartVars, orders>>
    PROVE  CheckoutInv'
<1>1. calls' = [calls EXCEPT ![p] = Idle] /\ CheckoutHeld(Idle) /\ UNCHANGED <<coupons, limits>>
  BY IdleHeld DEF CouponCache, Return, Goto
<1>2. calls[p].key \in CacheKey /\ calls[p].verdict \in Verdict
  BY DEF CouponCache, At, CheckoutInv, CheckoutCallsOK, CheckoutHeld, CouponHeld
<1>3. verdicts' \in [CacheKey -> Verdict]
  BY <1>2 DEF CouponCache, CheckoutInv, CouponPart, CouponTypeOK
<1>4. /\ RowsKept /\ CouponPart' /\ CartPart' /\ OrderPart' /\ StockBook' /\ CouponUseIsBounded'
  BY <1>1, <1>3, VerdictsStep
<1>5. CheckoutCallsOK'
  BY <1>1, <1>4, CallsKept DEF CheckoutInv
<1> QED
  BY <1>4, <1>5 DEF CheckoutInv

\* A coupon or a cached verdict expires.
LEMMA CouponTimeStep ==
    ASSUME CheckoutInv, CouponTime, UNCHANGED <<cartVars, orders>>
    PROVE  CheckoutInv'
<1>1. UNCHANGED calls
  BY DEF CouponTime, VerdictLapses, CouponExpires, callVars
<1>2. ASSUME NEW key \in CacheKey, VerdictLapses(key)
      PROVE  RowsKept /\ CouponPart' /\ CartPart' /\ OrderPart' /\ StockBook' /\ CouponUseIsBounded'
  <2>1. verdicts' \in [CacheKey -> Verdict]
    BY <1>2 DEF VerdictLapses, CheckoutInv, CouponPart, CouponTypeOK, Verdict
  <2> QED BY <1>2, <2>1, VerdictsStep DEF VerdictLapses
<1>3. ASSUME NEW k \in CouponId, CouponExpires(k)
      PROVE  RowsKept /\ CouponPart' /\ CartPart' /\ OrderPart' /\ StockBook' /\ CouponUseIsBounded'
  <2>1. PICK row : row = [coupons[k] EXCEPT !.expiry = "past"]
    OBVIOUS
  <2>2. Stored(k) /\ coupons' = [coupons EXCEPT ![k] = row] /\ UNCHANGED <<verdicts, limits>>
    BY <1>3, <2>1 DEF CouponExpires
  <2> QED BY <2>1, <2>2, CouponFlagStep
<1>4. RowsKept /\ CouponPart' /\ CartPart' /\ OrderPart' /\ StockBook' /\ CouponUseIsBounded'
  BY <1>2, <1>3 DEF CouponTime
<1>5. CheckoutCallsOK'
  BY <1>1, <1>4, CallsSame DEF CheckoutInv
<1> QED
  BY <1>4, <1>5 DEF CheckoutInv

\* What validate answers.
LEMMA VerdictTyped ==
    ASSUME NEW code, NEW asked
    PROVE  VerdictOf(code, asked) \in Verdict
<1>1. ASSUME NEW row PROVE InvalidReason(row, asked) \in Verdict
  <2>1. CASE ~row.isActive
    BY <2>1 DEF InvalidReason, Verdict
  <2>2. CASE row.isActive /\ row.expiry = "past"
    BY <2>2 DEF InvalidReason, Verdict
  <2>3. CASE row.isActive /\ row.expiry # "past" /\ row.maxUses # 0 /\ row.used >= row.maxUses
    BY <2>3 DEF InvalidReason, Verdict
  <2>4. CASE row.isActive /\ row.expiry # "past" /\ ~(row.maxUses # 0 /\ row.used >= row.maxUses)
    BY <2>4 DEF InvalidReason, Verdict
  <2> QED BY <2>1, <2>2, <2>3, <2>4
<1> QED
  BY <1>1 DEF VerdictOf, Verdict

\* validate, from the cache or from the rows.
LEMMA CouponValidateStep ==
    ASSUME CheckoutInv, NEW p \in Proc, NEW code \in Code, NEW asked \in SUBSET Category,
           CouponValidate(p, code, asked), UNCHANGED <<cartVars, orders>>
    PROVE  CheckoutInv'
<1>1. PICK key : key = <<code, asked>>
  OBVIOUS
<1>2. PICK c : c = [at |-> "coupon.cache", key |-> key, verdict |-> VerdictOf(code, asked)]
  OBVIOUS
<1>3. CheckoutHeld(c)
  <2>1. c.at = "coupon.cache" /\ c.key \in CacheKey /\ c.verdict \in Verdict
    BY <1>1, <1>2, VerdictTyped DEF CacheKey
  <2> QED BY <2>1 DEF CheckoutHeld, CouponHeld, CartHeld, OrderHeld
<1>4. calls' = [calls EXCEPT ![p] = Idle] \/ calls' = [calls EXCEPT ![p] = c]
  BY <1>1, <1>2 DEF CouponValidate, Serve, Begin
<1>5. UNCHANGED <<couponVars, cartVars, orders>>
  BY DEF CouponValidate
<1> QED
  BY <1>3, <1>4, <1>5, IdleHeld, CheckoutReadStep

\* Requests of the staff.
LEMMA CouponRequestStep ==
    ASSUME CheckoutInv, NEW p \in Proc, CouponAdminRequest(p), UNCHANGED <<cartVars, orders>>
    PROVE  CheckoutInv'
<1>1. PICK c : CheckoutHeld(c) /\ calls' = [calls EXCEPT ![p] = c]
  <2>1. ASSUME NEW d \in NewCoupons, CouponCreate(p, d)
        PROVE  \E c : CheckoutHeld(c) /\ calls' = [calls EXCEPT ![p] = c]
    <3>1. PICK c : c = [at |-> "coupon.insert", dto |-> d]
      OBVIOUS
    <3>2. CheckoutHeld(c)
      BY <3>1, RequestAssumption DEF CheckoutHeld, CouponHeld, CartHeld, OrderHeld
    <3> QED BY <2>1, <3>1, <3>2 DEF CouponCreate, Begin
  <2>2. ASSUME NEW k \in CouponId, CouponDelete(p, k) \/ CouponToggle(p, k)
        PROVE  \E c : CheckoutHeld(c) /\ calls' = [calls EXCEPT ![p] = c]
    <3>1. Stored(k) /\ coupons[k].isActive \in BOOLEAN
      BY <2>2 DEF CouponDelete, CouponToggle, Live, Stored, CheckoutInv, CouponPart, CouponTypeOK, CouponRow
    <3>2. PICK c : /\ calls' = [calls EXCEPT ![p] = c]
                   /\ \/ c = [at |-> "coupon.delete", id |-> k]
                      \/ c = [at |-> "coupon.toggle", id |-> k, isActive |-> ~coupons[k].isActive]
      BY <2>2 DEF CouponDelete, CouponToggle, Begin
    <3>3. c.at \in {"coupon.delete", "coupon.toggle"} /\ c.id = k /\ (c.at = "coupon.toggle" => c.isActive = ~coupons[k].isActive)
      BY <3>2
    <3>4. CheckoutHeld(c)
      BY <3>1, <3>3 DEF CheckoutHeld, CouponHeld, CartHeld, OrderHeld
    <3> QED BY <3>2, <3>4
  <2>3. ASSUME NEW k \in CouponId, NEW d \in Patches, CouponUpdate(p, k, d)
        PROVE  \E c : CheckoutHeld(c) /\ calls' = [calls EXCEPT ![p] = c]
    <3>1. PICK c : c = [at |-> "coupon.write", id |-> k, dto |-> d]
      OBVIOUS
    <3>2. Stored(k) /\ calls' = [calls EXCEPT ![p] = c]
      BY <2>3, <3>1 DEF CouponUpdate, Begin, Live
    <3>3. CheckoutHeld(c)
      BY <3>1, <3>2, RequestAssumption DEF CheckoutHeld, CouponHeld, CartHeld, OrderHeld
    <3> QED BY <3>2, <3>3
  <2> QED BY <2>1, <2>2, <2>3 DEF CouponAdminRequest
<1>2. UNCHANGED couponVars
  BY DEF CouponAdminRequest, CouponCreate, CouponDelete, CouponToggle, CouponUpdate
<1> QED
  BY <1>1, <1>2, CheckoutReadStep

\* Any step of the coupons.
LEMMA CouponMoves ==
    ASSUME CheckoutInv, CouponNext, UNCHANGED <<cartVars, orders>>
    PROVE  CheckoutInv'
<1>1. ASSUME NEW p \in Proc, CouponPublicRequest(p) PROVE CheckoutInv'
  BY <1>1, CouponValidateStep, CouponAssumption DEF CouponPublicRequest
<1>2. ASSUME NEW p \in Proc, CouponStep(p) PROVE CheckoutInv'
  BY <1>2, CouponInsertStep, CouponWriteStep, CouponMarkStep, CouponCacheStep DEF CouponStep
<1> QED
  BY <1>1, <1>2, CouponRequestStep, CouponTimeStep DEF CouponNext

-------------------------------------------------------------------------------
(* Carts and goods *)

\* A cart line written again is a cart line.
LEMMA OneLine ==
    ASSUME NEW l \in CartLine
    PROVE  /\ \A n \in Nat \ {0} : [l EXCEPT !.quantity = n] \in CartLine
           /\ \A n \in Nat \ {0}, x \in Price : [l EXCEPT !.quantity = n, !.unitPrice = x] \in CartLine
BY DEF CartLine

\* Carts change; coupons, goods and orders rest.
LEMMA CartsStep ==
    ASSUME CheckoutInv, carts' \in [User -> FiniteLines], lastLine' \in 0 .. MaxLines, UNCHANGED <<goods, couponVars, orders>>,
           NEW p \in Proc, calls' = [calls EXCEPT ![p] = Idle]
    PROVE  CheckoutInv'
<1>1. RowsKept /\ CouponPart'
  BY DEF RowsKept, Stored, CheckoutInv, CouponPart, CouponTypeOK, Live, couponVars
<1>2. CheckoutCallsOK'
  BY <1>1, IdleHeld, CallsKept DEF CheckoutInv
<1>3. CartPart' /\ StockBook'
  BY DEF CheckoutInv, CartPart, StockBook
<1>4. OrderPart' /\ CouponUseIsBounded'
  BY DEF CheckoutInv, OrderPart, CouponUseIsBounded, OrdersWith, Stored, couponVars
<1> QED BY <1>1, <1>2, <1>3, <1>4 DEF CheckoutInv

\* Writing to the lines of a cart keeps it a finite set of lines.
LEMMA LinesWritten ==
    ASSUME NEW lines \in FiniteLines, NEW id, NEW n \in Nat \ {0}
    PROVE  {IF l.id = id THEN [l EXCEPT !.quantity = n] ELSE l : l \in lines} \in FiniteLines
<1>1. IsFiniteSet(lines) /\ lines \subseteq CartLine
  BY DEF FiniteLines
<1>2. PICK f : f = [l \in lines |-> IF l.id = id THEN [l EXCEPT !.quantity = n] ELSE l]
  OBVIOUS
<1>3. {IF l.id = id THEN [l EXCEPT !.quantity = n] ELSE l : l \in lines} = {f[l] : l \in lines}
  BY <1>2
<1>4. \A l \in lines : f[l] \in CartLine
  BY <1>1, <1>2, OneLine
<1> QED BY <1>1, <1>3, <1>4, ImageIsFinite DEF FiniteLines

Repriced(lines, id, n, x) ==
    {IF l.id = id THEN [l EXCEPT !.quantity = n, !.unitPrice = x] ELSE l : l \in lines}

\* A line found in the cart takes the new quantity and price.
LEMMA LinesRepriced ==
    ASSUME NEW lines \in FiniteLines, NEW id, NEW n \in Nat \ {0}, NEW x \in Price
    PROVE  Repriced(lines, id, n, x) \in FiniteLines
<1>1. IsFiniteSet(lines) /\ lines \subseteq CartLine
  BY DEF FiniteLines
<1>2. PICK f : f = [l \in lines |-> IF l.id = id THEN [l EXCEPT !.quantity = n, !.unitPrice = x] ELSE l]
  OBVIOUS
<1>3. Repriced(lines, id, n, x) = {f[l] : l \in lines}
  BY <1>2 DEF Repriced
<1>4. \A l \in lines : f[l] \in CartLine
  BY <1>1, <1>2, OneLine
<1> QED BY <1>1, <1>3, <1>4, ImageIsFinite DEF FiniteLines

\* The lines syncCart inserts.
LEMMA NewLinesTyped ==
    ASSUME CheckoutInv, NEW items \in SUBSET CartItem, IsFiniteSet(items), lastLine + Cardinality(items) <= MaxLines
    PROVE  NewLines(items) \in FiniteLines
<1> DEFINE Numbers(n) == n \in [items -> 1 .. Cardinality(items)] /\ \A i, j \in items : i # j => n[i] # n[j]
<1>1. PICK number : number = CHOOSE n \in [items -> 1 .. Cardinality(items)] : \A i, j \in items : i # j => n[i] # n[j]
  OBVIOUS
<1>2. number \in [items -> 1 .. Cardinality(items)]
  BY <1>1, NumberingExists
<1>3. PICK f : f = [i \in items |-> [id |-> lastLine + number[i], good |-> i.good, quantity |-> i.quantity,
                                   unitPrice |-> i.unitPrice]]
  OBVIOUS
<1>4. NewLines(items) = {f[i] : i \in items}
  BY <1>1, <1>3 DEF NewLines
<1>5. lastLine \in Nat /\ Cardinality(items) \in Nat /\ MaxLines \in Nat
  BY FS_CardinalityType, CartAssumption DEF CheckoutInv, CartPart
<1>6. ASSUME NEW i \in items PROVE f[i] \in CartLine
  <2>1. lastLine + number[i] \in LineId
    BY <1>2, <1>5 DEF LineId
  <2> QED BY <1>3, <2>1 DEF CartItem, CartLine
<1> QED BY <1>4, <1>6, ImageIsFinite DEF FiniteLines

\* The steps of cart.service.ts that write.
LEMMA CartWritesStep ==
    ASSUME CheckoutInv, NEW p \in Proc, UNCHANGED <<couponVars, orders>>,
           \/ CartCreate(p) \/ CartWrite(p) \/ CartQuantity(p) \/ CartDelete(p) \/ CartCommit(p)
           \/ \E u \in User : CartClear(p, u)
    PROVE  CheckoutInv'
<1>1. carts \in [User -> FiniteLines] /\ lastLine \in 0 .. MaxLines /\ MaxLines \in Nat
  BY CartAssumption DEF CheckoutInv, CartPart
<1>2. PICK c : c = calls[p]
  OBVIOUS
<1>3. CartHeld(c)
  BY <1>2 DEF CheckoutInv, CheckoutCallsOK, CheckoutHeld
<1>4. ASSUME NEW u \in User, NEW lines \in FiniteLines, carts' = [carts EXCEPT ![u] = lines]
      PROVE  carts' \in [User -> FiniteLines]
  BY <1>1, <1>4
<1>5. calls' = [calls EXCEPT ![p] = Idle] /\ UNCHANGED goods
  BY DEF CartCreate, CartWrite, CartQuantity, CartDelete, CartCommit, CartClear, Return, Goto, Serve, Begin
<1>6. carts' \in [User -> FiniteLines] /\ lastLine' \in 0 .. MaxLines
  <2>1. CASE CartCreate(p)
    <3>1. PICK l : l = [id |-> lastLine + 1, good |-> c.good, quantity |-> c.quantity, unitPrice |-> c.unitPrice]
      OBVIOUS
    <3>2. lastLine < MaxLines /\ lastLine' = lastLine + 1 /\ c.user \in User /\ c.good \in Good
          /\ c.quantity \in Nat \ {0} /\ c.unitPrice \in Price
      BY <1>2, <1>3, <2>1 DEF CartCreate, At, CartHeld
    <3>3. l \in CartLine
      BY <1>1, <3>1, <3>2 DEF CartLine, LineId
    <3>4. carts[c.user] \cup {l} \in FiniteLines
      BY <1>1, <3>2, <3>3, FS_AddElement DEF FiniteLines
    <3>5. carts' = [carts EXCEPT ![c.user] = carts[c.user] \cup {l}]
      BY <1>2, <2>1, <3>1 DEF CartCreate
    <3>6. lastLine' \in 0 .. MaxLines
      BY <1>1, <3>2
    <3> QED BY <1>4, <3>2, <3>4, <3>5, <3>6
  <2>2. CASE CartWrite(p)
    <3>1. c.user \in User /\ c.quantity \in Nat \ {0} /\ c.unitPrice \in Price
      BY <1>2, <1>3, <2>2 DEF CartWrite, At, CartHeld
    <3>0. PICK id : id = c.id
      OBVIOUS
    <3>2. PICK old \in FiniteLines, n \in Nat \ {0}, x \in Price :
             old = carts[c.user] /\ n = c.quantity /\ x = c.unitPrice
      BY <1>1, <3>1
    <3>3. PICK lines \in FiniteLines : lines = Repriced(old, id, n, x)
      BY LinesRepriced
    <3>4. carts' = [carts EXCEPT ![c.user] = lines] /\ UNCHANGED lastLine
      BY <1>2, <2>2, <3>0, <3>2, <3>3 DEF CartWrite, Repriced
    <3> QED BY <1>1, <1>4, <3>1, <3>3, <3>4
  <2>3. CASE CartQuantity(p)
    <3>1. c.user \in User /\ c.quantity \in Nat \ {0}
      BY <1>2, <1>3, <2>3 DEF CartQuantity, At, CartHeld
    <3>0. PICK id : id = c.id
      OBVIOUS
    <3>2. PICK old \in FiniteLines, n \in Nat \ {0} : old = carts[c.user] /\ n = c.quantity
      BY <1>1, <3>1
    <3>3. PICK lines \in FiniteLines : lines = {IF l.id = id THEN [l EXCEPT !.quantity = n] ELSE l : l \in old}
      BY LinesWritten
    <3>4. carts' = [carts EXCEPT ![c.user] = lines] /\ UNCHANGED lastLine
      BY <1>2, <2>3, <3>0, <3>2, <3>3 DEF CartQuantity
    <3> QED BY <1>1, <1>4, <3>1, <3>3, <3>4
  <2>4. CASE CartDelete(p)
    <3>1. c.user \in User
      BY <1>2, <1>3, <2>4 DEF CartDelete, At, CartHeld
    <3>2. carts[c.user] \ LineOf(c.user, c.id) \in FiniteLines
      BY <1>1, <3>1, FS_Subset DEF FiniteLines
    <3>3. carts' = [carts EXCEPT ![c.user] = carts[c.user] \ LineOf(c.user, c.id)] /\ UNCHANGED lastLine
      BY <1>2, <2>4 DEF CartDelete
    <3> QED BY <1>1, <1>4, <3>1, <3>2, <3>3
  <2>5. CASE CartCommit(p)
    <3>1. c.user \in User /\ c.items \in SUBSET CartItem /\ IsFiniteSet(c.items)
      BY <1>2, <1>3, <2>5 DEF CartCommit, At, CartHeld
    <3>2. lastLine + Cardinality(c.items) <= MaxLines /\ lastLine' = lastLine + Cardinality(c.items)
          /\ carts' = [carts EXCEPT ![c.user] = {l \in carts[c.user] : l.id \notin c.old} \cup NewLines(c.items)]
      BY <1>2, <2>5 DEF CartCommit
    <3>3. NewLines(c.items) \in FiniteLines /\ Cardinality(c.items) \in Nat
      BY <3>1, <3>2, NewLinesTyped, FS_CardinalityType
    <3>4. PICK kept : kept = {l \in carts[c.user] : l.id \notin c.old}
      OBVIOUS
    <3>5. kept \in FiniteLines
      BY <1>1, <3>1, <3>4, FS_Subset DEF FiniteLines
    <3>6. kept \cup NewLines(c.items) \in FiniteLines
      BY <3>3, <3>5, FS_Union DEF FiniteLines
    <3>7. lastLine' \in 0 .. MaxLines
      BY <1>1, <3>2, <3>3
    <3> QED BY <1>4, <3>1, <3>2, <3>4, <3>6, <3>7
  <2>6. ASSUME NEW u \in User, CartClear(p, u) PROVE carts' \in [User -> FiniteLines] /\ lastLine' \in 0 .. MaxLines
    <3>1. {} \in FiniteLines
      BY FS_EmptySet DEF FiniteLines
    <3> QED BY <1>1, <1>4, <2>6, <3>1 DEF CartClear
  <2> QED BY <2>1, <2>2, <2>3, <2>4, <2>5, <2>6
<1> QED
  BY <1>5, <1>6, CartsStep

\* A call on carts holds nothing else.
LEMMA CartHeldOnly ==
    ASSUME NEW c, CartHeld(c), c.at \in {"cart.find", "cart.create", "cart.write", "cart.quantity", "cart.delete",
                                        "cart.replace", "cart.commit"}
    PROVE  CheckoutHeld(c)
BY DEF CheckoutHeld, CouponHeld, OrderHeld

\* The steps of cart.service.ts that only read.
LEMMA CartReadsStep ==
    ASSUME CheckoutInv, NEW p \in Proc, UNCHANGED <<couponVars, orders>>,
           \/ CartFind(p) \/ CartReplace(p)
           \/ \E u \in User :
                 \/ \E g \in Good, n \in Quantity : CartAdd(p, u, g, n)
                 \/ \E id \in LineId, n \in Quantity : CartUpdate(p, u, id, n)
                 \/ \E id \in LineId : CartRemove(p, u, id)
                 \/ \E items \in SUBSET ItemDto : CartSync(p, u, items)
    PROVE  CheckoutInv'
<1>1. goods \in [Good -> GoodRow] /\ carts \in [User -> FiniteLines]
  BY DEF CheckoutInv, CartPart
<1>2. PICK c : CheckoutHeld(c) /\ calls' = [calls EXCEPT ![p] = c]
  <2>1. CASE CartFind(p)
    <3>1. PICK d : d = calls[p]
      OBVIOUS
    <3>2. /\ d = [at |-> "cart.find", user |-> d.user, good |-> d.good, quantity |-> d.quantity, unitPrice |-> d.unitPrice]
          /\ d.user \in User /\ d.good \in Good /\ d.quantity \in Nat \ {0} /\ d.unitPrice \in Price
      BY <2>1, <3>1 DEF CartFind, At, CheckoutInv, CheckoutCallsOK, CheckoutHeld, CartHeld
    <3>3. CASE calls' = [calls EXCEPT ![p] = [d EXCEPT !.at = "cart.create"]]
      <4>1. PICK c : c = [at |-> "cart.create", user |-> d.user, good |-> d.good, quantity |-> d.quantity,
                          unitPrice |-> d.unitPrice]
        OBVIOUS
      <4>2. c = [d EXCEPT !.at = "cart.create"]
        BY <3>2, <4>1
      <4>3. CartHeld(c) /\ c.at = "cart.create"
        BY <3>2, <4>1 DEF CartHeld
      <4> QED BY <3>3, <4>2, <4>3, CartHeldOnly
    <3>4. ASSUME NEW l \in carts[d.user],
                 calls' = [calls EXCEPT ![p] = [at |-> "cart.write", user |-> d.user, id |-> l.id,
                                                quantity |-> l.quantity + d.quantity, unitPrice |-> d.unitPrice]]
          PROVE  \E c : CheckoutHeld(c) /\ calls' = [calls EXCEPT ![p] = c]
      <4>1. PICK c : c = [at |-> "cart.write", user |-> d.user, id |-> l.id, quantity |-> l.quantity + d.quantity,
                          unitPrice |-> d.unitPrice]
        OBVIOUS
      <4>2. l.quantity \in Nat \ {0}
        BY <1>1, <3>2 DEF FiniteLines, CartLine
      <4>3. CartHeld(c) /\ c.at = "cart.write"
        BY <3>2, <4>1, <4>2 DEF CartHeld
      <4> QED BY <3>4, <4>1, <4>3, CartHeldOnly
    <3>5. CASE calls' = [calls EXCEPT ![p] = Idle]
      BY <3>5, IdleHeld
    <3> QED BY <2>1, <3>1, <3>3, <3>4, <3>5 DEF CartFind, Goto, Return
  <2>2. CASE CartReplace(p)
    <3>1. PICK d : d = calls[p]
      OBVIOUS
    <3>2. d.user \in User /\ d.items \in SUBSET CartItem /\ IsFiniteSet(d.items)
      BY <2>2, <3>1 DEF CartReplace, At, CheckoutInv, CheckoutCallsOK, CheckoutHeld, CartHeld
    <3>3. PICK c : c = [at |-> "cart.commit", user |-> d.user, items |-> d.items, old |-> {l.id : l \in carts[d.user]}]
      OBVIOUS
    <3>4. calls' = [calls EXCEPT ![p] = c]
      BY <2>2, <3>1, <3>3 DEF CartReplace, Goto
    <3>5. CartHeld(c) /\ c.at = "cart.commit"
      BY <3>2, <3>3 DEF CartHeld
    <3> QED BY <3>4, <3>5, CartHeldOnly
  <2>3. ASSUME NEW u \in User, NEW g \in Good, NEW n \in Quantity, CartAdd(p, u, g, n)
        PROVE  \E c : CheckoutHeld(c) /\ calls' = [calls EXCEPT ![p] = c]
    <3>1. PICK c : c = [at |-> "cart.find", user |-> u, good |-> g, quantity |-> n, unitPrice |-> goods[g].price]
      OBVIOUS
    <3>2. n \in Nat \ {0} /\ goods[g].price \in Price
      BY <1>1, CartAssumption DEF GoodRow
    <3>3. CartHeld(c) /\ c.at = "cart.find"
      BY <3>1, <3>2 DEF CartHeld
    <3> QED BY <2>3, <3>1, <3>3, CartHeldOnly DEF CartAdd, Begin
  <2>4. ASSUME NEW u \in User, NEW id \in LineId, NEW n \in Quantity, CartUpdate(p, u, id, n)
        PROVE  \E c : CheckoutHeld(c) /\ calls' = [calls EXCEPT ![p] = c]
    <3>1. PICK c : c = [at |-> "cart.quantity", user |-> u, id |-> id, quantity |-> n]
      OBVIOUS
    <3>2. CartHeld(c) /\ c.at = "cart.quantity"
      BY <3>1, CartAssumption DEF CartHeld
    <3> QED BY <2>4, <3>1, <3>2, CartHeldOnly DEF CartUpdate, Begin
  <2>5. ASSUME NEW u \in User, NEW id \in LineId, CartRemove(p, u, id)
        PROVE  \E c : CheckoutHeld(c) /\ calls' = [calls EXCEPT ![p] = c]
    <3>1. PICK c : c = [at |-> "cart.delete", user |-> u, id |-> id]
      OBVIOUS
    <3>2. CartHeld(c) /\ c.at = "cart.delete"
      BY <3>1 DEF CartHeld
    <3> QED BY <2>5, <3>1, <3>2, CartHeldOnly DEF CartRemove, Begin
  <2>6. ASSUME NEW u \in User, NEW items \in SUBSET ItemDto, CartSync(p, u, items)
        PROVE  \E c : CheckoutHeld(c) /\ calls' = [calls EXCEPT ![p] = c]
    <3>1. PICK f : f = [i \in items |-> [good |-> i.good, quantity |-> i.quantity, unitPrice |-> goods[i.good].price]]
      OBVIOUS
    <3>2. PICK priced : priced = {f[i] : i \in items}
      OBVIOUS
    <3>3. priced = {[good |-> i.good, quantity |-> i.quantity, unitPrice |-> goods[i.good].price] : i \in items}
      BY <3>1, <3>2
    <3>4. priced \in SUBSET CartItem
      <4>1. ASSUME NEW i \in items PROVE f[i] \in CartItem
        <5>1. i.good \in Good /\ i.quantity \in Nat \ {0}
          BY CartAssumption DEF ItemDto
        <5>2. goods[i.good].price \in Price
          BY <1>1, <5>1 DEF GoodRow
        <5> QED BY <3>1, <5>1, <5>2 DEF CartItem
      <4> QED BY <3>2, <4>1
    <3>5. IsFiniteSet(priced)
      BY <2>6, <3>2, ImageIsFinite DEF CartSync
    <3>6. PICK c : c = [at |-> "cart.replace", user |-> u, items |-> priced]
      OBVIOUS
    <3>7. calls' = [calls EXCEPT ![p] = c]
      BY <2>6, <3>3, <3>6 DEF CartSync, Begin
    <3>8. CartHeld(c) /\ c.at = "cart.replace"
      BY <3>4, <3>5, <3>6 DEF CartHeld
    <3> QED BY <3>7, <3>8, CartHeldOnly
  <2> QED BY <2>1, <2>2, <2>3, <2>4, <2>5, <2>6
<1>3. UNCHANGED cartVars
  BY DEF CartFind, CartReplace, CartAdd, CartUpdate, CartRemove, CartSync
<1> QED
  BY <1>2, <1>3, CheckoutReadStep

\* Prices and flags of a good; its stock stays as it is.
LEMMA GoodStep ==
    ASSUME CheckoutInv, NEW p \in Proc, GoodRequest(p), UNCHANGED <<couponVars, orders>>
    PROVE  CheckoutInv'
<1>1. goods \in [Good -> GoodRow] /\ Lined \subseteq Good
  BY CartAssumption DEF CheckoutInv, CartPart
<1>2. PICK g \in Good, row \in GoodRow : row.stock = goods[g].stock /\ GoodChanges(p, g, row)
  <2>1. ASSUME NEW g \in Good, GoodToggled(p, g)
        PROVE  \E row \in GoodRow : row.stock = goods[g].stock /\ GoodChanges(p, g, row)
    <3>1. PICK row : row = [goods[g] EXCEPT !.isActive = ~@]
      OBVIOUS
    <3>2. row \in GoodRow /\ row.stock = goods[g].stock
      BY <1>1, <3>1 DEF GoodRow
    <3> QED BY <2>1, <3>1, <3>2 DEF GoodToggled
  <2>2. ASSUME NEW g \in Good, GoodDeleted(p, g)
        PROVE  \E row \in GoodRow : row.stock = goods[g].stock /\ GoodChanges(p, g, row)
    <3>1. PICK row : row = [goods[g] EXCEPT !.deleted = TRUE]
      OBVIOUS
    <3>2. row \in GoodRow /\ row.stock = goods[g].stock
      BY <1>1, <3>1 DEF GoodRow
    <3> QED BY <2>2, <3>1, <3>2 DEF GoodDeleted
  <2>3. ASSUME NEW g \in Good, NEW price \in Price, GoodRepriced(p, g, price)
        PROVE  \E row \in GoodRow : row.stock = goods[g].stock /\ GoodChanges(p, g, row)
    <3>1. PICK row : row = [goods[g] EXCEPT !.price = price]
      OBVIOUS
    <3>2. row \in GoodRow /\ row.stock = goods[g].stock
      BY <1>1, <3>1 DEF GoodRow
    <3> QED BY <2>3, <3>1, <3>2 DEF GoodRepriced
  <2> QED BY <2>1, <2>2, <2>3 DEF GoodRequest
<1>3. /\ goods' = [goods EXCEPT ![g] = row] /\ UNCHANGED <<carts, lastLine>>
      /\ calls' = [calls EXCEPT ![p] = Idle]
  BY <1>2 DEF GoodChanges, Serve, Begin
<1>4. goods' \in [Good -> GoodRow] /\ \A h \in Good : goods'[h].stock = goods[h].stock
  BY <1>1, <1>2, <1>3
<1>5. RowsKept /\ CouponPart'
  BY DEF RowsKept, Stored, CheckoutInv, CouponPart, CouponTypeOK, Live, couponVars
<1>6. CheckoutCallsOK'
  BY <1>3, <1>5, IdleHeld, CallsKept DEF CheckoutInv
<1>7. CartPart' /\ StockBook'
  BY <1>1, <1>3, <1>4 DEF CheckoutInv, CartPart, StockBook
<1>8. OrderPart' /\ CouponUseIsBounded'
  BY DEF CheckoutInv, OrderPart, CouponUseIsBounded, OrdersWith, Stored, couponVars
<1> QED BY <1>5, <1>6, <1>7, <1>8 DEF CheckoutInv

-------------------------------------------------------------------------------
(* Orders *)

\* A checkout holds nothing else.
LEMMA OrderHeldOnly ==
    ASSUME NEW c, OrderHeld(c), c.at \in {"order.read", "order.price", "order.commit"}
    PROVE  CheckoutHeld(c)
BY DEF CheckoutHeld, CouponHeld, CartHeld

\* createOrder up to its second read of the cart.
LEMMA OrderReadsStep ==
    ASSUME CheckoutInv, NEW p \in Proc, OrderRequest(p) \/ OrderRead(p)
    PROVE  CheckoutInv'
<1>1. PICK c : CheckoutHeld(c) /\ calls' = [calls EXCEPT ![p] = c]
  <2>1. ASSUME NEW u \in User, NEW code \in Code \cup {"none"}, NEW protection \in BOOLEAN, OrderBegin(p, u, code, protection)
        PROVE  \E c : CheckoutHeld(c) /\ calls' = [calls EXCEPT ![p] = c]
    <3>1. PICK c : c = [at |-> "order.read", user |-> u, code |-> code, protection |-> protection]
      OBVIOUS
    <3>2. OrderHeld(c) /\ c.at = "order.read"
      BY <3>1 DEF OrderHeld
    <3> QED BY <2>1, <3>1, <3>2, OrderHeldOnly DEF OrderBegin, Begin
  <2>2. CASE OrderRead(p)
    <3>1. PICK d : d = calls[p]
      OBVIOUS
    <3>2. d.user \in User /\ d.protection \in BOOLEAN /\ carts[d.user] \in FiniteLines
      BY <2>2, <3>1 DEF OrderRead, At, CheckoutInv, CheckoutCallsOK, CheckoutHeld, OrderHeld, CartPart
    <3>3. PICK c : c = [at |-> "order.price", user |-> d.user, code |-> d.code, protection |-> d.protection,
                        lines |-> carts[d.user]]
      OBVIOUS
    <3>4. OrderHeld(c) /\ c.at = "order.price"
      BY <3>2, <3>3 DEF OrderHeld
    <3>5. calls' = [calls EXCEPT ![p] = Idle] \/ calls' = [calls EXCEPT ![p] = c]
      BY <2>2, <3>1, <3>3 DEF OrderRead, Return, Goto
    <3> QED BY <3>4, <3>5, IdleHeld, OrderHeldOnly
  <2> QED BY <2>1, <2>2 DEF OrderRequest
<1>2. UNCHANGED <<couponVars, cartVars, orders>>
  BY DEF OrderRequest, OrderBegin, OrderRead
<1> QED
  BY <1>1, <1>2, CheckoutReadStep

\* The order that is priced is one that may be written.
LEMMA PricedTyped ==
    ASSUME NEW c, c.user \in User, c.lines \in FiniteLines, c.protection \in BOOLEAN,
           NEW k \in CouponId \cup {"none"}, NEW discount \in 0 .. Subtotal(c.lines),
           Priced(c, k, discount).total > 0
    PROVE  Priced(c, k, discount) \in OrderRow /\ Priced(c, k, discount).coupon = k
<1>1. PICK s \in Nat : s = Subtotal(c.lines)
  BY SubtotalIsNat
<1>2. PICK o : o = Priced(c, k, discount)
  OBVIOUS
<1>3. FeeOf(c.protection) \in Nat
  BY CheckoutAssumption DEF FeeOf
<1>4. o = [user |-> c.user, lines |-> c.lines, coupon |-> k, discount |-> discount,
           total |-> Subtotal(c.lines) - discount + FeeOf(c.protection), protection |-> c.protection]
  BY <1>2 DEF Priced
<1>5. o.total = s - discount + FeeOf(c.protection) /\ o.total > 0 /\ discount \in Nat /\ discount <= s
  BY <1>1, <1>2, <1>4
<1>6. o.total \in Nat \ {0}
  BY <1>1, <1>3, <1>5
<1>7. o \in [user : User, lines : FiniteLines, coupon : CouponId \cup {"none"}, discount : Nat, total : Nat \ {0},
            protection : BOOLEAN]
  BY <1>4, <1>5, <1>6
<1>8. o.discount <= Subtotal(o.lines) /\ o.total = Subtotal(o.lines) - o.discount + FeeOf(o.protection) /\ o.coupon = k
  BY <1>1, <1>4, <1>5
<1> QED
  BY <1>2, <1>7, <1>8 DEF OrderRow

\* createOrder, when it prices the order: the discount is a part of the subtotal.
LEMMA OrderPriceStep ==
    ASSUME CheckoutInv, NEW p \in Proc, OrderPrice(p)
    PROVE  CheckoutInv'
<1>1. UNCHANGED <<couponVars, cartVars, orders>>
  BY DEF OrderPrice
<1>2. PICK c : c = calls[p]
  OBVIOUS
<1>3. c.user \in User /\ c.protection \in BOOLEAN /\ c.lines \in FiniteLines
  BY <1>2 DEF OrderPrice, At, CheckoutInv, CheckoutCallsOK, CheckoutHeld, OrderHeld
<1>4. ASSUME NEW k \in CouponId \cup {"none"}, NEW discount \in 0 .. Subtotal(c.lines), NEW limit,
             k # "none" => Stored(k) /\ limit \in limits[k],
             IF Priced(c, k, discount).total > 0
             THEN Goto(p, [at |-> "order.commit", order |-> Priced(c, k, discount), limit |-> limit])
             ELSE Return(p)
      PROVE  CheckoutInv'
  <2>1. PICK d : d = [at |-> "order.commit", order |-> Priced(c, k, discount), limit |-> limit]
    OBVIOUS
  <2>2. CASE Priced(c, k, discount).total > 0
    <3>1. d.order \in OrderRow /\ d.order.coupon = k /\ d.limit = limit /\ d.at = "order.commit"
      BY <1>3, <2>1, <2>2, PricedTyped
    <3>2. CheckoutHeld(d)
      BY <1>4, <3>1, OrderHeldOnly DEF OrderHeld
    <3> QED BY <1>1, <1>4, <2>1, <2>2, <3>2, CheckoutReadStep DEF Goto
  <2>3. CASE ~(Priced(c, k, discount).total > 0)
    BY <1>1, <1>4, <2>3, IdleHeld, CheckoutReadStep DEF Return, Goto
  <2> QED BY <2>2, <2>3
<1>5. CASE c.code = "none" /\ (IF Priced(c, "none", 0).total > 0
                             THEN Goto(p, [at |-> "order.commit", order |-> Priced(c, "none", 0), limit |-> 0])
                             ELSE Return(p))
  <2>1. 0 \in 0 .. Subtotal(c.lines)
    BY <1>3, SubtotalIsNat
  <2> QED BY <1>4, <1>5, <2>1
<1>6. CASE Return(p)
  BY <1>1, <1>6, IdleHeld, CheckoutReadStep DEF Return, Goto
<1>7. ASSUME NEW k \in RowsOf(c.code), NEW discount, discount = Discount(coupons[k], Applicable(coupons[k], c.lines)),
             IF Priced(c, k, discount).total > 0
             THEN Goto(p, [at |-> "order.commit", order |-> Priced(c, k, discount), limit |-> coupons[k].maxUses])
             ELSE Return(p)
      PROVE  CheckoutInv'
  <2>1. k \in CouponId /\ Stored(k) /\ coupons[k] \in CouponRow /\ coupons[k].maxUses \in limits[k]
    BY DEF RowsOf, Live, Stored, CheckoutInv, CouponPart, CouponTypeOK
  <2>2. PICK n \in Nat : n = Applicable(coupons[k], c.lines) /\ n <= Subtotal(c.lines) /\ Subtotal(c.lines) \in Nat
    BY <1>3, ApplicableIsPart, SubtotalIsNat
  <2>3. discount \in 0 .. n
    BY <1>7, <2>1, <2>2, DiscountIsPart
  <2>4. discount \in 0 .. Subtotal(c.lines)
    BY <2>2, <2>3
  <2> QED BY <1>4, <1>7, <2>1, <2>4
<1> QED
  BY <1>2, <1>5, <1>6, <1>7 DEF OrderPrice

\* The transaction writes one order, counts one use and takes the units it lists.
LEMMA OrderCommitStep ==
    ASSUME CheckoutInv, NEW p \in Proc, OrderCommit(p)
    PROVE  CheckoutInv'
<1>1. calls' = [calls EXCEPT ![p] = Idle] /\ UNCHANGED <<verdicts, limits, lastLine>>
  BY DEF OrderCommit, Return, Goto
<1>2. PICK o, limit : o = calls[p].order /\ limit = calls[p].limit
  OBVIOUS
<1>3. o \in OrderRow /\ (o.coupon # "none" => Stored(o.coupon) /\ limit \in limits[o.coupon])
  BY <1>2 DEF OrderCommit, At, CheckoutInv, CheckoutCallsOK, CheckoutHeld, OrderHeld
<1>4. CASE UNCHANGED <<coupons, goods, carts, orders>>
  BY <1>1, <1>4, IdleHeld, CheckoutReadStep DEF couponVars, cartVars
<1>5. ASSUME Allocatable(o.lines), o.coupon # "none" => UseAllowed(o.coupon, limit),
             orders' = orders \cup {[number |-> Cardinality(orders) + 1, order |-> o]},
             coupons' = IF o.coupon # "none" THEN [coupons EXCEPT ![o.coupon] = UseCounted(o.coupon)] ELSE coupons,
             goods' = StockTaken(o.lines), carts' = [carts EXCEPT ![o.user] = {}]
      PROVE  CheckoutInv'
  <2>1. PICK new : new = [number |-> Cardinality(orders) + 1, order |-> o]
    OBVIOUS
  <2>2. IsFiniteSet(orders) /\ Cardinality(orders) \in Nat /\ orders \in SUBSET Placed
    BY FS_CardinalityType DEF CheckoutInv, OrderPart
  <2>3. new \in Placed /\ new \notin orders /\ new.order = o /\ new.number = Cardinality(orders) + 1
    BY <1>3, <2>1, <2>2 DEF Placed, CheckoutInv, OrderPart
  <2>4. orders' = orders \cup {new} /\ IsFiniteSet(orders') /\ Cardinality(orders') = Cardinality(orders) + 1
    BY <1>5, <2>1, <2>2, <2>3, FS_AddElement
  <2>5. /\ coupons \in [CouponId -> CouponRow \cup {NoCoupon}] /\ limits \in [CouponId -> SUBSET Limits]
        /\ o.lines \in FiniteLines /\ o.user \in User /\ o.coupon \in CouponId \cup {"none"}
    BY <1>3 DEF OrderRow, CheckoutInv, CouponPart, CouponTypeOK
  <2>6. ASSUME NEW k \in CouponId, k = o.coupon
        PROVE  /\ coupons'[k] \in CouponRow /\ coupons'[k].used = coupons[k].used + 1 /\ coupons'[k].code = coupons[k].code
               /\ coupons'[k].maxUses = coupons[k].maxUses /\ Stored(k) /\ coupons'[k] # NoCoupon /\ coupons[k].used \in Nat
               /\ UseAllowed(k, limit) /\ limit \in limits[k]
    <3>1. k # "none" /\ Stored(k) /\ limit \in limits[k] /\ UseAllowed(k, limit)
      BY <1>3, <1>5, <2>6, CheckoutAssumption
    <3>2. coupons[k] \in CouponRow
      BY <2>5, <3>1 DEF Stored
    <3>3. coupons'[k] = [coupons[k] EXCEPT !.used = @ + 1]
      BY <1>5, <2>5, <2>6, <3>1 DEF UseCounted
    <3>4. /\ coupons'[k] \in CouponRow /\ coupons'[k].used = coupons[k].used + 1 /\ coupons'[k].code = coupons[k].code
          /\ coupons'[k].maxUses = coupons[k].maxUses /\ coupons[k].used \in Nat
      BY <3>2, <3>3 DEF CouponRow
    <3> QED BY <3>1, <3>4, RowIsNotNoCoupon
  <2>7. \A k \in CouponId : k # o.coupon => coupons'[k] = coupons[k]
    BY <1>5, <2>5
  <2>8. coupons' \in [CouponId -> CouponRow \cup {NoCoupon}]
    <3>1. coupons' = [k \in CouponId |-> coupons'[k]]
      BY <1>5, <2>5
    <3> QED BY <2>5, <2>6, <2>7, <3>1
  <2>9. RowsKept /\ \A k \in CouponId : Stored(k)' = Stored(k)
    BY <1>1, <2>6, <2>7 DEF RowsKept, Stored
  <2>10. \A k \in CouponId : Stored(k) => coupons'[k].code = coupons[k].code /\ coupons'[k].maxUses = coupons[k].maxUses
    BY <2>6, <2>7
  <2>11. CouponPart'
    <3>1. \A k, d \in CouponId : (k # d /\ Stored(k)' /\ Stored(d)') => coupons'[k].code # coupons'[d].code
      BY <2>9, <2>10 DEF CheckoutInv, CouponPart
    <3>2. \A k \in CouponId : Stored(k)' => coupons'[k].maxUses \in limits'[k]
      BY <1>1, <2>9, <2>10 DEF CheckoutInv, CouponPart
    <3>3. CouponTypeOK'
      BY <1>1, <2>8, <3>1 DEF CouponTypeOK, Live, Stored, CheckoutInv, CouponPart
    <3> QED BY <3>1, <3>2, <3>3 DEF CouponPart
  <2>12. goods \in [Good -> GoodRow] /\ Lined \subseteq Good
    BY CartAssumption DEF CheckoutInv, CartPart
  <2>13. ASSUME NEW g \in Good
         PROVE  goods'[g] \in GoodRow /\ goods'[g].stock = goods[g].stock - QuantityOf(g, o.lines)
                /\ QuantityOf(g, o.lines) \in Nat /\ goods[g].stock \in Int
    <3>1. PICK n \in Nat : n = QuantityOf(g, o.lines)
      BY <2>5, QuantityIsNat
    <3>2. goods'[g] = [goods[g] EXCEPT !.stock = @ - n]
      BY <1>5, <3>1 DEF StockTaken
    <3> QED BY <2>12, <3>1, <3>2 DEF GoodRow
  <2>14. CartPart'
    <3>1. goods' \in [Good -> GoodRow]
      <4>1. goods' = [g \in Good |-> goods'[g]]
        BY <1>5 DEF StockTaken
      <4> QED BY <2>13, <4>1
    <3>2. {} \in FiniteLines
      BY FS_EmptySet DEF FiniteLines
    <3>3. carts' \in [User -> FiniteLines]
      BY <1>5, <3>2 DEF CheckoutInv, CartPart
    <3>4. ASSUME NEW g \in Lined PROVE goods'[g].stock \in Nat
      <4>1. g \in Good /\ goods[g].stock >= QuantityOf(g, o.lines)
        BY <1>5, <2>12 DEF Allocatable
      <4> QED BY <2>13, <4>1
    <3> QED BY <1>1, <3>1, <3>3, <3>4 DEF CheckoutInv, CartPart
  <2>15. StockBook'
    <3>1. ASSUME NEW g \in Good PROVE goods'[g].stock + Ordered(g, orders') = InitialStock
      <4>1. PICK placed : placed = orders \cup {new}
        OBVIOUS
      <4>2. Ordered(g, placed) = Ordered(g, orders) + QuantityOf(g, o.lines) /\ Ordered(g, orders) \in Nat
        BY <2>2, <2>3, <4>1, OrderedWith
      <4>3. orders' = placed
        BY <2>4, <4>1
      <4>4. goods[g].stock + Ordered(g, orders) = InitialStock
        BY DEF CheckoutInv, StockBook
      <4>5. Ordered(g, orders') = Ordered(g, orders) + QuantityOf(g, o.lines)
        BY <4>2, <4>3
      <4> QED BY <2>13, <4>2, <4>4, <4>5
    <3> QED BY <3>1 DEF StockBook
  <2>16. OrderPart'
    <3>1. \A x \in orders' : x.number \in 1 .. Cardinality(orders')
      BY <2>2, <2>3, <2>4 DEF CheckoutInv, OrderPart
    <3>2. \A x \in orders' : x.order.coupon # "none" => Stored(x.order.coupon)'
      BY <1>3, <2>2, <2>3, <2>4, <2>5, <2>9 DEF CheckoutInv, OrderPart, Placed, OrderRow
    <3> QED BY <2>2, <2>3, <2>4, <3>1, <3>2 DEF OrderPart
  <2>17. CouponUseIsBounded'
    <3>1. ASSUME NEW k \in CouponId, Stored(k)'
          PROVE  /\ coupons'[k].used = Cardinality(OrdersWith(k)')
                 /\ 0 \in limits'[k] \/ \E n \in limits'[k] : coupons'[k].used <= n
      <4>1. Stored(k) /\ coupons[k].used = Cardinality(OrdersWith(k))
            /\ (0 \in limits[k] \/ \E n \in limits[k] : coupons[k].used <= n)
        BY <2>9, <3>1 DEF CheckoutInv, CouponUseIsBounded
      <4>2. CASE k # o.coupon
        <5>1. OrdersWith(k)' = OrdersWith(k)
          BY <2>3, <2>4, <4>2 DEF OrdersWith
        <5> QED BY <1>1, <2>7, <4>1, <4>2, <5>1
      <4>3. CASE k = o.coupon
        <5>1. OrdersWith(k)' = OrdersWith(k) \cup {new} /\ new \notin OrdersWith(k)
          BY <2>3, <2>4, <4>3 DEF OrdersWith
        <5>2. IsFiniteSet(OrdersWith(k))
          BY <2>2, FS_Subset DEF OrdersWith
        <5>3. Cardinality(OrdersWith(k)') = Cardinality(OrdersWith(k)) + 1
          BY <5>1, <5>2, FS_AddElement
        <5>4. coupons'[k].used = coupons[k].used + 1 /\ limit \in limits[k] /\ (limit # 0 => coupons[k].used < limit)
              /\ coupons[k].used \in Nat
          BY <2>6, <4>3 DEF UseAllowed
        <5>5. limit \in Nat
          BY <2>5, <5>4, CouponAssumption
        <5> QED BY <1>1, <4>1, <5>3, <5>4, <5>5
      <4> QED BY <4>2, <4>3
    <3> QED BY <3>1 DEF CouponUseIsBounded
  <2>18. CheckoutCallsOK'
    BY <1>1, <2>9, IdleHeld, CallsKept DEF CheckoutInv
  <2> QED BY <2>11, <2>14, <2>15, <2>16, <2>17, <2>18 DEF CheckoutInv
<1> QED
  BY <1>2, <1>4, <1>5 DEF OrderCommit

\* The invariant holds at the start,
LEMMA CheckoutInitInv == CheckoutInit => CheckoutInv
<1> SUFFICES ASSUME CheckoutInit PROVE CheckoutInv
  OBVIOUS
<1>1. CheckoutCallsOK
  BY IdleHeld DEF CheckoutInit, CallsInit, CheckoutCallsOK, CallsShape
<1>2. orders = {}
  BY DEF CheckoutInit
<1>3. OrderPart
  BY <1>2, FS_EmptySet DEF OrderPart
<1>4. PICK first \in CouponId, d \in NewCoupons :
         /\ coupons = [c \in CouponId |-> IF c = first THEN NewRow(d) ELSE NoCoupon]
         /\ limits = [c \in CouponId |-> IF c = first THEN {d.maxUses} ELSE {}]
  BY DEF CheckoutInit, CouponInit
<1>5. PICK row \in CouponRow : row = NewRow(d) /\ row.used = 0 /\ row.maxUses = d.maxUses /\ d.maxUses \in Limits
  BY NewRowTyped, RequestAssumption
<1>6. verdicts \in [CacheKey -> Verdict]
  BY DEF CheckoutInit, CouponInit, Verdict
<1>7. /\ coupons = [c \in CouponId |-> IF c = first THEN row ELSE NoCoupon]
      /\ \A c \in CouponId : Stored(c) => c = first
  BY <1>4, <1>5 DEF Stored
<1>8. CouponPart
  <2>1. coupons \in [CouponId -> CouponRow \cup {NoCoupon}] /\ limits \in [CouponId -> SUBSET Limits]
    BY <1>4, <1>5, <1>7
  <2> QED BY <1>4, <1>5, <1>6, <1>7, <2>1 DEF CouponPart, CouponTypeOK, Live
<1>9. CouponUseIsBounded
  <2>1. \A k \in CouponId : OrdersWith(k) = {}
    BY <1>2 DEF OrdersWith
  <2>2. row.maxUses \in Nat
    BY <1>5, CouponAssumption
  <2>3. coupons[first].used = 0 /\ limits[first] = {row.maxUses} /\ 0 <= row.maxUses
    BY <1>4, <1>5, <1>7, <2>2
  <2> QED BY <1>7, <2>1, <2>3, FS_EmptySet DEF CouponUseIsBounded
<1>10. PICK price \in Price : goods = [g \in Good |-> [price |-> price, stock |-> InitialStock, isActive |-> TRUE,
                                                      deleted |-> FALSE]]
  BY DEF CheckoutInit, CartInit
<1>11. goods \in [Good -> GoodRow] /\ \A g \in Good : goods[g].stock = InitialStock /\ goods[g].price = price
  BY <1>10, CartAssumption DEF GoodRow
<1>12. carts \in [User -> FiniteLines] /\ lastLine \in 0 .. MaxLines
  <2>1. PICK buyers \in SUBSET User : \E number \in [buyers -> 1 .. Cardinality(buyers)] :
           /\ Cardinality(buyers) <= MaxLines
           /\ lastLine = Cardinality(buyers)
           /\ \E good \in [buyers -> Good] :
                 carts = [u \in User |->
                    IF u \in buyers
                    THEN {[id |-> number[u], good |-> good[u], quantity |-> 1, unitPrice |-> goods[good[u]].price]}
                    ELSE {}]
    <3>1. CartInit
      BY DEF CheckoutInit
    <3> QED BY <3>1, Zenon DEF CartInit
  <2>5. PICK number \in [buyers -> 1 .. Cardinality(buyers)], good \in [buyers -> Good] :
           carts = [u \in User |->
                 IF u \in buyers
                 THEN {[id |-> number[u], good |-> good[u], quantity |-> 1, unitPrice |-> goods[good[u]].price]}
                 ELSE {}]
    BY <2>1
  <2>2. Cardinality(buyers) \in Nat /\ MaxLines \in Nat
    BY FS_Subset, FS_CardinalityType, CartAssumption
  <2>3. ASSUME NEW u \in buyers
        PROVE  {[id |-> number[u], good |-> good[u], quantity |-> 1, unitPrice |-> goods[good[u]].price]} \in FiniteLines
    <3>1. PICK l : l = [id |-> number[u], good |-> good[u], quantity |-> 1, unitPrice |-> goods[good[u]].price]
      OBVIOUS
    <3>2. l \in CartLine
      BY <1>11, <2>1, <2>2, <2>5, <3>1 DEF CartLine, LineId
    <3> QED BY <3>1, <3>2, FS_Singleton DEF FiniteLines
  <2>4. {} \in FiniteLines
    BY FS_EmptySet DEF FiniteLines
  <2> QED BY <2>1, <2>2, <2>3, <2>4, <2>5
<1>13. CartPart
  BY <1>11, <1>12, CartAssumption DEF CartPart
<1>14. StockBook
  <2>1. ASSUME NEW g PROVE Ordered(g, {}) = 0
    BY FS_EmptySet, OrderedIsTotal, TotalEmpty
  <2> QED BY <1>2, <1>11, <2>1, CartAssumption DEF StockBook
<1> QED
  BY <1>1, <1>3, <1>8, <1>9, <1>13, <1>14 DEF CheckoutInv

\* every step keeps it,
LEMMA CheckoutInvStep == CheckoutInv /\ [CheckoutNext]_checkoutVars => CheckoutInv'
<1> SUFFICES ASSUME CheckoutInv, [CheckoutNext]_checkoutVars PROVE CheckoutInv'
  OBVIOUS
<1>1. CASE CouponNext /\ UNCHANGED <<cartVars, orders>>
  BY <1>1, CouponMoves
<1>2. ASSUME NEW p \in Proc, CartRequest(p) \/ CartStep(p), UNCHANGED <<couponVars, orders>> PROVE CheckoutInv'
  BY <1>2, CartReadsStep, CartWritesStep DEF CartRequest, CartStep
<1>3. ASSUME NEW p \in Proc, PreviewRequest(p) PROVE CheckoutInv'
  <2>1. PICK u \in User, code \in Code : CouponPreview(p, u, code)
    BY <1>3 DEF PreviewRequest
  <2>2. CategoriesOf(carts[u]) \in SUBSET Category
    BY CheckoutAssumption DEF CategoriesOf, CheckoutInv, CartPart, FiniteLines, CartLine
  <2> QED BY <2>1, <2>2, CouponValidateStep DEF CouponPreview
<1>4. ASSUME NEW p \in Proc, OrderRequest(p) \/ OrderStep(p) PROVE CheckoutInv'
  BY <1>4, OrderReadsStep, OrderPriceStep, OrderCommitStep DEF OrderStep
<1>5. ASSUME NEW p \in Proc, CheckoutAbort(p) PROVE CheckoutInv'
  BY <1>5, IdleHeld, CheckoutReadStep DEF CheckoutAbort, Interrupt, Return, Goto
<1>6. CASE UNCHANGED checkoutVars
  <2>1. UNCHANGED <<coupons, verdicts, limits, goods, carts, lastLine, orders, calls>>
    BY <1>6 DEF checkoutVars, couponVars, cartVars, callVars
  <2>2. RowsKept /\ verdicts' \in [CacheKey -> Verdict]
    BY <2>1 DEF RowsKept, Stored, CheckoutInv, CouponPart, CouponTypeOK
  <2>3. CheckoutCallsOK'
    BY <2>1, <2>2, CallsSame DEF CheckoutInv
  <2> QED BY <2>1, <2>2, <2>3, VerdictsStep DEF CheckoutInv, cartVars
<1> QED
  BY <1>1, <1>2, <1>3, <1>4, <1>5, <1>6, GoodStep DEF CheckoutNext

\* and it implies what the runs check.
LEMMA CheckoutInvImplies == CheckoutInv => CheckoutTypeOK /\ DiscountIsCapped /\ StockIsAccounted /\ CouponUseIsBounded
<1> SUFFICES ASSUME CheckoutInv PROVE CheckoutTypeOK /\ DiscountIsCapped /\ StockIsAccounted /\ CouponUseIsBounded
  OBVIOUS
<1>1. \A o \in orders : o.order \in OrderRow
  BY DEF CheckoutInv, OrderPart, Placed
<1>2. CheckoutTypeOK
  <2>1. CartTypeOK
    BY DEF CheckoutInv, CartPart, CartTypeOK, FiniteLines
  <2> QED BY <1>1, <2>1 DEF CheckoutTypeOK, CheckoutInv, CouponPart, CartPart, OrderRow, FiniteLines
<1>3. DiscountIsCapped
  <2>1. ASSUME NEW o \in OrderRow
        PROVE  o.discount \in 0 .. Subtotal(o.lines) /\ o.total >= FeeOf(o.protection)
    <3>1. PICK s \in Nat, fee \in Nat : s = Subtotal(o.lines) /\ fee = FeeOf(o.protection)
      BY SubtotalIsNat, CheckoutAssumption DEF OrderRow, FeeOf
    <3>2. o.discount \in Nat /\ o.discount <= s /\ o.total = s - o.discount + fee
      BY <3>1 DEF OrderRow
    <3> QED BY <3>1, <3>2
  <2> QED BY <1>1, <2>1 DEF DiscountIsCapped
<1>4. StockIsAccounted
  BY DEF CheckoutInv, StockBook, StockIsAccounted, Ordered
<1> QED
  BY <1>2, <1>3, <1>4 DEF CheckoutInv

\* A use is counted by a transaction that tests the row it counts it on.
LEMMA UsedWhileValid ==
    CheckoutInv /\ [CheckoutNext]_checkoutVars =>
        [\A k \in CouponId :
            (\E o \in orders' \ orders : o.order.coupon = k) =>
                coupons[k].isActive /\ ~coupons[k].deleted /\ coupons[k].expiry # "past"]_orders
<1> SUFFICES ASSUME CheckoutInv, CheckoutNext, orders' # orders, NEW k \in CouponId,
                    NEW o \in orders' \ orders, o.order.coupon = k
             PROVE  coupons[k].isActive /\ ~coupons[k].deleted /\ coupons[k].expiry # "past"
  BY DEF checkoutVars
<1>1. PICK p \in Proc : OrderCommit(p)
  BY DEF CheckoutNext, PreviewRequest, CouponPreview, OrderRequest, OrderBegin, OrderStep, OrderRead, OrderPrice, CheckoutAbort
<1>2. o.order = calls[p].order
  BY <1>1 DEF OrderCommit
<1>3. UseAllowed(k, calls[p].limit)
  BY <1>1, <1>2, CheckoutAssumption DEF OrderCommit
<1> QED
  BY <1>3 DEF UseAllowed

\* Rows, carts and orders keep their types whatever the calls interleave: every order belongs to a
\* user and costs something, and the counter of a variant never goes below zero.
THEOREM CheckoutTypeCorrect == CheckoutSpec => []CheckoutTypeOK
<1> QED
  BY CheckoutInitInv, CheckoutInvStep, CheckoutInvImplies, PTL DEF CheckoutSpec

\* createOrder never gives more than the order's own lines cost, and asks for the fee of buyer
\* protection on top, also when the coupon or the cart changed while it was priced.
THEOREM DiscountCorrect == CheckoutSpec => []DiscountIsCapped
<1> QED
  BY CheckoutInitInv, CheckoutInvStep, CheckoutInvImplies, PTL DEF CheckoutSpec

\* Units are neither sold without being taken from the counter nor taken without being sold,
\* however many checkouts are under way: counter and orders always add up to the initial stock.
THEOREM StockCorrect == CheckoutSpec => []StockIsAccounted
<1> QED
  BY CheckoutInitInv, CheckoutInvStep, CheckoutInvImplies, PTL DEF CheckoutSpec

\* The usage counter of a coupon is the number of orders that carry it, and stays within the
\* largest limit it has had, although each checkout tests the limit it read before.
THEOREM CouponUseCorrect == CheckoutSpec => []CouponUseIsBounded
<1> QED
  BY CheckoutInitInv, CheckoutInvStep, CheckoutInvImplies, PTL DEF CheckoutSpec

\* The transaction of createOrder never writes an order on a coupon that is inactive, deleted or
\* expired at that moment, whatever the row was when the order was priced.
THEOREM WithdrawalCorrect == CheckoutSpec => WithdrawnIsNotUsed
<1> QED
  BY CheckoutInitInv, CheckoutInvStep, UsedWhileValid, PTL DEF CheckoutSpec, WithdrawnIsNotUsed

-------------------------------------------------------------------------------
(* Drops *)

DropDto == DropPatch \cup [deleted : {TRUE}]

\* What a call may rely on at its next await: a row it writes exists, and the row a claim read was
\* on show to its user.
DropHeld(c) ==
    /\ c.at = "drop.write" => c.id \in DropId /\ drops[c.id] # NoDrop /\ c.dto \in DropDto
    /\ c.at = "drop.claim" =>
          /\ c.id \in DropId /\ c.user \in Claimant /\ c.line \in Line
          /\ c.row \in DropRow /\ ~c.row.deleted /\ DropStatus(c.row) = "live"
          /\ UserAllowed(c.row, c.user)

DropCallsOK == CallsShape /\ \A p \in Proc : DropHeld(calls[p])

\* A drop's own quantity is one of those it has had; nobody claims what is not there yet; a line
\* is of one variant.
DropBook ==
    /\ IsFiniteSet(claims)
    /\ \A d \in DropId : drops[d] # NoDrop => drops[d].quantity \in quantities[d]
    /\ \A c \in claims : drops[c.drop] # NoDrop
    /\ \A v, w \in Variant : v # w => available[v] \cap available[w] = {}

DropInv == DropTypeOK /\ DropCallsOK /\ DropBook /\ ClaimsAreSound

\* The invariant holds at the start.
LEMMA DropInitInv == CallsInit /\ DropInit => DropInv
<1> SUFFICES ASSUME CallsInit, DropInit PROVE DropInv
  OBVIOUS
<1>1. DropTypeOK
  BY DEF DropInit, DropTypeOK
<1>2. DropCallsOK
  BY DEF CallsInit, DropCallsOK, CallsShape, DropHeld, Idle
<1>3. DropBook
  BY FS_EmptySet DEF DropInit, DropBook
<1>4. ClaimsAreSound
  BY DEF DropInit, ClaimsAreSound
<1> QED
  BY <1>1, <1>2, <1>3, <1>4 DEF DropInv

\* A step that changes nothing but one call.
LEMMA DropReadStep ==
    ASSUME DropInv, NEW p \in Proc, NEW c, DropHeld(c), calls' = [calls EXCEPT ![p] = c], UNCHANGED dropVars
    PROVE  DropInv'
<1>1. CallsShape' /\ calls'[p] = c /\ \A q \in Proc \ {p} : calls'[q] = calls[q]
  BY OneCall DEF DropInv, DropCallsOK
<1>2. ASSUME NEW q \in Proc PROVE DropHeld(calls[q])'
  <2>1. DropHeld(calls'[q])
    BY <1>1 DEF DropInv, DropCallsOK
  <2>2. drops' = drops
    BY DEF dropVars
  <2> QED BY <2>1, <2>2 DEF DropHeld
<1>3. DropCallsOK'
  BY <1>1, <1>2 DEF DropCallsOK
<1> QED
  BY <1>3 DEF DropInv, DropTypeOK, DropBook, ClaimsAreSound, dropVars

\* A write to one row that leaves it a row of its type, its counter as it is, and its quantity
\* one of those the drop has had.
LEMMA DropRowStep ==
    ASSUME DropInv, NEW d \in DropId, drops[d] # NoDrop, NEW row \in DropRow,
           row.claimed = drops[d].claimed,
           drops' = [drops EXCEPT ![d] = row],
           NEW q \in SUBSET Quantities, quantities[d] \subseteq q, row.quantity \in q,
           quantities' = [quantities EXCEPT ![d] = q],
           UNCHANGED <<claims, available>>
    PROVE  DropTypeOK' /\ DropBook' /\ ClaimsAreSound' /\ \A e \in DropId : drops[e] # NoDrop => drops'[e] # NoDrop
<1>1. row # NoDrop
  BY DropAssumption DEF DropRow, NoDrop
<1>2. \A e \in DropId : drops[e] # NoDrop => drops'[e] # NoDrop
  BY <1>1 DEF DropInv, DropTypeOK
<1>3. DropTypeOK'
  BY DEF DropInv, DropTypeOK
<1>4. DropBook'
  BY <1>1 DEF DropInv, DropTypeOK, DropBook, ClaimRow
<1>5. ClaimsAreSound'
  <2>1. ASSUME NEW e \in DropId, drops'[e] # NoDrop
        PROVE  drops[e] # NoDrop /\ drops'[e].claimed = drops[e].claimed /\ quantities[e] \subseteq quantities'[e]
    BY <2>1 DEF DropInv, DropTypeOK
  <2> QED BY <2>1 DEF DropInv, DropTypeOK, ClaimsAreSound
<1> QED BY <1>2, <1>3, <1>4, <1>5

\* What stays true of the calls when rows are written but none disappears.
LEMMA DropCallStep ==
    ASSUME DropInv, NEW p \in Proc, NEW c, calls' = [calls EXCEPT ![p] = c],
           \A e \in DropId : drops[e] # NoDrop => drops'[e] # NoDrop,
           DropHeld(c)
    PROVE  DropCallsOK'
<1>1. CallsShape' /\ calls'[p] = c /\ \A q \in Proc \ {p} : calls'[q] = calls[q]
  BY OneCall DEF DropInv, DropCallsOK
<1>2. ASSUME NEW q \in Proc PROVE DropHeld(calls[q])'
  <2>1. DropHeld(calls'[q])
    BY <1>1 DEF DropInv, DropCallsOK
  <2> QED BY <2>1 DEF DropHeld
<1> QED
  BY <1>1, <1>2 DEF DropCallsOK

\* The fields of a request, written to a row.
LEMMA DropPatched ==
    ASSUME NEW row \in DropRow, NEW dto \in DropDto
    PROVE  LET r == [f \in DOMAIN row |-> IF f \in DOMAIN dto THEN dto[f] ELSE row[f]]
           IN  /\ r \in DropRow /\ r.claimed = row.claimed
               /\ r.quantity = IF "quantity" \in DOMAIN dto THEN dto.quantity ELSE row.quantity
               /\ "quantity" \in DOMAIN dto => dto.quantity \in Quantities
<1> DEFINE r == [f \in DOMAIN row |-> IF f \in DOMAIN dto THEN dto[f] ELSE row[f]]
<1>1. r = [variant |-> r.variant, quantity |-> r.quantity, claimed |-> r.claimed,
           allowed |-> r.allowed, expiry |-> r.expiry, isActive |-> r.isActive,
           deleted |-> r.deleted]
  BY DEF DropRow
<1>2. /\ r.variant \in Variant /\ r.quantity \in Quantities /\ r.claimed = row.claimed
      /\ r.allowed \in SUBSET Claimant /\ r.expiry \in {"never", "later", "past"}
      /\ r.isActive \in BOOLEAN /\ r.deleted \in BOOLEAN
  BY DEF DropRow, DropDto, DropPatch
<1>3. /\ r.quantity = IF "quantity" \in DOMAIN dto THEN dto.quantity ELSE row.quantity
      /\ "quantity" \in DOMAIN dto => dto.quantity \in Quantities
  BY DEF DropRow, DropDto, DropPatch
<1> HIDE DEF r
<1>4. r \in DropRow
  BY <1>1, <1>2 DEF DropRow
<1> QED
  BY <1>2, <1>3, <1>4 DEF r

\* update, toggle and delete of a drop: by id, whatever happened to the row meanwhile.
LEMMA DropWriteStep ==
    ASSUME DropInv, NEW p \in Proc, DropWrite(p)
    PROVE  DropInv'
<1> DEFINE d == calls[p].id
           dto == calls[p].dto
           row == [f \in DOMAIN drops[d] |-> IF f \in DOMAIN dto THEN dto[f] ELSE drops[d][f]]
           q == IF "quantity" \in DOMAIN dto THEN quantities[d] \cup {dto.quantity} ELSE quantities[d]
<1>1. d \in DropId /\ drops[d] # NoDrop /\ dto \in DropDto /\ drops[d] \in DropRow
  BY DEF DropWrite, At, DropInv, DropCallsOK, DropHeld, DropTypeOK
<1>2. /\ row \in DropRow /\ row.claimed = drops[d].claimed
      /\ row.quantity = IF "quantity" \in DOMAIN dto THEN dto.quantity ELSE drops[d].quantity
      /\ "quantity" \in DOMAIN dto => dto.quantity \in Quantities
  BY <1>1, DropPatched
<1>3. /\ drops' = [drops EXCEPT ![d] = row]
      /\ quantities' = [quantities EXCEPT ![d] = q]
      /\ UNCHANGED <<claims, available>>
      /\ calls' = [calls EXCEPT ![p] = Idle]
  BY DEF DropWrite, Return, Goto
<1> HIDE DEF row
<1>4. q \in SUBSET Quantities /\ quantities[d] \subseteq q /\ row.quantity \in q
  BY <1>1, <1>2 DEF DropInv, DropTypeOK, DropBook
<1> HIDE DEF q, d, dto
<1>5. DropTypeOK' /\ DropBook' /\ ClaimsAreSound' /\ \A e \in DropId : drops[e] # NoDrop => drops'[e] # NoDrop
  BY <1>1, <1>2, <1>3, <1>4, DropRowStep
<1>6. DropHeld(Idle)
  BY DEF DropHeld, Idle
<1>7. DropCallsOK'
  BY <1>3, <1>5, <1>6, DropCallStep
<1> QED
  BY <1>5, <1>7 DEF DropInv

\* Requests of the staff and of claimants.
LEMMA DropRequestStep ==
    ASSUME DropInv, NEW p \in Proc,
           \/ DropPublicRequest(p) \/ DropAbort(p)
           \/ \E d \in DropId :
                 DropToggle(p, d) \/ DropDelete(p, d) \/ \E patch \in DropPatches : DropUpdate(p, d, patch)
    PROVE  DropInv'
<1>1. ASSUME NEW d \in DropId, NEW dto \in DropDto, Existing(d),
             calls' = [calls EXCEPT ![p] = [at |-> "drop.write", id |-> d, dto |-> dto]], UNCHANGED dropVars
      PROVE  DropInv'
  <2> DEFINE c == [at |-> "drop.write", id |-> d, dto |-> dto]
  <2>1. DropHeld(c)
    BY <1>1 DEF DropHeld, Existing
  <2> HIDE DEF c
  <2> QED BY <1>1, <2>1, DropReadStep DEF c
<1>2. ASSUME NEW d \in DropId, DropToggle(p, d) PROVE DropInv'
  <2>1. drops[d] \in DropRow
    BY <1>2 DEF DropInv, DropTypeOK, DropToggle, Existing
  <2>2. [isActive |-> ~drops[d].isActive] \in DropDto
    BY <2>1 DEF DropRow, DropDto, DropPatch
  <2> QED BY <1>1, <1>2, <2>2 DEF DropToggle, Begin
<1>3. ASSUME NEW d \in DropId, DropDelete(p, d) PROVE DropInv'
  <2>1. [deleted |-> TRUE] \in DropDto
    BY DEF DropDto
  <2> QED BY <1>1, <1>3, <2>1 DEF DropDelete, Begin
<1>4. ASSUME NEW d \in DropId, NEW patch \in DropPatches, DropUpdate(p, d, patch) PROVE DropInv'
  BY <1>1, <1>4, DropRequestAssumption DEF DropUpdate, Begin, DropDto
<1>5. ASSUME NEW u \in Claimant, NEW d \in DropId, ClaimRead(p, u, d) PROVE DropInv'
  <2>1. PICK l \in available[drops[d].variant] :
           Begin(p, [at |-> "drop.claim", user |-> u, id |-> d, line |-> l, row |-> drops[d]])
    BY <1>5 DEF ClaimRead
  <2> DEFINE c == [at |-> "drop.claim", user |-> u, id |-> d, line |-> l, row |-> drops[d]]
  <2>2. drops[d] \in DropRow /\ ~drops[d].deleted /\ DropStatus(drops[d]) = "live" /\ UserAllowed(drops[d], u)
    BY <1>5 DEF ClaimRead, ListedDrops, Existing, DropInv, DropTypeOK
  <2>3. l \in Line
    BY <2>2 DEF DropInv, DropTypeOK, DropRow
  <2>4. DropHeld(c)
    BY <2>2, <2>3 DEF DropHeld
  <2>5. calls' = [calls EXCEPT ![p] = c] /\ UNCHANGED dropVars
    BY <1>5, <2>1 DEF ClaimRead, Begin
  <2> HIDE DEF c
  <2> QED BY <2>4, <2>5, DropReadStep
<1>6. ASSUME DropAbort(p) PROVE DropInv'
  <2>1. DropHeld(Idle)
    BY DEF DropHeld, Idle
  <2> QED BY <1>6, <2>1, DropReadStep DEF DropAbort, Interrupt, Return, Goto
<1> QED
  BY <1>2, <1>3, <1>4, <1>5, <1>6 DEF DropPublicRequest

\* create.
LEMMA DropCreateStep ==
    ASSUME DropInv, NEW p \in Proc, NEW d \in DropId, NEW v \in Variant, NEW n \in Quantities,
           NEW allowed \in SUBSET Claimant, NEW e \in {"never", "later"},
           DropCreate(p, d, v, n, allowed, e)
    PROVE  DropInv'
<1> DEFINE row == [variant |-> v, quantity |-> n, claimed |-> 0, allowed |-> allowed, expiry |-> e,
                   isActive |-> TRUE, deleted |-> FALSE]
<1>1. /\ drops[d] = NoDrop /\ drops' = [drops EXCEPT ![d] = row]
      /\ quantities' = [quantities EXCEPT ![d] = {n}] /\ UNCHANGED <<claims, available>>
      /\ calls' = [calls EXCEPT ![p] = Idle]
  BY DEF DropCreate, Serve, Begin
<1>2. row \in DropRow /\ row # NoDrop /\ row.claimed = 0 /\ row.quantity = n
  BY DropAssumption DEF DropRow, NoDrop
<1> HIDE DEF row
<1>3. \A x \in DropId : drops[x] # NoDrop => drops'[x] # NoDrop
  BY <1>1, <1>2 DEF DropInv, DropTypeOK
<1>4. DropHeld(Idle)
  BY DEF DropHeld, Idle
<1>5. DropCallsOK'
  BY <1>1, <1>3, <1>4, DropCallStep
<1>6. DropTypeOK'
  BY <1>1, <1>2 DEF DropInv, DropTypeOK
<1>7. DropBook'
  BY <1>1, <1>2, <1>3 DEF DropInv, DropTypeOK, DropBook, ClaimRow
<1>8. ClaimsAreSound'
  <2>1. ASSUME NEW x \in DropId, drops'[x] # NoDrop
        PROVE  /\ drops'[x].claimed = Cardinality({c \in claims : c.drop = x})
               /\ \E m \in quantities'[x] : drops'[x].claimed <= m
    <3>1. CASE x = d
      <4>1. {c \in claims : c.drop = d} = {}
        BY <1>1 DEF DropInv, DropBook
      <4>2. drops'[d].claimed = 0 /\ n \in quantities'[d] /\ 0 <= n
        BY <1>1, <1>2, DropAssumption DEF DropInv, DropTypeOK
      <4> QED BY <3>1, <4>1, <4>2, FS_EmptySet
    <3>2. CASE x # d
      BY <3>2, <2>1, <1>1 DEF DropInv, DropTypeOK, ClaimsAreSound
    <3> QED BY <3>1, <3>2
  <2> QED BY <2>1, <1>1 DEF DropInv, ClaimsAreSound
<1> QED
  BY <1>5, <1>6, <1>7, <1>8 DEF DropInv

\* What the tests of a claim say of the row they were made on.
LEMMA LiveHasRoom ==
    ASSUME NEW row \in DropRow, DropStatus(row) = "live"
    PROVE  /\ row.claimed \in Nat /\ row.quantity \in Nat /\ row.claimed < row.quantity
           /\ row.variant \in Variant
<1>1. row.claimed \in Nat /\ row.quantity \in Nat /\ row.variant \in Variant
  BY DropAssumption DEF DropRow
<1>2. ~(row.claimed >= row.quantity)
  BY DEF DropStatus
<1> QED
  BY <1>1, <1>2

\* A claim that commits takes one line of a drop that is still as it was read.
LEMMA ClaimCommitStep ==
    ASSUME DropInv, NEW p \in Proc, ClaimCommit(p)
    PROVE  DropInv'
<1>1. calls' = [calls EXCEPT ![p] = Idle] /\ DropHeld(Idle)
  BY DEF ClaimCommit, Return, Goto, DropHeld, Idle
<1>2. CASE ~SnapshotHolds(calls[p]) /\ UNCHANGED <<drops, claims, available>>
  BY <1>1, <1>2, DropReadStep DEF ClaimCommit, dropVars
<1>3. CASE SnapshotHolds(calls[p]) /\ ClaimWrites(calls[p])
  <2> DEFINE d == calls[p].id
             u == calls[p].user
             l == calls[p].line
             v == drops[d].variant
             new == [drop |-> d, user |-> u, line |-> l]
  <2>1. d \in DropId /\ u \in Claimant /\ l \in Line
    BY DEF ClaimCommit, At, DropInv, DropCallsOK, DropHeld
  <2>2. /\ drops[d] = calls[p].row /\ drops[d] \in DropRow /\ DropStatus(drops[d]) = "live"
        /\ l \in available[v] /\ \A x \in claims : ~(x.drop = d /\ x.user = u)
    BY <1>3 DEF SnapshotHolds, ClaimCommit, At, DropInv, DropCallsOK, DropHeld
  <2>3. /\ drops' = [drops EXCEPT ![d].claimed = @ + 1]
        /\ available' = [available EXCEPT ![v] = @ \ {l}]
        /\ claims' = claims \cup {new} /\ quantities' = quantities
    BY <1>3, <2>2 DEF ClaimWrites, ClaimCommit
  <2>4. new \in ClaimRow /\ new.drop = d /\ new.user = u /\ new.line = l
    BY <2>1 DEF ClaimRow
  <2>5. drops[d].claimed \in Nat /\ drops[d].quantity \in Nat /\ drops[d].claimed < drops[d].quantity /\ v \in Variant
    BY <2>2, LiveHasRoom
  <2>6. drops[d] # NoDrop
    BY <2>2, DropAssumption DEF DropRow, NoDrop
  <2> DEFINE row == [drops[d] EXCEPT !.claimed = @ + 1]
  <2>7. row \in DropRow /\ row # NoDrop /\ row.claimed = drops[d].claimed + 1 /\ row.quantity = drops[d].quantity
    BY <2>2, DropAssumption DEF DropRow, NoDrop
  <2>8. drops' = [drops EXCEPT ![d] = row]
    BY <2>1, <2>3 DEF DropInv, DropTypeOK
  <2> HIDE DEF d, u, l, v, new, row
  <2>9. \A x \in DropId : drops[x] # NoDrop => drops'[x] # NoDrop
    BY <2>7, <2>8 DEF DropInv, DropTypeOK
  <2>10. DropCallsOK'
    BY <1>1, <2>9, DropCallStep
  <2>11. DropTypeOK'
    BY <2>3, <2>4, <2>5, <2>7, <2>8 DEF DropInv, DropTypeOK
  <2>12. new \notin claims
    BY <2>2, <2>4
  <2>13. DropBook'
    <3>1. IsFiniteSet(claims')
      BY <2>3, FS_AddElement DEF DropInv, DropBook
    <3>2. \A x \in DropId : drops'[x] # NoDrop => drops'[x].quantity \in quantities'[x]
      BY <2>3, <2>6, <2>7, <2>8 DEF DropInv, DropTypeOK, DropBook
    <3>3. \A c \in claims' : drops'[c.drop] # NoDrop
      BY <2>1, <2>3, <2>4, <2>6, <2>9 DEF DropInv, DropTypeOK, DropBook, ClaimRow
    <3>4. \A w, x \in Variant : w # x => available'[w] \cap available'[x] = {}
      BY <2>3, <2>5 DEF DropInv, DropTypeOK, DropBook
    <3> QED BY <3>1, <3>2, <3>3, <3>4 DEF DropBook
  <2>14. ClaimsAreSound'
    <3>1. \A c, x \in claims' : (c.drop = x.drop /\ c.user = x.user) => c = x
      BY <2>2, <2>3, <2>4 DEF DropInv, ClaimsAreSound
    <3>2. \A c \in claims : c.line # l
      BY <2>2, <2>5 DEF DropInv, ClaimsAreSound
    <3>3. \A c, x \in claims' : c.line = x.line => c = x
      BY <2>3, <2>4, <3>2 DEF DropInv, ClaimsAreSound
    <3>4. \A w \in Variant : available'[w] \subseteq available[w] /\ l \notin available'[w]
      BY <2>2, <2>3, <2>5 DEF DropInv, DropTypeOK, DropBook
    <3>5. \A c \in claims' : \A w \in Variant : c.line \notin available'[w]
      BY <2>3, <2>4, <3>4 DEF DropInv, ClaimsAreSound
    <3>6. ASSUME NEW x \in DropId, drops'[x] # NoDrop
          PROVE  /\ drops'[x].claimed = Cardinality({c \in claims' : c.drop = x})
                 /\ \E m \in quantities'[x] : drops'[x].claimed <= m
      <4>1. CASE x # d
        <5>1. {c \in claims' : c.drop = x} = {c \in claims : c.drop = x}
          BY <2>3, <2>4, <4>1
        <5> QED BY <3>6, <4>1, <5>1, <2>3, <2>8 DEF DropInv, DropTypeOK, ClaimsAreSound
      <4>2. CASE x = d
        <5>1. {c \in claims' : c.drop = d} = {c \in claims : c.drop = d} \cup {new}
          BY <2>3, <2>4
        <5>2. IsFiniteSet({c \in claims : c.drop = d})
          BY FS_Subset DEF DropInv, DropBook
        <5>3. Cardinality({c \in claims' : c.drop = d}) = Cardinality({c \in claims : c.drop = d}) + 1
          BY <2>12, <5>1, <5>2, FS_AddElement
        <5>4. drops'[d].claimed = drops[d].claimed + 1 /\ drops[d].claimed = Cardinality({c \in claims : c.drop = d})
          BY <2>1, <2>6, <2>7, <2>8 DEF DropInv, DropTypeOK, ClaimsAreSound
        <5>5. drops[d].quantity \in quantities'[d] /\ drops'[d].claimed <= drops[d].quantity
          BY <2>1, <2>3, <2>5, <2>6, <5>4 DEF DropInv, DropBook
        <5> QED BY <4>2, <5>3, <5>4, <5>5
      <4> QED BY <4>1, <4>2
    <3> QED BY <3>1, <3>3, <3>5, <3>6 DEF ClaimsAreSound
  <2> QED BY <2>10, <2>11, <2>13, <2>14 DEF DropInv
<1> QED
  BY <1>2, <1>3 DEF ClaimCommit

\* An order takes a line.
LEMMA LineSoldStep ==
    ASSUME DropInv, NEW p \in Proc, NEW v \in Variant, NEW l \in Line, LineSold(p, v, l)
    PROVE  DropInv'
<1>1. /\ calls' = [calls EXCEPT ![p] = Idle] /\ DropHeld(Idle)
      /\ available' = [available EXCEPT ![v] = @ \ {l}] /\ UNCHANGED <<drops, claims, quantities>>
  BY DEF LineSold, Serve, Begin, DropHeld, Idle
<1>2. DropCallsOK'
  BY <1>1, DropCallStep
<1>3. DropTypeOK' /\ DropBook'
  BY <1>1 DEF DropInv, DropTypeOK, DropBook
<1>4. ClaimsAreSound'
  BY <1>1 DEF DropInv, DropTypeOK, ClaimsAreSound
<1> QED
  BY <1>2, <1>3, <1>4 DEF DropInv

\* A drop expires.
LEMMA DropExpiresStep ==
    ASSUME DropInv, NEW d \in DropId, DropExpires(d)
    PROVE  DropInv'
<1> DEFINE row == [drops[d] EXCEPT !.expiry = "past"]
<1>1. drops[d] # NoDrop /\ drops[d] \in DropRow
  BY DEF DropExpires, DropInv, DropTypeOK
<1>2. row \in DropRow /\ row.claimed = drops[d].claimed /\ row.quantity = drops[d].quantity
  BY <1>1 DEF DropRow
<1>3. drops' = [drops EXCEPT ![d] = row] /\ UNCHANGED <<claims, available, quantities, calls>>
  BY DEF DropExpires, callVars
<1> HIDE DEF row
<1>4. quantities[d] \in SUBSET Quantities /\ row.quantity \in quantities[d] /\ quantities' = [quantities EXCEPT ![d] = quantities[d]]
  BY <1>1, <1>2, <1>3 DEF DropInv, DropTypeOK, DropBook
<1>5. DropTypeOK' /\ DropBook' /\ ClaimsAreSound' /\ \A e \in DropId : drops[e] # NoDrop => drops'[e] # NoDrop
  BY <1>1, <1>2, <1>3, <1>4, DropRowStep
<1>6. DropCallsOK'
  BY <1>3, <1>5 DEF DropInv, DropCallsOK, CallsShape, DropHeld
<1> QED
  BY <1>5, <1>6 DEF DropInv

\* Every step keeps the invariant.
LEMMA DropInvStep == DropInv /\ [DropNext]_<<callVars, dropVars>> => DropInv'
<1> SUFFICES ASSUME DropInv, [DropNext]_<<callVars, dropVars>> PROVE DropInv'
  OBVIOUS
<1>1. ASSUME NEW p \in Proc,
             \/ DropAdminRequest(p) \/ DropPublicRequest(p) \/ DropStep(p) \/ DropAbort(p)
             \/ \E v \in Variant, l \in Line : LineSold(p, v, l)
      PROVE  DropInv'
  BY <1>1, DropCreateStep, DropRequestStep, DropWriteStep, ClaimCommitStep, LineSoldStep
     DEF DropAdminRequest, DropStep
<1>2. ASSUME NEW d \in DropId, DropExpires(d) PROVE DropInv'
  BY <1>2, DropExpiresStep
<1>3. CASE UNCHANGED <<callVars, dropVars>>
  <2>1. UNCHANGED <<calls, drops, claims, available, quantities>>
    BY <1>3 DEF callVars, dropVars
  <2>2. DropCallsOK' /\ DropTypeOK'
    BY <2>1 DEF DropInv, DropCallsOK, CallsShape, DropHeld, DropTypeOK
  <2>3. DropBook' /\ ClaimsAreSound'
    BY <2>1 DEF DropInv, DropBook, ClaimsAreSound
  <2> QED BY <2>2, <2>3 DEF DropInv
<1> QED
  BY <1>1, <1>2, <1>3 DEF DropNext

\* A line leaves for a user only by a commit on a snapshot that still holds.
LEMMA ClaimedWhileListed ==
    DropInv /\ [DropNext]_<<callVars, dropVars>> =>
        [\A c \in claims' \ claims : c.drop \in ListedDrops /\ UserAllowed(drops[c.drop], c.user)]_claims
<1> SUFFICES ASSUME DropInv, DropNext, claims' # claims
             PROVE  \A c \in claims' \ claims : c.drop \in ListedDrops /\ UserAllowed(drops[c.drop], c.user)
  BY DEF dropVars
<1>1. PICK p \in Proc : ClaimCommit(p)
  BY DEF DropNext, DropAdminRequest, DropPublicRequest, DropStep, DropAbort, DropCreate, DropUpdate,
         DropToggle, DropDelete, DropWrite, ClaimRead, LineSold, DropExpires, dropVars
<1>2. SnapshotHolds(calls[p]) /\ ClaimWrites(calls[p])
  BY <1>1 DEF ClaimCommit
<1>3. DropHeld(calls[p]) /\ calls[p].at = "drop.claim"
  BY <1>1 DEF ClaimCommit, At, DropInv, DropCallsOK
<1>4. /\ drops[calls[p].id] = calls[p].row /\ calls[p].id \in DropId
      /\ drops[calls[p].id] # NoDrop
      /\ ~drops[calls[p].id].deleted /\ DropStatus(drops[calls[p].id]) = "live"
      /\ UserAllowed(drops[calls[p].id], calls[p].user)
  BY <1>2, <1>3, DropAssumption DEF SnapshotHolds, DropHeld, DropRow, NoDrop
<1>5. claims' \ claims \subseteq {[drop |-> calls[p].id, user |-> calls[p].user, line |-> calls[p].line]}
  BY <1>2 DEF ClaimWrites
<1> QED
  BY <1>4, <1>5 DEF ListedDrops, Existing

\* Drops, claims, lines and the histories keep their types.
THEOREM DropTypeCorrect == DropSpec => []DropTypeOK
<1>1. DropInv => DropTypeOK
  BY DEF DropInv
<1> QED
  BY DropInitInv, DropInvStep, <1>1, PTL DEF DropSpec

\* One line per user and drop, each line to one user and off the shelves, and a counter that is the
\* number of claims within the largest quantity there was, although the tests of a claim are made on
\* a row that other claims and updates overtake: the unique indexes and the conditional update of
\* drop.service.ts decide.
THEOREM ClaimsCorrect == DropSpec => []ClaimsAreSound
<1>1. DropInv => ClaimsAreSound
  BY DEF DropInv
<1> QED
  BY DropInitInv, DropInvStep, <1>1, PTL DEF DropSpec

\* A line is claimed only while the public list shows its drop and admits the user, although the
\* claim tests what it read a moment before (drop.service.ts).
THEOREM ListingCorrect == DropSpec => WithdrawnIsNotClaimed
<1> QED
  BY DropInitInv, DropInvStep, ClaimedWhileListed, PTL DEF DropSpec, WithdrawnIsNotClaimed

-------------------------------------------------------------------------------
(* Vouches *)

Subject == Item \cup Claimed

\* A call that is about to store a vouch found the item delivered to its user, or the claim his.
OnTheWay(c) == c.at \in {"vouch.upload", "vouch.insert"}

Entitled(c) ==
    /\ c.user \in Author /\ c.about \in Subject
    /\ c.about \in Item => ordered[c.about].user = c.user /\ ordered[c.about].status # "PENDING"
    /\ c.about \notin Item => claimedBy[c.about] = c.user

VouchHeld(c) ==
    /\ OnTheWay(c) => Entitled(c)
    /\ c.at = "vouch.insert" => c.id \in pictures /\ vouches[c.id] = NoVouch
    /\ c.at \in {"vouch.delete", "vouch.approve"} => c.id \in Vouch /\ vouches[c.id] # NoVouch
    /\ c.at = "vouch.approve" => c.user \in Author
    /\ c.at \in {"review.insert", "review.restore", "review.write", "review.delete"} => c.about \in Item

\* Every upload has a key of its own.
VouchCallsOK ==
    /\ CallsShape
    /\ \A p \in Proc : VouchHeld(calls[p])
    /\ \A p, q \in Proc :
          (p # q /\ calls[p].at = "vouch.insert" /\ calls[q].at = "vouch.insert") => calls[p].id # calls[q].id

\* The calls that have passed the test of the limit for x and have not stored their vouch.
Pending(x) == {p \in Proc : OnTheWay(calls[p]) /\ calls[p].about = x}

\* Vouches stored and vouches on their way, taken together.
VouchRoom ==
    /\ IsFiniteSet(pictures)
    /\ \A x \in Subject :
          Cardinality(LiveVouches(x)) + Cardinality(Pending(x)) <= MaxPerItem + Cardinality(Proc) - 1

\* What each row says, without the count.
RowsSound ==
    \A v \in Vouch : vouches[v] # NoVouch =>
        /\ v \in pictures
        /\ vouches[v].delivered
        /\ vouches[v].user =
               IF vouches[v].about \in Item THEN ordered[vouches[v].about].user
               ELSE claimedBy[vouches[v].about]
        /\ (vouches[v].about \in Item /\ vouches[v].status = "APPROVED") => vouches[v].approvedBy # "none"

VouchInv == VouchTypeOK /\ VouchCallsOK /\ VouchRoom /\ RowsSound

\* A stored vouch is not the absent one.
LEMMA RowIsNotNoVouch == ASSUME NEW r \in VouchRow PROVE r # NoVouch
BY DEF VouchRow, NoVouch

\* Vouches stored and vouches on their way can be counted.
LEMMA LiveIsFinite ==
    ASSUME VouchInv, NEW x
    PROVE  IsFiniteSet(LiveVouches(x)) /\ IsFiniteSet(Pending(x)) /\ Cardinality(Pending(x)) <= Cardinality(Proc)
           /\ Cardinality(LiveVouches(x)) \in Nat /\ Cardinality(Pending(x)) \in Nat /\ Cardinality(Proc) \in Nat
<1>1. LiveVouches(x) \subseteq pictures /\ Pending(x) \subseteq Proc
  BY DEF VouchInv, RowsSound, LiveVouches, Pending
<1>2. IsFiniteSet(LiveVouches(x)) /\ IsFiniteSet(Pending(x))
  BY <1>1, VouchAssumption, FS_Subset DEF VouchInv, VouchRoom
<1>3. Cardinality(Pending(x)) <= Cardinality(Proc)
  BY <1>1, VouchAssumption, FS_Subset
<1> QED BY <1>2, <1>3, VouchAssumption, FS_CardinalityType

\* The invariant holds at the start.
LEMMA VouchInitInv == CallsInit /\ VouchInit => VouchInv
<1> SUFFICES ASSUME CallsInit, VouchInit PROVE VouchInv
  OBVIOUS
<1>1. VouchTypeOK
  BY DEF VouchInit, VouchTypeOK, OrderStatus, Review
<1>2. VouchCallsOK
  BY DEF CallsInit, VouchCallsOK, CallsShape, VouchHeld, OnTheWay, Idle
<1>3. RowsSound
  BY DEF VouchInit, RowsSound
<1>4. VouchRoom
  <2>1. \A x \in Subject : LiveVouches(x) = {} /\ Pending(x) = {}
    BY DEF CallsInit, VouchInit, LiveVouches, Pending, OnTheWay, Idle
  <2>2. Cardinality(Proc) \in Nat
    BY VouchAssumption, FS_CardinalityType
  <2>3. IsFiniteSet(pictures) /\ Cardinality({}) = 0
    BY FS_EmptySet DEF VouchInit
  <2>4. 0 + 0 <= MaxPerItem + Cardinality(Proc) - 1
    BY <2>2, VouchAssumption
  <2> QED BY <2>1, <2>3, <2>4 DEF VouchRoom
<1> QED
  BY <1>1, <1>2, <1>3, <1>4 DEF VouchInv

\* A step that changes one call and no vouch and that adds no call on its way.
LEMMA VouchCallStep ==
    ASSUME VouchInv, NEW p \in Proc, NEW c, calls' = [calls EXCEPT ![p] = c],
           ~OnTheWay(c), VouchHeld(c),
           UNCHANGED <<vouches, pictures, claimedBy>>,
           \A i \in Item : ordered'[i].user = ordered[i].user /\ (ordered[i].status # "PENDING" => ordered'[i].status # "PENDING"),
           VouchTypeOK'
    PROVE  VouchInv'
<1>1. CallsShape' /\ calls'[p] = c /\ \A q \in Proc \ {p} : calls'[q] = calls[q]
  BY OneCall DEF VouchInv, VouchCallsOK
<1>2. ASSUME NEW q \in Proc PROVE VouchHeld(calls[q])'
  <2>1. VouchHeld(calls'[q])
    BY <1>1 DEF VouchInv, VouchCallsOK
  <2> QED BY <2>1 DEF VouchHeld, Entitled, OnTheWay, Subject
<1>3. VouchCallsOK'
  BY <1>1, <1>2 DEF VouchInv, VouchCallsOK, OnTheWay
<1>4. RowsSound'
  BY DEF VouchInv, VouchTypeOK, RowsSound, VouchRow
<1>5. VouchRoom'
  <2>1. ASSUME NEW x \in Subject
        PROVE  Cardinality(LiveVouches(x)') + Cardinality(Pending(x)') <= MaxPerItem + Cardinality(Proc) - 1
    <3>1. LiveVouches(x)' = LiveVouches(x)
      BY DEF LiveVouches
    <3>2. Pending(x)' \subseteq Pending(x)
      BY <1>1 DEF Pending, OnTheWay
    <3>3. Cardinality(Pending(x)') <= Cardinality(Pending(x)) /\ Cardinality(Pending(x)') \in Nat
      BY <3>2, LiveIsFinite, FS_Subset, FS_CardinalityType
    <3> QED BY <3>1, <3>3, LiveIsFinite, VouchAssumption DEF VouchInv, VouchRoom
  <2> QED BY <2>1 DEF VouchInv, VouchRoom
<1> QED
  BY <1>3, <1>4, <1>5 DEF VouchInv

\* create: the order, the item or the claim is found, the limit is tested.
LEMMA VouchCreateStep ==
    ASSUME VouchInv, NEW p \in Proc, NEW u \in Author, NEW x \in Subject, VouchCreate(p, u, x)
    PROVE  VouchInv'
<1> DEFINE c == [at |-> "vouch.upload", user |-> u, about |-> x]
<1>1. /\ calls' = [calls EXCEPT ![p] = c] /\ calls[p].at = "idle"
      /\ UNCHANGED <<ordered, claimedBy, vouches, pictures, reviews>>
  BY DEF VouchCreate, Begin, At, vouchVars
<1>2. OnTheWay(c) /\ c.at = "vouch.upload" /\ c.about = x /\ c.user = u
  BY DEF OnTheWay
<1>3. VouchHeld(c)
  BY DEF VouchHeld, OnTheWay, Entitled, VouchCreate, MayVouch, Subject
<1> HIDE DEF c
<1>4. CallsShape' /\ calls'[p] = c /\ \A q \in Proc \ {p} : calls'[q] = calls[q]
  BY <1>1, OneCall DEF VouchInv, VouchCallsOK
<1>5. VouchTypeOK' /\ RowsSound'
  BY <1>1 DEF VouchInv, VouchTypeOK, RowsSound
<1>6. VouchCallsOK'
  <2>1. ASSUME NEW q \in Proc PROVE VouchHeld(calls[q])'
    <3>1. VouchHeld(calls'[q])
      BY <1>3, <1>4 DEF VouchInv, VouchCallsOK
    <3> QED BY <1>1, <3>1 DEF VouchHeld, Entitled
  <2> QED BY <1>2, <1>4, <2>1 DEF VouchInv, VouchCallsOK
<1>7. VouchRoom'
  <2>1. ASSUME NEW y \in Subject
        PROVE  Cardinality(LiveVouches(y)') + Cardinality(Pending(y)') <= MaxPerItem + Cardinality(Proc) - 1
    <3>1. LiveVouches(y)' = LiveVouches(y)
      BY <1>1 DEF LiveVouches
    <3>2. CASE y # x
      <4>1. Pending(y)' = Pending(y)
        BY <1>1, <1>2, <1>4, <3>2 DEF Pending, OnTheWay
      <4> QED BY <3>1, <4>1 DEF VouchInv, VouchRoom
    <3>3. CASE y = x
      <4>1. Cardinality(LiveVouches(x)) <= MaxPerItem - 1
        BY LiveIsFinite, VouchAssumption DEF VouchCreate, RoomFor
      <4>2. Pending(y)' \subseteq Proc
        BY DEF Pending
      <4>3. Cardinality(Pending(y)') <= Cardinality(Proc) /\ Cardinality(Pending(y)') \in Nat /\ Cardinality(Proc) \in Nat
        BY <4>2, VouchAssumption, FS_Subset, FS_CardinalityType
      <4> QED BY <3>1, <3>3, <4>1, <4>3, LiveIsFinite, VouchAssumption
    <3> QED BY <3>2, <3>3
  <2> QED BY <1>1, <2>1 DEF VouchInv, VouchRoom
<1> QED
  BY <1>5, <1>6, <1>7 DEF VouchInv

\* create: the picture is stored.
LEMMA VouchUploadStep ==
    ASSUME VouchInv, NEW p \in Proc, VouchUpload(p)
    PROVE  VouchInv'
<1>1. PICK v \in Vouch :
        /\ vouches[v] = NoVouch /\ v \notin pictures /\ pictures' = pictures \cup {v}
        /\ calls' = [calls EXCEPT ![p] = [at |-> "vouch.insert", user |-> calls[p].user,
                                         about |-> calls[p].about, id |-> v]]
  BY DEF VouchUpload, Goto
<1>c. PICK c : c = [at |-> "vouch.insert", user |-> calls[p].user, about |-> calls[p].about, id |-> v]
  OBVIOUS
<1>2. UNCHANGED <<ordered, claimedBy, vouches, reviews>> /\ calls[p].at = "vouch.upload" /\ calls' = [calls EXCEPT ![p] = c]
  BY <1>1, <1>c DEF VouchUpload, At
<1>3. OnTheWay(calls[p]) /\ OnTheWay(c) /\ c.at = "vouch.insert" /\ c.about = calls[p].about /\ c.user = calls[p].user /\ c.id = v
  BY <1>2, <1>c DEF OnTheWay
<1>4. CallsShape' /\ calls'[p] = c /\ \A q \in Proc \ {p} : calls'[q] = calls[q]
  BY <1>2, OneCall DEF VouchInv, VouchCallsOK
<1>5. VouchTypeOK' /\ RowsSound'
  BY <1>1, <1>2 DEF VouchInv, VouchTypeOK, RowsSound
<1>6. VouchCallsOK'
  <2>1. Entitled(c)
    BY <1>3 DEF VouchInv, VouchCallsOK, VouchHeld, Entitled
  <2>2. VouchHeld(c)'
    BY <1>1, <1>2, <1>3, <2>1 DEF VouchHeld, Entitled
  <2>3. ASSUME NEW q \in Proc, q # p PROVE VouchHeld(calls[q])' /\ (calls[q].at = "vouch.insert" => calls[q].id # v)
    <3>1. VouchHeld(calls[q]) /\ calls'[q] = calls[q]
      BY <1>4, <2>3 DEF VouchInv, VouchCallsOK
    <3> QED BY <1>1, <1>2, <3>1 DEF VouchHeld, Entitled
  <2>4. \A q \in Proc : VouchHeld(calls[q])'
    <3>1. VouchHeld(calls[p])'
      BY <1>4, <2>2 DEF VouchHeld, Entitled, OnTheWay
    <3> QED BY <2>3, <3>1
  <2> QED BY <1>3, <1>4, <2>3, <2>4 DEF VouchInv, VouchCallsOK
<1>7. VouchRoom'
  <2>1. ASSUME NEW y \in Subject PROVE LiveVouches(y)' = LiveVouches(y) /\ Pending(y)' = Pending(y)
    BY <1>2, <1>3, <1>4 DEF LiveVouches, Pending, OnTheWay
  <2>2. IsFiniteSet(pictures')
    BY <1>1, FS_AddElement DEF VouchInv, VouchRoom
  <2> QED BY <2>1, <2>2 DEF VouchInv, VouchRoom
<1> QED
  BY <1>5, <1>6, <1>7 DEF VouchInv

\* A row that is stored: as it was, but deleted or approved.
LEMMA VouchRowStep ==
    ASSUME VouchInv, NEW p \in Proc, NEW v \in Vouch, vouches[v] # NoVouch,
           NEW row \in VouchRow, row.about = vouches[v].about, row.user = vouches[v].user,
           row.delivered = vouches[v].delivered, vouches[v].deleted => row.deleted,
           row.status = "APPROVED" => row.approvedBy # "none" \/ (row.status = vouches[v].status /\ row.approvedBy = vouches[v].approvedBy),
           vouches' = [vouches EXCEPT ![v] = row], calls' = [calls EXCEPT ![p] = Idle],
           UNCHANGED <<ordered, claimedBy, pictures, reviews>>
    PROVE  VouchInv'
<1>1. CallsShape' /\ calls'[p] = Idle /\ \A q \in Proc \ {p} : calls'[q] = calls[q]
  BY OneCall DEF VouchInv, VouchCallsOK
<1>2. row # NoVouch /\ v \in pictures
  BY RowIsNotNoVouch DEF VouchInv, RowsSound
<1>3. VouchTypeOK' /\ RowsSound'
  BY <1>2 DEF VouchInv, VouchTypeOK, RowsSound
<1>4. VouchCallsOK'
  <2>1. ASSUME NEW q \in Proc, q # p PROVE VouchHeld(calls[q])'
    <3>1. VouchHeld(calls[q]) /\ calls'[q] = calls[q]
      BY <1>1, <2>1 DEF VouchInv, VouchCallsOK
    <3>2. \A x : (x \in Vouch /\ vouches[x] # NoVouch) => vouches'[x] # NoVouch
      BY <1>2 DEF VouchInv, VouchTypeOK
    <3>3. \A x : x \in pictures /\ vouches[x] = NoVouch => vouches'[x] = NoVouch
      BY DEF VouchInv, VouchTypeOK
    <3> QED BY <3>1, <3>2, <3>3 DEF VouchHeld, Entitled, OnTheWay
  <2>2. VouchHeld(calls[p])'
    BY <1>1 DEF VouchHeld, OnTheWay, Idle
  <2> QED BY <1>1, <2>1, <2>2 DEF VouchInv, VouchCallsOK, Idle
<1>5. VouchRoom'
  <2>1. ASSUME NEW x \in Subject
        PROVE  Cardinality(LiveVouches(x)') + Cardinality(Pending(x)') <= MaxPerItem + Cardinality(Proc) - 1
    <3>1. LiveVouches(x)' \subseteq LiveVouches(x)
      BY <1>2 DEF LiveVouches, VouchInv, VouchTypeOK
    <3>2. Pending(x)' \subseteq Pending(x)
      BY <1>1 DEF Pending, OnTheWay, Idle
    <3>3. /\ Cardinality(Pending(x)') <= Cardinality(Pending(x)) /\ Cardinality(Pending(x)') \in Nat
          /\ Cardinality(LiveVouches(x)') <= Cardinality(LiveVouches(x)) /\ Cardinality(LiveVouches(x)') \in Nat
      BY <3>1, <3>2, LiveIsFinite, FS_Subset, FS_CardinalityType
    <3> QED BY <3>3, LiveIsFinite, VouchAssumption DEF VouchInv, VouchRoom
  <2> QED BY <2>1 DEF VouchInv, VouchRoom
<1> QED
  BY <1>3, <1>4, <1>5 DEF VouchInv

\* create: the row is inserted.
LEMMA VouchInsertStep ==
    ASSUME VouchInv, NEW p \in Proc, VouchInsert(p)
    PROVE  VouchInv'
<1>1. PICK v, x, u : v = calls[p].id /\ x = calls[p].about /\ u = calls[p].user
  OBVIOUS
<1>2. calls[p].at = "vouch.insert" /\ calls' = [calls EXCEPT ![p] = Idle]
      /\ UNCHANGED <<ordered, claimedBy, pictures, reviews>>
  BY DEF VouchInsert, At, Return, Goto
<1>3. /\ v \in Vouch /\ v \in pictures /\ vouches[v] = NoVouch /\ x \in Subject /\ u \in Author
      /\ x \in Item => ordered[x].user = u /\ ordered[x].status # "PENDING"
      /\ x \notin Item => claimedBy[x] = u
  BY <1>1, <1>2 DEF VouchInv, VouchCallsOK, VouchHeld, Entitled, OnTheWay, VouchTypeOK
<1>4. PICK row : row = [about |-> x, user |-> u, status |-> IF x \in Item THEN "PENDING" ELSE "APPROVED",
                        approvedBy |-> "none", delivered |-> x \in Item => ordered[x].status # "PENDING",
                        deleted |-> FALSE]
  OBVIOUS
<1>5. vouches' = [vouches EXCEPT ![v] = row]
  BY <1>1, <1>4 DEF VouchInsert
<1>6. /\ row \in VouchRow /\ row.about = x /\ row.user = u /\ row.delivered /\ ~row.deleted
      /\ x \in Item => row.status = "PENDING"
  BY <1>3, <1>4 DEF VouchRow, Subject
<1>7. row # NoVouch
  BY <1>6, RowIsNotNoVouch
<1>8. CallsShape' /\ calls'[p] = Idle /\ \A q \in Proc \ {p} : calls'[q] = calls[q]
  BY <1>2, OneCall DEF VouchInv, VouchCallsOK
<1>9. VouchTypeOK' /\ RowsSound'
  BY <1>2, <1>3, <1>5, <1>6 DEF VouchInv, VouchTypeOK, RowsSound
<1>10. VouchCallsOK'
  <2>1. ASSUME NEW q \in Proc, q # p PROVE VouchHeld(calls[q])'
    <3>1. VouchHeld(calls[q]) /\ calls'[q] = calls[q] /\ (calls[q].at = "vouch.insert" => calls[q].id # v)
      BY <1>1, <1>2, <1>8, <2>1 DEF VouchInv, VouchCallsOK
    <3>2. \A y : (y \in Vouch /\ vouches[y] # NoVouch) => vouches'[y] # NoVouch
      BY <1>5, <1>7 DEF VouchInv, VouchTypeOK
    <3>3. \A y : y # v /\ y \in pictures /\ vouches[y] = NoVouch => vouches'[y] = NoVouch
      BY <1>5 DEF VouchInv, VouchTypeOK
    <3> QED BY <1>2, <3>1, <3>2, <3>3 DEF VouchHeld, Entitled, OnTheWay
  <2>2. VouchHeld(calls[p])'
    BY <1>8 DEF VouchHeld, OnTheWay, Idle
  <2> QED BY <1>8, <2>1, <2>2 DEF VouchInv, VouchCallsOK, Idle
<1>11. VouchRoom'
  <2>1. ASSUME NEW y \in Subject
        PROVE  Cardinality(LiveVouches(y)') + Cardinality(Pending(y)') <= MaxPerItem + Cardinality(Proc) - 1
    <3>1. CASE y # x
      <4>1. LiveVouches(y)' = LiveVouches(y) /\ Pending(y)' = Pending(y)
        BY <1>1, <1>2, <1>3, <1>5, <1>6, <1>8, <3>1 DEF LiveVouches, Pending, OnTheWay, Idle, VouchInv, VouchTypeOK
      <4> QED BY <4>1 DEF VouchInv, VouchRoom
    <3>2. CASE y = x
      <4>1. LiveVouches(x)' = LiveVouches(x) \cup {v} /\ v \notin LiveVouches(x)
        BY <1>3, <1>5, <1>6, <1>7 DEF LiveVouches, VouchInv, VouchTypeOK
      <4>2. Pending(x)' = Pending(x) \ {p} /\ p \in Pending(x)
        BY <1>1, <1>2, <1>8 DEF Pending, OnTheWay, Idle
      <4>3. Cardinality(LiveVouches(x)') = Cardinality(LiveVouches(x)) + 1
        BY <4>1, LiveIsFinite, FS_AddElement
      <4>4. Cardinality(Pending(x)') = Cardinality(Pending(x)) - 1
        BY <4>2, LiveIsFinite, FS_RemoveElement
      <4> QED BY <3>2, <4>3, <4>4, LiveIsFinite, VouchAssumption DEF VouchInv, VouchRoom
    <3> QED BY <3>1, <3>2
  <2> QED BY <1>2, <2>1 DEF VouchInv, VouchRoom
<1> QED
  BY <1>9, <1>10, <1>11 DEF VouchInv

\* A vouch is deleted or approved.
LEMMA VouchMarkStep ==
    ASSUME VouchInv, NEW p \in Proc, VouchDeleteWrite(p) \/ VouchApproveWrite(p)
    PROVE  VouchInv'
<1>1. PICK v : v = calls[p].id
  OBVIOUS
<1>2. v \in Vouch /\ vouches[v] # NoVouch /\ vouches[v] \in VouchRow
  BY <1>1 DEF VouchDeleteWrite, VouchApproveWrite, At, VouchInv, VouchCallsOK, VouchHeld, VouchTypeOK
<1>3. calls' = [calls EXCEPT ![p] = Idle] /\ UNCHANGED <<ordered, claimedBy, pictures, reviews>>
  BY DEF VouchDeleteWrite, VouchApproveWrite, Return, Goto
<1>4. CASE VouchDeleteWrite(p)
  <2>1. PICK row : row = [vouches[v] EXCEPT !.deleted = TRUE]
    OBVIOUS
  <2>2. vouches' = [vouches EXCEPT ![v] = row]
    BY <1>1, <1>4, <2>1 DEF VouchDeleteWrite
  <2>3. /\ row \in VouchRow /\ row.about = vouches[v].about /\ row.user = vouches[v].user /\ row.deleted
        /\ row.delivered = vouches[v].delivered /\ row.status = vouches[v].status /\ row.approvedBy = vouches[v].approvedBy
    BY <1>2, <2>1 DEF VouchRow
  <2> QED BY <1>2, <1>3, <2>2, <2>3, VouchRowStep
<1>5. CASE VouchApproveWrite(p)
  <2>1. PICK row : row = [vouches[v] EXCEPT !.status = "APPROVED", !.approvedBy = calls[p].user]
    OBVIOUS
  <2>2. vouches' = [vouches EXCEPT ![v] = row]
    BY <1>1, <1>5, <2>1 DEF VouchApproveWrite, VouchInv, VouchTypeOK
  <2>3. calls[p].user \in Author /\ calls[p].user # "none"
    BY <1>5, VouchAssumption DEF VouchApproveWrite, At, VouchInv, VouchCallsOK, VouchHeld
  <2>4. /\ row \in VouchRow /\ row.about = vouches[v].about /\ row.user = vouches[v].user
        /\ row.delivered = vouches[v].delivered /\ row.deleted = vouches[v].deleted /\ row.approvedBy # "none"
    BY <1>2, <2>1, <2>3 DEF VouchRow
  <2> QED BY <1>2, <1>3, <2>2, <2>4, VouchRowStep
<1> QED
  BY <1>4, <1>5

\* Requests that only read, reviews, and calls that fail.
LEMMA VouchOtherStep ==
    ASSUME VouchInv, NEW p \in Proc,
           \/ \E v \in Vouch : VouchDelete(p, v) \/ \E admin \in Author : VouchApprove(p, v, admin)
           \/ ReviewUserRequest(p)
           \/ ReviewInsert(p) \/ ReviewRestore(p) \/ ReviewWrite(p) \/ ReviewDeleteWrite(p)
           \/ VouchAbort(p) \/ \E i \in Item : OrderMoves(p, i)
    PROVE  VouchInv'
<1> VouchHeld(Idle) /\ ~OnTheWay(Idle)
  BY DEF VouchHeld, OnTheWay, Idle
<1>1. ASSUME NEW c, VouchHeld(c), ~OnTheWay(c), calls' = [calls EXCEPT ![p] = c], UNCHANGED vouchVars PROVE VouchInv'
  BY <1>1, VouchCallStep DEF vouchVars, VouchInv, VouchTypeOK
<1>2. ASSUME NEW v \in Vouch, VouchDelete(p, v) PROVE VouchInv'
  <2>1. PICK c : c = [at |-> "vouch.delete", id |-> v]
    OBVIOUS
  <2>2. VouchHeld(c) /\ ~OnTheWay(c)
    BY <1>2, <2>1 DEF VouchDelete, Shown, VouchHeld, OnTheWay
  <2> QED BY <1>1, <1>2, <2>1, <2>2 DEF VouchDelete, Begin
<1>3. ASSUME NEW v \in Vouch, NEW admin \in Author, VouchApprove(p, v, admin) PROVE VouchInv'
  <2>1. PICK c : c = [at |-> "vouch.approve", id |-> v, user |-> admin]
    OBVIOUS
  <2>2. VouchHeld(c) /\ ~OnTheWay(c)
    BY <1>3, <2>1 DEF VouchApprove, Shown, VouchHeld, OnTheWay
  <2> QED BY <1>1, <1>3, <2>1, <2>2 DEF VouchApprove, Begin
<1>4. ASSUME ReviewUserRequest(p) PROVE VouchInv'
  <2>1. PICK i \in Item, at \in {"review.insert", "review.restore", "review.write", "review.delete"} :
           Begin(p, [at |-> at, about |-> i]) /\ UNCHANGED vouchVars
    BY <1>4 DEF ReviewUserRequest, ReviewCreate, ReviewUpdate, ReviewDelete
  <2>2. PICK c : c = [at |-> at, about |-> i]
    OBVIOUS
  <2>3. VouchHeld(c) /\ ~OnTheWay(c)
    BY <2>2 DEF VouchHeld, OnTheWay
  <2> QED BY <1>1, <2>1, <2>2, <2>3 DEF Begin
<1>5. ASSUME ReviewWrite(p) \/ VouchAbort(p) PROVE VouchInv'
  BY <1>1, <1>5 DEF ReviewWrite, VouchAbort, Interrupt, Return, Goto
<1>6. ASSUME ReviewInsert(p) \/ ReviewRestore(p) \/ ReviewDeleteWrite(p) PROVE VouchInv'
  <2>1. calls[p].about \in Item
    BY <1>6 DEF ReviewInsert, ReviewRestore, ReviewDeleteWrite, At, VouchInv, VouchCallsOK, VouchHeld
  <2>2. calls' = [calls EXCEPT ![p] = Idle] /\ UNCHANGED <<ordered, claimedBy, vouches, pictures>>
    BY <1>6 DEF ReviewInsert, ReviewRestore, ReviewDeleteWrite, Return, Goto
  <2>3. reviews' \in [Item -> Review]
    BY <1>6, <2>1 DEF ReviewInsert, ReviewRestore, ReviewDeleteWrite, VouchInv, VouchTypeOK, Review
  <2>4. VouchTypeOK'
    BY <2>2, <2>3 DEF VouchInv, VouchTypeOK
  <2> QED BY <2>2, <2>4, VouchCallStep
<1>7. ASSUME NEW i \in Item, OrderMoves(p, i) PROVE VouchInv'
  <2>1. /\ calls' = [calls EXCEPT ![p] = Idle] /\ UNCHANGED <<claimedBy, vouches, pictures, reviews>>
        /\ ordered' = [ordered EXCEPT ![i].status = IF @ = "PENDING" THEN "COMPLETED" ELSE "REFUNDED"]
    BY <1>7 DEF OrderMoves, Serve, Begin
  <2>2. VouchTypeOK'
    BY <2>1 DEF VouchInv, VouchTypeOK, OrderStatus
  <2>3. \A j \in Item : ordered'[j].user = ordered[j].user /\ (ordered[j].status # "PENDING" => ordered'[j].status # "PENDING")
    BY <2>1 DEF VouchInv, VouchTypeOK
  <2> QED BY <2>1, <2>2, <2>3, VouchCallStep
<1> QED
  BY <1>2, <1>3, <1>4, <1>5, <1>6, <1>7

\* Every step keeps the invariant,
LEMMA VouchInvStep == VouchInv /\ [VouchNext]_<<callVars, vouchVars>> => VouchInv'
<1> SUFFICES ASSUME VouchInv, [VouchNext]_<<callVars, vouchVars>> PROVE VouchInv'
  OBVIOUS
<1>1. ASSUME VouchNext PROVE VouchInv'
  BY <1>1, VouchCreateStep, VouchUploadStep, VouchInsertStep, VouchMarkStep, VouchOtherStep
     DEF VouchNext, VouchUserRequest, VouchAdminRequest, VouchStep, Subject
<1>2. CASE UNCHANGED <<callVars, vouchVars>>
  BY <1>2 DEF callVars, vouchVars, VouchInv, VouchTypeOK, VouchCallsOK, CallsShape, VouchHeld, Entitled, OnTheWay,
              VouchRoom, LiveVouches, Pending, RowsSound
<1> QED
  BY <1>1, <1>2

\* which implies what the run checks.
LEMMA VouchInvImplies == VouchInv => VouchesAreSound
<1> SUFFICES ASSUME VouchInv PROVE VouchesAreSound
  OBVIOUS
<1>1. \A v \in PublicVouches : vouches[v].about \in Item => vouches[v].approvedBy # "none"
  BY DEF VouchInv, RowsSound, PublicVouches, Shown
<1>2. ASSUME NEW x \in Item \cup Claimed PROVE Cardinality(LiveVouches(x)) <= MaxPerItem + Cardinality(Proc) - 1
  BY LiveIsFinite, VouchAssumption DEF VouchInv, VouchRoom, Subject
<1> QED
  BY <1>1, <1>2 DEF VouchInv, RowsSound, VouchesAreSound

\* No step brings a deleted vouch back.
LEMMA DeletedStep ==
    VouchInv /\ [VouchNext]_<<callVars, vouchVars>> =>
        [\A v \in Vouch : (vouches[v] # NoVouch /\ vouches[v].deleted) => vouches'[v].deleted]_vouches
<1> SUFFICES ASSUME VouchInv, VouchNext, vouches' # vouches, NEW v \in Vouch, vouches[v] # NoVouch, vouches[v].deleted
             PROVE  vouches'[v].deleted
  BY DEF vouchVars
<1>1. PICK p \in Proc : VouchInsert(p) \/ VouchDeleteWrite(p) \/ VouchApproveWrite(p)
  BY DEF VouchNext, VouchUserRequest, VouchAdminRequest, ReviewUserRequest, VouchStep, VouchAbort, OrderMoves,
         VouchCreate, VouchUpload, VouchDelete, VouchApprove, ReviewCreate, ReviewUpdate, ReviewDelete,
         ReviewInsert, ReviewRestore, ReviewWrite, ReviewDeleteWrite, vouchVars
<1>2. VouchHeld(calls[p]) /\ vouches \in [Vouch -> VouchRow \cup {NoVouch}] /\ vouches[v] \in VouchRow
  BY DEF VouchInv, VouchCallsOK, VouchTypeOK
<1>3. CASE VouchInsert(p)
  BY <1>2, <1>3 DEF VouchInsert, At, VouchHeld
<1>4. CASE VouchDeleteWrite(p)
  BY <1>2, <1>4 DEF VouchDeleteWrite, VouchRow
<1>5. CASE VouchApproveWrite(p)
  BY <1>2, <1>5 DEF VouchApproveWrite, VouchRow
<1> QED
  BY <1>1, <1>3, <1>4, <1>5

\* Every vouch speaks of an item that had been delivered to its user or of the user's own claim,
\* has its picture and, when it is about an item, is public only under a moderator's name; the limit,
\* tested before the upload, is overshot by less than the number of calls (vouch.service.ts).
THEOREM VouchesCorrect == VouchSpec => []VouchesAreSound
<1> QED
  BY VouchInitInv, VouchInvStep, VouchInvImplies, PTL DEF VouchSpec

\* Orders, vouches, pictures and reviews keep their types.
THEOREM VouchTypeCorrect == VouchSpec => []VouchTypeOK
<1>1. VouchInv => VouchTypeOK
  BY DEF VouchInv
<1> QED
  BY VouchInitInv, VouchInvStep, <1>1, PTL DEF VouchSpec

\* A vouch that was deleted stays so, whatever approval was under way.
THEOREM DeletionCorrect == VouchSpec => DeletedStaysDeleted
<1> QED
  BY VouchInitInv, VouchInvStep, DeletedStep, PTL DEF VouchSpec, DeletedStaysDeleted

-------------------------------------------------------------------------------
(* The invariant *)

Row(x) == x \in Product /\ products[x] # NoRow

ImageOf(i, x) == i \in Picture /\ images[i] # NoImage /\ images[i].of = x

\* What a call on products or categories holds: rows it writes exist, values are of their types.
ProductHeld(c) ==
    /\ c.at = "product.insert" => c.slug \in Slug /\ c.category \in Product /\ c.dto \in ProductDto
    /\ c.at \in {"product.images", "product.write", "product.variants", "product.newvariants",
                 "product.unrelate", "product.relate", "product.delete", "product.field", "product.variant"} =>
          Row(c.id)
    /\ c.at = "product.images" => c.pictures \in SUBSET Picture
    /\ c.at = "product.write" => c.slug \in Slug /\ c.category \in Product
    /\ c.at \in {"product.write", "product.variants"} => c.dto \in ProductDto
    /\ c.at = "product.newvariants" => c.variants \in SUBSET VariantId
    /\ c.at = "product.unrelate" => c = [at |-> "product.unrelate", id |-> c.id, related |-> c.related]
    /\ c.at \in {"product.newvariants", "product.unrelate", "product.relate"} => c.related \in SUBSET Product
    /\ c.at = "product.field" => c.field \in [stock : Nat] \cup [isActive : BOOLEAN]
    /\ c.at = "product.variant" => c.variant \in VariantId

CategoryHeld(c) ==
    /\ c.at \in {"category.insert", "category.write"} => c.slug \in Slug
    /\ c.at \in {"category.write", "category.field"} => c.id \in Product /\ categories[c.id] # NoRow
    /\ c.at = "category.field" => c.field \in [deleted : {TRUE}] \cup [isActive : BOOLEAN]

ImageAts == {"image.unset", "image.sort", "image.insert", "image.delete", "image.next", "image.primary"}

\* What a call on images holds.
ImageHeld(c) ==
    /\ c.at \in ImageAts => Row(c.id)
    /\ c.at \in {"image.unset", "image.delete", "image.next"} =>
          c = [at |-> c.at, id |-> c.id, image |-> c.image, isPrimary |-> c.isPrimary]
    /\ c.at \in {"image.sort", "image.insert"} => c.isPrimary \in BOOLEAN
    /\ c.at = "image.insert" => c.sortOrder \in Nat
    /\ c.at = "image.unset" => c.isPrimary /\ (c.image # "new" => ImageOf(c.image, c.id))
    /\ c.at = "image.delete" => c.isPrimary \in BOOLEAN
    /\ c.at \in {"image.delete", "image.primary"} => ImageOf(c.image, c.id)

\* What it has done to the images of a product nobody else works on.
PrimaryHeld(c) ==
    /\ c.at \in {"product.images", "image.next", "image.primary"} => Primaries(c.id) = {}
    /\ c.at \in {"image.sort", "image.insert"} /\ c.isPrimary => Primaries(c.id) = {}
    /\ c.at = "image.delete" /\ c.isPrimary => Primaries(c.id) \subseteq {c.image}

Works(c, x) == c.at \in ImageAts \cup {"product.images"} /\ c.id = x

CatalogueHeld(c) ==
    /\ ProductHeld(c) /\ CategoryHeld(c) /\ ImageHeld(c)
    /\ \A x \in Product \ contended : Works(c, x) => PrimaryHeld(c)

CatalogueCallsOK == CallsShape /\ \A p \in Proc : CatalogueHeld(calls[p])

\* Of a product that is not contended, one call at most is at the images.
Alone ==
    \A p, q \in Proc : p # q =>
        \A x \in Product \ contended : ~(Works(calls[p], x) /\ Works(calls[q], x))

ImagesOwned == \A i \in Picture : images[i] # NoImage => products[images[i].of] # NoRow

AtMostOne(x) == \A i, j \in Primaries(x) : i = j

CatalogueInv ==
    CatalogueTypeOK /\ CatalogueCallsOK /\ Alone /\ ImagesOwned /\ \A x \in Product \ contended : AtMostOne(x)

\* Stored rows are not the absent ones.
LEMMA RowIsNotNoRow == ASSUME NEW r \in ProductRow \cup CategoryRow PROVE r # NoRow
BY DEF ProductRow, CategoryRow, NoRow

LEMMA RowIsNotNoImage == ASSUME NEW r \in ImageRow PROVE r # NoImage
BY DEF ImageRow, NoImage

\* A process without a call holds nothing.
LEMMA CatalogueIdle == CatalogueHeld(Idle)
BY DEF CatalogueHeld, ProductHeld, CategoryHeld, ImageHeld, Works, ImageAts, Idle

\* Rows never disappear, and an image stays with its product.
CatalogueKept ==
    /\ \A x \in Product : products[x] # NoRow => products'[x] # NoRow
    /\ \A x \in Product : categories[x] # NoRow => categories'[x] # NoRow
    /\ \A i \in Picture : images[i] # NoImage => images'[i] # NoImage /\ images'[i].of = images[i].of

\* What a call holds of rows stays true.
LEMMA CatalogueHeldKept ==
    ASSUME CatalogueKept, NEW c, ProductHeld(c), CategoryHeld(c), ImageHeld(c)
    PROVE  ProductHeld(c)' /\ CategoryHeld(c)' /\ ImageHeld(c)'
<1>1. ProductHeld(c)'
  BY DEF ProductHeld, CatalogueKept, Row
<1>2. CategoryHeld(c)'
  BY DEF CategoryHeld, CatalogueKept
<1>3. ImageHeld(c)'
  BY DEF ImageHeld, CatalogueKept, Row, ImageOf, ImageAts
<1> QED BY <1>1, <1>2, <1>3

\* A step of a call: it may give images of its own product a primary one, and of no other.
LEMMA CatalogueCallStep ==
    ASSUME CatalogueInv, CatalogueKept, NEW p \in Proc, NEW c, calls' = [calls EXCEPT ![p] = c],
           CatalogueHeld(c)', CatalogueTypeOK', ImagesOwned', contended \subseteq contended',
           \A x \in Product \ contended' : Works(c, x) => \A q \in Proc \ {p} : ~Works(calls[q], x),
           \A x \in Product \ contended' : AtMostOne(x)',
           \A x \in Product \ contended' : ~Works(calls[p], x) => Primaries(x)' \subseteq Primaries(x)
    PROVE  CatalogueInv'
<1>1. CallsShape' /\ calls'[p] = c /\ \A q \in Proc \ {p} : calls'[q] = calls[q]
  BY OneCall DEF CatalogueInv, CatalogueCallsOK
<1>2. Alone'
  BY <1>1 DEF CatalogueInv, Alone, Works
<1>3. ASSUME NEW q \in Proc PROVE CatalogueHeld(calls[q])'
  <2>1. CASE q = p
    BY <1>1, <2>1
  <2>2. CASE q # p
    <3>1. PICK r : r = calls[q]
      OBVIOUS
    <3>2. CatalogueHeld(r) /\ calls'[q] = r
      BY <1>1, <2>2, <3>1 DEF CatalogueInv, CatalogueCallsOK
    <3>3. ProductHeld(r)' /\ CategoryHeld(r)' /\ ImageHeld(r)'
      BY <3>2, CatalogueHeldKept DEF CatalogueHeld
    <3>4. ASSUME NEW x \in Product \ contended', Works(r, x) PROVE PrimaryHeld(r)'
      <4>1. ~Works(calls[p], x)
        BY <2>2, <3>1, <3>4 DEF CatalogueInv, Alone
      <4>2. Primaries(x)' \subseteq Primaries(x) /\ r.id = x /\ PrimaryHeld(r)
        BY <3>2, <3>4, <4>1 DEF CatalogueHeld, Works
      <4>3. Primaries(r.id)' \subseteq Primaries(r.id)
        BY <4>2
      <4> QED BY <4>2, <4>3 DEF PrimaryHeld
    <3>5. CatalogueHeld(r)'
      BY <3>3, <3>4 DEF CatalogueHeld, Works
    <3> QED BY <3>2, <3>5
  <2> QED BY <2>1, <2>2
<1> QED BY <1>1, <1>2, <1>3 DEF CatalogueInv, CatalogueCallsOK

\* A step that changes one call alone.
LEMMA CatalogueReadStep ==
    ASSUME CatalogueInv, NEW p \in Proc, NEW c, CatalogueHeld(c), calls' = [calls EXCEPT ![p] = c],
           UNCHANGED <<products, categories, images, contended>>,
           \A x \in Product \ contended : Works(c, x) => \A q \in Proc \ {p} : ~Works(calls[q], x)
    PROVE  CatalogueInv'
<1>1. CatalogueKept /\ CatalogueTypeOK' /\ ImagesOwned' /\ contended \subseteq contended' /\ contended' = contended
  BY DEF CatalogueKept, CatalogueInv, CatalogueTypeOK, ImagesOwned, Found
<1>2. CatalogueHeld(c)'
  BY DEF CatalogueHeld, ProductHeld, CategoryHeld, ImageHeld, PrimaryHeld, Works, Row, ImageOf, Primaries, LiveImages
<1>3. \A x \in Product \ contended' : AtMostOne(x)' /\ Primaries(x)' = Primaries(x)
  BY DEF CatalogueInv, AtMostOne, Primaries, LiveImages
<1> QED BY <1>1, <1>2, <1>3, CatalogueCallStep

\* What a product may become: no other product on show has its slug.
SlugIsFree(rows, x, r) == \A y \in Product \ {x} : ~r.deleted /\ Found(rows, y) => rows[y].slug # r.slug

\* Slugs stay apart when a row takes one that is free.
LEMMA SlugsApart ==
    ASSUME NEW rows, NEW T, rows \in [Product -> T], NEW x \in Product, NEW r, SlugIsFree(rows, x, r),
           \A y, z \in Product : (y # z /\ Found(rows, y) /\ Found(rows, z)) => rows[y].slug # rows[z].slug
    PROVE  \A y, z \in Product :
               (y # z /\ Found([rows EXCEPT ![x] = r], y) /\ Found([rows EXCEPT ![x] = r], z)) =>
                   [rows EXCEPT ![x] = r][y].slug # [rows EXCEPT ![x] = r][z].slug
BY DEF SlugIsFree, Found

\* A step that writes a row of a product.
LEMMA ProductRowStep ==
    ASSUME CatalogueInv, NEW p \in Proc, NEW c, calls' = [calls EXCEPT ![p] = c],
           NEW x \in Product, NEW r \in ProductRow, products' = [products EXCEPT ![x] = r],
           UNCHANGED <<categories, images, contended>>,
           SlugIsFree(products, x, r), CatalogueHeld(c)',
           \A y \in Product \ contended : Works(c, y) => \A q \in Proc \ {p} : ~Works(calls[q], y)
    PROVE  CatalogueInv'
<1>1. products \in [Product -> ProductRow \cup {NoRow}] /\ r # NoRow /\ images \in [Picture -> ImageRow \cup {NoImage}]
  BY RowIsNotNoRow DEF CatalogueInv, CatalogueTypeOK
<1>2. CatalogueKept
  BY <1>1 DEF CatalogueKept
<1>3. CatalogueTypeOK'
  <2>1. \A y, z \in Product :
           (y # z /\ Found(products, y)' /\ Found(products, z)') => products'[y].slug # products'[z].slug
    <3>1. \A y, z \in Product :
             (y # z /\ Found(products, y) /\ Found(products, z)) => products[y].slug # products[z].slug
      BY DEF CatalogueInv, CatalogueTypeOK
    <3>2. \A y, z \in Product :
             (y # z /\ Found(products', y) /\ Found(products', z)) => products'[y].slug # products'[z].slug
      BY <1>1, <3>1, SlugsApart
    <3> QED BY <3>2 DEF Found
  <2>2. products' \in [Product -> ProductRow \cup {NoRow}]
    BY <1>1
  <2> QED BY <2>1, <2>2 DEF CatalogueInv, CatalogueTypeOK, Found
<1>4. ImagesOwned'
  BY <1>1 DEF CatalogueInv, ImagesOwned
<1>5. \A y \in Product : Primaries(y)' = Primaries(y) /\ (AtMostOne(y) => AtMostOne(y)')
  BY DEF AtMostOne, Primaries, LiveImages
<1> QED BY <1>2, <1>3, <1>4, <1>5, CatalogueCallStep DEF CatalogueInv

\* A step that changes neither the slug of a product nor whether it is deleted, unless it deletes it.
LEMMA ProductPatchStep ==
    ASSUME CatalogueInv, NEW p \in Proc, NEW c, calls' = [calls EXCEPT ![p] = c],
           NEW x \in Product, NEW r \in ProductRow, products' = [products EXCEPT ![x] = r],
           UNCHANGED <<categories, images, contended>>, Row(x),
           r.slug = products[x].slug, products[x].deleted => r.deleted,
           ProductHeld(c), CategoryHeld(c), ImageHeld(c), c.at \notin ImageAts \cup {"product.images"}
    PROVE  CatalogueInv'
<1>1. SlugIsFree(products, x, r)
  BY DEF SlugIsFree, Row, CatalogueInv, CatalogueTypeOK, Found
<1>2. CatalogueKept
  BY RowIsNotNoRow DEF CatalogueKept, CatalogueInv, CatalogueTypeOK
<1>3. CatalogueHeld(c)'
  BY <1>2, CatalogueHeldKept DEF CatalogueHeld, Works
<1> QED BY <1>1, <1>3, ProductRowStep DEF Works

\* A request on products: nothing is written yet.
LEMMA ProductRequestStep ==
    ASSUME CatalogueInv, NEW p \in Proc, ProductRequest(p) \/ VariantRequest(p)
    PROVE  CatalogueInv'
<1>1. ASSUME NEW c, Begin(p, c), UNCHANGED catalogueVars, ProductHeld(c), CategoryHeld(c), ImageHeld(c),
             c.at \notin ImageAts \cup {"product.images"}
      PROVE  CatalogueInv'
  BY <1>1, CatalogueReadStep DEF Begin, catalogueVars, CatalogueHeld, Works
<1>2. PICK x \in Product :
         \/ ProductDelete(p, x) \/ ProductToggle(p, x)
         \/ \E n \in Stocks : ProductStock(p, x, n)
         \/ \E dto \in ProductDtos :
               \/ ProductCreate(p, dto, x) \/ RelatedSet(p, x, dto.related)
               \/ \E c \in Product : ProductUpdate(p, x, dto, c)
         \/ \E v \in VariantId, change \in {"add", "update", "delete"} : VariantChange(p, x, v, change)
  BY DEF ProductRequest, VariantRequest
<1>3. CASE ProductDelete(p, x) \/ ProductToggle(p, x)
  <2>1. PICK c : Begin(p, c) /\ UNCHANGED catalogueVars /\
           (c = [at |-> "product.delete", id |-> x] \/
            c = [at |-> "product.field", id |-> x, field |-> [isActive |-> ~products[x].isActive]])
    BY <1>3 DEF ProductDelete, ProductToggle
  <2>2. Row(x) /\ products[x] \in ProductRow
    BY <1>3 DEF ProductDelete, ProductToggle, Found, Row, CatalogueInv, CatalogueTypeOK
  <2>3. [isActive |-> ~products[x].isActive] \in [isActive : BOOLEAN]
    BY <2>2 DEF ProductRow
  <2> QED BY <2>1, <2>2, <2>3, <1>1 DEF ProductHeld, CategoryHeld, ImageHeld, ImageAts
<1>4. ASSUME NEW n \in Stocks, ProductStock(p, x, n) PROVE CatalogueInv'
  <2>1. PICK c : Begin(p, c) /\ UNCHANGED catalogueVars /\ c = [at |-> "product.field", id |-> x, field |-> [stock |-> n]]
    BY <1>4 DEF ProductStock
  <2>2. Row(x) /\ [stock |-> n] \in [stock : Nat]
    BY <1>4, CatalogueAssumption DEF ProductStock, Found, Row
  <2> QED BY <2>1, <2>2, <1>1 DEF ProductHeld, CategoryHeld, ImageHeld, ImageAts
<1>5. ASSUME NEW dto \in ProductDtos, ProductCreate(p, dto, x) PROVE CatalogueInv'
  <2>1. PICK s, c : s \in FreeSlugs(products, dto.name, {}) /\
           Begin(p, c) /\ UNCHANGED catalogueVars /\ c = [at |-> "product.insert", slug |-> s, category |-> x, dto |-> dto]
    BY <1>5 DEF ProductCreate
  <2>2. dto \in ProductDto /\ s \in Slug
    BY <2>1, ProductDtoAssumption DEF FreeSlugs, ProductDto, Slug
  <2> QED BY <2>1, <2>2, <1>1 DEF ProductHeld, CategoryHeld, ImageHeld, ImageAts
<1>6. ASSUME NEW dto \in ProductDtos, RelatedSet(p, x, dto.related) PROVE CatalogueInv'
  <2>1. PICK c : Begin(p, c) /\ UNCHANGED catalogueVars /\ c = [at |-> "product.unrelate", id |-> x, related |-> dto.related]
    BY <1>6 DEF RelatedSet
  <2>2. Row(x) /\ dto.related \in SUBSET Product
    BY <1>6, ProductDtoAssumption DEF RelatedSet, Row, ProductDto
  <2> QED BY <2>1, <2>2, <1>1 DEF ProductHeld, CategoryHeld, ImageHeld, ImageAts
<1>7. ASSUME NEW dto \in ProductDtos, NEW g \in Product, ProductUpdate(p, x, dto, g) PROVE CatalogueInv'
  <2>1. PICK s, c :
           /\ s \in FreeSlugs(products, dto.name, {x})
           /\ Begin(p, c) /\ UNCHANGED catalogueVars
           /\ c = [at |-> "product.write", id |-> x, slug |-> s, category |-> g, dto |-> dto]
    BY <1>7 DEF ProductUpdate
  <2>2. Row(x) /\ dto \in ProductDto /\ s \in Slug
    BY <1>7, <2>1, ProductDtoAssumption DEF ProductUpdate, Found, Row, FreeSlugs, ProductDto, Slug
  <2> QED BY <2>1, <2>2, <1>1 DEF ProductHeld, CategoryHeld, ImageHeld, ImageAts
<1>8. ASSUME NEW v \in VariantId, NEW change, VariantChange(p, x, v, change) PROVE CatalogueInv'
  <2>1. PICK c : Begin(p, c) /\ UNCHANGED catalogueVars /\ c = [at |-> "product.variant", id |-> x, variant |-> v, change |-> change]
    BY <1>8 DEF VariantChange
  <2>2. Row(x)
    BY <1>8 DEF VariantChange, Found, Row
  <2> QED BY <2>1, <2>2, <1>1 DEF ProductHeld, CategoryHeld, ImageHeld, ImageAts
<1> QED BY <1>2, <1>3, <1>4, <1>5, <1>6, <1>7, <1>8

\* create, at its insert: the slug was free a read ago and is tested by the index.
LEMMA ProductInsertStep ==
    ASSUME CatalogueInv, NEW p \in Proc, ProductInsert(p)
    PROVE  CatalogueInv'
<1>1. PICK call : call = calls[p] /\ CatalogueHeld(call) /\ call.at = "product.insert"
  BY DEF CatalogueInv, CatalogueCallsOK, ProductInsert, At
<1>2. call.slug \in Slug /\ call.category \in Product /\ call.dto \in ProductDto
  BY <1>1 DEF CatalogueHeld, ProductHeld
<1>3. UNCHANGED <<categories, images, contended>>
  BY DEF ProductInsert
<1>4. CASE Return(p) /\ UNCHANGED products
  BY <1>3, <1>4, CatalogueIdle, CatalogueReadStep DEF Return, Goto, Works, Idle, ImageAts
<1>5. CASE ~SlugIndexed(products, call.slug, {})
  <2>1. PICK x, r, c :
           /\ x \in Product /\ products[x] = NoRow
           /\ r = [slug |-> call.slug, category |-> call.category, stock |-> 0, isActive |-> TRUE,
                   deleted |-> FALSE, variants |-> call.dto.variants, related |-> {}, ordered |-> FALSE]
           /\ products' = [products EXCEPT ![x] = r]
           /\ c = [at |-> "product.images", id |-> x, pictures |-> call.dto.pictures]
           /\ Goto(p, c)
    BY <1>1, <1>5 DEF ProductInsert
  <2>2. r \in ProductRow /\ call.dto.pictures \in SUBSET Picture
    BY <1>2, <2>1 DEF ProductRow, ProductDto
  <2>3. SlugIsFree(products, x, r)
    BY <1>5, <2>1 DEF SlugIsFree, SlugIndexed, Found
  <2>4. \A q \in Proc : ~Works(calls[q], x)
    <3> SUFFICES ASSUME NEW q \in Proc, Works(calls[q], x) PROVE FALSE
      OBVIOUS
    <3>1. PICK d : d = calls[q] /\ CatalogueHeld(d)
      BY DEF CatalogueInv, CatalogueCallsOK
    <3>2. Row(d.id) /\ d.id = x
      BY <3>1 DEF Works, CatalogueHeld, ProductHeld, ImageHeld
    <3> QED BY <2>1, <3>2 DEF Row
  <2>5. CatalogueHeld(c)'
    <3>1. products'[x] # NoRow
      BY <2>1, <2>2, RowIsNotNoRow DEF CatalogueInv, CatalogueTypeOK
    <3>2. ProductHeld(c)' /\ CategoryHeld(c)' /\ ImageHeld(c)'
      BY <2>1, <2>2, <3>1 DEF ProductHeld, CategoryHeld, ImageHeld, ImageAts, Row
    <3>3. Primaries(x)' = {}
      BY <1>3, <2>1 DEF Primaries, LiveImages, CatalogueInv, ImagesOwned, CatalogueTypeOK
    <3> QED BY <2>1, <3>2, <3>3 DEF CatalogueHeld, PrimaryHeld, Works
  <2>6. calls' = [calls EXCEPT ![p] = c] /\ \A y \in Product \ contended : Works(c, y) => \A q \in Proc \ {p} : ~Works(calls[q], y)
    BY <2>1, <2>4 DEF Goto, Works
  <2> QED BY <1>3, <2>1, <2>2, <2>3, <2>5, <2>6, ProductRowStep
<1> QED BY <1>1, <1>4, <1>5 DEF ProductInsert

\* The statements that change neither the slug of a product nor whether it is deleted.
LEMMA ProductWritesStep ==
    ASSUME CatalogueInv, NEW p \in Proc,
           ProductVariants(p) \/ ProductNewVariants(p) \/ ProductUnrelate(p) \/ ProductRelate(p) \/ FieldWrite(p) \/ VariantWrite(p)
    PROVE  CatalogueInv'
<1>1. PICK call : call = calls[p] /\ CatalogueHeld(call) /\ ProductHeld(call)
  BY DEF CatalogueInv, CatalogueCallsOK, CatalogueHeld
<1>2. UNCHANGED <<categories, images, contended>>
  BY DEF ProductVariants, ProductNewVariants, ProductUnrelate, ProductRelate, FieldWrite, VariantWrite
<1>3. call.at \in {"product.variants", "product.newvariants", "product.unrelate", "product.relate", "product.field", "product.variant"}
  BY <1>1 DEF ProductVariants, ProductNewVariants, ProductUnrelate, ProductRelate, FieldWrite, VariantWrite, At
<1>4. PICK x \in Product, row \in ProductRow : x = call.id /\ row = products[x] /\ Row(x)
  BY <1>1, <1>3 DEF ProductHeld, Row, CatalogueInv, CatalogueTypeOK
<1>5. products \in [Product -> ProductRow \cup {NoRow}]
  BY DEF CatalogueInv, CatalogueTypeOK
<1>6. ASSUME NEW c, calls' = [calls EXCEPT ![p] = c], NEW r \in ProductRow, products' = [products EXCEPT ![x] = r],
             r.slug = row.slug, row.deleted => r.deleted,
             ProductHeld(c), CategoryHeld(c), ImageHeld(c), c.at \notin ImageAts \cup {"product.images"}
      PROVE  CatalogueInv'
  BY <1>2, <1>4, <1>6, ProductPatchStep
<1>7. ProductHeld(Idle) /\ CategoryHeld(Idle) /\ ImageHeld(Idle) /\ Idle.at \notin ImageAts \cup {"product.images"}
  BY CatalogueIdle DEF CatalogueHeld, Idle, ImageAts
<1>8. CASE ProductVariants(p)
  <2>1. PICK r, c :
           /\ r = [row EXCEPT !.variants = @ \cap call.dto.variants]
           /\ products' = [products EXCEPT ![x] = r]
           /\ c = [at |-> "product.newvariants", id |-> x, related |-> call.dto.related,
                   variants |-> call.dto.variants \ row.variants]
           /\ Goto(p, c)
    BY <1>1, <1>4, <1>5, <1>8 DEF ProductVariants
  <2>2. call.dto \in ProductDto
    BY <1>1, <1>8 DEF ProductVariants, At, ProductHeld
  <2>3. r \in ProductRow /\ r.slug = row.slug /\ r.deleted = row.deleted
    BY <2>1 DEF ProductRow
  <2>4. call.dto.related \in SUBSET Product /\ call.dto.variants \ row.variants \in SUBSET VariantId
    BY <2>2 DEF ProductDto
  <2>5. ProductHeld(c) /\ CategoryHeld(c) /\ ImageHeld(c) /\ c.at \notin ImageAts \cup {"product.images"}
    BY <1>4, <2>1, <2>4 DEF ProductHeld, CategoryHeld, ImageHeld, ImageAts
  <2> QED BY <1>6, <2>1, <2>3, <2>5 DEF Goto
<1>9. CASE ProductNewVariants(p)
  <2>1. PICK r, c :
           /\ r = [row EXCEPT !.variants = @ \cup call.variants]
           /\ products' = [products EXCEPT ![x] = r]
           /\ c = [at |-> "product.unrelate", id |-> x, related |-> call.related]
           /\ Goto(p, c)
    BY <1>1, <1>4, <1>5, <1>9 DEF ProductNewVariants
  <2>2. call.related \in SUBSET Product /\ call.variants \in SUBSET VariantId
    BY <1>1, <1>9 DEF ProductNewVariants, At, ProductHeld
  <2>3. r \in ProductRow /\ r.slug = row.slug /\ r.deleted = row.deleted
    BY <2>1, <2>2 DEF ProductRow
  <2>5. ProductHeld(c) /\ CategoryHeld(c) /\ ImageHeld(c) /\ c.at \notin ImageAts \cup {"product.images"}
    BY <1>4, <2>1, <2>2 DEF ProductHeld, CategoryHeld, ImageHeld, ImageAts
  <2> QED BY <1>6, <2>1, <2>3, <2>5 DEF Goto
<1>10. CASE ProductUnrelate(p)
  <2>1. call = [at |-> "product.unrelate", id |-> x, related |-> call.related] /\ call.related \in SUBSET Product
    BY <1>1, <1>4, <1>10 DEF ProductUnrelate, At, ProductHeld
  <2>2. PICK r, c :
           /\ r = [row EXCEPT !.related = {}]
           /\ products' = [products EXCEPT ![x] = r]
           /\ c = [call EXCEPT !.at = "product.relate"]
           /\ Goto(p, c)
    BY <1>1, <1>4, <1>5, <1>10 DEF ProductUnrelate
  <2>3. c = [at |-> "product.relate", id |-> x, related |-> call.related]
    BY <2>1, <2>2
  <2>4. r \in ProductRow /\ r.slug = row.slug /\ r.deleted = row.deleted
    BY <2>2 DEF ProductRow
  <2> QED BY <1>4, <1>6, <2>1, <2>2, <2>3, <2>4 DEF ProductHeld, CategoryHeld, ImageHeld, ImageAts, Goto
<1>11. CASE ProductRelate(p)
  <2>1. call.related \in SUBSET Product
    BY <1>1, <1>11 DEF ProductRelate, At, ProductHeld
  <2>2. PICK wanted, r :
           /\ wanted \in SUBSET Product
           /\ r = [row EXCEPT !.related = IF @ \cap wanted = {} THEN @ \cup wanted ELSE @]
           /\ products' = [products EXCEPT ![x] = r]
           /\ Return(p)
    BY <1>1, <1>4, <1>5, <1>11, <2>1 DEF ProductRelate
  <2>3. r \in ProductRow /\ r.slug = row.slug /\ r.deleted = row.deleted
    BY <2>2 DEF ProductRow
  <2> QED BY <1>4, <1>6, <1>7, <2>2, <2>3 DEF Return, Goto
<1>12. CASE VariantWrite(p)
  <2>1. call.variant \in VariantId
    BY <1>1, <1>12 DEF VariantWrite, At, ProductHeld
  <2>2. PICK v, r :
           /\ v \in SUBSET VariantId
           /\ r = [row EXCEPT !.variants = v]
           /\ products' = [products EXCEPT ![x] = r]
           /\ Return(p)
    <3>1. row.variants \in SUBSET VariantId
      BY DEF ProductRow
    <3>2. PICK v : v = CASE call.change = "add" -> row.variants \cup {call.variant}
                         [] call.change = "delete" -> row.variants \ {call.variant}
                         [] OTHER -> row.variants
      OBVIOUS
    <3>3. v \in SUBSET VariantId
      BY <2>1, <3>1, <3>2
    <3>4. products' = [products EXCEPT ![x] = [row EXCEPT !.variants = v]] /\ Return(p)
      BY <1>1, <1>4, <1>5, <1>12, <3>2 DEF VariantWrite
    <3> QED BY <3>3, <3>4
  <2>3. r \in ProductRow /\ r.slug = row.slug /\ r.deleted = row.deleted
    BY <2>2 DEF ProductRow
  <2> QED BY <1>4, <1>6, <1>7, <2>2, <2>3 DEF Return, Goto
<1>13. CASE FieldWrite(p)
  <2>1. call.field \in [stock : Nat] \cup [isActive : BOOLEAN]
    BY <1>1, <1>13 DEF FieldWrite, At, ProductHeld
  <2>2. PICK r :
           /\ r = [f \in DOMAIN row |-> IF f \in DOMAIN call.field THEN call.field[f] ELSE row[f]]
           /\ products' = [products EXCEPT ![x] = r]
           /\ Return(p)
    BY <1>1, <1>4, <1>5, <1>13 DEF FieldWrite
  <2>3. r \in ProductRow /\ r.slug = row.slug /\ r.deleted = row.deleted
    BY <2>1, <2>2 DEF ProductRow
  <2> QED BY <1>4, <1>6, <1>7, <2>2, <2>3 DEF Return, Goto
<1> QED BY <1>8, <1>9, <1>10, <1>11, <1>12, <1>13

\* update: the new slug, tested by the index.
LEMMA ProductWriteStep ==
    ASSUME CatalogueInv, NEW p \in Proc, ProductWrite(p)
    PROVE  CatalogueInv'
<1>1. PICK call : call = calls[p] /\ CatalogueHeld(call) /\ call.at = "product.write"
  BY DEF CatalogueInv, CatalogueCallsOK, ProductWrite, At
<1>2. call.slug \in Slug /\ call.category \in Product /\ call.dto \in ProductDto /\ Row(call.id)
  BY <1>1 DEF CatalogueHeld, ProductHeld
<1>3. UNCHANGED <<categories, images, contended>>
  BY DEF ProductWrite
<1>4. CASE Return(p) /\ UNCHANGED products
  BY <1>3, <1>4, CatalogueIdle, CatalogueReadStep DEF Return, Goto, Works, Idle, ImageAts
<1>5. CASE ~SlugIndexed(products, call.slug, {call.id})
  <2>1. PICK x \in Product, row \in ProductRow : x = call.id /\ row = products[x]
    BY <1>2 DEF Row, CatalogueInv, CatalogueTypeOK
  <2>2. PICK r, c :
           /\ r = [row EXCEPT !.slug = call.slug, !.category = call.category]
           /\ products' = [products EXCEPT ![x] = r]
           /\ c = [at |-> "product.variants", id |-> x, dto |-> call.dto]
           /\ Goto(p, c)
    <3>1. products \in [Product -> ProductRow \cup {NoRow}]
      BY DEF CatalogueInv, CatalogueTypeOK
    <3>2. PICK r, c : /\ r = [row EXCEPT !.slug = call.slug, !.category = call.category]
                      /\ c = [at |-> "product.variants", id |-> x, dto |-> call.dto]
      OBVIOUS
    <3>3. products' = [products EXCEPT ![x] = r]
      BY <1>1, <1>5, <2>1, <3>1, <3>2 DEF ProductWrite
    <3>4. Goto(p, c)
      BY <1>1, <1>5, <2>1, <3>2 DEF ProductWrite
    <3> QED BY <3>2, <3>3, <3>4
  <2>3. r \in ProductRow /\ r.slug = call.slug
    BY <1>2, <2>2 DEF ProductRow
  <2>4. SlugIsFree(products, x, r)
    BY <1>5, <2>1, <2>3 DEF SlugIsFree, SlugIndexed, Found
  <2>5. CatalogueHeld(c)'
    <3>1. products'[x] # NoRow
      BY <2>2, <2>3, RowIsNotNoRow DEF CatalogueInv, CatalogueTypeOK
    <3> QED BY <1>2, <2>2, <3>1 DEF CatalogueHeld, ProductHeld, CategoryHeld, ImageHeld, ImageAts, Works, Row
  <2>6. calls' = [calls EXCEPT ![p] = c] /\ \A y : ~Works(c, y)
    BY <2>2 DEF Goto, Works, ImageAts
  <2> QED BY <1>3, <2>2, <2>3, <2>4, <2>5, <2>6, ProductRowStep
<1> QED BY <1>1, <1>4, <1>5 DEF ProductWrite

\* A checkout orders the product.
LEMMA ProductOrderedStep ==
    ASSUME CatalogueInv, NEW p \in Proc, NEW x \in Product, ProductOrdered(p, x)
    PROVE  CatalogueInv'
<1>1. PICK row \in ProductRow : row = products[x] /\ Row(x)
  BY DEF ProductOrdered, Row, CatalogueInv, CatalogueTypeOK
<1>2. PICK r : r = [row EXCEPT !.ordered = TRUE]
  OBVIOUS
<1>3. r \in ProductRow /\ r.slug = row.slug /\ r.deleted = row.deleted
  BY <1>2 DEF ProductRow
<1>4. products' = [products EXCEPT ![x] = r]
  BY <1>1, <1>2 DEF ProductOrdered, CatalogueInv, CatalogueTypeOK
<1>5. ProductHeld(Idle) /\ CategoryHeld(Idle) /\ ImageHeld(Idle) /\ Idle.at \notin ImageAts \cup {"product.images"}
  BY CatalogueIdle DEF CatalogueHeld, Idle, ImageAts
<1> QED BY <1>1, <1>3, <1>4, <1>5, ProductPatchStep DEF ProductOrdered, Serve, Begin

-------------------------------------------------------------------------------
\* Images change of one product at a time.
OnlyOf(x) ==
    /\ images' = [i \in Picture |-> images'[i]]
    /\ \A i \in Picture :
          \/ images'[i] = images[i]
          \/ /\ images'[i] \in ImageRow /\ images'[i].of = x
             /\ images[i] = NoImage \/ images[i].of = x

\* The other products' images stay, and every image stays with its product.
LEMMA OnlyOfKeeps ==
    ASSUME CatalogueInv, NEW x, Row(x), OnlyOf(x), UNCHANGED <<products, categories, contended>>
    PROVE  CatalogueKept /\ CatalogueTypeOK' /\ ImagesOwned' /\ \A y \in Product : y # x => Primaries(y)' = Primaries(y)
<1>1. images \in [Picture -> ImageRow \cup {NoImage}]
  BY DEF CatalogueInv, CatalogueTypeOK
<1>2. images' \in [Picture -> ImageRow \cup {NoImage}]
  BY <1>1 DEF OnlyOf
<1>3. CatalogueKept
  BY <1>1, RowIsNotNoImage DEF CatalogueKept, OnlyOf
<1>4. CatalogueTypeOK'
  BY <1>2 DEF CatalogueInv, CatalogueTypeOK, Found
<1>5. ImagesOwned'
  BY DEF CatalogueInv, ImagesOwned, OnlyOf, Row
<1>6. ASSUME NEW y \in Product, y # x PROVE Primaries(y)' = Primaries(y)
  <2>1. \A i \in Picture : images'[i] # images[i] => images'[i].of # y /\ (images[i] = NoImage \/ images[i].of # y)
    BY <1>6 DEF OnlyOf
  <2>2. \A i \in Picture : i \in Primaries(y)' <=> i \in Primaries(y)
    BY <2>1 DEF Primaries, LiveImages
  <2> QED BY <2>2 DEF Primaries, LiveImages
<1> QED BY <1>3, <1>4, <1>5, <1>6

\* A step of a call at the images of a product.
LEMMA ImageMoveStep ==
    ASSUME CatalogueInv, NEW p \in Proc, NEW x, Row(x), Works(calls[p], x), OnlyOf(x),
           UNCHANGED <<products, categories, contended>>,
           NEW c, calls' = [calls EXCEPT ![p] = c], \A y : Works(c, y) => y = x,
           ProductHeld(c)', CategoryHeld(c)', ImageHeld(c)',
           x \notin contended => PrimaryHeld(c)' /\ AtMostOne(x)'
    PROVE  CatalogueInv'
<1>1. CatalogueKept /\ CatalogueTypeOK' /\ ImagesOwned' /\ \A y \in Product : y # x => Primaries(y)' = Primaries(y)
  BY OnlyOfKeeps
<1>2. CatalogueHeld(c)'
  BY DEF CatalogueHeld, Works
<1>3. \A y \in Product \ contended : Works(c, y) => \A q \in Proc \ {p} : ~Works(calls[q], y)
  BY DEF CatalogueInv, Alone
<1>4. \A y \in Product \ contended : AtMostOne(y)'
  <2>1. \A y \in Product \ contended : y # x => AtMostOne(y)'
    BY <1>1 DEF CatalogueInv, AtMostOne
  <2> QED BY <2>1
<1>5. \A y \in Product \ contended : ~Works(calls[p], y) => Primaries(y)' \subseteq Primaries(y)
  BY <1>1
<1> QED BY <1>1, <1>2, <1>3, <1>4, <1>5, CatalogueCallStep

\* No image changes.
LEMMA NothingOf ==
    ASSUME CatalogueInv, UNCHANGED images
    PROVE  \A x : OnlyOf(x)
BY DEF OnlyOf, CatalogueInv, CatalogueTypeOK

\* create, at its images: one that is primary, unless the request came to several.
LEMMA ProductImagesStep ==
    ASSUME CatalogueInv, NEW p \in Proc, ProductImages(p)
    PROVE  CatalogueInv'
<1>1. PICK call : call = calls[p] /\ CatalogueHeld(call) /\ call.at = "product.images"
  BY DEF CatalogueInv, CatalogueCallsOK, ProductImages, At
<1>2. PICK x \in Product : x = call.id /\ Row(x) /\ Works(call, x) /\ (x \notin contended => Primaries(x) = {})
  BY <1>1 DEF CatalogueHeld, ProductHeld, Row, Works, PrimaryHeld
<1>3. PICK fresh \in SUBSET Picture : fresh = {i \in call.pictures : images[i] = NoImage}
  BY <1>1 DEF CatalogueHeld, ProductHeld
<1>4. UNCHANGED <<products, categories>> /\ calls' = [calls EXCEPT ![p] = Idle]
  BY DEF ProductImages, Return, Goto
<1>5. CASE UNCHANGED <<images, contended>>
  BY <1>4, <1>5, CatalogueIdle, CatalogueReadStep DEF Works, Idle, ImageAts
<1>6. ASSUME NEW marked \in SUBSET fresh,
             images' = [i \in Picture |-> IF i \in fresh
                        THEN [of |-> x, isPrimary |-> i \in marked, sortOrder |-> 0, deleted |-> FALSE]
                        ELSE images[i]],
             contended' = IF Cardinality(marked) > 1 THEN contended \cup {x} ELSE contended
      PROVE  CatalogueInv'
  <2>1. OnlyOf(x)
    <3>1. \A i \in Picture : [of |-> x, isPrimary |-> i \in marked, sortOrder |-> 0, deleted |-> FALSE] \in ImageRow
      BY DEF ImageRow
    <3> QED BY <1>3, <1>6, <3>1 DEF OnlyOf
  <2>2. images \in [Picture -> ImageRow \cup {NoImage}]
    BY DEF CatalogueInv, CatalogueTypeOK
  <2>3. images' \in [Picture -> ImageRow \cup {NoImage}]
    BY <2>1, <2>2 DEF OnlyOf
  <2>4. CatalogueKept
    BY <1>4, <2>1, <2>2, RowIsNotNoImage DEF CatalogueKept, OnlyOf
  <2>5. CatalogueTypeOK'
    <3>1. contended' \subseteq Product
      BY <1>6 DEF CatalogueInv, CatalogueTypeOK
    <3> QED BY <1>4, <2>3, <3>1 DEF CatalogueInv, CatalogueTypeOK, Found
  <2>6. ImagesOwned'
    BY <1>2, <1>4, <2>1 DEF CatalogueInv, ImagesOwned, OnlyOf, Row
  <2>7. \A y \in Product : y # x => Primaries(y)' = Primaries(y)
    <3> SUFFICES ASSUME NEW y \in Product, y # x PROVE Primaries(y)' = Primaries(y)
      OBVIOUS
    <3>1. \A i \in Picture : i \in Primaries(y)' <=> i \in Primaries(y)
      BY <1>3, <1>6 DEF Primaries, LiveImages
    <3> QED BY <3>1 DEF Primaries, LiveImages
  <2>8. CatalogueHeld(Idle)'
    BY DEF CatalogueHeld, ProductHeld, CategoryHeld, ImageHeld, Works, ImageAts, Idle
  <2>9. contended \subseteq contended' /\ \A y : ~Works(Idle, y)
    BY <1>6 DEF Works, Idle, ImageAts
  <2>10. ASSUME x \notin contended' PROVE AtMostOne(x)'
    <3>1. x \notin contended /\ ~(Cardinality(marked) > 1)
      BY <1>6, <2>10
    <3>2. IsFiniteSet(marked) /\ Cardinality(marked) \in Nat
      BY <1>3, CatalogueAssumption, FS_Subset, FS_CardinalityType
    <3>3. \A i, j \in marked : i = j
      BY <3>1, <3>2, OneAtMost
    <3>4. Primaries(x)' \subseteq marked
      BY <1>2, <1>6, <3>1 DEF Primaries, LiveImages
    <3> QED BY <3>3, <3>4 DEF AtMostOne
  <2>11. \A y \in Product \ contended' : AtMostOne(y)'
    <3>1. \A y \in Product \ contended' : y # x => AtMostOne(y)'
      BY <2>7, <2>9 DEF CatalogueInv, AtMostOne
    <3> QED BY <2>10, <3>1
  <2>12. \A y \in Product \ contended' : ~Works(calls[p], y) => Primaries(y)' \subseteq Primaries(y)
    BY <1>1, <1>2, <2>7
  <2> QED BY <1>4, <2>4, <2>5, <2>6, <2>8, <2>9, <2>11, <2>12, CatalogueCallStep
<1> QED BY <1>1, <1>2, <1>3, <1>5, <1>6 DEF ProductImages

\* delete: the product goes with its images.
LEMMA ProductDeleteStep ==
    ASSUME CatalogueInv, NEW p \in Proc, ProductDeleteWrite(p)
    PROVE  CatalogueInv'
<1>1. PICK call : call = calls[p] /\ CatalogueHeld(call) /\ call.at = "product.delete"
  BY DEF CatalogueInv, CatalogueCallsOK, ProductDeleteWrite, At
<1>2. PICK x \in Product, row \in ProductRow : x = call.id /\ row = products[x]
  BY <1>1 DEF CatalogueHeld, ProductHeld, Row, CatalogueInv, CatalogueTypeOK
<1>14. PICK r : r = [row EXCEPT !.deleted = TRUE]
  OBVIOUS
<1>3. r \in ProductRow /\ r = [row EXCEPT !.deleted = TRUE] /\ r.deleted /\ r # NoRow
  <2>1. r \in ProductRow /\ r.deleted
    BY <1>14 DEF ProductRow
  <2> QED BY <1>14, <2>1, RowIsNotNoRow
<1>4. /\ products' = [products EXCEPT ![x] = r]
      /\ images' = [i \in Picture |-> IF images[i] # NoImage /\ images[i].of = x
                                      THEN [images[i] EXCEPT !.deleted = TRUE] ELSE images[i]]
      /\ calls' = [calls EXCEPT ![p] = Idle]
      /\ UNCHANGED <<categories, contended>>
  BY <1>1, <1>2, <1>3 DEF ProductDeleteWrite, Return, Goto, CatalogueInv, CatalogueTypeOK
<1>5. /\ products \in [Product -> ProductRow \cup {NoRow}]
      /\ images \in [Picture -> ImageRow \cup {NoImage}]
  BY DEF CatalogueInv, CatalogueTypeOK
<1>6. \A i \in Picture :
         \/ images'[i] = images[i]
         \/ images[i] \in ImageRow /\ images'[i] \in ImageRow /\ images'[i].of = images[i].of /\ images'[i].deleted
  BY <1>4, <1>5 DEF ImageRow
<1>7. images' \in [Picture -> ImageRow \cup {NoImage}]
  BY <1>4, <1>5, <1>6
<1>8. CatalogueKept
  BY <1>4, <1>5, <1>6, <1>3, RowIsNotNoImage DEF CatalogueKept
<1>9. CatalogueTypeOK'
  <2>1. products' \in [Product -> ProductRow \cup {NoRow}] /\ \A y \in Product : Found(products, y)' => Found(products, y) /\ products'[y] = products[y]
    BY <1>3, <1>4, <1>5 DEF Found
  <2>2. \A y \in Product : Found(categories, y)' <=> Found(categories, y)
    BY <1>4 DEF Found
  <2>3. \A y, z \in Product : y # z =>
           /\ (Found(products, y)' /\ Found(products, z)') => products'[y].slug # products'[z].slug
           /\ (Found(categories, y)' /\ Found(categories, z)') => categories'[y].slug # categories'[z].slug
    <3>1. \A y, z \in Product : y # z =>
             /\ (Found(products, y) /\ Found(products, z)) => products[y].slug # products[z].slug
             /\ (Found(categories, y) /\ Found(categories, z)) => categories[y].slug # categories[z].slug
      BY DEF CatalogueInv, CatalogueTypeOK
    <3>2. \A y \in Product : categories'[y] = categories[y]
      BY <1>4
    <3> QED BY <2>1, <2>2, <3>1, <3>2
  <2> QED BY <1>4, <1>7, <2>1, <2>3 DEF CatalogueInv, CatalogueTypeOK
<1>10. ImagesOwned'
  BY <1>3, <1>4, <1>5, <1>6 DEF CatalogueInv, ImagesOwned, ImageRow
<1>11. \A y \in Product : Primaries(y)' \subseteq Primaries(y)
  BY <1>6 DEF Primaries, LiveImages
<1>12. CatalogueHeld(Idle)' /\ \A y : ~Works(Idle, y)
  BY DEF CatalogueHeld, ProductHeld, CategoryHeld, ImageHeld, Works, ImageAts, Idle
<1>13. \A y \in Product \ contended' : AtMostOne(y)'
  BY <1>4, <1>11 DEF CatalogueInv, AtMostOne
<1> QED BY <1>4, <1>8, <1>9, <1>10, <1>11, <1>12, <1>13, CatalogueCallStep

\* A call on images begins: alone, or the product is contended from now on.
LEMMA ImageBeginStep ==
    ASSUME CatalogueInv, NEW p \in Proc, NEW x \in Product, NEW c, ImageBegin(p, x, c),
           c.at \in ImageAts, c.id = x, ImageHeld(c), x \notin contended => PrimaryHeld(c)
    PROVE  CatalogueInv'
<1>1. /\ calls' = [calls EXCEPT ![p] = c]
      /\ contended' = IF \E q \in Proc : AtImages(q, x) THEN contended \cup {x} ELSE contended
      /\ UNCHANGED <<products, categories, images>>
  BY DEF ImageBegin, Begin
<1>2. contended \subseteq contended' /\ contended' \subseteq Product
  BY <1>1 DEF CatalogueInv, CatalogueTypeOK
<1>3. CatalogueKept /\ CatalogueTypeOK' /\ ImagesOwned'
  BY <1>1, <1>2 DEF CatalogueKept, CatalogueInv, CatalogueTypeOK, ImagesOwned, Found
<1>4. CatalogueHeld(c)'
  <2>1. ProductHeld(c) /\ CategoryHeld(c)
    BY DEF ProductHeld, CategoryHeld, ImageAts
  <2>2. ProductHeld(c)' /\ CategoryHeld(c)' /\ ImageHeld(c)'
    BY <1>3, <2>1, CatalogueHeldKept
  <2>3. x \notin contended' => PrimaryHeld(c)'
    BY <1>1, <1>2 DEF PrimaryHeld, Primaries, LiveImages
  <2> QED BY <2>2, <2>3 DEF CatalogueHeld, Works
<1>5. \A y \in Product \ contended' : Works(c, y) => \A q \in Proc \ {p} : ~Works(calls[q], y)
  BY <1>1 DEF Works, AtImages, ImageAts
<1>6. \A y \in Product \ contended' : AtMostOne(y)' /\ Primaries(y)' = Primaries(y)
  BY <1>1, <1>2 DEF CatalogueInv, AtMostOne, Primaries, LiveImages
<1> QED BY <1>1, <1>2, <1>3, <1>4, <1>5, <1>6, CatalogueCallStep

\* addImage, removeImage and setPrimaryImage begin.
LEMMA ImageRequestStep ==
    ASSUME CatalogueInv, NEW p \in Proc, ImageRequest(p)
    PROVE  CatalogueInv'
<1>1. ASSUME NEW x \in Product, NEW isPrimary \in BOOLEAN, ImageAdd(p, x, isPrimary) PROVE CatalogueInv'
  <2>1. PICK c : /\ ImageBegin(p, x, c)
                 /\ c = [at |-> IF isPrimary THEN "image.unset" ELSE "image.sort", id |-> x,
                         image |-> "new", isPrimary |-> isPrimary]
    BY <1>1 DEF ImageAdd
  <2>2. Row(x)
    BY <2>1 DEF ImageBegin, Found, Row
  <2>3. c.at \in ImageAts /\ c.id = x
    BY <2>1 DEF ImageAts
  <2>4. ImageHeld(c)
    BY <2>1, <2>2 DEF ImageHeld, ImageAts
  <2>5. PrimaryHeld(c)
    BY <2>1 DEF PrimaryHeld
  <2> QED BY <2>1, <2>3, <2>4, <2>5, ImageBeginStep
<1>2. ASSUME NEW x \in Product, NEW i \in Picture, ImageRemove(p, x, i) PROVE CatalogueInv'
  <2>1. PICK c : /\ ImageBegin(p, x, c)
                 /\ c = [at |-> "image.delete", id |-> x, image |-> i, isPrimary |-> images[i].isPrimary]
    BY <1>2 DEF ImageRemove
  <2>2. Row(x) /\ ImageOf(i, x) /\ images[i] \in ImageRow /\ i \in LiveImages(x)
    BY <1>2, <2>1 DEF ImageBegin, Found, Row, ImageRemove, LiveImages, ImageOf, CatalogueInv, CatalogueTypeOK
  <2>3. c.at \in ImageAts /\ c.id = x
    BY <2>1 DEF ImageAts
  <2>4. ImageHeld(c)
    <3>1. images[i].isPrimary \in BOOLEAN
      BY <2>2 DEF ImageRow
    <3> QED BY <2>1, <2>2, <3>1 DEF ImageHeld, ImageAts
  <2>5. x \notin contended => PrimaryHeld(c)
    BY <2>1, <2>2 DEF PrimaryHeld, CatalogueInv, AtMostOne, Primaries
  <2> QED BY <2>1, <2>3, <2>4, <2>5, ImageBeginStep
<1>3. ASSUME NEW x \in Product, NEW i \in Picture, ImagePrimary(p, x, i) PROVE CatalogueInv'
  <2>1. PICK c : /\ ImageBegin(p, x, c)
                 /\ c = [at |-> "image.unset", id |-> x, image |-> i, isPrimary |-> TRUE]
    BY <1>3 DEF ImagePrimary
  <2>2. Row(x) /\ ImageOf(i, x)
    BY <1>3, <2>1 DEF ImageBegin, Found, Row, ImagePrimary, LiveImages, ImageOf
  <2>3. c.at \in ImageAts /\ c.id = x
    BY <2>1 DEF ImageAts
  <2>4. ImageHeld(c)
    BY <2>1, <2>2 DEF ImageHeld, ImageAts
  <2>5. PrimaryHeld(c)
    BY <2>1 DEF PrimaryHeld
  <2> QED BY <2>1, <2>3, <2>4, <2>5, ImageBeginStep
<1> QED BY <1>1, <1>2, <1>3 DEF ImageRequest

\* A call on images holds nothing of the other kinds.
LEMMA OtherHeld ==
    ASSUME NEW c, c.at \in ImageAts \cup {"idle"}
    PROVE  ProductHeld(c)' /\ CategoryHeld(c)'
BY DEF ProductHeld, CategoryHeld, ImageAts

\* A call that goes on with other images, or at another await.
LEMMA CallMoved ==
    ASSUME NEW c, c = [at |-> c.at, id |-> c.id, image |-> c.image, isPrimary |-> c.isPrimary], NEW a
    PROVE  [c EXCEPT !.at = a] = [at |-> a, id |-> c.id, image |-> c.image, isPrimary |-> c.isPrimary]
OBVIOUS

\* The awaits of the calls on images.
LEMMA ImageStepStep ==
    ASSUME CatalogueInv, NEW p \in Proc, ImageStep(p)
    PROVE  CatalogueInv'
<1>1. PICK call : call = calls[p] /\ CatalogueHeld(call)
  BY DEF CatalogueInv, CatalogueCallsOK
<1>2. call.at \in ImageAts
  BY <1>1 DEF ImageStep, ImageUnset, ImageSort, ImageInsert, ImageDelete, ImageNext, ImagePrimaryWrite, At, ImageAts
<1>3. PICK x \in Product : x = call.id /\ Row(x) /\ Works(call, x) /\ ImageHeld(call) /\ (x \notin contended => PrimaryHeld(call))
  BY <1>1, <1>2 DEF CatalogueHeld, ImageHeld, Row, Works
<1>4. UNCHANGED <<products, categories, contended>>
  BY DEF ImageStep, ImageUnset, ImageSort, ImageInsert, ImageDelete, ImageNext, ImagePrimaryWrite, catalogueVars
<1>5. Row(x)' /\ images \in [Picture -> ImageRow \cup {NoImage}]
  BY <1>3, <1>4 DEF Row, CatalogueInv, CatalogueTypeOK
<1>6. ASSUME NEW c, calls' = [calls EXCEPT ![p] = c], c.at \in ImageAts \cup {"idle"}, c.at # "idle" => c.id = x,
             OnlyOf(x), ImageHeld(c)', x \notin contended => PrimaryHeld(c)' /\ AtMostOne(x)'
      PROVE  CatalogueInv'
  <2>1. \A y : Works(c, y) => y = x
    BY <1>6 DEF Works, ImageAts
  <2> QED BY <1>1, <1>3, <1>4, <1>6, <2>1, OtherHeld, ImageMoveStep
<1>7. /\ Idle.at \in ImageAts \cup {"idle"} /\ Idle.at = "idle"
      /\ ImageHeld(Idle)' /\ PrimaryHeld(Idle)'
  BY DEF Idle, ImageHeld, PrimaryHeld, ImageAts
<1>8. x \notin contended => AtMostOne(x)
  BY DEF CatalogueInv
<1>9. CASE ImageUnset(p)
  <2>1. call = [at |-> "image.unset", id |-> x, image |-> call.image, isPrimary |-> call.isPrimary]
        /\ call.isPrimary /\ (call.image # "new" => ImageOf(call.image, x))
    BY <1>1, <1>3, <1>9 DEF ImageUnset, At, ImageHeld
  <2>2. PICK c : c = [at |-> IF call.image = "new" THEN "image.sort" ELSE "image.primary", id |-> x,
                      image |-> call.image, isPrimary |-> call.isPrimary]
    OBVIOUS
  <2>3. calls' = [calls EXCEPT ![p] = c]
    <3>1. c = [call EXCEPT !.at = IF call.image = "new" THEN "image.sort" ELSE "image.primary"]
      BY <1>3, <2>1, <2>2, CallMoved
    <3> QED BY <1>1, <1>9, <3>1 DEF ImageUnset, Goto
  <2>4. images' = [i \in Picture |-> IF i \in Primaries(x) THEN [images[i] EXCEPT !.isPrimary = FALSE] ELSE images[i]]
    BY <1>1, <1>3, <1>9 DEF ImageUnset
  <2>5. OnlyOf(x)
    <3>1. \A i \in Primaries(x) : images[i] \in ImageRow /\ images[i].of = x /\ i \in Picture
      BY <1>5, RowIsNotNoImage DEF Primaries, LiveImages
    <3> QED BY <1>5, <2>4, <3>1 DEF OnlyOf, ImageRow
  <2>6. Primaries(x)' = {}
    <3>1. \A i \in Picture : i \notin Primaries(x)'
      BY <1>5, <2>4, RowIsNotNoImage DEF Primaries, LiveImages, ImageRow
    <3> QED BY <3>1 DEF Primaries, LiveImages
  <2>7. ImageHeld(c)'
    <3>1. call.image # "new" => ImageOf(call.image, x)'
      BY <1>3, <2>1, <2>5, RowIsNotNoImage DEF OnlyOf, ImageOf
    <3> QED BY <1>5, <2>1, <2>2, <3>1 DEF ImageHeld, ImageAts
  <2>8. PrimaryHeld(c)' /\ AtMostOne(x)'
    BY <2>2, <2>6 DEF PrimaryHeld, AtMostOne
  <2>9. c.at \in ImageAts \cup {"idle"} /\ c.id = x
    BY <2>2 DEF ImageAts
  <2> QED BY <1>6, <2>3, <2>5, <2>7, <2>8, <2>9
<1>10. CASE ImageSort(p)
  <2>1. call.isPrimary \in BOOLEAN /\ call.at = "image.sort"
    BY <1>1, <1>3, <1>10 DEF ImageSort, At, ImageHeld
  <2>2. PICK n : n = NextOrder(x)
    OBVIOUS
  <2>3. n \in Nat
    <3>1. CASE LiveImages(x) = {}
      BY <2>2, <3>1 DEF NextOrder
    <3>2. CASE LiveImages(x) # {}
      <4>1. PICK s : s = {images[i].sortOrder : i \in LiveImages(x)}
        OBVIOUS
      <4>2. IsFiniteSet(LiveImages(x)) /\ \A i \in LiveImages(x) : images[i] \in ImageRow
        BY <1>5, CatalogueAssumption, FS_Subset, RowIsNotNoImage DEF LiveImages
      <4>3. IsFiniteSet(s)
        <5>1. PICK f : f = [i \in Picture |-> images[i].sortOrder]
          OBVIOUS
        <5>2. s = {f[i] : i \in LiveImages(x)}
          BY <4>1, <5>1 DEF LiveImages
        <5> QED BY <4>2, <5>2, ImageIsFinite
      <4>4. s # {} /\ \A m \in s : m \in Nat
        BY <3>2, <4>1, <4>2 DEF ImageRow
      <4>5. Max(s) \in s
        BY <4>3, <4>4, MaxIsThere
      <4> QED BY <2>2, <3>2, <4>1, <4>4, <4>5 DEF NextOrder
    <3> QED BY <3>1, <3>2
  <2>4. PICK c : c = [at |-> "image.insert", id |-> x, isPrimary |-> call.isPrimary, sortOrder |-> n]
    OBVIOUS
  <2>5. calls' = [calls EXCEPT ![p] = c] /\ UNCHANGED images
    BY <1>1, <1>3, <1>10, <2>2, <2>4 DEF ImageSort, Goto, catalogueVars
  <2>6. ImageHeld(c)'
    BY <1>5, <2>1, <2>3, <2>4 DEF ImageHeld, ImageAts
  <2>7. Primaries(x)' = Primaries(x)
    BY <2>5 DEF Primaries, LiveImages
  <2>8. x \notin contended => PrimaryHeld(c)' /\ AtMostOne(x)'
    BY <1>3, <1>8, <2>1, <2>4, <2>7 DEF PrimaryHeld, AtMostOne
  <2>9. c.at \in ImageAts \cup {"idle"} /\ c.id = x
    BY <2>4 DEF ImageAts
  <2> QED BY <1>6, <2>5, <2>6, <2>8, <2>9, NothingOf
<1>11. CASE ImageInsert(p)
  <2>1. call.isPrimary \in BOOLEAN /\ call.sortOrder \in Nat /\ call.at = "image.insert"
    BY <1>1, <1>3, <1>11 DEF ImageInsert, At, ImageHeld
  <2>2. PICK i, row :
           /\ i \in Picture /\ images[i] = NoImage /\ images' = [images EXCEPT ![i] = row]
           /\ row = [of |-> x, isPrimary |-> call.isPrimary, sortOrder |-> call.sortOrder, deleted |-> FALSE]
    BY <1>1, <1>3, <1>11 DEF ImageInsert
  <2>3. row \in ImageRow /\ row.of = x
    BY <2>1, <2>2 DEF ImageRow
  <2>4. calls' = [calls EXCEPT ![p] = Idle]
    BY <1>11 DEF ImageInsert, Return, Goto
  <2>5. OnlyOf(x)
    BY <1>5, <2>2, <2>3 DEF OnlyOf
  <2>6. ASSUME x \notin contended PROVE AtMostOne(x)'
    <3>1. Primaries(x)' \subseteq Primaries(x) \cup {i} /\ (~call.isPrimary => Primaries(x)' \subseteq Primaries(x))
      BY <1>5, <2>2 DEF Primaries, LiveImages
    <3>2. call.isPrimary => Primaries(x) = {}
      BY <1>3, <2>1, <2>6 DEF PrimaryHeld
    <3> QED BY <1>8, <2>6, <3>1, <3>2 DEF AtMostOne
  <2> QED BY <1>6, <1>7, <2>4, <2>5, <2>6
<1>12. CASE ImageDelete(p)
  <2>1. call = [at |-> "image.delete", id |-> x, image |-> call.image, isPrimary |-> call.isPrimary]
        /\ call.isPrimary \in BOOLEAN /\ ImageOf(call.image, x)
    BY <1>1, <1>3, <1>12 DEF ImageDelete, At, ImageHeld
  <2>2. PICK i, row : i = call.image /\ i \in Picture /\ images[i] \in ImageRow /\ images[i].of = x
           /\ row = [images[i] EXCEPT !.deleted = TRUE]
    BY <1>5, <2>1 DEF ImageOf
  <2>3. row \in ImageRow /\ row.of = x /\ row.deleted
    BY <2>2 DEF ImageRow
  <2>4. images' = [images EXCEPT ![i] = row]
    BY <1>1, <1>5, <1>12, <2>2 DEF ImageDelete
  <2>5. OnlyOf(x)
    BY <1>5, <2>2, <2>3, <2>4 DEF OnlyOf
  <2>6. Primaries(x)' \subseteq Primaries(x) \ {i}
    BY <1>5, <2>2, <2>3, <2>4 DEF Primaries, LiveImages
  <2>7. x \notin contended => AtMostOne(x)'
    BY <1>8, <2>6 DEF AtMostOne
  <2>8. CASE ~call.isPrimary
    <3>1. calls' = [calls EXCEPT ![p] = Idle]
      BY <1>1, <1>12, <2>8 DEF ImageDelete, Return, Goto
    <3> QED BY <1>6, <1>7, <2>5, <2>7, <3>1
  <2>9. CASE call.isPrimary
    <3>1. PICK c : c = [at |-> "image.next", id |-> x, image |-> call.image, isPrimary |-> call.isPrimary]
      OBVIOUS
    <3>2. calls' = [calls EXCEPT ![p] = c]
      BY <1>1, <1>12, <2>1, <2>9, <3>1 DEF ImageDelete, Goto
    <3>3. ImageHeld(c)'
      BY <1>5, <3>1 DEF ImageHeld, ImageAts
    <3>4. x \notin contended => PrimaryHeld(c)'
      BY <1>3, <2>1, <2>2, <2>6, <2>9, <3>1 DEF PrimaryHeld
    <3>5. c.at \in ImageAts \cup {"idle"} /\ c.id = x
      BY <3>1 DEF ImageAts
    <3> QED BY <1>6, <2>5, <2>7, <3>2, <3>3, <3>4, <3>5
  <2> QED BY <2>1, <2>8, <2>9
<1>13. CASE ImageNext(p)
  <2>1. call = [at |-> "image.next", id |-> x, image |-> call.image, isPrimary |-> call.isPrimary]
    BY <1>1, <1>3, <1>13 DEF ImageNext, At, ImageHeld
  <2>2. UNCHANGED images /\ Primaries(x)' = Primaries(x)
    BY <1>13 DEF ImageNext, catalogueVars, Primaries, LiveImages
  <2>3. x \notin contended => Primaries(x) = {} /\ AtMostOne(x)'
    BY <1>3, <2>1, <2>2 DEF PrimaryHeld, AtMostOne
  <2>4. CASE Return(p)
    BY <1>6, <1>7, <2>2, <2>3, <2>4, NothingOf DEF Return, Goto
  <2>5. CASE \E i \in FirstImages(x) : Goto(p, [call EXCEPT !.at = "image.primary", !.image = i])
    <3>1. PICK i \in FirstImages(x) : Goto(p, [call EXCEPT !.at = "image.primary", !.image = i])
      BY <2>5
    <3>2. PICK c : c = [at |-> "image.primary", id |-> x, image |-> i, isPrimary |-> call.isPrimary]
      OBVIOUS
    <3>3. calls' = [calls EXCEPT ![p] = c]
      <4>1. c = [call EXCEPT !.at = "image.primary", !.image = i]
        <5>1. PICK s : s = [call EXCEPT !.at = "image.primary", !.image = i]
          OBVIOUS
        <5>2. s = [f \in {"at", "id", "image", "isPrimary"} |->
                     IF f = "at" THEN "image.primary" ELSE IF f = "image" THEN i ELSE call[f]]
          BY <2>1, <5>1
        <5>3. s = c
          BY <1>3, <3>2, <5>2
        <5> QED BY <5>1, <5>3
      <4> QED BY <3>1, <4>1 DEF Goto
    <3>4. ImageOf(i, x)
      BY DEF FirstImages, LiveImages, ImageOf
    <3>5. ImageHeld(c)'
      BY <1>5, <2>2, <3>2, <3>4 DEF ImageHeld, ImageAts, ImageOf
    <3>6. x \notin contended => PrimaryHeld(c)'
      BY <2>2, <2>3, <3>2 DEF PrimaryHeld
    <3>7. c.at \in ImageAts \cup {"idle"} /\ c.id = x
      BY <3>2 DEF ImageAts
    <3> QED BY <1>6, <2>2, <2>3, <3>3, <3>5, <3>6, <3>7, NothingOf
  <2> QED BY <1>1, <1>3, <1>13, <2>4, <2>5 DEF ImageNext
<1>14. CASE ImagePrimaryWrite(p)
  <2>1. ImageOf(call.image, x) /\ call.at = "image.primary"
    BY <1>1, <1>3, <1>14 DEF ImagePrimaryWrite, At, ImageHeld
  <2>2. PICK i, row : i = call.image /\ i \in Picture /\ images[i] \in ImageRow /\ images[i].of = x
           /\ row = [images[i] EXCEPT !.isPrimary = TRUE]
    BY <1>5, <2>1 DEF ImageOf
  <2>3. row \in ImageRow /\ row.of = x
    BY <2>2 DEF ImageRow
  <2>4. images' = [images EXCEPT ![i] = row] /\ calls' = [calls EXCEPT ![p] = Idle]
    BY <1>1, <1>5, <1>14, <2>2 DEF ImagePrimaryWrite, Return, Goto
  <2>5. OnlyOf(x)
    BY <1>5, <2>2, <2>3, <2>4 DEF OnlyOf
  <2>6. x \notin contended => AtMostOne(x)'
    <3>1. Primaries(x)' \subseteq Primaries(x) \cup {i}
      BY <1>5, <2>4 DEF Primaries, LiveImages
    <3> QED BY <1>3, <2>1, <3>1 DEF PrimaryHeld, AtMostOne
  <2> QED BY <1>6, <1>7, <2>4, <2>5, <2>6
<1> QED BY <1>9, <1>10, <1>11, <1>12, <1>13, <1>14 DEF ImageStep

-------------------------------------------------------------------------------
\* A step that writes a row of a category.
LEMMA CategoryRowStep ==
    ASSUME CatalogueInv, NEW p \in Proc, NEW x \in Product, NEW r \in CategoryRow, SlugIsFree(categories, x, r),
           categories' = [categories EXCEPT ![x] = r], UNCHANGED <<products, images, contended>>, Return(p)
    PROVE  CatalogueInv'
<1>1. categories \in [Product -> CategoryRow \cup {NoRow}] /\ r # NoRow
  BY RowIsNotNoRow DEF CatalogueInv, CatalogueTypeOK
<1>2. CatalogueKept
  BY <1>1 DEF CatalogueKept
<1>3. CatalogueTypeOK'
  <2>1. \A y, z \in Product :
           (y # z /\ Found(categories, y)' /\ Found(categories, z)') => categories'[y].slug # categories'[z].slug
    <3>1. \A y, z \in Product :
             (y # z /\ Found(categories, y) /\ Found(categories, z)) => categories[y].slug # categories[z].slug
      BY DEF CatalogueInv, CatalogueTypeOK
    <3>2. \A y, z \in Product :
             (y # z /\ Found(categories', y) /\ Found(categories', z)) => categories'[y].slug # categories'[z].slug
      BY <1>1, <3>1, SlugsApart
    <3> QED BY <3>2 DEF Found
  <2>2. categories' \in [Product -> CategoryRow \cup {NoRow}]
    BY <1>1
  <2> QED BY <2>1, <2>2 DEF CatalogueInv, CatalogueTypeOK, Found
<1>4. ImagesOwned'
  BY DEF CatalogueInv, ImagesOwned
<1>5. \A y \in Product : Primaries(y)' = Primaries(y) /\ (AtMostOne(y) => AtMostOne(y)')
  BY DEF AtMostOne, Primaries, LiveImages
<1>6. CatalogueHeld(Idle)' /\ \A y : ~Works(Idle, y)
  BY DEF CatalogueHeld, ProductHeld, CategoryHeld, ImageHeld, Works, ImageAts, Idle
<1> QED BY <1>2, <1>3, <1>4, <1>5, <1>6, CatalogueCallStep DEF CatalogueInv, Return, Goto

\* Requests on categories.
LEMMA CategoryRequestStep ==
    ASSUME CatalogueInv, NEW p \in Proc, CategoryRequest(p)
    PROVE  CatalogueInv'
<1>1. ASSUME NEW c, Begin(p, c), UNCHANGED catalogueVars, CategoryHeld(c),
             c.at \in {"category.insert", "category.write", "category.field"}
      PROVE  CatalogueInv'
  <2>1. ProductHeld(c) /\ ImageHeld(c) /\ \A y : ~Works(c, y)
    BY <1>1 DEF ProductHeld, ImageHeld, ImageAts, Works
  <2> QED BY <1>1, <2>1, CatalogueReadStep DEF Begin, catalogueVars, CatalogueHeld
<1>2. ASSUME NEW name \in Name, CategoryCreate(p, name) PROVE CatalogueInv'
  <2>1. PICK s, c : s \in FreeSlugs(categories, name, {}) /\ Begin(p, c) /\ UNCHANGED catalogueVars
                    /\ c = [at |-> "category.insert", slug |-> s]
    BY <1>2 DEF CategoryCreate
  <2>2. s \in Slug
    BY <2>1 DEF FreeSlugs, Slug
  <2> QED BY <1>1, <2>1, <2>2 DEF CategoryHeld
<1>3. ASSUME NEW x \in Product, CategoryDelete(p, x) \/ CategoryToggle(p, x) PROVE CatalogueInv'
  <2>1. PICK f, c : Begin(p, c) /\ UNCHANGED catalogueVars /\ c = [at |-> "category.field", id |-> x, field |-> f]
                    /\ (f = [deleted |-> TRUE] \/ f = [isActive |-> ~categories[x].isActive])
    BY <1>3 DEF CategoryDelete, CategoryToggle
  <2>2. categories[x] \in CategoryRow /\ categories[x] # NoRow
    BY <1>3 DEF CategoryDelete, CategoryToggle, Found, CatalogueInv, CatalogueTypeOK
  <2>3. f \in [deleted : {TRUE}] \cup [isActive : BOOLEAN]
    <3>1. PICK b \in BOOLEAN : b = ~categories[x].isActive
      BY <2>2 DEF CategoryRow
    <3>2. [deleted |-> TRUE] \in [deleted : {TRUE}] /\ [isActive |-> b] \in [isActive : BOOLEAN]
      OBVIOUS
    <3> QED BY <2>1, <3>1, <3>2
  <2> QED BY <1>1, <2>1, <2>2, <2>3 DEF CategoryHeld
<1>4. ASSUME NEW x \in Product, NEW name \in Name, CategoryUpdate(p, x, name) PROVE CatalogueInv'
  <2>1. PICK s, c : s \in FreeSlugs(categories, name, {x}) /\ Begin(p, c) /\ UNCHANGED catalogueVars
                    /\ c = [at |-> "category.write", id |-> x, slug |-> s]
    BY <1>4 DEF CategoryUpdate
  <2>2. s \in Slug /\ categories[x] # NoRow
    BY <1>4, <2>1 DEF FreeSlugs, Slug, CategoryUpdate, Found
  <2> QED BY <1>1, <2>1, <2>2 DEF CategoryHeld
<1> QED BY <1>2, <1>3, <1>4 DEF CategoryRequest

\* The writes on categories.
LEMMA CategoryStepStep ==
    ASSUME CatalogueInv, NEW p \in Proc, CategoryStep(p)
    PROVE  CatalogueInv'
<1>1. PICK call : call = calls[p] /\ CategoryHeld(call)
  BY DEF CatalogueInv, CatalogueCallsOK, CatalogueHeld
<1>2. UNCHANGED <<products, images, contended>> /\ Return(p)
  BY DEF CategoryStep, CategoryInsert, CategoryWrite, CategoryFieldWrite
<1>3. categories \in [Product -> CategoryRow \cup {NoRow}]
  BY DEF CatalogueInv, CatalogueTypeOK
<1>4. CASE UNCHANGED categories
  BY <1>2, <1>4, CatalogueIdle, CatalogueReadStep DEF Return, Goto, Works, Idle, ImageAts
<1>5. CASE CategoryInsert(p) /\ ~SlugIndexed(categories, call.slug, {})
  <2>1. PICK x, r : x \in Product /\ categories[x] = NoRow /\ categories' = [categories EXCEPT ![x] = r]
                    /\ r = [slug |-> call.slug, isActive |-> TRUE, deleted |-> FALSE]
    BY <1>1, <1>5 DEF CategoryInsert
  <2>2. r \in CategoryRow
    BY <1>1, <1>5, <2>1 DEF CategoryInsert, At, CategoryHeld, CategoryRow
  <2>3. SlugIsFree(categories, x, r)
    BY <1>5, <2>1 DEF SlugIsFree, SlugIndexed, Found
  <2> QED BY <1>2, <2>1, <2>2, <2>3, CategoryRowStep
<1>6. CASE CategoryWrite(p) /\ ~SlugIndexed(categories, call.slug, {call.id})
  <2>1. PICK x \in Product, row \in CategoryRow : x = call.id /\ row = categories[x] /\ call.slug \in Slug
    BY <1>1, <1>3, <1>6 DEF CategoryWrite, At, CategoryHeld
  <2>2. PICK r : r = [row EXCEPT !.slug = call.slug]
    OBVIOUS
  <2>3. r \in CategoryRow /\ r.slug = call.slug
    BY <2>1, <2>2 DEF CategoryRow
  <2>4. categories' = [categories EXCEPT ![x] = r]
    BY <1>1, <1>3, <1>6, <2>1, <2>2 DEF CategoryWrite
  <2>5. SlugIsFree(categories, x, r)
    BY <1>6, <2>1, <2>3 DEF SlugIsFree, SlugIndexed, Found
  <2> QED BY <1>2, <2>3, <2>4, <2>5, CategoryRowStep
<1>7. CASE CategoryFieldWrite(p)
  <2>1. PICK x \in Product, row \in CategoryRow : x = call.id /\ row = categories[x] /\ row # NoRow
                                                  /\ call.field \in [deleted : {TRUE}] \cup [isActive : BOOLEAN]
    BY <1>1, <1>3, <1>7 DEF CategoryFieldWrite, At, CategoryHeld
  <2>2. PICK r : r = [f \in DOMAIN row |-> IF f \in DOMAIN call.field THEN call.field[f] ELSE row[f]]
    OBVIOUS
  <2>3. r \in CategoryRow /\ r.slug = row.slug /\ (row.deleted => r.deleted)
    BY <2>1, <2>2 DEF CategoryRow
  <2>4. categories' = [categories EXCEPT ![x] = r]
    BY <1>1, <1>3, <1>7, <2>1, <2>2 DEF CategoryFieldWrite
  <2>5. SlugIsFree(categories, x, r)
    BY <2>1, <2>3 DEF SlugIsFree, Found, CatalogueInv, CatalogueTypeOK
  <2> QED BY <1>2, <2>3, <2>4, <2>5, CategoryRowStep
<1> QED BY <1>1, <1>4, <1>5, <1>6, <1>7 DEF CategoryStep, CategoryInsert, CategoryWrite

\* A call stops half-way: the product it was at is contended.
LEMMA CatalogueAbortStep ==
    ASSUME CatalogueInv, NEW p \in Proc, CatalogueAbort(p)
    PROVE  CatalogueInv'
<1>1. /\ calls' = [calls EXCEPT ![p] = Idle]
      /\ contended \subseteq contended' /\ contended' \subseteq Product
      /\ UNCHANGED <<products, categories, images>>
  BY DEF CatalogueAbort, Interrupt, Return, Goto, CatalogueInv, CatalogueTypeOK
<1>2. CatalogueKept /\ CatalogueTypeOK' /\ ImagesOwned'
  BY <1>1 DEF CatalogueKept, CatalogueInv, CatalogueTypeOK, ImagesOwned, Found
<1>3. CatalogueHeld(Idle)' /\ \A y : ~Works(Idle, y)
  BY DEF CatalogueHeld, ProductHeld, CategoryHeld, ImageHeld, Works, ImageAts, Idle
<1>4. \A y \in Product \ contended' : AtMostOne(y)' /\ Primaries(y)' = Primaries(y)
  BY <1>1 DEF CatalogueInv, AtMostOne, Primaries, LiveImages
<1> QED BY <1>1, <1>2, <1>3, <1>4, CatalogueCallStep

\* The invariant holds at the start.
LEMMA CatalogueInitInv == CallsInit /\ CatalogueInit => CatalogueInv
<1> SUFFICES ASSUME CallsInit, CatalogueInit PROVE CatalogueInv
  OBVIOUS
<1>1. PICK first \in Product, name \in Name, shown \in SUBSET Picture :
         \E primary \in SUBSET shown :
            /\ Cardinality(primary) <= 1
            /\ images = [i \in Picture |-> IF i \in shown
                     THEN [of |-> first, isPrimary |-> i \in primary,
                           sortOrder |-> IF i \in primary THEN 0 ELSE 1, deleted |-> FALSE]
                     ELSE NoImage]
            /\ categories = [x \in Product |-> IF x = first
                   THEN [slug |-> <<name, 0>>, isActive |-> TRUE, deleted |-> FALSE] ELSE NoRow]
            /\ products = [x \in Product |-> IF x = first
                   THEN [slug |-> <<name, 0>>, category |-> first, stock |-> 0, isActive |-> TRUE,
                         deleted |-> FALSE, variants |-> {}, related |-> {}, ordered |-> FALSE]
                   ELSE NoRow]
            /\ contended = {}
  BY DEF CatalogueInit
<1>2. PICK primary \in SUBSET shown :
            /\ Cardinality(primary) <= 1
            /\ images = [i \in Picture |-> IF i \in shown
                     THEN [of |-> first, isPrimary |-> i \in primary,
                           sortOrder |-> IF i \in primary THEN 0 ELSE 1, deleted |-> FALSE]
                     ELSE NoImage]
            /\ categories = [x \in Product |-> IF x = first
                   THEN [slug |-> <<name, 0>>, isActive |-> TRUE, deleted |-> FALSE] ELSE NoRow]
            /\ products = [x \in Product |-> IF x = first
                   THEN [slug |-> <<name, 0>>, category |-> first, stock |-> 0, isActive |-> TRUE,
                         deleted |-> FALSE, variants |-> {}, related |-> {}, ordered |-> FALSE]
                   ELSE NoRow]
            /\ contended = {}
  BY <1>1
<1>3. <<name, 0>> \in Slug
  BY CatalogueAssumption DEF Slug
<1>4. PICK row \in ProductRow : products = [x \in Product |-> IF x = first THEN row ELSE NoRow] /\ row # NoRow
  <2>1. [slug |-> <<name, 0>>, category |-> first, stock |-> 0, isActive |-> TRUE,
         deleted |-> FALSE, variants |-> {}, related |-> {}, ordered |-> FALSE] \in ProductRow
    BY <1>3 DEF ProductRow
  <2> QED BY <1>2, <2>1, RowIsNotNoRow
<1>5. PICK kind \in CategoryRow : categories = [x \in Product |-> IF x = first THEN kind ELSE NoRow]
  <2>1. [slug |-> <<name, 0>>, isActive |-> TRUE, deleted |-> FALSE] \in CategoryRow
    BY <1>3 DEF CategoryRow
  <2> QED BY <1>2, <2>1
<1>6. \A i \in shown : images[i] \in ImageRow /\ images[i].of = first /\ (images[i].isPrimary <=> i \in primary)
  <2>1. ASSUME NEW i \in shown
        PROVE  [of |-> first, isPrimary |-> i \in primary, sortOrder |-> IF i \in primary THEN 0 ELSE 1, deleted |-> FALSE] \in ImageRow
    <3>1. (i \in primary) \in BOOLEAN /\ (IF i \in primary THEN 0 ELSE 1) \in Nat
      OBVIOUS
    <3> QED BY <3>1 DEF ImageRow
  <2> QED BY <1>2, <2>1
<1>7. images \in [Picture -> ImageRow \cup {NoImage}] /\ \A i \in Picture : images[i] # NoImage => i \in shown
  BY <1>2, <1>6
<1>8. CatalogueTypeOK
  <2>1. \A x \in Product : Found(products, x) \/ Found(categories, x) => x = first
    BY <1>4, <1>5 DEF Found
  <2>2. products \in [Product -> ProductRow \cup {NoRow}] /\ categories \in [Product -> CategoryRow \cup {NoRow}]
    BY <1>4, <1>5
  <2>3. contended \subseteq Product
    BY <1>2
  <2> QED BY <1>7, <2>1, <2>2, <2>3 DEF CatalogueTypeOK
<1>9. CatalogueCallsOK /\ Alone
  BY CatalogueIdle DEF CallsInit, CatalogueCallsOK, CallsShape, Alone, Works, Idle, ImageAts
<1>10. ImagesOwned
  BY <1>4, <1>6, <1>7 DEF ImagesOwned
<1>11. ASSUME NEW x \in Product PROVE AtMostOne(x)
  <2>1. Primaries(x) \subseteq primary
    BY <1>6, <1>7 DEF Primaries, LiveImages
  <2>2. \A i, j \in primary : i = j
    BY <1>2, CatalogueAssumption, FS_Subset, OneAtMost
  <2> QED BY <2>1, <2>2 DEF AtMostOne
<1> QED BY <1>8, <1>9, <1>10, <1>11 DEF CatalogueInv

\* Every step keeps it.
LEMMA CatalogueInvStep == CatalogueInv /\ [CatalogueNext]_<<callVars, catalogueVars>> => CatalogueInv'
<1> SUFFICES ASSUME CatalogueInv, [CatalogueNext]_<<callVars, catalogueVars>> PROVE CatalogueInv'
  OBVIOUS
<1>1. ASSUME NEW p \in Proc, ProductStep(p) PROVE CatalogueInv'
  BY <1>1, ProductInsertStep, ProductImagesStep, ProductWriteStep, ProductWritesStep, ProductDeleteStep DEF ProductStep
<1>2. CASE UNCHANGED <<callVars, catalogueVars>>
  <2>1. UNCHANGED <<calls, products, categories, images, contended>>
    BY <1>2 DEF callVars, catalogueVars
  <2>2. CatalogueTypeOK' /\ ImagesOwned' /\ Alone'
    BY <2>1 DEF CatalogueInv, CatalogueTypeOK, Found, ImagesOwned, Alone, Works
  <2>3. CatalogueCallsOK'
    <3>1. CatalogueKept
      BY <2>1 DEF CatalogueKept
    <3>2. ASSUME NEW p \in Proc PROVE CatalogueHeld(calls[p])'
      <4>1. PICK r : r = calls[p] /\ CatalogueHeld(r)
        BY DEF CatalogueInv, CatalogueCallsOK
      <4>2. ProductHeld(r)' /\ CategoryHeld(r)' /\ ImageHeld(r)'
        BY <3>1, <4>1, CatalogueHeldKept DEF CatalogueHeld
      <4>3. PrimaryHeld(r) => PrimaryHeld(r)'
        BY <2>1 DEF PrimaryHeld, Primaries, LiveImages
      <4>4. CatalogueHeld(r)'
        BY <2>1, <4>1, <4>2, <4>3 DEF CatalogueHeld, Works
      <4> QED BY <2>1, <4>1, <4>4
    <3> QED BY <2>1, <3>2 DEF CatalogueInv, CatalogueCallsOK, CallsShape
  <2>4. \A x \in Product \ contended' : AtMostOne(x)'
    BY <2>1 DEF CatalogueInv, AtMostOne, Primaries, LiveImages
  <2> QED BY <2>2, <2>3, <2>4 DEF CatalogueInv
<1> QED
  BY <1>1, <1>2, ProductRequestStep, ImageRequestStep, ImageStepStep, CategoryRequestStep, CategoryStepStep,
     CatalogueAbortStep, ProductOrderedStep DEF CatalogueNext

\* Rows keep their types, and no two products or categories on show share a slug, although every
\* call chooses its slug well before it writes it: the unique index decides (product.service.ts,
\* product-category.service.ts).
THEOREM CatalogueTypeCorrect == CatalogueSpec => []CatalogueTypeOK
<1>1. CatalogueInv => CatalogueTypeOK
  BY DEF CatalogueInv
<1> QED
  BY CatalogueInitInv, CatalogueInvStep, <1>1, PTL DEF CatalogueSpec

\* A product whose image calls did not overlap has at most one primary image.
LEMMA PrimaryFollows == CatalogueInv => OnePrimary
<1> SUFFICES ASSUME CatalogueInv, NEW x \in Product \ contended PROVE Cardinality(Primaries(x)) <= 1
  BY DEF OnePrimary
<1>1. AtMostOne(x) /\ Primaries(x) \subseteq Picture
  BY DEF CatalogueInv, Primaries, LiveImages
<1>2. IsFiniteSet(Primaries(x))
  BY <1>1, CatalogueAssumption, FS_Subset
<1> QED BY <1>1, <1>2, OneAtMost DEF AtMostOne

\* Adding, promoting and removing images leaves a product with at most one primary image, unless
\* calls on it have overlapped or stopped half-way (product.service.ts).
THEOREM PrimaryCorrect == CatalogueSpec => []OnePrimary
<1> QED
  BY CatalogueInitInv, CatalogueInvStep, PrimaryFollows, PTL DEF CatalogueSpec

-------------------------------------------------------------------------------
(* The parts together, as MCTrade moves them: one of them at a time *)

TradeInv ==
    /\ CheckoutTypeOK /\ DropTypeOK /\ VouchTypeOK /\ CatalogueTypeOK
    /\ focus \in {"coupons", "checkout"} => CheckoutInv
    /\ focus = "drops" => DropInv
    /\ focus = "vouches" => VouchInv
    /\ focus \in {"products", "images", "categories"} => CatalogueInv

\* The part in focus takes a step of its own, or nothing moves.
FocusMoves ==
    \/ focus \in {"coupons", "checkout"} /\ CheckoutNext /\ UNCHANGED <<dropVars, vouchVars, catalogueVars>>
    \/ focus = "drops" /\ DropNext /\ UNCHANGED <<couponVars, cartVars, orders, vouchVars, catalogueVars>>
    \/ focus = "vouches" /\ VouchNext /\ UNCHANGED <<couponVars, cartVars, orders, dropVars, catalogueVars>>
    \/ /\ focus \in {"products", "images", "categories"} /\ CatalogueNext
       /\ UNCHANGED <<couponVars, cartVars, orders, dropVars, vouchVars>>
    \/ UNCHANGED <<checkoutVars, dropVars, vouchVars, catalogueVars>>

\* A step of MCTrade is a step of the part in focus.
LEMMA FocusStep == [Next]_tradeVars => FocusMoves /\ UNCHANGED focus
<1> SUFFICES ASSUME [Next]_tradeVars PROVE FocusMoves /\ UNCHANGED focus
  OBVIOUS
<1>1. CASE UNCHANGED tradeVars
  BY <1>1 DEF tradeVars, FocusMoves
<1>2. CASE Only("coupons") /\ CouponNext /\ UNCHANGED <<cartVars, orders>>
  BY <1>2 DEF Only, FocusMoves, CheckoutNext
<1>3. ASSUME NEW p \in Proc, Only("coupons"), PreviewRequest(p) \/ OrderRequest(p) \/ OrderStep(p) \/ CheckoutAbort(p)
      PROVE  FocusMoves /\ UNCHANGED focus
  BY <1>3 DEF Only, FocusMoves, CheckoutNext
<1>4. ASSUME NEW p \in Proc, Only("checkout"),
             \/ (CartRequest(p) \/ CartStep(p) \/ GoodRequest(p)) /\ UNCHANGED <<couponVars, orders>>
             \/ OrderRequest(p) \/ OrderStep(p) \/ CheckoutAbort(p)
      PROVE  FocusMoves /\ UNCHANGED focus
  BY <1>4 DEF Only, FocusMoves, CheckoutNext
<1>5. CASE Only("drops") /\ DropNext
  BY <1>5 DEF Only, FocusMoves
<1>6. CASE Only("vouches") /\ VouchNext
  BY <1>6 DEF Only, FocusMoves
<1>7. ASSUME NEW p \in Proc, Only("products"),
             \/ ProductRequest(p) \/ VariantRequest(p) \/ ProductStep(p) \/ CatalogueAbort(p)
             \/ \E x \in Product : ProductOrdered(p, x)
      PROVE  FocusMoves /\ UNCHANGED focus
  BY <1>7 DEF Only, FocusMoves, CatalogueNext
<1>8. ASSUME NEW p \in Proc, Only("images"),
             \/ ImageRequest(p) \/ ImageStep(p) \/ CatalogueAbort(p)
             \/ \E x \in Product : ProductDelete(p, x) \/ ProductDeleteWrite(p)
      PROVE  FocusMoves /\ UNCHANGED focus
  <2>1. CatalogueNext
    BY <1>8 DEF CatalogueNext, ProductRequest, ProductStep
  <2> QED BY <1>8, <2>1 DEF Only, FocusMoves
<1>9. ASSUME NEW p \in Proc, Only("categories"), CategoryRequest(p) \/ CategoryStep(p) \/ CatalogueAbort(p)
      PROVE  FocusMoves /\ UNCHANGED focus
  BY <1>9 DEF Only, FocusMoves, CatalogueNext
<1> QED BY <1>1, <1>2, <1>3, <1>4, <1>5, <1>6, <1>7, <1>8, <1>9 DEF Next, Moves

\* A part that rests keeps its types.
LEMMA RestKeepsTypes ==
    /\ CheckoutTypeOK /\ UNCHANGED <<couponVars, cartVars, orders>> => CheckoutTypeOK'
    /\ DropTypeOK /\ UNCHANGED dropVars => DropTypeOK'
    /\ VouchTypeOK /\ UNCHANGED vouchVars => VouchTypeOK'
    /\ CatalogueTypeOK /\ UNCHANGED catalogueVars => CatalogueTypeOK'
<1>1. CheckoutTypeOK /\ UNCHANGED <<couponVars, cartVars, orders>> => CheckoutTypeOK'
  BY DEF CheckoutTypeOK, CouponTypeOK, CartTypeOK, couponVars, cartVars, Live, Stored
<1>2. DropTypeOK /\ UNCHANGED dropVars => DropTypeOK'
  BY DEF DropTypeOK, dropVars
<1>3. VouchTypeOK /\ UNCHANGED vouchVars => VouchTypeOK'
  BY DEF VouchTypeOK, vouchVars
<1>4. CatalogueTypeOK /\ UNCHANGED catalogueVars => CatalogueTypeOK'
  BY DEF CatalogueTypeOK, catalogueVars, Found
<1> QED BY <1>1, <1>2, <1>3, <1>4

\* The parts' invariants hold at the start,
LEMMA TradeInitInv == Init => TradeInv
<1> SUFFICES ASSUME Init PROVE TradeInv
  OBVIOUS
<1>1. CheckoutInv /\ DropInv /\ VouchInv /\ CatalogueInv
  BY CheckoutInitInv, DropInitInv, VouchInitInv, CatalogueInitInv DEF Init, CheckoutInit
<1> QED BY <1>1, CheckoutInvImplies DEF TradeInv, DropInv, VouchInv, CatalogueInv

\* The invariant of a part implies its types, in the next state as well.
LEMMA PartsTyped ==
    /\ CheckoutInv' => CheckoutTypeOK'
    /\ DropInv' => DropTypeOK'
    /\ VouchInv' => VouchTypeOK'
    /\ CatalogueInv' => CatalogueTypeOK'
<1>1. DropInv => DropTypeOK
  BY DEF DropInv
<1>2. VouchInv => VouchTypeOK
  BY DEF VouchInv
<1>3. CatalogueInv => CatalogueTypeOK
  BY DEF CatalogueInv
<1> QED BY <1>1, <1>2, <1>3, CheckoutInvImplies, PTL

\* and every step keeps them.
LEMMA TradeInvStep == TradeInv /\ [Next]_tradeVars => TradeInv'
<1> SUFFICES ASSUME TradeInv, FocusMoves, UNCHANGED focus PROVE TradeInv'
  BY FocusStep
<1>1. ASSUME focus \in {"coupons", "checkout"}, CheckoutNext PROVE CheckoutInv'
  BY <1>1, CheckoutInvStep DEF TradeInv
<1>2. ASSUME focus = "drops", DropNext PROVE DropInv'
  BY <1>2, DropInvStep DEF TradeInv
<1>3. ASSUME focus = "vouches", VouchNext PROVE VouchInv'
  BY <1>3, VouchInvStep DEF TradeInv
<1>4. ASSUME focus \in {"products", "images", "categories"}, CatalogueNext PROVE CatalogueInv'
  BY <1>4, CatalogueInvStep DEF TradeInv
<1>5. /\ CheckoutInv' => CheckoutTypeOK'
      /\ DropInv' => DropTypeOK'
      /\ VouchInv' => VouchTypeOK'
      /\ CatalogueInv' => CatalogueTypeOK'
  BY PartsTyped
<1>6. CASE UNCHANGED <<checkoutVars, dropVars, vouchVars, catalogueVars>>
  <2>1. UNCHANGED <<couponVars, cartVars, callVars, orders, dropVars, vouchVars, catalogueVars>>
    BY <1>6 DEF checkoutVars
  <2>2. focus \in {"coupons", "checkout"} => CheckoutInv'
    BY <1>6, CheckoutInvStep DEF TradeInv
  <2>3. focus = "drops" => DropInv'
    BY <2>1, DropInvStep DEF TradeInv
  <2>4. focus = "vouches" => VouchInv'
    BY <2>1, VouchInvStep DEF TradeInv
  <2>5. focus \in {"products", "images", "categories"} => CatalogueInv'
    BY <2>1, CatalogueInvStep DEF TradeInv
  <2> QED BY <2>1, <2>2, <2>3, <2>4, <2>5, RestKeepsTypes DEF TradeInv
<1> QED BY <1>1, <1>2, <1>3, <1>4, <1>5, <1>6, RestKeepsTypes DEF TradeInv, FocusMoves

\* While the store serves its buyers, every part's state is of its type: the stock of a variant is
\* never below zero, and codes and slugs lead to one row each.
THEOREM TradeTypeCorrect == Spec => []TradeTypeOK
<1>1. TradeInv => TradeTypeOK
  BY DEF TradeInv, TradeTypeOK
<1> QED
  BY TradeInitInv, TradeInvStep, <1>1, PTL DEF Spec

\* What the staff withdrew, or a user deleted, is not used, claimed or shown again.
THEOREM WithdrawnCorrect == Spec => WithdrawnStaysWithdrawn
<1>1. TradeInv /\ [Next]_tradeVars =>
        [\A k \in CouponId :
            (\E o \in orders' \ orders : o.order.coupon = k) =>
                coupons[k].isActive /\ ~coupons[k].deleted /\ coupons[k].expiry # "past"]_orders
  <2> SUFFICES ASSUME TradeInv, FocusMoves, orders' # orders
               PROVE  \A k \in CouponId :
                         (\E o \in orders' \ orders : o.order.coupon = k) =>
                             coupons[k].isActive /\ ~coupons[k].deleted /\ coupons[k].expiry # "past"
    BY FocusStep
  <2>1. CheckoutNext /\ CheckoutInv
    BY DEF TradeInv, FocusMoves, checkoutVars
  <2> QED BY <2>1, UsedWhileValid
<1>2. TradeInv /\ [Next]_tradeVars =>
        [\A c \in claims' \ claims : c.drop \in ListedDrops /\ UserAllowed(drops[c.drop], c.user)]_claims
  <2> SUFFICES ASSUME TradeInv, FocusMoves, claims' # claims
               PROVE  \A c \in claims' \ claims : c.drop \in ListedDrops /\ UserAllowed(drops[c.drop], c.user)
    BY FocusStep
  <2>1. DropNext /\ DropInv
    BY DEF TradeInv, FocusMoves, dropVars
  <2> QED BY <2>1, ClaimedWhileListed
<1>3. TradeInv /\ [Next]_tradeVars =>
        [\A v \in Vouch : (vouches[v] # NoVouch /\ vouches[v].deleted) => vouches'[v].deleted]_vouches
  <2> SUFFICES ASSUME TradeInv, FocusMoves, vouches' # vouches
               PROVE  \A v \in Vouch : (vouches[v] # NoVouch /\ vouches[v].deleted) => vouches'[v].deleted
    BY FocusStep
  <2>1. VouchNext /\ VouchInv
    BY DEF TradeInv, FocusMoves, vouchVars
  <2> QED BY <2>1, DeletedStep
<1> QED
  BY TradeInitInv, TradeInvStep, <1>1, <1>2, <1>3, PTL
     DEF Spec, WithdrawnStaysWithdrawn, WithdrawnIsNotUsed, WithdrawnIsNotClaimed, DeletedStaysDeleted

\* The parts' properties, put together.
TradeSafe ==
    /\ DiscountIsCapped /\ StockIsAccounted /\ CouponUseIsBounded
    /\ ClaimsAreSound
    /\ VouchesAreSound
    /\ OnePrimary

\* Each part's invariant implies its properties.
LEMMA PartsSafe ==
    /\ CheckoutInv => DiscountIsCapped /\ StockIsAccounted /\ CouponUseIsBounded
    /\ DropInv => ClaimsAreSound
    /\ VouchInv => VouchesAreSound
    /\ CatalogueInv => OnePrimary
<1>1. DropInv => ClaimsAreSound
  BY DEF DropInv
<1> QED BY <1>1, CheckoutInvImplies, VouchInvImplies, PrimaryFollows

\* A part that rests keeps them.
LEMMA RestKeepsSafe ==
    /\ DiscountIsCapped /\ StockIsAccounted /\ CouponUseIsBounded /\ UNCHANGED <<couponVars, cartVars, orders>>
           => DiscountIsCapped' /\ StockIsAccounted' /\ CouponUseIsBounded'
    /\ ClaimsAreSound /\ UNCHANGED dropVars => ClaimsAreSound'
    /\ VouchesAreSound /\ UNCHANGED vouchVars => VouchesAreSound'
    /\ OnePrimary /\ UNCHANGED catalogueVars => OnePrimary'
<1>1. DiscountIsCapped /\ UNCHANGED orders => DiscountIsCapped'
  BY DEF DiscountIsCapped
<1>2. StockIsAccounted /\ UNCHANGED <<cartVars, orders>> => StockIsAccounted'
  <2>1. StockIsAccounted <=> StockBook
    BY DEF StockIsAccounted, StockBook, Ordered
  <2>2. StockIsAccounted' <=> StockBook'
    BY <2>1, PTL
  <2>3. StockBook /\ UNCHANGED <<cartVars, orders>> => StockBook'
    BY DEF StockBook, cartVars
  <2> QED BY <2>1, <2>2, <2>3
<1>3. CouponUseIsBounded /\ UNCHANGED <<couponVars, orders>> => CouponUseIsBounded'
  BY DEF CouponUseIsBounded, couponVars, Stored, OrdersWith
<1>4. ClaimsAreSound /\ UNCHANGED dropVars => ClaimsAreSound'
  BY DEF ClaimsAreSound, dropVars
<1>5. VouchesAreSound /\ UNCHANGED vouchVars => VouchesAreSound'
  BY DEF VouchesAreSound, vouchVars, PublicVouches, Shown, LiveVouches
<1>6. OnePrimary /\ UNCHANGED catalogueVars => OnePrimary'
  BY DEF OnePrimary, catalogueVars, Primaries, LiveImages
<1> QED BY <1>1, <1>2, <1>3, <1>4, <1>5, <1>6

\* The properties hold at the start, and whichever part moves, every step keeps them.
LEMMA TradeSafeStep ==
    /\ Init => TradeSafe
    /\ TradeInv /\ TradeInv' /\ TradeSafe /\ [Next]_tradeVars => TradeSafe'
<1>0. /\ CheckoutInv' => DiscountIsCapped' /\ StockIsAccounted' /\ CouponUseIsBounded'
      /\ DropInv' => ClaimsAreSound'
      /\ VouchInv' => VouchesAreSound'
      /\ CatalogueInv' => OnePrimary'
  BY PartsSafe, PTL
<1>1. Init => TradeSafe
  BY CheckoutInitInv, DropInitInv, VouchInitInv, CatalogueInitInv, PartsSafe DEF Init, CheckoutInit, TradeSafe
<1>2. ASSUME TradeInv, TradeInv', TradeSafe, FocusMoves, UNCHANGED focus PROVE TradeSafe'
  <2>1. CASE focus \in {"coupons", "checkout"} /\ UNCHANGED <<dropVars, vouchVars, catalogueVars>>
    BY <1>0, <1>2, <2>1, RestKeepsSafe DEF TradeInv, TradeSafe
  <2>2. CASE focus = "drops" /\ UNCHANGED <<couponVars, cartVars, orders, vouchVars, catalogueVars>>
    BY <1>0, <1>2, <2>2, RestKeepsSafe DEF TradeInv, TradeSafe
  <2>3. CASE focus = "vouches" /\ UNCHANGED <<couponVars, cartVars, orders, dropVars, catalogueVars>>
    BY <1>0, <1>2, <2>3, RestKeepsSafe DEF TradeInv, TradeSafe
  <2>4. CASE /\ focus \in {"products", "images", "categories"}
             /\ UNCHANGED <<couponVars, cartVars, orders, dropVars, vouchVars>>
    BY <1>0, <1>2, <2>4, RestKeepsSafe DEF TradeInv, TradeSafe
  <2>5. CASE UNCHANGED <<checkoutVars, dropVars, vouchVars, catalogueVars>>
    BY <1>2, <2>5, RestKeepsSafe DEF TradeSafe, checkoutVars
  <2> QED BY <1>2, <2>1, <2>2, <2>3, <2>4, <2>5 DEF FocusMoves
<1> QED BY <1>1, <1>2, FocusStep

\* The whole shop has the properties of its parts.
THEOREM TradeCorrect == Spec => []TradeSafe
<1> QED BY TradeInitInv, TradeInvStep, TradeSafeStep, PTL DEF Spec

===============================================================================
