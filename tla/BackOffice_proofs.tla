----------------------------- MODULE BackOffice_proofs -------------------------
(***************************************************************************)
(* Proofs about the store's back office: the activity log (ActivityLog),   *)
(* tickets (Tickets), accounts (Accounts), what administrators publish     *)
(* (Content), and MCBackOffice, which puts them together.                  *)
(***************************************************************************)
EXTENDS MCBackOffice, FiniteSetTheorems, FunctionTheorems, TLAPS

-------------------------------------------------------------------------------
(* Lists of finite sets in an order                                          *)

\* Any collection of finite sets has a member of which no other one is a part.
LEMMA SmallestSet ==
    ASSUME NEW S, IsFiniteSet(S), NEW C \in SUBSET (SUBSET S), C # {}
    PROVE  \E m \in C : \A n \in C : n \subseteq m => n = m
<1>1. IsWellFoundedOn(StrictSubsetOrdering(S), FiniteSubsetsOf(S)) /\ FiniteSubsetsOf(S) = SUBSET S
  BY FS_StrictSubsetOrderingWellFounded, FS_FiniteSubsetsOfFinite
<1>2. PICK m \in C : \A n \in C : ~(<<n, m>> \in StrictSubsetOrdering(S))
  BY <1>1, WFMin
<1>3. ASSUME NEW n \in C, n \subseteq m PROVE n = m
  BY <1>2, <1>3 DEF StrictSubsetOrdering
<1> QED BY <1>3

\* R orders the members of S.
Ordered(S, R) ==
    /\ \A x, y, z \in S : <<x, y>> \in R /\ <<y, z>> \in R => <<x, z>> \in R
    /\ \A x \in S : <<x, x>> \notin R
    /\ \A x, y \in S : x = y \/ <<x, y>> \in R \/ <<y, x>> \in R

\* A finite set that is ordered has a last member.
LEMMA LastIsThere ==
    ASSUME NEW S, IsFiniteSet(S), S # {}, NEW R, Ordered(S, R)
    PROVE  \E x \in S : \A y \in S \ {x} : <<y, x>> \in R
<1> DEFINE Above(x) == {y \in S : <<x, y>> \in R}
           C == {Above(x) : x \in S}
<1>1. PICK m \in C : \A n \in C : n \subseteq m => n = m
  <2>1. \A D \in SUBSET (SUBSET S) : D # {} => \E m \in D : \A n \in D : n \subseteq m => n = m
    BY SmallestSet
  <2>2. C \in SUBSET (SUBSET S) /\ C # {}
    OBVIOUS
  <2> HIDE DEF C
  <2> QED BY <2>1, <2>2
<1>2. PICK x \in S : m = Above(x)
  BY <1>1
<1>3. ASSUME NEW y \in S, <<x, y>> \in R PROVE FALSE
  <2>1. Above(y) \in C /\ Above(y) \subseteq m
    BY <1>2, <1>3 DEF Ordered
  <2>2. y \in m /\ y \notin Above(y)
    BY <1>2, <1>3 DEF Ordered
  <2> QED BY <1>1, <2>1, <2>2
<1> QED BY <1>3 DEF Ordered

\* Its members can be listed in order.
LEMMA ListIsThere ==
    ASSUME NEW S, IsFiniteSet(S), NEW R, Ordered(S, R)
    PROVE  \E e \in [1 .. Cardinality(S) -> S] :
              /\ \A x \in S : \E n \in 1 .. Cardinality(S) : e[n] = x
              /\ \A m, n \in 1 .. Cardinality(S) : m < n => <<e[m], e[n]>> \in R
<1> DEFINE Lists(T, e) ==
              /\ e \in [1 .. Cardinality(T) -> T]
              /\ \A x \in T : \E n \in 1 .. Cardinality(T) : e[n] = x
              /\ \A m, n \in 1 .. Cardinality(T) : m < n => <<e[m], e[n]>> \in R
           Bad == {T \in SUBSET S : ~ \E e : Lists(T, e)}
<1>1. Bad = {}
  <2> SUFFICES ASSUME Bad # {} PROVE FALSE
    OBVIOUS
  <2>1. PICK T \in Bad : \A n \in Bad : n \subseteq T => n = T
    <3>1. \A C \in SUBSET (SUBSET S) : C # {} => \E m \in C : \A n \in C : n \subseteq m => n = m
      BY SmallestSet
    <3>2. Bad \in SUBSET (SUBSET S)
      OBVIOUS
    <3> HIDE DEF Bad
    <3> QED BY <3>1, <3>2
  <2>2. T \in SUBSET S /\ IsFiniteSet(T) /\ ~ \E e : Lists(T, e)
    BY <2>1, FS_Subset
  <2>3. T # {}
    <3> SUFFICES ASSUME T = {} PROVE FALSE
      OBVIOUS
    <3>1. Cardinality(T) = 0
      BY FS_EmptySet
    <3>2. Lists(T, [n \in 1 .. 0 |-> n])
      BY <3>1
    <3> QED BY <2>2, <3>2
  <2>4. PICK x \in T : \A y \in T \ {x} : <<y, x>> \in R
    <3>1. Ordered(T, R)
      BY <2>2 DEF Ordered
    <3> QED BY <2>2, <2>3, <3>1, LastIsThere
  <2>5. T \ {x} \in SUBSET S /\ T \ {x} \notin Bad
    BY <2>1, <2>2, <2>4
  <2>6. PICK e : Lists(T \ {x}, e)
    BY <2>5
  <2>7. PICK k \in Nat : Cardinality(T) = k + 1 /\ Cardinality(T \ {x}) = k
    <3>1. Cardinality(T \ {x}) = Cardinality(T) - 1 /\ Cardinality(T) \in Nat /\ Cardinality(T \ {x}) \in Nat
      BY <2>2, <2>4, FS_RemoveElement, FS_CardinalityType
    <3> QED BY <3>1
  <2>8. e \in [1 .. k -> T \ {x}] /\ (\A y \in T \ {x} : \E n \in 1 .. k : e[n] = y)
        /\ \A m, n \in 1 .. k : m < n => <<e[m], e[n]>> \in R
    BY <2>6, <2>7
  <2> DEFINE g == [n \in 1 .. k + 1 |-> IF n = k + 1 THEN x ELSE e[n]]
  <2>9. g \in [1 .. k + 1 -> T]
    BY <2>4, <2>8
  <2>10. \A y \in T : \E n \in 1 .. k + 1 : g[n] = y
    <3> TAKE y \in T
    <3>1. CASE y = x
      BY <3>1, <2>7
    <3>2. CASE y # x
      <4>1. PICK n \in 1 .. k : e[n] = y
        BY <2>8, <3>2
      <4>2. n \in 1 .. k + 1 /\ n # k + 1
        BY <4>1, <2>7
      <4> QED BY <4>1, <4>2
    <3> QED BY <3>1, <3>2
  <2>11. \A m, n \in 1 .. k + 1 : m < n => <<g[m], g[n]>> \in R
    <3> SUFFICES ASSUME NEW m \in 1 .. k + 1, NEW n \in 1 .. k + 1, m < n
                 PROVE  <<g[m], g[n]>> \in R
      OBVIOUS
    <3>1. m \in 1 .. k /\ m # k + 1 /\ (n = k + 1 \/ n \in 1 .. k)
      BY <2>7
    <3>2. g[m] = e[m] /\ e[m] \in T \ {x}
      BY <3>1, <2>8
    <3>3. CASE n = k + 1
      <4>1. g[n] = x
        BY <3>3
      <4> QED BY <4>1, <3>2, <2>4
    <3>4. CASE n \in 1 .. k
      <4>1. g[n] = e[n]
        BY <3>4, <2>7
      <4> QED BY <3>1, <3>2, <3>4, <4>1, <2>8
    <3> QED BY <3>1, <3>3, <3>4
  <2>12. Lists(T, g)
    <3> HIDE DEF g
    <3> QED BY <2>7, <2>9, <2>10, <2>11
  <2> QED BY <2>2, <2>12
<1>2. S \notin Bad
  BY <1>1
<1> QED BY <1>2

\* Of the members of a finite set, the first ones can be listed in order.
LEMMA FirstOnesAreThere ==
    ASSUME NEW S, IsFiniteSet(S), NEW R, Ordered(S, R), NEW k \in Nat, k <= Cardinality(S)
    PROVE  \E b \in [1 .. k -> S] :
              /\ \A m, n \in 1 .. k : m < n => <<b[m], b[n]>> \in R
              /\ \A x \in S \ {b[n] : n \in 1 .. k} : \A n \in 1 .. k : <<b[n], x>> \in R
<1>1. PICK e \in [1 .. Cardinality(S) -> S] :
          /\ \A x \in S : \E n \in 1 .. Cardinality(S) : e[n] = x
          /\ \A m, n \in 1 .. Cardinality(S) : m < n => <<e[m], e[n]>> \in R
  BY ListIsThere
<1>2. Cardinality(S) \in Nat
  BY FS_CardinalityType
<1> DEFINE b == [n \in 1 .. k |-> e[n]]
<1>3. b \in [1 .. k -> S] /\ \A n \in 1 .. k : b[n] = e[n] /\ n \in 1 .. Cardinality(S)
  BY <1>1, <1>2
<1> HIDE DEF b
<1>4. \A m, n \in 1 .. k : m < n => <<b[m], b[n]>> \in R
  BY <1>1, <1>3
<1>5. ASSUME NEW x \in S \ {b[n] : n \in 1 .. k}, NEW n \in 1 .. k PROVE <<b[n], x>> \in R
  <2>1. PICK j \in 1 .. Cardinality(S) : e[j] = x
    BY <1>1
  <2>2. ~(j \in 1 .. k)
    BY <2>1, <1>3
  <2>3. n < j
    BY <2>1, <2>2, <1>2
  <2> QED BY <1>1, <1>3, <2>1, <2>3
<1> QED BY <1>3, <1>4, <1>5

\* A list without repetitions that is as long as a set is large has all of its members.
LEMMA FullList ==
    ASSUME NEW S, IsFiniteSet(S), NEW b \in [1 .. Cardinality(S) -> S],
           \A m, n \in 1 .. Cardinality(S) : m < n => b[m] # b[n]
    PROVE  \A x \in S : \E n \in 1 .. Cardinality(S) : b[n] = x
<1>1. PICK k \in Nat : k = Cardinality(S)
  BY FS_CardinalityType
<1>2. b \in Injection(1 .. k, S)
  <2>1. \A m, n \in 1 .. k : b[m] = b[n] => m = n
    <3> SUFFICES ASSUME NEW m \in 1 .. k, NEW n \in 1 .. k, b[m] = b[n] PROVE m = n
      OBVIOUS
    <3>1. ~(m < n) /\ ~(n < m)
      BY <1>1
    <3> QED BY <3>1
  <2> QED BY <1>1, <2>1 DEF Injection, IsInjective
<1>3. IsFiniteSet(1 .. k) /\ Cardinality(1 .. k) = k
  BY FS_Interval, <1>1
<1>4. b \in Surjection(1 .. k, S)
  BY <1>1, <1>2, <1>3, FS_Injection
<1> QED BY <1>1, <1>4 DEF Surjection

-------------------------------------------------------------------------------
(* The activity log                                                          *)

\* Calls are a function of the processes.
CallsShape == calls = [p \in Proc |-> calls[p]]

\* What holds of every call holds after a step that changes the record of one.
LEMMA OneCall ==
    ASSUME CallsShape, NEW p \in Proc, NEW c, calls' = [calls EXCEPT ![p] = c]
    PROVE  CallsShape' /\ calls'[p] = c /\ \A q \in Proc \ {p} : calls'[q] = calls[q]
BY DEF CallsShape

\* A list is in the order of the table.
InOrder(s) == \A m, n \in 1 .. Len(s) : m < n => Precedes(s[m], s[n])

\* A member of a list.
In(s, r) == \E n \in 1 .. Len(s) : s[n] = r

\* The table.
LogRowsOK ==
    /\ rows \subseteq LogRow /\ IsFiniteSet(rows)
    /\ IdsDiffer(rows)

\* Times and ids are numbers, and no time is later than the last request's.
LEMMA RowNumbers ==
    \A x \in LogRow : x.createdAt \in Int /\ x.id \in Int /\ x.createdAt <= MaxRequests
<1>1. RowId \subseteq Int /\ Times \subseteq Int /\ \A t \in Times : t <= MaxRequests
  BY LogAssumption, MaxRequestsAssumption DEF Times
<1>2. \A x \in LogRow : x.createdAt \in Times /\ x.id \in RowId
  BY DEF LogRow
<1> QED BY <1>1, <1>2

\* Rows with distinct ids are ordered by their times and, where those are the same, by id.
LEMMA PrecedesOrders ==
    ASSUME NEW S, S \subseteq LogRow, IdsDiffer(S)
    PROVE  Ordered(S, {t \in S \X S : Precedes(t[1], t[2])})
<1>1. \A x \in S : x.createdAt \in Int /\ x.id \in Int
  BY RowNumbers
<1> QED BY <1>1 DEF Ordered, Precedes, IdsDiffer

\* findMany with a cursor, an order and a limit: the first rows after the cursor, in order, and all
\* of them when there are fewer than the limit.
LEMMA BatchIsFirst ==
    ASSUME LogRowsOK, NEW cursor, NEW size \in Nat
    PROVE  /\ Batch(cursor, size) \in Seq(LogRow)
           /\ Len(Batch(cursor, size)) <= size
           /\ InOrder(Batch(cursor, size))
           /\ \A n \in 1 .. Len(Batch(cursor, size)) : Precedes(cursor, Batch(cursor, size)[n])
           /\ \A r \in AfterCursor(cursor) :
                 \/ In(Batch(cursor, size), r)
                 \/ /\ Len(Batch(cursor, size)) = size
                    /\ \A n \in 1 .. Len(Batch(cursor, size)) : Precedes(Batch(cursor, size)[n], r)
<1>1. PICK S : S = AfterCursor(cursor)
  OBVIOUS
<1>2. S \subseteq rows /\ S \subseteq LogRow /\ \A r \in S : Precedes(cursor, r)
  BY <1>1 DEF AfterCursor, LogRowsOK
<1>3. IsFiniteSet(S) /\ Cardinality(S) \in Nat
  BY <1>2, FS_Subset, FS_CardinalityType DEF LogRowsOK
<1>4. PICK k \in Nat : k = IF Cardinality(S) < size THEN Cardinality(S) ELSE size
  BY <1>3
<1>5. k <= size /\ k <= Cardinality(S) /\ (k = Cardinality(S) \/ k = size)
  BY <1>3, <1>4
<1> DEFINE First(b) ==
              /\ \A m, n \in 1 .. k : m < n => Precedes(b[m], b[n])
              /\ \A r \in S \ {b[n] : n \in 1 .. k} : \A n \in 1 .. k : Precedes(b[n], r)
<1>6. \E b \in [1 .. k -> S] : First(b)
  <2>1. PICK R : R = {t \in S \X S : Precedes(t[1], t[2])}
    OBVIOUS
  <2>2. Ordered(S, R)
    BY <1>2, <2>1, PrecedesOrders DEF LogRowsOK, IdsDiffer
  <2>3. PICK b \in [1 .. k -> S] :
            /\ \A m, n \in 1 .. k : m < n => <<b[m], b[n]>> \in R
            /\ \A x \in S \ {b[n] : n \in 1 .. k} : \A n \in 1 .. k : <<b[n], x>> \in R
    BY <1>3, <1>5, <2>2, FirstOnesAreThere
  <2>4. First(b)
    BY <2>1, <2>3
  <2> QED BY <2>4
<1>7. PICK b : b = Batch(cursor, size)
  OBVIOUS
<1>8. b = CHOOSE b1 \in [1 .. k -> S] : First(b1)
  BY <1>1, <1>4, <1>7 DEF Batch
<1>9. b \in [1 .. k -> S] /\ First(b)
  <2> HIDE DEF First
  <2> QED BY <1>6, <1>8
<1>10. Len(b) = k /\ b \in Seq(LogRow)
  BY <1>2, <1>9
<1>11. \A r \in S : In(b, r) \/ (k = size /\ \A n \in 1 .. k : Precedes(b[n], r))
  <2> TAKE r \in S
  <2>1. CASE \E n \in 1 .. k : b[n] = r
    BY <2>1, <1>10 DEF In
  <2>2. CASE ~ \E n \in 1 .. k : b[n] = r
    <3>1. \A n \in 1 .. k : Precedes(b[n], r)
      BY <2>2, <1>9
    <3>2. k # Cardinality(S)
      <4> SUFFICES ASSUME k = Cardinality(S) PROVE FALSE
        OBVIOUS
      <4>1. \A m, n \in 1 .. k : m < n => b[m] # b[n]
        <5>1. \A x \in S : ~Precedes(x, x)
          BY <1>2, RowNumbers DEF Precedes
        <5> QED BY <5>1, <1>9
      <4> QED BY <2>2, <1>3, <1>9, <4>1, FullList
    <3> QED BY <3>1, <3>2, <1>5
  <2> QED BY <2>1, <2>2
<1>12. InOrder(b) /\ \A n \in 1 .. k : Precedes(cursor, b[n])
  BY <1>2, <1>9, <1>10 DEF InOrder
<1> HIDE DEF First
<1> QED BY <1>1, <1>5, <1>7, <1>10, <1>11, <1>12

\* A reading in service.
Reading(start, written, cursor) ==
    /\ start \subseteq rows
    /\ written \in Seq(LogRow)
    /\ InOrder(written)
    /\ \A r \in LogRow : Precedes(cursor, r) => \A n \in 1 .. Len(written) : Precedes(written[n], r)
    /\ \A r \in start : In(written, r) \/ Precedes(cursor, r)

\* A member of two lists joined is a member of one.
LEMMA InConcat ==
    ASSUME NEW T, NEW s \in Seq(T), NEW t \in Seq(T), NEW r
    PROVE  In(s \o t, r) <=> In(s, r) \/ In(t, r)
<1>1. Len(s) \in Nat /\ Len(t) \in Nat /\ Len(s \o t) = Len(s) + Len(t)
  OBVIOUS
<1>2. \A n \in 1 .. Len(s) : n \in 1 .. Len(s \o t) /\ (s \o t)[n] = s[n]
  BY <1>1
<1>3. \A n \in 1 .. Len(t) : Len(s) + n \in 1 .. Len(s \o t) /\ (s \o t)[Len(s) + n] = t[n]
  BY <1>1
<1>4. \A n \in 1 .. Len(s \o t) : n \in 1 .. Len(s) \/ (n - Len(s) \in 1 .. Len(t) /\ (s \o t)[n] = t[n - Len(s)])
  BY <1>1
<1> QED BY <1>2, <1>3, <1>4 DEF In

\* A reading with a batch more is in order, and what it lacks is after its cursor.
LEMMA Extended ==
    ASSUME LogRowsOK, NEW start, NEW written, NEW cursor, Reading(start, written, cursor),
           NEW b \in Seq(LogRow), InOrder(b), \A n \in 1 .. Len(b) : Precedes(cursor, b[n])
    PROVE  /\ written \o b \in Seq(LogRow)
           /\ Len(written \o b) = Len(written) + Len(b)
           /\ InOrder(written \o b)
           /\ \A r \in start : In(written \o b, r) \/ r \in AfterCursor(cursor)
<1>1. written \in Seq(LogRow) /\ Len(written) \in Nat /\ Len(b) \in Nat
  BY DEF Reading
<1>2. written \o b \in Seq(LogRow) /\ Len(written \o b) = Len(written) + Len(b)
  BY <1>1
<1>3. \A n \in 1 .. Len(written \o b) :
         \/ n \in 1 .. Len(written) /\ (written \o b)[n] = written[n]
         \/ n - Len(written) \in 1 .. Len(b) /\ (written \o b)[n] = b[n - Len(written)] /\ n > Len(written)
  BY <1>1, <1>2
<1>4. InOrder(written \o b)
  <2> SUFFICES ASSUME NEW m \in 1 .. Len(written \o b), NEW n \in 1 .. Len(written \o b), m < n
               PROVE  Precedes((written \o b)[m], (written \o b)[n])
    BY DEF InOrder
  <2>1. CASE n \in 1 .. Len(written) /\ (written \o b)[n] = written[n]
    <3>1. m \in 1 .. Len(written) /\ (written \o b)[m] = written[m]
      BY <2>1, <1>1, <1>3
    <3> QED BY <2>1, <3>1 DEF Reading, InOrder
  <2>2. CASE n - Len(written) \in 1 .. Len(b) /\ (written \o b)[n] = b[n - Len(written)] /\ n > Len(written)
    <3>1. CASE m \in 1 .. Len(written) /\ (written \o b)[m] = written[m]
      <4>1. b[n - Len(written)] \in LogRow /\ Precedes(cursor, b[n - Len(written)])
        BY <2>2
      <4> QED BY <2>2, <3>1, <4>1 DEF Reading
    <3>2. CASE m - Len(written) \in 1 .. Len(b) /\ (written \o b)[m] = b[m - Len(written)] /\ m > Len(written)
      <4>1. m - Len(written) < n - Len(written)
        BY <1>1, <1>2
      <4> QED BY <2>2, <3>2, <4>1 DEF InOrder
    <3> QED BY <3>1, <3>2, <1>3
  <2> QED BY <2>1, <2>2, <1>3
<1>5. \A r \in start : In(written \o b, r) \/ r \in AfterCursor(cursor)
  BY <1>1, InConcat DEF Reading, AfterCursor
<1> QED BY <1>2, <1>4, <1>5

\* A reading with a batch more goes on from the batch's last row.
LEMMA ReadFurther ==
    ASSUME LogRowsOK, NEW start, NEW written, NEW cursor, Reading(start, written, cursor),
           NEW b \in Seq(LogRow), InOrder(b), \A n \in 1 .. Len(b) : Precedes(cursor, b[n]),
           Len(b) > 0,
           \A r \in AfterCursor(cursor) : In(b, r) \/ \A n \in 1 .. Len(b) : Precedes(b[n], r),
           NEW next, next = [createdAt |-> Last(b).createdAt, id |-> Last(b).id]
    PROVE  Reading(start, written \o b, next)
<1>1. /\ written \o b \in Seq(LogRow)
      /\ Len(written \o b) = Len(written) + Len(b)
      /\ InOrder(written \o b)
      /\ \A r \in start : In(written \o b, r) \/ r \in AfterCursor(cursor)
  BY Extended
<1>2. written \in Seq(LogRow) /\ Len(written) \in Nat /\ Len(b) \in Nat
  BY DEF Reading
<1>3. PICK x : x = b[Len(b)] /\ x = Last(b)
  BY DEF Last
<1>4. x \in LogRow /\ Len(b) \in 1 .. Len(b)
  <2>1. Len(b) \in 1 .. Len(b)
    BY <1>2
  <2>2. \A n \in 1 .. Len(b) : b[n] \in LogRow
    OBVIOUS
  <2> QED BY <2>1, <2>2, <1>3
<1>5. \A r : Precedes(next, r) <=> Precedes(x, r)
  BY <1>3 DEF Precedes
<1>6. PICK w : w = written \o b
  OBVIOUS
<1>7. w[Len(w)] = x /\ Len(w) \in 1 .. Len(w)
  <2>1. Len(w) = Len(written) + Len(b) /\ Len(w) \in 1 .. Len(w)
    BY <1>1, <1>2, <1>4, <1>6
  <2>2. w[Len(written) + Len(b)] = b[Len(b)]
    BY <1>2, <1>4, <1>6
  <2> QED BY <2>1, <2>2, <1>3
<1>8. \A r \in LogRow : Precedes(next, r) => \A n \in 1 .. Len(w) : Precedes(w[n], r)
  <2> SUFFICES ASSUME NEW r \in LogRow, Precedes(x, r), NEW n \in 1 .. Len(w)
               PROVE  Precedes(w[n], r)
    BY <1>5
  <2>1. CASE n = Len(w)
    BY <2>1, <1>7
  <2>2. CASE n # Len(w)
    <3>1. n < Len(w) /\ w[n] \in LogRow
      BY <2>2, <1>1, <1>6
    <3>2. Precedes(w[n], x)
      BY <3>1, <1>1, <1>6, <1>7 DEF InOrder
    <3> QED BY <3>1, <3>2, <1>4, RowNumbers DEF Precedes
  <2> QED BY <2>1, <2>2
<1>9. \A r \in start : In(w, r) \/ Precedes(next, r)
  <2>1. \A r : In(w, r) <=> In(written, r) \/ In(b, r)
    BY <1>2, <1>6, InConcat
  <2> QED BY <1>1, <1>3, <1>4, <1>5, <1>6, <2>1
<1> QED BY <1>1, <1>6, <1>8, <1>9 DEF Reading

\* What a call of the log's holds.
LogHeld(c) ==
    /\ c.at \in {"log.enqueue", "log.direct"} => c.request \in audited
    /\ c.at \in {"log.page", "log.export"} =>
          /\ c = [at |-> c.at, cursor |-> c.cursor, written |-> c.written, start |-> c.start]
          /\ Reading(c.start, c.written, c.cursor)
          /\ c.at = "log.export" => Len(c.written) < RowCap

\* Every call holds what it needs.
LogCallsOK == CallsShape /\ \A p \in Proc : LogHeld(calls[p])

\* Requests and failures, counted.
LogBook ==
    /\ requests \in 0 .. MaxRequests
    /\ IsFiniteSet(rows)
    /\ \A j \in jobs : failures[j.request] >= j.attemptsMade

\* The inductive invariant of the activity log.
LogInv == LogTypeOK /\ LogBook /\ LogCallsOK /\ AuditIsKept /\ ReadingIsExact

\* The invariant holds at the start.
LEMMA LogInitInv == CallsInit /\ LogInit => LogInv
<1> SUFFICES ASSUME CallsInit, LogInit PROVE LogInv
  OBVIOUS
<1>1. rows \subseteq LogRow /\ IsFiniteSet(rows) /\ IdsDiffer(rows)
  BY InitialRowsAssumption DEF LogInit
<1>2. LogTypeOK
  BY <1>1, LogAssumption, MaxRequestsAssumption DEF LogInit, LogTypeOK, Times, Job
<1>3. LogBook
  BY <1>1, MaxRequestsAssumption DEF LogInit, CallsInit, LogBook
<1>4. LogCallsOK
  BY DEF CallsInit, LogCallsOK, LogHeld, CallsShape, Idle
<1>5. AuditIsKept /\ ReadingIsExact
  BY DEF LogInit, AuditIsKept, ReadingIsExact
<1> QED BY <1>2, <1>3, <1>4, <1>5 DEF LogInv

\* Growing tables keep what calls hold.
LEMMA LogHeldStays ==
    ASSUME NEW c, LogHeld(c), rows \subseteq rows', audited \subseteq audited'
    PROVE  LogHeld(c)'
BY DEF LogHeld, Reading

\* A step of one call, while the tables grow.
LEMMA LogCallStep ==
    ASSUME LogCallsOK, NEW p \in Proc, NEW c, calls' = [calls EXCEPT ![p] = c], LogHeld(c)',
           rows \subseteq rows', audited \subseteq audited'
    PROVE  LogCallsOK'
<1>1. CallsShape' /\ calls'[p] = c /\ \A q \in Proc \ {p} : calls'[q] = calls[q]
  BY OneCall DEF LogCallsOK
<1>2. ASSUME NEW q \in Proc PROVE LogHeld(calls[q])'
  <2>1. CASE q = p
    BY <1>1, <2>1
  <2>2. CASE q # p
    <3>1. LogHeld(calls[q]) /\ calls'[q] = calls[q]
      BY <1>1, <2>2 DEF LogCallsOK
    <3>2. PICK d : d = calls[q]
      OBVIOUS
    <3>3. LogHeld(d)'
      BY <3>1, <3>2, LogHeldStays
    <3> QED BY <3>1, <3>2, <3>3
  <2> QED BY <2>1, <2>2
<1> QED BY <1>1, <1>2 DEF LogCallsOK

\* A process without a call holds nothing.
LEMMA LogIdleHolds == LogHeld(Idle)'
BY DEF LogHeld, Idle

\* Calls of the other components are nothing to the log.
LEMMA LogRestStep ==
    ASSUME LogInv, UNCHANGED logVars, requests' \in 0 .. MaxRequests, LogCallsOK', AuditIsKept'
    PROVE  LogInv'
BY DEF LogInv, logVars, LogTypeOK, LogBook, AuditIsKept, ReadingIsExact

\* A request that is to be logged.
LEMMA AuditedRequestStep ==
    ASSUME LogInv, NEW p \in Proc, AuditedRequest(p)
    PROVE  LogInv'
<1>1. PICK c : c = [at |-> "log.enqueue", request |-> requests + 1]
  OBVIOUS
<1>2. calls' = [calls EXCEPT ![p] = c] /\ calls[p].at = "idle" /\ requests' = requests + 1
      /\ requests + 1 \in 1 .. MaxRequests /\ audited' = audited \cup {requests + 1}
      /\ UNCHANGED <<rows, jobs, clock, failures, dropped, reads>>
  BY <1>1, MaxRequestsAssumption DEF AuditedRequest, Begin, At, LogInv, LogBook
<1>3. LogTypeOK'
  BY <1>2 DEF LogInv, LogTypeOK
<1>4. LogBook'
  BY <1>2 DEF LogInv, LogBook
<1>5. LogCallsOK'
  <2>1. LogHeld(c)'
    BY <1>1, <1>2 DEF LogHeld
  <2> QED BY <1>2, <2>1, LogCallStep DEF LogInv
<1>6. AuditIsKept'
  <2>1. calls'[p] = c /\ \A q \in Proc \ {p} : calls'[q] = calls[q]
    BY <1>2, OneCall DEF LogInv, LogCallsOK
  <2>2. \A q \in Proc : calls[q].at \in {"log.enqueue", "log.direct"} => calls'[q] = calls[q]
    BY <1>2, <2>1
  <2> QED BY <1>1, <1>2, <2>1, <2>2 DEF LogInv, AuditIsKept
<1>7. ReadingIsExact'
  BY <1>2 DEF LogInv, ReadingIsExact
<1> QED BY <1>3, <1>4, <1>5, <1>6, <1>7 DEF LogInv

\* A row more.
LEMMA InsertedKeeps ==
    ASSUME LogInv, NEW r \in 1 .. MaxRequests, Inserted(r)
    PROVE  /\ rows' \subseteq LogRow /\ IsFiniteSet(rows') /\ IdsDiffer(rows')
           /\ clock' \in Times /\ rows \subseteq rows' /\ \E row \in rows' : row.request = r
<1>1. PICK i \in RowId \ {x.id : x \in rows}, t \in clock .. clock + 1 :
        t \in Times /\ rows' = rows \cup {[id |-> i, createdAt |-> t, request |-> r]} /\ clock' = t
  BY DEF Inserted
<1>2. PICK row : row = [id |-> i, createdAt |-> t, request |-> r]
  OBVIOUS
<1>3. row \in LogRow /\ row.request = r /\ rows' = rows \cup {row} /\ \A x \in rows : x.id # row.id
  BY <1>1, <1>2 DEF LogRow
<1>4. IsFiniteSet(rows')
  BY <1>3, FS_AddElement DEF LogInv, LogBook
<1> QED BY <1>1, <1>3, <1>4 DEF LogInv, LogTypeOK, IdsDiffer

\* A call that hands a request on, and ends or goes on handing it on.
LEMMA HandOnStep ==
    ASSUME LogInv, NEW p \in Proc, NEW c, calls' = [calls EXCEPT ![p] = c], UNCHANGED requests,
           calls[p].at \in {"log.enqueue", "log.direct"}, LogHeld(c)',
           rows \subseteq rows', jobs \subseteq jobs', dropped \subseteq dropped',
           failures' = failures, audited' = audited,
           \/ calls[p].request \in dropped'
           \/ \E row \in rows' : row.request = calls[p].request
           \/ \E j \in jobs' : j.request = calls[p].request
           \/ c.at \in {"log.enqueue", "log.direct"} /\ c.request = calls[p].request
    PROVE  LogCallsOK' /\ AuditIsKept'
<1>1. calls'[p] = c /\ \A q \in Proc \ {p} : calls'[q] = calls[q]
  BY OneCall DEF LogInv, LogCallsOK
<1>2. LogCallsOK'
  BY LogCallStep DEF LogInv
<1>3. ASSUME NEW r \in audited, NEW q \in Proc, calls[q].at \in {"log.enqueue", "log.direct"}, calls[q].request = r
      PROVE  \/ r \in dropped'
             \/ \E row \in rows' : row.request = r
             \/ \E j \in jobs' : j.request = r
             \/ \E x \in Proc : calls'[x].at \in {"log.enqueue", "log.direct"} /\ calls'[x].request = r
  BY <1>1, <1>3
<1>4. AuditIsKept'
  BY <1>1, <1>3 DEF LogInv, AuditIsKept
<1> QED BY <1>2, <1>4

\* enqueue: to the queue, or on to the direct insert.
LEMMA LogEnqueueStep ==
    ASSUME LogInv, NEW p \in Proc, LogEnqueue(p)
    PROVE  LogInv'
<1>1. PICK r : r = calls[p].request
  OBVIOUS
<1>2. calls[p].at = "log.enqueue" /\ r \in audited /\ r \in 1 .. MaxRequests
      /\ UNCHANGED <<rows, clock, audited, failures, dropped, reads, requests>>
  BY <1>1 DEF LogEnqueue, At, LogInv, LogCallsOK, LogHeld, LogTypeOK, Return, Goto
<1>3. PICK j : j = [request |-> r, attemptsMade |-> 0]
  OBVIOUS
<1>4. PICK d : d = [at |-> "log.direct", request |-> r]
  OBVIOUS
<1>5. \/ jobs' = jobs \cup {j} /\ calls' = [calls EXCEPT ![p] = Idle]
      \/ jobs' = jobs /\ calls' = [calls EXCEPT ![p] = d]
  BY <1>1, <1>3, <1>4 DEF LogEnqueue, Return, Goto
<1>6. j \in Job /\ failures[j.request] >= j.attemptsMade /\ j.request = r
  BY <1>2, <1>3, LogAssumption DEF Job, LogInv, LogTypeOK
<1>7. LogTypeOK' /\ LogBook' /\ ReadingIsExact'
  BY <1>2, <1>5, <1>6 DEF LogInv, LogTypeOK, LogBook, ReadingIsExact
<1>8. LogHeld(Idle)' /\ LogHeld(d)'
  BY <1>2, <1>4 DEF LogHeld, Idle
<1>9. LogCallsOK' /\ AuditIsKept'
  <2>1. CASE jobs' = jobs \cup {j} /\ calls' = [calls EXCEPT ![p] = Idle]
    BY <1>1, <1>2, <1>6, <1>8, <2>1, HandOnStep
  <2>2. CASE jobs' = jobs /\ calls' = [calls EXCEPT ![p] = d]
    BY <1>1, <1>2, <1>4, <1>8, <2>2, HandOnStep
  <2> QED BY <1>5, <2>1, <2>2
<1> QED BY <1>7, <1>9 DEF LogInv

\* The direct insert when the queue is not available.
LEMMA LogDirectStep ==
    ASSUME LogInv, NEW p \in Proc, LogDirect(p)
    PROVE  LogInv'
<1>1. PICK r : r = calls[p].request
  OBVIOUS
<1>2. calls[p].at = "log.direct" /\ r \in audited /\ r \in 1 .. MaxRequests
      /\ UNCHANGED <<jobs, audited, failures, reads, requests>> /\ calls' = [calls EXCEPT ![p] = Idle]
  BY <1>1 DEF LogDirect, At, LogInv, LogCallsOK, LogHeld, LogTypeOK, Return, Goto
<1>21. \/ Inserted(r) /\ UNCHANGED dropped
       \/ dropped' = dropped \cup {r} /\ UNCHANGED <<rows, clock>>
  BY <1>1 DEF LogDirect, Inserted
<1>3. /\ rows' \subseteq LogRow /\ IsFiniteSet(rows') /\ IdsDiffer(rows')
      /\ clock' \in Times /\ rows \subseteq rows'
      /\ (\E row \in rows' : row.request = r) \/ r \in dropped'
      /\ dropped \subseteq dropped' /\ dropped' \subseteq audited'
  <2>1. CASE Inserted(r) /\ UNCHANGED dropped
    BY <1>2, <2>1, InsertedKeeps DEF LogInv, LogTypeOK
  <2>2. CASE dropped' = dropped \cup {r} /\ UNCHANGED <<rows, clock>>
    BY <1>2, <2>2 DEF LogInv, LogTypeOK, LogBook
  <2> QED BY <1>21, <2>1, <2>2
<1>4. LogTypeOK' /\ LogBook' /\ ReadingIsExact'
  BY <1>2, <1>3 DEF LogInv, LogTypeOK, LogBook, ReadingIsExact
<1>5. LogCallsOK' /\ AuditIsKept'
  BY <1>1, <1>2, <1>3, HandOnStep, LogIdleHolds
<1> QED BY <1>4, <1>5 DEF LogInv

\* A call ends without having logged its request.
LEMMA LogAbortStep ==
    ASSUME LogInv, NEW p \in Proc, LogAbort(p)
    PROVE  LogInv'
<1>1. PICK r : r = calls[p].request
  OBVIOUS
<1>2. calls[p].at \in {"log.enqueue", "log.direct"} /\ r \in audited
      /\ UNCHANGED <<rows, jobs, clock, audited, failures, reads, requests>>
      /\ calls' = [calls EXCEPT ![p] = Idle] /\ dropped' = dropped \cup {r}
  BY <1>1 DEF LogAbort, LogInv, LogCallsOK, LogHeld, Return, Goto
<1>3. LogTypeOK' /\ LogBook' /\ ReadingIsExact'
  BY <1>2 DEF LogInv, LogTypeOK, LogBook, ReadingIsExact
<1>4. LogCallsOK' /\ AuditIsKept'
  BY <1>1, <1>2, HandOnStep, LogIdleHolds
<1> QED BY <1>3, <1>4 DEF LogInv

\* No call moves, the tables grow.
LEMMA LogCallsStay ==
    ASSUME LogCallsOK, UNCHANGED calls, rows \subseteq rows', audited \subseteq audited'
    PROVE  LogCallsOK'
<1>1. ASSUME NEW q \in Proc PROVE LogHeld(calls[q])'
  <2>1. PICK d : d = calls[q] /\ calls'[q] = d
    OBVIOUS
  <2>2. LogHeld(d)'
    BY <2>1, LogHeldStays DEF LogCallsOK
  <2> QED BY <2>1, <2>2
<1> QED BY <1>1 DEF LogCallsOK, CallsShape

\* The processor inserts the row of a job.
LEMMA JobPersistsStep ==
    ASSUME LogInv, NEW j \in jobs, JobPersists(j)
    PROVE  LogInv'
<1>1. j.request \in 1 .. MaxRequests
  BY DEF LogInv, LogTypeOK, Job
<1>2. Inserted(j.request) /\ jobs' \in {jobs \ {j}, jobs}
      /\ UNCHANGED <<audited, failures, dropped, reads, calls, requests>>
  BY DEF JobPersists, callVars
<1>3. /\ rows' \subseteq LogRow /\ IsFiniteSet(rows') /\ IdsDiffer(rows')
      /\ clock' \in Times /\ rows \subseteq rows' /\ \E row \in rows' : row.request = j.request
  BY <1>1, <1>2, InsertedKeeps
<1>4. LogTypeOK' /\ LogBook' /\ ReadingIsExact'
  BY <1>2, <1>3 DEF LogInv, LogTypeOK, LogBook, ReadingIsExact
<1>5. LogCallsOK'
  BY <1>2, <1>3, LogCallsStay DEF LogInv
<1>6. AuditIsKept'
  BY <1>2, <1>3 DEF LogInv, AuditIsKept
<1> QED BY <1>4, <1>5, <1>6 DEF LogInv

\* An attempt of a job fails, the last one drops it.
LEMMA JobFailsStep ==
    ASSUME LogInv, NEW j \in jobs, JobFails(j)
    PROVE  LogInv'
<1>1. PICK r : r = j.request
  OBVIOUS
<1>2. PICK n : n = j.attemptsMade
  OBVIOUS
<1>3. r \in 1 .. MaxRequests /\ n \in 0 .. Attempts - 1 /\ j = [request |-> r, attemptsMade |-> n]
      /\ failures[r] \in Nat /\ failures[r] >= n /\ Attempts \in Nat
  BY <1>1, <1>2, LogAssumption DEF LogInv, LogTypeOK, LogBook, Job
<1>4. /\ UNCHANGED <<rows, clock, audited, dropped, reads, calls, requests>>
      /\ jobs' = AfterError(j)
      /\ failures' = [failures EXCEPT ![r] = failures[r] + 1]
  BY <1>1 DEF JobFails, callVars
<1>5. PICK k : k = [request |-> r, attemptsMade |-> n + 1]
  OBVIOUS
<1>6. \/ n + 1 < Attempts /\ jobs' = (jobs \ {j}) \cup {k}
      \/ n + 1 >= Attempts /\ jobs' = jobs \ {j}
  BY <1>2, <1>3, <1>4, <1>5 DEF AfterError
<1>7. failures' \in [1 .. MaxRequests -> Nat] /\ failures'[r] = failures[r] + 1
      /\ \A s \in 1 .. MaxRequests : failures'[s] >= failures[s]
  BY <1>3, <1>4 DEF LogInv, LogTypeOK
<1>8. jobs' \subseteq Job /\ \A i \in jobs' : failures'[i.request] >= i.attemptsMade
  <2>1. \A i \in jobs : i \in Job /\ failures'[i.request] >= i.attemptsMade
    BY <1>7 DEF LogInv, LogTypeOK, LogBook, Job
  <2>2. n + 1 < Attempts => k \in Job /\ failures'[k.request] >= k.attemptsMade
    BY <1>3, <1>5, <1>7 DEF Job
  <2> QED BY <1>6, <2>1, <2>2
<1>9. LogTypeOK' /\ LogBook' /\ ReadingIsExact'
  BY <1>4, <1>7, <1>8 DEF LogInv, LogTypeOK, LogBook, ReadingIsExact
<1>10. LogCallsOK'
  BY <1>4, LogCallsStay DEF LogInv
<1>11. AuditIsKept'
  <2>1. failures'[r] >= Attempts \/ \E i \in jobs' : i.request = r
    BY <1>3, <1>5, <1>6, <1>7
  <2>2. \A i \in jobs : i.request # r => i \in jobs'
    BY <1>1, <1>6
  <2>3. \A s \in audited : failures[s] >= Attempts => failures'[s] >= Attempts
    BY <1>3, <1>7 DEF LogInv, LogTypeOK
  <2> QED BY <1>4, <2>1, <2>2, <2>3 DEF LogInv, AuditIsKept
<1> QED BY <1>9, <1>10, <1>11 DEF LogInv

\* A call that is neither handing on a request before nor after the step.
LEMMA AuditStays ==
    ASSUME LogInv, NEW p \in Proc, NEW c, calls' = [calls EXCEPT ![p] = c],
           calls[p].at \notin {"log.enqueue", "log.direct"},
           UNCHANGED <<rows, jobs, audited, failures, dropped>>
    PROVE  AuditIsKept'
<1>1. calls'[p] = c /\ \A q \in Proc \ {p} : calls'[q] = calls[q]
  BY OneCall DEF LogInv, LogCallsOK
<1>2. \A q \in Proc : calls[q].at \in {"log.enqueue", "log.direct"} => calls'[q] = calls[q]
  BY <1>1
<1> QED BY <1>1, <1>2 DEF LogInv, AuditIsKept

\* A listing or an export begins.
LEMMA ReadBeginStep ==
    ASSUME LogInv, NEW p \in Proc, NEW mode \in {"log.export", "log.page"}, ReadBegin(p, mode)
    PROVE  LogInv'
<1>1. PICK c : c = [at |-> mode, cursor |-> NoCursor, written |-> <<>>, start |-> rows]
  OBVIOUS
<1>2. calls' = [calls EXCEPT ![p] = c] /\ calls[p].at = "idle" /\ requests' \in 0 .. MaxRequests
      /\ UNCHANGED logVars
  BY <1>1, MaxRequestsAssumption DEF ReadBegin, Begin, At, LogInv, LogBook
<1>3. UNCHANGED <<rows, jobs, clock, audited, failures, dropped, reads>>
  BY <1>2 DEF logVars
<1>4. Reading(c.start, c.written, c.cursor)
  <2>1. c.written \in Seq(LogRow) /\ Len(c.written) = 0 /\ c.start = rows /\ c.cursor = NoCursor
    BY <1>1
  <2>2. \A r \in rows : Precedes(NoCursor, r)
    <3>1. \A r \in rows : r.createdAt \in Int /\ r.createdAt <= MaxRequests /\ MaxRequests \in Nat
      BY RowNumbers, MaxRequestsAssumption DEF LogInv, LogTypeOK
    <3> QED BY <3>1 DEF Precedes, NoCursor
  <2> QED BY <2>1, <2>2 DEF Reading, InOrder
<1>5. LogHeld(c)'
  BY <1>1, <1>3, <1>4, LogAssumption DEF LogHeld, Reading
<1>6. LogCallsOK'
  BY <1>2, <1>3, <1>5, LogCallStep DEF LogInv
<1>7. AuditIsKept'
  BY <1>2, <1>3, AuditStays
<1> QED BY <1>2, <1>6, <1>7, LogRestStep

\* A batch is written out.  The reading ends only when nothing is left, or at the cap.
LEMMA ReadOnStep ==
    ASSUME LogInv, NEW p \in Proc, calls[p].at \in {"log.page", "log.export"},
           NEW c, c = calls[p],
           NEW batch \in Seq(LogRow), InOrder(batch),
           \A n \in 1 .. Len(batch) : Precedes(c.cursor, batch[n]),
           NEW more \in BOOLEAN, ReadOn(p, batch, more),
           UNCHANGED <<rows, jobs, clock, audited, failures, dropped>>,
           more => /\ Len(batch) > 0
                   /\ \A r \in AfterCursor(c.cursor) :
                         In(batch, r) \/ \A n \in 1 .. Len(batch) : Precedes(batch[n], r)
                   /\ c.at = "log.export" => Len(c.written) + Len(batch) < RowCap,
           ~more => \/ \A r \in AfterCursor(c.cursor) : In(batch, r)
                    \/ c.at = "log.export" /\ Len(c.written) + Len(batch) = RowCap
    PROVE  LogInv'
<1>1. c = [at |-> c.at, cursor |-> c.cursor, written |-> c.written, start |-> c.start]
      /\ Reading(c.start, c.written, c.cursor)
  BY DEF LogInv, LogCallsOK, LogHeld
<1>2. LogRowsOK
  BY DEF LogInv, LogTypeOK, LogBook, LogRowsOK
<1>3. PICK w : w = c.written \o batch
  OBVIOUS
<1>4. /\ w \in Seq(LogRow) /\ Len(w) = Len(c.written) + Len(batch) /\ InOrder(w)
      /\ \A r \in c.start : In(w, r) \/ r \in AfterCursor(c.cursor)
  <2>1. PICK s : s = c.start
    OBVIOUS
  <2>2. PICK v : v = c.written
    OBVIOUS
  <2>3. PICK k : k = c.cursor
    OBVIOUS
  <2> QED BY <1>1, <1>2, <1>3, <2>1, <2>2, <2>3, Extended
<1>5. CASE more
  <2>1. PICK k : k = [createdAt |-> Last(batch).createdAt, id |-> Last(batch).id]
    OBVIOUS
  <2>2. PICK d : d = [at |-> c.at, written |-> w, start |-> c.start, cursor |-> k]
    OBVIOUS
  <2>3. calls' = [calls EXCEPT ![p] = d] /\ requests' = requests /\ reads' = reads
    BY <1>3, <1>5, <2>1, <2>2 DEF ReadOn, Goto
  <2>4. Reading(c.start, w, k)
    <3>1. PICK s : s = c.start
      OBVIOUS
    <3>2. PICK v : v = c.written
      OBVIOUS
    <3>3. PICK x : x = c.cursor
      OBVIOUS
    <3>4. Reading(s, v \o batch, k)
      BY <1>1, <1>2, <1>5, <2>1, <3>1, <3>2, <3>3, ReadFurther
    <3> QED BY <1>3, <3>1, <3>2, <3>4
  <2>5. LogHeld(d)'
    BY <1>4, <1>5, <2>2, <2>4 DEF LogHeld, Reading
  <2>6. LogCallsOK' /\ AuditIsKept'
    BY <2>3, <2>5, LogCallStep, AuditStays DEF LogInv
  <2>7. UNCHANGED logVars
    BY <2>3 DEF logVars
  <2>8. requests' \in 0 .. MaxRequests
    BY <2>3 DEF LogInv, LogBook
  <2> QED BY <2>6, <2>7, <2>8, LogRestStep
<1>6. CASE ~more
  <2>1. PICK x : x = [start |-> c.start, written |-> w,
                      capped |-> c.at = "log.export" /\ Len(w) = RowCap]
    OBVIOUS
  <2>2. calls' = [calls EXCEPT ![p] = Idle] /\ requests' = requests /\ reads' = reads \cup {x}
    BY <1>3, <1>6, <2>1 DEF ReadOn, Goto, Return
  <2>3. x.start \subseteq LogRow /\ x.written \in Seq(LogRow) /\ x.capped \in BOOLEAN
    BY <1>1, <1>4, <2>1 DEF Reading, LogInv, LogTypeOK
  <2>4. \A m, n \in DOMAIN x.written : m < n => Precedes(x.written[m], x.written[n])
    BY <1>4, <2>1 DEF InOrder
  <2>5. x.capped \/ x.start \subseteq {x.written[n] : n \in DOMAIN x.written}
    <3>1. CASE \A r \in AfterCursor(c.cursor) : In(batch, r)
      <4>1. \A r \in c.start : In(w, r)
        BY <1>1, <1>3, <1>4, <3>1, InConcat DEF Reading
      <4> QED BY <1>4, <2>1, <4>1 DEF In
    <3>2. CASE c.at = "log.export" /\ Len(c.written) + Len(batch) = RowCap
      BY <1>4, <2>1, <3>2
    <3> QED BY <1>6, <3>1, <3>2
  <2>6. LogTypeOK' /\ LogBook'
    BY <2>2, <2>3 DEF LogInv, LogTypeOK, LogBook
  <2>7. ReadingIsExact'
    <3>1. \A r \in reads' : r \in reads \/ r = x
      BY <2>2
    <3>2. \A r \in reads :
             /\ \A m, n \in DOMAIN r.written : m < n => Precedes(r.written[m], r.written[n])
             /\ r.capped \/ r.start \subseteq {r.written[n] : n \in DOMAIN r.written}
      BY DEF LogInv, ReadingIsExact
    <3> QED BY <3>1, <3>2, <2>4, <2>5 DEF ReadingIsExact
  <2>8. LogCallsOK' /\ AuditIsKept'
    BY <2>2, LogIdleHolds, LogCallStep, AuditStays DEF LogInv
  <2> QED BY <2>6, <2>7, <2>8 DEF LogInv
<1> QED BY <1>5, <1>6

\* exportCsv: a batch of the export.
LEMMA LogExportStep ==
    ASSUME LogInv, NEW p \in Proc, LogExport(p)
    PROVE  LogInv'
<1>1. PICK c : c = calls[p]
  OBVIOUS
<1>2. c.at = "log.export" /\ Reading(c.start, c.written, c.cursor) /\ Len(c.written) < RowCap
      /\ UNCHANGED <<rows, jobs, clock, audited, failures, dropped>>
  BY <1>1 DEF LogExport, At, LogInv, LogCallsOK, LogHeld
<1>3. PICK left : left = RowCap - Len(c.written)
  OBVIOUS
<1>4. left \in Nat \ {0} /\ Len(c.written) \in Nat /\ RowCap \in Nat /\ BatchSize \in Nat \ {0}
  BY <1>2, <1>3, LogAssumption DEF Reading
<1>5. PICK size : size = IF BatchSize < left THEN BatchSize ELSE left
  OBVIOUS
<1>6. size \in Nat \ {0} /\ size <= left
  BY <1>4, <1>5
<1>7. LogRowsOK
  BY DEF LogInv, LogTypeOK, LogBook, LogRowsOK
<1>8. PICK cursor : cursor = c.cursor
  OBVIOUS
<1>9. PICK batch : batch = Batch(cursor, size)
  OBVIOUS
<1>10. /\ batch \in Seq(LogRow) /\ Len(batch) <= size /\ InOrder(batch)
       /\ \A n \in 1 .. Len(batch) : Precedes(cursor, batch[n])
       /\ \A r \in AfterCursor(cursor) :
             \/ In(batch, r)
             \/ Len(batch) = size /\ \A n \in 1 .. Len(batch) : Precedes(batch[n], r)
  BY <1>6, <1>7, <1>9, BatchIsFirst
<1>11. PICK more \in BOOLEAN : more <=> Len(batch) = size /\ size < left
  OBVIOUS
<1>12. ReadOn(p, batch, more)
  <2>1. ReadOn(p, Batch(c.cursor, size), Len(Batch(c.cursor, size)) = size /\ size < left)
    BY <1>1, <1>3, <1>5 DEF LogExport
  <2> QED BY <2>1, <1>8, <1>9, <1>11 DEF ReadOn
<1>13. more => /\ Len(batch) > 0
               /\ \A r \in AfterCursor(cursor) :
                     In(batch, r) \/ \A n \in 1 .. Len(batch) : Precedes(batch[n], r)
               /\ Len(c.written) + Len(batch) < RowCap
  BY <1>3, <1>4, <1>6, <1>10, <1>11
<1>14. ~more => \/ \A r \in AfterCursor(cursor) : In(batch, r)
                \/ Len(c.written) + Len(batch) = RowCap
  BY <1>3, <1>4, <1>6, <1>10, <1>11
<1> QED BY <1>1, <1>2, <1>8, <1>10, <1>12, <1>13, <1>14, ReadOnStep

\* A page of the listing, one row more read than shown.
LEMMA LogPageStep ==
    ASSUME LogInv, NEW p \in Proc, LogPage(p)
    PROVE  LogInv'
<1>1. PICK c : c = calls[p]
  OBVIOUS
<1>2. c.at = "log.page" /\ Reading(c.start, c.written, c.cursor)
      /\ UNCHANGED <<rows, jobs, clock, audited, failures, dropped>>
  BY <1>1 DEF LogPage, At, LogInv, LogCallsOK, LogHeld
<1>3. PICK cursor : cursor = c.cursor
  OBVIOUS
<1>4. PICK found : found = Batch(cursor, BatchSize + 1)
  OBVIOUS
<1>5. BatchSize \in Nat \ {0} /\ BatchSize + 1 \in Nat
  BY LogAssumption
<1>6. LogRowsOK
  BY DEF LogInv, LogTypeOK, LogBook, LogRowsOK
<1>7. /\ found \in Seq(LogRow) /\ Len(found) <= BatchSize + 1 /\ InOrder(found)
      /\ \A n \in 1 .. Len(found) : Precedes(cursor, found[n])
      /\ \A r \in AfterCursor(cursor) :
            \/ In(found, r)
            \/ Len(found) = BatchSize + 1 /\ \A n \in 1 .. Len(found) : Precedes(found[n], r)
  BY <1>4, <1>5, <1>6, BatchIsFirst
<1>8. PICK more \in BOOLEAN : more <=> Len(found) > BatchSize
  OBVIOUS
<1>9. PICK batch : batch = IF more THEN Front(found) ELSE found
  OBVIOUS
<1>10. ReadOn(p, batch, more)
  <2>1. ReadOn(p, IF Len(Batch(c.cursor, BatchSize + 1)) > BatchSize THEN Front(Batch(c.cursor, BatchSize + 1))
                  ELSE Batch(c.cursor, BatchSize + 1), Len(Batch(c.cursor, BatchSize + 1)) > BatchSize)
    BY <1>1 DEF LogPage
  <2> QED BY <2>1, <1>3, <1>4, <1>8, <1>9 DEF ReadOn
<1>11. CASE more
  <2>1. batch = SubSeq(found, 1, Len(found) - 1) /\ Len(found) = BatchSize + 1 /\ Len(found) \in Nat
    BY <1>5, <1>7, <1>8, <1>9, <1>11 DEF Front
  <2>2. batch \in Seq(LogRow) /\ Len(batch) = BatchSize /\ \A n \in 1 .. BatchSize : batch[n] = found[n]
    BY <1>5, <1>7, <2>1
  <2>3. \A n \in 1 .. BatchSize : n \in 1 .. Len(found)
    BY <1>5, <2>1
  <2>4. InOrder(batch) /\ \A n \in 1 .. Len(batch) : Precedes(cursor, batch[n])
    BY <1>7, <2>2, <2>3 DEF InOrder
  <2>5. \A r \in AfterCursor(cursor) : In(batch, r) \/ \A n \in 1 .. Len(batch) : Precedes(batch[n], r)
    <3> SUFFICES ASSUME NEW r \in AfterCursor(cursor), ~In(batch, r), NEW n \in 1 .. Len(batch)
                 PROVE  Precedes(batch[n], r)
      OBVIOUS
    <3>1. n \in 1 .. BatchSize /\ batch[n] = found[n] /\ n \in 1 .. Len(found)
      BY <2>2, <2>3
    <3>2. CASE In(found, r)
      <4>1. PICK m \in 1 .. Len(found) : found[m] = r
        BY <3>2 DEF In
      <4>2. m = BatchSize + 1
        BY <1>5, <2>1, <2>2, <4>1 DEF In
      <4>3. n < m
        BY <1>5, <3>1, <4>2
      <4> QED BY <1>7, <3>1, <4>1, <4>3 DEF InOrder
    <3>3. CASE ~In(found, r)
      BY <1>7, <3>1, <3>3
    <3> QED BY <3>2, <3>3
  <2>6. Len(batch) > 0
    BY <1>5, <2>2
  <2>7. batch \in Seq(LogRow) /\ calls[p].at \in {"log.page", "log.export"} /\ c.at # "log.export"
    BY <1>1, <1>2, <2>2
  <2>8. \A n \in 1 .. Len(batch) : Precedes(c.cursor, batch[n])
    BY <1>3, <2>4
  <2>9. \A r \in AfterCursor(c.cursor) : In(batch, r) \/ \A n \in 1 .. Len(batch) : Precedes(batch[n], r)
    BY <1>3, <2>5
  <2> QED BY <1>1, <1>2, <1>10, <1>11, <2>4, <2>6, <2>7, <2>8, <2>9, ReadOnStep
<1>12. CASE ~more
  <2>1. batch = found /\ \A r \in AfterCursor(cursor) : In(batch, r)
    BY <1>5, <1>7, <1>8, <1>9, <1>12
  <2> QED BY <1>1, <1>2, <1>3, <1>7, <1>10, <1>12, <2>1, ReadOnStep
<1> QED BY <1>11, <1>12

\* Every step keeps the invariant.
LEMMA LogInvStep == LogInv /\ [LogNext]_<<callVars, logVars>> => LogInv'
<1> SUFFICES ASSUME LogInv, [LogNext]_<<callVars, logVars>> PROVE LogInv'
  OBVIOUS
<1>1. CASE UNCHANGED <<callVars, logVars>>
  <2>1. UNCHANGED logVars /\ UNCHANGED calls /\ UNCHANGED requests
    BY <1>1 DEF callVars
  <2>2. UNCHANGED <<rows, jobs, audited, failures, dropped>>
    BY <2>1 DEF logVars
  <2>3. LogCallsOK' /\ requests' \in 0 .. MaxRequests
    BY <2>1, <2>2, LogCallsStay DEF LogInv, LogBook
  <2>4. AuditIsKept'
    BY <2>1, <2>2 DEF LogInv, AuditIsKept
  <2> QED BY <2>1, <2>3, <2>4, LogRestStep
<1>2. CASE LogNext
  BY <1>2, AuditedRequestStep, ReadBeginStep, LogEnqueueStep, LogDirectStep, LogAbortStep,
     LogExportStep, LogPageStep, JobPersistsStep, JobFailsStep
  DEF LogNext, LogRequest, LogStep
<1> QED BY <1>1, <1>2

\* An audited request is on its way to the log or in it, unless every attempt of its job has failed or
\* it was dropped before there was a job.
THEOREM AuditCorrect == LogSpec => []AuditIsKept
<1>1. LogInv => AuditIsKept
  BY DEF LogInv
<1> QED BY <1>1, LogInitInv, LogInvStep, PTL DEF LogSpec

\* A reading that ends has every row that was there when it began, in order and none twice, unless
\* it ended at the cap.
THEOREM ReadingCorrect == LogSpec => []ReadingIsExact
<1>1. LogInv => ReadingIsExact
  BY DEF LogInv
<1> QED BY <1>1, LogInitInv, LogInvStep, PTL DEF LogSpec

\* The log's state is of its type, and ids are of one row each.
THEOREM LogTypeCorrect == LogSpec => []LogTypeOK
<1>1. LogInv => LogTypeOK
  BY DEF LogInv
<1> QED BY <1>1, LogInitInv, LogInvStep, PTL DEF LogSpec

-------------------------------------------------------------------------------
(* Tickets                                                                   *)

\* What a call on tickets holds.
TicketHeld(c) ==
    /\ c.at = "ticket.insert" => c.user \in Customer
    /\ c.at \in {"ticket.emit", "message.debounce", "ticket.write", "ticket.read", "message.commit"} =>
          c.id \in Ticket /\ Opened(c.id)
    /\ c.at = "ticket.write" => c.dto \in TicketPatch
    /\ c.at = "message.commit" =>
          /\ c.author \in Customer \cup Staff
          /\ c.next \in TicketStatus
          /\ c.next # c.status => c.next \notin Ended

\* Every call holds what it needs.
TicketCallsOK == CallsShape /\ \A p \in Proc : TicketHeld(calls[p])

\* The inductive invariant of the tickets.
TicketInv == TicketTypeOK /\ TicketCallsOK /\ NewsIsOnItsWay

\* The invariant holds at the start.
LEMMA TicketInitInv == CallsInit /\ TicketInit => TicketInv
<1> SUFFICES ASSUME CallsInit, TicketInit PROVE TicketInv
  OBVIOUS
<1>1. TicketTypeOK
  BY TicketAssumption DEF TicketInit, TicketTypeOK, Opened
<1>2. TicketCallsOK
  BY DEF CallsInit, TicketCallsOK, TicketHeld, CallsShape, Idle
<1>3. NewsIsOnItsWay
  BY DEF TicketInit, NewsIsOnItsWay, MessagesOf
<1> QED BY <1>1, <1>2, <1>3 DEF TicketInv

\* What a call holds of tickets stays true while tickets stay.
LEMMA TicketHeldStays ==
    ASSUME NEW c, TicketHeld(c), \A t \in Ticket : Opened(t) => Opened(t)'
    PROVE  TicketHeld(c)'
BY DEF TicketHeld

\* A step of one call, while tickets stay.
LEMMA TicketCallStep ==
    ASSUME TicketCallsOK, NEW p \in Proc, NEW c, calls' = [calls EXCEPT ![p] = c], TicketHeld(c)',
           \A t \in Ticket : Opened(t) => Opened(t)'
    PROVE  TicketCallsOK'
<1>1. CallsShape' /\ calls'[p] = c /\ \A q \in Proc \ {p} : calls'[q] = calls[q]
  BY OneCall DEF TicketCallsOK
<1>2. ASSUME NEW q \in Proc PROVE TicketHeld(calls[q])'
  <2>1. CASE q = p
    BY <1>1, <2>1
  <2>2. CASE q # p
    <3>1. PICK d : d = calls[q] /\ calls'[q] = d
      BY <1>1, <2>2
    <3>2. TicketHeld(d)'
      BY <3>1, TicketHeldStays DEF TicketCallsOK
    <3> QED BY <3>1, <3>2
  <2> QED BY <2>1, <2>2
<1> QED BY <1>1, <1>2 DEF TicketCallsOK

\* A process without a call holds nothing.
LEMMA TicketIdleHolds == TicketHeld(Idle)'
BY DEF TicketHeld, Idle

\* What becomes of the news: a ticket with a message more has a count to come, and a call that was
\* to count has counted or handed the count on.
LEMMA NewsStep ==
    ASSUME TicketInv, NEW p \in Proc, NEW c, calls' = [calls EXCEPT ![p] = c],
           \A t \in Ticket :
              (\E n \in MessagesOf(t)' : n > news'[t] /\ n > missed'[t]) =>
                 \/ t \in timers'
                 \/ c.at \in CountSteps /\ c.id = t
                 \/ /\ \E n \in MessagesOf(t) : n > news[t] /\ n > missed[t]
                    /\ t \notin timers
                    /\ ~(calls[p].at \in CountSteps /\ calls[p].id = t)
    PROVE  NewsIsOnItsWay'
<1>1. calls'[p] = c /\ \A q \in Proc \ {p} : calls'[q] = calls[q]
  BY OneCall DEF TicketInv, TicketCallsOK
<1> SUFFICES ASSUME NEW t \in Ticket, \E n \in MessagesOf(t)' : n > news'[t] /\ n > missed'[t]
             PROVE  \/ t \in timers'
                    \/ \E q \in Proc : calls'[q].at \in CountSteps /\ calls'[q].id = t
  BY DEF NewsIsOnItsWay
<1>2. CASE t \in timers'
  BY <1>2
<1>3. CASE c.at \in CountSteps /\ c.id = t
  BY <1>1, <1>3
<1>4. CASE /\ \E n \in MessagesOf(t) : n > news[t] /\ n > missed[t]
           /\ t \notin timers
           /\ ~(calls[p].at \in CountSteps /\ calls[p].id = t)
  BY <1>1, <1>4 DEF TicketInv, NewsIsOnItsWay
<1> QED BY <1>2, <1>3, <1>4

\* A step that leaves the messages, the timers and the news alone, by a call that was not to count.
LEMMA QuietStep ==
    ASSUME TicketInv, NEW p \in Proc, NEW c, calls' = [calls EXCEPT ![p] = c],
           calls[p].at \notin CountSteps,
           UNCHANGED <<messages, timers, news, missed>>
    PROVE  NewsIsOnItsWay'
<1>1. calls'[p] = c /\ \A q \in Proc \ {p} : calls'[q] = calls[q]
  BY OneCall DEF TicketInv, TicketCallsOK
<1>2. \A q \in Proc : calls[q].at \in CountSteps => calls'[q] = calls[q]
  BY <1>1
<1>3. \A t \in Ticket : MessagesOf(t)' = MessagesOf(t)
  BY DEF MessagesOf
<1> QED BY <1>2, <1>3 DEF TicketInv, NewsIsOnItsWay

\* A handler that only begins.
LEMMA TicketBegin ==
    ASSUME TicketInv, NEW p \in Proc, NEW c, Begin(p, c), UNCHANGED ticketVars, TicketHeld(c)'
    PROVE  TicketInv'
<1>1. calls' = [calls EXCEPT ![p] = c] /\ calls[p].at = "idle"
      /\ UNCHANGED <<tickets, messages, timers, news, missed>>
  BY DEF Begin, At, ticketVars
<1>2. TicketTypeOK'
  BY <1>1 DEF TicketInv, TicketTypeOK, Opened
<1>3. TicketCallsOK'
  BY <1>1, TicketCallStep DEF TicketInv, Opened
<1>4. NewsIsOnItsWay'
  <2>1. calls[p].at \notin CountSteps
    BY <1>1 DEF CountSteps
  <2> QED BY <1>1, <2>1, QuietStep
<1> QED BY <1>2, <1>3, <1>4 DEF TicketInv

\* createTicket begins.
LEMMA TicketCreateStep ==
    ASSUME TicketInv, NEW p \in Proc, NEW u \in Customer, TicketCreate(p, u)
    PROVE  TicketInv'
<1>1. PICK c : c = [at |-> "ticket.insert", user |-> u]
  OBVIOUS
<1>2. TicketHeld(c)'
  BY <1>1 DEF TicketHeld
<1> QED BY <1>1, <1>2, TicketBegin DEF TicketCreate

\* updateTicket begins.
LEMMA TicketUpdateStep ==
    ASSUME TicketInv, NEW p \in Proc, NEW t \in Ticket, NEW patch \in TicketPatches,
           TicketUpdate(p, t, patch)
    PROVE  TicketInv'
<1>1. PICK c : c = [at |-> "ticket.write", id |-> t, dto |-> patch]
  OBVIOUS
<1>2. TicketHeld(c)'
  BY <1>1, TicketPatchAssumption DEF TicketHeld, TicketUpdate, Opened, ticketVars
<1> QED BY <1>1, <1>2, TicketBegin DEF TicketUpdate

\* resolveTicket begins.
LEMMA TicketResolveStep ==
    ASSUME TicketInv, NEW p \in Proc, NEW t \in Ticket, TicketResolve(p, t)
    PROVE  TicketInv'
<1>1. PICK c : c = [at |-> "ticket.write", id |-> t, dto |-> [status |-> "RESOLVED"]]
  OBVIOUS
<1>2. [status |-> "RESOLVED"] \in TicketPatch
  BY DEF TicketPatch, TicketStatus
<1>3. TicketHeld(c)'
  BY <1>1, <1>2 DEF TicketHeld, TicketResolve, Opened, ticketVars
<1> QED BY <1>1, <1>3, TicketBegin DEF TicketResolve

\* A ticket is read.
LEMMA TicketReadStep ==
    ASSUME TicketInv, NEW p \in Proc, NEW t \in Ticket, TicketRead(p, t)
    PROVE  TicketInv'
<1>1. PICK c : c = [at |-> "ticket.read", id |-> t]
  OBVIOUS
<1>2. TicketHeld(c)'
  BY <1>1 DEF TicketHeld, TicketRead, Opened, ticketVars
<1> QED BY <1>1, <1>2, TicketBegin DEF TicketRead

\* sendMessage reads the ticket and decides on the status to come.
LEMMA MessageSendStep ==
    ASSUME TicketInv, NEW p \in Proc, NEW t \in Ticket, NEW u \in Customer \cup Staff,
           MessageSend(p, t, u)
    PROVE  TicketInv'
<1>1. PICK s : s = tickets[t].status
  OBVIOUS
<1>2. PICK next : next = IF u \in Staff THEN AfterStaff(s) ELSE AfterCustomer(s)
  OBVIOUS
<1>3. PICK c : c = [at |-> "message.commit", id |-> t, author |-> u, status |-> s, next |-> next]
  OBVIOUS
<1>4. Opened(t) /\ s \in TicketStatus
  BY <1>1 DEF MessageSend, MayRead, Opened, TicketInv, TicketTypeOK, TicketRow
<1>5. next \in TicketStatus /\ (next # s => next \notin Ended)
  BY <1>2, <1>4 DEF AfterStaff, AfterCustomer, TicketStatus, Ended
<1>6. TicketHeld(c)'
  BY <1>3, <1>4, <1>5 DEF TicketHeld, MessageSend, Opened, ticketVars
<1>7. Begin(p, c) /\ UNCHANGED ticketVars
  BY <1>1, <1>2, <1>3 DEF MessageSend, Begin
<1> QED BY <1>6, <1>7, TicketBegin

\* A stored ticket is not the absent one.
LEMMA NoTicketIsNoRow == NoTicket \notin TicketRow
<1>1. \A r \in TicketRow : r.status \in TicketStatus
  BY DEF TicketRow
<1> QED BY <1>1 DEF NoTicket, TicketStatus

\* createTicket inserts the ticket and its first message.
LEMMA TicketInsertStep ==
    ASSUME TicketInv, NEW p \in Proc, TicketInsert(p)
    PROVE  TicketInv'
<1>1. PICK u : u = calls[p].user
  OBVIOUS
<1>2. PICK t \in Ticket :
        /\ ~Opened(t)
        /\ tickets' = [tickets EXCEPT ![t] =
               [user |-> u, status |-> "OPEN", closed |-> FALSE, assignee |-> "none", readUpTo |-> 0]]
        /\ messages' = Append(messages, [ticket |-> t, author |-> u, isStaff |-> FALSE])
        /\ calls' = [calls EXCEPT ![p] = [at |-> "ticket.emit", id |-> t]]
  BY <1>1 DEF TicketInsert, Goto
<1>3. calls[p].at = "ticket.insert" /\ u \in Customer /\ Len(messages) < MaxMessages
      /\ UNCHANGED <<timers, news, missed>>
  BY <1>1 DEF TicketInsert, At, TicketInv, TicketCallsOK, TicketHeld
<1>4. PICK row : row = [user |-> u, status |-> "OPEN", closed |-> FALSE, assignee |-> "none", readUpTo |-> 0]
  OBVIOUS
<1>5. PICK m : m = [ticket |-> t, author |-> u, isStaff |-> FALSE]
  OBVIOUS
<1>6. PICK c : c = [at |-> "ticket.emit", id |-> t]
  OBVIOUS
<1>7. row \in TicketRow /\ row # NoTicket /\ row.status \notin Ended
  <2>1. row \in TicketRow /\ row.status \notin Ended
    BY <1>3, <1>4, TicketAssumption DEF TicketRow, TicketStatus, Ended
  <2> QED BY <2>1, NoTicketIsNoRow
<1>8. m \in TicketMessage
  BY <1>3, <1>5 DEF TicketMessage
<1>9. /\ tickets' = [tickets EXCEPT ![t] = row] /\ messages' = Append(messages, m)
      /\ calls' = [calls EXCEPT ![p] = c]
  BY <1>2, <1>4, <1>5, <1>6
<1>10. messages \in Seq(TicketMessage) /\ Len(messages) \in Nat /\ Len(messages') = Len(messages) + 1
       /\ messages' \in Seq(TicketMessage) /\ messages'[Len(messages) + 1] = m
       /\ \A n \in 1 .. Len(messages) : messages'[n] = messages[n]
  BY <1>8, <1>9 DEF TicketInv, TicketTypeOK
<1>11. TicketTypeOK'
  <2>1. tickets' \in [Ticket -> TicketRow \cup {NoTicket}]
    BY <1>7, <1>9 DEF TicketInv, TicketTypeOK
  <2>2. \A x \in Ticket : (Opened(x)' /\ tickets'[x].status \in Ended) => tickets'[x].closed
    BY <1>7, <1>9 DEF TicketInv, TicketTypeOK, Opened
  <2>3. Len(messages') <= MaxMessages
    BY <1>3, <1>10, TicketAssumption
  <2> QED BY <1>3, <1>10, <2>1, <2>2, <2>3 DEF TicketInv, TicketTypeOK
<1>12. \A x \in Ticket : Opened(x) => Opened(x)'
  BY <1>7, <1>9 DEF Opened, TicketInv, TicketTypeOK
<1>13. TicketCallsOK'
  <2>1. TicketHeld(c)'
    BY <1>6, <1>7, <1>9 DEF TicketHeld, Opened, TicketInv, TicketTypeOK
  <2> QED BY <1>9, <1>12, <2>1, TicketCallStep DEF TicketInv
<1>14. NewsIsOnItsWay'
  <2>1. \A x \in Ticket \ {t} : MessagesOf(x)' \subseteq MessagesOf(x)
    <3> SUFFICES ASSUME NEW x \in Ticket \ {t}, NEW n \in 1 .. Len(messages'), messages'[n].ticket = x
                 PROVE  n \in 1 .. Len(messages) /\ messages[n].ticket = x
      BY <1>10 DEF MessagesOf
    <3>1. n # Len(messages) + 1
      BY <1>5, <1>10
    <3> QED BY <1>10, <3>1
  <2>2. \A x \in Ticket :
              (\E n \in MessagesOf(x)' : n > news'[x] /\ n > missed'[x]) =>
                 \/ x \in timers'
                 \/ c.at \in CountSteps /\ c.id = x
                 \/ /\ \E n \in MessagesOf(x) : n > news[x] /\ n > missed[x]
                    /\ x \notin timers
                    /\ ~(calls[p].at \in CountSteps /\ calls[p].id = x)
    BY <1>3, <1>6, <1>9, <2>1 DEF CountSteps
  <2> QED BY <1>9, <2>2, NewsStep
<1> QED BY <1>11, <1>13, <1>14 DEF TicketInv

\* createTicket tells the staff.
LEMMA TicketEmitStep ==
    ASSUME TicketInv, NEW p \in Proc, TicketEmit(p)
    PROVE  TicketInv'
<1>1. PICK t : t = calls[p].id
  OBVIOUS
<1>2. calls[p].at = "ticket.emit" /\ t \in Ticket /\ news' = [news EXCEPT ![t] = Len(messages)]
      /\ calls' = [calls EXCEPT ![p] = Idle] /\ UNCHANGED <<tickets, messages, timers, missed>>
  BY <1>1 DEF TicketEmit, At, Return, Goto, TicketInv, TicketCallsOK, TicketHeld
<1>3. TicketTypeOK'
  BY <1>2 DEF TicketInv, TicketTypeOK, Opened
<1>4. TicketCallsOK'
  BY <1>2, TicketIdleHolds, TicketCallStep DEF TicketInv, Opened
<1>5. NewsIsOnItsWay'
  <2>1. \A x \in Ticket : MessagesOf(x)' = MessagesOf(x)
    BY <1>2 DEF MessagesOf
  <2>2. ~ \E n \in MessagesOf(t)' : n > news'[t] /\ n > missed'[t]
    BY <1>2 DEF MessagesOf, TicketInv, TicketTypeOK
  <2>3. \A x \in Ticket : x # t => news'[x] = news[x]
    BY <1>2 DEF TicketInv, TicketTypeOK
  <2>4. \A x \in Ticket :
              (\E n \in MessagesOf(x)' : n > news'[x] /\ n > missed'[x]) =>
                 \/ x \in timers'
                 \/ Idle.at \in CountSteps /\ Idle.id = x
                 \/ /\ \E n \in MessagesOf(x) : n > news[x] /\ n > missed[x]
                    /\ x \notin timers
                    /\ ~(calls[p].at \in CountSteps /\ calls[p].id = x)
    BY <1>1, <1>2, <2>1, <2>2, <2>3
  <2> QED BY <1>2, <2>4, NewsStep
<1> QED BY <1>3, <1>4, <1>5 DEF TicketInv

\* A ticket written again is a ticket, dated when it has ended.
LEMMA RedatedIsARow ==
    ASSUME NEW row \in TicketRow, row.status \in Ended => row.closed, NEW dto \in TicketPatch
    PROVE  Redated(row, dto) \in TicketRow
           /\ (Redated(row, dto).status \in Ended => Redated(row, dto).closed)
<1>1. PICK new : new = Redated(row, dto)
  OBVIOUS
<1>2. DOMAIN row = {"user", "status", "closed", "assignee", "readUpTo"}
  BY DEF TicketRow
<1>3. new = [f \in {"user", "status", "closed", "assignee", "readUpTo"} |->
                IF f = "closed" /\ "status" \in DOMAIN dto THEN dto.status \in Ended
                ELSE IF f \in DOMAIN dto THEN dto[f] ELSE row[f]]
  BY <1>1, <1>2 DEF Redated
<1>4. DOMAIN dto \subseteq {"status", "assignee"}
      /\ ("status" \in DOMAIN dto => dto.status \in TicketStatus)
      /\ ("assignee" \in DOMAIN dto => dto.assignee \in Staff \cup {"none"})
  <2>1. CASE dto \in [status : TicketStatus]
    BY <2>1
  <2>2. CASE dto \in [assignee : Staff \cup {"none"}]
    BY <2>2
  <2>3. CASE dto \in [status : TicketStatus, assignee : Staff]
    BY <2>3
  <2> QED BY <2>1, <2>2, <2>3 DEF TicketPatch
<1>5. row.user \in Customer /\ row.status \in TicketStatus /\ row.closed \in BOOLEAN
      /\ row.assignee \in Staff \cup {"none"} /\ row.readUpTo \in 0 .. MaxMessages
  BY DEF TicketRow
<1>6. new.user = row.user /\ new.readUpTo = row.readUpTo
  BY <1>3, <1>4
<1>7. new.status \in TicketStatus
  BY <1>3, <1>4, <1>5
<1>8. new.assignee \in Staff \cup {"none"}
  BY <1>3, <1>4, <1>5
<1>9. new.closed \in BOOLEAN /\ (new.status \in Ended => new.closed)
  <2>1. CASE "status" \in DOMAIN dto
    <3>1. new.status = dto.status
      BY <1>3, <2>1
    <3>2. new.closed = (dto.status \in Ended)
      BY <1>3, <2>1
    <3>3. new.closed \in BOOLEAN
      BY <3>2
    <3>4. new.status \in Ended => new.closed
      BY <3>1, <3>2, Zenon
    <3> QED BY <3>3, <3>4
  <2>2. CASE "status" \notin DOMAIN dto
    BY <1>3, <1>4, <1>5, <2>2
  <2> QED BY <2>1, <2>2
<1>10. new = [user |-> new.user, status |-> new.status, closed |-> new.closed,
              assignee |-> new.assignee, readUpTo |-> new.readUpTo]
  BY <1>3
<1>11. new \in TicketRow
  BY <1>5, <1>6, <1>7, <1>8, <1>9, <1>10 DEF TicketRow
<1> QED BY <1>1, <1>9, <1>11

\* One ticket's row is changed, by a call that goes on to count.
LEMMA RowStep ==
    ASSUME TicketInv, NEW p \in Proc, NEW t \in Ticket, Opened(t),
           NEW row \in TicketRow, row.status \in Ended => row.closed,
           tickets' = [tickets EXCEPT ![t] = row]
    PROVE  /\ tickets' \in [Ticket -> TicketRow \cup {NoTicket}]
           /\ \A x \in Ticket : (Opened(x)' /\ tickets'[x].status \in Ended) => tickets'[x].closed
           /\ \A x \in Ticket : Opened(x) => Opened(x)'
<1>1. row # NoTicket
  BY NoTicketIsNoRow
<1> QED BY <1>1 DEF TicketInv, TicketTypeOK, Opened

\* updateTicket and resolveTicket write.
LEMMA TicketWriteStep ==
    ASSUME TicketInv, NEW p \in Proc, TicketWrite(p)
    PROVE  TicketInv'
<1>1. PICK t : t = calls[p].id
  OBVIOUS
<1>2. PICK dto : dto = calls[p].dto
  OBVIOUS
<1>3. PICK row : row = Redated(tickets[t], dto)
  OBVIOUS
<1>4. PICK c : c = [at |-> "ticket.emit", id |-> t]
  OBVIOUS
<1>5. calls[p].at = "ticket.write" /\ t \in Ticket /\ Opened(t) /\ dto \in TicketPatch
      /\ UNCHANGED <<messages, timers, news, missed>> /\ calls' = [calls EXCEPT ![p] = c]
      /\ tickets' = [tickets EXCEPT ![t] = row]
  BY <1>1, <1>2, <1>3, <1>4 DEF TicketWrite, At, Goto, TicketInv, TicketCallsOK, TicketHeld
<1>6. row \in TicketRow /\ (row.status \in Ended => row.closed)
  <2>1. PICK old : old = tickets[t]
    OBVIOUS
  <2>2. old \in TicketRow /\ (old.status \in Ended => old.closed)
    BY <1>5, <2>1 DEF TicketInv, TicketTypeOK, Opened
  <2> QED BY <1>3, <1>5, <2>1, <2>2, RedatedIsARow
<1>7. /\ tickets' \in [Ticket -> TicketRow \cup {NoTicket}]
      /\ \A x \in Ticket : (Opened(x)' /\ tickets'[x].status \in Ended) => tickets'[x].closed
      /\ \A x \in Ticket : Opened(x) => Opened(x)'
  BY <1>5, <1>6, RowStep
<1>8. TicketTypeOK'
  BY <1>5, <1>7 DEF TicketInv, TicketTypeOK
<1>9. TicketCallsOK'
  <2>1. TicketHeld(c)'
    BY <1>4, <1>5, <1>7 DEF TicketHeld
  <2> QED BY <1>5, <1>7, <2>1, TicketCallStep DEF TicketInv
<1>10. NewsIsOnItsWay'
  <2>1. calls[p].at \notin CountSteps
    BY <1>5 DEF CountSteps
  <2> QED BY <1>5, <2>1, QuietStep
<1> QED BY <1>8, <1>9, <1>10 DEF TicketInv

\* Reading moves what has been seen.
LEMMA TicketReadWriteStep ==
    ASSUME TicketInv, NEW p \in Proc, TicketReadWrite(p)
    PROVE  TicketInv'
<1>1. PICK t : t = calls[p].id
  OBVIOUS
<1>2. PICK old : old = tickets[t]
  OBVIOUS
<1>3. PICK row : row = [old EXCEPT !.readUpTo = Len(messages)]
  OBVIOUS
<1>4. PICK c : c = [at |-> "ticket.emit", id |-> t]
  OBVIOUS
<1>5. calls[p].at = "ticket.read" /\ t \in Ticket /\ Opened(t)
      /\ UNCHANGED <<messages, timers, news, missed>> /\ calls' = [calls EXCEPT ![p] = c]
      /\ tickets' = [tickets EXCEPT ![t] = row]
  BY <1>1, <1>2, <1>3, <1>4 DEF TicketReadWrite, At, Goto, TicketInv, TicketCallsOK, TicketHeld
<1>6. row \in TicketRow /\ (row.status \in Ended => row.closed)
  <2>1. old \in TicketRow /\ (old.status \in Ended => old.closed)
    BY <1>2, <1>5 DEF TicketInv, TicketTypeOK, Opened
  <2>2. Len(messages) \in 0 .. MaxMessages
    BY DEF TicketInv, TicketTypeOK
  <2> QED BY <1>3, <2>1, <2>2 DEF TicketRow
<1>7. /\ tickets' \in [Ticket -> TicketRow \cup {NoTicket}]
      /\ \A x \in Ticket : (Opened(x)' /\ tickets'[x].status \in Ended) => tickets'[x].closed
      /\ \A x \in Ticket : Opened(x) => Opened(x)'
  BY <1>5, <1>6, RowStep
<1>8. TicketTypeOK'
  BY <1>5, <1>7 DEF TicketInv, TicketTypeOK
<1>9. TicketCallsOK'
  <2>1. TicketHeld(c)'
    BY <1>4, <1>5, <1>7 DEF TicketHeld
  <2> QED BY <1>5, <1>7, <2>1, TicketCallStep DEF TicketInv
<1>10. NewsIsOnItsWay'
  <2>1. calls[p].at \notin CountSteps
    BY <1>5 DEF CountSteps
  <2> QED BY <1>5, <2>1, QuietStep
<1> QED BY <1>8, <1>9, <1>10 DEF TicketInv

\* sendMessage's transaction: the message and the ticket's status.
LEMMA MessageCommitStep ==
    ASSUME TicketInv, NEW p \in Proc, MessageCommit(p)
    PROVE  TicketInv'
<1>1. PICK c : c = calls[p]
  OBVIOUS
<1>2. PICK t : t = c.id
  OBVIOUS
<1>3. PICK m : m = [ticket |-> t, author |-> c.author, isStaff |-> c.author \in Staff]
  OBVIOUS
<1>4. PICK d : d = [at |-> IF c.next # c.status THEN "ticket.emit" ELSE "message.debounce", id |-> t]
  OBVIOUS
<1>5. c.at = "message.commit" /\ t \in Ticket /\ Opened(t) /\ c.author \in Customer \cup Staff
      /\ c.next \in TicketStatus /\ (c.next # c.status => c.next \notin Ended)
  BY <1>1, <1>2 DEF MessageCommit, At, TicketInv, TicketCallsOK, TicketHeld
<1>6. Len(messages) < MaxMessages /\ messages' = Append(messages, m)
      /\ calls' = [calls EXCEPT ![p] = d] /\ UNCHANGED <<timers, news, missed>>
      /\ tickets' = IF c.next # c.status THEN [tickets EXCEPT ![t].status = c.next] ELSE tickets
  BY <1>1, <1>2, <1>3, <1>4 DEF MessageCommit, Goto
<1>7. messages \in Seq(TicketMessage) /\ Len(messages) \in Nat /\ Len(messages') = Len(messages) + 1
      /\ messages' \in Seq(TicketMessage) /\ messages'[Len(messages) + 1] = m
      /\ \A n \in 1 .. Len(messages) : messages'[n] = messages[n]
  <2>1. m \in TicketMessage
    BY <1>3, <1>5 DEF TicketMessage
  <2> QED BY <1>6, <2>1 DEF TicketInv, TicketTypeOK
<1>8. /\ tickets' \in [Ticket -> TicketRow \cup {NoTicket}]
      /\ \A x \in Ticket : (Opened(x)' /\ tickets'[x].status \in Ended) => tickets'[x].closed
      /\ \A x \in Ticket : Opened(x) => Opened(x)'
  <2>1. CASE c.next # c.status
    <3>1. PICK old : old = tickets[t]
      OBVIOUS
    <3>2. PICK row : row = [old EXCEPT !.status = c.next]
      OBVIOUS
    <3>3. old \in TicketRow
      BY <1>5, <3>1 DEF TicketInv, TicketTypeOK, Opened
    <3>4. row \in TicketRow /\ row.status = c.next
      BY <1>5, <3>2, <3>3 DEF TicketRow
    <3>5. tickets' = [tickets EXCEPT ![t] = row]
      BY <1>6, <2>1, <3>1, <3>2
    <3> QED BY <1>5, <2>1, <3>4, <3>5, RowStep
  <2>2. CASE ~(c.next # c.status)
    BY <1>6, <2>2 DEF TicketInv, TicketTypeOK, Opened
  <2> QED BY <2>1, <2>2
<1>9. TicketTypeOK'
  <2>1. Len(messages') <= MaxMessages
    BY <1>6, <1>7, TicketAssumption
  <2> QED BY <1>6, <1>7, <1>8, <2>1 DEF TicketInv, TicketTypeOK
<1>10. TicketCallsOK'
  <2>1. TicketHeld(d)'
    BY <1>4, <1>5, <1>8 DEF TicketHeld
  <2> QED BY <1>6, <1>8, <2>1, TicketCallStep DEF TicketInv
<1>11. NewsIsOnItsWay'
  <2>1. \A x \in Ticket \ {t} : MessagesOf(x)' \subseteq MessagesOf(x)
    <3> SUFFICES ASSUME NEW x \in Ticket \ {t}, NEW n \in 1 .. Len(messages'), messages'[n].ticket = x
                 PROVE  n \in 1 .. Len(messages) /\ messages[n].ticket = x
      BY <1>7 DEF MessagesOf
    <3>1. n # Len(messages) + 1
      BY <1>3, <1>7
    <3> QED BY <1>7, <3>1
  <2>2. d.at \in CountSteps /\ d.id = t
    BY <1>4 DEF CountSteps
  <2>3. \A x \in Ticket :
              (\E n \in MessagesOf(x)' : n > news'[x] /\ n > missed'[x]) =>
                 \/ x \in timers'
                 \/ d.at \in CountSteps /\ d.id = x
                 \/ /\ \E n \in MessagesOf(x) : n > news[x] /\ n > missed[x]
                    /\ x \notin timers
                    /\ ~(calls[p].at \in CountSteps /\ calls[p].id = x)
    BY <1>1, <1>5, <1>6, <2>1, <2>2 DEF CountSteps
  <2> QED BY <1>6, <2>3, NewsStep
<1> QED BY <1>9, <1>10, <1>11 DEF TicketInv

\* The count of news is put off.
LEMMA MessageDebounceStep ==
    ASSUME TicketInv, NEW p \in Proc, MessageDebounce(p)
    PROVE  TicketInv'
<1>1. PICK t : t = calls[p].id
  OBVIOUS
<1>2. calls[p].at = "message.debounce" /\ t \in Ticket /\ timers' = timers \cup {t}
      /\ calls' = [calls EXCEPT ![p] = Idle] /\ UNCHANGED <<tickets, messages, news, missed>>
  BY <1>1 DEF MessageDebounce, TimerSet, At, Return, Goto, TicketInv, TicketCallsOK, TicketHeld
<1>3. TicketTypeOK'
  BY <1>2 DEF TicketInv, TicketTypeOK, Opened
<1>4. TicketCallsOK'
  BY <1>2, TicketIdleHolds, TicketCallStep DEF TicketInv, Opened
<1>5. NewsIsOnItsWay'
  <2>1. \A x \in Ticket : MessagesOf(x)' = MessagesOf(x)
    BY <1>2 DEF MessagesOf
  <2>2. \A x \in Ticket :
              (\E n \in MessagesOf(x)' : n > news'[x] /\ n > missed'[x]) =>
                 \/ x \in timers'
                 \/ Idle.at \in CountSteps /\ Idle.id = x
                 \/ /\ \E n \in MessagesOf(x) : n > news[x] /\ n > missed[x]
                    /\ x \notin timers
                    /\ ~(calls[p].at \in CountSteps /\ calls[p].id = x)
    BY <1>1, <1>2, <2>1
  <2> QED BY <1>2, <2>2, NewsStep
<1> QED BY <1>3, <1>4, <1>5 DEF TicketInv

\* The timer fires and the news is counted.
LEMMA TimerFiresStep ==
    ASSUME TicketInv, NEW t \in Ticket, TimerFires(t)
    PROVE  TicketInv'
<1>1. timers' = timers \ {t} /\ news' = [news EXCEPT ![t] = Len(messages)]
      /\ UNCHANGED <<tickets, messages, missed, calls, requests>>
  BY DEF TimerFires, callVars
<1>2. TicketTypeOK'
  BY <1>1 DEF TicketInv, TicketTypeOK, Opened
<1>3. TicketCallsOK'
  BY <1>1 DEF TicketInv, TicketCallsOK, CallsShape, TicketHeld, Opened
<1>4. NewsIsOnItsWay'
  <2>1. \A x \in Ticket : MessagesOf(x)' = MessagesOf(x)
    BY <1>1 DEF MessagesOf
  <2>2. ~ \E n \in MessagesOf(t)' : n > news'[t] /\ n > missed'[t]
    BY <1>1 DEF MessagesOf, TicketInv, TicketTypeOK
  <2>3. \A x \in Ticket : x # t => news'[x] = news[x]
    BY <1>1 DEF TicketInv, TicketTypeOK
  <2> QED BY <1>1, <2>1, <2>2, <2>3 DEF TicketInv, NewsIsOnItsWay
<1> QED BY <1>2, <1>3, <1>4 DEF TicketInv

\* An await of a call throws: when it was to count, its count is missed.
LEMMA TicketAbortStep ==
    ASSUME TicketInv, NEW p \in Proc, TicketAbort(p)
    PROVE  TicketInv'
<1>1. PICK t : t = calls[p].id
  OBVIOUS
<1>2. calls' = [calls EXCEPT ![p] = Idle] /\ UNCHANGED <<tickets, messages, timers, news>>
  BY DEF TicketAbort, Interrupt, Return, Goto
<1>3. TicketCallsOK'
  BY <1>2, TicketIdleHolds, TicketCallStep DEF TicketInv, Opened
<1>4. CASE calls[p].at \in CountSteps
  <2>1. t \in Ticket /\ missed' = [missed EXCEPT ![t] = Len(messages)]
    BY <1>1, <1>4 DEF TicketAbort, Missed, CountSteps, TicketInv, TicketCallsOK, TicketHeld
  <2>2. TicketTypeOK'
    BY <1>2, <2>1 DEF TicketInv, TicketTypeOK, Opened
  <2>3. NewsIsOnItsWay'
    <3>1. \A x \in Ticket : MessagesOf(x)' = MessagesOf(x)
      BY <1>2 DEF MessagesOf
    <3>2. ~ \E n \in MessagesOf(t)' : n > news'[t] /\ n > missed'[t]
      BY <1>2, <2>1 DEF MessagesOf, TicketInv, TicketTypeOK
    <3>3. \A x \in Ticket : x # t => missed'[x] = missed[x]
      BY <2>1 DEF TicketInv, TicketTypeOK
    <3>4. \A x \in Ticket :
              (\E n \in MessagesOf(x)' : n > news'[x] /\ n > missed'[x]) =>
                 \/ x \in timers'
                 \/ Idle.at \in CountSteps /\ Idle.id = x
                 \/ /\ \E n \in MessagesOf(x) : n > news[x] /\ n > missed[x]
                    /\ x \notin timers
                    /\ ~(calls[p].at \in CountSteps /\ calls[p].id = x)
      BY <1>1, <1>2, <3>1, <3>2, <3>3
    <3> QED BY <1>2, <3>4, NewsStep
  <2> QED BY <1>3, <2>2, <2>3 DEF TicketInv
<1>5. CASE calls[p].at \notin CountSteps
  <2>1. UNCHANGED missed
    BY <1>5 DEF TicketAbort
  <2>2. TicketTypeOK'
    BY <1>2, <2>1 DEF TicketInv, TicketTypeOK, Opened
  <2>3. NewsIsOnItsWay'
    BY <1>2, <1>5, <2>1, QuietStep
  <2> QED BY <1>3, <2>2, <2>3 DEF TicketInv
<1> QED BY <1>4, <1>5

\* The timer's count fails, and is missed.
LEMMA TimerFailsStep ==
    ASSUME TicketInv, NEW t \in Ticket, TimerFails(t)
    PROVE  TicketInv'
<1>1. timers' = timers \ {t} /\ missed' = [missed EXCEPT ![t] = Len(messages)]
      /\ UNCHANGED <<tickets, messages, news, calls, requests>>
  BY DEF TimerFails, Missed, callVars
<1>2. TicketTypeOK'
  BY <1>1 DEF TicketInv, TicketTypeOK, Opened
<1>3. TicketCallsOK'
  BY <1>1 DEF TicketInv, TicketCallsOK, CallsShape, TicketHeld, Opened
<1>4. NewsIsOnItsWay'
  <2>1. \A x \in Ticket : MessagesOf(x)' = MessagesOf(x)
    BY <1>1 DEF MessagesOf
  <2>2. ~ \E n \in MessagesOf(t)' : n > news'[t] /\ n > missed'[t]
    BY <1>1 DEF MessagesOf, TicketInv, TicketTypeOK
  <2>3. \A x \in Ticket : x # t => missed'[x] = missed[x]
    BY <1>1 DEF TicketInv, TicketTypeOK
  <2> QED BY <1>1, <2>1, <2>2, <2>3 DEF TicketInv, NewsIsOnItsWay
<1> QED BY <1>2, <1>3, <1>4 DEF TicketInv

\* No step.
LEMMA TicketStutter ==
    ASSUME TicketInv, UNCHANGED ticketVars, UNCHANGED calls
    PROVE  TicketInv'
<1>1. UNCHANGED <<tickets, messages, timers, news, missed>>
  BY DEF ticketVars
<1>2. TicketTypeOK'
  BY <1>1 DEF TicketInv, TicketTypeOK, Opened
<1>3. TicketCallsOK'
  BY <1>1 DEF TicketInv, TicketCallsOK, CallsShape, TicketHeld, Opened
<1>4. NewsIsOnItsWay'
  BY <1>1 DEF TicketInv, NewsIsOnItsWay, MessagesOf
<1> QED BY <1>2, <1>3, <1>4 DEF TicketInv

\* Every step keeps the invariant.
LEMMA TicketInvStep == TicketInv /\ [TicketNext]_<<callVars, ticketVars>> => TicketInv'
<1> SUFFICES ASSUME TicketInv, [TicketNext]_<<callVars, ticketVars>> PROVE TicketInv'
  OBVIOUS
<1>1. CASE UNCHANGED <<callVars, ticketVars>>
  BY <1>1, TicketStutter DEF callVars
<1>2. ASSUME NEW p \in Proc, TicketPublicRequest(p) \/ TicketAdminRequest(p) PROVE TicketInv'
  BY <1>2, TicketCreateStep, TicketResolveStep, TicketReadStep, TicketUpdateStep, MessageSendStep
  DEF TicketPublicRequest, TicketAdminRequest
<1>3. ASSUME NEW p \in Proc, TicketStep(p) PROVE TicketInv'
  BY <1>3, TicketInsertStep, TicketEmitStep, TicketWriteStep, TicketReadWriteStep,
     MessageCommitStep, MessageDebounceStep DEF TicketStep
<1> QED BY <1>1, <1>2, <1>3, TicketAbortStep, TimerFiresStep, TimerFailsStep DEF TicketNext

\* A message that the dashboard's row of its ticket does not count has a count to come, by a timer
\* or by a call in service, or a count of it has failed.
THEOREM NewsCorrect == TicketSpec => []NewsIsOnItsWay
<1>1. TicketInv => NewsIsOnItsWay
  BY DEF TicketInv
<1> QED BY <1>1, TicketInitInv, TicketInvStep, PTL DEF TicketSpec

\* The tickets' state is of its type, and a ticket that has ended is dated.
THEOREM TicketTypeCorrect == TicketSpec => []TicketTypeOK
<1>1. TicketInv => TicketTypeOK
  BY DEF TicketInv
<1> QED BY <1>1, TicketInitInv, TicketInvStep, PTL DEF TicketSpec

-------------------------------------------------------------------------------
(* Accounts                                                                  *)

\* The columns of a user's row, as far as the model has them.
Columns ==
    {"email", "userName", "role", "isVerified", "isBanned", "isFlagged", "deleted", "password",
     "passwordResetOtp", "emailVerificationToken", "invitationToken", "twoFactorSecret",
     "twoFactorEnabled"}

\* What a column holds.
ColumnType(f) ==
    CASE f = "email" -> Email
      [] f = "userName" -> UserName
      [] f = "role" -> {"USER", "STAFF"}
      [] f \in {"isVerified", "isBanned", "isFlagged", "deleted", "twoFactorEnabled"} -> BOOLEAN
      [] OTHER -> Secret

\* A row, or the fields of one.
ColumnsOK(d) == \A f \in DOMAIN d : f \in Columns /\ d[f] \in ColumnType(f)

\* A record with columns of their types is a row.
LEMMA FieldsOK ==
    ASSUME NEW d, DOMAIN d \subseteq Columns,
           "email" \in DOMAIN d => d.email \in Email,
           "userName" \in DOMAIN d => d.userName \in UserName,
           "role" \in DOMAIN d => d.role \in {"USER", "STAFF"},
           \A f \in {"isVerified", "isBanned", "isFlagged", "deleted", "twoFactorEnabled"} :
              f \in DOMAIN d => d[f] \in BOOLEAN,
           \A f \in {"password", "passwordResetOtp", "emailVerificationToken", "invitationToken",
                     "twoFactorSecret"} :
              f \in DOMAIN d => d[f] \in Secret
    PROVE  ColumnsOK(d)
BY DEF ColumnsOK, Columns, ColumnType

\* A row is the record of its columns.
LEMMA RowIsItsColumns ==
    ASSUME NEW row, row = [f \in Columns |-> row[f]]
    PROVE  row \in AccountRow <=> \A f \in Columns : row[f] \in ColumnType(f)
<1>1. DOMAIN row = Columns
  OBVIOUS
<1>2. row = [email |-> row.email, userName |-> row.userName, role |-> row.role,
             isVerified |-> row.isVerified, isBanned |-> row.isBanned, isFlagged |-> row.isFlagged,
             deleted |-> row.deleted, password |-> row.password,
             passwordResetOtp |-> row.passwordResetOtp,
             emailVerificationToken |-> row.emailVerificationToken,
             invitationToken |-> row.invitationToken, twoFactorSecret |-> row.twoFactorSecret,
             twoFactorEnabled |-> row.twoFactorEnabled]
  BY DEF Columns
<1>3. (\A f \in Columns : row[f] \in ColumnType(f)) <=>
        /\ row.email \in Email /\ row.userName \in UserName /\ row.role \in {"USER", "STAFF"}
        /\ row.isVerified \in BOOLEAN /\ row.isBanned \in BOOLEAN /\ row.isFlagged \in BOOLEAN
        /\ row.deleted \in BOOLEAN /\ row.password \in Secret /\ row.passwordResetOtp \in Secret
        /\ row.emailVerificationToken \in Secret /\ row.invitationToken \in Secret
        /\ row.twoFactorSecret \in Secret /\ row.twoFactorEnabled \in BOOLEAN
  BY DEF Columns, ColumnType
<1>4. row \in AccountRow <=>
        /\ row.email \in Email /\ row.userName \in UserName /\ row.role \in {"USER", "STAFF"}
        /\ row.isVerified \in BOOLEAN /\ row.isBanned \in BOOLEAN /\ row.isFlagged \in BOOLEAN
        /\ row.deleted \in BOOLEAN /\ row.password \in Secret /\ row.passwordResetOtp \in Secret
        /\ row.emailVerificationToken \in Secret /\ row.invitationToken \in Secret
        /\ row.twoFactorSecret \in Secret /\ row.twoFactorEnabled \in BOOLEAN
  BY <1>2 DEF AccountRow
<1> QED BY <1>3, <1>4

\* The columns of a row are of their types.
LEMMA RowColumns ==
    ASSUME NEW row \in AccountRow
    PROVE  row = [f \in Columns |-> row[f]] /\ ColumnsOK(row) /\ row # NoAccount
<1>1. row = [f \in Columns |-> row[f]]
  BY DEF AccountRow, Columns
<1>2. DOMAIN row = Columns /\ DOMAIN NoAccount = {"email"} /\ "role" \in Columns
  BY <1>1 DEF NoAccount, Columns
<1> QED BY <1>1, <1>2, RowIsItsColumns DEF ColumnsOK

\* The row signup, createByAdmin and inviteTeamMember insert.
LEMMA NewAccountIsARow ==
    ASSUME NEW e \in Email, NEW n \in UserName, NEW r \in {"USER", "STAFF"}, NEW w \in Secret
    PROVE  NewAccount(e, n, r, w) \in AccountRow /\ NewAccount(e, n, r, w).passwordResetOtp = 0
BY MaxRequestsAssumption DEF NewAccount, AccountRow, Secret

\* A row with some of its fields written.
LEMMA UpdatedIsARow ==
    ASSUME NEW row \in AccountRow, NEW d, ColumnsOK(d), NEW new,
           new = [f \in DOMAIN row |-> IF f \in DOMAIN d THEN d[f] ELSE row[f]]
    PROVE  new \in AccountRow /\ \A f \in Columns : new[f] = IF f \in DOMAIN d THEN d[f] ELSE row[f]
<1>1. row = [f \in Columns |-> row[f]] /\ ColumnsOK(row) /\ DOMAIN row = Columns
  BY RowColumns
<1>2. new = [f \in Columns |-> new[f]]
      /\ \A f \in Columns : new[f] = IF f \in DOMAIN d THEN d[f] ELSE row[f]
  BY <1>1
<1>3. \A f \in Columns : new[f] \in ColumnType(f)
  BY <1>1, <1>2 DEF ColumnsOK
<1> QED BY <1>2, <1>3, RowIsItsColumns

-----------------------------------------------------------------------------

\* What a call on accounts holds.
AccountHeld(c) ==
    /\ c.at = "account.insert" => c.row \in AccountRow /\ c.row.passwordResetOtp = 0
    /\ c.at \in {"account.wallet", "email.send", "account.write"} =>
          c.id \in Account /\ accounts[c.id] # NoAccount
    /\ c.at = "email.send" => c.fresh \in Secret
    /\ c.at = "account.write" =>
          /\ ColumnsOK(c.data)
          /\ c.then = "email.send" => c.fresh \in Secret

\* Every call holds what it needs.
AccountCallsOK == CallsShape /\ \A p \in Proc : AccountHeld(calls[p])

\* A write of a new code.
Issues(c, k) ==
    /\ c.at = "account.write" /\ "passwordResetOtp" \in DOMAIN c.data
    /\ c.data.passwordResetOtp = k /\ k # 0

\* A write of the password a code was used for.
Redeems(c, k) ==
    /\ c.at = "account.write" /\ "passwordResetOtp" \in DOMAIN c.data
    /\ c.data.passwordResetOtp = 0 /\ c.user.passwordResetOtp = k

\* A code is of one account, is written once, and is not in use before.
CodesOK ==
    /\ requests \in 0 .. MaxRequests
    /\ spent \subseteq 1 .. requests
    /\ \A i \in Enrolled : accounts[i].passwordResetOtp \in 0 .. requests
    /\ \A i, j \in Enrolled :
          i # j => \/ accounts[i].passwordResetOtp # accounts[j].passwordResetOtp
                   \/ accounts[i].passwordResetOtp = 0
    /\ \A p \in Proc : \A k : Issues(calls[p], k) =>
          /\ k \in 1 .. requests /\ k \notin spent
          /\ \A i \in Enrolled : accounts[i].passwordResetOtp # k
          /\ \A q \in Proc : ~Redeems(calls[q], k) /\ (q # p => ~Issues(calls[q], k))
    /\ \A p \in Proc : \A k : Redeems(calls[p], k) =>
          /\ k \in 1 .. requests
          /\ \A i \in Enrolled : i # calls[p].id => accounts[i].passwordResetOtp # k

\* The inductive invariant of the accounts.
AccountInv == AccountTypeOK /\ AccountCallsOK /\ CodesOK /\ SpentCodesStaySpent

\* The accounts there are at the start.
LEMMA AccountInitTyped ==
    ASSUME AccountInit
    PROVE  AccountTypeOK /\ SpentCodesStaySpent /\ \A i \in Enrolled : accounts[i].passwordResetOtp = 0
<1>1. accounts \in [Account -> AccountRow \cup {NoAccount}]
      /\ \A i \in Enrolled : accounts[i].passwordResetOtp = 0
  <2>1. 0 \in Secret
    BY MaxRequestsAssumption DEF Secret
  <2>2. \A e \in Email, n \in UserName, r \in {"USER", "STAFF"} :
           NewAccount(e, n, r, 0) \in AccountRow /\ NewAccount(e, n, r, 0).passwordResetOtp = 0
    BY <2>1, NewAccountIsARow
  <2>3. accounts \in [Account -> {NoAccount} \cup
          {NewAccount(e, n, r, 0) : e \in Email, n \in UserName, r \in {"USER", "STAFF"}}]
    BY DEF AccountInit
  <2>4. \A i \in Account : accounts[i] = NoAccount \/ \E e \in Email, n \in UserName, r \in {"USER", "STAFF"} :
            accounts[i] = NewAccount(e, n, r, 0)
    BY <2>3
  <2> QED BY <2>2, <2>3, <2>4 DEF Enrolled
<1>2. AccountTypeOK
  BY <1>1 DEF AccountInit, AccountTypeOK
<1>3. SpentCodesStaySpent
  BY DEF AccountInit, SpentCodesStaySpent
<1> QED BY <1>1, <1>2, <1>3

\* The invariant holds at the start.
LEMMA AccountInitInv == CallsInit /\ AccountInit => AccountInv
<1> SUFFICES ASSUME CallsInit, AccountInit PROVE AccountInv
  OBVIOUS
<1>1. AccountTypeOK /\ SpentCodesStaySpent /\ \A i \in Enrolled : accounts[i].passwordResetOtp = 0
  BY AccountInitTyped
<1>2. AccountCallsOK
  BY DEF CallsInit, AccountCallsOK, AccountHeld, CallsShape, Idle
<1>3. CodesOK
  BY <1>1, MaxRequestsAssumption DEF CallsInit, AccountInit, CodesOK, Issues, Redeems, Idle
<1> QED BY <1>1, <1>2, <1>3 DEF AccountInv

\* A step of one call, while accounts stay.
LEMMA AccountCallStep ==
    ASSUME AccountCallsOK, NEW p \in Proc, NEW c, calls' = [calls EXCEPT ![p] = c], AccountHeld(c)',
           \A i \in Account : accounts[i] # NoAccount => accounts'[i] # NoAccount
    PROVE  AccountCallsOK'
<1>1. CallsShape' /\ calls'[p] = c /\ \A q \in Proc \ {p} : calls'[q] = calls[q]
  BY OneCall DEF AccountCallsOK
<1>2. ASSUME NEW q \in Proc PROVE AccountHeld(calls[q])'
  <2>1. CASE q = p
    BY <1>1, <2>1
  <2>2. CASE q # p
    <3>1. PICK d : d = calls[q] /\ calls'[q] = d
      BY <1>1, <2>2
    <3>2. AccountHeld(d)
      BY <3>1 DEF AccountCallsOK
    <3>3. AccountHeld(d)'
      BY <3>2 DEF AccountHeld
    <3> QED BY <3>1, <3>3
  <2> QED BY <2>1, <2>2
<1> QED BY <1>1, <1>2 DEF AccountCallsOK

\* A process without a call holds nothing and owes nothing.
LEMMA AccountIdle == AccountHeld(Idle)' /\ \A k : ~Issues(Idle, k) /\ ~Redeems(Idle, k)
BY DEF AccountHeld, Idle, Issues, Redeems

\* A step that leaves the accounts alone and by which one call comes to c.
LEMMA AccountQuiet ==
    ASSUME AccountInv, NEW p \in Proc, NEW c, calls' = [calls EXCEPT ![p] = c], AccountHeld(c)',
           UNCHANGED <<accounts, spent>>, requests' \in {requests, requests + 1},
           requests' <= MaxRequests,
           wallets' = wallets \/ \E i \in Enrolled : wallets' = wallets \cup {i},
           \A k : Issues(c, k) => k = requests + 1 /\ requests' = requests + 1,
           \A k : Redeems(c, k) => c.id \in Enrolled /\ k = accounts[c.id].passwordResetOtp /\ k # 0
    PROVE  AccountInv'
<1>1. calls'[p] = c /\ \A q \in Proc \ {p} : calls'[q] = calls[q]
  BY OneCall DEF AccountInv, AccountCallsOK
<1>2. Enrolled' = Enrolled
  BY DEF Enrolled
<1>3. AccountTypeOK' /\ SpentCodesStaySpent'
  BY <1>2 DEF AccountInv, AccountTypeOK, SpentCodesStaySpent
<1>4. AccountCallsOK'
  BY AccountCallStep DEF AccountInv
<1>5. requests \in Nat /\ requests' \in Nat /\ requests <= requests' /\ requests' \in 0 .. MaxRequests
      /\ \A k : (k \in 1 .. requests => k \in 1 .. requests') /\ (k \in 0 .. requests => k \in 0 .. requests')
  BY MaxRequestsAssumption DEF AccountInv, CodesOK
<1>6. ASSUME NEW q \in Proc, NEW k, Issues(calls'[q], k)
      PROVE  /\ k \in 1 .. requests' /\ k \notin spent
             /\ \A i \in Enrolled : accounts[i].passwordResetOtp # k
             /\ \A x \in Proc : ~Redeems(calls'[x], k) /\ (x # q => ~Issues(calls'[x], k))
  <2>1. CASE q = p
    <3>1. k = requests + 1 /\ requests' = requests + 1
      BY <1>1, <1>6, <2>1
    <3>2. k \notin 0 .. requests /\ k \notin 1 .. requests /\ k \in 1 .. requests'
      BY <1>5, <3>1
    <3>3. \A i \in Enrolled : accounts[i].passwordResetOtp # k
      BY <3>2 DEF AccountInv, CodesOK
    <3>4. \A x \in Proc : ~Redeems(calls'[x], k)
      BY <1>1, <3>2, <3>3 DEF AccountInv, CodesOK
    <3>5. \A x \in Proc : x # q => ~Issues(calls'[x], k)
      BY <1>1, <2>1, <3>2 DEF AccountInv, CodesOK
    <3> QED BY <3>2, <3>3, <3>4, <3>5 DEF AccountInv, CodesOK
  <2>2. CASE q # p
    <3>1. Issues(calls[q], k)
      BY <1>1, <1>6, <2>2
    <3>2. k \in 1 .. requests /\ k \notin spent /\ (\A i \in Enrolled : accounts[i].passwordResetOtp # k)
          /\ \A x \in Proc : ~Redeems(calls[x], k) /\ (x # q => ~Issues(calls[x], k))
      BY <3>1 DEF AccountInv, CodesOK
    <3>3. ~Redeems(c, k)
      BY <3>2
    <3>4. ~Issues(c, k)
      BY <1>5, <3>2
    <3> QED BY <1>1, <1>5, <3>2, <3>3, <3>4
  <2> QED BY <2>1, <2>2
<1>7. ASSUME NEW q \in Proc, NEW k, Redeems(calls'[q], k)
      PROVE  /\ k \in 1 .. requests'
             /\ \A i \in Enrolled : i # calls'[q].id => accounts[i].passwordResetOtp # k
  <2>1. CASE q = p
    <3>1. c.id \in Enrolled /\ k = accounts[c.id].passwordResetOtp /\ k # 0
      BY <1>1, <1>7, <2>1
    <3>2. k \in 0 .. requests
      BY <3>1 DEF AccountInv, CodesOK
    <3> QED BY <1>1, <1>5, <2>1, <3>1, <3>2 DEF AccountInv, CodesOK
  <2>2. CASE q # p
    BY <1>1, <1>5, <1>7, <2>2 DEF AccountInv, CodesOK
  <2> QED BY <2>1, <2>2
<1>8. CodesOK'
  BY <1>2, <1>5, <1>6, <1>7 DEF AccountInv, CodesOK
<1> QED BY <1>3, <1>4, <1>8 DEF AccountInv

\* A call that has read an account and goes on to write it.
LEMMA WriteBegins ==
    ASSUME AccountInv, NEW p \in Proc, NEW i \in Enrolled, NEW c,
           calls' = [calls EXCEPT ![p] = c], UNCHANGED accountVars,
           requests' = requests \/ (requests' = requests + 1 /\ requests < MaxRequests),
           c.at = "account.write", c.id = i, c.user = accounts[i], ColumnsOK(c.data),
           c.then = "email.send" => c.fresh \in Secret,
           "passwordResetOtp" \in DOMAIN c.data =>
              \/ c.data.passwordResetOtp = requests + 1 /\ requests' = requests + 1
              \/ c.data.passwordResetOtp = 0 /\ accounts[i].passwordResetOtp # 0
    PROVE  AccountInv'
<1>1. UNCHANGED <<accounts, spent, wallets>>
  BY DEF accountVars
<1>2. AccountHeld(c)'
  BY <1>1 DEF AccountHeld, Enrolled
<1>3. requests' \in {requests, requests + 1} /\ requests' <= MaxRequests /\ requests \in Nat
  BY MaxRequestsAssumption DEF AccountInv, CodesOK
<1>4. \A k : Issues(c, k) => k = requests + 1 /\ requests' = requests + 1
  BY DEF Issues
<1>5. \A k : Redeems(c, k) => c.id \in Enrolled /\ k = accounts[c.id].passwordResetOtp /\ k # 0
  BY <1>3 DEF Redeems
<1> QED BY <1>1, <1>2, <1>3, <1>4, <1>5, AccountQuiet

\* A handler that reads an account and will write a patch of it.
LEMMA ChangeStep ==
    ASSUME AccountInv, NEW p \in Proc, NEW i \in Enrolled, NEW d, ColumnsOK(d), Change(p, i, d),
           "passwordResetOtp" \in DOMAIN d =>
              \/ d.passwordResetOtp = requests + 1
              \/ d.passwordResetOtp = 0 /\ accounts[i].passwordResetOtp # 0
    PROVE  AccountInv'
<1>1. PICK c : c = [at |-> "account.write", id |-> i, user |-> accounts[i], data |-> d, then |-> "idle"]
  OBVIOUS
<1>2. calls' = [calls EXCEPT ![p] = c] /\ requests' = requests + 1 /\ requests < MaxRequests
      /\ UNCHANGED accountVars
  BY <1>1 DEF Change, Begin
<1>3. c.at = "account.write" /\ c.id = i /\ c.user = accounts[i] /\ c.data = d /\ c.then = "idle"
  BY <1>1
<1> QED BY <1>2, <1>3, WriteBegins

\* A secret made for a request.
LEMMA FreshIsASecret ==
    ASSUME AccountInv, NEW p \in Proc, NEW c, Begin(p, c)
    PROVE  requests + 1 \in Secret /\ 0 \in Secret /\ requests' = requests + 1 /\ requests < MaxRequests
           /\ calls' = [calls EXCEPT ![p] = c] /\ calls[p].at = "idle"
BY MaxRequestsAssumption DEF Begin, At, Secret, AccountInv, CodesOK

\* Requests about passwords, codes and the second factor.
LEMMA SecretRequestStep ==
    ASSUME AccountInv, NEW p \in Proc, SecretRequest(p)
    PROVE  AccountInv'
<1>1. PICK i \in Account :
        \/ ForgotPassword(p, i) \/ ResetPassword(p, i) \/ ChangePassword(p, i)
        \/ SetupTwoFactor(p, i) \/ VerifyTwoFactor(p, i) \/ DisableTwoFactor(p, i)
  BY DEF SecretRequest
<1>2. i \in Enrolled
  BY <1>1 DEF ForgotPassword, ResetPassword, ChangePassword, SetupTwoFactor, VerifyTwoFactor,
              DisableTwoFactor, Live
<1>3. \A d : Change(p, i, d) => requests + 1 \in Secret /\ 0 \in Secret
  BY FreshIsASecret DEF Change
<1>4. CASE ForgotPassword(p, i)
  <2>1. PICK d : d = [passwordResetOtp |-> requests + 1]
    OBVIOUS
  <2>2. Change(p, i, d)
    BY <1>4, <2>1 DEF ForgotPassword, Fresh
  <2>3. ColumnsOK(d) /\ d.passwordResetOtp = requests + 1
    BY <1>3, <2>1, <2>2 DEF ColumnsOK, Columns, ColumnType
  <2> QED BY <1>2, <2>2, <2>3, ChangeStep
<1>5. CASE ResetPassword(p, i)
  <2>1. PICK d : d = [password |-> requests + 1, passwordResetOtp |-> 0]
    OBVIOUS
  <2>2. Change(p, i, d) /\ accounts[i].passwordResetOtp # 0
    BY <1>5, <2>1 DEF ResetPassword, Fresh
  <2>3. ColumnsOK(d) /\ d.passwordResetOtp = 0
    BY <1>3, <2>1, <2>2 DEF ColumnsOK, Columns, ColumnType
  <2> QED BY <1>2, <2>2, <2>3, ChangeStep
<1>6. CASE ChangePassword(p, i)
  <2>1. PICK d : d = [password |-> requests + 1]
    OBVIOUS
  <2>2. Change(p, i, d)
    BY <1>6, <2>1 DEF ChangePassword, Fresh
  <2>3. ColumnsOK(d) /\ "passwordResetOtp" \notin DOMAIN d
    BY <1>3, <2>1, <2>2 DEF ColumnsOK, Columns, ColumnType
  <2> QED BY <1>2, <2>2, <2>3, ChangeStep
<1>7. CASE SetupTwoFactor(p, i)
  <2>1. PICK d : d = [twoFactorSecret |-> requests + 1]
    OBVIOUS
  <2>2. Change(p, i, d)
    BY <1>7, <2>1 DEF SetupTwoFactor, Fresh
  <2>3. ColumnsOK(d) /\ "passwordResetOtp" \notin DOMAIN d
    BY <1>3, <2>1, <2>2 DEF ColumnsOK, Columns, ColumnType
  <2> QED BY <1>2, <2>2, <2>3, ChangeStep
<1>8. CASE VerifyTwoFactor(p, i)
  <2>1. PICK d : d = [twoFactorEnabled |-> TRUE]
    OBVIOUS
  <2>2. Change(p, i, d)
    BY <1>8, <2>1 DEF VerifyTwoFactor
  <2>3. ColumnsOK(d) /\ "passwordResetOtp" \notin DOMAIN d
    <3>1. DOMAIN d = {"twoFactorEnabled"}
      BY <2>1
    <3>2. d.twoFactorEnabled \in BOOLEAN
      BY <2>1
    <3> QED BY <3>1, <3>2, FieldsOK DEF Columns
  <2> QED BY <1>2, <2>2, <2>3, ChangeStep
<1>9. CASE DisableTwoFactor(p, i)
  <2>1. PICK d : d = [twoFactorEnabled |-> FALSE, twoFactorSecret |-> 0]
    OBVIOUS
  <2>2. Change(p, i, d)
    BY <1>9, <2>1 DEF DisableTwoFactor
  <2>3. ColumnsOK(d) /\ "passwordResetOtp" \notin DOMAIN d
    <3>1. DOMAIN d = {"twoFactorEnabled", "twoFactorSecret"}
      BY <2>1
    <3>2. d.twoFactorEnabled \in BOOLEAN /\ d.twoFactorSecret \in Secret
      BY <1>3, <2>1, <2>2
    <3> QED BY <3>1, <3>2, FieldsOK DEF Columns
  <2> QED BY <1>2, <2>2, <2>3, ChangeStep
<1> QED BY <1>1, <1>4, <1>5, <1>6, <1>7, <1>8, <1>9

\* A call that has tested that an account may be made and goes on to make it.
LEMMA InsertBegins ==
    ASSUME AccountInv, NEW p \in Proc, NEW row \in AccountRow, row.passwordResetOtp = 0,
           Begin(p, [at |-> "account.insert", row |-> row]), UNCHANGED accountVars
    PROVE  AccountInv'
<1>1. PICK c : c = [at |-> "account.insert", row |-> row]
  OBVIOUS
<1>2. calls' = [calls EXCEPT ![p] = c] /\ requests' = requests + 1 /\ requests < MaxRequests
      /\ UNCHANGED <<accounts, wallets, spent>>
  BY <1>1 DEF Begin, accountVars
<1>3. AccountHeld(c)' /\ \A k : ~Issues(c, k) /\ ~Redeems(c, k)
  BY <1>1 DEF AccountHeld, Issues, Redeems
<1>4. requests' \in {requests, requests + 1} /\ requests' <= MaxRequests
  BY <1>2, MaxRequestsAssumption DEF AccountInv, CodesOK
<1> QED BY <1>2, <1>3, <1>4, AccountQuiet

\* Requests about new accounts and addresses.
LEMMA AddressRequestStep ==
    ASSUME AccountInv, NEW p \in Proc, AddressRequest(p)
    PROVE  AccountInv'
<1>1. ASSUME NEW e \in Email, NEW n \in UserName, Signup(p, e, n) PROVE AccountInv'
  <2>1. PICK row : row = NewAccount(e, n, "USER", requests + 1)
    OBVIOUS
  <2>2. Begin(p, [at |-> "account.insert", row |-> row]) /\ UNCHANGED accountVars
    BY <1>1, <2>1 DEF Signup, Fresh
  <2>3. row \in AccountRow /\ row.passwordResetOtp = 0
    BY <2>1, <2>2, FreshIsASecret, NewAccountIsARow
  <2> QED BY <2>2, <2>3, InsertBegins
<1>2. ASSUME NEW i \in Account, NEW e \in Email, ChangeEmail(p, i, e) PROVE AccountInv'
  <2>1. PICK d : d = [email |-> e, isVerified |-> FALSE, emailVerificationToken |-> 0]
    OBVIOUS
  <2>2. PICK c : c = [at |-> "account.write", id |-> i, user |-> accounts[i], data |-> d,
                      then |-> "email.send", fresh |-> requests + 1]
    OBVIOUS
  <2>3. Begin(p, c) /\ UNCHANGED accountVars /\ i \in Enrolled
    BY <1>2, <2>1, <2>2 DEF ChangeEmail, Fresh, Live
  <2>4. requests + 1 \in Secret /\ 0 \in Secret /\ requests' = requests + 1 /\ requests < MaxRequests
        /\ calls' = [calls EXCEPT ![p] = c]
    BY <2>3, FreshIsASecret
  <2>5. ColumnsOK(d) /\ "passwordResetOtp" \notin DOMAIN d
    <3>1. DOMAIN d = {"email", "isVerified", "emailVerificationToken"}
      BY <2>1
    <3>2. d.email \in Email /\ d.isVerified \in BOOLEAN /\ d.emailVerificationToken \in Secret
      BY <2>1, <2>4
    <3> QED BY <3>1, <3>2, FieldsOK DEF Columns
  <2>6. c.at = "account.write" /\ c.id = i /\ c.user = accounts[i] /\ c.data = d /\ c.fresh \in Secret
    BY <2>2, <2>4
  <2> QED BY <2>3, <2>4, <2>5, <2>6, WriteBegins
<1>3. ASSUME NEW i \in Account, NEW e \in Email, UpdateUser(p, i, e) PROVE AccountInv'
  <2>1. PICK d : d = [email |-> e]
    OBVIOUS
  <2>2. Change(p, i, d) /\ i \in Enrolled
    BY <1>3, <2>1 DEF UpdateUser
  <2>3. ColumnsOK(d) /\ "passwordResetOtp" \notin DOMAIN d
    BY <2>1 DEF ColumnsOK, Columns, ColumnType
  <2> QED BY <2>2, <2>3, ChangeStep
<1>4. ASSUME NEW i \in Account, SendVerificationEmail(p, i) PROVE AccountInv'
  <2>1. PICK d : d = [emailVerificationToken |-> requests + 1]
    OBVIOUS
  <2>2. Change(p, i, d) /\ i \in Enrolled
    BY <1>4, <2>1 DEF SendVerificationEmail, Live, Fresh
  <2>3. requests + 1 \in Secret
    BY <2>2, FreshIsASecret DEF Change
  <2>4. ColumnsOK(d) /\ "passwordResetOtp" \notin DOMAIN d
    BY <2>1, <2>3 DEF ColumnsOK, Columns, ColumnType
  <2> QED BY <2>2, <2>4, ChangeStep
<1>5. ASSUME NEW i \in Account, VerifyEmail(p, i) PROVE AccountInv'
  <2>1. PICK d : d = [isVerified |-> TRUE, emailVerificationToken |-> 0]
    OBVIOUS
  <2>2. Change(p, i, d) /\ i \in Enrolled
    BY <1>5, <2>1 DEF VerifyEmail
  <2>3. 0 \in Secret
    BY <2>2, FreshIsASecret DEF Change
  <2>4. ColumnsOK(d) /\ "passwordResetOtp" \notin DOMAIN d
    <3>1. DOMAIN d = {"isVerified", "emailVerificationToken"}
      BY <2>1
    <3>2. d.isVerified \in BOOLEAN /\ d.emailVerificationToken \in Secret
      BY <2>1, <2>3
    <3> QED BY <3>1, <3>2, FieldsOK DEF Columns
  <2> QED BY <2>2, <2>4, ChangeStep
<1> QED BY <1>1, <1>2, <1>3, <1>4, <1>5 DEF AddressRequest

\* Requests of administrators about users.
LEMMA UserAdminRequestStep ==
    ASSUME AccountInv, NEW p \in Proc, UserAdminRequest(p)
    PROVE  AccountInv'
<1>1. ASSUME NEW e \in Email, NEW n \in UserName, NEW v \in BOOLEAN, CreateByAdmin(p, e, n, v)
      PROVE  AccountInv'
  <2>1. PICK old : old = NewAccount(e, n, "USER", requests + 1)
    OBVIOUS
  <2>2. PICK row : row = [old EXCEPT !.isVerified = v]
    OBVIOUS
  <2>3. Begin(p, [at |-> "account.insert", row |-> row]) /\ UNCHANGED accountVars
    BY <1>1, <2>1, <2>2 DEF CreateByAdmin, Fresh
  <2>4. old \in AccountRow /\ old.passwordResetOtp = 0
    BY <2>1, <2>3, FreshIsASecret, NewAccountIsARow
  <2>5. row \in AccountRow /\ row.passwordResetOtp = 0
    BY <2>2, <2>4 DEF AccountRow
  <2> QED BY <2>3, <2>5, InsertBegins
<1>2. ASSUME NEW i \in Account,
             BanUser(p, i) \/ UnbanUser(p, i) \/ FlagUser(p, i) \/ UnflagUser(p, i) \/ DeleteUser(p, i)
      PROVE  AccountInv'
  <2>1. \A v \in BOOLEAN : /\ ColumnsOK([isBanned |-> v]) /\ "passwordResetOtp" \notin DOMAIN [isBanned |-> v]
                           /\ ColumnsOK([isFlagged |-> v]) /\ "passwordResetOtp" \notin DOMAIN [isFlagged |-> v]
                           /\ ColumnsOK([deleted |-> v]) /\ "passwordResetOtp" \notin DOMAIN [deleted |-> v]
    BY DEF ColumnsOK, Columns, ColumnType
  <2>2. i \in Enrolled /\ \E d \in {[isBanned |-> TRUE], [isBanned |-> FALSE], [isFlagged |-> TRUE],
                                    [isFlagged |-> FALSE], [deleted |-> TRUE]} : Change(p, i, d)
    BY <1>2 DEF BanUser, UnbanUser, FlagUser, UnflagUser, DeleteUser
  <2>3. PICK d : ColumnsOK(d) /\ "passwordResetOtp" \notin DOMAIN d /\ Change(p, i, d)
    BY <2>1, <2>2
  <2> QED BY <2>2, <2>3, ChangeStep
<1> QED BY <1>1, <1>2 DEF UserAdminRequest

\* Requests about the team.
LEMMA TeamRequestStep ==
    ASSUME AccountInv, NEW p \in Proc, TeamRequest(p)
    PROVE  AccountInv'
<1>1. ASSUME NEW e \in Email, NEW n \in UserName, InviteTeamMember(p, e, n)
      PROVE  AccountInv'
  <2>1. PICK old : old = NewAccount(e, n, "STAFF", requests + 1)
    OBVIOUS
  <2>2. PICK row : row = [old EXCEPT !.invitationToken = requests + 1]
    OBVIOUS
  <2>3. Begin(p, [at |-> "account.insert", row |-> row]) /\ UNCHANGED accountVars
    BY <1>1, <2>1, <2>2 DEF InviteTeamMember, Fresh
  <2>4. requests + 1 \in Secret
    BY <2>3, FreshIsASecret
  <2>5. old \in AccountRow /\ old.passwordResetOtp = 0
    BY <2>1, <2>4, NewAccountIsARow
  <2>6. row \in AccountRow /\ row.passwordResetOtp = 0
    BY <2>2, <2>4, <2>5 DEF AccountRow
  <2> QED BY <2>3, <2>6, InsertBegins
<1>2. ASSUME NEW i \in Account, NEW dto \in TeamUpdates, UpdateTeamMember(p, i, dto) PROVE AccountInv'
  <2>1. Change(p, i, dto) /\ i \in Enrolled
    BY <1>2 DEF UpdateTeamMember
  <2>2. ColumnsOK(dto) /\ "passwordResetOtp" \notin DOMAIN dto
    <3>1. CASE dto \in [role : {"USER", "STAFF"}]
      BY <3>1 DEF ColumnsOK, Columns, ColumnType
    <3>2. CASE dto \in [deleted : BOOLEAN]
      BY <3>2 DEF ColumnsOK, Columns, ColumnType
    <3>3. CASE dto \in [role : {"USER", "STAFF"}, deleted : BOOLEAN]
      BY <3>3 DEF ColumnsOK, Columns, ColumnType
    <3> QED BY <3>1, <3>2, <3>3 DEF TeamUpdates
  <2> QED BY <2>1, <2>2, ChangeStep
<1>3. ASSUME NEW i \in Account, RemoveTeamMember(p, i) PROVE AccountInv'
  <2>1. PICK d : d = [deleted |-> TRUE]
    OBVIOUS
  <2>2. Change(p, i, d) /\ i \in Enrolled
    BY <1>3, <2>1 DEF RemoveTeamMember
  <2>3. ColumnsOK(d) /\ "passwordResetOtp" \notin DOMAIN d
    <3>1. DOMAIN d = {"deleted"}
      BY <2>1
    <3>2. d.deleted \in BOOLEAN
      BY <2>1
    <3> QED BY <3>1, <3>2, FieldsOK DEF Columns
  <2> QED BY <2>2, <2>3, ChangeStep
<1>4. ASSUME NEW i \in Account, ResendInvite(p, i) PROVE AccountInv'
  <2>1. PICK d : d = [invitationToken |-> requests + 1, password |-> requests + 1]
    OBVIOUS
  <2>2. Change(p, i, d) /\ i \in Enrolled
    BY <1>4, <2>1 DEF ResendInvite, Fresh
  <2>3. requests + 1 \in Secret
    BY <2>2, FreshIsASecret DEF Change
  <2>4. ColumnsOK(d) /\ "passwordResetOtp" \notin DOMAIN d
    BY <2>1, <2>3 DEF ColumnsOK, Columns, ColumnType
  <2> QED BY <2>2, <2>4, ChangeStep
<1>5. ASSUME NEW i \in Account, NEW n \in UserName, AcceptInvitation(p, i, n) PROVE AccountInv'
  <2>1. PICK d : d = [password |-> requests + 1, isVerified |-> TRUE, invitationToken |-> 0,
                      deleted |-> FALSE, userName |-> n]
    OBVIOUS
  <2>2. Change(p, i, d) /\ i \in Enrolled
    BY <1>5, <2>1 DEF AcceptInvitation, Fresh, Live
  <2>3. requests + 1 \in Secret /\ 0 \in Secret
    BY <2>2, FreshIsASecret DEF Change
  <2>4. ColumnsOK(d) /\ "passwordResetOtp" \notin DOMAIN d
    <3>1. DOMAIN d = {"password", "isVerified", "invitationToken", "deleted", "userName"}
      BY <2>1
    <3>2. d.password \in Secret /\ d.isVerified \in BOOLEAN /\ d.invitationToken \in Secret /\ d.deleted \in BOOLEAN /\ d.userName \in UserName
      BY <2>1, <2>3
    <3> QED BY <3>1, <3>2, FieldsOK DEF Columns
  <2> QED BY <2>2, <2>4, ChangeStep
<1> QED BY <1>1, <1>2, <1>3, <1>4, <1>5 DEF TeamRequest

\* The wallet of a new user.
LEMMA AccountWalletStep ==
    ASSUME AccountInv, NEW p \in Proc, AccountWallet(p)
    PROVE  AccountInv'
<1>1. PICK i : i = calls[p].id
  OBVIOUS
<1>2. i \in Enrolled /\ wallets' = wallets \cup {i} /\ calls' = [calls EXCEPT ![p] = Idle]
      /\ requests' = requests /\ UNCHANGED <<accounts, spent>>
  BY <1>1 DEF AccountWallet, At, Return, Goto, AccountInv, AccountCallsOK, AccountHeld, Enrolled
<1>3. requests' \in {requests, requests + 1} /\ requests' <= MaxRequests
  BY <1>2, MaxRequestsAssumption DEF AccountInv, CodesOK
<1> QED BY <1>2, <1>3, AccountIdle, AccountQuiet

\* A call ends where it is.
LEMMA AccountAbortStep ==
    ASSUME AccountInv, NEW p \in Proc, AccountAbort(p)
    PROVE  AccountInv'
<1>1. calls' = [calls EXCEPT ![p] = Idle] /\ requests' = requests /\ UNCHANGED <<accounts, wallets, spent>>
  BY DEF AccountAbort, Interrupt, Return, Goto, accountVars
<1>2. requests' \in {requests, requests + 1} /\ requests' <= MaxRequests
  BY <1>1, MaxRequestsAssumption DEF AccountInv, CodesOK
<1> QED BY <1>1, <1>2, AccountIdle, AccountQuiet

\* A code is mailed.
LEMMA EmailSendStep ==
    ASSUME AccountInv, NEW p \in Proc, EmailSend(p)
    PROVE  AccountInv'
<1>1. PICK i : i = calls[p].id
  OBVIOUS
<1>2. PICK k : k = calls[p].fresh
  OBVIOUS
<1>3. k \in Secret /\ UNCHANGED accountVars
  BY <1>2 DEF EmailSend, At, AccountInv, AccountCallsOK, AccountHeld
<1>4. PICK d : d = [emailVerificationToken |-> k]
  OBVIOUS
<1>5. PICK c : c = [at |-> "account.write", id |-> i, user |-> accounts[i], data |-> d, then |-> "idle"]
  OBVIOUS
<1>6. \/ i \in Enrolled /\ calls' = [calls EXCEPT ![p] = c] /\ requests' = requests
      \/ calls' = [calls EXCEPT ![p] = Idle] /\ requests' = requests
  BY <1>1, <1>2, <1>4, <1>5 DEF EmailSend, Live, Goto, Return
<1>7. CASE i \in Enrolled /\ calls' = [calls EXCEPT ![p] = c] /\ requests' = requests
  <2>1. ColumnsOK(d) /\ "passwordResetOtp" \notin DOMAIN d
    BY <1>3, <1>4 DEF ColumnsOK, Columns, ColumnType
  <2>2. c.at = "account.write" /\ c.id = i /\ c.user = accounts[i] /\ c.data = d /\ c.then = "idle"
    BY <1>5
  <2> QED BY <1>3, <1>7, <2>1, <2>2, WriteBegins
<1>8. CASE calls' = [calls EXCEPT ![p] = Idle] /\ requests' = requests
  <2>1. requests' \in {requests, requests + 1} /\ requests' <= MaxRequests
    BY <1>8, MaxRequestsAssumption DEF AccountInv, CodesOK
  <2> QED BY <1>3, <1>8, <2>1, AccountIdle, AccountQuiet DEF accountVars
<1> QED BY <1>6, <1>7, <1>8

\* A step by which one row is written, and one call comes to c without a code to write.
LEMMA AccountRowStep ==
    ASSUME AccountInv, NEW p \in Proc, NEW c, calls' = [calls EXCEPT ![p] = c], AccountHeld(c)',
           \A k : ~Issues(c, k) /\ ~Redeems(c, k),
           UNCHANGED <<requests, wallets>>,
           NEW i \in Account, NEW u, NEW row \in AccountRow, accounts' = [accounts EXCEPT ![i] = row],
           \A j \in Enrolled \ {i} : accounts[j].email # row.email /\ accounts[j].userName # row.userName,
           \/ spent' = spent /\ row.passwordResetOtp = 0
           \/ spent' = spent /\ i \in Enrolled /\ row.passwordResetOtp = accounts[i].passwordResetOtp
           \/ spent' = spent /\ Issues(calls[p], row.passwordResetOtp)
           \/ /\ i = calls[p].id /\ row.passwordResetOtp = 0
              /\ Redeems(calls[p], u) /\ spent' = spent \cup {u}
    PROVE  AccountInv'
<1>1. calls'[p] = c /\ \A q \in Proc \ {p} : calls'[q] = calls[q]
  BY OneCall DEF AccountInv, AccountCallsOK
<1>2. Enrolled' = Enrolled \cup {i} /\ accounts'[i] = row /\ \A j \in Account \ {i} : accounts'[j] = accounts[j]
  BY RowColumns DEF Enrolled, AccountInv, AccountTypeOK
<1>3. \A j \in Enrolled : accounts[j] \in AccountRow
  BY DEF Enrolled, AccountInv, AccountTypeOK
<1>4. \A j \in Enrolled' : j = i \/ (j \in Enrolled /\ j # i /\ accounts'[j] = accounts[j])
  BY <1>2 DEF Enrolled
<1>5. requests \in Nat /\ requests <= MaxRequests
  BY MaxRequestsAssumption DEF AccountInv, CodesOK
<1>6. PICK o : o = row.passwordResetOtp
  OBVIOUS
<1>7. o \in 0 .. requests
  <2>1. o \in 1 .. requests => o \in 0 .. requests
    BY <1>5
  <2>2. 0 \in 0 .. requests
    BY <1>5
  <2> QED BY <1>6, <2>1, <2>2 DEF AccountInv, CodesOK
<1>8. spent' \subseteq 1 .. requests /\ spent \subseteq spent'
  BY <1>5 DEF AccountInv, CodesOK
<1>9. \A j \in Enrolled : j # i => accounts[j].passwordResetOtp # o \/ o = 0
  BY <1>5, <1>6 DEF AccountInv, CodesOK
<1>10. o \notin spent'
  <2>1. 0 \notin spent'
    BY <1>8
  <2> QED BY <1>6, <2>1 DEF AccountInv, CodesOK, SpentCodesStaySpent
<1>11. \A j \in Enrolled : j # i => accounts[j].passwordResetOtp \notin spent'
  <2>1. CASE spent' = spent
    BY <2>1 DEF AccountInv, SpentCodesStaySpent
  <2>2. CASE i = calls[p].id /\ Redeems(calls[p], u) /\ spent' = spent \cup {u}
    BY <2>2 DEF AccountInv, SpentCodesStaySpent, CodesOK
  <2> QED BY <2>1, <2>2
<1>12. ASSUME NEW q \in Proc, NEW k, Issues(calls'[q], k)
       PROVE  q # p /\ Issues(calls[q], k) /\ k \in 1 .. requests /\ k \notin spent' /\ o # k
  <2>1. q # p /\ Issues(calls[q], k)
    BY <1>1, <1>12
  <2>2. k \in 1 .. requests /\ k \notin spent /\ (\A j \in Enrolled : accounts[j].passwordResetOtp # k)
        /\ \A x \in Proc : ~Redeems(calls[x], k) /\ (x # q => ~Issues(calls[x], k))
    BY <2>1 DEF AccountInv, CodesOK
  <2>3. k \notin spent'
    BY <2>2
  <2>4. o # k
    BY <1>6, <2>1, <2>2
  <2> QED BY <2>1, <2>2, <2>3, <2>4
<1>13. ASSUME NEW q \in Proc, NEW k, Redeems(calls'[q], k)
       PROVE  q # p /\ Redeems(calls[q], k) /\ k \in 1 .. requests
              /\ \A j \in Enrolled' : j # calls'[q].id => accounts'[j].passwordResetOtp # k
  <2>1. q # p /\ Redeems(calls[q], k) /\ calls'[q] = calls[q]
    BY <1>1, <1>13
  <2>2. k \in 1 .. requests /\ \A j \in Enrolled : j # calls[q].id => accounts[j].passwordResetOtp # k
    BY <2>1 DEF AccountInv, CodesOK
  <2>3. i # calls[q].id => o # k
    <3>1. CASE o = 0
      BY <2>2, <3>1
    <3>2. CASE i \in Enrolled /\ o = accounts[i].passwordResetOtp
      BY <2>2, <3>2
    <3>3. CASE Issues(calls[p], o)
      BY <2>1, <3>3 DEF AccountInv, CodesOK
    <3> QED BY <1>6, <3>1, <3>2, <3>3
  <2> QED BY <1>2, <1>4, <1>6, <2>1, <2>2, <2>3
<1>14. AccountTypeOK'
  <2>1. accounts' \in [Account -> AccountRow \cup {NoAccount}]
    BY DEF AccountInv, AccountTypeOK
  <2>2. wallets' \subseteq Enrolled'
    BY <1>2 DEF AccountInv, AccountTypeOK
  <2>3. spent' \subseteq Secret
    BY <1>5, <1>8, MaxRequestsAssumption DEF Secret
  <2>4. \A x, y \in Enrolled' :
          x # y => accounts'[x].email # accounts'[y].email /\ accounts'[x].userName # accounts'[y].userName
    BY <1>2, <1>4 DEF AccountInv, AccountTypeOK
  <2> QED BY <2>1, <2>2, <2>3, <2>4 DEF AccountTypeOK
<1>15. AccountCallsOK'
  BY <1>2, RowColumns, AccountCallStep DEF AccountInv
<1>16. SpentCodesStaySpent'
  BY <1>2, <1>4, <1>6, <1>10, <1>11 DEF SpentCodesStaySpent
<1>17. CodesOK'
  <2>1. \A j \in Enrolled' : accounts'[j].passwordResetOtp \in 0 .. requests
    BY <1>2, <1>4, <1>6, <1>7 DEF AccountInv, CodesOK
  <2>2. \A x, y \in Enrolled' :
          x # y => \/ accounts'[x].passwordResetOtp # accounts'[y].passwordResetOtp
                   \/ accounts'[x].passwordResetOtp = 0
    BY <1>2, <1>4, <1>6, <1>9 DEF AccountInv, CodesOK
  <2>3. ASSUME NEW q \in Proc, NEW k, Issues(calls'[q], k)
        PROVE  /\ k \in 1 .. requests /\ k \notin spent'
               /\ \A j \in Enrolled' : accounts'[j].passwordResetOtp # k
               /\ \A x \in Proc : ~Redeems(calls'[x], k) /\ (x # q => ~Issues(calls'[x], k))
    <3>1. q # p /\ Issues(calls[q], k) /\ k \in 1 .. requests /\ k \notin spent' /\ o # k
      BY <1>12, <2>3
    <3>2. (\A j \in Enrolled : accounts[j].passwordResetOtp # k)
          /\ \A x \in Proc : ~Redeems(calls[x], k) /\ (x # q => ~Issues(calls[x], k))
      BY <3>1 DEF AccountInv, CodesOK
    <3> QED BY <1>1, <1>2, <1>4, <1>6, <3>1, <3>2
  <2>4. requests' = requests /\ requests \in 0 .. MaxRequests
    BY DEF AccountInv, CodesOK
  <2>5. ASSUME NEW q \in Proc, NEW k, Redeems(calls'[q], k)
        PROVE  /\ k \in 1 .. requests
               /\ \A j \in Enrolled' : j # calls'[q].id => accounts'[j].passwordResetOtp # k
    BY <1>13, <2>5
  <2> QED BY <1>8, <2>1, <2>2, <2>3, <2>4, <2>5 DEF CodesOK
<1> QED BY <1>14, <1>15, <1>16, <1>17 DEF AccountInv

\* An account is inserted, if the unique indexes allow it.
LEMMA AccountInsertStep ==
    ASSUME AccountInv, NEW p \in Proc, AccountInsert(p)
    PROVE  AccountInv'
<1>1. PICK row : row = calls[p].row
  OBVIOUS
<1>2. row \in AccountRow /\ row.passwordResetOtp = 0 /\ UNCHANGED <<wallets, spent>>
  BY <1>1 DEF AccountInsert, At, AccountInv, AccountCallsOK, AccountHeld
<1>3. PICK i \in Account \ Enrolled :
        /\ accounts' = IF IndexAllows(row, i) THEN [accounts EXCEPT ![i] = row] ELSE accounts
        /\ IF IndexAllows(row, i) /\ row.role = "USER"
           THEN Goto(p, [at |-> "account.wallet", id |-> i])
           ELSE Return(p)
  BY <1>1 DEF AccountInsert
<1>4. PICK c : c = [at |-> "account.wallet", id |-> i]
  OBVIOUS
<1>5. requests' = requests /\ requests' \in {requests, requests + 1} /\ requests' <= MaxRequests
  BY <1>3, MaxRequestsAssumption DEF Goto, Return, AccountInv, CodesOK
<1>6. CASE IndexAllows(row, i)
  <2>1. accounts' = [accounts EXCEPT ![i] = row]
        /\ \A j \in Enrolled \ {i} : accounts[j].email # row.email /\ accounts[j].userName # row.userName
    BY <1>3, <1>6 DEF IndexAllows
  <2>2. accounts'[i] # NoAccount
    BY <1>2, <2>1, RowColumns DEF AccountInv, AccountTypeOK
  <2>3. CASE row.role = "USER"
    <3>1. calls' = [calls EXCEPT ![p] = c]
      BY <1>3, <1>4, <1>6, <2>3 DEF Goto
    <3>2. AccountHeld(c)' /\ \A k : ~Issues(c, k) /\ ~Redeems(c, k)
      BY <1>4, <2>2 DEF AccountHeld, Issues, Redeems
    <3> QED BY <1>2, <1>5, <2>1, <3>1, <3>2, AccountRowStep
  <2>4. CASE row.role # "USER"
    <3>1. calls' = [calls EXCEPT ![p] = Idle]
      BY <1>3, <1>6, <2>4 DEF Goto, Return
    <3> QED BY <1>2, <1>5, <2>1, <3>1, AccountIdle, AccountRowStep
  <2> QED BY <2>3, <2>4
<1>7. CASE ~IndexAllows(row, i)
  <2>1. calls' = [calls EXCEPT ![p] = Idle] /\ accounts' = accounts
    BY <1>3, <1>7 DEF Goto, Return
  <2> QED BY <1>2, <1>5, <2>1, AccountIdle, AccountQuiet
<1> QED BY <1>6, <1>7

\* The patch is written to the row of this moment, if the unique indexes allow it.
LEMMA AccountWriteStep ==
    ASSUME AccountInv, NEW p \in Proc, AccountWrite(p)
    PROVE  AccountInv'
<1>1. PICK c : c = calls[p]
  OBVIOUS
<1>2. PICK i : i = c.id
  OBVIOUS
<1>3. c.at = "account.write" /\ i \in Enrolled /\ i \in Account /\ ColumnsOK(c.data)
      /\ (c.then = "email.send" => c.fresh \in Secret) /\ wallets' = wallets
  BY <1>1, <1>2 DEF AccountWrite, At, AccountInv, AccountCallsOK, AccountHeld, Enrolled
<1>4. PICK old : old = accounts[i]
  OBVIOUS
<1>5. old \in AccountRow
  BY <1>3, <1>4 DEF AccountInv, AccountTypeOK, Enrolled
<1>6. PICK row : row = Updated(c)
  OBVIOUS
<1>7. row \in AccountRow
      /\ \A f \in Columns : row[f] = IF f \in DOMAIN c.data THEN c.data[f] ELSE old[f]
  <2>1. PICK d : d = c.data
    OBVIOUS
  <2>2. row = [f \in DOMAIN old |-> IF f \in DOMAIN d THEN d[f] ELSE old[f]]
    BY <1>2, <1>4, <1>6, <2>1 DEF Updated
  <2> QED BY <1>3, <1>5, <2>1, <2>2, UpdatedIsARow
<1>8. PICK redeems \in BOOLEAN :
        redeems <=> "passwordResetOtp" \in DOMAIN c.data /\ c.data.passwordResetOtp = 0
  OBVIOUS
<1>9. /\ accounts' = IF IndexAllows(row, i) THEN [accounts EXCEPT ![i] = row] ELSE accounts
      /\ spent' = IF IndexAllows(row, i) /\ redeems THEN spent \cup {c.user.passwordResetOtp} ELSE spent
      /\ IF IndexAllows(row, i) /\ c.then = "email.send"
         THEN Goto(p, [at |-> "email.send", id |-> i, fresh |-> c.fresh])
         ELSE Return(p)
  BY <1>1, <1>2, <1>6, <1>8 DEF AccountWrite
<1>10. PICK e : e = [at |-> "email.send", id |-> i, fresh |-> c.fresh]
  OBVIOUS
<1>11. requests' = requests /\ requests' \in {requests, requests + 1} /\ requests' <= MaxRequests
  BY <1>9, MaxRequestsAssumption DEF Goto, Return, AccountInv, CodesOK
<1>12. CASE ~IndexAllows(row, i)
  <2>1. calls' = [calls EXCEPT ![p] = Idle] /\ UNCHANGED <<accounts, spent>>
    BY <1>9, <1>12 DEF Return, Goto
  <2> QED BY <1>3, <1>11, <2>1, AccountIdle, AccountQuiet
<1>13. CASE IndexAllows(row, i)
  <2>1. accounts' = [accounts EXCEPT ![i] = row]
        /\ \A j \in Enrolled \ {i} : accounts[j].email # row.email /\ accounts[j].userName # row.userName
    BY <1>9, <1>13 DEF IndexAllows
  <2>2. accounts'[i] # NoAccount
    BY <1>3, <1>7, <2>1, RowColumns DEF AccountInv, AccountTypeOK
  <2>3. PICK d : /\ d = Idle \/ (d = e /\ c.then = "email.send")
                 /\ calls' = [calls EXCEPT ![p] = d]
    <3>1. CASE c.then = "email.send"
      BY <1>9, <1>10, <1>13, <3>1 DEF Goto
    <3>2. CASE c.then # "email.send"
      BY <1>9, <1>13, <3>2 DEF Goto, Return
    <3> QED BY <3>1, <3>2
  <2>4. AccountHeld(d)' /\ \A k : ~Issues(d, k) /\ ~Redeems(d, k)
    <3>1. CASE d = e /\ c.then = "email.send"
      BY <1>3, <1>10, <2>2, <3>1 DEF AccountHeld, Issues, Redeems
    <3>2. CASE d = Idle
      BY <3>2, AccountIdle
    <3> QED BY <2>3, <3>1, <3>2
  <2>5. \/ spent' = spent /\ row.passwordResetOtp = accounts[i].passwordResetOtp
        \/ spent' = spent /\ Issues(calls[p], row.passwordResetOtp)
        \/ /\ i = calls[p].id /\ row.passwordResetOtp = 0
           /\ \E k : Redeems(calls[p], k) /\ spent' = spent \cup {k}
    <3>1. row.passwordResetOtp = IF "passwordResetOtp" \in DOMAIN c.data THEN c.data.passwordResetOtp
                                 ELSE old.passwordResetOtp
      BY <1>7 DEF Columns
    <3>2. CASE "passwordResetOtp" \notin DOMAIN c.data
      BY <1>4, <1>8, <1>9, <3>1, <3>2
    <3>3. CASE "passwordResetOtp" \in DOMAIN c.data /\ c.data.passwordResetOtp # 0
      BY <1>1, <1>3, <1>8, <1>9, <3>1, <3>3 DEF Issues
    <3>4. CASE "passwordResetOtp" \in DOMAIN c.data /\ c.data.passwordResetOtp = 0
      <4>1. Redeems(calls[p], c.user.passwordResetOtp)
        BY <1>1, <1>3, <3>4 DEF Redeems
      <4> QED BY <1>1, <1>2, <1>8, <1>9, <1>13, <3>1, <3>4, <4>1
    <3> QED BY <3>2, <3>3, <3>4
  <2>6. UNCHANGED <<requests, wallets>>
    BY <1>3, <1>11
  <2>7. CASE spent' = spent /\ row.passwordResetOtp = accounts[i].passwordResetOtp
    BY <1>3, <1>7, <2>1, <2>3, <2>4, <2>6, <2>7, AccountRowStep
  <2>8. CASE spent' = spent /\ Issues(calls[p], row.passwordResetOtp)
    BY <1>3, <1>7, <2>1, <2>3, <2>4, <2>6, <2>8, AccountRowStep
  <2>9. CASE /\ i = calls[p].id /\ row.passwordResetOtp = 0
             /\ \E k : Redeems(calls[p], k) /\ spent' = spent \cup {k}
    <3>1. PICK k : Redeems(calls[p], k) /\ spent' = spent \cup {k}
      BY <2>9
    <3>2. i = calls[p].id /\ row.passwordResetOtp = 0
      BY <2>9
    <3>3. i \in Account /\ row \in AccountRow
      BY <1>3, <1>7
    <3>4. calls' = [calls EXCEPT ![p] = d] /\ AccountHeld(d)' /\ \A x : ~Issues(d, x) /\ ~Redeems(d, x)
      BY <2>3, <2>4
    <3> QED BY <2>1, <2>6, <3>1, <3>2, <3>3, <3>4, AccountRowStep
  <2> QED BY <2>5, <2>7, <2>8, <2>9
<1> QED BY <1>12, <1>13

\* No step.
LEMMA AccountStutter ==
    ASSUME AccountInv, UNCHANGED accountVars, UNCHANGED <<calls, requests>>
    PROVE  AccountInv'
<1>1. UNCHANGED <<accounts, wallets, spent>> /\ Enrolled' = Enrolled
  BY DEF accountVars, Enrolled
<1>2. AccountTypeOK' /\ SpentCodesStaySpent'
  BY <1>1 DEF AccountInv, AccountTypeOK, SpentCodesStaySpent
<1>3. AccountCallsOK'
  BY <1>1 DEF AccountInv, AccountCallsOK, CallsShape, AccountHeld
<1>4. CodesOK'
  BY <1>1 DEF AccountInv, CodesOK, Issues, Redeems
<1> QED BY <1>2, <1>3, <1>4 DEF AccountInv

\* Every step keeps the invariant.
LEMMA AccountInvStep == AccountInv /\ [AccountNext]_<<callVars, accountVars>> => AccountInv'
<1> SUFFICES ASSUME AccountInv, [AccountNext]_<<callVars, accountVars>> PROVE AccountInv'
  OBVIOUS
<1>1. CASE UNCHANGED <<callVars, accountVars>>
  BY <1>1, AccountStutter DEF callVars
<1>2. CASE AccountNext
  BY <1>2, SecretRequestStep, AddressRequestStep, UserAdminRequestStep, TeamRequestStep,
     AccountInsertStep, AccountWalletStep, AccountWriteStep, EmailSendStep, AccountAbortStep
  DEF AccountNext, AccountStep
<1> QED BY <1>1, <1>2

\* The accounts' state is of its type, and addresses and names are of one account each.
THEOREM AccountTypeCorrect == AccountSpec => []AccountTypeOK
<1>1. AccountInv => AccountTypeOK
  BY DEF AccountInv
<1> QED BY <1>1, AccountInitInv, AccountInvStep, PTL DEF AccountSpec

\* A code of a password reset that has been used is on no account again, although each reset tests
\* it before and clears it after another await.
THEOREM SpentCorrect == AccountSpec => []SpentCodesStaySpent
<1>1. AccountInv => SpentCodesStaySpent
  BY DEF AccountInv
<1> QED BY <1>1, AccountInitInv, AccountInvStep, PTL DEF AccountSpec

\* What a step may do to a ban.
BanKept ==
    \A i \in Enrolled :
        (accounts[i].isBanned /\ ~accounts'[i].isBanned) =>
            \E p \in Proc :
                /\ At(p, "account.write") /\ calls[p].id = i
                /\ "isBanned" \in DOMAIN calls[p].data

\* Only a write that has the ban among its fields lifts it.
LEMMA BanStep == AccountInv /\ [AccountNext]_<<callVars, accountVars>> => [BanKept]_accountVars
<1> SUFFICES ASSUME AccountInv, AccountNext, NEW i \in Enrolled,
                    accounts[i].isBanned, ~accounts'[i].isBanned
             PROVE  \E p \in Proc :
                       /\ At(p, "account.write") /\ calls[p].id = i
                       /\ "isBanned" \in DOMAIN calls[p].data
  BY DEF BanKept, callVars
<1>1. accounts' # accounts
  OBVIOUS
<1>2. ASSUME NEW p \in Proc,
             SecretRequest(p) \/ AddressRequest(p) \/ UserAdminRequest(p) \/ TeamRequest(p)
             \/ AccountWallet(p) \/ EmailSend(p) \/ AccountAbort(p)
      PROVE  UNCHANGED accounts
  <2>1. \A x, d : Change(p, x, d) => UNCHANGED accounts
    BY DEF Change, accountVars
  <2>2. CASE SecretRequest(p)
    BY <2>1, <2>2 DEF SecretRequest, ForgotPassword, ResetPassword, ChangePassword, SetupTwoFactor,
       VerifyTwoFactor, DisableTwoFactor
  <2>3. CASE AddressRequest(p)
    BY <2>1, <2>3 DEF AddressRequest, Signup, ChangeEmail, UpdateUser, SendVerificationEmail,
       VerifyEmail, accountVars
  <2>4. CASE UserAdminRequest(p)
    BY <2>1, <2>4 DEF UserAdminRequest, CreateByAdmin, BanUser, UnbanUser, FlagUser, UnflagUser,
       DeleteUser, accountVars
  <2>5. CASE TeamRequest(p)
    BY <2>1, <2>5 DEF TeamRequest, InviteTeamMember, UpdateTeamMember, RemoveTeamMember,
       ResendInvite, AcceptInvitation, accountVars
  <2>6. CASE AccountWallet(p) \/ EmailSend(p) \/ AccountAbort(p)
    BY <2>6 DEF AccountWallet, EmailSend, AccountAbort, accountVars
  <2> QED BY <1>2, <2>2, <2>3, <2>4, <2>5, <2>6
<1>3. PICK p \in Proc : AccountInsert(p) \/ AccountWrite(p)
  BY <1>1, <1>2 DEF AccountNext, AccountStep
<1>4. CASE AccountInsert(p)
  BY <1>4 DEF AccountInsert, AccountInv, AccountTypeOK, Enrolled
<1>5. CASE AccountWrite(p)
  <2>1. PICK c : c = calls[p]
    OBVIOUS
  <2>2. PICK row : row = Updated(c)
    OBVIOUS
  <2>3. c.at = "account.write" /\ c.id \in Account
        /\ accounts' = IF IndexAllows(row, c.id) THEN [accounts EXCEPT ![c.id] = row] ELSE accounts
    BY <1>5, <2>1, <2>2 DEF AccountWrite, At, AccountInv, AccountCallsOK, AccountHeld
  <2>4. c.id = i /\ accounts'[i] = row
    BY <2>3 DEF AccountInv, AccountTypeOK, Enrolled
  <2>5. "isBanned" \in DOMAIN accounts[i]
    <3>1. accounts[i] \in AccountRow
      BY DEF AccountInv, AccountTypeOK, Enrolled
    <3> QED BY <3>1 DEF AccountRow
  <2>6. "isBanned" \in DOMAIN c.data
    <3> SUFFICES ASSUME "isBanned" \notin DOMAIN c.data PROVE FALSE
      OBVIOUS
    <3>1. row.isBanned = accounts[i].isBanned
      BY <2>2, <2>4, <2>5 DEF Updated
    <3> QED BY <2>4, <3>1
  <2> QED BY <2>1, <2>3, <2>4, <2>6 DEF At
<1> QED BY <1>3, <1>4, <1>5

\* A ban ends only by a write that says so: none of the many that write a row read before the ban.
THEOREM BanCorrect == AccountSpec => BanIsKept
<1>1. BanIsKept <=> [][BanKept]_accountVars
  BY DEF BanIsKept, BanKept
<1> QED BY <1>1, AccountInitInv, AccountInvStep, BanStep, PTL DEF AccountSpec

-------------------------------------------------------------------------------
(* The FAQ                                                                   *)

\* Where rows are.
Parents == Category \cup {Root}

\* The row is there, below the parent, for good.
Known(i, r) == i \in Row /\ faq[i] # NoRow /\ r = IF i \in Category THEN Root ELSE faq[i].parent

\* The call's transaction has updated the row.
Locked(i, p) == locks[i] # NoLock /\ locks[i].by = p

\* What a call on the FAQ holds.
FaqHeld(c) ==
    /\ c.at = "faq.insert" =>
          c.kind \in {Category, Item} /\ c.parent \in Parents /\ c.position \in 0 .. MaxPosition
    /\ c.at = "faq.write" =>
          /\ c.ids \subseteq Row
          /\ c.data \in [text : {"new"}] \cup [position : 0 .. MaxPosition] \cup [deleted : {TRUE}]
          /\ c.data \in [position : 0 .. MaxPosition] => c.ids \subseteq Category
    /\ c.at = "faq.reorder" =>
          /\ c = [at |-> "faq.reorder", parent |-> c.parent, ordered |-> c.ordered, next |-> c.next]
          /\ c.parent \in Parents
          /\ c.ordered \in Orders
          /\ IsInjective(c.ordered)
          /\ c.next \in 1 .. Len(c.ordered) + 1
          /\ \A n \in 1 .. Len(c.ordered) : Known(c.ordered[n], c.parent)

\* The rows the call has locked are those of its list it has updated, which have their places.
Grip(p, c) ==
    /\ c.at # "faq.reorder" => \A i \in Row : ~Locked(i, p)
    /\ c.at = "faq.reorder" =>
          /\ \A i \in Row : Locked(i, p) => \E m \in 1 .. Len(c.ordered) : m < c.next /\ c.ordered[m] = i
          /\ \A m \in 1 .. Len(c.ordered) :
                m < c.next => Locked(c.ordered[m], p) /\ faq[c.ordered[m]].position = m - 1

\* Every call holds what it needs.
FaqCallsOK == CallsShape /\ \A p \in Proc : FaqHeld(calls[p]) /\ Grip(p, calls[p])

\* The table.
FaqRowsOK ==
    /\ faq = [i \in Row |-> faq[i]]
    /\ \A i \in Row : faq[i] \in FaqRow \cup {NoRow}

\* A locked row was there before, below the same parent.
LocksOK ==
    /\ locks = [i \in Row |-> locks[i]]
    /\ \A i \in Row : locks[i] # NoLock =>
          /\ locks[i].by \in Proc
          /\ locks[i].was \in FaqRow
          /\ faq[i] # NoRow
          /\ locks[i].was.parent = faq[i].parent

\* The lists that stand are of rows below their parent.
ArrangedOK ==
    /\ arranged = [r \in Parents |-> arranged[r]]
    /\ \A r \in Parents : arranged[r] \in Orders \cup {<<>>}
    /\ \A r \in Parents : \A n \in DOMAIN arranged[r] : Known(arranged[r][n], r)

\* The inductive invariant of the FAQ.
FaqInv == FaqCallsOK /\ FaqRowsOK /\ LocksOK /\ ArrangedOK /\ ReorderIsWhole

\* The FAQ there is at the start.
LEMMA FaqInitTyped ==
    ASSUME ContentInit
    PROVE  /\ FaqRowsOK /\ LocksOK /\ ArrangedOK /\ ReorderIsWhole
           /\ \A i \in Row : locks[i] = NoLock
<1>1. FaqRowsOK
  <2>1. [parent : Category \cup {Root}, position : {0}, deleted : {FALSE}] \subseteq FaqRow
    <3>1. {0} \subseteq 0 .. MaxPosition /\ {FALSE} \subseteq BOOLEAN
      BY ContentAssumption
    <3> QED BY <3>1 DEF FaqRow
  <2>2. faq \in [Row -> FaqRow \cup {NoRow}]
    BY <2>1 DEF ContentInit
  <2> QED BY <2>2 DEF FaqRowsOK
<1>2. locks = [i \in Row |-> locks[i]] /\ \A i \in Row : locks[i] = NoLock
  BY DEF ContentInit
<1>3. LocksOK
  BY <1>2 DEF LocksOK
<1>4. arranged = [r \in Parents |-> arranged[r]] /\ \A r \in Parents : arranged[r] = <<>>
  BY DEF ContentInit, Parents
<1>5. \A r \in Parents : DOMAIN arranged[r] = {}
  BY <1>4
<1>6. ArrangedOK
  BY <1>4, <1>5 DEF ArrangedOK
<1>7. ReorderIsWhole
  BY <1>5 DEF ReorderIsWhole, Parents
<1> QED BY <1>1, <1>2, <1>3, <1>6, <1>7

\* The invariant holds at the start.
LEMMA FaqInitInv == CallsInit /\ ContentInit => FaqInv
<1> SUFFICES ASSUME CallsInit, ContentInit PROVE FaqInv
  OBVIOUS
<1>1. /\ FaqRowsOK /\ LocksOK /\ ArrangedOK /\ ReorderIsWhole
      /\ \A i \in Row : locks[i] = NoLock
  BY FaqInitTyped
<1>2. FaqCallsOK
  BY <1>1 DEF CallsInit, FaqCallsOK, FaqHeld, Grip, Locked, CallsShape, Idle
<1> QED BY <1>1, <1>2 DEF FaqInv

\* A row that is there stays, below its parent.
RowsStay == \A i \in Row : faq[i] # NoRow => faq'[i] # NoRow /\ faq'[i].parent = faq[i].parent

\* A row that is there below its parent stays there.
LEMMA KnownStays ==
    ASSUME RowsStay, NEW i, NEW r, Known(i, r)
    PROVE  Known(i, r)'
BY DEF RowsStay, Known

\* What a call holds of rows stays true while rows stay.
LEMMA FaqHeldStays ==
    ASSUME RowsStay, NEW c, FaqHeld(c)
    PROVE  FaqHeld(c)'
<1>1. \A i, r : Known(i, r) => Known(i, r)'
  BY KnownStays
<1> QED BY <1>1 DEF FaqHeld

\* A call's locks hold while the rows it has locked are left alone.
LEMMA GripStays ==
    ASSUME NEW q, NEW c, FaqHeld(c), Grip(q, c),
           \A i \in Row : Locked(i, q)' <=> Locked(i, q),
           \A i \in Row : Locked(i, q) => faq'[i] = faq[i]
    PROVE  Grip(q, c)'
<1>1. c.at = "faq.reorder" => \A m \in 1 .. Len(c.ordered) : c.ordered[m] \in Row
  BY DEF FaqHeld, Known
<1> QED BY <1>1 DEF Grip

\* What a step of one call asks of it, for the calls to go on being as they were.
LEMMA FaqCallStep ==
    ASSUME FaqInv, NEW p \in Proc, NEW c, calls' = [calls EXCEPT ![p] = c],
           RowsStay, FaqHeld(c)', Grip(p, c)',
           \A i \in Row : \A q \in Proc \ {p} : Locked(i, q)' <=> Locked(i, q),
           \A i \in Row : \A q \in Proc \ {p} : Locked(i, q) => faq'[i] = faq[i]
    PROVE  FaqCallsOK'
<1>1. CallsShape' /\ calls'[p] = c /\ \A q \in Proc \ {p} : calls'[q] = calls[q]
  BY OneCall DEF FaqInv, FaqCallsOK
<1>2. ASSUME NEW q \in Proc PROVE FaqHeld(calls[q])' /\ Grip(q, calls[q])'
  <2>1. CASE q = p
    BY <1>1, <2>1
  <2>2. CASE q # p
    <3>1. PICK d : d = calls[q] /\ calls'[q] = d
      BY <1>1, <2>2
    <3>2. FaqHeld(d) /\ Grip(q, d)
      BY <3>1 DEF FaqInv, FaqCallsOK
    <3>3. FaqHeld(d)'
      BY <3>2, FaqHeldStays
    <3>4. \A i \in Row : Locked(i, q)' <=> Locked(i, q)
      BY <2>2
    <3>5. \A i \in Row : Locked(i, q) => faq'[i] = faq[i]
      BY <2>2
    <3>6. Grip(q, d)'
      BY <3>2, <3>4, <3>5, GripStays
    <3> QED BY <3>1, <3>3, <3>6
  <2> QED BY <2>1, <2>2
<1> QED BY <1>1, <1>2 DEF FaqCallsOK

\* A process without a call holds nothing.
LEMMA FaqIdleHolds == FaqHeld(Idle)'
BY DEF FaqHeld, Idle

\* The lists stand when the rows do not move as others see them.
LEMMA WholeStays ==
    ASSUME FaqInv, RowsStay, UNCHANGED arranged,
           \A i \in Row : faq[i] # NoRow => Seen(i)'.position = Seen(i).position
    PROVE  ArrangedOK' /\ ReorderIsWhole'
<1>1. \A r \in Parents : \A n \in DOMAIN arranged[r] : Known(arranged[r][n], r)'
  BY KnownStays DEF FaqInv, ArrangedOK
<1>2. ArrangedOK'
  BY <1>1 DEF FaqInv, ArrangedOK
<1>3. \A r \in Parents : \A n \in DOMAIN arranged[r] :
         arranged[r][n] \in Row /\ faq[arranged[r][n]] # NoRow
  BY DEF FaqInv, ArrangedOK, Known
<1>4. \A r \in Parents : \A n \in DOMAIN arranged[r] : Seen(arranged[r][n])'.position = n - 1
  BY <1>3 DEF FaqInv, ReorderIsWhole, Parents
<1>6. ReorderIsWhole'
  <2>1. PICK a : a = arranged /\ arranged' = a
    OBVIOUS
  <2>2. \A r \in Parents : \A n \in DOMAIN a[r] : Seen(a[r][n])'.position = n - 1
    BY <1>4, <2>1
  <2> QED BY <2>1, <2>2 DEF ReorderIsWhole, Parents
<1> QED BY <1>2, <1>6

\* A step that leaves the FAQ's rows alone, of a call that is not in a reordering.
LEMMA FaqQuiet ==
    ASSUME FaqInv, NEW p \in Proc, NEW c, calls' = [calls EXCEPT ![p] = c],
           UNCHANGED faqVars, calls[p].at # "faq.reorder", FaqHeld(c)',
           c.at = "faq.reorder" => c.next = 1
    PROVE  FaqInv'
<1>1. UNCHANGED <<faq, locks, arranged>>
  BY DEF faqVars
<1>2. RowsStay /\ \A i \in Row : \A q : Locked(i, q)' <=> Locked(i, q)
  BY <1>1 DEF RowsStay, Locked
<1>3. \A i \in Row : ~Locked(i, p)'
  BY <1>2 DEF FaqInv, FaqCallsOK, Grip
<1>4. Grip(p, c)'
  <2>1. c.at = "faq.reorder" => \A m \in 1 .. Len(c.ordered) : ~(m < c.next)
    <3>1. \A n \in Nat : \A m \in 1 .. n : ~(m < 1)
      OBVIOUS
    <3> SUFFICES ASSUME c.at = "faq.reorder", NEW m \in 1 .. Len(c.ordered) PROVE ~(m < 1)
      OBVIOUS
    <3> QED OBVIOUS
  <2> QED BY <1>3, <2>1 DEF Grip
<1>5. FaqCallsOK'
  BY <1>1, <1>2, <1>4, FaqCallStep
<1>6. \A i \in Row : Seen(i)' = Seen(i)
  BY <1>1 DEF Seen
<1>7. ArrangedOK' /\ ReorderIsWhole'
  BY <1>1, <1>2, <1>6, WholeStays
<1>8. FaqRowsOK' /\ LocksOK'
  BY <1>1 DEF FaqInv, FaqRowsOK, LocksOK
<1> QED BY <1>5, <1>7, <1>8 DEF FaqInv

\* What others see of a row is a row, below the same parent.
LEMMA SeenIsRow ==
    ASSUME FaqInv, NEW i \in Row
    PROVE  Seen(i) \in FaqRow \cup {NoRow} /\ (Seen(i) = NoRow => faq[i] = NoRow)
           /\ (Seen(i) # NoRow => faq[i] # NoRow /\ Seen(i).parent = faq[i].parent)
<1>1. NoRow \notin FaqRow
  <2> SUFFICES ASSUME NoRow \in FaqRow PROVE FALSE
    OBVIOUS
  <2>1. DOMAIN NoRow = {"parent", "position", "deleted"}
    BY DEF FaqRow
  <2> QED BY <2>1 DEF NoRow
<1>2. CASE locks[i] = NoLock
  BY <1>2 DEF Seen, FaqInv, FaqRowsOK
<1>3. CASE locks[i] # NoLock
  BY <1>1, <1>3 DEF Seen, FaqInv, LocksOK
<1> QED BY <1>2, <1>3

\* Positions have a last one.
LEMMA LastPosition ==
    ASSUME NEW S, S \subseteq 0 .. MaxPosition, S # {}
    PROVE  Max(S) \in S
<1>1. MaxPosition \in Nat
  BY ContentAssumption
<1>2. IsFiniteSet(S)
  <2>1. IsFiniteSet(0 .. MaxPosition)
    BY <1>1, FS_Interval
  <2> QED BY <2>1, FS_Subset
<1>3. PICK R : R = {t \in S \X S : t[1] < t[2]}
  OBVIOUS
<1>4. \A x \in S : x \in Int
  BY <1>1
<1>5. Ordered(S, R)
  BY <1>3, <1>4 DEF Ordered
<1>6. PICK x \in S : \A y \in S \ {x} : <<y, x>> \in R
  BY <1>2, <1>5, LastIsThere
<1>7. \A y \in S : x >= y
  <2> TAKE y \in S
  <2>1. CASE y = x
    BY <1>4, <2>1
  <2>2. CASE y # x
    <3>1. <<y, x>> \in R
      BY <1>6, <2>2
    <3>2. y < x
      BY <1>3, <3>1
    <3> QED BY <1>4, <3>2
  <2> QED BY <2>1, <2>2
<1> QED BY <1>6, <1>7 DEF Max

\* The position of a new row.
LEMMA NextPositionIsOne ==
    ASSUME FaqInv, NEW parent
    PROVE  NextPosition(parent) \in 0 .. MaxPosition
<1>1. MaxPosition \in Nat
  BY ContentAssumption
<1>2. CASE Listed(parent) = {}
  BY <1>1, <1>2 DEF NextPosition
<1>3. CASE Listed(parent) # {}
  <2>1. PICK S : S = {Seen(i).position : i \in Listed(parent)}
    OBVIOUS
  <2>2. \A i \in Listed(parent) : i \in Row /\ Seen(i) \in FaqRow
    BY SeenIsRow DEF Listed
  <2>3. \A x \in FaqRow : x.position \in 0 .. MaxPosition
    BY DEF FaqRow
  <2>4. S \subseteq 0 .. MaxPosition /\ S # {}
    BY <1>3, <2>1, <2>2, <2>3
  <2>5. PICK last : last = Max(S)
    OBVIOUS
  <2>6. last \in 0 .. MaxPosition
    BY <2>4, <2>5, LastPosition
  <2>7. NextPosition(parent) = IF last < MaxPosition THEN last + 1 ELSE MaxPosition
    BY <1>3, <2>1, <2>5 DEF NextPosition
  <2> QED BY <1>1, <2>6, <2>7
<1> QED BY <1>2, <1>3

\* A handler that only begins.
LEMMA FaqBegin ==
    ASSUME FaqInv, NEW p \in Proc, NEW c, Begin(p, c), UNCHANGED faqVars, FaqHeld(c)',
           c.at = "faq.reorder" => c.next = 1
    PROVE  FaqInv'
<1>1. calls' = [calls EXCEPT ![p] = c] /\ calls[p].at # "faq.reorder"
  BY DEF Begin, At
<1> QED BY <1>1, FaqQuiet

\* createCategory begins.
LEMMA CreateCategoryStep ==
    ASSUME FaqInv, NEW p \in Proc, CreateCategory(p)
    PROVE  FaqInv'
<1>1. PICK n : n = NextPosition(Root)
  OBVIOUS
<1>2. n \in 0 .. MaxPosition
  BY <1>1, NextPositionIsOne
<1>3. PICK c : c = [at |-> "faq.insert", kind |-> Category, parent |-> Root, position |-> n]
  OBVIOUS
<1>4. FaqHeld(c)'
  BY <1>2, <1>3 DEF FaqHeld, Parents
<1>5. Begin(p, c) /\ UNCHANGED faqVars
  BY <1>1, <1>3 DEF CreateCategory, contentVars, faqVars
<1>6. c.at # "faq.reorder"
  BY <1>3
<1> QED BY <1>4, <1>5, <1>6, FaqBegin

\* createItem begins.
LEMMA CreateItemStep ==
    ASSUME FaqInv, NEW p \in Proc, NEW r \in Category, CreateItem(p, r)
    PROVE  FaqInv'
<1>1. PICK n : n = NextPosition(r)
  OBVIOUS
<1>2. n \in 0 .. MaxPosition
  BY <1>1, NextPositionIsOne
<1>3. PICK c : c = [at |-> "faq.insert", kind |-> Item, parent |-> r, position |-> n]
  OBVIOUS
<1>4. FaqHeld(c)'
  BY <1>2, <1>3 DEF FaqHeld, Parents
<1>5. Begin(p, c) /\ UNCHANGED faqVars
  BY <1>1, <1>3 DEF CreateItem, contentVars, faqVars
<1>6. c.at # "faq.reorder"
  BY <1>3
<1> QED BY <1>4, <1>5, <1>6, FaqBegin

\* An update by id begins.
LEMMA WriteBegin ==
    ASSUME FaqInv, NEW p \in Proc, NEW ids \in SUBSET Row,
           NEW data \in [text : {"new"}] \cup [position : 0 .. MaxPosition] \cup [deleted : {TRUE}],
           data \in [position : 0 .. MaxPosition] => ids \subseteq Category,
           Begin(p, [at |-> "faq.write", ids |-> ids, data |-> data]),
           UNCHANGED contentVars
    PROVE  FaqInv'
<1>1. PICK c : c = [at |-> "faq.write", ids |-> ids, data |-> data]
  OBVIOUS
<1>2. FaqHeld(c)'
  BY <1>1 DEF FaqHeld
<1>3. Begin(p, c) /\ UNCHANGED faqVars /\ c.at # "faq.reorder"
  BY <1>1 DEF contentVars, faqVars
<1> QED BY <1>2, <1>3, FaqBegin

\* updateCategory begins.
LEMMA UpdateCategoryStep ==
    ASSUME FaqInv, NEW p \in Proc, NEW r \in Category,
           NEW data \in [text : {"new"}] \cup [position : 0 .. MaxPosition],
           UpdateCategory(p, r, data)
    PROVE  FaqInv'
<1>1. {r} \in SUBSET Row /\ {r} \subseteq Category
  BY DEF Row
<1>2. data \in [text : {"new"}] \cup [position : 0 .. MaxPosition] \cup [deleted : {TRUE}]
  OBVIOUS
<1> QED BY <1>1, <1>2, WriteBegin DEF UpdateCategory

\* updateItem begins.
LEMMA UpdateItemStep ==
    ASSUME FaqInv, NEW p \in Proc, NEW i \in Item, UpdateItem(p, i)
    PROVE  FaqInv'
<1>1. PICK data : data = [text |-> "new"]
  OBVIOUS
<1>2. data \in [text : {"new"}] /\ DOMAIN data = {"text"}
  BY <1>1
<1>3. data \notin [position : 0 .. MaxPosition]
  <2>1. \A x \in [position : 0 .. MaxPosition] : DOMAIN x = {"position"}
    OBVIOUS
  <2> QED BY <1>2, <2>1
<1>4. {i} \in SUBSET Row
  BY DEF Row
<1> QED BY <1>1, <1>2, <1>3, <1>4, WriteBegin DEF UpdateItem

\* A row is marked as deleted.
LEMMA DeleteBegin ==
    ASSUME FaqInv, NEW p \in Proc, NEW ids \in SUBSET Row,
           Begin(p, [at |-> "faq.write", ids |-> ids, data |-> [deleted |-> TRUE]]),
           UNCHANGED contentVars
    PROVE  FaqInv'
<1>1. PICK data : data = [deleted |-> TRUE]
  OBVIOUS
<1>2. data \in [deleted : {TRUE}] /\ DOMAIN data = {"deleted"}
  BY <1>1
<1>3. data \notin [position : 0 .. MaxPosition]
  <2>1. \A x \in [position : 0 .. MaxPosition] : DOMAIN x = {"position"}
    OBVIOUS
  <2> QED BY <1>2, <2>1
<1>4. Begin(p, [at |-> "faq.write", ids |-> ids, data |-> data])
  BY <1>1
<1> QED BY <1>2, <1>3, <1>4, WriteBegin

\* deleteCategory begins.
LEMMA DeleteCategoryStep ==
    ASSUME FaqInv, NEW p \in Proc, NEW r \in Category, DeleteCategory(p, r)
    PROVE  FaqInv'
<1>1. {r} \cup Item \in SUBSET Row
  BY DEF Row
<1> QED BY <1>1, DeleteBegin DEF DeleteCategory

\* deleteItem begins.
LEMMA DeleteItemStep ==
    ASSUME FaqInv, NEW p \in Proc, NEW i \in Item, DeleteItem(p, i)
    PROVE  FaqInv'
<1>1. {i} \in SUBSET Row
  BY DEF Row
<1> QED BY <1>1, DeleteBegin DEF DeleteItem

\* A reordering begins: every row of its list is there, below the parent.
LEMMA ReorderStep ==
    ASSUME FaqInv, NEW p \in Proc, NEW parent \in Category \cup {Root}, NEW ordered \in Orders,
           Reorder(p, parent, ordered)
    PROVE  FaqInv'
<1>1. PICK c : c = [at |-> "faq.reorder", parent |-> parent, ordered |-> ordered, next |-> 1]
  OBVIOUS
<1>2. c.at = "faq.reorder" /\ c.parent = parent /\ c.ordered = ordered /\ c.next = 1
  BY <1>1
<1>3. Begin(p, c) /\ UNCHANGED <<faq, locks, arranged>> /\ IsInjective(ordered)
      /\ \A n \in DOMAIN ordered : LiveRow(ordered[n]) /\ Parent(ordered[n]) = parent
  BY <1>1 DEF Reorder, contentVars
<1>4. ordered \in Seq(Row)
  BY ContentAssumption
<1>5. \A n \in 1 .. Len(ordered) : Known(ordered[n], parent)
  <2> TAKE n \in 1 .. Len(ordered)
  <2>1. n \in DOMAIN ordered /\ ordered[n] \in Row
    BY <1>4
  <2>2. Seen(ordered[n]) # NoRow /\ Parent(ordered[n]) = parent
    BY <1>3, <2>1 DEF LiveRow
  <2>3. faq[ordered[n]] # NoRow /\ Seen(ordered[n]).parent = faq[ordered[n]].parent
    BY <2>1, <2>2, SeenIsRow
  <2> QED BY <2>1, <2>2, <2>3 DEF Known, Parent
<1>6. \A n \in 1 .. Len(ordered) : Known(ordered[n], parent)'
  BY <1>3, <1>5 DEF Known
<1>7. 1 \in 1 .. Len(ordered) + 1
  BY <1>4
<1>8. FaqHeld(c)'
  BY <1>1, <1>2, <1>3, <1>6, <1>7 DEF FaqHeld, Parents
<1>9. UNCHANGED faqVars
  BY <1>3 DEF faqVars
<1> QED BY <1>2, <1>3, <1>8, <1>9, FaqBegin

\* Requests of administrators about the FAQ.
LEMMA FaqAdminStep ==
    ASSUME FaqInv, NEW p \in Proc, FaqAdminRequest(p)
    PROVE  FaqInv'
BY CreateCategoryStep, CreateItemStep, DeleteCategoryStep, UpdateCategoryStep, UpdateItemStep,
   DeleteItemStep, ReorderStep
DEF FaqAdminRequest

\* A category or an item is inserted.
LEMMA FaqInsertStep ==
    ASSUME FaqInv, NEW p \in Proc, FaqInsert(p)
    PROVE  FaqInv'
<1>1. PICK c : c = calls[p]
  OBVIOUS
<1>2. PICK i \in c.kind :
          /\ faq[i] = NoRow
          /\ faq' = [faq EXCEPT ![i] =
                 [parent |-> c.parent, position |-> c.position, deleted |-> FALSE]]
  BY <1>1 DEF FaqInsert
<1>3. c.at = "faq.insert" /\ c.kind \in {Category, Item} /\ c.parent \in Parents
      /\ c.position \in 0 .. MaxPosition
  BY <1>1 DEF FaqInsert, At, FaqInv, FaqCallsOK, FaqHeld
<1>4. i \in Row
  BY <1>2, <1>3 DEF Row
<1>5. PICK row : row = [parent |-> c.parent, position |-> c.position, deleted |-> FALSE]
  OBVIOUS
<1>6. row \in FaqRow /\ row # NoRow
  <2>1. row \in FaqRow
    BY <1>3, <1>5 DEF FaqRow, Parents
  <2>2. DOMAIN row = {"parent", "position", "deleted"} /\ DOMAIN NoRow = {"parent"}
    BY <1>5 DEF NoRow
  <2> QED BY <2>1, <2>2
<1>7. /\ faq' = [j \in Row |-> faq'[j]] /\ faq'[i] = row /\ \A j \in Row \ {i} : faq'[j] = faq[j]
      /\ UNCHANGED <<locks, arranged>>
  BY <1>2, <1>4, <1>5 DEF FaqInsert, FaqInv, FaqRowsOK
<1>8. \A j \in Row : faq[j] # NoRow => faq'[j] = faq[j]
  BY <1>2, <1>7
<1>9. RowsStay
  BY <1>8 DEF RowsStay
<1>10. FaqRowsOK'
  BY <1>6, <1>7 DEF FaqInv, FaqRowsOK
<1>11. LocksOK'
  BY <1>7, <1>8 DEF FaqInv, LocksOK
<1>12. \A j \in Row : faq[j] # NoRow => Seen(j)' = Seen(j)
  BY <1>7, <1>8 DEF Seen
<1>13. ArrangedOK' /\ ReorderIsWhole'
  BY <1>7, <1>9, <1>12, WholeStays
<1>14. FaqCallsOK'
  <2>1. PICK d : d = [at |-> "cache.del", key |-> "faq"]
    OBVIOUS
  <2>2. calls' = [calls EXCEPT ![p] = d] /\ d.at = "cache.del"
    BY <2>1 DEF FaqInsert, ToldOf, Goto
  <2>3. \A j \in Row, q \in Proc : (Locked(j, q)' <=> Locked(j, q)) /\ (Locked(j, q) => faq'[j] = faq[j])
    BY <1>7, <1>8 DEF Locked, FaqInv, LocksOK
  <2>4. FaqHeld(d)'
    BY <2>2 DEF FaqHeld
  <2>5. Grip(p, d)'
    <3>1. \A j \in Row : ~Locked(j, p)
      BY <1>1, <1>3 DEF FaqInv, FaqCallsOK, Grip
    <3> QED BY <2>2, <2>3, <3>1 DEF Grip
  <2> QED BY <1>9, <2>2, <2>3, <2>4, <2>5, FaqCallStep
<1> QED BY <1>10, <1>11, <1>13, <1>14 DEF FaqInv

\* What was written of a row, as a row.
LEMMA WrittenRow ==
    ASSUME NEW row \in FaqRow \cup {NoRow},
           NEW data \in [text : {"new"}] \cup [position : 0 .. MaxPosition] \cup [deleted : {TRUE}],
           NEW after,
           after = [f \in DOMAIN row |-> IF f \in DOMAIN data THEN data[f] ELSE row[f]]
    PROVE  /\ after \in FaqRow \cup {NoRow}
           /\ row # NoRow => after # NoRow /\ after.parent = row.parent
           /\ data \notin [position : 0 .. MaxPosition] /\ row # NoRow => after.position = row.position
<1>0. /\ "parent" \notin DOMAIN data
      /\ data \notin [position : 0 .. MaxPosition] => "position" \notin DOMAIN data
      /\ data \notin [deleted : {TRUE}] => "deleted" \notin DOMAIN data
  <2>1. CASE data \in [text : {"new"}]
    <3>1. DOMAIN data = {"text"}
      BY <2>1
    <3> QED BY <3>1
  <2>2. CASE data \in [position : 0 .. MaxPosition]
    <3>1. DOMAIN data = {"position"}
      BY <2>2
    <3> QED BY <2>2, <3>1
  <2>3. CASE data \in [deleted : {TRUE}]
    <3>1. DOMAIN data = {"deleted"}
      BY <2>3
    <3> QED BY <2>3, <3>1
  <2> QED BY <2>1, <2>2, <2>3
<1>1. CASE row = NoRow
  <2>1. "parent" \notin DOMAIN data
    BY <1>0
  <2>2. DOMAIN row = {"parent"} /\ row["parent"] = "none"
    BY <1>1 DEF NoRow
  <2>3. after = [f \in {"parent"} |-> "none"]
    BY <2>1, <2>2
  <2>4. [f \in {"parent"} |-> "none"] = [parent |-> "none"]
    OBVIOUS
  <2> QED BY <1>1, <2>3, <2>4 DEF NoRow
<1>2. CASE row # NoRow
  <2>1. row \in [parent : Category \cup {Root}, position : 0 .. MaxPosition, deleted : BOOLEAN]
    BY <1>2 DEF FaqRow
  <2>2. DOMAIN row = {"parent", "position", "deleted"} /\ "parent" \notin DOMAIN data
    BY <1>0, <2>1
  <2>3. DOMAIN after = {"parent", "position", "deleted"} /\ after.parent = row.parent
    BY <2>2
  <2>4. after.position \in 0 .. MaxPosition
    <3>1. CASE data \in [position : 0 .. MaxPosition]
      <4>1. after.position = data.position
        BY <2>2, <3>1
      <4> QED BY <4>1, <3>1
    <3>2. CASE data \notin [position : 0 .. MaxPosition]
      <4>1. "position" \notin DOMAIN data
        BY <1>0, <3>2
      <4>2. after.position = row.position
        BY <2>2, <4>1
      <4> QED BY <2>1, <4>2
    <3> QED BY <3>1, <3>2
  <2>5. after.deleted \in BOOLEAN
    <3>1. CASE data \in [deleted : {TRUE}]
      <4>1. after.deleted = data.deleted
        BY <2>2, <3>1
      <4> QED BY <4>1, <3>1
    <3>2. CASE data \notin [deleted : {TRUE}]
      <4>1. "deleted" \notin DOMAIN data
        BY <1>0, <3>2
      <4>2. after.deleted = row.deleted
        BY <2>2, <4>1
      <4> QED BY <2>1, <4>2
    <3> QED BY <3>1, <3>2
  <2>6. after = [parent |-> after.parent, position |-> after.position, deleted |-> after.deleted]
    BY <2>3
  <2>7. after \in FaqRow
    BY <2>1, <2>3, <2>4, <2>5, <2>6 DEF FaqRow
  <2>8. after # NoRow
    <3>1. DOMAIN NoRow = {"parent"}
      BY DEF NoRow
    <3> QED BY <2>3, <3>1
  <2>9. data \notin [position : 0 .. MaxPosition] => after.position = row.position
    <3>1. data \notin [position : 0 .. MaxPosition] => "position" \notin DOMAIN data
      BY <1>0
    <3> QED BY <2>2, <3>1
  <2> QED BY <1>2, <2>3, <2>7, <2>8, <2>9
<1> QED BY <1>1, <1>2

\* A call that is not in a reordering has locked nothing.
LEMMA NothingLocked ==
    ASSUME FaqInv, NEW p \in Proc, calls[p].at # "faq.reorder"
    PROVE  \A i \in Row : ~Locked(i, p)
BY DEF FaqInv, FaqCallsOK, Grip

\* An update by id: it waits for the locks, and a position written takes the order back.
LEMMA FaqWriteStep ==
    ASSUME FaqInv, NEW p \in Proc, FaqWrite(p)
    PROVE  FaqInv'
<1>1. PICK c : c = calls[p]
  OBVIOUS
<1>2. PICK ids : ids = {i \in c.ids : i \in Item /\ c.ids \cap Category # {} =>
                            faq[i] # NoRow /\ faq[i].parent \in c.ids /\ ~faq[i].deleted}
  OBVIOUS
<1>3. /\ \A i \in ids : Unlocked(p, i)
      /\ faq' = [i \in Row |->
             IF i \in ids
             THEN [f \in DOMAIN faq[i] |-> IF f \in DOMAIN c.data THEN c.data[f] ELSE faq[i][f]]
             ELSE faq[i]]
      /\ arranged' = IF "position" \in DOMAIN c.data
                     THEN [arranged EXCEPT ![Root] = <<>>] ELSE arranged
      /\ locks' = locks
  BY <1>1, <1>2 DEF FaqWrite
<1>4. /\ c.at = "faq.write" /\ c.ids \subseteq Row
      /\ c.data \in [text : {"new"}] \cup [position : 0 .. MaxPosition] \cup [deleted : {TRUE}]
      /\ c.data \in [position : 0 .. MaxPosition] => c.ids \subseteq Category
  BY <1>1 DEF FaqWrite, At, FaqInv, FaqCallsOK, FaqHeld
<1>5. ids \subseteq c.ids
  BY <1>2
<1>6. \A i \in ids : locks[i] = NoLock
  <2>1. \A i \in Row : ~Locked(i, p)
    BY <1>1, <1>4, NothingLocked
  <2> QED BY <1>3, <1>4, <1>5, <2>1 DEF Unlocked, Locked
<1>7. PICK data : data = c.data
  OBVIOUS
<1>8. data \in [text : {"new"}] \cup [position : 0 .. MaxPosition] \cup [deleted : {TRUE}]
  BY <1>4, <1>7
<1>9. \A i \in Row : /\ faq'[i] \in FaqRow \cup {NoRow}
                     /\ faq[i] # NoRow => faq'[i] # NoRow /\ faq'[i].parent = faq[i].parent
                     /\ i \notin ids => faq'[i] = faq[i]
                     /\ data \notin [position : 0 .. MaxPosition] /\ faq[i] # NoRow =>
                           faq'[i].position = faq[i].position
  <2> TAKE i \in Row
  <2>1. CASE i \notin ids
    <3>1. faq'[i] = faq[i] /\ faq[i] \in FaqRow \cup {NoRow}
      BY <1>3, <2>1 DEF FaqInv, FaqRowsOK
    <3> QED BY <2>1, <3>1
  <2>2. CASE i \in ids
    <3>1. PICK row : row = faq[i]
      OBVIOUS
    <3>2. row \in FaqRow \cup {NoRow}
      BY <3>1 DEF FaqInv, FaqRowsOK
    <3>3. PICK after : after = [f \in DOMAIN row |-> IF f \in DOMAIN data THEN data[f] ELSE row[f]]
      OBVIOUS
    <3>4. faq'[i] = after
      BY <1>3, <1>7, <2>2, <3>1, <3>3
    <3>5. /\ after \in FaqRow \cup {NoRow}
          /\ row # NoRow => after # NoRow /\ after.parent = row.parent
          /\ data \notin [position : 0 .. MaxPosition] /\ row # NoRow => after.position = row.position
      BY <1>8, <3>2, <3>3, WrittenRow
    <3> QED BY <2>2, <3>1, <3>4, <3>5
  <2> QED BY <2>1, <2>2
<1>10. FaqRowsOK'
  BY <1>3, <1>9 DEF FaqRowsOK
<1>11. RowsStay
  BY <1>9 DEF RowsStay
<1>12. LocksOK'
  BY <1>3, <1>9 DEF FaqInv, LocksOK
<1>13. \A i \in Row : i \notin ids => Seen(i)' = Seen(i)
  BY <1>3, <1>9 DEF Seen
<1>14. ArrangedOK' /\ ReorderIsWhole'
  <2>1. CASE data \notin [position : 0 .. MaxPosition]
    <3>1. "position" \notin DOMAIN data
      <4>1. CASE data \in [text : {"new"}]
        <5>1. DOMAIN data = {"text"}
          BY <4>1
        <5> QED BY <5>1
      <4>2. CASE data \in [deleted : {TRUE}]
        <5>1. DOMAIN data = {"deleted"}
          BY <4>2
        <5> QED BY <5>1
      <4> QED BY <1>8, <2>1, <4>1, <4>2
    <3>2. arranged' = arranged
      BY <1>3, <1>7, <3>1
    <3>3. \A i \in Row : faq[i] # NoRow => Seen(i)'.position = Seen(i).position
      <4> TAKE i \in Row
      <4>1. CASE i \in ids
        <5>1. Seen(i)' = faq'[i] /\ Seen(i) = faq[i]
          BY <1>3, <1>6, <4>1 DEF Seen
        <5> QED BY <5>1, <1>9, <2>1
      <4>2. CASE i \notin ids
        BY <4>2, <1>13
      <4> QED BY <4>1, <4>2
    <3> QED BY <1>11, <3>2, <3>3, WholeStays
  <2>2. CASE data \in [position : 0 .. MaxPosition]
    <3>1. DOMAIN data = {"position"}
      BY <2>2
    <3>2. arranged' = [arranged EXCEPT ![Root] = <<>>] /\ ids \subseteq Category
      BY <1>3, <1>4, <1>5, <1>7, <2>2, <3>1
    <3>3. PICK a : a = arranged
      OBVIOUS
    <3>4. PICK b : b = [a EXCEPT ![Root] = <<>>]
      OBVIOUS
    <3>5. /\ a = [r \in Parents |-> a[r]]
          /\ \A r \in Parents : a[r] \in Orders \cup {<<>>}
          /\ \A r \in Parents : \A n \in DOMAIN a[r] : Known(a[r][n], r)
      BY <3>3 DEF FaqInv, ArrangedOK
    <3>6. b = [r \in Parents |-> b[r]] /\ b[Root] = <<>> /\ (\A r \in Parents \ {Root} : b[r] = a[r])
          /\ arranged' = b
      BY <3>2, <3>3, <3>4, <3>5 DEF Parents
    <3>7. DOMAIN b[Root] = {}
      BY <3>6
    <3>8. \A r \in Parents : \A n \in DOMAIN b[r] :
             Known(b[r][n], r)' /\ r # Root /\ a[r] = b[r] /\ Known(b[r][n], r)
      <4>1. \A i, r : Known(i, r) => Known(i, r)'
        BY <1>11, KnownStays
      <4> QED BY <3>5, <3>6, <3>7, <4>1
    <3>9. ArrangedOK'
      BY <3>5, <3>6, <3>8 DEF ArrangedOK
    <3>10. \A r \in Parents : \A n \in DOMAIN b[r] : b[r][n] \in Row /\ b[r][n] \notin ids
      BY <3>2, <3>8 DEF Known
    <3>11. \A r \in Parents : \A n \in DOMAIN b[r] : Seen(b[r][n])'.position = n - 1
      <4> SUFFICES ASSUME NEW r \in Parents, NEW n \in DOMAIN b[r]
                   PROVE  Seen(b[r][n])'.position = n - 1
        OBVIOUS
      <4>1. PICK i : i = b[r][n]
        OBVIOUS
      <4>2. i = arranged[r][n] /\ n \in DOMAIN arranged[r] /\ i \in Row \ ids
        BY <3>3, <3>8, <3>10, <4>1
      <4>3. Seen(i).position = n - 1
        BY <4>2 DEF FaqInv, ReorderIsWhole, Parents
      <4>4. Seen(i)' = Seen(i)
        BY <1>13, <4>2
      <4> QED BY <4>1, <4>3, <4>4
    <3>12. ReorderIsWhole'
      BY <3>6, <3>11 DEF ReorderIsWhole, Parents
    <3> QED BY <3>9, <3>12
  <2> QED BY <2>1, <2>2
<1>15. FaqCallsOK'
  <2>1. PICK d : d = [at |-> "cache.del", key |-> "faq"]
    OBVIOUS
  <2>2. calls' = [calls EXCEPT ![p] = d] /\ d.at = "cache.del"
    BY <2>1 DEF FaqWrite, ToldOf, Goto
  <2>3. \A j \in Row, q \in Proc : (Locked(j, q)' <=> Locked(j, q)) /\ (Locked(j, q) => faq'[j] = faq[j])
    BY <1>3, <1>6, <1>9 DEF Locked
  <2>4. FaqHeld(d)'
    BY <2>2 DEF FaqHeld
  <2>5. Grip(p, d)'
    <3>1. \A j \in Row : ~Locked(j, p)
      BY <1>1, <1>4, NothingLocked
    <3> QED BY <2>2, <2>3, <3>1 DEF Grip
  <2> QED BY <1>11, <2>2, <2>3, <2>4, <2>5, FaqCallStep
<1> QED BY <1>10, <1>12, <1>14, <1>15 DEF FaqInv

\* A row of the list gets its place: nobody else sees it yet.
LEMMA ReorderUpdateStep ==
    ASSUME FaqInv, NEW p \in Proc, ReorderUpdate(p)
    PROVE  FaqInv'
<1>1. PICK c : c = calls[p]
  OBVIOUS
<1>2. PICK k : k = c.next
  OBVIOUS
<1>3. PICK i : i = c.ordered[k]
  OBVIOUS
<1>4. /\ c = [at |-> "faq.reorder", parent |-> c.parent, ordered |-> c.ordered, next |-> c.next]
      /\ c.parent \in Parents /\ c.ordered \in Orders /\ IsInjective(c.ordered)
      /\ k \in 1 .. Len(c.ordered) + 1
      /\ \A n \in 1 .. Len(c.ordered) : Known(c.ordered[n], c.parent)
      /\ \A j \in Row : Locked(j, p) => \E m \in 1 .. Len(c.ordered) : m < k /\ c.ordered[m] = j
      /\ \A m \in 1 .. Len(c.ordered) :
            m < k => Locked(c.ordered[m], p) /\ faq[c.ordered[m]].position = m - 1
  <2>1. c.at = "faq.reorder" /\ FaqHeld(c) /\ Grip(p, c)
    BY <1>1 DEF ReorderUpdate, At, FaqInv, FaqCallsOK
  <2>2. /\ c = [at |-> "faq.reorder", parent |-> c.parent, ordered |-> c.ordered, next |-> c.next]
        /\ c.parent \in Parents /\ c.ordered \in Orders /\ IsInjective(c.ordered)
        /\ c.next \in 1 .. Len(c.ordered) + 1
        /\ \A n \in 1 .. Len(c.ordered) : Known(c.ordered[n], c.parent)
    BY <2>1 DEF FaqHeld
  <2>3. /\ \A j \in Row : Locked(j, p) => \E m \in 1 .. Len(c.ordered) : m < c.next /\ c.ordered[m] = j
        /\ \A m \in 1 .. Len(c.ordered) :
              m < c.next => Locked(c.ordered[m], p) /\ faq[c.ordered[m]].position = m - 1
    BY <2>1 DEF Grip
  <2> QED BY <1>2, <2>2, <2>3
<1>5. PICK d : d = [c EXCEPT !.next = @ + 1]
  OBVIOUS
<1>6. /\ Unlocked(p, i)
      /\ faq' = [faq EXCEPT ![i].position = k - 1]
      /\ locks' = [locks EXCEPT ![i] = IF @ = NoLock THEN [by |-> p, was |-> faq[i]] ELSE @]
      /\ calls' = [calls EXCEPT ![p] = d] /\ arranged' = arranged /\ k <= Len(c.ordered)
  BY <1>1, <1>2, <1>3, <1>5 DEF ReorderUpdate, LockKept, Goto
<1>7. c.ordered \in Seq(Row) /\ Len(c.ordered) \in Nat /\ Len(c.ordered) <= MaxPosition + 1
      /\ MaxPosition \in Nat /\ k \in 1 .. Len(c.ordered)
  BY <1>4, <1>6, ContentAssumption
<1>8. i \in Row /\ faq[i] # NoRow /\ Known(i, c.parent)
  BY <1>3, <1>4, <1>7 DEF Known
<1>9. \A m \in 1 .. Len(c.ordered) : c.ordered[m] = i => m = k
  BY <1>3, <1>4, <1>7 DEF IsInjective
<1>10. locks[i] = NoLock
  <2>1. ~Locked(i, p)
    <3> SUFFICES ASSUME Locked(i, p) PROVE FALSE
      OBVIOUS
    <3>1. PICK m \in 1 .. Len(c.ordered) : m < k /\ c.ordered[m] = i
      BY <1>4, <1>8
    <3> QED BY <1>7, <1>9, <3>1
  <2> QED BY <1>6, <2>1 DEF Unlocked, Locked
<1>11. PICK row : row = [faq[i] EXCEPT !.position = k - 1]
  OBVIOUS
<1>12. faq[i] \in FaqRow
  BY <1>8 DEF FaqInv, FaqRowsOK
<1>13. row \in FaqRow /\ row # NoRow /\ row.parent = faq[i].parent /\ row.position = k - 1
  <2>1. k - 1 \in 0 .. MaxPosition
    BY <1>7
  <2>2. row \in FaqRow /\ row.parent = faq[i].parent /\ row.position = k - 1
    BY <1>11, <1>12, <2>1 DEF FaqRow
  <2>3. DOMAIN row = {"parent", "position", "deleted"} /\ DOMAIN NoRow = {"parent"}
    BY <2>2 DEF FaqRow, NoRow
  <2> QED BY <2>2, <2>3
<1>14. PICK lock : lock = [by |-> p, was |-> faq[i]]
  OBVIOUS
<1>15. lock # NoLock /\ lock.by = p /\ lock.was = faq[i]
  <2>1. DOMAIN lock = {"by", "was"} /\ DOMAIN NoLock = {"by"}
    BY <1>14 DEF NoLock
  <2> QED BY <1>14, <2>1
<1>16. /\ faq' = [j \in Row |-> faq'[j]] /\ faq'[i] = row /\ \A j \in Row \ {i} : faq'[j] = faq[j]
       /\ locks' = [j \in Row |-> locks'[j]] /\ locks'[i] = lock
       /\ \A j \in Row \ {i} : locks'[j] = locks[j]
  BY <1>6, <1>8, <1>10, <1>11, <1>14 DEF FaqInv, FaqRowsOK, LocksOK
<1>17. RowsStay
  BY <1>13, <1>16 DEF RowsStay
<1>18. FaqRowsOK'
  BY <1>13, <1>16 DEF FaqInv, FaqRowsOK
<1>19. LocksOK'
  <2> SUFFICES ASSUME NEW j \in Row, locks'[j] # NoLock
               PROVE  /\ locks'[j].by \in Proc /\ locks'[j].was \in FaqRow
                      /\ faq'[j] # NoRow /\ locks'[j].was.parent = faq'[j].parent
    BY <1>16 DEF LocksOK
  <2>1. CASE j = i
    BY <2>1, <1>12, <1>13, <1>15, <1>16
  <2>2. CASE j # i
    BY <2>2, <1>16 DEF FaqInv, LocksOK
  <2> QED BY <2>1, <2>2
<1>20. \A j \in Row : Seen(j)' = Seen(j)
  <2> TAKE j \in Row
  <2>1. CASE j = i
    BY <2>1, <1>10, <1>15, <1>16 DEF Seen
  <2>2. CASE j # i
    BY <2>2, <1>16 DEF Seen
  <2> QED BY <2>1, <2>2
<1>21. ArrangedOK' /\ ReorderIsWhole'
  BY <1>6, <1>17, <1>20, WholeStays
<1>22. /\ Locked(i, p)' /\ \A q \in Proc \ {p} : ~Locked(i, q)' /\ ~Locked(i, q)
       /\ \A j \in Row \ {i} : \A q \in Proc : Locked(j, q)' <=> Locked(j, q)
  BY <1>10, <1>15, <1>16 DEF Locked
<1>23. FaqCallsOK'
  <2>1. d = [at |-> "faq.reorder", parent |-> c.parent, ordered |-> c.ordered, next |-> k + 1]
    BY <1>2, <1>4, <1>5
  <2>2. d.at = "faq.reorder" /\ d.parent = c.parent /\ d.ordered = c.ordered /\ d.next = k + 1
    BY <2>1
  <2>3. FaqHeld(d)'
    <3>1. \A n \in 1 .. Len(d.ordered) : Known(d.ordered[n], d.parent)'
      <4>1. \A j, r : Known(j, r) => Known(j, r)'
        BY <1>17, KnownStays
      <4> QED BY <1>4, <2>2, <4>1
    <3>2. d.next \in 1 .. Len(d.ordered) + 1
      BY <1>7, <2>2
    <3> QED BY <1>4, <2>1, <2>2, <3>1, <3>2 DEF FaqHeld
  <2>4. Grip(p, d)'
    <3>1. ASSUME NEW j \in Row, Locked(j, p)'
          PROVE  \E m \in 1 .. Len(c.ordered) : m < k + 1 /\ c.ordered[m] = j
      <4>1. CASE j = i
        <5>1. k < k + 1 /\ k \in 1 .. Len(c.ordered)
          BY <1>7
        <5> QED BY <1>3, <4>1, <5>1
      <4>2. CASE j # i
        <5>1. PICK m \in 1 .. Len(c.ordered) : m < k /\ c.ordered[m] = j
          BY <1>4, <1>22, <3>1, <4>2
        <5>2. m < k + 1
          BY <1>7, <5>1
        <5> QED BY <5>1, <5>2
      <4> QED BY <4>1, <4>2
    <3>2. ASSUME NEW m \in 1 .. Len(c.ordered), m < k + 1
          PROVE  Locked(c.ordered[m], p)' /\ faq'[c.ordered[m]].position = m - 1
      <4>1. CASE m = k
        BY <1>3, <1>13, <1>16, <1>22, <4>1
      <4>2. CASE m # k
        <5>1. m < k
          BY <1>7, <3>2, <4>2
        <5>2. c.ordered[m] \in Row \ {i}
          BY <1>7, <1>9, <4>2
        <5> QED BY <1>4, <1>16, <1>22, <5>1, <5>2
      <4> QED BY <4>1, <4>2
    <3> QED BY <2>2, <3>1, <3>2 DEF Grip
  <2>5. \A j \in Row : \A q \in Proc \ {p} : Locked(j, q)' <=> Locked(j, q)
    BY <1>22
  <2>6. \A j \in Row : \A q \in Proc \ {p} : Locked(j, q) => faq'[j] = faq[j]
    BY <1>16, <1>22
  <2> QED BY <1>6, <1>17, <2>3, <2>4, <2>5, <2>6, FaqCallStep
<1> QED BY <1>18, <1>19, <1>21, <1>23 DEF FaqInv

\* The transaction's locks go, the others' stay.
LEMMA ReleaseLocks ==
    ASSUME FaqInv, NEW p \in Proc, locks' = Released(p)
    PROVE  /\ locks' = [i \in Row |-> locks'[i]]
           /\ \A i \in Row : IF Locked(i, p) THEN locks'[i] = NoLock ELSE locks'[i] = locks[i]
           /\ \A i \in Row : ~Locked(i, p)'
           /\ \A i \in Row : \A q \in Proc \ {p} : Locked(i, q)' <=> Locked(i, q)
<1>1. /\ locks' = [i \in Row |-> locks'[i]]
      /\ \A i \in Row : IF Locked(i, p) THEN locks'[i] = NoLock ELSE locks'[i] = locks[i]
  BY DEF Released, Locked
<1> QED BY <1>1 DEF Locked

\* A reordering commits: all rows of its list are seen at their places at once.
LEMMA ReorderCommitStep ==
    ASSUME FaqInv, NEW p \in Proc, ReorderCommit(p)
    PROVE  FaqInv'
<1>1. PICK c : c = calls[p]
  OBVIOUS
<1>2. /\ c.at = "faq.reorder" /\ c.parent \in Parents /\ c.ordered \in Orders
      /\ \A n \in 1 .. Len(c.ordered) : Known(c.ordered[n], c.parent)
      /\ \A j \in Row : Locked(j, p) => \E m \in 1 .. Len(c.ordered) : c.ordered[m] = j
      /\ \A m \in 1 .. Len(c.ordered) :
            m < c.next => Locked(c.ordered[m], p) /\ faq[c.ordered[m]].position = m - 1
      /\ c.next \in 1 .. Len(c.ordered) + 1
  <2>1. c.at = "faq.reorder" /\ FaqHeld(c) /\ Grip(p, c)
    BY <1>1 DEF ReorderCommit, At, FaqInv, FaqCallsOK
  <2> QED BY <2>1 DEF FaqHeld, Grip
<1>3. /\ locks' = Released(p) /\ arranged' = [arranged EXCEPT ![c.parent] = c.ordered]
      /\ faq' = faq /\ c.next > Len(c.ordered)
  BY <1>1 DEF ReorderCommit
<1>4. c.ordered \in Seq(Row) /\ Len(c.ordered) \in Nat /\ DOMAIN c.ordered = 1 .. Len(c.ordered)
  BY <1>2, ContentAssumption
<1>5. \A m \in 1 .. Len(c.ordered) : Locked(c.ordered[m], p) /\ faq[c.ordered[m]].position = m - 1
  BY <1>2, <1>3, <1>4
<1>6. RowsStay
  BY <1>3 DEF RowsStay
<1>7. /\ locks' = [i \in Row |-> locks'[i]]
      /\ \A i \in Row : IF Locked(i, p) THEN locks'[i] = NoLock ELSE locks'[i] = locks[i]
      /\ \A i \in Row : ~Locked(i, p)'
      /\ \A i \in Row : \A q \in Proc \ {p} : Locked(i, q)' <=> Locked(i, q)
  BY <1>3, ReleaseLocks
<1>8. FaqRowsOK' /\ LocksOK'
  BY <1>3, <1>7 DEF FaqInv, FaqRowsOK, LocksOK
<1>9. \A i \in Row : IF Locked(i, p) THEN Seen(i)' = faq[i] ELSE Seen(i)' = Seen(i)
  BY <1>3, <1>7 DEF Seen
<1>10. PICK a : a = arranged
  OBVIOUS
<1>11. PICK b : b = [a EXCEPT ![c.parent] = c.ordered]
  OBVIOUS
<1>12. /\ a = [r \in Parents |-> a[r]]
       /\ \A r \in Parents : a[r] \in Orders \cup {<<>>}
       /\ \A r \in Parents : \A n \in DOMAIN a[r] : Known(a[r][n], r)
  BY <1>10 DEF FaqInv, ArrangedOK
<1>13. /\ arranged' = b /\ b = [r \in Parents |-> b[r]]
       /\ b[c.parent] = c.ordered /\ \A r \in Parents \ {c.parent} : b[r] = a[r]
  BY <1>2, <1>3, <1>10, <1>11, <1>12
<1>14. \A r \in Parents : \A n \in DOMAIN b[r] : Known(b[r][n], r)
  BY <1>2, <1>4, <1>12, <1>13
<1>15. ArrangedOK'
  <2>1. \A r \in Parents : \A n \in DOMAIN b[r] : Known(b[r][n], r)'
    BY <1>6, <1>14, KnownStays
  <2> QED BY <1>2, <1>12, <1>13, <2>1 DEF ArrangedOK
<1>16. \A r \in Parents : \A n \in DOMAIN b[r] : Seen(b[r][n])'.position = n - 1
  <2> SUFFICES ASSUME NEW r \in Parents, NEW n \in DOMAIN b[r]
               PROVE  Seen(b[r][n])'.position = n - 1
    OBVIOUS
  <2>1. CASE r = c.parent
    <3>1. PICK i : i = c.ordered[n]
      OBVIOUS
    <3>2. b[r][n] = i /\ i \in Row /\ Locked(i, p) /\ faq[i].position = n - 1
      BY <1>2, <1>4, <1>5, <1>13, <2>1, <3>1 DEF Known
    <3> QED BY <1>9, <3>2
  <2>2. CASE r # c.parent
    <3>1. PICK i : i = a[r][n]
      OBVIOUS
    <3>2. b[r][n] = i /\ Known(i, r) /\ n \in DOMAIN a[r]
      BY <1>12, <1>13, <2>2, <3>1
    <3>3. ~Locked(i, p)
      <4> SUFFICES ASSUME Locked(i, p) PROVE FALSE
        OBVIOUS
      <4>1. PICK m \in 1 .. Len(c.ordered) : c.ordered[m] = i
        BY <1>2, <3>2 DEF Known
      <4>2. Known(i, c.parent)
        BY <1>2, <4>1
      <4> QED BY <2>2, <3>2, <4>2 DEF Known
    <3>4. Seen(i).position = n - 1
      BY <1>10, <3>1, <3>2 DEF FaqInv, ReorderIsWhole, Parents
    <3>5. Seen(i)' = Seen(i)
      BY <1>9, <3>2, <3>3 DEF Known
    <3> QED BY <3>2, <3>4, <3>5
  <2> QED BY <2>1, <2>2
<1>17. ReorderIsWhole'
  BY <1>13, <1>16 DEF ReorderIsWhole, Parents
<1>18. FaqCallsOK'
  <2>1. PICK d : d = [at |-> "cache.del", key |-> "faq"]
    OBVIOUS
  <2>2. calls' = [calls EXCEPT ![p] = d] /\ d.at = "cache.del"
    BY <2>1 DEF ReorderCommit, ToldOf, Goto
  <2>3. FaqHeld(d)' /\ Grip(p, d)'
    BY <1>7, <2>2 DEF FaqHeld, Grip
  <2>4. \A j \in Row : \A q \in Proc \ {p} : Locked(j, q) => faq'[j] = faq[j]
    BY <1>3
  <2> QED BY <1>6, <1>7, <2>2, <2>3, <2>4, FaqCallStep
<1> QED BY <1>8, <1>15, <1>17, <1>18 DEF FaqInv

\* A transaction that is rolled back moves no row as others see it.
LEMMA RollBack ==
    ASSUME FaqInv, NEW p \in Proc, faq' = RolledBack(p), locks' = Released(p), arranged' = arranged,
           calls' = [calls EXCEPT ![p] = Idle]
    PROVE  FaqInv'
<1>1. /\ locks' = [i \in Row |-> locks'[i]]
      /\ \A i \in Row : IF Locked(i, p) THEN locks'[i] = NoLock ELSE locks'[i] = locks[i]
      /\ \A i \in Row : ~Locked(i, p)'
      /\ \A i \in Row : \A q \in Proc \ {p} : Locked(i, q)' <=> Locked(i, q)
  BY ReleaseLocks
<1>2. /\ faq' = [i \in Row |-> faq'[i]]
      /\ \A i \in Row : IF Locked(i, p) THEN faq'[i] = locks[i].was ELSE faq'[i] = faq[i]
  BY DEF RolledBack, Locked
<1>3. \A i \in Row : locks[i] # NoLock =>
         /\ locks[i].by \in Proc /\ locks[i].was \in FaqRow
         /\ faq[i] # NoRow /\ locks[i].was.parent = faq[i].parent
  BY DEF FaqInv, LocksOK
<1>4. \A x \in FaqRow : x # NoRow
  <2>1. \A x \in FaqRow : DOMAIN x = {"parent", "position", "deleted"}
    BY DEF FaqRow
  <2>2. DOMAIN NoRow = {"parent"}
    BY DEF NoRow
  <2> QED BY <2>1, <2>2
<1>5. \A i \in Row : Locked(i, p) =>
         /\ faq'[i] \in FaqRow /\ faq'[i] # NoRow /\ faq'[i].parent = faq[i].parent
         /\ faq[i] # NoRow /\ locks[i] # NoLock
  BY <1>2, <1>3, <1>4 DEF Locked
<1>6. RowsStay
  BY <1>2, <1>5 DEF RowsStay
<1>7. FaqRowsOK'
  BY <1>2, <1>5 DEF FaqInv, FaqRowsOK
<1>8. LocksOK'
  BY <1>1, <1>2, <1>3 DEF LocksOK
<1>9. \A i \in Row : Seen(i)' = Seen(i)
  <2> TAKE i \in Row
  <2>1. CASE Locked(i, p)
    BY <1>1, <1>2, <1>5, <2>1 DEF Seen
  <2>2. CASE ~Locked(i, p)
    BY <1>1, <1>2, <2>2 DEF Seen
  <2> QED BY <2>1, <2>2
<1>10. ArrangedOK' /\ ReorderIsWhole'
  BY <1>6, <1>9, WholeStays
<1>11. FaqCallsOK'
  <2>1. Idle.at # "faq.reorder" /\ Grip(p, Idle)'
    BY <1>1 DEF Grip, Idle
  <2>2. \A j \in Row : \A q \in Proc \ {p} : Locked(j, q) => faq'[j] = faq[j]
    BY <1>2 DEF Locked
  <2> QED BY <1>1, <1>6, <2>1, <2>2, FaqIdleHolds, FaqCallStep
<1> QED BY <1>7, <1>8, <1>10, <1>11 DEF FaqInv

\* The database aborts one of two reorderings that wait for each other.
LEMMA ReorderDeadlockStep ==
    ASSUME FaqInv, NEW p \in Proc, ReorderDeadlock(p)
    PROVE  FaqInv'
BY RollBack DEF ReorderDeadlock, Return, Goto

\* A call ends, its transaction is rolled back.
LEMMA FaqAbortStep ==
    ASSUME FaqInv, NEW p \in Proc, ContentAbort(p)
    PROVE  FaqInv'
BY RollBack DEF ContentAbort, Interrupt, Return, Goto

\* The settings, the caches and the notices leave the FAQ's rows alone.
LEMMA FaqOthersStep ==
    ASSUME FaqInv, NEW p \in Proc,
           SettingsRequest(p) \/ SettingsStep(p) \/ NoticeBegin(p) \/ NoticeNext(p)
    PROVE  FaqInv'
<1> DEFINE Aside(c) == c.at \notin {"faq.insert", "faq.write", "faq.reorder"}
<1>1. ASSUME NEW c, Begin(p, c), UNCHANGED faqVars, Aside(c) PROVE FaqInv'
  <2>1. FaqHeld(c)'
    BY <1>1 DEF FaqHeld
  <2> QED BY <1>1, <2>1, FaqBegin
<1>2. ASSUME NEW c, Goto(p, c), calls[p].at # "faq.reorder", UNCHANGED faqVars, Aside(c) PROVE FaqInv'
  <2>1. FaqHeld(c)' /\ calls' = [calls EXCEPT ![p] = c]
    BY <1>2 DEF FaqHeld, Goto
  <2> QED BY <1>2, <2>1, FaqQuiet
<1>3. CASE SettingsRequest(p)
  <2>1. ASSUME NEW keys, UpdateSettings(p, keys) PROVE FaqInv'
    <3>1. PICK c : c = [at |-> "settings.upsert", left |-> keys]
      OBVIOUS
    <3>2. Begin(p, c) /\ UNCHANGED faqVars /\ Aside(c)
      BY <2>1, <3>1 DEF UpdateSettings, contentVars, faqVars
    <3> QED BY <1>1, <3>2
  <2>2. ASSUME NEW k, PublicRead(p, k) PROVE FaqInv'
    <3>1. PICK c : c = [at |-> "cache.set", key |-> k, version |-> version[k]]
      OBVIOUS
    <3>2. Begin(p, c) /\ UNCHANGED faqVars /\ Aside(c)
      BY <2>2, <3>1 DEF PublicRead, contentVars, faqVars
    <3> QED BY <1>1, <3>2
  <2> QED BY <1>3, <2>1, <2>2 DEF SettingsRequest
<1>4. Aside(Idle)
  BY DEF Idle
<1>5. CASE SettingsStep(p)
  <2>1. CASE SettingsUpsert(p)
    <3>1. PICK c : c = [at |-> "settings.upsert", left |-> calls[p].left - 1]
      OBVIOUS
    <3>2. PICK d : d = [at |-> "cache.del", key |-> "settings"]
      OBVIOUS
    <3>3. Goto(p, c) \/ Goto(p, d)
      BY <2>1, <3>1, <3>2 DEF SettingsUpsert, ToldOf
    <3>4. Aside(c) /\ Aside(d) /\ calls[p].at # "faq.reorder" /\ UNCHANGED faqVars
      BY <2>1, <3>1, <3>2 DEF SettingsUpsert, At
    <3> QED BY <1>2, <3>3, <3>4
  <2>2. CASE CacheDel(p) \/ CacheSet(p)
    <3>1. Goto(p, Idle) /\ calls[p].at # "faq.reorder" /\ UNCHANGED faqVars
      BY <2>2 DEF CacheDel, CacheSet, Return, At
    <3> QED BY <1>2, <1>4, <3>1
  <2> QED BY <1>5, <2>1, <2>2 DEF SettingsStep
<1>6. CASE NoticeBegin(p)
  <2>1. PICK c : c = [at |-> "notice.batch", cursor |-> 0, sent |-> <<>>, start |-> reachable, fell |-> FALSE]
    OBVIOUS
  <2>2. Begin(p, c) /\ UNCHANGED faqVars /\ c.at = "notice.batch"
    BY <1>6, <2>1 DEF NoticeBegin, contentVars, faqVars
  <2> QED BY <1>1, <2>2
<1>7. CASE NoticeNext(p)
  <2>1. calls[p].at = "notice.batch" /\ UNCHANGED faqVars
    BY <1>7 DEF NoticeNext, At
  <2>2. CASE Return(p)
    BY <1>2, <1>4, <2>1, <2>2 DEF Return
  <2>3. CASE ~Return(p)
    <3>1. PICK c : c = [calls[p] EXCEPT !.cursor = Last(NoticeTo(calls[p].cursor)),
                                        !.sent = calls[p].sent \o NoticeTo(calls[p].cursor)]
      OBVIOUS
    <3>2. Goto(p, c)
      BY <1>7, <2>3, <3>1 DEF NoticeNext
    <3>3. Aside(c)
      BY <2>1, <3>1
    <3> QED BY <1>2, <2>1, <3>2, <3>3
  <2> QED BY <2>2, <2>3
<1> QED BY <1>3, <1>5, <1>6, <1>7

\* A step that changes no call and no row.
LEMMA FaqStill ==
    ASSUME FaqInv, UNCHANGED faqVars, CallsShape',
           \A q \in Proc : \/ calls'[q] = calls[q]
                           \/ calls[q].at = "notice.batch" /\ calls'[q].at = "notice.batch"
    PROVE  FaqInv'
<1>1. UNCHANGED <<faq, locks, arranged>>
  BY DEF faqVars
<1>2. RowsStay /\ \A i \in Row : \A q : Locked(i, q)' <=> Locked(i, q)
  BY <1>1 DEF RowsStay, Locked
<1>3. ASSUME NEW q \in Proc PROVE FaqHeld(calls[q])' /\ Grip(q, calls[q])'
  <2>1. CASE calls'[q] = calls[q]
    <3>1. PICK d : d = calls[q] /\ calls'[q] = d
      BY <2>1
    <3>2. FaqHeld(d) /\ Grip(q, d)
      BY <3>1 DEF FaqInv, FaqCallsOK
    <3>3. FaqHeld(d)'
      BY <1>2, <3>2, FaqHeldStays
    <3>4. Grip(q, d)'
      BY <1>1, <1>2, <3>2, GripStays
    <3> QED BY <3>1, <3>3, <3>4
  <2>2. CASE calls[q].at = "notice.batch" /\ calls'[q].at = "notice.batch"
    <3>1. PICK d : calls'[q] = d /\ d.at = "notice.batch"
      BY <2>2
    <3>2. \A i \in Row : ~Locked(i, q)
      BY <2>2, NothingLocked
    <3>3. FaqHeld(d)' /\ Grip(q, d)'
      BY <1>2, <3>1, <3>2 DEF FaqHeld, Grip
    <3> QED BY <3>1, <3>3
  <2> QED BY <2>1, <2>2
<1>4. FaqCallsOK'
  BY <1>3 DEF FaqCallsOK
<1>5. \A i \in Row : Seen(i)' = Seen(i)
  BY <1>1 DEF Seen
<1>6. ArrangedOK' /\ ReorderIsWhole'
  BY <1>1, <1>2, <1>5, WholeStays
<1>7. FaqRowsOK' /\ LocksOK'
  BY <1>1 DEF FaqInv, FaqRowsOK, LocksOK
<1> QED BY <1>4, <1>6, <1>7 DEF FaqInv

-------------------------------------------------------------------------------
(* The caches                                                                *)

\* What a call on the caches holds.
CopyHeld(c) ==
    /\ c.at \in {"cache.del", "cache.set"} => c.key \in Key
    /\ c.at = "cache.set" => c.version \in Nat

\* Copies and versions.
CopiesOK ==
    /\ version \in [Key -> Nat]
    /\ cache \in [Key -> [version : Nat, late : BOOLEAN]]

\* The call owes the deletion of the copy.
OwesCopy(c, k) == (c.at = "cache.del" /\ c.key = k) \/ (c.at = "settings.upsert" /\ k = "settings")

\* Every call holds what it needs.
CopyCallsOK == CallsShape /\ \A p \in Proc : CopyHeld(calls[p])

\* The inductive invariant of the caches.
CopyInv == CopyCallsOK /\ CopiesOK /\ StaleIsExcused

\* What is cached is not what is published.
Stale(k) == cache[k] # NoCopy /\ cache[k].version < version[k]

\* The absent copy.
LEMMA NoCopyIsOne == NoCopy \in [version : Nat, late : BOOLEAN]
<1>1. 0 \in Nat /\ TRUE \in BOOLEAN
  OBVIOUS
<1> QED BY <1>1 DEF NoCopy

\* The caches are empty at the start.
LEMMA CopyInitTyped ==
    ASSUME ContentInit
    PROVE  CopiesOK /\ StaleIsExcused
<1>1. version = [k \in Key |-> 1] /\ cache = [k \in Key |-> NoCopy]
  BY DEF ContentInit
<1>2. CopiesOK
  BY <1>1, NoCopyIsOne DEF CopiesOK
<1>3. StaleIsExcused
  BY <1>1 DEF StaleIsExcused
<1> QED BY <1>2, <1>3

\* The invariant holds at the start.
LEMMA CopyInitInv == CallsInit /\ ContentInit => CopyInv
<1> SUFFICES ASSUME CallsInit, ContentInit PROVE CopyInv
  OBVIOUS
<1>1. CopyCallsOK
  BY DEF CallsInit, CopyCallsOK, CallsShape, CopyHeld, Idle
<1> QED BY <1>1, CopyInitTyped DEF CopyInv

\* What a step of one call asks of it: that each copy it leaves stale is late or owed.
LEMMA CopyStep ==
    ASSUME CopyInv, NEW p \in Proc, NEW c, calls' = [calls EXCEPT ![p] = c], CopyHeld(c), CopiesOK',
           \A k \in Key : Stale(k)' =>
              \/ cache'[k].late
              \/ OwesCopy(c, k)
              \/ Stale(k) /\ cache'[k].late = cache[k].late /\ ~OwesCopy(calls[p], k)
    PROVE  CopyInv'
<1>1. CallsShape' /\ calls'[p] = c /\ \A q \in Proc \ {p} : calls'[q] = calls[q]
  BY OneCall DEF CopyInv, CopyCallsOK
<1>2. CopyCallsOK'
  BY <1>1 DEF CopyInv, CopyCallsOK
<1>3. StaleIsExcused'
  <2> SUFFICES ASSUME NEW k \in Key, Stale(k)'
               PROVE  cache'[k].late \/ \E q \in Proc : OwesCopy(calls'[q], k)
    BY DEF StaleIsExcused, Stale, Owes, OwesCopy, At
  <2>1. CASE cache'[k].late
    BY <2>1
  <2>2. CASE OwesCopy(c, k)
    BY <1>1, <2>2
  <2>3. CASE Stale(k) /\ cache'[k].late = cache[k].late /\ ~OwesCopy(calls[p], k)
    <3>1. cache[k].late \/ \E q \in Proc : OwesCopy(calls[q], k)
      BY <2>3 DEF CopyInv, StaleIsExcused, Stale, Owes, OwesCopy, At
    <3>2. CASE cache[k].late
      BY <2>3, <3>2
    <3>3. CASE \E q \in Proc : OwesCopy(calls[q], k)
      <4>1. PICK q \in Proc : OwesCopy(calls[q], k)
        BY <3>3
      <4>2. q # p
        BY <2>3, <4>1
      <4>3. OwesCopy(calls'[q], k)
        BY <1>1, <4>1, <4>2
      <4> QED BY <4>3
    <3> QED BY <3>1, <3>2, <3>3
  <2> QED BY <2>1, <2>2, <2>3
<1> QED BY <1>2, <1>3 DEF CopyInv

\* A step that leaves the copies and what they copy alone, of a call that owes nothing.
LEMMA CopyQuiet ==
    ASSUME CopyInv, NEW p \in Proc, NEW c, calls' = [calls EXCEPT ![p] = c], CopyHeld(c),
           UNCHANGED <<version, cache>>,
           calls[p].at \notin {"cache.del", "settings.upsert"}
    PROVE  CopyInv'
<1>1. CopiesOK'
  BY DEF CopyInv, CopiesOK
<1>2. \A k \in Key : Stale(k)' => Stale(k) /\ cache'[k].late = cache[k].late /\ ~OwesCopy(calls[p], k)
  BY DEF Stale, OwesCopy
<1> QED BY <1>1, <1>2, CopyStep

\* A handler that only begins.
LEMMA CopyBegin ==
    ASSUME CopyInv, NEW p \in Proc, NEW c, Begin(p, c), UNCHANGED <<version, cache>>, CopyHeld(c)
    PROVE  CopyInv'
<1>1. calls' = [calls EXCEPT ![p] = c] /\ calls[p].at \notin {"cache.del", "settings.upsert"}
  BY DEF Begin, At
<1> QED BY <1>1, CopyQuiet

\* A write by a call that then owes the deletion of what is published under the key.
LEMMA CopyWritten ==
    ASSUME CopyInv, NEW p \in Proc, NEW c, calls' = [calls EXCEPT ![p] = c], CopyHeld(c),
           NEW k \in Key, Written(k), cache' = cache, OwesCopy(c, k),
           calls[p].at # "cache.del", calls[p].at = "settings.upsert" => k = "settings"
    PROVE  CopyInv'
<1>1. version \in [Key -> Nat] /\ version' = [version EXCEPT ![k] = @ + 1]
  BY DEF CopyInv, CopiesOK, Written
<1>2. CopiesOK' /\ \A j \in Key \ {k} : version'[j] = version[j]
  BY <1>1 DEF CopyInv, CopiesOK
<1>3. \A j \in Key : Stale(j)' => \/ OwesCopy(c, j)
                                  \/ Stale(j) /\ cache'[j].late = cache[j].late /\ ~OwesCopy(calls[p], j)
  BY <1>2 DEF Stale, OwesCopy, Key
<1> QED BY <1>2, <1>3, CopyStep

\* A write of the FAQ's that goes on to the cache.
LEMMA FaqToldStep ==
    ASSUME CopyInv, NEW p \in Proc, Written("faq"), ToldOf(p, "faq"), cache' = cache,
           calls[p].at \notin {"cache.del", "settings.upsert"}
    PROVE  CopyInv'
<1>1. PICK c : c = [at |-> "cache.del", key |-> "faq"]
  OBVIOUS
<1>2. calls' = [calls EXCEPT ![p] = c] /\ CopyHeld(c) /\ OwesCopy(c, "faq") /\ "faq" \in Key
  BY <1>1 DEF ToldOf, Goto, CopyHeld, OwesCopy, Key
<1> QED BY <1>2, CopyWritten

\* Steps on the FAQ.
LEMMA CopyFaqStep ==
    ASSUME CopyInv, FaqInv, NEW p \in Proc, FaqStep(p)
    PROVE  CopyInv'
<1>1. CASE FaqInsert(p) \/ FaqWrite(p) \/ ReorderCommit(p)
  <2>1. Written("faq") /\ ToldOf(p, "faq") /\ cache' = cache
        /\ calls[p].at \notin {"cache.del", "settings.upsert"}
    BY <1>1 DEF FaqInsert, FaqWrite, ReorderCommit, At
  <2> QED BY <2>1, FaqToldStep
<1>2. CASE ReorderUpdate(p)
  <2>1. PICK d : d = calls[p]
    OBVIOUS
  <2>2. d = [at |-> "faq.reorder", parent |-> d.parent, ordered |-> d.ordered, next |-> d.next]
    BY <1>2, <2>1 DEF ReorderUpdate, At, FaqInv, FaqCallsOK, FaqHeld
  <2>3. PICK c : c = [d EXCEPT !.next = @ + 1]
    OBVIOUS
  <2>4. c.at = "faq.reorder" /\ d.at = "faq.reorder"
    BY <2>2, <2>3
  <2>5. calls' = [calls EXCEPT ![p] = c] /\ UNCHANGED <<version, cache>>
    BY <1>2, <2>1, <2>3 DEF ReorderUpdate, Goto
  <2>6. CopyHeld(c)
    BY <2>4 DEF CopyHeld
  <2> QED BY <2>1, <2>4, <2>5, <2>6, CopyQuiet
<1>3. CASE ReorderDeadlock(p)
  <2>1. calls' = [calls EXCEPT ![p] = Idle] /\ UNCHANGED <<version, cache>> /\ calls[p].at = "faq.reorder"
    BY <1>3 DEF ReorderDeadlock, Return, Goto, WaitsFor, At
  <2>2. CopyHeld(Idle)
    BY DEF CopyHeld, Idle
  <2> QED BY <2>1, <2>2, CopyQuiet
<1> QED BY <1>1, <1>2, <1>3 DEF FaqStep

\* Requests of administrators about the FAQ.
LEMMA CopyFaqAdminStep ==
    ASSUME CopyInv, NEW p \in Proc, FaqAdminRequest(p)
    PROVE  CopyInv'
<1>1. ASSUME NEW c, Begin(p, c), UNCHANGED contentVars, c.at \notin {"cache.del", "cache.set"}
      PROVE  CopyInv'
  <2>1. UNCHANGED <<version, cache>> /\ CopyHeld(c)
    BY <1>1 DEF contentVars, CopyHeld
  <2> QED BY <1>1, <2>1, CopyBegin
<1>2. ASSUME NEW k, NEW r, NEW n, UNCHANGED contentVars,
             Begin(p, [at |-> "faq.insert", kind |-> k, parent |-> r, position |-> n])
      PROVE  CopyInv'
  <2>1. PICK c : c = [at |-> "faq.insert", kind |-> k, parent |-> r, position |-> n]
    OBVIOUS
  <2> QED BY <1>1, <1>2, <2>1
<1>3. ASSUME NEW ids, NEW data, UNCHANGED contentVars,
             Begin(p, [at |-> "faq.write", ids |-> ids, data |-> data])
      PROVE  CopyInv'
  <2>1. PICK c : c = [at |-> "faq.write", ids |-> ids, data |-> data]
    OBVIOUS
  <2> QED BY <1>1, <1>3, <2>1
<1>4. ASSUME NEW r, NEW l, UNCHANGED contentVars,
             Begin(p, [at |-> "faq.reorder", parent |-> r, ordered |-> l, next |-> 1])
      PROVE  CopyInv'
  <2>1. PICK c : c = [at |-> "faq.reorder", parent |-> r, ordered |-> l, next |-> 1]
    OBVIOUS
  <2> QED BY <1>1, <1>4, <2>1
<1> QED BY <1>2, <1>3, <1>4
  DEF FaqAdminRequest, CreateCategory, CreateItem, DeleteCategory, UpdateCategory, UpdateItem,
      DeleteItem, Reorder

\* Requests about the settings, and public reads.
LEMMA CopySettingsRequest ==
    ASSUME CopyInv, NEW p \in Proc, SettingsRequest(p)
    PROVE  CopyInv'
<1>1. ASSUME NEW keys, UpdateSettings(p, keys) PROVE CopyInv'
  <2>1. PICK c : c = [at |-> "settings.upsert", left |-> keys]
    OBVIOUS
  <2>2. Begin(p, c) /\ UNCHANGED <<version, cache>> /\ CopyHeld(c)
    BY <1>1, <2>1 DEF UpdateSettings, contentVars, CopyHeld
  <2> QED BY <2>2, CopyBegin
<1>2. ASSUME NEW k \in Key, PublicRead(p, k) PROVE CopyInv'
  <2>1. PICK v : v = version[k]
    OBVIOUS
  <2>2. PICK c : c = [at |-> "cache.set", key |-> k, version |-> v]
    OBVIOUS
  <2>3. v \in Nat
    BY <2>1 DEF CopyInv, CopiesOK
  <2>4. Begin(p, c) /\ UNCHANGED <<version, cache>>
    BY <1>2, <2>1, <2>2 DEF PublicRead, contentVars
  <2>5. CopyHeld(c)
    BY <2>2, <2>3 DEF CopyHeld
  <2> QED BY <2>4, <2>5, CopyBegin
<1> QED BY <1>1, <1>2 DEF SettingsRequest

\* A key of the settings is written.
LEMMA SettingsUpsertStep ==
    ASSUME CopyInv, NEW p \in Proc, SettingsUpsert(p)
    PROVE  CopyInv'
<1>1. PICK c : c = [at |-> "settings.upsert", left |-> calls[p].left - 1]
  OBVIOUS
<1>2. PICK d : d = [at |-> "cache.del", key |-> "settings"]
  OBVIOUS
<1>3. CopyHeld(c) /\ CopyHeld(d) /\ OwesCopy(c, "settings") /\ OwesCopy(d, "settings")
      /\ "settings" \in Key
  BY <1>1, <1>2 DEF CopyHeld, OwesCopy, Key
<1>4. Written("settings") /\ cache' = cache /\ calls[p].at = "settings.upsert"
  BY DEF SettingsUpsert, At
<1>5. calls' = [calls EXCEPT ![p] = c] \/ calls' = [calls EXCEPT ![p] = d]
  BY <1>1, <1>2 DEF SettingsUpsert, ToldOf, Goto
<1> QED BY <1>3, <1>4, <1>5, CopyWritten

\* A copy is deleted.
LEMMA CacheDelStep ==
    ASSUME CopyInv, NEW p \in Proc, CacheDel(p)
    PROVE  CopyInv'
<1>1. PICK k : k = calls[p].key
  OBVIOUS
<1>2. k \in Key /\ calls[p].at = "cache.del" /\ cache' = [cache EXCEPT ![k] = NoCopy]
      /\ version' = version /\ calls' = [calls EXCEPT ![p] = Idle]
  BY <1>1 DEF CacheDel, Invalidated, Return, Goto, At, CopyInv, CopyCallsOK, CopyHeld
<1>3. CopiesOK' /\ cache'[k] = NoCopy /\ \A j \in Key \ {k} : cache'[j] = cache[j]
  BY <1>2, NoCopyIsOne DEF CopyInv, CopiesOK
<1>4. CopyHeld(Idle)
  BY DEF CopyHeld, Idle
<1>5. \A j \in Key : Stale(j)' => Stale(j) /\ cache'[j].late = cache[j].late /\ ~OwesCopy(calls[p], j)
  <2> SUFFICES ASSUME NEW j \in Key, Stale(j)'
               PROVE  Stale(j) /\ cache'[j].late = cache[j].late /\ ~OwesCopy(calls[p], j)
    OBVIOUS
  <2>1. j # k
    BY <1>3 DEF Stale
  <2> QED BY <1>1, <1>2, <1>3, <2>1 DEF Stale, OwesCopy
<1> QED BY <1>2, <1>3, <1>4, <1>5, CopyStep

\* A reader puts a copy, late when a write overtook it.
LEMMA CacheSetStep ==
    ASSUME CopyInv, NEW p \in Proc, CacheSet(p)
    PROVE  CopyInv'
<1>1. PICK k : k = calls[p].key
  OBVIOUS
<1>2. PICK v : v = calls[p].version
  OBVIOUS
<1>3. k \in Key /\ v \in Nat /\ calls[p].at = "cache.set"
  BY <1>1, <1>2 DEF CacheSet, At, CopyInv, CopyCallsOK, CopyHeld
<1>4. PICK late \in BOOLEAN : late = (v < version[k])
  <2>1. (v < version[k]) \in BOOLEAN
    BY <1>3 DEF CopyInv, CopiesOK
  <2> QED BY <2>1
<1>5. PICK copy : copy = [version |-> v, late |-> late]
  OBVIOUS
<1>6. cache' = [cache EXCEPT ![k] = copy]
  <2>1. cache' = [cache EXCEPT ![k] = [version |-> v, late |-> v < version[k]]]
    BY <1>1, <1>2 DEF CacheSet
  <2> QED BY <1>4, <1>5, <2>1
<1>7. copy \in [version : Nat, late : BOOLEAN] /\ copy.version = v /\ copy.late = late
  BY <1>3, <1>4, <1>5
<1>8. version' = version /\ calls' = [calls EXCEPT ![p] = Idle]
  BY DEF CacheSet, Return, Goto
<1>9. CopiesOK' /\ cache'[k] = copy /\ \A j \in Key \ {k} : cache'[j] = cache[j]
  BY <1>3, <1>6, <1>7, <1>8 DEF CopyInv, CopiesOK
<1>10. CopyHeld(Idle)
  BY DEF CopyHeld, Idle
<1>11. \A j \in Key : Stale(j)' =>
          \/ cache'[j].late
          \/ Stale(j) /\ cache'[j].late = cache[j].late /\ ~OwesCopy(calls[p], j)
  <2> SUFFICES ASSUME NEW j \in Key, Stale(j)'
               PROVE  \/ cache'[j].late
                      \/ Stale(j) /\ cache'[j].late = cache[j].late /\ ~OwesCopy(calls[p], j)
    OBVIOUS
  <2>1. CASE j = k
    BY <1>4, <1>7, <1>8, <1>9, <2>1 DEF Stale
  <2>2. CASE j # k
    BY <1>3, <1>8, <1>9, <2>2 DEF Stale, OwesCopy
  <2> QED BY <2>1, <2>2
<1> QED BY <1>8, <1>9, <1>10, <1>11, CopyStep

\* A call ends without deleting the copy it owes.
LEMMA CopyAbortStep ==
    ASSUME CopyInv, NEW p \in Proc, ContentAbort(p)
    PROVE  CopyInv'
<1>1. /\ cache' = [k \in Key |-> IF Owes(p, k) THEN [cache[k] EXCEPT !.late = TRUE] ELSE cache[k]]
      /\ version' = version /\ calls' = [calls EXCEPT ![p] = Idle]
  BY DEF ContentAbort, Interrupt, Return, Goto
<1>2. \A k \in Key : Owes(p, k) <=> OwesCopy(calls[p], k)
  BY DEF Owes, OwesCopy, At
<1>3. \A x \in [version : Nat, late : BOOLEAN] :
         LET y == [x EXCEPT !.late = TRUE]
         IN  y \in [version : Nat, late : BOOLEAN] /\ y.late /\ y.version = x.version
  OBVIOUS
<1>4. \A k \in Key : cache[k] \in [version : Nat, late : BOOLEAN]
  BY DEF CopyInv, CopiesOK
<1>5. \A k \in Key : cache'[k] \in [version : Nat, late : BOOLEAN]
                   /\ IF OwesCopy(calls[p], k) THEN cache'[k].late ELSE cache'[k] = cache[k]
  BY <1>1, <1>2, <1>3, <1>4
<1>6. CopiesOK'
  BY <1>1, <1>5 DEF CopyInv, CopiesOK
<1>7. \A k \in Key : Stale(k)' =>
         \/ cache'[k].late
         \/ Stale(k) /\ cache'[k].late = cache[k].late /\ ~OwesCopy(calls[p], k)
  BY <1>1, <1>5 DEF Stale
<1>8. CopyHeld(Idle)
  BY DEF CopyHeld, Idle
<1> QED BY <1>1, <1>6, <1>7, <1>8, CopyStep

\* A step that is no call's, after which no copy is stale that was not.
LEMMA CopyStill ==
    ASSUME CopyInv, CallsShape', UNCHANGED version, CopiesOK',
           \A k \in Key : cache'[k] = cache[k] \/ cache'[k] = NoCopy,
           \A q \in Proc : \/ calls'[q] = calls[q]
                           \/ calls[q].at = "notice.batch" /\ calls'[q].at = "notice.batch"
    PROVE  CopyInv'
<1>1. CopyCallsOK'
  <2>1. ASSUME NEW q \in Proc PROVE CopyHeld(calls'[q])
    BY DEF CopyInv, CopyCallsOK, CopyHeld
  <2> QED BY <2>1 DEF CopyCallsOK
<1>2. StaleIsExcused'
  <2> SUFFICES ASSUME NEW k \in Key, Stale(k)'
               PROVE  cache'[k].late \/ \E q \in Proc : OwesCopy(calls'[q], k)
    BY DEF StaleIsExcused, Stale, Owes, OwesCopy, At
  <2>1. cache'[k] = cache[k] /\ Stale(k)
    BY DEF Stale
  <2>2. cache[k].late \/ \E q \in Proc : OwesCopy(calls[q], k)
    BY <2>1 DEF CopyInv, StaleIsExcused, Stale, Owes, OwesCopy, At
  <2>3. \A q \in Proc : OwesCopy(calls[q], k) => OwesCopy(calls'[q], k)
    BY DEF OwesCopy
  <2> QED BY <2>1, <2>2, <2>3
<1> QED BY <1>1, <1>2 DEF CopyInv

\* A copy expires.
LEMMA CacheExpiresStep ==
    ASSUME CopyInv, NEW k \in Key, CacheExpires(k)
    PROVE  CopyInv'
<1>1. cache' = [cache EXCEPT ![k] = NoCopy] /\ version' = version /\ calls' = calls
  BY DEF CacheExpires, callVars
<1>2. CopiesOK' /\ \A j \in Key : cache'[j] = cache[j] \/ cache'[j] = NoCopy
  BY <1>1, NoCopyIsOne DEF CopyInv, CopiesOK
<1>3. CallsShape'
  BY <1>1 DEF CopyInv, CopyCallsOK, CallsShape
<1> QED BY <1>1, <1>2, <1>3, CopyStill

-------------------------------------------------------------------------------
(* The maintenance notice                                                    *)

\* A list of rising numbers.
Rising(s) == \A m, n \in 1 .. Len(s) : m < n => s[m] < s[n]

\* A broadcast in service.
Mailing(start, sent, cursor, fell) ==
    /\ start \subseteq Customers
    /\ sent \in Seq(Customers)
    /\ cursor \in Nat
    /\ Rising(sent)
    /\ \A n \in 1 .. Len(sent) : sent[n] <= cursor
    /\ \/ fell
       \/ /\ cursor = 0 \/ cursor \in reachable
          /\ \A u \in start : In(sent, u) \/ (u \in reachable /\ u > cursor)

\* findMany with a cursor and skip 1: while the cursor's row matches, it is the one skipped.
LEMMA AfterTheCursor ==
    ASSUME reachable \subseteq Customers, NEW cursor \in Nat
    PROVE  /\ RecipientsAfter(cursor) \subseteq reachable
           /\ IsFiniteSet(RecipientsAfter(cursor))
           /\ \A u \in RecipientsAfter(cursor) : u > cursor
           /\ cursor = 0 \/ cursor \in reachable =>
                 \A u \in reachable : u > cursor => u \in RecipientsAfter(cursor)
<1>1. \A u \in Customers : u \in Nat \ {0}
  BY ContentAssumption
<1>2. PICK onward : onward = {u \in reachable : u >= cursor}
  OBVIOUS
<1>3. PICK after : after = IF cursor = 0 \/ onward = {} THEN onward ELSE onward \ {Min(onward)}
  OBVIOUS
<1>4. RecipientsAfter(cursor) = after
  BY <1>2, <1>3 DEF RecipientsAfter
<1>5. after \subseteq onward /\ onward \subseteq reachable
  BY <1>2, <1>3
<1>6. IsFiniteSet(after)
  <2>1. IsFiniteSet(Customers)
    BY ContentAssumption
  <2> QED BY <1>5, <2>1, FS_Subset
<1>7. cursor \in onward => Min(onward) = cursor
  <2> SUFFICES ASSUME cursor \in onward PROVE Min(onward) = cursor
    OBVIOUS
  <2>1. \A u \in onward : u \in Nat /\ cursor =< u
    BY <1>1, <1>2
  <2>2. \E x \in onward : \A y \in onward : x =< y
    BY <2>1
  <2>3. Min(onward) \in onward /\ \A y \in onward : Min(onward) =< y
    BY <2>2, Zenon DEF Min
  <2>4. PICK m : m = Min(onward)
    OBVIOUS
  <2>5. m \in Nat /\ cursor =< m /\ m =< cursor
    BY <2>1, <2>3, <2>4
  <2> QED BY <2>4, <2>5
<1>8. \A u \in after : u > cursor
  <2> SUFFICES ASSUME NEW u \in after PROVE u > cursor
    OBVIOUS
  <2>1. u \in Nat \ {0} /\ u >= cursor
    BY <1>1, <1>2, <1>5
  <2>2. u # cursor
    <3> SUFFICES ASSUME u = cursor PROVE FALSE
      OBVIOUS
    <3>1. cursor \in onward /\ cursor # 0
      BY <1>5, <2>1
    <3> QED BY <1>3, <1>7, <3>1
  <2> QED BY <2>1, <2>2
<1>9. ASSUME cursor = 0 \/ cursor \in reachable, NEW u \in reachable, u > cursor
      PROVE  u \in after
  <2>1. u \in onward
    BY <1>1, <1>2, <1>9
  <2>2. CASE cursor = 0
    BY <1>3, <2>1, <2>2
  <2>3. CASE cursor # 0
    <3>1. cursor \in onward
      BY <1>2, <1>9, <2>3
    <3>2. Min(onward) = cursor /\ u # cursor
      BY <1>7, <1>9, <3>1
    <3> QED BY <1>3, <2>1, <3>2
  <2> QED BY <2>2, <2>3
<1> QED BY <1>4, <1>5, <1>6, <1>8, <1>9

\* A batch is the first of those after the cursor, and all of them when it is short.
LEMMA NoticeToFirst ==
    ASSUME reachable \subseteq Customers, NEW cursor \in Nat
    PROVE  /\ NoticeTo(cursor) \in Seq(Customers)
           /\ Rising(NoticeTo(cursor))
           /\ \A n \in 1 .. Len(NoticeTo(cursor)) : NoticeTo(cursor)[n] \in RecipientsAfter(cursor)
           /\ \A u \in RecipientsAfter(cursor) :
                 \/ In(NoticeTo(cursor), u)
                 \/ /\ Len(NoticeTo(cursor)) = NoticeBatch
                    /\ \A n \in 1 .. Len(NoticeTo(cursor)) : NoticeTo(cursor)[n] < u
<1>1. PICK S : S = RecipientsAfter(cursor)
  OBVIOUS
<1>2. S \subseteq Customers /\ IsFiniteSet(S) /\ Cardinality(S) \in Nat /\ \A u \in S : u \in Nat
  BY <1>1, AfterTheCursor, ContentAssumption, FS_CardinalityType
<1>3. PICK k \in Nat : k = IF Cardinality(S) < NoticeBatch THEN Cardinality(S) ELSE NoticeBatch
  BY <1>2, ContentAssumption
<1>4. k <= Cardinality(S) /\ (k = Cardinality(S) \/ k = NoticeBatch)
  BY <1>2, <1>3, ContentAssumption
<1> DEFINE First(b) ==
              /\ \A m, n \in 1 .. k : m < n => b[m] < b[n]
              /\ \A u \in S \ {b[n] : n \in 1 .. k} : \A n \in 1 .. k : b[n] < u
<1>5. \E b \in [1 .. k -> S] : First(b)
  <2>1. PICK R : R = {t \in S \X S : t[1] < t[2]}
    OBVIOUS
  <2>2. Ordered(S, R)
    BY <1>2, <2>1 DEF Ordered
  <2>3. PICK b \in [1 .. k -> S] :
            /\ \A m, n \in 1 .. k : m < n => <<b[m], b[n]>> \in R
            /\ \A x \in S \ {b[n] : n \in 1 .. k} : \A n \in 1 .. k : <<b[n], x>> \in R
    BY <1>2, <1>4, <2>2, FirstOnesAreThere
  <2>4. First(b)
    BY <2>1, <2>3
  <2> QED BY <2>4
<1>6. PICK b : b = NoticeTo(cursor)
  OBVIOUS
<1>7. b = CHOOSE e \in [1 .. k -> S] : First(e)
  BY <1>1, <1>3, <1>6 DEF NoticeTo
<1>8. b \in [1 .. k -> S] /\ First(b)
  <2> HIDE DEF First
  <2> QED BY <1>5, <1>7
<1>9. Len(b) = k /\ b \in Seq(Customers) /\ Rising(b) /\ \A n \in 1 .. Len(b) : b[n] \in S
  BY <1>2, <1>8 DEF Rising
<1>10. \A u \in S : In(b, u) \/ (k = NoticeBatch /\ \A n \in 1 .. k : b[n] < u)
  <2> TAKE u \in S
  <2>1. CASE \E n \in 1 .. k : b[n] = u
    BY <2>1, <1>9 DEF In
  <2>2. CASE ~ \E n \in 1 .. k : b[n] = u
    <3>1. \A n \in 1 .. k : b[n] < u
      BY <2>2, <1>8
    <3>2. k # Cardinality(S)
      <4> SUFFICES ASSUME k = Cardinality(S) PROVE FALSE
        OBVIOUS
      <4>1. \A m, n \in 1 .. k : m < n => b[m] # b[n]
        BY <1>2, <1>8
      <4> QED BY <2>2, <1>2, <1>8, <4>1, FullList
    <3> QED BY <3>1, <3>2, <1>4
  <2> QED BY <2>1, <2>2
<1> HIDE DEF First
<1> QED BY <1>1, <1>6, <1>9, <1>10

\* What has been mailed with a batch more.
LEMMA MailedFurther ==
    ASSUME reachable \subseteq Customers, NEW start, NEW sent, NEW cursor, NEW fell \in BOOLEAN,
           Mailing(start, sent, cursor, fell), NEW batch, batch = NoticeTo(cursor)
    PROVE  /\ sent \o batch \in Seq(Customers)
           /\ Rising(sent \o batch)
           /\ Len(batch) # NoticeBatch => fell \/ \A u \in start : In(sent \o batch, u)
           /\ Len(batch) = NoticeBatch => Mailing(start, sent \o batch, Last(batch), fell)
<1>1. sent \in Seq(Customers) /\ Len(sent) \in Nat /\ cursor \in Nat /\ Rising(sent)
      /\ \A n \in 1 .. Len(sent) : sent[n] <= cursor
  BY DEF Mailing
<1>2. PICK S : S = RecipientsAfter(cursor)
  OBVIOUS
<1>3. /\ S \subseteq reachable /\ (\A u \in S : u > cursor)
      /\ cursor = 0 \/ cursor \in reachable => \A u \in reachable : u > cursor => u \in S
  BY <1>1, <1>2, AfterTheCursor
<1>4. /\ batch \in Seq(Customers) /\ Rising(batch)
      /\ \A n \in 1 .. Len(batch) : batch[n] \in S
      /\ \A u \in S : \/ In(batch, u)
                      \/ Len(batch) = NoticeBatch /\ \A n \in 1 .. Len(batch) : batch[n] < u
  BY <1>1, <1>2, NoticeToFirst
<1>5. \A u \in Customers : u \in Nat
  BY ContentAssumption
<1>6. PICK w : w = sent \o batch
  OBVIOUS
<1>7. w \in Seq(Customers) /\ Len(batch) \in Nat /\ Len(w) = Len(sent) + Len(batch)
  BY <1>1, <1>4, <1>6
<1>8. \A n \in 1 .. Len(w) :
         \/ n \in 1 .. Len(sent) /\ w[n] = sent[n]
         \/ n - Len(sent) \in 1 .. Len(batch) /\ w[n] = batch[n - Len(sent)] /\ n > Len(sent)
  BY <1>1, <1>4, <1>6, <1>7
<1>9. Rising(w)
  <2> SUFFICES ASSUME NEW m \in 1 .. Len(w), NEW n \in 1 .. Len(w), m < n PROVE w[m] < w[n]
    BY DEF Rising
  <2>1. CASE n \in 1 .. Len(sent) /\ w[n] = sent[n]
    <3>1. m \in 1 .. Len(sent) /\ w[m] = sent[m]
      BY <1>1, <1>7, <1>8, <2>1
    <3> QED BY <1>1, <2>1, <3>1 DEF Rising
  <2>2. CASE n - Len(sent) \in 1 .. Len(batch) /\ w[n] = batch[n - Len(sent)] /\ n > Len(sent)
    <3>1. CASE m \in 1 .. Len(sent) /\ w[m] = sent[m]
      <4>1. w[m] <= cursor /\ w[m] \in Nat
        BY <1>1, <1>5, <3>1
      <4>2. w[n] \in S /\ w[n] \in Customers
        BY <1>4, <1>7, <2>2
      <4>3. w[n] > cursor /\ w[n] \in Nat
        BY <1>3, <1>5, <4>2
      <4> QED BY <1>1, <4>1, <4>3
    <3>2. CASE m - Len(sent) \in 1 .. Len(batch) /\ w[m] = batch[m - Len(sent)] /\ m > Len(sent)
      <4>1. m - Len(sent) < n - Len(sent)
        BY <1>1, <1>7
      <4> QED BY <1>4, <2>2, <3>2, <4>1 DEF Rising
    <3> QED BY <3>1, <3>2, <1>8
  <2> QED BY <2>1, <2>2, <1>8
<1>10. \A u : In(w, u) <=> In(sent, u) \/ In(batch, u)
  BY <1>1, <1>4, <1>6, InConcat
<1>11. fell \/ \A u \in start : In(w, u) \/ (u \in S /\ ~In(batch, u))
  BY <1>3, <1>10 DEF Mailing
<1>12. Len(batch) # NoticeBatch => fell \/ \A u \in start : In(w, u)
  BY <1>4, <1>11
<1>13. ASSUME Len(batch) = NoticeBatch PROVE Mailing(start, w, Last(batch), fell)
  <2>1. PICK x : x = Last(batch)
    OBVIOUS
  <2>2. x = batch[Len(batch)] /\ Len(batch) \in 1 .. Len(batch)
    BY <1>7, <1>13, <2>1, ContentAssumption DEF Last
  <2>3. x \in S /\ x \in reachable /\ x \in Nat
    BY <1>3, <1>4, <1>5, <2>2
  <2>4. \A n \in 1 .. Len(w) : w[n] <= x
    <3>1. w[Len(w)] = x /\ Len(w) \in 1 .. Len(w)
      <4>1. Len(sent) + Len(batch) \in 1 .. Len(w) /\ (sent \o batch)[Len(sent) + Len(batch)] = batch[Len(batch)]
        BY <1>1, <1>4, <1>7, <2>2
      <4> QED BY <1>6, <1>7, <2>2, <4>1
    <3> SUFFICES ASSUME NEW n \in 1 .. Len(w) PROVE w[n] <= x
      OBVIOUS
    <3>2. CASE n = Len(w)
      BY <2>3, <3>1, <3>2
    <3>3. CASE n # Len(w)
      <4>1. n < Len(w) /\ w[n] \in Nat
        BY <1>5, <1>7, <3>3
      <4>2. w[n] < w[Len(w)]
        BY <1>9, <3>1, <4>1 DEF Rising
      <4> QED BY <2>3, <3>1, <4>1, <4>2
    <3> QED BY <3>2, <3>3
  <2>5. fell \/ \A u \in start : In(w, u) \/ (u \in reachable /\ u > x)
    <3> SUFFICES ASSUME ~fell, NEW u \in start, ~In(w, u) PROVE u \in reachable /\ u > x
      OBVIOUS
    <3>1. u \in S /\ ~In(batch, u)
      BY <1>11
    <3>2. batch[Len(batch)] < u /\ u \in reachable /\ u \in Nat
      BY <1>3, <1>4, <1>5, <2>2, <3>1
    <3> QED BY <2>2, <2>3, <3>2
  <2>6. start \subseteq Customers
    BY DEF Mailing
  <2> QED BY <1>7, <1>9, <2>1, <2>3, <2>4, <2>5, <2>6 DEF Mailing
<1> QED BY <1>6, <1>7, <1>9, <1>12, <1>13

\* What a call that mails a notice holds.
NoticeHeld(c) ==
    c.at = "notice.batch" =>
       /\ c = [at |-> "notice.batch", cursor |-> c.cursor, sent |-> c.sent, start |-> c.start,
               fell |-> c.fell]
       /\ c.fell \in BOOLEAN
       /\ Mailing(c.start, c.sent, c.cursor, c.fell)

\* Every call holds what it needs.
NoticeCallsOK == CallsShape /\ \A p \in Proc : NoticeHeld(calls[p])

\* Customers and notices.
NoticesOK ==
    /\ reachable \subseteq Customers
    /\ \A n \in notices : n.sent \in Seq(Customers) /\ n.start \subseteq Customers

\* The inductive invariant of the notices.
NoticeInv == NoticeCallsOK /\ NoticesOK /\ NoticeReachesAll

\* The invariant holds at the start.
LEMMA NoticeInitInv == CallsInit /\ ContentInit => NoticeInv
BY DEF CallsInit, ContentInit, NoticeInv, NoticeCallsOK, CallsShape, NoticeHeld, Idle, NoticesOK,
       NoticeReachesAll

\* A step of one call, while nobody comes or goes.
LEMMA NoticeCallStep ==
    ASSUME NoticeInv, NEW p \in Proc, NEW c, calls' = [calls EXCEPT ![p] = c], NoticeHeld(c)',
           reachable' = reachable
    PROVE  NoticeCallsOK'
<1>1. CallsShape' /\ calls'[p] = c /\ \A q \in Proc \ {p} : calls'[q] = calls[q]
  BY OneCall DEF NoticeInv, NoticeCallsOK
<1>2. ASSUME NEW q \in Proc PROVE NoticeHeld(calls[q])'
  <2>1. CASE q = p
    BY <1>1, <2>1
  <2>2. CASE q # p
    <3>1. PICK d : d = calls[q] /\ calls'[q] = d
      BY <1>1, <2>2
    <3>2. NoticeHeld(d)
      BY <3>1 DEF NoticeInv, NoticeCallsOK
    <3>3. NoticeHeld(d)'
      BY <3>2 DEF NoticeHeld, Mailing
    <3> QED BY <3>1, <3>3
  <2> QED BY <2>1, <2>2
<1> QED BY <1>1, <1>2 DEF NoticeCallsOK

\* A step that is not about notices.
LEMMA NoticeQuiet ==
    ASSUME NoticeInv, NEW p \in Proc, NEW c, calls' = [calls EXCEPT ![p] = c], NoticeHeld(c)',
           UNCHANGED noticeVars
    PROVE  NoticeInv'
<1>1. UNCHANGED <<reachable, notices>>
  BY DEF noticeVars
<1>2. NoticeCallsOK'
  BY <1>1, NoticeCallStep
<1> QED BY <1>1, <1>2 DEF NoticeInv, NoticesOK, NoticeReachesAll

\* A broadcast begins.
LEMMA NoticeBeginStep ==
    ASSUME NoticeInv, NEW p \in Proc, NoticeBegin(p)
    PROVE  NoticeInv'
<1>1. PICK fell \in BOOLEAN : fell = FALSE
  OBVIOUS
<1>2. PICK c : c = [at |-> "notice.batch", cursor |-> 0, sent |-> <<>>, start |-> reachable,
                    fell |-> fell]
  OBVIOUS
<1>3. calls' = [calls EXCEPT ![p] = c] /\ UNCHANGED noticeVars
  BY <1>1, <1>2 DEF NoticeBegin, Begin, contentVars, noticeVars
<1>4. PICK sent : sent = <<>>
  OBVIOUS
<1>5. PICK start : start = reachable
  OBVIOUS
<1>6. Mailing(start, sent, 0, fell)
  <2>1. sent \in Seq(Customers) /\ Len(sent) = 0 /\ start \subseteq Customers
    BY <1>4, <1>5 DEF NoticeInv, NoticesOK
  <2>2. \A u \in start : u \in reachable /\ u > 0
    BY <1>5, ContentAssumption DEF NoticeInv, NoticesOK
  <2> QED BY <2>1, <2>2 DEF Mailing, Rising
<1>7. reachable' = reachable
  BY <1>3 DEF noticeVars
<1>8. Mailing(start, sent, 0, fell)'
  BY <1>6, <1>7 DEF Mailing
<1>9. /\ c.at = "notice.batch" /\ c.cursor = 0 /\ c.sent = sent /\ c.start = start /\ c.fell = fell
      /\ c = [at |-> "notice.batch", cursor |-> c.cursor, sent |-> c.sent, start |-> c.start,
              fell |-> c.fell]
  BY <1>2, <1>4, <1>5
<1>10. NoticeHeld(c)'
  BY <1>8, <1>9 DEF NoticeHeld
<1> QED BY <1>3, <1>10, NoticeQuiet

\* A batch is mailed, a short one is the last.
LEMMA NoticeNextStep ==
    ASSUME NoticeInv, NEW p \in Proc, NoticeNext(p)
    PROVE  NoticeInv'
<1>1. PICK c : c = calls[p]
  OBVIOUS
<1>2. PICK cursor : cursor = c.cursor
  OBVIOUS
<1>3. PICK start : start = c.start
  OBVIOUS
<1>4. PICK fell \in BOOLEAN : fell = c.fell
  BY <1>1 DEF NoticeNext, At, NoticeInv, NoticeCallsOK, NoticeHeld
<1>5. PICK batch : batch = NoticeTo(cursor)
  OBVIOUS
<1>6. PICK sent : sent = c.sent \o batch
  OBVIOUS
<1>7. c = [at |-> "notice.batch", cursor |-> cursor, sent |-> c.sent, start |-> start, fell |-> fell]
      /\ Mailing(start, c.sent, cursor, fell)
  BY <1>1, <1>2, <1>3, <1>4 DEF NoticeNext, At, NoticeInv, NoticeCallsOK, NoticeHeld
<1>8. /\ sent \in Seq(Customers)
      /\ Rising(sent)
      /\ Len(batch) # NoticeBatch => fell \/ \A u \in start : In(sent, u)
      /\ Len(batch) = NoticeBatch => Mailing(start, sent, Last(batch), fell)
  <2>1. reachable \subseteq Customers
    BY DEF NoticeInv, NoticesOK
  <2>2. PICK before : before = c.sent
    OBVIOUS
  <2>3. sent = before \o batch /\ Mailing(start, before, cursor, fell)
    BY <1>6, <1>7, <2>2
  <2>4. /\ before \o batch \in Seq(Customers)
        /\ Rising(before \o batch)
        /\ Len(batch) # NoticeBatch => fell \/ \A u \in start : In(before \o batch, u)
        /\ Len(batch) = NoticeBatch => Mailing(start, before \o batch, Last(batch), fell)
    BY <1>5, <2>1, <2>3, MailedFurther
  <2> QED BY <2>3, <2>4
<1>9. reachable' = reachable
  BY DEF NoticeNext
<1>10. CASE Len(batch) = NoticeBatch
  <2>1. PICK last : last = Last(batch)
    OBVIOUS
  <2>2. PICK d : d = [c EXCEPT !.cursor = last, !.sent = sent]
    OBVIOUS
  <2>3. calls' = [calls EXCEPT ![p] = d] /\ notices' = notices
    BY <1>1, <1>2, <1>5, <1>6, <1>10, <2>1, <2>2 DEF NoticeNext, Goto
  <2>4. d = [at |-> "notice.batch", cursor |-> last, sent |-> sent, start |-> start, fell |-> fell]
    <3>1. PICK before : c = [at |-> "notice.batch", cursor |-> cursor, sent |-> before,
                             start |-> start, fell |-> fell]
      BY <1>7
    <3> QED BY <2>2, <3>1
  <2>5. Mailing(start, sent, last, fell)'
    BY <1>8, <1>9, <1>10, <2>1 DEF Mailing
  <2>6. d.at = "notice.batch" /\ d.cursor = last /\ d.sent = sent /\ d.start = start /\ d.fell = fell
    BY <2>4
  <2>7. NoticeHeld(d)'
    BY <2>4, <2>5, <2>6 DEF NoticeHeld
  <2> QED BY <1>9, <2>3, <2>7, NoticeQuiet DEF noticeVars
<1>11. CASE Len(batch) # NoticeBatch
  <2>1. PICK x : x = [sent |-> sent, start |-> start, fell |-> fell]
    OBVIOUS
  <2>2. calls' = [calls EXCEPT ![p] = Idle] /\ notices' = notices \cup {x}
    BY <1>1, <1>2, <1>3, <1>4, <1>5, <1>6, <1>11, <2>1 DEF NoticeNext, Return, Goto
  <2>3. NoticeHeld(Idle)'
    BY DEF NoticeHeld, Idle
  <2>4. NoticeCallsOK'
    BY <1>9, <2>2, <2>3, NoticeCallStep
  <2>5. x.sent = sent /\ x.start = start /\ x.fell = fell
    BY <2>1
  <2>6. NoticesOK'
    BY <1>7, <1>8, <1>9, <2>2, <2>5 DEF NoticeInv, NoticesOK, Mailing
  <2>7. \A i, j \in DOMAIN x.sent : i # j => x.sent[i] # x.sent[j]
    <3> SUFFICES ASSUME NEW i \in DOMAIN sent, NEW j \in DOMAIN sent, i # j PROVE sent[i] # sent[j]
      BY <2>5
    <3>1. i \in 1 .. Len(sent) /\ j \in 1 .. Len(sent) /\ sent[i] \in Customers /\ sent[j] \in Customers
      BY <1>8
    <3>2. sent[i] \in Nat /\ sent[j] \in Nat
      BY <3>1, ContentAssumption
    <3>3. i < j \/ j < i
      BY <3>1
    <3> QED BY <1>8, <3>1, <3>2, <3>3 DEF Rising
  <2>8. x.fell \/ x.start \subseteq {x.sent[i] : i \in DOMAIN x.sent}
    BY <1>8, <1>11, <2>5 DEF In
  <2>9. \A n \in notices' : n \in notices \/ n = x
    BY <2>2
  <2>10. \A n \in notices : /\ \A i, j \in DOMAIN n.sent : i # j => n.sent[i] # n.sent[j]
                            /\ n.fell \/ n.start \subseteq {n.sent[i] : i \in DOMAIN n.sent}
    BY DEF NoticeInv, NoticeReachesAll
  <2>11. NoticeReachesAll'
    BY <2>7, <2>8, <2>9, <2>10 DEF NoticeReachesAll
  <2> QED BY <2>4, <2>6, <2>11 DEF NoticeInv
<1> QED BY <1>10, <1>11

\* A customer comes or goes.
LEMMA ReachChangesStep ==
    ASSUME NoticeInv, NEW u \in Customers, ReachChanges(u)
    PROVE  NoticeInv'
<1>1. calls' = [p \in Proc |-> IF calls[p].at = "notice.batch" /\ u \in reachable
                               THEN [calls[p] EXCEPT !.fell = TRUE] ELSE calls[p]]
      /\ reachable' = (IF u \in reachable THEN reachable \ {u} ELSE reachable \cup {u})
      /\ notices' = notices
  BY DEF ReachChanges, At
<1>2. CallsShape'
  BY <1>1 DEF CallsShape
<1>3. ASSUME NEW q \in Proc PROVE NoticeHeld(calls[q])'
  <2>1. PICK c : c = calls[q]
    OBVIOUS
  <2>2. NoticeHeld(c)
    BY <2>1 DEF NoticeInv, NoticeCallsOK
  <2>3. CASE c.at # "notice.batch"
    BY <1>1, <2>1, <2>3 DEF NoticeHeld
  <2>4. CASE c.at = "notice.batch" /\ u \notin reachable
    <3>1. calls'[q] = c /\ reachable \subseteq reachable'
      BY <1>1, <2>1, <2>4
    <3>2. NoticeHeld(c)'
      BY <2>2, <3>1 DEF NoticeHeld, Mailing
    <3> QED BY <3>1, <3>2
  <2>5. CASE c.at = "notice.batch" /\ u \in reachable
    <3>1. PICK fell \in BOOLEAN : fell = TRUE
      OBVIOUS
    <3>2. PICK d : d = [c EXCEPT !.fell = fell]
      OBVIOUS
    <3>3. calls'[q] = d
      BY <1>1, <2>1, <2>5, <3>1, <3>2
    <3>4. c = [at |-> "notice.batch", cursor |-> c.cursor, sent |-> c.sent, start |-> c.start,
               fell |-> c.fell]
          /\ Mailing(c.start, c.sent, c.cursor, c.fell)
      BY <2>2, <2>5 DEF NoticeHeld
    <3>5. d = [at |-> "notice.batch", cursor |-> c.cursor, sent |-> c.sent, start |-> c.start,
               fell |-> fell]
      BY <3>2, <3>4
    <3>6. Mailing(c.start, c.sent, c.cursor, fell)'
      BY <3>1, <3>4 DEF Mailing
    <3>7. d.at = "notice.batch" /\ d.cursor = c.cursor /\ d.sent = c.sent /\ d.start = c.start
          /\ d.fell = fell
      BY <3>5
    <3>8. NoticeHeld(d)'
      BY <3>5, <3>6, <3>7 DEF NoticeHeld
    <3> QED BY <3>3, <3>8
  <2> QED BY <2>3, <2>4, <2>5
<1>4. NoticeCallsOK'
  BY <1>2, <1>3 DEF NoticeCallsOK
<1> QED BY <1>1, <1>4 DEF NoticeInv, NoticesOK, NoticeReachesAll

-------------------------------------------------------------------------------
(* The contents, put together                                                *)

\* The FAQ, the settings and the caches leave the notices alone.
LEMMA NoticeOthersStep ==
    ASSUME NoticeInv, FaqInv, NEW p \in Proc,
           \/ FaqAdminRequest(p) \/ FaqStep(p) \/ SettingsRequest(p) \/ SettingsStep(p)
           \/ ContentAbort(p)
    PROVE  NoticeInv'
<1>1. ASSUME NEW c, calls' = [calls EXCEPT ![p] = c], UNCHANGED noticeVars, c.at # "notice.batch"
      PROVE  NoticeInv'
  <2>1. NoticeHeld(c)'
    BY <1>1 DEF NoticeHeld
  <2> QED BY <1>1, <2>1, NoticeQuiet
<1>2. ASSUME NEW c, Begin(p, c), UNCHANGED contentVars, c.at # "notice.batch"
      PROVE  NoticeInv'
  BY <1>1, <1>2 DEF Begin, contentVars, noticeVars
<1>3. Idle.at # "notice.batch"
  BY DEF Idle
<1>4. CASE FaqAdminRequest(p)
  <2>1. ASSUME NEW k, NEW r, NEW n, UNCHANGED contentVars,
               Begin(p, [at |-> "faq.insert", kind |-> k, parent |-> r, position |-> n])
        PROVE  NoticeInv'
    <3>1. PICK c : c = [at |-> "faq.insert", kind |-> k, parent |-> r, position |-> n]
      OBVIOUS
    <3> QED BY <1>2, <2>1, <3>1
  <2>2. ASSUME NEW ids, NEW data, UNCHANGED contentVars,
               Begin(p, [at |-> "faq.write", ids |-> ids, data |-> data])
        PROVE  NoticeInv'
    <3>1. PICK c : c = [at |-> "faq.write", ids |-> ids, data |-> data]
      OBVIOUS
    <3> QED BY <1>2, <2>2, <3>1
  <2>3. ASSUME NEW r, NEW l, UNCHANGED contentVars,
               Begin(p, [at |-> "faq.reorder", parent |-> r, ordered |-> l, next |-> 1])
        PROVE  NoticeInv'
    <3>1. PICK c : c = [at |-> "faq.reorder", parent |-> r, ordered |-> l, next |-> 1]
      OBVIOUS
    <3> QED BY <1>2, <2>3, <3>1
  <2> QED BY <1>4, <2>1, <2>2, <2>3
    DEF FaqAdminRequest, CreateCategory, CreateItem, DeleteCategory, UpdateCategory, UpdateItem,
        DeleteItem, Reorder
<1>5. CASE FaqStep(p)
  <2>1. UNCHANGED noticeVars
    BY <1>5 DEF FaqStep, FaqInsert, FaqWrite, ReorderUpdate, ReorderCommit, ReorderDeadlock
  <2>2. CASE FaqInsert(p) \/ FaqWrite(p) \/ ReorderCommit(p)
    <3>1. PICK c : c = [at |-> "cache.del", key |-> "faq"]
      OBVIOUS
    <3>2. calls' = [calls EXCEPT ![p] = c] /\ c.at # "notice.batch"
      BY <2>2, <3>1 DEF FaqInsert, FaqWrite, ReorderCommit, ToldOf, Goto
    <3> QED BY <1>1, <2>1, <3>2
  <2>3. CASE ReorderUpdate(p)
    <3>1. PICK d : d = calls[p]
      OBVIOUS
    <3>2. d = [at |-> "faq.reorder", parent |-> d.parent, ordered |-> d.ordered, next |-> d.next]
      BY <2>3, <3>1 DEF ReorderUpdate, At, FaqInv, FaqCallsOK, FaqHeld
    <3>3. PICK c : c = [d EXCEPT !.next = @ + 1]
      OBVIOUS
    <3>4. calls' = [calls EXCEPT ![p] = c] /\ c.at # "notice.batch"
      BY <2>3, <3>1, <3>2, <3>3 DEF ReorderUpdate, Goto
    <3> QED BY <1>1, <2>1, <3>4
  <2>4. CASE ReorderDeadlock(p)
    BY <1>1, <1>3, <2>1, <2>4 DEF ReorderDeadlock, Return, Goto
  <2> QED BY <1>5, <2>2, <2>3, <2>4 DEF FaqStep
<1>6. CASE SettingsRequest(p)
  <2>1. ASSUME NEW keys, UpdateSettings(p, keys) PROVE NoticeInv'
    <3>1. PICK c : c = [at |-> "settings.upsert", left |-> keys]
      OBVIOUS
    <3> QED BY <1>2, <2>1, <3>1 DEF UpdateSettings
  <2>2. ASSUME NEW k, PublicRead(p, k) PROVE NoticeInv'
    <3>1. PICK c : c = [at |-> "cache.set", key |-> k, version |-> version[k]]
      OBVIOUS
    <3> QED BY <1>2, <2>2, <3>1 DEF PublicRead
  <2> QED BY <1>6, <2>1, <2>2 DEF SettingsRequest
<1>7. CASE SettingsStep(p)
  <2>1. UNCHANGED noticeVars
    BY <1>7 DEF SettingsStep, SettingsUpsert, CacheDel, CacheSet
  <2>2. CASE SettingsUpsert(p)
    <3>1. PICK c : c = [at |-> "settings.upsert", left |-> calls[p].left - 1]
      OBVIOUS
    <3>2. PICK d : d = [at |-> "cache.del", key |-> "settings"]
      OBVIOUS
    <3>3. calls' = [calls EXCEPT ![p] = c] \/ calls' = [calls EXCEPT ![p] = d]
      BY <2>2, <3>1, <3>2 DEF SettingsUpsert, ToldOf, Goto
    <3> QED BY <1>1, <2>1, <3>1, <3>2, <3>3
  <2>3. CASE CacheDel(p) \/ CacheSet(p)
    BY <1>1, <1>3, <2>1, <2>3 DEF CacheDel, CacheSet, Return, Goto
  <2> QED BY <1>7, <2>2, <2>3 DEF SettingsStep
<1>8. CASE ContentAbort(p)
  BY <1>1, <1>3, <1>8 DEF ContentAbort, Interrupt, Return, Goto
<1> QED BY <1>4, <1>5, <1>6, <1>7, <1>8

\* Broadcasts leave the caches alone.
LEMMA CopyNoticeStep ==
    ASSUME CopyInv, NoticeInv, NEW p \in Proc, NoticeBegin(p) \/ NoticeNext(p)
    PROVE  CopyInv'
<1>1. CASE NoticeBegin(p)
  <2>1. PICK c : c = [at |-> "notice.batch", cursor |-> 0, sent |-> <<>>, start |-> reachable,
                      fell |-> FALSE]
    OBVIOUS
  <2>2. c.at = "notice.batch"
    BY <2>1
  <2>3. Begin(p, c) /\ UNCHANGED <<version, cache>> /\ CopyHeld(c)
    BY <1>1, <2>1, <2>2 DEF NoticeBegin, contentVars, CopyHeld
  <2> QED BY <2>3, CopyBegin
<1>2. CASE NoticeNext(p)
  <2>1. PICK d : d = calls[p]
    OBVIOUS
  <2>2. d = [at |-> "notice.batch", cursor |-> d.cursor, sent |-> d.sent, start |-> d.start,
             fell |-> d.fell]
    BY <1>2, <2>1 DEF NoticeNext, At, NoticeInv, NoticeCallsOK, NoticeHeld
  <2>3. PICK c : c = [d EXCEPT !.cursor = Last(NoticeTo(d.cursor)), !.sent = d.sent \o NoticeTo(d.cursor)]
    OBVIOUS
  <2>4. d.at = "notice.batch" /\ c.at = "notice.batch"
    BY <2>2, <2>3
  <2>5. calls' = [calls EXCEPT ![p] = c] \/ calls' = [calls EXCEPT ![p] = Idle]
    BY <1>2, <2>1, <2>3 DEF NoticeNext, Return, Goto
  <2>6. UNCHANGED <<version, cache>>
    BY <1>2 DEF NoticeNext
  <2>7. CopyHeld(c) /\ CopyHeld(Idle)
    BY <2>4 DEF CopyHeld, Idle
  <2>8. calls[p].at \notin {"cache.del", "settings.upsert"}
    BY <2>1, <2>4
  <2> QED BY <2>5, <2>6, <2>7, <2>8, CopyQuiet
<1> QED BY <1>1, <1>2

\* Only the calls that mail a notice are touched when customers come and go.
LEMMA ReachMoves ==
    ASSUME NoticeInv, NEW u \in Customers, ReachChanges(u)
    PROVE  /\ CallsShape'
           /\ \A q \in Proc : \/ calls'[q] = calls[q]
                              \/ calls[q].at = "notice.batch" /\ calls'[q].at = "notice.batch"
<1>1. calls' = [p \in Proc |-> IF calls[p].at = "notice.batch" /\ u \in reachable
                               THEN [calls[p] EXCEPT !.fell = TRUE] ELSE calls[p]]
  BY DEF ReachChanges, At
<1>2. ASSUME NEW q \in Proc, calls[q].at = "notice.batch" PROVE [calls[q] EXCEPT !.fell = TRUE].at = "notice.batch"
  <2>1. PICK d : d = calls[q]
    OBVIOUS
  <2>2. d = [at |-> "notice.batch", cursor |-> d.cursor, sent |-> d.sent, start |-> d.start,
             fell |-> d.fell]
    BY <1>2, <2>1 DEF NoticeInv, NoticeCallsOK, NoticeHeld
  <2>3. "at" \in DOMAIN d /\ d.at = "notice.batch"
    BY <2>2
  <2> QED BY <2>1, <2>3
<1>3. CallsShape'
  BY <1>1 DEF CallsShape
<1> QED BY <1>1, <1>2, <1>3

\* The inductive invariant of the contents.
ContentInv == FaqInv /\ CopyInv /\ NoticeInv

\* What is common to steps that are no call's.
LEMMA ContentStill ==
    ASSUME FaqInv, CopyInv, UNCHANGED faqVars, UNCHANGED version, CopiesOK', CallsShape',
           \A k \in Key : cache'[k] = cache[k] \/ cache'[k] = NoCopy,
           \A q \in Proc : \/ calls'[q] = calls[q]
                           \/ calls[q].at = "notice.batch" /\ calls'[q].at = "notice.batch"
    PROVE  FaqInv' /\ CopyInv'
BY FaqStill, CopyStill

\* Every step keeps the invariant.
LEMMA ContentInvStep == ContentInv /\ [ContentNext]_<<callVars, contentVars>> => ContentInv'
<1> SUFFICES ASSUME FaqInv, CopyInv, NoticeInv, [ContentNext]_<<callVars, contentVars>>
             PROVE  ContentInv'
  BY DEF ContentInv
<1>1. CASE UNCHANGED <<callVars, contentVars>>
  <2>1. UNCHANGED faqVars /\ UNCHANGED <<version, cache, calls, reachable, notices>>
    BY <1>1 DEF contentVars, callVars, faqVars
  <2>2. CallsShape' /\ CopiesOK'
    BY <2>1 DEF FaqInv, FaqCallsOK, CallsShape, CopyInv, CopiesOK
  <2>3. FaqInv' /\ CopyInv'
    BY <2>1, <2>2, ContentStill
  <2>4. NoticeCallsOK'
    BY <2>1, <2>2 DEF NoticeInv, NoticeCallsOK, NoticeHeld, Mailing
  <2>5. NoticeInv'
    BY <2>1, <2>4 DEF NoticeInv, NoticesOK, NoticeReachesAll
  <2> QED BY <2>3, <2>5 DEF ContentInv
<1>2. ASSUME NEW k \in Key, CacheExpires(k) PROVE ContentInv'
  <2>1. UNCHANGED faqVars /\ UNCHANGED calls /\ UNCHANGED <<reachable, notices>>
    BY <1>2 DEF CacheExpires, callVars, noticeVars
  <2>2. CallsShape'
    BY <2>1 DEF FaqInv, FaqCallsOK, CallsShape
  <2>3. FaqInv'
    BY <2>1, <2>2, FaqStill
  <2>4. CopyInv'
    BY <1>2, CacheExpiresStep
  <2>5. NoticeCallsOK'
    BY <2>1, <2>2 DEF NoticeInv, NoticeCallsOK, NoticeHeld, Mailing
  <2>6. NoticeInv'
    BY <2>1, <2>5 DEF NoticeInv, NoticesOK, NoticeReachesAll
  <2> QED BY <2>3, <2>4, <2>6 DEF ContentInv
<1>3. ASSUME NEW u \in Customers, ReachChanges(u) PROVE ContentInv'
  <2>1. /\ CallsShape'
        /\ \A q \in Proc : \/ calls'[q] = calls[q]
                           \/ calls[q].at = "notice.batch" /\ calls'[q].at = "notice.batch"
    BY <1>3, ReachMoves
  <2>2. UNCHANGED faqVars /\ UNCHANGED version /\ UNCHANGED cache
    BY <1>3 DEF ReachChanges
  <2>3. CopiesOK' /\ \A k \in Key : cache'[k] = cache[k] \/ cache'[k] = NoCopy
    BY <2>2 DEF CopyInv, CopiesOK
  <2>4. FaqInv' /\ CopyInv'
    BY <2>1, <2>2, <2>3, ContentStill
  <2> QED BY <1>3, <2>4, ReachChangesStep DEF ContentInv
<1>4. ASSUME NEW p \in Proc, FaqAdminRequest(p) PROVE ContentInv'
  BY <1>4, FaqAdminStep, CopyFaqAdminStep, NoticeOthersStep DEF ContentInv
<1>5. ASSUME NEW p \in Proc, FaqStep(p) PROVE ContentInv'
  <2>1. FaqInv'
    BY <1>5, FaqInsertStep, FaqWriteStep, ReorderUpdateStep, ReorderCommitStep,
       ReorderDeadlockStep DEF FaqStep
  <2> QED BY <1>5, <2>1, CopyFaqStep, NoticeOthersStep DEF ContentInv
<1>6. ASSUME NEW p \in Proc, SettingsRequest(p) PROVE ContentInv'
  BY <1>6, FaqOthersStep, CopySettingsRequest, NoticeOthersStep DEF ContentInv
<1>7. ASSUME NEW p \in Proc, SettingsStep(p) PROVE ContentInv'
  <2>1. CopyInv'
    BY <1>7, SettingsUpsertStep, CacheDelStep, CacheSetStep DEF SettingsStep
  <2> QED BY <1>7, <2>1, FaqOthersStep, NoticeOthersStep DEF ContentInv
<1>8. ASSUME NEW p \in Proc, NoticeBegin(p) PROVE ContentInv'
  BY <1>8, FaqOthersStep, CopyNoticeStep, NoticeBeginStep DEF ContentInv
<1>9. ASSUME NEW p \in Proc, NoticeNext(p) PROVE ContentInv'
  BY <1>9, FaqOthersStep, CopyNoticeStep, NoticeNextStep DEF ContentInv
<1>10. ASSUME NEW p \in Proc, ContentAbort(p) PROVE ContentInv'
  BY <1>10, FaqAbortStep, CopyAbortStep, NoticeOthersStep DEF ContentInv
<1> QED BY <1>1, <1>2, <1>3, <1>4, <1>5, <1>6, <1>7, <1>8, <1>9, <1>10 DEF ContentNext

\* The invariant holds at the start.
LEMMA ContentInitInv == CallsInit /\ ContentInit => ContentInv
BY FaqInitInv, CopyInitInv, NoticeInitInv DEF ContentInv

\* Reorderings take effect as a whole, although others update the same rows at the same time and
\* the database may abort any of them between two rows.
THEOREM ReorderCorrect == ContentSpec => []ReorderIsWhole
<1>1. ContentInv => ReorderIsWhole
  BY DEF ContentInv, FaqInv
<1> QED BY <1>1, ContentInitInv, ContentInvStep, PTL DEF ContentSpec

\* A cached copy of what is no longer published is owed its deletion, or its writer failed, or a
\* reader put it there that a write had overtaken.
THEOREM StaleCorrect == ContentSpec => []StaleIsExcused
<1>1. ContentInv => StaleIsExcused
  BY DEF ContentInv, CopyInv
<1> QED BY <1>1, ContentInitInv, ContentInvStep, PTL DEF ContentSpec

\* A maintenance notice is mailed to nobody twice and to everybody who could be reached throughout.
THEOREM NoticeCorrect == ContentSpec => []NoticeReachesAll
<1>1. ContentInv => NoticeReachesAll
  BY DEF ContentInv, NoticeInv
<1> QED BY <1>1, ContentInitInv, ContentInvStep, PTL DEF ContentSpec

\* The invariant implies the types.
LEMMA ContentTyped == ContentInv => ContentTypeOK
<1> SUFFICES ASSUME FaqInv, CopyInv, NoticeInv PROVE ContentTypeOK
  BY DEF ContentInv
<1>1. faq \in [Row -> FaqRow \cup {NoRow}]
  BY DEF FaqInv, FaqRowsOK
<1>2. \A i \in Row : locks[i] = NoLock \/ (locks[i].by \in Proc /\ locks[i].was \in FaqRow)
  BY DEF FaqInv, LocksOK
<1>3. \A r \in Category \cup {Root} : arranged[r] \in Orders \cup {<<>>}
  BY DEF FaqInv, ArrangedOK, Parents
<1>4. \A k \in Key : version[k] \in Nat /\ cache[k].version \in Nat /\ cache[k].late \in BOOLEAN
  BY DEF CopyInv, CopiesOK
<1> QED BY <1>1, <1>2, <1>3, <1>4 DEF ContentTypeOK, NoticeInv, NoticesOK

\* The contents' state is of its type.
THEOREM ContentTypeCorrect == ContentSpec => []ContentTypeOK
BY ContentTyped, ContentInitInv, ContentInvStep, PTL DEF ContentSpec

-------------------------------------------------------------------------------
(* The back office, put together                                             *)

\* The foci of Content,
ContentFoci == {"faq", "caches", "notices"}

\* and those of ActivityLog.
LogFoci == {"audit", "reads"}

\* Whatever part moves, its step is one of that part, and the others rest.
LEMMA OnePartMoves ==
    ASSUME [Next]_backOfficeVars
    PROVE  /\ focus' = focus
           /\ IF focus = "tickets" THEN [TicketNext]_<<callVars, ticketVars>> ELSE UNCHANGED ticketVars
           /\ IF focus \in AccountFoci
              THEN [AccountNext]_<<callVars, accountVars>> ELSE UNCHANGED accountVars
           /\ IF focus \in ContentFoci
              THEN [ContentNext]_<<callVars, contentVars>> ELSE UNCHANGED contentVars
           /\ IF focus \in LogFoci THEN [LogNext]_<<callVars, logVars>> ELSE UNCHANGED logVars
<1>1. CASE UNCHANGED backOfficeVars
  BY <1>1 DEF backOfficeVars
<1>2. CASE Moves
  <2>1. CASE Only("tickets") /\ TicketNext
    BY <2>1 DEF Only, AccountFoci, ContentFoci, LogFoci
  <2>2. ASSUME focus \in AccountFoci, Only(focus), AccountNext
        PROVE  /\ focus' = focus /\ UNCHANGED ticketVars /\ UNCHANGED contentVars /\ UNCHANGED logVars
               /\ focus # "tickets" /\ focus \notin ContentFoci /\ focus \notin LogFoci
    BY <2>2 DEF Only, AccountFoci, ContentFoci, LogFoci
  <2>3. ASSUME focus \in ContentFoci, Only(focus), ContentNext
        PROVE  /\ focus' = focus /\ UNCHANGED ticketVars /\ UNCHANGED accountVars /\ UNCHANGED logVars
               /\ focus # "tickets" /\ focus \notin AccountFoci /\ focus \notin LogFoci
    BY <2>3 DEF Only, AccountFoci, ContentFoci, LogFoci
  <2>4. ASSUME focus \in LogFoci, Only(focus), LogNext
        PROVE  /\ focus' = focus /\ UNCHANGED ticketVars /\ UNCHANGED accountVars
               /\ UNCHANGED contentVars
               /\ focus # "tickets" /\ focus \notin AccountFoci /\ focus \notin ContentFoci
    BY <2>4 DEF Only, AccountFoci, ContentFoci, LogFoci
  <2>5. \A name : Only(name) => focus = name
    BY DEF Only
  <2>6. CASE /\ Only("secrets")
             /\ \E p \in Proc :
                   SecretRequest(p) \/ BanUser(p, i1) \/ UnbanUser(p, i1) \/ AccountMoves(p)
    <3>1. AccountNext
      <4>1. \A p : BanUser(p, i1) \/ UnbanUser(p, i1) => UserAdminRequest(p)
        <5>1. \A p : BanUser(p, i1) \/ UnbanUser(p, i1) => i1 \in Account
          BY DEF BanUser, UnbanUser, Enrolled
        <5> QED BY <5>1 DEF UserAdminRequest
      <4> QED BY <2>6, <4>1 DEF AccountMoves, AccountNext
    <3> QED BY <2>2, <2>5, <2>6, <3>1 DEF AccountFoci
  <2>7. CASE Only("addresses") /\ \E p \in Proc : AddressRequest(p) \/ AccountMoves(p)
    <3>1. AccountNext
      BY <2>7 DEF AccountMoves, AccountNext
    <3> QED BY <2>2, <2>5, <2>7, <3>1 DEF AccountFoci
  <2>8. CASE Only("users") /\ \E p \in Proc : UserAdminRequest(p) \/ AccountMoves(p)
    <3>1. AccountNext
      BY <2>8 DEF AccountMoves, AccountNext
    <3> QED BY <2>2, <2>5, <2>8, <3>1 DEF AccountFoci
  <2>9. CASE Only("team") /\ \E p \in Proc : TeamRequest(p) \/ AccountMoves(p)
    <3>1. AccountNext
      BY <2>9 DEF AccountMoves, AccountNext
    <3> QED BY <2>2, <2>5, <2>9, <3>1 DEF AccountFoci
  <2>10. CASE /\ Only("faq")
              /\ \E p \in Proc : FaqAdminRequest(p) \/ FaqStep(p) \/ CacheDel(p) \/ ContentAbort(p)
    <3>1. ContentNext
      BY <2>10 DEF ContentNext, SettingsStep
    <3> QED BY <2>3, <2>5, <2>10, <3>1 DEF ContentFoci
  <2>11. CASE /\ Only("caches")
              /\ \/ \E p \in Proc :
                       \/ CreateCategory(p) \/ \E c \in Category : DeleteCategory(p, c)
                       \/ FaqStep(p) \/ SettingsRequest(p) \/ SettingsStep(p) \/ ContentAbort(p)
                 \/ \E k \in Key : CacheExpires(k)
    <3>1. ContentNext
      <4>1. \A p : (CreateCategory(p) \/ \E c \in Category : DeleteCategory(p, c)) => FaqAdminRequest(p)
        BY DEF FaqAdminRequest
      <4> QED BY <2>11, <4>1 DEF ContentNext
    <3> QED BY <2>3, <2>5, <2>11, <3>1 DEF ContentFoci
  <2>12. CASE /\ Only("notices")
              /\ \/ \E p \in Proc : NoticeBegin(p) \/ NoticeNext(p)
                 \/ \E u \in Customers : ReachChanges(u)
    <3>1. ContentNext
      BY <2>12 DEF ContentNext
    <3> QED BY <2>3, <2>5, <2>12, <3>1 DEF ContentFoci
  <2>13. CASE /\ Only("audit")
              /\ \/ \E p \in Proc : AuditedRequest(p) \/ LogStep(p)
                 \/ \E j \in jobs : JobPersists(j) \/ JobFails(j)
    <3>1. LogNext
      BY <2>13 DEF LogNext, LogRequest
    <3> QED BY <2>4, <2>5, <2>13, <3>1 DEF LogFoci
  <2>14. CASE /\ Only("reads")
              /\ \/ \E p \in Proc : LogRequest(p) \/ LogStep(p)
                 \/ \E j \in jobs : JobPersists(j)
    <3>1. LogNext
      BY <2>14 DEF LogNext
    <3> QED BY <2>4, <2>5, <2>14, <3>1 DEF LogFoci
  <2> QED BY <1>2, <2>1, <2>6, <2>7, <2>8, <2>9, <2>10, <2>11, <2>12, <2>13, <2>14 DEF Moves
<1> QED BY <1>1, <1>2 DEF Next

\* The part in focus is as its invariant says, the others as they began.
BackOfficeInv ==
    /\ IF focus = "tickets" THEN TicketInv ELSE TicketInit
    /\ IF focus \in AccountFoci THEN AccountInv ELSE AccountInit
    /\ IF focus \in ContentFoci THEN ContentInv ELSE ContentInit
    /\ IF focus \in LogFoci THEN LogInv ELSE LogInit

\* The invariant holds at the start.
LEMMA BackOfficeInitInv == Init => BackOfficeInv
BY TicketInitInv, AccountInitInv, ContentInitInv, LogInitInv DEF Init, BackOfficeInv

\* Every step keeps the invariant.
LEMMA BackOfficeInvStep == BackOfficeInv /\ [Next]_backOfficeVars => BackOfficeInv'
<1> SUFFICES ASSUME BackOfficeInv, [Next]_backOfficeVars PROVE BackOfficeInv'
  OBVIOUS
<1>1. /\ focus' = focus
      /\ IF focus = "tickets" THEN [TicketNext]_<<callVars, ticketVars>> ELSE UNCHANGED ticketVars
      /\ IF focus \in AccountFoci
         THEN [AccountNext]_<<callVars, accountVars>> ELSE UNCHANGED accountVars
      /\ IF focus \in ContentFoci
         THEN [ContentNext]_<<callVars, contentVars>> ELSE UNCHANGED contentVars
      /\ IF focus \in LogFoci THEN [LogNext]_<<callVars, logVars>> ELSE UNCHANGED logVars
  BY OnePartMoves
<1>2. IF focus = "tickets" THEN TicketInv' ELSE TicketInit'
  <2>1. TicketInit /\ UNCHANGED ticketVars => TicketInit'
    BY DEF TicketInit, ticketVars
  <2> QED BY <1>1, <2>1, TicketInvStep DEF BackOfficeInv
<1>3. IF focus \in AccountFoci THEN AccountInv' ELSE AccountInit'
  <2>1. AccountInit /\ UNCHANGED accountVars => AccountInit'
    BY DEF AccountInit, accountVars, Enrolled
  <2> QED BY <1>1, <2>1, AccountInvStep DEF BackOfficeInv
<1>4. IF focus \in ContentFoci THEN ContentInv' ELSE ContentInit'
  <2>1. ContentInit /\ UNCHANGED contentVars => ContentInit'
    BY DEF ContentInit, contentVars
  <2> QED BY <1>1, <2>1, ContentInvStep DEF BackOfficeInv
<1>5. IF focus \in LogFoci THEN LogInv' ELSE LogInit'
  <2>1. LogInit /\ UNCHANGED logVars => LogInit'
    BY DEF LogInit, logVars
  <2> QED BY <1>1, <2>1, LogInvStep DEF BackOfficeInv
<1> QED BY <1>1, <1>2, <1>3, <1>4, <1>5 DEF BackOfficeInv

\* The parts out of focus are of their types.
LEMMA RestIsTyped ==
    /\ TicketInit => TicketTypeOK
    /\ AccountInit => AccountTypeOK
    /\ ContentInit => ContentTypeOK
    /\ LogInit => LogTypeOK
<1>1. TicketInit => TicketTypeOK
  BY TicketAssumption DEF TicketInit, TicketTypeOK, Opened
<1>2. AccountInit => AccountTypeOK
  BY AccountInitTyped
<1>3. ContentInit => ContentTypeOK
  <2> SUFFICES ASSUME ContentInit PROVE ContentTypeOK
    OBVIOUS
  <2>1. FaqRowsOK /\ LocksOK /\ ArrangedOK /\ CopiesOK
    BY FaqInitTyped, CopyInitTyped
  <2>2. faq \in [Row -> FaqRow \cup {NoRow}]
    BY <2>1 DEF FaqRowsOK
  <2>3. \A i \in Row : locks[i] = NoLock \/ (locks[i].by \in Proc /\ locks[i].was \in FaqRow)
    BY <2>1 DEF LocksOK
  <2>4. \A r \in Category \cup {Root} : arranged[r] \in Orders \cup {<<>>}
    BY <2>1 DEF ArrangedOK, Parents
  <2>5. \A k \in Key : version[k] \in Nat /\ cache[k].version \in Nat /\ cache[k].late \in BOOLEAN
    BY <2>1 DEF CopiesOK
  <2>6. reachable \subseteq Customers /\ notices = {}
    BY DEF ContentInit
  <2> QED BY <2>2, <2>3, <2>4, <2>5, <2>6 DEF ContentTypeOK
<1>4. LogInit => LogTypeOK
  BY LogAssumption, MaxRequestsAssumption, InitialRowsAssumption DEF LogInit, LogTypeOK, Times, Job
<1> QED BY <1>1, <1>2, <1>3, <1>4

\* The whole back office is of its type, whatever part moves.
THEOREM BackOfficeTypeCorrect == Spec => []BackOfficeTypeOK
<1>1. BackOfficeInv => BackOfficeTypeOK
  BY RestIsTyped, ContentTyped DEF BackOfficeInv, BackOfficeTypeOK, TicketInv, AccountInv, LogInv
<1> QED BY <1>1, BackOfficeInitInv, BackOfficeInvStep, PTL DEF Spec

\* The parts' properties, put together.
BackOfficeSafe ==
    /\ NewsIsOnItsWay
    /\ SpentCodesStaySpent
    /\ ReorderIsWhole /\ StaleIsExcused /\ NoticeReachesAll
    /\ AuditIsKept /\ ReadingIsExact

\* The whole back office has the properties of its parts.
THEOREM BackOfficeCorrect == Spec => []BackOfficeSafe
<1>1. TicketInv \/ TicketInit => NewsIsOnItsWay
  BY DEF TicketInv, TicketInit, NewsIsOnItsWay, MessagesOf
<1>2. AccountInv \/ AccountInit => SpentCodesStaySpent
  BY AccountInitTyped DEF AccountInv
<1>3. ContentInv \/ ContentInit => ReorderIsWhole /\ StaleIsExcused /\ NoticeReachesAll
  <2>1. ContentInit => NoticeReachesAll
    BY DEF ContentInit, NoticeReachesAll
  <2> QED BY <2>1, FaqInitTyped, CopyInitTyped DEF ContentInv, FaqInv, CopyInv, NoticeInv
<1>4. LogInv \/ LogInit => AuditIsKept /\ ReadingIsExact
  BY DEF LogInv, LogInit, AuditIsKept, ReadingIsExact
<1>5. BackOfficeInv => BackOfficeSafe
  BY <1>1, <1>2, <1>3, <1>4 DEF BackOfficeInv, BackOfficeSafe
<1> QED BY <1>5, BackOfficeInitInv, BackOfficeInvStep, PTL DEF Spec

\* And bans are kept in it.
THEOREM BackOfficeBanCorrect == Spec => BanIsKept
<1>1. BackOfficeInv /\ [Next]_backOfficeVars => [BanKept]_accountVars
  BY OnePartMoves, BanStep DEF BackOfficeInv
<1>2. BanIsKept <=> [][BanKept]_accountVars
  BY DEF BanIsKept, BanKept
<1> QED BY <1>1, <1>2, BackOfficeInitInv, BackOfficeInvStep, PTL DEF Spec

===============================================================================
