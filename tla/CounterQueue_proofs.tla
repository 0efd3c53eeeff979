------------------------- MODULE CounterQueue_proofs -------------------------
(***************************************************************************)
(* For every number of orders, processes and places at the counter:        *)
(* QueueInvariant is inductive, and with it TypeOK, RevealBelongsToStay,   *)
(* RevealsFitCounter, TimerStrikesItsReveal and FollowsStateMachine hold   *)
(* of CounterQueue.  Beside it LiveOrdersOwe, PicksInOrder and             *)
(* FreeSlotIsSeen are inductive, which give PaidOrderStands,               *)
(* StaysCalledInOrder and QuietLineIsServed.  The rule by ranks and the    *)
(* pass over the line are one rule: PassAppliesBands, BandsGoByPlace.      *)
(***************************************************************************)
EXTENDS CounterQueueProps, FiniteSetTheorems, WellFoundedInduction, TLAPS

USE QueueAssumption

-----------------------------------------------------------------------------
(* Ranks. *)

(* There are n numbers from 1 to n. *)
LEMMA FirstNumbers ==
  ASSUME NEW n \in Nat
  PROVE  IsFiniteSet(1 .. n) /\ Cardinality(1 .. n) = n
<1>1. /\ IsFiniteSet(1 .. n)
      /\ Cardinality(1 .. n) = IF 1 > n THEN 0 ELSE n - 1 + 1
  BY FS_Interval
<1> QED
  BY <1>1

(* By distinct places the rows are ranked from 1 on, the further back the      *)
(* higher.                                                                     *)
LEMMA RanksGrow ==
  ASSUME NEW S, IsFiniteSet(S), NEW place, \A j \in S : place[j] \in Nat
  PROVE  /\ \A j \in S : Rank(j, S, place) \in 1 .. Cardinality(S)
         /\ \A i, j \in S : place[i] < place[j] => Rank(i, S, place) < Rank(j, S, place)
<1> DEFINE Upto(j) == {k \in S : place[k] <= place[j]}
<1>1. \A j \in S : IsFiniteSet(Upto(j)) /\ Cardinality(Upto(j)) \in Nat
                   /\ Cardinality(Upto(j)) <= Cardinality(S)
  BY FS_Subset, FS_CardinalityType
<1>2. \A j \in S : Cardinality(Upto(j)) >= 1
  <2>1. SUFFICES ASSUME NEW j \in S PROVE Cardinality(Upto(j)) # 0
    BY <1>1
  <2>2. j \in Upto(j)
    OBVIOUS
  <2> QED
    BY <1>1, <2>2, FS_EmptySet
<1>3. \A i, j \in S : place[i] < place[j] => Cardinality(Upto(i)) < Cardinality(Upto(j))
  <2>1. SUFFICES ASSUME NEW i \in S, NEW j \in S, place[i] < place[j]
                 PROVE  Cardinality(Upto(i)) < Cardinality(Upto(j))
    OBVIOUS
  <2>2. /\ \A k \in S : place[k] <= place[i] => place[k] <= place[j]
        /\ place[j] <= place[j] /\ ~(place[j] <= place[i])
    BY <2>1
  <2>3. Upto(i) \in SUBSET Upto(j) /\ j \in Upto(j) /\ j \notin Upto(i)
    BY <2>2
  <2>4. Cardinality(Upto(i)) <= Cardinality(Upto(j)) /\ Cardinality(Upto(i)) # Cardinality(Upto(j))
    BY <1>1, <2>3, FS_Subset
  <2> HIDE DEF Upto
  <2> QED
    BY <1>1, <2>4
<1>4. Cardinality(S) \in Nat
  BY FS_CardinalityType
<1>5. \A j \in S : Cardinality(Upto(j)) \in 1 .. Cardinality(S)
  <2> HIDE DEF Upto
  <2> QED
    BY <1>1, <1>2, <1>4
<1> QED
  BY <1>3, <1>5 DEF Rank

(* Every rank is held, by one row.                                             *)
LEMMA RanksFill ==
  ASSUME NEW S, IsFiniteSet(S), NEW place, \A j \in S : place[j] \in Nat,
         \A i, j \in S : place[i] = place[j] => i = j
  PROVE  /\ \A i, j \in S : Rank(i, S, place) = Rank(j, S, place) => i = j
         /\ \A n \in 1 .. Cardinality(S) : \E j \in S : Rank(j, S, place) = n
<1> DEFINE rank == [j \in S |-> Rank(j, S, place)]
           m == Cardinality(S)
<1>1. \A i, j \in S : i # j => rank[i] # rank[j]
  <2>1. SUFFICES ASSUME NEW i \in S, NEW j \in S, i # j
                 PROVE  Rank(i, S, place) # Rank(j, S, place)
    OBVIOUS
  <2>2. place[i] < place[j] \/ place[j] < place[i]
    BY <2>1
  <2>3. Rank(i, S, place) \in 1 .. m /\ Rank(j, S, place) \in 1 .. m
    BY RanksGrow
  <2>4. m \in Nat
    BY FS_CardinalityType
  <2>5. Rank(i, S, place) < Rank(j, S, place) \/ Rank(j, S, place) < Rank(i, S, place)
    BY <2>2, RanksGrow
  <2> HIDE DEF m
  <2> QED
    BY <2>3, <2>4, <2>5
<1>2. rank \in Injection(S, 1 .. m)
  <2>1. rank \in [S -> 1 .. m]
    BY RanksGrow
  <2> QED
    BY <1>1, <2>1 DEF Injection, IsInjective
<1>3. IsFiniteSet(1 .. m) /\ Cardinality(1 .. m) = m
  <2>1. m \in Nat
    BY FS_CardinalityType
  <2> HIDE DEF m
  <2> QED
    BY <2>1, FirstNumbers
<1>4. rank \in Surjection(S, 1 .. m)
  BY <1>2, <1>3, FS_Injection
<1> QED
  BY <1>1, <1>4 DEF Surjection

(* Of the rows ranked by distinct places, at most n have a rank of n or less;  *)
(* and no fewer, unless these are all the rows.                                *)
LEMMA FewRanked ==
  ASSUME NEW S, IsFiniteSet(S), NEW place, \A j \in S : place[j] \in Nat,
         \A i, j \in S : place[i] = place[j] => i = j,
         NEW n \in Nat
  PROVE  /\ IsFiniteSet(PickReveals(S, place, n))
         /\ Cardinality(PickReveals(S, place, n)) <= n
         /\ S \subseteq PickReveals(S, place, n) \/ Cardinality(PickReveals(S, place, n)) = n
<1> DEFINE P == PickReveals(S, place, n)
           rank == [j \in P |-> Rank(j, S, place)]
           m == Cardinality(S)
<1>1. P \subseteq S
  BY DEF PickReveals
<1>2. \A j \in P : Rank(j, S, place) \in 1 .. n
  <2>1. SUFFICES ASSUME NEW j \in P PROVE Rank(j, S, place) \in 1 .. n
    OBVIOUS
  <2>2. Rank(j, S, place) <= n
    BY DEF PickReveals
  <2>3. Rank(j, S, place) \in 1 .. m /\ m \in Nat
    BY <1>1, RanksGrow, FS_CardinalityType
  <2> HIDE DEF m, P
  <2> QED
    BY <2>2, <2>3
<1>3. rank \in Injection(P, 1 .. n)
  BY <1>1, <1>2, RanksFill DEF Injection, IsInjective
<1>4. IsFiniteSet(1 .. n) /\ Cardinality(1 .. n) = n
  BY FirstNumbers
<1>5. IsFiniteSet(P) /\ Cardinality(P) <= n
  BY <1>3, <1>4, FS_Injection
<1>6. ASSUME ~(S \subseteq P) PROVE Cardinality(P) = n
  <2>1. PICK j \in S : ~(Rank(j, S, place) <= n)
    BY <1>6 DEF PickReveals
  <2>2. Rank(j, S, place) \in 1 .. m /\ m \in Nat
    BY RanksGrow, FS_CardinalityType
  <2>3. n <= m
    <3> HIDE DEF m
    <3> QED
      BY <2>1, <2>2
  <2>4. ASSUME NEW k \in 1 .. n PROVE \E i \in P : rank[i] = k
    <3>1. k \in 1 .. m
      BY <2>2, <2>3
    <3>2. PICK i \in S : Rank(i, S, place) = k
      BY <3>1, RanksFill
    <3>3. i \in P
      BY <3>2 DEF PickReveals
    <3> QED
      BY <3>2, <3>3
  <2>5. rank \in Surjection(P, 1 .. n)
    BY <1>2, <2>4 DEF Surjection
  <2> QED
    BY <1>3, <1>4, <2>5, FS_Injection
<1> QED
  BY <1>5, <1>6

-----------------------------------------------------------------------------
(* Induction over data.  The rules of the library that take a predicate are    *)
(* out of the provers' reach; the one about the least member of a set is not.  *)

(* A set of numbers has a least one. *)
LEMMA LeastNumber ==
  ASSUME NEW T, T \subseteq Nat, T # {}
  PROVE  \E x \in T : \A y \in T : x <= y
<1> DEFINE R == OpToRel(<, Nat)
<1>1. PICK x \in T : \A y \in T : <<y, x>> \notin R
  <2>1. IsWellFoundedOn(R, Nat)
    BY NatLessThanWellFounded, Zenon
  <2> HIDE DEF R
  <2> QED
    BY <2>1, WFMin
<1>2. \A y \in T : ~(y < x)
  BY <1>1 DEF OpToRel
<1> HIDE DEF R
<1> QED
  BY <1>2

(* What holds of 0, and of n + 1 whenever of n, holds of every number.         *)
LEMMA EveryNumber ==
  ASSUME NEW M, 0 \in M, \A n \in Nat : n \in M => n + 1 \in M
  PROVE  Nat \subseteq M
<1> DEFINE T == Nat \ M
<1>1. SUFFICES ASSUME T # {} PROVE FALSE
  OBVIOUS
<1>2. PICK x \in T : \A y \in T : x <= y
  <2>1. T \subseteq Nat
    OBVIOUS
  <2> HIDE DEF T
  <2> QED
    BY <1>1, <2>1, LeastNumber
<1>3. x # 0 /\ x - 1 \in Nat /\ x = (x - 1) + 1
  OBVIOUS
<1>4. x - 1 \in T
  BY <1>3
<1> QED
  BY <1>2, <1>3, <1>4

(* The pass over the line is well defined: it goes by how many of the jobs    *)
(* before one are not revealed.  The first of those get the free places, the   *)
(* next ones are told to come.                                                 *)
Behind(line, revealed, i) == Cardinality({h \in 1 .. i : line[h] \notin revealed})

LEMMA BehindGrows ==
  ASSUME NEW line, NEW revealed, NEW i \in Nat
  PROVE  /\ Behind(line, revealed, 0) = 0 /\ Behind(line, revealed, i) \in Nat
         /\ line[i + 1] \in revealed => Behind(line, revealed, i + 1) = Behind(line, revealed, i)
         /\ line[i + 1] \notin revealed =>
              Behind(line, revealed, i + 1) = Behind(line, revealed, i) + 1
<1> DEFINE Part(n) == {h \in 1 .. n : line[h] \notin revealed}
<1>1. Part(0) = {}
  OBVIOUS
<1>2. /\ IsFiniteSet(Part(i)) /\ Cardinality(Part(i)) \in Nat
      /\ Cardinality(Part(i + 1)) =
           IF line[i + 1] \in revealed THEN Cardinality(Part(i)) ELSE Cardinality(Part(i)) + 1
  <2>1. IsFiniteSet(Part(i)) /\ Cardinality(Part(i)) \in Nat
    BY FirstNumbers, FS_Subset, FS_CardinalityType
  <2>2. 1 .. (i + 1) = 1 .. i \cup {i + 1} /\ i + 1 \notin 1 .. i
    OBVIOUS
  <2>3. CASE line[i + 1] \in revealed
    <3>1. Part(i + 1) = Part(i)
      BY <2>2, <2>3
    <3> QED
      BY <2>1, <2>3, <3>1
  <2>4. CASE line[i + 1] \notin revealed
    <3>1. Part(i + 1) = Part(i) \cup {i + 1} /\ i + 1 \notin Part(i)
      BY <2>2, <2>4
    <3>2. Cardinality(Part(i) \cup {i + 1}) = Cardinality(Part(i)) + 1
      <4> HIDE DEF Part
      <4> QED
        BY <2>1, <3>1, FS_AddElement
    <3> QED
      BY <2>1, <2>4, <3>1, <3>2
  <2> QED
    BY <2>3, <2>4, <2>1
<1> HIDE DEF Part
<1>3. \A n : Behind(line, revealed, n) = Cardinality(Part(n))
  BY DEF Behind, Part
<1> QED
  BY <1>1, <1>2, <1>3, FS_EmptySet

LEMMA BandsCounted ==
  ASSUME NEW line, NEW revealed, NEW size \in Int, Len(line) \in Nat,
         NEW free \in Nat,
         free = FreeSlots(size, Cardinality({i \in DOMAIN line : line[i] \in revealed})),
         NEW k \in 1 .. Len(line), line[k] \notin revealed
  PROVE  AssignBands(line, revealed, size)[k] =
           IF Behind(line, revealed, k - 1) < free THEN "revealed"
           ELSE IF Behind(line, revealed, k - 1) < free + Slots(size) THEN "arriving"
           ELSE "waiting"
<1>a. Behind(line, revealed, 0) = 0
  <2>1. 0 \in Nat
    OBVIOUS
  <2> QED
    BY <2>1, BehindGrows
<1>b. ASSUME NEW i \in Nat
      PROVE  /\ Behind(line, revealed, i) \in Nat
             /\ line[i + 1] \in revealed =>
                  Behind(line, revealed, i + 1) = Behind(line, revealed, i)
             /\ line[i + 1] \notin revealed =>
                  Behind(line, revealed, i + 1) = Behind(line, revealed, i) + 1
  BY BehindGrows, Zenon
<1> DEFINE F == FreeSlots(size, Cardinality({i \in DOMAIN line : line[i] \in revealed}))
           C == Slots(size)
           u(i) == Behind(line, revealed, i)
           start == [free |-> F, arriving |-> C]
           After(f, i) ==
             IF i = 0 THEN start
             ELSE IF line[i] \in revealed THEN f[i - 1]
             ELSE IF f[i - 1].free > 0 THEN [f[i - 1] EXCEPT !.free = @ - 1]
             ELSE IF f[i - 1].arriving > 0 THEN [f[i - 1] EXCEPT !.arriving = @ - 1]
             ELSE f[i - 1]
           M == {n \in Nat : \E f : f = [i \in 0 .. n |-> After(f, i)]}
           left == CHOOSE f : f = [i \in 0 .. Len(line) |-> After(f, i)]
<1>1. F \in Nat /\ C \in Nat
  BY DEF Slots
<1>2. 0 \in M
  <2>1. [i \in 0 .. 0 |-> start] = [i \in 0 .. 0 |-> After([h \in 0 .. 0 |-> start], i)]
    <3>1. \A i \in 0 .. 0 : i = 0
      OBVIOUS
    <3> QED
      BY <3>1
  <2> QED
    BY <2>1
<1>3. ASSUME NEW n \in Nat, n \in M PROVE n + 1 \in M
  <2>1. PICK f : f = [i \in 0 .. n |-> After(f, i)]
    BY <1>3
  <2> DEFINE g == [i \in 0 .. (n + 1) |-> IF i = n + 1 THEN After(f, i) ELSE f[i]]
  <2>2. \A i \in 0 .. (n + 1) : i # 0 => g[i - 1] = f[i - 1] /\ i - 1 \in 0 .. n
    OBVIOUS
  <2>3. ASSUME NEW i \in 0 .. (n + 1) PROVE g[i] = After(g, i)
    <3>1. g[i] = After(f, i)
      <4>1. CASE i = n + 1
        BY <4>1
      <4>2. CASE i # n + 1
        <5>1. i \in 0 .. n
          BY <4>2
        <5>2. f[i] = After(f, i)
          <6> HIDE DEF After
          <6> QED
            BY <2>1, <5>1
        <5> QED
          BY <4>2, <5>2
      <4> QED
        BY <4>1, <4>2
    <3>2. CASE i = 0
      BY <3>1, <3>2
    <3>3. CASE i # 0
      <4>1. g[i - 1] = f[i - 1]
        BY <2>2, <3>3
      <4>2. After(g, i) = After(f, i)
        <5> HIDE DEF g
        <5> QED
          BY <4>1, <3>3
      <4> QED
        BY <3>1, <4>2
    <3> QED
      BY <3>2, <3>3
  <2>4. g = [i \in 0 .. (n + 1) |-> After(g, i)]
    <3>1. g = [i \in 0 .. (n + 1) |-> g[i]]
      OBVIOUS
    <3> HIDE DEF g, After
    <3> QED
      BY <2>3, <3>1
  <2> HIDE DEF g, After
  <2> QED
    BY <2>4
<1>4. left = [i \in 0 .. Len(line) |-> After(left, i)]
  <2>1. Nat \subseteq M
    <3> HIDE DEF M
    <3> QED
      BY <1>2, <1>3, EveryNumber
  <2>2. \E f : f = [i \in 0 .. Len(line) |-> After(f, i)]
    <3> HIDE DEF After
    <3> QED
      BY <2>1
  <2> HIDE DEF After
  <2> QED
    BY <2>2
<1> DEFINE Counted(acc, n) ==
             /\ acc \in [free : Nat, arriving : Nat]
             /\ acc.free = IF n < F THEN F - n ELSE 0
             /\ acc.arriving = IF n <= F THEN C ELSE IF n - F < C THEN C - (n - F) ELSE 0
           N == {n \in Nat : n <= Len(line) => Counted(left[n], u(n))}
<1>5. \A n \in 0 .. Len(line) : left[n] = After(left, n)
  <2> HIDE DEF left, After
  <2> QED
    BY <1>4
<1> HIDE DEF left, F, C
<1>6. 0 \in N
  <2>1. left[0] = start
    <3>1. 0 \in 0 .. Len(line)
      OBVIOUS
    <3>2. After(left, 0) = start
      OBVIOUS
    <3> HIDE DEF After, start
    <3> QED
      BY <1>5, <3>1, <3>2
  <2>2. u(0) = 0
    BY <1>a
  <2>3. Counted(start, 0)
    BY <1>1
  <2> HIDE DEF start, Counted, u
  <2> QED
    BY <2>1, <2>2, <2>3
<1>7. ASSUME NEW n \in Nat, n \in N PROVE n + 1 \in N
  <2>1. SUFFICES ASSUME n + 1 <= Len(line) PROVE Counted(left[n + 1], u(n + 1))
    <3> HIDE DEF Counted, u
    <3> QED
      OBVIOUS
  <2> DEFINE acc == left[n]
  <2>2. Counted(acc, u(n)) /\ n + 1 \in 0 .. Len(line) /\ n + 1 # 0 /\ (n + 1) - 1 = n
    <3> HIDE DEF Counted, u
    <3> QED
      BY <1>7, <2>1
  <2>3. left[n + 1] = IF line[n + 1] \in revealed THEN acc
                      ELSE IF acc.free > 0 THEN [acc EXCEPT !.free = @ - 1]
                      ELSE IF acc.arriving > 0 THEN [acc EXCEPT !.arriving = @ - 1]
                      ELSE acc
    <3>1. left[n + 1] = After(left, n + 1)
      <4> HIDE DEF After
      <4> QED
        BY <1>5, <2>2
    <3> HIDE DEF start
    <3> QED
      BY <2>2, <3>1
  <2>4. /\ u(n) \in Nat
        /\ u(n + 1) = IF line[n + 1] \in revealed THEN u(n) ELSE u(n) + 1
    BY <1>b
  <2> HIDE DEF acc, u
  <2>5. CASE line[n + 1] \in revealed
    <3> HIDE DEF Counted
    <3> QED
      BY <2>2, <2>3, <2>4, <2>5
  <2>6. CASE line[n + 1] \notin revealed /\ acc.free > 0
    <3>1. left[n + 1] = [acc EXCEPT !.free = @ - 1] /\ u(n + 1) = u(n) + 1
      BY <2>3, <2>4, <2>6
    <3>2. acc \in [free : Nat, arriving : Nat]
      BY <2>2
    <3>3. /\ left[n + 1] \in [free : Nat, arriving : Nat]
          /\ left[n + 1].free = acc.free - 1 /\ left[n + 1].arriving = acc.arriving
      BY <2>6, <3>1, <3>2
    <3> DEFINE v == u(n)
               before == acc.free
               coming == acc.arriving
               next == left[n + 1]
    <3>4. /\ v \in Nat /\ u(n + 1) = v + 1 /\ before \in Nat /\ coming \in Nat
          /\ before = IF v < F THEN F - v ELSE 0
          /\ coming = IF v <= F THEN C ELSE IF v - F < C THEN C - (v - F) ELSE 0
      BY <2>2, <2>4, <3>1, <3>2
    <3>5. /\ next \in [free : Nat, arriving : Nat]
          /\ next.free = before - 1 /\ next.arriving = coming
      BY <3>3
    <3>6. before > 0
      BY <2>6
    <3> HIDE DEF v, before, coming, next
    <3>7. Counted(next, v + 1)
      BY <1>1, <3>4, <3>5, <3>6
    <3> HIDE DEF Counted
    <3> QED
      BY <3>4, <3>7 DEF next
  <2>7. CASE line[n + 1] \notin revealed /\ ~(acc.free > 0) /\ acc.arriving > 0
    <3>1. left[n + 1] = [acc EXCEPT !.arriving = @ - 1] /\ u(n + 1) = u(n) + 1
      BY <2>3, <2>4, <2>7
    <3>2. acc \in [free : Nat, arriving : Nat]
      BY <2>2
    <3>3. /\ left[n + 1] \in [free : Nat, arriving : Nat]
          /\ left[n + 1].free = acc.free /\ left[n + 1].arriving = acc.arriving - 1
      BY <2>7, <3>1, <3>2
    <3> DEFINE v == u(n)
               before == acc.free
               coming == acc.arriving
               next == left[n + 1]
    <3>4. /\ v \in Nat /\ u(n + 1) = v + 1 /\ before \in Nat /\ coming \in Nat
          /\ before = IF v < F THEN F - v ELSE 0
          /\ coming = IF v <= F THEN C ELSE IF v - F < C THEN C - (v - F) ELSE 0
      BY <2>2, <2>4, <3>1, <3>2
    <3>5. /\ next \in [free : Nat, arriving : Nat]
          /\ next.free = before /\ next.arriving = coming - 1
      BY <3>3
    <3>6. ~(before > 0) /\ coming > 0
      BY <2>7
    <3> HIDE DEF v, before, coming, next
    <3>7. Counted(next, v + 1)
      BY <1>1, <3>4, <3>5, <3>6
    <3> HIDE DEF Counted
    <3> QED
      BY <3>4, <3>7 DEF next
  <2>8. CASE line[n + 1] \notin revealed /\ ~(acc.free > 0) /\ ~(acc.arriving > 0)
    <3>1. left[n + 1] = acc /\ u(n + 1) = u(n) + 1
      BY <2>3, <2>4, <2>8
    <3> QED
      BY <1>1, <2>2, <2>4, <2>8, <3>1
  <2> QED
    BY <2>5, <2>6, <2>7, <2>8
<1>8. Counted(left[k - 1], u(k - 1)) /\ u(k - 1) \in Nat
  <2>1. Nat \subseteq N
    <3> HIDE DEF N
    <3> QED
      BY <1>6, <1>7, EveryNumber
  <2>2. k - 1 \in Nat /\ k - 1 <= Len(line)
    OBVIOUS
  <2>3. u(k - 1) \in Nat
    BY <2>2, BehindGrows
  <2> HIDE DEF Counted, u
  <2> QED
    BY <2>1, <2>2, <2>3
<1>9. AssignBands(line, revealed, size) =
        [i \in 1 .. Len(line) |->
           IF line[i] \in revealed \/ left[i - 1].free > 0 THEN "revealed"
           ELSE IF left[i - 1].arriving > 0 THEN "arriving"
           ELSE "waiting"]
  BY Zenon DEF AssignBands, left, F, C
<1>10. AssignBands(line, revealed, size)[k] =
         IF left[k - 1].free > 0 THEN "revealed"
         ELSE IF left[k - 1].arriving > 0 THEN "arriving"
         ELSE "waiting"
  BY <1>9
<1>11. /\ left[k - 1].free > 0 <=> u(k - 1) < F
       /\ left[k - 1].free = 0 => (left[k - 1].arriving > 0 <=> u(k - 1) < F + C)
       /\ left[k - 1].free \in Nat
  <2> HIDE DEF u
  <2> QED
    BY <1>1, <1>8
<1> HIDE DEF u
<1>12. AssignBands(line, revealed, size)[k] =
         IF u(k - 1) < F THEN "revealed"
         ELSE IF u(k - 1) < F + C THEN "arriving"
         ELSE "waiting"
  BY <1>10, <1>11
<1> QED
  BY <1>12 DEF F, C, u

-----------------------------------------------------------------------------
(* Rows. *)

(* Writing one column keeps the type of a row; writes of several columns are   *)
(* chains of these.                                                            *)
LEMMA RowWrite ==
  /\ \A row \in JobRows, x \in LiveStatuses \cup {"otp_verified", "cancelled"} :
       [row EXCEPT !.status = x] \in JobRows
  /\ \A row \in JobRows, x \in {"due", "paid", "failed"} : [row EXCEPT !.payment = x] \in JobRows
  /\ \A row \in JobRows, x \in 0 .. MaxClock : [row EXCEPT !.place = x] \in JobRows
  /\ \A row \in JobRows, x \in 0 .. MaxVisit : [row EXCEPT !.visit = x] \in JobRows
  /\ \A row \in JobRows, x \in 0 .. MaxVisit : [row EXCEPT !.revealed = x] \in JobRows
  /\ \A row \in JobRows, x \in Nat : [row EXCEPT !.deadline = x] \in JobRows
  /\ \A row \in JobRows, x \in BOOLEAN : [row EXCEPT !.coming = x] \in JobRows
  /\ \A row \in JobRows, x \in BOOLEAN : [row EXCEPT !.aged = x] \in JobRows
  BY DEF JobRows

(* Leaving the line clears the columns of the stay and keeps the others.      *)
LEMMA OutOfLineRow ==
  ASSUME NEW row \in JobRows
  PROVE  /\ OutOfLine(row) \in JobRows
         /\ OutOfLine(row).status = row.status /\ OutOfLine(row).payment = row.payment
         /\ OutOfLine(row).visit = row.visit /\ OutOfLine(row).place = 0
         /\ OutOfLine(row).revealed = 0 /\ OutOfLine(row).deadline = 0
<1>1. 0 \in 0 .. MaxClock /\ 0 \in 0 .. MaxVisit
  OBVIOUS
<1>2. OutOfLine(row) \in JobRows
  <2> DEFINE a == [row EXCEPT !.place = 0]
             b == [a EXCEPT !.revealed = 0]
             c == [b EXCEPT !.deadline = 0]
             d == [c EXCEPT !.coming = FALSE]
  <2>1. a \in JobRows
    BY <1>1, RowWrite
  <2>2. b \in JobRows
    BY <1>1, <2>1, RowWrite
  <2>3. c \in JobRows
    BY <2>2, RowWrite
  <2>4. d \in JobRows
    BY <2>3, RowWrite
  <2> QED
    BY <2>4 DEF OutOfLine
<1> QED
  BY <1>2 DEF OutOfLine, JobRows

(* A won row: a reveal of the present stay, or a notice that it comes up.      *)
LEMMA WonRow ==
  ASSUME NEW row \in JobRows, NEW n \in Nat
  PROVE  /\ Won(row, TRUE, n) \in JobRows /\ Won(row, FALSE, n) \in JobRows
         /\ Won(row, TRUE, n).status = row.status /\ Won(row, FALSE, n).status = row.status
         /\ Won(row, TRUE, n).place = row.place /\ Won(row, FALSE, n).place = row.place
         /\ Won(row, TRUE, n).visit = row.visit /\ Won(row, FALSE, n).visit = row.visit
         /\ Won(row, TRUE, n).payment = row.payment /\ Won(row, FALSE, n).payment = row.payment
         /\ Won(row, TRUE, n).revealed = row.visit /\ Won(row, FALSE, n).revealed = row.revealed
         /\ Won(row, TRUE, n).deadline = n /\ Won(row, FALSE, n).deadline = row.deadline
<1> DEFINE a == [row EXCEPT !.revealed = row.visit]
           b == [a EXCEPT !.deadline = n]
           c == [b EXCEPT !.aged = FALSE]
           d == [row EXCEPT !.coming = TRUE]
           e == [d EXCEPT !.aged = FALSE]
<1>1. row.visit \in 0 .. MaxVisit
  BY DEF JobRows
<1>2. a \in JobRows
  BY <1>1, RowWrite
<1>3. b \in JobRows
  BY <1>2, RowWrite
<1>4. c \in JobRows
  BY <1>3, RowWrite
<1>5. d \in JobRows
  BY RowWrite
<1>6. e \in JobRows
  BY <1>5, RowWrite
<1>7. Won(row, TRUE, n) = c /\ Won(row, FALSE, n) = e
  BY DEF Won, JobRows
<1>8. /\ c.status = row.status /\ c.place = row.place /\ c.visit = row.visit
      /\ c.payment = row.payment /\ c.revealed = row.visit /\ c.deadline = n
  BY DEF JobRows
<1>9. /\ e.status = row.status /\ e.place = row.place /\ e.visit = row.visit
      /\ e.payment = row.payment /\ e.revealed = row.revealed /\ e.deadline = row.deadline
  BY DEF JobRows
<1> QED
  BY <1>4, <1>6, <1>7, <1>8, <1>9

(* The row a write leaves, operation by operation.                             *)
LEMMA RowWritten ==
  ASSUME TypeOK, NEW r \in pending, r.op # "asked",
         r.op = "checkin" => job[r.job].visit < MaxVisit
  PROVE  /\ Row(r) \in JobRows
         /\ r.op = "checkin" =>
              /\ Row(r).status = "queued" /\ Row(r).place = r.place
              /\ Row(r).visit = job[r.job].visit + 1
              /\ Row(r).revealed = 0 /\ Row(r).deadline = 0
         /\ r.op \in {"cancel", "close", "absent", "expire", "release"} =>
              /\ Row(r).status = CASE r.op \in {"cancel", "close"} -> "cancelled"
                                   [] r.op \in {"absent", "expire"} -> "awaiting_arrival"
                                   [] r.op = "release" -> "otp_verified"
              /\ Row(r).place = 0 /\ Row(r).revealed = 0 /\ Row(r).deadline = 0
         /\ r.op = "grace" =>
              /\ Row(r).status = "awaiting_arrival" /\ Row(r).place = 0
              /\ Row(r).visit = job[r.job].visit
              /\ Row(r).revealed = job[r.job].revealed /\ Row(r).deadline = job[r.job].deadline
         /\ r.op = "disarm" =>
              /\ Row(r).status = job[r.job].status /\ Row(r).place = job[r.job].place
              /\ Row(r).visit = job[r.job].visit
              /\ Row(r).revealed = job[r.job].revealed /\ Row(r).deadline = 0
<1> DEFINE row == [job[r.job] EXCEPT !.aged = FALSE]
           out == OutOfLine(row)
<1>1. r \in Requests /\ r.job \in Jobs /\ r.place \in 0 .. MaxClock
  BY DEF TypeOK, Requests
<1>2. job[r.job] \in JobRows
  BY <1>1 DEF TypeOK
<1>3. row \in JobRows
  BY <1>2, RowWrite
<1>4. /\ row.status = job[r.job].status /\ row.place = job[r.job].place
      /\ row.visit = job[r.job].visit /\ row.revealed = job[r.job].revealed
      /\ row.deadline = job[r.job].deadline
  BY <1>2 DEF JobRows
<1>5. /\ out \in JobRows /\ out.visit = row.visit /\ out.place = 0
      /\ out.revealed = 0 /\ out.deadline = 0
  BY <1>3, OutOfLineRow
<1> HIDE DEF row, out
<1>6. CASE r.op = "checkin"
  <2> DEFINE a == [out EXCEPT !.status = "queued"]
             b == [a EXCEPT !.place = r.place]
             c == [b EXCEPT !.visit = out.visit + 1]
  <2>1. a \in JobRows
    BY <1>5, RowWrite DEF LiveStatuses
  <2>2. b \in JobRows
    BY <1>1, <2>1, RowWrite
  <2>3. out.visit + 1 \in 0 .. MaxVisit
    BY <1>2, <1>4, <1>5, <1>6 DEF JobRows
  <2>4. c \in JobRows
    BY <2>2, <2>3, RowWrite
  <2>5. Row(r) = [out EXCEPT !.status = "queued", !.place = r.place, !.visit = @ + 1]
    BY <1>6 DEF Row, CheckedIn, row, out
  <2>6. Row(r) = c
    BY <1>5, <2>5 DEF JobRows
  <2>7. /\ c.status = "queued" /\ c.place = r.place /\ c.visit = out.visit + 1
        /\ c.revealed = out.revealed /\ c.deadline = out.deadline
    BY <1>5 DEF JobRows
  <2> QED
    BY <1>4, <1>5, <1>6, <2>4, <2>6, <2>7
<1>7. CASE r.op \in {"cancel", "close"}
  <2> DEFINE pay == IF out.payment = "due" THEN "failed" ELSE out.payment
             a == [out EXCEPT !.status = "cancelled"]
             b == [a EXCEPT !.payment = pay]
  <2>1. a \in JobRows
    BY <1>5, RowWrite
  <2>2. pay \in {"due", "paid", "failed"}
    BY <1>5 DEF JobRows
  <2>3. b \in JobRows
    BY <2>1, <2>2, RowWrite
  <2>4. Row(r) = [out EXCEPT !.status = "cancelled",
                             !.payment = IF @ = "due" THEN "failed" ELSE @]
    BY <1>7 DEF Row, Cancelled, row, out
  <2>5. Row(r) = b
    BY <1>5, <2>4 DEF JobRows
  <2>6. /\ b.status = "cancelled" /\ b.place = out.place
        /\ b.revealed = out.revealed /\ b.deadline = out.deadline
    BY <1>5 DEF JobRows
  <2> QED
    BY <1>5, <1>7, <2>3, <2>5, <2>6
<1>8. CASE r.op \in {"absent", "expire"}
  <2> DEFINE a == [out EXCEPT !.status = "awaiting_arrival"]
  <2>1. a \in JobRows
    BY <1>5, RowWrite DEF LiveStatuses
  <2>2. Row(r) = a
    BY <1>8 DEF Row, MarkedAbsent, row, out
  <2>3. /\ a.status = "awaiting_arrival" /\ a.place = out.place
        /\ a.revealed = out.revealed /\ a.deadline = out.deadline
    BY <1>5 DEF JobRows
  <2> QED
    BY <1>5, <1>8, <2>1, <2>2, <2>3
<1>9. CASE r.op = "grace"
  <2> DEFINE a == [row EXCEPT !.status = "awaiting_arrival"]
             b == [a EXCEPT !.place = 0]
  <2>1. a \in JobRows
    BY <1>3, RowWrite DEF LiveStatuses
  <2>2. b \in JobRows
    <3>1. 0 \in 0 .. MaxClock
      OBVIOUS
    <3> QED
      BY <2>1, <3>1, RowWrite
  <2>3. Row(r) = b
    BY <1>9 DEF Row, Restored, row
  <2>4. /\ b.status = "awaiting_arrival" /\ b.place = 0 /\ b.visit = row.visit
        /\ b.revealed = row.revealed /\ b.deadline = row.deadline
    BY <1>3 DEF JobRows
  <2> QED
    BY <1>4, <1>9, <2>2, <2>3, <2>4
<1>10. CASE r.op = "disarm"
  <2> DEFINE a == [row EXCEPT !.deadline = 0]
  <2>1. a \in JobRows
    BY <1>3, RowWrite
  <2>2. Row(r) = a
    BY <1>10 DEF Row, Disarmed, row
  <2>3. /\ a.status = row.status /\ a.place = row.place /\ a.visit = row.visit
        /\ a.revealed = row.revealed /\ a.deadline = 0
    BY <1>3 DEF JobRows
  <2> QED
    BY <1>4, <1>10, <2>1, <2>2, <2>3
<1>11. CASE r.op = "release"
  <2> DEFINE a == [out EXCEPT !.status = "otp_verified"]
             b == [a EXCEPT !.payment = "paid"]
  <2>1. a \in JobRows
    BY <1>5, RowWrite
  <2>2. b \in JobRows
    BY <2>1, RowWrite
  <2>3. Row(r) = b
    BY <1>11 DEF Row, Released, row, out
  <2>4. /\ b.status = "otp_verified" /\ b.place = out.place
        /\ b.revealed = out.revealed /\ b.deadline = out.deadline
    BY <1>5 DEF JobRows
  <2> QED
    BY <1>5, <1>11, <2>2, <2>3, <2>4
<1> QED
  BY <1>1, <1>6, <1>7, <1>8, <1>9, <1>10, <1>11 DEF Requests

-----------------------------------------------------------------------------
(* Types. *)

(* The record of a handler that has read an order has its type. *)
LEMMA RequestTyped ==
  ASSUME TypeOK, NEW j \in Jobs, NEW p \in Procs, job[j].status \in LiveStatuses,
         NEW op \in {"checkin", "cancel", "absent", "expire", "grace", "close", "disarm",
                     "asked", "release"}
  PROVE  /\ Request(op, j, p) \in Requests
         /\ \A n \in 0 .. MaxClock : [Request(op, j, p) EXCEPT !.place = n] \in Requests
<1>1. job[j] \in JobRows
  BY DEF TypeOK
<1>2. job[j].visit \in 0 .. MaxVisit /\ 0 \in 0 .. MaxClock /\ now \in Nat
  BY <1>1 DEF JobRows, TypeOK
<1> QED
  BY <1>2 DEF Request, Requests

(* The entries startPass writes are typed.                                    *)
LEMMA FlightTyped ==
  /\ \A stage \in {"idle", "waiting", "picked"} : Flight(stage) \in Flights
  /\ \A f \in Flights : [f EXCEPT !.next = TRUE] \in Flights
<1>1. NoStays \in [Jobs -> 0 .. MaxVisit]
  BY DEF NoStays
<1> QED
  BY <1>1 DEF Flight, Flights

(* Joining and settling a pass keep the flights typed.                        *)
LEMMA WithPassTyped ==
  ASSUME TypeOK, NEW p \in Procs
  PROVE  WithPass(p) \in [Procs -> Flights] /\ Settled(p) \in [Procs -> Flights]
<1>1. flight[p] \in Flights
  BY DEF TypeOK
<1>2. [flight[p] EXCEPT !.next = TRUE] \in Flights
  BY <1>1, FlightTyped
<1>3. flight[p].next \in BOOLEAN
  BY <1>1 DEF Flights
<1>4. \A stage \in {"idle", "waiting", "picked"} : Flight(stage) \in Flights
  BY FlightTyped
<1>5. WithPass(p) = [flight EXCEPT ![p] = IF flight[p].stage = "idle" THEN Flight("waiting")
                                          ELSE [flight[p] EXCEPT !.next = TRUE]]
  BY DEF WithPass, TypeOK
<1>6. Settled(p) = [flight EXCEPT ![p] = Flight(IF flight[p].next THEN "waiting" ELSE "idle")]
  BY DEF Settled, TypeOK
<1> QED
  BY <1>2, <1>3, <1>4, <1>5, <1>6 DEF TypeOK

(* A counter has at least one place, whatever its setting.                    *)
LEMMA SlotsTyped == \A c \in Capacities : Slots(c) \in Nat \ {0}
  BY DEF Slots

(* An order starts outside the line, or in its first stay as a legacy row.     *)
LEMMA InitialRow ==
  ASSUME NEW j \in Jobs, NEW row \in InitialRows(j)
  PROVE  /\ row \in JobRows /\ row.revealed = 0 /\ row.deadline = 0
         /\ row.place \in 0 .. Cardinality(Legacy)
         /\ \/ row.status \in {"awaiting_arrival", "no_show", "requeued"} /\ row.place = 0
            \/ row.status \in ActiveStatuses /\ row.visit = 1 /\ row.place # 0
<1>1. IsFiniteSet(Legacy) /\ Cardinality(Legacy) \in Nat
  BY FS_Subset, FS_CardinalityType
<1>2. 0 \in 0 .. MaxClock /\ 0 \in 0 .. MaxVisit /\ 1 \in 0 .. MaxVisit
  OBVIOUS
<1>3. \A s \in {"awaiting_arrival", "no_show", "requeued", "notified"}, pay \in {"due", "paid"} :
        Prepared(s, pay) \in JobRows
  BY <1>2 DEF Prepared, JobRows, LiveStatuses
<1>4. ASSUME NEW s \in {"awaiting_arrival", "no_show", "requeued"}, NEW pay \in {"due", "paid"},
             row = Prepared(s, pay)
      PROVE  /\ row \in JobRows /\ row.revealed = 0 /\ row.deadline = 0
             /\ row.status = s /\ row.place = 0
  <2>1. row \in JobRows
    BY <1>3, <1>4
  <2> QED
    BY <1>4, <2>1 DEF Prepared
<1>5. ASSUME NEW s \in ActiveStatuses, NEW pay \in {"due", "paid"},
             NEW n \in 1 .. Cardinality(Legacy), row = LegacyStay(s, pay, n)
      PROVE  /\ row \in JobRows /\ row.revealed = 0 /\ row.deadline = 0
             /\ row.place = n /\ row.status = s /\ row.visit = 1
  <2>1. n \in 0 .. MaxClock
    BY <1>1
  <2> QED
    BY <1>2, <1>5, <2>1 DEF LegacyStay, Prepared, JobRows, LiveStatuses, ActiveStatuses
<1>6. \/ \E s \in {"awaiting_arrival", "no_show", "requeued"}, pay \in {"due", "paid"} :
           row = Prepared(s, pay)
      \/ \E s \in ActiveStatuses, pay \in {"due", "paid"}, n \in 1 .. Cardinality(Legacy) :
           row = LegacyStay(s, pay, n)
  <2>1. CASE j \notin Legacy
    BY <2>1 DEF InitialRows
  <2>2. CASE j \in Legacy
    BY <2>2 DEF InitialRows
  <2> QED
    BY <2>1, <2>2
<1>7. CASE \E s \in {"awaiting_arrival", "no_show", "requeued"}, pay \in {"due", "paid"} :
             row = Prepared(s, pay)
  <2>1. 0 \in 0 .. Cardinality(Legacy)
    BY <1>1
  <2> QED
    BY <1>4, <1>7, <2>1
<1>8. CASE \E s \in ActiveStatuses, pay \in {"due", "paid"}, n \in 1 .. Cardinality(Legacy) :
             row = LegacyStay(s, pay, n)
  <2>1. \A n \in 1 .. Cardinality(Legacy) : n \in 0 .. Cardinality(Legacy) /\ n # 0
    BY <1>1
  <2> QED
    BY <1>5, <1>8, <2>1
<1> QED
  BY <1>6, <1>7, <1>8

(* The initial state is typed.                                                *)
LEMMA TypeInit == Init => TypeOK
<1>1. SUFFICES ASSUME Init PROVE TypeOK
  OBVIOUS
<1>2. job \in [Jobs -> JobRows]
  BY <1>1, InitialRow DEF Init
<1>3. clock \in 0 .. MaxClock
  BY <1>1, FS_Subset, FS_CardinalityType DEF Init
<1>4. flight \in [Procs -> Flights]
  BY <1>1, FlightTyped DEF Init
<1> QED
  BY <1>1, <1>2, <1>3, <1>4 DEF Init, TypeOK, Procs

(* The rows a pass leaves by a deadline: won, or as they were.                 *)
LEMMA CalledRows ==
  ASSUME TypeOK, NEW p \in Procs, NEW n \in Nat, job' = Called(p, n)
  PROVE  /\ job' \in [Jobs -> JobRows]
         /\ \A j \in Jobs :
              \/ job'[j] = job[j]
              \/ j \in Unrevealed /\ job'[j] = Won(job[j], FALSE, n)
              \/ j \in Unrevealed /\ j \in flight[p].reveal /\ job'[j] = Won(job[j], TRUE, n)
<1>1. job' = [j \in Jobs |->
       IF j \in Unrevealed
          /\ (j \in flight[p].reveal \/ (j \in flight[p].arrive /\ ~job[j].coming))
         THEN Won(job[j], j \in flight[p].reveal, n)
         ELSE job[j]]
  BY DEF Called
<1>2. ASSUME NEW j \in Jobs
      PROVE  /\ job'[j] \in JobRows
             /\ \/ job'[j] = job[j]
                \/ j \in Unrevealed /\ job'[j] = Won(job[j], FALSE, n)
                \/ j \in Unrevealed /\ j \in flight[p].reveal /\ job'[j] = Won(job[j], TRUE, n)
  <2>1. /\ job[j] \in JobRows /\ Won(job[j], TRUE, n) \in JobRows
        /\ Won(job[j], FALSE, n) \in JobRows
    BY WonRow DEF TypeOK
  <2>2. CASE job'[j] = job[j]
    BY <2>1, <2>2
  <2>3. CASE j \in Unrevealed /\ job'[j] = Won(job[j], j \in flight[p].reveal, n)
    <3>1. CASE j \in flight[p].reveal
      <4>1. Won(job[j], j \in flight[p].reveal, n) = Won(job[j], TRUE, n)
        BY <3>1 DEF Won
      <4> QED
        BY <2>1, <2>3, <3>1, <4>1
    <3>2. CASE j \notin flight[p].reveal
      <4>1. Won(job[j], j \in flight[p].reveal, n) = Won(job[j], FALSE, n)
        BY <3>2 DEF Won
      <4> QED
        BY <2>1, <2>3, <4>1
    <3> QED
      BY <3>1, <3>2
  <2>4. job'[j] = IF j \in Unrevealed
          /\ (j \in flight[p].reveal \/ (j \in flight[p].arrive /\ ~job[j].coming))
         THEN Won(job[j], j \in flight[p].reveal, n)
         ELSE job[j]
    BY <1>1, Zenon
  <2> QED
    BY <2>2, <2>3, <2>4, Zenon
<1> QED
  BY <1>1, <1>2

(* A pass wins rows of the line that are not revealed, and no other; the       *)
(* deadline it writes is ahead.                                                *)
LEMMA PassWritten ==
  ASSUME TypeOK, NEW p \in Procs, PassWrite(p)
  PROVE  /\ job' \in [Jobs -> JobRows]
         /\ \E n \in Nat :
              /\ n > now /\ job' = Called(p, n)
              /\ \A j \in Jobs :
                   \/ job'[j] = job[j]
                   \/ j \in Unrevealed /\ job'[j] = Won(job[j], FALSE, n)
                   \/ j \in Unrevealed /\ j \in flight[p].reveal /\ job'[j] = Won(job[j], TRUE, n)
<1>1. PICK grace \in Graces : job' = Called(p, now + grace)
  BY DEF PassWrite
<1>2. now + grace \in Nat /\ now + grace > now
  BY DEF TypeOK
<1> DEFINE n == now + grace
<1> HIDE DEF n
<1>3. n \in Nat /\ n > now /\ job' = Called(p, n)
  BY <1>1, <1>2 DEF n
<1> QED
  BY <1>3, CalledRows

(* What a pass leaves of a row it wins: all but the reveal and the notice.     *)
LEMMA PassKeeps ==
  ASSUME TypeOK, NEW p \in Procs, PassWrite(p), NEW j \in Jobs
  PROVE  /\ job'[j].status = job[j].status /\ job'[j].place = job[j].place
         /\ job'[j].visit = job[j].visit /\ job'[j].payment = job[j].payment
         /\ \/ job'[j].revealed = job[j].revealed
            \/ j \in Unrevealed /\ j \in flight[p].reveal
         /\ job'[j].deadline = job[j].deadline \/ job'[j].deadline > now
<1>1. job[j] \in JobRows
  BY DEF TypeOK
<1>2. PICK n \in Nat :
        /\ n > now
        /\ \/ job'[j] = job[j]
           \/ j \in Unrevealed /\ job'[j] = Won(job[j], FALSE, n)
           \/ j \in Unrevealed /\ j \in flight[p].reveal /\ job'[j] = Won(job[j], TRUE, n)
  BY PassWritten
<1> DEFINE w == Won(job[j], FALSE, n)
           v == Won(job[j], TRUE, n)
<1>3. /\ w.status = job[j].status /\ w.place = job[j].place /\ w.visit = job[j].visit
      /\ w.payment = job[j].payment /\ w.revealed = job[j].revealed
      /\ w.deadline = job[j].deadline
      /\ v.status = job[j].status /\ v.place = job[j].place /\ v.visit = job[j].visit
      /\ v.payment = job[j].payment /\ v.deadline = n
  BY <1>1, WonRow
<1>4. \/ job'[j] = job[j]
      \/ job'[j] = w
      \/ j \in Unrevealed /\ j \in flight[p].reveal /\ job'[j] = v
  BY <1>2
<1> HIDE DEF w, v
<1> QED
  BY <1>2, <1>3, <1>4

(* Passes, sweeps and failures keep the types.                                *)
LEMMA TypePasses ==
  ASSUME TypeOK, NEW p \in Procs, Passes(p)
  PROVE  TypeOK'
<1>1. CASE Reconcile(p)
  BY <1>1, WithPassTyped DEF Reconcile, TypeOK
<1>2. CASE PassRead(p)
  <2> DEFINE f == [stage |-> "picked", next |-> flight[p].next,
                   reveal |-> PickReveals(Unrevealed, Place, Free),
                   arrive |-> PickArrivals(Unrevealed, Place, Free, Coming, capacity),
                   slots |-> Slots(capacity),
                   stays |-> [j \in Jobs |-> IF InLine(j) THEN job[j].visit ELSE 0]]
  <2>1. Unrevealed \subseteq Jobs
    BY DEF Unrevealed, Line
  <2>2. /\ PickReveals(Unrevealed, Place, Free) \subseteq Jobs
        /\ PickArrivals(Unrevealed, Place, Free, Coming, capacity) \subseteq Jobs
    BY <2>1 DEF PickReveals, PickArrivals
  <2>3. flight[p].next \in BOOLEAN
    BY DEF TypeOK, Flights
  <2>4. [j \in Jobs |-> IF InLine(j) THEN job[j].visit ELSE 0] \in [Jobs -> 0 .. MaxVisit]
    <3>1. 0 \in 0 .. MaxVisit /\ \A j \in Jobs : job[j].visit \in 0 .. MaxVisit
      BY DEF TypeOK, JobRows
    <3> QED
      BY <3>1
  <2>5. Slots(capacity) \in Nat
    BY SlotsTyped DEF TypeOK
  <2>6. f \in Flights
    BY <2>2, <2>3, <2>4, <2>5 DEF Flights
  <2>7. flight' = [flight EXCEPT ![p] = f]
    BY <1>2 DEF PassRead, TypeOK
  <2> HIDE DEF f
  <2> QED
    BY <1>2, <2>6, <2>7 DEF PassRead, TypeOK
<1>3. CASE PassWrite(p)
  <2>2. job' \in [Jobs -> JobRows]
    BY <1>3, PassWritten
  <2> QED
    BY <1>3, <2>2, WithPassTyped DEF PassWrite, TypeOK
<1>4. CASE Sweep(p)
  BY <1>4 DEF Sweep, TypeOK
<1>5. CASE PassFails(p)
  BY <1>5, WithPassTyped DEF PassFails, TypeOK
<1>6. CASE ProcessDies(p)
  BY <1>6, FlightTyped DEF ProcessDies, TypeOK
<1>7. ASSUME NEW c \in Capacities, SetCapacity(c, p) PROVE TypeOK'
  BY <1>7 DEF SetCapacity, TypeOK
<1> QED
  BY <1>1, <1>2, <1>3, <1>4, <1>5, <1>6, <1>7 DEF Passes

(* What the read of a handler leaves: one request more, of a live order.       *)
LEMMA ReadStep ==
  ASSUME TypeOK, NEW j \in Jobs, NEW p \in Procs, Handlers(j, p)
  PROVE  /\ UNCHANGED <<job, capacity, now, sync, flight, faults>>
         /\ job[j].status \in LiveStatuses
         /\ \/ /\ job[j].status \in {"awaiting_arrival", "no_show", "requeued"}
               /\ clock < MaxClock /\ clock' = clock + 1
               /\ pending' = pending \cup {[Request("checkin", j, p) EXCEPT !.place = clock + 1]}
            \/ /\ clock' = clock
               /\ \E op \in {"cancel", "absent", "expire", "grace", "close", "disarm",
                             "asked", "release"} :
                    /\ pending' = pending \cup {Request(op, j, p)}
                    /\ Accepts(op, job[j].status)
<1>1. CASE CheckInRead(j, p)
  BY <1>1 DEF CheckInRead, LiveStatuses, Accepts
<1>2. CASE CancelRead(j, p)
  BY <1>2 DEF CancelRead, Read, LiveStatuses, ActiveStatuses, Accepts
<1>3. CASE AbsentRead(j, p)
  BY <1>3 DEF AbsentRead, Read, InLine, LiveStatuses, ActiveStatuses, Accepts
<1>4. CASE ExpireRead(j, p)
  BY <1>4 DEF ExpireRead, Overdue, Armed, Read, InLine, LiveStatuses, ActiveStatuses, Accepts
<1>5. CASE GraceRead(j, p)
  BY <1>5 DEF GraceRead, Read, LiveStatuses, Accepts
<1>6. CASE CloseRead(j, p)
  BY <1>6 DEF CloseRead, Read, LiveStatuses, Accepts
<1>7. CASE LookUp(j, p)
  BY <1>7 DEF LookUp, Findable, Read, Accepts
<1>8. CASE ReleaseRead(j, p)
  BY <1>8 DEF ReleaseRead, Findable, Read, Accepts
<1> QED
  BY <1>1, <1>2, <1>3, <1>4, <1>5, <1>6, <1>7, <1>8 DEF Handlers

(* TypeOK is inductive.                                                       *)
LEMMA TypeNext == TypeOK /\ [Next]_vars => TypeOK'
<1>1. SUFFICES ASSUME TypeOK, [Next]_vars PROVE TypeOK'
  OBVIOUS
<1>2. ASSUME NEW p \in Procs, Passes(p) PROVE TypeOK'
  BY <1>1, <1>2, TypePasses
<1>3. ASSUME NEW j \in Jobs, NEW p \in Procs, Handlers(j, p) PROVE TypeOK'
  <2>1. pending' \subseteq Requests
    <3>1. clock < MaxClock => clock + 1 \in 0 .. MaxClock
      BY <1>1 DEF TypeOK
    <3> QED
      BY <1>1, <1>3, <3>1, ReadStep, RequestTyped DEF TypeOK
  <2>2. clock' \in 0 .. MaxClock
    BY <1>1, <1>3, ReadStep DEF TypeOK
  <2> QED
    BY <1>1, <1>3, <2>1, <2>2, ReadStep DEF TypeOK
<1>4. ASSUME NEW r \in pending, Write(r) PROVE TypeOK'
  <2>1. r.job \in Jobs /\ r.by \in Procs
    BY <1>1 DEF TypeOK, Requests
  <2>2. Row(r) \in JobRows
    BY <1>1, <1>4, RowWritten DEF Write
  <2>3. job' \in [Jobs -> JobRows]
    BY <1>1, <1>4, <2>1, <2>2 DEF Write, TypeOK
  <2>4. flight' \in [Procs -> Flights]
    BY <1>1, <1>4, <2>1, WithPassTyped DEF Write, TypeOK
  <2> QED
    BY <1>1, <1>4, <2>1, <2>3, <2>4 DEF Write, TypeOK
<1>5. ASSUME NEW r \in pending, Lost(r) \/ Answered(r) PROVE TypeOK'
  BY <1>1, <1>5 DEF Lost, Answered, TypeOK
<1>6. ASSUME NEW j \in Jobs, Ages(j) PROVE TypeOK'
  <2>1. [job[j] EXCEPT !.aged = TRUE] \in JobRows
    BY <1>1, RowWrite DEF TypeOK
  <2> QED
    BY <1>1, <1>6, <2>1 DEF Ages, TypeOK
<1>7. CASE UNCHANGED vars
  BY <1>1, <1>7 DEF vars, TypeOK
<1>8. CASE Tick
  BY <1>1, <1>8 DEF Tick, TypeOK
<1> QED
  BY <1>1, <1>2, <1>3, <1>4, <1>5, <1>6, <1>7, <1>8 DEF Next

(* TypeOK is an invariant for every value of the constants.                    *)
THEOREM QueueTypeCorrect == Spec => []TypeOK
<1> QED
  BY TypeInit, TypeNext, PTL DEF Spec

-----------------------------------------------------------------------------
(* What a step may do to the rows. *)

(* A row of an order changes by a pass, by a handler's write or by age only. *)
LEMMA RowSteps ==
  ASSUME TypeOK, [Next]_vars
  PROVE  \/ UNCHANGED job
         \/ \E p \in Procs : PassWrite(p)
         \/ \E r \in pending : Write(r)
         \/ \E j \in Jobs : Ages(j)
<1>1. CASE \E p \in Procs : Passes(p)
  BY <1>1 DEF Passes, Reconcile, PassRead, PassFails, ProcessDies, Sweep, SetCapacity
<1>2. CASE \E j \in Jobs, p \in Procs : Handlers(j, p)
  BY <1>2, ReadStep
<1>3. CASE \E r \in pending : Write(r) \/ Lost(r) \/ Answered(r)
  BY <1>3 DEF Lost, Answered
<1>4. CASE \E j \in Jobs : Ages(j)
  BY <1>4
<1>5. CASE UNCHANGED vars \/ Tick
  BY <1>5 DEF vars, Tick
<1> QED
  BY <1>1, <1>2, <1>3, <1>4, <1>5 DEF Next

(* Growing old changes nothing the line reads.                                *)
LEMMA AgesRow ==
  ASSUME TypeOK, NEW j \in Jobs, Ages(j)
  PROVE  \A i \in Jobs :
           /\ job'[i].status = job[i].status /\ job'[i].place = job[i].place
           /\ job'[i].visit = job[i].visit /\ job'[i].revealed = job[i].revealed
           /\ job'[i].deadline = job[i].deadline /\ job'[i].payment = job[i].payment
<1>1. SUFFICES ASSUME NEW i \in Jobs
               PROVE  /\ job'[i].status = job[i].status /\ job'[i].place = job[i].place
                      /\ job'[i].visit = job[i].visit /\ job'[i].revealed = job[i].revealed
                      /\ job'[i].deadline = job[i].deadline /\ job'[i].payment = job[i].payment
  OBVIOUS
<1>2. job[i] \in JobRows /\ job' = [job EXCEPT ![j] = [job[j] EXCEPT !.aged = TRUE]]
  BY DEF Ages, TypeOK
<1>3. CASE i = j
  <2>1. job'[i] = [job[i] EXCEPT !.aged = TRUE]
    BY <1>2, <1>3 DEF TypeOK
  <2> QED
    BY <1>2, <2>1 DEF JobRows
<1>4. CASE i # j
  <2>1. job'[i] = job[i]
    BY <1>2, <1>4 DEF TypeOK
  <2> QED
    BY <2>1
<1> QED
  BY <1>3, <1>4

(* A handler's write replaces its own row, by a typed one.                    *)
LEMMA WriteRow ==
  ASSUME TypeOK, NEW r \in pending, Write(r)
  PROVE  /\ r.job \in Jobs /\ job'[r.job] = Row(r) /\ Row(r) \in JobRows
         /\ \A i \in Jobs : i # r.job => job'[i] = job[i]
  BY RowWritten DEF Write, TypeOK, Requests

-----------------------------------------------------------------------------
(* RevealedInLine and RevealBelongsToStay, row by row. *)

RowSound(row) ==
  /\ row.status \in ActiveStatuses => row.visit # 0 /\ row.revealed \in {0, row.visit}
  /\ row.status \notin ActiveStatuses => row.revealed = 0
  /\ row.status \in LiveStatuses \ ActiveStatuses => row.place = 0
  /\ row.deadline # 0 => row.revealed # 0

(* The two invariants about reveals are a condition on each row ...           *)
LEMMA SoundRows ==
  RevealedInLine /\ RevealBelongsToStay <=> \A j \in Jobs : RowSound(job[j])
  BY DEF RevealedInLine, RevealBelongsToStay, RowSound, InLine, LiveStatuses, ActiveStatuses

(* ... and so they are in the next state.                                     *)
LEMMA SoundRowsNext ==
  (RevealedInLine /\ RevealBelongsToStay)' <=> \A j \in Jobs : RowSound(job'[j])
  BY DEF RevealedInLine, RevealBelongsToStay, RowSound, InLine, LiveStatuses, ActiveStatuses

(* Every step leaves every row sound.                                         *)
LEMMA SoundStep ==
  ASSUME TypeOK, RevealedInLine, RevealBelongsToStay, ReadStatuses, [Next]_vars
  PROVE  \A j \in Jobs : RowSound(job'[j])
<1>1. \A j \in Jobs : RowSound(job[j]) /\ job[j] \in JobRows
  BY SoundRows DEF TypeOK
<1>2. CASE UNCHANGED job
  BY <1>1, <1>2
<1>3. ASSUME NEW p \in Procs, PassWrite(p), NEW j \in Jobs PROVE RowSound(job'[j])
  <2>5. PICK n \in Nat :
          \/ job'[j] = job[j]
          \/ j \in Unrevealed /\ job'[j] = Won(job[j], FALSE, n)
          \/ j \in Unrevealed /\ j \in flight[p].reveal /\ job'[j] = Won(job[j], TRUE, n)
    BY <1>3, PassWritten
  <2>1. CASE job'[j] = job[j]
    BY <1>1, <2>1
  <2> DEFINE w == Won(job[j], FALSE, n)
             v == Won(job[j], TRUE, n)
  <2>4. /\ w.status = job[j].status /\ w.place = job[j].place /\ w.visit = job[j].visit
        /\ w.revealed = job[j].revealed /\ w.deadline = job[j].deadline
        /\ v.status = job[j].status /\ v.place = job[j].place /\ v.visit = job[j].visit
        /\ v.revealed = job[j].visit
    BY <1>1, WonRow
  <2> HIDE DEF w, v
  <2>2. CASE job'[j] = w
    BY <1>1, <2>2, <2>4 DEF RowSound
  <2>3. CASE j \in Unrevealed /\ job'[j] = v
    <3>1. job[j].status \in ActiveStatuses
      BY <2>3 DEF Unrevealed, Line, InLine
    <3>2. job[j].visit # 0
      BY <1>1, <3>1 DEF RowSound
    <3>3. v.revealed \in {0, v.visit} /\ v.revealed # 0 /\ v.visit # 0
      BY <2>4, <3>2
    <3> QED
      BY <2>3, <2>4, <3>1, <3>3 DEF RowSound
  <2> QED
    BY <2>1, <2>2, <2>3, <2>5 DEF w, v
<1>4. ASSUME NEW r \in pending, Write(r), NEW j \in Jobs PROVE RowSound(job'[j])
  <2>1. CASE j # r.job
    BY <1>1, <1>4, <2>1, WriteRow
  <2>2. CASE j = r.job
    <3> DEFINE row == Row(r)
    <3>1. /\ job'[j] = row /\ r.op # "asked"
          /\ r.op = "checkin" => job[r.job].visit < MaxVisit
      BY <1>4, <2>2, WriteRow DEF Write
    <3>2. /\ RowSound(job[j]) /\ job[j].visit \in 0 .. MaxVisit
      BY <1>1 DEF JobRows
    <3> HIDE DEF row
    <3>3. CASE r.op = "checkin"
      <4>1. row.status = "queued" /\ row.visit = job[j].visit + 1 /\ row.revealed = 0 /\ row.deadline = 0
        BY <2>2, <3>1, <3>3, RowWritten DEF row
      <4> QED
        BY <3>1, <3>2, <4>1 DEF RowSound, ActiveStatuses, LiveStatuses
    <3>4. CASE r.op \in {"cancel", "close", "absent", "expire", "release"}
      <4>1. /\ row.status \in {"cancelled", "awaiting_arrival", "otp_verified"}
            /\ row.place = 0 /\ row.revealed = 0 /\ row.deadline = 0
        BY <3>1, <3>4, RowWritten DEF row
      <4> QED
        BY <3>1, <4>1 DEF RowSound, ActiveStatuses, LiveStatuses
    <3>5. CASE r.op = "grace"
      <4>1. job[j].status = "no_show"
        BY <1>4, <2>2, <3>5 DEF Write, Guard, ReadStatuses, Accepts
      <4>2. job[j].revealed = 0 /\ job[j].deadline # 0 => FALSE
        BY <3>2, <4>1 DEF RowSound, ActiveStatuses
      <4>3. row.status = "awaiting_arrival" /\ row.place = 0 /\ row.revealed = job[j].revealed
            /\ row.deadline = job[j].deadline
        BY <2>2, <3>1, <3>5, RowWritten DEF row
      <4> QED
        BY <3>1, <3>2, <4>1, <4>2, <4>3 DEF RowSound, ActiveStatuses, LiveStatuses
    <3>6. CASE r.op = "disarm"
      <4>1. /\ row.status = job[j].status /\ row.place = job[j].place
            /\ row.visit = job[j].visit /\ row.revealed = job[j].revealed /\ row.deadline = 0
        BY <2>2, <3>1, <3>6, RowWritten DEF row
      <4> QED
        BY <3>1, <3>2, <4>1 DEF RowSound
    <3> QED
      BY <3>1, <3>3, <3>4, <3>5, <3>6 DEF TypeOK, Requests
  <2> QED
    BY <2>1, <2>2
<1>5. ASSUME NEW i \in Jobs, Ages(i), NEW j \in Jobs PROVE RowSound(job'[j])
  BY <1>1, <1>5, AgesRow DEF RowSound
<1> QED
  BY <1>2, <1>3, <1>4, <1>5, RowSteps

-----------------------------------------------------------------------------
(* ReadStatuses. *)

(* Every step keeps handlers on statuses their read accepts. *)
LEMMA ReadStatusesStep ==
  ASSUME TypeOK, ReadStatuses, [Next]_vars
  PROVE  ReadStatuses'
<1>1. ASSUME NEW j \in Jobs, NEW p \in Procs, Handlers(j, p) PROVE ReadStatuses'
  <2>1. ASSUME NEW r \in pending', r \notin pending PROVE Accepts(r.op, r.from)
    <3>1. CASE r = [Request("checkin", j, p) EXCEPT !.place = clock + 1]
               /\ job[j].status \in {"awaiting_arrival", "no_show", "requeued"}
      <4>1. r.op = "checkin" /\ r.from = job[j].status
        BY <3>1 DEF Request
      <4> QED
        BY <3>1, <4>1 DEF Accepts
    <3>2. ASSUME NEW op, r = Request(op, j, p), Accepts(op, job[j].status)
          PROVE  Accepts(r.op, r.from)
      BY <3>2 DEF Request
    <3> QED
      BY <1>1, <2>1, <3>1, <3>2, ReadStep
  <2> QED
    BY <2>1 DEF ReadStatuses
<1>2. CASE pending' \subseteq pending
  BY <1>2 DEF ReadStatuses
<1>3. CASE \E p \in Procs : Passes(p)
  <2>1. pending' \subseteq pending
    BY <1>3 DEF Passes, Reconcile, PassRead, PassWrite, PassFails, ProcessDies, Sweep, SetCapacity
  <2> QED
    BY <1>2, <2>1
<1>4. CASE \E r \in pending : Write(r) \/ Lost(r) \/ Answered(r)
  BY <1>2, <1>4 DEF Write, Lost, Answered
<1>5. CASE (\E j \in Jobs : Ages(j)) \/ Tick \/ UNCHANGED vars
  BY <1>2, <1>5 DEF Ages, Tick, vars
<1> QED
  BY <1>1, <1>3, <1>4, <1>5 DEF Next

-----------------------------------------------------------------------------
(* PlacesDiffer. *)

(* It survives whatever brings nobody into the line or on the way into it.     *)
LEMMA PlacesKept ==
  ASSUME TypeOK, PlacesDiffer, CheckIns' \subseteq CheckIns, clock' = clock,
         \A j \in Jobs : job'[j].status \in ActiveStatuses =>
                           job[j].status \in ActiveStatuses /\ job'[j].place = job[j].place
  PROVE  PlacesDiffer'
<1>1. \A j \in Line' : j \in Line /\ job'[j].place = job[j].place
  BY DEF Line, InLine
<1> QED
  BY <1>1 DEF PlacesDiffer

(* PlacesDiffer is inductive, given the types and what handlers have read.    *)
LEMMA PlacesStep ==
  ASSUME TypeOK, PlacesDiffer, ReadStatuses, [Next]_vars
  PROVE  PlacesDiffer'
<1>1. /\ \A j \in Jobs : job[j].place \in Nat
      /\ \A r \in pending : r.place \in Nat /\ r.job \in Jobs /\ r \in Requests
      /\ clock \in Nat /\ Line \subseteq Jobs
  BY DEF TypeOK, JobRows, Requests, Line
<1>2. ASSUME NEW p \in Procs, Passes(p) PROVE PlacesDiffer'
  <2>1. CheckIns' \subseteq CheckIns /\ clock' = clock
    BY <1>2 DEF CheckIns, Passes, Reconcile, PassRead, PassWrite, PassFails, ProcessDies, Sweep,
                SetCapacity
  <2>2. ASSUME NEW j \in Jobs PROVE job'[j].status = job[j].status /\ job'[j].place = job[j].place
    <3>1. CASE job' = job
      BY <3>1
    <3>2. CASE PassWrite(p)
      BY <3>2, PassKeeps
    <3> QED
      BY <1>2, <3>1, <3>2 DEF Passes, Reconcile, PassRead, PassFails, ProcessDies, Sweep, SetCapacity
  <2> QED
    BY <2>1, <2>2, PlacesKept
<1>3. ASSUME NEW j \in Jobs, NEW p \in Procs, Handlers(j, p) PROVE PlacesDiffer'
  <2>1. CASE /\ clock' = clock + 1
             /\ pending' = pending \cup {[Request("checkin", j, p) EXCEPT !.place = clock + 1]}
    <3> DEFINE q == [Request("checkin", j, p) EXCEPT !.place = clock + 1]
    <3>1. q.op = "checkin" /\ q.place = clock + 1
      BY DEF Request
    <3> HIDE DEF q
    <3>2. CheckIns' = CheckIns \cup {q} /\ job' = job
      BY <1>3, <2>1, <3>1, ReadStep DEF CheckIns, q
    <3>3. Line' = Line
      BY <3>2 DEF Line, InLine
    <3>4. \A r \in CheckIns : r.place <= clock /\ r.place \in Nat
      BY <1>1 DEF PlacesDiffer, CheckIns
    <3>5. \A r \in CheckIns' : r.place <= clock + 1 /\ r.place \in Nat /\ (r # q => r \in CheckIns)
      BY <1>1, <3>1, <3>2, <3>4
    <3>6. \A r \in CheckIns', s \in CheckIns' : r.place = s.place => r = s
      <4>1. \A r \in CheckIns : r.place # q.place
        BY <1>1, <3>1, <3>4
      <4> QED
        BY <3>2, <4>1 DEF PlacesDiffer
    <3>7. \A k \in Line : job[k].place <= clock /\ job[k].place # q.place
      <4>1. \A k \in Line : job[k].place <= clock /\ job[k].place \in Nat
        BY <1>1 DEF PlacesDiffer
      <4> QED
        BY <1>1, <3>1, <4>1
    <3>8. \A k \in Line : job[k].place <= clock + 1
      BY <1>1, <3>7
    <3>9. \A r \in CheckIns', k \in Line' : job'[k].place # r.place
      BY <3>2, <3>3, <3>7 DEF PlacesDiffer
    <3>10. \A i, k \in Line' : job'[i].place = job'[k].place => i = k
      BY <3>2, <3>3 DEF PlacesDiffer
    <3> QED
      BY <2>1, <3>2, <3>3, <3>5, <3>6, <3>8, <3>9, <3>10 DEF PlacesDiffer
  <2>2. ASSUME clock' = clock, NEW op, op # "checkin", pending' = pending \cup {Request(op, j, p)}
        PROVE  PlacesDiffer'
    <3>1. CheckIns' \subseteq CheckIns
      BY <2>2 DEF CheckIns, Request
    <3> QED
      BY <1>3, <2>2, <3>1, ReadStep, PlacesKept
  <2> QED
    BY <1>3, <2>1, <2>2, ReadStep
<1>4. ASSUME NEW r \in pending, Write(r) PROVE PlacesDiffer'
  <2>1. /\ CheckIns' = CheckIns \ {r} /\ clock' = clock /\ r.op # "asked"
        /\ r.op = "checkin" => job[r.job].visit < MaxVisit
    BY <1>4 DEF CheckIns, Write
  <2>2. /\ job'[r.job] = Row(r) /\ r.job \in Jobs
        /\ \A i \in Jobs : i # r.job => job'[i] = job[i]
    BY <1>4, WriteRow
  <2>3. CASE r.op = "checkin"
    <3>1. r \in CheckIns /\ job'[r.job].place = r.place
      BY <2>1, <2>2, <2>3, RowWritten DEF CheckIns
    <3>2. \A j \in Line' : j = r.job \/ (j \in Line /\ job'[j] = job[j])
      BY <2>2 DEF Line, InLine
    <3>3. \A j \in Line : job[j].place # r.place
      BY <3>1 DEF PlacesDiffer
    <3>4. \A i, j \in Line' : job'[i].place = job'[j].place => i = j
      BY <3>1, <3>2, <3>3 DEF PlacesDiffer
    <3>5. \A q \in CheckIns' : q \in CheckIns /\ q.place # r.place
      BY <2>1, <3>1 DEF PlacesDiffer
    <3>6. \A q \in CheckIns', j \in Line' : job'[j].place # q.place
      BY <3>1, <3>2, <3>5 DEF PlacesDiffer
    <3>7. \A j \in Line' : job'[j].place <= clock
      BY <3>1, <3>2 DEF PlacesDiffer
    <3> QED
      BY <2>1, <3>4, <3>5, <3>6, <3>7 DEF PlacesDiffer
  <2>4. CASE r.op # "checkin"
    <3>1. ASSUME NEW j \in Jobs, job'[j].status \in ActiveStatuses
          PROVE  job[j].status \in ActiveStatuses /\ job'[j].place = job[j].place
      <4>1. CASE j # r.job
        BY <2>2, <3>1, <4>1
      <4>2. CASE j = r.job
        <5>1. CASE r.op = "disarm"
          <6>1. Row(r).status = job[r.job].status /\ Row(r).place = job[r.job].place
            BY <2>1, <5>1, RowWritten
          <6> QED
            BY <2>2, <3>1, <4>2, <6>1
        <5>2. CASE r.op = "grace"
          BY <2>1, <2>2, <3>1, <4>2, <5>2, RowWritten DEF ActiveStatuses
        <5>3. CASE r.op \in {"cancel", "close", "absent", "expire", "release"}
          BY <2>1, <2>2, <3>1, <4>2, <5>3, RowWritten DEF ActiveStatuses
        <5> QED
          BY <1>1, <2>1, <2>4, <5>1, <5>2, <5>3 DEF Requests
      <4> QED
        BY <4>1, <4>2
    <3> QED
      BY <2>1, <3>1, PlacesKept
  <2> QED
    BY <2>3, <2>4
<1>5. ASSUME NEW r \in pending, Lost(r) \/ Answered(r) PROVE PlacesDiffer'
  <2>1. CheckIns' \subseteq CheckIns /\ clock' = clock /\ job' = job
    BY <1>5 DEF CheckIns, Lost, Answered
  <2> QED
    BY <2>1, PlacesKept
<1>6. ASSUME NEW j \in Jobs, Ages(j) PROVE PlacesDiffer'
  <2>1. CheckIns' \subseteq CheckIns /\ clock' = clock
    BY <1>6 DEF CheckIns, Ages
  <2> QED
    BY <1>6, <2>1, AgesRow, PlacesKept
<1>7. CASE UNCHANGED vars \/ Tick
  <2>1. CheckIns' \subseteq CheckIns /\ clock' = clock /\ job' = job
    BY <1>7 DEF CheckIns, vars, Tick
  <2> QED
    BY <2>1, PlacesKept
<1> QED
  BY <1>2, <1>3, <1>4, <1>5, <1>6, <1>7 DEF Next

-----------------------------------------------------------------------------
(* PicksFit, and who is revealed by a step. *)

(* No step but a pass's write reveals anyone.                                  *)
LEMMA OnlyPassesReveal ==
  ASSUME TypeOK, RevealedInLine, RevealBelongsToStay, ReadStatuses, [Next]_vars,
         ~ \E p \in Procs : PassWrite(p),
         NEW j \in Jobs, job'[j].revealed # 0
  PROVE  job[j].revealed # 0
<1>1. \A i \in Jobs : RowSound(job[i])
  BY SoundRows
<1>2. ASSUME NEW r \in pending, Write(r) PROVE job[j].revealed # 0
  <2>1. /\ r.job \in Jobs /\ job'[r.job] = Row(r) /\ r.op # "asked"
        /\ r.op = "checkin" => job[r.job].visit < MaxVisit
        /\ \A i \in Jobs : i # r.job => job'[i] = job[i]
    BY <1>2, WriteRow DEF Write
  <2>2. CASE j # r.job
    BY <2>1, <2>2
  <2>3. CASE j = r.job
    <3>1. Row(r).revealed # 0
      BY <2>1, <2>3
    <3>2. r.op \in {"grace", "disarm"}
      <4>1. r.op # "checkin" /\ r.op \notin {"cancel", "close", "absent", "expire", "release"}
        BY <2>1, <3>1, RowWritten
      <4> QED
        BY <2>1, <4>1 DEF TypeOK, Requests
    <3>3. Row(r).revealed = job[r.job].revealed
      BY <2>1, <3>2, RowWritten
    <3> QED
      BY <2>3, <3>1, <3>3
  <2> QED
    BY <2>2, <2>3
<1>3. ASSUME NEW i \in Jobs, Ages(i) PROVE job[j].revealed # 0
  BY <1>3, AgesRow
<1> QED
  BY <1>2, <1>3, RowSteps

(* Without a pass the set of revealed orders only shrinks.                    *)
LEMMA RevealedShrinks ==
  ASSUME TypeOK, RevealedInLine, RevealBelongsToStay, ReadStatuses, [Next]_vars,
         ~ \E p \in Procs : PassWrite(p)
  PROVE  Revealed' \subseteq Revealed
<1>1. SUFFICES ASSUME NEW j \in Jobs, job'[j].status \in ActiveStatuses, job'[j].revealed # 0
               PROVE  j \in Revealed
  BY DEF Revealed, Line, InLine
<1>2. job[j].revealed # 0
  BY <1>1, OnlyPassesReveal
<1> QED
  BY <1>2 DEF RevealedInLine, Revealed, Line

(* The line and its parts are finite.                                         *)
LEMMA FiniteLine ==
  /\ IsFiniteSet(Line) /\ IsFiniteSet(Revealed) /\ IsFiniteSet(Unrevealed)
  /\ Cardinality(Revealed) \in Nat
<1>1. Line \subseteq Jobs /\ Revealed \subseteq Line /\ Unrevealed \subseteq Line
  BY DEF Line, Revealed, Unrevealed
<1>2. IsFiniteSet(Line)
  BY <1>1, FS_Subset
<1> QED
  BY <1>1, <1>2, FS_Subset, FS_CardinalityType

(* PicksFit survives whatever starts no pass and reveals nobody.               *)
LEMMA PicksKept ==
  ASSUME TypeOK, TypeOK', PicksFit, Revealed' \subseteq Revealed,
         \A p \in Procs : flight'[p].stage = "picked" =>
           /\ flight[p].stage = "picked"
           /\ flight'[p].reveal = flight[p].reveal /\ flight'[p].slots = flight[p].slots
  PROVE  PicksFit'
<1>1. Cardinality(Revealed') <= Cardinality(Revealed)
      /\ Cardinality(Revealed) \in Nat /\ Cardinality(Revealed') \in Nat
  BY FiniteLine, FS_Subset, FS_CardinalityType
<1>2. ASSUME NEW p \in Procs, flight'[p].stage = "picked"
      PROVE  /\ \A q \in Procs : flight'[q].stage = "picked" => q = p
             /\ \/ flight'[p].reveal = {}
                \/ Cardinality(Revealed') + Cardinality(flight'[p].reveal) <= flight'[p].slots
  <2>1. \A q \in Procs : flight'[q].stage = "picked" => q = p
    BY <1>2 DEF PicksFit
  <2>2. /\ flight[p].stage = "picked"
        /\ flight'[p].reveal = flight[p].reveal /\ flight'[p].slots = flight[p].slots
    BY <1>2
  <2>3. CASE flight[p].reveal = {}
    BY <2>1, <2>2, <2>3
  <2>4. CASE Cardinality(Revealed) + Cardinality(flight[p].reveal) <= flight[p].slots
    <3>1. /\ flight[p].slots \in Nat
          /\ IsFiniteSet(flight[p].reveal)
      BY FS_Subset DEF TypeOK, Flights
    <3>2. Cardinality(flight[p].reveal) \in Nat
      BY <3>1, FS_CardinalityType
    <3>3. Cardinality(Revealed') + Cardinality(flight[p].reveal) <= flight[p].slots
      BY <1>1, <2>4, <3>1, <3>2
    <3> QED
      BY <2>1, <2>2, <3>3
  <2> QED
    BY <2>2, <2>3, <2>4 DEF PicksFit
<1> QED
  BY <1>2 DEF PicksFit

(* A pass picks no more than the free places.                                  *)
LEMMA PicksFitRead ==
  ASSUME TypeOK, PlacesDiffer, NEW p \in Procs, PassRead(p)
  PROVE  /\ job' = job /\ \A q \in Procs : q # p => flight'[q] = flight[q]
         /\ \A q \in Procs : flight[q].stage # "picked"
         /\ \/ flight'[p].reveal = {}
            \/ Cardinality(Revealed) + Cardinality(flight'[p].reveal) <= flight'[p].slots
<1> DEFINE picks == PickReveals(Unrevealed, Place, Free)
           n == Cardinality(Revealed)
<1>1. /\ flight'[p].reveal = picks /\ flight'[p].slots = Slots(capacity)
      /\ job' = job /\ \A q \in Procs : q # p => flight'[q] = flight[q]
  BY DEF PassRead, TypeOK
<1>2. \A q \in Procs : flight[q].stage # "picked"
  BY DEF PassRead, LockFree
<1>3. Slots(capacity) \in Nat \ {0} /\ n \in Nat
  BY SlotsTyped, FiniteLine DEF TypeOK
<1>4. Free = IF n < Slots(capacity) THEN Slots(capacity) - n ELSE 0
  BY DEF Free, FreeSlots
<1>5. Free \in Nat
  BY <1>3, <1>4
<1>6. IsFiniteSet(picks) /\ Cardinality(picks) <= Free
  <2>1. IsFiniteSet(Unrevealed)
    BY FiniteLine
  <2>2. \A j \in Unrevealed : Place[j] \in Nat
    BY DEF Unrevealed, Line, Place, TypeOK, JobRows
  <2>3. \A i, j \in Unrevealed : Place[i] = Place[j] => i = j
    BY DEF Unrevealed, Line, Place, PlacesDiffer
  <2> HIDE DEF Place
  <2> QED
    BY <1>5, <2>1, <2>2, <2>3, FewRanked
<1>7. Cardinality(picks) \in Nat
  BY <1>6, FS_CardinalityType
<1>8. Cardinality(picks) = 0 => picks = {}
  BY <1>6, FS_EmptySet
<1> HIDE DEF picks, n
<1>9. picks = {} \/ n + Cardinality(picks) <= Slots(capacity)
  BY <1>3, <1>4, <1>5, <1>6, <1>7, <1>8
<1>10. flight'[p].reveal = {}
         \/ Cardinality(Revealed) + Cardinality(flight'[p].reveal) <= flight'[p].slots
  <2>1. flight'[p].reveal = picks /\ flight'[p].slots = Slots(capacity)
    BY <1>1
  <2> QED
    BY <2>1, <1>9 DEF n
<1> QED
  BY <1>1, <1>2, <1>10

(* ... and its write leaves no more revealed than the counter it read holds.   *)
LEMMA PassWriteFits ==
  ASSUME TypeOK, PicksFit, RevealedInLine, NEW p \in Procs, PassWrite(p), NewlyRevealed # {}
  PROVE  flight[p].stage = "picked" /\ Cardinality(Revealed') <= flight[p].slots
<1> DEFINE picks == flight[p].reveal
<1>1. flight[p].stage = "picked"
  BY DEF PassWrite
<1>2. ASSUME NEW j \in Jobs
      PROVE  /\ job'[j].status = job[j].status
             /\ job'[j].revealed # 0 => job[j].revealed # 0 \/ j \in picks
  BY PassKeeps
<1>3. picks # {}
  BY <1>2 DEF NewlyRevealed
<1>4. Revealed' \subseteq Revealed \cup picks
  BY <1>2 DEF Revealed, Line, InLine
<1>5. IsFiniteSet(picks) /\ IsFiniteSet(Revealed) /\ flight[p].slots \in Nat
  BY FiniteLine, FS_Subset DEF TypeOK, Flights
<1>6. Cardinality(picks) \in Nat /\ Cardinality(Revealed) \in Nat
  BY <1>5, FS_CardinalityType
<1>7. Cardinality(Revealed) + Cardinality(picks) <= flight[p].slots
  BY <1>1, <1>3 DEF PicksFit
<1>8. /\ IsFiniteSet(Revealed \cap picks) /\ IsFiniteSet(Revealed \cup picks)
      /\ Cardinality(Revealed \cap picks) \in Nat
      /\ Cardinality(Revealed \cup picks) =
           Cardinality(Revealed) + Cardinality(picks) - Cardinality(Revealed \cap picks)
  BY <1>5, FS_Union, FS_Intersection, FS_CardinalityType
<1>9. Cardinality(Revealed') <= Cardinality(Revealed \cup picks) /\ Cardinality(Revealed') \in Nat
      /\ Cardinality(Revealed \cup picks) \in Nat
  BY <1>4, <1>8, FS_Subset, FS_CardinalityType
<1> HIDE DEF picks
<1> QED
  BY <1>1, <1>5, <1>6, <1>7, <1>8, <1>9

(* Process q goes on with the picks it had. *)
SamePick(q) ==
  /\ flight[q].stage = "picked"
  /\ flight'[q].reveal = flight[q].reveal /\ flight'[q].slots = flight[q].slots
  /\ flight'[q].stays = flight[q].stays

(* A caller that joins a pass changes no pick.                                *)
LEMMA WithPassPicks ==
  ASSUME TypeOK, NEW p \in Procs, flight' = WithPass(p) \/ flight' = flight,
         NEW q \in Procs, flight'[q].stage = "picked"
  PROVE  SamePick(q)
<1>1. flight[q] \in Flights /\ flight \in [Procs -> Flights]
  BY DEF TypeOK
<1>2. CASE flight' = flight
  BY <1>2 DEF SamePick
<1>3. CASE flight' = [flight EXCEPT ![p] = Flight("waiting")]
  <2>1. q # p
    BY <1>1, <1>3 DEF Flight
  <2> QED
    BY <1>1, <1>3, <2>1 DEF SamePick
<1>4. CASE flight' = [flight EXCEPT ![p].next = TRUE]
  <2>1. CASE q = p
    <3>1. flight'[q] = [flight[q] EXCEPT !.next = TRUE]
      BY <1>1, <1>4, <2>1
    <3> QED
      BY <1>1, <3>1 DEF Flights, SamePick
  <2>2. CASE q # p
    BY <1>1, <1>4, <2>2 DEF SamePick
  <2> QED
    BY <2>1, <2>2
<1> QED
  BY <1>2, <1>3, <1>4 DEF WithPass

(* A pass that settles drops its own pick and no other.                       *)
LEMMA SettledPicks ==
  ASSUME TypeOK, NEW p \in Procs, flight' = Settled(p)
  PROVE  /\ flight'[p].stage # "picked"
         /\ \A q \in Procs : q # p => flight'[q] = flight[q]
  BY DEF Settled, Flight, TypeOK

(* Whoever has picks after a step had them before it, or has just read them.   *)
LEMMA PickedSteps ==
  ASSUME TypeOK, [Next]_vars, NEW q \in Procs, flight'[q].stage = "picked"
  PROVE  SamePick(q) \/ PassRead(q)
<1>1. CASE flight' = flight
  BY <1>1 DEF SamePick
<1>2. ASSUME NEW p \in Procs, flight' = WithPass(p) PROVE SamePick(q)
  BY <1>2, WithPassPicks
<1>3. ASSUME NEW p \in Procs, flight' = Settled(p) PROVE SamePick(q)
  BY <1>3, SettledPicks DEF SamePick
<1>4. ASSUME NEW p \in Procs, ProcessDies(p) PROVE SamePick(q)
  BY <1>4 DEF ProcessDies, Flight, TypeOK, SamePick
<1>5. ASSUME NEW p \in Procs, PassRead(p), p # q PROVE SamePick(q)
  BY <1>5 DEF PassRead, TypeOK, SamePick
<1>6. ASSUME NEW r \in pending, Write(r)
      PROVE  \E p \in Procs : flight' = WithPass(p) \/ flight' = flight
  BY <1>6 DEF Write, TypeOK, Requests
<1>7. CASE \E p \in Procs : Passes(p)
  BY <1>1, <1>2, <1>3, <1>4, <1>5, <1>7
     DEF Passes, Reconcile, PassWrite, PassFails, Sweep, SetCapacity
<1>8. CASE \E j \in Jobs, p \in Procs : Handlers(j, p)
  BY <1>1, <1>8, ReadStep
<1>9. CASE \E r \in pending : Write(r) \/ Lost(r) \/ Answered(r)
  BY <1>1, <1>2, <1>6, <1>9 DEF Lost, Answered
<1>10. CASE (\E j \in Jobs : Ages(j)) \/ Tick \/ UNCHANGED vars
  BY <1>1, <1>10 DEF Ages, Tick, vars
<1> QED
  BY <1>7, <1>8, <1>9, <1>10 DEF Next

(* PicksFit is inductive.                                                     *)
LEMMA PicksStep ==
  ASSUME TypeOK, TypeOK', PlacesDiffer, ReadStatuses, RevealedInLine, RevealBelongsToStay,
         PicksFit, [Next]_vars
  PROVE  PicksFit'
<1>1. CASE \E p \in Procs : PassWrite(p)
  <2>1. PICK p \in Procs : PassWrite(p)
    BY <1>1
  <2>2. flight' = Settled(p) /\ flight[p].stage = "picked"
    BY <2>1 DEF PassWrite
  <2>3. \A q \in Procs : flight'[q].stage # "picked"
    BY <2>2, SettledPicks DEF PicksFit
  <2> QED
    BY <2>3 DEF PicksFit
<1>2. CASE \E p \in Procs : PassRead(p)
  <2>1. PICK p \in Procs : PassRead(p)
    BY <1>2
  <2>2. Revealed' = Revealed
    BY <2>1, PicksFitRead DEF Revealed, Line, InLine
  <2>3. \A q \in Procs : flight'[q].stage = "picked" => q = p
    BY <2>1, PicksFitRead
  <2>4. \/ flight'[p].reveal = {}
        \/ Cardinality(Revealed) + Cardinality(flight'[p].reveal) <= flight'[p].slots
    BY <2>1, PicksFitRead
  <2> QED
    BY <2>2, <2>3, <2>4 DEF PicksFit
<1>3. ASSUME ~ \E p \in Procs : PassWrite(p),
             \A q \in Procs : flight'[q].stage = "picked" =>
               SamePick(q)
      PROVE  PicksFit'
  <2>1. Revealed' \subseteq Revealed
    BY <1>3, RevealedShrinks
  <2> QED
    BY <1>3, <2>1, PicksKept DEF SamePick
<1>4. CASE ~ \E p \in Procs : PassWrite(p) \/ PassRead(p)
  BY <1>3, <1>4, PickedSteps
<1> QED
  BY <1>1, <1>2, <1>4

-----------------------------------------------------------------------------
(* QueueInvariant is inductive. *)

(* At the start no pass and no handler is under way. *)
LEMMA InvariantInit == Init => QueueInvariant
<1>1. SUFFICES ASSUME Init PROVE QueueInvariant
  OBVIOUS
<1>2. TypeOK
  BY <1>1, TypeInit
<1>3. \A j \in Jobs : job[j] \in InitialRows(j)
  BY <1>1 DEF Init
<1>4. RevealedInLine /\ RevealBelongsToStay
  <2>1. ASSUME NEW j \in Jobs PROVE RowSound(job[j])
    <3> DEFINE row == job[j]
    <3>1. row \in InitialRows(j)
      BY <1>3
    <3> HIDE DEF row
    <3>2. /\ row.revealed = 0 /\ row.deadline = 0
          /\ \/ row.status \in {"awaiting_arrival", "no_show", "requeued"} /\ row.place = 0
             \/ row.status \in ActiveStatuses /\ row.visit = 1
      BY <3>1, InitialRow
    <3>3. RowSound(row)
      BY <3>2 DEF RowSound, ActiveStatuses
    <3> QED
      BY <3>3 DEF row
  <2> QED
    BY <2>1, SoundRows
<1>5. PlacesDiffer
  <2>1. \A j \in Line : job[j].place # 0 /\ job[j].place \in 0 .. Cardinality(Legacy)
    <3>1. SUFFICES ASSUME NEW j \in Jobs, job[j].status \in {"queued", "notified"}
                   PROVE  job[j].place # 0 /\ job[j].place \in 0 .. Cardinality(Legacy)
      BY DEF Line, InLine, ActiveStatuses
    <3>2. job[j] \in InitialRows(j)
      BY <1>3
    <3>3. /\ job[j].place \in 0 .. Cardinality(Legacy)
          /\ \/ job[j].status \in {"awaiting_arrival", "no_show", "requeued"}
             \/ job[j].place # 0
      BY <3>2, InitialRow
    <3> QED
      BY <3>1, <3>3
  <2>2. \A i, j \in Line : job[i].place = job[j].place => i = j
    <3>1. \A i, j \in Jobs : i # j /\ job[i].place = job[j].place => job[i].place = 0
      BY <1>1 DEF Init
    <3>2. Line \subseteq Jobs
      BY DEF Line
    <3> QED
      BY <2>1, <3>1, <3>2
  <2>3. CheckIns = {} /\ clock = Cardinality(Legacy)
    BY <1>1 DEF Init, CheckIns
  <2>4. \A j \in Line : job[j].place <= clock
    BY <2>1, <2>3, FS_Subset, FS_CardinalityType
  <2> QED
    BY <2>2, <2>3, <2>4 DEF PlacesDiffer
<1>6. ReadStatuses /\ PicksFit
  BY <1>1 DEF Init, ReadStatuses, PicksFit, Flight
<1> QED
  BY <1>2, <1>4, <1>5, <1>6 DEF QueueInvariant

(* QueueInvariant is inductive.                                               *)
LEMMA InvariantNext == QueueInvariant /\ [Next]_vars => QueueInvariant'
<1>1. SUFFICES ASSUME QueueInvariant, [Next]_vars PROVE QueueInvariant'
  OBVIOUS
<1>2. /\ TypeOK /\ PlacesDiffer /\ ReadStatuses /\ RevealedInLine /\ RevealBelongsToStay
      /\ PicksFit
  BY <1>1 DEF QueueInvariant
<1>3. TypeOK'
  BY <1>1, <1>2, TypeNext
<1>4. PlacesDiffer'
  BY <1>1, <1>2, PlacesStep
<1>5. ReadStatuses'
  BY <1>1, <1>2, ReadStatusesStep
<1>6. RevealedInLine' /\ RevealBelongsToStay'
  BY <1>1, <1>2, SoundStep, SoundRowsNext
<1>7. PicksFit'
  BY <1>1, <1>2, <1>3, PicksStep
<1> QED
  BY <1>3, <1>4, <1>5, <1>6, <1>7 DEF QueueInvariant

(* The inductive invariant of the live line holds in every behaviour.          *)
THEOREM QueueInvariantHolds == Spec => []QueueInvariant
<1> QED
  BY InvariantInit, InvariantNext, PTL DEF Spec

(* No student keeps a code without the place: a reveal belongs to the present  *)
(* stay (engine.ts:414-420, 514-518), for any number of orders and processes.  *)
THEOREM RevealBelongsToStayHolds == Spec => []RevealBelongsToStay
<1>1. QueueInvariant => RevealBelongsToStay
  BY DEF QueueInvariant
<1> QED
  BY <1>1, QueueInvariantHolds, PTL

(* Passes of any number of processes never call more students to the counter   *)
(* than its capacity as the pass read it (bands.ts:161-200, 264-266).          *)
THEOREM RevealsFitCounterHolds == Spec => RevealsFitCounter
<1>1. QueueInvariant /\ [Next]_vars =>
        [NewlyRevealed # {} =>
           \E p \in Procs : flight[p].stage = "picked"
                              /\ Cardinality(Revealed') <= flight[p].slots]_vars
  <2>1. SUFFICES ASSUME QueueInvariant, [Next]_vars, NewlyRevealed # {}
                 PROVE  \E p \in Procs : flight[p].stage = "picked"
                                           /\ Cardinality(Revealed') <= flight[p].slots
    OBVIOUS
  <2>2. /\ TypeOK /\ PlacesDiffer /\ ReadStatuses /\ RevealedInLine /\ RevealBelongsToStay
        /\ PicksFit
    BY <2>1 DEF QueueInvariant
  <2>3. \E p \in Procs : PassWrite(p)
    BY <2>1, <2>2, OnlyPassesReveal DEF NewlyRevealed
  <2> QED
    BY <2>1, <2>2, <2>3, PassWriteFits
<1> QED
  BY <1>1, QueueInvariantHolds, PTL DEF Spec, RevealsFitCounter

(* What an absent timer has read stays true of the deadline it may strike: a   *)
(* reveal writes a later one, and whatever ends a stay clears it.              *)
LEMMA TimersStep ==
  ASSUME TypeOK, TimersKeepTime, [Next]_vars
  PROVE  TimersKeepTime'
<1>1. now \in Nat /\ now' \in {now, now + 1}
  <2>1. \A j \in Jobs, p \in Procs : Handlers(j, p) => now' = now
    BY ReadStep
  <2> QED
    BY <2>1 DEF Next, Passes, Reconcile, PassRead, PassWrite, Sweep, SetCapacity, PassFails,
                ProcessDies, Write, Lost, Answered, Ages, Tick, vars, TypeOK
<1>2. ASSUME NEW r \in pending', r \notin pending, r.op = "expire"
      PROVE  r.at <= now' /\ r.visit = job'[r.job].visit
  <2>1. PICK j \in Jobs, p \in Procs : Handlers(j, p)
    BY <1>2 DEF Next, Passes, Reconcile, PassRead, PassWrite, Sweep, SetCapacity, PassFails,
                ProcessDies, Write, Lost, Answered, Ages, Tick, vars
  <2>2. r # [Request("checkin", j, p) EXCEPT !.place = clock + 1]
    BY <1>2 DEF Request
  <2>3. PICK op : r = Request(op, j, p)
    BY <1>2, <2>1, <2>2, ReadStep
  <2>4. r.at = now /\ r.visit = job[r.job].visit
    BY <1>2, <2>3 DEF Request
  <2> QED
    BY <1>1, <2>1, <2>4, ReadStep
<1>3. ASSUME NEW r \in pending, r.op = "expire",
             job'[r.job].deadline # 0, job'[r.job].deadline <= r.at
      PROVE  r.visit = job'[r.job].visit
  <2> DEFINE i == r.job
  <2>1. /\ i \in Jobs /\ r.at \in Nat /\ r.at <= now
        /\ job[i].deadline # 0 /\ job[i].deadline <= r.at => r.visit = job[i].visit
    BY <1>3 DEF TypeOK, Requests, TimersKeepTime
  <2>2. job[i] \in JobRows
    BY <2>1 DEF TypeOK
  <2> HIDE DEF i
  <2>3. ASSUME job'[i].deadline = job[i].deadline, job'[i].visit = job[i].visit
        PROVE  r.visit = job'[i].visit
    BY <1>3, <2>1, <2>3 DEF i
  <2>4. CASE UNCHANGED job
    BY <2>3, <2>4 DEF i
  <2>5. ASSUME NEW p \in Procs, PassWrite(p) PROVE r.visit = job'[i].visit
    <3>1. ~(job'[i].deadline > now)
      <4>1. job'[i].deadline \in Nat
        BY <2>1, <2>5, PassWritten DEF JobRows
      <4> QED
        BY <1>1, <1>3, <2>1, <4>1 DEF i
    <3> QED
      BY <2>1, <2>3, <2>5, <3>1, PassKeeps
  <2>6. ASSUME NEW q \in pending, Write(q) PROVE r.visit = job'[i].visit
    <3>1. /\ job'[q.job] = Row(q) /\ q.op # "asked"
          /\ q.op = "checkin" => job[q.job].visit < MaxVisit
          /\ \A k \in Jobs : k # q.job => job'[k] = job[k]
      BY <2>6, WriteRow DEF Write
    <3>2. CASE q.job # i
      BY <2>1, <2>3, <3>1, <3>2
    <3>3. CASE q.job = i
      <4>1. Row(q).deadline # 0
        BY <1>3, <3>1, <3>3 DEF i
      <4>2. q.op = "grace"
        BY <3>1, <4>1, RowWritten DEF TypeOK, Requests
      <4> QED
        BY <2>3, <3>1, <3>3, <4>2, RowWritten
    <3> QED
      BY <3>2, <3>3
  <2>7. ASSUME NEW j \in Jobs, Ages(j) PROVE r.visit = job'[i].visit
    BY <2>1, <2>3, <2>7, AgesRow
  <2> QED
    BY <2>4, <2>5, <2>6, <2>7, RowSteps DEF i
<1>4. ASSUME NEW r \in pending, r.op = "expire" PROVE r.at <= now'
  <2>1. r.at \in Nat /\ r.at <= now
    BY <1>4 DEF TypeOK, Requests, TimersKeepTime
  <2> QED
    BY <1>1, <2>1
<1> QED
  BY <1>2, <1>3, <1>4 DEF TimersKeepTime

(* The absent timer strikes only an overdue reveal of the stay it read         *)
(* (engine.ts:575-590), for any graces the shops choose.                       *)
THEOREM TimerStrikesItsRevealHolds == Spec => TimerStrikesItsReveal
<1>1. QueueInvariant /\ TimersKeepTime /\ [Next]_vars =>
        [\A r \in pending :
           r.op = "expire" /\ r \notin pending' /\ job'[r.job] # job[r.job]
             => Overdue(r.job) /\ r.visit = job[r.job].visit]_vars
  <2>1. SUFFICES ASSUME QueueInvariant, TimersKeepTime, [Next]_vars, NEW r \in pending,
                        r.op = "expire", r \notin pending', job'[r.job] # job[r.job]
                 PROVE  Overdue(r.job) /\ r.visit = job[r.job].visit
    OBVIOUS
  <2>2. TypeOK /\ ReadStatuses /\ r.job \in Jobs /\ r.at \in Nat /\ job[r.job].deadline \in Nat
    BY <2>1 DEF QueueInvariant, TypeOK, Requests, JobRows
  <2>3. Write(r)
    <3>1. CASE \E p \in Procs : PassWrite(p)
      BY <2>1, <3>1 DEF PassWrite
    <3>2. CASE \E q \in pending : Write(q)
      BY <2>1, <3>2 DEF Write
    <3>3. CASE \E j \in Jobs : Ages(j)
      BY <2>1, <3>3 DEF Ages
    <3> QED
      BY <2>1, <2>2, <3>1, <3>2, <3>3, RowSteps
  <2>4. /\ job[r.job].revealed # 0 /\ job[r.job].deadline # 0
        /\ job[r.job].deadline <= r.at /\ job[r.job].status = r.from
    BY <2>1, <2>3 DEF Write, Guard, StillOverdue
  <2>5. r.at <= now /\ r.visit = job[r.job].visit
    BY <2>1, <2>4 DEF TimersKeepTime
  <2>6. job[r.job].deadline <= now
    <3>1. now \in Nat
      BY <2>2 DEF TypeOK
    <3> QED
      BY <2>2, <2>4, <2>5, <3>1
  <2>7. InLine(r.job)
    BY <2>1, <2>2, <2>4 DEF ReadStatuses, Accepts, InLine
  <2> QED
    BY <2>4, <2>5, <2>6, <2>7 DEF Overdue, Armed
<1>2. Init => TimersKeepTime
  BY DEF Init, TimersKeepTime
<1>3. QueueInvariant /\ TimersKeepTime /\ [Next]_vars => TimersKeepTime'
  BY TimersStep DEF QueueInvariant
<1> QED
  BY <1>1, <1>2, <1>3, QueueInvariantHolds, PTL DEF Spec, TimerStrikesItsReveal

-----------------------------------------------------------------------------
(* The live line implements the shared state machine. *)

(* The moves a write of the line can make are events of the table.             *)
LEMMA LineMoves ==
  /\ \A s \in {"awaiting_arrival", "no_show", "requeued"} : Machine!Leads(s, "queued")
  /\ \A s \in LiveStatuses : Machine!Leads(s, "otp_verified")
  /\ \A s \in {"queued", "notified", "no_show"} : Machine!Leads(s, "awaiting_arrival")
  /\ \A s \in {"awaiting_arrival", "queued", "notified"} : Machine!Leads(s, "cancelled")
  /\ {"queued", "awaiting_arrival", "otp_verified", "cancelled"} \subseteq Machine!Statuses
<1>1. \A from, event, to : <<from, event, to>> \in Machine!Transitions => Machine!Leads(from, to)
  BY DEF Machine!Leads
<1>2. \A s \in {"awaiting_arrival", "no_show", "requeued"} :
        <<s, "ARRIVED", "queued">> \in Machine!Transitions
  BY DEF Machine!Transitions
<1>3. \A s \in LiveStatuses : <<s, "COUNTER_RELEASE", "otp_verified">> \in Machine!Transitions
  BY DEF Machine!Transitions, Machine!LiveStatuses, LiveStatuses
<1>4. \A s \in {"queued", "notified", "no_show"} :
        <<s, "QUEUE_SKIPPED", "awaiting_arrival">> \in Machine!Transitions
  BY DEF Machine!Transitions, Machine!LiveStatuses
<1>5. \A s \in {"awaiting_arrival", "queued", "notified"} :
        <<s, "CANCEL", "cancelled">> \in Machine!Transitions
  BY DEF Machine!Transitions
<1>6. {"queued", "awaiting_arrival", "otp_verified", "cancelled"} \subseteq Machine!Statuses
  BY DEF Machine!Statuses, Machine!LiveStatuses
<1>7. \A s \in {"awaiting_arrival", "no_show", "requeued"} : Machine!Leads(s, "queued")
  BY <1>1, <1>2
<1>8. \A s \in LiveStatuses : Machine!Leads(s, "otp_verified")
  BY <1>1, <1>3
<1>9. \A s \in {"queued", "notified", "no_show"} : Machine!Leads(s, "awaiting_arrival")
  BY <1>1, <1>4
<1>10. \A s \in {"awaiting_arrival", "queued", "notified"} : Machine!Leads(s, "cancelled")
  BY <1>1, <1>5
<1> QED
  BY <1>6, <1>7, <1>8, <1>9, <1>10

(* A write that changes a status follows an event of the shared table.        *)
LEMMA WriteLeads ==
  ASSUME QueueInvariant, NEW r \in pending, Write(r), job'[r.job].status # job[r.job].status
  PROVE  Machine!Leads(job[r.job].status, job'[r.job].status)
         /\ job'[r.job].status \in Machine!Statuses
<1>1. /\ TypeOK /\ r \in Requests /\ Accepts(r.op, r.from) /\ r.from \in LiveStatuses
  BY DEF QueueInvariant, TypeOK, Requests, ReadStatuses
<1>2. /\ job'[r.job] = Row(r) /\ r.op # "asked"
      /\ r.op = "checkin" => job[r.job].visit < MaxVisit
  BY <1>1, WriteRow DEF Write
<1>3. r.op # "disarm"
  BY <1>1, <1>2, RowWritten
<1>4. job[r.job].status = r.from
  BY <1>3 DEF Write, Guard
<1>5. CASE r.op = "checkin"
  <2>1. Row(r).status = "queued"
    BY <1>1, <1>2, <1>5, RowWritten
  <2> QED
    BY <1>1, <1>2, <1>4, <1>5, <2>1, LineMoves DEF Accepts, ActiveStatuses
<1>6. CASE r.op \in {"cancel", "close"}
  <2>1. Row(r).status = "cancelled"
    BY <1>1, <1>2, <1>6, RowWritten
  <2> QED
    BY <1>1, <1>2, <1>4, <1>6, <2>1, LineMoves DEF Accepts, ActiveStatuses
<1>7. CASE r.op \in {"absent", "expire", "grace"}
  <2>1. Row(r).status = "awaiting_arrival"
    BY <1>1, <1>2, <1>7, RowWritten
  <2> QED
    BY <1>1, <1>2, <1>4, <1>7, <2>1, LineMoves DEF Accepts, ActiveStatuses
<1>8. CASE r.op = "release"
  <2>1. Row(r).status = "otp_verified"
    BY <1>1, <1>2, <1>8, RowWritten
  <2> QED
    BY <1>1, <1>2, <1>4, <2>1, LineMoves DEF Accepts, ActiveStatuses
<1> QED
  BY <1>1, <1>2, <1>3, <1>5, <1>6, <1>7, <1>8 DEF Requests

(* No handler of the line writes a status that the table of packages/shared    *)
(* does not lead to: CounterQueue implements JobStateMachine.                  *)
THEOREM QueueFollowsStateMachine == Spec => FollowsStateMachine
<1> DEFINE s == [j \in Jobs |-> job[j].status]
<1>1. Init => Machine!Init
  <2>1. SUFFICES ASSUME Init PROVE \A j \in Jobs : job[j].status \in LiveStatuses
    BY DEF Machine!Init, Machine!LiveStatuses, LiveStatuses
  <2> QED
    BY <2>1, InitialRow DEF Init, LiveStatuses, ActiveStatuses
<1>2. ASSUME QueueInvariant, [Next]_vars PROVE [Machine!Next]_s
  <2>1. TypeOK
    BY <1>2 DEF QueueInvariant
  <2>2. CASE \A j \in Jobs : job'[j].status = job[j].status
    BY <2>2
  <2>3. ASSUME NEW r \in pending, Write(r), job'[r.job].status # job[r.job].status
        PROVE  Machine!Next
    <3>1. r.job \in Jobs /\ \A i \in Jobs : i # r.job => job'[i] = job[i]
      BY <2>1, <2>3, WriteRow
    <3>2. s' = [s EXCEPT ![r.job] = job'[r.job].status]
      BY <3>1
    <3> QED
      BY <1>2, <2>3, <3>1, <3>2, WriteLeads DEF Machine!Next, Machine!Advance
  <2>4. ASSUME NEW p \in Procs, PassWrite(p) PROVE \A j \in Jobs : job'[j].status = job[j].status
    BY <2>1, <2>4, PassKeeps
  <2>5. ASSUME NEW r \in pending, Write(r), job'[r.job].status = job[r.job].status
        PROVE  \A j \in Jobs : job'[j].status = job[j].status
    BY <2>1, <2>5, WriteRow
  <2>6. ASSUME NEW i \in Jobs, Ages(i) PROVE \A j \in Jobs : job'[j].status = job[j].status
    BY <2>1, <2>6, AgesRow
  <2> HIDE DEF s
  <2> QED
    BY <1>2, <2>1, <2>2, <2>3, <2>4, <2>5, <2>6, RowSteps
<1> QED
  BY <1>1, <1>2, QueueInvariantHolds, PTL DEF FollowsStateMachine, Machine!Spec, Spec
-----------------------------------------------------------------------------
(* LiveOrdersOwe: a paid order has left the line. *)

(* What a write does to the stay, the payment and the place of its row.        *)
LEMMA RowAdvances ==
  ASSUME TypeOK, NEW r \in pending, r.op # "asked"
  PROVE  /\ Row(r).visit = IF r.op = "checkin" THEN job[r.job].visit + 1 ELSE job[r.job].visit
         /\ r.op \in {"checkin", "absent", "expire", "grace", "disarm"} =>
              Row(r).payment = job[r.job].payment
         /\ r.op \in {"cancel", "close"} =>
              Row(r).payment = IF job[r.job].payment = "due" THEN "failed" ELSE job[r.job].payment
<1> DEFINE row == [job[r.job] EXCEPT !.aged = FALSE]
           out == OutOfLine(row)
<1>1. r \in Requests /\ r.job \in Jobs
  BY DEF TypeOK, Requests
<1>2. job[r.job] \in JobRows
  BY <1>1 DEF TypeOK
<1>3. row \in JobRows
  BY <1>2, RowWrite
<1>4. row.visit = job[r.job].visit /\ row.payment = job[r.job].payment
  BY <1>2 DEF JobRows
<1>5. out \in JobRows /\ out.visit = row.visit /\ out.payment = row.payment
  BY <1>3, OutOfLineRow
<1> HIDE DEF row, out
<1>6. CASE r.op = "checkin"
  <2>1. Row(r) = [out EXCEPT !.status = "queued", !.place = r.place, !.visit = @ + 1]
    BY <1>6 DEF Row, CheckedIn, row, out
  <2>2. Row(r).visit = out.visit + 1 /\ Row(r).payment = out.payment
    BY <1>5, <2>1 DEF JobRows
  <2> QED
    BY <1>4, <1>5, <1>6, <2>2
<1>7. CASE r.op \in {"cancel", "close"}
  <2>1. Row(r) = [out EXCEPT !.status = "cancelled",
                             !.payment = IF @ = "due" THEN "failed" ELSE @]
    BY <1>7 DEF Row, Cancelled, row, out
  <2>2. /\ Row(r).visit = out.visit
        /\ Row(r).payment = IF out.payment = "due" THEN "failed" ELSE out.payment
    BY <1>5, <2>1 DEF JobRows
  <2> QED
    BY <1>4, <1>5, <1>7, <2>2
<1>8. CASE r.op \in {"absent", "expire"}
  <2>1. Row(r) = [out EXCEPT !.status = "awaiting_arrival"]
    BY <1>8 DEF Row, MarkedAbsent, row, out
  <2>2. Row(r).visit = out.visit /\ Row(r).payment = out.payment
    BY <1>5, <2>1 DEF JobRows
  <2> QED
    BY <1>4, <1>5, <1>8, <2>2
<1>9. CASE r.op = "grace"
  <2>1. Row(r) = [row EXCEPT !.status = "awaiting_arrival", !.place = 0]
    BY <1>9 DEF Row, Restored, row
  <2>2. Row(r).visit = row.visit /\ Row(r).payment = row.payment
    BY <1>3, <2>1 DEF JobRows
  <2> QED
    BY <1>4, <1>9, <2>2
<1>10. CASE r.op = "disarm"
  <2>1. Row(r) = [row EXCEPT !.deadline = 0]
    BY <1>10 DEF Row, Disarmed, row
  <2>2. Row(r).visit = row.visit /\ Row(r).payment = row.payment
    BY <1>3, <2>1 DEF JobRows
  <2> QED
    BY <1>4, <1>10, <2>2
<1>11. CASE r.op = "release"
  <2>1. Row(r) = [out EXCEPT !.status = "otp_verified", !.payment = "paid"]
    BY <1>11 DEF Row, Released, row, out
  <2>2. Row(r).visit = out.visit
    BY <1>5, <2>1 DEF JobRows
  <2> QED
    BY <1>4, <1>5, <1>11, <2>2
<1> QED
  BY <1>1, <1>6, <1>7, <1>8, <1>9, <1>10, <1>11 DEF Requests

(* The order of a handler that wins is live.                                   *)
LEMMA WinnerIsLive ==
  ASSUME TypeOK, NEW r \in pending, Write(r)
  PROVE  job[r.job].status \in LiveStatuses
<1>1. r.from \in LiveStatuses
  BY DEF TypeOK, Requests
<1> QED
  BY <1>1 DEF Write, Guard, InLine, LiveStatuses, ActiveStatuses

(* LiveOrdersOwe holds at first ...                                           *)
LEMMA OweInit == Init => LiveOrdersOwe
<1>1. SUFFICES ASSUME Init, NEW j \in Jobs \ Legacy PROVE job[j].payment = "due"
  BY DEF LiveOrdersOwe
<1>2. job[j] = Prepared("awaiting_arrival", "due")
  BY <1>1 DEF Init, InitialRows
<1> QED
  BY <1>2 DEF Prepared

(* ... and after every step.                                                  *)
LEMMA OweStep ==
  ASSUME TypeOK, ReadStatuses, LiveOrdersOwe, [Next]_vars
  PROVE  LiveOrdersOwe'
<1>1. SUFFICES ASSUME NEW j \in Jobs \ Legacy, job'[j].status \in LiveStatuses
               PROVE  job'[j].payment = "due"
  BY DEF LiveOrdersOwe
<1>2. job[j].status \in LiveStatuses => job[j].payment = "due"
  BY DEF LiveOrdersOwe
<1>3. ASSUME NEW p \in Procs, PassWrite(p) PROVE job'[j].payment = "due"
  <2>1. job'[j].status = job[j].status /\ job'[j].payment = job[j].payment
    BY <1>3, PassKeeps
  <2> QED
    BY <1>1, <1>2, <2>1
<1>4. ASSUME NEW r \in pending, Write(r) PROVE job'[j].payment = "due"
  <2>1. /\ job'[r.job] = Row(r) /\ r.op # "asked" /\ r \in Requests
        /\ r.op = "checkin" => job[r.job].visit < MaxVisit
        /\ \A i \in Jobs : i # r.job => job'[i] = job[i]
    BY <1>4, WriteRow DEF Write, TypeOK
  <2>2. CASE j # r.job
    BY <1>1, <1>2, <2>1, <2>2
  <2>3. CASE j = r.job
    <3>1. job[j].payment = "due"
      BY <1>2, <1>4, <2>3, WinnerIsLive
    <3>2. r.op \notin {"cancel", "close", "release"}
      <4>1. r.op \in {"cancel", "close", "release"} =>
              Row(r).status \in {"cancelled", "otp_verified"}
        BY <2>1, RowWritten
      <4> QED
        BY <1>1, <2>1, <2>3, <4>1 DEF LiveStatuses
    <3>3. Row(r).payment = job[r.job].payment
      BY <2>1, <3>2, RowAdvances DEF Requests
    <3> QED
      BY <2>1, <2>3, <3>1, <3>3
  <2> QED
    BY <2>2, <2>3
<1>5. ASSUME NEW i \in Jobs, Ages(i) PROVE job'[j].payment = "due"
  BY <1>1, <1>2, <1>5, AgesRow
<1> QED
  BY <1>1, <1>2, <1>3, <1>4, <1>5, RowSteps

(* A paid order never ends cancelled: of a release and a cancellation, closing *)
(* or absence that race one wins (engine.ts:684-687, jobs/routes.ts:453).      *)
THEOREM PaidOrderStandsHolds == Spec => PaidOrderStands
<1>1. QueueInvariant => TypeOK /\ ReadStatuses
  BY DEF QueueInvariant
<1>2. Spec => []LiveOrdersOwe
  BY <1>1, OweInit, OweStep, QueueInvariantHolds, PTL DEF Spec
<1>3. QueueInvariant /\ LiveOrdersOwe /\ [Next]_vars =>
        [\A j \in Jobs \ Legacy :
           job'[j].status = "cancelled" /\ job[j].status # "cancelled"
             => job'[j].payment = "failed"]_vars
  <2>1. SUFFICES ASSUME TypeOK, LiveOrdersOwe, [Next]_vars, NEW j \in Jobs \ Legacy,
                        job'[j].status = "cancelled", job[j].status # "cancelled"
                 PROVE  job'[j].payment = "failed"
    BY <1>1
  <2>2. PICK r \in pending : Write(r) /\ j = r.job
    <3>1. ASSUME NEW p \in Procs, PassWrite(p) PROVE FALSE
      BY <2>1, <3>1, PassKeeps
    <3>2. ASSUME NEW i \in Jobs, Ages(i) PROVE FALSE
      BY <2>1, <3>2, AgesRow
    <3>3. ASSUME NEW r \in pending, Write(r), j # r.job PROVE FALSE
      BY <2>1, <3>3, WriteRow
    <3> QED
      BY <2>1, <3>1, <3>2, <3>3, RowSteps
  <2>3. /\ job'[j] = Row(r) /\ r.op # "asked" /\ r \in Requests
        /\ r.op = "checkin" => job[r.job].visit < MaxVisit
    BY <2>1, <2>2, WriteRow DEF Write, TypeOK
  <2>4. job[j].payment = "due"
    BY <2>1, <2>2, WinnerIsLive DEF LiveOrdersOwe
  <2>5. r.op \in {"cancel", "close"}
    <3>1. r.op = "disarm" => Row(r).status = job[j].status
      BY <2>1, <2>2, <2>3, RowWritten
    <3>2. r.op \in {"checkin", "absent", "expire", "grace", "release"} =>
            Row(r).status \in {"queued", "awaiting_arrival", "otp_verified"}
      BY <2>1, <2>3, RowWritten
    <3> QED
      BY <2>1, <2>3, <3>1, <3>2 DEF Requests
  <2> QED
    BY <2>1, <2>2, <2>3, <2>4, <2>5, RowAdvances
<1> QED
  BY <1>2, <1>3, QueueInvariantHolds, PTL DEF Spec, PaidOrderStands
-----------------------------------------------------------------------------
(* PicksInOrder: nobody is called before a student who stood ahead. *)

(* Of two rows a statement ranks, the one ahead is picked first.               *)
LEMMA PickedFromTheFront ==
  ASSUME NEW S, IsFiniteSet(S), NEW place, \A j \in S : place[j] \in Nat, NEW n \in Nat,
         NEW j \in PickReveals(S, place, n), NEW k \in S, place[k] < place[j]
  PROVE  k \in PickReveals(S, place, n)
<1> DEFINE Upto(i) == {m \in S : place[m] <= place[i]}
<1>1. j \in S /\ Cardinality(Upto(j)) <= n
  BY DEF PickReveals, Rank
<1>2. Upto(k) \subseteq Upto(j)
  <2>1. place[k] \in Nat /\ place[j] \in Nat
    BY <1>1
  <2>2. ASSUME NEW m \in S, place[m] <= place[k] PROVE place[m] <= place[j]
    <3>1. place[m] \in Nat
      OBVIOUS
    <3> QED
      BY <2>1, <2>2, <3>1
  <2> QED
    BY <2>2
<1>3. IsFiniteSet(Upto(j)) /\ IsFiniteSet(Upto(k))
  BY FS_Subset
<1>4. Cardinality(Upto(k)) <= Cardinality(Upto(j))
  BY <1>2, <1>3, FS_Subset
<1>5. Cardinality(Upto(k)) \in Nat /\ Cardinality(Upto(j)) \in Nat
  BY <1>3, FS_CardinalityType
<1>6. Cardinality(Upto(k)) <= n
  <2> HIDE DEF Upto
  <2> QED
    BY <1>1, <1>4, <1>5
<1> QED
  BY <1>6 DEF PickReveals, Rank

(* Stays only advance; who waits after a step, in the stay of before it, waited*)
(* before it and at the same place.                                            *)
LEMMA StaysAdvance ==
  ASSUME TypeOK, [Next]_vars, NEW j \in Jobs
  PROVE  /\ job[j].visit <= job'[j].visit
         /\ j \in Unrevealed' /\ job'[j].visit = job[j].visit =>
              j \in Unrevealed /\ job'[j].place = job[j].place
<1> DEFINE kept == /\ job'[j].status = job[j].status /\ job'[j].place = job[j].place
                   /\ job'[j].visit = job[j].visit
                   /\ job'[j].revealed = job[j].revealed \/ j \in Unrevealed
<1>1. job[j].visit \in Nat /\ job[j] \in JobRows
  BY DEF TypeOK, JobRows
<1>2. CASE job'[j] = job[j]
  BY <1>1, <1>2 DEF Unrevealed, Line, InLine
<1>3. CASE kept
  BY <1>1, <1>3 DEF Unrevealed, Line, InLine
<1>4. ASSUME NEW p \in Procs, PassWrite(p) PROVE job'[j] = job[j] \/ kept
  BY <1>1, <1>4, PassKeeps
<1>5. ASSUME NEW i \in Jobs, Ages(i) PROVE kept
  BY <1>5, AgesRow
<1>6. ASSUME NEW r \in pending, Write(r), j = r.job
      PROVE  \/ kept
             \/ job'[j].visit = job[j].visit + 1
             \/ job'[j].visit = job[j].visit /\ job'[j].status \notin ActiveStatuses
  <2>1. /\ job'[j] = Row(r) /\ r.op # "asked" /\ r \in Requests
        /\ r.op = "checkin" => job[r.job].visit < MaxVisit
    BY <1>6, WriteRow DEF Write, TypeOK
  <2>2. CASE r.op = "checkin"
    BY <1>6, <2>1, <2>2, RowWritten
  <2>3. CASE r.op = "disarm"
    BY <1>6, <2>1, <2>3, RowWritten
  <2>4. CASE r.op \in {"cancel", "close", "absent", "expire", "release", "grace"}
    <3>1. Row(r).status \in {"cancelled", "awaiting_arrival", "otp_verified"}
      BY <2>1, <2>4, RowWritten
    <3>2. Row(r).visit = job[j].visit
      BY <1>6, <2>1, <2>4, RowAdvances
    <3> QED
      BY <2>1, <3>1, <3>2 DEF ActiveStatuses
  <2> QED
    BY <2>1, <2>2, <2>3, <2>4 DEF Requests
<1>7. CASE job'[j].visit = job[j].visit + 1
  BY <1>1, <1>7
<1>8. CASE job'[j].visit = job[j].visit /\ job'[j].status \notin ActiveStatuses
  BY <1>1, <1>8 DEF Unrevealed, Line, InLine
<1>9. ASSUME NEW r \in pending, Write(r), j # r.job PROVE job'[j] = job[j]
  BY <1>9, WriteRow
<1> QED
  BY <1>2, <1>3, <1>4, <1>5, <1>6, <1>7, <1>8, <1>9, RowSteps

(* PicksInOrder is inductive.                                                 *)
LEMMA OrderStep ==
  ASSUME TypeOK, PicksInOrder, [Next]_vars
  PROVE  PicksInOrder'
<1>1. \A j \in Jobs : job[j].visit \in Nat /\ job[j].place \in Nat /\ job'[j].visit >= job[j].visit
  BY StaysAdvance DEF TypeOK, JobRows
<1>2. ASSUME NEW p \in Procs, SamePick(p)
      PROVE  /\ \A j \in Jobs : flight'[p].stays[j] <= job'[j].visit
             /\ \A j, k \in Jobs :
                  /\ WaitsInStay(j, p)' /\ WaitsInStay(k, p)' /\ job'[k].place < job'[j].place
                  /\ j \in flight'[p].reveal
                  => k \in flight'[p].reveal
  <2>1. /\ flight'[p].reveal = flight[p].reveal /\ flight'[p].stays = flight[p].stays
        /\ \A j \in Jobs : flight[p].stays[j] \in Nat /\ flight[p].stays[j] <= job[j].visit
    BY <1>2 DEF SamePick, PicksInOrder, TypeOK, Flights
  <2>2. ASSUME NEW j \in Jobs PROVE flight'[p].stays[j] <= job'[j].visit
    <3>1. job'[j].visit >= job[j].visit /\ job[j].visit >= flight[p].stays[j]
      BY <1>1, <2>1
    <3>2. job[j].visit \in Nat /\ job'[j].visit \in Nat /\ flight[p].stays[j] \in Nat
      BY <1>1, <2>1, TypeNext DEF TypeOK, JobRows
    <3> QED
      BY <2>1, <3>1, <3>2
  <2>3. ASSUME NEW j \in Jobs, WaitsInStay(j, p)'
        PROVE  WaitsInStay(j, p) /\ job'[j].place = job[j].place
    <3>1. job'[j].visit = flight[p].stays[j] /\ j \in Unrevealed'
      BY <2>1, <2>3 DEF WaitsInStay
    <3>2. job'[j].visit = job[j].visit
      BY <1>1, <2>1, <3>1
    <3> QED
      BY <2>1, <3>1, <3>2, StaysAdvance DEF WaitsInStay
  <2>4. \A j, k \in Jobs :
          /\ WaitsInStay(j, p) /\ WaitsInStay(k, p) /\ job[k].place < job[j].place
          /\ j \in flight[p].reveal
          => k \in flight[p].reveal
    BY <1>2 DEF SamePick, PicksInOrder
  <2> QED
    BY <2>1, <2>2, <2>3, <2>4
<1>3. ASSUME NEW p \in Procs, PassRead(p)
      PROVE  /\ \A j \in Jobs : flight'[p].stays[j] <= job'[j].visit
             /\ \A j, k \in Jobs :
                  /\ WaitsInStay(j, p)' /\ WaitsInStay(k, p)' /\ job'[k].place < job'[j].place
                  /\ j \in flight'[p].reveal
                  => k \in flight'[p].reveal
  <2>1. /\ flight'[p].reveal = PickReveals(Unrevealed, Place, Free)
        /\ flight'[p].stays = [j \in Jobs |-> IF InLine(j) THEN job[j].visit ELSE 0]
        /\ job' = job
    BY <1>3 DEF PassRead, TypeOK
  <2>2. \A j \in Jobs : flight'[p].stays[j] <= job'[j].visit
    BY <1>1, <2>1
  <2>3. Free \in Nat
    <3>1. Slots(capacity) \in Nat /\ Cardinality(Revealed) \in Nat
      BY SlotsTyped, FiniteLine DEF TypeOK
    <3> QED
      BY <3>1 DEF Free, FreeSlots
  <2>4. ASSUME NEW j \in Jobs, NEW k \in Jobs, WaitsInStay(j, p)', WaitsInStay(k, p)',
               job'[k].place < job'[j].place, j \in flight'[p].reveal
        PROVE  k \in flight'[p].reveal
    <3>1. k \in Unrevealed
      BY <2>1, <2>4 DEF WaitsInStay, Unrevealed, Line, InLine
    <3>2. Place[k] < Place[j] /\ \A i \in Unrevealed : Place[i] \in Nat
      BY <1>1, <2>1, <2>4 DEF Place, Unrevealed, Line
    <3>3. IsFiniteSet(Unrevealed) /\ j \in PickReveals(Unrevealed, Place, Free)
      BY <2>1, <2>4, FiniteLine
    <3>4. k \in PickReveals(Unrevealed, Place, Free)
      <4> HIDE DEF Place
      <4> QED
        BY <2>3, <3>1, <3>2, <3>3, PickedFromTheFront
    <3> QED
      BY <2>1, <3>4
  <2> QED
    BY <2>2, <2>4
<1> QED
  BY <1>2, <1>3, PickedSteps DEF PicksInOrder

(* Nobody is called before a student who stood ahead in the same line: of the  *)
(* stays a pass saw, it reveals none and leaves one before it waiting          *)
(* (bands.ts:264).                                                             *)
THEOREM StaysCalledInOrderHolds == Spec => StaysCalledInOrder
<1>1. Init => PicksInOrder
  BY DEF Init, PicksInOrder, Flight
<1>2. QueueInvariant => TypeOK
  BY DEF QueueInvariant
<1>3. Spec => []PicksInOrder
  BY <1>1, <1>2, OrderStep, QueueInvariantHolds, PTL DEF Spec
<1>4. QueueInvariant /\ PicksInOrder /\ [Next]_vars =>
        [\A p \in Procs : flight[p].stage = "picked" /\ job' # job =>
           \A j \in NewlyRevealed, k \in Unrevealed :
             /\ job[j].visit = flight[p].stays[j] /\ job[k].visit = flight[p].stays[k]
             /\ job[k].place < job[j].place
             => job'[k].revealed # 0]_vars
  <2>1. SUFFICES ASSUME QueueInvariant, PicksInOrder, [Next]_vars, NEW p \in Procs,
                        flight[p].stage = "picked", NEW j \in NewlyRevealed, NEW k \in Unrevealed,
                        job[j].visit = flight[p].stays[j], job[k].visit = flight[p].stays[k],
                        job[k].place < job[j].place
                 PROVE  job'[k].revealed # 0
    OBVIOUS
  <2>2. /\ TypeOK /\ ReadStatuses /\ RevealedInLine /\ RevealBelongsToStay /\ PicksFit
        /\ j \in Jobs /\ job[j].revealed = 0 /\ job'[j].revealed # 0
        /\ k \in Jobs /\ InLine(k)
    BY <2>1 DEF QueueInvariant, NewlyRevealed, Unrevealed, Line
  <2>3. PassWrite(p)
    <3>1. PICK q \in Procs : PassWrite(q)
      BY <2>1, <2>2, OnlyPassesReveal
    <3>2. q = p
      BY <2>1, <2>2, <3>1 DEF PassWrite, PicksFit
    <3> QED
      BY <3>1, <3>2
  <2>4. j \in Unrevealed /\ j \in flight[p].reveal
    BY <2>2, <2>3, PassKeeps
  <2>5. k \in flight[p].reveal
    BY <2>1, <2>2, <2>4 DEF PicksInOrder, WaitsInStay
  <2>6. PICK n \in Nat : job'[k] = Won(job[k], TRUE, n)
    <3>1. PICK n \in Nat : job' = Called(p, n)
      BY <2>2, <2>3, PassWritten
    <3>2. job'[k] = Won(job[k], k \in flight[p].reveal, n)
      BY <2>1, <2>2, <2>5, <3>1 DEF Called
    <3> QED
      BY <2>5, <3>2 DEF Won
  <2>7. job[k].visit # 0
    BY <2>2 DEF RevealedInLine
  <2>8. job[k] \in JobRows
    BY <2>2 DEF TypeOK
  <2>9. Won(job[k], TRUE, n).revealed = job[k].visit
    BY <2>8, WonRow
  <2> QED
    BY <2>6, <2>7, <2>9
<1> QED
  BY <1>3, <1>4, QueueInvariantHolds, PTL DEF Spec, StaysCalledInOrder

-----------------------------------------------------------------------------
(* No wake-up is lost: FreeSlotIsSeen is inductive. *)

(* A line of distinct places can be put in order. *)
LEMMA LineIsOrdered ==
  ASSUME TypeOK, PlacesDiffer
  PROVE  /\ LineInOrder \in [1 .. Cardinality(Line) -> Line]
         /\ \A j \in Line : \E i \in 1 .. Cardinality(Line) : LineInOrder[i] = j
         /\ \A i, k \in 1 .. Cardinality(Line) :
              i < k => job[LineInOrder[i]].place < job[LineInOrder[k]].place
         /\ \A i, k \in 1 .. Cardinality(Line) : LineInOrder[i] = LineInOrder[k] => i = k
<1> DEFINE n == Cardinality(Line)
           sorted == [i \in 1 .. n |-> CHOOSE j \in Line : Rank(j, Line, Place) = i]
           InOrder(line) ==
             \A i, k \in DOMAIN line : i < k => job[line[i]].place < job[line[k]].place
<1>1. /\ IsFiniteSet(Line) /\ n \in Nat
      /\ \A j \in Line : Place[j] = job[j].place /\ Place[j] \in Nat
      /\ \A i, j \in Line : Place[i] = Place[j] => i = j
  <2>1. \A j \in Line : Place[j] = job[j].place /\ job[j].place \in 0 .. MaxClock
    BY DEF Line, Place, TypeOK, JobRows
  <2>2. \A i, j \in Line : Place[i] = Place[j] => i = j
    BY <2>1 DEF PlacesDiffer
  <2> QED
    BY <2>1, <2>2, FiniteLine, FS_CardinalityType
<1>2. \A i \in 1 .. n : sorted[i] \in Line /\ Rank(sorted[i], Line, Place) = i
  BY <1>1, RanksFill
<1>3. sorted \in [1 .. n -> Line]
  BY <1>2
<1>4. InOrder(sorted)
  <2>1. SUFFICES ASSUME NEW i \in 1 .. n, NEW k \in 1 .. n, i < k
                 PROVE  Place[sorted[i]] < Place[sorted[k]]
    BY <1>1, <1>2
  <2>2. sorted[i] \in Line /\ sorted[k] \in Line
        /\ Rank(sorted[i], Line, Place) < Rank(sorted[k], Line, Place)
    BY <1>2, <2>1
  <2> HIDE DEF sorted
  <2>3. Place[sorted[k]] # Place[sorted[i]]
    <3>1. Rank(sorted[k], Line, Place) = k /\ Rank(sorted[i], Line, Place) = i
      BY <1>2
    <3>2. sorted[k] # sorted[i]
      BY <2>1, <3>1
    <3> QED
      BY <1>1, <2>2, <3>2
  <2>4. ~(Place[sorted[k]] < Place[sorted[i]])
    <3>1. SUFFICES ASSUME Place[sorted[k]] < Place[sorted[i]] PROVE FALSE
      OBVIOUS
    <3>2. Rank(sorted[k], Line, Place) < Rank(sorted[i], Line, Place)
      BY <1>1, <2>2, <3>1, RanksGrow
    <3>3. Rank(sorted[k], Line, Place) = k /\ Rank(sorted[i], Line, Place) = i
      BY <1>2
    <3> QED
      BY <2>1, <3>2, <3>3
  <2>5. Place[sorted[i]] \in Nat /\ Place[sorted[k]] \in Nat
    BY <1>1, <2>2
  <2> QED
    BY <2>3, <2>4, <2>5
<1>5. LineInOrder \in [1 .. n -> Line] /\ InOrder(LineInOrder)
  <2>1. LineInOrder = CHOOSE line \in [1 .. n -> Line] : InOrder(line)
    BY DEF LineInOrder
  <2> HIDE DEF n, sorted, InOrder
  <2> QED
    BY <1>3, <1>4, <2>1
<1>6. \A i, k \in 1 .. n : i < k => job[LineInOrder[i]].place < job[LineInOrder[k]].place
  BY <1>5
<1>7. LineInOrder \in Injection(1 .. n, Line)
  <2>1. \A i, k \in 1 .. n : LineInOrder[i] = LineInOrder[k] => i = k
    <3>1. SUFFICES ASSUME NEW i \in 1 .. n, NEW k \in 1 .. n, i < k
                   PROVE  LineInOrder[i] # LineInOrder[k]
      BY <1>1
    <3>2. job[LineInOrder[i]].place < job[LineInOrder[k]].place
      BY <1>6, <3>1
    <3>3. LineInOrder[i] \in Line /\ job[LineInOrder[i]].place \in Nat
      BY <1>1, <1>5
    <3> QED
      BY <3>2, <3>3
  <2> QED
    BY <1>5, <2>1 DEF Injection, IsInjective
<1>8. Cardinality(1 .. n) = n /\ IsFiniteSet(1 .. n)
  <2> HIDE DEF n
  <2> QED
    BY <1>1, FirstNumbers
<1>9. LineInOrder \in Surjection(1 .. n, Line)
  BY <1>1, <1>7, <1>8, FS_Injection
<1> QED
  BY <1>5, <1>6, <1>7, <1>9 DEF Injection, IsInjective, Surjection

(* A part of the line is told apart by the orders of it that are revealed.     *)
LEMMA RevealedCounted ==
  ASSUME NEW n \in Nat, NEW line \in [1 .. n -> Line], Revealed \subseteq Line,
         \A i, k \in 1 .. n : line[i] = line[k] => i = k,
         \A j \in Line : \E i \in 1 .. n : line[i] = j
  PROVE  Cardinality({i \in DOMAIN line : line[i] \in Revealed}) = Cardinality(Revealed)
<1> DEFINE I == {i \in 1 .. n : line[i] \in Revealed}
           f == [i \in I |-> line[i]]
<1>1. f \in [I -> Revealed]
  OBVIOUS
<1>2. f \in Injection(I, Revealed)
  BY <1>1 DEF Injection, IsInjective
<1>3. f \in Surjection(I, Revealed)
  BY <1>1 DEF Surjection
<1>4. IsFiniteSet(Revealed)
  BY FiniteLine
<1>5. Cardinality(I) = Cardinality(Revealed)
  BY <1>2, <1>3, <1>4, FS_Injection
<1> QED
  BY <1>5

(* The rank of an unrevealed order counts the unrevealed before it in line.    *)
LEMMA RankInLine ==
  ASSUME TypeOK, NEW n \in Nat, NEW line \in [1 .. n -> Line],
         \A j \in Line : \E i \in 1 .. n : line[i] = j,
         \A i, k \in 1 .. n : i < k => job[line[i]].place < job[line[k]].place,
         NEW k \in 1 .. n, line[k] \in Unrevealed
  PROVE  Rank(line[k], Unrevealed, Place) = Behind(line, Revealed, k - 1) + 1
<1> DEFINE H == {h \in 1 .. k : line[h] \notin Revealed}
           R == {x \in Unrevealed : Place[x] <= Place[line[k]]}
           f == [h \in H |-> line[h]]
<1>1. /\ \A x \in Line : x \in Jobs /\ Place[x] = job[x].place /\ Place[x] \in Nat
      /\ Unrevealed = Line \ Revealed /\ Unrevealed \subseteq Line
  <2>1. \A x \in Jobs : job[x].place \in Nat
    BY DEF TypeOK, JobRows
  <2> QED
    BY <2>1 DEF Place, Line, Unrevealed, Revealed
<1>2. \A h \in 1 .. n : line[h] \in Line /\ Place[line[h]] \in Nat
  BY <1>1
<1>3. \A i, h \in 1 .. n : i < h => Place[line[i]] < Place[line[h]]
  BY <1>1, <1>2
<1>4. ASSUME NEW h \in 1 .. n PROVE Place[line[h]] <= Place[line[k]] <=> h <= k
  <2>1. CASE h < k
    BY <1>2, <1>3, <2>1
  <2>2. CASE h = k
    BY <1>2, <2>2
  <2>3. CASE k < h
    <3>1. Place[line[k]] < Place[line[h]]
      BY <1>3, <2>3
    <3>2. Place[line[k]] \in Nat /\ Place[line[h]] \in Nat
      BY <1>2
    <3> QED
      BY <2>3, <3>1, <3>2
  <2> QED
    BY <2>1, <2>2, <2>3
<1>5. f \in Injection(H, R)
  <2>1. f \in [H -> R]
    <3>1. SUFFICES ASSUME NEW h \in H PROVE line[h] \in R
      OBVIOUS
    <3>2. h \in 1 .. n /\ h <= k
      OBVIOUS
    <3>3. line[h] \in Unrevealed
      BY <1>1, <1>2, <3>2
    <3> QED
      BY <1>4, <3>2, <3>3
  <2>2. \A h, i \in H : line[h] = line[i] => h = i
    <3>1. SUFFICES ASSUME NEW h \in 1 .. n, NEW i \in 1 .. n, h < i PROVE line[h] # line[i]
      OBVIOUS
    <3>2. Place[line[h]] < Place[line[i]] /\ Place[line[h]] \in Nat
      BY <1>2, <1>3, <3>1
    <3> QED
      BY <3>2
  <2> QED
    BY <2>1, <2>2 DEF Injection, IsInjective
<1>6. f \in Surjection(H, R)
  <2>1. ASSUME NEW x \in R PROVE \E h \in H : f[h] = x
    <3>1. x \in Line /\ x \notin Revealed /\ Place[x] <= Place[line[k]]
      BY <1>1
    <3>2. PICK h \in 1 .. n : line[h] = x
      BY <3>1
    <3>3. h \in H
      BY <1>4, <3>1, <3>2
    <3> QED
      BY <3>2, <3>3
  <2> QED
    BY <1>5, <2>1 DEF Injection, Surjection
<1>7. Cardinality(R) = Cardinality(H)
  <2>1. IsFiniteSet(R)
    BY FiniteLine, FS_Subset
  <2> QED
    BY <1>5, <1>6, <2>1, FS_Injection
<1>8. Cardinality(H) = Behind(line, Revealed, k)
  BY DEF Behind
<1>9. Behind(line, Revealed, k) = Behind(line, Revealed, k - 1) + 1
  <2>1. k - 1 \in Nat /\ (k - 1) + 1 = k /\ line[k] \notin Revealed
    BY <1>1
  <2> QED
    BY <2>1, BehindGrows
<1> QED
  BY <1>7, <1>8, <1>9 DEF Rank

(* The statement of the pass applies the rule of the preview. *)
LEMMA AppliesBands ==
  ASSUME TypeOK, PlacesDiffer
  PROVE  PassAppliesBands
<1> DEFINE n == Cardinality(Line)
           line == LineInOrder
           bands == AssignBands(line, Revealed, capacity)
<1>1. /\ line \in [1 .. n -> Line] /\ n \in Nat
      /\ \A j \in Line : \E i \in 1 .. n : line[i] = j
      /\ \A i, k \in 1 .. n : i < k => job[line[i]].place < job[line[k]].place
      /\ \A i, k \in 1 .. n : line[i] = line[k] => i = k
  BY LineIsOrdered, FiniteLine, FS_CardinalityType
<1>2. Cardinality({i \in DOMAIN line : line[i] \in Revealed}) = Cardinality(Revealed)
      /\ Cardinality(Revealed) \in Nat
  <2>1. Revealed \subseteq Line
    BY DEF Revealed
  <2> HIDE DEF line, n
  <2> QED
    BY <1>1, <2>1, RevealedCounted, FiniteLine
<1>3. Len(line) = n /\ DOMAIN line = 1 .. n
  BY <1>1
<1>4. capacity \in Int /\ Slots(capacity) \in Nat /\ Free \in Nat
  BY <1>2 DEF TypeOK, Slots, Free, FreeSlots
<1>5. ASSUME NEW k \in 1 .. n, line[k] \in Unrevealed
      PROVE  /\ line[k] \in PickReveals(Unrevealed, Place, Free) <=> bands[k] = "revealed"
             /\ line[k] \in PickArrivals(Unrevealed, Place, Free, Coming, capacity)
                  <=> bands[k] = "arriving" /\ line[k] \notin Coming
  <2> DEFINE u == Behind(line, Revealed, k - 1)
             r == Rank(line[k], Unrevealed, Place)
  <2>1. r = u + 1
    <3> HIDE DEF line, n
    <3> QED
      BY <1>1, <1>5, RankInLine
  <2>2. bands[k] = IF u < Free THEN "revealed"
                   ELSE IF u < Free + Slots(capacity) THEN "arriving" ELSE "waiting"
    <3>1. line[k] \notin Revealed
      BY <1>5 DEF Unrevealed, Revealed
    <3>2. Len(line) \in Nat /\ k \in 1 .. Len(line)
      BY <1>1, <1>3
    <3> HIDE DEF line
    <3> QED
      BY <1>2, <1>4, <3>1, <3>2, BandsCounted DEF Free
  <2>3. u \in Nat
    <3>1. k - 1 \in Nat
      OBVIOUS
    <3> QED
      BY <3>1, BehindGrows
  <2>4. line[k] \in PickReveals(Unrevealed, Place, Free) <=> r <= Free
    BY <1>5 DEF PickReveals
  <2>5. line[k] \in PickArrivals(Unrevealed, Place, Free, Coming, capacity)
          <=> r > Free /\ r <= Free + Slots(capacity) /\ line[k] \notin Coming
    BY <1>5 DEF PickArrivals
  <2> HIDE DEF u, r, bands, line
  <2> QED
    BY <1>4, <2>1, <2>2, <2>3, <2>4, <2>5
<1> HIDE DEF n
<1> QED
  BY <1>3, <1>5 DEF PassAppliesBands

(* Whenever a free place has someone to take it, the preview says that a pass  *)
(* has work: the first of the line who is not revealed is called.              *)
LEMMA FreeSlotIsWork ==
  ASSUME TypeOK, PlacesDiffer, FreeSlotWaits
  PROVE  WorkForPass
<1> DEFINE line == LineInOrder
<1>1. PICK j \in Unrevealed : Rank(j, Unrevealed, Place) = 1
  <2>1. IsFiniteSet(Unrevealed) /\ Cardinality(Unrevealed) \in Nat /\ Cardinality(Unrevealed) # 0
    BY FiniteLine, FS_CardinalityType, FS_EmptySet DEF FreeSlotWaits
  <2>2. \A i \in Unrevealed : Place[i] \in Nat
    BY DEF Unrevealed, Line, Place, TypeOK, JobRows
  <2>3. \A i, k \in Unrevealed : Place[i] = Place[k] => i = k
    BY DEF Unrevealed, Line, Place, PlacesDiffer
  <2>4. 1 \in 1 .. Cardinality(Unrevealed)
    BY <2>1
  <2> HIDE DEF Place
  <2> QED
    BY <2>1, <2>2, <2>3, <2>4, RanksFill
<1>2. j \in PickReveals(Unrevealed, Place, Free)
  <2>1. Free > 0 /\ Free \in Nat
    BY FiniteLine, SlotsTyped DEF FreeSlotWaits, Free, FreeSlots, TypeOK
  <2> QED
    BY <1>1, <2>1 DEF PickReveals
<1>3. PICK i \in DOMAIN line : line[i] = j
  <2>1. j \in Line
    BY DEF Unrevealed
  <2> QED
    BY <2>1, LineIsOrdered
<1>4. AssignBands(line, Revealed, capacity)[i] = "revealed" /\ line[i] \notin Revealed
  BY <1>2, <1>3, AppliesBands DEF PassAppliesBands, Unrevealed, Revealed
<1> HIDE DEF line
<1>5. NeedsReconcile(line, Revealed, Coming, capacity)
  BY <1>3, <1>4 DEF NeedsReconcile
<1> QED
  BY <1>5 DEF WorkForPass, line

(* The picks of a pass that finds a free place fill the counter or empty the   *)
(* line.                                                                       *)
LEMMA ReadPicksFill ==
  ASSUME TypeOK, PlacesDiffer, FreeSlotWaits, NEW p \in Procs, PassRead(p)
  PROVE  flight'[p].stage = "picked" /\ PicksFill(p)'
<1> DEFINE picks == PickReveals(Unrevealed, Place, Free)
           n == Cardinality(Revealed)
<1>1. /\ flight'[p].stage = "picked" /\ flight'[p].reveal = picks
      /\ Revealed' = Revealed /\ Unrevealed' = Unrevealed /\ capacity' = capacity
  BY DEF PassRead, TypeOK, Revealed, Unrevealed, Line, InLine
<1>2. Slots(capacity) \in Nat \ {0} /\ n \in Nat
  BY SlotsTyped, FiniteLine DEF TypeOK
<1>3. Free = (IF n < Slots(capacity) THEN Slots(capacity) - n ELSE 0) /\ Free > 0
  BY DEF Free, FreeSlots, FreeSlotWaits
<1>4. Free \in Nat /\ n + Free = Slots(capacity)
  <2> HIDE DEF n
  <2> QED
    BY <1>2, <1>3
<1>5. Unrevealed \subseteq picks \/ Cardinality(picks) = Free
  <2>1. IsFiniteSet(Unrevealed)
    BY FiniteLine
  <2>2. \A j \in Unrevealed : Place[j] \in Nat
    BY DEF Unrevealed, Line, Place, TypeOK, JobRows
  <2>3. \A i, j \in Unrevealed : Place[i] = Place[j] => i = j
    BY DEF Unrevealed, Line, Place, PlacesDiffer
  <2> HIDE DEF Place
  <2> QED
    BY <1>4, <2>1, <2>2, <2>3, FewRanked
<1>6. Unrevealed \cap picks = picks
  BY DEF PickReveals
<1>7. n + Cardinality(Unrevealed \cap picks) >= Slots(capacity) \/ Unrevealed \subseteq picks
  <2> HIDE DEF n, picks
  <2> QED
    BY <1>2, <1>4, <1>5, <1>6
<1> QED
  BY <1>1, <1>7 DEF PicksFill

(* A pass that writes such picks leaves no free place with someone to take it. *)
LEMMA WriteServes ==
  ASSUME TypeOK, RevealedInLine, NEW p \in Procs, PassWrite(p), PicksFill(p)
  PROVE  ~FreeSlotWaits'
<1> DEFINE won == Unrevealed \cap flight[p].reveal
<1>1. PICK n \in Nat :
        /\ job' = [j \in Jobs |->
             IF j \in Unrevealed
                /\ (j \in flight[p].reveal \/ (j \in flight[p].arrive /\ ~job[j].coming))
               THEN Won(job[j], j \in flight[p].reveal, n)
               ELSE job[j]]
        /\ capacity' = capacity
  BY PassWritten DEF PassWrite, Called
<1>2. ASSUME NEW j \in Jobs
      PROVE  job'[j].status = job[j].status /\ (job'[j].revealed = 0 => job[j].revealed = 0)
  BY PassKeeps DEF Unrevealed
<1>3. ASSUME NEW j \in won PROVE job'[j].revealed # 0
  <2>1. j \in Jobs /\ job'[j] = Won(job[j], TRUE, n) /\ InLine(j)
    BY <1>1 DEF Unrevealed, Line
  <2>2. job[j] \in JobRows /\ job[j].visit # 0
    BY <2>1 DEF TypeOK, RevealedInLine
  <2>3. Won(job[j], TRUE, n).revealed = job[j].visit
    BY <2>2, WonRow
  <2> QED
    BY <2>1, <2>2, <2>3
<1>4. Line' = Line /\ Line \subseteq Jobs
  BY <1>2 DEF Line, InLine
<1>5. Revealed \cup won \subseteq Revealed' /\ Unrevealed' \subseteq Unrevealed \ won
  BY <1>2, <1>3, <1>4 DEF Revealed, Unrevealed
<1>6. CASE Unrevealed \subseteq flight[p].reveal
  BY <1>5, <1>6 DEF FreeSlotWaits
<1>7. CASE Cardinality(Revealed) + Cardinality(won) >= Slots(capacity)
  <2>1. /\ IsFiniteSet(Revealed) /\ IsFiniteSet(won) /\ IsFiniteSet(Revealed')
        /\ Cardinality(Revealed) \in Nat /\ Cardinality(won) \in Nat
        /\ Cardinality(Revealed') \in Nat
    <3>1. won \subseteq Jobs /\ Revealed' \subseteq Jobs
      BY <1>4 DEF Unrevealed, Revealed
    <3> HIDE DEF won
    <3> QED
      BY <3>1, FiniteLine, FS_Subset, FS_CardinalityType
  <2>2. Revealed \cap won = {}
    BY DEF Revealed, Unrevealed
  <2>3. Cardinality(Revealed \cup won) = Cardinality(Revealed) + Cardinality(won)
    <3> HIDE DEF won
    <3>1. Cardinality(Revealed \cup won) =
            Cardinality(Revealed) + Cardinality(won) - Cardinality(Revealed \cap won)
      BY <2>1, FS_Union
    <3>2. Cardinality(Revealed \cap won) = 0
      BY <2>2, FS_EmptySet
    <3> QED
      BY <2>1, <3>1, <3>2
  <2>4. Cardinality(Revealed \cup won) <= Cardinality(Revealed')
    <3> HIDE DEF won
    <3> QED
      BY <1>5, <2>1, FS_Subset
  <2>5. Slots(capacity) \in Nat
    BY SlotsTyped DEF TypeOK
  <2>6. ~(Cardinality(Revealed') < Slots(capacity))
    <3> HIDE DEF won
    <3> QED
      BY <1>7, <2>1, <2>3, <2>4, <2>5
  <2>7. Free' = 0
    BY <1>1, <2>6 DEF Free, FreeSlots
  <2> QED
    BY <2>7 DEF FreeSlotWaits
<1> QED
  BY <1>6, <1>7 DEF PicksFill

(* What changes neither line, capacity, callers nor passes leaves it as it is. *)
LineKept ==
  /\ \A j \in Jobs : /\ InLine(j)' = InLine(j)
                     /\ InLine(j) => job'[j].revealed = job[j].revealed
  /\ UNCHANGED <<capacity, sync, flight>>

LEMMA ServiceKept ==
  ASSUME LineKept, FreeSlotWaits => ServiceComes
  PROVE  FreeSlotWaits' => ServiceComes'
<1>1. Line' = Line /\ Revealed' = Revealed /\ Unrevealed' = Unrevealed
  BY DEF LineKept, Line, Revealed, Unrevealed
<1>2. FreeSlotWaits' = FreeSlotWaits
  BY <1>1 DEF LineKept, FreeSlotWaits, Free
<1>3. ServiceComes' = ServiceComes
  BY <1>1 DEF LineKept, ServiceComes, PicksFill
<1> QED
  BY <1>2, <1>3

(* A write that wakes nobody closes an order outside the line.                 *)
LEMMA CloseKeepsLine ==
  ASSUME TypeOK, ReadStatuses, NEW r \in pending, Write(r), r.op = "close"
  PROVE  LineKept
<1>1. /\ r.job \in Jobs /\ job'[r.job] = Row(r)
      /\ \A i \in Jobs : i # r.job => job'[i] = job[i]
  BY WriteRow
<1>2. Row(r).status = "cancelled"
  <2>1. Row(r) = Cancelled([job[r.job] EXCEPT !.aged = FALSE])
    BY DEF Row
  <2> QED
    BY <1>1, <2>1 DEF Cancelled, OutOfLine, TypeOK, JobRows
<1>3. job[r.job].status = "awaiting_arrival"
  BY DEF Write, Guard, ReadStatuses, Accepts
<1>4. UNCHANGED <<capacity, sync, flight>>
  BY DEF Write
<1> QED
  BY <1>1, <1>2, <1>3, <1>4 DEF LineKept, InLine, ActiveStatuses

(* A call for a pass leaves one that has not read the line yet.                *)
LEMMA WithPassComes ==
  ASSUME TypeOK, NEW p \in Procs, flight' = WithPass(p)
  PROVE  ServiceComes'
<1>1. flight \in [Procs -> Flights]
  BY DEF TypeOK
<1>2. CASE flight[p].stage = "idle"
  <2>1. flight'[p].stage = "waiting"
    BY <1>1, <1>2 DEF WithPass, Flight
  <2> QED
    BY <2>1 DEF ServiceComes
<1>3. CASE flight[p].stage # "idle"
  <2>1. flight[p] \in Flights /\ flight'[p] = [flight[p] EXCEPT !.next = TRUE]
    BY <1>1, <1>3 DEF WithPass
  <2>2. flight'[p].stage \in {"waiting", "picked"} /\ flight'[p].next
    BY <1>3, <2>1 DEF Flights
  <2> QED
    BY <2>2 DEF ServiceComes
<1> QED
  BY <1>2, <1>3

(* A pass that writes serves the line, or somebody else will.                  *)
LEMMA WriteComes ==
  ASSUME TypeOK, RevealedInLine, PicksFit, FreeSlotWaits => ServiceComes,
         NEW p \in Procs, PassWrite(p), FreeSlotWaits'
  PROVE  ServiceComes'
<1>1. /\ flight[p].stage = "picked" /\ flight' = Settled(p)
      /\ sync' = sync /\ capacity' = capacity /\ flight \in [Procs -> Flights]
  BY DEF PassWrite, TypeOK
<1>2. FreeSlotWaits
  <2>1. \A j \in Jobs : /\ job'[j].status = job[j].status
                        /\ job'[j].revealed = 0 => job[j].revealed = 0
    BY PassKeeps DEF Unrevealed
  <2>2. Line' = Line
    BY <2>1 DEF Line, InLine
  <2>3. Revealed \subseteq Revealed' /\ Unrevealed' \subseteq Unrevealed
    BY <2>1, <2>2 DEF Revealed, Unrevealed, Line
  <2>4. /\ Cardinality(Revealed) <= Cardinality(Revealed')
        /\ Cardinality(Revealed) \in Nat /\ Cardinality(Revealed') \in Nat
    <3>1. Revealed' \subseteq Jobs
      BY <2>2 DEF Revealed, Line
    <3> QED
      BY <2>3, <3>1, FS_Subset, FS_CardinalityType, FiniteLine
  <2>5. Slots(capacity) \in Nat
    BY SlotsTyped DEF TypeOK
  <2>6. Free' > 0 => Free > 0
    BY <1>1, <2>4, <2>5 DEF Free, FreeSlots
  <2> QED
    BY <2>3, <2>6 DEF FreeSlotWaits
<1>3. CASE sync # {}
  BY <1>1, <1>3 DEF ServiceComes
<1>4. ASSUME NEW q \in Procs, flight[q].stage = "waiting" PROVE ServiceComes'
  <2>1. q # p /\ flight'[q] = flight[q]
    BY <1>1, <1>4, SettledPicks
  <2> QED
    BY <1>4, <2>1 DEF ServiceComes
<1>5. CASE flight[p].next
  <2>1. flight'[p].stage = "waiting"
    BY <1>1, <1>5 DEF Settled, Flight
  <2> QED
    BY <2>1 DEF ServiceComes
<1>6. ~PicksFill(p)
  BY WriteServes
<1>7. \A q \in Procs : flight[q].stage = "picked" => q = p
  BY <1>1 DEF PicksFit
<1> QED
  BY <1>2, <1>3, <1>4, <1>5, <1>6, <1>7 DEF ServiceComes

(* FreeSlotIsSeen is inductive beside QueueInvariant.                          *)
LEMMA SeenStep ==
  ASSUME QueueInvariant, FreeSlotIsSeen, [Next]_vars
  PROVE  FreeSlotIsSeen'
<1>1. /\ TypeOK /\ PlacesDiffer /\ ReadStatuses /\ RevealedInLine /\ RevealBelongsToStay
      /\ PicksFit
  BY DEF QueueInvariant
<1>2. SUFFICES ASSUME faults' = 0, FreeSlotWaits' PROVE ServiceComes'
  BY DEF FreeSlotIsSeen
<1>3. faults = 0 /\ ~ \E p \in Procs : PassFails(p) \/ ProcessDies(p)
  <2>1. faults \in Nat
    BY <1>1 DEF TypeOK
  <2>2. \A p \in Procs : PassFails(p) \/ ProcessDies(p) => faults' = faults + 1
    BY DEF PassFails, ProcessDies
  <2>3. faults' \in {faults, faults + 1}
    <3>1. \A j \in Jobs, p \in Procs : Handlers(j, p) => faults' = faults
      BY <1>1, ReadStep
    <3> QED
      BY <3>1 DEF Next, Passes, Reconcile, PassRead, PassWrite, Sweep, SetCapacity, PassFails,
                  ProcessDies, Write, Lost, Answered, Ages, Tick, vars
  <2> QED
    BY <1>2, <2>1, <2>2, <2>3
<1>4. FreeSlotWaits => ServiceComes
  BY <1>3 DEF FreeSlotIsSeen
<1>5. ASSUME LineKept PROVE ServiceComes'
  BY <1>2, <1>4, <1>5, ServiceKept
<1>6. ASSUME UNCHANGED <<job, capacity, sync, flight>> PROVE LineKept
  BY <1>6 DEF LineKept, InLine
<1>7. CASE \E p \in Procs : Passes(p)
  <2>1. PICK p \in Procs : Passes(p)
    BY <1>7
  <2>2. CASE Reconcile(p)
    <3>1. FreeSlotWaits
      BY <1>2, <2>2 DEF Reconcile, FreeSlotWaits, Free, Revealed, Unrevealed, Line, InLine
    <3>2. flight' = WithPass(p)
      BY <1>1, <2>2, <3>1, FreeSlotIsWork DEF Reconcile
    <3> QED
      BY <1>1, <3>2, WithPassComes
  <2>3. CASE PassRead(p)
    <3>1. FreeSlotWaits
      BY <1>2, <2>3 DEF PassRead, FreeSlotWaits, Free, Revealed, Unrevealed, Line, InLine
    <3> QED
      BY <1>1, <2>3, <3>1, ReadPicksFill DEF ServiceComes
  <2>4. CASE PassWrite(p)
    BY <1>1, <1>2, <1>4, <2>4, WriteComes
  <2>5. CASE Sweep(p) \/ \E c \in Capacities : SetCapacity(c, p)
    BY <2>5 DEF Sweep, SetCapacity, ServiceComes
  <2> QED
    BY <1>3, <2>1, <2>2, <2>3, <2>4, <2>5 DEF Passes
<1>8. CASE \E j \in Jobs, p \in Procs : Handlers(j, p)
  BY <1>1, <1>5, <1>6, <1>8, ReadStep
<1>9. ASSUME NEW r \in pending, Write(r) PROVE ServiceComes'
  <2>1. CASE r.op = "close"
    BY <1>1, <1>5, <1>9, <2>1, CloseKeepsLine
  <2>2. CASE r.op # "close"
    BY <1>9, <2>2 DEF Write, ServiceComes
  <2> QED
    BY <2>1, <2>2
<1>10. CASE \E r \in pending : Lost(r) \/ Answered(r)
  BY <1>5, <1>6, <1>10 DEF Lost, Answered
<1>11. ASSUME NEW j \in Jobs, Ages(j) PROVE ServiceComes'
  <2>1. LineKept
    BY <1>1, <1>11, AgesRow DEF LineKept, InLine, Ages
  <2> QED
    BY <1>5, <2>1
<1>12. CASE UNCHANGED vars \/ Tick
  BY <1>5, <1>6, <1>12 DEF vars, Tick
<1> QED
  BY <1>7, <1>8, <1>9, <1>10, <1>11, <1>12 DEF Next

(* The statement of the pass "applies exactly the rule of assignBands()"       *)
(* (bands.ts:155): what the preview decides by one is done by the other, for   *)
(* every line, counter size and mark already sent.                             *)
THEOREM PassAppliesBandsHolds == Spec => []PassAppliesBands
<1>1. QueueInvariant => PassAppliesBands
  BY AppliesBands DEF QueueInvariant
<1> QED
  BY <1>1, QueueInvariantHolds, PTL

(* "With no sticky reveals this equals queueBand(position, capacity) for every *)
(* job" (queueBands.ts:37-38), for lines of any length.                        *)
THEOREM BandsGoByPlace ==
  ASSUME NEW size \in Int, NEW line, Len(line) \in Nat, DOMAIN line = 1 .. Len(line),
         NEW k \in 1 .. Len(line)
  PROVE  AssignBands(line, {}, size)[k] = QueueBand(k, size)
<1> DEFINE u == Behind(line, {}, k - 1)
<1>1. u = k - 1
  <2>1. k - 1 \in Nat
    OBVIOUS
  <2>2. {h \in 1 .. (k - 1) : line[h] \notin {}} = 1 .. (k - 1)
    OBVIOUS
  <2>3. Cardinality(1 .. (k - 1)) = k - 1
    BY <2>1, FirstNumbers
  <2> QED
    BY <2>2, <2>3 DEF Behind
<1>2. Cardinality({i \in DOMAIN line : line[i] \in {}}) = 0
  <2>1. {i \in DOMAIN line : line[i] \in {}} = {}
    OBVIOUS
  <2> QED
    BY <2>1, FS_EmptySet
<1>3. FreeSlots(size, 0) = Slots(size) /\ Slots(size) \in Nat \ {0}
  BY DEF FreeSlots, Slots
<1>4. AssignBands(line, {}, size)[k] =
        IF u < FreeSlots(size, 0) THEN "revealed"
        ELSE IF u < FreeSlots(size, 0) + Slots(size) THEN "arriving"
        ELSE "waiting"
  <2>1. line[k] \notin {}
    OBVIOUS
  <2> QED
    BY <1>2, <1>3, <2>1, BandsCounted
<1> HIDE DEF u
<1>5. /\ u < FreeSlots(size, 0) <=> k <= Slots(size)
      /\ u < FreeSlots(size, 0) + Slots(size) <=> k <= 2 * Slots(size)
  BY <1>1, <1>3
<1> QED
  BY <1>4, <1>5 DEF QueueBand

(* No wake-up of the line is lost while no process fails (bands.ts:281-300):   *)
(* when everybody is done, no place at the counter is free for someone who     *)
(* still waits, however the calls of any number of processes were coalesced.   *)
THEOREM QuietLineIsServedHolds == Spec => []QuietLineIsServed
<1>1. Init => FreeSlotIsSeen
  BY DEF Init, FreeSlotIsSeen, ServiceComes
<1>2. QueueInvariant /\ FreeSlotIsSeen /\ [Next]_vars => FreeSlotIsSeen'
  BY SeenStep
<1>3. FreeSlotIsSeen => QuietLineIsServed
  BY DEF FreeSlotIsSeen, QuietLineIsServed, Quiet, ServiceComes
<1> QED
  BY <1>1, <1>2, <1>3, QueueInvariantHolds, PTL DEF Spec
================================================================================
