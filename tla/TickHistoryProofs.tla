------------------------- MODULE TickHistoryProofs -------------------------
(***************************************************************************)
(* Proofs about TickHistory: a verdict rests on all the ticks of the       *)
(* lookback, however the pages end, and it is the verdict of the live      *)
(* tracker; buckets and windows add up alike; buyers are treated like      *)
(* sellers.                                                                *)
(***************************************************************************)
EXTENDS TickHistory, FiniteSetTheorems, WellFoundedInduction, TLAPS

-----------------------------------------------------------------------------
(* Sorting by rank.                                                        *)

\* The members of a finite set that go before each, in a total order.
Orders(before, D) ==
    /\ before \in [D -> SUBSET D]
    /\ \A x \in D : x \notin before[x]
    /\ \A x, y \in D : y \in before[x] => before[y] \subseteq before[x]
    /\ \A x, y \in D : x = y \/ x \in before[y] \/ y \in before[x]

\* Their number gives each member a place of its own, and every place is taken.
LEMMA Places ==
    ASSUME NEW D, IsFiniteSet(D), NEW before, Orders(before, D)
    PROVE  /\ Cardinality(D) \in Nat
           /\ \A x \in D : Cardinality(before[x]) \in 0 .. Cardinality(D) - 1
           /\ \A x, y \in D : Cardinality(before[x]) < Cardinality(before[y]) <=> x \in before[y]
           /\ \A k \in 1 .. Cardinality(D) : \E x \in D : Cardinality(before[x]) = k - 1
<1> DEFINE c == Cardinality(D)
           rank == [x \in D |-> Cardinality(before[x])]
<1>1. c \in Nat
  BY FS_CardinalityType
<1>2. ASSUME NEW x \in D
      PROVE  IsFiniteSet(before[x]) /\ rank[x] \in 0 .. c - 1
  <2>1. before[x] \in SUBSET D /\ before[x] # D
    BY DEF Orders
  <2>2. /\ IsFiniteSet(before[x]) /\ Cardinality(before[x]) <= c
        /\ c = Cardinality(before[x]) => D = before[x]
    BY <2>1, FS_Subset
  <2>3. Cardinality(before[x]) \in Nat
    BY <2>2, FS_CardinalityType
  <2>4. QED
    BY <1>1, <2>1, <2>2, <2>3
<1>3. ASSUME NEW x \in D, NEW y \in D, x \in before[y]
      PROVE  rank[x] < rank[y]
  <2>1. before[x] \in SUBSET before[y] /\ before[x] # before[y]
    BY <1>3 DEF Orders
  <2>2. /\ Cardinality(before[x]) <= Cardinality(before[y])
        /\ Cardinality(before[y]) = Cardinality(before[x]) => before[y] = before[x]
    BY <1>2, <2>1, FS_Subset
  <2>3. Cardinality(before[x]) \in Int /\ Cardinality(before[y]) \in Int
    BY <1>2
  <2>4. QED
    BY <2>1, <2>2, <2>3
<1>4. \A x, y \in D : rank[x] < rank[y] <=> x \in before[y]
  <2>1. SUFFICES ASSUME NEW x \in D, NEW y \in D, rank[x] < rank[y] PROVE x \in before[y]
    BY <1>3
  <2>2. rank[x] \in Int /\ rank[y] \in Int
    BY <1>2
  <2>3. x # y /\ y \notin before[x]
    BY <1>3, <2>1, <2>2
  <2>4. QED
    BY <2>3 DEF Orders
<1>5. rank \in Injection(D, 0 .. c - 1)
  <2>1. rank \in [D -> 0 .. c - 1]
    BY <1>2
  <2>2. ASSUME NEW x \in D, NEW y \in D, rank[x] = rank[y] PROVE x = y
    <3>1. rank[x] \in Int /\ rank[y] \in Int
      BY <1>2
    <3>2. x \notin before[y] /\ y \notin before[x]
      BY <1>4, <2>2, <3>1
    <3>3. QED
      BY <3>2 DEF Orders
  <2>3. IsInjective(rank)
    BY <2>2 DEF IsInjective
  <2>4. QED
    BY <2>1, <2>3 DEF Injection
<1>6. IsFiniteSet(0 .. c - 1) /\ Cardinality(0 .. c - 1) = c
  BY <1>1, FS_Interval
<1>7. rank \in Surjection(D, 0 .. c - 1)
  BY <1>5, <1>6, FS_Injection
<1>8. \A k \in 1 .. c : \E x \in D : rank[x] = k - 1
  <2>1. \A k \in 0 .. c - 1 : \E x \in D : rank[x] = k
    BY <1>7 DEF Surjection
  <2>2. \A k \in 1 .. c : k - 1 \in 0 .. c - 1
    BY <1>1
  <2>3. QED
    BY <2>1, <2>2
<1>9. \A x \in D : rank[x] = Cardinality(before[x])
  OBVIOUS
<1> HIDE DEF rank
<1>10. QED
  BY <1>1, <1>2, <1>4, <1>8, <1>9

\* A sequence with each member at its place holds them all, in the order.
LEMMA RankedSorts ==
    ASSUME NEW D, IsFiniteSet(D), NEW before, Orders(before, D),
           NEW f \in [1 .. Cardinality(D) -> D],
           \A k \in 1 .. Cardinality(D) : Cardinality(before[f[k]]) = k - 1
    PROVE  /\ \A x \in D : \E k \in 1 .. Cardinality(D) : f[k] = x
           /\ \A i, j \in 1 .. Cardinality(D) : i < j <=> f[i] \in before[f[j]]
<1> DEFINE c == Cardinality(D)
           size(x) == Cardinality(before[x])
<1>1. /\ c \in Nat
      /\ \A x \in D : size(x) \in 0 .. c - 1
      /\ \A x, y \in D : size(x) < size(y) <=> x \in before[y]
  BY Places
<1>2. \A k \in 1 .. c : f[k] \in D /\ size(f[k]) = k - 1
  OBVIOUS
<1> HIDE DEF size
<1>3. ASSUME NEW x \in D PROVE \E k \in 1 .. c : f[k] = x
  <2> DEFINE k == size(x) + 1
  <2>1. k \in 1 .. c /\ k - 1 = size(x)
    BY <1>1
  <2> HIDE DEF k
  <2>2. f[k] \in D /\ size(f[k]) = size(x)
    BY <1>2, <2>1
  <2>3. x \notin before[f[k]] /\ f[k] \notin before[x]
    BY <1>1, <2>2
  <2>4. f[k] = x
    BY <2>2, <2>3 DEF Orders
  <2>5. QED
    BY <2>1, <2>4
<1>4. ASSUME NEW i \in 1 .. c, NEW j \in 1 .. c
      PROVE  i < j <=> f[i] \in before[f[j]]
  <2>1. size(f[i]) = i - 1 /\ size(f[j]) = j - 1 /\ f[i] \in D /\ f[j] \in D
    BY <1>2
  <2>2. i < j <=> size(f[i]) < size(f[j])
    BY <1>1, <2>1
  <2>3. QED
    BY <1>1, <2>1, <2>2
<1>5. QED
  BY <1>3, <1>4

\* The members of a set of ticks in the order of the tape: all of them, ascending.
LEMMA InOrderAscends ==
    ASSUME NEW S, S \subseteq Int, IsFiniteSet(S)
    PROVE  /\ InOrder(S) \in Seq(S)
           /\ ToSet(InOrder(S)) = S
           /\ \A i, j \in DOMAIN InOrder(S) : i < j => InOrder(S)[i] < InOrder(S)[j]
<1> DEFINE before == [n \in S |-> {o \in S : o < n}]
           c == Cardinality(S)
           size(n) == Cardinality({o \in S : o < n})
           f == InOrder(S)
<1>1. Orders(before, S)
  <2>1. \A x, y \in S : y < x => \A o \in S : o < y => o < x
    OBVIOUS
  <2>2. \A x, y \in S : x = y \/ x < y \/ y < x
    OBVIOUS
  <2>3. \A x \in S : ~(x < x)
    OBVIOUS
  <2>4. QED
    BY <2>1, <2>2, <2>3, Zenon DEF Orders
<1>2. \A n \in S : Cardinality(before[n]) = size(n)
  OBVIOUS
<1>3. c \in Nat /\ \A k \in 1 .. c : \E n \in S : size(n) = k - 1
  <2>1. c \in Nat /\ \A k \in 1 .. c : \E n \in S : Cardinality(before[n]) = k - 1
    BY <1>1, Places
  <2>2. QED
    BY <1>2, <2>1
<1>4. f = [k \in 1 .. c |-> CHOOSE n \in S : size(n) = k - 1]
  BY DEF InOrder
<1> HIDE DEF size, f
<1>5. \A k \in 1 .. c : f[k] \in S /\ size(f[k]) = k - 1
  BY <1>3, <1>4
<1>6. f \in [1 .. c -> S]
  BY <1>4, <1>5
<1>7. \A k \in 1 .. c : Cardinality(before[f[k]]) = k - 1
  BY <1>2, <1>5
<1>8. /\ \A x \in S : \E k \in 1 .. c : f[k] = x
      /\ \A i, j \in 1 .. c : i < j <=> f[i] \in before[f[j]]
  BY <1>1, <1>6, <1>7, RankedSorts
<1> HIDE DEF c
<1>9. f \in Seq(S) /\ DOMAIN f = 1 .. c
  BY <1>3, <1>6
<1>10. ToSet(f) = S
  BY <1>6, <1>8, <1>9 DEF ToSet
<1>11. \A i, j \in 1 .. c : i < j => f[i] < f[j]
  BY <1>6, <1>8
<1>12. QED
  BY <1>9, <1>10, <1>11 DEF f

\* An ascending sequence of all the members of a set is the set in order.
LEMMA AscendingIsInOrder ==
    ASSUME NEW S, S \subseteq Int, NEW n \in Nat, NEW f \in [1 .. n -> S],
           \A x \in S : \E k \in 1 .. n : f[k] = x,
           \A i, j \in 1 .. n : i < j => f[i] < f[j]
    PROVE  IsFiniteSet(S) /\ Cardinality(S) = n /\ InOrder(S) = f
<1>1. \A k \in 1 .. n : f[k] \in S /\ f[k] \in Int
  OBVIOUS
<1>2. \A i, j \in 1 .. n : f[i] < f[j] <=> i < j
  <2>1. ASSUME NEW i \in 1 .. n, NEW j \in 1 .. n, f[i] < f[j] PROVE i < j
    <3>1. f[i] \in Int /\ f[j] \in Int
      BY <1>1
    <3>2. j < i => f[j] < f[i]
      OBVIOUS
    <3>3. i # j
      BY <2>1, <3>1
    <3>4. QED
      BY <2>1, <3>1, <3>2, <3>3
  <2>2. QED
    BY <2>1
<1>3. ASSUME NEW k \in 0 .. n
      PROVE  /\ IsFiniteSet({f[j] : j \in 1 .. k})
             /\ Cardinality({f[j] : j \in 1 .. k}) = k
  <2> DEFINE A == 1 .. k
             B == {f[j] : j \in 1 .. k}
             g == [j \in A |-> f[j]]
  <2>1. IsFiniteSet(A) /\ Cardinality(A) = k
    BY FS_Interval
  <2>2. g \in [A -> B] /\ \A b \in B : \E a \in A : g[a] = b
    OBVIOUS
  <2>3. \A i, j \in A : g[i] = g[j] => i = j
    <3>1. ASSUME NEW i \in A, NEW j \in A, f[i] = f[j] PROVE i = j
      <4>1. i \in 1 .. n /\ j \in 1 .. n
        OBVIOUS
      <4>2. ~(f[i] < f[j]) /\ ~(f[j] < f[i])
        BY <1>1, <3>1, <4>1
      <4>3. QED
        BY <1>2, <4>1, <4>2
    <3>2. QED
      BY <3>1
  <2>4. g \in Surjection(A, B) /\ g \in Injection(A, B)
    BY <2>2, <2>3 DEF Injection, Surjection, IsInjective
  <2> HIDE DEF A, B, g
  <2>5. IsFiniteSet(B) /\ Cardinality(B) = Cardinality(A)
    BY <2>1, <2>4, FS_Surjection, Zenon
  <2>6. QED
    BY <2>1, <2>5 DEF B
<1>4. S = {f[j] : j \in 1 .. n}
  OBVIOUS
<1>5. IsFiniteSet(S) /\ Cardinality(S) = n
  <2>1. n \in 0 .. n
    OBVIOUS
  <2>2. IsFiniteSet({f[j] : j \in 1 .. n}) /\ Cardinality({f[j] : j \in 1 .. n}) = n
    BY <1>3, <2>1, Zenon
  <2>3. QED
    BY <1>4, <2>2
<1>6. ASSUME NEW k \in 1 .. n
      PROVE  Cardinality({o \in S : o < f[k]}) = k - 1
  <2>1. {o \in S : o < f[k]} = {f[j] : j \in 1 .. k - 1}
    <3>1. \A j \in 1 .. n : f[j] < f[k] <=> j \in 1 .. k - 1
      BY <1>2
    <3>2. \A j \in 1 .. k - 1 : j \in 1 .. n
      OBVIOUS
    <3>3. QED
      BY <1>4, <3>1, <3>2
  <2>2. k - 1 \in 0 .. n
    OBVIOUS
  <2>3. QED
    BY <1>3, <2>1, <2>2
<1> DEFINE size(x) == Cardinality({o \in S : o < x})
<1>7. ASSUME NEW k \in 1 .. n
      PROVE  (CHOOSE x \in S : size(x) = k - 1) = f[k]
  <2>1. f[k] \in S /\ size(f[k]) = k - 1
    BY <1>6
  <2>2. ASSUME NEW x \in S, size(x) = k - 1 PROVE x = f[k]
    <3>1. PICK j \in 1 .. n : f[j] = x
      OBVIOUS
    <3>2. size(x) = j - 1
      BY <1>6, <3>1
    <3>3. j = k
      BY <2>2, <3>2
    <3>4. QED
      BY <3>1, <3>3
  <2> HIDE DEF size
  <2>3. QED
    BY <2>1, <2>2
<1>8. InOrder(S) = [k \in 1 .. n |-> CHOOSE x \in S : size(x) = k - 1]
  BY <1>5 DEF InOrder
<1> HIDE DEF size
<1>9. InOrder(S) = [k \in 1 .. n |-> f[k]]
  BY <1>7, <1>8
<1>10. QED
  BY <1>5, <1>9

LEMMA InOrderDomain ==
    ASSUME NEW S PROVE DOMAIN InOrder(S) = 1 .. Cardinality(S)
BY DEF InOrder

\* A finite set of positions has a latest, and no other one is it.
LEMMA LatestIs ==
    ASSUME NEW S, S \subseteq Int, IsFiniteSet(S), S # {}
    PROVE  /\ Latest(S) \in S /\ \A j \in S : j <= Latest(S)
           /\ \A k \in S : (\A j \in S : j <= k) => Latest(S) = k
<1> DEFINE f == InOrder(S)
           n == Cardinality(S)
<1>1. /\ f \in Seq(S) /\ ToSet(f) = S /\ DOMAIN f = 1 .. n
      /\ \A i, j \in DOMAIN f : i < j => f[i] < f[j]
  BY InOrderAscends, InOrderDomain
<1>2. n \in Nat /\ n # 0
  BY FS_CardinalityType, FS_EmptySet
<1> HIDE DEF f, n
<1>3. \A x \in S : \E i \in 1 .. n : x = f[i]
  BY <1>1 DEF ToSet
<1>4. n \in 1 .. n /\ \A i \in 1 .. n : f[i] \in S
  BY <1>1, <1>2
<1>5. ASSUME NEW x \in S PROVE x <= f[n]
  <2>1. PICK i \in 1 .. n : x = f[i]
    BY <1>3
  <2>2. i = n \/ f[i] < f[n]
    BY <1>1, <1>4
  <2>3. f[i] \in Int /\ f[n] \in Int
    BY <1>4
  <2>4. QED
    BY <2>1, <2>2, <2>3
<1>6. \E x \in S : \A j \in S : j <= x
  BY <1>4, <1>5
<1>7. Latest(S) \in S /\ \A j \in S : j <= Latest(S)
  BY <1>6 DEF Latest
<1>8. ASSUME NEW k \in S, \A j \in S : j <= k PROVE Latest(S) = k
  <2> DEFINE l == Latest(S)
  <2>1. l \in S /\ k <= l
    BY <1>7
  <2> HIDE DEF l
  <2>2. l <= k /\ l \in Int /\ k \in Int
    BY <1>8, <2>1
  <2>3. l = k
    BY <2>1, <2>2
  <2>4. QED
    BY <2>3 DEF l
<1>9. QED
  BY <1>7, <1>8

\* The members of a set in order, as a function of their place.
Placed(S) ==
    /\ Cardinality(S) \in Nat
    /\ InOrder(S) \in [1 .. Cardinality(S) -> S]
    /\ \A x \in S : \E k \in 1 .. Cardinality(S) : InOrder(S)[k] = x
    /\ \A i, j \in 1 .. Cardinality(S) : i < j => InOrder(S)[i] < InOrder(S)[j]

LEMMA InOrderPlaces ==
    ASSUME NEW S \in SUBSET Int, IsFiniteSet(S)
    PROVE  Placed(S)
<1>1. /\ InOrder(S) \in Seq(S) /\ ToSet(InOrder(S)) = S
      /\ DOMAIN InOrder(S) = 1 .. Cardinality(S)
      /\ \A i, j \in DOMAIN InOrder(S) : i < j => InOrder(S)[i] < InOrder(S)[j]
  BY InOrderAscends, InOrderDomain
<1>2. Cardinality(S) \in Nat
  BY FS_CardinalityType
<1>3. \A x \in S : \E k \in 1 .. Cardinality(S) : InOrder(S)[k] = x
  BY <1>1 DEF ToSet
<1>4. \A k \in 1 .. Cardinality(S) : InOrder(S)[k] \in S
  BY <1>1 DEF ToSet
<1>5. QED
  BY <1>1, <1>2, <1>3, <1>4 DEF Placed

\* What a sequence has at some positions.
LEMMA PickedIs ==
    ASSUME NEW s, NEW S
    PROVE  Picked(s, S) = [k \in 1 .. Cardinality(S) |-> s[InOrder(S)[k]]]
BY InOrderDomain DEF Picked

\* Two sequences joined.
LEMMA Joined ==
    ASSUME NEW A, NEW f \in Seq(A), NEW g \in Seq(A)
    PROVE  /\ f \o g \in Seq(A)
           /\ ToSet(f \o g) = ToSet(f) \cup ToSet(g)
           /\ \A i \in DOMAIN f : i \in DOMAIN (f \o g) /\ (f \o g)[i] = f[i]
           /\ \A i \in DOMAIN (f \o g) :
                  i \notin DOMAIN f => i - Len(f) \in DOMAIN g /\ (f \o g)[i] = g[i - Len(f)]
<1> DEFINE h == f \o g
<1>1. h \in Seq(A) /\ Len(f) \in Nat /\ Len(g) \in Nat /\ Len(h) = Len(f) + Len(g)
  OBVIOUS
<1>2. DOMAIN f = 1 .. Len(f) /\ DOMAIN g = 1 .. Len(g) /\ DOMAIN h = 1 .. Len(h)
  BY <1>1
<1>3. \A i \in DOMAIN f : i \in DOMAIN h /\ h[i] = f[i]
  BY <1>1, <1>2
<1>4. \A i \in DOMAIN h : i \notin DOMAIN f => i - Len(f) \in DOMAIN g /\ h[i] = g[i - Len(f)]
  BY <1>1, <1>2
<1>5. \A j \in DOMAIN g : j + Len(f) \in DOMAIN h /\ h[j + Len(f)] = g[j]
  BY <1>1, <1>2
<1> HIDE DEF h
<1>6. ToSet(h) = ToSet(f) \cup ToSet(g)
  BY <1>3, <1>4, <1>5 DEF ToSet
<1>7. QED
  BY <1>1, <1>3, <1>4, <1>6 DEF h

-----------------------------------------------------------------------------
(* The tape.                                                               *)

\* A tape is finite and its seconds never fall.
TapeOrdered ==
    /\ DOMAIN tape \subseteq Int /\ IsFiniteSet(DOMAIN tape)
    /\ \A n \in DOMAIN tape : tape[n].time \in 1 .. End
    /\ \A m, n \in DOMAIN tape : m <= n => tape[m].time <= tape[n].time

LEMMA TapesAreOrdered == tape \in Tapes => TapeOrdered
<1> SUFFICES ASSUME tape \in Tapes PROVE TapeOrdered
  OBVIOUS
<1>1. PICK n \in 0 .. TapeLength : tape \in [1 .. n -> Tick]
  BY DEF Tapes
<1>2. DOMAIN tape = 1 .. n /\ n \in Int
  BY <1>1, SpanAssumption
<1>3. IsFiniteSet(1 .. n)
  BY <1>2, FS_Interval
<1>4. \A k \in DOMAIN tape : tape[k].time \in 1 .. End
  BY <1>1, TickAssumption DEF TradeTick, QuoteTick
<1>5. \A k, m \in DOMAIN tape : k <= m => tape[k].time <= tape[m].time
  BY DEF Tapes
<1>6. QED
  BY <1>2, <1>3, <1>4, <1>5 DEF TapeOrdered

\* The ticks of a stream that the client keeps.
KeptTicks(s) == {n \in Ticks(s) : Kept(n)}
InLookback(ticks) == {n \in ticks : tape[n].time >= TargetStart}

\* A page holds the whole end of what it is cut from.
LEMMA PageIsAnEnd ==
    ASSUME TapeOrdered, NEW s, NEW c \in Int, NEW m \in Page(s, c), NEW n \in Ticks(s),
           tape[n].time <= c, tape[m].time <= tape[n].time
    PROVE  n \in Page(s, c)
<1> DEFINE all == UpTo(s, c)
           after(k) == {o \in all : tape[o].time > tape[k].time}
<1>1. all \subseteq DOMAIN tape /\ IsFiniteSet(all)
  <2>1. all \subseteq DOMAIN tape
    BY DEF UpTo, Ticks
  <2>2. QED
    BY <2>1, FS_Subset DEF TapeOrdered
<1>2. m \in all /\ Cardinality(after(m)) < PageSize /\ n \in all
  BY DEF Page, UpTo
<1>3. \A o \in all : tape[o].time \in Int
  BY <1>1 DEF TapeOrdered
<1>4. after(n) \subseteq after(m)
  BY <1>2, <1>3
<1>5. IsFiniteSet(after(m)) /\ IsFiniteSet(after(n))
  <2>1. after(m) \subseteq all /\ after(n) \subseteq all
    OBVIOUS
  <2>2. QED
    BY <1>1, <2>1, FS_Subset
<1>6. Cardinality(after(n)) <= Cardinality(after(m))
  BY <1>4, <1>5, FS_Subset
<1>7. Cardinality(after(n)) \in Nat /\ Cardinality(after(m)) \in Nat
  BY <1>5, FS_CardinalityType
<1>8. Cardinality(after(n)) < PageSize
  BY <1>2, <1>6, <1>7, SpanAssumption
<1>9. QED
  BY <1>2, <1>8 DEF Page

\* The earliest of some ticks is the second of one of them, and none is before it.
LEMMA EarliestIsOne ==
    ASSUME TapeOrdered, NEW s, NEW T, T \subseteq DOMAIN tape, T # {}
    PROVE  \E m \in T : Earliest(s, T) = tape[m].time /\ \A o \in T : tape[m].time <= tape[o].time
<1> DEFINE f == InOrder(T)
           first(n) == \A o \in T : tape[n].time <= tape[o].time
<1>1. T \subseteq Int /\ IsFiniteSet(T)
  BY FS_Subset DEF TapeOrdered
<1>2. f \in Seq(T) /\ ToSet(f) = T /\ \A i, j \in DOMAIN f : i < j => f[i] < f[j]
  BY <1>1, InOrderAscends
<1> HIDE DEF f
<1>3. 1 \in DOMAIN f
  BY <1>2 DEF ToSet
<1>4. \A j \in DOMAIN f : f[1] <= f[j]
  <2> TAKE j \in DOMAIN f
  <2>1. j \in Int /\ j >= 1 /\ f[1] \in Int /\ f[j] \in Int
    BY <1>1, <1>2, <1>3
  <2>2. QED
    BY <1>2, <1>3, <2>1
<1>5. \A o \in T : f[1] <= o
  BY <1>2, <1>4 DEF ToSet
<1>6. f[1] \in T
  BY <1>2, <1>3
<1>7. first(f[1])
  BY <1>5, <1>6 DEF TapeOrdered
<1>8. \E n \in T : first(n)
  BY <1>6, <1>7
<1>9. Earliest(s, T) = tape[CHOOSE n \in T : first(n)].time
  BY DEF Earliest
<1> HIDE DEF first
<1>10. (CHOOSE n \in T : first(n)) \in T /\ first(CHOOSE n \in T : first(n))
  BY <1>8
<1>11. QED
  BY <1>9, <1>10 DEF first

-----------------------------------------------------------------------------
(* Paging through one stream.                                              *)

\* Kept ticks of the stream, those of the same second in the order of the tape.
Delivered(s, ticks) ==
    /\ ticks \in Seq(KeptTicks(s))
    /\ \A i, j \in DOMAIN ticks :
           i < j => tape[ticks[i]].time # tape[ticks[j]].time \/ ticks[i] < ticks[j]

\* The ticks are the kept ones from some second on, and none of the lookback is
\* missing, unless there is nothing at all.
Covers(s, ticks) ==
    ticks # <<>> =>
        \E e \in 1 .. TargetStart : ToSet(ticks) = {n \in KeptTicks(s) : tape[n].time >= e}

\* What has been asked for with this cursor, or before it.
Asked(s, c) == {n \in KeptTicks(s) : tape[n].time > c \/ n \in Page(s, c)}

LEMMA KeptAreTicks ==
    ASSUME TapeOrdered, NEW s
    PROVE  /\ KeptTicks(s) \subseteq Ticks(s) /\ Ticks(s) \subseteq DOMAIN tape
           /\ \A n \in Ticks(s) : n \in Int /\ tape[n].time \in 1 .. End
  BY DEF KeptTicks, Ticks, TapeOrdered

LEMMA SeqToSet ==
    ASSUME NEW A, NEW f \in Seq(A) PROVE ToSet(f) \subseteq A /\ (f = <<>> <=> ToSet(f) = {})
<1>1. DOMAIN f = 1 .. Len(f) /\ Len(f) \in Nat
  OBVIOUS
<1>2. f # <<>> => 1 \in DOMAIN f
  BY <1>1
<1>3. f = <<>> => DOMAIN f = {}
  OBVIOUS
<1>4. QED
  BY <1>2, <1>3 DEF ToSet

\* Ticks that follow those received in the same second.
LEMMA DeliveredGrows ==
    ASSUME TapeOrdered, NEW s, NEW ticks, Delivered(s, ticks), NEW K, K \subseteq KeptTicks(s),
           \A r \in ToSet(ticks), a \in K : tape[r].time = tape[a].time => r < a
    PROVE  /\ Delivered(s, ticks \o InOrder(K))
           /\ ToSet(ticks \o InOrder(K)) = ToSet(ticks) \cup K
<1> DEFINE new == InOrder(K)
           all == ticks \o new
           fine(x, y) == tape[x].time # tape[y].time \/ x < y
<1>1. K \subseteq Int /\ IsFiniteSet(K)
  <2>1. K \subseteq DOMAIN tape
    BY KeptAreTicks
  <2>2. QED
    BY <2>1, FS_Subset DEF TapeOrdered
<1>2. new \in Seq(K) /\ ToSet(new) = K /\ \A i, j \in DOMAIN new : i < j => new[i] < new[j]
  BY <1>1, InOrderAscends
<1>3. ticks \in Seq(KeptTicks(s)) /\ \A i, j \in DOMAIN ticks : i < j => fine(ticks[i], ticks[j])
  BY DEF Delivered
<1> HIDE DEF new
<1>4. new \in Seq(KeptTicks(s))
  BY <1>2
<1>5. /\ all \in Seq(KeptTicks(s))
      /\ ToSet(all) = ToSet(ticks) \cup ToSet(new)
      /\ \A i \in DOMAIN ticks : i \in DOMAIN all /\ all[i] = ticks[i]
      /\ \A i \in DOMAIN all :
             i \notin DOMAIN ticks => i - Len(ticks) \in DOMAIN new /\ all[i] = new[i - Len(ticks)]
  BY <1>3, <1>4, Joined
<1>6. /\ DOMAIN all = 1 .. Len(all) /\ Len(all) \in Nat
      /\ DOMAIN ticks = 1 .. Len(ticks) /\ Len(ticks) \in Nat
      /\ DOMAIN new = 1 .. Len(new) /\ Len(new) \in Nat
  BY <1>3, <1>4, <1>5
<1>7. \A r \in ToSet(ticks), a \in K : fine(r, a)
  OBVIOUS
<1>8. \A i, j \in DOMAIN new : i < j => fine(new[i], new[j])
  BY <1>2
<1> HIDE DEF all, fine
<1>9. ASSUME NEW i \in DOMAIN all, NEW j \in DOMAIN all, i < j
      PROVE  fine(all[i], all[j])
  <2>1. CASE i \in DOMAIN ticks /\ j \in DOMAIN ticks
    BY <1>3, <1>5, <1>9, <2>1
  <2>2. CASE i \in DOMAIN ticks /\ j \notin DOMAIN ticks
    <3>1. all[i] \in ToSet(ticks)
      BY <1>5, <2>2 DEF ToSet
    <3>2. all[j] \in K
      BY <1>2, <1>5, <2>2 DEF ToSet
    <3>3. QED
      BY <1>7, <3>1, <3>2
  <2>3. CASE i \notin DOMAIN ticks /\ j \notin DOMAIN ticks
    <3> DEFINE k == i - Len(ticks)
               l == j - Len(ticks)
    <3>1. k \in DOMAIN new /\ l \in DOMAIN new /\ all[i] = new[k] /\ all[j] = new[l]
      BY <1>5, <2>3
    <3>2. k < l
      BY <1>6, <1>9
    <3> HIDE DEF k, l
    <3>3. QED
      BY <1>8, <3>1, <3>2
  <2>4. ~(i \notin DOMAIN ticks /\ j \in DOMAIN ticks)
    BY <1>6, <1>9
  <2>5. QED
    BY <2>1, <2>2, <2>3, <2>4
<1>10. Delivered(s, all)
  BY <1>5, <1>9 DEF Delivered, fine
<1>11. QED
  BY <1>2, <1>5, <1>10 DEF all, new

\* When a page is in, the next one starts where nothing is left out.
LEMMA NextPageAdjoins ==
    ASSUME TapeOrdered, NEW s, NEW c \in Int, Asked(s, c) # {}
    PROVE  /\ Earliest(s, Asked(s, c)) \in 1 .. End
           /\ Asked(s, c) = {n \in KeptTicks(s) : tape[n].time >= Earliest(s, Asked(s, c))}
<1> DEFINE T == Asked(s, c)
           e == Earliest(s, T)
<1>1. T \subseteq KeptTicks(s) /\ T \subseteq DOMAIN tape
  BY KeptAreTicks DEF Asked
<1>2. PICK m \in T : e = tape[m].time /\ \A o \in T : tape[m].time <= tape[o].time
  BY <1>1, EarliestIsOne
<1>3. e \in 1 .. End
  BY <1>1, <1>2 DEF TapeOrdered
<1>4. ASSUME NEW n \in KeptTicks(s), tape[n].time >= e PROVE n \in T
  <2>1. CASE tape[n].time > c
    BY <2>1 DEF Asked
  <2>2. CASE ~(tape[n].time > c)
    <3>1. tape[n].time \in Int /\ tape[m].time \in Int /\ n \in Ticks(s)
      BY <1>1, KeptAreTicks
    <3>2. tape[n].time <= c /\ tape[m].time <= c /\ tape[m].time <= tape[n].time
      BY <1>2, <1>4, <2>2, <3>1
    <3>3. m \in Page(s, c)
      BY <3>1, <3>2 DEF Asked
    <3>4. n \in Page(s, c)
      BY <3>1, <3>2, <3>3, PageIsAnEnd
    <3>5. QED
      BY <3>4 DEF Asked
  <2>3. QED
    BY <2>1, <2>2
<1> HIDE DEF T, e
<1>5. \A n \in T : n \in KeptTicks(s) /\ tape[n].time >= e
  <2>1. \A n \in T : tape[n].time \in Int
    BY <1>1 DEF TapeOrdered
  <2>2. QED
    BY <1>1, <1>2, <1>3, <2>1
<1>6. T = {n \in KeptTicks(s) : tape[n].time >= e}
  BY <1>4, <1>5
<1>7. QED
  BY <1>3, <1>6 DEF T, e

LEMMA LookbackReached ==
    ASSUME TapeOrdered, NEW s, NEW c \in Int, Asked(s, c) # {}, ~NeedsOlder(s, Asked(s, c))
    PROVE  \E e \in 1 .. TargetStart : Asked(s, c) = {n \in KeptTicks(s) : tape[n].time >= e}
<1> DEFINE T == Asked(s, c)
           e == Earliest(s, T)
<1>1. e \in 1 .. End /\ T = {n \in KeptTicks(s) : tape[n].time >= e}
  BY NextPageAdjoins
<1>2. TargetStart \in Int
  BY SpanAssumption DEF TargetStart
<1>3. e <= TargetStart
  BY <1>1, <1>2 DEF NeedsOlder
<1> HIDE DEF T, e
<1>4. e \in 1 .. TargetStart
  BY <1>1, <1>2, <1>3
<1>5. QED
  BY <1>1, <1>4 DEF T

-----------------------------------------------------------------------------
(* normalize_result.                                                       *)

\* The ticks are the same, and a tick goes before another if its second is earlier
\* or its place was.
LEMMA NormalizedPermutes ==
    ASSUME TapeOrdered, NEW A, A \subseteq DOMAIN tape, NEW ticks \in Seq(A)
    PROVE  /\ Normalized(ticks) \in Seq(A)
           /\ ToSet(Normalized(ticks)) = ToSet(ticks)
           /\ \A i, j \in DOMAIN Normalized(ticks) :
                  i < j => \E a, b \in DOMAIN ticks :
                               /\ Normalized(ticks)[i] = ticks[a]
                               /\ Normalized(ticks)[j] = ticks[b]
                               /\ a \in Before(ticks, b)
<1> DEFINE D == DOMAIN ticks
           before == [i \in D |-> Before(ticks, i)]
           size(i) == Cardinality(Before(ticks, i))
           time(i) == tape[ticks[i]].time
           n == Normalized(ticks)
           at == [k \in D |-> CHOOSE i \in D : size(i) = k - 1]
<1>1. D = 1 .. Len(ticks) /\ Len(ticks) \in Nat /\ \A i \in D : ticks[i] \in A
  OBVIOUS
<1>2. IsFiniteSet(D) /\ Cardinality(D) = Len(ticks)
  BY <1>1, FS_Interval
<1>3. \A i \in D : time(i) \in Int
  BY <1>1 DEF TapeOrdered
<1>4. \A i \in D : before[i] = {j \in D : time(j) < time(i) \/ (time(j) = time(i) /\ j < i)}
  BY DEF Before
<1>5. \A i \in D : i \in Int
  BY <1>1
<1> HIDE DEF time
<1>6. Orders(before, D)
  <2> HIDE DEF D
  <2>1. before \in [D -> SUBSET D]
    BY <1>4
  <2>2. \A x \in D : x \notin before[x]
    BY <1>3, <1>4, <1>5
  <2>3. \A x, y \in D : y \in before[x] => before[y] \subseteq before[x]
    BY <1>3, <1>4, <1>5
  <2>4. \A x, y \in D : x = y \/ x \in before[y] \/ y \in before[x]
    BY <1>3, <1>4, <1>5
  <2>5. QED
    BY <2>1, <2>2, <2>3, <2>4 DEF Orders
<1>7. \A i \in D : Cardinality(before[i]) = size(i)
  OBVIOUS
<1>8. \A k \in 1 .. Cardinality(D) : \E i \in D : size(i) = k - 1
  <2>1. \A k \in 1 .. Cardinality(D) : \E i \in D : Cardinality(before[i]) = k - 1
    BY <1>2, <1>6, Places
  <2>2. QED
    BY <1>7, <2>1
<1>9. n = [k \in D |-> ticks[CHOOSE i \in D : size(i) = k - 1]]
  BY DEF Normalized
<1> HIDE DEF size, n
<1>10. \A k \in D : at[k] \in D /\ size(at[k]) = k - 1
  BY <1>1, <1>2, <1>8
<1>11. at \in [1 .. Cardinality(D) -> D]
  BY <1>1, <1>2, <1>10
<1>12. \A k \in D : n[k] = ticks[at[k]]
  BY <1>9
<1>13. DOMAIN n = D /\ n \in Seq(A)
  <2>1. \A k \in D : n[k] \in A
    BY <1>1, <1>10, <1>12
  <2>2. n \in [1 .. Len(ticks) -> A]
    BY <1>1, <1>9, <2>1
  <2>3. QED
    BY <1>1, <2>2
<1>14. \A k \in 1 .. Cardinality(D) : Cardinality(before[at[k]]) = k - 1
  BY <1>1, <1>2, <1>7, <1>10
<1> HIDE DEF at
<1>15. /\ \A x \in D : \E k \in 1 .. Cardinality(D) : at[k] = x
       /\ \A i, j \in 1 .. Cardinality(D) : i < j <=> at[i] \in before[at[j]]
  BY <1>2, <1>6, <1>11, <1>14, RankedSorts
<1>16. ToSet(n) = ToSet(ticks)
  <2>1. \A k \in D : n[k] \in ToSet(ticks)
    BY <1>10, <1>12 DEF ToSet
  <2>2. \A x \in D : \E k \in D : n[k] = ticks[x]
    BY <1>1, <1>2, <1>12, <1>15
  <2>3. QED
    BY <1>13, <2>1, <2>2 DEF ToSet
<1>17. ASSUME NEW i \in D, NEW j \in D, i < j
       PROVE  /\ at[i] \in D /\ at[j] \in D /\ n[i] = ticks[at[i]] /\ n[j] = ticks[at[j]]
              /\ at[i] \in Before(ticks, at[j])
  <2>1. at[i] \in D /\ at[j] \in D /\ n[i] = ticks[at[i]] /\ n[j] = ticks[at[j]]
    BY <1>10, <1>12
  <2>2. at[i] \in before[at[j]]
    BY <1>1, <1>2, <1>15, <1>17
  <2>3. QED
    BY <2>1, <2>2
<1>18. QED
  BY <1>13, <1>16, <1>17 DEF n

\* Each tick once, in the order of the tape, and none of the lookback is missing.
Good(s, ticks) ==
    /\ ticks \in Seq(KeptTicks(s))
    /\ \A i, j \in DOMAIN ticks : i < j => ticks[i] < ticks[j]
    /\ Covers(s, ticks)

LEMMA NormalizedSorts ==
    ASSUME TapeOrdered, NEW s, NEW ticks, Delivered(s, ticks), Covers(s, ticks)
    PROVE  Good(s, Normalized(ticks))
<1> DEFINE n == Normalized(ticks)
           K == KeptTicks(s)
<1>1. K \subseteq DOMAIN tape /\ ticks \in Seq(K)
  BY KeptAreTicks DEF Delivered
<1>2. n \in Seq(K) /\ ToSet(n) = ToSet(ticks)
  BY <1>1, NormalizedPermutes
<1>3. \A i, j \in DOMAIN n :
          i < j => \E a, b \in DOMAIN ticks :
                       n[i] = ticks[a] /\ n[j] = ticks[b] /\ a \in Before(ticks, b)
  BY <1>1, NormalizedPermutes
<1> HIDE DEF n
<1>4. ASSUME NEW i \in DOMAIN n, NEW j \in DOMAIN n, i < j PROVE n[i] < n[j]
  <2>1. PICK a \in DOMAIN ticks, b \in DOMAIN ticks :
            n[i] = ticks[a] /\ n[j] = ticks[b] /\ a \in Before(ticks, b)
    BY <1>3, <1>4
  <2> DEFINE x == ticks[a]
             y == ticks[b]
  <2>2. x \in DOMAIN tape /\ y \in DOMAIN tape
    BY <1>1
  <2>3. x \in Int /\ y \in Int /\ tape[x].time \in Int /\ tape[y].time \in Int
    BY <2>2 DEF TapeOrdered
  <2>4. tape[x].time < tape[y].time \/ (tape[x].time = tape[y].time /\ a < b)
    BY <2>1 DEF Before
  <2>5. a < b => tape[x].time # tape[y].time \/ x < y
    BY DEF Delivered
  <2>6. y <= x => tape[y].time <= tape[x].time
    BY <2>2 DEF TapeOrdered
  <2> HIDE DEF x, y
  <2>7. x < y
    BY <2>3, <2>4, <2>5, <2>6
  <2>8. QED
    BY <2>1, <2>7 DEF x, y
<1>5. Covers(s, n)
  <2>1. n # <<>> => ticks # <<>>
    BY <1>1, <1>2, SeqToSet
  <2>2. QED
    BY <1>2, <2>1 DEF Covers
<1>6. QED
  BY <1>2, <1>4, <1>5 DEF Good, n

-----------------------------------------------------------------------------
(* The requests of one stream: the ticks received, those of the page that  *)
(* are still to come, and the cursor.                                      *)

Paging(s, ticks, page, c) ==
    /\ c \in Int
    /\ Delivered(s, ticks)
    /\ page \subseteq Page(s, c)
    /\ ToSet(ticks) \cup {n \in page : Kept(n)} = Asked(s, c)
    /\ \A r \in ToSet(ticks), a \in page : tape[r].time = tape[a].time => r < a

\* The ticks received when some more have come.
With(ticks, more) == ticks \o InOrder({n \in more : Kept(n)})

LEMMA FirstPage ==
    ASSUME TapeOrdered, NEW s
    PROVE  Paging(s, <<>>, Page(s, End), End)
<1>1. End \in Int /\ ToSet(<<>>) = {} /\ <<>> \in Seq(KeptTicks(s)) /\ DOMAIN <<>> = {}
  BY SpanAssumption DEF ToSet
<1>2. Delivered(s, <<>>)
  BY <1>1 DEF Delivered
<1>3. Page(s, End) \subseteq Ticks(s)
  BY DEF Page, UpTo
<1>4. \A n \in KeptTicks(s) : ~(tape[n].time > End)
  BY <1>1, KeptAreTicks
<1>5. {n \in Page(s, End) : Kept(n)} = Asked(s, End)
  BY <1>3, <1>4 DEF Asked, KeptTicks
<1>6. QED
  BY <1>1, <1>2, <1>5 DEF Paging

LEMMA PageReceived ==
    ASSUME TapeOrdered, NEW s, NEW ticks, NEW page, NEW c, Paging(s, ticks, page, c)
    PROVE  Delivered(s, With(ticks, page)) /\ ToSet(With(ticks, page)) = Asked(s, c)
<1> DEFINE K == {n \in page : Kept(n)}
<1>1. K \subseteq KeptTicks(s)
  BY DEF Paging, Page, UpTo, KeptTicks
<1>2. \A r \in ToSet(ticks), a \in K : tape[r].time = tape[a].time => r < a
  BY DEF Paging
<1>3. /\ Delivered(s, ticks \o InOrder(K))
      /\ ToSet(ticks \o InOrder(K)) = ToSet(ticks) \cup K
  <2> HIDE DEF K
  <2>1. Delivered(s, ticks)
    BY DEF Paging
  <2>2. QED
    BY <1>1, <1>2, <2>1, DeliveredGrows
<1>4. QED
  BY <1>3 DEF Paging, With

LEMMA PartReceived ==
    ASSUME TapeOrdered, NEW s, NEW ticks, NEW page, NEW c, Paging(s, ticks, page, c),
           NEW last \in page
    PROVE  Paging(s, With(ticks, {n \in page : n <= last}), {n \in page : n > last}, c)
<1> DEFINE K == {n \in {m \in page : m <= last} : Kept(n)}
           rest == {n \in page : n > last}
           new == ticks \o InOrder(K)
<1>1. page \subseteq Ticks(s) /\ K \subseteq KeptTicks(s) /\ K \subseteq page
  BY DEF Paging, Page, UpTo, KeptTicks
<1>2. \A n \in page : n \in Int
  BY <1>1, KeptAreTicks
<1>3. \A r \in ToSet(ticks), a \in page : tape[r].time = tape[a].time => r < a
  BY DEF Paging
<1>4. Delivered(s, new) /\ ToSet(new) = ToSet(ticks) \cup K
  <2>1. Delivered(s, ticks)
    BY DEF Paging
  <2>2. \A r \in ToSet(ticks), a \in K : tape[r].time = tape[a].time => r < a
    BY <1>1, <1>3
  <2> HIDE DEF K
  <2>3. QED
    BY <1>1, <2>1, <2>2, DeliveredGrows
<1>5. \A r \in K, a \in rest : r < a
  BY <1>2
<1>6. \A r \in ToSet(new), a \in rest : tape[r].time = tape[a].time => r < a
  <2> HIDE DEF new, K
  <2>1. QED
    BY <1>3, <1>4, <1>5
<1>7. K \cup {n \in rest : Kept(n)} = {n \in page : Kept(n)}
  BY <1>2
<1>8. ToSet(new) \cup {n \in rest : Kept(n)} = Asked(s, c)
  <2>1. ToSet(ticks) \cup {n \in page : Kept(n)} = Asked(s, c)
    BY DEF Paging
  <2> HIDE DEF new, K, rest
  <2>2. QED
    BY <1>4, <1>7, <2>1
<1>9. c \in Int /\ rest \subseteq Page(s, c)
  BY DEF Paging
<1>10. QED
  BY <1>4, <1>6, <1>8, <1>9 DEF Paging, With

\* The page is in and an older one is asked for.
LEMMA NextPagePaging ==
    ASSUME TapeOrdered, NEW s, NEW ticks, Delivered(s, ticks), NEW c \in Int,
           ToSet(ticks) = Asked(s, c), NeedsOlder(s, ToSet(ticks))
    PROVE  LET next == Earliest(s, ToSet(ticks)) - 1
           IN next \in 0 .. End - 1 /\ Paging(s, ticks, Page(s, next), next)
<1> DEFINE e == Earliest(s, ToSet(ticks))
           page == Page(s, e - 1)
<1>1. ToSet(ticks) # {}
  BY DEF NeedsOlder
<1>2. e \in 1 .. End /\ ToSet(ticks) = {n \in KeptTicks(s) : tape[n].time >= e}
  BY <1>1, NextPageAdjoins
<1> HIDE DEF e
<1>3. e - 1 \in 0 .. End - 1
  BY <1>2, SpanAssumption
<1>4. \A a \in page : a \in Ticks(s) /\ tape[a].time <= e - 1
  BY DEF Page, UpTo
<1>5. \A n \in Ticks(s) : tape[n].time \in Int
  BY KeptAreTicks
<1>6. \A r \in ToSet(ticks), a \in page : ~(tape[r].time = tape[a].time)
  <2>1. \A r \in ToSet(ticks) : tape[r].time \in Int /\ tape[r].time >= e
    BY <1>2, <1>5 DEF KeptTicks
  <2>2. \A a \in page : tape[a].time \in Int /\ tape[a].time <= e - 1
    BY <1>4, <1>5
  <2>3. QED
    BY <1>2, <2>1, <2>2
<1>7. ToSet(ticks) \cup {n \in page : Kept(n)} = Asked(s, e - 1)
  <2>1. \A n \in KeptTicks(s) : tape[n].time >= e <=> tape[n].time > e - 1
    BY <1>2, KeptAreTicks
  <2>2. \A n \in page : Kept(n) => n \in KeptTicks(s)
    BY <1>4 DEF KeptTicks
  <2>3. \A n \in KeptTicks(s) : Kept(n)
    BY DEF KeptTicks
  <2>4. QED
    BY <1>2, <2>1, <2>2, <2>3 DEF Asked
<1> HIDE DEF page
<1>8. Paging(s, ticks, page, e - 1)
  BY <1>3, <1>6, <1>7 DEF Paging, page
<1>9. QED
  BY <1>3, <1>8 DEF e, page

\* No older page is needed.
LEMMA StreamCovered ==
    ASSUME TapeOrdered, NEW s, NEW ticks, Delivered(s, ticks), NEW c \in Int,
           ToSet(ticks) = Asked(s, c), ~NeedsOlder(s, ToSet(ticks))
    PROVE  Covers(s, ticks)
<1>1. ticks # <<>> => Asked(s, c) # {}
  BY SeqToSet DEF Delivered
<1>2. QED
  BY <1>1, LookbackReached DEF Covers

-----------------------------------------------------------------------------
(* The types.                                                              *)

TypeInv == tape \in Tapes /\ TypeOK

\* Sequences of ticks of each stream.
PerStream(ticks) ==
    ticks \in [Stream -> Seq(DOMAIN tape)] /\ \A s \in Stream : ToSet(ticks[s]) \subseteq Ticks(s)

\* TypeOK of the next state, on a tape that stays.
TypedNext ==
    /\ phase' \in {"idle", "fetching", "retry", "saving", "fetched", "confirmed",
                   "rejected", "insufficient", "error"}
    /\ stream' \in Stream
    /\ cursor' \in [Stream -> 0 .. End]
    /\ failure' \in {None, "pacing", "request", "pagination"}
    /\ complete' \in BOOLEAN /\ intact' \in BOOLEAN
    /\ answer' \subseteq Ticks(stream')
    /\ PerStream(result') /\ PerStream(cache') /\ PerStream(evidence')

LEMMA TypedNextState == TypedNext /\ tape' = tape => TypeOK'
  BY DEF TypedNext, PerStream, TypeOK, Ticks

LEMMA TypedState ==
    ASSUME TypeOK
    PROVE  PerStream(result) /\ PerStream(cache) /\ PerStream(evidence)
  BY DEF TypeOK, PerStream

LEMMA EarliestType ==
    ASSUME TapeOrdered, NEW s, NEW T, T \subseteq DOMAIN tape
    PROVE  Earliest(s, T) \in 1 .. End
<1>1. CASE T = {}
  BY <1>1, SpanAssumption DEF Earliest
<1>2. CASE T # {}
  BY <1>2, EarliestIsOne DEF TapeOrdered
<1>3. QED
  BY <1>1, <1>2

LEMMA EmptyPerStream == PerStream(Empty)
<1>1. <<>> \in Seq(DOMAIN tape) /\ ToSet(<<>>) = {}
  BY DEF ToSet
<1>2. QED
  BY <1>1 DEF PerStream, Empty

LEMMA WithType ==
    ASSUME TapeOrdered, NEW s, NEW ticks \in Seq(DOMAIN tape), ToSet(ticks) \subseteq Ticks(s),
           NEW more, more \subseteq Ticks(s)
    PROVE  /\ With(ticks, more) \in Seq(DOMAIN tape)
           /\ ToSet(With(ticks, more)) \subseteq Ticks(s)
<1> DEFINE K == {n \in more : Kept(n)}
<1>1. K \subseteq Ticks(s) /\ K \subseteq DOMAIN tape /\ K \subseteq Int /\ IsFiniteSet(K)
  <2>1. K \subseteq Ticks(s) /\ K \subseteq DOMAIN tape
    BY DEF Ticks
  <2>2. QED
    BY <2>1, FS_Subset DEF TapeOrdered
<1> HIDE DEF K
<1>2. InOrder(K) \in Seq(K) /\ ToSet(InOrder(K)) = K
  BY <1>1, InOrderAscends
<1>3. InOrder(K) \in Seq(DOMAIN tape)
  BY <1>1, <1>2
<1>4. /\ ticks \o InOrder(K) \in Seq(DOMAIN tape)
      /\ ToSet(ticks \o InOrder(K)) = ToSet(ticks) \cup ToSet(InOrder(K))
  BY <1>3, Joined
<1>5. QED
  BY <1>1, <1>2, <1>4 DEF With, K

LEMMA ReceivedType ==
    ASSUME TapeOrdered, NEW s \in Stream, PerStream(result),
           NEW more, more \subseteq Ticks(s), Received(s, more)
    PROVE  /\ PerStream(result')
           /\ result' = [result EXCEPT ![s] = With(result[s], more)]
<1>1. result' = [result EXCEPT ![s] = With(result[s], more)]
  BY DEF Received, With
<1>2. result[s] \in Seq(DOMAIN tape) /\ ToSet(result[s]) \subseteq Ticks(s)
  BY DEF PerStream
<1>3. /\ With(result[s], more) \in Seq(DOMAIN tape)
      /\ ToSet(With(result[s], more)) \subseteq Ticks(s)
  BY <1>2, WithType
<1>4. QED
  BY <1>1, <1>3 DEF PerStream

\* What a page request leaves.
LEMMA NextPageType ==
    ASSUME TapeOrdered, TypeOK, NEW s \in Stream, stream = s, PerStream(result'), NextPage(s)
    PROVE  /\ stream' = s /\ cursor' \in [Stream -> 0 .. End]
           /\ failure' \in {None, "pacing", "request", "pagination"}
           /\ complete' = complete /\ answer' \subseteq Ticks(s)
<1> DEFINE e == Earliest(s, ToSet(result'[s]))
<1>1. ToSet(result'[s]) \subseteq DOMAIN tape
  BY DEF PerStream, Ticks
<1>2. e \in 1 .. End
  BY <1>1, EarliestType
<1>3. e - 1 \in 0 .. End
  BY <1>2, SpanAssumption
<1>4. Page(s, e - 1) \subseteq Ticks(s)
  BY DEF Page, UpTo
<1>5. \/ Fail("pagination") /\ answer' = {} /\ UNCHANGED <<stream, cursor, complete>>
      \/ RequestPage(s, e - 1) /\ UNCHANGED <<stream, complete, failure>>
  BY DEF NextPage
<1> HIDE DEF e
<1>6. QED
  BY <1>3, <1>4, <1>5 DEF TypeOK, Fail, RequestPage

LEMMA TypeInvHolds == Spec => []TypeInv
<1>1. Init => TypeInv
  <2> SUFFICES ASSUME Init PROVE TypeInv
    OBVIOUS
  <2>1. PerStream(result) /\ PerStream(cache) /\ PerStream(evidence)
    BY EmptyPerStream DEF Init
  <2>2. cursor \in [Stream -> 0 .. End]
    BY SpanAssumption DEF Init
  <2>3. QED
    BY <2>1, <2>2 DEF Init, TypeInv, TypeOK, PerStream, Stream
<1>2. TypeInv /\ [Next]_vars => TypeInv'
  <2> SUFFICES ASSUME TypeInv, [Next]_vars PROVE TypeInv'
    OBVIOUS
  <2>1. TapeOrdered /\ TypeOK /\ tape \in Tapes
    BY TapesAreOrdered DEF TypeInv
  <2>2. PerStream(result) /\ PerStream(cache) /\ PerStream(evidence)
    BY <2>1, TypedState
  <2>3. \A s, c : Page(s, c) \subseteq Ticks(s)
    BY DEF Page, UpTo
  <2>4. End \in 0 .. End
    BY SpanAssumption
  <2>5. NoClient => /\ stream' \in Stream /\ cursor' \in [Stream -> 0 .. End]
                    /\ answer' \subseteq Ticks(stream') /\ PerStream(result')
                    /\ complete' \in BOOLEAN /\ failure' = None
    BY <2>4, EmptyPerStream DEF NoClient, Stream
  <2>6. tape' = tape /\ TypedNext
    <3>1. CASE UseCache
      BY <2>1, <2>2, <3>1 DEF UseCache, client, TypedNext, TypeOK
    <3>2. CASE Fetch
      BY <2>1, <2>2, <2>3, <2>4, <3>2, EmptyPerStream DEF Fetch, TypedNext, TypeOK, Stream
    <3>3. CASE HistoricalTicksLast
      <4>1. stream = "trades" /\ answer \subseteq Ticks("trades") /\ "trades" \in Stream /\ "quotes" \in Stream
        BY <2>1, <3>3 DEF HistoricalTicksLast, TypeOK, Stream
      <4>2. PerStream(result')
        BY <2>1, <2>2, <3>3, <4>1, ReceivedType DEF HistoricalTicksLast
      <4>3. tape' = tape /\ phase' = phase /\ cache' = cache /\ intact' = intact /\ evidence' = evidence
        BY <3>3 DEF HistoricalTicksLast, Running
      <4>4. CASE answer' = {} /\ UNCHANGED <<stream, cursor, complete, failure>>
        BY <2>1, <2>2, <4>2, <4>3, <4>4 DEF TypedNext, TypeOK
      <4>5. CASE NextPage("trades")
        <5>1. /\ stream' = "trades" /\ cursor' \in [Stream -> 0 .. End]
              /\ failure' \in {None, "pacing", "request", "pagination"}
              /\ complete' = complete /\ answer' \subseteq Ticks("trades")
          BY <2>1, <4>1, <4>2, <4>5, NextPageType
        <5>2. QED
          BY <2>1, <2>2, <4>1, <4>2, <4>3, <5>1 DEF TypedNext, TypeOK
      <4>6. CASE stream' = "quotes" /\ RequestPage("quotes", End) /\ UNCHANGED <<complete, failure>>
        BY <2>1, <2>2, <2>3, <2>4, <4>1, <4>2, <4>3, <4>6 DEF TypedNext, TypeOK, RequestPage
      <4>7. QED
        BY <3>3, <4>4, <4>5, <4>6 DEF HistoricalTicksLast
    <3>4. CASE HistoricalTicksBidAsk
      <4> DEFINE quotes == With(result["quotes"], answer)
      <4>1. /\ stream = "quotes" /\ answer \subseteq Ticks("quotes")
            /\ "quotes" \in Stream /\ "trades" \in Stream /\ "trades" # "quotes"
        BY <2>1, <3>4 DEF HistoricalTicksBidAsk, TypeOK, Stream
      <4>2. tape' = tape /\ phase' = phase /\ cache' = cache /\ intact' = intact /\ evidence' = evidence
        BY <3>4 DEF HistoricalTicksBidAsk, Running
      <4>3. CASE Received("quotes", answer) /\ NextPage("quotes")
        <5>1. PerStream(result')
          BY <2>1, <2>2, <4>1, <4>3, ReceivedType
        <5>2. /\ stream' = "quotes" /\ cursor' \in [Stream -> 0 .. End]
              /\ failure' \in {None, "pacing", "request", "pagination"}
              /\ complete' = complete /\ answer' \subseteq Ticks("quotes")
          BY <2>1, <4>1, <4>3, <5>1, NextPageType
        <5>3. QED
          BY <2>1, <2>2, <4>1, <4>2, <5>1, <5>2 DEF TypedNext, TypeOK
      <4>4. CASE /\ result' = [s \in Stream |-> Normalized(IF s = "trades" THEN result["trades"] ELSE quotes)]
                 /\ complete' = TRUE /\ answer' = {} /\ UNCHANGED <<stream, cursor, failure>>
        <5> DEFINE received(s) == IF s = "trades" THEN result["trades"] ELSE quotes
        <5>1. quotes \in Seq(DOMAIN tape) /\ ToSet(quotes) \subseteq Ticks("quotes")
          BY <2>1, <2>2, <4>1, WithType DEF PerStream
        <5>2. ASSUME NEW s \in Stream
              PROVE  received(s) \in Seq(DOMAIN tape) /\ ToSet(received(s)) \subseteq Ticks(s)
          BY <2>2, <4>1, <5>1 DEF PerStream, Stream
        <5>3. \A s \in Stream : result'[s] = Normalized(received(s))
          BY <4>4
        <5>4. result' = [s \in Stream |-> result'[s]]
          BY <4>4
        <5> HIDE DEF received
        <5>5. PerStream(result')
          <6>1. ASSUME NEW s \in Stream
                PROVE  result'[s] \in Seq(DOMAIN tape) /\ ToSet(result'[s]) \subseteq Ticks(s)
            <7>1. /\ Normalized(received(s)) \in Seq(DOMAIN tape)
                  /\ ToSet(Normalized(received(s))) = ToSet(received(s))
              BY <2>1, <5>2, NormalizedPermutes
            <7>2. QED
              BY <5>2, <5>3, <7>1
          <6>2. QED
            BY <5>4, <6>1 DEF PerStream
        <5>6. QED
          BY <2>1, <2>2, <4>2, <4>4, <5>5 DEF TypedNext, TypeOK
      <4>5. QED
        BY <3>4, <4>3, <4>4 DEF HistoricalTicksBidAsk, With
    <3>5. CASE PartOfPage
      <4>1. stream \in Stream /\ answer \subseteq Ticks(stream)
        BY <2>1 DEF TypeOK
      <4>2. PICK last \in answer :
                /\ answer' = {n \in answer : n > last}
                /\ Received(stream, {n \in answer : n <= last})
        BY <3>5 DEF PartOfPage
      <4>3. {n \in answer : n <= last} \subseteq Ticks(stream) /\ answer' \subseteq Ticks(stream)
        BY <4>1, <4>2
      <4>4. PerStream(result')
        BY <2>1, <2>2, <4>1, <4>2, <4>3, ReceivedType
      <4>5. QED
        BY <2>1, <2>2, <3>5, <4>3, <4>4 DEF PartOfPage, Running, TypedNext, TypeOK
    <3>6. CASE \E why \in {"pacing", "request"} : Error(why)
      BY <2>1, <2>2, <3>6 DEF Error, Fail, Running, TypedNext, TypeOK
    <3>7. CASE Exit
      <4>1. CASE phase' = "saving" /\ UNCHANGED client
        BY <2>1, <2>2, <3>7, <4>1 DEF Exit, client, TypedNext, TypeOK
      <4>2. CASE phase' \in {"retry", "error"} /\ NoClient
        BY <2>1, <2>2, <2>5, <3>7, <4>2 DEF Exit, TypedNext, TypeOK
      <4>3. QED
        BY <3>7, <4>1, <4>2 DEF Exit
    <3>8. CASE Save
      <4>1. NoClient /\ tape' = tape
        BY <3>8 DEF Save
      <4>2. CASE cache' = result /\ intact' = TRUE /\ evidence' = result /\ phase' = "fetched"
        BY <2>1, <2>2, <2>5, <4>1, <4>2 DEF TypedNext, TypeOK
      <4>3. CASE \E k \in 0 .. Len(result["trades"]), l \in 0 .. Len(result["quotes"]) :
                     /\ cache' = [s \in Stream |-> SubSeq(result[s], 1, IF s = "trades" THEN k ELSE l)]
                     /\ intact' = FALSE /\ phase' = "error" /\ evidence' = evidence
        <5>1. PICK k \in 0 .. Len(result["trades"]), l \in 0 .. Len(result["quotes"]) :
                  cache' = [s \in Stream |-> SubSeq(result[s], 1, IF s = "trades" THEN k ELSE l)]
          BY <4>3
        <5>2. ASSUME NEW s \in Stream
              PROVE  cache'[s] \in Seq(DOMAIN tape) /\ ToSet(cache'[s]) \subseteq Ticks(s)
          <6> DEFINE m == IF s = "trades" THEN k ELSE l
                     f == result[s]
          <6>1. f \in Seq(DOMAIN tape) /\ ToSet(f) \subseteq Ticks(s) /\ m \in 0 .. Len(f)
            BY <2>2 DEF PerStream, Stream
          <6>2. cache'[s] = SubSeq(f, 1, m)
            BY <5>1
          <6> HIDE DEF m, f
          <6>3. /\ SubSeq(f, 1, m) \in Seq(DOMAIN tape)
                /\ DOMAIN SubSeq(f, 1, m) \subseteq DOMAIN f
                /\ \A i \in DOMAIN SubSeq(f, 1, m) : SubSeq(f, 1, m)[i] = f[i]
            BY <6>1
          <6>4. ToSet(SubSeq(f, 1, m)) \subseteq ToSet(f)
            BY <6>3 DEF ToSet
          <6>5. QED
            BY <6>1, <6>2, <6>3, <6>4
        <5>3. PerStream(cache')
          BY <5>1, <5>2 DEF PerStream
        <5>4. QED
          BY <2>1, <2>2, <2>5, <4>1, <4>3, <5>3 DEF TypedNext, TypeOK
      <4>4. QED
        BY <3>8, <4>2, <4>3 DEF Save
    <3>9. CASE Judge
      BY <2>1, <2>2, <3>9 DEF Judge, client, TypedNext, TypeOK
    <3>10. CASE Rerun
      BY <2>1, <2>2, <3>10, EmptyPerStream DEF Rerun, client, TypedNext, TypeOK
    <3>11. CASE UNCHANGED vars
      BY <2>1, <2>2, <3>11 DEF vars, client, TypedNext, TypeOK
    <3>12. QED
      BY <3>1, <3>2, <3>3, <3>4, <3>5, <3>6, <3>7, <3>8, <3>9, <3>10, <3>11 DEF Next
  <2>7. tape' \in Tapes
    BY <2>1, <2>6 DEF Tapes
  <2>8. QED
    BY <2>6, <2>7, TypedNextState DEF TypeInv
<1>3. QED
  BY <1>1, <1>2, PTL DEF Spec

\* Every variable of the client, the cache and the runner keeps its type.
THEOREM TypeCorrect == Spec => []TypeOK
<1>1. TypeInv => TypeOK
  BY DEF TypeInv
<1>2. QED
  BY <1>1, TypeInvHolds, PTL

-----------------------------------------------------------------------------
(* The evidence.                                                           *)

AllGood(ticks) == \A s \in Stream : Good(s, ticks[s])

\* The inductive invariant: the pages received so far join up, what is complete, is
\* saved or is read back is good, and a verdict has ticks of both streams.
EvidenceInv ==
    /\ (phase = "fetching" /\ failure = None) =>
           /\ complete => AllGood(result)
           /\ (~complete /\ stream = "trades") =>
                  /\ Paging("trades", result["trades"], answer, cursor["trades"])
                  /\ result["quotes"] = <<>>
           /\ (~complete /\ stream = "quotes") =>
                  /\ Paging("quotes", result["quotes"], answer, cursor["quotes"])
                  /\ Delivered("trades", result["trades"]) /\ Covers("trades", result["trades"])
    /\ phase = "saving" => AllGood(result)
    /\ intact => AllGood(cache)
    /\ (intact /\ phase \in {"fetched", "confirmed", "rejected"}) => AllGood(evidence)
    /\ Judged => \A s \in Stream : evidence[s] # <<>>

LEMMA TapeFixed ==
    ASSUME tape' = tape, NEW s, NEW ticks, NEW page, NEW c
    PROVE  /\ Delivered(s, ticks)' = Delivered(s, ticks)
           /\ Covers(s, ticks)' = Covers(s, ticks)
           /\ Good(s, ticks)' = Good(s, ticks)
           /\ Paging(s, ticks, page, c)' = Paging(s, ticks, page, c)
<1>1. \A n : Kept(n)' = Kept(n)
  BY DEF Kept
<1>2. \A r : Ticks(r)' = Ticks(r)
  BY DEF Ticks
<1>3. \A r : KeptTicks(r)' = KeptTicks(r)
  BY <1>1, <1>2 DEF KeptTicks
<1>4. \A r, d : Page(r, d)' = Page(r, d)
  BY <1>2 DEF Page, UpTo
<1>5. \A r, d : Asked(r, d)' = Asked(r, d)
  BY <1>3, <1>4 DEF Asked
<1>6. Delivered(s, ticks)' = Delivered(s, ticks)
  BY <1>3 DEF Delivered
<1>7. Covers(s, ticks)' = Covers(s, ticks)
  BY <1>3 DEF Covers
<1>8. Good(s, ticks)' = Good(s, ticks)
  BY <1>3, <1>7 DEF Good
<1>9. Paging(s, ticks, page, c)' = Paging(s, ticks, page, c)
  BY <1>1, <1>4, <1>5, <1>6 DEF Paging
<1>10. QED
  BY <1>6, <1>7, <1>8, <1>9

EvidenceNext ==
    /\ (phase' = "fetching" /\ failure' = None) =>
           /\ complete' => AllGood(result')
           /\ (~complete' /\ stream' = "trades") =>
                  /\ Paging("trades", result'["trades"], answer', cursor'["trades"])
                  /\ result'["quotes"] = <<>>
           /\ (~complete' /\ stream' = "quotes") =>
                  /\ Paging("quotes", result'["quotes"], answer', cursor'["quotes"])
                  /\ Delivered("trades", result'["trades"]) /\ Covers("trades", result'["trades"])
    /\ phase' = "saving" => AllGood(result')
    /\ intact' => AllGood(cache')
    /\ (intact' /\ phase' \in {"fetched", "confirmed", "rejected"}) => AllGood(evidence')
    /\ phase' \in {"confirmed", "rejected"} => \A s \in Stream : evidence'[s] # <<>>

LEMMA EvidenceNextState == EvidenceNext /\ tape' = tape => EvidenceInv'
<1> SUFFICES ASSUME EvidenceNext, tape' = tape PROVE EvidenceInv'
  OBVIOUS
<1>1. /\ AllGood(result)' = AllGood(result')
      /\ AllGood(cache)' = AllGood(cache')
      /\ AllGood(evidence)' = AllGood(evidence')
  BY TapeFixed, Zenon DEF AllGood, Stream
<1>2. /\ Paging("trades", result["trades"], answer, cursor["trades"])' =
             Paging("trades", result'["trades"], answer', cursor'["trades"])
      /\ Paging("quotes", result["quotes"], answer, cursor["quotes"])' =
             Paging("quotes", result'["quotes"], answer', cursor'["quotes"])
      /\ Delivered("trades", result["trades"])' = Delivered("trades", result'["trades"])
      /\ Covers("trades", result["trades"])' = Covers("trades", result'["trades"])
  BY TapeFixed, Zenon
<1>3. Stream' = Stream /\ Judged' = (phase' \in {"confirmed", "rejected"})
  BY DEF Stream, Judged
<1>4. QED
  BY <1>1, <1>2, <1>3 DEF EvidenceNext, EvidenceInv

LEMMA EmptyIsGood ==
    ASSUME NEW s PROVE Good(s, <<>>)
<1>1. <<>> \in Seq(KeptTicks(s)) /\ DOMAIN <<>> = {}
  OBVIOUS
<1>2. QED
  BY <1>1 DEF Good, Covers

\* The page of the stream is in: everything asked for has been received.
LEMMA LastOfPage ==
    ASSUME TapeOrdered, NEW s \in Stream, Paging(s, result[s], answer, cursor[s]),
           cursor \in [Stream -> 0 .. End],
           NEW ticks, ticks = With(result[s], answer)
    PROVE  /\ Delivered(s, ticks)
           /\ ~NeedsOlder(s, ToSet(ticks)) => Covers(s, ticks)
           /\ NeedsOlder(s, ToSet(ticks)) =>
                  LET next == Earliest(s, ToSet(ticks)) - 1
                  IN next \in 0 .. End - 1 /\ Paging(s, ticks, Page(s, next), next)
<1>1. Delivered(s, ticks) /\ ToSet(ticks) = Asked(s, cursor[s])
  BY PageReceived
<1>2. cursor[s] \in Int
  BY SpanAssumption
<1>3. QED
  BY <1>1, <1>2, StreamCovered, NextPagePaging

\* The step to an older page, or a failure.
LEMMA OlderPage ==
    ASSUME TapeOrdered, NEW s \in Stream, Paging(s, result[s], answer, cursor[s]),
           cursor \in [Stream -> 0 .. End], failure = None,
           result'[s] = With(result[s], answer), NeedsOlder(s, ToSet(result'[s])), NextPage(s)
    PROVE  /\ stream' = stream /\ complete' = complete
           /\ failure' = None => Paging(s, result'[s], answer', cursor'[s])
<1> DEFINE e == Earliest(s, ToSet(result'[s]))
<1>1. e - 1 \in 0 .. End - 1 /\ Paging(s, result'[s], Page(s, e - 1), e - 1)
  BY LastOfPage
<1>2. \/ Fail("pagination") /\ UNCHANGED <<stream, complete>>
      \/ RequestPage(s, e - 1) /\ UNCHANGED <<stream, complete, failure>>
  BY DEF NextPage
<1> HIDE DEF e
<1>3. "pagination" # None
  BY DEF None
<1>4. QED
  BY <1>1, <1>2, <1>3 DEF Fail, RequestPage

\* A verdict is not "insufficient": both streams have ticks.
LEMMA JudgedOnTicks ==
    ASSUME Judge, phase' \in {"confirmed", "rejected"}
    PROVE  \A s \in Stream : evidence[s] # <<>>
<1>1. DOMAIN <<>> = {}
  OBVIOUS
<1>2. TicksAt(<<>>) = <<>>
  BY <1>1 DEF TicksAt
<1>3. \A sides : DOMAIN Sided(<<>>, sides) = {}
  BY <1>1 DEF Sided
<1>4. Assessed.pressure # "insufficient_data"
  BY DEF Judge, Bullish
<1> DEFINE trades == Sided(TicksAt(evidence["trades"]), Sides)
           quotes == TicksAt(evidence["quotes"])
           over(seconds) == Window(trades, quotes, End - seconds + 1, End)
<1>5. Assessed.pressure = Pressure(over(ShortWindow), over(LongWindow), Atr)
  BY DEF Assessed, Assessment, Assess
<1>6. over(ShortWindow).complete
  <2> HIDE DEF over
  <2>1. QED
    BY <1>4, <1>5 DEF Pressure
<1>7. DOMAIN trades # {} /\ DOMAIN quotes # {}
  <2> HIDE DEF trades, quotes
  <2>1. QED
    BY <1>6 DEF Window, Reached
<1>8. evidence["trades"] # <<>>
  BY <1>2, <1>3, <1>7
<1>9. evidence["quotes"] # <<>>
  BY <1>1, <1>2, <1>7
<1>10. QED
  BY <1>8, <1>9 DEF Stream

LEMMA GoodIsJudged ==
    ASSUME TapeOrdered, NEW s, NEW ticks, Good(s, ticks), ticks # <<>>
    PROVE  /\ {n \in ToSet(ticks) : tape[n].time >= TargetStart}
                  = {n \in Ticks(s) : Kept(n) /\ tape[n].time >= TargetStart}
           /\ \A i, j \in DOMAIN ticks : i < j => ticks[i] < ticks[j]
<1>1. InLookback(ToSet(ticks)) = InLookback(KeptTicks(s))
  <2>1. PICK e \in 1 .. TargetStart : ToSet(ticks) = {n \in KeptTicks(s) : tape[n].time >= e}
    BY DEF Good, Covers
  <2>2. TargetStart \in Int /\ \A n \in KeptTicks(s) : tape[n].time \in Int
    BY KeptAreTicks, SpanAssumption DEF TargetStart
  <2>3. \A n \in KeptTicks(s) : tape[n].time >= TargetStart => tape[n].time >= e
    BY <2>2
  <2>4. QED
    BY <2>1, <2>3 DEF InLookback
<1>2. InLookback(KeptTicks(s)) = {n \in Ticks(s) : Kept(n) /\ tape[n].time >= TargetStart}
  BY DEF InLookback, KeptTicks
<1>3. QED
  BY <1>1, <1>2 DEF Good, InLookback

LEMMA EvidenceInvHolds == Spec => []EvidenceInv
<1>1. Init => EvidenceInv
  <2> SUFFICES ASSUME Init PROVE EvidenceInv
    OBVIOUS
  <2>1. AllGood(cache)
    BY EmptyIsGood DEF Init, AllGood, Empty
  <2>2. QED
    BY <2>1 DEF Init, EvidenceInv, Judged
<1>2. TypeInv /\ EvidenceInv /\ [Next]_vars => EvidenceInv'
  <2> SUFFICES ASSUME TypeInv, EvidenceInv, [Next]_vars PROVE EvidenceInv'
    OBVIOUS
  <2>1. TapeOrdered /\ TypeOK
    BY TapesAreOrdered DEF TypeInv
  <2>2. cursor \in [Stream -> 0 .. End] /\ stream \in Stream /\ PerStream(result)
    BY <2>1, TypedState DEF TypeOK
  <2>3. "trades" \in Stream /\ "quotes" \in Stream
    BY DEF Stream
  <2>4. /\ intact => AllGood(cache)
        /\ (intact /\ phase \in {"fetched", "confirmed", "rejected"}) => AllGood(evidence)
        /\ phase \in {"confirmed", "rejected"} => \A s \in Stream : evidence[s] # <<>>
    BY DEF EvidenceInv, Judged
  <2>5. tape' = tape /\ EvidenceNext
    <3>1. CASE UseCache
      BY <2>4, <3>1 DEF UseCache, EvidenceNext
    <3>2. CASE Fetch
      <4>1. Paging("trades", <<>>, Page("trades", End), End)
        BY <2>1, FirstPage
      <4>2. result'["trades"] = <<>> /\ result'["quotes"] = <<>> /\ cursor'["trades"] = End
        BY <2>3, <3>2 DEF Fetch, Empty
      <4>3. QED
        BY <2>4, <3>2, <4>1, <4>2 DEF Fetch, EvidenceNext
    <3>3. CASE HistoricalTicksLast
      <4>1. /\ stream = "trades" /\ ~complete /\ phase = "fetching" /\ phase' = phase /\ tape' = tape
            /\ cache' = cache /\ intact' = intact /\ evidence' = evidence
        BY <3>3 DEF HistoricalTicksLast, Running
      <4>2. /\ result'["trades"] = With(result["trades"], answer)
            /\ result'["quotes"] = result["quotes"]
        BY <2>2, <2>3, <3>3 DEF HistoricalTicksLast, Received, With, PerStream
      <4>3. CASE failure # None
        <5>1. failure' # None
          BY <3>3, <4>3 DEF HistoricalTicksLast
        <5>2. QED
          BY <2>4, <4>1, <5>1 DEF EvidenceNext
      <4>4. CASE failure = None
        <5>1. Paging("trades", result["trades"], answer, cursor["trades"]) /\ result["quotes"] = <<>>
          BY <4>1, <4>4 DEF EvidenceInv
        <5>2. CASE NeedsOlder("trades", ToSet(result'["trades"]))
          <6>1. NextPage("trades")
            BY <3>3, <4>4, <5>2 DEF HistoricalTicksLast
          <6>2. /\ stream' = "trades" /\ ~complete'
                /\ failure' = None => Paging("trades", result'["trades"], answer', cursor'["trades"])
            BY <2>1, <2>2, <2>3, <4>1, <4>2, <4>4, <5>1, <5>2, <6>1, OlderPage
          <6>3. QED
            BY <2>4, <4>1, <4>2, <5>1, <6>2 DEF EvidenceNext
        <5>3. CASE ~NeedsOlder("trades", ToSet(result'["trades"]))
          <6>1. Delivered("trades", result'["trades"]) /\ Covers("trades", result'["trades"])
            BY <2>1, <2>2, <2>3, <4>2, <5>1, <5>3, LastOfPage
          <6>2. /\ stream' = "quotes" /\ RequestPage("quotes", End)
                /\ complete' = complete
            BY <3>3, <4>4, <5>3 DEF HistoricalTicksLast
          <6>3. answer' = Page("quotes", End) /\ cursor'["quotes"] = End
            BY <2>2, <2>3, <6>2 DEF RequestPage
          <6>4. Paging("quotes", result'["quotes"], answer', cursor'["quotes"])
            BY <2>1, <4>2, <5>1, <6>3, FirstPage
          <6>5. QED
            BY <2>4, <4>1, <6>1, <6>2, <6>4 DEF EvidenceNext
        <5>4. QED
          BY <5>2, <5>3
      <4>5. QED
        BY <4>3, <4>4
    <3>4. CASE HistoricalTicksBidAsk
      <4> DEFINE quotes == With(result["quotes"], answer)
      <4>1. /\ stream = "quotes" /\ ~complete /\ phase = "fetching" /\ phase' = phase /\ tape' = tape
            /\ cache' = cache /\ intact' = intact /\ evidence' = evidence
        BY <3>4 DEF HistoricalTicksBidAsk, Running
      <4>2. CASE failure # None
        <5>1. failure' # None
          BY <3>4, <4>2 DEF HistoricalTicksBidAsk
        <5>2. QED
          BY <2>4, <4>1, <5>1 DEF EvidenceNext
      <4>3. CASE failure = None
        <5>1. /\ Paging("quotes", result["quotes"], answer, cursor["quotes"])
              /\ Delivered("trades", result["trades"]) /\ Covers("trades", result["trades"])
          BY <4>1, <4>3 DEF EvidenceInv
        <5>2. CASE NeedsOlder("quotes", ToSet(quotes))
          <6>1. Received("quotes", answer) /\ NextPage("quotes")
            BY <3>4, <4>3, <5>2 DEF HistoricalTicksBidAsk, With
          <6>2. result'["quotes"] = quotes /\ result'["trades"] = result["trades"]
            BY <2>2, <2>3, <6>1 DEF Received, With, PerStream
          <6>3. NeedsOlder("quotes", ToSet(result'["quotes"]))
            BY <5>2, <6>2
          <6>4. /\ stream' = "quotes" /\ ~complete'
                /\ failure' = None => Paging("quotes", result'["quotes"], answer', cursor'["quotes"])
            BY <2>1, <2>2, <2>3, <4>1, <4>3, <5>1, <6>1, <6>2, <6>3, OlderPage
          <6>5. QED
            BY <2>4, <4>1, <5>1, <6>2, <6>4 DEF EvidenceNext
        <5>3. CASE ~NeedsOlder("quotes", ToSet(quotes))
          <6>1. /\ result' = [s \in Stream |->
                                 Normalized(IF s = "trades" THEN result["trades"] ELSE quotes)]
                /\ complete' = TRUE
            BY <3>4, <4>3, <5>3 DEF HistoricalTicksBidAsk, With
          <6>2. Delivered("quotes", quotes) /\ Covers("quotes", quotes)
            BY <2>1, <2>2, <2>3, <5>1, <5>3, LastOfPage
          <6>3. /\ result'["trades"] = Normalized(result["trades"])
                /\ result'["quotes"] = Normalized(quotes)
            BY <2>3, <6>1
          <6> HIDE DEF quotes
          <6>4. Good("trades", result'["trades"]) /\ Good("quotes", result'["quotes"])
            BY <2>1, <5>1, <6>2, <6>3, NormalizedSorts
          <6>5. AllGood(result')
            BY <6>4 DEF AllGood, Stream
          <6>6. QED
            BY <2>4, <4>1, <6>1, <6>5 DEF EvidenceNext
        <5>4. QED
          BY <5>2, <5>3
      <4>4. QED
        BY <4>2, <4>3
    <3>5. CASE PartOfPage
      <4>1. /\ ~complete /\ phase = "fetching" /\ phase' = phase /\ tape' = tape
            /\ cache' = cache /\ intact' = intact /\ evidence' = evidence
            /\ UNCHANGED <<stream, cursor, complete, failure>>
        BY <3>5 DEF PartOfPage, Running
      <4>2. PICK last \in answer :
                /\ answer' = {n \in answer : n > last}
                /\ Received(stream, {n \in answer : n <= last})
        BY <3>5 DEF PartOfPage
      <4>3. /\ result'[stream] = With(result[stream], {n \in answer : n <= last})
            /\ \A s \in Stream : s # stream => result'[s] = result[s]
        BY <2>2, <4>2 DEF Received, With, PerStream
      <4>4. ASSUME Paging(stream, result[stream], answer, cursor[stream])
            PROVE  Paging(stream, result'[stream], answer', cursor'[stream])
        BY <2>1, <4>1, <4>2, <4>3, <4>4, PartReceived
      <4>5. CASE failure = None /\ stream = "trades"
        <5>1. Paging("trades", result["trades"], answer, cursor["trades"]) /\ result["quotes"] = <<>>
          BY <4>1, <4>5 DEF EvidenceInv
        <5>2. Paging("trades", result'["trades"], answer', cursor'["trades"]) /\ result'["quotes"] = <<>>
          BY <2>3, <4>3, <4>4, <4>5, <5>1
        <5>3. QED
          BY <2>4, <4>1, <4>5, <5>2 DEF EvidenceNext
      <4>6. CASE failure = None /\ stream = "quotes"
        <5>1. /\ Paging("quotes", result["quotes"], answer, cursor["quotes"])
              /\ Delivered("trades", result["trades"]) /\ Covers("trades", result["trades"])
          BY <4>1, <4>6 DEF EvidenceInv
        <5>2. /\ Paging("quotes", result'["quotes"], answer', cursor'["quotes"])
              /\ result'["trades"] = result["trades"]
          BY <2>3, <4>3, <4>4, <4>6, <5>1
        <5>3. QED
          BY <2>4, <4>1, <4>6, <5>1, <5>2 DEF EvidenceNext
      <4>7. CASE failure # None
        BY <2>4, <4>1, <4>7 DEF EvidenceNext
      <4>8. QED
        BY <2>2, <4>5, <4>6, <4>7 DEF Stream
    <3>6. CASE \E why \in {"pacing", "request"} : Error(why)
      <4>1. PICK why \in {"pacing", "request"} : Error(why)
        BY <3>6
      <4>2. failure' # None
        BY <4>1 DEF Error, Fail, None
      <4>3. QED
        BY <2>4, <4>1, <4>2 DEF Error, Running, EvidenceNext
    <3>7. CASE Exit
      <4>1. CASE failure = None
        <5>1. complete /\ phase = "fetching" /\ phase' = "saving" /\ UNCHANGED client
          BY <3>7, <4>1 DEF Exit
        <5>2. AllGood(result')
          BY <4>1, <5>1 DEF EvidenceInv, client
        <5>3. QED
          BY <2>4, <3>7, <5>1, <5>2 DEF Exit, EvidenceNext
      <4>2. CASE failure # None
        <5>1. phase' \in {"retry", "error"}
          BY <3>7, <4>2 DEF Exit
        <5>2. QED
          BY <2>4, <3>7, <5>1 DEF Exit, EvidenceNext
      <4>3. QED
        BY <4>1, <4>2
    <3>8. CASE Save
      <4>1. AllGood(result) /\ tape' = tape
        BY <3>8 DEF Save, EvidenceInv
      <4>2. \/ cache' = result /\ evidence' = result /\ phase' = "fetched"
            \/ intact' = FALSE /\ phase' = "error"
        BY <3>8 DEF Save
      <4>3. QED
        BY <4>1, <4>2 DEF EvidenceNext
    <3>9. CASE Judge
      <4>1. /\ phase = "fetched" /\ phase' \in {"insufficient", "confirmed", "rejected"}
            /\ UNCHANGED <<tape, cache, intact, evidence>>
        BY <3>9 DEF Judge
      <4>2. phase' \in {"confirmed", "rejected"} => \A s \in Stream : evidence'[s] # <<>>
        BY <3>9, <4>1, JudgedOnTicks
      <4>3. QED
        BY <2>4, <4>1, <4>2 DEF EvidenceNext
    <3>10. CASE Rerun
      BY <2>4, <3>10 DEF Rerun, EvidenceNext
    <3>11. CASE UNCHANGED vars
      <4>1. UNCHANGED <<tape, phase, stream, cursor, answer, result, complete, failure, cache, intact, evidence>>
        BY <3>11 DEF vars, client
      <4>2. QED
        BY <4>1 DEF EvidenceInv, EvidenceNext, Judged
    <3>12. QED
      BY <3>1, <3>2, <3>3, <3>4, <3>5, <3>6, <3>7, <3>8, <3>9, <3>10, <3>11 DEF Next
  <2>6. QED
    BY <2>5, EvidenceNextState
<1>3. Spec => []TypeInv
  BY TypeInvHolds
<1>4. QED
  BY <1>1, <1>2, <1>3, PTL DEF Spec

\* A verdict rests on every kept tick of the lookback, each once and in its order.
THEOREM VerdictOnAllTicks == Spec => []JudgedOnAllTicks
<1>1. TypeInv /\ EvidenceInv => JudgedOnAllTicks
  <2> SUFFICES ASSUME TypeInv, EvidenceInv, Judged, intact, NEW s \in Stream
               PROVE  /\ {n \in ToSet(evidence[s]) : tape[n].time >= TargetStart}
                             = {n \in Ticks(s) : Kept(n) /\ tape[n].time >= TargetStart}
                      /\ \A i, j \in DOMAIN evidence[s] : i < j => evidence[s][i] < evidence[s][j]
    BY DEF JudgedOnAllTicks
  <2>1. TapeOrdered
    BY TapesAreOrdered DEF TypeInv
  <2>2. Good(s, evidence[s]) /\ evidence[s] # <<>>
    BY DEF EvidenceInv, AllGood, Judged
  <2>3. QED
    BY <2>1, <2>2, GoodIsJudged
<1>2. QED
  BY <1>1, TypeInvHolds, EvidenceInvHolds, PTL

-----------------------------------------------------------------------------
(* Recursion on the numbers up to n: what is defined so exists, and what   *)
(* each step keeps holds at the end.                                       *)

LEMMA LeastOf ==
    ASSUME NEW S \in SUBSET Nat, S # {}
    PROVE  \E m \in S : \A n \in S : m <= n
<1>1. PICK m \in S : \A n \in S : <<n, m>> \notin OpToRel(<, Nat)
  BY NatLessThanWellFounded, WFMin, Zenon
<1>2. \A n \in S : ~(n < m)
  BY <1>1 DEF OpToRel
<1>3. QED
  BY <1>2

LEMMA Inductively ==
    ASSUME NEW n \in Nat, NEW S, 0 \in S, \A k \in 1 .. n : k - 1 \in S => k \in S
    PROVE  \A k \in 0 .. n : k \in S
<1> DEFINE bad == {k \in 0 .. n : k \notin S}
<1>1. SUFFICES ASSUME bad # {} PROVE FALSE
  OBVIOUS
<1>2. PICK m \in bad : \A k \in bad : m <= k
  <2>1. bad \in SUBSET Nat
    OBVIOUS
  <2> HIDE DEF bad
  <2>2. QED
    BY <1>1, <2>1, LeastOf, Zenon
<1>3. m \in 0 .. n /\ m \notin S /\ m # 0
  BY <1>2
<1>4. m - 1 \in 0 .. n /\ m - 1 \notin bad /\ m \in 1 .. n
  BY <1>2, <1>3
<1>5. QED
  BY <1>3, <1>4

\* f is computed from base, its value at k by step[k] from the one before.
Computes(f, n, base, step) == f[0] = base /\ \A k \in 1 .. n : f[k] = step[k][f[k - 1]]

LEMMA Computed ==
    ASSUME NEW n \in Nat, NEW R, NEW base \in R, NEW step \in [1 .. n -> [R -> R]]
    PROVE  \E f \in [0 .. n -> R] : Computes(f, n, base, step)
<1> DEFINE good == {m \in 0 .. n : \E f \in [0 .. m -> R] : Computes(f, m, base, step)}
<1>1. 0 \in good
  <2>1. [k \in 0 .. 0 |-> base] \in [0 .. 0 -> R]
    OBVIOUS
  <2>2. Computes([k \in 0 .. 0 |-> base], 0, base, step)
    BY DEF Computes
  <2>3. QED
    BY <2>1, <2>2
<1>2. ASSUME NEW m \in 1 .. n, m - 1 \in good PROVE m \in good
  <2>1. PICK f \in [0 .. m - 1 -> R] : Computes(f, m - 1, base, step)
    BY <1>2
  <2> DEFINE g == [k \in 0 .. m |-> IF k = m THEN step[m][f[m - 1]] ELSE f[k]]
  <2>2. step[m] \in [R -> R] /\ f[m - 1] \in R
    BY <2>1
  <2>3. g \in [0 .. m -> R]
    BY <2>1, <2>2
  <2>4. f[0] = base /\ \A k \in 1 .. m - 1 : f[k] = step[k][f[k - 1]]
    BY <2>1 DEF Computes
  <2>5. g[0] = base /\ \A k \in 1 .. m : g[k] = step[k][g[k - 1]]
    BY <2>4
  <2>6. Computes(g, m, base, step)
    BY <2>5 DEF Computes
  <2>7. QED
    BY <2>3, <2>6
<1> HIDE DEF good
<1>3. n \in good
  <2>1. \A m \in 1 .. n : m - 1 \in good => m \in good
    BY <1>2
  <2>2. \A k \in 0 .. n : k \in good
    BY <1>1, <2>1, Inductively, Zenon
  <2>3. QED
    BY <2>2
<1>4. QED
  BY <1>3 DEF good

\* What is computed alike agrees.
Alike(f, g, n) == f[0] = g[0] /\ \A k \in 1 .. n : f[k - 1] = g[k - 1] => f[k] = g[k]
Agree(f, g, n) == \A k \in 0 .. n : f[k] = g[k]

LEMMA AlikeAgree ==
    ASSUME NEW n \in Nat, NEW f, NEW g, Alike(f, g, n)
    PROVE  Agree(f, g, n)
<1> DEFINE S == {k \in 0 .. n : f[k] = g[k]}
<1>1. 0 \in S /\ \A k \in 1 .. n : k - 1 \in S => k \in S
  BY DEF Alike
<1> HIDE DEF S
<1>2. \A k \in 0 .. n : k \in S
  BY <1>1, Inductively, Zenon
<1>3. QED
  BY <1>2 DEF S, Agree

-----------------------------------------------------------------------------
(* What is added up or classified tick by tick: f[k] is what the first k   *)
(* of them make.                                                           *)

AddsUp(f, amounts) ==
    /\ f[0] = 0 /\ \A k \in 1 .. Len(amounts) : f[k] = f[k - 1] + amounts[k]
    /\ Total(amounts) = f[Len(amounts)]

LEMMA TotalBy ==
    ASSUME NEW amounts, Len(amounts) \in Nat,
           \A k \in 1 .. Len(amounts) : amounts[k] \in Int
    PROVE  \E f \in [0 .. Len(amounts) -> Int] : AddsUp(f, amounts)
<1> DEFINE n == Len(amounts)
           step == [k \in 1 .. n |-> [x \in Int |-> x + amounts[k]]]
           body(f) == [k \in 0 .. n |-> IF k = 0 THEN 0 ELSE f[k - 1] + amounts[k]]
           after == CHOOSE f : f = body(f)
<1>1. step \in [1 .. n -> [Int -> Int]]
  OBVIOUS
<1>2. \A k \in 1 .. n, x \in Int : step[k][x] = x + amounts[k]
  OBVIOUS
<1>3. Total(amounts) = after[n]
  BY DEF Total
<1> HIDE DEF step
<1>4. PICK f \in [0 .. n -> Int] : Computes(f, n, 0, step)
  <2>1. 0 \in Int /\ n \in Nat
    OBVIOUS
  <2> HIDE DEF n
  <2>2. QED
    BY <1>1, <2>1, Computed, Zenon
<1>5. f[0] = 0 /\ \A k \in 1 .. n : f[k] = f[k - 1] + amounts[k]
  <2>1. ASSUME NEW k \in 1 .. n PROVE f[k] = f[k - 1] + amounts[k]
    <3>1. f[k - 1] \in Int
      BY <1>4
    <3>2. QED
      BY <1>2, <1>4, <3>1 DEF Computes
  <2>2. QED
    BY <1>4, <2>1 DEF Computes
<1>6. f = body(f)
  BY <1>4, <1>5
<1>7. after = body(after)
  <2> HIDE DEF body
  <2>1. QED
    BY <1>6
<1>8. after[0] = 0 /\ \A k \in 1 .. n : after[k] = after[k - 1] + amounts[k]
  <2> HIDE DEF after
  <2>1. QED
    BY <1>7
<1> HIDE DEF after
<1>9. Agree(f, after, n)
  <2>1. Alike(f, after, n)
    BY <1>5, <1>8 DEF Alike
  <2>2. QED
    BY <2>1, AlikeAgree
<1>10. Total(amounts) = f[n]
  BY <1>3, <1>9 DEF Agree
<1>11. QED
  BY <1>5, <1>10 DEF AddsUp

Tracks(f, ticks) ==
    /\ f[0] = LiveStart /\ \A k \in 1 .. Len(ticks) : f[k] = OnTick(f[k - 1], ticks[k])
    /\ Live(ticks) = f[Len(ticks)].sides

LEMMA LiveBy ==
    ASSUME NEW R, LiveStart \in R, NEW ticks, Len(ticks) \in Nat,
           \A x \in R : \A k \in 1 .. Len(ticks) : OnTick(x, ticks[k]) \in R
    PROVE  \E f \in [0 .. Len(ticks) -> R] : Tracks(f, ticks)
<1> DEFINE n == Len(ticks)
           step == [k \in 1 .. n |-> [x \in R |-> OnTick(x, ticks[k])]]
           body(f) == [k \in 0 .. n |-> IF k = 0 THEN LiveStart ELSE OnTick(f[k - 1], ticks[k])]
           after == CHOOSE f : f = body(f)
<1>1. step \in [1 .. n -> [R -> R]]
  OBVIOUS
<1>2. \A k \in 1 .. n, x \in R : step[k][x] = OnTick(x, ticks[k])
  OBVIOUS
<1>3. Live(ticks) = after[n].sides
  BY DEF Live
<1> HIDE DEF step
<1>4. PICK f \in [0 .. n -> R] : Computes(f, n, LiveStart, step)
  BY <1>1, Computed
<1>5. f[0] = LiveStart /\ \A k \in 1 .. n : f[k] = OnTick(f[k - 1], ticks[k])
  <2>1. ASSUME NEW k \in 1 .. n PROVE f[k] = OnTick(f[k - 1], ticks[k])
    <3>1. f[k - 1] \in R
      BY <1>4
    <3>2. QED
      BY <1>2, <1>4, <3>1 DEF Computes
  <2>2. QED
    BY <1>4, <2>1 DEF Computes
<1>6. f = body(f)
  BY <1>4, <1>5
<1>7. after = body(after)
  <2> HIDE DEF body
  <2>1. QED
    BY <1>6
<1>8. after[0] = LiveStart /\ \A k \in 1 .. n : after[k] = OnTick(after[k - 1], ticks[k])
  <2> HIDE DEF after
  <2>1. QED
    BY <1>7
<1> HIDE DEF after
<1>9. Agree(f, after, n)
  <2>1. Alike(f, after, n)
    BY <1>5, <1>8 DEF Alike
  <2>2. QED
    BY <2>1, AlikeAgree
<1>10. QED
  BY <1>3, <1>5, <1>9 DEF Agree, Tracks

Classifies(f, trades, quotes) ==
    /\ f[0] = ClassifyStart /\ \A k \in 1 .. Len(trades) : f[k] = WithTrade(f[k - 1], trades[k], QuoteFor(quotes, trades[k].time))
    /\ Classify(trades, quotes) = f[Len(trades)].sides

LEMMA ClassifyBy ==
    ASSUME NEW R, ClassifyStart \in R, NEW trades, NEW quotes, Len(trades) \in Nat,
           \A x \in R : \A k \in 1 .. Len(trades) :
               WithTrade(x, trades[k], QuoteFor(quotes, trades[k].time)) \in R
    PROVE  \E f \in [0 .. Len(trades) -> R] : Classifies(f, trades, quotes)
<1> DEFINE n == Len(trades)
           step == [k \in 1 .. n |-> [x \in R |-> WithTrade(x, trades[k], QuoteFor(quotes, trades[k].time))]]
           body(f) == [k \in 0 .. n |-> IF k = 0 THEN ClassifyStart ELSE WithTrade(f[k - 1], trades[k], QuoteFor(quotes, trades[k].time))]
           after == CHOOSE f : f = body(f)
<1>1. step \in [1 .. n -> [R -> R]]
  OBVIOUS
<1>2. \A k \in 1 .. n, x \in R : step[k][x] = WithTrade(x, trades[k], QuoteFor(quotes, trades[k].time))
  OBVIOUS
<1>3. Classify(trades, quotes) = after[n].sides
  BY DEF Classify
<1> HIDE DEF step
<1>4. PICK f \in [0 .. n -> R] : Computes(f, n, ClassifyStart, step)
  BY <1>1, Computed
<1>5. f[0] = ClassifyStart /\ \A k \in 1 .. n : f[k] = WithTrade(f[k - 1], trades[k], QuoteFor(quotes, trades[k].time))
  <2>1. ASSUME NEW k \in 1 .. n PROVE f[k] = WithTrade(f[k - 1], trades[k], QuoteFor(quotes, trades[k].time))
    <3>1. f[k - 1] \in R
      BY <1>4
    <3>2. QED
      BY <1>2, <1>4, <3>1 DEF Computes
  <2>2. QED
    BY <1>4, <2>1 DEF Computes
<1>6. f = body(f)
  BY <1>4, <1>5
<1>7. after = body(after)
  <2> HIDE DEF body
  <2>1. QED
    BY <1>6
<1>8. after[0] = ClassifyStart /\ \A k \in 1 .. n : after[k] = WithTrade(after[k - 1], trades[k], QuoteFor(quotes, trades[k].time))
  <2> HIDE DEF after
  <2>1. QED
    BY <1>7
<1> HIDE DEF after
<1>9. Agree(f, after, n)
  <2>1. Alike(f, after, n)
    BY <1>5, <1>8 DEF Alike
  <2>2. QED
    BY <2>1, AlikeAgree
<1>10. QED
  BY <1>3, <1>5, <1>9 DEF Agree, Classifies

-----------------------------------------------------------------------------
(* Buckets and windows.                                                    *)

\* A bucket is the seconds from its start on.
LEMMA MultiplesApart ==
    ASSUME NEW i \in Nat \ {0}, NEW a \in Int, NEW b \in Int, a < b
    PROVE  i * a + i <= i * b
<1>1. a + 1 <= b
  OBVIOUS
<1>2. i * (b - (a + 1)) >= 0
  BY <1>1
<1>3. i * (b - (a + 1)) = i * b - (i * a + i)
  OBVIOUS
<1>4. i * a \in Int /\ i * b \in Int
  OBVIOUS
<1>5. QED
  BY <1>2, <1>3, <1>4

LEMMA BucketsApart ==
    ASSUME NEW i \in Nat \ {0}, NEW t \in Nat, NEW u \in Nat
    PROVE  /\ Bucket(t, i) \in Int
           /\ Bucket(u, i) = Bucket(t, i) <=> u \in Bucket(t, i) .. Bucket(t, i) + i - 1
<1> DEFINE q == t \div i
           p == u \div i
           a == t % i
           b == u % i
<1>1. /\ q \in Int /\ a \in 0 .. i - 1 /\ t = i * q + a
      /\ p \in Int /\ b \in 0 .. i - 1 /\ u = i * p + b
  OBVIOUS
<1>2. Bucket(t, i) = t - a /\ Bucket(u, i) = u - b
  BY DEF Bucket
<1> HIDE DEF q, p, a, b
<1>3. /\ p < q => i * p + i <= i * q
      /\ q < p => i * q + i <= i * p
  BY <1>1, MultiplesApart
<1>4. i * p \in Int /\ i * q \in Int
  BY <1>1
<1>5. p < q \/ q < p \/ i * p = i * q
  BY <1>1
<1> DEFINE x == i * p
           y == i * q
<1>6. Bucket(t, i) = y /\ Bucket(u, i) = x
  BY <1>1, <1>2, <1>4
<1>7. x \in Int /\ y \in Int /\ u = x + b /\ (x + i <= y \/ y + i <= x \/ x = y)
  BY <1>1, <1>3, <1>4, <1>5
<1> HIDE DEF x, y
<1>8. QED
  BY <1>1, <1>6, <1>7

\* Ticks in the order of their seconds.
Timed(ticks) ==
    /\ DOMAIN ticks \subseteq Int /\ IsFiniteSet(DOMAIN ticks)
    /\ \A k \in DOMAIN ticks : ticks[k].time \in Nat
    /\ \A j, k \in DOMAIN ticks : j <= k => ticks[j].time <= ticks[k].time

\* A window's quotes with the valid one before them: what lies between two of them,
\* or before the last of them, is one of them, unless it is before them all.
LeadIn(before, inside) == inside \cup (IF before = {} THEN {} ELSE {Latest(before)})

Closes(valid, inside, series) ==
    /\ series \subseteq valid /\ inside \subseteq series
    /\ \A x \in series, j \in valid, l \in series : (l <= j /\ j <= x) => j \in series
    /\ \A x \in series : (\E l \in series : l < x) => x \in inside
    /\ \A x \in inside : (\E j \in valid : j < x) <=> \E l \in series : l < x

LEMMA LeadInCloses ==
    ASSUME NEW quotes, Timed(quotes), NEW valid \in SUBSET DOMAIN quotes,
           NEW from \in Int, NEW to \in Int, NEW before, NEW inside,
           before = {k \in valid : quotes[k].time < from},
           inside = {k \in valid : quotes[k].time \in from .. to},
           NEW series, series = LeadIn(before, inside)
    PROVE  IsFiniteSet(series) /\ Closes(valid, inside, series)
<1>1. \A k \in valid : k \in Int /\ quotes[k].time \in Int
  BY DEF Timed
<1>2. \A j, k \in valid : j <= k => quotes[j].time <= quotes[k].time
  BY DEF Timed
<1>3. before \subseteq Int /\ IsFiniteSet(before)
  <2>1. before \in SUBSET DOMAIN quotes /\ IsFiniteSet(DOMAIN quotes)
    BY DEF Timed
  <2>2. IsFiniteSet(before)
    BY <2>1, FS_Subset, Zenon
  <2>3. QED
    BY <1>1, <2>2
<1> DEFINE last == Latest(before)
<1>4. before # {} => last \in before /\ \A j \in before : j <= last
  BY <1>3, LatestIs
<1>5. before # {} => series = inside \cup {last}
  BY DEF LeadIn
<1>6. before = {} => series = inside
  BY DEF LeadIn
<1> HIDE DEF last
<1>7. \A b \in before, x \in inside : b < x
  BY <1>1, <1>2
<1>8. \A x \in series, j \in valid : j <= x => j \in inside \/ j \in before
  <2>1. ASSUME NEW x \in series, NEW j \in valid, j <= x
        PROVE  quotes[j].time <= to \/ quotes[j].time < from
    <3>1. x \in valid /\ (quotes[x].time < from \/ quotes[x].time <= to)
      BY <1>4, <1>5, <1>6
    <3>2. quotes[j].time <= quotes[x].time
      BY <1>2, <2>1, <3>1
    <3>3. QED
      BY <1>1, <3>1, <3>2
  <2>2. QED
    BY <1>1, <2>1
<1>9. series \in SUBSET valid /\ inside \subseteq series
  BY <1>4, <1>5, <1>6
<1>10. IsFiniteSet(series)
  <2>1. series \in SUBSET DOMAIN quotes /\ IsFiniteSet(DOMAIN quotes)
    BY <1>9 DEF Timed
  <2>2. QED
    BY <2>1, FS_Subset, Zenon
<1>11. ASSUME NEW x \in series, NEW j \in valid, NEW l \in series, l <= j, j <= x
       PROVE  j \in series
  <2>1. SUFFICES ASSUME j \in before, before # {} PROVE j = last
    BY <1>5, <1>8, <1>9, <1>11
  <2>2. j \in Int /\ l \in Int /\ last \in Int /\ j <= last
    BY <1>1, <1>4, <1>9, <2>1
  <2>3. l = last \/ l \in inside
    BY <1>5, <2>1
  <2>4. l \in inside => j < l
    BY <1>7, <2>1
  <2>5. l = last
    BY <1>11, <2>2, <2>3, <2>4
  <2>6. QED
    BY <1>11, <2>2, <2>5
<1>12. ASSUME NEW x \in series, NEW l \in series, l < x PROVE x \in inside
  <2>1. SUFFICES ASSUME before # {}, x = last PROVE FALSE
    BY <1>5, <1>6
  <2>2. x \in Int /\ l \in Int /\ x \in before
    BY <1>1, <1>4, <1>9, <2>1
  <2>3. l = last \/ l \in inside
    BY <1>5, <2>1
  <2>4. l \in inside => x < l
    BY <1>7, <2>2
  <2>5. QED
    BY <1>12, <2>1, <2>2, <2>3, <2>4
<1>13. ASSUME NEW x \in inside, NEW j \in valid, j < x PROVE \E l \in series : l < x
  <2>1. x \in series /\ j \in Int /\ x \in Int
    BY <1>1, <1>9
  <2>2. CASE j \in inside
    BY <1>9, <1>13, <2>2
  <2>3. CASE j \in before
    <3>1. last \in series /\ last < x
      BY <1>4, <1>5, <1>7, <2>3
    <3>2. QED
      BY <3>1
  <2>4. QED
    BY <1>8, <1>13, <2>1, <2>2, <2>3
<1>14. \A x \in inside : (\E j \in valid : j < x) <=> \E l \in series : l < x
  BY <1>9, <1>13
<1>15. QED
  BY <1>9, <1>10, <1>11, <1>12, <1>14 DEF Closes

\* The events of a bucket are the pairs of its window.
LEMMA EventsOfWindow ==
    ASSUME NEW quotes, Timed(quotes), NEW valid \in SUBSET DOMAIN quotes,
           NEW start \in Int, NEW to \in Int, NEW interval,
           \A k \in valid :
               Bucket(quotes[k].time, interval) = start <=> quotes[k].time \in start .. to,
           NEW before, NEW inside,
           before = {k \in valid : quotes[k].time < start},
           inside = {k \in valid : quotes[k].time \in start .. to},
           NEW series, series = LeadIn(before, inside)
    PROVE  EventsOf(quotes, valid, start, interval) = Pairs(Picked(quotes, series))
<1> DEFINE f == InOrder(series)
           n == Cardinality(series)
           led == {k \in valid : Bucket(quotes[k].time, interval) = start
                                     /\ {j \in valid : j < k} # {}}
           s == Picked(quotes, series)
<1>1. IsFiniteSet(series) /\ Closes(valid, inside, series)
  BY LeadInCloses
<1>2. \A k \in valid : k \in Int
  BY DEF Timed
<1>3. series \subseteq valid /\ series \in SUBSET Int
  BY <1>1, <1>2 DEF Closes
<1>4. IsFiniteSet(valid)
  <2>1. valid \in SUBSET DOMAIN quotes /\ IsFiniteSet(DOMAIN quotes)
    BY DEF Timed
  <2>2. QED
    BY <2>1, FS_Subset, Zenon
<1>5. /\ n \in Nat /\ f \in [1 .. n -> series]
      /\ \A x \in series : \E k \in 1 .. n : f[k] = x
      /\ \A i, j \in 1 .. n : i < j => f[i] < f[j]
  BY <1>1, <1>3, InOrderPlaces DEF Placed
<1>6. s = [k \in 1 .. n |-> quotes[f[k]]]
  BY PickedIs
<1>7. \A k : k \in led <=> k \in inside /\ \E j \in valid : j < k
  <2>1. \A k : {j \in valid : j < k} # {} <=> \E j \in valid : j < k
    OBVIOUS
  <2>2. \A k \in valid : Bucket(quotes[k].time, interval) = start <=> k \in inside
    OBVIOUS
  <2>3. \A k \in inside : k \in valid
    OBVIOUS
  <2>4. \A k : k \in led <=>
            k \in valid /\ Bucket(quotes[k].time, interval) = start /\ {j \in valid : j < k} # {}
    OBVIOUS
  <2> HIDE DEF led
  <2>5. QED
    BY <2>1, <2>2, <2>3, <2>4, Zenon
<1> HIDE DEF led
<1>8. \A k : k \in led <=> k \in series /\ \E l \in series : l < k
  <2>1. /\ \A k \in inside : k \in series
        /\ \A x \in series : (\E l \in series : l < x) => x \in inside
        /\ \A x \in inside : (\E j \in valid : j < x) <=> \E l \in series : l < x
    BY <1>1, Zenon DEF Closes
  <2> DEFINE led1(k) == \E j \in valid : j < k
             led2(k) == \E l \in series : l < k
  <2>2. /\ \A x \in series : led2(x) => x \in inside
        /\ \A x \in inside : led1(x) <=> led2(x)
        /\ \A k : k \in led <=> k \in inside /\ led1(k)
    BY <1>7, <2>1
  <2> HIDE DEF led1, led2
  <2>3. \A k : k \in led <=> k \in series /\ led2(k)
    BY <2>1, <2>2, Zenon
  <2>4. QED
    BY <2>3 DEF led2
<1> HIDE DEF f, n, s
<1>9. \A k \in 1 .. n : f[k] \in series /\ f[k] \in Int /\ f[k] \in valid
  BY <1>2, <1>3, <1>5
<1>10. \A i, j \in 1 .. n : f[i] < f[j] => i < j
  <2>1. ASSUME NEW i \in 1 .. n, NEW j \in 1 .. n, f[i] < f[j], ~(i < j) PROVE FALSE
    <3>1. f[i] \in Int /\ f[j] \in Int /\ i \in Int /\ j \in Int
      BY <1>9
    <3>2. i = j \/ f[j] < f[i]
      BY <1>5, <2>1, <3>1
    <3>3. QED
      BY <2>1, <3>1, <3>2
  <2>2. QED
    BY <2>1
<1>11. CASE n = 0
  <2>1. series = {}
    BY <1>5, <1>11
  <2>2. led = {}
    BY <1>8, <2>1
  <2>3. s = <<>>
    BY <1>6, <1>11
  <2>4. DOMAIN InOrder({}) = {}
    BY InOrderDomain, FS_EmptySet
  <2>5. EventsOf(quotes, valid, start, interval) = <<>>
    <3>1. InOrder(led) = InOrder({})
      BY <2>2
    <3>2. EventsOf(quotes, valid, start, interval) =
              [k \in DOMAIN InOrder(led) |->
                   <<quotes[Latest({j \in valid : j < InOrder(led)[k]})], quotes[InOrder(led)[k]]>>]
      BY Zenon DEF EventsOf, led
    <3>3. QED
      BY <2>4, <3>1, <3>2
  <2>6. QED
    BY <2>3, <2>5 DEF Pairs, s
<1>12. CASE n # 0
  <2> DEFINE g == [k \in 1 .. n - 1 |-> f[k + 1]]
  <2>1. n - 1 \in Nat /\ n \in Int /\ \A k \in 1 .. n - 1 : k \in 1 .. n /\ k + 1 \in 1 .. n
    BY <1>5, <1>12
  <2>2. \A k \in 1 .. n - 1 : f[k] < f[k + 1]
    BY <1>5, <2>1
  <2>3. g \in [1 .. n - 1 -> led]
    BY <1>8, <1>9, <2>1, <2>2
  <2>4. \A x \in led : \E k \in 1 .. n - 1 : g[k] = x
    <3>1. SUFFICES ASSUME NEW x \in led PROVE \E k \in 1 .. n - 1 : g[k] = x
      OBVIOUS
    <3>2. PICK l \in series : l < x /\ x \in series
      BY <1>8
    <3>3. PICK i \in 1 .. n, m \in 1 .. n : f[i] = l /\ f[m] = x
      BY <1>5, <3>2
    <3>4. i < m
      BY <1>10, <3>2, <3>3
    <3>5. m - 1 \in 1 .. n - 1 /\ (m - 1) + 1 = m
      BY <2>1, <3>4
    <3>6. g[m - 1] = x
      BY <3>3, <3>5
    <3>7. QED
      BY <3>5, <3>6
  <2>5. \A i, j \in 1 .. n - 1 : i < j => g[i] < g[j]
    BY <1>5, <2>1
  <2>6. led \subseteq Int
    BY <1>3, <1>8
  <2>7. InOrder(led) = g
    <3> DEFINE m == n - 1
    <3>1. m \in Nat
      BY <2>1
    <3>2. /\ g \in [1 .. m -> led]
          /\ \A x \in led : \E k \in 1 .. m : g[k] = x
          /\ \A i, j \in 1 .. m : i < j => g[i] < g[j]
      BY <2>3, <2>4, <2>5
    <3> HIDE DEF m, g, led
    <3>3. QED
      BY <2>6, <3>1, <3>2, AscendingIsInOrder
  <2>8. ASSUME NEW k \in 1 .. n - 1
        PROVE  Latest({j \in valid : j < f[k + 1]}) = f[k]
    <3> DEFINE S == {j \in valid : j < f[k + 1]}
    <3>1. k \in 1 .. n /\ k + 1 \in 1 .. n
      BY <2>1
    <3>2. f[k] \in S
      BY <1>9, <2>2, <3>1
    <3>3. S \in SUBSET valid
      OBVIOUS
    <3>4. S \subseteq Int /\ IsFiniteSet(S)
      BY <1>2, <1>4, <3>3, FS_Subset, Zenon
    <3>5. ASSUME NEW j \in S PROVE j <= f[k]
      <4>1. SUFFICES ASSUME f[k] < j PROVE FALSE
        BY <1>9, <3>1, <3>4
      <4>2. f[k] \in series /\ f[k + 1] \in series /\ f[k] \in Int /\ f[k + 1] \in Int /\ j \in Int
        BY <1>9, <3>1, <3>4
      <4>3. j \in valid /\ j < f[k + 1] /\ f[k] <= j /\ j <= f[k + 1]
        BY <4>1, <4>2
      <4>4. j \in series
        BY <1>1, <4>2, <4>3 DEF Closes
      <4>5. PICK m \in 1 .. n : f[m] = j
        BY <1>5, <4>4
      <4>6. k < m /\ m < k + 1
        BY <1>10, <3>1, <4>1, <4>3, <4>5
      <4>7. QED
        BY <4>6
    <3> HIDE DEF S
    <3>6. Latest(S) = f[k]
      BY <3>2, <3>4, <3>5, LatestIs
    <3>7. QED
      BY <3>6 DEF S
  <2>9. \A k \in 1 .. n - 1 : g[k] = f[k + 1]
    OBVIOUS
  <2>10. DOMAIN g = 1 .. n - 1
    OBVIOUS
  <2> HIDE DEF g
  <2>11. EventsOf(quotes, valid, start, interval)
             = [k \in 1 .. n - 1 |-> <<quotes[Latest({j \in valid : j < g[k]})], quotes[g[k]]>>]
    <3>1. EventsOf(quotes, valid, start, interval) =
              [k \in DOMAIN InOrder(led) |->
                   <<quotes[Latest({j \in valid : j < InOrder(led)[k]})], quotes[InOrder(led)[k]]>>]
      BY Zenon DEF EventsOf, led
    <3>2. QED
      BY <2>7, <2>10, <3>1
  <2>12. EventsOf(quotes, valid, start, interval)
             = [k \in 1 .. n - 1 |-> <<quotes[f[k]], quotes[f[k + 1]]>>]
    <3>1. \A k \in 1 .. n - 1 : Latest({j \in valid : j < g[k]}) = f[k]
      BY <2>8, <2>9
    <3>2. QED
      BY <2>9, <2>11, <3>1
  <2>13. Len(s) = n /\ s # <<>>
    BY <1>5, <1>6, <1>12
  <2>14. \A k \in 1 .. n - 1 : s[k] = quotes[f[k]] /\ s[k + 1] = quotes[f[k + 1]]
    BY <1>6, <2>1
  <2>15. Pairs(s) = [k \in 1 .. n - 1 |-> <<s[k], s[k + 1]>>]
    BY <2>13 DEF Pairs
  <2>16. Pairs(s) = [k \in 1 .. n - 1 |-> <<quotes[f[k]], quotes[f[k + 1]]>>]
    BY <2>14, <2>15
  <2>17. QED
    BY <2>12, <2>16 DEF s
<1>13. QED
  BY <1>11, <1>12

\* The flow of a bucket is that of the window of its seconds.
LEMMA BucketFlow ==
    ASSUME NEW trades, \A k \in DOMAIN trades : trades[k].time \in Nat,
           NEW quotes, Timed(quotes), NEW interval \in Nat \ {0},
           NEW bars, bars = Aggregate(trades, quotes, interval), NEW start \in DOMAIN bars
    PROVE  bars[start] = Window(trades, quotes, start, start + interval - 1).flow
<1> DEFINE sized == {k \in DOMAIN trades : trades[k].size > 0}
           valid == {k \in DOMAIN quotes : ValidQuote(quotes[k])}
           within(x) == Bucket(x.time, interval) = start
           sold == {k \in sized : within(trades[k])}
           quoted == {k \in valid : within(quotes[k])}
           starts == {Bucket(trades[k].time, interval) : k \in sized}
                         \cup {Bucket(quotes[k].time, interval) : k \in valid}
           to == start + interval - 1
<1>1. bars = [st \in starts |->
                 Flow(Picked(trades, {k \in sized : Bucket(trades[k].time, interval) = st}),
                      Picked(quotes, {k \in valid : Bucket(quotes[k].time, interval) = st}),
                      EventsOf(quotes, valid, st, interval))]
  BY Zenon DEF Aggregate
<1>2. start \in starts
  BY <1>1
<1>3. bars[start] = Flow(Picked(trades, sold), Picked(quotes, quoted),
                         EventsOf(quotes, valid, start, interval))
  BY <1>1, <1>2
<1>4. /\ \A k \in sized : trades[k].time \in Nat
      /\ \A k \in valid : quotes[k].time \in Nat
  BY DEF Timed
<1>5. PICK t \in Nat : start = Bucket(t, interval)
  BY <1>2, <1>4
<1>6. start \in Int /\ \A u \in Nat : Bucket(u, interval) = start <=> u \in start .. to
  BY <1>5, BucketsApart
<1>7. \A k \in sized : within(trades[k]) <=> trades[k].time \in start .. to
  BY <1>4, <1>6
<1>8. \A k \in valid : within(quotes[k]) <=> quotes[k].time \in start .. to
  BY <1>4, <1>6
<1> DEFINE before == {k \in valid : quotes[k].time < start}
           inside == {k \in valid : quotes[k].time \in start .. to}
           window == {k \in DOMAIN trades : trades[k].time \in start .. to /\ trades[k].size > 0}
<1>9. sold = window
  BY <1>7
<1>10. quoted = inside
  BY <1>8
<1>11. valid \in SUBSET DOMAIN quotes
  OBVIOUS
<1>12. to \in Int
  BY <1>6
<1>13. WindowFlow(trades, quotes, start, to)
           = Flow(Picked(trades, window), Picked(quotes, inside),
                  Pairs(Picked(quotes, LeadIn(before, inside))))
  BY Zenon DEF WindowFlow, LeadIn
<1> HIDE DEF valid, to
<1>14. EventsOf(quotes, valid, start, interval) = Pairs(Picked(quotes, LeadIn(before, inside)))
  BY <1>6, <1>8, <1>11, <1>12, EventsOfWindow
<1> HIDE DEF sold, quoted, before, inside, window
<1>15. bars[start] = WindowFlow(trades, quotes, start, to)
  BY <1>3, <1>9, <1>10, <1>13, <1>14
<1>16. QED
  BY <1>15 DEF Window, to

\* Some ticks of the tape, in its order.
LEMMA TicksInOrder ==
    ASSUME TapeOrdered, NEW S \in SUBSET DOMAIN tape
    PROVE  /\ S \in SUBSET Int /\ IsFiniteSet(S) /\ Placed(S)
           /\ Timed(TicksAt(InOrder(S)))
<1>1. S \in SUBSET Int
  BY DEF TapeOrdered
<1>2. IsFiniteSet(S)
  <2>1. IsFiniteSet(DOMAIN tape)
    BY DEF TapeOrdered
  <2>2. QED
    BY <2>1, FS_Subset, Zenon
<1>3. Placed(S)
  BY <1>1, <1>2, InOrderPlaces
<1> DEFINE f == InOrder(S)
           n == Cardinality(S)
           ticks == TicksAt(f)
<1>4. n \in Nat /\ f \in [1 .. n -> S] /\ \A i, j \in 1 .. n : i < j => f[i] < f[j]
  BY <1>3 DEF Placed
<1> HIDE DEF f, n
<1>5. DOMAIN ticks = 1 .. n /\ \A k \in 1 .. n : ticks[k] = tape[f[k]]
  BY <1>4 DEF TicksAt
<1>6. \A k \in 1 .. n : f[k] \in DOMAIN tape /\ f[k] \in Int
  BY <1>1, <1>4
<1> HIDE DEF ticks
<1>7. \A k \in DOMAIN ticks : ticks[k].time \in Nat
  BY <1>5, <1>6 DEF TapeOrdered
<1>8. ASSUME NEW j \in DOMAIN ticks, NEW k \in DOMAIN ticks, j <= k
      PROVE  ticks[j].time <= ticks[k].time
  <2>1. j = k \/ f[j] < f[k]
    BY <1>4, <1>5, <1>8
  <2>2. f[j] <= f[k]
    BY <1>5, <1>6, <2>1
  <2>3. QED
    BY <1>5, <1>6, <2>2 DEF TapeOrdered
<1>9. DOMAIN ticks \subseteq Int /\ IsFiniteSet(DOMAIN ticks)
  BY <1>4, <1>5, FS_Interval
<1>10. Timed(ticks)
  BY <1>7, <1>8, <1>9 DEF Timed
<1>11. QED
  BY <1>1, <1>2, <1>3, <1>10 DEF ticks, f

\* The flow of a bucket, with the quote events that lead into it from before, is
\* that of the window of its seconds.
THEOREM FlowsAddUp == Spec => []BucketsAddUp
<1>1. TypeInv => BucketsAddUp
  <2> SUFFICES ASSUME TypeInv PROVE BucketsAddUp
    OBVIOUS
  <2> DEFINE sided == Sided(TicksAt(LiveTrades), Live(tape))
             quotes == TicksAt(InOrder(Ticks("quotes")))
  <2>1. TapeOrdered
    BY TapesAreOrdered DEF TypeInv
  <2>2. \A S \in SUBSET DOMAIN tape : Timed(TicksAt(InOrder(S)))
    BY <2>1, TicksInOrder
  <2>3. Timed(quotes)
    BY <2>2 DEF Ticks
  <2>4. Timed(TicksAt(LiveTrades))
    BY <2>2 DEF LiveTrades
  <2>5. \A k \in DOMAIN sided : sided[k].time \in Nat
    BY <2>4 DEF Timed, Sided
  <2> HIDE DEF sided, quotes
  <2>6. ASSUME NEW interval \in 1 .. End, NEW bars, bars = Aggregate(sided, quotes, interval),
               NEW start \in DOMAIN bars
        PROVE  bars[start] = Window(sided, quotes, start, start + interval - 1).flow
    <3>1. interval \in Nat \ {0}
      BY SpanAssumption
    <3>2. QED
      BY <2>3, <2>5, <2>6, <3>1, BucketFlow
  <2>7. \A interval \in 1 .. End : LET bars == Aggregate(sided, quotes, interval)
            IN \A start \in DOMAIN bars :
                   bars[start] = Window(sided, quotes, start, start + interval - 1).flow
    BY <2>6
  <2>8. QED
    BY <2>7, Zenon DEF BucketsAddUp, sided, quotes
<1>2. Spec => []TypeInv
  BY TypeInvHolds
<1>3. QED
  BY <1>1, <1>2, PTL

-----------------------------------------------------------------------------
(* The sides of the trades.                                                *)

TradeSide == {"buy", "sell", Unknown}
SideFound == [side : TradeSide, method : {"quote test", "tick rule", Unknown}]
Carries == [price : Int, direction : TradeSide]
QuoteCarried == [time : Int, bid : Int, ask : Int]
LiveState == [quote : QuoteCarried, carry : Carries, sides : Seq(SideFound)]
ClassifyState == [carry : Carries, sides : Seq(SideFound)]

LEMMA SideType ==
    ASSUME NEW price \in Int, NEW q, NEW fresh, NEW carry \in Carries
    PROVE  Side(price, q, fresh, carry) \in SideFound
<1>1. QuoteSide(price, q) \in TradeSide /\ TickSide(price, carry) \in TradeSide
  BY DEF QuoteSide, TickSide, TradeSide, Carries
<1>2. QED
  BY <1>1 DEF Side, SideFound, TradeSide

LEMMA CarriedType ==
    ASSUME NEW price \in Int, NEW carry \in Carries, NEW side \in TradeSide
    PROVE  Carried(carry, price, side) \in Carries
BY DEF Carried, Carries

LEMMA OnTickType ==
    ASSUME NEW state \in LiveState, NEW tick \in TradeTick \cup QuoteTick
    PROVE  OnTick(state, tick) \in LiveState
<1>1. CASE tick \in QuoteTick
  <2>1. IsQuote(tick) /\ [time |-> tick.time, bid |-> tick.bid, ask |-> tick.ask] \in QuoteCarried
    BY <1>1 DEF IsQuote, QuoteTick, QuoteCarried
  <2>2. OnQuote(state, tick) \in LiveState
    BY <2>1 DEF OnQuote, LiveState
  <2>3. OnTick(state, tick) = state \/ OnTick(state, tick) = OnQuote(state, tick)
    BY <2>1 DEF OnTick
  <2>4. QED
    BY <2>2, <2>3
<1>2. CASE tick \in TradeTick
  <2>1. ~IsQuote(tick) /\ tick.price \in Int
    BY <1>2 DEF IsQuote, TradeTick
  <2> DEFINE found == Side(tick.price, state.quote, FreshLive(state.quote, tick.time), state.carry)
  <2>2. state.carry \in Carries /\ state.sides \in Seq(SideFound) /\ state.quote \in QuoteCarried
    BY DEF LiveState
  <2>3. found \in SideFound
    BY <2>1, <2>2, SideType
  <2>4. Carried(state.carry, tick.price, found.side) \in Carries
    <3>1. found.side \in TradeSide
      BY <2>3 DEF SideFound
    <3>2. QED
      BY <2>1, <2>2, <3>1, CarriedType
  <2>5. OnTrade(state, tick) =
            IF ~Printed(tick) THEN state
            ELSE [quote |-> state.quote, carry |-> Carried(state.carry, tick.price, found.side),
                  sides |-> Append(state.sides, found)]
    BY DEF OnTrade
  <2> HIDE DEF found
  <2>6. Append(state.sides, found) \in Seq(SideFound)
    BY <2>2, <2>3
  <2>7. OnTrade(state, tick) \in LiveState
    BY <2>2, <2>4, <2>5, <2>6 DEF LiveState
  <2>8. OnTick(state, tick) = state \/ OnTick(state, tick) = OnTrade(state, tick)
    BY <2>1 DEF OnTick
  <2>9. QED
    BY <2>7, <2>8
<1>3. QED
  BY <1>1, <1>2

LEMMA LiveStartType == LiveStart \in LiveState
<1>1. NoQuote \in QuoteCarried /\ Carry \in Carries
  BY DEF NoQuote, QuoteCarried, Carry, Carries, NoPrice, TradeSide
<1>2. <<>> \in Seq(SideFound)
  OBVIOUS
<1>3. QED
  BY <1>1, <1>2 DEF LiveStart, LiveState

\* The quote test finds the side when the quote is fresh and the price tells.
ByQuote(found, price, q, fresh) ==
    /\ found.method = "quote test" <=> fresh /\ QuoteSide(price, q) # Unknown
    /\ found.method = "quote test" => found.side = QuoteSide(price, q)

LEMMA SideByQuote ==
    ASSUME NEW price, NEW q, NEW fresh \in BOOLEAN, NEW carry
    PROVE  ByQuote(Side(price, q, fresh, carry), price, q, fresh)
BY DEF ByQuote, Side, Unknown

\* The quote a classifier sees: the latest of these, if there is one.
Shown(tick) == [time |-> tick.time, bid |-> tick.bid, ask |-> tick.ask]
Sees(q, S) ==
    /\ S = {} => q = NoQuote
    /\ S # {} => \E m \in S : q = Shown(tape[m]) /\ \A j \in S : j <= m

HeardQuotes(n) == {m \in Ticks("quotes") : m <= n /\ HeardQuote(tape[m])}
HeardTicks == {n \in DOMAIN tape : HeardTrade(tape[n])}

LiveTested(n, found) ==
    \E q : /\ Sees(q, HeardQuotes(n))
           /\ ByQuote(found, tape[n].price, q, FreshLive(q, tape[n].time))

\* What the live tracker holds after n ticks: the latest quote heard, and a side
\* for each of the trades so far.
LiveAfter(state, n) ==
    /\ Sees(state.quote, HeardQuotes(n))
    /\ \A l \in DOMAIN LiveTrades : LiveTrades[l] <= n <=> l <= Len(state.sides)
    /\ \A l \in 1 .. Len(state.sides) : l \in DOMAIN LiveTrades /\ LiveTested(LiveTrades[l], state.sides[l])

LEMMA LiveTradesAre ==
    ASSUME TapeOrdered
    PROVE  /\ LiveTrades \in Seq(HeardTicks)
           /\ \A n \in HeardTicks : \E l \in DOMAIN LiveTrades : LiveTrades[l] = n
           /\ \A l \in DOMAIN LiveTrades :
                  l \in Nat /\ LiveTrades[l] \in HeardTicks /\ LiveTrades[l] \in Int
           /\ \A i, j \in DOMAIN LiveTrades : i < j => LiveTrades[i] < LiveTrades[j]
<1>1. HeardTicks \in SUBSET DOMAIN tape
  BY DEF HeardTicks
<1>2. HeardTicks \subseteq Int /\ IsFiniteSet(HeardTicks)
  BY <1>1, TicksInOrder
<1>3. LiveTrades = InOrder(HeardTicks)
  BY DEF LiveTrades, HeardTicks
<1>4. /\ LiveTrades \in Seq(HeardTicks) /\ ToSet(LiveTrades) = HeardTicks
      /\ \A i, j \in DOMAIN LiveTrades : i < j => LiveTrades[i] < LiveTrades[j]
  BY <1>2, <1>3, InOrderAscends
<1>5. \A n \in HeardTicks : \E l \in DOMAIN LiveTrades : LiveTrades[l] = n
  BY <1>4 DEF ToSet
<1>6. \A l \in DOMAIN LiveTrades :
          l \in Nat /\ LiveTrades[l] \in HeardTicks /\ LiveTrades[l] \in Int
  <2>1. \A l \in DOMAIN LiveTrades : l \in Nat /\ LiveTrades[l] \in HeardTicks
    BY <1>4
  <2>2. QED
    BY <1>2, <2>1
<1>7. QED
  BY <1>4, <1>5, <1>6

\* A trade that either side keeps.
LEMMA TradesAre ==
    /\ \A n \in KeptTicks("trades") : n \in DOMAIN tape /\ IsTrade(tape[n]) /\ Printed(tape[n])
    /\ \A n \in HeardTicks : n \in DOMAIN tape /\ IsTrade(tape[n]) /\ Printed(tape[n])
BY DEF KeptTicks, Ticks, Kept, IsTrade, IsQuote, HeardTicks, HeardTrade

\* The ticks of a tape.
TapeTyped ==
    /\ Len(tape) \in Nat /\ DOMAIN tape = 1 .. Len(tape)
    /\ \A n \in DOMAIN tape : tape[n] \in TradeTick \cup QuoteTick

LEMMA TapesAreTyped == tape \in Tapes => TapeTyped
<1> SUFFICES ASSUME tape \in Tapes PROVE TapeTyped
  OBVIOUS
<1>1. PICK n \in 0 .. TapeLength : tape \in [1 .. n -> Tick]
  BY DEF Tapes
<1>2. DOMAIN tape = 1 .. n /\ n \in Nat /\ Len(tape) = n
  BY <1>1, SpanAssumption
<1>3. \A k \in DOMAIN tape : tape[k] \in Tick
  BY <1>1
<1>4. QED
  BY <1>2, <1>3, TickAssumption DEF TapeTyped

\* One tick more that is not a quote heard, or that is one.
LEMMA SeesOn ==
    ASSUME TapeOrdered, NEW n \in DOMAIN tape, NEW q, Sees(q, HeardQuotes(n - 1))
    PROVE  /\ ~HeardQuote(tape[n]) => Sees(q, HeardQuotes(n))
           /\ HeardQuote(tape[n]) => Sees(Shown(tape[n]), HeardQuotes(n))
<1>1. n \in Int /\ \A m \in Ticks("quotes") : m \in Int /\ m \in DOMAIN tape /\ IsQuote(tape[m])
  BY DEF TapeOrdered, Ticks
<1>2. CASE ~HeardQuote(tape[n])
  <2>1. HeardQuotes(n) = HeardQuotes(n - 1)
    BY <1>1, <1>2 DEF HeardQuotes
  <2>2. QED
    BY <1>2, <2>1
<1>3. CASE HeardQuote(tape[n])
  <2>1. n \in HeardQuotes(n) /\ \A j \in HeardQuotes(n) : j <= n
    BY <1>1, <1>3 DEF HeardQuotes, HeardQuote, Ticks
  <2>2. QED
    BY <1>3, <2>1 DEF Sees
<1>4. QED
  BY <1>2, <1>3

\* One tick more.
LEMMA LiveAfterQuote ==
    ASSUME TapeOrdered, NEW n \in DOMAIN tape, IsQuote(tape[n]),
           NEW state \in LiveState, LiveAfter(state, n - 1)
    PROVE  LiveAfter(OnTick(state, tape[n]), n)
<1> DEFINE next == OnTick(state, tape[n])
<1>1. next.sides = state.sides /\ Sees(next.quote, HeardQuotes(n))
  <2>1. CASE HeardQuote(tape[n])
    <3>1. next = [state EXCEPT !.quote = Shown(tape[n])]
      BY <2>1 DEF OnTick, OnQuote, Shown, HeardQuote
    <3>2. next.sides = state.sides /\ next.quote = Shown(tape[n])
      BY <3>1 DEF LiveState
    <3>3. QED
      BY <2>1, <3>2, SeesOn DEF LiveAfter
  <2>2. CASE ~HeardQuote(tape[n])
    <3>1. next = state
      BY <2>2 DEF OnTick, OnQuote, HeardQuote
    <3>2. QED
      BY <2>2, <3>1, SeesOn DEF LiveAfter
  <2>3. QED
    BY <2>1, <2>2
<1>2. n \in Int
  BY DEF TapeOrdered
<1>3. \A l \in DOMAIN LiveTrades : LiveTrades[l] # n /\ LiveTrades[l] \in Int
  BY LiveTradesAre, TradesAre DEF IsQuote, IsTrade
<1>4. \A l \in DOMAIN LiveTrades : LiveTrades[l] <= n <=> LiveTrades[l] <= n - 1
  BY <1>2, <1>3
<1> HIDE DEF next
<1>5. QED
  BY <1>1, <1>4 DEF LiveAfter, next

LEMMA LiveAfterTrade ==
    ASSUME TapeOrdered, TapeTyped, NEW n \in DOMAIN tape, IsTrade(tape[n]),
           NEW state \in LiveState, LiveAfter(state, n - 1)
    PROVE  LiveAfter(OnTick(state, tape[n]), n)
<1> DEFINE next == OnTick(state, tape[n])
           t == tape[n]
           fresh == FreshLive(state.quote, t.time)
           found == Side(t.price, state.quote, fresh, state.carry)
           p == Len(state.sides)
<1>1. ~IsQuote(t)
  BY DEF IsQuote, IsTrade
<1>2. Sees(state.quote, HeardQuotes(n))
  BY <1>1, SeesOn DEF LiveAfter, HeardQuote
<1>3. n \in Int /\ p \in Nat /\ state.sides \in Seq(SideFound)
  BY DEF TapeOrdered, LiveState
<1>4. CASE ~HeardTrade(t)
  <2>1. next = state
    BY <1>1, <1>4 DEF OnTick, OnTrade, HeardTrade
  <2>2. \A l \in DOMAIN LiveTrades : LiveTrades[l] # n /\ LiveTrades[l] \in Int
    BY <1>4, LiveTradesAre DEF HeardTicks
  <2>3. \A l \in DOMAIN LiveTrades : LiveTrades[l] <= n <=> LiveTrades[l] <= n - 1
    BY <1>3, <2>2
  <2> HIDE DEF next
  <2>4. QED
    BY <1>2, <2>1, <2>3 DEF LiveAfter, next
<1>5. CASE HeardTrade(t)
  <2>1. next.quote = state.quote /\ next.sides = Append(state.sides, found)
    BY <1>1, <1>5 DEF OnTick, OnTrade, HeardTrade
  <2>2. PICK m \in DOMAIN LiveTrades : LiveTrades[m] = n
    BY <1>5, LiveTradesAre DEF HeardTicks
  <2>3. /\ \A l \in DOMAIN LiveTrades : l \in Nat /\ LiveTrades[l] \in Int
        /\ \A i, j \in DOMAIN LiveTrades : i < j => LiveTrades[i] < LiveTrades[j]
        /\ DOMAIN LiveTrades = 1 .. Len(LiveTrades) /\ Len(LiveTrades) \in Nat
    BY LiveTradesAre
  <2>4. \A l \in DOMAIN LiveTrades : LiveTrades[l] <= n - 1 <=> l <= p
    BY DEF LiveAfter
  <2>5. m > p
    BY <1>3, <2>2, <2>3, <2>4
  <2>6. m = p + 1
    <3>1. SUFFICES ASSUME p + 1 < m PROVE FALSE
      BY <1>3, <2>3, <2>5
    <3>2. p + 1 \in DOMAIN LiveTrades
      BY <1>3, <2>3, <3>1
    <3>3. LiveTrades[p + 1] < n /\ LiveTrades[p + 1] \in Int
      BY <2>2, <2>3, <3>1, <3>2
    <3>4. p + 1 <= p
      BY <1>3, <2>4, <3>2, <3>3
    <3>5. QED
      BY <1>3, <3>4
  <2>7. \A l \in DOMAIN LiveTrades : LiveTrades[l] <= n <=> l <= p + 1
    <3>1. \A l \in DOMAIN LiveTrades : l = m \/ l < m \/ m < l
      BY <2>3
    <3>2. \A l \in DOMAIN LiveTrades : (l < m => LiveTrades[l] < n) /\ (m < l => n < LiveTrades[l])
      BY <2>2, <2>3
    <3>3. QED
      BY <1>3, <2>2, <2>3, <2>6, <3>1, <3>2
  <2>8. fresh \in BOOLEAN
    BY DEF FreshLive
  <2>9. LiveTested(n, found)
    <3>1. ByQuote(found, t.price, state.quote, fresh)
      BY <2>8, SideByQuote
    <3>2. QED
      BY <1>2, <3>1, Zenon DEF LiveTested
  <2> HIDE DEF found, next
  <2>10. /\ Len(next.sides) = p + 1 /\ next.sides[p + 1] = found
         /\ \A l \in 1 .. p : next.sides[l] = state.sides[l]
    <3>1. found \in SideFound
      <4>1. t.price \in Int
        BY DEF TapeTyped, IsTrade, TradeTick, QuoteTick
      <4>2. QED
        BY <4>1, SideType DEF found, LiveState
    <3>2. QED
      BY <1>3, <2>1, <3>1
  <2>11. ASSUME NEW l \in 1 .. Len(next.sides)
         PROVE  l \in DOMAIN LiveTrades /\ LiveTested(LiveTrades[l], next.sides[l])
    <3>1. CASE l = p + 1
      BY <2>2, <2>6, <2>9, <2>10, <3>1
    <3>2. CASE l # p + 1
      <4>1. l \in 1 .. p
        BY <1>3, <2>10, <3>2
      <4>2. QED
        BY <2>10, <4>1 DEF LiveAfter
    <3>3. QED
      BY <3>1, <3>2
  <2>12. QED
    BY <1>2, <2>1, <2>7, <2>10, <2>11 DEF LiveAfter, next
<1>6. QED
  BY <1>4, <1>5

\* The live tracker finds a side for each of its trades, by the quotes before it.
LiveFound ==
    /\ Live(tape) \in Seq(SideFound) /\ DOMAIN Live(tape) = DOMAIN LiveTrades
    /\ \A l \in DOMAIN LiveTrades : LiveTested(LiveTrades[l], Live(tape)[l])

LEMMA LiveFinds == tape \in Tapes => LiveFound
<1> SUFFICES ASSUME tape \in Tapes PROVE LiveFound
  OBVIOUS
<1> DEFINE T == Len(tape)
<1>1. TapeOrdered /\ TapeTyped
  BY TapesAreOrdered, TapesAreTyped
<1>2. T \in Nat /\ DOMAIN tape = 1 .. T /\ \A n \in 1 .. T : tape[n] \in TradeTick \cup QuoteTick
  BY <1>1 DEF TapeTyped
<1>3. \A x \in LiveState : \A n \in 1 .. T : OnTick(x, tape[n]) \in LiveState
  BY <1>2, OnTickType
<1>4. PICK f \in [0 .. T -> LiveState] : Tracks(f, tape)
  BY <1>2, <1>3, LiveStartType, LiveBy
<1> DEFINE S == {n \in 0 .. T : LiveAfter(f[n], n)}
<1>5. 0 \in S
  <2>1. f[0] = LiveStart
    BY <1>4 DEF Tracks
  <2>2. HeardQuotes(0) = {}
    BY <1>2 DEF HeardQuotes, Ticks
  <2>3. \A l \in DOMAIN LiveTrades : ~(LiveTrades[l] <= 0) /\ ~(l <= 0)
    <3>1. \A l \in DOMAIN LiveTrades : LiveTrades[l] \in 1 .. T
      BY <1>1, <1>2, LiveTradesAre DEF HeardTicks
    <3>2. DOMAIN LiveTrades = 1 .. Len(LiveTrades)
      BY <1>1, LiveTradesAre
    <3>3. QED
      BY <3>1, <3>2
  <2>4. f[0].quote = NoQuote /\ Len(f[0].sides) = 0
    BY <2>1 DEF LiveStart
  <2>5. LiveAfter(f[0], 0)
    BY <2>2, <2>3, <2>4 DEF LiveAfter, Sees
  <2>6. QED
    BY <1>2, <2>5
<1>6. ASSUME NEW n \in 1 .. T, n - 1 \in S PROVE n \in S
  <2>1. f[n - 1] \in LiveState /\ LiveAfter(f[n - 1], n - 1)
    BY <1>4, <1>6
  <2>2. f[n] = OnTick(f[n - 1], tape[n])
    BY <1>4 DEF Tracks
  <2>3. n \in DOMAIN tape /\ (IsTrade(tape[n]) \/ IsQuote(tape[n]))
    BY <1>2 DEF IsTrade, IsQuote, TradeTick, QuoteTick
  <2>4. LiveAfter(f[n], n)
    BY <1>1, <2>1, <2>2, <2>3, LiveAfterQuote, LiveAfterTrade
  <2>5. QED
    BY <2>4
<1> HIDE DEF S
<1>7. T \in S
  <2>1. \A n \in 1 .. T : n - 1 \in S => n \in S
    BY <1>6
  <2>2. \A n \in 0 .. T : n \in S
    BY <1>2, <1>5, <2>1, Inductively, Zenon
  <2>3. QED
    BY <1>2, <2>2
<1>8. LiveAfter(f[T], T) /\ Live(tape) = f[T].sides /\ f[T] \in LiveState
  BY <1>2, <1>4, <1>7 DEF S, Tracks
<1>9. Live(tape) \in Seq(SideFound)
  BY <1>8 DEF LiveState
<1>10. DOMAIN Live(tape) = DOMAIN LiveTrades
  <2>1. \A l \in DOMAIN LiveTrades : LiveTrades[l] <= T /\ l \in Nat /\ l >= 1
    <3>1. \A l \in DOMAIN LiveTrades : LiveTrades[l] \in 1 .. T
      BY <1>1, <1>2, LiveTradesAre DEF HeardTicks
    <3>2. DOMAIN LiveTrades = 1 .. Len(LiveTrades)
      BY <1>1, LiveTradesAre
    <3>3. QED
      BY <3>1, <3>2
  <2>2. DOMAIN Live(tape) = 1 .. Len(Live(tape)) /\ Len(Live(tape)) \in Nat
    BY <1>9
  <2>3. \A l \in DOMAIN LiveTrades : l <= Len(Live(tape))
    BY <1>8, <2>1 DEF LiveAfter
  <2>4. \A l \in 1 .. Len(Live(tape)) : l \in DOMAIN LiveTrades
    BY <1>8 DEF LiveAfter
  <2>5. QED
    BY <2>1, <2>2, <2>3, <2>4
<1>11. \A l \in DOMAIN Live(tape) : LiveTested(LiveTrades[l], Live(tape)[l])
  BY <1>8, <1>9 DEF LiveAfter
<1>12. QED
  BY <1>9, <1>10, <1>11 DEF LiveFound

\* So does the historical classifier, by the latest quote of its trade's second.
Classified(trades, quotes) ==
    /\ Classify(trades, quotes) \in Seq(SideFound)
    /\ DOMAIN Classify(trades, quotes) = DOMAIN trades
    /\ \A k \in DOMAIN trades :
           LET q == QuoteFor(quotes, trades[k].time)
           IN ByQuote(Classify(trades, quotes)[k], trades[k].price, q,
                      FreshHistorical(q, trades[k].time))

ClassifiedUpTo(state, trades, quotes, n) ==
    /\ Len(state.sides) = n
    /\ \A k \in 1 .. n :
           LET q == QuoteFor(quotes, trades[k].time)
           IN ByQuote(state.sides[k], trades[k].price, q, FreshHistorical(q, trades[k].time))

LEMMA WithTradeType ==
    ASSUME NEW state \in ClassifyState, NEW t, t.price \in Int, NEW q
    PROVE  WithTrade(state, t, q) \in ClassifyState
<1> DEFINE found == Side(t.price, q, FreshHistorical(q, t.time), state.carry)
<1>1. state.carry \in Carries /\ state.sides \in Seq(SideFound)
  BY DEF ClassifyState
<1>2. found \in SideFound
  BY <1>1, SideType
<1>3. Carried(state.carry, t.price, found.side) \in Carries
  <2>1. found.side \in TradeSide
    BY <1>2 DEF SideFound
  <2>2. QED
    BY <1>1, <2>1, CarriedType
<1>4. WithTrade(state, t, q) =
          [carry |-> Carried(state.carry, t.price, found.side), sides |-> Append(state.sides, found)]
  BY DEF WithTrade
<1> HIDE DEF found
<1>5. Append(state.sides, found) \in Seq(SideFound)
  BY <1>1, <1>2
<1>6. QED
  BY <1>3, <1>4, <1>5 DEF ClassifyState

LEMMA ClassifyFinds ==
    ASSUME NEW trades, Len(trades) \in Nat, DOMAIN trades = 1 .. Len(trades),
           \A k \in DOMAIN trades : trades[k].price \in Int, NEW quotes
    PROVE  Classified(trades, quotes)
<1> DEFINE T == Len(trades)
<1>1. ClassifyStart \in ClassifyState
  <2>1. LiveStart \in LiveState
    BY LiveStartType
  <2>2. QED
    BY <2>1 DEF LiveStart, LiveState, ClassifyStart, ClassifyState
<1>2. \A x \in ClassifyState : \A k \in 1 .. T :
          WithTrade(x, trades[k], QuoteFor(quotes, trades[k].time)) \in ClassifyState
  BY WithTradeType
<1>3. PICK f \in [0 .. T -> ClassifyState] : Classifies(f, trades, quotes)
  BY <1>1, <1>2, ClassifyBy
<1> DEFINE S == {n \in 0 .. T : ClassifiedUpTo(f[n], trades, quotes, n)}
<1>4. 0 \in S
  <2>1. Len(f[0].sides) = 0
    BY <1>3 DEF Classifies, ClassifyStart
  <2>2. QED
    BY <2>1 DEF ClassifiedUpTo
<1>5. ASSUME NEW n \in 1 .. T, n - 1 \in S PROVE n \in S
  <2> DEFINE t == trades[n]
             q == QuoteFor(quotes, t.time)
             before == f[n - 1]
             found == Side(t.price, q, FreshHistorical(q, t.time), before.carry)
  <2>1. before \in ClassifyState /\ ClassifiedUpTo(before, trades, quotes, n - 1)
    BY <1>3, <1>5
  <2>2. f[n] = WithTrade(before, t, q)
    BY <1>3 DEF Classifies
  <2>3. f[n].sides = Append(before.sides, found)
    BY <2>2 DEF WithTrade
  <2>4. ByQuote(found, t.price, q, FreshHistorical(q, t.time))
    <3>1. FreshHistorical(q, t.time) \in BOOLEAN
      BY DEF FreshHistorical
    <3>2. QED
      BY <3>1, SideByQuote
  <2>5. found \in SideFound /\ before.sides \in Seq(SideFound)
    BY <2>1, SideType DEF ClassifyState
  <2> HIDE DEF found, before
  <2>6. Len(before.sides) = n - 1
    BY <2>1 DEF ClassifiedUpTo
  <2>7. /\ Len(f[n].sides) = n /\ f[n].sides[n] = found
        /\ \A k \in 1 .. n - 1 : f[n].sides[k] = before.sides[k]
    BY <2>3, <2>5, <2>6
  <2>8. ASSUME NEW k \in 1 .. n
        PROVE  ByQuote(f[n].sides[k], trades[k].price, QuoteFor(quotes, trades[k].time),
                       FreshHistorical(QuoteFor(quotes, trades[k].time), trades[k].time))
    <3>1. CASE k = n
      BY <2>4, <2>7, <3>1
    <3>2. CASE k # n
      <4>1. k \in 1 .. n - 1
        BY <3>2
      <4>2. QED
        BY <2>1, <2>7, <4>1 DEF ClassifiedUpTo
    <3>3. QED
      BY <3>1, <3>2
  <2>9. ClassifiedUpTo(f[n], trades, quotes, n)
    BY <2>7, <2>8 DEF ClassifiedUpTo
  <2>10. QED
    BY <2>9
<1> HIDE DEF S
<1>6. T \in S
  <2>1. \A n \in 1 .. T : n - 1 \in S => n \in S
    BY <1>5
  <2>2. \A n \in 0 .. T : n \in S
    BY <1>4, <2>1, Inductively, Zenon
  <2>3. QED
    BY <2>2
<1>7. ClassifiedUpTo(f[T], trades, quotes, T) /\ Classify(trades, quotes) = f[T].sides
  BY <1>3, <1>6 DEF S, Classifies
<1>8. Classify(trades, quotes) \in Seq(SideFound)
  BY <1>3, <1>7 DEF ClassifyState
<1>9. DOMAIN Classify(trades, quotes) = DOMAIN trades
  BY <1>7, <1>8 DEF ClassifiedUpTo
<1>10. QED
  BY <1>7, <1>8, <1>9 DEF ClassifiedUpTo, Classified

-----------------------------------------------------------------------------
(* The historical sides are the live ones.                                 *)

\* All the ticks of a set from some second on, in the order of the tape.
Onwards(H, ticks, e) ==
    /\ \A k \in DOMAIN ticks : k \in Nat /\ k >= 1 /\ ticks[k] \in H
    /\ \A n \in H : tape[n].time >= e => \E k \in DOMAIN ticks : ticks[k] = n
    /\ \A k \in DOMAIN ticks : tape[ticks[k]].time >= e
    /\ \A i, j \in DOMAIN ticks : i < j => ticks[i] < ticks[j]
    /\ \A i, j \in DOMAIN ticks : i <= j => ticks[i] <= ticks[j]
    /\ IsFiniteSet(DOMAIN ticks)

LEMMA GoodTicks ==
    ASSUME TapeOrdered, NEW s, NEW ticks, Good(s, ticks), ticks # <<>>
    PROVE  \E e \in 1 .. TargetStart : Onwards(KeptTicks(s), ticks, e)
<1>1. ticks \in Seq(KeptTicks(s))
  BY DEF Good
<1>2. DOMAIN ticks = 1 .. Len(ticks) /\ Len(ticks) \in Nat
  BY <1>1
<1>3. \A k \in DOMAIN ticks : k \in Nat /\ k >= 1 /\ ticks[k] \in KeptTicks(s)
  BY <1>1, <1>2
<1>4. PICK e \in 1 .. TargetStart : ToSet(ticks) = {n \in KeptTicks(s) : tape[n].time >= e}
  BY DEF Good, Covers
<1>5. \A n \in KeptTicks(s) : tape[n].time >= e => \E k \in DOMAIN ticks : ticks[k] = n
  BY <1>4 DEF ToSet
<1>6. \A k \in DOMAIN ticks : tape[ticks[k]].time >= e
  BY <1>4 DEF ToSet
<1>7. \A k \in DOMAIN ticks : ticks[k] \in Int
  BY <1>3, KeptAreTicks
<1>8. \A i, j \in DOMAIN ticks : i <= j => ticks[i] <= ticks[j]
  <2>1. ASSUME NEW i \in DOMAIN ticks, NEW j \in DOMAIN ticks, i <= j PROVE ticks[i] <= ticks[j]
    <3>1. i = j \/ i < j
      BY <1>3, <2>1
    <3>2. i < j => ticks[i] < ticks[j]
      BY DEF Good
    <3>3. QED
      BY <1>7, <3>1, <3>2
  <2>2. QED
    BY <2>1
<1>9. IsFiniteSet(DOMAIN ticks)
  BY <1>2, FS_Interval
<1>10. \A i, j \in DOMAIN ticks : i < j => ticks[i] < ticks[j]
  BY DEF Good
<1>11. Onwards(KeptTicks(s), ticks, e)
  BY <1>3, <1>5, <1>6, <1>8, <1>9, <1>10 DEF Onwards
<1>12. QED
  BY <1>11

\* Both see the same quote, or both see none that is fresh.
LEMMA QuotesCompare ==
    ASSUME TapeOrdered, TapeTyped, NEW quotes, Good("quotes", quotes), quotes # <<>>,
           NEW n \in Ticks("trades"), Comparable(n),
           NEW q, Sees(q, HeardQuotes(n)),
           NEW r, r = QuoteFor(TicksAt(quotes), tape[n].time)
    PROVE  /\ FreshLive(q, tape[n].time) <=> FreshHistorical(r, tape[n].time)
           /\ FreshLive(q, tape[n].time) => q = r
<1> DEFINE time == tape[n].time
           usable == {j \in DOMAIN TicksAt(quotes) : TicksAt(quotes)[j].time <= time}
           S == HeardQuotes(n)
<1>1. PICK e \in 1 .. TargetStart :
          /\ \A k \in DOMAIN quotes : k \in Nat /\ k >= 1 /\ quotes[k] \in KeptTicks("quotes")
          /\ \A m \in KeptTicks("quotes") : tape[m].time >= e => \E k \in DOMAIN quotes : quotes[k] = m
          /\ \A k \in DOMAIN quotes : tape[quotes[k]].time >= e
          /\ \A i, j \in DOMAIN quotes : i <= j => quotes[i] <= quotes[j]
          /\ IsFiniteSet(DOMAIN quotes)
  BY GoodTicks DEF Onwards
<1>2. TargetStart \in Int /\ e \in Int /\ e <= TargetStart /\ MaximumQuoteAge \in Nat
  BY SpanAssumption, AgeAssumption DEF TargetStart
<1>3. KeptTicks("quotes") = Ticks("quotes")
  BY DEF KeptTicks, Ticks, Kept
<1>4. \A m \in Ticks("quotes") :
          m \in Int /\ m \in DOMAIN tape /\ tape[m].time \in 1 .. End /\ IsQuote(tape[m])
  BY KeptAreTicks DEF Ticks
<1>5. n \in DOMAIN tape /\ n \in Int /\ time \in Int /\ IsTrade(tape[n])
  BY KeptAreTicks DEF Ticks
<1>6. /\ time - MaximumQuoteAge >= TargetStart
      /\ \A m \in Ticks("quotes") : (tape[m].time = time => m < n) /\ HeardQuote(tape[m]) /\ QuoteOrdered(tape[m])
  BY DEF Comparable, HeardQuote
<1>7. \A j, k \in DOMAIN tape : j <= k => tape[j].time <= tape[k].time
  BY DEF TapeOrdered
<1>8. \A j : j \in usable <=> j \in DOMAIN quotes /\ tape[quotes[j]].time <= time
  BY DEF TicksAt
<1>9. \A m : m \in S <=> m \in Ticks("quotes") /\ m <= n
  BY <1>6 DEF HeardQuotes
<1>10. r = IF usable = {} THEN NoQuote ELSE Shown(TicksAt(quotes)[Latest(usable)])
  BY DEF QuoteFor, Latest, Shown
<1>11. \A j \in usable : TicksAt(quotes)[j] = tape[quotes[j]]
  BY <1>8 DEF TicksAt
<1> HIDE DEF S, usable, time
<1>12. CASE usable = {}
  <2>1. ~FreshHistorical(r, time)
    BY <1>10, <1>12 DEF FreshHistorical
  <2>2. ASSUME FreshLive(q, time) PROVE FALSE
    <3>1. S # {}
      BY <2>2 DEF Sees, FreshLive, S
    <3>2. PICK m \in S : q = Shown(tape[m])
      BY <3>1 DEF Sees, S
    <3>3. m \in Ticks("quotes") /\ m <= n /\ q.time = tape[m].time
      BY <1>9, <3>2 DEF Shown
    <3>4. tape[m].time <= time
      BY <1>4, <1>5, <1>7, <3>3 DEF time
    <3>5. ~(tape[m].time >= e)
      BY <1>1, <1>3, <1>8, <1>12, <3>3, <3>4
    <3>6. time - tape[m].time <= MaximumQuoteAge
      BY <2>2, <3>3 DEF FreshLive
    <3>7. QED
      BY <1>2, <1>4, <1>5, <1>6, <3>3, <3>5, <3>6
  <2>3. QED
    BY <2>1, <2>2 DEF time
<1>13. CASE usable # {}
  <2> DEFINE l == Latest(usable)
             b == quotes[l]
  <2>1. usable \in SUBSET Int /\ IsFiniteSet(usable)
    <3>1. usable \in SUBSET DOMAIN quotes
      BY <1>8
    <3>2. IsFiniteSet(usable)
      BY <1>1, <3>1, FS_Subset, Zenon
    <3>3. QED
      BY <1>1, <3>1, <3>2
  <2>2. l \in usable /\ \A j \in usable : j <= l
    BY <1>13, <2>1, LatestIs
  <2>3. l \in DOMAIN quotes /\ tape[b].time <= time /\ b \in Ticks("quotes") /\ r = Shown(tape[b])
    BY <1>1, <1>3, <1>8, <1>10, <1>11, <1>13, <2>2
  <2> HIDE DEF l
  <2>4. b <= n
    <3>1. SUFFICES ASSUME n < b PROVE FALSE
      BY <1>4, <1>5, <2>3
    <3>2. time <= tape[b].time
      BY <1>4, <1>5, <1>7, <2>3, <3>1 DEF time
    <3>3. tape[b].time = time
      BY <1>4, <1>5, <2>3, <3>2
    <3>4. QED
      BY <1>4, <1>5, <1>6, <2>3, <3>1, <3>3
  <2>5. b \in S
    BY <1>9, <2>3, <2>4
  <2>6. PICK m \in S : q = Shown(tape[m]) /\ \A j \in S : j <= m
    BY <2>5 DEF Sees, S
  <2>7. m \in Ticks("quotes") /\ m <= n /\ b <= m
    BY <1>9, <2>5, <2>6
  <2>8. tape[b].time <= tape[m].time /\ tape[m].time <= time
    BY <1>4, <1>5, <1>7, <2>3, <2>7 DEF time
  <2>9. PICK k \in DOMAIN quotes : quotes[k] = m
    <3>1. tape[m].time >= e
      BY <1>1, <1>2, <1>4, <2>3, <2>7, <2>8
    <3>2. QED
      BY <1>1, <1>3, <2>7, <3>1
  <2>10. k <= l
    BY <1>8, <2>2, <2>8, <2>9
  <2>11. m <= b
    BY <1>1, <2>3, <2>9, <2>10
  <2>12. m = b
    BY <1>4, <2>3, <2>7, <2>11
  <2>13. q = r /\ q = Shown(tape[b])
    BY <2>3, <2>6, <2>12
  <2>14. q.time = tape[b].time /\ q.time <= time /\ q.time # -1 /\ QuoteOrdered(q)
    BY <1>4, <1>6, <2>3, <2>13 DEF Shown, QuoteOrdered
  <2>15. q # NoQuote
    BY <2>14 DEF NoQuote
  <2>16. FreshLive(q, time) <=> FreshHistorical(q, time)
    BY <1>4, <1>5, <2>3, <2>14, <2>15 DEF FreshLive, FreshHistorical
  <2>17. QED
    BY <2>13, <2>16 DEF time
<1>14. QED
  BY <1>12, <1>13

\* A trade with its quotes before it has the same side by the quote test, or in
\* neither of them one.
LEMMA SameSides ==
    ASSUME tape \in Tapes, Good("trades", evidence["trades"]),
           Good("quotes", evidence["quotes"]), evidence["quotes"] # <<>>
    PROVE  SidesAgree /\ DOMAIN Sides = DOMAIN evidence["trades"]
<1> DEFINE trades == evidence["trades"]
           quotes == evidence["quotes"]
           ticks == TicksAt(trades)
<1>1. TapeOrdered /\ TapeTyped /\ LiveFound
  BY TapesAreOrdered, TapesAreTyped, LiveFinds
<1>2. trades \in Seq(KeptTicks("trades"))
  BY DEF Good
<1>3. \A k \in DOMAIN trades : trades[k] \in KeptTicks("trades")
  BY <1>2
<1>4. \A k \in DOMAIN trades : ticks[k] = tape[trades[k]]
  BY DEF TicksAt
<1>5. Len(ticks) \in Nat /\ DOMAIN ticks = 1 .. Len(ticks) /\ DOMAIN ticks = DOMAIN trades
  <2>1. DOMAIN trades = 1 .. Len(trades) /\ Len(trades) \in Nat
    BY <1>2
  <2> HIDE DEF trades
  <2>2. ticks = [k \in 1 .. Len(trades) |-> tape[trades[k]]]
    BY <2>1 DEF TicksAt
  <2>3. QED
    BY <2>1, <2>2
<1>6. \A n \in KeptTicks("trades") : n \in DOMAIN tape /\ tape[n].price \in Int
  BY <1>1, TradesAre DEF TapeTyped, IsTrade, TradeTick, QuoteTick
<1>7. \A k \in DOMAIN ticks : ticks[k].price \in Int
  BY <1>3, <1>4, <1>5, <1>6
<1>8. Classified(ticks, TicksAt(quotes))
  <2> HIDE DEF ticks
  <2>1. QED
    BY <1>5, <1>7, ClassifyFinds
<1>9. Sides = Classify(ticks, TicksAt(quotes))
  BY DEF Sides
<1> HIDE DEF ticks
<1>10. DOMAIN Sides = DOMAIN trades
  BY <1>5, <1>8, <1>9 DEF Classified
<1>11. ASSUME NEW k \in DOMAIN trades, NEW l \in DOMAIN Live(tape),
              trades[k] = LiveTrades[l], Comparable(LiveTrades[l])
       PROVE  /\ Sides[k].method = "quote test" <=> Live(tape)[l].method = "quote test"
              /\ Sides[k].method = "quote test" => Sides[k].side = Live(tape)[l].side
  <2> DEFINE n == LiveTrades[l]
             t == tape[n]
             r == QuoteFor(TicksAt(quotes), t.time)
             mine == Sides[k]
             live == Live(tape)[l]
  <2>1. n \in Ticks("trades") /\ ticks[k] = t
    BY <1>3, <1>4, <1>11 DEF KeptTicks
  <2>2. ByQuote(mine, t.price, r, FreshHistorical(r, t.time))
    BY <1>5, <1>8, <1>9, <2>1 DEF Classified
  <2>3. PICK q : Sees(q, HeardQuotes(n)) /\ ByQuote(live, t.price, q, FreshLive(q, t.time))
    BY <1>1, <1>11 DEF LiveFound, LiveTested
  <2>4. /\ FreshLive(q, t.time) <=> FreshHistorical(r, t.time)
        /\ FreshLive(q, t.time) => q = r
    BY <1>1, <1>11, <2>1, <2>3, QuotesCompare
  <2> HIDE DEF mine, live, r, n
  <2>5. /\ mine.method = "quote test" <=> live.method = "quote test"
        /\ mine.method = "quote test" => mine.side = live.side
    BY <2>2, <2>3, <2>4, Zenon DEF ByQuote
  <2>6. QED
    BY <2>5 DEF mine, live
<1>12. QED
  BY <1>10, <1>11, Zenon DEF SidesAgree

\* A sequence gives, at some positions, the members of a set in their order.
Onto(f, K, W) ==
    /\ K \in SUBSET Int /\ IsFiniteSet(K) /\ W \in SUBSET Int
    /\ \A k \in K : f[k] \in W
    /\ \A x \in W : \E k \in K : f[k] = x
    /\ \A i, j \in K : i < j => f[i] < f[j]

LEMMA OntoInOrder ==
    ASSUME NEW f, NEW K, NEW W, Onto(f, K, W)
    PROVE  /\ Cardinality(K) \in Nat /\ Cardinality(W) = Cardinality(K)
           /\ \A j \in 1 .. Cardinality(K) :
                  InOrder(K)[j] \in K /\ InOrder(W)[j] = f[InOrder(K)[j]]
<1> DEFINE n == Cardinality(K)
           o == InOrder(K)
           g == [j \in 1 .. n |-> f[o[j]]]
<1>1. /\ n \in Nat /\ o \in [1 .. n -> K]
      /\ \A x \in K : \E j \in 1 .. n : o[j] = x
      /\ \A i, j \in 1 .. n : i < j => o[i] < o[j]
  <2>1. Placed(K)
    BY InOrderPlaces DEF Onto
  <2>2. QED
    BY <2>1 DEF Placed
<1> HIDE DEF n, o
<1>2. \A j \in 1 .. n : o[j] \in K
  BY <1>1
<1>3. g \in [1 .. n -> W]
  BY <1>2 DEF Onto
<1>4. \A x \in W : \E j \in 1 .. n : g[j] = x
  <2>1. SUFFICES ASSUME NEW x \in W PROVE \E j \in 1 .. n : g[j] = x
    OBVIOUS
  <2>2. PICK k \in K : f[k] = x
    BY DEF Onto
  <2>3. PICK j \in 1 .. n : o[j] = k
    BY <1>1
  <2>4. QED
    BY <2>2, <2>3
<1>5. \A i, j \in 1 .. n : i < j => g[i] < g[j]
  BY <1>1, <1>2 DEF Onto
<1>6. Cardinality(W) = n /\ InOrder(W) = g
  <2>1. W \subseteq Int /\ n \in Nat
    BY <1>1 DEF Onto
  <2> HIDE DEF g
  <2>2. QED
    BY <1>3, <1>4, <1>5, <2>1, AscendingIsInOrder, Zenon
<1>7. QED
  BY <1>1, <1>2, <1>6 DEF n, o

\* What two sequences have where they give the same set is the same, if they have
\* the same where they give the same member.
LEMMA SamePicks ==
    ASSUME NEW W, NEW f, NEW K, Onto(f, K, W), NEW g, NEW J, Onto(g, J, W),
           NEW s, NEW u, \A k \in K, j \in J : f[k] = g[j] => s[k] = u[j]
    PROVE  Picked(s, K) = Picked(u, J)
<1> DEFINE n == Cardinality(W)
<1>1. Cardinality(K) = n /\ Cardinality(J) = n
  BY OntoInOrder
<1>2. \A i \in 1 .. n : s[InOrder(K)[i]] = u[InOrder(J)[i]]
  <2>1. \A i \in 1 .. n : InOrder(K)[i] \in K /\ InOrder(W)[i] = f[InOrder(K)[i]]
    BY <1>1, OntoInOrder
  <2>2. \A i \in 1 .. n : InOrder(J)[i] \in J /\ InOrder(W)[i] = g[InOrder(J)[i]]
    BY <1>1, OntoInOrder
  <2> HIDE DEF n
  <2>3. QED
    BY <2>1, <2>2
<1> HIDE DEF n
<1>3. Picked(s, K) = [i \in 1 .. n |-> s[InOrder(K)[i]]]
  BY <1>1, PickedIs
<1>4. Picked(u, J) = [i \in 1 .. n |-> u[InOrder(J)[i]]]
  BY <1>1, PickedIs
<1>5. QED
  BY <1>2, <1>3, <1>4

\* The trades and the quotes of the short window, and these with the quote before.
LastOf(H) == {n \in H : tape[n].time > End - ShortWindow}
LastTrades == LastOf(KeptTicks("trades"))
LastQuotes == {n \in Ticks("quotes") : tape[n].time > End - ShortWindow}
LeadQuotes ==
    {n \in Ticks("quotes") :
        \/ tape[n].time > End - ShortWindow
        \/ \A m \in Ticks("quotes") : tape[m].time <= End - ShortWindow => m <= n}

\* The extra second of a live window has no ticks.
NoExtra(from) ==
    /\ from \in {End - ShortWindow, End - ShortWindow + 1}
    /\ \A n \in DOMAIN tape : tape[n].time # End - ShortWindow

\* Trades of the tape, with a price and a size.
Prints(H) == \A n \in H : n \in DOMAIN tape /\ IsTrade(tape[n]) /\ Printed(tape[n])

LEMMA WindowTrades ==
    ASSUME TapeOrdered, TapeTyped, NEW H, Prints(H),
           NEW e \in 1 .. TargetStart, NEW f, Onwards(H, f, e),
           NEW from, NoExtra(from), NEW sided, DOMAIN sided = DOMAIN f,
           \A k \in DOMAIN f : sided[k].time = tape[f[k]].time /\ sided[k].size = tape[f[k]].size,
           NEW K, K = {k \in DOMAIN sided : sided[k].time \in from .. End /\ sided[k].size > 0}
    PROVE  Onto(f, K, LastOf(H))
<1>1. /\ TargetStart \in Int /\ e \in Int /\ e <= TargetStart /\ TargetStart <= End - ShortWindow + 1
      /\ End \in Int /\ ShortWindow \in Int
  BY SpanAssumption DEF TargetStart
<1>2. \A n \in H :
          /\ n \in Int /\ n \in DOMAIN tape /\ tape[n].time \in 1 .. End
          /\ tape[n].size > 0
  BY DEF TapeOrdered, Prints, Printed
<1>3. \A n \in H : tape[n].time \in from .. End <=> tape[n].time > End - ShortWindow
  BY <1>1, <1>2 DEF NoExtra
<1>4. \A k \in DOMAIN f : f[k] \in H /\ k \in Int
  BY DEF Onwards
<1>5. \A k : k \in K <=> k \in DOMAIN f /\ tape[f[k]].time > End - ShortWindow
  BY <1>2, <1>3, <1>4
<1>6. K \in SUBSET Int /\ IsFiniteSet(K)
  <2>1. K \in SUBSET DOMAIN f
    BY <1>5
  <2>2. IsFiniteSet(DOMAIN f)
    BY DEF Onwards
  <2>3. IsFiniteSet(K)
    BY <2>1, <2>2, FS_Subset, Zenon
  <2>4. QED
    BY <1>4, <2>1, <2>3
<1>7. LastOf(H) \in SUBSET Int
  BY <1>2 DEF LastOf
<1>8. \A k \in K : f[k] \in LastOf(H)
  BY <1>4, <1>5 DEF LastOf
<1>9. \A n \in LastOf(H) : \E k \in K : f[k] = n
  <2>1. SUFFICES ASSUME NEW n \in LastOf(H) PROVE \E k \in K : f[k] = n
    OBVIOUS
  <2>2. n \in H /\ tape[n].time > End - ShortWindow
    BY DEF LastOf
  <2>3. tape[n].time >= e
    BY <1>1, <1>2, <2>2
  <2>4. PICK k \in DOMAIN f : f[k] = n
    BY <2>2, <2>3 DEF Onwards
  <2>5. QED
    BY <1>5, <2>2, <2>4
<1>10. \A i, j \in K : i < j => f[i] < f[j]
  BY <1>5 DEF Onwards
<1>11. QED
  BY <1>6, <1>7, <1>8, <1>9, <1>10 DEF Onto

QuotesFrom(f, e) == Onwards(KeptTicks("quotes"), f, e)

\* The valid quotes of a stream that goes back before a second, those before it and
\* those from it on.
Parts(quotes, from, valid, before, inside, series) ==
    /\ valid = {k \in DOMAIN quotes : ValidQuote(quotes[k])}
    /\ before = {k \in valid : quotes[k].time < from}
    /\ inside = {k \in valid : quotes[k].time \in from .. End}
    /\ \E k \in DOMAIN quotes : quotes[k].time < from
    /\ series = LeadIn(before, inside)

LEMMA WindowQuotes ==
    ASSUME TapeOrdered, TapeTyped, NEW e \in 1 .. TargetStart, NEW f, QuotesFrom(f, e),
           NEW from, NoExtra(from), \A m \in Ticks("quotes") : QuoteOrdered(tape[m]),
           NEW quotes, NEW valid, NEW before, NEW inside, NEW series, quotes = TicksAt(f),
           Parts(quotes, from, valid, before, inside, series)
    PROVE  /\ Onto(f, inside, LastQuotes) /\ Onto(f, series, LeadQuotes)
           /\ inside \subseteq DOMAIN f /\ series \subseteq DOMAIN f
<1> /\ valid = {k \in DOMAIN quotes : ValidQuote(quotes[k])}
    /\ before = {k \in valid : quotes[k].time < from}
    /\ inside = {k \in valid : quotes[k].time \in from .. End}
    /\ \E k \in DOMAIN quotes : quotes[k].time < from
    /\ series = LeadIn(before, inside)
  BY DEF Parts
<1> DEFINE T == End - ShortWindow
<1>1. /\ TargetStart \in Int /\ e \in Int /\ e <= TargetStart /\ TargetStart <= T + 1
      /\ T \in Int /\ from \in Int
  BY SpanAssumption DEF TargetStart, NoExtra
<1>2. KeptTicks("quotes") = Ticks("quotes")
  BY DEF KeptTicks, Ticks, Kept
<1>3. \A n \in Ticks("quotes") : n \in Int /\ n \in DOMAIN tape /\ tape[n].time \in 1 .. End
  BY KeptAreTicks
<1>4. \A n \in Ticks("quotes") :
          /\ tape[n].time \in from .. End <=> tape[n].time > T
          /\ tape[n].time < from <=> tape[n].time <= T
  BY <1>1, <1>3, SpanAssumption DEF NoExtra
<1>5. \A j, k \in Ticks("quotes") : j <= k => tape[j].time <= tape[k].time
  BY <1>3 DEF TapeOrdered
<1>6. \A k \in DOMAIN f : f[k] \in Ticks("quotes") /\ k \in Int /\ quotes[k] = tape[f[k]]
  BY <1>2 DEF QuotesFrom, Onwards, TicksAt
<1>7. DOMAIN quotes = DOMAIN f
  BY DEF TicksAt
<1>8. \A n \in Ticks("quotes") : ValidQuote(tape[n])
  <2>1. \A n \in Ticks("quotes") : tape[n] \in QuoteTick
    BY <1>3 DEF Ticks, TapeTyped, IsQuote, TradeTick
  <2>2. QED
    BY <2>1 DEF ValidQuote, QuoteTick
<1>9. \A k : k \in valid <=> k \in DOMAIN f
  BY <1>6, <1>7, <1>8
<1>10. /\ \A k : k \in before <=> k \in DOMAIN f /\ tape[f[k]].time <= T
       /\ \A k : k \in inside <=> k \in DOMAIN f /\ tape[f[k]].time > T
  BY <1>4, <1>6, <1>9
<1>11. \A S \in SUBSET DOMAIN f : S \in SUBSET Int /\ IsFiniteSet(S)
  <2>1. IsFiniteSet(DOMAIN f)
    BY DEF QuotesFrom, Onwards
  <2>2. \A S \in SUBSET DOMAIN f : IsFiniteSet(S)
    BY <2>1, FS_Subset, Zenon
  <2>3. QED
    BY <1>6, <2>2
<1>12. PICK b \in before : TRUE
  BY <1>6, <1>7, <1>9
<1>13. Latest(before) \in before /\ \A j \in before : j <= Latest(before)
  <2>1. before \in SUBSET DOMAIN f
    BY <1>10
  <2>2. before \subseteq Int /\ IsFiniteSet(before) /\ before # {}
    BY <1>11, <1>12, <2>1
  <2>3. QED
    BY <2>2, LatestIs
<1> DEFINE l == Latest(before)
<1>14. series = inside \cup {l}
  BY <1>12 DEF LeadIn
<1>15. l \in DOMAIN f /\ tape[f[l]].time <= T /\ \A j \in before : j <= l
  BY <1>10, <1>13
<1> HIDE DEF l, T
<1>16. \A n \in Ticks("quotes") : tape[n].time >= e => \E k \in DOMAIN f : f[k] = n
  BY <1>2 DEF QuotesFrom, Onwards
<1>17. /\ \A i, j \in DOMAIN f : i < j => f[i] < f[j]
       /\ \A i, j \in DOMAIN f : i <= j => f[i] <= f[j]
       /\ \A k \in DOMAIN f : tape[f[k]].time >= e
  BY DEF QuotesFrom, Onwards
<1>18. \A n : n \in LastQuotes <=> n \in Ticks("quotes") /\ tape[n].time > T
  BY DEF LastQuotes, T
<1>19. \A n : n \in LeadQuotes <=>
           /\ n \in Ticks("quotes")
           /\ tape[n].time > T \/ \A m \in Ticks("quotes") : tape[m].time <= T => m <= n
  BY DEF LeadQuotes, T
<1>20. Onto(f, inside, LastQuotes)
  <2>1. inside \in SUBSET DOMAIN f
    BY <1>10
  <2>2. inside \in SUBSET Int /\ IsFiniteSet(inside)
    BY <1>11, <2>1
  <2>3. LastQuotes \in SUBSET Int
    BY <1>3, <1>18
  <2>4. \A k \in inside : f[k] \in LastQuotes
    BY <1>6, <1>10, <1>18
  <2>5. ASSUME NEW n \in LastQuotes PROVE \E k \in inside : f[k] = n
    <3>1. n \in Ticks("quotes") /\ tape[n].time > T
      BY <1>18
    <3>2. tape[n].time >= e
      BY <1>1, <1>3, <3>1
    <3>3. PICK k \in DOMAIN f : f[k] = n
      BY <1>16, <3>1, <3>2
    <3>4. QED
      BY <1>10, <3>1, <3>3
  <2>6. \A i, j \in inside : i < j => f[i] < f[j]
    BY <1>10, <1>17
  <2>7. QED
    BY <2>2, <2>3, <2>4, <2>5, <2>6 DEF Onto
<1>21. f[l] \in LeadQuotes
  <2>1. f[l] \in Ticks("quotes") /\ f[l] \in Int /\ tape[f[l]].time \in Int
    BY <1>3, <1>6, <1>15
  <2>2. ASSUME NEW m \in Ticks("quotes"), tape[m].time <= T, ~(m <= f[l]) PROVE FALSE
    <3>1. f[l] <= m
      BY <1>3, <2>1, <2>2
    <3>2. tape[m].time >= e
      BY <1>1, <1>3, <1>5, <1>15, <1>17, <2>1, <3>1
    <3>3. PICK j \in DOMAIN f : f[j] = m
      BY <1>16, <3>2
    <3>4. j <= l
      BY <1>10, <1>15, <2>2, <3>3
    <3>5. QED
      BY <1>15, <1>17, <2>2, <3>3, <3>4
  <2>3. QED
    BY <1>19, <2>1, <2>2
<1>22. Onto(f, series, LeadQuotes)
  <2>1. series \in SUBSET DOMAIN f
    BY <1>10, <1>14, <1>15
  <2>2. series \in SUBSET Int /\ IsFiniteSet(series)
    BY <1>11, <2>1
  <2>3. LeadQuotes \in SUBSET Int
    BY <1>3, <1>19
  <2>4. \A k \in series : f[k] \in LeadQuotes
    BY <1>6, <1>10, <1>14, <1>19, <1>21
  <2>5. ASSUME NEW n \in LeadQuotes PROVE \E k \in series : f[k] = n
    <3>1. n \in Ticks("quotes") /\ n \in Int /\ tape[n].time \in Int
      BY <1>3, <1>19
    <3>2. CASE tape[n].time > T
      BY <1>14, <1>18, <1>20, <3>1, <3>2 DEF Onto
    <3>3. CASE ~(tape[n].time > T)
      <4>1. \A m \in Ticks("quotes") : tape[m].time <= T => m <= n
        BY <1>19, <3>3
      <4>2. tape[n].time <= T
        BY <1>1, <3>1, <3>3 DEF T
      <4>3. f[l] \in Ticks("quotes") /\ f[l] \in Int /\ tape[f[l]].time \in Int
        BY <1>3, <1>6, <1>15
      <4>4. f[l] <= n
        BY <1>15, <4>1, <4>3
      <4>5. n <= f[l]
        <5>1. \A m \in Ticks("quotes") : tape[m].time <= T => m <= f[l]
          BY <1>1, <1>15, <1>19, <1>21, <4>3 DEF T
        <5>2. QED
          BY <3>1, <4>2, <5>1
      <4>6. n = f[l]
        BY <3>1, <4>3, <4>4, <4>5
      <4>7. QED
        BY <1>14, <4>6
    <3>4. QED
      BY <3>2, <3>3
  <2>6. \A i, j \in series : i < j => f[i] < f[j]
    BY <1>17, <2>1
  <2>7. QED
    BY <2>2, <2>3, <2>4, <2>5, <2>6 DEF Onto
<1>23. inside \subseteq DOMAIN f /\ series \subseteq DOMAIN f
  BY <1>10, <1>14, <1>15
<1>24. QED
  BY <1>20, <1>22, <1>23

\* The trades with a size and the valid quotes of a window that starts at c.
SizedIn(ticks, c) == {k \in DOMAIN ticks : ticks[k].time \in c .. End /\ ticks[k].size > 0}
ValidIn(ticks) == {k \in DOMAIN ticks : ValidQuote(ticks[k])}
BeforeIn(ticks, c) == {k \in ValidIn(ticks) : ticks[k].time < c}
InsideIn(ticks, c) == {k \in ValidIn(ticks) : ticks[k].time \in c .. End}
LeadInto(ticks, c) == LeadIn(BeforeIn(ticks, c), InsideIn(ticks, c))

LEMMA WindowOf ==
    ASSUME NEW trades, NEW quotes, NEW c
    PROVE  WindowFlow(trades, quotes, c, End) =
               Flow(Picked(trades, SizedIn(trades, c)), Picked(quotes, InsideIn(quotes, c)),
                    Pairs(Picked(quotes, LeadInto(quotes, c))))
BY Zenon DEF WindowFlow, LeadIn, SizedIn, ValidIn, BeforeIn, InsideIn, LeadInto

LEMMA LastWindow ==
    ASSUME TapeOrdered, TapeTyped, \A m \in Ticks("quotes") : QuoteOrdered(tape[m]),
           NEW e \in 1 .. TargetStart, NEW f, QuotesFrom(f, e),
           NEW from, NoExtra(from), \E k \in DOMAIN TicksAt(f) : TicksAt(f)[k].time < from
    PROVE  LET quotes == TicksAt(f)
               inside == InsideIn(quotes, from)
               series == LeadInto(quotes, from)
           IN /\ Onto(f, inside, LastQuotes) /\ Onto(f, series, LeadQuotes)
              /\ inside \subseteq DOMAIN f /\ series \subseteq DOMAIN f
<1> DEFINE quotes == TicksAt(f)
           valid == ValidIn(quotes)
           before == BeforeIn(quotes, from)
           inside == InsideIn(quotes, from)
           series == LeadInto(quotes, from)
<1>1. quotes = TicksAt(f) /\ Parts(quotes, from, valid, before, inside, series)
  BY Zenon DEF Parts, ValidIn, BeforeIn, InsideIn, LeadInto
<1> HIDE DEF quotes, valid, before, inside, series
<1>2. /\ Onto(f, inside, LastQuotes) /\ Onto(f, series, LeadQuotes)
      /\ inside \subseteq DOMAIN f /\ series \subseteq DOMAIN f
  BY <1>1, WindowQuotes
<1>3. QED
  BY <1>2 DEF inside, series, quotes

\* What SameFlow asks of its streams.
FromStart(H, ticks) == \E e \in 1 .. TargetStart : Onwards(H, ticks, e)
LedInto(ticks, c) == NoExtra(c) /\ \E k \in DOMAIN TicksAt(ticks) : TicksAt(ticks)[k].time < c
SidedAlike(f, theirs, g, mine) ==
    \A k \in DOMAIN f, j \in DOMAIN g : f[k] = g[j] /\ f[k] \in LastTrades =>
        theirs[k].side = mine[j].side /\ theirs[k].method = mine[j].method

FlowsMeet(f, theirs, p, from, g, mine, r, start) ==
    WindowFlow(Sided(TicksAt(f), theirs), TicksAt(p), from, End)
        = WindowFlow(Sided(TicksAt(g), mine), TicksAt(r), start, End)

\* The last seconds of two streams of trades and of quotes make the same flow, where
\* the trades of these seconds have the same sides.
LEMMA SameFlow ==
    ASSUME TapeOrdered, TapeTyped, \A m \in Ticks("quotes") : QuoteOrdered(tape[m]),
           NEW H, Prints(H), LastOf(H) = LastTrades,
           NEW f, FromStart(H, f), NEW g, FromStart(KeptTicks("trades"), g),
           NEW p, FromStart(KeptTicks("quotes"), p), NEW r, FromStart(KeptTicks("quotes"), r),
           NEW from, LedInto(p, from), NEW start, LedInto(r, start),
           NEW theirs, NEW mine, SidedAlike(f, theirs, g, mine)
    PROVE  FlowsMeet(f, theirs, p, from, g, mine, r, start)
<1> DEFINE s == Sided(TicksAt(f), theirs)
           u == Sided(TicksAt(g), mine)
           K == SizedIn(s, from)
           J == SizedIn(u, start)
           a == TicksAt(p)
           b == TicksAt(r)
<1>1. \A trades, quotes, c :
          WindowFlow(trades, quotes, c, End) =
              Flow(Picked(trades, SizedIn(trades, c)), Picked(quotes, InsideIn(quotes, c)),
                   Pairs(Picked(quotes, LeadInto(quotes, c))))
  BY WindowOf, Zenon
<1>2. DOMAIN s = DOMAIN f /\ DOMAIN u = DOMAIN g
  BY DEF Sided, TicksAt
<1>3. \A k \in DOMAIN f :
          /\ s[k] = [time |-> tape[f[k]].time, price |-> tape[f[k]].price,
                     size |-> tape[f[k]].size, side |-> theirs[k].side, method |-> theirs[k].method]
          /\ s[k].time = tape[f[k]].time /\ s[k].size = tape[f[k]].size
  BY DEF Sided, TicksAt
<1>4. \A k \in DOMAIN g :
          /\ u[k] = [time |-> tape[g[k]].time, price |-> tape[g[k]].price,
                     size |-> tape[g[k]].size, side |-> mine[k].side, method |-> mine[k].method]
          /\ u[k].time = tape[g[k]].time /\ u[k].size = tape[g[k]].size
  BY DEF Sided, TicksAt
<1> HIDE DEF s, u
<1>5. Onto(f, K, LastTrades)
  <2>1. \A k \in DOMAIN f : s[k].time = tape[f[k]].time /\ s[k].size = tape[f[k]].size
    BY <1>3, Zenon
  <2>2. QED
    BY <1>2, <2>1, WindowTrades DEF SizedIn, FromStart, LedInto
<1>6. Onto(g, J, LastTrades)
  <2> Prints(KeptTicks("trades"))
    BY TradesAre DEF Prints
  <2>1. \A k \in DOMAIN g : u[k].time = tape[g[k]].time /\ u[k].size = tape[g[k]].size
    BY <1>4, Zenon
  <2>2. QED
    BY <1>2, <2>1, WindowTrades DEF SizedIn, FromStart, LedInto, LastTrades
<1>7. Picked(s, K) = Picked(u, J)
  <2>1. ASSUME NEW k \in K, NEW j \in J, f[k] = g[j] PROVE s[k] = u[j]
    <3>1. k \in DOMAIN f /\ j \in DOMAIN g
      BY <1>2 DEF SizedIn
    <3>2. f[k] \in LastTrades
      BY <1>5 DEF Onto
    <3>3. theirs[k].side = mine[j].side /\ theirs[k].method = mine[j].method
      BY <2>1, <3>1, <3>2 DEF SidedAlike
    <3>4. s[k] = [time |-> tape[f[k]].time, price |-> tape[f[k]].price,
                  size |-> tape[f[k]].size, side |-> theirs[k].side, method |-> theirs[k].method]
      BY <1>3, <3>1, Zenon
    <3>5. u[j] = [time |-> tape[g[j]].time, price |-> tape[g[j]].price,
                  size |-> tape[g[j]].size, side |-> mine[j].side, method |-> mine[j].method]
      BY <1>4, <3>1, Zenon
    <3>6. QED
      BY <2>1, <3>3, <3>4, <3>5
  <2> HIDE DEF K, J
  <2>2. QED
    BY <1>5, <1>6, <2>1, SamePicks
<1>8. /\ Onto(p, InsideIn(a, from), LastQuotes) /\ Onto(p, LeadInto(a, from), LeadQuotes)
      /\ InsideIn(a, from) \subseteq DOMAIN p /\ LeadInto(a, from) \subseteq DOMAIN p
  BY LastWindow DEF FromStart, LedInto, QuotesFrom
<1>9. /\ Onto(r, InsideIn(b, start), LastQuotes) /\ Onto(r, LeadInto(b, start), LeadQuotes)
      /\ InsideIn(b, start) \subseteq DOMAIN r /\ LeadInto(b, start) \subseteq DOMAIN r
  BY LastWindow DEF FromStart, LedInto, QuotesFrom
<1>10. \A k \in DOMAIN p, j \in DOMAIN r : p[k] = r[j] => a[k] = b[j]
  BY DEF TicksAt
<1> HIDE DEF K, J, a, b
<1>11. Picked(a, InsideIn(a, from)) = Picked(b, InsideIn(b, start))
  BY <1>8, <1>9, <1>10, SamePicks
<1>12. Picked(a, LeadInto(a, from)) = Picked(b, LeadInto(b, start))
  BY <1>8, <1>9, <1>10, SamePicks
<1>13. QED
  BY <1>1, <1>7, <1>11, <1>12 DEF s, u, K, J, a, b, FlowsMeet

\* All the ticks of a set.
LEMMA InOrderOnwards ==
    ASSUME TapeOrdered, NEW H, H \in SUBSET DOMAIN tape
    PROVE  1 \in 1 .. TargetStart /\ Onwards(H, InOrder(H), 1)
<1> DEFINE f == InOrder(H)
           n == Cardinality(H)
<1>1. H \in SUBSET DOMAIN tape /\ \A m \in H : m \in Int /\ tape[m].time >= 1
  BY DEF TapeOrdered
<1>2. Placed(H)
  BY <1>1, TicksInOrder
<1>3. /\ n \in Nat /\ f \in [1 .. n -> H]
      /\ \A x \in H : \E k \in 1 .. n : f[k] = x
      /\ \A i, j \in 1 .. n : i < j => f[i] < f[j]
  BY <1>2 DEF Placed
<1> HIDE DEF f, n
<1>4. DOMAIN f = 1 .. n /\ IsFiniteSet(1 .. n)
  BY <1>3, FS_Interval
<1>5. \A k \in 1 .. n : k \in Nat /\ k >= 1 /\ f[k] \in H /\ f[k] \in Int
  BY <1>1, <1>3
<1>6. ASSUME NEW i \in 1 .. n, NEW j \in 1 .. n, i <= j PROVE f[i] <= f[j]
  <2>1. i = j \/ f[i] < f[j]
    BY <1>3, <1>5, <1>6
  <2>2. f[i] \in Int /\ f[j] \in Int
    BY <1>5
  <2>3. QED
    BY <2>1, <2>2
<1>7. Onwards(H, f, 1)
  BY <1>1, <1>3, <1>4, <1>5, <1>6 DEF Onwards
<1>8. 1 \in 1 .. TargetStart
  BY SpanAssumption DEF TargetStart
<1>9. QED
  BY <1>7, <1>8 DEF f

\* Enough evidence: both windows are reached.
LEMMA EnoughFlow ==
    ASSUME NEW short, NEW long, NEW atr, Pressure(short, long, atr) # "insufficient_data"
    PROVE  short.complete /\ long.complete
BY DEF Pressure

\* With it, the pressure is that of the short window's flow.
PressuresMeet(short, long, other, another) ==
    Pressure(short, long, Atr) = Pressure(other, another, Atr)

LEMMA SamePressure ==
    ASSUME NEW short, NEW long, NEW other, NEW another,
           Pressure(short, long, Atr) # "insufficient_data",
           Pressure(other, another, Atr) # "insufficient_data", short.flow = other.flow
    PROVE  PressuresMeet(short, long, other, another)
<1>1. short.complete /\ long.complete /\ other.complete /\ another.complete
  BY EnoughFlow
<1>2. QED
  BY <1>1 DEF Pressure, PressuresMeet

\* Where the live tracker has enough evidence, and nothing separates the two, the
\* historical pressure is the live one.
LEMMA SameVerdict ==
    ASSUME tape \in Tapes, AllGood(evidence), \A s \in Stream : evidence[s] # <<>>,
           Assessed.pressure # "insufficient_data"
    PROVE  PressuresAgree
<1> DEFINE trades == evidence["trades"]
           quotes == evidence["quotes"]
           all == InOrder(Ticks("quotes"))
           live == Live(tape)
           ofWindow(n) == tape[n].time > End - ShortWindow
           over(seconds) == Window(Sided(TicksAt(trades), Sides), TicksAt(quotes),
                                   End - seconds + 1, End)
           overLive(seconds) == Window(Sided(TicksAt(LiveTrades), live), TicksAt(all),
                                       End - seconds + 1, End)
<1>1. SUFFICES ASSUME /\ LiveAssessed.pressure # "insufficient_data"
                      /\ \A n \in DOMAIN tape : tape[n].time # End - ShortWindow
                      /\ \A q \in Ticks("quotes") : HeardQuote(tape[q])
                      /\ \A n \in Ticks("trades") :
                             ofWindow(n) => (Kept(n) <=> HeardTrade(tape[n]))
                      /\ \A k \in DOMAIN LiveTrades :
                             ofWindow(LiveTrades[k]) =>
                                 Comparable(LiveTrades[k]) /\ live[k].method = "quote test"
               PROVE  Assessed.pressure = LiveAssessed.pressure
  BY Zenon DEF PressuresAgree
<1>2. TapeOrdered /\ TapeTyped /\ LiveFound
  BY TapesAreOrdered, TapesAreTyped, LiveFinds
<1>3. Good("trades", trades) /\ trades # <<>> /\ Good("quotes", quotes) /\ quotes # <<>>
  BY DEF AllGood, Stream
<1>4. SidesAgree /\ DOMAIN Sides = DOMAIN trades
  BY <1>3, SameSides
<1>5. PICK d \in 1 .. TargetStart : Onwards(KeptTicks("trades"), trades, d)
  BY <1>2, <1>3, GoodTicks
<1>6. PICK e \in 1 .. TargetStart : Onwards(KeptTicks("quotes"), quotes, e)
  BY <1>2, <1>3, GoodTicks
<1>7. /\ 1 \in 1 .. TargetStart
      /\ Onwards(HeardTicks, LiveTrades, 1) /\ Onwards(KeptTicks("quotes"), all, 1)
  <2>1. LiveTrades = InOrder(HeardTicks) /\ HeardTicks \in SUBSET DOMAIN tape
    BY DEF LiveTrades, HeardTicks
  <2>2. Ticks("quotes") = KeptTicks("quotes") /\ Ticks("quotes") \in SUBSET DOMAIN tape
    BY DEF KeptTicks, Ticks, Kept
  <2>3. QED
    BY <1>2, <2>1, <2>2, InOrderOnwards
<1>8. Assessed.pressure = Pressure(over(ShortWindow), over(LongWindow), Atr)
  BY DEF Assessed, Assessment, Assess
<1>9. LiveAssessed.pressure = Pressure(overLive(ShortWindow + 1), overLive(LongWindow + 1), Atr)
  <2>1. LiveTrades = InOrder({n \in DOMAIN tape : HeardTrade(tape[n])})
    BY DEF LiveTrades
  <2>2. {n \in DOMAIN tape : HeardQuote(tape[n])} = Ticks("quotes")
    BY <1>1 DEF Ticks, HeardQuote
  <2>3. \A S : Picked(tape, S) = TicksAt(InOrder(S))
    BY DEF Picked, TicksAt
  <2>4. LiveAssessed = Assessment(TicksAt(LiveTrades), live, TicksAt(all),
                                  ShortWindow + 1, LongWindow + 1)
    BY <2>1, <2>2, <2>3 DEF LiveAssessed, LiveAssessment
  <2>5. QED
    BY <2>4 DEF Assessment, Assess
<1>10. /\ End - ShortWindow + 1 \in Int /\ End - LongWindow + 1 < End - ShortWindow + 1
       /\ End - (ShortWindow + 1) + 1 = End - ShortWindow
       /\ End - (LongWindow + 1) + 1 < End - ShortWindow
       /\ End \in Int /\ ShortWindow \in Int /\ LongWindow \in Int
  BY SpanAssumption
<1>11. over(LongWindow).complete /\ overLive(LongWindow + 1).complete
  <2> HIDE DEF over, overLive
  <2>1. QED
    BY <1>1, <1>8, <1>9, EnoughFlow
<1>12. \E k \in DOMAIN TicksAt(quotes) : TicksAt(quotes)[k].time < End - ShortWindow + 1
  <2>1. PICK k \in DOMAIN TicksAt(quotes) : TicksAt(quotes)[k].time <= End - LongWindow + 1
    BY <1>11 DEF Window, Reached
  <2>2. TicksAt(quotes)[k].time \in Int
    BY <1>2, <1>6, <2>1, KeptAreTicks DEF TicksAt, Onwards
  <2>3. \A t \in Int : t <= End - LongWindow + 1 => t < End - ShortWindow + 1
    BY <1>10
  <2>4. QED
    BY <2>1, <2>2, <2>3, Zenon
<1>13. \E k \in DOMAIN TicksAt(all) : TicksAt(all)[k].time < End - ShortWindow
  <2>1. PICK k \in DOMAIN TicksAt(all) : TicksAt(all)[k].time <= End - (LongWindow + 1) + 1
    BY <1>11 DEF Window, Reached
  <2>2. TicksAt(all)[k].time \in Int
    BY <1>2, <1>7, <2>1, KeptAreTicks DEF TicksAt, Onwards
  <2>3. \A t \in Int : t <= End - (LongWindow + 1) + 1 => t < End - ShortWindow
    BY <1>10
  <2>4. QED
    BY <2>1, <2>2, <2>3, Zenon
<1>14. NoExtra(End - ShortWindow) /\ NoExtra(End - ShortWindow + 1)
  BY <1>1, <1>10 DEF NoExtra
<1>15. ASSUME NEW l \in DOMAIN LiveTrades, NEW k \in DOMAIN trades,
              LiveTrades[l] = trades[k], LiveTrades[l] \in LastTrades
       PROVE  live[l].side = Sides[k].side /\ live[l].method = Sides[k].method
  <2>1. ofWindow(LiveTrades[l])
    BY <1>15 DEF LastTrades, LastOf
  <2>2. Comparable(LiveTrades[l]) /\ live[l].method = "quote test"
    BY <1>1, <2>1
  <2>3. l \in DOMAIN live
    BY <1>2 DEF LiveFound
  <2>4. /\ Sides[k].method = "quote test" <=> live[l].method = "quote test"
        /\ Sides[k].method = "quote test" => Sides[k].side = live[l].side
    BY <1>4, <1>15, <2>2, <2>3 DEF SidesAgree
  <2>5. QED
    BY <2>2, <2>4
<1> HIDE DEF trades, quotes, all, live
<1>16. WindowFlow(Sided(TicksAt(LiveTrades), live), TicksAt(all), End - ShortWindow, End)
           = WindowFlow(Sided(TicksAt(trades), Sides), TicksAt(quotes), End - ShortWindow + 1, End)
  <2> DEFINE from == End - ShortWindow
             start == End - ShortWindow + 1
  <2>1. \A m \in Ticks("quotes") : QuoteOrdered(tape[m])
    BY <1>1 DEF HeardQuote
  <2>2. SidedAlike(LiveTrades, live, trades, Sides)
    BY <1>15 DEF SidedAlike
  <2>3. LedInto(all, from) /\ LedInto(quotes, start)
    BY <1>12, <1>13, <1>14 DEF LedInto
  <2>4. /\ FromStart(HeardTicks, LiveTrades) /\ FromStart(KeptTicks("quotes"), all)
        /\ FromStart(KeptTicks("trades"), trades) /\ FromStart(KeptTicks("quotes"), quotes)
    BY <1>5, <1>6, <1>7 DEF FromStart
  <2>5. Prints(HeardTicks) /\ LastOf(HeardTicks) = LastTrades
    <3>1. \A n \in HeardTicks : n \in Ticks("trades") /\ HeardTrade(tape[n])
      BY DEF HeardTicks, HeardTrade, Ticks
    <3>2. \A n \in KeptTicks("trades") : n \in Ticks("trades") /\ n \in DOMAIN tape /\ Kept(n)
      BY DEF KeptTicks, Ticks
    <3>3. \A n : n \in LastOf(HeardTicks) <=> n \in LastTrades
      BY <1>1, <3>1, <3>2 DEF LastOf, LastTrades, HeardTicks, KeptTicks
    <3>4. QED
      BY <3>3, TradesAre DEF Prints, LastOf, LastTrades
  <2> HIDE DEF from, start
  <2>6. FlowsMeet(LiveTrades, live, all, from, trades, Sides, quotes, start)
    BY <1>2, <2>1, <2>2, <2>3, <2>4, <2>5, SameFlow, Zenon
  <2>7. QED
    BY <2>6 DEF from, start, FlowsMeet
<1>17. overLive(ShortWindow + 1).flow = over(ShortWindow).flow
  BY <1>10, <1>16 DEF Window
<1> HIDE DEF over, overLive
<1>18. PressuresMeet(overLive(ShortWindow + 1), overLive(LongWindow + 1),
                     over(ShortWindow), over(LongWindow))
  <2>1. /\ Pressure(over(ShortWindow), over(LongWindow), Atr) # "insufficient_data"
        /\ Pressure(overLive(ShortWindow + 1), overLive(LongWindow + 1), Atr) # "insufficient_data"
    BY <1>1, <1>8, <1>9
  <2>2. QED
    BY <1>17, <2>1, SamePressure, Zenon
<1>19. QED
  BY <1>8, <1>9, <1>18 DEF PressuresMeet

\* A verdict has enough evidence.
EnoughInv == Judged => Assessed.pressure # "insufficient_data"

LEMMA EnoughInvHolds == Spec => []EnoughInv
<1>1. Init => EnoughInv
  BY DEF Init, EnoughInv, Judged
<1>2. ASSUME tape' = tape, evidence' = evidence PROVE Assessed' = Assessed
  <2>1. TicksAt(evidence["trades"])' = TicksAt(evidence["trades"])
    BY <1>2 DEF TicksAt
  <2>2. TicksAt(evidence["quotes"])' = TicksAt(evidence["quotes"])
    BY <1>2 DEF TicksAt
  <2>3. QED
    BY <2>1, <2>2 DEF Assessed, Sides
<1>3. EnoughInv /\ [Next]_vars => EnoughInv'
  <2> SUFFICES ASSUME EnoughInv, [Next]_vars, Judged' PROVE Assessed'.pressure # "insufficient_data"
    BY DEF EnoughInv
  <2>1. phase' \in {"confirmed", "rejected"}
    BY DEF Judged
  <2>2. CASE Judge
    <3>1. tape' = tape /\ evidence' = evidence /\ Assessed.pressure # "insufficient_data"
      BY <2>1, <2>2 DEF Judge, Bullish
    <3>2. QED
      BY <1>2, <3>1
  <2>3. CASE UNCHANGED vars
    <3>1. tape' = tape /\ evidence' = evidence /\ phase' = phase
      BY <2>3 DEF vars
    <3>2. QED
      BY <1>2, <2>1, <3>1 DEF EnoughInv, Judged
  <2>4. ~(UseCache \/ Fetch \/ HistoricalTicksLast \/ HistoricalTicksBidAsk \/ PartOfPage
            \/ (\E why \in {"pacing", "request"} : Error(why)) \/ Exit \/ Save \/ Rerun)
    BY <2>1 DEF UseCache, Fetch, HistoricalTicksLast, HistoricalTicksBidAsk, PartOfPage, Error,
                Exit, Save, Rerun, Running
  <2>5. QED
    BY <2>2, <2>3, <2>4, Zenon DEF Next
<1>4. QED
  BY <1>1, <1>3, PTL DEF Spec

\* The backtest of a signal sees what the live tracker saw of it: the same sides by
\* the quote test and, with nothing between the two windows, the same pressure.
THEOREM VerdictAgreesWithLive == Spec => []AgreesWithLive
<1>1. TypeInv /\ EvidenceInv /\ EnoughInv => AgreesWithLive
  <2> SUFFICES ASSUME TypeInv, EvidenceInv, EnoughInv, Judged, intact
               PROVE  SidesAgree /\ PressuresAgree
    BY DEF AgreesWithLive
  <2>1. tape \in Tapes
    BY DEF TypeInv
  <2>2. AllGood(evidence) /\ \A s \in Stream : evidence[s] # <<>>
    BY DEF EvidenceInv, Judged
  <2>3. SidesAgree
    BY <2>1, <2>2, SameSides DEF AllGood, Stream
  <2>4. PressuresAgree
    BY <2>1, <2>2, SameVerdict DEF EnoughInv
  <2>5. QED
    BY <2>3, <2>4
<1>2. QED
  BY <1>1, TypeInvHolds, EvidenceInvHolds, EnoughInvHolds, PTL

-----------------------------------------------------------------------------
(* The mirrored tape.                                                      *)

OtherSide(side) ==
    CASE side = "buy" -> "sell" [] side = "sell" -> "buy" [] OTHER -> side

\* b is a two-sided tick a from the other side of the market.
MirrorTrade(a, b) ==
    /\ IsTrade(a) /\ IsTrade(b) /\ ~IsQuote(a) /\ ~IsQuote(b)
    /\ b.time = a.time /\ b.size = a.size
    /\ b.pastLimit = a.pastLimit /\ b.unreported = a.unreported
    /\ a.time \in Int /\ a.size \in Int /\ a.price \in 1 .. Top - 1 /\ b.price = Top - a.price
MirrorQuote(a, b) ==
    /\ IsQuote(a) /\ IsQuote(b) /\ ~IsTrade(a) /\ ~IsTrade(b)
    /\ b.time = a.time /\ a.time \in Nat
    /\ a.bid \in 1 .. Top - 1 /\ a.ask \in 1 .. Top - 1 /\ a.bid # a.ask
    /\ b.bid = Top - a.ask /\ b.ask = Top - a.bid
    /\ a.bidSize \in Nat /\ a.askSize \in Nat
    /\ b.bidSize = a.askSize /\ b.askSize = a.bidSize /\ b.sized = a.sized

LEMMA MirroredIs ==
    ASSUME NEW a \in TradeTick \cup QuoteTick, TwoSided(a)
    PROVE  /\ Mirrored(a) \in TradeTick \cup QuoteTick
           /\ MirrorTrade(a, Mirrored(a)) \/ MirrorQuote(a, Mirrored(a))
<1> DEFINE b == Mirrored(a)
<1>1. Top \in Nat
  BY SpanAssumption
<1>2. CASE a \in TradeTick
  <2>1. IsTrade(a) /\ ~IsQuote(a) /\ a.price \in 1 .. Top - 1
    BY <1>2 DEF IsTrade, IsQuote, TradeTick, TwoSided
  <2>2. b = [a EXCEPT !.price = Top - a.price]
    BY <2>1 DEF Mirrored
  <2> HIDE DEF b
  <2>3. /\ b \in TradeTick /\ b.price = Top - a.price
        /\ b.time = a.time /\ b.size = a.size
        /\ b.pastLimit = a.pastLimit /\ b.unreported = a.unreported
        /\ a.time \in Int /\ a.size \in Int
    BY <1>1, <1>2, <2>1, <2>2 DEF TradeTick
  <2>4. IsTrade(b) /\ ~IsQuote(b)
    BY <2>3 DEF IsTrade, IsQuote, TradeTick
  <2>5. QED
    BY <2>1, <2>3, <2>4 DEF MirrorTrade, b
<1>3. CASE a \in QuoteTick
  <2>1. IsQuote(a) /\ ~IsTrade(a) /\ a.bid \in 1 .. Top - 1 /\ a.ask \in 1 .. Top - 1 /\ a.bid # a.ask
    BY <1>3 DEF IsTrade, IsQuote, QuoteTick, TwoSided
  <2>2. b = [a EXCEPT !.bid = Top - a.ask, !.ask = Top - a.bid,
                      !.bidSize = a.askSize, !.askSize = a.bidSize]
    BY <2>1 DEF Mirrored
  <2>3. /\ a = [kind |-> a.kind, time |-> a.time, bid |-> a.bid, ask |-> a.ask,
                bidSize |-> a.bidSize, askSize |-> a.askSize, sized |-> a.sized]
        /\ a.kind = "quote" /\ a.time \in 1 .. End /\ a.bid \in Int /\ a.ask \in Int
        /\ a.bidSize \in Nat /\ a.askSize \in Nat /\ a.sized \in BOOLEAN
    BY <1>3 DEF QuoteTick
  <2>4. b = [kind |-> a.kind, time |-> a.time, bid |-> Top - a.ask, ask |-> Top - a.bid,
             bidSize |-> a.askSize, askSize |-> a.bidSize, sized |-> a.sized]
    BY <2>2, <2>3
  <2> HIDE DEF b
  <2>5. b \in QuoteTick /\ a.time \in Nat
    BY <1>1, <2>3, <2>4, SpanAssumption DEF QuoteTick
  <2>6. /\ b.time = a.time /\ b.bid = Top - a.ask /\ b.ask = Top - a.bid
        /\ b.bidSize = a.askSize /\ b.askSize = a.bidSize /\ b.sized = a.sized
    BY <2>4
  <2>7. IsQuote(b) /\ ~IsTrade(b)
    BY <2>5 DEF IsTrade, IsQuote, QuoteTick
  <2>8. QED
    BY <2>1, <2>3, <2>5, <2>6, <2>7 DEF MirrorQuote, b
<1>4. QED
  BY <1>2, <1>3

LEMMA MirrorOrdered ==
    ASSUME NEW a, NEW b, MirrorQuote(a, b)
    PROVE  /\ QuoteOrdered(b) <=> QuoteOrdered(a)
           /\ ValidQuote(b) <=> ValidQuote(a)
           /\ Reported(b) <=> Reported(a)
BY SpanAssumption DEF MirrorQuote, QuoteOrdered, ValidQuote, Reported

LEMMA MirrorPrinted ==
    ASSUME NEW a, NEW b, MirrorTrade(a, b)
    PROVE  /\ Printed(b) <=> Printed(a)
           /\ Reported(b) <=> Reported(a)
BY SpanAssumption DEF MirrorTrade, Printed, Reported

\* What the tracker holds of the tape, and of its mirror.
MirrorHeld(q, r) ==
    \/ q = NoQuote /\ r = NoQuote
    \/ /\ q # NoQuote /\ r # NoQuote /\ r.time = q.time
       /\ q.bid \in Int /\ q.ask \in Int /\ q.bid < q.ask
       /\ r.bid = Top - q.ask /\ r.ask = Top - q.bid
MirrorCarry(c, d) ==
    /\ \/ c.price = NoPrice /\ d.price = NoPrice
       \/ c.price \in 1 .. Top - 1 /\ d.price = Top - c.price
    /\ c.direction \in TradeSide /\ d.direction = OtherSide(c.direction)
MirrorSide(x, y) == x.side \in TradeSide /\ y.side = OtherSide(x.side) /\ y.method = x.method
MirrorState(x, y) ==
    /\ MirrorHeld(x.quote, y.quote) /\ MirrorCarry(x.carry, y.carry)
    /\ Len(y.sides) = Len(x.sides)
    /\ \A k \in 1 .. Len(x.sides) : MirrorSide(x.sides[k], y.sides[k])

LEMMA SideMirrored ==
    ASSUME NEW price \in 1 .. Top - 1, NEW q, NEW r, NEW fresh \in BOOLEAN,
           fresh => q # NoQuote, MirrorHeld(q, r), NEW c, NEW d, MirrorCarry(c, d)
    PROVE  MirrorSide(Side(price, q, fresh, c), Side(Top - price, r, fresh, d))
<1>1. Top \in Nat
  BY SpanAssumption
<1>2. fresh => /\ QuoteSide(price, q) \in TradeSide
               /\ QuoteSide(Top - price, r) = OtherSide(QuoteSide(price, q))
  BY <1>1 DEF MirrorHeld, QuoteSide, OtherSide, TradeSide, Unknown
<1>3. /\ TickSide(price, c) \in TradeSide
      /\ TickSide(Top - price, d) = OtherSide(TickSide(price, c))
  BY <1>1 DEF MirrorCarry, TickSide, OtherSide, TradeSide, Unknown, NoPrice
<1>4. /\ \A side \in TradeSide : OtherSide(side) = Unknown <=> side = Unknown
      /\ Unknown \in TradeSide /\ OtherSide(Unknown) = Unknown
  BY DEF OtherSide, TradeSide, Unknown
<1>5. QED
  BY <1>2, <1>3, <1>4 DEF Side, MirrorSide

LEMMA CarriedMirrored ==
    ASSUME NEW price \in 1 .. Top - 1, NEW c, NEW d, MirrorCarry(c, d),
           NEW x, NEW y, MirrorSide(x, y)
    PROVE  MirrorCarry(Carried(c, price, x.side), Carried(d, Top - price, y.side))
<1>1. \A side \in TradeSide : OtherSide(side) = Unknown <=> side = Unknown
  BY DEF OtherSide, TradeSide, Unknown
<1>2. QED
  BY <1>1 DEF MirrorCarry, MirrorSide, Carried

LEMMA FreshMirrored ==
    ASSUME NEW q, NEW r, MirrorHeld(q, r), NEW time
    PROVE  FreshLive(r, time) <=> FreshLive(q, time)
BY DEF MirrorHeld, FreshLive

\* One tick more on both tapes.
LEMMA OnTickMirrored ==
    ASSUME NEW x \in LiveState, NEW y \in LiveState, MirrorState(x, y),
           NEW a \in TradeTick \cup QuoteTick, NEW b \in TradeTick \cup QuoteTick,
           MirrorTrade(a, b) \/ MirrorQuote(a, b)
    PROVE  MirrorState(OnTick(x, a), OnTick(y, b))
<1>1. CASE MirrorQuote(a, b)
  <2>1. /\ IsQuote(a) /\ IsQuote(b)
        /\ (QuoteOrdered(b) <=> QuoteOrdered(a)) /\ (Reported(b) <=> Reported(a))
    BY <1>1, MirrorOrdered DEF MirrorQuote
  <2>2. CASE ~(Reported(a) /\ QuoteOrdered(a))
    BY <2>1, <2>2 DEF OnTick, OnQuote
  <2>3. CASE Reported(a) /\ QuoteOrdered(a)
    <3>1. /\ OnTick(x, a) = [x EXCEPT !.quote = Shown(a)]
          /\ OnTick(y, b) = [y EXCEPT !.quote = Shown(b)]
      BY <2>1, <2>3 DEF OnTick, OnQuote, Shown
    <3>2. MirrorHeld(Shown(a), Shown(b))
      <4>1. /\ Shown(a).time = a.time /\ Shown(a).bid = a.bid /\ Shown(a).ask = a.ask
            /\ Shown(b).time = b.time /\ Shown(b).bid = b.bid /\ Shown(b).ask = b.ask
        BY DEF Shown
      <4>2. Shown(a).time # -1 /\ Shown(b).time # -1
        BY <1>1, <4>1 DEF MirrorQuote
      <4>3. Shown(a) # NoQuote /\ Shown(b) # NoQuote
        BY <4>2 DEF NoQuote
      <4>4. a.bid < a.ask /\ a.bid \in Int /\ a.ask \in Int
        BY <1>1, <2>3, SpanAssumption DEF MirrorQuote, QuoteOrdered
      <4>5. b.time = a.time /\ b.bid = Top - a.ask /\ b.ask = Top - a.bid
        BY <1>1 DEF MirrorQuote
      <4>6. QED
        BY <4>1, <4>3, <4>4, <4>5 DEF MirrorHeld
    <3>3. /\ OnTick(x, a).quote = Shown(a) /\ OnTick(y, b).quote = Shown(b)
          /\ OnTick(x, a).carry = x.carry /\ OnTick(y, b).carry = y.carry
          /\ OnTick(x, a).sides = x.sides /\ OnTick(y, b).sides = y.sides
      BY <3>1 DEF LiveState
    <3>4. QED
      BY <3>2, <3>3 DEF MirrorState
  <2>4. QED
    BY <2>2, <2>3
<1>2. CASE MirrorTrade(a, b)
  <2>1. /\ ~IsQuote(a) /\ ~IsQuote(b) /\ b.time = a.time
        /\ (Printed(b) <=> Printed(a)) /\ (Reported(b) <=> Reported(a))
    BY <1>2, MirrorPrinted DEF MirrorTrade
  <2>2. CASE ~(Reported(a) /\ Printed(a))
    BY <2>1, <2>2 DEF OnTick, OnTrade
  <2>3. CASE Reported(a) /\ Printed(a)
    <3> DEFINE fresh == FreshLive(x.quote, a.time)
               found == Side(a.price, x.quote, fresh, x.carry)
               other == Side(b.price, y.quote, FreshLive(y.quote, b.time), y.carry)
    <3>1. a.price \in 1 .. Top - 1 /\ b.price = Top - a.price
      BY <1>2 DEF MirrorTrade
    <3>2. fresh \in BOOLEAN /\ (fresh => x.quote # NoQuote)
      BY DEF FreshLive
    <3>3. MirrorHeld(x.quote, y.quote) /\ MirrorCarry(x.carry, y.carry)
      BY DEF MirrorState
    <3>4. FreshLive(y.quote, b.time) = fresh
      <4>1. FreshLive(y.quote, b.time) <=> fresh
        BY <2>1, <3>3, FreshMirrored
      <4>2. FreshLive(y.quote, b.time) \in BOOLEAN
        BY DEF FreshLive
      <4>3. QED
        BY <3>2, <4>1, <4>2
    <3>5. MirrorSide(found, other)
      <4> HIDE DEF fresh
      <4>1. QED
        BY <3>1, <3>2, <3>3, <3>4, SideMirrored
    <3>6. /\ OnTick(x, a) = [quote |-> x.quote, carry |-> Carried(x.carry, a.price, found.side),
                             sides |-> Append(x.sides, found)]
          /\ OnTick(y, b) = [quote |-> y.quote, carry |-> Carried(y.carry, b.price, other.side),
                             sides |-> Append(y.sides, other)]
      BY <2>1, <2>3 DEF OnTick, OnTrade
    <3>7. x.sides \in Seq(SideFound) /\ y.sides \in Seq(SideFound) /\ Len(y.sides) = Len(x.sides)
      BY DEF LiveState, MirrorState
    <3>8. found \in SideFound /\ other \in SideFound
      <4>1. x.carry \in Carries /\ y.carry \in Carries /\ a.price \in Int /\ b.price \in Int
        BY <3>1, SpanAssumption DEF LiveState
      <4>2. QED
        BY <4>1, SideType
    <3> HIDE DEF found, other
    <3>9. MirrorCarry(Carried(x.carry, a.price, found.side), Carried(y.carry, b.price, other.side))
      BY <3>1, <3>3, <3>5, CarriedMirrored
    <3> DEFINE n == Len(x.sides)
               s == Append(x.sides, found)
               u == Append(y.sides, other)
    <3>10. /\ n \in Nat /\ Len(s) = n + 1 /\ Len(u) = n + 1
           /\ s[n + 1] = found /\ u[n + 1] = other
           /\ \A k \in 1 .. n : s[k] = x.sides[k] /\ u[k] = y.sides[k]
      BY <3>7, <3>8
    <3>11. \A k \in 1 .. n : MirrorSide(x.sides[k], y.sides[k])
      BY DEF MirrorState
    <3> HIDE DEF n, s, u
    <3>12. Len(u) = Len(s) /\ \A k \in 1 .. Len(s) : MirrorSide(s[k], u[k])
      BY <3>5, <3>10, <3>11
    <3>13. QED
      BY <3>3, <3>6, <3>9, <3>12 DEF MirrorState, s, u
  <2>4. QED
    BY <2>2, <2>3
<1>3. QED
  BY <1>1, <1>2

\* Two tapes, the one the mirror of the other.
MirrorTape(one, other) ==
    /\ Len(one) \in Nat /\ DOMAIN one = 1 .. Len(one)
    /\ Len(other) = Len(one) /\ DOMAIN other = DOMAIN one
    /\ \A n \in DOMAIN one :
           /\ one[n] \in TradeTick \cup QuoteTick /\ other[n] \in TradeTick \cup QuoteTick
           /\ MirrorTrade(one[n], other[n]) \/ MirrorQuote(one[n], other[n])

LEMMA LiveMirrored ==
    ASSUME NEW one, NEW other, MirrorTape(one, other)
    PROVE  /\ Len(Live(other)) = Len(Live(one)) /\ Live(one) \in Seq(SideFound)
           /\ \A k \in 1 .. Len(Live(one)) : MirrorSide(Live(one)[k], Live(other)[k])
<1> DEFINE T == Len(one)
<1>1. /\ T \in Nat /\ Len(other) = T
      /\ \A n \in 1 .. T :
             /\ one[n] \in TradeTick \cup QuoteTick /\ other[n] \in TradeTick \cup QuoteTick
             /\ MirrorTrade(one[n], other[n]) \/ MirrorQuote(one[n], other[n])
  BY DEF MirrorTape
<1> HIDE DEF T
<1>2. \A x \in LiveState : \A n \in 1 .. T :
          OnTick(x, one[n]) \in LiveState /\ OnTick(x, other[n]) \in LiveState
  BY <1>1, OnTickType
<1>3. PICK f \in [0 .. T -> LiveState] : Tracks(f, one)
  BY <1>1, <1>2, LiveStartType, LiveBy DEF T
<1>4. PICK g \in [0 .. T -> LiveState] : Tracks(g, other)
  BY <1>1, <1>2, LiveStartType, LiveBy
<1>5. /\ f[0] = LiveStart /\ g[0] = LiveStart
      /\ \A n \in 1 .. T : f[n] = OnTick(f[n - 1], one[n]) /\ g[n] = OnTick(g[n - 1], other[n])
      /\ Live(one) = f[T].sides /\ Live(other) = g[T].sides
  BY <1>1, <1>3, <1>4 DEF Tracks, T
<1> DEFINE S == {n \in 0 .. T : MirrorState(f[n], g[n])}
<1>6. 0 \in S
  <2>1. /\ LiveStart.quote = NoQuote /\ LiveStart.carry = Carry /\ Len(LiveStart.sides) = 0
        /\ Carry.price = NoPrice /\ Carry.direction = Unknown
    BY DEF LiveStart, Carry
  <2>2. Unknown \in TradeSide /\ OtherSide(Unknown) = Unknown
    BY DEF TradeSide, OtherSide, Unknown
  <2>3. MirrorState(LiveStart, LiveStart)
    BY <2>1, <2>2 DEF MirrorState, MirrorHeld, MirrorCarry
  <2>4. QED
    BY <1>1, <1>5, <2>3
<1>7. ASSUME NEW n \in 1 .. T, n - 1 \in S PROVE n \in S
  <2>1. f[n - 1] \in LiveState /\ g[n - 1] \in LiveState /\ MirrorState(f[n - 1], g[n - 1])
    BY <1>7
  <2>2. MirrorState(OnTick(f[n - 1], one[n]), OnTick(g[n - 1], other[n]))
    BY <1>1, <2>1, OnTickMirrored
  <2>3. QED
    BY <1>5, <2>2
<1> HIDE DEF S
<1>8. T \in S
  <2>1. \A n \in 1 .. T : n - 1 \in S => n \in S
    BY <1>7
  <2>2. \A n \in 0 .. T : n \in S
    BY <1>1, <1>6, <2>1, Inductively, Zenon
  <2>3. QED
    BY <1>1, <2>2
<1>9. MirrorState(f[T], g[T]) /\ f[T] \in LiveState
  BY <1>1, <1>8 DEF S
<1>10. QED
  BY <1>5, <1>9 DEF MirrorState, LiveState

-----------------------------------------------------------------------------
(* The mirrored flow.                                                      *)

LEMMA TotalIs ==
    ASSUME NEW n \in Nat, NEW a \in [1 .. n -> Int]
    PROVE  Total(a) \in Int /\ ((\A k \in 1 .. n : a[k] >= 0) => Total(a) >= 0)
<1>1. Len(a) = n /\ \A k \in 1 .. Len(a) : a[k] \in Int
  OBVIOUS
<1>2. PICK f \in [0 .. n -> Int] : AddsUp(f, a)
  BY <1>1, TotalBy
<1>3. Total(a) = f[n] /\ f[0] = 0 /\ \A k \in 1 .. n : f[k] = f[k - 1] + a[k]
  BY <1>1, <1>2 DEF AddsUp
<1>4. Total(a) \in Int
  BY <1>2, <1>3
<1>5. ASSUME \A k \in 1 .. n : a[k] >= 0 PROVE Total(a) >= 0
  <2> DEFINE S == {k \in 0 .. n : f[k] >= 0}
  <2>1. 0 \in S
    BY <1>3
  <2>2. \A k \in 1 .. n : k - 1 \in S => k \in S
    <3>1. ASSUME NEW k \in 1 .. n, k - 1 \in S PROVE k \in S
      <4>1. f[k - 1] \in Int /\ f[k - 1] >= 0 /\ a[k] \in Int /\ a[k] >= 0
        BY <1>2, <1>5, <3>1
      <4>2. f[k] >= 0
        BY <1>3, <4>1
      <4>3. QED
        BY <4>2
    <3>2. QED
      BY <3>1
  <2> HIDE DEF S
  <2>3. \A k \in 0 .. n : k \in S
    BY <2>1, <2>2, Inductively, Zenon
  <2>4. QED
    BY <1>3, <2>3 DEF S
<1>6. QED
  BY <1>4, <1>5

LEMMA TotalNegated ==
    ASSUME NEW n \in Nat, NEW a \in [1 .. n -> Int], NEW b \in [1 .. n -> Int],
           \A k \in 1 .. n : b[k] = -a[k]
    PROVE  Total(b) = -Total(a)
<1>1. Len(a) = n /\ Len(b) = n
  OBVIOUS
<1>2. PICK f \in [0 .. n -> Int] : AddsUp(f, a)
  BY <1>1, TotalBy
<1>3. PICK g \in [0 .. n -> Int] : AddsUp(g, b)
  BY <1>1, TotalBy
<1>4. /\ Total(a) = f[n] /\ f[0] = 0 /\ \A k \in 1 .. n : f[k] = f[k - 1] + a[k]
      /\ Total(b) = g[n] /\ g[0] = 0 /\ \A k \in 1 .. n : g[k] = g[k - 1] + b[k]
  BY <1>1, <1>2, <1>3 DEF AddsUp
<1> DEFINE S == {k \in 0 .. n : g[k] = -f[k]}
<1>5. 0 \in S
  BY <1>4
<1>6. \A k \in 1 .. n : k - 1 \in S => k \in S
  <2>1. ASSUME NEW k \in 1 .. n, k - 1 \in S PROVE k \in S
    <3>1. /\ f[k - 1] \in Int /\ g[k - 1] = -f[k - 1]
          /\ a[k] \in Int /\ b[k] = -a[k]
      BY <1>2, <2>1
    <3>2. f[k] = f[k - 1] + a[k] /\ g[k] = g[k - 1] + b[k]
      BY <1>4
    <3>3. g[k] = -f[k]
      BY <3>1, <3>2
    <3>4. QED
      BY <3>3
  <2>2. QED
    BY <2>1
<1> HIDE DEF S
<1>7. \A k \in 0 .. n : k \in S
  BY <1>5, <1>6, Inductively, Zenon
<1>8. QED
  BY <1>4, <1>7 DEF S

\* A quantity that may be absent, and its negative.
OptionalInt == Int \cup {Absent}
Negated(x) == IF x = Absent THEN Absent ELSE -x

LEMMA PercentNegated ==
    ASSUME NEW n \in Int, NEW d \in Nat
    PROVE  /\ Percent(n, d) \in OptionalInt
           /\ Percent(-n, d) = Negated(Percent(n, d))
<1>1. CASE d = 0
  BY <1>1 DEF Percent, OptionalInt, Negated
<1>2. CASE d # 0
  <2> DEFINE a == (100 * n) \div d
             b == (-100 * n) \div d
  <2>1. d > 0 /\ a \in Int /\ b \in Int /\ (n = 0 => a = 0 /\ b = 0)
    BY <1>2
  <2>2. 100 * (-n) = -100 * n /\ -100 * (-n) = 100 * n
    OBVIOUS
  <2>3. Percent(n, d) = IF n < 0 THEN -b ELSE a
    BY <1>2 DEF Percent
  <2>4. Percent(-n, d) = IF -n < 0 THEN -a ELSE b
    BY <1>2, <2>2 DEF Percent
  <2> HIDE DEF a, b
  <2>5. Percent(n, d) \in Int /\ Percent(-n, d) = -Percent(n, d)
    BY <2>1, <2>3, <2>4
  <2>6. QED
    BY <2>5, AbsentAssumption DEF OptionalInt, Negated
<1>3. QED
  BY <1>1, <1>2

LEMMA Negating ==
    /\ \A x \in OptionalInt : x = Absent \/ x \in Int
    /\ \A x \in OptionalInt : Negated(x) \in OptionalInt /\ (Negated(x) = Absent <=> x = Absent)
    /\ \A x \in Int : x # Absent /\ x \in OptionalInt /\ Negated(x) = -x
    /\ Absent \in OptionalInt /\ Negated(Absent) = Absent
BY AbsentAssumption DEF OptionalInt, Negated

\* Sided trades, quotes and pairs of quotes of the tape, and of its mirror.
SameLength(s, u) ==
    Len(s) \in Nat /\ DOMAIN s = 1 .. Len(s) /\ Len(u) = Len(s) /\ DOMAIN u = DOMAIN s
MirrorSold(a, b) ==
    /\ a.time \in Int /\ b.time = a.time
    /\ a.price \in Int /\ b.price = Top - a.price /\ a.size \in Nat /\ b.size = a.size
    /\ MirrorSide(a, b)
MirrorTrades(s, u) == SameLength(s, u) /\ \A k \in DOMAIN s : MirrorSold(s[k], u[k])
MirrorQuotes(s, u) == SameLength(s, u) /\ \A k \in DOMAIN s : MirrorQuote(s[k], u[k])
MirrorEvents(s, u) ==
    /\ SameLength(s, u)
    /\ \A k \in DOMAIN s : MirrorQuote(s[k][1], u[k][1]) /\ MirrorQuote(s[k][2], u[k][2])

LEMMA OfiMirrored ==
    ASSUME NEW a, NEW b, NEW c, NEW d, MirrorQuote(a, b), MirrorQuote(c, d)
    PROVE  /\ BidOfi(a, c) \in Int /\ AskOfi(a, c) \in Int
           /\ BidOfi(b, d) = -AskOfi(a, c) /\ AskOfi(b, d) = -BidOfi(a, c)
<1>1. Top \in Nat
  BY SpanAssumption
<1>2. QED
  BY <1>1 DEF MirrorQuote, BidOfi, AskOfi

\* What was bought is sold.
LEMMA VolumesMirrored ==
    ASSUME NEW s, NEW u, MirrorTrades(s, u)
    PROVE  /\ VolumeOf(s, "buy") \in Nat /\ VolumeOf(s, "sell") \in Nat
           /\ VolumeOf(u, "buy") = VolumeOf(s, "sell") /\ VolumeOf(u, "sell") = VolumeOf(s, "buy")
           /\ VolumeBy(s, "quote test") \in Nat
           /\ VolumeBy(u, "quote test") = VolumeBy(s, "quote test")
           /\ Total([k \in DOMAIN s |-> s[k].size]) \in Nat
           /\ Total([k \in DOMAIN u |-> u[k].size]) = Total([k \in DOMAIN s |-> s[k].size])
<1> DEFINE n == Len(s)
           of(x, side) == [k \in 1 .. n |-> IF x[k].side = side THEN x[k].size ELSE 0]
           by(x) == [k \in 1 .. n |-> IF x[k].method = "quote test" THEN x[k].size ELSE 0]
           all(x) == [k \in 1 .. n |-> x[k].size]
<1>1. /\ n \in Nat /\ DOMAIN s = 1 .. n /\ DOMAIN u = 1 .. n
      /\ \A k \in 1 .. n : /\ s[k].size \in Nat /\ u[k].size = s[k].size
                           /\ s[k].side \in TradeSide /\ u[k].side = OtherSide(s[k].side)
                           /\ u[k].method = s[k].method
  BY DEF MirrorTrades, SameLength, MirrorSold, MirrorSide
<1>2. /\ VolumeOf(s, "buy") = Total(of(s, "buy")) /\ VolumeOf(s, "sell") = Total(of(s, "sell"))
      /\ VolumeOf(u, "buy") = Total(of(u, "buy")) /\ VolumeOf(u, "sell") = Total(of(u, "sell"))
      /\ VolumeBy(s, "quote test") = Total(by(s)) /\ VolumeBy(u, "quote test") = Total(by(u))
  BY <1>1 DEF VolumeOf, VolumeBy
<1>3. \A side \in TradeSide : /\ OtherSide(side) = "buy" <=> side = "sell"
                              /\ OtherSide(side) = "sell" <=> side = "buy"
  BY DEF OtherSide, TradeSide, Unknown
<1> HIDE DEF n
<1>4. of(u, "buy") = of(s, "sell") /\ of(u, "sell") = of(s, "buy")
  BY <1>1, <1>3
<1>5. by(u) = by(s) /\ all(u) = all(s)
  BY <1>1
<1>6. ASSUME NEW a \in [1 .. n -> Nat] PROVE Total(a) \in Nat
  <2>1. a \in [1 .. n -> Int] /\ \A k \in 1 .. n : a[k] >= 0
    OBVIOUS
  <2>2. QED
    BY <1>1, <2>1, TotalIs
<1>7. /\ of(s, "buy") \in [1 .. n -> Nat] /\ of(s, "sell") \in [1 .. n -> Nat]
      /\ by(s) \in [1 .. n -> Nat] /\ all(s) \in [1 .. n -> Nat]
  BY <1>1
<1> HIDE DEF of, by, all
<1>8. /\ Total(of(s, "buy")) \in Nat /\ Total(of(s, "sell")) \in Nat
      /\ Total(by(s)) \in Nat /\ Total(all(s)) \in Nat
  BY <1>6, <1>7
<1>9. Total([k \in DOMAIN s |-> s[k].size]) = Total(all(s))
      /\ Total([k \in DOMAIN u |-> u[k].size]) = Total(all(u))
  BY <1>1 DEF all
<1>10. QED
  BY <1>2, <1>4, <1>5, <1>8, <1>9

\* What the quotes add up to is negated.
LEMMA EventsMirrored ==
    ASSUME NEW s, NEW u, MirrorEvents(s, u)
    PROVE  LET ofi(x) == Total([k \in DOMAIN x |-> BidOfi(x[k][1], x[k][2]) + AskOfi(x[k][1], x[k][2])])
               activity(x) == Total([k \in DOMAIN x |-> Magnitude(BidOfi(x[k][1], x[k][2]))
                                                            + Magnitude(AskOfi(x[k][1], x[k][2]))])
           IN /\ ofi(s) \in Int /\ ofi(u) = -ofi(s)
              /\ activity(s) \in Nat /\ activity(u) = activity(s)
<1> DEFINE n == Len(s)
           bid(x) == [k \in 1 .. n |-> BidOfi(x[k][1], x[k][2])]
           ask(x) == [k \in 1 .. n |-> AskOfi(x[k][1], x[k][2])]
           sum(x) == [k \in 1 .. n |-> bid(x)[k] + ask(x)[k]]
           act(x) == [k \in 1 .. n |-> Magnitude(bid(x)[k]) + Magnitude(ask(x)[k])]
<1>1. /\ n \in Nat /\ DOMAIN s = 1 .. n /\ DOMAIN u = 1 .. n
      /\ \A k \in 1 .. n : MirrorQuote(s[k][1], u[k][1]) /\ MirrorQuote(s[k][2], u[k][2])
  BY DEF MirrorEvents, SameLength
<1> HIDE DEF n
<1>2. ASSUME NEW k \in 1 .. n
      PROVE  /\ bid(s)[k] \in Int /\ ask(s)[k] \in Int
             /\ bid(u)[k] = -ask(s)[k] /\ ask(u)[k] = -bid(s)[k]
  <2>1. MirrorQuote(s[k][1], u[k][1]) /\ MirrorQuote(s[k][2], u[k][2])
    BY <1>1
  <2>2. QED
    BY <2>1, OfiMirrored
<1>3. /\ [k \in DOMAIN s |-> BidOfi(s[k][1], s[k][2]) + AskOfi(s[k][1], s[k][2])] = sum(s)
      /\ [k \in DOMAIN u |-> BidOfi(u[k][1], u[k][2]) + AskOfi(u[k][1], u[k][2])] = sum(u)
      /\ [k \in DOMAIN s |-> Magnitude(BidOfi(s[k][1], s[k][2]))
                                 + Magnitude(AskOfi(s[k][1], s[k][2]))] = act(s)
      /\ [k \in DOMAIN u |-> Magnitude(BidOfi(u[k][1], u[k][2]))
                                 + Magnitude(AskOfi(u[k][1], u[k][2]))] = act(u)
  BY <1>1
<1> HIDE DEF bid, ask
<1>4. sum(s) \in [1 .. n -> Int] /\ sum(u) \in [1 .. n -> Int] /\ \A k \in 1 .. n : sum(u)[k] = -sum(s)[k]
  BY <1>2
<1>5. act(s) \in [1 .. n -> Int] /\ \A k \in 1 .. n : act(s)[k] >= 0
  BY <1>2 DEF Magnitude
<1>6. act(u) = act(s)
  BY <1>2 DEF Magnitude
<1> HIDE DEF sum, act
<1>7. Total(sum(s)) \in Int /\ Total(sum(u)) = -Total(sum(s))
  BY <1>1, <1>4, TotalIs, TotalNegated
<1>8. Total(act(s)) \in Nat
  <2>1. Total(act(s)) \in Int /\ Total(act(s)) >= 0
    BY <1>1, <1>5, TotalIs
  <2>2. QED
    BY <2>1
<1>9. QED
  BY <1>3, <1>6, <1>7, <1>8

LEMMA EmptyByLength ==
    ASSUME NEW s, NEW u, Len(s) = 0, DOMAIN s = 1 .. Len(s), DOMAIN u = DOMAIN s
    PROVE  s = <<>> /\ u = <<>>
OBVIOUS

LEMMA MidMirrored ==
    ASSUME NEW a, NEW b, MirrorQuote(a, b)
    PROVE  a.bid + a.ask \in Int /\ b.bid + b.ask = 2 * Top - (a.bid + a.ask)
<1>1. Top \in Nat /\ a.bid \in Int /\ a.ask \in Int /\ b.bid = Top - a.ask /\ b.ask = Top - a.bid
  BY SpanAssumption DEF MirrorQuote
<1>2. QED
  BY <1>1

LEMMA ChangeMirrored ==
    ASSUME NEW s, NEW u, MirrorTrades(s, u), NEW q, NEW r, MirrorQuotes(q, r)
    PROVE  /\ Change(s, q) \in OptionalInt
           /\ Change(u, r) = Negated(Change(s, q))
<1>1. /\ Len(s) \in Nat /\ DOMAIN s = 1 .. Len(s) /\ Len(u) = Len(s) /\ DOMAIN u = DOMAIN s
      /\ Len(q) \in Nat /\ DOMAIN q = 1 .. Len(q) /\ Len(r) = Len(q) /\ DOMAIN r = DOMAIN q
  BY DEF MirrorTrades, MirrorQuotes, SameLength
<1>2. Top \in Nat /\ DOMAIN <<>> = {}
  BY SpanAssumption
<1>3. CASE Len(s) # 0
  <2>1. 1 \in DOMAIN s /\ Len(s) \in DOMAIN s /\ s # <<>> /\ u # <<>>
    BY <1>1, <1>2, <1>3
  <2> DEFINE a == s[1].price
             b == s[Len(s)].price
  <2>2. a \in Int /\ b \in Int /\ u[1].price = Top - a /\ u[Len(s)].price = Top - b
    BY <2>1 DEF MirrorTrades, MirrorSold
  <2>3. Change(s, q) = 2 * (b - a) /\ Change(u, r) = 2 * (u[Len(s)].price - u[1].price)
    BY <1>1, <2>1 DEF Change
  <2> HIDE DEF a, b
  <2>4. Change(s, q) \in Int /\ Change(u, r) = -Change(s, q)
    BY <1>2, <2>2, <2>3
  <2>5. QED
    BY <2>4, Negating
<1>4. CASE Len(s) = 0
  <2>1. s = <<>> /\ u = <<>>
    BY <1>1, <1>4, EmptyByLength
  <2>2. CASE Len(q) # 0
    <3>1. 1 \in DOMAIN q /\ Len(q) \in DOMAIN q /\ q # <<>> /\ r # <<>>
      BY <1>1, <1>2, <2>2
    <3> DEFINE mid(x) == x.bid + x.ask
               a == q[1]
               b == q[Len(q)]
    <3>2. MirrorQuote(a, r[1]) /\ MirrorQuote(b, r[Len(q)])
      BY <3>1 DEF MirrorQuotes
    <3>3. /\ mid(a) \in Int /\ mid(b) \in Int
          /\ mid(r[1]) = 2 * Top - mid(a) /\ mid(r[Len(q)]) = 2 * Top - mid(b)
      BY <3>2, MidMirrored, Zenon
    <3>4. Change(s, q) = mid(b) - mid(a) /\ Change(u, r) = mid(r[Len(q)]) - mid(r[1])
      BY <1>1, <2>1, <3>1 DEF Change
    <3> HIDE DEF mid, a, b
    <3>5. Change(s, q) \in Int /\ Change(u, r) = -Change(s, q)
      BY <1>2, <3>3, <3>4
    <3>6. QED
      BY <3>5, Negating
  <2>3. CASE Len(q) = 0
    <3>1. q = <<>> /\ r = <<>>
      BY <1>1, <2>3, EmptyByLength
    <3>2. QED
      BY <2>1, <3>1, Negating DEF Change
  <2>4. QED
    BY <2>2, <2>3
<1>5. QED
  BY <1>3, <1>4

LEMMA MicropriceMirrored ==
    ASSUME NEW q, NEW r, MirrorQuotes(q, r)
    PROVE  /\ Microprice(q) \in OptionalInt
           /\ Microprice(r) = Negated(Microprice(q))
<1> DEFINE shown(x) == {k \in DOMAIN x : x[k].bidSize + x[k].askSize > 0}
           l == Latest(shown(q))
<1>1. /\ Len(q) \in Nat /\ DOMAIN q = 1 .. Len(q) /\ DOMAIN r = DOMAIN q
      /\ \A k \in DOMAIN q : MirrorQuote(q[k], r[k])
  BY DEF MirrorQuotes, SameLength
<1>2. shown(r) = shown(q)
  BY <1>1 DEF MirrorQuote
<1>3. CASE shown(q) = {}
  BY <1>2, <1>3, Negating DEF Microprice
<1>4. CASE shown(q) # {}
  <2>1. shown(q) \in SUBSET (1 .. Len(q)) /\ IsFiniteSet(1 .. Len(q))
    BY <1>1, FS_Interval
  <2>2. IsFiniteSet(shown(q)) /\ shown(q) \subseteq Int
    <3> HIDE DEF shown
    <3>1. IsFiniteSet(shown(q))
      BY <2>1, FS_Subset, Zenon
    <3>2. QED
      BY <2>1, <3>1
  <2>3. l \in shown(q)
    <3> HIDE DEF shown
    <3>1. QED
      BY <1>4, <2>2, LatestIs
  <2>4. MirrorQuote(q[l], r[l])
    BY <1>1, <2>3
  <2>5. /\ Microprice(q) = IF q[l].ask = q[l].bid \/ q[l].bidSize = q[l].askSize THEN 0
                           ELSE IF q[l].bidSize > q[l].askSize THEN 100 ELSE -100
        /\ Microprice(r) = IF r[l].ask = r[l].bid \/ r[l].bidSize = r[l].askSize THEN 0
                           ELSE IF r[l].bidSize > r[l].askSize THEN 100 ELSE -100
    BY <1>2, <1>4 DEF Microprice
  <2> HIDE DEF l
  <2>6. Microprice(q) \in Int /\ Microprice(r) = -Microprice(q)
    BY <2>4, <2>5, SpanAssumption DEF MirrorQuote
  <2>7. QED
    BY <2>6, Negating
<1>5. QED
  BY <1>3, <1>4

\* The flow of the mirrored ticks: signs are turned, shares stay.
MirrorFlow(x, y) ==
    /\ x.trades \in Nat /\ y.trades = x.trades
    /\ x.deltaRatio \in OptionalInt /\ y.deltaRatio = Negated(x.deltaRatio)
    /\ x.coverage \in Int /\ y.coverage = x.coverage
    /\ x.quoteCoverage \in Int /\ y.quoteCoverage = x.quoteCoverage
    /\ x.ofiRatio \in OptionalInt /\ y.ofiRatio = Negated(x.ofiRatio)
    /\ x.change \in OptionalInt /\ y.change = Negated(x.change)
    /\ x.microprice \in OptionalInt /\ y.microprice = Negated(x.microprice)

LEMMA FlowMirrored ==
    ASSUME NEW s, NEW u, MirrorTrades(s, u), NEW q, NEW r, MirrorQuotes(q, r),
           NEW e, NEW d, MirrorEvents(e, d)
    PROVE  MirrorFlow(Flow(s, q, e), Flow(u, r, d))
<1> DEFINE bought(x) == VolumeOf(x, "buy")
           sold(x) == VolumeOf(x, "sell")
           traded(x) == Total([k \in DOMAIN x |-> x[k].size])
           ofi(x) == Total([k \in DOMAIN x |-> BidOfi(x[k][1], x[k][2]) + AskOfi(x[k][1], x[k][2])])
           activity(x) == Total([k \in DOMAIN x |-> Magnitude(BidOfi(x[k][1], x[k][2]))
                                                        + Magnitude(AskOfi(x[k][1], x[k][2]))])
           quoted(x) == VolumeBy(x, "quote test")
<1>1. ASSUME NEW x, NEW y, NEW z
      PROVE  Flow(x, y, z) =
          [trades |-> Len(x),
           delta |-> bought(x) - sold(x),
           deltaRatio |-> Percent(bought(x) - sold(x), bought(x) + sold(x)),
           coverage |-> ValueOr(Percent(bought(x) + sold(x), traded(x)), 0),
           quoteCoverage |-> ValueOr(Percent(quoted(x), traded(x)), 0),
           ofi |-> ofi(z),
           ofiRatio |-> Percent(ofi(z), activity(z)),
           change |-> Change(x, y),
           microprice |-> Microprice(y)]
  <2> DEFINE bid == [k \in DOMAIN z |-> BidOfi(z[k][1], z[k][2])]
             ask == [k \in DOMAIN z |-> AskOfi(z[k][1], z[k][2])]
             sum == [k \in DOMAIN z |-> bid[k] + ask[k]]
             act == [k \in DOMAIN z |-> Magnitude(bid[k]) + Magnitude(ask[k])]
  <2>1. Flow(x, y, z) =
          [trades |-> Len(x),
           delta |-> bought(x) - sold(x),
           deltaRatio |-> Percent(bought(x) - sold(x), bought(x) + sold(x)),
           coverage |-> ValueOr(Percent(bought(x) + sold(x), traded(x)), 0),
           quoteCoverage |-> ValueOr(Percent(quoted(x), traded(x)), 0),
           ofi |-> Total(sum),
           ofiRatio |-> Percent(Total(sum), Total(act)),
           change |-> Change(x, y),
           microprice |-> Microprice(y)]
    BY Zenon DEF Flow
  <2>2. sum = [k \in DOMAIN z |-> BidOfi(z[k][1], z[k][2]) + AskOfi(z[k][1], z[k][2])]
    OBVIOUS
  <2>3. act = [k \in DOMAIN z |-> Magnitude(BidOfi(z[k][1], z[k][2]))
                                      + Magnitude(AskOfi(z[k][1], z[k][2]))]
    OBVIOUS
  <2> HIDE DEF sum, act, bought, sold, traded, quoted
  <2>4. QED
    BY <2>1, <2>2, <2>3, Zenon
<1>2. /\ bought(s) \in Nat /\ sold(s) \in Nat /\ bought(u) = sold(s) /\ sold(u) = bought(s)
      /\ quoted(s) \in Nat /\ quoted(u) = quoted(s)
      /\ traded(s) \in Nat /\ traded(u) = traded(s)
  BY VolumesMirrored, Zenon
<1>3. /\ ofi(e) \in Int /\ ofi(d) = -ofi(e)
      /\ activity(e) \in Nat /\ activity(d) = activity(e)
  BY EventsMirrored, Zenon
<1>4. Len(s) \in Nat /\ Len(u) = Len(s)
  BY DEF MirrorTrades, SameLength
<1>5. /\ Change(s, q) \in OptionalInt /\ Change(u, r) = Negated(Change(s, q))
      /\ Microprice(q) \in OptionalInt /\ Microprice(r) = Negated(Microprice(q))
  BY ChangeMirrored, MicropriceMirrored
<1> HIDE DEF bought, sold, traded, ofi, activity, quoted
<1>6. /\ bought(s) - sold(s) \in Int /\ bought(s) + sold(s) \in Nat
      /\ bought(u) - sold(u) = -(bought(s) - sold(s)) /\ bought(u) + sold(u) = bought(s) + sold(s)
  BY <1>2
<1>7. /\ Percent(bought(s) - sold(s), bought(s) + sold(s)) \in OptionalInt
      /\ Percent(bought(u) - sold(u), bought(u) + sold(u))
             = Negated(Percent(bought(s) - sold(s), bought(s) + sold(s)))
  BY <1>6, PercentNegated
<1>8. /\ Percent(ofi(e), activity(e)) \in OptionalInt
      /\ Percent(ofi(d), activity(d)) = Negated(Percent(ofi(e), activity(e)))
  BY <1>3, PercentNegated
<1>9. /\ ValueOr(Percent(bought(s) + sold(s), traded(s)), 0) \in Int
      /\ ValueOr(Percent(quoted(s), traded(s)), 0) \in Int
  <2>1. /\ Percent(bought(s) + sold(s), traded(s)) \in OptionalInt
        /\ Percent(quoted(s), traded(s)) \in OptionalInt
    <3>1. bought(s) + sold(s) \in Int /\ quoted(s) \in Int
      BY <1>2
    <3>2. QED
      BY <1>2, <3>1, PercentNegated
  <2>2. QED
    BY <2>1 DEF ValueOr, OptionalInt
<1>10. QED
  BY <1>1, <1>2, <1>4, <1>5, <1>6, <1>7, <1>8, <1>9 DEF MirrorFlow

\* What two sequences have at the same positions.
LEMMA PickedBoth ==
    ASSUME NEW K \in SUBSET Int, IsFiniteSet(K), NEW a, NEW b
    PROVE  /\ SameLength(Picked(a, K), Picked(b, K))
           /\ \A j \in DOMAIN Picked(a, K) :
                  \E k \in K : Picked(a, K)[j] = a[k] /\ Picked(b, K)[j] = b[k]
<1> DEFINE n == Cardinality(K)
           f == InOrder(K)
<1>1. n \in Nat /\ f \in [1 .. n -> K]
  BY InOrderPlaces DEF Placed
<1>2. Picked(a, K) = [k \in 1 .. n |-> a[f[k]]] /\ Picked(b, K) = [k \in 1 .. n |-> b[f[k]]]
  BY PickedIs
<1> HIDE DEF n, f
<1>3. \A j \in 1 .. n : f[j] \in K
  BY <1>1
<1>4. SameLength(Picked(a, K), Picked(b, K))
  BY <1>1, <1>2 DEF SameLength
<1>5. QED
  BY <1>2, <1>3, <1>4

LEMMA PickedMirrored ==
    ASSUME NEW s, NEW u, NEW K \in SUBSET DOMAIN s, Len(s) \in Nat, DOMAIN s = 1 .. Len(s)
    PROVE  /\ MirrorTrades(s, u) => MirrorTrades(Picked(s, K), Picked(u, K))
           /\ MirrorQuotes(s, u) => MirrorQuotes(Picked(s, K), Picked(u, K))
<1>1. K \in SUBSET Int /\ IsFiniteSet(K)
  <2>1. IsFiniteSet(DOMAIN s)
    BY FS_Interval
  <2>2. IsFiniteSet(K)
    BY <2>1, FS_Subset, Zenon
  <2>3. QED
    BY <2>2
<1>2. /\ SameLength(Picked(s, K), Picked(u, K))
      /\ \A j \in DOMAIN Picked(s, K) :
             \E k \in DOMAIN s : Picked(s, K)[j] = s[k] /\ Picked(u, K)[j] = u[k]
  BY <1>1, PickedBoth
<1>3. MirrorTrades(s, u) => MirrorTrades(Picked(s, K), Picked(u, K))
  BY <1>2, Zenon DEF MirrorTrades
<1>4. MirrorQuotes(s, u) => MirrorQuotes(Picked(s, K), Picked(u, K))
  BY <1>2, Zenon DEF MirrorQuotes
<1>5. QED
  BY <1>3, <1>4

LEMMA PairsMirrored ==
    ASSUME NEW q, NEW r, MirrorQuotes(q, r)
    PROVE  MirrorEvents(Pairs(q), Pairs(r))
<1>1. /\ Len(q) \in Nat /\ DOMAIN q = 1 .. Len(q) /\ Len(r) = Len(q) /\ DOMAIN r = DOMAIN q
      /\ \A k \in DOMAIN q : MirrorQuote(q[k], r[k])
  BY DEF MirrorQuotes, SameLength
<1>2. CASE Len(q) = 0
  <2>1. q = <<>> /\ r = <<>>
    BY <1>1, <1>2, EmptyByLength
  <2>2. Pairs(q) = <<>> /\ Pairs(r) = <<>>
    BY <2>1 DEF Pairs
  <2>3. QED
    BY <2>2 DEF MirrorEvents, SameLength
<1>3. CASE Len(q) # 0
  <2> DEFINE n == Len(q) - 1
             s == [k \in 1 .. n |-> <<q[k], q[k + 1]>>]
             u == [k \in 1 .. n |-> <<r[k], r[k + 1]>>]
  <2>1. q # <<>> /\ r # <<>>
    BY <1>1, <1>3
  <2>2. Pairs(q) = s /\ Pairs(r) = u
    BY <1>1, <2>1 DEF Pairs
  <2>3. n \in Nat /\ \A k \in 1 .. n : k \in DOMAIN q /\ k + 1 \in DOMAIN q
    BY <1>1, <1>3
  <2>4. \A k \in 1 .. n : s[k][1] = q[k] /\ s[k][2] = q[k + 1] /\ u[k][1] = r[k] /\ u[k][2] = r[k + 1]
    OBVIOUS
  <2> HIDE DEF n
  <2>5. SameLength(s, u) /\ DOMAIN s = 1 .. n
    BY <2>3 DEF SameLength
  <2> HIDE DEF s, u
  <2>6. \A k \in DOMAIN s : MirrorQuote(s[k][1], u[k][1]) /\ MirrorQuote(s[k][2], u[k][2])
    BY <1>1, <2>3, <2>4, <2>5
  <2>7. QED
    BY <2>2, <2>5, <2>6 DEF MirrorEvents
<1>4. QED
  BY <1>2, <1>3

MirrorWindow(x, y) == y.complete = x.complete /\ x.complete \in BOOLEAN /\ MirrorFlow(x.flow, y.flow)

LEMMA WindowMirrored ==
    ASSUME NEW s, NEW u, MirrorTrades(s, u), NEW q, NEW r, MirrorQuotes(q, r), NEW from
    PROVE  MirrorWindow(Window(s, q, from, End), Window(u, r, from, End))
<1>1. /\ Len(s) \in Nat /\ DOMAIN s = 1 .. Len(s) /\ DOMAIN u = DOMAIN s
      /\ \A k \in DOMAIN s : u[k].time = s[k].time /\ u[k].size = s[k].size
  BY DEF MirrorTrades, SameLength, MirrorSold
<1>2. /\ Len(q) \in Nat /\ DOMAIN q = 1 .. Len(q) /\ DOMAIN r = DOMAIN q
      /\ \A k \in DOMAIN q : MirrorQuote(q[k], r[k])
  BY DEF MirrorQuotes, SameLength
<1>3. \A k \in DOMAIN q : r[k].time = q[k].time /\ (ValidQuote(r[k]) <=> ValidQuote(q[k]))
  BY <1>2, MirrorOrdered DEF MirrorQuote
<1>4. SizedIn(u, from) = SizedIn(s, from) /\ SizedIn(s, from) \in SUBSET DOMAIN s
  BY <1>1 DEF SizedIn
<1>5. ValidIn(r) = ValidIn(q) /\ ValidIn(q) \in SUBSET DOMAIN q
  BY <1>2, <1>3 DEF ValidIn
<1>6. BeforeIn(r, from) = BeforeIn(q, from) /\ BeforeIn(q, from) \in SUBSET DOMAIN q
  BY <1>3, <1>5 DEF BeforeIn
<1>7. InsideIn(r, from) = InsideIn(q, from) /\ InsideIn(q, from) \in SUBSET DOMAIN q
  BY <1>3, <1>5 DEF InsideIn
<1>8. LeadInto(r, from) = LeadInto(q, from) /\ LeadInto(q, from) \in SUBSET DOMAIN q
  <2>1. BeforeIn(q, from) # {} => Latest(BeforeIn(q, from)) \in BeforeIn(q, from)
    <3>1. BeforeIn(q, from) \subseteq Int /\ IsFiniteSet(BeforeIn(q, from))
      <4>1. IsFiniteSet(DOMAIN q)
        BY <1>2, FS_Interval
      <4>2. IsFiniteSet(BeforeIn(q, from))
        BY <1>6, <4>1, FS_Subset, Zenon
      <4>3. QED
        BY <1>2, <1>6, <4>2
    <3>2. QED
      BY <3>1, LatestIs
  <2>2. QED
    BY <1>6, <1>7, <2>1 DEF LeadInto, LeadIn
<1>9. MirrorTrades(Picked(s, SizedIn(s, from)), Picked(u, SizedIn(s, from)))
  BY <1>1, <1>4, PickedMirrored
<1>10. /\ MirrorQuotes(Picked(q, InsideIn(q, from)), Picked(r, InsideIn(q, from)))
       /\ MirrorQuotes(Picked(q, LeadInto(q, from)), Picked(r, LeadInto(q, from)))
  BY <1>2, <1>7, <1>8, PickedMirrored
<1>11. MirrorEvents(Pairs(Picked(q, LeadInto(q, from))), Pairs(Picked(r, LeadInto(q, from))))
  BY <1>10, PairsMirrored
<1>12. MirrorFlow(WindowFlow(s, q, from, End), WindowFlow(u, r, from, End))
  <2>1. MirrorFlow(Flow(Picked(s, SizedIn(s, from)), Picked(q, InsideIn(q, from)),
                        Pairs(Picked(q, LeadInto(q, from)))),
                   Flow(Picked(u, SizedIn(s, from)), Picked(r, InsideIn(q, from)),
                        Pairs(Picked(r, LeadInto(q, from)))))
    BY <1>9, <1>10, <1>11, FlowMirrored
  <2>2. WindowFlow(s, q, from, End) = Flow(Picked(s, SizedIn(s, from)), Picked(q, InsideIn(q, from)),
                                           Pairs(Picked(q, LeadInto(q, from))))
    BY WindowOf
  <2>3. WindowFlow(u, r, from, End) = Flow(Picked(u, SizedIn(s, from)), Picked(r, InsideIn(q, from)),
                                           Pairs(Picked(r, LeadInto(q, from))))
    BY <1>4, <1>7, <1>8, WindowOf
  <2>4. QED
    BY <2>1, <2>2, <2>3
<1>13. /\ (Reached(u, from) /\ Reached(r, from)) = (Reached(s, from) /\ Reached(q, from))
       /\ (Reached(s, from) /\ Reached(q, from)) \in BOOLEAN
  <2>1. (Reached(u, from) <=> Reached(s, from)) /\ (Reached(r, from) <=> Reached(q, from))
    BY <1>1, <1>2, <1>3 DEF Reached
  <2>2. QED
    BY <2>1
<1>14. QED
  BY <1>12, <1>13 DEF Window, MirrorWindow

-----------------------------------------------------------------------------
(* The mirrored verdict.                                                   *)

LEMMA CombinedMirrored ==
    ASSUME NEW x, NEW y, MirrorFlow(x, y)
    PROVE  Combined(x) \in OptionalInt /\ Combined(y) = Negated(Combined(x))
<1>1. /\ x.deltaRatio \in OptionalInt /\ y.deltaRatio = Negated(x.deltaRatio)
      /\ x.ofiRatio \in OptionalInt /\ y.ofiRatio = Negated(x.ofiRatio)
  BY DEF MirrorFlow
<1> DEFINE d == x.deltaRatio
           o == x.ofiRatio
<1>2. Combined(x) = IF d # Absent /\ o # Absent THEN 60 * d + 40 * o
                    ELSE IF d # Absent THEN 100 * d ELSE IF o # Absent THEN 100 * o ELSE Absent
  BY DEF Combined
<1>3. Combined(y) = IF Negated(d) # Absent /\ Negated(o) # Absent
                    THEN 60 * Negated(d) + 40 * Negated(o)
                    ELSE IF Negated(d) # Absent THEN 100 * Negated(d)
                    ELSE IF Negated(o) # Absent THEN 100 * Negated(o) ELSE Absent
  BY <1>1 DEF Combined
<1>4. d \in OptionalInt /\ o \in OptionalInt
  BY <1>1
<1> HIDE DEF d, o
<1>5. CASE d = Absent /\ o = Absent
  BY <1>2, <1>3, <1>5, Negating
<1>6. CASE d # Absent /\ o = Absent
  <2>1. d \in Int /\ Negated(d) = -d /\ Negated(d) # Absent /\ Negated(o) = Absent
    BY <1>4, <1>6, Negating
  <2>2. Combined(x) = 100 * d /\ Combined(y) = 100 * (-d)
    BY <1>2, <1>3, <1>6, <2>1
  <2>3. Combined(x) \in Int /\ Combined(y) = -Combined(x)
    BY <2>1, <2>2
  <2>4. QED
    BY <2>3, Negating
<1>7. CASE d = Absent /\ o # Absent
  <2>1. o \in Int /\ Negated(o) = -o /\ Negated(o) # Absent /\ Negated(d) = Absent
    BY <1>4, <1>7, Negating
  <2>2. Combined(x) = 100 * o /\ Combined(y) = 100 * (-o)
    BY <1>2, <1>3, <1>7, <2>1
  <2>3. Combined(x) \in Int /\ Combined(y) = -Combined(x)
    BY <2>1, <2>2
  <2>4. QED
    BY <2>3, Negating
<1>8. CASE d # Absent /\ o # Absent
  <2>1. /\ d \in Int /\ Negated(d) = -d /\ Negated(d) # Absent
        /\ o \in Int /\ Negated(o) = -o /\ Negated(o) # Absent
    BY <1>4, <1>8, Negating
  <2>2. Combined(x) = 60 * d + 40 * o /\ Combined(y) = 60 * (-d) + 40 * (-o)
    BY <1>2, <1>3, <1>8, <2>1
  <2>3. Combined(x) \in Int /\ Combined(y) = -Combined(x)
    BY <2>1, <2>2
  <2>4. QED
    BY <2>3, Negating
<1>9. QED
  BY <1>5, <1>6, <1>7, <1>8

LEMMA ResponseMirrored ==
    ASSUME NEW x, NEW y, MirrorFlow(x, y)
    PROVE  Response(x, Atr) \in OptionalInt /\ Response(y, Atr) = Negated(Response(x, Atr))
<1>1. /\ x.change \in OptionalInt /\ y.change = Negated(x.change)
      /\ 2 * Atr \in Nat
  BY SpanAssumption DEF MirrorFlow
<1>2. CASE x.change = Absent
  BY <1>1, <1>2, Negating DEF Response
<1>3. CASE x.change # Absent
  <2>1. x.change \in Int /\ y.change = -x.change /\ y.change # Absent
    BY <1>1, <1>3, Negating
  <2>2. Response(x, Atr) = Percent(x.change, 2 * Atr) /\ Response(y, Atr) = Percent(-x.change, 2 * Atr)
    BY <1>3, <2>1 DEF Response
  <2>3. QED
    BY <1>1, <2>1, <2>2, PercentNegated
<1>4. QED
  BY <1>2, <1>3

LEMMA QualityMirrored ==
    ASSUME NEW s, NEW u, MirrorWindow(s, u), NEW l, NEW m, MirrorWindow(l, m)
    PROVE  Quality(s, l) \in Int /\ Quality(u, m) = Quality(s, l)
<1>1. /\ u.complete = s.complete /\ m.complete = l.complete
      /\ s.complete \in BOOLEAN /\ l.complete \in BOOLEAN
      /\ u.flow.trades = s.flow.trades /\ m.flow.trades = l.flow.trades
      /\ u.flow.coverage = s.flow.coverage /\ m.flow.coverage = l.flow.coverage
      /\ u.flow.quoteCoverage = s.flow.quoteCoverage /\ m.flow.quoteCoverage = l.flow.quoteCoverage
  BY DEF MirrorWindow, MirrorFlow
<1>2. /\ s.flow.trades \in Nat /\ l.flow.trades \in Nat
      /\ s.flow.coverage \in Int /\ l.flow.coverage \in Int
      /\ s.flow.quoteCoverage \in Int /\ l.flow.quoteCoverage \in Int
  BY DEF MirrorWindow, MirrorFlow
<1>3. Quality(u, m) = Quality(s, l)
  BY <1>1, SMT DEF Quality
<1> DEFINE fewest == IF s.flow.trades < l.flow.trades THEN s.flow.trades ELSE l.flow.trades
           depth == IF fewest > FullDepth THEN 100 ELSE (100 * fewest) \div FullDepth
           whole == IF s.complete /\ l.complete THEN 100 ELSE 0
<1>4. fewest \in Nat /\ whole \in Int
  BY <1>2
<1> HIDE DEF fewest, whole
<1>5. depth \in Int
  BY <1>4, SettingsAssumption
<1> HIDE DEF depth
<1>6. Quality(s, l) = (25 * (s.flow.coverage + l.flow.coverage)
                       + 35 * (s.flow.quoteCoverage + l.flow.quoteCoverage)
                       + 50 * whole + 30 * depth) \div 200
  BY DEF Quality, whole, depth, fewest
<1>7. Quality(s, l) \in Int
  BY <1>2, <1>4, <1>5, <1>6
<1>8. QED
  BY <1>3, <1>7

LEMMA TermsMirrored ==
    /\ \A x \in OptionalInt : ValueOr(x, 0) \in Int /\ ValueOr(Negated(x), 0) = -ValueOr(x, 0)
    /\ \A n \in Int : Clamped(n) \in Int /\ Clamped(-n) = -Clamped(n)
<1>1. ASSUME NEW x \in OptionalInt
      PROVE  ValueOr(x, 0) \in Int /\ ValueOr(Negated(x), 0) = -ValueOr(x, 0)
  <2>1. CASE x = Absent
    <3>1. ValueOr(x, 0) = 0 /\ ValueOr(Negated(x), 0) = 0
      BY <2>1, Negating DEF ValueOr
    <3>2. QED
      BY <3>1
  <2>2. CASE x # Absent
    <3>1. x \in Int /\ Negated(x) = -x /\ Negated(x) # Absent
      BY <2>2, Negating
    <3>2. QED
      BY <2>2, <3>1 DEF ValueOr
  <2>3. QED
    BY <2>1, <2>2
<1>2. ASSUME NEW n \in Int PROVE Clamped(n) \in Int /\ Clamped(-n) = -Clamped(n)
  BY DEF Clamped
<1>3. QED
  BY <1>1, <1>2

LEMMA ScoreMirrored ==
    ASSUME NEW s, NEW u, MirrorWindow(s, u), NEW l, NEW m, MirrorWindow(l, m), NEW p \in Int
    PROVE  Score(s, l, p) \in Int /\ Score(u, m, -p) = -Score(s, l, p)
<1> DEFINE value(x) == ValueOr(x, 0)
           d30 == value(s.flow.deltaRatio)
           d60 == value(l.flow.deltaRatio)
           o30 == value(s.flow.ofiRatio)
           o60 == value(l.flow.ofiRatio)
           micro == value(s.flow.microprice)
           scaled == value(Percent(p, FullResponse))
           raw(a, b, c, d, e, f) ==
               25 * a + 15 * b + 10 * Clamped(a - b) + 20 * c + 10 * d + 5 * Clamped(c - d)
               + 5 * e + 10 * Clamped(f)
<1>1. Score(s, l, p) = raw(d30, d60, o30, o60, micro, scaled) * Quality(s, l)
  BY DEF Score
<1>2. Score(u, m, -p) = raw(value(u.flow.deltaRatio), value(m.flow.deltaRatio),
                            value(u.flow.ofiRatio), value(m.flow.ofiRatio),
                            value(u.flow.microprice), value(Percent(-p, FullResponse)))
                        * Quality(u, m)
  BY DEF Score
<1>3. /\ d30 \in Int /\ value(u.flow.deltaRatio) = -d30
      /\ d60 \in Int /\ value(m.flow.deltaRatio) = -d60
      /\ o30 \in Int /\ value(u.flow.ofiRatio) = -o30
      /\ o60 \in Int /\ value(m.flow.ofiRatio) = -o60
      /\ micro \in Int /\ value(u.flow.microprice) = -micro
  <2>1. /\ s.flow.deltaRatio \in OptionalInt /\ u.flow.deltaRatio = Negated(s.flow.deltaRatio)
        /\ l.flow.deltaRatio \in OptionalInt /\ m.flow.deltaRatio = Negated(l.flow.deltaRatio)
        /\ s.flow.ofiRatio \in OptionalInt /\ u.flow.ofiRatio = Negated(s.flow.ofiRatio)
        /\ l.flow.ofiRatio \in OptionalInt /\ m.flow.ofiRatio = Negated(l.flow.ofiRatio)
        /\ s.flow.microprice \in OptionalInt /\ u.flow.microprice = Negated(s.flow.microprice)
    BY DEF MirrorWindow, MirrorFlow
  <2>2. QED
    BY <2>1, TermsMirrored
<1>4. scaled \in Int /\ value(Percent(-p, FullResponse)) = -scaled
  <2>1. /\ Percent(p, FullResponse) \in OptionalInt
        /\ Percent(-p, FullResponse) = Negated(Percent(p, FullResponse))
    BY PercentNegated, SettingsAssumption
  <2>2. QED
    BY <2>1, TermsMirrored
<1>5. Quality(s, l) \in Int /\ Quality(u, m) = Quality(s, l)
  BY QualityMirrored
<1> HIDE DEF d30, d60, o30, o60, micro, scaled, value
<1> DEFINE r == raw(d30, d60, o30, o60, micro, scaled)
           t == raw(-d30, -d60, -o30, -o60, -micro, -scaled)
           w == Quality(s, l)
<1>6. Score(s, l, p) = r * w /\ Score(u, m, -p) = t * w
  <2> HIDE DEF raw
  <2>1. QED
    BY <1>1, <1>2, <1>3, <1>4, <1>5
<1>7. r \in Int /\ t = -r
  <2> DEFINE x == Clamped(d30 - d60)
             y == Clamped(o30 - o60)
             z == Clamped(scaled)
  <2>1. /\ d30 - d60 \in Int /\ (-d30) - (-d60) = -(d30 - d60)
        /\ o30 - o60 \in Int /\ (-o30) - (-o60) = -(o30 - o60)
    BY <1>3
  <2>2. /\ x \in Int /\ Clamped((-d30) - (-d60)) = -x
        /\ y \in Int /\ Clamped((-o30) - (-o60)) = -y
        /\ z \in Int /\ Clamped(-scaled) = -z
    BY <1>4, <2>1, TermsMirrored
  <2>3. /\ r = 25 * d30 + 15 * d60 + 10 * x + 20 * o30 + 10 * o60 + 5 * y + 5 * micro + 10 * z
        /\ t = 25 * (-d30) + 15 * (-d60) + 10 * (-x) + 20 * (-o30) + 10 * (-o60) + 5 * (-y)
                 + 5 * (-micro) + 10 * (-z)
    BY <2>2
  <2> HIDE DEF x, y, z, r, t
  <2>4. QED
    BY <1>3, <1>4, <2>2, <2>3
<1>8. w \in Int
  BY <1>5
<1> HIDE DEF r, t, w
<1>9. r * w \in Int /\ (-r) * w = -(r * w)
  BY <1>7, <1>8
<1>10. QED
  BY <1>6, <1>7, <1>9

\* The verdict on the mirrored windows.
LEMMA AssessMirrored ==
    ASSUME NEW s, NEW u, MirrorWindow(s, u), NEW l, NEW m, MirrorWindow(l, m), Balanced > 0
    PROVE  /\ Assess(u, m, Atr).pressure = Opposite(Assess(s, l, Atr).pressure)
           /\ Assess(u, m, Atr).score = IF Assess(s, l, Atr).score = Absent THEN Absent
                                        ELSE -Assess(s, l, Atr).score
<1> DEFINE c == Combined(s.flow)
           p == Response(s.flow, Atr)
<1>1. /\ c \in OptionalInt /\ Combined(u.flow) = Negated(c)
      /\ p \in OptionalInt /\ Response(u.flow, Atr) = Negated(p)
  BY CombinedMirrored, ResponseMirrored DEF MirrorWindow
<1>2. u.complete = s.complete /\ m.complete = l.complete
  BY DEF MirrorWindow
<1>3. /\ Assess(s, l, Atr).pressure = Pressure(s, l, Atr)
      /\ Assess(s, l, Atr).score = IF c = Absent \/ p = Absent THEN Absent ELSE Score(s, l, p)
      /\ Assess(u, m, Atr).pressure = Pressure(u, m, Atr)
      /\ Assess(u, m, Atr).score = IF Negated(c) = Absent \/ Negated(p) = Absent THEN Absent
                                   ELSE Score(u, m, Negated(p))
  BY <1>1 DEF Assess
<1> DEFINE verdict(x, y) == IF Magnitude(x) < 100 * Balanced THEN "balanced"
                            ELSE IF x > 0
                            THEN IF y > Deadband THEN "buying_effective" ELSE "buying_absorbed"
                            ELSE IF y < -Deadband THEN "selling_effective" ELSE "selling_absorbed"
<1>4. /\ Pressure(s, l, Atr) = IF ~s.complete \/ ~l.complete \/ c = Absent \/ p = Absent
                               THEN "insufficient_data" ELSE verdict(c, p)
      /\ Pressure(u, m, Atr) = IF ~s.complete \/ ~l.complete \/ Negated(c) = Absent \/ Negated(p) = Absent
                               THEN "insufficient_data" ELSE verdict(Negated(c), Negated(p))
  BY <1>1, <1>2 DEF Pressure
<1> HIDE DEF c, p
<1>5. CASE c = Absent \/ p = Absent
  <2>1. Negated(c) = Absent \/ Negated(p) = Absent
    BY <1>5, Negating
  <2>2. Opposite("insufficient_data") = "insufficient_data"
    BY DEF Opposite
  <2> HIDE DEF verdict
  <2>3. QED
    BY <1>3, <1>4, <1>5, <2>1, <2>2
<1>6. CASE c # Absent /\ p # Absent
  <2>1. /\ c \in Int /\ Negated(c) = -c /\ Negated(c) # Absent
        /\ p \in Int /\ Negated(p) = -p /\ Negated(p) # Absent
    BY <1>1, <1>6, Negating
  <2>2. Score(s, l, p) \in Int /\ Score(u, m, -p) = -Score(s, l, p)
    BY <2>1, ScoreMirrored
  <2>3. verdict(-c, -p) = Opposite(verdict(c, p)) /\ Opposite("insufficient_data") = "insufficient_data"
    <3>1. Balanced \in Nat /\ Balanced > 0 /\ Deadband \in Nat
      BY SettingsAssumption
    <3>2. Magnitude(-c) = Magnitude(c) /\ (Magnitude(c) >= 100 * Balanced => c # 0)
          /\ Magnitude(c) \in Int
      BY <2>1, <3>1 DEF Magnitude
    <3>3. /\ Opposite("balanced") = "balanced"
          /\ Opposite("buying_effective") = "selling_effective"
          /\ Opposite("selling_effective") = "buying_effective"
          /\ Opposite("buying_absorbed") = "selling_absorbed"
          /\ Opposite("selling_absorbed") = "buying_absorbed"
          /\ Opposite("insufficient_data") = "insufficient_data"
      BY DEF Opposite
    <3>4. CASE Magnitude(c) < 100 * Balanced
      BY <3>2, <3>3, <3>4
    <3>5. CASE ~(Magnitude(c) < 100 * Balanced) /\ c > 0
      BY <2>1, <3>1, <3>2, <3>3, <3>5
    <3>6. CASE ~(Magnitude(c) < 100 * Balanced) /\ c < 0
      BY <2>1, <3>1, <3>2, <3>3, <3>6
    <3>7. c = 0 => Magnitude(c) < 100 * Balanced
      BY <2>1, <3>1, <3>2
    <3>8. QED
      BY <2>1, <3>3, <3>4, <3>5, <3>6, <3>7
  <2> HIDE DEF verdict
  <2>4. Assess(u, m, Atr).pressure = Opposite(Assess(s, l, Atr).pressure)
    BY <1>3, <1>4, <1>6, <2>1, <2>3
  <2>5. Assess(s, l, Atr).score = Score(s, l, p) /\ Assess(u, m, Atr).score = -Score(s, l, p)
    BY <1>3, <1>6, <2>1, <2>2
  <2>6. QED
    BY <2>2, <2>4, <2>5, Negating
<1>7. QED
  BY <1>5, <1>6

LEMMA SidedMirrored ==
    ASSUME NEW p, NEW r, SameLength(p, r), NEW f, NEW g,
           \A k \in DOMAIN p : MirrorTrade(p[k], r[k]) /\ p[k].size > 0 /\ MirrorSide(f[k], g[k])
    PROVE  MirrorTrades(Sided(p, f), Sided(r, g))
<1> DEFINE n == Len(p)
           s == Sided(p, f)
           u == Sided(r, g)
<1>1. n \in Nat /\ DOMAIN p = 1 .. n /\ DOMAIN r = 1 .. n
  BY DEF SameLength
<1>2. \A k \in 1 .. n : /\ s[k].time = p[k].time /\ s[k].price = p[k].price /\ s[k].size = p[k].size
                        /\ s[k].side = f[k].side /\ s[k].method = f[k].method
  BY <1>1 DEF Sided
<1>3. \A k \in 1 .. n : /\ u[k].time = r[k].time /\ u[k].price = r[k].price /\ u[k].size = r[k].size
                        /\ u[k].side = g[k].side /\ u[k].method = g[k].method
  BY <1>1 DEF Sided
<1>4. SameLength(s, u) /\ DOMAIN s = 1 .. n
  <2>1. DOMAIN s = 1 .. n /\ DOMAIN u = 1 .. n
    BY <1>1 DEF Sided
  <2>2. Len(s) = n /\ Len(u) = n
    BY <1>1 DEF Sided
  <2>3. QED
    BY <1>1, <2>1, <2>2 DEF SameLength
<1> HIDE DEF n, s, u
<1>5. ASSUME NEW k \in 1 .. n PROVE MirrorSold(s[k], u[k])
  <2>1. MirrorTrade(p[k], r[k]) /\ p[k].size > 0 /\ MirrorSide(f[k], g[k])
    BY <1>1
  <2>2. MirrorSide(s[k], u[k])
    BY <1>2, <1>3, <2>1 DEF MirrorSide
  <2>3. /\ p[k].time \in Int /\ r[k].time = p[k].time
        /\ p[k].price \in Int /\ r[k].price = Top - p[k].price
        /\ p[k].size \in Nat /\ r[k].size = p[k].size
    BY <2>1 DEF MirrorTrade
  <2>4. QED
    BY <1>2, <1>3, <2>2, <2>3 DEF MirrorSold
<1>6. QED
  BY <1>4, <1>5 DEF MirrorTrades, s, u

\* What the tracker takes of a tape, and of its mirror.
TradesHeard(ticks) == {n \in DOMAIN ticks : HeardTrade(ticks[n])}
QuotesHeard(ticks) == {n \in DOMAIN ticks : HeardQuote(ticks[n])}

LEMMA LiveAssessmentIs ==
    ASSUME NEW ticks
    PROVE  LiveAssessment(ticks) =
               LET over(seconds) == Window(Sided(Picked(ticks, TradesHeard(ticks)), Live(ticks)),
                                           Picked(ticks, QuotesHeard(ticks)), End - seconds + 1, End)
               IN Assess(over(ShortWindow + 1), over(LongWindow + 1), Atr)
BY Zenon DEF LiveAssessment, Assessment, TradesHeard, QuotesHeard

LEMMA AssessmentMirrored ==
    ASSUME TypeInv, Balanced > 0, NEW other, MirrorTape(tape, other)
    PROVE  /\ LiveAssessment(other).pressure = Opposite(LiveAssessed.pressure)
           /\ LiveAssessment(other).score = IF LiveAssessed.score = Absent THEN Absent
                                            ELSE -LiveAssessed.score
<1> DEFINE K == TradesHeard(tape)
           Q == QuotesHeard(tape)
           c == Cardinality(K)
           s == Sided(Picked(tape, K), Live(tape))
           u == Sided(Picked(other, K), Live(other))
           q == Picked(tape, Q)
           r == Picked(other, Q)
<1>1. TapeOrdered /\ TapeTyped /\ LiveFound
  BY TapesAreOrdered, TapesAreTyped, LiveFinds DEF TypeInv
<1>2. /\ DOMAIN other = DOMAIN tape
      /\ \A n \in DOMAIN tape : MirrorTrade(tape[n], other[n]) \/ MirrorQuote(tape[n], other[n])
  BY DEF MirrorTape
<1>3. \A n \in DOMAIN tape :
          /\ IsTrade(tape[n]) => MirrorTrade(tape[n], other[n])
          /\ IsQuote(tape[n]) => MirrorQuote(tape[n], other[n])
          /\ HeardTrade(other[n]) <=> HeardTrade(tape[n])
          /\ HeardQuote(other[n]) <=> HeardQuote(tape[n])
  <2> SUFFICES ASSUME NEW n \in DOMAIN tape
               PROVE  /\ IsTrade(tape[n]) => MirrorTrade(tape[n], other[n])
                      /\ IsQuote(tape[n]) => MirrorQuote(tape[n], other[n])
                      /\ HeardTrade(other[n]) <=> HeardTrade(tape[n])
                      /\ HeardQuote(other[n]) <=> HeardQuote(tape[n])
    OBVIOUS
  <2>1. CASE MirrorTrade(tape[n], other[n])
    BY <2>1, MirrorPrinted DEF MirrorTrade, HeardTrade, HeardQuote
  <2>2. CASE MirrorQuote(tape[n], other[n])
    <3>1. /\ QuoteOrdered(other[n]) <=> QuoteOrdered(tape[n])
          /\ Reported(other[n]) <=> Reported(tape[n])
      BY <2>2, MirrorOrdered
    <3>2. IsQuote(tape[n]) /\ IsQuote(other[n]) /\ ~IsTrade(tape[n]) /\ ~IsTrade(other[n])
      BY <2>2 DEF MirrorQuote
    <3>3. QED
      BY <2>2, <3>1, <3>2 DEF HeardTrade, HeardQuote
  <2>3. QED
    BY <1>2, <2>1, <2>2
<1>4. TradesHeard(other) = K /\ QuotesHeard(other) = Q
  BY <1>2, <1>3 DEF TradesHeard, QuotesHeard
<1>5. K \in SUBSET DOMAIN tape /\ Q \in SUBSET DOMAIN tape
  BY DEF TradesHeard, QuotesHeard
<1>6. K \in SUBSET Int /\ IsFiniteSet(K) /\ Q \in SUBSET Int /\ IsFiniteSet(Q)
  BY <1>1, <1>5, TicksInOrder
<1>7. MirrorTrades(s, u)
  <2> DEFINE p == Picked(tape, K)
             w == Picked(other, K)
             f == Live(tape)
             g == Live(other)
  <2>1. /\ SameLength(p, w)
        /\ \A j \in DOMAIN p : \E k \in K : p[j] = tape[k] /\ w[j] = other[k]
    BY <1>6, PickedBoth
  <2>2. DOMAIN p = 1 .. Cardinality(K)
    BY PickedIs
  <2>3. DOMAIN f = 1 .. Cardinality(K)
    <3>1. LiveTrades = InOrder(K)
      BY DEF LiveTrades, TradesHeard
    <3>2. QED
      BY <1>1, <3>1, InOrderDomain DEF LiveFound
  <2>4. /\ DOMAIN f = 1 .. Len(f)
        /\ \A k \in 1 .. Len(f) : MirrorSide(f[k], g[k])
    <3>1. /\ Live(tape) \in Seq(SideFound)
          /\ \A k \in 1 .. Len(f) : MirrorSide(f[k], g[k])
      BY LiveMirrored
    <3>2. DOMAIN f = 1 .. Len(f)
      BY <3>1
    <3>3. QED
      BY <3>1, <3>2
  <2>5. \A k \in DOMAIN p : MirrorSide(f[k], g[k])
    <3>1. DOMAIN p = DOMAIN f
      BY <2>2, <2>3
    <3> HIDE DEF p, f, g
    <3>2. QED
      BY <2>4, <3>1, Zenon
  <2>6. \A k \in K : MirrorTrade(tape[k], other[k]) /\ tape[k].size > 0
    BY <1>3, <1>5 DEF TradesHeard, HeardTrade, Printed
  <2>7. \A k \in DOMAIN p : MirrorTrade(p[k], w[k]) /\ p[k].size > 0 /\ MirrorSide(f[k], g[k])
    <3> HIDE DEF p, w, f, g, K
    <3> QED
      BY <2>1, <2>5, <2>6
  <2> HIDE DEF p, w, f, g, K
  <2>8. MirrorTrades(Sided(p, f), Sided(w, g))
    BY <2>1, <2>7, SidedMirrored
  <2>9. QED
    BY <2>8 DEF p, w, f, g
<1>8. MirrorQuotes(q, r)
  <2>1. /\ SameLength(q, r)
        /\ \A j \in DOMAIN q : \E k \in Q : q[j] = tape[k] /\ r[j] = other[k]
    BY <1>6, PickedBoth
  <2>2. \A k \in Q : MirrorQuote(tape[k], other[k])
    BY <1>3 DEF QuotesHeard, HeardQuote
  <2> HIDE DEF q, r, Q
  <2>3. QED
    BY <2>1, <2>2 DEF MirrorQuotes
<1> DEFINE over(a, b, seconds) == Window(a, b, End - seconds + 1, End)
<1>9. \A seconds : MirrorWindow(over(s, q, seconds), over(u, r, seconds))
  <2> HIDE DEF s, q, u, r
  <2>1. QED
    BY <1>7, <1>8, WindowMirrored
<1>10. /\ LiveAssessed = Assess(over(s, q, ShortWindow + 1), over(s, q, LongWindow + 1), Atr)
       /\ LiveAssessment(other) = Assess(over(u, r, ShortWindow + 1), over(u, r, LongWindow + 1), Atr)
  BY <1>4, LiveAssessmentIs DEF LiveAssessed
<1> HIDE DEF over, s, q, u, r
<1>11. QED
  BY <1>9, <1>10, AssessMirrored

\* Buyers and sellers are treated alike: on the mirrored tape the live pressure is
\* the opposite one and the score is negated.
THEOREM SidesTreatedAlike == Spec => []BuyersLikeSellers
<1>1. TypeInv => BuyersLikeSellers
  <2> DEFINE mirror == [n \in DOMAIN tape |-> Mirrored(tape[n])]
  <2> SUFFICES ASSUME TypeInv, Balanced > 0, \A n \in DOMAIN tape : TwoSided(tape[n])
               PROVE  /\ LiveAssessment(mirror).pressure = Opposite(LiveAssessed.pressure)
                      /\ LiveAssessment(mirror).score = IF LiveAssessed.score = Absent THEN Absent
                                                        ELSE -LiveAssessed.score
    BY Zenon DEF BuyersLikeSellers
  <2>1. TapeTyped
    BY TapesAreTyped DEF TypeInv
  <2>2. \A n \in DOMAIN tape : mirror[n] = Mirrored(tape[n])
    OBVIOUS
  <2>3. DOMAIN mirror = DOMAIN tape /\ Len(mirror) = Len(tape) /\ Len(tape) \in Nat
        /\ DOMAIN tape = 1 .. Len(tape)
    BY <2>1 DEF TapeTyped
  <2> HIDE DEF mirror
  <2>4. \A n \in DOMAIN tape :
            /\ tape[n] \in TradeTick \cup QuoteTick /\ mirror[n] \in TradeTick \cup QuoteTick
            /\ MirrorTrade(tape[n], mirror[n]) \/ MirrorQuote(tape[n], mirror[n])
    BY <2>1, <2>2, MirroredIs DEF TapeTyped
  <2>5. MirrorTape(tape, mirror)
    BY <2>3, <2>4 DEF MirrorTape
  <2>6. QED
    BY <2>5, AssessmentMirrored
<1>2. QED
  BY <1>1, TypeInvHolds, PTL

=============================================================================
