--------------------------- MODULE AnswersProofs ---------------------------
(***************************************************************************)
(* Answers that take their time.  For lists of any length, pages of any size *)
(* and any changes of a list while it is read: a fetch ends within a bounded *)
(* number of pages and a bounded pause on each, reads a list that stays as   *)
(* it is whole, once and in order, and passes over or repeats no more items  *)
(* than came or went.  The argument is one about ranks: the place of an item *)
(* in the list the service holds now, which an edit before it shifts by one. *)
(* For any number of readers, overlays, mountings, sources, turns and        *)
(* copies: the readers of an overlay agree once they are called back, and    *)
(* the drawing, the export and the copy are of the diagram shown.            *)
(***************************************************************************)
EXTENDS PagedFetch, OverlayLoad, MermaidRender, FiniteSetTheorems, SequenceTheorems, TLAPS

(* A finite set of numbers, as the items of a list are.                     *)
Listable(S) == S \subseteq Nat /\ IsFiniteSet(S)

LEMMA Parts == ASSUME NEW S, Listable(S), NEW T, T \subseteq S
               PROVE  /\ Listable(T) /\ Cardinality(T) \in Nat
                      /\ Cardinality(T) <= Cardinality(S)
                      /\ Cardinality(T) = Cardinality(S) => T = S
<1>1. T \in SUBSET S
  OBVIOUS
<1> QED
  BY <1>1, FS_Subset, FS_CardinalityType DEF Listable

LEMMA RankType ==
  ASSUME NEW S, Listable(S), NEW i \in Nat
  PROVE  /\ RankIn(S, i) \in 0..Cardinality(S)
         /\ i \in S => RankIn(S, i) > 0
         /\ (\A j \in S : j <= i) => RankIn(S, i) = Cardinality(S)
<1>1. {j \in S : j <= i} \subseteq S
  OBVIOUS
<1>2. RankIn(S, i) \in Nat /\ RankIn(S, i) <= Cardinality(S)
  BY <1>1, Parts DEF RankIn
<1>3. ASSUME i \in S PROVE RankIn(S, i) # 0
  <2>1. i \in {j \in S : j <= i}
    BY <1>3
  <2> QED
    BY <1>1, <2>1, Parts, FS_EmptySet DEF RankIn, Listable
<1>4. ASSUME \A j \in S : j <= i PROVE RankIn(S, i) = Cardinality(S)
  <2>1. {j \in S : j <= i} = S
    BY <1>4
  <2> QED
    BY <2>1 DEF RankIn
<1>5. Cardinality(S) \in Nat
  BY Parts
<1> QED
  BY <1>2, <1>3, <1>4, <1>5

(* The later of two items has the greater rank.                            *)
LEMMA RankGrows ==
  ASSUME NEW S, Listable(S), NEW i \in Nat, NEW j \in Nat, i <= j
  PROVE  /\ RankIn(S, i) <= RankIn(S, j)
         /\ j \in S /\ i < j => RankIn(S, i) < RankIn(S, j)
<1> DEFINE low == {k \in S : k <= i}
           high == {k \in S : k <= j}
<1>1. low \subseteq high /\ high \subseteq S
  <2>1. \A k \in S : k \in Nat
    BY DEF Listable
  <2> QED
    BY <2>1
<1>2. Listable(high)
  BY <1>1, Parts
<1>3. /\ Cardinality(low) \in Nat /\ Cardinality(high) \in Nat
      /\ Cardinality(low) <= Cardinality(high)
      /\ Cardinality(low) = Cardinality(high) => low = high
  <2> HIDE DEF low, high
  <2> QED
    BY <1>1, <1>2, Parts
<1>4. j \in S /\ i < j => low # high
  <2> SUFFICES ASSUME j \in S, i < j PROVE low # high
    OBVIOUS
  <2>1. j \in high /\ j \notin low
    OBVIOUS
  <2> QED
    BY <2>1
<1> QED
  BY <1>3, <1>4 DEF RankIn

LEMMA RankOrders ==
  ASSUME NEW S, Listable(S), NEW i \in S, NEW j \in S
  PROVE  /\ RankIn(S, i) < RankIn(S, j) <=> i < j
         /\ RankIn(S, i) = RankIn(S, j) <=> i = j
<1>1. i \in Nat /\ j \in Nat
  BY DEF Listable
<1>2. i < j => RankIn(S, i) < RankIn(S, j)
  BY <1>1, RankGrows
<1>3. j < i => RankIn(S, j) < RankIn(S, i)
  BY <1>1, RankGrows
<1>4. RankIn(S, i) \in Nat /\ RankIn(S, j) \in Nat
  BY <1>1, RankType
<1> QED
  BY <1>1, <1>2, <1>3, <1>4

(* Ranks number a set without gaps.                                         *)
LEMMA RankNumbers ==
  ASSUME NEW S, Listable(S)
  PROVE  /\ \A i \in S : RankIn(S, i) \in 1..Cardinality(S)
         /\ \A k \in 1..Cardinality(S) : \E i \in S : RankIn(S, i) = k
<1> DEFINE rank == [i \in S |-> RankIn(S, i)]
<1>1. Cardinality(S) \in Nat
  BY Parts
<1>2. ASSUME NEW i \in S PROVE RankIn(S, i) \in 1..Cardinality(S)
  <2>1. i \in Nat
    BY DEF Listable
  <2>2. RankIn(S, i) \in 0..Cardinality(S) /\ RankIn(S, i) > 0
    BY <2>1, RankType
  <2> QED
    BY <1>1, <2>2
<1>3. rank \in Injection(S, 1..Cardinality(S))
  <2>1. rank \in [S -> 1..Cardinality(S)]
    BY <1>2
  <2>2. \A i, j \in S : rank[i] = rank[j] => i = j
    BY RankOrders
  <2> HIDE DEF rank
  <2> QED
    BY <2>1, <2>2 DEF Injection, IsInjective
<1>4. IsFiniteSet(1..Cardinality(S)) /\ Cardinality(1..Cardinality(S)) = Cardinality(S)
  BY <1>1, FS_Interval
<1>5. rank \in Surjection(S, 1..Cardinality(S))
  <2> HIDE DEF rank
  <2> QED
    BY <1>3, <1>4, FS_Injection
<1> QED
  BY <1>2, <1>5 DEF Surjection

(* The items of a range of ranks are as many.                               *)
LEMMA RankSlice ==
  ASSUME NEW S, Listable(S), NEW a \in 0..Cardinality(S), NEW b \in a..Cardinality(S)
  PROVE  Cardinality({i \in S : RankIn(S, i) \in (a + 1)..b}) = b - a
<1> DEFINE part == {i \in S : RankIn(S, i) \in (a + 1)..b}
           rank == [i \in part |-> RankIn(S, i)]
<1>1. Cardinality(S) \in Nat /\ a \in Nat /\ b \in Nat
  BY Parts
<1>2. \A k \in (a + 1)..b : \E i \in part : rank[i] = k
  BY <1>1, RankNumbers
<1>3. rank \in [part -> (a + 1)..b]
  OBVIOUS
<1>4. \A i, j \in part : rank[i] = rank[j] => i = j
  BY RankOrders
<1>5. ExistsBijection(part, (a + 1)..b)
  <2> HIDE DEF part, rank
  <2>1. rank \in Injection(part, (a + 1)..b)
    BY <1>3, <1>4 DEF Injection, IsInjective
  <2>2. rank \in Surjection(part, (a + 1)..b)
    BY <1>2, <1>3 DEF Surjection
  <2>3. rank \in Bijection(part, (a + 1)..b)
    BY <2>1, <2>2 DEF Bijection
  <2> QED
    BY <2>3 DEF ExistsBijection
<1>6. IsFiniteSet(part)
  BY Parts DEF Listable
<1>7. Cardinality((a + 1)..b) = b - a
  <2>1. a + 1 \in Int /\ b \in Int /\ a <= b
    BY <1>1
  <2>2. Cardinality((a + 1)..b) = IF a + 1 > b THEN 0 ELSE b - (a + 1) + 1
    BY <2>1, FS_Interval
  <2> QED
    BY <1>1, <2>1, <2>2
<1> QED
  BY <1>5, <1>6, <1>7, FS_Bijection

(* InOrder lists a set, each item at its rank.                               *)
LEMMA InOrderLists ==
  ASSUME NEW S, Listable(S)
  PROVE  /\ InOrder(S) \in Seq(S) /\ InOrder(S) \in [1..Cardinality(S) -> S]
         /\ Len(InOrder(S)) = Cardinality(S)
         /\ \A k \in 1..Cardinality(S) : InOrder(S)[k] \in S /\ RankIn(S, InOrder(S)[k]) = k
         /\ \A i \in S : InOrder(S)[RankIn(S, i)] = i
<1>1. Cardinality(S) \in Nat
  BY Parts
<1>2. \A k \in 1..Cardinality(S) : InOrder(S)[k] \in S /\ RankIn(S, InOrder(S)[k]) = k
  BY RankNumbers DEF InOrder
<1>3. InOrder(S) \in [1..Cardinality(S) -> S]
  BY <1>2 DEF InOrder
<1>4. InOrder(S) \in Seq(S)
  BY <1>1, <1>3
<1>5. Len(InOrder(S)) = Cardinality(S)
  BY <1>1, <1>3, <1>4
<1>6. ASSUME NEW i \in S PROVE InOrder(S)[RankIn(S, i)] = i
  <2>1. RankIn(S, i) \in 1..Cardinality(S)
    BY RankNumbers
  <2> QED
    BY <2>1, <1>2, RankOrders
<1> QED
  BY <1>2, <1>3, <1>4, <1>5, <1>6

(* Of two sets of which one comes before the other.                          *)
LEMMA RankInUnion ==
  ASSUME NEW A, Listable(A), NEW B, Listable(B), \A a \in A, b \in B : a < b
  PROVE  /\ Listable(A \cup B) /\ Cardinality(A \cup B) = Cardinality(A) + Cardinality(B)
         /\ \A i \in A : RankIn(A \cup B, i) = RankIn(A, i)
         /\ \A i \in B : RankIn(A \cup B, i) = Cardinality(A) + RankIn(B, i)
<1>1. \A i \in A \cup B : i \in Nat
  BY DEF Listable
<1>2. ASSUME NEW C, C \subseteq B
      PROVE  IsFiniteSet(A \cup C) /\ Cardinality(A \cup C) = Cardinality(A) + Cardinality(C)
  <2>1. A \cap C = {}
    BY <1>1, <1>2
  <2>2. IsFiniteSet(C) /\ IsFiniteSet(A) /\ Cardinality(A) \in Nat /\ Cardinality(C) \in Nat
    BY <1>2, Parts DEF Listable
  <2> QED
    <3>1. Cardinality({}) = 0
      BY FS_EmptySet
    <3>2. IsFiniteSet(A \cup C) /\ Cardinality(A \cup C) = Cardinality(A) + Cardinality(C) - Cardinality(A \cap C)
      BY <2>2, FS_Union
    <3>3. Cardinality(A \cap C) = 0
      BY <2>1, <3>1
    <3> QED
      BY <2>2, <3>2, <3>3
<1>3. ASSUME NEW i \in A PROVE RankIn(A \cup B, i) = RankIn(A, i)
  <2>1. {j \in A \cup B : j <= i} = {j \in A : j <= i}
    BY <1>1, <1>3
  <2> QED
    BY <2>1 DEF RankIn
<1>4. ASSUME NEW i \in B PROVE RankIn(A \cup B, i) = Cardinality(A) + RankIn(B, i)
  <2>1. {j \in A \cup B : j <= i} = A \cup {j \in B : j <= i}
    BY <1>1, <1>4
  <2>2. {j \in B : j <= i} \subseteq B
    OBVIOUS
  <2> QED
    BY <2>1, <2>2, <1>2 DEF RankIn
<1>5. Listable(A \cup B) /\ Cardinality(A \cup B) = Cardinality(A) + Cardinality(B)
  BY <1>2 DEF Listable
<1> QED
  BY <1>3, <1>4, <1>5

LEMMA InOrderJoins ==
  ASSUME NEW A, Listable(A), NEW B, Listable(B), \A a \in A, b \in B : a < b
  PROVE  InOrder(A \cup B) = InOrder(A) \o InOrder(B)
<1> DEFINE m == Cardinality(A)
           both == InOrder(A) \o InOrder(B)
<1>1. /\ m \in Nat /\ Cardinality(B) \in Nat
      /\ Listable(A \cup B) /\ Cardinality(A \cup B) = m + Cardinality(B)
  BY Parts, RankInUnion
<1>2. /\ InOrder(A) \in Seq(A) /\ Len(InOrder(A)) = m
      /\ InOrder(B) \in Seq(B) /\ Len(InOrder(B)) = Cardinality(B)
      /\ InOrder(A \cup B) \in Seq(A \cup B) /\ Len(InOrder(A \cup B)) = m + Cardinality(B)
  BY <1>1, InOrderLists
<1>3. InOrder(A) \in Seq(A \cup B) /\ InOrder(B) \in Seq(A \cup B)
  BY <1>2
<1>4. /\ both \in Seq(A \cup B) /\ Len(both) = m + Cardinality(B)
      /\ \A k \in 1..(m + Cardinality(B)) :
           both[k] = IF k <= m THEN InOrder(A)[k] ELSE InOrder(B)[k - m]
  <2>1. /\ both \in Seq(A \cup B) /\ Len(both) = Len(InOrder(A)) + Len(InOrder(B))
        /\ \A k \in 1..(Len(InOrder(A)) + Len(InOrder(B))) :
             both[k] = IF k <= Len(InOrder(A)) THEN InOrder(A)[k] ELSE InOrder(B)[k - Len(InOrder(A))]
    BY <1>3, ConcatProperties
  <2> QED
    BY <1>2, <2>1
<1> HIDE DEF both, m
<1>5. ASSUME NEW k \in 1..(m + Cardinality(B)) PROVE InOrder(A \cup B)[k] = both[k]
  <2>1. CASE k <= m
    <3>1. k \in 1..m
      BY <1>1, <2>1
    <3>2. both[k] \in A /\ RankIn(A, both[k]) = k
      BY <1>4, <2>1, <3>1, InOrderLists DEF m
    <3>3. RankIn(A \cup B, both[k]) = k
      BY <3>2, RankInUnion
    <3> QED
      BY <3>2, <3>3, <1>1, InOrderLists
  <2>2. CASE k > m
    <3>1. k - m \in 1..Cardinality(B)
      BY <1>1, <2>2
    <3>2. both[k] \in B /\ RankIn(B, both[k]) = k - m
      BY <1>1, <1>4, <2>2, <3>1, InOrderLists
    <3>3. RankIn(A \cup B, both[k]) = k
      <4>1. RankIn(A \cup B, both[k]) = m + RankIn(B, both[k])
        BY <3>2, RankInUnion DEF m
      <4> QED
        BY <4>1, <3>1, <3>2, <1>1
    <3> QED
      BY <3>2, <3>3, <1>1, InOrderLists
  <2> QED
    BY <1>1, <2>1, <2>2
<1>6. InOrder(A \cup B) = both
  <2> DEFINE size == m + Cardinality(B)
  <2>1. DOMAIN InOrder(A \cup B) = 1..size /\ InOrder(A \cup B) = [k \in 1..size |-> InOrder(A \cup B)[k]]
    <3>1. InOrder(A \cup B) \in [1..size -> A \cup B]
      BY <1>1, InOrderLists
    <3> HIDE DEF size
    <3> QED
      BY <3>1
  <2>2. DOMAIN both = 1..size /\ both = [k \in 1..size |-> both[k]]
    BY <1>4
  <2> QED
    BY <2>1, <2>2, <1>5
<1> QED
  BY <1>6 DEF both

(* How often an item was read, after a page more.                            *)
Times(s, i) == Cardinality({k \in 1..Len(s) : s[k] = i})

LEMMA TimesAdd ==
  ASSUME NEW s \in Seq(Nat), NEW S, Listable(S), NEW i \in Nat
  PROVE  /\ s \o InOrder(S) \in Seq(Nat)
         /\ Times(s, i) \in Nat
         /\ Times(s \o InOrder(S), i) = IF i \in S THEN Times(s, i) + 1 ELSE Times(s, i)
<1> DEFINE t == InOrder(S)
           old == {k \in 1..Len(s) : s[k] = i}
           new == {k \in 1..Len(s \o t) : (s \o t)[k] = i}
<1>1. t \in Seq(S) /\ Len(t) = Cardinality(S) /\ Cardinality(S) \in Nat /\ Len(s) \in Nat
  BY InOrderLists, Parts
<1>2. t \in Seq(Nat)
  <2>1. S \subseteq Nat
    BY DEF Listable
  <2>2. \A k \in 1..Len(t) : t[k] \in Nat
    BY <1>1, <2>1, InOrderLists
  <2> HIDE DEF t
  <2>3. t \in [1..Len(t) -> Nat] /\ Len(t) \in Nat
    BY <1>1, <2>2
  <2> QED
    BY <2>3
<1>3. /\ s \o t \in Seq(Nat) /\ Len(s \o t) = Len(s) + Len(t)
      /\ \A k \in 1..(Len(s) + Len(t)) : (s \o t)[k] = IF k <= Len(s) THEN s[k] ELSE t[k - Len(s)]
  BY <1>2, ConcatProperties
<1>4. IsFiniteSet(old) /\ Cardinality(old) \in Nat
  <2>1. IsFiniteSet(1..Len(s)) /\ old \in SUBSET (1..Len(s))
    BY <1>1, FS_Interval
  <2> HIDE DEF old
  <2> QED
    BY <2>1, FS_Subset, FS_CardinalityType
<1>5. CASE i \notin S
  <2>1. \A k \in 1..Len(t) : t[k] # i
    BY <1>1, <1>5, InOrderLists
  <2>2. new = old
    BY <1>1, <1>3, <2>1
  <2> QED
    BY <1>3, <1>4, <1>5, <2>2 DEF Times
<1>6. CASE i \in S
  <2> DEFINE r == RankIn(S, i)
  <2>1. r \in 1..Len(t) /\ \A k \in 1..Len(t) : t[k] = i <=> k = r
    BY <1>1, <1>6, InOrderLists, RankNumbers
  <2>2. new = old \cup {Len(s) + r} /\ Len(s) + r \notin old
    <3>1. Len(s) + r \in 1..(Len(s) + Len(t)) /\ Len(s) + r > Len(s)
      BY <1>1, <2>1
    <3>2. \A k \in 1..Len(s) : k \in 1..(Len(s) + Len(t)) /\ (s \o t)[k] = s[k]
      BY <1>1, <1>3
    <3>3. ASSUME NEW k \in 1..(Len(s) + Len(t)), k > Len(s)
          PROVE  (s \o t)[k] = i <=> k = Len(s) + r
      <4>1. k - Len(s) \in 1..Len(t) /\ (s \o t)[k] = t[k - Len(s)]
        BY <1>1, <1>3, <3>3
      <4>2. (s \o t)[k] = i <=> k - Len(s) = r
        BY <4>1, <2>1
      <4> HIDE DEF r, t
      <4> QED
        BY <4>1, <4>2, <2>1, <1>1, <3>3
    <3> HIDE DEF t, r
    <3>4. \A k : k \in new <=> k \in old \/ k = Len(s) + r
      BY <1>1, <1>3, <3>1, <3>2, <3>3
    <3> QED
      BY <1>1, <3>1, <3>4
  <2>3. Cardinality(old \cup {Len(s) + r}) = Cardinality(old) + 1
    <3> HIDE DEF old, r
    <3> QED
      BY <1>4, <2>2, FS_AddElement
  <2> QED
    BY <1>3, <1>4, <1>6, <2>2, <2>3 DEF Times
<1> QED
  BY <1>5, <1>6

-----------------------------------------------------------------------------
(* Pages as multiples of the page size.                                     *)
LEMMA PagesAdd ==
  /\ PageSize \in Nat \ {0}
  /\ \A a \in Nat : a * PageSize \in Nat /\ (a + 1) * PageSize = a * PageSize + PageSize
  /\ 0 * PageSize = 0
BY PagingAssumption

LEMMA PagesGrow ==
  ASSUME NEW a \in Nat, NEW b \in Nat
  PROVE  /\ a <= b => a * PageSize <= b * PageSize
         /\ a < b => a * PageSize + PageSize <= b * PageSize
         /\ a * PageSize < b * PageSize => a < b
<1>1. ASSUME NEW c \in Nat, NEW d \in Nat, c <= d PROVE c * PageSize <= d * PageSize
  <2> DEFINE e == d - c
  <2>1. e \in Nat /\ d = c + e
    BY <1>1
  <2>2. (c + e) * PageSize = c * PageSize + e * PageSize /\ c * PageSize \in Nat /\ e * PageSize \in Nat
    <3> HIDE DEF e
    <3> QED
      BY <2>1, PagesAdd
  <2> QED
    BY <2>1, <2>2
<1>2. a < b => (a + 1) * PageSize <= b * PageSize
  BY <1>1
<1>3. b <= a => b * PageSize <= a * PageSize
  BY <1>1
<1> QED
  BY <1>1, <1>2, <1>3, PagesAdd

LEMMA PagesIn ==
  ASSUME NEW a \in Nat
  PROVE  /\ a \div PageSize \in Nat
         /\ (a \div PageSize) * PageSize <= a
         /\ a < (a \div PageSize) * PageSize + PageSize
BY PagesAdd

LEMMA PagesFit ==
  ASSUME NEW a \in Nat, NEW k \in Nat, k * PageSize <= a
  PROVE  k <= a \div PageSize
<1> DEFINE q == a \div PageSize
<1>1. q \in Nat /\ a < q * PageSize + PageSize
  BY PagesIn
<1>2. (q + 1) * PageSize = q * PageSize + PageSize /\ k * PageSize \in Nat /\ q * PageSize \in Nat
  BY <1>1, PagesAdd
<1> HIDE DEF q
<1>3. k < q + 1
  <2>1. q + 1 \in Nat /\ k * PageSize < (q + 1) * PageSize
    BY <1>1, <1>2, PagesAdd
  <2> QED
    BY <2>1, PagesGrow
<1>4. k <= q
  BY <1>1, <1>3
<1> QED
  BY <1>4 DEF q

-----------------------------------------------------------------------------
PagingTypes ==
  /\ kind \in Kinds
  /\ service \subseteq Items /\ lasting \subseteq service
  /\ items \in Seq(Nat)
  /\ n \in Nat /\ attempt \in Nat /\ stall \in Nat
  /\ removals \in Nat /\ insertions \in Nat /\ repeats \in Nat
  /\ reading \in {"yes", "done", "failed"}
  /\ reading = "yes" => page \in Nat

(* The readers that may read a page again, in whole or in part.             *)
MayRepeat == ByCursor \cup {"boards", "boardBugs"}

(* What the reading has behind it, in places.                               *)
Reached == IF kind \in ByCursor THEN RankIn(Items, page)
           ELSE IF kind \in ByOffset THEN page ELSE Cardinality(Items)

(* Where the next page starts, and that the pages not read again were full.  *)
Positions ==
  /\ repeats <= n /\ (kind \notin MayRepeat => repeats = 0)
  /\ reading = "yes" =>
       /\ kind \in ByNumber => page = n
       /\ kind \in ByOffset => (repeats = 0 => page = n * PageSize) /\ page <= Cardinality(Items)
       /\ (n - repeats) * PageSize <= Reached
       /\ kind = "events" => n < MaxEventPages

LEMMA Sizes ==
  ASSUME PagingTypes
  PROVE  /\ Listable(Items) /\ Listable(service) /\ Listable(lasting)
         /\ Listed \in Nat /\ Cardinality(Items) \in Nat /\ Listed <= Cardinality(Items)
<1>1. Listable(Items)
  BY PagingAssumption DEF Listable
<1>2. service \subseteq Items /\ lasting \subseteq service
  BY DEF PagingTypes
<1>3. Listable(service)
  BY <1>1, <1>2, Parts
<1>4. Listable(lasting)
  BY <1>2, <1>3, Parts
<1>5. Listed \in Nat /\ Listed <= Cardinality(Items)
  BY <1>1, <1>2, Parts DEF Listed
<1>6. Cardinality(Items) \in Nat
  BY <1>1, Parts
<1> QED
  BY <1>1, <1>3, <1>4, <1>5, <1>6

LEMMA StartIs ==
  /\ kind \in ByNumber => Start = page * PageSize
  /\ kind \in ByOffset => Start = page
  /\ kind \in ByCursor => Start = RankIn(service, page)
BY DEF Start, ByNumber, ByOffset, ByCursor

LEMMA StartIsANumber ==
  ASSUME PagingTypes, page \in Nat
  PROVE  Start \in Nat
<1>1. page * PageSize \in Nat
  BY PagesAdd
<1>2. RankIn(service, page) \in Nat
  <2>1. RankIn(service, page) \in 0..Cardinality(service)
    BY Sizes, RankType
  <2> QED
    BY <2>1, Sizes DEF Listed
<1> QED
  BY <1>1, <1>2 DEF Start

(* The service fills a page as long as it has items for it.                  *)
LEMMA ServedIs ==
  ASSUME PagingTypes, page \in Nat
  PROVE  /\ Served \subseteq service /\ Listable(Served) /\ Cardinality(Served) \in Nat
         /\ Start + PageSize <= Listed => Cardinality(Served) = PageSize
         /\ Listed < Start + PageSize => Cardinality(Served) < PageSize /\ Listed <= Start + Cardinality(Served)
<1> DEFINE upper == IF Start + PageSize <= Listed THEN Start + PageSize ELSE Listed
<1>1. Start \in Nat /\ Listed \in Nat /\ PageSize \in Nat \ {0}
  BY StartIsANumber, Sizes, PagesAdd
<1>2. Served \subseteq service /\ Listable(Served) /\ Cardinality(Served) \in Nat
  <2>1. Served \subseteq service
    BY DEF Served
  <2> QED
    BY <2>1, Sizes, Parts
<1>3. \A i \in service : RankIn(service, i) \in 1..Listed
  BY Sizes, RankNumbers DEF Listed
<1>4. CASE Start <= Listed
  <2>1. Served = {i \in service : RankIn(service, i) \in (Start + 1)..upper}
    BY <1>1, <1>3 DEF Served
  <2>2. Start \in 0..Cardinality(service) /\ upper \in Start..Cardinality(service)
    BY <1>1, <1>4 DEF Listed
  <2>3. Cardinality(Served) = upper - Start
    <3> HIDE DEF upper
    <3> QED
      BY <2>1, <2>2, Sizes, RankSlice
  <2> QED
    BY <1>1, <1>2, <1>4, <2>3
<1>5. CASE Start > Listed
  <2>1. Served = {}
    BY <1>1, <1>3, <1>5 DEF Served
  <2>2. Cardinality(Served) = 0
    BY <2>1, FS_EmptySet
  <2> QED
    BY <1>1, <1>2, <1>5, <2>2
<1> QED
  BY <1>1, <1>4, <1>5

(* A page that is full starts where the next one is asked for.               *)
FullPage == Start + PageSize <= Listed /\ Cardinality(Served) = PageSize

LEMMA NextPagesAre ==
  ASSUME PagingTypes, page \in Nat, NEW next \in NextPages, ~Overlapping
  PROVE  \/ next = Null /\ Listed <= Start + PageSize
         \/ FullPage /\ kind \in ByNumber /\ next = page + 1
         \/ FullPage /\ kind \in ByOffset /\ next = page + PageSize
         \/ FullPage /\ kind \in ByCursor /\ next \in Served /\ \A i \in Served : i <= next
<1>1. Start \in Nat /\ Listed \in Nat /\ PageSize \in Nat \ {0} /\ Cardinality(Served) \in Nat
  BY StartIsANumber, Sizes, PagesAdd, ServedIs
<1>2. /\ More => FullPage
      /\ ~More => Listed <= Start + PageSize
      /\ ~(Cardinality(Served) < PageSize) => FullPage
      /\ Cardinality(Served) < PageSize => Listed <= Start + PageSize
      /\ FullPage => Cardinality(Served) = PageSize
  BY <1>1, ServedIs DEF FullPage, More
<1>3. Null \notin Nat
  BY PagingAssumption
<1>4. CASE kind = "monitors"
  <2> DEFINE q == PageCount
  <2>1. Start = page * PageSize /\ page * PageSize \in Nat
    BY <1>4, PagesAdd, StartIs DEF ByNumber
  <2>2. q \in Nat /\ q * PageSize <= Listed + PageSize - 1 /\ Listed + PageSize - 1 < q * PageSize + PageSize
    <3>1. Listed + PageSize - 1 \in Nat
      BY <1>1
    <3> QED
      BY <3>1, PagesIn DEF PageCount
  <2>3. q * PageSize \in Nat
    BY <2>2, PagesAdd
  <2> HIDE DEF q
  <2>4. CASE page + 1 < q
    <3>1. (page + 1) * PageSize + PageSize <= q * PageSize /\ (page + 1) * PageSize = Start + PageSize
      BY <2>1, <2>2, <2>4, PagesGrow, PagesAdd
    <3>2. Start + PageSize <= Listed
      BY <1>1, <2>2, <2>3, <3>1
    <3>3. next = page + 1
      BY <1>4, <2>4 DEF NextPages, NextMonitors, q
    <3> QED
      BY <1>4, <3>2, <3>3, ServedIs DEF FullPage, ByNumber
  <2>5. CASE ~(page + 1 < q)
    <3>1. q * PageSize <= (page + 1) * PageSize /\ (page + 1) * PageSize = Start + PageSize
      BY <2>1, <2>2, <2>5, PagesGrow, PagesAdd
    <3>2. Listed <= Start + PageSize
      BY <1>1, <2>2, <2>3, <3>1
    <3>3. next = Null
      BY <1>4, <2>5 DEF NextPages, NextMonitors, q
    <3> QED
      BY <3>2, <3>3
  <2> QED
    BY <2>4, <2>5
<1>5. CASE kind = "teams"
  <2>1. PICK named \in IF More THEN {page + 1} ELSE {page, Null} : next = NextTeams(named)
    BY <1>5 DEF NextPages
  <2>2. CASE More
    <3>1. named = page + 1
      BY <2>1, <2>2
    <3>2. page + 1 # Null /\ page + 1 > page
      BY <1>3
    <3>3. next = page + 1
      BY <2>1, <3>1, <3>2 DEF NextTeams
    <3> QED
      BY <1>2, <1>5, <2>2, <3>3 DEF ByNumber
  <2>3. CASE ~More
    <3>1. named = Null \/ named = page
      BY <2>1, <2>3
    <3>2. next = Null
      BY <2>1, <3>1 DEF NextTeams
    <3> QED
      BY <1>2, <2>3, <3>2
  <2> QED
    BY <2>2, <2>3
<1>6. CASE kind = "slos"
  BY <1>2, <1>6 DEF NextPages, NextSlos, ByNumber
<1>7. CASE kind = "incidents"
  BY <1>2, <1>7 DEF NextPages, NextIncidents, ByOffset
<1>8. CASE kind \in {"boards", "boardBugs"}
  <2>1. Kept(Served) = Served /\ Start = page
    BY <1>8 DEF Overlapping, Start, ByNumber, ByOffset
  <2>2. next = IF More /\ Served # {} THEN page + Cardinality(Served) ELSE Null
    BY <1>8, <2>1 DEF NextPages, NextBoards, NextBoardBugs, More
  <2>3. Served = {} => Listed <= Start + PageSize
    BY <1>1, <1>2, FS_EmptySet
  <2> QED
    BY <1>2, <1>8, <2>2, <2>3 DEF ByOffset
<1>9. CASE kind \in ByCursor
  <2>1. next = IF More THEN Max(Served) ELSE Null
    BY <1>9 DEF NextPages, NextCursor, ByCursor
  <2>2. ASSUME More PROVE Max(Served) \in Served /\ \A i \in Served : i <= Max(Served)
    <3>1. Listable(Served) /\ Cardinality(Served) = PageSize
      BY <2>2, <1>2, ServedIs DEF FullPage
    <3>2. PICK hindmost \in Served : RankIn(Served, hindmost) = PageSize
      BY <3>1, <1>1, RankNumbers
    <3>3. \A i \in Served : i \in Nat /\ hindmost >= i
      <4> TAKE i \in Served
      <4>1. RankIn(Served, i) \in 1..PageSize
        BY <3>1, RankNumbers
      <4>2. ~(hindmost < i)
        <5>1. RankIn(Served, hindmost) < RankIn(Served, i) <=> hindmost < i
          BY <3>1, <3>2, RankOrders
        <5> QED
          BY <1>1, <4>1, <3>2, <5>1
      <4>3. i \in Nat /\ hindmost \in Nat
        BY <3>1 DEF Listable
      <4> QED
        BY <4>2, <4>3
    <3>4. \E x \in Served : \A i \in Served : x >= i
      BY <3>3
    <3>5. Max(Served) \in Served /\ \A i \in Served : Max(Served) >= i
      BY <3>4 DEF Max
    <3>6. \A i, k \in Nat : i >= k => k <= i
      OBVIOUS
    <3> QED
      BY <3>3, <3>5, <3>6
  <2> QED
    BY <1>2, <1>9, <2>1, <2>2
<1> QED
  BY <1>4, <1>5, <1>6, <1>7, <1>8, <1>9 DEF PagingTypes, Kinds, ByNumber, ByOffset, ByCursor

(* A page that drops an entry still moves on, within the list.               *)
LEMMA OverlapMovesOn ==
  ASSUME PagingTypes, page \in Nat, NEW next \in NextPages, Overlapping, next # Null
  PROVE  kind \in {"boards", "boardBugs"} /\ next \in Nat /\ page <= next /\ next <= Listed
<1> DEFINE kept == Cardinality(Kept(Served))
           served == Cardinality(Served)
<1>1. kind \in {"boards", "boardBugs"} /\ Start = page
  BY DEF Overlapping, Start, ByNumber, ByOffset
<1>2. kept \in Nat /\ kept <= served /\ served \in Nat
  <2>1. Listable(Served) /\ Kept(Served) \subseteq Served
    BY ServedIs DEF Kept
  <2> QED
    BY <2>1, Parts
<1>3. Listed \in Nat
  BY Sizes
<1>4. next = page + kept /\ page + kept <= Listed
  <2>1. CASE kind = "boards"
    <3>1. next = page + kept /\ page + served < Listed
      BY <1>1, <2>1 DEF NextPages, NextBoards, More
    <3> HIDE DEF kept, served
    <3> QED
      BY <1>2, <1>3, <3>1
  <2>2. CASE kind = "boardBugs"
    <3>1. next = page + kept /\ page + kept < Listed
      BY <2>2 DEF NextPages, NextBoardBugs
    <3> HIDE DEF kept, served
    <3> QED
      BY <1>2, <1>3, <3>1
  <2> QED
    BY <1>1, <2>1, <2>2
<1> HIDE DEF kept
<1> QED
  BY <1>1, <1>2, <1>3, <1>4

-----------------------------------------------------------------------------
(* What one page has been slept on grows with its refusals.                 *)
Stalls ==
  /\ attempt <= Attempts - 1
  /\ attempt * FloorSeconds <= stall /\ stall <= attempt * CapSeconds

PagingInv == PagingTypes /\ Positions /\ Stalls /\ PagesAreBounded

LEMMA PagingInitInv == PagingInit => PagingInv
<1> SUFFICES ASSUME PagingInit PROVE PagingInv
  OBVIOUS
<1>1. PagingTypes
  BY DEF PagingInit, PagingTypes, FirstPage
<1>2. Listable(Items) /\ Cardinality(Items) \in Nat /\ Listable(service)
  BY <1>1, Sizes
<1>3. Positions
  <2>1. RankIn(Items, page) \in Nat
    <3>1. RankIn(Items, page) \in 0..Cardinality(Items)
      BY <1>2, RankType DEF PagingInit, FirstPage
    <3> QED
      BY <1>2, <3>1
  <2>2. (n - repeats) * PageSize = 0 /\ page = n * PageSize /\ page = n
    BY PagesAdd DEF PagingInit, FirstPage
  <2> QED
    BY <1>2, <2>1, <2>2, PagingAssumption DEF Positions, PagingInit, Reached
<1>4. Stalls
  BY PagingAssumption DEF Stalls, PagingInit, FloorSeconds, CapSeconds
<1>5. PagesAreBounded
  <2>1. Cardinality(Items) \div PageSize \in Nat
    BY <1>2, PagesIn
  <2> QED
    BY <2>1, PagingAssumption DEF PagesAreBounded, PagingInit
<1> QED
  BY <1>1, <1>3, <1>4, <1>5 DEF PagingInv

LEMMA KeptAreServed ==
  ASSUME NEW S, Listable(S)
  PROVE  Kept(S) \subseteq S /\ Listable(Kept(S))
<1>1. Kept(S) \subseteq S
  BY DEF Kept
<1> QED
  BY <1>1, Parts

(* A cursor divides what was listed before it from what is after it.         *)
LEMMA CursorDivides ==
  ASSUME PagingTypes, page \in Nat, kind \in ByCursor, NEW i \in service
  PROVE  i \in Nat /\ (i <= page <=> RankIn(service, i) <= Start)
<1>1. i \in Nat /\ Start = RankIn(service, page) /\ Listable(service)
  BY StartIs, Sizes DEF Listable
<1>2. RankIn(service, i) \in Nat /\ RankIn(service, page) \in Nat
  <2>1. Cardinality(service) \in Nat
    BY Sizes DEF Listed
  <2>2. RankIn(service, i) \in 0..Cardinality(service) /\ RankIn(service, page) \in 0..Cardinality(service)
    BY <1>1, RankType
  <2> QED
    BY <2>1, <2>2
<1>3. i <= page => RankIn(service, i) <= Start
  BY <1>1, RankGrows
<1>4. page < i => Start < RankIn(service, i)
  BY <1>1, RankGrows
<1> QED
  BY <1>1, <1>2, <1>3, <1>4

(* A cursor moves on by a full page of items.                                *)
LEMMA CursorMovesOn ==
  ASSUME PagingTypes, page \in Nat, kind \in ByCursor, FullPage,
         NEW next \in Served, \A i \in Served : i <= next
  PROVE  next \in Nat /\ RankIn(Items, page) \in Nat /\ RankIn(Items, page) + PageSize <= RankIn(Items, next)
<1> DEFINE before == {i \in Items : i <= page}
           upto == {i \in Items : i <= next}
<1>1. Listable(Items) /\ Served \subseteq service /\ service \subseteq Items /\ Listable(Served)
  BY Sizes, ServedIs DEF PagingTypes
<1>2. \A i \in Items : i \in Nat
  BY <1>1 DEF Listable
<1>3. ASSUME NEW i \in Served PROVE page < i /\ i <= next
  <2>1. i \in service /\ RankIn(service, i) \in (Start + 1)..(Start + PageSize)
    BY <1>1 DEF Served
  <2>2. i \in Nat /\ (i <= page <=> RankIn(service, i) <= Start)
    BY <2>1, CursorDivides
  <2>3. Start \in Nat /\ PageSize \in Nat
    BY StartIsANumber, PagesAdd
  <2> QED
    BY <2>1, <2>2, <2>3
<1>4. before \cup Served \subseteq upto /\ before \cap Served = {} /\ upto \subseteq Items /\ before \subseteq Items
  BY <1>1, <1>2, <1>3
<1>5. /\ IsFiniteSet(before) /\ Cardinality(before) \in Nat
      /\ Listable(upto) /\ Cardinality(upto) \in Nat
  <2> HIDE DEF before, upto
  <2> QED
    BY <1>1, <1>4, Parts DEF Listable
<1>6. Cardinality(before \cup Served) = Cardinality(before) + PageSize
  <2> HIDE DEF before, upto
  <2>1. Cardinality(before \cup Served) = Cardinality(before) + Cardinality(Served) - Cardinality(before \cap Served)
    BY <1>1, <1>5, FS_Union DEF Listable
  <2>2. Cardinality(before \cap Served) = 0
    BY <1>4, FS_EmptySet
  <2> QED
    BY <1>5, <2>1, <2>2, PagesAdd DEF FullPage
<1>7. Cardinality(before \cup Served) <= Cardinality(upto)
  <2> HIDE DEF before, upto
  <2> QED
    BY <1>4, <1>5, Parts
<1> QED
  BY <1>1, <1>2, <1>5, <1>6, <1>7 DEF RankIn

LEMMA ReadPageTypes ==
  ASSUME PagingInv, ReadPage
  PROVE  PagingTypes' /\ page \in Nat
<1>1. page \in Nat
  BY DEF PagingInv, PagingTypes, ReadPage
<1>2. items \o InOrder(Kept(Served)) \in Seq(Nat)
  <2>1. Listable(Kept(Served))
    BY <1>1, ServedIs, KeptAreServed DEF PagingInv
  <2> QED
    BY <2>1, TimesAdd DEF PagingInv, PagingTypes
<1>3. PICK next \in NextPages : TurnTo(next)
  BY DEF ReadPage
<1>4. next = Null \/ next \in Nat
  <2>1. Served \subseteq Nat /\ PageSize \in Nat
    BY <1>1, ServedIs, PagesAdd DEF PagingInv, Listable
  <2>2. \/ next \in {Null} \cup Nat \/ next = page + 1 \/ next = page + PageSize \/ next \in Served
    <3>1. CASE Overlapping
      BY <1>1, <3>1, OverlapMovesOn DEF PagingInv
    <3>2. CASE ~Overlapping
      BY <1>1, <3>2, NextPagesAre DEF PagingInv
    <3> QED
      BY <3>1, <3>2
  <2>3. page + 1 \in Nat /\ page + PageSize \in Nat
    BY <1>1, <2>1
  <2> QED
    BY <2>1, <2>2, <2>3
<1>5. reading' \in {"yes", "done"} /\ (reading' = "yes" => page' \in Nat)
  BY <1>3, <1>4 DEF TurnTo
<1>6. repeats' \in Nat
  BY DEF PagingInv, PagingTypes, ReadPage
<1> QED
  BY <1>1, <1>2, <1>3, <1>5, <1>6 DEF PagingInv, PagingTypes, ReadPage, TurnTo, history

(* The next page of a reading that goes on lies a full page further.         *)
LEMMA ReadPagePositions ==
  ASSUME PagingInv, ReadPage, ~Overlapping
  PROVE  Positions'
<1>1. PICK next \in NextPages : TurnTo(next)
  BY DEF ReadPage
<1>2. /\ page \in Nat /\ PagingTypes /\ Positions /\ reading = "yes"
      /\ n \in Nat /\ repeats \in Nat /\ n' = n + 1 /\ repeats' = repeats /\ kind' = kind /\ page' = next
  BY <1>1, ReadPageTypes DEF PagingInv, ReadPage, TurnTo, history, PagingTypes
<1>3. repeats <= n /\ (kind \notin MayRepeat => repeats = 0)
  BY <1>2 DEF Positions
<1>4. ASSUME reading' = "yes"
      PROVE  /\ kind \in ByNumber => page' = n'
             /\ kind \in ByOffset => (repeats' = 0 => page' = n' * PageSize) /\ page' <= Cardinality(Items)
             /\ (n' - repeats') * PageSize <= Reached'
             /\ kind = "events" => n' < MaxEventPages
  <2>1. next # Null /\ (kind = "events" => n + 1 < MaxEventPages)
    BY <1>1, <1>4 DEF TurnTo, MayReadOn
  <2>2. n' * PageSize = n * PageSize + PageSize /\ n * PageSize \in Nat /\ PageSize \in Nat
    BY <1>2, PagesAdd
  <2>3. n - repeats \in Nat /\ (n' - repeats') * PageSize = (n - repeats) * PageSize + PageSize /\ (n - repeats) * PageSize \in Nat
    <3>1. n - repeats \in Nat /\ n' - repeats' = (n - repeats) + 1
      BY <1>2, <1>3
    <3> QED
      BY <3>1, PagesAdd
  <2>4. CASE kind \in ByCursor
    <3>1. FullPage /\ next \in Served /\ \A i \in Served : i <= next
      BY <1>2, <2>1, <2>4, NextPagesAre DEF ByNumber, ByOffset, ByCursor
    <3>2. RankIn(Items, page) \in Nat /\ RankIn(Items, page) + PageSize <= RankIn(Items, next) /\ next \in Nat
      BY <1>2, <2>4, <3>1, CursorMovesOn
    <3>3. (n - repeats) * PageSize <= RankIn(Items, page)
      BY <1>2, <2>4 DEF Positions, Reached
    <3>4. RankIn(Items, next) \in Nat
      <4>1. RankIn(Items, next) \in 0..Cardinality(Items)
        BY <1>2, <3>2, Sizes, RankType
      <4> QED
        BY <1>2, <4>1, Sizes
    <3>5. (n' - repeats') * PageSize <= RankIn(Items, page')
      BY <1>2, <2>2, <2>3, <3>2, <3>3, <3>4
    <3>6. kind \notin ByNumber /\ kind \notin ByOffset
      BY <2>4 DEF ByNumber, ByOffset, ByCursor
    <3>7. Reached' = RankIn(Items, page')
      BY <1>2, <2>4 DEF Reached
    <3> QED
      BY <1>2, <2>1, <2>4, <3>5, <3>6, <3>7
  <2>5. CASE kind \in ByNumber
    <3>1. repeats = 0 /\ kind # "events" /\ kind \notin ByOffset /\ kind \notin ByCursor
      BY <1>3, <2>5 DEF ByCursor, MayRepeat, ByOffset, ByNumber
    <3>2. Start = n * PageSize
      BY <1>2, <2>5, StartIs DEF Positions
    <3>3. FullPage /\ next = page + 1
      BY <1>2, <2>1, <2>5, <3>1, NextPagesAre
    <3>4. n' * PageSize <= Cardinality(Items)
      BY <1>2, <2>2, <3>2, <3>3, Sizes DEF FullPage
    <3>5. n' - repeats' = n' /\ Reached' = Cardinality(Items)
      BY <1>2, <3>1 DEF Reached
    <3>6. page' = n'
      BY <1>2, <2>5, <3>3 DEF Positions
    <3> QED
      BY <3>1, <3>4, <3>5, <3>6
  <2>6. CASE kind \in ByOffset
    <3>1. kind # "events" /\ kind \notin ByNumber /\ kind \notin ByCursor
      BY <2>6 DEF ByCursor, ByOffset, ByNumber
    <3>2. FullPage /\ next = page + PageSize /\ Start = page
      BY <1>2, <2>1, <2>6, <3>1, NextPagesAre, StartIs
    <3>3. page' <= Cardinality(Items)
      BY <1>2, <2>2, <3>2, Sizes DEF FullPage
    <3>4. repeats' = 0 => page' = n' * PageSize
      BY <1>2, <2>2, <2>6, <3>2 DEF Positions
    <3>5. (n - repeats) * PageSize <= page
      BY <1>2, <2>6, <3>1 DEF Positions, Reached
    <3>6. (n' - repeats') * PageSize <= page' /\ Reached' = page'
      BY <1>2, <2>2, <2>3, <2>6, <3>1, <3>2, <3>5 DEF Reached
    <3> QED
      BY <3>1, <3>3, <3>4, <3>6
  <2> QED
    BY <1>2, <2>4, <2>5, <2>6 DEF PagingTypes, Kinds
<1> QED
  BY <1>2, <1>3, <1>4 DEF Positions

(* A page that overlaps the next one does not bring the reading back.        *)
LEMMA OverlapPositions ==
  ASSUME PagingInv, ReadPage, Overlapping
  PROVE  Positions'
<1>1. PICK next \in NextPages : TurnTo(next)
  BY DEF ReadPage
<1>2. /\ page \in Nat /\ PagingTypes /\ Positions /\ reading = "yes"
      /\ n \in Nat /\ repeats \in Nat /\ n' = n + 1 /\ repeats' = repeats + 1 /\ kind' = kind /\ page' = next
  BY <1>1, ReadPageTypes DEF PagingInv, ReadPage, TurnTo, history, PagingTypes
<1>3. /\ kind \in MayRepeat /\ kind \in ByOffset /\ kind \notin ByNumber /\ kind \notin ByCursor
      /\ kind # "events"
  BY DEF Overlapping, MayRepeat, ByOffset, ByNumber, ByCursor
<1>4. n' - repeats' = n - repeats /\ repeats' <= n' /\ repeats' # 0
  BY <1>2 DEF Positions
<1>5. ASSUME reading' = "yes"
      PROVE  page' <= Cardinality(Items) /\ (n' - repeats') * PageSize <= Reached'
  <2>1. next # Null
    BY <1>1, <1>5 DEF TurnTo
  <2>2. next \in Nat /\ page <= next /\ next <= Listed
    BY <1>2, <2>1, OverlapMovesOn
  <2>3. (n - repeats) * PageSize <= page /\ (n - repeats) * PageSize \in Nat
    <3>1. n - repeats \in Nat
      BY <1>2 DEF Positions
    <3> QED
      BY <1>2, <1>3, <3>1, PagesAdd DEF Positions, Reached
  <2>4. Reached' = next
    BY <1>2, <1>3 DEF Reached
  <2>5. next <= Cardinality(Items)
    BY <1>2, <2>2, Sizes
  <2>6. (n - repeats) * PageSize <= next
    BY <1>2, <2>2, <2>3
  <2> QED
    BY <1>2, <1>4, <2>4, <2>5, <2>6
<1> QED
  BY <1>2, <1>3, <1>4, <1>5 DEF Positions

(* One page more, after pages that were full.                                *)
LEMMA ReadPageBounded ==
  ASSUME PagingInv, ReadPage
  PROVE  PagesAreBounded'
<1>1. /\ n \in Nat /\ repeats \in Nat /\ n' = n + 1 /\ repeats' \in {repeats, repeats + 1} /\ kind' = kind
      /\ reading = "yes" /\ page \in Nat /\ PagingTypes /\ Positions
  BY ReadPageTypes DEF PagingInv, ReadPage, TurnTo, history, PagingTypes
<1>2. n - repeats \in Nat /\ (n - repeats) * PageSize <= Cardinality(Items)
  <2>1. n - repeats \in Nat
    BY <1>1 DEF Positions
  <2>2. RankIn(Items, page) <= Cardinality(Items) /\ RankIn(Items, page) \in Nat /\ Cardinality(Items) \in Nat
    <3>1. RankIn(Items, page) \in 0..Cardinality(Items) /\ Cardinality(Items) \in Nat
      BY <1>1, Sizes, RankType
    <3> QED
      BY <3>1
  <2>3. (n - repeats) * PageSize <= Reached
    BY <1>1 DEF Positions
  <2>4. (n - repeats) * PageSize \in Nat
    BY <2>1, PagesAdd
  <2>5. Reached \in Nat /\ Reached <= Cardinality(Items)
    BY <1>1, <2>2 DEF Positions, Reached
  <2>6. \A a, b, c \in Nat : a <= b /\ b <= c => a <= c
    OBVIOUS
  <2>7. (n - repeats) * PageSize <= Cardinality(Items)
    <3> DEFINE kept == (n - repeats) * PageSize
               all  == Cardinality(Items)
    <3>1. kept \in Nat /\ Reached \in Nat /\ all \in Nat /\ kept <= Reached /\ Reached <= all
      BY <2>2, <2>3, <2>4, <2>5
    <3> HIDE DEF kept, all
    <3>2. kept <= all
      BY <3>1, <2>6
    <3> QED
      BY <3>2 DEF kept, all
  <2> QED
    BY <2>1, <2>7
<1>3. n - repeats <= Cardinality(Items) \div PageSize /\ Cardinality(Items) \div PageSize \in Nat
  BY <1>1, <1>2, Sizes, PagesFit, PagesIn
<1>4. kind = "events" => n' <= MaxEventPages
  BY <1>1, PagingAssumption DEF Positions
<1>5. n' <= Cardinality(Items) \div PageSize + 1 + repeats'
  BY <1>1, <1>3
<1> QED
  BY <1>1, <1>4, <1>5 DEF PagesAreBounded

(* A pause is a second at least and the cap at most.                        *)
LEMMA PauseIsBounded ==
  ASSUME NEW asked \in Asked \cup {Null}, attempt \in Nat, attempt < Attempts - 1
  PROVE  Pause(asked) \in FloorSeconds..CapSeconds
<1>1. CASE asked = Null
  <2>1. attempt \in 0..(Attempts - 2)
    BY PagingAssumption
  <2> QED
    BY <1>1, <2>1, BackoffAssumption DEF Pause, RetryAfter
<1>2. CASE asked # Null
  <2>1. asked \in Int
    BY <1>2, PagingAssumption
  <2>2. RetryAfter(asked) \in FloorSeconds..CapSeconds
    BY <1>2, <2>1 DEF RetryAfter, Least, Most, FloorSeconds, CapSeconds
  <2>3. RetryAfter(asked) # Null
    BY <2>2, PagingAssumption DEF FloorSeconds, CapSeconds
  <2> QED
    BY <2>2, <2>3 DEF Pause
<1> QED
  BY <1>1, <1>2

LEMMA RefusedKeeps ==
  ASSUME PagingInv, NEW asked \in Asked \cup {Null}, RefusedForNow(asked)
  PROVE  PagingInv'
<1>1. UNCHANGED <<kind, service, lasting, removals, insertions, page, items, n, repeats>> /\ reading = "yes"
  BY DEF RefusedForNow, history
<1>2. CASE attempt >= Attempts - 1
  BY <1>1, <1>2 DEF RefusedForNow, PagingInv, PagingTypes, Positions, Reached, Stalls, PagesAreBounded
<1>3. CASE ~(attempt >= Attempts - 1)
  <2>1. attempt' = attempt + 1 /\ stall' = stall + Pause(asked) /\ reading' = reading
    BY <1>3 DEF RefusedForNow
  <2>2. attempt \in Nat /\ stall \in Nat /\ Attempts \in Nat
    BY PagingAssumption DEF PagingInv, PagingTypes
  <2>3. Pause(asked) \in FloorSeconds..CapSeconds
    BY <1>3, <2>2, PauseIsBounded
  <2>4. Stalls' /\ stall' \in Nat
    BY <1>3, <2>1, <2>2, <2>3 DEF Stalls, PagingInv, FloorSeconds, CapSeconds
  <2> QED
    BY <1>1, <2>1, <2>2, <2>4 DEF PagingInv, PagingTypes, Positions, Reached, PagesAreBounded
<1> QED
  BY <1>2, <1>3

LEMMA ReadPageAgainKeeps ==
  ASSUME PagingInv, ReadPageAgain
  PROVE  PagingInv'
<1>1. /\ UNCHANGED <<kind, service, lasting, removals, insertions, page>> /\ reading = "yes" /\ kind \in ByCursor
      /\ n' = n + 1 /\ repeats' = repeats + 1 /\ attempt' = 0 /\ stall' = 0
      /\ reading' = IF page # Null /\ MayReadOn(n + 1) THEN "yes" ELSE "done"
      /\ items' = items \o InOrder(Kept(Served))
  BY DEF ReadPageAgain, TurnTo, history
<1>2. page \in Nat /\ n \in Nat /\ repeats \in Nat /\ PagingTypes
  BY <1>1 DEF PagingInv, PagingTypes
<1>3. items' \in Seq(Nat)
  <2>1. Listable(Kept(Served))
    BY <1>2, ServedIs, KeptAreServed
  <2> QED
    BY <1>1, <2>1, TimesAdd DEF PagingInv, PagingTypes
<1>4. PagingTypes'
  BY <1>1, <1>2, <1>3 DEF PagingTypes
<1>5. n' - repeats' = n - repeats /\ Reached' = Reached
  BY <1>1, <1>2 DEF Reached
<1>6. Positions'
  <2>1. kind \in MayRepeat /\ kind \notin ByNumber /\ kind \notin ByOffset
    BY <1>1 DEF MayRepeat, ByNumber, ByOffset, ByCursor
  <2>2. repeats' <= n' /\ (n' - repeats') * PageSize <= Reached'
    BY <1>1, <1>2, <1>5 DEF PagingInv, Positions
  <2>3. kind = "events" /\ reading' = "yes" => n' < MaxEventPages
    BY <1>1 DEF MayReadOn
  <2> QED
    BY <1>1, <2>1, <2>2, <2>3 DEF Positions
<1>7. Stalls'
  BY <1>1, PagingAssumption DEF Stalls, FloorSeconds, CapSeconds
<1>8. PagesAreBounded'
  <2>1. Cardinality(Items) \div PageSize \in Nat
    BY <1>2, Sizes, PagesIn
  <2>2. n <= Cardinality(Items) \div PageSize + 1 + repeats /\ (kind = "events" => n < MaxEventPages)
    BY <1>1 DEF PagingInv, PagesAreBounded, Positions
  <2> QED
    BY <1>1, <1>2, <2>1, <2>2, PagingAssumption DEF PagesAreBounded
<1> QED
  BY <1>4, <1>6, <1>7, <1>8 DEF PagingInv

LEMMA PagingNextInv == PagingInv /\ [PagingNext]_pagingVars => PagingInv'
<1> SUFFICES ASSUME PagingInv, [PagingNext]_pagingVars PROVE PagingInv'
  OBVIOUS
<1>1. CASE ReadPage
  <2>1. Stalls'
    BY <1>1, PagingAssumption DEF ReadPage, TurnTo, Stalls, FloorSeconds, CapSeconds
  <2> QED
    BY <1>1, <2>1, ReadPageTypes, ReadPagePositions, OverlapPositions, ReadPageBounded DEF PagingInv
<1>2. CASE ReadFails
  BY <1>2 DEF ReadFails, history, PagingInv, PagingTypes, Positions, Reached, Stalls, PagesAreBounded
<1>3. ASSUME NEW i \in Items, GoesAway(i) PROVE PagingInv'
  <2>1. PagingTypes'
    BY <1>3 DEF GoesAway, Edit, PagingInv, PagingTypes
  <2> QED
    BY <1>3, <2>1 DEF GoesAway, PagingInv, Positions, Reached, Stalls, PagesAreBounded
<1>4. ASSUME NEW i \in Items, Appears(i) PROVE PagingInv'
  <2>1. PagingTypes'
    BY <1>4 DEF Appears, Edit, PagingInv, PagingTypes
  <2> QED
    BY <1>4, <2>1 DEF Appears, PagingInv, Positions, Reached, Stalls, PagesAreBounded
<1>5. CASE UNCHANGED pagingVars
  BY <1>5 DEF pagingVars, PagingInv, PagingTypes, Positions, Reached, Stalls, PagesAreBounded
<1> QED
  BY <1>1, <1>2, <1>3, <1>4, <1>5, ReadPageAgainKeeps, RefusedKeeps DEF PagingNext, Reader

(* However the service answers, a fetch asks for a bounded number of pages   *)
(* and is put off for a bounded time on each.                               *)
THEOREM FetchesAreBounded == PagingSpec => []FetchIsBounded
<1>1. PagingInv => FetchIsBounded
  <2> SUFFICES ASSUME PagingInv PROVE StallWithinBounds
    BY DEF PagingInv, FetchIsBounded
  <2>1. attempt \in Nat /\ stall \in Nat /\ Attempts \in Nat
    BY PagingAssumption DEF PagingInv, PagingTypes
  <2> QED
    BY <2>1 DEF PagingInv, Stalls, StallWithinBounds, FloorSeconds, CapSeconds
<1> QED
  BY <1>1, PagingInitInv, PagingNextInv, PTL DEF PagingSpec

-----------------------------------------------------------------------------
(* The items of the first pages, of a list nothing has changed.             *)
Upto(m) == {i \in service : RankIn(service, i) <= m}

Whole ==
  removals + insertions + repeats = 0 =>
    /\ items = InOrder(Kept(Upto(n * PageSize)))
    /\ reading = "yes" => Start = n * PageSize
    /\ reading = "done" => IF page = Null THEN Listed <= n * PageSize
                           ELSE kind = "events" /\ Listed > MaxEventPages * PageSize

(* What a list that moved up has made the reading pass over, and what one    *)
(* that moved down has it meet again.                                       *)
Skipped == {i \in Kept(lasting) : Read(i) = 0 /\ RankIn(service, i) <= n * PageSize}
Exposed == {i \in service : Read(i) > 0 /\ RankIn(service, i) > n * PageSize}

Shifts ==
  /\ Cardinality(Skipped) <= removals
  /\ Cardinality(Exposed \cup ReadTwice) <= insertions
  /\ reading = "done" /\ page = Null => Listed <= n * PageSize

(* A cursor parts what was read from what was not.                          *)
Divided ==
  /\ \A i \in Items : Read(i) <= 1
  /\ reading = "yes" => /\ \A i \in Items : Read(i) > 0 => i <= page
                        /\ \A i \in Kept(lasting) : i <= page => Read(i) > 0
  /\ reading = "done" /\ page = Null => Missed = {}

ShiftInv == repeats = 0 => IF kind \in ByCursor THEN Divided ELSE Shifts

LEMMA PrefixOf ==
  ASSUME NEW s \in Seq(Nat), NEW t \in Seq(Nat)
  PROVE  IsPrefix(s, s \o t)
<1>1. Len(s) \in Nat /\ Len(t) \in Nat /\ Len(s \o t) = Len(s) + Len(t)
  BY ConcatProperties
<1>2. SubSeq(s \o t, 1, Len(s)) = SubSeq(s, 1, Len(s))
  BY <1>1, SubSeqOfConcat1
<1> QED
  BY <1>1, <1>2 DEF IsPrefix

LEMMA ListingInNat ==
  ASSUME NEW S, Listable(S)
  PROVE  InOrder(S) \in Seq(Nat)
<1>1. InOrder(S) \in Seq(S) /\ S \subseteq Nat
  BY InOrderLists DEF Listable
<1>2. InOrder(S) \in [1..Len(InOrder(S)) -> S] /\ Len(InOrder(S)) \in Nat
  BY <1>1
<1>3. InOrder(S) \in [1..Len(InOrder(S)) -> Nat]
  BY <1>1, <1>2
<1> QED
  BY <1>2, <1>3

(* What is listed up to a place, and after it.                               *)
LEMMA ListsJoin ==
  ASSUME PagingTypes, NEW a \in Nat, NEW B, B \subseteq service,
         \A i \in B : RankIn(service, i) > a
  PROVE  InOrder(Kept(Upto(a) \cup B)) = InOrder(Kept(Upto(a))) \o InOrder(Kept(B))
<1>1. Listable(service) /\ Upto(a) \subseteq service
  BY Sizes DEF Upto
<1>2. Listable(Upto(a)) /\ Listable(B)
  BY <1>1, Parts
<1>3. /\ Listable(Kept(Upto(a))) /\ Kept(Upto(a)) \subseteq Upto(a)
      /\ Listable(Kept(B)) /\ Kept(B) \subseteq B
  BY <1>2, KeptAreServed
<1>4. ASSUME NEW i \in Kept(Upto(a)), NEW j \in Kept(B) PROVE i < j
  <2>1. i \in service /\ j \in service /\ RankIn(service, i) <= a /\ RankIn(service, j) > a
    BY <1>1, <1>3, <1>4 DEF Upto
  <2>2. RankIn(service, i) \in Nat /\ RankIn(service, j) \in Nat
    <3>1. RankIn(service, i) \in 1..Cardinality(service) /\ RankIn(service, j) \in 1..Cardinality(service)
      BY <1>1, <2>1, RankNumbers
    <3> QED
      BY <3>1, <1>1, Parts
  <2>3. RankIn(service, i) < RankIn(service, j)
    BY <2>1, <2>2
  <2> QED
    BY <1>1, <2>1, <2>3, RankOrders
<1>5. Kept(Upto(a) \cup B) = Kept(Upto(a)) \cup Kept(B)
  BY DEF Kept
<1> QED
  BY <1>3, <1>4, <1>5, InOrderJoins

LEMMA RanksAre ==
  ASSUME PagingTypes, NEW i \in service
  PROVE  i \in Nat /\ RankIn(service, i) \in 1..Listed /\ RankIn(service, i) \in Nat
<1>1. RankIn(service, i) \in 1..Listed /\ Listed \in Nat /\ i \in Nat
  BY Sizes, RankNumbers DEF Listed, Listable
<1> QED
  BY <1>1

LEMMA PageJoins ==
  ASSUME PagingTypes, page \in Nat, Start = n * PageSize
  PROVE  InOrder(Kept(Upto((n + 1) * PageSize))) = InOrder(Kept(Upto(n * PageSize))) \o InOrder(Kept(Served))
<1>1. /\ n * PageSize \in Nat /\ (n + 1) * PageSize = n * PageSize + PageSize
      /\ PageSize \in Nat
  BY PagesAdd DEF PagingTypes
<1>2. \A i \in service : RankIn(service, i) \in Nat
  BY RanksAre
<1>3. Upto((n + 1) * PageSize) = Upto(n * PageSize) \cup Served
  BY <1>1, <1>2 DEF Upto, Served
<1>4. Served \subseteq service /\ \A i \in Served : RankIn(service, i) > n * PageSize
  BY <1>1, <1>2 DEF Served
<1> QED
  BY <1>1, <1>3, <1>4, ListsJoin

(* The cursor a page names lies at the end of that page.                     *)
LEMMA CursorLiesAtTheEnd ==
  ASSUME PagingTypes, page \in Nat, kind \in ByCursor, FullPage,
         NEW next \in Served, \A i \in Served : i <= next
  PROVE  RankIn(service, next) = Start + PageSize
<1>1. /\ Start \in Nat /\ PageSize \in Nat \ {0} /\ Listed \in Nat /\ Start + PageSize <= Listed
      /\ Listable(service) /\ next \in service
      /\ RankIn(service, next) \in (Start + 1)..(Start + PageSize)
  BY StartIsANumber, PagesAdd, Sizes DEF FullPage, Served
<1>2. PICK hindmost \in service : RankIn(service, hindmost) = Start + PageSize
  <2>1. Start + PageSize \in 1..Cardinality(service)
    BY <1>1 DEF Listed
  <2> QED
    BY <1>1, <2>1, RankNumbers
<1>3. hindmost \in Served
  BY <1>1, <1>2 DEF Served
<1>4. hindmost \in Nat /\ next \in Nat /\ hindmost <= next
  BY <1>1, <1>3 DEF Listable
<1>5. RankIn(service, hindmost) <= RankIn(service, next)
  BY <1>1, <1>4, RankGrows
<1> QED
  BY <1>1, <1>2, <1>5

LEMMA StartIsThen ==
  /\ kind' \in ByNumber => Start' = page' * PageSize
  /\ kind' \in ByOffset => Start' = page'
  /\ kind' \in ByCursor => Start' = RankIn(service', page')
BY DEF Start, ByNumber, ByOffset, ByCursor

LEMMA NextStarts ==
  ASSUME PagingInv, PagingInv', ReadPage, Start = n * PageSize, reading' = "yes", repeats' = 0
  PROVE  Start' = n' * PageSize
<1>1. PICK next \in NextPages : TurnTo(next)
  BY DEF ReadPage
<1>2. /\ page \in Nat /\ PagingTypes /\ n \in Nat /\ n' = n + 1 /\ kind' = kind /\ service' = service
      /\ page' = next /\ kind \in Kinds /\ next # Null
  BY <1>1, ReadPageTypes DEF PagingInv, ReadPage, TurnTo, history, PagingTypes
<1>3. CASE kind \in ByCursor
  <2>0. ~Overlapping
    BY <1>3 DEF Overlapping, ByCursor
  <2>1. FullPage /\ next \in Served /\ \A i \in Served : i <= next
    BY <1>2, <1>3, <2>0, NextPagesAre DEF ByNumber, ByOffset, ByCursor
  <2>2. RankIn(service, next) = n * PageSize + PageSize
    BY <1>2, <1>3, <2>1, CursorLiesAtTheEnd
  <2> QED
    BY <1>2, <1>3, <2>2, StartIsThen, PagesAdd
<1>4. CASE kind \notin ByCursor
  <2>1. (kind \in ByNumber => page' = n') /\ (kind \in ByOffset => page' = n' * PageSize)
    BY <1>2 DEF PagingInv, Positions
  <2> QED
    BY <1>2, <1>4, <2>1, StartIsThen DEF Kinds
<1> QED
  BY <1>3, <1>4

(* No page is named after the last one.                                     *)
LEMMA LastPage ==
  ASSUME PagingInv, ReadPage, ~Overlapping, page' = Null
  PROVE  Listed <= Start + PageSize
<1>1. PICK next \in NextPages : TurnTo(next)
  BY DEF ReadPage
<1>2. page \in Nat /\ PagingTypes /\ next = Null
  BY <1>1, ReadPageTypes DEF PagingInv, ReadPage, TurnTo, PagingTypes
<1>3. FullPage /\ next \in Served => next \in Nat
  BY <1>2, ServedIs DEF Listable
<1> QED
  BY <1>2, <1>3, NextPagesAre, PagingAssumption, PagesAdd

(* A cursor is named only while more follows.                                *)
LEMMA CutShort ==
  ASSUME PagingInv, ReadPage, reading' = "done", page' # Null
  PROVE  kind = "events" /\ n + 1 = MaxEventPages /\ Start + PageSize < Listed
<1>1. PICK next \in NextPages : TurnTo(next)
  BY DEF ReadPage
<1>2. /\ page \in Nat /\ PagingTypes /\ n \in Nat /\ next # Null /\ reading = "yes"
  BY <1>1, ReadPageTypes DEF PagingInv, ReadPage, TurnTo, PagingTypes
<1>3. kind = "events" /\ ~(n + 1 < MaxEventPages)
  BY <1>1, <1>2 DEF TurnTo, MayReadOn
<1>4. n + 1 = MaxEventPages
  BY <1>2, <1>3, PagingAssumption DEF PagingInv, Positions
<1>5. More
  BY <1>2, <1>3 DEF NextPages, NextCursor
<1>6. Cardinality(Served) = PageSize
  BY <1>2, <1>3, NextPagesAre DEF ByNumber, ByOffset, FullPage, Overlapping
<1> QED
  BY <1>3, <1>4, <1>5, <1>6 DEF More

LEMMA WholeInit == PagingInit => Whole
<1> SUFFICES ASSUME PagingInit PROVE Whole
  OBVIOUS
<1>1. PagingTypes
  BY PagingInitInv DEF PagingInv
<1>2. n * PageSize = 0 /\ page = 0 /\ page * PageSize = 0
  BY PagesAdd DEF PagingInit, FirstPage
<1>3. \A i \in service : RankIn(service, i) > 0
  BY <1>1, RanksAre
<1>4. Kept(Upto(n * PageSize)) = {}
  <2>1. Upto(0) = {}
    BY <1>1, <1>3, RanksAre DEF Upto
  <2> QED
    BY <1>2, <2>1 DEF Kept
<1>5. InOrder({}) = <<>>
  <2>1. Listable({}) /\ Cardinality({}) = 0
    BY FS_EmptySet DEF Listable
  <2>2. InOrder({}) \in Seq({}) /\ Len(InOrder({})) = 0
    BY <2>1, InOrderLists
  <2> QED
    BY <2>2, EmptySeq
<1>6. RankIn(service, 0) = 0
  <2>1. {j \in service : j <= 0} = {}
    <3>1. ASSUME NEW j \in service PROVE ~(j <= 0)
      <4>1. j \in Nat \ {0}
        BY <1>1, PagingAssumption DEF PagingTypes
      <4> QED
        BY <4>1
    <3> QED
      BY <3>1
  <2> QED
    BY <2>1, FS_EmptySet DEF RankIn
<1>7. Start = n * PageSize
  BY <1>1, <1>2, <1>6, StartIs DEF PagingTypes, Kinds
<1> QED
  BY <1>4, <1>5, <1>7 DEF Whole, PagingInit

LEMMA SumOfSome ==
  \A a, b, c \in Nat : /\ a # 0 => a + b + c # 0
                       /\ b # 0 => a + b + c # 0
                       /\ c # 0 => a + b + c # 0
OBVIOUS

(* Each page continues the list where the last one ended.                   *)
LEMMA WholeReadPage ==
  ASSUME PagingInv, PagingInv', Whole, ReadPage
  PROVE  Whole'
<1> SUFFICES ASSUME (removals + insertions + repeats = 0)' PROVE
      /\ items' = InOrder(Kept(Upto(n * PageSize)))'
      /\ reading' = "yes" => Start' = n' * PageSize
      /\ reading' = "done" => IF page' = Null THEN Listed' <= n' * PageSize
                              ELSE kind' = "events" /\ Listed' > MaxEventPages * PageSize
  BY DEF Whole
<1>1. PICK next \in NextPages : TurnTo(next)
  BY DEF ReadPage
<1>2. /\ page \in Nat /\ PagingTypes /\ n \in Nat /\ n' = n + 1 /\ kind' = kind /\ service' = service
      /\ page' = next /\ reading = "yes" /\ removals + insertions + repeats = 0
      /\ items' = items \o InOrder(Kept(Served))
  BY <1>1, ReadPageTypes DEF PagingInv, ReadPage, TurnTo, history, PagingTypes
<1>3. Start = n * PageSize /\ items = InOrder(Kept(Upto(n * PageSize)))
  BY <1>2 DEF Whole
<1>4. items' = InOrder(Kept(Upto(n * PageSize)))'
  <2>1. items' = InOrder(Kept(Upto((n + 1) * PageSize)))
    BY <1>2, <1>3, PageJoins
  <2>2. Kept(Upto(n * PageSize))' = Kept(Upto((n + 1) * PageSize))
    BY <1>2 DEF Kept, Upto
  <2>3. InOrder(Kept(Upto(n * PageSize)))' = InOrder(Kept(Upto((n + 1) * PageSize)))
    BY <2>2 DEF InOrder
  <2> QED
    BY <2>1, <2>3
<1>5. ~Overlapping /\ repeats' = 0
  <2>1. repeats' = IF Overlapping THEN repeats + 1 ELSE repeats
    BY DEF ReadPage
  <2>2. removals' \in Nat /\ insertions' \in Nat /\ repeats' \in Nat /\ repeats \in Nat
    BY DEF PagingInv, PagingTypes
  <2>3. (removals + insertions + repeats)' = removals' + insertions' + repeats'
    OBVIOUS
  <2>4. repeats' = 0
    BY <2>2, <2>3, SumOfSome
  <2> QED
    BY <2>1, <2>2, <2>4
<1>9. reading' = "yes" => Start' = n' * PageSize
  BY <1>3, <1>5, NextStarts
<1>6. n' * PageSize = n * PageSize + PageSize /\ Listed' = Listed
  BY <1>2, PagesAdd DEF Listed
<1>7. reading' = "done" /\ page' = Null => Listed' <= n' * PageSize
  BY <1>3, <1>5, <1>6, LastPage
<1>8. reading' = "done" /\ page' # Null => kind' = "events" /\ Listed' > MaxEventPages * PageSize
  <2> SUFFICES ASSUME reading' = "done", page' # Null
               PROVE  kind = "events" /\ Listed > MaxEventPages * PageSize
    BY <1>2, <1>6
  <2>1. kind = "events" /\ n + 1 = MaxEventPages /\ Start + PageSize < Listed
    BY CutShort
  <2>2. MaxEventPages * PageSize = Start + PageSize
    BY <1>2, <1>3, <2>1, PagesAdd
  <2> QED
    BY <2>1, <2>2, <1>2, StartIsANumber, Sizes, PagesAdd
<1> QED
  BY <1>4, <1>7, <1>8, <1>9

LEMMA WholeNext == PagingInv /\ PagingInv' /\ Whole /\ [PagingNext]_pagingVars => Whole'
<1> SUFFICES ASSUME PagingInv, PagingInv', Whole, [PagingNext]_pagingVars PROVE Whole'
  OBVIOUS
<1>1. CASE ReadPage
  BY <1>1, WholeReadPage
<1>2. ASSUME UNCHANGED <<kind, service, page, items, n, removals, insertions, repeats>>,
             reading' \in {reading, "failed"}
      PROVE  Whole'
  <2>1. Kept(Upto(n * PageSize))' = Kept(Upto(n * PageSize)) /\ Start' = Start /\ Listed' = Listed
    BY <1>2 DEF Kept, Upto, Start, Listed
  <2>2. InOrder(Kept(Upto(n * PageSize)))' = InOrder(Kept(Upto(n * PageSize)))
    BY <2>1 DEF InOrder
  <2> QED
    BY <1>2, <2>1, <2>2 DEF Whole
<1>3. ASSUME NEW asked \in Asked \cup {Null}, RefusedForNow(asked) PROVE Whole'
  BY <1>2, <1>3 DEF RefusedForNow, history
<1>4. CASE ReadFails \/ UNCHANGED pagingVars
  BY <1>2, <1>4 DEF ReadFails, history, pagingVars
<1>5. ASSUME removals' = removals + 1 \/ insertions' = insertions + 1 \/ repeats' = repeats + 1
      PROVE  Whole'
  <2>1. /\ removals \in Nat /\ insertions \in Nat /\ repeats \in Nat
        /\ removals' \in Nat /\ insertions' \in Nat /\ repeats' \in Nat
    BY DEF PagingInv, PagingTypes
  <2>2. removals' # 0 \/ insertions' # 0 \/ repeats' # 0
    BY <1>5, <2>1
  <2>3. (removals + insertions + repeats)' # 0
    BY <2>1, <2>2, SumOfSome, Zenon
  <2> QED
    BY <2>3 DEF Whole
<1> QED
  BY <1>1, <1>3, <1>4, <1>5 DEF PagingNext, Reader, ReadPageAgain, GoesAway, Appears

(* Reading a list that stays as it is gives every item the caller keeps,     *)
(* once and in order, however long the list and the pages are.              *)
THEOREM ListsAreReadWhole == PagingSpec => []ReadsTheWholeList
<1>1. PagingInv /\ Whole => ReadsTheWholeList
  <2> SUFFICES ASSUME PagingInv, Whole, reading = "done", removals + insertions + repeats = 0
               PROVE  LET all == InOrder(Kept(service)) IN
                      /\ IsPrefix(items, all)
                      /\ page = Null => items = all
                      /\ page # Null => kind = "events" /\ Listed > MaxEventPages * PageSize
    BY DEF ReadsTheWholeList
  <2>1. /\ items = InOrder(Kept(Upto(n * PageSize))) /\ PagingTypes
        /\ IF page = Null THEN Listed <= n * PageSize
           ELSE kind = "events" /\ Listed > MaxEventPages * PageSize
    BY DEF PagingInv, Whole
  <2> DEFINE rest == {i \in service : RankIn(service, i) > n * PageSize}
  <2>2. n * PageSize \in Nat /\ \A i \in service : RankIn(service, i) \in 1..Listed /\ RankIn(service, i) \in Nat
    BY <2>1, RanksAre, PagesAdd DEF PagingTypes
  <2>3. Upto(n * PageSize) \cup rest = service
    BY <2>2 DEF Upto
  <2>4. InOrder(Kept(service)) = items \o InOrder(Kept(rest))
    BY <2>1, <2>2, <2>3, ListsJoin
  <2>5. Listable(rest) /\ Listable(Kept(rest))
    <3>1. Listable(rest)
      BY <2>1, Sizes, Parts
    <3> QED
      BY <3>1, KeptAreServed
  <2>6. IsPrefix(items, InOrder(Kept(service)))
    BY <2>1, <2>4, <2>5, ListingInNat, PrefixOf DEF PagingTypes
  <2>7. ASSUME page = Null PROVE items = InOrder(Kept(service))
    <3>1. Upto(n * PageSize) = service
      BY <2>1, <2>2, <2>7, Sizes DEF Upto
    <3> QED
      BY <2>1, <3>1
  <2> QED
    BY <2>1, <2>6, <2>7
<1> QED
  BY <1>1, PagingInitInv, PagingNextInv, WholeInit, WholeNext, PTL DEF PagingSpec

-----------------------------------------------------------------------------
(* An edit of a list moves what comes after it by one place.                *)
LEMMA RankWithout ==
  ASSUME NEW S, Listable(S), NEW x \in S, NEW i \in Nat
  PROVE  RankIn(S \ {x}, i) = IF x <= i THEN RankIn(S, i) - 1 ELSE RankIn(S, i)
<1> DEFINE low == {j \in S : j <= i}
<1>1. {j \in S \ {x} : j <= i} = low \ {x} /\ (x \in low <=> x <= i)
  OBVIOUS
<1>2. IsFiniteSet(low) /\ Cardinality(low) \in Nat
  BY Parts DEF Listable
<1>3. Cardinality(low \ {x}) = IF x \in low THEN Cardinality(low) - 1 ELSE Cardinality(low)
  <2> HIDE DEF low
  <2> QED
    BY <1>2, FS_RemoveElement
<1> QED
  BY <1>1, <1>3 DEF RankIn

LEMMA RankWith ==
  ASSUME NEW S, Listable(S), NEW x \in Nat, x \notin S, NEW i \in Nat
  PROVE  /\ RankIn(S \cup {x}, i) = IF x <= i THEN RankIn(S, i) + 1 ELSE RankIn(S, i)
         /\ Listable(S \cup {x})
<1>1. Listable(S \cup {x})
  BY FS_AddElement DEF Listable
<1>2. (S \cup {x}) \ {x} = S
  OBVIOUS
<1>3. RankIn(S, i) = IF x <= i THEN RankIn(S \cup {x}, i) - 1 ELSE RankIn(S \cup {x}, i)
  <2>1. x \in S \cup {x}
    OBVIOUS
  <2>2. RankIn((S \cup {x}) \ {x}, i) = IF x <= i THEN RankIn(S \cup {x}, i) - 1 ELSE RankIn(S \cup {x}, i)
    BY <1>1, <2>1, RankWithout
  <2> QED
    BY <1>2, <2>2
<1>4. RankIn(S, i) \in Nat /\ RankIn(S \cup {x}, i) \in Nat
  <2>1. RankIn(S, i) \in 0..Cardinality(S) /\ RankIn(S \cup {x}, i) \in 0..Cardinality(S \cup {x})
    BY <1>1, RankType
  <2> QED
    BY <2>1, <1>1, Parts
<1> QED
  BY <1>1, <1>3, <1>4

LEMMA OneMore ==
  ASSUME NEW S, Listable(S), NEW T, NEW x, T \subseteq S \cup {x}
  PROVE  Cardinality(T) \in Nat /\ Cardinality(T) <= Cardinality(S) + 1
<1>1. /\ IsFiniteSet(S) /\ Cardinality(S) \in Nat
      /\ IsFiniteSet(S \cup {x}) /\ Cardinality(S \cup {x}) \in Nat
      /\ Cardinality(S \cup {x}) <= Cardinality(S) + 1
  <2>1. IsFiniteSet(S) /\ Cardinality(S) \in Nat
    BY Parts DEF Listable
  <2>2. /\ IsFiniteSet(S \cup {x})
        /\ Cardinality(S \cup {x}) = IF x \in S THEN Cardinality(S) ELSE Cardinality(S) + 1
    BY <2>1, FS_AddElement
  <2> QED
    BY <2>1, <2>2
<1>2. T \in SUBSET (S \cup {x})
  OBVIOUS
<1>3. Cardinality(T) \in Nat /\ Cardinality(T) <= Cardinality(S \cup {x})
  BY <1>1, <1>2, FS_Subset, FS_CardinalityType
<1> QED
  BY <1>1, <1>3

LEMMA ReadIs ==
  /\ \A i : Read(i) = Times(items, i)
  /\ \A i : Read(i)' = Times(items', i)
BY DEF Read, Times

LEMMA ReadTypes ==
  ASSUME PagingTypes, NEW i \in Items
  PROVE  Read(i) \in Nat /\ i \in Nat
<1>1. Listable({}) /\ i \in Nat
  BY FS_EmptySet, PagingAssumption DEF Listable
<1> QED
  BY <1>1, ReadIs, TimesAdd DEF PagingTypes

(* A page adds one reading to what is kept of it.                            *)
LEMMA ReadAdds ==
  ASSUME PagingInv, ReadPage, NEW i \in Items
  PROVE  /\ Read(i) \in Nat /\ i \in Nat
         /\ Read(i)' = IF i \in Kept(Served) THEN Read(i) + 1 ELSE Read(i)
<1>1. /\ page \in Nat /\ PagingTypes /\ items \in Seq(Nat)
      /\ items' = items \o InOrder(Kept(Served))
  BY ReadPageTypes DEF PagingInv, ReadPage, PagingTypes
<1>2. Listable(Kept(Served))
  BY <1>1, ServedIs, KeptAreServed
<1>3. Read(i) \in Nat /\ i \in Nat
  BY <1>1, ReadTypes
<1>4. Times(items \o InOrder(Kept(Served)), i)
           = IF i \in Kept(Served) THEN Times(items, i) + 1 ELSE Times(items, i)
  BY <1>1, <1>2, <1>3, TimesAdd
<1>5. Read(i) = Times(items, i) /\ Read(i)' = Times(items', i)
  BY ReadIs
<1> QED
  BY <1>1, <1>3, <1>4, <1>5

LEMMA KeptOfService ==
  ASSUME PagingTypes
  PROVE  /\ Kept(lasting) \subseteq service /\ Kept(lasting) \subseteq lasting
         /\ \A i \in Kept(lasting) : i \in Served => i \in Kept(Served)
         /\ Kept(Served) \subseteq Served /\ Served \subseteq service
BY DEF PagingTypes, Kept, Served

LEMMA ShiftSets ==
  ASSUME PagingTypes
  PROVE  /\ Listable(Skipped) /\ Cardinality(Skipped) \in Nat
         /\ Listable(Exposed \cup ReadTwice) /\ Cardinality(Exposed \cup ReadTwice) \in Nat
<1>1. Skipped \subseteq Items /\ Exposed \cup ReadTwice \subseteq Items
  BY KeptOfService DEF PagingTypes, Skipped, Exposed, ReadTwice
<1> QED
  BY <1>1, Sizes, Parts

(* A page reads what is left in its places, and nothing of the places before.*)
LEMMA ShiftsReadPage ==
  ASSUME PagingInv, PagingInv', ReadPage, ~Overlapping, repeats = 0, kind \notin ByCursor, Shifts
  PROVE  Shifts'
<1> DEFINE P == n * PageSize
<1>1. /\ page \in Nat /\ PagingTypes /\ n \in Nat /\ n' = n + 1 /\ kind' = kind /\ service' = service
      /\ lasting' = lasting /\ removals' = removals /\ insertions' = insertions /\ reading = "yes"
      /\ service \subseteq Items
  BY ReadPageTypes DEF PagingInv, ReadPage, TurnTo, history, PagingTypes
<1>2. P \in Nat /\ PageSize \in Nat /\ n' * PageSize = P + PageSize
  BY <1>1, PagesAdd
<1>3. Start = P
  BY <1>1, StartIs DEF PagingInv, Positions, PagingTypes, Kinds, ByNumber, ByOffset
<1> HIDE DEF P
<1>4. \A i \in service : RankIn(service, i) \in Nat /\ i \in Items
  BY <1>1, RanksAre
<1>5. \A i \in Items : /\ Read(i) \in Nat
                       /\ Read(i)' = IF i \in Kept(Served) THEN Read(i) + 1 ELSE Read(i)
  BY ReadAdds
<1>6. \A i \in service : i \in Served <=> RankIn(service, i) > P /\ RankIn(service, i) <= P + PageSize
  BY <1>2, <1>3, <1>4 DEF Served
<1>7. Skipped' \subseteq Skipped
  <2> SUFFICES ASSUME NEW i \in Skipped' PROVE i \in Skipped
    OBVIOUS
  <2>1. i \in Kept(lasting) /\ Read(i)' = 0 /\ RankIn(service, i) <= P + PageSize
    BY <1>1, <1>2 DEF Skipped, Kept
  <2>2. i \in service /\ i \in Items /\ i \notin Kept(Served)
    BY <1>1, <1>5, <2>1, KeptOfService
  <2>3. i \notin Served
    BY <1>1, <2>1, <2>2, KeptOfService
  <2>4. RankIn(service, i) <= P /\ Read(i) = 0
    BY <1>2, <1>4, <1>5, <1>6, <2>1, <2>2, <2>3
  <2> QED
    BY <2>1, <2>4 DEF Skipped, P
<1>8. (Exposed \cup ReadTwice)' \subseteq Exposed \cup ReadTwice
  <2>1. ASSUME NEW i \in Exposed' PROVE i \in Exposed
    <3>1. i \in service /\ Read(i)' > 0 /\ RankIn(service, i) > P + PageSize
      BY <1>1, <1>2 DEF Exposed
    <3>2. i \notin Kept(Served) /\ RankIn(service, i) > P
      BY <1>1, <1>2, <1>4, <1>6, <3>1, KeptOfService
    <3> QED
      BY <1>4, <1>5, <3>1, <3>2 DEF Exposed, P
  <2>2. ASSUME NEW i \in ReadTwice' PROVE i \in Exposed \cup ReadTwice
    <3>1. i \in Items /\ Read(i)' > 1
      BY DEF ReadTwice
    <3>2. CASE i \in Kept(Served)
      <4>1. i \in service /\ RankIn(service, i) > P
        BY <1>1, <1>6, <3>2, KeptOfService
      <4>2. Read(i) > 0
        BY <1>5, <3>1, <3>2
      <4> QED
        BY <4>1, <4>2 DEF Exposed, P
    <3>3. CASE i \notin Kept(Served)
      BY <1>5, <3>1, <3>3 DEF ReadTwice
    <3> QED
      BY <3>2, <3>3
  <2> QED
    BY <2>1, <2>2
<1>9. /\ Cardinality(Skipped') <= Cardinality(Skipped) /\ Cardinality(Skipped') \in Nat
      /\ Cardinality((Exposed \cup ReadTwice)') <= Cardinality(Exposed \cup ReadTwice)
      /\ Cardinality((Exposed \cup ReadTwice)') \in Nat
  BY <1>1, <1>7, <1>8, ShiftSets, Parts
<1>10. reading' = "done" /\ page' = Null => Listed' <= n' * PageSize
  BY <1>1, <1>2, <1>3, LastPage DEF Listed
<1>11. /\ Cardinality(Skipped) \in Nat /\ Cardinality(Exposed \cup ReadTwice) \in Nat
       /\ removals \in Nat /\ insertions \in Nat
  BY <1>1, ShiftSets DEF PagingTypes
<1> QED
  BY <1>1, <1>9, <1>10, <1>11 DEF Shifts

(* An item that goes away moves one unread item up into the pages read.      *)
LEMMA ShiftsGoesAway ==
  ASSUME PagingInv, PagingInv', NEW x \in Items, GoesAway(x), kind \notin ByCursor, Shifts
  PROVE  Shifts'
<1> DEFINE P == n * PageSize
<1>1. /\ PagingTypes /\ n \in Nat /\ kind' = kind /\ service' = service \ {x} /\ items' = items /\ n' = n
      /\ lasting' = lasting \ {x} /\ removals' = removals + 1 /\ insertions' = insertions
      /\ reading = "yes" /\ reading' = reading /\ x \in service /\ service \subseteq Items
  BY DEF PagingInv, PagingTypes, GoesAway, Edit
<1>2. P \in Nat
  BY <1>1, PagesAdd
<1> HIDE DEF P
<1>3. \A i : Read(i)' = Read(i)
  BY <1>1, ReadIs
<1>4. \A i \in service : /\ RankIn(service, i) \in Nat
                         /\ RankIn(service', i) = IF x <= i THEN RankIn(service, i) - 1 ELSE RankIn(service, i)
  BY <1>1, RanksAre, RankWithout, Sizes
<1>5. ASSUME NEW i \in Skipped' PROVE i \in Skipped \/ (i \in service /\ RankIn(service, i) = P + 1)
  <2>1. i \in Kept(lasting) /\ Read(i) = 0 /\ RankIn(service', i) <= P
    BY <1>1, <1>3 DEF Skipped, Kept, P
  <2>2. i \in service
    BY <1>1, <2>1, KeptOfService
  <2>3. RankIn(service, i) <= P \/ RankIn(service, i) = P + 1
    BY <1>2, <1>4, <2>1, <2>2
  <2>4. CASE RankIn(service, i) <= P
    BY <2>1, <2>4 DEF Skipped, P
  <2>5. CASE RankIn(service, i) = P + 1
    BY <2>2, <2>5
  <2> QED
    BY <2>3, <2>4, <2>5
<1>6. PICK y : Skipped' \subseteq Skipped \cup {y}
  <2>1. CASE \E y \in service : RankIn(service, y) = P + 1
    <3>1. PICK y \in service : RankIn(service, y) = P + 1
      BY <2>1
    <3>2. \A i \in service : RankIn(service, i) = P + 1 => i = y
      BY <1>1, <3>1, Sizes, RankOrders
    <3> QED
      BY <1>5, <3>2
  <2>2. CASE ~\E y \in service : RankIn(service, y) = P + 1
    BY <1>5, <2>2
  <2> QED
    BY <2>1, <2>2
<1>7. Cardinality(Skipped') <= Cardinality(Skipped) + 1 /\ Cardinality(Skipped') \in Nat
  BY <1>1, <1>6, ShiftSets, OneMore
<1>8. (Exposed \cup ReadTwice)' \subseteq Exposed \cup ReadTwice
  <2>1. ASSUME NEW i \in Exposed' PROVE i \in Exposed
    <3>1. i \in service /\ Read(i) > 0 /\ RankIn(service', i) > P
      BY <1>1, <1>3 DEF Exposed, P
    <3>2. RankIn(service, i) > P
      BY <1>2, <1>4, <3>1
    <3> QED
      BY <3>1, <3>2 DEF Exposed, P
  <2>2. ReadTwice' = ReadTwice
    BY <1>3 DEF ReadTwice
  <2> QED
    BY <2>1, <2>2
<1>9. /\ Cardinality((Exposed \cup ReadTwice)') <= Cardinality(Exposed \cup ReadTwice)
      /\ Cardinality((Exposed \cup ReadTwice)') \in Nat
  BY <1>1, <1>8, ShiftSets, Parts
<1>10. /\ Cardinality(Skipped) \in Nat /\ Cardinality(Exposed \cup ReadTwice) \in Nat
       /\ removals \in Nat /\ insertions \in Nat
  BY <1>1, ShiftSets DEF PagingTypes
<1> QED
  BY <1>1, <1>7, <1>9, <1>10 DEF Shifts

(* An item that comes moves one read item down, or is one read before.       *)
LEMMA ShiftsAppears ==
  ASSUME PagingInv, PagingInv', NEW x \in Items, Appears(x), kind \notin ByCursor, Shifts
  PROVE  Shifts'
<1> DEFINE P == n * PageSize
<1>1. /\ PagingTypes /\ n \in Nat /\ kind' = kind /\ service' = service \cup {x} /\ items' = items /\ n' = n
      /\ lasting' = lasting /\ removals' = removals /\ insertions' = insertions + 1
      /\ reading = "yes" /\ reading' = reading /\ x \notin service /\ service \subseteq Items
      /\ x \in Nat /\ service' \subseteq Items
  BY PagingAssumption DEF PagingInv, PagingTypes, Appears, Edit
<1>2. P \in Nat
  BY <1>1, PagesAdd
<1> HIDE DEF P
<1>3. \A i : Read(i)' = Read(i)
  BY <1>1, ReadIs
<1>4. \A i \in service : /\ RankIn(service, i) \in Nat /\ i \in Nat
                         /\ RankIn(service', i) = IF x <= i THEN RankIn(service, i) + 1 ELSE RankIn(service, i)
  BY <1>1, RanksAre, RankWith, Sizes
<1>5. Listable(service') /\ \A i \in service' : RankIn(service', i) \in Nat
  <2>1. Listable(service')
    BY <1>1, Sizes, Parts
  <2>2. Cardinality(service') \in Nat /\ \A i \in service' : RankIn(service', i) \in 1..Cardinality(service')
    BY <2>1, RankNumbers, Parts
  <2> QED
    BY <2>1, <2>2
<1>6. Skipped' \subseteq Skipped
  <2> SUFFICES ASSUME NEW i \in Skipped' PROVE i \in Skipped
    OBVIOUS
  <2>1. i \in Kept(lasting) /\ Read(i) = 0 /\ RankIn(service', i) <= P
    BY <1>1, <1>3 DEF Skipped, Kept, P
  <2>2. i \in service
    BY <1>1, <2>1, KeptOfService
  <2>3. RankIn(service, i) <= P
    BY <1>2, <1>4, <2>1, <2>2
  <2> QED
    BY <2>1, <2>3 DEF Skipped, P
<1>7. ASSUME NEW i \in Exposed'
      PROVE  i \in Exposed \/ i = x \/ (i \in service /\ RankIn(service, i) = P /\ x <= i)
  <2>1. i \in service' /\ Read(i) > 0 /\ RankIn(service', i) > P
    BY <1>1, <1>3 DEF Exposed, P
  <2>2. CASE i = x
    BY <2>2
  <2>3. CASE i # x /\ RankIn(service, i) > P
    BY <1>1, <2>1, <2>3 DEF Exposed, P
  <2>4. CASE i # x /\ ~(RankIn(service, i) > P)
    BY <1>1, <1>2, <1>4, <2>1, <2>4
  <2> QED
    BY <2>2, <2>3, <2>4
<1>8. ReadTwice' = ReadTwice
  BY <1>3 DEF ReadTwice
<1>9. PICK y : (Exposed \cup ReadTwice)' \subseteq (Exposed \cup ReadTwice) \cup {y}
  <2>1. CASE RankIn(service', x) > P
    <3>1. ASSUME NEW i \in service, RankIn(service, i) = P, x <= i PROVE FALSE
      <4>1. RankIn(service', x) < RankIn(service', i)
        BY <1>1, <1>4, <1>5, <3>1, RankGrows
      <4>2. RankIn(service', i) = P + 1
        BY <1>4, <3>1
      <4> QED
        BY <1>1, <1>2, <1>5, <2>1, <4>1, <4>2
    <3>2. Exposed' \subseteq Exposed \cup {x}
      BY <1>7, <3>1
    <3> QED
      BY <1>8, <3>2
  <2>2. CASE ~(RankIn(service', x) > P)
    <3>1. x \notin Exposed'
      BY <1>1, <2>2 DEF Exposed, P
    <3>2. CASE \E y \in service : RankIn(service, y) = P
      <4>1. PICK y \in service : RankIn(service, y) = P
        BY <3>2
      <4>2. \A i \in service : RankIn(service, i) = P => i = y
        BY <1>1, <4>1, Sizes, RankOrders
      <4>3. Exposed' \subseteq Exposed \cup {y}
        BY <1>7, <3>1, <4>2
      <4> QED
        BY <1>8, <4>3
    <3>3. CASE ~\E y \in service : RankIn(service, y) = P
      <4>1. Exposed' \subseteq Exposed
        BY <1>7, <3>1, <3>3
      <4> QED
        BY <1>8, <4>1
    <3> QED
      BY <3>2, <3>3
  <2> QED
    BY <2>1, <2>2
<1>10. /\ Cardinality(Skipped') <= Cardinality(Skipped) /\ Cardinality(Skipped') \in Nat
       /\ Cardinality((Exposed \cup ReadTwice)') <= Cardinality(Exposed \cup ReadTwice) + 1
       /\ Cardinality((Exposed \cup ReadTwice)') \in Nat
  BY <1>1, <1>6, <1>9, ShiftSets, Parts, OneMore
<1>11. /\ Cardinality(Skipped) \in Nat /\ Cardinality(Exposed \cup ReadTwice) \in Nat
       /\ removals \in Nat /\ insertions \in Nat
  BY <1>1, ShiftSets DEF PagingTypes
<1> QED
  BY <1>1, <1>10, <1>11 DEF Shifts

(* What a cursor is given lies after it, up to the next one.                 *)
LEMMA CursorServes ==
  ASSUME PagingInv, ReadPage, kind \in ByCursor
  PROVE  /\ page \in Nat
         /\ \A i \in Served : i > page
         /\ reading' = "yes" => /\ page' \in Nat /\ page < page'
                                /\ \A i \in service : i \in Served <=> page < i /\ i <= page'
         /\ page' = Null => \A i \in service : i \in Served <=> page < i
<1>1. PICK next \in NextPages : TurnTo(next)
  BY DEF ReadPage
<1>2. /\ page \in Nat /\ PagingTypes /\ page' = next /\ Served \subseteq service
  BY <1>1, ReadPageTypes, KeptOfService DEF PagingInv, ReadPage, TurnTo, PagingTypes
<1>3. \A i \in service : /\ i \in Nat /\ (i <= page <=> RankIn(service, i) <= Start)
                         /\ RankIn(service, i) \in 1..Listed /\ RankIn(service, i) \in Nat
  BY <1>2, CursorDivides, RanksAre
<1>4. Start \in Nat /\ Listed \in Nat /\ PageSize \in Nat \ {0}
  BY <1>2, StartIsANumber, Sizes, PagesAdd
<1>5. \A i \in service : i \in Served <=> page < i /\ RankIn(service, i) <= Start + PageSize
  BY <1>2, <1>3, <1>4 DEF Served
<1>0. ~Overlapping
  BY DEF Overlapping, ByCursor
<1>6. ASSUME reading' = "yes"
      PROVE  /\ page' \in Nat /\ page < page'
             /\ \A i \in service : i \in Served <=> page < i /\ i <= page'
  <2>1. next # Null
    BY <1>1, <1>6 DEF TurnTo
  <2>2. FullPage /\ next \in Served /\ \A i \in Served : i <= next
    BY <1>0, <1>2, <2>1, NextPagesAre DEF ByNumber, ByOffset, ByCursor
  <2>3. RankIn(service, next) = Start + PageSize
    BY <1>2, <2>2, CursorLiesAtTheEnd
  <2>4. next \in service /\ next \in Nat /\ page < next
    BY <1>2, <1>3, <1>5, <2>2
  <2>5. \A i \in service : i <= next => RankIn(service, i) <= RankIn(service, next)
    BY <1>2, <1>3, <2>4, RankGrows, Sizes
  <2> QED
    BY <1>2, <1>3, <1>5, <2>2, <2>3, <2>4, <2>5
<1>7. ASSUME page' = Null PROVE \A i \in service : i \in Served <=> page < i
  <2>1. Listed <= Start + PageSize
    BY <1>0, <1>7, LastPage
  <2> QED
    BY <1>3, <1>4, <1>5, <2>1
<1> QED
  BY <1>2, <1>3, <1>5, <1>6, <1>7

(* What is served by cursor is new, and nothing before the next one is left.*)
LEMMA DividedReadPage ==
  ASSUME PagingInv, PagingInv', ReadPage, kind \in ByCursor, Divided
  PROVE  Divided'
<1>1. /\ page \in Nat /\ PagingTypes /\ kind' = kind /\ service' = service /\ lasting' = lasting
      /\ reading = "yes" /\ service \subseteq Items
  BY ReadPageTypes DEF PagingInv, ReadPage, TurnTo, history, PagingTypes
<1>2. \A i \in Items : /\ Read(i) \in Nat /\ i \in Nat
                       /\ Read(i)' = IF i \in Kept(Served) THEN Read(i) + 1 ELSE Read(i)
  BY ReadAdds
<1>3. /\ \A i \in Items : Read(i) <= 1 /\ (Read(i) > 0 => i <= page)
      /\ \A i \in Kept(lasting) : i <= page => Read(i) > 0
  BY <1>1 DEF Divided
<1>4. \A i \in Served : i > page
  BY CursorServes
<1>5. ASSUME NEW i \in Items PROVE Read(i)' <= 1
  BY <1>1, <1>2, <1>3, <1>4, KeptOfService
<1>6. ASSUME reading' = "yes", NEW i \in Items, Read(i)' > 0 PROVE i <= page'
  <2>1. CASE i \in Kept(Served)
    BY <1>1, <1>6, <2>1, CursorServes, KeptOfService
  <2>2. CASE i \notin Kept(Served)
    <3>1. i <= page
      BY <1>2, <1>3, <1>6, <2>2
    <3> QED
      BY <1>1, <1>2, <1>6, <3>1, CursorServes
  <2> QED
    BY <2>1, <2>2
<1>7. ASSUME NEW i \in Kept(lasting), i <= page \/ i \in Served PROVE Read(i)' > 0
  BY <1>1, <1>2, <1>3, <1>7, KeptOfService
<1>8. ASSUME reading' = "yes", NEW i \in Kept(lasting), i <= page' PROVE Read(i)' > 0
  <2>1. i \in service /\ i \in Nat
    BY <1>1, <1>2, KeptOfService
  <2>2. i <= page \/ i \in Served
    BY <1>1, <1>8, <2>1, CursorServes
  <2> QED
    BY <1>7, <2>2
<1>9. ASSUME page' = Null, NEW i \in Kept(lasting) PROVE Read(i)' > 0
  <2>1. i \in service /\ i \in Nat
    BY <1>1, <1>2, KeptOfService
  <2>2. i <= page \/ i \in Served
    BY <1>1, <1>9, <2>1, CursorServes
  <2> QED
    BY <1>7, <2>2
<1>10. Kept(lasting)' = Kept(lasting)
  BY <1>1 DEF Kept
<1>11. page' = Null => Missed' = {}
  BY <1>1, <1>2, <1>9, <1>10 DEF Missed
<1> QED
  BY <1>5, <1>6, <1>8, <1>10, <1>11 DEF Divided

(* Until the service hands out a page again, by cursor or by place.         *)
LEMMA ShiftInit == PagingInit => ShiftInv
<1> SUFFICES ASSUME PagingInit PROVE ShiftInv
  OBVIOUS
<1>1. PagingTypes
  BY PagingInitInv DEF PagingInv
<1>2. items = <<>> /\ reading = "yes" /\ removals = 0 /\ insertions = 0 /\ n * PageSize = 0 /\ page = 0
  BY PagesAdd DEF PagingInit, FirstPage
<1>3. \A i : Read(i) = 0
  <2>1. \A i : {k \in 1..Len(items) : items[k] = i} = {}
    BY <1>2
  <2> QED
    BY <2>1, FS_EmptySet DEF Read
<1>4. \A i \in Items : i \in Nat /\ i > 0
  BY PagingAssumption
<1>5. Divided
  BY <1>1, <1>2, <1>3, <1>4, KeptOfService DEF Divided, PagingTypes
<1>6. Shifts
  <2>1. \A i \in service : RankIn(service, i) \in 1..Listed /\ RankIn(service, i) \in Nat
    BY <1>1, RanksAre
  <2>2. Skipped = {}
    BY <1>1, <1>2, <2>1, KeptOfService DEF Skipped
  <2>3. Exposed \cup ReadTwice = {}
    BY <1>3 DEF Exposed, ReadTwice
  <2>4. Cardinality(Skipped) = 0 /\ Cardinality(Exposed \cup ReadTwice) = 0
    BY <2>2, <2>3, FS_EmptySet
  <2> QED
    BY <1>2, <2>4 DEF Shifts
<1> QED
  BY <1>5, <1>6 DEF ShiftInv

LEMMA ShiftNext == PagingInv /\ PagingInv' /\ ShiftInv /\ [PagingNext]_pagingVars => ShiftInv'
<1> SUFFICES ASSUME PagingInv, PagingInv', ShiftInv, [PagingNext]_pagingVars, repeats' = 0
             PROVE  IF kind' \in ByCursor THEN Divided' ELSE Shifts'
  BY DEF ShiftInv
<1>1. CASE ReadPage
  <2>1. repeats = 0 /\ kind' = kind /\ ~Overlapping
    <3>1. repeats' = IF Overlapping THEN repeats + 1 ELSE repeats
      BY <1>1 DEF ReadPage
    <3>2. repeats \in Nat
      BY DEF PagingInv, PagingTypes
    <3> QED
      BY <1>1, <3>1, <3>2 DEF ReadPage, history
  <2> QED
    BY <1>1, <2>1, DividedReadPage, ShiftsReadPage DEF ShiftInv
<1>2. CASE ReadPageAgain
  <2>1. repeats \in Nat /\ repeats' = repeats + 1
    BY <1>2 DEF ReadPageAgain, PagingInv, PagingTypes
  <2> QED
    BY <2>1
<1>3. ASSUME UNCHANGED <<kind, service, page, items, n, lasting, removals, insertions, repeats>>,
             reading' \in {reading, "failed"}
      PROVE  IF kind' \in ByCursor THEN Divided' ELSE Shifts'
  <2>1. \A i : Read(i)' = Read(i)
    BY <1>3, ReadIs
  <2>2. Kept(lasting)' = Kept(lasting) /\ Listed' = Listed
    BY <1>3 DEF Kept, Listed
  <2>3. Missed' = Missed /\ Skipped' = Skipped /\ Exposed' = Exposed /\ ReadTwice' = ReadTwice
    BY <1>3, <2>1, <2>2 DEF Missed, Skipped, Exposed, ReadTwice
  <2>4. Divided => Divided'
    BY <1>3, <2>1, <2>2, <2>3 DEF Divided
  <2>5. Shifts => Shifts'
    BY <1>3, <2>2, <2>3 DEF Shifts
  <2> QED
    BY <1>3, <2>4, <2>5 DEF ShiftInv
<1>4. ASSUME NEW asked \in Asked \cup {Null}, RefusedForNow(asked)
      PROVE  IF kind' \in ByCursor THEN Divided' ELSE Shifts'
  BY <1>3, <1>4 DEF RefusedForNow, history
<1>5. CASE ReadFails \/ UNCHANGED pagingVars
  BY <1>3, <1>5 DEF ReadFails, history, pagingVars
<1>6. ASSUME UNCHANGED <<kind, page, items, reading, repeats>>, reading = "yes", lasting' \subseteq lasting, kind \in ByCursor
      PROVE  Divided'
  <2>1. \A i : Read(i)' = Read(i)
    BY <1>6, ReadIs
  <2>2. Kept(lasting)' \subseteq Kept(lasting)
    BY <1>6 DEF Kept
  <2> QED
    BY <1>6, <2>1, <2>2 DEF Divided, ShiftInv
<1>7. ASSUME NEW x \in Items, GoesAway(x)
      PROVE  IF kind' \in ByCursor THEN Divided' ELSE Shifts'
  <2>1. UNCHANGED <<kind, page, items, reading, repeats>> /\ reading = "yes" /\ lasting' \subseteq lasting
    BY <1>7 DEF GoesAway, Edit
  <2> QED
    BY <1>6, <1>7, <2>1, ShiftsGoesAway DEF ShiftInv
<1>8. ASSUME NEW x \in Items, Appears(x)
      PROVE  IF kind' \in ByCursor THEN Divided' ELSE Shifts'
  <2>1. UNCHANGED <<kind, page, items, reading, repeats>> /\ reading = "yes" /\ lasting' \subseteq lasting
    BY <1>8 DEF Appears, Edit
  <2> QED
    BY <1>6, <1>8, <2>1, ShiftsAppears DEF ShiftInv
<1> QED
  BY <1>1, <1>2, <1>4, <1>5, <1>7, <1>8 DEF PagingNext, Reader

(* A list that changes while it is read: no more items are passed over than  *)
(* went away and no more read twice than came, however many changes there   *)
(* are; reading by cursor does neither.                                     *)
THEOREM ShiftsStayBounded == PagingSpec => []ShiftsAreBounded
<1>1. PagingInv /\ ShiftInv => ShiftsAreBounded
  <2> SUFFICES ASSUME PagingInv, ShiftInv, reading = "done", page = Null, repeats = 0
               PROVE  /\ Cardinality(Missed) <= removals
                      /\ Cardinality(ReadTwice) <= insertions
                      /\ kind \in ByCursor => Missed = {} /\ ReadTwice = {}
    BY DEF ShiftsAreBounded
  <2>1. PagingTypes /\ removals \in Nat /\ insertions \in Nat
    BY DEF PagingInv, PagingTypes
  <2>2. CASE kind \in ByCursor
    <3>1. Missed = {}
      BY <2>2 DEF ShiftInv, Divided
    <3>2. ReadTwice = {}
      <4>1. \A i \in Items : Read(i) \in Nat /\ Read(i) <= 1
        BY <2>1, <2>2, ReadTypes DEF ShiftInv, Divided
      <4> QED
        BY <4>1 DEF ReadTwice
    <3>3. Cardinality({}) = 0
      BY FS_EmptySet
    <3> QED
      BY <2>1, <3>1, <3>2, <3>3
  <2>3. CASE kind \notin ByCursor
    <3>1. Shifts /\ Listed <= n * PageSize
      BY <2>3 DEF ShiftInv, Shifts
    <3>2. Missed \subseteq Skipped
      <4>1. \A i \in service : RankIn(service, i) <= n * PageSize
        <5>1. n * PageSize \in Nat /\ Listed \in Nat
          BY <2>1, PagesAdd, Sizes DEF PagingTypes
        <5>2. \A i \in service : RankIn(service, i) \in 1..Listed /\ RankIn(service, i) \in Nat
          BY <2>1, RanksAre
        <5> QED
          BY <3>1, <5>1, <5>2
      <4> QED
        BY <2>1, <4>1, KeptOfService DEF Missed, Skipped
    <3>3. ReadTwice \subseteq Exposed \cup ReadTwice
      OBVIOUS
    <3>4. /\ Cardinality(Missed) \in Nat /\ Cardinality(Missed) <= Cardinality(Skipped)
          /\ Cardinality(ReadTwice) \in Nat /\ Cardinality(ReadTwice) <= Cardinality(Exposed \cup ReadTwice)
          /\ Cardinality(Skipped) \in Nat /\ Cardinality(Exposed \cup ReadTwice) \in Nat
      BY <2>1, <3>2, <3>3, ShiftSets, Parts
    <3> QED
      BY <2>1, <2>3, <3>1, <3>4 DEF Shifts
  <2> QED
    BY <2>2, <2>3
<1> QED
  BY <1>1, PagingInitInv, PagingNextInv, ShiftInit, ShiftNext, PTL DEF PagingSpec

-----------------------------------------------------------------------------
(* A name is asked for by the first effect that runs, and never again.      *)
AskedOnce ==
  \A name \in Names : /\ load[name] \in {"none", "asked"} \cup Raw
                      /\ requests[name] = IF load[name] = "none" THEN 0 ELSE 1

(* A mounted reader still has something due, or shows what came.            *)
ShownOrDue ==
  \A r \in Readers :
    Settled(r) => Came(OverlayOf[r]) /\ overlay[r] = Parsed(load[OverlayOf[r]])

OverlayTypes ==
  /\ file \in [Names -> Raw]
  /\ DOMAIN load = Names
  /\ DOMAIN requests = Names
  /\ mounts \in [Readers -> Nat]
  /\ mounted \in [Readers -> BOOLEAN]
  /\ DOMAIN overlay = Readers
  /\ due \subseteq [reader : Readers, mount : Nat, what : {"effect", "callback"}]

OverlayInv == OverlayTypes /\ AskedOnce /\ ShownOrDue

-----------------------------------------------------------------------------
LEMMA OverlayInitInv == OverlayInit => OverlayInv
BY DEF OverlayInit, OverlayInv, OverlayTypes, AskedOnce, ShownOrDue, Settled

LEMMA ReadsAName == \A r \in Readers : OverlayOf[r] \in Names
BY DEF Names

LEMMA MountKeeps == ASSUME OverlayInv, NEW r \in Readers, Mount(r) PROVE OverlayInv'
<1> USE DEF OverlayInv, Mount
<1>1. OverlayTypes'
  BY DEF OverlayTypes
<1>2. AskedOnce'
  BY DEF AskedOnce
<1>3. ~Settled(r)'
  BY DEF Settled, Due, OverlayTypes
<1>4. \A q \in Readers : q # r /\ Settled(q)' => Settled(q)
  BY DEF Settled, Due, OverlayTypes
<1>5. ShownOrDue'
  BY <1>3, <1>4 DEF ShownOrDue, Came, OverlayTypes
<1> QED
  BY <1>1, <1>2, <1>5

LEMMA RunEffectKeeps == ASSUME OverlayInv, NEW r \in Readers, RunEffect(r) PROVE OverlayInv'
<1> USE DEF OverlayInv, RunEffect, LoadOnce
<1>1. OverlayTypes'
  BY DEF OverlayTypes, Due
<1>2. AskedOnce'
  BY ReadsAName DEF AskedOnce, OverlayTypes
<1>3. ~Settled(r)'
  BY DEF Settled, Due
<1>4. \A q \in Readers : q # r /\ Settled(q)' => Settled(q)
  BY DEF Settled, Due
<1>5. \A name \in Names : Came(name) => load'[name] = load[name]
  BY ReadsAName DEF Came, Raw, OverlayTypes
<1>6. ShownOrDue'
  BY <1>3, <1>4, <1>5, ReadsAName DEF ShownOrDue, Came
<1> QED
  BY <1>1, <1>2, <1>6

LEMMA ArriveKeeps == ASSUME OverlayInv, NEW name \in Names, Arrive(name) PROVE OverlayInv'
<1> USE DEF OverlayInv, Arrive
<1>1. PICK raw \in {file[name], "null"} : load' = [load EXCEPT ![name] = raw]
  OBVIOUS
<1>2. raw \in Raw
  BY DEF OverlayTypes, Raw
<1>3. OverlayTypes'
  BY <1>1 DEF OverlayTypes
<1>4. AskedOnce'
  BY <1>1, <1>2 DEF AskedOnce, OverlayTypes, Raw
<1>5. \A other \in Names : Came(other) => load'[other] = load[other]
  BY <1>1 DEF Came, Raw, OverlayTypes
<1>6. ShownOrDue'
  BY <1>5, ReadsAName DEF ShownOrDue, Came, Settled, Due
<1> QED
  BY <1>3, <1>4, <1>6

LEMMA CallBackKeeps == ASSUME OverlayInv, NEW d \in due, CallBack(d) PROVE OverlayInv'
<1> USE DEF OverlayInv, CallBack
<1>1. d.reader \in Readers /\ d \in [reader : Readers, mount : Nat, what : {"effect", "callback"}]
  BY DEF OverlayTypes
<1>2. OverlayTypes'
  BY DEF OverlayTypes
<1>3. AskedOnce'
  BY DEF AskedOnce
<1>4. ASSUME NEW r \in Readers, Settled(r)'
      PROVE  Came(OverlayOf[r]) /\ overlay'[r] = Parsed(load[OverlayOf[r]])
  <2>1. CASE d = Due(r, "callback")
    BY <1>1, <1>4, <2>1 DEF Settled, Due, OverlayTypes
  <2>2. CASE d # Due(r, "callback")
    <3>1. Settled(r)
      BY <1>4, <2>2 DEF Settled, Due
    <3>2. overlay'[r] = overlay[r]
      BY <1>1, <2>2 DEF Due, OverlayTypes
    <3> QED
      BY <3>1, <3>2 DEF ShownOrDue
  <2> QED
    BY <2>1, <2>2
<1>5. ShownOrDue'
  BY <1>4 DEF ShownOrDue, Came
<1> QED
  BY <1>2, <1>3, <1>5

LEMMA UnmountKeeps == ASSUME OverlayInv, NEW r \in Readers, Unmount(r) PROVE OverlayInv'
<1> USE DEF OverlayInv, Unmount
<1>1. OverlayTypes' /\ AskedOnce'
  BY DEF OverlayTypes, AskedOnce
<1>2. ~Settled(r)'
  BY DEF Settled, OverlayTypes
<1>3. \A q \in Readers : q # r /\ Settled(q)' => Settled(q)
  BY DEF Settled, Due, OverlayTypes
<1>4. ShownOrDue'
  BY <1>2, <1>3 DEF ShownOrDue, Came, OverlayTypes
<1> QED
  BY <1>1, <1>4

LEMMA OverlayNextInv == OverlayInv /\ [OverlayNext]_overlayVars => OverlayInv'
<1> SUFFICES ASSUME OverlayInv, [OverlayNext]_overlayVars PROVE OverlayInv'
  OBVIOUS
<1>1. CASE UNCHANGED overlayVars
  BY <1>1 DEF overlayVars, OverlayInv, OverlayTypes, AskedOnce, ShownOrDue, Settled, Due, Came
<1> QED
  BY <1>1, MountKeeps, RunEffectKeeps, ArriveKeeps, CallBackKeeps, UnmountKeeps
     DEF OverlayNext, OverlayScheduled

(* All readers of an overlay that have been called back show the same, and   *)
(* its file was asked for once, whatever order they mount, leave and are    *)
(* called back in.                                                          *)
THEOREM ReadersAgree == OverlaySpec => []ReadersShowOneAnswer
<1>1. OverlayInv => ReadersShowOneAnswer
  <2> SUFFICES ASSUME OverlayInv PROVE ReadersShowOneAnswer
    OBVIOUS
  <2>1. \A name \in Names : requests[name] <= 1
    BY DEF OverlayInv, AskedOnce
  <2> QED
    BY <2>1 DEF OverlayInv, ShownOrDue, ReadersShowOneAnswer
<1> QED
  BY <1>1, OverlayInitInv, OverlayNextInv, PTL DEF OverlaySpec

-----------------------------------------------------------------------------
(* What the diagram keeps is what became of a render, and what Copy says is  *)
(* of the last copy its button took; without a diagram it says nothing.     *)
RenderInv ==
  /\ source \in Sources \cup {Nothing}
  /\ renders \subseteq [source : Sources, turn : Nat]
  /\ turns \in Nat
  /\ rendered # Nothing => /\ rendered.source \in Sources
                           /\ rendered.error = (rendered.source \in broken)
  /\ last # Nothing => last \notin broken
  /\ source = Nothing => status = Nothing
  /\ status # Nothing /\ status.ok => clipboard.source = status.source \/ clipboard.by # onScreen

LEMMA RenderInitInv == RenderInit => RenderInv
BY DEF RenderInit, RenderInv

LEMMA TurnKeeps ==
  ASSUME RenderInv, NEW s \in Sources \cup {Nothing}, Turn(s)
  PROVE  RenderInv'
<1> USE DEF RenderInv, Turn
<1>1. CASE s = Nothing
  BY <1>1
<1>2. CASE s # Nothing
  BY <1>2
<1> QED
  BY <1>1, <1>2

LEMMA RenderEndsKeeps ==
  ASSUME RenderInv, NEW r \in renders, RenderEnds(r)
  PROVE  RenderInv'
<1> USE DEF RenderInv, RenderEnds
<1>1. r.source \in Sources
  OBVIOUS
<1>2. CASE Live(r)
  BY <1>1, <1>2 DEF Outcome
<1>3. CASE ~Live(r)
  BY <1>3
<1> QED
  BY <1>2, <1>3

LEMMA CopyKeeps == ASSUME RenderInv, Copy PROVE RenderInv'
BY DEF RenderInv, Copy

LEMMA CopyEndsKeeps ==
  ASSUME RenderInv, NEW c \in copying, CopyEnds(c)
  PROVE  RenderInv'
<1> USE DEF RenderInv, CopyEnds
<1>1. PICK ok \in BOOLEAN :
        /\ clipboard' = IF ok THEN [source |-> c.source, by |-> c.by] ELSE clipboard
        /\ status' = IF source # Nothing /\ c.by = onScreen THEN StatusOf(c, ok) ELSE status
  OBVIOUS
<1>2. status' # Nothing /\ status'.ok
        => clipboard'.source = status'.source \/ clipboard'.by # onScreen'
  <2>1. CASE source # Nothing /\ c.by = onScreen
    BY <1>1, <2>1 DEF StatusOf
  <2>2. CASE ~(source # Nothing /\ c.by = onScreen) /\ ~ok
    BY <1>1, <2>2
  <2>3. CASE source = Nothing
    BY <1>1, <2>3
  <2>4. CASE c.by # onScreen /\ ok
    BY <1>1, <2>4
  <2> QED
    BY <2>1, <2>2, <2>3, <2>4
<1> QED
  BY <1>1, <1>2

LEMMA RenderNextInv == RenderInv /\ [RenderNext]_renderVars => RenderInv'
<1> SUFFICES ASSUME RenderInv, [RenderNext]_renderVars PROVE RenderInv'
  OBVIOUS
<1>1. CASE UNCHANGED renderVars
  BY <1>1 DEF renderVars, RenderInv
<1> QED
  BY <1>1, TurnKeeps, RenderEndsKeeps, CopyKeeps, CopyEndsKeeps DEF RenderNext, RenderScheduled

(* However late renders and copies end: the error on screen is one of the    *)
(* diagram's source, the export is no failed or other drawing, and Copy says*)
(* "Copied" only of what the clipboard took from it, and lost to no write   *)
(* but one of an earlier button.                                            *)
THEOREM DrawingsAreOfTheSource == RenderSpec => []DrawnIsWhatIsAsked
<1>1. RenderInv => DrawnIsWhatIsAsked
  BY RenderAssumption DEF RenderInv, DrawnIsWhatIsAsked, Current, Exported, SaysCopied
<1> QED
  BY <1>1, RenderInitInv, RenderNextInv, PTL DEF RenderSpec
=============================================================================
