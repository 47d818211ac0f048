--------------------------- MODULE ExplorerProofs ---------------------------
(***************************************************************************)
(* Theorems about Explorer, for every set of jobs, any number of queries   *)
(* under way, pages of any size and whatever the user and the other        *)
(* processes do.                                                           *)
(*                                                                         *)
(* What a page shows is a set of positions: of a list, those whose distance*)
(* from the tail is in an interval, of a sorted set, those whose rank is.  *)
(* The pages follow from the arithmetic of these intervals.  A query keeps *)
(* to what it has seen as long as nothing is taken out of its place.       *)
(***************************************************************************)
EXTENDS Explorer, FiniteSetTheorems, SequenceTheorems, WellFoundedInduction,
        NaturalsInduction, TLAPS

-----------------------------------------------------------------------------
(* Extrema of two numbers, quotients and windows *)

\* The positions of a list of n that are at least p away from the tail, m of
\* them, and the first m + 1 positions after o; and what is at such positions.
NearTail(n, p, m) == {i \in 1 .. n : p <= n - i /\ n - i < p + m}
FromHead(n, o, m) == {i \in 1 .. n : o < i /\ i <= o + m + 1}
At(l, W) == {l[i] : i \in W}

\* Min and Max are choices from a set; of two numbers they are the expected
\* ones.
LEMMA SmallerOfTwo ==
    ASSUME NEW a \in Int, NEW b \in Int
    PROVE  Min({a, b}) = IF a <= b THEN a ELSE b
<1>1. CASE a <= b
  <2>1. \A x \in {a, b} : (\A y \in {a, b} : x =< y) => x = a
    BY <1>1
  <2>2. a \in {a, b} /\ \A y \in {a, b} : a =< y
    BY <1>1
  <2> QED BY <1>1, <2>1, <2>2 DEF Min
<1>2. CASE ~(a <= b)
  <2>1. \A x \in {a, b} : (\A y \in {a, b} : x =< y) => x = b
    BY <1>2
  <2>2. b \in {a, b} /\ \A y \in {a, b} : b =< y
    BY <1>2
  <2> QED BY <1>2, <2>1, <2>2 DEF Min
<1> QED BY <1>1, <1>2

LEMMA LargerOfTwo ==
    ASSUME NEW a \in Int, NEW b \in Int
    PROVE  Max({a, b}) = IF a <= b THEN b ELSE a
<1>1. CASE a <= b
  <2>1. \A x \in {a, b} : (\A y \in {a, b} : x >= y) => x = b
    BY <1>1
  <2>2. b \in {a, b} /\ \A y \in {a, b} : b >= y
    BY <1>1
  <2> QED BY <1>1, <2>1, <2>2 DEF Max
<1>2. CASE ~(a <= b)
  <2>1. \A x \in {a, b} : (\A y \in {a, b} : x >= y) => x = a
    BY <1>2
  <2>2. a \in {a, b} /\ \A y \in {a, b} : a >= y
    BY <1>2
  <2> QED BY <1>2, <2>1, <2>2 DEF Max
<1> QED BY <1>1, <1>2

\* What \div is, without division.
LEMMA Quotient ==
    ASSUME NEW n \in Nat, NEW p \in Nat \ {0}
    PROVE  /\ n \div p \in Nat
           /\ (n \div p) * p \in Nat
           /\ (n \div p) * p <= n
           /\ n < (n \div p) * p + p
<1> QED OBVIOUS

\* Later pages begin after earlier ones end.
LEMMA Multiples ==
    ASSUME NEW a \in Nat, NEW b \in Nat, NEW p \in Nat, a < b
    PROVE  /\ a * p \in Nat /\ b * p \in Nat
           /\ a * p + p <= b * p
<1>1. PICK d \in Nat : b = a + 1 + d
  <2>1. b - a - 1 \in Nat /\ b = a + 1 + (b - a - 1)
    OBVIOUS
  <2> QED BY <2>1
<1>2. b * p = a * p + p + d * p
  BY <1>1
<1>3. d * p \in Nat /\ d * p >= 0
  BY <1>1
<1>4. a * p \in Nat
  OBVIOUS
<1> QED BY <1>2, <1>3, <1>4

\* A page in reverse has the same rows.
LEMMA RowsOfReverse ==
    ASSUME NEW S, NEW s \in Seq(S)
    PROVE  Reverse(s) \in Seq(S) /\ Len(Reverse(s)) = Len(s) /\ ToSet(Reverse(s)) = ToSet(s)
<1>1. Len(s) \in Nat /\ DOMAIN s = 1 .. Len(s)
  OBVIOUS
<1>2. \A i \in 1 .. Len(s) : Len(s) - i + 1 \in 1 .. Len(s) /\ Len(s) - (Len(s) - i + 1) + 1 = i
  BY <1>1
<1>3. Reverse(s) \in Seq(S) /\ Len(Reverse(s)) = Len(s)
  BY <1>1, <1>2 DEF Reverse
<1>4. DOMAIN Reverse(s) = 1 .. Len(s) /\ \A i \in 1 .. Len(s) : Reverse(s)[i] = s[Len(s) - i + 1]
  BY <1>1 DEF Reverse
<1>5. ASSUME NEW e \in ToSet(Reverse(s)) PROVE e \in ToSet(s)
  BY <1>1, <1>2, <1>4, <1>5 DEF ToSet
<1>6. ASSUME NEW e \in ToSet(s) PROVE e \in ToSet(Reverse(s))
  <2>1. PICK i \in 1 .. Len(s) : e = s[i]
    BY <1>1, <1>6 DEF ToSet
  <2>2. Len(s) - i + 1 \in 1 .. Len(s) /\ Reverse(s)[Len(s) - i + 1] = s[i]
    BY <1>1, <1>2, <1>4
  <2> QED BY <1>4, <2>1, <2>2 DEF ToSet
<1> QED BY <1>3, <1>5, <1>6

\* The rows of a range are what is at its positions.
LEMMA RowsOfSubSeq ==
    ASSUME NEW S, NEW l \in Seq(S), NEW f \in Nat \ {0}, NEW g \in Int, g <= Len(l)
    PROVE  /\ SubSeq(l, f, g) \in Seq(S)
           /\ Len(SubSeq(l, f, g)) = IF f <= g THEN g - f + 1 ELSE 0
           /\ ToSet(SubSeq(l, f, g)) = At(l, f .. g)
<1>1. \A i \in f .. g : i \in 1 .. Len(l) /\ l[i] \in S
  OBVIOUS
<1>2. /\ SubSeq(l, f, g) \in Seq(S)
      /\ Len(SubSeq(l, f, g)) = IF f <= g THEN g - f + 1 ELSE 0
      /\ \A i \in 1 .. g - f + 1 : SubSeq(l, f, g)[i] = l[f + i - 1]
  BY <1>1, SubSeqProperties
<1> DEFINE t == SubSeq(l, f, g)
<1>3. DOMAIN t = 1 .. Len(t) /\ DOMAIN t = 1 .. g - f + 1
  BY <1>2
<1> HIDE DEF t
<1>4. \A e \in ToSet(t) : e \in {l[i] : i \in f .. g}
  <2> SUFFICES ASSUME NEW k \in 1 .. g - f + 1 PROVE t[k] \in {l[i] : i \in f .. g}
    BY <1>3 DEF ToSet
  <2>1. f + k - 1 \in f .. g /\ t[k] = l[f + k - 1]
    BY <1>2 DEF t
  <2> QED BY <2>1
<1>5. \A i \in f .. g : l[i] \in ToSet(t)
  <2> SUFFICES ASSUME NEW i \in f .. g PROVE l[i] \in ToSet(t)
    OBVIOUS
  <2>1. i - f + 1 \in 1 .. g - f + 1 /\ t[i - f + 1] = l[f + (i - f + 1) - 1] /\ f + (i - f + 1) - 1 = i
    BY <1>2 DEF t
  <2> QED BY <1>3, <2>1 DEF ToSet
<1> QED BY <1>2, <1>4, <1>5 DEF t, At

\* A window that is p away from the tail and m wide, read from the tail on.
LEMMA TailWindow ==
    ASSUME NEW S, NEW l \in Seq(S), NEW p \in Nat, NEW m \in Nat \ {0}
    PROVE  /\ Reverse(Range0(l, -(p + m), -1 - p)) \in Seq(S)
           /\ ToSet(Reverse(Range0(l, -(p + m), -1 - p))) = At(l, NearTail(Len(l), p, m))
           /\ Reverse(Range0(l, -(p + m), -1 - p)) = <<>> => Len(l) <= p
<1> DEFINE n == Len(l)
           f == IF n - (p + m) >= 0 THEN n - (p + m) + 1 ELSE 1
           g == n - p
           W == NearTail(n, p, m)
<1>1. n \in Nat /\ f \in Nat \ {0} /\ g \in Int /\ g <= n
  OBVIOUS
<1>2. Range0(l, -(p + m), -1 - p) = SubSeq(l, f, g)
  <2>1. ~(-(p + m) >= 0) /\ ~(-1 - p >= 0) /\ n + (-1 - p) < n /\ n + (-1 - p) + 1 = n - p
    BY <1>1
  <2>2. (IF n + (-(p + m)) >= 0 THEN n + (-(p + m)) ELSE 0) + 1 = f
    BY <1>1
  <2> QED BY <2>1, <2>2 DEF Range0
<1>3. f .. g = W
  BY <1>1 DEF NearTail
<1>4. f <= g \/ n <= p
  BY <1>1
<1> HIDE DEF f, g
<1>5. /\ SubSeq(l, f, g) \in Seq(S)
      /\ Len(SubSeq(l, f, g)) = IF f <= g THEN g - f + 1 ELSE 0
      /\ ToSet(SubSeq(l, f, g)) = At(l, f .. g)
  BY <1>1, RowsOfSubSeq
<1> DEFINE t == SubSeq(l, f, g)
<1> HIDE DEF t
<1>6. t \in Seq(S) /\ ToSet(t) = At(l, W)
  BY <1>3, <1>5 DEF t
<1>7. Reverse(t) \in Seq(S) /\ Len(Reverse(t)) = Len(t) /\ ToSet(Reverse(t)) = ToSet(t)
  BY <1>6, RowsOfReverse
<1>8. Reverse(t) = <<>> => n <= p
  BY <1>1, <1>4, <1>5, <1>7 DEF t
<1> QED BY <1>2, <1>6, <1>7, <1>8 DEF t

\* A window that begins after the first o and is one wider than m.
LEMMA HeadWindow ==
    ASSUME NEW S, NEW l \in Seq(S), NEW o \in Nat, NEW m \in Nat
    PROVE  /\ Range0(l, o, o + m) \in Seq(S)
           /\ ToSet(Range0(l, o, o + m)) = At(l, FromHead(Len(l), o, m))
<1> DEFINE n == Len(l)
           g == IF o + m < n THEN o + m + 1 ELSE n
           W == FromHead(n, o, m)
<1>1. n \in Nat /\ o + 1 \in Nat \ {0} /\ g \in Int /\ g <= n
  OBVIOUS
<1>2. Range0(l, o, o + m) = SubSeq(l, o + 1, g)
  BY <1>1 DEF Range0
<1>3. o + 1 .. g = W
  BY <1>1 DEF FromHead
<1> HIDE DEF g
<1>4. SubSeq(l, o + 1, g) \in Seq(S) /\ ToSet(SubSeq(l, o + 1, g)) = At(l, o + 1 .. g)
  BY <1>1, RowsOfSubSeq
<1> QED BY <1>2, <1>3, <1>4

-----------------------------------------------------------------------------
(* Ranks *)

Before(z, j) == {k \in zset[z] : Score[k] < Score[j]}

\* ZRANK numbers the members of a set from 0, each with a number of its own.
LEMMA RanksNumber ==
    ASSUME NEW z, zset[z] \subseteq Jobs
    PROVE  /\ IsFiniteSet(zset[z]) /\ Cardinality(zset[z]) \in Nat
           /\ \A j \in zset[z] : Zrank(z, j) \in 0 .. Cardinality(zset[z]) - 1
           /\ \A i, j \in zset[z] : Zrank(z, i) = Zrank(z, j) => i = j
           /\ \A n \in 0 .. Cardinality(zset[z]) - 1 : \E j \in zset[z] : Zrank(z, j) = n
<1> DEFINE S == zset[z]
           N == Cardinality(zset[z])
<1>1. IsFiniteSet(S) /\ N \in Nat
  BY PagingAssumption, FS_Subset, FS_CardinalityType
<1>2. \A j \in S : IsFiniteSet(Before(z, j)) /\ Zrank(z, j) \in Nat /\ Zrank(z, j) = Cardinality(Before(z, j))
  <2> SUFFICES ASSUME NEW j \in S
               PROVE  IsFiniteSet(Before(z, j)) /\ Zrank(z, j) \in Nat /\ Zrank(z, j) = Cardinality(Before(z, j))
    OBVIOUS
  <2>1. Before(z, j) \in SUBSET S
    BY DEF Before
  <2>2. IsFiniteSet(Before(z, j)) /\ Cardinality(Before(z, j)) \in Nat
    BY <1>1, <2>1, FS_Subset, FS_CardinalityType
  <2> QED BY <2>2 DEF Before, Zrank
<1>3. \A j \in S : Zrank(z, j) \in 0 .. N - 1
  <2> SUFFICES ASSUME NEW j \in S PROVE Zrank(z, j) \in 0 .. N - 1
    OBVIOUS
  <2>1. Score[j] \in Int
    BY PagingAssumption
  <2>2. Before(z, j) \in SUBSET (S \ {j})
    BY <2>1 DEF Before
  <2>3. IsFiniteSet(S \ {j}) /\ Cardinality(S \ {j}) = N - 1
    BY <1>1, FS_RemoveElement
  <2>4. Cardinality(Before(z, j)) <= N - 1
    BY <2>2, <2>3, FS_Subset
  <2> QED BY <1>1, <1>2, <2>4
<1>4. \A i, j \in S : Score[i] < Score[j] => Zrank(z, i) < Zrank(z, j)
  <2> SUFFICES ASSUME NEW i \in S, NEW j \in S, Score[i] < Score[j] PROVE Zrank(z, i) < Zrank(z, j)
    OBVIOUS
  <2>1. \A k \in S : Score[k] \in Int
    BY PagingAssumption
  <2>2. i \notin Before(z, i) /\ Before(z, i) \cup {i} \in SUBSET Before(z, j)
    BY <2>1 DEF Before
  <2>3. Cardinality(Before(z, i) \cup {i}) = Cardinality(Before(z, i)) + 1
    BY <1>2, <2>2, FS_AddElement
  <2>4. Cardinality(Before(z, i) \cup {i}) <= Cardinality(Before(z, j))
    BY <1>2, <2>2, FS_Subset
  <2> QED BY <1>2, <2>3, <2>4
<1>5. \A i, j \in S : Zrank(z, i) = Zrank(z, j) => i = j
  <2> SUFFICES ASSUME NEW i \in S, NEW j \in S, i # j PROVE Zrank(z, i) # Zrank(z, j)
    OBVIOUS
  <2>1. Score[i] \in Int /\ Score[j] \in Int /\ Score[i] # Score[j]
    BY PagingAssumption
  <2>2. Score[i] < Score[j] \/ Score[j] < Score[i]
    BY <2>1
  <2> QED BY <1>2, <1>4, <2>2
<1> DEFINE f == [j \in S |-> Zrank(z, j)]
<1>6. f \in Injection(S, 0 .. N - 1)
  BY <1>3, <1>5 DEF Injection, IsInjective
<1>7. IsFiniteSet(0 .. N - 1) /\ Cardinality(0 .. N - 1) = N
  BY <1>1, FS_Interval
<1>8. f \in Surjection(S, 0 .. N - 1)
  <2> HIDE DEF f
  <2> QED BY <1>6, <1>7, FS_Injection
<1>9. \A n \in 0 .. N - 1 : \E j \in S : Zrank(z, j) = n
  BY <1>8 DEF Surjection
<1> QED BY <1>1, <1>3, <1>5, <1>9

\* ZRANGE lists every member once.
LEMMA RanksList ==
    ASSUME NEW z, zset[z] \subseteq Jobs
    PROVE  /\ Ranks(z) \in Seq(Jobs) /\ Len(Ranks(z)) = Cardinality(zset[z])
           /\ \A i \in 1 .. Len(Ranks(z)) : Ranks(z)[i] \in zset[z] /\ Zrank(z, Ranks(z)[i]) = i - 1
           /\ \A j \in zset[z] : Zrank(z, j) + 1 \in 1 .. Len(Ranks(z)) /\ Ranks(z)[Zrank(z, j) + 1] = j
<1> DEFINE S == zset[z]
           N == Cardinality(zset[z])
<1>1. /\ N \in Nat
      /\ \A j \in S : Zrank(z, j) \in 0 .. N - 1
      /\ \A i, j \in S : Zrank(z, i) = Zrank(z, j) => i = j
      /\ \A n \in 0 .. N - 1 : \E j \in S : Zrank(z, j) = n
  BY RanksNumber
<1>2. \A i \in 1 .. N : \E j \in S : Zrank(z, j) = i - 1
  <2> SUFFICES ASSUME NEW i \in 1 .. N PROVE \E j \in S : Zrank(z, j) = i - 1
    OBVIOUS
  <2>1. i - 1 \in 0 .. N - 1
    BY <1>1
  <2> QED BY <1>1, <2>1
<1>3. DOMAIN Ranks(z) = 1 .. N /\ \A i \in 1 .. N : Ranks(z)[i] = CHOOSE j \in S : Zrank(z, j) = i - 1
  BY DEF Ranks
<1>4. \A i \in 1 .. N : Ranks(z)[i] \in S /\ Zrank(z, Ranks(z)[i]) = i - 1
  BY <1>2, <1>3
<1>5. Ranks(z) = [i \in 1 .. N |-> Ranks(z)[i]]
  BY <1>3 DEF Ranks
<1>6. Ranks(z) \in Seq(Jobs) /\ Len(Ranks(z)) = N
  BY <1>1, <1>4, <1>5
<1>7. \A j \in S : Zrank(z, j) + 1 \in 1 .. N /\ Ranks(z)[Zrank(z, j) + 1] = j
  <2> SUFFICES ASSUME NEW j \in S PROVE Zrank(z, j) + 1 \in 1 .. N /\ Ranks(z)[Zrank(z, j) + 1] = j
    OBVIOUS
  <2>1. Zrank(z, j) + 1 \in 1 .. N /\ Zrank(z, j) + 1 - 1 = Zrank(z, j)
    BY <1>1
  <2> QED BY <1>1, <1>4, <2>1
<1> QED BY <1>4, <1>6, <1>7

-----------------------------------------------------------------------------
(* Pages *)

\* All that the pages depend on.
PlacesTyped == queue \in [Queues -> Seq(Jobs)] /\ zset \in [SetNames -> SUBSET Jobs]

\* The middleware changes neither the offset nor the limit the panel asks for.
LEMMA OffsetOfPage ==
    ASSUME NEW page \in Nat \ {0}
    PROVE  /\ Offset(page) \in Nat /\ ClampOffset(Offset(page)) = Offset(page)
           /\ ClampLimit(PageSize) = PageSize /\ PageSize \in Nat \ {0}
<1>1. PageSize \in Nat \ {0} /\ MaxLimit \in Nat \ {0} /\ PageSize <= MaxLimit
  BY PagingAssumption
<1>2. page - 1 \in Nat
  OBVIOUS
<1>3. Offset(page) \in Nat
  BY <1>1, <1>2 DEF Offset
<1>4. ClampOffset(Offset(page)) = Offset(page)
  BY <1>3, LargerOfTwo DEF ClampOffset
<1>5. Min({MaxLimit, PageSize}) = PageSize
  BY <1>1, SmallerOfTwo
<1>6. Max({0, PageSize}) = PageSize
  BY <1>1, LargerOfTwo
<1> QED BY <1>1, <1>3, <1>4, <1>5, <1>6 DEF ClampLimit

\* A page of a list: the positions as far from the tail as the page says.
LEMMA QueuePage ==
    ASSUME PlacesTyped, NEW page \in Nat \ {0}
    PROVE  /\ RowsOf("queue", Browsed, page) \in Seq(Jobs)
           /\ ToSet(RowsOf("queue", Browsed, page)) =
                At(queue[Browsed], NearTail(Len(queue[Browsed]), Offset(page), PageSize))
<1> DEFINE l == queue[Browsed]
           o == Offset(page)
           P == PageSize
<1>1. l \in Seq(Jobs)
  BY ExplorerAssumption DEF PlacesTyped
<1>2. o \in Nat /\ P \in Nat \ {0} /\ ClampOffset(o) = o /\ ClampLimit(P) = P
  BY OffsetOfPage
<1>3. RowsOf("queue", Browsed, page) = QueuePeek(l, P, o)
  BY <1>2 DEF RowsOf, PageOf
<1> HIDE DEF l, o, P
<1>4. QueuePeek(l, P, o) = Reverse(Range0(l, -(o + P), -1 - o))
  <2>1. -o - 1 \in Int /\ -o - 1 - P + 1 \in Int /\ -o - 1 - P + 1 <= -o - 1
    BY <1>2
  <2>2. /\ Min({-o - 1, -o - 1 - P + 1}) = -o - 1 - P + 1
        /\ Max({-o - 1, -o - 1 - P + 1}) = -o - 1
    <3>1. Min({-o - 1, -o - 1 - P + 1}) = IF -o - 1 <= -o - 1 - P + 1 THEN -o - 1 ELSE -o - 1 - P + 1
      BY <2>1, SmallerOfTwo
    <3>2. Max({-o - 1, -o - 1 - P + 1}) = IF -o - 1 <= -o - 1 - P + 1 THEN -o - 1 - P + 1 ELSE -o - 1
      BY <2>1, LargerOfTwo
    <3>3. -o - 1 <= -o - 1 - P + 1 => -o - 1 = -o - 1 - P + 1
      BY <1>2
    <3> QED BY <2>1, <3>1, <3>2, <3>3
  <2>3. -o - 1 - P + 1 = -(o + P) /\ -o - 1 = -1 - o
    BY <1>2
  <2> QED BY <2>2, <2>3 DEF QueuePeek
<1>5. /\ Reverse(Range0(l, -(o + P), -1 - o)) \in Seq(Jobs)
      /\ ToSet(Reverse(Range0(l, -(o + P), -1 - o))) = At(l, NearTail(Len(l), o, P))
  BY <1>1, <1>2, TailWindow
<1> QED BY <1>3, <1>4, <1>5 DEF l, o, P

\* A page of a set: the ranks from the offset on, and one more.
LEMMA SetPage ==
    ASSUME PlacesTyped, NEW z \in SetNames, NEW page \in Nat \ {0}
    PROVE  /\ RowsOf(z, Browsed, page) \in Seq(Jobs)
           /\ ToSet(RowsOf(z, Browsed, page)) =
                At(Ranks(z), FromHead(Len(Ranks(z)), Offset(page), PageSize))
<1>1. zset[z] \subseteq Jobs /\ z # "queue"
  BY DEF PlacesTyped, SetNames
<1>2. Ranks(z) \in Seq(Jobs)
  BY <1>1, RanksList
<1>3. /\ Offset(page) \in Nat /\ ClampOffset(Offset(page)) = Offset(page)
      /\ ClampLimit(PageSize) = PageSize /\ PageSize \in Nat
  BY OffsetOfPage
<1>4. RowsOf(z, Browsed, page) = Range0(Ranks(z), Offset(page), Offset(page) + PageSize)
  BY <1>1, <1>3 DEF RowsOf, PageOf, SetPeek
<1> QED BY <1>2, <1>3, <1>4, HeadWindow

\* The arithmetic of the pagers: n rows fit on the pages up to the last one,
\* each on one, and every page before the last has a link to the next.
LEMMA PagesNumbered ==
    ASSUME NEW n \in Nat
    PROVE  /\ LastPage(n) \in Nat \ {0}
           /\ \A page \in 1 .. LastPage(n) - 1 : HasNext(page, n)
           /\ \A k \in 0 .. n - 1 : \E page \in 1 .. LastPage(n) :
                    Offset(page) <= k /\ k < Offset(page) + PageSize
<1> DEFINE P == PageSize
           m == n \div P
<1>1. P \in Nat \ {0}
  BY PagingAssumption
<1>2. m \in Nat /\ m * P \in Nat /\ m * P <= n /\ n < m * P + P
  BY <1>1, Quotient
<1>3. LastPage(n) = m + 1
  BY DEF LastPage
<1> HIDE DEF m, P
<1>4. ASSUME NEW page \in 1 .. LastPage(n) - 1 PROVE HasNext(page, n)
  <2>1. page \in Nat /\ page <= m
    BY <1>2, <1>3
  <2>2. page * P \in Nat /\ page * P <= m * P
    <3>1. CASE page = m
      BY <1>1, <1>2, <3>1
    <3>2. CASE page < m
      <4>1. page * P \in Nat /\ page * P + P <= m * P
        BY <1>1, <1>2, <2>1, <3>2, Multiples
      <4> QED BY <1>1, <1>2, <4>1
    <3> QED BY <1>2, <2>1, <3>1, <3>2
  <2> QED BY <1>2, <2>2 DEF HasNext, P
<1>5. ASSUME NEW k \in 0 .. n - 1
      PROVE  \E page \in 1 .. LastPage(n) : Offset(page) <= k /\ k < Offset(page) + PageSize
  <2> DEFINE c == k \div P
  <2>1. k \in Nat /\ k < n
    OBVIOUS
  <2>2. c \in Nat /\ c * P \in Nat /\ c * P <= k /\ k < c * P + P
    BY <1>1, <2>1, Quotient
  <2> HIDE DEF c
  <2>3. c <= m
    <3> SUFFICES ASSUME m < c PROVE FALSE
      BY <1>2, <2>2
    <3>1. m * P + P <= c * P
      BY <1>1, <1>2, <2>2, Multiples
    <3> QED BY <1>1, <1>2, <2>1, <2>2, <3>1
  <2>4. c + 1 \in 1 .. LastPage(n) /\ c + 1 - 1 = c
    BY <1>2, <1>3, <2>2, <2>3
  <2>5. Offset(c + 1) = c * P
    BY <1>1, <2>2, <2>4 DEF Offset, P
  <2> QED BY <2>2, <2>4, <2>5 DEF P
<1> QED BY <1>2, <1>3, <1>4, <1>5

\* Later pages begin where earlier ones end, the next one right there.
LEMMA PagesApart ==
    ASSUME NEW page \in Nat \ {0}, NEW later \in Nat \ {0}, page < later
    PROVE  /\ Offset(page) \in Nat /\ Offset(later) \in Nat /\ PageSize \in Nat \ {0}
           /\ later = page + 1 => Offset(later) = Offset(page) + PageSize
           /\ later # page + 1 => Offset(page) + PageSize + PageSize <= Offset(later)
           /\ page * PageSize = Offset(page) + PageSize
<1> DEFINE P == PageSize
           a == page - 1
           b == later - 1
<1>1. P \in Nat \ {0} /\ a \in Nat /\ b \in Nat /\ page = a + 1 /\ later = b + 1 /\ a < b
  BY PagingAssumption
<1>2. Offset(page) = a * P /\ Offset(later) = b * P
  BY DEF Offset
<1> HIDE DEF P, a, b
<1>3. a * P \in Nat /\ b * P \in Nat /\ (a + 1) * P = a * P + P
  BY <1>1
<1>4. b = a + 1 => b * P = a * P + P
  BY <1>1, <1>3
<1>5. ASSUME b # a + 1 PROVE a * P + P + P <= b * P
  <2>1. a + 1 \in Nat /\ a + 1 < b
    BY <1>1, <1>5
  <2>2. (a + 1) * P + P <= b * P
    BY <1>1, <2>1, Multiples
  <2> QED BY <1>3, <2>2
<1> QED BY <1>1, <1>2, <1>3, <1>4, <1>5 DEF P

\* Every job of a queue is on one of the pages the pager links to.
LEMMA QueueCovered ==
    ASSUME PlacesTyped, IsInjective(queue[Browsed])
    PROVE  Covered("queue")
<1> DEFINE l == queue[Browsed]
           n == Len(l)
           rows(page) == ToSet(RowsOf("queue", Browsed, page))
           W(page) == NearTail(n, Offset(page), PageSize)
<1>1. l \in Seq(Jobs) /\ n \in Nat /\ DOMAIN l = 1 .. n
  BY ExplorerAssumption DEF PlacesTyped
<1>2. SizeOf("queue", Browsed) = n /\ Members("queue") = At(l, 1 .. n)
  BY <1>1 DEF SizeOf, Members, ToSet, At
<1>3. /\ LastPage(n) \in Nat \ {0}
      /\ \A page \in 1 .. LastPage(n) - 1 : HasNext(page, n)
      /\ \A k \in 0 .. n - 1 : \E page \in 1 .. LastPage(n) :
                Offset(page) <= k /\ k < Offset(page) + PageSize
  BY <1>1, PagesNumbered
<1>4. \A page \in 1 .. LastPage(n) : page \in Nat \ {0} /\ rows(page) = At(l, W(page))
  BY <1>3, QueuePage
<1>5. \A a, b \in 1 .. n : l[a] = l[b] => a = b
  BY <1>1 DEF IsInjective
<1> HIDE DEF l, n, rows, W
<1>6. At(l, 1 .. n) = UNION {rows(page) : page \in 1 .. LastPage(n)}
  <2>1. ASSUME NEW i \in 1 .. n PROVE \E page \in 1 .. LastPage(n) : l[i] \in rows(page)
    <3>1. n - i \in 0 .. n - 1
      BY <1>1
    <3>2. PICK page \in 1 .. LastPage(n) : Offset(page) <= n - i /\ n - i < Offset(page) + PageSize
      BY <1>3, <3>1
    <3>3. i \in W(page)
      BY <3>2 DEF W, NearTail
    <3> QED BY <1>4, <3>3 DEF At
  <2>2. \A page \in 1 .. LastPage(n) : rows(page) \subseteq At(l, 1 .. n)
    BY <1>4 DEF W, NearTail, At
  <2> QED BY <2>1, <2>2 DEF At
<1>7. ASSUME NEW page \in 1 .. LastPage(n), NEW later \in 1 .. LastPage(n), page < later
      PROVE  Cardinality(rows(page) \cap rows(later)) = 0
  <2>1. page \in Nat \ {0} /\ later \in Nat \ {0}
    BY <1>3
  <2>2. /\ Offset(page) \in Nat /\ Offset(later) \in Nat /\ PageSize \in Nat \ {0}
        /\ Offset(page) + PageSize <= Offset(later)
    BY <1>7, <2>1, PagesApart
  <2>3. W(page) \cap W(later) = {}
    BY <1>1, <2>2 DEF W, NearTail
  <2>4. W(page) \subseteq 1 .. n /\ W(later) \subseteq 1 .. n
    BY DEF W, NearTail
  <2>5. At(l, W(page)) \cap At(l, W(later)) = {}
    BY <1>5, <2>3, <2>4 DEF At
  <2>6. rows(page) \cap rows(later) = {}
    BY <1>4, <2>5
  <2> QED BY <2>6, FS_EmptySet, Zenon
<1>8. \A page, later \in 1 .. LastPage(n) : page < later => Cardinality(rows(page) \cap rows(later)) = 0
  BY <1>7
<1>9. \A page, later \in 1 .. LastPage(n) : page < later => Cardinality(rows(page) \cap rows(later)) <= 0
  BY <1>8
<1> QED BY <1>2, <1>3, <1>6, <1>9 DEF Covered, rows

\* Every member of a set is, and a page shares a row, one, with the next only.
LEMMA SetCovered ==
    ASSUME PlacesTyped, NEW z \in SetNames
    PROVE  Covered(z)
<1> DEFINE l == Ranks(z)
           n == Len(l)
           rows(page) == ToSet(RowsOf(z, Browsed, page))
           W(page) == FromHead(n, Offset(page), PageSize)
<1>1. zset[z] \subseteq Jobs /\ z # "queue"
  BY DEF PlacesTyped, SetNames
<1>2. /\ l \in Seq(Jobs) /\ n \in Nat /\ n = Cardinality(zset[z])
      /\ \A i \in 1 .. n : l[i] \in zset[z] /\ Zrank(z, l[i]) = i - 1
      /\ \A j \in zset[z] : Zrank(z, j) + 1 \in 1 .. n /\ l[Zrank(z, j) + 1] = j
  BY <1>1, RanksList
<1>3. SizeOf(z, Browsed) = n /\ Members(z) = zset[z]
  BY <1>1, <1>2 DEF SizeOf, Members
<1>4. /\ LastPage(n) \in Nat \ {0}
      /\ \A page \in 1 .. LastPage(n) - 1 : HasNext(page, n)
      /\ \A k \in 0 .. n - 1 : \E page \in 1 .. LastPage(n) :
                Offset(page) <= k /\ k < Offset(page) + PageSize
  BY <1>2, PagesNumbered
<1>5. \A page \in 1 .. LastPage(n) : page \in Nat \ {0} /\ rows(page) = At(l, W(page))
  BY <1>4, SetPage
<1> HIDE DEF l, n, rows, W
<1>6. \A a, b \in 1 .. n : l[a] = l[b] => a = b
  <2> SUFFICES ASSUME NEW a \in 1 .. n, NEW b \in 1 .. n, l[a] = l[b] PROVE a = b
    OBVIOUS
  <2>1. a - 1 = b - 1
    BY <1>2
  <2> QED BY <2>1
<1>7. zset[z] = UNION {rows(page) : page \in 1 .. LastPage(n)}
  <2>1. ASSUME NEW j \in zset[z] PROVE \E page \in 1 .. LastPage(n) : j \in rows(page)
    <3>1. PICK i \in 1 .. n : l[i] = j
      BY <1>2
    <3>2. i - 1 \in 0 .. n - 1
      BY <1>2
    <3>3. PICK page \in 1 .. LastPage(n) : Offset(page) <= i - 1 /\ i - 1 < Offset(page) + PageSize
      BY <1>4, <3>2
    <3>4. Offset(page) \in Nat /\ PageSize \in Nat
      BY <1>5, OffsetOfPage
    <3>5. i \in W(page)
      BY <3>3, <3>4 DEF W, FromHead
    <3> QED BY <1>5, <3>1, <3>5 DEF At
  <2>2. \A page \in 1 .. LastPage(n) : rows(page) \subseteq zset[z]
    BY <1>2, <1>5 DEF W, FromHead, At
  <2> QED BY <2>1, <2>2
<1>8. ASSUME NEW page \in 1 .. LastPage(n), NEW later \in 1 .. LastPage(n), page < later
      PROVE  Cardinality(rows(page) \cap rows(later)) =
                IF later = page + 1 /\ n > page * PageSize THEN 1 ELSE 0
  <2>1. page \in Nat \ {0} /\ later \in Nat \ {0}
    BY <1>4
  <2>2. /\ Offset(page) \in Nat /\ Offset(later) \in Nat /\ PageSize \in Nat \ {0}
        /\ later = page + 1 => Offset(later) = Offset(page) + PageSize
        /\ later # page + 1 => Offset(page) + PageSize + PageSize <= Offset(later)
        /\ page * PageSize = Offset(page) + PageSize
    BY <1>8, <2>1, PagesApart
  <2>3. W(page) \subseteq 1 .. n /\ W(later) \subseteq 1 .. n
    BY DEF W, FromHead
  <2>4. CASE later = page + 1 /\ n > page * PageSize
    <3> DEFINE f == Offset(later) + 1
    <3>5. f \in Nat /\ f = Offset(page) + PageSize + 1 /\ f \in 1 .. n
      BY <1>2, <2>2, <2>4
    <3>6. ASSUME NEW i \in 1 .. n PROVE i \in W(page) /\ i \in W(later) <=> i = f
      <4>1. /\ i \in W(page) <=> Offset(page) < i /\ i <= Offset(page) + PageSize + 1
            /\ i \in W(later) <=> Offset(later) < i /\ i <= Offset(later) + PageSize + 1
        BY DEF W, FromHead
      <4>2. Offset(later) = Offset(page) + PageSize
        BY <2>2, <2>4
      <4>3. PICK o \in Nat, size \in Nat \ {0} : o = Offset(page) /\ size = PageSize
        BY <2>2
      <4>4. i \in Int
        BY <1>2
      <4>5. /\ i \in W(page) <=> o < i /\ i <= o + size + 1
            /\ i \in W(later) <=> o + size < i /\ i <= o + size + size + 1
            /\ f = o + size + 1
        BY <3>5, <4>1, <4>2, <4>3
      <4> HIDE DEF f
      <4> QED BY ONLY <4>3, <4>4, <4>5
    <3> HIDE DEF f
    <3>1. W(page) \cap W(later) = {f} /\ f \in 1 .. n
      BY <2>3, <3>5, <3>6
    <3>2. At(l, W(page)) \cap At(l, W(later)) = {l[f]}
      BY <1>6, <2>3, <3>1 DEF At
    <3>3. rows(page) \cap rows(later) = {l[f]}
      BY <1>5, <3>2
    <3>4. Cardinality(rows(page) \cap rows(later)) = 1
      BY <3>3, FS_Singleton, Zenon
    <3> QED BY <2>4, <3>4
  <2>5. CASE ~(later = page + 1 /\ n > page * PageSize)
    <3>1. W(page) \cap W(later) = {}
      BY <1>2, <2>2, <2>5 DEF W, FromHead
    <3>2. At(l, W(page)) \cap At(l, W(later)) = {}
      BY <1>6, <2>3, <3>1 DEF At
    <3>3. rows(page) \cap rows(later) = {}
      BY <1>5, <3>2
    <3>4. Cardinality(rows(page) \cap rows(later)) = 0
      BY <3>3, FS_EmptySet, Zenon
    <3> QED BY <2>5, <3>4
  <2> QED BY <2>4, <2>5
<1>9. \A page, later \in 1 .. LastPage(n) : page < later =>
            Cardinality(rows(page) \cap rows(later)) <= IF later = page + 1 THEN 1 ELSE 0
  BY <1>8
<1> QED BY <1>1, <1>3, <1>4, <1>7, <1>9 DEF Covered, rows

\* PagesCover needs no more of the store than its types.
LEMMA PlacesCovered ==
    ASSUME PlacesTyped
    PROVE  PagesCover
<1>1. PagesCover <=> \A place \in {place \in Shown : place = "queue" => IsInjective(queue[Browsed])} :
                            Covered(place)
  BY DEF PagesCover
<1>2. ASSUME NEW place \in Shown, place = "queue" => IsInjective(queue[Browsed])
      PROVE  Covered(place)
  <2>1. place = "queue" \/ place \in SetNames
    BY ExplorerAssumption DEF Places
  <2> QED BY <1>2, <2>1, QueueCovered, SetCovered
<1> QED BY <1>1, <1>2

-----------------------------------------------------------------------------
(* The inductive invariant *)

RouteOK(r) ==
    /\ r = [at |-> r.at, place |-> r.place, page |-> r.page, job |-> r.job]
    /\ r.at \in {"list", "job"} /\ r.place \in Places

\* Job j waits in the queue, at least d places away from the tail.
Beyond(j, d) ==
    \E i \in DOMAIN queue[Browsed] : queue[Browsed][i] = j /\ Len(queue[Browsed]) - i >= d

\* What the query of a job page may rely on while nothing is taken out of its
\* place: the job is there, where the query still has to look, and readable.
\* If the page of a set it asked for first was page 1, the job is not the first
\* member, or the page had it.
StillThere(u) ==
    LET place == u.to.place
        j == u.to.job
    IN  /\ j \in Members(place) /\ ~SomeMissing(place)
        /\ u.pc = "find" => Beyond(j, u.x * ScanSize)
        /\ u.pc = "findread" =>
                ToSet(u.rows) \subseteq Members("queue")
                /\ (j \in ToSet(u.rows) \/ Beyond(j, u.x * ScanSize + ScanSize))
        /\ place \in SetNames /\ u.to.page = 1 =>
                /\ u.pc = "mget" => j \in ToSet(u.rows) \/ Zrank(place, j) # 0
                /\ u.pc = "contains" => Zrank(place, j) # 0

QueryShape(u) ==
    /\ u = [pc |-> u.pc, to |-> u.to, size |-> u.size, rows |-> u.rows, x |-> u.x,
            shifted |-> u.shifted]
    /\ RouteOK(u.to) /\ u.x \in Nat /\ u.shifted \in BOOLEAN
    /\ u.pc \in {"find", "findread"} => u.to.place = "queue"
    /\ u.pc \in {"contains", "get"} => u.to.place \in SetNames
    /\ u.pc \in {"keys", "llen", "zcard", "range", "mget"} => u.x = 0
    /\ u.pc = "findread" => u.rows \in Seq(Jobs)

QueryOK(u) == QueryShape(u) /\ (~u.shifted => StillThere(u))

QueriesOK == query \in Seq(ToSet(query)) /\ \A q \in DOMAIN query : QueryOK(query[q])

ExplorerInv == PlacesTyped /\ RouteOK(route) /\ clicked.place \in Places /\ QueriesOK

\* The answer u is "not found" for the one reason that is left.
CausedMiss(u) ==
    u.pc = "missed" /\ ~u.shifted =>
        u.to.place # "queue" /\ u.to.page # 1 /\ Zrank(u.to.place, u.to.job) = 0

\* What MissedForACause says of a step.
MissesForACause ==
    \A q \in DOMAIN query \cap DOMAIN query' :
        /\ query[q].pc # "missed" /\ query' = [query EXCEPT ![q] = query'[q]]
        /\ query'[q].pc = "missed" /\ ~query'[q].shifted
        => LET to == query[q].to
           IN  to.place # "queue" /\ to.page # 1 /\ Zrank(to.place, to.job) = 0

-----------------------------------------------------------------------------
(* How queries come, go on and go *)

\* A sequence is one of what is in it.
LEMMA SeqOfMembers ==
    ASSUME NEW S, NEW s \in Seq(S)
    PROVE  s \in Seq(ToSet(s))
<1>1. Len(s) \in Nat /\ DOMAIN s = 1 .. Len(s)
  OBVIOUS
<1>2. s = [i \in 1 .. Len(s) |-> s[i]] /\ \A i \in 1 .. Len(s) : s[i] \in ToSet(s)
  BY <1>1 DEF ToSet
<1> QED BY <1>1, <1>2

\* A query that is as it should be stays so while the store rests.
LEMMA SameStoreSameQuery ==
    ASSUME UNCHANGED storeVars, NEW u
    PROVE  QueryOK(u) => QueryOK(u)'
<1>1. queue' = queue /\ zset' = zset /\ stored' = stored
  BY DEF storeVars
<1>2. \A j : HasPayload(j)' <=> HasPayload(j)
  BY <1>1 DEF HasPayload
<1>3. \A place : Members(place)' = Members(place) /\ (SomeMissing(place)' <=> SomeMissing(place))
  BY <1>1, <1>2 DEF Members, SomeMissing
<1>4. \A j, d : Beyond(j, d)' <=> Beyond(j, d)
  BY <1>1 DEF Beyond
<1>5. \A z, j : Zrank(z, j)' = Zrank(z, j)
  BY <1>1 DEF Zrank
<1>6. StillThere(u) => StillThere(u)'
  BY <1>3, <1>4, <1>5 DEF StillThere
<1> QED BY <1>6 DEF QueryOK, QueryShape, RouteOK

\* Queries are still in order if each is one of before or a good new one.
LEMMA QueriesKept ==
    ASSUME QueriesOK, UNCHANGED storeVars, NEW S, query' \in Seq(S),
           \A q \in DOMAIN query' : \/ QueryOK(query'[q])
                                    \/ \E k \in DOMAIN query : query'[q] = query[k]
    PROVE  QueriesOK'
<1>1. query' \in Seq(ToSet(query'))
  BY SeqOfMembers
<1>2. ASSUME NEW q \in DOMAIN query' PROVE QueryOK(query[q])'
  <2>1. QueryOK(query'[q])
    BY DEF QueriesOK
  <2>2. PICK u : u = query'[q]
    OBVIOUS
  <2>3. QueryOK(u)'
    BY <2>1, <2>2, SameStoreSameQuery
  <2> QED BY <2>2, <2>3
<1> QED BY <1>1, <1>2 DEF QueriesOK, ToSet

\* Queues and sets have jobs only.
LEMMA MembersAreJobs ==
    ASSUME PlacesTyped, NEW place \in Places
    PROVE  Members(place) \subseteq Jobs
<1>1. CASE place = "queue"
  <2>1. queue[Browsed] \in Seq(Jobs)
    BY ExplorerAssumption DEF PlacesTyped
  <2> QED BY <1>1, <2>1 DEF Members, ToSet
<1>2. CASE place # "queue"
  BY <1>2 DEF PlacesTyped, Places, Members
<1> QED BY <1>1, <1>2

\* Only the query of a job that is in its place, and of none but readable ones,
\* begins with something to rely on.
LEMMA NewQueryOK ==
    ASSUME PlacesTyped, NEW r, RouteOK(r)
    PROVE  QueryOK(NewQuery(r)) /\ NewQuery(r).pc # "missed"
<1> DEFINE u == NewQuery(r)
<1>1. /\ u.pc = FirstCommand(r) /\ u.to = r /\ u.x = 0
      /\ u.shifted = (r.job \notin Members(r.place) \/ SomeMissing(r.place))
      /\ u = [pc |-> u.pc, to |-> u.to, size |-> u.size, rows |-> u.rows, x |-> u.x,
              shifted |-> u.shifted]
  BY DEF NewQuery
<1>2. \/ u.pc \in {"keys", "zcard", "range"}
      \/ u.pc = "find" /\ r.place = "queue"
      \/ u.pc = "contains" /\ r.place \in SetNames /\ r.page = 0
  BY <1>1 DEF FirstCommand, SingleGet, RouteOK, Places
<1> HIDE DEF u
<1>3. QueryShape(u)
  <2>1. u.shifted \in BOOLEAN
    BY <1>1
  <2> QED BY <1>1, <1>2, <2>1 DEF QueryShape
<1>4. ASSUME ~u.shifted PROVE StillThere(u)
  <2>1. r.job \in Members(r.place) /\ ~SomeMissing(r.place)
    BY <1>1, <1>4
  <2>2. ASSUME u.pc = "find" PROVE Beyond(r.job, u.x * ScanSize)
    <3>1. r.place = "queue"
      BY <1>2, <2>2
    <3>2. queue[Browsed] \in Seq(Jobs) /\ r.job \in ToSet(queue[Browsed])
      BY <2>1, <3>1, ExplorerAssumption DEF PlacesTyped, Members
    <3>3. PICK i \in DOMAIN queue[Browsed] : queue[Browsed][i] = r.job
      BY <3>2 DEF ToSet
    <3>4. Len(queue[Browsed]) - i >= 0
      BY <3>2
    <3>5. u.x * ScanSize = 0
      BY <1>1, PagingAssumption
    <3> QED BY <3>3, <3>4, <3>5 DEF Beyond
  <2>3. u.pc # "findread" /\ u.pc # "mget" /\ (u.pc = "contains" => r.page = 0)
    BY <1>2
  <2> QED BY <1>1, <2>1, <2>2, <2>3 DEF StillThere
<1>5. u.pc # "missed"
  BY <1>2
<1> QED BY <1>3, <1>4, <1>5 DEF QueryOK, u

\* _query or _fetch is called.
LEMMA BeginKeeps ==
    ASSUME PlacesTyped, QueriesOK, UNCHANGED storeVars, NEW r, RouteOK(r), Begin(r)
    PROVE  QueriesOK' /\ MissesForACause
<1>1. query' = Append(query, NewQuery(r)) /\ QueryOK(NewQuery(r))
  BY NewQueryOK DEF Begin
<1> DEFINE S == ToSet(query) \cup {NewQuery(r)}
           u == NewQuery(r)
<1>2. query \in Seq(S) /\ u \in S
  <2>1. query \in Seq(ToSet(query))
    BY DEF QueriesOK
  <2> QED BY <2>1
<1> HIDE DEF S, u
<1>3. /\ query' \in Seq(S) /\ Len(query') = Len(query) + 1 /\ Len(query) \in Nat
      /\ DOMAIN query = 1 .. Len(query) /\ DOMAIN query' = 1 .. Len(query) + 1
      /\ \A q \in 1 .. Len(query) : query'[q] = query[q]
      /\ query'[Len(query) + 1] = u
  BY <1>1, <1>2 DEF u
<1>4. QueriesOK'
  <2>1. \A q \in DOMAIN query' : \/ QueryOK(query'[q])
                                 \/ \E k \in DOMAIN query : query'[q] = query[k]
    <3>1. \A q \in DOMAIN query' : q \in 1 .. Len(query) \/ q = Len(query) + 1
      BY <1>3
    <3> QED BY <1>1, <1>3, <3>1 DEF u
  <2> QED BY <1>3, <2>1, QueriesKept
<1>5. MissesForACause
  BY <1>3 DEF MissesForACause
<1> QED BY <1>4, <1>5

\* A new component begins with one query.
LEMMA FreshKeeps ==
    ASSUME PlacesTyped, QueriesOK, UNCHANGED storeVars, NEW r, RouteOK(r), query' = <<NewQuery(r)>>
    PROVE  QueriesOK' /\ MissesForACause
<1> DEFINE u == NewQuery(r)
<1>1. QueryOK(u) /\ u.pc # "missed"
  BY NewQueryOK
<1> HIDE DEF u
<1>2. query' = <<u>>
  BY DEF u
<1>3. query' \in Seq({u}) /\ DOMAIN query' = 1 .. 1 /\ query'[1] = u
  BY <1>2
<1>4. \A q \in DOMAIN query' : query'[q] = u
  BY <1>3
<1>5. QueriesOK'
  BY <1>1, <1>3, <1>4, QueriesKept
<1>6. MissesForACause
  BY <1>1, <1>4 DEF MissesForACause
<1> QED BY <1>5, <1>6

\* A query is over.
LEMMA OverKeeps ==
    ASSUME QueriesOK, UNCHANGED storeVars, NEW q \in DOMAIN query, Over(q)
    PROVE  QueriesOK' /\ MissesForACause
<1> DEFINE S == ToSet(query)
           n == Len(query)
           a == SubSeq(query, 1, q - 1)
           b == SubSeq(query, q + 1, n)
<1>1. query \in Seq(S) /\ n \in Nat /\ DOMAIN query = 1 .. n /\ q \in 1 .. n
  BY DEF QueriesOK
<1>2. query' = a \o b
  BY DEF Over, RemoveAt
<1> HIDE DEF S, n
<1>3. a \in Seq(S) /\ Len(a) = q - 1 /\ \A k \in 1 .. q - 1 : a[k] = query[k]
  BY <1>1 DEF n
<1>4. b \in Seq(S) /\ Len(b) = n - q /\ \A k \in 1 .. n - q : b[k] = query[k + q]
  BY <1>1 DEF n
<1> HIDE DEF a, b
<1>5. /\ a \o b \in Seq(S) /\ Len(a \o b) = Len(a) + Len(b)
      /\ \A k \in 1 .. Len(a) + Len(b) : (a \o b)[k] = IF k <= Len(a) THEN a[k] ELSE b[k - Len(a)]
  BY <1>3, <1>4, ConcatProperties
<1>6. query' \in Seq(S) /\ DOMAIN query' = 1 .. n - 1
  <2>1. query' \in Seq(S) /\ Len(query') = n - 1
    BY <1>1, <1>2, <1>3, <1>4, <1>5
  <2> QED BY <2>1
<1>7. \A k \in DOMAIN query' : \E m \in DOMAIN query : query'[k] = query[m]
  <2> SUFFICES ASSUME NEW k \in 1 .. n - 1 PROVE \E m \in 1 .. n : query'[k] = query[m]
    BY <1>1, <1>6
  <2>1. CASE k < q
    <3>1. k \in 1 .. q - 1 /\ k \in 1 .. Len(a) + Len(b) /\ k <= Len(a) /\ k \in 1 .. n
      BY <1>1, <1>3, <1>4, <2>1
    <3> QED BY <1>2, <1>3, <1>5, <3>1
  <2>2. CASE ~(k < q)
    <3>1. /\ k - (q - 1) \in 1 .. n - q /\ k \in 1 .. Len(a) + Len(b) /\ ~(k <= Len(a))
          /\ k - (q - 1) + q = k + 1 /\ k + 1 \in 1 .. n
      BY <1>1, <1>3, <1>4, <2>2
    <3>2. query'[k] = b[k - (q - 1)]
      BY <1>2, <1>3, <1>5, <3>1
    <3> QED BY <1>4, <3>1, <3>2
  <2> QED BY <2>1, <2>2
<1>8. QueriesOK'
  BY <1>6, <1>7, QueriesKept
<1>9. MissesForACause
  <2>1. n \in DOMAIN query /\ n \notin DOMAIN query'
    BY <1>1, <1>6
  <2>2. ASSUME NEW v, NEW k PROVE query' # [query EXCEPT ![k] = v]
    BY <2>1
  <2> QED BY <2>2 DEF MissesForACause
<1> QED BY <1>8, <1>9

\* One query becomes u.
LEMMA ReplaceKeeps ==
    ASSUME QueriesOK, UNCHANGED storeVars, NEW q \in DOMAIN query, NEW u, QueryOK(u),
           u.to = query[q].to, CausedMiss(u), query' = [query EXCEPT ![q] = u]
    PROVE  QueriesOK' /\ MissesForACause
<1> DEFINE S == ToSet(query) \cup {u}
<1>1. query \in Seq(S) /\ u \in S
  <2>1. query \in Seq(ToSet(query))
    BY DEF QueriesOK
  <2> QED BY <2>1
<1> HIDE DEF S
<1>2. query' \in Seq(S)
  BY <1>1, ExceptSeq
<1>3. /\ DOMAIN query' = DOMAIN query /\ query'[q] = u
      /\ \A k \in DOMAIN query \ {q} : query'[k] = query[k]
  OBVIOUS
<1>4. QueriesOK'
  <2>1. \A k \in DOMAIN query' : QueryOK(query'[k]) \/ \E m \in DOMAIN query : query'[k] = query[m]
    BY <1>3
  <2> QED BY <1>2, <2>1, QueriesKept
<1>5. MissesForACause
  BY <1>3 DEF MissesForACause, CausedMiss
<1> QED BY <1>4, <1>5

-----------------------------------------------------------------------------
(* The steps of a query *)

Moved(u, pc, size, rows, x) ==
    [pc |-> pc, to |-> u.to, size |-> size, rows |-> rows, x |-> x, shifted |-> u.shifted]

\* Reply changes no more than four fields of one query.
LEMMA ReplyMoves ==
    ASSUME QueriesOK, NEW q \in DOMAIN query, NEW pc, NEW size, NEW rows, Reply(q, pc, size, rows)
    PROVE  query' = [query EXCEPT ![q] = Moved(query[q], pc, size, rows, query[q].x)]
<1> DEFINE u == query[q]
<1>1. QueryShape(u)
  BY DEF QueriesOK, QueryOK
<1>2. query' = [query EXCEPT ![q] = [[[u EXCEPT !.pc = pc] EXCEPT !.size = size] EXCEPT !.rows = rows]]
  BY DEF Reply
<1> HIDE DEF u
<1>3. [[[u EXCEPT !.pc = pc] EXCEPT !.size = size] EXCEPT !.rows = rows] = Moved(u, pc, size, rows, u.x)
  <2>1. u = [pc |-> u.pc, to |-> u.to, size |-> u.size, rows |-> u.rows, x |-> u.x,
             shifted |-> u.shifted]
    BY <1>1 DEF QueryShape
  <2>2. PICK a : a = [u EXCEPT !.pc = pc]
    OBVIOUS
  <2>3. a = [pc |-> pc, to |-> u.to, size |-> u.size, rows |-> u.rows, x |-> u.x,
             shifted |-> u.shifted]
    BY ONLY <2>1, <2>2
  <2>4. PICK b : b = [a EXCEPT !.size = size]
    OBVIOUS
  <2>5. b = [pc |-> pc, to |-> u.to, size |-> size, rows |-> u.rows, x |-> u.x,
             shifted |-> u.shifted]
    BY ONLY <2>3, <2>4
  <2>6. [b EXCEPT !.rows = rows] = Moved(u, pc, size, rows, u.x)
    BY ONLY <2>5 DEF Moved
  <2> QED BY <2>2, <2>4, <2>6
<1> QED BY <1>2, <1>3 DEF u

\* A reply that leads to what is in order keeps everything in order.
LEMMA ReplyKeeps ==
    ASSUME QueriesOK, NEW q \in DOMAIN query, NEW pc, NEW size, NEW rows, Reply(q, pc, size, rows),
           QueryOK(Moved(query[q], pc, size, rows, query[q].x)),
           CausedMiss(Moved(query[q], pc, size, rows, query[q].x))
    PROVE  QueriesOK' /\ MissesForACause
<1> DEFINE u == Moved(query[q], pc, size, rows, query[q].x)
<1>1. query' = [query EXCEPT ![q] = u]
  BY ReplyMoves
<1>2. u.to = query[q].to
  BY DEF Moved
<1>3. UNCHANGED storeVars
  BY DEF Reply
<1> HIDE DEF u
<1>4. QueryOK(u) /\ CausedMiss(u)
  BY DEF u
<1> QED BY <1>1, <1>2, <1>3, <1>4, ReplaceKeeps

\* Stages at which a query relies on no more than its job being there.
LEMMA PlainStage ==
    ASSUME NEW u, QueryOK(u), NEW pc, NEW size, NEW rows, NEW x \in Nat,
           \/ pc \in {"llen", "range"} /\ x = 0
           \/ pc = "answered"
           \/ pc = "missed" /\ u.shifted
           \/ pc = "get" /\ u.to.place \in SetNames
    PROVE  QueryOK(Moved(u, pc, size, rows, x)) /\ CausedMiss(Moved(u, pc, size, rows, x))
<1> DEFINE v == Moved(u, pc, size, rows, x)
<1>1. /\ v.pc = pc /\ v.to = u.to /\ v.x = x /\ v.shifted = u.shifted
      /\ v = [pc |-> v.pc, to |-> v.to, size |-> v.size, rows |-> v.rows, x |-> v.x,
              shifted |-> v.shifted]
  BY DEF Moved
<1> HIDE DEF v
<1>2. QueryShape(v)
  BY <1>1 DEF QueryShape, QueryOK
<1>3. ~v.shifted => StillThere(v)
  BY <1>1 DEF StillThere, QueryOK
<1>4. CausedMiss(v)
  BY <1>1 DEF CausedMiss
<1> QED BY <1>2, <1>3, <1>4 DEF QueryOK, v

\* GET /queues.
LEMMA KeysStep ==
    ASSUME QueriesOK, NEW q \in DOMAIN query, QueueKeys(q)
    PROVE  QueriesOK' /\ MissesForACause
<1> DEFINE u == query[q]
<1>1. QueryOK(u) /\ u.pc = "keys" /\ UNCHANGED storeVars
  BY DEF QueriesOK, QueueKeys
<1>2. CASE Over(q)
  BY <1>1, <1>2, OverKeeps
<1>3. CASE query' = [query EXCEPT ![q].pc = "llen"]
  <2>1. query' = [query EXCEPT ![q] = [u EXCEPT !.pc = "llen"]]
    BY <1>3
  <2> DEFINE v == Moved(u, "llen", u.size, u.rows, u.x)
  <2>2. [u EXCEPT !.pc = "llen"] = v
    <3> HIDE DEF u
    <3> QED BY <1>1 DEF QueryOK, QueryShape, Moved
  <2>3. u.x \in Nat /\ u.x = 0
    BY <1>1 DEF QueryOK, QueryShape
  <2>4. QueryOK(v) /\ CausedMiss(v)
    <3> HIDE DEF u
    <3> QED BY <1>1, <2>3, PlainStage
  <2>5. v.to = query[q].to
    BY DEF Moved
  <2> HIDE DEF u, v
  <2> QED BY <1>1, <2>1, <2>2, <2>4, <2>5, ReplaceKeeps
<1> QED BY <1>2, <1>3 DEF QueueKeys

\* The sizes.
LEMMA SizeSteps ==
    ASSUME QueriesOK, NEW q \in DOMAIN query, QueueSize(q) \/ SetSize(q)
    PROVE  QueriesOK' /\ MissesForACause
<1>1. QueryOK(query[q]) /\ query[q].pc \in {"llen", "zcard"}
  BY DEF QueriesOK, QueueSize, SetSize
<1>2. query[q].x \in Nat /\ query[q].x = 0
  BY <1>1 DEF QueryOK, QueryShape
<1>3. PICK size : Reply(q, "range", size, <<>>)
  BY DEF QueueSize, SetSize
<1>4. /\ QueryOK(Moved(query[q], "range", size, <<>>, query[q].x))
      /\ CausedMiss(Moved(query[q], "range", size, <<>>, query[q].x))
  BY <1>1, <1>2, PlainStage
<1> QED BY <1>3, <1>4, ReplyKeeps

\* On page 1 is the first member of a set.
LEMMA FirstOnPageOne ==
    ASSUME PlacesTyped, NEW z \in SetNames, NEW j \in zset[z], Zrank(z, j) = 0
    PROVE  j \in ToSet(RowsOf(z, Browsed, 1))
<1>1. zset[z] \subseteq Jobs
  BY DEF PlacesTyped
<1>2. 1 \in 1 .. Len(Ranks(z)) /\ Ranks(z)[1] = j
  <2>1. Zrank(z, j) + 1 \in 1 .. Len(Ranks(z)) /\ Ranks(z)[Zrank(z, j) + 1] = j
    BY <1>1, RanksList
  <2>2. Zrank(z, j) + 1 = 1
    OBVIOUS
  <2> QED BY <2>1, <2>2
<1>3. Offset(1) = 0 /\ PageSize \in Nat
  BY PagingAssumption DEF Offset
<1>4. 1 \in FromHead(Len(Ranks(z)), Offset(1), PageSize)
  BY <1>2, <1>3 DEF FromHead
<1>5. ToSet(RowsOf(z, Browsed, 1)) = At(Ranks(z), FromHead(Len(Ranks(z)), Offset(1), PageSize))
  <2>1. 1 \in Nat \ {0}
    OBVIOUS
  <2> QED BY <2>1, SetPage
<1> QED BY <1>2, <1>4, <1>5 DEF At

\* The ids of a page: page 1 of a set has its first member.
LEMMA PageIdsStep ==
    ASSUME PlacesTyped, QueriesOK, NEW q \in DOMAIN query, PageIds(q)
    PROVE  QueriesOK' /\ MissesForACause
<1>1. PICK u : u = query[q]
  OBVIOUS
<1>2. QueryOK(u) /\ u.pc = "range"
  BY <1>1 DEF QueriesOK, PageIds
<1>3. PICK rows : rows = RowsOf(u.to.place, Browsed, u.to.page)
  OBVIOUS
<1>4. Reply(q, "mget", u.size, rows)
  BY <1>1, <1>3 DEF PageIds
<1>5. PICK v : v = Moved(u, "mget", u.size, rows, u.x)
  OBVIOUS
<1>6. /\ v.pc = "mget" /\ v.to = u.to /\ v.x = u.x /\ v.rows = rows /\ v.shifted = u.shifted
      /\ v = [pc |-> v.pc, to |-> v.to, size |-> v.size, rows |-> v.rows, x |-> v.x,
              shifted |-> v.shifted]
  BY <1>5 DEF Moved
<1>7. QueryShape(v)
  BY <1>2, <1>6 DEF QueryShape, QueryOK
<1>8. ASSUME ~v.shifted PROVE StillThere(v)
  <2>1. u.to.job \in Members(u.to.place) /\ ~SomeMissing(u.to.place)
    BY <1>2, <1>6, <1>8 DEF StillThere, QueryOK
  <2>2. ASSUME u.to.place \in SetNames, u.to.page = 1, Zrank(u.to.place, u.to.job) = 0
        PROVE  u.to.job \in ToSet(rows)
    <3>1. u.to.job \in zset[u.to.place]
      BY <2>1, <2>2 DEF Members, SetNames
    <3> QED BY <1>3, <2>2, <3>1, FirstOnPageOne
  <2> QED BY <1>6, <2>1, <2>2 DEF StillThere
<1>9. CausedMiss(v)
  BY <1>6 DEF CausedMiss
<1>10. QueryOK(v)
  BY <1>7, <1>8 DEF QueryOK
<1> QED BY <1>1, <1>4, <1>5, <1>9, <1>10, ReplyKeeps

\* Their descriptors: while every one is readable, a job is missed only if its
\* id was.
LEMMA PageRowsStep ==
    ASSUME PlacesTyped, QueriesOK, NEW q \in DOMAIN query, PageRows(q)
    PROVE  QueriesOK' /\ MissesForACause
<1>1. PICK u : u = query[q]
  OBVIOUS
<1>2. QueryOK(u) /\ u.pc = "mget" /\ u.x \in Nat /\ u.x = 0 /\ u.to.place \in Places
  BY <1>1 DEF QueriesOK, PageRows, QueryOK, QueryShape, RouteOK
<1>3. CASE \E size, rows : Reply(q, "answered", size, rows)
  <2>1. PICK size, rows : Reply(q, "answered", size, rows)
    BY <1>3
  <2>2. /\ QueryOK(Moved(u, "answered", size, rows, u.x))
        /\ CausedMiss(Moved(u, "answered", size, rows, u.x))
    BY <1>2, PlainStage
  <2> QED BY <1>1, <2>1, <2>2, ReplyKeeps
<1>4. CASE /\ ~(u.to.job \in ToSet(u.rows) /\ HasPayload(u.to.job))
           /\ Reply(q, SingleGet(u.to.place), NoSize, <<>>)
  <2>1. PICK pc : pc = SingleGet(u.to.place)
    OBVIOUS
  <2>2. \/ pc = "find" /\ u.to.place = "queue"
        \/ pc = "contains" /\ u.to.place # "queue" /\ u.to.place \in SetNames
    BY <1>2, <2>1 DEF SingleGet, Places
  <2>3. PICK v : v = Moved(u, pc, NoSize, <<>>, u.x)
    OBVIOUS
  <2>4. /\ v.pc = pc /\ v.to = u.to /\ v.x = u.x /\ v.shifted = u.shifted
        /\ v = [pc |-> v.pc, to |-> v.to, size |-> v.size, rows |-> v.rows, x |-> v.x,
                shifted |-> v.shifted]
    BY <2>3 DEF Moved
  <2>5. QueryShape(v)
    BY <1>2, <2>2, <2>4 DEF QueryShape, QueryOK
  <2>6. ASSUME ~v.shifted PROVE StillThere(v)
    <3>1. /\ u.to.job \in Members(u.to.place) /\ ~SomeMissing(u.to.place)
          /\ u.to.place \in SetNames /\ u.to.page = 1 =>
                u.to.job \in ToSet(u.rows) \/ Zrank(u.to.place, u.to.job) # 0
      BY <1>2, <2>4, <2>6 DEF StillThere, QueryOK
    <3>2. HasPayload(u.to.job)
      BY <3>1 DEF SomeMissing
    <3>3. u.to.job \notin ToSet(u.rows)
      BY <1>4, <3>2
    <3>4. ASSUME pc = "find" PROVE Beyond(u.to.job, v.x * ScanSize)
      <4>1. queue[Browsed] \in Seq(Jobs) /\ u.to.job \in ToSet(queue[Browsed])
        BY <2>2, <3>1, <3>4, ExplorerAssumption DEF PlacesTyped, Members
      <4>2. PICK i \in DOMAIN queue[Browsed] : queue[Browsed][i] = u.to.job
        BY <4>1 DEF ToSet
      <4>3. Len(queue[Browsed]) - i >= 0 /\ v.x * ScanSize = 0
        BY <1>2, <2>4, <4>1, PagingAssumption
      <4> QED BY <4>2, <4>3 DEF Beyond
    <3> QED BY <2>2, <2>4, <3>1, <3>3, <3>4 DEF StillThere
  <2>7. CausedMiss(v)
    BY <2>2, <2>4 DEF CausedMiss
  <2>8. QueryOK(v)
    BY <2>5, <2>6 DEF QueryOK
  <2>9. Reply(q, pc, NoSize, <<>>)
    BY <1>4, <2>1
  <2> QED BY <1>1, <2>3, <2>7, <2>8, <2>9, ReplyKeeps
<1>5. \/ \E size, rows : Reply(q, "answered", size, rows)
      \/ /\ ~(u.to.job \in ToSet(u.rows) /\ HasPayload(u.to.job))
         /\ Reply(q, SingleGet(u.to.place), NoSize, <<>>)
  BY <1>1 DEF PageRows
<1> QED BY <1>3, <1>4, <1>5

\* What Queue.find reads at a time, and what it learns when nothing is left.
LEMMA PageOfFind ==
    ASSUME PlacesTyped, NEW x \in Nat
    PROVE  /\ FindPage(queue[Browsed], x) \in Seq(Jobs)
           /\ ToSet(FindPage(queue[Browsed], x)) \subseteq Members("queue")
           /\ \A j : Beyond(j, x * ScanSize) =>
                /\ FindPage(queue[Browsed], x) # <<>>
                /\ \/ j \in ToSet(FindPage(queue[Browsed], x))
                   \/ Beyond(j, x * ScanSize + ScanSize)
<1> DEFINE l == queue[Browsed]
           n == Len(l)
           p == x * ScanSize
           rows == FindPage(l, x)
           W == NearTail(n, p, ScanSize)
<1>1. l \in Seq(Jobs) /\ n \in Nat /\ DOMAIN l = 1 .. n
  BY ExplorerAssumption DEF PlacesTyped
<1>2. ScanSize \in Nat \ {0} /\ p \in Nat /\ (x + 1) * ScanSize = p + ScanSize
  BY PagingAssumption
<1>3. rows = Reverse(Range0(l, -(p + ScanSize), -1 - p))
  BY <1>2 DEF FindPage
<1> HIDE DEF l, n, p, rows, W
<1>4. rows \in Seq(Jobs) /\ ToSet(rows) = At(l, W) /\ (rows = <<>> => n <= p)
  BY <1>1, <1>2, <1>3, TailWindow DEF n, W
<1>5. At(l, W) \subseteq Members("queue")
  BY <1>1 DEF At, W, NearTail, Members, ToSet, l
<1>6. ASSUME NEW j, Beyond(j, p)
      PROVE  rows # <<>> /\ (j \in ToSet(rows) \/ Beyond(j, p + ScanSize))
  <2>1. PICK i \in 1 .. n : l[i] = j /\ n - i >= p
    BY <1>1, <1>6 DEF Beyond, l, n
  <2>2. rows # <<>>
    BY <1>1, <1>2, <1>4, <2>1
  <2>3. CASE n - i < p + ScanSize
    <3>1. i \in W
      BY <1>1, <1>2, <2>1, <2>3 DEF W, NearTail
    <3> QED BY <1>4, <2>1, <2>2, <3>1 DEF At
  <2>4. CASE ~(n - i < p + ScanSize)
    <3>1. n - i >= p + ScanSize
      BY <1>1, <1>2, <2>4
    <3> QED BY <1>1, <2>1, <2>2, <3>1 DEF Beyond, l, n
  <2> QED BY <2>3, <2>4
<1> QED BY <1>4, <1>5, <1>6 DEF rows, l, p

\* A page of Queue.find: a job beyond the pages before is on it or beyond it.
LEMMA FindIdsStep ==
    ASSUME PlacesTyped, QueriesOK, NEW q \in DOMAIN query, FindIds(q)
    PROVE  QueriesOK' /\ MissesForACause
<1>1. PICK u : u = query[q]
  OBVIOUS
<1>2. QueryOK(u) /\ u.pc = "find" /\ u.x \in Nat /\ u.to.place = "queue"
  BY <1>1 DEF QueriesOK, FindIds, QueryOK, QueryShape
<1>3. PICK ids : ids = FindPage(queue[Browsed], u.x)
  OBVIOUS
<1>4. /\ ids \in Seq(Jobs) /\ ToSet(ids) \subseteq Members("queue")
      /\ \A j : Beyond(j, u.x * ScanSize) =>
            ids # <<>> /\ (j \in ToSet(ids) \/ Beyond(j, u.x * ScanSize + ScanSize))
  BY <1>2, <1>3, PageOfFind
<1>5. IF ids = <<>> THEN Reply(q, "missed", NoSize, <<>>) ELSE Reply(q, "findread", NoSize, ids)
  BY <1>1, <1>3 DEF FindIds
<1>6. ~u.shifted => Beyond(u.to.job, u.x * ScanSize)
  BY <1>2 DEF QueryOK, StillThere
<1>7. CASE ids = <<>>
  <2>1. u.shifted
    BY <1>2, <1>4, <1>6, <1>7 DEF QueryOK, QueryShape
  <2>2. /\ QueryOK(Moved(u, "missed", NoSize, <<>>, u.x))
        /\ CausedMiss(Moved(u, "missed", NoSize, <<>>, u.x))
    BY <1>2, <2>1, PlainStage
  <2>3. Reply(q, "missed", NoSize, <<>>)
    BY <1>5, <1>7
  <2> QED BY <1>1, <2>2, <2>3, ReplyKeeps
<1>8. CASE ids # <<>>
  <2>1. PICK v : v = Moved(u, "findread", NoSize, ids, u.x)
    OBVIOUS
  <2>2. /\ v.pc = "findread" /\ v.to = u.to /\ v.x = u.x /\ v.rows = ids /\ v.shifted = u.shifted
        /\ v = [pc |-> v.pc, to |-> v.to, size |-> v.size, rows |-> v.rows, x |-> v.x,
                shifted |-> v.shifted]
    BY <2>1 DEF Moved
  <2>3. QueryShape(v)
    BY <1>2, <1>4, <2>2 DEF QueryShape, QueryOK
  <2>4. ASSUME ~v.shifted PROVE StillThere(v)
    <3>1. u.to.job \in Members(u.to.place) /\ ~SomeMissing(u.to.place)
      BY <1>2, <2>2, <2>4 DEF StillThere, QueryOK
    <3>2. u.to.job \in ToSet(ids) \/ Beyond(u.to.job, u.x * ScanSize + ScanSize)
      BY <1>4, <1>6, <2>2, <2>4
    <3> QED BY <1>4, <2>2, <3>1, <3>2 DEF StillThere
  <2>5. CausedMiss(v) /\ QueryOK(v)
    BY <2>2, <2>3, <2>4 DEF CausedMiss, QueryOK
  <2>6. Reply(q, "findread", NoSize, ids)
    BY <1>5, <1>8
  <2> QED BY <1>1, <2>1, <2>5, <2>6, ReplyKeeps
<1> QED BY <1>7, <1>8

\* An EXCEPT of some of its fields is a query again.
LEMMA MovedFields ==
    ASSUME NEW u, QueryShape(u), NEW pc, NEW rows
    PROVE  [u EXCEPT !.pc = pc, !.rows = rows] = Moved(u, pc, u.size, rows, u.x)
<1>1. u = [pc |-> u.pc, to |-> u.to, size |-> u.size, rows |-> u.rows, x |-> u.x,
           shifted |-> u.shifted]
  BY DEF QueryShape
<1>2. PICK a : a = [u EXCEPT !.pc = pc]
  OBVIOUS
<1>3. a = [pc |-> pc, to |-> u.to, size |-> u.size, rows |-> u.rows, x |-> u.x,
           shifted |-> u.shifted]
  BY ONLY <1>1, <1>2
<1>4. [a EXCEPT !.rows = rows] = Moved(u, pc, u.size, rows, u.x)
  BY ONLY <1>3 DEF Moved
<1> QED BY <1>2, <1>4

\* Its descriptors: a page whose job is not found there leaves it to the pages
\* after.
LEMMA FindRowsStep ==
    ASSUME PlacesTyped, QueriesOK, NEW q \in DOMAIN query, FindRows(q)
    PROVE  QueriesOK' /\ MissesForACause
<1>1. PICK u : u = query[q]
  OBVIOUS
<1>2. /\ QueryOK(u) /\ QueryShape(u) /\ u.pc = "findread" /\ u.x \in Nat /\ u.to.place = "queue"
      /\ u.rows \in Seq(Jobs) /\ UNCHANGED storeVars
  BY <1>1 DEF QueriesOK, FindRows, QueryOK, QueryShape
<1> DEFINE ends == {i \in DOMAIN u.rows : ~HasPayload(u.rows[i]) \/ u.rows[i] = u.to.job}
<1>3. CASE ends = {} /\ query' = [query EXCEPT ![q].pc = "find", ![q].rows = <<>>, ![q].x = @ + 1]
  <2> DEFINE x == u.x + 1
  <2>1. query' = [query EXCEPT ![q] = [u EXCEPT !.pc = "find", !.rows = <<>>, !.x = x]]
    BY <1>1, <1>3
  <2>2. PICK v : v = Moved(u, "find", u.size, <<>>, x)
    OBVIOUS
  <2>3. [u EXCEPT !.pc = "find", !.rows = <<>>, !.x = x] = v
    <3> HIDE DEF x
    <3>1. u = [pc |-> u.pc, to |-> u.to, size |-> u.size, rows |-> u.rows, x |-> u.x,
               shifted |-> u.shifted]
      BY <1>2 DEF QueryShape
    <3>2. PICK a : a = [u EXCEPT !.pc = "find"]
      OBVIOUS
    <3>3. a = [pc |-> "find", to |-> u.to, size |-> u.size, rows |-> u.rows, x |-> u.x,
               shifted |-> u.shifted]
      BY ONLY <3>1, <3>2
    <3>4. PICK b : b = [a EXCEPT !.rows = <<>>]
      OBVIOUS
    <3>5. b = [pc |-> "find", to |-> u.to, size |-> u.size, rows |-> <<>>, x |-> u.x,
               shifted |-> u.shifted]
      BY ONLY <3>3, <3>4
    <3>6. [b EXCEPT !.x = x] = Moved(u, "find", u.size, <<>>, x)
      BY ONLY <3>5 DEF Moved
    <3> QED BY <2>2, <3>2, <3>4, <3>6
  <2>4. /\ v.pc = "find" /\ v.to = u.to /\ v.x = u.x + 1 /\ v.x \in Nat /\ v.shifted = u.shifted
        /\ v = [pc |-> v.pc, to |-> v.to, size |-> v.size, rows |-> v.rows, x |-> v.x,
                shifted |-> v.shifted]
    BY <1>2, <2>2 DEF Moved
  <2>5. QueryShape(v)
    BY <1>2, <2>4 DEF QueryShape
  <2>6. ASSUME ~v.shifted PROVE StillThere(v)
    <3>1. /\ u.to.job \in Members(u.to.place) /\ ~SomeMissing(u.to.place)
          /\ u.to.job \in ToSet(u.rows) \/ Beyond(u.to.job, u.x * ScanSize + ScanSize)
      BY <1>2, <2>4, <2>6 DEF StillThere, QueryOK
    <3>2. u.to.job \notin ToSet(u.rows)
      BY <1>3 DEF ToSet
    <3>3. v.x * ScanSize = u.x * ScanSize + ScanSize
      BY <1>2, <2>4, PagingAssumption
    <3>4. Beyond(v.to.job, v.x * ScanSize)
      BY <2>4, <3>1, <3>2, <3>3
    <3> QED BY <1>2, <2>4, <3>1, <3>4 DEF StillThere, SetNames
  <2>7. CausedMiss(v) /\ QueryOK(v)
    BY <2>4, <2>5, <2>6 DEF CausedMiss, QueryOK
  <2>8. v.to = query[q].to
    BY <1>1, <2>4
  <2>9. query' = [query EXCEPT ![q] = v]
    BY <2>1, <2>3
  <2> QED BY <1>2, <2>7, <2>8, <2>9, ReplaceKeeps
<1>4. ASSUME NEW i \in ends,
             query' = [query EXCEPT ![q] =
                        IF HasPayload(u.rows[i])
                        THEN [@ EXCEPT !.pc = "answered", !.rows = <<u.rows[i]>>]
                        ELSE [@ EXCEPT !.pc = "missed", !.rows = <<>>]]
      PROVE  QueriesOK' /\ MissesForACause
  <2>1. CASE HasPayload(u.rows[i])
    <3>1. PICK rows : rows = <<u.rows[i]>>
      OBVIOUS
    <3>2. query' = [query EXCEPT ![q] = [u EXCEPT !.pc = "answered", !.rows = rows]]
      BY <1>1, <1>4, <2>1, <3>1
    <3>3. PICK v : v = Moved(u, "answered", u.size, rows, u.x)
      OBVIOUS
    <3>4. [u EXCEPT !.pc = "answered", !.rows = rows] = v
      BY <1>2, <3>3, MovedFields
    <3>5. QueryOK(v) /\ CausedMiss(v)
      BY <1>2, <3>3, PlainStage
    <3>6. v.to = query[q].to
      BY <1>1, <3>3 DEF Moved
    <3>7. query' = [query EXCEPT ![q] = v]
      BY <3>2, <3>4
    <3> QED BY <1>2, <3>5, <3>6, <3>7, ReplaceKeeps
  <2>2. CASE ~HasPayload(u.rows[i])
    <3>1. query' = [query EXCEPT ![q] = [u EXCEPT !.pc = "missed", !.rows = <<>>]]
      BY <1>1, <1>4, <2>2
    <3>2. u.shifted
      <4> SUFFICES ASSUME ~u.shifted PROVE FALSE
        BY <1>2 DEF QueryShape
      <4>1. ~SomeMissing("queue") /\ ToSet(u.rows) \subseteq Members("queue")
        BY <1>2 DEF QueryOK, StillThere
      <4>2. u.rows[i] \in ToSet(u.rows)
        BY <1>4 DEF ToSet
      <4> QED BY <2>2, <4>1, <4>2 DEF SomeMissing
    <3>3. PICK v : v = Moved(u, "missed", u.size, <<>>, u.x)
      OBVIOUS
    <3>4. [u EXCEPT !.pc = "missed", !.rows = <<>>] = v
      BY <1>2, <3>3, MovedFields
    <3>5. QueryOK(v) /\ CausedMiss(v)
      BY <1>2, <3>2, <3>3, PlainStage
    <3>6. v.to = query[q].to
      BY <1>1, <3>3 DEF Moved
    <3>7. query' = [query EXCEPT ![q] = v]
      BY <3>1, <3>4
    <3> QED BY <1>2, <3>5, <3>6, <3>7, ReplaceKeeps
  <2> QED BY <2>1, <2>2
<1>5. \/ ends = {} /\ query' = [query EXCEPT ![q].pc = "find", ![q].rows = <<>>, ![q].x = @ + 1]
      \/ \E i \in ends :
            query' = [query EXCEPT ![q] =
                        IF HasPayload(u.rows[i])
                        THEN [@ EXCEPT !.pc = "answered", !.rows = <<u.rows[i]>>]
                        ELSE [@ EXCEPT !.pc = "missed", !.rows = <<>>]]
  BY <1>1 DEF FindRows
<1> QED BY <1>3, <1>4, <1>5

\* contains misses a member only if it is the first, which page 1 would have
\* shown.
LEMMA ContainsStep ==
    ASSUME PlacesTyped, QueriesOK, NEW q \in DOMAIN query, ContainsJob(q)
    PROVE  QueriesOK' /\ MissesForACause
<1>1. PICK u : u = query[q]
  OBVIOUS
<1>2. /\ QueryOK(u) /\ u.pc = "contains" /\ u.x \in Nat /\ u.to.place \in SetNames
      /\ u.shifted \in BOOLEAN
  BY <1>1 DEF QueriesOK, ContainsJob, QueryOK, QueryShape
<1>3. CASE FoundByRank(u.to.place, u.to.job)
  <2>1. Reply(q, "get", NoSize, <<>>)
    BY <1>1, <1>3 DEF ContainsJob
  <2>2. /\ QueryOK(Moved(u, "get", NoSize, <<>>, u.x))
        /\ CausedMiss(Moved(u, "get", NoSize, <<>>, u.x))
    BY <1>2, PlainStage
  <2> QED BY <1>1, <2>1, <2>2, ReplyKeeps
<1>4. CASE ~FoundByRank(u.to.place, u.to.job)
  <2>1. Reply(q, "missed", NoSize, <<>>)
    BY <1>1, <1>4 DEF ContainsJob
  <2>2. PICK v : v = Moved(u, "missed", NoSize, <<>>, u.x)
    OBVIOUS
  <2>3. /\ v.pc = "missed" /\ v.to = u.to /\ v.x = u.x /\ v.shifted = u.shifted
        /\ v = [pc |-> v.pc, to |-> v.to, size |-> v.size, rows |-> v.rows, x |-> v.x,
                shifted |-> v.shifted]
    BY <2>2 DEF Moved
  <2>4. QueryShape(v)
    BY <1>2, <2>3 DEF QueryShape, QueryOK
  <2>5. ASSUME ~v.shifted
        PROVE  StillThere(v) /\ u.to.page # 1 /\ Zrank(u.to.place, u.to.job) = 0
    <3>1. /\ u.to.job \in Members(u.to.place) /\ ~SomeMissing(u.to.place)
          /\ u.to.page = 1 => Zrank(u.to.place, u.to.job) # 0
      BY <1>2, <2>3, <2>5 DEF QueryOK, StillThere
    <3>2. u.to.job \in zset[u.to.place]
      BY <1>2, <3>1 DEF Members, SetNames
    <3>3. Zrank(u.to.place, u.to.job) = 0
      BY <1>4, <3>2 DEF FoundByRank
    <3> QED BY <2>3, <3>1, <3>3 DEF StillThere
  <2>6. CausedMiss(v)
    BY <1>2, <2>3, <2>5 DEF CausedMiss, SetNames
  <2>7. QueryOK(v)
    BY <2>4, <2>5 DEF QueryOK
  <2> QED BY <1>1, <2>1, <2>2, <2>6, <2>7, ReplyKeeps
<1> QED BY <1>3, <1>4

\* The descriptor of a member is there.
LEMMA GetStep ==
    ASSUME PlacesTyped, QueriesOK, NEW q \in DOMAIN query, GetJob(q)
    PROVE  QueriesOK' /\ MissesForACause
<1>1. PICK u : u = query[q]
  OBVIOUS
<1>2. QueryOK(u) /\ u.pc = "get" /\ u.x \in Nat /\ u.shifted \in BOOLEAN
  BY <1>1 DEF QueriesOK, GetJob, QueryOK, QueryShape
<1>3. CASE HasPayload(u.to.job)
  <2>1. PICK rows : rows = <<u.to.job>>
    OBVIOUS
  <2>2. Reply(q, "answered", NoSize, rows)
    BY <1>1, <1>3, <2>1 DEF GetJob
  <2>3. /\ QueryOK(Moved(u, "answered", NoSize, rows, u.x))
        /\ CausedMiss(Moved(u, "answered", NoSize, rows, u.x))
    BY <1>2, PlainStage
  <2> QED BY <1>1, <2>2, <2>3, ReplyKeeps
<1>4. CASE ~HasPayload(u.to.job)
  <2>1. Reply(q, "missed", NoSize, <<>>)
    BY <1>1, <1>4 DEF GetJob
  <2>2. u.shifted
    BY <1>2, <1>4 DEF QueryOK, StillThere, SomeMissing
  <2>3. /\ QueryOK(Moved(u, "missed", NoSize, <<>>, u.x))
        /\ CausedMiss(Moved(u, "missed", NoSize, <<>>, u.x))
    BY <1>2, <2>2, PlainStage
  <2> QED BY <1>1, <2>1, <2>3, ReplyKeeps
<1> QED BY <1>3, <1>4

\* Every step of a query.
LEMMA QueryStepKeeps ==
    ASSUME PlacesTyped, QueriesOK, NEW q \in DOMAIN query, QueryStep(q) \/ QueryFault(q)
    PROVE  QueriesOK' /\ MissesForACause
<1>1. CASE Land(q) \/ LandMissed(q) \/ QueryFault(q)
  <2>1. Over(q) /\ UNCHANGED storeVars
    BY <1>1 DEF Land, LandMissed, QueryFault
  <2> QED BY <2>1, OverKeeps
<1>2. CASE ~(Land(q) \/ LandMissed(q) \/ QueryFault(q))
  BY <1>2, KeysStep, SizeSteps, PageIdsStep, PageRowsStep, FindIdsStep, FindRowsStep,
     ContainsStep, GetStep DEF QueryStep
<1> QED BY <1>1, <1>2

-----------------------------------------------------------------------------
(* The store changes *)

\* Every job of list l is in m, no nearer to the tail.
NoNearer(l, m) ==
    \A i \in DOMAIN l : \E k \in DOMAIN m : m[k] = l[i] /\ Len(m) - k >= Len(l) - i

\* One change of a list takes a job out, or keeps all where Queue.find meets them.
ListStep(l, m) == m \in Seq(Jobs) /\ (Len(m) < Len(l) \/ NoNearer(l, m))

\* A set of positions has a first one.
LEMMA SmallestNumber ==
    ASSUME NEW I, I \subseteq Nat, I # {}
    PROVE  Min(I) \in I
<1> DEFINE R == OpToRel(<, Nat)
<1>1. IsWellFoundedOn(R, Nat)
  BY ONLY NatLessThanWellFounded
<1>2. \A x, y \in Nat : x < y => <<x, y>> \in R
  BY DEF OpToRel
<1> HIDE DEF R
<1>3. PICK m \in I : \A x \in I : ~ (<<x, m>> \in R)
  BY ONLY <1>1, I \subseteq Nat, I # {}, WFMin, Zenon
<1>4. ASSUME NEW x \in I PROVE m <= x
  <2>1. ~(x < m)
    BY <1>2, <1>3, Zenon
  <2> QED BY <2>1
<1> QED BY <1>4 DEF Min

\* LREM makes the list shorter, or leaves it as it was.
LEMMA RemoveFirstStep ==
    ASSUME NEW l \in Seq(Jobs), NEW j
    PROVE  ListStep(l, RemoveFirst(l, j))
<1>1. Len(l) \in Nat /\ DOMAIN l = 1 .. Len(l)
  OBVIOUS
<1>2. CASE \A i \in 1 .. Len(l) : l[i] # j
  <2>1. RemoveFirst(l, j) = l
    BY <1>2 DEF RemoveFirst
  <2>2. NoNearer(l, l)
    BY <1>1 DEF NoNearer
  <2> QED BY <2>1, <2>2 DEF ListStep
<1>3. CASE \E i \in 1 .. Len(l) : l[i] = j
  <2> DEFINE I == {i \in 1 .. Len(l) : l[i] = j}
  <2>1. I \subseteq Nat /\ I # {}
    BY <1>3
  <2>2. PICK m : m = Min(I)
    OBVIOUS
  <2>3. m \in 1 .. Len(l)
    BY <2>1, <2>2, SmallestNumber
  <2>4. RemoveFirst(l, j) = SubSeq(l, 1, m - 1) \o SubSeq(l, m + 1, Len(l))
    BY <1>3, <2>1, <2>2 DEF RemoveFirst, SelectInSeq, RemoveAt
  <2> DEFINE a == SubSeq(l, 1, m - 1)
             b == SubSeq(l, m + 1, Len(l))
  <2>5. a \in Seq(Jobs) /\ Len(a) = m - 1 /\ b \in Seq(Jobs) /\ Len(b) = Len(l) - m
    BY <2>3
  <2> HIDE DEF a, b
  <2>6. a \o b \in Seq(Jobs) /\ Len(a \o b) = Len(a) + Len(b)
    BY <2>5, ConcatProperties
  <2>7. Len(a \o b) < Len(l)
    BY <1>1, <2>3, <2>5, <2>6
  <2> QED BY <2>4, <2>6, <2>7 DEF ListStep, a, b
<1> QED BY <1>2, <1>3

\* LPUSH, RPUSH, LREM and RPOP.
LEMMA ListSteps ==
    ASSUME NEW l \in Seq(Jobs), NEW j \in Jobs
    PROVE  /\ l # <<>> => ListStep(l, Front(l))
           /\ ListStep(l, Cons(j, l)) /\ ListStep(l, Append(l, j)) /\ ListStep(l, l)
           /\ ListStep(l, RemoveFirst(l, j))
<1>1. Len(l) \in Nat /\ DOMAIN l = 1 .. Len(l)
  OBVIOUS
<1>2. ASSUME l # <<>> PROVE ListStep(l, Front(l))
  <2>1. Len(l) > 0
    BY <1>1, <1>2
  <2>2. Front(l) \in Seq(Jobs) /\ Len(Front(l)) = Len(l) - 1
    BY <1>1, <2>1 DEF Front
  <2> QED BY <1>1, <2>2 DEF ListStep
<1>3. ListStep(l, Cons(j, l))
  <2> DEFINE m == Cons(j, l)
  <2>1. <<j>> \in Seq(Jobs) /\ Len(<<j>>) = 1
    OBVIOUS
  <2>2. /\ m \in Seq(Jobs) /\ Len(m) = 1 + Len(l)
        /\ \A i \in 1 .. 1 + Len(l) : m[i] = IF i <= 1 THEN <<j>>[i] ELSE l[i - 1]
    BY <2>1, ConcatProperties DEF Cons
  <2> HIDE DEF m
  <2>3. DOMAIN m = 1 .. 1 + Len(l)
    BY <2>2
  <2>4. ASSUME NEW i \in 1 .. Len(l)
        PROVE  i + 1 \in DOMAIN m /\ m[i + 1] = l[i] /\ Len(m) - (i + 1) >= Len(l) - i
    <3>1. i + 1 \in 1 .. 1 + Len(l) /\ ~(i + 1 <= 1) /\ i + 1 - 1 = i
      BY <1>1
    <3> QED BY <1>1, <2>2, <2>3, <3>1
  <2>5. NoNearer(l, m)
    BY <1>1, <2>4 DEF NoNearer
  <2> QED BY <2>2, <2>5 DEF ListStep, m
<1>4. ListStep(l, Append(l, j))
  <2> DEFINE m == Append(l, j)
  <2>1. m \in Seq(Jobs) /\ Len(m) = Len(l) + 1 /\ \A i \in 1 .. Len(l) : m[i] = l[i]
    OBVIOUS
  <2>2. DOMAIN m = 1 .. Len(l) + 1
    BY <2>1
  <2> HIDE DEF m
  <2>3. \A i \in 1 .. Len(l) : i \in DOMAIN m /\ m[i] = l[i] /\ Len(m) - i >= Len(l) - i
    BY <1>1, <2>1, <2>2
  <2>4. NoNearer(l, m)
    BY <1>1, <2>3 DEF NoNearer
  <2> QED BY <2>1, <2>4 DEF ListStep, m
<1>5. ListStep(l, l)
  BY <1>1 DEF ListStep, NoNearer
<1> QED BY <1>2, <1>3, <1>4, <1>5, RemoveFirstStep

\* What the commands do to the queues and to the sets.
StoreStep ==
    /\ PlacesTyped'
    /\ ListStep(queue[Browsed], queue'[Browsed])

\* A command on one queue.
LEMMA OneQueueStep ==
    ASSUME PlacesTyped, zset' \in [SetNames -> SUBSET Jobs], NEW q \in Queues, NEW m,
           ListStep(queue[q], m), queue' = [queue EXCEPT ![q] = m]
    PROVE  StoreStep
<1>1. queue \in [Queues -> Seq(Jobs)] /\ Browsed \in Queues /\ m \in Seq(Jobs)
  BY ExplorerAssumption DEF PlacesTyped, ListStep
<1>2. queue' \in [Queues -> Seq(Jobs)]
  BY <1>1
<1>3. (queue'[Browsed] = m /\ q = Browsed) \/ queue'[Browsed] = queue[Browsed]
  BY <1>1
<1>4. ListStep(queue[Browsed], queue[Browsed])
  <2>1. queue[Browsed] \in Seq(Jobs)
    BY <1>1
  <2>2. DOMAIN queue[Browsed] = 1 .. Len(queue[Browsed]) /\ Len(queue[Browsed]) \in Nat
    BY <2>1
  <2> QED BY <2>1, <2>2 DEF ListStep, NoNearer
<1>5. ListStep(queue[Browsed], queue'[Browsed])
  BY <1>3, <1>4
<1> QED BY <1>2, <1>5 DEF StoreStep, PlacesTyped

\* A command on none.
LEMMA NoQueueStep ==
    ASSUME PlacesTyped, zset' \in [SetNames -> SUBSET Jobs], queue' = queue
    PROVE  StoreStep
<1>1. queue[Browsed] \in Seq(Jobs)
  BY ExplorerAssumption DEF PlacesTyped
<1>2. DOMAIN queue[Browsed] = 1 .. Len(queue[Browsed]) /\ Len(queue[Browsed]) \in Nat
  BY <1>1
<1>3. ListStep(queue[Browsed], queue'[Browsed])
  BY <1>1, <1>2 DEF ListStep, NoNearer
<1> QED BY <1>3 DEF StoreStep, PlacesTyped

\* What the servers and pollers do.
LEMMA OthersStep ==
    ASSUME PlacesTyped, OthersTake \/ \E j \in Jobs : OthersPut(j)
    PROVE  StoreStep /\ Shift /\ UNCHANGED <<route, clicked>>
<1>1. zset \in [SetNames -> SUBSET Jobs] /\ queue \in [Queues -> Seq(Jobs)] /\ Browsed \in Queues
  BY ExplorerAssumption DEF PlacesTyped
<1>2. CASE OthersTake
  <2>1. Shift /\ UNCHANGED <<route, clicked>>
    BY <1>2 DEF OthersTake
  <2>2. CASE Pop(Browsed)
    <3>1. /\ queue[Browsed] # <<>> /\ queue' = [queue EXCEPT ![Browsed] = Front(queue[Browsed])]
          /\ zset' = zset
      BY <1>1, <2>2 DEF Pop
    <3>2. queue[Browsed] \in Seq(Jobs)
      BY <1>1
    <3>3. queue[Browsed][1] \in Jobs
      BY <3>1, <3>2
    <3>4. ListStep(queue[Browsed], Front(queue[Browsed]))
      BY <3>1, <3>2, <3>3, ListSteps
    <3> QED BY <1>1, <2>1, <3>1, <3>4, OneQueueStep
  <2>3. CASE \E z \in {"retry", "scheduled"}, j \in Jobs : Zrem(z, j)
    <3>1. queue' = queue /\ zset' \in [SetNames -> SUBSET Jobs]
      BY <1>1, <2>3 DEF Zrem
    <3> QED BY <2>1, <3>1, NoQueueStep
  <2> QED BY <1>2, <2>2, <2>3 DEF OthersTake
<1>3. ASSUME NEW j \in Jobs, OthersPut(j)
      PROVE  StoreStep /\ Shift /\ UNCHANGED <<route, clicked>>
  <2>1. Shift /\ UNCHANGED <<route, clicked>>
    BY <1>3 DEF OthersPut
  <2>2. CASE Enqueue(j, stored[j]) \/ Requeue(j, stored[j])
    <3>1. QueueOf[j] \in Queues /\ queue[QueueOf[j]] \in Seq(Jobs)
      BY <1>1, StoreAssumption
    <3>2. zset' = zset /\ \E m \in {Cons(j, queue[QueueOf[j]]), Append(queue[QueueOf[j]], j)} :
                                queue' = [queue EXCEPT ![QueueOf[j]] = m]
      BY <2>2 DEF Enqueue, Requeue
    <3>3. \A m \in {Cons(j, queue[QueueOf[j]]), Append(queue[QueueOf[j]], j)} : ListStep(queue[QueueOf[j]], m)
      BY <3>1, ListSteps
    <3> QED BY <1>1, <2>1, <3>1, <3>2, <3>3, OneQueueStep
  <2>3. CASE \E z \in {"retry", "dead"} : AddToSet(z, j, stored[j])
    <3>0. PICK z \in SetNames : queue' = queue /\ zset' = [zset EXCEPT ![z] = zset[z] \cup {j}]
      BY <1>1, <2>3 DEF AddToSet, SetNames
    <3>1. queue' = queue /\ zset' \in [SetNames -> SUBSET Jobs]
      BY <1>1, <3>0
    <3> QED BY <2>1, <3>1, NoQueueStep
  <2>4. CASE UnsafeDeleteJob(j)
    <3>1. queue' = queue /\ zset' \in [SetNames -> SUBSET Jobs]
      BY <1>1, <2>4 DEF UnsafeDeleteJob
    <3> QED BY <2>1, <3>1, NoQueueStep
  <2> QED BY <1>3, <2>2, <2>3, <2>4 DEF OthersPut
<1> QED BY <1>2, <1>3

\* A request of the panel goes on.
LEMMA RequestStoreStep ==
    ASSUME PlacesTyped, NEW p \in Requests, RequestStep(p)
    PROVE  StoreStep
<1>1. zset \in [SetNames -> SUBSET Jobs] /\ queue \in [Queues -> Seq(Jobs)] /\ Browsed \in Queues
  BY ExplorerAssumption DEF PlacesTyped
<1>2. CASE UNCHANGED storeVars
  BY <1>1, <1>2, NoQueueStep DEF storeVars
<1>3. CASE CleanDead(p)
  <2>1. queue' = queue /\ zset' = [zset EXCEPT !["dead"] = @ \ request[p].jobs]
    BY <1>3 DEF CleanDead
  <2>2. zset' \in [SetNames -> SUBSET Jobs]
    BY <1>1, <2>1
  <2> QED BY <2>1, <2>2, NoQueueStep
<1>4. ASSUME NEW j \in Jobs,
             \/ Move(p, j) \/ RemoveQueued(p, j) \/ RequeueLaunched(p, j)
             \/ DeleteFromSet(p, j) \/ DeletePayload(p, j)
      PROVE  StoreStep
  <2>1. QueueOf[j] \in Queues /\ queue[QueueOf[j]] \in Seq(Jobs)
    BY <1>1, StoreAssumption
  <2> DEFINE l == queue[QueueOf[j]]
  <2>2. CASE Move(p, j) \/ RemoveQueued(p, j) \/ RequeueLaunched(p, j)
    <3>1. \/ zset' = zset
          \/ zset' = [zset EXCEPT ![request[p].place] = @ \ {j}]
      BY <2>2 DEF Move, RemoveQueued, RequeueLaunched, Requeue
    <3>2. zset' \in [SetNames -> SUBSET Jobs]
      BY <1>1, <3>1
    <3>3. \E m \in {Cons(j, l), Append(l, j), RemoveFirst(l, j)} : queue' = [queue EXCEPT ![QueueOf[j]] = m]
      <4>1. CASE Move(p, j)
        BY <4>1 DEF Move
      <4>2. CASE RemoveQueued(p, j)
        BY <4>2 DEF RemoveQueued
      <4>3. CASE RequeueLaunched(p, j)
        BY <4>3 DEF RequeueLaunched, Requeue
      <4> QED BY <2>2, <4>1, <4>2, <4>3
    <3>4. \A m \in {Cons(j, l), Append(l, j), RemoveFirst(l, j)} : ListStep(l, m)
      BY <2>1, ListSteps
    <3> HIDE DEF l
    <3>5. PICK m : ListStep(l, m) /\ queue' = [queue EXCEPT ![QueueOf[j]] = m]
      BY <3>3, <3>4
    <3> QED BY <2>1, <3>2, <3>5, OneQueueStep DEF l
  <2>3. CASE DeleteFromSet(p, j)
    <3>1. queue' = queue /\ zset' = [zset EXCEPT ![request[p].place] = @ \ {j}]
      BY <2>3 DEF DeleteFromSet, Zrem
    <3>2. zset' \in [SetNames -> SUBSET Jobs]
      BY <1>1, <3>1
    <3> QED BY <3>1, <3>2, NoQueueStep
  <2>4. CASE DeletePayload(p, j)
    <3>1. queue' = queue /\ zset' = zset
      BY <2>4 DEF DeletePayload, UnsafeDeleteJob
    <3> QED BY <1>1, <3>1, NoQueueStep
  <2> QED BY <1>4, <2>2, <2>3, <2>4
<1>5. CASE \E kind \in Kinds, place \in Places, j \in Jobs : Receive(p, kind, place, j)
  BY <1>2, <1>5 DEF Receive
<1>6. CASE \E j \in Jobs : CheckContains(p, j) \/ ReadLaunched(p, j)
  BY <1>2, <1>6 DEF CheckContains, ReadLaunched
<1>7. CASE ScanDead(p)
  BY <1>2, <1>7 DEF ScanDead
<1> QED BY <1>3, <1>4, <1>5, <1>6, <1>7 DEF RequestStep

\* A job that is not the first of a set does not become it by what is added.
LEMMA RankGrows ==
    ASSUME PlacesTyped, PlacesTyped', NEW z \in SetNames, NEW j, zset[z] \subseteq zset'[z]
    PROVE  Zrank(z, j) # 0 => Zrank(z, j)' # 0
<1>1. IsFiniteSet(Before(z, j)) /\ IsFiniteSet(Before(z, j)')
  <2>1. Before(z, j) \in SUBSET Jobs /\ Before(z, j)' \in SUBSET Jobs
    BY DEF Before, PlacesTyped
  <2>2. IsFiniteSet(Jobs)
    BY PagingAssumption
  <2>3. \A s \in SUBSET Jobs : IsFiniteSet(s)
    BY <2>2, FS_Subset
  <2> QED BY <2>1, <2>3
<1>2. Zrank(z, j) = Cardinality(Before(z, j)) /\ Zrank(z, j)' = Cardinality(Before(z, j)')
  BY DEF Zrank, Before
<1>3. Before(z, j) \subseteq Before(z, j)'
  BY DEF Before
<1>4. \A s : IsFiniteSet(s) => (Cardinality(s) = 0 <=> s = {})
  BY FS_EmptySet
<1>5. (Cardinality(Before(z, j)) = 0 <=> Before(z, j) = {})
      /\ (Cardinality(Before(z, j)') = 0 <=> Before(z, j)' = {})
  BY <1>1, <1>4
<1> QED BY <1>2, <1>3, <1>5

\* The queries whose place lost nothing find what they rely on.
LEMMA StaysThere ==
    ASSUME PlacesTyped, StoreStep, NEW u, QueryShape(u), StillThere(u),
           ~TakenFrom(u.to.place), ~SomeMissing(u.to.place)'
    PROVE  StillThere(u)'
<1> DEFINE l == queue[Browsed]
           m == queue'[Browsed]
           j == u.to.job
           place == u.to.place
<1>1. ListStep(l, m) /\ PlacesTyped' /\ place \in Places
  BY DEF StoreStep, QueryShape, RouteOK
<1>2. /\ l \in Seq(Jobs) /\ m \in Seq(Jobs) /\ DOMAIN l = 1 .. Len(l) /\ DOMAIN m = 1 .. Len(m)
      /\ Len(l) \in Nat /\ Len(m) \in Nat
  BY <1>1, ExplorerAssumption DEF PlacesTyped
<1>3. ASSUME place = "queue" PROVE NoNearer(l, m)
  BY <1>1, <1>2, <1>3 DEF TakenFrom, ListStep
<1>4. ASSUME place # "queue" PROVE place \in SetNames /\ zset[place] \subseteq zset'[place]
  BY <1>1, <1>4 DEF TakenFrom, Places
<1>5. Members(place) \subseteq Members(place)'
  <2>1. CASE place = "queue"
    BY <1>2, <1>3, <2>1 DEF Members, ToSet, NoNearer
  <2>2. CASE place # "queue"
    BY <1>4, <2>2 DEF Members
  <2> QED BY <2>1, <2>2
<1>6. ASSUME NEW d \in Int, place = "queue", Beyond(j, d) PROVE Beyond(j, d)'
  <2>1. PICK i \in 1 .. Len(l) : l[i] = j /\ Len(l) - i >= d
    BY <1>2, <1>6 DEF Beyond
  <2>2. PICK k \in 1 .. Len(m) : m[k] = l[i] /\ Len(m) - k >= Len(l) - i
    BY <1>2, <1>3, <1>6 DEF NoNearer
  <2>3. Len(m) - k >= d
    BY <1>2, <2>1, <2>2
  <2> QED BY <1>2, <2>1, <2>2, <2>3 DEF Beyond
<1>7. place \in SetNames => (Zrank(place, j) # 0 => Zrank(place, j)' # 0)
  <2>1. ASSUME place \in SetNames PROVE zset[place] \subseteq zset'[place]
    BY <1>4, <2>1 DEF SetNames
  <2> HIDE DEF place, j
  <2> QED BY <1>1, <2>1, RankGrows
<1>8. u.x * ScanSize \in Int /\ u.x * ScanSize + ScanSize \in Int
  BY PagingAssumption DEF QueryShape
<1>9. u.pc \in {"find", "findread"} => place = "queue"
  BY DEF QueryShape
<1>10. j \in Members(place)' /\ ~SomeMissing(place)'
  BY <1>5 DEF StillThere
<1>11. u.pc = "find" => Beyond(j, u.x * ScanSize)'
  BY <1>6, <1>8, <1>9 DEF StillThere
<1>12. u.pc = "findread" =>
            ToSet(u.rows) \subseteq Members("queue")'
            /\ (j \in ToSet(u.rows) \/ Beyond(j, u.x * ScanSize + ScanSize)')
  BY <1>5, <1>6, <1>8, <1>9 DEF StillThere
<1>13. place \in SetNames /\ u.to.page = 1 =>
            /\ u.pc = "mget" => j \in ToSet(u.rows) \/ Zrank(place, j)' # 0
            /\ u.pc = "contains" => Zrank(place, j)' # 0
  BY <1>7 DEF StillThere
<1> QED BY <1>10, <1>11, <1>12, <1>13 DEF StillThere

\* Queries whose place lost something rely on nothing any more, the others on
\* what they did.
LEMMA ShiftKeeps ==
    ASSUME PlacesTyped, QueriesOK, StoreStep, Shift
    PROVE  QueriesOK' /\ MissesForACause
<1>1. query' = [q \in DOMAIN query |-> IF query[q].to.place \in Disturbed
                                       THEN [query[q] EXCEPT !.shifted = TRUE]
                                       ELSE query[q]]
  BY DEF Shift
<1>2. ASSUME NEW q \in DOMAIN query PROVE QueryOK(query[q])' /\ query'[q].pc = query[q].pc
  <2>1. PICK u : u = query[q]
    OBVIOUS
  <2>2. QueryOK(u) /\ u.to.place \in Places
    BY <2>1 DEF QueriesOK, QueryOK, QueryShape, RouteOK
  <2>3. CASE u.to.place \in Disturbed
    <3>1. PICK v : v = [u EXCEPT !.shifted = TRUE]
      OBVIOUS
    <3>2. query'[q] = v
      BY <1>1, <2>1, <2>3, <3>1
    <3>3. u = [pc |-> u.pc, to |-> u.to, size |-> u.size, rows |-> u.rows, x |-> u.x,
               shifted |-> u.shifted]
      BY <2>2 DEF QueryOK, QueryShape
    <3>4. v = [pc |-> u.pc, to |-> u.to, size |-> u.size, rows |-> u.rows, x |-> u.x,
               shifted |-> TRUE]
      BY ONLY <3>1, <3>3
    <3>5. QueryShape(v) /\ v.shifted /\ v.pc = u.pc
      BY <2>2, <3>4 DEF QueryOK, QueryShape
    <3>6. QueryOK(v)'
      BY <3>5 DEF QueryOK, QueryShape, RouteOK
    <3> QED BY <2>1, <3>2, <3>5, <3>6
  <2>4. CASE u.to.place \notin Disturbed
    <3>1. query'[q] = u
      BY <1>1, <2>1, <2>4
    <3>2. ~TakenFrom(u.to.place) /\ ~SomeMissing(u.to.place)'
      BY <2>2, <2>4 DEF Disturbed
    <3>3. ~u.shifted => StillThere(u)'
      BY <2>2, <3>2, StaysThere DEF QueryOK
    <3>4. QueryOK(u)'
      BY <2>2, <3>3 DEF QueryOK, QueryShape, RouteOK
    <3> QED BY <2>1, <3>1, <3>4
  <2> QED BY <2>3, <2>4
<1>3. query' \in Seq(ToSet(query'))
  <2>1. Len(query) \in Nat /\ DOMAIN query = 1 .. Len(query)
    BY DEF QueriesOK
  <2>2. query' = [q \in 1 .. Len(query) |-> query'[q]] /\ DOMAIN query' = 1 .. Len(query)
    BY <1>1, <2>1
  <2>3. \A q \in 1 .. Len(query) : query'[q] \in ToSet(query')
    BY <2>2 DEF ToSet
  <2> QED BY <2>1, <2>2, <2>3
<1>4. DOMAIN query' = DOMAIN query
  BY <1>1
<1>5. QueriesOK'
  BY <1>2, <1>3, <1>4 DEF QueriesOK, ToSet
<1>6. MissesForACause
  BY <1>2 DEF MissesForACause
<1> QED BY <1>5, <1>6

-----------------------------------------------------------------------------
(* The user, the ticker and the router *)

\* Lists and jobs are what there are routes for.
LEMMA RoutesOK ==
    /\ \A place \in Places : \A page : RouteOK(ListRoute(place, page))
    /\ \A place \in Places : \A hint, j : RouteOK(JobRoute(place, hint, j))
<1>1. ASSUME NEW place \in Places, NEW page PROVE RouteOK(ListRoute(place, page))
  BY DEF RouteOK, ListRoute
<1>2. ASSUME NEW place \in Places, NEW hint, NEW j PROVE RouteOK(JobRoute(place, hint, j))
  BY DEF RouteOK, JobRoute
<1> QED BY <1>1, <1>2

\* A component that goes on asks for another page of the place it shows.
LEMMA PageRouteOK ==
    ASSUME NEW r, RouteOK(r), NEW page
    PROVE  RouteOK([r EXCEPT !.page = page])
<1>1. PICK at, place, old, job : r = [at |-> at, place |-> place, page |-> old, job |-> job]
  BY DEF RouteOK
<1>2. [r EXCEPT !.page = page] = [at |-> at, place |-> place, page |-> page, job |-> job]
  BY ONLY <1>1
<1>3. at = r.at /\ place = r.place
  BY ONLY <1>1
<1> QED BY <1>2, <1>3 DEF RouteOK

\* Every link and every bookmark leads to a list or to a job of a place.
LEMMA LinksOK ==
    ASSUME RouteOK(route), NEW n \in Links \cup Bookmarks
    PROVE  RouteOK(n)
<1>1. "queue" \in Places /\ route.place \in Places /\ Shown \subseteq Places
  BY ExplorerAssumption DEF RouteOK, Places
<1>2. CASE n \in Links
  <2>1. n \in JobLinks \/ n \in QueueLinks \/ n \in SetLinks
    BY <1>2 DEF Links
  <2>2. CASE n \in JobLinks
    BY <1>1, <2>2, RoutesOK DEF JobLinks
  <2>3. CASE n \in QueueLinks
    BY <1>1, <2>3, RoutesOK DEF QueueLinks
  <2>4. CASE n \in SetLinks
    BY <1>1, <2>4, RoutesOK DEF SetLinks
  <2> QED BY <2>1, <2>2, <2>3, <2>4
<1>3. CASE n \in Bookmarks
  BY <1>1, <1>3, RoutesOK DEF Bookmarks
<1> QED BY <1>2, <1>3

\* Nothing happens to the queries.
LEMMA RestKeeps ==
    ASSUME QueriesOK, UNCHANGED <<storeVars, query>>
    PROVE  QueriesOK' /\ MissesForACause
<1>1. UNCHANGED storeVars /\ query' = query
  OBVIOUS
<1>2. query' \in Seq(ToSet(query))
  BY <1>1 DEF QueriesOK
<1>3. \A q \in DOMAIN query' : \E k \in DOMAIN query : query'[q] = query[k]
  BY <1>1
<1>4. QueriesOK'
  BY <1>1, <1>2, <1>3, QueriesKept
<1>5. MissesForACause
  BY <1>1 DEF MissesForACause
<1> QED BY <1>4, <1>5

\* The router shows another route.
LEMMA ShowKeeps ==
    ASSUME PlacesTyped, QueriesOK, RouteOK(route), UNCHANGED storeVars, NEW n, RouteOK(n), Show(n)
    PROVE  RouteOK(route)' /\ QueriesOK' /\ MissesForACause
<1>1. route' = n /\ RouteOK(route)'
  BY DEF Show, Mount, GoOn, RouteOK
<1>2. \/ query' = <<NewQuery(n)>>
      \/ \E r \in {[route EXCEPT !.page = n.page], route} : Begin(r)
      \/ query' = query
  BY DEF Show, Mount, GoOn
<1>3. CASE query' = <<NewQuery(n)>>
  BY <1>1, <1>3, FreshKeeps
<1>4. CASE \E r \in {[route EXCEPT !.page = n.page], route} : Begin(r)
  <2>1. PICK r : RouteOK(r) /\ Begin(r)
    BY <1>4, PageRouteOK
  <2> QED BY <1>1, <2>1, BeginKeeps
<1>5. CASE query' = query
  BY <1>1, <1>5, RestKeeps
<1> QED BY <1>2, <1>3, <1>4, <1>5

\* The steps of the user and of the ticker change nothing in the store.
LEMMA UserKeeps ==
    ASSUME ExplorerInv,
           \/ Tick
           \/ \E n \in Links \cup Bookmarks : Visit(n)
           \/ \E p \in Requests :
                \/ \E kind \in Kinds : ClickRow(p, kind) \/ ClickJob(p, kind)
                \/ ClickFailed(p) \/ RefreshList(p) \/ GoToList(p)
    PROVE  ExplorerInv' /\ MissesForACause
<1>1. /\ PlacesTyped /\ RouteOK(route) /\ clicked.place \in Places /\ QueriesOK
      /\ route.place \in Places
  BY DEF ExplorerInv, RouteOK
<1>2. "queue" \in Places /\ NoClick.place = "queue"
  BY DEF Places, NoClick
<1>3. UNCHANGED storeVars => PlacesTyped'
  BY <1>1 DEF storeVars, PlacesTyped
<1>4. UNCHANGED route => RouteOK(route)'
  BY <1>1 DEF RouteOK
<1>5. CASE Tick
  <2>1. UNCHANGED <<storeVars, route, clicked>> /\ Begin(route)
    BY <1>5 DEF Tick
  <2> QED BY <1>1, <1>3, <1>4, <2>1, BeginKeeps DEF ExplorerInv
<1>6. ASSUME NEW n \in Links \cup Bookmarks, Visit(n) PROVE ExplorerInv' /\ MissesForACause
  <2>1. UNCHANGED storeVars /\ Show(n) /\ clicked' \in {NoClick, clicked}
    BY <1>6 DEF Visit
  <2>2. RouteOK(n)
    BY <1>1, LinksOK
  <2>3. clicked'.place \in Places
    BY <1>1, <1>2, <2>1
  <2> QED BY <1>1, <1>3, <2>1, <2>2, <2>3, ShowKeeps DEF ExplorerInv
<1>7. ASSUME NEW p \in Requests, NEW kind \in Kinds, Click(p, kind)
      PROVE  ExplorerInv' /\ MissesForACause
  <2>1. UNCHANGED <<storeVars, route, query>> /\ clicked' = [route EXCEPT !.job = NoJobId]
    BY <1>7 DEF Click, Receive
  <2>2. clicked'.place = route.place
    <3>1. route = [at |-> route.at, place |-> route.place, page |-> route.page, job |-> route.job]
      BY <1>1 DEF RouteOK
    <3>2. PICK r : r = route
      OBVIOUS
    <3>3. [r EXCEPT !.job = NoJobId].place = r.place
      BY <3>1, <3>2
    <3> QED BY <2>1, <3>2, <3>3
  <2> QED BY <1>1, <1>3, <1>4, <2>1, <2>2, RestKeeps DEF ExplorerInv
<1>8. ASSUME NEW p \in Requests, ClickFailed(p) PROVE ExplorerInv' /\ MissesForACause
  <2>1. UNCHANGED <<storeVars, route, query>> /\ clicked' = NoClick
    BY <1>8 DEF ClickFailed, Answered
  <2> QED BY <1>1, <1>2, <1>3, <1>4, <2>1, RestKeeps DEF ExplorerInv
<1>9. ASSUME NEW p \in Requests, RefreshList(p) PROVE ExplorerInv' /\ MissesForACause
  <2>1. UNCHANGED <<storeVars, route>> /\ clicked' = NoClick /\ Begin([route EXCEPT !.page = clicked.page])
    BY <1>9 DEF RefreshList, Answered
  <2>2. RouteOK([route EXCEPT !.page = clicked.page])
    BY <1>1, PageRouteOK
  <2> QED BY <1>1, <1>2, <1>3, <1>4, <2>1, <2>2, BeginKeeps DEF ExplorerInv
<1>10. ASSUME NEW p \in Requests, GoToList(p) PROVE ExplorerInv' /\ MissesForACause
  <2>1. UNCHANGED storeVars /\ clicked' = NoClick /\ route' = ListRoute(clicked.place, 1)
        /\ query' = <<NewQuery(ListRoute(clicked.place, 1))>>
    BY <1>10 DEF GoToList, Answered, Mount
  <2>2. RouteOK(ListRoute(clicked.place, 1))
    BY <1>1, RoutesOK
  <2>3. RouteOK(route)'
    BY <2>1, <2>2 DEF RouteOK
  <2>4. QueriesOK' /\ MissesForACause
    BY <1>1, <2>1, <2>2, FreshKeeps
  <2> QED BY <1>1, <1>2, <1>3, <2>1, <2>3, <2>4 DEF ExplorerInv
<1> QED BY <1>5, <1>6, <1>7, <1>8, <1>9, <1>10 DEF ClickRow, ClickJob

-----------------------------------------------------------------------------
(* The invariant and the theorems *)

\* The browser begins with a list of a place, and no query.
LEMMA ExplorerInitOK ==
    ASSUME ExplorerInit
    PROVE  ExplorerInv
<1>1. PlacesTyped
  <2>1. Cardinality(Jobs) \in Nat
    BY PagingAssumption, FS_CardinalityType
  <2>2. \A l \in UNION {[1 .. n -> Jobs] : n \in 0 .. Cardinality(Jobs)} : l \in Seq(Jobs)
    BY <2>1
  <2>3. queue \in [Queues -> Seq(Jobs)] /\ zset \in [SetNames -> SUBSET Jobs]
    BY <2>2 DEF ExplorerInit
  <2> QED BY <2>3 DEF PlacesTyped
<1>2. RouteOK(route)
  BY RoutesOK, ExplorerAssumption DEF ExplorerInit
<1>3. clicked.place \in Places
  BY DEF ExplorerInit, NoClick, Places
<1>4. QueriesOK
  <2>1. query = <<>>
    BY DEF ExplorerInit
  <2> QED BY <2>1 DEF QueriesOK
<1> QED BY <1>1, <1>2, <1>3, <1>4 DEF ExplorerInv

\* Each step keeps the invariant, and no query misses its job but for a cause.
LEMMA ExplorerStep ==
    ASSUME ExplorerInv, [ExplorerNext]_explorerVars
    PROVE  ExplorerInv' /\ MissesForACause
<1>1. PlacesTyped /\ RouteOK(route) /\ clicked.place \in Places /\ QueriesOK
  BY DEF ExplorerInv
<1>2. UNCHANGED <<route, clicked>> => RouteOK(route)' /\ clicked'.place \in Places
  BY <1>1 DEF RouteOK
<1>3. UNCHANGED storeVars => PlacesTyped'
  BY <1>1 DEF storeVars, PlacesTyped
<1>4. ASSUME NEW q \in DOMAIN query, QueryStep(q) \/ QueryFault(q)
      PROVE  ExplorerInv' /\ MissesForACause
  <2>1. QueriesOK' /\ MissesForACause
    BY <1>1, <1>4, QueryStepKeeps
  <2>2. UNCHANGED <<storeVars, route, clicked>>
    <3>1. CASE QueueKeys(q)
      BY <3>1 DEF QueueKeys
    <3>2. CASE QueueSize(q) \/ SetSize(q) \/ PageIds(q)
      BY <3>2 DEF QueueSize, SetSize, PageIds, Reply
    <3>3. CASE PageRows(q)
      BY <3>3 DEF PageRows, Reply
    <3>4. CASE FindIds(q)
      BY <3>4 DEF FindIds, Reply
    <3>5. CASE FindRows(q)
      <4>1. UNCHANGED <<storeVars, apiVars, route, screen, clicked, left>>
        BY <3>5, Zenon DEF FindRows
      <4> QED BY <4>1
    <3>6. CASE ContainsJob(q) \/ GetJob(q)
      BY <3>6 DEF ContainsJob, GetJob, Reply
    <3>7. CASE Land(q) \/ LandMissed(q) \/ QueryFault(q)
      BY <3>7 DEF Land, LandMissed, QueryFault
    <3> QED BY <1>4, <3>1, <3>2, <3>3, <3>4, <3>5, <3>6, <3>7 DEF QueryStep
  <2> QED BY <1>2, <1>3, <2>1, <2>2 DEF ExplorerInv
<1>5. CASE StoreStep /\ Shift /\ UNCHANGED <<route, clicked>>
  <2>1. QueriesOK' /\ MissesForACause
    BY <1>1, <1>5, ShiftKeeps
  <2> QED BY <1>2, <1>5, <2>1 DEF ExplorerInv, StoreStep
<1>6. CASE OthersTake \/ \E j \in Jobs : OthersPut(j)
  BY <1>1, <1>5, <1>6, OthersStep
<1>7. ASSUME NEW p \in Requests, ServeClick(p) PROVE ExplorerInv' /\ MissesForACause
  <2>1. RequestStep(p) /\ Shift /\ UNCHANGED <<route, clicked>>
    BY <1>7 DEF ServeClick
  <2> QED BY <1>1, <1>5, <2>1, RequestStoreStep
<1>8. CASE UNCHANGED explorerVars
  <2>1. UNCHANGED <<storeVars, query, route, clicked>>
    BY <1>8 DEF explorerVars, uiVars
  <2> QED BY <1>1, <1>2, <1>3, <2>1, RestKeeps DEF ExplorerInv
<1> QED BY <1>4, <1>6, <1>7, <1>8, UserKeeps DEF ExplorerNext

\* The pages a user can click through have every job of the queue or set, each
\* on one page but for one row that a page of a set may share with the next, whatever the page
\* size and however many jobs there are: the explorers' pagers, the middleware
\* and the peek operations agree on the offsets.
THEOREM PagesAreCovered == ExplorerSpec => []PagesCover
<1>1. ExplorerInit => ExplorerInv
  BY ExplorerInitOK
<1>2. ExplorerInv /\ [ExplorerNext]_explorerVars => ExplorerInv'
  BY ExplorerStep
<1>3. ExplorerInv => PagesCover
  BY PlacesCovered DEF ExplorerInv
<1> QED BY <1>1, <1>2, <1>3, PTL DEF ExplorerSpec

\* Queue.find and the set endpoints answer "not found" for a job that stays
\* where it is, and can be read, only if it is the first member of a set and
\* the page asked for first was not page 1.
THEOREM MissesHaveACause == ExplorerSpec => MissedForACause
<1>1. ExplorerInit => ExplorerInv
  BY ExplorerInitOK
<1>2. ExplorerInv /\ [ExplorerNext]_explorerVars => ExplorerInv'
  BY ExplorerStep
<1>3. ExplorerInv /\ [ExplorerNext]_explorerVars => [MissesForACause]_explorerVars
  BY ExplorerStep
<1>4. ExplorerSpec => [][MissesForACause]_explorerVars
  BY <1>1, <1>2, <1>3, PTL DEF ExplorerSpec
<1> QED BY <1>4 DEF MissedForACause, MissesForACause
=============================================================================
