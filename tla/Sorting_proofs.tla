---------------------------- MODULE Sorting_proofs ----------------------------
(***************************************************************************)
(* What sorting and keeping some rows of a list give, for any finite set   *)
(* and any sequence.  Ranks in a finite set with a strict total order are  *)
(* 0, 1, ... without a gap (RankOnto), so every place of the sorted        *)
(* sequence holds one element and every element has one place.             *)
(***************************************************************************)
EXTENDS Sorting, SequencesExt, FiniteSetTheorems, SequenceTheorems, TLAPS

-----------------------------------------------------------------------------
(* Ranks *)

StrictTotal(R, S) ==
    /\ \A r \in S : <<r, r>> \notin R
    /\ \A r, s, t \in S : <<r, s>> \in R /\ <<s, t>> \in R => <<r, t>> \in R
    /\ \A r, s \in S : r # s => <<r, s>> \in R \/ <<s, r>> \in R

\* A rank is less than the number of elements.
LEMMA RankBounds ==
    ASSUME NEW S, IsFiniteSet(S), NEW R, StrictTotal(R, S), NEW r \in S
    PROVE  /\ IsFiniteSet(Ahead(R, S, r))
           /\ Rank(R, S, r) \in 0..(Cardinality(S) - 1)
<1>1. IsFiniteSet(S \ {r}) /\ Cardinality(S \ {r}) = Cardinality(S) - 1
    BY FS_RemoveElement
<1>2. Ahead(R, S, r) \in SUBSET (S \ {r})
    BY DEF Ahead, StrictTotal
<1>3. /\ IsFiniteSet(Ahead(R, S, r))
      /\ Cardinality(Ahead(R, S, r)) <= Cardinality(S \ {r})
    BY <1>1, <1>2, FS_Subset
<1>4. Cardinality(S) \in Nat /\ Cardinality(Ahead(R, S, r)) \in Nat
    BY <1>3, FS_CardinalityType
<1>. QED BY <1>1, <1>3, <1>4 DEF Rank

\* What is ahead has the smaller rank.
LEMMA RankGrows ==
    ASSUME NEW S, IsFiniteSet(S), NEW R, StrictTotal(R, S), NEW r \in S, NEW s \in S,
           <<r, s>> \in R
    PROVE  Rank(R, S, r) < Rank(R, S, s)
<1>1. Ahead(R, S, r) \in SUBSET Ahead(R, S, s)
    BY DEF Ahead, StrictTotal
<1>2. r \in Ahead(R, S, s) /\ r \notin Ahead(R, S, r)
    BY DEF Ahead, StrictTotal
<1>3. IsFiniteSet(Ahead(R, S, s)) /\ IsFiniteSet(Ahead(R, S, r))
    BY RankBounds
<1>4. /\ Cardinality(Ahead(R, S, r)) <= Cardinality(Ahead(R, S, s))
      /\ Cardinality(Ahead(R, S, r)) # Cardinality(Ahead(R, S, s))
    BY <1>1, <1>2, <1>3, FS_Subset
<1>5. Cardinality(Ahead(R, S, r)) \in Nat /\ Cardinality(Ahead(R, S, s)) \in Nat
    BY <1>3, FS_CardinalityType
<1>. QED BY <1>4, <1>5 DEF Rank

\* Ranks are one to one, and as many as the elements.
LEMMA RankOnto ==
    ASSUME NEW S, IsFiniteSet(S), NEW R, StrictTotal(R, S),
           NEW n \in 0..(Cardinality(S) - 1)
    PROVE  \E s \in S : Rank(R, S, s) = n
<1> DEFINE T == 0..(Cardinality(S) - 1)
           f == [s \in S |-> Rank(R, S, s)]
<1>1. Cardinality(S) \in Nat
    BY FS_CardinalityType
<1>2. IsFiniteSet(T) /\ Cardinality(T) = Cardinality(S)
    BY <1>1, FS_Interval
<1>3. f \in [S -> T]
    BY RankBounds
<1>4. ASSUME NEW r \in S, NEW s \in S, r # s
      PROVE  f[r] # f[s]
    <2>1. f[r] \in Nat /\ f[s] \in Nat
        BY <1>1, <1>3
    <2>2. f[r] < f[s] \/ f[s] < f[r]
        BY <1>4, RankGrows DEF StrictTotal
    <2>. QED BY <2>1, <2>2
<1>5. f \in Injection(S, T)
    <2>. HIDE DEF f, T
    <2>. QED BY <1>3, <1>4 DEF Injection, IsInjective
<1>6. f \in Surjection(S, T)
    <2>. HIDE DEF f, T
    <2>. QED BY <1>2, <1>5, FS_Injection
<1>. QED BY <1>6 DEF Surjection

\* One element has none ahead of it.
LEMMA RankFirst ==
    ASSUME NEW S, IsFiniteSet(S), S # {}, NEW R, StrictTotal(R, S)
    PROVE  \E m \in S : \A s \in S : <<s, m>> \notin R
<1>1. 0 \in 0..(Cardinality(S) - 1)
    <2>1. Cardinality(S) \in Nat /\ Cardinality(S) # 0
        BY FS_CardinalityType, FS_EmptySet
    <2>. QED BY <2>1
<1>2. PICK m \in S : Rank(R, S, m) = 0
    BY <1>1, RankOnto
<1>3. Ahead(R, S, m) = {}
    BY <1>2, RankBounds, FS_EmptySet DEF Rank
<1>. QED BY <1>3 DEF Ahead

\* A finite set of numbers has a largest one.
LEMMA FiniteLargest ==
    ASSUME NEW S \in SUBSET Int, S # {}, IsFiniteSet(S)
    PROVE  \E m \in S : \A k \in S : k <= m
<1> DEFINE R == {p \in S \X S : p[1] > p[2]}
<1>1. StrictTotal(R, S)
    BY DEF StrictTotal
<1>2. \A r, s \in S : <<r, s>> \in R <=> r > s
    OBVIOUS
<1>3. PICK m \in S : \A s \in S : <<s, m>> \notin R
    <2>. HIDE DEF R
    <2>. QED BY <1>1, RankFirst
<1>4. \A k \in S : ~(k > m)
    BY <1>2, <1>3
<1>. QED BY <1>4

\* So has a set of natural numbers with a bound.
LEMMA LargestExists ==
    ASSUME NEW S \in SUBSET Nat, S # {}, NEW n \in Nat, \A s \in S : s <= n
    PROVE  \E m \in S : \A k \in S : k <= m
<1>1. IsFiniteSet(S)
    BY FS_BoundedSetOfNaturals
<1>2. S \in SUBSET Int
    OBVIOUS
<1>. QED BY <1>1, <1>2, FiniteLargest

-----------------------------------------------------------------------------
(* Sorted sequences *)

\* Every place holds the element of its rank.
LEMMA SortedRank ==
    ASSUME NEW S, IsFiniteSet(S), NEW R, StrictTotal(R, S), NEW k \in 1..Cardinality(S)
    PROVE  Sorted(R, S)[k] \in S /\ Rank(R, S, Sorted(R, S)[k]) = k - 1
<1>1. Cardinality(S) \in Nat
    BY FS_CardinalityType
<1>2. k - 1 \in 0..(Cardinality(S) - 1)
    BY <1>1
<1>3. \E s \in S : Rank(R, S, s) = k - 1
    BY <1>2, RankOnto
<1>. QED BY <1>3 DEF Sorted

\* A sorted sequence has each element of its set once, in the order.
LEMMA SortedProperties ==
    ASSUME NEW S, IsFiniteSet(S), NEW R, StrictTotal(R, S)
    PROVE  /\ Sorted(R, S) \in Seq(S)
           /\ Len(Sorted(R, S)) = Cardinality(S)
           /\ DOMAIN Sorted(R, S) = 1..Cardinality(S)
           /\ ToSet(Sorted(R, S)) = S
           /\ \A j, k \in 1..Cardinality(S) : j < k =>
                  <<Sorted(R, S)[j], Sorted(R, S)[k]>> \in R
           /\ IsInjective(Sorted(R, S))
<1> DEFINE n == Cardinality(S)
           s == Sorted(R, S)
<1>1. n \in Nat
    BY FS_CardinalityType
<1>2. \A k \in 1..n : s[k] \in S /\ Rank(R, S, s[k]) = k - 1
    BY SortedRank
<1>3. DOMAIN s = 1..n
    BY DEF Sorted
<1>4. s \in [1..n -> S]
    <2>1. \A k \in 1..n : (CHOOSE r \in S : Rank(R, S, r) = k - 1) \in S
        BY <1>2 DEF Sorted
    <2>. QED BY <2>1 DEF Sorted
<1>5. s \in Seq(S)
    <2>. HIDE DEF s, n
    <2>. QED BY <1>1, <1>4, SeqDef
<1>6. Len(s) = n
    <2>1. Len(s) \in Nat /\ DOMAIN s = 1..Len(s)
        BY <1>5, LenProperties
    <2>. HIDE DEF s, n
    <2>. QED BY <1>1, <1>3, <2>1
<1>7. \A r \in S : \E k \in 1..n : s[k] = r
    <2>. TAKE r \in S
    <2>1. Rank(R, S, r) \in 0..(n - 1)
        BY RankBounds
    <2>2. Rank(R, S, r) + 1 \in 1..n
        BY <1>1, <2>1
    <2> DEFINE k == Rank(R, S, r) + 1
    <2>3. s[k] \in S /\ Rank(R, S, s[k]) = k - 1
        BY <1>2, <2>2
    <2>4. Rank(R, S, s[k]) = Rank(R, S, r)
        BY <1>1, <2>1, <2>3
    <2>5. s[k] = r
        <3>1. CASE <<s[k], r>> \in R
            <4>1. Rank(R, S, s[k]) < Rank(R, S, r)
                BY <2>3, <3>1, RankGrows
            <4>. QED BY <1>1, <2>1, <2>4, <4>1
        <3>2. CASE <<r, s[k]>> \in R
            <4>1. Rank(R, S, r) < Rank(R, S, s[k])
                BY <2>3, <3>2, RankGrows
            <4>. QED BY <1>1, <2>1, <2>4, <4>1
        <3>. QED BY <2>3, <3>1, <3>2 DEF StrictTotal
    <2>. QED BY <2>2, <2>5
<1>8. ToSet(s) = S
    <2>. HIDE DEF s, n
    <2>. QED BY <1>2, <1>3, <1>7 DEF ToSet
<1>9. ASSUME NEW j \in 1..n, NEW k \in 1..n, j < k
      PROVE  <<s[j], s[k]>> \in R
    <2>1. s[j] \in S /\ s[k] \in S /\ Rank(R, S, s[j]) = j - 1 /\ Rank(R, S, s[k]) = k - 1
        BY <1>2
    <2>2. s[j] # s[k]
        BY <1>1, <1>9, <2>1
    <2>3. <<s[k], s[j]>> \notin R
        <3>1. SUFFICES ASSUME <<s[k], s[j]>> \in R PROVE FALSE
            OBVIOUS
        <3>2. Rank(R, S, s[k]) < Rank(R, S, s[j])
            BY <2>1, <3>1, RankGrows
        <3>. QED BY <1>1, <1>9, <2>1, <3>2
    <2>. QED BY <2>1, <2>2, <2>3 DEF StrictTotal
<1>10. IsInjective(s)
    <2>1. ASSUME NEW j \in 1..n, NEW k \in 1..n, s[j] = s[k]
          PROVE  j = k
        <3>1. j - 1 = k - 1
            BY <1>2, <2>1
        <3>. QED BY <1>1, <3>1
    <2>. HIDE DEF s, n
    <2>. QED BY <1>3, <2>1 DEF IsInjective
<1>11. \A j, k \in 1..n : j < k => <<s[j], s[k]>> \in R
    BY <1>9
<1>. QED BY <1>3, <1>5, <1>6, <1>8, <1>10, <1>11

\* Numbers in order.
LEMMA InOrderProperties ==
    ASSUME NEW S \in SUBSET Nat, IsFiniteSet(S)
    PROVE  /\ InOrder(S) \in Seq(S)
           /\ Len(InOrder(S)) = Cardinality(S)
           /\ DOMAIN InOrder(S) = 1..Cardinality(S)
           /\ ToSet(InOrder(S)) = S
           /\ \A j, k \in 1..Cardinality(S) : j < k => InOrder(S)[j] < InOrder(S)[k]
           /\ IsInjective(InOrder(S))
<1>1. StrictTotal(Smaller(S), S)
    BY DEF StrictTotal, Smaller
<1>2. \A p \in Smaller(S) : p[1] < p[2]
    BY DEF Smaller
<1>3. \A x, y : <<x, y>> \in Smaller(S) => x < y
    BY <1>2
<1>. QED BY <1>1, <1>3, SortedProperties DEF InOrder

-----------------------------------------------------------------------------
(* Rows of a list *)

\* A list has finitely many places.
LEMMA PlacesFinite ==
    ASSUME NEW T, NEW rows \in Seq(T)
    PROVE  IsFiniteSet(DOMAIN rows) /\ Cardinality(DOMAIN rows) = Len(rows)
<1>1. DOMAIN rows = 1..Len(rows) /\ Len(rows) \in Nat
    BY LenProperties
<1>2. IsFiniteSet(1..Len(rows)) /\ Cardinality(1..Len(rows)) = Len(rows)
    BY <1>1, FS_Interval
<1>. QED BY <1>1, <1>2

\* The rows at some places of a list are its rows there and no others, in its
\* order; where the list has no row twice they have none twice.
LEMMA RowsAtProperties ==
    ASSUME NEW T, NEW rows \in Seq(T), NEW places \in SUBSET DOMAIN rows
    PROVE  /\ IsFiniteSet(places)
           /\ RowsAt(rows, places) \in Seq(T)
           /\ Len(RowsAt(rows, places)) = Cardinality(places)
           /\ ToSet(RowsAt(rows, places)) = {rows[i] : i \in places}
           /\ (\A i, j \in places : rows[i] = rows[j] => i = j)
                => IsInjective(RowsAt(rows, places))
<1> DEFINE n == Cardinality(places)
           o == InOrder(places)
           s == RowsAt(rows, places)
<1>1. DOMAIN rows = 1..Len(rows) /\ Len(rows) \in Nat /\ \A i \in DOMAIN rows : rows[i] \in T
    BY LenProperties, ElementOfSeq
<1>2. IsFiniteSet(places)
    BY PlacesFinite, FS_Subset
<1>3. places \in SUBSET Nat
    BY <1>1
<1>4. n \in Nat
    BY <1>2, FS_CardinalityType
<1>5. /\ DOMAIN o = 1..n /\ ToSet(o) = places /\ IsInjective(o)
    BY <1>2, <1>3, InOrderProperties
<1>6. \A k \in 1..n : o[k] \in places
    BY <1>5 DEF ToSet
<1>7. s = [k \in 1..n |-> rows[o[k]]]
    BY DEF RowsAt
<1>. HIDE DEF s, o
<1>8. s \in [1..n -> T]
    BY <1>1, <1>6, <1>7
<1>9. s \in Seq(T) /\ DOMAIN s = 1..n
    BY <1>4, <1>7, <1>8, SeqDef
<1>10. Len(s) = n
    <2>1. Len(s) \in Nat /\ DOMAIN s = 1..Len(s)
        BY <1>9, LenProperties
    <2>. HIDE DEF n
    <2>. QED BY <1>4, <1>9, <2>1
<1>11. ToSet(s) = {rows[i] : i \in places}
    <2>1. ToSet(s) \subseteq {rows[i] : i \in places}
        BY <1>6, <1>7 DEF ToSet
    <2>2. ASSUME NEW i \in places
          PROVE  rows[i] \in ToSet(s)
        <3>1. PICK k \in 1..n : o[k] = i
            BY <1>5 DEF ToSet
        <3>2. s[k] = rows[i] /\ k \in DOMAIN s
            BY <1>7, <3>1
        <3>. QED BY <3>2 DEF ToSet
    <2>. QED BY <2>1, <2>2
<1>12. ASSUME \A i, j \in places : rows[i] = rows[j] => i = j
       PROVE  IsInjective(s)
    <2>1. ASSUME NEW j \in 1..n, NEW k \in 1..n, s[j] = s[k]
          PROVE  j = k
        <3>1. o[j] = o[k]
            BY <1>6, <1>7, <1>12, <2>1
        <3>. QED BY <1>5, <3>1 DEF IsInjective
    <2>. QED BY <1>9, <2>1 DEF IsInjective
<1>. QED BY <1>2, <1>9, <1>10, <1>11, <1>12 DEF s

\* A list has at most as many different rows as it has rows; one that has none
\* twice has as many.
LEMMA DifferentRows ==
    ASSUME NEW T, NEW rows \in Seq(T)
    PROVE  /\ IsFiniteSet(ToSet(rows))
           /\ Cardinality(ToSet(rows)) \in Nat
           /\ Cardinality(ToSet(rows)) <= Len(rows)
           /\ IsInjective(rows) => Cardinality(ToSet(rows)) = Len(rows)
<1>1. DOMAIN rows = 1..Len(rows) /\ Len(rows) \in Nat
    BY LenProperties
<1>2. IsFiniteSet(1..Len(rows)) /\ Cardinality(1..Len(rows)) = Len(rows)
    BY <1>1, FS_Interval
<1>3. rows \in Surjection(1..Len(rows), ToSet(rows))
    BY <1>1 DEF Surjection, ToSet
<1>4. IsFiniteSet(ToSet(rows)) /\ Cardinality(ToSet(rows)) <= Len(rows)
    BY <1>2, <1>3, FS_Surjection
<1>5. Cardinality(ToSet(rows)) \in Nat
    BY <1>4, FS_CardinalityType
<1>6. ASSUME IsInjective(rows)
      PROVE  Cardinality(ToSet(rows)) = Len(rows)
    <2>1. rows \in Injection(1..Len(rows), ToSet(rows))
        BY <1>1, <1>3, <1>6 DEF Injection, Surjection, IsInjective
    <2>. QED BY <1>2, <1>3, <2>1, FS_Surjection
<1>. QED BY <1>4, <1>5, <1>6

\* One list after another.
LEMMA ConcatElements ==
    ASSUME NEW T, NEW a \in Seq(T), NEW b \in Seq(T)
    PROVE  /\ a \o b \in Seq(T) /\ Len(a \o b) = Len(a) + Len(b)
           /\ ToSet(a \o b) = ToSet(a) \union ToSet(b)
           /\ IsInjective(a) /\ IsInjective(b) /\ ToSet(a) \cap ToSet(b) = {}
                => IsInjective(a \o b)
<1> DEFINE c == a \o b
<1>1. /\ DOMAIN a = 1..Len(a) /\ Len(a) \in Nat
      /\ DOMAIN b = 1..Len(b) /\ Len(b) \in Nat
    BY LenProperties
<1>2. /\ c \in Seq(T) /\ Len(c) = Len(a) + Len(b)
      /\ \A i \in 1..(Len(a) + Len(b)) : c[i] = IF i <= Len(a) THEN a[i] ELSE b[i - Len(a)]
    BY ConcatProperties
<1>3. DOMAIN c = 1..(Len(a) + Len(b))
    BY <1>2, LenProperties
<1>. HIDE DEF c
<1>4. ASSUME NEW i \in DOMAIN a
      PROVE  i \in DOMAIN c /\ c[i] = a[i]
    BY <1>1, <1>2, <1>3
<1>5. ASSUME NEW i \in DOMAIN b
      PROVE  i + Len(a) \in DOMAIN c /\ c[i + Len(a)] = b[i]
    <2>1. i + Len(a) \in DOMAIN c /\ ~(i + Len(a) <= Len(a)) /\ (i + Len(a)) - Len(a) = i
        BY <1>1, <1>3
    <2>. QED BY <1>2, <1>3, <2>1
<1>6. ASSUME NEW i \in DOMAIN c
      PROVE  \/ i \in DOMAIN a /\ c[i] = a[i]
             \/ i - Len(a) \in DOMAIN b /\ c[i] = b[i - Len(a)]
    BY <1>1, <1>2, <1>3
<1>7. ToSet(c) = ToSet(a) \union ToSet(b)
    BY <1>4, <1>5, <1>6 DEF ToSet
<1>8. ASSUME IsInjective(a), IsInjective(b), ToSet(a) \cap ToSet(b) = {},
             NEW i \in DOMAIN c, NEW j \in DOMAIN c, c[i] = c[j]
      PROVE  i = j
    <2>1. \A k \in DOMAIN a : a[k] \in ToSet(a)
        BY DEF ToSet
    <2>2. \A k \in DOMAIN b : b[k] \in ToSet(b)
        BY DEF ToSet
    <2>3. CASE i \in DOMAIN a /\ c[i] = a[i]
        BY <1>6, <1>8, <2>1, <2>2, <2>3 DEF IsInjective
    <2>4. CASE i - Len(a) \in DOMAIN b /\ c[i] = b[i - Len(a)]
        <3>1. j - Len(a) \in DOMAIN b /\ c[j] = b[j - Len(a)]
            BY <1>6, <1>8, <2>1, <2>2, <2>4
        <3>2. i - Len(a) = j - Len(a)
            BY <1>8, <2>4, <3>1 DEF IsInjective
        <3>. QED BY <1>1, <1>3, <3>2
    <2>. QED BY <1>6, <2>3, <2>4
<1>. QED BY <1>2, <1>7, <1>8 DEF IsInjective, c

\* The rows of a list that are in a set: those, in the list's order, none of
\* them twice unless the list has it twice.
LEMMA OnlyProperties ==
    ASSUME NEW T, NEW rows \in Seq(T), NEW S
    PROVE  /\ Only(rows, S) \in Seq(T \cap S)
           /\ Len(Only(rows, S)) <= Len(rows)
           /\ ToSet(Only(rows, S)) = ToSet(rows) \cap S
           /\ IsInjective(rows) => IsInjective(Only(rows, S))
           /\ Len(Only(rows, S)) = Len(rows) <=> ToSet(rows) \subseteq S
<1> DEFINE places == {i \in DOMAIN rows : rows[i] \in S}
           s == Only(rows, S)
<1>1. DOMAIN rows = 1..Len(rows) /\ Len(rows) \in Nat
    BY LenProperties
<1>2. places \in SUBSET DOMAIN rows
    OBVIOUS
<1>3. /\ s \in Seq(T) /\ Len(s) = Cardinality(places)
      /\ ToSet(s) = {rows[i] : i \in places}
      /\ (\A i, j \in places : rows[i] = rows[j] => i = j) => IsInjective(s)
    <2>. HIDE DEF places
    <2>1. s = RowsAt(rows, places)
        BY DEF Only, places
    <2>. HIDE DEF s
    <2>. QED BY <1>2, <2>1, RowsAtProperties
<1>4. ToSet(s) = ToSet(rows) \cap S
    BY <1>3 DEF ToSet
<1>5. s \in Seq(T \cap S)
    <2>. HIDE DEF s
    <2>1. Len(s) \in Nat /\ DOMAIN s = 1..Len(s) /\ s \in [1..Len(s) -> T]
        BY <1>3, LenProperties
    <2>2. \A k \in 1..Len(s) : s[k] \in T \cap S
        BY <1>4, <2>1 DEF ToSet
    <2>3. s \in [1..Len(s) -> T \cap S]
        BY <2>1, <2>2
    <2>. QED BY <2>1, <2>3, SeqDef
<1>6. IsFiniteSet(DOMAIN rows) /\ Cardinality(DOMAIN rows) = Len(rows)
    BY PlacesFinite
<1>7. /\ Cardinality(places) <= Len(rows)
      /\ Cardinality(places) = Len(rows) <=> places = DOMAIN rows
    <2>. HIDE DEF places
    <2>. QED BY <1>2, <1>6, FS_Subset
<1>8. places = DOMAIN rows <=> ToSet(rows) \subseteq S
    BY DEF ToSet
<1>9. ASSUME IsInjective(rows)
      PROVE  IsInjective(s)
    BY <1>3, <1>9 DEF IsInjective
<1>. QED BY <1>3, <1>4, <1>5, <1>7, <1>8, <1>9

\* Keeping some of the rows makes no double.
LEMMA OnlyDoubles ==
    ASSUME NEW T, NEW rows \in Seq(T), NEW S, NEW n \in Nat,
           Len(rows) <= Cardinality(ToSet(rows)) + n
    PROVE  Len(Only(rows, S)) <= Cardinality(ToSet(Only(rows, S))) + n
<1> DEFINE kept == {i \in DOMAIN rows : rows[i] \in S}
           left == {i \in DOMAIN rows : rows[i] \notin S}
           gone == {rows[i] : i \in left}
<1>1. DOMAIN rows = 1..Len(rows) /\ Len(rows) \in Nat
    BY LenProperties
<1>2. IsFiniteSet(DOMAIN rows) /\ Cardinality(DOMAIN rows) = Len(rows)
    BY PlacesFinite
<1>3. Len(Only(rows, S)) = Cardinality(kept)
    <2>1. kept \in SUBSET DOMAIN rows
        OBVIOUS
    <2>2. Only(rows, S) = RowsAt(rows, kept)
        BY DEF Only
    <2>. HIDE DEF kept
    <2>. QED BY <2>1, <2>2, RowsAtProperties
<1>4. ToSet(Only(rows, S)) = ToSet(rows) \cap S
    BY OnlyProperties
<1>5. IsFiniteSet(kept) /\ IsFiniteSet(left)
    BY <1>2, FS_Subset
<1>6. Cardinality(DOMAIN rows) = Cardinality(kept) + Cardinality(left)
    <2>1. kept \union left = DOMAIN rows /\ kept \cap left = {}
        OBVIOUS
    <2>2. Cardinality(kept \union left)
            = Cardinality(kept) + Cardinality(left) - Cardinality(kept \cap left)
        <3>. HIDE DEF kept, left
        <3>. QED BY <1>5, FS_Union
    <2>3. Cardinality(kept \cap left) = 0
        BY <2>1, FS_EmptySet
    <2>4. Cardinality(kept) \in Nat /\ Cardinality(left) \in Nat
        BY <1>5, FS_CardinalityType
    <2>. HIDE DEF kept, left
    <2>. QED BY <2>1, <2>2, <2>3, <2>4
<1>7. IsFiniteSet(gone) /\ Cardinality(gone) <= Cardinality(left)
    <2> DEFINE f == [i \in left |-> rows[i]]
    <2>1. f \in Surjection(left, gone)
        BY DEF Surjection
    <2>. HIDE DEF f, left, gone
    <2>. QED BY <1>5, <2>1, FS_Surjection
<1>8. ToSet(rows) = ToSet(Only(rows, S)) \union gone
    BY <1>4 DEF ToSet
<1>9. IsFiniteSet(ToSet(Only(rows, S)))
    BY <1>4, DifferentRows, FS_Subset
<1>10. Cardinality(ToSet(rows)) <= Cardinality(ToSet(Only(rows, S))) + Cardinality(gone)
    <2> DEFINE A == ToSet(Only(rows, S))
    <2>1. /\ Cardinality(A \union gone)
               = Cardinality(A) + Cardinality(gone) - Cardinality(A \cap gone)
          /\ IsFiniteSet(A \cap gone)
        <3>. HIDE DEF A, gone
        <3>. QED BY <1>7, <1>9, FS_Union, FS_Intersection DEF A
    <2>2. /\ Cardinality(A) \in Nat /\ Cardinality(gone) \in Nat
          /\ Cardinality(A \cap gone) \in Nat
        BY <1>7, <1>9, <2>1, FS_CardinalityType
    <2>. HIDE DEF A, gone
    <2>. QED BY <1>8, <2>1, <2>2 DEF A
<1>11. /\ Cardinality(kept) \in Nat /\ Cardinality(left) \in Nat /\ Cardinality(gone) \in Nat
       /\ Cardinality(ToSet(rows)) \in Nat /\ Cardinality(ToSet(Only(rows, S))) \in Nat
    BY <1>5, <1>7, <1>9, DifferentRows, FS_CardinalityType
<1>. QED
    <2>. HIDE DEF kept, left, gone
    <2>. QED BY <1>1, <1>2, <1>3, <1>6, <1>7, <1>10, <1>11

=============================================================================
