-------------------------- MODULE PagingQueryProofs -------------------------
(***************************************************************************)
(* Lemmas about the operators of Paging: what its queries return, what     *)
(* FindCapturesByLinkPage makes of the rows, and what                      *)
(* FindCapturesByPrefixPage makes of the links and of each link's rows,    *)
(* for every table and every limit.                                        *)
(***************************************************************************)
EXTENDS Paging, LinkKeysProofs, FiniteSetTheorems

-----------------------------------------------------------------------------
(***************************************************************************)
(* Sorting.  An order is a set of pairs here, so that the facts below need *)
(* no operator as a parameter.                                             *)
(***************************************************************************)
IsOrder(R, S) ==
    /\ \A x \in S : <<x, x>> \notin R
    /\ \A x, y, z \in S : <<x, y>> \in R /\ <<y, z>> \in R => <<x, z>> \in R
    /\ \A x, y \in S : x # y => <<x, y>> \in R \/ <<y, x>> \in R

Ascends(s, R, n) == \A i, j \in 1..n : i < j => <<s[i], s[j]>> \in R

HasLast(S, R) == \E m \in S : \A x \in S \ {m} : <<x, m>> \in R

(* A nonempty finite set has a last element.                               *)
LEMMA LastExists ==
    ASSUME NEW S, IsFiniteSet(S), S # {}, NEW R, IsOrder(R, S)
    PROVE  HasLast(S, R)
<1> DEFINE Bad == {n \in Nat : \E T \in SUBSET S : T # {} /\ Cardinality(T) = n /\ ~HasLast(T, R)}
<1>1. SUFFICES ASSUME ~HasLast(S, R) PROVE FALSE
  OBVIOUS
<1>2. Cardinality(S) \in Bad
  <2>1. Cardinality(S) \in Nat /\ S \in SUBSET S
    BY FS_CardinalityType
  <2> QED
    BY <1>1, <2>1
<1>3. PICK n \in Bad : \A m \in Bad : n <= m
  <2>1. Bad # {} /\ Bad \subseteq Nat
    BY <1>2
  <2> HIDE DEF Bad
  <2> QED
    BY <2>1, LeastNatural
<1>4. PICK T \in SUBSET S : T # {} /\ Cardinality(T) = n /\ ~HasLast(T, R)
  OBVIOUS
<1>5. PICK x \in T : TRUE
  BY <1>4
<1>6. CASE T = {x}
  BY <1>4, <1>6 DEF HasLast
<1>7. CASE T # {x}
  <2> DEFINE U == T \ {x}
  <2>1. U # {} /\ U \in SUBSET S
    BY <1>4, <1>5, <1>7
  <2>2. IsFiniteSet(T)
    BY <1>4, FS_Subset
  <2>3. Cardinality(U) = n - 1 /\ Cardinality(U) \in Nat /\ n \in Nat
    BY <1>4, <1>5, <2>2, FS_RemoveElement, FS_CardinalityType
  <2>4. Cardinality(U) \notin Bad
    BY <1>3, <2>3
  <2>5. HasLast(U, R)
    BY <2>1, <2>3, <2>4
  <2>6. PICK m \in U : \A y \in U \ {m} : <<y, m>> \in R
    BY <2>5 DEF HasLast
  <2>7. CASE <<m, x>> \in R
    <3>1. \A y \in T \ {x} : <<y, x>> \in R
      BY <1>5, <2>6, <2>7 DEF IsOrder
    <3> QED
      BY <1>4, <1>5, <3>1 DEF HasLast
  <2>8. CASE <<x, m>> \in R
    <3>1. \A y \in T \ {m} : <<y, m>> \in R
      BY <2>6, <2>8
    <3> QED
      BY <1>4, <2>6, <3>1 DEF HasLast
  <2> QED
    BY <1>5, <2>6, <2>7, <2>8 DEF IsOrder
<1> QED
  BY <1>6, <1>7

Sortable(S, R) == \E s \in [1..Cardinality(S) -> S] : Ascends(s, R, Cardinality(S))

(* A finite set can be sorted.                                             *)
LEMMA SortExists ==
    ASSUME NEW S, IsFiniteSet(S), NEW R, IsOrder(R, S)
    PROVE  Sortable(S, R)
<1> DEFINE Bad == {n \in Nat : \E T \in SUBSET S : Cardinality(T) = n /\ ~Sortable(T, R)}
<1>1. SUFFICES ASSUME ~Sortable(S, R) PROVE FALSE
  OBVIOUS
<1>2. Cardinality(S) \in Bad
  <2>1. Cardinality(S) \in Nat /\ S \in SUBSET S
    BY FS_CardinalityType
  <2> QED
    BY <1>1, <2>1
<1>3. PICK n \in Bad : \A m \in Bad : n <= m
  <2>1. Bad # {} /\ Bad \subseteq Nat
    BY <1>2
  <2> HIDE DEF Bad
  <2> QED
    BY <2>1, LeastNatural
<1>4. PICK T \in SUBSET S : Cardinality(T) = n /\ ~Sortable(T, R)
  OBVIOUS
<1>5. IsFiniteSet(T) /\ n \in Nat
  BY <1>4, FS_Subset
<1>6. CASE T = {}
  <2>1. Cardinality(T) = 0
    BY <1>6, FS_EmptySet
  <2>2. [i \in 1..0 |-> i] \in [1..Cardinality(T) -> T]
    BY <2>1
  <2>3. Ascends([i \in 1..0 |-> i], R, Cardinality(T))
    BY <2>1 DEF Ascends
  <2> QED
    BY <1>4, <2>2, <2>3 DEF Sortable
<1>7. CASE T # {}
  <2>1. IsOrder(R, T)
    BY <1>4 DEF IsOrder
  <2>2. PICK m \in T : \A x \in T \ {m} : <<x, m>> \in R
    BY <1>5, <1>7, <2>1, LastExists DEF HasLast
  <2> DEFINE U == T \ {m}
  <2>3. Cardinality(U) = n - 1 /\ Cardinality(U) \in Nat /\ U \in SUBSET S
    BY <1>4, <1>5, <2>2, FS_RemoveElement, FS_CardinalityType
  <2>4. Cardinality(U) \notin Bad
    BY <1>3, <1>5, <2>3
  <2>5. Sortable(U, R)
    BY <2>3, <2>4
  <2>6. PICK s \in [1..(n - 1) -> U] : Ascends(s, R, n - 1)
    BY <2>3, <2>5 DEF Sortable
  <2> DEFINE t == [i \in 1..n |-> IF i = n THEN m ELSE s[i]]
  <2>7. \A i \in 1..n : i # n => i \in 1..(n - 1)
    BY <1>5
  <2>8. t \in [1..n -> T]
    BY <2>2, <2>6, <2>7
  <2>9. Ascends(t, R, n)
    <3> SUFFICES ASSUME NEW i \in 1..n, NEW j \in 1..n, i < j PROVE <<t[i], t[j]>> \in R
      BY DEF Ascends
    <3>1. i \in 1..(n - 1) /\ t[i] = s[i] /\ s[i] \in T \ {m}
      BY <1>5, <2>6
    <3>2. CASE j = n
      BY <2>2, <3>1, <3>2
    <3>3. CASE j # n
      <4>1. j \in 1..(n - 1) /\ t[j] = s[j]
        BY <2>7, <3>3
      <4> QED
        BY <2>6, <3>1, <4>1 DEF Ascends
    <3> QED
      BY <3>2, <3>3
  <2> QED
    BY <1>4, <2>8, <2>9 DEF Sortable
<1> QED
  BY <1>6, <1>7

(* A sorted sequence of as many members as the set has holds them all.     *)
LEMMA SortHoldsAll ==
    ASSUME NEW S, IsFiniteSet(S), NEW R, IsOrder(R, S),
           NEW s \in [1..Cardinality(S) -> S], Ascends(s, R, Cardinality(S))
    PROVE  \A x \in S : \E i \in 1..Cardinality(S) : s[i] = x
<1> DEFINE n == Cardinality(S)
<1>1. n \in Nat /\ IsFiniteSet(1..n) /\ Cardinality(1..n) = n
  BY FS_CardinalityType, FS_Interval
<1>2. \A i, j \in 1..n : s[i] = s[j] => i = j
  <2> SUFFICES ASSUME NEW i \in 1..n, NEW j \in 1..n, s[i] = s[j], i < j PROVE FALSE
    BY <1>1
  <2>1. <<s[i], s[j]>> \in R /\ s[i] \in S
    BY DEF Ascends
  <2> QED
    BY <2>1 DEF IsOrder
<1> DEFINE Image == {s[i] : i \in 1..n}
<1>3. Image \subseteq S /\ IsFiniteSet(Image)
  BY FS_Subset
<1>4. ExistsBijection(1..n, Image)
  <2>1. s \in [1..n -> Image]
    OBVIOUS
  <2>2. s \in Bijection(1..n, Image)
    BY <1>2, <2>1 DEF Bijection, Injection, Surjection, IsInjective
  <2> QED
    BY <2>2 DEF ExistsBijection
<1>5. Cardinality(Image) = n
  BY <1>1, <1>4, FS_Bijection
<1>6. Image = S
  BY <1>3, <1>5, FS_Subset
<1> QED
  BY <1>6

-----------------------------------------------------------------------------
(***************************************************************************)
(* Queries: what "order by" and "limit" give.                              *)
(***************************************************************************)

(* The first n members of a sequence.                                      *)
LEMMA TakeMeaning ==
    ASSUME NEW X, NEW s \in Seq(X), NEW n \in Nat
    PROVE  /\ Take(s, n) \in Seq(X)
           /\ Len(Take(s, n)) = IF n < Len(s) THEN n ELSE Len(s)
           /\ \A i \in 1..Len(Take(s, n)) : Take(s, n)[i] = s[i] /\ i \in 1..Len(s)
<1> DEFINE m == IF n < Len(s) THEN n ELSE Len(s)
<1>1. m \in Nat /\ m <= Len(s) /\ Len(s) \in Nat
  OBVIOUS
<1>2. /\ SubSeq(s, 1, m) \in Seq(X) /\ Len(SubSeq(s, 1, m)) = m
      /\ \A i \in 1..m : SubSeq(s, 1, m)[i] = s[i] /\ i \in 1..Len(s)
  <2> HIDE DEF m
  <2> QED
    BY <1>1
<1> QED
  BY <1>2 DEF Take

(* A sequence backwards.                                                   *)
LEMMA ReverseMeaning ==
    ASSUME NEW X, NEW s \in Seq(X)
    PROVE  /\ Reverse(s) \in Seq(X) /\ Len(Reverse(s)) = Len(s)
           /\ \A i \in 1..Len(s) : /\ Reverse(s)[i] = s[Len(s) - i + 1]
                                   /\ Len(s) - i + 1 \in 1..Len(s)
<1>1. /\ Len(s) \in Nat
      /\ \A i \in 1..Len(s) : /\ Len(s) - i + 1 \in 1..Len(s)
                              /\ (Len(s) - i) + 1 = Len(s) - i + 1
  OBVIOUS
<1>2. Reverse(s) = [i \in 1..Len(s) |-> s[(Len(s) - i) + 1]]
  BY DEF Reverse
<1>3. \A i \in 1..Len(s) : s[(Len(s) - i) + 1] \in X
  BY <1>1
<1> QED
  BY <1>1, <1>2, <1>3

(* One sequence after another.                                             *)
LEMMA ConcatMeaning ==
    ASSUME NEW X, NEW s \in Seq(X), NEW t \in Seq(X)
    PROVE  /\ s \o t \in Seq(X) /\ Len(s \o t) = Len(s) + Len(t)
           /\ \A i \in 1..Len(s) : (s \o t)[i] = s[i]
           /\ \A i \in 1..Len(t) : (s \o t)[Len(s) + i] = t[i]
           /\ \A i \in 1..(Len(s) + Len(t)) : i > Len(s) =>
                 i - Len(s) \in 1..Len(t) /\ (s \o t)[i] = t[i - Len(s)]
OBVIOUS

(* What a query with a limit may leave out: what comes after all it gives. *)
IsQuery(q, S, R, n) ==
    /\ q \in Seq(S) /\ Len(q) <= n
    /\ Ascends(q, R, Len(q))
    /\ \A x \in S : \/ \E i \in 1..Len(q) : q[i] = x
                    \/ Len(q) = n /\ \A i \in 1..Len(q) : <<q[i], x>> \in R

(* A sorted set, cut off at the limit.                                     *)
LEMMA QueryMeaning ==
    ASSUME NEW S, IsFiniteSet(S), NEW R, IsOrder(R, S), NEW n \in Nat,
           NEW s \in [1..Cardinality(S) -> S], Ascends(s, R, Cardinality(S))
    PROVE  IsQuery(Take(s, n), S, R, n)
<1> DEFINE m == Cardinality(S)
           q == Take(s, n)
<1>1. m \in Nat
  BY FS_CardinalityType
<1>2. s \in Seq(S) /\ Len(s) = m
  BY <1>1
<1>3. /\ q \in Seq(S) /\ Len(q) = (IF n < m THEN n ELSE m) /\ Len(q) \in Nat
      /\ \A i \in 1..Len(q) : q[i] = s[i] /\ i \in 1..m
  BY <1>2, TakeMeaning
<1> HIDE DEF q
<1>4. Ascends(q, R, Len(q))
  BY <1>1, <1>3 DEF Ascends
<1>5. ASSUME NEW x \in S
      PROVE  \/ \E i \in 1..Len(q) : q[i] = x
             \/ Len(q) = n /\ \A i \in 1..Len(q) : <<q[i], x>> \in R
  <2>1. PICK k \in 1..m : s[k] = x
    BY SortHoldsAll
  <2>2. CASE k <= Len(q)
    BY <1>1, <1>3, <2>1, <2>2
  <2>3. CASE k > Len(q)
    <3>1. Len(q) = n
      BY <1>1, <1>3, <2>3
    <3>2. ASSUME NEW i \in 1..Len(q) PROVE <<q[i], x>> \in R
      <4>1. i \in 1..m /\ i < k /\ q[i] = s[i]
        BY <1>1, <1>3, <2>3
      <4> QED
        BY <2>1, <4>1 DEF Ascends
    <3> QED
      BY <3>1, <3>2
  <2> QED
    BY <1>3, <2>2, <2>3
<1>6. Len(q) <= n
  BY <1>1, <1>3
<1>7. IsQuery(q, S, R, n)
  BY <1>3, <1>4, <1>5, <1>6 DEF IsQuery
<1> QED
  BY <1>7 DEF q

(* A smaller limit gives the start of what a larger one gives.             *)
LEMMA QueryCut ==
    ASSUME NEW S, NEW R, NEW n \in Nat, NEW q, IsQuery(q, S, R, n), NEW m \in Nat, m <= n
    PROVE  IsQuery(Take(q, m), S, R, m)
<1> DEFINE t == Take(q, m)
<1>1. q \in Seq(S) /\ Len(q) \in Nat
  BY DEF IsQuery
<1>2. /\ t \in Seq(S) /\ Len(t) = (IF m < Len(q) THEN m ELSE Len(q)) /\ Len(t) \in Nat
      /\ \A i \in 1..Len(t) : t[i] = q[i] /\ i \in 1..Len(q)
  BY <1>1, TakeMeaning
<1> HIDE DEF t
<1>3. Ascends(t, R, Len(t))
  BY <1>1, <1>2 DEF IsQuery, Ascends
<1>4. ASSUME NEW x \in S
      PROVE  \/ \E i \in 1..Len(t) : t[i] = x
             \/ Len(t) = m /\ \A i \in 1..Len(t) : <<t[i], x>> \in R
  <2>1. CASE \E k \in 1..Len(q) : q[k] = x
    <3>1. PICK k \in 1..Len(q) : q[k] = x
      BY <2>1
    <3>2. CASE k <= Len(t)
      BY <1>1, <1>2, <3>1, <3>2
    <3>3. CASE k > Len(t)
      <4>1. Len(t) = m
        BY <1>1, <1>2, <3>3
      <4>2. ASSUME NEW i \in 1..Len(t) PROVE <<t[i], x>> \in R
        <5>1. i \in 1..Len(q) /\ i < k /\ t[i] = q[i]
          BY <1>1, <1>2, <3>3
        <5> QED
          BY <3>1, <5>1 DEF IsQuery, Ascends
      <4> QED
        BY <4>1, <4>2
    <3> QED
      BY <1>2, <3>2, <3>3
  <2>2. CASE Len(q) = n /\ \A i \in 1..Len(q) : <<q[i], x>> \in R
    BY <1>1, <1>2, <2>2
  <2> QED
    BY <2>1, <2>2 DEF IsQuery
<1>5. Len(t) <= m
  BY <1>1, <1>2
<1>6. IsQuery(t, S, R, m)
  BY <1>2, <1>3, <1>4, <1>5 DEF IsQuery
<1> QED
  BY <1>6 DEF t

(* A query that does not fill its limit gives everything.                  *)
LEMMA QueryIsAll ==
    ASSUME NEW S, NEW R, NEW n \in Nat, NEW q, IsQuery(q, S, R, n), Len(q) < n
    PROVE  \A x \in S : \E i \in 1..Len(q) : q[i] = x
<1>1. Len(q) # n
  BY DEF IsQuery
<1> QED
  BY <1>1 DEF IsQuery

-----------------------------------------------------------------------------
(***************************************************************************)
(* The orders of the queries.                                              *)
(***************************************************************************)
NewerThan == {pair \in Captures \X Captures : Newer(pair[1], pair[2])}
OlderThan == {pair \in Captures \X Captures : Older(pair[1], pair[2])}
LessThan == {pair \in Text \X Text : Less(pair[1], pair[2])}
GreaterThan == {pair \in Text \X Text : Greater(pair[1], pair[2])}

OneLink(S) == \A c, d \in S : c.link = d.link

(* Captures have their fields.                                             *)
LEMMA CaptureFields ==
    ASSUME NEW c \in Captures
    PROVE  c.id \in Nat /\ c.at \in Nat /\ c.link \in Text
BY PagingAssumption

(* Captures that agree in all columns are one.                             *)
LEMMA SameCapture ==
    ASSUME NEW c \in Captures, NEW d \in Captures, c.link = d.link, c.at = d.at, c.id = d.id
    PROVE  c = d
<1>1. c \in [id: Nat, link: Text, at: Nat] /\ d \in [id: Nat, link: Text, at: Nat]
  BY PagingAssumption
<1> QED
  BY <1>1

(* Newer is an order of the captures of a link, in both directions.        *)
LEMMA NewerIsOrder ==
    ASSUME NEW S, S \subseteq Captures, OneLink(S)
    PROVE  IsOrder(NewerThan, S) /\ IsOrder(OlderThan, S)
<1>1. \A c \in S : c \in Captures /\ c.id \in Nat /\ c.at \in Nat
  BY CaptureFields
<1>2. \A c, d \in S : (<<c, d>> \in NewerThan <=> Newer(c, d))
                      /\ (<<c, d>> \in OlderThan <=> Newer(d, c))
  BY DEF NewerThan, OlderThan, Older
<1>3. \A c \in S : ~Newer(c, c)
  BY <1>1 DEF Newer
<1>4. \A c, d, e \in S : Newer(c, d) /\ Newer(d, e) => Newer(c, e)
  BY <1>1 DEF Newer
<1>5. \A c, d \in S : c # d => Newer(c, d) \/ Newer(d, c)
  <2> SUFFICES ASSUME NEW c \in S, NEW d \in S, ~Newer(c, d), ~Newer(d, c) PROVE c = d
    OBVIOUS
  <2>1. c.at = d.at /\ c.id = d.id
    BY <1>1 DEF Newer
  <2> QED
    BY <1>1, <2>1, SameCapture DEF OneLink
<1> QED
  BY <1>2, <1>3, <1>4, <1>5 DEF IsOrder

(* Less is an order of texts, in both directions.                          *)
LEMMA LessIsOrder ==
    ASSUME NEW S, S \subseteq Text
    PROVE  IsOrder(LessThan, S) /\ IsOrder(GreaterThan, S)
<1>1. \A s, t \in S : (<<s, t>> \in LessThan <=> Less(s, t))
                      /\ (<<s, t>> \in GreaterThan <=> Less(t, s))
  BY DEF LessThan, GreaterThan, Greater
<1>2. \A s \in S : ~Less(s, s)
  BY LessIrreflexive
<1>3. \A s, t, u \in S : Less(s, t) /\ Less(t, u) => Less(s, u)
  BY LessTransitive
<1>4. \A s, t \in S : s # t => Less(s, t) \/ Less(t, s)
  BY LessTotal
<1> QED
  BY <1>1, <1>2, <1>3, <1>4 DEF IsOrder

(* The captures of a link, newest first.                                   *)
LEMMA NewestFirst ==
    ASSUME NEW S, S \subseteq Captures, OneLink(S), NEW n \in Nat
    PROVE  IsQuery(Take(OrderedBy(S, Newer), n), S, NewerThan, n)
<1> DEFINE m == Cardinality(S)
           s == OrderedBy(S, Newer)
<1>1. IsFiniteSet(S) /\ IsOrder(NewerThan, S)
  BY NewerIsOrder, PagingAssumption, FS_Subset
<1>2. PICK t \in [1..m -> S] : Ascends(t, NewerThan, m)
  BY <1>1, SortExists DEF Sortable
<1>3. \A i, j \in 1..m : i < j => Newer(t[i], t[j])
  BY <1>2 DEF Ascends, NewerThan
<1>4. s \in [1..m -> S] /\ \A i, j \in 1..m : i < j => Newer(s[i], s[j])
  BY <1>3 DEF OrderedBy
<1> HIDE DEF s
<1>5. Ascends(s, NewerThan, m)
  BY <1>4 DEF Ascends, NewerThan
<1>6. IsQuery(Take(s, n), S, NewerThan, n)
  BY <1>1, <1>4, <1>5, QueryMeaning
<1> QED
  BY <1>6 DEF s

(* The captures of a link, oldest first.                                   *)
LEMMA OldestFirst ==
    ASSUME NEW S, S \subseteq Captures, OneLink(S), NEW n \in Nat
    PROVE  IsQuery(Take(OrderedBy(S, Older), n), S, OlderThan, n)
<1> DEFINE m == Cardinality(S)
           s == OrderedBy(S, Older)
<1>1. IsFiniteSet(S) /\ IsOrder(OlderThan, S)
  BY NewerIsOrder, PagingAssumption, FS_Subset
<1>2. PICK t \in [1..m -> S] : Ascends(t, OlderThan, m)
  BY <1>1, SortExists DEF Sortable
<1>3. \A i, j \in 1..m : i < j => Older(t[i], t[j])
  BY <1>2 DEF Ascends, OlderThan
<1>4. s \in [1..m -> S] /\ \A i, j \in 1..m : i < j => Older(s[i], s[j])
  BY <1>3 DEF OrderedBy
<1> HIDE DEF s
<1>5. Ascends(s, OlderThan, m)
  BY <1>4 DEF Ascends, OlderThan
<1>6. IsQuery(Take(s, n), S, OlderThan, n)
  BY <1>1, <1>4, <1>5, QueryMeaning
<1> QED
  BY <1>6 DEF s

(* Links in the order of their keys.                                       *)
LEMMA LinksAscending ==
    ASSUME NEW S, S \subseteq Text, IsFiniteSet(S), NEW n \in Nat
    PROVE  IsQuery(Take(OrderedBy(S, Less), n), S, LessThan, n)
<1> DEFINE m == Cardinality(S)
           s == OrderedBy(S, Less)
<1>1. IsOrder(LessThan, S)
  BY LessIsOrder
<1>2. PICK t \in [1..m -> S] : Ascends(t, LessThan, m)
  BY <1>1, SortExists DEF Sortable
<1>3. \A i, j \in 1..m : i < j => Less(t[i], t[j])
  BY <1>2 DEF Ascends, LessThan
<1>4. s \in [1..m -> S] /\ \A i, j \in 1..m : i < j => Less(s[i], s[j])
  BY <1>3 DEF OrderedBy
<1> HIDE DEF s
<1>5. Ascends(s, LessThan, m)
  BY <1>4 DEF Ascends, LessThan
<1>6. IsQuery(Take(s, n), S, LessThan, n)
  BY <1>1, <1>4, <1>5, QueryMeaning
<1> QED
  BY <1>6 DEF s

(* Links against the order of their keys.                                  *)
LEMMA LinksDescending ==
    ASSUME NEW S, S \subseteq Text, IsFiniteSet(S), NEW n \in Nat
    PROVE  IsQuery(Take(OrderedBy(S, Greater), n), S, GreaterThan, n)
<1> DEFINE m == Cardinality(S)
           s == OrderedBy(S, Greater)
<1>1. IsOrder(GreaterThan, S)
  BY LessIsOrder
<1>2. PICK t \in [1..m -> S] : Ascends(t, GreaterThan, m)
  BY <1>1, SortExists DEF Sortable
<1>3. \A i, j \in 1..m : i < j => Greater(t[i], t[j])
  BY <1>2 DEF Ascends, GreaterThan
<1>4. s \in [1..m -> S] /\ \A i, j \in 1..m : i < j => Greater(s[i], s[j])
  BY <1>3 DEF OrderedBy
<1> HIDE DEF s
<1>5. Ascends(s, GreaterThan, m)
  BY <1>4 DEF Ascends, GreaterThan
<1>6. IsQuery(Take(s, n), S, GreaterThan, n)
  BY <1>1, <1>4, <1>5, QueryMeaning
<1> QED
  BY <1>6 DEF s

-----------------------------------------------------------------------------
(***************************************************************************)
(* The order of a listing.                                                 *)
(***************************************************************************)
InOrder(q) == \A i, j \in 1..Len(q) : i < j => Precedes(q[i], q[j])
Climbs(q) == \A i, j \in 1..Len(q) : i < j => Less(q[i], q[j])
Occurs(x, q) == \E i \in 1..Len(q) : q[i] = x

(* The order of a listing is transitive.                                   *)
LEMMA PrecedesTransitive ==
    ASSUME NEW c \in Captures, NEW d \in Captures, NEW e \in Captures,
           Precedes(c, d), Precedes(d, e)
    PROVE  Precedes(c, e)
<1>1. /\ c.id \in Nat /\ c.at \in Nat /\ c.link \in Text
      /\ d.id \in Nat /\ d.at \in Nat /\ d.link \in Text
      /\ e.id \in Nat /\ e.at \in Nat /\ e.link \in Text
  BY CaptureFields
<1>2. Less(c.link, d.link) /\ Less(d.link, e.link) => Less(c.link, e.link)
  BY <1>1, LessTransitive
<1>3. Newer(c, d) /\ Newer(d, e) => Newer(c, e)
  BY <1>1 DEF Newer
<1> QED
  BY <1>2, <1>3 DEF Precedes

(* Two ordered sequences, one after the other.                             *)
LEMMA OrderedConcat ==
    ASSUME NEW s \in Seq(Captures), NEW t \in Seq(Captures), InOrder(s), InOrder(t),
           \A i \in 1..Len(s), j \in 1..Len(t) : Precedes(s[i], t[j])
    PROVE  InOrder(s \o t)
<1>1. /\ Len(s \o t) = Len(s) + Len(t) /\ Len(s) \in Nat /\ Len(t) \in Nat
      /\ \A i \in 1..Len(s) : (s \o t)[i] = s[i]
      /\ \A i \in 1..(Len(s) + Len(t)) : i > Len(s) =>
            i - Len(s) \in 1..Len(t) /\ (s \o t)[i] = t[i - Len(s)]
  BY ConcatMeaning
<1> DEFINE u == s \o t
<1> HIDE DEF u
<1> SUFFICES ASSUME NEW i \in 1..(Len(s) + Len(t)), NEW j \in 1..(Len(s) + Len(t)), i < j
             PROVE  Precedes(u[i], u[j])
  BY <1>1 DEF InOrder, u
<1>2. CASE j <= Len(s)
  <2>1. i \in 1..Len(s) /\ j \in 1..Len(s) /\ u[i] = s[i] /\ u[j] = s[j]
    BY <1>1, <1>2 DEF u
  <2> QED
    BY <2>1 DEF InOrder
<1>3. CASE i <= Len(s) /\ j > Len(s)
  <2>1. i \in 1..Len(s) /\ j - Len(s) \in 1..Len(t) /\ u[i] = s[i] /\ u[j] = t[j - Len(s)]
    BY <1>1, <1>3 DEF u
  <2> QED
    BY <2>1
<1>4. CASE i > Len(s)
  <2>1. /\ i - Len(s) \in 1..Len(t) /\ j - Len(s) \in 1..Len(t) /\ i - Len(s) < j - Len(s)
        /\ u[i] = t[i - Len(s)] /\ u[j] = t[j - Len(s)]
    BY <1>1, <1>4 DEF u
  <2> QED
    BY <2>1 DEF InOrder
<1> QED
  BY <1>1, <1>2, <1>3, <1>4

(* The captures of a link.                                                 *)
LEMMA RowsOfLink ==
    ASSUME table \subseteq Captures, NEW link, NEW S, S \subseteq RowsOf(link)
    PROVE  S \subseteq Captures /\ OneLink(S) /\ \A c \in S : c.link = link
BY DEF RowsOf, OneLink

(* Newest first is the order of the listing.                               *)
LEMMA NewestIsInOrder ==
    ASSUME NEW S, S \subseteq Captures, OneLink(S), NEW n \in Nat, NEW q,
           IsQuery(q, S, NewerThan, n)
    PROVE  /\ q \in Seq(S) /\ Len(q) <= n /\ Len(q) \in Nat /\ InOrder(q)
           /\ \A c \in S : Occurs(c, q) \/ (Len(q) = n /\ \A i \in 1..Len(q) : Newer(q[i], c))
<1>1. q \in Seq(S) /\ Len(q) <= n /\ Ascends(q, NewerThan, Len(q))
  BY DEF IsQuery
<1>2. \A i \in 1..Len(q) : q[i] \in S
  BY <1>1
<1>3. InOrder(q)
  BY <1>1, <1>2 DEF InOrder, Ascends, NewerThan, Precedes, OneLink
<1>4. \A c \in S : Occurs(c, q) \/ (Len(q) = n /\ \A i \in 1..Len(q) : Newer(q[i], c))
  BY DEF IsQuery, NewerThan, Occurs
<1> QED
  BY <1>1, <1>3, <1>4

(* Oldest first is the same order backwards.                               *)
LEMMA OldestIsReversed ==
    ASSUME NEW S, S \subseteq Captures, OneLink(S), NEW n \in Nat, NEW q,
           IsQuery(q, S, OlderThan, n)
    PROVE  /\ Reverse(q) \in Seq(S) /\ Len(Reverse(q)) <= n /\ InOrder(Reverse(q))
           /\ Len(Reverse(q)) = Len(q) /\ Len(q) \in Nat
           /\ \A c \in S : \/ Occurs(c, Reverse(q))
                           \/ Len(q) = n /\ \A i \in 1..Len(q) : Newer(c, Reverse(q)[i])
<1>1. q \in Seq(S) /\ Len(q) <= n /\ Ascends(q, OlderThan, Len(q)) /\ Len(q) \in Nat
  BY DEF IsQuery
<1>2. \A i \in 1..Len(q) : q[i] \in S
  BY <1>1
<1>3. \A i, j \in 1..Len(q) : i < j => Precedes(q[j], q[i])
  BY <1>1, <1>2 DEF Ascends, OlderThan, Older, Precedes, OneLink
<1> DEFINE r == Reverse(q)
<1>4. /\ r \in Seq(S) /\ Len(r) = Len(q)
      /\ \A i \in 1..Len(q) : r[i] = q[Len(q) - i + 1] /\ Len(q) - i + 1 \in 1..Len(q)
  BY <1>1, ReverseMeaning
<1> HIDE DEF r
<1>5. InOrder(r)
  <2> SUFFICES ASSUME NEW i \in 1..Len(q), NEW j \in 1..Len(q), i < j PROVE Precedes(r[i], r[j])
    BY <1>4 DEF InOrder
  <2>1. Len(q) - j + 1 < Len(q) - i + 1
    BY <1>1
  <2> QED
    BY <1>3, <1>4, <2>1
<1>6. ASSUME NEW c \in S
      PROVE  Occurs(c, r) \/ (Len(q) = n /\ \A i \in 1..Len(q) : Newer(c, r[i]))
  <2>1. CASE \E i \in 1..Len(q) : q[i] = c
    <3>1. PICK i \in 1..Len(q) : q[i] = c
      BY <2>1
    <3>2. Len(q) - i + 1 \in 1..Len(q) /\ Len(q) - (Len(q) - i + 1) + 1 = i
      BY <1>1
    <3>3. r[Len(q) - i + 1] = c
      BY <1>4, <3>1, <3>2
    <3> QED
      BY <1>4, <3>2, <3>3 DEF Occurs
  <2>2. CASE Len(q) = n /\ \A i \in 1..Len(q) : <<q[i], c>> \in OlderThan
    BY <1>4, <2>2 DEF OlderThan, Older
  <2> QED
    BY <2>1, <2>2 DEF IsQuery
<1>7. Len(r) <= n
  BY <1>1, <1>4
<1> QED
  BY <1>1, <1>4, <1>5, <1>6, <1>7 DEF r

-----------------------------------------------------------------------------
(***************************************************************************)
(* A page by link.                                                         *)
(***************************************************************************)

(* The limits of a server are positive.                                    *)
LEMMA Limits ==
    ASSUME conf \in Confs
    PROVE  /\ conf.page_max \in Nat /\ conf.page_max >= 1
           /\ conf.per_link_max \in Nat /\ conf.per_link_max >= 1
           /\ conf.links_per_page_max \in Nat /\ conf.links_per_page_max >= 1
BY PagingAssumption

(* What one query gives when the page goes on: captures in order, and what *)
(* it leaves out comes after them.                                         *)
LEMMA PageForward ==
    ASSUME table \subseteq Captures, NEW link, NEW S, S \subseteq RowsOf(link),
           NEW m \in Nat, m >= 1,
           NEW rows, rows = Take(OrderedBy(S, Newer), m + 1)
    PROVE  LET kept == Take(rows, m) IN
           /\ kept \in Seq(S) /\ kept \in Seq(Captures) /\ Len(kept) <= m /\ InOrder(kept)
           /\ \A c \in S : Occurs(c, kept) \/ (/\ Len(rows) > m /\ kept # <<>>
                                              /\ \A i \in 1..Len(kept) : Newer(kept[i], c))
           /\ S # {} => kept # <<>>
<1> DEFINE kept == Take(rows, m)
<1>1. S \subseteq Captures /\ OneLink(S)
  BY RowsOfLink
<1>2. IsQuery(rows, S, NewerThan, m + 1)
  BY <1>1, NewestFirst
<1>3. IsQuery(kept, S, NewerThan, m)
  BY <1>2, QueryCut
<1>4. rows \in Seq(S) /\ Len(rows) \in Nat
  BY <1>2 DEF IsQuery
<1>5. /\ Len(kept) = IF m < Len(rows) THEN m ELSE Len(rows)
      /\ \A i \in 1..Len(kept) : kept[i] = rows[i]
  BY <1>4, TakeMeaning
<1> HIDE DEF kept
<1>6. /\ kept \in Seq(S) /\ Len(kept) <= m /\ Len(kept) \in Nat /\ InOrder(kept)
      /\ \A c \in S : \/ Occurs(c, kept)
                      \/ Len(kept) = m /\ \A i \in 1..Len(kept) : Newer(kept[i], c)
  BY <1>1, <1>3, NewestIsInOrder
<1>7. Len(rows) <= m => \A c \in S : Occurs(c, kept)
  <2> SUFFICES ASSUME Len(rows) <= m, NEW c \in S PROVE Occurs(c, kept)
    OBVIOUS
  <2>1. \E i \in 1..Len(rows) : rows[i] = c
    BY <1>2, <1>4, QueryIsAll
  <2> QED
    BY <1>4, <1>5, <2>1 DEF Occurs
<1>8. Len(kept) = m => kept # <<>>
  BY <1>6
<1>9. \A c : Occurs(c, kept) => kept # <<>>
  BY DEF Occurs
<1>10. kept \in Seq(Captures)
  BY <1>1, <1>6
<1>11. \A c \in S : Occurs(c, kept) \/ (/\ Len(rows) > m /\ kept # <<>>
                                       /\ \A i \in 1..Len(kept) : Newer(kept[i], c))
  <2>1. CASE Len(rows) <= m
    BY <1>7, <2>1
  <2>2. CASE Len(rows) > m
    BY <1>6, <1>8, <2>2
  <2>3. Len(rows) <= m \/ Len(rows) > m
    BY <1>4
  <2> QED
    BY <2>1, <2>2, <2>3
<1> QED
  BY <1>6, <1>9, <1>10, <1>11 DEF kept

(* The same when it goes back.                                             *)
LEMMA PageBackward ==
    ASSUME table \subseteq Captures, NEW link, NEW S, S \subseteq RowsOf(link),
           NEW m \in Nat, m >= 1,
           NEW rows, rows = Take(OrderedBy(S, Older), m + 1)
    PROVE  LET items == Reverse(Take(rows, m)) IN
           /\ items \in Seq(S) /\ items \in Seq(Captures) /\ Len(items) <= m /\ InOrder(items)
           /\ \A c \in S : Occurs(c, items) \/ (/\ Len(rows) > m /\ items # <<>>
                                               /\ \A i \in 1..Len(items) : Newer(c, items[i]))
           /\ S # {} => items # <<>>
<1> DEFINE kept == Take(rows, m)
           items == Reverse(kept)
<1>1. S \subseteq Captures /\ OneLink(S)
  BY RowsOfLink
<1>2. IsQuery(rows, S, OlderThan, m + 1)
  BY <1>1, OldestFirst
<1>3. IsQuery(kept, S, OlderThan, m)
  BY <1>2, QueryCut
<1>4. rows \in Seq(S) /\ Len(rows) \in Nat
  BY <1>2 DEF IsQuery
<1>5. /\ Len(kept) = IF m < Len(rows) THEN m ELSE Len(rows)
      /\ \A i \in 1..Len(kept) : kept[i] = rows[i]
  BY <1>4, TakeMeaning
<1> HIDE DEF kept
<1>6. /\ items \in Seq(S) /\ Len(items) <= m /\ InOrder(items)
      /\ Len(items) = Len(kept) /\ Len(kept) \in Nat
      /\ \A c \in S : \/ Occurs(c, items)
                      \/ Len(kept) = m /\ \A i \in 1..Len(kept) : Newer(c, items[i])
  BY <1>1, <1>3, OldestIsReversed
<1> HIDE DEF items
<1>8. ASSUME Len(rows) <= m, NEW c \in S PROVE Occurs(c, items)
  <2>1. PICK i \in 1..Len(rows) : rows[i] = c
    BY <1>2, <1>4, <1>8, QueryIsAll
  <2>2. i \in 1..Len(kept) /\ kept[i] = c /\ Len(kept) \in Nat /\ kept \in Seq(S)
    BY <1>3, <1>4, <1>5, <1>8, <2>1 DEF IsQuery
  <2>3. Len(kept) - i + 1 \in 1..Len(kept) /\ Len(kept) - (Len(kept) - i + 1) + 1 = i
    BY <2>2
  <2>4. items[Len(kept) - i + 1] = c
    BY <2>2, <2>3, ReverseMeaning DEF items
  <2> QED
    BY <1>6, <2>3, <2>4 DEF Occurs
<1>9. Len(kept) = m => items # <<>>
  BY <1>6
<1>10. \A c : Occurs(c, items) => items # <<>>
  BY DEF Occurs
<1>11. items \in Seq(Captures)
  BY <1>1, <1>6
<1>12. \A c \in S : Occurs(c, items) \/ (/\ Len(rows) > m /\ items # <<>>
                                        /\ \A i \in 1..Len(items) : Newer(c, items[i]))
  <2>1. CASE Len(rows) <= m
    BY <1>8, <2>1
  <2>2. CASE Len(rows) > m
    BY <1>6, <1>9, <2>2
  <2>3. Len(rows) <= m \/ Len(rows) > m
    BY <1>4
  <2> QED
    BY <2>1, <2>2, <2>3
<1> QED
  BY <1>6, <1>10, <1>11, <1>12 DEF kept, items

(* The page FindCapturesByLinkPage makes: in order, of the configured      *)
(* size, on the right side of the cursor, with cursors to its ends, and    *)
(* leaving out only what a cursor leads to.                                *)
LEMMA LinkPageMeaning ==
    ASSUME table \subseteq Captures, conf \in Confs, NEW link, NEW cur, NEW p,
           p = LinkPage(link, cur)
    PROVE  /\ p.items \in Seq(Captures) /\ Len(p.items) <= conf.page_max /\ InOrder(p.items)
           /\ \A i \in 1..Len(p.items) :
                 /\ p.items[i].link = link
                 /\ Goes(cur, "next") => Newer(cur, p.items[i])
                 /\ Goes(cur, "previous") => Newer(p.items[i], cur)
           /\ p.next # None => p.items # <<>> /\ p.next = EncodeCursor(Last(p.items), "next")
           /\ p.previous # None =>
                 p.items # <<>> /\ p.previous = EncodeCursor(Head(p.items), "previous")
           /\ p = [items |-> p.items, next |-> p.next, previous |-> p.previous]
           /\ ~Goes(cur, "previous") => \A c \in RowsOf(link) : (Goes(cur, "next") => Newer(cur, c)) =>
                 \/ Occurs(c, p.items)
                 \/ /\ p.items # <<>> /\ p.next = EncodeCursor(Last(p.items), "next")
                    /\ Newer(Last(p.items), c)
           /\ Goes(cur, "previous") => \A c \in RowsOf(link) : Newer(c, cur) =>
                 /\ p.items # <<>>
                 /\ Occurs(c, p.items) \/ Newer(c, Last(p.items))
<1> DEFINE m     == conf.page_max
           limit == m + 1
           rows  == CASE Goes(cur, "next") -> GetCapturesByLinkNext(link, limit, cur)
                      [] Goes(cur, "previous") -> GetCapturesByLinkPrev(link, limit, cur)
                      [] OTHER -> GetCapturesByLinkFirst(link, limit)
           more  == Len(rows) > m
           kept  == Take(rows, m)
           items == IF Goes(cur, "previous") THEN Reverse(kept) ELSE kept
           hasNext     == Goes(cur, "previous") \/ (more /\ ~Goes(cur, "previous"))
           hasPrevious == Goes(cur, "next") \/ (more /\ Goes(cur, "previous"))
           S == IF Goes(cur, "next") THEN {c \in RowsOf(link) : Older(c, cur)}
                ELSE IF Goes(cur, "previous") THEN {c \in RowsOf(link) : Newer(c, cur)}
                ELSE RowsOf(link)
<1>1. p = [items    |-> items,
           next     |-> IF items # <<>> /\ hasNext THEN EncodeCursor(Last(items), "next") ELSE None,
           previous |-> IF items # <<>> /\ hasPrevious THEN EncodeCursor(Head(items), "previous")
                        ELSE None]
  BY DEF LinkPage
<1>2. m \in Nat /\ m >= 1
  BY Limits
<1>3. ~(Goes(cur, "next") /\ Goes(cur, "previous"))
  BY DEF Goes
<1>4. rows = IF Goes(cur, "previous") THEN Take(OrderedBy(S, Older), m + 1)
             ELSE Take(OrderedBy(S, Newer), m + 1)
  BY <1>3 DEF GetCapturesByLinkNext, GetCapturesByLinkPrev, GetCapturesByLinkFirst
<1>5. S \subseteq RowsOf(link)
  OBVIOUS
<1>6. \A c \in S : /\ c.link = link
                   /\ Goes(cur, "next") => Newer(cur, c)
                   /\ Goes(cur, "previous") => Newer(c, cur)
  BY <1>3 DEF RowsOf, Older
<1>7. \A c \in RowsOf(link) : /\ Goes(cur, "next") => Newer(cur, c)
                              /\ Goes(cur, "previous") => Newer(c, cur)
                              => c \in S
  <2> SUFFICES ASSUME NEW c \in RowsOf(link), Goes(cur, "next") => Newer(cur, c),
                      Goes(cur, "previous") => Newer(c, cur)
               PROVE  c \in S
    OBVIOUS
  <2>1. CASE Goes(cur, "next")
    <3>1. c \in {d \in RowsOf(link) : Older(d, cur)}
      BY <2>1 DEF Older
    <3> QED
      BY <2>1, <3>1
  <2>2. CASE ~Goes(cur, "next") /\ Goes(cur, "previous")
    <3>1. c \in {d \in RowsOf(link) : Newer(d, cur)}
      BY <2>2
    <3> QED
      BY <2>2, <3>1
  <2>3. CASE ~Goes(cur, "next") /\ ~Goes(cur, "previous")
    BY <2>3
  <2> QED
    BY <2>1, <2>2, <2>3
<1> HIDE DEF rows, S
<1>8. CASE ~Goes(cur, "previous")
  <2>1. /\ kept \in Seq(S) /\ kept \in Seq(Captures) /\ Len(kept) <= m /\ InOrder(kept)
        /\ \A c \in S : Occurs(c, kept) \/ (/\ Len(rows) > m /\ kept # <<>>
                                           /\ \A i \in 1..Len(kept) : Newer(kept[i], c))
    BY <1>2, <1>4, <1>5, <1>8, PageForward
  <2>2. items = kept
    BY <1>8
  <2> HIDE DEF kept, items
  <2>3. \A i \in 1..Len(items) : items[i] \in S
    BY <2>1, <2>2
  <2>4. items # <<>> => Len(items) \in 1..Len(items)
    BY <2>1, <2>2
  <2>5. ASSUME NEW c \in S
        PROVE  Occurs(c, items) \/ (items # <<>> /\ hasNext /\ Newer(Last(items), c))
    BY <1>8, <2>1, <2>2, <2>4 DEF Last
  <2> HIDE DEF hasNext, hasPrevious
  <2>6. p.items = items /\ p = [items |-> p.items, next |-> p.next, previous |-> p.previous]
    BY <1>1
  <2>7. /\ p.next # None => items # <<>> /\ p.next = EncodeCursor(Last(items), "next")
        /\ p.previous # None => items # <<>> /\ p.previous = EncodeCursor(Head(items), "previous")
        /\ items # <<>> /\ hasNext => p.next = EncodeCursor(Last(items), "next")
    BY <1>1
  <2>8. \A i \in 1..Len(items) :
           /\ items[i].link = link
           /\ Goes(cur, "next") => Newer(cur, items[i])
    BY <1>6, <2>3
  <2>9. ASSUME NEW c \in RowsOf(link), Goes(cur, "next") => Newer(cur, c)
        PROVE  \/ Occurs(c, items)
               \/ /\ items # <<>> /\ p.next = EncodeCursor(Last(items), "next")
                  /\ Newer(Last(items), c)
    <3>1. c \in S
      BY <1>7, <1>8, <2>9, Zenon
    <3> QED
      BY <2>5, <2>7, <3>1
  <2>10. items \in Seq(Captures) /\ Len(items) <= conf.page_max /\ InOrder(items)
    BY <2>1, <2>2
  <2> QED
    BY <1>8, <2>6, <2>7, <2>8, <2>9, <2>10
<1>9. CASE Goes(cur, "previous")
  <2>1. /\ items \in Seq(S) /\ items \in Seq(Captures) /\ Len(items) <= m /\ InOrder(items)
        /\ \A c \in S : Occurs(c, items) \/ (/\ Len(rows) > m /\ items # <<>>
                                            /\ \A i \in 1..Len(items) : Newer(c, items[i]))
        /\ S # {} => items # <<>>
    BY <1>2, <1>4, <1>5, <1>9, PageBackward
  <2> HIDE DEF kept, items
  <2>2. \A i \in 1..Len(items) : items[i] \in S
    BY <2>1
  <2>3. items # <<>> => Len(items) \in 1..Len(items)
    BY <2>1
  <2>4. ASSUME NEW c \in S PROVE items # <<>> /\ (Occurs(c, items) \/ Newer(c, Last(items)))
    BY <2>1, <2>3 DEF Last
  <2> HIDE DEF hasNext, hasPrevious
  <2>5. p.items = items /\ p = [items |-> p.items, next |-> p.next, previous |-> p.previous]
    BY <1>1
  <2>6. /\ p.next # None => items # <<>> /\ p.next = EncodeCursor(Last(items), "next")
        /\ p.previous # None => items # <<>> /\ p.previous = EncodeCursor(Head(items), "previous")
    BY <1>1
  <2>7. \A i \in 1..Len(items) : items[i].link = link /\ Newer(items[i], cur)
    BY <1>6, <1>9, <2>2
  <2>8. ASSUME NEW c \in RowsOf(link), Newer(c, cur)
        PROVE  items # <<>> /\ (Occurs(c, items) \/ Newer(c, Last(items)))
    <3>1. c \in S
      BY <1>3, <1>7, <1>9, <2>8, Zenon
    <3> QED
      BY <2>4, <3>1
  <2>9. items \in Seq(Captures) /\ Len(items) <= conf.page_max /\ InOrder(items)
    BY <2>1
  <2> QED
    BY <1>3, <1>9, <2>5, <2>6, <2>7, <2>8, <2>9
<1> QED
  BY <1>8, <1>9

-----------------------------------------------------------------------------
(***************************************************************************)
(* A page by prefix: its links.                                            *)
(***************************************************************************)

(* The links in the range are the ones that start with the prefix.         *)
LEMMA RangeMeaning ==
    ASSUME table \subseteq Captures
    PROVE  /\ LinksInRange \subseteq Text /\ IsFiniteSet(LinksInRange)
           /\ \A l \in LinksInRange : IsPrefix(Prefix, l)
           /\ \A c \in table : IsPrefix(Prefix, c.link) => c.link \in LinksInRange
<1>1. \A c \in table : c.link \in Text
  BY CaptureFields
<1>2. KeysOf(table) \subseteq Text
  BY <1>1 DEF KeysOf
<1>3. Prefix \in Text /\ \E i \in DOMAIN Prefix : Prefix[i] < MaxByte
  BY PagingAssumption
<1>4. \A l \in Text : (AtMost(Prefix, l) /\ Less(l, UpperExclusiveBound(Prefix)))
                         <=> IsPrefix(Prefix, l)
  BY <1>3, ScanMeaning
<1>5. IsFiniteSet(KeysOf(table))
  <2> DEFINE f == [c \in table |-> c.link]
  <2>1. f \in Surjection(table, KeysOf(table))
    BY DEF KeysOf, Surjection
  <2>2. IsFiniteSet(table)
    BY PagingAssumption, FS_Subset
  <2> QED
    BY <2>1, <2>2, FS_Surjection
<1>6. LinksInRange \subseteq KeysOf(table)
  BY DEF LinksInRange
<1>7. IsFiniteSet(LinksInRange)
  BY <1>5, <1>6, FS_Subset
<1>8. \A c \in table : c.link \in KeysOf(table)
  BY DEF KeysOf
<1> QED
  BY <1>1, <1>2, <1>4, <1>6, <1>7, <1>8 DEF LinksInRange

(* A query for links, cut to the page: the further ones come after.        *)
LEMMA LinksForward ==
    ASSUME table \subseteq Captures, NEW S, S \subseteq LinksInRange, NEW n \in Nat, NEW q,
           q = Take(OrderedBy(S, Less), n)
    PROVE  /\ q \in Seq(S) /\ q \in Seq(Text) /\ Len(q) \in Nat /\ Len(q) <= n /\ Climbs(q)
           /\ \A l \in S : Occurs(l, q) \/ (Len(q) = n /\ \A i \in 1..Len(q) : Less(q[i], l))
<1>1. S \subseteq Text /\ IsFiniteSet(S)
  BY RangeMeaning, FS_Subset
<1>2. IsQuery(q, S, LessThan, n)
  BY <1>1, LinksAscending
<1>3. q \in Seq(S) /\ Len(q) <= n /\ Ascends(q, LessThan, Len(q)) /\ Len(q) \in Nat
  BY <1>2 DEF IsQuery
<1>4. Climbs(q)
  BY <1>3 DEF Climbs, Ascends, LessThan
<1>5. \A l \in S : Occurs(l, q) \/ (Len(q) = n /\ \A i \in 1..Len(q) : Less(q[i], l))
  BY <1>2 DEF IsQuery, Occurs, LessThan
<1>6. q \in Seq(Text)
  BY <1>1, <1>3
<1> QED
  BY <1>3, <1>4, <1>5, <1>6

(* The same backwards.                                                     *)
LEMMA LinksBackward ==
    ASSUME table \subseteq Captures, NEW S, S \subseteq LinksInRange, NEW m \in Nat, NEW q,
           q = Take(OrderedBy(S, Greater), m + 1), NEW r, r = Reverse(Take(q, m))
    PROVE  /\ r \in Seq(S) /\ r \in Seq(Text) /\ Len(r) \in Nat /\ Len(r) <= m /\ Climbs(r)
           /\ \A l \in S : Occurs(l, r) \/ (Len(r) = m /\ \A i \in 1..Len(r) : Less(l, r[i]))
<1> DEFINE t == Take(q, m)
<1>0. r = Reverse(t)
  OBVIOUS
<1>1. S \subseteq Text /\ IsFiniteSet(S)
  BY RangeMeaning, FS_Subset
<1>2. IsQuery(q, S, GreaterThan, m + 1)
  BY <1>1, LinksDescending
<1>3. IsQuery(t, S, GreaterThan, m)
  BY <1>2, QueryCut
<1> HIDE DEF t
<1>4. t \in Seq(S) /\ Len(t) <= m /\ Ascends(t, GreaterThan, Len(t)) /\ Len(t) \in Nat
  BY <1>3 DEF IsQuery
<1>5. \A i, j \in 1..Len(t) : i < j => Less(t[j], t[i])
  BY <1>4 DEF Ascends, GreaterThan, Greater
<1>6. /\ r \in Seq(S) /\ Len(r) = Len(t)
      /\ \A i \in 1..Len(t) : r[i] = t[Len(t) - i + 1] /\ Len(t) - i + 1 \in 1..Len(t)
  BY <1>0, <1>4, ReverseMeaning
<1>7. Climbs(r)
  <2> SUFFICES ASSUME NEW i \in 1..Len(t), NEW j \in 1..Len(t), i < j PROVE Less(r[i], r[j])
    BY <1>6 DEF Climbs
  <2>1. Len(t) - j + 1 < Len(t) - i + 1
    BY <1>4
  <2> QED
    BY <1>5, <1>6, <2>1
<1>8. ASSUME NEW l \in S
      PROVE  Occurs(l, r) \/ (Len(r) = m /\ \A i \in 1..Len(r) : Less(l, r[i]))
  <2>1. CASE \E i \in 1..Len(t) : t[i] = l
    <3>1. PICK i \in 1..Len(t) : t[i] = l
      BY <2>1
    <3>2. Len(t) - i + 1 \in 1..Len(t) /\ Len(t) - (Len(t) - i + 1) + 1 = i
      BY <1>4
    <3>3. r[Len(t) - i + 1] = l
      BY <1>6, <3>1, <3>2
    <3> QED
      BY <1>6, <3>2, <3>3 DEF Occurs
  <2>2. CASE Len(t) = m /\ \A i \in 1..Len(t) : <<t[i], l>> \in GreaterThan
    BY <1>6, <2>2 DEF GreaterThan, Greater
  <2> QED
    BY <1>3, <2>1, <2>2 DEF IsQuery
<1>9. r \in Seq(Text)
  BY <1>1, <1>6
<1> QED
  BY <1>4, <1>6, <1>7, <1>8, <1>9

(* Links of S that were found, more than n of them if there are any after. *)
Covers(q, S, n) ==
    \A l \in S : Occurs(l, q) \/ (Len(q) > n /\ \A i \in 1..Len(q) : Less(q[i], l))

(* The links of a page, of the links that were found.                      *)
LEMMA PageLinksMeaning ==
    ASSUME NEW S, NEW q \in Seq(Text), Climbs(q), NEW n \in Nat, NEW p, p = PageLinks(q, n),
           Covers(q, S, n)
    PROVE  /\ p.links \in Seq(Text) /\ Len(p.links) <= n /\ Climbs(p.links)
           /\ p.next \in BOOLEAN /\ p.previous = FALSE
           /\ \A i \in 1..Len(p.links) : p.links[i] = q[i] /\ i \in 1..Len(q)
           /\ \A l \in S : \/ Occurs(l, p.links)
                           \/ p.next /\ \A i \in 1..Len(p.links) : Less(p.links[i], l)
<1> DEFINE t == Take(q, n)
<1>1. /\ t \in Seq(Text) /\ Len(t) = (IF n < Len(q) THEN n ELSE Len(q)) /\ Len(q) \in Nat
      /\ \A i \in 1..Len(t) : t[i] = q[i] /\ i \in 1..Len(q)
  BY TakeMeaning
<1>2. p.links = t /\ (~p.previous) /\ (p.next <=> Len(q) > n)
  BY DEF PageLinks
<1>6. p.next \in BOOLEAN /\ p.previous = FALSE
  BY DEF PageLinks
<1> HIDE DEF t
<1>3. Climbs(t)
  BY <1>1 DEF Climbs
<1>4. Len(t) <= n
  BY <1>1
<1>5. ASSUME NEW l \in S PROVE Occurs(l, t) \/ (Len(q) > n /\ \A i \in 1..Len(t) : Less(t[i], l))
  <2>1. CASE Len(q) > n /\ \A i \in 1..Len(q) : Less(q[i], l)
    BY <1>1, <2>1
  <2>2. CASE Occurs(l, q)
    <3>1. PICK k \in 1..Len(q) : q[k] = l
      BY <2>2 DEF Occurs
    <3>2. CASE k <= Len(t)
      <4>1. k \in 1..Len(t)
        BY <1>1, <3>2
      <4> QED
        BY <1>1, <3>1, <4>1 DEF Occurs
    <3>3. CASE k > Len(t)
      <4>1. Len(q) > n
        BY <1>1, <3>3
      <4>2. ASSUME NEW i \in 1..Len(t) PROVE Less(t[i], l)
        <5>1. i \in 1..Len(q) /\ i < k /\ t[i] = q[i]
          BY <1>1, <3>3
        <5> QED
          BY <3>1, <5>1 DEF Climbs
      <4> QED
        BY <4>1, <4>2
    <3> QED
      BY <1>1, <3>2, <3>3
  <2> QED
    BY <1>5, <2>1, <2>2 DEF Covers
<1>7. \A l \in S : \/ Occurs(l, p.links)
                   \/ p.next /\ \A i \in 1..Len(p.links) : Less(p.links[i], l)
  BY <1>2, <1>5
<1> QED
  BY <1>1, <1>2, <1>3, <1>4, <1>6, <1>7

(* The links of a page that goes on: from the cursor's link, if the cursor *)
(* is within it, up to what the next page starts after.                    *)
LinksOnwards(links, cur, more) ==
    /\ links \in Seq(Text) /\ Len(links) <= conf.links_per_page_max /\ Climbs(links)
    /\ \A k \in 1..Len(links) :
          \/ /\ links[k] \in LinksInRange
             /\ Goes(cur, "next") => Less(cur.link, links[k]) /\ (k = 1 => ~Within(cur))
          \/ k = 1 /\ Goes(cur, "next") /\ Within(cur) /\ links[k] = cur.link
    /\ \A l \in LinksInRange : (Goes(cur, "next") => Less(cur.link, l)) =>
          Occurs(l, links) \/ (more /\ \A k \in 1..Len(links) : Less(links[k], l))

(* SelectLinks finds such links.                                           *)
LEMMA SelectOnwards ==
    ASSUME table \subseteq Captures, conf \in Confs, NEW cur \in Cursors \cup {None},
           ~Goes(cur, "previous"), NEW include, NEW found, found = SelectLinks(cur, include)
    PROVE  /\ LinksOnwards(found.links, cur, found.next)
           /\ found.next \in BOOLEAN /\ found.previous \in BOOLEAN
<1> DEFINE n == conf.links_per_page_max
<1>1. n \in Nat /\ n >= 1 /\ n + 1 \in Nat
  BY Limits
<1>2. n = conf.links_per_page_max
  OBVIOUS
<1> HIDE DEF n
<1>3. CASE cur = None
  <2> DEFINE q == GetDistinctLinksByPrefixFirst(n + 1)
  <2>1. /\ q \in Seq(LinksInRange) /\ q \in Seq(Text) /\ Len(q) \in Nat /\ Climbs(q)
        /\ \A l \in LinksInRange :
              Occurs(l, q) \/ (Len(q) = n + 1 /\ \A i \in 1..Len(q) : Less(q[i], l))
    <3> DEFINE N == n + 1
    <3>1. N \in Nat /\ q = Take(OrderedBy(LinksInRange, Less), N)
      BY <1>1 DEF GetDistinctLinksByPrefixFirst
    <3> HIDE DEF q, N
    <3>2. /\ q \in Seq(LinksInRange) /\ q \in Seq(Text) /\ Len(q) \in Nat /\ Climbs(q)
          /\ \A l \in LinksInRange :
                Occurs(l, q) \/ (Len(q) = N /\ \A i \in 1..Len(q) : Less(q[i], l))
      BY <3>1, LinksForward
    <3> QED
      BY <3>2 DEF N
  <2>2. found = PageLinks(q, n)
    BY <1>3 DEF SelectLinks, Goes, n
  <2> HIDE DEF q
  <2>3. Covers(q, LinksInRange, n)
    BY <1>1, <2>1 DEF Covers
  <2>4. /\ found.links \in Seq(Text) /\ Len(found.links) <= n /\ Climbs(found.links)
        /\ found.next \in BOOLEAN /\ found.previous = FALSE
        /\ \A i \in 1..Len(found.links) : found.links[i] = q[i] /\ i \in 1..Len(q)
        /\ \A l \in LinksInRange :
              \/ Occurs(l, found.links)
              \/ found.next /\ \A i \in 1..Len(found.links) : Less(found.links[i], l)
    BY <1>1, <2>1, <2>2, <2>3, PageLinksMeaning
  <2>5. \A i \in 1..Len(found.links) : found.links[i] \in LinksInRange
    BY <2>1, <2>4
  <2>6. ~Goes(cur, "next")
    BY <1>3 DEF Goes
  <2> QED
    BY <2>4, <2>5, <2>6 DEF LinksOnwards, n
<1>4. CASE Goes(cur, "next") /\ ~Within(cur)
  <2> DEFINE q == GetDistinctLinksByPrefixNext(cur.link, n + 1)
             S == {l \in LinksInRange : Less(cur.link, l)}
  <2>1. /\ q \in Seq(S) /\ q \in Seq(Text) /\ Len(q) \in Nat /\ Climbs(q)
        /\ \A l \in S :
              Occurs(l, q) \/ (Len(q) = n + 1 /\ \A i \in 1..Len(q) : Less(q[i], l))
    <3> DEFINE N == n + 1
    <3>1. S \subseteq LinksInRange
      OBVIOUS
    <3>2. N \in Nat /\ q = Take(OrderedBy(S, Less), N)
      BY <1>1 DEF GetDistinctLinksByPrefixNext
    <3> HIDE DEF q, S, N
    <3>3. /\ q \in Seq(S) /\ q \in Seq(Text) /\ Len(q) \in Nat /\ Climbs(q)
          /\ \A l \in S : Occurs(l, q) \/ (Len(q) = N /\ \A i \in 1..Len(q) : Less(q[i], l))
      BY <3>1, <3>2, LinksForward
    <3> QED
      BY <3>3 DEF N
  <2>2. found = PageLinks(q, n)
    BY <1>4 DEF SelectLinks, Goes, n
  <2>3. \A l \in S : l \in LinksInRange /\ Less(cur.link, l)
    OBVIOUS
  <2>4. \A l \in LinksInRange : Less(cur.link, l) => l \in S
    OBVIOUS
  <2> HIDE DEF q, S
  <2>5. Covers(q, S, n)
    BY <1>1, <2>1 DEF Covers
  <2>6. /\ found.links \in Seq(Text) /\ Len(found.links) <= n /\ Climbs(found.links)
        /\ found.next \in BOOLEAN /\ found.previous = FALSE
        /\ \A i \in 1..Len(found.links) : found.links[i] = q[i] /\ i \in 1..Len(q)
        /\ \A l \in S :
              \/ Occurs(l, found.links)
              \/ found.next /\ \A i \in 1..Len(found.links) : Less(found.links[i], l)
    BY <1>1, <2>1, <2>2, <2>5, PageLinksMeaning
  <2>7. \A i \in 1..Len(found.links) : found.links[i] \in S
    BY <2>1, <2>6
  <2> QED
    BY <1>4, <2>3, <2>4, <2>6, <2>7 DEF LinksOnwards, n
<1>5. CASE Goes(cur, "next") /\ Within(cur)
  <2> DEFINE q == GetDistinctLinksByPrefixNext(cur.link, n)
             S == {l \in LinksInRange : Less(cur.link, l)}
             s == <<cur.link>> \o q
  <2>1. /\ q \in Seq(S) /\ q \in Seq(Text) /\ Len(q) \in Nat /\ Climbs(q)
        /\ \A l \in S :
              Occurs(l, q) \/ (Len(q) = n /\ \A i \in 1..Len(q) : Less(q[i], l))
    <3>1. S \subseteq LinksInRange
      OBVIOUS
    <3>2. q = Take(OrderedBy(S, Less), n)
      BY DEF GetDistinctLinksByPrefixNext
    <3> HIDE DEF q, S
    <3> QED
      BY <1>1, <3>1, <3>2, LinksForward
  <2>2. found = PageLinks(s, n)
    BY <1>5 DEF SelectLinks, Goes, n
  <2>3. \A l \in S : l \in LinksInRange /\ Less(cur.link, l)
    OBVIOUS
  <2>4. \A l \in LinksInRange : Less(cur.link, l) => l \in S
    OBVIOUS
  <2> HIDE DEF q, S
  <2>5. cur.link \in Text
    BY <1>5 DEF Goes, Cursors
  <2>6. \A i \in 1..Len(q) : q[i] \in S
    BY <2>1
  <2>7. /\ s \in Seq(Text) /\ Len(s) = Len(q) + 1 /\ s[1] = cur.link
        /\ \A i \in 1..Len(q) : s[i + 1] = q[i]
        /\ \A i \in 1..Len(s) : i # 1 => i - 1 \in 1..Len(q) /\ s[i] = q[i - 1]
    BY <2>1, <2>5
  <2> HIDE DEF s
  <2>8. Climbs(s)
    <3> SUFFICES ASSUME NEW i \in 1..Len(s), NEW j \in 1..Len(s), i < j PROVE Less(s[i], s[j])
      BY DEF Climbs
    <3>1. j # 1 /\ j - 1 \in 1..Len(q) /\ s[j] = q[j - 1]
      BY <2>1, <2>7
    <3>2. CASE i = 1
      BY <2>3, <2>6, <2>7, <3>1, <3>2
    <3>3. CASE i # 1
      <4>1. i - 1 \in 1..Len(q) /\ s[i] = q[i - 1] /\ i - 1 < j - 1
        BY <2>1, <2>7, <3>3
      <4> QED
        BY <2>1, <3>1, <4>1 DEF Climbs
    <3> QED
      BY <3>2, <3>3
  <2>9. ASSUME NEW l \in S
        PROVE  Occurs(l, s) \/ (Len(s) > n /\ \A i \in 1..Len(s) : Less(s[i], l))
    <3>1. CASE Occurs(l, q)
      <4>1. PICK k \in 1..Len(q) : q[k] = l
        BY <3>1 DEF Occurs
      <4>2. k + 1 \in 1..Len(s) /\ s[k + 1] = l
        BY <2>1, <2>7, <4>1
      <4> QED
        BY <4>2 DEF Occurs
    <3>2. CASE Len(q) = n /\ \A i \in 1..Len(q) : Less(q[i], l)
      <4>1. Len(s) > n
        BY <1>1, <2>7, <3>2
      <4>2. \A i \in 1..Len(s) : Less(s[i], l)
        BY <2>3, <2>7, <2>9, <3>2
      <4> QED
        BY <4>1, <4>2
    <3> QED
      BY <2>1, <2>9, <3>1, <3>2
  <2>10. /\ found.links \in Seq(Text) /\ Len(found.links) <= n /\ Climbs(found.links)
         /\ found.next \in BOOLEAN /\ found.previous = FALSE
         /\ \A i \in 1..Len(found.links) : found.links[i] = s[i] /\ i \in 1..Len(s)
         /\ \A l \in S :
               \/ Occurs(l, found.links)
               \/ found.next /\ \A i \in 1..Len(found.links) : Less(found.links[i], l)
    <3>1. Covers(s, S, n)
      BY <2>9 DEF Covers
    <3> QED
      BY <1>1, <2>2, <2>7, <2>8, <3>1, PageLinksMeaning
  <2>11. ASSUME NEW i \in 1..Len(found.links)
         PROVE  (i = 1 /\ found.links[i] = cur.link) \/ (i # 1 /\ found.links[i] \in S)
    <3>1. found.links[i] = s[i] /\ i \in 1..Len(s)
      BY <2>10
    <3>2. i # 1 => s[i] \in S
      BY <2>6, <2>7, <3>1
    <3> QED
      BY <2>7, <3>1, <3>2
  <2> QED
    BY <1>5, <2>3, <2>4, <2>10, <2>11 DEF LinksOnwards, n
<1>6. cur = None \/ Goes(cur, "next")
  BY DEF Goes, Cursors
<1> QED
  BY <1>3, <1>4, <1>5, <1>6

(* The links of a page that goes back: up to the cursor's link, if there   *)
(* is something before the cursor.                                         *)
LinksBack(links, cur, include) ==
    /\ links \in Seq(Text) /\ Len(links) <= conf.links_per_page_max /\ Climbs(links)
    /\ \A k \in 1..Len(links) :
          \/ links[k] \in LinksInRange /\ Less(links[k], cur.link)
          \/ k = Len(links) /\ include /\ links[k] = cur.link
    /\ include => links # <<>> /\ links[Len(links)] = cur.link
    /\ \A l \in LinksInRange : Less(l, cur.link) =>
          /\ links # <<>>
          /\ Occurs(l, links) \/ Less(l, links[Len(links)])

(* SelectLinks finds such links.                                           *)
LEMMA SelectBack ==
    ASSUME table \subseteq Captures, conf \in Confs, NEW cur \in Cursors, Goes(cur, "previous"),
           NEW include \in BOOLEAN, NEW found, found = SelectLinks(cur, include)
    PROVE  /\ LinksBack(found.links, cur, include)
           /\ found.next \in BOOLEAN /\ found.previous \in BOOLEAN
<1> DEFINE n == conf.links_per_page_max
           S == {l \in LinksInRange : Less(l, cur.link)}
           q == GetDistinctLinksByPrefixPrev(cur.link, IF include THEN n ELSE n + 1)
<1>0. n \in Nat /\ n >= 1
  BY Limits
<1>1. PICK limit \in Nat : limit = IF include THEN n - 1 ELSE n
  BY <1>0
<1> DEFINE r == Reverse(Take(q, limit))
<1>2. found = [links    |-> r \o (IF include THEN <<cur.link>> ELSE <<>>),
               previous |-> Len(q) > limit, next |-> FALSE]
  BY <1>1, PagingAssumption DEF SelectLinks, Goes
<1>3. S \subseteq LinksInRange /\ \A l \in S : l \in LinksInRange /\ Less(l, cur.link)
  OBVIOUS
<1>4. \A l \in LinksInRange : Less(l, cur.link) => l \in S
  OBVIOUS
<1>5. q = Take(OrderedBy(S, Greater), limit + 1)
  <2>1. (IF include THEN n ELSE n + 1) = limit + 1
    BY <1>0, <1>1
  <2> QED
    BY <2>1 DEF GetDistinctLinksByPrefixPrev
<1>6. cur.link \in Text
  BY DEF Cursors
<1> HIDE DEF S, q
<1>7. /\ r \in Seq(S) /\ r \in Seq(Text) /\ Len(r) \in Nat /\ Len(r) <= limit /\ Climbs(r)
      /\ \A l \in S : Occurs(l, r) \/ (Len(r) = limit /\ \A i \in 1..Len(r) : Less(l, r[i]))
  <2>1. r = Reverse(Take(q, limit)) /\ S \subseteq LinksInRange
    BY <1>3
  <2> HIDE DEF r
  <2> QED
    BY <1>5, <2>1, LinksBackward
<1> HIDE DEF r
<1>8. \A i \in 1..Len(r) : r[i] \in S
  BY <1>7
<1>9. CASE ~include
  <2>1. found.links = r
    BY <1>2, <1>7, <1>9
  <2>2. \A l \in S : r # <<>> /\ (Occurs(l, r) \/ Less(l, r[Len(r)]))
    <3> SUFFICES ASSUME NEW l \in S PROVE r # <<>> /\ (Occurs(l, r) \/ Less(l, r[Len(r)]))
      OBVIOUS
    <3>1. Len(r) >= 1
      BY <1>0, <1>1, <1>7, <1>9 DEF Occurs
    <3> QED
      BY <1>7, <3>1
  <2> QED
    BY <1>0, <1>1, <1>2, <1>3, <1>4, <1>7, <1>8, <1>9, <2>1, <2>2 DEF LinksBack
<1>10. CASE include
  <2> DEFINE s == r \o <<cur.link>>
  <2>1. found.links = s /\ found.next \in BOOLEAN /\ found.previous \in BOOLEAN
    BY <1>2, <1>10
  <2>2. /\ s \in Seq(Text) /\ Len(s) = Len(r) + 1 /\ s[Len(s)] = cur.link /\ s # <<>>
        /\ \A i \in 1..Len(s) : i # Len(s) => i \in 1..Len(r) /\ s[i] = r[i]
    BY <1>6, <1>7
  <2> HIDE DEF s
  <2>3. Climbs(s)
    <3> SUFFICES ASSUME NEW i \in 1..Len(s), NEW j \in 1..Len(s), i < j PROVE Less(s[i], s[j])
      BY DEF Climbs
    <3>1. i # Len(s) /\ i \in 1..Len(r) /\ s[i] = r[i]
      BY <1>7, <2>2
    <3>2. CASE j = Len(s)
      BY <1>3, <1>8, <2>2, <3>1, <3>2
    <3>3. CASE j # Len(s)
      BY <1>7, <2>2, <3>1, <3>3 DEF Climbs
    <3> QED
      BY <3>2, <3>3
  <2>4. Len(s) <= n
    BY <1>0, <1>1, <1>7, <1>10, <2>2
  <2>5. \A k \in 1..Len(s) : \/ s[k] \in LinksInRange /\ Less(s[k], cur.link)
                             \/ k = Len(s) /\ s[k] = cur.link
    BY <1>3, <1>8, <2>2
  <2>6. LinksBack(s, cur, include)
    BY <1>10, <2>2, <2>3, <2>4, <2>5 DEF LinksBack
  <2> QED
    BY <2>1, <2>6
<1> QED
  BY <1>9, <1>10

-----------------------------------------------------------------------------
(***************************************************************************)
(* A page by prefix: the rows of its links.                                *)
(***************************************************************************)

Resumes(r) == Goes(r.cur, "previous") /\ Within(r.cur) /\ r.links[r.done + 1] = r.cur.link
GoesOn(r) == Goes(r.cur, "next") /\ Within(r.cur) /\ r.done = 0

(* What the loop over the links adds for the next link.                    *)
Added(r) ==
    LET kept == Take(SelectRows(r.cur, r.links[r.done + 1], r.done = 0), conf.per_link_max)
    IN  IF Resumes(r) THEN Reverse(kept) ELSE kept

(* The rows that are added: of one link, in order, at most so many, beyond *)
(* the cursor where it is within the link, and some if there are any.      *)
LEMMA AddedMeaning ==
    ASSUME table \subseteq Captures, conf \in Confs, NEW r, NEW link, link = r.links[r.done + 1],
           NEW a, a = Added(r)
    PROVE  /\ a \in Seq(Captures) /\ Len(a) \in Nat /\ Len(a) <= conf.per_link_max /\ InOrder(a)
           /\ \A i \in 1..Len(a) : /\ a[i].link = link
                                   /\ Resumes(r) => Newer(a[i], r.cur)
                                   /\ GoesOn(r) => Newer(r.cur, a[i])
           /\ \A c \in table : /\ c.link = link
                               /\ Resumes(r) => Newer(c, r.cur)
                               /\ GoesOn(r) => Newer(r.cur, c)
                               => a # <<>>
<1> DEFINE m == conf.per_link_max
           S == IF Resumes(r) THEN {c \in RowsOf(link) : Newer(c, r.cur)}
                ELSE IF GoesOn(r) THEN {c \in RowsOf(link) : Older(c, r.cur)}
                ELSE RowsOf(link)
           rows == SelectRows(r.cur, link, r.done = 0)
<1>1. m \in Nat /\ m >= 1
  BY Limits
<1>2. rows = IF Resumes(r) THEN Take(OrderedBy(S, Older), m + 1)
             ELSE Take(OrderedBy(S, Newer), m + 1)
  <2>1. CASE Resumes(r)
    BY <2>1 DEF SelectRows, Resumes, Goes, GetCapturesByLinkPrev
  <2>2. CASE ~Resumes(r) /\ GoesOn(r)
    BY <2>2 DEF SelectRows, Resumes, GoesOn, Goes, GetCapturesByLinkNext
  <2>3. CASE ~Resumes(r) /\ ~GoesOn(r)
    BY <2>3 DEF SelectRows, Resumes, GoesOn, Goes, GetCapturesByLinkFirst
  <2> QED
    BY <2>1, <2>2, <2>3
<1>3. S \subseteq RowsOf(link)
  OBVIOUS
<1>4. \A c \in S : /\ c.link = link
                   /\ Resumes(r) => Newer(c, r.cur)
                   /\ GoesOn(r) => Newer(r.cur, c)
  <2> SUFFICES ASSUME NEW c \in S
               PROVE  /\ c.link = link
                      /\ Resumes(r) => Newer(c, r.cur)
                      /\ GoesOn(r) => Newer(r.cur, c)
    OBVIOUS
  <2>1. c.link = link
    BY <1>3 DEF RowsOf
  <2>2. ~(Resumes(r) /\ GoesOn(r))
    BY DEF Resumes, GoesOn, Goes
  <2>3. CASE Resumes(r)
    BY <2>1, <2>2, <2>3
  <2>4. CASE ~Resumes(r) /\ GoesOn(r)
    BY <2>1, <2>4 DEF Older
  <2> QED
    BY <2>1, <2>3, <2>4
<1>5. ASSUME NEW c \in table, c.link = link, Resumes(r) => Newer(c, r.cur),
             GoesOn(r) => Newer(r.cur, c)
      PROVE  c \in S
  <2>1. c \in RowsOf(link)
    BY <1>5 DEF RowsOf
  <2>2. CASE Resumes(r)
    BY <1>5, <2>1, <2>2
  <2>3. CASE ~Resumes(r) /\ GoesOn(r)
    <3>1. Older(c, r.cur)
      BY <1>5, <2>3 DEF Older
    <3> QED
      BY <2>1, <2>3, <3>1
  <2>4. CASE ~Resumes(r) /\ ~GoesOn(r)
    BY <2>1, <2>4
  <2> QED
    BY <2>2, <2>3, <2>4
<1>6. a = IF Resumes(r) THEN Reverse(Take(rows, m)) ELSE Take(rows, m)
  BY DEF Added
<1> HIDE DEF S, rows
<1>7. /\ a \in Seq(S) /\ a \in Seq(Captures) /\ Len(a) <= m /\ InOrder(a)
      /\ S # {} => a # <<>>
  <2>1. CASE Resumes(r)
    BY <1>1, <1>2, <1>3, <1>6, <2>1, PageBackward
  <2>2. CASE ~Resumes(r)
    BY <1>1, <1>2, <1>3, <1>6, <2>2, PageForward
  <2> QED
    BY <2>1, <2>2
<1>8. \A i \in 1..Len(a) : a[i] \in S
  BY <1>7
<1>9. Len(a) \in Nat
  BY <1>7
<1>10. \A i \in 1..Len(a) : /\ a[i].link = link
                            /\ Resumes(r) => Newer(a[i], r.cur)
                            /\ GoesOn(r) => Newer(r.cur, a[i])
  BY <1>4, <1>8, Zenon
<1>11. ASSUME NEW c \in table, c.link = link, Resumes(r) => Newer(c, r.cur),
              GoesOn(r) => Newer(r.cur, c)
       PROVE  a # <<>>
  <2>1. c \in S
    BY <1>5, <1>11, Zenon
  <2> QED
    BY <1>7, <2>1
<1> QED
  BY <1>7, <1>9, <1>10, <1>11

(* One turn of the loop over the links.                                    *)
LEMMA WithRowsMeaning ==
    ASSUME NEW r \in Requests, NEW w, w = WithRows(r), Added(r) \in Seq(Captures)
    PROVE  /\ w \in Requests
           /\ w.cur = r.cur /\ w.stage = r.stage /\ w.include = r.include /\ w.links = r.links
           /\ w.more = r.more /\ w.quiet = r.quiet
           /\ w.done = r.done + 1 /\ w.items = r.items \o Added(r)
           /\ r.nextWithin => w.nextWithin
<1> DEFINE link   == r.links[r.done + 1]
           rows   == SelectRows(r.cur, link, r.done = 0)
           resume == Goes(r.cur, "previous") /\ Within(r.cur) /\ link = r.cur.link
           more   == Len(rows) > conf.per_link_max
           kept   == Take(rows, conf.per_link_max)
           isLast == r.done + 1 = Len(r.links)
           previousWithin == r.previousWithin \/ (more /\ resume)
           nextWithin == r.nextWithin \/ (more /\ ~resume /\ isLast) \/ (resume /\ kept # <<>>)
<1>1. w = [r EXCEPT !.done = r.done + 1, !.items = r.items \o Added(r),
                    !.previousWithin = previousWithin, !.nextWithin = nextWithin]
  BY DEF WithRows, Added, Resumes
<1>2. previousWithin \in BOOLEAN /\ nextWithin \in BOOLEAN /\ (r.nextWithin => nextWithin)
  BY DEF Requests
<1> HIDE DEF previousWithin, nextWithin
<1>3. r.done + 1 \in Nat /\ r.items \o Added(r) \in Seq(Captures)
  BY ConcatMeaning DEF Requests
<1>4. /\ w.cur = r.cur /\ w.stage = r.stage /\ w.include = r.include /\ w.links = r.links
      /\ w.more = r.more /\ w.quiet = r.quiet
      /\ w.done = r.done + 1 /\ w.items = r.items \o Added(r)
      /\ (w.nextWithin <=> nextWithin)
  BY <1>1, <1>2 DEF Requests
<1>5. w \in Requests
  BY <1>1, <1>2, <1>3 DEF Requests
<1> QED
  BY <1>2, <1>4, <1>5
=============================================================================
