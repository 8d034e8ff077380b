--------------------------- MODULE LinkKeysProofs ---------------------------
(***************************************************************************)
(* Theorems about LinkKeys, for texts and links of every length: the order *)
(* of texts and the bound of a scan by text prefix; that a key is parsed   *)
(* as a link with that key; that the ltree path of a link tells its host   *)
(* and its segments.  Join, Split and EncodedSegments are recursive        *)
(* functions: StepsExist shows that such a function exists, Induction what *)
(* holds of its values.                                                    *)
(***************************************************************************)
EXTENDS LinkKeys, TLAPS, WellFoundedInduction

-----------------------------------------------------------------------------
(***************************************************************************)
(* Least elements.  The library's induction theorems take an operator;     *)
(* that every nonempty set of naturals has a least member serves as well.  *)
(***************************************************************************)
Lower == {pair \in Nat \X Nat : pair[1] < pair[2]}

(* The order of the naturals is well founded.                              *)
LEMMA LowerIsWellFounded == IsWellFoundedOn(Lower, Nat)
BY NatLessThanWellFounded DEF OpToRel, Lower

(* Every nonempty set of naturals has a least member.                      *)
LEMMA LeastNatural ==
    ASSUME NEW T, T \subseteq Nat, T # {}
    PROVE  \E n \in T : \A m \in T : n <= m
<1>1. PICK n \in T : \A m \in T : <<m, n>> \notin Lower
  BY WFMin, LowerIsWellFounded
<1>2. \A m \in T : ~(m < n)
  BY <1>1 DEF Lower
<1>3. \A m \in T : n <= m
  BY <1>2
<1> QED
  BY <1>3

(* Every nonempty set of positions of a text has a last one.               *)
LEMMA LastPosition ==
    ASSUME NEW n \in Nat, NEW T, T \subseteq 1..n, T # {}
    PROVE  \E i \in T : \A k \in T : k <= i
<1> DEFINE Rest == {n - i : i \in T}
<1>1. Rest \subseteq Nat /\ Rest # {}
  <2>1. \A i \in T : n - i \in Nat
    OBVIOUS
  <2> QED
    BY <2>1
<1>2. PICK m \in Rest : \A k \in Rest : m <= k
  BY <1>1, LeastNatural
<1>3. PICK i \in T : m = n - i
  OBVIOUS
<1>4. ASSUME NEW k \in T PROVE k <= i
  <2>1. m <= n - k
    BY <1>2
  <2> QED
    BY <1>3, <2>1
<1> QED
  BY <1>4

-----------------------------------------------------------------------------
(***************************************************************************)
(* The order of texts is a strict total order.                             *)
(***************************************************************************)
(* Bytes are numbers.                                                      *)
LEMMA TextsAreNumbers ==
    ASSUME NEW s \in Text
    PROVE  /\ s \in Seq(Nat) /\ Len(s) \in Nat /\ DOMAIN s = 1..Len(s)
           /\ \A k \in 1..Len(s) : s[k] \in Nat /\ s[k] <= MaxByte
BY TextAssumption DEF Text, Bytes

(* The text s is less than t because of position i.                        *)
LessAt(s, t, i) ==
    /\ i \in 1..Len(t)
    /\ \A k \in 1..(i - 1) : k <= Len(s) /\ s[k] = t[k]
    /\ i <= Len(s) => s[i] < t[i]

(* The order in terms of lengths.                                          *)
LEMMA LessMeaning ==
    ASSUME NEW s \in Seq(Nat), NEW t \in Seq(Nat)
    PROVE  Less(s, t) <=> \E i \in Nat : LessAt(s, t, i)
<1>1. /\ DOMAIN s = 1..Len(s) /\ Len(s) \in Nat
      /\ DOMAIN t = 1..Len(t) /\ Len(t) \in Nat
  OBVIOUS
<1>2. ASSUME NEW i \in 1..Len(t)
      PROVE  (/\ \A k \in 1..(i - 1) : k \in DOMAIN s /\ s[k] = t[k]
              /\ i \in DOMAIN s => s[i] < t[i])  <=>  LessAt(s, t, i)
  <2>1. i \in Nat /\ i >= 1 /\ \A k \in 1..(i - 1) : k \in Nat /\ k >= 1
    BY <1>1
  <2>2. i \in DOMAIN s <=> i <= Len(s)
    BY <1>1, <2>1
  <2>3. \A k \in 1..(i - 1) : k \in DOMAIN s <=> k <= Len(s)
    BY <1>1, <2>1
  <2> QED
    BY <2>2, <2>3 DEF LessAt
<1>3. \A i \in Nat : LessAt(s, t, i) => i \in 1..Len(t)
  BY DEF LessAt
<1>4. \A i \in 1..Len(t) : i \in Nat
  BY <1>1
<1>5. Less(s, t) <=> \E i \in 1..Len(t) : LessAt(s, t, i)
  BY <1>1, <1>2 DEF Less
<1> QED
  BY <1>3, <1>4, <1>5

(* No text is less than itself.                                            *)
LEMMA LessIrreflexive ==
    ASSUME NEW s \in Text
    PROVE  ~Less(s, s)
<1>1. s \in Seq(Nat) /\ Len(s) \in Nat /\ \A k \in 1..Len(s) : s[k] \in Nat
  BY TextsAreNumbers
<1>2. ASSUME NEW i \in Nat, LessAt(s, s, i) PROVE FALSE
  BY <1>1, <1>2 DEF LessAt
<1> QED
  BY <1>1, <1>2, LessMeaning

(* The order is transitive: the earlier of two differences decides.        *)
LEMMA LessTransitive ==
    ASSUME NEW s \in Text, NEW t \in Text, NEW u \in Text, Less(s, t), Less(t, u)
    PROVE  Less(s, u)
<1>1. /\ s \in Seq(Nat) /\ Len(s) \in Nat /\ \A k \in 1..Len(s) : s[k] \in Nat
      /\ t \in Seq(Nat) /\ Len(t) \in Nat /\ \A k \in 1..Len(t) : t[k] \in Nat
      /\ u \in Seq(Nat) /\ Len(u) \in Nat /\ \A k \in 1..Len(u) : u[k] \in Nat
  BY TextsAreNumbers
<1>2. PICK i \in Nat : LessAt(s, t, i)
  BY <1>1, LessMeaning
<1>3. PICK j \in Nat : LessAt(t, u, j)
  BY <1>1, LessMeaning
<1>4. CASE i < j
  <2>1. i <= Len(u) /\ t[i] = u[i]
    BY <1>1, <1>2, <1>3, <1>4 DEF LessAt
  <2>2. \A k \in 1..(i - 1) : k <= Len(s) /\ s[k] = u[k]
    <3> SUFFICES ASSUME NEW k \in 1..(i - 1) PROVE k <= Len(s) /\ s[k] = u[k]
      OBVIOUS
    <3>1. k \in 1..(j - 1)
      BY <1>4
    <3>2. k <= Len(s) /\ s[k] = t[k]
      BY <1>2 DEF LessAt
    <3>3. t[k] = u[k]
      BY <1>3, <3>1 DEF LessAt
    <3> QED
      BY <3>2, <3>3
  <2>3. LessAt(s, u, i)
    BY <1>1, <1>2, <2>1, <2>2 DEF LessAt
  <2> QED
    BY <1>1, <2>3, LessMeaning
<1>5. CASE j <= i
  <2>1. \A k \in 1..(j - 1) : k <= Len(s) /\ s[k] = u[k]
    <3> SUFFICES ASSUME NEW k \in 1..(j - 1) PROVE k <= Len(s) /\ s[k] = u[k]
      OBVIOUS
    <3>1. k \in 1..(i - 1)
      BY <1>5
    <3>2. k <= Len(s) /\ s[k] = t[k]
      BY <1>2, <3>1 DEF LessAt
    <3>3. t[k] = u[k]
      BY <1>3 DEF LessAt
    <3> QED
      BY <3>2, <3>3
  <2>2. j \in 1..Len(u) /\ j <= Len(t) /\ t[j] < u[j]
    BY <1>1, <1>2, <1>3, <1>5 DEF LessAt
  <2>3. ASSUME j <= Len(s) PROVE s[j] < u[j]
    <3>1. s[j] \in Nat /\ t[j] \in Nat /\ u[j] \in Nat
      BY <1>1, <2>2, <2>3
    <3>2. CASE i = j
      BY <1>2, <2>2, <2>3, <3>1, <3>2 DEF LessAt
    <3>3. CASE j < i
      <4>1. s[j] = t[j]
        BY <1>2, <2>2, <3>3 DEF LessAt
      <4> QED
        BY <2>2, <4>1
    <3> QED
      BY <1>5, <3>2, <3>3
  <2>4. LessAt(s, u, j)
    BY <2>1, <2>2, <2>3 DEF LessAt
  <2> QED
    BY <1>1, <2>4, LessMeaning
<1> QED
  BY <1>4, <1>5

(* Texts of one length that agree everywhere are one text.                 *)
LEMMA SameText ==
    ASSUME NEW s \in Seq(Nat), NEW t \in Seq(Nat), Len(s) = Len(t),
           \A i \in 1..Len(s) : s[i] = t[i]
    PROVE  s = t
OBVIOUS

(* Of two different texts one is less: where they first differ decides.    *)
LEMMA LessTotal ==
    ASSUME NEW s \in Text, NEW t \in Text, s # t
    PROVE  Less(s, t) \/ Less(t, s)
<1> DEFINE Differs == {i \in Nat : /\ i >= 1 /\ (i <= Len(s) \/ i <= Len(t))
                                  /\ (i > Len(s) \/ i > Len(t) \/ s[i] # t[i])}
<1>1. /\ s \in Seq(Nat) /\ Len(s) \in Nat /\ \A k \in 1..Len(s) : s[k] \in Nat
      /\ t \in Seq(Nat) /\ Len(t) \in Nat /\ \A k \in 1..Len(t) : t[k] \in Nat
  BY TextsAreNumbers
<1>2. Differs # {}
  <2>1. CASE Len(s) = Len(t)
    <3>1. PICK i \in 1..Len(s) : s[i] # t[i]
      <4> SUFFICES ASSUME \A i \in 1..Len(s) : s[i] = t[i] PROVE FALSE
        OBVIOUS
      <4>1. s = t
        BY <1>1, <2>1, SameText
      <4> QED
        BY <4>1
    <3>2. i \in Differs
      BY <1>1, <2>1, <3>1
    <3> QED
      BY <3>2
  <2>2. CASE Len(s) < Len(t)
    <3>1. Len(t) \in Differs
      BY <1>1, <2>2
    <3> QED
      BY <3>1
  <2>3. CASE Len(t) < Len(s)
    <3>1. Len(s) \in Differs
      BY <1>1, <2>3
    <3> QED
      BY <3>1
  <2> QED
    BY <1>1, <2>1, <2>2, <2>3
<1>3. PICK i \in Differs : \A k \in Differs : i <= k
  BY <1>2, LeastNatural
<1>4. /\ i \in Nat /\ i >= 1 /\ (i <= Len(s) \/ i <= Len(t))
      /\ (i > Len(s) \/ i > Len(t) \/ s[i] # t[i])
  OBVIOUS
<1>5. ASSUME NEW k \in 1..(i - 1) PROVE k <= Len(s) /\ k <= Len(t) /\ s[k] = t[k]
  <2>1. k \in Nat /\ k >= 1 /\ k < i
    BY <1>4
  <2>2. k \notin Differs
    BY <1>3, <1>4, <2>1
  <2>3. k <= Len(s) \/ k <= Len(t)
    BY <1>1, <1>4, <2>1
  <2> QED
    BY <1>1, <2>1, <2>2, <2>3
<1> HIDE DEF Differs
<1>6. CASE i <= Len(t) /\ (i <= Len(s) => s[i] < t[i])
  <2>1. LessAt(s, t, i)
    BY <1>1, <1>4, <1>5, <1>6 DEF LessAt
  <2> QED
    BY <1>1, <1>4, <2>1, LessMeaning
<1>7. CASE i <= Len(s) /\ (i <= Len(t) => t[i] < s[i])
  <2>1. LessAt(t, s, i)
    BY <1>1, <1>4, <1>5, <1>7 DEF LessAt
  <2> QED
    BY <1>1, <1>4, <2>1, LessMeaning
<1>8. i <= Len(s) /\ i <= Len(t) => s[i] < t[i] \/ t[i] < s[i]
  BY <1>1, <1>4
<1> QED
  BY <1>1, <1>4, <1>6, <1>7, <1>8

-----------------------------------------------------------------------------
(***************************************************************************)
(* The scan by text prefix.                                                *)
(***************************************************************************)

(* What it is for a text to start with another.                            *)
LEMMA PrefixMeaning ==
    ASSUME NEW p \in Text, NEW s \in Text
    PROVE  IsPrefix(p, s) <=> Len(p) <= Len(s) /\ \A i \in 1..Len(p) : s[i] = p[i]
<1>1. ASSUME Len(p) <= Len(s)
      PROVE  SubSeq(p, 1, Len(p)) = SubSeq(s, 1, Len(p))
                <=> \A i \in 1..Len(p) : s[i] = p[i]
  BY <1>1 DEF Text
<1> QED
  BY <1>1 DEF IsPrefix

(* The bound: the text up to its last byte that can grow, that byte grown, *)
(* and only largest bytes cut away.                                        *)
LEMMA BoundMeaning ==
    ASSUME NEW p \in Text, \E i \in DOMAIN p : p[i] < MaxByte
    PROVE  \E last \in 1..Len(p) :
              /\ p[last] < MaxByte
              /\ \A k \in (last + 1)..Len(p) : p[k] = MaxByte
              /\ UpperExclusiveBound(p) \in Seq(Nat)
              /\ Len(UpperExclusiveBound(p)) = last
              /\ \A k \in 1..(last - 1) : UpperExclusiveBound(p)[k] = p[k]
              /\ UpperExclusiveBound(p)[last] = p[last] + 1
<1> DEFINE Free == {i \in DOMAIN p : p[i] < MaxByte}
           last == CHOOSE i \in Free : \A k \in Free : k <= i
           bound == Append(SubSeq(p, 1, last - 1), p[last] + 1)
<1>1. /\ Free \subseteq 1..Len(p) /\ Free # {} /\ Len(p) \in Nat
      /\ \A k \in 1..Len(p) : p[k] \in Nat /\ p[k] <= MaxByte
  BY TextsAreNumbers
<1>2. last \in Free /\ \A k \in Free : k <= last
  <2>1. \E i \in Free : \A k \in Free : k <= i
    BY <1>1, LastPosition
  <2> QED
    BY <2>1
<1>3. UpperExclusiveBound(p) = bound
  BY <1>1 DEF UpperExclusiveBound
<1> HIDE DEF last
<1>4. \A k \in (last + 1)..Len(p) : p[k] = MaxByte
  <2> SUFFICES ASSUME NEW k \in (last + 1)..Len(p) PROVE ~(p[k] < MaxByte)
    BY <1>1, <1>2, TextAssumption
  <2>1. k \notin Free /\ k \in DOMAIN p
    BY <1>1, <1>2 DEF Text
  <2> QED
    BY <2>1
<1>5. /\ bound \in Seq(Nat) /\ Len(bound) = last
      /\ \A k \in 1..(last - 1) : bound[k] = p[k]
      /\ bound[last] = p[last] + 1
  <2>1. last \in 1..Len(p) /\ p \in Seq(Nat)
    BY <1>1, <1>2, TextAssumption DEF Text, Bytes
  <2>2. /\ SubSeq(p, 1, last - 1) \in Seq(Nat) /\ Len(SubSeq(p, 1, last - 1)) = last - 1
        /\ \A k \in 1..(last - 1) : SubSeq(p, 1, last - 1)[k] = p[k]
    BY <2>1
  <2> QED
    BY <2>1, <2>2
<1> QED
  BY <1>1, <1>2, <1>3, <1>4, <1>5

(* The links a scan from a prefix to its UpperExclusiveBound finds are     *)
(* exactly the ones that start with it, whatever their length and bytes,   *)
(* unless the prefix is all largest bytes, which no valid prefix is.       *)
LEMMA ScanMeaning ==
    \A p, s \in Text :
        (\E i \in DOMAIN p : p[i] < MaxByte) =>
            ((AtMost(p, s) /\ Less(s, UpperExclusiveBound(p))) <=> IsPrefix(p, s))
<1> SUFFICES ASSUME NEW p \in Text, NEW s \in Text, \E i \in DOMAIN p : p[i] < MaxByte
             PROVE  (AtMost(p, s) /\ Less(s, UpperExclusiveBound(p))) <=> IsPrefix(p, s)
  OBVIOUS
<1> DEFINE b == UpperExclusiveBound(p)
<1>1. PICK last \in 1..Len(p) :
         /\ p[last] < MaxByte
         /\ \A k \in (last + 1)..Len(p) : p[k] = MaxByte
         /\ b \in Seq(Nat) /\ Len(b) = last
         /\ \A k \in 1..(last - 1) : b[k] = p[k]
         /\ b[last] = p[last] + 1
  BY BoundMeaning
<1> HIDE DEF b
<1>2. /\ p \in Seq(Nat) /\ Len(p) \in Nat /\ \A k \in 1..Len(p) : p[k] \in Nat
      /\ s \in Seq(Nat) /\ Len(s) \in Nat
      /\ \A k \in 1..Len(s) : s[k] \in Nat /\ s[k] <= MaxByte
      /\ MaxByte \in Nat /\ last \in Nat
  BY TextsAreNumbers, TextAssumption
<1>3. ASSUME IsPrefix(p, s) PROVE AtMost(p, s) /\ Less(s, b)
  <2>1. Len(p) <= Len(s) /\ \A i \in 1..Len(p) : s[i] = p[i]
    BY <1>3, PrefixMeaning
  <2>2. Less(s, b)
    <3>1. last <= Len(s) /\ s[last] = p[last] /\ s[last] < b[last]
      <4>1. last <= Len(s) /\ s[last] = p[last]
        BY <1>2, <2>1
      <4>2. p[last] \in Nat /\ b[last] = p[last] + 1
        BY <1>1, <1>2
      <4> QED
        BY <4>1, <4>2
    <3>2. \A k \in 1..(last - 1) : k <= Len(s) /\ s[k] = b[k]
      <4> SUFFICES ASSUME NEW k \in 1..(last - 1) PROVE k <= Len(s) /\ s[k] = b[k]
        OBVIOUS
      <4>1. k \in 1..Len(p) /\ b[k] = p[k]
        BY <1>1, <1>2
      <4> QED
        BY <1>2, <2>1, <4>1
    <3>3. LessAt(s, b, last)
      <4>1. last \in 1..Len(b)
        BY <1>1, <1>2
      <4> QED
        BY <3>1, <3>2, <4>1 DEF LessAt
    <3> QED
      BY <1>1, <1>2, <3>3, LessMeaning
  <2>3. CASE Len(p) = Len(s)
    <3>1. p = s
      BY <1>2, <2>1, <2>3, SameText
    <3> QED
      BY <2>2, <3>1 DEF AtMost
  <2>4. CASE Len(p) < Len(s)
    <3>1. PICK n \in Nat : n = Len(p) + 1
      BY <1>2
    <3>2. n \in 1..Len(s) /\ ~(n <= Len(p))
      BY <1>2, <2>4, <3>1
    <3>3. \A k \in 1..(n - 1) : k <= Len(p) /\ p[k] = s[k]
      BY <1>2, <2>1, <3>1
    <3>4. LessAt(p, s, n)
      BY <3>2, <3>3 DEF LessAt
    <3>5. Less(p, s)
      BY <1>2, <3>4, LessMeaning
    <3> QED
      BY <2>2, <3>5 DEF AtMost
  <2> QED
    BY <1>2, <2>1, <2>3, <2>4
<1>4. ASSUME AtMost(p, s), Less(s, b) PROVE IsPrefix(p, s)
  <2>1. CASE p = s
    BY <2>1, <1>2, PrefixMeaning
  <2>2. CASE Less(p, s)
    <3>1. PICK i \in Nat : LessAt(s, b, i)
      BY <1>1, <1>2, <1>4, LessMeaning
    <3>2. PICK j \in Nat : LessAt(p, s, j)
      BY <1>2, <2>2, LessMeaning
    <3>3. ~(j <= Len(p))
      <4> SUFFICES ASSUME j <= Len(p) PROVE FALSE
        OBVIOUS
      <4>1. p[j] < s[j] /\ j \in 1..Len(p) /\ j \in 1..Len(s) /\ i \in 1..last
        <5>1. j \in 1..Len(s) /\ p[j] < s[j]
          BY <3>2 DEF LessAt
        <5>2. i \in 1..last
          BY <1>1, <3>1 DEF LessAt
        <5> QED
          BY <1>2, <5>1, <5>2
      <4>2. CASE j > last
        <5>1. p[j] = MaxByte
          BY <1>1, <1>2, <4>1, <4>2
        <5>2. s[j] \in Nat /\ s[j] <= MaxByte
          BY <1>2, <4>1
        <5> QED
          BY <1>2, <4>1, <5>1, <5>2
      <4>3. CASE j <= last /\ i < j
        <5>1. i <= Len(s) /\ s[i] < b[i] /\ b[i] = p[i] /\ p[i] = s[i]
          <6>1. i \in 1..(j - 1) /\ i \in 1..(last - 1) /\ i <= Len(s)
            BY <1>1, <1>2, <4>1, <4>3
          <6>2. s[i] < b[i]
            BY <3>1, <6>1 DEF LessAt
          <6>3. p[i] = s[i]
            BY <3>2, <6>1 DEF LessAt
          <6> QED
            BY <1>1, <6>1, <6>2, <6>3
        <5>2. i \in 1..Len(s)
          BY <1>2, <4>1, <5>1
        <5>3. s[i] \in Nat
          BY <1>2, <5>2
        <5> QED
          BY <5>1, <5>3
      <4>4. CASE j <= last /\ i = j
        <5>1. s[j] < b[j]
          BY <3>1, <4>1, <4>4 DEF LessAt
        <5>2. b[j] = p[j] \/ b[j] = p[j] + 1
          <6>1. j \in 1..(last - 1) \/ j = last
            BY <1>1, <1>2, <4>1, <4>4
          <6> QED
            BY <1>1, <6>1
        <5>3. p[j] \in Nat /\ s[j] \in Nat
          BY <1>2, <4>1
        <5> QED
          BY <4>1, <5>1, <5>2, <5>3
      <4>5. CASE j <= last /\ j < i
        <5>1. s[j] = b[j] /\ b[j] = p[j]
          BY <1>1, <1>2, <3>1, <4>1, <4>5 DEF LessAt
        <5> QED
          BY <1>2, <4>1, <5>1
      <4> QED
        BY <1>2, <4>1, <4>2, <4>3, <4>4, <4>5
    <3>4. Len(p) <= Len(s) /\ \A k \in 1..Len(p) : s[k] = p[k]
      BY <1>2, <3>2, <3>3 DEF LessAt
    <3> QED
      BY <3>4, PrefixMeaning
  <2> QED
    BY <1>4, <2>1, <2>2 DEF AtMost
<1> QED
  BY <1>3, <1>4 DEF b

(* The texts between a prefix and its UpperExclusiveBound are exactly the  *)
(* ones that start with it: the scan's bound, for every text.              *)
THEOREM ScanIsExact == BoundIsExact(Text)
BY ScanMeaning DEF BoundIsExact

-----------------------------------------------------------------------------
(***************************************************************************)
(* Recursive functions over the positions of a sequence, and what the one  *)
(* of Split computes.                                                      *)
(***************************************************************************)

(* A set of naturals with 0 that goes on from each member to the next has  *)
(* them all.                                                               *)
LEMMA Induction ==
    ASSUME NEW Good, 0 \in Good, \A i \in Nat : i \in Good => i + 1 \in Good
    PROVE  \A i \in Nat : i \in Good
<1> SUFFICES ASSUME Nat \ Good # {} PROVE FALSE
  OBVIOUS
<1>1. PICK n \in Nat \ Good : \A m \in Nat \ Good : n <= m
  BY LeastNatural
<1>2. n - 1 \in Nat /\ (n - 1) + 1 = n /\ ~(n <= n - 1)
  BY <1>1
<1>3. n - 1 \in Good
  BY <1>1, <1>2
<1> QED
  BY <1>1, <1>2, <1>3

(* Values computed one from the other, in n steps.                         *)
Computed(V, n, base, step) ==
    {f \in [0..n -> V] : f[0] = base /\ \A i \in 1..n : f[i] = step[i][f[i - 1]]}

(* They exist for any number of steps.                                     *)
LEMMA StepsExist ==
    ASSUME NEW V, NEW n \in Nat, NEW base \in V, NEW step \in [1..n -> [V -> V]]
    PROVE  Computed(V, n, base, step) # {}
<1> USE DEF Computed
<1> DEFINE Runs(m) == Computed(V, m, base, step)
           Good == {m \in Nat : m <= n => Runs(m) # {}}
<1>1. 0 \in Good
  <2>1. [i \in 0..0 |-> base] \in Runs(0)
    OBVIOUS
  <2> QED
    BY <2>1
<1>2. ASSUME NEW m \in Nat, m \in Good PROVE m + 1 \in Good
  <2> SUFFICES ASSUME m + 1 <= n PROVE Runs(m + 1) # {}
    OBVIOUS
  <2>1. PICK f \in [0..m -> V] : f[0] = base /\ \A i \in 1..m : f[i] = step[i][f[i - 1]]
    BY <1>2
  <2> DEFINE g == [i \in 0..(m + 1) |-> IF i = m + 1 THEN step[m + 1][f[m]] ELSE f[i]]
  <2>2. step[m + 1][f[m]] \in V
    BY <2>1
  <2>3. g \in [0..(m + 1) -> V]
    BY <2>1, <2>2
  <2>4. g[0] = base
    BY <2>1
  <2>5. ASSUME NEW i \in 1..(m + 1) PROVE g[i] = step[i][g[i - 1]]
    <3>1. g[i - 1] = f[i - 1]
      OBVIOUS
    <3> HIDE DEF g
    <3>2. CASE i = m + 1
      BY <3>1, <3>2 DEF g
    <3>3. CASE i # m + 1
      <4>1. i \in 1..m /\ g[i] = f[i]
        BY <3>3 DEF g
      <4> QED
        BY <2>1, <3>1, <4>1
    <3> QED
      BY <3>2, <3>3
  <2> QED
    BY <2>3, <2>4, <2>5
<1> HIDE DEF Good
<1>3. n \in Good
  BY <1>1, <1>2, Induction
<1> QED
  BY <1>3 DEF Good

(* The parts of a text up to each of its bytes.                            *)
PartsAt(text, sep) ==
    CHOOSE parts : parts = [i \in 0..Len(text) |->
            IF i = 0 THEN << <<>> >>
            ELSE LET before == parts[i - 1]
                 IN  IF text[i] = sep THEN Append(before, <<>>)
                     ELSE [before EXCEPT ![Len(before)] = Append(@, text[i])]]

(* Split ends with what its recursive function computes.                   *)
LEMMA SplitByParts ==
    ASSUME NEW text, NEW sep
    PROVE  Split(text, sep) = PartsAt(text, sep)[Len(text)]
BY DEF Split, PartsAt

(* Nonempty sequences of texts over some bytes.                            *)
Pieces(B) == Seq(Seq(B)) \ {<<>>}

(* One step of Split.                                                      *)
Grown(parts, byte, sep) ==
    IF byte = sep THEN Append(parts, <<>>)
    ELSE [parts EXCEPT ![Len(parts)] = Append(@, byte)]

(* A step makes pieces of pieces.                                          *)
LEMMA GrownIsPieces ==
    ASSUME NEW B, NEW parts \in Pieces(B), NEW byte \in B, NEW sep
    PROVE  Grown(parts, byte, sep) \in Pieces(B)
<1>1. parts \in Seq(Seq(B)) /\ Len(parts) \in 1..Len(parts) /\ parts[Len(parts)] \in Seq(B)
  BY DEF Pieces
<1>2. CASE byte = sep
  <2>1. Append(parts, <<>>) \in Seq(Seq(B)) /\ Len(Append(parts, <<>>)) # 0
    BY <1>1
  <2> QED
    BY <1>2, <2>1 DEF Grown, Pieces
<1>3. CASE byte # sep
  <2> DEFINE new == Append(parts[Len(parts)], byte)
  <2>1. new \in Seq(B)
    BY <1>1
  <2> HIDE DEF new
  <2>2. /\ [parts EXCEPT ![Len(parts)] = new] \in Seq(Seq(B))
        /\ Len([parts EXCEPT ![Len(parts)] = new]) = Len(parts)
    BY <1>1, <2>1
  <2> QED
    BY <1>1, <1>3, <2>2 DEF Grown, Pieces, new
<1> QED
  BY <1>2, <1>3

(* What the recursive function of Split computes.                          *)
LEMMA PartsSteps ==
    ASSUME NEW B, NEW text \in Seq(B), NEW sep, NEW P, P = PartsAt(text, sep)
    PROVE  /\ P[0] = << <<>> >>
           /\ \A i \in 1..Len(text) : P[i] = Grown(P[i - 1], text[i], sep)
           /\ \A i \in 0..Len(text) : P[i] \in Pieces(B)
<1> DEFINE n == Len(text)
           V == Pieces(B)
           base == << <<>> >>
           step == [i \in 1..n |-> [v \in V |-> Grown(v, text[i], sep)]]
<1>1. n \in Nat /\ \A i \in 1..n : text[i] \in B
  OBVIOUS
<1>2. base \in V
  BY DEF Pieces
<1>3. step \in [1..n -> [V -> V]]
  BY <1>1, GrownIsPieces
<1>4. \A i \in 1..n : \A v \in V : step[i][v] = Grown(v, text[i], sep)
  OBVIOUS
<1> HIDE DEF n, V, base, step
<1>0. Computed(V, n, base, step) # {}
  BY <1>1, <1>2, <1>3, StepsExist
<1>5. PICK f \in [0..n -> V] : f[0] = base /\ \A i \in 1..n : f[i] = step[i][f[i - 1]]
  BY <1>0 DEF Computed
<1>6. \A i \in 1..n : f[i - 1] \in V /\ f[i] = Grown(f[i - 1], text[i], sep)
  BY <1>1, <1>4, <1>5
<1> DEFINE Body(g) == [i \in 0..n |-> IF i = 0 THEN base ELSE Grown(g[i - 1], text[i], sep)]
<1>7. f = Body(f)
  <2>1. ASSUME NEW i \in 0..n PROVE f[i] = IF i = 0 THEN base ELSE Grown(f[i - 1], text[i], sep)
    <3>1. CASE i = 0
      BY <1>5, <3>1
    <3>2. CASE i # 0
      <4>1. i \in 1..n
        BY <1>1, <3>2
      <4> QED
        BY <1>6, <3>2, <4>1
    <3> QED
      BY <3>1, <3>2
  <2> QED
    BY <2>1
<1>8. P = CHOOSE g : g = Body(g)
  BY DEF PartsAt, Grown, n, base
<1>9. P = Body(P)
  BY <1>7, <1>8
<1>10. P[0] = base /\ \A i \in 1..n : P[i] = Grown(P[i - 1], text[i], sep)
  BY <1>1, <1>9
<1> DEFINE Good == {i \in Nat : i <= n => P[i] \in V}
<1>11. 0 \in Good
  BY <1>2, <1>10
<1>12. ASSUME NEW i \in Nat, i \in Good PROVE i + 1 \in Good
  <2> SUFFICES ASSUME i + 1 <= n PROVE P[i + 1] \in V
    OBVIOUS
  <2>1. P[i] \in V /\ i + 1 \in 1..n /\ (i + 1) - 1 = i
    BY <1>1, <1>12
  <2>2. P[i + 1] = Grown(P[i], text[i + 1], sep)
    BY <1>10, <2>1
  <2> QED
    BY <1>1, <2>1, <2>2, GrownIsPieces DEF V
<1> HIDE DEF Good
<1>13. \A i \in Nat : i \in Good
  BY <1>11, <1>12, Induction
<1> QED
  BY <1>1, <1>10, <1>13 DEF Good, n, V, base

-----------------------------------------------------------------------------
(***************************************************************************)
(* Join.                                                                   *)
(***************************************************************************)

(* The parts joined so far.                                                *)
JoinedAt(parts, sep) ==
    CHOOSE text : text = [i \in 0..Len(parts) |->
            IF i = 0 THEN <<>>
            ELSE IF i = 1 THEN parts[1] ELSE text[i - 1] \o <<sep>> \o parts[i]]

(* One step of Join.                                                       *)
Longer(i, text, part, sep) == IF i = 1 THEN part ELSE text \o <<sep>> \o part

(* Join returns the last of them.                                          *)
LEMMA JoinByJoined ==
    ASSUME NEW parts, NEW sep
    PROVE  Join(parts, sep) = JoinedAt(parts, sep)[Len(parts)]
BY DEF Join, JoinedAt

(* What the recursive function of Join computes.                           *)
LEMMA JoinedSteps ==
    ASSUME NEW B, NEW sep \in B, NEW parts \in Seq(Seq(B)), NEW J, J = JoinedAt(parts, sep)
    PROVE  /\ J[0] = <<>>
           /\ \A i \in 1..Len(parts) : J[i] = Longer(i, J[i - 1], parts[i], sep)
           /\ \A i \in 0..Len(parts) : J[i] \in Seq(B)
<1> DEFINE n == Len(parts)
           V == Seq(B)
           base == <<>>
           New(i, v) == Longer(i, v, parts[i], sep)
           step == [i \in 1..n |-> [v \in V |-> New(i, v)]]
<1>1. n \in Nat /\ \A i \in 1..n : parts[i] \in V
  OBVIOUS
<1>2. base \in V
  OBVIOUS
<1>3. \A i \in 1..n : \A v \in V : New(i, v) \in V
  <2> SUFFICES ASSUME NEW i \in 1..n, NEW v \in V PROVE New(i, v) \in V
    OBVIOUS
  <2>1. <<sep>> \in V
    OBVIOUS
  <2> QED
    BY <1>1, <2>1 DEF Longer
<1> HIDE DEF New
<1>4. step \in [1..n -> [V -> V]] /\ \A i \in 1..n : \A v \in V : step[i][v] = New(i, v)
  BY <1>3
<1> HIDE DEF n, V, base, step
<1>5. Computed(V, n, base, step) # {}
  BY <1>1, <1>2, <1>4, StepsExist
<1>6. PICK f \in [0..n -> V] : f[0] = base /\ \A i \in 1..n : f[i] = step[i][f[i - 1]]
  BY <1>5 DEF Computed
<1>7. \A i \in 1..n : f[i - 1] \in V /\ f[i] = New(i, f[i - 1])
  BY <1>1, <1>4, <1>6
<1> DEFINE Body(g) == [i \in 0..n |-> IF i = 0 THEN base ELSE New(i, g[i - 1])]
<1>8. f = Body(f)
  <2>1. ASSUME NEW i \in 0..n PROVE f[i] = IF i = 0 THEN base ELSE New(i, f[i - 1])
    <3>1. CASE i = 0
      BY <1>6, <3>1
    <3>2. CASE i # 0
      <4>1. i \in 1..n
        BY <1>1, <3>2
      <4> QED
        BY <1>7, <3>2, <4>1
    <3> QED
      BY <3>1, <3>2
  <2> QED
    BY <2>1
<1>9. J = CHOOSE g : g = Body(g)
  <2>1. \A g : Body(g) = [i \in 0..n |-> IF i = 0 THEN <<>> ELSE IF i = 1 THEN parts[1]
                                          ELSE g[i - 1] \o <<sep>> \o parts[i]]
    BY DEF New, Longer, base
  <2> QED
    BY <2>1 DEF JoinedAt, n
<1>10. J = Body(J)
  BY <1>8, <1>9
<1>11. J[0] = base /\ \A i \in 1..n : J[i] = New(i, J[i - 1])
  BY <1>1, <1>10
<1> DEFINE Good == {i \in Nat : i <= n => J[i] \in V}
<1>12. 0 \in Good
  BY <1>2, <1>11
<1>13. ASSUME NEW i \in Nat, i \in Good PROVE i + 1 \in Good
  <2> SUFFICES ASSUME i + 1 <= n PROVE J[i + 1] \in V
    OBVIOUS
  <2>1. J[i] \in V /\ i + 1 \in 1..n /\ (i + 1) - 1 = i
    BY <1>1, <1>13
  <2> QED
    BY <1>3, <1>11, <2>1
<1> HIDE DEF Good
<1>14. \A i \in Nat : i \in Good
  BY <1>12, <1>13, Induction
<1>15. \A i \in 0..n : J[i] \in V
  BY <1>1, <1>14 DEF Good
<1> QED
  BY <1>11, <1>15 DEF New, n, V, base

(* Parts that agree up to a place are joined alike up to it.               *)
LEMMA JoinedAgree ==
    ASSUME NEW B, NEW sep \in B, NEW a \in Seq(Seq(B)), NEW b \in Seq(Seq(B)),
           NEW n \in 0..Len(a), n <= Len(b), \A i \in 1..n : a[i] = b[i]
    PROVE  JoinedAt(a, sep)[n] = JoinedAt(b, sep)[n]
<1> DEFINE J == JoinedAt(a, sep)
           K == JoinedAt(b, sep)
           Good == {i \in Nat : i <= n => J[i] = K[i]}
<1>1. /\ J[0] = <<>>
      /\ \A i \in 1..Len(a) : J[i] = Longer(i, J[i - 1], a[i], sep)
  BY JoinedSteps
<1>2. /\ K[0] = <<>>
      /\ \A i \in 1..Len(b) : K[i] = Longer(i, K[i - 1], b[i], sep)
  BY JoinedSteps
<1> HIDE DEF J, K
<1>3. 0 \in Good
  BY <1>1, <1>2
<1>4. ASSUME NEW i \in Nat, i \in Good PROVE i + 1 \in Good
  <2> SUFFICES ASSUME i + 1 <= n PROVE J[i + 1] = K[i + 1]
    OBVIOUS
  <2>1. i + 1 \in 1..Len(a) /\ i + 1 \in 1..Len(b) /\ i + 1 \in 1..n /\ (i + 1) - 1 = i
    OBVIOUS
  <2>2. J[i] = K[i] /\ a[i + 1] = b[i + 1]
    BY <1>4, <2>1
  <2> QED
    BY <1>1, <1>2, <2>1, <2>2
<1> HIDE DEF Good
<1>5. \A i \in Nat : i \in Good
  BY <1>3, <1>4, Induction
<1>6. n \in Nat
  OBVIOUS
<1> QED
  BY <1>5, <1>6 DEF Good, J, K

(* Joining one part.                                                       *)
LEMMA JoinOne ==
    ASSUME NEW B, NEW sep \in B, NEW p \in Seq(B)
    PROVE  Join(<<p>>, sep) = p
<1> DEFINE one == <<p>>
<1>1. one \in Seq(Seq(B)) /\ Len(one) = 1 /\ one[1] = p /\ 1 \in 1..1
  OBVIOUS
<1> HIDE DEF one
<1>2. JoinedAt(one, sep)[1] = Longer(1, JoinedAt(one, sep)[1 - 1], one[1], sep)
  <2> DEFINE J == JoinedAt(one, sep)
  <2>1. one \in Seq(Seq(B))
    BY <1>1
  <2>2. \A i \in 1..Len(one) : J[i] = Longer(i, J[i - 1], one[i], sep)
    BY <2>1, JoinedSteps
  <2> HIDE DEF J
  <2>3. 1 \in 1..Len(one)
    BY <1>1
  <2>4. J[1] = Longer(1, J[1 - 1], one[1], sep)
    BY <2>2, <2>3
  <2> QED
    BY <2>4 DEF J
<1>3. Join(one, sep) = JoinedAt(one, sep)[1]
  BY <1>1, JoinByJoined
<1> QED
  BY <1>1, <1>2, <1>3 DEF Longer, one

(* Joining one more part.                                                  *)
LEMMA JoinMore ==
    ASSUME NEW B, NEW sep \in B, NEW a \in Pieces(B), NEW p \in Seq(B)
    PROVE  Join(Append(a, p), sep) = Join(a, sep) \o <<sep>> \o p
<1> DEFINE b == Append(a, p)
           n == Len(a)
<1>1. /\ b \in Seq(Seq(B)) /\ a \in Seq(Seq(B)) /\ n \in Nat /\ n >= 1 /\ Len(b) = n + 1
      /\ b[n + 1] = p /\ \A i \in 1..n : a[i] = b[i]
  BY DEF Pieces
<1> HIDE DEF b, n
<1>2. JoinedAt(a, sep)[n] = JoinedAt(b, sep)[n]
  <2>1. n \in 0..Len(a) /\ n <= Len(b)
    BY <1>1 DEF n
  <2> QED
    BY <1>1, <2>1, JoinedAgree
<1>3. n + 1 \in 1..Len(b) /\ n + 1 # 1 /\ (n + 1) - 1 = n
  BY <1>1
<1>4. JoinedAt(b, sep)[n + 1] = JoinedAt(b, sep)[n] \o <<sep>> \o p
  <2>1. JoinedAt(b, sep)[n + 1] = Longer(n + 1, JoinedAt(b, sep)[n], p, sep)
    BY <1>1, <1>3, JoinedSteps
  <2> QED
    BY <1>3, <2>1 DEF Longer
<1>5. Join(b, sep) = JoinedAt(b, sep)[n + 1] /\ Join(a, sep) = JoinedAt(a, sep)[n]
  BY <1>1, JoinByJoined DEF n
<1> QED
  BY <1>2, <1>4, <1>5 DEF b

(* A joined text.                                                          *)
LEMMA JoinIsText ==
    ASSUME NEW B, NEW sep \in B, NEW a \in Seq(Seq(B))
    PROVE  Join(a, sep) \in Seq(B)
<1>1. Len(a) \in 0..Len(a)
  OBVIOUS
<1> QED
  BY <1>1, JoinedSteps, JoinByJoined

-----------------------------------------------------------------------------
(***************************************************************************)
(* Split and Join undo each other: what Split returns joins to its text,   *)
(* and parts without the separator are what Split makes of their text.     *)
(***************************************************************************)

(* No part has a separator in it.                                          *)
Separated(parts, sep) == \A k \in 1..Len(parts) : \A j \in 1..Len(parts[k]) : parts[k][j] # sep

(* Parts of which one has a byte more at its end.                          *)
LastGrows(a, b, byte) ==
    /\ Len(b) = Len(a) /\ b[Len(a)] = Append(a[Len(a)], byte)
    /\ \A i \in 1..(Len(a) - 1) : a[i] = b[i]

(* A byte put after the last part.                                         *)
LEMMA JoinLonger ==
    ASSUME NEW B, NEW sep \in B, NEW a \in Pieces(B), NEW byte \in B,
           NEW b \in Seq(Seq(B)), LastGrows(a, b, byte)
    PROVE  Join(b, sep) = Append(Join(a, sep), byte)
<1> DEFINE n == Len(a)
           last == Append(a[n], byte)
<1>1. a \in Seq(Seq(B)) /\ n \in Nat /\ n >= 1 /\ a[n] \in Seq(B) /\ last \in Seq(B)
  BY DEF Pieces
<1>2. Len(a) = n /\ Len(b) = n /\ b[n] = last /\ \A i \in 1..(n - 1) : a[i] = b[i]
  BY DEF LastGrows
<1> HIDE DEF n, last
<1> DEFINE J == JoinedAt(a, sep)
           K == JoinedAt(b, sep)
           m == n - 1
<1>3. m \in 0..Len(a) /\ m <= Len(b) /\ n \in 1..Len(a) /\ n \in 1..Len(b)
  BY <1>1, <1>2
<1> HIDE DEF m
<1>4. J[m] = K[m]
  <2>1. \A i \in 1..m : a[i] = b[i]
    BY <1>2 DEF m
  <2> QED
    BY <1>1, <1>3, <2>1, JoinedAgree
<1>5. J[m] \in Seq(B) /\ J[n] = Longer(n, J[m], a[n], sep)
  <2>1. /\ \A i \in 1..Len(a) : J[i] = Longer(i, J[i - 1], a[i], sep)
        /\ \A i \in 0..Len(a) : J[i] \in Seq(B)
    BY <1>1, JoinedSteps
  <2> QED
    BY <1>3, <2>1 DEF m
<1>6. K[n] = Longer(n, K[m], last, sep)
  <2>1. \A i \in 1..Len(b) : K[i] = Longer(i, K[i - 1], b[i], sep)
    BY JoinedSteps
  <2> QED
    BY <1>2, <1>3, <2>1 DEF m
<1>7. Join(a, sep) = J[n] /\ Join(b, sep) = K[n]
  BY <1>2, JoinByJoined
<1> HIDE DEF J, K
<1>8. CASE n = 1
  BY <1>5, <1>6, <1>7, <1>8 DEF Longer, last
<1>9. CASE n # 1
  <2> DEFINE u == J[m] \o <<sep>>
             w == a[n]
  <2>1. u \in Seq(B)
    BY <1>5
  <2>2. J[n] = u \o a[n] /\ K[n] = u \o last
    BY <1>4, <1>5, <1>6, <1>9 DEF Longer
  <2>3. w \in Seq(B) /\ last = Append(w, byte)
    BY <1>1 DEF last
  <2> HIDE DEF u, w
  <2>4. u \o Append(w, byte) = Append(u \o w, byte)
    BY <2>1, <2>3
  <2> QED
    BY <1>7, <2>2, <2>3, <2>4 DEF w
<1> QED
  BY <1>8, <1>9

(* One step of Split adds one byte to what the parts amount to.            *)
LEMMA GrownMeaning ==
    ASSUME NEW B, NEW sep \in B, NEW a \in Pieces(B), Separated(a, sep), NEW byte \in B,
           NEW b, b = Grown(a, byte, sep)
    PROVE  Separated(b, sep) /\ Join(b, sep) = Append(Join(a, sep), byte)
<1>1. a \in Seq(Seq(B)) /\ Len(a) \in Nat /\ Len(a) >= 1 /\ Join(a, sep) \in Seq(B)
  BY JoinIsText DEF Pieces
<1>2. CASE byte = sep
  <2>1. b = Append(a, <<>>) /\ <<>> \in Seq(B)
    BY <1>2 DEF Grown
  <2>2. Join(b, sep) = Join(a, sep) \o <<sep>> \o <<>>
    BY <2>1, JoinMore
  <2>3. Join(b, sep) = Append(Join(a, sep), sep)
    BY <1>1, <2>2
  <2>4. Separated(b, sep)
    <3>1. Len(b) = Len(a) + 1 /\ b[Len(a) + 1] = <<>> /\ \A k \in 1..Len(a) : b[k] = a[k]
      BY <1>1, <2>1
    <3>2. ASSUME NEW k \in 1..Len(b), NEW j \in 1..Len(b[k]) PROVE b[k][j] # sep
      <4>1. CASE k \in 1..Len(a)
        <5>1. b[k] = a[k] /\ j \in 1..Len(a[k])
          BY <3>1, <4>1
        <5> QED
          BY <4>1, <5>1 DEF Separated
      <4>2. CASE k = Len(a) + 1
        BY <3>1, <4>2
      <4> QED
        BY <1>1, <3>1, <4>1, <4>2
    <3> QED
      BY <3>2 DEF Separated
  <2> QED
    BY <1>2, <2>3, <2>4
<1>3. CASE byte # sep
  <2>1. b = [a EXCEPT ![Len(a)] = Append(@, byte)]
    BY <1>3 DEF Grown
  <2>2. Join(b, sep) = Append(Join(a, sep), byte)
    <3>1. a[Len(a)] \in Seq(B) /\ Append(a[Len(a)], byte) \in Seq(B)
      BY <1>1
    <3>2. LastGrows(a, b, byte) /\ b \in Seq(Seq(B))
      BY <1>1, <2>1, <3>1 DEF LastGrows
    <3> QED
      BY <3>2, JoinLonger
  <2>3. Separated(b, sep)
    <3> DEFINE n == Len(a)
               old == a[n]
               last == Append(old, byte)
    <3>1. old \in Seq(B) /\ \A j \in 1..Len(old) : old[j] # sep
      BY <1>1 DEF Separated
    <3>2. \A j \in 1..Len(last) : last[j] # sep
      <4> HIDE DEF old
      <4>1. Len(last) = Len(old) + 1 /\ Len(old) \in Nat /\ last[Len(old) + 1] = byte
            /\ \A j \in 1..Len(old) : last[j] = old[j]
        BY <3>1
      <4> HIDE DEF last
      <4> QED
        BY <1>3, <3>1, <4>1
    <3>3. Len(b) = n /\ b[n] = last /\ \A k \in 1..n : k # n => b[k] = a[k]
      BY <1>1, <2>1
    <3> HIDE DEF last, n
    <3> QED
      BY <3>2, <3>3 DEF Separated, n
  <2> QED
    BY <2>2, <2>3
<1> QED
  BY <1>2, <1>3

(* Split cuts a text at each separator.                                    *)
LEMMA SplitMeaning ==
    ASSUME NEW B, NEW sep \in B, NEW text \in Seq(B), NEW S, S = Split(text, sep)
    PROVE  S \in Pieces(B) /\ Separated(S, sep) /\ Join(S, sep) = text
<1> DEFINE P == PartsAt(text, sep)
           n == Len(text)
<1>1. /\ P[0] = << <<>> >>
      /\ \A i \in 1..n : P[i] = Grown(P[i - 1], text[i], sep)
      /\ \A i \in 0..n : P[i] \in Pieces(B)
  BY PartsSteps
<1>2. S = P[n] /\ n \in Nat /\ \A i \in 1..n : text[i] \in B
  BY SplitByParts
<1> HIDE DEF P, n
<1> DEFINE Done(i) == Separated(P[i], sep) /\ Join(P[i], sep) = SubSeq(text, 1, i)
           Good == {i \in Nat : i <= n => Done(i)}
<1>3. 0 \in Good
  <2>1. <<>> \in Seq(B)
    OBVIOUS
  <2>2. Join(<< <<>> >>, sep) = <<>>
    BY <2>1, JoinOne
  <2>3. Separated(<< <<>> >>, sep)
    BY DEF Separated
  <2>4. SubSeq(text, 1, 0) = <<>>
    OBVIOUS
  <2> QED
    BY <1>1, <2>2, <2>3, <2>4
<1>4. ASSUME NEW i \in Nat, i \in Good PROVE i + 1 \in Good
  <2> SUFFICES ASSUME i + 1 <= n PROVE Done(i + 1)
    OBVIOUS
  <2>1. i + 1 \in 1..n /\ (i + 1) - 1 = i /\ i \in 0..n /\ Done(i)
    BY <1>2, <1>4
  <2>2. P[i + 1] = Grown(P[i], text[i + 1], sep) /\ P[i] \in Pieces(B) /\ text[i + 1] \in B
    BY <1>1, <1>2, <2>1
  <2>3. Separated(P[i + 1], sep) /\ Join(P[i + 1], sep) = Append(Join(P[i], sep), text[i + 1])
    <3> DEFINE a == P[i]
               byte == text[i + 1]
               b == P[i + 1]
    <3>1. a \in Pieces(B) /\ byte \in B /\ b = Grown(a, byte, sep) /\ Separated(a, sep)
      BY <2>1, <2>2
    <3> HIDE DEF a, byte, b
    <3>2. Separated(b, sep) /\ Join(b, sep) = Append(Join(a, sep), byte)
      BY <3>1, GrownMeaning
    <3> QED
      BY <3>2 DEF a, byte, b
  <2>4. SubSeq(text, 1, i + 1) = Append(SubSeq(text, 1, i), text[i + 1])
    BY <2>1 DEF n
  <2> QED
    BY <2>1, <2>3, <2>4
<1> HIDE DEF Good
<1>5. \A i \in Nat : i \in Good
  BY <1>3, <1>4, Induction
<1>6. Done(n)
  BY <1>2, <1>5 DEF Good
<1>7. SubSeq(text, 1, n) = text
  BY DEF n
<1>8. n \in 0..n
  BY <1>2
<1> QED
  BY <1>1, <1>2, <1>6, <1>7, <1>8

(* A text without a separator.                                             *)
Unbroken(text, sep) == \A j \in 1..Len(text) : text[j] # sep

(* Two texts with a separator between them.                                *)
Around(u, sep, x) == u \o <<sep>> \o x

(* What is where in them.                                                  *)
LaidOut(t, u, sep, x) ==
    /\ Len(t) = Len(u) + 1 + Len(x) /\ t[Len(u) + 1] = sep
    /\ \A i \in 1..Len(u) : t[i] = u[i]
    /\ \A i \in 1..Len(x) : t[Len(u) + 1 + i] = x[i]

(* It is what is there.                                                    *)
LEMMA AroundMeaning ==
    ASSUME NEW B, NEW sep \in B, NEW u \in Seq(B), NEW x \in Seq(B)
    PROVE  LaidOut(Around(u, sep, x), u, sep, x)
BY DEF Around, LaidOut

(* Sequences of one length that agree everywhere are equal.                *)
LEMMA SameSeq ==
    ASSUME NEW B, NEW s \in Seq(B), NEW t \in Seq(B), Len(s) = Len(t),
           \A i \in 1..Len(s) : s[i] = t[i]
    PROVE  s = t
OBVIOUS

(* Pieces are one text or more.                                            *)
LEMMA PiecesMeaning ==
    ASSUME NEW B, NEW a \in Pieces(B)
    PROVE  a \in Seq(Seq(B)) /\ Len(a) \in Nat /\ Len(a) >= 1
BY DEF Pieces

(* The other way round.                                                    *)
LEMMA ArePieces ==
    ASSUME NEW B, NEW a \in Seq(Seq(B)), Len(a) >= 1
    PROVE  a \in Pieces(B)
BY DEF Pieces

(* A text is cut at its last separator in one way only.                    *)
LEMMA LastCut ==
    ASSUME NEW B, NEW sep \in B, NEW u \in Seq(B), NEW x \in Seq(B), NEW v \in Seq(B),
           NEW y \in Seq(B), Unbroken(x, sep), Unbroken(y, sep),
           Around(u, sep, x) = Around(v, sep, y)
    PROVE  u = v /\ x = y
<1> DEFINE t == Around(u, sep, x)
           m == Len(u)
           n == Len(v)
           k == Len(x)
           l == Len(y)
<1>1. /\ Len(t) = m + 1 + k /\ t[m + 1] = sep
      /\ \A i \in 1..m : t[i] = u[i]
      /\ \A i \in 1..k : t[m + 1 + i] = x[i]
  <2>1. LaidOut(t, u, sep, x)
    BY AroundMeaning
  <2> HIDE DEF t
  <2> QED
    BY <2>1 DEF LaidOut
<1>2. /\ Len(t) = n + 1 + l /\ t[n + 1] = sep
      /\ \A i \in 1..n : t[i] = v[i]
      /\ \A i \in 1..l : t[n + 1 + i] = y[i]
  <2>1. LaidOut(t, v, sep, y)
    BY AroundMeaning
  <2> HIDE DEF t
  <2> QED
    BY <2>1 DEF LaidOut
<1>3. m \in Nat /\ n \in Nat /\ k \in Nat /\ l \in Nat
  OBVIOUS
<1>4. (\A i \in 1..k : x[i] # sep) /\ (\A i \in 1..l : y[i] # sep)
  BY DEF Unbroken
<1> HIDE DEF t, m, n, k, l
<1>5. ~(m < n)
  <2> SUFFICES ASSUME m < n PROVE FALSE
    OBVIOUS
  <2>1. n - m \in 1..k /\ m + 1 + (n - m) = n + 1
    BY <1>1, <1>2, <1>3
  <2> QED
    BY <1>1, <1>2, <1>4, <2>1
<1>6. ~(n < m)
  <2> SUFFICES ASSUME n < m PROVE FALSE
    OBVIOUS
  <2>1. m - n \in 1..l /\ n + 1 + (m - n) = m + 1
    BY <1>1, <1>2, <1>3
  <2> QED
    BY <1>1, <1>2, <1>4, <2>1
<1>7. m = n /\ k = l
  BY <1>1, <1>2, <1>3, <1>5, <1>6
<1>8. (\A i \in 1..m : u[i] = v[i]) /\ (\A i \in 1..k : x[i] = y[i])
  BY <1>1, <1>2, <1>7
<1> QED
  BY <1>7, <1>8, SameSeq DEF m, n, k, l

(* Two or more parts are some parts and a last one.                        *)
LEMMA LastPart ==
    ASSUME NEW B, NEW sep \in B, NEW a \in Pieces(B), Separated(a, sep), Len(a) # 1
    PROVE  \E c \in Pieces(B), x \in Seq(B) :
              /\ a = Append(c, x) /\ Len(a) = Len(c) + 1
              /\ Separated(c, sep) /\ Unbroken(x, sep)
<1> DEFINE n == Len(a)
           c == SubSeq(a, 1, n - 1)
           x == a[n]
<1>1. a \in Seq(Seq(B)) /\ n \in Nat /\ n >= 2
  <2>1. a \in Seq(Seq(B)) /\ n \in Nat /\ n >= 1 /\ n # 1
    BY PiecesMeaning
  <2> HIDE DEF n
  <2> QED
    BY <2>1
<1>2. n - 1 \in Nat /\ n - 1 >= 1 /\ n \in 1..n /\ x \in Seq(B)
  BY <1>1
<1>3. c \in Seq(Seq(B)) /\ Len(c) = n - 1 /\ \A i \in 1..(n - 1) : c[i] = a[i]
  BY <1>1, <1>2
<1>4. a = Append(c, x)
  BY <1>1, <1>2, <1>3
<1> HIDE DEF c, n
<1>5. Separated(c, sep) /\ Unbroken(x, sep)
  <2>1. \A i \in 1..n : Unbroken(a[i], sep)
    BY DEF Separated, Unbroken, n
  <2>2. ASSUME NEW i \in 1..Len(c) PROVE Unbroken(c[i], sep)
    <3>1. i \in 1..(n - 1) /\ i \in 1..n
      BY <1>1, <1>3
    <3> QED
      BY <1>3, <2>1, <3>1
  <2>3. Separated(c, sep)
    BY <2>2 DEF Separated, Unbroken
  <2> QED
    BY <1>2, <2>1, <2>3
<1> HIDE DEF x
<1>6. c \in Pieces(B)
  BY <1>2, <1>3, ArePieces
<1>7. Len(a) = Len(c) + 1
  BY <1>1, <1>3 DEF n
<1> QED
  BY <1>2, <1>4, <1>5, <1>6, <1>7

(* One part is its own join; more parts leave a separator.                 *)
LEMMA JoinOfOne ==
    ASSUME NEW B, NEW sep \in B, NEW a \in Pieces(B), Separated(a, sep), Len(a) = 1
    PROVE  a = <<Join(a, sep)>> /\ Unbroken(Join(a, sep), sep)
<1> DEFINE p == a[1]
<1>1. a \in Seq(Seq(B)) /\ p \in Seq(B) /\ a = <<p>>
  BY DEF Pieces
<1>2. Unbroken(p, sep)
  BY DEF Separated, Unbroken
<1> HIDE DEF p
<1>3. Join(a, sep) = p
  BY <1>1, JoinOne
<1> QED
  BY <1>1, <1>2, <1>3

(* A text with a separator in it is broken.                                *)
LEMMA Broken ==
    ASSUME NEW B, NEW sep \in B, NEW u \in Seq(B), NEW x \in Seq(B)
    PROVE  ~Unbroken(Around(u, sep, x), sep)
<1> DEFINE t == Around(u, sep, x)
<1>1. Len(t) = Len(u) + 1 + Len(x) /\ t[Len(u) + 1] = sep /\ Len(u) \in Nat /\ Len(x) \in Nat
  <2>1. LaidOut(t, u, sep, x)
    BY AroundMeaning
  <2> HIDE DEF t
  <2> QED
    BY <2>1 DEF LaidOut
<1> HIDE DEF t
<1>2. Len(u) + 1 \in 1..Len(t)
  BY <1>1
<1>3. ~Unbroken(t, sep)
  BY <1>1, <1>2 DEF Unbroken
<1> QED
  BY <1>3 DEF t

(* More than one part give a broken text.                                  *)
LEMMA JoinOfMore ==
    ASSUME NEW B, NEW sep \in B, NEW a \in Pieces(B), Separated(a, sep), Len(a) # 1
    PROVE  ~Unbroken(Join(a, sep), sep)
<1>1. PICK f \in Pieces(B), y \in Seq(B) : a = Append(f, y)
  BY LastPart
<1>2. Join(a, sep) = Around(Join(f, sep), sep, y) /\ Join(f, sep) \in Seq(B)
  BY <1>1, JoinMore, JoinIsText, PiecesMeaning DEF Around
<1> QED
  BY <1>2, Broken

(* Different parts give different texts.                                   *)
LEMMA JoinIsUnique ==
    ASSUME NEW B, NEW sep \in B, NEW a \in Pieces(B), NEW b \in Pieces(B),
           Separated(a, sep), Separated(b, sep), Join(a, sep) = Join(b, sep)
    PROVE  a = b
<1> DEFINE Same(c, d) == Separated(c, sep) /\ Separated(d, sep) /\ Join(c, sep) = Join(d, sep)
           Good == {n \in Nat : \A c, d \in Pieces(B) : Len(c) = n /\ Same(c, d) => c = d}
<1>1. 0 \in Good
  <2>1. \A c \in Pieces(B) : Len(c) # 0
    BY PiecesMeaning
  <2> QED
    BY <2>1
<1>2. ASSUME NEW n \in Nat, n \in Good PROVE n + 1 \in Good
  <2> SUFFICES ASSUME NEW c \in Pieces(B), NEW d \in Pieces(B), Len(c) = n + 1, Same(c, d)
               PROVE  c = d
    OBVIOUS
  <2>1. CASE Len(c) = 1 /\ Len(d) = 1
    BY <2>1, JoinOfOne
  <2>2. ~(Len(c) = 1 /\ Len(d) # 1)
    BY JoinOfOne, JoinOfMore
  <2>3. ~(Len(c) # 1 /\ Len(d) = 1)
    BY JoinOfOne, JoinOfMore
  <2>4. CASE Len(c) # 1 /\ Len(d) # 1
    <3>1. PICK e \in Pieces(B), x \in Seq(B) :
             c = Append(e, x) /\ Len(c) = Len(e) + 1 /\ Separated(e, sep) /\ Unbroken(x, sep)
      BY <2>4, LastPart
    <3>2. PICK f \in Pieces(B), y \in Seq(B) :
             d = Append(f, y) /\ Len(d) = Len(f) + 1 /\ Separated(f, sep) /\ Unbroken(y, sep)
      BY <2>4, LastPart
    <3>3. /\ Join(c, sep) = Around(Join(e, sep), sep, x) /\ Join(e, sep) \in Seq(B)
          /\ Join(d, sep) = Around(Join(f, sep), sep, y) /\ Join(f, sep) \in Seq(B)
      BY <3>1, <3>2, JoinMore, JoinIsText, PiecesMeaning DEF Around
    <3>4. Join(e, sep) = Join(f, sep) /\ x = y
      <4> DEFINE u == Join(e, sep)
                 v == Join(f, sep)
      <4>1. u \in Seq(B) /\ v \in Seq(B) /\ Around(u, sep, x) = Around(v, sep, y)
        BY <3>3
      <4> HIDE DEF u, v
      <4>2. u = v /\ x = y
        BY <3>1, <3>2, <4>1, LastCut
      <4> QED
        BY <4>2 DEF u, v
    <3>5. Len(e) = n
      <4>1. Len(e) \in Nat
        BY PiecesMeaning
      <4> QED
        BY <3>1, <4>1
    <3>6. e = f
      BY <1>2, <3>1, <3>2, <3>4, <3>5
    <3> QED
      BY <3>1, <3>2, <3>4, <3>6
  <2> QED
    BY <2>1, <2>2, <2>3, <2>4
<1> HIDE DEF Good
<1>3. \A n \in Nat : n \in Good
  BY <1>1, <1>2, Induction
<1>4. Len(a) \in Nat
  BY PiecesMeaning
<1> QED
  BY <1>3, <1>4 DEF Good

(* Split undoes Join.                                                      *)
LEMMA SplitOfJoin ==
    ASSUME NEW B, NEW sep \in B, NEW a \in Pieces(B), Separated(a, sep)
    PROVE  Split(Join(a, sep), sep) = a
<1> DEFINE t == Join(a, sep)
           s == Split(t, sep)
<1>1. t \in Seq(B)
  BY JoinIsText DEF Pieces
<1> HIDE DEF t
<1>2. s \in Pieces(B) /\ Separated(s, sep) /\ Join(s, sep) = t
  BY <1>1, SplitMeaning
<1> HIDE DEF s
<1>3. s = a
  BY <1>2, JoinIsUnique DEF t
<1> QED
  BY <1>3 DEF s, t

-----------------------------------------------------------------------------
(***************************************************************************)
(* The text of a host, and where it ends.                                  *)
(***************************************************************************)

(* Bytes of a host's text.                                                 *)
HostBytes == Bytes \ {Slash}

(* The labels of a host, in either direction.                              *)
IsHost(labels) ==
    /\ labels \in Pieces(HostBytes) /\ Separated(labels, Dot)
    /\ \A i \in 1..Len(labels) : labels[i] # <<>>

(* A text that is a host's.                                                *)
IsHostText(text) ==
    text \in Seq(HostBytes) /\ text # <<>> /\ Last(text) # Dot

(* The dot is a byte of a host's text.                                     *)
LEMMA DotInHost == Dot \in HostBytes /\ HostBytes \subseteq Bytes
BY TextAssumption DEF HostBytes, Bytes

(* Labels of a link are a host.                                            *)
LEMMA LabelsAreHost ==
    ASSUME NEW labels \in Seq(HostLabels) \ {<<>>}
    PROVE  IsHost(labels)
<1>1. ASSUME NEW s \in HostLabels
      PROVE  s \in Seq(HostBytes) /\ s # <<>> /\ Unbroken(s, Dot)
  <2>1. s \in Seq(Bytes \ {Dot, Slash}) /\ Len(s) \in 1..LabelMax
    BY DEF HostLabels
  <2>2. s \in Seq(HostBytes)
    BY <2>1 DEF HostBytes
  <2>3. s # <<>>
    BY <2>1, TextAssumption
  <2>4. Unbroken(s, Dot)
    BY <2>1 DEF Unbroken
  <2> QED
    BY <2>2, <2>3, <2>4
<1>2. \A i \in 1..Len(labels) : labels[i] \in HostLabels
  OBVIOUS
<1>3. labels \in Seq(Seq(HostBytes)) /\ labels # <<>>
  <2>1. HostLabels \subseteq Seq(HostBytes)
    BY <1>1
  <2> QED
    BY <2>1
<1>4. Separated(labels, Dot)
  BY <1>1, <1>2 DEF Separated, Unbroken
<1> QED
  BY <1>1, <1>2, <1>3, <1>4 DEF IsHost, Pieces

(* A host's labels reversed are a host's.                                  *)
LEMMA ReverseIsHost ==
    ASSUME NEW labels, IsHost(labels)
    PROVE  IsHost(Reverse(labels))
<1> DEFINE n == Len(labels)
           r == Reverse(labels)
<1>1. labels \in Seq(Seq(HostBytes)) /\ n \in Nat /\ n >= 1
  BY PiecesMeaning DEF IsHost
<1>2. \A i \in 1..n : (n - i) + 1 \in 1..n
  BY <1>1
<1>3. r = [i \in 1..n |-> labels[(n - i) + 1]]
  BY DEF Reverse
<1>4. r \in Seq(Seq(HostBytes)) /\ Len(r) = n /\ \A i \in 1..n : r[i] = labels[(n - i) + 1]
  BY <1>1, <1>2, <1>3
<1> HIDE DEF r, n
<1>5. r \in Pieces(HostBytes)
  BY <1>1, <1>4, ArePieces
<1>6. Separated(r, Dot)
  BY <1>2, <1>4 DEF Separated, IsHost, n
<1>7. \A i \in 1..Len(r) : r[i] # <<>>
  BY <1>2, <1>4 DEF IsHost, n
<1>8. IsHost(r)
  BY <1>5, <1>6, <1>7 DEF IsHost
<1> QED
  BY <1>8 DEF r

(* The text of a host.                                                     *)
LEMMA HostText ==
    ASSUME NEW labels, IsHost(labels)
    PROVE  IsHostText(Join(labels, Dot)) /\ Split(Join(labels, Dot), Dot) = labels
<1> DEFINE B == HostBytes
           n == Len(labels)
           t == Join(labels, Dot)
<1>1. /\ labels \in Pieces(B) /\ labels \in Seq(Seq(B)) /\ n \in Nat /\ n >= 1
      /\ Separated(labels, Dot)
  BY PiecesMeaning DEF IsHost
<1>2. t \in Seq(B) /\ Split(t, Dot) = labels
  BY <1>1, DotInHost, JoinIsText, SplitOfJoin
<1> DEFINE x == labels[n]
<1>3. x \in Seq(B) /\ x # <<>> /\ x[Len(x)] # Dot
  <2>1. n \in 1..n
    BY <1>1
  <2>2. x \in Seq(B) /\ x # <<>>
    BY <1>1, <2>1 DEF IsHost
  <2>3. Len(x) \in 1..Len(x)
    BY <2>2
  <2> QED
    BY <1>1, <2>1, <2>2, <2>3 DEF Separated
<1>4. CASE n = 1
  <2>1. labels = <<x>>
    BY <1>1, <1>4
  <2> HIDE DEF x
  <2>2. t = x
    BY <1>3, <2>1, DotInHost, JoinOne
  <2> HIDE DEF t
  <2> QED
    BY <1>2, <1>3, <2>2 DEF IsHostText, Last, t
<1>5. CASE n # 1
  <2>1. PICK c \in Pieces(B), y \in Seq(B) : labels = Append(c, y) /\ Len(labels) = Len(c) + 1
    BY <1>1, <1>5, DotInHost, LastPart
  <2>2. y = x
    BY <1>1, <2>1, PiecesMeaning
  <2> HIDE DEF x
  <2>3. t = Around(Join(c, Dot), Dot, x) /\ Join(c, Dot) \in Seq(B)
    BY <2>1, <2>2, DotInHost, JoinMore, JoinIsText, PiecesMeaning DEF Around
  <2>4. LaidOut(t, Join(c, Dot), Dot, x)
    BY <1>3, <2>3, DotInHost, AroundMeaning
  <2> DEFINE k == Len(Join(c, Dot))
             m == Len(x)
  <2>5. k \in Nat /\ m \in Nat /\ m >= 1
    BY <1>3, <2>3
  <2>6. Len(t) = k + 1 + m /\ \A i \in 1..m : t[k + 1 + i] = x[i]
    BY <2>4 DEF LaidOut
  <2> HIDE DEF k
  <2>7. Last(t) = x[m]
    <3>1. m \in 1..m
      BY <2>5
    <3> QED
      BY <2>6, <3>1 DEF Last
  <2>8. t # <<>>
    BY <1>2, <2>5, <2>6
  <2> HIDE DEF t
  <2> QED
    BY <1>2, <1>3, <2>7, <2>8 DEF IsHostText, t
<1> QED
  BY <1>4, <1>5

(* Where the first slash is.                                               *)
FirstSlash(text) == SelectInSeq(text, LAMBDA b : b = Slash)

(* A path, or nothing.                                                     *)
Paths == {w \in Text : w # <<>> /\ w[1] = Slash}

(* A text with a host and a path, or nothing, after it.                    *)
LEMMA HostConcat ==
    ASSUME NEW h \in Seq(HostBytes), NEW w \in Text
    PROVE  /\ h \o w \in Text /\ Len(h \o w) = Len(h) + Len(w)
           /\ \A i \in 1..Len(h) : (h \o w)[i] = h[i] /\ h[i] # Slash
           /\ \A i \in 1..Len(w) : (h \o w)[Len(h) + i] = w[i]
<1>1. h \in Seq(Bytes) /\ \A i \in 1..Len(h) : h[i] # Slash
  BY DEF HostBytes
<1> QED
  BY <1>1 DEF Text

(* The first slash of a key is where the path starts.                      *)
LEMMA FirstSlashMeaning ==
    ASSUME NEW h \in Seq(HostBytes), NEW w \in Text, w = <<>> \/ w[1] = Slash
    PROVE  FirstSlash(h \o w) = IF w = <<>> THEN 0 ELSE Len(h) + 1
<1> DEFINE t == h \o w
           m == Len(h)
           n == Len(w)
           I == {i \in 1..Len(t) : t[i] = Slash}
<1>1. /\ Len(t) = m + n /\ m \in Nat /\ n \in Nat
      /\ \A i \in 1..m : t[i] # Slash
      /\ \A i \in 1..n : t[m + i] = w[i]
  BY HostConcat DEF Text
<1>2. FirstSlash(t) = IF I # {} THEN CHOOSE x \in I : \A y \in I : x <= y ELSE 0
  BY DEF FirstSlash, SelectInSeq, Min
<1> HIDE DEF t
<1>3. CASE w = <<>>
  <2>1. n = 0
    BY <1>3
  <2> HIDE DEF m, n
  <2>2. I = {}
    BY <1>1, <2>1
  <2> QED
    BY <1>2, <1>3, <2>2 DEF t
<1>4. CASE w # <<>>
  <2>1. n >= 1 /\ w[1] = Slash
    BY <1>1, <1>4 DEF Text
  <2> HIDE DEF m, n
  <2>2. m + 1 \in I
    BY <1>1, <2>1
  <2>3. \A y \in I : m + 1 <= y
    BY <1>1
  <2>4. \A x \in I : (\A y \in I : x <= y) => x = m + 1
    BY <1>1, <2>2, <2>3
  <2> HIDE DEF I
  <2>5. (CHOOSE x \in I : \A y \in I : x <= y) = m + 1
    BY <2>2, <2>3, <2>4
  <2> QED
    BY <1>2, <1>4, <2>2, <2>5 DEF t, m
<1> QED
  BY <1>3, <1>4

-----------------------------------------------------------------------------
(***************************************************************************)
(* Keys.                                                                   *)
(***************************************************************************)

(* What may follow a host in a key.                                        *)
IsRest(w) == w \in Text /\ (w = <<>> \/ w[1] = Slash)

(* The first part of a concatenation, and the rest.                        *)
LEMMA ConcatParts ==
    ASSUME NEW h \in Seq(HostBytes), NEW w \in Text
    PROVE  /\ SubSeq(h \o w, 1, (Len(h) + 1) - 1) = h
           /\ SubSeq(h \o w, Len(h) + 1, Len(h \o w)) = w
           /\ SubSeq(h \o w, (Len(h) + 1) + 1, Len(h \o w)) = SubSeq(w, 2, Len(w))
           /\ h \in Text
<1>1. h \in Seq(Bytes) /\ w \in Seq(Bytes)
  BY DEF HostBytes, Text
<1>2. SubSeq(h \o w, 1, (Len(h) + 1) - 1) = h
  BY <1>1
<1>3. SubSeq(h \o w, Len(h) + 1, Len(h \o w)) = w
  BY <1>1
<1>4. SubSeq(h \o w, (Len(h) + 1) + 1, Len(h \o w)) = SubSeq(w, 2, Len(w))
  BY <1>1
<1> QED
  BY <1>1, <1>2, <1>3, <1>4 DEF Text

(* Parsing a host's text with what follows it.                             *)
LEMMA FromTextMeaning ==
    ASSUME NEW labels, IsHost(labels), NEW w, IsRest(w)
    PROVE  FromText(Join(labels, Dot) \o w)
              = [host |-> labels, path |-> IF w = <<>> THEN <<Slash>> ELSE w]
<1> DEFINE h == Join(labels, Dot)
           t == h \o w
           slash == FirstSlash(t)
           host == IF slash = 0 THEN t ELSE SubSeq(t, 1, slash - 1)
           path == IF slash = 0 THEN <<Slash>> ELSE SubSeq(t, slash, Len(t))
<1>1. IsHostText(h) /\ Split(h, Dot) = labels
  BY HostText
<1>2. h \in Seq(HostBytes) /\ h # <<>> /\ Last(h) # Dot /\ w \in Text
  BY <1>1 DEF IsHostText, IsRest
<1> HIDE DEF h
<1>3. slash = IF w = <<>> THEN 0 ELSE Len(h) + 1
  BY <1>2, FirstSlashMeaning DEF IsRest
<1>4. /\ SubSeq(t, 1, (Len(h) + 1) - 1) = h /\ SubSeq(t, Len(h) + 1, Len(t)) = w
      /\ h \in Text
  BY <1>2, ConcatParts
<1>5. w = <<>> => t = h
  BY <1>2, <1>4 DEF Text
<1>6. Len(h) + 1 # 0
  BY <1>2
<1> HIDE DEF t
<1>7. host = h /\ path = IF w = <<>> THEN <<Slash>> ELSE w
  <2>1. CASE w = <<>>
    BY <2>1, <1>3, <1>5
  <2>2. CASE w # <<>>
    BY <2>2, <1>3, <1>4, <1>6
  <2> QED
    BY <2>1, <2>2
<1>8. <<>> \notin ToSet(labels)
  <2>1. labels \in Seq(Seq(HostBytes)) /\ \A i \in 1..Len(labels) : labels[i] # <<>>
    BY PiecesMeaning DEF IsHost
  <2>2. DOMAIN labels = 1..Len(labels)
    BY <2>1
  <2>3. ToSet(labels) = {labels[i] : i \in 1..Len(labels)}
    BY <2>2 DEF ToSet
  <2> QED
    BY <2>1, <2>3
<1>9. FromText(t) =
         LET ls == Split(IF host # <<>> /\ Last(host) = Dot THEN Front(host) ELSE host, Dot)
         IN  IF <<>> \in ToSet(ls) THEN None ELSE [host |-> ls, path |-> path]
  BY DEF FromText, FirstSlash
<1> HIDE DEF host, path
<1>10. (IF host # <<>> /\ Last(host) = Dot THEN Front(host) ELSE host) = h
  BY <1>2, <1>7
<1>11. FromText(t) = [host |-> labels, path |-> path]
  BY <1>1, <1>8, <1>9, <1>10
<1> QED
  BY <1>7, <1>11 DEF t, h

(* A path, and the path without its last slash.                            *)
LEMMA DropMeaning ==
    ASSUME NEW h \in Seq(HostBytes), NEW p \in Paths
    PROVE  /\ DropLastSlash(h \o p) = h \o DropLastSlash(p)
           /\ IsRest(DropLastSlash(p))
           /\ Last(p) # Slash => DropLastSlash(p) = p
           /\ DropLastSlash(p) = <<>> <=> p = <<Slash>>
<1> DEFINE n == Len(p)
           t == h \o p
<1>1. p \in Seq(Bytes) /\ n \in Nat /\ n >= 1 /\ p[1] = Slash /\ h \in Seq(Bytes)
  BY DEF Paths, Text, HostBytes
<1>2. /\ t \in Seq(Bytes) /\ Len(t) = Len(h) + n /\ Len(h) \in Nat
      /\ t[Len(h) + n] = p[n]
  BY <1>1
<1>3. Last(t) = Last(p) /\ t # <<>> /\ p # <<>>
  BY <1>1, <1>2 DEF Last
<1>4. CASE Last(p) = Slash
  <2>1. DropLastSlash(p) = SubSeq(p, 1, n - 1) /\ DropLastSlash(t) = SubSeq(t, 1, Len(t) - 1)
    BY <1>3, <1>4 DEF DropLastSlash, Front
  <2>2. SubSeq(t, 1, Len(t) - 1) = h \o SubSeq(p, 1, n - 1)
    BY <1>1, <1>2
  <2> DEFINE k == n - 1
             q == SubSeq(p, 1, k)
  <2>3. k \in Nat /\ k <= n /\ (n = 1 <=> k = 0)
    BY <1>1
  <2> HIDE DEF k
  <2>4. q \in Seq(Bytes) /\ Len(q) = k /\ \A i \in 1..k : q[i] = p[i]
    BY <1>1, <2>3
  <2> HIDE DEF q
  <2>5. (q = <<>> <=> n = 1) /\ IsRest(q)
    BY <1>1, <2>3, <2>4 DEF IsRest, Text
  <2>6. n = 1 <=> p = <<Slash>>
    BY <1>1
  <2> QED
    BY <1>4, <2>1, <2>2, <2>5, <2>6 DEF k, q
<1>5. CASE Last(p) # Slash
  <2>1. DropLastSlash(p) = p /\ DropLastSlash(t) = t
    BY <1>3, <1>5 DEF DropLastSlash
  <2>2. p # <<Slash>>
    <3>1. Len(<<Slash>>) = 1 /\ <<Slash>>[1] = Slash
      OBVIOUS
    <3>2. Last(<<Slash>>) = Slash
      BY <3>1 DEF Last
    <3> QED
      BY <1>5, <3>2
  <2> QED
    BY <1>1, <1>3, <2>1, <2>2 DEF IsRest, Text
<1> QED
  BY <1>4, <1>5

(* The key of a link, and the link its key is parsed as.                   *)
LEMMA ToKeyMeaning ==
    ASSUME NEW l \in Links
    PROVE  /\ IsHost(l.host) /\ l.path \in Paths
           /\ ToKey(l) = Join(l.host, Dot) \o DropLastSlash(l.path)
<1>1. l.host \in Seq(HostLabels) \ {<<>>} /\ l.path \in Paths
  BY DEF Links, Paths
<1>2. IsHost(l.host) /\ Join(l.host, Dot) \in Seq(HostBytes)
  BY <1>1, LabelsAreHost, HostText DEF IsHostText
<1> QED
  BY <1>1, <1>2, DropMeaning DEF ToKey

(* The key of a link is that of the link without its last slash, and is    *)
(* parsed as a link with that key.                                         *)
THEOREM KeysAreStable == KeyIsStable(Links)
<1> SUFFICES ASSUME NEW l \in Links,
                    Last(l.path) # Slash \/ Len(l.path) = 1 \/ Last(Front(l.path)) # Slash
             PROVE  /\ ToKey(l) = ToKey([l EXCEPT !.path = DropLastSlash(@)])
                    /\ FromText(ToKey(l)) # None /\ ToKey(FromText(ToKey(l))) = ToKey(l)
  BY DEF KeyIsStable
<1> DEFINE h == Join(l.host, Dot)
           w == DropLastSlash(l.path)
           m == [host |-> l.host, path |-> IF w = <<>> THEN <<Slash>> ELSE w]
<1>1. IsHost(l.host) /\ l.path \in Paths /\ ToKey(l) = h \o w
  BY ToKeyMeaning
<1>2. h \in Seq(HostBytes) /\ h # <<>>
  BY <1>1, HostText DEF IsHostText
<1>3. IsRest(w) /\ (Last(l.path) # Slash => w = l.path) /\ (w = <<>> <=> l.path = <<Slash>>)
  BY <1>1, <1>2, DropMeaning
<1>4. FromText(h \o w) = m
  BY <1>1, <1>3, FromTextMeaning
<1>5. m \in Links
  <2>1. l.host \in Seq(HostLabels) \ {<<>>}
    BY DEF Links
  <2>2. <<Slash>> \in Paths
    BY TextAssumption DEF Paths, Text, Bytes
  <2>3. (IF w = <<>> THEN <<Slash>> ELSE w) \in Paths
    BY <1>3, <2>2 DEF IsRest, Paths
  <2> QED
    BY <2>1, <2>3 DEF Links, Paths
<1>6. w # <<>> => Last(w) # Slash
  <2>1. CASE Last(l.path) # Slash
    BY <1>3, <2>1
  <2>2. CASE Last(l.path) = Slash
    <3>1. w = Front(l.path)
      BY <1>1, <2>2 DEF DropLastSlash, Paths
    <3>2. CASE Len(l.path) = 1
      <4>1. l.path = <<Slash>>
        BY <1>1, <3>2 DEF Paths, Text
      <4> QED
        BY <1>3, <4>1
    <3>3. CASE Last(Front(l.path)) # Slash
      BY <3>1, <3>3
    <3> QED
      BY <2>2, <3>2, <3>3
  <2> QED
    BY <2>1, <2>2
<1>7. DropLastSlash(w) = w
  BY <1>6 DEF DropLastSlash
<1>8. DropLastSlash(h \o w) = h \o w
  <2>1. CASE w = <<>>
    <3>1. h \o w = h
      BY <1>2, <2>1
    <3>2. Last(h) # Slash
      BY <1>2 DEF Last, HostBytes
    <3> QED
      BY <3>1, <3>2 DEF DropLastSlash
  <2>2. CASE w # <<>>
    <3>1. w \in Paths
      BY <1>3, <2>2 DEF IsRest, Paths
    <3> QED
      BY <1>2, <1>7, <3>1, DropMeaning
  <2> QED
    BY <2>1, <2>2
<1>9. [l EXCEPT !.path = DropLastSlash(@)].host = l.host
      /\ [l EXCEPT !.path = DropLastSlash(@)].path = w
  BY DEF Links
<1>10. ToKey([l EXCEPT !.path = DropLastSlash(@)]) = h \o w
  BY <1>8, <1>9 DEF ToKey
<1>11. m # None
  BY <1>5, NoLinkAssumption
<1>12. ToKey(m) = h \o w
  <2>1. CASE w = <<>>
    <3>1. m.path = <<Slash>> /\ m.host = l.host
      BY <2>1
    <3>2. ToKey(m) = h \o DropLastSlash(<<Slash>>)
      BY <1>5, <3>1, ToKeyMeaning
    <3>3. DropLastSlash(<<Slash>>) = w
      BY <1>3, <2>1
    <3> QED
      BY <3>2, <3>3
  <2>2. CASE w # <<>>
    <3>1. m.path = w /\ m.host = l.host
      BY <2>2
    <3> QED
      BY <1>8, <3>1 DEF ToKey
  <2> QED
    BY <2>1, <2>2
<1> QED
  BY <1>1, <1>4, <1>10, <1>11, <1>12

-----------------------------------------------------------------------------
(***************************************************************************)
(* The labels of the segments of a path.                                   *)
(***************************************************************************)

(* Labels of a tree.                                                       *)
Labels == Seq(Bytes \cup {"h", "p", "x"})

(* A label with bytes of a segment.                                        *)
Marked(bytes) == <<"x">> \o bytes

(* A label with bytes of a segment tells them, and is none of the others.  *)
LEMMA MarkedMeaning ==
    ASSUME NEW s \in Text
    PROVE  /\ Marked(s) \in Labels /\ Marked(s)[1] = "x" /\ Len(Marked(s)) = Len(s) + 1
           /\ \A i \in 1..Len(s) : Marked(s)[i + 1] = s[i]
<1>1. s \in Seq(Bytes \cup {"h", "p", "x"}) /\ <<"x">> \in Seq(Bytes \cup {"h", "p", "x"})
  BY DEF Text
<1> QED
  BY <1>1 DEF Marked, Labels

(* Different bytes give different labels.                                  *)
LEMMA MarkedOnce ==
    ASSUME NEW s \in Text, NEW t \in Text, Marked(s) = Marked(t)
    PROVE  s = t
<1>1. /\ Len(s) \in Nat /\ Len(t) \in Nat /\ s \in Seq(Bytes) /\ t \in Seq(Bytes)
      /\ Len(s) + 1 = Len(t) + 1
  BY MarkedMeaning DEF Text
<1>2. \A i \in 1..Len(s) : s[i] = t[i]
  BY <1>1, MarkedMeaning
<1> QED
  BY <1>1, <1>2, SameSeq

(* The labels of one segment.                                              *)
Encoded(s, e) ==
    /\ e \in Seq(Labels) /\ Len(e) >= 1
    /\ \A i \in 1..Len(e) : e[i][1] = "x"
    /\ Len(s) <= LabelMax => Len(e) = 1 /\ e[1] = Marked(s)
    /\ Len(s) > LabelMax => Len(e[1]) > LabelMax

(* A segment takes one label or more, and one only if it fits.             *)
LEMMA CutCount ==
    ASSUME NEW n \in Nat, n >= 1
    PROVE  /\ (n + LabelMax - 1) \div LabelMax \in Nat
           /\ (n + LabelMax - 1) \div LabelMax >= 1
           /\ n <= LabelMax => (n + LabelMax - 1) \div LabelMax = 1
<1> DEFINE a == n + LabelMax - 1
           q == a \div LabelMax
<1>1. LabelMax \in Nat /\ LabelMax > 0 /\ a \in Nat
  BY TextAssumption
<1>2. q \in Int /\ a = LabelMax * q + (a % LabelMax) /\ a % LabelMax \in 0..(LabelMax - 1)
  BY <1>1
<1> QED
  BY <1>1, <1>2

(* A cut of a segment is a text.                                           *)
LEMMA CutIsText ==
    ASSUME NEW s \in Text, NEW i \in Nat, i >= 1
    PROVE  LET last == IF i * LabelMax < Len(s) THEN i * LabelMax ELSE Len(s)
           IN  SubSeq(s, (i - 1) * LabelMax + 1, last) \in Text
<1> DEFINE last == IF i * LabelMax < Len(s) THEN i * LabelMax ELSE Len(s)
           first == (i - 1) * LabelMax + 1
<1>1. first \in Nat /\ first >= 1
  <2>1. i - 1 \in Nat /\ LabelMax \in Nat
    BY TextAssumption
  <2>2. (i - 1) * LabelMax \in Nat
    BY <2>1
  <2> QED
    BY <2>2
<1>2. last \in Nat /\ last <= Len(s)
  <2>1. i * LabelMax \in Nat
    BY TextAssumption
  <2> QED
    BY <2>1 DEF Text
<1> HIDE DEF first, last
<1>3. SubSeq(s, first, last) \in Text
  BY <1>1, <1>2 DEF Text
<1> QED
  BY <1>3 DEF first, last

(* What the labels of one segment are.                                     *)
LEMMA SegmentMeaning ==
    ASSUME NEW s \in Text
    PROVE  Encoded(s, EncodedSegment(s))
<1> DEFINE e == EncodedSegment(s)
<1>1. CASE s = <<>>
  <2>1. e = << <<"x">> >>
    BY <1>1 DEF EncodedSegment
  <2>2. Marked(s) = <<"x">>
    BY <1>1 DEF Marked
  <2>3. Marked(s) \in Labels /\ Marked(s)[1] = "x"
    BY MarkedMeaning
  <2>4. e = <<Marked(s)>>
    BY <2>1, <2>2
  <2> HIDE DEF e
  <2>5. e \in Seq(Labels) /\ Len(e) = 1 /\ e[1] = Marked(s)
    BY <2>3, <2>4
  <2>6. Len(s) = 0 /\ LabelMax \in Nat
    BY <1>1, TextAssumption
  <2> QED
    BY <2>3, <2>5, <2>6 DEF Encoded, e
<1>2. CASE s # <<>>
  <2> DEFINE n == (Len(s) + LabelMax - 1) \div LabelMax
             Cut(i) == SubSeq(s, (i - 1) * LabelMax + 1,
                              IF i * LabelMax < Len(s) THEN i * LabelMax ELSE Len(s))
  <2>1. Len(s) \in Nat /\ Len(s) >= 1 /\ s \in Seq(Bytes) /\ LabelMax \in Nat /\ LabelMax >= 1
    BY <1>2, TextAssumption DEF Text
  <2>2. n \in Nat /\ n >= 1 /\ (Len(s) <= LabelMax => n = 1)
    BY <2>1, CutCount
  <2>3. e = [i \in 1..n |-> Marked(Cut(i))]
    BY <1>2 DEF EncodedSegment, Marked
  <2>4. \A i \in 1..n : Cut(i) \in Text
    <3> SUFFICES ASSUME NEW i \in 1..n PROVE Cut(i) \in Text
      OBVIOUS
    <3>1. i \in Nat /\ i >= 1
      BY <2>2
    <3> QED
      BY <3>1, CutIsText
  <2>5. Cut(1) = IF LabelMax < Len(s) THEN SubSeq(s, 1, LabelMax) ELSE s
    <3>1. (1 - 1) * LabelMax + 1 = 1 /\ 1 * LabelMax = LabelMax
      BY <2>1
    <3>2. SubSeq(s, 1, Len(s)) = s
      BY <2>1
    <3> QED
      BY <3>1, <3>2
  <2> HIDE DEF n, Cut, e
  <2>6. \A i \in 1..n : Marked(Cut(i)) \in Labels /\ Marked(Cut(i))[1] = "x"
    BY <2>4, MarkedMeaning
  <2>7. e \in Seq(Labels) /\ Len(e) = n /\ \A i \in 1..n : e[i] = Marked(Cut(i))
    BY <2>2, <2>3, <2>6
  <2>8. e[1] = Marked(Cut(1)) /\ Cut(1) \in Text
    BY <2>2, <2>4, <2>7
  <2>9. ASSUME Len(s) > LabelMax PROVE Len(e[1]) > LabelMax
    <3>1. Cut(1) = SubSeq(s, 1, LabelMax)
      BY <2>1, <2>5, <2>9
    <3>2. Len(Cut(1)) = LabelMax
      BY <2>1, <2>9, <3>1
    <3>3. Len(e[1]) = LabelMax + 1
      BY <2>8, <3>2, MarkedMeaning
    <3> QED
      BY <2>1, <3>3
  <2>10. ASSUME Len(s) <= LabelMax PROVE Len(e) = 1 /\ e[1] = Marked(s)
    BY <2>1, <2>2, <2>5, <2>7, <2>8, <2>10
  <2>11. e \in Seq(Labels) /\ Len(e) >= 1 /\ \A i \in 1..Len(e) : e[i][1] = "x"
    BY <2>2, <2>6, <2>7
  <2> QED
    BY <2>9, <2>10, <2>11 DEF Encoded, e
<1> QED
  BY <1>1, <1>2

(* The recursive function of EncodedSegments.                              *)
OutAt(parts) ==
    LET out[i \in 0..Len(parts)] ==
            IF i = 0 THEN <<>> ELSE out[i - 1] \o EncodedSegment(parts[i])
    IN  out

(* One more segment encoded.                                               *)
WithSegment(labels, s) == labels \o EncodedSegment(s)

(* A sequence starts with another.                                         *)
StartsWith(p, s) == Len(p) <= Len(s) /\ \A i \in 1..Len(p) : s[i] = p[i]

(* EncodedSegments ends with what its recursive function computes.         *)
LEMMA EncodedByOut ==
    ASSUME NEW parts
    PROVE  EncodedSegments(parts) = OutAt(parts)[Len(parts)]
BY DEF EncodedSegments, OutAt

(* Labels and those of one more segment.                                   *)
LEMMA WithSegmentMeaning ==
    ASSUME NEW v \in Seq(Labels), NEW s \in Text
    PROVE  /\ WithSegment(v, s) \in Seq(Labels)
           /\ Len(WithSegment(v, s)) = Len(v) + Len(EncodedSegment(s))
           /\ StartsWith(v, WithSegment(v, s))
           /\ \A i \in 1..Len(EncodedSegment(s)) :
                 WithSegment(v, s)[Len(v) + i] = EncodedSegment(s)[i]
<1>1. EncodedSegment(s) \in Seq(Labels)
  BY SegmentMeaning DEF Encoded
<1> QED
  BY <1>1 DEF WithSegment, StartsWith

(* What the recursive function of EncodedSegments computes.                *)
LEMMA OutSteps ==
    ASSUME NEW parts \in Seq(Text), NEW O, O = OutAt(parts)
    PROVE  /\ O[0] = <<>>
           /\ \A i \in 1..Len(parts) : O[i] = WithSegment(O[i - 1], parts[i])
           /\ \A i \in 0..Len(parts) : O[i] \in Seq(Labels)
<1> DEFINE n == Len(parts)
           V == Seq(Labels)
           base == <<>>
           New(i, v) == WithSegment(v, parts[i])
           step == [i \in 1..n |-> [v \in V |-> New(i, v)]]
<1>1. n \in Nat /\ \A i \in 1..n : parts[i] \in Text
  OBVIOUS
<1>2. base \in V
  OBVIOUS
<1>3. \A i \in 1..n : \A v \in V : New(i, v) \in V
  BY <1>1, WithSegmentMeaning
<1> HIDE DEF New
<1>4. step \in [1..n -> [V -> V]] /\ \A i \in 1..n : \A v \in V : step[i][v] = New(i, v)
  BY <1>3
<1> HIDE DEF n, V, base, step
<1>5. Computed(V, n, base, step) # {}
  BY <1>1, <1>2, <1>4, StepsExist
<1>6. PICK f \in [0..n -> V] : f[0] = base /\ \A i \in 1..n : f[i] = step[i][f[i - 1]]
  BY <1>5 DEF Computed
<1>7. \A i \in 1..n : f[i - 1] \in V /\ f[i] = New(i, f[i - 1])
  BY <1>1, <1>4, <1>6
<1> DEFINE Body(g) == [i \in 0..n |-> IF i = 0 THEN base ELSE New(i, g[i - 1])]
<1>8. f = Body(f)
  <2>1. ASSUME NEW i \in 0..n PROVE f[i] = IF i = 0 THEN base ELSE New(i, f[i - 1])
    <3>1. CASE i = 0
      BY <1>6, <3>1
    <3>2. CASE i # 0
      <4>1. i \in 1..n
        BY <1>1, <3>2
      <4> QED
        BY <1>7, <3>2, <4>1
    <3> QED
      BY <3>1, <3>2
  <2> QED
    BY <2>1
<1>9. O = CHOOSE g : g = Body(g)
  <2>1. \A g : Body(g) = [i \in 0..n |-> IF i = 0 THEN <<>>
                                          ELSE g[i - 1] \o EncodedSegment(parts[i])]
    BY DEF New, WithSegment, base
  <2> QED
    BY <2>1 DEF OutAt, n
<1>10. O = Body(O)
  BY <1>8, <1>9
<1>11. O[0] = base /\ \A i \in 1..n : O[i] = New(i, O[i - 1])
  BY <1>1, <1>10
<1> DEFINE Good == {i \in Nat : i <= n => O[i] \in V}
<1>12. 0 \in Good
  BY <1>2, <1>11
<1>13. ASSUME NEW i \in Nat, i \in Good PROVE i + 1 \in Good
  <2> SUFFICES ASSUME i + 1 <= n PROVE O[i + 1] \in V
    OBVIOUS
  <2>1. O[i] \in V /\ i + 1 \in 1..n /\ (i + 1) - 1 = i
    BY <1>1, <1>13
  <2> QED
    BY <1>3, <1>11, <2>1
<1> HIDE DEF Good
<1>14. \A i \in Nat : i \in Good
  BY <1>12, <1>13, Induction
<1>15. \A i \in 0..n : O[i] \in V
  BY <1>1, <1>14 DEF Good
<1> QED
  BY <1>11, <1>15 DEF New, n, V, base

(* Segments that agree up to a place are encoded alike up to it.           *)
LEMMA OutAgree ==
    ASSUME NEW a \in Seq(Text), NEW b \in Seq(Text), NEW n \in Nat, n <= Len(a), n <= Len(b),
           \A i \in 1..n : a[i] = b[i]
    PROVE  OutAt(a)[n] = OutAt(b)[n]
<1> DEFINE A == OutAt(a)
           C == OutAt(b)
           Good == {i \in Nat : i <= n => A[i] = C[i]}
<1>1. A[0] = <<>> /\ \A i \in 1..Len(a) : A[i] = WithSegment(A[i - 1], a[i])
  BY OutSteps
<1>2. C[0] = <<>> /\ \A i \in 1..Len(b) : C[i] = WithSegment(C[i - 1], b[i])
  BY OutSteps
<1>3. Len(a) \in Nat /\ Len(b) \in Nat
  OBVIOUS
<1> HIDE DEF A, C
<1>4. 0 \in Good
  BY <1>1, <1>2
<1>5. ASSUME NEW i \in Nat, i \in Good PROVE i + 1 \in Good
  <2> SUFFICES ASSUME i + 1 <= n PROVE A[i + 1] = C[i + 1]
    OBVIOUS
  <2>1. /\ A[i] = C[i] /\ i + 1 \in 1..Len(a) /\ i + 1 \in 1..Len(b)
        /\ i + 1 \in 1..n /\ (i + 1) - 1 = i
    BY <1>3, <1>5
  <2> QED
    BY <1>1, <1>2, <2>1
<1> HIDE DEF Good
<1>6. n \in Good
  BY <1>4, <1>5, Induction
<1> QED
  BY <1>6 DEF Good, A, C

(* The labels of the first segments start those of all of them.            *)
LEMMA OutStarts ==
    ASSUME NEW parts \in Seq(Text), NEW k \in Nat, k <= Len(parts)
    PROVE  StartsWith(OutAt(parts)[k], EncodedSegments(parts))
<1> DEFINE O == OutAt(parts)
           n == Len(parts)
           Good == {i \in Nat : k + i <= n => StartsWith(O[k], O[k + i])}
<1>1. /\ \A i \in 1..n : O[i] = WithSegment(O[i - 1], parts[i])
      /\ \A i \in 0..n : O[i] \in Seq(Labels)
      /\ n \in Nat /\ \A i \in 1..n : parts[i] \in Text
  BY OutSteps
<1> HIDE DEF O, n
<1>2. 0 \in Good
  <2>1. k + 0 = k
    OBVIOUS
  <2>2. StartsWith(O[k], O[k])
    BY <1>1 DEF StartsWith, n
  <2> QED
    BY <2>1, <2>2
<1>3. ASSUME NEW i \in Nat, i \in Good PROVE i + 1 \in Good
  <2> SUFFICES ASSUME k + (i + 1) <= n PROVE StartsWith(O[k], O[k + (i + 1)])
    OBVIOUS
  <2> DEFINE m == k + i
             u == O[k]
             v == O[m]
             w == O[m + 1]
  <2>1. m \in 0..n /\ m + 1 \in 1..n /\ (m + 1) - 1 = m /\ k \in 0..n /\ k + (i + 1) = m + 1
    BY <1>1, <1>3
  <2>2. StartsWith(u, v)
    BY <1>1, <1>3, <2>1
  <2> HIDE DEF m
  <2>3. w = WithSegment(v, parts[m + 1]) /\ u \in Seq(Labels) /\ v \in Seq(Labels)
        /\ w \in Seq(Labels)
    BY <1>1, <2>1
  <2>4. StartsWith(v, w)
    BY <1>1, <2>1, <2>3, WithSegmentMeaning
  <2> HIDE DEF u, v, w
  <2>5. StartsWith(u, w)
    BY <2>2, <2>3, <2>4 DEF StartsWith
  <2> QED
    BY <2>1, <2>5 DEF u, w
<1> HIDE DEF Good
<1>4. n - k \in Nat /\ k + (n - k) = n
  BY <1>1 DEF n
<1>5. n - k \in Good
  BY <1>2, <1>3, <1>4, Induction
<1>6. StartsWith(O[k], O[n])
  BY <1>4, <1>5 DEF Good
<1> QED
  BY <1>6, EncodedByOut DEF O, n

(* Encoding keeps prefixes.                                                *)
LEMMA EncodedStarts ==
    ASSUME NEW a \in Seq(Text), NEW b \in Seq(Text), StartsWith(a, b)
    PROVE  StartsWith(EncodedSegments(a), EncodedSegments(b))
<1>1. /\ Len(a) \in Nat /\ Len(a) <= Len(a) /\ Len(a) <= Len(b)
      /\ \A i \in 1..Len(a) : a[i] = b[i]
  BY DEF StartsWith
<1>2. EncodedSegments(a) = OutAt(b)[Len(a)]
  BY <1>1, OutAgree, EncodedByOut
<1> QED
  BY <1>1, <1>2, OutStarts

(* The labels of the first k segments when each fits one label.            *)
OneEach(parts, out, k) ==
    out \in Seq(Labels) /\ Len(out) = k /\ \A i \in 1..k : out[i] = Marked(parts[i])

(* Segments that fit a label take one each.                                *)
LEMMA OutShort ==
    ASSUME NEW parts \in Seq(Text), NEW k \in Nat, k <= Len(parts),
           \A i \in 1..k : Len(parts[i]) <= LabelMax
    PROVE  OneEach(parts, OutAt(parts)[k], k)
<1> DEFINE O == OutAt(parts)
           n == Len(parts)
           Good == {i \in Nat : i <= k => OneEach(parts, O[i], i)}
<1>1. /\ O[0] = <<>> /\ \A i \in 1..n : O[i] = WithSegment(O[i - 1], parts[i])
      /\ \A i \in 0..n : O[i] \in Seq(Labels)
      /\ n \in Nat /\ \A i \in 1..n : parts[i] \in Text
  BY OutSteps
<1> HIDE DEF O, n
<1>2. 0 \in Good
  BY <1>1 DEF OneEach
<1>3. ASSUME NEW i \in Nat, i \in Good PROVE i + 1 \in Good
  <2> SUFFICES ASSUME i + 1 <= k PROVE OneEach(parts, O[i + 1], i + 1)
    OBVIOUS
  <2> DEFINE j == i + 1
             v == O[i]
             w == O[j]
             s == parts[j]
             e == EncodedSegment(s)
  <2>1. j \in 1..n /\ j - 1 = i /\ j \in 1..k /\ j \in 0..n
    BY <1>1, <1>3 DEF n
  <2>2. OneEach(parts, v, i)
    BY <1>3
  <2>3. s \in Text /\ Len(s) <= LabelMax
    BY <1>1, <2>1
  <2>4. w = WithSegment(v, s) /\ w \in Seq(Labels)
    BY <1>1, <2>1
  <2>5. Len(e) = 1 /\ e[1] = Marked(s)
    BY <2>3, SegmentMeaning DEF Encoded
  <2>6. v \in Seq(Labels) /\ Len(v) = i /\ \A h \in 1..i : v[h] = Marked(parts[h])
    BY <2>2 DEF OneEach
  <2> HIDE DEF v, w, s, e
  <2>7. /\ Len(w) = Len(v) + Len(e) /\ StartsWith(v, w)
        /\ \A h \in 1..Len(e) : w[Len(v) + h] = e[h]
    BY <2>3, <2>4, <2>6, WithSegmentMeaning DEF e
  <2>8. Len(w) = j /\ w[j] = Marked(s) /\ \A h \in 1..i : w[h] = Marked(parts[h])
    BY <2>5, <2>6, <2>7 DEF StartsWith
  <2>9. \A h \in 1..j : w[h] = Marked(parts[h])
    BY <2>8 DEF s
  <2> QED
    BY <2>4, <2>8, <2>9 DEF OneEach, w
<1> HIDE DEF Good
<1>4. k \in Good
  BY <1>2, <1>3, Induction
<1> QED
  BY <1>4 DEF Good, O

(* Segments that leave room in their labels are told by them.              *)
LEMMA ShortStarts ==
    ASSUME NEW a \in Seq(Text), NEW b \in Seq(Text), \A i \in 1..Len(a) : Len(a[i]) < LabelMax,
           StartsWith(EncodedSegments(a), EncodedSegments(b))
    PROVE  StartsWith(a, b)
<1> DEFINE m == Len(a)
           n == Len(b)
           A == EncodedSegments(a)
           C == EncodedSegments(b)
           O == OutAt(b)
           Agree(k) == k <= n /\ \A i \in 1..k : b[i] = a[i]
           Good == {k \in Nat : k <= m => Agree(k)}
<1>1. /\ m \in Nat /\ n \in Nat /\ LabelMax \in Nat
      /\ \A i \in 1..m : a[i] \in Text /\ Len(a[i]) \in Nat /\ Len(a[i]) < LabelMax
      /\ \A i \in 1..n : b[i] \in Text /\ Len(b[i]) \in Nat
  BY TextAssumption DEF Text
<1>2. OneEach(a, A, m)
  <2>1. m <= m /\ \A i \in 1..m : Len(a[i]) <= LabelMax
    BY <1>1
  <2>2. OneEach(a, OutAt(a)[m], m)
    BY <1>1, <2>1, OutShort
  <2> QED
    BY <2>2, EncodedByOut
<1>3. /\ \A i \in 1..n : O[i] = WithSegment(O[i - 1], b[i])
      /\ \A i \in 0..n : O[i] \in Seq(Labels) /\ StartsWith(O[i], C)
  <2>1. /\ \A i \in 1..n : O[i] = WithSegment(O[i - 1], b[i])
        /\ \A i \in 0..n : O[i] \in Seq(Labels)
    BY OutSteps
  <2>2. \A i \in 0..n : StartsWith(O[i], C)
    BY <1>1, OutStarts
  <2> QED
    BY <2>1, <2>2
<1>4. C = O[n] /\ StartsWith(A, C)
  BY EncodedByOut
<1>5. Len(A) = m /\ \A i \in 1..m : A[i] = Marked(a[i])
  BY <1>2 DEF OneEach
<1>6. m <= Len(C) /\ \A i \in 1..m : C[i] = Marked(a[i])
  BY <1>4, <1>5 DEF StartsWith
<1> HIDE DEF m, n, A, C, O
<1>7. ASSUME NEW k \in Nat, k <= m, Agree(k)
      PROVE  OneEach(b, O[k], k)
  <2>1. \A i \in 1..k : Len(b[i]) <= LabelMax
    BY <1>1, <1>7
  <2> QED
    BY <1>7, <2>1, OutShort DEF O, n
<1>8. 0 \in Good
  BY <1>1
<1>9. ASSUME NEW k \in Nat, k \in Good PROVE k + 1 \in Good
  <2> SUFFICES ASSUME k + 1 <= m PROVE Agree(k + 1)
    OBVIOUS
  <2>1. k <= m /\ Agree(k) /\ k + 1 \in 1..m
    BY <1>1, <1>9
  <2>2. OneEach(b, O[k], k)
    BY <1>7, <2>1
  <2>3. k < n
    <3> SUFFICES ASSUME k = n PROVE FALSE
      BY <1>1, <2>1
    <3>1. Len(C) = k
      BY <1>4, <2>2 DEF OneEach
    <3> QED
      BY <1>1, <1>6, <2>1, <3>1
  <2> DEFINE j == k + 1
             s == b[j]
             e == EncodedSegment(s)
             v == O[k]
             w == O[j]
  <2>4. j \in 1..n /\ j \in 0..n /\ j - 1 = k /\ k \in 0..n
    BY <1>1, <2>3
  <2>5. s \in Text /\ Encoded(s, e)
    BY <1>1, <2>4, SegmentMeaning
  <2>6. w = WithSegment(v, s) /\ v \in Seq(Labels) /\ Len(v) = k /\ StartsWith(w, C)
    BY <1>3, <2>2, <2>4 DEF OneEach
  <2> HIDE DEF s, e, v, w
  <2>7. Len(w) = k + Len(e) /\ \A i \in 1..Len(e) : w[k + i] = e[i]
    BY <2>5, <2>6, WithSegmentMeaning DEF e
  <2>8. e \in Seq(Labels) /\ Len(e) \in Nat /\ Len(e) >= 1
    BY <2>5 DEF Encoded
  <2>9. Len(w) >= j /\ w[j] = e[1]
    BY <2>7, <2>8
  <2>10. C[j] = e[1]
    BY <2>6, <2>7, <2>8, <2>9 DEF StartsWith
  <2>11. e[1] = Marked(a[j]) /\ a[j] \in Text /\ Len(a[j]) \in Nat /\ Len(a[j]) < LabelMax
    BY <1>1, <1>6, <2>1, <2>10
  <2>12. Len(e[1]) = Len(a[j]) + 1
    BY <2>11, MarkedMeaning
  <2>13. Len(s) <= LabelMax
    <3>1. Len(s) \in Nat
      BY <2>5 DEF Text
    <3>2. ~(Len(e[1]) > LabelMax)
      BY <1>1, <2>11, <2>12
    <3> QED
      BY <1>1, <2>5, <3>1, <3>2 DEF Encoded
  <2>14. e[1] = Marked(s)
    BY <2>5, <2>13 DEF Encoded
  <2>15. b[j] = a[j]
    BY <2>5, <2>11, <2>14, MarkedOnce DEF s
  <2> QED
    BY <2>1, <2>4, <2>15
<1> HIDE DEF Good
<1>10. m \in Good
  BY <1>1, <1>8, <1>9, Induction
<1>11. m <= n /\ \A i \in 1..m : b[i] = a[i]
  BY <1>1, <1>10 DEF Good
<1> QED
  BY <1>11 DEF StartsWith, m, n

(* A prefix, in terms of lengths.                                          *)
LEMMA StartsMeaning ==
    ASSUME NEW S, NEW p \in Seq(S), NEW s \in Seq(S)
    PROVE  IsPrefix(p, s) <=> StartsWith(p, s)
<1>1. ASSUME Len(p) <= Len(s)
      PROVE  SubSeq(p, 1, Len(p)) = SubSeq(s, 1, Len(p))
                <=> \A i \in 1..Len(p) : s[i] = p[i]
  BY <1>1
<1> QED
  BY <1>1 DEF IsPrefix, StartsWith

(* A host's labels are those of its reverse.                               *)
LEMMA ReverseOnce ==
    ASSUME NEW S, NEW a \in Seq(S), NEW b \in Seq(S), Reverse(a) = Reverse(b)
    PROVE  a = b
<1> DEFINE m == Len(a)
           n == Len(b)
<1>1. m \in Nat /\ n \in Nat
  OBVIOUS
<1>2. /\ Reverse(a) = [i \in 1..m |-> a[(m - i) + 1]]
      /\ Reverse(b) = [i \in 1..n |-> b[(n - i) + 1]]
  BY DEF Reverse
<1>3. m = n
  <2>1. 1..m = 1..n
    BY <1>2
  <2> HIDE DEF m, n
  <2> QED
    BY <1>1, <2>1
<1>4. ASSUME NEW i \in 1..m PROVE a[i] = b[i]
  <2> DEFINE j == (m - i) + 1
  <2>1. j \in 1..m /\ (m - j) + 1 = i
    BY <1>1
  <2> HIDE DEF j, m, n
  <2>2. Reverse(a)[j] = a[i] /\ Reverse(b)[j] = b[i]
    BY <1>2, <1>3, <2>1
  <2> QED
    BY <2>2
<1> QED
  BY <1>3, <1>4, SameSeq

-----------------------------------------------------------------------------
(***************************************************************************)
(* Trees.                                                                  *)
(***************************************************************************)

(* The tree of a link.                                                     *)
TreeOf(l) == MakePrefixTree(MakePrefixKey(l))

(* The labels of a tree: the host's, and those of the segments if any.     *)
IsTree(t, r, segments) ==
    LET n == Len(r)
        E == EncodedSegments(segments)
    IN  /\ t \in Seq(Labels) /\ n \in Nat /\ E \in Seq(Labels)
        /\ Len(t) = IF segments = <<>> THEN n + 1 ELSE (n + 2) + Len(E)
        /\ t[1] = <<"h">>
        /\ \A i \in 1..n : t[i + 1] = Marked(r[i])
        /\ segments # <<>> => /\ t[n + 2] = <<"p">>
                              /\ \A i \in 1..Len(E) : t[(n + 2) + i] = E[i]

(* The labels of segments.                                                 *)
LEMMA EncodedIsLabels ==
    ASSUME NEW parts \in Seq(Text)
    PROVE  EncodedSegments(parts) \in Seq(Labels)
<1>1. Len(parts) \in 0..Len(parts)
  OBVIOUS
<1> QED
  BY <1>1, OutSteps, EncodedByOut

(* One sequence after another.                                             *)
Chained(t, u, v) ==
    /\ Len(t) = Len(u) + Len(v)
    /\ \A i \in 1..Len(u) : t[i] = u[i]
    /\ \A i \in 1..Len(v) : t[Len(u) + i] = v[i]

(* What a concatenation is.                                                *)
LEMMA ChainedMeaning ==
    ASSUME NEW S, NEW u \in Seq(S), NEW v \in Seq(S)
    PROVE  u \o v \in Seq(S) /\ Chained(u \o v, u, v)
BY DEF Chained

(* Labels put one after another.                                           *)
LEMMA TreeLaidOut ==
    ASSUME NEW r \in Seq(Text), NEW R \in Seq(Labels), OneEach(r, R, Len(r)),
           NEW segments \in Seq(Text)
    PROVE  IsTree(<< <<"h">> >> \o R \o (IF segments = <<>> THEN <<>>
                                         ELSE << <<"p">> >> \o EncodedSegments(segments)),
                  r, segments)
<1> DEFINE n == Len(r)
           E == EncodedSegments(segments)
           H == << <<"h">> >>
           P == << <<"p">> >>
<1>1. H \in Seq(Labels) /\ P \in Seq(Labels)
  BY DEF Labels
<1>2. E \in Seq(Labels) /\ Len(E) \in Nat
  BY EncodedIsLabels
<1>3. n \in Nat /\ Len(R) = n /\ \A i \in 1..n : R[i] = Marked(r[i])
  BY DEF OneEach
<1>4. H[1] = <<"h">> /\ P[1] = <<"p">> /\ Len(H) = 1 /\ Len(P) = 1
  OBVIOUS
<1> HIDE DEF n, E, H, P
<1> DEFINE u == H \o R
<1>5. /\ u \in Seq(Labels) /\ Len(u) = n + 1 /\ u[1] = <<"h">>
      /\ \A i \in 1..n : u[i + 1] = R[i]
  <2>1. u \in Seq(Labels) /\ Chained(u, H, R)
    BY <1>1, ChainedMeaning
  <2> HIDE DEF u
  <2>2. 1 \in 1..Len(H) /\ \A i \in 1..n : 1 + i = i + 1
    BY <1>3, <1>4
  <2> QED
    BY <1>3, <1>4, <2>1, <2>2 DEF Chained
<1> HIDE DEF u
<1>6. CASE segments = <<>>
  <2>1. u \o <<>> = u
    BY <1>5
  <2>2. IsTree(u, r, segments)
    BY <1>2, <1>3, <1>5, <1>6 DEF IsTree, n, E
  <2> QED
    BY <1>6, <2>1, <2>2 DEF u, H
<1>7. CASE segments # <<>>
  <2> DEFINE v == P \o E
             t == u \o v
  <2>1. v \in Seq(Labels) /\ Len(v) = 1 + Len(E) /\ v[1] = <<"p">>
        /\ \A i \in 1..Len(E) : v[1 + i] = E[i]
    <3>1. v \in Seq(Labels) /\ Chained(v, P, E)
      BY <1>1, <1>2, ChainedMeaning
    <3> HIDE DEF v
    <3>2. 1 \in 1..Len(P)
      BY <1>4
    <3> QED
      BY <1>2, <1>4, <3>1, <3>2 DEF Chained
  <2> HIDE DEF v
  <2>2. /\ t \in Seq(Labels) /\ Len(t) = Len(u) + Len(v)
        /\ \A i \in 1..Len(u) : t[i] = u[i]
        /\ \A i \in 1..Len(v) : t[Len(u) + i] = v[i]
    <3>1. t \in Seq(Labels) /\ Chained(t, u, v)
      BY <1>5, <2>1, ChainedMeaning
    <3> QED
      BY <3>1 DEF Chained
  <2> HIDE DEF t
  <2>3. Len(t) = (n + 2) + Len(E)
    BY <1>2, <1>3, <1>5, <2>1, <2>2
  <2>4. t[1] = <<"h">> /\ \A i \in 1..n : t[i + 1] = Marked(r[i])
    BY <1>3, <1>5, <2>2
  <2>5. t[n + 2] = <<"p">>
    <3>1. 1 \in 1..Len(v) /\ Len(u) + 1 = n + 2
      BY <1>2, <1>3, <1>5, <2>1
    <3> QED
      BY <2>1, <2>2, <3>1
  <2>6. ASSUME NEW i \in 1..Len(E) PROVE t[(n + 2) + i] = E[i]
    <3>1. 1 + i \in 1..Len(v) /\ Len(u) + (1 + i) = (n + 2) + i
      BY <1>2, <1>3, <1>5, <2>1
    <3> QED
      BY <2>1, <2>2, <3>1
  <2>7. IsTree(t, r, segments)
    BY <1>2, <1>3, <1>7, <2>2, <2>3, <2>4, <2>5, <2>6 DEF IsTree, n, E
  <2> QED
    BY <1>7, <2>7 DEF t, u, v, H, P, E
<1> QED
  BY <1>6, <1>7

(* The segments of a link's path.                                          *)
LEMMA SegmentsMeaning ==
    ASSUME NEW l \in Links
    PROVE  LET w == DropLastSlash(l.path)
           IN  /\ Segments(l) \in Seq(Text)
               /\ Segments(l) = <<>> <=> w = <<>>
               /\ w # <<>> => Segments(l) = Split(SubSeq(w, 2, Len(w)), Slash)
<1> DEFINE w == DropLastSlash(l.path)
           q == SubSeq(w, 2, Len(w))
<1>1. l.path \in Paths
  BY DEF Links, Paths
<1>2. IsRest(w) /\ (w = <<>> <=> l.path = <<Slash>>)
  <2>1. <<>> \in Seq(HostBytes)
    OBVIOUS
  <2> QED
    BY <1>1, <2>1, DropMeaning
<1> HIDE DEF w
<1>3. CASE w = <<>>
  BY <1>2, <1>3 DEF Segments, w
<1>4. CASE w # <<>>
  <2>1. w \in Seq(Bytes) /\ Len(w) >= 1 /\ Len(w) \in Nat
    BY <1>2, <1>4 DEF IsRest, Text
  <2>2. Tail(w) = q /\ q \in Seq(Bytes)
    BY <2>1
  <2>3. Segments(l) = Split(q, Slash)
    BY <1>2, <1>4, <2>2 DEF Segments, w
  <2>4. Slash \in Bytes
    BY TextAssumption DEF Bytes
  <2> HIDE DEF q
  <2>5. Segments(l) \in Pieces(Bytes)
    BY <2>2, <2>3, <2>4, SplitMeaning
  <2>6. Segments(l) \in Seq(Text) /\ Segments(l) # <<>>
    BY <2>5 DEF Pieces, Text
  <2> QED
    BY <1>4, <2>3, <2>6 DEF q, w
<1> QED
  BY <1>3, <1>4

(* The tree of a link is that of its host reversed and its segments.       *)
LEMMA TreeMeaning ==
    ASSUME NEW l \in Links
    PROVE  /\ IsTree(TreeOf(l), Reverse(l.host), Segments(l))
           /\ Reverse(l.host) \in Seq(Text) /\ l.host \in Seq(Text) /\ Segments(l) \in Seq(Text)
<1> DEFINE r == Reverse(l.host)
           S == Segments(l)
           h == Join(r, Dot)
           w == DropLastSlash(l.path)
           key == h \o w
           slash == FirstSlash(key)
           host == IF slash = 0 THEN key ELSE SubSeq(key, 1, slash - 1)
<1>1. IsHost(l.host) /\ l.path \in Paths
  BY ToKeyMeaning
<1>2. IsHost(r)
  BY <1>1, ReverseIsHost
<1>3. IsHostText(h) /\ Split(h, Dot) = r
  BY <1>2, HostText
<1>4. IsRest(w)
  <2>1. <<>> \in Seq(HostBytes)
    OBVIOUS
  <2> QED
    BY <1>1, <2>1, DropMeaning
<1>5. S \in Seq(Text) /\ (S = <<>> <=> w = <<>>)
      /\ (w # <<>> => S = Split(SubSeq(w, 2, Len(w)), Slash))
  BY SegmentsMeaning
<1>6. r \in Seq(Text) /\ l.host \in Seq(Text)
  <2>1. Seq(HostBytes) \subseteq Text
    BY DEF HostBytes, Text
  <2> QED
    BY <1>1, <1>2, <2>1, PiecesMeaning DEF IsHost
<1>7. \A i \in 1..Len(r) : Len(r[i]) <= LabelMax
  <2> DEFINE n == Len(l.host)
  <2>1. \A i \in 1..n : l.host[i] \in HostLabels
    BY DEF Links
  <2>2. n \in Nat /\ r = [i \in 1..n |-> l.host[(n - i) + 1]]
    BY <1>6 DEF Reverse
  <2>3. \A i \in 1..n : r[i] \in HostLabels
    BY <2>1, <2>2
  <2>4. Len(r) = n
    BY <2>2
  <2> QED
    BY <2>3, <2>4, TextAssumption DEF HostLabels
<1>8. TreeOf(l) = << <<"h">> >> \o EncodedSegments(Split(host, Dot))
                  \o (IF slash = 0 THEN <<>>
                      ELSE << <<"p">> >>
                           \o EncodedSegments(Split(SubSeq(key, slash + 1, Len(key)), Slash)))
  BY DEF TreeOf, MakePrefixTree, MakePrefixKey, FirstSlash
<1> HIDE DEF r, S, h, w
<1>9. h \in Seq(HostBytes) /\ w \in Text /\ Len(h) + 1 # 0
  BY <1>3, <1>4 DEF IsHostText, IsRest
<1>10. slash = IF w = <<>> THEN 0 ELSE Len(h) + 1
  BY <1>4, <1>9, FirstSlashMeaning DEF IsRest
<1>11. /\ SubSeq(key, 1, (Len(h) + 1) - 1) = h
       /\ SubSeq(key, (Len(h) + 1) + 1, Len(key)) = SubSeq(w, 2, Len(w))
  BY <1>9, ConcatParts
<1>12. w = <<>> => key = h
  BY <1>9
<1> HIDE DEF key, slash
<1>13. host = h
  BY <1>9, <1>10, <1>11, <1>12
<1>14. TreeOf(l) = << <<"h">> >> \o EncodedSegments(r)
                   \o (IF S = <<>> THEN <<>> ELSE << <<"p">> >> \o EncodedSegments(S))
  <2>1. EncodedSegments(Split(host, Dot)) = EncodedSegments(r)
    BY <1>3, <1>13
  <2>2. CASE w = <<>>
    <3>1. slash = 0 /\ S = <<>>
      BY <1>5, <1>10, <2>2
    <3> QED
      BY <1>8, <2>1, <3>1
  <2>3. CASE w # <<>>
    <3>1. slash = Len(h) + 1 /\ slash # 0 /\ S # <<>>
      BY <1>5, <1>9, <1>10, <2>3
    <3>2. Split(SubSeq(key, slash + 1, Len(key)), Slash) = S
      BY <1>5, <1>11, <2>3, <3>1
    <3> QED
      BY <1>8, <2>1, <3>1, <3>2
  <2> QED
    BY <2>2, <2>3
<1>15. OneEach(r, EncodedSegments(r), Len(r))
  <2>1. Len(r) \in Nat /\ Len(r) <= Len(r)
    BY <1>6
  <2>2. OneEach(r, OutAt(r)[Len(r)], Len(r))
    BY <1>6, <1>7, <2>1, OutShort
  <2> QED
    BY <2>2, EncodedByOut
<1>16. IsTree(TreeOf(l), r, S)
  BY <1>5, <1>6, <1>14, <1>15, EncodedIsLabels, TreeLaidOut
<1> QED
  BY <1>5, <1>6, <1>16 DEF r, S

(* Trees start with each other when hosts and segments do.                 *)
LEMMA TreesStart ==
    ASSUME NEW t, NEW r \in Seq(Text), NEW S \in Seq(Text), IsTree(t, r, S),
           NEW u, NEW q \in Seq(Text), NEW Q \in Seq(Text), IsTree(u, q, Q),
           IF Q = <<>> THEN StartsWith(q, r) ELSE q = r /\ StartsWith(Q, S)
    PROVE  StartsWith(u, t)
<1> DEFINE m == Len(r)
           n == Len(q)
           E == EncodedSegments(S)
           F == EncodedSegments(Q)
<1>1. m \in Nat /\ n \in Nat /\ E \in Seq(Labels) /\ F \in Seq(Labels)
  BY EncodedIsLabels
<1>2. Len(E) \in Nat /\ Len(F) \in Nat
  BY <1>1
<1>3. /\ Len(t) = IF S = <<>> THEN m + 1 ELSE (m + 2) + Len(E)
      /\ t[1] = <<"h">> /\ \A i \in 1..m : t[i + 1] = Marked(r[i])
      /\ S # <<>> => /\ t[m + 2] = <<"p">>
                     /\ \A i \in 1..Len(E) : t[(m + 2) + i] = E[i]
  BY DEF IsTree
<1>4. /\ Len(u) = IF Q = <<>> THEN n + 1 ELSE (n + 2) + Len(F)
      /\ u[1] = <<"h">> /\ \A i \in 1..n : u[i + 1] = Marked(q[i])
      /\ Q # <<>> => /\ u[n + 2] = <<"p">>
                     /\ \A i \in 1..Len(F) : u[(n + 2) + i] = F[i]
  BY DEF IsTree
<1>5. n <= m /\ \A i \in 1..n : r[i] = q[i]
  <2>1. CASE Q = <<>>
    BY <2>1 DEF StartsWith
  <2>2. CASE Q # <<>>
    BY <1>1, <2>2
  <2> QED
    BY <2>1, <2>2
<1>6. Q # <<>> => n = m /\ S # <<>> /\ StartsWith(F, E)
  <2> SUFFICES ASSUME Q # <<>> PROVE n = m /\ S # <<>> /\ StartsWith(F, E)
    OBVIOUS
  <2>1. q = r /\ StartsWith(Q, S)
    OBVIOUS
  <2>2. Len(Q) >= 1 /\ Len(Q) <= Len(S)
    BY <2>1 DEF StartsWith
  <2>3. S # <<>>
    BY <2>2
  <2> QED
    BY <2>1, <2>3, EncodedStarts
<1> HIDE DEF m, n, E, F
<1>7. ASSUME NEW i \in 1..(n + 1) PROVE t[i] = u[i]
  <2>1. CASE i = 1
    BY <1>3, <1>4, <2>1
  <2>2. CASE i # 1
    <3> DEFINE j == i - 1
    <3>1. j \in 1..n /\ j \in 1..m /\ i = j + 1
      BY <1>1, <1>5, <2>2
    <3> HIDE DEF j
    <3>2. t[j + 1] = Marked(r[j]) /\ u[j + 1] = Marked(q[j]) /\ r[j] = q[j]
      BY <1>3, <1>4, <1>5, <3>1
    <3> QED
      BY <3>1, <3>2
  <2> QED
    BY <2>1, <2>2
<1>8. CASE Q = <<>>
  <2>1. Len(u) = n + 1 /\ Len(u) <= Len(t)
    BY <1>1, <1>2, <1>3, <1>4, <1>5, <1>8
  <2> QED
    BY <1>7, <2>1 DEF StartsWith
<1>9. CASE Q # <<>>
  <2>1. n = m /\ S # <<>> /\ Len(F) <= Len(E) /\ \A i \in 1..Len(F) : E[i] = F[i]
    BY <1>6, <1>9 DEF StartsWith
  <2>2. Len(u) = (n + 2) + Len(F) /\ Len(u) <= Len(t)
    BY <1>1, <1>2, <1>3, <1>4, <1>9, <2>1
  <2>3. ASSUME NEW i \in 1..Len(u) PROVE t[i] = u[i]
    <3>1. CASE i \in 1..(n + 1)
      BY <1>7, <3>1
    <3>2. CASE i = n + 2
      BY <1>3, <1>4, <1>9, <2>1, <3>2
    <3>3. CASE i > n + 2
      <4> DEFINE j == i - (n + 2)
      <4>1. j \in 1..Len(F) /\ j \in 1..Len(E) /\ i = (n + 2) + j
        BY <1>1, <1>2, <2>1, <2>2, <3>3
      <4> HIDE DEF j
      <4>2. t[(n + 2) + j] = E[j] /\ u[(n + 2) + j] = F[j] /\ E[j] = F[j]
        BY <1>3, <1>4, <1>9, <2>1, <4>1
      <4> QED
        BY <4>1, <4>2
    <3> QED
      BY <1>1, <1>2, <2>2, <3>1, <3>2, <3>3
  <2> QED
    BY <2>2, <2>3 DEF StartsWith
<1> QED
  BY <1>8, <1>9

(* And conversely, for segments that leave room in their labels.           *)
LEMMA TreesTell ==
    ASSUME NEW t, NEW r \in Seq(Text), NEW S \in Seq(Text), IsTree(t, r, S),
           NEW u, NEW q \in Seq(Text), NEW Q \in Seq(Text), IsTree(u, q, Q),
           \A i \in 1..Len(Q) : Len(Q[i]) < LabelMax, StartsWith(u, t)
    PROVE  IF Q = <<>> THEN StartsWith(q, r) ELSE q = r /\ StartsWith(Q, S)
<1> DEFINE m == Len(r)
           n == Len(q)
           E == EncodedSegments(S)
           F == EncodedSegments(Q)
<1>1. m \in Nat /\ n \in Nat /\ E \in Seq(Labels) /\ F \in Seq(Labels)
  BY EncodedIsLabels
<1>2. Len(E) \in Nat /\ Len(F) \in Nat
  BY <1>1
<1>3. /\ Len(t) = IF S = <<>> THEN m + 1 ELSE (m + 2) + Len(E)
      /\ t[1] = <<"h">> /\ \A i \in 1..m : t[i + 1] = Marked(r[i])
      /\ S # <<>> => /\ t[m + 2] = <<"p">>
                     /\ \A i \in 1..Len(E) : t[(m + 2) + i] = E[i]
  BY DEF IsTree
<1>4. /\ Len(u) = IF Q = <<>> THEN n + 1 ELSE (n + 2) + Len(F)
      /\ u[1] = <<"h">> /\ \A i \in 1..n : u[i + 1] = Marked(q[i])
      /\ Q # <<>> => /\ u[n + 2] = <<"p">>
                     /\ \A i \in 1..Len(F) : u[(n + 2) + i] = F[i]
  BY DEF IsTree
<1>5. Len(u) <= Len(t) /\ \A i \in 1..Len(u) : t[i] = u[i]
  BY DEF StartsWith
<1>6. \A i \in 1..m : r[i] \in Text /\ Marked(r[i])[1] = "x"
  BY MarkedMeaning
<1>7. \A i \in 1..n : q[i] \in Text /\ Marked(q[i])[1] = "x"
  BY MarkedMeaning
<1>8. <<"p">>[1] = "p" /\ "p" # "x"
  OBVIOUS
<1> HIDE DEF m, n, E, F
<1>9. n + 1 <= Len(u)
  BY <1>1, <1>2, <1>4
<1>10. n <= m
  <2> SUFFICES ASSUME m < n PROVE FALSE
    BY <1>1
  <2> DEFINE k == m + 1
  <2>1. k \in 1..n /\ k + 1 = m + 2 /\ k + 1 \in 1..Len(u) /\ m + 1 < Len(t)
    BY <1>1, <1>2, <1>4, <1>5, <1>9
  <2>2. S # <<>>
    BY <1>1, <1>3, <2>1
  <2>3. t[m + 2] = <<"p">>
    BY <1>3, <2>2
  <2> HIDE DEF k
  <2>4. t[k + 1] = Marked(q[k])
    BY <1>4, <1>5, <2>1
  <2> QED
    BY <1>7, <1>8, <2>1, <2>3, <2>4
<1>11. ASSUME NEW i \in 1..n PROVE r[i] = q[i]
  <2>1. i \in 1..m /\ i + 1 \in 1..Len(u)
    BY <1>1, <1>2, <1>4, <1>9, <1>10
  <2>2. Marked(r[i]) = Marked(q[i])
    BY <1>3, <1>4, <1>5, <2>1
  <2> QED
    BY <1>6, <1>7, <2>1, <2>2, MarkedOnce
<1>12. StartsWith(q, r)
  BY <1>10, <1>11 DEF StartsWith, m, n
<1>13. CASE Q # <<>>
  <2>1. u[n + 2] = <<"p">> /\ n + 2 \in 1..Len(u) /\ Len(u) = (n + 2) + Len(F)
    BY <1>1, <1>2, <1>4, <1>13
  <2>2. n = m
    <3> SUFFICES ASSUME n < m PROVE FALSE
      BY <1>1, <1>10
    <3> DEFINE k == n + 1
    <3>1. k \in 1..m /\ k + 1 = n + 2
      BY <1>1
    <3> HIDE DEF k
    <3>2. t[k + 1] = Marked(r[k]) /\ t[k + 1] = <<"p">>
      BY <1>3, <1>5, <2>1, <3>1
    <3> QED
      BY <1>6, <1>8, <3>1, <3>2
  <2>3. q = r
    BY <1>11, <2>2, SameSeq DEF m, n
  <2>4. S # <<>>
    BY <1>1, <1>2, <1>3, <1>5, <2>1, <2>2
  <2>5. Len(F) <= Len(E)
    BY <1>1, <1>2, <1>3, <1>5, <2>1, <2>2, <2>4
  <2>6. ASSUME NEW i \in 1..Len(F) PROVE E[i] = F[i]
    <3>1. i \in 1..Len(E) /\ (n + 2) + i \in 1..Len(u)
      BY <1>1, <1>2, <2>1, <2>5
    <3> QED
      BY <1>3, <1>4, <1>5, <1>13, <2>2, <2>4, <3>1
  <2>7. StartsWith(F, E)
    BY <2>5, <2>6 DEF StartsWith
  <2>8. StartsWith(Q, S)
    BY <2>7, ShortStarts DEF E, F
  <2> QED
    BY <1>13, <2>3, <2>8
<1> QED
  BY <1>12, <1>13

(* What is below a prefix, in terms of hosts reversed and segments.        *)
LEMMA BelowMeaning ==
    ASSUME NEW l \in Links, NEW p \in Links
    PROVE  Below(l, p) <=>
              IF Segments(p) = <<>> THEN StartsWith(Reverse(p.host), Reverse(l.host))
              ELSE Reverse(p.host) = Reverse(l.host) /\ StartsWith(Segments(p), Segments(l))
<1>1. /\ Reverse(l.host) \in Seq(Text) /\ Reverse(p.host) \in Seq(Text)
      /\ l.host \in Seq(Text) /\ p.host \in Seq(Text)
      /\ Segments(l) \in Seq(Text) /\ Segments(p) \in Seq(Text)
  BY TreeMeaning
<1>2. IsPrefix(Reverse(p.host), Reverse(l.host))
         <=> StartsWith(Reverse(p.host), Reverse(l.host))
  BY <1>1, StartsMeaning
<1>3. IsPrefix(Segments(p), Segments(l)) <=> StartsWith(Segments(p), Segments(l))
  BY <1>1, StartsMeaning
<1>4. l.host = p.host <=> Reverse(p.host) = Reverse(l.host)
  BY <1>1, ReverseOnce
<1> QED
  BY <1>2, <1>3, <1>4 DEF Below

(* The ltree query by which links are denied, allowed and purged finds     *)
(* every link below a prefix, and no other as long as every segment of the *)
(* prefix leaves room in its label.                                        *)
THEOREM TreesAreSegmentwise == TreeIsSegmentwise(Links)
<1> DEFINE Tree == [l \in Links |-> MakePrefixTree(MakePrefixKey(l))]
<1> SUFFICES ASSUME NEW l \in Links, NEW p \in Links
             PROVE  /\ Below(l, p) => Under(Tree[l], Tree[p])
                    /\ Under(Tree[l], Tree[p]) =>
                          Below(l, p) \/ \E s \in ToSet(Segments(p)) : Len(s) >= LabelMax
  BY DEF TreeIsSegmentwise
<1>1. Tree[l] = TreeOf(l) /\ Tree[p] = TreeOf(p)
  BY DEF TreeOf
<1> HIDE DEF Tree
<1>2. IsTree(TreeOf(l), Reverse(l.host), Segments(l)) /\ Reverse(l.host) \in Seq(Text)
      /\ Segments(l) \in Seq(Text)
  BY TreeMeaning
<1>3. IsTree(TreeOf(p), Reverse(p.host), Segments(p)) /\ Reverse(p.host) \in Seq(Text)
      /\ Segments(p) \in Seq(Text)
  BY TreeMeaning
<1>4. TreeOf(l) \in Seq(Labels) /\ TreeOf(p) \in Seq(Labels)
  BY <1>2, <1>3 DEF IsTree
<1>5. Under(TreeOf(l), TreeOf(p)) <=> StartsWith(TreeOf(p), TreeOf(l))
  BY <1>4, StartsMeaning DEF Under
<1>6. ASSUME Below(l, p) PROVE StartsWith(TreeOf(p), TreeOf(l))
  <2>1. IF Segments(p) = <<>> THEN StartsWith(Reverse(p.host), Reverse(l.host))
        ELSE Reverse(p.host) = Reverse(l.host) /\ StartsWith(Segments(p), Segments(l))
    BY <1>6, BelowMeaning
  <2> QED
    BY <1>2, <1>3, <2>1, TreesStart
<1>7. ASSUME StartsWith(TreeOf(p), TreeOf(l)),
             ~ \E s \in ToSet(Segments(p)) : Len(s) >= LabelMax
      PROVE  Below(l, p)
  <2>1. \A i \in 1..Len(Segments(p)) : Len(Segments(p)[i]) < LabelMax
    <3> SUFFICES ASSUME NEW i \in 1..Len(Segments(p)) PROVE Len(Segments(p)[i]) < LabelMax
      OBVIOUS
    <3>1. Segments(p)[i] \in ToSet(Segments(p)) /\ Segments(p)[i] \in Text
      BY <1>3 DEF ToSet
    <3>2. Len(Segments(p)[i]) \in Nat /\ LabelMax \in Nat
      BY <3>1, TextAssumption DEF Text
    <3> QED
      BY <1>7, <3>1, <3>2
  <2>2. IF Segments(p) = <<>> THEN StartsWith(Reverse(p.host), Reverse(l.host))
        ELSE Reverse(p.host) = Reverse(l.host) /\ StartsWith(Segments(p), Segments(l))
    BY <1>2, <1>3, <1>7, <2>1, TreesTell
  <2> QED
    BY <2>2, BelowMeaning
<1> QED
  BY <1>1, <1>5, <1>6, <1>7

-----------------------------------------------------------------------------
(***************************************************************************)
(* The texts and links that the paging run looks at.                       *)
(***************************************************************************)

(* A bounded sequence is a sequence.                                       *)
LEMMA BoundedIsSeq ==
    ASSUME NEW S, NEW T, S \subseteq T, NEW n \in Nat, NEW s \in BoundedSeq(S, n)
    PROVE  s \in Seq(T)
<1>1. PICK m \in 0..n : s \in [1..m -> S]
  BY DEF BoundedSeq, SeqOf
<1> QED
  BY <1>1

(* They are texts and links.                                               *)
LEMMA SomeAreOfAll == SomeTexts \subseteq Text /\ SomeLinks \subseteq Links
<1>1. SomeTexts \subseteq Text
  BY BoundedIsSeq, TextAssumption DEF SomeTexts, Text
<1>2. <<MaxByte>> \in HostLabels /\ <<Slash + 1>> \in HostLabels
  <2>1. 1 \in 1..LabelMax
    BY TextAssumption
  <2>2. MaxByte \in Bytes \ {Dot, Slash} /\ Slash + 1 \in Bytes \ {Dot, Slash}
    BY TextAssumption DEF Bytes
  <2> QED
    BY <2>1, <2>2 DEF HostLabels
<1>3. ASSUME NEW t \in BoundedSeq({Slash, MaxByte}, PathLength)
      PROVE  <<Slash>> \o t \in {p \in Text : p # <<>> /\ p[1] = Slash}
  <2>1. {Slash, MaxByte} \subseteq Bytes /\ PathLength \in Nat
    BY TextAssumption DEF Bytes
  <2> DEFINE root == <<Slash>>
  <2>2. t \in Seq(Bytes) /\ root \in Seq(Bytes) /\ Len(root) = 1 /\ root[1] = Slash
    BY <2>1, BoundedIsSeq
  <2> HIDE DEF root
  <2>3. root \o t \in Seq(Bytes) /\ Chained(root \o t, root, t)
    BY <2>2, ChainedMeaning
  <2>4. Len(root \o t) >= 1 /\ (root \o t)[1] = Slash
    BY <2>2, <2>3 DEF Chained
  <2>5. root \o t # <<>>
    BY <2>3, <2>4
  <2> QED
    BY <2>3, <2>4, <2>5 DEF Text, root
<1>4. \A h \in {<< <<MaxByte>> >>, << <<MaxByte>>, <<MaxByte>> >>,
                << <<Slash + 1>>, <<MaxByte>> >>} : h \in Seq(HostLabels) \ {<<>>}
  <2>1. \A a \in HostLabels : <<a>> \in Seq(HostLabels) \ {<<>>}
    OBVIOUS
  <2>2. \A a, b \in HostLabels : <<a, b>> \in Seq(HostLabels) \ {<<>>}
    OBVIOUS
  <2> QED
    BY <1>2, <2>1, <2>2
<1>5. SomeLinks \subseteq Links
  BY <1>3, <1>4 DEF SomeLinks, Links
<1> QED
  BY <1>1, <1>5

(* What holds of all texts and links holds of these.                       *)
LEMMA SomeKeysAreExact ==
    BoundIsExact(SomeTexts) /\ TreeIsSegmentwise(SomeLinks) /\ KeyIsStable(SomeLinks)
<1>1. BoundIsExact(SomeTexts)
  BY ScanIsExact, SomeAreOfAll DEF BoundIsExact
<1>2. KeyIsStable(SomeLinks)
  BY KeysAreStable, SomeAreOfAll DEF KeyIsStable
<1>3. TreeIsSegmentwise(SomeLinks)
  <2>1. ASSUME NEW l \in Links, NEW p \in Links
        PROVE  /\ Below(l, p) => Under(TreeOf(l), TreeOf(p))
               /\ Under(TreeOf(l), TreeOf(p)) =>
                     Below(l, p) \/ \E s \in ToSet(Segments(p)) : Len(s) >= LabelMax
    BY TreesAreSegmentwise DEF TreeIsSegmentwise, TreeOf
  <2> QED
    BY <2>1, SomeAreOfAll DEF TreeIsSegmentwise, TreeOf
<1> QED
  BY <1>1, <1>2, <1>3
=============================================================================
