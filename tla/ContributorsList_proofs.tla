------------------------ MODULE ContributorsList_proofs ------------------------
(***************************************************************************)
(* Proofs about ContributorsList for any threads, contributors and bounds: *)
(* that the cached list has the contributors of the database, in the order *)
(* of their saved priorities, once all changes have been announced, if it  *)
(* is the main thread that asks for it; and that moves do what they are to *)
(* do, whichever contributors they move.                                   *)
(***************************************************************************)
EXTENDS ContributorsList, FiniteSetTheorems, TLAPS

-----------------------------------------------------------------------------
(* Lists *)

\* Two places of a list have different contributors.
LEMMA ListFields ==
  ASSUME NEW s \in Lists
  PROVE  /\ s \in Seq(People) /\ Len(s) \in Nat /\ DOMAIN s = 1..Len(s)
         /\ \A i \in 1..Len(s) : s[i] \in People
         /\ \A i, j \in 1..Len(s) : s[i] = s[j] => i = j
BY DEF Lists, IsInjective

\* What is in a sequence is somewhere in it.
LEMMA InSet == \A s, x : x \in Range(s) <=> \E i \in DOMAIN s : s[i] = x
BY DEF Range

\* There are N contributors.
LEMMA PeopleFinite ==
  IsFiniteSet(People) /\ Cardinality(People) = N /\ \A S \in SUBSET People : IsFiniteSet(S)
<1>1. IsFiniteSet(People) /\ Cardinality(People) = N
  BY FS_Interval, BoundsAssumption DEF People
<1> QED
  BY <1>1, FS_Subset

\* A list is no longer than there are contributors.
LEMMA ListLength ==
  ASSUME NEW s \in Lists
  PROVE  Len(s) <= N
<1>1. s \in Injection(1..Len(s), People)
  BY ListFields DEF Injection, IsInjective
<1>2. IsFiniteSet(People) /\ Cardinality(People) = N
  BY PeopleFinite
<1>3. PICK n \in Nat : n = Len(s)
  BY ListFields
<1>4. Cardinality(1..n) = n
  BY FS_Interval
<1> QED
  BY <1>1, <1>2, <1>3, <1>4, FS_Injection

\* Those of r that are not in S are in the order of s.
OrderKept(s, r, S) ==
  \A i, j \in DOMAIN r : i < j /\ r[i] \notin S /\ r[j] \notin S =>
    \E k, l \in DOMAIN s : k < l /\ s[k] = r[i] /\ s[l] = r[j]

\* r is s without its p-th, and s with its p-th put behind the first q.
Closed(s, r, p) == Len(r) = Len(s) - 1 /\ \A i \in 1..(Len(s) - 1) : r[i] = s[IF i < p THEN i ELSE i + 1]
Shifted(s, r, p, q) ==
  /\ Len(r) = Len(s)
  /\ \A i \in 1..q : r[i] = s[i]
  /\ \A i \in (q + 1)..(p - 1) : r[i + 1] = s[i]

\* The concatenation of two sequences of contributors.
LEMMA Concatenated ==
  ASSUME NEW a \in Seq(People), NEW b \in Seq(People)
  PROVE  a \o b \in Seq(People) /\ Len(a \o b) = Len(a) + Len(b)
OBVIOUS

\* Removing a contributor leaves the others in their order.
LEMMA RemovedFields ==
  ASSUME NEW s \in Lists, NEW c \in People
  PROVE  /\ Without(s, c) \in Lists
         /\ Range(Without(s, c)) = Range(s) \ {c}
         /\ Len(Without(s, c)) + 1 >= Len(s)
         /\ \A p \in 1..Len(s) : s[p] = c => Closed(s, Without(s, c), p)
         /\ OrderKept(s, Without(s, c), {})
<1> PICK n \in Nat : n = Len(s)
  BY ListFields
<1>0. /\ s \in Seq(People) /\ DOMAIN s = 1..n
      /\ \A i \in 1..n : s[i] \in People
      /\ \A i, j \in 1..n : s[i] = s[j] => i = j
  BY ListFields
<1>1. CASE \A i \in 1..n : s[i] # c
  <2>1. Without(s, c) = s
    BY <1>0, <1>1 DEF Without
  <2>2. c \notin Range(s)
    BY <1>0, <1>1 DEF Range
  <2>3. OrderKept(s, s, {})
    BY DEF OrderKept
  <2> QED
    BY <1>0, <1>1, <2>1, <2>2, <2>3
<1>2. CASE ~\A i \in 1..n : s[i] # c
  <2>1. PICK p \in 1..n : s[p] = c
    BY <1>2
  <2>2. (CHOOSE i \in DOMAIN s : s[i] = c) = p
    BY <1>0, <2>1
  <2>3. Without(s, c) = SubSeq(s, 1, p - 1) \o SubSeq(s, p + 1, n)
    BY <1>0, <1>2, <2>2, ZenonT(30) DEF Without
  <2> PICK r : r = Without(s, c)
    OBVIOUS
  <2>4. /\ r \in Seq(People) /\ Len(r) = n - 1 /\ DOMAIN r = 1..(n - 1)
        /\ \A i \in 1..(n - 1) : r[i] = s[IF i < p THEN i ELSE i + 1]
    <3>1. PICK a : a = SubSeq(s, 1, p - 1)
      BY ZenonT(30)
    <3>2. a \in Seq(People) /\ Len(a) = p - 1 /\ \A i \in 1..(p - 1) : a[i] = s[i]
      BY <1>0, <3>1
    <3>3. PICK b : b = SubSeq(s, p + 1, n)
      BY ZenonT(30)
    <3>4. b \in Seq(People) /\ Len(b) = n - p /\ \A i \in 1..(n - p) : b[i] = s[p + i]
      BY <1>0, <3>3
    <3>5. r = a \o b
      BY <2>3, <3>1, <3>3
    <3>6. r \in Seq(People) /\ Len(r) = n - 1 /\ DOMAIN r = 1..(n - 1)
      <4>1. r \in Seq(People) /\ Len(r) = Len(a) + Len(b)
        <5>1. a \in Seq(People) /\ b \in Seq(People)
          BY <3>2, <3>4
        <5>2. a \o b \in Seq(People) /\ Len(a \o b) = Len(a) + Len(b)
          BY <5>1, Concatenated, ZenonT(30)
        <5> QED
          BY <3>5, <5>2
      <4>2. Len(a) + Len(b) = n - 1
        BY <3>2, <3>4
      <4> QED
        BY <4>1, <4>2
    <3>7. ASSUME NEW i \in 1..(n - 1) PROVE r[i] = s[IF i < p THEN i ELSE i + 1]
      <4>1. CASE i < p
        BY <3>2, <3>4, <3>5, <4>1
      <4>2. CASE ~(i < p)
        <5>1. i - (p - 1) \in 1..(n - p) /\ p + (i - (p - 1)) = i + 1
          BY <4>2
        <5>2. r[i] = b[i - (p - 1)]
          BY <3>2, <3>4, <3>5, <4>2, <5>1, SMTT(30)
        <5> QED
          BY <3>4, <4>2, <5>1, <5>2
      <4> QED
        BY <4>1, <4>2
    <3> QED
      BY <3>6, <3>7
  <2>5. \A i, j \in 1..(n - 1) : r[i] = r[j] => i = j
    BY <1>0, <2>4
  <2>6. r \in Lists
    BY <2>4, <2>5 DEF Lists, IsInjective
  <2>7. Range(r) = Range(s) \ {c}
    <3>1. ASSUME NEW i \in 1..(n - 1) PROVE \E k \in 1..n : s[k] = r[i] /\ s[k] # c
      <4>1. PICK k \in 1..n : k = (IF i < p THEN i ELSE i + 1)
        OBVIOUS
      <4> QED
        BY <1>0, <2>1, <2>4, <4>1
    <3>2. ASSUME NEW k \in 1..n, s[k] # c PROVE \E i \in 1..(n - 1) : r[i] = s[k]
      <4>1. CASE k < p
        BY <2>4, <4>1
      <4>2. CASE k > p
        <5>1. k - 1 \in 1..(n - 1) /\ r[k - 1] = s[k]
          BY <2>4, <4>2
        <5> QED
          BY <5>1
      <4> QED
        BY <2>1, <3>2, <4>1, <4>2
    <3> QED
      <4>1. \A x : x \in Range(s) <=> \E k \in 1..n : s[k] = x
        BY <1>0, InSet
      <4>2. \A x : x \in Range(r) <=> \E i \in 1..(n - 1) : r[i] = x
        BY <2>4, InSet
      <4> QED
        <5>1. ASSUME NEW x, x \in Range(r) PROVE x \in Range(s) \ {c}
          BY <3>1, <4>1, <4>2, <5>1
        <5>2. ASSUME NEW x, x \in Range(s) \ {c} PROVE x \in Range(r)
          BY <3>2, <4>1, <4>2, <5>2
        <5> QED
          BY <5>1, <5>2
  <2>8. ASSUME NEW i \in DOMAIN r, NEW j \in DOMAIN r, i < j
        PROVE  \E k, l \in DOMAIN s : k < l /\ s[k] = r[i] /\ s[l] = r[j]
    <3> DEFINE Before(q) == IF q < p THEN q ELSE q + 1
    <3>1. Before(i) \in 1..n /\ Before(j) \in 1..n /\ Before(i) < Before(j)
      BY <2>4, <2>8
    <3>2. s[Before(i)] = r[i] /\ s[Before(j)] = r[j]
      BY <2>4
    <3> HIDE DEF Before
    <3> QED
      BY <1>0, <3>1, <3>2
  <2> QED
    <3>1. \A m \in 1..n : s[m] = c => m = p
      BY <1>0, <2>1
    <3>2. Closed(s, r, p)
      BY <2>4 DEF Closed
    <3>3. OrderKept(s, r, {})
      BY <2>8 DEF OrderKept
    <3> QED
      BY <2>4, <2>6, <2>7, <3>1, <3>2, <3>3
<1> QED
  BY <1>1, <1>2
\* There is nobody to be removed when there is no list.
LEMMA NothingRemoved == \A c \in People : Without(NotCached, c) = NotCached
<1>1. Len(NotCached) = 1 /\ NotCached[1] = 0 /\ 0 \notin People
  BY DEF NotCached, People
<1> QED
  BY <1>1 DEF Without, NotCached

\* What Placed does once the contributor has been taken out.
Inserted(people, c, index) ==
  SubSeq(people, 1, index) \o <<c>> \o SubSeq(people, index + 1, Len(people))

\* A contributor that is not in a list is put into it.
LEMMA InsertedFields ==
  ASSUME NEW s \in Lists, NEW c \in People, c \notin Range(s), NEW q \in 0..Len(s)
  PROVE  /\ Inserted(s, c, q) \in Lists /\ Len(Inserted(s, c, q)) = Len(s) + 1
         /\ \A i \in 1..(Len(s) + 1) : Inserted(s, c, q)[i] =
              IF i <= q THEN s[i] ELSE IF i = q + 1 THEN c ELSE s[i - 1]
<1> PICK n \in Nat : n = Len(s)
  BY ListFields
<1>0. /\ s \in Seq(People) /\ DOMAIN s = 1..n
      /\ \A i \in 1..n : s[i] \in People
      /\ \A i, j \in 1..n : s[i] = s[j] => i = j
  BY ListFields
<1>1. q \in 0..n /\ \A i \in 1..n : s[i] # c
  BY <1>0, InSet
<1>2. PICK a : a = SubSeq(s, 1, q)
  BY ZenonT(30)
<1>3. a \in Seq(People) /\ Len(a) = q /\ \A i \in 1..q : a[i] = s[i]
  BY <1>0, <1>1, <1>2
<1>4. PICK b : b = SubSeq(s, q + 1, n)
  BY ZenonT(30)
<1>5. b \in Seq(People) /\ Len(b) = n - q /\ \A i \in 1..(n - q) : b[i] = s[q + i]
  BY <1>0, <1>1, <1>4
<1>6. PICK d : d = a \o <<c>>
  BY ZenonT(30)
<1>7. d \in Seq(People) /\ Len(d) = q + 1 /\ d[q + 1] = c /\ \A i \in 1..q : d[i] = s[i]
  BY <1>1, <1>3, <1>6
<1>8. PICK r : r = d \o b
  BY ZenonT(30)
<1>9. Inserted(s, c, q) = r
  BY <1>2, <1>4, <1>6, <1>8, ZenonT(30) DEF Inserted
<1>10. r \in Seq(People) /\ Len(r) = n + 1
  <2>1. d \in Seq(People) /\ b \in Seq(People)
    BY <1>5, <1>7
  <2>2. r \in Seq(People) /\ Len(r) = Len(d) + Len(b)
    BY <1>8, <2>1, Concatenated, ZenonT(30)
  <2> QED
    BY <1>1, <1>5, <1>7, <2>2
<1>11. ASSUME NEW i \in 1..(n + 1)
       PROVE  r[i] = IF i <= q THEN s[i] ELSE IF i = q + 1 THEN c ELSE s[i - 1]
  <2>1. CASE i <= q + 1
    <3>1. r[i] = d[i]
      BY <1>1, <1>5, <1>7, <1>8, <2>1
    <3> QED
      BY <1>1, <1>7, <2>1, <3>1
  <2>2. CASE i > q + 1
    <3>1. i - (q + 1) \in 1..(n - q) /\ q + (i - (q + 1)) = i - 1
      BY <1>1, <2>2
    <3>2. r[i] = b[i - (q + 1)]
      BY <1>1, <1>5, <1>7, <1>8, <2>2, <3>1, SMTT(30)
    <3> QED
      BY <1>1, <1>5, <2>2, <3>1, <3>2
  <2> QED
    BY <1>1, <2>1, <2>2
<1>12. \A i, j \in 1..(n + 1) : r[i] = r[j] => i = j
  BY <1>0, <1>1, <1>11
<1>13. r \in Lists
  BY <1>10, <1>12 DEF Lists, IsInjective
<1> QED
  BY <1>9, <1>10, <1>11, <1>13

\* Putting a contributor at an index keeps a list a list, none is lost, and the
\* others stay in their order.
LEMMA PlacedFields ==
  ASSUME NEW s \in Lists, NEW c \in People, NEW q \in Nat, q < Len(s)
  PROVE  /\ Placed(s, c, q) \in Lists /\ q < Len(Placed(s, c, q))
         /\ Placed(s, c, q)[q + 1] = c
         /\ Range(Placed(s, c, q)) = Range(s) \cup {c}
         /\ OrderKept(s, Placed(s, c, q), {c})
         /\ \A p \in 1..Len(s) : p > q /\ s[p] = c => Shifted(s, Placed(s, c, q), p, q)
<1> PICK n \in Nat : n = Len(s)
  BY ListFields
<1>0. /\ s \in Seq(People) /\ DOMAIN s = 1..n
      /\ \A i \in 1..n : s[i] \in People
      /\ \A i, j \in 1..n : s[i] = s[j] => i = j
  BY ListFields
<1>1. CASE s[q + 1] = c
  <2>1. Placed(s, c, q) = s
    BY <1>1 DEF Placed
  <2>2. q + 1 \in 1..n /\ c \in Range(s)
    BY <1>0, <1>1, InSet
  <2>3. \A p \in 1..n : s[p] = c => p = q + 1
    BY <1>0, <1>1, <2>2
  <2>4. OrderKept(s, s, {c})
    BY DEF OrderKept
  <2>5. Shifted(s, s, q + 1, q)
    BY DEF Shifted
  <2> QED
    BY <1>1, <2>1, <2>2, <2>3, <2>4, <2>5
<1>2. CASE s[q + 1] # c
  <2>1. PICK r : r = Without(s, c)
    OBVIOUS
  <2>3. /\ r \in Lists /\ Range(r) = Range(s) \ {c} /\ Len(r) + 1 >= n
        /\ \A p \in 1..n : s[p] = c => Closed(s, r, p)
        /\ OrderKept(s, r, {})
    BY RemovedFields, <2>1, ZenonT(30)
  <2>4. PICK m \in Nat : m = Len(r)
    BY <2>3, ListFields
  <2>5. q \in 0..m /\ c \notin Range(r) /\ DOMAIN r = 1..m
    BY <2>3, <2>4, ListFields
  <2>6. PICK w : w = Placed(s, c, q)
    OBVIOUS
  <2>7. w = Inserted(r, c, q)
    BY <1>2, <2>1, <2>6, ZenonT(30) DEF Placed, Inserted
  <2>8. /\ w \in Lists /\ Len(w) = m + 1
        /\ \A i \in 1..(m + 1) : w[i] = IF i <= q THEN r[i] ELSE IF i = q + 1 THEN c ELSE r[i - 1]
    BY <2>3, <2>4, <2>5, <2>7, InsertedFields
  <2>9. w[q + 1] = c /\ DOMAIN w = 1..(m + 1)
    BY <2>5, <2>8, ListFields
  <2>10. Range(w) = Range(r) \cup {c}
    <3>1. ASSUME NEW i \in 1..(m + 1) PROVE w[i] \in Range(r) \cup {c}
      <4>1. CASE i <= q
        BY <2>5, <2>8, <4>1, InSet
      <4>2. CASE i = q + 1
        BY <2>9, <4>2
      <4>3. CASE i > q + 1
        <5>1. i - 1 \in 1..m /\ w[i] = r[i - 1]
          BY <2>5, <2>8, <4>3
        <5> QED
          BY <2>5, <5>1, InSet
      <4> QED
        BY <2>5, <4>1, <4>2, <4>3
    <3>2. ASSUME NEW i \in 1..m PROVE \E k \in 1..(m + 1) : w[k] = r[i]
      <4>1. CASE i <= q
        BY <2>8, <4>1, SMTT(30)
      <4>2. CASE i > q
        <5>1. i + 1 \in 1..(m + 1) /\ w[i + 1] = r[i]
          BY <2>5, <2>8, <4>2
        <5> QED
          BY <5>1
      <4> QED
        BY <2>5, <4>1, <4>2
    <3>3. q + 1 \in 1..(m + 1)
      BY <2>5
    <3>4. \A x : x \in Range(w) <=> \E i \in 1..(m + 1) : w[i] = x
      BY <2>9, InSet
    <3>5. \A x : x \in Range(r) <=> \E i \in 1..m : r[i] = x
      BY <2>5, InSet
    <3>6. ASSUME NEW x, x \in Range(w) PROVE x \in Range(r) \cup {c}
      BY <3>1, <3>4, <3>6
    <3>7. ASSUME NEW x, x \in Range(r) \cup {c} PROVE x \in Range(w)
      BY <2>9, <3>2, <3>3, <3>4, <3>5, <3>7
    <3> QED
      BY <3>6, <3>7
  <2>11. ASSUME NEW i \in 1..(m + 1), NEW j \in 1..(m + 1), i < j, w[i] # c, w[j] # c
         PROVE  \E k, l \in 1..n : k < l /\ s[k] = w[i] /\ s[l] = w[j]
    <3>1. i # q + 1 /\ j # q + 1
      BY <2>9, <2>11
    <3>2. PICK x \in 1..m : x = (IF i <= q THEN i ELSE i - 1)
      BY <2>5, <3>1
    <3>3. PICK y \in 1..m : y = (IF j <= q THEN j ELSE j - 1)
      BY <2>5, <3>1
    <3>4. x < y
      BY <2>5, <2>11, <3>1, <3>2, <3>3
    <3>5. w[i] = r[x] /\ w[j] = r[y]
      BY <2>5, <2>8, <3>1, <3>2, <3>3
    <3>6. PICK k \in DOMAIN s, l \in DOMAIN s : k < l /\ s[k] = r[x] /\ s[l] = r[y]
      <4>1. x \in DOMAIN r /\ y \in DOMAIN r
        BY <2>5
      <4> QED
        BY <2>3, <3>4, <4>1 DEF OrderKept
    <3> QED
      BY <1>0, <3>5, <3>6
  <2>12. ASSUME NEW p \in 1..n, p > q, s[p] = c
         PROVE  /\ Len(w) = n
                /\ \A i \in 1..q : w[i] = s[i]
                /\ \A i \in (q + 1)..(p - 1) : w[i + 1] = s[i]
    <3>1. m = n - 1 /\ \A i \in 1..(n - 1) : r[i] = s[IF i < p THEN i ELSE i + 1]
      BY <2>3, <2>4, <2>12 DEF Closed
    <3>2. ASSUME NEW i \in 1..q PROVE w[i] = s[i]
      <4>1. i \in 1..m /\ i < p /\ w[i] = r[i]
        BY <2>5, <2>8, <2>12
      <4> QED
        BY <3>1, <4>1
    <3>3. ASSUME NEW i \in (q + 1)..(p - 1) PROVE w[i + 1] = s[i]
      <4>1. i \in 1..m /\ i < p
        BY <3>1
      <4>2. w[i + 1] = r[i]
        BY <2>5, <2>8, <4>1
      <4> QED
        BY <3>1, <4>1, <4>2
    <3> QED
      BY <2>8, <3>1, <3>2, <3>3
  <2>13. Range(w) = Range(s) \cup {c}
    BY <2>3, <2>10
  <2>14. OrderKept(s, w, {c})
    BY <1>0, <2>9, <2>11, SMTT(30) DEF OrderKept
  <2>15. \A p \in 1..n : p > q /\ s[p] = c => Shifted(s, w, p, q)
    BY <2>12 DEF Shifted
  <2> QED
    BY <2>5, <2>6, <2>8, <2>9, <2>13, <2>14, <2>15
<1> QED
  BY <1>1, <1>2

\* A non-empty set of natural numbers has a least element.
LEMMA LeastNat ==
  ASSUME NEW S \in SUBSET Nat, S # {}
  PROVE  \E m \in S : \A n \in S : m <= n
<1>1. PICK m \in S : \A n \in S : <<n, m>> \notin OpToRel(<, Nat)
  BY NatLessThanWellFounded, WFMin, ZenonT(30)
<1>2. ASSUME NEW n \in S, ~(m <= n) PROVE FALSE
  <2>1. n < m
    BY <1>2
  <2>2. <<n, m>> \in Nat \X Nat /\ <<n, m>>[1] < <<n, m>>[2]
    BY <2>1
  <2>3. <<n, m>> \in OpToRel(<, Nat)
    BY <2>2, ZenonT(30) DEF OpToRel
  <2> QED
    BY <1>1, <2>3, ZenonT(30)
<1> QED
  BY <1>2

\* The lists that Moved goes through.
LastFirst(from, universe, moved, n, q) ==
  from = [i \in 1..(n + 1) |-> IF i > n THEN universe ELSE Placed(from[i + 1], moved[i], q)]

\* The lists of a move, from[n + 1 - k] after k contributors, exist.
LEMMA MovedExists ==
  ASSUME NEW universe \in Lists, NEW q \in Nat, q < Len(universe),
         NEW n \in Nat, NEW moved \in [1..n -> People]
  PROVE  \E from : LastFirst(from, universe, moved, n, q)
<1> DEFINE Good == {s \in Lists : q < Len(s)}
           Right(f, k) == \A i \in 1..(n + 1) : i > n - k =>
             f[i] = IF i > n THEN universe ELSE Placed(f[i + 1], moved[i], q)
           Missing == {k \in 0..n : ~\E f \in [1..(n + 1) -> Good] : Right(f, k)}
<1>1. universe \in Good
  OBVIOUS
<1>2. 0 \notin Missing
  <2>1. PICK f \in [1..(n + 1) -> Good] : f = [i \in 1..(n + 1) |-> universe]
    BY ZenonT(30), <1>1
  <2>2. Right(f, 0)
    BY <2>1
  <2> QED
    BY <2>1, <2>2
<1>3. Missing = {}
  <2> SUFFICES ASSUME Missing # {} PROVE FALSE
    OBVIOUS
  <2>0. Missing \in SUBSET Nat
    OBVIOUS
  <2>1. PICK k \in Missing : \A l \in Missing : k <= l
    <3> HIDE DEF Missing
    <3> QED
      BY <2>0, LeastNat
  <2>2. k \in 1..n
    <3>1. Missing \subseteq 0..n
      OBVIOUS
    <3> HIDE DEF Missing
    <3> QED
      BY <1>2, <3>1
  <2>3. PICK f \in [1..(n + 1) -> Good] : Right(f, k - 1)
    <3>1. k - 1 \in 0..n /\ k - 1 \notin Missing
      <4> HIDE DEF Missing
      <4> QED
        BY <2>1, <2>2
    <3> HIDE DEF Right, Good
    <3> QED
      BY <3>1
  <2>4. PICK p \in 1..n : p = n - k + 1
    BY <2>2
  <2>5. PICK x \in Good : x = Placed(f[p + 1], moved[p], q)
    <3>1. f[p + 1] \in Lists /\ q < Len(f[p + 1]) /\ moved[p] \in People
      OBVIOUS
    <3> QED
      BY ZenonT(30), <3>1, PlacedFields
  <2>6. PICK g \in [1..(n + 1) -> Good] : g = [f EXCEPT ![p] = x]
    BY ZenonT(30), <2>5
  <2>7. Right(g, k)
    <3> SUFFICES ASSUME NEW i \in 1..(n + 1), i > n - k
                 PROVE  g[i] = IF i > n THEN universe ELSE Placed(g[i + 1], moved[i], q)
      OBVIOUS
    <3>1. CASE i = p
      BY <2>4, <2>5, <2>6, <3>1
    <3>2. CASE i # p
      <4>1. i > n - (k - 1) /\ i # p /\ i + 1 # p
        BY <2>2, <2>4, <3>2
      <4>2. g[i] = f[i] /\ (i <= n => g[i + 1] = f[i + 1])
        BY <2>6, <4>1
      <4> QED
        BY <2>3, <4>1, <4>2, SMTT(30)
    <3> QED
      BY <3>1, <3>2
  <2> QED
    BY ZenonT(30), <2>1, <2>6, <2>7
<1>4. PICK f \in [1..(n + 1) -> Good] : Right(f, n)
  <2>1. n \in 0..n /\ n \notin Missing
    <3> HIDE DEF Missing
    <3> QED
      BY <1>3
  <2> HIDE DEF Right, Good
  <2> QED
    BY <2>1
<1>5. LastFirst(f, universe, moved, n, q)
  BY <1>4 DEF LastFirst
<1> QED
  BY <1>5

\* A place in the block of those that have been moved is that of one of them.
LEMMA BlockPlaces ==
  \A p, q, h, j, n \in Nat : h < j /\ j <= n /\ q < p /\ p <= q + j - h => p - q + h \in (h + 1)..n
OBVIOUS

\* A move makes a list of those that were there and those that are moved.  It keeps
\* the order of the others, and puts those that all come from behind the index
\* there, in the order given.
LEMMA MovedFields ==
  ASSUME NEW universe \in Lists, NEW q \in Nat, q < Len(universe), NEW moved \in Moves,
         NEW r, r = Moved(universe, moved, q)
  PROVE  /\ r \in Lists
         /\ Range(r) = Range(universe) \cup Range(moved)
         /\ OrderKept(universe, r, Range(moved))
         /\ (\A j \in DOMAIN moved : \E p \in 1..Len(universe) : p > q /\ universe[p] = moved[j]) =>
              \A j \in DOMAIN moved : q + j \in 1..Len(r) /\ r[q + j] = moved[j]
<1>0. PICK n \in Nat : n >= 1 /\ moved \in [1..n -> People]
  BY BoundsAssumption DEF Moves
<1>1. n \in Nat /\ moved \in [1..n -> People] /\ Len(moved) = n /\ DOMAIN moved = 1..n
  BY <1>0
<1>i. \A i, j \in 1..n : moved[i] = moved[j] => i = j
  BY <1>1 DEF Moves, IsInjective
<1>m. \A x : x \in Range(moved) <=> \E i \in 1..n : moved[i] = x
  BY <1>1, InSet
<1> DEFINE from == CHOOSE f : f = [i \in 1..(n + 1) |->
             IF i > n THEN universe ELSE Placed(f[i + 1], moved[i], q)]
           Behind(s) == \A j \in 1..n : \E p \in 1..Len(s) : p > q /\ s[p] = moved[j]
           Members(s, h) == \A x : x \in Range(s) <=> x \in Range(universe) \/ \E j \in h..n : moved[j] = x
           InFront(s, h) == Behind(universe) =>
             Behind(s) /\ \A j \in h..n : q + 1 + j - h \in 1..Len(s) /\ s[q + 1 + j - h] = moved[j]
           Good(s, h) == s \in Lists /\ q < Len(s) /\ Members(s, h) /\ OrderKept(universe, s, Range(moved)) /\ InFront(s, h)
           Wrong == {k \in 0..n : ~Good(from[n + 1 - k], n + 1 - k)}
<1>2. from = [i \in 1..(n + 1) |-> IF i > n THEN universe ELSE Placed(from[i + 1], moved[i], q)]
  <2>1. \E f : LastFirst(f, universe, moved, n, q)
    BY <1>1, MovedExists
  <2> QED
    BY <2>1, ZenonT(30) DEF LastFirst
<1> HIDE DEF from
<1>a. Good(universe, n + 1)
  <2>1. OrderKept(universe, universe, Range(moved))
    BY DEF OrderKept
  <2> QED
    BY <2>1
<1>b. ASSUME NEW h \in 1..n, NEW s, Good(s, h + 1), NEW w, w = Placed(s, moved[h], q)
      PROVE  Good(w, h)
  <2> PICK c \in People : c = moved[h]
    BY <1>1
  <2> PICK len \in Nat : len = Len(s)
    BY <1>b, ListFields
  <2>0. /\ s \in Lists /\ q < len /\ DOMAIN s = 1..len
        /\ \A i, j \in 1..len : s[i] = s[j] => i = j
    BY <1>b, ListFields
  <2>1. /\ w \in Lists /\ q < Len(w) /\ w[q + 1] = c
        /\ Range(w) = Range(s) \cup {c}
        /\ OrderKept(s, w, {c})
        /\ \A p \in 1..len : p > q /\ s[p] = c => Shifted(s, w, p, q)
    <3>1. q < Len(s) /\ w = Placed(s, c, q)
      BY <1>b, <2>0
    <3>2. w \in Lists /\ q < Len(w)
      BY ZenonT(30), <2>0, <3>1, PlacedFields
    <3>5. w[q + 1] = c
      <4>1. s \in Lists /\ c \in People /\ q \in Nat /\ q < Len(s)
        BY <2>0, <3>1
      <4>2. Placed(s, c, q)[q + 1] = c
        BY <4>1, PlacedFields, ZenonT(30)
      <4> QED
        BY <3>1, <4>2, ZenonT(30)
    <3>6. Range(w) = Range(s) \cup {c}
      BY ZenonT(30), <2>0, <3>1, PlacedFields
    <3>3. OrderKept(s, w, {c})
      BY ZenonT(30), <2>0, <3>1, PlacedFields
    <3>4. \A p \in 1..len : p > q /\ s[p] = c => Shifted(s, w, p, q)
      BY ZenonT(30), <2>0, <3>1, PlacedFields
    <3> QED
      BY <3>2, <3>3, <3>4, <3>5, <3>6
  <2>2. OrderKept(universe, s, Range(moved))
    BY <1>b
  <2>4. Members(w, h)
    <3>1. \A x : (\E j \in h..n : moved[j] = x) <=> x = c \/ \E j \in (h + 1)..n : moved[j] = x
      OBVIOUS
    <3> QED
      BY <1>b, <2>1, <3>1
  <2>5. OrderKept(universe, w, Range(moved))
    <3>1. c \in Range(moved)
      BY <1>m
    <3> SUFFICES ASSUME NEW i \in DOMAIN w, NEW j \in DOMAIN w, i < j,
                        w[i] \notin Range(moved), w[j] \notin Range(moved)
                 PROVE  \E k, l \in DOMAIN universe : k < l /\ universe[k] = w[i] /\ universe[l] = w[j]
      BY DEF OrderKept
    <3>2. PICK k \in DOMAIN s, l \in DOMAIN s : k < l /\ s[k] = w[i] /\ s[l] = w[j]
      BY <2>1, <3>1, ZenonT(30) DEF OrderKept
    <3> QED
      BY <2>2, <3>2 DEF OrderKept
  <2>6. InFront(w, h)
    <3> SUFFICES ASSUME Behind(universe)
                 PROVE  Behind(w) /\ \A j \in h..n : q + 1 + j - h \in 1..Len(w) /\ w[q + 1 + j - h] = moved[j]
      OBVIOUS
    <3>1. Behind(s) /\ \A j \in (h + 1)..n : q + j - h \in 1..len /\ s[q + j - h] = moved[j]
      <4>1. \A j \in (h + 1)..n : q + 1 + j - (h + 1) = q + j - h
        OBVIOUS
      <4> QED
        BY ZenonT(30), <1>b, <4>1
    <3>2. PICK p \in 1..len : p > q /\ s[p] = c
      BY <3>1
    <3> HIDE DEF Behind
    <3>3. /\ Len(w) = len
          /\ \A i \in 1..q : w[i] = s[i]
          /\ \A i \in (q + 1)..(p - 1) : w[i + 1] = s[i]
      BY <2>1, <3>2, ZenonT(30) DEF Shifted
    <3>4. ASSUME NEW j \in 1..n PROVE \E o \in 1..Len(w) : o > q /\ w[o] = moved[j]
      <4>1. PICK o \in 1..len : o > q /\ s[o] = moved[j]
        BY <3>1, ZenonT(30) DEF Behind
      <4>2. moved[j] \in Range(w)
        BY <2>0, <2>1, <4>1, InSet, ZenonT(30)
      <4>3. PICK v \in 1..len : w[v] = moved[j]
        <5>1. DOMAIN w = 1..len
          BY <2>1, <3>3, ListFields, ZenonT(30)
        <5>2. \E v \in DOMAIN w : w[v] = moved[j]
          BY <4>2, InSet
        <5> QED
          BY <5>1, <5>2, ZenonT(30)
      <4>4. v > q
        <5> SUFFICES ASSUME v <= q PROVE FALSE
          OBVIOUS
        <5>1. s[v] = s[o]
          BY <3>3, <4>1, <4>3
        <5> QED
          BY <2>0, <4>1, <5>1
      <4> QED
        BY <3>3, <4>3, <4>4
    <3>5. ASSUME NEW j \in h..n PROVE q + 1 + j - h \in 1..Len(w) /\ w[q + 1 + j - h] = moved[j]
      <4>1. CASE j = h
        <5>1. q + 1 + j - h = q + 1
          BY <4>1
        <5> QED
          BY <2>0, <2>1, <3>3, <4>1, <5>1, SMTT(30)
      <4>2. CASE j > h
        <5>0. q + j - h \in 1..len /\ s[q + j - h] = moved[j]
          <6>1. j \in (h + 1)..n
            BY <4>2
          <6> QED
            BY <3>1, <6>1, ZenonT(30)
        <5>1. PICK i \in 1..len : i = q + j - h
          BY <5>0
        <5>2. s[i] = moved[j] /\ i >= q + 1
          BY <4>2, <5>0, <5>1, SMTT(30)
        <5>3. p > q + j - h
          <6> SUFFICES ASSUME p <= q + j - h PROVE FALSE
            OBVIOUS
          <6>0. p - q + h \in (h + 1)..n
            BY <3>2, <4>2, BlockPlaces
          <6>1. PICK g \in (h + 1)..n : g = p - q + h
            BY <6>0
          <6>2. s[p] = moved[g]
            BY <3>1, <6>1
          <6>3. g \in 1..n /\ h \in 1..n /\ g # h
            BY <6>1
          <6>4. moved[g] = moved[h]
            BY <3>2, <6>2
          <6> QED
            BY <1>i, <6>3, <6>4, ZenonT(30)
        <5>4. i \in (q + 1)..(p - 1) /\ q + 1 + j - h = i + 1
          BY <5>1, <5>2, <5>3
        <5>5. w[i + 1] = s[i]
          BY <3>3, <5>4
        <5> QED
          <6>1. i + 1 \in 1..len
            BY <5>4
          <6> QED
            BY <3>3, <5>2, <5>4, <5>5, <6>1
      <4> QED
        BY <4>1, <4>2
    <3> QED
      BY <3>4, <3>5 DEF Behind
  <2> QED
    BY <2>1, <2>4, <2>5, <2>6
<1> HIDE DEF Good
<1>3. Wrong = {}
  <2> SUFFICES ASSUME Wrong # {} PROVE FALSE
    OBVIOUS
  <2>0. Wrong \in SUBSET Nat
    OBVIOUS
  <2>1. PICK k \in Wrong : \A l \in Wrong : k <= l
    <3> HIDE DEF Wrong
    <3> QED
      BY <2>0, LeastNat
  <2>2. k # 0
    <3>1. from[n + 1] = universe
      BY <1>2
    <3> QED
      BY <1>a, <3>1
  <2>3. PICK p \in 1..n : p = n + 1 - k
    BY <2>2
  <2>4. k - 1 \in 0..n /\ k - 1 \notin Wrong /\ n + 1 - (k - 1) = p + 1
    <3>1. k \in 1..n
      BY <2>2
    <3> HIDE DEF Wrong
    <3> QED
      BY <2>1, <2>3, <3>1
  <2>5. Good(from[p + 1], p + 1)
    BY <2>4
  <2>6. from[p] = Placed(from[p + 1], moved[p], q)
    BY <1>2, <2>3
  <2>7. Good(from[p], p)
    BY <1>b, <2>5, <2>6
  <2> QED
    BY <2>3, <2>7
<1>4. Good(from[1], 1)
  <2>1. n \in 0..n /\ n \notin Wrong /\ n + 1 - n = 1
    <3> HIDE DEF Wrong
    <3> QED
      BY <1>1, <1>3
  <2> QED
    BY <2>1
<1>5. r = from[1]
  BY <1>1 DEF Moved, from
<1>6. Good(r, 1)
  BY <1>4, <1>5
<1>7. r \in Lists /\ Members(r, 1) /\ OrderKept(universe, r, Range(moved)) /\ InFront(r, 1)
  BY <1>6 DEF Good
<1>8. Range(r) = Range(universe) \cup Range(moved)
  BY <1>7, <1>m
<1>9. ASSUME Behind(universe), NEW j \in 1..n
      PROVE  q + j \in 1..Len(r) /\ r[q + j] = moved[j]
  <2>1. q + 1 + j - 1 = q + j
    OBVIOUS
  <2> QED
    BY ZenonT(30), <1>7, <1>9, <2>1
<1> QED
  BY <1>1, <1>7, <1>8, <1>9
-----------------------------------------------------------------------------
(* Sorting *)

Priorities == [People -> 0..(N - 1)]

\* The comparator orders contributors strictly and totally.
LEMMA SortsTotally ==
  ASSUME priority \in Priorities
  PROVE  /\ \A a \in People : ~SortsBefore(a, a)
         /\ \A a, b \in People : a # b => SortsBefore(a, b) \/ SortsBefore(b, a)
         /\ \A a, b, c \in People : SortsBefore(a, b) /\ SortsBefore(b, c) => SortsBefore(a, c)
<1>1. \A a \in People : a \in Nat /\ priority[a] \in Nat
  BY DEF People, Priorities
<1> QED
  BY <1>1 DEF SortsBefore

\* There is a sorted list of any set of contributors: one by the number of those
\* that sort before each.
LEMMA SortedExists ==
  ASSUME priority \in Priorities, NEW S \in SUBSET People
  PROVE  \E people \in [1..Cardinality(S) -> S] :
           \A i, j \in DOMAIN people : i < j => SortsBefore(people[i], people[j])
<1>1. IsFiniteSet(S)
  BY PeopleFinite
<1>2. PICK n \in Nat : n = Cardinality(S)
  BY <1>1, FS_CardinalityType
<1> DEFINE Below(x) == {y \in S : SortsBefore(y, x)}
<1>3. ASSUME NEW x \in S PROVE Cardinality(Below(x)) \in 0..(n - 1)
  <2>1. Below(x) \in SUBSET S /\ Below(x) # S
    BY SortsTotally
  <2>2. Cardinality(Below(x)) \in Nat /\ Cardinality(Below(x)) <= n /\ Cardinality(Below(x)) # n
    <3> HIDE DEF Below
    <3> QED
      BY <1>1, <1>2, <2>1, FS_Subset, FS_CardinalityType
  <2> QED
    BY <2>2
<1>4. ASSUME NEW x \in S, NEW y \in S, SortsBefore(x, y)
      PROVE  Cardinality(Below(x)) < Cardinality(Below(y))
  <2>1. Below(x) \in SUBSET Below(y) /\ x \in Below(y) /\ x \notin Below(x)
    BY <1>4, SortsTotally
  <2>2. IsFiniteSet(Below(y))
    BY <1>1, FS_Subset
  <2>3. Cardinality(Below(x)) <= Cardinality(Below(y)) /\ Cardinality(Below(x)) # Cardinality(Below(y))
    <3> HIDE DEF Below
    <3> QED
      BY <2>1, <2>2, FS_Subset
  <2> QED
    BY <1>3, <2>3
<1>5. PICK rank \in [S -> 1..n] : \A x \in S : rank[x] = Cardinality(Below(x)) + 1
  <2>1. \A x \in S : Cardinality(Below(x)) + 1 \in 1..n
    BY <1>3
  <2>2. [x \in S |-> Cardinality(Below(x)) + 1] \in [S -> 1..n]
    BY <2>1
  <2> QED
    BY ZenonT(30), <2>2
<1>6. \A x, y \in S : SortsBefore(x, y) => rank[x] < rank[y]
  <2> SUFFICES ASSUME NEW x \in S, NEW y \in S, SortsBefore(x, y) PROVE rank[x] < rank[y]
    OBVIOUS
  <2>0. Cardinality(Below(x)) \in Nat /\ Cardinality(Below(y)) \in Nat
    BY <1>3
  <2>1. PICK i \in Nat, j \in Nat : i = Cardinality(Below(x)) /\ j = Cardinality(Below(y))
    <3> HIDE DEF Below
    <3> QED
      BY <2>0
  <2>2. i < j
    BY <1>4, <2>1
  <2>3. rank[x] = i + 1 /\ rank[y] = j + 1
    BY <1>5, <2>1
  <2> QED
    BY <2>2, <2>3
<1> HIDE DEF Below
<1>7. rank \in Injection(S, 1..n)
  BY <1>6, SortsTotally DEF Injection, IsInjective
<1>8. IsFiniteSet(1..n) /\ Cardinality(1..n) = n
  BY FS_Interval
<1>9. rank \in Surjection(S, 1..n)
  BY <1>2, <1>7, <1>8, FS_Injection
<1>10. \A i \in 1..n : \E x \in S : rank[x] = i
  BY <1>9 DEF Surjection
<1>11. PICK people \in [1..n -> S] : \A i \in 1..n : rank[people[i]] = i
  <2>1. PICK people : people = [i \in 1..n |-> CHOOSE x \in S : rank[x] = i]
    BY ZenonT(30)
  <2>2. \A i \in 1..n : people[i] \in S /\ rank[people[i]] = i
    BY <1>10, <2>1
  <2> QED
    BY <2>1, <2>2
<1>12. ASSUME NEW i \in 1..n, NEW j \in 1..n, i < j
       PROVE  SortsBefore(people[i], people[j])
  <2>1. people[i] \in S /\ people[j] \in S /\ rank[people[i]] = i /\ rank[people[j]] = j
    BY <1>11
  <2>2. people[i] # people[j] /\ ~SortsBefore(people[j], people[i])
    BY <1>6, <1>12, <2>1
  <2> QED
    BY <2>1, <2>2, SortsTotally
<1> QED
  BY <1>2, <1>12, ZenonT(30)

\* So sorting makes a list of the set, in the order of the priorities.
LEMMA SortedFields ==
  ASSUME priority \in Priorities, NEW S \in SUBSET People
  PROVE  /\ Sorted(S) \in Lists
         /\ Range(Sorted(S)) = S
         /\ InOrder(Sorted(S))
<1>1. PICK s : s = Sorted(S)
  OBVIOUS
<1>2. PICK n : n = Cardinality(S)
  OBVIOUS
<1>3. s \in [1..n -> S] /\ \A i, j \in DOMAIN s : i < j => SortsBefore(s[i], s[j])
  <2> DEFINE Ordered(people) == \A i, j \in DOMAIN people : i < j => SortsBefore(people[i], people[j])
  <2>1. \E people \in [1..Cardinality(S) -> S] : Ordered(people)
    BY SortedExists
  <2>2. Sorted(S) = CHOOSE people \in [1..Cardinality(S) -> S] : Ordered(people)
    BY DEF Sorted
  <2> HIDE DEF Ordered
  <2>3. Sorted(S) \in [1..Cardinality(S) -> S] /\ Ordered(Sorted(S))
    BY <2>1, <2>2
  <2> QED
    BY <1>1, <1>2, <2>3 DEF Ordered
<1>4. IsFiniteSet(S)
  BY PeopleFinite
<1>5. n \in Nat
  BY <1>2, <1>4, FS_CardinalityType
<1>6. \A i, j \in 1..n : s[i] = s[j] => i = j
  BY <1>3, <1>5, SortsTotally
<1>7. s \in Lists
  <2>1. s \in Seq(People)
    BY <1>3, <1>5
  <2> QED
    BY <1>3, <1>6, <2>1 DEF Lists, IsInjective
<1>8. s \in Surjection(1..n, S)
  <2>1. s \in Injection(1..n, S)
    BY <1>3, <1>6 DEF Injection, IsInjective
  <2>2. Cardinality(1..n) = n
    BY <1>5, FS_Interval
  <2> QED
    BY <1>2, <1>4, <2>1, <2>2, FS_Injection
<1>9. Range(s) = S
  <2>1. \A x \in S : \E i \in 1..n : s[i] = x
    BY <1>8 DEF Surjection
  <2> QED
    BY <1>3, <2>1, ZenonT(30) DEF Range
<1>10. InOrder(s)
  <2>1. \A a \in S : priority[a] \in Nat
    BY DEF Priorities
  <2> QED
    BY <1>3, <2>1 DEF InOrder, SortsBefore
<1> QED
  BY <1>1, <1>7, <1>9, <1>10
-----------------------------------------------------------------------------
(* Type correctness *)

\* What a sequence has after an element was added or taken.
LEMMA SetOfAppend ==
  ASSUME NEW S, NEW s \in Seq(S), NEW x \in S
  PROVE  Append(s, x) \in Seq(S) /\ Range(Append(s, x)) = Range(s) \cup {x}
<1>1. PICK n \in Nat : n = Len(s) /\ DOMAIN s = 1..n
  OBVIOUS
<1>2. PICK r : r = Append(s, x)
  BY ZenonT(30)
<1>3. r \in Seq(S) /\ DOMAIN r = 1..(n + 1) /\ r[n + 1] = x /\ \A i \in 1..n : r[i] = s[i]
  BY <1>1, <1>2
<1>4. ASSUME NEW y, y \in Range(r) PROVE y \in Range(s) \cup {x}
  <2>1. PICK i \in 1..(n + 1) : r[i] = y
    BY <1>3, <1>4, InSet
  <2>2. CASE i = n + 1
    BY <1>3, <2>1, <2>2
  <2>3. CASE i \in 1..n
    BY <1>1, <1>3, <2>1, <2>3, InSet
  <2> QED
    BY <2>2, <2>3
<1>5. ASSUME NEW y, y \in Range(s) PROVE y \in Range(r)
  <2>1. PICK i \in 1..n : s[i] = y
    BY <1>1, <1>5, InSet
  <2>2. i \in 1..(n + 1) /\ r[i] = y
    BY <1>3, <2>1
  <2> QED
    BY <1>3, <2>2, InSet
<1>6. x \in Range(r)
  <2>1. n + 1 \in 1..(n + 1)
    OBVIOUS
  <2> QED
    BY <1>3, <2>1, InSet
<1> QED
  BY <1>2, <1>3, <1>4, <1>5, <1>6

LEMMA SetOfTail ==
  ASSUME NEW S, NEW s \in Seq(S), s # <<>>
  PROVE  /\ Head(s) \in S /\ Tail(s) \in Seq(S)
         /\ Range(s) = Range(Tail(s)) \cup {Head(s)}
<1>1. PICK n \in Nat : n = Len(s) /\ DOMAIN s = 1..n /\ n > 0
  OBVIOUS
<1>2. PICK r : r = Tail(s)
  BY ZenonT(30)
<1>3. r \in Seq(S) /\ DOMAIN r = 1..(n - 1) /\ \A i \in 1..(n - 1) : r[i] = s[i + 1]
  BY <1>1, <1>2
<1>4. Head(s) = s[1] /\ 1 \in 1..n /\ s[1] \in S
  BY <1>1
<1>5. ASSUME NEW y, y \in Range(s) PROVE y \in Range(r) \cup {Head(s)}
  <2>1. PICK i \in 1..n : s[i] = y
    BY <1>1, <1>5, InSet
  <2>2. CASE i = 1
    BY <1>4, <2>1, <2>2
  <2>3. CASE i # 1
    <3>1. i - 1 \in 1..(n - 1) /\ (i - 1) + 1 = i
      BY <2>3
    <3>2. r[i - 1] = y
      BY <1>3, <2>1, <3>1
    <3> QED
      BY <1>3, <3>1, <3>2, InSet
  <2> QED
    BY <2>2, <2>3
<1>6. ASSUME NEW y, y \in Range(r) PROVE y \in Range(s)
  <2>1. PICK i \in 1..(n - 1) : r[i] = y
    BY <1>3, <1>6, InSet
  <2>2. i + 1 \in 1..n /\ s[i + 1] = y
    BY <1>3, <2>1
  <2> QED
    BY <1>1, <2>2, InSet
<1>7. Head(s) \in Range(s)
  BY <1>1, <1>4, InSet
<1> QED
  BY <1>2, <1>3, <1>4, <1>5, <1>6, <1>7

Steps == {"idle", "saved", "refresh"}
Blocks == People \cup {0}

\* The types of what changes, and of what is said about it.
StoreTypes ==
  /\ documents \subseteq People /\ unsaved \subseteq People /\ deleted \subseteq People
  /\ priority \in Priorities
  /\ mainQueue \in Seq(Blocks) /\ pending \in Seq(People)
  /\ writes \in 0..MaxWrites /\ moves \in 0..MaxMoves

\* The types of the lists.
ListTypes ==
  /\ cached = NotCached \/ cached \in Lists
  /\ pc \in [All -> Steps]
  /\ list \in [All -> Lists]

LEMMA TypesSplit == TypeOK <=> StoreTypes /\ ListTypes
BY DEF TypeOK, StoreTypes, ListTypes, Steps, Blocks, Priorities

\* A write is counted and queued.
LEMMA WriteTypes ==
  ASSUME StoreTypes, NEW c \in People, NEW docs \in SUBSET People, Write(c, docs)
  PROVE  /\ documents' \subseteq People /\ pending' \in Seq(People)
         /\ writes' \in 0..MaxWrites /\ moves' \in 0..MaxMoves
<1>1. pending' \in Seq(People)
  BY SetOfAppend DEF StoreTypes, Write
<1>2. writes' \in 0..MaxWrites /\ moves' \in 0..MaxMoves
  BY BoundsAssumption DEF StoreTypes, Write
<1> QED
  BY <1>1, <1>2 DEF Write

\* A block is queued.
LEMMA DispatchTypes ==
  ASSUME StoreTypes, NEW b \in Blocks, Dispatch(b)
  PROVE  mainQueue' \in Seq(Blocks)
BY SetOfAppend DEF StoreTypes, Dispatch
\* A thread that goes on keeps the list it has made.
LEMMA GotoTypes ==
  ASSUME ListTypes, NEW t \in All, NEW label \in Steps, Goto(t, label), UNCHANGED cached
  PROVE  ListTypes'
BY DEF ListTypes, Goto

\* A query makes a list.
LEMMA QueryTypes ==
  ASSUME StoreTypes, ListTypes, NEW t \in All, QueryAll(t), UNCHANGED cached
  PROVE  ListTypes'
<1>1. Sorted(documents) \in Lists
  BY SortedFields DEF StoreTypes
<1> QED
  BY <1>1 DEF ListTypes, QueryAll, Steps

\* Priorities are places in a list.
LEMMA PrioritiesTypes ==
  ASSUME priority \in Priorities, unsaved \subseteq People, NEW people \in Lists,
         RefreshPriorities(people)
  PROVE  /\ priority' \in Priorities /\ unsaved' \subseteq People /\ unsaved \subseteq unsaved'
         /\ \A c \in People : priority'[c] # priority[c] => c \in unsaved'
<1> DEFINE changed == {i \in DOMAIN people : priority[people[i]] # i - 1}
           place(c) == CHOOSE i \in changed : people[i] = c
<1>1. PICK n \in Nat : n = Len(people) /\ n <= N /\ DOMAIN people = 1..n
                       /\ \A i \in 1..n : people[i] \in People
  BY ListFields, ListLength
<1>2. changed \subseteq 1..n
  BY <1>1
<1>3. /\ priority' = [c \in People |-> IF \E i \in changed : people[i] = c THEN place(c) - 1 ELSE priority[c]]
      /\ unsaved' = unsaved \cup {people[i] : i \in changed}
  BY DEF RefreshPriorities
<1> HIDE DEF changed
<1>4. ASSUME NEW c \in People, \E i \in changed : people[i] = c
      PROVE  place(c) \in changed
  BY <1>4
<1> HIDE DEF place
<1>5. ASSUME NEW c \in People, \E i \in changed : people[i] = c
      PROVE  place(c) - 1 \in 0..(N - 1)
  <2>1. place(c) \in 1..n
    BY ZenonT(30), <1>2, <1>4, <1>5
  <2> QED
    BY <1>1, <2>1, BoundsAssumption
<1>6. priority' \in Priorities
  <2>1. \A c \in People : priority[c] \in 0..(N - 1)
    BY DEF Priorities
  <2> QED
    BY <1>3, <1>5, <2>1 DEF Priorities
<1>7. unsaved' \subseteq People /\ unsaved \subseteq unsaved'
  BY <1>1, <1>2, <1>3, ZenonT(30)
<1>8. ASSUME NEW c \in People, priority'[c] # priority[c] PROVE c \in unsaved'
  <2>1. \E i \in changed : people[i] = c
    BY <1>3, <1>8, ZenonT(30)
  <2> QED
    BY <1>3, <2>1
<1> QED
  BY <1>6, <1>7, <1>8

\* Everybody in the list gets their place in it as priority.
LEMMA PrioritiesPlaces ==
  ASSUME NEW people \in Lists, RefreshPriorities(people)
  PROVE  \A i \in 1..Len(people) : priority'[people[i]] = i - 1
<1> DEFINE changed == {i \in DOMAIN people : priority[people[i]] # i - 1}
           place(c) == CHOOSE i \in changed : people[i] = c
<1> SUFFICES ASSUME NEW i \in 1..Len(people) PROVE priority'[people[i]] = i - 1
  OBVIOUS
<1>1. /\ DOMAIN people = 1..Len(people) /\ people[i] \in People
      /\ \A j \in 1..Len(people) : people[j] = people[i] => j = i
  BY ListFields
<1>2. priority' = [c \in People |-> IF \E j \in changed : people[j] = c THEN place(c) - 1 ELSE priority[c]]
  BY DEF RefreshPriorities
<1>3. CASE i \in changed
  <2>1. place(people[i]) = i
    BY <1>1, <1>3
  <2> HIDE DEF changed, place
  <2> QED
    BY <1>1, <1>2, <1>3, <2>1
<1>4. CASE i \notin changed
  <2>1. ~\E j \in changed : people[j] = people[i]
    BY <1>1, <1>4
  <2>2. priority[people[i]] = i - 1
    BY <1>1, <1>4
  <2> HIDE DEF changed, place
  <2> QED
    BY <1>1, <1>2, <2>1, <2>2
<1> QED
  BY <1>3, <1>4

\* A move keeps what it does not write, and writes what it moves.
LEMMA MoveTypes ==
  ASSUME TypeOK, NEW moved \in Moves, NEW index \in 0..(N - 1), MoveContributors(moved, index)
  PROVE  /\ StoreTypes' /\ ListTypes' /\ unsaved \subseteq unsaved'
         /\ \A c \in People : priority'[c] # priority[c] => c \in unsaved'
<1>1. cached \in Lists /\ index \in Nat /\ index < Len(cached)
  BY TypesSplit DEF ListTypes, MoveContributors
<1>2. PICK people \in Lists : people = Moved(cached, moved, index)
  BY <1>1, MovedFields
<1>3. RefreshPriorities(people)
  BY <1>2 DEF MoveContributors
<1>4. priority \in Priorities /\ unsaved \subseteq People
  BY TypesSplit, ZenonT(30) DEF StoreTypes
<1>5. /\ priority' \in Priorities /\ unsaved' \subseteq People /\ unsaved \subseteq unsaved'
      /\ \A c \in People : priority'[c] # priority[c] => c \in unsaved'
  BY <1>3, <1>4, PrioritiesTypes, ZenonT(30)
<1>6. moves' \in 0..MaxMoves
  BY BoundsAssumption, TypesSplit DEF MoveContributors, StoreTypes
<1>7. deleted' = deleted
  BY <1>3 DEF RefreshPriorities
<1>8. UNCHANGED <<documents, cached, mainQueue, pending, threads, writes>>
  BY DEF MoveContributors
<1> QED
  BY <1>5, <1>6, <1>7, <1>8, TypesSplit DEF StoreTypes, ListTypes, threads

\* All contributors but the first are in the database when the package is opened.
LEMMA InitTypes == Init => TypeOK
<1> SUFFICES ASSUME Init PROVE TypeOK
  OBVIOUS
<1>1. 1 \in People /\ 0 \in 0..(N - 1)
  BY BoundsAssumption DEF People
<1>2. StoreTypes
  BY <1>1, BoundsAssumption DEF Init, StoreTypes, Priorities
<1>3. <<>> \in Lists
  BY DEF Lists, IsInjective
<1>4. ListTypes
  BY <1>3, ZenonT(30) DEF Init, ListTypes, Steps
<1> QED
  BY <1>2, <1>4, TypesSplit

\* Every step keeps the types.
LEMMA NextTypes == TypeOK /\ [Next]_vars => TypeOK'
<1> SUFFICES ASSUME TypeOK, [Next]_vars PROVE StoreTypes' /\ ListTypes'
  BY DEF TypeOK, StoreTypes, ListTypes, Steps, Blocks, Priorities
<1>0. StoreTypes /\ ListTypes
  BY TypesSplit
<1>a. "main" \in All /\ Readers \subseteq All
  BY ReadersAssumption DEF All
<1>1. ASSUME NEW t \in All, SaveCompleted(t) PROVE StoreTypes' /\ ListTypes'
  <2>1. mainQueue' \in Seq(Blocks)
    BY <1>0, <1>1, DispatchTypes DEF SaveCompleted, Blocks
  <2>2. ListTypes'
    BY <1>0, <1>1, GotoTypes, ZenonT(30) DEF SaveCompleted, Steps
  <2> QED
    BY <1>0, <1>1, <2>1, <2>2 DEF SaveCompleted, StoreTypes, objects
<1>2. ASSUME NEW t \in All, RefreshCachedContributors(t) PROVE StoreTypes' /\ ListTypes'
  <2>1. <<>> \in Lists
    BY DEF Lists, IsInjective
  <2> QED
    BY <1>0, <1>2, <2>1 DEF RefreshCachedContributors, StoreTypes, ListTypes, objects, Steps
<1>3. ASSUME NEW t \in All, NEW c \in People, Save(t, c) PROVE StoreTypes' /\ ListTypes'
  <2>1. documents \cup {c} \in SUBSET People /\ Write(c, documents \cup {c})
    BY <1>0, <1>3 DEF Save, StoreTypes
  <2>2. ListTypes'
    BY <1>0, <1>3, GotoTypes, ZenonT(30) DEF Save, Steps
  <2> QED
    BY <1>0, <1>3, <2>1, <2>2, WriteTypes, ZenonT(30) DEF Save, StoreTypes
<1>4. ASSUME NEW t \in All, NEW c \in People, DeleteDocument(t, c) PROVE StoreTypes' /\ ListTypes'
  <2>1. documents \ {c} \in SUBSET People /\ Write(c, documents \ {c})
    BY <1>0, <1>4 DEF DeleteDocument, StoreTypes
  <2>2. mainQueue' \in Seq(Blocks)
    BY <1>0, <1>4, DispatchTypes, ZenonT(30) DEF DeleteDocument, Blocks
  <2> QED
    BY <1>0, <1>4, <2>1, <2>2, WriteTypes, ZenonT(30) DEF DeleteDocument, StoreTypes, ListTypes, threads
<1>5. ASSUME NEW t \in Readers \cup {"main"}, AllContributors(t) PROVE StoreTypes' /\ ListTypes'
  <2>1. ListTypes'
    BY <1>0, <1>a, <1>5, QueryTypes, ZenonT(30) DEF AllContributors
  <2> QED
    BY <1>0, <1>5, <2>1 DEF AllContributors, StoreTypes, objects
<1>6. ASSUME NEW c \in People, NEW p \in 0..(N - 1), PullRevision(c, p) PROVE StoreTypes' /\ ListTypes'
  <2>1. documents \cup {c} \in SUBSET People /\ Write(c, documents \cup {c})
    BY <1>0, <1>6 DEF PullRevision, StoreTypes
  <2>2. mainQueue' \in Seq(Blocks)
    BY <1>0, <1>6, DispatchTypes DEF PullRevision, Blocks, StoreTypes
  <2>3. priority' \in Priorities
    BY <1>0, <1>6, ZenonT(30) DEF PullRevision, StoreTypes, Priorities
  <2> QED
    BY <1>0, <1>6, <2>1, <2>2, <2>3, WriteTypes, ZenonT(30) DEF PullRevision, StoreTypes, ListTypes, threads
<1>7. ASSUME NEW c \in People, PullDeletion(c) PROVE StoreTypes' /\ ListTypes'
  <2>1. documents \ {c} \in SUBSET People /\ Write(c, documents \ {c})
    BY <1>0, <1>7, ZenonT(30) DEF PullDeletion, StoreTypes
  <2>2. mainQueue' \in Seq(Blocks)
    BY <1>0, <1>7, DispatchTypes DEF PullDeletion, Blocks, StoreTypes
  <2> QED
    BY <1>0, <1>7, <2>1, <2>2, WriteTypes, ZenonT(30) DEF PullDeletion, StoreTypes, ListTypes, threads
<1>8. CASE DatabaseDidChange
  <2>1. Head(pending) \in People /\ pending' \in Seq(People)
    BY <1>0, <1>8, SetOfTail DEF DatabaseDidChange, StoreTypes
  <2>2. mainQueue' \in Seq(Blocks)
    BY <1>0, <1>8, <2>1, DispatchTypes DEF DatabaseDidChange, Blocks, StoreTypes
  <2> QED
    BY <1>0, <1>8, <2>1, <2>2 DEF DatabaseDidChange, StoreTypes, ListTypes, objects, threads
<1>9. CASE HasChangedContributor
  <2>1. mainQueue' \in Seq(Blocks)
    BY <1>0, <1>9, SetOfTail DEF HasChangedContributor, StoreTypes
  <2>2. ListTypes'
    BY <1>0, <1>a, <1>9, QueryTypes, ZenonT(30) DEF HasChangedContributor
  <2> QED
    BY <1>0, <1>9, <2>1, <2>2 DEF HasChangedContributor, StoreTypes, objects
<1>10. CASE HasRemovedContributor
  <2>1. mainQueue' \in Seq(Blocks) /\ Head(mainQueue) \in People
    BY <1>0, <1>10, SetOfTail DEF HasRemovedContributor, StoreTypes, Blocks
  <2>2. cached' = NotCached \/ cached' \in Lists
    BY <1>0, <1>10, <2>1, RemovedFields, NothingRemoved, ZenonT(30) DEF HasRemovedContributor, ListTypes
  <2> QED
    BY <1>0, <1>10, <2>1, <2>2 DEF HasRemovedContributor, StoreTypes, ListTypes, objects, threads
<1>11. ASSUME NEW moved \in Moves, NEW index \in 0..(N - 1), MoveContributors(moved, index)
       PROVE  StoreTypes' /\ ListTypes'
  BY <1>11, MoveTypes
<1>12. CASE UNCHANGED vars
  BY <1>0, <1>12 DEF vars, StoreTypes, ListTypes
<1> QED
  BY <1>1, <1>2, <1>3, <1>4, <1>5, <1>6, <1>7, <1>8, <1>9, <1>10, <1>11, <1>12, ZenonT(30) DEF Next

\* Type correctness: in particular lists have everyone once at most, and priorities
\* are places in a list of all contributors.
THEOREM TypeCorrect == Spec => []TypeOK
BY InitTypes, NextTypes, PTL DEF Spec
-----------------------------------------------------------------------------
(* The list and the database *)

\* The list that the main thread is about to cache, or that is cached.
View == IF pc["main"] = "refresh" THEN list["main"] ELSE cached
HasView == pc["main"] = "refresh" \/ cached # NotCached

\* A change is announced of a contributor that is in the database or deleted, and
\* only those that are deleted, which do not come back, are to be removed.  The main
\* thread alone makes lists.
QueueInv ==
  /\ documents \cap deleted = {}
  /\ Range(pending) \subseteq documents \cup deleted
  /\ Range(mainQueue) \subseteq deleted \cup {0}
  /\ \A t \in All : pc[t] = "refresh" => t = "main"

\* Unless it is to be refreshed, what the list lacks will be announced, and what it
\* has too many will be announced or removed.
ListInv ==
  /\ \A c \in documents : c \in Range(View) \cup Range(pending)
  /\ \A c \in Range(View) : c \in documents \cup Range(pending) \cup Range(mainQueue)

\* Of two that are in the wrong order, one is to be saved, announced or removed.
OrderInv ==
  \A i, j \in DOMAIN View : i < j /\ priority[View[j]] < priority[View[i]] =>
    {View[i], View[j]} \cap (unsaved \cup Range(pending) \cup Range(mainQueue)) # {}

ViewInv == HasView /\ 0 \notin Range(mainQueue) => ListInv /\ OrderInv

\* A view is a list.
LEMMA ViewIsList ==
  ASSUME TypeOK, HasView
  PROVE  View \in Lists
BY ReadersAssumption, ZenonT(30) DEF TypeOK, HasView, View, All

\* Steps that leave the list alone: what they write they announce.
LEMMA ViewKept ==
  ASSUME TypeOK, ViewInv, View' = View, HasView' = HasView,
         0 \notin Range(mainQueue)' =>
           /\ Range(mainQueue) \subseteq Range(mainQueue)'
           /\ documents' \subseteq documents \cup Range(pending)'
           /\ documents \subseteq documents' \cup Range(pending)' \cup Range(mainQueue)'
           /\ \A c \in Range(pending) : c \in Range(pending)' \/ (c \notin documents' /\ c \in Range(mainQueue)')
           /\ unsaved \subseteq unsaved' \cup Range(pending)'
           /\ \A c \in People : priority'[c] # priority[c] => c \in unsaved' \cup Range(pending)'
  PROVE  ViewInv'
<1> SUFFICES ASSUME HasView', 0 \notin Range(mainQueue)' PROVE ListInv' /\ OrderInv'
  BY ZenonT(30) DEF ViewInv
<1>1. HasView /\ 0 \notin Range(mainQueue)
  OBVIOUS
<1>2. ListInv /\ OrderInv
  BY <1>1, ZenonT(30) DEF ViewInv
<1>3. ListInv'
  BY <1>2 DEF ListInv
<1>4. PICK v \in Lists : v = View /\ v = View'
  BY <1>1, ViewIsList, ZenonT(30)
<1>5. ASSUME NEW i \in DOMAIN v, NEW j \in DOMAIN v, i < j, priority'[v[j]] < priority'[v[i]]
      PROVE  {v[i], v[j]} \cap (unsaved' \cup Range(pending)' \cup Range(mainQueue)') # {}
  <2>1. v[i] \in People /\ v[j] \in People
    BY <1>4, ListFields
  <2>2. CASE priority'[v[i]] # priority[v[i]] \/ priority'[v[j]] # priority[v[j]]
    BY <2>1, <2>2, ZenonT(30)
  <2>3. CASE priority'[v[i]] = priority[v[i]] /\ priority'[v[j]] = priority[v[j]]
    <3>1. PICK c \in {v[i], v[j]} : c \in unsaved \cup Range(pending) \cup Range(mainQueue)
      BY <1>2, <1>4, <1>5, <2>3, SMTT(30) DEF OrderInv
    <3>2. c \in unsaved' \cup Range(pending)' \cup Range(mainQueue)'
      BY <3>1, ZenonT(30)
    <3> QED
      BY <3>1, <3>2, ZenonT(30)
  <2> QED
    BY <2>2, <2>3, ZenonT(30)
<1>6. OrderInv'
  BY <1>4, <1>5, SMTT(30) DEF OrderInv
<1> QED
  BY <1>3, <1>6, ZenonT(30)

\* A query finds what there is.
LEMMA ViewQueried ==
  ASSUME TypeOK, QueryAll("main"), UNCHANGED <<documents, priority, unsaved>>
  PROVE  ViewInv'
<1>1. "main" \in All
  BY DEF All
<1>2. View' = Sorted(documents)
  BY <1>1 DEF View, QueryAll, TypeOK
<1>3. PICK v \in Lists : v = View' /\ Range(v) = documents /\ InOrder(v)
  BY <1>2, SortedFields, TypesSplit DEF StoreTypes
<1>4. ListInv'
  BY <1>3 DEF ListInv
<1>5. OrderInv'
  <2>1. \A i \in DOMAIN v : priority[v[i]] \in Nat
    BY <1>3, ListFields, TypesSplit DEF StoreTypes, Priorities
  <2>2. \A i, j \in DOMAIN v : i < j => ~(priority[v[j]] < priority[v[i]])
    BY <1>3, <2>1 DEF InOrder
  <2> QED
    BY <1>3, <2>2 DEF OrderInv
<1> QED
  BY <1>4, <1>5 DEF ViewInv
\* A contributor is removed from the list; it is deleted already.
LEMMA ViewRemoved ==
  ASSUME TypeOK, QueueInv, ViewInv, HasRemovedContributor
  PROVE  ViewInv'
<1> SUFFICES ASSUME HasView', 0 \notin Range(mainQueue)' PROVE ListInv' /\ OrderInv'
  BY DEF ViewInv
<1>1. PICK c \in People : c = Head(mainQueue) /\ Range(mainQueue) = Range(mainQueue)' \cup {c}
  BY SetOfTail, TypesSplit DEF HasRemovedContributor, StoreTypes, Blocks
<1>2. pc["main"] = "idle" /\ UNCHANGED <<documents, priority, unsaved, pending, pc, list>>
  BY DEF HasRemovedContributor, Idle, objects, threads
<1>3. View = cached /\ View' = cached' /\ cached' # NotCached
  BY <1>2 DEF View, HasView
<1>4. cached # NotCached
  BY <1>1, <1>3, NothingRemoved DEF HasRemovedContributor
<1>5. PICK v \in Lists : v = cached
  BY <1>4 DEF TypeOK
<1>6. PICK r \in Lists :
        /\ r = cached' /\ Range(r) = Range(v) \ {c}
        /\ OrderKept(v, r, {})
  BY <1>1, <1>5, RemovedFields, SMTT(30) DEF HasRemovedContributor
<1>7. c \notin documents /\ 0 \notin Range(mainQueue)
  BY <1>1 DEF QueueInv, People
<1>8. ListInv /\ OrderInv
  BY <1>3, <1>4, <1>7, ZenonT(30) DEF ViewInv, HasView
<1>9. ListInv'
  <2>1. \A d \in documents : d \in Range(v) \cup Range(pending)
    BY <1>3, <1>5, <1>8 DEF ListInv
  <2>2. \A d \in Range(v) : d \in documents \cup Range(pending) \cup Range(mainQueue)
    BY <1>3, <1>5, <1>8 DEF ListInv
  <2> QED
    BY <1>1, <1>2, <1>3, <1>6, <1>7, <2>1, <2>2, ZenonT(30) DEF ListInv
<1>10. ASSUME NEW i \in DOMAIN r, NEW j \in DOMAIN r, i < j, priority[r[j]] < priority[r[i]]
       PROVE  {r[i], r[j]} \cap (unsaved \cup Range(pending) \cup Range(mainQueue)') # {}
  <2>1. PICK k \in DOMAIN v, l \in DOMAIN v : k < l /\ v[k] = r[i] /\ v[l] = r[j]
    BY <1>6, <1>10 DEF OrderKept
  <2>2. PICK d \in {r[i], r[j]} : d \in unsaved \cup Range(pending) \cup Range(mainQueue)
    BY <1>3, <1>5, <1>8, <1>10, <2>1 DEF OrderInv
  <2>3. d # c
    BY <1>6, InSet, ZenonT(30)
  <2> QED
    BY <1>1, <2>2, <2>3, ZenonT(30)
<1>11. OrderInv'
  BY <1>2, <1>3, <1>6, <1>10, ZenonT(30) DEF OrderInv
<1> QED
  BY <1>9, <1>11

IInv == TypeOK /\ QueueInv /\ ViewInv

\* A write is announced, and an announcement adds a block.
LEMMA WriteSets ==
  ASSUME TypeOK, NEW c \in People, NEW docs, Write(c, docs)
  PROVE  documents' = docs /\ Range(pending)' = Range(pending) \cup {c}
BY SetOfAppend, TypesSplit DEF Write, StoreTypes

LEMMA DispatchSets ==
  ASSUME TypeOK, NEW b \in Blocks, Dispatch(b)
  PROVE  Range(mainQueue)' = Range(mainQueue) \cup {b}
BY SetOfAppend, TypesSplit DEF Dispatch, StoreTypes

\* The list stays where no thread makes or assigns one.
LEMMA ViewSame ==
  ASSUME UNCHANGED <<cached, list>>, pc["main"] = "refresh" <=> pc'["main"] = "refresh"
  PROVE  View' = View /\ HasView' = HasView
BY DEF View, HasView

\* Saving goes on to posting.
LEMMA SaveKeeps ==
  ASSUME IInv, NEW t \in All, NEW c \in People, Save(t, c)
  PROVE  QueueInv' /\ ViewInv'
<1>1. documents' = documents \cup {c} /\ Range(pending)' = Range(pending) \cup {c}
  BY WriteSets DEF IInv, Save
<1>2. /\ pc' = [pc EXCEPT ![t] = "saved"] /\ pc[t] = "idle" /\ c \notin deleted
      /\ unsaved' = unsaved \ {c} /\ UNCHANGED <<list, priority, deleted, cached, mainQueue>>
  BY DEF Save, Goto, Idle
<1>3. \A u \in All : pc'[u] = "refresh" <=> pc[u] = "refresh"
  BY <1>2, ZenonT(30) DEF IInv, TypeOK
<1>4. QueueInv'
  BY <1>1, <1>2, <1>3 DEF QueueInv, IInv
<1>5. View' = View /\ HasView' = HasView
  BY <1>2, <1>3, ViewSame DEF All
<1> QED
  BY <1>1, <1>2, <1>4, <1>5, ViewKept DEF IInv

\* What is posted refreshes the list.
LEMMA SaveCompletedKeeps ==
  ASSUME IInv, NEW t \in All, SaveCompleted(t)
  PROVE  QueueInv' /\ ViewInv'
<1>1. Range(mainQueue)' = Range(mainQueue) \cup {0}
  BY DispatchSets DEF IInv, SaveCompleted, Blocks
<1>2. /\ pc' = [pc EXCEPT ![t] = "idle"]
      /\ UNCHANGED <<documents, deleted, pending>>
  BY DEF SaveCompleted, Goto, objects
<1>3. QueueInv'
  BY <1>1, <1>2, ZenonT(30) DEF QueueInv, IInv, TypeOK
<1> QED
  BY <1>1, <1>3 DEF ViewInv
\* Deletions are announced, on the spot or later.
LEMMA DeletionKeeps ==
  ASSUME IInv, NEW c \in documents, Write(c, documents \ {c}), deleted' = deleted \cup {c},
         Dispatch(c) \/ UNCHANGED mainQueue, UNCHANGED <<priority, unsaved, cached, threads>>
  PROVE  QueueInv' /\ ViewInv'
<1>0. c \in People /\ c # 0
  BY DEF IInv, TypeOK, People
<1>1. documents' = documents \ {c} /\ Range(pending)' = Range(pending) \cup {c}
  BY <1>0, WriteSets DEF IInv
<1>2. Range(mainQueue)' = Range(mainQueue) \/ Range(mainQueue)' = Range(mainQueue) \cup {c}
  BY <1>0, DispatchSets, ZenonT(30) DEF IInv, Blocks
<1>3. QueueInv'
  BY <1>0, <1>1, <1>2, ZenonT(30) DEF QueueInv, IInv, threads
<1>4. View' = View /\ HasView' = HasView
  BY ViewSame, ZenonT(30) DEF threads
<1> QED
  BY <1>1, <1>2, <1>3, <1>4, ViewKept, ZenonT(30) DEF IInv

\* So are revisions that are pulled.
LEMMA PullRevisionKeeps ==
  ASSUME IInv, NEW c \in People, NEW p \in 0..(N - 1), PullRevision(c, p)
  PROVE  QueueInv' /\ ViewInv'
<1>1. documents' = documents \cup {c} /\ Range(pending)' = Range(pending) \cup {c}
  BY WriteSets DEF IInv, PullRevision
<1>2. Range(mainQueue)' = Range(mainQueue) \/ Range(mainQueue)' = Range(mainQueue) \cup {0}
  BY DispatchSets DEF IInv, PullRevision, Blocks
<1>3. /\ c \notin deleted /\ UNCHANGED <<unsaved, deleted, cached, pc, list>>
      /\ \A d \in People \ {c} : priority'[d] = priority[d]
  BY ZenonT(30) DEF PullRevision, threads, IInv, TypeOK
<1>4. QueueInv'
  BY <1>1, <1>2, <1>3, ZenonT(30) DEF QueueInv, IInv
<1>5. View' = View /\ HasView' = HasView
  BY <1>3, ViewSame, ZenonT(30)
<1> QED
  BY <1>1, <1>2, <1>3, <1>4, <1>5, ViewKept, ZenonT(30) DEF IInv

\* The announcement of a contributor that is there refreshes the list, that of one
\* that is not has it removed, at the latest when it is the last about it.
LEMMA DatabaseDidChangeKeeps ==
  ASSUME IInv, DatabaseDidChange
  PROVE  QueueInv' /\ ViewInv'
<1>1. PICK c \in People : c = Head(pending) /\ Range(pending) = Range(pending)' \cup {c}
  BY SetOfTail, TypesSplit DEF DatabaseDidChange, StoreTypes, IInv
<1>2. UNCHANGED <<documents, priority, unsaved, deleted, cached, pc, list>>
  BY DEF DatabaseDidChange, objects, threads
<1>3. View' = View /\ HasView' = HasView
  BY <1>2, ViewSame
<1>4. CASE c \in documents
  <2>1. Range(mainQueue)' = Range(mainQueue) \cup {0}
    BY <1>1, <1>4, DispatchSets, ZenonT(30) DEF DatabaseDidChange, Blocks, IInv
  <2>2. QueueInv'
    BY <1>1, <1>2, <2>1, ZenonT(30) DEF QueueInv, IInv
  <2> QED
    BY <2>1, <2>2, ZenonT(30) DEF ViewInv
<1>5. CASE c \notin documents
  <2>1. \/ c \notin Range(pending)' /\ Range(mainQueue)' = Range(mainQueue) \cup {c}
        \/ c \in Range(pending)' /\ Range(mainQueue)' = Range(mainQueue)
    BY <1>1, <1>5, DispatchSets, ZenonT(30) DEF DatabaseDidChange, Blocks, IInv
  <2>2. c \in deleted
    BY <1>1, <1>5, ZenonT(30) DEF QueueInv, IInv
  <2>3. QueueInv'
    BY <1>1, <1>2, <2>1, <2>2, ZenonT(30) DEF QueueInv, IInv
  <2> QED
    BY <1>1, <1>2, <1>3, <1>5, <2>1, <2>3, ViewKept, ZenonT(30) DEF IInv
<1> QED
  BY <1>4, <1>5

\* A move leaves contributors to be saved.
LEMMA MoveKeeps ==
  ASSUME IInv, NEW moved \in Moves, NEW index \in 0..(N - 1), MoveContributors(moved, index)
  PROVE  QueueInv' /\ ViewInv'
<1>1. unsaved \subseteq unsaved' /\ \A c \in People : priority'[c] # priority[c] => c \in unsaved'
  BY MoveTypes, ZenonT(30) DEF IInv
<1>2. UNCHANGED <<documents, deleted, cached, mainQueue, pending, pc, list>>
  BY ZenonT(30) DEF MoveContributors, RefreshPriorities, threads
<1>3. View' = View /\ HasView' = HasView
  BY <1>2, ViewSame, ZenonT(30)
<1>4. QueueInv'
  BY <1>2 DEF QueueInv, IInv
<1> QED
  BY <1>1, <1>2, <1>3, <1>4, ViewKept, ZenonT(30) DEF IInv

\* The steps of the main thread that make a list, assign it or take from it.
LEMMA ListKeeps ==
  ASSUME IInv, AllContributors("main") \/ HasChangedContributor \/ HasRemovedContributor
               \/ \E t \in All : RefreshCachedContributors(t)
  PROVE  QueueInv' /\ ViewInv'
<1>0. "main" \in All /\ pc \in [All -> Steps]
  BY DEF All, IInv, TypeOK, Steps
<1>1. CASE AllContributors("main")
  <2>1. QueueInv'
    BY <1>0, <1>1, ZenonT(30) DEF AllContributors, QueryAll, objects, QueueInv, IInv
  <2> QED
    BY <1>1, <2>1, ViewQueried, ZenonT(30) DEF AllContributors, objects, IInv
<1>2. CASE HasChangedContributor
  <2>1. Range(mainQueue)' \subseteq Range(mainQueue)
    BY <1>2, SetOfTail, TypesSplit, ZenonT(30) DEF HasChangedContributor, StoreTypes, IInv
  <2>2. QueueInv'
    BY <1>0, <1>2, <2>1 DEF HasChangedContributor, QueryAll, objects, QueueInv, IInv
  <2> QED
    BY <1>2, <2>2, ViewQueried DEF HasChangedContributor, objects, IInv
<1>3. CASE HasRemovedContributor
  <2>1. Range(mainQueue)' \subseteq Range(mainQueue)
    BY <1>3, SetOfTail, TypesSplit, ZenonT(30) DEF HasRemovedContributor, StoreTypes, IInv
  <2>2. QueueInv'
    BY <1>3, <2>1 DEF HasRemovedContributor, objects, threads, QueueInv, IInv
  <2> QED
    BY <1>3, <2>2, ViewRemoved, ZenonT(30) DEF IInv
<1>4. ASSUME NEW t \in All, RefreshCachedContributors(t) PROVE QueueInv' /\ ViewInv'
  <2>1. t = "main" /\ pc["main"] = "refresh"
    BY <1>4, ZenonT(30) DEF RefreshCachedContributors, QueueInv, IInv
  <2>2. /\ cached' = list["main"] /\ pc' = [pc EXCEPT !["main"] = "idle"]
        /\ UNCHANGED <<documents, priority, unsaved, deleted, mainQueue, pending>>
    BY <1>4, <2>1, ZenonT(30) DEF RefreshCachedContributors, objects
  <2>3. View' = View /\ HasView
    BY <1>0, <2>1, <2>2, ZenonT(30) DEF View, HasView
  <2>4. QueueInv'
    BY <1>0, <2>2, ZenonT(30) DEF QueueInv, IInv
  <2>5. ViewInv'
    BY <2>2, <2>3, SMTT(30) DEF ViewInv, ListInv, OrderInv, IInv
  <2> QED
    BY <2>4, <2>5, ZenonT(30)
<1> QED
  BY <1>1, <1>2, <1>3, <1>4

\* The invariant holds throughout, if the main thread alone asks for the list.
LEMMA ListInductive ==
  ASSUME Readers = {}
  PROVE  Spec => []IInv
<1>1. Init => IInv
  <2> SUFFICES ASSUME Init PROVE IInv
    OBVIOUS
  <2>1. Range(<<>>) = {}
    BY DEF Range
  <2>2. QueueInv
    BY <2>1 DEF Init, QueueInv
  <2>3. ~HasView
    BY DEF Init, HasView, All
  <2> QED
    BY <2>2, <2>3, InitTypes DEF IInv, ViewInv
<1>2. IInv /\ [Next]_vars => IInv'
  <2> SUFFICES ASSUME IInv, [Next]_vars PROVE QueueInv' /\ ViewInv'
    BY NextTypes DEF IInv
  <2>1. ASSUME NEW t \in All, NEW c \in People, DeleteDocument(t, c) PROVE QueueInv' /\ ViewInv'
    BY <2>1, DeletionKeeps DEF DeleteDocument
  <2>2. ASSUME NEW c \in People, PullDeletion(c) PROVE QueueInv' /\ ViewInv'
    BY <2>2, DeletionKeeps DEF PullDeletion
  <2>3. CASE UNCHANGED vars
    <3>1. UNCHANGED <<documents, priority, unsaved, deleted, cached, mainQueue, pending, pc, list>>
      BY <2>3 DEF vars
    <3>2. QueueInv'
      BY <3>1 DEF IInv, QueueInv
    <3>3. View' = View /\ (HasView' <=> HasView)
      BY <3>1, ZenonT(30) DEF View, HasView
    <3>4. (ListInv' <=> ListInv) /\ (OrderInv' <=> OrderInv)
      BY <3>1, <3>3 DEF ListInv, OrderInv
    <3> QED
      BY <3>1, <3>2, <3>3, <3>4 DEF IInv, ViewInv
  <2> QED
    BY ZenonT(30), <2>1, <2>2, <2>3, SaveKeeps, SaveCompletedKeeps, PullRevisionKeeps,
       DatabaseDidChangeKeeps, MoveKeeps, ListKeeps DEF Next
<1> QED
  BY <1>1, <1>2, PTL DEF Spec

\* Once everything is announced the cached list is that of the database, if the main
\* thread alone asks for it.
THEOREM ListIsTheDatabase ==
  ASSUME Readers = {}
  PROVE  Spec => []ListAgrees
<1>1. IInv => ListAgrees
  <2> SUFFICES ASSUME IInv, Quiet, cached # NotCached PROVE Range(cached) = documents
    BY DEF ListAgrees
  <2>1. Range(mainQueue) = {} /\ Range(pending) = {}
    BY DEF Quiet, Range
  <2>2. View = cached /\ HasView
    BY ZenonT(30) DEF Quiet, Idle, View, HasView, All
  <2> QED
    BY <2>1, <2>2 DEF IInv, ViewInv, ListInv
<1> QED
  BY <1>1, ListInductive, PTL

\* Its order is that of the priorities, once these are saved as well.
THEOREM OrderIsThatOfPriorities ==
  ASSUME Readers = {}
  PROVE  Spec => []OrderAgrees
<1>1. IInv => OrderAgrees
  <2> SUFFICES ASSUME IInv, Quiet, unsaved \subseteq deleted, cached # NotCached PROVE InOrder(cached)
    BY DEF OrderAgrees
  <2>1. Range(mainQueue) = {} /\ Range(pending) = {}
    BY DEF Quiet, Range
  <2>2. View = cached /\ HasView
    BY DEF Quiet, Idle, View, HasView, All
  <2>3. Range(cached) = documents /\ OrderInv
    BY <2>1, <2>2, ZenonT(30) DEF IInv, ViewInv, ListInv
  <2>4. cached \in Lists
    BY DEF IInv, TypeOK
  <2>5. ASSUME NEW i \in DOMAIN cached, NEW j \in DOMAIN cached, i < j,
               priority[cached[j]] < priority[cached[i]]
        PROVE  FALSE
    <3>1. PICK c \in {cached[i], cached[j]} : c \in unsaved
      BY <2>1, <2>2, <2>3, <2>5, SMTT(30) DEF OrderInv
    <3>2. c \in documents
      BY <2>3, <3>1, InSet, ZenonT(30)
    <3> QED
      BY <3>1, <3>2, ZenonT(30) DEF IInv, QueueInv
  <2>6. \A i \in DOMAIN cached : priority[cached[i]] \in Nat
    BY <2>4, ListFields, TypesSplit DEF IInv, StoreTypes, Priorities
  <2> QED
    BY <2>5, <2>6 DEF InOrder
<1> QED
  BY <1>1, ListInductive, PTL

\* A move gives everybody a priority of their own, does not reorder those that are
\* not moved, and puts those that come from behind the index there, in the order
\* given (+moveContributors:amongstContributors:toIndex:indexChangeHandler: and
\* +refreshPrioritiesForContributors:changedContributors:).
THEOREM MovesKeepTogether == Spec => MovesTogether
<1> DEFINE Step(moved, index) ==
      LET others == Range(cached) \ Range(moved) IN
      /\ \A c, d \in others \cup Range(moved) : priority'[c] = priority'[d] => c = d
      /\ \A c, d \in others : Position(cached, c) < Position(cached, d) => priority'[c] < priority'[d]
      /\ (\A i \in DOMAIN moved : moved[i] \in Range(cached) /\ Position(cached, moved[i]) > index)
           => \A i \in DOMAIN moved : priority'[moved[i]] = index + i - 1
<1>1. ASSUME TypeOK, NEW moved \in Moves, NEW index \in 0..(N - 1), MoveContributors(moved, index)
      PROVE  Step(moved, index)
  <2>1. cached \in Lists /\ index \in Nat /\ index < Len(cached)
    BY <1>1, TypesSplit DEF ListTypes, MoveContributors
  <2>2. PICK people : people = Moved(cached, moved, index)
    OBVIOUS
  <2>3. /\ people \in Lists
        /\ Range(people) = Range(cached) \cup Range(moved)
        /\ OrderKept(cached, people, Range(moved))
    BY <2>1, <2>2, MovedFields, ZenonT(30)
  <2>4. ASSUME \A j \in DOMAIN moved : \E p \in 1..Len(cached) : p > index /\ cached[p] = moved[j],
               NEW j \in DOMAIN moved
        PROVE  index + j \in 1..Len(people) /\ people[index + j] = moved[j]
    BY <2>1, <2>2, <2>4, MovedFields, ZenonT(30)
  <2>5. RefreshPriorities(people)
    BY <1>1, <2>2, ZenonT(30) DEF MoveContributors
  <2>6. \A i \in 1..Len(people) : priority'[people[i]] = i - 1
    BY <2>3, <2>5, PrioritiesPlaces, ZenonT(30)
  <2>7. \A x : x \in Range(people) <=> \E i \in 1..Len(people) : people[i] = x
    BY <2>3, ListFields, InSet
  <2>8. Len(people) \in Nat
    BY <2>3, ListFields
  <2>9. \A k \in 1..Len(cached) : Position(cached, cached[k]) = k
    BY <2>1, ListFields DEF Position
  <2>10. \A x : x \in Range(cached) <=> \E i \in 1..Len(cached) : cached[i] = x
    BY <2>1, ListFields, InSet, ZenonT(30)
  <2>11. ASSUME NEW c \in Range(people), NEW d \in Range(people), priority'[c] = priority'[d]
         PROVE  c = d
    <3>1. PICK i \in 1..Len(people), j \in 1..Len(people) : people[i] = c /\ people[j] = d
      BY <2>7
    <3>2. i = j
      BY <2>6, <2>8, <2>11, <3>1
    <3> QED
      BY <3>1, <3>2
  <2>12. ASSUME NEW c \in Range(cached) \ Range(moved), NEW d \in Range(cached) \ Range(moved),
                Position(cached, c) < Position(cached, d)
         PROVE  priority'[c] < priority'[d]
    <3>1. PICK i \in 1..Len(people), j \in 1..Len(people) : people[i] = c /\ people[j] = d
      BY <2>3, <2>7
    <3>2. priority'[c] = i - 1 /\ priority'[d] = j - 1
      BY <2>6, <3>1
    <3>3. Position(cached, c) \in Nat /\ Position(cached, d) \in Nat
      BY <2>9, <2>10
    <3>4. i < j
      <4> SUFFICES ASSUME ~(i < j) PROVE FALSE
        OBVIOUS
      <4>1. CASE i = j
        BY <2>12, <3>1, <3>3, <4>1
      <4>2. CASE j < i
        <5>1. PICK k \in 1..Len(cached), l \in 1..Len(cached) : k < l /\ cached[k] = d /\ cached[l] = c
          <6>1. DOMAIN people = 1..Len(people) /\ DOMAIN cached = 1..Len(cached)
            BY <2>1, <2>3, ListFields, ZenonT(30)
          <6> QED
            BY <2>3, <3>1, <4>2, <6>1, SMTT(30) DEF OrderKept
        <5>2. Position(cached, d) = k /\ Position(cached, c) = l
          BY <2>9, <5>1, ZenonT(30)
        <5> QED
          BY <2>12, <5>1, <5>2
      <4> QED
        BY <2>8, <4>1, <4>2
    <3> QED
      BY <3>2, <3>4
  <2>13. ASSUME \A i \in DOMAIN moved : moved[i] \in Range(cached) /\ Position(cached, moved[i]) > index,
                NEW i \in DOMAIN moved
         PROVE  priority'[moved[i]] = index + i - 1
    <3>1. ASSUME NEW j \in DOMAIN moved PROVE \E p \in 1..Len(cached) : p > index /\ cached[p] = moved[j]
      BY <2>9, <2>10, <2>13, ZenonT(30)
    <3>2. index + i \in 1..Len(people) /\ people[index + i] = moved[i]
      BY <2>4, <3>1, ZenonT(30)
    <3>3. PICK k \in 1..Len(people) : k = index + i
      BY <3>2
    <3>4. priority'[people[k]] = k - 1
      BY <2>6, ZenonT(30)
    <3>5. people[k] = moved[i]
      BY <3>2, <3>3, ZenonT(30)
    <3>6. i \in Nat /\ index \in Nat
      BY <2>1, BoundsAssumption DEF Moves
    <3>7. k - 1 = index + i - 1
      BY <3>3, <3>6
    <3> QED
      BY <3>4, <3>5, <3>7, ZenonT(30)
  <2>14. (Range(cached) \ Range(moved)) \cup Range(moved) = Range(people)
    BY <2>3
  <2> QED
    BY <2>11, <2>12, <2>13, <2>14, ZenonT(30)
<1> HIDE DEF Step
<1>2. TypeOK => [Quiet /\ moves' # moves => \A moved \in Moves, index \in 0..(N - 1) :
                   MoveContributors(moved, index) => Step(moved, index)]_vars
  BY <1>1
<1> USE DEF Step
<1> QED
  BY <1>2, TypeCorrect, PTL DEF MovesTogether
=============================================================================
