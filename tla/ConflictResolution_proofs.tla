----------------------- MODULE ConflictResolution_proofs -----------------------
(***************************************************************************)
(* Proofs about ConflictResolution for any number of replicas and of       *)
(* conflicting edits: that the order of the revisions is total, so that a  *)
(* resolution always has a revision to keep; that a replica that resolves  *)
(* a conflict on its own never loses the document, whatever its user edits *)
(* meanwhile; and that connected replicas do not lose it, if nobody edits  *)
(* and no two of the conflicting edits have the same updatedAt.            *)
(***************************************************************************)
EXTENDS ConflictResolution, FiniteSetTheorems, SequenceTheorems, TLAPS

-----------------------------------------------------------------------------
(* Revisions and their order *)

LiveEdits == {edit \in Edits : ~edit.deleted}

\* A deletion is not edited any further.
Revisions == {rev \in Seq(Edits) : rev # <<>> /\ \A i \in 1..(Len(rev) - 1) : rev[i] \in LiveEdits}
LiveRevisions == {rev \in Revisions : Last(rev) \in LiveEdits}

\* A non-empty set of natural numbers has a least element.
LEMMA LeastNat ==
  ASSUME NEW S \in SUBSET Nat, S # {}
  PROVE  \E m \in S : \A n \in S : m <= n
<1>1. PICK m \in S : \A n \in S : <<n, m>> \notin OpToRel(<, Nat)
  BY NatLessThanWellFounded, WFMin, ZenonT(30)
<1>2. ASSUME NEW n \in S, ~(m <= n) PROVE FALSE
  <2>1. n < m
    BY <1>2
  <2>2. <<n, m>> \in Nat \X Nat /\ <<n, m>>[1] < <<n, m>>[2]
    BY <2>1
  <2>3. <<n, m>> \in OpToRel(<, Nat)
    BY <2>2, ZenonT(30) DEF OpToRel
  <2> QED
    BY <1>1, <2>3, ZenonT(30)
<1> QED
  BY <1>2

\* What an edit is made of; edits that differ have different digests, one before the
\* other.
LEMMA EditFields ==
  /\ \A e \in Edits : e.by \in Nat /\ e.updatedAt \in Nat /\ e.deleted \in BOOLEAN
  /\ \A e, f \in LiveEdits : e # f => DigestBefore(e, f) \/ DigestBefore(f, e)
<1>1. N + Len(Times) \in Nat /\ MaxTime \in Nat
  BY NAssumption, BoundsAssumption, TimesAssumption
<1>2. ASSUME NEW e \in Edits
      PROVE  e.by \in Nat /\ e.updatedAt \in Nat /\ e.deleted \in BOOLEAN
  <2>1. CASE e = Tombstone
    BY <2>1 DEF Tombstone
  <2>2. CASE e \in [by : 0..(N + Len(Times)), updatedAt : 0..MaxTime, deleted : {FALSE}]
    <3>1. e.by \in 0..(N + Len(Times)) /\ e.updatedAt \in 0..MaxTime
      BY <2>2
    <3>2. e.deleted = FALSE
      BY <2>2, ZenonT(30)
    <3>3. e.by \in Nat /\ e.updatedAt \in Nat
      BY <1>1, <3>1
    <3> QED
      BY <3>2, <3>3, ZenonT(30)
  <2> QED
    BY <2>1, <2>2, ZenonT(30) DEF Edits
<1>3. ASSUME NEW e \in LiveEdits
      PROVE  e \in [by : 0..(N + Len(Times)), updatedAt : 0..MaxTime, deleted : {FALSE}]
  <2>1. Tombstone.deleted = TRUE
    BY DEF Tombstone
  <2>2. e \in Edits /\ e # Tombstone
    BY <2>1, ZenonT(30) DEF LiveEdits
  <2> QED
    BY <2>2, ZenonT(30) DEF Edits
<1>4. ASSUME NEW e \in LiveEdits, NEW f \in LiveEdits, e.by = f.by, e.updatedAt = f.updatedAt
      PROVE  e = f
  <2>1. e = [by |-> e.by, updatedAt |-> e.updatedAt, deleted |-> e.deleted]
    BY ZenonT(30), <1>3
  <2>2. f = [by |-> f.by, updatedAt |-> f.updatedAt, deleted |-> f.deleted]
    BY ZenonT(30), <1>3
  <2>3. e.deleted = FALSE /\ f.deleted = FALSE
    BY <1>3, ZenonT(30)
  <2> QED
    BY ZenonT(30), <1>4, <2>1, <2>2, <2>3
<1> QED
  BY <1>2, <1>4 DEF DigestBefore, LiveEdits

\* A live revision is a sequence of edits none of which is a deletion.
LEMMA LiveFields ==
  ASSUME NEW rev \in LiveRevisions
  PROVE  /\ rev \in Seq(LiveEdits) /\ Len(rev) \in Nat \ {0}
         /\ \A i \in 1..Len(rev) : rev[i] \in LiveEdits /\ rev[i] \in Edits
         /\ Last(rev).updatedAt \in Nat
<1>1. rev \in Seq(Edits) /\ Len(rev) \in Nat \ {0}
  BY DEF LiveRevisions, Revisions
<1>2. \A i \in 1..Len(rev) : rev[i] \in LiveEdits
  BY <1>1 DEF LiveRevisions, Revisions, Last
<1>3. rev \in Seq(LiveEdits)
  BY <1>1, <1>2
<1> QED
  BY <1>1, <1>2, <1>3, EditFields DEF LiveEdits, LiveRevisions

\* Identifiers of revisions are compared like words: they are ordered totally.
LEMMA CompareIrreflexive ==
  ASSUME NEW a \in LiveRevisions
  PROVE  ~CompareRevIDs(a, a)
BY LiveFields, EditFields DEF CompareRevIDs, DigestBefore

\* Likewise.
LEMMA CompareTransitive ==
  ASSUME NEW a \in LiveRevisions, NEW b \in LiveRevisions, NEW c \in LiveRevisions,
         CompareRevIDs(a, b), CompareRevIDs(b, c)
  PROVE  CompareRevIDs(a, c)
<1>1. Len(a) \in Nat /\ Len(b) \in Nat /\ Len(c) \in Nat
  BY LiveFields
<1>2. CASE Len(a) < Len(b) \/ Len(b) < Len(c)
  BY <1>1, <1>2 DEF CompareRevIDs
<1>3. CASE Len(a) = Len(b) /\ Len(b) = Len(c)
  <2>1. PICK i \in 1..Len(a) : (\A k \in 1..(i - 1) : a[k] = b[k]) /\ DigestBefore(a[i], b[i])
    BY <1>1, <1>3 DEF CompareRevIDs
  <2>2. PICK j \in 1..Len(a) : (\A k \in 1..(j - 1) : b[k] = c[k]) /\ DigestBefore(b[j], c[j])
    BY <1>1, <1>3 DEF CompareRevIDs
  <2>3. CASE i < j
    <3>1. (\A k \in 1..(i - 1) : a[k] = c[k]) /\ b[i] = c[i]
      BY <1>1, <2>1, <2>2, <2>3
    <3> QED
      BY <1>3, <2>1, <3>1 DEF CompareRevIDs
  <2>4. CASE j < i
    <3>1. (\A k \in 1..(j - 1) : a[k] = c[k]) /\ a[j] = b[j]
      BY <1>1, <2>1, <2>2, <2>4
    <3> QED
      BY <1>3, <2>2, <3>1 DEF CompareRevIDs
  <2>5. CASE i = j
    <3>1. a[i] \in Edits /\ b[i] \in Edits /\ c[i] \in Edits
      BY <1>3, <2>5, LiveFields
    <3>2. DigestBefore(a[i], c[i])
      BY <2>1, <2>2, <2>5, <3>1, EditFields, SMTT(30) DEF DigestBefore
    <3> QED
      BY <1>3, <2>1, <2>2, <2>5, <3>2 DEF CompareRevIDs
  <2> QED
    BY <1>1, <2>3, <2>4, <2>5
<1> QED
  BY <1>1, <1>2, <1>3 DEF CompareRevIDs

\* Likewise.
LEMMA CompareTotal ==
  ASSUME NEW a \in LiveRevisions, NEW b \in LiveRevisions, a # b
  PROVE  CompareRevIDs(a, b) \/ CompareRevIDs(b, a)
<1>1. Len(a) \in Nat /\ Len(b) \in Nat /\ a \in Seq(LiveEdits) /\ b \in Seq(LiveEdits)
  BY LiveFields
<1>2. CASE Len(a) # Len(b)
  BY <1>1, <1>2 DEF CompareRevIDs
<1>3. CASE Len(a) = Len(b)
  <2> DEFINE D == {i \in 1..Len(a) : a[i] # b[i]}
  <2>1. D # {} /\ D \subseteq Nat
    BY <1>1, <1>3, SeqEqual
  <2>2. PICK i \in D : \A n \in D : i <= n
    BY ZenonT(30), <2>1, LeastNat
  <2>3. \A k \in 1..(i - 1) : a[k] = b[k]
    BY <1>1, <2>2
  <2>4. DigestBefore(a[i], b[i]) \/ DigestBefore(b[i], a[i])
    BY <1>1, <1>3, EditFields
  <2> QED
    BY <1>3, <2>3, <2>4 DEF CompareRevIDs
<1> QED
  BY <1>2, <1>3

\* The comparator of the resolution orders live revisions strictly and totally.
LEMMA SortsTotally ==
  /\ \A a \in LiveRevisions : ~SortsBefore(a, a)
  /\ \A a, b, c \in LiveRevisions : SortsBefore(a, b) /\ SortsBefore(b, c) => SortsBefore(a, c)
  /\ \A a, b \in LiveRevisions : a # b => SortsBefore(a, b) \/ SortsBefore(b, a)
<1>1. \A a \in LiveRevisions : Last(a).updatedAt \in Nat
  BY LiveFields
<1>2. \A a \in LiveRevisions : ~SortsBefore(a, a)
  BY <1>1, CompareIrreflexive DEF SortsBefore
<1>3. \A a, b, c \in LiveRevisions : SortsBefore(a, b) /\ SortsBefore(b, c) => SortsBefore(a, c)
  BY <1>1, CompareTransitive DEF SortsBefore
<1>4. \A a, b \in LiveRevisions : a # b => SortsBefore(a, b) \/ SortsBefore(b, a)
  BY <1>1, CompareTotal DEF SortsBefore
<1> QED
  BY <1>2, <1>3, <1>4

\* A finite set of live revisions has a first one, which is before all others.
LEMMA FirstIsFirst ==
  ASSUME NEW revs \in SUBSET LiveRevisions, IsFiniteSet(revs), revs # {}
  PROVE  /\ First(revs) \in revs
         /\ \A other \in revs \ {First(revs)} : SortsBefore(First(revs), other)
<1> DEFINE Below(a) == {b \in revs : SortsBefore(b, a)}
           Counts == {Cardinality(Below(a)) : a \in revs}
<1>1. \A a \in revs : IsFiniteSet(Below(a)) /\ Cardinality(Below(a)) \in Nat
  BY FS_Subset, FS_CardinalityType
<1>2. Counts \in SUBSET Nat /\ Counts # {}
  BY ZenonT(30), <1>1
<1>3. PICK m \in Counts : \A n \in Counts : m <= n
  BY ZenonT(30), <1>2, LeastNat
<1>4. PICK first \in revs : m = Cardinality(Below(first))
  BY <1>3
<1>5. ASSUME NEW other \in revs \ {first}, ~SortsBefore(first, other) PROVE FALSE
  <2>1. SortsBefore(other, first)
    BY <1>5, SortsTotally
  <2>2. Below(other) \subseteq Below(first) /\ other \in Below(first) /\ other \notin Below(other)
    BY <1>5, <2>1, SortsTotally
  <2>3. Cardinality(Below(other)) <= Cardinality(Below(first)) /\ Cardinality(Below(other)) # Cardinality(Below(first))
    BY ZenonT(30), <1>1, <2>2, FS_Subset
  <2>4. m <= Cardinality(Below(other)) /\ Cardinality(Below(other)) \in Nat
    BY ZenonT(30), <1>1, <1>3
  <2>5. PICK n \in Nat : n = Cardinality(Below(other))
    BY <2>4
  <2>6. n <= m /\ n # m /\ m <= n /\ m \in Nat
    BY <1>2, <1>4, <2>3, <2>4, <2>5
  <2> QED
    BY <2>6
<1>6. \E rev \in revs : \A other \in revs \ {rev} : SortsBefore(rev, other)
  BY <1>5
<1> QED
  BY <1>6 DEF First

-----------------------------------------------------------------------------
(* Trees of revisions *)

\* What a replica has: finitely many revisions, and every ancestor of one of them.
IsTree(T) == /\ T \subseteq Revisions /\ IsFiniteSet(T)
             /\ \A rev \in T : History(rev) \subseteq T

\* The ancestors of a revision are revisions, and theirs are among them.
LEMMA Ancestors ==
  ASSUME NEW rev \in Revisions
  PROVE  /\ History(rev) \subseteq Revisions /\ IsFiniteSet(History(rev))
         /\ \A a \in History(rev) : History(a) \subseteq History(rev)
         /\ rev \in History(rev)
         /\ \A i \in 1..Len(rev) : /\ SubSeq(rev, 1, i) \in Seq(Edits) /\ Len(SubSeq(rev, 1, i)) = i
                                   /\ \A j \in 1..i : SubSeq(rev, 1, i)[j] = rev[j]
<1>1. rev \in Seq(Edits) /\ Len(rev) \in Nat \ {0}
  BY DEF Revisions
<1>2. ASSUME NEW i \in 1..Len(rev)
      PROVE  /\ SubSeq(rev, 1, i) \in Seq(Edits) /\ Len(SubSeq(rev, 1, i)) = i
             /\ \A j \in 1..i : SubSeq(rev, 1, i)[j] = rev[j]
  BY <1>1, SubSeqProperties
<1>3. ASSUME NEW i \in 1..Len(rev), NEW j \in 1..i
      PROVE  SubSeq(SubSeq(rev, 1, i), 1, j) = SubSeq(rev, 1, j)
  <2>1. /\ SubSeq(rev, 1, i) \in Seq(Edits) /\ Len(SubSeq(rev, 1, i)) = i
        /\ \A k \in 1..i : SubSeq(rev, 1, i)[k] = rev[k]
    BY <1>2
  <2>2. /\ SubSeq(rev, 1, j) \in Seq(Edits) /\ Len(SubSeq(rev, 1, j)) = j
        /\ \A k \in 1..j : SubSeq(rev, 1, j)[k] = rev[k]
    BY <1>1, <1>2
  <2>3. PICK short \in Seq(Edits) : short = SubSeq(rev, 1, i)
    BY ZenonT(30), <2>1
  <2>4. /\ SubSeq(short, 1, j) \in Seq(Edits) /\ Len(SubSeq(short, 1, j)) = j
        /\ \A k \in 1..j : SubSeq(short, 1, j)[k] = short[k]
    BY <1>1, <2>1, <2>3, SubSeqProperties
  <2>5. \A k \in 1..j : SubSeq(short, 1, j)[k] = SubSeq(rev, 1, j)[k]
    BY <1>1, <2>1, <2>2, <2>3, <2>4
  <2> QED
    BY <2>2, <2>3, <2>4, <2>5, SeqEqual
<1>4. \A a \in History(rev) : History(a) \subseteq History(rev)
  <2> SUFFICES ASSUME NEW i \in 1..Len(rev), NEW j \in 1..Len(SubSeq(rev, 1, i))
               PROVE  SubSeq(SubSeq(rev, 1, i), 1, j) \in History(rev)
    BY DEF History
  <2>1. j \in 1..i /\ j \in 1..Len(rev)
    BY <1>1, <1>2
  <2> QED
    BY <1>3, <2>1 DEF History
<1>5. rev \in History(rev)
  <2>1. rev = SubSeq(rev, 1, Len(rev))
    BY <1>1, <1>2, SeqEqual
  <2>2. SubSeq(rev, 1, Len(rev)) \in History(rev)
    BY <1>1 DEF History
  <2> QED
    BY ZenonT(30), <2>1, <2>2
<1>6. History(rev) \subseteq Revisions
  BY <1>1, <1>2 DEF History, Revisions
<1>7. IsFiniteSet(History(rev))
  <2>1. IsFiniteSet(1..Len(rev))
    BY <1>1, FS_Interval
  <2>2. [i \in 1..Len(rev) |-> SubSeq(rev, 1, i)] \in Surjection(1..Len(rev), History(rev))
    BY DEF History, Surjection
  <2> QED
    BY <2>1, <2>2, FS_Surjection
<1> QED
  BY <1>2, <1>4, <1>5, <1>6, <1>7

\* A revision below a live one: its ancestors are its parent's and itself.
LEMMA ChildFields ==
  ASSUME NEW rev \in LiveRevisions, NEW e \in Edits
  PROVE  /\ Child(rev, e) \in Revisions /\ Len(Child(rev, e)) = Len(rev) + 1
         /\ Last(Child(rev, e)) = e /\ Parent(Child(rev, e)) = rev
         /\ \A i \in 1..Len(rev) : Child(rev, e)[i] = rev[i]
         /\ History(Child(rev, e)) \subseteq History(rev) \cup {Child(rev, e)}
<1>1. rev \in Seq(Edits) /\ Len(rev) \in Nat \ {0} /\ rev \in Revisions
      /\ \A i \in 1..Len(rev) : rev[i] \in LiveEdits
  BY LiveFields DEF LiveRevisions, Revisions
<1> DEFINE c == Child(rev, e)
<1>2. /\ c \in Seq(Edits) /\ Len(c) = Len(rev) + 1 /\ c[Len(rev) + 1] = e
      /\ \A i \in 1..Len(rev) : c[i] = rev[i]
  BY <1>1, AppendProperties DEF Child
<1> HIDE DEF c
<1>3. c \in Revisions
  BY <1>1, <1>2 DEF Revisions
<1>4. Last(c) = e
  BY <1>2 DEF Last
<1>5. ASSUME NEW i \in 1..Len(rev) PROVE SubSeq(c, 1, i) = SubSeq(rev, 1, i)
  <2>1. /\ SubSeq(c, 1, i) \in Seq(Edits) /\ Len(SubSeq(c, 1, i)) = i
        /\ \A j \in 1..i : SubSeq(c, 1, i)[j] = c[j]
    BY <1>1, <1>2, <1>3, Ancestors
  <2>2. /\ SubSeq(rev, 1, i) \in Seq(Edits) /\ Len(SubSeq(rev, 1, i)) = i
        /\ \A j \in 1..i : SubSeq(rev, 1, i)[j] = rev[j]
    BY <1>1, Ancestors
  <2>3. \A j \in 1..i : SubSeq(c, 1, i)[j] = SubSeq(rev, 1, i)[j]
    BY <1>1, <1>2, <2>1, <2>2
  <2> QED
    BY <2>1, <2>2, <2>3, SeqEqual
<1>6. Parent(c) = rev
  <2>1. Parent(c) = SubSeq(c, 1, Len(rev))
    BY <1>1, <1>2 DEF Parent
  <2>2. SubSeq(rev, 1, Len(rev)) = rev
    BY <1>1, Ancestors, SeqEqual
  <2> QED
    BY <1>1, <1>5, <2>1, <2>2
<1>7. SubSeq(c, 1, Len(rev) + 1) = c
  <2>1. Len(c) \in 1..Len(c)
    BY <1>1, <1>2
  <2>2. /\ SubSeq(c, 1, Len(c)) \in Seq(Edits) /\ Len(SubSeq(c, 1, Len(c))) = Len(c)
        /\ \A j \in 1..Len(c) : SubSeq(c, 1, Len(c))[j] = c[j]
    BY <1>3, <2>1, Ancestors
  <2> QED
    BY <1>2, <2>2, SeqEqual
<1>8. History(c) \subseteq History(rev) \cup {c}
  <2> SUFFICES ASSUME NEW i \in 1..(Len(rev) + 1) PROVE SubSeq(c, 1, i) \in History(rev) \cup {c}
    BY <1>2 DEF History
  <2>1. CASE i = Len(rev) + 1
    BY <1>7, <2>1
  <2>2. CASE i \in 1..Len(rev)
    <3>1. SubSeq(rev, 1, i) \in History(rev)
      BY <2>2 DEF History
    <3> QED
      BY ZenonT(30), <1>5, <2>2, <3>1
  <2> QED
    BY <1>1, <2>1, <2>2
<1> QED
  BY <1>2, <1>3, <1>4, <1>6, <1>8 DEF c

\* Two trees together are a tree, and so is one with a revision and its ancestors.
LEMMA MergedTree ==
  ASSUME NEW T, IsTree(T), NEW rev \in Revisions
  PROVE  IsTree(T \cup History(rev))
BY Ancestors, FS_Union, ZenonT(30) DEF IsTree

\* A revision added below a live leaf is a leaf of its own; the other leaves stay.
LEMMA LeafExtended ==
  ASSUME NEW T, IsTree(T), NEW rev \in Leaves(T), rev \in LiveRevisions, NEW e \in Edits
  PROVE  /\ IsTree(T \cup {Child(rev, e)})
         /\ Child(rev, e) \notin T
         /\ Leaves(T \cup {Child(rev, e)}) = (Leaves(T) \ {rev}) \cup {Child(rev, e)}
<1>1. PICK c : c = Child(rev, e)
  OBVIOUS
<1>2. /\ c \in Revisions /\ Len(c) = Len(rev) + 1 /\ Parent(c) = rev
      /\ History(c) \subseteq History(rev) \cup {c}
  BY <1>1, ChildFields
<1>3. rev \in T /\ rev \notin {Parent(a) : a \in T}
  BY DEF Leaves
<1>4. c \notin T
  BY <1>2, <1>3
<1>5. IsTree(T \cup {c})
  BY <1>2, <1>3, FS_AddElement DEF IsTree
<1>6. ASSUME NEW a \in T \cup {c} PROVE Parent(a) # c
  <2>1. a \in Revisions
    BY <1>2 DEF IsTree
  <2>2. a \in Seq(Edits) /\ Len(a) \in Nat \ {0}
    BY <2>1 DEF Revisions
  <2>3. CASE Len(a) >= 2
    <3>1. Len(a) - 1 \in 1..Len(a)
      BY <2>2, <2>3
    <3>2. Parent(a) \in History(a)
      BY <3>1, ZenonT(30) DEF Parent, History
    <3>3. a \in T => Parent(a) \in T
      BY <3>2 DEF IsTree
    <3>4. a = c => Parent(a) # c
      BY <1>2, <1>3, <1>4
    <3> QED
      BY <1>4, <3>3, <3>4
  <2>4. CASE ~(Len(a) >= 2)
    <3>1. PICK n \in Nat \ {0} : n = Len(a)
      BY <2>2
    <3>2. n = 1
      BY <2>4, <3>1
    <3>3. Len(Parent(a)) = 0
      BY <2>2, <3>1, <3>2, SubSeqProperties DEF Parent
    <3>4. Len(c) # 0
      BY <1>2 DEF LiveRevisions, Revisions
    <3> QED
      BY <3>3, <3>4
  <2> QED
    BY <2>3, <2>4
<1>7. Leaves(T \cup {c}) = (Leaves(T) \ {rev}) \cup {c}
  <2>1. {Parent(a) : a \in T \cup {c}} = {Parent(a) : a \in T} \cup {rev}
    BY <1>2
  <2>2. c \notin {Parent(a) : a \in T \cup {c}}
    BY <1>6
  <2> QED
    BY <2>1, <2>2 DEF Leaves
<1> QED
  BY <1>1, <1>4, <1>5, <1>7

\* The conflicting revisions of a tree are its live leaves, of which there are finitely
\* many.
LEMMA LiveLeaves ==
  ASSUME NEW T, IsTree(T)
  PROVE  /\ ConflictingRevisions(T) = Leaves(T) \cap LiveRevisions
         /\ ConflictingRevisions(T) \subseteq T /\ IsFiniteSet(ConflictingRevisions(T))
<1>1. ASSUME NEW rev \in T PROVE ~IsDeletion(rev) <=> rev \in LiveRevisions
  <2>1. rev \in Revisions
    BY DEF IsTree
  <2>2. Last(rev) \in Edits
    BY <2>1 DEF Revisions, Last
  <2> QED
    BY <2>1, <2>2, ZenonT(30) DEF IsDeletion, LiveRevisions, LiveEdits
<1>2. ConflictingRevisions(T) \subseteq T /\ Leaves(T) \subseteq T
  BY DEF ConflictingRevisions, Leaves
<1>3. ConflictingRevisions(T) = Leaves(T) \cap LiveRevisions
  BY <1>1, <1>2, ZenonT(30) DEF ConflictingRevisions
<1> QED
  BY <1>2, <1>3, FS_Subset DEF IsTree

-----------------------------------------------------------------------------
(* What each replica has, and what its resolution works on *)

\* Each replica has a tree, and a resolution works on live revisions of it.
TreeInv ==
  /\ connected \in BOOLEAN /\ userDeleted \in BOOLEAN
  /\ edits \in 0..(MaxEdits + MaxLiveEdits) /\ failures \in 0..MaxFailures
  /\ tree \in [Replicas -> SUBSET Revisions]
  /\ resolution \in [Replicas -> [keep : Revisions \cup {<<>>}, delete : SUBSET Revisions]]
  /\ \A r \in Replicas : /\ IsTree(tree[r])
                         /\ resolution[r].delete \subseteq tree[r] \cap LiveRevisions
                         /\ Resolving(r) => resolution[r].keep \in tree[r] \cap LiveRevisions

\* The document's first revision and the conflicting edits of it are live revisions.
LEMMA HeadFields ==
  /\ Root \in LiveRevisions /\ Len(Root) = 1 /\ Root[1] = Edit(0, 0)
  /\ \A i \in 1..Len(Times) : Edit(i, Times[i]) \in LiveEdits
  /\ \A rev \in Heads : /\ rev \in LiveRevisions /\ Len(rev) = 2 /\ rev[1] = Edit(0, 0)
                        /\ History(rev) \subseteq {Root, rev}
                        /\ \E i \in 1..Len(Times) : rev[2] = Edit(i, Times[i])
<1>1. N \in Nat /\ Len(Times) \in Nat /\ MaxTime \in Nat /\ \A i \in 1..Len(Times) : Times[i] \in 1..MaxTime
  BY NAssumption, BoundsAssumption, TimesAssumption
<1>2. ASSUME NEW i \in 0..(N + Len(Times)), NEW t \in 0..MaxTime PROVE Edit(i, t) \in LiveEdits
  <2>1. Edit(i, t) \in Edits
    BY DEF Edits, Edit
  <2>2. Edit(i, t).deleted = FALSE
    BY DEF Edit
  <2> QED
    BY <2>1, <2>2, ZenonT(30) DEF LiveEdits
<1>3. \A i \in 1..Len(Times) : Edit(i, Times[i]) \in LiveEdits
  BY <1>1, <1>2
<1>4. Root \in LiveRevisions /\ Len(Root) = 1 /\ Root[1] = Edit(0, 0)
  <2>1. Edit(0, 0) \in LiveEdits /\ Edit(0, 0) \in Edits
    BY <1>1, <1>2 DEF LiveEdits
  <2> HIDE DEF Edit
  <2> QED
    BY <2>1 DEF Root, LiveRevisions, Revisions, Last
<1>5. History(Root) \subseteq {Root}
  <2>1. Root \in Revisions /\ Root \in Seq(Edits)
    BY <1>4 DEF LiveRevisions, Revisions
  <2>2. /\ SubSeq(Root, 1, 1) \in Seq(Edits) /\ Len(SubSeq(Root, 1, 1)) = 1
        /\ SubSeq(Root, 1, 1)[1] = Root[1]
    BY <1>4, <2>1, Ancestors
  <2>3. SubSeq(Root, 1, 1) = Root
    BY <1>4, <2>1, <2>2, SeqEqual
  <2> QED
    BY <1>4, <2>3 DEF History
<1>6. ASSUME NEW rev \in Heads
      PROVE  /\ rev \in LiveRevisions /\ Len(rev) = 2 /\ rev[1] = Edit(0, 0)
             /\ History(rev) \subseteq {Root, rev}
             /\ \E i \in 1..Len(Times) : rev[2] = Edit(i, Times[i])
  <2>1. PICK i \in 1..Len(Times) : rev = Child(Root, Edit(i, Times[i]))
    BY DEF Heads
  <2>2. PICK e \in LiveEdits : e = Edit(i, Times[i])
    BY <1>3
  <2>3. e \in Edits
    BY DEF LiveEdits
  <2>4. /\ rev \in Revisions /\ Len(rev) = Len(Root) + 1 /\ Last(rev) = e
        /\ \A k \in 1..Len(Root) : rev[k] = Root[k]
        /\ History(rev) \subseteq History(Root) \cup {rev}
    BY ZenonT(30), <1>4, <2>1, <2>2, <2>3, ChildFields
  <2>5. Len(rev) = 2 /\ rev[2] = e /\ rev[1] = Edit(0, 0)
    BY <1>4, <2>4 DEF Last
  <2>6. rev \in LiveRevisions
    BY <2>4 DEF LiveRevisions
  <2> QED
    BY ZenonT(30), <1>5, <2>2, <2>4, <2>5, <2>6
<1> QED
  BY <1>3, <1>4, <1>6

\* At the start every replica has the first revision and some edits of it.
LEMMA InitTrees == Init => TreeInv
<1> SUFFICES ASSUME Init PROVE TreeInv
  OBVIOUS
<1>1. PICK known \in [Replicas -> SUBSET Heads] : tree = [r \in Replicas |-> {Root} \cup known[r]]
  BY DEF Init
<1>2. Heads \subseteq LiveRevisions /\ Root \in LiveRevisions /\ LiveRevisions \subseteq Revisions
  BY HeadFields DEF LiveRevisions
<1>3. IsFiniteSet(Heads)
  <2>1. Len(Times) \in Nat /\ IsFiniteSet(1..Len(Times))
    BY TimesAssumption, FS_Interval
  <2>2. [i \in 1..Len(Times) |-> Child(Root, Edit(i, Times[i]))] \in Surjection(1..Len(Times), Heads)
    BY DEF Heads, Surjection
  <2> QED
    BY <2>1, <2>2, FS_Surjection
<1>4. History(Root) \subseteq {Root}
  <2>1. Len(Root) = 1 /\ SubSeq(Root, 1, 1) \in History(Root)
    BY HeadFields DEF History
  <2>2. History(Root) = {SubSeq(Root, 1, 1)}
    BY <2>1 DEF History
  <2> QED
    BY <1>2, <2>2, Ancestors
<1>5. ASSUME NEW r \in Replicas PROVE IsTree(tree[r])
  <2>1. known[r] \in SUBSET Heads /\ tree[r] = {Root} \cup known[r]
    BY <1>1
  <2>2. IsFiniteSet(known[r]) /\ IsFiniteSet(tree[r])
    BY <1>3, <2>1, FS_Subset, FS_AddElement
  <2>3. \A rev \in tree[r] : History(rev) \subseteq tree[r]
    BY <1>4, <2>1, HeadFields
  <2> QED
    BY <1>2, <2>1, <2>2, <2>3 DEF IsTree
<1>6. tree \in [Replicas -> SUBSET Revisions]
  BY <1>1, <1>2
<1>7. /\ resolution \in [Replicas -> [keep : Revisions \cup {<<>>}, delete : SUBSET Revisions]]
      /\ \A r \in Replicas : resolution[r].delete = {} /\ ~Resolving(r)
  BY DEF Init, NotResolving, Resolving
<1>8. edits \in 0..(MaxEdits + MaxLiveEdits) /\ failures \in 0..MaxFailures
  BY BoundsAssumption DEF Init
<1>9. connected \in BOOLEAN /\ userDeleted \in BOOLEAN
  BY ZenonT(30) DEF Init
<1> QED
  BY <1>5, <1>6, <1>7, <1>8, <1>9, ZenonT(30) DEF TreeInv

\* What a write does to the trees.
LEMMA Extended ==
  ASSUME TreeInv, NEW r \in Replicas, NEW rev \in LiveRevisions, NEW e \in Edits, Extend(r, rev, e)
  PROVE  /\ tree' \in [Replicas -> SUBSET Revisions]
         /\ tree'[r] = tree[r] \cup {Child(rev, e)}
         /\ \A s \in Replicas \ {r} : tree'[s] = tree[s]
         /\ \A s \in Replicas : IsTree(tree'[s]) /\ tree[s] \subseteq tree'[s]
         /\ Child(rev, e) \notin tree[r]
         /\ Leaves(tree'[r]) = (Leaves(tree[r]) \ {rev}) \cup {Child(rev, e)}
<1>1. tree \in [Replicas -> SUBSET Revisions] /\ \A s \in Replicas : IsTree(tree[s])
  BY DEF TreeInv
<1>2. rev \in Leaves(tree[r]) /\ tree' = [tree EXCEPT ![r] = @ \cup {Child(rev, e)}]
  BY DEF Extend, CanExtend
<1>3. Child(rev, e) \in Revisions
  BY ChildFields
<1>4. tree' \in [Replicas -> SUBSET Revisions] /\ tree'[r] = tree[r] \cup {Child(rev, e)}
      /\ \A s \in Replicas \ {r} : tree'[s] = tree[s]
  BY <1>1, <1>2, <1>3
<1>5. /\ IsTree(tree[r] \cup {Child(rev, e)})
      /\ Child(rev, e) \notin tree[r]
      /\ Leaves(tree[r] \cup {Child(rev, e)}) = (Leaves(tree[r]) \ {rev}) \cup {Child(rev, e)}
  BY <1>1, <1>2, LeafExtended
<1> QED
  BY ZenonT(30), <1>1, <1>4, <1>5

\* What is left when a resolution ends, in one way or another.
LEMMA ResolutionEnds ==
  ASSUME TreeInv, NEW r \in Replicas, resolution' = [resolution EXCEPT ![r] = NotResolving]
  PROVE  /\ resolution' \in [Replicas -> [keep : Revisions \cup {<<>>}, delete : SUBSET Revisions]]
         /\ resolution'[r] = NotResolving /\ resolution'[r].delete = {}
         /\ \A s \in Replicas \ {r} : resolution'[s] = resolution[s]
<1>1. NotResolving \in [keep : Revisions \cup {<<>>}, delete : SUBSET Revisions] /\ NotResolving.delete = {}
  BY DEF NotResolving
<1> QED
  BY <1>1 DEF TreeInv

\* A resolution that begins keeps the first of the conflicting revisions.
LEMMA ResolutionBegins ==
  ASSUME TreeInv, NEW r \in Replicas, BeginResolution(r)
  PROVE  LET revs == ConflictingRevisions(tree[r]) IN
         /\ First(revs) \in revs
         /\ \A other \in revs \ {First(revs)} : SortsBefore(First(revs), other)
         /\ resolution' \in [Replicas -> [keep : Revisions \cup {<<>>}, delete : SUBSET Revisions]]
         /\ resolution'[r].keep = First(revs) /\ resolution'[r].delete = revs \ {First(revs)}
         /\ \A s \in Replicas \ {r} : resolution'[s] = resolution[s]
<1>1. PICK revs : revs = ConflictingRevisions(tree[r])
  OBVIOUS
<1>2. revs \subseteq LiveRevisions /\ IsFiniteSet(revs)
  BY <1>1, LiveLeaves DEF TreeInv
<1>3. revs # {}
  BY <1>1, FS_EmptySet DEF BeginResolution
<1>4. First(revs) \in revs /\ \A other \in revs \ {First(revs)} : SortsBefore(First(revs), other)
  BY <1>2, <1>3, FirstIsFirst
<1>5. PICK first : first = First(revs)
  OBVIOUS
<1>6. resolution' = [resolution EXCEPT ![r] = [keep |-> first, delete |-> revs \ {first}]]
  BY <1>1, <1>5 DEF BeginResolution
<1>7. first \in Revisions /\ revs \ {first} \in SUBSET Revisions
  BY <1>2, <1>4, <1>5 DEF LiveRevisions
<1>8. /\ resolution' \in [Replicas -> [keep : Revisions \cup {<<>>}, delete : SUBSET Revisions]]
      /\ resolution'[r] = [keep |-> first, delete |-> revs \ {first}]
      /\ \A s \in Replicas \ {r} : resolution'[s] = resolution[s]
  BY <1>6, <1>7 DEF TreeInv
<1> QED
  BY <1>1, <1>4, <1>5, <1>8

\* A deletion is written below a revision that the resolution is to delete.
LEMMA RevisionDeleted ==
  ASSUME TreeInv, NEW r \in Replicas, DeleteRevision(r)
  PROVE  \E next \in resolution[r].delete :
           /\ next \in LiveRevisions /\ Tombstone \in Edits /\ Extend(r, next, Tombstone)
           /\ resolution' \in [Replicas -> [keep : Revisions \cup {<<>>}, delete : SUBSET Revisions]]
           /\ resolution'[r].keep = resolution[r].keep
           /\ resolution'[r].delete = resolution[r].delete \ {next}
           /\ \A s \in Replicas \ {r} : resolution'[s] = resolution[s]
<1>1. PICK next : next = First(resolution[r].delete)
  OBVIOUS
<1>2. resolution[r].delete \subseteq LiveRevisions /\ IsFiniteSet(resolution[r].delete)
  BY FS_Subset DEF TreeInv, IsTree
<1>3. next \in resolution[r].delete /\ next \in LiveRevisions
  BY <1>1, <1>2, FirstIsFirst DEF DeleteRevision
<1>4. Extend(r, next, Tombstone) /\ Tombstone \in Edits
  BY <1>1 DEF DeleteRevision, Edits
<1>5. resolution' = [resolution EXCEPT ![r].delete = @ \ {next}]
  BY <1>1 DEF DeleteRevision
<1>6. /\ resolution' \in [Replicas -> [keep : Revisions \cup {<<>>}, delete : SUBSET Revisions]]
      /\ resolution'[r].keep = resolution[r].keep
      /\ resolution'[r].delete = resolution[r].delete \ {next}
      /\ \A s \in Replicas \ {r} : resolution'[s] = resolution[s]
  BY <1>5 DEF TreeInv
<1> QED
  BY <1>3, <1>4, <1>6

\* The properties of the revision that is kept are written below it.
LEMMA RevisionCreated ==
  ASSUME TreeInv, NEW r \in Replicas, CreateRevision(r)
  PROVE  LET keep == resolution[r].keep IN
         /\ keep \in tree[r] /\ keep \in LiveRevisions
         /\ Last(keep) \in LiveEdits /\ Last(keep) \in Edits
         /\ Extend(r, keep, Last(keep))
         /\ Child(keep, Last(keep)) \in LiveRevisions
<1>1. PICK keep : keep = resolution[r].keep
  OBVIOUS
<1>2. keep \in tree[r] /\ keep \in LiveRevisions /\ Extend(r, keep, Last(keep))
  BY <1>1 DEF TreeInv, CreateRevision
<1>3. Last(keep) \in LiveEdits /\ Last(keep) \in Edits
  BY <1>2 DEF LiveRevisions, LiveEdits
<1>4. Child(keep, Last(keep)) \in LiveRevisions
  BY <1>2, <1>3, ChildFields DEF LiveRevisions
<1> QED
  BY <1>1, <1>2, <1>3, <1>4

\* A user's edit is written below the current revision, which is live.
LEMMA UserEdited ==
  ASSUME TreeInv, NEW r \in Replicas, NEW edit \in Edits, UserEdits(r, edit)
  PROVE  \E rev \in LiveRevisions : Extend(r, rev, edit)
<1>1. PICK rev : rev = Winner(tree[r])
  OBVIOUS
<1>2. Extend(r, rev, edit) /\ ~IsDeletion(rev)
  BY <1>1, ZenonT(30) DEF UserEdits
<1>3. rev \in ConflictingRevisions(tree[r])
  BY <1>2, ZenonT(30) DEF ConflictingRevisions, Extend, CanExtend
<1>4. rev \in LiveRevisions
  BY <1>3, LiveLeaves DEF TreeInv
<1> QED
  BY <1>2, <1>4

\* The edits users make are edits.
LEMMA UsersEdits ==
  \A r \in Replicas : {Edit(Len(Times) + r, time) : time \in 1..MaxTime} \cup {Tombstone} \subseteq Edits
<1> SUFFICES ASSUME NEW r \in Replicas, NEW time \in 1..MaxTime PROVE Edit(Len(Times) + r, time) \in Edits
  BY ZenonT(30) DEF Edits
<1>1. Len(Times) + r \in 0..(N + Len(Times)) /\ time \in 0..MaxTime
  BY NAssumption, BoundsAssumption, TimesAssumption DEF Replicas
<1> QED
  BY <1>1 DEF Edit, Edits

\* A write of the resolution or of a user keeps every replica's tree a tree.
LEMMA TreesGrow ==
  ASSUME TreeInv, NEW r \in Replicas,
         \/ \E edit \in Edits : UserEdits(r, edit)
         \/ \E s \in Replicas : Replicate(r, s)
         \/ DeleteRevision(r) \/ CreateRevision(r)
  PROVE  /\ tree' \in [Replicas -> SUBSET Revisions]
         /\ \A s \in Replicas : IsTree(tree'[s]) /\ tree[s] \subseteq tree'[s]
<1>1. CASE \E edit \in Edits : UserEdits(r, edit)
  BY <1>1, UserEdited, Extended
<1>2. CASE \E s \in Replicas : Replicate(r, s)
  <2>1. PICK s \in Replicas, rev \in Leaves(tree[r]) : tree' = [tree EXCEPT ![s] = @ \cup History(rev)]
    BY <1>2, ZenonT(30) DEF Replicate
  <2>2. rev \in Revisions
    BY DEF Leaves, TreeInv
  <2>3. tree \in [Replicas -> SUBSET Revisions] /\ \A q \in Replicas : IsTree(tree[q])
    BY DEF TreeInv
  <2>4. History(rev) \subseteq Revisions /\ IsTree(tree[s] \cup History(rev))
    BY <2>2, <2>3, Ancestors, MergedTree, ZenonT(30)
  <2> QED
    BY <2>1, <2>3, <2>4
<1>3. CASE DeleteRevision(r)
  BY <1>3, RevisionDeleted, Extended, ZenonT(30)
<1>4. CASE CreateRevision(r)
  BY <1>4, RevisionCreated, Extended
<1> QED
  BY <1>1, <1>2, <1>3, <1>4, ZenonT(30)

\* Every step keeps the trees, and the resolutions within them.
LEMMA NextTrees == TreeInv /\ [Next]_vars => TreeInv'
<1> SUFFICES ASSUME TreeInv, [Next]_vars PROVE TreeInv'
  OBVIOUS
<1> DEFINE Resolutions == [Replicas -> [keep : Revisions \cup {<<>>}, delete : SUBSET Revisions]]
           Bounded(c, u, e, f) == /\ c \in BOOLEAN /\ u \in BOOLEAN
                                  /\ e \in 0..(MaxEdits + MaxLiveEdits) /\ f \in 0..MaxFailures
           Within(T, R) == \A s \in Replicas : /\ R[s].delete \subseteq T[s] \cap LiveRevisions
                                               /\ R[s] # NotResolving => R[s].keep \in T[s] \cap LiveRevisions
<1>1. /\ Bounded(connected, userDeleted, edits, failures)
      /\ tree \in [Replicas -> SUBSET Revisions] /\ resolution \in Resolutions
      /\ \A s \in Replicas : IsTree(tree[s])
      /\ Within(tree, resolution)
  BY ZenonT(30) DEF TreeInv, Resolving
<1>2. SUFFICES /\ Bounded(connected', userDeleted', edits', failures')
               /\ tree' \in [Replicas -> SUBSET Revisions] /\ resolution' \in Resolutions
               /\ \A s \in Replicas : IsTree(tree'[s])
               /\ Within(tree', resolution')
  BY ZenonT(30) DEF TreeInv, Resolving
<1>3. CASE UNCHANGED vars
  BY <1>1, <1>3, ZenonT(30) DEF vars
<1>4. ASSUME NEW r \in Replicas, NEW edit \in Edits, UserEdits(r, edit)
      PROVE  /\ Bounded(connected', userDeleted', edits', failures') /\ resolution' \in Resolutions
             /\ Within(tree', resolution')
  <2>1. edits' \in 0..(MaxEdits + MaxLiveEdits)
    BY <1>1, <1>4, BoundsAssumption DEF UserEdits
  <2>2. userDeleted' \in BOOLEAN
    BY <1>4, ZenonT(30) DEF UserEdits
  <2>3. UNCHANGED <<connected, resolution, failures>>
    BY <1>4 DEF UserEdits
  <2>4. \A s \in Replicas : tree[s] \subseteq tree'[s]
    BY <1>4, TreesGrow
  <2>5. Within(tree', resolution')
    BY <1>1, <2>3, <2>4
  <2> QED
    BY <1>1, <2>1, <2>2, <2>3, <2>5, ZenonT(30)
<1>5. ASSUME NEW r \in Replicas, NEW s \in Replicas, Replicate(r, s)
      PROVE  /\ Bounded(connected', userDeleted', edits', failures') /\ resolution' \in Resolutions
             /\ Within(tree', resolution')
  <2>1. UNCHANGED <<connected, resolution, edits, failures, userDeleted>>
    BY <1>5 DEF Replicate
  <2>2. \A q \in Replicas : tree[q] \subseteq tree'[q]
    BY <1>5, TreesGrow
  <2>3. Within(tree', resolution')
    BY <1>1, <2>1, <2>2
  <2> QED
    BY <1>1, <2>1, <2>3, ZenonT(30)
<1>6. ASSUME NEW r \in Replicas, BeginResolution(r)
      PROVE  /\ Bounded(connected', userDeleted', edits', failures') /\ resolution' \in Resolutions
             /\ Within(tree', resolution') /\ UNCHANGED tree
  <2>1. UNCHANGED <<connected, tree, edits, failures, userDeleted>>
    BY <1>6 DEF BeginResolution
  <2>2. /\ ConflictingRevisions(tree[r]) \subseteq tree[r]
        /\ ConflictingRevisions(tree[r]) \subseteq LiveRevisions
    BY <1>1, LiveLeaves, ZenonT(30)
  <2>3. resolution' \in Resolutions /\ Within(tree', resolution')
    BY <1>1, <1>6, <2>1, <2>2, ResolutionBegins
  <2> QED
    BY <1>1, <2>1, <2>3, ZenonT(30)
<1>7. ASSUME NEW r \in Replicas, DeleteRevision(r)
      PROVE  /\ Bounded(connected', userDeleted', edits', failures') /\ resolution' \in Resolutions
             /\ Within(tree', resolution')
  <2>1. UNCHANGED <<connected, edits, failures, userDeleted>>
    BY <1>7, ZenonT(30) DEF DeleteRevision
  <2>2. \A q \in Replicas : tree[q] \subseteq tree'[q]
    BY <1>7, TreesGrow
  <2>3. resolution' \in Resolutions /\ resolution'[r].keep = resolution[r].keep
        /\ resolution'[r].delete \subseteq resolution[r].delete /\ resolution[r].delete # {}
        /\ \A s \in Replicas \ {r} : resolution'[s] = resolution[s]
    BY <1>7, RevisionDeleted, ZenonT(30) DEF DeleteRevision
  <2>4. resolution[r] # NotResolving
    BY <2>3 DEF NotResolving
  <2>5. Within(tree', resolution')
    BY <1>1, <2>2, <2>3, <2>4
  <2> QED
    BY <1>1, <2>1, <2>3, <2>5, ZenonT(30)
<1>8. ASSUME NEW r \in Replicas, CreateRevision(r) \/ WriteRefused(r) \/ ResolutionStops(r)
      PROVE  /\ Bounded(connected', userDeleted', edits', failures') /\ resolution' \in Resolutions
             /\ Within(tree', resolution')
  <2>1. UNCHANGED <<connected, edits, userDeleted>> /\ resolution' = [resolution EXCEPT ![r] = NotResolving]
    BY <1>8 DEF CreateRevision, WriteRefused, ResolutionStops
  <2>2. failures' \in 0..MaxFailures
    <3>1. failures' = failures \/ (failures < MaxFailures /\ failures' = failures + 1)
      BY <1>8, ZenonT(30) DEF CreateRevision, WriteRefused, ResolutionStops
    <3> QED
      BY <1>1, <3>1, BoundsAssumption
  <2>3. \A q \in Replicas : tree[q] \subseteq tree'[q]
    BY <1>8, TreesGrow DEF WriteRefused, ResolutionStops
  <2>4. resolution' \in Resolutions /\ resolution'[r] = NotResolving /\ resolution'[r].delete = {}
        /\ \A s \in Replicas \ {r} : resolution'[s] = resolution[s]
    BY ZenonT(30), <2>1, ResolutionEnds
  <2>5. Within(tree', resolution')
    BY <1>1, <2>3, <2>4, ZenonT(30)
  <2> QED
    BY <1>1, <2>1, <2>2, <2>4, <2>5, ZenonT(30)
<1>9. CASE Next
  <2>1. PICK r \in Replicas :
          \/ \E edit \in Edits : UserEdits(r, edit)
          \/ \E s \in Replicas : Replicate(r, s)
          \/ BeginResolution(r) \/ DeleteRevision(r) \/ CreateRevision(r) \/ WriteRefused(r)
          \/ ResolutionStops(r)
    BY <1>9, UsersEdits, ZenonT(30) DEF Next, ResolutionStep
  <2>2. tree' \in [Replicas -> SUBSET Revisions] /\ \A s \in Replicas : IsTree(tree'[s])
    BY <1>1, <1>6, <2>1, TreesGrow, ZenonT(30) DEF WriteRefused, ResolutionStops
  <2>3. /\ Bounded(connected', userDeleted', edits', failures') /\ resolution' \in Resolutions
        /\ Within(tree', resolution')
    BY <1>4, <1>5, <1>6, <1>7, <1>8, <2>1, ZenonT(30)
  <2> QED
    BY <2>2, <2>3
<1> QED
  BY <1>3, <1>9

\* The invariant holds throughout.
LEMMA Trees == Spec => []TreeInv
BY InitTrees, NextTrees, PTL DEF Spec

\* Type correctness of the replicas' state: what a resolution is to keep and to delete
\* are revisions its replica has, whatever has been written since they were read.
THEOREM TypeCorrect == Spec => []TypeOK
<1>1. TreeInv => TypeOK
  BY DEF TreeInv, TypeOK, Revisions
<1> QED
  BY Trees, <1>1, PTL

-----------------------------------------------------------------------------
(* Replicas on their own *)

\* Each replica has a conflicting revision that its resolution is not to delete.
AloneInv ==
  ~connected /\ ~userDeleted =>
    \A r \in Replicas : \E rev \in ConflictingRevisions(tree[r]) : rev \notin resolution[r].delete

\* The parent of a revision is shorter by one.
LEMMA ParentFields ==
  ASSUME NEW rev \in Revisions
  PROVE  Len(rev) \in Nat \ {0} /\ Len(Parent(rev)) = Len(rev) - 1
<1>1. rev \in Seq(Edits) /\ Len(rev) \in Nat \ {0}
  BY DEF Revisions
<1>2. PICK n \in Nat \ {0} : n = Len(rev)
  BY <1>1
<1>3. Len(SubSeq(rev, 1, n - 1)) = n - 1
  BY <1>1, <1>2, SubSeqProperties
<1> QED
  BY <1>1, <1>2, <1>3 DEF Parent

\* The conflicting edits a replica knows at the start are leaves of its tree.
LEMMA HeadsAreLeaves ==
  ASSUME NEW T, T \subseteq {Root} \cup Heads, NEW rev \in T \cap Heads
  PROVE  rev \in Leaves(T)
<1>1. \A a \in T : a \in LiveRevisions /\ (Len(a) = 1 \/ Len(a) = 2)
  BY HeadFields
<1>2. Len(rev) = 2
  BY HeadFields
<1>3. \A a \in T : Parent(a) # rev
  <2> SUFFICES ASSUME NEW a \in T, Parent(a) = rev PROVE FALSE
    OBVIOUS
  <2>1. a \in Revisions
    BY <1>1 DEF LiveRevisions
  <2>2. Len(rev) = Len(a) - 1
    BY <2>1, ParentFields
  <2>3. Len(a) = 1 \/ Len(a) = 2
    BY <1>1
  <2>4. Len(a) - 1 # 2
    BY <2>3
  <2> QED
    BY ZenonT(30), <1>2, <2>2, <2>4
<1> QED
  BY <1>3 DEF Leaves

\* A live edit written below a leaf leaves a live leaf that the resolution does not
\* delete where there was one.
LEMMA LiveEditKeeps ==
  ASSUME TreeInv, NEW r \in Replicas, NEW rev \in LiveRevisions, NEW e \in LiveEdits, Extend(r, rev, e),
         \E l \in ConflictingRevisions(tree[r]) : l \notin resolution[r].delete
  PROVE  \E l \in ConflictingRevisions(tree'[r]) : l \notin resolution[r].delete
<1>1. e \in Edits
  BY ZenonT(30) DEF LiveEdits
<1>2. /\ IsTree(tree'[r]) /\ Child(rev, e) \notin tree[r]
      /\ Leaves(tree'[r]) = (Leaves(tree[r]) \ {rev}) \cup {Child(rev, e)}
  BY <1>1, Extended
<1>3. Child(rev, e) \in LiveRevisions
  BY <1>1, ChildFields, ZenonT(30) DEF LiveRevisions
<1>4. Child(rev, e) \in ConflictingRevisions(tree'[r])
  BY <1>2, <1>3, LiveLeaves, SMTT(30)
<1>5. Child(rev, e) \notin resolution[r].delete
  BY <1>2 DEF TreeInv
<1> QED
  BY <1>4, <1>5

\* Replicas do not begin or cease to replicate, and a deletion by a user is recorded.
LEMMA FlagsKept == [Next]_vars => connected' = connected /\ (userDeleted => userDeleted')
<1> SUFFICES ASSUME [Next]_vars PROVE connected' = connected /\ (userDeleted => userDeleted')
  OBVIOUS
<1>1. ASSUME NEW r, NEW edit, UserEdits(r, edit) PROVE connected' = connected /\ (userDeleted => userDeleted')
  BY <1>1, ZenonT(30) DEF UserEdits
<1>2. ASSUME NEW r, NEW s, Replicate(r, s) PROVE UNCHANGED <<connected, userDeleted>>
  BY <1>2 DEF Replicate
<1>3. ASSUME NEW r, ResolutionStep(r) \/ ResolutionStops(r) PROVE UNCHANGED <<connected, userDeleted>>
  BY <1>3 DEF ResolutionStep, BeginResolution, DeleteRevision, CreateRevision, WriteRefused, ResolutionStops
<1>4. CASE UNCHANGED vars
  BY <1>4 DEF vars
<1>5. CASE Next
  BY <1>1, <1>2, <1>3, <1>5, ZenonT(30) DEF Next
<1> QED
  BY <1>4, <1>5

\* A replica on its own never loses the document, whatever its user edits while a
\* resolution is under way: the inductive step.
LEMMA NextAlone == TreeInv /\ AloneInv /\ [Next]_vars => AloneInv'
<1> SUFFICES ASSUME TreeInv, AloneInv, [Next]_vars, ~connected', ~userDeleted', NEW s \in Replicas
             PROVE  \E rev \in ConflictingRevisions(tree'[s]) : rev \notin resolution'[s].delete
  BY ZenonT(30) DEF AloneInv
<1> DEFINE Kept(T, d) == \E rev \in ConflictingRevisions(T) : rev \notin d
<1> HIDE DEF Kept
<1>1. ~connected /\ ~userDeleted
  <2>1. connected' = connected /\ (userDeleted => userDeleted')
    BY FlagsKept
  <2> QED
    BY <2>1, ZenonT(30)
<1>2. Kept(tree[s], resolution[s].delete)
  BY <1>1, ZenonT(30) DEF AloneInv, Kept
<1>3. SUFFICES Kept(tree'[s], resolution'[s].delete)
  BY ZenonT(30) DEF Kept
<1>4. CASE UNCHANGED vars
  BY <1>2, <1>4, ZenonT(30) DEF vars
<1>5. CASE Next
  <2>1. PICK r \in Replicas :
          \/ \E edit \in Edits : UserEdits(r, edit)
          \/ \E q \in Replicas : Replicate(r, q)
          \/ BeginResolution(r) \/ DeleteRevision(r) \/ CreateRevision(r) \/ WriteRefused(r)
          \/ ResolutionStops(r)
    BY <1>5, UsersEdits DEF Next, ResolutionStep
  <2>2. ASSUME NEW edit \in Edits, UserEdits(r, edit) PROVE Kept(tree'[s], resolution'[s].delete)
    <3>1. UNCHANGED resolution /\ ~edit.deleted
      BY <2>2, ZenonT(30) DEF UserEdits
    <3>2. edit \in LiveEdits
      BY <3>1, ZenonT(30) DEF LiveEdits
    <3>3. PICK rev \in LiveRevisions : Extend(r, rev, edit)
      BY <2>2, UserEdited, ZenonT(30)
    <3>4. CASE s = r
      BY <1>2, <3>1, <3>2, <3>3, <3>4, LiveEditKeeps, ZenonT(30) DEF Kept
    <3>5. CASE s # r
      BY <1>2, <3>1, <3>3, <3>5, Extended, ZenonT(30)
    <3> QED
      BY <3>4, <3>5
  <2>3. ASSUME NEW q \in Replicas, Replicate(r, q) PROVE FALSE
    BY <1>1, <2>3, ZenonT(30) DEF Replicate
  <2>4. CASE BeginResolution(r)
    <3>1. UNCHANGED tree
      BY <2>4, ZenonT(30) DEF BeginResolution
    <3>2. CASE s = r
      BY <2>4, <3>1, <3>2, ResolutionBegins, ZenonT(30) DEF Kept
    <3>3. CASE s # r
      BY <1>2, <2>4, <3>1, <3>3, ResolutionBegins, ZenonT(30)
    <3> QED
      BY <3>2, <3>3, ZenonT(30)
  <2>5. CASE DeleteRevision(r)
    <3>1. PICK next \in resolution[r].delete :
            /\ next \in LiveRevisions /\ Tombstone \in Edits /\ Extend(r, next, Tombstone)
            /\ resolution'[r].delete = resolution[r].delete \ {next}
            /\ \A q \in Replicas \ {r} : resolution'[q] = resolution[q]
      BY <2>5, RevisionDeleted, ZenonT(30)
    <3>2. /\ IsTree(tree'[r]) /\ IsTree(tree[r])
          /\ Leaves(tree'[r]) = (Leaves(tree[r]) \ {next}) \cup {Child(next, Tombstone)}
          /\ \A q \in Replicas \ {r} : tree'[q] = tree[q]
      <4>1. IsTree(tree[r])
        BY ZenonT(30) DEF TreeInv
      <4> QED
        BY <3>1, <4>1, Extended
    <3>3. ASSUME NEW rev \in ConflictingRevisions(tree[r]), rev \notin resolution[r].delete
          PROVE  rev \in ConflictingRevisions(tree'[r]) /\ rev \notin resolution'[r].delete
      BY <3>1, <3>2, <3>3, LiveLeaves, SMTT(30)
    <3>4. CASE s = r
      BY <1>2, <3>3, <3>4, ZenonT(30) DEF Kept
    <3>5. CASE s # r
      BY <1>2, <3>1, <3>2, <3>5, ZenonT(30)
    <3> QED
      BY <3>4, <3>5, ZenonT(30)
  <2>6. CASE CreateRevision(r)
    <3>1. resolution' = [resolution EXCEPT ![r] = NotResolving] /\ resolution[r].delete = {}
      BY <2>6 DEF CreateRevision
    <3>2. resolution'[r].delete = {} /\ \A q \in Replicas \ {r} : resolution'[q] = resolution[q]
      BY ZenonT(30), <3>1, ResolutionEnds
    <3>3. PICK keep \in LiveRevisions : Last(keep) \in LiveEdits /\ Last(keep) \in Edits /\ Extend(r, keep, Last(keep))
      BY <2>6, RevisionCreated, ZenonT(30)
    <3>4. CASE s = r
      <4>1. Kept(tree'[r], resolution[r].delete)
        BY <1>2, <3>3, <3>4, LiveEditKeeps, ZenonT(30) DEF Kept
      <4> QED
        BY <3>1, <3>2, <3>4, <4>1, ZenonT(30)
    <3>5. CASE s # r
      <4>1. tree'[s] = tree[s]
        BY <3>3, <3>5, Extended, ZenonT(30)
      <4> QED
        BY <1>2, <3>2, <3>5, <4>1, ZenonT(30)
    <3> QED
      BY <3>4, <3>5, ZenonT(30)
  <2>7. CASE WriteRefused(r) \/ ResolutionStops(r)
    <3>1. UNCHANGED tree /\ resolution' = [resolution EXCEPT ![r] = NotResolving]
      BY <2>7 DEF WriteRefused, ResolutionStops
    <3>2. resolution'[r].delete = {} /\ \A q \in Replicas \ {r} : resolution'[q] = resolution[q]
      BY ZenonT(30), <3>1, ResolutionEnds
    <3>3. CASE s = r
      BY <1>2, <3>1, <3>2, <3>3, ZenonT(30) DEF Kept
    <3>4. CASE s # r
      BY <1>2, <3>1, <3>2, <3>4, ZenonT(30)
    <3> QED
      BY <3>3, <3>4
  <2> QED
    BY <2>1, <2>2, <2>3, <2>4, <2>5, <2>6, <2>7, ZenonT(30)
<1> QED
  BY <1>4, <1>5

\* At the start each replica knows one of the conflicting edits at least.
LEMMA InitAlone == Init => AloneInv
<1> SUFFICES ASSUME Init, NEW r \in Replicas
             PROVE  \E rev \in ConflictingRevisions(tree[r]) : rev \notin resolution[r].delete
  BY DEF AloneInv
<1>1. PICK known \in [Replicas -> SUBSET Heads] : /\ \A s \in Replicas : known[s] # {}
                                                 /\ tree = [s \in Replicas |-> {Root} \cup known[s]]
  BY ZenonT(30) DEF Init
<1>2. PICK rev \in known[r] : TRUE
  BY <1>1
<1>3. rev \in Heads /\ rev \in tree[r] /\ tree[r] \subseteq {Root} \cup Heads
  BY <1>1, <1>2, ZenonT(30)
<1>4. rev \in Leaves(tree[r]) /\ rev \in LiveRevisions
  BY <1>3, HeadsAreLeaves, HeadFields, ZenonT(30)
<1>5. IsTree(tree[r])
  BY InitTrees DEF TreeInv
<1>6. resolution[r].delete = {}
  BY DEF Init, NotResolving
<1> QED
  BY <1>4, <1>5, <1>6, LiveLeaves

\* On a replica that does not replicate with others the document survives every
\* resolution, whatever its user edits meanwhile and wherever the resolution stops.
THEOREM AloneDocumentSurvives == Spec => [](~connected => DocumentSurvives)
<1>1. TreeInv /\ AloneInv => (~connected => DocumentSurvives)
  BY DEF AloneInv, DocumentSurvives, Known
<1> QED
  BY InitTrees, NextTrees, InitAlone, NextAlone, <1>1, PTL DEF Spec

-----------------------------------------------------------------------------
(* Replicas that replicate with each other *)

HeadEdits == {Edit(i, Times[i]) : i \in 1..Len(Times)}
DistinctTimes == \A i, j \in 1..Len(Times) : i # j => Times[i] # Times[j]
OldestEdit == CHOOSE e \in HeadEdits : \A f \in HeadEdits : e.updatedAt <= f.updatedAt

\* If nobody edits, a revision repeats one of the conflicting edits, up to a deletion;
\* the oldest of them is never deleted.
Shape(rev) ==
  /\ rev[1] = Edit(0, 0)
  /\ Len(rev) >= 2 => rev[2] \in HeadEdits
  /\ \A i \in 3..Len(rev) : rev[i] = rev[2] \/ (rev[i] = Tombstone /\ rev[2] # OldestEdit)

\* The oldest edit is known somewhere, and no resolution is to delete it.
LineInv ==
  connected =>
    /\ \A r \in Replicas : \A rev \in tree[r] : Shape(rev)
    /\ \A r \in Replicas : \E rev \in tree[r] : Len(rev) = 2
    /\ \A r \in Replicas : \A rev \in resolution[r].delete : Len(rev) >= 2 /\ rev[2] # OldestEdit
    /\ \A r \in Replicas : Resolving(r) => Len(resolution[r].keep) >= 2
    /\ \E r \in Replicas : \E rev \in tree[r] : Len(rev) >= 2 /\ rev[2] = OldestEdit

\* If all times differ one of the conflicting edits is older than the others.
LEMMA OldestIsOldest ==
  ASSUME DistinctTimes
  PROVE  /\ OldestEdit \in HeadEdits /\ OldestEdit.updatedAt \in Nat
         /\ \A f \in HeadEdits \ {OldestEdit} : f.updatedAt \in Nat /\ OldestEdit.updatedAt < f.updatedAt
<1>1. Len(Times) \in Nat \ {0} /\ \A i \in 1..Len(Times) : Times[i] \in Nat
  BY TimesAssumption, BoundsAssumption
<1>2. \A i \in 1..Len(Times) : Edit(i, Times[i]).updatedAt = Times[i]
  BY DEF Edit
<1>3. PICK m \in {Times[i] : i \in 1..Len(Times)} : \A n \in {Times[i] : i \in 1..Len(Times)} : m <= n
  <2>1. {Times[i] : i \in 1..Len(Times)} \in SUBSET Nat /\ {Times[i] : i \in 1..Len(Times)} # {}
    BY <1>1
  <2> QED
    BY ZenonT(30), <2>1, LeastNat
<1>4. PICK k \in 1..Len(Times) : m = Times[k]
  BY <1>3
<1>5. \E e \in HeadEdits : \A f \in HeadEdits : e.updatedAt <= f.updatedAt
  <2>1. Edit(k, Times[k]) \in HeadEdits
    BY DEF HeadEdits
  <2>2. \A f \in HeadEdits : Edit(k, Times[k]).updatedAt <= f.updatedAt
    BY <1>2, <1>3, <1>4, ZenonT(30) DEF HeadEdits
  <2> QED
    BY <2>1, <2>2, ZenonT(30)
<1>6. OldestEdit \in HeadEdits /\ \A f \in HeadEdits : OldestEdit.updatedAt <= f.updatedAt
  BY <1>5 DEF OldestEdit
<1>7. PICK o \in 1..Len(Times) : OldestEdit = Edit(o, Times[o])
  BY <1>6 DEF HeadEdits
<1>8. ASSUME NEW f \in HeadEdits \ {OldestEdit} PROVE f.updatedAt \in Nat /\ OldestEdit.updatedAt < f.updatedAt
  <2>1. PICK i \in 1..Len(Times) : f = Edit(i, Times[i])
    BY DEF HeadEdits
  <2>2. i # o
    BY <1>7, <2>1
  <2>3. Times[i] # Times[o]
    BY <2>2, ZenonT(30) DEF DistinctTimes
  <2>4. OldestEdit.updatedAt = Times[o] /\ f.updatedAt = Times[i] /\ Times[o] <= Times[i]
    BY <1>2, <1>6, <1>7, <2>1, ZenonT(30)
  <2> QED
    BY <1>1, <2>3, <2>4
<1> QED
  BY <1>1, <1>2, <1>6, <1>7, <1>8, ZenonT(30)

\* A live revision of that shape repeats its second edit to the end.
LEMMA LiveLine ==
  ASSUME NEW rev \in LiveRevisions, Shape(rev), Len(rev) >= 2
  PROVE  (\A i \in 2..Len(rev) : rev[i] = rev[2]) /\ Last(rev) = rev[2] /\ rev[2] \in HeadEdits
<1>1. Len(rev) \in Nat /\ \A i \in 1..Len(rev) : rev[i] \in LiveEdits
  BY LiveFields
<1>2. Tombstone \notin LiveEdits
  <2>1. Tombstone.deleted = TRUE
    BY DEF Tombstone
  <2> QED
    BY <2>1, ZenonT(30) DEF LiveEdits
<1>3. \A i \in 2..Len(rev) : rev[i] = rev[2]
  BY <1>1, <1>2 DEF Shape
<1> QED
  BY <1>1, <1>3 DEF Last, Shape

\* A deletion of another edit than the oldest, or the same edit again, keeps the shape.
LEMMA ChildShape ==
  ASSUME NEW rev \in LiveRevisions, Shape(rev), Len(rev) >= 2,
         NEW e \in Edits, e = Last(rev) \/ (e = Tombstone /\ rev[2] # OldestEdit)
  PROVE  Shape(Child(rev, e)) /\ Child(rev, e)[2] = rev[2] /\ Len(Child(rev, e)) = Len(rev) + 1
<1>1. Len(rev) \in Nat
  BY LiveFields
<1>2. PICK c : c = Child(rev, e)
  OBVIOUS
<1>3. /\ Len(c) = Len(rev) + 1 /\ Last(c) = e
      /\ \A i \in 1..Len(rev) : c[i] = rev[i]
  BY <1>2, ChildFields, ZenonT(30)
<1>4. c[Len(rev) + 1] = e /\ c[1] = rev[1] /\ c[2] = rev[2]
  BY <1>1, <1>3 DEF Last
<1>5. e = rev[2] \/ (e = Tombstone /\ rev[2] # OldestEdit)
  BY LiveLine, ZenonT(30)
<1>6. \A i \in 3..Len(c) : c[i] = c[2] \/ (c[i] = Tombstone /\ c[2] # OldestEdit)
  BY <1>1, <1>3, <1>4, <1>5 DEF Shape
<1> QED
  BY <1>2, <1>3, <1>4, <1>6, ZenonT(30) DEF Shape

\* A tree of such revisions has one live leaf at most of each edit ...
LEMMA OneLeafOfEachEdit ==
  ASSUME NEW T, IsTree(T), \A rev \in T : Shape(rev),
         NEW a \in ConflictingRevisions(T), NEW b \in ConflictingRevisions(T),
         Len(a) >= 2, Len(b) >= 2, a[2] = b[2]
  PROVE  a = b
<1>1. /\ a \in T /\ a \in Leaves(T) /\ a \in LiveRevisions
      /\ b \in T /\ b \in Leaves(T) /\ b \in LiveRevisions
  BY LiveLeaves
<1>2. ASSUME NEW x \in LiveRevisions, NEW y \in LiveRevisions, x \in Leaves(T), y \in T, Len(x) < Len(y),
             \A i \in 1..Len(x) : x[i] = y[i]
      PROVE  FALSE
  <2>1. y \in Revisions /\ x \in Seq(Edits) /\ Len(x) \in Nat \ {0} /\ Len(y) \in Nat
    BY DEF LiveRevisions, Revisions
  <2>2. Len(x) + 1 \in 1..Len(y)
    BY <1>2, <2>1
  <2>3. PICK c : c = SubSeq(y, 1, Len(x) + 1)
    BY ZenonT(30)
  <2>4. c \in T
    <3>1. c \in History(y)
      BY <2>2, <2>3, ZenonT(30) DEF History
    <3> QED
      BY <1>2, <3>1 DEF IsTree
  <2>5. c \in Revisions /\ c \in Seq(Edits) /\ Len(c) = Len(x) + 1 /\ \A i \in 1..(Len(x) + 1) : c[i] = y[i]
    BY <2>1, <2>2, <2>3, <2>4, Ancestors, ZenonT(30) DEF IsTree
  <2>6. Len(x) \in 1..Len(c) /\ Parent(c) = SubSeq(c, 1, Len(x))
    BY <2>1, <2>5 DEF Parent
  <2>7. Parent(c) \in Seq(Edits) /\ Len(Parent(c)) = Len(x) /\ \A i \in 1..Len(x) : Parent(c)[i] = c[i]
    BY <2>5, <2>6, Ancestors
  <2>8. \A i \in 1..Len(x) : Parent(c)[i] = x[i]
    BY <1>2, <2>1, <2>5, <2>7, SMTT(30)
  <2>9. Parent(c) = x
    BY <2>1, <2>7, <2>8, SeqEqual, ZenonT(30)
  <2> QED
    BY <1>2, <2>4, <2>9, ZenonT(30) DEF Leaves
<1>3. Len(a) \in Nat /\ Len(b) \in Nat /\ a \in Seq(LiveEdits) /\ b \in Seq(LiveEdits)
  BY <1>1, LiveFields, ZenonT(30)
<1>4. /\ a[1] = b[1]
      /\ \A i \in 2..Len(a) : a[i] = a[2]
      /\ \A i \in 2..Len(b) : b[i] = b[2]
  BY <1>1, LiveLine DEF Shape
<1>5. \A i \in 1..Len(a) : i \in 1..Len(b) => a[i] = b[i]
  BY <1>3, <1>4
<1>6. Len(a) = Len(b)
  <2>1. ~(Len(a) < Len(b))
    BY <1>1, <1>2, <1>3, <1>5
  <2>2. ~(Len(b) < Len(a))
    BY <1>1, <1>2, <1>3, <1>5
  <2> QED
    BY <1>3, <2>1, <2>2
<1> QED
  BY <1>3, <1>5, <1>6, SeqEqual, ZenonT(30)

\* ... and its leaves are edits of the first revision, never that itself.
LEMMA LeavesAreEdited ==
  ASSUME NEW T, IsTree(T), \A rev \in T : Shape(rev), \E rev \in T : Len(rev) = 2, NEW a \in Leaves(T)
  PROVE  Len(a) >= 2
<1>1. PICK h \in T : Len(h) = 2
  OBVIOUS
<1>2. a \in T /\ a \in Revisions /\ h \in Revisions
  BY DEF Leaves, IsTree
<1>3. a \in Seq(Edits) /\ Len(a) \in Nat \ {0} /\ h \in Seq(Edits)
  BY <1>2 DEF Revisions
<1>4. ASSUME Len(a) = 1 PROVE FALSE
  <2>1. Parent(h) = SubSeq(h, 1, 1)
    BY <1>1 DEF Parent
  <2>2. 1 \in 1..Len(h)
    BY <1>1
  <2>3. Parent(h) \in Seq(Edits) /\ Len(Parent(h)) = 1 /\ Parent(h)[1] = h[1]
    BY <1>2, <2>1, <2>2, Ancestors
  <2>4. a[1] = h[1]
    BY <1>1, <1>2 DEF Shape
  <2>5. Parent(h) = a
    BY <1>3, <1>4, <2>3, <2>4, SeqEqual
  <2> QED
    BY <1>1, <2>5 DEF Leaves
<1>5. PICK n \in Nat \ {0} : n = Len(a)
  BY <1>3
<1> QED
  BY <1>4, <1>5

\* A resolution keeps the oldest edit wherever it is known: it deletes others only.
LEMMA OldestSortsFirst ==
  ASSUME DistinctTimes, NEW T, IsTree(T), \A rev \in T : Shape(rev), \E rev \in T : Len(rev) = 2,
         NEW first \in ConflictingRevisions(T),
         \A other \in ConflictingRevisions(T) \ {first} : SortsBefore(first, other)
  PROVE  \A other \in ConflictingRevisions(T) \ {first} : Len(other) >= 2 /\ other[2] # OldestEdit
<1> SUFFICES ASSUME NEW other \in ConflictingRevisions(T) \ {first}
             PROVE  Len(other) >= 2 /\ other[2] # OldestEdit
  OBVIOUS
<1>1. \A rev \in ConflictingRevisions(T) : rev \in T /\ rev \in Leaves(T) /\ rev \in LiveRevisions
  BY LiveLeaves
<1>2. Len(first) >= 2 /\ Len(other) >= 2
  BY <1>1, LeavesAreEdited, ZenonT(30)
<1>3. Last(first) = first[2] /\ first[2] \in HeadEdits /\ Last(other) = other[2]
  BY <1>1, <1>2, LiveLine, ZenonT(30)
<1>4. ASSUME other[2] = OldestEdit PROVE FALSE
  <2>1. first[2] # OldestEdit
    BY <1>2, <1>4, OneLeafOfEachEdit, ZenonT(30)
  <2>2. Last(other).updatedAt \in Nat /\ Last(first).updatedAt \in Nat /\ Last(other).updatedAt < Last(first).updatedAt
    BY <1>3, <1>4, <2>1, OldestIsOldest, ZenonT(30)
  <2>3. SortsBefore(first, other)
    OBVIOUS
  <2> QED
    BY <2>2, <2>3 DEF SortsBefore
<1> QED
  BY <1>2, <1>4, ZenonT(30)

\* A finite set of revisions has a longest one.
LEMMA LongestRevision ==
  ASSUME NEW revs \in SUBSET Revisions, IsFiniteSet(revs), revs # {}
  PROVE  \E rev \in revs : \A other \in revs : Len(other) <= Len(rev)
<1> DEFINE Longer(a) == {b \in revs : Len(a) < Len(b)}
           Counts == {Cardinality(Longer(a)) : a \in revs}
<1>1. \A a \in revs : IsFiniteSet(Longer(a)) /\ Cardinality(Longer(a)) \in Nat
  BY FS_Subset, FS_CardinalityType
<1>2. Counts \in SUBSET Nat /\ Counts # {}
  BY ZenonT(30), <1>1
<1>3. PICK m \in Counts : \A n \in Counts : m <= n
  BY ZenonT(30), <1>2, LeastNat
<1>4. PICK rev \in revs : m = Cardinality(Longer(rev))
  BY <1>3
<1>5. \A a \in revs : Len(a) \in Nat
  BY ParentFields
<1>6. ASSUME NEW other \in revs, ~(Len(other) <= Len(rev)) PROVE FALSE
  <2>1. Len(rev) < Len(other)
    BY <1>5, <1>6
  <2>2. Longer(other) \subseteq Longer(rev) /\ other \in Longer(rev) /\ other \notin Longer(other)
    BY <1>5, <2>1
  <2>3. Cardinality(Longer(other)) <= Cardinality(Longer(rev)) /\ Cardinality(Longer(other)) # Cardinality(Longer(rev))
    BY <1>1, <2>2, FS_Subset
  <2>4. m <= Cardinality(Longer(other)) /\ Cardinality(Longer(other)) \in Nat
    BY ZenonT(30), <1>1, <1>3
  <2>5. PICK n \in Nat : n = Cardinality(Longer(other))
    BY ZenonT(30), <2>4
  <2>6. n <= m /\ n # m /\ m <= n /\ m \in Nat
    BY <1>2, <1>4, <2>3, <2>4, <2>5, ZenonT(30)
  <2> QED
    BY <2>6
<1> QED
  BY <1>6

\* Where the oldest edit is known, the longest revision of it is a live leaf.
LEMMA OldestIsLive ==
  ASSUME DistinctTimes, NEW T, T \subseteq Revisions, IsFiniteSet(T), \A rev \in T : Shape(rev),
         \E rev \in T : Len(rev) >= 2 /\ rev[2] = OldestEdit
  PROVE  \E rev \in Leaves(T) : rev \in LiveRevisions /\ Last(rev) = OldestEdit
<1> DEFINE Line == {rev \in T : Len(rev) >= 2 /\ rev[2] = OldestEdit}
<1>1. Line \in SUBSET Revisions /\ Line # {} /\ IsFiniteSet(Line)
  BY FS_Subset
<1>2. PICK top \in Line : \A other \in Line : Len(other) <= Len(top)
  BY ZenonT(30), <1>1, LongestRevision
<1>3. top \in Revisions /\ top \in Seq(Edits) /\ Len(top) \in Nat /\ Len(top) >= 2 /\ top[2] = OldestEdit /\ Shape(top)
  BY <1>1 DEF Revisions
<1>4. ASSUME NEW a \in T, Parent(a) = top PROVE FALSE
  <2>1. a \in Revisions
    OBVIOUS
  <2>2. Len(a) \in Nat \ {0} /\ Len(top) = Len(a) - 1
    BY <1>4, <2>1, ParentFields, ZenonT(30)
  <2>3. Len(a) - 1 \in 1..Len(a) /\ 2 \in 1..(Len(a) - 1)
    BY <1>3, <2>2
  <2>4. Parent(a)[2] = a[2]
    BY <2>1, <2>3, Ancestors, ZenonT(30) DEF Parent
  <2>5. a \in Line /\ Len(a) > Len(top)
    BY <1>3, <1>4, <2>2, <2>4
  <2> QED
    BY <1>2, <1>3, <2>2, <2>5
<1>5. top \in Leaves(T)
  BY <1>4 DEF Leaves
<1>6. Last(top) \in LiveEdits /\ Last(top) = OldestEdit
  <2>1. OldestEdit \in LiveEdits
    BY OldestIsOldest, HeadFields, ZenonT(30) DEF HeadEdits
  <2>2. top[Len(top)] = top[2]
    BY <1>3 DEF Shape
  <2> QED
    BY <1>3, <2>1, <2>2, ZenonT(30) DEF Last
<1> QED
  BY <1>3, <1>5, <1>6, ZenonT(30) DEF LiveRevisions

\* At the start the oldest edit is known to some replica.
LEMMA InitLine ==
  ASSUME DistinctTimes
  PROVE  Init => LineInv
<1> SUFFICES ASSUME Init
             PROVE  /\ \A r \in Replicas : \A rev \in tree[r] : Shape(rev)
                    /\ \A r \in Replicas : \E rev \in tree[r] : Len(rev) = 2
                    /\ \A r \in Replicas : resolution[r].delete = {} /\ ~Resolving(r)
                    /\ \E r \in Replicas : \E rev \in tree[r] : Len(rev) >= 2 /\ rev[2] = OldestEdit
  BY ZenonT(30) DEF LineInv
<1>1. PICK known \in [Replicas -> SUBSET Heads] : /\ \A r \in Replicas : known[r] # {}
                                                 /\ UNION {known[q] : q \in Replicas} = Heads
                                                 /\ tree = [r \in Replicas |-> {Root} \cup known[r]]
  BY ZenonT(30) DEF Init
<1>2. ASSUME NEW r \in Replicas PROVE tree[r] = {Root} \cup known[r] /\ known[r] \subseteq Heads /\ known[r] # {}
  BY <1>1, ZenonT(30)
<1>3. \A rev \in {Root} \cup Heads : Shape(rev)
  BY HeadFields DEF Shape, HeadEdits
<1>4. \A r \in Replicas : (\A rev \in tree[r] : Shape(rev)) /\ \E rev \in tree[r] : Len(rev) = 2
  BY <1>2, <1>3, HeadFields
<1>5. PICK i \in 1..Len(Times) : OldestEdit = Edit(i, Times[i])
  BY OldestIsOldest, ZenonT(30) DEF HeadEdits
<1>6. PICK head \in Heads : head = Child(Root, Edit(i, Times[i]))
  BY DEF Heads
<1>7. Len(head) = 2 /\ head[2] = OldestEdit
  <2>1. Root \in LiveRevisions /\ Edit(i, Times[i]) \in Edits
    BY HeadFields, ZenonT(30) DEF LiveEdits
  <2>2. Len(head) = 2 /\ Last(head) = Edit(i, Times[i])
    BY <1>6, <2>1, ChildFields, HeadFields, ZenonT(30)
  <2> QED
    BY <1>5, <2>2, ZenonT(30) DEF Last
<1>8. PICK r \in Replicas : head \in known[r]
  BY <1>1, ZenonT(30)
<1>9. \A q \in Replicas : resolution[q].delete = {} /\ ~Resolving(q)
  BY ZenonT(30) DEF Init, NotResolving, Resolving
<1>10. head \in tree[r] /\ Len(head) >= 2
  BY <1>2, <1>7, <1>8
<1> QED
  BY <1>4, <1>7, <1>9, <1>10, ZenonT(30)

\* Without edits by users, no step makes a revision of another shape, or deletes the
\* oldest edit.
LEMMA NextLine ==
  ASSUME MaxLiveEdits = 0, DistinctTimes
  PROVE  TreeInv /\ LineInv /\ [Next]_vars => LineInv'
<1> SUFFICES ASSUME TreeInv, LineInv, [Next]_vars, connected'
             PROVE  /\ \A r \in Replicas : \A rev \in tree'[r] : Shape(rev)
                    /\ \A r \in Replicas : \E rev \in tree'[r] : Len(rev) = 2
                    /\ \A r \in Replicas : \A rev \in resolution'[r].delete : Len(rev) >= 2 /\ rev[2] # OldestEdit
                    /\ \A r \in Replicas : resolution'[r] # NotResolving => Len(resolution'[r].keep) >= 2
                    /\ \E r \in Replicas : \E rev \in tree'[r] : Len(rev) >= 2 /\ rev[2] = OldestEdit
  BY ZenonT(30) DEF LineInv, Resolving
<1>1. connected
  BY ZenonT(30), FlagsKept
<1>2. /\ \A r \in Replicas : \A rev \in tree[r] : Shape(rev)
      /\ \A r \in Replicas : \E rev \in tree[r] : Len(rev) = 2
      /\ \A r \in Replicas : \A rev \in resolution[r].delete : Len(rev) >= 2 /\ rev[2] # OldestEdit
      /\ \A r \in Replicas : resolution[r] # NotResolving => Len(resolution[r].keep) >= 2
      /\ \E r \in Replicas : \E rev \in tree[r] : Len(rev) >= 2 /\ rev[2] = OldestEdit
  BY <1>1, ZenonT(30) DEF LineInv, Resolving
<1>3. CASE UNCHANGED vars
  BY <1>2, <1>3, ZenonT(30) DEF vars
<1>4. ASSUME NEW r \in Replicas, NEW edit, UserEdits(r, edit) PROVE FALSE
  <2>1. edits \in Nat /\ edits < MaxLiveEdits
    BY <1>1, <1>4, BoundsAssumption DEF UserEdits, TreeInv
  <2> QED
    BY <2>1
<1>5. ASSUME NEW r \in Replicas, NEW s \in Replicas, Replicate(r, s)
      PROVE  UNCHANGED resolution /\ \A q \in Replicas : tree[q] \subseteq tree'[q] /\ \A rev \in tree'[q] : Shape(rev)
  <2>1. PICK rev \in Leaves(tree[r]) : tree' = [tree EXCEPT ![s] = @ \cup History(rev)]
    BY <1>5, ZenonT(30) DEF Replicate
  <2>2. History(rev) \subseteq tree[r]
    BY ZenonT(30) DEF TreeInv, IsTree, Leaves
  <2> QED
    BY <1>2, <1>5, <2>1, <2>2, ZenonT(30) DEF TreeInv, Replicate
<1>6. ASSUME NEW r \in Replicas, BeginResolution(r)
      PROVE  /\ UNCHANGED tree
             /\ \A q \in Replicas : \A rev \in resolution'[q].delete : Len(rev) >= 2 /\ rev[2] # OldestEdit
             /\ \A q \in Replicas : resolution'[q] # NotResolving => Len(resolution'[q].keep) >= 2
  <2>1. PICK first \in ConflictingRevisions(tree[r]) :
          /\ \A other \in ConflictingRevisions(tree[r]) \ {first} : SortsBefore(first, other)
          /\ resolution'[r].keep = first /\ resolution'[r].delete = ConflictingRevisions(tree[r]) \ {first}
          /\ \A q \in Replicas \ {r} : resolution'[q] = resolution[q]
    BY <1>6, ResolutionBegins, ZenonT(30)
  <2>2. IsTree(tree[r])
    BY ZenonT(30) DEF TreeInv
  <2>3. \A other \in ConflictingRevisions(tree[r]) \ {first} : Len(other) >= 2 /\ other[2] # OldestEdit
    BY <1>2, <2>1, <2>2, OldestSortsFirst, ZenonT(30)
  <2>4. Len(first) >= 2
    BY <1>2, <2>2, LeavesAreEdited, LiveLeaves, ZenonT(30)
  <2> QED
    BY <1>2, <1>6, <2>1, <2>3, <2>4, ZenonT(30) DEF BeginResolution
<1>7. ASSUME NEW r \in Replicas, DeleteRevision(r)
      PROVE  /\ \A q \in Replicas : tree[q] \subseteq tree'[q] /\ \A rev \in tree'[q] : Shape(rev)
             /\ \A q \in Replicas : \A rev \in resolution'[q].delete : Len(rev) >= 2 /\ rev[2] # OldestEdit
             /\ \A q \in Replicas : resolution'[q] # NotResolving => Len(resolution'[q].keep) >= 2
  <2>1. PICK next \in resolution[r].delete :
          /\ next \in LiveRevisions /\ Tombstone \in Edits /\ Extend(r, next, Tombstone)
          /\ resolution'[r].keep = resolution[r].keep
          /\ resolution'[r].delete = resolution[r].delete \ {next}
          /\ \A q \in Replicas \ {r} : resolution'[q] = resolution[q]
    BY <1>7, RevisionDeleted, ZenonT(30)
  <2>2. Shape(next) /\ Len(next) >= 2 /\ next[2] # OldestEdit
    BY <1>2, ZenonT(30) DEF TreeInv
  <2>3. Shape(Child(next, Tombstone))
    BY <2>1, <2>2, ChildShape, ZenonT(30)
  <2>4. resolution[r] # NotResolving
    BY DEF NotResolving
  <2>5. /\ tree'[r] = tree[r] \cup {Child(next, Tombstone)}
        /\ \A q \in Replicas \ {r} : tree'[q] = tree[q]
    BY <2>1, Extended, SMTT(30)
  <2>6. \A q \in Replicas : tree[q] \subseteq tree'[q] /\ \A rev \in tree'[q] : Shape(rev)
    BY <1>2, <2>3, <2>5, ZenonT(30)
  <2>7. \A q \in Replicas : \A rev \in resolution'[q].delete : Len(rev) >= 2 /\ rev[2] # OldestEdit
    BY <1>2, <2>1, ZenonT(30)
  <2>8. \A q \in Replicas : resolution'[q] # NotResolving => Len(resolution'[q].keep) >= 2
    BY <1>2, <2>1, <2>4, ZenonT(30)
  <2> QED
    BY <2>6, <2>7, <2>8, ZenonT(30)
<1>8. ASSUME NEW r \in Replicas, CreateRevision(r)
      PROVE  \A q \in Replicas : tree[q] \subseteq tree'[q] /\ \A rev \in tree'[q] : Shape(rev)
  <2>1. PICK keep \in LiveRevisions :
          /\ keep = resolution[r].keep /\ keep \in tree[r]
          /\ Last(keep) \in Edits /\ Extend(r, keep, Last(keep))
    BY <1>8, RevisionCreated, ZenonT(30)
  <2>2. Shape(keep) /\ Len(keep) >= 2
    BY <1>2, <1>8, <2>1, ZenonT(30) DEF CreateRevision, Resolving
  <2>3. Shape(Child(keep, Last(keep)))
    BY <2>1, <2>2, ChildShape, ZenonT(30)
  <2>4. /\ tree'[r] = tree[r] \cup {Child(keep, Last(keep))}
        /\ \A q \in Replicas \ {r} : tree'[q] = tree[q]
    BY <2>1, Extended, SMTT(30)
  <2> QED
    BY <1>2, <2>3, <2>4, ZenonT(30)
<1>9. ASSUME NEW r \in Replicas, CreateRevision(r) \/ WriteRefused(r) \/ ResolutionStops(r)
      PROVE  /\ \A q \in Replicas : tree[q] \subseteq tree'[q] /\ \A rev \in tree'[q] : Shape(rev)
             /\ \A q \in Replicas : \A rev \in resolution'[q].delete : Len(rev) >= 2 /\ rev[2] # OldestEdit
             /\ \A q \in Replicas : resolution'[q] # NotResolving => Len(resolution'[q].keep) >= 2
  <2>1. resolution' = [resolution EXCEPT ![r] = NotResolving]
    BY <1>9, ZenonT(30) DEF CreateRevision, WriteRefused, ResolutionStops
  <2>2. /\ resolution'[r] = NotResolving /\ resolution'[r].delete = {}
        /\ \A q \in Replicas \ {r} : resolution'[q] = resolution[q]
    BY ZenonT(30), <2>1, ResolutionEnds
  <2>3. \A q \in Replicas : tree[q] \subseteq tree'[q] /\ \A rev \in tree'[q] : Shape(rev)
    BY <1>2, <1>8, <1>9, ZenonT(30) DEF WriteRefused, ResolutionStops
  <2> QED
    BY <1>2, <2>2, <2>3, ZenonT(30)
<1>10. CASE Next
  <2>1. PICK r \in Replicas :
          \/ \E edit \in Edits : UserEdits(r, edit)
          \/ \E s \in Replicas : Replicate(r, s)
          \/ BeginResolution(r) \/ DeleteRevision(r) \/ CreateRevision(r) \/ WriteRefused(r)
          \/ ResolutionStops(r)
    BY <1>10, UsersEdits, ZenonT(30) DEF Next, ResolutionStep
  <2>2. \A q \in Replicas : tree[q] \subseteq tree'[q] /\ \A rev \in tree'[q] : Shape(rev)
    BY <1>2, <1>4, <1>5, <1>6, <1>7, <1>9, <2>1, ZenonT(30)
  <2>3. /\ \A q \in Replicas : \A rev \in resolution'[q].delete : Len(rev) >= 2 /\ rev[2] # OldestEdit
        /\ \A q \in Replicas : resolution'[q] # NotResolving => Len(resolution'[q].keep) >= 2
    BY <1>2, <1>4, <1>5, <1>6, <1>7, <1>9, <2>1, ZenonT(30)
  <2> QED
    BY <1>2, <2>2, <2>3, ZenonT(30)
<1> QED
  BY <1>3, <1>10, ZenonT(30)

\* All that the replicas know together.
LEMMA EverywhereFinite == TreeInv => Everywhere \subseteq Revisions /\ IsFiniteSet(Everywhere)
<1> SUFFICES ASSUME TreeInv PROVE Everywhere \subseteq Revisions /\ IsFiniteSet(Everywhere)
  OBVIOUS
<1>1. IsFiniteSet(Replicas)
  BY NAssumption, FS_Interval DEF Replicas
<1>2. [r \in Replicas |-> tree[r]] \in Surjection(Replicas, {tree[r] : r \in Replicas})
  BY ZenonT(30) DEF Surjection
<1>3. IsFiniteSet({tree[r] : r \in Replicas})
  BY <1>1, <1>2, FS_Surjection, ZenonT(30)
<1>4. \A T \in {tree[r] : r \in Replicas} : IsFiniteSet(T) /\ T \subseteq Revisions
  BY DEF TreeInv, IsTree
<1> QED
  BY <1>3, <1>4, FS_UNION, ZenonT(30) DEF Everywhere

\* Connected replicas know, together, a live leaf that repeats the oldest edit.
LEMMA OldestSurvives ==
  ASSUME DistinctTimes, TreeInv, LineInv, connected
  PROVE  \E rev \in ConflictingRevisions(Everywhere) : Last(rev) = OldestEdit
<1>1. Everywhere \subseteq Revisions /\ IsFiniteSet(Everywhere)
  BY EverywhereFinite
<1>2. (\A rev \in Everywhere : Shape(rev)) /\ \E rev \in Everywhere : Len(rev) >= 2 /\ rev[2] = OldestEdit
  BY DEF LineInv, Everywhere
<1>3. PICK rev \in Leaves(Everywhere) : rev \in LiveRevisions /\ Last(rev) = OldestEdit
  BY <1>1, <1>2, OldestIsLive
<1>4. ~IsDeletion(rev)
  BY <1>3, ZenonT(30) DEF LiveRevisions, LiveEdits, IsDeletion
<1> QED
  BY <1>3, <1>4, ZenonT(30) DEF ConflictingRevisions

\* The invariants of replicas on their own and of connected ones.
LEMMA LinesKept ==
  ASSUME MaxLiveEdits = 0, DistinctTimes
  PROVE  Spec => [](TreeInv /\ AloneInv /\ LineInv)
<1>1. Init => LineInv
  BY InitLine
<1>2. TreeInv /\ LineInv /\ [Next]_vars => LineInv'
  BY NextLine
<1> QED
  BY <1>1, <1>2, InitTrees, NextTrees, InitAlone, NextAlone, PTL DEF Spec

\* No interleaving of the resolutions of any number of replicas, each of which sorts
\* what it knows and may stop half way, with the replication of their revisions deletes
\* the last revision of a document that has been edited any number of times, at
\* different times; replicas on their own may be edited meanwhile.
THEOREM DocumentIsNotLost ==
  ASSUME MaxLiveEdits = 0, DistinctTimes
  PROVE  Spec => []DocumentSurvives
<1>1. TreeInv /\ AloneInv /\ LineInv => DocumentSurvives
  <2> SUFFICES ASSUME TreeInv, AloneInv, LineInv, ~userDeleted, NEW T \in Known
               PROVE  ConflictingRevisions(T) # {}
    BY DEF DocumentSurvives
  <2>1. CASE connected
    BY <2>1, OldestSurvives DEF Known
  <2>2. CASE ~connected
    BY <2>2 DEF AloneInv, Known
  <2> QED
    BY <2>1, <2>2
<1> QED
  BY LinesKept, <1>1, PTL

\* When connected replicas have come to rest, what one of them knows is what all know.
LEMMA RestKeeps ==
  ASSUME Settled, connected, NEW r \in Replicas
  PROVE  Everywhere = tree[r]
BY DEF Settled, Everywhere

\* "delete all revisions but revs[0]": once replication and resolution have come to
\* rest every replica still has the document, under the same conditions.
THEOREM DocumentIsKept ==
  ASSUME MaxLiveEdits = 0, DistinctTimes
  PROVE  Spec => []DocumentKept
<1>1. DocumentSurvives => DocumentKept
  BY RestKeeps DEF DocumentSurvives, DocumentKept, Known
<1>2. Spec => []DocumentSurvives
  BY DocumentIsNotLost
<1> QED
  BY <1>1, <1>2, PTL

\* Connected replicas can come to rest on nothing but the oldest of the conflicting
\* edits, which then is the document on all of them: the safety part of Converges.
RestsOnOldest ==
  connected /\ Settled => \A r \in Replicas : Last(Winner(tree[r])) = Last(Oldest)

\* Whatever order the resolutions and the replication take, and wherever resolutions
\* stop, the replicas agree on the oldest edit when they have come to rest.
THEOREM ReplicasAgree ==
  ASSUME MaxLiveEdits = 0, DistinctTimes
  PROVE  Spec => []RestsOnOldest
<1>1. TreeInv /\ AloneInv /\ LineInv => RestsOnOldest
  <2> SUFFICES ASSUME TreeInv, AloneInv, LineInv, connected, Settled, NEW r \in Replicas
               PROVE  Last(Winner(tree[r])) = Last(Oldest)
    BY DEF RestsOnOldest
  <2>1. PICK rev \in ConflictingRevisions(tree[r]) : Last(rev) = OldestEdit
    BY OldestSurvives, RestKeeps, ZenonT(30)
  <2>2. \A other \in ConflictingRevisions(tree[r]) : other = rev
    <3>1. IsFiniteSet(ConflictingRevisions(tree[r])) /\ Cardinality(ConflictingRevisions(tree[r])) < 2
      BY LiveLeaves, ZenonT(30) DEF TreeInv, Settled
    <3>2. Cardinality(ConflictingRevisions(tree[r])) \in Nat /\ Cardinality(ConflictingRevisions(tree[r])) # 0
      BY <3>1, FS_CardinalityType, FS_EmptySet, ZenonT(30)
    <3>3. Cardinality(ConflictingRevisions(tree[r])) = 1
      BY <3>1, <3>2
    <3> QED
      BY <3>1, <3>3, FS_Singleton
  <2>3. Winner(tree[r]) = rev
    BY <2>2, ZenonT(30) DEF Winner
  <2>4. Last(Oldest) = OldestEdit
    <3>1. \A head \in Heads : Last(head) \in HeadEdits
      BY HeadFields, ZenonT(30) DEF Last, HeadEdits
    <3>2. \E head \in Heads : Last(head) = OldestEdit
      <4>1. PICK i \in 1..Len(Times) : OldestEdit = Edit(i, Times[i])
        BY OldestIsOldest, ZenonT(30) DEF HeadEdits
      <4>2. Root \in LiveRevisions /\ Edit(i, Times[i]) \in Edits
        BY HeadFields, ZenonT(30) DEF LiveEdits
      <4>3. Last(Child(Root, Edit(i, Times[i]))) = Edit(i, Times[i])
        BY <4>2, ChildFields, ZenonT(30)
      <4> QED
        BY <4>1, <4>3, ZenonT(30) DEF Heads
    <3>3. \E head \in Heads : \A other \in Heads : Last(head).updatedAt <= Last(other).updatedAt
      BY <3>1, <3>2, OldestIsOldest
    <3>4. Oldest \in Heads /\ \A other \in Heads : Last(Oldest).updatedAt <= Last(other).updatedAt
      BY <3>3, ZenonT(30) DEF Oldest
    <3> QED
      BY <3>1, <3>2, <3>4, OldestIsOldest
  <2> QED
    BY <2>1, <2>3, <2>4, ZenonT(30)
<1> QED
  BY LinesKept, <1>1, PTL

-----------------------------------------------------------------------------
(* How far a resolution gets, and how long it can take *)

Conflicts(r) == Cardinality(ConflictingRevisions(tree[r]))

\* The writes a resolution has still to attempt at most.
WritesLeft(r) == IF Resolving(r) THEN Cardinality(resolution[r].delete) + 1 ELSE 0

\* What a write does to the conflicts of the replica: one that deletes ends one, and
\* another one leaves as many as there were.
LEMMA ConflictsWritten ==
  ASSUME TreeInv, NEW r \in Replicas, NEW rev \in LiveRevisions, NEW e \in Edits, Extend(r, rev, e)
  PROVE  /\ Conflicts(r) \in Nat
         /\ Conflicts(r)' = IF e.deleted THEN Conflicts(r) - 1 ELSE Conflicts(r)
         /\ \A s \in Replicas \ {r} : Conflicts(s)' = Conflicts(s)
<1>1. PICK c : c = Child(rev, e)
  OBVIOUS
<1>2. PICK C : C = ConflictingRevisions(tree[r])
  OBVIOUS
<1>3. PICK D : D = ConflictingRevisions(tree'[r])
  BY ZenonT(30)
<1>4. /\ IsTree(tree'[r]) /\ c \notin tree[r]
      /\ Leaves(tree'[r]) = (Leaves(tree[r]) \ {rev}) \cup {c}
      /\ \A s \in Replicas \ {r} : tree'[s] = tree[s]
  BY <1>1, Extended, ZenonT(30)
<1>5. /\ C = Leaves(tree[r]) \cap LiveRevisions /\ C \subseteq tree[r] /\ IsFiniteSet(C)
      /\ D = Leaves(tree'[r]) \cap LiveRevisions
  BY <1>2, <1>3, <1>4, LiveLeaves, ZenonT(30) DEF TreeInv
<1>6. rev \in C /\ c \notin C
  BY <1>4, <1>5, ZenonT(30) DEF Extend, CanExtend
<1>7. c \in LiveRevisions <=> ~e.deleted
  BY <1>1, ChildFields, ZenonT(30) DEF LiveRevisions, LiveEdits
<1>8. D = IF e.deleted THEN C \ {rev} ELSE (C \ {rev}) \cup {c}
  BY <1>4, <1>5, <1>7, ZenonT(30)
<1>9. /\ IsFiniteSet(C \ {rev}) /\ Cardinality(C) \in Nat
      /\ Cardinality(C \ {rev}) = Cardinality(C) - 1
  BY ZenonT(30), <1>5, <1>6, FS_RemoveElement, FS_CardinalityType
<1>10. Cardinality((C \ {rev}) \cup {c}) = Cardinality(C)
  <2>1. Cardinality((C \ {rev}) \cup {c}) = Cardinality(C \ {rev}) + 1
    BY ZenonT(30), <1>6, <1>9, FS_AddElement
  <2> QED
    BY <1>9, <2>1
<1>11. Conflicts(r) = Cardinality(C) /\ Conflicts(r)' = Cardinality(D)
  BY <1>2, <1>3, ZenonT(30) DEF Conflicts
<1>12. \A s \in Replicas \ {r} : Conflicts(s)' = Conflicts(s)
  BY <1>4, ZenonT(30) DEF Conflicts
<1> QED
  BY <1>8, <1>9, <1>10, <1>11, <1>12, ZenonT(30)

\* There are finitely many conflicts, and writes to attempt.
LEMMA ConflictsCounted ==
  ASSUME TreeInv, NEW r \in Replicas
  PROVE  /\ Conflicts(r) \in Nat
         /\ IsFiniteSet(resolution[r].delete) /\ Cardinality(resolution[r].delete) \in Nat
         /\ WritesLeft(r) \in Nat
<1>1. IsFiniteSet(ConflictingRevisions(tree[r])) /\ IsFiniteSet(resolution[r].delete)
  BY LiveLeaves, FS_Subset, ZenonT(30) DEF TreeInv, IsTree
<1> QED
  BY <1>1, FS_CardinalityType DEF Conflicts, WritesLeft

\* A resolution leaves its replica with fewer conflicts for every deletion that it
\* writes and with no more for anything else it does; only replication brings new ones.
ConflictsShrink ==
  \A r \in Replicas :
    /\ DeleteRevision(r) => Conflicts(r)' = Conflicts(r) - 1
    /\ (\A s \in Replicas : ~Replicate(s, r)) => Conflicts(r)' <= Conflicts(r)

\* A resolution attempts one write for each conflicting revision it has read, fewer if
\* one is refused or fails; nothing that a user, the replication or another replica
\* does in the meantime makes it longer.
WritesShrink ==
  \A r \in Replicas :
    /\ BeginResolution(r) => WritesLeft(r)' = Conflicts(r)
    /\ DeleteRevision(r) \/ CreateRevision(r) \/ WriteRefused(r) \/ ResolutionStops(r)
         => WritesLeft(r)' < WritesLeft(r)
    /\ ~BeginResolution(r) => WritesLeft(r)' <= WritesLeft(r)

\* A resolution that begins has as many writes before it as there are conflicts.
LEMMA BeginCounts ==
  ASSUME TreeInv, NEW r \in Replicas, BeginResolution(r)
  PROVE  /\ WritesLeft(r)' = Conflicts(r)
         /\ \A s \in Replicas : Conflicts(s)' = Conflicts(s) /\ (s # r => WritesLeft(s)' = WritesLeft(s))
<1>1. PICK revs : revs = ConflictingRevisions(tree[r])
  OBVIOUS
<1>2. PICK first : first = First(revs)
  OBVIOUS
<1>3. /\ first \in revs /\ resolution'[r].keep = first /\ resolution'[r].delete = revs \ {first}
      /\ \A s \in Replicas \ {r} : resolution'[s] = resolution[s]
  BY <1>1, <1>2, ResolutionBegins, ZenonT(30)
<1>4. IsFiniteSet(revs) /\ revs \subseteq Revisions /\ Cardinality(revs) \in Nat
  BY <1>1, LiveLeaves, FS_CardinalityType, ZenonT(30) DEF TreeInv, LiveRevisions
<1>5. Cardinality(revs \ {first}) = Cardinality(revs) - 1
  BY ZenonT(30), <1>3, <1>4, FS_RemoveElement
<1>6. resolution'[r] # NotResolving
  BY <1>3, <1>4 DEF NotResolving, Revisions
<1>7. WritesLeft(r)' = Cardinality(revs \ {first}) + 1
  BY <1>3, <1>6, ZenonT(30) DEF WritesLeft, Resolving
<1>8. WritesLeft(r)' = Conflicts(r)
  BY <1>1, <1>4, <1>5, <1>7 DEF Conflicts
<1>9. tree' = tree
  BY ZenonT(30) DEF BeginResolution
<1> QED
  BY <1>3, <1>8, <1>9, ZenonT(30) DEF Conflicts, WritesLeft, Resolving

\* A deletion is one write less, and one conflict less.
LEMMA DeleteCounts ==
  ASSUME TreeInv, NEW r \in Replicas, DeleteRevision(r)
  PROVE  /\ WritesLeft(r) \in Nat /\ WritesLeft(r)' = WritesLeft(r) - 1
         /\ Conflicts(r) \in Nat /\ Conflicts(r)' = Conflicts(r) - 1
         /\ \A s \in Replicas \ {r} : Conflicts(s)' = Conflicts(s) /\ WritesLeft(s)' = WritesLeft(s)
<1>1. PICK next \in resolution[r].delete :
        /\ next \in LiveRevisions /\ Tombstone \in Edits /\ Extend(r, next, Tombstone)
        /\ resolution'[r].keep = resolution[r].keep
        /\ resolution'[r].delete = resolution[r].delete \ {next}
        /\ \A s \in Replicas \ {r} : resolution'[s] = resolution[s]
  BY RevisionDeleted, ZenonT(30)
<1>2. Tombstone.deleted
  BY ZenonT(30) DEF Tombstone
<1>3. /\ Conflicts(r) \in Nat /\ Conflicts(r)' = Conflicts(r) - 1
      /\ \A s \in Replicas \ {r} : Conflicts(s)' = Conflicts(s)
  BY <1>1, <1>2, ConflictsWritten, ZenonT(30)
<1>4. resolution[r] # NotResolving
  BY <1>1 DEF NotResolving
<1>5. resolution'[r] # NotResolving
  <2>1. resolution[r].keep \in Revisions
    BY <1>4, ZenonT(30) DEF TreeInv, Resolving, LiveRevisions
  <2>2. resolution'[r].keep # <<>>
    BY <1>1, <2>1, ZenonT(30) DEF Revisions
  <2> QED
    BY <2>2 DEF NotResolving
<1>6. IsFiniteSet(resolution[r].delete) /\ Cardinality(resolution[r].delete) \in Nat
  BY ConflictsCounted, ZenonT(30)
<1>7. Cardinality(resolution'[r].delete) = Cardinality(resolution[r].delete) - 1
  <2>1. Cardinality(resolution[r].delete \ {next}) = Cardinality(resolution[r].delete) - 1
    BY <1>6, FS_RemoveElement, ZenonT(30)
  <2> QED
    BY <1>1, <2>1
<1>8. WritesLeft(r) \in Nat /\ WritesLeft(r)' = WritesLeft(r) - 1
  <2>1. /\ WritesLeft(r) = Cardinality(resolution[r].delete) + 1
        /\ WritesLeft(r)' = Cardinality(resolution'[r].delete) + 1
    BY <1>4, <1>5, ZenonT(30) DEF WritesLeft, Resolving
  <2> QED
    BY <1>6, <1>7, <2>1
<1>9. \A s \in Replicas \ {r} : WritesLeft(s)' = WritesLeft(s)
  BY <1>1 DEF WritesLeft, Resolving
<1> QED
  BY <1>3, <1>8, <1>9, ZenonT(30)

\* A resolution that ends, in one way or another, has no writes before it.
LEMMA EndCounts ==
  ASSUME TreeInv, NEW r \in Replicas, CreateRevision(r) \/ WriteRefused(r) \/ ResolutionStops(r)
  PROVE  /\ WritesLeft(r) \in Nat /\ WritesLeft(r)' = 0 /\ 0 < WritesLeft(r)
         /\ \A s \in Replicas : Conflicts(s)' = Conflicts(s) /\ (s # r => WritesLeft(s)' = WritesLeft(s))
<1>1. Resolving(r) /\ resolution' = [resolution EXCEPT ![r] = NotResolving]
  BY DEF CreateRevision, WriteRefused, ResolutionStops
<1>2. resolution'[r] = NotResolving /\ \A s \in Replicas \ {r} : resolution'[s] = resolution[s]
  BY ZenonT(30), <1>1, ResolutionEnds
<1>3. WritesLeft(r)' = 0 /\ \A s \in Replicas : s # r => WritesLeft(s)' = WritesLeft(s)
  BY <1>2 DEF WritesLeft, Resolving
<1>4. WritesLeft(r) \in Nat /\ 0 < WritesLeft(r)
  BY <1>1, ConflictsCounted DEF WritesLeft
<1>5. CASE CreateRevision(r)
  <2>1. PICK keep : keep = resolution[r].keep
    BY ZenonT(30)
  <2>2. /\ keep \in LiveRevisions /\ Last(keep) \in LiveEdits /\ Last(keep) \in Edits
        /\ Extend(r, keep, Last(keep))
    BY <1>5, <2>1, RevisionCreated, ZenonT(30)
  <2>3. ~Last(keep).deleted
    BY <2>2 DEF LiveEdits
  <2>4. \A s \in Replicas : Conflicts(s)' = Conflicts(s)
    BY <2>2, <2>3, ConflictsWritten, ZenonT(30)
  <2> QED
    BY <1>3, <1>4, <2>4
<1>6. CASE WriteRefused(r) \/ ResolutionStops(r)
  <2>1. tree' = tree
    BY <1>6 DEF WriteRefused, ResolutionStops
  <2> QED
    BY <1>3, <1>4, <2>1, ZenonT(30) DEF Conflicts
<1> QED
  BY <1>5, <1>6, ZenonT(30)

\* What users and the replication do leaves the writes of every resolution alone; an
\* edit brings no conflict, and a replication none to a replica it does not reach.
LEMMA OthersCount ==
  ASSUME TreeInv, NEW q \in Replicas,
         (\E edit \in Edits : UserEdits(q, edit)) \/ (\E s \in Replicas : Replicate(q, s))
  PROVE  \A r \in Replicas :
           /\ WritesLeft(r)' = WritesLeft(r)
           /\ ~Replicate(q, r) => Conflicts(r)' <= Conflicts(r)
<1> SUFFICES ASSUME NEW r \in Replicas
             PROVE  /\ WritesLeft(r)' = WritesLeft(r)
                    /\ ~Replicate(q, r) => Conflicts(r)' <= Conflicts(r)
  OBVIOUS
<1>1. Conflicts(r) \in Nat
  BY ConflictsCounted
<1>2. ASSUME NEW edit \in Edits, UserEdits(q, edit)
      PROVE  resolution' = resolution /\ Conflicts(r)' <= Conflicts(r)
  <2>1. PICK rev \in LiveRevisions : Extend(q, rev, edit)
    BY <1>2, UserEdited, ZenonT(30)
  <2>2. resolution' = resolution
    BY <1>2, ZenonT(30) DEF UserEdits
  <2> QED
    BY <1>1, <2>1, <2>2, ConflictsWritten
<1>3. ASSUME NEW s \in Replicas, Replicate(q, s)
      PROVE  resolution' = resolution /\ (~Replicate(q, r) => Conflicts(r)' <= Conflicts(r))
  <2>1. resolution' = resolution /\ \A o \in Replicas \ {s} : tree'[o] = tree[o]
    BY <1>3, ZenonT(30) DEF Replicate, TreeInv
  <2>2. s # r => Conflicts(r)' = Conflicts(r)
    BY <2>1, ZenonT(30) DEF Conflicts
  <2> QED
    BY <1>1, <1>3, <2>1, <2>2
<1>4. resolution' = resolution /\ (~Replicate(q, r) => Conflicts(r)' <= Conflicts(r))
  BY <1>2, <1>3, ZenonT(30)
<1> QED
  BY <1>4 DEF WritesLeft, Resolving

\* Every step shrinks what it says it shrinks.
LEMMA ResolutionShrinks == TreeInv /\ [Next]_vars => ConflictsShrink /\ WritesShrink
<1> SUFFICES ASSUME TreeInv, [Next]_vars, NEW r \in Replicas
             PROVE  /\ DeleteRevision(r) => Conflicts(r)' = Conflicts(r) - 1
                    /\ (\A s \in Replicas : ~Replicate(s, r)) => Conflicts(r)' <= Conflicts(r)
                    /\ BeginResolution(r) => WritesLeft(r)' = Conflicts(r)
                    /\ DeleteRevision(r) \/ CreateRevision(r) \/ WriteRefused(r) \/ ResolutionStops(r)
                         => WritesLeft(r)' < WritesLeft(r)
                    /\ ~BeginResolution(r) => WritesLeft(r)' <= WritesLeft(r)
  BY DEF ConflictsShrink, WritesShrink
<1>1. Conflicts(r) \in Nat /\ WritesLeft(r) \in Nat
  BY ConflictsCounted
<1>a. /\ Conflicts(r)' = Conflicts(r) => Conflicts(r)' <= Conflicts(r)
      /\ WritesLeft(r)' = WritesLeft(r) => WritesLeft(r)' <= WritesLeft(r)
  BY <1>1
<1>2. BeginResolution(r) => WritesLeft(r)' = Conflicts(r)
  BY BeginCounts
<1>3. DeleteRevision(r) => /\ Conflicts(r)' = Conflicts(r) - 1 /\ Conflicts(r)' <= Conflicts(r)
                           /\ WritesLeft(r)' < WritesLeft(r) /\ WritesLeft(r)' <= WritesLeft(r)
  <2>1. DeleteRevision(r) => Conflicts(r)' = Conflicts(r) - 1 /\ WritesLeft(r)' = WritesLeft(r) - 1
    BY DeleteCounts
  <2> QED
    BY <1>1, <2>1
<1>4. CreateRevision(r) \/ WriteRefused(r) \/ ResolutionStops(r)
        => WritesLeft(r)' < WritesLeft(r) /\ WritesLeft(r)' <= WritesLeft(r)
  <2>1. CreateRevision(r) \/ WriteRefused(r) \/ ResolutionStops(r)
          => WritesLeft(r)' = 0 /\ 0 < WritesLeft(r)
    BY EndCounts, ZenonT(30)
  <2> QED
    BY <1>1, <2>1
<1>5. /\ (\A s \in Replicas : ~Replicate(s, r)) => Conflicts(r)' <= Conflicts(r)
      /\ ~BeginResolution(r) => WritesLeft(r)' <= WritesLeft(r)
  <2>1. CASE UNCHANGED vars
    <3>1. Conflicts(r)' = Conflicts(r) /\ WritesLeft(r)' = WritesLeft(r)
      BY <2>1, ZenonT(30) DEF vars, Conflicts, WritesLeft, Resolving
    <3> QED
      BY <1>a, <3>1, ZenonT(30)
  <2>2. CASE Next
    <3>1. PICK q \in Replicas :
            \/ (\E edit \in Edits : UserEdits(q, edit)) \/ (\E s \in Replicas : Replicate(q, s))
            \/ BeginResolution(q) \/ DeleteRevision(q)
            \/ CreateRevision(q) \/ WriteRefused(q) \/ ResolutionStops(q)
      BY <2>2, UsersEdits, ZenonT(30) DEF Next, ResolutionStep
    <3>2. CASE (\E edit \in Edits : UserEdits(q, edit)) \/ (\E s \in Replicas : Replicate(q, s))
      <4>1. WritesLeft(r)' = WritesLeft(r) /\ (~Replicate(q, r) => Conflicts(r)' <= Conflicts(r))
        BY <3>2, OthersCount, ZenonT(30)
      <4> QED
        BY <1>a, <4>1, ZenonT(30)
    <3>3. CASE BeginResolution(q)
      <4>1. Conflicts(r)' = Conflicts(r) /\ (r # q => WritesLeft(r)' = WritesLeft(r))
        BY <3>3, BeginCounts, ZenonT(30)
      <4> QED
        BY <1>a, <3>3, <4>1, ZenonT(30)
    <3>4. CASE DeleteRevision(q)
      <4>1. r # q => Conflicts(r)' = Conflicts(r) /\ WritesLeft(r)' = WritesLeft(r)
        BY <3>4, DeleteCounts, ZenonT(30)
      <4> QED
        BY <1>a, <1>3, <3>4, <4>1, ZenonT(30)
    <3>5. CASE CreateRevision(q) \/ WriteRefused(q) \/ ResolutionStops(q)
      <4>1. Conflicts(r)' = Conflicts(r) /\ (r # q => WritesLeft(r)' = WritesLeft(r))
        BY <3>5, EndCounts
      <4> QED
        BY <1>a, <1>4, <3>5, <4>1, ZenonT(30)
    <3> QED
      BY <3>1, <3>2, <3>3, <3>4, <3>5, ZenonT(30)
  <2> QED
    BY <2>1, <2>2
<1> QED
  BY <1>2, <1>3, <1>4, <1>5, ZenonT(30)

\* A resolution ends after at most as many writes as it read conflicting revisions:
\* every write, refused or not, takes one from what is left, and nobody adds to it.
\* Every deletion it writes leaves one conflict less, and only replication brings new
\* conflicts to a replica. (That the writes are made is fairness, and with TLC.)
THEOREM ResolutionIsBounded ==
  Spec => /\ [](\A r \in Replicas : WritesLeft(r) \in Nat)
          /\ [][ConflictsShrink /\ WritesShrink]_vars
<1>1. TreeInv => \A r \in Replicas : WritesLeft(r) \in Nat
  BY ConflictsCounted
<1> QED
  BY Trees, ResolutionShrinks, <1>1, PTL DEF Spec
=============================================================================
