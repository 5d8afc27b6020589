-------------------------- MODULE ConflictResolution --------------------------
(***************************************************************************)
(* -[MPManagedObjectsController resolveConflictingRevisionsForObject:error:] *)
(* at work on several replicas of one document that replicate with each    *)
(* other.  Couchbase Lite's revision tree is external: a revision is the   *)
(* path of edits from the document's creation to it, which is what its     *)
(* identifier digests, so equal edits of one parent are one revision.      *)
(* Every write of the resolution is a step of its own: the replicator adds *)
(* revisions in between, and a write may fail or the process end.          *)
(***************************************************************************)
EXTENDS Naturals, Sequences, FiniteSets

CONSTANTS N,            \* the replicas are 1..N
          Times,        \* updatedAt of the conflicting edits made at the start
          MaxTime,      \* bound: values of updatedAt
          MaxEdits,     \* bound: edits made after the initial ones, by the users of
                        \* replicas that do not replicate with each other
          MaxLiveEdits, \* bound: edits made while they do
          MaxFailures   \* bound: resolutions that stop half way for no reason

ASSUME NAssumption == N \in Nat \ {0}
ASSUME BoundsAssumption == MaxTime \in Nat /\ MaxEdits \in Nat /\ MaxLiveEdits \in Nat /\ MaxFailures \in Nat
ASSUME TimesAssumption == Times \in Seq(1..MaxTime) /\ Times # <<>>

Replicas == 1..N

VARIABLES connected,    \* whether the replicas replicate with each other
          tree,         \* the revisions each replica has
          resolution,   \* what each replica's resolution still has to do
          edits,        \* edits made so far
          failures,     \* resolutions that failed so far
          userDeleted   \* history: a user has deleted the document

vars == <<connected, tree, resolution, edits, failures, userDeleted>>

\* What a revision adds to its parent: the properties, known by the replica
\* they were entered on and their updatedAt, or a deletion.
Edit(r, time) == [by |-> r, updatedAt |-> time, deleted |-> FALSE]
Tombstone == [by |-> 0, updatedAt |-> 0, deleted |-> TRUE]

Root == <<Edit(0, 0)>>
Child(rev, edit) == Append(rev, edit)
Parent(rev) == SubSeq(rev, 1, Len(rev) - 1)
Last(rev) == rev[Len(rev)]
IsDeletion(rev) == Last(rev).deleted
History(rev) == {SubSeq(rev, 1, i) : i \in 1..Len(rev)}

Leaves(T) == T \ {Parent(rev) : rev \in T}

\* -[CBLDocument getConflictingRevisions:]
ConflictingRevisions(T) == {rev \in Leaves(T) : ~IsDeletion(rev)}

\* CBLCompareRevIDs: the generation first, then the digest, for which any fixed
\* order of the differing edits stands.
DigestBefore(a, b) == a.by < b.by \/ (a.by = b.by /\ a.updatedAt < b.updatedAt)
CompareRevIDs(a, b) ==
  \/ Len(a) < Len(b)
  \/ /\ Len(a) = Len(b)
     /\ \E i \in 1..Len(a) : /\ \A j \in 1..(i - 1) : a[j] = b[j]
                             /\ DigestBefore(a[i], b[i])

\* The revision Couchbase Lite shows as the document's current one.
Winner(T) ==
  LET candidates == IF ConflictingRevisions(T) # {} THEN ConflictingRevisions(T)
                    ELSE Leaves(T)
  IN  CHOOSE rev \in candidates : \A other \in candidates \ {rev} : CompareRevIDs(other, rev)

\* Mutant: the newest revision sorts first.
SortsBefore_Newest(a, b) ==
  LET timeA == Last(a).updatedAt
      timeB == Last(b).updatedAt
  IN  timeB < timeA \/ (timeA = timeB /\ CompareRevIDs(b, a))

\* The comparator the conflicting revisions are sorted with.
SortsBefore(a, b) ==
  LET timeA == Last(a).updatedAt
      timeB == Last(b).updatedAt
  IN  timeA < timeB \/ (timeA = timeB /\ CompareRevIDs(a, b))

First(revs) == CHOOSE rev \in revs : \A other \in revs \ {rev} : SortsBefore(rev, other)

NotResolving == [keep |-> <<>>, delete |-> {}]
Resolving(r) == resolution[r] # NotResolving

\* A revision is added below rev; Couchbase Lite refuses one whose parent is no
\* longer a leaf.
CanExtend(r, rev) == rev \in Leaves(tree[r])
Extend(r, rev, edit) ==
  /\ CanExtend(r, rev)
  /\ tree' = [tree EXCEPT ![r] = @ \cup {Child(rev, edit)}]

-----------------------------------------------------------------------------

\* The conflicting edits of the first revision: each replica knows some of them,
\* and together they know all.
Heads == {Child(Root, Edit(i, Times[i])) : i \in 1..Len(Times)}

Init ==
  /\ connected \in BOOLEAN
  /\ \E known \in [Replicas -> SUBSET Heads] :
       /\ \A r \in Replicas : known[r] # {}
       /\ UNION {known[r] : r \in Replicas} = Heads
       /\ tree = [r \in Replicas |-> {Root} \cup known[r]]
  /\ resolution = [r \in Replicas |-> NotResolving]
  /\ edits = 0
  /\ failures = 0
  /\ userDeleted = FALSE

\* -save: or -deleteDocument: on the current revision, at a later time.
UserEdits(r, edit) ==
  /\ edits < IF connected THEN MaxLiveEdits ELSE MaxEdits
  /\ ~IsDeletion(Winner(tree[r]))
  /\ edit.deleted \/ edit.updatedAt > Last(Winner(tree[r])).updatedAt
  /\ Extend(r, Winner(tree[r]), edit)
  /\ edits' = edits + 1
  /\ userDeleted' = (userDeleted \/ edit.deleted)
  /\ UNCHANGED <<connected, resolution, failures>>

\* Push or pull replication hands s one leaf of r with its history.
Replicate(r, s) ==
  /\ connected /\ r # s
  /\ \E rev \in Leaves(tree[r]) \ tree[s] :
       tree' = [tree EXCEPT ![s] = @ \cup History(rev)]
  /\ UNCHANGED <<connected, resolution, edits, failures, userDeleted>>

\* Mutant: the revisions are not sorted.
BeginResolution_Unsorted(r) ==
  LET revs == ConflictingRevisions(tree[r]) IN
  /\ ~Resolving(r)
  /\ Cardinality(revs) >= 2
  /\ \E keep \in revs : resolution' = [resolution EXCEPT ![r] = [keep |-> keep, delete |-> revs \ {keep}]]
  /\ UNCHANGED <<connected, tree, edits, failures, userDeleted>>

\* Mutant: the loop starts at the first revision instead of the second.
BeginResolution_DeletesAll(r) ==
  LET revs == ConflictingRevisions(tree[r]) IN
  /\ ~Resolving(r)
  /\ Cardinality(revs) >= 2
  /\ resolution' = [resolution EXCEPT ![r] = [keep |-> First(revs), delete |-> revs]]
  /\ UNCHANGED <<connected, tree, edits, failures, userDeleted>>

\* The conflicting revisions are read and sorted; fewer than two are no conflict.
BeginResolution(r) ==
  LET revs == ConflictingRevisions(tree[r]) IN
  /\ ~Resolving(r)
  /\ Cardinality(revs) >= 2
  /\ resolution' = [resolution EXCEPT ![r] =
                      [keep |-> First(revs), delete |-> revs \ {First(revs)}]]
  /\ UNCHANGED <<connected, tree, edits, failures, userDeleted>>

\* The next revision but the first is deleted.
DeleteRevision(r) ==
  LET next == First(resolution[r].delete) IN
  /\ resolution[r].delete # {}
  /\ Extend(r, next, Tombstone)
  /\ resolution' = [resolution EXCEPT ![r].delete = @ \ {next}]
  /\ UNCHANGED <<connected, edits, failures, userDeleted>>

\* The properties of the first become a new revision.
CreateRevision(r) ==
  LET keep == resolution[r].keep IN
  /\ Resolving(r)
  /\ resolution[r].delete = {}
  /\ Extend(r, keep, Last(keep))
  /\ resolution' = [resolution EXCEPT ![r] = NotResolving]
  /\ UNCHANGED <<connected, edits, failures, userDeleted>>

\* Mutant: a refused write is tried again for ever.
WriteRefused_Retried(r) ==
  /\ Resolving(r)
  /\ IF resolution[r].delete # {}
       THEN ~CanExtend(r, First(resolution[r].delete))
       ELSE ~CanExtend(r, resolution[r].keep)
  /\ UNCHANGED vars

\* A write is refused because its parent has been extended: NO is returned.
WriteRefused(r) ==
  /\ Resolving(r)
  /\ IF resolution[r].delete # {}
       THEN ~CanExtend(r, First(resolution[r].delete))
       ELSE ~CanExtend(r, resolution[r].keep)
  /\ resolution' = [resolution EXCEPT ![r] = NotResolving]
  /\ UNCHANGED <<connected, tree, edits, failures, userDeleted>>

\* A write fails for another reason, or the process ends.
ResolutionStops(r) ==
  /\ Resolving(r)
  /\ failures < MaxFailures
  /\ failures' = failures + 1
  /\ resolution' = [resolution EXCEPT ![r] = NotResolving]
  /\ UNCHANGED <<connected, tree, edits, userDeleted>>

ResolutionStep(r) ==
  BeginResolution(r) \/ DeleteRevision(r) \/ CreateRevision(r) \/ WriteRefused(r)

Next ==
  \E r \in Replicas :
    \/ \E edit \in {Edit(Len(Times) + r, time) : time \in 1..MaxTime} \cup {Tombstone} : UserEdits(r, edit)
    \/ \E s \in Replicas : Replicate(r, s)
    \/ ResolutionStep(r)
    \/ ResolutionStops(r)

\* Loading the object resolves its conflicts, and continuous replication hands
\* every leaf over.
Fairness ==
  \A r \in Replicas : /\ WF_vars(ResolutionStep(r))
                      /\ \A s \in Replicas : WF_vars(Replicate(r, s))

Spec == Init /\ [][Next]_vars
FairSpec == Spec /\ Fairness

-----------------------------------------------------------------------------
(* Properties *)

Edits == [by : 0..(N + Len(Times)), updatedAt : 0..MaxTime, deleted : {FALSE}] \cup {Tombstone}

TypeOK ==
  /\ \A r \in Replicas : \A rev \in tree[r] : rev \in Seq(Edits)
  /\ \A r \in Replicas : Resolving(r) => resolution[r].keep \in tree[r]
                                         /\ resolution[r].delete \subseteq tree[r]
  /\ connected \in BOOLEAN
  /\ edits \in 0..(MaxEdits + MaxLiveEdits) /\ failures \in 0..MaxFailures /\ userDeleted \in BOOLEAN

Everywhere == UNION {tree[r] : r \in Replicas}

\* The revisions that are, or will be, known in one place.
Known == IF connected THEN {Everywhere} ELSE {tree[r] : r \in Replicas}

\* A resolution deletes revisions but never the document: at every moment, whatever
\* has been deleted half way through a resolution, what connected replicas know
\* together, or a replica on its own, has a revision that is not deleted, unless a
\* user deleted the document.
DocumentSurvives == ~userDeleted => \A T \in Known : ConflictingRevisions(T) # {}

Oldest == CHOOSE rev \in Heads : \A other \in Heads : Last(rev).updatedAt <= Last(other).updatedAt

\* Replication and resolution have nothing left to do.
Settled ==
  /\ connected => \A r, s \in Replicas : tree[r] = tree[s]
  /\ \A r \in Replicas : Cardinality(ConflictingRevisions(tree[r])) < 2 /\ ~Resolving(r)

\* Replicas that resolve a conflict each by themselves, on what they know of it,
\* stopping half way at times, converge on the oldest of the conflicting edits
\* when nobody edits meanwhile.
Converges ==
  <>[](connected /\ edits = 0 => Settled /\ \A r \in Replicas : Last(Winner(tree[r])) = Last(Oldest))

\* The replicas do not go on resolving the conflicts that each other's resolutions,
\* or their user's edits and deletions, make: they come to rest, with the same
\* revisions where they replicate, of which one at most is not deleted.
Settles == <>[]Settled

\* "delete all revisions but revs[0]": a resolution keeps one revision, so the
\* document is still there when replication and resolution have come to rest,
\* unless a user deleted it.
DocumentKept ==
  Settled /\ ~userDeleted => \A r \in Replicas : ConflictingRevisions(tree[r]) # {}
=============================================================================
