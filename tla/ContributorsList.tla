--------------------------- MODULE ContributorsList ---------------------------
(***************************************************************************)
(* The sorted list of contributors that MPContributorsController caches:   *)
(* -allContributors, -refreshCachedContributors, the blocks that notifi-   *)
(* cations of changed contributors put on the main queue, and the moving   *)
(* of contributors in the list, which sets their priorities.  Threads save *)
(* and delete contributors, replication brings changes, and the database   *)
(* announces every change to the package some time after it was made.      *)
(*                                                                         *)
(* contributorComparator is the application's; here it compares priorities *)
(* and, if they are equal, leaves the order of the query, which is that of *)
(* the identifiers.                                                        *)
(***************************************************************************)
EXTENDS Naturals, Sequences, FiniteSets, Functions

CONSTANTS Threads,     \* threads other than the main thread
          Readers,     \* those of them that ask for the list
          N,           \* the contributors are 1..N
          MaxWrites,   \* bound: revisions written to the database
          MaxMoves,    \* bound: moves in the list
          MaxMoved     \* bound: contributors moved at once

ASSUME ReadersAssumption == Readers \subseteq Threads /\ "main" \notin Threads
ASSUME BoundsAssumption == N \in Nat \ {0} /\ MaxWrites \in Nat /\ MaxMoves \in Nat /\ MaxMoved \in Nat

People == 1..N
All == Threads \cup {"main"}
NotCached == <<0>>

VARIABLES documents,  \* contributors that are in the database
          priority,   \* of every contributor's object
          unsaved,    \* contributors whose object needs to be saved
          deleted,    \* contributors that have been deleted
          cached,     \* _cachedContributors
          mainQueue,  \* blocks dispatched to the main queue: 0 to refresh the list,
                      \* a contributor to remove it
          pending,    \* changes the database has still to announce
          pc, list,   \* what every thread does, and the list it has made
          writes,     \* revisions written so far
          moves       \* moves so far

vars == <<documents, priority, unsaved, deleted, cached, mainQueue, pending, pc, list, writes, moves>>
objects == <<priority, unsaved, deleted>>
threads == <<pc, list>>

Init ==
  /\ documents = People \ {1}
  /\ priority = [c \in People |-> 0]
  /\ unsaved = {1} /\ deleted = {}
  /\ cached = NotCached
  /\ mainQueue = <<>> /\ pending = <<>>
  /\ pc = [t \in All |-> "idle"] /\ list = [t \in All |-> <<>>]
  /\ writes = 0 /\ moves = 0

Dispatch(block) == mainQueue' = Append(mainQueue, block)
Goto(t, label) == pc' = [pc EXCEPT ![t] = label] /\ UNCHANGED list
Idle(t) == pc[t] = "idle"

\* A revision is written, and the database will tell.
Write(c, docs) ==
  /\ writes < MaxWrites /\ writes' = writes + 1 /\ UNCHANGED moves
  /\ documents' = docs
  /\ pending' = Append(pending, c)

-----------------------------------------------------------------------------
(* Changes *)

\* -save: of a contributor that is new or has changed, on the server queue.
Save(t, c) ==
  /\ Idle(t)
  /\ c \in unsaved \ deleted
  /\ Write(c, documents \cup {c})
  /\ unsaved' = unsaved \ {c}
  /\ Goto(t, "saved")
  /\ UNCHANGED <<priority, deleted, cached, mainQueue>>

\* -saveCompleted posts: -hasAddedContributor: and -hasUpdatedContributor:.
SaveCompleted(t) ==
  /\ pc[t] = "saved"
  /\ Dispatch(0)
  /\ Goto(t, "idle")
  /\ UNCHANGED <<documents, objects, cached, pending, writes, moves>>

\* -deleteDocument posts on the server queue: -hasRemovedContributor:.
DeleteDocument(t, c) ==
  /\ Idle(t)
  /\ c \in documents
  /\ Write(c, documents \ {c})
  /\ deleted' = deleted \cup {c}
  /\ Dispatch(c)
  /\ UNCHANGED <<priority, unsaved, cached, threads>>

\* A revision is pulled, with another priority or a deletion.  An object that is
\* loaded posts it (-document:didChange:).  One that has unsaved changes is spared,
\* as conflicts are ConflictResolution's.
PullRevision(c, p) ==
  /\ c \notin unsaved \cup deleted
  /\ Write(c, documents \cup {c})
  /\ priority' = [priority EXCEPT ![c] = p]
  /\ Dispatch(0) \/ UNCHANGED mainQueue
  /\ UNCHANGED <<unsaved, deleted, cached, threads>>

PullDeletion(c) ==
  /\ c \in documents \ unsaved
  /\ Write(c, documents \ {c})
  /\ deleted' = deleted \cup {c}
  /\ Dispatch(c) \/ UNCHANGED mainQueue
  /\ UNCHANGED <<priority, unsaved, cached, threads>>

\* Mutant: a change that is not a deletion is left to the object to announce.
DatabaseDidChange_Deletions ==
  LET c == Head(pending) IN
  /\ pending # <<>>
  /\ pending' = Tail(pending)
  /\ IF c \notin documents THEN Dispatch(c) ELSE UNCHANGED mainQueue
  /\ UNCHANGED <<documents, objects, cached, threads, writes, moves>>

\* -databaseDidChange: posts what has become of the document, and its deletion
\* only if that is the latest change.
DatabaseDidChange ==
  LET c == Head(pending) IN
  /\ pending # <<>>
  /\ pending' = Tail(pending)
  /\ IF c \in documents THEN Dispatch(0)
     ELSE IF c \notin Range(Tail(pending)) THEN Dispatch(c) ELSE UNCHANGED mainQueue
  /\ UNCHANGED <<documents, objects, cached, threads, writes, moves>>

-----------------------------------------------------------------------------
(* The list *)

SortsBefore(a, b) == priority[a] < priority[b] \/ (priority[a] = priority[b] /\ a < b)
Sorted(S) ==
  CHOOSE people \in [1..Cardinality(S) -> S] :
    \A i, j \in DOMAIN people : i < j => SortsBefore(people[i], people[j])

\* -refreshCachedContributors queries the database and sorts what it finds.
QueryAll(t) == pc' = [pc EXCEPT ![t] = "refresh"] /\ list' = [list EXCEPT ![t] = Sorted(documents)]

\* -allContributors, when there is no list.
AllContributors(t) ==
  /\ Idle(t)
  /\ cached = NotCached
  /\ QueryAll(t)
  /\ UNCHANGED <<documents, objects, cached, mainQueue, pending, writes, moves>>

\* A block to refresh the list is executed by the main queue.
HasChangedContributor ==
  /\ Idle("main")
  /\ mainQueue # <<>> /\ Head(mainQueue) = 0
  /\ mainQueue' = Tail(mainQueue)
  /\ QueryAll("main")
  /\ UNCHANGED <<documents, objects, cached, pending, writes, moves>>

\* The list is assigned.
RefreshCachedContributors(t) ==
  /\ pc[t] = "refresh"
  /\ cached' = list[t]
  /\ pc' = [pc EXCEPT ![t] = "idle"] /\ list' = [list EXCEPT ![t] = <<>>]
  /\ UNCHANGED <<documents, objects, mainQueue, pending, writes, moves>>

\* The list without a contributor, who is in it once at most.
Without(people, c) ==
  IF \A i \in DOMAIN people : people[i] # c THEN people
  ELSE LET place == CHOOSE i \in DOMAIN people : people[i] = c
       IN  SubSeq(people, 1, place - 1) \o SubSeq(people, place + 1, Len(people))

\* Mutant: the contributor is taken out of an array that nobody keeps.
HasRemovedContributor_Copy ==
  /\ Idle("main")
  /\ mainQueue # <<>> /\ Head(mainQueue) # 0
  /\ mainQueue' = Tail(mainQueue)
  /\ UNCHANGED <<documents, objects, cached, pending, threads, writes, moves>>

\* A block to remove a contributor from the list, if there is one.
HasRemovedContributor ==
  /\ Idle("main")
  /\ mainQueue # <<>> /\ Head(mainQueue) # 0
  /\ mainQueue' = Tail(mainQueue)
  /\ cached' = Without(cached, Head(mainQueue))
  /\ UNCHANGED <<documents, objects, pending, threads, writes, moves>>

-----------------------------------------------------------------------------
(* Priorities *)

\* A contributor is put where the index is, from 0, unless it is there.
Placed(people, c, index) ==
  IF index < Len(people) /\ people[index + 1] = c THEN people
  ELSE LET others == Without(people, c)
       IN  SubSeq(others, 1, index) \o <<c>> \o SubSeq(others, index + 1, Len(others))

\* Mutant: the contributors to move are taken from the first to the last.
Moved_Forward(universe, moved, index) ==
  LET from[i \in 0..Len(moved)] ==
        IF i = 0 THEN universe ELSE Placed(from[i - 1], moved[i], index)
  IN  from[Len(moved)]

\* +moveContributors:amongstContributors:toIndex: takes the contributors to move
\* from the last to the first; from[i] is the list when it has taken those from i.
Moved(universe, moved, index) ==
  LET from[i \in 1..(Len(moved) + 1)] ==
        IF i > Len(moved) THEN universe ELSE Placed(from[i + 1], moved[i], index)
  IN  from[1]

\* Mutant: priorities start at 1.
RefreshPriorities_FromOne(people) ==
  LET changed == {i \in DOMAIN people : priority[people[i]] # i} IN
  /\ priority' = [c \in People |-> IF \E i \in changed : people[i] = c
                                   THEN CHOOSE i \in changed : people[i] = c
                                   ELSE priority[c]]
  /\ unsaved' = unsaved \cup {people[i] : i \in changed}
  /\ UNCHANGED deleted

\* +refreshPrioritiesForContributors:changedContributors: for the list of people.
RefreshPriorities(people) ==
  LET changed == {i \in DOMAIN people : priority[people[i]] # i - 1} IN
  /\ priority' = [c \in People |-> IF \E i \in changed : people[i] = c
                                   THEN (CHOOSE i \in changed : people[i] = c) - 1
                                   ELSE priority[c]]
  /\ unsaved' = unsaved \cup {people[i] : i \in changed}
  /\ UNCHANGED deleted

\* The main thread moves contributors in the list it has been given.
MoveContributors(moved, index) ==
  /\ Idle("main")
  /\ cached # NotCached
  /\ index < Len(cached)
  /\ moves < MaxMoves /\ moves' = moves + 1
  /\ RefreshPriorities(Moved(cached, moved, index))
  /\ UNCHANGED <<documents, cached, mainQueue, pending, threads, writes>>

-----------------------------------------------------------------------------
Moves == {moved \in UNION {[1..n -> People] : n \in 1..MaxMoved} : IsInjective(moved)}

Next ==
  \/ \E t \in All : SaveCompleted(t) \/ RefreshCachedContributors(t)
  \/ \E t \in All, c \in People : Save(t, c) \/ DeleteDocument(t, c)
  \/ \E t \in Readers \cup {"main"} : AllContributors(t)
  \/ \E c \in People, p \in 0..(N - 1) : PullRevision(c, p)
  \/ \E c \in People : PullDeletion(c)
  \/ DatabaseDidChange \/ HasChangedContributor \/ HasRemovedContributor
  \/ \E moved \in Moves, index \in 0..(N - 1) : MoveContributors(moved, index)

Spec == Init /\ [][Next]_vars

-----------------------------------------------------------------------------
(* Properties *)

Lists == {people \in Seq(People) : IsInjective(people)}

TypeOK ==
  /\ documents \subseteq People
  /\ priority \in [People -> 0..(N - 1)]
  /\ unsaved \subseteq People /\ deleted \subseteq People
  /\ cached = NotCached \/ cached \in Lists
  /\ mainQueue \in Seq(People \cup {0}) /\ pending \in Seq(People)
  /\ pc \in [All -> {"idle", "saved", "refresh"}]
  /\ list \in [All -> Lists]
  /\ writes \in 0..MaxWrites /\ moves \in 0..MaxMoves

Quiet == mainQueue = <<>> /\ pending = <<>> /\ \A t \in All : Idle(t)
InOrder(people) == \A i, j \in DOMAIN people : i < j => priority[people[i]] <= priority[people[j]]

\* "All contributors available in the managed objects controller's database": once
\* every change has been announced and the main queue is empty, the cached list has
\* the contributors of the database and no others, in whichever order changes,
\* their two announcements and refreshes have come.
ListAgrees == Quiet /\ cached # NotCached => Range(cached) = documents

\* Likewise its order is that of the priorities, if these have been saved.
OrderAgrees == Quiet /\ unsaved \subseteq deleted /\ cached # NotCached => InOrder(cached)

\* "Previous contributor according to the priorities set for the contributors":
\* -previousContributor and -nextContributor go by the cached list.
OrderFollowsPriorities == Quiet /\ cached # NotCached => InOrder(cached)

Position(people, c) == CHOOSE i \in DOMAIN people : people[i] = c

\* +moveContributors:amongstContributors:toIndex: gives everybody a priority of
\* their own, does not reorder those that are not moved, and puts those that are
\* moved towards the beginning next to each other, in the order given, at the index.
\* (A move depends on the list and the priorities only, so those made when all is
\* quiet stand for all.)
MovesTogether ==
  [][Quiet /\ moves' # moves => \A moved \in Moves, index \in 0..(N - 1) : MoveContributors(moved, index) =>
       LET others == Range(cached) \ Range(moved) IN
       /\ \A c, d \in others \cup Range(moved) : priority'[c] = priority'[d] => c = d
       /\ \A c, d \in others : Position(cached, c) < Position(cached, d) => priority'[c] < priority'[d]
       /\ (\A i \in DOMAIN moved : moved[i] \in Range(cached) /\ Position(cached, moved[i]) > index)
            => \A i \in DOMAIN moved : priority'[moved[i]] = index + i - 1]_vars
=============================================================================
