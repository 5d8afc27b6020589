----------------------------- MODULE Contributors -----------------------------
(***************************************************************************)
(* Which contributor of a package is the user: -isMe and -setIsMe: of      *)
(* MPContributor, -me and -existingMe of MPContributorsController.  A      *)
(* contributor is the user if an MPContributorIdentity document maps it to *)
(* the identifier of the shoebox; the identities with that identifier are  *)
(* the only ones modelled.  A query, a deletion and a save are dispatched  *)
(* to the server queue and are a step each.                                *)
(*                                                                         *)
(* -willDeleteObject: of MPContributorsController, which deletes the       *)
(* identities of a contributor and forgets the user, is called by nothing: *)
(* deleting a contributor does neither.                                    *)
(***************************************************************************)
EXTENDS Naturals, FiniteSets

CONSTANTS Threads,        \* threads that use the contributors
          People,         \* contributors, each with its document and its object
          Existing,       \* those the package has at first
          Identities,     \* identity documents, each made once
          MaxPulls,       \* bound: deleted contributors brought back by a pull
          MaxFailures,    \* bound: deletions of identities that fail
          None

ASSUME ExistingAssumption == Existing \subseteq People
ASSUME BoundsAssumption == MaxPulls \in Nat /\ MaxFailures \in Nat
ASSUME IdentitiesAssumption == IsFiniteSet(Identities)
ASSUME NoneAssumption == None \notin People \cup Identities

VARIABLES state,       \* of every contributor: none, new, saved, deleted or lost
          loaded,      \* contributors whose object the controller has cached
          identities,  \* identity -> contributor it stands for, None if there is none
          used,        \* identities ever made
          me,          \* _me of the contributors controller
          pc, work,    \* where -setIsMe: is in each thread, and its locals
          pulls,       \* contributors a pull has brought back so far
          failures,    \* deletions of identities that have failed so far
          alone,       \* history: claims that nothing has come between so far
          clean        \* history: nothing has come between claims since one of those

vars == <<state, loaded, identities, used, me, pc, work, pulls, failures, alone, clean>>
contributors == <<state, loaded>>
documents == <<identities, used>>
history == <<alone, clean>>

States == {"none", "new", "saved", "deleted", "lost"}
Work == [self : People \cup {None}, others : [Identities -> People \cup {None}], identity : Identities \cup {None}]
NoOthers == [i \in Identities |-> None]
NoWork == [self |-> None, others |-> NoOthers, identity |-> None]

Init ==
  /\ state = [c \in People |-> IF c \in Existing THEN "saved" ELSE "none"]
  /\ loaded = {}
  /\ identities = [i \in Identities |-> None] /\ used = {}
  /\ me = None
  /\ pc = [t \in Threads |-> "idle"] /\ work = [t \in Threads |-> NoWork]
  /\ pulls = 0 /\ failures = 0
  /\ alone = {} /\ clean = TRUE

\* -identities, those with the identifier of the shoebox.
IdentitiesOf(c) == {i \in Identities : identities[i] = c}
IsMe(c) == IdentitiesOf(c) # {}

Goto(t, label, w) == pc' = [pc EXCEPT ![t] = label] /\ work' = [work EXCEPT ![t] = w]
Idle(t) == pc[t] = "idle"
IdleIn(t) == Idle(t) /\ UNCHANGED <<pc, work>>

\* -setIsMe:YES is between its look at the identities and its save of one.
Claiming(t) == pc[t] \in {"existing", "find"} \/ (pc[t] = "delete" /\ work[t].self # None)

-----------------------------------------------------------------------------
(* The contributors *)

\* A query hands out the objects of the contributors that are there.
Load(t, c) ==
  /\ IdleIn(t)
  /\ state[c] = "saved" /\ c \notin loaded
  /\ loaded' = loaded \cup {c}
  /\ UNCHANGED <<state, documents, me, pulls, failures, history>>

\* -me makes a contributor unless there is one; it is not saved.
Me(t, c) ==
  /\ IdleIn(t)
  /\ me = None
  /\ state[c] = "none"
  /\ state' = [state EXCEPT ![c] = "new"]
  /\ loaded' = loaded \cup {c}
  /\ me' = c
  /\ UNCHANGED <<documents, pulls, failures, history>>

Save(t, c) ==
  /\ IdleIn(t)
  /\ state[c] = "new"
  /\ state' = [state EXCEPT ![c] = "saved"]
  /\ UNCHANGED <<loaded, documents, me, pulls, failures, history>>

\* -deleteDocument leaves the object in the cache, the identities and _me.
DeleteDocument(t, c) ==
  /\ IdleIn(t)
  /\ state[c] = "saved" /\ c \in loaded
  /\ state' = [state EXCEPT ![c] = "deleted"]
  /\ UNCHANGED <<loaded, documents, me, pulls, failures, history>>

\* An edit made elsewhere wins over the deletion.
PullRevision(c) ==
  /\ pulls < MaxPulls
  /\ state[c] = "deleted"
  /\ state' = [state EXCEPT ![c] = "saved"]
  /\ pulls' = pulls + 1
  /\ alone' = {} /\ clean' = FALSE
  /\ UNCHANGED <<loaded, documents, me, pc, work, failures>>

\* The process ends and the package is opened again.
Restart ==
  /\ state' = [c \in People |-> IF state[c] = "new" THEN "lost" ELSE state[c]]
  /\ loaded' = {}
  /\ me' = None
  /\ pc' = [t \in Threads |-> "idle"] /\ work' = [t \in Threads |-> NoWork]
  /\ alone' = {}
  /\ UNCHANGED <<documents, pulls, failures, clean>>

-----------------------------------------------------------------------------
(* -setIsMe: *)

\* YES for a contributor that is not me yet; otherwise there is nothing to do.
SetIsMe(t, c) ==
  LET claimants == {u \in Threads : Claiming(u)} IN
  /\ Idle(t)
  /\ c \in loaded
  /\ ~IsMe(c)
  /\ Goto(t, "existing", [NoWork EXCEPT !.self = c])
  /\ alone' = IF claimants = {} THEN {t} ELSE {}
  /\ clean' = (clean /\ claimants = {})
  /\ UNCHANGED <<contributors, documents, me, pulls, failures>>

\* NO: the first identity found is to be deleted.
SetIsNotMe(t, c) ==
  /\ Idle(t)
  /\ c \in loaded
  /\ \E i \in IdentitiesOf(c) : Goto(t, "delete", [NoWork EXCEPT !.identity = i])
  /\ UNCHANGED <<contributors, documents, me, pulls, failures, history>>

\* Mutant: only the contributors whose objects are at hand are looked at.
ExistingContributors_Loaded(t) ==
  LET found == [i \in Identities |-> IF identities[i] \in loaded THEN identities[i] ELSE None] IN
  /\ pc[t] = "existing"
  /\ Goto(t, "find", [work[t] EXCEPT !.others = found])
  /\ UNCHANGED <<contributors, documents, me, pulls, failures, history>>

\* A contributor is found in the cache, even if it is deleted, or in the database.
Found(c) == c \in People /\ (c \in loaded \/ state[c] = "saved")

\* -contributorsWithContributorIdentifier: has a contributor for every identity.
ExistingContributors(t) ==
  LET found == [i \in Identities |-> IF Found(identities[i]) THEN identities[i] ELSE None] IN
  /\ pc[t] = "existing"
  /\ Goto(t, "find", [work[t] EXCEPT !.others = found])
  /\ loaded' = loaded \cup {c \in People : IsMe(c) /\ Found(c)}
  /\ UNCHANGED <<state, documents, me, pulls, failures, history>>

\* c.isMe = NO for the next of them.
FindIdentity(t, i) ==
  LET c == work[t].others[i]
      rest == [work[t] EXCEPT !.others[i] = None]
  IN
  /\ pc[t] = "find"
  /\ c # None
  /\ IF IsMe(c) THEN \E j \in IdentitiesOf(c) : Goto(t, "delete", [rest EXCEPT !.identity = j])
                ELSE Goto(t, "find", rest)
  /\ UNCHANGED <<contributors, documents, me, pulls, failures, history>>

\* Whether -deleteDocument succeeds is not looked at.
DeleteIdentity(t) ==
  /\ pc[t] = "delete"
  /\ \/ /\ identities' = [identities EXCEPT ![work[t].identity] = None]
        /\ UNCHANGED <<failures, history>>
     \/ /\ failures < MaxFailures /\ failures' = failures + 1
        /\ alone' = alone \ {t}
        /\ clean' = (clean /\ work[t].self = None)
        /\ UNCHANGED identities
  /\ IF work[t].self = None THEN Goto(t, "idle", NoWork)
                            ELSE Goto(t, "find", [work[t] EXCEPT !.identity = None])
  /\ UNCHANGED <<contributors, used, me, pulls>>

\* Then an identity is made for the contributor itself and saved, which may fail.
SaveIdentity(t, i) ==
  /\ pc[t] = "find"
  /\ work[t].others = NoOthers
  /\ i \notin used /\ used' = used \cup {i}
  /\ identities' \in {identities, [identities EXCEPT ![i] = work[t].self]}
  /\ Goto(t, "assign", work[t])
  /\ alone' = alone \ {t}
  /\ clean' = (clean \/ t \in alone)
  /\ UNCHANGED <<contributors, me, pulls, failures>>

\* The controller's me is the contributor, saved or not.
SetMe(t) ==
  /\ pc[t] = "assign"
  /\ me' = work[t].self
  /\ Goto(t, "idle", NoWork)
  /\ UNCHANGED <<contributors, documents, pulls, failures, history>>

-----------------------------------------------------------------------------
Step(t) ==
  \/ ExistingContributors(t) \/ DeleteIdentity(t) \/ SetMe(t)
  \/ \E i \in Identities : FindIdentity(t, i) \/ SaveIdentity(t, i)

Next ==
  \/ \E t \in Threads : Step(t)
  \/ \E t \in Threads, c \in People :
       \/ Load(t, c) \/ Me(t, c) \/ Save(t, c) \/ DeleteDocument(t, c)
       \/ SetIsMe(t, c) \/ SetIsNotMe(t, c)
  \/ \E c \in People : PullRevision(c)
  \/ Restart

Spec == Init /\ [][Next]_vars

-----------------------------------------------------------------------------
(* Properties *)

Labels == {"idle", "existing", "find", "delete", "assign"}

TypeOK ==
  /\ state \in [People -> States]
  /\ loaded \subseteq People
  /\ identities \in [Identities -> People \cup {None}]
  /\ used \subseteq Identities
  /\ me \in People \cup {None}
  /\ pc \in [Threads -> Labels]
  /\ work \in [Threads -> Work]
  /\ pulls \in 0..MaxPulls /\ failures \in 0..MaxFailures
  /\ alone \subseteq Threads /\ clean \in BOOLEAN

\* "A database package should contain at most one MPContributor object which is
\* considered to be 'me'", and -existingMe asserts that it enumerates no two of them.
AtMostOneMe ==
  \A c, d \in People : state[c] = "saved" /\ IsMe(c) /\ state[d] = "saved" /\ IsMe(d) => c = d

\* A contributor that claims to be the user takes the identities from all that have
\* them, so one at most is the user: whatever other threads do but claim, wherever
\* earlier claims stopped, and even if claims that overlapped, a deletion that failed
\* or a contributor that came back had left several, once there is a claim that
\* nothing of this came between.
OneMe == clean => AtMostOneMe

\* "An MPContributor object that signifies the current user": the object -me
\* returns is the contributor that is the user, if one is.
MeIsTheUser ==
  me # None /\ (\A t \in Threads : Idle(t)) =>
    \A c \in People : state[c] = "saved" /\ IsMe(c) => me = c
=============================================================================
