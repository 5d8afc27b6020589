----------------------------- MODULE Replication -----------------------------
(***************************************************************************)
(* One-off replications of an MPDatabase, the shoebox's shared database,   *)
(* with the user's own remote database and with the global one: what       *)
(* -pushToDatabaseAtURL:, -pullFromDatabaseAtURL: and -replicationDid-     *)
(* Change: keep of them, the filter that lets only shared objects go to    *)
(* the global database, and the validation of revisions.  The replicator   *)
(* is Couchbase Lite's: it runs on the server queue, beside the thread     *)
(* that started it.  A document is changed either here or remotely, since  *)
(* conflicts are ConflictResolution's.  The specification and its parts    *)
(* are named for the replication, to be reasoned about beside those of     *)
(* PackageOpening.                                                         *)
(***************************************************************************)
EXTENDS Naturals

CONSTANTS Documents,     \* document -> what its identifier and properties say
          Local,         \* documents changed here; the others are changed remotely
          TheirSharing,  \* whether documents changed remotely are shared
          Replications,  \* replications that are created, each once
          MaxGen         \* bound: revisions of a document

Kinds == {"managed", "mismatched", "classless", "invalid", "metadata", "stray"}

ASSUME DocumentsAssumption == \A d \in DOMAIN Documents : Documents[d] \in Kinds
ASSUME LocalAssumption == Local \subseteq DOMAIN Documents
ASSUME SharingAssumption == TheirSharing \subseteq BOOLEAN
ASSUME GenAssumption == MaxGen \in Nat

VARIABLES local,          \* the database: document -> revision
          remote,         \* the remote databases, likewise
          repl,           \* the replications
          caller,         \* where the method that creates each replication is
          currentPushes,  \* _currentPushes
          currentPulls,   \* _currentPulls
          observed,       \* replications whose changes are observed
          errors,         \* error notifications posted for each replication
          missed          \* history: replications that stopped unobserved

replicationVars == <<local, remote, repl, caller, currentPushes, currentPulls, observed, errors, missed>>
data == <<local, remote>>
books == <<currentPushes, currentPulls, observed, errors, missed>>

Docs == DOMAIN Documents
URLs == {"own", "global"}
Revisions == [gen : 0..MaxGen, shared : BOOLEAN, deleted : BOOLEAN]
NoRevision == [gen |-> 0, shared |-> FALSE, deleted |-> FALSE]
States == {"none", "created", "running", "stopped"}

ReplicationInit ==
  /\ local = [d \in Docs |-> NoRevision]
  /\ remote = [url \in URLs |-> local]
  /\ repl = [r \in Replications |-> [state |-> "none", push |-> FALSE, url |-> "own",
                                     filtered |-> FALSE, error |-> FALSE]]
  /\ caller = [r \in Replications |-> "idle"]
  /\ currentPushes = {} /\ currentPulls = {} /\ observed = {} /\ missed = {}
  /\ errors = [r \in Replications |-> 0]

-----------------------------------------------------------------------------
(* Validation and filters *)

\* -validateRevision:validationContext: rejects a managed object whose identifier
\* does not begin with its type, whose class is unknown or which its class finds
\* invalid.  An object without a type is not rejected: NO is returned to a block
\* that does not look at it.
ValidateRevision(d, rev) ==
  rev.deleted \/ Documents[d] \notin {"mismatched", "classless", "invalid"}

\* Mutant: the user's own database is the one that is filtered.
ApplyFilter_Swapped(url) == url = "own"

\* -applyFilterWhenPushingToDatabaseAtURL:fromDatabase: of the shoebox.
ApplyFilter(url) == url # "own"

\* The shoebox's push filter.  A deletion has no properties.
PushFilter(rev) == rev.shared /\ ~rev.deleted

-----------------------------------------------------------------------------
(* Changes here and elsewhere *)

NextRevisions(rev, sharing) ==
  {[gen |-> rev.gen + 1, shared |-> shared, deleted |-> FALSE] : shared \in sharing}
    \cup (IF rev.gen = 0 THEN {} ELSE {[gen |-> rev.gen + 1, shared |-> FALSE, deleted |-> TRUE]})

SaveDocument(d) ==
  /\ d \in Local /\ local[d].gen < MaxGen
  /\ \E rev \in NextRevisions(local[d], BOOLEAN) :
       /\ ValidateRevision(d, rev)
       /\ local' = [local EXCEPT ![d] = rev]
  /\ UNCHANGED <<remote, repl, caller, books>>

SaveRemotely(url, d) ==
  /\ d \notin Local /\ remote[url][d].gen < MaxGen
  /\ \E rev \in NextRevisions(remote[url][d], TheirSharing) : remote' = [remote EXCEPT ![url][d] = rev]
  /\ UNCHANGED <<local, repl, caller, books>>

-----------------------------------------------------------------------------
(* -pushToDatabaseAtURL:replication:error: *)

CreatePush(r, url) ==
  /\ caller[r] = "idle" /\ repl[r].state = "none"
  /\ repl' = [repl EXCEPT ![r] = [state |-> "created", push |-> TRUE, url |-> url,
                                  filtered |-> ApplyFilter(url), error |-> FALSE]]
  /\ currentPushes' = currentPushes \cup {r}
  /\ caller' = [caller EXCEPT ![r] = "start"]
  /\ UNCHANGED <<data, currentPulls, observed, errors, missed>>

\* The replication is handed to the replicator.
Start(r) ==
  /\ caller[r] = "start"
  /\ repl' = [repl EXCEPT ![r].state = "running"]
  /\ caller' = [caller EXCEPT ![r] = IF repl[r].push THEN "observe" ELSE "add"]
  /\ UNCHANGED <<data, books>>

ObservePush(r) ==
  /\ caller[r] = "observe"
  /\ observed' = observed \cup {r}
  /\ caller' = [caller EXCEPT ![r] = "idle"]
  /\ UNCHANGED <<data, repl, currentPushes, currentPulls, errors, missed>>

-----------------------------------------------------------------------------
(* -pullFromDatabaseAtURL:replication:error: *)

\* The pull filter of the shoebox is nil.
CreatePull(r, url) ==
  /\ caller[r] = "idle" /\ repl[r].state = "none"
  /\ repl' = [repl EXCEPT ![r] = [state |-> "created", push |-> FALSE, url |-> url,
                                  filtered |-> FALSE, error |-> FALSE]]
  /\ caller' = [caller EXCEPT ![r] = "start"]
  /\ UNCHANGED <<data, books>>

KeepPull(r) ==
  /\ caller[r] = "add"
  /\ currentPulls' = currentPulls \cup {r}
  /\ caller' = [caller EXCEPT ![r] = "idle"]
  /\ UNCHANGED <<data, repl, currentPushes, observed, errors, missed>>

-----------------------------------------------------------------------------
(* The replicator *)

\* Documents the replication has still to transfer.
ToPush(r) ==
  {d \in Docs : local[d].gen > remote[repl[r].url][d].gen
                /\ (repl[r].filtered => PushFilter(local[d]))}
ToPull(r) ==
  {d \in Docs : remote[repl[r].url][d].gen > local[d].gen
                /\ ValidateRevision(d, remote[repl[r].url][d])}

PushDocument(r, d) ==
  /\ repl[r].state = "running" /\ repl[r].push /\ d \in ToPush(r)
  /\ remote' = [remote EXCEPT ![repl[r].url][d] = local[d]]
  /\ UNCHANGED <<local, repl, caller, books>>

PullDocument(r, d) ==
  /\ repl[r].state = "running" /\ ~repl[r].push /\ d \in ToPull(r)
  /\ local' = [local EXCEPT ![d] = remote[repl[r].url][d]]
  /\ UNCHANGED <<remote, repl, caller, books>>

\* Mutant: a replication that ends with an error is kept.
ReplicationDidChange_KeepsFailed(r, error) ==
  /\ currentPushes' = IF error THEN currentPushes ELSE currentPushes \ {r}
  /\ currentPulls' = currentPulls \ {r}
  /\ observed' = observed \ {r}
  /\ errors' = IF error THEN [errors EXCEPT ![r] = @ + 1] ELSE errors

\* -replicationDidChange: for a replication that has stopped.
ReplicationDidChange(r, error) ==
  /\ currentPushes' = currentPushes \ {r}
  /\ currentPulls' = currentPulls \ {r}
  /\ observed' = observed \ {r}
  /\ errors' = IF error THEN [errors EXCEPT ![r] = @ + 1] ELSE errors

\* The replication stops, with an error or with nothing left to do, and whoever
\* observes it by then is notified.
ReplicationStops(r, error) ==
  /\ repl[r].state = "running"
  /\ error \/ (IF repl[r].push THEN ToPush(r) ELSE ToPull(r)) = {}
  /\ repl' = [repl EXCEPT ![r].state = "stopped", ![r].error = error]
  /\ IF r \in observed
     THEN ReplicationDidChange(r, error) /\ UNCHANGED missed
     ELSE missed' = missed \cup {r} /\ UNCHANGED <<currentPushes, currentPulls, observed, errors>>
  /\ UNCHANGED <<data, caller>>

-----------------------------------------------------------------------------
Call(r) == Start(r) \/ ObservePush(r) \/ KeepPull(r)
Replicate(r) ==
  \/ \E d \in Docs : PushDocument(r, d) \/ PullDocument(r, d)
  \/ \E error \in BOOLEAN : ReplicationStops(r, error)

ReplicationNext ==
  \/ \E d \in Docs : SaveDocument(d) \/ \E url \in URLs : SaveRemotely(url, d)
  \/ \E r \in Replications :
       \/ \E url \in URLs : CreatePush(r, url) \/ CreatePull(r, url)
       \/ Call(r) \/ Replicate(r)

ReplicationSpec == ReplicationInit /\ [][ReplicationNext]_replicationVars

\* A method that has begun returns, and a one-off replication comes to its end.
FairReplicationSpec == ReplicationSpec /\ \A r \in Replications : WF_replicationVars(Call(r)) /\ WF_replicationVars(Replicate(r))

-----------------------------------------------------------------------------
(* Properties *)

ReplicationTypeOK ==
  /\ local \in [Docs -> Revisions] /\ remote \in [URLs -> [Docs -> Revisions]]
  /\ repl \in [Replications -> [state : States, push : BOOLEAN, url : URLs,
                                filtered : BOOLEAN, error : BOOLEAN]]
  /\ caller \in [Replications -> {"idle", "start", "observe", "add"}]
  /\ currentPushes \subseteq Replications /\ currentPulls \subseteq Replications
  /\ observed \subseteq Replications /\ missed \subseteq Replications
  /\ errors \in [Replications -> 0..1]

\* The global database never gets a revision of a user's document that the user did
\* not share, however sharing is changed while pushes run: a document unshared
\* after a push began is not sent.
OnlySharedIsGlobal == \A d \in Local : remote["global"][d].gen > 0 => remote["global"][d].shared

\* A push that runs is among the current pushes: it is not deallocated.
RunningPushesAreKept == \A r \in Replications :
  repl[r].state = "running" /\ repl[r].push => r \in currentPushes

\* A push that was observed when it stopped is forgotten, with its observation, and
\* its error has been posted exactly once.
StoppedPushesAreForgotten == \A r \in Replications :
  repl[r].state = "stopped" /\ repl[r].push /\ r \notin missed =>
    /\ r \notin currentPushes \cup observed
    /\ errors[r] = IF repl[r].error THEN 1 ELSE 0

\* "Currently ongoing one-off pull replications": a pull that has stopped is not
\* among them for ever.
StoppedPullsAreForgotten == \A r \in Replications :
  repl[r].state = "stopped" /\ r \in currentPulls ~> r \notin currentPulls

\* "Currently ongoing one-off push replications": nor is a push.
EveryStoppedPushIsForgotten == \A r \in Replications :
  repl[r].state = "stopped" /\ r \in currentPushes ~> r \notin currentPushes

\* "Attempting to save an object ... without the expected _id prefix -- this will
\* fail": an object without a type that is not metadata is not saved.
StrayObjectsAreRejected == \A d \in Docs : Documents[d] = "stray" => local[d].gen = 0
=============================================================================
