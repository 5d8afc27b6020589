--------------------------- MODULE PackageListeners ---------------------------
(***************************************************************************)
(* The HTTP listeners of database packages: -startListenerWithCompletion-  *)
(* Handler: is a block on the package's server queue that looks for a free *)
(* port, beginning at one derived from the number of packages opened so    *)
(* far; what follows a start is done on the main queue; -close: stops the  *)
(* listener.  Packages are opened on the main thread, one after another,   *)
(* and closed on any.  That a listener cannot be started at a port in use  *)
(* is the operating system's rule.  A port is given as its distance from   *)
(* 10000.  The specification and its parts are named for the listeners, to *)
(* be reasoned about beside those of PackageOpening.                       *)
(***************************************************************************)
EXTENDS Naturals, FiniteSets

CONSTANTS Packages,       \* packages that are opened, each once
          TakenByOthers,  \* ports other programs listen at
          MaxRetryCount   \* MPDatabasePackageListenerMaxRetryCount, 30 in the code

ASSUME PackagesAssumption == IsFiniteSet(Packages)
ASSUME OthersAssumption == TakenByOthers \subseteq Nat /\ IsFiniteSet(TakenByOthers)
ASSUME RetryAssumption == MaxRetryCount \in Nat \ {0}

VARIABLES packagesOpened,  \* the counter, which a queue of its own increments
          counted,         \* packages that have been counted
          start,           \* where the block that starts each listener is
          port,            \* the port each block is to try next, or listens at
          retries,         \* attempts it has made in vain
          listening,       \* packages whose listener accepts connections
          posted,          \* packages whose start notification has been posted
          closing,         \* where -close: of each package is
          tried            \* history: ports a block has found taken

listenerVars == <<packagesOpened, counted, start, port, retries, listening, posted, closing, tried>>

Starts == {"none", "queued", "trying", "started", "failed", "done"}

ListenersInit ==
  /\ packagesOpened = 0 /\ counted = {}
  /\ start = [p \in Packages |-> "none"]
  /\ port = [p \in Packages |-> 0]
  /\ retries = [p \in Packages |-> 0]
  /\ listening = {} /\ posted = {}
  /\ closing = [p \in Packages |-> "no"]
  /\ tried = [p \in Packages |-> {}]

\* -[CBLListener start:] reports an error at these ports.
Taken == TakenByOthers \cup {port[p] : p \in listening}

\* No package is being initialized, which is done on the main thread.
MainThreadIsFree == \A p \in Packages : start[p] = "none" \/ p \in counted

-----------------------------------------------------------------------------
\* The initializer puts the block on the server queue,
StartListener(p) ==
  /\ start[p] = "none" /\ MainThreadIsFree
  /\ start' = [start EXCEPT ![p] = "queued"]
  /\ UNCHANGED <<packagesOpened, counted, port, retries, listening, posted, closing, tried>>

\* and counts the package at its end.
DidOpenPackage(p) ==
  /\ start[p] # "none" /\ p \notin counted
  /\ counted' = counted \cup {p}
  /\ packagesOpened' = packagesOpened + 1
  /\ UNCHANGED <<start, port, retries, listening, posted, closing, tried>>

\* The block runs, and reads the counter as it is by then.
ChoosePort(p) ==
  /\ start[p] = "queued"
  /\ start' = [start EXCEPT ![p] = "trying"]
  /\ port' = [port EXCEPT ![p] = packagesOpened]
  /\ UNCHANGED <<packagesOpened, counted, retries, listening, posted, closing, tried>>

\* The listener is started at the port.
Listen(p) ==
  /\ start[p] = "trying" /\ port[p] \notin Taken
  /\ start' = [start EXCEPT ![p] = "started"]
  /\ listening' = listening \cup {p}
  /\ UNCHANGED <<packagesOpened, counted, port, retries, posted, closing, tried>>

\* Mutant: the same port is tried again.
Retry_SamePort(p) ==
  /\ start[p] = "trying" /\ port[p] \in Taken
  /\ retries' = [retries EXCEPT ![p] = @ + 1]
  /\ tried' = [tried EXCEPT ![p] = @ \cup {port[p]}]
  /\ start' = IF retries[p] + 1 < MaxRetryCount THEN start ELSE [start EXCEPT ![p] = "failed"]
  /\ UNCHANGED <<packagesOpened, counted, port, listening, posted, closing>>

\* Mutant: it is tried again for as long as there is an error.
Retry_ForEver(p) ==
  /\ start[p] = "trying" /\ port[p] \in Taken
  /\ retries' = [retries EXCEPT ![p] = (@ + 1) % MaxRetryCount]
  /\ UNCHANGED <<packagesOpened, counted, start, port, listening, posted, closing, tried>>

\* The number of retries is added to the port each time.
Retry(p) ==
  /\ start[p] = "trying" /\ port[p] \in Taken
  /\ retries' = [retries EXCEPT ![p] = @ + 1]
  /\ tried' = [tried EXCEPT ![p] = @ \cup {port[p]}]
  /\ IF retries[p] + 1 < MaxRetryCount
     THEN port' = [port EXCEPT ![p] = @ + retries[p] + 1] /\ UNCHANGED start
     ELSE start' = [start EXCEPT ![p] = "failed"] /\ UNCHANGED port
  /\ UNCHANGED <<packagesOpened, counted, listening, posted, closing>>

\* The completion handler: on the main queue after a start, at once after the last
\* failure.  The initializer's posts the notification whatever the error.
Complete(p) ==
  /\ start[p] = "failed" \/ (start[p] = "started" /\ MainThreadIsFree)
  /\ start' = [start EXCEPT ![p] = "done"]
  /\ posted' = posted \cup {p}
  /\ UNCHANGED <<packagesOpened, counted, port, retries, listening, closing, tried>>

-----------------------------------------------------------------------------
\* The server queue, which is serial, has no block before this one.
QueueReached(p) == start[p] \notin {"queued", "trying"}

\* Mutant: the listener is stopped without waiting for the queue first.
CheckTransactions_Directly(p) ==
  /\ p \in counted /\ closing[p] = "no"
  /\ closing' = [closing EXCEPT ![p] = "stop"]
  /\ UNCHANGED <<packagesOpened, counted, start, port, retries, listening, posted, tried>>

\* -close: has the server queue say that there is no open transaction,
CheckTransactions(p) ==
  /\ p \in counted /\ closing[p] = "no"
  /\ QueueReached(p)
  /\ closing' = [closing EXCEPT ![p] = "stop"]
  /\ UNCHANGED <<packagesOpened, counted, start, port, retries, listening, posted, tried>>

\* stops the listener on its own thread,
StopListener(p) ==
  /\ closing[p] = "stop"
  /\ listening' = listening \ {p}
  /\ closing' = [closing EXCEPT ![p] = "server"]
  /\ UNCHANGED <<packagesOpened, counted, start, port, retries, posted, tried>>

\* and has the server closed on its queue.
CloseServer(p) ==
  /\ closing[p] = "server"
  /\ QueueReached(p)
  /\ closing' = [closing EXCEPT ![p] = "closed"]
  /\ UNCHANGED <<packagesOpened, counted, start, port, retries, listening, posted, tried>>

-----------------------------------------------------------------------------
Block(p) == ChoosePort(p) \/ Listen(p) \/ Retry(p) \/ Complete(p)

ListenersNext ==
  \E p \in Packages :
    \/ StartListener(p) \/ DidOpenPackage(p) \/ Block(p)
    \/ CheckTransactions(p) \/ StopListener(p) \/ CloseServer(p)

ListenersSpec == ListenersInit /\ [][ListenersNext]_listenerVars

\* Queues execute their blocks, and an initializer or a close that has begun goes on.
FairListenersSpec ==
  /\ ListenersSpec
  /\ \A p \in Packages : WF_listenerVars(Block(p)) /\ WF_listenerVars(DidOpenPackage(p))
  /\ \A p \in Packages : WF_listenerVars(StopListener(p)) /\ WF_listenerVars(CloseServer(p))

-----------------------------------------------------------------------------
(* Properties *)

ListenersTypeOK ==
  /\ packagesOpened \in Nat
  /\ counted \subseteq Packages /\ listening \subseteq Packages /\ posted \subseteq Packages
  /\ start \in [Packages -> Starts]
  /\ port \in [Packages -> Nat]
  /\ retries \in [Packages -> 0..MaxRetryCount]
  /\ closing \in [Packages -> {"no", "stop", "server", "closed"}]
  /\ tried \in [Packages -> SUBSET Nat]

\* A package that has been closed does not listen: its listener was stopped after
\* the block that starts it, although that block runs asynchronously.
ClosedDoesNotListen ==
  \A p \in Packages : closing[p] \in {"server", "closed"} => p \notin listening

\* No port is tried twice, also when several packages begin at the same one.  A
\* listener fails only after MaxRetryCount of them, so none fails while fewer ports
\* than that are taken.
FailsOnlyAfterAllPorts ==
  \A p \in Packages : start[p] = "failed" => Cardinality(tried[p]) = MaxRetryCount

\* Every start comes to an end, with a listener or with an error, and its
\* completion handler is called.
StartEnds == \A p \in Packages : start[p] = "queued" ~> start[p] = "done"

\* "fired once the database package listener is ready to be used at a port": there
\* is a listener when the notification is posted.
PostedMeansListening == \A p \in posted : closing[p] = "no" => p \in listening
=============================================================================
