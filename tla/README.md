# A TLA+ verification of Feather

Feather is a data modelling and persistence layer over Couchbase Lite (CBL). This
directory models it in TLA+, checks the models with TLC on small instances, and
proves most of their safety properties for all instances with TLAPS. CBL itself is
not part of the repository: it is modelled from the way Feather uses it, and the
definitions that do so are marked external in `PROJECT.json`.

## The system

| Part | Source (under `src/Feather/Sources/`) | Module |
| --- | --- | --- |
| Managed objects, controllers, notifications | `Model/MPManagedObject.m`, `Model Controllers/MPManagedObjectsController.m`, `Categories/NSNotificationCenter+MPManagedObjectExtensions.m` | `ManagedObjects`, implementing `IdentityMap` |
| Conflict resolution | `MPManagedObjectsController.m` | `ConflictResolution` |
| Bundled data | `MPManagedObjectsController.m`, `MPDatabase.m` | `BundledResources` |
| Database packages: files | `Database Packages/MPDatabasePackageController.m`, `MPDatabase.m` | `PackageOpening`, implementing `DurableDatabases` |
| Database packages: HTTP listeners | `MPDatabasePackageController.m` | `PackageListeners` |
| Package backed documents | `Model Controllers/MPDatabasePackageBackedDocument.m` | `PackageDocument` |
| Databases, replication, the shoebox's filters | `Database Packages/MPDatabase.m`, `MPShoeboxPackageController.m` | `Replication` |
| Embedded objects | `Model/MPEmbeddedObject.m`, `MPManagedObject.m` | `EmbeddedObjects` |
| Contributors: who is the user | `Model/MPContributor.m`, `Model Controllers/MPContributorsController.m` | `Contributors` |
| Contributors: the sorted list | `MPContributorsController.m`, `MPManagedObjectsController.m` | `ContributorsList` |

A *package* holds databases; a database has one serial *server queue* on which all
access to CBL is dispatched synchronously; each class of object has a *controller*
that caches its objects. Threads call objects and controllers, replication writes
to databases, and each database hands the changes written to it to its package,
which tells the controllers, which post notifications. A *document*, in the sense
of AppKit, works on a temporary copy of a package.

The modules share one view of concurrency: a block dispatched to the server queue,
or what stands under one `@synchronized`, is a step, and so is what a method does
between two of them. The modules do not share variables; each takes from its
neighbours what they may do to it at any time (a pull, a save by another thread, a
failing write, the end of the process). `ManagedObjects`, `Replication` and
`ContributorsList` each compose a database, its announcements and what listens to
them; `PackageDocument` uses a package as something that opens, fails or closes.

`X_proofs` holds the theorems about `X`, `Packages_proofs` those about
`PackageOpening`, `PackageListeners` and `Replication`; `MCX` has the constants of an instance of `X`.

## ManagedObjects and IdentityMap

State: the winning revision of every document, the object attached to it
(`modelObject`), the controller's `objectCache`, the flags of every object, the
changes a database has still to announce (`pending`), the last notification posted
about every document, and a program counter and locals per thread.

- `-save:` is `Save`, then `Commit`, `CommitNothing` or `CommitFails` on the queue,
  then `SaveCompleted`, which posts;
- `+saveModels:error:` is `SaveModels`, `CommitModels`, and posts nothing;
- `-objectWithIdentifier:` is `Fetch`, `FetchDocument`, `FetchModel`;
- a query is `Query` and, row by row, `QueryRow`;
- an import is `Import`; for a document that was found `ImportDocument` reads its
  model object, `ImportModel` makes one if there was none, and `ImportValues` sets the
  record's values; for one that was not, `ImportNew` makes the object; then
  `CommitModels`. Another thread may give the document an object, or delete it, between
  any two of these;
- `DatabaseDidChange` hands one change to the package, `PullRevision` is a revision
  written by replication.

`added` and `overtaken` are history variables. `Uniquing`: one live object per
document, and the cache hands out that one. `NoStaleHit`: a cache hit on a live
document is attached to it. `ObserversAgree`: what observers were told is true once
all is quiet, except about a document deleted between a save and its notification.
`EventuallyAnnounced`: every document that comes to exist is announced or deleted.
`IdentityKept`: with threads, caches and queues left out, the objects and documents
implement `IdentityMap`, in which an object is made for one document and is never
another's, a document is given an object only when it has none, a new one or one that
was its own before, and loses it only in the step that deletes it. In the mapping the
object that represents a document is its `modelObject`, and a document is removed when
its winning revision is a deletion.

`+saveModels:error:` and an import are modelled for one model or record at a time:
that several are saved in one transaction is not. Of CBLModel, which is external, it is
assumed that looking at a document's model object and setting it is one step: whoever
comes second either gets the object that is there or raises an exception.

Bounds of the run: one document, since no action relates two; three objects, so
that a second and a third life of the document have objects of their own; two
threads; three generations: create, delete, re-create. Fairness: an operation that
has started is finished, since its thread goes on, and the database hands every
queued change to its observer, since the server queue executes every block. Nothing
makes a thread start an operation.

## ConflictResolution

Each replica has a tree of revisions; a revision is the path of edits to it. The
resolution reads the conflicting leaves, keeps the one with the smallest
`updatedAt`, deletes the others one by one and writes the kept one again. Every
write is a step, refused if its parent has got a child meanwhile, and the
resolution may stop between any two. Replicas exchange leaves in any order, when
they are `connected` (chosen at the start); the users of replicas that are not may
edit and delete `MaxEdits` times, of those that are, `MaxLiveEdits` times.

The run distributes three conflicting edits over two replicas in every way and lets
two resolutions stop half way; the order of the times is not that of the digests, so
that the comparator and CBL's choice of a current revision disagree. The edits are
edits of one revision, none of which has been edited further: one that has been, by a
user of a connected replica, is the case of `conflict_lost`. `DocumentSurvives`: at
every moment connected replicas together, and any other replica by itself, have a
revision that is not deleted. `DocumentKept`: each has one at rest. `Converges`:
connected replicas reach, and keep, the oldest edit. `Settles`: they come to rest,
also under edits where replicas are not connected. With live edits `DocumentKept`
fails (run `conflict_lost`).

Fairness: resolution is called whenever an object is loaded
(`-didLoadFromDocument`), and continuous replication delivers every leaf in the
end; both are assumed to happen again while there is something to do.

## BundledResources

Two controllers of one database, one with a bundled database and one with a bundled
JSON file, are initialised in either order (`JSONFirst`) at every launch. `saved` is
the metadata document, `metadata` the object both share. `Terminate` ends the
process at any step, and saves nothing; `Launch` may be of a newer release. File
versions stand for checksums and never go back. A pull that stops without an error
has brought every document. Documents users change or delete are not modelled, nor
command line tools and services, which skip the loading.

`RecordsAreThere`: a saved checksum of the JSON file means its records are saved.
`PulledUnlessFailed`: a checksum of the bundled database means its documents are
there, unless a pull of it failed. `LoadingEnds`: the run loop does not spin for
ever; it assumes that initialisation goes on and that the replicator stops in the
end, with or without an error. Three releases cover an update of each file; each
file drops a document and adds one. The run has the JSON file second; the proofs
cover both orders.

## PackageOpening and DurableDatabases

`-initWithPath:readOnly:delegate:error:` goes through the databases of a package.
For each it copies the bootstrap data, file first and attachments second, if there
are such data and no file yet (`CopyDatabase`, `CopyAttachments` and their
failures); it opens or creates the file (`Create`, `InitializeDatabase`); and where
SQLite says that the file is no database it removes it, creates another and notes it
(`NotADatabase`, `RemoveDatabase`, `ResetDatabase`). Any step may fail, or the
process end (`OpeningFails`), which leaves the files as they are; `Save`, `Damage`
and `Close` are what happens to an open package. A database holds up to two parts,
the bootstrap data and the work saved since. `removed` and `cutShort` are history.

`AllDatabasesOpen` is what the initializer asserts. `ReportedUnlessCutShort`: an
emptied database is in `databasesResetDuringInitialization`. `OpeningEnds`, under
the fairness that the initializer goes on. `ContentIsDurable`: the files, seen as
databases, implement `DurableDatabases`, in which a database starts with all its
bootstrap data at once, keeps what is saved, and is emptied or lost only when it is
damaged. In the mapping a corrupt file is a damaged database, and so is one that has
been removed and not yet replaced; an absent one is missing.

Two databases, one with bootstrap data and attachments, give every combination of
their files; openings, crashes and damage are not bounded.

## PackageListeners

Packages are initialized one after another on the main thread (`MainThreadIsFree`).
Each puts a block on its server queue that tries ports until one is free (`ChoosePort`, `Listen`, `Retry`), beginning at one that depends on the number of
packages opened so far, which the initializer increments only at its end
(`DidOpenPackage`); the block may run before or after that, and those of two packages
at the same time. That a port is refused while somebody else listens at it is the
operating system's rule (`Taken`, external). Completion is on the main queue (`Complete`). `-close:` waits for
the server queue (`CheckTransactions`), stops the listener and closes the server.

`ClosedDoesNotListen`, `FailsOnlyAfterAllPorts` (no port is tried
twice, and a listener fails only after `MaxRetryCount` of them) and `StartEnds`. Two
packages compete, four ports are taken so that three attempts can all fail; the port
step grows with every retry, as in the code. Fairness: queues execute their blocks.

## PackageDocument

`MPDatabasePackageBackedDocument` on the main thread: `-packageController` is a chain
of steps from `Access` to `OpenPackage` that each may fail and leave flags, path and
working copy for the next attempt; `Write` and `SaveToURL` ask for the package and
copy it to the document's file; `Revert`, `Close`, `ApplicationWillTerminate` and
`Dealloc` close it, with `MaxRetries` attempts (60 or 20 in the code, 3 here), and
remove the copy. A directory is none, bare, a part of the file or the whole of it.
A copy that fails may leave a part. A removal that fails is logged only, and the path
is forgotten all the same, so that nothing tries it again; `unremoved` is the history of
that.

`FileKept`: a write never replaces a file by an empty package, and by less than it held
only where a failed copy has left a part, see below. `CleanedStaysClosed`, `PathIsSet`
and `NoTemporaryFilesLeft` (the working copy is removed, or its removal was tried and
failed) hold after any sequence of failing attempts. `CallsReturn`, under the fairness
that a method that has begun goes on.

## Replication

One-off pushes and pulls of a database with two remote ones, the user's own and the
global. `CreatePush`, `Start`, `ObservePush` are the steps of
`-pushToDatabaseAtURL:`; `CreatePull`, `Start`, `KeepPull` those of the pull, which
observes nothing. The replicator (external) sends or fetches documents, stops, with
or without an error, at any time, and calls `ReplicationDidChange` if it is observed.
`PushFilter` lets only shared objects go to the global database;
`ValidateRevision` is applied to saves and pulls. A document is known by what its
identifier and properties say (`Kinds`).

`OnlySharedIsGlobal` and `StoppedPushesAreForgotten` are checked; `RunningPushesAreKept`
is proved only. They are safety properties, so the run assumes no fairness.
Two replications, a document of the user's that may be shared, unshared and deleted,
and an invalid one of others, whose deletion is valid; two revisions each.

## EmbeddedObjects

One property that holds an embedded object. Reading it is `Get`, `GetUnsavedValue`,
`ReadDocument`, `Decode`, `InitWithDictionary`, `CacheDecoded`; changing a field is
`SetField`, `CacheValue`, `MarkPropertyNeedsSave`, `MarkNeedsSave`, and other threads may
act between any two; a reference to a managed object is set by `SetModel`, which skips
all but the last of those; replacing it is `Set` and the getter, then
`SetEmbeddedObject`; saving is `Save`, `WriteRevision` or `WriteFails`. `PullRevision`
changes the document beneath. CBLModel's cached value and changed names are external: a
save of an object that is marked writes the cached value of a property among the changed
ones, or removes it from the document if none is cached, and empties both. Assertions on
the cache by identifier stop nothing, as they may be compiled out: `Cache` keeps the
object that is there, and an object to be removed may be missing.

`MarkedForSaving`: a changed property is marked or about to be. `CleanMeansSaved`: a
property that is not changed shows what the document holds, if it holds it.
`UniqueByIdentifier`: callers never hold two objects with one identifier. `replaced` and
`pulls` limit the second and the third to the histories in which they hold, see below.

Two threads, one of which also replaces the object, two objects, a stored identifier
and a new one, one pull, three changes: a change, its save and a second change by
another thread fit in.

## Contributors and ContributorsList

`Contributors`: a contributor is the user if an identity document maps it to the
identifier of the shoebox. `-setIsMe:` is `SetIsMe`, `ExistingContributors`, then
`FindIdentity` and `DeleteIdentity` for each of them, `SaveIdentity`, `SetMe`;
`SetIsNotMe` deletes one identity; `Me` makes a contributor; `Restart` empties the
controller. Threads do this at the same time, and also with contributors that have been
deleted or not been saved. That there is one user at most, `AtMostOneMe`, is refuted:
claims that overlap, a deletion that fails or a contributor that a pull brings back leave
two. `OneMe` says when it holds. `alone` is the claim that nothing of this has come
between so far; `clean` is set by the save of such a claim, and stays until something of
this happens. So any trouble is over with the next claim that is left alone, whatever
else other threads do: load, make, save and delete contributors, take identities away,
or end the process. Two threads, three contributors, one of which is not there at first,
with three identities; one contributor comes back by a pull and one deletion fails.
Threads, identities and the contributors that are there at first are symmetric.

`ContributorsList`: `-allContributors` queries (`AllContributors`) and assigns
(`RefreshCachedContributors`) in two steps; saves and deletions are announced twice,
by the object and by the database; both announcements put a block on the main queue
that refreshes the list or removes a contributor from it. `MoveContributors` computes
the new order by removals and insertions as
`+moveContributors:amongstContributors:toIndex:` does, and sets priorities.
`ListAgrees` and `OrderAgrees` when all is quiet; `MovesTogether` against a
declarative statement of what a move is to do. Three contributors, three writes and
a move of up to three (`MaxMoved`); another thread saves and deletes, only the main thread reads the list.

## Runs

| Run | Configuration | Expected | Shows |
| --- | --- | --- | --- |
| `managed_objects_threads` | `ManagedObjects_threads.cfg` | pass | uniquing, cache hits, notifications, that every document is announced, and that objects and documents obey `IdentityMap` |
| `conflict_replicas` | `ConflictResolution_replicas.cfg` | pass | replicas keep the document, converge on the oldest edit and come to rest |
| `conflict_lost` | `ConflictResolution_lost.cfg` | violation | an edit during two resolutions can lose the document |
| `bundle_launches` | `BundledResources_launches.cfg` | pass | checksums are truthful across crashes and updates; loading ends |
| `bundle_failedpull` | `BundledResources_failedpull.cfg` | violation | a failed pull can be recorded as loaded |
| `package_restarts` | `PackageOpening_restarts.cfg` | pass | opening is complete, durable and ends, wherever earlier openings stopped |
| `document_retries` | `PackageDocument_retries.cfg` | pass | a document's file is not emptied, its temporary files are not forgotten, and calls return, over failing attempts |
| `listener_ports` | `PackageListeners_ports.cfg` | pass | listeners start or fail after all attempts, and none is left by a closed package |
| `replication_pushes` | `Replication_pushes.cfg` | pass | what is sent to the global database, and that pushes that stop are forgotten |
| `embedded_threads` | `EmbeddedObjects_threads.cfg` | pass | changes of embedded objects are marked and saved, objects are unique |
| `contributors_claims` | `Contributors_claims.cfg` | pass | one contributor at most is the user after a claim that was left alone |
| `contributors_list` | `ContributorsList_changes.cfg` | pass | the cached list agrees with the database; moves do what they are to do |

Deadlock is checked in `contributors_claims`, where the process can always be restarted.
It is not in the others: threads and users may stop, and bounded counters run out.
Symmetry is used in `contributors_claims` alone, which checks safety only. Every property of a passing run has a mutant, a plausible error
in one definition, that violates it. Type invariants are proved; a run checks the one
that says more than types: that of `ContributorsList`, where lists have nobody twice and
priorities are places in them.

## Proofs

Everything here holds for every value of the constants that satisfies the named
assumptions of the module and the hypotheses of the theorem, which the table names
where they restrict the result. Each `X_proofs` has one step or lemma per action.

| Module | Theorems (`Spec => []P` for the P in brackets) | Inductive invariant, and why it is needed |
| --- | --- | --- |
| `ManagedObjects_proofs` | `OneObjectPerDocument` (`Uniquing`), `CacheHitsAreAttached` (`NoStaleHit`), `ObserversKnow` (`ObserversAgree`), `ImplementsIdentityMap` (`Spec => IdentityKept`) | `IInv`: a thread half way through an operation holds a document or an object, and the step that uses it keeps uniquing only if these are what the program counter promises (`ThreadInv`), and if cached and attached objects know their document's identifier (`ObjectInv`). `NInv`, for `ObserversAgree`: document by document, also while other changes are queued, a live one is told of or has a change queued, and one that is told of is live and has a model object, whose removal would be posted, unless its notification was overtaken by a deletion (`NoticeInv`); a save that will find nothing to write is of a document that was written (`CommitInv`). For the refinement see below |
| `ConflictResolution_proofs` | `AloneDocumentSurvives` (`~connected => DocumentSurvives`); `DocumentIsNotLost` (`DocumentSurvives`), `DocumentIsKept` (`DocumentKept`) and `ReplicasAgree` (`RestsOnOldest`, the safety part of `Converges`), if `MaxLiveEdits = 0` and the times differ; `ResolutionIsBounded` | see below |
| `BundledResources_proofs` | `RecordsOfChecksum` (`RecordsAreThere`), `DocumentsOfChecksum` (`PulledUnlessFailed`), `LoadingIsBounded` | `RecordsInv`: the metadata object is as truthful as the saved document, since a save copies it, and no checksum is of a file still to come, which an update needs. `DocumentsInv`: there is no checksum of the file at hand while its documents are purged and pulled |
| `Packages_proofs`, about `PackageOpening` | `OpenedInFull` (`AllDatabasesOpen`), `ResetsReported` (`ReportedUnlessCutShort`), `DurableContent` (`Spec => ContentIsDurable`), `OpeningIsBounded` | `IInv`: what is known of the database the initializer is at (`AtDatabase`), that those behind it are open (`Behind`), and that what it removed is in its list (`Known`). For the refinement, every step maps to a step of `DurableDatabases` or a stutter; that a file is created empty only where there are no bootstrap data comes from `AtDatabase` |
| `Packages_proofs`, about `PackageListeners` | `ClosedIsSilent`, `AllPortsTried`, `StartIsBounded` | `TriedInv`: the ports found taken lie below the next one, one for each retry. `CloseInv`: a close that has passed the server queue has the starting block behind it |
| `Packages_proofs`, about `Replication` | `GlobalIsShared`, `PushesAreKept` (`RunningPushesAreKept`), `PushesAreForgotten` | `Life`: a replication against the method that creates it; a push to the global database is filtered. `ContentInv` adds what the global database holds |
| `PackageDocument_proofs` | `FileIsKept` (`FileKept`), `FilesAreRemoved`, `CleanedIsClosed`, `CopyHasPath`, `CallsAreBounded` | `StepInv`: what each step relies on. `FilesInv`: a document without a path has no files but those that could not be removed, and one that is not initialized has none. `CopyInv`, for `FileKept`: the working copy of a document with a file is that file's, or a part of it, and is there whenever a package is opened or written |
| `EmbeddedObjects_proofs` | `ChangesAreMarked`, `ObjectsAreUnique`, `ChangesAreSaved` (`CleanMeansSaved`) | `ObjectInv`: what there is hold of exists. `CacheInv`, while nothing is replaced: every object is in the cache by identifier. `SavedInv`, while moreover nothing is pulled: there is one object at most, it differs from the document only while it is changed, and a thread that decodes does so from a dictionary with its identifier, the document's as long as there is no object |
| `Contributors_proofs` | `UserIsUnique` (`OneMe`), for any number of threads | `PeopleInv`: what the steps of a claim rely on. `ClaimsInv`: a claim in `alone` is the only one (`AloneInv`), and a claim under way while `clean` is one of those (`CleanInv`). The other threads may take identities away meanwhile, and a claim deletes any one identity of a contributor each time that contributor comes up, so it cannot be said which are left. They are counted: a contributor has no more identities left than the times it is still to come up (`Covered`), so none when the claim saves its own |
| `ContributorsList_proofs` | `ListIsTheDatabase` (`ListAgrees`) and `OrderIsThatOfPriorities` (`OrderAgrees`), if `Readers = {}`; `MovesKeepTogether` (`Spec => MovesTogether`) | see below |

Each of them also proves `TypeCorrect` (`Spec => []TypeOK`; `ListenersTypeCorrect` for `PackageListeners`, `ReplicationTypeCorrect`
for `Replication`).

`ConflictResolution_proofs` first shows that the comparator of the resolution orders
live revisions strictly and totally, whatever their times and identifiers
(`SortsTotally`), so that a resolution always has a revision to keep (`FirstIsFirst`);
and what a write does to a tree of revisions (`LeafExtended`): it adds a leaf and takes
away none but its parent. `TreeInv` says that every replica has a tree and that its
resolution works on live revisions of it. `AloneInv`: a replica by itself always has a
live leaf that its resolution is not to delete, however often its user edits;
`DocumentSurvives` alone is not inductive, as the last live leaf might be one to be
deleted. For connected replicas that will not do, since what one keeps another may
delete. There `LineInv` says that every revision repeats one of the conflicting edits,
up to a deletion, that some replica knows the oldest one, and that no resolution is to
delete it: a tree has one live leaf at most of each edit (`OneLeafOfEachEdit`), so the
oldest edit, wherever it is known, sorts before all others (`OldestSortsFirst`), and
its longest revision is a live leaf of what all replicas know (`OldestIsLive`). Both
conditions are needed: with an edit of a connected replica `DocumentKept` is refuted by
`conflict_lost`, and with equal times as said below.

`ContributorsList_proofs` has to say when the list may be wrong, as `ListAgrees` and
`OrderAgrees` speak of quiet states only. `ViewInv` is about the list that will be
cached, which is the one a refresh has made already, if one is under way, and holds
unless another refresh is queued: a contributor the list lacks has a change to be
announced, one it has too many has that or a block to remove it (`ListInv`), and of two
in the wrong order one is unsaved, or to be announced or removed (`OrderInv`). It needs
`QueueInv`: only deleted contributors are to be removed, these do not come back, and
the main thread alone makes lists, which is where `Readers = {}` comes in. That a query
returns a sorted list rests on `SortedExists`: the number of those that sort before a
contributor is its place. For `MovesKeepTogether` an induction over the contributors
that have been moved (`MovedFields`, by the least number at which it would fail) shows
what the list has become: who is in it, that the others are in their order
(`OrderKept`), and that those moved so far stand at the index in the order given, with
those still to come behind them.

The refinement of `IdentityMap` goes action by action (`StepIsIdentity`): most steps
change neither who represents whom nor whether a document is deleted (`IdentityQuiet`),
a commit or a pulled revision removes or revives its document (`IdentityWrite`), and
what remains are the steps that give a document an object or take it away. A new object
was never another document's (`Fresh`); one that comes back from the cache was made for
the document it is given to, and one that is deleted is the one that represents its
document, both by `ObjectInv`; and what a thread works on was chosen in an earlier step,
since when others were free to act, so that `ThreadInv` is needed too.

The theorems called `...IsBounded` say what liveness adds fairness to. Each names a
natural number, bounded by the constants, that every step of the operation decreases
and that nothing else increases before the operation ends: the steps an opening has
left (`OpeningLeft`, at most five for each database and one), those of the start of a
listener (`StartLeft`), of a call of a document (`CallLeft`), of loading bundled data
(`LoadingLeft`, at most two for each document and six), and the writes of a conflict
resolution (`WritesLeft`, as many as it has read conflicting revisions). So each of
these operations ends, however its steps fail and whatever others do meanwhile, if it
goes on at all. `ResolutionIsBounded` also counts conflicts: a deletion that a
resolution writes leaves its replica one less, and nothing but replication brings it
new ones. Three assumptions say that what is counted can be: `DatabasesAssumption`
(a package has finitely many databases), `DocumentsAssumption` (a bundle has
finitely many documents) and, for `UserIsUnique`, `IdentitiesAssumption`.

Only model-checked: all liveness (`EventuallyAnnounced`, `Converges`, `Settles`,
`LoadingEnds`, `OpeningEnds`, `StartEnds`, `CallsReturn`), which is
out of the prover's reach beyond these bounds.

## Where the code falls short

The modules also state what documentation, comments and assertions say where TLC
refutes it. Two of these are runs with a finding in `PROJECT.json` (`conflict_lost`,
`bundle_failedpull`). The others are refuted when they are put in place of the
properties of the module's passing configuration, changed as said here.

| Statement | What the code does instead |
| --- | --- |
| `DeletedLeaveCache` (`ManagedObjects`): controllers "cache model objects until they are deleted" | `-_deleteDocument:` (`MPManagedObject.m:586`) does not deregister the object, and neither does a pulled deletion |
| `AdditionsPosted` (`ManagedObjects`): "document new => add change type" | the kind of a change is read from the revision current when it is handled (`MPManagedObjectsController.m:1381`): a document with a second revision by then is announced as an update only |
| `DocumentKept` (`ConflictResolution`, `Times <- <<1, 1>>`): "break ties using the revision ID" | a revision that was kept and written again has a longer identifier (`MPManagedObjectsController.m:400`): a replica that has it keeps the other of two edits with equal `updatedAt`, one that does not yet keeps this one, and each deletes what the other keeps. The same goes for edits without `updatedAt`, which compare as equal |
| `OnlyCurrentVersion` (`BundledResources`, `JSONFirst = TRUE`): "if a previous version was loaded, purge the current version" | the metadata are saved before the checksum is set in them (`MPManagedObjectsController.m:1164`, `1137`). When no other controller saves them later, the next release finds no previous checksum and does not purge |
| `ResetsAreReported` (`PackageOpening`): "List databases ... determined to be corrupted during initialization" | a database removed by an opening that then fails is found missing by the next one and is not listed (`MPDatabasePackageController.m:194`) |
| `AttachmentsCameAlong` (`PackageOpening`): "nothing needed if file already exists" | when the copy of the attachments fails, the next opening finds the database file and does not copy them (`MPDatabasePackageController.m:364`) |
| `CopyIsComplete` (`PackageDocument`): "a temporary copy of the document package bundle" | what a failed copy has left is taken for the copy by the next attempt, which clears the error (`MPDatabasePackageBackedDocument.m:255`); a write then replaces the file by the part |
| `ErrorStaysSet` (`PackageDocument`): the access error is "never unset after that" | an attempt to open the package that succeeds clears it (`MPDatabasePackageBackedDocument.m:337`) |
| `ErrorAfterFailure` (`PackageDocument`): the assertion of `-writeToURL:` | when permissions cannot be set no error is (`MPDatabasePackageBackedDocument.m:300`) |
| `InvalidIsKnown` (`PackageDocument`): "Return NO if the package controller is in an invalid state" | the error is kept if the answer is YES and ignored if it is NO (`MPDatabasePackageBackedDocument.m:340`) |
| `PostedMeansListening` (`PackageListeners`): "fired once the database package listener is ready" | it is posted when the listener has failed too (`MPDatabasePackageController.m:240`) |
| `StoppedPullsAreForgotten` (`Replication`, with `FairReplicationSpec`): "Currently ongoing one-off pull replications" | pulls are not observed and never leave the set (`MPDatabase.m:433`) |
| `EveryStoppedPushIsForgotten` (`Replication`, with `FairReplicationSpec`) | a push is started before it is observed (`MPDatabase.m:372`): one that stops in between stays, and its error is not posted |
| `StrayObjectsAreRejected` (`Replication`, with a document of the kind `"stray"`): "this will fail" | NO is returned to a block that does not look at it (`MPDatabase.m:215`) |
| `CleanMeansSaved` for references (`EmbeddedObjects`) | `-setModel:forProperty:` (`MPEmbeddedObject.m:812`) does not mark the holder's property as changed: the next save leaves the reference out |
| `CleanMeansSaved` without `pulls = 0` | a value decoded before a pull and cached after it stays (`MPManagedObject.m:2064`) |
| `UniqueByIdentifier` without `~replaced` | clearing the property uncaches the object; reading it before the save decodes the document into a second one, and undoes the clearing (`MPManagedObject.m:2038`) |
| `ValueIsRewritten` (`EmbeddedObjects`): a change is marked since it "requires rewriting the JSON" | a change makes the object the cached value and then marks the property (`MPEmbeddedObject.m:288`, `292`): a save in between writes and empties the cached value, and the next one, finding the property marked and no value, removes it from the document |
| `IdentityMatches` (`EmbeddedObjects`): the assertion "Mismatching identity" of `MPManagedObject.m:275` | a thread that decodes the property while another clears it has found the object that was cached, and meets the one that the next reader makes with the same identifier |
| `RemovalFindsObject` (`EmbeddedObjects`): the assertion of `MPManagedObject.m:293` | a setter of a replaced object makes it the value again without caching it (`MPEmbeddedObject.m:288`) |
| `AtMostOneMe` (`Contributors`): "at most one MPContributor object which is considered to be 'me'" | a claim is not atomic (`MPContributor.m:71`), ignores that a deletion failed (`MPContributor.m:86`), and `-willDeleteObject:`, which would delete the identities of a deleted contributor, is called by nothing (`MPContributorsController.m:248`), so one that a pull brings back is the user again |
| `MeIsTheUser` (`Contributors`): "signifies the current user" | `-me` makes a contributor without asking `-existingMe` (`MPContributorsController.m:46`) |
| `ListAgrees` with `Readers = {t1}` (`ContributorsList`) | a list queried off the main thread is assigned after a removal and undoes it (`MPContributorsController.m:141`) |
| `OrderFollowsPriorities` (`ContributorsList`): "according to the priorities set" | a move sets priorities and does not refresh the list (`MPContributorsController.m:220`) |

`MovesTogether` is about moves towards the beginning: contributors moved towards the
end are reversed, each removal shifting the index. An index equal to the length of
the list is out of range once a contributor has been removed from it
(`MPContributorsController.m:214`), so it is not among the inputs.

## Not modelled

- CloudKit synchronisation (`Services/*.swift`, `CloudKit*.swift`): no target compiles
  these files, and the `lazy let` of `CloudKitState.swift:28` is not Swift.
- Snapshots: a new one is refused by the assertion of `MPManagedObject.m:193` at its
  first object, and restoring takes a stored string for a class; neither has a
  behaviour to check.
- Continuous synchronisation: `-syncWithRemote:` begins with
  `-ensureRemoteDatabaseCreated:`, which throws until an application overrides it.
- The shoebox singleton, created once and taken down by unit tests only.
- Collections of embedded objects, embedded objects in embedded objects and deep
  saving; property accessors, prototypes, JSON representations, attachments, views.
- Sections and tree items: what they show is defined by subclasses in applications
  (`-refreshCachedValues` is empty here).
- Bonjour browsing, which only logs; thumbnails and look-ups of contributors; window
  controllers and access by scripts.
- Mixins, categories, scripting and utilities: stateless helpers, tables, input and
  output.

`components` in `PROJECT.json` lists these parts with their sources, `hazards` where
the modelled ones can go wrong and which property would tell.
