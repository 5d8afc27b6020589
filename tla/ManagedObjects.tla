---------------------------- MODULE ManagedObjects ----------------------------
(***************************************************************************)
(* The life of the managed objects of one MPManagedObjectsController: how  *)
(* MPManagedObject instances are created, uniqued in the controller's      *)
(* object cache, saved, deleted and queried by several threads, how pulled *)
(* revisions reach them, and which change notifications are posted.        *)
(*                                                                         *)
(* A document is known by its winning revision only (ConflictResolution    *)
(* models revision trees).  Couchbase Lite (CBLDocument, CBLModel and the  *)
(* database's change notification) is external and is modelled from the    *)
(* way the controller, the object and MPDatabase use it.  Blocks run with  *)
(* mp_dispatch_sync on the serial server queue are single actions; the     *)
(* code of a method before and after such a block is a step of its own.    *)
(***************************************************************************)
EXTENDS Naturals, Sequences

CONSTANTS Docs,       \* document identifiers of the controller's class
          Objs,       \* MPManagedObject instances that may be allocated
          Threads,    \* callers of the API
          None,       \* nil
          MaxGen      \* bound: revision generations per document

ASSUME NoneAssumption == None \notin Docs /\ None \notin Objs
ASSUME MaxGenAssumption == MaxGen \in Nat

VARIABLES
  rev,          \* winning revision of each document, gen = 0 when it has none
  document,     \* CBLModel.document of each instance
  documentID,   \* -documentID: that document's, then _deletedDocumentID
  modelObject,  \* CBLDocument.modelObject
  objectCache,  \* MPManagedObjectsController._objectCache
  allocated,    \* instances that have been initialised
  isNewObject,  \* MPManagedObject.isNewObject
  needsSave,    \* CBLModel.needsSave
  pending,      \* database changes not yet handed to databaseDidChange:
  posted,       \* kind of the last notification posted about each document
  added,        \* history: documents an Add notification was posted about
  overtaken,    \* history: documents deleted between a save and its notification
  pc, doc, obj  \* program counter and locals of each thread

store   == <<rev, pending>>
objects == <<document, documentID, modelObject, objectCache, allocated,
             isNewObject, needsSave>>
notices == <<posted, added, overtaken>>
locals  == <<pc, doc, obj>>
vars    == <<store, objects, notices, locals>>

Steps == {"idle", "lookup", "model", "commit", "completed", "row",
          "import", "importModel", "importNew", "setValues", "saveModels"}

Init ==
  /\ rev = [d \in Docs |-> [gen |-> 0, deleted |-> FALSE]]
  /\ document = [o \in Objs |-> None]
  /\ documentID = [o \in Objs |-> None]
  /\ modelObject = [d \in Docs |-> None]
  /\ objectCache = [d \in Docs |-> None]
  /\ allocated = {}
  /\ isNewObject = [o \in Objs |-> FALSE]
  /\ needsSave = [o \in Objs |-> FALSE]
  /\ pending = <<>>
  /\ posted = [d \in Docs |-> "None"]
  /\ added = {}
  /\ overtaken = {}
  /\ pc = [t \in Threads |-> "idle"]
  /\ doc = [t \in Threads |-> None]
  /\ obj = [t \in Threads |-> None]

-----------------------------------------------------------------------------
(* Helpers *)

Exists(d) == rev[d].gen > 0
Live(d) == Exists(d) /\ ~rev[d].deleted

\* -[MPManagedObject isDeleted]
IsDeleted(o) == document[o] = None \/ rev[document[o]].deleted

Goto(t, step, d, o) ==
  /\ pc' = [pc EXCEPT ![t] = step]
  /\ doc' = [doc EXCEPT ![t] = d]
  /\ obj' = [obj EXCEPT ![t] = o]

Return(t) == Goto(t, "idle", None, None)

\* A revision is written: the database queues the change it will announce.
Write(d, isDeletion) ==
  /\ rev[d].gen < MaxGen
  /\ rev' = [rev EXCEPT ![d] = [gen |-> rev[d].gen + 1, deleted |-> isDeletion]]
  /\ pending' = Append(pending, [doc |-> d, gen |-> rev[d].gen + 1])

\* The did and has notifications of one change, posted about document d.
Announce(d, kind) ==
  /\ posted' = [posted EXCEPT ![d] = kind]
  /\ added' = IF kind = "Add" THEN added \cup {d} ELSE added

Post(d, kind) == Announce(d, kind) /\ UNCHANGED overtaken

\* -didChangeDocument:forObject:source: decides the kind from the revision.
ChangeType(r) ==
  IF r.gen = 1 THEN "Add" ELSE IF r.deleted THEN "Remove" ELSE "Update"

\* -setDocument: attach o to d and register it in the object cache.
Attach(o, d) ==
  /\ document' = [document EXCEPT ![o] = d]
  /\ modelObject' = [modelObject EXCEPT ![d] = o]
  /\ objectCache' = [objectCache EXCEPT ![d] = o]

\* Mutant: a second object is made for a document that already has one.
Initialise_Again(o, d) ==
  /\ o \in Objs \ allocated
  /\ allocated' = allocated \cup {o}
  /\ documentID' = [documentID EXCEPT ![o] = d]
  /\ Attach(o, d)

\* An instance is initialised for d; CBLModel refuses a document whose
\* model object is already set.
Initialise(o, d) ==
  /\ modelObject[d] = None
  /\ o \in Objs \ allocated
  /\ allocated' = allocated \cup {o}
  /\ documentID' = [documentID EXCEPT ![o] = d]
  /\ Attach(o, d)

Instantiate(o, d, new, dirty) ==
  /\ Initialise(o, d)
  /\ isNewObject' = [isNewObject EXCEPT ![o] = new]
  /\ needsSave' = [needsSave EXCEPT ![o] = dirty]

\* +modelForDocument: on the server queue: o is the document's model object or
\* a fresh instance.
ModelForDocument(o, d) ==
  \/ modelObject[d] # None /\ o = modelObject[d] /\ UNCHANGED objects
  \/ Instantiate(o, d, FALSE, FALSE)

-----------------------------------------------------------------------------
(* Creating and changing objects *)

\* -initWithNewDocumentForController:properties:documentID:
NewObject(t, o, d) ==
  /\ pc[t] = "idle"
  /\ Instantiate(o, d, TRUE, TRUE)
  /\ UNCHANGED <<store, notices, locals>>

\* -setValue:ofProperty: does nothing on a deleted object.
SetValue(t, o) ==
  /\ pc[t] = "idle"
  /\ o \in allocated
  /\ ~IsDeleted(o)
  /\ needsSave' = [needsSave EXCEPT ![o] = TRUE]
  /\ UNCHANGED <<store, document, documentID, modelObject, objectCache,
                 allocated, isNewObject, notices, locals>>

-----------------------------------------------------------------------------
(* Saving *)

\* -save: up to the block on the server queue; a clean object returns at once.
Save(t, o) ==
  /\ pc[t] = "idle"
  /\ o \in allocated
  /\ needsSave[o]
  /\ document[o] # None
  /\ Goto(t, "commit", None, o)
  /\ UNCHANGED <<store, objects, notices>>

\* -[super save:] finds nothing left to save: another thread has saved the
\* object, or has deleted it, since it was found dirty.
CommitNothing(t) ==
  /\ pc[t] = "commit"
  /\ ~needsSave[obj[t]] \/ document[obj[t]] = None
  /\ Goto(t, "completed", None, obj[t])
  /\ UNCHANGED <<store, objects, notices>>

\* -[super save:] writes a revision.
Commit(t) ==
  LET o == obj[t] IN
  /\ pc[t] = "commit"
  /\ needsSave[o]
  /\ document[o] # None
  /\ Write(document[o], FALSE)
  /\ needsSave' = [needsSave EXCEPT ![o] = FALSE]
  /\ Goto(t, "completed", None, o)
  /\ UNCHANGED <<document, documentID, modelObject, objectCache, allocated,
                 isNewObject, notices>>

\* -[super save:] fails: nothing is announced and the object stays dirty.
CommitFails(t) ==
  /\ pc[t] = "commit"
  /\ needsSave[obj[t]]
  /\ document[obj[t]] # None
  /\ Return(t)
  /\ UNCHANGED <<store, objects, notices>>

\* -saveCompleted posts Add for the first save of a new object, else Update.
SaveCompleted(t) ==
  LET o == obj[t]
      d == documentID[o] IN
  /\ pc[t] = "completed"
  /\ Announce(d, IF isNewObject[o] THEN "Add" ELSE "Update")
  /\ overtaken' = IF IsDeleted(o) THEN overtaken \cup {d} ELSE overtaken
  /\ isNewObject' = [isNewObject EXCEPT ![o] = FALSE]
  /\ Return(t)
  /\ UNCHANGED <<store, document, documentID, modelObject, objectCache,
                 allocated, needsSave>>

\* +saveModels:error: from the start; the models may be clean.
SaveModels(t, o) ==
  /\ pc[t] = "idle"
  /\ o \in allocated
  /\ document[o] # None
  /\ Goto(t, "saveModels", None, o)
  /\ UNCHANGED <<store, objects, notices>>

\* The block of +saveModels:error: writes the dirty models.  It announces
\* nothing itself and leaves isNewObject as it was.
CommitModels(t) ==
  LET o == obj[t] IN
  /\ pc[t] = "saveModels"
  /\ \/ /\ needsSave[o]
        /\ document[o] # None
        /\ Write(document[o], FALSE)
        /\ needsSave' = [needsSave EXCEPT ![o] = FALSE]
     \/ UNCHANGED <<store, needsSave>>      \* nothing to save, or it fails
  /\ Return(t)
  /\ UNCHANGED <<document, documentID, modelObject, objectCache, allocated,
                 isNewObject, notices>>

-----------------------------------------------------------------------------
(* Deleting *)

\* Mutant: the object is detached although the deletion could not be written.
DeleteDocument_Detaches(t, o) ==
  LET d == document[o] IN
  /\ pc[t] = "idle"
  /\ o \in allocated
  /\ d # None
  /\ Exists(d)
  /\ Write(d, TRUE) \/ UNCHANGED store
  /\ document' = [document EXCEPT ![o] = None]
  /\ modelObject' = [modelObject EXCEPT ![d] = None]
  /\ needsSave' = [needsSave EXCEPT ![o] = FALSE]
  /\ Post(d, "Remove")
  /\ UNCHANGED <<documentID, objectCache, allocated, isNewObject, locals>>

\* -deleteDocument: without a current revision succeeds and changes nothing.
\* CBLModel detaches the object from its document; the object stays in the
\* object cache.
DeleteDocument(t, o) ==
  LET d == document[o] IN
  /\ pc[t] = "idle"
  /\ o \in allocated
  /\ d # None
  /\ Exists(d)
  /\ Write(d, TRUE)
  /\ document' = [document EXCEPT ![o] = None]
  /\ modelObject' = [modelObject EXCEPT ![d] = None]
  /\ needsSave' = [needsSave EXCEPT ![o] = FALSE]
  /\ Post(d, "Remove")
  /\ UNCHANGED <<documentID, objectCache, allocated, isNewObject, locals>>

-----------------------------------------------------------------------------
(* Finding objects *)

\* -objectWithIdentifier: misses the cache (a hit returns and changes nothing).
Fetch(t, d) ==
  /\ pc[t] = "idle"
  /\ objectCache[d] = None
  /\ Goto(t, "lookup", d, None)
  /\ UNCHANGED <<store, objects, notices>>

\* Its first block: -existingDocumentWithID:, which may also hand out the
\* tombstone of a deleted document.
FetchDocument(t) ==
  /\ pc[t] = "lookup"
  /\ \/ Exists(doc[t]) /\ Goto(t, "model", doc[t], None)
     \/ ~Live(doc[t]) /\ Return(t)
  /\ UNCHANGED <<store, objects, notices>>

\* Its second block: the model object, made now if the document is not deleted.
FetchModel(t) ==
  LET d == doc[t] IN
  /\ pc[t] = "model"
  /\ \/ /\ modelObject[d] # None \/ ~rev[d].deleted
        /\ \E o \in Objs : ModelForDocument(o, d)
     \/ /\ modelObject[d] = None /\ rev[d].deleted
        /\ UNCHANGED objects
  /\ Return(t)
  /\ UNCHANGED <<store, notices>>

\* A query is run: its row refers to a document that is live now.
Query(t, d) ==
  /\ pc[t] = "idle"
  /\ Live(d)
  /\ Goto(t, "row", d, None)
  /\ UNCHANGED <<store, objects, notices>>

\* -managedObjectsForQueryEnumerator: turns the row into an object: the model
\* object, else the cached object re-attached to the row's document, else an
\* instance made for it unless it was deleted after the query ran.
QueryRow(t) ==
  LET d == doc[t]
      o == objectCache[d] IN
  /\ pc[t] = "row"
  /\ \/ modelObject[d] # None /\ UNCHANGED objects
     \/ /\ modelObject[d] = None /\ o # None
        /\ Attach(o, d)
        /\ UNCHANGED <<documentID, allocated, isNewObject, needsSave>>
     \/ /\ modelObject[d] = None /\ o = None /\ ~rev[d].deleted
        /\ \E m \in Objs : ModelForDocument(m, d)
     \/ /\ modelObject[d] = None /\ o = None /\ rev[d].deleted
        /\ UNCHANGED objects
  /\ Return(t)
  /\ UNCHANGED <<store, notices>>

-----------------------------------------------------------------------------
(* Importing JSON records *)

\* -objectFromJSONDictionary:isExisting:error: looks the document up, as a fetch
\* does ...
Import(t, d) ==
  /\ pc[t] = "idle"
  /\ \/ Exists(d) /\ Goto(t, "import", d, None)
     \/ ~Live(d) /\ Goto(t, "importNew", d, None)
  /\ UNCHANGED <<store, objects, notices>>

\* ... and then, off the server queue, +modelForDocument: looks whether a document
\* that was found has a model object ...
ImportDocument(t) ==
  LET d == doc[t] IN
  /\ pc[t] = "import"
  /\ IF modelObject[d] # None THEN Goto(t, "setValues", None, modelObject[d])
                              ELSE Goto(t, "importModel", d, None)
  /\ UNCHANGED <<store, objects, notices>>

\* ... and makes one if it had none.  One that another thread made meanwhile is
\* used, or is in the way of the instance being made, which like the deletion of
\* the document raises an exception.
ImportModel(t) ==
  LET d == doc[t] IN
  /\ pc[t] = "importModel"
  /\ \/ /\ modelObject[d] # None \/ ~rev[d].deleted
        /\ \E o \in Objs : ModelForDocument(o, d) /\ Goto(t, "setValues", None, o)
     \/ /\ modelObject[d] # None \/ rev[d].deleted
        /\ Return(t)
        /\ UNCHANGED objects
  /\ UNCHANGED <<store, notices>>

\* A document that was not found is given a new object, with the record's values;
\* a model object that it has by now raises an exception.
ImportNew(t) ==
  LET d == doc[t] IN
  /\ pc[t] = "importNew"
  /\ \/ \E o \in Objs : Instantiate(o, d, TRUE, TRUE) /\ Goto(t, "saveModels", None, o)
     \/ modelObject[d] # None /\ Return(t) /\ UNCHANGED objects
  /\ UNCHANGED <<store, notices>>

\* The record's values are set on the object of the document, which may have been
\* deleted; +saveModels:error: is to save it.
ImportValues(t) ==
  LET o == obj[t] IN
  /\ pc[t] = "setValues"
  /\ \E changed \in BOOLEAN :
       needsSave' = [needsSave EXCEPT ![o] = @ \/ (changed /\ ~IsDeleted(o))]
  /\ Goto(t, "saveModels", None, o)
  /\ UNCHANGED <<store, document, documentID, modelObject, objectCache,
                 allocated, isNewObject, notices>>

-----------------------------------------------------------------------------
(* Changes reported by the database *)

\* A pulled revision reaches the document; -document:didChange: of its model
\* object registers the object again and posts the change.
PullRevision(d, isDeletion) ==
  /\ isDeletion => Live(d)
  /\ Write(d, isDeletion)
  /\ \/ /\ modelObject[d] # None
        /\ objectCache' = [objectCache EXCEPT ![d] = modelObject[d]]
        /\ Post(d, ChangeType(rev'[d]))
     \/ /\ modelObject[d] = None
        /\ UNCHANGED <<objectCache, notices>>
  /\ UNCHANGED <<document, documentID, modelObject, allocated, isNewObject,
                 needsSave, locals>>

\* Mutant: a cached object is taken for the document's model object.
DocumentChanged_TrustsCache(change) ==
  LET d == change.doc IN
  /\ Live(d)
  /\ IF objectCache[d] # None
       THEN UNCHANGED objects
       ELSE \E o \in Objs : ModelForDocument(o, d)
  /\ Post(d, ChangeType(rev[d]))

\* Mutant: a change of a document that no object is loaded for is ignored.
DocumentChanged_LoadedOnly(change) ==
  LET d == change.doc IN
  /\ Live(d)
  /\ UNCHANGED objects
  /\ IF objectCache[d] # None THEN Post(d, ChangeType(rev[d])) ELSE UNCHANGED notices

\* -databaseDidChange: on a change whose document can be found: the package
\* controller makes its model object and has the change posted.
DocumentChanged(change) ==
  LET d == change.doc IN
  /\ Live(d)
  /\ \E o \in Objs : ModelForDocument(o, d)
  /\ Post(d, ChangeType(rev[d]))

\* -databaseDidChange: on a change of a deleted document.  A removal is posted
\* only for the revision that deleted it, and only if an object is cached; a
\* tombstone that is found has no objectType and is ignored.
DocumentDeleted(change) ==
  LET d == change.doc IN
  /\ rev[d].deleted
  /\ UNCHANGED objects
  /\ \/ /\ rev[d].gen = change.gen
        /\ objectCache[d] # None
        /\ Post(d, "Remove")
     \/ UNCHANGED notices

\* Mutant: a change of a document that no object is loaded for is put back.
DatabaseDidChange_PutsBack ==
  LET change == Head(pending) IN
  /\ pending # <<>>
  /\ IF objectCache[change.doc] = None
       THEN pending' = Append(Tail(pending), change) /\ UNCHANGED <<objects, notices>>
       ELSE pending' = Tail(pending) /\ (DocumentChanged(change) \/ DocumentDeleted(change))
  /\ UNCHANGED <<rev, locals>>

\* One change of a database change notification is handled.
DatabaseDidChange ==
  /\ pending # <<>>
  /\ pending' = Tail(pending)
  /\ DocumentChanged(Head(pending)) \/ DocumentDeleted(Head(pending))
  /\ UNCHANGED <<rev, locals>>

-----------------------------------------------------------------------------

\* What a thread does once it has started an operation.
Continue(t) ==
  \/ CommitNothing(t) \/ Commit(t) \/ CommitFails(t) \/ SaveCompleted(t)
  \/ CommitModels(t)
  \/ FetchDocument(t) \/ FetchModel(t) \/ QueryRow(t)
  \/ ImportDocument(t) \/ ImportModel(t) \/ ImportNew(t) \/ ImportValues(t)

Start(t) ==
  \/ \E o \in Objs : \/ SetValue(t, o) \/ Save(t, o) \/ SaveModels(t, o)
                     \/ DeleteDocument(t, o)
                     \/ \E d \in Docs : NewObject(t, o, d)
  \/ \E d \in Docs : Fetch(t, d) \/ Query(t, d) \/ Import(t, d)

Next ==
  \/ \E t \in Threads : Start(t) \/ Continue(t)
  \/ \E d \in Docs, isDeletion \in BOOLEAN : PullRevision(d, isDeletion)
  \/ DatabaseDidChange

\* An operation that was started is finished, and the server queue hands every
\* queued change to its observer.
Fairness == WF_vars(DatabaseDidChange) /\ \A t \in Threads : WF_vars(Continue(t))

Spec == Init /\ [][Next]_vars
FairSpec == Spec /\ Fairness

-----------------------------------------------------------------------------
(* Properties *)

TypeOK ==
  /\ rev \in [Docs -> [gen : 0..MaxGen, deleted : BOOLEAN]]
  /\ document \in [Objs -> Docs \cup {None}]
  /\ documentID \in [Objs -> Docs \cup {None}]
  /\ modelObject \in [Docs -> Objs \cup {None}]
  /\ objectCache \in [Docs -> Objs \cup {None}]
  /\ allocated \subseteq Objs
  /\ isNewObject \in [Objs -> BOOLEAN]
  /\ needsSave \in [Objs -> BOOLEAN]
  /\ pending \in Seq([doc : Docs, gen : 1..MaxGen])
  /\ posted \in [Docs -> {"None", "Add", "Update", "Remove"}]
  /\ added \subseteq Docs
  /\ overtaken \subseteq Docs
  /\ pc \in [Threads -> Steps]
  /\ doc \in [Threads -> Docs \cup {None}]
  /\ obj \in [Threads -> Objs \cup {None}]

\* A document is represented by at most one attached object, the one its model
\* object pointer names, and the object cache hands out that very object: two
\* threads that fetch, query, import or load one document never hold two live
\* objects for it.
Uniquing ==
  /\ \A o \in Objs : document[o] # None => modelObject[document[o]] = o
  /\ \A d \in Docs : modelObject[d] # None =>
       document[modelObject[d]] = d /\ objectCache[d] = modelObject[d]

Removed == {d \in Docs : rev[d].deleted}

Identities == INSTANCE IdentityMap WITH
  identity <- documentID, holder <- modelObject, removed <- Removed

\* Which object represents which document changes only as IdentityMap allows:
\* whatever threads fetch, query, import, save, delete and pull, an object never
\* comes to represent another document, and a document is never left without its
\* object, or given a second one, unless a revision that deletes it is written.
IdentityKept == Identities!Spec

Unannounced(d) == \E i \in 1..Len(pending) : pending[i].doc = d

\* Deleted objects stay in the object cache, but once every queued change of a
\* live document has been handled, a cache hit of -objectWithIdentifier: is an
\* object attached to the document, not one left over from an earlier life of it.
NoStaleHit ==
  \A d \in Docs : Live(d) /\ ~Unannounced(d) /\ objectCache[d] # None
                    => document[objectCache[d]] = d

Settled == pending = <<>> /\ \A t \in Threads : pc[t] = "idle"

\* When nothing is in flight, an observer that adds a document on Add and Update
\* and drops it on Remove knows every document that exists, and knows no deleted
\* one unless a deletion came between the block that saved the object and the
\* notification of -saveCompleted, which is then posted after the removal.
ObserversAgree ==
  Settled => \A d \in Docs :
    /\ Live(d) => posted[d] \in {"Add", "Update"}
    /\ posted[d] \in {"Add", "Update"} => Live(d) \/ d \in overtaken

\* Every document that comes to exist, saved here or pulled, by -save: or by
\* +saveModels:error:, is announced to the observers or is deleted again.
EventuallyAnnounced ==
  \A d \in Docs : Live(d) ~> posted[d] \in {"Add", "Update"} \/ ~Live(d)

\* "cache model objects until they are deleted": the controller's cache holds
\* no deleted object once its removal has been handled.
DeletedLeaveCache ==
  Settled => \A d \in Docs : objectCache[d] # None => ~IsDeleted(objectCache[d])

\* "Notification posting for managed object additions ... and changes coming in
\* via pull replication": once handled, the addition of an existing document
\* has been posted as an addition.
AdditionsPosted == Settled => \A d \in Docs : Live(d) => d \in added
=============================================================================
