------------------------- MODULE ManagedObjects_proofs -------------------------
(***************************************************************************)
(* Proofs about ManagedObjects, for any documents, instances, threads and  *)
(* revision bound.  The inductive invariant has three parts: what relates  *)
(* objects, documents and the cache (ObjectInv), what a thread's locals    *)
(* hold (ThreadInv), and NoStaleHit, which needs the first two.  On it     *)
(* rests NInv, for ObserversAgree: which changes are still to be told.     *)
(* The last part shows that ManagedObjects implements IdentityMap.         *)
(***************************************************************************)
EXTENDS ManagedObjects, TLAPS

\* The types of the object part of the state.
ObjectTypes ==
  /\ document \in [Objs -> Docs \cup {None}]
  /\ documentID \in [Objs -> Docs \cup {None}]
  /\ modelObject \in [Docs -> Objs \cup {None}]
  /\ objectCache \in [Docs -> Objs \cup {None}]
  /\ allocated \subseteq Objs
  /\ isNewObject \in [Objs -> BOOLEAN]
  /\ needsSave \in [Objs -> BOOLEAN]

\* Uniquing, with what makes it inductive: an object is attached to no document
\* but its own, and is cached under no identifier but its own.
ObjectInv ==
  /\ ObjectTypes
  /\ Uniquing
  /\ \A o \in allocated : documentID[o] \in Docs
  /\ \A o \in Objs : document[o] # None => o \in allocated /\ document[o] = documentID[o]
  /\ \A d \in Docs : objectCache[d] # None =>
       objectCache[d] \in allocated /\ documentID[objectCache[d]] = d

\* The locals a thread's next step reads are set.
ThreadInv ==
  \A t \in Threads :
    /\ pc[t] \in {"commit", "completed", "setValues", "saveModels"} => obj[t] \in allocated
    /\ pc[t] \in {"lookup", "model", "row", "import", "importModel", "importNew"} => doc[t] \in Docs

OtherTypes ==
  /\ rev \in [Docs -> [gen : 0..MaxGen, deleted : BOOLEAN]]
  /\ pending \in Seq([doc : Docs, gen : 1..MaxGen])
  /\ posted \in [Docs -> {"None", "Add", "Update", "Remove"}]
  /\ added \subseteq Docs
  /\ overtaken \subseteq Docs
  /\ pc \in [Threads -> Steps]
  /\ doc \in [Threads -> Docs \cup {None}]
  /\ obj \in [Threads -> Objs \cup {None}]

IInv == ObjectInv /\ OtherTypes /\ ThreadInv /\ NoStaleHit

-----------------------------------------------------------------------------

\* What a step about document d leaves alone: the cached objects of the others.
OthersKept(d) ==
  \A e \in Docs \ {d} :
    /\ objectCache'[e] = objectCache[e]
    /\ objectCache[e] # None => document'[objectCache[e]] = document[objectCache[e]]

\* Initialising an instance for a document without a model object keeps the
\* object invariant, and leaves the document with an attached cached object.
LEMMA InitialiseObjects ==
  ASSUME ObjectInv, NEW o \in Objs, NEW d \in Docs,
         Initialise(o, d), isNewObject' \in [Objs -> BOOLEAN],
         needsSave' \in [Objs -> BOOLEAN]
  PROVE  /\ ObjectInv'
         /\ allocated \subseteq allocated' /\ o \in allocated'
         /\ document'[o] = d /\ objectCache'[d] = o
         /\ OthersKept(d)
<1>1. document[o] = None /\ \A e \in Docs : objectCache[e] # o
  BY NoneAssumption DEF ObjectInv, Initialise
<1>2. ObjectTypes'
  BY ZenonT(30) DEF ObjectInv, ObjectTypes, Initialise, Attach
<1>3. Uniquing'
  BY <1>1, NoneAssumption DEF ObjectInv, ObjectTypes, Initialise, Attach, Uniquing
<1>4. \A p \in allocated' : documentID'[p] \in Docs
  BY DEF ObjectInv, ObjectTypes, Initialise, Attach
<1>5. \A p \in Objs : document'[p] # None => p \in allocated' /\ document'[p] = documentID'[p]
  BY <1>1 DEF ObjectInv, ObjectTypes, Initialise, Attach
<1>6. \A e \in Docs : objectCache'[e] # None =>
        objectCache'[e] \in allocated' /\ documentID'[objectCache'[e]] = e
  BY <1>1 DEF ObjectInv, ObjectTypes, Initialise, Attach
<1>7. OthersKept(d)
  BY <1>1 DEF OthersKept, ObjectInv, ObjectTypes, Initialise, Attach
<1>8. ObjectInv'
  BY <1>2, <1>3, <1>4, <1>5, <1>6 DEF ObjectInv
<1> QED
  BY <1>7, <1>8 DEF ObjectInv, ObjectTypes, Initialise, Attach

\* +modelForDocument: answers the document's one attached, cached object.
LEMMA ModelForDocumentObjects ==
  ASSUME ObjectInv, NEW o \in Objs, NEW d \in Docs, ModelForDocument(o, d)
  PROVE  /\ ObjectInv'
         /\ allocated \subseteq allocated' /\ o \in allocated'
         /\ document'[o] = d /\ objectCache'[d] = o
         /\ OthersKept(d)
<1>1. CASE Instantiate(o, d, FALSE, FALSE)
  <2>1. Initialise(o, d)
    BY <1>1 DEF Instantiate
  <2>2. isNewObject' \in [Objs -> BOOLEAN] /\ needsSave' \in [Objs -> BOOLEAN]
    BY <1>1 DEF Instantiate, ObjectInv, ObjectTypes
  <2> QED
    BY <2>1, <2>2, InitialiseObjects
<1>2. CASE modelObject[d] # None /\ o = modelObject[d] /\ UNCHANGED objects
  <2>1. ObjectInv'
    BY <1>2 DEF ObjectInv, ObjectTypes, Uniquing, objects
  <2> QED
    BY <1>2, <2>1 DEF ObjectInv, Uniquing, OthersKept, objects
<1> QED
  BY <1>1, <1>2, ZenonT(30) DEF ModelForDocument

\* The object invariant and the cached objects do not depend on which objects
\* are dirty or new.
LEMMA FlagsObjects ==
  ASSUME ObjectInv,
         UNCHANGED <<document, documentID, modelObject, objectCache, allocated>>,
         isNewObject' \in [Objs -> BOOLEAN], needsSave' \in [Objs -> BOOLEAN]
  PROVE  ObjectInv'
BY DEF ObjectInv, ObjectTypes, Uniquing

\* Re-attaching a cached object whose document lost its model object, as a query
\* row does, keeps the object invariant.
LEMMA ReattachObjects ==
  ASSUME ObjectInv, NEW d \in Docs, modelObject[d] = None, objectCache[d] # None,
         Attach(objectCache[d], d),
         UNCHANGED <<documentID, allocated, isNewObject, needsSave>>
  PROVE  ObjectInv' /\ document'[objectCache'[d]] = d /\ OthersKept(d)
<1> DEFINE o == objectCache[d]
<1>1. o \in allocated /\ documentID[o] = d /\ document[o] = None /\ o \in Objs
  BY NoneAssumption DEF ObjectInv, ObjectTypes, Uniquing
<1>2. ObjectTypes'
  BY <1>1 DEF ObjectInv, ObjectTypes, Attach
<1>3. Uniquing'
  BY <1>1, NoneAssumption DEF ObjectInv, ObjectTypes, Uniquing, Attach
<1>4. ObjectInv'
  BY <1>1, <1>2, <1>3 DEF ObjectInv, ObjectTypes, Attach
<1> QED
  BY <1>1, <1>4 DEF ObjectInv, ObjectTypes, Attach, OthersKept

-----------------------------------------------------------------------------

\* Writing a revision queues a change of its document and concerns no other.
LEMMA WriteStore ==
  ASSUME OtherTypes, NEW d \in Docs, NEW isDeletion \in BOOLEAN, Write(d, isDeletion)
  PROVE  /\ rev' \in [Docs -> [gen : 0..MaxGen, deleted : BOOLEAN]]
         /\ pending' \in Seq([doc : Docs, gen : 1..MaxGen])
         /\ Unannounced(d)'
         /\ \A e \in Docs \ {d} : rev'[e] = rev[e] /\ (Unannounced(e) => Unannounced(e)')
<1> DEFINE c == [doc |-> d, gen |-> rev[d].gen + 1]
<1>1. rev[d].gen \in 0..MaxGen /\ rev[d].gen < MaxGen
  BY DEF OtherTypes, Write
<1>2. rev[d].gen + 1 \in 1..MaxGen
  BY <1>1, MaxGenAssumption
<1>3. c \in [doc : Docs, gen : 1..MaxGen]
  BY <1>2
<1>4. pending' = Append(pending, c) /\ pending \in Seq([doc : Docs, gen : 1..MaxGen])
  BY DEF Write, OtherTypes
<1>5. pending' \in Seq([doc : Docs, gen : 1..MaxGen])
  BY <1>3, <1>4
<1>6. rev' \in [Docs -> [gen : 0..MaxGen, deleted : BOOLEAN]]
  BY <1>2, MaxGenAssumption DEF Write, OtherTypes
<1>7. /\ Len(pending') = Len(pending) + 1 /\ Len(pending) \in Nat
      /\ pending'[Len(pending) + 1] = c
      /\ \A i \in 1..Len(pending) : pending'[i] = pending[i]
  BY <1>3, <1>4
<1>8. Unannounced(d)'
  BY <1>7 DEF Unannounced
<1>9. \A e \in Docs : Unannounced(e) => Unannounced(e)'
  BY <1>7 DEF Unannounced
<1> QED
  BY <1>5, <1>6, <1>8, <1>9 DEF Write, OtherTypes

\* A step that writes no revision, and attaches what it caches, leaves no stale
\* object in the cache.
LEMMA NoStaleHitKept ==
  ASSUME NoStaleHit, NEW d \in Docs, UNCHANGED store, OthersKept(d),
         objectCache'[d] # None =>
           \/ document'[objectCache'[d]] = d
           \/ objectCache'[d] = objectCache[d] /\ document'[objectCache[d]] = document[objectCache[d]]
  PROVE  NoStaleHit'
BY DEF NoStaleHit, OthersKept, Live, Exists, Unannounced, store

\* Neither does a step that touches neither the store nor the cached objects.
LEMMA NoStaleHitSame ==
  ASSUME NoStaleHit, UNCHANGED <<store, document, objectCache>>
  PROVE  NoStaleHit'
BY DEF NoStaleHit, Live, Exists, Unannounced, store

\* Nor a step that writes a revision, whose change is then still to be handled.
LEMMA NoStaleHitWrite ==
  ASSUME NoStaleHit, OtherTypes, NEW d \in Docs, NEW isDeletion \in BOOLEAN,
         Write(d, isDeletion), OthersKept(d)
  PROVE  NoStaleHit'
BY WriteStore DEF NoStaleHit, OthersKept, Live, Exists

\* Moving a thread keeps the types of the locals.
LEMMA GotoTypes ==
  ASSUME OtherTypes, NEW t \in Threads, NEW step \in Steps,
         NEW d \in Docs \cup {None}, NEW o \in Objs \cup {None}, Goto(t, step, d, o)
  PROVE  /\ pc' \in [Threads -> Steps]
         /\ doc' \in [Threads -> Docs \cup {None}]
         /\ obj' \in [Threads -> Objs \cup {None}]
BY DEF OtherTypes, Goto

\* Moving a thread to a step whose locals are set keeps ThreadInv.
LEMMA GotoThread ==
  ASSUME OtherTypes, ThreadInv, allocated \subseteq allocated',
         NEW t \in Threads, NEW step, NEW d, NEW o, Goto(t, step, d, o),
         step \in {"commit", "completed", "setValues", "saveModels"} => o \in allocated',
         step \in {"lookup", "model", "row", "import", "importModel", "importNew"} => d \in Docs
  PROVE  ThreadInv'
BY DEF OtherTypes, ThreadInv, Goto

\* Posting a notification keeps the types of what is recorded about it.
LEMMA AnnounceTypes ==
  ASSUME OtherTypes, NEW d \in Docs, NEW kind \in {"Add", "Update", "Remove"},
         Announce(d, kind)
  PROVE  posted' \in [Docs -> {"None", "Add", "Update", "Remove"}] /\ added' \subseteq Docs
BY DEF OtherTypes, Announce

-----------------------------------------------------------------------------
(* The steps of a thread *)

\* Starting a save, a fetch, a query or an import changes only the thread.
LEMMA StartStep ==
  ASSUME IInv, NEW t \in Threads, UNCHANGED <<store, objects, notices>>,
         NEW step \in Steps, NEW d \in Docs \cup {None}, NEW o \in Objs \cup {None},
         Goto(t, step, d, o),
         step \in {"commit", "completed", "setValues", "saveModels"} => o \in allocated,
         step \in {"lookup", "model", "row", "import", "importModel", "importNew"} => d \in Docs
  PROVE  IInv'
<1>1. ObjectInv'
  BY DEF IInv, ObjectInv, ObjectTypes, Uniquing, objects
<1>2. OtherTypes'
  BY GotoTypes, ZenonT(30) DEF IInv, OtherTypes, store, notices
<1>3. ThreadInv'
  BY GotoThread DEF IInv, objects
<1>4. NoStaleHit'
  BY NoStaleHitSame DEF IInv, objects
<1> QED
  BY <1>1, <1>2, <1>3, <1>4 DEF IInv

\* Returning from an operation that made or found an object of document d.
LEMMA ReturnStep ==
  ASSUME IInv, NEW t \in Threads, NEW d \in Docs, ObjectInv', OthersKept(d),
         allocated \subseteq allocated', UNCHANGED <<store, notices>>,
         NEW step \in Steps, NEW e \in Docs \cup {None}, NEW o \in Objs \cup {None},
         Goto(t, step, e, o),
         step \in {"commit", "completed", "setValues", "saveModels"} => o \in allocated',
         step \notin {"lookup", "model", "row", "import", "importModel", "importNew"},
         document'[objectCache'[d]] = d
  PROVE  IInv'
<1>1. OtherTypes'
  BY GotoTypes, ZenonT(30) DEF IInv, OtherTypes, store, notices
<1>2. ThreadInv'
  BY GotoThread DEF IInv
<1>3. NoStaleHit'
  BY NoStaleHitKept DEF IInv
<1> QED
  BY <1>1, <1>2, <1>3 DEF IInv

\* -initWithNewDocumentForController:properties:documentID: keeps the invariant.
LEMMA NewObjectStep ==
  ASSUME IInv, NEW t \in Threads, NEW o \in Objs, NEW d \in Docs, NewObject(t, o, d)
  PROVE  IInv'
<1>1. Initialise(o, d) /\ UNCHANGED <<store, notices, locals>>
  BY DEF NewObject, Instantiate
<1>2. isNewObject' \in [Objs -> BOOLEAN] /\ needsSave' \in [Objs -> BOOLEAN]
  BY DEF NewObject, Instantiate, IInv, ObjectInv, ObjectTypes
<1>3. /\ ObjectInv' /\ allocated \subseteq allocated' /\ OthersKept(d)
      /\ document'[objectCache'[d]] = d
  BY <1>1, <1>2, InitialiseObjects DEF IInv
<1>4. OtherTypes' /\ ThreadInv'
  BY <1>1, <1>3 DEF IInv, OtherTypes, ThreadInv, store, notices, locals
<1>5. NoStaleHit'
  BY <1>1, <1>3, NoStaleHitKept DEF IInv
<1> QED
  BY <1>3, <1>4, <1>5 DEF IInv

\* -setValue:ofProperty: keeps the invariant.
LEMMA SetValueStep ==
  ASSUME IInv, NEW t \in Threads, NEW o \in Objs, SetValue(t, o)
  PROVE  IInv'
<1>1. isNewObject' \in [Objs -> BOOLEAN] /\ needsSave' \in [Objs -> BOOLEAN]
  BY DEF SetValue, IInv, ObjectInv, ObjectTypes
<1>2. ObjectInv'
  BY <1>1, FlagsObjects DEF SetValue, IInv
<1>3. OtherTypes' /\ ThreadInv'
  BY DEF SetValue, IInv, OtherTypes, ThreadInv, store, notices, locals
<1>4. NoStaleHit'
  BY NoStaleHitSame DEF SetValue, IInv
<1> QED
  BY <1>2, <1>3, <1>4 DEF IInv

\* Starting -save: or +saveModels:error: keeps the invariant.
LEMMA SaveStep ==
  ASSUME IInv, NEW t \in Threads, NEW o \in Objs, Save(t, o) \/ SaveModels(t, o)
  PROVE  IInv'
BY StartStep DEF Save, SaveModels, Steps

\* Starting a fetch, a query or an import keeps the invariant.
LEMMA FindStep ==
  ASSUME IInv, NEW t \in Threads, NEW d \in Docs, Fetch(t, d) \/ Query(t, d) \/ Import(t, d)
  PROVE  IInv'
BY StartStep DEF Fetch, Query, Import, Steps

\* The block of -save: keeps the invariant, whether it writes, finds nothing
\* to write or fails.
LEMMA CommitStep ==
  ASSUME IInv, NEW t \in Threads, CommitNothing(t) \/ Commit(t) \/ CommitFails(t)
  PROVE  IInv'
<1> DEFINE o == obj[t]
<1>1. pc[t] = "commit" /\ o \in allocated /\ o \in Objs
  BY ZenonT(30) DEF CommitNothing, Commit, CommitFails, IInv, ThreadInv, ObjectInv, ObjectTypes
<1>2. CASE CommitNothing(t)
  BY <1>1, <1>2, StartStep DEF CommitNothing, Steps
<1>3. CASE CommitFails(t)
  BY <1>1, <1>3, StartStep DEF CommitFails, Return, Steps
<1>4. CASE Commit(t)
  <2>1. document[o] \in Docs /\ Write(document[o], FALSE)
    BY <1>1, <1>4, ZenonT(30) DEF Commit, IInv, ObjectInv, ObjectTypes
  <2>2. PICK d \in Docs : d = document[o]
    BY <2>1
  <2>3. PICK isDeletion \in BOOLEAN : Write(d, isDeletion)
    BY ZenonT(30), <2>1, <2>2
  <2>4. Goto(t, "completed", None, o)
    BY <1>4 DEF Commit
  <2>5. isNewObject' \in [Objs -> BOOLEAN] /\ needsSave' \in [Objs -> BOOLEAN]
    BY <1>4, ZenonT(30) DEF Commit, IInv, ObjectInv, ObjectTypes
  <2>6. ObjectInv'
    BY <1>4, <2>5, FlagsObjects DEF Commit, IInv
  <2>7. OtherTypes'
    BY <1>1, <1>4, <2>3, <2>4, WriteStore, GotoTypes, ZenonT(30) DEF Commit, IInv, OtherTypes, Steps, notices
  <2>8. ThreadInv'
    BY <1>1, <1>4, <2>4, GotoThread DEF Commit, IInv
  <2>9. NoStaleHit'
    BY <1>4, <2>3, NoStaleHitWrite DEF Commit, IInv, OthersKept
  <2> QED
    BY <2>6, <2>7, <2>8, <2>9 DEF IInv
<1> QED
  BY <1>2, <1>3, <1>4

\* -saveCompleted keeps the invariant.
LEMMA SaveCompletedStep ==
  ASSUME IInv, NEW t \in Threads, SaveCompleted(t)
  PROVE  IInv'
<1> DEFINE o == obj[t]
<1>1. o \in allocated /\ documentID[o] \in Docs
  BY DEF SaveCompleted, IInv, ThreadInv, ObjectInv
<1>2. PICK kind \in {"Add", "Update", "Remove"} : Announce(documentID[o], kind)
  BY DEF SaveCompleted
<1>3. Goto(t, "idle", None, None)
  BY DEF SaveCompleted, Return
<1>4. isNewObject' \in [Objs -> BOOLEAN] /\ needsSave' \in [Objs -> BOOLEAN]
  BY ZenonT(30) DEF SaveCompleted, IInv, ObjectInv, ObjectTypes
<1>5. ObjectInv'
  BY <1>4, FlagsObjects DEF SaveCompleted, IInv
<1>6. overtaken' \subseteq Docs
  BY <1>1 DEF SaveCompleted, IInv, OtherTypes
<1>7. OtherTypes'
  BY ZenonT(30), <1>1, <1>2, <1>3, <1>6, AnnounceTypes, GotoTypes
     DEF SaveCompleted, IInv, OtherTypes, Steps, store
<1>8. ThreadInv'
  BY <1>3, GotoThread DEF SaveCompleted, IInv
<1>9. NoStaleHit'
  BY NoStaleHitSame DEF SaveCompleted, IInv
<1> QED
  BY <1>5, <1>7, <1>8, <1>9 DEF IInv

\* The block of +saveModels:error: keeps the invariant.
LEMMA CommitModelsStep ==
  ASSUME IInv, NEW t \in Threads, CommitModels(t)
  PROVE  IInv'
<1> DEFINE o == obj[t]
<1>1. o \in allocated /\ o \in Objs
  BY DEF CommitModels, IInv, ThreadInv, ObjectInv, ObjectTypes
<1>2. Goto(t, "idle", None, None)
  BY DEF CommitModels, Return
<1>3. isNewObject' \in [Objs -> BOOLEAN] /\ needsSave' \in [Objs -> BOOLEAN]
  BY ZenonT(30) DEF CommitModels, IInv, ObjectInv, ObjectTypes
<1>4. ObjectInv'
  BY <1>3, FlagsObjects DEF CommitModels, IInv
<1>5. ThreadInv'
  BY <1>2, GotoThread DEF CommitModels, IInv
<1>6. CASE document[o] # None /\ Write(document[o], FALSE)
  <2>1. document[o] \in Docs
    BY <1>1, <1>6 DEF IInv, ObjectInv, ObjectTypes
  <2>2. PICK d \in Docs, isDeletion \in BOOLEAN : Write(d, isDeletion)
    BY ZenonT(30), <1>6, <2>1
  <2>3. OtherTypes'
    BY <1>2, <2>2, WriteStore, GotoTypes, ZenonT(30) DEF CommitModels, IInv, OtherTypes, Steps, notices
  <2>4. NoStaleHit'
    BY <2>2, NoStaleHitWrite DEF CommitModels, IInv, OthersKept
  <2> QED
    BY <1>4, <1>5, <2>3, <2>4 DEF IInv
<1>7. CASE UNCHANGED <<store, needsSave>>
  <2>1. OtherTypes'
    BY <1>2, <1>7, GotoTypes, ZenonT(30) DEF CommitModels, IInv, OtherTypes, Steps, notices, store
  <2>2. NoStaleHit'
    BY <1>7, NoStaleHitSame DEF CommitModels, IInv
  <2> QED
    BY <1>4, <1>5, <2>1, <2>2 DEF IInv
<1> QED
  BY <1>6, <1>7, ZenonT(30) DEF CommitModels

\* -deleteDocument: keeps the invariant: the object it detaches stays cached,
\* and the deletion it writes is still to be handled.
LEMMA DeleteDocumentStep ==
  ASSUME IInv, NEW t \in Threads, NEW o \in Objs, DeleteDocument(t, o)
  PROVE  IInv'
<1>1. PICK d \in Docs : d = document[o]
  BY DEF DeleteDocument, IInv, ObjectInv, ObjectTypes
<1>2. PICK isDeletion \in BOOLEAN : Write(d, isDeletion)
  BY <1>1, ZenonT(30) DEF DeleteDocument
<1>3. PICK kind \in {"Add", "Update", "Remove"} : Announce(d, kind)
  BY <1>1 DEF DeleteDocument, Post
<1>4. modelObject[d] = o /\ documentID[o] = d /\ objectCache[d] = o
  BY <1>1, NoneAssumption DEF IInv, ObjectInv, Uniquing
<1>5. ObjectTypes'
  BY <1>1 DEF DeleteDocument, IInv, ObjectInv, ObjectTypes
<1>6. Uniquing'
  BY <1>1, <1>4, NoneAssumption DEF DeleteDocument, IInv, ObjectInv, ObjectTypes, Uniquing
<1>7. ObjectInv'
  BY <1>5, <1>6 DEF DeleteDocument, IInv, ObjectInv, ObjectTypes
<1>8. OthersKept(d)
  BY <1>4 DEF DeleteDocument, IInv, ObjectInv, ObjectTypes, OthersKept
<1>9. OtherTypes'
  BY <1>2, <1>3, WriteStore, AnnounceTypes, ZenonT(30) DEF DeleteDocument, Post, IInv, OtherTypes, locals
<1>10. ThreadInv'
  BY DEF DeleteDocument, IInv, ThreadInv, locals
<1>11. NoStaleHit'
  BY <1>2, <1>8, NoStaleHitWrite DEF IInv
<1> QED
  BY <1>7, <1>9, <1>10, <1>11 DEF IInv

\* A thread that found no object, or gave up, returns.
LEMMA IdleStep ==
  ASSUME IInv, NEW t \in Threads, Return(t), UNCHANGED <<store, objects, notices>>
  PROVE  IInv'
BY StartStep DEF Return, Steps

\* A step that ends with an object of document d in the thread's hands, from
\* +modelForDocument:, keeps the invariant.
LEMMA ModelStep ==
  ASSUME IInv, NEW t \in Threads, NEW d \in Docs, NEW o \in Objs,
         ModelForDocument(o, d), UNCHANGED <<store, notices>>,
         Return(t) \/ Goto(t, "setValues", None, o)
  PROVE  IInv'
<1>1. /\ ObjectInv' /\ allocated \subseteq allocated' /\ o \in allocated'
      /\ document'[objectCache'[d]] = d /\ OthersKept(d)
  BY ModelForDocumentObjects DEF IInv
<1>2. CASE Return(t)
  BY <1>1, <1>2, ReturnStep DEF Return, Steps
<1>3. CASE Goto(t, "setValues", None, o)
  BY <1>1, <1>3, ReturnStep DEF Steps
<1> QED
  BY <1>2, <1>3

\* The two blocks of -objectWithIdentifier: keep the invariant.
LEMMA FetchStep ==
  ASSUME IInv, NEW t \in Threads, FetchDocument(t) \/ FetchModel(t)
  PROVE  IInv'
<1>1. doc[t] \in Docs
  BY ZenonT(30) DEF FetchDocument, FetchModel, IInv, ThreadInv
<1>2. CASE FetchDocument(t)
  BY <1>1, <1>2, StartStep, IdleStep DEF FetchDocument, Steps
<1>3. CASE FetchModel(t)
  <2>1. CASE UNCHANGED objects
    BY <1>3, <2>1, IdleStep, ZenonT(30) DEF FetchModel
  <2>2. CASE \E o \in Objs : ModelForDocument(o, doc[t])
    <3>1. PICK o \in Objs : ModelForDocument(o, doc[t])
      BY ZenonT(30), <2>2
    <3> QED
      BY <1>1, <1>3, <3>1, ModelStep DEF FetchModel
  <2> QED
    BY <1>3, <2>1, <2>2, ZenonT(30) DEF FetchModel
<1> QED
  BY <1>2, <1>3

\* Turning a query row into an object keeps the invariant.
LEMMA QueryRowStep ==
  ASSUME IInv, NEW t \in Threads, QueryRow(t)
  PROVE  IInv'
<1> DEFINE d == doc[t]
<1>1. d \in Docs
  BY ZenonT(30) DEF QueryRow, IInv, ThreadInv
<1>2. CASE UNCHANGED objects
  BY <1>2, IdleStep, ZenonT(30) DEF QueryRow
<1>3. CASE /\ modelObject[d] = None /\ objectCache[d] # None
           /\ Attach(objectCache[d], d)
           /\ UNCHANGED <<documentID, allocated, isNewObject, needsSave>>
  <2>1. ObjectInv' /\ document'[objectCache'[d]] = d /\ OthersKept(d)
    BY <1>1, <1>3, ReattachObjects, ZenonT(30) DEF IInv
  <2> QED
    BY <1>1, <1>3, <2>1, ReturnStep, ZenonT(60) DEF QueryRow, Return, Steps
<1>4. CASE \E o \in Objs : ModelForDocument(o, d)
  <2>1. PICK o \in Objs : ModelForDocument(o, d)
    BY ZenonT(30), <1>4
  <2> QED
    BY <1>1, <2>1, ModelStep DEF QueryRow
<1> QED
  BY <1>2, <1>3, <1>4, ZenonT(30) DEF QueryRow

\* Importing a record keeps the invariant.
LEMMA ImportStep ==
  ASSUME IInv, NEW t \in Threads,
         ImportDocument(t) \/ ImportModel(t) \/ ImportNew(t) \/ ImportValues(t)
  PROVE  IInv'
<1>1. CASE ImportDocument(t)
  <2>1. doc[t] \in Docs
    BY <1>1, ZenonT(30) DEF ImportDocument, IInv, ThreadInv
  <2>2. modelObject[doc[t]] # None => modelObject[doc[t]] \in allocated \cap Objs
    BY <2>1, NoneAssumption DEF IInv, ObjectInv, ObjectTypes, Uniquing
  <2> QED
    BY <1>1, <2>1, <2>2, StartStep DEF ImportDocument, Steps
<1>2. CASE ImportModel(t)
  <2>1. doc[t] \in Docs
    BY <1>2, ZenonT(30) DEF ImportModel, IInv, ThreadInv
  <2>2. CASE Return(t) /\ UNCHANGED objects
    BY <1>2, <2>2, IdleStep DEF ImportModel
  <2>3. ASSUME NEW o \in Objs, ModelForDocument(o, doc[t]), Goto(t, "setValues", None, o)
        PROVE  IInv'
    BY <1>2, <2>1, <2>3, ModelStep, ZenonT(30) DEF ImportModel
  <2> QED
    BY <1>2, <2>2, <2>3, ZenonT(30) DEF ImportModel
<1>3. CASE ImportNew(t)
  <2> DEFINE d == doc[t]
  <2>1. d \in Docs
    BY <1>3, ZenonT(30) DEF ImportNew, IInv, ThreadInv
  <2>2. CASE Return(t) /\ UNCHANGED objects
    BY <1>3, <2>2, IdleStep DEF ImportNew
  <2>3. ASSUME NEW o \in Objs, Instantiate(o, d, TRUE, TRUE), Goto(t, "saveModels", None, o)
        PROVE  IInv'
    <3>1. Initialise(o, d)
      BY <2>3 DEF Instantiate
    <3>2. isNewObject' \in [Objs -> BOOLEAN] /\ needsSave' \in [Objs -> BOOLEAN]
      BY <2>3, ZenonT(30) DEF Instantiate, IInv, ObjectInv, ObjectTypes
    <3>3. /\ ObjectInv' /\ allocated \subseteq allocated' /\ o \in allocated'
          /\ document'[objectCache'[d]] = d /\ OthersKept(d)
      BY <2>1, <3>1, <3>2, InitialiseObjects DEF IInv
    <3> QED
      BY <1>3, <2>1, <2>3, <3>3, ReturnStep DEF ImportNew, Steps
  <2> QED
    BY <1>3, <2>2, <2>3, ZenonT(30) DEF ImportNew
<1>4. CASE ImportValues(t)
  <2>1. obj[t] \in allocated /\ obj[t] \in Objs
    BY <1>4, ZenonT(30) DEF ImportValues, IInv, ThreadInv, ObjectInv, ObjectTypes
  <2>2. needsSave' \in [Objs -> BOOLEAN] /\ isNewObject' \in [Objs -> BOOLEAN]
    BY <1>4, ZenonT(30) DEF ImportValues, IInv, ObjectInv, ObjectTypes
  <2>3. ObjectInv'
    BY <1>4, <2>2, FlagsObjects, ZenonT(30) DEF ImportValues, IInv
  <2>4. OtherTypes'
    BY <1>4, <2>1, GotoTypes, ZenonT(30) DEF ImportValues, IInv, OtherTypes, store, notices, Steps
  <2>5. ThreadInv'
    BY <1>4, <2>1, GotoThread DEF ImportValues, IInv
  <2>6. NoStaleHit'
    BY <1>4, NoStaleHitSame DEF ImportValues, IInv
  <2> QED
    BY <2>3, <2>4, <2>5, <2>6 DEF IInv
<1> QED
  BY <1>1, <1>2, <1>3, <1>4

-----------------------------------------------------------------------------
(* The steps of the database *)

\* Taking the first element of a queue.
LEMMA HeadTail ==
  ASSUME NEW S, NEW q \in Seq(S), q # <<>>
  PROVE  /\ Head(q) \in S /\ Head(q) = q[1] /\ Tail(q) \in Seq(S)
         /\ \A i \in 1..Len(q) : i = 1 \/ (i - 1 \in 1..Len(Tail(q)) /\ Tail(q)[i - 1] = q[i])
OBVIOUS

\* A pulled revision keeps the invariant.
LEMMA PullRevisionStep ==
  ASSUME IInv, NEW d \in Docs, NEW isDeletion \in BOOLEAN, PullRevision(d, isDeletion)
  PROVE  IInv'
<1>1. Write(d, isDeletion)
  BY DEF PullRevision
<1>2. objectCache' = objectCache
  BY DEF PullRevision, IInv, ObjectInv, ObjectTypes, Uniquing
<1>3. ObjectInv'
  BY <1>2, FlagsObjects, ZenonT(30) DEF PullRevision, IInv, ObjectInv, ObjectTypes
<1>4. posted' \in [Docs -> {"None", "Add", "Update", "Remove"}]
      /\ added' \subseteq Docs /\ overtaken' \subseteq Docs
  <2>1. CASE UNCHANGED notices
    BY <2>1 DEF IInv, OtherTypes, notices
  <2>2. CASE Post(d, ChangeType(rev'[d]))
    <3>1. ChangeType(rev'[d]) \in {"Add", "Update", "Remove"}
      BY DEF ChangeType
    <3> QED
      BY <2>2, <3>1, AnnounceTypes DEF Post, IInv, OtherTypes
  <2> QED
    BY <2>1, <2>2 DEF PullRevision
<1>5. OtherTypes'
  BY <1>1, <1>4, WriteStore, ZenonT(30) DEF PullRevision, IInv, OtherTypes, locals
<1>6. ThreadInv'
  BY DEF PullRevision, IInv, ThreadInv, locals
<1>7. NoStaleHit'
  BY <1>1, <1>2, NoStaleHitWrite DEF PullRevision, IInv, OthersKept
<1> QED
  BY <1>3, <1>5, <1>6, <1>7 DEF IInv

\* Handling one queued change keeps the invariant: the change of a live document
\* leaves an attached object in the cache before it leaves the queue.
LEMMA DatabaseDidChangeStep ==
  ASSUME IInv, DatabaseDidChange
  PROVE  IInv'
<1> DEFINE Changes == [doc : Docs, gen : 1..MaxGen]
           d == Head(pending).doc
<1>1. /\ pending \in Seq(Changes) /\ pending # <<>>
      /\ pending' = Tail(pending) /\ rev' = rev /\ UNCHANGED locals
  BY DEF DatabaseDidChange, IInv, OtherTypes
<1>2. /\ Head(pending) \in Changes /\ Head(pending) = pending[1]
      /\ pending' \in Seq(Changes)
  BY ZenonT(30), <1>1, HeadTail
<1>3. d \in Docs
  BY <1>2
<1>4. \A i \in 1..Len(pending) : i = 1 \/ (i - 1 \in 1..Len(pending') /\ pending'[i - 1] = pending[i])
  BY <1>1, HeadTail
<1>5. \A e \in Docs \ {d} : Unannounced(e) => Unannounced(e)'
  BY <1>2, <1>4, ZenonT(30) DEF Unannounced
<1>6. /\ ObjectInv' /\ allocated \subseteq allocated' /\ OthersKept(d)
      /\ Live(d) => document'[objectCache'[d]] = d
  <2>1. CASE DocumentChanged(Head(pending))
    <3>1. PICK o \in Objs : ModelForDocument(o, d)
      BY <2>1, ZenonT(30) DEF DocumentChanged
    <3> QED
      BY <1>3, <3>1, ModelForDocumentObjects DEF IInv
  <2>2. CASE DocumentDeleted(Head(pending))
    <3>1. UNCHANGED objects /\ ~Live(d)
      BY <2>2 DEF DocumentDeleted, Live
    <3> QED
      BY <3>1, FlagsObjects, ZenonT(30) DEF IInv, ObjectInv, ObjectTypes, objects, OthersKept
  <2> QED
    BY <2>1, <2>2 DEF DatabaseDidChange
<1>7. posted' \in [Docs -> {"None", "Add", "Update", "Remove"}]
      /\ added' \subseteq Docs /\ overtaken' \subseteq Docs
  <2>1. CASE UNCHANGED notices
    BY <2>1 DEF IInv, OtherTypes, notices
  <2>2. CASE Post(d, ChangeType(rev[d])) \/ Post(d, "Remove")
    <3>1. ChangeType(rev[d]) \in {"Add", "Update", "Remove"}
      BY DEF ChangeType
    <3> QED
      BY <1>3, <2>2, <3>1, AnnounceTypes DEF Post, IInv, OtherTypes
  <2> QED
    BY <2>1, <2>2, ZenonT(30) DEF DatabaseDidChange, DocumentChanged, DocumentDeleted
<1>8. OtherTypes'
  BY <1>1, <1>2, <1>7 DEF IInv, OtherTypes, locals
<1>9. ThreadInv'
  BY <1>1, <1>6 DEF IInv, ThreadInv, locals
<1>10. NoStaleHit'
  BY <1>1, <1>5, <1>6 DEF IInv, NoStaleHit, OthersKept, Live, Exists
<1> QED
  BY <1>6, <1>8, <1>9, <1>10 DEF IInv

-----------------------------------------------------------------------------

\* The invariant holds initially.
LEMMA InitIInv == Init => IInv
<1> SUFFICES ASSUME Init PROVE IInv
  OBVIOUS
<1>1. ObjectInv
  BY DEF Init, ObjectInv, ObjectTypes, Uniquing
<1>2. OtherTypes
  BY MaxGenAssumption DEF Init, OtherTypes, Steps
<1>3. ThreadInv
  BY DEF Init, ThreadInv
<1>4. NoStaleHit
  BY DEF Init, NoStaleHit
<1> QED
  BY <1>1, <1>2, <1>3, <1>4 DEF IInv

\* Every step keeps the invariant.
LEMMA NextIInv == IInv /\ [Next]_vars => IInv'
<1> SUFFICES ASSUME IInv, [Next]_vars PROVE IInv'
  OBVIOUS
<1>1. CASE UNCHANGED vars
  <2>1. UNCHANGED <<store, objects, notices, locals>>
    BY <1>1 DEF vars
  <2>2. ObjectInv'
    BY <2>1, FlagsObjects DEF IInv, ObjectInv, ObjectTypes, objects
  <2>3. OtherTypes' /\ ThreadInv'
    BY <2>1 DEF IInv, OtherTypes, ThreadInv, store, notices, locals, objects
  <2>4. NoStaleHit'
    BY <2>1, NoStaleHitSame DEF IInv, objects
  <2> QED
    BY <2>2, <2>3, <2>4 DEF IInv
<1>2. ASSUME NEW t \in Threads, Start(t) PROVE IInv'
  BY <1>2, NewObjectStep, SetValueStep, SaveStep, DeleteDocumentStep, FindStep DEF Start
<1>3. ASSUME NEW t \in Threads, Continue(t) PROVE IInv'
  BY <1>3, CommitStep, SaveCompletedStep, CommitModelsStep, FetchStep, QueryRowStep,
     ImportStep DEF Continue
<1>4. ASSUME NEW d \in Docs, NEW isDeletion \in BOOLEAN, PullRevision(d, isDeletion) PROVE IInv'
  BY <1>4, PullRevisionStep
<1>5. CASE DatabaseDidChange
  BY <1>5, DatabaseDidChangeStep
<1> QED
  BY <1>1, <1>2, <1>3, <1>4, <1>5 DEF Next

\* The state keeps its types.
THEOREM TypeCorrect == Spec => []TypeOK
<1>1. IInv => TypeOK
  BY ZenonT(30) DEF IInv, ObjectInv, ObjectTypes, OtherTypes, TypeOK
<1> QED
  BY InitIInv, NextIInv, <1>1, PTL DEF Spec

\* However many threads create, fetch, query, import, save and delete, a
\* document has at most one attached object and the cache hands out that one.
THEOREM OneObjectPerDocument == Spec => []Uniquing
<1>1. IInv => Uniquing
  BY DEF IInv, ObjectInv
<1> QED
  BY InitIInv, NextIInv, <1>1, PTL DEF Spec

\* Once the queued changes of a live document are handled, a cache hit is never
\* an object left over from before the document was deleted and came back.
THEOREM CacheHitsAreAttached == Spec => []NoStaleHit
<1>1. IInv => NoStaleHit
  BY DEF IInv
<1> QED
  BY InitIInv, NextIInv, <1>1, PTL DEF Spec

-----------------------------------------------------------------------------
(* What observers are told *)

Told(d) == posted[d] \in {"Add", "Update"}

\* ObserversAgree document by document, while other things are in flight: a live
\* document is told of or has a change queued, and one that is told of is live and
\* has its model object, whose removal would be posted.
NoticeInv ==
  /\ \A d \in Docs : Live(d) /\ ~Unannounced(d) => Told(d)
  /\ \A d \in Docs : Told(d) /\ d \notin overtaken => Live(d) /\ modelObject[d] # None

\* A save that has passed its block, or that will find nothing left to write, is of
\* a document that has been written, and so is an object that lost its document.
CommitInv ==
  /\ \A t \in Threads :
       /\ pc[t] = "completed" => Exists(documentID[obj[t]])
       /\ pc[t] = "commit" => needsSave[obj[t]] \/ Exists(documentID[obj[t]])
  /\ \A o \in allocated : document[o] = None => Exists(documentID[o])

\* Model objects stay where they are.
ModelsKept == \A d \in Docs : modelObject[d] # None => modelObject'[d] # None

\* Documents go on to exist, objects keep their identifier, and an object becomes
\* clean, or loses its document, only when the document exists.
SavesKept ==
  /\ \A d \in Docs : Exists(d) => Exists(d)'
  /\ \A o \in allocated : documentID'[o] = documentID[o]
  /\ \A o \in allocated : needsSave[o] => needsSave'[o] \/ Exists(documentID[o])'
  /\ \A o \in allocated' : document'[o] = None =>
       o \in allocated /\ (document[o] = None \/ Exists(documentID[o])')

\* A step that neither writes nor posts, and takes no model object away.
LEMMA NoticeSame ==
  ASSUME NoticeInv, UNCHANGED <<store, notices>>, ModelsKept
  PROVE  NoticeInv'
BY DEF NoticeInv, Live, Exists, Unannounced, Told, store, notices, ModelsKept

\* Writing a revision that deletes nothing, before it is announced.
LEMMA NoticeWrite ==
  ASSUME NoticeInv, OtherTypes, NEW d \in Docs, NEW isDeletion \in BOOLEAN,
         Write(d, isDeletion), UNCHANGED <<notices, modelObject>>,
         isDeletion => modelObject[d] = None
  PROVE  NoticeInv'
<1>1. /\ Unannounced(d)' /\ rev'[d].deleted = isDeletion
      /\ \A e \in Docs \ {d} : rev'[e] = rev[e] /\ (Unannounced(e) => Unannounced(e)')
  BY WriteStore, ZenonT(30) DEF Write, OtherTypes
<1>2. Exists(d)'
  <2>1. rev'[d].gen = rev[d].gen + 1
    BY ZenonT(30) DEF Write, OtherTypes
  <2>2. rev[d].gen \in 0..MaxGen
    BY ZenonT(30) DEF OtherTypes
  <2> QED
    BY <2>1, <2>2 DEF Exists
<1> QED
  BY <1>1, <1>2 DEF NoticeInv, Live, Exists, Told, notices

\* The objects without a document are kept by the same.
LEMMA DetachedKept ==
  ASSUME ObjectInv, CommitInv, SavesKept
  PROVE  \A o \in allocated' : document'[o] = None => Exists(documentID[o])'
<1> SUFFICES ASSUME NEW o \in allocated', document'[o] = None PROVE Exists(documentID[o])'
  BY ZenonT(30)
<1>1. /\ o \in allocated /\ documentID'[o] = documentID[o] /\ documentID[o] \in Docs
      /\ document[o] = None \/ Exists(documentID[o])'
  BY ZenonT(30) DEF SavesKept, ObjectInv
<1> QED
  BY <1>1, ZenonT(30) DEF CommitInv, SavesKept, Exists

\* The threads' saves are kept by a step in which one thread moves to a step that
\* is of no save, and by one in which none moves.
LEMMA CommitKept ==
  ASSUME OtherTypes, ThreadInv, ObjectInv, CommitInv, SavesKept,
         \/ UNCHANGED locals
         \/ \E t \in Threads, step \in Steps \ {"commit", "completed"} :
              \E d, o : Goto(t, step, d, o)
  PROVE  CommitInv'
<1>0. \A o \in allocated' : document'[o] = None => Exists(documentID[o])'
  BY DetachedKept
<1> SUFFICES ASSUME NEW t \in Threads,
                    pc'[t] \in {"commit", "completed"}
             PROVE  /\ pc'[t] = "completed" => Exists(documentID[obj[t]])'
                    /\ pc'[t] = "commit" => needsSave'[obj'[t]] \/ Exists(documentID[obj[t]])'
  BY <1>0, ZenonT(30) DEF CommitInv
<1>1. pc'[t] = pc[t] /\ obj'[t] = obj[t]
  BY DEF Goto, OtherTypes, locals
<1>2. obj[t] \in allocated /\ documentID[obj[t]] \in Docs
  BY <1>1, ZenonT(30) DEF ThreadInv, ObjectInv
<1>3. documentID'[obj[t]] = documentID[obj[t]]
  BY <1>2 DEF SavesKept
<1> QED
  BY <1>1, <1>2, <1>3, ZenonT(30) DEF CommitInv, SavesKept, Exists

\* Objects that are made, and those that are found, leave the saves alone.
LEMMA SavesKeptModel ==
  ASSUME ObjectInv, NEW o \in Objs, NEW d \in Docs, UNCHANGED rev,
         \/ ModelForDocument(o, d)
         \/ \E new, dirty \in BOOLEAN : Instantiate(o, d, new, dirty)
  PROVE  SavesKept /\ ModelsKept
<1>1. CASE \E new, dirty \in BOOLEAN : Instantiate(o, d, new, dirty)
  <2>1. /\ o \notin allocated /\ allocated' = allocated \cup {o} /\ allocated \subseteq Objs
        /\ document'[o] = d /\ modelObject'[d] = o
        /\ \A p \in Objs \ {o} : document'[p] = document[p] /\ documentID'[p] = documentID[p]
        /\ \A p \in Objs \ {o} : needsSave'[p] = needsSave[p]
        /\ \A e \in Docs \ {d} : modelObject'[e] = modelObject[e]
    BY <1>1 DEF Instantiate, Initialise, Attach, ObjectInv, ObjectTypes
  <2>2. \A e \in Docs : Exists(e) => Exists(e)'
    BY ZenonT(30) DEF Exists
  <2>3. ModelsKept
    BY <2>1, NoneAssumption, ZenonT(30) DEF ModelsKept
  <2>4. \A p \in allocated' : document'[p] = None => p \in allocated /\ document[p] = None
    BY <2>1, NoneAssumption, ZenonT(30)
  <2>5. \A p \in allocated : documentID'[p] = documentID[p] /\ needsSave'[p] = needsSave[p]
    BY <2>1, ZenonT(30)
  <2> QED
    BY <2>2, <2>3, <2>4, <2>5, ZenonT(30) DEF SavesKept
<1>2. CASE ModelForDocument(o, d)
  <2>1. CASE Instantiate(o, d, FALSE, FALSE)
    BY ZenonT(30), <1>1, <2>1
  <2>2. CASE UNCHANGED objects
    BY <2>2, ZenonT(30) DEF SavesKept, ModelsKept, Exists, objects
  <2> QED
    BY <1>2, <2>1, <2>2, ZenonT(30) DEF ModelForDocument
<1> QED
  BY <1>1, <1>2, ZenonT(30)

\* A step that leaves documents and objects alone, or only attaches one.
LEMMA SavesKeptSame ==
  ASSUME UNCHANGED <<rev, documentID, needsSave, allocated>>,
         \A o \in allocated : document'[o] = None => document[o] = None
  PROVE  SavesKept
BY ZenonT(30) DEF SavesKept, Exists

\* Writing a revision of an object's document, which makes the object clean.
LEMMA SavesKeptWrite ==
  ASSUME ObjectInv, OtherTypes, NEW d \in Docs, NEW isDeletion \in BOOLEAN, Write(d, isDeletion),
         UNCHANGED <<documentID, allocated>>,
         \A o \in allocated : needsSave[o] => needsSave'[o] \/ documentID[o] = d,
         \A o \in allocated : document'[o] = None => document[o] = None \/ documentID[o] = d
  PROVE  SavesKept /\ Exists(d)'
<1>1. Exists(d)'
  BY SMTT(30) DEF Write, OtherTypes, Exists
<1>2. \A e \in Docs \ {d} : rev'[e] = rev[e]
  BY DEF Write, OtherTypes
<1> QED
  BY <1>1, <1>2, ZenonT(30) DEF SavesKept, ObjectInv, Exists
-----------------------------------------------------------------------------

NInv == IInv /\ NoticeInv /\ CommitInv

\* A step that neither writes nor posts and moves no thread into a save.
LEMMA QuietStep ==
  ASSUME NInv, UNCHANGED <<store, notices>>, ModelsKept, SavesKept,
         \/ UNCHANGED locals
         \/ \E t \in Threads, step \in Steps \ {"commit", "completed"} :
              \E d, o : Goto(t, step, d, o)
  PROVE  NoticeInv' /\ CommitInv'
BY NoticeSame, CommitKept DEF NInv, IInv

\* What a thread starts, except a deletion, keeps the notices and the saves.
LEMMA StartNotices ==
  ASSUME NInv, NEW t \in Threads, Start(t),
         ~\E o \in Objs : DeleteDocument(t, o)
  PROVE  NoticeInv' /\ CommitInv'
<1>1. ASSUME NEW o \in Objs, SetValue(t, o) PROVE NoticeInv' /\ CommitInv'
  <2>1. SavesKept /\ ModelsKept
    BY <1>1 DEF SetValue, NInv, IInv, ObjectInv, ObjectTypes, SavesKept, ModelsKept, Exists, store
  <2> QED
    BY <1>1, <2>1, QuietStep, ZenonT(30) DEF SetValue
<1>2. ASSUME NEW o \in Objs, Save(t, o) PROVE NoticeInv' /\ CommitInv'
  <2>1. NoticeInv'
    BY <1>2, NoticeSame, ZenonT(30) DEF Save, NInv, ModelsKept, objects
  <2>2. CommitInv'
    BY <1>2, ZenonT(30) DEF Save, Goto, NInv, IInv, OtherTypes, CommitInv, Exists, store, objects
  <2> QED
    BY <2>1, <2>2
<1>3. ASSUME NEW o \in Objs, SaveModels(t, o) PROVE NoticeInv' /\ CommitInv'
  BY <1>3, QuietStep, SavesKeptSame, ZenonT(30) DEF SaveModels, ModelsKept, objects, store, Steps
<1>4. ASSUME NEW o \in Objs, NEW d \in Docs, NewObject(t, o, d) PROVE NoticeInv' /\ CommitInv'
  BY <1>4, QuietStep, SavesKeptModel, ZenonT(30) DEF NewObject, NInv, IInv, store
<1>5. ASSUME NEW d \in Docs, Fetch(t, d) \/ Query(t, d) \/ Import(t, d)
      PROVE  NoticeInv' /\ CommitInv'
  BY <1>5, QuietStep, SavesKeptSame, ZenonT(30) DEF Fetch, Query, Import, ModelsKept, objects, store, Steps
<1> QED
  BY <1>1, <1>2, <1>3, <1>4, <1>5 DEF Start

\* -deleteDocument: posts the removal together with the revision that deletes.
LEMMA DeleteDocumentNotices ==
  ASSUME NInv, NEW t \in Threads, NEW o \in Objs, DeleteDocument(t, o)
  PROVE  NoticeInv' /\ CommitInv'
<1>1. PICK d \in Docs : d = document[o]
  BY DEF DeleteDocument, NInv, IInv, ObjectInv, ObjectTypes
<1>2. PICK isDeletion \in BOOLEAN : Write(d, isDeletion)
  <2>1. Write(d, TRUE)
    BY <1>1, ZenonT(30) DEF DeleteDocument
  <2> QED
    BY ZenonT(30), <2>1
<1>3. /\ Unannounced(d)' /\ posted'[d] = "Remove"
      /\ \A e \in Docs \ {d} : /\ rev'[e] = rev[e] /\ (Unannounced(e) => Unannounced(e)')
                               /\ posted'[e] = posted[e] /\ modelObject'[e] = modelObject[e]
  <2>1. Unannounced(d)' /\ \A e \in Docs \ {d} : rev'[e] = rev[e] /\ (Unannounced(e) => Unannounced(e)')
    <3>1. OtherTypes
      BY ZenonT(30) DEF NInv, IInv
    <3> QED
      BY <1>2, <3>1, WriteStore, ZenonT(30)
  <2>2. posted'[d] = "Remove" /\ \A e \in Docs \ {d} : posted'[e] = posted[e]
    BY <1>1, ZenonT(30) DEF DeleteDocument, Post, Announce, NInv, IInv, OtherTypes
  <2>3. \A e \in Docs \ {d} : modelObject'[e] = modelObject[e]
    BY <1>1, ZenonT(30) DEF DeleteDocument, NInv, IInv, ObjectInv, ObjectTypes
  <2> QED
    BY <2>1, <2>2, <2>3, ZenonT(30)
<1>4. NoticeInv'
  BY <1>3, ZenonT(30) DEF DeleteDocument, Post, NInv, NoticeInv, Live, Exists, Told
<1>5. \A p \in allocated : needsSave[p] => needsSave'[p] \/ documentID[p] = d
  BY <1>1 DEF DeleteDocument, NInv, IInv, ObjectInv, ObjectTypes
<1>6. \A p \in allocated : document'[p] = None => document[p] = None \/ documentID[p] = d
  BY <1>1, ZenonT(30) DEF DeleteDocument, NInv, IInv, ObjectInv, ObjectTypes
<1>7. SavesKept
  BY <1>2, <1>5, <1>6, SavesKeptWrite, ZenonT(30) DEF DeleteDocument, NInv, IInv
<1> QED
  BY <1>4, <1>7, CommitKept, ZenonT(30) DEF DeleteDocument, NInv, IInv

\* The block of -save: leaves an object whose document exists, or does not end.
LEMMA CommitNotices ==
  ASSUME NInv, NEW t \in Threads, CommitNothing(t) \/ Commit(t) \/ CommitFails(t)
  PROVE  NoticeInv' /\ CommitInv'
<1> DEFINE o == obj[t]
<1>1. pc[t] = "commit" /\ o \in allocated /\ o \in Objs /\ documentID[o] \in Docs
  BY ZenonT(30) DEF CommitNothing, Commit, CommitFails, NInv, IInv, ThreadInv, ObjectInv, ObjectTypes
<1>2. CASE CommitNothing(t)
  <2>1. NoticeInv'
    BY <1>2, NoticeSame, ZenonT(30) DEF CommitNothing, NInv, ModelsKept, objects
  <2>2. Exists(documentID[o])
    BY <1>1, <1>2, ZenonT(30) DEF CommitNothing, NInv, CommitInv, IInv, ObjectInv
  <2>3. CommitInv'
    BY <1>2, <2>2, ZenonT(30) DEF CommitNothing, Goto, NInv, IInv, OtherTypes, CommitInv, Exists, store, objects
  <2> QED
    BY <2>1, <2>3
<1>3. CASE CommitFails(t)
  BY <1>3, QuietStep, SavesKeptSame
     DEF CommitFails, Return, ModelsKept, objects, store, Steps
<1>4. CASE Commit(t)
  <2>1. PICK d \in Docs : d = document[o] /\ d = documentID[o]
    BY <1>1, <1>4, ZenonT(30) DEF Commit, NInv, IInv, ObjectInv, ObjectTypes
  <2>2. PICK isDeletion \in BOOLEAN : Write(d, isDeletion) /\ ~isDeletion
    BY <1>4, <2>1, ZenonT(30) DEF Commit
  <2>3. NoticeInv'
    BY <1>4, <2>2, NoticeWrite, ZenonT(30) DEF Commit, NInv, IInv
  <2>4. \A p \in allocated : needsSave[p] => needsSave'[p] \/ documentID[p] = d
    BY <1>4, <2>1, ZenonT(30) DEF Commit, NInv, IInv, ObjectInv, ObjectTypes
  <2>5. SavesKept /\ Exists(d)'
    BY <1>4, <2>2, <2>4, SavesKeptWrite, ZenonT(30) DEF Commit, NInv, IInv
  <2>6. CommitInv'
    <3> SUFFICES ASSUME NEW u \in Threads
                 PROVE  /\ pc'[u] = "completed" => Exists(documentID[obj[u]])'
                        /\ pc'[u] = "commit" => needsSave'[obj'[u]] \/ Exists(documentID[obj[u]])'
      BY <2>5, DetachedKept, ZenonT(30) DEF CommitInv, NInv, IInv
    <3>1. CASE u = t
      BY <1>4, <2>1, <2>5, <3>1, ZenonT(30) DEF Commit, Goto, NInv, IInv, OtherTypes
    <3>2. CASE u # t
      <4>1. pc'[u] = pc[u] /\ obj'[u] = obj[u]
        BY <1>4, <3>2, ZenonT(30) DEF Commit, Goto, NInv, IInv, OtherTypes
      <4>2. pc[u] \in {"commit", "completed"} => obj[u] \in allocated /\ documentID[obj[u]] \in Docs
        BY ZenonT(30) DEF NInv, IInv, ThreadInv, ObjectInv
      <4> QED
        BY <2>5, <4>1, <4>2, ZenonT(30) DEF SavesKept, NInv, CommitInv, Exists
    <3> QED
      BY <3>1, <3>2, ZenonT(30)
  <2> QED
    BY <2>3, <2>6
<1> QED
  BY <1>2, <1>3, <1>4
\* -saveCompleted tells of a document that exists, with its model object, unless it
\* has been overtaken by a deletion.
LEMMA SaveCompletedNotices ==
  ASSUME NInv, NEW t \in Threads, SaveCompleted(t)
  PROVE  NoticeInv' /\ CommitInv'
<1> DEFINE o == obj[t]
<1>0. o \in allocated /\ o \in Objs /\ documentID[o] \in Docs /\ Exists(documentID[o])
  BY ZenonT(30) DEF SaveCompleted, NInv, IInv, ThreadInv, ObjectInv, ObjectTypes, CommitInv
<1>1. PICK d \in Docs : d = documentID[o] /\ Exists(d)
  BY <1>0, ZenonT(30)
<1>2. d \in overtaken' \/ (Live(d) /\ modelObject[d] # None)
  <2>1. CASE IsDeleted(o)
    BY <1>1, <2>1, ZenonT(30) DEF SaveCompleted
  <2>2. CASE ~IsDeleted(o)
    <3>1. document[o] = d /\ ~rev[d].deleted
      BY <1>0, <1>1, <2>2, ZenonT(30) DEF IsDeleted, NInv, IInv, ObjectInv
    <3>2. modelObject[d] = o
      <4>1. document[o] # None
        BY <3>1, NoneAssumption, ZenonT(30)
      <4>2. modelObject[document[o]] = o
        BY <1>0, <4>1, ZenonT(30) DEF NInv, IInv, ObjectInv, Uniquing
      <4> QED
        BY <3>1, <4>2, ZenonT(30)
    <3> QED
      BY <1>0, <1>1, <3>1, <3>2, NoneAssumption, ZenonT(30) DEF Live
  <2> QED
    BY <2>1, <2>2
<1>3. PICK kind \in {"Add", "Update"} : posted' = [posted EXCEPT ![d] = kind]
  BY <1>1, ZenonT(30) DEF SaveCompleted, Announce
<1>4. Told(d)' /\ \A e \in Docs \ {d} : posted'[e] = posted[e]
  BY <1>1, <1>3, ZenonT(30) DEF Told, NInv, IInv, OtherTypes
<1>5. UNCHANGED <<rev, pending, modelObject>> /\ overtaken \subseteq overtaken'
  BY ZenonT(30) DEF SaveCompleted, store
<1>6. NoticeInv'
  <2>1. \A e \in Docs : Live(e)' = Live(e) /\ Unannounced(e)' = Unannounced(e)
    BY <1>5, ZenonT(30) DEF Live, Exists, Unannounced
  <2> QED
    BY <1>2, <1>4, <1>5, <2>1, ZenonT(30) DEF NInv, NoticeInv, Told
<1>7. SavesKept
  BY SavesKeptSame DEF SaveCompleted, store
<1>8. \E step \in Steps \ {"commit", "completed"} : \E e, p : Goto(t, step, e, p)
  BY ZenonT(30) DEF SaveCompleted, Return, Steps
<1> QED
  BY <1>6, <1>7, <1>8, CommitKept, ZenonT(30) DEF NInv, IInv

\* The block of +saveModels:error: leaves its change to be announced.
LEMMA CommitModelsNotices ==
  ASSUME NInv, NEW t \in Threads, CommitModels(t)
  PROVE  NoticeInv' /\ CommitInv'
<1> DEFINE o == obj[t]
<1>1. o \in allocated /\ o \in Objs
  BY ZenonT(30) DEF CommitModels, NInv, IInv, ThreadInv, ObjectInv, ObjectTypes
<1>2. \E step \in Steps \ {"commit", "completed"} : \E e, p : Goto(t, step, e, p)
  BY DEF CommitModels, Return, Steps
<1>3. CASE /\ document[o] # None /\ Write(document[o], FALSE)
           /\ needsSave' = [needsSave EXCEPT ![o] = FALSE]
  <2>1. PICK d \in Docs : d = document[o] /\ d = documentID[o]
    BY <1>1, <1>3 DEF NInv, IInv, ObjectInv, ObjectTypes
  <2>2. PICK isDeletion \in BOOLEAN : Write(d, isDeletion) /\ ~isDeletion
    BY ZenonT(30), <1>3, <2>1
  <2>3. NoticeInv'
    BY <2>2, NoticeWrite DEF CommitModels, NInv, IInv
  <2>4. \A p \in allocated : needsSave[p] => needsSave'[p] \/ documentID[p] = d
    BY <1>3, <2>1, ZenonT(30) DEF NInv, IInv, ObjectInv, ObjectTypes
  <2>5. SavesKept
    BY <2>2, <2>4, SavesKeptWrite, ZenonT(30) DEF CommitModels, NInv, IInv
  <2> QED
    BY <1>2, <2>3, <2>5, CommitKept, ZenonT(30) DEF NInv, IInv
<1>4. CASE UNCHANGED <<store, needsSave>>
  <2>1. SavesKept /\ ModelsKept
    BY <1>4, SavesKeptSame DEF CommitModels, ModelsKept, store
  <2> QED
    BY <1>2, <1>4, <2>1, QuietStep, ZenonT(30) DEF CommitModels
<1> QED
  BY <1>3, <1>4, ZenonT(30) DEF CommitModels

\* Finding and importing objects neither writes nor posts.
LEMMA FindNotices ==
  ASSUME NInv, NEW t \in Threads,
         \/ FetchDocument(t) \/ FetchModel(t) \/ QueryRow(t)
         \/ ImportDocument(t) \/ ImportModel(t) \/ ImportNew(t)
  PROVE  NoticeInv' /\ CommitInv'
<1> DEFINE d == doc[t]
<1>1. d \in Docs
  BY ZenonT(30) DEF FetchDocument, FetchModel, QueryRow, ImportDocument, ImportModel, ImportNew,
       NInv, IInv, ThreadInv
<1>2. \E step \in Steps \ {"commit", "completed"} : \E e, p : Goto(t, step, e, p)
  BY ZenonT(30) DEF FetchDocument, FetchModel, QueryRow, ImportDocument, ImportModel, ImportNew, Return, Steps
<1>3. UNCHANGED <<store, notices>>
  BY ZenonT(30) DEF FetchDocument, FetchModel, QueryRow, ImportDocument, ImportModel, ImportNew
<1>4. SavesKept /\ ModelsKept
  <2>1. CASE UNCHANGED objects
    BY <1>3, <2>1, SavesKeptSame, ZenonT(30) DEF objects, store, ModelsKept
  <2>2. CASE \E o \in Objs, new, dirty \in BOOLEAN :
               ModelForDocument(o, d) \/ Instantiate(o, d, new, dirty)
    BY <1>1, <1>3, <2>2, SavesKeptModel, ZenonT(30) DEF NInv, IInv, store
  <2>3. CASE /\ objectCache[d] # None /\ Attach(objectCache[d], d)
             /\ UNCHANGED <<documentID, allocated, isNewObject, needsSave>>
    <3>1. objectCache[d] \in Objs
      BY <1>1, <2>3, ZenonT(30) DEF NInv, IInv, ObjectInv, ObjectTypes
    <3>2. \A o \in allocated : document'[o] = None => document[o] = None
      BY <1>1, <2>3, <3>1, NoneAssumption, ZenonT(30) DEF Attach, NInv, IInv, ObjectInv, ObjectTypes
    <3> QED
      BY <1>1, <1>3, <2>3, <3>2, SavesKeptSame, ZenonT(30)
         DEF Attach, ModelsKept, NInv, IInv, ObjectInv, ObjectTypes, store
  <2> QED
    BY <2>1, <2>2, <2>3, ZenonT(30) DEF FetchDocument, FetchModel, QueryRow, ImportDocument, ImportModel, ImportNew
<1> QED
  BY <1>2, <1>3, <1>4, QuietStep

\* Setting values makes at most one object dirty.
LEMMA ImportValuesNotices ==
  ASSUME NInv, NEW t \in Threads, ImportValues(t)
  PROVE  NoticeInv' /\ CommitInv'
<1>1. \A p \in allocated : needsSave[p] => needsSave'[p]
  <2>1. PICK changed \in BOOLEAN :
          needsSave' = [needsSave EXCEPT ![obj[t]] = @ \/ (changed /\ ~IsDeleted(obj[t]))]
    BY ZenonT(30) DEF ImportValues
  <2> SUFFICES ASSUME NEW p \in Objs, needsSave[p] PROVE needsSave'[p]
    BY DEF NInv, IInv, ObjectInv, ObjectTypes
  <2>2. CASE p = obj[t]
    BY <2>1, <2>2 DEF NInv, IInv, ObjectInv, ObjectTypes
  <2>3. CASE p # obj[t]
    BY <2>1, <2>3 DEF NInv, IInv, ObjectInv, ObjectTypes
  <2> QED
    BY <2>2, <2>3
<1>2. SavesKept /\ ModelsKept
  BY <1>1, ZenonT(30) DEF ImportValues, SavesKept, ModelsKept, Exists, store
<1>3. /\ \E step \in Steps \ {"commit", "completed"} : \E e, p : Goto(t, step, e, p)
      /\ UNCHANGED <<store, notices>>
  BY ZenonT(30) DEF ImportValues, Steps
<1> QED
  BY <1>2, <1>3, QuietStep

\* A pulled revision of a document with a model object is posted at once, as a
\* removal if it deletes the document.
LEMMA PullRevisionNotices ==
  ASSUME NInv, NEW d \in Docs, NEW isDeletion \in BOOLEAN, PullRevision(d, isDeletion)
  PROVE  NoticeInv' /\ CommitInv'
<1>1. Write(d, isDeletion)
  BY DEF PullRevision
<1>2. SavesKept
  BY <1>1, SavesKeptWrite, ZenonT(30) DEF PullRevision, NInv, IInv
<1>3. CommitInv'
  BY <1>2, CommitKept, ZenonT(30) DEF PullRevision, NInv, IInv
<1>4. CASE modelObject[d] = None /\ UNCHANGED notices
  BY <1>1, <1>3, <1>4, NoticeWrite, ZenonT(30) DEF PullRevision, NInv, IInv
<1>5. CASE modelObject[d] # None /\ Post(d, ChangeType(rev'[d]))
  <2>1. /\ Unannounced(d)'
        /\ \A e \in Docs \ {d} : rev'[e] = rev[e] /\ (Unannounced(e) => Unannounced(e)')
    BY <1>1, WriteStore, ZenonT(30) DEF NInv, IInv
  <2>2. Exists(d)' /\ rev'[d].deleted = isDeletion /\ (isDeletion => rev'[d].gen # 1)
    <3>1. PICK g \in Nat : rev[d].gen = g
      BY DEF NInv, IInv, OtherTypes
    <3>2. rev'[d] = [gen |-> g + 1, deleted |-> isDeletion]
      BY <1>1, <3>1, ZenonT(30) DEF Write, NInv, IInv, OtherTypes
    <3>3. isDeletion => g # 0
      <4>1. isDeletion => rev[d].gen > 0
        BY ZenonT(30) DEF PullRevision, Live, Exists
      <4> QED
        BY <3>1, <4>1
    <3> QED
      BY <3>1, <3>2, <3>3 DEF Exists
  <2>3. Told(d)' => Live(d)'
    BY <1>5, <2>2, ZenonT(30) DEF Post, Announce, ChangeType, Told, Live, NInv, IInv, OtherTypes
  <2>4. \A e \in Docs \ {d} : posted'[e] = posted[e]
    BY <1>5, ZenonT(30) DEF Post, Announce, NInv, IInv, OtherTypes
  <2>5. NoticeInv'
    BY <1>5, <2>1, <2>3, <2>4, ZenonT(30) DEF PullRevision, Post, NInv, NoticeInv, Live, Exists, Told
  <2> QED
    BY <1>3, <2>5, ZenonT(30)
<1> QED
  BY <1>4, <1>5, ZenonT(30) DEF PullRevision

\* Handling a queued change tells of a live document, and of no deleted one.
LEMMA DatabaseDidChangeNotices ==
  ASSUME NInv, IInv', DatabaseDidChange
  PROVE  NoticeInv' /\ CommitInv'
<1> DEFINE Changes == [doc : Docs, gen : 1..MaxGen]
<1>1. /\ pending \in Seq(Changes) /\ pending # <<>>
      /\ pending' = Tail(pending) /\ rev' = rev /\ UNCHANGED locals
  BY DEF DatabaseDidChange, NInv, IInv, OtherTypes
<1>2. Head(pending) \in Changes /\ Head(pending) = pending[1]
  BY ZenonT(30), <1>1, HeadTail
<1>3. PICK d \in Docs : d = Head(pending).doc
  BY <1>2
<1>4. \A i \in 1..Len(pending) : i = 1 \/ (i - 1 \in 1..Len(pending') /\ pending'[i - 1] = pending[i])
  BY <1>1, HeadTail
<1>5. \A e \in Docs \ {d} : Unannounced(e) => Unannounced(e)'
  BY <1>2, <1>3, <1>4 DEF Unannounced
<1>6. CASE DocumentChanged(Head(pending))
  <2>1. PICK o \in Objs : ModelForDocument(o, d)
    BY <1>3, <1>6, ZenonT(30) DEF DocumentChanged
  <2>2. SavesKept /\ ModelsKept
    BY <1>1, <1>3, <2>1, SavesKeptModel, ZenonT(30) DEF NInv, IInv
  <2>3. modelObject'[d] # None
    BY <1>3, <2>1, NoneAssumption, ZenonT(30)
       DEF ModelForDocument, Instantiate, Initialise, Attach, objects, NInv, IInv, ObjectInv, ObjectTypes
  <2>4. Live(d) /\ Told(d)' /\ UNCHANGED overtaken
    <3>1. Live(d) /\ posted' = [posted EXCEPT ![d] = ChangeType(rev[d])] /\ UNCHANGED overtaken
      BY <1>3, <1>6, ZenonT(30) DEF DocumentChanged, Post, Announce
    <3>2. ChangeType(rev[d]) \in {"Add", "Update"}
      BY <3>1 DEF ChangeType, Live
    <3> QED
      BY <1>3, <3>1, <3>2 DEF Told, NInv, IInv, OtherTypes
  <2>5. \A e \in Docs \ {d} : posted'[e] = posted[e]
    BY <1>3, <1>6, ZenonT(30) DEF DocumentChanged, Post, Announce, NInv, IInv, OtherTypes
  <2>6. NoticeInv'
    <3>1. \A e \in Docs : Live(e)' = Live(e)
      BY <1>1, ZenonT(30) DEF Live, Exists
    <3> QED
      BY <1>5, <2>2, <2>3, <2>4, <2>5, <3>1, ZenonT(30) DEF ModelsKept, NInv, NoticeInv, Told
  <2> QED
    BY <1>1, <2>2, <2>6, CommitKept DEF NInv, IInv
<1>7. CASE DocumentDeleted(Head(pending))
  <2>1. UNCHANGED <<objects, overtaken>> /\ ~Live(d)
    BY <1>3, <1>7 DEF DocumentDeleted, Post, notices, Live
  <2>2. SavesKept
    BY <1>1, <2>1, SavesKeptSame, ZenonT(30) DEF objects
  <2>3. posted' = posted \/ posted' = [posted EXCEPT ![d] = "Remove"]
    BY <1>3, <1>7, ZenonT(30) DEF DocumentDeleted, Post, Announce, notices
  <2>4. \A e \in Docs : posted'[e] = posted[e] \/ (e = d /\ ~Told(e)')
    BY <2>3 DEF Told, NInv, IInv, OtherTypes
  <2>5. NoticeInv'
    BY <1>1, <1>5, <2>1, <2>4, ZenonT(30) DEF objects, NInv, NoticeInv, Live, Exists, Told
  <2> QED
    BY <1>1, <2>2, <2>5, CommitKept, ZenonT(30) DEF NInv, IInv
<1> QED
  BY <1>6, <1>7, ZenonT(30) DEF DatabaseDidChange

\* The invariant of the notices holds initially.
LEMMA InitNInv == Init => NInv
<1> SUFFICES ASSUME Init PROVE NInv
  OBVIOUS
<1>1. NoticeInv /\ CommitInv
  BY DEF Init, NoticeInv, CommitInv, Live, Exists, Told
<1> QED
  BY <1>1, InitIInv, ZenonT(30) DEF NInv

\* Every step keeps the invariant of the notices.
LEMMA NextNInv == NInv /\ [Next]_vars => NInv'
<1> SUFFICES ASSUME NInv, [Next]_vars PROVE NInv'
  OBVIOUS
<1>1. IInv'
  BY NextIInv DEF NInv
<1> SUFFICES NoticeInv' /\ CommitInv'
  BY <1>1 DEF NInv
<1>2. CASE UNCHANGED vars
  BY <1>2, QuietStep, SavesKeptSame, ZenonT(30) DEF vars, store, objects, ModelsKept
<1>3. ASSUME NEW t \in Threads, Start(t) PROVE NoticeInv' /\ CommitInv'
  BY <1>3, StartNotices, DeleteDocumentNotices, ZenonT(30)
<1>4. ASSUME NEW t \in Threads, Continue(t) PROVE NoticeInv' /\ CommitInv'
  BY <1>4, CommitNotices, SaveCompletedNotices, CommitModelsNotices, FindNotices,
     ImportValuesNotices DEF Continue
<1>5. ASSUME NEW d \in Docs, NEW isDeletion \in BOOLEAN, PullRevision(d, isDeletion)
      PROVE  NoticeInv' /\ CommitInv'
  BY <1>5, PullRevisionNotices
<1>6. CASE DatabaseDidChange
  BY <1>1, <1>6, DatabaseDidChangeNotices
<1> QED
  BY <1>2, <1>3, <1>4, <1>5, <1>6 DEF Next

\* When nothing is in flight, observers of the notifications know the documents
\* that exist and, but for those whose deletion overtook a save, no others.
THEOREM ObserversKnow == Spec => []ObserversAgree
<1>1. NInv => ObserversAgree
  <2>1. pending = <<>> => \A d \in Docs : ~Unannounced(d)
    BY DEF Unannounced
  <2> QED
    BY <2>1, ZenonT(30) DEF NInv, NoticeInv, ObserversAgree, Settled, Told
<1> QED
  BY InitNInv, NextNInv, <1>1, PTL DEF Spec

-----------------------------------------------------------------------------
(* Objects and documents: IdentityMap *)

\* A step of IdentityMap, or none of its variables changes.
IdentityStep == [Identities!Next]_<<documentID, modelObject, Removed>>

\* An instance that is not initialised has no identifier.
Fresh == \A o \in Objs \ allocated : documentID[o] = None

\* A step that makes, attaches and detaches no object, and writes nothing.
LEMMA IdentityQuiet ==
  ASSUME Fresh, UNCHANGED <<rev, documentID, modelObject, allocated>>
  PROVE  IdentityStep /\ Fresh'
<1>1. UNCHANGED <<documentID, modelObject, Removed>>
  BY DEF Removed
<1>2. Fresh'
  BY ZenonT(30) DEF Fresh
<1> QED
  BY <1>1, <1>2 DEF IdentityStep

\* A revision is written: IdentityMap has the document removed, or revived.
LEMMA RemovedWrite ==
  ASSUME OtherTypes, NEW d \in Docs, NEW isDeletion \in BOOLEAN, Write(d, isDeletion)
  PROVE  Removed' = IF isDeletion THEN Removed \cup {d} ELSE Removed \ {d}
<1>1. /\ rev'[d].deleted = isDeletion
      /\ \A e \in Docs \ {d} : rev'[e].deleted = rev[e].deleted
  BY DEF Write, OtherTypes
<1> QED
  BY <1>1, ZenonT(30) DEF Removed

LEMMA IdentityWrite ==
  ASSUME OtherTypes, Fresh, NEW d \in Docs, NEW isDeletion \in BOOLEAN,
         Write(d, isDeletion), UNCHANGED <<documentID, modelObject, allocated>>
  PROVE  IdentityStep /\ Fresh'
<1>1. Identities!Remove(d) \/ Identities!Revive(d)
  BY RemovedWrite DEF Identities!Remove, Identities!Revive
<1>2. Identities!Next
  BY <1>1, ZenonT(30) DEF Identities!Next
<1>3. Fresh'
  BY DEF Fresh
<1> QED
  BY <1>2, <1>3 DEF IdentityStep

\* An instance is initialised: IdentityMap makes an object.
LEMMA IdentityMake ==
  ASSUME Fresh, ObjectTypes, NEW o \in Objs, NEW d \in Docs, Initialise(o, d), UNCHANGED rev
  PROVE  IdentityStep /\ Fresh'
<1>1. Identities!Make(o, d)
  BY DEF Fresh, Initialise, Attach, Removed, Identities!Make, Identities!Hold
<1>2. Identities!Next
  BY <1>1, ZenonT(30) DEF Identities!Next
<1>3. Fresh'
  BY DEF Fresh, Initialise, ObjectTypes
<1> QED
  BY <1>2, <1>3, ZenonT(30) DEF IdentityStep

\* +modelForDocument: finds the object or makes one.
LEMMA IdentityModel ==
  ASSUME Fresh, ObjectTypes, NEW o \in Objs, NEW d \in Docs,
         ModelForDocument(o, d), UNCHANGED rev
  PROVE  IdentityStep /\ Fresh'
<1>1. CASE Instantiate(o, d, FALSE, FALSE)
  BY <1>1, IdentityMake DEF Instantiate
<1>2. CASE UNCHANGED objects
  BY <1>2, IdentityQuiet DEF objects
<1> QED
  BY <1>1, <1>2, ZenonT(30) DEF ModelForDocument

\* -deleteDocument: IdentityMap releases the object of the document.
LEMMA IdentityDelete ==
  ASSUME Fresh, IInv, NEW t \in Threads, NEW o \in Objs, DeleteDocument(t, o)
  PROVE  IdentityStep /\ Fresh'
<1>1. PICK d \in Docs : d = document[o]
  BY DEF DeleteDocument, IInv, ObjectInv, ObjectTypes
<1>2. /\ Write(d, TRUE)
      /\ modelObject' = [modelObject EXCEPT ![d] = None]
      /\ UNCHANGED <<documentID, allocated>>
  BY <1>1, ZenonT(30) DEF DeleteDocument
<1>3. modelObject[d] # None
  <2>1. document[o] # None
    BY <1>1, NoneAssumption, ZenonT(30)
  <2>2. modelObject[document[o]] = o
    BY <2>1, ZenonT(30) DEF IInv, ObjectInv, Uniquing
  <2> QED
    BY <1>1, <2>2, NoneAssumption, ZenonT(30)
<1>4. Removed' = Removed \cup {d}
  <2>1. OtherTypes /\ TRUE \in BOOLEAN
    BY DEF IInv
  <2>2. Removed' = IF TRUE THEN Removed \cup {d} ELSE Removed \ {d}
    BY <1>2, <2>1, RemovedWrite, ZenonT(30)
  <2> QED
    BY <2>2
<1>5. Identities!Release(d)
  BY <1>2, <1>3, <1>4 DEF Identities!Release, Identities!Hold
<1>6. Identities!Next
  BY <1>5, ZenonT(30) DEF Identities!Next
<1>7. Fresh'
  BY <1>2 DEF Fresh
<1> QED
  BY <1>6, <1>7, ZenonT(30) DEF IdentityStep

\* A row of a query finds its document's object, makes one, or gives the document
\* back the object it had before its deletion.
LEMMA IdentityRow ==
  ASSUME Fresh, IInv, NEW t \in Threads, QueryRow(t)
  PROVE  IdentityStep /\ Fresh'
<1>1. PICK d \in Docs : d = doc[t]
  BY ZenonT(30) DEF QueryRow, IInv, ThreadInv
<1>2. UNCHANGED rev /\ ObjectTypes
  BY ZenonT(30) DEF QueryRow, store, IInv, ObjectInv
<1>3. CASE UNCHANGED objects
  BY <1>2, <1>3, IdentityQuiet DEF objects
<1>4. CASE \E m \in Objs : ModelForDocument(m, d)
  BY ZenonT(30), <1>2, <1>4, IdentityModel
<1>5. CASE /\ modelObject[d] = None /\ objectCache[d] # None
           /\ Attach(objectCache[d], d)
           /\ UNCHANGED <<documentID, allocated>>
  <2>1. PICK o \in Objs : o = objectCache[d] /\ documentID[o] = d
    BY <1>1, <1>5 DEF IInv, ObjectInv, ObjectTypes
  <2>2. Removed' = Removed
    BY <1>2 DEF Removed
  <2>3. Identities!Reattach(o, d)
    BY <1>5, <2>1, <2>2 DEF Attach, Identities!Reattach, Identities!Hold
  <2>4. Identities!Next
    BY <2>3, ZenonT(30) DEF Identities!Next
  <2>5. Fresh'
    BY <1>5, ZenonT(30) DEF Fresh
  <2> QED
    BY <2>4, <2>5, ZenonT(30) DEF IdentityStep
<1> QED
  BY <1>1, <1>3, <1>4, <1>5, ZenonT(30) DEF QueryRow

\* What else a thread does once it has started an operation.
LEMMA IdentityContinue ==
  ASSUME Fresh, IInv, NEW t \in Threads, Continue(t)
  PROVE  IdentityStep /\ Fresh'
<1>0. OtherTypes /\ ObjectInv /\ ObjectTypes /\ ThreadInv
  BY DEF IInv, ObjectInv
<1>1. CASE CommitNothing(t) \/ CommitFails(t) \/ SaveCompleted(t) \/ FetchDocument(t)
  BY <1>1, IdentityQuiet, ZenonT(30) DEF CommitNothing, CommitFails, SaveCompleted, FetchDocument, objects, store
<1>2. ASSUME NEW o \in Objs, document[o] # None, Write(document[o], FALSE),
             UNCHANGED <<documentID, modelObject, allocated>>
      PROVE  IdentityStep /\ Fresh'
  BY <1>0, <1>2, IdentityWrite, ZenonT(30) DEF ObjectTypes
<1>3. CASE Commit(t)
  <2>1. obj[t] \in Objs
    BY <1>0, <1>3, ZenonT(30) DEF Commit, ThreadInv, ObjectTypes
  <2> QED
    BY <1>2, <1>3, <2>1, ZenonT(30) DEF Commit
<1>4. CASE CommitModels(t)
  <2>1. obj[t] \in Objs /\ UNCHANGED <<documentID, modelObject, allocated>>
    BY <1>0, <1>4 DEF CommitModels, ThreadInv, ObjectTypes
  <2>2. CASE UNCHANGED rev
    BY <2>1, <2>2, IdentityQuiet
  <2>3. CASE document[obj[t]] # None /\ Write(document[obj[t]], FALSE)
    BY ZenonT(30), <1>2, <2>1, <2>3
  <2> QED
    BY <1>4, <2>2, <2>3, ZenonT(30) DEF CommitModels, store
<1>5. CASE FetchModel(t)
  <2>1. doc[t] \in Docs /\ UNCHANGED rev
    BY <1>0, <1>5, ZenonT(30) DEF FetchModel, ThreadInv, store
  <2>2. CASE UNCHANGED objects
    BY <2>1, <2>2, IdentityQuiet DEF objects
  <2>3. CASE \E o \in Objs : ModelForDocument(o, doc[t])
    BY ZenonT(30), <1>0, <2>1, <2>3, IdentityModel
  <2> QED
    BY <1>5, <2>2, <2>3, ZenonT(30) DEF FetchModel
<1>6. CASE ImportModel(t) \/ ImportNew(t)
  <2>1. doc[t] \in Docs /\ UNCHANGED rev
    BY <1>0, <1>6, ZenonT(30) DEF ImportModel, ImportNew, ThreadInv, store
  <2>2. CASE UNCHANGED objects
    BY <2>1, <2>2, IdentityQuiet DEF objects
  <2>3. CASE \E o \in Objs : ModelForDocument(o, doc[t])
    BY ZenonT(30), <1>0, <2>1, <2>3, IdentityModel
  <2>4. CASE \E o \in Objs : Instantiate(o, doc[t], TRUE, TRUE)
    BY <1>0, <2>1, <2>4, IdentityMake DEF Instantiate
  <2> QED
    BY <1>6, <2>2, <2>3, <2>4, ZenonT(30) DEF ImportModel, ImportNew
<1>7. CASE ImportDocument(t) \/ ImportValues(t)
  BY <1>7, IdentityQuiet, ZenonT(30) DEF ImportDocument, ImportValues, objects, store
<1> QED
  BY <1>1, <1>3, <1>4, <1>5, <1>6, <1>7, IdentityRow, ZenonT(30) DEF Continue

\* Every step is a step of IdentityMap or leaves its variables as they are.
LEMMA StepIsIdentity == Fresh /\ IInv /\ [Next]_vars => IdentityStep /\ Fresh'
<1> SUFFICES ASSUME Fresh, IInv, [Next]_vars PROVE IdentityStep /\ Fresh'
  OBVIOUS
<1>0. OtherTypes /\ ObjectTypes
  BY DEF IInv, ObjectInv
<1>1. CASE UNCHANGED vars
  BY <1>1, IdentityQuiet, ZenonT(30) DEF vars, objects, store
<1>2. ASSUME NEW t \in Threads, NEW o \in Objs, SetValue(t, o) \/ Save(t, o) \/ SaveModels(t, o)
      PROVE  IdentityStep /\ Fresh'
  BY <1>2, IdentityQuiet DEF SetValue, Save, SaveModels, objects, store
<1>3. ASSUME NEW t \in Threads, NEW o \in Objs, NEW d \in Docs, NewObject(t, o, d)
      PROVE  IdentityStep /\ Fresh'
  BY <1>0, <1>3, IdentityMake, ZenonT(30) DEF NewObject, Instantiate, store
<1>4. ASSUME NEW t \in Threads, NEW d \in Docs, Fetch(t, d) \/ Query(t, d) \/ Import(t, d)
      PROVE  IdentityStep /\ Fresh'
  BY <1>4, IdentityQuiet, ZenonT(30) DEF Fetch, Query, Import, objects, store
<1>5. ASSUME NEW t \in Threads, Start(t) PROVE IdentityStep /\ Fresh'
  BY <1>2, <1>3, <1>4, <1>5, IdentityDelete, ZenonT(30) DEF Start
<1>6. ASSUME NEW d \in Docs, NEW isDeletion \in BOOLEAN, PullRevision(d, isDeletion)
      PROVE  IdentityStep /\ Fresh'
  BY <1>0, <1>6, IdentityWrite, ZenonT(30) DEF PullRevision
<1>7. CASE DatabaseDidChange
  <2>1. Head(pending).doc \in Docs /\ UNCHANGED rev
    <3>1. /\ pending \in Seq([doc : Docs, gen : 1..MaxGen]) /\ pending # <<>>
          /\ UNCHANGED rev
      BY <1>0, <1>7 DEF DatabaseDidChange, OtherTypes
    <3>2. Head(pending) \in [doc : Docs, gen : 1..MaxGen]
      BY ZenonT(30), <3>1, HeadTail
    <3> QED
      BY <3>1, <3>2
  <2>2. CASE UNCHANGED objects
    BY <2>1, <2>2, IdentityQuiet DEF objects
  <2>3. CASE \E o \in Objs : ModelForDocument(o, Head(pending).doc)
    BY ZenonT(30), <1>0, <2>1, <2>3, IdentityModel
  <2> QED
    BY <1>7, <2>2, <2>3, ZenonT(30) DEF DatabaseDidChange, DocumentChanged, DocumentDeleted
<1> QED
  BY <1>1, <1>5, <1>6, <1>7, IdentityContinue DEF Next

\* ManagedObjects implements IdentityMap, for any documents, instances and threads:
\* an object never comes to represent another document, and a document loses its
\* object, and can be given another one, only by a revision that deletes it.
THEOREM ImplementsIdentityMap == Spec => IdentityKept
<1>1. Init => Fresh /\ Identities!Init
  BY DEF Init, Fresh, Identities!Init, Removed
<1> QED
  BY <1>1, InitIInv, NextIInv, StepIsIdentity, PTL DEF Spec, IdentityKept, Identities!Spec, IdentityStep
=============================================================================
