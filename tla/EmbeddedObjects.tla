--------------------------- MODULE EmbeddedObjects ---------------------------
(***************************************************************************)
(* A property of an MPManagedObject whose value is an MPEmbeddedObject: it *)
(* is decoded from the document when it is first read, edited in place,    *)
(* replaced, and written back as a dictionary when the managed object is   *)
(* saved.  Threads share the managed object; replication changes the       *)
(* document beneath it.  A block on the server queue is one step, and so   *)
(* is what lies between two of them or under @synchronized.                *)
(*                                                                         *)
(* Of an embedded object's fields, one has a plain value and one refers to *)
(* a managed object, since their setters differ.  What CBLModel keeps of a *)
(* property, its cached value and whether its name is among the changed    *)
(* ones, is external.                                                      *)
(***************************************************************************)
EXTENDS Naturals

CONSTANTS Threads, Objects, Ids, Values,
          References,   \* managed objects an embedded object may refer to
          Stored,       \* dictionaries the document may hold, here or elsewhere
          Setters,      \* the threads that replace the embedded object
          MaxPulls,     \* bound: revisions that replication brings
          MaxChanges,   \* bound: objects made or set, and fields and references changed
          None          \* nil

Dictionaries == [id : Ids, field : Values, ref : References \cup {None}]

ASSUME StoredAssumption == Stored \subseteq Dictionaries /\ Setters \subseteq Threads
ASSUME NoneAssumption == None \notin Objects \cup Dictionaries \cup References
ASSUME BoundAssumption == MaxPulls \in Nat /\ MaxChanges \in Nat

VARIABLES document,      \* the dictionary in the document's properties, or None
          cached,        \* CBLModel: the cached value of the property, or None
          changed,       \* CBLModel: whether the property is among changedNames
          needsSave,     \* needsSave of the managed object
          byIdentifier,  \* its embeddedObjectCache
          content,       \* the properties of each embedded object, None before init
          handed,        \* the embedded objects that callers have hold of
          pc, work,      \* where each thread is, and with what
          pulls, changes,  \* pulls and changes so far
          replaced       \* history: another embedded object has been made or set

vars == <<document, cached, changed, needsSave, byIdentifier, content, handed, pc, work, pulls, changes, replaced>>

NoWork == [for |-> "get", target |-> None, object |-> None, dictionary |-> None]

Init ==
  /\ document \in Stored \cup {None}
  /\ cached = None
  /\ changed = FALSE
  /\ needsSave = FALSE
  /\ byIdentifier = [i \in Ids |-> None]
  /\ content = [o \in Objects |-> None]
  /\ handed = {}
  /\ pc = [t \in Threads |-> "idle"]
  /\ work = [t \in Threads |-> NoWork]
  /\ pulls = 0 /\ changes = 0 /\ replaced = FALSE

Identifier(o) == content[o].id
Unused == {o \in Objects : content[o] = None}
NewIds == Ids \ ({d.id : d \in Stored} \cup {Identifier(o) : o \in Objects \ Unused})

\* The embedded object is changed, or replaced.
Changes(replacing) ==
  /\ changes < MaxChanges /\ changes' = changes + 1
  /\ replaced' = (replaced \/ replacing)

Goto(t, label) == pc' = [pc EXCEPT ![t] = label]
Finish(t) == Goto(t, "idle") /\ work' = [work EXCEPT ![t] = NoWork]

\* -cacheEmbeddedObjectByIdentifier: keeps the object that is there.  (That it is the
\* same one is asserted, which release builds leave out.)
Cache(cache, o) ==
  byIdentifier' = IF cache[Identifier(o)] = None THEN [cache EXCEPT ![Identifier(o)] = o] ELSE cache

-----------------------------------------------------------------------------
(* The getter, -getEmbeddedObjectProperty:, which the setter and a save call too *)

Get(t) ==
  /\ pc[t] = "idle"
  /\ Goto(t, "get")
  /\ UNCHANGED <<document, cached, changed, needsSave, byIdentifier, content, handed, work, pulls, changes, replaced>>

\* The getter returns o to its caller.
Return(t, o) ==
  IF work[t].for = "set"
    THEN /\ Goto(t, "set")
         /\ work' = [work EXCEPT ![t].object = o, ![t].dictionary = None]
         /\ UNCHANGED handed
    ELSE /\ Finish(t)
         /\ handed' = IF work[t].for = "get" THEN handed \cup ({o} \ {None}) ELSE handed

GetUnsavedValue(t) ==
  /\ pc[t] = "get"
  /\ IF cached # None THEN Return(t, cached)
                      ELSE Goto(t, "read") /\ UNCHANGED <<work, handed>>
  /\ UNCHANGED <<document, cached, changed, needsSave, byIdentifier, content, pulls, changes, replaced>>

ReadDocument(t) ==
  /\ pc[t] = "read"
  /\ IF document = None
       THEN Return(t, None)
       ELSE /\ Goto(t, "decode")
            /\ work' = [work EXCEPT ![t].dictionary = document]
            /\ UNCHANGED handed
  /\ UNCHANGED <<document, cached, changed, needsSave, byIdentifier, content, pulls, changes, replaced>>

\* +embeddedObjectWithDictionary:...: an object with the identifier may be known.
Decode(t) ==
  LET existing == byIdentifier[work[t].dictionary.id] IN
  /\ pc[t] = "decode"
  /\ work' = [work EXCEPT ![t].object = existing]
  /\ Goto(t, IF existing # None THEN "cache" ELSE "init")
  /\ UNCHANGED <<document, cached, changed, needsSave, byIdentifier, content, handed, pulls, changes, replaced>>

\* -initWithDictionary:...: "thread-safely unique".
InitWithDictionary(t) ==
  LET dictionary == work[t].dictionary
      existing == byIdentifier[dictionary.id]
  IN
  /\ pc[t] = "init"
  /\ \/ /\ existing # None
        /\ work' = [work EXCEPT ![t].object = existing]
        /\ UNCHANGED <<content, byIdentifier>>
     \/ /\ existing = None
        /\ \E o \in Unused :
             /\ content' = [content EXCEPT ![o] = dictionary]
             /\ byIdentifier' = [byIdentifier EXCEPT ![dictionary.id] = o]
             /\ work' = [work EXCEPT ![t].object = o]
  /\ Goto(t, "cache")
  /\ UNCHANGED <<document, cached, changed, needsSave, handed, pulls, changes, replaced>>

\* -decodeEmbeddedObject:embeddingKey: and the getter keep what was decoded.
CacheDecoded(t) ==
  /\ pc[t] = "cache"
  /\ Cache(byIdentifier, work[t].object)
  /\ cached' = work[t].object
  /\ Return(t, work[t].object)
  /\ UNCHANGED <<document, changed, needsSave, content, pulls, changes, replaced>>

-----------------------------------------------------------------------------
(* Editing and replacing *)

\* -initWithEmbeddingObject:embeddingKey:, with an identifier of its own.
New(t) ==
  /\ t \in Setters
  /\ pc[t] = "idle"
  /\ \E o \in Unused, i \in NewIds, v \in Values :
       /\ content' = [content EXCEPT ![o] = [id |-> i, field |-> v, ref |-> None]]
       /\ byIdentifier' = [byIdentifier EXCEPT ![i] = o]
       /\ handed' = handed \cup {o}
  /\ Changes(TRUE)
  /\ UNCHANGED <<document, cached, changed, needsSave, pc, work, pulls>>

\* -setValue:ofProperty: of the embedded object: first its own properties ...
SetField(t, o, value) ==
  /\ pc[t] = "idle"
  /\ content[o].field # value
  /\ content' = [content EXCEPT ![o].field = value]
  /\ Goto(t, "changed")
  /\ work' = [work EXCEPT ![t].object = o]
  /\ Changes(FALSE)
  /\ UNCHANGED <<document, cached, changed, needsSave, byIdentifier, handed, pulls>>

\* Mutant: the managed object is marked before the property is.
CacheValue_MarksFirst(t) ==
  /\ pc[t] = "changed"
  /\ IF work[t].target = None
       THEN /\ needsSave' = TRUE
            /\ work' = [work EXCEPT ![t].target = work[t].object]
            /\ UNCHANGED <<cached, changed, pc>>
       ELSE /\ cached' = work[t].object
            /\ changed' = TRUE
            /\ Finish(t)
            /\ UNCHANGED needsSave
  /\ UNCHANGED <<document, byIdentifier, content, handed, pulls, changes, replaced>>

\* Mutant: the value is cached as one that has not changed.
CacheValue_Unchanged(t) ==
  /\ pc[t] = "changed"
  /\ cached' = work[t].object
  /\ Goto(t, "property")
  /\ UNCHANGED <<document, changed, needsSave, byIdentifier, content, handed, work, pulls, changes, replaced>>

\* ... then -cacheValue:ofProperty:changed: of the managed object ...
CacheValue(t) ==
  /\ pc[t] = "changed"
  /\ cached' = work[t].object
  /\ changed' = TRUE
  /\ Goto(t, "property")
  /\ UNCHANGED <<document, needsSave, byIdentifier, content, handed, work, pulls, changes, replaced>>

\* ... its -markPropertyNeedsSave: ...
MarkPropertyNeedsSave(t) ==
  /\ pc[t] = "property"
  /\ changed' = TRUE
  /\ Goto(t, "mark")
  /\ UNCHANGED <<document, cached, needsSave, byIdentifier, content, handed, work, pulls, changes, replaced>>

\* ... and its -markNeedsSave.
MarkNeedsSave(t) ==
  /\ pc[t] = "mark"
  /\ needsSave' = TRUE
  /\ Finish(t)
  /\ UNCHANGED <<document, cached, changed, byIdentifier, content, handed, pulls, changes, replaced>>

\* -setModel:forProperty: only marks.
SetModel(t, o, ref) ==
  /\ pc[t] = "idle"
  /\ content[o].ref # ref
  /\ content' = [content EXCEPT ![o].ref = ref]
  /\ Goto(t, "mark")
  /\ work' = [work EXCEPT ![t].object = o]
  /\ Changes(FALSE)
  /\ UNCHANGED <<document, cached, changed, needsSave, byIdentifier, handed, pulls>>

\* -setEmbeddedObject:ofProperty: reads the value there is ...
Set(t, o) ==
  /\ t \in Setters
  /\ pc[t] = "idle"
  /\ Goto(t, "get")
  /\ work' = [work EXCEPT ![t].for = "set", ![t].target = o]
  /\ Changes(TRUE)
  /\ UNCHANGED <<document, cached, changed, needsSave, byIdentifier, content, handed, pulls>>

\* The object that the setter takes out of the cache by identifier, if any.
Replaced(t) == {work[t].object} \ {None, work[t].target}

\* ... takes it out of the cache by identifier, puts the new one in and sets the
\* property, which -[CBLModel setValue:ofProperty:] does only if it differs.
SetEmbeddedObject(t) ==
  LET target == work[t].target
      rest == [i \in Ids |-> IF \E o \in Replaced(t) : Identifier(o) = i THEN None ELSE byIdentifier[i]]
      current == IF cached = None /\ ~changed THEN document ELSE cached
  IN
  /\ pc[t] = "set"
  /\ IF target # None THEN Cache(rest, target) ELSE byIdentifier' = rest
  /\ IF current = target
       THEN UNCHANGED <<cached, changed, needsSave>>
       ELSE cached' = target /\ changed' = TRUE /\ needsSave' = TRUE
  /\ Finish(t)
  /\ UNCHANGED <<document, content, handed, pulls, changes, replaced>>

-----------------------------------------------------------------------------
(* Saving and replication *)

\* -save: of the managed object, or of an embedded one, which forwards it.
Save(t) ==
  /\ pc[t] = "idle"
  /\ needsSave \/ changed
  /\ Goto(t, "write")
  /\ work' = [work EXCEPT ![t].for = "save"]
  /\ UNCHANGED <<document, cached, changed, needsSave, byIdentifier, content, handed, pulls, changes, replaced>>

\* Mutant: the cache by identifier does not outlive the save.
WriteRevision_Uncaches(t) ==
  /\ pc[t] = "write"
  /\ IF needsSave
       THEN /\ document' = IF ~changed THEN document ELSE IF cached = None THEN None ELSE content[cached]
            /\ cached' = None
            /\ changed' = FALSE
            /\ needsSave' = FALSE
            /\ byIdentifier' = [i \in Ids |-> None]
       ELSE UNCHANGED <<document, cached, changed, needsSave, byIdentifier>>
  /\ Goto(t, "get")
  /\ UNCHANGED <<content, handed, work, pulls, changes, replaced>>

\* The block on the server queue: the changed properties are written over those of
\* the document, and CBLModel forgets what it had cached.  Another thread may have
\* saved meanwhile.  Then the getter is called to reset the embedded object's flag.
WriteRevision(t) ==
  /\ pc[t] = "write"
  /\ IF needsSave
       THEN /\ document' = IF ~changed THEN document ELSE IF cached = None THEN None ELSE content[cached]
            /\ cached' = None
            /\ changed' = FALSE
            /\ needsSave' = FALSE
       ELSE UNCHANGED <<document, cached, changed, needsSave>>
  /\ Goto(t, "get")
  /\ UNCHANGED <<byIdentifier, content, handed, work, pulls, changes, replaced>>

\* It fails, and NO is returned.
WriteFails(t) ==
  /\ pc[t] = "write"
  /\ Finish(t)
  /\ UNCHANGED <<document, cached, changed, needsSave, byIdentifier, content, handed, pulls, changes, replaced>>

\* Replication writes a revision; CBLModel drops the cached value unless it is changed.
PullRevision(dictionary) ==
  /\ pulls < MaxPulls
  /\ document # dictionary
  /\ document' = dictionary
  /\ cached' = IF changed THEN cached ELSE None
  /\ pulls' = pulls + 1
  /\ UNCHANGED <<changed, needsSave, byIdentifier, content, handed, pc, work, changes, replaced>>

-----------------------------------------------------------------------------
Getter(t) == GetUnsavedValue(t) \/ ReadDocument(t) \/ Decode(t) \/ InitWithDictionary(t) \/ CacheDecoded(t)

Next ==
  \/ \E t \in Threads :
       \/ Get(t) \/ Getter(t)
       \/ New(t) \/ \E o \in handed \cup {None} : Set(t, o)
       \/ SetEmbeddedObject(t)
       \/ \E o \in handed, v \in Values : SetField(t, o, v)
       \/ \E o \in handed, r \in References : SetModel(t, o, r)
       \/ CacheValue(t) \/ MarkPropertyNeedsSave(t) \/ MarkNeedsSave(t)
       \/ Save(t) \/ WriteRevision(t) \/ WriteFails(t)
  \/ \E d \in Stored \cup {None} : PullRevision(d)

Spec == Init /\ [][Next]_vars

-----------------------------------------------------------------------------
(* Properties *)

MaybeObject == Objects \cup {None}
Works == [for : {"get", "set", "save"}, target : MaybeObject,
          object : MaybeObject, dictionary : Dictionaries \cup {None}]

TypeOK ==
  /\ document \in Dictionaries \cup {None}
  /\ cached \in MaybeObject
  /\ changed \in BOOLEAN /\ needsSave \in BOOLEAN
  /\ byIdentifier \in [Ids -> MaybeObject]
  /\ content \in [Objects -> Dictionaries \cup {None}]
  /\ handed \subseteq Objects
  /\ pc \in [Threads -> {"idle", "get", "read", "decode", "init", "cache", "changed", "property", "mark",
                    "set", "write"}]
  /\ work \in [Threads -> Works]
  /\ pulls \in 0..MaxPulls /\ changes \in 0..MaxChanges /\ replaced \in BOOLEAN

\* A managed object with a changed embedded object is marked for saving: a save by
\* another thread, in the middle of the change, does not take the mark away from it.
MarkedForSaving ==
  changed /\ ~needsSave => \E t \in Threads : pc[t] \in {"property", "mark"}

\* When the property is not among the changed ones, the fields of its embedded object
\* are what the document holds for it: no change of one of them is left out of a save,
\* whichever threads read, change and save it meanwhile, as long as it is not replaced
\* and no revision is pulled.  (A reference to a managed object is left out.)
CleanMeansSaved ==
  cached # None /\ ~changed /\ document # None /\ ~replaced /\ pulls = 0
    => \/ document.field = content[cached].field
       \/ \E t \in Threads : pc[t] = "changed" /\ work[t].object = cached

\* "objects should be unique by their identifier": callers never get hold of two
\* embedded objects with the same identifier, though several threads decode it and
\* revisions are pulled, as long as the property is not set.
UniqueByIdentifier ==
  ~replaced => \A o, p \in handed : Identifier(o) = Identifier(p) => o = p

\* "Mismatching identity": an object that is put in the cache by identifier, having
\* been decoded or set, meets no other there.
IdentityMatches ==
  \A t \in Threads :
    /\ pc[t] = "cache" => byIdentifier[Identifier(work[t].object)] \in {None, work[t].object}
    /\ pc[t] = "set" /\ work[t].target # None /\ Replaced(t) = {} =>
         byIdentifier[Identifier(work[t].target)] \in {None, work[t].target}

\* "used to communicate that something ... has changed (requires rewriting the JSON)":
\* a save that follows a change rewrites the value of the property and does not remove
\* it, unless it was set before or its document was changed elsewhere.
ValueIsRewritten ==
  [][document # None /\ ~replaced /\ pulls = 0 => document' # None \/ pulls' # pulls]_document

\* "should not try to remove if it weren't there": the setter finds the object it
\* replaces in the cache by identifier.
RemovalFindsObject ==
  \A t \in Threads : pc[t] = "set" => \A o \in Replaced(t) : byIdentifier[Identifier(o)] # None
=============================================================================
