------------------------ MODULE EmbeddedObjects_proofs ------------------------
(***************************************************************************)
(* Proofs about EmbeddedObjects for any threads, objects, identifiers and  *)
(* values: that a change is marked for saving always, that embedded        *)
(* objects are unique by identifier as long as they are not replaced, and  *)
(* that what a save writes of them are their fields, as long as            *)
(* replication does not change the document as well.                       *)
(***************************************************************************)
EXTENDS EmbeddedObjects, TLAPS

Exists(o) == o \in Objects /\ content[o] # None

\* What a thread has hold of exists.
ThreadInv(t) ==
  /\ pc[t] \in {"decode", "init"} => work[t].dictionary # None
  /\ pc[t] \in {"cache", "changed", "property"} => Exists(work[t].object)
  /\ work[t].target # None => Exists(work[t].target)

\* So do the objects that callers and the managed object have.
ObjectInv ==
  /\ TypeOK
  /\ \A o \in handed : Exists(o)
  /\ \A i \in Ids : byIdentifier[i] # None => Exists(byIdentifier[i])
  /\ cached # None => Exists(cached)
  /\ \A t \in Threads : ThreadInv(t)

\* Every embedded object is in the cache by identifier.
CacheInv ==
  /\ \A o \in Objects : Exists(o) => byIdentifier[Identifier(o)] = o
  /\ \A t \in Threads : pc[t] # "set" /\ work[t].for # "set"

\* There is one at most, that of the document if it has any; it differs from the
\* document only while it is changed, and what is decoded first is what the document
\* holds.
SavedInv ==
  /\ \A o, p \in Objects : Exists(o) /\ Exists(p) => o = p
  /\ \A o \in Objects : Exists(o) /\ document # None => Identifier(o) = document.id
  /\ \A o \in Objects : Exists(o) /\ document # None /\ ~changed =>
       document.field = content[o].field \/ \E t \in Threads : pc[t] = "changed" /\ work[t].object = o
  /\ changed => \E o \in Objects : Exists(o)
  /\ \A t \in Threads : pc[t] \in {"decode", "init"} =>
       /\ document # None => work[t].dictionary.id = document.id
       /\ \A o \in Objects : Exists(o) => work[t].dictionary.id = Identifier(o)
       /\ (\A o \in Objects : ~Exists(o)) => document # None /\ work[t].dictionary = document

-----------------------------------------------------------------------------
(* What there is hold of exists *)

\* The locals of a thread keep their types, whichever of them a step sets.
LEMMA WorkTypes ==
  ASSUME work \in [Threads -> Works], NEW t \in Threads
  PROVE  /\ NoWork \in Works
         /\ [work EXCEPT ![t] = NoWork] \in [Threads -> Works]
         /\ \A f \in {"get", "set", "save"} : [work EXCEPT ![t].for = f] \in [Threads -> Works]
         /\ \A o \in MaybeObject : [work EXCEPT ![t].object = o] \in [Threads -> Works]
         /\ \A d \in Dictionaries \cup {None} : [work EXCEPT ![t].dictionary = d] \in [Threads -> Works]
         /\ \A o \in MaybeObject :
              /\ [work EXCEPT ![t].for = "set", ![t].target = o] \in [Threads -> Works]
              /\ [work EXCEPT ![t].object = o, ![t].dictionary = None] \in [Threads -> Works]
<1>1. NoWork \in Works
  BY DEF NoWork, Works, MaybeObject
<1>2. work[t] \in Works
  OBVIOUS
<1>3. \A f \in {"get", "set", "save"} : [work[t] EXCEPT !.for = f] \in Works
  BY <1>2 DEF Works
<1>4. \A o \in MaybeObject : [work[t] EXCEPT !.object = o] \in Works
  BY <1>2 DEF Works
<1>5. \A d \in Dictionaries \cup {None} : [work[t] EXCEPT !.dictionary = d] \in Works
  BY <1>2 DEF Works
<1>6. \A o \in MaybeObject : [work[t] EXCEPT !.for = "set", !.target = o] \in Works
  BY <1>2, ZenonT(30) DEF Works
<1>7. \A o \in MaybeObject : [work[t] EXCEPT !.object = o, !.dictionary = None] \in Works
  BY <1>2, ZenonT(30) DEF Works
<1>8. QED
  BY <1>1, <1>3, <1>4, <1>5, <1>6, <1>7, ZenonT(30)

\* So does a getter's return.
LEMMA ReturnTypes ==
  ASSUME work \in [Threads -> Works], NEW t \in Threads, NEW o \in MaybeObject, Return(t, o)
  PROVE  work' \in [Threads -> Works]
<1>1. /\ [work EXCEPT ![t] = NoWork] \in [Threads -> Works]
      /\ [work EXCEPT ![t].object = o, ![t].dictionary = None] \in [Threads -> Works]
  BY WorkTypes, ZenonT(30)
<1>2. \/ work' = [work EXCEPT ![t] = NoWork]
      \/ work' = [work EXCEPT ![t].object = o, ![t].dictionary = None]
  BY DEF Return, Finish
<1>3. QED
  BY ZenonT(30), <1>1, <1>2

\* Nothing has been handed out at the start.
LEMMA ObjectInit == Init => ObjectInv
<1> SUFFICES ASSUME Init PROVE ObjectInv
  OBVIOUS
<1>1. NoWork \in Works
  BY DEF NoWork, Works, MaybeObject
<1>2. work \in [Threads -> Works]
  BY <1>1 DEF Init
<1>a. pulls \in 0..MaxPulls /\ changes \in 0..MaxChanges
  BY BoundAssumption DEF Init
<1>b. document \in Dictionaries \cup {None}
  BY StoredAssumption DEF Init
<1>3. TypeOK
  BY <1>2, <1>a, <1>b, ZenonT(30) DEF Init, TypeOK, MaybeObject
<1>4. QED
  BY <1>3 DEF Init, ObjectInv, ThreadInv, NoWork, Exists

\* Changes are counted.
LEMMA ChangesTypes ==
  ASSUME TypeOK, NEW replacing \in BOOLEAN, Changes(replacing)
  PROVE  changes' \in 0..MaxChanges /\ replaced' \in BOOLEAN
<1>1. changes' \in 0..MaxChanges
  BY BoundAssumption DEF Changes, TypeOK
<1>2. replaced' \in BOOLEAN
  BY DEF Changes, TypeOK
<1>3. QED
  BY <1>1, <1>2

\* An object is handed out, cached or kept by a thread only once it is initialised.
LEMMA ObjectNext == ObjectInv /\ [Next]_vars => ObjectInv'
<1> SUFFICES ASSUME ObjectInv, [Next]_vars PROVE ObjectInv'
  OBVIOUS
<1> DEFINE Labels == {"idle", "get", "read", "decode", "init", "cache", "changed", "property", "mark", "set", "write"}
<1>0. TypeOK /\ (\A u \in Threads : ThreadInv(u)) /\ (\A o \in handed : Exists(o))
  BY DEF ObjectInv
<1> USE NoneAssumption
<1>1. ASSUME NEW t \in Threads, Get(t) PROVE ObjectInv'
  <2>1. work' \in [Threads -> Works]
    BY <1>0, <1>1, WorkTypes, ZenonT(30) DEF Get, Goto, TypeOK, MaybeObject
  <2>2. pc' \in [Threads -> Labels]
    BY <1>0, <1>1 DEF Get, Goto, TypeOK
  <2>3. content' \in [Objects -> Dictionaries \cup {None}] /\ byIdentifier' \in [Ids -> MaybeObject]
    BY <1>0, <1>1 DEF Get, Goto, TypeOK, MaybeObject
  <2>4. TypeOK'
    BY <1>0, <1>1, <2>1, <2>2, <2>3 DEF Get, Goto, TypeOK, MaybeObject
  <2>5. QED
    BY <1>1, <2>4 DEF Get, Goto, TypeOK, Works, ObjectInv, ThreadInv, Exists, MaybeObject
<1>2. ASSUME NEW t \in Threads, GetUnsavedValue(t) PROVE ObjectInv'
  <2>0. None \in MaybeObject /\ cached \in MaybeObject
    BY <1>0 DEF TypeOK, MaybeObject
  <2>1. work' \in [Threads -> Works]
    <3>1. work \in [Threads -> Works]
      BY <1>0 DEF TypeOK
    <3>2. CASE cached # None
      BY <1>2, <2>0, <3>1, <3>2, ReturnTypes DEF GetUnsavedValue
    <3>3. QED
      BY <1>2, <3>1, <3>2 DEF GetUnsavedValue
  <2>2. pc' \in [Threads -> Labels]
    BY <1>0, <1>2 DEF GetUnsavedValue, Return, Finish, Goto, TypeOK
  <2>3. handed' \subseteq Objects
    BY <1>0, <1>2 DEF GetUnsavedValue, Return, Finish, TypeOK, MaybeObject
  <2>4. TypeOK'
    BY <1>0, <1>2, <2>1, <2>2, <2>3 DEF GetUnsavedValue, TypeOK
  <2>5. QED
    BY <1>2, <2>4 DEF GetUnsavedValue, Return, Finish, Goto, NoWork, TypeOK, Works, ObjectInv, ThreadInv, Exists, MaybeObject
<1>3. ASSUME NEW t \in Threads, ReadDocument(t) PROVE ObjectInv'
  <2>0. None \in MaybeObject /\ document \in Dictionaries \cup {None}
    BY <1>0 DEF TypeOK, MaybeObject
  <2>1. work' \in [Threads -> Works]
    <3>1. work \in [Threads -> Works]
      BY <1>0 DEF TypeOK
    <3>2. [work EXCEPT ![t].dictionary = document] \in [Threads -> Works]
      BY <2>0, <3>1, WorkTypes, ZenonT(30)
    <3>3. CASE document = None
      BY <1>3, <2>0, <3>1, <3>3, ReturnTypes DEF ReadDocument
    <3>4. QED
      BY <1>3, <3>2, <3>3 DEF ReadDocument
  <2>2. pc' \in [Threads -> Labels]
    BY <1>0, <1>3 DEF ReadDocument, Return, Finish, Goto, TypeOK
  <2>3. handed' \subseteq Objects
    BY <1>0, <1>3 DEF ReadDocument, Return, Finish, TypeOK, MaybeObject
  <2>4. TypeOK'
    BY <1>0, <1>3, <2>1, <2>2, <2>3 DEF ReadDocument, TypeOK
  <2>5. QED
    <3>1. \A u \in Threads : ThreadInv(u)'
      <4>1. ASSUME NEW u \in Threads, u # t PROVE ThreadInv(u)'
        BY <1>0, <1>3, <4>1 DEF ReadDocument, ThreadInv, TypeOK, Exists, Return, Finish, Goto
      <4>2. ThreadInv(t)'
        BY <1>0, <1>3 DEF ReadDocument, ThreadInv, TypeOK, Works, Exists, Return, Finish, Goto, NoWork
      <4>3. QED
        BY <4>1, <4>2
    <3>2. handed' \subseteq handed /\ UNCHANGED <<content, byIdentifier, cached>>
      BY <1>3, ZenonT(30) DEF ReadDocument, Return
    <3>3. QED
      BY <1>0, <2>4, <3>1, <3>2, ZenonT(30) DEF ObjectInv, Exists
<1>4. ASSUME NEW t \in Threads, Decode(t) PROVE ObjectInv'
  <2> DEFINE existing == byIdentifier[work[t].dictionary.id]
  <2>0. work[t].dictionary \in Dictionaries
    BY <1>0, <1>4 DEF Decode, ThreadInv, TypeOK, Works
  <2>a. work[t].dictionary.id \in Ids
    BY <2>0 DEF Dictionaries
  <2>b. existing \in MaybeObject /\ (existing # None => Exists(existing))
    BY <1>0, <2>a DEF ObjectInv, TypeOK
  <2>c. /\ pc[t] = "decode"
        /\ work' = [work EXCEPT ![t].object = existing]
        /\ pc' = [pc EXCEPT ![t] = IF existing # None THEN "cache" ELSE "init"]
        /\ UNCHANGED <<document, cached, changed, needsSave, byIdentifier, content, handed, pulls, changes, replaced>>
    BY <1>4 DEF Decode, Goto
  <2> HIDE DEF existing
  <2>1. work' \in [Threads -> Works]
    BY <1>0, <2>b, <2>c, WorkTypes, ZenonT(30) DEF TypeOK
  <2>2. pc' \in [Threads -> Labels]
    BY <1>0, <2>c DEF TypeOK
  <2>4. TypeOK'
    BY <1>0, <2>c, <2>1, <2>2 DEF TypeOK
  <2>5. \A u \in Threads : ThreadInv(u)'
    BY <1>0, <2>0, <2>b, <2>c DEF ThreadInv, TypeOK, Works, Exists
  <2>6. QED
    BY <2>c, <2>4, <2>5 DEF ObjectInv, Exists
<1>5. ASSUME NEW t \in Threads, InitWithDictionary(t) PROVE ObjectInv'
  <2> DEFINE dictionary == work[t].dictionary
  <2>0. dictionary \in Dictionaries
    BY <1>0, <1>5 DEF InitWithDictionary, ThreadInv, TypeOK, Works
  <2>a. dictionary.id \in Ids
    BY <2>0 DEF Dictionaries
  <2>1. PICK o \in Objects :
          /\ work' = [work EXCEPT ![t].object = o]
          /\ \/ Exists(o) /\ UNCHANGED <<content, byIdentifier>>
             \/ /\ o \in Unused
                /\ content' = [content EXCEPT ![o] = dictionary]
                /\ byIdentifier' = [byIdentifier EXCEPT ![dictionary.id] = o]
    BY <1>0, <1>5, <2>a DEF InitWithDictionary, Unused, ObjectInv, Exists
  <2>2. /\ pc' = [pc EXCEPT ![t] = "cache"]
        /\ UNCHANGED <<document, cached, changed, needsSave, handed, pulls, changes, replaced>>
    BY <1>5 DEF InitWithDictionary, Goto
  <2> HIDE DEF dictionary
  <2>3. Exists(o)' /\ \A p : Exists(p) => Exists(p)'
    BY <1>0, <2>0, <2>1 DEF Exists, TypeOK
  <2>4. /\ work' \in [Threads -> Works]
        /\ content' \in [Objects -> Dictionaries \cup {None}]
        /\ byIdentifier' \in [Ids -> MaybeObject]
    <3>1. o \in MaybeObject
      BY DEF MaybeObject
    <3>2. work \in [Threads -> Works]
      BY <1>0 DEF TypeOK
    <3>3. work' \in [Threads -> Works]
      BY <2>1, <3>1, <3>2, WorkTypes, ZenonT(30)
    <3>4. QED
      BY <1>0, <2>0, <2>1, <3>1, <3>3 DEF TypeOK
  <2>5. pc' \in [Threads -> Labels]
    BY <1>0, <2>2 DEF TypeOK
  <2>6. TypeOK'
    BY <1>0, <2>2, <2>4, <2>5 DEF TypeOK
  <2>7. \A u \in Threads : ThreadInv(u)'
    BY <1>0, <2>1, <2>2, <2>3 DEF ThreadInv, TypeOK, Works
  <2>9. \A i \in Ids : (byIdentifier[i] # None => Exists(byIdentifier[i]))'
    BY <1>0, <2>1, <2>3 DEF ObjectInv, TypeOK, Exists
  <2>10. QED
    BY <2>2, <2>3, <2>6, <2>7, <2>9 DEF ObjectInv
<1>6. ASSUME NEW t \in Threads, CacheDecoded(t) PROVE ObjectInv'
  <2> DEFINE o == work[t].object
  <2>0. Exists(o) /\ o \in MaybeObject /\ o # None
    BY <1>0, <1>6 DEF CacheDecoded, ThreadInv, Exists, MaybeObject
  <2>1. /\ byIdentifier' \in {byIdentifier, [byIdentifier EXCEPT ![Identifier(o)] = o]}
        /\ cached' = o
        /\ Return(t, o)
        /\ UNCHANGED <<document, changed, needsSave, content, pulls, changes, replaced>>
    BY <1>6 DEF CacheDecoded, Cache
  <2> HIDE DEF o
  <2>2. work' \in [Threads -> Works]
    BY <1>0, <2>0, <2>1, ReturnTypes DEF TypeOK
  <2>3. pc' \in [Threads -> Labels]
    BY <1>0, <2>1 DEF Return, Finish, Goto, TypeOK
  <2>4. handed' \subseteq handed \cup {o} /\ o \in Objects
    BY <2>0, <2>1 DEF Return, Exists
  <2>5. byIdentifier' \in [Ids -> MaybeObject] /\ \A i \in Ids : byIdentifier'[i] \in {byIdentifier[i], o}
    <3>1. byIdentifier \in [Ids -> MaybeObject] /\ o \in MaybeObject
      BY <1>0, <2>0, ZenonT(30) DEF TypeOK
    <3>2. QED
      BY <2>1, <3>1
  <2>6. TypeOK'
    BY <1>0, <2>0, <2>1, <2>2, <2>3, <2>4, <2>5 DEF TypeOK
  <2>7. \A u \in Threads : ThreadInv(u)'
    <3>1. ASSUME NEW u \in Threads, u # t PROVE ThreadInv(u)'
      BY <1>0, <2>1, <3>1 DEF ThreadInv, TypeOK, Exists, Return, Finish, Goto
    <3>2. ThreadInv(t)'
      BY <1>0, <2>0, <2>1 DEF ThreadInv, TypeOK, Works, Exists, Return, Finish, Goto, NoWork
    <3>3. QED
      BY <3>1, <3>2
  <2>8. QED
    BY <1>0, <2>0, <2>1, <2>4, <2>5, <2>6, <2>7 DEF ObjectInv, Exists
<1>7. ASSUME NEW t \in Threads, New(t) PROVE ObjectInv'
  <2>1. PICK o \in Unused, i \in NewIds, v \in Values :
          /\ content' = [content EXCEPT ![o] = [id |-> i, field |-> v, ref |-> None]]
          /\ byIdentifier' = [byIdentifier EXCEPT ![i] = o]
          /\ handed' = handed \cup {o}
          /\ UNCHANGED <<document, cached, changed, needsSave, pc, work, pulls>>
    BY <1>7, ZenonT(30) DEF New
  <2> DEFINE new == [id |-> i, field |-> v, ref |-> None]
  <2>2. new \in Dictionaries /\ i \in Ids /\ o \in Objects
    BY DEF Dictionaries, NewIds, Unused
  <2> HIDE DEF new
  <2>3. content' = [content EXCEPT ![o] = new]
    BY <2>1 DEF new
  <2>4. TypeOK'
    <3>1. changes' \in 0..MaxChanges /\ replaced' \in BOOLEAN
      BY <1>0, <1>7, ChangesTypes, ZenonT(30) DEF New
    <3>2. QED
      BY <1>0, <2>1, <2>2, <2>3, <3>1 DEF TypeOK, MaybeObject
  <2>5. Exists(o)' /\ \A p : Exists(p) => Exists(p)'
    BY <1>0, <2>2, <2>3 DEF Exists, TypeOK
  <2>6. \A u \in Threads : ThreadInv(u)'
    BY <1>0, <2>1, <2>5 DEF ThreadInv
  <2>7. \A k \in Ids : (byIdentifier[k] # None => Exists(byIdentifier[k]))'
    BY <1>0, <2>1, <2>2, <2>5 DEF ObjectInv, TypeOK, Exists
  <2>8. QED
    BY <1>0, <2>1, <2>4, <2>5, <2>6, <2>7 DEF ObjectInv
<1>8. ASSUME NEW t \in Threads, NEW o \in handed \cup {None}, Set(t, o) PROVE ObjectInv'
  <2>1. work' \in [Threads -> Works]
    BY <1>0, <1>8, WorkTypes, ZenonT(30) DEF Set, Goto, TypeOK, MaybeObject
  <2>2. pc' \in [Threads -> Labels]
    BY <1>0, <1>8 DEF Set, Goto, TypeOK
  <2>3. content' \in [Objects -> Dictionaries \cup {None}] /\ byIdentifier' \in [Ids -> MaybeObject]
    BY <1>0, <1>8 DEF Set, Goto, TypeOK, MaybeObject
  <2>4. TypeOK'
    <3>1. changes' \in 0..MaxChanges /\ replaced' \in BOOLEAN
      BY <1>0, <1>8, ChangesTypes, ZenonT(30) DEF Set
    <3>2. QED
      BY <1>0, <1>8, <2>1, <2>2, <2>3, <3>1 DEF Set, TypeOK
  <2>5. QED
    BY <1>8, <2>4 DEF Set, Goto, TypeOK, Works, ObjectInv, ThreadInv, Exists, MaybeObject
<1>9. ASSUME NEW t \in Threads, SetEmbeddedObject(t) PROVE ObjectInv'
  <2> DEFINE target == work[t].target
             rest == [i \in Ids |-> IF \E o \in Replaced(t) : Identifier(o) = i THEN None ELSE byIdentifier[i]]
  <2>0. target \in MaybeObject /\ (target # None => Exists(target))
    BY <1>0, ZenonT(30) DEF ThreadInv, TypeOK, Works
  <2>1. /\ byIdentifier' \in {rest, [rest EXCEPT ![Identifier(target)] = target]}
        /\ target = None => byIdentifier' = rest
        /\ \/ UNCHANGED <<cached, changed, needsSave>>
           \/ cached' = target /\ changed' = TRUE /\ needsSave' = TRUE
        /\ Finish(t)
        /\ UNCHANGED <<document, content, handed, pulls, changes, replaced>>
    BY <1>9 DEF SetEmbeddedObject, Cache
  <2>2. \A i \in Ids : rest[i] \in {None, byIdentifier[i]}
    OBVIOUS
  <2>3. rest \in [Ids -> MaybeObject]
    BY <1>0 DEF TypeOK, MaybeObject
  <2> HIDE DEF target, rest
  <2>4. byIdentifier' \in [Ids -> MaybeObject]
    BY <2>0, <2>1, <2>3
  <2>5. \A i \in Ids : byIdentifier'[i] \in {None, byIdentifier[i], target}
    BY <2>1, <2>2, <2>3
  <2>6. work' \in [Threads -> Works] /\ pc' \in [Threads -> Labels]
    BY <1>0, <2>1, WorkTypes, ZenonT(30) DEF Finish, Goto, TypeOK
  <2>a. /\ cached' \in MaybeObject /\ changed' \in BOOLEAN /\ needsSave' \in BOOLEAN
        /\ cached' # None => Exists(cached')
    BY <1>0, <2>0, <2>1, ZenonT(30) DEF TypeOK, ObjectInv
  <2>7. TypeOK'
    BY <1>0, <2>1, <2>4, <2>6, <2>a DEF TypeOK
  <2>8. \A u \in Threads : ThreadInv(u)'
    BY <1>0, <2>1 DEF ThreadInv, TypeOK, Finish, Goto, NoWork, Exists
  <2>9. QED
    BY <1>0, <2>0, <2>1, <2>5, <2>7, <2>8, <2>a, ZenonT(30) DEF ObjectInv, Exists
<1>10. ASSUME NEW t \in Threads, NEW o \in handed, NEW v \in Values, SetField(t, o, v) PROVE ObjectInv'
  <2> DEFINE edited == [content[o] EXCEPT !.field = v]
  <2>0. Exists(o) /\ content[o] \in Dictionaries
    BY <1>0 DEF ObjectInv, Exists, TypeOK
  <2>1. edited \in Dictionaries
    BY <2>0 DEF Dictionaries
  <2>2. content' = [content EXCEPT ![o] = edited]
    BY <1>0, <1>10, <2>0 DEF SetField, TypeOK
  <2> HIDE DEF edited
  <2>3. content' \in [Objects -> Dictionaries \cup {None}] /\ \A p : Exists(p) <=> Exists(p)'
    BY <1>0, <2>0, <2>1, <2>2 DEF Exists, TypeOK
  <2>4. work' \in [Threads -> Works] /\ pc' \in [Threads -> Labels]
    <3>1. o \in MaybeObject
      BY <2>0 DEF Exists, MaybeObject
    <3>2. QED
      BY <1>0, <1>10, <3>1, WorkTypes, ZenonT(30) DEF SetField, Goto, TypeOK
  <2>5. TypeOK'
    <3>1. changes' \in 0..MaxChanges /\ replaced' \in BOOLEAN
      BY <1>0, <1>10, ChangesTypes, ZenonT(30) DEF SetField
    <3>2. QED
      BY <1>0, <1>10, <2>3, <2>4, <3>1 DEF SetField, TypeOK
  <2>6. \A u \in Threads : ThreadInv(u)'
    BY <1>0, <1>10, <2>0, <2>3 DEF SetField, Goto, ThreadInv, TypeOK, Works
  <2>7. QED
    BY <1>0, <1>10, <2>3, <2>5, <2>6 DEF SetField, ObjectInv
<1>11. ASSUME NEW t \in Threads, NEW o \in handed, NEW r \in References, SetModel(t, o, r) PROVE ObjectInv'
  <2> DEFINE edited == [content[o] EXCEPT !.ref = r]
  <2>0. Exists(o) /\ content[o] \in Dictionaries
    BY <1>0 DEF ObjectInv, Exists, TypeOK
  <2>1. edited \in Dictionaries
    BY <2>0 DEF Dictionaries
  <2>2. content' = [content EXCEPT ![o] = edited]
    BY <1>0, <1>11, <2>0 DEF SetModel, TypeOK
  <2> HIDE DEF edited
  <2>3. content' \in [Objects -> Dictionaries \cup {None}] /\ \A p : Exists(p) <=> Exists(p)'
    BY <1>0, <2>0, <2>1, <2>2 DEF Exists, TypeOK
  <2>4. work' \in [Threads -> Works] /\ pc' \in [Threads -> Labels]
    <3>1. o \in MaybeObject
      BY <2>0 DEF Exists, MaybeObject
    <3>2. QED
      BY <1>0, <1>11, <3>1, WorkTypes, ZenonT(30) DEF SetModel, Goto, TypeOK
  <2>5. TypeOK'
    <3>1. changes' \in 0..MaxChanges /\ replaced' \in BOOLEAN
      BY <1>0, <1>11, ChangesTypes, ZenonT(30) DEF SetModel
    <3>2. QED
      BY <1>0, <1>11, <2>3, <2>4, <3>1 DEF SetModel, TypeOK
  <2>6. \A u \in Threads : ThreadInv(u)'
    BY <1>0, <1>11, <2>0, <2>3 DEF SetModel, Goto, ThreadInv, TypeOK, Works
  <2>7. QED
    BY <1>0, <1>11, <2>3, <2>5, <2>6 DEF SetModel, ObjectInv
<1>12. ASSUME NEW t \in Threads, CacheValue(t) PROVE ObjectInv'
  <2>1. pc' \in [Threads -> Labels]
    BY <1>0, <1>12 DEF CacheValue, Goto, TypeOK
  <2>2. Exists(cached') /\ cached' \in MaybeObject
    BY <1>0, <1>12 DEF CacheValue, ThreadInv, Exists, MaybeObject
  <2>3. TypeOK'
    BY <1>0, <1>12, <2>1, <2>2 DEF CacheValue, TypeOK
  <2>4. \A u \in Threads : ThreadInv(u)'
    BY <1>0, <1>12, ZenonT(30) DEF CacheValue, Goto, ThreadInv, TypeOK, Exists
  <2>5. QED
    BY <1>0, <1>12, <2>2, <2>3, <2>4 DEF CacheValue, ObjectInv, Exists
<1>m. ASSUME NEW t \in Threads, MarkPropertyNeedsSave(t) PROVE ObjectInv'
  <2>1. pc' \in [Threads -> Labels]
    BY <1>0, <1>m DEF MarkPropertyNeedsSave, Goto, TypeOK
  <2>2. TypeOK'
    BY <1>0, <1>m, <2>1 DEF MarkPropertyNeedsSave, TypeOK
  <2>3. \A u \in Threads : ThreadInv(u)'
    BY <1>0, <1>m, ZenonT(30) DEF MarkPropertyNeedsSave, Goto, ThreadInv, TypeOK, Exists
  <2>4. QED
    BY <1>m, <2>2, <2>3 DEF MarkPropertyNeedsSave, ObjectInv, Exists
<1>13. ASSUME NEW t \in Threads, MarkNeedsSave(t) PROVE ObjectInv'
  <2>1. work' \in [Threads -> Works]
    BY <1>0, <1>13, WorkTypes, ZenonT(30) DEF MarkNeedsSave, Finish, Goto, TypeOK, MaybeObject
  <2>2. pc' \in [Threads -> Labels]
    BY <1>0, <1>13 DEF MarkNeedsSave, Finish, Goto, TypeOK
  <2>3. content' \in [Objects -> Dictionaries \cup {None}] /\ byIdentifier' \in [Ids -> MaybeObject]
    BY <1>0, <1>13 DEF MarkNeedsSave, Finish, Goto, TypeOK, MaybeObject
  <2>4. TypeOK'
    BY <1>0, <1>13, <2>1, <2>2, <2>3 DEF MarkNeedsSave, Finish, Goto, TypeOK, MaybeObject
  <2>5. QED
    BY <1>13, <2>4 DEF MarkNeedsSave, Finish, Goto, NoWork, TypeOK, Works, ObjectInv, ThreadInv, Exists, MaybeObject
<1>14. ASSUME NEW t \in Threads, Save(t) PROVE ObjectInv'
  <2>1. work' \in [Threads -> Works]
    BY <1>0, <1>14, WorkTypes, ZenonT(30) DEF Save, Goto, TypeOK, MaybeObject
  <2>2. pc' \in [Threads -> Labels]
    BY <1>0, <1>14 DEF Save, Goto, TypeOK
  <2>3. content' \in [Objects -> Dictionaries \cup {None}] /\ byIdentifier' \in [Ids -> MaybeObject]
    BY <1>0, <1>14 DEF Save, Goto, TypeOK, MaybeObject
  <2>4. TypeOK'
    BY <1>0, <1>14, <2>1, <2>2, <2>3 DEF Save, Goto, TypeOK, MaybeObject
  <2>5. QED
    BY <1>14, <2>4 DEF Save, Goto, TypeOK, Works, ObjectInv, ThreadInv, Exists, MaybeObject
<1>15. ASSUME NEW t \in Threads, WriteRevision(t) PROVE ObjectInv'
  <2>1. work' \in [Threads -> Works]
    BY <1>0, <1>15, WorkTypes, ZenonT(30) DEF WriteRevision, Goto, TypeOK, MaybeObject
  <2>2. pc' \in [Threads -> Labels]
    BY <1>0, <1>15 DEF WriteRevision, Goto, TypeOK
  <2>3. content' \in [Objects -> Dictionaries \cup {None}] /\ byIdentifier' \in [Ids -> MaybeObject]
    BY <1>0, <1>15 DEF WriteRevision, Goto, TypeOK, MaybeObject
  <2>4. TypeOK'
    BY <1>0, <1>15, <2>1, <2>2, <2>3, ZenonT(30) DEF WriteRevision, Goto, TypeOK, MaybeObject
  <2>5. QED
    BY <1>15, <2>4 DEF WriteRevision, Goto, TypeOK, Works, ObjectInv, ThreadInv, Exists, MaybeObject
<1>16. ASSUME NEW t \in Threads, WriteFails(t) PROVE ObjectInv'
  <2>1. work' \in [Threads -> Works]
    BY <1>0, <1>16, WorkTypes, ZenonT(30) DEF WriteFails, Finish, Goto, TypeOK, MaybeObject
  <2>2. pc' \in [Threads -> Labels]
    BY <1>0, <1>16 DEF WriteFails, Finish, Goto, TypeOK
  <2>3. content' \in [Objects -> Dictionaries \cup {None}] /\ byIdentifier' \in [Ids -> MaybeObject]
    BY <1>0, <1>16 DEF WriteFails, Finish, Goto, TypeOK, MaybeObject
  <2>4. TypeOK'
    BY <1>0, <1>16, <2>1, <2>2, <2>3, ZenonT(30) DEF WriteFails, Finish, Goto, TypeOK, MaybeObject
  <2>5. QED
    BY <1>16, <2>4, SMTT(30)
       DEF WriteFails, Finish, Goto, NoWork, TypeOK, Works, ObjectInv, ThreadInv, Exists, MaybeObject
<1>17. ASSUME NEW d \in Stored \cup {None}, PullRevision(d) PROVE ObjectInv'
  <2>1. pulls' \in 0..MaxPulls
    BY <1>0, <1>17, BoundAssumption DEF PullRevision, TypeOK
  <2>2. d \in Dictionaries \cup {None} /\ cached' \in {cached, None}
    BY <1>17, StoredAssumption DEF PullRevision
  <2>3. TypeOK'
    BY <1>0, <1>17, <2>1, <2>2, ZenonT(30) DEF PullRevision, TypeOK, MaybeObject
  <2>4. QED
    BY <1>0, <1>17, <2>2, <2>3 DEF PullRevision, ObjectInv, ThreadInv, Exists
<1>18. CASE UNCHANGED vars
  BY <1>18 DEF vars, TypeOK, ObjectInv, ThreadInv, Exists
<1>19. QED
  BY <1>1, <1>2, <1>3, <1>4, <1>5, <1>6, <1>7, <1>8, <1>9, <1>10, <1>11, <1>12, <1>m, <1>13, <1>14, <1>15, <1>16,
     <1>17, <1>18
     DEF Next, Getter

\* Whatever getters, setters, saves and pulls do in any order, every variable keeps
\* its type: the document never gets an object in place of its dictionary.
THEOREM TypeCorrect == Spec => []TypeOK
<1>1. ObjectInv => TypeOK
  BY DEF ObjectInv
<1>2. QED
  BY <1>1, ObjectInit, ObjectNext, PTL DEF Spec

-----------------------------------------------------------------------------
(* Marks *)

\* A step that takes the mark away takes the change away as well, or leaves a thread
\* that is about to mark.
LEMMA MarkedNext == TypeOK /\ MarkedForSaving /\ [Next]_vars => MarkedForSaving'
<1> SUFFICES ASSUME TypeOK, MarkedForSaving, [Next]_vars PROVE MarkedForSaving'
  OBVIOUS
<1>0. pc \in [Threads -> {"idle", "get", "read", "decode", "init", "cache", "changed", "property", "mark", "set", "write"}]
  BY DEF TypeOK
<1> DEFINE Marking == \E t \in Threads : pc'[t] \in {"property", "mark"}
           Keeps == /\ UNCHANGED <<changed, needsSave>>
                    /\ \A t \in Threads : pc[t] \in {"property", "mark"} => pc'[t] \in {"property", "mark"}
<1>1. needsSave' = TRUE \/ changed' = FALSE \/ Marking \/ Keeps
  <2>1. ASSUME NEW t \in Threads, Get(t) \/ New(t) \/ Save(t) \/ WriteFails(t) PROVE Keeps
    BY <1>0, <2>1, ZenonT(30) DEF Get, New, Save, WriteFails, Finish, Goto
  <2>2. ASSUME NEW t \in Threads, Getter(t) PROVE Keeps
    BY <1>0, <2>2, ZenonT(30) DEF Getter, GetUnsavedValue, ReadDocument, Decode, InitWithDictionary, CacheDecoded, Return, Finish, Goto
  <2>3. ASSUME NEW t \in Threads, NEW o, Set(t, o) PROVE Keeps
    BY <1>0, <2>3 DEF Set, Goto
  <2>4. ASSUME NEW t \in Threads, NEW o, NEW v, SetField(t, o, v) PROVE Keeps
    BY <1>0, <2>4 DEF SetField, Goto
  <2>5. ASSUME NEW t \in Threads, NEW o, NEW r, SetModel(t, o, r) PROVE Marking
    BY <1>0, <2>5, ZenonT(30) DEF SetModel, Goto
  <2>6. ASSUME NEW t \in Threads, SetEmbeddedObject(t) PROVE needsSave' = TRUE \/ Keeps
    BY <1>0, <2>6, ZenonT(30) DEF SetEmbeddedObject, Finish, Goto
  <2>7. ASSUME NEW t \in Threads, CacheValue(t) \/ MarkPropertyNeedsSave(t) PROVE Marking
    BY <1>0, <2>7 DEF CacheValue, MarkPropertyNeedsSave, Goto
  <2>8. ASSUME NEW t \in Threads, MarkNeedsSave(t) PROVE needsSave' = TRUE
    BY <2>8 DEF MarkNeedsSave
  <2>9. ASSUME NEW t \in Threads, WriteRevision(t) PROVE changed' = FALSE \/ Keeps
    BY <1>0, <2>9 DEF WriteRevision, Goto
  <2>10. ASSUME NEW d, PullRevision(d) PROVE Keeps
    BY <2>10 DEF PullRevision
  <2>11. CASE UNCHANGED vars
    BY <2>11 DEF vars
  <2>12. QED
    BY <2>1, <2>2, <2>3, <2>4, <2>5, <2>6, <2>7, <2>8, <2>9, <2>10, <2>11, ZenonT(30) DEF Next
<1>2. QED
  BY <1>1, ZenonT(30) DEF MarkedForSaving

\* Any number of threads may change, replace and save an embedded object while
\* replication changes its document: the managed object of a changed property is
\* marked for saving, or a thread is about to mark it.
THEOREM ChangesAreMarked == Spec => []MarkedForSaving
<1>1. Init => MarkedForSaving
  BY DEF Init, MarkedForSaving
<1>2. QED
  BY <1>1, MarkedNext, TypeCorrect, PTL DEF Spec
-----------------------------------------------------------------------------
(* Identifiers, as long as no thread replaces the embedded object *)

\* What has been replaced or pulled stays so.
LEMMA Disturbed ==
  ASSUME ObjectInv, [Next]_vars
  PROVE  (~replaced' => ~replaced) /\ (pulls' = 0 => pulls = 0)
<1>1. ASSUME NEW t \in Threads, Get(t) \/ Getter(t) \/ SetEmbeddedObject(t) \/ CacheValue(t)
                                \/ MarkPropertyNeedsSave(t) \/ MarkNeedsSave(t) \/ Save(t) \/ WriteRevision(t) \/ WriteFails(t)
      PROVE  pulls' = pulls /\ replaced' = replaced
  BY <1>1 DEF Get, Getter, GetUnsavedValue, ReadDocument, Decode, InitWithDictionary, CacheDecoded, SetEmbeddedObject,
              CacheValue, MarkPropertyNeedsSave, MarkNeedsSave, Save, WriteRevision, WriteFails
<1>2. ASSUME NEW t \in Threads, NEW o, NEW v, New(t) \/ Set(t, o) \/ SetField(t, o, v) \/ SetModel(t, o, v)
      PROVE  pulls' = pulls /\ (~replaced' => ~replaced)
  BY <1>2, ZenonT(30) DEF New, Set, SetField, SetModel, Changes
<1>3. ASSUME NEW d, PullRevision(d) PROVE replaced' = replaced /\ pulls' # 0
  <2>1. pulls \in 0..MaxPulls /\ MaxPulls \in Nat /\ pulls' = pulls + 1
    BY <1>3, BoundAssumption DEF PullRevision, ObjectInv, TypeOK
  <2>2. replaced' = replaced
    BY <1>3 DEF PullRevision
  <2>3. QED
    BY <2>1, <2>2
<1>4. CASE UNCHANGED vars
  BY <1>4 DEF vars
<1>5. QED
  BY <1>1, <1>2, <1>3, <1>4 DEF Next

\* Only the setter takes an object out of the cache by identifier, and an object is
\* made only where that has none.
LEMMA CacheNext ==
  ASSUME ObjectInv, ~replaced => CacheInv, [Next]_vars, ~replaced' PROVE CacheInv'
<1> DEFINE NotSetting(u) == pc[u] # "set" /\ work[u].for # "set"
           Labels == {"idle", "get", "read", "decode", "init", "cache", "changed", "property", "mark", "set", "write"}
<1>c. CacheInv
  BY Disturbed
<1>0. /\ pc \in [Threads -> Labels] /\ work \in [Threads -> Works]
      /\ content \in [Objects -> Dictionaries \cup {None}]
      /\ byIdentifier \in [Ids -> MaybeObject]
      /\ \A o \in handed : Exists(o)
      /\ \A u \in Threads : ThreadInv(u)
      /\ \A u \in Threads : NotSetting(u)
  BY <1>c DEF ObjectInv, TypeOK, CacheInv
<1>1. ASSUME \A u \in Threads : NotSetting(u)', UNCHANGED <<content, byIdentifier>> PROVE CacheInv'
  BY <1>1, <1>c DEF CacheInv, Exists, Identifier
<1>2. ASSUME NEW t \in Threads, Get(t) \/ GetUnsavedValue(t) \/ ReadDocument(t) \/ Decode(t) PROVE CacheInv'
  <2>1. \A u \in Threads : NotSetting(u)'
    BY <1>0, <1>2 DEF Get, GetUnsavedValue, ReadDocument, Decode, Return, Finish, Goto, NoWork, Works
  <2>2. QED
    BY <1>1, <1>2, <2>1 DEF Get, GetUnsavedValue, ReadDocument, Decode
<1>3. ASSUME NEW t \in Threads, InitWithDictionary(t) PROVE CacheInv'
  <2> DEFINE dictionary == work[t].dictionary
  <2>1. \A u \in Threads : NotSetting(u)'
    BY <1>0, <1>3 DEF InitWithDictionary, Goto, Works
  <2>2. CASE UNCHANGED <<content, byIdentifier>>
    BY <1>1, <2>1, <2>2
  <2>3. ASSUME NEW o \in Unused, byIdentifier[dictionary.id] = None,
               content' = [content EXCEPT ![o] = dictionary],
               byIdentifier' = [byIdentifier EXCEPT ![dictionary.id] = o]
        PROVE  CacheInv'
    <3>1. dictionary \in Dictionaries
      BY <1>0, <1>3 DEF InitWithDictionary, ThreadInv, Works
    <3>2. dictionary.id \in Ids /\ o \in Objects
      BY <3>1 DEF Dictionaries, Unused
    <3>3. ASSUME NEW p \in Objects, Exists(p)' PROVE (byIdentifier[Identifier(p)] = p)'
      <4>1. CASE p = o
        BY <1>0, <2>3, <3>2, <4>1 DEF Identifier
      <4>2. CASE p # o
        <5>1. content'[p] = content[p] /\ byIdentifier[Identifier(p)] = p
          BY <1>0, <1>c, <2>3, <3>2, <3>3, <4>2, ZenonT(30) DEF CacheInv, Exists, Identifier
        <5>2. content[p].id \in Ids
          BY <1>0, <3>3, <5>1, NoneAssumption DEF Exists, Dictionaries
        <5>3. content[p].id # dictionary.id
          BY <2>3, <5>1, NoneAssumption DEF Identifier
        <5>4. QED
          BY <1>0, <2>3, <5>1, <5>2, <5>3 DEF Identifier
      <4>3. QED
        BY <4>1, <4>2
    <3>4. QED
      BY <2>1, <3>3 DEF CacheInv
  <2>4. QED
    BY <1>3, <2>2, <2>3 DEF InitWithDictionary
<1>4. ASSUME NEW t \in Threads, CacheDecoded(t) PROVE CacheInv'
  <2>1. \A u \in Threads : NotSetting(u)'
    BY <1>0, <1>4 DEF CacheDecoded, Return, Finish, Goto, NoWork, Works
  <2>2. byIdentifier[Identifier(work[t].object)] = work[t].object
    BY <1>0, <1>4, <1>c, ZenonT(30) DEF CacheDecoded, ThreadInv, CacheInv, Exists
  <2>3. UNCHANGED <<content, byIdentifier>>
    BY <1>0, <1>4, <2>2 DEF CacheDecoded, Cache
  <2>4. QED
    BY <1>1, <2>1, <2>3
<1>5. ASSUME NEW t \in Threads, NEW o, New(t) \/ Set(t, o) \/ SetEmbeddedObject(t) PROVE FALSE
  BY <1>0, <1>5, ZenonT(30) DEF New, Set, SetEmbeddedObject, Changes
<1>6. ASSUME NEW t \in Threads, NEW o \in handed, NEW v,
             SetField(t, o, v) \/ SetModel(t, o, v)
      PROVE  CacheInv'
  <2>0. /\ work' = [work EXCEPT ![t].object = o]
        /\ pc' = [pc EXCEPT ![t] = "changed"] \/ pc' = [pc EXCEPT ![t] = "mark"]
        /\ content' = [content EXCEPT ![o].field = v] \/ content' = [content EXCEPT ![o].ref = v]
        /\ byIdentifier' = byIdentifier
    BY <1>6, ZenonT(30) DEF SetField, SetModel, Goto
  <2>1. \A u \in Threads : NotSetting(u)'
    BY <1>0, <2>0 DEF Works
  <2>2. content[o] \in Dictionaries
    BY <1>0 DEF Exists
  <2>3. \A p \in Objects : content'[p].id = content[p].id /\ (content'[p] # None => Exists(p))
    BY <1>0, <2>0, <2>2 DEF Dictionaries, Exists
  <2>4. QED
    BY <1>c, <2>0, <2>1, <2>3 DEF CacheInv, Exists, Identifier
<1>7. ASSUME NEW t \in Threads, CacheValue(t) \/ MarkPropertyNeedsSave(t) \/ MarkNeedsSave(t) \/ Save(t)
                                \/ WriteRevision(t) \/ WriteFails(t)
      PROVE  CacheInv'
  <2>1. \A u \in Threads : NotSetting(u)'
    BY <1>0, <1>7 DEF CacheValue, MarkPropertyNeedsSave, MarkNeedsSave, Save, WriteRevision, WriteFails,
                      Finish, Goto, NoWork, Works
  <2>2. QED
    BY <1>1, <1>7, <2>1 DEF CacheValue, MarkPropertyNeedsSave, MarkNeedsSave, Save, WriteRevision, WriteFails
<1>8. ASSUME NEW d, PullRevision(d) \/ UNCHANGED vars PROVE CacheInv'
  BY <1>0, <1>1, <1>8 DEF PullRevision, vars
<1>9. QED
  BY <1>2, <1>3, <1>4, <1>5, <1>6, <1>7, <1>8 DEF Next, Getter

\* There are no objects at the start.
LEMMA CacheInit == Init => CacheInv
BY DEF Init, CacheInv, Exists, NoWork

\* As long as no thread replaces the embedded object, callers never get hold of two
\* objects with the same identifier, however many threads decode the document at the
\* same time and whatever replication writes to it.
THEOREM ObjectsAreUnique == Spec => []UniqueByIdentifier
<1> DEFINE Inv == ObjectInv /\ (~replaced => CacheInv)
<1>1. Init => Inv
  BY CacheInit, ObjectInit
<1>2. Inv /\ [Next]_vars => Inv'
  BY CacheNext, ObjectNext
<1>3. Inv => UniqueByIdentifier
  BY DEF ObjectInv, CacheInv, UniqueByIdentifier, Exists
<1>4. QED
  BY <1>1, <1>2, <1>3, PTL DEF Spec

-----------------------------------------------------------------------------
(* Saving, as long as only threads change the embedded object, without replacing it *)

\* The one object is made from the document, and its changes are written back to it.
LEMMA SavedNext ==
  ASSUME ObjectInv, CacheInv, SavedInv, [Next]_vars, ~replaced', pulls = 0, pulls' = 0
  PROVE  SavedInv'
<1> DEFINE Labels == {"idle", "get", "read", "decode", "init", "cache", "changed", "property", "mark", "set", "write"}
           Changing(u, o) == pc[u] = "changed" /\ work[u].object = o
           Decoding(u) == pc[u] \in {"decode", "init"}
<1> USE NoneAssumption
<1>0. /\ pc \in [Threads -> Labels] /\ work \in [Threads -> Works]
      /\ content \in [Objects -> Dictionaries \cup {None}]
      /\ changed \in BOOLEAN
      /\ \A o \in handed : Exists(o)
      /\ cached # None => Exists(cached)
      /\ \A u \in Threads : ThreadInv(u)
      /\ \A u \in Threads : pc[u] # "set" /\ work[u].for # "set"
  BY DEF ObjectInv, TypeOK, CacheInv
<1>1. ASSUME UNCHANGED <<document, content>>, ~changed' => ~changed,
             changed' => changed \/ \E o \in Objects : Exists(o),
             NEW t \in Threads, changed' \/ pc[t] # "changed",
             \A u \in Threads \ {t} : pc'[u] = pc[u] /\ work'[u] = work[u],
             Decoding(t)' => \/ Decoding(t) /\ work'[t].dictionary = work[t].dictionary
                             \/ document # None /\ work'[t].dictionary = document
      PROVE  SavedInv'
  <2>0. \A o \in Objects : (Exists(o)' <=> Exists(o)) /\ Identifier(o)' = Identifier(o)
    BY <1>1, ZenonT(30) DEF Exists, Identifier
  <2>1. ASSUME NEW o \in Objects, Exists(o)', document' # None PROVE Identifier(o)' = document'.id
    BY <1>1, <2>0, <2>1, ZenonT(30) DEF SavedInv
  <2>2. ASSUME NEW o \in Objects, Exists(o)', document' # None, ~changed'
        PROVE  \/ document'.field = content'[o].field
               \/ \E u \in Threads : pc'[u] = "changed" /\ work'[u].object = o
    <3>1. CASE document.field = content[o].field
      BY <1>1, <3>1, ZenonT(30)
    <3>2. ASSUME NEW u \in Threads, pc[u] = "changed", work[u].object = o
          PROVE  pc'[u] = "changed" /\ work'[u].object = o
      BY <1>1, <2>2, <3>2, ZenonT(30)
    <3>3. Exists(o) /\ document # None /\ ~changed
      BY <1>1, <2>0, <2>2, ZenonT(30)
    <3>4. QED
      BY <3>1, <3>2, <3>3, ZenonT(30) DEF SavedInv
  <2>3. changed' => \E o \in Objects : Exists(o)'
    BY <1>1, <2>0, ZenonT(30) DEF SavedInv
  <2>4. ASSUME NEW u \in Threads, Decoding(u)'
        PROVE  /\ document' # None => work'[u].dictionary.id = document'.id
               /\ \A o \in Objects : Exists(o)' => work'[u].dictionary.id = Identifier(o)'
               /\ (\A o \in Objects : ~Exists(o)') => document' # None /\ work'[u].dictionary = document'
    <3>1. \/ Decoding(u) /\ work'[u].dictionary = work[u].dictionary
          \/ document # None /\ work'[u].dictionary = document
      BY <1>1, <2>4, ZenonT(30)
    <3>2. CASE Decoding(u) /\ work'[u].dictionary = work[u].dictionary
      <4>1. /\ document # None => work[u].dictionary.id = document.id
            /\ \A o \in Objects : Exists(o) => work[u].dictionary.id = Identifier(o)
            /\ (\A o \in Objects : ~Exists(o)) => document # None /\ work[u].dictionary = document
        BY <3>2, ZenonT(30) DEF SavedInv
      <4>2. QED
        BY <1>1, <2>0, <3>2, <4>1, ZenonT(30)
    <3>3. CASE document # None /\ work'[u].dictionary = document
      <4>1. \A o \in Objects : Exists(o) => Identifier(o) = document.id
        BY <3>3, ZenonT(30) DEF SavedInv
      <4>2. QED
        BY <1>1, <2>0, <3>3, <4>1, ZenonT(30)
    <3>4. QED
      BY <3>1, <3>2, <3>3, ZenonT(30)
  <2>5. \A o, p \in Objects : Exists(o)' /\ Exists(p)' => o = p
    BY <2>0, ZenonT(30) DEF SavedInv
  <2>6. QED
    BY <2>1, <2>2, <2>3, <2>4, <2>5, ZenonT(30) DEF SavedInv
<1>2. ASSUME NEW t \in Threads, Get(t) \/ GetUnsavedValue(t) \/ Save(t) \/ WriteFails(t) \/ MarkNeedsSave(t)
      PROVE  SavedInv'
  <2>1. /\ UNCHANGED <<document, content, changed, cached>>
        /\ pc[t] # "changed" /\ ~Decoding(t)'
        /\ \A u \in Threads \ {t} : pc'[u] = pc[u] /\ work'[u] = work[u]
    BY <1>0, <1>2 DEF Get, GetUnsavedValue, Save, WriteFails, MarkNeedsSave, Return, Finish, Goto
  <2>2. QED
    BY <1>1, <2>1
<1>3. ASSUME NEW t \in Threads, ReadDocument(t) PROVE SavedInv'
  <2>1. /\ UNCHANGED <<document, content, changed, cached>>
        /\ pc[t] # "changed"
        /\ \A u \in Threads \ {t} : pc'[u] = pc[u] /\ work'[u] = work[u]
        /\ Decoding(t)' => document # None /\ work'[t].dictionary = document
    BY <1>0, <1>3 DEF ReadDocument, Return, Finish, Goto, Works
  <2>2. QED
    BY <1>1, <2>1
<1>4. ASSUME NEW t \in Threads, Decode(t) PROVE SavedInv'
  <2>1. /\ UNCHANGED <<document, content, changed, cached>>
        /\ pc[t] # "changed"
        /\ \A u \in Threads \ {t} : pc'[u] = pc[u] /\ work'[u] = work[u]
        /\ Decoding(t) /\ work'[t].dictionary = work[t].dictionary
    BY <1>0, <1>4 DEF Decode, Goto, Works
  <2>2. QED
    BY <1>1, <2>1
<1>5. ASSUME NEW t \in Threads, InitWithDictionary(t) PROVE SavedInv'
  <2>1. /\ UNCHANGED <<document, changed, cached>>
        /\ pc[t] = "init" /\ ~Decoding(t)'
        /\ \A u \in Threads \ {t} : pc'[u] = pc[u] /\ work'[u] = work[u]
    BY <1>0, <1>5 DEF InitWithDictionary, Goto
  <2>2. CASE UNCHANGED content
    BY <1>1, <2>1, <2>2, ZenonT(30)
  <2>3. ASSUME NEW o \in Unused, byIdentifier[work[t].dictionary.id] = None,
               content' = [content EXCEPT ![o] = work[t].dictionary]
        PROVE  SavedInv'
    <3>1. \A p \in Objects : ~Exists(p)
      <4> SUFFICES ASSUME NEW p \in Objects, Exists(p) PROVE FALSE
        OBVIOUS
      <4>1. work[t].dictionary.id = Identifier(p)
        BY <2>1, ZenonT(30) DEF SavedInv
      <4>2. byIdentifier[Identifier(p)] = p
        BY ZenonT(30) DEF CacheInv
      <4> QED
        BY <2>3, <4>1, <4>2, ZenonT(30)
    <3>2. document # None /\ work[t].dictionary = document
      BY <2>1, <3>1, ZenonT(30) DEF SavedInv
    <3>3. o \in Objects /\ content'[o] = document /\ \A p \in Objects : Exists(p)' => p = o
      BY <1>0, <2>3, <3>1, <3>2 DEF Unused, Exists
    <3>4. Exists(o)'
      BY <3>2, <3>3 DEF Exists
    <3>5. \A u \in Threads : Decoding(u)' => work'[u].dictionary = document
      BY <2>1, <3>1, ZenonT(30) DEF SavedInv
    <3>6. \A p \in Objects : Exists(p)' => content'[p] = document /\ Identifier(p)' = document.id
      BY <3>3, ZenonT(30) DEF Identifier
    <3>7. QED
      BY <2>1, <3>2, <3>3, <3>4, <3>5, <3>6, ZenonT(30) DEF SavedInv
  <2>4. QED
    BY <1>5, <2>2, <2>3 DEF InitWithDictionary
<1>6. ASSUME NEW t \in Threads, CacheDecoded(t) PROVE SavedInv'
  <2>1. /\ UNCHANGED <<document, content, changed>>
        /\ pc[t] # "changed" /\ ~Decoding(t)'
        /\ \A u \in Threads \ {t} : pc'[u] = pc[u] /\ work'[u] = work[u]
    BY <1>0, <1>6 DEF CacheDecoded, ThreadInv, Exists, Return, Finish, Goto
  <2>2. QED
    BY <1>1, <2>1
<1>7. ASSUME NEW t \in Threads, NEW o, New(t) \/ Set(t, o) \/ SetEmbeddedObject(t) PROVE FALSE
  BY <1>0, <1>7, ZenonT(30) DEF New, Set, SetEmbeddedObject, Changes
<1>8. ASSUME NEW t \in Threads, NEW o \in handed, NEW v \in Values, SetField(t, o, v) PROVE SavedInv'
  <2>1. Exists(o) /\ content[o] \in Dictionaries
    BY <1>0 DEF Exists
  <2>2. /\ \A p \in Objects : content'[p].id = content[p].id /\ (Exists(p)' => Exists(p))
        /\ content'[o] # None
    <3>1. [content[o] EXCEPT !.field = v] \in Dictionaries /\ [content[o] EXCEPT !.field = v].id = content[o].id
      BY <2>1 DEF Dictionaries
    <3>2. QED
      BY <1>0, <1>8, <2>1, <3>1 DEF SetField, Exists
  <2>3. /\ UNCHANGED <<document, changed, cached>>
        /\ Changing(t, o)' /\ ~Decoding(t)'
        /\ \A u \in Threads \ {t} : pc'[u] = pc[u] /\ work'[u] = work[u]
    BY <1>0, <1>8 DEF SetField, Goto, Works
  <2>4. \A p \in Objects : Exists(p)' => p = o
    BY <2>1, <2>2, ZenonT(30) DEF Exists, SavedInv
  <2>5. Exists(o)' /\ o \in Objects
    BY <2>1, <2>2, ZenonT(30) DEF Exists
  <2>6. Identifier(o)' = Identifier(o) /\ (document # None => Identifier(o) = document.id)
    BY <2>1, <2>2, <2>5, ZenonT(30) DEF SavedInv, Identifier
  <2>7. \A p \in Objects : Exists(p)' => \E u \in Threads : Changing(u, p)'
    BY <2>3, <2>4
  <2>8. ASSUME NEW u \in Threads, Decoding(u)'
        PROVE  /\ document' # None => work'[u].dictionary.id = document'.id
               /\ work'[u].dictionary.id = Identifier(o)'
    <3>1. Decoding(u) /\ work'[u] = work[u]
      BY <2>3, <2>8, ZenonT(30)
    <3>2. document # None => work[u].dictionary.id = document.id
      BY <3>1, ZenonT(30) DEF SavedInv
    <3>3. work[u].dictionary.id = Identifier(o)
      BY <2>1, <2>5, <3>1, ZenonT(30) DEF SavedInv
    <3>4. QED
      BY <2>3, <2>6, <3>1, <3>2, <3>3, ZenonT(30)
  <2>9. \A p \in Objects : Exists(p)' => Identifier(p)' = Identifier(o)'
    BY <2>4, ZenonT(30)
  <2>10. QED
    BY <2>3, <2>4, <2>5, <2>6, <2>7, <2>8, <2>9, ZenonT(30) DEF SavedInv
<1>b. ASSUME NEW t \in Threads, NEW o \in handed, NEW r \in References, SetModel(t, o, r) PROVE SavedInv'
  <2>1. Exists(o) /\ content[o] \in Dictionaries
    BY <1>0 DEF Exists
  <2>2. \A p \in Objects : /\ content'[p].id = content[p].id /\ content'[p].field = content[p].field
                           /\ Exists(p)' <=> Exists(p)
    <3> DEFINE edited == [content[o] EXCEPT !.ref = r]
    <3>1. edited \in Dictionaries /\ edited.id = content[o].id /\ edited.field = content[o].field
      BY <2>1 DEF Dictionaries
    <3>2. content' = [content EXCEPT ![o] = edited]
      BY <1>0, <1>b, <2>1 DEF SetModel
    <3> HIDE DEF edited
    <3>3. QED
      BY <1>0, <2>1, <3>1, <3>2 DEF Exists
  <2>3. /\ UNCHANGED <<document, changed, cached>>
        /\ pc[t] # "changed" /\ ~Decoding(t)'
        /\ \A u \in Threads \ {t} : pc'[u] = pc[u] /\ work'[u] = work[u]
    BY <1>0, <1>b, ZenonT(30) DEF SetModel, Goto
  <2>4. \A p \in Objects : (Exists(p)' <=> Exists(p)) /\ Identifier(p)' = Identifier(p)
    BY <2>2, ZenonT(30) DEF Identifier
  <2>5. ASSUME NEW p \in Objects, Exists(p)', document' # None, ~changed'
        PROVE  document'.field = content'[p].field \/ \E u \in Threads : pc'[u] = "changed" /\ work'[u].object = p
    <3>1. document.field = content[p].field \/ \E u \in Threads : pc[u] = "changed" /\ work[u].object = p
      BY <2>3, <2>4, <2>5, ZenonT(30) DEF SavedInv
    <3>2. CASE document.field = content[p].field
      BY <2>2, <2>3, <3>2, ZenonT(30)
    <3>3. CASE \E u \in Threads : pc[u] = "changed" /\ work[u].object = p
      BY <2>3, <3>3
    <3>4. QED
      BY <3>1, <3>2, <3>3, ZenonT(30)
  <2>6. ASSUME NEW u \in Threads, pc'[u] \in {"decode", "init"}
        PROVE  /\ document' # None => work'[u].dictionary.id = document'.id
               /\ \A p \in Objects : Exists(p)' => work'[u].dictionary.id = Identifier(p)'
               /\ (\A p \in Objects : ~Exists(p)') => document' # None /\ work'[u].dictionary = document'
    <3>1. u # t /\ pc'[u] = pc[u] /\ work'[u] = work[u]
      BY <2>3, <2>6
    <3>2. pc[u] \in {"decode", "init"}
      BY <2>6, <3>1, ZenonT(30)
    <3>3. /\ document # None => work[u].dictionary.id = document.id
          /\ \A p \in Objects : Exists(p) => work[u].dictionary.id = Identifier(p)
          /\ (\A p \in Objects : ~Exists(p)) => document # None /\ work[u].dictionary = document
      BY <3>2, ZenonT(30) DEF SavedInv
    <3>4. QED
      BY <2>3, <2>4, <3>1, <3>3, ZenonT(30)
  <2>7. changed' => \E p \in Objects : Exists(p)'
    BY <2>3, <2>4, ZenonT(30) DEF SavedInv
  <2>8. /\ \A p \in Objects : Exists(p)' /\ document' # None => Identifier(p)' = document'.id
        /\ \A p, q \in Objects : Exists(p)' /\ Exists(q)' => p = q
    <3>1. /\ \A p \in Objects : Exists(p) /\ document # None => Identifier(p) = document.id
          /\ \A p, q \in Objects : Exists(p) /\ Exists(q) => p = q
      BY ZenonT(30) DEF SavedInv
    <3>2. QED
      BY <2>3, <2>4, <3>1, ZenonT(30)
  <2>9. QED
    BY <2>5, <2>6, <2>7, <2>8, ZenonT(30) DEF SavedInv
<1>9. ASSUME NEW t \in Threads, CacheValue(t) \/ MarkPropertyNeedsSave(t) PROVE SavedInv'
  <2>1. /\ UNCHANGED <<document, content>> /\ changed' = TRUE
        /\ ~Decoding(t)'
        /\ \A u \in Threads \ {t} : pc'[u] = pc[u] /\ work'[u] = work[u]
    BY <1>0, <1>9, ZenonT(30) DEF CacheValue, MarkPropertyNeedsSave, Goto
  <2>2. Exists(work[t].object)
    BY <1>0, <1>9 DEF CacheValue, MarkPropertyNeedsSave, ThreadInv
  <2>3. \E o \in Objects : Exists(o)
    BY <2>2, ZenonT(30) DEF Exists
  <2>4. QED
    BY <1>1, <2>1, <2>3, ZenonT(30)
<1>10. ASSUME NEW t \in Threads, WriteRevision(t) PROVE SavedInv'
  <2>1. /\ UNCHANGED <<content, work>>
        /\ pc[t] # "changed" /\ ~Decoding(t)'
        /\ \A u \in Threads \ {t} : pc'[u] = pc[u] /\ work'[u] = work[u]
    BY <1>0, <1>10 DEF WriteRevision, Goto
  <2>2. CASE UNCHANGED <<document, changed>>
    BY <1>1, <2>1, <2>2, ZenonT(30)
  <2>3. CASE changed /\ changed' = FALSE /\ document' = IF cached = None THEN None ELSE content[cached]
    <3>1. PICK o \in Objects : Exists(o)
      BY <2>3, ZenonT(30) DEF SavedInv
    <3>2. \A p \in Objects : (Exists(p)' <=> p = o) /\ Identifier(p)' = Identifier(p)
      BY <2>1, <3>1, ZenonT(30) DEF SavedInv, Exists, Identifier
    <3>3. document' # None => document' = content[o]
      BY <1>0, <2>3, <3>1, ZenonT(30) DEF SavedInv, Exists
    <3>4. document' # None => Identifier(o)' = document'.id /\ document'.field = content'[o].field
      BY <2>1, <3>2, <3>3, ZenonT(30) DEF Identifier
    <3>5. \A u \in Threads : Decoding(u)' => work'[u].dictionary.id = Identifier(o)'
      <4>1. \A u \in Threads : Decoding(u) => work[u].dictionary.id = Identifier(o)
        BY <3>1, ZenonT(30) DEF SavedInv
      <4>2. QED
        BY <2>1, <3>2, <4>1, ZenonT(30)
    <3>6. \A u \in Threads : Decoding(u)' => /\ document' # None => work'[u].dictionary.id = document'.id
                                             /\ \A p \in Objects : Exists(p)' => work'[u].dictionary.id = Identifier(p)'
      BY <3>2, <3>4, <3>5, ZenonT(30)
    <3>7. \A p \in Objects : Exists(p)' /\ document' # None =>
            Identifier(p)' = document'.id /\ document'.field = content'[p].field
      BY <3>2, <3>4, ZenonT(30)
    <3>8. QED
      BY <2>3, <3>1, <3>2, <3>6, <3>7, ZenonT(30) DEF SavedInv
  <2>4. CASE ~changed /\ changed' = FALSE /\ UNCHANGED document
    BY <1>0, <1>1, <2>1, <2>4, ZenonT(30)
  <2>5. QED
    BY <1>0, <1>10, <2>2, <2>3, <2>4, ZenonT(30) DEF WriteRevision
<1>11. ASSUME NEW d, PullRevision(d) PROVE FALSE
  BY <1>11 DEF PullRevision
<1>12. CASE UNCHANGED vars
  BY <1>12, ZenonT(30) DEF vars, SavedInv, Exists, Identifier
<1>13. QED
  BY <1>2, <1>3, <1>4, <1>5, <1>6, <1>7, <1>8, <1>b, <1>9, <1>10, <1>11, <1>12 DEF Next, Getter

\* Likewise.
LEMMA SavedInit == Init => SavedInv
BY DEF Init, SavedInv, Exists

\* As long as threads only read, change and save an embedded object that is neither
\* replaced nor changed by replication, the fields of an object whose property is not
\* marked as changed are what the document holds: no change of a field is left out of
\* the saves, whichever threads save meanwhile.
THEOREM ChangesAreSaved == Spec => []CleanMeansSaved
<1> DEFINE Inv == /\ ObjectInv
                  /\ ~replaced => CacheInv
                  /\ ~replaced /\ pulls = 0 => SavedInv
<1>1. Init => Inv
  BY CacheInit, SavedInit, ObjectInit
<1>2. Inv /\ [Next]_vars => Inv'
  <2> SUFFICES ASSUME Inv, [Next]_vars PROVE Inv'
    OBVIOUS
  <2>1. ObjectInv' /\ (~replaced' => CacheInv')
    BY ObjectNext, CacheNext
  <2>2. ASSUME ~replaced', pulls' = 0 PROVE SavedInv'
    BY <2>2, Disturbed, SavedNext, ZenonT(30)
  <2>3. QED
    BY <2>1, <2>2
<1>3. Inv => CleanMeansSaved
  BY ZenonT(30) DEF ObjectInv, SavedInv, CleanMeansSaved, Exists
<1>4. QED
  BY <1>1, <1>2, <1>3, PTL DEF Spec
===============================================================================
