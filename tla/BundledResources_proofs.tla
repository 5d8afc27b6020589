------------------------ MODULE BundledResources_proofs ------------------------
(***************************************************************************)
(* Proofs about BundledResources, for every set of releases and every      *)
(* content of their bundled files.                                         *)
(***************************************************************************)
EXTENDS BundledResources, FiniteSetTheorems, TLAPS

\* The versions of the files bundled with a release.
LEMMA BundleTypes ==
  ASSUME NEW v \in Versions
  PROVE  /\ Bundles[v] \in [db : DOMAIN Documents, json : DOMAIN Records]
         /\ Bundles[v].db \in DOMAIN Documents /\ Bundles[v].db \in Nat \ {0}
         /\ Bundles[v].json \in DOMAIN Records /\ Bundles[v].json \in Nat \ {0}
BY BundlesAssumption

\* TypeOK is inductive.
LEMMA TypeStep == TypeOK /\ [Next]_vars => TypeOK'
<1> SUFFICES ASSUME TypeOK, [Next]_vars PROVE TypeOK'
  OBVIOUS
<1> USE DEF TypeOK, Checksums, Steps, Bundle
<1>0. Bundle \in [db : DOMAIN Documents, json : DOMAIN Records]
  BY BundleTypes
<1>1. ASSUME NEW version \in Versions, Launch(version) PROVE TypeOK'
  BY <1>1 DEF Launch
<1>2. CASE Terminate
  BY <1>2 DEF Terminate
<1>3. CASE DatabaseUnchanged \/ DatabaseChanged \/ DatabaseFails \/ PurgeCompleted \/ JSONUnchanged
  BY <1>3 DEF DatabaseUnchanged, DatabaseChanged, DatabaseFails, PurgeCompleted, JSONUnchanged,
              AfterDatabase, AfterJSON
<1>4. ASSUME NEW d \in AllDocuments, PurgeDocument(d) \/ PullDocument(d) PROVE TypeOK'
  BY <1>0, <1>4 DEF PurgeDocument, PullDocument
<1>5. CASE PullStopped
  BY <1>5 DEF PullStopped
<1>6. CASE PullFailed
  BY <1>0, <1>6 DEF PullFailed
<1>7. CASE DatabaseLoaded
  BY <1>0, <1>7 DEF DatabaseLoaded, AfterDatabase
<1>8. CASE ImportRecords
  BY <1>0, <1>8 DEF ImportRecords, Imported
<1>9. CASE SaveChecksum
  BY <1>0, <1>9 DEF SaveChecksum, AfterJSON
<1>10. CASE JSONFails
  BY <1>0, <1>10 DEF JSONFails
<1>11. CASE UNCHANGED vars
  BY <1>11 DEF vars
<1>12. QED
  BY <1>1, <1>2, <1>3, <1>4, <1>5, <1>6, <1>7, <1>8, <1>9, <1>10, <1>11 DEF Next, Step

\* Every reachable state is well typed.
THEOREM TypeCorrect == Spec => []TypeOK
<1>1. ASSUME Init PROVE TypeOK
  <2>1. interrupted \in BOOLEAN
    BY <1>1, ZenonT(30) DEF Init
  <2>2. saved \in Checksums /\ metadata \in Checksums
    BY <1>1 DEF Init, Checksums
  <2>3. QED
    BY <1>1, <2>1, <2>2 DEF Init, TypeOK, Steps
<1>2. QED
  BY <1>1, TypeStep, PTL DEF Spec

-----------------------------------------------------------------------------
(* The JSON file *)

RecordsSaved == \A r \in Records[Bundle.json] : records[r] = Bundle.json

\* What makes RecordsAreThere inductive: the MPMetadata object, which a save
\* stores, is as truthful as the document; no checksum is of a file still to
\* come; and the records are there once the checksum is about to be set.
RecordsInv ==
  /\ saved.json <= Bundle.json
  /\ metadata.json <= Bundle.json
  /\ saved.json = Bundle.json \/ metadata.json = Bundle.json \/ pc = "checksum" => RecordsSaved

\* RecordsInv is inductive, given types.
LEMMA RecordsStep == TypeOK /\ RecordsInv /\ [Next]_vars => RecordsInv'
<1> SUFFICES ASSUME TypeOK, RecordsInv, [Next]_vars PROVE RecordsInv'
  OBVIOUS
<1> USE DEF RecordsInv
<1>0. /\ Bundle = Bundles[app] /\ app \in Versions
      /\ Bundle.json \in DOMAIN Records /\ Bundle.json \in Nat
      /\ saved.json \in Nat /\ metadata.json \in Nat
  BY BundleTypes, BundlesAssumption DEF TypeOK, Bundle, Checksums
<1>1. ASSUME NEW version \in Versions, Launch(version) PROVE RecordsInv'
  <2>1. Bundle' = Bundles[version] /\ Bundle'.json \in Nat /\ Bundle.json <= Bundle'.json
    BY <1>0, <1>1, BundleTypes, BundlesAssumption DEF Launch, Bundle
  <2>2. saved' = saved /\ metadata' = saved /\ records' = records /\ pc' # "checksum"
    BY <1>1 DEF Launch
  <2>3. ASSUME saved.json = Bundle'.json PROVE RecordsSaved'
    <3>1. saved.json = Bundle.json /\ Bundle'.json = Bundle.json
      BY <1>0, <2>1, <2>3
    <3>2. QED
      BY <2>2, <3>1 DEF RecordsSaved
  <2>4. QED
    BY <1>0, <2>1, <2>2, <2>3
<1>2. CASE Terminate \/ DatabaseUnchanged \/ DatabaseChanged \/ DatabaseFails \/ PurgeCompleted
           \/ JSONUnchanged \/ PullFailed
  BY <1>2 DEF Terminate, DatabaseUnchanged, DatabaseChanged, DatabaseFails, PurgeCompleted,
              JSONUnchanged, PullFailed, AfterDatabase, AfterJSON, Bundle, RecordsSaved
<1>3. ASSUME NEW d \in AllDocuments, PurgeDocument(d) \/ PullDocument(d) PROVE RecordsInv'
  BY <1>3 DEF PurgeDocument, PullDocument, Bundle, RecordsSaved
<1>4. CASE PullStopped
  BY <1>4 DEF PullStopped, Bundle, RecordsSaved
<1>5. CASE DatabaseLoaded
  <2>1. metadata'.json = metadata.json
    BY <1>5 DEF DatabaseLoaded, TypeOK, Checksums
  <2>2. QED
    BY <1>5, <2>1 DEF DatabaseLoaded, AfterDatabase, Bundle, RecordsSaved
<1>6. CASE ImportRecords
  <2>1. Records[Bundle.json] \subseteq AllRecords
    BY <1>0 DEF AllRecords
  <2>2. RecordsSaved'
    BY <1>6, <2>1 DEF ImportRecords, Imported, RecordsSaved, Bundle
  <2>3. QED
    BY <1>6, <2>2 DEF ImportRecords, Bundle
<1>7. CASE SaveChecksum
  <2>1. metadata'.json = Bundle.json /\ saved'.json = Bundle.json
    BY <1>7 DEF SaveChecksum, TypeOK, Checksums
  <2>2. QED
    BY <1>0, <1>7, <2>1 DEF SaveChecksum, Bundle, RecordsSaved
<1>8. CASE JSONFails
  <2>1. metadata' = metadata \/ (metadata'.json = Bundle.json /\ pc = "checksum")
    BY <1>8 DEF JSONFails, TypeOK, Checksums
  <2>2. QED
    BY <1>0, <1>8, <2>1 DEF JSONFails, Bundle, RecordsSaved
<1>9. CASE UNCHANGED vars
  BY <1>9 DEF vars, Bundle, RecordsSaved
<1>10. QED
  BY <1>1, <1>2, <1>3, <1>4, <1>5, <1>6, <1>7, <1>8, <1>9 DEF Next, Step

\* The checksum of the JSON file at hand is saved only once its records are, in
\* whatever order launches end, fail and are updated.
THEOREM RecordsOfChecksum == Spec => []RecordsAreThere
<1>1. Init => RecordsInv
  BY BundleTypes DEF Init, RecordsInv, Bundle
<1>2. RecordsInv => RecordsAreThere
  BY DEF RecordsInv, RecordsAreThere, RecordsSaved
<1>3. QED
  BY <1>1, <1>2, RecordsStep, TypeCorrect, PTL DEF Spec

-----------------------------------------------------------------------------
(* The bundled database *)

\* What makes PulledUnlessFailed inductive: no checksum is of a file still to
\* come; while documents are purged and pulled neither the object nor the saved
\* document has the checksum at hand; and a pull that ended was complete or is
\* known to have failed.
DocumentsInv ==
  /\ saved.db <= Bundle.db
  /\ metadata.db <= Bundle.db
  /\ Bundle.db \in {saved.db, metadata.db} => Bundle.db \in failedPulls \/ DocumentsAreThere
  /\ pc = "pulled" => Bundle.db \in failedPulls \/ DocumentsAreThere
  /\ pc \in {"purge", "pull"} => Bundle.db \notin {saved.db, metadata.db}
  /\ pc = "db" \/ (JSONFirst /\ pc \in {"json", "checksum"}) => saved.db = metadata.db

\* DocumentsInv is inductive, given types.
LEMMA DocumentsStep == TypeOK /\ DocumentsInv /\ [Next]_vars => DocumentsInv'
<1> SUFFICES ASSUME TypeOK, DocumentsInv, [Next]_vars PROVE DocumentsInv'
  OBVIOUS
<1> USE DEF DocumentsInv
<1>0. /\ Bundle = Bundles[app] /\ app \in Versions
      /\ Bundle.db \in DOMAIN Documents /\ Bundle.db \in Nat
      /\ saved.db \in Nat /\ metadata.db \in Nat
  BY BundleTypes, BundlesAssumption DEF TypeOK, Bundle, Checksums
<1>1. ASSUME NEW version \in Versions, Launch(version) PROVE DocumentsInv'
  <2>1. Bundle' = Bundles[version] /\ Bundle'.db \in Nat /\ Bundle.db <= Bundle'.db
    BY <1>0, <1>1, BundleTypes, BundlesAssumption DEF Launch, Bundle
  <2>2. /\ saved' = saved /\ metadata' = saved /\ documents' = documents
        /\ failedPulls' = failedPulls /\ pc' \in {"json", "db"}
    BY <1>1 DEF Launch
  <2>3. ASSUME saved.db = Bundle'.db PROVE Bundle'.db \in failedPulls \/ DocumentsAreThere'
    <3>1. saved.db = Bundle.db /\ Bundle'.db = Bundle.db
      BY <1>0, <2>1, <2>3
    <3>2. QED
      BY <2>2, <3>1 DEF DocumentsAreThere
  <2>4. QED
    BY <1>0, <2>1, <2>2, <2>3
<1>2. CASE Terminate \/ DatabaseUnchanged \/ PurgeCompleted \/ JSONUnchanged
  BY <1>2 DEF Terminate, DatabaseUnchanged, PurgeCompleted, JSONUnchanged,
              AfterDatabase, AfterJSON, Bundle, DocumentsAreThere
<1>3. CASE DatabaseChanged \/ DatabaseFails
  BY <1>3 DEF DatabaseChanged, DatabaseFails, Bundle, DocumentsAreThere
<1>4. ASSUME NEW d \in AllDocuments, PurgeDocument(d) \/ PullDocument(d) PROVE DocumentsInv'
  BY <1>4 DEF PurgeDocument, PullDocument, Bundle
<1>5. CASE PullStopped
  BY <1>5 DEF PullStopped, Bundle, DocumentsAreThere
<1>6. CASE PullFailed
  BY <1>6 DEF PullFailed, Bundle, DocumentsAreThere
<1>7. CASE DatabaseLoaded
  <2>1. metadata'.db = Bundle.db
    BY <1>7 DEF DatabaseLoaded, TypeOK, Checksums
  <2>2. QED
    BY <1>0, <1>7, <2>1 DEF DatabaseLoaded, AfterDatabase, Bundle, DocumentsAreThere
<1>8. CASE ImportRecords
  BY <1>8 DEF ImportRecords, Bundle, DocumentsAreThere
<1>9. CASE SaveChecksum
  <2>1. metadata'.db = metadata.db /\ saved'.db = metadata.db
    BY <1>9 DEF SaveChecksum, TypeOK, Checksums
  <2>2. QED
    BY <1>0, <1>9, <2>1 DEF SaveChecksum, AfterJSON, Bundle, DocumentsAreThere
<1>10. CASE JSONFails
  <2>1. metadata'.db = metadata.db
    BY <1>10 DEF JSONFails, TypeOK, Checksums
  <2>2. QED
    BY <1>0, <1>10, <2>1 DEF JSONFails, Bundle, DocumentsAreThere
<1>11. CASE UNCHANGED vars
  BY <1>11 DEF vars, Bundle, DocumentsAreThere
<1>12. QED
  BY <1>1, <1>2, <1>3, <1>4, <1>5, <1>6, <1>7, <1>8, <1>9, <1>10, <1>11 DEF Next, Step

\* A checksum of the bundled database at hand means that its documents have been
\* pulled, unless a pull of this version has failed.
THEOREM DocumentsOfChecksum == Spec => []PulledUnlessFailed
<1>1. Init => DocumentsInv
  BY BundleTypes DEF Init, DocumentsInv, Bundle
<1>2. DocumentsInv => PulledUnlessFailed
  BY DEF DocumentsInv, PulledUnlessFailed
<1>3. QED
  BY <1>1, <1>2, DocumentsStep, TypeCorrect, PTL DEF Spec

-----------------------------------------------------------------------------
(* How long loading can take *)

AllOf == Cardinality(AllDocuments)
ToPull == {d \in Documents[Bundle.db] : documents[d] # Bundle.db}

\* The steps loading the bundled database, and the JSON file, have still to take at
\* most: each document may have to be purged and to be pulled.
DatabaseLeft ==
  CASE pc = "db"     -> 2 * AllOf + 4
    [] pc = "purge"  -> AllOf + Cardinality(Loaded) + 3
    [] pc = "pull"   -> Cardinality(ToPull) + 2
    [] pc = "pulled" -> 1
    [] OTHER         -> 0

JSONLeft == IF pc = "json" THEN 2 ELSE IF pc = "checksum" THEN 1 ELSE 0

\* The file that comes second is still to be loaded while the first one is.
LoadingLeft ==
  CASE pc \in {"db", "purge", "pull", "pulled"} -> DatabaseLeft + (IF JSONFirst THEN 0 ELSE 2)
    [] pc \in {"json", "checksum"} -> JSONLeft + (IF JSONFirst THEN 2 * AllOf + 4 ELSE 0)
    [] OTHER -> 0

\* A step of loading leaves fewer, and nothing but the end of the process comes between.
LoadingShrinks ==
  /\ Step => LoadingLeft' < LoadingLeft
  /\ Terminate => LoadingLeft' = 0
  /\ ~(Step \/ Terminate \/ UNCHANGED vars) => LoadingLeft = 0

\* What is left to be purged and to be pulled can be counted.
Counts ==
  /\ AllOf \in Nat
  /\ IsFiniteSet(Loaded) /\ Cardinality(Loaded) \in 0..AllOf
  /\ IsFiniteSet(ToPull) /\ Cardinality(ToPull) \in 0..AllOf

\* The documents that are bundled being finitely many.
LEMMA Counted == TypeOK => Counts
<1> SUFFICES ASSUME TypeOK PROVE Counts
  OBVIOUS
<1>1. Bundle.db \in DOMAIN Documents
  BY BundleTypes DEF TypeOK, Bundle
<1>2. Loaded \subseteq AllDocuments /\ ToPull \subseteq AllDocuments
  BY <1>1 DEF Loaded, ToPull, AllDocuments
<1>3. AllOf \in Nat
  BY DocumentsAssumption, FS_CardinalityType DEF AllOf
<1>4. ASSUME NEW S \in SUBSET AllDocuments
      PROVE  IsFiniteSet(S) /\ Cardinality(S) \in Nat /\ Cardinality(S) <= AllOf
  BY DocumentsAssumption, FS_Subset, FS_CardinalityType DEF AllOf
<1>5. QED
  BY <1>2, <1>3, <1>4 DEF Counts

\* The same of the state after a step.
LEMMA CountedNext == TypeOK' => Counts'
BY Counted, PTL

\* The steps left are a number, and no more than for purging and pulling everything.
LEMMA LoadingBounded == TypeOK => LoadingLeft \in 0..(2 * AllOf + 6)
<1> SUFFICES ASSUME TypeOK PROVE LoadingLeft \in 0..(2 * AllOf + 6)
  OBVIOUS
<1>1. DatabaseLeft \in 0..(2 * AllOf + 4) /\ JSONLeft \in 0..2 /\ AllOf \in Nat
  BY Counted DEF Counts, DatabaseLeft, JSONLeft
<1>2. QED
  BY <1>1 DEF LoadingLeft

\* Every step of -didInitialize: leaves fewer.
LEMMA LoadingStep == TypeOK /\ TypeOK' /\ [Next]_vars => LoadingShrinks
<1>a. Terminate => LoadingLeft' = 0
  BY DEF Terminate, LoadingLeft
<1>b. [Next]_vars /\ ~(Step \/ Terminate \/ UNCHANGED vars) => LoadingLeft = 0
  <2>1. [Next]_vars /\ ~(Step \/ Terminate \/ UNCHANGED vars) => pc = "off"
    BY DEF Next, Launch
  <2>2. QED
    BY <2>1 DEF LoadingLeft
<1> SUFFICES ASSUME TypeOK, TypeOK', Step PROVE LoadingLeft' < LoadingLeft
  BY <1>a, <1>b DEF LoadingShrinks
<1>0. /\ AllOf \in Nat /\ AllOf' = AllOf
      /\ IsFiniteSet(Loaded) /\ Cardinality(Loaded) \in 0..AllOf
      /\ IsFiniteSet(ToPull) /\ Cardinality(ToPull) \in 0..AllOf
      /\ Cardinality(Loaded') \in 0..AllOf /\ Cardinality(ToPull') \in 0..AllOf
  <2>1. AllOf' = AllOf
    BY DEF AllOf, AllDocuments
  <2>2. Cardinality(Loaded') \in 0..AllOf' /\ Cardinality(ToPull') \in 0..AllOf'
    BY CountedNext DEF Counts
  <2>3. QED
    BY Counted, <2>1, <2>2 DEF Counts
<1> USE DEF LoadingLeft, DatabaseLeft, JSONLeft
<1>1. CASE DatabaseUnchanged \/ DatabaseLoaded
  BY <1>0, <1>1 DEF DatabaseUnchanged, DatabaseLoaded, AfterDatabase
<1>2. CASE DatabaseChanged \/ DatabaseFails
  BY <1>0, <1>2 DEF DatabaseChanged, DatabaseFails
<1>3. CASE PurgeCompleted \/ PullStopped \/ PullFailed
  BY <1>0, <1>3 DEF PurgeCompleted, PullStopped, PullFailed
<1>4. ASSUME NEW d \in AllDocuments, PurgeDocument(d) PROVE LoadingLeft' < LoadingLeft
  <2>1. d \in Loaded /\ Loaded' = Loaded \ {d} /\ pc = "purge" /\ pc' = "purge"
    BY <1>4 DEF PurgeDocument, Loaded, TypeOK
  <2>2. Cardinality(Loaded') = Cardinality(Loaded) - 1
    BY <1>0, <2>1, FS_RemoveElement, ZenonT(30)
  <2>3. QED
    BY <1>0, <2>1, <2>2
<1>5. ASSUME NEW d \in AllDocuments, PullDocument(d) PROVE LoadingLeft' < LoadingLeft
  <2>1. Bundle' = Bundle /\ Bundle.db \in DOMAIN Documents /\ Documents[Bundle.db] \subseteq AllDocuments
    BY <1>5, BundleTypes DEF PullDocument, Bundle, TypeOK, AllDocuments
  <2>2. d \in ToPull /\ ToPull' = ToPull \ {d} /\ pc = "pull" /\ pc' = "pull"
    BY <1>5, <2>1 DEF PullDocument, ToPull, TypeOK
  <2>3. Cardinality(ToPull') = Cardinality(ToPull) - 1
    BY <1>0, <2>2, FS_RemoveElement, ZenonT(30)
  <2>4. QED
    BY <1>0, <2>2, <2>3
<1>6. CASE JSONUnchanged \/ SaveChecksum
  BY <1>0, <1>6 DEF JSONUnchanged, SaveChecksum, AfterJSON
<1>7. CASE ImportRecords \/ JSONFails
  BY <1>0, <1>7 DEF ImportRecords, JSONFails
<1>8. QED
  BY <1>1, <1>2, <1>3, <1>4, <1>5, <1>6, <1>7 DEF Step

\* -didInitialize: returns after at most two steps for each document that was ever
\* bundled and six more, whichever of its steps fail and whatever an interrupted
\* launch has left: each step leaves fewer.  (LoadingEnds without the fairness.)
THEOREM LoadingIsBounded ==
  Spec => /\ [](LoadingLeft \in 0..(2 * AllOf + 6))
          /\ [][LoadingShrinks]_vars
BY TypeCorrect, LoadingBounded, LoadingStep, PTL DEF Spec
=============================================================================
