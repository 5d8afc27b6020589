--------------------------- MODULE BundledResources ---------------------------
(***************************************************************************)
(* Loading the data bundled with the application: -didInitialize: of two   *)
(* managed objects controllers of one database, one with a bundled         *)
(* database (-loadBundledDatabaseResources:) and one with a bundled JSON   *)
(* file (-loadBundledJSONResources:).  What was loaded is recorded as      *)
(* checksums in the MPMetadata document that the controllers share.  The   *)
(* process may end at any step, and the next launch may be of a newer      *)
(* version of the application, with newer bundled files.                   *)
(*                                                                         *)
(* A bundled file is known by its version number, which stands for its MD5 *)
(* digest; a document by the newest version that brought it a revision.     *)
(***************************************************************************)
EXTENDS Naturals, FiniteSets

CONSTANTS Bundles,     \* application version -> versions of its bundled files
          Documents,   \* version of the bundled database -> its documents
          Records,     \* version of the JSON file -> its records
          JSONFirst    \* whether the controller with the JSON file comes first

ASSUME JSONFirstAssumption == JSONFirst \in BOOLEAN
Versions == DOMAIN Bundles

\* Versions are numbered from 1, 0 is "never loaded"; a newer application never
\* brings back an older file.
ASSUME BundlesAssumption ==
  /\ Versions \subseteq Nat \ {0}
  /\ Bundles \in [Versions -> [db : DOMAIN Documents, json : DOMAIN Records]]
  /\ DOMAIN Documents \subseteq Nat \ {0}
  /\ DOMAIN Records \subseteq Nat \ {0}
  /\ \A v, w \in Versions : v <= w => Bundles[v].db <= Bundles[w].db /\ Bundles[v].json <= Bundles[w].json

AllDocuments == UNION {Documents[k] : k \in DOMAIN Documents}
AllRecords == UNION {Records[k] : k \in DOMAIN Records}
ASSUME DocumentsAssumption == IsFiniteSet(AllDocuments)

Checksums == [db : DOMAIN Documents \cup {0}, json : DOMAIN Records \cup {0}]

VARIABLES app,         \* version of the application that was launched last
          pc,          \* where -didInitialize: of the controllers is
          documents,   \* the database controller's documents: version loaded from
          records,     \* the JSON controller's documents, likewise
          saved,       \* the checksums in the saved metadata document
          metadata,    \* the checksums in the MPMetadata object
          failedPulls, \* history: database versions a pull of which has failed
          interrupted  \* history: whether a launch ended before all was loaded

vars == <<app, pc, documents, records, saved, metadata, failedPulls, interrupted>>

Steps == {"off", "db", "purge", "pull", "pulled", "json", "checksum", "ready", "failed"}

Init ==
  /\ app \in Versions
  /\ pc = "off"
  /\ documents = [d \in AllDocuments |-> 0]
  /\ records = [r \in AllRecords |-> 0]
  /\ saved = [db |-> 0, json |-> 0]
  /\ metadata = saved
  /\ failedPulls = {}
  /\ interrupted = FALSE

Bundle == Bundles[app]
Loaded == {d \in AllDocuments : documents[d] # 0}

\* What follows once a controller is done.
AfterDatabase == IF JSONFirst THEN "ready" ELSE "json"
AfterJSON == IF JSONFirst THEN "db" ELSE "ready"

-----------------------------------------------------------------------------
\* The application is launched, perhaps after an update, and reads the metadata.
Launch(version) ==
  /\ pc = "off"
  /\ version >= app
  /\ app' = version
  /\ metadata' = saved
  /\ pc' = IF JSONFirst THEN "json" ELSE "db"
  /\ UNCHANGED <<documents, records, saved, failedPulls, interrupted>>

\* The process ends, at any point.
Terminate ==
  /\ pc # "off"
  /\ pc' = "off"
  /\ interrupted' = (interrupted \/ pc # "ready")
  /\ UNCHANGED <<app, documents, records, saved, metadata, failedPulls>>

-----------------------------------------------------------------------------
(* The bundled database *)

\* The checksum matches: this version was loaded before.
DatabaseUnchanged ==
  /\ pc = "db"
  /\ metadata.db = Bundle.db
  /\ pc' = AfterDatabase
  /\ UNCHANGED <<app, documents, records, saved, metadata, failedPulls, interrupted>>

\* It does not: the files are copied to a temporary directory, documents of a
\* previous version are to be purged, and the pull starts.
DatabaseChanged ==
  /\ pc = "db"
  /\ metadata.db # Bundle.db
  /\ pc' = IF metadata.db # 0 THEN "purge" ELSE "pull"
  /\ UNCHANGED <<app, documents, records, saved, metadata, failedPulls, interrupted>>

PurgeDocument(d) ==
  /\ pc = "purge"
  /\ d \in Loaded
  /\ documents' = [documents EXCEPT ![d] = 0]
  /\ UNCHANGED <<app, pc, records, saved, metadata, failedPulls, interrupted>>

PurgeCompleted ==
  /\ pc = "purge"
  /\ Loaded = {}
  /\ pc' = "pull"
  /\ UNCHANGED <<app, documents, records, saved, metadata, failedPulls, interrupted>>

\* No temporary directory, a file that cannot be copied, a document that cannot be
\* purged or a pull that cannot be started: -didInitialize: returns NO.
DatabaseFails ==
  /\ pc \in {"db", "purge"}
  /\ pc' = "failed"
  /\ UNCHANGED <<app, documents, records, saved, metadata, failedPulls, interrupted>>

\* The replication brings a document over.
PullDocument(d) ==
  /\ pc = "pull"
  /\ d \in Documents[Bundle.db]
  /\ documents[d] # Bundle.db
  /\ documents' = [documents EXCEPT ![d] = Bundle.db]
  /\ UNCHANGED <<app, pc, records, saved, metadata, failedPulls, interrupted>>

\* Mutant: a replication that is idle or offline is taken for a completed one.
PullStopped_WhenIdle ==
  /\ pc = "pull"
  /\ pc' = "pulled"
  /\ saved' \in {saved, metadata}
  /\ UNCHANGED <<app, documents, records, metadata, failedPulls, interrupted>>

\* -processUpdatedBundledDataLoadReplication: once the replication has stopped:
\* the metadata are saved as they are, which may fail, and the wait ends.  (The
\* observer and the delegate are both told; the second save changes nothing.)
PullStopped ==
  /\ pc = "pull"
  /\ \A d \in Documents[Bundle.db] : documents[d] = Bundle.db
  /\ pc' = "pulled"
  /\ saved' \in {saved, metadata}
  /\ UNCHANGED <<app, documents, records, metadata, failedPulls, interrupted>>

\* Mutant: a pull that failed is started over, however often it fails.
PullFailed_StartsOver ==
  /\ pc = "pull"
  /\ documents' = [d \in AllDocuments |-> 0]
  /\ failedPulls' = failedPulls \cup {Bundle.db}
  /\ UNCHANGED <<app, pc, records, saved, metadata, interrupted>>

\* It stops with an error, which is posted, and the wait ends as well.
PullFailed ==
  /\ pc = "pull"
  /\ pc' = "pulled"
  /\ failedPulls' = failedPulls \cup {Bundle.db}
  /\ UNCHANGED <<app, documents, records, saved, metadata, interrupted>>

\* After the wait the checksum is set in the MPMetadata object.
DatabaseLoaded ==
  /\ pc = "pulled"
  /\ metadata' = [metadata EXCEPT !.db = Bundle.db]
  /\ pc' = AfterDatabase
  /\ UNCHANGED <<app, documents, records, saved, failedPulls, interrupted>>

-----------------------------------------------------------------------------
(* The bundled JSON file *)

JSONUnchanged ==
  /\ pc = "json"
  /\ metadata.json = Bundle.json
  /\ pc' = AfterJSON
  /\ UNCHANGED <<app, documents, records, saved, metadata, failedPulls, interrupted>>

Imported == [r \in AllRecords |-> IF r \in Records[Bundle.json] THEN Bundle.json ELSE records[r]]

\* Mutant: it goes unnoticed that the records could not be saved.
ImportRecords_IgnoresFailure ==
  /\ pc = "json"
  /\ metadata.json # Bundle.json
  /\ records' \in {records, Imported}
  /\ pc' = "checksum"
  /\ UNCHANGED <<app, documents, saved, metadata, failedPulls, interrupted>>

\* The records of a file with another checksum are saved, all of them or none.
ImportRecords ==
  /\ pc = "json"
  /\ metadata.json # Bundle.json
  /\ records' = Imported
  /\ pc' = "checksum"
  /\ UNCHANGED <<app, documents, saved, metadata, failedPulls, interrupted>>

\* Then the checksum is, with whatever else the metadata object holds.
SaveChecksum ==
  /\ pc = "checksum"
  /\ metadata' = [metadata EXCEPT !.json = Bundle.json]
  /\ saved' = metadata'
  /\ pc' = AfterJSON
  /\ UNCHANGED <<app, documents, records, failedPulls, interrupted>>

\* The records cannot be read or saved, or the checksum not be saved.
JSONFails ==
  /\ \/ pc = "json" /\ metadata.json # Bundle.json /\ UNCHANGED metadata
     \/ pc = "checksum" /\ metadata' = [metadata EXCEPT !.json = Bundle.json]
  /\ pc' = "failed"
  /\ UNCHANGED <<app, documents, records, saved, failedPulls, interrupted>>

-----------------------------------------------------------------------------
Step ==
  \/ DatabaseUnchanged \/ DatabaseChanged \/ DatabaseFails
  \/ PurgeCompleted \/ \E d \in AllDocuments : PurgeDocument(d) \/ PullDocument(d)
  \/ PullStopped \/ PullFailed \/ DatabaseLoaded
  \/ JSONUnchanged \/ ImportRecords \/ SaveChecksum \/ JSONFails

Next == Step \/ Terminate \/ \E version \in Versions : Launch(version)

Spec == Init /\ [][Next]_vars

\* -didInitialize: runs on and the replicator comes to a stop.
FairSpec == Spec /\ WF_vars(Step)

-----------------------------------------------------------------------------
(* Properties *)

TypeOK ==
  /\ app \in Versions
  /\ pc \in Steps
  /\ documents \in [AllDocuments -> DOMAIN Documents \cup {0}]
  /\ records \in [AllRecords -> DOMAIN Records \cup {0}]
  /\ saved \in Checksums
  /\ metadata \in Checksums
  /\ failedPulls \subseteq DOMAIN Documents
  /\ interrupted \in BOOLEAN

\* A saved checksum of the JSON file at hand means that its records have been
\* saved, wherever earlier launches ended: the records of a file whose checksum
\* matches are never missing from the database.
RecordsAreThere ==
  saved.json = Bundle.json => \A r \in Records[Bundle.json] : records[r] = Bundle.json

DocumentsAreThere == \A d \in Documents[Bundle.db] : documents[d] = Bundle.db

\* A checksum of the bundled database at hand, saved or not yet, means that all
\* its documents have been pulled, unless a pull of that version has failed.
PulledUnlessFailed ==
  Bundle.db \in {saved.db, metadata.db} \ failedPulls => DocumentsAreThere

\* -didInitialize: returns, whatever fails: the run loop it spins while the
\* bundled database is pulled does not spin for ever.
LoadingEnds == pc \notin {"off", "ready", "failed"} ~> pc \in {"off", "ready", "failed"}

\* "this version already loaded": a bundled database whose checksum is saved is
\* not loaded again, so it has been loaded.
ChecksumMeansLoaded == saved.db = Bundle.db => DocumentsAreThere

\* "if a previous version was loaded, purge the current version and then proceed
\* with the pull": when every launch has loaded all there was to load, and no
\* pull has failed, no document is left that only a previous version had.
OnlyCurrentVersion ==
  pc = "ready" /\ ~interrupted /\ failedPulls = {} => Loaded \subseteq Documents[Bundle.db]
=============================================================================
