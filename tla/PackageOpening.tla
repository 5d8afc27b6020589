---------------------------- MODULE PackageOpening ----------------------------
(***************************************************************************)
(* -[MPDatabasePackageController initWithPath:readOnly:delegate:error:] on *)
(* the files of a package, across openings that fail and processes that    *)
(* end half way.  Every database is bootstrapped, if its subclass provides *)
(* data to start from and there is no file yet, then opened; one that      *)
(* SQLite finds not to be a database is removed, created again and         *)
(* remembered in databasesResetDuringInitialization.                       *)
(*                                                                         *)
(* What a database holds is abstracted to two parts: the bootstrap data    *)
(* and the work saved since.                                               *)
(***************************************************************************)
EXTENDS Naturals, FiniteSets

CONSTANTS Databases,         \* +databaseNames
          Bootstrapped,      \* those with a -bootstrapDatabaseURLForDatabaseWithName:
          WithAttachments,   \* those whose bootstrap data has an attachments directory
          None

ASSUME DatabasesAssumption == IsFiniteSet(Databases)
ASSUME BootstrapAssumption == Bootstrapped \subseteq Databases /\ WithAttachments \subseteq Bootstrapped
ASSUME NoneAssumption == None \notin Databases

Parts == {"bootstrap", "work"}

VARIABLES file,          \* "absent", "good" or "corrupt"
          holds,         \* the parts a good file holds
          attachments,   \* the attachments directory: "absent", "part" or "whole"
          pc,            \* where the initializer is; "open" once it has returned self
          database,      \* the database it is at
          todo,          \* the databases it has still to open
          didReset,      \* didResetDatabases
          reported,      \* databasesResetDuringInitialization
          removed,       \* history: removed as corrupt, and not yet reported
          cutShort       \* history: an opening ended after it had removed a database

disk == <<file, holds, attachments>>
vars == <<file, holds, attachments, pc, database, todo, didReset, reported, removed, cutShort>>

Steps == {"closed", "next", "attachments", "init", "corrupt", "removed", "controllers", "open"}

Init ==
  /\ file = [d \in Databases |-> "absent"]
  /\ holds = [d \in Databases |-> {}]
  /\ attachments = [d \in Databases |-> "absent"]
  /\ pc = "closed" /\ database = None /\ todo = {}
  /\ didReset = {} /\ reported = {}
  /\ removed = {} /\ cutShort = FALSE

\* The initializer goes on at step, with the files as they are.
Goes(step) ==
  /\ pc' = step
  /\ UNCHANGED <<disk, database, todo, didReset, reported, removed, cutShort>>

\* It returns nil, or the process ends.
Stops ==
  /\ pc' = "closed"
  /\ cutShort' = (cutShort \/ removed # {})
  /\ UNCHANGED <<database, todo, didReset, reported, removed>>

-----------------------------------------------------------------------------
Open ==
  /\ pc = "closed"
  /\ pc' = "next" /\ todo' = Databases /\ didReset' = {} /\ reported' = {}
  /\ UNCHANGED <<disk, database, removed, cutShort>>

(* -bootstrapDatabaseWithName:error: *)

\* Mutant: a file that exists is replaced by the bootstrap data.
NeedsBootstrap_Always(d) == d \in Bootstrapped

NeedsBootstrap(d) == d \in Bootstrapped /\ file[d] = "absent"

AttachmentsToCopy(d) == d \in WithAttachments /\ attachments[d] = "absent"

BootstrapNotNeeded(d) ==
  /\ pc = "next" /\ d \in todo
  /\ ~NeedsBootstrap(d)
  /\ pc' = "init" /\ database' = d
  /\ UNCHANGED <<disk, todo, didReset, reported, removed, cutShort>>

CopyDatabase(d) ==
  /\ pc = "next" /\ d \in todo
  /\ NeedsBootstrap(d)
  /\ file' = [file EXCEPT ![d] = "good"]
  /\ holds' = [holds EXCEPT ![d] = {"bootstrap"}]
  /\ pc' = IF AttachmentsToCopy(d) THEN "attachments" ELSE "init"
  /\ database' = d
  /\ UNCHANGED <<attachments, todo, didReset, reported, removed, cutShort>>

\* The copy fails or is cut off, which may leave a file that is no database.
CopyDatabaseFails(d) ==
  /\ pc = "next" /\ d \in todo
  /\ NeedsBootstrap(d)
  /\ file' \in {file, [file EXCEPT ![d] = "corrupt"]}
  /\ Stops
  /\ UNCHANGED <<holds, attachments>>

CopyAttachments ==
  /\ pc = "attachments"
  /\ attachments' = [attachments EXCEPT ![database] = "whole"]
  /\ pc' = "init"
  /\ UNCHANGED <<file, holds, database, todo, didReset, reported, removed, cutShort>>

CopyAttachmentsFails ==
  /\ pc = "attachments"
  /\ attachments' \in {attachments, [attachments EXCEPT ![database] = "part"]}
  /\ Stops
  /\ UNCHANGED <<file, holds>>

(* -initializeDatabaseNamed:server:error:, and once more after a reset *)

\* A database whose file is missing is created empty.
Create ==
  /\ file' = [file EXCEPT ![database] = "good"]
  /\ holds' = [holds EXCEPT ![database] = IF file[database] = "good" THEN @ ELSE {}]
  /\ UNCHANGED attachments

\* Mutant: the error is not looked at.
InitializeDatabase_IgnoresError ==
  /\ pc = "init"
  /\ todo' = todo \ {database}
  /\ pc' = IF todo' = {} THEN "controllers" ELSE "next"
  /\ UNCHANGED <<disk, database, didReset, reported, removed, cutShort>>

\* Mutant: the loop does not advance.
InitializeDatabase_Stays ==
  /\ pc = "init" /\ file[database] # "corrupt"
  /\ Create
  /\ pc' = "next"
  /\ UNCHANGED <<database, todo, didReset, reported, removed, cutShort>>

InitializeDatabase ==
  /\ pc = "init" /\ file[database] # "corrupt"
  /\ Create
  /\ todo' = todo \ {database}
  /\ pc' = IF todo' = {} THEN "controllers" ELSE "next"
  /\ UNCHANGED <<database, didReset, reported, removed, cutShort>>

\* SQLite error 26.
NotADatabase ==
  /\ pc = "init" /\ file[database] = "corrupt"
  /\ Goes("corrupt")

RemoveDatabase ==
  /\ pc = "corrupt"
  /\ file' = [file EXCEPT ![database] = "absent"]
  /\ removed' = removed \cup {database}
  /\ pc' = "removed"
  /\ UNCHANGED <<holds, attachments, database, todo, didReset, reported, cutShort>>

\* Mutant: the database is not added to didResetDatabases.
ResetDatabase_Forgets ==
  /\ pc = "removed"
  /\ Create
  /\ todo' = todo \ {database}
  /\ pc' = IF todo' = {} THEN "controllers" ELSE "next"
  /\ UNCHANGED <<didReset, database, reported, removed, cutShort>>

ResetDatabase ==
  /\ pc = "removed"
  /\ Create
  /\ didReset' = didReset \cup {database}
  /\ todo' = todo \ {database}
  /\ pc' = IF todo' = {} THEN "controllers" ELSE "next"
  /\ UNCHANGED <<database, reported, removed, cutShort>>

\* The controllers are made, the package is registered and self is returned.
Opened ==
  /\ pc = "controllers"
  /\ reported' = didReset
  /\ removed' = removed \ didReset
  /\ pc' = "open"
  /\ UNCHANGED <<disk, database, todo, didReset, cutShort>>

\* A step fails, or the process ends: nil.
OpeningFails ==
  /\ pc \in {"next", "init", "corrupt", "removed", "controllers"}
  /\ Stops
  /\ UNCHANGED disk

-----------------------------------------------------------------------------
Save(d) ==
  /\ pc = "open"
  /\ holds' = [holds EXCEPT ![d] = @ \cup {"work"}]
  /\ UNCHANGED <<file, attachments, pc, database, todo, didReset, reported, removed, cutShort>>

Close ==
  /\ pc = "open"
  /\ Goes("closed")

\* The file of a closed package is damaged.
Damage(d) ==
  /\ pc = "closed" /\ file[d] = "good"
  /\ file' = [file EXCEPT ![d] = "corrupt"]
  /\ UNCHANGED <<holds, attachments, pc, database, todo, didReset, reported, removed, cutShort>>

Opening ==
  \/ \E d \in Databases : BootstrapNotNeeded(d) \/ CopyDatabase(d) \/ CopyDatabaseFails(d)
  \/ CopyAttachments \/ CopyAttachmentsFails
  \/ InitializeDatabase \/ NotADatabase \/ RemoveDatabase \/ ResetDatabase
  \/ Opened \/ OpeningFails

Next ==
  \/ Open \/ Opening \/ Close
  \/ \E d \in Databases : Save(d) \/ Damage(d)

Spec == Init /\ [][Next]_vars

\* The initializer runs on.
FairSpec == Spec /\ WF_vars(Opening)

-----------------------------------------------------------------------------
(* Properties *)

TypeOK ==
  /\ file \in [Databases -> {"absent", "good", "corrupt"}]
  /\ holds \in [Databases -> SUBSET Parts]
  /\ attachments \in [Databases -> {"absent", "part", "whole"}]
  /\ pc \in Steps
  /\ database \in Databases \cup {None}
  /\ pc \notin {"closed", "next", "controllers", "open"} => database \in todo
  /\ todo \subseteq Databases
  /\ didReset \subseteq Databases /\ reported \subseteq Databases /\ removed \subseteq Databases
  /\ cutShort \in BOOLEAN

\* What the assertions of the initializer say of an opened package, whichever of
\* its files were missing, cut off or damaged: every database is there, with its
\* file, and none is handed out that SQLite could not read.
AllDatabasesOpen == pc \in {"controllers", "open"} => \A d \in Databases : file[d] = "good"

\* A database that was emptied because it was corrupt is in the list the owner of
\* the opened package restores from, unless an earlier opening that had removed it
\* did not get to the end.
ReportedUnlessCutShort == pc = "open" /\ ~cutShort => removed = {}

\* "List databases within the package that were determined to be corrupted during
\* initialization, and hence were reset to an empty state": the owner of an opened
\* package knows of every database that has been emptied since it last had one open.
ResetsAreReported == pc = "open" => removed = {}

\* "nothing needed if file already exists": a database that holds its bootstrap
\* data once the package is open has the attachments of that data as well.
AttachmentsCameAlong ==
  pc = "open" => \A d \in WithAttachments : "bootstrap" \in holds[d] => attachments[d] = "whole"

\* The initializer returns, self or nil.
OpeningEnds == pc \notin {"closed", "open"} ~> pc \in {"closed", "open"}

\* The files as databases: one is damaged until a new one has taken its place.
Content(d) ==
  IF file[d] = "corrupt" \/ (pc = "removed" /\ database = d) THEN {"damaged"}
  ELSE IF file[d] = "good" THEN holds[d]
  ELSE {"missing"}

Durable == INSTANCE DurableDatabases WITH content <- [d \in Databases |-> Content(d)]

\* Opening a package, in all its steps and wherever it stops, does to what the
\* databases hold only what DurableDatabases allows: bootstrap data come first and
\* all at once, saved work is never replaced, and only damage empties a database.
ContentIsDurable == Durable!Spec
=============================================================================
