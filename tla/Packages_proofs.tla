----------------------------- MODULE Packages_proofs -----------------------------
(***************************************************************************)
(* Proofs about database packages: about PackageOpening for any databases, *)
(* whichever of them are bootstrapped and have attachments; about          *)
(* PackageListeners for any packages, ports taken by others and number of  *)
(* retries; and about Replication for any documents, replications and      *)
(* number of revisions: what the remote databases may be sent, what the    *)
(* database may be given, and what is kept of pushes.                      *)
(***************************************************************************)
EXTENDS PackageOpening, PackageListeners, Replication, FiniteSetTheorems, TLAPS

-----------------------------------------------------------------------------
(* Opening *)

\* What is known of the database the initializer is at.
AtDatabase ==
  /\ pc = "attachments" => file[database] = "good"
  /\ pc = "init" /\ file[database] = "absent" => database \notin Bootstrapped
  /\ pc = "corrupt" => file[database] = "corrupt"
  /\ pc = "removed" => file[database] = "absent"

\* The databases behind it are open.
Behind ==
  /\ pc # "closed" => \A d \in Databases \ todo : file[d] = "good"
  /\ pc \in {"controllers", "open"} => todo = {}

\* What has been removed and not reported is known to the initializer, unless an
\* opening was cut short.
Known ==
  ~cutShort =>
    /\ pc \in {"closed", "open"} => removed = {}
    /\ pc = "removed" => removed \subseteq didReset \cup {database}
    /\ pc # "removed" => removed \subseteq didReset

IInv == TypeOK /\ AtDatabase /\ Behind /\ Known

\* The initial state satisfies the inductive invariant.
LEMMA InitIInv == Init => IInv
<1> SUFFICES ASSUME Init PROVE IInv OBVIOUS
<1>1. cutShort \in BOOLEAN BY ZenonT(30) DEF Init
<1>2. TypeOK BY <1>1 DEF Init, TypeOK, Steps, Parts
<1>3. AtDatabase /\ Behind /\ Known BY DEF Init, AtDatabase, Behind, Known
<1> QED BY <1>2, <1>3 DEF IInv

\* A step that stops the opening keeps the invariant, whatever it leaves of the files.
LEMMA StopsIInv ==
  ASSUME IInv, Stops, pc # "open",
         file' \in [Databases -> {"absent", "good", "corrupt"}],
         holds' \in [Databases -> SUBSET Parts],
         attachments' \in [Databases -> {"absent", "part", "whole"}]
  PROVE  IInv'
<1>1. cutShort' \in BOOLEAN BY ZenonT(30) DEF IInv, TypeOK, Stops
<1>2. TypeOK' BY <1>1 DEF IInv, TypeOK, Stops, Steps
<1>3. AtDatabase' /\ Behind' BY DEF AtDatabase, Behind, Stops
<1>4. Known' BY ZenonT(30) DEF Known, Stops
<1> QED BY <1>2, <1>3, <1>4 DEF IInv

\* Every step keeps the inductive invariant.
LEMMA NextIInv == IInv /\ [Next]_vars => IInv'
<1> SUFFICES ASSUME IInv, [Next]_vars PROVE IInv' OBVIOUS
<1> USE DEF Steps
<1>1. CASE Open
  <2>1. TypeOK' BY <1>1 DEF IInv, TypeOK, Open, disk
  <2>2. AtDatabase' /\ Behind' /\ Known' BY <1>1 DEF IInv, TypeOK, AtDatabase, Behind, Known, Open, disk
  <2> QED BY <2>1, <2>2 DEF IInv
<1>2. ASSUME NEW d \in Databases, BootstrapNotNeeded(d) PROVE IInv'
  <2>1. TypeOK' BY <1>2 DEF IInv, TypeOK, BootstrapNotNeeded, disk
  <2>2. AtDatabase' BY <1>2 DEF AtDatabase, BootstrapNotNeeded, NeedsBootstrap, disk
  <2>3. Behind' /\ Known' BY <1>2 DEF IInv, Behind, Known, BootstrapNotNeeded, disk
  <2> QED BY <2>1, <2>2, <2>3 DEF IInv
<1>3. ASSUME NEW d \in Databases, CopyDatabase(d) PROVE IInv'
  <2>1. TypeOK' BY <1>3 DEF IInv, TypeOK, CopyDatabase, Parts
  <2>2. AtDatabase' BY <1>3 DEF IInv, TypeOK, AtDatabase, CopyDatabase
  <2>3. Behind' /\ Known' BY <1>3 DEF IInv, TypeOK, Behind, Known, CopyDatabase
  <2> QED BY <2>1, <2>2, <2>3 DEF IInv
<1>4. ASSUME NEW d \in Databases, CopyDatabaseFails(d) PROVE IInv'
  <2>1. file' \in [Databases -> {"absent", "good", "corrupt"}] BY <1>4 DEF IInv, TypeOK, CopyDatabaseFails
  <2> QED BY <1>4, <2>1, StopsIInv DEF IInv, TypeOK, CopyDatabaseFails
<1>5. CASE CopyAttachments
  <2>1. TypeOK' BY <1>5 DEF IInv, TypeOK, CopyAttachments
  <2>2. AtDatabase' /\ Behind' /\ Known' BY <1>5 DEF IInv, TypeOK, AtDatabase, Behind, Known, CopyAttachments
  <2> QED BY <2>1, <2>2 DEF IInv
<1>6. CASE CopyAttachmentsFails
  <2>1. attachments' \in [Databases -> {"absent", "part", "whole"}] BY <1>6 DEF IInv, TypeOK, CopyAttachmentsFails
  <2> QED BY <1>6, <2>1, StopsIInv DEF IInv, TypeOK, CopyAttachmentsFails
<1>7. CASE InitializeDatabase
  <2>1. TypeOK' BY <1>7 DEF IInv, TypeOK, InitializeDatabase, Create
  <2>2. AtDatabase' /\ Known' BY <1>7 DEF IInv, AtDatabase, Known, InitializeDatabase
  <2>3. Behind' BY <1>7 DEF IInv, TypeOK, Behind, InitializeDatabase, Create
  <2> QED BY <2>1, <2>2, <2>3 DEF IInv
<1>8. CASE NotADatabase
  <2>1. TypeOK' BY <1>8 DEF IInv, TypeOK, NotADatabase, Goes, disk
  <2>2. AtDatabase' /\ Behind' /\ Known' BY <1>8 DEF IInv, AtDatabase, Behind, Known, NotADatabase, Goes, disk
  <2> QED BY <2>1, <2>2 DEF IInv
<1>9. CASE RemoveDatabase
  <2>1. TypeOK' BY <1>9 DEF IInv, TypeOK, RemoveDatabase
  <2>2. AtDatabase' /\ Behind' /\ Known' BY <1>9 DEF IInv, TypeOK, AtDatabase, Behind, Known, RemoveDatabase
  <2> QED BY <2>1, <2>2 DEF IInv
<1>10. CASE ResetDatabase
  <2>1. TypeOK' BY <1>10 DEF IInv, TypeOK, ResetDatabase, Create
  <2>2. AtDatabase' /\ Known' BY <1>10 DEF IInv, AtDatabase, Known, ResetDatabase
  <2>3. Behind' BY <1>10 DEF IInv, TypeOK, Behind, ResetDatabase, Create
  <2> QED BY <2>1, <2>2, <2>3 DEF IInv
<1>11. CASE Opened
  <2>1. TypeOK' BY <1>11 DEF IInv, TypeOK, Opened, disk
  <2>2. AtDatabase' /\ Behind' /\ Known' BY <1>11 DEF IInv, AtDatabase, Behind, Known, Opened, disk
  <2> QED BY <2>1, <2>2 DEF IInv
<1>12. CASE OpeningFails
  BY <1>12, StopsIInv DEF IInv, TypeOK, OpeningFails, disk
<1>13. CASE Close
  <2>1. TypeOK' BY <1>13 DEF IInv, TypeOK, Close, Goes, disk
  <2>2. AtDatabase' /\ Behind' /\ Known' BY <1>13 DEF IInv, AtDatabase, Behind, Known, Close, Goes, disk
  <2> QED BY <2>1, <2>2 DEF IInv
<1>14. ASSUME NEW d \in Databases, Save(d) PROVE IInv'
  <2>1. TypeOK' BY <1>14 DEF IInv, TypeOK, Save, Parts
  <2>2. AtDatabase' /\ Behind' /\ Known' BY <1>14 DEF IInv, AtDatabase, Behind, Known, Save
  <2> QED BY <2>1, <2>2 DEF IInv
<1>15. ASSUME NEW d \in Databases, Damage(d) PROVE IInv'
  <2>1. TypeOK' BY <1>15 DEF IInv, TypeOK, Damage
  <2>2. AtDatabase' /\ Behind' /\ Known' BY <1>15 DEF IInv, AtDatabase, Behind, Known, Damage
  <2> QED BY <2>1, <2>2 DEF IInv
<1>16. CASE UNCHANGED vars
  BY <1>16 DEF IInv, TypeOK, AtDatabase, Behind, Known, vars
<1> QED BY <1>1, <1>2, <1>3, <1>4, <1>5, <1>6, <1>7, <1>8, <1>9, <1>10, <1>11, <1>12, <1>13, <1>14, <1>15, <1>16, ZenonT(30) DEF Next, Opening

\* The inductive invariant holds in every state.
THEOREM Inductive == Spec => []IInv
<1> QED BY InitIInv, NextIInv, PTL DEF Spec

\* The variables have their types, and the database at hand is one still to open.
THEOREM TypeCorrect == Spec => []TypeOK
<1>1. IInv => TypeOK BY DEF IInv
<1> QED BY <1>1, Inductive, PTL

\* Every database of an opened package has a good file.
THEOREM OpenedInFull == Spec => []AllDatabasesOpen
<1>1. IInv => AllDatabasesOpen BY DEF IInv, Behind, AllDatabasesOpen
<1> QED BY <1>1, Inductive, PTL

\* An emptied database is reported, unless an opening was cut short.
THEOREM ResetsReported == Spec => []ReportedUnlessCutShort
<1>1. IInv => ReportedUnlessCutShort BY DEF IInv, Known, ReportedUnlessCutShort
<1> QED BY <1>1, Inductive, PTL

-----------------------------------------------------------------------------
(* The refinement *)

\* The files of an opening that stops hold what they held, save for a database
\* that had been removed or that was being copied.
LEMMA StepIsDurable ==
  IInv /\ [Next]_vars => [Durable!Next]_([d \in Databases |-> Content(d)])
<1> SUFFICES ASSUME IInv, [Next]_vars
             PROVE  \/ \E d \in Databases : \/ Durable!Start(d) \/ Durable!Spoil(d) \/ Durable!Save(d)
                                            \/ Durable!Damage(d) \/ Durable!Reset(d) \/ Durable!Lose(d)
                    \/ \A d \in Databases : Content(d)' = Content(d)
  BY DEF Durable!Next
<1> USE DEF Durable!Become, Durable!Missing, Durable!Damaged
<1> DEFINE Same == \A d \in Databases : Content(d)' = Content(d)
<1>1. CASE Open BY <1>1 DEF Open, disk, Content
<1>2. ASSUME NEW d \in Databases, BootstrapNotNeeded(d) PROVE Same
  BY <1>2 DEF BootstrapNotNeeded, disk, Content
<1>3. ASSUME NEW d \in Databases, CopyDatabase(d) PROVE Durable!Start(d)
  <2>1. Content(d) = {"missing"} BY <1>3 DEF CopyDatabase, NeedsBootstrap, Content
  <2>2. \A e \in Databases : Content(e)' = IF e = d THEN {"bootstrap"} ELSE Content(e)
    BY <1>3 DEF IInv, TypeOK, CopyDatabase, Content
  <2> QED BY <1>3, <2>1, <2>2, ZenonT(30) DEF Durable!Start, Durable!Initial, CopyDatabase, NeedsBootstrap
<1>4. ASSUME NEW d \in Databases, CopyDatabaseFails(d) PROVE Same \/ Durable!Spoil(d)
  <2>1. Content(d) = {"missing"} /\ d \in Bootstrapped
    BY <1>4 DEF CopyDatabaseFails, NeedsBootstrap, Content
  <2>2. CASE file' = file BY <1>4, <2>2 DEF CopyDatabaseFails, Stops, Content
  <2>3. CASE file' = [file EXCEPT ![d] = "corrupt"]
    <3>1. \A e \in Databases : Content(e)' = IF e = d THEN {"damaged"} ELSE Content(e)
      BY <1>4, <2>3, ZenonT(30) DEF IInv, TypeOK, CopyDatabaseFails, Stops, Content
    <3> QED BY <2>1, <3>1, ZenonT(30) DEF Durable!Spoil
  <2> QED BY <1>4, <2>2, <2>3 DEF CopyDatabaseFails
<1>5. CASE CopyAttachments BY <1>5 DEF CopyAttachments, Content
<1>6. CASE CopyAttachmentsFails BY <1>6 DEF CopyAttachmentsFails, Stops, Content
<1>7. ASSUME InitializeDatabase PROVE Same \/ \E d \in Databases : Durable!Start(d)
  <2>1. CASE file[database] = "good"
    BY <1>7, <2>1 DEF IInv, TypeOK, InitializeDatabase, Create, Content
  <2>2. CASE file[database] = "absent"
    <3>1. database \in Databases /\ database \notin Bootstrapped
      BY <1>7, <2>2, ZenonT(30) DEF IInv, TypeOK, AtDatabase, InitializeDatabase
    <3>2. Content(database) = {"missing"} BY <1>7, <2>2 DEF InitializeDatabase, Content
    <3>3. \A e \in Databases : Content(e)' = IF e = database THEN {} ELSE Content(e)
      BY <1>7, <2>2, <3>1, ZenonT(30) DEF IInv, TypeOK, InitializeDatabase, Create, Content
    <3> QED BY <3>1, <3>2, <3>3, ZenonT(30) DEF Durable!Start, Durable!Initial
  <2> QED BY <1>7, <2>1, <2>2 DEF IInv, TypeOK, InitializeDatabase
<1>8. CASE NotADatabase BY <1>8 DEF NotADatabase, Goes, disk, Content
<1>9. CASE RemoveDatabase BY <1>9 DEF IInv, TypeOK, AtDatabase, RemoveDatabase, Content
<1>10. ASSUME ResetDatabase PROVE \E d \in Databases : Durable!Reset(d)
  <2>1. Content(database) = {"damaged"} BY <1>10 DEF ResetDatabase, Content
  <2>2. database \in Databases BY <1>10 DEF IInv, TypeOK, ResetDatabase
  <2>3. \A e \in Databases : Content(e)' = IF e = database THEN {} ELSE Content(e)
    BY <1>10, <2>2, ZenonT(30) DEF IInv, TypeOK, AtDatabase, ResetDatabase, Create, Content
  <2> QED BY <2>1, <2>2, <2>3, ZenonT(30) DEF Durable!Reset
<1>11. CASE Opened BY <1>11 DEF Opened, disk, Content
<1>12. ASSUME OpeningFails PROVE Same \/ \E d \in Databases : Durable!Lose(d)
  <2>1. CASE pc # "removed" BY <1>12, <2>1 DEF OpeningFails, Stops, disk, Content
  <2>2. CASE pc = "removed"
    <3>1. database \in Databases /\ Content(database) = {"damaged"} BY <2>2 DEF IInv, TypeOK, Content
    <3>2. \A e \in Databases : Content(e)' = IF e = database THEN {"missing"} ELSE Content(e)
      BY <1>12, <2>2, ZenonT(30) DEF IInv, TypeOK, AtDatabase, OpeningFails, Stops, disk, Content
    <3> QED BY <3>1, <3>2, ZenonT(30) DEF Durable!Lose
  <2> QED BY <2>1, <2>2
<1>13. CASE Close BY <1>13 DEF Close, Goes, disk, Content
<1>14. ASSUME NEW d \in Databases, Save(d) PROVE Durable!Save(d)
  <2>1. file[d] = "good" BY <1>14 DEF IInv, Behind, Save
  <2>2. Content(d) = holds[d] /\ holds[d] \subseteq {"bootstrap", "work"}
    BY <1>14, <2>1 DEF IInv, TypeOK, Parts, Save, Content
  <2>3. \A e \in Databases : Content(e)' = IF e = d THEN Content(d) \cup {"work"} ELSE Content(e)
    BY <1>14, <2>1, <2>2 DEF IInv, TypeOK, Save, Content
  <2>4. Content(d) # {"missing"} /\ Content(d) # {"damaged"} BY <2>2
  <2> QED BY <2>3, <2>4, ZenonT(30) DEF Durable!Save, Durable!Intact
<1>15. ASSUME NEW d \in Databases, Damage(d) PROVE Durable!Damage(d)
  <2>1. Content(d) = holds[d] /\ holds[d] \subseteq {"bootstrap", "work"}
    BY <1>15 DEF IInv, TypeOK, Parts, Damage, Content
  <2>2. \A e \in Databases : Content(e)' = IF e = d THEN {"damaged"} ELSE Content(e)
    BY <1>15, ZenonT(30) DEF IInv, TypeOK, Damage, Content
  <2>3. Content(d) # {"missing"} /\ Content(d) # {"damaged"} BY <2>1
  <2> QED BY <2>2, <2>3, ZenonT(30) DEF Durable!Damage, Durable!Intact
<1>16. CASE UNCHANGED vars BY <1>16 DEF vars, Content
<1> QED BY <1>1, <1>2, <1>3, <1>4, <1>5, <1>6, <1>7, <1>8, <1>9, <1>10, <1>11, <1>12, <1>13, <1>14, <1>15, <1>16, ZenonT(30) DEF Next, Opening

\* What opening a package does to what its databases hold is what DurableDatabases
\* allows, for any databases and bootstrap data.
THEOREM DurableContent == Spec => ContentIsDurable
<1>1. Init => Durable!Init BY DEF Init, Durable!Init, Durable!Missing, Content
<1> QED BY <1>1, Inductive, StepIsDurable, PTL DEF Spec, ContentIsDurable, Durable!Spec

-----------------------------------------------------------------------------
(* How long an opening can take *)

\* The steps an opening has still to take at most: five for each database that is
\* still to be opened, less those taken for the one at hand, and one to return.
OpeningLeft ==
  CASE pc = "next"        -> 5 * Cardinality(todo) + 1
    [] pc = "attachments" -> 5 * Cardinality(todo)
    [] pc = "init"        -> 5 * Cardinality(todo) - 1
    [] pc = "corrupt"     -> 5 * Cardinality(todo) - 2
    [] pc = "removed"     -> 5 * Cardinality(todo) - 3
    [] pc = "controllers" -> 1
    [] OTHER              -> 0

\* A step of the opening leaves fewer, and no other step is taken before it ends.
OpeningShrinks ==
  /\ Opening => OpeningLeft' < OpeningLeft
  /\ ~(Opening \/ UNCHANGED vars) => OpeningLeft = 0

\* The databases to open can be counted; there is one while one is at hand.
LEMMA TodoCounted ==
  ASSUME IInv
  PROVE  /\ IsFiniteSet(todo) /\ Cardinality(todo) \in Nat
         /\ Cardinality(todo) <= Cardinality(Databases) /\ Cardinality(Databases) \in Nat
         /\ database \in todo =>
              Cardinality(todo) >= 1 /\ Cardinality(todo \ {database}) = Cardinality(todo) - 1
<1>1. todo \subseteq Databases BY DEF IInv, TypeOK
<1>2. /\ IsFiniteSet(todo) /\ Cardinality(todo) \in Nat
      /\ Cardinality(todo) <= Cardinality(Databases) /\ Cardinality(Databases) \in Nat
  BY <1>1, DatabasesAssumption, FS_Subset, FS_CardinalityType
<1>3. ASSUME database \in todo PROVE Cardinality(todo \ {database}) = Cardinality(todo) - 1
  BY <1>2, <1>3, FS_RemoveElement
<1>4. ASSUME database \in todo PROVE Cardinality(todo) >= 1
  <2>1. Cardinality(todo) # 0 BY <1>2, <1>4, FS_EmptySet
  <2> QED BY <1>2, <2>1
<1> QED BY <1>2, <1>3, <1>4

\* The steps left are a number, and no more than for all the databases.
LEMMA OpeningLeftBounded == IInv => OpeningLeft \in 0..(5 * Cardinality(Databases) + 1)
<1> SUFFICES ASSUME IInv PROVE OpeningLeft \in 0..(5 * Cardinality(Databases) + 1) OBVIOUS
<1>1. pc \in {"attachments", "init", "corrupt", "removed"} => database \in todo
  BY DEF IInv, TypeOK, Steps
<1>2. pc \in Steps BY DEF IInv, TypeOK
<1> QED BY <1>1, <1>2, TodoCounted DEF OpeningLeft, Steps

\* Every step of the initializer leaves fewer.
LEMMA OpeningStepsShrink == IInv /\ [Next]_vars => OpeningShrinks
<1>a. ASSUME [Next]_vars, ~(Opening \/ UNCHANGED vars) PROVE OpeningLeft = 0
  <2>1. pc \in {"closed", "open"} BY <1>a DEF Next, Open, Close, Save, Damage
  <2> QED BY <2>1 DEF OpeningLeft
<1> SUFFICES ASSUME IInv, Opening PROVE OpeningLeft' < OpeningLeft BY <1>a DEF OpeningShrinks
<1>0. /\ Cardinality(todo) \in Nat
      /\ database \in todo =>
           Cardinality(todo) >= 1 /\ Cardinality(todo \ {database}) = Cardinality(todo) - 1
  BY TodoCounted
<1>1. ASSUME NEW d \in Databases, BootstrapNotNeeded(d) \/ CopyDatabase(d) PROVE OpeningLeft' < OpeningLeft
  BY <1>0, <1>1 DEF BootstrapNotNeeded, CopyDatabase, OpeningLeft
<1>2. ASSUME pc \in Steps \ {"closed", "open"}, pc' = "closed" PROVE OpeningLeft' < OpeningLeft
  <2>1. pc \in {"attachments", "init", "corrupt", "removed"} => database \in todo
    BY DEF IInv, TypeOK, Steps
  <2> QED BY <1>0, <1>2, <2>1 DEF OpeningLeft, Steps
<1>3. CASE CopyAttachmentsFails \/ OpeningFails \/ \E d \in Databases : CopyDatabaseFails(d)
  BY <1>2, <1>3 DEF CopyAttachmentsFails, OpeningFails, CopyDatabaseFails, Stops, Steps
<1>4. CASE CopyAttachments \/ NotADatabase \/ RemoveDatabase
  BY <1>0, <1>4 DEF CopyAttachments, NotADatabase, RemoveDatabase, Goes, OpeningLeft
<1>5. CASE InitializeDatabase \/ ResetDatabase
  <2>1. /\ pc \in {"init", "removed"} /\ database \in todo
        /\ todo' = todo \ {database} /\ pc' \in {"controllers", "next"}
        /\ pc' = "controllers" => todo' = {}
    BY <1>5 DEF IInv, TypeOK, Steps, InitializeDatabase, ResetDatabase
  <2>2. Cardinality(todo') = Cardinality(todo) - 1 /\ Cardinality(todo) >= 1
    BY <1>0, <2>1
  <2> QED BY <1>0, <2>1, <2>2 DEF OpeningLeft
<1>6. CASE Opened
  BY <1>6 DEF Opened, OpeningLeft
<1> QED BY <1>1, <1>3, <1>4, <1>5, <1>6 DEF Opening

\* The initializer ends after at most five steps for each database and one more,
\* however files are missing, damaged or half copied: each step leaves fewer.
\* (OpeningEnds without the fairness: what fairness is to drive comes to an end.)
THEOREM OpeningIsBounded ==
  Spec => /\ [](OpeningLeft \in 0..(5 * Cardinality(Databases) + 1))
          /\ [][OpeningShrinks]_vars
BY Inductive, OpeningLeftBounded, OpeningStepsShrink, PTL DEF Spec

-----------------------------------------------------------------------------
(* Listeners *)

\* While a block tries ports, those it has found taken lie below the one it tries
\* next, and there is one for every retry.
TriedInv ==
  \A p \in Packages :
    /\ IsFiniteSet(tried[p])
    /\ Cardinality(tried[p]) = retries[p]
    /\ start[p] \in {"none", "queued"} => retries[p] = 0
    /\ start[p] = "trying" => retries[p] < MaxRetryCount
                              /\ (\A n \in tried[p] : n < port[p])
    /\ start[p] = "failed" => retries[p] = MaxRetryCount

\* A close that has passed the server queue has the starting block behind it.
CloseInv ==
  \A p \in Packages :
    /\ p \in counted => start[p] # "none"
    /\ closing[p] # "no" => start[p] \in {"started", "failed", "done"}
    /\ p \in listening => start[p] \in {"started", "done"}

ListenersInv == ListenersTypeOK /\ ClosedDoesNotListen /\ TriedInv /\ CloseInv

\* No package listens at the start.
LEMMA InitListeners == ListenersInit => ListenersInv
<1> SUFFICES ASSUME ListenersInit PROVE ListenersInv
  OBVIOUS
<1>1. ListenersTypeOK
  BY RetryAssumption DEF ListenersInit, ListenersTypeOK, Starts
<1>2. ClosedDoesNotListen
  BY DEF ListenersInit, ClosedDoesNotListen
<1>3. TriedInv
  BY FS_EmptySet DEF ListenersInit, TriedInv
<1>4. CloseInv
  BY DEF ListenersInit, CloseInv
<1> QED BY <1>1, <1>2, <1>3, <1>4 DEF ListenersInv

\* The steps that leave the listeners and their attempts alone.
LEMMA OtherListenerSteps ==
  ASSUME ListenersInv, NEW p \in Packages,
         StartListener(p) \/ DidOpenPackage(p) \/ Complete(p)
           \/ CheckTransactions(p) \/ StopListener(p) \/ CloseServer(p)
  PROVE  ListenersInv'
<1> USE DEF ListenersInv
<1>1. CASE StartListener(p)
  BY <1>1, ZenonT(30)
     DEF StartListener, ListenersTypeOK, Starts, ClosedDoesNotListen, TriedInv, CloseInv
<1>2. CASE DidOpenPackage(p)
  <2>1. packagesOpened' \in Nat
    BY <1>2 DEF DidOpenPackage, ListenersTypeOK
  <2> QED
    BY <1>2, <2>1, ZenonT(30)
       DEF DidOpenPackage, ListenersTypeOK, ClosedDoesNotListen, TriedInv, CloseInv
<1>3. CASE Complete(p)
  BY <1>3, ZenonT(30) DEF Complete, ListenersTypeOK, Starts, ClosedDoesNotListen, TriedInv, CloseInv
<1>4. CASE CheckTransactions(p)
  <2>1. /\ closing' \in [Packages -> {"no", "stop", "server", "closed"}]
        /\ closing'[p] = "stop" /\ \A q \in Packages \ {p} : closing'[q] = closing[q]
        /\ UNCHANGED <<packagesOpened, counted, start, port, retries, listening, posted, tried>>
    BY <1>4, ZenonT(30) DEF CheckTransactions, ListenersTypeOK
  <2>2. start[p] \in {"started", "failed", "done"}
    BY <1>4 DEF CheckTransactions, QueueReached, ListenersTypeOK, Starts, CloseInv
  <2>3. ListenersTypeOK' /\ TriedInv'
    BY <2>1, ZenonT(30) DEF ListenersTypeOK, TriedInv
  <2>4. ClosedDoesNotListen' /\ CloseInv'
    BY <2>1, <2>2, ZenonT(30) DEF ClosedDoesNotListen, CloseInv
  <2> QED
    BY <2>3, <2>4, ZenonT(30)
<1>5. CASE StopListener(p)
  BY <1>5, ZenonT(30) DEF StopListener, ListenersTypeOK, ClosedDoesNotListen, TriedInv, CloseInv
<1>6. CASE CloseServer(p)
  <2>1. /\ closing' \in [Packages -> {"no", "stop", "server", "closed"}] /\ closing[p] = "server"
        /\ closing'[p] = "closed" /\ \A q \in Packages \ {p} : closing'[q] = closing[q]
        /\ UNCHANGED <<packagesOpened, counted, start, port, retries, listening, posted, tried>>
    BY <1>6, ZenonT(30) DEF CloseServer, ListenersTypeOK
  <2>2. start[p] \in {"started", "failed", "done"} /\ p \notin listening
    BY <2>1, ZenonT(30) DEF ClosedDoesNotListen, CloseInv
  <2>3. ListenersTypeOK' /\ TriedInv'
    BY <2>1, ZenonT(30) DEF ListenersTypeOK, TriedInv
  <2>4. ClosedDoesNotListen' /\ CloseInv'
    BY <2>1, <2>2, ZenonT(30) DEF ClosedDoesNotListen, CloseInv
  <2> QED
    BY <2>3, <2>4, ZenonT(30)
<1> QED BY <1>1, <1>2, <1>3, <1>4, <1>5, <1>6, ZenonT(30)

\* Choosing a port preserves the invariant.
LEMMA ChoosePortStep ==
  ASSUME ListenersInv, NEW p \in Packages, ChoosePort(p)
  PROVE  ListenersInv'
<1> USE DEF ListenersInv, ChoosePort
<1>1. ListenersTypeOK'
  BY ZenonT(30) DEF ListenersTypeOK, Starts
<1>2. ClosedDoesNotListen' /\ CloseInv'
  BY DEF ListenersTypeOK, ClosedDoesNotListen, CloseInv
<1>3. TriedInv'
  <2>1. tried[p] = {}
    BY FS_EmptySet, ZenonT(30) DEF TriedInv
  <2>2. retries[p] = 0 /\ retries[p] < MaxRetryCount
    <3>1. retries[p] = 0
      BY ZenonT(30) DEF TriedInv
    <3> HIDE DEF ListenersInv, ChoosePort
    <3> QED BY <3>1, RetryAssumption
  <2>3. start'[p] = "trying" /\ tried' = tried /\ retries' = retries
    BY ZenonT(30) DEF ListenersTypeOK
  <2>4. \A q \in Packages \ {p} : start'[q] = start[q] /\ port'[q] = port[q]
    BY ZenonT(30) DEF ListenersTypeOK
  <2> QED BY <2>1, <2>2, <2>3, <2>4, ZenonT(30) DEF TriedInv
<1> QED BY <1>1, <1>2, <1>3

\* So does listening on it ...
LEMMA ListenStep ==
  ASSUME ListenersInv, NEW p \in Packages, Listen(p)
  PROVE  ListenersInv'
<1> USE DEF ListenersInv, Listen
<1>1. ListenersTypeOK' /\ TriedInv'
  BY ZenonT(30) DEF ListenersTypeOK, Starts, TriedInv
<1>2. ClosedDoesNotListen' /\ CloseInv'
  BY DEF ListenersTypeOK, ClosedDoesNotListen, CloseInv
<1> QED BY <1>1, <1>2, ZenonT(30)

\* ... and choosing another one when it is taken.
LEMMA RetryStep ==
  ASSUME ListenersInv, NEW p \in Packages, Retry(p)
  PROVE  ListenersInv'
<1> USE DEF ListenersInv, Retry
<1>1. port[p] \in Nat /\ retries[p] \in Nat /\ retries[p] + 1 <= MaxRetryCount /\ start[p] = "trying"
  BY RetryAssumption, SMTT(30) DEF ListenersTypeOK, TriedInv
<1>2. ListenersTypeOK'
  BY <1>1, SMTT(30) DEF ListenersTypeOK, Starts
<1>3. p \notin listening /\ closing[p] = "no"
  BY <1>1, ZenonT(30) DEF CloseInv
<1>4. ClosedDoesNotListen' /\ CloseInv'
  BY <1>1, <1>3, SMTT(30) DEF ListenersTypeOK, ClosedDoesNotListen, CloseInv
<1>5. port[p] \notin tried[p]
  BY <1>1 DEF TriedInv
<1>6. /\ IsFiniteSet(tried[p] \cup {port[p]})
      /\ Cardinality(tried[p] \cup {port[p]}) = retries[p] + 1
  <2>1. IsFiniteSet(tried[p]) /\ Cardinality(tried[p]) = retries[p]
    BY ZenonT(30) DEF TriedInv
  <2> HIDE DEF Retry, ListenersInv
  <2> QED BY <1>5, <2>1, FS_AddElement, ZenonT(30)
<1>7. TriedInv'
  <2> SUFFICES ASSUME NEW q \in Packages
               PROVE  /\ IsFiniteSet(tried'[q])
                      /\ Cardinality(tried'[q]) = retries'[q]
                      /\ start'[q] \in {"none", "queued"} => retries'[q] = 0
                      /\ start'[q] = "trying" => retries'[q] < MaxRetryCount
                                                 /\ (\A n \in tried'[q] : n < port'[q])
                      /\ start'[q] = "failed" => retries'[q] = MaxRetryCount
    BY ZenonT(30) DEF TriedInv
  <2>1. CASE q # p
    BY <2>1, ZenonT(30) DEF ListenersTypeOK, TriedInv
  <2>2. CASE q = p
    <3>1. tried'[p] = tried[p] \cup {port[p]} /\ retries'[p] = retries[p] + 1
      BY DEF ListenersTypeOK
    <3>2. CASE retries[p] + 1 < MaxRetryCount
      <4>1. start'[p] = "trying" /\ port'[p] = port[p] + retries[p] + 1
        BY <3>2, <1>1, ZenonT(30) DEF ListenersTypeOK
      <4>2. \A n \in tried[p] : n \in Nat /\ n < port[p]
        BY <1>1, ZenonT(30) DEF ListenersTypeOK, TriedInv
      <4> HIDE DEF Retry, ListenersInv
      <4>3. \A n \in tried'[p] : n < port'[p]
        <5>1. \A n \in Nat : n < port[p] \/ n = port[p] => n < port'[p]
          BY <4>1, <1>1
        <5>2. \A n \in tried'[p] : n \in Nat /\ (n < port[p] \/ n = port[p])
          BY <3>1, <4>2, <1>1, ZenonT(30)
        <5> QED BY <5>1, <5>2, <1>1, ZenonT(30)
      <4> QED BY <2>2, <3>1, <3>2, <4>1, <4>3, <1>1, <1>6, RetryAssumption, ZenonT(30)
    <3>3. CASE ~(retries[p] + 1 < MaxRetryCount)
      BY <2>2, <3>1, <3>3, <1>1, <1>6, RetryAssumption, SMTT(30) DEF ListenersTypeOK
    <3> QED BY <3>2, <3>3, ZenonT(30)
  <2> QED BY <2>1, <2>2, ZenonT(30)
<1> QED BY <1>2, <1>4, <1>7, ZenonT(30)

\* Every step keeps the invariant.
LEMMA ListenersStep == ListenersInv /\ [ListenersNext]_listenerVars => ListenersInv'
<1> SUFFICES ASSUME ListenersInv, [ListenersNext]_listenerVars PROVE ListenersInv'
  OBVIOUS
<1>1. CASE ListenersNext
  BY <1>1, OtherListenerSteps, ChoosePortStep, ListenStep, RetryStep, ZenonT(30) DEF ListenersNext, Block
<1>2. CASE UNCHANGED listenerVars
  BY <1>2, ZenonT(30)
     DEF listenerVars, ListenersInv, ListenersTypeOK, ClosedDoesNotListen, TriedInv, CloseInv
<1> QED BY <1>1, <1>2

\* The invariant holds throughout.
LEMMA ListenersInductive == ListenersSpec => []ListenersInv
BY InitListeners, ListenersStep, PTL DEF ListenersSpec

\* Type correctness of the listeners' state.
THEOREM ListenersTypeCorrect == ListenersSpec => []ListenersTypeOK
BY ListenersInductive, PTL DEF ListenersInv

\* Closing a package stops its listener for good, although the listener is started
\* asynchronously.
THEOREM ClosedIsSilent == ListenersSpec => []ClosedDoesNotListen
BY ListenersInductive, PTL DEF ListenersInv

\* A listener gives up only when MaxRetryCount different ports were found taken.
THEOREM AllPortsTried == ListenersSpec => []FailsOnlyAfterAllPorts
<1>1. ListenersInv => FailsOnlyAfterAllPorts
  BY ZenonT(30) DEF ListenersInv, TriedInv, FailsOnlyAfterAllPorts
<1> QED BY ListenersInductive, <1>1, PTL

\* The steps the start of a listener has still to take at most: to be queued and to
\* choose a port, to try one for each retry that is left, and to call the handler.
StartLeft(p) ==
  CASE start[p] = "none"                   -> MaxRetryCount + 3
    [] start[p] = "queued"                 -> MaxRetryCount + 2
    [] start[p] = "trying"                 -> MaxRetryCount - retries[p] + 1
    [] start[p] \in {"started", "failed"}  -> 1
    [] OTHER                               -> 0

StartsShrink ==
  \A p \in Packages : /\ StartLeft(p)' <= StartLeft(p)
                      /\ Block(p) => StartLeft(p)' < StartLeft(p)

\* The steps left are a number.
LEMMA StartLeftBounded ==
  ASSUME ListenersInv, NEW p \in Packages
  PROVE  StartLeft(p) \in 0..(MaxRetryCount + 3)
<1>1. retries[p] \in Nat /\ MaxRetryCount \in Nat /\ (start[p] = "trying" => retries[p] < MaxRetryCount)
  BY RetryAssumption DEF ListenersInv, ListenersTypeOK, TriedInv
<1> QED BY <1>1 DEF StartLeft

\* A step of the block leaves fewer.
LEMMA BlockShrinks ==
  ASSUME ListenersInv, NEW p \in Packages, Block(p)
  PROVE  StartLeft(p)' < StartLeft(p)
<1>1. /\ retries[p] \in Nat /\ MaxRetryCount \in Nat \ {0}
      /\ start[p] = "trying" => retries[p] < MaxRetryCount
      /\ start[p] = "queued" => retries[p] = 0
  BY RetryAssumption DEF ListenersInv, ListenersTypeOK, TriedInv
<1> USE DEF ListenersInv, ListenersTypeOK
<1>2. CASE ChoosePort(p)
  <2>1. start[p] = "queued" /\ start'[p] = "trying" /\ retries'[p] = 0
    BY <1>1, <1>2 DEF ChoosePort
  <2> QED BY <1>1, <2>1 DEF StartLeft
<1>3. CASE Listen(p)
  <2>1. start[p] = "trying" /\ start'[p] = "started"
    BY <1>3 DEF Listen
  <2> QED BY <1>1, <2>1 DEF StartLeft
<1>4. CASE Retry(p)
  <2>1. /\ start[p] = "trying" /\ retries'[p] = retries[p] + 1
        /\ start'[p] = IF retries[p] + 1 < MaxRetryCount THEN "trying" ELSE "failed"
    BY <1>4 DEF Retry
  <2> QED BY <1>1, <2>1 DEF StartLeft
<1>5. CASE Complete(p)
  <2>1. start[p] \in {"started", "failed"} /\ start'[p] = "done"
    BY <1>5, ZenonT(30) DEF Complete
  <2> QED BY <2>1 DEF StartLeft
<1> QED BY <1>2, <1>3, <1>4, <1>5, ZenonT(30) DEF Block

\* A step about one package leaves the starts of the others alone.
LEMMA StartsStepShrinks == ListenersInv /\ [ListenersNext]_listenerVars => StartsShrink
<1> SUFFICES ASSUME ListenersInv, [ListenersNext]_listenerVars, NEW p \in Packages
             PROVE  /\ StartLeft(p)' <= StartLeft(p)
                    /\ Block(p) => StartLeft(p)' < StartLeft(p)
  BY DEF StartsShrink
<1>0. StartLeft(p) \in Nat /\ (start'[p] = start[p] /\ retries'[p] = retries[p] => StartLeft(p)' = StartLeft(p))
  BY StartLeftBounded, RetryAssumption DEF StartLeft
<1>1. Block(p) => StartLeft(p)' < StartLeft(p) /\ StartLeft(p)' <= StartLeft(p)
  <2> SUFFICES ASSUME Block(p) PROVE StartLeft(p)' < StartLeft(p) /\ StartLeft(p)' <= StartLeft(p) OBVIOUS
  <2>1. StartLeft(p)' < StartLeft(p) BY BlockShrinks
  <2>2. StartLeft(p)' \in Int
    <3>1. retries'[p] \in Int
      BY ListenersStep DEF ListenersInv, ListenersTypeOK
    <3> QED BY <3>1, RetryAssumption DEF StartLeft
  <2> QED BY <1>0, <2>1, <2>2, SMTT(30)
<1>2. CASE StartListener(p)
  <2>1. start[p] = "none" /\ start'[p] = "queued"
    BY <1>2 DEF StartListener, ListenersInv, ListenersTypeOK
  <2>2. StartLeft(p)' <= StartLeft(p)
    BY <2>1, RetryAssumption DEF StartLeft
  <2> QED BY <1>1, <2>2
<1>3. ASSUME NEW q \in Packages, q # p, StartListener(q) \/ Block(q)
      PROVE  start'[p] = start[p] /\ retries'[p] = retries[p]
  BY <1>3, ZenonT(30) DEF StartListener, Block, ChoosePort, Listen, Retry, Complete, ListenersInv, ListenersTypeOK
<1>4. ASSUME NEW q \in Packages,
             DidOpenPackage(q) \/ CheckTransactions(q) \/ StopListener(q) \/ CloseServer(q)
      PROVE  start'[p] = start[p] /\ retries'[p] = retries[p]
  BY <1>4, ZenonT(30) DEF DidOpenPackage, CheckTransactions, StopListener, CloseServer
<1>5. CASE UNCHANGED listenerVars
  <2>1. start'[p] = start[p] /\ retries'[p] = retries[p]
    BY <1>5, ZenonT(30) DEF listenerVars
  <2>2. StartLeft(p)' = StartLeft(p)
    BY <1>0, <2>1, ZenonT(30)
  <2>3. StartLeft(p)' <= StartLeft(p)
    BY <1>0, <2>2
  <2> QED BY <1>1, <2>3, ZenonT(30)
<1>6. CASE start'[p] = start[p] /\ retries'[p] = retries[p]
  <2>1. StartLeft(p)' = StartLeft(p)
    BY <1>0, <1>6, ZenonT(30)
  <2>2. StartLeft(p)' <= StartLeft(p)
    BY <1>0, <2>1
  <2> QED BY <1>1, <2>2, ZenonT(30)
<1>7. \/ UNCHANGED listenerVars \/ StartListener(p) \/ Block(p)
      \/ start'[p] = start[p] /\ retries'[p] = retries[p]
  BY <1>3, <1>4, ZenonT(30) DEF ListenersNext
<1> QED BY <1>1, <1>2, <1>5, <1>6, <1>7, ZenonT(30)

\* The start of a listener ends after at most MaxRetryCount + 2 steps of its block,
\* whatever ports are taken by other packages and programs meanwhile, and no step of
\* another package, nor closing, sets it back.  (StartEnds without the fairness.)
THEOREM StartIsBounded ==
  ListenersSpec => /\ [](\A p \in Packages : StartLeft(p) \in 0..(MaxRetryCount + 3))
                   /\ [][StartsShrink]_listenerVars
<1>1. ListenersInv => \A p \in Packages : StartLeft(p) \in 0..(MaxRetryCount + 3)
  BY StartLeftBounded, ZenonT(30)
<1> QED BY <1>1, ListenersInductive, StartsStepShrinks, PTL DEF ListenersSpec

-----------------------------------------------------------------------------
(* What is kept of replications *)

\* The life of a replication against the method that creates it: it is observed,
\* forgotten or missed only after it was started, and a push is filtered when the
\* database it goes to is not the user's own.
Life(r) ==
  /\ repl[r].state \in {"none", "created"} =>
       /\ r \notin observed \cup missed
       /\ errors[r] = 0
  /\ repl[r].state = "none" => caller[r] = "idle"
  /\ repl[r].state = "created" <=> caller[r] = "start"
  /\ repl[r].state = "running" => r \notin missed /\ errors[r] = 0
  /\ repl[r].state \in {"created", "running"} /\ repl[r].push => r \in currentPushes
  /\ caller[r] = "observe" => r \notin observed /\ (repl[r].state = "stopped" => r \in missed)
  /\ repl[r].push /\ repl[r].url = "global" => repl[r].filtered

KeptInv == ReplicationTypeOK /\ StoppedPushesAreForgotten /\ \A r \in Replications : Life(r)

\* What a step about replication r has to establish: nothing changes for others.
LEMMA OnlyOne ==
  ASSUME ReplicationTypeOK, ReplicationTypeOK', KeptInv, NEW r \in Replications,
         \A s \in Replications \ {r} :
           /\ repl'[s] = repl[s] /\ caller'[s] = caller[s] /\ errors'[s] = errors[s]
           /\ s \in currentPushes' <=> s \in currentPushes
           /\ s \in observed' <=> s \in observed
           /\ s \in missed' <=> s \in missed,
         Life(r)',
         repl'[r].state = "stopped" /\ repl'[r].push /\ r \notin missed' =>
           /\ r \notin currentPushes' \cup observed'
           /\ errors'[r] = IF repl'[r].error THEN 1 ELSE 0
  PROVE  KeptInv'
<1>1. ASSUME NEW s \in Replications PROVE Life(s)'
  <2>1. CASE s = r
    BY <2>1, ZenonT(30)
  <2>2. CASE s # r
    <3>1. Life(s)
      BY ZenonT(30) DEF KeptInv
    <3>2. /\ repl'[s] = repl[s] /\ caller'[s] = caller[s] /\ errors'[s] = errors[s]
          /\ s \in currentPushes' <=> s \in currentPushes
          /\ s \in observed' <=> s \in observed
          /\ s \in missed' <=> s \in missed
      BY <2>2, ZenonT(30)
    <3>3. QED
      BY <3>1, <3>2, ZenonT(30) DEF Life
  <2>3. QED
    BY <2>1, <2>2, ZenonT(30)
<1>2. StoppedPushesAreForgotten'
  <2>1. StoppedPushesAreForgotten
    BY ZenonT(30) DEF KeptInv
  <2>2. ASSUME NEW s \in Replications, repl'[s].state = "stopped", repl'[s].push, s \notin missed'
        PROVE  s \notin currentPushes' \cup observed' /\ errors'[s] = IF repl'[s].error THEN 1 ELSE 0
    <3>1. CASE s = r
      BY <2>2, <3>1, ZenonT(30)
    <3>2. CASE s # r
      BY <2>1, <2>2, <3>2, ZenonT(30) DEF StoppedPushesAreForgotten
    <3>3. QED
      BY <3>1, <3>2, ZenonT(30)
  <2>3. QED
    BY <2>2, ZenonT(30) DEF StoppedPushesAreForgotten
<1>3. QED
  BY <1>1, <1>2, ZenonT(30) DEF KeptInv

\* Steps that leave the books and the replications alone.
LEMMA DataOnly ==
  ASSUME KeptInv, ReplicationTypeOK', UNCHANGED <<repl, caller, books>>
  PROVE  KeptInv'
BY ZenonT(30) DEF KeptInv, StoppedPushesAreForgotten, Life, books

\* The revisions that follow a revision are revisions.
LEMMA NextAreRevisions ==
  ASSUME NEW rev \in Revisions, rev.gen < MaxGen, NEW sharing \in SUBSET BOOLEAN
  PROVE  NextRevisions(rev, sharing) \subseteq Revisions
<1>1. rev.gen + 1 \in 0..MaxGen
  BY GenAssumption DEF Revisions
<1>2. \A shared, deleted \in BOOLEAN :
        [gen |-> rev.gen + 1, shared |-> shared, deleted |-> deleted] \in Revisions
  BY <1>1, ZenonT(30) DEF Revisions
<1>3. QED
  BY <1>2, ZenonT(30) DEF NextRevisions

\* No push runs at the start.
LEMMA KeptInit == ReplicationInit => KeptInv
<1> SUFFICES ASSUME ReplicationInit PROVE KeptInv
  OBVIOUS
<1>1. NoRevision \in Revisions
  BY GenAssumption DEF NoRevision, Revisions
<1>2. ReplicationTypeOK
  BY <1>1 DEF ReplicationInit, ReplicationTypeOK, States, URLs
<1>3. QED
  BY <1>2, ZenonT(30) DEF ReplicationInit, KeptInv, StoppedPushesAreForgotten, Life

\* A push is in the set from before it starts until its end is observed.
LEMMA KeptNext == KeptInv /\ [ReplicationNext]_replicationVars => KeptInv'
<1> SUFFICES ASSUME KeptInv, [ReplicationNext]_replicationVars PROVE KeptInv'
  OBVIOUS
<1> USE DEF KeptInv
<1>1. ASSUME NEW d \in Docs, SaveDocument(d) PROVE KeptInv'
  <2>1. PICK rev \in NextRevisions(local[d], BOOLEAN) : local' = [local EXCEPT ![d] = rev]
    BY <1>1, ZenonT(30) DEF SaveDocument
  <2>2. rev \in Revisions
    BY <1>1, <2>1, NextAreRevisions, ZenonT(30) DEF SaveDocument, ReplicationTypeOK
  <2>3. ReplicationTypeOK'
    BY <1>1, <2>1, <2>2, ZenonT(30) DEF SaveDocument, ReplicationTypeOK, books
  <2>4. QED
    BY <1>1, <2>3, DataOnly DEF SaveDocument
<1>2. ASSUME NEW d \in Docs, NEW url \in URLs, SaveRemotely(url, d) PROVE KeptInv'
  <2>1. PICK rev \in NextRevisions(remote[url][d], TheirSharing) : remote' = [remote EXCEPT ![url][d] = rev]
    BY <1>2, ZenonT(30) DEF SaveRemotely
  <2>2. remote[url][d] \in Revisions
    BY DEF ReplicationTypeOK
  <2>3. rev \in Revisions
    BY <1>2, <2>1, <2>2, NextAreRevisions, SharingAssumption, ZenonT(30) DEF SaveRemotely
  <2>4. ReplicationTypeOK'
    BY <1>2, <2>1, <2>3 DEF SaveRemotely, ReplicationTypeOK, books
  <2>5. QED
    BY <1>2, <2>4, DataOnly DEF SaveRemotely
<1>3. ASSUME NEW r \in Replications, NEW url \in URLs, CreatePush(r, url) PROVE KeptInv'
  <2>1. ReplicationTypeOK'
    BY <1>3, ZenonT(30) DEF CreatePush, ReplicationTypeOK, data, States, ApplyFilter
  <2>2. Life(r)'
    BY <1>3, ZenonT(30) DEF CreatePush, ReplicationTypeOK, Life, ApplyFilter
  <2>3. QED
    BY <1>3, <2>1, <2>2, OnlyOne, ZenonT(30) DEF CreatePush, ReplicationTypeOK
<1>4. ASSUME NEW r \in Replications, NEW url \in URLs, CreatePull(r, url) PROVE KeptInv'
  <2>1. ReplicationTypeOK'
    BY <1>4, ZenonT(30) DEF CreatePull, ReplicationTypeOK, data, books, States
  <2>2. Life(r)'
    BY <1>4, ZenonT(30) DEF CreatePull, ReplicationTypeOK, Life, books
  <2>3. QED
    BY <1>4, <2>1, <2>2, OnlyOne, ZenonT(30) DEF CreatePull, ReplicationTypeOK, books
<1>5. ASSUME NEW r \in Replications, Start(r) PROVE KeptInv'
  <2>1. ReplicationTypeOK'
    <3>1. repl' \in [Replications -> [state : States, push : BOOLEAN, url : URLs,
                                      filtered : BOOLEAN, error : BOOLEAN]]
      <4> DEFINE Records == [state : States, push : BOOLEAN, url : URLs, filtered : BOOLEAN, error : BOOLEAN]
                 started == [repl[r] EXCEPT !.state = "running"]
      <4>1. repl \in [Replications -> Records]
        BY DEF ReplicationTypeOK
      <4>2. started \in Records
        BY <4>1 DEF States
      <4>3. repl' = [repl EXCEPT ![r] = started]
        BY <1>5 DEF Start
      <4> HIDE DEF Records, started
      <4>4. repl' \in [Replications -> Records]
        BY <4>1, <4>2, <4>3
      <4>5. QED
        BY <4>4, ZenonT(30) DEF Records
    <3>2. caller' \in [Replications -> {"idle", "start", "observe", "add"}]
      BY <1>5 DEF Start, ReplicationTypeOK
    <3>3. UNCHANGED <<data, books>>
      BY <1>5 DEF Start
    <3>4. QED
      BY <3>1, <3>2, <3>3, ZenonT(30) DEF ReplicationTypeOK, data, books
  <2>2. Life(r)'
    BY <1>5 DEF Start, ReplicationTypeOK, Life, books
  <2>3. QED
    BY <1>5, <2>1, <2>2, OnlyOne DEF Start, ReplicationTypeOK, books
<1>6. ASSUME NEW r \in Replications, ObservePush(r) PROVE KeptInv'
  <2>1. ReplicationTypeOK'
    BY <1>6, ZenonT(30) DEF ObservePush, ReplicationTypeOK, data
  <2>2. Life(r)'
    BY <1>6, ZenonT(30) DEF ObservePush, ReplicationTypeOK, Life
  <2>3. QED
    BY <1>6, <2>1, <2>2, OnlyOne, ZenonT(30) DEF ObservePush, ReplicationTypeOK, Life
<1>7. ASSUME NEW r \in Replications, KeepPull(r) PROVE KeptInv'
  <2>1. ReplicationTypeOK'
    BY <1>7, ZenonT(30) DEF KeepPull, ReplicationTypeOK, data
  <2>2. Life(r)'
    BY <1>7, ZenonT(30) DEF KeepPull, ReplicationTypeOK, Life
  <2>3. QED
    BY <1>7, <2>1, <2>2, OnlyOne, ZenonT(30) DEF KeepPull, ReplicationTypeOK, StoppedPushesAreForgotten
<1>8. ASSUME NEW r \in Replications, NEW d \in Docs, PushDocument(r, d) PROVE KeptInv'
  <2>1. ReplicationTypeOK'
    BY <1>8, ZenonT(30) DEF PushDocument, ReplicationTypeOK, books
  <2>2. QED
    BY <1>8, <2>1, DataOnly, ZenonT(30) DEF PushDocument
<1>9. ASSUME NEW r \in Replications, NEW d \in Docs, PullDocument(r, d) PROVE KeptInv'
  <2>1. ReplicationTypeOK'
    BY <1>9, SMTT(30) DEF PullDocument, ReplicationTypeOK, books
  <2>2. QED
    BY <1>9, <2>1, DataOnly, ZenonT(30) DEF PullDocument
<1>10. ASSUME NEW r \in Replications, NEW error \in BOOLEAN, ReplicationStops(r, error) PROVE KeptInv'
  <2>0. repl' \in [Replications -> [state : States, push : BOOLEAN, url : URLs,
                                    filtered : BOOLEAN, error : BOOLEAN]]
    <3> DEFINE Records == [state : States, push : BOOLEAN, url : URLs,
                          filtered : BOOLEAN, error : BOOLEAN]
               stopped == [repl[r] EXCEPT !.state = "stopped", !.error = error]
    <3>1. repl \in [Replications -> Records] /\ repl[r] \in Records
      BY DEF ReplicationTypeOK
    <3>2. stopped \in Records
      BY <3>1, ZenonT(30) DEF States
    <3>3. repl' = [repl EXCEPT ![r] = stopped]
      BY <1>10, <3>1, ZenonT(30) DEF ReplicationStops
    <3> HIDE DEF Records, stopped
    <3>4. repl' \in [Replications -> Records]
      BY <3>1, <3>2, <3>3
    <3>5. QED
      BY <3>4, ZenonT(30) DEF Records
  <2>1. CASE r \in observed
    <3>0. ReplicationDidChange(r, error) /\ errors[r] = 0
      BY <1>10, <2>1, ZenonT(30) DEF ReplicationStops, Life
    <3>a. errors' \in [Replications -> 0..1] /\ errors'[r] = IF error THEN 1 ELSE 0
      BY <3>0 DEF ReplicationDidChange, ReplicationTypeOK
    <3>1. ReplicationTypeOK'
      BY <1>10, <2>0, <2>1, <3>0, <3>a, ZenonT(30) DEF ReplicationStops, ReplicationDidChange, ReplicationTypeOK, data
    <3>2. Life(r)'
      BY <1>10, <2>1 DEF ReplicationStops, ReplicationDidChange, ReplicationTypeOK, Life
    <3>b. r \notin currentPushes' \cup observed' /\ repl'[r].error = error
      BY <1>10, <3>0 DEF ReplicationStops, ReplicationDidChange, ReplicationTypeOK
    <3>c. \A s \in Replications \ {r} :
           /\ repl'[s] = repl[s] /\ caller'[s] = caller[s] /\ errors'[s] = errors[s]
           /\ s \in currentPushes' <=> s \in currentPushes
           /\ s \in observed' <=> s \in observed
           /\ s \in missed' <=> s \in missed
      BY <1>10, <2>1, <3>0 DEF ReplicationStops, ReplicationDidChange, ReplicationTypeOK
    <3>3. QED
      BY <3>1, <3>2, <3>a, <3>b, <3>c, OnlyOne, ZenonT(30)
  <2>2. CASE r \notin observed
    <3>1. ReplicationTypeOK'
      BY <1>10, <2>0, <2>2 DEF ReplicationStops, ReplicationTypeOK, data
    <3>2. Life(r)'
      BY <1>10, <2>2 DEF ReplicationStops, ReplicationTypeOK, Life
    <3>3. QED
      BY <1>10, <2>2, <3>1, <3>2, OnlyOne, ZenonT(30) DEF ReplicationStops, ReplicationTypeOK
  <2>3. QED
    BY <2>1, <2>2
<1>11. CASE UNCHANGED replicationVars
  BY <1>11, DataOnly, ZenonT(30) DEF replicationVars, books, ReplicationTypeOK
<1>12. QED
  BY <1>1, <1>2, <1>3, <1>4, <1>5, <1>6, <1>7, <1>8, <1>9, <1>10, <1>11, ZenonT(30) DEF ReplicationNext, Call, Replicate

-----------------------------------------------------------------------------
(* What goes over *)

\* What the databases hold, given how pushes are filtered.
ContentInv == KeptInv /\ OnlySharedIsGlobal

\* The databases are empty at the start.
LEMMA ContentInit == ReplicationInit => ContentInv
<1> SUFFICES ASSUME ReplicationInit PROVE OnlySharedIsGlobal
  BY KeptInit, ZenonT(30) DEF ContentInv
<1>1. \A d \in Docs : local[d].gen = 0 /\ remote["global"][d].gen = 0
  BY DEF ReplicationInit, NoRevision, URLs
<1>2. QED
  BY <1>1, LocalAssumption DEF OnlySharedIsGlobal, Docs

\* A revision is filtered before it is pushed.
LEMMA ContentNext == ContentInv /\ [ReplicationNext]_replicationVars => ContentInv'
<1> SUFFICES ASSUME ContentInv, [ReplicationNext]_replicationVars PROVE OnlySharedIsGlobal'
  BY KeptNext DEF ContentInv
<1>0. KeptInv /\ ReplicationTypeOK /\ OnlySharedIsGlobal
  BY ZenonT(30) DEF ContentInv, KeptInv
<1>a. ASSUME UNCHANGED data PROVE OnlySharedIsGlobal'
  BY <1>0, <1>a, ZenonT(30) DEF data, OnlySharedIsGlobal
<1>1. ASSUME NEW d \in Docs, SaveDocument(d) PROVE OnlySharedIsGlobal'
  BY <1>0, <1>1, ZenonT(30) DEF SaveDocument, OnlySharedIsGlobal
<1>2. ASSUME NEW d \in Docs, NEW url \in URLs, SaveRemotely(url, d)
      PROVE  OnlySharedIsGlobal'
  <2>1. \A e \in Local : remote'["global"][e] = remote["global"][e]
    <3>1. /\ remote \in [URLs -> [Docs -> Revisions]] /\ "global" \in URLs
          /\ Local \subseteq Docs /\ d \notin Local
      BY <1>0, <1>2, LocalAssumption, ZenonT(30) DEF SaveRemotely, ReplicationTypeOK, Docs, URLs
    <3>2. PICK rev : remote' = [remote EXCEPT ![url][d] = rev]
      BY <1>2, ZenonT(30) DEF SaveRemotely
    <3>3. QED
      BY <3>1, <3>2
  <2>2. QED
    BY <1>0, <1>2, <2>1, ZenonT(30) DEF SaveRemotely, OnlySharedIsGlobal
<1>3. ASSUME NEW r \in Replications, NEW d \in Docs, PushDocument(r, d)
      PROVE  OnlySharedIsGlobal'
  <2>1. repl[r].url \in URLs
    BY <1>0, ZenonT(30) DEF ReplicationTypeOK
  <2>2. repl[r].url = "global" => local[d].shared
    BY <1>0, <1>3, ZenonT(30) DEF PushDocument, KeptInv, Life, ToPush, PushFilter
  <2>3. \A e \in Local : remote'["global"][e] =
          IF repl[r].url = "global" /\ e = d THEN local[d] ELSE remote["global"][e]
    BY <1>0, <1>3, <2>1, LocalAssumption DEF PushDocument, ReplicationTypeOK, Docs, URLs
  <2>4. QED
    BY <1>0, <2>2, <2>3, ZenonT(30) DEF OnlySharedIsGlobal
<1>4. ASSUME NEW r \in Replications, NEW d \in Docs, PullDocument(r, d)
      PROVE  OnlySharedIsGlobal'
  BY <1>0, <1>4, ZenonT(30) DEF PullDocument, OnlySharedIsGlobal
<1>5. QED
  BY ZenonT(30), <1>a, <1>1, <1>2, <1>3, <1>4
     DEF ReplicationNext, Call, Replicate, CreatePush, CreatePull, Start, ObservePush, KeepPull, ReplicationStops, replicationVars, data

-----------------------------------------------------------------------------
(* The theorems *)

\* The invariant holds throughout.
LEMMA ReplicationInductive == ReplicationSpec => []ContentInv
BY ContentInit, ContentNext, PTL DEF ReplicationSpec

\* The variables have their types; with it, that no error is posted twice for one
\* replication.
THEOREM ReplicationTypeCorrect == ReplicationSpec => []ReplicationTypeOK
<1>1. ContentInv => ReplicationTypeOK
  BY DEF ContentInv, KeptInv
<1>2. QED
  BY ReplicationInductive, <1>1, PTL

\* No revision of a user's document that was not shared is pushed to the global
\* database: the filter is part of the replication before it is started.
THEOREM GlobalIsShared == ReplicationSpec => []OnlySharedIsGlobal
<1>1. ContentInv => OnlySharedIsGlobal
  BY DEF ContentInv
<1>2. QED
  BY ReplicationInductive, <1>1, PTL

\* A running push is held by _currentPushes.
THEOREM PushesAreKept == ReplicationSpec => []RunningPushesAreKept
<1>1. ContentInv => RunningPushesAreKept
  BY ZenonT(30) DEF ContentInv, KeptInv, Life, RunningPushesAreKept
<1>2. QED
  BY ReplicationInductive, <1>1, PTL

\* -replicationDidChange: forgets a push that it sees stop, and posts its error
\* once.
THEOREM PushesAreForgotten == ReplicationSpec => []StoppedPushesAreForgotten
<1>1. ContentInv => StoppedPushesAreForgotten
  BY DEF ContentInv, KeptInv
<1>2. QED
  BY ReplicationInductive, <1>1, PTL
=============================================================================
