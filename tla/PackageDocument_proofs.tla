------------------------ MODULE PackageDocument_proofs ------------------------
(***************************************************************************)
(* Proofs about PackageDocument for any number of attempts to close: what  *)
(* its properties say of every state holds whichever step of -package-     *)
(* Controller has failed and however often.                                *)
(***************************************************************************)
EXTENDS PackageDocument, TLAPS

\* Steps at which the package is being opened, the first two left out: by then it
\* has been seen that the files have not been removed.
Opening == {"copy", "tree", "metadata", "permissions", "open"}

\* What each step of the main thread relies on.
StepInv ==
  /\ pc \in Opening \cup {"get", "check", "gone"} => ~controller
  /\ pc = "saving" => controller
  /\ pc \in Opening \cup {"saving"} => path /\ ~cleaned
  /\ pc = "check" => path \/ cleaned
  /\ pc = "terminating" => initialized

\* A document without a path is new or has been cleaned up, and left files only if
\* they could not be removed; one that is not initialized has neither files nor a
\* package.
FilesInv ==
  /\ ~path => dir = "none" \/ unremoved
  /\ ~path /\ ~cleaned /\ pc # "gone" => requires /\ ~initialized
  /\ ~initialized =>
       /\ requires /\ dir = "none" /\ ~original /\ file = "none" /\ ~controller
       /\ pc \notin {"metadata", "permissions", "open", "saving"}

IInv ==
  /\ StepInv /\ FilesInv
  /\ CleanedStaysClosed /\ NoTemporaryFilesLeft

\* The working copy of a document that has a file is that file's, or what a copy
\* that failed left of it; it is made before the package is opened, unless the
\* document object is at its end.
CopyInv ==
  file # "none" =>
    /\ dir \in {file, "part"} \/ (dir = "none" /\ (original \/ cleaned \/ pc \in {"gone", "ended"}))
    /\ controller \/ pc \in {"tree", "metadata", "permissions", "open", "saving"} => dir \in {file, "part"}

-----------------------------------------------------------------------------

\* There is neither a copy nor a package at the start.
LEMMA InitIInv == Init => IInv /\ CopyInv
BY DEF Init, InitNew, InitRead, IInv, CopyInv, StepInv, FilesInv, Opening, Steps,
   AccessSteps, CloseSteps, CleanedStaysClosed, NoTemporaryFilesLeft

\* A step of the document keeps its package and temporary files consistent.
LEMMA NextIInv == IInv /\ [Next]_vars => IInv'
<1> SUFFICES ASSUME IInv, [Next]_vars PROVE IInv'
  OBVIOUS
<1> USE DEF IInv, StepInv, FilesInv, Opening, flags, access,
        CleanedStaysClosed, NoTemporaryFilesLeft
<1>1. CASE Access
  BY <1>1 DEF Access
<1>2. CASE InitializeState
  <2>1. StepInv'
    BY <1>2 DEF InitializeState, MakeTree, Goes, ReturnsNil
  <2>2. FilesInv'
    BY <1>2 DEF InitializeState, MakeTree, Goes, ReturnsNil
  <2>3. CleanedStaysClosed' /\ NoTemporaryFilesLeft'
    BY <1>2 DEF InitializeState, MakeTree, Goes, ReturnsNil
  <2>4. QED
    BY <2>1, <2>2, <2>3
<1>3. CASE CheckCleaned
  <2>1. StepInv'
    BY <1>3 DEF CheckCleaned, Goes, ReturnsNil
  <2>2. FilesInv'
    BY <1>3 DEF CheckCleaned, Goes, ReturnsNil
  <2>3. CleanedStaysClosed' /\ NoTemporaryFilesLeft'
    BY <1>3 DEF CheckCleaned, Goes, ReturnsNil
  <2>4. QED
    BY <2>1, <2>2, <2>3
<1>4. CASE NoCopyNeeded
  BY <1>4 DEF NoCopyNeeded, NeedsCopy, Goes
<1>5. CASE CopyOriginal
  BY <1>5 DEF CopyOriginal, NeedsCopy, Goes
<1>6. CASE CopyFails
  BY <1>6 DEF CopyFails, NeedsCopy, Goes, ReturnsNil
<1>7. CASE MakeDirectoryTree
  <2>1. StepInv'
    BY <1>7, ZenonT(30) DEF MakeDirectoryTree, MakeTree, Goes, ReturnsNil
  <2>2. FilesInv'
    BY <1>7, ZenonT(30) DEF MakeDirectoryTree, MakeTree, Goes, ReturnsNil
  <2>3. CleanedStaysClosed' /\ NoTemporaryFilesLeft'
    BY <1>7, ZenonT(30) DEF MakeDirectoryTree, MakeTree, Goes, ReturnsNil
  <2>4. QED
    BY <2>1, <2>2, <2>3
<1>8. CASE MakeMetadataDirectory
  <2>1. StepInv'
    BY <1>8 DEF MakeMetadataDirectory, Goes, ReturnsNil
  <2>2. FilesInv'
    BY <1>8 DEF MakeMetadataDirectory, Goes, ReturnsNil
  <2>3. CleanedStaysClosed' /\ NoTemporaryFilesLeft'
    BY <1>8 DEF MakeMetadataDirectory, Goes, ReturnsNil
  <2>4. QED
    BY <2>1, <2>2, <2>3
<1>9. CASE EnsurePermissions
  <2>1. CASE Goes("open") /\ UNCHANGED access
    BY <1>9, <2>1 DEF EnsurePermissions, Goes
  <2>2. ASSUME NEW error, ReturnsNil(error) PROVE IInv'
    BY <1>9, <2>2 DEF EnsurePermissions, ReturnsNil, Goes
  <2>3. QED
    BY <1>9, <2>1, <2>2, ZenonT(30) DEF EnsurePermissions
<1>10. CASE OpenPackage
  BY <1>10 DEF OpenPackage, Goes
<1>11. CASE OpenFails
  BY <1>11 DEF OpenFails, Goes, ReturnsNil
<1>12. CASE SaveToURL
  BY <1>12 DEF SaveToURL
<1>13. CASE Write
  BY <1>13, ZenonT(30) DEF Write
<1>14. CASE Close
  BY <1>14 DEF Close
<1>15. CASE ApplicationWillTerminate
  BY <1>15 DEF ApplicationWillTerminate
<1>16. CASE CloseAgain
  BY <1>16 DEF CloseAgain, CloseSteps
<1>17. CASE Closed
  <2>1. StepInv'
    BY <1>17 DEF Closed, CloseSteps, CleanUp
  <2>2. FilesInv'
    <3>1. dir' = "none" \/ unremoved'
      BY <1>17 DEF Closed, CleanUp
    <3>2. dir = "none" => dir' = "none"
      BY <1>17 DEF Closed, CleanUp
    <3>3. ~cleaned' => ~cleaned /\ ~path /\ pc # "gone"
      BY <1>17, ZenonT(30) DEF Closed, CleanUp, CloseSteps
    <3> QED
      BY <1>17, <3>1, <3>2, <3>3, ZenonT(30) DEF Closed, CleanUp
  <2>3. CleanedStaysClosed' /\ NoTemporaryFilesLeft'
    BY <1>17 DEF Closed, CloseSteps, CleanUp
  <2>4. QED
    BY <2>1, <2>2, <2>3
<1>18. CASE Dealloc
  BY <1>18 DEF Dealloc, CleanUp
<1>19. CASE Reopen
  <2>1. StepInv'
    BY <1>19 DEF Reopen
  <2>2. FilesInv'
    BY <1>19 DEF Reopen
  <2>3. CleanedStaysClosed' /\ NoTemporaryFilesLeft'
    BY <1>19 DEF Reopen
  <2>4. QED
    BY <2>1, <2>2, <2>3
<1>20. ASSUME NEW shouldReopen \in BOOLEAN, Revert(shouldReopen) PROVE IInv'
  BY <1>20 DEF Revert
<1>21. CASE UNCHANGED vars
  BY <1>21 DEF vars
<1>22. QED
  BY <1>1, <1>2, <1>3, <1>4, <1>5, <1>6, <1>7, <1>8, <1>9, <1>10, <1>11, <1>12, <1>13, <1>14, <1>15, <1>16, <1>17, <1>18, <1>19, <1>20, <1>21, ZenonT(30)
     DEF Next, AccessStep, CloseStep

\* A step keeps the copy one of the file, and takes no package for it.
LEMMA NextCopyInv == IInv /\ CopyInv /\ [Next]_vars => CopyInv'
<1> SUFFICES ASSUME IInv, CopyInv, [Next]_vars PROVE CopyInv'
  OBVIOUS
<1> USE DEF IInv, StepInv, FilesInv, Opening, CopyInv, flags, access, NoTemporaryFilesLeft
<1>1. CASE Access
  BY <1>1 DEF Access
<1>2. CASE InitializeState
  BY <1>2 DEF InitializeState, MakeTree, Goes, ReturnsNil
<1>3. CASE CheckCleaned
  BY <1>3 DEF CheckCleaned, Goes, ReturnsNil
<1>4. CASE NoCopyNeeded
  BY <1>4 DEF NoCopyNeeded, NeedsCopy, Goes
<1>5. CASE CopyOriginal
  BY <1>5 DEF CopyOriginal, NeedsCopy, Goes
<1>6. CASE CopyFails
  BY <1>6 DEF CopyFails, NeedsCopy, Goes, ReturnsNil
<1>7. CASE MakeDirectoryTree
  BY <1>7, ZenonT(30) DEF MakeDirectoryTree, MakeTree, Goes, ReturnsNil
<1>8. CASE MakeMetadataDirectory
  BY <1>8 DEF MakeMetadataDirectory, Goes, ReturnsNil
<1>9. CASE EnsurePermissions
  BY <1>9, ZenonT(30) DEF EnsurePermissions, Goes, ReturnsNil
<1>10. CASE OpenPackage
  BY <1>10 DEF OpenPackage, Goes
<1>11. CASE OpenFails
  BY <1>11 DEF OpenFails, Goes, ReturnsNil
<1>12. CASE SaveToURL
  BY <1>12 DEF SaveToURL
<1>13. CASE Write
  BY <1>13 DEF Write
<1>14. CASE Close
  BY <1>14 DEF Close
<1>15. CASE ApplicationWillTerminate
  BY <1>15 DEF ApplicationWillTerminate
<1>16. CASE CloseAgain
  BY <1>16 DEF CloseAgain, CloseSteps
<1>17. CASE Closed
  BY <1>17, ZenonT(30) DEF Closed, CloseSteps, CleanUp
<1>18. CASE Dealloc
  BY <1>18 DEF Dealloc, CleanUp
<1>19. CASE Reopen
  BY <1>19 DEF Reopen
<1>20. ASSUME NEW shouldReopen \in BOOLEAN, Revert(shouldReopen) PROVE CopyInv'
  BY <1>20 DEF Revert
<1>21. CASE UNCHANGED vars
  BY <1>21 DEF vars
<1>22. QED
  BY <1>1, <1>2, <1>3, <1>4, <1>5, <1>6, <1>7, <1>8, <1>9, <1>10, <1>11, <1>12, <1>13, <1>14, <1>15, <1>16, <1>17, <1>18, <1>19, <1>20, <1>21
     DEF Next, AccessStep, CloseStep

\* Both invariants hold throughout.
LEMMA Inductive == Spec => [](IInv /\ CopyInv)
BY InitIInv, NextIInv, NextCopyInv, PTL DEF Spec

\* Only -writeToURL: changes the file, and what it writes is a copy of the file or
\* a part of one.
LEMMA OnlySavesToNewFiles ==
  ASSUME IInv, CopyInv, [Next]_vars, file' # file
  PROVE  file = "none" \/ dir = "part"
<1>1. SaveToURL
  BY ZenonT(30) DEF Next, AccessStep, CloseStep, Access, InitializeState, MakeTree, CheckCleaned, NoCopyNeeded,
         CopyOriginal, CopyFails, MakeDirectoryTree, MakeMetadataDirectory, EnsurePermissions, OpenPackage,
         OpenFails, ReturnsNil, Goes, Write, Revert, Close, ApplicationWillTerminate, CloseAgain, Closed,
         Dealloc, Reopen, vars
<1>2. QED
  BY <1>1 DEF SaveToURL, CopyInv

-----------------------------------------------------------------------------
(* The theorems *)

\* -packageController opens nothing once -cleanUpTemporaryFiles has removed the copy.
THEOREM CleanedIsClosed == Spec => []CleanedStaysClosed
<1>1. IInv => CleanedStaysClosed
  BY DEF IInv
<1>2. QED
  BY Inductive, <1>1, PTL

\* -packageController has a path whenever it copies to it or opens it.
THEOREM CopyHasPath == Spec => []PathIsSet
<1>1. IInv => PathIsSet
  BY DEF IInv, StepInv, PathIsSet, AccessSteps, Opening
<1>2. QED
  BY Inductive, <1>1, PTL

\* When the document object is gone, -cleanUpTemporaryFiles has removed the copy or
\* has failed to.
THEOREM FilesAreRemoved == Spec => []NoTemporaryFilesLeft
<1>1. IInv => NoTemporaryFilesLeft
  BY DEF IInv
<1>2. QED
  BY Inductive, <1>1, PTL

\* -writeToURL: never replaces what the document's file holds by an empty package or
\* by another's, wherever opening it failed before: what it writes is a copy of the
\* file, or what a copy that failed half way left.
THEOREM FileIsKept == Spec => FileKept
<1>1. IInv /\ CopyInv /\ [Next]_vars => [file' # file => file = "none" \/ dir = "part"]_file
  BY OnlySavesToNewFiles
<1>2. QED
  BY Inductive, <1>1, PTL DEF Spec, FileKept

-----------------------------------------------------------------------------
(* Types *)

PlacesOK ==
  /\ pc \in Steps /\ caller \in {"view", "write"}
  /\ dir \in {"none", "bare", "part", "whole"} /\ file \in {"none", "bare", "part", "whole"}
  /\ retries \in 0..MaxRetries

FlagsOK ==
  /\ path \in BOOLEAN /\ original \in BOOLEAN /\ requires \in BOOLEAN /\ initialized \in BOOLEAN
  /\ unremoved \in BOOLEAN /\ cleaned \in BOOLEAN /\ closed \in BOOLEAN /\ reopens \in BOOLEAN
  /\ controller \in BOOLEAN /\ accessError \in BOOLEAN /\ valid \in BOOLEAN /\ failed \in BOOLEAN

\* A step goes to one of the steps and directories named, within the retries.
LEMMA PlacesNext == PlacesOK /\ [Next]_vars => PlacesOK'
<1> SUFFICES ASSUME PlacesOK, [Next]_vars PROVE PlacesOK'
  OBVIOUS
<1> USE RetriesAssumption DEF PlacesOK, Steps, AccessSteps, CloseSteps
<1>1. CASE Access
  BY <1>1 DEF Access
<1>2. CASE InitializeState
  BY <1>2 DEF InitializeState, MakeTree, Goes, ReturnsNil
<1>3. CASE CheckCleaned
  BY <1>3 DEF CheckCleaned, Goes, ReturnsNil
<1>4. CASE NoCopyNeeded
  BY <1>4 DEF NoCopyNeeded, Goes
<1>5. CASE CopyOriginal
  BY <1>5 DEF CopyOriginal, Goes
<1>6. CASE CopyFails
  BY <1>6 DEF CopyFails, Goes, ReturnsNil
<1>7. CASE MakeDirectoryTree
  BY <1>7 DEF MakeDirectoryTree, MakeTree, Goes, ReturnsNil
<1>8. CASE MakeMetadataDirectory
  BY <1>8 DEF MakeMetadataDirectory, Goes, ReturnsNil
<1>9. CASE EnsurePermissions
  BY <1>9, ZenonT(30) DEF EnsurePermissions, Goes, ReturnsNil
<1>10. CASE OpenPackage
  BY <1>10 DEF OpenPackage, Goes
<1>11. CASE OpenFails
  BY <1>11 DEF OpenFails, Goes, ReturnsNil
<1>12. CASE SaveToURL
  BY <1>12 DEF SaveToURL
<1>13. CASE Write
  BY <1>13 DEF Write
<1>14. CASE Close
  BY <1>14 DEF Close
<1>15. CASE ApplicationWillTerminate
  BY <1>15 DEF ApplicationWillTerminate
<1>16. CASE CloseAgain
  BY <1>16 DEF CloseAgain
<1>17. CASE Closed
  BY <1>17 DEF Closed, CleanUp
<1>18. CASE Dealloc
  BY <1>18 DEF Dealloc, CleanUp
<1>19. CASE Reopen
  BY <1>19 DEF Reopen
<1>20. ASSUME NEW shouldReopen \in BOOLEAN, Revert(shouldReopen) PROVE PlacesOK'
  BY <1>20 DEF Revert
<1>21. CASE UNCHANGED vars
  BY <1>21 DEF vars
<1>22. QED
  BY <1>1, <1>2, <1>3, <1>4, <1>5, <1>6, <1>7, <1>8, <1>9, <1>10, <1>11, <1>12, <1>13, <1>14, <1>15, <1>16, <1>17, <1>18, <1>19, <1>20, <1>21
     DEF Next, AccessStep, CloseStep

\* Making the directory tree sets flags to truth values.
LEMMA TreeFlags ==
  ASSUME FlagsOK, NEW step, MakeTree(step)
  PROVE  FlagsOK'
<1> USE DEF FlagsOK, flags, access
<1>1. CASE initialized
  BY <1>1 DEF MakeTree, Goes
<1>2. CASE ~initialized /\ ReturnsNil(TRUE) /\ UNCHANGED flags
  BY <1>2 DEF MakeTree, ReturnsNil, Goes
<1>3. CASE ~initialized /\ requires' = FALSE /\ initialized' = TRUE /\ Goes(step) /\ UNCHANGED <<cleaned, access>>
  BY <1>3, ZenonT(30) DEF MakeTree, Goes
<1>4. QED
  BY <1>1, <1>2, <1>3, ZenonT(30) DEF MakeTree

\* So does every other step.
LEMMA FlagsNext == FlagsOK /\ [Next]_vars => FlagsOK'
<1> SUFFICES ASSUME FlagsOK, [Next]_vars PROVE FlagsOK'
  OBVIOUS
<1> USE DEF FlagsOK, flags, access
<1>1. CASE Access
  BY <1>1 DEF Access
<1>2. CASE InitializeState
  <2>1. CASE MakeTree("check")
    BY <2>1, TreeFlags
  <2>2. CASE Goes("check") /\ UNCHANGED <<path, flags, access>>
    BY <2>2 DEF Goes
  <2>3. QED
    BY <1>2, <2>1, <2>2 DEF InitializeState
<1>3. CASE CheckCleaned
  <2>1. CASE ReturnsNil(accessError)
    BY <1>3, <2>1 DEF CheckCleaned, Goes, ReturnsNil
  <2>2. CASE Goes("copy") /\ UNCHANGED access
    BY <1>3, <2>2 DEF CheckCleaned, Goes
  <2>3. QED
    BY <1>3, <2>1, <2>2 DEF CheckCleaned
<1>4. CASE NoCopyNeeded
  BY <1>4 DEF NoCopyNeeded, Goes
<1>5. CASE CopyOriginal
  BY <1>5 DEF CopyOriginal, Goes
<1>6. CASE CopyFails
  BY <1>6 DEF CopyFails, Goes, ReturnsNil
<1>7. CASE MakeDirectoryTree
  <2>1. CASE MakeTree("metadata")
    BY <2>1, TreeFlags
  <2>2. CASE Goes("metadata") /\ UNCHANGED <<path, flags, access>>
    BY <2>2 DEF Goes
  <2>3. QED
    BY <1>7, <2>1, <2>2 DEF MakeDirectoryTree
<1>8. CASE MakeMetadataDirectory
  <2>1. CASE ReturnsNil(TRUE)
    BY <1>8, <2>1 DEF MakeMetadataDirectory, Goes, ReturnsNil
  <2>2. CASE Goes("permissions") /\ UNCHANGED access
    BY <1>8, <2>2 DEF MakeMetadataDirectory, Goes
  <2>3. QED
    BY <1>8, <2>1, <2>2, ZenonT(30) DEF MakeMetadataDirectory
<1>9. CASE EnsurePermissions
  <2>1. CASE Goes("open") /\ UNCHANGED access
    BY <1>9, <2>1 DEF EnsurePermissions, Goes
  <2>2. ASSUME NEW error \in {TRUE, accessError}, ReturnsNil(error) PROVE FlagsOK'
    <3>1. error \in BOOLEAN
      BY ZenonT(30)
    <3>2. QED
      BY <1>9, <2>2, <3>1 DEF EnsurePermissions, ReturnsNil, Goes
  <2>3. QED
    BY <1>9, <2>1, <2>2, ZenonT(30) DEF EnsurePermissions
<1>10. CASE OpenPackage
  BY <1>10, ZenonT(30) DEF OpenPackage, Goes
<1>11. CASE OpenFails
  BY <1>11 DEF OpenFails, Goes, ReturnsNil
<1>12. CASE SaveToURL
  BY <1>12 DEF SaveToURL
<1>13. CASE Write
  BY <1>13 DEF Write
<1>14. CASE Close
  BY <1>14 DEF Close
<1>15. CASE ApplicationWillTerminate
  BY <1>15 DEF ApplicationWillTerminate
<1>16. CASE CloseAgain
  BY <1>16 DEF CloseAgain
<1>17. CASE Closed
  BY <1>17, ZenonT(30) DEF Closed, CleanUp
<1>18. CASE Dealloc
  BY <1>18, ZenonT(30) DEF Dealloc, CleanUp
<1>19. CASE Reopen
  BY <1>19, ZenonT(30) DEF Reopen
<1>20. ASSUME NEW shouldReopen \in BOOLEAN, Revert(shouldReopen) PROVE FlagsOK'
  BY <1>20 DEF Revert
<1>21. CASE UNCHANGED vars
  BY <1>21 DEF vars
<1>22. QED
  BY <1>1, <1>2, <1>3, <1>4, <1>5, <1>6, <1>7, <1>8, <1>9, <1>10, <1>11, <1>12, <1>13, <1>14, <1>15, <1>16, <1>17, <1>18, <1>19, <1>20, <1>21
     DEF Next, AccessStep, CloseStep

\* Type correctness: no more attempts to close than there may be, and a step or a
\* directory is one of those named.
THEOREM TypeCorrect == Spec => []TypeOK
<1>1. Init => PlacesOK
  BY RetriesAssumption DEF Init, PlacesOK, Steps
<1>2. Init => FlagsOK
  BY ZenonT(30) DEF Init, FlagsOK
<1>3. PlacesOK /\ FlagsOK => TypeOK
  BY DEF PlacesOK, FlagsOK, TypeOK
<1>4. QED
  BY <1>1, <1>2, <1>3, PlacesNext, FlagsNext, PTL DEF Spec

-----------------------------------------------------------------------------
(* How long a call can take *)

\* The steps the call at hand has still to take at most.
CallLeft ==
  CASE pc = "get"         -> 8
    [] pc = "check"       -> 7
    [] pc = "copy"        -> 6
    [] pc = "tree"        -> 5
    [] pc = "metadata"    -> 4
    [] pc = "permissions" -> 3
    [] pc = "open"        -> 2
    [] pc = "saving"      -> 1
    [] pc \in CloseSteps  -> MaxRetries - retries + 1
    [] OTHER              -> 0

\* A step of a call leaves fewer, and no other step is taken before the call returns.
CallShrinks ==
  /\ AccessStep \/ CloseStep => CallLeft' < CallLeft
  /\ ~(AccessStep \/ CloseStep \/ UNCHANGED vars) => CallLeft = 0

\* The steps of -packageController, and of -writeToURL: after it.
LEMMA AccessShrinks == PlacesOK /\ AccessStep => CallLeft' < CallLeft
<1> SUFFICES ASSUME PlacesOK, AccessStep PROVE CallLeft' < CallLeft
  OBVIOUS
<1> USE DEF CallLeft, CloseSteps, Goes, ReturnsNil
<1>1. CASE InitializeState
  <2>1. pc = "get" /\ pc' \in {"check", "idle"}
    BY <1>1 DEF InitializeState, MakeTree
  <2>2. QED
    BY <2>1
<1>2. CASE CheckCleaned
  BY <1>2 DEF CheckCleaned
<1>3. CASE NoCopyNeeded \/ CopyOriginal \/ CopyFails
  <2>1. pc = "copy" /\ pc' \in {"tree", "idle"}
    BY <1>3 DEF NoCopyNeeded, CopyOriginal, CopyFails
  <2>2. QED
    BY <2>1
<1>4. CASE MakeDirectoryTree
  <2>1. pc = "tree" /\ pc' \in {"metadata", "idle"}
    BY <1>4 DEF MakeDirectoryTree, MakeTree
  <2>2. QED
    BY <2>1
<1>5. CASE MakeMetadataDirectory
  BY <1>5 DEF MakeMetadataDirectory
<1>6. CASE EnsurePermissions
  <2>1. pc = "permissions" /\ pc' \in {"open", "idle"}
    BY <1>6, ZenonT(30) DEF EnsurePermissions
  <2>2. QED
    BY <2>1
<1>7. CASE OpenPackage \/ OpenFails
  <2>1. pc = "open" /\ pc' \in {"saving", "idle"}
    BY <1>7 DEF OpenPackage, OpenFails
  <2>2. QED
    BY <2>1
<1>8. CASE SaveToURL
  BY <1>8 DEF SaveToURL
<1>9. QED
  BY <1>1, <1>2, <1>3, <1>4, <1>5, <1>6, <1>7, <1>8 DEF AccessStep

\* The steps of the loops that close the package.
LEMMA CloseShrinks == PlacesOK /\ CloseStep => CallLeft' < CallLeft
<1> SUFFICES ASSUME PlacesOK, CloseStep PROVE CallLeft' < CallLeft
  OBVIOUS
<1>0. retries \in 0..MaxRetries /\ MaxRetries \in Nat
  BY RetriesAssumption DEF PlacesOK
<1>1. CASE CloseAgain
  <2>1. pc \in CloseSteps /\ pc' = pc /\ retries' = retries + 1
    BY <1>1 DEF CloseAgain
  <2>2. QED
    BY <1>0, <2>1 DEF CallLeft, CloseSteps
<1>2. CASE Closed
  <2>1. pc \in CloseSteps /\ pc' \in {"idle", "ended"}
    BY <1>2 DEF Closed
  <2>2. QED
    BY <1>0, <2>1 DEF CallLeft, CloseSteps
<1>3. QED
  BY <1>1, <1>2 DEF CloseStep

\* -packageController, -writeToURL:ofType:error:, -close and the end of the
\* application each return after a bounded number of steps, wherever one fails and
\* whether or not there is a package to close: eight to open a package and save
\* it, one more than there may be retries to close it.  Calls do not overlap.
\* (CallsReturn without the fairness.)
THEOREM CallsAreBounded ==
  Spec => /\ [](CallLeft \in 0..(MaxRetries + 8))
          /\ [][CallShrinks]_vars
<1>1. PlacesOK => CallLeft \in 0..(MaxRetries + 8)
  <2> SUFFICES ASSUME PlacesOK PROVE CallLeft \in 0..(MaxRetries + 8)
    OBVIOUS
  <2>1. retries \in 0..MaxRetries /\ MaxRetries \in Nat
    BY RetriesAssumption DEF PlacesOK
  <2>2. CallLeft \in 0..8 \/ CallLeft = MaxRetries - retries + 1
    BY DEF CallLeft
  <2>3. QED
    BY <2>1, <2>2
<1>2. PlacesOK /\ [Next]_vars => [CallShrinks]_vars
  <2> SUFFICES ASSUME PlacesOK, Next PROVE CallShrinks
    OBVIOUS
  <2>1. ~(AccessStep \/ CloseStep) => pc \in {"idle", "gone"}
    BY DEF Next, Access, Write, Revert, Close, ApplicationWillTerminate, Dealloc, Reopen
  <2>2. pc \in {"idle", "gone"} => CallLeft = 0
    BY DEF CallLeft, CloseSteps
  <2>3. QED
    BY <2>1, <2>2, AccessShrinks, CloseShrinks DEF CallShrinks
<1>3. Init => PlacesOK
  BY RetriesAssumption DEF Init, PlacesOK, Steps
<1>4. QED
  BY <1>1, <1>2, <1>3, PlacesNext, PTL DEF Spec
=============================================================================
