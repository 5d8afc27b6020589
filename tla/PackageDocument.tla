--------------------------- MODULE PackageDocument ---------------------------
(***************************************************************************)
(* MPDatabasePackageBackedDocument: a document whose contents are a        *)
(* database package in a temporary working copy of the document's file.    *)
(* -packageController makes the copy and opens the package when it is      *)
(* first asked for; -writeToURL:ofType:error: copies the package back;     *)
(* closing closes the package, with retries, and removes the copy.  All of *)
(* it runs on the main thread, so a step is a part of a method that can    *)
(* fail.  Documents to which package access is denied, and subclasses that *)
(* import instead of copying, are not modelled.                            *)
(*                                                                         *)
(* A directory is "none", "bare" (made empty), "part" or "whole" (a part   *)
(* or all of what the document's file holds).                              *)
(***************************************************************************)
EXTENDS Naturals

CONSTANT MaxRetries  \* attempts to close the package: 60, or 20 on termination

ASSUME RetriesAssumption == MaxRetries \in Nat \ {0}

VARIABLES pc,            \* what the document does
          caller,        \* who asked for the package: "view" or "write"
          path,          \* _temporaryManuscriptPath is set
          dir,           \* what is at that path, or was when it was forgotten
          unremoved,     \* history: the working copy could not be removed
          original,      \* _originalBundleFileURL is set
          requires,      \* _bundleRequiresInitialization
          initialized,   \* _bundleInitialized
          cleaned,       \* _resourcesCleaned
          controller,    \* _packageController is set
          accessError,   \* packageAccessError is set
          valid,         \* what -initializePackageController:error: said of it
          failed,        \* the package was asked for last in vain
          retries,       \* attempts to close so far
          file,          \* what the document's file holds
          closed,        \* -[NSDocument close] has been called
          reopens        \* a revert has scheduled closing and reopening

flags == <<requires, initialized, cleaned>>
access == <<controller, accessError, valid, failed>>
vars == <<pc, caller, path, dir, unremoved, original, flags, access, retries, file, closed, reopens>>

AccessSteps == {"get", "check", "copy", "tree", "metadata", "permissions", "open", "saving"}
CloseSteps == {"closing", "terminating"}
Steps == AccessSteps \cup CloseSteps \cup {"idle", "gone", "ended"}

\* -initWithType:error:
InitNew == ~path /\ requires /\ ~initialized /\ ~original /\ file = "none"

\* -init and -readFromURL:ofType:error:, which a subclass may leave to be done later.
InitRead == path /\ requires \in BOOLEAN /\ initialized /\ original /\ file = "whole"

Init ==
  /\ pc = "idle" /\ caller = "view"
  /\ path \in BOOLEAN /\ original \in BOOLEAN /\ requires \in BOOLEAN /\ initialized \in BOOLEAN
  /\ file \in {"none", "whole"}
  /\ InitNew \/ InitRead
  /\ dir = "none" /\ unremoved = FALSE /\ retries = 0
  /\ cleaned = FALSE /\ controller = FALSE /\ accessError = FALSE /\ valid = TRUE /\ failed = FALSE
  /\ closed = FALSE /\ reopens = FALSE

\* The method goes on at step.
Goes(step) == pc' = step /\ UNCHANGED <<caller, unremoved, original, retries, file, closed, reopens>>

\* -packageController returns nil, having set packageAccessError or not.
ReturnsNil(error) ==
  /\ Goes("idle")
  /\ accessError' = error
  /\ failed' = TRUE
  /\ UNCHANGED <<controller, valid>>

-----------------------------------------------------------------------------
(* -packageController *)

\* A view asks for the package, perhaps one that outlives the document's closing.
Access ==
  /\ pc = "idle" /\ ~controller
  /\ pc' = "get" /\ caller' = "view"
  /\ UNCHANGED <<path, dir, unremoved, original, flags, access, retries, file, closed, reopens>>

\* -initializeStateCreatingDirectoryTree:YES does nothing the second time.
MakeTree(step) ==
  IF initialized
  THEN /\ Goes(step)
       /\ UNCHANGED <<path, dir, flags, access>>
  ELSE /\ path' = TRUE
       /\ \/ /\ dir' = IF dir = "none" THEN "bare" ELSE dir
             /\ requires' = FALSE /\ initialized' = TRUE
             /\ Goes(step)
             /\ UNCHANGED <<cleaned, access>>
          \/ ReturnsNil(TRUE) /\ UNCHANGED <<dir, flags>>

InitializeState ==
  /\ pc = "get"
  /\ \/ requires /\ ~path /\ MakeTree("check")
     \/ ~(requires /\ ~path) /\ Goes("check") /\ UNCHANGED <<path, dir, flags, access>>

\* Once the files have been removed the package is not opened again.
CheckCleaned ==
  /\ pc = "check"
  /\ \/ cleaned /\ ReturnsNil(accessError)
     \/ ~cleaned /\ Goes("copy") /\ UNCHANGED access
  /\ UNCHANGED <<path, dir, flags>>

NeedsCopy == original /\ dir = "none"

NoCopyNeeded ==
  /\ pc = "copy" /\ ~NeedsCopy
  /\ Goes("tree")
  /\ UNCHANGED <<path, dir, flags, access>>

CopyOriginal ==
  /\ pc = "copy" /\ NeedsCopy
  /\ dir' = file
  /\ Goes("tree")
  /\ UNCHANGED <<path, flags, access>>

\* Mutant: a failed copy does not stop the opening.
CopyFails_Ignored ==
  /\ pc = "copy"
  /\ dir' \in {dir} \cup (IF NeedsCopy THEN {"part"} ELSE {})
  /\ Goes("tree")
  /\ UNCHANGED <<path, flags, access>>

\* The containing directory cannot be made, or the copy fails, which may leave what
\* was copied.
CopyFails ==
  /\ pc = "copy"
  /\ dir' \in {dir} \cup (IF NeedsCopy THEN {"part"} ELSE {})
  /\ ReturnsNil(TRUE)
  /\ UNCHANGED <<path, flags>>

MakeDirectoryTree ==
  /\ pc = "tree"
  /\ \/ requires /\ MakeTree("metadata")
     \/ ~requires /\ Goes("metadata") /\ UNCHANGED <<path, dir, flags, access>>

\* The directory for metadata is made, and permissions are given.
MakeMetadataDirectory ==
  /\ pc = "metadata"
  /\ \/ Goes("permissions") /\ UNCHANGED access
     \/ dir # "none" /\ ReturnsNil(TRUE)
  /\ UNCHANGED <<path, dir, flags>>

\* Read and write permission first, then, without an error to be seen, execution.
EnsurePermissions ==
  /\ pc = "permissions"
  /\ \/ Goes("open") /\ UNCHANGED access
     \/ dir # "none" /\ \E error \in {TRUE, accessError} : ReturnsNil(error)
  /\ UNCHANGED <<path, dir, flags>>

\* The package is opened and, in a subclass, examined; the error of a package that
\* is found to be invalid is not kept.
OpenPackage ==
  /\ pc = "open"
  /\ controller' = TRUE /\ failed' = FALSE
  /\ accessError' = FALSE
  /\ valid' \in BOOLEAN
  /\ dir' = IF dir = "none" THEN "bare" ELSE dir
  /\ Goes(IF caller = "write" THEN "saving" ELSE "idle")
  /\ UNCHANGED <<path, flags>>

OpenFails ==
  /\ pc = "open"
  /\ ReturnsNil(TRUE)
  /\ UNCHANGED <<path, dir, flags>>

-----------------------------------------------------------------------------
(* -writeToURL:ofType:error: *)

\* It is refused after an access error and without a working copy's path.
Write ==
  /\ pc = "idle" /\ ~closed /\ ~accessError /\ path
  /\ caller' = "write"
  /\ requires' = (requires \/ ~controller)
  /\ pc' = IF controller THEN "saving" ELSE "get"
  /\ UNCHANGED <<path, dir, unremoved, original, initialized, cleaned, access, retries, file, closed,
                 reopens>>

\* -[MPDatabasePackageController saveToURL:error:] copies the package, or fails and
\* leaves the file alone.
SaveToURL ==
  /\ pc = "saving"
  /\ file' \in {file, dir}
  /\ pc' = "idle"
  /\ UNCHANGED <<caller, path, dir, unremoved, original, flags, access, retries, closed, reopens>>

\* -revertToContentsOfURL:ofType:error: reads the file's URL again.
Revert(shouldReopen) ==
  /\ pc = "idle" /\ ~closed /\ file # "none"
  /\ original' = TRUE
  /\ reopens' = (reopens \/ shouldReopen)
  /\ UNCHANGED <<pc, caller, path, dir, unremoved, flags, access, retries, file, closed>>

-----------------------------------------------------------------------------
(* -close, -applicationWillTerminate: and -dealloc *)

\* The user closes the document, or a revert does, perhaps after the user.
Close ==
  /\ pc = "idle" /\ (~closed \/ reopens)
  /\ pc' = "closing" /\ closed' = TRUE /\ retries' = 0
  /\ UNCHANGED <<caller, path, dir, unremoved, original, flags, access, file, reopens>>

\* The observer is added when the state is initialized.
ApplicationWillTerminate ==
  /\ pc = "idle"
  /\ pc' = IF initialized THEN "terminating" ELSE "ended"
  /\ retries' = 0
  /\ UNCHANGED <<caller, path, dir, unremoved, original, flags, access, file, closed, reopens>>

\* The package cannot be closed now; -close also waits for one that is nil, which
\* answers NO.
CloseAgain ==
  /\ pc \in CloseSteps /\ (pc = "terminating" => controller)
  /\ retries < MaxRetries
  /\ retries' = retries + 1
  /\ UNCHANGED <<pc, caller, path, dir, unremoved, original, flags, access, file, closed, reopens>>

\* Mutant: the path is forgotten and the files are not removed.
CleanUp_Forgets ==
  /\ path' = FALSE
  /\ cleaned' = (cleaned \/ path)
  /\ UNCHANGED <<dir, unremoved, requires, initialized>>

\* Mutant: it is not noted that the files have been removed.
CleanUp_Unmarked ==
  /\ path' = FALSE
  /\ dir' = IF path THEN "none" ELSE dir
  /\ UNCHANGED <<flags, unremoved>>

\* -cleanUpTemporaryFiles: does nothing unless the path has been set.  A removal
\* that fails is logged, and the path is forgotten all the same.
CleanUp ==
  /\ path' = FALSE
  /\ cleaned' = (cleaned \/ path)
  /\ \/ dir' = (IF path THEN "none" ELSE dir) /\ UNCHANGED unremoved
     \/ path /\ dir # "none" /\ unremoved' = TRUE /\ UNCHANGED dir
  /\ UNCHANGED <<requires, initialized>>

\* Mutant: the loop ends only when the package says that it is closed.
Closed_Insists ==
  /\ pc \in CloseSteps /\ controller
  /\ controller' = FALSE
  /\ CleanUp
  /\ pc' = IF pc = "closing" THEN "idle" ELSE "ended"
  /\ UNCHANGED <<caller, original, accessError, valid, failed, retries, file, closed, reopens>>

\* Mutant: the controller stays.
Closed_Stays ==
  /\ pc \in CloseSteps
  /\ controller \/ retries = MaxRetries \/ pc = "terminating"
  /\ CleanUp
  /\ pc' = IF pc = "closing" THEN "idle" ELSE "ended"
  /\ UNCHANGED <<caller, original, access, retries, file, closed, reopens>>

\* The package is closed or given up, and its files are removed.
Closed ==
  /\ pc \in CloseSteps
  /\ controller \/ retries = MaxRetries \/ pc = "terminating"
  /\ controller' = FALSE
  /\ CleanUp
  /\ pc' = IF pc = "closing" THEN "idle" ELSE "ended"
  /\ UNCHANGED <<caller, original, accessError, valid, failed, retries, file, closed, reopens>>

\* The document object goes away, with what is left of its files.
Dealloc ==
  /\ pc = "idle" /\ closed
  /\ controller' = FALSE
  /\ CleanUp
  /\ pc' = "gone"
  /\ UNCHANGED <<caller, original, accessError, valid, failed, retries, file, closed, reopens>>

\* A revert has the file opened again, as a new document object with a path of its
\* own.
Reopen ==
  /\ pc = "gone" /\ reopens
  /\ pc' = "idle" /\ caller' = "view"
  /\ path' = TRUE /\ dir' = "none" /\ unremoved' = FALSE /\ original' = TRUE
  /\ requires' = FALSE /\ initialized' = TRUE /\ cleaned' = FALSE
  /\ accessError' = FALSE /\ valid' = TRUE /\ failed' = FALSE
  /\ retries' = 0 /\ closed' = FALSE /\ reopens' = FALSE
  /\ UNCHANGED <<file, controller>>

-----------------------------------------------------------------------------
AccessStep ==
  \/ InitializeState \/ CheckCleaned \/ NoCopyNeeded \/ CopyOriginal \/ CopyFails
  \/ MakeDirectoryTree \/ MakeMetadataDirectory \/ EnsurePermissions
  \/ OpenPackage \/ OpenFails \/ SaveToURL

CloseStep == CloseAgain \/ Closed

Next ==
  \/ Access \/ AccessStep \/ Write \/ \E shouldReopen \in BOOLEAN : Revert(shouldReopen)
  \/ Close \/ ApplicationWillTerminate \/ CloseStep \/ Dealloc \/ Reopen

Spec == Init /\ [][Next]_vars

\* A method that has begun goes on.
FairSpec == Spec /\ WF_vars(AccessStep) /\ WF_vars(CloseStep)

-----------------------------------------------------------------------------
(* Properties *)

TypeOK ==
  /\ pc \in Steps /\ caller \in {"view", "write"}
  /\ path \in BOOLEAN /\ original \in BOOLEAN /\ requires \in BOOLEAN /\ initialized \in BOOLEAN
  /\ unremoved \in BOOLEAN /\ cleaned \in BOOLEAN /\ closed \in BOOLEAN /\ reopens \in BOOLEAN
  /\ controller \in BOOLEAN /\ accessError \in BOOLEAN /\ valid \in BOOLEAN /\ failed \in BOOLEAN
  /\ dir \in {"none", "bare", "part", "whole"} /\ file \in {"none", "bare", "part", "whole"}
  /\ retries \in 0..MaxRetries

\* Writing never replaces what a document's file holds by an empty package, however
\* often the package was asked for in vain before: -writeToURL: writes to a file
\* what was copied from it, all of it or what a copy that failed half way left.
FileKept == [][file' # file => file = "none" \/ dir = "part"]_file

\* A package is never opened again once its files have been removed, whatever
\* asks the closed document for it: it would be opened at no path.
CleanedStaysClosed == cleaned => ~controller

\* "temporaryManuscriptPath should be set": the working copy has a path whenever
\* it is about to be made or opened, wherever earlier attempts have failed.
PathIsSet == pc \in AccessSteps \ {"get", "check"} => path

\* When the document object has gone or the application has ended, its working
\* copy has been removed, or removing it was tried and failed: none is forgotten,
\* wherever making it failed and whoever asked for the package after the document
\* was closed.
NoTemporaryFilesLeft == pc \in {"gone", "ended"} /\ dir # "none" => unremoved

\* Asking for the package, writing, closing and terminating all return: the loop
\* that closes the package ends also when there is none or it cannot be closed.
CallsReturn == pc \in AccessSteps \cup CloseSteps ~> pc \in {"idle", "ended"}

\* "A path where a temporary copy of the document package bundle is created": the
\* package that is open for a document read from a file is a copy of all of it.
CopyIsComplete == controller /\ file = "whole" => dir = "whole"

\* "Set by accessing the lazily populated packageController property and never
\* unset after that": the access error of a document stays.
ErrorStaysSet == [][accessError /\ pc # "gone" => accessError']_vars

\* "Package access error should be set after failure to open a package controller":
\* what -writeToURL: asserts when it has asked for the package in vain.
ErrorAfterFailure == pc = "idle" /\ caller = "write" /\ failed => accessError

\* "Return NO if the package controller is in an invalid state": the document
\* knows that its package was found invalid.
InvalidIsKnown == pc = "idle" /\ controller /\ ~valid => accessError
=============================================================================
