------------------------------ MODULE MachOFile ------------------------------
(***************************************************************************)
(* core/macho_file.cpp: one MachOFile object that edits and signs the      *)
(* executable at Path, and the directory entries it works with.  Every     *)
(* edit is made on a temporary copy, which then replaces the executable by *)
(* renames that never overwrite (FileSystem::Rename without                *)
(* replaceExisting).  An edit other than a signature keeps a copy of the   *)
(* original until a signature commits it (pendingOriginalFile_).           *)
(*                                                                         *)
(* One step is one system call that the next statement depends on: a crash *)
(* or a failing call may come between any two of them.                     *)
(***************************************************************************)
EXTENDS Naturals, FiniteSets

CONSTANTS
  Name,          \* file names of the executable's directory
  Path,          \* filePath_
  NoName,        \* the empty string
  NoFile,        \* no such directory entry
  Partial,       \* a file whose content is incomplete
  Closed,        \* mappedData_ == nullptr
  TransientOpen, \* where mapping a valid file may fail: "replace", "restore"
  NamesPerCall   \* bound: free names a call may need

ASSUME NameAssumption == Path \in Name /\ NoName \notin Name

Edit == {"inject", "remove"}

(* What the properties tell apart in an executable: the load-command edits *)
(* in it, whether its signature covers them, and whether every slice of it *)
(* passes MachOSlice::Init.                                                *)
Image == [edits : SUBSET Edit, signed : BOOLEAN, loads : BOOLEAN]

ASSUME ContentAssumption ==
  /\ NoFile \notin Image /\ Partial \notin Image /\ Closed \notin Image
  /\ NoFile # Partial

Original == [edits |-> {}, signed |-> FALSE, loads |-> TRUE]

VARIABLES
  disk,       \* the content under each name
  handle,     \* the mapped image, or Closed
  pending,    \* pendingOriginalFile_
  pc,         \* the next statement
  call,       \* the public operation in progress, or the last one
  temp,       \* temporaryFile of the call, or rollbackFile when restoring
  backup,     \* backupFile of ReplaceAndReopen
  invalid,    \* invalidReplacement of ReplaceAndReopen
  restoring,  \* whether ReplaceAndReopen runs for RestorePendingOriginal
  replaced,   \* the result of ReplaceAndReopen
  base,       \* history: the image the object answers for
  reported,   \* history: the edits whose calls returned true
  faults      \* history: the kinds of failures met so far

locals == <<temp, backup, invalid, restoring>>
ghosts == <<base, reported>>
vars == <<disk, handle, pending, pc, call, locals, replaced, ghosts, faults>>

------------------------------------------------------------------------------
(* Files.                                                                  *)

Loads(c) == c \in Image /\ c.loads

(* RandomTemporaryPath: a name that is neither on disk nor remembered.     *)
Fresh == {n \in Name \ {Path, temp, backup, pending} : disk[n] = NoFile}
NewName == CHOOSE n \in Fresh : TRUE

With(d, n, c) == [m \in Name |-> IF m = n THEN c ELSE d[m]]
Move(d, from, to) ==
  [m \in Name |-> IF m = to THEN d[from] ELSE IF m = from THEN NoFile ELSE d[m]]

(* FileSystem::RemoveFile, whose result no caller looks at.                *)
RemoveFile(n) ==
  \/ /\ disk' = With(disk, n, NoFile)
     /\ UNCHANGED faults
  \/ /\ n \in Name /\ disk[n] # NoFile
     /\ faults' = faults \cup {"remove"}
     /\ UNCHANGED disk

(* A failure while the previous state is being put back.                   *)
RollbackFault == faults' = faults \cup {"rollback", "retained"}
NoteIfRestoring == IF restoring THEN RollbackFault ELSE UNCHANGED faults

OpenSite == IF restoring THEN "restore" ELSE "replace"
OpenMayFail(c) == ~Loads(c) \/ OpenSite \in TransientOpen

(* OpenFile on an error path: its result only decides the mapping.         *)
TryReopen(c) ==
  \/ Loads(c) /\ handle' = c
  \/ OpenMayFail(c) /\ handle' = Closed

ReturnFalse ==
  /\ replaced' = FALSE
  /\ pc' = "return"

------------------------------------------------------------------------------

(* The executable is there and Init mapped it.                             *)
Init ==
  /\ disk = [n \in Name |-> IF n = Path THEN Original ELSE NoFile]
  /\ handle = Original
  /\ pending = NoName /\ temp = NoName /\ backup = NoName /\ invalid = NoName
  /\ pc = "idle" /\ call = "none"
  /\ restoring = FALSE /\ replaced = FALSE
  /\ base = Original /\ reported = {}
  /\ faults = {}

(* Mutant of Begin: the mappedData_ guard of the operations is dropped.     *)
BeginUnmapped(op) ==
  /\ pc = "idle"
  /\ Cardinality(Fresh) >= NamesPerCall
  /\ call' = op
  /\ pc' = IF op = "sign" \/ pending # NoName THEN "copy" ELSE "capture"
  /\ UNCHANGED <<disk, handle, pending, locals, replaced, ghosts, faults>>

(* Sign, InjectDylib and RemoveDylibs all return at once unless the file   *)
(* is mapped.  The callers give an object up after the first false result. *)
Begin(op) ==
  /\ pc = "idle" /\ handle # Closed
  /\ Cardinality(Fresh) >= NamesPerCall
  /\ call' = op
  /\ pc' = IF op = "sign" \/ pending # NoName THEN "copy" ELSE "capture"
  /\ UNCHANGED <<disk, handle, pending, locals, replaced, ghosts, faults>>

(* CaptureOriginalForRollback: WriteExclusiveTemporary leaves the name in  *)
(* its output parameter even when it fails.                                *)
Capture ==
  /\ pc = "capture" /\ Fresh # {}
  /\ pending' = NewName
  /\ \/ /\ disk' = With(disk, NewName, handle)
        /\ pc' = "copy"
        /\ UNCHANGED faults
     \/ /\ pc' = "failed"
        /\ \/ UNCHANGED <<disk, faults>>
           \/ /\ disk' = With(disk, NewName, Partial)
              /\ faults' = faults \cup {"remove"}
  /\ UNCHANGED <<handle, call, locals, replaced, ghosts>>

(* WriteExclusiveTemporary of the mapped bytes.                            *)
CopyToTemporary ==
  /\ pc = "copy" /\ Fresh # {}
  /\ \/ /\ disk' = With(disk, NewName, handle)
        /\ temp' = NewName
        /\ pc' = "edit"
        /\ UNCHANGED faults
     \/ /\ pc' = "restore"
        /\ UNCHANGED temp
        /\ \/ UNCHANGED <<disk, faults>>
           \/ /\ disk' = With(disk, NewName, Partial)
              /\ faults' = faults \cup {"remove"}
  /\ UNCHANGED <<handle, pending, call, backup, invalid, restoring, replaced, ghosts>>

Edited(l) ==
  [edits  |-> handle.edits \cup ({call} \cap Edit),
   signed |-> call = "sign",
   loads  |-> l]

(* Mutant of EditFails: the edits before this one are not rolled back.      *)
EditFailsForGood ==
  /\ pc = "edit"
  /\ disk' = With(disk, temp, NoFile)
  /\ temp' = NoName
  /\ pc' = "failed"
  /\ UNCHANGED <<handle, pending, call, backup, invalid, restoring, replaced, ghosts, faults>>

(* candidate.Init, the edit in place and candidate.Free succeed.  Nothing  *)
(* has looked at the result yet, so it may not load.                       *)
EditCandidate ==
  /\ pc = "edit"
  /\ \E l \in BOOLEAN : disk' = With(disk, temp, Edited(l))
  /\ pc' = "close"
  /\ UNCHANGED <<handle, pending, call, locals, replaced, ghosts, faults>>

(* The edit fails half way and the copy is removed.  A signature that had  *)
(* to reallocate its space may leave what its own ReplaceAndReopen         *)
(* retained beside the copy.                                               *)
EditFails ==
  /\ pc = "edit"
  /\ \/ /\ disk' = With(disk, temp, NoFile)
        /\ UNCHANGED faults
     \/ /\ disk' = With(disk, temp, Partial)
        /\ faults' = faults \cup {"remove"}
     \/ /\ call = "sign" /\ Fresh # {}
        /\ disk' = With(With(disk, temp, NoFile), NewName, Partial)
        /\ faults' = faults \cup {"retained"}
  /\ temp' = NoName
  /\ pc' = "restore"
  /\ UNCHANGED <<handle, pending, call, backup, invalid, restoring, replaced, ghosts>>

------------------------------------------------------------------------------
(* ReplaceAndReopen.                                                       *)

(* CloseFile reports a failing munmap only when something was mapped.      *)
CloseForReplace ==
  /\ pc = "close"
  /\ handle' = Closed
  /\ \/ /\ pc' = "metadata"
        /\ UNCHANGED <<replaced, faults>>
     \/ /\ handle # Closed
        /\ ReturnFalse
        /\ NoteIfRestoring
  /\ UNCHANGED <<disk, pending, call, locals, ghosts>>

CopyReplacementMetadata ==
  /\ pc = "metadata"
  /\ \/ /\ disk[Path] # NoFile /\ disk[temp] # NoFile
        /\ pc' = "aside"
        /\ UNCHANGED <<handle, replaced, faults>>
     \/ /\ TryReopen(disk[Path])
        /\ ReturnFalse
        /\ NoteIfRestoring
  /\ UNCHANGED <<disk, pending, call, locals, ghosts>>

(* Mutant of RenameToBackup: the original is unlinked instead of renamed.   *)
UnlinkOriginal ==
  /\ pc = "aside"
  /\ disk' = With(disk, Path, NoFile)
  /\ pc' = "publish"
  /\ UNCHANGED <<handle, pending, call, locals, replaced, ghosts, faults>>

RenameToBackup ==
  /\ pc = "aside" /\ Fresh # {}
  /\ \/ /\ disk' = Move(disk, Path, NewName)
        /\ backup' = NewName
        /\ pc' = "publish"
        /\ UNCHANGED <<handle, replaced, faults>>
     \/ /\ UNCHANGED <<disk, backup>>
        /\ TryReopen(disk[Path])
        /\ ReturnFalse
        /\ NoteIfRestoring
  /\ UNCHANGED <<pending, call, temp, invalid, restoring, ghosts>>

(* Mutant of RenameToPath: the backup goes before the replacement has been  *)
(* opened.                                                                  *)
RenameOverBackup ==
  /\ pc = "publish"
  /\ disk' = With(Move(disk, temp, Path), backup, NoFile)
  /\ pc' = "verify"
  /\ UNCHANGED <<handle, pending, call, locals, replaced, ghosts, faults>>

RenameToPath ==
  /\ pc = "publish"
  /\ \/ /\ disk' = Move(disk, temp, Path)
        /\ pc' = "verify"
        /\ UNCHANGED faults
     \/ /\ pc' = "undo"
        /\ NoteIfRestoring
        /\ UNCHANGED disk
  /\ UNCHANGED <<handle, pending, call, locals, replaced, ghosts>>

(* Mutant of UndoBackup: reopening the restored original counts as success. *)
UndoReportsReopened ==
  /\ pc = "undo"
  /\ disk' = Move(disk, backup, Path)
  /\ backup' = NoName
  /\ TryReopen(disk[backup])
  /\ replaced' = (handle' # Closed)
  /\ pc' = "return"
  /\ UNCHANGED <<pending, call, temp, invalid, restoring, ghosts, faults>>

(* The replacement could not be put in place: the backup goes back.        *)
UndoBackup ==
  /\ pc = "undo"
  /\ \/ /\ disk' = Move(disk, backup, Path)
        /\ backup' = NoName
        /\ TryReopen(disk[backup])
        /\ ReturnFalse
        /\ UNCHANGED faults
     \/ /\ pc' = "park"
        /\ RollbackFault
        /\ UNCHANGED <<disk, handle, backup, replaced>>
  /\ UNCHANGED <<pending, call, temp, invalid, restoring, ghosts>>

(* Both renames failed: the replacement is renamed to failed-replacement   *)
(* and the caller's name for it is cleared, so that it is not removed.     *)
ParkReplacement ==
  /\ pc = "park" /\ Fresh # {}
  /\ \/ disk' = Move(disk, temp, NewName)
     \/ UNCHANGED disk
  /\ temp' = NoName
  /\ ReturnFalse
  /\ UNCHANGED <<handle, pending, call, backup, invalid, restoring, ghosts, faults>>

(* Mutant of OpenReplacement: the slices of the replacement are not         *)
(* validated.                                                               *)
OpenUnvalidated ==
  /\ pc = "verify"
  /\ handle' = disk[Path]
  /\ base' = IF call = "sign" /\ ~restoring THEN disk[Path] ELSE base
  /\ pc' = "dropbackup"
  /\ UNCHANGED <<disk, pending, call, locals, replaced, reported, faults>>

(* OpenFile of the replacement.  A signature that opens is committed: from *)
(* here on the object answers for the signed image.                        *)
OpenReplacement ==
  /\ pc = "verify"
  /\ \/ /\ Loads(disk[Path])
        /\ handle' = disk[Path]
        /\ base' = IF call = "sign" /\ ~restoring THEN disk[Path] ELSE base
        /\ pc' = "dropbackup"
        /\ UNCHANGED faults
     \/ /\ OpenMayFail(disk[Path])
        /\ handle' = Closed
        /\ pc' = "withdraw"
        /\ NoteIfRestoring
        /\ UNCHANGED base
  /\ UNCHANGED <<disk, pending, call, locals, replaced, reported>>

RemoveBackup ==
  /\ pc = "dropbackup"
  /\ RemoveFile(backup)
  /\ backup' = NoName
  /\ replaced' = TRUE
  /\ pc' = "return"
  /\ UNCHANGED <<handle, pending, call, temp, invalid, restoring, ghosts>>

(* The replacement does not open: it is renamed away.                      *)
WithdrawReplacement ==
  /\ pc = "withdraw" /\ Fresh # {}
  /\ \/ /\ disk' = Move(disk, Path, NewName)
        /\ invalid' = NewName
        /\ pc' = "reinstate"
        /\ UNCHANGED <<replaced, faults>>
     \/ /\ UNCHANGED <<disk, invalid>>
        /\ ReturnFalse
        /\ RollbackFault
  /\ UNCHANGED <<handle, pending, call, temp, backup, restoring, ghosts>>

ReinstateBackup ==
  /\ pc = "reinstate"
  /\ \/ /\ disk' = Move(disk, backup, Path)
        /\ backup' = NoName
        /\ pc' = "reopen"
        /\ UNCHANGED <<replaced, faults>>
     \/ /\ UNCHANGED <<disk, backup>>
        /\ ReturnFalse
        /\ RollbackFault
  /\ UNCHANGED <<handle, pending, call, temp, invalid, restoring, ghosts>>

(* The invalid replacement is removed only once the backup opens again.    *)
ReopenBackup ==
  /\ pc = "reopen"
  /\ \/ /\ Loads(disk[Path])
        /\ handle' = disk[Path]
        /\ RemoveFile(invalid)
     \/ /\ OpenMayFail(disk[Path])
        /\ handle' = Closed
        /\ faults' = faults \cup {"retained"}
        /\ UNCHANGED disk
  /\ ReturnFalse
  /\ UNCHANGED <<pending, call, locals, ghosts>>

------------------------------------------------------------------------------
(* What the operations do with the result.                                 *)

(* Mutant of ReturnFromReplace: the temporary file is not removed.          *)
ReturnKeepingTemporary ==
  /\ pc = "return" /\ ~restoring
  /\ temp' = NoName /\ backup' = NoName /\ invalid' = NoName
  /\ pc' = IF ~replaced THEN "restore" ELSE IF call = "sign" THEN "commit" ELSE "idle"
  /\ reported' = IF replaced THEN reported \cup ({call} \cap Edit) ELSE reported
  /\ UNCHANGED <<disk, handle, pending, call, restoring, replaced, base, faults>>

(* RemoveFile(temporaryFile) follows ReplaceAndReopen whatever it says;    *)
(* RemoveFile ignores an empty name.                                       *)
ReturnFromReplace ==
  /\ pc = "return" /\ ~restoring
  /\ RemoveFile(temp)
  /\ temp' = NoName /\ backup' = NoName /\ invalid' = NoName
  /\ pc' = IF ~replaced THEN "restore" ELSE IF call = "sign" THEN "commit" ELSE "idle"
  /\ reported' = IF replaced THEN reported \cup ({call} \cap Edit) ELSE reported
  /\ UNCHANGED <<handle, pending, call, restoring, replaced, base>>

(* RestorePendingOriginal: the kept copy of the original is the            *)
(* replacement now.                                                        *)
RestorePendingOriginal ==
  /\ pc = "restore"
  /\ IF pending = NoName
       THEN /\ pc' = "failed"
            /\ UNCHANGED <<temp, restoring>>
       ELSE /\ temp' = pending
            /\ restoring' = TRUE
            /\ pc' = "close"
  /\ UNCHANGED <<disk, handle, pending, call, backup, invalid, replaced, ghosts, faults>>

(* The object gives its name for the copy up, whatever became of it.       *)
ReturnFromRestore ==
  /\ pc = "return" /\ restoring
  /\ pending' = NoName
  /\ temp' = NoName /\ backup' = NoName /\ invalid' = NoName
  /\ restoring' = FALSE
  /\ pc' = "failed"
  /\ UNCHANGED <<disk, handle, call, replaced, ghosts, faults>>

(* The end of Sign: the copy of the original is no longer needed, and the  *)
(* result is that of CloseFile.                                            *)
CommitSignature ==
  /\ pc = "commit"
  /\ RemoveFile(pending)
  /\ pending' = NoName
  /\ handle' = Closed
  /\ pc' \in {"idle", "failed"}
  /\ UNCHANGED <<call, locals, replaced, ghosts>>

(* ~MachOFile removes the copy of the original and restores nothing: an    *)
(* edit whose signature was never asked for stays.                         *)
Destroy ==
  /\ pc \in {"idle", "failed"}
  /\ RemoveFile(pending)
  /\ base' = IF pc = "idle" /\ pending # NoName THEN disk[Path] ELSE base
  /\ pending' = NoName
  /\ handle' = Closed
  /\ pc' = "gone"
  /\ UNCHANGED <<call, locals, replaced, reported>>

(* The process dies: the files stay, and one may have been half written.   *)
Crash ==
  /\ pc \notin {"gone", "crashed"}
  /\ \/ UNCHANGED disk
     \/ /\ pc \in {"capture", "copy"} /\ Fresh # {}
        /\ disk' = With(disk, NewName, Partial)
     \/ /\ pc = "edit"
        /\ disk' = With(disk, temp, Partial)
  /\ handle' = Closed
  /\ pending' = NoName /\ temp' = NoName /\ backup' = NoName /\ invalid' = NoName
  /\ restoring' = FALSE
  /\ pc' = "crashed"
  /\ faults' = faults \cup {"crash"}
  /\ UNCHANGED <<call, replaced, ghosts>>

(* The next MachOFile::Init on the same executable answers for what it     *)
(* finds there.                                                            *)
NewObject ==
  /\ pc \in {"gone", "crashed"}
  /\ Loads(disk[Path])
  /\ handle' = disk[Path]
  /\ base' = disk[Path]
  /\ reported' = disk[Path].edits
  /\ call' = "none" /\ pc' = "idle" /\ replaced' = FALSE
  /\ faults' = faults \ {"rollback"}
  /\ UNCHANGED <<disk, pending, locals>>

------------------------------------------------------------------------------

Replace ==
  \/ CloseForReplace \/ CopyReplacementMetadata
  \/ RenameToBackup \/ RenameToPath \/ UndoBackup \/ ParkReplacement
  \/ OpenReplacement \/ RemoveBackup
  \/ WithdrawReplacement \/ ReinstateBackup \/ ReopenBackup

Statement ==
  \/ Capture \/ CopyToTemporary \/ EditCandidate \/ EditFails
  \/ Replace
  \/ ReturnFromReplace \/ RestorePendingOriginal \/ ReturnFromRestore
  \/ CommitSignature

Next ==
  \/ \E op \in Edit \cup {"sign"} : Begin(op)
  \/ Statement
  \/ Destroy \/ Crash \/ NewObject

Spec == Init /\ [][Next]_vars

------------------------------------------------------------------------------
(* Properties.                                                             *)

Control == {"idle", "capture", "copy", "edit", "close", "metadata", "aside",
            "publish", "undo", "park", "verify", "dropbackup", "withdraw",
            "reinstate", "reopen", "return", "restore", "commit", "failed",
            "gone", "crashed"}

TypeOK ==
  /\ disk \in [Name -> Image \cup {NoFile, Partial}]
  /\ handle \in Image \cup {Closed}
  /\ {pending, temp, backup, invalid} \subseteq Name \cup {NoName}
  /\ pc \in Control
  /\ call \in Edit \cup {"sign", "none"}
  /\ restoring \in BOOLEAN /\ replaced \in BOOLEAN
  /\ base \in Image /\ reported \subseteq Edit
  /\ faults \subseteq {"remove", "rollback", "retained", "crash"}

Retained(c) == \E n \in Name : disk[n] = c

(* At every instant, between any two system calls and after a crash, some  *)
(* directory entry holds every byte of the image the object answers for:   *)
(* the original until a signed replacement has been opened, the signed one *)
(* from then on.                                                           *)
BaseRecoverable == Retained(base)

(* When an operation has returned and the executable is missing or does    *)
(* not open, the operation returned false and the base is beside it.       *)
UnusableOnlyWithBackup ==
  (pc \in {"idle", "failed"} /\ ~Loads(disk[Path]))
    => pc = "failed" /\ \E n \in Name \ {Path} : disk[n] = base

(* A false result without a failure of the rollback itself means the       *)
(* executable is what the object answers for: whatever failed first, in    *)
(* any of the edits since the last signature, has been undone.             *)
FailureRestores ==
  (pc = "failed" /\ "rollback" \notin faults) => disk[Path] = base

(* After a true result the executable holds exactly the edits whose calls  *)
(* returned true, and is signed when the last call was Sign.               *)
ReportedEditsInstalled ==
  (pc = "idle" /\ call # "none")
    => disk[Path] = [edits |-> reported, signed |-> call = "sign", loads |-> TRUE]

(* Unless removing a file or rolling back failed, or the process died, an  *)
(* operation leaves no file behind but the copy it may have to restore.    *)
NothingLeftBehind ==
  (pc \in {"idle", "failed", "gone"} /\ faults = {})
    => \A n \in Name \ {Path} : disk[n] # NoFile => n = pending

(* RestorePendingOriginal: "ReplaceAndReopen retains and reports both      *)
(* artifacts on rollback failure."  When the restoration has failed, the   *)
(* original is still on disk.                                              *)
RestoreKeepsEvidence ==
  (pc = "return" /\ restoring /\ ~replaced) => Retained(base)

(* The published name, the base and whether it is held elsewhere: the      *)
(* object implements the promise of AtomicPublish.                         *)
Publication == INSTANCE AtomicPublish WITH
  Accepted <- {c \in Image : c.loads},
  Nothing  <- NoFile,
  shown    <- disk[Path],
  held     <- \E n \in Name \ {Path} : disk[n] = base

PublishesAtomically == Publication!Spec
==============================================================================
