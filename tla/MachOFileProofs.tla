--------------------------- MODULE MachOFileProofs ---------------------------
(***************************************************************************)
(* Proofs about MachOFile, for every directory and every number of calls:  *)
(* its type invariant; that the image the object answers for is always on  *)
(* disk; what is on disk when an operation has returned; and that it       *)
(* implements AtomicPublish.  All but the first rest on the assumption     *)
(* that a valid file that is being restored can be mapped, which the run   *)
(* macho_file_restore shows to be needed.                                  *)
(***************************************************************************)
EXTENDS MachOFile, TLAPS

------------------------------------------------------------------------------
(* The inductive invariant.                                                *)

Staged    == {"edit", "close", "metadata", "aside", "publish", "undo", "park"}
BackedUp  == {"publish", "undo", "park", "verify", "dropbackup", "withdraw", "reinstate"}
Replacing == {"close", "metadata", "aside"} \cup BackedUp \cup {"reopen", "return"}
PathEmpty == {"publish", "undo", "park", "reinstate"}

(* Which names are in use at each statement, and that they are different.  *)
NamesDistinct ==
  /\ Path \notin {temp, backup, invalid, pending}
  /\ pc \in Staged => temp \in Name
  /\ pc \in BackedUp => backup \in Name /\ backup \notin {temp, pending}
  /\ pc \in {"reinstate", "reopen"} =>
       invalid \in Name /\ invalid \notin {temp, backup, pending}
  /\ ~restoring => temp = NoName \/ temp # pending
  /\ restoring => /\ pc \in Replacing /\ pending \in Name
                  /\ pc \in Staged => temp = pending

(* What the executable's name and the mapping hold at each statement.      *)
PathState ==
  /\ pc \in {"capture", "copy", "edit"} => handle \in Image
  /\ pc \in PathEmpty => disk[Path] = NoFile
  /\ pc = "dropbackup" => Loads(disk[Path])
  /\ (pc = "return" /\ replaced /\ ~restoring) => Loads(disk[Path])
  /\ (pc = "idle" /\ pending # NoName) => Loads(disk[Path])

TypeInv == TypeOK /\ NamesDistinct /\ PathState

(* Sign has opened the signed image and not yet returned.                  *)
Committed ==
  /\ call = "sign" /\ ~restoring
  /\ pc \in {"dropbackup", "commit"} \/ (pc = "return" /\ replaced)

(* The names whose file the coming statements may remove or replace.       *)
Doomed ==
  CASE pc \in {"verify", "withdraw"}  -> {temp, Path}
    [] pc \in {"reinstate", "reopen"} -> {temp, invalid}
    [] pc = "failed"                  -> {temp, pending}
    [] OTHER                          -> {temp}

HeldOutside(S) == \E n \in Name \ S : disk[n] = base

(* Where the base is.                                                      *)
BaseLocated ==
  /\ Loads(base)
  /\ (pc \in {"idle", "capture"} /\ pending = NoName /\ handle # Closed) => handle = base
  /\ (call # "sign" /\ pc \in Replacing \cup {"copy", "edit"}) => pending \in Name
  /\ pc \in {"capture", "gone", "crashed"} => pending = NoName
  /\ pc = "commit" => call = "sign"
  /\ (pending \in Name /\ ~restoring /\ ~Committed /\ pc # "failed") => disk[pending] = base
  /\ Committed => disk[Path] = base
  /\ (~restoring /\ ~Committed /\ pc # "dropbackup") => HeldOutside(Doomed)
  /\ restoring =>
       /\ pc \notin {"withdraw", "reinstate", "reopen"}
       /\ pc \in Staged => disk[temp] = base
       /\ pc \in {"verify", "dropbackup"} => disk[Path] = base
       /\ pc = "return" => Retained(base)

IInv == TypeInv /\ BaseLocated

------------------------------------------------------------------------------
(* Facts about names and files.                                            *)

(* A new temporary path is a free name that nothing remembers.             *)
LEMMA NewNameIsFree ==
  ASSUME Fresh # {}
  PROVE  /\ NewName \in Name
         /\ NewName \notin {Path, temp, backup, pending}
         /\ disk[NewName] = NoFile
  BY DEF NewName, Fresh

(* The images, the other contents and the empty name are different things. *)
LEMMA Kinds ==
  /\ Path \in Name /\ NoName \notin Name
  /\ NoFile \notin Image /\ Partial \notin Image /\ Closed \notin Image
  /\ \A c : Loads(c) => c \in Image
  /\ ~Loads(NoFile) /\ ~Loads(Partial) /\ ~Loads(Closed)
  BY NameAssumption, ContentAssumption DEF Loads

(* Writing and renaming keep the type of the directory.                    *)
LEMMA FilesType ==
  ASSUME disk \in [Name -> Image \cup {NoFile, Partial}]
  PROVE  /\ \A n, c : c \in Image \cup {NoFile, Partial} =>
              With(disk, n, c) \in [Name -> Image \cup {NoFile, Partial}]
         /\ \A from \in Name : \A to :
              Move(disk, from, to) \in [Name -> Image \cup {NoFile, Partial}]
  BY DEF With, Move

(* RemoveFile changes no other name, and keeps the types.                  *)
LEMMA RemoveFileEffect ==
  ASSUME disk \in [Name -> Image \cup {NoFile, Partial}],
         faults \subseteq {"remove", "rollback", "retained", "crash"},
         NEW n, RemoveFile(n)
  PROVE  /\ disk' \in [Name -> Image \cup {NoFile, Partial}]
         /\ faults' \subseteq {"remove", "rollback", "retained", "crash"}
         /\ \A m \in Name : m # n => disk'[m] = disk[m]
  BY DEF RemoveFile, With

------------------------------------------------------------------------------
(* Type correctness.                                                       *)

LEMMA InitTypeInv == Init => TypeInv
<1>1. Original \in Image /\ Loads(Original)
  BY DEF Original, Image, Loads
<1> QED
  BY <1>1, Kinds DEF Init, TypeInv, TypeOK, NamesDistinct, PathState, Edit, Control,
     Staged, BackedUp, Replacing, PathEmpty

LEMMA NextTypeInv == TypeInv /\ [Next]_vars => TypeInv'
<1> SUFFICES ASSUME TypeInv, [Next]_vars PROVE TypeInv'
  OBVIOUS
<1> USE Kinds, FilesType DEF TypeInv, TypeOK, NamesDistinct, PathState, Control,
        Staged, BackedUp, Replacing, PathEmpty, locals, ghosts
<1>1. ASSUME NEW op \in Edit \cup {"sign"}, Begin(op) PROVE TypeInv'
  BY <1>1 DEF Begin, Edit
<1>2. CASE Capture
  <2>1. TypeOK'
    <3>1. /\ With(disk, NewName, handle) \in [Name -> Image \cup {NoFile, Partial}]
          /\ With(disk, NewName, Partial) \in [Name -> Image \cup {NoFile, Partial}]
      BY <1>2 DEF Capture
    <3>2. NewName \in Name
      BY <1>2, NewNameIsFree DEF Capture
    <3> QED
      BY <1>2, <3>1, <3>2 DEF Capture
  <2>2. NamesDistinct'
    BY <1>2, NewNameIsFree DEF Capture
  <2>3. PathState'
    BY <1>2, NewNameIsFree DEF Capture
  <2> QED
    BY <2>1, <2>2, <2>3
<1>3. CASE CopyToTemporary
  <2>1. TypeOK'
    <3>1. /\ With(disk, NewName, handle) \in [Name -> Image \cup {NoFile, Partial}]
          /\ With(disk, NewName, Partial) \in [Name -> Image \cup {NoFile, Partial}]
      BY <1>3 DEF CopyToTemporary
    <3>2. NewName \in Name
      BY <1>3, NewNameIsFree DEF CopyToTemporary
    <3> QED
      BY <1>3, <3>1, <3>2 DEF CopyToTemporary
  <2>2. NamesDistinct'
    BY <1>3, NewNameIsFree DEF CopyToTemporary
  <2>3. PathState'
    BY <1>3, NewNameIsFree DEF CopyToTemporary
  <2> QED
    BY <2>1, <2>2, <2>3
<1>4. CASE EditCandidate
  BY <1>4 DEF EditCandidate, Edited, Image, With
<1>5. CASE EditFails
  BY <1>5, NewNameIsFree DEF EditFails, With
<1>6. CASE CloseForReplace
  BY <1>6 DEF CloseForReplace, NoteIfRestoring, RollbackFault, ReturnFalse
<1>7. CASE CopyReplacementMetadata
  BY <1>7 DEF CopyReplacementMetadata, TryReopen, NoteIfRestoring, RollbackFault, ReturnFalse
<1>8. CASE RenameToBackup
  BY <1>8, NewNameIsFree, ZenonT(30) DEF RenameToBackup, TryReopen, NoteIfRestoring, RollbackFault,
     ReturnFalse, Move
<1>9. CASE RenameToPath
  BY <1>9 DEF RenameToPath, NoteIfRestoring, RollbackFault, Move
<1>10. CASE UndoBackup
  BY <1>10, ZenonT(30) DEF UndoBackup, TryReopen, RollbackFault, ReturnFalse, Move
<1>11. CASE ParkReplacement
  BY <1>11, NewNameIsFree DEF ParkReplacement, ReturnFalse, Move
<1>12. CASE OpenReplacement
  BY <1>12 DEF OpenReplacement, NoteIfRestoring, RollbackFault
<1>13. CASE RemoveBackup
  BY <1>13, RemoveFileEffect DEF RemoveBackup
<1>14. CASE WithdrawReplacement
  BY <1>14, NewNameIsFree, ZenonT(30) DEF WithdrawReplacement, RollbackFault, ReturnFalse, Move
<1>15. CASE ReinstateBackup
  BY <1>15, ZenonT(30) DEF ReinstateBackup, RollbackFault, ReturnFalse, Move
<1>16. CASE ReopenBackup
  BY <1>16, RemoveFileEffect DEF ReopenBackup, ReturnFalse
<1>17. CASE ReturnFromReplace
  BY <1>17, RemoveFileEffect DEF ReturnFromReplace, Edit
<1>18. CASE RestorePendingOriginal
  BY <1>18 DEF RestorePendingOriginal
<1>19. CASE ReturnFromRestore
  BY <1>19 DEF ReturnFromRestore
<1>20. CASE CommitSignature
  BY <1>20, RemoveFileEffect DEF CommitSignature
<1>21. CASE Destroy
  BY <1>21, RemoveFileEffect DEF Destroy
<1>22. CASE Crash
  BY <1>22, NewNameIsFree DEF Crash, With
<1>23. CASE NewObject
  BY <1>23 DEF NewObject, Image, Loads
<1>24. CASE UNCHANGED vars
  BY <1>24 DEF vars, Loads
<1>25. QED
  BY <1>1, <1>2, <1>3, <1>4, <1>5, <1>6, <1>7, <1>8, <1>9, <1>10, <1>11, <1>12,
     <1>13, <1>14, <1>15, <1>16, <1>17, <1>18, <1>19, <1>20, <1>21, <1>22, <1>23,
     <1>24 DEF Next, Statement, Replace

(* The variables keep their types, whatever fails and wherever the process *)
(* dies.                                                                   *)
THEOREM TypeCorrect == Spec => []TypeOK
<1>1. Spec => []TypeInv
  BY InitTypeInv, NextTypeInv, PTL DEF Spec
<1>2. TypeInv => TypeOK
  BY DEF TypeInv
<1> QED
  BY <1>1, <1>2, PTL

------------------------------------------------------------------------------
(* The base is always on disk.                                             *)

LEMMA InitBaseLocated == Init => BaseLocated
<1>1. Original \in Image /\ Loads(Original)
  BY DEF Original, Image, Loads
<1> QED
  BY <1>1, Kinds DEF Init, BaseLocated, HeldOutside, Doomed, Committed, Edit,
     Replacing, BackedUp, Staged

LEMMA NextBaseLocated ==
  ASSUME "restore" \notin TransientOpen
  PROVE  IInv /\ [Next]_vars => BaseLocated'
<1> SUFFICES ASSUME IInv, [Next]_vars PROVE BaseLocated'
  OBVIOUS
<1> USE Kinds DEF IInv, TypeInv, TypeOK, NamesDistinct, PathState, BaseLocated,
        Staged, BackedUp, Replacing, PathEmpty, Committed, Doomed, HeldOutside,
        Retained, locals, ghosts
<1>1. ASSUME NEW op \in Edit \cup {"sign"}, Begin(op) PROVE BaseLocated'
  BY <1>1 DEF Begin, Edit
<1>2. CASE Capture
  BY <1>2, NewNameIsFree DEF Capture, With
<1>3. CASE CopyToTemporary
  BY <1>3, NewNameIsFree DEF CopyToTemporary, With
<1>4. CASE EditCandidate
  BY <1>4 DEF EditCandidate, With
<1>5. CASE EditFails
  BY <1>5, NewNameIsFree DEF EditFails, With
<1>6. CASE CloseForReplace
  BY <1>6 DEF CloseForReplace, ReturnFalse
<1>7. CASE CopyReplacementMetadata
  BY <1>7 DEF CopyReplacementMetadata, ReturnFalse
<1>8. CASE RenameToBackup
  BY <1>8, NewNameIsFree DEF RenameToBackup, ReturnFalse, Move
<1>9. CASE RenameToPath
  BY <1>9 DEF RenameToPath, Move
<1>10. CASE UndoBackup
  BY <1>10 DEF UndoBackup, ReturnFalse, Move
<1>11. CASE ParkReplacement
  BY <1>11, NewNameIsFree DEF ParkReplacement, ReturnFalse, Move
<1>12. CASE OpenReplacement
  BY <1>12 DEF OpenReplacement, OpenMayFail, OpenSite
<1>13. CASE RemoveBackup
  BY <1>13, RemoveFileEffect DEF RemoveBackup
<1>14. CASE WithdrawReplacement
  BY <1>14, NewNameIsFree DEF WithdrawReplacement, ReturnFalse, Move
<1>15. CASE ReinstateBackup
  BY <1>15 DEF ReinstateBackup, ReturnFalse, Move
<1>16. CASE ReopenBackup
  BY <1>16, RemoveFileEffect DEF ReopenBackup, ReturnFalse
<1>17. CASE ReturnFromReplace
  BY <1>17, RemoveFileEffect DEF ReturnFromReplace, Edit
<1>18. CASE RestorePendingOriginal
  BY <1>18 DEF RestorePendingOriginal
<1>19. CASE ReturnFromRestore
  BY <1>19 DEF ReturnFromRestore
<1>20. CASE CommitSignature
  BY <1>20, RemoveFileEffect DEF CommitSignature
<1>21. CASE Destroy
  BY <1>21, RemoveFileEffect DEF Destroy
<1>22. CASE Crash
  BY <1>22, NewNameIsFree DEF Crash, With
<1>23. CASE NewObject
  BY <1>23 DEF NewObject, Edit
<1>24. CASE UNCHANGED vars
  BY <1>24 DEF vars
<1>25. QED
  BY <1>1, <1>2, <1>3, <1>4, <1>5, <1>6, <1>7, <1>8, <1>9, <1>10, <1>11, <1>12,
     <1>13, <1>14, <1>15, <1>16, <1>17, <1>18, <1>19, <1>20, <1>21, <1>22, <1>23,
     <1>24 DEF Next, Statement, Replace

LEMMA LocatedIsRecoverable == IInv => BaseRecoverable
  BY Kinds DEF IInv, TypeInv, TypeOK, NamesDistinct, BaseLocated, Staged, BackedUp,
     Replacing, Committed, Doomed, HeldOutside, Retained, BaseRecoverable

(* Unless a valid file fails to map while it is being restored, every byte *)
(* of the image the object answers for is on disk at every instant:        *)
(* between any two system calls, after any failure and after a crash.      *)
THEOREM BaseAlwaysRecoverable ==
  ASSUME "restore" \notin TransientOpen
  PROVE  Spec => []BaseRecoverable
<1>1. Init => IInv
  BY InitTypeInv, InitBaseLocated DEF IInv
<1>2. IInv /\ [Next]_vars => IInv'
  BY NextTypeInv, NextBaseLocated DEF IInv
<1> QED
  BY <1>1, <1>2, LocatedIsRecoverable, PTL DEF Spec

------------------------------------------------------------------------------
(* The results of calls.                                                   *)

LEMMA IInvHolds ==
  ASSUME "restore" \notin TransientOpen
  PROVE  (Init => IInv) /\ (IInv /\ [Next]_vars => IInv')
  BY InitTypeInv, InitBaseLocated, NextTypeInv, NextBaseLocated DEF IInv

------------------------------------------------------------------------------
(* Undoing.                                                                *)

(* The executable's name has its old content, or has it back.              *)
ShownAgain ==
  \/ pc \in {"capture", "copy", "edit", "close", "metadata", "aside", "reopen", "restore"}
  \/ pc = "idle" /\ handle # Closed
  \/ pc = "return" /\ ~replaced

(* Without a kept original, the base is under its name or in the backup    *)
(* until a signature is committed; a restoration that met no failure has   *)
(* put the kept original there; and whatever idles can be opened.          *)
Undoable ==
  /\ ("rollback" \notin faults /\ ~restoring /\ pending = NoName) =>
       /\ ShownAgain => disk[Path] = base
       /\ pc \in {"publish", "undo", "verify", "withdraw", "reinstate"} => disk[backup] = base
  /\ ("rollback" \notin faults /\ restoring) =>
       /\ pc \notin {"undo", "park"}
       /\ pc = "return" => disk[Path] = base
  /\ pc = "park" => "rollback" \in faults
  /\ pc = "idle" => Loads(disk[Path])
  /\ FailureRestores

LEMMA InitUndoable == Init => Undoable
<1>1. Original \in Image /\ Loads(Original)
  BY DEF Original, Image, Loads
<1> QED
  BY <1>1, Kinds DEF Init, Undoable, ShownAgain, FailureRestores

LEMMA NextUndoable ==
  ASSUME "restore" \notin TransientOpen
  PROVE  IInv /\ Undoable /\ [Next]_vars => Undoable'
<1> SUFFICES ASSUME IInv, Undoable, [Next]_vars PROVE Undoable'
  OBVIOUS
<1> USE Kinds DEF IInv, TypeInv, TypeOK, NamesDistinct, PathState, BaseLocated,
        Staged, BackedUp, Replacing, PathEmpty, Committed,
        locals, ghosts, Undoable, ShownAgain, FailureRestores
<1>1. ASSUME NEW op \in Edit \cup {"sign"}, Begin(op) PROVE Undoable'
  BY <1>1 DEF Begin
<1>2. CASE Capture
  BY <1>2, NewNameIsFree DEF Capture, With
<1>3. CASE CopyToTemporary
  BY <1>3, NewNameIsFree DEF CopyToTemporary, With
<1>4. CASE EditCandidate
  BY <1>4 DEF EditCandidate, With
<1>5. CASE EditFails
  BY <1>5, NewNameIsFree DEF EditFails, With
<1>6. CASE CloseForReplace
  BY <1>6 DEF CloseForReplace, ReturnFalse, NoteIfRestoring, RollbackFault
<1>7. CASE CopyReplacementMetadata
  BY <1>7 DEF CopyReplacementMetadata, ReturnFalse, NoteIfRestoring, RollbackFault
<1>8. CASE RenameToBackup
  BY <1>8, NewNameIsFree DEF RenameToBackup, ReturnFalse, Move, NoteIfRestoring, RollbackFault
<1>9. CASE RenameToPath
  BY <1>9 DEF RenameToPath, Move, NoteIfRestoring, RollbackFault
<1>10. CASE UndoBackup
  BY <1>10 DEF UndoBackup, ReturnFalse, Move, RollbackFault
<1>11. CASE ParkReplacement
  BY <1>11, NewNameIsFree DEF ParkReplacement, ReturnFalse, Move
<1>12. CASE OpenReplacement
  BY <1>12 DEF OpenReplacement, OpenMayFail, OpenSite, NoteIfRestoring, RollbackFault
<1>13. CASE RemoveBackup
  BY <1>13, RemoveFileEffect DEF RemoveBackup, RemoveFile
<1>14. CASE WithdrawReplacement
  BY <1>14, NewNameIsFree DEF WithdrawReplacement, ReturnFalse, Move, RollbackFault
<1>15. CASE ReinstateBackup
  BY <1>15 DEF ReinstateBackup, ReturnFalse, Move, RollbackFault
<1>16. CASE ReopenBackup
  BY <1>16, RemoveFileEffect DEF ReopenBackup, ReturnFalse, RemoveFile
<1>17. CASE ReturnFromReplace
  BY <1>17, RemoveFileEffect DEF ReturnFromReplace, RemoveFile
<1>18. CASE RestorePendingOriginal
  BY <1>18 DEF RestorePendingOriginal
<1>19. CASE ReturnFromRestore
  BY <1>19 DEF ReturnFromRestore
<1>20. CASE CommitSignature
  BY <1>20, RemoveFileEffect DEF CommitSignature, RemoveFile
<1>21. CASE Destroy
  BY <1>21 DEF Destroy
<1>22. CASE Crash
  BY <1>22 DEF Crash
<1>23. CASE NewObject
  BY <1>23 DEF NewObject
<1>24. CASE UNCHANGED vars
  BY <1>24 DEF vars
<1>25. QED
  BY <1>1, <1>2, <1>3, <1>4, <1>5, <1>6, <1>7, <1>8, <1>9, <1>10, <1>11, <1>12,
     <1>13, <1>14, <1>15, <1>16, <1>17, <1>18, <1>19, <1>20, <1>21, <1>22, <1>23,
     <1>24 DEF Next, Statement, Replace

LEMMA AlwaysUndoable ==
  ASSUME "restore" \notin TransientOpen
  PROVE  Spec => [](IInv /\ Undoable)
  BY IInvHolds, InitUndoable, NextUndoable, PTL DEF Spec

(* A false result without a failure of the rollback itself means that the  *)
(* executable is what the object answers for, in every directory.          *)
THEOREM FailureHasRestored ==
  ASSUME "restore" \notin TransientOpen
  PROVE  Spec => []FailureRestores
<1>1. Undoable => FailureRestores
  BY DEF Undoable
<1> QED
  BY AlwaysUndoable, <1>1, PTL

(* An operation leaves an executable that is missing or does not open only *)
(* when it returns false, and then the base is beside it.                  *)
THEOREM UnusableHasBackup ==
  ASSUME "restore" \notin TransientOpen
  PROVE  Spec => []UnusableOnlyWithBackup
<1>1. ASSUME IInv, Undoable, pc = "failed", ~Loads(disk[Path])
      PROVE  \E n \in Name \ {Path} : disk[n] = base
  BY <1>1 DEF IInv, TypeInv, NamesDistinct, BaseLocated, Committed, HeldOutside, Replacing, BackedUp
<1>2. IInv /\ Undoable => UnusableOnlyWithBackup
  BY <1>1 DEF Undoable, UnusableOnlyWithBackup
<1> QED
  BY AlwaysUndoable, <1>2, PTL

------------------------------------------------------------------------------
(* Reporting.                                                              *)

Wanted(c) ==
  /\ c \in Image
  /\ c.edits = reported \cup ({call} \cap Edit) /\ c.signed = (call = "sign")

(* The edits reported so far are in the mapped image, and the file that is *)
(* to be published has those and the one of the call.                      *)
Reporting ==
  /\ (pc \in {"idle", "capture", "copy", "edit"} /\ handle # Closed) => handle.edits = reported
  /\ ~restoring =>
       /\ pc \in Staged \ {"edit"} => Wanted(disk[temp])
       /\ pc \in {"verify", "dropbackup", "commit"} \/ (pc = "return" /\ replaced)
            => Wanted(disk[Path])
       /\ pc = "dropbackup" \/ (pc = "return" /\ replaced) => handle = disk[Path]
  /\ pc = "commit" => disk[Path].loads /\ ~restoring
  /\ ReportedEditsInstalled

LEMMA InitReporting == Init => Reporting
  BY DEF Init, Reporting, ReportedEditsInstalled, Staged, Original

LEMMA NextReporting ==
  ASSUME "restore" \notin TransientOpen
  PROVE  IInv /\ Reporting /\ [Next]_vars => Reporting'
<1> SUFFICES ASSUME IInv, Reporting, [Next]_vars PROVE Reporting'
  OBVIOUS
<1> USE Kinds DEF IInv, TypeInv, TypeOK, NamesDistinct, PathState, BaseLocated,
        Staged, BackedUp, Replacing, PathEmpty, Committed,
        locals, ghosts, Reporting, ReportedEditsInstalled, Wanted
<1>1. ASSUME NEW op \in Edit \cup {"sign"}, Begin(op) PROVE Reporting'
  BY <1>1 DEF Begin
<1>2. CASE Capture
  BY <1>2, NewNameIsFree DEF Capture, With
<1>3. CASE CopyToTemporary
  BY <1>3, NewNameIsFree DEF CopyToTemporary, With
<1>4. CASE EditCandidate
  <2>1. PICK l \in BOOLEAN : disk' = With(disk, temp, Edited(l))
    BY <1>4 DEF EditCandidate
  <2>2. disk'[temp] = Edited(l) /\ Edited(l) \in Image
    BY <1>4, <2>1 DEF EditCandidate, With, Edited, Image
  <2>3. Edited(l).edits = reported \cup ({call} \cap Edit) /\ Edited(l).signed = (call = "sign")
    BY <1>4 DEF EditCandidate, Edited
  <2> QED
    BY <1>4, <2>2, <2>3 DEF EditCandidate
<1>5. CASE EditFails
  BY <1>5 DEF EditFails
<1>6. CASE CloseForReplace
  BY <1>6 DEF CloseForReplace, ReturnFalse
<1>7. CASE CopyReplacementMetadata
  BY <1>7 DEF CopyReplacementMetadata, ReturnFalse
<1>8. CASE RenameToBackup
  BY <1>8, NewNameIsFree DEF RenameToBackup, ReturnFalse, Move
<1>9. CASE RenameToPath
  BY <1>9 DEF RenameToPath, Move
<1>10. CASE UndoBackup
  BY <1>10 DEF UndoBackup, ReturnFalse, Move
<1>11. CASE ParkReplacement
  BY <1>11 DEF ParkReplacement, ReturnFalse
<1>12. CASE OpenReplacement
  BY <1>12 DEF OpenReplacement
<1>13. CASE RemoveBackup
  BY <1>13, RemoveFileEffect DEF RemoveBackup
<1>14. CASE WithdrawReplacement
  BY <1>14 DEF WithdrawReplacement, ReturnFalse
<1>15. CASE ReinstateBackup
  BY <1>15 DEF ReinstateBackup, ReturnFalse
<1>16. CASE ReopenBackup
  BY <1>16 DEF ReopenBackup, ReturnFalse
<1>17. CASE ReturnFromReplace
  <2>1. disk'[Path] = disk[Path]
    BY <1>17, RemoveFileEffect DEF ReturnFromReplace
  <2>2. CASE replaced /\ call # "sign"
    <3>1. reported' = reported \cup ({call} \cap Edit) /\ Loads(disk[Path]) /\ Wanted(disk[Path])
      BY <1>17, <2>2 DEF ReturnFromReplace
    <3>2. disk[Path] = [edits |-> reported', signed |-> call = "sign", loads |-> TRUE]
      BY <3>1 DEF Loads, Image
    <3> QED
      BY <1>17, <2>1, <2>2, <3>1, <3>2 DEF ReturnFromReplace
  <2>3. CASE replaced /\ call = "sign"
    <3>1. reported' = reported /\ disk[Path].loads
      BY <1>17, <2>3 DEF ReturnFromReplace, Edit, Loads
    <3> QED
      BY <1>17, <2>1, <2>3, <3>1 DEF ReturnFromReplace
  <2>4. CASE ~replaced
    BY <1>17, <2>4 DEF ReturnFromReplace
  <2> QED
    BY <2>2, <2>3, <2>4
<1>18. CASE RestorePendingOriginal
  BY <1>18 DEF RestorePendingOriginal
<1>19. CASE ReturnFromRestore
  BY <1>19 DEF ReturnFromRestore
<1>20. CASE CommitSignature
  <2>1. disk'[Path] = disk[Path] /\ call = "sign"
    BY <1>20, RemoveFileEffect DEF CommitSignature
  <2>2. disk[Path] = [edits |-> reported, signed |-> call = "sign", loads |-> TRUE]
    BY <1>20, <2>1 DEF CommitSignature, Edit, Image
  <2> QED
    BY <1>20, <2>1, <2>2 DEF CommitSignature
<1>21. CASE Destroy
  BY <1>21 DEF Destroy
<1>22. CASE Crash
  BY <1>22 DEF Crash
<1>23. CASE NewObject
  BY <1>23 DEF NewObject
<1>24. CASE UNCHANGED vars
  BY <1>24 DEF vars
<1>25. QED
  BY <1>1, <1>2, <1>3, <1>4, <1>5, <1>6, <1>7, <1>8, <1>9, <1>10, <1>11, <1>12,
     <1>13, <1>14, <1>15, <1>16, <1>17, <1>18, <1>19, <1>20, <1>21, <1>22, <1>23,
     <1>24 DEF Next, Statement, Replace

(* After a true result the executable has exactly the edits whose calls    *)
(* returned true, and is signed when the last call was Sign.               *)
THEOREM ReportedIsInstalled ==
  ASSUME "restore" \notin TransientOpen
  PROVE  Spec => []ReportedEditsInstalled
<1>1. Reporting => ReportedEditsInstalled
  BY DEF Reporting
<1> QED
  BY IInvHolds, InitReporting, NextReporting, <1>1, PTL DEF Spec

------------------------------------------------------------------------------
(* Tidying up.                                                             *)

(* While nothing has failed, every file is one that a variable names, and  *)
(* a variable that is no longer used names none.                           *)
Tidy ==
  /\ "rollback" \in faults => "retained" \in faults
  /\ faults = {} =>
       /\ \A n \in Name \ {Path, pending, temp, backup} :
            disk[n] # NoFile => n = invalid /\ pc \in {"reinstate", "reopen"}
       /\ pc \notin BackedUp => backup = NoName
       /\ pc \notin Replacing \cup {"edit"} => temp = NoName
       /\ restoring =>
            /\ pc \notin {"undo", "park"}
            /\ pc \in {"verify", "dropbackup", "return"} => disk[temp] = NoFile /\ temp = pending
       /\ pc # "park"
  /\ NothingLeftBehind

LEMMA InitTidy == Init => Tidy
  BY Kinds DEF Init, Tidy, NothingLeftBehind

LEMMA NextTidy ==
  ASSUME "restore" \notin TransientOpen
  PROVE  IInv /\ Tidy /\ [Next]_vars => Tidy'
<1> SUFFICES ASSUME IInv, Tidy, [Next]_vars PROVE Tidy'
  OBVIOUS
<1> USE Kinds DEF IInv, TypeInv, TypeOK, NamesDistinct, PathState, BaseLocated,
        Staged, BackedUp, Replacing, PathEmpty, Committed,
        locals, ghosts, Tidy, NothingLeftBehind
<1>1. ASSUME NEW op \in Edit \cup {"sign"}, Begin(op) PROVE Tidy'
  BY <1>1 DEF Begin
<1>2. CASE Capture
  BY <1>2, NewNameIsFree DEF Capture, With
<1>3. CASE CopyToTemporary
  BY <1>3, NewNameIsFree DEF CopyToTemporary, With
<1>4. CASE EditCandidate
  BY <1>4 DEF EditCandidate, With
<1>5. CASE EditFails
  BY <1>5, NewNameIsFree DEF EditFails, With
<1>6. CASE CloseForReplace
  BY <1>6 DEF CloseForReplace, ReturnFalse, NoteIfRestoring, RollbackFault
<1>7. CASE CopyReplacementMetadata
  BY <1>7 DEF CopyReplacementMetadata, ReturnFalse, NoteIfRestoring, RollbackFault
<1>8. CASE RenameToBackup
  BY <1>8, NewNameIsFree DEF RenameToBackup, ReturnFalse, Move, NoteIfRestoring, RollbackFault
<1>9. CASE RenameToPath
  BY <1>9 DEF RenameToPath, Move, NoteIfRestoring, RollbackFault
<1>10. CASE UndoBackup
  BY <1>10 DEF UndoBackup, ReturnFalse, Move, RollbackFault
<1>11. CASE ParkReplacement
  BY <1>11, NewNameIsFree DEF ParkReplacement, ReturnFalse, Move
<1>12. CASE OpenReplacement
  BY <1>12 DEF OpenReplacement, OpenMayFail, OpenSite, NoteIfRestoring, RollbackFault
<1>13. CASE RemoveBackup
  BY <1>13, RemoveFileEffect DEF RemoveBackup, RemoveFile, With
<1>14. CASE WithdrawReplacement
  BY <1>14, NewNameIsFree DEF WithdrawReplacement, ReturnFalse, Move, RollbackFault
<1>15. CASE ReinstateBackup
  BY <1>15 DEF ReinstateBackup, ReturnFalse, Move, RollbackFault
<1>16. CASE ReopenBackup
  BY <1>16, RemoveFileEffect DEF ReopenBackup, ReturnFalse, RemoveFile, With
<1>17. CASE ReturnFromReplace
  BY <1>17, RemoveFileEffect DEF ReturnFromReplace, RemoveFile, With
<1>18. CASE RestorePendingOriginal
  BY <1>18 DEF RestorePendingOriginal
<1>19. CASE ReturnFromRestore
  BY <1>19 DEF ReturnFromRestore
<1>20. CASE CommitSignature
  BY <1>20, RemoveFileEffect DEF CommitSignature, RemoveFile, With
<1>21. CASE Destroy
  BY <1>21, RemoveFileEffect DEF Destroy, RemoveFile, With
<1>22. CASE Crash
  BY <1>22 DEF Crash
<1>23. CASE NewObject
  BY <1>23 DEF NewObject
<1>24. CASE UNCHANGED vars
  BY <1>24 DEF vars
<1>25. QED
  BY <1>1, <1>2, <1>3, <1>4, <1>5, <1>6, <1>7, <1>8, <1>9, <1>10, <1>11, <1>12,
     <1>13, <1>14, <1>15, <1>16, <1>17, <1>18, <1>19, <1>20, <1>21, <1>22, <1>23,
     <1>24 DEF Next, Statement, Replace

(* Unless removing a file or rolling back failed, or the process died, an  *)
(* operation leaves no file behind but the copy it may have to restore.    *)
THEOREM NothingIsLeftBehind ==
  ASSUME "restore" \notin TransientOpen
  PROVE  Spec => []NothingLeftBehind
<1>1. Tidy => NothingLeftBehind
  BY DEF Tidy
<1> QED
  BY IInvHolds, InitTidy, NextTidy, <1>1, PTL DEF Spec

------------------------------------------------------------------------------
(* The implementation of AtomicPublish.                                    *)

(* No partial file is ever given the executable's name.                    *)
Complete ==
  /\ disk[Path] # Partial
  /\ (pc \in Staged \ {"edit"}) => disk[temp] # Partial
  /\ pc \in BackedUp => disk[backup] # Partial

LEMMA InitComplete == Init => Complete
<1>1. Original \in Image
  BY DEF Original, Image
<1> QED
  BY <1>1, Kinds DEF Init, Complete, Staged, BackedUp

LEMMA NextComplete == IInv /\ Complete /\ [Next]_vars => Complete'
<1> SUFFICES ASSUME IInv, Complete, [Next]_vars PROVE Complete'
  OBVIOUS
<1>0. NoFile # Partial
  BY ContentAssumption
<1> USE Kinds, <1>0 DEF IInv, TypeInv, TypeOK, NamesDistinct, PathState, BaseLocated,
        Staged, BackedUp, Replacing, PathEmpty, Committed, locals, ghosts, Complete
<1>1. ASSUME NEW op \in Edit \cup {"sign"}, Begin(op) PROVE Complete'
  BY <1>1 DEF Begin
<1>2. CASE Capture
  BY <1>2, NewNameIsFree DEF Capture, With
<1>3. CASE CopyToTemporary
  BY <1>3, NewNameIsFree DEF CopyToTemporary, With
<1>4. CASE EditCandidate
  <2>1. PICK l \in BOOLEAN : disk' = With(disk, temp, Edited(l))
    BY <1>4 DEF EditCandidate
  <2>2. disk'[temp] = Edited(l) /\ disk'[Path] = disk[Path]
    BY <1>4, <2>1 DEF EditCandidate, With
  <2>3. Edited(l) \in Image
    BY <1>4 DEF EditCandidate, Edited, Image
  <2> QED
    BY <1>4, <2>2, <2>3 DEF EditCandidate
<1>5. CASE EditFails
  BY <1>5, NewNameIsFree DEF EditFails, With
<1>6. CASE CloseForReplace
  BY <1>6 DEF CloseForReplace, ReturnFalse
<1>7. CASE CopyReplacementMetadata
  BY <1>7 DEF CopyReplacementMetadata, ReturnFalse
<1>8. CASE RenameToBackup
  BY <1>8, NewNameIsFree DEF RenameToBackup, ReturnFalse, Move
<1>9. CASE RenameToPath
  BY <1>9 DEF RenameToPath, Move
<1>10. CASE UndoBackup
  BY <1>10 DEF UndoBackup, ReturnFalse, Move
<1>11. CASE ParkReplacement
  BY <1>11, NewNameIsFree DEF ParkReplacement, ReturnFalse, Move
<1>12. CASE OpenReplacement
  BY <1>12 DEF OpenReplacement
<1>13. CASE RemoveBackup
  BY <1>13, RemoveFileEffect DEF RemoveBackup
<1>14. CASE WithdrawReplacement
  BY <1>14, NewNameIsFree DEF WithdrawReplacement, ReturnFalse, Move
<1>15. CASE ReinstateBackup
  BY <1>15 DEF ReinstateBackup, ReturnFalse, Move
<1>16. CASE ReopenBackup
  BY <1>16, RemoveFileEffect DEF ReopenBackup, ReturnFalse
<1>17. CASE ReturnFromReplace
  BY <1>17, RemoveFileEffect DEF ReturnFromReplace
<1>18. CASE RestorePendingOriginal
  BY <1>18 DEF RestorePendingOriginal
<1>19. CASE ReturnFromRestore
  BY <1>19 DEF ReturnFromRestore
<1>20. CASE CommitSignature
  BY <1>20, RemoveFileEffect DEF CommitSignature
<1>21. CASE Destroy
  BY <1>21, RemoveFileEffect DEF Destroy
<1>22. CASE Crash
  BY <1>22, NewNameIsFree DEF Crash, With
<1>23. CASE NewObject
  BY <1>23 DEF NewObject
<1>24. CASE UNCHANGED vars
  BY <1>24 DEF vars
<1>25. QED
  BY <1>1, <1>2, <1>3, <1>4, <1>5, <1>6, <1>7, <1>8, <1>9, <1>10, <1>11, <1>12,
     <1>13, <1>14, <1>15, <1>16, <1>17, <1>18, <1>19, <1>20, <1>21, <1>22, <1>23,
     <1>24 DEF Next, Statement, Replace

(* A step that does not change the base changes the executable's name to   *)
(* nothing or from nothing, and any other step commits what is shown.      *)
Quiet ==
  /\ base' = base
  /\ disk'[Path] = disk[Path] \/ disk[Path] = NoFile \/ disk'[Path] = NoFile
Commits == base' = disk[Path] /\ disk'[Path] = disk[Path] /\ Loads(disk[Path])

LEMMA StepsAreQuietOrCommit == IInv /\ [Next]_vars => Quiet \/ Commits
<1> SUFFICES ASSUME IInv, [Next]_vars PROVE Quiet \/ Commits
  OBVIOUS
<1> USE Kinds DEF IInv, TypeInv, TypeOK, NamesDistinct, PathState,
        Staged, BackedUp, Replacing, PathEmpty, locals, ghosts, Quiet, Commits
<1>1. ASSUME NEW op \in Edit \cup {"sign"}, Begin(op) PROVE Quiet
  BY <1>1 DEF Begin
<1>2. CASE Capture
  BY <1>2, NewNameIsFree DEF Capture, With
<1>3. CASE CopyToTemporary
  BY <1>3, NewNameIsFree DEF CopyToTemporary, With
<1>4. CASE EditCandidate
  BY <1>4 DEF EditCandidate, With
<1>5. CASE EditFails
  BY <1>5, NewNameIsFree DEF EditFails, With
<1>6. CASE CloseForReplace
  BY <1>6 DEF CloseForReplace
<1>7. CASE CopyReplacementMetadata
  BY <1>7 DEF CopyReplacementMetadata
<1>8. CASE RenameToBackup
  BY <1>8, NewNameIsFree DEF RenameToBackup, Move
<1>9. CASE RenameToPath
  BY <1>9 DEF RenameToPath, Move
<1>10. CASE UndoBackup
  BY <1>10 DEF UndoBackup, Move
<1>11. CASE ParkReplacement
  BY <1>11, NewNameIsFree DEF ParkReplacement, Move
<1>12. CASE OpenReplacement
  BY <1>12 DEF OpenReplacement
<1>13. CASE RemoveBackup
  BY <1>13, RemoveFileEffect DEF RemoveBackup
<1>14. CASE WithdrawReplacement
  BY <1>14, NewNameIsFree DEF WithdrawReplacement, Move
<1>15. CASE ReinstateBackup
  BY <1>15 DEF ReinstateBackup, Move
<1>16. CASE ReopenBackup
  BY <1>16, RemoveFileEffect DEF ReopenBackup
<1>17. CASE ReturnFromReplace
  BY <1>17, RemoveFileEffect DEF ReturnFromReplace
<1>18. CASE RestorePendingOriginal
  BY <1>18 DEF RestorePendingOriginal
<1>19. CASE ReturnFromRestore
  BY <1>19 DEF ReturnFromRestore
<1>20. CASE CommitSignature
  BY <1>20, RemoveFileEffect DEF CommitSignature
<1>21. CASE Destroy
  BY <1>21, RemoveFileEffect DEF Destroy
<1>22. CASE Crash
  BY <1>22, NewNameIsFree DEF Crash, With
<1>23. CASE NewObject
  BY <1>23 DEF NewObject
<1>24. CASE UNCHANGED vars
  BY <1>24 DEF vars
<1>25. QED
  BY <1>1, <1>2, <1>3, <1>4, <1>5, <1>6, <1>7, <1>8, <1>9, <1>10, <1>11, <1>12,
     <1>13, <1>14, <1>15, <1>16, <1>17, <1>18, <1>19, <1>20, <1>21, <1>22, <1>23,
     <1>24 DEF Next, Statement, Replace

(* What AtomicPublish calls held, in this directory.                       *)
Held == \E n \in Name \ {Path} : disk[n] = base

(* What is shown is complete, and the base is held unless it is shown.     *)
HeldOrShown ==
  /\ disk[Path] \in Publication!Shown
  /\ disk[Path] = NoFile => Held
  /\ ~Held => disk[Path] = base

LEMMA PublicationState == IInv /\ Complete => HeldOrShown
  BY LocatedIsRecoverable, Kinds
     DEF IInv, TypeInv, TypeOK, BaseLocated, Complete, BaseRecoverable, Retained, Held,
         Publication!Shown, HeldOrShown

LEMMA NextPublication ==
  ASSUME HeldOrShown, HeldOrShown', Quiet \/ Commits
  PROVE  [Publication!Next]_(Publication!vars)
<1> DEFINE shown == disk[Path]
<1>1. /\ shown \in Publication!Shown /\ shown' \in Publication!Shown
      /\ shown = NoFile => Held
      /\ shown' = NoFile => Held'
      /\ ~Held => shown = base
      /\ ~Held' => shown' = base'
  BY DEF HeldOrShown, Publication!Shown
<1>2. Held \in BOOLEAN /\ Held' \in BOOLEAN
  BY DEF Held
<1>3. CASE Commits
  <2>1. Publication!Commit
    BY <1>3 DEF Commits, Publication!Commit, Loads
  <2> QED
    BY <2>1 DEF Publication!Next
<1>4. CASE Quiet /\ shown' = shown
  <2>1. CASE Held /\ ~Held'
    BY <1>1, <1>4, <2>1 DEF Quiet, Held, Publication!Next, Publication!Release
  <2>2. CASE ~Held /\ Held'
    BY <1>1, <1>4, <2>2 DEF Quiet, Held, Publication!Next, Publication!Hold
  <2>3. CASE Held = Held'
    BY <1>4, <2>3 DEF Quiet, Held, Publication!vars
  <2> QED
    BY <1>2, <2>1, <2>2, <2>3
<1>5. CASE Quiet /\ shown' # shown /\ Held
  <2>1. CASE Held'
    BY <1>1, <1>5, <2>1 DEF Quiet, Held, Publication!Next, Publication!Show
  <2>2. CASE ~Held'
    BY <1>1, <1>5, <2>2 DEF Quiet, Held, Publication!Next, Publication!Restore
  <2> QED
    BY <2>1, <2>2
<1>6. CASE Quiet /\ shown' # shown /\ ~Held
  BY <1>1, <1>6 DEF Quiet, Held, Publication!Next, Publication!SetAside
<1> QED
  BY <1>3, <1>4, <1>5, <1>6

LEMMA InitPublication == Init => Publication!Init
  BY Kinds DEF Init, Publication!Init, Original, Image

(* MachOFile implements AtomicPublish: between any two system calls the    *)
(* executable is what the object answers for, or that is beside it, and    *)
(* only what is shown and loads becomes what it answers for.               *)
THEOREM ExecutablePublishedAtomically ==
  ASSUME "restore" \notin TransientOpen
  PROVE  Spec => PublishesAtomically
<1>1. IInv /\ Complete /\ [Next]_vars => (IInv /\ Complete)'
  BY IInvHolds, NextComplete
<1>2. HeldOrShown /\ HeldOrShown' /\ IInv /\ [Next]_vars => [Publication!Next]_(Publication!vars)
  BY StepsAreQuietOrCommit, NextPublication
<1> QED
  BY IInvHolds, InitComplete, InitPublication, PublicationState, <1>1, <1>2, PTL
     DEF Spec, PublishesAtomically, Publication!Spec
==============================================================================
