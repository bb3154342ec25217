------------------------------ MODULE ZipArchive ------------------------------
(***************************************************************************)
(* common/zip_archive.cpp: ZipArchive::Archive and ZipArchive::Extract     *)
(* build their result in a private staging directory beside the            *)
(* destination and publish it with renames, moving what was there into a   *)
(* backup container first.  How Extract fills the staging directory is     *)
(* ZipEntries; here filling either completes or fails.                     *)
(***************************************************************************)
EXTENDS Naturals, FiniteSets

CONSTANTS
  Name,      \* entries of the destination's parent directory
  Dest,      \* destinationPath / outputPath
  NoName,    \* no path has been chosen
  Content,   \* complete archives and complete extracted trees
  NoEntry,   \* nothing under that name
  Partial,   \* an incomplete archive or tree
  Empty,     \* an empty directory
  Attempts   \* bound: how often a backup container is tried (32 in the code)

ASSUME ZipNameAssumption == Dest \in Name /\ NoName \notin Name
ASSUME ZipContentAssumption ==
  /\ {NoEntry, Partial, Empty} \cap Content = {}
  /\ Partial # NoEntry /\ Empty # NoEntry
ASSUME AttemptsAssumption == Attempts \in Nat \ {0}

VARIABLES
  files,     \* what is under each name
  pc,        \* the next statement
  op,        \* "archive" or "extract"
  staging,   \* archiveStagingDirectory / stagingPath
  backup,    \* backupContainer, which holds "original" once it is renamed in
  attempts,  \* attempts made to set the destination aside
  base,      \* history: the last published destination
  previous,  \* history: the destination when the call began
  built,     \* history: what the call has built
  faults     \* history: the kinds of failures met so far

history == <<base, previous, built>>
vars == <<files, pc, op, staging, backup, attempts, history, faults>>

Put(n, c) == [files EXCEPT ![n] = c]

(* fs::rename; the name that was renamed keeps `rest`: nothing, or the     *)
(* directory that contained what was renamed.                              *)
Rename(from, to, rest) == [files EXCEPT ![to] = files[from], ![from] = rest]

Free == {n \in Name \ {Dest} : files[n] = NoEntry}
NewEntry == CHOOSE n \in Free : TRUE

(* FileSystem::RemoveFolder may stop half way; no caller depends on it.    *)
RemoveFolder(n) ==
  \/ /\ files' = Put(n, NoEntry)
     /\ UNCHANGED faults
  \/ /\ files[n] # NoEntry
     /\ files' = Put(n, Partial)
     /\ faults' = faults \cup {"remove"}

Init ==
  /\ files \in [Name -> Content \cup {NoEntry}]
  /\ \A n \in Name \ {Dest} : files[n] = NoEntry
  /\ pc = "done" /\ op = "extract"
  /\ staging = NoName /\ backup = NoName /\ attempts = 0
  /\ base = files[Dest] /\ previous = files[Dest] /\ built = files[Dest]
  /\ faults = {}

(* A call whose arguments pass the checks: the source exists and, for      *)
(* Archive, the destination is outside it, for Extract the archive is      *)
(* outside the output.                                                     *)
Begin(o) ==
  /\ pc \in {"done", "failed", "crashed"}
  /\ op' = o
  /\ staging' = NoName /\ backup' = NoName /\ attempts' = 0
  /\ previous' = files[Dest]
  /\ built' = NoEntry
  /\ pc' = "stage"
  /\ UNCHANGED <<files, base, faults>>

CreateStaging ==
  /\ pc = "stage"
  /\ \/ /\ Free # {}
        /\ files' = Put(NewEntry, Partial)
        /\ staging' = NewEntry
        /\ pc' = "fill"
     \/ /\ pc' = "failed"
        /\ UNCHANGED <<files, staging>>
  /\ UNCHANGED <<op, backup, attempts, history, faults>>

(* Mutant of Fill: a failure to add or to extract an entry is ignored.     *)
FillAnyhow ==
  /\ pc = "fill"
  /\ built' \in Content
  /\ files' \in {Put(staging, built'), Put(staging, Partial)}
  /\ pc' = "probe"
  /\ UNCHANGED <<op, staging, backup, attempts, base, previous, faults>>

(* zipClose succeeded and every entry was added, or ExtractEntries         *)
(* succeeded; otherwise the staging directory goes.                        *)
Fill ==
  /\ pc = "fill"
  /\ \/ /\ built' \in Content
        /\ files' = Put(staging, built')
        /\ pc' = "probe"
     \/ /\ pc' = "discard"
        /\ UNCHANGED <<files, built>>
  /\ UNCHANGED <<op, staging, backup, attempts, base, previous, faults>>

(* PathExistsNoFollow of the destination, which may fail itself.           *)
Probe ==
  /\ pc = "probe"
  /\ \/ pc' = IF files[Dest] = NoEntry THEN "publish" ELSE "container"
     \/ pc' = "discard"
  /\ UNCHANGED <<files, op, staging, backup, attempts, history, faults>>

(* Mutant of CreateContainer: attempts are not counted.                    *)
CreateContainerForever ==
  /\ pc = "container"
  /\ \/ /\ Free # {}
        /\ files' = Put(NewEntry, Empty)
        /\ backup' = NewEntry
        /\ pc' = "aside"
     \/ UNCHANGED <<files, backup, pc>>
  /\ attempts' = 1 - attempts
  /\ UNCHANGED <<op, staging, history, faults>>

(* Mutant of CreateContainer: one attempt too many.                        *)
CreateContainerOnceMore ==
  /\ pc = "container"
  /\ \/ /\ attempts <= Attempts /\ Free # {}
        /\ files' = Put(NewEntry, Empty)
        /\ backup' = NewEntry
        /\ pc' = "aside"
        /\ UNCHANGED attempts
     \/ /\ attempts <= Attempts
        /\ attempts' = attempts + 1
        /\ UNCHANGED <<files, backup, pc>>
     \/ /\ attempts > Attempts
        /\ pc' = "discard"
        /\ UNCHANGED <<files, backup, attempts>>
  /\ UNCHANGED <<op, staging, history, faults>>

CreateContainer ==
  /\ pc = "container"
  /\ \/ /\ attempts < Attempts /\ Free # {}
        /\ files' = Put(NewEntry, Empty)
        /\ backup' = NewEntry
        /\ pc' = "aside"
        /\ UNCHANGED attempts
     \/ /\ attempts < Attempts
        /\ attempts' = attempts + 1
        /\ UNCHANGED <<files, backup, pc>>
     \/ /\ attempts = Attempts
        /\ pc' = "discard"
        /\ UNCHANGED <<files, backup, attempts>>
  /\ UNCHANGED <<op, staging, history, faults>>

(* The destination is renamed into the container.                          *)
SetAside ==
  /\ pc = "aside"
  /\ \/ /\ files' = Rename(Dest, backup, NoEntry)
        /\ pc' = "publish"
        /\ UNCHANGED <<backup, attempts, faults>>
     \/ /\ RemoveFolder(backup)
        /\ backup' = NoName
        /\ attempts' = attempts + 1
        /\ pc' = "container"
  /\ UNCHANGED <<op, staging, history>>

(* Mutant of Publish: a failing rename does not put the backup back.       *)
PublishOrGiveUp ==
  /\ pc = "publish"
  /\ \/ /\ files' = Rename(staging, Dest, IF op = "archive" THEN Empty ELSE NoEntry)
        /\ pc' = "commit"
     \/ /\ pc' = "discard"
        /\ UNCHANGED files
  /\ UNCHANGED <<op, staging, backup, attempts, history, faults>>

(* Archive renames archive.zip out of its staging directory, Extract the   *)
(* staging directory itself.                                               *)
Publish ==
  /\ pc = "publish"
  /\ \/ /\ files' = Rename(staging, Dest, IF op = "archive" THEN Empty ELSE NoEntry)
        /\ pc' = "commit"
     \/ /\ pc' = IF backup = NoName THEN "discard" ELSE "restore"
        /\ UNCHANGED files
  /\ UNCHANGED <<op, staging, backup, attempts, history, faults>>

(* The previous destination is renamed back; if that fails it stays in the *)
(* container.                                                              *)
Restore ==
  /\ pc = "restore"
  /\ \/ /\ files' = Rename(backup, Dest, Empty)
        /\ pc' = "dropcontainer"
        /\ UNCHANGED faults
     \/ /\ faults' = faults \cup {"restore"}
        /\ pc' = "discard"
        /\ UNCHANGED files
  /\ UNCHANGED <<op, staging, backup, attempts, history>>

DropContainer ==
  /\ pc = "dropcontainer"
  /\ RemoveFolder(backup)
  /\ backup' = NoName
  /\ pc' = "discard"
  /\ UNCHANGED <<op, staging, attempts, history>>

(* Every failure after the staging directory exists removes it.            *)
Discard ==
  /\ pc = "discard"
  /\ RemoveFolder(staging)
  /\ staging' = NoName
  /\ pc' = "failed"
  /\ UNCHANGED <<op, backup, attempts, history>>

(* Mutant of Commit: Archive leaves its staging directory behind.          *)
CommitKeepingStaging ==
  /\ pc = "commit"
  /\ base' = files[Dest]
  /\ pc' = IF backup = NoName THEN "done" ELSE "dropbackup"
  /\ UNCHANGED <<files, op, staging, backup, attempts, previous, built, faults>>

(* The destination is what the caller asked for; Archive's staging         *)
(* directory is empty now and removed.                                     *)
Commit ==
  /\ pc = "commit"
  /\ base' = files[Dest]
  /\ IF op = "archive" THEN RemoveFolder(staging) ELSE UNCHANGED <<files, faults>>
  /\ pc' = IF backup = NoName THEN "done" ELSE "dropbackup"
  /\ UNCHANGED <<op, staging, backup, attempts, previous, built>>

(* A backup that cannot be removed is only warned about.                   *)
DropBackup ==
  /\ pc = "dropbackup"
  /\ RemoveFolder(backup)
  /\ pc' = "done"
  /\ UNCHANGED <<op, staging, backup, attempts, history>>

(* The process dies between two statements, or while it fills the staging  *)
(* directory, which is incomplete then anyway.                             *)
Crash ==
  /\ pc \notin {"done", "failed", "crashed"}
  /\ pc' = "crashed"
  /\ faults' = faults \cup {"crash"}
  /\ UNCHANGED <<files, op, staging, backup, attempts, history>>

Statement ==
  \/ CreateStaging \/ Fill \/ Probe \/ CreateContainer \/ SetAside
  \/ Publish \/ Restore \/ DropContainer \/ Discard
  \/ Commit \/ DropBackup

Next == (\E o \in {"archive", "extract"} : Begin(o)) \/ Statement \/ Crash

(* A sequential program that is not stopped executes its next statement.   *)
Spec == Init /\ [][Next]_vars /\ WF_vars(Statement)

------------------------------------------------------------------------------
(* Properties.                                                             *)

ZipTypeOK ==
  /\ files \in [Name -> Content \cup {NoEntry, Partial, Empty}]
  /\ pc \in {"stage", "fill", "probe", "container", "aside", "publish", "restore",
             "dropcontainer", "discard", "commit", "dropbackup", "done", "failed",
             "crashed"}
  /\ op \in {"archive", "extract"}
  /\ {staging, backup} \subseteq Name \cup {NoName}
  /\ attempts \in 0 .. Attempts
  /\ {base, previous, built} \subseteq Content \cup {NoEntry}
  /\ faults \subseteq {"remove", "restore", "crash"}

(* A call that returned false left the destination as it found it, unless  *)
(* renaming the backup back failed too.                                    *)
FailureKeepsPrevious ==
  (pc = "failed" /\ "restore" \notin faults) => files[Dest] = previous

(* A call that returned true published exactly what it built.              *)
SuccessPublishes == pc = "done" => files[Dest] = built

(* Unless a removal or a restoration failed or a process died, no staging  *)
(* directory and no backup stays beside the destination.                   *)
NothingLeftBeside ==
  (pc \in {"done", "failed"} /\ faults = {})
    => \A n \in Name \ {Dest} : files[n] = NoEntry

(* The destination and what was published last: both calls implement the   *)
(* promise of AtomicPublish, so that a crash between the two renames or a  *)
(* restoration that fails leaves the previous destination in the backup.   *)
Publication == INSTANCE AtomicPublish WITH
  Image    <- Content,
  Accepted <- Content,
  Nothing  <- NoEntry,
  shown    <- files[Dest],
  held     <- base = NoEntry \/ \E n \in Name \ {Dest} : files[n] = base

PublishesAtomically == Publication!Spec

(* Every call comes to an end: it returns or the process dies.             *)
CallsEnd == (pc = "stage") ~> (pc \in {"done", "failed", "crashed"})
==============================================================================
