------------------------------ MODULE ZipProofs ------------------------------
(***************************************************************************)
(* Proofs about ZipArchive and ZipExtraction, for every directory,         *)
(* content, archive, volume, limit, and number of calls, failures and      *)
(* crashes: a call that fails has kept the previous destination and one    *)
(* that succeeds has published what it built; nothing stays beside it; it  *)
(* implements AtomicPublish; what Extract has accepted is on disk as it    *)
(* was listed, within the limits, and would have been in any other order;  *)
(* and what Archive writes for a folder, Extract makes that folder again.  *)
(***************************************************************************)
EXTENDS ZipExtraction, Recursion, SequenceTheorems, TLAPS

------------------------------------------------------------------------------
(* The inductive invariant.                                                *)

Staged   == {"fill", "probe", "container", "aside", "publish", "restore",
             "dropcontainer", "discard"}
Built    == {"probe", "container", "aside", "publish", "restore", "dropcontainer"}
BackedUp == {"aside", "restore", "dropcontainer", "dropbackup"}
Untried  == {"stage", "fill", "probe", "container"}

(* The names a call uses, and what is under them.                          *)
NamesInUse ==
  /\ pc \in Staged \/ (pc = "commit" /\ op = "archive") => staging \in Name
  /\ staging # Dest
  /\ backup # Dest /\ (backup # NoName => backup # staging)
  /\ pc \in BackedUp => backup \in Name
  /\ pc \in Untried => backup = NoName
  /\ pc = "aside" => attempts < Attempts
  /\ pc = "fill" => files[staging] = Partial
  /\ pc \in Built => built \in Content /\ files[staging] = built
  /\ pc = "aside" => files[backup] = Empty

(* Where the previous destination is, and when the new one is published.   *)
DestinationState ==
  /\ files[Dest] \in Content \cup {NoEntry}
  /\ pc \in Untried \cup {"aside", "dropcontainer"} => files[Dest] = previous
  /\ pc \in {"publish", "restore"} => files[Dest] = NoEntry
  /\ pc \in {"publish", "restore"} =>
       IF backup = NoName THEN files[Dest] = previous ELSE files[backup] = previous
  /\ pc \in {"discard", "failed"} => files[Dest] = previous \/ "restore" \in faults
  /\ pc \in {"commit", "dropbackup", "done"} => files[Dest] = built
  /\ pc = "commit" => built \in Content
  /\ pc = "dropbackup" => base = built

TypeInv == ZipTypeOK /\ NamesInUse /\ DestinationState

(* The names whose content the coming statements may remove.               *)
Doomed == IF pc = "dropcontainer" THEN {Dest, staging, backup} ELSE {Dest, staging}

(* The last published destination can be found.                            *)
BaseHeld ==
  \/ base = NoEntry
  \/ files[Dest] = base
  \/ \E n \in Name \ Doomed : files[n] = base

IInv == TypeInv /\ BaseHeld

------------------------------------------------------------------------------
(* Facts about names and files.                                            *)

(* A new entry's name is free, and in no use.                              *)
LEMMA NewEntryIsFree ==
  ASSUME Free # {}
  PROVE  NewEntry \in Name /\ NewEntry # Dest /\ files[NewEntry] = NoEntry
  BY DEF NewEntry, Free

(* Names and markers are different from what they are to be told from.     *)
LEMMA Kinds ==
  /\ Dest \in Name /\ NoName \notin Name
  /\ NoEntry \notin Content /\ Partial \notin Content /\ Empty \notin Content
  /\ Partial # NoEntry /\ Empty # NoEntry
  BY ZipNameAssumption, ZipContentAssumption

(* Removing a folder changes nothing else and keeps the types.             *)
LEMMA RemoveFolderEffect ==
  ASSUME files \in [Name -> Content \cup {NoEntry, Partial, Empty}],
         faults \subseteq {"remove", "restore", "crash"},
         NEW n, RemoveFolder(n)
  PROVE  /\ files' \in [Name -> Content \cup {NoEntry, Partial, Empty}]
         /\ faults' \subseteq {"remove", "restore", "crash"}
         /\ faults \subseteq faults'
         /\ \A m \in Name : m # n => files'[m] = files[m]
  BY DEF RemoveFolder, Put

------------------------------------------------------------------------------
(* Type correctness, and where the destination is.                         *)

LEMMA InitTypeInv == Init => TypeInv
  BY Kinds, AttemptsAssumption DEF Init, TypeInv, ZipTypeOK, NamesInUse, DestinationState, Staged,
     Built, BackedUp, Untried

LEMMA NextTypeInv == TypeInv /\ [Next]_vars => TypeInv'
<1> SUFFICES ASSUME TypeInv, [Next]_vars PROVE TypeInv'
  OBVIOUS
<1> USE Kinds, AttemptsAssumption DEF TypeInv, ZipTypeOK, NamesInUse, DestinationState,
        Staged, Built, BackedUp, Untried, history
<1>1. ASSUME NEW o \in {"archive", "extract"}, Begin(o) PROVE TypeInv'
  BY <1>1 DEF Begin
<1>2. CASE CreateStaging
  BY <1>2, NewEntryIsFree DEF CreateStaging, Put
<1>3. CASE Fill
  BY <1>3 DEF Fill, Put
<1>4. CASE Probe
  BY <1>4 DEF Probe
<1>5. CASE CreateContainer
  BY <1>5, NewEntryIsFree DEF CreateContainer, Put
<1>6. CASE SetAside
  <2>1. CASE pc' = "publish"
    BY <1>6, <2>1 DEF SetAside, Rename
  <2>2. CASE pc' = "container"
    <3>1. RemoveFolder(backup) /\ backup' = NoName /\ attempts' = attempts + 1
      BY <1>6, <2>2 DEF SetAside
    <3>2. attempts' \in 0 .. Attempts
      BY <1>6, <3>1 DEF SetAside
    <3> QED
      BY <1>6, <2>2, <3>1, <3>2, RemoveFolderEffect DEF SetAside
  <2> QED
    BY <1>6, <2>1, <2>2 DEF SetAside
<1>7. CASE Publish
  BY <1>7 DEF Publish, Rename
<1>8. CASE Restore
  BY <1>8 DEF Restore, Rename
<1>9. CASE DropContainer
  BY <1>9, RemoveFolderEffect DEF DropContainer
<1>10. CASE Discard
  BY <1>10, RemoveFolderEffect DEF Discard
<1>11. CASE Commit
  BY <1>11, RemoveFolderEffect DEF Commit
<1>12. CASE DropBackup
  BY <1>12, RemoveFolderEffect DEF DropBackup
<1>13. CASE Crash
  BY <1>13 DEF Crash
<1>14. CASE UNCHANGED vars
  BY <1>14 DEF vars
<1>15. QED
  BY <1>1, <1>2, <1>3, <1>4, <1>5, <1>6, <1>7, <1>8, <1>9, <1>10, <1>11, <1>12,
     <1>13, <1>14 DEF Next, Statement

LEMMA Typed == Spec => []TypeInv
  BY InitTypeInv, NextTypeInv, PTL DEF Spec

(* The variables keep their types, and the containers are bounded.         *)
THEOREM ZipTypeCorrect == Spec => []ZipTypeOK
<1>1. TypeInv => ZipTypeOK
  BY DEF TypeInv
<1> QED
  BY Typed, <1>1, PTL

(* A call that returned false left the destination as it found it, unless  *)
(* renaming the backup back failed too.                                    *)
THEOREM FailureHasKeptPrevious == Spec => []FailureKeepsPrevious
<1>1. TypeInv => FailureKeepsPrevious
  BY DEF TypeInv, DestinationState, FailureKeepsPrevious
<1> QED
  BY Typed, <1>1, PTL

(* A call that returned true published exactly what it built.              *)
THEOREM SuccessHasPublished == Spec => []SuccessPublishes
<1>1. TypeInv => SuccessPublishes
  BY DEF TypeInv, DestinationState, SuccessPublishes
<1> QED
  BY Typed, <1>1, PTL

------------------------------------------------------------------------------
(* What a call leaves beside the destination.                              *)

(* Unless something went wrong with a removal, a restoration or the        *)
(* process, what is there is the staging directory or the backup of the    *)
(* call that is going on.                                                  *)
OnlyInUse ==
  faults = {} => \A n \in Name \ {Dest} : files[n] # NoEntry =>
    \/ n = staging /\ (pc \in Staged \/ (pc = "commit" /\ op = "archive"))
    \/ n = backup /\ pc \in BackedUp \cup {"publish", "commit"}

(* Without a new fault, a removal removes.                                 *)
LEMMA RemoveFolderCleans ==
  ASSUME files \in [Name -> Content \cup {NoEntry, Partial, Empty}],
         NEW n, RemoveFolder(n), faults' = {}
  PROVE  /\ faults = {}
         /\ \A m \in Name : files'[m] # NoEntry => m # n /\ files[m] # NoEntry
  BY DEF RemoveFolder, Put

LEMMA NextOnlyInUse == TypeInv /\ OnlyInUse /\ [Next]_vars => OnlyInUse'
<1> SUFFICES ASSUME TypeInv, OnlyInUse, [Next]_vars, faults' = {},
                    NEW n \in Name \ {Dest}, files'[n] # NoEntry
             PROVE  \/ n = staging' /\ (pc' \in Staged \/ (pc' = "commit" /\ op' = "archive"))
                    \/ n = backup' /\ pc' \in BackedUp \cup {"publish", "commit"}
  BY DEF OnlyInUse
<1> USE Kinds DEF TypeInv, ZipTypeOK, NamesInUse, OnlyInUse, Staged, Built, BackedUp, Untried,
        history
<1>1. ASSUME NEW o \in {"archive", "extract"}, Begin(o) PROVE FALSE
  BY <1>1 DEF Begin
<1>2. CASE CreateStaging
  BY <1>2 DEF CreateStaging, Put
<1>3. CASE Fill
  BY <1>3 DEF Fill, Put
<1>4. CASE Probe
  BY <1>4 DEF Probe
<1>5. CASE CreateContainer
  BY <1>5 DEF CreateContainer, Put
<1>6. CASE SetAside
  <2>1. CASE pc' = "publish"
    BY <1>6, <2>1 DEF SetAside, Rename
  <2>2. CASE pc' = "container"
    BY <1>6, <2>2, RemoveFolderCleans DEF SetAside
  <2> QED
    BY <1>6, <2>1, <2>2 DEF SetAside
<1>7. CASE Publish
  BY <1>7 DEF Publish, Rename
<1>8. CASE Restore
  BY <1>8 DEF Restore, Rename
<1>9. CASE DropContainer
  BY <1>9, RemoveFolderCleans DEF DropContainer
<1>10. CASE Discard
  BY <1>10, RemoveFolderCleans DEF Discard
<1>11. CASE Commit
  BY <1>11, RemoveFolderCleans DEF Commit
<1>12. CASE DropBackup
  BY <1>12, RemoveFolderCleans DEF DropBackup
<1>13. CASE Crash
  BY <1>13 DEF Crash
<1>14. CASE UNCHANGED vars
  BY <1>14 DEF vars
<1>15. QED
  BY <1>1, <1>2, <1>3, <1>4, <1>5, <1>6, <1>7, <1>8, <1>9, <1>10, <1>11, <1>12,
     <1>13, <1>14 DEF Next, Statement

LEMMA InitOnlyInUse == Init => OnlyInUse
  BY DEF Init, OnlyInUse

LEMMA OnlyInUseIsEnough == TypeInv /\ OnlyInUse => NothingLeftBeside
  BY DEF OnlyInUse, NothingLeftBeside, Staged, BackedUp

(* However many calls there were and however they ended: unless a removal  *)
(* or a restoration failed or the process died, no staging directory and   *)
(* no backup container stays beside the destination.                       *)
THEOREM NothingStaysBeside == Spec => []NothingLeftBeside
  BY InitTypeInv, NextTypeInv, InitOnlyInUse, NextOnlyInUse, OnlyInUseIsEnough, PTL DEF Spec

------------------------------------------------------------------------------
(* The implementation of AtomicPublish.  The names that may still be       *)
(* removed are never the only ones that hold the base.                     *)

LEMMA InitBaseHeld == Init => BaseHeld
  BY DEF Init, BaseHeld

LEMMA NextBaseHeld == IInv /\ [Next]_vars => BaseHeld'
<1> SUFFICES ASSUME IInv, [Next]_vars PROVE BaseHeld'
  OBVIOUS
<1> USE Kinds DEF IInv, TypeInv, ZipTypeOK, NamesInUse, DestinationState, BaseHeld,
        Doomed, Staged, Built, BackedUp, Untried, history
<1>1. ASSUME NEW o \in {"archive", "extract"}, Begin(o) PROVE BaseHeld'
  BY <1>1 DEF Begin
<1>2. CASE CreateStaging
  BY <1>2, NewEntryIsFree DEF CreateStaging, Put
<1>3. CASE Fill
  BY <1>3 DEF Fill, Put
<1>4. CASE Probe
  BY <1>4 DEF Probe
<1>5. CASE CreateContainer
  BY <1>5, NewEntryIsFree DEF CreateContainer, Put
<1>6. CASE SetAside
  <2>1. CASE pc' = "publish"
    BY <1>6, <2>1 DEF SetAside, Rename
  <2>2. CASE pc' = "container"
    BY <1>6, <2>2, RemoveFolderEffect DEF SetAside
  <2> QED
    BY <1>6, <2>1, <2>2 DEF SetAside
<1>7. CASE Publish
  BY <1>7 DEF Publish, Rename
<1>8. CASE Restore
  BY <1>8 DEF Restore, Rename
<1>9. CASE DropContainer
  BY <1>9, RemoveFolderEffect DEF DropContainer
<1>10. CASE Discard
  BY <1>10, RemoveFolderEffect DEF Discard
<1>11. CASE Commit
  BY <1>11, RemoveFolderEffect DEF Commit
<1>12. CASE DropBackup
  BY <1>12, RemoveFolderEffect DEF DropBackup
<1>13. CASE Crash
  <2>1. files' = files /\ base' = base /\ staging' = staging /\ pc' = "crashed"
    BY <1>13 DEF Crash
  <2>2. \A n \in Name : n \notin Doomed => n \notin Doomed'
    BY <2>1
  <2> QED
    BY <2>1, <2>2
<1>14. CASE UNCHANGED vars
  BY <1>14 DEF vars
<1>15. QED
  BY <1>1, <1>2, <1>3, <1>4, <1>5, <1>6, <1>7, <1>8, <1>9, <1>10, <1>11, <1>12,
     <1>13, <1>14 DEF Next, Statement

LEMMA InitPublication == Init => Publication!Init
  BY Kinds DEF Init, Publication!Init

(* A step that changes neither what is shown nor the base is one of        *)
(* AtomicPublish, as long as the base is held unless it is shown.          *)
LEMMA QuietStep ==
  ASSUME files[Dest]' = files[Dest], base' = base, IInv, BaseHeld'
  PROVE  [Publication!Next]_(Publication!vars)
  BY Kinds DEF IInv, BaseHeld, Doomed, Publication!Next, Publication!vars, Publication!Hold,
     Publication!Release

LEMMA NextPublication == IInv /\ [Next]_vars => [Publication!Next]_(Publication!vars)
<1> SUFFICES ASSUME IInv, [Next]_vars PROVE [Publication!Next]_(Publication!vars)
  OBVIOUS
<1>0. BaseHeld'
  BY NextBaseHeld
<1> USE Kinds DEF IInv, TypeInv, ZipTypeOK, NamesInUse, DestinationState, Staged, Built,
        BackedUp, Untried, history
<1>q. (files[Dest]' = files[Dest] /\ base' = base) => [Publication!Next]_(Publication!vars)
  BY <1>0, QuietStep
<1>1. ASSUME NEW o \in {"archive", "extract"}, Begin(o)
      PROVE  [Publication!Next]_(Publication!vars)
  BY <1>1, <1>q DEF Begin
<1>2. CASE CreateStaging
  BY <1>2, <1>q, NewEntryIsFree DEF CreateStaging, Put
<1>3. CASE Fill
  BY <1>3, <1>q DEF Fill, Put
<1>4. CASE Probe
  BY <1>4, <1>q DEF Probe
<1>5. CASE CreateContainer
  BY <1>5, <1>q, NewEntryIsFree DEF CreateContainer, Put
<1>6. CASE SetAside
  <2>1. CASE pc' = "publish"
    BY <1>6, <2>1, <1>0 DEF SetAside, Rename, BaseHeld, Doomed, Publication!Next,
       Publication!SetAside, Publication!Show, Publication!Shown
  <2>2. CASE pc' = "container"
    BY <1>6, <2>2, <1>q, RemoveFolderEffect DEF SetAside
  <2> QED
    BY <1>6, <2>1, <2>2 DEF SetAside
<1>7. CASE Publish
  <2>1. CASE pc' = "commit"
    BY <1>7, <2>1, <1>0 DEF Publish, Rename, BaseHeld, Doomed, Publication!Next,
       Publication!Show, Publication!Shown
  <2>2. CASE UNCHANGED files
    BY <1>7, <2>2, <1>q DEF Publish
  <2> QED
    BY <1>7, <2>1, <2>2 DEF Publish
<1>8. CASE Restore
  <2>1. CASE pc' = "dropcontainer"
    BY <1>8, <2>1, <1>0 DEF Restore, Rename, BaseHeld, Doomed, Publication!Next,
       Publication!Show, Publication!Shown, Publication!Restore
  <2>2. CASE UNCHANGED files
    BY <1>8, <2>2, <1>q DEF Restore
  <2> QED
    BY <1>8, <2>1, <2>2 DEF Restore
<1>9. CASE DropContainer
  BY <1>9, <1>q, RemoveFolderEffect DEF DropContainer
<1>10. CASE Discard
  BY <1>10, <1>q, RemoveFolderEffect DEF Discard
<1>11. CASE Commit
  BY <1>11, RemoveFolderEffect DEF Commit, Publication!Next, Publication!Commit
<1>12. CASE DropBackup
  BY <1>12, <1>q, RemoveFolderEffect DEF DropBackup
<1>13. CASE Crash
  BY <1>13, <1>q DEF Crash
<1>14. CASE UNCHANGED vars
  BY <1>14, <1>q DEF vars
<1>15. QED
  BY <1>1, <1>2, <1>3, <1>4, <1>5, <1>6, <1>7, <1>8, <1>9, <1>10, <1>11, <1>12,
     <1>13, <1>14 DEF Next, Statement

(* Archive and Extract implement AtomicPublish: at every instant the       *)
(* destination shows what was published last, or that is in a backup.      *)
THEOREM ArchivesPublishAtomically == Spec => PublishesAtomically
<1>1. Init => IInv
  BY InitTypeInv, InitBaseHeld DEF IInv
<1>2. IInv /\ [Next]_vars => IInv'
  BY NextTypeInv, NextBaseHeld DEF IInv
<1> QED
  BY <1>1, <1>2, InitPublication, NextPublication, PTL
     DEF Spec, PublishesAtomically, Publication!Spec

------------------------------------------------------------------------------
(* ZipExtraction takes the steps of ZipArchive.                            *)

LEMMA ExtractionSteps == [ExtractionNext]_<<vars, locals>> => [Next]_vars
  BY DEF ExtractionNext, ExtractionStatement, StartFilling, ExtractNext, AddNext,
     FinishFilling, Next, Statement

(* Entry by entry too, Archive and Extract implement AtomicPublish.        *)
THEOREM ExtractionPublishesAtomically == ExtractionSpec => PublishesAtomically
<1>1. ExtractionInit => Init
  BY DEF ExtractionInit
<1>2. Init => IInv
  BY InitTypeInv, InitBaseHeld DEF IInv
<1>3. IInv /\ [Next]_vars => IInv'
  BY NextTypeInv, NextBaseHeld DEF IInv
<1> QED
  BY <1>1, <1>2, <1>3, ExtractionSteps, InitPublication, NextPublication, PTL
     DEF ExtractionSpec, PublishesAtomically, Publication!Spec

(* A composed call, too, keeps the previous destination if it fails, and   *)
(* has published what it built if it succeeds.                             *)
THEOREM ExtractionKeepsOrPublishes ==
  ExtractionSpec => [](ZipTypeOK /\ FailureKeepsPrevious /\ SuccessPublishes)
<1>1. ExtractionInit => Init
  BY DEF ExtractionInit
<1>2. TypeInv => ZipTypeOK /\ FailureKeepsPrevious /\ SuccessPublishes
  BY DEF TypeInv, DestinationState, FailureKeepsPrevious, SuccessPublishes
<1> QED
  BY <1>1, <1>2, InitTypeInv, NextTypeInv, ExtractionSteps, PTL DEF ExtractionSpec

(* And they leave nothing beside the destination.                          *)
THEOREM ExtractionLeavesNothing == ExtractionSpec => []NothingLeftBeside
<1>1. ExtractionInit => Init
  BY DEF ExtractionInit
<1> QED
  BY <1>1, InitTypeInv, NextTypeInv, InitOnlyInUse, NextOnlyInUse, OnlyInUseIsEnough,
     ExtractionSteps, PTL DEF ExtractionSpec

------------------------------------------------------------------------------
(* The extraction.                                                         *)

IsExtraction(y) ==
  y = [folding |-> y.folding, tree |-> y.tree, seen |-> y.seen,
       directories |-> y.directories, declared |-> y.declared, written |-> y.written]

OnDisk(y, e) ==
  IF e.directory THEN IsFolder(y, e.path)
  ELSE IsFileExists(y, e.path) /\ y.tree[Key(y, e.path)] = e.data

(* The entries are on disk, while Extract goes on.                         *)
AllOnDisk ==
  (op = "extract" /\ pc = "fill") => \A i \in DOMAIN entries : OnDisk(x, entries[i])

(* The counters are natural numbers, which CountersHold does not say.      *)
Counting ==
  /\ x.declared \in Nat /\ x.written \in Nat
  /\ \A k \in Files(x.tree) : x.tree[k] \in Data

ExtractionInv ==
  /\ IsExtraction(x)
  /\ entries \in Seq(Listed) \/ op = "archive" \/ pc # "fill"
  /\ pc # "fill" => entries = <<>>
  /\ AllOnDisk
  /\ Counting /\ CountersHold

(* Making folders keeps what there is and makes those that were missing.   *)
LEMMA FoldersKept ==
  ASSUME NEW y, NEW folders
  PROVE  LET t == WithFolders(y, folders) IN
         /\ \A k \in DOMAIN y.tree : k \in DOMAIN t /\ t[k] = y.tree[k]
         /\ \A p \in folders : Key(y, p) \in DOMAIN t
         /\ \A k \in DOMAIN t : k \notin DOMAIN y.tree => t[k] = Folder
  BY DEF WithFolders

(* Admitting an entry only counts it.                                      *)
LEMMA AdmitEffect ==
  ASSUME NEW y, IsExtraction(y), NEW e
  PROVE  LET z == Admit(y, e) IN
         /\ IsExtraction(z)
         /\ z.folding = y.folding /\ z.tree = y.tree
         /\ z.directories = y.directories /\ z.written = y.written
         /\ z.declared = y.declared + e.size
<1> SUFFICES ASSUME NEW z, z = Admit(y, e)
             PROVE  /\ IsExtraction(z)
                    /\ z.folding = y.folding /\ z.tree = y.tree
                    /\ z.directories = y.directories /\ z.written = y.written
                    /\ z.declared = y.declared + e.size
  OBVIOUS
<1> QED
  BY DEF Admit, IsExtraction

(* An accepted entry is on disk as it was listed, and nothing that was     *)
(* there before has changed: neither a file nor a directory is replaced,   *)
(* however the volume compares names.                                      *)
LEMMA AcceptedOnDisk ==
  ASSUME NEW y, IsExtraction(y), NEW e, Accepts(y, e)
  PROVE  LET z == Extracted(y, e) IN
         /\ IsExtraction(z) /\ z.folding = y.folding
         /\ OnDisk(z, e)
         /\ \A k \in DOMAIN y.tree : k \in DOMAIN z.tree /\ z.tree[k] = y.tree[k]
<1> DEFINE a == Admit(y, e)
           z == Extracted(y, e)
<1>1. IsExtraction(a) /\ a.folding = y.folding /\ a.tree = y.tree
  BY AdmitEffect
<1>2. CASE e.directory
  <2>1. AcceptsDirectory(a, e) /\ z = WithDirectory(a, e)
    BY <1>2 DEF Accepts, Extracted
  <2>2. /\ IsExtraction(z) /\ z.folding = a.folding
        /\ z.tree = WithFolders(a, Parents(e.path) \cup {e.path})
    BY <1>1, <2>1 DEF WithDirectory, IsExtraction
  <2>3. IsFolder(z, e.path)
    BY <2>1, <2>2, FoldersKept DEF AcceptsDirectory, CanCreate, IsFolder, IsFileExists, Key
  <2> QED
    BY <1>1, <1>2, <2>2, <2>3, FoldersKept DEF OnDisk
<1>3. CASE ~e.directory
  <2> DEFINE folders == WithFolders(a, Parents(e.path))
  <2>1. AcceptsFile(a, e) /\ z = WithFile(a, e)
    BY <1>3 DEF Accepts, Extracted
  <2>2. /\ IsExtraction(z) /\ z.folding = a.folding
        /\ z.tree = WithContent(folders, Key(a, e.path), e.data)
    BY <1>1, <2>1 DEF WithFile, IsExtraction
  <2>3. /\ Key(a, e.path) \in DOMAIN z.tree /\ z.tree[Key(a, e.path)] = e.data
        /\ \A k \in DOMAIN folders :
             k \in DOMAIN z.tree /\ (k # Key(a, e.path) => z.tree[k] = folders[k])
    BY <2>2 DEF WithContent
  <2>4. Key(a, e.path) \notin DOMAIN y.tree
    BY <1>1, <2>1 DEF AcceptsFile, IsFileExists
  <2>5. Key(z, e.path) = Key(a, e.path)
    BY <2>2 DEF Key
  <2>6. OnDisk(z, e)
    BY <1>3, <2>3, <2>5 DEF OnDisk, IsFileExists
  <2> QED
    BY <1>1, <2>2, <2>3, <2>4, <2>6, FoldersKept
<1> QED
  BY <1>2, <1>3

(* ExtractEntries counts every byte it writes against both limits.         *)
LEMMA AcceptedWithinLimits ==
  ASSUME NEW y, IsExtraction(y), NEW e \in Listed, Accepts(y, e),
         y.declared \in Nat, y.written \in Nat,
         y.written <= y.declared, y.declared <= TotalLimit,
         \A k \in Files(y.tree) : y.tree[k] \in Data /\ Bytes[y.tree[k]] <= EntryLimit
  PROVE  LET z == Extracted(y, e) IN
         /\ z.declared \in Nat /\ z.written \in Nat
         /\ z.written <= z.declared /\ z.declared <= TotalLimit
         /\ \A k \in Files(z.tree) : z.tree[k] \in Data /\ Bytes[z.tree[k]] <= EntryLimit
<1> DEFINE a == Admit(y, e)
           z == Extracted(y, e)
<1>0. e.size \in Nat /\ e.data \in Data
  BY SourceAssumption DEF Listed, Reported, Entry
<1>1. /\ IsExtraction(a) /\ a.tree = y.tree
      /\ a.written = y.written /\ a.declared = y.declared + e.size
  BY AdmitEffect
<1>2. e.size <= EntryLimit /\ e.size <= TotalLimit - y.declared
  BY DEF Accepts, Admitted, WithinLimits
<1>3. CASE e.directory
  <2>1. z = WithDirectory(a, e)
    BY <1>3 DEF Extracted
  <2>2. /\ z.declared = a.declared /\ z.written = a.written
        /\ z.tree = WithFolders(a, Parents(e.path) \cup {e.path})
    BY <1>1, <2>1 DEF WithDirectory, IsExtraction
  <2>3. \A k \in Files(z.tree) : k \in Files(y.tree) /\ z.tree[k] = y.tree[k]
    BY <1>1, <2>2, FoldersKept DEF Files
  <2> QED
    BY <1>0, <1>1, <1>2, <2>2, <2>3, LimitAssumption
<1>4. CASE ~e.directory
  <2> DEFINE folders == WithFolders(a, Parents(e.path))
  <2>1. AcceptsFile(a, e) /\ z = WithFile(a, e)
    BY <1>4 DEF Accepts, Extracted
  <2>2. /\ z.declared = a.declared /\ z.written = a.written + Bytes[e.data]
        /\ z.tree = WithContent(folders, Key(a, e.path), e.data)
    BY <1>1, <2>1 DEF WithFile, IsExtraction
  <2>3. Bytes[e.data] = e.size
    BY <2>1 DEF AcceptsFile
  <2>4. \A k \in Files(z.tree) :
          z.tree[k] = e.data \/ (k \in Files(y.tree) /\ z.tree[k] = y.tree[k])
    BY <1>1, <2>2, FoldersKept DEF Files, WithContent
  <2> QED
    BY <1>0, <1>1, <1>2, <2>2, <2>3, <2>4, LimitAssumption
<1> QED
  BY <1>3, <1>4

------------------------------------------------------------------------------
LEMMA InitExtractionInv == ExtractionInit => ExtractionInv
  BY LimitAssumption DEF ExtractionInit, Init, ExtractionInv, IsExtraction, NothingExtracted,
     AllOnDisk, Counting, CountersHold, Files

LEMMA NextExtractionInv == ExtractionInv /\ [ExtractionNext]_<<vars, locals>> => ExtractionInv'
<1> SUFFICES ASSUME ExtractionInv, [ExtractionNext]_<<vars, locals>> PROVE ExtractionInv'
  OBVIOUS
<1> USE LimitAssumption DEF ExtractionInv, AllOnDisk, Counting, CountersHold
<1>1. CASE StartFilling
  <2>1. \E folding \in BOOLEAN : x' = NothingExtracted(folding)
    BY <1>1 DEF StartFilling
  <2>2. IsExtraction(x') /\ x'.declared = 0 /\ x'.written = 0 /\ Files(x'.tree) = {}
    BY <2>1 DEF NothingExtracted, IsExtraction, Files
  <2>3. entries' = <<>>
    BY <1>1 DEF StartFilling, CreateStaging
  <2> QED
    BY <1>1, <2>1, <2>2, <2>3 DEF StartFilling, CreateStaging
<1>2. CASE ExtractNext
  <2>1. PICK e \in Listed :
          Accepts(x, e) /\ x' = Extracted(x, e) /\ entries' = Append(entries, e)
    BY <1>2 DEF ExtractNext
  <2>2. op = "extract" /\ pc = "fill" /\ op' = op /\ pc' = pc /\ entries \in Seq(Listed)
    BY <1>2 DEF ExtractNext, vars
  <2>3. /\ IsExtraction(x') /\ x'.folding = x.folding /\ OnDisk(x', e)
        /\ \A k \in DOMAIN x.tree : k \in DOMAIN x'.tree /\ x'.tree[k] = x.tree[k]
    BY <2>1, AcceptedOnDisk
  <2>4. \A d : OnDisk(x, d) => OnDisk(x', d)
    BY <2>3 DEF OnDisk, IsFolder, IsFileExists, Key
  <2>5. \A i \in DOMAIN entries' : OnDisk(x', entries'[i])
    BY <2>1, <2>2, <2>3, <2>4
  <2>6. Counting' /\ CountersHold'
    BY <2>1, AcceptedWithinLimits
  <2> QED
    BY <2>1, <2>2, <2>3, <2>5, <2>6
<1>3. CASE AddNext
  BY <1>3 DEF AddNext, vars
<1>4. CASE FreshLocals /\ pc' # "fill"
  BY <1>4 DEF FreshLocals, IsExtraction, NothingExtracted, Files
<1>5. CASE UNCHANGED locals /\ pc # "fill" /\ pc' # "fill"
  BY <1>5 DEF locals, Files
<1>6. CASE UNCHANGED <<vars, locals>>
  BY <1>6 DEF locals, vars, Files
<1> QED
  BY <1>1, <1>2, <1>3, <1>4, <1>5, <1>6 DEF ExtractionNext, ExtractionStatement, FinishFilling,
     Fill, Probe, CreateContainer, SetAside, Publish, Restore, DropContainer, Discard, Commit,
     DropBackup, Begin, Crash

(* What Extract has accepted is on disk as it was listed, for every        *)
(* archive and however the volume compares names.                          *)
THEOREM ExtractsAsListed == ExtractionSpec => []ExtractedAsListed
<1>1. ExtractionInv => ExtractedAsListed
  BY DEF ExtractionInv, AllOnDisk, OnDisk, ExtractedAsListed
<1> QED
  BY InitExtractionInv, NextExtractionInv, <1>1, PTL DEF ExtractionSpec

(* The two counters of ExtractEntries hold every limit, for every archive. *)
LEMMA CountersStay == ExtractionSpec => []CountersHold
<1>1. ExtractionInv => CountersHold
  BY DEF ExtractionInv
<1> QED
  BY InitExtractionInv, NextExtractionInv, <1>1, PTL DEF ExtractionSpec

------------------------------------------------------------------------------
(* Paths.                                                                  *)

(* Sequences of sequences.                                                 *)
LEMMA FlattenStep ==
  ASSUME NEW C, NEW seqs \in Seq(Seq(C))
  PROVE  FlattenSeq(seqs) \in Seq(C)
<1> DEFINE n == Len(seqs)
           Flat == Seq(C)
           step == [k \in 1 .. n |-> [s \in Flat |-> s \o seqs[k]]]
           body(f) == [k \in 1 .. n |-> IF k = 1 THEN seqs[k] ELSE f[k - 1] \o seqs[k]]
           g == CHOOSE h : h = body(h)
<1>1. n \in Nat /\ \A k \in 1 .. n : seqs[k] \in Flat
  BY LenProperties, ElementOfSeq
<1>2. <<>> \in Flat /\ \A s, t \in Flat : s \o t \in Flat
  BY EmptySeq, ConcatProperties
<1>3. CASE n = 0
  <2>1. seqs = <<>>
    BY <1>3, EmptySeq, LenProperties
  <2> QED
    BY <1>2, <1>3, <2>1 DEF FlattenSeq
<1>4. CASE n # 0
  <2>1. FlattenSeq(seqs) = g[n]
    BY <1>4 DEF FlattenSeq
  <2> HIDE DEF n, Flat, g
  <2>2. step \in [1 .. n -> [Flat -> Flat]]
    BY <1>1, <1>2
  <2>3. PICK f : Solves(f, n, Flat, <<>>, step)
    <3> HIDE DEF step
    <3> QED
      BY <1>1, <1>2, <2>2, RecursionExists
  <2>4. /\ f \in [0 .. n -> Flat] /\ f[0] = <<>>
        /\ \A k \in 1 .. n : f[k] = f[k - 1] \o seqs[k]
    <3>1. f \in [0 .. n -> Flat] /\ f[0] = <<>> /\ \A k \in 1 .. n : f[k] = step[k][f[k - 1]]
      BY <2>3 DEF Solves
    <3>2. \A k \in 1 .. n : f[k - 1] \in Flat
      BY <1>1, <3>1
    <3> QED
      BY <3>1, <3>2
  <2> DEFINE h == [k \in 1 .. n |-> f[k]]
  <2>5. h = body(h)
    <3>1. CASE n >= 1
      <4>1. f[1] = seqs[1]
        <5>3. 1 \in 1 .. n
          BY <1>1, <3>1
        <5>4. f[1] = f[1 - 1] \o seqs[1]
          BY <2>4, <5>3, Zenon
        <5>1. f[1] = f[0] \o seqs[1]
          BY <5>4
        <5>2. seqs[1] \in Flat /\ <<>> \o seqs[1] = seqs[1]
          BY <1>1, <5>3, ConcatEmptySeq DEF Flat
        <5> QED
          BY <2>4, <5>1, <5>2
      <4>2. \A k \in 1 .. n : k # 1 => k - 1 \in 1 .. n
        BY <1>1
      <4>3. \A k \in 1 .. n : f[k] = IF k = 1 THEN seqs[k] ELSE h[k - 1] \o seqs[k]
        BY <2>4, <4>1, <4>2
      <4> QED
        BY <4>3
    <3> QED
      BY <1>1, <1>4, <3>1
  <2>6. g = body(g)
    <3> HIDE DEF body, h
    <3> QED
      BY <2>5, Zenon DEF g
  <2>7. \A k \in 1 .. n : g[k] = IF k = 1 THEN seqs[k] ELSE g[k - 1] \o seqs[k]
    <3>1. \A k \in 1 .. n : body(g)[k] = IF k = 1 THEN seqs[k] ELSE g[k - 1] \o seqs[k]
      OBVIOUS
    <3> HIDE DEF body
    <3> QED
      BY <2>6, <3>1, Zenon
  <2> DEFINE S == {k \in 0 .. n : k = 0 \/ g[k] \in Flat}
  <2>8. 0 \in S
    BY <1>1
  <2>9. ASSUME NEW k \in 0 .. n - 1, k \in S PROVE k + 1 \in S
    <3>1. k + 1 \in 1 .. n /\ (k + 1) - 1 = k
      BY <1>1
    <3>2. g[k + 1] = IF k + 1 = 1 THEN seqs[k + 1] ELSE g[k] \o seqs[k + 1]
      BY <2>7, <3>1
    <3> QED
      BY <1>1, <1>2, <2>9, <3>1, <3>2
  <2> HIDE DEF S
  <2>10. 0 .. n \subseteq S
    BY <1>1, <2>8, <2>9, Induction
  <2>11. n \in S
    BY <1>1, <2>10
  <2> QED
    BY <1>4, <2>1, <2>11 DEF S, Flat
<1> QED
  BY <1>3, <1>4

(* Paths are sequences of components, however they are compared.           *)
LEMMA PathType ==
  ASSUME NEW p \in Path
  PROVE  /\ Slashed(p) \in Path /\ EntryIdentity(p) \in Path
         /\ \A y : Key(y, p) \in Path
         /\ Parents(p) \subseteq Path /\ IsFiniteSet(Parents(p))
         /\ p \notin Parents(p)
<1>1. Len(p) \in Nat /\ DOMAIN p = 1 .. Len(p) /\ \A i \in 1 .. Len(p) : p[i] \in Component
  BY LenProperties, ElementOfSeq DEF Path
<1>2. \A f \in [Component -> Component] : Each(f, p) \in Path
  <2> SUFFICES ASSUME NEW f \in [Component -> Component] PROVE Each(f, p) \in Path
    OBVIOUS
  <2>1. Each(f, p) \in [1 .. Len(p) -> Component]
    BY <1>1 DEF Each
  <2> QED
    BY <1>1, <2>1, SeqDef DEF Path
<1>3. Each(Split, p) \in Seq(Seq(Component))
  <2>1. Each(Split, p) \in [1 .. Len(p) -> Seq(Component)]
    BY <1>1, ComponentAssumption DEF Each
  <2> QED
    BY <1>1, <2>1, SeqDef
<1>4. Slashed(p) \in Path
  BY <1>3, FlattenStep DEF Slashed, Path
<1>5. EntryIdentity(p) \in Path /\ \A y : Key(y, p) \in Path
  BY <1>2, ComponentAssumption DEF EntryIdentity, Key
<1>6. \A k \in 1 .. Len(p) - 1 : SubSeq(p, 1, k) \in Path /\ Len(SubSeq(p, 1, k)) = k
  BY <1>1, SubSeqProperties DEF Path
<1>7. Parents(p) \subseteq Path /\ p \notin Parents(p)
  <2>1. ASSUME p \in Parents(p) PROVE FALSE
    <3>1. PICK k \in 1 .. Len(p) - 1 : p = SubSeq(p, 1, k)
      BY <2>1 DEF Parents
    <3>2. Len(p) = k
      BY <1>6, <3>1
    <3> QED
      BY <1>1, <3>2
  <2> QED
    BY <1>6, <2>1 DEF Parents
<1>8. IsFiniteSet(Parents(p))
  <2> DEFINE I == 1 .. Len(p) - 1
             f == [k \in I |-> SubSeq(p, 1, k)]
  <2>1. IsFiniteSet(I)
    BY <1>1, FS_Interval
  <2>2. {f[k] : k \in I} = Parents(p)
    BY DEF Parents
  <2>3. IsFiniteSet({f[k] : k \in I})
    <3> HIDE DEF I
    <3>1. f \in Surjection(I, {f[k] : k \in I})
      BY DEF Surjection
    <3> HIDE DEF f
    <3> QED
      BY <2>1, <3>1, FS_Surjection
  <2> QED
    BY <2>2, <2>3
<1> QED
  BY <1>4, <1>5, <1>7, <1>8

------------------------------------------------------------------------------
(* The fields of an extraction.                                            *)

Trees == UNION {[S -> Data \cup {Folder}] : S \in SUBSET Path}

(* What EnumerateEntries reports is an entry again.                        *)
LEMMA ReportedType ==
  ASSUME NEW e \in Entry
  PROVE  Reported(e) \in Entry
<1>1. Slashed(e.path) \in Path
  BY PathType DEF Entry
<1> QED
  BY <1>1 DEF Reported, Entry

LEMMA ListedType == \A e \in Listed : e \in Entry
  BY SourceAssumption, ReportedType DEF Listed

(* A tree with more in it.                                                 *)
LEMMA TreeType ==
  ASSUME NEW t \in Trees
  PROVE  /\ DOMAIN t \subseteq Path /\ t \in [DOMAIN t -> Data \cup {Folder}]
         /\ Files(t) \subseteq DOMAIN t /\ \A k \in Files(t) : t[k] \in Data
  BY DEF Trees, Files

LEMMA FoldersType ==
  ASSUME NEW y \in Extraction, NEW folders \in SUBSET Path
  PROVE  /\ WithFolders(y, folders) \in Trees
         /\ DOMAIN WithFolders(y, folders) = DOMAIN y.tree \cup {Key(y, p) : p \in folders}
<1> DEFINE D == DOMAIN y.tree \cup {Key(y, p) : p \in folders}
           t == WithFolders(y, folders)
<1>1. y.tree \in Trees
  BY DEF Extraction, Trees
<1>2. D \in SUBSET Path
  BY <1>1, PathType, TreeType
<1>3. t \in [D -> Data \cup {Folder}]
  BY <1>1, TreeType DEF WithFolders
<1> HIDE DEF D, t
<1>4. t \in Trees /\ DOMAIN t = D
  BY <1>2, <1>3 DEF Trees
<1> QED
  BY <1>4 DEF D, t

LEMMA ContentType ==
  ASSUME NEW t \in Trees, NEW k \in Path, NEW d \in Data
  PROVE  /\ WithContent(t, k, d) \in Trees
         /\ DOMAIN WithContent(t, k, d) = DOMAIN t \cup {k}
<1> DEFINE D == DOMAIN t \cup {k}
           u == WithContent(t, k, d)
<1>1. D \in SUBSET Path
  BY TreeType
<1>2. u \in [D -> Data \cup {Folder}]
  BY TreeType DEF WithContent
<1> HIDE DEF D, u
<1>3. u \in Trees /\ DOMAIN u = D
  BY <1>1, <1>2 DEF Trees
<1> QED
  BY <1>3 DEF D, u

LEMMA ExtractionType ==
  ASSUME NEW y
  PROVE  y \in Extraction <=>
           /\ IsExtraction(y) /\ y.folding \in BOOLEAN /\ y.tree \in Trees
           /\ y.seen \subseteq Path /\ y.directories \subseteq Path
           /\ y.declared \in Nat /\ y.written \in Nat
  BY DEF Extraction, IsExtraction, Trees

(* What an accepted entry does to an extraction, field by field.           *)
LEMMA ExtractedFields ==
  ASSUME NEW y \in Extraction, NEW e \in Entry
  PROVE  LET made == Parents(e.path) \cup (IF e.directory THEN {e.path} ELSE {})
             z == Extracted(y, e)
         IN  /\ z \in Extraction /\ z.folding = y.folding
             /\ z.seen = y.seen \cup {EntryIdentity(e.path)}
             /\ z.declared = y.declared + e.size
             /\ z.written = y.written + (IF e.directory THEN 0 ELSE Bytes[e.data])
             /\ z.directories = y.directories \cup made
             /\ z.tree = IF e.directory THEN WithFolders(y, made)
                         ELSE WithContent(WithFolders(y, made), Key(y, e.path), e.data)
<1> DEFINE made == Parents(e.path) \cup (IF e.directory THEN {e.path} ELSE {})
           a == Admit(y, e)
           z == Extracted(y, e)
           folders == WithFolders(y, made)
<1>1. /\ e.path \in Path /\ e.directory \in BOOLEAN /\ e.size \in Nat /\ e.data \in Data
      /\ Bytes[e.data] \in Nat
  BY DataAssumption DEF Entry
<1>2. /\ IsExtraction(y) /\ y.folding \in BOOLEAN /\ y.tree \in Trees
      /\ y.seen \subseteq Path /\ y.directories \subseteq Path
      /\ y.declared \in Nat /\ y.written \in Nat
  BY ExtractionType
<1>3. /\ made \subseteq Path /\ EntryIdentity(e.path) \in Path /\ Key(y, e.path) \in Path
  BY <1>1, PathType
<1>4. /\ IsExtraction(a) /\ a.folding = y.folding /\ a.tree = y.tree
      /\ a.directories = y.directories /\ a.written = y.written
      /\ a.declared = y.declared + e.size
  BY <1>2, AdmitEffect
<1>5. a.seen = y.seen \cup {EntryIdentity(e.path)}
  BY <1>2 DEF Admit, IsExtraction
<1>6. /\ \A s : WithFolders(a, s) = WithFolders(y, s)
      /\ Key(a, e.path) = Key(y, e.path)
  BY <1>4 DEF WithFolders, Key
<1>7. folders \in Trees
  BY <1>3, FoldersType
<1>8. CASE e.directory
  <2>1. made = Parents(e.path) \cup {e.path} /\ z = WithDirectory(a, e)
    BY <1>8 DEF Extracted
  <2>2. /\ IsExtraction(z) /\ z.folding = a.folding /\ z.seen = a.seen
        /\ z.declared = a.declared /\ z.written = a.written
        /\ z.directories = a.directories \cup made
        /\ z.tree = WithFolders(a, made)
    BY <1>4, <2>1 DEF WithDirectory, IsExtraction
  <2> HIDE DEF made, a, z
  <2>3. z.tree = folders
    BY <1>6, <2>2
  <2>4. z.written = y.written + 0
    BY <1>2, <1>4, <2>2
  <2>5. z \in Extraction
    BY <1>1, <1>2, <1>3, <1>4, <1>5, <1>7, <2>2, <2>3, ExtractionType
  <2> QED
    BY <1>4, <1>5, <1>8, <2>2, <2>3, <2>4, <2>5 DEF made, z
<1>9. CASE ~e.directory
  <2>1. made = Parents(e.path) /\ z = WithFile(a, e)
    BY <1>9 DEF Extracted
  <2>2. /\ IsExtraction(z) /\ z.folding = a.folding /\ z.seen = a.seen
        /\ z.declared = a.declared /\ z.written = a.written + Bytes[e.data]
        /\ z.directories = a.directories \cup made
        /\ z.tree = WithContent(WithFolders(a, made), Key(a, e.path), e.data)
    BY <1>4, <2>1 DEF WithFile, IsExtraction
  <2> HIDE DEF made, a, z
  <2>3. z.tree = WithContent(folders, Key(y, e.path), e.data)
    BY <1>6, <2>2
  <2>4. WithContent(folders, Key(y, e.path), e.data) \in Trees
    BY <1>1, <1>3, <1>7, ContentType
  <2>5. z \in Extraction
    BY <1>1, <1>2, <1>3, <1>4, <1>5, <2>2, <2>3, <2>4, ExtractionType
  <2> QED
    BY <1>4, <1>5, <1>9, <2>2, <2>3, <2>5 DEF made, z
<1> QED
  BY <1>1, <1>8, <1>9

(* Its names, its folders and its files.                                   *)
LEMMA ExtractedTree ==
  ASSUME NEW y \in Extraction, NEW e \in Entry
  PROVE  LET made == Parents(e.path) \cup (IF e.directory THEN {e.path} ELSE {})
             t == Extracted(y, e).tree
             new == {Key(y, p) : p \in made \cup {e.path}}
         IN  /\ DOMAIN t = DOMAIN y.tree \cup new
             /\ \A k \in new : k \notin DOMAIN y.tree =>
                  t[k] = IF ~e.directory /\ k = Key(y, e.path) THEN e.data ELSE Folder
             /\ \A k \in DOMAIN y.tree :
                  (e.directory \/ k # Key(y, e.path)) => t[k] = y.tree[k]
<1> DEFINE made == Parents(e.path) \cup (IF e.directory THEN {e.path} ELSE {})
           t == Extracted(y, e).tree
           folders == WithFolders(y, made)
<1>1. /\ e.path \in Path /\ e.directory \in BOOLEAN /\ e.data \in Data /\ made \subseteq Path
  BY PathType DEF Entry
<1>2. t = IF e.directory THEN folders ELSE WithContent(folders, Key(y, e.path), e.data)
  BY ExtractedFields
<1>3. DOMAIN folders = DOMAIN y.tree \cup {Key(y, p) : p \in made} /\ folders \in Trees
  BY <1>1, FoldersType
<1>4. \A k \in DOMAIN folders :
        folders[k] = IF k \in DOMAIN y.tree THEN y.tree[k] ELSE Folder
  BY FoldersKept
<1> HIDE DEF folders, t
<1>5. CASE e.directory
  BY <1>2, <1>3, <1>4, <1>5 DEF t
<1>6. CASE ~e.directory
  <2>1. t = WithContent(folders, Key(y, e.path), e.data)
    BY <1>2, <1>6
  <2>2. /\ DOMAIN t = DOMAIN folders \cup {Key(y, e.path)}
        /\ \A k \in DOMAIN t : t[k] = IF k = Key(y, e.path) THEN e.data ELSE folders[k]
    BY <2>1 DEF WithContent
  <2> QED
    BY <1>3, <1>4, <1>6, <2>2 DEF t
<1> QED
  BY <1>1, <1>5, <1>6

------------------------------------------------------------------------------
(* Bytes, summed over the files of a tree.                                 *)

(* BytesIn is the sum over the keys, in whatever order it adds.            *)
LEMMA BytesInIsSum ==
  ASSUME NEW t, NEW S, IsFiniteSet(S), \A k \in S : t[k] \in Data
  PROVE  \E f : IsSum(f, [k \in S |-> Bytes[t[k]]], S) /\ f[S] = BytesIn(t, S)
<1> DEFINE w == [k \in S |-> Bytes[t[k]]]
           one(K) == CHOOSE y \in K : TRUE
           pick == [K \in (SUBSET S) \ {{}} |-> one(K)]
           step == [k \in S |-> [n \in Nat |-> w[k] + n]]
           body(g) == [K \in SUBSET S |-> IF K = {} THEN 0
                                          ELSE Bytes[t[one(K)]] + g[K \ {one(K)}]]
           s == CHOOSE g : g = body(g)
<1>1. w \in [S -> Nat] /\ \A k \in S : w[k] = Bytes[t[k]]
  BY DataAssumption
<1>2. \A K \in (SUBSET S) \ {{}} : one(K) \in K /\ pick[K] = one(K)
  OBVIOUS
<1>3. pick \in Picks(S)
  BY <1>2 DEF Picks
<1>4. BytesIn(t, S) = s[S]
  BY DEF BytesIn, MapThenSumSet, MapThenFoldSet
<1> HIDE DEF w, one, pick, s
<1>5. step \in [S -> [Nat -> Nat]]
  BY <1>1
<1>6. PICK f : Folds(f, S, Nat, 0, pick, step)
  <2> HIDE DEF step
  <2> QED
    BY <1>3, <1>5, FoldExists
<1>7. /\ f \in [SUBSET S -> Nat] /\ f[{}] = 0
      /\ \A K \in (SUBSET S) \ {{}} : f[K] = w[pick[K]] + f[K \ {pick[K]}]
  <2>1. /\ f \in [SUBSET S -> Nat] /\ f[{}] = 0
        /\ \A K \in (SUBSET S) \ {{}} : f[K] = step[pick[K]][f[K \ {pick[K]}]]
    BY <1>6 DEF Folds
  <2>2. \A k \in S, n \in Nat : step[k][n] = w[k] + n
    OBVIOUS
  <2> HIDE DEF step
  <2>3. \A K \in (SUBSET S) \ {{}} : pick[K] \in S /\ f[K \ {pick[K]}] \in Nat
    BY <1>2, <2>1
  <2> QED
    BY <2>1, <2>2, <2>3
<1>8. f = body(f)
  <2>1. ASSUME NEW K \in SUBSET S
        PROVE  f[K] = IF K = {} THEN 0 ELSE Bytes[t[one(K)]] + f[K \ {one(K)}]
    <3>1. CASE K = {}
      BY <1>7, <3>1
    <3>2. CASE K # {}
      <4>1. one(K) \in S /\ pick[K] = one(K)
        BY <1>2, <3>2
      <4>2. f[K] = w[one(K)] + f[K \ {one(K)}]
        BY <1>7, <3>2, <4>1
      <4> QED
        BY <1>1, <3>2, <4>1, <4>2
    <3> QED
      BY <3>1, <3>2
  <2> QED
    BY <1>7, <2>1
<1>9. s = body(s)
  <2> HIDE DEF body
  <2> QED
    BY <1>8, Zenon DEF s
<1>10. /\ s[{}] = 0
       /\ \A K \in (SUBSET S) \ {{}} : s[K] = Bytes[t[pick[K]]] + s[K \ {pick[K]}]
  <2>1. /\ body(s)[{}] = 0
        /\ \A K \in (SUBSET S) \ {{}} : body(s)[K] = Bytes[t[one(K)]] + s[K \ {one(K)}]
    OBVIOUS
  <2> HIDE DEF body
  <2>2. /\ s[{}] = 0
        /\ \A K \in (SUBSET S) \ {{}} : s[K] = Bytes[t[one(K)]] + s[K \ {one(K)}]
    BY <1>9, <2>1, Zenon
  <2> QED
    BY <1>2, <2>2
<1>11. f[S] = s[S]
  <2>1. f[{}] = s[{}]
    BY <1>7, <1>10
  <2>2. ASSUME NEW K \in (SUBSET S) \ {{}}, f[K \ {pick[K]}] = s[K \ {pick[K]}]
        PROVE  f[K] = s[K]
    BY <1>1, <1>2, <1>7, <1>10, <2>2, ZenonT(30)
  <2>3. \A K \in SUBSET S : f[K] = s[K]
    <3> HIDE DEF body, step
    <3> QED
      BY <1>3, <2>1, <2>2, FollowsFold
  <2> QED
    BY <2>3
<1>12. Adds(f, w, S, pick)
  BY <1>1, <1>3, <1>7 DEF Adds
<1>13. IsSum(f, w, S)
  BY <1>12, FoldIsSum
<1> QED
  BY <1>4, <1>11, <1>13 DEF w

LEMMA BytesInType ==
  ASSUME NEW t, NEW S, IsFiniteSet(S), \A k \in S : t[k] \in Data
  PROVE  BytesIn(t, S) \in Nat
<1>1. PICK f : IsSum(f, [k \in S |-> Bytes[t[k]]], S) /\ f[S] = BytesIn(t, S)
  BY BytesInIsSum
<1> QED
  BY <1>1 DEF IsSum

(* Only the contents of the files count.                                   *)
LEMMA BytesInSame ==
  ASSUME NEW t, NEW u, NEW S, IsFiniteSet(S), \A k \in S : t[k] \in Data /\ u[k] = t[k]
  PROVE  BytesIn(u, S) = BytesIn(t, S)
<1>1. PICK f : IsSum(f, [k \in S |-> Bytes[t[k]]], S) /\ f[S] = BytesIn(t, S)
  BY BytesInIsSum
<1>2. PICK g : IsSum(g, [k \in S |-> Bytes[u[k]]], S) /\ g[S] = BytesIn(u, S)
  BY BytesInIsSum
<1>3. [k \in S |-> Bytes[t[k]]] = [k \in S |-> Bytes[u[k]]]
  OBVIOUS
<1> DEFINE w == [k \in S |-> Bytes[u[k]]]
<1>4. IsSum(f, w, S) /\ IsSum(g, w, S)
  BY <1>1, <1>2, <1>3
<1> HIDE DEF w
<1>5. f[S] = g[S]
  BY <1>4, SameSum
<1> QED
  BY <1>1, <1>2, <1>5

(* One more file adds its bytes.                                           *)
OneMore(t, u, S, T, k) ==
  /\ IsFiniteSet(S) /\ k \notin S /\ T = S \cup {k} /\ u[k] \in Data
  /\ \A j \in S : t[j] \in Data /\ u[j] = t[j]

LEMMA BytesInAdd ==
  ASSUME NEW t, NEW u, NEW S, NEW T, NEW k, OneMore(t, u, S, T, k)
  PROVE  BytesIn(u, T) = Bytes[u[k]] + BytesIn(t, S)
<1> DEFINE v == [j \in S |-> Bytes[t[j]]]
           w == [j \in T |-> Bytes[u[j]]]
<1> USE DEF OneMore
<1>1. IsFiniteSet(T) /\ \A j \in T : u[j] \in Data
  BY FS_AddElement
<1>2. PICK f : IsSum(f, v, S) /\ f[S] = BytesIn(t, S)
  BY BytesInIsSum
<1>3. PICK g : IsSum(g, w, T) /\ g[T] = BytesIn(u, T)
  BY <1>1, BytesInIsSum
<1>4. g[T] = w[k] + g[T \ {k}] /\ T \ {k} = S /\ w[k] = Bytes[u[k]]
  BY <1>3 DEF IsSum
<1>5. (\A j \in S : v[j] = w[j]) /\ S \subseteq T
  OBVIOUS
<1> HIDE DEF v, w
<1>6. f[S] = g[S]
  BY <1>2, <1>3, <1>5, SameSum
<1> QED
  BY <1>2, <1>3, <1>4, <1>6

(* A part of the files has no more bytes.                                  *)
LEMMA BytesInPart ==
  ASSUME NEW t, NEW S, NEW K \in SUBSET S, IsFiniteSet(S), \A k \in S : t[k] \in Data
  PROVE  BytesIn(t, K) <= BytesIn(t, S)
<1> DEFINE v == [j \in K |-> Bytes[t[j]]]
           w == [j \in S |-> Bytes[t[j]]]
<1>1. IsFiniteSet(K)
  BY FS_Subset
<1>2. PICK f : IsSum(f, v, K) /\ f[K] = BytesIn(t, K)
  BY <1>1, BytesInIsSum
<1>3. PICK g : IsSum(g, w, S) /\ g[S] = BytesIn(t, S)
  BY BytesInIsSum
<1>4. w \in [S -> Nat] /\ \A j \in K : v[j] = w[j]
  BY DataAssumption
<1> HIDE DEF v, w
<1>5. f[K] = g[K]
  BY <1>1, <1>2, <1>3, <1>4, SameSum
<1>6. g[K] <= g[S]
  BY <1>3, <1>4, PartialSum
<1> QED
  BY <1>2, <1>3, <1>5, <1>6

(* The bytes on disk are those that were counted.                          *)
IsMeasured(y) ==
  y \in Extraction /\ IsFiniteSet(DOMAIN y.tree) /\ BytesIn(y.tree, Files(y.tree)) = y.written

LEMMA NothingIsMeasured ==
  ASSUME NEW folding \in BOOLEAN
  PROVE  IsMeasured(NothingExtracted(folding))
<1> DEFINE y == NothingExtracted(folding)
<1>1. /\ IsExtraction(y) /\ y.folding = folding /\ y.tree = <<>>
      /\ y.seen = {} /\ y.directories = {} /\ y.declared = 0 /\ y.written = 0
  BY DEF NothingExtracted, IsExtraction
<1>2. y.tree \in Trees /\ DOMAIN y.tree = {} /\ Files(y.tree) = {}
  <2>1. y.tree \in [{} -> Data \cup {Folder}]
    BY <1>1
  <2> QED
    BY <2>1 DEF Trees, Files
<1>3. y \in Extraction
  BY <1>1, <1>2, ExtractionType
<1>4. IsFiniteSet({})
  BY FS_EmptySet
<1>5. BytesIn(y.tree, {}) = 0
  <2>1. PICK f : IsSum(f, [k \in {} |-> Bytes[y.tree[k]]], {}) /\ f[{}] = BytesIn(y.tree, {})
    BY <1>4, BytesInIsSum
  <2> QED
    BY <2>1 DEF IsSum
<1> HIDE DEF y
<1> QED
  BY <1>1, <1>2, <1>3, <1>4, <1>5 DEF IsMeasured, y

LEMMA AcceptedIsMeasured ==
  ASSUME NEW y, IsMeasured(y), NEW e \in Entry, Accepts(y, e)
  PROVE  IsMeasured(Extracted(y, e))
<1> DEFINE z == Extracted(y, e)
           made == Parents(e.path) \cup (IF e.directory THEN {e.path} ELSE {})
           key == Key(y, e.path)
           new == {Key(y, p) : p \in made \cup {e.path}}
<1>1. y \in Extraction /\ IsFiniteSet(DOMAIN y.tree) /\ BytesIn(y.tree, Files(y.tree)) = y.written
  BY DEF IsMeasured
<1>2. /\ e.path \in Path /\ e.directory \in BOOLEAN /\ e.data \in Data /\ e.data # Folder
      /\ Bytes[e.data] \in Nat /\ y.written \in Nat /\ y.tree \in Trees
  BY <1>1, DataAssumption, ExtractionType DEF Entry
<1>3. /\ z \in Extraction
      /\ z.written = y.written + (IF e.directory THEN 0 ELSE Bytes[e.data])
  BY <1>1, ExtractedFields
<1>4. /\ DOMAIN z.tree = DOMAIN y.tree \cup new
      /\ \A k \in new : k \notin DOMAIN y.tree =>
           z.tree[k] = IF ~e.directory /\ k = key THEN e.data ELSE Folder
      /\ \A k \in DOMAIN y.tree : (e.directory \/ k # key) => z.tree[k] = y.tree[k]
  BY <1>1, ExtractedTree
<1>5. IsFiniteSet(DOMAIN z.tree)
  <2> DEFINE S == Parents(e.path) \cup {e.path}
             f == [p \in S |-> Key(y, p)]
  <2>1. IsFiniteSet(S)
    BY <1>2, PathType, FS_AddElement
  <2>2. new = {f[p] : p \in S}
    OBVIOUS
  <2> HIDE DEF S
  <2>3. f \in Surjection(S, {f[p] : p \in S})
    BY DEF Surjection
  <2> HIDE DEF f, new
  <2>4. IsFiniteSet(new)
    BY <2>1, <2>2, <2>3, FS_Surjection
  <2> QED
    BY <1>1, <1>4, <2>4, FS_Union
<1>6. \A k \in Files(y.tree) : k \in DOMAIN y.tree /\ y.tree[k] \in Data
  BY <1>2, TreeType
<1>7. IsFiniteSet(Files(y.tree))
  BY <1>1, <1>6, FS_Subset
<1> HIDE DEF z, new
<1>8. CASE e.directory
  <2>1. \A k \in DOMAIN y.tree : z.tree[k] = y.tree[k]
    BY <1>4, <1>8
  <2>2. \A k \in DOMAIN z.tree : k \notin DOMAIN y.tree => z.tree[k] = Folder
    BY <1>4, <1>8
  <2>3. Files(z.tree) = Files(y.tree)
    BY <1>4, <2>1, <2>2 DEF Files
  <2>4. BytesIn(z.tree, Files(y.tree)) = BytesIn(y.tree, Files(y.tree))
    BY <1>6, <1>7, <2>1, BytesInSame
  <2> QED
    BY <1>1, <1>2, <1>3, <1>5, <1>8, <2>3, <2>4 DEF IsMeasured, z
<1>9. CASE ~e.directory
  <2>1. key \notin DOMAIN y.tree
    <3>1. ~IsFileExists(Admit(y, e), e.path)
      BY <1>9 DEF Accepts, AcceptsFile
    <3>2. Admit(y, e).tree = y.tree /\ Admit(y, e).folding = y.folding
      BY <1>1, ExtractionType, AdmitEffect
    <3> QED
      BY <3>1, <3>2 DEF IsFileExists, Key
  <2>2. key \in new
    BY DEF new
  <2>3. \A k \in DOMAIN y.tree : z.tree[k] = y.tree[k]
    BY <1>4, <2>1
  <2>4. \A k \in DOMAIN z.tree : k \notin DOMAIN y.tree =>
          z.tree[k] = IF k = key THEN e.data ELSE Folder
    BY <1>4, <1>9
  <2>5. Files(z.tree) = Files(y.tree) \cup {key} /\ z.tree[key] = e.data
    BY <1>2, <1>4, <2>1, <2>2, <2>3, <2>4 DEF Files
  <2>6. key \notin Files(y.tree)
    BY <1>6, <2>1
  <2>7. BytesIn(z.tree, Files(y.tree) \cup {key}) =
          Bytes[e.data] + BytesIn(y.tree, Files(y.tree))
    <3> HIDE DEF key
    <3>1. /\ z.tree[key] \in Data /\ Bytes[z.tree[key]] = Bytes[e.data]
          /\ \A j \in Files(y.tree) : y.tree[j] \in Data /\ z.tree[j] = y.tree[j]
      BY <1>2, <1>6, <2>3, <2>5
    <3>2. BytesIn(z.tree, Files(y.tree) \cup {key}) =
          Bytes[z.tree[key]] + BytesIn(y.tree, Files(y.tree))
      <4>1. OneMore(y.tree, z.tree, Files(y.tree), Files(y.tree) \cup {key}, key)
        BY <1>7, <2>6, <3>1 DEF OneMore
      <4> QED
        BY <4>1, BytesInAdd
    <3> QED
      BY <3>1, <3>2
  <2> QED
    BY <1>1, <1>2, <1>3, <1>5, <1>9, <2>5, <2>7 DEF IsMeasured, z
<1> QED
  BY <1>8, <1>9

------------------------------------------------------------------------------
(* Sizes, summed over the entries of an archive.                           *)

Sizes(list) == [k \in 1 .. Len(list) |-> [m \in Nat |-> m + list[k].size]]

(* Total adds the sizes one after another.                                 *)
LEMMA TotalRuns ==
  ASSUME NEW list \in Seq(Entry)
  PROVE  \E h : Solves(h, Len(list), Nat, 0, Sizes(list)) /\ h[Len(list)] = Total(list)
<1> DEFINE n == Len(list)
           I == 1 .. n
           pick == [K \in (SUBSET I) \ {{}} |-> Greatest(K)]
           step == [k \in I |-> [m \in Nat |-> m + list[k].size]]
           body(g) == [K \in SUBSET I |-> IF K = {} THEN 0
                         ELSE g[K \ {Greatest(K)}] + list[Greatest(K)].size]
           s == CHOOSE g : g = body(g)
           h == [k \in 0 .. n |-> s[1 .. k]]
<1>1. n \in Nat /\ DOMAIN list = I /\ IsFiniteSet(I) /\ \A k \in I : list[k].size \in Nat
  <2>1. n \in Nat /\ DOMAIN list = 1 .. n /\ \A k \in 1 .. n : list[k] \in Entry
    BY LenProperties, ElementOfSeq
  <2> QED
    BY <2>1, FS_Interval DEF Entry
<1>2. Total(list) = s[I]
  <2>1. Total(list) = (CHOOSE g : g = [K \in SUBSET DOMAIN list |->
                         IF K = {} THEN 0 ELSE g[K \ {Greatest(K)}] + list[Greatest(K)].size])
                      [DOMAIN list]
    BY DEF Total, FoldLeft, MapThenFoldSet, Max, Greatest
  <2> QED
    BY <1>1, <2>1
<1> HIDE DEF s, n
<1>3. pick \in Picks(I) /\ \A K \in (SUBSET I) \ {{}} : pick[K] = Greatest(K) /\ pick[K] \in K
  <2>1. pick \in Picks(I)
    BY <1>1, GreatestPicks
  <2> QED
    BY <2>1 DEF Picks
<1>4. /\ step \in [I -> [Nat -> Nat]]
      /\ \A k \in I, m \in Nat : step[k][m] = m + list[k].size
  BY <1>1
<1> HIDE DEF I, pick, step
<1>5. PICK f : Folds(f, I, Nat, 0, pick, step)
  BY <1>1, <1>3, <1>4, FoldExists
<1>6. f = body(f)
  <2>1. /\ f \in [SUBSET I -> Nat] /\ f[{}] = 0
        /\ \A K \in (SUBSET I) \ {{}} : f[K] = step[pick[K]][f[K \ {pick[K]}]]
    BY <1>5 DEF Folds
  <2>2. ASSUME NEW K \in SUBSET I
        PROVE  f[K] = IF K = {} THEN 0 ELSE f[K \ {Greatest(K)}] + list[Greatest(K)].size
    <3>1. CASE K = {}
      BY <2>1, <3>1
    <3>2. CASE K # {}
      <4>1. Greatest(K) \in I /\ pick[K] = Greatest(K)
        BY <1>3, <3>2
      <4>2. f[K \ {Greatest(K)}] \in Nat /\ f[K] = step[Greatest(K)][f[K \ {Greatest(K)}]]
        BY <2>1, <3>2, <4>1
      <4> QED
        BY <1>4, <3>2, <4>1, <4>2
    <3> QED
      BY <3>1, <3>2
  <2> QED
    BY <2>1, <2>2
<1>7. s = body(s)
  <2> HIDE DEF body
  <2> QED
    BY <1>6, Zenon DEF s
<1>8. /\ s[{}] = 0
      /\ \A k \in I : s[1 .. k] = s[1 .. k - 1] + list[k].size
  <2>1. /\ body(s)[{}] = 0
        /\ \A K \in (SUBSET I) \ {{}} :
             body(s)[K] = s[K \ {Greatest(K)}] + list[Greatest(K)].size
    OBVIOUS
  <2> HIDE DEF body
  <2>2. /\ s[{}] = 0
        /\ \A K \in (SUBSET I) \ {{}} : s[K] = s[K \ {Greatest(K)}] + list[Greatest(K)].size
    BY <1>7, <2>1, Zenon
  <2>3. ASSUME NEW k \in I PROVE s[1 .. k] = s[1 .. k - 1] + list[k].size
    <3>1. /\ 1 .. k \in (SUBSET I) \ {{}} /\ Greatest(1 .. k) = k
          /\ (1 .. k) \ {k} = 1 .. k - 1
      BY <1>1, GreatestOfPrefix DEF I
    <3> QED
      BY <2>2, <3>1
  <2> QED
    BY <2>2, <2>3
<1>9. /\ h[0] = 0
      /\ \A k \in I : h[k] = h[k - 1] + list[k].size
  <2>1. 1 .. 0 = {} /\ 0 \in 0 .. n
    BY <1>1
  <2>2. \A k \in I : k \in 0 .. n /\ k - 1 \in 0 .. n
    BY <1>1 DEF I
  <2> QED
    BY <1>8, <2>1, <2>2
<1>10. h[n] = s[I]
  BY <1>1 DEF I
<1>11. DOMAIN h = 0 .. n /\ h = [k \in 0 .. n |-> h[k]]
  OBVIOUS
<1> HIDE DEF h
<1>12. \A k \in 0 .. n : h[k] \in Nat
  <2> DEFINE S == {k \in 0 .. n : h[k] \in Nat}
  <2>1. 0 \in S
    BY <1>1, <1>9
  <2>2. ASSUME NEW k \in 0 .. n - 1, k \in S PROVE k + 1 \in S
    <3>1. k + 1 \in I /\ (k + 1) - 1 = k /\ k + 1 \in 0 .. n
      BY <1>1 DEF I
    <3>2. h[k + 1] = h[k] + list[k + 1].size /\ h[k] \in Nat
      BY <1>9, <2>2, <3>1
    <3> QED
      BY <1>1, <3>1, <3>2
  <2> HIDE DEF S
  <2>3. 0 .. n \subseteq S
    BY <1>1, <2>1, <2>2, Induction
  <2> QED
    BY <2>3 DEF S
<1>13. Solves(h, n, Nat, 0, Sizes(list))
  <2>1. h \in [0 .. n -> Nat]
    BY <1>11, <1>12
  <2>2. ASSUME NEW k \in 1 .. n PROVE h[k] = Sizes(list)[k][h[k - 1]]
    <3>1. k - 1 \in 0 .. n
      BY <1>1
    <3>2. h[k - 1] \in Nat /\ Sizes(list)[k][h[k - 1]] = h[k - 1] + list[k].size
      BY <1>12, <3>1 DEF Sizes, n
    <3> QED
      BY <1>9, <3>2 DEF I
  <2> QED
    BY <1>9, <2>1, <2>2 DEF Solves
<1> QED
  BY <1>2, <1>10, <1>13 DEF n

LEMMA TotalAppend ==
  ASSUME NEW list \in Seq(Entry), NEW e \in Entry
  PROVE  Total(list) \in Nat /\ Total(Append(list, e)) = Total(list) + e.size
<1> DEFINE n == Len(list)
           more == Append(list, e)
<1>1. /\ n \in Nat /\ more \in Seq(Entry) /\ Len(more) = n + 1 /\ more[n + 1] = e
      /\ \A k \in 1 .. n : more[k] = list[k] /\ list[k] \in Entry
      /\ e.size \in Nat
  <2>1. e.size \in Nat
    BY DEF Entry
  <2> QED
    BY <2>1, LenProperties, ElementOfSeq, AppendProperties
<1>2. PICK f : Solves(f, n, Nat, 0, Sizes(list)) /\ f[n] = Total(list)
  BY TotalRuns
<1>3. PICK g : Solves(g, n + 1, Nat, 0, Sizes(more)) /\ g[n + 1] = Total(more)
  BY <1>1, TotalRuns
<1> HIDE DEF more, n
<1>4. /\ f \in [0 .. n -> Nat] /\ f[0] = 0
      /\ \A k \in 1 .. n : f[k] = f[k - 1] + list[k].size
  <2>1. /\ f \in [0 .. n -> Nat] /\ f[0] = 0
        /\ \A k \in 1 .. n : f[k] = Sizes(list)[k][f[k - 1]]
    BY <1>2 DEF Solves
  <2>2. \A k \in 1 .. n : f[k - 1] \in Nat
    BY <1>1, <2>1
  <2> QED
    BY <2>1, <2>2 DEF Sizes, n
<1>5. /\ g \in [0 .. n + 1 -> Nat] /\ g[0] = 0
      /\ \A k \in 1 .. n + 1 : g[k] = g[k - 1] + more[k].size
  <2>1. /\ g \in [0 .. n + 1 -> Nat] /\ g[0] = 0
        /\ \A k \in 1 .. n + 1 : g[k] = Sizes(more)[k][g[k - 1]]
    BY <1>3 DEF Solves
  <2>2. \A k \in 1 .. n + 1 : g[k - 1] \in Nat
    BY <1>1, <2>1
  <2> QED
    BY <1>1, <2>1, <2>2 DEF Sizes
<1>6. f[n] = g[n]
  <2> DEFINE S == {k \in 0 .. n : f[k] = g[k]}
  <2>1. 0 \in S
    BY <1>1, <1>4, <1>5
  <2>2. ASSUME NEW k \in 0 .. n - 1, k \in S PROVE k + 1 \in S
    <3>1. /\ k + 1 \in 1 .. n /\ k + 1 \in 1 .. n + 1 /\ (k + 1) - 1 = k
          /\ k + 1 \in 0 .. n
      BY <1>1
    <3>2. /\ f[k + 1] = f[k] + list[k + 1].size /\ g[k + 1] = g[k] + more[k + 1].size
          /\ f[k] = g[k] /\ more[k + 1] = list[k + 1]
      BY <1>1, <1>4, <1>5, <2>2, <3>1
    <3> QED
      BY <3>1, <3>2
  <2> HIDE DEF S
  <2>3. 0 .. n \subseteq S
    BY <1>1, <2>1, <2>2, Induction
  <2>4. n \in S
    BY <1>1, <2>3
  <2> QED
    BY <2>4 DEF S
<1>7. n + 1 \in 1 .. n + 1 /\ (n + 1) - 1 = n /\ n \in 0 .. n
  BY <1>1
<1>8. g[n + 1] = g[n] + e.size /\ f[n] \in Nat
  BY <1>1, <1>4, <1>5, <1>7
<1> QED
  BY <1>2, <1>3, <1>6, <1>8 DEF more

LEMMA TotalNone == Total(<<>>) = 0
<1>1. <<>> \in Seq(Entry) /\ Len(<<>>) = 0
  BY EmptySeq
<1>2. PICK h : Solves(h, 0, Nat, 0, Sizes(<<>>)) /\ h[0] = Total(<<>>)
  BY <1>1, TotalRuns
<1> QED
  BY <1>2 DEF Solves

(* The suspicious ratio, with and without a division.                      *)
LEMMA Ratio ==
  ASSUME NEW a \in Nat, NEW b \in Nat
  PROVE  b >= CeilDiv(a, RatioLimit) <=> b * RatioLimit >= a
<1> DEFINE q == CeilDiv(a, RatioLimit)
           r == RatioLimit
<1>1. r \in Nat /\ r > 0
  BY LimitAssumption
<1>2. /\ q \in Int /\ r * q <= a + r - 1 /\ a + r - 1 < r * (q + 1)
  BY <1>1 DEF CeilDiv
<1> HIDE DEF q, r
<1>3. r * (q + 1) = r * q + r
  BY <1>1, <1>2
<1>4. r * q >= a /\ r * q - r < a /\ r * q \in Int
  BY <1>1, <1>2, <1>3
<1>5. \A m, k \in Int : m >= k => m * r >= k * r
  BY <1>1
<1>6. q * r = r * q /\ (q - 1) * r = r * q - r
  BY <1>1, <1>2
<1> DEFINE br == b * r
           qr == r * q
<1>7. /\ br \in Int /\ qr \in Int /\ qr >= a /\ qr - r < a
      /\ b >= q => br >= qr
      /\ q - 1 >= b => qr - r >= br
  BY <1>1, <1>2, <1>4, <1>5, <1>6
<1> HIDE DEF br, qr
<1>8. b >= q <=> br >= a
  BY <1>1, <1>2, <1>7
<1> QED
  BY <1>8 DEF q, r, br

------------------------------------------------------------------------------
(* Acceptance without an order.                                            *)

(* Acceptable, entry by entry and pair by pair.                            *)
IsFine(e) ==
  /\ IsArchivePathSafe(e.path)
  /\ e.size <= EntryLimit /\ (e.size > 0 => e.packed * RatioLimit >= e.size)
  /\ e.type \in {"none", IF e.directory THEN "directory" ELSE "regular"}
  /\ ~e.directory => Bytes[e.data] = e.size

Compatible(e, d) ==
  /\ EntryIdentity(e.path) # EntryIdentity(d.path)
  /\ e.path \in Parents(d.path) => e.directory

LEMMA AcceptableParts ==
  ASSUME NEW list
  PROVE  Acceptable(list) <=>
           /\ Total(list) <= TotalLimit
           /\ \A i \in DOMAIN list : IsFine(list[i])
           /\ \A i, j \in DOMAIN list : i # j => Compatible(list[i], list[j])
<1> HIDE DEF Total, Parents, EntryIdentity, IsArchivePathSafe
<1>1. ASSUME Acceptable(list), NEW i \in DOMAIN list
      PROVE  IsFine(list[i]) /\ \A j \in DOMAIN list : i # j => Compatible(list[i], list[j])
  BY <1>1 DEF Acceptable, IsFine, Compatible
<1>2. ASSUME Total(list) <= TotalLimit, \A i \in DOMAIN list : IsFine(list[i]),
             \A i, j \in DOMAIN list : i # j => Compatible(list[i], list[j])
      PROVE  Acceptable(list)
  BY <1>2 DEF Acceptable, IsFine, Compatible
<1>3. Acceptable(list) => Total(list) <= TotalLimit
  BY DEF Acceptable
<1> QED
  BY <1>1, <1>2, <1>3

LEMMA AcceptableAppend ==
  ASSUME NEW list \in Seq(Entry), NEW e \in Entry, Acceptable(list)
  PROVE  Acceptable(Append(list, e)) <=>
           /\ Total(list) + e.size <= TotalLimit /\ IsFine(e)
           /\ \A i \in DOMAIN list : Compatible(list[i], e) /\ Compatible(e, list[i])
<1> DEFINE n == Len(list)
           more == Append(list, e)
<1>1. /\ n \in Nat /\ DOMAIN list = 1 .. n /\ DOMAIN more = 1 .. n + 1
      /\ more[n + 1] = e /\ \A k \in 1 .. n : more[k] = list[k]
  <2>1. more \in Seq(Entry) /\ Len(more) = n + 1
    BY AppendProperties
  <2> QED
    BY <2>1, LenProperties, AppendProperties
<1>2. Total(more) = Total(list) + e.size
  BY TotalAppend
<1>3. /\ Total(list) <= TotalLimit
      /\ \A i \in DOMAIN list : IsFine(list[i])
      /\ \A i, j \in DOMAIN list : i # j => Compatible(list[i], list[j])
  BY AcceptableParts
<1>4. Acceptable(more) <=>
           /\ Total(more) <= TotalLimit
           /\ \A i \in DOMAIN more : IsFine(more[i])
           /\ \A i, j \in DOMAIN more : i # j => Compatible(more[i], more[j])
  BY AcceptableParts
<1> HIDE DEF more, n
<1>5. DOMAIN more = DOMAIN list \cup {n + 1} /\ n + 1 \notin DOMAIN list
  BY <1>1
<1>6. (\A i \in DOMAIN more : IsFine(more[i])) <=> IsFine(e)
  BY <1>1, <1>3, <1>5
<1>7. (\A i, j \in DOMAIN more : i # j => Compatible(more[i], more[j])) <=>
      \A i \in DOMAIN list : Compatible(list[i], e) /\ Compatible(e, list[i])
  <2>1. ASSUME \A i, j \in DOMAIN more : i # j => Compatible(more[i], more[j]),
               NEW i \in DOMAIN list
        PROVE  Compatible(list[i], e) /\ Compatible(e, list[i])
    BY <1>1, <1>5, <2>1
  <2>2. ASSUME \A i \in DOMAIN list : Compatible(list[i], e) /\ Compatible(e, list[i]),
               NEW i \in DOMAIN more, NEW j \in DOMAIN more, i # j
        PROVE  Compatible(more[i], more[j])
    BY <1>1, <1>3, <1>5, <2>2
  <2> QED
    BY <2>1, <2>2
<1> QED
  BY <1>2, <1>4, <1>6, <1>7 DEF more

Paths(list) == {list[i].path : i \in DOMAIN list}
AllParents(list) == UNION {Parents(list[i].path) : i \in DOMAIN list}
DirectoryPaths(list) == {list[i].path : i \in {j \in DOMAIN list : list[j].directory}}

(* On a case-sensitive volume the extraction is a function of the entries, *)
(* whatever their order.                                                   *)
Accounted(y, list) ==
  /\ y \in Extraction /\ ~y.folding /\ list \in Seq(Entry)
  /\ y.written <= y.declared /\ y.declared = Total(list)
  /\ y.seen = {EntryIdentity(p) : p \in Paths(list)}
  /\ y.directories = AllParents(list) \cup DirectoryPaths(list)
  /\ DOMAIN y.tree = AllParents(list) \cup Paths(list)
  /\ \A p \in y.directories : y.tree[p] = Folder
  /\ \A i \in DOMAIN list : ~list[i].directory => y.tree[list[i].path] # Folder
  /\ Acceptable(list)

LEMMA AcceptedAsAcceptable ==
  ASSUME NEW y, NEW list, Accounted(y, list), NEW e \in Entry
  PROVE  Accepts(y, e) <=> Acceptable(Append(list, e))
<1> DEFINE a == Admit(y, e)
<1>1. /\ y \in Extraction /\ y.folding = FALSE /\ list \in Seq(Entry)
      /\ y.written <= y.declared /\ y.declared = Total(list)
      /\ y.seen = {EntryIdentity(p) : p \in Paths(list)}
      /\ y.directories = AllParents(list) \cup DirectoryPaths(list)
      /\ DOMAIN y.tree = AllParents(list) \cup Paths(list)
      /\ \A p \in y.directories : y.tree[p] = Folder
      /\ \A i \in DOMAIN list : ~list[i].directory => y.tree[list[i].path] # Folder
      /\ Acceptable(list)
  BY ExtractionType DEF Accounted
<1>2. /\ e.path \in Path /\ e.directory \in BOOLEAN /\ e.data \in Data
      /\ e.size \in Nat /\ e.packed \in Nat /\ Bytes[e.data] \in Nat
      /\ e.type \in {"none", "regular", "directory", "special"}
  BY DataAssumption DEF Entry
<1>3. y.declared \in Nat /\ y.written \in Nat /\ IsExtraction(y)
  BY <1>1, ExtractionType
<1>4. /\ a.tree = y.tree /\ a.folding = FALSE /\ a.directories = y.directories
      /\ a.written = y.written
  BY <1>1, <1>3, AdmitEffect
<1>5. \A p : Key(a, p) = p /\ (IsFileExists(a, p) <=> p \in DOMAIN y.tree)
             /\ (IsFolder(a, p) <=> p \in DOMAIN y.tree /\ y.tree[p] = Folder)
  BY <1>4 DEF Key, IsFileExists, IsFolder
<1>6. DOMAIN y.tree = y.directories \cup Paths(list)
  BY <1>1 DEF DirectoryPaths, Paths
<1> DEFINE unseen == \A i \in DOMAIN list : EntryIdentity(e.path) # EntryIdentity(list[i].path)
           above == \A i \in DOMAIN list :
                      list[i].path \in Parents(e.path) => list[i].directory
           below == \A i \in DOMAIN list : e.path \in Parents(list[i].path) => e.directory
           within == y.declared + e.size <= TotalLimit
           ratio == e.size > 0 => e.packed * RatioLimit >= e.size
<1>7. Acceptable(Append(list, e)) <=> within /\ IsFine(e) /\ unseen /\ above /\ below
  <2>1. Acceptable(Append(list, e)) <=>
           /\ Total(list) + e.size <= TotalLimit /\ IsFine(e)
           /\ \A i \in DOMAIN list : Compatible(list[i], e) /\ Compatible(e, list[i])
    BY <1>1, AcceptableAppend
  <2>2. (\A i \in DOMAIN list : Compatible(list[i], e) /\ Compatible(e, list[i]))
          <=> unseen /\ above /\ below
    BY DEF Compatible
  <2> QED
    BY <1>1, <2>1, <2>2
<1>8. EntryIdentity(e.path) \notin y.seen <=> unseen
  BY <1>1 DEF Paths
<1>9. WithinLimits(y, e) <=> e.size <= EntryLimit /\ within /\ ratio
  <2>1. TotalLimit \in Nat
    BY LimitAssumption
  <2>2. e.size <= TotalLimit - y.declared <=> within
    BY <1>2, <1>3, <2>1
  <2>3. e.packed >= CeilDiv(e.size, RatioLimit) <=> e.packed * RatioLimit >= e.size
    BY <1>2, Ratio
  <2> QED
    BY <2>2, <2>3 DEF WithinLimits
<1>10. unseen => e.path \notin Paths(list)
  BY DEF Paths
<1>11. CanCreate(a, Parents(e.path)) <=> above
  <2>1. ASSUME CanCreate(a, Parents(e.path)), NEW i \in DOMAIN list,
               list[i].path \in Parents(e.path), ~list[i].directory
        PROVE  FALSE
    <3>1. list[i].path \in DOMAIN y.tree
      BY <1>6 DEF Paths
    <3> QED
      BY <1>1, <1>5, <2>1, <3>1 DEF CanCreate
  <2>2. ASSUME above, NEW p \in Parents(e.path), p \in DOMAIN y.tree
        PROVE  y.tree[p] = Folder
    <3>1. CASE p \in y.directories
      BY <1>1, <3>1
    <3>2. CASE p \in Paths(list)
      <4>1. PICK i \in DOMAIN list : p = list[i].path
        BY <3>2 DEF Paths
      <4>2. p \in DirectoryPaths(list)
        BY <2>2, <4>1 DEF DirectoryPaths
      <4> QED
        BY <1>1, <4>2
    <3> QED
      BY <1>6, <2>2, <3>1, <3>2
  <2>3. above => CanCreate(a, Parents(e.path))
    BY <1>5, <2>2 DEF CanCreate
  <2> QED
    BY <2>1, <2>3
<1>12. unseen => (e.path \in DOMAIN y.tree <=> e.path \in AllParents(list))
  BY <1>1, <1>10
<1>13. below <=> (e.path \in AllParents(list) => e.directory)
  BY DEF AllParents
<1>14. Accepts(y, e) <=>
         /\ IsArchivePathSafe(e.path) /\ unseen /\ WithinLimits(y, e) /\ e.type # "special"
         /\ IF e.directory THEN AcceptsDirectory(a, e) ELSE AcceptsFile(a, e)
  BY <1>8 DEF Accepts, Admitted
<1> HIDE DEF a, unseen, above, below, within, ratio
<1>15. ASSUME unseen, e.directory
       PROVE  AcceptsDirectory(a, e) <=> e.type # "regular" /\ above
  <2>1. e.path \in DOMAIN y.tree => e.path \in y.directories /\ y.tree[e.path] = Folder
    BY <1>1, <1>12, <1>15
  <2>2. CanCreate(a, Parents(e.path) \cup {e.path}) <=> CanCreate(a, Parents(e.path))
    BY <1>5, <2>1 DEF CanCreate
  <2> QED
    BY <1>4, <1>5, <1>11, <2>1, <2>2 DEF AcceptsDirectory
<1>16. ASSUME unseen, ~e.directory, within
       PROVE  AcceptsFile(a, e) <=>
                e.type # "directory" /\ above /\ below /\ Bytes[e.data] = e.size
  <2>1. ~IsFileExists(a, e.path) <=> below
    BY <1>5, <1>12, <1>13, <1>16
  <2>2. Bytes[e.data] = e.size => a.written + Bytes[e.data] <= TotalLimit
    <3>1. TotalLimit \in Nat
      BY LimitAssumption
    <3> QED
      BY <1>1, <1>2, <1>3, <1>4, <1>16, <3>1 DEF within
  <2> QED
    BY <1>11, <2>1, <2>2 DEF AcceptsFile
<1>17. IsFine(e) <=> /\ IsArchivePathSafe(e.path) /\ e.size <= EntryLimit /\ ratio
                     /\ e.type \in {"none", IF e.directory THEN "directory" ELSE "regular"}
                     /\ ~e.directory => Bytes[e.data] = e.size
  BY DEF IsFine, ratio
<1>18. CASE e.directory
  <2>1. e.type \in {"none", "directory"} <=> e.type # "special" /\ e.type # "regular"
    BY <1>2
  <2>2. below
    BY <1>18 DEF below
  <2> QED
    BY <1>7, <1>9, <1>14, <1>15, <1>17, <1>18, <2>1, <2>2
<1>19. CASE ~e.directory
  <2>1. e.type \in {"none", "regular"} <=> e.type # "special" /\ e.type # "directory"
    BY <1>2
  <2> QED
    BY <1>7, <1>9, <1>14, <1>16, <1>17, <1>19, <2>1
<1> QED
  BY <1>18, <1>19

LEMMA AppendedPaths ==
  ASSUME NEW list \in Seq(Entry), NEW e \in Entry
  PROVE  /\ Paths(Append(list, e)) = Paths(list) \cup {e.path}
         /\ AllParents(Append(list, e)) = AllParents(list) \cup Parents(e.path)
         /\ DirectoryPaths(Append(list, e)) =
              DirectoryPaths(list) \cup (IF e.directory THEN {e.path} ELSE {})
<1> DEFINE n == Len(list)
           more == Append(list, e)
<1>1. /\ n \in Nat /\ DOMAIN list = 1 .. n /\ DOMAIN more = 1 .. n + 1
      /\ more[n + 1] = e /\ \A k \in 1 .. n : more[k] = list[k]
  <2>1. more \in Seq(Entry) /\ Len(more) = n + 1
    BY AppendProperties
  <2> QED
    BY <2>1, LenProperties, AppendProperties
<1>2. DOMAIN more = DOMAIN list \cup {n + 1} /\ \A k \in DOMAIN list : more[k] = list[k]
  BY <1>1
<1>3. more[n + 1] = e
  BY <1>1
<1> HIDE DEF more, n
<1>4. Paths(more) = Paths(list) \cup {e.path}
  BY <1>2, <1>3 DEF Paths
<1>5. AllParents(more) = AllParents(list) \cup Parents(e.path)
  BY <1>2, <1>3 DEF AllParents
<1>6. DirectoryPaths(more) = DirectoryPaths(list) \cup (IF e.directory THEN {e.path} ELSE {})
  BY <1>2, <1>3 DEF DirectoryPaths
<1> QED
  BY <1>4, <1>5, <1>6 DEF more

LEMMA AcceptedIsAccounted ==
  ASSUME NEW y, NEW list, Accounted(y, list), NEW e \in Entry, Accepts(y, e)
  PROVE  Accounted(Extracted(y, e), Append(list, e))
<1> DEFINE z == Extracted(y, e)
           more == Append(list, e)
           made == Parents(e.path) \cup (IF e.directory THEN {e.path} ELSE {})
<1>1. /\ y \in Extraction /\ y.folding = FALSE /\ list \in Seq(Entry)
      /\ y.written <= y.declared /\ y.declared = Total(list)
      /\ y.seen = {EntryIdentity(p) : p \in Paths(list)}
      /\ y.directories = AllParents(list) \cup DirectoryPaths(list)
      /\ DOMAIN y.tree = AllParents(list) \cup Paths(list)
      /\ \A p \in y.directories : y.tree[p] = Folder
      /\ \A i \in DOMAIN list : ~list[i].directory => y.tree[list[i].path] # Folder
  BY ExtractionType DEF Accounted
<1>2. /\ e.path \in Path /\ e.directory \in BOOLEAN /\ e.data \in Data /\ e.data # Folder
      /\ e.size \in Nat /\ Bytes[e.data] \in Nat /\ e.path \notin Parents(e.path)
  BY DataAssumption, PathType DEF Entry
<1>3. IsExtraction(y) /\ y.declared \in Nat /\ y.written \in Nat
  BY <1>1, ExtractionType
<1>4. more \in Seq(Entry) /\ Acceptable(more)
  BY <1>1, AppendProperties, AcceptedAsAcceptable
<1>5. /\ z \in Extraction /\ z.folding = FALSE
      /\ z.seen = y.seen \cup {EntryIdentity(e.path)}
      /\ z.declared = y.declared + e.size
      /\ z.written = y.written + (IF e.directory THEN 0 ELSE Bytes[e.data])
      /\ z.directories = y.directories \cup made
  BY <1>1, ExtractedFields
<1>6. /\ DOMAIN z.tree = DOMAIN y.tree \cup Parents(e.path) \cup {e.path}
      /\ \A p \in Parents(e.path) \cup {e.path} : p \notin DOMAIN y.tree =>
           z.tree[p] = IF ~e.directory /\ p = e.path THEN e.data ELSE Folder
  <2>1. \A p : Key(y, p) = p
    BY <1>1 DEF Key
  <2>2. {Key(y, p) : p \in made \cup {e.path}} = Parents(e.path) \cup {e.path}
    BY <2>1
  <2> QED
    BY <1>1, <2>1, <2>2, ExtractedTree
<1>7. /\ \A p \in DOMAIN y.tree : z.tree[p] = y.tree[p]
      /\ e.directory => z.tree[e.path] = Folder
      /\ ~e.directory => z.tree[e.path] = e.data
  <2>1. /\ OnDisk(z, e)
        /\ \A p \in DOMAIN y.tree : p \in DOMAIN z.tree /\ z.tree[p] = y.tree[p]
    BY <1>3, AcceptedOnDisk
  <2>2. Key(z, e.path) = e.path
    BY <1>5 DEF Key
  <2> QED
    BY <2>1, <2>2 DEF OnDisk, IsFolder, IsFileExists
<1>8. /\ CanCreate(Admit(y, e), Parents(e.path))
      /\ ~e.directory => e.path \notin DOMAIN y.tree /\ Bytes[e.data] = e.size
  <2>1. Admit(y, e).tree = y.tree /\ Admit(y, e).folding = FALSE
    BY <1>1, <1>3, AdmitEffect
  <2> QED
    BY <1>2, <2>1 DEF Accepts, AcceptsDirectory, AcceptsFile, CanCreate, IsFileExists, Key
<1>9. \A p \in Parents(e.path) : p \in DOMAIN y.tree => y.tree[p] = Folder
  <2>1. Admit(y, e).tree = y.tree /\ Admit(y, e).folding = FALSE
    BY <1>1, <1>3, AdmitEffect
  <2> QED
    BY <1>8, <2>1 DEF CanCreate, IsFolder, IsFileExists, Key
<1>10. /\ Paths(more) = Paths(list) \cup {e.path}
       /\ AllParents(more) = AllParents(list) \cup Parents(e.path)
       /\ DirectoryPaths(more) = DirectoryPaths(list) \cup (IF e.directory THEN {e.path} ELSE {})
  BY <1>1, AppendedPaths
<1>11. Total(more) = Total(list) + e.size
  BY <1>1, TotalAppend
<1>12. \A i \in DOMAIN more : ~more[i].directory => z.tree[more[i].path] # Folder
  <2> SUFFICES ASSUME NEW i \in DOMAIN more, ~more[i].directory
               PROVE  z.tree[more[i].path] # Folder
    OBVIOUS
  <2>1. CASE i \in DOMAIN list /\ more[i] = list[i]
    BY <1>1, <1>7, <2>1 DEF Paths
  <2>2. CASE more[i] = e
    BY <1>2, <1>7, <2>2
  <2>3. (i \in DOMAIN list /\ more[i] = list[i]) \/ more[i] = e
    <3>1. /\ DOMAIN more = 1 .. Len(list) + 1 /\ DOMAIN list = 1 .. Len(list)
          /\ Len(list) \in Nat
          /\ more[Len(list) + 1] = e /\ \A k \in 1 .. Len(list) : more[k] = list[k]
      <4>1. more \in Seq(Entry) /\ Len(more) = Len(list) + 1
        BY <1>1, AppendProperties
      <4> QED
        BY <1>1, <4>1, LenProperties, AppendProperties
    <3> HIDE DEF more
    <3> QED
      BY <3>1
  <2> QED
    BY <2>1, <2>2, <2>3
<1> HIDE DEF z, more
<1>13. \A p \in z.directories : z.tree[p] = Folder
  <2> SUFFICES ASSUME NEW p \in z.directories PROVE z.tree[p] = Folder
    OBVIOUS
  <2>1. CASE p \in DOMAIN y.tree /\ (p \in y.directories \/ p \in Parents(e.path))
    BY <1>1, <1>7, <1>9, <2>1
  <2>2. CASE p \in Parents(e.path) /\ p \notin DOMAIN y.tree
    BY <1>2, <1>6, <2>2
  <2>3. CASE e.directory /\ p = e.path
    BY <1>7, <2>3
  <2>4. y.directories \subseteq DOMAIN y.tree
    BY <1>1 DEF DirectoryPaths, Paths
  <2> QED
    BY <1>5, <2>1, <2>2, <2>3, <2>4
<1>14. z.written <= z.declared /\ z.declared = Total(more)
  BY <1>1, <1>2, <1>3, <1>5, <1>8, <1>11
<1>15. z.seen = {EntryIdentity(p) : p \in Paths(more)}
  BY <1>1, <1>5, <1>10
<1>16. /\ z.directories = AllParents(more) \cup DirectoryPaths(more)
       /\ DOMAIN z.tree = AllParents(more) \cup Paths(more)
  BY <1>1, <1>5, <1>6, <1>10
<1>17. Accounted(z, more)
  BY <1>4, <1>5, <1>12, <1>13, <1>14, <1>15, <1>16 DEF Accounted
<1> QED
  BY <1>17 DEF z, more

LEMMA NothingIsAccounted == Accounted(NothingExtracted(FALSE), <<>>)
<1> DEFINE y == NothingExtracted(FALSE)
<1>1. /\ y.folding = FALSE /\ y.tree = <<>>
      /\ y.seen = {} /\ y.directories = {} /\ y.declared = 0 /\ y.written = 0
  BY DEF NothingExtracted
<1>2. y \in Extraction
  BY NothingIsMeasured DEF IsMeasured
<1>3. <<>> \in Seq(Entry) /\ DOMAIN <<>> = {} /\ DOMAIN y.tree = {}
  <2>1. <<>> \in Seq(Entry)
    BY EmptySeq
  <2>2. DOMAIN <<>> = {}
    OBVIOUS
  <2> QED
    BY <1>1, <2>1, <2>2
<1>4. Total(<<>>) = 0 /\ TotalLimit \in Nat
  BY TotalNone, LimitAssumption
<1>5. Paths(<<>>) = {} /\ AllParents(<<>>) = {} /\ DirectoryPaths(<<>>) = {}
  BY <1>3 DEF Paths, AllParents, DirectoryPaths
<1>6. Acceptable(<<>>)
  <2>1. Total(<<>>) <= TotalLimit
    BY <1>4
  <2> HIDE DEF y
  <2>2. \A i \in DOMAIN <<>> : IsFine((<<>>)[i])
    BY <1>3
  <2>3. \A i, j \in DOMAIN <<>> : i # j => Compatible((<<>>)[i], (<<>>)[j])
    BY <1>3
  <2> QED
    BY <2>1, <2>2, <2>3, AcceptableParts
<1> HIDE DEF y
<1>7. Accounted(y, <<>>)
  BY <1>1, <1>2, <1>3, <1>4, <1>5, <1>6 DEF Accounted
<1> QED
  BY <1>7 DEF y

(* What is always so of the extraction in progress.                        *)
InProgress ==
  /\ IsMeasured(x)
  /\ (op = "extract" /\ pc = "fill" /\ ~x.folding) => Accounted(x, entries)
  /\ pc # "fill" => entries = <<>>

LEMMA InitInProgress == ExtractionInit => InProgress
<1> SUFFICES ASSUME ExtractionInit PROVE InProgress
  OBVIOUS
<1>1. x = NothingExtracted(FALSE) /\ entries = <<>> /\ pc = "done"
  BY DEF ExtractionInit, Init
<1> QED
  BY <1>1, NothingIsMeasured DEF InProgress

LEMMA NextInProgress == InProgress /\ [ExtractionNext]_<<vars, locals>> => InProgress'
<1> SUFFICES ASSUME InProgress, [ExtractionNext]_<<vars, locals>> PROVE InProgress'
  OBVIOUS
<1> USE DEF InProgress
<1>1. CASE StartFilling
  <2>1. PICK folding \in BOOLEAN : x' = NothingExtracted(folding)
    BY <1>1 DEF StartFilling
  <2>2. IsMeasured(x')
    BY <2>1, NothingIsMeasured
  <2>3. entries' = <<>>
    BY <1>1 DEF StartFilling, CreateStaging
  <2>4. x'.folding = folding
    BY <2>1 DEF NothingExtracted
  <2>5. ~x'.folding => Accounted(x', entries')
    BY <2>1, <2>3, <2>4, NothingIsAccounted
  <2> QED
    BY <2>2, <2>3, <2>5
<1>2. CASE ExtractNext
  <2>1. PICK e \in Listed :
          Accepts(x, e) /\ x' = Extracted(x, e) /\ entries' = Append(entries, e)
    BY <1>2 DEF ExtractNext
  <2>2. op = "extract" /\ pc = "fill" /\ op' = op /\ pc' = pc
    BY <1>2 DEF ExtractNext, vars
  <2>3. e \in Entry
    BY ListedType
  <2>4. IsMeasured(x')
    BY <2>1, <2>3, AcceptedIsMeasured
  <2>5. x'.folding = x.folding
    BY <2>1, <2>3, ExtractedFields DEF IsMeasured
  <2>6. ~x.folding => Accounted(x', entries')
    BY <2>1, <2>2, <2>3, AcceptedIsAccounted
  <2> QED
    BY <2>2, <2>4, <2>5, <2>6
<1>3. CASE AddNext
  BY <1>3 DEF AddNext, vars
<1>4. CASE FreshLocals /\ pc' # "fill"
  BY <1>4, NothingIsMeasured DEF FreshLocals
<1>5. CASE UNCHANGED locals /\ pc # "fill" /\ pc' # "fill"
  BY <1>5 DEF locals
<1>6. CASE UNCHANGED <<vars, locals>>
  BY <1>6 DEF locals, vars
<1> QED
  BY <1>1, <1>2, <1>3, <1>4, <1>5, <1>6 DEF ExtractionNext, ExtractionStatement, FinishFilling,
     Fill, Probe, CreateContainer, SetAside, Publish, Restore, DropContainer, Discard, Commit,
     DropBackup, Begin, Crash

(* On a case-sensitive volume the order of an archive's entries does not   *)
(* decide whether Extract accepts it, for every archive.                   *)
THEOREM AcceptsInAnyOrder == ExtractionSpec => []AcceptanceIsOrderFree
<1>1. InProgress => AcceptanceIsOrderFree
  BY ListedType, AcceptedAsAcceptable DEF InProgress, AcceptanceIsOrderFree
<1> QED
  BY InitInProgress, NextInProgress, <1>1, PTL DEF ExtractionSpec

(* What ExtractEntries has written is what it has counted, and within the  *)
(* limits, for every archive, every limit and every volume.                *)
THEOREM ExtractsWithinLimits == ExtractionSpec => []LimitsHold
<1>1. InProgress /\ CountersHold => LimitsHold
  BY DEF InProgress, IsMeasured, LimitsHold
<1> QED
  BY InitInProgress, NextInProgress, CountersStay, <1>1, PTL DEF ExtractionSpec

------------------------------------------------------------------------------
(* Extraction as a recursion over the entries, and a tree in an order.     *)

(* The callback of ExtractEntries, on a result with its extraction.        *)
Results == [ok : BOOLEAN, x : Extraction]
Callback(r, e) ==
  IF r.ok /\ Accepts(r.x, Reported(e)) THEN [ok |-> TRUE, x |-> Extracted(r.x, Reported(e))]
  ELSE [r EXCEPT !.ok = FALSE]
Begun(folding, list) == [ok |-> Len(list) <= CountLimit, x |-> NothingExtracted(folding)]

LEMMA CallbackType ==
  ASSUME NEW r \in Results, NEW e \in Entry
  PROVE  Callback(r, e) \in Results
<1>1. r.ok \in BOOLEAN /\ r.x \in Extraction
  BY DEF Results
<1>2. Extracted(r.x, Reported(e)) \in Extraction
  BY <1>1, ReportedType, ExtractedFields
<1>3. [ok |-> TRUE, x |-> Extracted(r.x, Reported(e))] \in Results
  BY <1>2 DEF Results
<1>4. [r EXCEPT !.ok = FALSE] \in Results
  BY DEF Results
<1> QED
  BY <1>3, <1>4 DEF Callback

(* ExtractEntries calls it for one entry after another.                    *)
LEMMA ExtractRuns ==
  ASSUME NEW folding \in BOOLEAN, NEW list \in Seq(Entry)
  PROVE  \E h : /\ h[0] = Begun(folding, list)
                /\ \A k \in 1 .. Len(list) : h[k] = Callback(h[k - 1], list[k])
                /\ h[Len(list)] = ExtractEntries(folding, list)
<1> DEFINE n == Len(list)
           I == 1 .. n
           b == Begun(folding, list)
           pick == [K \in (SUBSET I) \ {{}} |-> Greatest(K)]
           step == [k \in I |-> [r \in Results |-> Callback(r, list[k])]]
           body(g) == [K \in SUBSET I |-> IF K = {} THEN b
                         ELSE Callback(g[K \ {Greatest(K)}], list[Greatest(K)])]
           s == CHOOSE g : g = body(g)
           h == [k \in 0 .. n |-> s[1 .. k]]
<1>1. n \in Nat /\ DOMAIN list = I /\ IsFiniteSet(I) /\ \A k \in I : list[k] \in Entry
  BY LenProperties, ElementOfSeq, FS_Interval
<1>2. ExtractEntries(folding, list) = s[I]
  <2>1. ExtractEntries(folding, list) =
          (CHOOSE g : g = [K \in SUBSET DOMAIN list |->
             IF K = {} THEN b ELSE Callback(g[K \ {Greatest(K)}], list[Greatest(K)])])
          [DOMAIN list]
    BY DEF ExtractEntries, FoldLeft, MapThenFoldSet, Max, Greatest, Callback, Begun
  <2> QED
    BY <1>1, <2>1
<1> HIDE DEF s, n, b
<1>3. pick \in Picks(I) /\ \A K \in (SUBSET I) \ {{}} : pick[K] = Greatest(K) /\ pick[K] \in K
  <2>1. pick \in Picks(I)
    BY <1>1, GreatestPicks
  <2> QED
    BY <2>1 DEF Picks
<1>4. /\ step \in [I -> [Results -> Results]] /\ b \in Results
      /\ \A k \in I, r \in Results : step[k][r] = Callback(r, list[k])
  <2>1. NothingExtracted(folding) \in Extraction
    BY NothingIsMeasured DEF IsMeasured
  <2>2. b \in Results
    BY <1>1, <2>1, LimitAssumption DEF Results, b, Begun, n
  <2> QED
    BY <1>1, <2>2, CallbackType
<1> HIDE DEF I, pick, step
<1>5. PICK f : Folds(f, I, Results, b, pick, step)
  BY <1>1, <1>3, <1>4, FoldExists
<1>6. f = body(f)
  <2>1. /\ f \in [SUBSET I -> Results] /\ f[{}] = b
        /\ \A K \in (SUBSET I) \ {{}} : f[K] = step[pick[K]][f[K \ {pick[K]}]]
    BY <1>5 DEF Folds
  <2>2. ASSUME NEW K \in SUBSET I
        PROVE  f[K] = IF K = {} THEN b
                      ELSE Callback(f[K \ {Greatest(K)}], list[Greatest(K)])
    <3>1. CASE K = {}
      BY <2>1, <3>1
    <3>2. CASE K # {}
      <4>1. Greatest(K) \in I /\ pick[K] = Greatest(K)
        BY <1>3, <3>2
      <4>2. f[K \ {Greatest(K)}] \in Results /\ f[K] = step[Greatest(K)][f[K \ {Greatest(K)}]]
        BY <2>1, <3>2, <4>1
      <4> QED
        BY <1>4, <3>2, <4>1, <4>2
    <3> QED
      BY <3>1, <3>2
  <2> QED
    BY <2>1, <2>2
<1>7. s = body(s)
  <2> HIDE DEF body
  <2> QED
    BY <1>6, Zenon DEF s
<1>8. /\ s[{}] = b
      /\ \A k \in I : s[1 .. k] = Callback(s[1 .. k - 1], list[k])
  <2>1. /\ body(s)[{}] = b
        /\ \A K \in (SUBSET I) \ {{}} :
             body(s)[K] = Callback(s[K \ {Greatest(K)}], list[Greatest(K)])
    OBVIOUS
  <2> HIDE DEF body
  <2>2. /\ s[{}] = b
        /\ \A K \in (SUBSET I) \ {{}} : s[K] = Callback(s[K \ {Greatest(K)}], list[Greatest(K)])
    BY <1>7, <2>1, Zenon
  <2>3. ASSUME NEW k \in I PROVE s[1 .. k] = Callback(s[1 .. k - 1], list[k])
    <3>1. /\ 1 .. k \in (SUBSET I) \ {{}} /\ Greatest(1 .. k) = k
          /\ (1 .. k) \ {k} = 1 .. k - 1
      BY <1>1, GreatestOfPrefix DEF I
    <3> QED
      BY <2>2, <3>1
  <2> QED
    BY <2>2, <2>3
<1>9. h[0] = b /\ \A k \in I : h[k] = Callback(h[k - 1], list[k])
  <2>1. 1 .. 0 = {} /\ 0 \in 0 .. n
    BY <1>1
  <2>2. \A k \in I : k \in 0 .. n /\ k - 1 \in 0 .. n
    BY <1>1 DEF I
  <2> QED
    BY <1>8, <2>1, <2>2
<1>10. h[n] = s[I]
  BY <1>1 DEF I
<1> HIDE DEF h
<1> QED
  BY <1>2, <1>9, <1>10 DEF n, I, b

(* A tree in an order in which nothing comes before what it is in, and the *)
(* entries made for it.                                                    *)
Enumerates(nodes, list, tree, S) ==
  /\ nodes \in Seq(S) /\ list \in Seq(Entry) /\ Len(list) = Len(nodes)
  /\ \A i \in 1 .. Len(nodes) : list[i] = EntryFor(tree, nodes[i])
  /\ \A i \in 1 .. Len(nodes) : \A q \in Parents(nodes[i]) : \E j \in 1 .. i - 1 : nodes[j] = q
  /\ \A p \in S : \E i \in 1 .. Len(nodes) : nodes[i] = p
  /\ \A i, j \in 1 .. Len(nodes) : nodes[i] = nodes[j] => i = j

LEMMA EntryForType ==
  ASSUME NEW tree, IsTree(tree), NEW p \in DOMAIN tree
  PROVE  EntryFor(tree, p) \in Entry
<1>1. p \in Path /\ tree[p] \in Data \cup {Folder} /\ Slashed(p) \in Path
  BY PathType DEF IsTree
<1>2. DataAt(tree, p) \in Data
  BY <1>1, DataAssumption DEF DataAt
<1>3. \A d \in Data : Bytes[d] \in Nat /\ Deflated[d] \in Nat
  BY DataAssumption
<1>4. /\ (IF tree[p] = Folder THEN 0 ELSE Bytes[tree[p]]) \in Nat
      /\ (IF tree[p] = Folder THEN 0 ELSE Deflated[tree[p]]) \in Nat
  BY <1>1, <1>3
<1> QED
  BY <1>1, <1>2, <1>4 DEF EntryFor, Entry

LEMMA EnumeratesMore ==
  ASSUME NEW tree, IsTree(tree), NEW S \in SUBSET DOMAIN tree, NEW nodes, NEW list,
         Enumerates(nodes, list, tree, S), NEW p \in Pending(tree, S)
  PROVE  Enumerates(Append(nodes, p), Append(list, EntryFor(tree, p)), tree, S \cup {p})
<1> DEFINE n == Len(nodes)
           more == Append(nodes, p)
           longer == Append(list, EntryFor(tree, p))
           T == S \cup {p}
<1>1. p \in DOMAIN tree /\ p \notin S /\ Parents(p) \subseteq S
  BY DEF Pending
<1>2. /\ nodes \in Seq(S) /\ list \in Seq(Entry) /\ Len(list) = n
      /\ \A i \in 1 .. n : list[i] = EntryFor(tree, nodes[i])
      /\ \A i \in 1 .. n : \A q \in Parents(nodes[i]) : \E j \in 1 .. i - 1 : nodes[j] = q
      /\ \A q \in S : \E i \in 1 .. n : nodes[i] = q
      /\ \A i, j \in 1 .. n : nodes[i] = nodes[j] => i = j
  BY DEF Enumerates
<1>3. n \in Nat /\ \A i \in 1 .. n : nodes[i] \in S
  BY <1>2, LenProperties, ElementOfSeq
<1>4. /\ more \in Seq(T) /\ Len(more) = n + 1 /\ more[n + 1] = p
      /\ \A i \in 1 .. n : more[i] = nodes[i]
  <2>1. nodes \in Seq(T)
    BY <1>2, <1>3, SeqDef, LenProperties
  <2> QED
    BY <2>1, AppendProperties
<1>5. /\ longer \in Seq(Entry) /\ Len(longer) = n + 1
      /\ longer[n + 1] = EntryFor(tree, p) /\ \A i \in 1 .. n : longer[i] = list[i]
  <2>1. EntryFor(tree, p) \in Entry
    BY <1>1, EntryForType
  <2> QED
    BY <1>2, <2>1, AppendProperties
<1> HIDE DEF more, longer, n
<1>6. 1 .. n + 1 = (1 .. n) \cup {n + 1} /\ n + 1 \notin 1 .. n
  BY <1>3
<1>7. \A i \in 1 .. n + 1 : longer[i] = EntryFor(tree, more[i])
  BY <1>2, <1>4, <1>5, <1>6
<1>8. ASSUME NEW i \in 1 .. n + 1, NEW q \in Parents(more[i])
      PROVE  \E j \in 1 .. i - 1 : more[j] = q
  <2>1. CASE i = n + 1
    <3>1. PICK j \in 1 .. n : nodes[j] = q
      BY <1>1, <1>2, <1>4, <1>8, <2>1
    <3>2. j \in 1 .. i - 1 /\ more[j] = q
      BY <1>3, <1>4, <2>1, <3>1
    <3> QED
      BY <3>2
  <2>2. CASE i \in 1 .. n
    <3>1. PICK j \in 1 .. i - 1 : nodes[j] = q
      BY <1>2, <1>4, <1>8, <2>2
    <3>2. more[j] = q
      BY <1>3, <1>4, <2>2, <3>1
    <3> QED
      BY <3>2
  <2> QED
    BY <1>6, <2>1, <2>2
<1>9. \A q \in T : \E i \in 1 .. n + 1 : more[i] = q
  BY <1>2, <1>4, <1>6
<1>10. \A i, j \in 1 .. n + 1 : more[i] = more[j] => i = j
  BY <1>1, <1>2, <1>3, <1>4, <1>6
<1> HIDE DEF T
<1>11. Enumerates(more, longer, tree, T)
  BY <1>4, <1>5, <1>7, <1>8, <1>9, <1>10 DEF Enumerates
<1> QED
  BY <1>11 DEF more, longer, T

(* Nothing is left to add only when everything has been added.             *)
LEMMA NothingPending ==
  ASSUME NEW tree, IsTree(tree), NEW S \in SUBSET DOMAIN tree, Pending(tree, S) = {}
  PROVE  S = DOMAIN tree
<1> SUFFICES ASSUME DOMAIN tree \ S # {} PROVE FALSE
  OBVIOUS
<1> DEFINE left == DOMAIN tree \ S
           lengths == {Len(p) : p \in left}
<1>1. \A p \in left : p \in Path /\ Len(p) \in Nat
  BY LenProperties DEF IsTree, Path
<1>2. lengths \in SUBSET Nat /\ lengths # {}
  BY <1>1
<1>3. PICK m \in lengths : \A k \in lengths : m <= k
  <2> HIDE DEF lengths
  <2> QED
    BY <1>2, LeastNumber
<1>4. PICK p \in left : m = Len(p)
  OBVIOUS
<1>5. \A q \in Parents(p) : q \in DOMAIN tree /\ Len(q) < Len(p) /\ Len(q) \in Nat
  <2> SUFFICES ASSUME NEW q \in Parents(p)
               PROVE  q \in DOMAIN tree /\ Len(q) < Len(p) /\ Len(q) \in Nat
    OBVIOUS
  <2>1. q \in DOMAIN tree
    BY DEF IsTree
  <2>2. PICK k \in 1 .. Len(p) - 1 : q = SubSeq(p, 1, k)
    BY DEF Parents
  <2>3. \A i \in 1 .. k : p[i] \in Component
    BY <1>1, <2>2, ElementOfSeq DEF Path
  <2>4. Len(q) = k
    BY <1>1, <2>2, <2>3, SubSeqProperties
  <2> QED
    BY <1>1, <2>1, <2>2, <2>4
<1>6. Parents(p) \subseteq S
  <2> SUFFICES ASSUME NEW q \in Parents(p), q \notin S PROVE FALSE
    OBVIOUS
  <2>1. Len(q) \in lengths /\ Len(q) < m
    BY <1>4, <1>5
  <2>2. m <= Len(q) /\ m \in Nat /\ Len(q) \in Nat
    BY <1>2, <1>3, <1>5, <2>1
  <2> QED
    BY <2>1, <2>2
<1> QED
  BY <1>6 DEF Pending

------------------------------------------------------------------------------
(* Extraction of what was archived.                                        *)

(* The first k nodes of a tree, extracted again.                           *)
First(nodes, k) == {nodes[i] : i \in 1 .. k}

Restored(y, folding, nodes, k, tree) ==
  /\ y \in Extraction /\ y.folding = folding
  /\ y.seen = {EntryIdentity(p) : p \in First(nodes, k)}
  /\ y.declared = y.written
  /\ y.written = BytesIn(tree, First(nodes, k) \cap Files(tree))
  /\ DOMAIN y.tree = {Key(y, p) : p \in First(nodes, k)}
  /\ \A p \in First(nodes, k) : y.tree[Key(y, p)] = tree[p]

LEMMA PortableNames ==
  ASSUME NEW tree, IsTree(tree), Portable(tree)
  PROVE  /\ \A p \in DOMAIN tree : Slashed(p) = p /\ IsArchivePathSafe(p)
         /\ \A p, q \in DOMAIN tree : EntryIdentity(p) = EntryIdentity(q) => p = q
         /\ \A y : \A p, q \in DOMAIN tree : Key(y, p) = Key(y, q) => p = q
  BY DEF Portable, EntryIdentity, Key

LEMMA TreeFiles ==
  ASSUME NEW tree, IsTree(tree)
  PROVE  /\ IsFiniteSet(Files(tree)) /\ Files(tree) \subseteq DOMAIN tree
         /\ \A p \in Files(tree) : tree[p] \in Data
  BY FS_Subset DEF IsTree, Files

LEMMA PortableBytes ==
  ASSUME NEW tree, IsTree(tree), Portable(tree), NEW K \in SUBSET DOMAIN tree
  PROVE  BytesIn(tree, K \cap Files(tree)) \in Nat
         /\ BytesIn(tree, K \cap Files(tree)) <= TotalLimit
<1> DEFINE S == Files(tree)
           L == K \cap S
<1>1. IsFiniteSet(S) /\ \A p \in S : tree[p] \in Data
  BY TreeFiles
<1>2. L \in SUBSET S /\ IsFiniteSet(L) /\ \A p \in L : tree[p] \in Data
  BY <1>1, FS_Subset
<1> HIDE DEF L
<1>3. BytesIn(tree, S) <= TotalLimit /\ TotalLimit \in Nat
  BY LimitAssumption DEF Portable
<1> HIDE DEF S
<1>4. BytesIn(tree, L) \in Nat /\ BytesIn(tree, S) \in Nat
  BY <1>1, <1>2, BytesInType
<1>5. BytesIn(tree, L) <= BytesIn(tree, S)
  BY <1>1, <1>2, BytesInPart
<1>6. BytesIn(tree, L) <= TotalLimit
  BY <1>3, <1>4, <1>5
<1> QED
  BY <1>4, <1>6 DEF L, S

LEMMA ReportedNode ==
  ASSUME NEW tree, IsTree(tree), Portable(tree), NEW p \in DOMAIN tree,
         NEW e, e = Reported(EntryFor(tree, p))
  PROVE  /\ e \in Entry /\ e.path = p /\ (e.directory <=> tree[p] = Folder)
         /\ e.type = IF e.directory THEN "directory" ELSE "regular"
         /\ e.directory => e.size = 0
         /\ ~e.directory => /\ p \in Files(tree) /\ e.data = tree[p] /\ e.size = Bytes[tree[p]]
                            /\ e.packed = Deflated[tree[p]]
<1>1. EntryFor(tree, p) \in Entry /\ e \in Entry
  BY EntryForType, ReportedType
<1>2. /\ EntryFor(tree, p).path = Slashed(p) /\ Slashed(p) = p
      /\ EntryFor(tree, p).directory = (tree[p] = Folder)
      /\ EntryFor(tree, p).type = IF tree[p] = Folder THEN "directory" ELSE "regular"
      /\ EntryFor(tree, p).size = IF tree[p] = Folder THEN 0 ELSE Bytes[tree[p]]
      /\ EntryFor(tree, p).packed = IF tree[p] = Folder THEN 0 ELSE Deflated[tree[p]]
      /\ EntryFor(tree, p).data = DataAt(tree, p)
  BY PortableNames DEF EntryFor
<1> DEFINE d == EntryFor(tree, p)
<1> HIDE DEF d
<1>3. /\ e.path = Slashed(d.path) /\ e.directory = d.directory /\ e.type = d.type
      /\ e.size = d.size /\ e.packed = d.packed /\ e.data = d.data
  <2>1. e = [d EXCEPT !.path = Slashed(@)] /\ d \in Entry
    BY <1>1 DEF Reported, d
  <2> QED
    BY <2>1 DEF Entry
<1> QED
  BY <1>1, <1>2, <1>3 DEF d, DataAt, Files

LEMMA NextIsRestored ==
  ASSUME NEW tree, IsTree(tree), Portable(tree), NEW nodes, NEW list,
         Enumerates(nodes, list, tree, DOMAIN tree), NEW folding \in BOOLEAN,
         NEW k \in Nat, k < Len(nodes), NEW y, Restored(y, folding, nodes, k, tree)
  PROVE  LET e == Reported(list[k + 1]) IN
         Accepts(y, e) /\ Restored(Extracted(y, e), folding, nodes, k + 1, tree)
<1> DEFINE p == nodes[k + 1]
           D == DOMAIN tree
           old == First(nodes, k)
           S == old \cap Files(tree)
<1> SUFFICES ASSUME NEW e, e = Reported(list[k + 1])
             PROVE  Accepts(y, e) /\ Restored(Extracted(y, e), folding, nodes, k + 1, tree)
  OBVIOUS
<1> DEFINE a == Admit(y, e)
           z == Extracted(y, e)
<1>1. /\ Len(nodes) \in Nat /\ k + 1 \in 1 .. Len(nodes)
      /\ \A i \in 1 .. Len(nodes) : nodes[i] \in D
      /\ list[k + 1] = EntryFor(tree, p)
      /\ \A q \in Parents(p) : \E j \in 1 .. k : nodes[j] = q
      /\ \A i, j \in 1 .. Len(nodes) : nodes[i] = nodes[j] => i = j
  <2>1. nodes \in Seq(D) /\ Len(nodes) \in Nat /\ k + 1 \in 1 .. Len(nodes) /\ (k + 1) - 1 = k
    BY LenProperties DEF Enumerates
  <2>2. \A i \in 1 .. Len(nodes) : nodes[i] \in D
    BY <2>1, ElementOfSeq
  <2>3. \A i, j \in 1 .. Len(nodes) : nodes[i] = nodes[j] => i = j
    BY DEF Enumerates
  <2>4. \A q \in Parents(nodes[k + 1]) : \E j \in 1 .. (k + 1) - 1 : nodes[j] = q
    BY <2>1 DEF Enumerates
  <2>5. list[k + 1] = EntryFor(tree, nodes[k + 1])
    BY <2>1 DEF Enumerates
  <2> QED
    BY <2>1, <2>2, <2>3, <2>4, <2>5
<1>2. /\ p \in D /\ old \subseteq D /\ p \notin old /\ Parents(p) \subseteq old
      /\ First(nodes, k + 1) = old \cup {p}
  <2>1. 1 .. k + 1 = (1 .. k) \cup {k + 1} /\ k + 1 \notin 1 .. k
    OBVIOUS
  <2>2. \A i \in 1 .. k : i \in 1 .. Len(nodes) /\ i # k + 1
    BY <1>1
  <2>3. p \in D /\ old \subseteq D
    BY <1>1, <2>2 DEF First
  <2>4. p \notin old
    BY <1>1, <2>2 DEF First
  <2>5. Parents(p) \subseteq old
    BY <1>1 DEF First
  <2>6. First(nodes, k + 1) = old \cup {p}
    BY <2>1 DEF First
  <2> QED
    BY <2>3, <2>4, <2>5, <2>6
<1> HIDE DEF p
<1>3. /\ e \in Entry /\ e.path = p /\ (e.directory <=> tree[p] = Folder)
      /\ e.type = IF e.directory THEN "directory" ELSE "regular"
      /\ e.directory => e.size = 0
      /\ ~e.directory => /\ p \in Files(tree) /\ e.data = tree[p] /\ e.size = Bytes[tree[p]]
                         /\ e.packed = Deflated[tree[p]]
  BY <1>1, <1>2, ReportedNode
<1>4. /\ y \in Extraction /\ y.folding = folding
      /\ y.seen = {EntryIdentity(q) : q \in old}
      /\ y.declared = y.written /\ y.written = BytesIn(tree, S)
      /\ DOMAIN y.tree = {Key(y, q) : q \in old}
      /\ \A q \in old : y.tree[Key(y, q)] = tree[q]
  BY DEF Restored
<1>5. /\ e.directory \in BOOLEAN /\ e.size \in Nat /\ e.packed \in Nat /\ e.data \in Data
      /\ Bytes[e.data] \in Nat
      /\ IsExtraction(y) /\ y.written \in Nat /\ y.tree \in Trees
  BY <1>3, <1>4, DataAssumption, ExtractionType DEF Entry
<1>6. /\ Slashed(p) = p /\ IsArchivePathSafe(p)
      /\ EntryIdentity(p) \notin y.seen /\ Key(y, p) \notin DOMAIN y.tree
  BY <1>2, <1>4, PortableNames
<1> DEFINE bytes == BytesIn(tree, First(nodes, k + 1) \cap Files(tree))
<1>7. bytes = y.written + e.size
  <2>1. CASE e.directory
    <3>1. First(nodes, k + 1) \cap Files(tree) = S
      BY <1>2, <1>3, <2>1 DEF Files
    <3>2. bytes = BytesIn(tree, S)
      BY <3>1
    <3> HIDE DEF bytes, S
    <3>3. e.size = 0 /\ bytes = y.written
      BY <1>3, <1>4, <2>1, <3>2
    <3> QED
      BY <1>5, <3>3
  <2>2. CASE ~e.directory
    <3>1. First(nodes, k + 1) \cap Files(tree) = S \cup {p} /\ p \notin S
      BY <1>2, <1>3, <2>2
    <3>2. IsFiniteSet(S) /\ \A q \in S : tree[q] \in Data
      BY TreeFiles, FS_Subset
    <3>3. OneMore(tree, tree, S, S \cup {p}, p)
      BY <1>3, <1>5, <2>2, <3>1, <3>2 DEF OneMore
    <3>4. BytesIn(tree, S \cup {p}) = Bytes[tree[p]] + BytesIn(tree, S)
      BY <3>3, BytesInAdd
    <3>5. bytes = BytesIn(tree, S \cup {p})
      BY <3>1
    <3> HIDE DEF bytes, S
    <3>6. e.size = Bytes[tree[p]] /\ bytes = Bytes[tree[p]] + y.written
      BY <1>3, <1>4, <2>2, <3>4, <3>5
    <3> QED
      BY <1>5, <3>6
  <2> QED
    BY <1>5, <2>1, <2>2
<1>8. bytes <= TotalLimit /\ TotalLimit \in Nat /\ EntryLimit \in Nat
  BY <1>2, PortableBytes, LimitAssumption
<1> HIDE DEF bytes, S
<1>9. WithinLimits(y, e)
  <2>1. e.size <= EntryLimit /\ e.packed * RatioLimit >= e.size
    <3>1. CASE e.directory
      BY <1>3, <1>5, <1>8, <3>1, LimitAssumption
    <3>2. CASE ~e.directory
      <4>1. Bytes[tree[p]] <= EntryLimit /\ Bytes[tree[p]] <= Deflated[tree[p]] * RatioLimit
        BY <1>3, <3>2 DEF Portable
      <4>2. e.packed * RatioLimit \in Int
        BY <1>5, LimitAssumption
      <4>3. e.size <= e.packed * RatioLimit
        BY <1>3, <3>2, <4>1
      <4> DEFINE product == e.packed * RatioLimit
      <4> HIDE DEF product
      <4>4. product >= e.size
        BY <1>5, <4>2, <4>3 DEF product
      <4> QED
        BY <1>3, <3>2, <4>1, <4>4 DEF product
    <3> QED
      BY <1>5, <3>1, <3>2
  <2>2. e.size <= TotalLimit - y.declared
    BY <1>4, <1>5, <1>7, <1>8
  <2>3. e.packed >= CeilDiv(e.size, RatioLimit)
    BY <1>5, <2>1, Ratio
  <2> QED
    BY <2>1, <2>2, <2>3 DEF WithinLimits
<1>10. /\ a.tree = y.tree /\ a.folding = y.folding /\ a.written = y.written
  BY <1>5, AdmitEffect
<1>11. \A q : Key(a, q) = Key(y, q)
  BY <1>10 DEF Key
<1>12. ~IsFileExists(a, p)
  BY <1>6, <1>10, <1>11 DEF IsFileExists
<1>13. \A q \in Parents(p) : IsFolder(a, q)
  <2> SUFFICES ASSUME NEW q \in Parents(p) PROVE IsFolder(a, q)
    OBVIOUS
  <2>1. tree[q] = Folder /\ q \in old
    BY <1>2 DEF IsTree
  <2>2. Key(a, q) \in DOMAIN a.tree /\ a.tree[Key(a, q)] = Folder
    BY <1>4, <1>10, <1>11, <2>1
  <2> QED
    BY <2>2 DEF IsFolder, IsFileExists
<1>14. Accepts(y, e)
  <2>1. Admitted(y, e)
    BY <1>3, <1>6, <1>9 DEF Admitted
  <2>2. e.directory => AcceptsDirectory(a, e)
    BY <1>3, <1>12, <1>13 DEF AcceptsDirectory, CanCreate
  <2>3. ~e.directory => AcceptsFile(a, e)
    BY <1>3, <1>5, <1>7, <1>8, <1>10, <1>12, <1>13 DEF AcceptsFile, CanCreate
  <2> QED
    BY <2>1, <2>2, <2>3 DEF Accepts
<1>15. /\ z \in Extraction /\ z.folding = y.folding
       /\ z.seen = y.seen \cup {EntryIdentity(p)}
       /\ z.declared = y.declared + e.size
       /\ z.written = y.written + (IF e.directory THEN 0 ELSE Bytes[e.data])
  BY <1>3, <1>4, ExtractedFields
<1>16. \A q : Key(z, q) = Key(y, q)
  BY <1>15 DEF Key
<1>17. DOMAIN z.tree = {Key(y, q) : q \in old \cup {p}}
  <2> DEFINE made == Parents(e.path) \cup (IF e.directory THEN {e.path} ELSE {})
  <2>1. DOMAIN z.tree = DOMAIN y.tree \cup {Key(y, q) : q \in made \cup {e.path}}
    BY <1>3, <1>4, ExtractedTree
  <2>2. made \cup {e.path} = Parents(p) \cup {p}
    BY <1>3
  <2> HIDE DEF z
  <2> QED
    BY <1>2, <1>4, <2>1, <2>2
<1>18. \A q \in old \cup {p} : z.tree[Key(y, q)] = tree[q]
  <2>1. /\ OnDisk(z, e)
        /\ \A j \in DOMAIN y.tree : j \in DOMAIN z.tree /\ z.tree[j] = y.tree[j]
    BY <1>5, <1>14, AcceptedOnDisk
  <2> HIDE DEF z
  <2>2. z.tree[Key(y, p)] = tree[p]
    BY <1>3, <1>16, <2>1 DEF OnDisk, IsFolder, IsFileExists
  <2>3. \A q \in old : Key(y, q) \in DOMAIN y.tree
    BY <1>4
  <2> QED
    BY <1>4, <2>1, <2>2, <2>3
<1> HIDE DEF z
<1>19. z.written = bytes /\ z.declared = bytes
  BY <1>3, <1>4, <1>5, <1>7, <1>15
<1>20. Restored(z, folding, nodes, k + 1, tree)
  BY <1>2, <1>4, <1>15, <1>16, <1>17, <1>18, <1>19 DEF Restored, bytes
<1> QED
  BY <1>14, <1>20 DEF z

LEMMA NothingRestored ==
  ASSUME NEW folding \in BOOLEAN, NEW nodes, NEW tree
  PROVE  Restored(NothingExtracted(folding), folding, nodes, 0, tree)
<1> DEFINE y == NothingExtracted(folding)
<1>1. /\ y.folding = folding /\ y.tree = <<>> /\ y.seen = {}
      /\ y.declared = 0 /\ y.written = 0
  BY DEF NothingExtracted
<1>2. y \in Extraction
  BY NothingIsMeasured DEF IsMeasured
<1>3. First(nodes, 0) = {}
  BY DEF First
<1>4. BytesIn(tree, {}) = 0
  <2>1. PICK f : IsSum(f, [k \in {} |-> Bytes[tree[k]]], {}) /\ f[{}] = BytesIn(tree, {})
    BY FS_EmptySet, BytesInIsSum
  <2> QED
    BY <2>1 DEF IsSum
<1>5. First(nodes, 0) \cap Files(tree) = {} /\ DOMAIN y.tree = {}
  BY <1>1, <1>3
<1> HIDE DEF y
<1>6. Restored(y, folding, nodes, 0, tree)
  BY <1>1, <1>2, <1>3, <1>4, <1>5 DEF Restored
<1> QED
  BY <1>6 DEF y

(* Extracting the entries of a portable tree makes that tree again.        *)
LEMMA ExtractsTree ==
  ASSUME NEW tree, IsTree(tree), Portable(tree), NEW nodes, NEW list,
         Enumerates(nodes, list, tree, DOMAIN tree), NEW folding \in BOOLEAN
  PROVE  LET r == ExtractEntries(folding, list)
         IN  /\ r.ok
             /\ DOMAIN r.x.tree = {Key(r.x, p) : p \in DOMAIN tree}
             /\ \A p \in DOMAIN tree : r.x.tree[Key(r.x, p)] = tree[p]
<1> DEFINE n == Len(nodes)
           D == DOMAIN tree
<1>1. /\ n \in Nat /\ list \in Seq(Entry) /\ Len(list) = n
      /\ \A i \in 1 .. n : nodes[i] \in D
      /\ \A p \in D : \E i \in 1 .. n : nodes[i] = p
      /\ \A i, j \in 1 .. n : nodes[i] = nodes[j] => i = j
  <2>1. nodes \in Seq(D) /\ n \in Nat
    BY LenProperties DEF Enumerates
  <2>2. \A i \in 1 .. n : nodes[i] \in D
    BY <2>1, ElementOfSeq
  <2> QED
    BY <2>1, <2>2 DEF Enumerates
<1>2. First(nodes, n) = D
  <2> HIDE DEF n, D
  <2> QED
    BY <1>1 DEF First
<1>3. n <= CountLimit
  <2> DEFINE b == [i \in 1 .. n |-> nodes[i]]
  <2>1. b \in Bijection(1 .. n, D)
    <3> HIDE DEF D, n
    <3> QED
      BY <1>1 DEF Bijection, Injection, Surjection, IsInjective
  <2>2. Cardinality(D) = n
    <3> HIDE DEF b, D, n
    <3> QED
      BY <1>1, <2>1, FS_CountingElements DEF ExistsBijection
  <2>3. Cardinality(D) <= CountLimit
    BY DEF Portable
  <2> QED
    BY <2>2, <2>3
<1>4. PICK h : /\ h[0] = Begun(folding, list)
               /\ \A k \in 1 .. n : h[k] = Callback(h[k - 1], list[k])
               /\ h[n] = ExtractEntries(folding, list)
  BY <1>1, ExtractRuns
<1> HIDE DEF n, D
<1> DEFINE good(k) == h[k].ok = TRUE /\ Restored(h[k].x, folding, nodes, k, tree)
           S == {k \in 0 .. n : good(k)}
<1>5. 0 \in S
  <2>1. h[0].ok = TRUE /\ h[0].x = NothingExtracted(folding)
    <3>1. h[0].ok = (n <= CountLimit) /\ h[0].x = NothingExtracted(folding)
      BY <1>1, <1>4 DEF Begun
    <3>2. (n <= CountLimit) = TRUE
      BY <1>3
    <3> QED
      BY <3>1, <3>2
  <2> QED
    BY <1>1, <2>1, NothingRestored
<1>6. ASSUME NEW k \in 0 .. n - 1, k \in S PROVE k + 1 \in S
  <2>1. k + 1 \in 0 .. n /\ k + 1 \in 1 .. n /\ (k + 1) - 1 = k /\ k \in Nat /\ k < n
    BY <1>1
  <2>2. h[k].ok = TRUE /\ Restored(h[k].x, folding, nodes, k, tree)
    BY <1>6
  <2>3. h[k + 1] = Callback(h[k], list[k + 1])
    BY <1>4, <2>1
  <2> DEFINE e == Reported(list[k + 1])
  <2>4. Accepts(h[k].x, e) /\ Restored(Extracted(h[k].x, e), folding, nodes, k + 1, tree)
    BY <2>1, <2>2, NextIsRestored DEF n, D
  <2>5. h[k + 1] = [ok |-> TRUE, x |-> Extracted(h[k].x, e)]
    BY <2>2, <2>3, <2>4 DEF Callback
  <2> HIDE DEF e
  <2>6. good(k + 1)
    BY <2>4, <2>5
  <2> QED
    BY <2>1, <2>6
<1> HIDE DEF S
<1>7. n \in S
  <2>1. 0 .. n \subseteq S
    BY <1>1, <1>5, <1>6, Induction
  <2> QED
    BY <1>1, <2>1
<1>8. h[n].ok = TRUE /\ Restored(h[n].x, folding, nodes, n, tree)
  BY <1>7 DEF S
<1> DEFINE r == ExtractEntries(folding, list)
<1>9. r.ok = TRUE /\ Restored(r.x, folding, nodes, n, tree)
  BY <1>4, <1>8
<1> HIDE DEF r
<1> QED
  BY <1>2, <1>9 DEF Restored, D, r

(* What is always so of the folder that is being archived.                 *)
Archiving ==
  /\ (op = "archive" /\ pc = "fill") =>
       /\ source \in Source /\ visited \subseteq DOMAIN source
       /\ \E nodes : Enumerates(nodes, entries, source, visited)
  /\ pc # "fill" => entries = <<>> /\ visited = {}

LEMMA NothingEnumerated ==
  ASSUME NEW tree
  PROVE  Enumerates(<<>>, <<>>, tree, {})
<1>1. <<>> \in Seq(Entry) /\ <<>> \in Seq({}) /\ Len(<<>>) = 0
  BY EmptySeq
<1> QED
  BY <1>1 DEF Enumerates

LEMMA NextArchiving == Archiving /\ [ExtractionNext]_<<vars, locals>> => Archiving'
<1> SUFFICES ASSUME Archiving, [ExtractionNext]_<<vars, locals>> PROVE Archiving'
  OBVIOUS
<1> USE DEF Archiving
<1>1. CASE StartFilling
  <2>1. entries = <<>> /\ visited = {} /\ op' = op /\ pc = "stage"
    BY <1>1 DEF StartFilling, CreateStaging
  <2>2. entries' = <<>> /\ visited' = {} /\ (op = "archive" => source' \in Source)
    BY <1>1, <2>1 DEF StartFilling
  <2>3. Enumerates(<<>>, entries', source', visited')
    BY <2>2, NothingEnumerated
  <2> QED
    BY <2>1, <2>2, <2>3
<1>2. CASE ExtractNext
  BY <1>2 DEF ExtractNext, vars
<1>3. CASE AddNext
  <2>1. PICK p \in NextNodes(source, visited) :
          entries' = Append(entries, EntryFor(source, p)) /\ visited' = visited \cup {p}
    BY <1>3 DEF AddNext
  <2>2. /\ op = "archive" /\ pc = "fill" /\ op' = op /\ pc' = pc /\ source' = source
    BY <1>3 DEF AddNext, vars
  <2>3. /\ source \in Source /\ visited \subseteq DOMAIN source /\ IsTree(source)
    BY <2>2, SourceAssumption
  <2>4. PICK nodes : Enumerates(nodes, entries, source, visited)
    BY <2>2
  <2>5. p \in Pending(source, visited) /\ p \in DOMAIN source
    BY DEF NextNodes, Pending
  <2>6. Enumerates(Append(nodes, p), entries', source', visited')
    BY <2>1, <2>2, <2>3, <2>4, <2>5, EnumeratesMore
  <2> QED
    BY <2>1, <2>2, <2>3, <2>5, <2>6
<1>4. CASE FreshLocals /\ pc' # "fill"
  BY <1>4 DEF FreshLocals
<1>5. CASE UNCHANGED locals /\ pc # "fill" /\ pc' # "fill"
  BY <1>5 DEF locals
<1>6. CASE UNCHANGED <<vars, locals>>
  BY <1>6 DEF locals, vars
<1> QED
  BY <1>1, <1>2, <1>3, <1>4, <1>5, <1>6 DEF ExtractionNext, ExtractionStatement, FinishFilling,
     Fill, Probe, CreateContainer, SetAside, Publish, Restore, DropContainer, Discard, Commit,
     DropBackup, Begin, Crash

(* Extract makes of what Archive writes the folder again: every portable   *)
(* folder, listed in any order, on either kind of volume.                  *)
THEOREM ArchivesRoundTrip == ExtractionSpec => []RoundTrip
<1>1. ExtractionInit => Archiving
  BY DEF ExtractionInit, Init, Archiving
<1>2. Archiving => RoundTrip
  <2> SUFFICES ASSUME Archiving, op = "archive", pc = "fill", Pending(source, visited) = {},
                      Portable(source), NEW folding \in BOOLEAN
               PROVE  LET r == ExtractEntries(folding, entries)
                      IN  /\ r.ok
                          /\ DOMAIN r.x.tree = {Key(r.x, p) : p \in DOMAIN source}
                          /\ \A p \in DOMAIN source : r.x.tree[Key(r.x, p)] = source[p]
    BY DEF RoundTrip
  <2>1. /\ source \in Source /\ visited \subseteq DOMAIN source /\ IsTree(source)
    BY SourceAssumption DEF Archiving
  <2>2. PICK nodes : Enumerates(nodes, entries, source, visited)
    BY DEF Archiving
  <2>3. visited = DOMAIN source
    BY <2>1, NothingPending
  <2> QED
    BY <2>1, <2>2, <2>3, ExtractsTree
<1> QED
  BY <1>1, NextArchiving, <1>2, PTL DEF ExtractionSpec
==============================================================================
