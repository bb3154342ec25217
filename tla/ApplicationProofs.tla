--------------------------- MODULE ApplicationProofs ---------------------------
(***************************************************************************)
(* Proofs about Application, for every command line, file, failing call,   *)
(* resolver and server: what CertificateCheckProofs and AuditProofs show   *)
(* holds of its checks and audits; following a run from statement to       *)
(* statement, exit code 0 means done, nothing but signed apps is           *)
(* published, the input is touched by signing only, and nothing is left    *)
(* behind; and following Parse from argument to argument, the options are  *)
(* those the command line means.                                           *)
(***************************************************************************)
EXTENDS Application, CertificateCheckProofs, AuditProofs, Recursion

------------------------------------------------------------------------------
(* The checks.                                                             *)

LEMMA ApplicationChecks == [Next]_vars => [CheckNext]_checkVars
<1> SUFFICES ASSUME [Next]_vars PROVE [CheckNext]_checkVars
  OBVIOUS
<1>1. CASE CheckRuns \/ Resolver
  BY <1>1 DEF CheckRuns, Resolver, CheckNext
<1>2. CASE BeginRequestedCheck \/ BeginVerify
  BY <1>2 DEF BeginRequestedCheck, BeginVerify, Check, CheckNext
<1>3. CASE FinishRequestedCheck \/ FinishVerify
  BY <1>3 DEF FinishRequestedCheck, FinishVerify, CheckNext
<1>4. CASE UNCHANGED checkVars
  BY <1>4
<1> QED
  BY <1>1, <1>2, <1>3, <1>4 DEF Next, Program, RunMain, ValidateEnvironment, RunAudit,
     FinishAudit, AuditRuns, Dispatch, OpenMachO, CreateSignAsset, EditMachO, SignMachO,
     Extract, SignFolder, FindSignedBinary, PackArchive, WriteMetadata, Install, CleanUp, vars

(* What holds of a check by itself holds of those of a run.                *)
LEMMA ApplicationIsChecking == Spec => CheckSpec
<1>1. Init => \E nothing : CheckInit(nothing)
  BY DEF Init
<1> QED
  BY <1>1, ApplicationChecks, PTL DEF Spec, CheckSpec

(* A run, too, takes a check for passed on complete evidence only.         *)
THEOREM RunsPassOnlyOnEvidence == Spec => []PassOnlyOnEvidence
  BY ApplicationIsChecking, PassesOnlyOnEvidence, PTL

(* And leaves no process, pipe or socket of it behind.                     *)
THEOREM RunsConfineRequests == Spec => []RequestConfined
  BY ApplicationIsChecking, RequestsAreConfined, PTL

------------------------------------------------------------------------------
(* The inductive invariant: what has happened when a statement is reached. *)

Before == {"main", "run", "audit", "auditing", "request", "requested", "dispatch", "open",
           "asset", "extract"}
Signing == {"edit", "sign", "binary", "verify", "verifying"}
Finishing == {"archive", "metadata", "install", "clean"}

Untouched == [input |-> "original", work |-> "none", output |-> "previous",
              temp |-> "none", metadata |-> "none", report |-> FALSE]

OnlyChecks == Wants("check") /\ ~Wants("key") /\ Provisions = 0

AppTyped ==
  /\ at \in Before \cup Signing \cup Finishing \cup {"exited"}
  /\ disk \in Disk /\ ok \in BOOLEAN /\ verified \in BOOLEAN /\ installed \in BOOLEAN

(* Which workflow a statement belongs to.                                  *)
OnItsWay ==
  /\ at \in {"audit", "auditing"} => Wants("audit")
  /\ at \in {"request", "requested"} => OnlyChecks /\ ~Wants("audit")
  /\ at \in {"dispatch", "open", "asset", "extract"} \cup Signing \cup Finishing
       => ~Wants("audit") /\ ~OnlyChecks
  /\ at = "asset" => target \in {"archive", "folder", "macho"}
  /\ at = "extract" => Archive
  /\ at = "edit" => target = "macho"
  /\ at \in Signing => target \in {"archive", "folder", "macho"}
  /\ at \in Finishing \cup {"binary"} => target \in {"archive", "folder"}
  /\ at \in {"binary", "verify", "verifying"} => Wants("check")

(* What it may have made, and what must have been made by then.            *)
Accounted ==
  /\ at \in Before => disk = Untouched
  /\ at \in Before \cup Signing => ~installed
  /\ at \in Signing =>
       disk.output = "previous" /\ disk.temp = "none" /\ disk.metadata = "none"
  /\ at = "archive" => disk.temp = "none"
  /\ disk.work # "none" => Archive
  /\ at \in {"extract"} \cup Signing => assets # {}
  /\ (at = "sign" /\ target = "folder") => disk.input = "original"
  /\ at \in {"binary", "verify", "verifying"} => Product = "signed"
  /\ (at \in Finishing /\ ok) =>
       /\ Product = "signed" /\ (Wants("check") => verified)
       /\ at # "archive" /\ Wants("output") => disk.output = "published"
       /\ (at \in {"install", "clean"} /\ Wants("metadata") /\ (Wants("output") \/ Wants("install")))
            => disk.metadata = "written"
       /\ at = "clean" /\ Wants("install") => installed

(* The working folder of an audit lives as long as its Run.                *)
AuditTidy == workspace = "extracted" => at = "auditing" /\ stage \in {"bundles", "scan", "assets"}

AppInv ==
  /\ AppTyped /\ OnItsWay /\ Accounted /\ AuditTidy
  /\ InputUntouched /\ NothingLeftInTemp /\ SuccessMeansDone

LEMMA InitAppInv == Init => AppInv
<1> SUFFICES ASSUME Init PROVE AppInv
  OBVIOUS
<1>1. at = "main" /\ disk = Untouched /\ ~ok /\ ~verified /\ ~installed /\ workspace = "none"
  BY DEF Init, AuditInit, Untouched
<1>2. AppTyped
  BY DEF Init, AppTyped, Before, Disk, Content
<1>3. OnItsWay
  BY <1>1 DEF OnItsWay, Signing, Finishing
<1>4. Accounted
  BY <1>1 DEF Accounted, Before, Signing, Finishing, Untouched
<1>5. AuditTidy /\ InputUntouched /\ NothingLeftInTemp /\ SuccessMeansDone
  BY <1>1 DEF AuditTidy, InputUntouched, NothingLeftInTemp, SuccessMeansDone, Untouched
<1> QED
  BY <1>2, <1>3, <1>4, <1>5 DEF AppInv

(* Changing the product changes nothing else of the disk.                  *)
LEMMA ChangeOnDisk ==
  ASSUME disk \in Disk, NEW c \in Content
  PROVE  /\ Change(c) \in Disk /\ Change(c).output = disk.output
         /\ Change(c).temp = disk.temp /\ Change(c).metadata = disk.metadata
         /\ Archive => Change(c).work = c /\ Change(c).input = disk.input
         /\ ~Archive => Change(c).input = c /\ Change(c).work = disk.work
<1>1. CASE Archive
  BY <1>1 DEF Change, Disk
<1>2. CASE ~Archive
  BY <1>2 DEF Change, Disk
<1> QED
  BY <1>1, <1>2

(* Writing the report changes nothing else of the disk.                    *)
LEMMA ReportOnDisk ==
  ASSUME disk \in Disk, FinishAudit
  PROVE  /\ disk' \in Disk /\ disk'.input = disk.input
         /\ disk'.work = disk.work /\ disk'.temp = disk.temp
         /\ at' = "exited" /\ (exit' = 0 => (Wants("report") => disk'.report))
<1>1. CASE disk' = disk /\ exit' = 1
  BY <1>1 DEF FinishAudit, Exit
<1>2. CASE disk' = [disk EXCEPT !.report = Wants("report")]
  <2>1. PICK r \in BOOLEAN : disk' = [disk EXCEPT !.report = r] /\ (Wants("report") => r)
    <3>1. Wants("report") \in BOOLEAN
      BY DEF Wants
    <3> QED
      BY <1>2, <3>1, Zenon
  <2> QED
    BY <2>1 DEF FinishAudit, Exit, Disk
<1> QED
  BY <1>1, <1>2 DEF FinishAudit, Exit

(* Signing a Mach-O is followed by its check, where that is wanted.        *)
LEMMA SignedThenChecked ==
  ASSUME SignMachO
  PROVE  \/ at' = "verify" /\ Wants("check")
         \/ at' = "exited" /\ (exit' = 0 => ~Wants("check"))
  BY DEF SignMachO, Go, Exit

LEMMA NextAppInv == AppInv /\ [Next]_vars => AppInv'
<1> SUFFICES ASSUME AppInv, [Next]_vars PROVE AppInv'
  OBVIOUS
<1> USE DEF AppInv, AppTyped, OnItsWay, Accounted, AuditTidy, InputUntouched, NothingLeftInTemp,
        SuccessMeansDone, Before, Signing, Finishing, Untouched, OnlyChecks, Wants, Archive,
        Provisions, Product, Change, Exit, Go, Given_, files, signing, auditVars, scanning,
        request, OnlyPrintInfo
<1>1. CASE RunMain
  BY <1>1 DEF RunMain
<1>2. CASE ValidateEnvironment
  BY <1>2 DEF ValidateEnvironment
<1>3. CASE RunAudit
  BY <1>3 DEF RunAudit, CallRun
<1>4. CASE FinishAudit
  <2> QED
    BY <1>4, ReportOnDisk DEF FinishAudit
<1>5. CASE AuditRuns
  BY <1>5 DEF AuditRuns, AuditStep, appVars, OpenInput, AuditSingle, DiscoverBundles,
     EnterRoot, AuditBinary, StopScan, MatchProfiles, FinalizeReport
<1>6. CASE BeginRequestedCheck
  BY <1>6 DEF BeginRequestedCheck, Check
<1>7. CASE FinishRequestedCheck
  <2>1. CASE code = 0
    <3>1. at' = "exited" /\ verified' = TRUE
      BY <1>7, <2>1 DEF FinishRequestedCheck
    <3> QED
      BY <1>7, <3>1 DEF FinishRequestedCheck
  <2>2. CASE code # 0
    BY <1>7, <2>2 DEF FinishRequestedCheck
  <2> QED
    BY <2>1, <2>2
<1>8. CASE Dispatch
  BY <1>8 DEF Dispatch
<1>9. CASE OpenMachO
  BY <1>9 DEF OpenMachO, OnlyPrintInfo
<1>10. CASE CreateSignAsset
  BY <1>10 DEF CreateSignAsset
<1>11. CASE EditMachO
  BY <1>11 DEF EditMachO, Disk, Content
<1>12. CASE SignMachO
  <2>1. CASE at' = "exited" /\ exit' = 1 /\ disk' = disk /\ ok' = ok
    BY <1>12, <2>1 DEF SignMachO
  <2>2. CASE disk' = Change("signed") /\ ok'
    <3>1. /\ disk' \in Disk /\ disk'.input = "signed" /\ disk'.work = disk.work
          /\ disk'.output = disk.output /\ disk'.temp = disk.temp
          /\ disk'.metadata = disk.metadata
      BY <1>12, <2>2 DEF SignMachO, Disk, Content
    <3> QED
      BY <1>12, <2>2, <3>1, SignedThenChecked DEF SignMachO
  <2> QED
    BY <1>12, <2>1, <2>2 DEF SignMachO
<1>13. CASE BeginVerify
  BY <1>13 DEF BeginVerify, Check
<1>14. CASE FinishVerify
  <2>1. CASE code = 0
    BY <1>14, <2>1 DEF FinishVerify
  <2>2. CASE code # 0
    BY <1>14, <2>2 DEF FinishVerify
  <2> QED
    BY <2>1, <2>2
<1>15. CASE Extract
  <2>1. CASE at' = "exited" /\ exit' = 1 /\ disk' = disk
    BY <1>15, <2>1 DEF Extract
  <2>2. CASE disk' = Change("original") /\ at' = "sign"
    <3>1. "original" \in Content
      BY DEF Content
    <3>2. /\ disk' \in Disk /\ disk'.output = disk.output /\ disk'.temp = disk.temp
          /\ disk'.metadata = disk.metadata /\ disk'.input = disk.input
      BY <1>15, <2>2, <3>1, ChangeOnDisk DEF Extract
    <3> QED
      BY <1>15, <2>2, <3>2 DEF Extract
  <2> QED
    BY <1>15, <2>1, <2>2 DEF Extract
<1>16. CASE SignFolder
  <2>1. CASE disk' = disk /\ ok' = FALSE /\ at' = "archive"
    BY <1>16, <2>1 DEF SignFolder
  <2>2. CASE disk' = Change("changed") /\ assets' # {} /\ ok' = FALSE /\ at' = "archive"
    <3>1. "changed" \in Content
      BY DEF Content
    <3>2. /\ disk' \in Disk /\ disk'.output = disk.output /\ disk'.temp = disk.temp
          /\ disk'.metadata = disk.metadata
          /\ Archive => disk'.input = disk.input
          /\ ~Archive => disk'.work = disk.work
      BY <2>2, <3>1, ChangeOnDisk
    <3> QED
      BY <1>16, <2>2, <3>2 DEF SignFolder
  <2>3. CASE /\ disk' = Change("signed") /\ ok' = TRUE /\ signers' # {} /\ signers' \subseteq assets'
             /\ at' = IF Wants("check") THEN "binary" ELSE "archive"
    <3>1. "signed" \in Content
      BY DEF Content
    <3>2. /\ disk' \in Disk /\ disk'.output = disk.output /\ disk'.temp = disk.temp
          /\ disk'.metadata = disk.metadata
          /\ Archive => disk'.work = "signed" /\ disk'.input = disk.input
          /\ ~Archive => disk'.input = "signed" /\ disk'.work = disk.work
      BY <2>3, <3>1, ChangeOnDisk
    <3> QED
      BY <1>16, <2>3, <3>2 DEF SignFolder
  <2> QED
    BY <1>16, <2>1, <2>2, <2>3 DEF SignFolder
<1>17. CASE FindSignedBinary
  BY <1>17 DEF FindSignedBinary
<1>18. CASE PackArchive
  <2>1. CASE disk' = disk /\ at' = "install" /\ (ok' = FALSE \/ (ok' = ok /\ ~Packs))
    <3>1. ok' => ok /\ ~Wants("output") /\ ~Wants("install")
      BY <2>1 DEF Packs
    <3> QED
      BY <1>18, <2>1, <3>1 DEF PackArchive
  <2>2. CASE /\ disk' = Packed /\ ok' = ok /\ Packs
             /\ at' = IF Wants("metadata") THEN "metadata" ELSE "install"
    <3>1. /\ disk' \in Disk /\ disk'.input = disk.input /\ disk'.work = disk.work
          /\ disk'.metadata = disk.metadata
          /\ Wants("output") => disk'.output = "published" /\ disk'.temp = disk.temp
          /\ ~Wants("output") => disk'.output = disk.output
      BY <2>2 DEF Packed, Disk
    <3> QED
      BY <1>18, <2>2, <3>1 DEF PackArchive
  <2> QED
    BY <1>18, <2>1, <2>2 DEF PackArchive
<1>19. CASE WriteMetadata
  <2>1. /\ disk' \in Disk /\ disk'.input = disk.input /\ disk'.work = disk.work
        /\ disk'.output = disk.output /\ disk'.temp = disk.temp
        /\ ok' \in BOOLEAN /\ (ok' => ok /\ disk'.metadata = "written")
    <3>1. CASE ok' = FALSE /\ \E m \in {"none", "partial"} : disk' = [disk EXCEPT !.metadata = m]
      BY <3>1 DEF Disk
    <3>2. CASE ok' = ok /\ disk' = [disk EXCEPT !.metadata = "written"]
      BY <3>2 DEF Disk
    <3> QED
      BY <1>19, <3>1, <3>2 DEF WriteMetadata
  <2> QED
    BY <1>19, <2>1 DEF WriteMetadata
<1>20. CASE Install
  BY <1>20 DEF Install
<1>21. CASE CleanUp
  <2>1. /\ disk' \in Disk /\ disk'.input = disk.input /\ disk'.output = disk.output
        /\ disk'.metadata = disk.metadata
        /\ disk'.work # "none" => "work" \in stuck' /\ disk.work # "none"
        /\ disk'.temp # "none" => "temp" \in stuck'
    BY <1>21, ZenonT(30) DEF CleanUp, Disk, Content
  <2>2. at' = "exited" /\ (exit' = 0 => ok)
    BY <1>21 DEF CleanUp
  <2> QED
    BY <1>21, <2>1, <2>2 DEF CleanUp
<1>22. CASE CheckRuns
  BY <1>22 DEF CheckRuns, appVars
<1>23. CASE Resolver
  BY <1>23 DEF Resolver, appVars
<1>24. CASE UNCHANGED vars
  BY <1>24 DEF vars, appVars
<1> QED
  BY <1>1, <1>2, <1>3, <1>4, <1>5, <1>6, <1>7, <1>8, <1>9, <1>10, <1>11, <1>12, <1>13, <1>14, <1>15, <1>16, <1>17, <1>18, <1>19, <1>20, <1>21, <1>22, <1>23, <1>24
     DEF Next, Program

LEMMA Running == Spec => []AppInv
  BY InitAppInv, NextAppInv, PTL DEF Spec

(* Whichever way a run ends, what stays in the temporary folder is what    *)
(* could not be removed.                                                   *)
THEOREM TempIsLeftClean == Spec => []NothingLeftInTemp
<1>1. AppInv => NothingLeftInTemp
  BY DEF AppInv
<1> QED
  BY Running, <1>1, PTL

(* Exit code 0 means that all the command line asked for was done.         *)
THEOREM SuccessIsDone == Spec => []SuccessMeansDone
<1>1. AppInv => SuccessMeansDone
  BY DEF AppInv
<1> QED
  BY Running, <1>1, PTL

(* Audits, checks, print-outs and archives leave the operand as it was.    *)
THEOREM OnlySigningTouchesInput == Spec => []InputUntouched
<1>1. AppInv => InputUntouched
  BY DEF AppInv
<1> QED
  BY Running, <1>1, PTL

(* No step publishes or installs anything but what is signed, and checked  *)
(* where a check was asked for.                                            *)
THEOREM OnlySignedIsPublished == Spec => PublishedOnlySigned
<1> DEFINE Publishes == \/ disk'.output # disk.output
                        \/ disk.temp = "none" /\ disk'.temp # "none"
                        \/ installed' /\ ~installed
           Allowed == Product = "signed" /\ (Wants("check") => verified)
<1>1. AppInv /\ [Next]_vars => (Publishes => Allowed)
  <2> SUFFICES ASSUME AppInv, [Next]_vars, Publishes PROVE Allowed
    OBVIOUS
  <2> USE DEF AppInv, AppTyped, Accounted, Go, Exit, files, Change
  <2>1. CASE PackArchive
    BY <2>1 DEF PackArchive, Packs, Finishing
  <2>2. CASE Install
    BY <2>2 DEF Install, Finishing
  <2>3. CASE UNCHANGED <<disk, installed>>
    BY <2>3
  <2>4. CASE FinishAudit
    BY <2>4 DEF FinishAudit, Disk
  <2>5. CASE EditMachO \/ SignMachO \/ Extract \/ SignFolder
    BY <2>5 DEF EditMachO, SignMachO, Extract, SignFolder, Disk
  <2>6. CASE WriteMetadata \/ CleanUp
    BY <2>6 DEF WriteMetadata, CleanUp, Disk
  <2> QED
    BY <2>1, <2>2, <2>3, <2>4, <2>5, <2>6 DEF Next, Program, RunMain, ValidateEnvironment,
       RunAudit, AuditRuns, BeginRequestedCheck, BeginVerify, Check, FinishRequestedCheck,
       FinishVerify, Dispatch, OpenMachO, CreateSignAsset, FindSignedBinary, CheckRuns,
       Resolver, vars, appVars
<1> QED
  BY Running, <1>1, PTL DEF Spec, PublishedOnlySigned

------------------------------------------------------------------------------
(* Who signs.                                                              *)

AssetsHold ==
  /\ at \in {"extract"} \cup Signing => supplied \in Supplies
  /\ \A a \in assets : a.adhoc \/ Provisioned(a)
  /\ \A a \in signers : a.adhoc \/ (Provisioned(a) /\ Chained(a))

(* An asset made of files that were supplied holds, whichever profile.     *)
LEMMA SuppliedAssetHolds ==
  ASSUME NEW s \in Supplies, NEW adHoc, NEW f,
         f = FirstProfile(s) \/ \E i \in DOMAIN s.profiles : f = s.profiles[i],
         InitAsset(s.cert, s.key, f, s.entitlements, adHoc).ready
  PROVE  LET a == InitAsset(s.cert, s.key, f, s.entitlements, adHoc)
         IN  a.adhoc \/ Provisioned(a)
<1>1. Proper(s.entitlements.dictionary)
  BY SuppliesAssumption
<1>2. Proper(f.allowed)
  <2>1. CASE f = NoProfile
    BY <2>1 DEF NoProfile, NoEntitlements, Proper
  <2>2. CASE \E i \in DOMAIN s.profiles : f = s.profiles[i]
    BY <2>2, SuppliesAssumption
  <2> QED
    BY <2>1, <2>2, SuppliesAssumption DEF FirstProfile
<1> QED
  BY <1>1, <1>2, ReadyIsProvisioned

LEMMA NextAssetsHold == AssetsHold /\ [Next]_vars => AssetsHold'
<1> SUFFICES ASSUME AssetsHold, [Next]_vars PROVE AssetsHold'
  OBVIOUS
<1> USE DEF AssetsHold, Signing, Go, Exit, files, signing, auditVars
<1>1. CASE CreateSignAsset
  <2>1. PICK s \in Supplies :
          /\ supplied' = s
          /\ LET asset == InitAsset(s.cert, s.key, FirstProfile(s), s.entitlements, Wants("adhoc"))
             IN  IF asset.ready THEN assets' = {asset} ELSE UNCHANGED assets
    BY <1>1 DEF CreateSignAsset, Fitting
  <2>2. \A a \in assets' : a.adhoc \/ Provisioned(a)
    BY <2>1, SuppliedAssetHolds
  <2> QED
    BY <1>1, <2>1, <2>2 DEF CreateSignAsset
<1>2. CASE SignMachO
  <2>1. \A a \in assets : CanSign(a) => a.adhoc \/ (Provisioned(a) /\ Chained(a))
    BY SignsWithChain
  <2> QED
    BY <1>2, <2>1 DEF SignMachO
<1>3. CASE SignFolder
  <2>1. supplied \in Supplies /\ UNCHANGED auditVars
    BY <1>3 DEF SignFolder
  <2>2. \A f \in External : AssetFor(f).ready => AssetFor(f).adhoc \/ Provisioned(AssetFor(f))
    BY <2>1, SuppliedAssetHolds DEF External, AssetFor
  <2>3. \A a \in assets' : a.adhoc \/ Provisioned(a)
    BY <1>3, <2>2 DEF SignFolder
  <2>4. \A a \in assets' : CanSign(a) => a.adhoc \/ (Provisioned(a) /\ Chained(a))
    BY <2>3, SignsWithChain
  <2>5. \A a \in signers' : a \in signers \/ (a \in assets' /\ CanSign(a))
    BY <1>3 DEF SignFolder
  <2>6. at' \in {"archive", "binary"} /\ supplied' = supplied
    BY <1>3 DEF SignFolder
  <2> QED
    BY <2>1, <2>3, <2>4, <2>5, <2>6
<1>4. CASE RunAudit \/ AuditRuns
  BY <1>4 DEF RunAudit, AuditRuns, appVars
<1>5. CASE /\ UNCHANGED <<assets, signers, supplied>>
           /\ at' \in {"extract"} \cup Signing => at \in {"extract"} \cup Signing
  BY <1>5
<1>6. CASE UNCHANGED vars
  BY <1>6 DEF vars, appVars
<1> QED
  BY <1>1, <1>2, <1>3, <1>4, <1>5, <1>6 DEF Next, Program, RunMain, ValidateEnvironment,
     FinishAudit, BeginRequestedCheck, BeginVerify, Check, FinishRequestedCheck, FinishVerify,
     Dispatch, OpenMachO, EditMachO, Extract, FindSignedBinary, PackArchive, WriteMetadata,
     Install, CleanUp, CheckRuns, Resolver, appVars

(* Whoever signs, other than ad hoc, is authorized by the profile in every *)
(* respect, grants no more than it and sends a complete chain along.       *)
THEOREM SignersAreProvisioned == Spec => []SignedAsProvisioned
<1>1. Init => AssetsHold
  BY DEF Init, AssetsHold, Signing
<1>2. AssetsHold => SignedAsProvisioned
  BY DEF AssetsHold, SignedAsProvisioned, Provisioned, Chained
<1> QED
  BY <1>1, <1>2, NextAssetsHold, PTL DEF Spec

------------------------------------------------------------------------------
(* The audit.                                                              *)

(* Outside of its audit a run leaves the audit's variables idle.           *)
AuditPart ==
  /\ at \notin {"auditing", "exited"} => stage = "idle"
  /\ ReadyInv /\ CompleteInv

LEMMA NextAuditPart == AuditPart /\ [Next]_vars => AuditPart'
<1> SUFFICES ASSUME AuditPart, [Next]_vars PROVE AuditPart'
  OBVIOUS
<1> USE DEF AuditPart, Go, Exit
<1>1. CASE RunAudit
  <2>1. Wants("adhoc") \in BOOLEAN
    BY DEF Wants
  <2>2. PICK input \in Trees, s \in Supplies : CallRun(input, s, Wants("adhoc"))
    BY <1>1 DEF RunAudit, Fitting
  <2>3. AuditNext
    BY <2>1, <2>2 DEF AuditNext
  <2> QED
    BY <1>1, <2>3, NextReadyInv, NextCompleteInv DEF RunAudit
<1>2. CASE AuditRuns
  BY <1>2, NextReadyInv, NextCompleteInv DEF AuditRuns, AuditNext, appVars
<1>3. CASE CreateSignAsset
  <2>1. stage' = "idle" /\ supplied' \in Supplies
    BY <1>3 DEF CreateSignAsset, Fitting
  <2>2. ReadyInv'
    BY <1>3, <2>1, SuppliesAssumption DEF ReadyInv, ProfilesListed, External
  <2>3. stage = "idle" /\ UNCHANGED <<tree, issues, binaries, todo, roots, missed>>
    BY <1>3 DEF CreateSignAsset, scanning
  <2>4. CompleteInv'
    BY <2>1, <2>3 DEF CompleteInv, PathsHold
  <2> QED
    BY <2>1, <2>2, <2>4
<1>4. CASE UNCHANGED auditVars
           /\ (at' \notin {"auditing", "exited"} => at \notin {"auditing", "exited"})
  <2>1. [AuditNext]_auditVars
    BY <1>4
  <2>2. stage' = stage
    BY <1>4 DEF auditVars
  <2> QED
    BY <1>4, <2>1, <2>2, NextReadyInv, NextCompleteInv
<1> QED
  BY <1>1, <1>2, <1>3, <1>4 DEF Next, Program, RunMain, ValidateEnvironment, FinishAudit,
     BeginRequestedCheck, BeginVerify, Check, FinishRequestedCheck, FinishVerify, Dispatch,
     OpenMachO, EditMachO, SignMachO, Extract, SignFolder, FindSignedBinary, PackArchive,
     WriteMetadata, Install, CleanUp, CheckRuns, Resolver, vars, appVars

LEMMA AuditsHold == Spec => []AuditPart
<1>1. Init => AuditPart
  BY InitReadyInv, InitCompleteInv DEF Init, AuditPart, AuditInit
<1> QED
  BY <1>1, NextAuditPart, PTL DEF Spec

(* The audit of a run that reports ready has looked at all that signing    *)
(* will use.                                                               *)
THEOREM RunsReportReadyOnlyIfSignable == Spec => []ReadyMeansSignable
<1>1. AuditPart => ReadyMeansSignable
  BY InvIsReady DEF AuditPart
<1> QED
  BY <1>1, AuditsHold, PTL

(* And it names all that it should have read.                              *)
THEOREM RunsReportCompletely == Spec => []AuditComplete
<1>1. AuditPart => AuditComplete
  BY InvIsComplete DEF AuditPart
<1> QED
  BY <1>1, AuditsHold, PTL

------------------------------------------------------------------------------
(* The command line.                                                       *)

Parsed ==
  [status : {"ok", "help", "version", "error"}, exit : {0, 1, 2}, flags : SUBSET Flag,
   provisions : Nat, operands : Nat, scope : (SUBSET Everywhere) \ {{}}, sha256 : BOOLEAN,
   format : Value]

LEMMA WishesAreFlags ==
  ASSUME NEW a \in Argument
  PROVE  Wishes(a) \in SUBSET Flag
<1>1. {"strict", "audit", "report"} \subseteq Flag
  BY DEF Flag
<1> QED
  BY <1>1 DEF Wishes

LEMMA ScopesAreSets ==
  ASSUME NEW items, IsScope(items)
  PROVE  ParsedScope(items) \in (SUBSET Everywhere) \ {{}}
  BY DEF IsScope

LEMMA FormatIsValue ==
  ASSUME NEW v, IsFormat(v)
  PROVE  v[1] \in Value
<1>1. CASE v = <<"text">>
  BY <1>1 DEF Value
<1>2. CASE v = <<"json">>
  BY <1>2 DEF Value
<1> QED
  BY <1>1, <1>2 DEF IsFormat

(* What a turn of the loop does to each member of ParseResult.             *)
LEMMA TakeFields ==
  ASSUME NEW r \in Parsed, NEW a \in Argument
  PROVE  LET s == Take(r, a) IN
         /\ s \in Parsed
         /\ r.status = "error" => s = r
         /\ (r.status # "error" /\ Refused(a)) => s.status = "error" /\ s.exit = 2
         /\ (r.status # "error" /\ ~Refused(a)) =>
              /\ s.status = IF a.opt \in {"version", "help"} THEN a.opt ELSE r.status
              /\ s.exit = r.exit /\ s.flags = r.flags \cup Wishes(a)
              /\ s.provisions = r.provisions + IF a.opt = "prov" THEN 1 ELSE 0
              /\ s.operands = r.operands + IF a.opt = "operand" THEN 1 ELSE 0
              /\ s.sha256 = IF a.opt \in {"sha256_only", "legacy_sha1"}
                            THEN a.opt = "sha256_only" ELSE r.sha256
<1> DEFINE s == Take(r, a)
<1>0. /\ DOMAIN r = {"status", "exit", "flags", "provisions", "operands", "scope", "sha256", "format"}
      /\ r.status \in {"ok", "help", "version", "error"} /\ r.exit \in {0, 1, 2}
      /\ r.flags \in SUBSET Flag /\ r.provisions \in Nat /\ r.operands \in Nat
      /\ r.scope \in (SUBSET Everywhere) \ {{}} /\ r.sha256 \in BOOLEAN /\ r.format \in Value
  BY DEF Parsed
<1>1. CASE r.status = "error"
  BY <1>1 DEF Take
<1>2. CASE r.status # "error" /\ Refused(a)
  <2>1. s = [r EXCEPT !.status = "error", !.exit = 2]
    BY <1>2 DEF Take
  <2> QED
    BY <1>2, <2>1 DEF Parsed
<1>3. CASE r.status # "error" /\ ~Refused(a)
  <2> DEFINE status == IF a.opt \in {"version", "help"} THEN a.opt ELSE r.status
             flags == r.flags \cup Wishes(a)
             provisions == r.provisions + IF a.opt = "prov" THEN 1 ELSE 0
             operands == r.operands + IF a.opt = "operand" THEN 1 ELSE 0
             scope == IF a.opt = "dylib_scope" THEN ParsedScope(a.value) ELSE r.scope
             sha256 == IF a.opt \in {"sha256_only", "legacy_sha1"}
                       THEN a.opt = "sha256_only" ELSE r.sha256
             format == IF a.opt = "audit-format" THEN a.value[1] ELSE r.format
  <2>1. s = [r EXCEPT !.status = status, !.flags = flags, !.provisions = provisions,
                      !.operands = operands, !.scope = scope, !.sha256 = sha256,
                      !.format = format]
    BY <1>3 DEF Take
  <2>2. status \in {"ok", "help", "version", "error"} /\ flags \in SUBSET Flag
    BY <1>0, WishesAreFlags
  <2>3. provisions \in Nat /\ operands \in Nat
    BY <1>0
  <2>4. scope \in (SUBSET Everywhere) \ {{}}
    BY <1>0, <1>3, ScopesAreSets DEF Refused
  <2>5. sha256 \in BOOLEAN
    BY <1>0
  <2>6. format \in Value
    BY <1>0, <1>3, FormatIsValue DEF Refused
  <2> HIDE DEF s, status, flags, provisions, operands, scope, sha256, format
  <2>7. /\ DOMAIN s = DOMAIN r /\ s.status = status /\ s.exit = r.exit /\ s.flags = flags
        /\ s.provisions = provisions /\ s.operands = operands /\ s.scope = scope
        /\ s.sha256 = sha256 /\ s.format = format
    BY <1>0, <2>1
  <2>8. s = [status |-> status, exit |-> r.exit, flags |-> flags, provisions |-> provisions,
             operands |-> operands, scope |-> scope, sha256 |-> sha256, format |-> format]
    BY <1>0, <2>1
  <2>9. s \in Parsed
    BY <1>0, <2>2, <2>3, <2>4, <2>5, <2>6, <2>8 DEF Parsed
  <2> USE DEF s
  <2> QED
    BY <1>3, <2>7, <2>9 DEF status, flags, provisions, operands, sha256
<1> QED
  BY <1>1, <1>2, <1>3

LEMMA NothingIsParsed == NothingParsed \in Parsed
<1>1. {"root"} \in (SUBSET Everywhere) \ {{}} /\ "text" \in Value
  BY DEF Everywhere, Value
<1> QED
  BY <1>1 DEF Parsed, NothingParsed

(* Parse takes one argument after another.                                 *)
LEMMA TakesRun ==
  ASSUME NEW list \in Seq(Argument)
  PROVE  \E h : /\ h[0] = NothingParsed
                /\ \A k \in 1 .. Len(list) : h[k] = Take(h[k - 1], list[k])
                /\ h[Len(list)] = FoldLeft(Take, NothingParsed, list)
<1> DEFINE n == Len(list)
           I == 1 .. n
           b == NothingParsed
           pick == [K \in (SUBSET I) \ {{}} |-> Greatest(K)]
           taking == [k \in I |-> [r \in Parsed |-> Take(r, list[k])]]
           body(g) == [K \in SUBSET I |-> IF K = {} THEN b
                         ELSE Take(g[K \ {Greatest(K)}], list[Greatest(K)])]
           s == CHOOSE g : g = body(g)
           h == [k \in 0 .. n |-> s[1 .. k]]
<1>1. n \in Nat /\ DOMAIN list = I /\ IsFiniteSet(I) /\ \A k \in I : list[k] \in Argument
  BY LenProperties, ElementOfSeq, FS_Interval
<1>2. FoldLeft(Take, NothingParsed, list) = s[I]
  <2>1. FoldLeft(Take, NothingParsed, list) =
          (CHOOSE g : g = [K \in SUBSET DOMAIN list |->
             IF K = {} THEN b ELSE Take(g[K \ {Greatest(K)}], list[Greatest(K)])])
          [DOMAIN list]
    BY DEF FoldLeft, MapThenFoldSet, Max, Greatest, Take
  <2> QED
    BY <1>1, <2>1
<1> HIDE DEF s, n, b
<1>3. pick \in Picks(I) /\ \A K \in (SUBSET I) \ {{}} : pick[K] = Greatest(K) /\ pick[K] \in K
  <2>1. pick \in Picks(I)
    BY <1>1, GreatestPicks
  <2> QED
    BY <2>1 DEF Picks
<1>4. /\ taking \in [I -> [Parsed -> Parsed]] /\ b \in Parsed
      /\ \A k \in I, r \in Parsed : taking[k][r] = Take(r, list[k])
  <2>1. \A k \in I, r \in Parsed : Take(r, list[k]) \in Parsed
    BY <1>1, TakeFields
  <2> QED
    BY <2>1, NothingIsParsed DEF b
<1> HIDE DEF I, pick, taking
<1>5. PICK f : Folds(f, I, Parsed, b, pick, taking)
  BY <1>1, <1>3, <1>4, FoldExists
<1>6. f = body(f)
  <2>1. /\ f \in [SUBSET I -> Parsed] /\ f[{}] = b
        /\ \A K \in (SUBSET I) \ {{}} : f[K] = taking[pick[K]][f[K \ {pick[K]}]]
    BY <1>5 DEF Folds
  <2>2. ASSUME NEW K \in SUBSET I
        PROVE  f[K] = IF K = {} THEN b
                      ELSE Take(f[K \ {Greatest(K)}], list[Greatest(K)])
    <3>1. CASE K = {}
      BY <2>1, <3>1
    <3>2. CASE K # {}
      <4>1. Greatest(K) \in I /\ pick[K] = Greatest(K)
        BY <1>3, <3>2
      <4>2. f[K \ {Greatest(K)}] \in Parsed /\ f[K] = taking[Greatest(K)][f[K \ {Greatest(K)}]]
        BY <2>1, <3>2, <4>1
      <4> QED
        BY <1>4, <3>2, <4>1, <4>2
    <3> QED
      BY <3>1, <3>2
  <2> QED
    BY <2>1, <2>2
<1>7. s = body(s)
  <2> HIDE DEF body
  <2> QED
    BY <1>6, Zenon DEF s
<1>8. /\ s[{}] = b
      /\ \A k \in I : s[1 .. k] = Take(s[1 .. k - 1], list[k])
  <2>1. /\ body(s)[{}] = b
        /\ \A K \in (SUBSET I) \ {{}} :
             body(s)[K] = Take(s[K \ {Greatest(K)}], list[Greatest(K)])
    OBVIOUS
  <2> HIDE DEF body
  <2>2. /\ s[{}] = b
        /\ \A K \in (SUBSET I) \ {{}} : s[K] = Take(s[K \ {Greatest(K)}], list[Greatest(K)])
    BY <1>7, <2>1, Zenon
  <2>3. ASSUME NEW k \in I PROVE s[1 .. k] = Take(s[1 .. k - 1], list[k])
    <3>1. /\ 1 .. k \in (SUBSET I) \ {{}} /\ Greatest(1 .. k) = k
          /\ (1 .. k) \ {k} = 1 .. k - 1
      BY <1>1, GreatestOfPrefix DEF I
    <3> QED
      BY <2>2, <3>1
  <2> QED
    BY <2>2, <2>3
<1>9. h[0] = b /\ \A k \in I : h[k] = Take(h[k - 1], list[k])
  <2>1. 1 .. 0 = {} /\ 0 \in 0 .. n
    BY <1>1
  <2>2. \A k \in I : k \in 0 .. n /\ k - 1 \in 0 .. n
    BY <1>1 DEF I
  <2> QED
    BY <1>8, <2>1, <2>2
<1>10. h[n] = FoldLeft(Take, NothingParsed, list)
  BY <1>1, <1>2 DEF I
<1> HIDE DEF h
<1> QED
  BY <1>9, <1>10 DEF I, b, n
------------------------------------------------------------------------------
(* The arguments of some kinds, and what stands between one turn and the next. *)
Of(list, opts) == {i \in DOMAIN list : list[i].opt \in opts}
Choosing == {"version", "help"}
Digests == {"sha256_only", "legacy_sha1"}

LEMMA OneMoreOf ==
  ASSUME NEW n \in Nat, NEW T \in SUBSET (1 .. n), NEW k \in 0 .. n - 1
  PROVE  /\ k + 1 \in T => /\ T \cap 1 .. k + 1 # {}
                           /\ Greatest(T \cap 1 .. k + 1) = k + 1
                           /\ Cardinality(T \cap 1 .. k + 1) = Cardinality(T \cap 1 .. k) + 1
         /\ k + 1 \notin T => T \cap 1 .. k + 1 = T \cap 1 .. k
         /\ Cardinality(T \cap 1 .. k) \in Nat
<1>1. IsFiniteSet(T \cap 1 .. k) /\ Cardinality(T \cap 1 .. k) \in Nat
  <2>1. IsFiniteSet(1 .. k)
    BY FS_Interval
  <2> QED
    BY <2>1, FS_Subset, FS_CardinalityType
<1>2. CASE k + 1 \in T
  <2>1. T \cap 1 .. k + 1 = (T \cap 1 .. k) \cup {k + 1} /\ k + 1 \notin T \cap 1 .. k
    BY <1>2
  <2>2. Cardinality(T \cap 1 .. k + 1) = Cardinality(T \cap 1 .. k) + 1
    BY <1>1, <2>1, FS_AddElement
  <2>3. T \cap 1 .. k + 1 \in (SUBSET (1 .. n)) \ {{}}
    BY <2>1
  <2>4. Greatest(T \cap 1 .. k + 1) = k + 1
    <3>1. /\ Greatest(T \cap 1 .. k + 1) \in T \cap 1 .. k + 1
          /\ \A j \in T \cap 1 .. k + 1 : Greatest(T \cap 1 .. k + 1) >= j
      BY <2>3, GreatestExists
    <3>2. Greatest(T \cap 1 .. k + 1) >= k + 1
      BY <2>1, <3>1
    <3> QED
      BY <3>1, <3>2
  <2> QED
    BY <1>1, <1>2, <2>1, <2>2, <2>4
<1>3. CASE k + 1 \notin T
  <2>1. T \cap 1 .. k + 1 = T \cap 1 .. k
    BY <1>3
  <2> QED
    BY <1>1, <1>3, <2>1
<1> QED
  BY <1>2, <1>3

(* What the first k arguments have said.                                   *)
Said(list, k, r) ==
  /\ r \in Parsed
  /\ r.status = "error" <=> \E i \in 1 .. k : Refused(list[i])
  /\ r.status = "error" => r.exit = 2
  /\ r.status # "error" =>
       LET choosing == Of(list, Choosing) \cap 1 .. k
           digests == Of(list, Digests) \cap 1 .. k
       IN  /\ r.exit = 0
           /\ r.status = IF choosing = {} THEN "ok" ELSE list[Greatest(choosing)].opt
           /\ r.flags = UNION {Wishes(list[i]) : i \in 1 .. k}
           /\ r.provisions = Cardinality(Of(list, {"prov"}) \cap 1 .. k)
           /\ r.operands = Cardinality(Of(list, {"operand"}) \cap 1 .. k)
           /\ r.sha256 <=> (digests = {} \/ list[Greatest(digests)].opt # "legacy_sha1")

LEMMA SaysNothing ==
  ASSUME NEW list \in Seq(Argument)
  PROVE  Said(list, 0, NothingParsed)
<1>1. 1 .. 0 = {}
  OBVIOUS
<1>2. Cardinality({}) = 0
  BY FS_EmptySet
<1>3. \A S : S \cap 1 .. 0 = {}
  BY <1>1
<1> QED
  BY <1>1, <1>2, <1>3, NothingIsParsed DEF Said, NothingParsed

LEMMA SaysOneMore ==
  ASSUME NEW list \in Seq(Argument), NEW k \in 0 .. Len(list) - 1, NEW r, Said(list, k, r)
  PROVE  Said(list, k + 1, Take(r, list[k + 1]))
<1> DEFINE n == Len(list)
           a == list[k + 1]
           s == Take(r, a)
           choosing(j) == Of(list, Choosing) \cap 1 .. j
           digests(j) == Of(list, Digests) \cap 1 .. j
<1> SUFFICES Said(list, k + 1, s)
  OBVIOUS
<1>1. n \in Nat /\ DOMAIN list = 1 .. n /\ k + 1 \in 1 .. n /\ a \in Argument
  BY LenProperties, ElementOfSeq
<1>2. 1 .. k + 1 = (1 .. k) \cup {k + 1}
  BY <1>1
<1>3. r \in Parsed
  BY DEF Said
<1>4. s \in Parsed
  BY <1>1, <1>3, TakeFields
<1>5. ASSUME NEW opts
      PROVE  /\ a.opt \in opts =>
                  /\ Of(list, opts) \cap 1 .. k + 1 # {}
                  /\ Greatest(Of(list, opts) \cap 1 .. k + 1) = k + 1
                  /\ Cardinality(Of(list, opts) \cap 1 .. k + 1)
                       = Cardinality(Of(list, opts) \cap 1 .. k) + 1
             /\ a.opt \notin opts =>
                  Of(list, opts) \cap 1 .. k + 1 = Of(list, opts) \cap 1 .. k
             /\ Cardinality(Of(list, opts) \cap 1 .. k) \in Nat
  <2> DEFINE T == Of(list, opts)
  <2>1. T \in SUBSET (1 .. n) /\ (k + 1 \in T <=> a.opt \in opts)
    BY <1>1 DEF Of
  <2>2. n \in Nat /\ k \in 0 .. n - 1
    BY <1>1
  <2> HIDE DEF a, T, n
  <2>3. /\ k + 1 \in T => /\ T \cap 1 .. k + 1 # {}
                          /\ Greatest(T \cap 1 .. k + 1) = k + 1
                          /\ Cardinality(T \cap 1 .. k + 1) = Cardinality(T \cap 1 .. k) + 1
        /\ k + 1 \notin T => T \cap 1 .. k + 1 = T \cap 1 .. k
        /\ Cardinality(T \cap 1 .. k) \in Nat
    BY <2>1, <2>2, OneMoreOf
  <2> QED
    BY <2>1, <2>3 DEF T
<1>6. CASE r.status = "error"
  <2>1. s = r
    BY <1>1, <1>3, <1>6, TakeFields
  <2>2. \E i \in 1 .. k + 1 : Refused(list[i])
    BY <1>2, <1>6 DEF Said
  <2> QED
    BY <1>6, <2>1, <2>2 DEF Said
<1>7. CASE r.status # "error" /\ Refused(a)
  <2>1. s.status = "error" /\ s.exit = 2
    BY <1>1, <1>3, <1>7, TakeFields
  <2>2. \E i \in 1 .. k + 1 : Refused(list[i])
    BY <1>2, <1>7
  <2> QED
    BY <1>4, <2>1, <2>2 DEF Said
<1>8. CASE r.status # "error" /\ ~Refused(a)
  <2>1. /\ s.status = IF a.opt \in {"version", "help"} THEN a.opt ELSE r.status
        /\ s.exit = r.exit /\ s.flags = r.flags \cup Wishes(a)
        /\ s.provisions = r.provisions + IF a.opt = "prov" THEN 1 ELSE 0
        /\ s.operands = r.operands + IF a.opt = "operand" THEN 1 ELSE 0
        /\ s.sha256 = IF a.opt \in {"sha256_only", "legacy_sha1"}
                      THEN a.opt = "sha256_only" ELSE r.sha256
    BY <1>1, <1>3, <1>8, TakeFields
  <2>2. /\ r.exit = 0
        /\ r.status = IF choosing(k) = {} THEN "ok" ELSE list[Greatest(choosing(k))].opt
        /\ r.flags = UNION {Wishes(list[i]) : i \in 1 .. k}
        /\ r.provisions = Cardinality(Of(list, {"prov"}) \cap 1 .. k)
        /\ r.operands = Cardinality(Of(list, {"operand"}) \cap 1 .. k)
        /\ r.sha256 <=> (digests(k) = {} \/ list[Greatest(digests(k))].opt # "legacy_sha1")
    BY <1>8 DEF Said
  <2>3. s.status # "error" /\ ~\E i \in 1 .. k + 1 : Refused(list[i])
    BY <1>2, <1>8, <2>1 DEF Said
  <2>4. s.status = IF choosing(k + 1) = {} THEN "ok" ELSE list[Greatest(choosing(k + 1))].opt
    <3>1. CASE a.opt \in Choosing
      <4>1. choosing(k + 1) # {} /\ Greatest(choosing(k + 1)) = k + 1
        BY <1>5, <3>1
      <4> QED
        BY <2>1, <3>1, <4>1 DEF Choosing
    <3>2. CASE a.opt \notin Choosing
      <4>1. choosing(k + 1) = choosing(k)
        BY <1>5, <3>2
      <4> QED
        BY <2>1, <2>2, <3>2, <4>1 DEF Choosing
    <3> QED
      BY <3>1, <3>2
  <2>5. s.flags = UNION {Wishes(list[i]) : i \in 1 .. k + 1}
    BY <1>2, <2>1, <2>2
  <2>6. s.provisions = Cardinality(Of(list, {"prov"}) \cap 1 .. k + 1)
    <3> DEFINE T == Of(list, {"prov"})
    <3>1. /\ a.opt = "prov" => Cardinality(T \cap 1 .. k + 1) = Cardinality(T \cap 1 .. k) + 1
          /\ a.opt # "prov" => T \cap 1 .. k + 1 = T \cap 1 .. k
          /\ Cardinality(T \cap 1 .. k) \in Nat
      BY <1>5
    <3> HIDE DEF T, a
    <3>2. CASE a.opt = "prov"
      BY <2>1, <2>2, <3>1, <3>2 DEF T
    <3>3. CASE a.opt # "prov"
      <4>1. s.provisions = r.provisions + 0 /\ r.provisions = Cardinality(T \cap 1 .. k)
        BY <2>1, <2>2, <3>3 DEF T
      <4>2. T \cap 1 .. k + 1 = T \cap 1 .. k
        BY <3>1, <3>3
      <4>3. s.provisions = Cardinality(T \cap 1 .. k)
        BY <3>1, <4>1
      <4> HIDE DEF s
      <4> QED
        BY <4>2, <4>3 DEF T
    <3> QED
      BY <3>2, <3>3
  <2>7. s.operands = Cardinality(Of(list, {"operand"}) \cap 1 .. k + 1)
    <3> DEFINE T == Of(list, {"operand"})
    <3>1. /\ a.opt = "operand" => Cardinality(T \cap 1 .. k + 1) = Cardinality(T \cap 1 .. k) + 1
          /\ a.opt # "operand" => T \cap 1 .. k + 1 = T \cap 1 .. k
          /\ Cardinality(T \cap 1 .. k) \in Nat
      BY <1>5
    <3> HIDE DEF T, a
    <3>2. CASE a.opt = "operand"
      BY <2>1, <2>2, <3>1, <3>2 DEF T
    <3>3. CASE a.opt # "operand"
      <4>1. s.operands = r.operands + 0 /\ r.operands = Cardinality(T \cap 1 .. k)
        BY <2>1, <2>2, <3>3 DEF T
      <4>2. T \cap 1 .. k + 1 = T \cap 1 .. k
        BY <3>1, <3>3
      <4>3. s.operands = Cardinality(T \cap 1 .. k)
        BY <3>1, <4>1
      <4> HIDE DEF s
      <4> QED
        BY <4>2, <4>3 DEF T
    <3> QED
      BY <3>2, <3>3
  <2>8. s.sha256 <=> (digests(k + 1) = {} \/ list[Greatest(digests(k + 1))].opt # "legacy_sha1")
    <3>1. CASE a.opt \in Digests
      <4>1. digests(k + 1) # {} /\ Greatest(digests(k + 1)) = k + 1
        BY <1>5, <3>1
      <4>2. s.sha256 = (a.opt = "sha256_only")
        BY <2>1, <3>1 DEF Digests
      <4> QED
        BY <3>1, <4>1, <4>2 DEF Digests
    <3>2. CASE a.opt \notin Digests
      <4>1. digests(k + 1) = digests(k)
        BY <1>5, <3>2
      <4>2. s.sha256 = r.sha256
        BY <2>1, <3>2 DEF Digests
      <4> QED
        BY <2>2, <4>1, <4>2
    <3> QED
      BY <3>1, <3>2
  <2>9. s.exit = 0
    BY <2>1, <2>2
  <2> HIDE DEF s
  <2> QED
    BY <1>4, <2>9, <2>3, <2>4, <2>5, <2>6, <2>7, <2>8 DEF Said
<1> QED
  BY <1>6, <1>7, <1>8

LEMMA AllSaid ==
  ASSUME NEW list \in Seq(Argument)
  PROVE  Said(list, Len(list), FoldLeft(Take, NothingParsed, list))
<1> DEFINE n == Len(list)
<1>1. n \in Nat
  BY LenProperties
<1>2. PICK h : /\ h[0] = NothingParsed
               /\ \A k \in 1 .. n : h[k] = Take(h[k - 1], list[k])
               /\ h[n] = FoldLeft(Take, NothingParsed, list)
  BY TakesRun
<1> DEFINE S == {k \in 0 .. n : Said(list, k, h[k])}
<1>3. 0 \in S
  BY <1>1, <1>2, SaysNothing
<1>4. ASSUME NEW k \in 0 .. n - 1, k \in S PROVE k + 1 \in S
  <2>1. k + 1 \in 1 .. n /\ (k + 1) - 1 = k /\ k + 1 \in 0 .. n
    BY <1>1
  <2>2. h[k + 1] = Take(h[k], list[k + 1])
    BY <1>2, <2>1
  <2>3. Said(list, k + 1, Take(h[k], list[k + 1]))
    BY <1>4, SaysOneMore
  <2> QED
    BY <2>1, <2>2, <2>3
<1> HIDE DEF S
<1>5. 0 .. n \subseteq S
  BY <1>1, <1>3, <1>4, Induction
<1>6. n \in S
  BY <1>1, <1>5
<1> QED
  BY <1>2, <1>6 DEF S

(* The last of the arguments of some kinds.                                *)
LEMMA LastOfIs ==
  ASSUME NEW list, NEW opts
  PROVE  LastOf(list, opts) =
           IF Of(list, opts) = {} THEN "none" ELSE list[Greatest(Of(list, opts))].opt
  BY DEF LastOf, Of, Max, Greatest

LEMMA LastOfIsOne ==
  ASSUME NEW list \in Seq(Argument), NEW opts, Of(list, opts) # {}
  PROVE  LastOf(list, opts) \in opts
<1>1. Len(list) \in Nat /\ Of(list, opts) \in (SUBSET (1 .. Len(list))) \ {{}}
  BY LenProperties DEF Of
<1>2. Greatest(Of(list, opts)) \in Of(list, opts)
  BY <1>1, GreatestExists
<1> QED
  BY <1>2, LastOfIs DEF Of

LEMMA WishesOf ==
  ASSUME NEW list \in Seq(Argument)
  PROVE  LET flags == UNION {Wishes(list[i]) : i \in DOMAIN list} IN
         /\ "audit" \in flags <=>
              Given(list) \cap {"audit", "audit-format", "audit-report", "strict-audit"} # {}
         /\ flags \ {"audit", "strict", "report"}
              = (Given(list) \cap Flag) \ {"audit", "strict", "report"}
<1> DEFINE flags == UNION {Wishes(list[i]) : i \in DOMAIN list}
<1>1. ASSUME NEW a
      PROVE  /\ "audit" \in Wishes(a) <=>
                  a.opt \in {"audit", "audit-format", "audit-report", "strict-audit"}
             /\ \A w : w \in Wishes(a) \ {"audit", "strict", "report"} <=>
                         w = a.opt /\ w \in Flag \ {"audit", "strict", "report"}
  BY DEF Wishes, Flag
<1>2. "audit" \in flags <=> \E i \in DOMAIN list : "audit" \in Wishes(list[i])
  OBVIOUS
<1>3. \A w : w \in flags \ {"audit", "strict", "report"} <=>
               \E i \in DOMAIN list : w \in Wishes(list[i]) \ {"audit", "strict", "report"}
  OBVIOUS
<1> HIDE DEF flags
<1>4. \A w : w \in flags \ {"audit", "strict", "report"} <=>
               w \in (Given(list) \cap Flag) \ {"audit", "strict", "report"}
  BY <1>1, <1>3 DEF Given
<1>5. "audit" \in flags <=>
        Given(list) \cap {"audit", "audit-format", "audit-report", "strict-audit"} # {}
  <2> DEFINE A == {"audit", "audit-format", "audit-report", "strict-audit"}
  <2>1. \A a : "audit" \in Wishes(a) <=> a.opt \in A
    BY <1>1
  <2> HIDE DEF A
  <2>2. "audit" \in flags <=> \E i \in DOMAIN list : list[i].opt \in A
    BY <1>2, <2>1
  <2>3. Given(list) \cap A # {} <=> \E i \in DOMAIN list : list[i].opt \in A
    BY DEF Given
  <2> QED
    BY <2>2, <2>3 DEF A
<1> QED
  BY <1>4, <1>5 DEF flags

LEMMA ParseMeans ==
  ASSUME NEW list \in Seq(Argument)
  PROVE  Parse(list) \in Parsed /\ Means(list, Parse(list))
<1> DEFINE n == Len(list)
           r == FoldLeft(Take, NothingParsed, list)
           p == Parse(list)
<1>1. n \in Nat /\ 1 .. n = DOMAIN list /\ \A opts : Of(list, opts) \cap 1 .. n = Of(list, opts)
  BY LenProperties DEF Of
<1>2. Said(list, n, r)
  BY AllSaid
<1>3. p = Finish(r)
  BY DEF Parse
<1> HIDE DEF n, r, p
<1>4. /\ r \in Parsed
      /\ r.status = "error" <=> \E i \in DOMAIN list : Refused(list[i])
      /\ r.status = "error" => r.exit = 2
  BY <1>1, <1>2 DEF Said
<1>5. ASSUME r.status # "error"
      PROVE  /\ r.exit = 0
             /\ r.status = IF Of(list, Choosing) = {} THEN "ok" ELSE LastOf(list, Choosing)
             /\ r.flags = UNION {Wishes(list[i]) : i \in DOMAIN list}
             /\ r.provisions = Cardinality(Of(list, {"prov"}))
             /\ r.operands = Cardinality(Of(list, {"operand"}))
             /\ r.sha256 <=> LastOf(list, Digests) # "legacy_sha1"
  <2>1. /\ r.exit = 0
        /\ r.status = IF Of(list, Choosing) = {} THEN "ok"
                      ELSE list[Greatest(Of(list, Choosing))].opt
        /\ r.flags = UNION {Wishes(list[i]) : i \in DOMAIN list}
        /\ r.provisions = Cardinality(Of(list, {"prov"}))
        /\ r.operands = Cardinality(Of(list, {"operand"}))
        /\ r.sha256 <=> (Of(list, Digests) = {}
                         \/ list[Greatest(Of(list, Digests))].opt # "legacy_sha1")
    BY <1>1, <1>2, <1>5 DEF Said
  <2> QED
    BY <2>1, LastOfIs
<1>6. /\ Operands(list) = Cardinality(Of(list, {"operand"}))
      /\ Cardinality({i \in DOMAIN list : list[i].opt = "prov"}) = Cardinality(Of(list, {"prov"}))
  <2>1. \A o : {i \in DOMAIN list : list[i].opt = o} = Of(list, {o})
    BY DEF Of
  <2> QED
    BY <2>1 DEF Operands
<1>7. Given(list) \cap {"version", "help"} = {} <=> Of(list, Choosing) = {}
  BY DEF Given, Of, Choosing
<1>8. Of(list, Choosing) # {} => LastOf(list, Choosing) \in {"version", "help"}
  BY LastOfIsOne DEF Choosing
<1>9. /\ r.status \in {"ok", "help", "version", "error"} /\ r.operands \in Nat
      /\ r.scope # {} /\ r.scope \subseteq Everywhere
      /\ \A s \in {"ok", "help", "version", "error"}, e \in {0, 1, 2} :
           LET q == [r EXCEPT !.status = s, !.exit = e]
           IN  q \in Parsed /\ q.status = s /\ q.exit = e
  BY <1>4 DEF Parsed
<1>10. CASE r.status = "error"
  <2>1. p = r
    BY <1>3, <1>10 DEF Finish
  <2>2. Meaning(list) = "error" /\ r.exit = 2
    BY <1>4, <1>10 DEF Meaning
  <2> QED
    BY <1>4, <1>10, <2>1, <2>2 DEF Means, ExitOfMain, p
<1>11. CASE r.status # "error" /\ Of(list, Choosing) # {}
  <2>1. /\ r.status \in {"version", "help"} /\ r.status = LastOf(list, {"version", "help"})
        /\ r.exit = 0 /\ r.operands = Operands(list)
    BY <1>5, <1>6, <1>8, <1>11 DEF Choosing
  <2>2. Meaning(list) = IF Operands(list) > 0 THEN "error" ELSE r.status
    BY <1>4, <1>7, <1>11, <2>1 DEF Meaning
  <2>3. CASE r.operands = 0
    <3>1. p = r
      BY <1>3, <1>11, <2>1, <2>3 DEF Finish
    <3>2. Meaning(list) = r.status
      BY <2>1, <2>2, <2>3
    <3> QED
      BY <1>4, <1>7, <1>11, <2>1, <3>1, <3>2 DEF Means, ExitOfMain, p
  <2>4. CASE r.operands # 0
    <3>1. p = [r EXCEPT !.status = "error", !.exit = 2]
      BY <1>3, <1>11, <2>1, <2>4 DEF Finish
    <3>2. p \in Parsed /\ p.status = "error" /\ p.exit = 2
      BY <1>9, <3>1
    <3>3. Meaning(list) = "error"
      BY <1>9, <2>1, <2>2, <2>4
    <3> QED
      BY <3>2, <3>3 DEF Means, ExitOfMain, p
  <2> QED
    BY <2>3, <2>4
<1>12. CASE r.status # "error" /\ Of(list, Choosing) = {}
  <2>1. r.status = "ok" /\ r.exit = 0 /\ r.operands = Operands(list)
    BY <1>5, <1>6, <1>12
  <2>2. Meaning(list) = IF Operands(list) = 1 THEN "ok"
                        ELSE IF Operands(list) = 0 THEN "help" ELSE "error"
    BY <1>4, <1>7, <1>12 DEF Meaning
  <2>3. CASE r.operands = 0
    <3>1. p = [r EXCEPT !.status = "help", !.exit = 1]
      BY <1>3, <2>1, <2>3 DEF Finish
    <3>2. p \in Parsed /\ p.status = "help" /\ p.exit = 1
      BY <1>9, <3>1
    <3>3. Meaning(list) = "help"
      BY <2>1, <2>2, <2>3
    <3> QED
      BY <1>7, <1>12, <3>2, <3>3 DEF Means, ExitOfMain, p
  <2>4. CASE r.operands > 1
    <3>1. p = [r EXCEPT !.status = "error", !.exit = 2]
      BY <1>3, <1>9, <2>1, <2>4 DEF Finish
    <3>2. p \in Parsed /\ p.status = "error" /\ p.exit = 2
      BY <1>9, <3>1
    <3>3. Meaning(list) = "error"
      BY <1>9, <2>1, <2>2, <2>4
    <3> QED
      BY <3>2, <3>3 DEF Means, ExitOfMain, p
  <2>5. CASE r.operands = 1
    <3>1. p = r /\ Meaning(list) = "ok"
      BY <1>3, <2>1, <2>2, <2>5 DEF Finish
    <3>2. /\ r.flags = UNION {Wishes(list[i]) : i \in DOMAIN list}
          /\ r.provisions = Cardinality({i \in DOMAIN list : list[i].opt = "prov"})
          /\ r.sha256 <=> LastOf(list, {"sha256_only", "legacy_sha1"}) # "legacy_sha1"
      BY <1>5, <1>6, <1>12 DEF Digests
    <3>3. /\ "audit" \in r.flags <=>
               Given(list) \cap {"audit", "audit-format", "audit-report", "strict-audit"} # {}
          /\ r.flags \ {"audit", "strict", "report"}
               = (Given(list) \cap Flag) \ {"audit", "strict", "report"}
      BY <3>2, WishesOf
    <3> QED
      BY <1>4, <1>9, <2>1, <3>1, <3>2, <3>3 DEF Means, p
  <2> QED
    BY <1>9, <2>3, <2>4, <2>5
<1> QED
  BY <1>10, <1>11, <1>12

------------------------------------------------------------------------------
(* The options of a run, and the types of its variables.                   *)

OptionsMeant ==
  /\ line \in CommandLines
  /\ options = IF at = "main" THEN NothingParsed ELSE Parse(line)

ExitTyped ==
  /\ exit \in {-1, 0, 1, 2, 3} /\ (exit = -1 <=> at # "exited")
  /\ subject.extension \in Suffix

LEMMA OptionsAreParsed ==
  ASSUME OptionsMeant
  PROVE  /\ options \in Parsed
         /\ at # "main" => Means(line, options)
         /\ Parse(line) \in Parsed
<1>1. line \in Seq(Argument)
  BY CommandLineAssumption DEF OptionsMeant
<1> QED
  BY <1>1, ParseMeans, NothingIsParsed DEF OptionsMeant

LEMMA NextOptionsMeant == OptionsMeant /\ [Next]_vars => OptionsMeant'
<1> SUFFICES ASSUME OptionsMeant, [Next]_vars PROVE OptionsMeant'
  OBVIOUS
<1> USE DEF OptionsMeant, Go, Exit, Given_
<1>1. CASE RunMain
  BY <1>1 DEF RunMain
<1>2. CASE UNCHANGED <<line, options>> /\ (at = "main" <=> at' = "main")
  BY <1>2
<1> QED
  BY <1>1, <1>2 DEF Next, Program, ValidateEnvironment, RunAudit,
     FinishAudit, AuditRuns, BeginRequestedCheck, BeginVerify, Check, FinishRequestedCheck,
     FinishVerify, Dispatch, OpenMachO, CreateSignAsset, EditMachO, SignMachO, Extract,
     SignFolder, FindSignedBinary, PackArchive, WriteMetadata, Install, CleanUp, CheckRuns,
     Resolver, vars, appVars

LEMMA NextExitTyped == OptionsMeant /\ ExitTyped /\ [Next]_vars => ExitTyped'
<1> SUFFICES ASSUME OptionsMeant, ExitTyped, [Next]_vars PROVE ExitTyped'
  OBVIOUS
<1> DEFINE ExitOnly == exit \in {-1, 0, 1, 2, 3} /\ (exit = -1 <=> at # "exited")
<1>1. ExitOnly'
  <2> USE DEF ExitTyped, Go, Exit
  <2>1. CASE RunMain
    <3>1. options'.exit \in {0, 1, 2}
      BY <2>1, OptionsAreParsed DEF RunMain, OptionsMeant, Parsed
    <3>2. ExitOfMain(options') \in {0, 1, 2}
      BY <3>1 DEF ExitOfMain
    <3> QED
      BY <2>1, <3>2 DEF RunMain
  <2>2. CASE CheckRuns \/ Resolver \/ AuditRuns \/ UNCHANGED vars
    BY <2>2 DEF CheckRuns, Resolver, AuditRuns, vars, appVars
  <2>3. CASE ValidateEnvironment \/ RunAudit \/ FinishAudit \/ Dispatch \/ OpenMachO
    BY <2>3 DEF ValidateEnvironment, RunAudit, FinishAudit, Dispatch, OpenMachO
  <2>4. CASE BeginRequestedCheck \/ BeginVerify \/ FinishRequestedCheck \/ FinishVerify
    BY <2>4 DEF BeginRequestedCheck, BeginVerify, Check, FinishRequestedCheck, FinishVerify
  <2>5. CASE CreateSignAsset \/ EditMachO \/ SignMachO \/ Extract \/ SignFolder
    BY <2>5 DEF CreateSignAsset, EditMachO, SignMachO, Extract, SignFolder
  <2>6. CASE FindSignedBinary \/ PackArchive
    BY <2>6 DEF FindSignedBinary, PackArchive
  <2>7. CASE WriteMetadata \/ Install
    BY <2>7 DEF WriteMetadata, Install
  <2>8. CASE CleanUp
    <3>1. at = "clean" /\ at' = "exited" /\ exit' \in {0, 1}
      BY <2>8 DEF CleanUp
    <3> QED
      BY <3>1
  <2> QED
    BY <2>1, <2>2, <2>3, <2>4, <2>5, <2>6, <2>7, <2>8 DEF Next, Program
<1>2. (subject.extension \in Suffix)'
  <2>1. CASE subject' = subject
    BY <2>1 DEF ExitTyped
  <2>2. CASE \E s : (s \in Subjects \/ s \in SignedSubjects) /\ CallCheck(s)
    BY <2>2, SubjectAssumption DEF CallCheck, SignedSubjects, Suffix
  <2>3. CASE TakeCode(Nobody)
    BY <2>3 DEF TakeCode, Nobody, Suffix
  <2>4. CASE CheckRuns \/ Resolver
    BY <2>1, <2>4 DEF CheckRuns, Resolver, CheckStep, ResolverStep, Load, Fork, AwaitAddress,
       AddressComplete, Kill, WaitForChild, Connect, Send, ReceiveHeader, ReceiveBody,
       VerifyResponse, ChildWrites, ChildExits
  <2>5. CASE BeginRequestedCheck \/ BeginVerify
    BY <2>2, <2>5 DEF BeginRequestedCheck, BeginVerify, Check
  <2>6. CASE FinishRequestedCheck \/ FinishVerify
    BY <2>3, <2>6 DEF FinishRequestedCheck, FinishVerify
  <2> QED
    BY <2>1, <2>4, <2>5, <2>6 DEF Next, Program, RunMain, ValidateEnvironment, RunAudit,
       FinishAudit, AuditRuns, Dispatch, OpenMachO, CreateSignAsset, EditMachO, SignMachO,
       Extract, SignFolder, FindSignedBinary, PackArchive, WriteMetadata, Install, CleanUp,
       checkVars, vars, appVars
<1> QED
  BY <1>1, <1>2 DEF ExitTyped

LEMMA OptionsStay == Spec => [](OptionsMeant /\ ExitTyped)
<1>1. Init => OptionsMeant /\ ExitTyped
  BY DEF Init, CheckInit, OptionsMeant, ExitTyped, Nobody, Suffix
<1> QED
  BY <1>1, NextOptionsMeant, NextExitTyped, PTL DEF Spec

(* The options a run works with are those its command line means, whatever *)
(* the order of the arguments and however many there are.                  *)
THEOREM OptionsAreMeant == Spec => []ParsedAsMeant
<1>1. OptionsMeant => ParsedAsMeant
  BY OptionsAreParsed DEF ParsedAsMeant
<1> QED
  BY <1>1, OptionsStay, PTL

(* Every variable has its type, and the exit code, one of the four that    *)
(* are documented, is given once, at the end.                              *)
THEOREM ApplicationTyped == Spec => []ApplicationTypeOK
<1>1. AppInv /\ OptionsMeant /\ ExitTyped /\ CheckInv /\ Pieced => ApplicationTypeOK
  <2> SUFFICES ASSUME AppInv, OptionsMeant, ExitTyped, CheckInv, Pieced
               PROVE  ApplicationTypeOK
    OBVIOUS
  <2>1. options.status \in {"ok", "help", "version", "error"} /\ options.scope \subseteq Everywhere
    BY OptionsAreParsed DEF Parsed
  <2>2. elapsed \in Nat
    BY DEF CheckInv, Opened
  <2> QED
    BY <2>1, <2>2 DEF ApplicationTypeOK, AppInv, AppTyped, ExitTyped, Pieced
<1> QED
  BY <1>1, Running, OptionsStay, ApplicationIsChecking, ChecksArePieced, PTL
==============================================================================
