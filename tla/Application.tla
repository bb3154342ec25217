----------------------------- MODULE Application -----------------------------
(***************************************************************************)
(* cli/main.cpp and cli/application.cpp: one process parses its command    *)
(* line and runs one workflow to an exit code.  Parsing is Options, the    *)
(* check of a certificate CertificateCheck, an audit Audit, and keys,      *)
(* certificates and profiles become assets as in SigningAsset.  The other  *)
(* components take part with what they promise: Extract and Archive        *)
(* publish or keep (ZipArchive), a MachOFile installs an edit or restores  *)
(* (MachOFile), SignFolder signs everything or leaves whatever it has      *)
(* changed (AppBundle).                                                    *)
(***************************************************************************)
EXTENDS Options, CertificateCheck, Audit

CONSTANTS
  CommandLines,  \* the command lines that are tried
  Targets,       \* what the operand may be
  Subjects       \* what a file that is to be checked may hold

ASSUME CommandLineAssumption == CommandLines \subseteq Seq(Argument)
ASSUME TargetAssumption ==
  Targets \subseteq {"archive", "folder", "macho", "certificate", "missing"}
Suffix == {"none", "ipa", "provision", "p12", "cer", "pem"}
ASSUME SubjectAssumption == \A s \in Subjects : s.extension \in Suffix

VARIABLES
  line,       \* the arguments of the process
  target,     \* what the operand names
  options,    \* ParseResult
  at,         \* the next statement
  ok,         \* signedOk
  disk,       \* what the workflow has made of its files
  verified,   \* whether the last certificate check has passed
  installed,  \* whether the device has the app
  stuck,      \* removals that failed
  assets,     \* the signing assets that are ready
  signers,    \* those that have signed
  exit        \* the exit code; -1 while running

files == <<disk, installed, stuck>>
signing == <<assets, signers>>
appVars == <<line, target, options, at, ok, disk, verified, installed, stuck,
             signing, exit>>
vars == <<appVars, checkVars, auditVars>>

Nobody == [readable |-> FALSE, extension |-> "none", magic |-> "none", slices |-> <<>>,
           cert |-> FALSE, chain |-> FALSE, current |-> FALSE, wwdr |-> FALSE, issued |-> FALSE]

Content == {"none", "original", "changed", "signed", "partial"}
Disk == [input : Content, work : Content, output : {"previous", "published"},
         temp : {"none", "published"}, metadata : {"none", "partial", "written"},
         report : BOOLEAN]

Wants(w) == w \in options.flags
Archive == target = "archive"
Provisions == options.provisions
Product == IF Archive THEN disk.work ELSE disk.input
Change(content) == IF Archive THEN [disk EXCEPT !.work = content]
                              ELSE [disk EXCEPT !.input = content]
Exit(c) == at' = "exited" /\ exit' = c
Go(a) == at' = a /\ UNCHANGED exit
Given_ == <<line, target>>

Init ==
  /\ line \in CommandLines /\ target \in Targets
  /\ options = NothingParsed /\ at = "main" /\ ok = FALSE
  /\ disk = [input |-> "original", work |-> "none", output |-> "previous",
             temp |-> "none", metadata |-> "none", report |-> FALSE]
  /\ verified = FALSE /\ installed = FALSE /\ stuck = {} /\ exit = -1
  /\ assets = {} /\ signers = {}
  /\ CheckInit(Nobody) /\ AuditInit

------------------------------------------------------------------------------
(* Main, Run and its short workflows.                                      *)

RunMain ==
  /\ at = "main"
  /\ options' = Parse(line)
  /\ IF options'.status = "ok" THEN Go("run") ELSE Exit(ExitOfMain(options'))
  /\ UNCHANGED <<Given_, ok, verified, files, signing, checkVars, auditVars>>

(* ValidateEnvironment: the operand exists; the temporary folder, a dylib  *)
(* or an icon may be wrong.                                                *)
ValidateEnvironment ==
  /\ at = "run"
  /\ \/ Exit(1)
     \/ /\ target # "missing"
        /\ Go(IF Wants("audit") THEN "audit"
              ELSE IF Wants("check") /\ ~Wants("key") /\ Provisions = 0 THEN "request"
              ELSE "dispatch")
  /\ UNCHANGED <<Given_, options, ok, verified, files, signing, checkVars, auditVars>>

(* The files the command line names: there are as many as it says.         *)
Fitting ==
  {s \in Supplies :
     /\ Wants("key") <=> s.present \cap {"key", "lost key"} # {}
     /\ Wants("cert") <=> s.present \cap {"cert", "lost cert"} # {}
     /\ Wants("entitlements") <=> s.entitlements.given
     /\ Len(s.profiles) = Provisions}

InputKind == [archive |-> "ipa", folder |-> "folder", macho |-> "macho", certificate |-> "other"]

(* RunAudit: its Service is the module Audit.                              *)
RunAudit ==
  /\ at = "audit"
  /\ \E input \in {t \in Trees : t.kind = InputKind[target]}, s \in Fitting :
       CallRun(input, s, Wants("adhoc"))
  /\ Go("auditing")
  /\ UNCHANGED <<Given_, options, ok, verified, files, signing, checkVars>>

(* The report is written, in a folder that may have to be made, before the *)
(* verdict.                                                                *)
FinishAudit ==
  /\ at = "auditing" /\ stage \in {"failed", "reported"}
  /\ \/ /\ stage = "failed" \/ Wants("report")
        /\ Exit(1)
        /\ UNCHANGED disk
     \/ /\ stage = "reported"
        /\ disk' = [disk EXCEPT !.report = Wants("report")]
        /\ Exit(IF HasBlockingIssues(Wants("strict")) THEN 3 ELSE 0)
  /\ UNCHANGED <<Given_, options, ok, verified, installed, stuck, signing, checkVars, auditVars>>

(* The three places that call CheckCertificate.                            *)
Check(s, waiting) ==
  /\ CallCheck(s)
  /\ Go(waiting)
  /\ UNCHANGED <<Given_, options, ok, verified, files, signing, auditVars>>

BeginRequestedCheck ==
  /\ at = "request"
  /\ \E s \in Subjects : Check(s, "requested")

(* Mutants of FinishRequestedCheck: the value itself is the exit code; a   *)
(* check that passes does not end the run.                                 *)
FinishWithValue ==
  /\ at = "requested"
  /\ TakeCode(Nobody)
  /\ verified' = (code = 0)
  /\ Exit(code)
  /\ UNCHANGED <<Given_, options, ok, files, signing, auditVars>>

FinishGoingOn ==
  /\ at = "requested"
  /\ TakeCode(Nobody)
  /\ verified' = (code = 0)
  /\ IF code = 0 THEN Go("dispatch") ELSE Exit(1)
  /\ UNCHANGED <<Given_, options, ok, files, signing, auditVars>>

FinishRequestedCheck ==
  /\ at = "requested"
  /\ TakeCode(Nobody)
  /\ verified' = (code = 0)
  /\ Exit(IF code = 0 THEN 0 ELSE 1)
  /\ UNCHANGED <<Given_, options, ok, files, signing, auditVars>>

(* An archive or a folder is a bundle; an archive needs somewhere to go.   *)
Dispatch ==
  /\ at = "dispatch"
  /\ IF target \notin {"archive", "folder"} THEN Go("open")
     ELSE IF Archive /\ ~Wants("output") /\ ~Wants("install") THEN Exit(1)
     ELSE Go("asset")
  /\ UNCHANGED <<Given_, options, ok, verified, files, signing, checkVars, auditVars>>

------------------------------------------------------------------------------
(* ProcessSingleMachO.                                                     *)

OnlyPrintInfo ==
  ~Wants("adhoc") /\ ~Wants("dylib") /\ ~Wants("rmdylib") /\ (~Wants("key") \/ Provisions = 0)

OpenMachO ==
  /\ at = "open"
  /\ \/ Exit(1)
     \/ /\ target = "macho"
        /\ IF OnlyPrintInfo THEN Exit(0) ELSE Go("asset")
  /\ UNCHANGED <<Given_, options, ok, verified, files, signing, checkVars, auditVars>>

FirstProfile(s) == IF s.profiles = <<>> THEN NoProfile ELSE s.profiles[1]

(* CreateSignAsset with the first profile, before anything is touched.     *)
CreateSignAsset ==
  /\ at = "asset"
  /\ \E s \in Fitting :
       /\ supplied' = s /\ adhoc' = Wants("adhoc")
       /\ LET asset == InitAsset(s.cert, s.key, FirstProfile(s), s.entitlements, Wants("adhoc")) IN
          IF asset.ready
          THEN /\ assets' = {asset}
               /\ Go(IF Archive THEN "extract" ELSE IF target = "folder" THEN "sign" ELSE "edit")
          ELSE Exit(1) /\ UNCHANGED assets
  /\ UNCHANGED <<Given_, options, ok, verified, files, signers, checkVars, stage, tree, workspace,
                 scanning, issues, matched>>

(* InjectDylib for each dylib, then RemoveDylibs: a failing one is undone  *)
(* or leaves the last edit.                                                *)
EditMachO ==
  /\ at = "edit"
  /\ LET edits == Wants("dylib") \/ Wants("rmdylib") IN
     \/ /\ edits
        /\ \E content \in {"original", "changed"} : disk' = Change(content)
        /\ Exit(1)
     \/ /\ disk' = IF edits THEN Change("changed") ELSE disk
        /\ Go("sign")
  /\ UNCHANGED <<Given_, options, ok, verified, installed, stuck, signing, checkVars, auditVars>>

SignMachO ==
  /\ at = "sign" /\ target = "macho"
  /\ \/ Exit(1) /\ UNCHANGED <<disk, ok, signers>>
     \/ /\ \A a \in assets : CanSign(a)
        /\ disk' = Change("signed")
        /\ ok' = TRUE
        /\ signers' = assets
        /\ IF Wants("check") THEN Go("verify") ELSE Exit(0)
  /\ UNCHANGED <<Given_, options, verified, installed, stuck, assets, checkVars, auditVars>>

(* What CheckCertificate reads after signing: an ad-hoc signature has no   *)
(* certificate.                                                            *)
SignedSubjects ==
  {s \in [readable : {TRUE}, extension : {"none"}, magic : {"macho"},
          slices : {<<[signed |-> TRUE, cert |-> ~Wants("adhoc")]>>},
          cert : {FALSE}, chain : {FALSE}, current : BOOLEAN, wwdr : BOOLEAN,
          issued : BOOLEAN] : s.issued => s.wwdr}

BeginVerify ==
  /\ at = "verify"
  /\ \E s \in SignedSubjects : Check(s, "verifying")

(* Mutant of FinishVerify: the result is only reported.                    *)
FinishVerifyAnyhow ==
  /\ at = "verifying"
  /\ TakeCode(Nobody)
  /\ verified' = (code = 0)
  /\ IF target = "macho" THEN Exit(0) ELSE Go("archive")
  /\ UNCHANGED <<Given_, options, ok, files, signing, auditVars>>

FinishVerify ==
  /\ at = "verifying"
  /\ TakeCode(Nobody)
  /\ verified' = (code = 0)
  /\ ok' = (code = 0)
  /\ IF target = "macho" THEN Exit(IF code = 0 THEN 0 ELSE 1) ELSE Go("archive")
  /\ UNCHANGED <<Given_, options, files, signing, auditVars>>

------------------------------------------------------------------------------
(* ProcessBundleOrArchive.                                                 *)

Extract ==
  /\ at = "extract"
  /\ \/ Exit(1) /\ UNCHANGED disk
     \/ disk' = Change("original") /\ Go("sign")
  /\ UNCHANGED <<Given_, options, ok, verified, installed, stuck, signing, checkVars, auditVars>>

(* An asset for each of several profiles, of which those that fail are     *)
(* dropped, and SignFolder, which needs one; it may use any of them.       *)
SignFolder ==
  /\ at = "sign" /\ target # "macho"
  /\ assets' = IF Provisions > 1 THEN {a \in {AssetFor(f) : f \in External} : a.ready} ELSE assets
  /\ \/ /\ disk' \in (IF assets' = {} THEN {disk} ELSE {disk, Change("changed")})
        /\ ok' = FALSE
        /\ Go("archive")
        /\ UNCHANGED signers
     \/ /\ signers' \in {used \in SUBSET assets' : used # {} /\ \A a \in used : CanSign(a)}
        /\ disk' = Change("signed")
        /\ ok' = TRUE
        /\ Go(IF Wants("check") THEN "binary" ELSE "archive")
  /\ UNCHANGED <<Given_, options, verified, installed, stuck, checkVars, auditVars>>

(* CheckSignedBinary: Info.plist names the executable.                     *)
FindSignedBinary ==
  /\ at = "binary"
  /\ \/ ok' = FALSE /\ Go("archive")
     \/ UNCHANGED ok /\ Go("verify")
  /\ UNCHANGED <<Given_, options, verified, files, signing, checkVars, auditVars>>

Packs == ok /\ (Wants("output") \/ Wants("install"))
Packed == IF Wants("output") THEN [disk EXCEPT !.output = "published"]
                             ELSE [disk EXCEPT !.temp = "published"]

(* Mutant of PackArchive: a failure returns at once.                       *)
PackOrReturn ==
  /\ at = "archive"
  /\ IF ~Packs THEN Go("install") /\ UNCHANGED <<disk, ok>>
     ELSE \/ Exit(1) /\ UNCHANGED <<disk, ok>>
          \/ /\ disk' = Packed
             /\ Go(IF Wants("metadata") THEN "metadata" ELSE "install")
             /\ UNCHANGED ok
  /\ UNCHANGED <<Given_, options, verified, installed, stuck, signing, checkVars, auditVars>>

(* The folder above Payload, which the app's path may not have, is packed. *)
PackArchive ==
  /\ at = "archive"
  /\ IF ~Packs THEN Go("install") /\ UNCHANGED <<disk, ok>>
     ELSE \/ ok' = FALSE /\ Go("install") /\ UNCHANGED disk
          \/ /\ disk' = Packed
             /\ Go(IF Wants("metadata") THEN "metadata" ELSE "install")
             /\ UNCHANGED ok
  /\ UNCHANGED <<Given_, options, verified, installed, stuck, signing, checkVars, auditVars>>

(* Mutant of WriteMetadata: only the folder is needed.                     *)
WriteMetadataAnyhow ==
  /\ at = "metadata"
  /\ \/ ok' = FALSE /\ UNCHANGED disk
     \/ /\ \E m \in {"partial", "written"} : disk' = [disk EXCEPT !.metadata = m]
        /\ UNCHANGED ok
  /\ Go("install")
  /\ UNCHANGED <<Given_, options, verified, installed, stuck, signing, checkVars, auditVars>>

(* CreateFolder and GetMetadata: Info.plist is read, the largest icon is   *)
(* looked for and exported, metadata.json written last.  A failure to      *)
(* export the icon only drops its name.                                    *)
WriteMetadata ==
  /\ at = "metadata"
  /\ \/ /\ ok' = FALSE
        /\ \E m \in {"none", "partial"} : disk' = [disk EXCEPT !.metadata = m]
     \/ /\ disk' = [disk EXCEPT !.metadata = "written"]
        /\ UNCHANGED ok
  /\ Go("install")
  /\ UNCHANGED <<Given_, options, verified, installed, stuck, signing, checkVars, auditVars>>

Install ==
  /\ at = "install"
  /\ IF ok /\ Wants("install")
     THEN \E done \in BOOLEAN : ok' = done /\ installed' = done
     ELSE UNCHANGED <<ok, installed>>
  /\ Go("clean")
  /\ UNCHANGED <<Given_, options, verified, disk, stuck, signing, checkVars, auditVars>>

(* RemoveFolder of the working folder, RemoveFile of a temporary archive;  *)
(* their results are not looked at.                                        *)
CleanUp ==
  /\ at = "clean"
  /\ \E failing \in SUBSET {"work", "temp"} :
       /\ failing \subseteq (IF disk.work # "none" THEN {"work"} ELSE {})
                            \cup (IF disk.temp # "none" THEN {"temp"} ELSE {})
       /\ stuck' = failing
       /\ disk' = [disk EXCEPT !.work = IF "work" \in failing THEN "partial" ELSE "none",
                               !.temp = IF "temp" \in failing THEN @ ELSE "none"]
  /\ Exit(IF ok THEN 0 ELSE 1)
  /\ UNCHANGED <<Given_, options, ok, verified, installed, signing, checkVars, auditVars>>

CheckRuns == at \in {"requested", "verifying"} /\ CheckStep /\ UNCHANGED <<appVars, auditVars>>
Resolver == ResolverStep /\ UNCHANGED <<appVars, auditVars>>
AuditRuns == at = "auditing" /\ AuditStep /\ UNCHANGED <<appVars, checkVars>>

Program ==
  \/ RunMain \/ ValidateEnvironment \/ RunAudit \/ FinishAudit \/ AuditRuns
  \/ BeginRequestedCheck \/ FinishRequestedCheck \/ Dispatch
  \/ OpenMachO \/ CreateSignAsset \/ EditMachO \/ SignMachO \/ BeginVerify \/ FinishVerify
  \/ Extract \/ SignFolder \/ FindSignedBinary \/ PackArchive \/ WriteMetadata \/ Install
  \/ CleanUp \/ CheckRuns

Next == Program \/ Resolver

(* The process is scheduled; nothing is assumed of the resolver's child,   *)
(* the server or the outcome of any call.                                  *)
Spec == Init /\ [][Next]_vars /\ WF_vars(Program)

------------------------------------------------------------------------------
(* Properties.                                                             *)

(* Every variable has its type; the exit code is one of the four that the  *)
(* documentation of the exit codes knows, and given once.                  *)
ApplicationTypeOK ==
  /\ options.status \in {"ok", "help", "version", "error"}
  /\ options.scope \subseteq Everywhere
  /\ disk \in Disk /\ ok \in BOOLEAN /\ verified \in BOOLEAN /\ installed \in BOOLEAN
  /\ exit \in {-1, 0, 1, 2, 3} /\ (exit = -1 <=> at # "exited")
  /\ code \in -2 .. 2 /\ elapsed \in Nat /\ pipe \in 0 .. AddressParts
  /\ child \in {"none", "running", "killed", "exited"}
  /\ subject.extension \in Suffix

(* What a process leaves in the temporary folder when it ends is only what *)
(* it could not remove, whichever workflow and failure it ends with.       *)
NothingLeftInTemp ==
  at = "exited" =>
    /\ disk.work # "none" => "work" \in stuck
    /\ disk.temp # "none" => "temp" \in stuck
    /\ workspace # "extracted"

(* Exit code 0 means that all the command line asked for was done: a check *)
(* that was asked for has passed, what was to be signed is signed, packed, *)
(* described and installed.                                                *)
SuccessMeansDone ==
  (at = "exited" /\ exit = 0 /\ options.status = "ok") =>
    IF Wants("audit") THEN Wants("report") => disk.report
    ELSE IF ~Wants("key") /\ Provisions = 0 /\ Wants("check") THEN verified
    ELSE IF target = "macho"
    THEN OnlyPrintInfo \/ (disk.input = "signed" /\ (Wants("check") => verified))
    ELSE /\ target = "folder" => disk.input = "signed"
         /\ Wants("check") => verified
         /\ Wants("output") => disk.output = "published"
         /\ Wants("install") => installed
         /\ (Wants("metadata") /\ (Wants("output") \/ Wants("install")))
              => disk.metadata = "written"

(* An archive is published from a folder that is signed, and checked where *)
(* that was asked for; no step makes one out of anything else.             *)
PublishedOnlySigned ==
  [][(disk'.output # disk.output \/ (disk.temp = "none" /\ disk'.temp # "none")
      \/ (installed' /\ ~installed))
       => Product = "signed" /\ (Wants("check") => verified)]_vars

(* Only a run that signs changes its operand: audits, checks, a print-out  *)
(* and the signing of an archive leave it as it was.                       *)
InputUntouched ==
  disk.input # "original" =>
    /\ target \in {"folder", "macho"}
    /\ ~Wants("audit") /\ assets # {}
    /\ ~(Wants("check") /\ ~Wants("key") /\ Provisions = 0)

(* Whoever signs, other than ad hoc, signs with the key of a certificate   *)
(* that is valid and in the profile, of the profile's team, grants nothing *)
(* the profile does not, and sends the chain from the certificate's issuer *)
(* to Apple's root along.                                                  *)
SignedAsProvisioned ==
  \A a \in signers :
    a.adhoc \/
      /\ a.leaf.key = a.key /\ a.leaf.current
      /\ a.leaf \in a.profile.certs /\ a.leaf.team = a.profile.team
      /\ a.profile.trusted /\ a.profile.expires = "later"
      /\ Grants(a.granted) \subseteq Grants(a.profile.allowed)
      /\ a.leaf.issuer \in OtherCerts(a)
      /\ \A c \in OtherCerts(a) \cap Intermediates : RootOf[c] \in OtherCerts(a)

(* The options a run works with are those its command line means, whatever *)
(* the order of the arguments.                                             *)
ParsedAsMeant == at # "main" => Means(line, options)

(* Every run ends, also when the resolver hangs and the server is silent.  *)
RunEnds == <>(at = "exited")
==============================================================================
