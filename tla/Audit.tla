-------------------------------- MODULE Audit --------------------------------
(***************************************************************************)
(* core/audit.cpp: Service::Run looks at an archive, a folder or a Mach-O, *)
(* without changing it, and reports what stands in the way of signing it.  *)
(* A tree gives every path below its root a node; the actions are the      *)
(* stages of Run, and one step of the iteration that reads the binaries,   *)
(* which ends early without a word when the directory cannot be read on.   *)
(***************************************************************************)
EXTENDS Integers, SigningAsset

CONSTANTS
  Extension,    \* from the names in a path to their extension, in lower case
  Trees,        \* inputs that are tried
  Supplies,     \* keys, certificates, profiles and entitlements tried together
  ScanMayStop   \* whether reading a directory may fail half way

ASSUME ScanAssumption == ScanMayStop \in BOOLEAN
ASSUME TreesAssumption == \A t \in Trees : DOMAIN t.nodes \subseteq Seq(DOMAIN Extension)
ASSUME SuppliesAssumption ==
  \A s \in Supplies :
    /\ Proper(s.entitlements.dictionary)
    /\ s.profiles # <<>> => 1 \in DOMAIN s.profiles
    /\ \A i \in DOMAIN s.profiles : Proper(s.profiles[i].allowed)

VARIABLES
  stage,      \* the next stage of Run; "idle" outside of it
  tree,       \* what the input path holds
  supplied,   \* the files named on the command line
  adhoc,      \* Request::adhoc
  workspace,  \* the temporary directory
  roots,      \* scanRoots that are still to be read
  todo,       \* Mach-O files of the current root still to come
  missed,     \* those that an early end has passed over
  binaries,   \* Report::binaries, in order
  issues,     \* Report::issues: severity, code and what they are about
  matched     \* bundles with a matched profile, and the profile

auditVars == <<stage, tree, supplied, adhoc, workspace, roots, todo, missed, binaries,
               issues, matched>>

NoTree_ == [kind |-> "none", ext |-> "none", nodes |-> [p \in {} |-> ""],
            info |-> [p \in {} |-> ""], embedded |-> [p \in {} |-> ""]]
NoSupplies == [key |-> NoKey, cert |-> NoCertificate, present |-> {}, profiles |-> <<>>,
               entitlements |-> [given |-> FALSE, readable |-> FALSE, dictionary |-> NoEntitlements]]

------------------------------------------------------------------------------
(* Paths and discovery.                                                    *)

Below(p, q) == IsPrefix(q, p)
Ext(p) == IF p = <<>> THEN tree.ext ELSE Extension[Last(p)]
Bundle == {"app", "appex", "framework", "xctest"}
Skipped == {"dsym", "macosx"}
IsFolderAt(p) == p = <<>> \/ tree.nodes[p].kind = "folder"

(* What the iteration that starts at root comes to: links are not          *)
(* followed, some folders not entered.                                     *)
Reached(root) ==
  {p \in DOMAIN tree.nodes :
     /\ p # root /\ Below(p, root)
     /\ tree.nodes[p].kind # "link"
     /\ \A q \in DOMAIN tree.nodes :
          (q # p /\ q # root /\ Below(p, q) /\ Below(q, root)) =>
             tree.nodes[q].kind = "folder" /\ Ext(q) \notin Skipped}

(* FindBundlePaths.                                                        *)
Bundles ==
  {p \in {<<>>} \cup Reached(<<>>) : IsFolderAt(p) /\ Ext(p) \in Bundle}

(* FindScanRoots.                                                          *)
ScanRoots ==
  LET outermost == {p \in Bundles : Ext(p) = "app" /\
                      ~\E q \in Bundles : q # p /\ Ext(q) = "app" /\ Below(p, q)}
  IN  IF Ext(<<>>) \in {"app", "appex"} \/ outermost = {} THEN {<<>>} ELSE outermost

(* IsMachOFile of the files below a root.                                  *)
MachOs(root) == {p \in Reached(root) : tree.nodes[p].kind = "macho"}

(* fs::is_regular_file and IsMachOFile of a path, which follow a link.     *)
FileAt(p) == p \in DOMAIN tree.nodes /\ tree.nodes[p].kind \in {"macho", "file", "link"}
MachOAt(p) == FileAt(p) /\ tree.nodes[p].kind \in {"macho", "link"}
Executable(b) == Append(b, tree.info[b].exe)

------------------------------------------------------------------------------
(* Profiles.                                                               *)

(* ParseProfile and AddProfileIssues.                                      *)
ProfileValid(f) == Readable(f) /\ f.team # "" /\ f.idKey # "none"
Expired(f) == ProfileValid(f) /\ f.expires = "past"

External == {supplied.profiles[i] : i \in DOMAIN supplied.profiles}
EmbeddedProfiles == {tree.embedded[b] : b \in Bundles \cap DOMAIN tree.embedded}

(* ProfileMatchScore: an exact identifier beats any prefix, a longer       *)
(* prefix a shorter one.                                                   *)
Score(f, id) ==
  IF f.pattern = <<>> \/ id = <<>> THEN -1
  ELSE IF f.pattern = id THEN 100 + Len(id)
  ELSE IF IsPattern(f.pattern) /\ IsPrefix(Front(f.pattern), id) THEN Len(f.pattern) - 1
  ELSE -1

(* FindBestProfile; the first of those that score alike is taken.          *)
BestProfiles(candidates, id) ==
  LET usable == {f \in candidates : ProfileValid(f) /\ ~Expired(f) /\ Score(f, id) >= 0}
  IN  {f \in usable : \A g \in usable : Score(f, id) >= Score(g, id)}

(* The candidates of MatchProfiles: those supplied, or the embedded one.   *)
Candidates(b) ==
  IF supplied.profiles # <<>> THEN External
  ELSE IF b \in DOMAIN tree.embedded THEN {tree.embedded[b]} ELSE {}

Required(b) == ~adhoc /\ Ext(b) \in {"app", "appex"}

------------------------------------------------------------------------------
(* Issues.                                                                 *)

Issue(severity, issueCode, about) == [severity |-> severity, code |-> issueCode, about |-> about]
Error(issueCode, about) == Issue("error", issueCode, about)
Warning(issueCode, about) == Issue("warning", issueCode, about)
If(condition, issue) == IF condition THEN {issue} ELSE {}

(* ValidateIpaLayout.                                                      *)
LayoutIssues ==
  LET payload == <<"Payload">>
      apps == {p \in DOMAIN tree.nodes : Len(p) = 2 /\ p[1] = "Payload"
                 /\ tree.nodes[p].kind = "folder" /\ Ext(p) = "app"}
  IN  IF payload \notin DOMAIN tree.nodes \/ ~IsFolderAt(payload)
      THEN {Error("IPA_PAYLOAD_MISSING", payload)}
      ELSE If(Cardinality(apps) # 1, Error("IPA_MAIN_APP_COUNT_INVALID", payload))

(* ParseBundle.                                                            *)
BundleIssues(b) ==
  LET info == tree.info[b]
      exe == Executable(b)
  IN  IF ~info.valid THEN {Error("INFO_PLIST_INVALID", b)}
      ELSE If(info.id = <<>>, Error("BUNDLE_ID_MISSING", b))
           \cup If(~info.versioned, Warning("BUNDLE_VERSION_MISSING", b))
           \cup (IF info.exe = "" THEN {Error("BUNDLE_EXECUTABLE_MISSING", b)}
                 ELSE If(~FileAt(exe), Error("BUNDLE_EXECUTABLE_NOT_FOUND", exe))
                      \cup If(FileAt(exe) /\ ~MachOAt(exe),
                              Error("BUNDLE_EXECUTABLE_NOT_MACHO", exe)))

(* The members of a bundle whose Info.plist is not read stay empty.        *)
Id(b) == IF tree.info[b].valid THEN tree.info[b].id ELSE <<>>
HasExecutable(b) == tree.info[b].valid /\ tree.info[b].exe # ""

(* ValidateBundleIdentifiers.                                              *)
DuplicateIssues ==
  {Error("BUNDLE_ID_DUPLICATE", Id(b)) :
     b \in {c \in Bundles : Id(c) # <<>> /\ \E d \in Bundles \ {c} : Id(d) = Id(c)}}

(* Mutant of IsMainExecutable: only an app has one.                        *)
IsAppExecutable(p) == \E b \in Bundles : Ext(b) = "app" /\ HasExecutable(b) /\ Executable(b) = p
IsMainExecutable(p) == \E b \in Bundles : HasExecutable(b) /\ Executable(b) = p

(* AuditBinary of a file that parses.                                      *)
BinaryIssues(p, main, checkArm64) ==
  LET slices == Range(tree.nodes[p].slices) IN
  (IF \A s \in slices : s.signed THEN {}
   ELSE {Warning(IF \E s \in slices : s.signed THEN "BINARY_PARTIALLY_SIGNED"
                                               ELSE "BINARY_UNSIGNED", p)})
  \cup If(\E s \in slices : s.encrypted, Error("BINARY_ENCRYPTED", p))
  \cup If(main /\ ~\A s \in slices : s.executable, Error("MAIN_BINARY_TYPE_INVALID", p))
  \cup If(main /\ checkArm64 /\ ~\E s \in slices : s.arm64, Warning("MAIN_BINARY_ARM64_MISSING", p))

(* AddProfileIssues.                                                       *)
ProfileIssues(files) ==
  UNION {If(~ProfileValid(f), Error("PROFILE_INVALID", <<f.name>>))
         \cup If(Expired(f), Error("PROFILE_EXPIRED", <<f.name>>)) : f \in files}

(* Mutant of ProfilesToTry: only the first of several profiles.            *)
ProfilesToTryFirst ==
  IF supplied.profiles # <<>> THEN {Head(supplied.profiles)} ELSE EmbeddedProfiles

(* The profiles with which ValidateSigningAssets tries Init.               *)
ProfilesToTry == IF supplied.profiles # <<>> THEN External ELSE EmbeddedProfiles

AssetFor(f) == InitAsset(supplied.cert, supplied.key, f, supplied.entitlements, adhoc)

(* ValidateSigningAssets; present are the files that exist.                *)
AssetIssues ==
  LET givenKey == "key" \in supplied.present \/ "lost key" \in supplied.present
      givenCert == "cert" \in supplied.present \/ "lost cert" \in supplied.present
  IN  IF ~givenKey /\ ~givenCert THEN {}
      ELSE IF ~givenKey THEN {Error("PRIVATE_KEY_MISSING", <<"cert">>)}
      ELSE IF "lost key" \in supplied.present THEN {Error("PRIVATE_KEY_NOT_FOUND", <<"key">>)}
      ELSE IF "lost cert" \in supplied.present THEN {Error("CERTIFICATE_NOT_FOUND", <<"cert">>)}
      ELSE IF ~adhoc /\ ProfilesToTry = {} THEN {Error("SIGNING_PROFILE_REQUIRED", <<"key">>)}
      ELSE {Error("SIGNING_ASSET_INVALID", <<f.name>>) :
              f \in {g \in ProfilesToTry \cup (IF adhoc THEN {NoProfile} ELSE {}) : ~AssetFor(g).ready}}

------------------------------------------------------------------------------
(* Service::Run.                                                           *)

AuditInit ==
  /\ stage = "idle" /\ tree = NoTree_ /\ supplied = NoSupplies /\ adhoc = FALSE
  /\ workspace = "none" /\ roots = {} /\ todo = {} /\ missed = {} /\ binaries = <<>>
  /\ issues = {} /\ matched = {}

request == <<tree, supplied, adhoc>>
scanning == <<roots, todo, missed, binaries>>

(* The caller's step: Run(request).                                        *)
CallRun(input, supply, adHoc) ==
  /\ stage = "idle"
  /\ stage' = "open"
  /\ tree' = input /\ supplied' = supply /\ adhoc' = adHoc
  /\ UNCHANGED <<workspace, scanning, issues, matched>>

(* Run returns false: nothing is left of an extraction that failed.        *)
OpenInput ==
  /\ stage = "open"
  /\ \/ /\ tree.kind \in {"ipa", "other", "none"}
        /\ stage' = "failed"
        /\ UNCHANGED workspace
     \/ /\ tree.kind = "ipa"
        /\ workspace' = "extracted"
        /\ stage' = "bundles"
     \/ /\ tree.kind = "folder"
        /\ stage' = "bundles"
        /\ UNCHANGED workspace
     \/ /\ tree.kind = "macho"
        /\ stage' = "single"
        /\ UNCHANGED workspace
  /\ UNCHANGED <<request, scanning, issues, matched>>

(* A single Mach-O has no bundles and is not checked for arm64.            *)
AuditSingle ==
  /\ stage = "single"
  /\ LET p == CHOOSE q \in DOMAIN tree.nodes : TRUE IN
     IF tree.nodes[p].parses
     THEN binaries' = <<p>> /\ issues' = issues \cup BinaryIssues(p, FALSE, FALSE)
     ELSE issues' = issues \cup {Error("MACHO_INVALID", p)} /\ UNCHANGED binaries
  /\ stage' = "assets"
  /\ UNCHANGED <<request, workspace, roots, todo, missed, matched>>

(* From FindBundlePaths to FindScanRoots.                                  *)
DiscoverBundles ==
  /\ stage = "bundles"
  /\ issues' = issues
       \cup (IF tree.kind = "ipa" THEN LayoutIssues ELSE {})
       \cup (UNION {BundleIssues(b) : b \in Bundles})
       \cup DuplicateIssues
       \cup If(Bundles = {}, Warning("APP_BUNDLE_NOT_FOUND", <<>>))
  /\ roots' = ScanRoots
  /\ stage' = "scan"
  /\ UNCHANGED <<request, workspace, todo, missed, binaries, matched>>

EnterRoot ==
  /\ stage = "scan" /\ todo = {}
  /\ \E root \in roots :
       /\ roots' = roots \ {root}
       /\ todo' = MachOs(root)
  /\ UNCHANGED <<stage, request, workspace, missed, binaries, issues, matched>>

(* ScanMachOBinaries comes to one file, in an order of the directory's.    *)
AuditBinary ==
  /\ stage = "scan"
  /\ \E p \in todo :
       /\ todo' = todo \ {p}
       /\ IF tree.nodes[p].parses
          THEN /\ binaries' = Append(binaries, p)
               /\ issues' = issues \cup BinaryIssues(p, IsMainExecutable(p), TRUE)
          ELSE /\ issues' = issues \cup {Error("MACHO_INVALID", p)}
               /\ UNCHANGED binaries
  /\ UNCHANGED <<stage, request, workspace, roots, missed, matched>>

(* iterator.increment(error) fails: the loop over this root is over.       *)
StopScan ==
  /\ stage = "scan" /\ ScanMayStop
  /\ todo # {}
  /\ missed' = missed \cup todo
  /\ todo' = {}
  /\ UNCHANGED <<stage, request, workspace, roots, binaries, issues, matched>>

(* MatchProfiles, bundle by bundle; each step of its loop reads nothing    *)
(* that another one writes.                                                *)
MatchProfiles ==
  /\ stage = "scan" /\ todo = {} /\ roots = {}
  /\ LET needing == {b \in Bundles : Required(b)}
         best(b) == BestProfiles(Candidates(b), Id(b))
     IN  /\ \E f \in [{b \in needing : best(b) # {}} -> External \cup EmbeddedProfiles] :
              /\ \A b \in DOMAIN f : f[b] \in best(b)
              /\ matched' = {<<b, f[b]>> : b \in DOMAIN f}
         /\ issues' = issues
              \cup If(binaries = <<>>, Error("NO_SIGNABLE_BINARIES", <<>>))
              \cup {Warning("PROFILE_NOT_PROVIDED", b) : b \in {c \in needing : Candidates(c) = {}}}
              \cup {Error("PROFILE_BUNDLE_ID_MISMATCH", b) :
                      b \in {c \in needing : Candidates(c) # {} /\ best(c) = {}}}
  /\ stage' = "assets"
  /\ UNCHANGED <<request, workspace, scanning>>

(* AddProfileIssues, ValidateSigningAssets, FinalizeReport, and the end of *)
(* temporaryCleanup.                                                       *)
FinalizeReport ==
  /\ stage = "assets"
  /\ issues' = issues \cup AssetIssues
       \cup ProfileIssues(External \cup (IF tree.kind = "macho" THEN {} ELSE EmbeddedProfiles))
  /\ workspace' \in (IF workspace = "none" THEN {"none"} ELSE {"none", "stuck"})
  /\ stage' = "reported"
  /\ UNCHANGED <<request, scanning, matched>>

AuditStep ==
  \/ OpenInput \/ AuditSingle \/ DiscoverBundles \/ EnterRoot \/ AuditBinary \/ StopScan
  \/ MatchProfiles \/ FinalizeReport

(* An audit by itself, of any request.                                     *)
AuditNext ==
  \/ \E input \in Trees, supply \in Supplies, adHoc \in BOOLEAN : CallRun(input, supply, adHoc)
  \/ AuditStep
AuditSpec == AuditInit /\ [][AuditNext]_auditVars

ReadyForSigning == \A i \in issues : i.severity # "error"
HasBlockingIssues(strict) == ~ReadyForSigning \/ (strict /\ issues # {})

------------------------------------------------------------------------------
(* Properties.                                                             *)

(* A report that says ready has read the signing files as signing will:    *)
(* with a key given, every profile that may be used makes an asset, and    *)
(* every app and extension has a valid one among them that covers its      *)
(* identifier, unless none was to be had, which is a warning.              *)
ReadyMeansSignable ==
  (stage = "reported" /\ ReadyForSigning) =>
    /\ "key" \in supplied.present /\ ~adhoc =>
         \A f \in External \cup (IF External = {} THEN EmbeddedProfiles ELSE {}) : AssetFor(f).ready
    /\ tree.kind # "macho" =>
         \A b \in {c \in Bundles : Required(c)} :
           \/ \E m \in matched :
                m[1] = b /\ m[2] \in Candidates(b) /\ ~Expired(m[2]) /\ Score(m[2], Id(b)) >= 0
           \/ Warning("PROFILE_NOT_PROVIDED", b) \in issues

(* Unless a directory could not be read on, a report holds every Mach-O of *)
(* the roots once, or says why not; and when it is ready, the executable   *)
(* of every bundle in them parses, is decrypted and has the right type.    *)
AuditComplete ==
  (stage = "reported" /\ tree.kind # "macho" /\ missed = {}) =>
    LET all == UNION {MachOs(r) : r \in ScanRoots} IN
    /\ \A p \in all :
         Cardinality({i \in DOMAIN binaries : binaries[i] = p})
           = IF Error("MACHO_INVALID", p) \in issues THEN 0 ELSE 1
    /\ Range(binaries) \subseteq all
    /\ ReadyForSigning =>
         \A b \in Bundles :
           Executable(b) \in all =>
             /\ tree.nodes[Executable(b)].parses
             /\ \A s \in Range(tree.nodes[Executable(b)].slices) : s.executable /\ ~s.encrypted

(* Only what is run has to be MH_EXECUTE: a framework or a test bundle has *)
(* a library for its executable, and that is no reason not to sign it.     *)
BlockedOnlyForCause ==
  \A i \in issues :
    i.code = "MAIN_BINARY_TYPE_INVALID" =>
      \E b \in Bundles : Ext(b) \in {"app", "appex"} /\ HasExecutable(b) /\ Executable(b) = i.about
==============================================================================
