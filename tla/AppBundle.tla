------------------------------ MODULE AppBundle ------------------------------
(***************************************************************************)
(* core/app_bundle.cpp: AppBundle::SignFolder signs a bundle and the       *)
(* bundles and Mach-O files inside it, in place.  A bundle is sealed by    *)
(* its CodeResources, which records the hash of every file in its folder,  *)
(* and its executable's signature covers that file and the Info.plist.     *)
(* Whatever is written in a folder after it was sealed breaks the seal.    *)
(*                                                                         *)
(* Bytes are abstracted to what they were when somebody hashed them:       *)
(* writing a file makes every hash taken of it stale.                      *)
(***************************************************************************)
EXTENDS Naturals, FiniteSets, Sequences

CONSTANTS
  Node,      \* bundles: the app and every bundle inside it
  Root,      \* appFolder_, the node whose path is "/"
  Within,    \* Within[n]: the bundles inside n, at any depth
  Depth,     \* Depth[n]: the number of "/" in the path of n
  Kind,      \* Kind[n]: GetBundleType of n
  Lib,       \* Mach-O files that are no bundle's executable
  Home,      \* Home[l]: the innermost bundle that contains l
  Asset,     \* signing assets, one per provisioning profile
  AdHoc,     \* the assets without ProvisioningData
  Matches,   \* <<a, n>>: the application identifier of a ends with n's id
  NoAsset,   \* signed by somebody else, or no profile
  Options,   \* the command lines to consider
  MaxCalls   \* bound: calls of SignFolder on the same folder

ASSUME TreeAssumption ==
  /\ Root \in Node
  /\ Within \in [Node -> SUBSET Node]
  /\ Within[Root] = Node \ {Root}
  /\ Depth \in [Node -> Nat]
  /\ \A n \in Node : \A m \in Within[n] : Depth[m] > Depth[n] /\ Within[m] \subseteq Within[n]
ASSUME LibAssumption == Home \in [Lib -> Node]
ASSUME AssetAssumption == AdHoc \subseteq Asset /\ NoAsset \notin Asset

Scope == {"root", "extensions", "frameworks", "files"}

(* -f; -b, -n, -r and the Info.plist modifications; -R; -l; -D; the scope; *)
(* the profiles of -m, in order.                                           *)
Option == [force : BOOLEAN, modify : BOOLEAN, removeProvision : BOOLEAN,
           inject : BOOLEAN, drop : SUBSET Lib, scope : SUBSET Scope,
           profiles : Seq(Asset)]

ASSUME OptionsAssumption ==
  Options # {} /\ \A o \in Options : o \in Option /\ Len(o.profiles) > 0
ASSUME CallsAssumption == MaxCalls \in Nat

------------------------------------------------------------------------------
(* The files of a bundle that matter.                                      *)

Exe(n) == <<"executable", n>>
Info(n) == <<"Info.plist", n>>
Resources(n) == <<"CodeResources", n>>
Profile(n) == <<"embedded.mobileprovision", n>>
Copied(n) == <<"injected dylib", n>>
Library(l) == <<"library", l>>

Library_ == {Library(l) : l \in Lib}
File ==
  (UNION {{Exe(n), Info(n), Resources(n), Profile(n), Copied(n)} : n \in Node}) \cup Library_
MachO == (UNION {{Exe(n), Copied(n)} : n \in Node}) \cup Library_

Folder(f) == IF f \in Library_ THEN Home[f[2]] ELSE f[2]

(* What GenerateCodeResources lists for n, when it exists.                 *)
Covered(n) ==
  {f \in File : Folder(f) \in {n} \cup Within[n]} \ {Exe(n), Resources(n)}

VARIABLES
  exists,    \* the files on disk
  listed,    \* listed[n]: the files in the CodeResources of n
  fresh,     \* fresh[n]: those whose recorded hash is that of the file
  signature, \* of each Mach-O file: the asset, what it covers, edits since
  profile,   \* profile[n]: the asset whose profile is embedded in n
  cache,     \* .orchardseal_cache/<hash>.json: whether it exists, its files,
             \* and the bundles whose Info.plist hash in it is right
  pc,        \* the next statement
  opts,      \* the arguments of the call
  forceSign, \* forceSign_
  asset,     \* signingAsset_
  plan,      \* jvRoot: its files, and the bundles whose hash in it is right
  node,      \* the node SignNode works on
  files,     \* the entries of "files" still to sign
  nodes,     \* the entries of "folders" still to sign
  forced,    \* the nodes whose bForceSign is set
  kept,      \* executables with a copy of the unedited original
  finished,  \* history: the nodes whose SignNode has returned true
  faults,    \* history: the failures the call survived
  calls      \* bounds the behaviour

disk == <<exists, listed, fresh, signature, profile>>
call == <<opts, forceSign, asset, plan, node, files, nodes, forced, kept>>
history == <<finished, faults, calls>>
vars == <<disk, cache, pc, call, history>>

NoPlan == [files |-> {}, info |-> {}]
NoCache == [present |-> FALSE, files |-> {}, info |-> {}]

Unsigned == [asset |-> NoAsset, covers |-> {}, edited |-> FALSE]

------------------------------------------------------------------------------
(* Writing and removing files.                                             *)

Stale(changed) == [n \in Node |-> fresh[n] \ changed]

(* The signatures after files have been written: an executable's no longer *)
(* covers an Info.plist or a CodeResources that has.                       *)
Uncover(sigs, changed) ==
  [m \in MachO |->
     [sigs[m] EXCEPT !.covers =
        {c \in @ : <<c, m[2]>> \notin changed}]]

(* The files `changed` are written and nothing else of the disk changes    *)
(* but what the other operands say.                                        *)
WriteFiles(changed, sigs) ==
  /\ exists' = exists \cup changed
  /\ fresh' = Stale(changed)
  /\ signature' = Uncover(sigs, changed)

Signed(m, force, covers) ==
  [asset |-> asset, covers |-> covers, edited |-> signature[m].edited /\ ~force]

Fail ==
  /\ pc' = "failed"
  /\ faults' = faults \cup {"io"}

(* A failure that changes nothing.                                         *)
FailAt(label) ==
  /\ pc = label
  /\ Fail
  /\ UNCHANGED <<disk, cache, call, finished, calls>>

Init ==
  /\ exists = {f \in File : f[1] \in {"executable", "Info.plist", "library"}}
                \cup {Profile(n) : n \in {m \in Node : Kind[m] # "framework"}}
  /\ listed = [n \in Node |-> {}]
  /\ fresh = [n \in Node |-> {}]
  /\ signature = [m \in MachO |-> Unsigned]
  /\ profile = [n \in Node |-> NoAsset]
  /\ cache = NoCache
  /\ pc = "failed"
  /\ opts = CHOOSE o \in Options : TRUE
  /\ forceSign = FALSE
  /\ asset = opts.profiles[1]
  /\ plan = NoPlan
  /\ node = Root /\ files = {} /\ nodes = {} /\ forced = {} /\ kept = {}
  /\ finished = {} /\ faults = {} /\ calls = 0

(* SignFolder: what a previous call has left in the object or on disk.     *)
Begin(o) ==
  /\ pc \in {"done", "failed"} /\ calls < MaxCalls
  /\ calls' = calls + 1
  /\ opts' = o
  /\ asset' = o.profiles[1]
  /\ forceSign' = (o.force \/ o.modify)
  /\ plan' = NoPlan
  /\ node' = Root /\ files' = {} /\ nodes' = {} /\ forced' = {} /\ kept' = {}
  /\ finished' = {} /\ faults' = {}
  /\ pc' = IF o.modify THEN "modify" ELSE "dropprofile"
  /\ UNCHANGED <<disk, cache>>

Plugins == {n \in Node \ {Root} : Kind[n] \in {"app", "appex"}}

(* ApplyAppModifications and ModifyBundleInfo: the Info.plist of every     *)
(* extension and the app's own are written, and the hashes of these that   *)
(* the cache holds are no longer right.  A failure leaves some written.    *)
ModifyBundleInfo ==
  /\ pc = "modify"
  /\ \E ns \in SUBSET (Plugins \cup {Root}) :
       /\ WriteFiles({Info(n) : n \in ns}, signature)
       /\ cache' = [cache EXCEPT !.info = @ \ ns]
       /\ \/ ns = Plugins \cup {Root} /\ pc' = "dropprofile" /\ UNCHANGED faults
          \/ Fail
  /\ UNCHANGED <<listed, profile, call, finished, calls>>

(* The app's old profile goes; nobody looks at the result.                 *)
DropProfile ==
  /\ pc = "dropprofile"
  /\ \/ /\ exists' = exists \ {Profile(Root)}
        /\ profile' = [profile EXCEPT ![Root] = NoAsset]
        /\ fresh' = Stale({Profile(Root)})
        /\ UNCHANGED faults
     \/ /\ Profile(Root) \in exists
        /\ faults' = faults \cup {"remove"}
        /\ UNCHANGED <<exists, profile, fresh>>
  /\ pc' = IF asset \in AdHoc THEN "plan" ELSE "writeprofile"
  /\ UNCHANGED <<listed, signature, cache, call, finished, calls>>

EmbedProfile(n, a) ==
  /\ profile' = [profile EXCEPT ![n] = a]
  /\ WriteFiles(IF profile[n] = a /\ Profile(n) \in exists THEN {} ELSE {Profile(n)},
                signature)

(* Writing the profile of n fails: it is as it was, or cut short.          *)
ProfileFails(n) ==
  /\ \/ UNCHANGED disk
     \/ /\ profile' = [profile EXCEPT ![n] = NoAsset]
        /\ WriteFiles({Profile(n)}, signature)
        /\ UNCHANGED listed
  /\ Fail
  /\ UNCHANGED <<cache, call, finished, calls>>

WriteProfile ==
  \/ pc = "writeprofile" /\ ProfileFails(Root)
  \/ /\ pc = "writeprofile"
     /\ EmbedProfile(Root, asset)
     /\ pc' = "plan"
     /\ UNCHANGED <<listed, cache, call, history>>

MustForce == forceSign \/ opts.inject \/ opts.drop # {} \/ ~cache.present

(* Mutant of Plan: the files are always those of the folder.               *)
PlanRescanning ==
  \/ FailAt("plan")
  \/ /\ pc = "plan"
     /\ forceSign' = MustForce
     /\ plan' = IF MustForce THEN [files |-> exists \cap MachO, info |-> Node]
                             ELSE [files |-> cache.files, info |-> cache.info]
     /\ files' = (exists \cap MachO) \ {Exe(Root)}
     /\ nodes' = Node \ {Root}
     /\ forced' = IF MustForce THEN Node ELSE {}
     /\ pc' = "inject"
     /\ UNCHANGED <<disk, cache, opts, asset, node, kept, history>>

(* GetSignFolderInfo and GetObjectsToSign inspect the folder, unless the   *)
(* answer of an earlier call is in the cache.                              *)
Plan ==
  \/ FailAt("plan")
  \/ /\ pc = "plan"
     /\ forceSign' = MustForce
     /\ plan' = IF MustForce THEN [files |-> exists \cap MachO, info |-> Node]
                             ELSE [files |-> cache.files, info |-> cache.info]
     /\ files' = plan'.files \ {Exe(Root)}
     /\ nodes' = Node \ {Root}
     /\ forced' = IF MustForce THEN Node ELSE {}
     /\ pc' = "inject"
     /\ UNCHANGED <<disk, cache, opts, asset, node, kept, history>>

------------------------------------------------------------------------------
(* Dylibs.                                                                 *)

(* ShouldInjectDylibsIntoNode.                                             *)
InScope(n) ==
  /\ opts.inject \/ opts.drop # {}
  /\ \/ n = Root /\ "root" \in opts.scope
     \/ n # Root /\ Kind[n] = "framework" /\ "frameworks" \in opts.scope
     \/ n # Root /\ Kind[n] \in {"app", "appex", "xctest"} /\ "extensions" \in opts.scope

(* Mutant of Edited: SignCopiedDylibs is not called.                       *)
EditedLeavingCopy(m) ==
  LET n == Folder(m)
      copied == IF opts.inject /\ m # Copied(n) THEN {Copied(n)} ELSE {}
  IN [changed |-> {m} \cup copied,
      sigs |-> [x \in MachO |->
                  IF x = m THEN [signature[m] EXCEPT !.edited = TRUE]
                  ELSE IF x \in copied THEN Unsigned
                  ELSE signature[x]]]

(* InjectDylibsIntoTarget copies the dylib beside m, adds a load command   *)
(* to m, and SignCopiedDylibs signs the copy; RemoveDylibs edits m too.    *)
Edited(m) ==
  LET n == Folder(m)
      copied == IF opts.inject /\ m # Copied(n) THEN {Copied(n)} ELSE {}
  IN [changed |-> {m} \cup copied,
      sigs |-> [x \in MachO |->
                  IF x = m THEN [signature[m] EXCEPT !.edited = TRUE]
                  ELSE IF x \in copied THEN [asset |-> asset, covers |-> {}, edited |-> FALSE]
                  ELSE signature[x]]]

Keep(m) == IF signature[m].edited THEN {} ELSE {m}

(* Editing m fails: nothing has happened, only the copy is there, or m has *)
(* been edited, the copy cannot be signed and ~MachOFile drops the copy of *)
(* m's original.                                                           *)
EditFails(m) ==
  /\ \/ WriteFiles({}, signature)
     \/ /\ opts.inject
        /\ \E sigs \in {[signature EXCEPT ![Copied(Folder(m))] = Unsigned],
                       [Edited(m).sigs EXCEPT ![m] = signature[m]]} :
             WriteFiles({Copied(Folder(m))}, sigs)
     \/ /\ opts.inject /\ m # Copied(Folder(m))
        /\ WriteFiles(Edited(m).changed, [Edited(m).sigs EXCEPT ![Copied(Folder(m))] = Unsigned])
  /\ Fail

(* The beginning of SignNode: the executable is mapped and edited when the *)
(* node is in the scope; a file with the name of a removed dylib goes.     *)
InjectNode ==
  LET exe == Exe(node)
      gone == {Library(l) : l \in {k \in opts.drop : Home[k] = node}} \cap exists
  IN \/ FailAt("inject")
     \/ /\ pc = "inject" /\ ~InScope(node)
        /\ pc' = IF node = Root THEN "files" ELSE "profile"
        /\ UNCHANGED <<disk, cache, call, history>>
     \/ /\ pc = "inject" /\ InScope(node)
        /\ \E removed \in SUBSET gone :
             /\ exists' = (exists \cup Edited(exe).changed) \ removed
             /\ fresh' = Stale(Edited(exe).changed \cup removed)
             /\ faults' = IF removed = gone THEN faults ELSE faults \cup {"remove"}
        /\ signature' = Edited(exe).sigs
        /\ kept' = kept \cup Keep(exe)
        /\ forced' = forced \cup {node}
        /\ pc' = IF node = Root THEN "files" ELSE "profile"
        /\ UNCHANGED <<listed, profile, cache, opts, forceSign, asset, plan, node,
                        files, nodes, finished, calls>>
     \/ /\ pc = "inject" /\ InScope(node)
        /\ EditFails(exe)
        /\ UNCHANGED <<listed, profile, cache, call, finished, calls>>

------------------------------------------------------------------------------
(* The other Mach-O files, which include the executables of the bundles    *)
(* inside.                                                                 *)

InFilesScope == "files" \in opts.scope

(* fileMachO.Init fails: the file is skipped with a warning, also when it  *)
(* is a Mach-O file that could not be mapped.                              *)
SkipFile(f) ==
  /\ pc = "files" /\ f \in files
  /\ files' = files \ {f}
  /\ faults' = IF f \in exists THEN faults \cup {"skip"} ELSE faults
  /\ UNCHANGED <<disk, cache, pc, opts, forceSign, asset, plan, node, nodes, forced,
                  kept, finished, calls>>

SignFile(f) ==
  /\ pc = "files" /\ f \in files \cap exists
  /\ LET edit == InFilesScope /\ (opts.inject \/ opts.drop # {})
         changed == IF edit THEN Edited(f).changed ELSE {f}
         sigs == IF edit THEN Edited(f).sigs ELSE signature
         force == forceSign \/ InFilesScope
     IN WriteFiles(changed, [sigs EXCEPT ![f] = Signed(f, force, {})])
  /\ files' = files \ {f}
  /\ UNCHANGED <<listed, profile, cache, pc, opts, forceSign, asset, plan, node, nodes,
                  forced, kept, history>>

SignFileFails(f) ==
  /\ pc = "files" /\ f \in files \cap exists
  /\ \/ InFilesScope /\ (opts.inject \/ opts.drop # {}) /\ EditFails(f)
     \/ WriteFiles({}, signature) /\ Fail
  /\ UNCHANGED <<listed, profile, cache, call, finished, calls>>

FilesSigned ==
  /\ pc = "files" /\ files = {}
  /\ pc' = "folders"
  /\ UNCHANGED <<disk, cache, call, history>>

------------------------------------------------------------------------------
(* The bundles inside, deeper paths first, then the app itself.            *)

(* Mutant of NextFolder: the bundles are not sorted.                       *)
NextFolderUnsorted ==
  /\ pc = "folders"
  /\ \/ \E n \in nodes :
          /\ node' = n /\ nodes' = nodes \ {n} /\ pc' = "inject"
     \/ /\ nodes = {}
        /\ node' = Root /\ nodes' = nodes /\ pc' = "profile"
  /\ UNCHANGED <<disk, cache, opts, forceSign, asset, plan, files, forced, kept, history>>

NextFolder ==
  /\ pc = "folders"
  /\ \/ \E n \in nodes :
          /\ \A m \in nodes : Depth[m] <= Depth[n]
          /\ node' = n /\ nodes' = nodes \ {n} /\ pc' = "inject"
     \/ /\ nodes = {}
        /\ node' = Root /\ nodes' = nodes /\ pc' = "profile"
  /\ UNCHANGED <<disk, cache, opts, forceSign, asset, plan, files, forced, kept, history>>

(* The last profile whose application identifier ends with the node's id.  *)
MatchIndexes(n) ==
  IF Len(opts.profiles) > 1 /\ ~opts.removeProvision /\ Kind[n] # "framework"
    THEN {i \in 1 .. Len(opts.profiles) : <<opts.profiles[i], n>> \in Matches}
    ELSE {}
Chosen(n) ==
  opts.profiles[CHOOSE i \in MatchIndexes(n) : \A j \in MatchIndexes(n) : j <= i]

(* Mutant of ChooseProfile: the profile does not choose the signer.        *)
ChooseProfileOnly ==
  \/ pc = "profile" /\ MatchIndexes(node) # {} /\ ProfileFails(node)
  \/ /\ pc = "profile" /\ MatchIndexes(node) # {}
     /\ EmbedProfile(node, Chosen(node))
     /\ forced' = forced \cup {node}
     /\ pc' = "seal"
     /\ UNCHANGED <<listed, cache, opts, forceSign, asset, plan, node, files, nodes, kept, history>>
  \/ /\ pc = "profile" /\ MatchIndexes(node) = {}
     /\ pc' = "seal"
     /\ UNCHANGED <<disk, cache, call, history>>

(* signingAsset_ stays what it was for a node that no profile matches.     *)
ChooseProfile ==
  \/ pc = "profile" /\ MatchIndexes(node) # {} /\ ProfileFails(node)
  \/ /\ pc = "profile" /\ MatchIndexes(node) # {}
     /\ asset' = Chosen(node)
     /\ EmbedProfile(node, Chosen(node))
     /\ forced' = forced \cup {node}
     /\ pc' = "seal"
     /\ UNCHANGED <<listed, cache, opts, forceSign, plan, node, files, nodes, kept, history>>
  \/ /\ pc = "profile" /\ MatchIndexes(node) = {}
     /\ pc' = "seal"
     /\ UNCHANGED <<disk, cache, call, history>>

(* A CodeResources that was cut short when it was written lists nothing;   *)
(* whether its plist can still be read is left open.                       *)
Unreadable == Resources(node) \notin exists \/ listed[node] = {}
Readable == Resources(node) \in exists

(* Writing the CodeResources of the node, whose entries are `names` and    *)
(* whose hashes of `right` are right; `gone` has been removed from disk.   *)
WriteResources(names, right, gone) ==
  /\ listed' = [listed EXCEPT ![node] = names]
  /\ fresh' = [Stale({Resources(node)} \cup gone) EXCEPT ![node] = right]
  /\ exists' = (exists \cup {Resources(node)}) \ gone
  /\ signature' = Uncover(signature, {Resources(node)})
  /\ profile' = IF gone = {} THEN profile ELSE [profile EXCEPT ![node] = NoAsset]

(* Mutant of Generate: the profile is removed after it has been listed.    *)
GenerateListingProfile ==
  LET gone == IF opts.removeProvision THEN {Profile(node)} \cap exists ELSE {}
      names == exists \cap Covered(node)
  IN /\ pc = "seal" /\ (node \in forced \/ Unreadable)
     /\ \/ /\ WriteResources(names, names, gone)
           /\ pc' = "sign"
           /\ UNCHANGED faults
        \/ /\ WriteResources({}, {}, gone)
           /\ Fail
     /\ UNCHANGED <<cache, call, finished, calls>>

(* GenerateCodeResources, which removes the profile when asked to, and     *)
(* writing what it has generated.                                          *)
Generate ==
  LET gone == IF opts.removeProvision THEN {Profile(node)} \cap exists ELSE {}
      names == (exists \cap Covered(node)) \ gone
  IN /\ pc = "seal" /\ (node \in forced \/ Unreadable)
     /\ \/ /\ WriteResources(names, names, gone)
           /\ pc' = "sign"
           /\ UNCHANGED faults
        \/ /\ WriteResources({}, {}, gone)
           /\ Fail
     /\ UNCHANGED <<cache, call, finished, calls>>

(* A file cannot be removed, hashed or listed: the profile may have gone.  *)
GenerateFails ==
  /\ pc = "seal" /\ (node \in forced \/ Unreadable)
  /\ \/ UNCHANGED disk
     \/ /\ opts.removeProvision
        /\ exists' = exists \ {Profile(node)}
        /\ fresh' = Stale({Profile(node)})
        /\ profile' = [profile EXCEPT ![node] = NoAsset]
        /\ UNCHANGED <<listed, signature>>
  /\ Fail
  /\ UNCHANGED <<cache, call, finished, calls>>

(* "changed" of the root; the other nodes have none.                       *)
Changed ==
  IF node = Root
    THEN plan.files \cup {Exe(n) : n \in Node \ {Root}}
           \cup {Resources(n) : n \in Node \ {Root}} \cup {Profile(Root)}
    ELSE {}

(* An existing CodeResources is kept but for the changed files.            *)
Update ==
  /\ pc = "seal" /\ node \notin forced /\ Readable
  /\ \/ /\ Changed \subseteq exists
        /\ WriteResources(listed[node] \cup Changed, fresh[node] \cup Changed, {})
        /\ pc' = "sign"
        /\ UNCHANGED faults
     \/ /\ ~(Changed \subseteq exists)
        /\ pc' = "failed"
        /\ UNCHANGED <<disk, faults>>
     \/ /\ Changed \subseteq exists
        /\ WriteResources({}, {}, {})
        /\ Fail
  /\ UNCHANGED <<cache, call, finished, calls>>

(* The end of SignNode, and for the root that of SignFolder, which writes  *)
(* the cache if it can.                                                    *)
SignExecutable ==
  /\ pc = "sign"
  /\ LET covers == IF node \in plan.info THEN {"Info.plist", "CodeResources"} ELSE {"CodeResources"}
     IN WriteFiles({Exe(node)},
          [signature EXCEPT ![Exe(node)] = Signed(Exe(node), node \in forced, covers)])
  /\ finished' = finished \cup {node}
  /\ IF node = Root
       THEN /\ pc' = "done"
            /\ cache' \in {cache, [present |-> TRUE, files |-> plan.files, info |-> plan.info]}
       ELSE /\ pc' = "folders"
            /\ UNCHANGED cache
  /\ UNCHANGED <<listed, profile, call, faults, calls>>

(* macho.Sign fails and restores the copy it has of the original.          *)
SignExecutableFails ==
  /\ pc = "sign"
  /\ IF Exe(node) \in kept
       THEN WriteFiles({Exe(node)}, [signature EXCEPT ![Exe(node)].edited = FALSE])
       ELSE WriteFiles({}, signature)
  /\ Fail
  /\ UNCHANGED <<listed, profile, cache, call, finished, calls>>

Next ==
  \/ \E o \in Options : Begin(o)
  \/ ModifyBundleInfo \/ DropProfile \/ WriteProfile \/ Plan
  \/ InjectNode
  \/ \E f \in files : SkipFile(f) \/ SignFile(f) \/ SignFileFails(f)
  \/ FilesSigned \/ NextFolder
  \/ ChooseProfile \/ Generate \/ GenerateFails \/ Update
  \/ SignExecutable \/ SignExecutableFails

Spec == Init /\ [][Next]_vars

------------------------------------------------------------------------------
(* Properties.                                                             *)

AppTypeOK ==
  /\ exists \subseteq File
  /\ listed \in [Node -> SUBSET File] /\ fresh \in [Node -> SUBSET File]
  /\ signature \in [MachO -> [asset : Asset \cup {NoAsset},
                              covers : SUBSET {"Info.plist", "CodeResources"},
                              edited : BOOLEAN]]
  /\ profile \in [Node -> Asset \cup {NoAsset}]
  /\ cache \in [present : BOOLEAN, files : SUBSET MachO, info : SUBSET Node]
  /\ pc \in {"modify", "dropprofile", "writeprofile", "plan", "inject", "files",
             "folders", "profile", "seal", "sign", "done", "failed"}
  /\ opts \in Options /\ forceSign \in BOOLEAN /\ asset \in Asset
  /\ plan \in [files : SUBSET MachO, info : SUBSET Node]
  /\ node \in Node /\ files \subseteq plan.files
  /\ nodes \cup forced \cup finished \subseteq Node
  /\ kept \subseteq {Exe(n) : n \in Node}
  /\ faults \subseteq {"io", "remove", "skip"}
  /\ calls \in 0 .. MaxCalls

(* The CodeResources of n names every file of its folder, and no other,    *)
(* with the hash the file has now.                                         *)
Sealed(n) ==
  /\ listed[n] = exists \cap Covered(n)
  /\ fresh[n] = listed[n]

Bound(n) ==
  /\ signature[Exe(n)].covers = {"Info.plist", "CodeResources"}
  /\ ~signature[Exe(n)].edited

(* SignNode: once it has returned true for a bundle, nothing that happens  *)
(* in the rest of the call, to the bundles around it or in a failure,      *)
(* breaks the seal of that bundle or what its signature covers.            *)
FinishedNodesSealed ==
  \A n \in finished :
    IF forceSign THEN Sealed(n) /\ Bound(n)
                 ELSE "CodeResources" \in signature[Exe(n)].covers

(* When SignFolder returns true and forceSign_ was set, every Mach-O file  *)
(* of the bundle is signed, as it is now, by one of the given assets,      *)
(* unless a file could not be mapped and was skipped.                      *)
EverythingSigned ==
  (pc = "done" /\ forceSign /\ "skip" \notin faults)
    => \A m \in MachO \cap exists :
         /\ ~signature[m].edited
         /\ \E i \in 1 .. Len(opts.profiles) : signature[m].asset = opts.profiles[i]

(* A bundle that one of several profiles is meant for embeds that profile  *)
(* and is signed with the identity that belongs to it.                     *)
ProfileMatchesSigner ==
  \A n \in finished : MatchIndexes(n) # {} =>
    /\ Profile(n) \in exists
    /\ profile[n] = Chosen(n)
    /\ signature[Exe(n)].asset = Chosen(n)

(* With --rm_provision and forceSign_ set, no bundle that SignNode has     *)
(* finished has a profile, and none of them was removed under a seal.      *)
ForcedRemovesProvision ==
  (forceSign /\ opts.removeProvision) =>
    \A n \in finished : Profile(n) \notin exists \cup listed[n]

(* "Remove embedded.mobileprovision after signing."                        *)
ProvisionRemoved ==
  (pc = "done" /\ faults = {} /\ opts.removeProvision)
    => \A n \in Node : Profile(n) \notin exists

(* "Bundle-aware signing for apps, extensions, frameworks, test bundles,   *)
(* and nested binaries": a bundle that SignFolder says it has signed is    *)
(* sealed.                                                                 *)
SealedWhenSigned ==
  (pc = "done" /\ faults = {}) => \A n \in Node : Sealed(n) /\ Bound(n)

(* A call that meets no failing system call succeeds.                      *)
FailsOnlyForCause == (pc = "failed" /\ calls > 0) => "io" \in faults
==============================================================================
