--------------------------- MODULE AppBundleProofs ---------------------------
(***************************************************************************)
(* Proofs about AppBundle, for every tree of bundles, every command line   *)
(* and any number of calls: its type invariant, what SignNode has done to  *)
(* a bundle stays done until the call returns, and a forced call signs     *)
(* every Mach-O file.                                                      *)
(***************************************************************************)
EXTENDS AppBundle, FiniteSetTheorems, TLAPS

Cover == {"Info.plist", "CodeResources"}
Sig == [asset : Asset \cup {NoAsset}, covers : SUBSET Cover, edited : BOOLEAN]

------------------------------------------------------------------------------
(* Files and folders.                                                      *)

OwnFiles(n) == {Exe(n), Info(n), Resources(n), Profile(n), Copied(n)}

LEMMA FileIsOf ==
  /\ \A n \in Node : OwnFiles(n) \subseteq File
  /\ \A l \in Lib : Library(l) \in File /\ Library(l) \in MachO
  /\ \A n \in Node : Exe(n) \in MachO /\ Copied(n) \in MachO
  /\ \A f \in File : (\E n \in Node : f \in OwnFiles(n)) \/ f \in Library_
  /\ \A m \in MachO : (\E n \in Node : m \in {Exe(n), Copied(n)}) \/ m \in Library_
<1> DEFINE S == {OwnFiles(n) : n \in Node}
           T == {{Exe(n), Copied(n)} : n \in Node}
<1>1. File = (UNION S) \cup Library_ /\ MachO = (UNION T) \cup Library_
  BY Zenon DEF File, MachO, OwnFiles
<1>2. \A n \in Node : OwnFiles(n) \in S /\ {Exe(n), Copied(n)} \in T
  OBVIOUS
<1>3. \A l \in Lib : Library(l) \in Library_
  BY DEF Library_
<1>4. \A f \in UNION S : \E n \in Node : f \in OwnFiles(n)
  OBVIOUS
<1>5. \A f \in UNION T : \E n \in Node : f \in {Exe(n), Copied(n)}
  OBVIOUS
<1> HIDE DEF S, T
<1>6. \A n \in Node : OwnFiles(n) \subseteq File
  BY <1>1, <1>2, Zenon
<1>7. \A n \in Node : {Exe(n), Copied(n)} \subseteq MachO
  BY <1>1, <1>2, Zenon
<1>8. \A f \in File : (\E n \in Node : f \in OwnFiles(n)) \/ f \in Library_
  BY <1>1, <1>4, Zenon
<1>9. \A m \in MachO : (\E n \in Node : m \in {Exe(n), Copied(n)}) \/ m \in Library_
  BY <1>1, <1>5, Zenon
<1>10. \A l \in Lib : Library(l) \in File /\ Library(l) \in MachO
  BY <1>1, <1>3, Zenon
<1>11. \A n \in Node : Exe(n) \in MachO /\ Copied(n) \in MachO
  BY <1>7
<1> QED
  BY <1>6, <1>8, <1>9, <1>10, <1>11

LEMMA Files ==
  /\ \A n \in Node : /\ Exe(n) \in File /\ Info(n) \in File /\ Resources(n) \in File
                     /\ Profile(n) \in File /\ Copied(n) \in File
  /\ \A n \in Node : Exe(n) \in MachO /\ Copied(n) \in MachO
  /\ \A l \in Lib : Library(l) \in MachO /\ Library(l) \in File
  /\ MachO \subseteq File
<1>1. \A n \in Node : /\ Exe(n) \in File /\ Info(n) \in File /\ Resources(n) \in File
                      /\ Profile(n) \in File /\ Copied(n) \in File
  BY FileIsOf DEF OwnFiles
<1>2. \A m \in MachO : m \in File
  <2> TAKE m \in MachO
  <2>1. CASE m \in Library_
    BY <2>1, FileIsOf DEF Library_
  <2>2. CASE \E n \in Node : m \in {Exe(n), Copied(n)}
    BY <1>1, <2>2
  <2> QED
    BY <2>1, <2>2, FileIsOf
<1> QED
  BY <1>1, <1>2, FileIsOf

LEMMA Folders ==
  /\ \A n \in Node : /\ Folder(Exe(n)) = n /\ Folder(Info(n)) = n /\ Folder(Resources(n)) = n
                     /\ Folder(Profile(n)) = n /\ Folder(Copied(n)) = n
  /\ \A l \in Lib : Folder(Library(l)) = Home[l]
  /\ \A f \in File : Folder(f) \in Node
<1>1. \A f \in Library_ : f[1] = "library"
  BY DEF Library_, Library
<1>2. \A n \in Node : /\ Exe(n)[1] = "executable" /\ Info(n)[1] = "Info.plist"
                      /\ Resources(n)[1] = "CodeResources"
                      /\ Profile(n)[1] = "embedded.mobileprovision"
                      /\ Copied(n)[1] = "injected dylib"
                      /\ Exe(n)[2] = n /\ Info(n)[2] = n /\ Resources(n)[2] = n
                      /\ Profile(n)[2] = n /\ Copied(n)[2] = n
  BY DEF Exe, Info, Resources, Profile, Copied
<1>3. \A n \in Node : /\ Folder(Exe(n)) = n /\ Folder(Info(n)) = n /\ Folder(Resources(n)) = n
                      /\ Folder(Profile(n)) = n /\ Folder(Copied(n)) = n
  BY <1>1, <1>2 DEF Folder
<1>4. \A l \in Lib : Folder(Library(l)) = Home[l] /\ Home[l] \in Node
  BY LibAssumption DEF Folder, Library_, Library
<1>5. \A f \in File : Folder(f) \in Node
  <2> TAKE f \in File
  <2>1. CASE f \in Library_
    BY <1>4, <2>1 DEF Library_
  <2>2. CASE \E n \in Node : f \in OwnFiles(n)
    BY <1>3, <2>2 DEF OwnFiles
  <2> QED
    BY <2>1, <2>2, FileIsOf
<1> QED
  BY <1>3, <1>4, <1>5

(* The signatures after a write have their type, and are what they were    *)
(* but for what they cover.                                                *)
LEMMA UncoverEffect ==
  ASSUME NEW sigs \in [MachO -> Sig], NEW changed
  PROVE  /\ Uncover(sigs, changed) \in [MachO -> Sig]
         /\ \A m \in MachO :
              /\ Uncover(sigs, changed)[m].asset = sigs[m].asset
              /\ Uncover(sigs, changed)[m].edited = sigs[m].edited
              /\ Uncover(sigs, changed)[m].covers = {c \in sigs[m].covers : <<c, m[2]>> \notin changed}
  BY DEF Uncover, Sig

LEMMA EditedEffect ==
  ASSUME AppTypeOK, NEW m \in MachO
  PROVE  /\ Edited(m).changed \subseteq {m, Copied(Folder(m))} /\ m \in Edited(m).changed
         /\ Edited(m).changed \subseteq File
         /\ Edited(m).sigs \in [MachO -> Sig]
         /\ \A x \in MachO \ {m, Copied(Folder(m))} : Edited(m).sigs[x] = signature[x]
<1>1. Folder(m) \in Node
  BY Folders, Files
<1>2. Edited(m).changed \subseteq {m, Copied(Folder(m))} /\ m \in Edited(m).changed
  BY DEF Edited
<1>3. Edited(m).sigs \in [MachO -> Sig]
  <2> DEFINE copied == IF opts.inject /\ m # Copied(Folder(m)) THEN {Copied(Folder(m))} ELSE {}
             new(x) == IF x = m THEN [signature[m] EXCEPT !.edited = TRUE]
                       ELSE IF x \in copied THEN [asset |-> asset, covers |-> {}, edited |-> FALSE]
                       ELSE signature[x]
  <2>1. signature \in [MachO -> Sig] /\ asset \in Asset
    BY DEF AppTypeOK, Sig, Cover
  <2>2. [asset |-> asset, covers |-> {}, edited |-> FALSE] \in Sig
    BY <2>1 DEF Sig
  <2>3. [signature[m] EXCEPT !.edited = TRUE] \in Sig
    BY <2>1 DEF Sig
  <2>4. \A x \in MachO : new(x) \in Sig
    BY <2>1, <2>2, <2>3
  <2>5. Edited(m).sigs = [x \in MachO |-> new(x)]
    BY DEF Edited
  <2> HIDE DEF new
  <2> QED
    BY <2>4, <2>5
<1>4. \A x \in MachO \ {m, Copied(Folder(m))} : Edited(m).sigs[x] = signature[x]
  BY DEF Edited
<1>5. Edited(m).changed \subseteq File
  BY <1>1, <1>2, Files
<1> QED
  BY <1>2, <1>3, <1>4, <1>5

LEMMA SignedType ==
  ASSUME AppTypeOK, NEW m \in MachO, NEW force \in BOOLEAN, NEW covers \in SUBSET Cover
  PROVE  Signed(m, force, covers) \in Sig
  BY DEF Signed, AppTypeOK, Sig, Cover

LEMMA UnsignedType == Unsigned \in Sig
  BY DEF Unsigned, Sig

------------------------------------------------------------------------------
(* Type correctness.                                                       *)

DiskTyped ==
  /\ exists \subseteq File
  /\ listed \in [Node -> SUBSET File] /\ fresh \in [Node -> SUBSET File]
  /\ signature \in [MachO -> Sig]
  /\ profile \in [Node -> Asset \cup {NoAsset}]

CallTyped ==
  /\ cache \in [present : BOOLEAN, files : SUBSET MachO, info : SUBSET Node]
  /\ pc \in {"modify", "dropprofile", "writeprofile", "plan", "inject", "files",
             "folders", "profile", "seal", "sign", "done", "failed"}
  /\ opts \in Options /\ forceSign \in BOOLEAN /\ asset \in Asset
  /\ plan \in [files : SUBSET MachO, info : SUBSET Node]
  /\ node \in Node /\ files \subseteq plan.files
  /\ nodes \cup forced \cup finished \subseteq Node
  /\ kept \subseteq {Exe(n) : n \in Node}
  /\ faults \subseteq {"io", "remove", "skip"}
  /\ calls \in 0 .. MaxCalls

LEMMA TypeParts == AppTypeOK <=> DiskTyped /\ CallTyped
  BY DEF AppTypeOK, DiskTyped, CallTyped, Sig, Cover

LEMMA TypePartsNext == AppTypeOK' <=> (DiskTyped' /\ CallTyped')
  BY DEF AppTypeOK, DiskTyped, CallTyped, Sig, Cover

LEMMA TypedDisk == AppTypeOK => DiskTyped
  BY TypeParts

(* Writing files of the bundle keeps the types of the disk.                *)
LEMMA WriteFilesType ==
  ASSUME DiskTyped, NEW changed \in SUBSET File, NEW sigs \in [MachO -> Sig],
         WriteFiles(changed, sigs)
  PROVE  /\ exists' \subseteq File
         /\ fresh' \in [Node -> SUBSET File]
         /\ signature' \in [MachO -> Sig]
  BY UncoverEffect DEF DiskTyped, WriteFiles, Stale

(* A failed edit has written only to the file and the dylib beside it.     *)
LEMMA EditFailsType ==
  ASSUME AppTypeOK, NEW m \in MachO, EditFails(m)
  PROVE  /\ exists' \subseteq File
         /\ fresh' \in [Node -> SUBSET File]
         /\ signature' \in [MachO -> Sig]
         /\ pc' = "failed" /\ faults' = faults \cup {"io"}
<1>1. Copied(Folder(m)) \in MachO /\ Copied(Folder(m)) \in File
  BY Folders, Files
<1>2. DiskTyped
  BY TypedDisk
<1>3. PICK changed \in SUBSET File, sigs \in [MachO -> Sig] : WriteFiles(changed, sigs)
  <2>1. CASE WriteFiles({}, signature)
    BY <1>2, <2>1 DEF DiskTyped
  <2>2. ASSUME NEW sigs \in {[signature EXCEPT ![Copied(Folder(m))] = Unsigned],
                             [Edited(m).sigs EXCEPT ![m] = signature[m]]},
               WriteFiles({Copied(Folder(m))}, sigs)
        PROVE  \E changed \in SUBSET File, s \in [MachO -> Sig] : WriteFiles(changed, s)
    <3>1. sigs \in [MachO -> Sig]
      BY <1>2, <2>2, EditedEffect, UnsignedType DEF DiskTyped
    <3> QED
      BY <1>1, <2>2, <3>1
  <2>3. CASE WriteFiles(Edited(m).changed, [Edited(m).sigs EXCEPT ![Copied(Folder(m))] = Unsigned])
    <3>1. [Edited(m).sigs EXCEPT ![Copied(Folder(m))] = Unsigned] \in [MachO -> Sig]
      BY EditedEffect, UnsignedType
    <3> QED
      BY <2>3, <3>1, EditedEffect
  <2> QED
    BY <2>1, <2>2, <2>3 DEF EditFails
<1>4. pc' = "failed" /\ faults' = faults \cup {"io"}
  BY DEF EditFails, Fail
<1> QED
  BY <1>2, <1>3, <1>4, WriteFilesType

(* A set of indexes of a sequence has a greatest one.                      *)
LEMMA Greatest ==
  ASSUME NEW k \in Nat, NEW S \in SUBSET (1 .. k), S # {}
  PROVE  \E i \in S : \A j \in S : j <= i
<1> DEFINE above(i) == i + 1 .. k
           T == {above(i) : i \in S}
           R == StrictSubsetOrdering(1 .. k)
<1>1. IsWellFoundedOn(R, FiniteSubsetsOf(1 .. k))
  BY FS_StrictSubsetOrderingWellFounded
<1>2. IsFiniteSet(1 .. k)
  BY FS_Interval
<1>3. T \subseteq SUBSET (1 .. k)
  OBVIOUS
<1>4. T # {}
  OBVIOUS
<1> HIDE DEF T, R
<1>5. T \subseteq FiniteSubsetsOf(1 .. k)
  BY <1>2, <1>3, FS_FiniteSubsetsOfFinite
<1>6. PICK t \in T : \A u \in T : <<u, t>> \notin R
  BY <1>1, <1>4, <1>5, WFMin, Zenon
<1>7. PICK i \in S : t = above(i)
  BY <1>6 DEF T
<1>8. \A j \in S : j <= i
  <2> SUFFICES ASSUME NEW j \in S, j > i PROVE FALSE
    OBVIOUS
  <2>1. above(j) \subseteq above(i) /\ j \in above(i) /\ j \notin above(j)
    OBVIOUS
  <2>2. above(j) \in T
    BY DEF T
  <2>3. <<above(j), above(i)>> \in R
    BY <2>1, <1>3, <2>2 DEF R, StrictSubsetOrdering
  <2> QED
    BY <1>6, <1>7, <2>2, <2>3
<1> QED
  BY <1>8

LEMMA FilesOfNodes ==
  /\ \A ns \in SUBSET Node : {Info(n) : n \in ns} \subseteq File
  /\ Plugins \cup {Root} \subseteq Node
  BY Files, TreeAssumption DEF Plugins

LEMMA ProfilesAreGiven ==
  \A o \in Options : /\ Len(o.profiles) \in Nat /\ 1 \in 1 .. Len(o.profiles)
                     /\ \A i \in 1 .. Len(o.profiles) : o.profiles[i] \in Asset
  BY OptionsAssumption DEF Option

(* The profile that a node gets is one of those given.                     *)
LEMMA ChosenIsGiven ==
  ASSUME AppTypeOK
  PROVE  \A n : MatchIndexes(n) # {} =>
           /\ Chosen(n) \in Asset
           /\ \E i \in 1 .. Len(opts.profiles) : Chosen(n) = opts.profiles[i]
           /\ ~opts.removeProvision
<1>2. ASSUME NEW n, MatchIndexes(n) # {}
      PROVE  /\ Chosen(n) \in Asset
             /\ \E i \in 1 .. Len(opts.profiles) : Chosen(n) = opts.profiles[i]
             /\ ~opts.removeProvision
  <2>1. MatchIndexes(n) \subseteq 1 .. Len(opts.profiles) /\ ~opts.removeProvision
    BY <1>2 DEF MatchIndexes
  <2>2. \E i \in MatchIndexes(n) : \A j \in MatchIndexes(n) : j <= i
    BY <1>2, <2>1, Greatest, ProfilesAreGiven DEF AppTypeOK
  <2> QED
    BY <2>1, <2>2, ProfilesAreGiven DEF Chosen, AppTypeOK
<1> QED
  BY <1>2

LEMMA InitType == Init => AppTypeOK
<1> SUFFICES ASSUME Init PROVE DiskTyped /\ CallTyped
  BY TypeParts
<1>1. opts \in Options
  BY OptionsAssumption DEF Init
<1>2. asset \in Asset
  BY <1>1, ProfilesAreGiven DEF Init
<1>3. exists \subseteq File
  BY Files, FilesOfNodes DEF Init
<1>4. DiskTyped
  BY <1>3, UnsignedType DEF Init, DiskTyped
<1>5. /\ cache = NoCache /\ pc = "failed" /\ forceSign = FALSE /\ plan = NoPlan
      /\ node = Root /\ files = {} /\ nodes = {} /\ forced = {} /\ kept = {}
      /\ finished = {} /\ faults = {} /\ calls = 0
  BY DEF Init
<1>6. /\ NoCache \in [present : BOOLEAN, files : SUBSET MachO, info : SUBSET Node]
      /\ NoPlan \in [files : SUBSET MachO, info : SUBSET Node]
  BY DEF NoCache, NoPlan
<1>7. 0 \in 0 .. MaxCalls
  BY CallsAssumption
<1>8. CallTyped
  BY <1>1, <1>2, <1>5, <1>6, <1>7, TreeAssumption DEF CallTyped
<1> QED
  BY <1>4, <1>8

(* Embedding a profile, also in part, and writing a CodeResources.         *)
LEMMA EmbedType ==
  ASSUME DiskTyped, NEW n \in Node, NEW a \in Asset, EmbedProfile(n, a), UNCHANGED listed
  PROVE  DiskTyped'
<1> DEFINE changed == IF profile[n] = a /\ Profile(n) \in exists THEN {} ELSE {Profile(n)}
<1>1. changed \subseteq File /\ WriteFiles(changed, signature)
  BY Files DEF EmbedProfile
<1>2. profile' \in [Node -> Asset \cup {NoAsset}]
  BY DEF EmbedProfile, DiskTyped
<1> HIDE DEF changed
<1>3. /\ exists' \subseteq File /\ fresh' \in [Node -> SUBSET File]
      /\ signature' \in [MachO -> Sig]
  BY <1>1, WriteFilesType DEF DiskTyped
<1> QED
  BY <1>2, <1>3 DEF DiskTyped

LEMMA ProfileFailsType ==
  ASSUME AppTypeOK, NEW n \in Node, ProfileFails(n)
  PROVE  AppTypeOK'
<1> USE TypeParts, TypePartsNext
<1>1. DiskTyped'
  <2>1. CASE UNCHANGED disk
    BY <2>1 DEF disk, DiskTyped
  <2>2. CASE /\ profile' = [profile EXCEPT ![n] = NoAsset]
             /\ WriteFiles({Profile(n)}, signature)
             /\ UNCHANGED listed
    <3>1. {Profile(n)} \in SUBSET File /\ signature \in [MachO -> Sig]
      BY Files DEF DiskTyped
    <3>2. /\ exists' \subseteq File /\ fresh' \in [Node -> SUBSET File]
          /\ signature' \in [MachO -> Sig]
      BY <2>2, <3>1, WriteFilesType
    <3> QED
      BY <2>2, <3>2 DEF DiskTyped
  <2> QED
    BY <2>1, <2>2 DEF ProfileFails
<1>2. CallTyped'
  BY DEF ProfileFails, Fail, call, CallTyped
<1> QED
  BY <1>1, <1>2

LEMMA ResourcesType ==
  ASSUME AppTypeOK, NEW names \in SUBSET File, NEW right \in SUBSET File, NEW gone,
         WriteResources(names, right, gone)
  PROVE  DiskTyped'
<1>1. DiskTyped /\ node \in Node /\ Resources(node) \in File
  BY TypeParts, Files DEF CallTyped
<1>2. signature' \in [MachO -> Sig]
  BY <1>1, UncoverEffect DEF WriteResources, DiskTyped
<1>3. exists' \subseteq File /\ listed' \in [Node -> SUBSET File]
  BY <1>1 DEF WriteResources, DiskTyped
<1>4. fresh' \in [Node -> SUBSET File]
  <2> DEFINE stale == Stale({Resources(node)} \cup gone)
  <2>1. stale \in [Node -> SUBSET File]
    BY <1>1 DEF Stale, DiskTyped
  <2>2. fresh' = [stale EXCEPT ![node] = right]
    BY DEF WriteResources
  <2> HIDE DEF stale
  <2> QED
    BY <2>1, <2>2
<1>5. profile' \in [Node -> Asset \cup {NoAsset}]
  BY <1>1 DEF WriteResources, DiskTyped
<1> QED
  BY <1>2, <1>3, <1>4, <1>5 DEF DiskTyped

LEMMA ChangedType ==
  ASSUME AppTypeOK
  PROVE  /\ listed[node] \cup Changed \in SUBSET File /\ fresh[node] \cup Changed \in SUBSET File
         /\ {} \in SUBSET File
<1>1. listed[node] \in SUBSET File /\ fresh[node] \in SUBSET File /\ plan.files \subseteq MachO
  BY TypeParts DEF DiskTyped, CallTyped
<1>2. /\ {Exe(n) : n \in Node \ {Root}} \subseteq File
      /\ {Resources(n) : n \in Node \ {Root}} \subseteq File
      /\ Profile(Root) \in File
  BY Files, TreeAssumption
<1>3. Changed \subseteq File
  BY <1>1, <1>2, Files DEF Changed
<1> QED
  BY <1>1, <1>3

(* Every action keeps the types.                                           *)
LEMMA NextType == AppTypeOK /\ [Next]_vars => AppTypeOK'
<1> SUFFICES ASSUME AppTypeOK, [Next]_vars PROVE AppTypeOK'
  OBVIOUS
<1> USE TypeParts, TypePartsNext
<1>0. DiskTyped /\ CallTyped
  OBVIOUS
<1>1. ASSUME NEW o \in Options, Begin(o) PROVE AppTypeOK'
  <2>1. o.profiles[1] \in Asset /\ o.force \in BOOLEAN /\ o.modify \in BOOLEAN
    BY ProfilesAreGiven, OptionsAssumption DEF Option
  <2>2. calls' \in 0 .. MaxCalls
    BY <1>0, <1>1, CallsAssumption DEF Begin, CallTyped
  <2>3. CallTyped'
    BY <1>0, <1>1, <2>1, <2>2, TreeAssumption DEF Begin, CallTyped, NoPlan
  <2>4. DiskTyped'
    BY <1>0, <1>1 DEF Begin, disk, DiskTyped
  <2> QED
    BY <2>3, <2>4
<1>2. CASE ModifyBundleInfo
  <2>1. PICK ns \in SUBSET (Plugins \cup {Root}) :
          /\ WriteFiles({Info(n) : n \in ns}, signature)
          /\ cache' = [cache EXCEPT !.info = @ \ ns]
          /\ \/ pc' = "dropprofile" /\ UNCHANGED faults
             \/ Fail
    BY <1>2, Zenon DEF ModifyBundleInfo
  <2>2. {Info(n) : n \in ns} \in SUBSET File /\ signature \in [MachO -> Sig]
    BY <1>0, FilesOfNodes, Files DEF DiskTyped
  <2>3. DiskTyped'
    BY <1>0, <1>2, <2>1, <2>2, WriteFilesType DEF ModifyBundleInfo, DiskTyped
  <2>4. CallTyped'
    BY <1>0, <1>2, <2>1 DEF ModifyBundleInfo, call, Fail, CallTyped
  <2> QED
    BY <2>3, <2>4
<1>3. CASE DropProfile
  <2>1. DiskTyped'
    BY <1>0, <1>3, TreeAssumption DEF DropProfile, Stale, DiskTyped
  <2>2. CallTyped'
    BY <1>0, <1>3 DEF DropProfile, call, CallTyped
  <2> QED
    BY <2>1, <2>2
<1>4. CASE WriteProfile
  <2>1. CASE ProfileFails(Root)
    BY <2>1, ProfileFailsType, TreeAssumption
  <2>2. CASE EmbedProfile(Root, asset) /\ pc' = "plan" /\ UNCHANGED <<listed, cache, call, history>>
    <3>1. DiskTyped'
      BY <1>0, <2>2, EmbedType, TreeAssumption DEF CallTyped
    <3>2. CallTyped'
      BY <1>0, <2>2 DEF call, history, CallTyped
    <3> QED
      BY <3>1, <3>2
  <2> QED
    BY <1>4, <2>1, <2>2 DEF WriteProfile
<1>5. CASE Plan
  <2>1. CASE FailAt("plan")
    BY <1>0, <2>1 DEF FailAt, Fail, disk, call, CallTyped, DiskTyped
  <2>2. CASE ~FailAt("plan")
    <3>1. MustForce \in BOOLEAN
      BY <1>0, OptionsAssumption DEF MustForce, CallTyped, Option
    <3>2. DiskTyped'
      BY <1>0, <1>5, <2>2 DEF Plan, disk, DiskTyped
    <3>3. plan' \in [files : SUBSET MachO, info : SUBSET Node]
      BY <1>0, <1>5, <2>2 DEF Plan, CallTyped
    <3>4. CallTyped'
      BY <1>0, <1>5, <2>2, <3>1, <3>3 DEF Plan, history, CallTyped
    <3> QED
      BY <3>2, <3>4
  <2> QED
    BY <2>1, <2>2
<1>6. CASE InjectNode
  <2>1. Exe(node) \in MachO /\ Exe(node) \in {Exe(n) : n \in Node}
    BY <1>0, Files DEF CallTyped
  <2>2. CASE FailAt("inject")
    BY <1>0, <2>2 DEF FailAt, Fail, disk, call, CallTyped, DiskTyped
  <2>3. CASE UNCHANGED <<disk, cache, call, history>> /\ pc' = (IF node = Root THEN "files" ELSE "profile")
    BY <1>0, <2>3 DEF disk, call, history, CallTyped, DiskTyped
  <2>4. CASE EditFails(Exe(node)) /\ UNCHANGED <<listed, profile, cache, call, finished, calls>>
    <3>1. DiskTyped'
      BY <1>0, <2>1, <2>4, EditFailsType DEF DiskTyped
    <3>2. CallTyped'
      BY <1>0, <2>1, <2>4, EditFailsType DEF call, CallTyped
    <3> QED
      BY <3>1, <3>2
  <2>5. ASSUME NEW removed,
               exists' = (exists \cup Edited(Exe(node)).changed) \ removed,
               fresh' = Stale(Edited(Exe(node)).changed \cup removed),
               faults' \in {faults, faults \cup {"remove"}},
               signature' = Edited(Exe(node)).sigs,
               kept' = kept \cup Keep(Exe(node)),
               forced' = forced \cup {node},
               pc' = IF node = Root THEN "files" ELSE "profile",
               UNCHANGED <<listed, profile, cache, opts, forceSign, asset, plan, node,
                           files, nodes, finished, calls>>
        PROVE  AppTypeOK'
    <3>1. DiskTyped'
      BY <1>0, <2>1, <2>5, EditedEffect DEF DiskTyped, Stale
    <3>2. kept' \subseteq {Exe(n) : n \in Node}
      BY <1>0, <2>1, <2>5 DEF Keep, CallTyped
    <3>3. CallTyped'
      BY <1>0, <2>5, <3>2 DEF CallTyped
    <3> QED
      BY <3>1, <3>3
  <2> QED
    BY <1>6, <2>2, <2>3, <2>4, <2>5, Zenon DEF InjectNode
<1>7. ASSUME NEW f \in files, SkipFile(f) PROVE AppTypeOK'
  <2>1. DiskTyped'
    BY <1>0, <1>7 DEF SkipFile, disk, DiskTyped
  <2>2. CallTyped'
    BY <1>0, <1>7 DEF SkipFile, CallTyped
  <2> QED
    BY <2>1, <2>2
<1>8. ASSUME NEW f \in files, SignFile(f) PROVE AppTypeOK'
  <2>1. f \in MachO /\ f \in File
    BY <1>0, Files DEF CallTyped
  <2> DEFINE edit == InFilesScope /\ (opts.inject \/ opts.drop # {})
             changed == IF edit THEN Edited(f).changed ELSE {f}
             sigs == IF edit THEN Edited(f).sigs ELSE signature
             force == forceSign \/ InFilesScope
  <2>2. changed \in SUBSET File /\ sigs \in [MachO -> Sig]
    BY <1>0, <2>1, EditedEffect DEF DiskTyped
  <2>3. Signed(f, force, {}) \in Sig
    BY <1>0, <2>1, SignedType DEF CallTyped, InFilesScope
  <2>4. [sigs EXCEPT ![f] = Signed(f, force, {})] \in [MachO -> Sig]
    <3> HIDE DEF sigs, force
    <3> QED
      BY <2>2, <2>3
  <2>5. WriteFiles(changed, [sigs EXCEPT ![f] = Signed(f, force, {})])
    BY <1>8 DEF SignFile
  <2> HIDE DEF changed, sigs, force
  <2>6. DiskTyped'
    BY <1>0, <1>8, <2>2, <2>4, <2>5, WriteFilesType DEF SignFile, DiskTyped
  <2>7. CallTyped'
    BY <1>0, <1>8 DEF SignFile, history, CallTyped
  <2> QED
    BY <2>6, <2>7
<1>9. ASSUME NEW f \in files, SignFileFails(f) PROVE AppTypeOK'
  <2>1. f \in MachO
    BY <1>0 DEF CallTyped
  <2>2. CASE EditFails(f)
    <3>1. DiskTyped'
      BY <1>0, <1>9, <2>1, <2>2, EditFailsType DEF SignFileFails, DiskTyped
    <3>2. CallTyped'
      BY <1>0, <1>9, <2>1, <2>2, EditFailsType DEF SignFileFails, call, CallTyped
    <3> QED
      BY <3>1, <3>2
  <2>3. CASE WriteFiles({}, signature) /\ Fail
    <3>1. {} \in SUBSET File /\ signature \in [MachO -> Sig]
      BY <1>0 DEF DiskTyped
    <3>2. DiskTyped'
      BY <1>0, <1>9, <2>3, <3>1, WriteFilesType DEF SignFileFails, DiskTyped
    <3>3. CallTyped'
      BY <1>0, <1>9, <2>3 DEF SignFileFails, Fail, call, CallTyped
    <3> QED
      BY <3>2, <3>3
  <2> QED
    BY <1>9, <2>2, <2>3 DEF SignFileFails
<1>10. CASE FilesSigned
  BY <1>0, <1>10 DEF FilesSigned, disk, call, history, DiskTyped, CallTyped
<1>11. CASE NextFolder
  <2>1. DiskTyped'
    BY <1>0, <1>11 DEF NextFolder, disk, DiskTyped
  <2>2. CallTyped'
    BY <1>0, <1>11, TreeAssumption DEF NextFolder, history, CallTyped
  <2> QED
    BY <2>1, <2>2
<1>12. CASE ChooseProfile
  <2>1. CASE ProfileFails(node)
    BY <1>0, <2>1, ProfileFailsType DEF CallTyped
  <2>2. CASE /\ MatchIndexes(node) # {}
             /\ asset' = Chosen(node)
             /\ EmbedProfile(node, Chosen(node))
             /\ forced' = forced \cup {node}
             /\ pc' = "seal"
             /\ UNCHANGED <<listed, cache, opts, forceSign, plan, node, files, nodes, kept, history>>
    <3>1. Chosen(node) \in Asset /\ node \in Node
      BY <1>0, <2>2, ChosenIsGiven DEF CallTyped
    <3>2. DiskTyped'
      BY <1>0, <2>2, <3>1, EmbedType
    <3>3. CallTyped'
      BY <1>0, <2>2, <3>1 DEF history, CallTyped
    <3> QED
      BY <3>2, <3>3
  <2>3. CASE pc' = "seal" /\ UNCHANGED <<disk, cache, call, history>>
    BY <1>0, <2>3 DEF disk, call, history, DiskTyped, CallTyped
  <2> QED
    BY <1>12, <2>1, <2>2, <2>3 DEF ChooseProfile
<1>13. CASE Generate
  <2> DEFINE gone == IF opts.removeProvision THEN {Profile(node)} \cap exists ELSE {}
             names == (exists \cap Covered(node)) \ gone
  <2>1. names \in SUBSET File /\ {} \in SUBSET File
    BY <1>0 DEF DiskTyped
  <2>2. WriteResources(names, names, gone) \/ WriteResources({}, {}, gone)
    BY <1>13 DEF Generate
  <2> HIDE DEF names, gone
  <2>3. DiskTyped'
    BY <2>1, <2>2, ResourcesType
  <2>4. CallTyped'
    BY <1>0, <1>13 DEF Generate, Fail, call, CallTyped
  <2> QED
    BY <2>3, <2>4
<1>14. CASE GenerateFails
  <2>1. DiskTyped'
    BY <1>0, <1>14 DEF GenerateFails, disk, Stale, DiskTyped
  <2>2. CallTyped'
    BY <1>0, <1>14 DEF GenerateFails, Fail, call, CallTyped
  <2> QED
    BY <2>1, <2>2
<1>15. CASE Update
  <2>1. listed[node] \cup Changed \in SUBSET File
    BY <1>0, <1>15, ChangedType
  <2>2. CASE UNCHANGED disk
    <3>1. DiskTyped'
      BY <1>0, <2>2 DEF disk, DiskTyped
    <3> QED
      BY <1>0, <1>15, <3>1 DEF Update, Fail, call, CallTyped
  <2>3. CASE \/ WriteResources(listed[node] \cup Changed, fresh[node] \cup Changed, {})
             \/ WriteResources({}, {}, {})
    <3>1. DiskTyped'
      BY <1>0, <2>3, ResourcesType, ChangedType
    <3> QED
      BY <1>0, <1>15, <3>1 DEF Update, Fail, call, CallTyped
  <2> QED
    BY <1>15, <2>2, <2>3 DEF Update
<1>16. CASE SignExecutable
  <2> DEFINE covers == IF node \in plan.info THEN {"Info.plist", "CodeResources"} ELSE {"CodeResources"}
             sig == Signed(Exe(node), node \in forced, covers)
  <2>1. Exe(node) \in MachO /\ {Exe(node)} \in SUBSET File
    BY <1>0, Files DEF CallTyped
  <2>2. sig \in Sig
    <3>1. covers \in SUBSET Cover /\ (node \in forced) \in BOOLEAN
      BY DEF Cover
    <3> HIDE DEF covers
    <3> QED
      BY <2>1, <3>1, SignedType
  <2>3. WriteFiles({Exe(node)}, [signature EXCEPT ![Exe(node)] = sig])
    BY <1>16 DEF SignExecutable
  <2> HIDE DEF sig
  <2>4. [signature EXCEPT ![Exe(node)] = sig] \in [MachO -> Sig]
    BY <1>0, <2>2 DEF DiskTyped
  <2>5. DiskTyped'
    BY <1>0, <1>16, <2>1, <2>3, <2>4, WriteFilesType DEF SignExecutable, DiskTyped
  <2>6. cache' \in [present : BOOLEAN, files : SUBSET MachO, info : SUBSET Node]
    <3>1. cache' \in {cache, [present |-> TRUE, files |-> plan.files, info |-> plan.info]}
      BY <1>16 DEF SignExecutable
    <3>2. cache' = cache \/ cache' = [present |-> TRUE, files |-> plan.files, info |-> plan.info]
      BY <3>1
    <3>3. plan.files \in SUBSET MachO /\ plan.info \in SUBSET Node
      BY <1>0 DEF CallTyped
    <3> DEFINE Caches == [present : BOOLEAN, files : SUBSET MachO, info : SUBSET Node]
    <3>4. \A F \in SUBSET MachO, I \in SUBSET Node :
            [present |-> TRUE, files |-> F, info |-> I] \in Caches
      OBVIOUS
    <3>5. cache \in Caches
      BY <1>0 DEF CallTyped
    <3> HIDE DEF Caches
    <3>6. cache' \in Caches
      BY <3>2, <3>3, <3>4, <3>5
    <3> QED
      BY <3>6 DEF Caches
  <2>7. CallTyped'
    BY <1>0, <1>16, <2>6 DEF SignExecutable, call, CallTyped
  <2> QED
    BY <2>5, <2>7
<1>17. CASE SignExecutableFails
  <2>1. Exe(node) \in MachO /\ {Exe(node)} \in SUBSET File /\ {} \in SUBSET File
    BY <1>0, Files DEF CallTyped
  <2>2. /\ signature \in [MachO -> Sig]
        /\ [signature EXCEPT ![Exe(node)].edited = FALSE] \in [MachO -> Sig]
    BY <1>0 DEF DiskTyped, Sig
  <2>3. PICK changed \in SUBSET File, sigs \in [MachO -> Sig] : WriteFiles(changed, sigs)
    BY <1>17, <2>1, <2>2 DEF SignExecutableFails
  <2>4. DiskTyped'
    BY <1>0, <1>17, <2>3, WriteFilesType DEF SignExecutableFails, DiskTyped
  <2>5. CallTyped'
    BY <1>0, <1>17 DEF SignExecutableFails, Fail, call, CallTyped
  <2> QED
    BY <2>4, <2>5
<1>18. CASE UNCHANGED vars
  BY <1>0, <1>18 DEF vars, disk, call, history, DiskTyped, CallTyped
<1> QED
  BY <1>1, <1>2, <1>3, <1>4, <1>5, <1>6, <1>7, <1>8, <1>9, <1>10, <1>11, <1>12, <1>13, <1>14,
     <1>15, <1>16, <1>17, <1>18 DEF Next

(* Every variable keeps its type, for every tree and whatever fails.       *)
THEOREM AppTypeCorrect == Spec => []AppTypeOK
  BY InitType, NextType, PTL DEF Spec

------------------------------------------------------------------------------
(* What SignNode has done to a bundle stays done until the call returns.   *)

Early == {"modify", "dropprofile", "writeprofile", "plan"}
OnNode == {"inject", "profile", "seal", "sign"}

(* Deeper bundles are finished first, and the app last: whatever is still  *)
(* to be worked on is not inside a finished bundle.                        *)
Order ==
  /\ Root \notin nodes /\ finished \cap nodes = {}
  /\ \A n \in finished : \A m \in nodes : Depth[m] <= Depth[n]
  /\ pc \in Early \cup {"files"} => node = Root /\ finished = {}
  /\ pc = "inject" /\ node = Root => finished = {}
  /\ pc \in OnNode =>
       /\ node \notin finished \cup nodes
       /\ \A n \in finished : Depth[node] <= Depth[n]
       /\ node = Root \/ \A m \in nodes : Depth[m] <= Depth[node]
       /\ node = Root /\ pc # "inject" => nodes = {}
  /\ Root \in finished => pc = "done"

(* Every bundle is finished, being worked on or still to come, and what    *)
(* was listed as a file is signed before the first bundle.                 *)
Accounted ==
  /\ pc = "files" \/ (pc = "inject" /\ node = Root) => nodes = Node \ {Root}
  /\ pc = "folders" => finished \cup nodes = Node \ {Root}
  /\ pc \in OnNode /\ node # Root => finished \cup nodes \cup {node} = Node \ {Root}
  /\ pc \in OnNode \ {"inject"} /\ node = Root => finished = Node \ {Root}
  /\ pc = "done" => finished = Node
  /\ pc \in {"folders", "profile", "seal", "sign", "done"} \/ (pc = "inject" /\ node # Root)
       => files = {}

(* A forced call forces every bundle, with the Info.plist it has hashed.   *)
Forcing ==
  pc \in OnNode \cup {"files", "folders"} /\ forceSign => forced = Node /\ plan.info = Node

(* What holds for a bundle once SignNode has returned true.                *)
NodeDone(n) ==
  /\ IF forceSign THEN Sealed(n) /\ Bound(n)
                  ELSE "CodeResources" \in signature[Exe(n)].covers
  /\ MatchIndexes(n) # {} =>
       /\ Profile(n) \in exists
       /\ profile[n] = Chosen(n)
       /\ signature[Exe(n)].asset = Chosen(n)
  /\ forceSign /\ opts.removeProvision => Profile(n) \notin exists \cup listed[n]

(* What holds for the bundle being worked on, before it is signed.         *)
NodeReady ==
  /\ pc = "sign" /\ forceSign =>
       /\ Sealed(node)
       /\ opts.removeProvision => Profile(node) \notin exists \cup listed[node]
  /\ pc \in {"seal", "sign"} /\ MatchIndexes(node) # {} =>
       /\ Profile(node) \in exists
       /\ profile[node] = Chosen(node)
       /\ asset = Chosen(node)

SealInv == Order /\ Accounted /\ Forcing /\ NodeReady /\ \A n \in finished : NodeDone(n)

(* Only files in the folder of the bundle being worked on change.          *)
LocalStep ==
  \E changed \in SUBSET File :
    /\ \A f \in changed : Folder(f) = node
    /\ exists' \ changed = exists \ changed
    /\ \A n \in Node \ {node} :
         /\ listed'[n] = listed[n] /\ fresh'[n] = fresh[n] \ changed
         /\ profile'[n] = profile[n] /\ signature'[Exe(n)] = signature[Exe(n)]

LEMMA UncoverElsewhere ==
  ASSUME NEW sigs \in [MachO -> Sig], NEW changed, NEW n \in Node,
         \A f \in changed : Folder(f) # n
  PROVE  Uncover(sigs, changed)[Exe(n)] = sigs[Exe(n)]
<1>1. Exe(n) \in MachO /\ sigs[Exe(n)] \in Sig
  BY Files
<1>2. Exe(n)[2] = n
  BY DEF Exe
<1>3. <<"Info.plist", n>> \notin changed /\ <<"CodeResources", n>> \notin changed
  BY Folders DEF Info, Resources
<1>4. {c \in sigs[Exe(n)].covers : <<c, Exe(n)[2]>> \notin changed} = sigs[Exe(n)].covers
  BY <1>1, <1>2, <1>3 DEF Sig, Cover
<1>5. Uncover(sigs, changed)[Exe(n)]
        = [sigs[Exe(n)] EXCEPT !.covers = {c \in @ : <<c, Exe(n)[2]>> \notin changed}]
  BY <1>1 DEF Uncover
<1>6. [sigs[Exe(n)] EXCEPT !.covers = {c \in @ : <<c, Exe(n)[2]>> \notin changed}]
        = [sigs[Exe(n)] EXCEPT !.covers = sigs[Exe(n)].covers]
  BY <1>4
<1>7. [sigs[Exe(n)] EXCEPT !.covers = sigs[Exe(n)].covers] = sigs[Exe(n)]
  BY <1>1 DEF Sig
<1> QED
  BY <1>5, <1>6, <1>7

LEMMA WriteIsLocal ==
  ASSUME AppTypeOK, NEW changed \in SUBSET File, NEW sigs \in [MachO -> Sig],
         WriteFiles(changed, sigs),
         \A f \in changed : Folder(f) = node,
         \A n \in Node \ {node} :
           /\ sigs[Exe(n)] = signature[Exe(n)]
           /\ listed'[n] = listed[n] /\ profile'[n] = profile[n]
  PROVE  LocalStep
<1>1. exists' \ changed = exists \ changed
  BY DEF WriteFiles
<1>2. \A n \in Node : fresh'[n] = fresh[n] \ changed
  BY DEF WriteFiles, Stale
<1>3. \A n \in Node \ {node} : signature'[Exe(n)] = signature[Exe(n)]
  BY UncoverElsewhere DEF WriteFiles
<1> QED
  BY <1>1, <1>2, <1>3 DEF LocalStep

LEMMA NothingIsLocal == UNCHANGED disk => LocalStep
<1> SUFFICES ASSUME UNCHANGED disk PROVE LocalStep
  OBVIOUS
<1>1. {} \in SUBSET File /\ \A n \in Node : fresh[n] \ {} = fresh[n]
  OBVIOUS
<1> QED
  BY <1>1 DEF disk, LocalStep

(* A finished bundle does not contain the one being worked on.             *)
LEMMA Apart ==
  ASSUME AppTypeOK, Order, pc \in OnNode, NEW n \in finished
  PROVE  n # node /\ node \notin Within[n]
<1>1. n \in Node /\ node \in Node /\ n # node /\ Depth[node] <= Depth[n]
  BY DEF AppTypeOK, Order
<1>2. node \in Within[n] => Depth[node] > Depth[n]
  BY <1>1, TreeAssumption
<1> QED
  BY <1>1, <1>2, TreeAssumption

(* Work on one bundle does not disturb another one that does not contain it. *)
LEMMA LocalKeeps ==
  ASSUME AppTypeOK, LocalStep, NEW n \in Node, n # node, node \notin Within[n],
         NodeDone(n), UNCHANGED <<forceSign, opts>>
  PROVE  NodeDone(n)'
<1>1. PICK changed \in SUBSET File :
        /\ \A f \in changed : Folder(f) = node
        /\ exists' \ changed = exists \ changed
        /\ \A k \in Node \ {node} :
             /\ listed'[k] = listed[k] /\ fresh'[k] = fresh[k] \ changed
             /\ profile'[k] = profile[k] /\ signature'[Exe(k)] = signature[Exe(k)]
  BY DEF LocalStep
<1>2. /\ listed'[n] = listed[n] /\ fresh'[n] = fresh[n] \ changed
      /\ profile'[n] = profile[n] /\ signature'[Exe(n)] = signature[Exe(n)]
  BY <1>1
<1>3. changed \cap Covered(n) = {}
  BY <1>1 DEF Covered
<1>4. Profile(n) \notin changed
  BY <1>1, Folders
<1>5. exists' \cap Covered(n) = exists \cap Covered(n)
  BY <1>1, <1>3
<1>6. Profile(n) \in exists' <=> Profile(n) \in exists
  BY <1>1, <1>4
<1>7. MatchIndexes(n)' = MatchIndexes(n) /\ Chosen(n)' = Chosen(n)
  BY DEF MatchIndexes, Chosen
<1>8. Sealed(n) => Sealed(n)'
  <2> SUFFICES ASSUME Sealed(n) PROVE Sealed(n)'
    OBVIOUS
  <2>1. fresh[n] \cap changed = {}
    BY <1>3 DEF Sealed
  <2> QED
    BY <1>2, <1>5, <2>1 DEF Sealed
<1>9. Bound(n) => Bound(n)'
  BY <1>2 DEF Bound
<1> QED
  BY <1>2, <1>6, <1>7, <1>8, <1>9 DEF NodeDone

LEMMA OtherExecutables ==
  ASSUME NEW n \in Node, NEW k \in Node, k # n
  PROVE  Exe(k) \in MachO /\ Exe(k) \notin {Exe(n), Copied(n)}
  BY Files DEF Exe, Copied

LEMMA EditFailsIsLocal ==
  ASSUME AppTypeOK, EditFails(Exe(node)), UNCHANGED <<listed, profile>>
  PROVE  LocalStep
<1> DEFINE exe == Exe(node)
<1>1. /\ node \in Node /\ exe \in MachO /\ Folder(exe) = node
      /\ Copied(node) \in MachO /\ Copied(node) \in File /\ Folder(Copied(node)) = node
      /\ signature \in [MachO -> Sig]
  BY Files, Folders, TypeParts DEF CallTyped, DiskTyped
<1>2. /\ Edited(exe).changed \subseteq {exe, Copied(node)} /\ Edited(exe).changed \in SUBSET File
      /\ Edited(exe).sigs \in [MachO -> Sig]
      /\ \A x \in MachO \ {exe, Copied(node)} : Edited(exe).sigs[x] = signature[x]
  BY <1>1, EditedEffect
<1>3. \A n \in Node \ {node} : Exe(n) \in MachO /\ Exe(n) \notin {exe, Copied(node)}
  BY <1>1, OtherExecutables
<1> HIDE DEF exe
<1>4. PICK changed \in SUBSET File, sigs \in [MachO -> Sig] :
        /\ WriteFiles(changed, sigs)
        /\ changed \subseteq {exe, Copied(node)}
        /\ \A x \in MachO \ {exe, Copied(node)} : sigs[x] = signature[x]
  <2>1. CASE WriteFiles({}, signature)
    BY <1>1, <2>1
  <2>2. ASSUME NEW sigs \in {[signature EXCEPT ![Copied(node)] = Unsigned],
                             [Edited(exe).sigs EXCEPT ![exe] = signature[exe]]},
               WriteFiles({Copied(node)}, sigs)
        PROVE  \E changed \in SUBSET File, t \in [MachO -> Sig] :
                 /\ WriteFiles(changed, t)
                 /\ changed \subseteq {exe, Copied(node)}
                 /\ \A x \in MachO \ {exe, Copied(node)} : t[x] = signature[x]
    <3>1. /\ sigs \in [MachO -> Sig]
          /\ \A x \in MachO \ {exe, Copied(node)} : sigs[x] = signature[x]
      BY <1>1, <1>2, <2>2, UnsignedType
    <3> QED
      BY <1>1, <2>2, <3>1
  <2>3. CASE WriteFiles(Edited(exe).changed, [Edited(exe).sigs EXCEPT ![Copied(node)] = Unsigned])
    <3> DEFINE t == [Edited(exe).sigs EXCEPT ![Copied(node)] = Unsigned]
    <3>1. t \in [MachO -> Sig] /\ \A x \in MachO \ {exe, Copied(node)} : t[x] = signature[x]
      BY <1>1, <1>2, UnsignedType
    <3> HIDE DEF t
    <3>2. WriteFiles(Edited(exe).changed, t)
      BY <2>3 DEF t
    <3> QED
      BY <1>2, <3>1, <3>2
  <2>4. \/ WriteFiles({}, signature)
        \/ \E sigs \in {[signature EXCEPT ![Copied(node)] = Unsigned],
                        [Edited(exe).sigs EXCEPT ![exe] = signature[exe]]} :
             WriteFiles({Copied(node)}, sigs)
        \/ WriteFiles(Edited(exe).changed, [Edited(exe).sigs EXCEPT ![Copied(node)] = Unsigned])
    BY <1>1, Zenon DEF EditFails, exe
  <2> QED
    BY <2>1, <2>2, <2>3, <2>4
<1>5. \A n \in Node \ {node} : sigs[Exe(n)] = signature[Exe(n)]
  BY <1>3, <1>4
<1>6. \A f \in changed : Folder(f) = node
  BY <1>1, <1>4
<1> QED
  BY <1>4, <1>5, <1>6, WriteIsLocal

LEMMA InjectIsLocal ==
  ASSUME AppTypeOK, InjectNode
  PROVE  LocalStep
<1> DEFINE exe == Exe(node)
           gone == {Library(l) : l \in {k \in opts.drop : Home[k] = node}} \cap exists
<1>1. /\ node \in Node /\ exe \in MachO /\ Folder(exe) = node /\ Folder(Copied(node)) = node
      /\ exists \subseteq File /\ fresh \in [Node -> SUBSET File]
      /\ opts.drop \subseteq Lib
  BY Files, Folders, TypeParts, OptionsAssumption DEF CallTyped, DiskTyped, Option
<1>2. \A f \in gone : f \in File /\ Folder(f) = node
  BY <1>1, Folders
<1>3. CASE FailAt("inject")
  BY <1>3, NothingIsLocal DEF FailAt
<1>4. CASE UNCHANGED disk
  BY <1>4, NothingIsLocal
<1>5. CASE EditFails(exe) /\ UNCHANGED <<listed, profile>>
  BY <1>5, EditFailsIsLocal
<1>6. ASSUME NEW removed \in SUBSET gone,
             exists' = (exists \cup Edited(exe).changed) \ removed,
             fresh' = Stale(Edited(exe).changed \cup removed),
             signature' = Edited(exe).sigs,
             UNCHANGED <<listed, profile>>
      PROVE  LocalStep
  <2> DEFINE changed == Edited(exe).changed \cup removed
  <2>1. /\ Edited(exe).changed \subseteq {exe, Copied(node)} /\ Edited(exe).changed \subseteq File
        /\ \A x \in MachO \ {exe, Copied(node)} : Edited(exe).sigs[x] = signature[x]
    BY <1>1, EditedEffect
  <2>2. changed \in SUBSET File /\ \A f \in changed : Folder(f) = node
    BY <1>1, <1>2, <2>1
  <2>3. \A n \in Node \ {node} : signature'[Exe(n)] = signature[Exe(n)]
    <3> SUFFICES ASSUME NEW n \in Node \ {node} PROVE signature'[Exe(n)] = signature[Exe(n)]
      OBVIOUS
    <3>1. Exe(n) \in MachO /\ Exe(n) \notin {exe, Copied(node)}
      BY <1>1, OtherExecutables
    <3> QED
      BY <1>6, <2>1, <3>1
  <2>4. exists' \ changed = exists \ changed
    BY <1>6
  <2>5. \A n \in Node : fresh'[n] = fresh[n] \ changed
    BY <1>6 DEF Stale
  <2> HIDE DEF changed
  <2> QED
    BY <1>6, <2>2, <2>3, <2>4, <2>5 DEF LocalStep
<1> QED
  BY <1>3, <1>4, <1>5, <1>6, Zenon DEF InjectNode

LEMMA ProfileIsLocal ==
  ASSUME AppTypeOK, UNCHANGED listed,
         ProfileFails(node) \/ \E a : EmbedProfile(node, a)
  PROVE  LocalStep
<1>1. node \in Node /\ signature \in [MachO -> Sig] /\ profile \in [Node -> Asset \cup {NoAsset}]
  BY TypeParts DEF CallTyped, DiskTyped
<1>2. /\ {} \in SUBSET File /\ {Profile(node)} \in SUBSET File
      /\ \A f \in {Profile(node)} : Folder(f) = node
  BY <1>1, Files, Folders
<1>3. CASE UNCHANGED disk
  BY <1>3, NothingIsLocal
<1>4. ASSUME NEW a, profile' = [profile EXCEPT ![node] = a],
             WriteFiles({Profile(node)}, signature) \/ WriteFiles({}, signature)
      PROVE  LocalStep
  BY <1>1, <1>2, <1>4, WriteIsLocal
<1>5. ProfileFails(node) =>
        \/ UNCHANGED disk
        \/ profile' = [profile EXCEPT ![node] = NoAsset] /\ WriteFiles({Profile(node)}, signature)
  BY DEF ProfileFails
<1>6. ASSUME NEW a, EmbedProfile(node, a)
      PROVE  /\ profile' = [profile EXCEPT ![node] = a]
             /\ WriteFiles({Profile(node)}, signature) \/ WriteFiles({}, signature)
  BY <1>6 DEF EmbedProfile
<1> QED
  BY <1>3, <1>4, <1>5, <1>6

LEMMA ResourcesAreLocal ==
  ASSUME AppTypeOK, NEW names, NEW right, NEW gone \in SUBSET {Profile(node)},
         WriteResources(names, right, gone)
  PROVE  LocalStep
<1>1. node \in Node /\ signature \in [MachO -> Sig]
  BY TypeParts DEF CallTyped, DiskTyped
<1> DEFINE changed == {Resources(node)} \cup gone
<1>2. changed \in SUBSET File /\ \A f \in changed : Folder(f) = node
  BY <1>1, Files, Folders
<1>3. exists' \ changed = exists \ changed
  BY DEF WriteResources
<1>4. \A n \in Node \ {node} :
        listed'[n] = listed[n] /\ fresh'[n] = fresh[n] \ changed /\ profile'[n] = profile[n]
  BY TypeParts DEF WriteResources, Stale, DiskTyped
<1>5. \A n \in Node \ {node} : signature'[Exe(n)] = signature[Exe(n)]
  <2> SUFFICES ASSUME NEW n \in Node \ {node}
               PROVE  Uncover(signature, {Resources(node)})[Exe(n)] = signature[Exe(n)]
    BY DEF WriteResources
  <2>1. \A f \in {Resources(node)} : Folder(f) # n
    BY <1>1, Folders
  <2> QED
    BY <1>1, <2>1, UncoverElsewhere
<1> HIDE DEF changed
<1> QED
  BY <1>2, <1>3, <1>4, <1>5 DEF LocalStep

LEMMA SealIsLocal ==
  ASSUME AppTypeOK, Generate \/ GenerateFails \/ Update
  PROVE  LocalStep
<1>1. node \in Node /\ profile \in [Node -> Asset \cup {NoAsset}] /\ fresh \in [Node -> SUBSET File]
  BY TypeParts DEF CallTyped, DiskTyped
<1>2. CASE Generate
  <2> DEFINE gone == IF opts.removeProvision THEN {Profile(node)} \cap exists ELSE {}
             names == (exists \cap Covered(node)) \ gone
  <2>1. gone \in SUBSET {Profile(node)}
    OBVIOUS
  <2>2. WriteResources(names, names, gone) \/ WriteResources({}, {}, gone)
    BY <1>2 DEF Generate
  <2> HIDE DEF gone, names
  <2> QED
    BY <2>1, <2>2, ResourcesAreLocal
<1>3. CASE Update
  <2>1. \/ UNCHANGED disk
        \/ WriteResources(listed[node] \cup Changed, fresh[node] \cup Changed, {})
        \/ WriteResources({}, {}, {})
    BY <1>3 DEF Update
  <2>2. {} \in SUBSET {Profile(node)}
    OBVIOUS
  <2> QED
    BY <2>1, <2>2, ResourcesAreLocal, NothingIsLocal
<1>4. CASE GenerateFails
  <2>1. CASE UNCHANGED disk
    BY <2>1, NothingIsLocal
  <2>2. CASE /\ exists' = exists \ {Profile(node)}
             /\ fresh' = Stale({Profile(node)})
             /\ profile' = [profile EXCEPT ![node] = NoAsset]
             /\ UNCHANGED <<listed, signature>>
    <3> DEFINE changed == {Profile(node)}
    <3>1. changed \in SUBSET File /\ \A f \in changed : Folder(f) = node
      BY <1>1, Files, Folders
    <3>2. exists' \ changed = exists \ changed
      BY <2>2
    <3>3. \A n \in Node \ {node} :
            /\ listed'[n] = listed[n] /\ fresh'[n] = fresh[n] \ changed
            /\ profile'[n] = profile[n] /\ signature'[Exe(n)] = signature[Exe(n)]
      BY <1>1, <2>2 DEF Stale
    <3> HIDE DEF changed
    <3> QED
      BY <3>1, <3>2, <3>3 DEF LocalStep
  <2> QED
    BY <1>4, <2>1, <2>2 DEF GenerateFails
<1> QED
  BY <1>2, <1>3, <1>4

LEMMA SignIsLocal ==
  ASSUME AppTypeOK, SignExecutable \/ SignExecutableFails
  PROVE  LocalStep
<1>1. node \in Node /\ signature \in [MachO -> Sig]
  BY TypeParts DEF CallTyped, DiskTyped
<1>2. /\ {Exe(node)} \in SUBSET File /\ {} \in SUBSET File
      /\ \A f \in {Exe(node)} : Folder(f) = node
  BY <1>1, Files, Folders
<1>3. \A n \in Node \ {node} : Exe(n) \in MachO /\ Exe(n) # Exe(node)
  BY <1>1, OtherExecutables
<1>4. ASSUME NEW sig \in Sig, UNCHANGED <<listed, profile>>,
             WriteFiles({Exe(node)}, [signature EXCEPT ![Exe(node)] = sig])
      PROVE  LocalStep
  <2> DEFINE sigs == [signature EXCEPT ![Exe(node)] = sig]
  <2>1. sigs \in [MachO -> Sig] /\ \A n \in Node \ {node} : sigs[Exe(n)] = signature[Exe(n)]
    BY <1>1, <1>3, <1>4
  <2> HIDE DEF sigs
  <2>2. WriteFiles({Exe(node)}, sigs)
    BY <1>4 DEF sigs
  <2> QED
    BY <1>2, <1>4, <2>1, <2>2, WriteIsLocal
<1>5. CASE SignExecutable
  <2> DEFINE covers == IF node \in plan.info THEN {"Info.plist", "CodeResources"} ELSE {"CodeResources"}
             sig == Signed(Exe(node), node \in forced, covers)
  <2>1. Exe(node) \in MachO /\ covers \in SUBSET Cover /\ (node \in forced) \in BOOLEAN
    BY <1>1, Files DEF Cover
  <2>2. WriteFiles({Exe(node)}, [signature EXCEPT ![Exe(node)] = sig]) /\ UNCHANGED <<listed, profile>>
    BY <1>5 DEF SignExecutable
  <2> HIDE DEF covers
  <2>3. sig \in Sig
    BY <2>1, SignedType
  <2> HIDE DEF sig
  <2> QED
    BY <1>4, <2>2, <2>3
<1>6. CASE SignExecutableFails
  <2>1. [signature[Exe(node)] EXCEPT !.edited = FALSE] \in Sig
    BY <1>1, Files DEF Sig
  <2>2. CASE WriteFiles({Exe(node)}, [signature EXCEPT ![Exe(node)] = [signature[Exe(node)] EXCEPT !.edited = FALSE]])
    BY <1>4, <1>6, <2>1, <2>2 DEF SignExecutableFails
  <2>3. CASE WriteFiles({}, signature)
    BY <1>1, <1>2, <1>6, <2>3, WriteIsLocal DEF SignExecutableFails
  <2>4. [signature EXCEPT ![Exe(node)].edited = FALSE]
          = [signature EXCEPT ![Exe(node)] = [signature[Exe(node)] EXCEPT !.edited = FALSE]]
    BY <1>1
  <2> QED
    BY <1>6, <2>2, <2>3, <2>4 DEF SignExecutableFails
<1> QED
  BY <1>5, <1>6

LEMMA SameDone ==
  ASSUME NEW n, UNCHANGED <<disk, forceSign, opts>>, NodeDone(n)
  PROVE  NodeDone(n)'
  BY DEF disk, NodeDone, Sealed, Bound, MatchIndexes, Chosen, Covered

LEMMA KeepsDone ==
  ASSUME AppTypeOK, SealInv, pc \in OnNode, LocalStep, UNCHANGED <<forceSign, opts>>
  PROVE  \A n \in finished : NodeDone(n)'
<1>1. \A n \in finished : n \in Node /\ n # node /\ node \notin Within[n]
  BY Apart DEF SealInv, AppTypeOK
<1> QED
  BY <1>1, LocalKeeps DEF SealInv

(* A call that gives up leaves what is finished as it is.                  *)
LEMMA GivingUpKeeps ==
  ASSUME SealInv, pc # "done", pc' = "failed", UNCHANGED <<nodes, finished>>,
         \A n \in finished : NodeDone(n)'
  PROVE  SealInv'
<1>1. Order' /\ Accounted' /\ Forcing' /\ NodeReady'
  BY DEF SealInv, Order, Accounted, Forcing, NodeReady, Early, OnNode
<1> QED
  BY <1>1 DEF SealInv

LEMMA BeforeNodes ==
  SealInv /\ pc \in Early \cup {"files"} => finished = {} /\ node = Root
  BY DEF SealInv, Order

LEMMA InitSeal == Init => SealInv
  BY DEF Init, SealInv, Order, Accounted, Forcing, NodeReady, Early, OnNode

LEMMA BeginSeal ==
  ASSUME NEW o \in Options, Begin(o)
  PROVE  SealInv'
  BY DEF Begin, SealInv, Order, Accounted, Forcing, NodeReady, Early, OnNode

(* The statements before the first bundle.                                 *)
LEMMA EarlySeal ==
  ASSUME AppTypeOK, SealInv,
         ModifyBundleInfo \/ DropProfile \/ WriteProfile \/ Plan
  PROVE  SealInv'
<1>1. finished = {} /\ node = Root /\ pc \in Early
  BY BeforeNodes DEF ModifyBundleInfo, DropProfile, WriteProfile, Plan, FailAt, Early
<1>2. CASE pc' \in Early \cup {"failed"} /\ UNCHANGED <<nodes, finished, node>>
  BY <1>1, <1>2 DEF SealInv, Order, Accounted, Forcing, NodeReady, Early, OnNode
<1>3. CASE ModifyBundleInfo
  BY <1>2, <1>3 DEF ModifyBundleInfo, Fail, call, Early
<1>4. CASE DropProfile
  BY <1>2, <1>4 DEF DropProfile, call, Early
<1>5. CASE WriteProfile
  BY <1>2, <1>5 DEF WriteProfile, ProfileFails, Fail, call, history, Early
<1>6. CASE Plan
  <2>1. CASE FailAt("plan")
    BY <1>2, <2>1 DEF FailAt, Fail, call, Early
  <2>2. CASE ~FailAt("plan")
    <3>1. /\ pc' = "inject" /\ nodes' = Node \ {Root} /\ finished' = {} /\ node' = Root
          /\ forceSign' = MustForce
          /\ forced' = (IF MustForce THEN Node ELSE {})
          /\ plan' = IF MustForce THEN [files |-> exists \cap MachO, info |-> Node]
                                  ELSE [files |-> cache.files, info |-> cache.info]
      BY <1>1, <1>6, <2>2 DEF Plan, history
    <3>2. Forcing'
      BY <3>1 DEF Forcing
    <3>3. Order' /\ Accounted' /\ NodeReady'
      BY <3>1 DEF Order, Accounted, NodeReady, Early, OnNode
    <3> QED
      BY <3>1, <3>2, <3>3 DEF SealInv
  <2> QED
    BY <2>1, <2>2
<1> QED
  BY <1>3, <1>4, <1>5, <1>6

(* The files that are no bundle's executable.                              *)
LEMMA FilesSeal ==
  ASSUME AppTypeOK, SealInv,
         \/ \E f \in files : SkipFile(f) \/ SignFile(f) \/ SignFileFails(f)
         \/ FilesSigned
  PROVE  SealInv'
<1>1. finished = {} /\ node = Root /\ pc = "files" /\ nodes = Node \ {Root}
  BY BeforeNodes DEF SealInv, Accounted, SkipFile, SignFile, SignFileFails, FilesSigned
<1>2. CASE pc' = "failed" /\ UNCHANGED <<nodes, finished>>
  BY <1>1, <1>2, GivingUpKeeps
<1>3. CASE pc' = "files" /\ UNCHANGED <<nodes, finished, node, forceSign, forced, plan>>
  BY <1>1, <1>3 DEF SealInv, Order, Accounted, Forcing, NodeReady, Early, OnNode
<1>4. ASSUME NEW f \in files, SkipFile(f) PROVE SealInv'
  BY <1>1, <1>3, <1>4 DEF SkipFile
<1>5. ASSUME NEW f \in files, SignFile(f) PROVE SealInv'
  BY <1>1, <1>3, <1>5 DEF SignFile, history
<1>6. ASSUME NEW f \in files, SignFileFails(f) PROVE SealInv'
  BY <1>2, <1>6 DEF SignFileFails, EditFails, Fail, call
<1>7. CASE FilesSigned
  BY <1>1, <1>7 DEF FilesSigned, call, history, SealInv, Order, Accounted, Forcing, NodeReady,
     Early, OnNode
<1> QED
  BY <1>4, <1>5, <1>6, <1>7

(* The next bundle is as deep as any that is left, the app the least deep. *)
LEMMA NextFolderSeal ==
  ASSUME AppTypeOK, SealInv, NextFolder
  PROVE  SealInv'
<1>1. /\ pc = "folders" /\ finished \cup nodes = Node \ {Root} /\ files = {}
      /\ Root \notin finished /\ finished \subseteq Node /\ nodes \subseteq Node
      /\ finished \cap nodes = {} /\ Root \notin nodes
      /\ \A n \in finished : \A m \in nodes : Depth[m] <= Depth[n]
  BY DEF NextFolder, SealInv, Order, Accounted, AppTypeOK
<1>2. \A n \in finished' : NodeDone(n)'
  BY SameDone DEF NextFolder, history, SealInv
<1>3. Forcing'
  BY <1>1 DEF NextFolder, SealInv, Forcing, OnNode
<1>4. ASSUME NEW n \in nodes, \A m \in nodes : Depth[m] <= Depth[n],
             node' = n, nodes' = nodes \ {n}, pc' = "inject",
             UNCHANGED <<finished, files>>
      PROVE  Order' /\ Accounted' /\ NodeReady'
  BY <1>1, <1>4 DEF Order, Accounted, NodeReady, Early, OnNode
<1>5. ASSUME nodes = {}, node' = Root, nodes' = nodes, pc' = "profile",
             UNCHANGED <<finished, files>>
      PROVE  Order' /\ Accounted' /\ NodeReady'
  <2>1. \A n \in finished : Depth[Root] <= Depth[n]
    BY <1>1, TreeAssumption
  <2>2. Order'
    BY <1>1, <1>5, <2>1 DEF Order, Early, OnNode
  <2>3. Accounted' /\ NodeReady'
    BY <1>1, <1>5 DEF Accounted, NodeReady, OnNode
  <2> QED
    BY <2>2, <2>3
<1>6. Order' /\ Accounted' /\ NodeReady'
  <2>1. UNCHANGED <<finished, files>>
    BY DEF NextFolder, history
  <2>2. \/ \E n \in nodes : /\ \A m \in nodes : Depth[m] <= Depth[n]
                            /\ node' = n /\ nodes' = nodes \ {n} /\ pc' = "inject"
        \/ nodes = {} /\ node' = Root /\ nodes' = nodes /\ pc' = "profile"
    BY DEF NextFolder
  <2> QED
    BY <1>4, <1>5, <2>1, <2>2
<1> QED
  BY <1>2, <1>3, <1>6 DEF SealInv

(* A statement on a bundle that goes on to the next statement on it.       *)
LEMMA GoingOnKeeps ==
  ASSUME AppTypeOK, SealInv, pc \in OnNode, LocalStep,
         pc' \in {"profile", "seal", "sign"}, node = Root => pc # "inject",
         UNCHANGED <<forceSign, opts, plan, node, files, nodes, finished>>,
         forced' \in {forced, forced \cup {node}},
         NodeReady'
  PROVE  SealInv'
<1>1. \A n \in finished' : NodeDone(n)'
  BY KeepsDone
<1>2. Order' /\ Accounted'
  BY DEF SealInv, Order, Accounted, Early, OnNode
<1>3. Forcing'
  <2>1. node \in Node
    BY DEF AppTypeOK
  <2> QED
    BY <2>1 DEF SealInv, Forcing, OnNode
<1> QED
  BY <1>1, <1>2, <1>3 DEF SealInv

LEMMA InjectSeal ==
  ASSUME AppTypeOK, SealInv, InjectNode
  PROVE  SealInv'
<1>1. pc = "inject" /\ pc \in OnNode /\ LocalStep
  BY InjectIsLocal DEF InjectNode, FailAt, OnNode
<1>2. \A n \in finished : UNCHANGED <<forceSign, opts>> => NodeDone(n)'
  BY <1>1, KeepsDone
<1>3. CASE pc' = "failed" /\ UNCHANGED <<forceSign, opts, nodes, finished>>
  BY <1>1, <1>2, <1>3, GivingUpKeeps
<1>4. CASE /\ pc' = IF node = Root THEN "files" ELSE "profile"
           /\ UNCHANGED <<forceSign, opts, plan, node, files, nodes, finished>>
           /\ forced' \in {forced, forced \cup {node}}
  <2>1. CASE node # Root
    <3>1. NodeReady'
      BY <1>4, <2>1 DEF NodeReady
    <3> QED
      BY <1>1, <1>4, <2>1, <3>1, GoingOnKeeps
  <2>2. CASE node = Root
    <3>1. finished = {} /\ nodes = Node \ {Root}
      BY <1>1, <2>2 DEF SealInv, Order, Accounted
    <3>2. Order' /\ Accounted' /\ NodeReady'
      BY <1>4, <2>2, <3>1 DEF Order, Accounted, NodeReady, Early, OnNode
    <3>3. Forcing'
      BY <1>1, <1>4, <2>2, TreeAssumption DEF SealInv, Forcing, OnNode
    <3> QED
      BY <1>4, <3>1, <3>2, <3>3 DEF SealInv
  <2> QED
    BY <2>1, <2>2
<1> QED
  BY <1>3, <1>4 DEF InjectNode, FailAt, EditFails, Fail, call, history

LEMMA ChooseProfileSeal ==
  ASSUME AppTypeOK, SealInv, ChooseProfile
  PROVE  SealInv'
<1>1. pc = "profile" /\ pc \in OnNode
  BY DEF ChooseProfile, OnNode
<1>2. CASE ProfileFails(node)
  <2>1. LocalStep
    BY <1>2, NothingIsLocal, ProfileIsLocal DEF ProfileFails, disk
  <2>2. \A n \in finished : NodeDone(n)'
    BY <1>1, <1>2, <2>1, KeepsDone DEF ProfileFails, call
  <2> QED
    BY <1>1, <1>2, <2>2, GivingUpKeeps DEF ProfileFails, Fail, call
<1>3. CASE /\ MatchIndexes(node) # {}
           /\ asset' = Chosen(node)
           /\ EmbedProfile(node, Chosen(node))
           /\ forced' = forced \cup {node}
           /\ pc' = "seal"
           /\ UNCHANGED <<listed, cache, opts, forceSign, plan, node, files, nodes, kept, history>>
  <2>1. LocalStep
    BY <1>3, ProfileIsLocal
  <2>2. profile'[node] = Chosen(node) /\ Profile(node) \in exists'
    BY <1>3 DEF EmbedProfile, WriteFiles, AppTypeOK
  <2>3. Chosen(node)' = Chosen(node)
    BY <1>3 DEF Chosen, MatchIndexes
  <2>4. NodeReady'
    BY <1>3, <2>2, <2>3 DEF NodeReady
  <2> QED
    BY <1>1, <1>3, <2>1, <2>4, GoingOnKeeps DEF history
<1>4. CASE MatchIndexes(node) = {} /\ pc' = "seal" /\ UNCHANGED <<disk, cache, call, history>>
  <2>1. LocalStep
    BY <1>4, NothingIsLocal
  <2>2. NodeReady'
    BY <1>4 DEF NodeReady, MatchIndexes, call
  <2> QED
    BY <1>1, <1>4, <2>1, <2>2, GoingOnKeeps DEF call, history
<1> QED
  BY <1>2, <1>3, <1>4 DEF ChooseProfile

(* What GenerateCodeResources writes is the seal of the folder as it is.   *)
LEMMA GeneratedSeals ==
  ASSUME AppTypeOK, Generate, pc' = "sign"
  PROVE  /\ Sealed(node)'
         /\ opts.removeProvision => Profile(node) \notin exists' \cup listed'[node]
         /\ ~opts.removeProvision =>
              profile' = profile /\ (Profile(node) \in exists => Profile(node) \in exists')
<1> DEFINE gone == IF opts.removeProvision THEN {Profile(node)} \cap exists ELSE {}
           names == (exists \cap Covered(node)) \ gone
<1>1. WriteResources(names, names, gone) /\ node' = node
  BY DEF Generate, Fail, call
<1>2. node \in Node /\ listed \in [Node -> SUBSET File] /\ fresh \in [Node -> SUBSET File]
  BY DEF AppTypeOK
<1>3. Resources(node) \notin Covered(node) /\ Covered(node)' = Covered(node)
  BY <1>1 DEF Covered
<1>4. Resources(node) # Profile(node)
  BY DEF Resources, Profile
<1>5. listed'[node] = names /\ fresh'[node] = names
  <2>1. Stale({Resources(node)} \cup gone) \in [Node -> SUBSET File]
    BY <1>2 DEF Stale
  <2> HIDE DEF gone, names
  <2> QED
    BY <1>1, <1>2, <2>1 DEF WriteResources
<1>6. exists' = (exists \cup {Resources(node)}) \ gone
  BY <1>1 DEF WriteResources
<1>7. Sealed(node)'
  BY <1>1, <1>3, <1>5, <1>6 DEF Sealed
<1> QED
  BY <1>1, <1>4, <1>5, <1>6, <1>7 DEF WriteResources

LEMMA SealSeal ==
  ASSUME AppTypeOK, SealInv, Generate \/ GenerateFails \/ Update
  PROVE  SealInv'
<1>1. /\ pc = "seal" /\ pc \in OnNode /\ LocalStep
      /\ UNCHANGED <<cache, call, finished, calls>>
  BY SealIsLocal DEF Generate, GenerateFails, Update, OnNode
<1>2. \A n \in finished : NodeDone(n)'
  BY <1>1, KeepsDone DEF call
<1>3. CASE pc' = "failed"
  BY <1>1, <1>2, <1>3, GivingUpKeeps DEF call
<1>4. MatchIndexes(node) # {} =>
        /\ Profile(node) \in exists /\ profile[node] = Chosen(node) /\ asset = Chosen(node)
        /\ ~opts.removeProvision
  BY <1>1 DEF SealInv, NodeReady, MatchIndexes
<1>5. MatchIndexes(node)' = MatchIndexes(node) /\ Chosen(node)' = Chosen(node)
  BY <1>1 DEF call, MatchIndexes, Chosen
<1>6. CASE Generate /\ pc' = "sign"
  <2>1. NodeReady'
    BY <1>1, <1>4, <1>5, <1>6, GeneratedSeals DEF NodeReady, call
  <2> QED
    BY <1>1, <1>6, <2>1, GoingOnKeeps DEF call
<1>7. CASE Update /\ pc' = "sign"
  <2>1. ~forceSign
    BY <1>1, <1>7 DEF Update, SealInv, Forcing, OnNode, AppTypeOK
  <2>2. profile' = profile /\ exists \subseteq exists'
    BY <1>7 DEF Update, Fail, WriteResources
  <2>3. NodeReady'
    BY <1>1, <1>4, <1>5, <2>1, <2>2 DEF NodeReady, call
  <2> QED
    BY <1>1, <1>7, <2>3, GoingOnKeeps DEF call
<1>8. pc' \in {"failed", "sign"}
  BY DEF Generate, GenerateFails, Update, Fail
<1>9. CASE GenerateFails
  BY <1>3, <1>9 DEF GenerateFails, Fail
<1> QED
  BY <1>3, <1>6, <1>7, <1>8, <1>9

(* The signature of the bundle's executable covers its seal.               *)
LEMMA SignedIsDone ==
  ASSUME AppTypeOK, SealInv, SignExecutable
  PROVE  NodeDone(node)'
<1> DEFINE exe == Exe(node)
           covers == IF node \in plan.info THEN {"Info.plist", "CodeResources"} ELSE {"CodeResources"}
           sig == Signed(exe, node \in forced, covers)
<1>1. /\ pc = "sign" /\ pc \in OnNode /\ node \in Node /\ exe \in MachO /\ exe \in File
      /\ signature \in [MachO -> Sig] /\ covers \in SUBSET Cover /\ (node \in forced) \in BOOLEAN
  BY TypeParts, Files DEF SignExecutable, OnNode, Cover, CallTyped, DiskTyped
<1>2. /\ exists' = exists \cup {exe}
      /\ fresh' = Stale({exe})
      /\ signature' = Uncover([signature EXCEPT ![exe] = sig], {exe})
      /\ UNCHANGED <<listed, profile, opts, forceSign, asset, node>>
  BY DEF SignExecutable, WriteFiles, call
<1>3. sig \in Sig /\ sig.asset = asset /\ sig.covers = covers
      /\ (node \in forced => ~sig.edited)
  <2>1. sig \in Sig
    <3> HIDE DEF covers, exe
    <3> QED
      BY <1>1, SignedType
  <2> QED
    BY <2>1 DEF Signed
<1>4. signature'[exe].asset = asset /\ signature'[exe].covers = covers
      /\ (node \in forced => ~signature'[exe].edited)
  <2> DEFINE sigs == [signature EXCEPT ![exe] = sig]
  <2> HIDE DEF sig, covers
  <2>1. sigs \in [MachO -> Sig] /\ sigs[exe] = sig
    BY <1>1, <1>3
  <2>2. signature' = Uncover(sigs, {exe})
    BY <1>2
  <2> HIDE DEF sigs
  <2>3. \A c \in Cover : <<c, exe[2]>> \notin {exe}
    BY DEF Exe, Cover
  <2> HIDE DEF exe
  <2>4. {c \in sig.covers : <<c, exe[2]>> \notin {exe}} = covers
    BY <1>1, <1>3, <2>3
  <2>5. /\ signature'[exe].asset = sig.asset /\ signature'[exe].edited = sig.edited
        /\ signature'[exe].covers = {c \in sig.covers : <<c, exe[2]>> \notin {exe}}
    <3>1. \A m \in MachO :
            /\ Uncover(sigs, {exe})[m].asset = sigs[m].asset
            /\ Uncover(sigs, {exe})[m].edited = sigs[m].edited
            /\ Uncover(sigs, {exe})[m].covers = {c \in sigs[m].covers : <<c, m[2]>> \notin {exe}}
      BY <2>1, UncoverEffect
    <3>2. exe \in MachO
      BY <1>1
    <3> QED
      BY <2>1, <2>2, <3>1, <3>2
  <2> QED
    BY <1>3, <2>4, <2>5
<1> HIDE DEF sig
<1>5. exe \notin Covered(node) /\ exe # Profile(node)
  BY DEF Covered, Exe, Profile
<1>6. Sealed(node) => Sealed(node)'
  <2> SUFFICES ASSUME Sealed(node) PROVE Sealed(node)'
    OBVIOUS
  <2>1. fresh'[node] = fresh[node]
    BY <1>1, <1>2, <1>5 DEF Stale, Sealed
  <2>2. exists' \cap Covered(node) = exists \cap Covered(node) /\ Covered(node)' = Covered(node)
    BY <1>2, <1>5 DEF Covered
  <2> QED
    BY <1>2, <2>1, <2>2 DEF Sealed
<1>7. forceSign => Sealed(node) /\ node \in forced /\ node \in plan.info
  BY <1>1 DEF SealInv, NodeReady, Forcing
<1>8. IF forceSign' THEN Sealed(node)' /\ Bound(node)'
                    ELSE "CodeResources" \in signature'[Exe(node)].covers
  BY <1>2, <1>4, <1>6, <1>7 DEF Bound
<1>9. MatchIndexes(node)' = MatchIndexes(node) /\ Chosen(node)' = Chosen(node)
  BY <1>2 DEF MatchIndexes, Chosen
<1>10. MatchIndexes(node) # {} =>
         Profile(node) \in exists /\ profile[node] = Chosen(node) /\ asset = Chosen(node)
  BY <1>1 DEF SealInv, NodeReady
<1>11. forceSign /\ opts.removeProvision => Profile(node) \notin exists \cup listed[node]
  BY <1>1 DEF SealInv, NodeReady
<1> QED
  BY <1>2, <1>4, <1>5, <1>8, <1>9, <1>10, <1>11 DEF NodeDone

LEMMA SignSeal ==
  ASSUME AppTypeOK, SealInv, SignExecutable \/ SignExecutableFails
  PROVE  SealInv'
<1>1. pc = "sign" /\ pc \in OnNode /\ LocalStep /\ UNCHANGED call
  BY SignIsLocal DEF SignExecutable, SignExecutableFails, OnNode
<1>2. \A n \in finished : NodeDone(n)'
  BY <1>1, KeepsDone DEF call
<1>3. CASE SignExecutableFails
  BY <1>1, <1>2, <1>3, GivingUpKeeps DEF SignExecutableFails, Fail, call
<1>4. CASE SignExecutable
  <2>1. /\ finished' = finished \cup {node}
        /\ pc' = IF node = Root THEN "done" ELSE "folders"
    BY <1>4 DEF SignExecutable
  <2>2. \A n \in finished' : NodeDone(n)'
    BY <1>1, <1>2, <1>4, <2>1, SignedIsDone DEF call
  <2>3. Order' /\ Accounted'
    BY <1>1, <2>1, TreeAssumption DEF SealInv, Order, Accounted, Early, OnNode, call
  <2>4. Forcing' /\ NodeReady'
    BY <1>1, <2>1 DEF SealInv, Forcing, NodeReady, OnNode, call
  <2> QED
    BY <2>2, <2>3, <2>4 DEF SealInv
<1> QED
  BY <1>1, <1>3, <1>4

LEMMA NextSeal == AppTypeOK /\ SealInv /\ [Next]_vars => SealInv'
<1> SUFFICES ASSUME AppTypeOK, SealInv, [Next]_vars PROVE SealInv'
  OBVIOUS
<1>1. CASE UNCHANGED vars
  <2>1. \A n \in finished' : NodeDone(n)'
    BY <1>1, SameDone DEF vars, call, history, SealInv
  <2>2. Order' /\ Accounted' /\ Forcing'
    BY <1>1 DEF vars, call, history, SealInv, Order, Accounted, Forcing
  <2>3. NodeReady'
    BY <1>1 DEF vars, disk, call, SealInv, NodeReady, Sealed, Covered, MatchIndexes, Chosen
  <2> QED
    BY <2>1, <2>2, <2>3 DEF SealInv
<1> QED
  BY <1>1, BeginSeal, EarlySeal, FilesSeal, NextFolderSeal, InjectSeal, ChooseProfileSeal,
     SealSeal, SignSeal DEF Next

LEMMA Sealing == Spec => [](AppTypeOK /\ SealInv)
  BY InitType, NextType, InitSeal, NextSeal, PTL DEF Spec

(* Once SignNode has returned true for a bundle, nothing that happens in   *)
(* the rest of the call breaks its seal or its signature.                  *)
THEOREM FinishedStaySealed == Spec => []FinishedNodesSealed
<1>1. SealInv => FinishedNodesSealed
  BY DEF SealInv, NodeDone, FinishedNodesSealed
<1> QED
  BY Sealing, <1>1, PTL

(* A bundle that a profile is meant for embeds it, and is signed by the    *)
(* asset that belongs to it.                                               *)
THEOREM ProfilesMatchSigners == Spec => []ProfileMatchesSigner
<1>1. SealInv => ProfileMatchesSigner
  BY DEF SealInv, NodeDone, ProfileMatchesSigner
<1> QED
  BY Sealing, <1>1, PTL

(* -R in a forced call removes every profile before it is sealed.          *)
THEOREM ForcedCallsRemoveProvision == Spec => []ForcedRemovesProvision
<1>1. SealInv => ForcedRemovesProvision
  BY DEF SealInv, NodeDone, ForcedRemovesProvision
<1> QED
  BY Sealing, <1>1, PTL

------------------------------------------------------------------------------
(* A forced call signs every Mach-O file.                                  *)

Given == \E i \in 1 .. Len(opts.profiles) : asset = opts.profiles[i]

(* Mach-O files that the call has not come to yet.                         *)
Pending == files \cup {Exe(n) : n \in Node \ finished}

IsSigned(m) ==
  /\ ~signature[m].edited
  /\ \E i \in 1 .. Len(opts.profiles) : signature[m].asset = opts.profiles[i]

SigningInv ==
  /\ pc # "failed" => Given
  /\ pc \in OnNode \cup {"files", "folders", "done"} /\ forceSign /\ "skip" \notin faults =>
       \A m \in (MachO \cap exists) \ Pending : IsSigned(m)

LEMMA NotMachO ==
  \A n : Info(n) \notin MachO /\ Resources(n) \notin MachO /\ Profile(n) \notin MachO
<1>1. \A m \in MachO : m[1] \in {"executable", "injected dylib", "library"}
  <2>1. \A f \in Library_ : f[1] = "library"
    BY DEF Library_, Library
  <2>2. \A n : Exe(n)[1] = "executable" /\ Copied(n)[1] = "injected dylib"
    BY DEF Exe, Copied
  <2> QED
    BY <2>1, <2>2, FileIsOf
<1>2. \A n : /\ Info(n)[1] = "Info.plist" /\ Resources(n)[1] = "CodeResources"
             /\ Profile(n)[1] = "embedded.mobileprovision"
  BY DEF Info, Resources, Profile
<1> QED
  BY <1>1, <1>2

LEMMA UncoverKeepsSigner ==
  ASSUME AppTypeOK, NEW changed, signature' = Uncover(signature, changed)
  PROVE  \A m \in MachO : /\ signature'[m].asset = signature[m].asset
                          /\ signature'[m].edited = signature[m].edited
  BY UncoverEffect, TypeParts DEF DiskTyped

(* A statement under which each Mach-O file that the call has come to is   *)
(* signed by it, or was and is not touched.                                *)
LEMMA SigningStep ==
  ASSUME SigningInv, pc \in OnNode \cup {"files", "folders"},
         UNCHANGED <<opts, forceSign>>, faults \subseteq faults', Given',
         forceSign /\ "skip" \notin faults' =>
           \A m \in (MachO \cap exists') \ Pending' :
             \/ IsSigned(m)'
             \/ /\ m \in exists /\ m \notin Pending
                /\ signature'[m].asset = signature[m].asset
                /\ signature'[m].edited = signature[m].edited
  PROVE  SigningInv'
<1> SUFFICES ASSUME forceSign, "skip" \notin faults', NEW m \in (MachO \cap exists') \ Pending'
             PROVE  IsSigned(m)'
  BY DEF SigningInv
<1>1. CASE m \in exists /\ m \notin Pending /\ signature'[m].asset = signature[m].asset
            /\ signature'[m].edited = signature[m].edited
  <2>1. IsSigned(m)
    BY <1>1 DEF SigningInv
  <2> QED
    BY <1>1, <2>1 DEF IsSigned
<1> QED
  BY <1>1

(* A statement that writes no Mach-O file.                                 *)
LEMMA QuietStep ==
  ASSUME AppTypeOK, SigningInv, pc \in OnNode \cup {"files", "folders"},
         UNCHANGED <<opts, forceSign, files, finished>>, faults \subseteq faults', Given',
         MachO \cap exists' \subseteq exists,
         \A m \in MachO : /\ signature'[m].asset = signature[m].asset
                          /\ signature'[m].edited = signature[m].edited
  PROVE  SigningInv'
  BY SigningStep DEF Pending

LEMMA EarlySigning ==
  ASSUME AppTypeOK, SealInv, SigningInv,
         (\E o \in Options : Begin(o)) \/ ModifyBundleInfo \/ DropProfile \/ WriteProfile \/ Plan
  PROVE  SigningInv'
<1>1. ASSUME NEW o \in Options, Begin(o) PROVE SigningInv'
  BY <1>1, ProfilesAreGiven DEF Begin, SigningInv, Given, OnNode
<1>2. CASE pc' = "failed"
  BY <1>2 DEF SigningInv, OnNode
<1>3. CASE pc \in Early /\ pc' \in Early /\ UNCHANGED <<opts, asset>>
  BY <1>3 DEF SigningInv, Given, OnNode, Early
<1>4. CASE Plan /\ ~FailAt("plan")
  <2>1. /\ pc = "plan" /\ finished = {} /\ pc' = "inject"
        /\ UNCHANGED <<disk, opts, asset, finished, faults>>
    BY <1>4 DEF Plan, SealInv, Order, Early, history
  <2>2. Given'
    BY <2>1 DEF SigningInv, Given
  <2>3. forceSign' => files' = (exists \cap MachO) \ {Exe(Root)}
    <3> SUFFICES ASSUME forceSign' PROVE files' = (exists \cap MachO) \ {Exe(Root)}
      OBVIOUS
    <3>1. /\ forceSign' = MustForce /\ files' = plan'.files \ {Exe(Root)}
          /\ MustForce => plan' = [files |-> exists \cap MachO, info |-> Node]
      BY <1>4 DEF Plan
    <3>2. plan' = [files |-> exists \cap MachO, info |-> Node]
      BY <3>1
    <3> QED
      BY <3>1, <3>2
  <2>4. forceSign' => MachO \cap exists' \subseteq Pending'
    BY <2>1, <2>3, TreeAssumption DEF Pending, disk
  <2> QED
    BY <2>1, <2>2, <2>4 DEF SigningInv
<1>5. (\E o \in Options : Begin(o)) \/ pc' = "failed" \/ (Plan /\ ~FailAt("plan"))
        \/ (pc \in Early /\ pc' \in Early /\ UNCHANGED <<opts, asset>>)
  BY DEF ModifyBundleInfo, DropProfile, WriteProfile, ProfileFails, FailAt, Fail, Early, call
<1> QED
  BY <1>1, <1>2, <1>3, <1>4, <1>5

(* Editing m leaves it to be signed, and signs the dylib beside it.        *)
LEMMA EditedSigners ==
  ASSUME AppTypeOK, NEW m \in MachO
  PROVE  /\ Copied(Folder(m)) \in Edited(m).changed \ {m} =>
              /\ Edited(m).sigs[Copied(Folder(m))].asset = asset
              /\ ~Edited(m).sigs[Copied(Folder(m))].edited
         /\ \A x \in MachO \ Edited(m).changed : Edited(m).sigs[x] = signature[x]
<1>1. Copied(Folder(m)) \in MachO
  BY Folders, Files
<1> QED
  BY <1>1 DEF Edited

LEMMA InjectSigning ==
  ASSUME AppTypeOK, SealInv, SigningInv, InjectNode
  PROVE  SigningInv'
<1> DEFINE exe == Exe(node)
<1>1. /\ pc = "inject" /\ node \in Node /\ node \notin finished
      /\ exe \in MachO /\ Folder(exe) = node /\ Copied(node) \in MachO
      /\ Given /\ UNCHANGED <<opts, forceSign, asset, files, finished>>
  BY Files, Folders DEF AppTypeOK, InjectNode, FailAt, SealInv, Order, OnNode, SigningInv,
     EditFails, call, history
<1>2. CASE pc' = "failed"
  BY <1>2 DEF SigningInv, OnNode
<1>3. CASE UNCHANGED <<disk, call, history>>
  BY <1>1, <1>3, QuietStep DEF disk, call, history, Given, OnNode
<1>4. CASE /\ exists' \subseteq exists \cup Edited(exe).changed
           /\ signature' = Edited(exe).sigs
           /\ faults \subseteq faults'
  <2>1. Given'
    BY <1>1 DEF Given
  <2>2. Edited(exe).changed \subseteq {exe, Copied(node)}
    BY <1>1, EditedEffect
  <2>3. exe \in Pending' /\ Pending' = Pending
    BY <1>1 DEF Pending
  <2>4. ASSUME NEW m \in (MachO \cap exists') \ Pending'
        PROVE  \/ IsSigned(m)'
               \/ /\ m \in exists /\ m \notin Pending
                  /\ signature'[m].asset = signature[m].asset
                  /\ signature'[m].edited = signature[m].edited
    <3>1. CASE m \in Edited(exe).changed
      <4>1. m = Copied(node) /\ m # exe
        BY <2>2, <2>3, <2>4, <3>1
      <4>2. signature'[m].asset = asset /\ ~signature'[m].edited
        BY <1>1, <1>4, <3>1, <4>1, EditedSigners
      <4> QED
        BY <1>1, <4>2 DEF IsSigned, Given
    <3>2. CASE m \notin Edited(exe).changed
      BY <1>1, <1>4, <2>3, <2>4, <3>2, EditedSigners
    <3> QED
      BY <3>1, <3>2
  <2> QED
    BY <1>1, <1>4, <2>1, <2>4, SigningStep DEF OnNode
<1>5. \/ pc' = "failed" \/ UNCHANGED <<disk, call, history>>
      \/ /\ exists' \subseteq exists \cup Edited(exe).changed
         /\ signature' = Edited(exe).sigs
         /\ faults \subseteq faults'
  BY DEF InjectNode, FailAt, Fail, EditFails
<1> QED
  BY <1>2, <1>3, <1>4, <1>5

LEMMA FilesSigning ==
  ASSUME AppTypeOK, SealInv, SigningInv,
         \/ \E f \in files : SkipFile(f) \/ SignFile(f) \/ SignFileFails(f)
         \/ FilesSigned \/ NextFolder
  PROVE  SigningInv'
<1>1. CASE FilesSigned \/ NextFolder
  <2>1. /\ pc \in {"files", "folders"} /\ UNCHANGED <<disk, opts, forceSign, asset, files, history>>
    BY <1>1 DEF FilesSigned, NextFolder, call
  <2>2. Given'
    BY <2>1 DEF SigningInv, Given
  <2> QED
    BY <2>1, <2>2, QuietStep DEF disk, history
<1>2. ASSUME NEW f \in files, SkipFile(f) PROVE SigningInv'
  <2>1. /\ pc = "files" /\ UNCHANGED <<disk, opts, forceSign, asset, finished>> /\ Given
        /\ files' = files \ {f} /\ faults \subseteq faults'
        /\ f \in exists => "skip" \in faults'
    BY <1>2 DEF SkipFile, SigningInv
  <2>2. Given'
    BY <2>1 DEF Given
  <2>3. \A m \in (MachO \cap exists') \ Pending' :
          "skip" \notin faults' => m \in exists /\ m \notin Pending
    BY <2>1 DEF Pending, disk
  <2> QED
    BY <2>1, <2>2, <2>3, SigningStep DEF disk
<1>3. ASSUME NEW f \in files, SignFile(f) PROVE SigningInv'
  <2> DEFINE edit == InFilesScope /\ (opts.inject \/ opts.drop # {})
             changed == IF edit THEN Edited(f).changed ELSE {f}
             sigs == IF edit THEN Edited(f).sigs ELSE signature
             mine == Signed(f, forceSign \/ InFilesScope, {})
  <2>1. /\ pc = "files" /\ UNCHANGED <<opts, forceSign, asset, finished, faults>> /\ Given
        /\ f \in MachO /\ files' = files \ {f}
    BY <1>3 DEF SignFile, SigningInv, history, AppTypeOK
  <2>2. /\ exists' = exists \cup changed
        /\ signature' = Uncover([sigs EXCEPT ![f] = mine], changed)
    BY <1>3 DEF SignFile, WriteFiles
  <2>3. /\ sigs \in [MachO -> Sig] /\ changed \subseteq {f, Copied(Folder(f))}
        /\ \A x \in MachO \ changed : sigs[x] = signature[x]
        /\ Copied(Folder(f)) \in changed \ {f} =>
             sigs[Copied(Folder(f))].asset = asset /\ ~sigs[Copied(Folder(f))].edited
    BY <2>1, EditedEffect, EditedSigners, TypeParts DEF DiskTyped
  <2>4. mine \in Sig /\ mine.asset = asset /\ (forceSign => ~mine.edited)
    <3>1. (forceSign \/ InFilesScope) \in BOOLEAN
      BY DEF InFilesScope, AppTypeOK
    <3>2. mine \in Sig
      BY <2>1, <3>1, SignedType
    <3> QED
      BY <3>2 DEF Signed
  <2> HIDE DEF mine, sigs, changed
  <2>5. [sigs EXCEPT ![f] = mine] \in [MachO -> Sig]
    BY <2>3, <2>4
  <2>6. \A m \in MachO : /\ signature'[m].asset = [sigs EXCEPT ![f] = mine][m].asset
                         /\ signature'[m].edited = [sigs EXCEPT ![f] = mine][m].edited
    BY <2>2, <2>5, UncoverEffect
  <2>7. Given'
    BY <2>1 DEF Given
  <2>8. ASSUME forceSign, NEW m \in (MachO \cap exists') \ Pending'
        PROVE  \/ IsSigned(m)'
               \/ /\ m \in exists /\ m \notin Pending
                  /\ signature'[m].asset = signature[m].asset
                  /\ signature'[m].edited = signature[m].edited
    <3>1. CASE m = f
      <4>1. signature'[m].asset = asset /\ ~signature'[m].edited
        BY <2>1, <2>3, <2>4, <2>6, <2>8, <3>1
      <4> QED
        BY <2>1, <4>1 DEF IsSigned, Given
    <3>2. CASE m # f /\ m \in changed
      <4>1. m = Copied(Folder(f)) /\ m \in changed \ {f}
        BY <2>3, <3>2
      <4>2. signature'[m].asset = asset /\ ~signature'[m].edited
        BY <2>3, <2>6, <3>2, <4>1
      <4> QED
        BY <2>1, <4>2 DEF IsSigned, Given
    <3>3. CASE m # f /\ m \notin changed
      <4>1. m \in exists /\ m \notin Pending
        BY <2>1, <2>2, <2>8, <3>3 DEF Pending
      <4>2. signature'[m].asset = signature[m].asset /\ signature'[m].edited = signature[m].edited
        BY <2>3, <2>6, <3>3
      <4> QED
        BY <4>1, <4>2
    <3> QED
      BY <3>1, <3>2, <3>3
  <2> QED
    BY <2>1, <2>7, <2>8, SigningStep
<1>4. ASSUME NEW f \in files, SignFileFails(f) PROVE SigningInv'
  BY <1>4 DEF SignFileFails, EditFails, Fail, SigningInv, OnNode
<1> QED
  BY <1>1, <1>2, <1>3, <1>4

LEMMA ProfileSigning ==
  ASSUME AppTypeOK, SealInv, SigningInv, ChooseProfile
  PROVE  SigningInv'
<1>1. CASE pc' = "failed"
  BY <1>1 DEF SigningInv, OnNode
<1>2. CASE MatchIndexes(node) = {} /\ UNCHANGED <<disk, call, history>>
  BY <1>2, QuietStep DEF ChooseProfile, SigningInv, Given, disk, call, history, OnNode, ProfileFails, Fail
<1>3. CASE /\ pc = "profile" /\ MatchIndexes(node) # {}
           /\ asset' = Chosen(node) /\ EmbedProfile(node, Chosen(node))
           /\ UNCHANGED <<opts, forceSign, files, history>>
  <2>1. Given'
    BY <1>3, ChosenIsGiven DEF Given
  <2>2. \E changed \in {{}, {Profile(node)}} : WriteFiles(changed, signature)
    BY <1>3 DEF EmbedProfile
  <2>3. MachO \cap exists' \subseteq exists
    BY <2>2, NotMachO DEF WriteFiles
  <2>4. \A m \in MachO : /\ signature'[m].asset = signature[m].asset
                         /\ signature'[m].edited = signature[m].edited
    BY <2>2, UncoverKeepsSigner DEF WriteFiles
  <2> QED
    BY <1>3, <2>1, <2>3, <2>4, QuietStep DEF history, OnNode
<1> QED
  BY <1>1, <1>2, <1>3 DEF ChooseProfile, ProfileFails, Fail

LEMMA ResourcesSigning ==
  ASSUME AppTypeOK, SealInv, SigningInv, Generate \/ GenerateFails \/ Update
  PROVE  SigningInv'
<1>1. CASE pc' = "failed"
  BY <1>1 DEF SigningInv, OnNode
<1>2. CASE pc' # "failed"
  <2>1. pc = "seal" /\ UNCHANGED <<call, finished, faults>>
    BY <1>2 DEF Generate, GenerateFails, Update, Fail
  <2>2. PICK names, right, gone : WriteResources(names, right, gone)
    BY <1>2 DEF Generate, GenerateFails, Update, Fail
  <2>3. Given'
    BY <2>1 DEF call, SigningInv, Given
  <2>4. MachO \cap exists' \subseteq exists
    BY <2>2, NotMachO DEF WriteResources
  <2>5. \A m \in MachO : /\ signature'[m].asset = signature[m].asset
                         /\ signature'[m].edited = signature[m].edited
    BY <2>2, UncoverKeepsSigner DEF WriteResources
  <2> QED
    BY <2>1, <2>3, <2>4, <2>5, QuietStep DEF call, OnNode
<1> QED
  BY <1>1, <1>2

LEMMA ExecutableSigning ==
  ASSUME AppTypeOK, SealInv, SigningInv, SignExecutable
  PROVE  SigningInv'
<1> DEFINE exe == Exe(node)
           covers == IF node \in plan.info THEN {"Info.plist", "CodeResources"} ELSE {"CodeResources"}
           mine == Signed(exe, node \in forced, covers)
           sigs == [signature EXCEPT ![exe] = mine]
<1>1. /\ pc = "sign" /\ node \in Node /\ exe \in MachO /\ signature \in [MachO -> Sig] /\ Given
      /\ covers \in SUBSET Cover /\ (node \in forced) \in BOOLEAN
      /\ UNCHANGED <<call, faults>> /\ finished' = finished \cup {node}
      /\ exists' = exists \cup {exe} /\ signature' = Uncover(sigs, {exe})
  BY Files, TypeParts DEF SignExecutable, WriteFiles, CallTyped, DiskTyped, SigningInv, Cover
<1>2. mine \in Sig
  <2> HIDE DEF covers, exe
  <2> QED
    BY <1>1, SignedType
<1>3. mine.asset = asset /\ (forceSign => ~mine.edited)
  BY <1>1 DEF Signed, SealInv, Forcing, OnNode
<1> HIDE DEF mine
<1>4. sigs \in [MachO -> Sig] /\ sigs[exe] = mine /\ \A m \in MachO \ {exe} : sigs[m] = signature[m]
  BY <1>1, <1>2
<1> HIDE DEF sigs
<1>5. \A m \in MachO : /\ signature'[m].asset = sigs[m].asset
                       /\ signature'[m].edited = sigs[m].edited
  BY <1>1, <1>4, UncoverEffect
<1>6. Given'
  BY <1>1 DEF Given, call
<1>7. ASSUME forceSign, NEW m \in (MachO \cap exists') \ Pending'
      PROVE  \/ IsSigned(m)'
             \/ /\ m \in exists /\ m \notin Pending
                /\ signature'[m].asset = signature[m].asset
                /\ signature'[m].edited = signature[m].edited
  <2>1. CASE m = exe
    <3>1. signature'[m].asset = asset /\ ~signature'[m].edited
      BY <1>1, <1>3, <1>4, <1>5, <1>7, <2>1
    <3> QED
      BY <1>1, <3>1 DEF IsSigned, Given, call
  <2>2. CASE m # exe
    <3>1. m \in exists /\ m \notin Pending
      BY <1>1, <1>7, <2>2 DEF Pending, call
    <3> QED
      BY <1>4, <1>5, <1>7, <2>2, <3>1
  <2> QED
    BY <2>1, <2>2
<1> QED
  BY <1>1, <1>6, <1>7, SigningStep DEF call, OnNode

LEMMA NextSigning == AppTypeOK /\ SealInv /\ SigningInv /\ [Next]_vars => SigningInv'
<1> SUFFICES ASSUME AppTypeOK, SealInv, SigningInv, [Next]_vars PROVE SigningInv'
  OBVIOUS
<1>1. CASE UNCHANGED vars
  BY <1>1 DEF vars, disk, call, history, SigningInv, Given, Pending, IsSigned
<1>2. CASE SignExecutableFails
  BY <1>2 DEF SignExecutableFails, Fail, SigningInv, OnNode
<1> QED
  BY <1>1, <1>2, EarlySigning, InjectSigning, FilesSigning, ProfileSigning, ResourcesSigning,
     ExecutableSigning DEF Next

(* A call that returns true with forceSign_ set and has skipped no file    *)
(* leaves every Mach-O file of the app signed, as it is now, by one of the *)
(* assets of its command line.                                             *)
THEOREM ForcedCallsSignEverything == Spec => []EverythingSigned
<1>1. Init => SigningInv
  BY DEF Init, SigningInv, OnNode
<1>2. Spec => []SigningInv
  BY <1>1, Sealing, NextSigning, PTL DEF Spec
<1>3. SealInv /\ SigningInv => EverythingSigned
  <2> SUFFICES ASSUME SealInv, SigningInv, pc = "done", forceSign, "skip" \notin faults
               PROVE  \A m \in MachO \cap exists : IsSigned(m)
    BY DEF EverythingSigned, IsSigned
  <2>1. Pending = {}
    BY DEF Pending, SealInv, Accounted
  <2> QED
    BY <2>1 DEF SigningInv
<1> QED
  BY Sealing, <1>2, <1>3, PTL

==============================================================================
