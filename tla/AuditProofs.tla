----------------------------- MODULE AuditProofs -----------------------------
(***************************************************************************)
(* Proofs about Audit and the SigningAsset it tries files with, for every  *)
(* input and all signing files: what EntitlementValueAllowed lets through  *)
(* grants no more than the profile does, an asset that Init makes ready    *)
(* and that can sign is one the profile stands for, a report that says     *)
(* ready has tried the files as signing will, and a report names every     *)
(* Mach-O under its roots once, or says that it could not be read.         *)
(***************************************************************************)
EXTENDS Audit, SequenceTheorems, FiniteSetTheorems, TLAPS

------------------------------------------------------------------------------
(* Signing assets.                                                         *)

(* A prefix, element by element.                                           *)
LEMMA PrefixElements ==
  ASSUME NEW s \in Seq(STRING), NEW t \in Seq(STRING)
  PROVE  IsPrefix(s, t) <=> Len(s) <= Len(t) /\ \A i \in 1 .. Len(s) : s[i] = t[i]
<1>1. ASSUME IsPrefix(s, t)
      PROVE  Len(s) <= Len(t) /\ \A i \in 1 .. Len(s) : s[i] = t[i]
  <2>1. Len(s) <= Len(t) /\ SubSeq(s, 1, Len(s)) = SubSeq(t, 1, Len(s))
    BY <1>1 DEF IsPrefix
  <2>2. \A i \in 1 .. Len(s) : SubSeq(s, 1, Len(s))[i] = s[i] /\ SubSeq(t, 1, Len(s))[i] = t[i]
    BY <2>1
  <2> QED
    BY <2>1, <2>2
<1>2. ASSUME Len(s) <= Len(t), \A i \in 1 .. Len(s) : s[i] = t[i]
      PROVE  IsPrefix(s, t)
  BY <1>2 DEF IsPrefix
<1> QED
  BY <1>1, <1>2

(* The front of a pattern is what precedes its star.                       *)
LEMMA FrontElements ==
  ASSUME NEW s \in Seq(STRING), IsPattern(s)
  PROVE  /\ Front(s) \in Seq(STRING) /\ Len(Front(s)) = Len(s) - 1
         /\ \A i \in 1 .. Len(s) - 1 : Front(s)[i] = s[i]
<1>1. Len(s) \in Nat \ {0} /\ \A i \in 1 .. Len(s) - 1 : s[i] \in STRING
  BY DEF IsPattern
<1> DEFINE n == Len(s) - 1
<1>2. n \in Nat /\ \A i \in 1 .. n : s[i] \in STRING
  BY <1>1
<1>3. /\ SubSeq(s, 1, n) \in Seq(STRING)
      /\ Len(SubSeq(s, 1, n)) = IF 1 <= n THEN n - 1 + 1 ELSE 0
      /\ \A i \in 1 .. n - 1 + 1 : SubSeq(s, 1, n)[i] = s[1 + i - 1]
  BY <1>2, SubSeqProperties
<1>4. Front(s) = SubSeq(s, 1, n)
  BY DEF Front
<1> HIDE DEF n
<1>5. n - 1 + 1 = n /\ (IF 1 <= n THEN n - 1 + 1 ELSE 0) = n
  BY <1>2
<1>6. Len(Front(s)) = n
  BY <1>3, <1>4, <1>5, Zenon
<1>7. ASSUME NEW i \in 1 .. n PROVE Front(s)[i] = s[i]
  <2>1. 1 + i - 1 = i
    BY <1>2
  <2> QED
    BY <1>3, <1>4, <1>5, <2>1, Zenon
<1> QED
  BY <1>3, <1>4, <1>6, <1>7, Zenon DEF n

(* A string that a pattern allows permits what the pattern permits, unless *)
(* the pattern ends in two stars.                                          *)
LEMMA StringAllowedPermits ==
  ASSUME NEW p \in Seq(STRING), IsPattern(p), ~IsPattern(Front(p)),
         NEW q \in Seq(STRING), IsPattern(q), IsPrefix(Front(p), q),
         NEW t \in Seq(STRING), IsPrefix(Front(q), t)
  PROVE  IsPrefix(Front(p), t)
<1>1. /\ Front(p) \in Seq(STRING) /\ Len(Front(p)) = Len(p) - 1
      /\ Front(q) \in Seq(STRING) /\ Len(Front(q)) = Len(q) - 1
      /\ \A i \in 1 .. Len(q) - 1 : Front(q)[i] = q[i]
  BY FrontElements
<1>2. Len(Front(p)) <= Len(q) /\ \A i \in 1 .. Len(Front(p)) : Front(p)[i] = q[i]
  BY <1>1, PrefixElements
<1>3. Len(Front(p)) # Len(q)
  BY <1>1, <1>2 DEF IsPattern, Last
<1>4. Len(Front(q)) <= Len(t) /\ \A i \in 1 .. Len(Front(q)) : Front(q)[i] = t[i]
  BY <1>1, PrefixElements
<1>5. Len(Front(p)) <= Len(t) /\ \A i \in 1 .. Len(Front(p)) : Front(p)[i] = t[i]
  BY <1>1, <1>2, <1>3, <1>4
<1> QED
  BY <1>1, <1>5, PrefixElements

(* An allowed scalar permits no more than the one that allows it.          *)
LEMMA ScalarAllowedPermits ==
  ASSUME NEW a, NEW r, ProperScalar(a), ProperScalar(r), ScalarAllowed(a, r)
  PROVE  a.kind # "array" /\ r.kind # "array" /\ ScalarPermits(r) \subseteq ScalarPermits(a)
<1>1. a.kind = r.kind /\ r.kind \in {"bool", "string", "int", "data", "null"}
  BY DEF ScalarAllowed
<1>2. CASE r.kind = "bool"
  BY <1>1, <1>2 DEF ScalarAllowed, ScalarPermits, ProperScalar
<1>3. CASE r.kind \in {"int", "data", "null"}
  BY <1>1, <1>3 DEF ScalarAllowed, ScalarPermits
<1>4. CASE r.kind = "string"
  <2>1. StringAllowed(a.v, r.v)
    BY <1>4 DEF ScalarAllowed
  <2>2. CASE ~IsPattern(a.v)
    BY <1>1, <1>4, <2>1, <2>2 DEF StringAllowed, ScalarPermits
  <2>3. CASE IsPattern(a.v)
    <3>1. /\ a.v \in Seq(STRING) /\ ~IsPattern(Front(a.v)) /\ IsPrefix(Front(a.v), r.v)
          /\ ScalarPermits(a) = {t \in Strings : IsPrefix(Front(a.v), t)}
      BY <1>1, <1>4, <2>1, <2>3 DEF StringAllowed, ScalarPermits, ProperScalar
    <3>2. CASE IsPattern(r.v)
      <4>1. r.v \in Seq(STRING) /\ ScalarPermits(r) = {t \in Strings : IsPrefix(Front(r.v), t)}
        BY <1>4, <3>2 DEF ScalarPermits, ProperScalar
      <4> QED
        BY <1>1, <2>3, <3>1, <3>2, <4>1, StringAllowedPermits, StringsAssumption
    <3>3. CASE ~IsPattern(r.v)
      <4>1. r.v \in Strings /\ ScalarPermits(r) = {r.v}
        BY <1>4, <3>3 DEF ScalarPermits, ProperScalar
      <4> QED
        BY <1>1, <1>4, <3>1, <4>1
    <3> QED
      BY <3>2, <3>3
  <2> QED
    BY <2>2, <2>3
<1> QED
  BY <1>1, <1>2, <1>3, <1>4

(* Nor does an allowed value.                                              *)
LEMMA ValueAllowedPermits ==
  ASSUME NEW a, NEW r, ProperValue(a), ProperValue(r), ValueAllowed(a, r)
  PROVE  Permits(r) \subseteq Permits(a)
<1>1. CASE r.kind = "array"
  <2>1. /\ a.kind = "array"
        /\ \A s \in Range(r.items) : \E b \in Range(a.items) :
             ScalarPermits(s) \subseteq ScalarPermits(b)
    BY <1>1, ScalarAllowedPermits DEF ValueAllowed, ProperValue
  <2> QED
    BY <1>1, <2>1 DEF Permits
<1>2. CASE r.kind # "array"
  <2>1. ScalarAllowed(a, r) /\ ProperScalar(r) /\ a.kind = r.kind
    BY <1>2 DEF ValueAllowed, ProperValue, ScalarAllowed
  <2>2. ProperScalar(a)
    BY <1>2, <2>1 DEF ProperValue
  <2> QED
    BY <1>2, <2>1, <2>2, ScalarAllowedPermits DEF Permits
<1> QED
  BY <1>1, <1>2

(* Entitlements that are allowed grant nothing the profile does not.       *)
LEMMA EntitlementsGrantNoMore ==
  ASSUME NEW allowed, NEW requested, Proper(allowed), Proper(requested),
         EntitlementsAllowed(allowed, requested)
  PROVE  Grants(requested) \subseteq Grants(allowed)
<1>1. \A k \in DOMAIN requested :
        k \in DOMAIN allowed /\ Permits(requested[k]) \subseteq Permits(allowed[k])
  BY ValueAllowedPermits DEF EntitlementsAllowed, Proper
<1> QED
  BY <1>1 DEF Grants

------------------------------------------------------------------------------
(* What is known of an asset that is ready, and of one that has signed.    *)
Provisioned(a) ==
  /\ a.leaf.key = a.key /\ a.leaf.current
  /\ a.leaf \in a.profile.certs /\ a.leaf.team = a.profile.team
  /\ a.profile.trusted /\ a.profile.expires = "later"
  /\ Grants(a.granted) \subseteq Grants(a.profile.allowed)
Chained(a) ==
  /\ a.leaf.issuer \in OtherCerts(a)
  /\ \A c \in OtherCerts(a) \cap Intermediates : RootOf[c] \in OtherCerts(a)

(* The certificate that is chosen is the key's.                            *)
LEMMA PairedIsKeys ==
  ASSUME NEW cert, NEW key, NEW profile, PairedCertificate(cert, key, profile) # NoCertificate
  PROVE  PairedCertificate(cert, key, profile).key = key.holds
  BY DEF PairedCertificate

(* Init makes an asset ready only if it is provisioned, or ad hoc.         *)
LEMMA ReadyIsProvisioned ==
  ASSUME NEW cert, NEW key, NEW profile, NEW entitlements, NEW unsigned,
         Proper(profile.allowed), Proper(entitlements.dictionary),
         InitAsset(cert, key, profile, entitlements, unsigned).ready
  PROVE  LET a == InitAsset(cert, key, profile, entitlements, unsigned)
         IN  a.adhoc \/ Provisioned(a)
<1> DEFINE a == InitAsset(cert, key, profile, entitlements, unsigned)
           leaf == PairedCertificate(cert, key, profile)
           requested == Requested(profile, entitlements)
<1>0. ~NoAsset.ready
  BY DEF NoAsset
<1>1. CASE unsigned
  BY <1>0, <1>1 DEF InitAsset, NoAsset
<1>2. CASE ~unsigned
  <2>1. /\ Readable(profile) /\ leaf # NoCertificate /\ Authorized(leaf, profile, requested)
        /\ a = [ready |-> TRUE, adhoc |-> FALSE, leaf |-> leaf, key |-> key.holds,
                chain |-> key.chain, profile |-> profile, granted |-> requested]
    BY <1>0, <1>2 DEF InitAsset
  <2>2. leaf.key = key.holds
    BY <2>1, PairedIsKeys
  <2>3. Proper(requested)
    BY DEF Requested
  <2>4. Grants(requested) \subseteq Grants(profile.allowed)
    BY <2>1, <2>3, EntitlementsGrantNoMore DEF Authorized
  <2> QED
    BY <2>1, <2>2, <2>4 DEF Provisioned, Authorized, Readable
<1> QED
  BY <1>1, <1>2

(* The chain that GenerateCMS sends is complete when there is one.         *)
LEMMA SignsWithChain ==
  ASSUME NEW a, CanSign(a)
  PROVE  a.adhoc \/ Chained(a)
<1> DEFINE base == IF a.leaf.issuer \in a.chain THEN a.chain
                   ELSE {a.leaf.issuer} \cap Intermediates
<1>1. OtherCerts(a) = base \cup {RootOf[c] : c \in base \cap Intermediates}
  BY DEF OtherCerts
<1>2. CASE OtherCerts(a) # {}
  <2>1. a.leaf.issuer \in base
    BY <1>1, <1>2
  <2>2. \A c \in OtherCerts(a) \cap Intermediates : c \in base
    BY <1>1, RootAssumption
  <2> QED
    BY <1>1, <2>1, <2>2 DEF Chained
<1> QED
  BY <1>2 DEF CanSign

------------------------------------------------------------------------------
(* The inductive invariant: what each stage has looked at, unless there is *)
(* an error among the issues already.                                      *)

KeyTried ==
  "key" \in supplied.present /\ ~adhoc =>
    \A f \in External \cup (IF External = {} THEN EmbeddedProfiles ELSE {}) : AssetFor(f).ready

Matched(b) ==
  \/ \E m \in matched :
       m[1] = b /\ m[2] \in Candidates(b) /\ ~Expired(m[2]) /\ Score(m[2], Id(b)) >= 0
  \/ Warning("PROFILE_NOT_PROVIDED", b) \in issues
AllMatched == \A b \in {c \in Bundles : Required(c)} : Matched(b)

(* Profiles that are given can be tried.                                   *)
ProfilesListed == supplied.profiles # <<>> => External # {}

ReadyInv ==
  /\ ProfilesListed
  /\ stage = "single" => tree.kind = "macho"
  /\ (stage = "reported" /\ ReadyForSigning) => KeyTried
  /\ (stage \in {"assets", "reported"} /\ ReadyForSigning /\ tree.kind # "macho") => AllMatched

------------------------------------------------------------------------------
(* What is read of a request stays as long as the request does.            *)
LEMMA BundlesKept == ASSUME UNCHANGED request PROVE Bundles' = Bundles
  BY DEF request, Bundles, Reached, Below, Ext, IsFolderAt

LEMMA ProfilesKept ==
  ASSUME UNCHANGED request
  PROVE  External' = External /\ EmbeddedProfiles' = EmbeddedProfiles
  BY BundlesKept DEF request, External, EmbeddedProfiles

LEMMA BundleKept ==
  ASSUME UNCHANGED request, NEW b
  PROVE  Candidates(b)' = Candidates(b) /\ Id(b)' = Id(b) /\ Required(b)' = Required(b)
  BY ProfilesKept DEF request, Candidates, Id, Required, Ext

(* Issues are only added, and an error among them stays.                   *)
LEMMA ReadyBefore ==
  ASSUME issues \subseteq issues', ReadyForSigning' PROVE ReadyForSigning
  BY DEF ReadyForSigning

LEMMA NoErrorWhenReady ==
  ASSUME ReadyForSigning, NEW c, NEW about PROVE Error(c, about) \notin issues
  BY DEF ReadyForSigning, Error, Issue

LEMMA AllMatchedKept ==
  ASSUME UNCHANGED <<request, matched>>, issues \subseteq issues', AllMatched
  PROVE  AllMatched'
  BY BundlesKept, BundleKept, ZenonT(30) DEF AllMatched, Matched, Expired, ProfileValid, Readable, Score, Warning, Issue

------------------------------------------------------------------------------
(* MatchProfiles finds a profile for each bundle, or adds an issue.        *)
LEMMA MatchProfilesMatches ==
  ASSUME MatchProfiles, ReadyForSigning'
  PROVE  AllMatched'
<1> DEFINE needing == {b \in Bundles : Required(b)}
           best(b) == BestProfiles(Candidates(b), Id(b))
<1>0. UNCHANGED request
  BY DEF MatchProfiles
<1>1. PICK f \in [{b \in needing : best(b) # {}} -> External \cup EmbeddedProfiles] :
        /\ \A b \in DOMAIN f : f[b] \in best(b)
        /\ matched' = {<<b, f[b]>> : b \in DOMAIN f}
  BY DEF MatchProfiles
<1>2. /\ \A b \in needing : Candidates(b) = {} => Warning("PROFILE_NOT_PROVIDED", b) \in issues'
      /\ \A b \in needing : Candidates(b) # {} /\ best(b) = {}
           => Error("PROFILE_BUNDLE_ID_MISMATCH", b) \in issues'
  BY DEF MatchProfiles
<1>3. \A b \in needing : ~(Candidates(b) # {} /\ best(b) = {})
  BY <1>2 DEF ReadyForSigning, Error, Issue
<1>4. ASSUME NEW b \in needing, best(b) # {}
      PROVE  \E m \in matched' :
               m[1] = b /\ m[2] \in Candidates(b) /\ ~Expired(m[2]) /\ Score(m[2], Id(b)) >= 0
  <2>1. f[b] \in best(b) /\ <<b, f[b]>> \in matched'
    BY <1>1, <1>4
  <2>2. f[b] \in Candidates(b) /\ ~Expired(f[b]) /\ Score(f[b], Id(b)) >= 0
    BY <2>1 DEF BestProfiles
  <2> QED
    BY <2>1, <2>2
<1>5. ASSUME NEW b \in Bundles', Required(b)'
      PROVE  Matched(b)'
  <2>1. b \in needing
    BY <1>0, <1>5, BundlesKept, BundleKept
  <2>2. Candidates(b)' = Candidates(b) /\ Id(b)' = Id(b)
    BY <1>0, BundleKept
  <2>3. CASE best(b) # {}
    BY <1>4, <2>1, <2>2, <2>3, ZenonT(30) DEF Matched, Expired, ProfileValid, Readable, Score
  <2>4. CASE best(b) = {}
    BY <1>2, <1>3, <2>1, <2>4 DEF Matched, Warning, Issue
  <2> QED
    BY <2>3, <2>4
<1> QED
  BY <1>5 DEF AllMatched

(* FinalizeReport tries the key with every profile that may be used.       *)
LEMMA FinalizeTriesKey ==
  ASSUME FinalizeReport, ReadyForSigning', ProfilesListed
  PROVE  KeyTried'
<1>0. UNCHANGED request /\ AssetIssues \subseteq issues'
  BY DEF FinalizeReport
<1>1. \A c, about : Error(c, about) \notin AssetIssues
  BY <1>0 DEF ReadyForSigning, Error, Issue
<1>2. ASSUME "key" \in supplied.present, ~adhoc,
             NEW f \in External \cup (IF External = {} THEN EmbeddedProfiles ELSE {})
      PROVE  AssetFor(f).ready
  <2>0. External # {} => supplied.profiles # <<>>
    BY DEF External
  <2>1. f \in ProfilesToTry
    BY <1>2, <2>0 DEF ProfilesToTry, ProfilesListed
  <2>2. CASE "lost key" \in supplied.present
    BY <1>1, <1>2, <2>2 DEF AssetIssues
  <2>3. CASE "lost key" \notin supplied.present /\ "lost cert" \in supplied.present
    BY <1>1, <1>2, <2>3 DEF AssetIssues
  <2>4. CASE "lost key" \notin supplied.present /\ "lost cert" \notin supplied.present
    <3>1. AssetIssues = {Error("SIGNING_ASSET_INVALID", <<g.name>>) :
                           g \in {h \in ProfilesToTry : ~AssetFor(h).ready}}
      BY <1>2, <2>1, <2>4 DEF AssetIssues
    <3> QED
      BY <1>1, <2>1, <3>1
  <2> QED
    BY <2>2, <2>3, <2>4
<1>3. \A f : AssetFor(f)' = AssetFor(f)
  BY <1>0 DEF request, AssetFor, InitAsset, PairedCertificate, Requested, Readable, Authorized,
     EntitlementsAllowed, ValueAllowed, ScalarAllowed, StringAllowed
<1> QED
  BY <1>0, <1>2, <1>3, ProfilesKept DEF KeyTried, request

LEMMA InitReadyInv == AuditInit => ReadyInv
  BY DEF AuditInit, ReadyInv, ProfilesListed, NoSupplies

LEMMA NextReadyInv == ReadyInv /\ [AuditNext]_auditVars => ReadyInv'
<1> SUFFICES ASSUME ReadyInv, [AuditNext]_auditVars PROVE ReadyInv'
  OBVIOUS
<1> USE DEF ReadyInv
<1>0. UNCHANGED request => ProfilesListed'
  BY ProfilesKept DEF request, ProfilesListed
<1>1. CASE OpenInput
  BY <1>0, <1>1 DEF OpenInput, request
<1>2. CASE AuditSingle
  BY <1>0, <1>2 DEF AuditSingle, request
<1>3. CASE DiscoverBundles \/ EnterRoot \/ AuditBinary \/ StopScan
  BY <1>0, <1>3 DEF DiscoverBundles, EnterRoot, AuditBinary, StopScan
<1>4. CASE MatchProfiles
  BY <1>0, <1>4, MatchProfilesMatches DEF MatchProfiles
<1>5. CASE FinalizeReport
  <2>1. issues \subseteq issues' /\ UNCHANGED <<request, matched>> /\ tree' = tree
        /\ stage = "assets" /\ stage' = "reported"
    BY <1>5 DEF FinalizeReport, request
  <2>2. ReadyForSigning' => ReadyForSigning
    BY <2>1, ReadyBefore
  <2> QED
    BY <1>0, <1>5, <2>1, <2>2, FinalizeTriesKey, AllMatchedKept
<1>6. ASSUME NEW input, NEW supply \in Supplies, NEW adHoc, CallRun(input, supply, adHoc)
      PROVE  ReadyInv'
  BY <1>6, SuppliesAssumption DEF CallRun, ProfilesListed, External
<1>7. CASE UNCHANGED auditVars
  <2>1. UNCHANGED <<request, matched, issues, stage, tree, supplied, adhoc>>
    BY <1>7 DEF auditVars, request
  <2>2. ReadyForSigning' <=> ReadyForSigning
    BY <2>1 DEF ReadyForSigning
  <2>3. KeyTried => KeyTried'
    <3>1. \A f : AssetFor(f)' = AssetFor(f)
      BY <2>1 DEF AssetFor, InitAsset, PairedCertificate, Requested, Readable, Authorized,
         EntitlementsAllowed, ValueAllowed, ScalarAllowed, StringAllowed
    <3> QED
      BY <2>1, <3>1, ProfilesKept DEF KeyTried
  <2>4. AllMatched => AllMatched'
    BY <2>1, AllMatchedKept
  <2> QED
    BY <1>0, <2>1, <2>2, <2>3, <2>4
<1> QED
  BY <1>1, <1>2, <1>3, <1>4, <1>5, <1>6, <1>7 DEF AuditNext, AuditStep

LEMMA InvIsReady == ReadyInv => ReadyMeansSignable
  BY DEF ReadyInv, KeyTried, AllMatched, Matched, ReadyMeansSignable

(* A report that says ready has tried every profile that may be used with  *)
(* the key, and found one for every app and extension, if there was any.   *)
THEOREM ReadyIsSignable == AuditSpec => []ReadyMeansSignable
  BY InitReadyInv, NextReadyInv, InvIsReady, PTL DEF AuditSpec

------------------------------------------------------------------------------
(* What a report holds.                                                    *)

(* Two beginnings of one path are one the beginning of the other.          *)
LEMMA PrefixesAgree ==
  ASSUME NEW S, NEW p \in Seq(S), NEW q \in Seq(S), NEW r \in Seq(S),
         IsPrefix(q, p), IsPrefix(r, p)
  PROVE  IsPrefix(q, r) \/ IsPrefix(r, q)
<1>1. /\ Len(p) \in Nat /\ Len(q) \in Nat /\ Len(r) \in Nat
      /\ Len(q) <= Len(p) /\ Len(r) <= Len(p)
  BY LenProperties DEF IsPrefix
<1>2. ASSUME NEW a \in Seq(S), NEW b \in Seq(S), Len(a) <= Len(b), Len(b) <= Len(p),
             SubSeq(a, 1, Len(a)) = SubSeq(p, 1, Len(a)),
             SubSeq(b, 1, Len(b)) = SubSeq(p, 1, Len(b))
      PROVE  IsPrefix(a, b)
  <2>1. Len(a) \in Nat /\ Len(b) \in Nat
    BY LenProperties
  <2>2. \A i \in 1 .. Len(a) : a[i] = p[i]
    BY <1>2, <2>1
  <2>3. \A i \in 1 .. Len(b) : b[i] = p[i]
    BY <1>2, <2>1
  <2>4. SubSeq(a, 1, Len(a)) = SubSeq(b, 1, Len(a))
    BY <1>2, <2>1, <2>2, <2>3
  <2> QED
    BY <1>2, <2>4 DEF IsPrefix
<1> QED
  BY <1>1, <1>2 DEF IsPrefix

All == UNION {MachOs(r) : r \in ScanRoots}
PathsHold == DOMAIN tree.nodes \subseteq Seq(DOMAIN Extension)

LEMMA RootsApart ==
  ASSUME PathsHold, NEW q \in ScanRoots, NEW r \in ScanRoots, q # r
  PROVE  MachOs(q) \cap MachOs(r) = {}
<1>1. /\ Ext(q) = "app" /\ q \in Bundles /\ ~\E a \in Bundles : a # q /\ Ext(a) = "app" /\ Below(q, a)
      /\ Ext(r) = "app" /\ r \in Bundles /\ ~\E a \in Bundles : a # r /\ Ext(a) = "app" /\ Below(r, a)
  BY DEF ScanRoots
<1>2. q \in Seq(DOMAIN Extension) /\ r \in Seq(DOMAIN Extension)
  <2>1. \A a \in Bundles : a = <<>> \/ a \in DOMAIN tree.nodes
    BY DEF Bundles, Reached
  <2> QED
    BY <1>1, <2>1, EmptySeq DEF PathsHold
<1>3. ASSUME NEW p \in MachOs(q) \cap MachOs(r) PROVE FALSE
  <2>1. p \in DOMAIN tree.nodes /\ IsPrefix(q, p) /\ IsPrefix(r, p)
    BY <1>3 DEF MachOs, Reached, Below
  <2>2. IsPrefix(q, r) \/ IsPrefix(r, q)
    BY <1>2, <2>1, PrefixesAgree DEF PathsHold
  <2> QED
    BY <1>1, <2>2 DEF Below
<1> QED
  BY <1>3

LEMMA RootsKept ==
  ASSUME UNCHANGED tree
  PROVE  /\ Bundles' = Bundles /\ ScanRoots' = ScanRoots /\ All' = All
         /\ \A r : MachOs(r)' = MachOs(r)
         /\ \A p : /\ IsMainExecutable(p)' = IsMainExecutable(p)
                   /\ \A main : BinaryIssues(p, main, TRUE)' = BinaryIssues(p, main, TRUE)
         /\ \A b : /\ BundleIssues(b)' = BundleIssues(b) /\ Executable(b)' = Executable(b)
                   /\ HasExecutable(b)' = HasExecutable(b)
<1>1. Bundles' = Bundles
  BY DEF Bundles, Reached, Below, Ext, IsFolderAt
<1>2. ScanRoots' = ScanRoots
  BY <1>1 DEF ScanRoots, Ext, Below
<1>3. \A r : MachOs(r)' = MachOs(r)
  BY DEF MachOs, Reached, Below, Ext
<1>4. All' = All
  BY <1>2, <1>3 DEF All
<1>5. \A b : Executable(b)' = Executable(b) /\ HasExecutable(b)' = HasExecutable(b)
  BY DEF Executable, HasExecutable
<1>6. \A p : IsMainExecutable(p)' = IsMainExecutable(p)
  BY <1>1, <1>5 DEF IsMainExecutable
<1>7. \A p, main : BinaryIssues(p, main, TRUE)' = BinaryIssues(p, main, TRUE)
  BY DEF BinaryIssues, If, Error, Warning, Issue
<1>8. \A b : BundleIssues(b)' = BundleIssues(b)
  <2>1. \A p : FileAt(p)' = FileAt(p) /\ MachOAt(p)' = MachOAt(p)
    BY DEF FileAt, MachOAt
  <2>2. \A c, about : Error(c, about)' = Error(c, about) /\ Warning(c, about)' = Warning(c, about)
    BY DEF Error, Warning, Issue
  <2> QED
    BY <1>5, <2>1, <2>2, ZenonT(30) DEF BundleIssues, If, Error, Warning, Issue, FileAt, MachOAt
<1> QED
  BY <1>1, <1>2, <1>3, <1>4, <1>5, <1>6, <1>7, <1>8

(* Only what does not parse is called invalid.                             *)
Invalid == "MACHO_INVALID"
LEMMA OthersAreNotInvalid ==
  /\ \A i \in LayoutIssues \cup DuplicateIssues \cup AssetIssues : i.code # Invalid
  /\ \A b : \A i \in BundleIssues(b) : i.code # Invalid
  /\ \A p, main : \A i \in BinaryIssues(p, main, TRUE) : i.code # Invalid
  /\ \A files : \A i \in ProfileIssues(files) : i.code # Invalid
<1> USE DEF If, Error, Warning, Issue, Invalid
<1>1. \A i \in LayoutIssues : i.code # Invalid
  BY DEF LayoutIssues
<1>2. \A i \in DuplicateIssues : i.code # Invalid
  <2> HIDE DEF Error
  <2>1. \A i \in DuplicateIssues : \E b : i = Error("BUNDLE_ID_DUPLICATE", b)
    BY DEF DuplicateIssues
  <2>2. \A b : Error("BUNDLE_ID_DUPLICATE", b).code # Invalid
    BY DEF Error
  <2> QED
    BY <2>1, <2>2
<1>3. \A b : \A i \in BundleIssues(b) : i.code # Invalid
  <2> SUFFICES ASSUME NEW b, NEW i \in BundleIssues(b) PROVE i.code # Invalid
    OBVIOUS
  <2> HIDE DEF Error, Warning
  <2>1. \/ i = Error("INFO_PLIST_INVALID", b) \/ i = Error("BUNDLE_ID_MISSING", b)
        \/ i = Warning("BUNDLE_VERSION_MISSING", b) \/ i = Error("BUNDLE_EXECUTABLE_MISSING", b)
        \/ i = Error("BUNDLE_EXECUTABLE_NOT_FOUND", Executable(b))
        \/ i = Error("BUNDLE_EXECUTABLE_NOT_MACHO", Executable(b))
    BY DEF BundleIssues
  <2> QED
    BY <2>1 DEF Error, Warning
<1>4. \A p, main : \A i \in BinaryIssues(p, main, TRUE) : i.code # Invalid
  BY DEF BinaryIssues
<1>5. \A files : \A i \in ProfileIssues(files) : i.code # Invalid
  BY DEF ProfileIssues
<1>6. \A i \in AssetIssues : i.code # Invalid
  <2> SUFFICES ASSUME NEW i \in AssetIssues PROVE i.code # Invalid
    OBVIOUS
  <2>1. CASE i \in {Error("PRIVATE_KEY_MISSING", <<"cert">>), Error("PRIVATE_KEY_NOT_FOUND", <<"key">>),
                    Error("CERTIFICATE_NOT_FOUND", <<"cert">>),
                    Error("SIGNING_PROFILE_REQUIRED", <<"key">>)}
    BY <2>1
  <2>2. CASE \E f : i = Error("SIGNING_ASSET_INVALID", <<f.name>>)
    BY <2>2
  <2> HIDE DEF Error
  <2> QED
    BY <2>1, <2>2 DEF AssetIssues
<1> QED
  BY <1>1, <1>2, <1>3, <1>4, <1>5, <1>6

(* Every Mach-O of the roots is yet to come, read, passed over, or called  *)
(* invalid; what has been read has left its issues.                        *)
Scanned ==
  /\ roots \subseteq ScanRoots /\ todo \subseteq All /\ binaries \in Seq(All)
  /\ \A i, j \in DOMAIN binaries : binaries[i] = binaries[j] => i = j
  /\ todo \cap Range(binaries) = {}
  /\ \A r \in roots : MachOs(r) \cap (todo \cup Range(binaries)) = {}
  /\ \A p \in All : \/ p \in todo \cup Range(binaries) \cup missed \/ Error(Invalid, p) \in issues
                    \/ \E r \in roots : p \in MachOs(r)
  /\ \A b \in Bundles : BundleIssues(b) \subseteq issues
  /\ \A p \in Range(binaries) :
       tree.nodes[p].parses /\ BinaryIssues(p, IsMainExecutable(p), TRUE) \subseteq issues
  /\ \A i \in issues : i.code = Invalid => ~tree.nodes[i.about].parses

CompleteInv ==
  /\ PathsHold
  /\ stage \in {"idle", "open", "bundles"} =>
       issues = {} /\ binaries = <<>> /\ todo = {} /\ roots = {} /\ missed = {}
  /\ stage = "single" => tree.kind = "macho"
  /\ (stage \in {"scan", "assets", "reported"} /\ tree.kind # "macho") => Scanned
  /\ (stage \in {"assets", "reported"} /\ tree.kind # "macho") => todo = {} /\ roots = {}

(* Nothing it says is about more than the tree and the five variables.     *)
LEMMA ScannedNext ==
  ASSUME UNCHANGED tree,
         roots' \subseteq ScanRoots, todo' \subseteq All, binaries' \in Seq(All),
         \A i, j \in DOMAIN binaries' : binaries'[i] = binaries'[j] => i = j,
         todo' \cap Range(binaries') = {},
         \A r \in roots' : MachOs(r) \cap (todo' \cup Range(binaries')) = {},
         \A p \in All : \/ p \in todo' \cup Range(binaries') \cup missed'
                        \/ Error(Invalid, p) \in issues'
                        \/ \E r \in roots' : p \in MachOs(r),
         \A b \in Bundles : BundleIssues(b) \subseteq issues',
         \A p \in Range(binaries') :
           tree.nodes[p].parses /\ BinaryIssues(p, IsMainExecutable(p), TRUE) \subseteq issues',
         \A i \in issues' : i.code = Invalid => ~tree.nodes[i.about].parses
  PROVE  Scanned'
<1>1. ScanRoots' = ScanRoots /\ All' = All /\ Bundles' = Bundles
  BY RootsKept
<1>2. (roots \subseteq ScanRoots /\ todo \subseteq All /\ binaries \in Seq(All))'
  BY <1>1
<1>3. (\A r \in roots : MachOs(r) \cap (todo \cup Range(binaries)) = {})'
  <2>1. \A r : MachOs(r)' = MachOs(r)
    BY RootsKept
  <2> QED
    BY <2>1
<1>4. (\A p \in All : \/ p \in todo \cup Range(binaries) \cup missed \/ Error(Invalid, p) \in issues
                      \/ \E r \in roots : p \in MachOs(r))'
  <2>1. /\ \A r : MachOs(r)' = MachOs(r)
        /\ \A p : Error(Invalid, p)' = Error(Invalid, p)
    BY RootsKept DEF Error, Issue, Invalid
  <2> QED
    BY <1>1, <2>1
<1>5. (\A b \in Bundles : BundleIssues(b) \subseteq issues)'
  <2>1. \A b : BundleIssues(b)' = BundleIssues(b)
    BY RootsKept
  <2> QED
    BY <1>1, <2>1
<1>6. (\A p \in Range(binaries) :
        tree.nodes[p].parses /\ BinaryIssues(p, IsMainExecutable(p), TRUE) \subseteq issues)'
  <2> SUFFICES ASSUME NEW p \in Range(binaries')
               PROVE  (tree.nodes[p].parses
                       /\ BinaryIssues(p, IsMainExecutable(p), TRUE) \subseteq issues)'
    OBVIOUS
  <2>1. BinaryIssues(p, IsMainExecutable(p), TRUE)' = BinaryIssues(p, IsMainExecutable(p), TRUE)
    <3>1. IsMainExecutable(p)' = IsMainExecutable(p)
      BY RootsKept
    <3> QED
      BY <3>1 DEF BinaryIssues, If, Error, Warning, Issue
  <2> QED
    BY <2>1
<1>7. (\A i \in issues : i.code = Invalid => ~tree.nodes[i.about].parses)'
  BY DEF Invalid
<1> QED
  BY <1>2, <1>3, <1>4, <1>5, <1>6, <1>7 DEF Scanned

(* Issues that are about something else keep it.                           *)
LEMMA ScannedKept ==
  ASSUME Scanned, UNCHANGED <<tree, roots, todo, missed, binaries>>, issues \subseteq issues',
         \A i \in issues' : i \in issues \/ i.code # Invalid
  PROVE  Scanned'
<1>1. /\ roots' = roots /\ todo' = todo /\ missed' = missed /\ binaries' = binaries
      /\ tree' = tree
  OBVIOUS
<1>2. /\ \A p \in All : \/ p \in todo \cup Range(binaries) \cup missed
                        \/ Error(Invalid, p) \in issues'
                        \/ \E r \in roots : p \in MachOs(r)
      /\ \A b \in Bundles : BundleIssues(b) \subseteq issues'
      /\ \A p \in Range(binaries) :
           tree.nodes[p].parses /\ BinaryIssues(p, IsMainExecutable(p), TRUE) \subseteq issues'
      /\ \A i \in issues' : i.code = Invalid => ~tree.nodes[i.about].parses
  BY DEF Scanned
<1>3. /\ roots \subseteq ScanRoots /\ todo \subseteq All /\ binaries \in Seq(All)
      /\ \A i, j \in DOMAIN binaries : binaries[i] = binaries[j] => i = j
      /\ todo \cap Range(binaries) = {}
      /\ \A r \in roots : MachOs(r) \cap (todo \cup Range(binaries)) = {}
  BY DEF Scanned
<1> QED
  BY <1>1, <1>2, <1>3, ScannedNext

LEMMA DiscoverScans == ASSUME CompleteInv, DiscoverBundles PROVE Scanned'
<1>1. /\ UNCHANGED tree /\ roots' = ScanRoots /\ todo' = {} /\ binaries' = <<>> /\ missed' = {}
      /\ \A b \in Bundles : BundleIssues(b) \subseteq issues'
      /\ \A i \in issues' : i.code # Invalid
  <2>1. stage = "bundles" /\ issues = {} /\ binaries = <<>> /\ todo = {} /\ missed = {}
    BY DEF DiscoverBundles, CompleteInv
  <2>2. \A i \in issues' : \/ i \in LayoutIssues \cup DuplicateIssues
                           \/ \E b : i \in BundleIssues(b)
                           \/ i = Warning("APP_BUNDLE_NOT_FOUND", <<>>)
    BY <2>1 DEF DiscoverBundles, If
  <2>3. Warning("APP_BUNDLE_NOT_FOUND", <<>>).code # Invalid
    BY DEF Warning, Issue, Invalid
  <2>4. \A i \in issues' : i.code # Invalid
    BY <2>2, <2>3, OthersAreNotInvalid
  <2> QED
    BY <2>1, <2>4 DEF DiscoverBundles, request
<1>2. Range(<<>>) = {} /\ <<>> \in Seq(All) /\ DOMAIN <<>> = {}
  BY EmptySeq DEF Range
<1>3. \A p \in All : \E r \in ScanRoots : p \in MachOs(r)
  BY DEF All
<1> QED
  BY <1>1, <1>2, <1>3, RootsKept DEF Scanned

LEMMA EnterScans == ASSUME PathsHold, Scanned, EnterRoot PROVE Scanned'
<1>1. PICK root \in roots : roots' = roots \ {root} /\ todo' = MachOs(root)
  BY DEF EnterRoot
<1>2. UNCHANGED <<tree, missed, binaries, issues>> /\ todo = {}
  BY DEF EnterRoot, request
<1>3. root \in ScanRoots /\ MachOs(root) \subseteq All
  BY <1>1 DEF Scanned, All
<1>4. \A r \in roots' : MachOs(r) \cap (MachOs(root) \cup Range(binaries)) = {}
  BY <1>1, <1>3, RootsApart DEF Scanned
<1>5. \A p \in All : \/ p \in MachOs(root) \cup Range(binaries) \cup missed
                     \/ Error(Invalid, p) \in issues
                     \/ \E r \in roots' : p \in MachOs(r)
  BY <1>1, <1>2 DEF Scanned
<1>6. MachOs(root) \cap Range(binaries) = {} /\ roots' \subseteq ScanRoots
  BY <1>1 DEF Scanned
<1>7. /\ binaries \in Seq(All) /\ \A b \in Bundles : BundleIssues(b) \subseteq issues
      /\ \A i, j \in DOMAIN binaries : binaries[i] = binaries[j] => i = j
      /\ \A p \in Range(binaries) :
           tree.nodes[p].parses /\ BinaryIssues(p, IsMainExecutable(p), TRUE) \subseteq issues
      /\ \A i \in issues : i.code = Invalid => ~tree.nodes[i.about].parses
  BY DEF Scanned
<1> QED
  BY <1>1, <1>2, <1>3, <1>4, <1>5, <1>6, <1>7, ScannedNext

LEMMA BinaryScans == ASSUME PathsHold, Scanned, AuditBinary PROVE Scanned'
<1>1. PICK p \in todo :
        /\ todo' = todo \ {p}
        /\ IF tree.nodes[p].parses
           THEN /\ binaries' = Append(binaries, p)
                /\ issues' = issues \cup BinaryIssues(p, IsMainExecutable(p), TRUE)
           ELSE /\ issues' = issues \cup {Error(Invalid, p)}
                /\ UNCHANGED binaries
  BY DEF AuditBinary, Invalid
<1>2. UNCHANGED <<tree, roots, missed>>
  BY DEF AuditBinary, request
<1>3. p \in All /\ p \notin Range(binaries) /\ binaries \in Seq(All)
  BY DEF Scanned
<1>4. /\ \A q : Error(Invalid, q)' = Error(Invalid, q)
      /\ Error(Invalid, p).code = Invalid /\ Error(Invalid, p).about = p
  BY DEF Error, Issue, Invalid
<1>5. issues \subseteq issues'
  BY <1>1
<1>6. \A i \in issues' : i.code = Invalid => ~tree.nodes[i.about].parses
  <2>1. CASE tree.nodes[p].parses
    BY <1>1, <2>1, OthersAreNotInvalid DEF Scanned
  <2>2. CASE ~tree.nodes[p].parses
    BY <1>1, <1>4, <2>2 DEF Scanned
  <2> QED
    BY <2>1, <2>2
<1>7. CASE tree.nodes[p].parses
  <2> DEFINE n == Len(binaries)
             bs == Append(binaries, p)
  <2>1. /\ n \in Nat /\ DOMAIN binaries = 1 .. n /\ bs \in Seq(All) /\ DOMAIN bs = 1 .. n + 1
        /\ bs[n + 1] = p /\ \A i \in 1 .. n : bs[i] = binaries[i]
    BY <1>3, LenProperties, AppendProperties
  <2> HIDE DEF n, bs
  <2>2. Range(bs) = Range(binaries) \cup {p}
    <3>1. 1 .. n + 1 = (1 .. n) \cup {n + 1}
      BY <2>1
    <3> QED
      BY <2>1, <3>1 DEF Range
  <2>3. \A i, j \in DOMAIN bs : bs[i] = bs[j] => i = j
    <3>1. \A i \in 1 .. n : bs[i] \in Range(binaries)
      BY <2>1 DEF Range
    <3>2. \A i \in 1 .. n + 1 : i \in 1 .. n \/ i = n + 1
      BY <2>1
    <3> QED
      BY <1>3, <2>1, <3>1, <3>2 DEF Scanned
  <2>4. binaries' = bs /\ issues' = issues \cup BinaryIssues(p, IsMainExecutable(p), TRUE)
    BY <1>1, <1>7 DEF bs
  <2>5. \A q \in Range(bs) :
          tree.nodes[q].parses /\ BinaryIssues(q, IsMainExecutable(q), TRUE) \subseteq issues'
    BY <1>7, <2>2, <2>4 DEF Scanned
  <2>6. todo' \cup Range(bs) = todo \cup Range(binaries) /\ todo' \cap Range(bs) = {}
        /\ todo' \subseteq All
    BY <1>1, <1>3, <2>2 DEF Scanned
  <2>7. \A r \in roots : MachOs(r) \cap (todo' \cup Range(bs)) = {}
    BY <2>6 DEF Scanned
  <2>8. \A q \in All : \/ q \in todo' \cup Range(bs) \cup missed \/ Error(Invalid, q) \in issues'
                       \/ \E r \in roots : q \in MachOs(r)
    BY <1>5, <2>6 DEF Scanned
  <2>9. \A b \in Bundles : BundleIssues(b) \subseteq issues'
    BY <1>5 DEF Scanned
  <2>10. roots \subseteq ScanRoots
    BY DEF Scanned
  <2> QED
    BY <1>2, <1>6, <2>1, <2>3, <2>4, <2>5, <2>6, <2>7, <2>8, <2>9, <2>10, ScannedNext
<1>8. CASE ~tree.nodes[p].parses
  <2>1. binaries' = binaries /\ Error(Invalid, p) \in issues' /\ todo' = todo \ {p}
    BY <1>1, <1>8
  <2>2. \A q \in All : \/ q \in todo' \cup Range(binaries) \cup missed \/ Error(Invalid, q) \in issues'
                       \/ \E r \in roots : q \in MachOs(r)
    BY <1>5, <2>1 DEF Scanned
  <2>3. \A q \in Range(binaries) :
          tree.nodes[q].parses /\ BinaryIssues(q, IsMainExecutable(q), TRUE) \subseteq issues'
    BY <1>5 DEF Scanned
  <2>4. \A b \in Bundles : BundleIssues(b) \subseteq issues'
    BY <1>5 DEF Scanned
  <2>5. /\ \A r \in roots : MachOs(r) \cap (todo' \cup Range(binaries)) = {}
        /\ todo' \cap Range(binaries) = {} /\ todo' \subseteq All
    BY <2>1 DEF Scanned
  <2>6. /\ roots \subseteq ScanRoots /\ binaries \in Seq(All)
        /\ \A i, j \in DOMAIN binaries : binaries[i] = binaries[j] => i = j
    BY DEF Scanned
  <2> QED
    BY <1>2, <1>6, <2>1, <2>2, <2>3, <2>4, <2>5, <2>6, ScannedNext
<1> QED
  BY <1>7, <1>8

LEMMA StopScans == ASSUME Scanned, StopScan PROVE Scanned'
<1>1. UNCHANGED <<tree, roots, binaries, issues>> /\ missed' = missed \cup todo /\ todo' = {}
  BY DEF StopScan, request
<1>2. /\ roots \subseteq ScanRoots /\ binaries \in Seq(All)
      /\ \A i, j \in DOMAIN binaries : binaries[i] = binaries[j] => i = j
      /\ \A r \in roots : MachOs(r) \cap Range(binaries) = {}
      /\ \A p \in All : \/ p \in Range(binaries) \cup (missed \cup todo)
                        \/ Error(Invalid, p) \in issues
                        \/ \E r \in roots : p \in MachOs(r)
      /\ \A b \in Bundles : BundleIssues(b) \subseteq issues
      /\ \A p \in Range(binaries) :
           tree.nodes[p].parses /\ BinaryIssues(p, IsMainExecutable(p), TRUE) \subseteq issues
      /\ \A i \in issues : i.code = Invalid => ~tree.nodes[i.about].parses
  BY DEF Scanned
<1> QED
  BY <1>1, <1>2, ScannedNext

LEMMA InitCompleteInv == AuditInit => CompleteInv
  BY DEF AuditInit, CompleteInv, PathsHold, NoTree_

LEMMA NextCompleteInv == CompleteInv /\ [AuditNext]_auditVars => CompleteInv'
<1> SUFFICES ASSUME CompleteInv, [AuditNext]_auditVars PROVE CompleteInv'
  OBVIOUS
<1> USE DEF CompleteInv
<1>0. UNCHANGED tree => PathsHold'
  BY DEF PathsHold
<1>1. CASE OpenInput
  BY <1>0, <1>1 DEF OpenInput, request, scanning
<1>2. CASE AuditSingle
  BY <1>0, <1>2 DEF AuditSingle, request
<1>3. CASE DiscoverBundles
  BY <1>0, <1>3, DiscoverScans DEF DiscoverBundles, request
<1>4. CASE EnterRoot
  BY <1>0, <1>4, EnterScans DEF EnterRoot, request
<1>5. CASE AuditBinary
  BY <1>0, <1>5, BinaryScans DEF AuditBinary, request
<1>6. CASE StopScan
  BY <1>0, <1>6, StopScans DEF StopScan, request
<1>7. CASE MatchProfiles
  <2>1. issues \subseteq issues' /\ \A i \in issues' : i \in issues \/ i.code # Invalid
    <3>1. \A i \in issues' : \/ i \in issues \/ i = Error("NO_SIGNABLE_BINARIES", <<>>)
                             \/ \E b : \/ i = Warning("PROFILE_NOT_PROVIDED", b)
                                       \/ i = Error("PROFILE_BUNDLE_ID_MISMATCH", b)
      BY <1>7 DEF MatchProfiles, If
    <3>2. /\ Error("NO_SIGNABLE_BINARIES", <<>>).code # Invalid
          /\ \A b : /\ Warning("PROFILE_NOT_PROVIDED", b).code # Invalid
                    /\ Error("PROFILE_BUNDLE_ID_MISMATCH", b).code # Invalid
      BY DEF Error, Warning, Issue, Invalid
    <3>3. issues \subseteq issues'
      BY <1>7 DEF MatchProfiles
    <3> QED
      BY <3>1, <3>2, <3>3
  <2>2. /\ stage = "scan" /\ todo = {} /\ roots = {} /\ stage' = "assets"
        /\ UNCHANGED <<tree, roots, todo, missed, binaries>>
    BY <1>7 DEF MatchProfiles, request, scanning
  <2> QED
    BY <1>0, <2>1, <2>2, ScannedKept
<1>8. CASE FinalizeReport
  <2>1. issues \subseteq issues' /\ \A i \in issues' : i \in issues \/ i.code # Invalid
    BY <1>8, OthersAreNotInvalid DEF FinalizeReport
  <2>2. /\ stage = "assets" /\ stage' = "reported"
        /\ UNCHANGED <<tree, roots, todo, missed, binaries>>
    BY <1>8 DEF FinalizeReport, request, scanning
  <2> QED
    BY <1>0, <2>1, <2>2, ScannedKept
<1>9. ASSUME NEW input \in Trees, NEW supply, NEW adHoc, CallRun(input, supply, adHoc)
      PROVE  CompleteInv'
  BY <1>9, TreesAssumption DEF CallRun, PathsHold, scanning
<1>10. CASE UNCHANGED auditVars
  <2>1. UNCHANGED <<tree, roots, todo, missed, binaries, issues, stage>>
    BY <1>10 DEF auditVars
  <2> QED
    BY <1>0, <2>1, ScannedKept
<1> QED
  BY <1>1, <1>2, <1>3, <1>4, <1>5, <1>6, <1>7, <1>8, <1>9, <1>10 DEF AuditNext, AuditStep

LEMMA InvIsComplete == CompleteInv => AuditComplete
<1> SUFFICES ASSUME CompleteInv, stage = "reported", tree.kind # "macho", missed = {}
             PROVE  /\ \A p \in All :
                         Cardinality({i \in DOMAIN binaries : binaries[i] = p})
                           = IF Error(Invalid, p) \in issues THEN 0 ELSE 1
                    /\ Range(binaries) \subseteq All
                    /\ ReadyForSigning =>
                         \A b \in Bundles :
                           Executable(b) \in All =>
                             /\ tree.nodes[Executable(b)].parses
                             /\ \A s \in Range(tree.nodes[Executable(b)].slices) :
                                  s.executable /\ ~s.encrypted
  BY DEF AuditComplete, All, Invalid
<1>1. Scanned /\ todo = {} /\ roots = {}
  BY DEF CompleteInv
<1>2. \A p \in All : p \in Range(binaries) \/ Error(Invalid, p) \in issues
  BY <1>1 DEF Scanned
<1>3. \A p : Error(Invalid, p) \in issues => p \notin Range(binaries)
  BY <1>1 DEF Scanned, Error, Issue, Invalid
<1>4. ASSUME NEW p \in All
      PROVE  Cardinality({i \in DOMAIN binaries : binaries[i] = p})
               = IF Error(Invalid, p) \in issues THEN 0 ELSE 1
  <2>1. CASE Error(Invalid, p) \in issues
    <3>1. {i \in DOMAIN binaries : binaries[i] = p} = {}
      BY <1>3, <2>1 DEF Range
    <3> QED
      BY <2>1, <3>1, FS_EmptySet
  <2>2. CASE Error(Invalid, p) \notin issues
    <3>1. PICK k \in DOMAIN binaries : binaries[k] = p
      BY <1>2, <2>2 DEF Range
    <3>2. {i \in DOMAIN binaries : binaries[i] = p} = {k}
      BY <1>1, <3>1 DEF Scanned
    <3> QED
      BY <2>2, <3>2, FS_Singleton
  <2> QED
    BY <2>1, <2>2
<1>5. Range(binaries) \subseteq All
  <2>1. DOMAIN binaries = 1 .. Len(binaries) /\ \A i \in 1 .. Len(binaries) : binaries[i] \in All
    BY <1>1, LenProperties, ElementOfSeq DEF Scanned
  <2> QED
    BY <2>1 DEF Range
<1>6. ASSUME ReadyForSigning, NEW b \in Bundles, Executable(b) \in All
      PROVE  /\ tree.nodes[Executable(b)].parses
             /\ \A s \in Range(tree.nodes[Executable(b)].slices) : s.executable /\ ~s.encrypted
  <2> DEFINE p == Executable(b)
  <2>1. \A c, about : Error(c, about) \notin issues
    BY <1>6, NoErrorWhenReady
  <2>2. p \in Range(binaries)
    BY <1>2, <1>6, <2>1
  <2>3. tree.nodes[p].parses /\ BinaryIssues(p, IsMainExecutable(p), TRUE) \subseteq issues
    BY <1>1, <2>2 DEF Scanned
  <2>4. HasExecutable(b)
    <3>1. BundleIssues(b) \subseteq issues
      BY <1>1 DEF Scanned
    <3>2. Error("INFO_PLIST_INVALID", b) \notin BundleIssues(b)
          /\ Error("BUNDLE_EXECUTABLE_MISSING", b) \notin BundleIssues(b)
      BY <2>1, <3>1
    <3>3. tree.info[b].valid
      BY <3>2 DEF BundleIssues
    <3>4. tree.info[b].exe # ""
      BY <3>2, <3>3 DEF BundleIssues
    <3> QED
      BY <3>3, <3>4 DEF HasExecutable
  <2>5. IsMainExecutable(p)
    BY <2>4 DEF IsMainExecutable
  <2>6. BinaryIssues(p, TRUE, TRUE) \subseteq issues
    BY <2>3, <2>5
  <2>7. /\ Error("BINARY_ENCRYPTED", p) \notin BinaryIssues(p, TRUE, TRUE)
        /\ Error("MAIN_BINARY_TYPE_INVALID", p) \notin BinaryIssues(p, TRUE, TRUE)
    BY <2>1, <2>6
  <2> HIDE DEF p
  <2>8. \A s \in Range(tree.nodes[p].slices) : s.executable /\ ~s.encrypted
    BY <2>7 DEF BinaryIssues, If
  <2> QED
    BY <2>3, <2>8 DEF p
<1> QED
  BY <1>4, <1>5, <1>6

(* Unless a directory could not be read on, a report names every Mach-O of *)
(* the roots once, or says why not, and none that is ready has a main      *)
(* executable that cannot be signed.                                       *)
THEOREM ReportsAreComplete == AuditSpec => []AuditComplete
  BY InitCompleteInv, NextCompleteInv, InvIsComplete, PTL DEF AuditSpec
==============================================================================
