----------------------------- MODULE SigningAsset -----------------------------
(***************************************************************************)
(* core/signing_asset.cpp: what Init makes of a key, a certificate, a      *)
(* provisioning profile and entitlements, and what GenerateCMS embeds.     *)
(* OpenSSL's answers are fields of the files: whose signature a profile    *)
(* bears, which key a file decrypts to, when a certificate is valid.       *)
(***************************************************************************)
EXTENDS Naturals, SequencesExt

CONSTANTS
  Intermediates,  \* the WWDR certificates built in
  RootOf,         \* the Apple root that issued each of them
  Strings         \* strings that entitlements may hold or stand for

ASSUME RootAssumption ==
  DOMAIN RootOf = Intermediates /\ \A c \in Intermediates : RootOf[c] \notin Intermediates
ASSUME StringsAssumption == Strings \subseteq Seq(STRING)

------------------------------------------------------------------------------
(* Entitlements: a dictionary from keys to values, which are scalars or    *)
(* arrays of scalars.  A scalar has its text in v, an array its items.     *)

Scalar(kind, v) == [kind |-> kind, v |-> v, items |-> <<>>]
IsPattern(v) == v # <<>> /\ Last(v) = "*"

(* ProvisionedStringMatches.                                               *)
StringAllowed(allowed, requested) ==
  IF IsPattern(allowed) THEN IsPrefix(Front(allowed), requested) ELSE allowed = requested

ScalarAllowed(allowed, requested) ==
  /\ allowed.kind = requested.kind
  /\ \/ requested.kind = "bool" /\ (requested.v = <<"false">> \/ allowed.v = <<"true">>)
     \/ requested.kind = "string" /\ StringAllowed(allowed.v, requested.v)
     \/ requested.kind \in {"int", "data", "null"} /\ allowed.v = requested.v

(* Mutant of ValueAllowed: one item that is allowed is enough.             *)
ValueAllowedOnce(allowed, requested) ==
  IF requested.kind = "array"
  THEN /\ allowed.kind = "array"
       /\ \E r \in Range(requested.items) : \E a \in Range(allowed.items) : ScalarAllowed(a, r)
  ELSE ScalarAllowed(allowed, requested)

ValueAllowed(allowed, requested) ==
  IF requested.kind = "array"
  THEN /\ allowed.kind = "array"
       /\ \A r \in Range(requested.items) : \E a \in Range(allowed.items) : ScalarAllowed(a, r)
  ELSE ScalarAllowed(allowed, requested)

(* EntitlementValueAllowed of two dictionaries.                            *)
EntitlementsAllowed(allowed, requested) ==
  \A k \in DOMAIN requested : k \in DOMAIN allowed /\ ValueAllowed(allowed[k], requested[k])

(* Values as they are tried: truth values are two, strings are among       *)
(* Strings unless they are patterns, and no pattern ends in two stars.     *)
ProperScalar(s) ==
  /\ s.kind = "bool" => s.v \in {<<"true">>, <<"false">>}
  /\ s.kind = "string" =>
       IF IsPattern(s.v) THEN s.v \in Seq(STRING) /\ ~IsPattern(Front(s.v)) ELSE s.v \in Strings
ProperValue(value) ==
  IF value.kind = "array" THEN \A s \in Range(value.items) : ProperScalar(s)
  ELSE ProperScalar(value)
Proper(dictionary) == \A k \in DOMAIN dictionary : ProperValue(dictionary[k])

(* What a value permits, said without comparing: the strings it stands     *)
(* for, or the value itself.                                               *)
ScalarPermits(s) ==
  CASE s.kind = "bool" -> {s.v} \ {<<"false">>}
    [] s.kind = "string" /\ IsPattern(s.v) -> {t \in Strings : IsPrefix(Front(s.v), t)}
    [] OTHER -> {s.v}
Permits(value) ==
  IF value.kind = "array" THEN UNION {ScalarPermits(s) : s \in Range(value.items)}
  ELSE ScalarPermits(value)
Grants(dictionary) ==
  UNION {{<<k, g>> : g \in Permits(dictionary[k])} : k \in DOMAIN dictionary}

------------------------------------------------------------------------------
(* Files.                                                                  *)

NoCertificate == [name |-> "none", key |-> "none", team |-> "none", current |-> FALSE,
                  named |-> FALSE, issuer |-> "none"]
NoEntitlements == [k \in {} |-> Scalar("null", <<>>)]
NoProfile == [name |-> "none", readable |-> FALSE, trusted |-> FALSE, plist |-> FALSE,
              team |-> "", idKey |-> "plain", prefixed |-> FALSE, pattern |-> <<>>,
              certs |-> {}, future |-> FALSE, expires |-> "none", allowed |-> NoEntitlements]

(* A private key or PKCS#12 file: the key the password opens, the          *)
(* certificate and the chain that come with it.                            *)
NoKey == [holds |-> "none", cert |-> NoCertificate, chain |-> {}]

(* GetCMSContent and read_plist: signed by Apple's provisioning signer,    *)
(* and a property list.                                                    *)
Readable(profile) == profile.readable /\ profile.trusted /\ profile.plist

(* Where the entitlements come from; an unreadable or absent file leaves   *)
(* them empty, and the profile's are used.                                 *)
Requested(profile, entitlements) ==
  IF entitlements.given /\ entitlements.readable THEN entitlements.dictionary
  ELSE profile.allowed

(* Mutant of PairedCertificate: a given certificate is taken as it is.     *)
GivenCertificate(cert, key, profile) ==
  LET own == IF key.cert # NoCertificate THEN key.cert ELSE cert
      fitting == {c \in profile.certs : c.key = key.holds}
  IN  IF own # NoCertificate THEN own
      ELSE IF fitting = {} THEN NoCertificate ELSE CHOOSE c \in fitting : TRUE

(* The certificate of the PKCS#12 file, else the one given, if it is that  *)
(* of the key; otherwise one of the profile's that is.                     *)
PairedCertificate(cert, key, profile) ==
  LET own == IF key.cert # NoCertificate THEN key.cert ELSE cert
      fitting == {c \in profile.certs : c.key = key.holds}
  IN  IF own # NoCertificate /\ own.key = key.holds THEN own
      ELSE IF fitting = {} THEN NoCertificate ELSE CHOOSE c \in fitting : TRUE

(* The checks of Init that follow the pairing.                             *)
Authorized(leaf, profile, requested) ==
  /\ ~profile.future /\ profile.expires = "later"
  /\ leaf.current
  /\ leaf \in profile.certs
  /\ leaf.team = profile.team
  /\ profile.idKey = "plain" /\ profile.prefixed
  /\ EntitlementsAllowed(profile.allowed, requested)
  /\ leaf.named

NoAsset == [ready |-> FALSE, adhoc |-> FALSE, leaf |-> NoCertificate, key |-> "none",
            chain |-> {}, profile |-> NoProfile, granted |-> NoEntitlements]

(* SigningAsset::Init.  An ad-hoc asset takes its entitlements unchecked.  *)
InitAsset(cert, key, profile, entitlements, adhoc) ==
  IF adhoc
  THEN IF entitlements.given /\ ~entitlements.readable THEN NoAsset
       ELSE [NoAsset EXCEPT !.ready = TRUE, !.adhoc = TRUE, !.granted = entitlements.dictionary]
  ELSE LET leaf == PairedCertificate(cert, key, profile)
           requested == Requested(profile, entitlements)
       IN  IF ~Readable(profile) \/ profile.team = "" \/ key.holds = "none"
              \/ leaf = NoCertificate \/ ~Authorized(leaf, profile, requested)
           THEN NoAsset
           ELSE [ready |-> TRUE, adhoc |-> FALSE, leaf |-> leaf, key |-> key.holds,
                 chain |-> key.chain, profile |-> profile, granted |-> requested]

------------------------------------------------------------------------------
(* GenerateCMS: the certificates that travel with a signature.             *)

(* Mutant of OtherCerts: the chain of the PKCS#12 file is always used.     *)
OtherCertsAsShipped(asset) ==
  IF asset.chain # {} THEN asset.chain ELSE {asset.leaf.issuer} \cap Intermediates

(* The PKCS#12 chain if it holds the issuer, or the built-in intermediate, *)
(* and the Apple root that issued one of them.                             *)
OtherCerts(asset) ==
  LET base == IF asset.leaf.issuer \in asset.chain THEN asset.chain
              ELSE {asset.leaf.issuer} \cap Intermediates
  IN  base \cup {RootOf[c] : c \in base \cap Intermediates}

CanSign(asset) == asset.adhoc \/ OtherCerts(asset) # {}
==============================================================================
