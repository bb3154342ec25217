----------------------------- MODULE AuditInputs -----------------------------
(***************************************************************************)
(* Inputs for the audit and for signing: archives, folders and files that  *)
(* are right or wrong in one way each, and sets of signing files that do   *)
(* or do not belong together.                                              *)
(***************************************************************************)
EXTENDS Audit

MCIntermediates == {"G3", "G6"}
MCRootOf == [c \in MCIntermediates |-> IF c = "G3" THEN "Root" ELSE "RootG3"]
MCStrings == {<<"t">>, <<"t", "x">>, <<"t", "y">>, <<"u">>, <<"x">>, <<>>}

MCExtension ==
  [n \in {"Payload", "A.app", "B.app", "E.appex", "F.framework", "a", "e", "f", "S.dSYM", "s"} |->
     CASE n \in {"A.app", "B.app"} -> "app" [] n = "E.appex" -> "appex"
       [] n = "F.framework" -> "framework" [] n = "S.dSYM" -> "dsym" [] OTHER -> "none"]

------------------------------------------------------------------------------
(* Signing files.                                                          *)

Certificate(n, k, t, i) ==
  [name |-> n, key |-> k, team |-> t, current |-> TRUE, named |-> TRUE, issuer |-> i]
C1 == Certificate("c1", "k1", "T", "G3")
C2 == Certificate("c2", "k2", "T", "G3")
Elsewhere == Certificate("c3", "k1", "T", "Other")
Late == [C1 EXCEPT !.name = "late", !.current = FALSE]

Str(v) == Scalar("string", v)
Strs(vs) == [kind |-> "array", v |-> <<>>, items |-> [i \in DOMAIN vs |-> Str(vs[i])]]
Dictionary(id, groups, debug) ==
  [k \in {"id", "groups", "debug"} |->
     IF k = "id" THEN Str(id) ELSE IF k = "groups" THEN Strs(groups)
     ELSE Scalar("bool", <<IF debug THEN "true" ELSE "false">>)]
Allowed == Dictionary(<<"t", "*">>, <<<<"t", "*">>, <<"x">>>>, FALSE)

Profile(n, pattern) ==
  [name |-> n, readable |-> TRUE, trusted |-> TRUE, plist |-> TRUE, team |-> "T",
   idKey |-> "plain", prefixed |-> TRUE, pattern |-> pattern, certs |-> {C1, C2},
   future |-> FALSE, expires |-> "later", allowed |-> Allowed]
Wild == Profile("wild", <<"a", "*">>)
Exact == Profile("exact", <<"a", "e">>)
Past == [Profile("past", <<"a", "e">>) EXCEPT !.expires = "past"]
Untrusted == [Profile("untrusted", <<"a", "*">>) EXCEPT !.trusted = FALSE]
Timeless == [Profile("timeless", <<"a", "*">>) EXCEPT !.expires = "none"]
OtherCerts_ == [Profile("others", <<"a", "*">>) EXCEPT !.certs = {C2}]
Foreign == [Profile("foreign", <<"a", "*">>) EXCEPT !.certs = {Elsewhere}]

Asked(d) == [given |-> TRUE, readable |-> TRUE, dictionary |-> d]
Unasked == NoSupplies.entitlements
Key(k) == [NoKey EXCEPT !.holds = k]
P12(c, chain) == [holds |-> c.key, cert |-> c, chain |-> chain]

Supply(key, cert, profiles, entitlements) ==
  [key |-> key, cert |-> cert, profiles |-> profiles, entitlements |-> entitlements,
   present |-> {"key"} \cup (IF cert = NoCertificate THEN {} ELSE {"cert"})]
Without(s, what) == [s EXCEPT !.present = what]

K1 == Key("k1")
Few == Dictionary(<<"t", "x">>, <<>>, FALSE)
Bundled == {P12(C1, {"G3", "Root"}), P12(C2, {}), P12(Late, {}), P12(Elsewhere, {"Other"}),
            P12(C1, {"Other"})}

(* The rare ones come with an entitlements file, or a certificate, so that *)
(* few go with each command line.                                          *)
MCSupplies ==
  {NoSupplies,
   [NoSupplies EXCEPT !.entitlements = Asked(Few)],
   [NoSupplies EXCEPT !.entitlements = [Asked(Few) EXCEPT !.readable = FALSE]],
   [NoSupplies EXCEPT !.profiles = <<Wild>>], [NoSupplies EXCEPT !.profiles = <<Past, Exact>>],
   [NoSupplies EXCEPT !.cert = C1, !.present = {"cert"}],
   Supply(K1, NoCertificate, <<>>, Unasked),
   Without(Supply(NoKey, NoCertificate, <<>>, Unasked), {"lost key"}),
   Without(Supply(K1, NoCertificate, <<Wild>>, Unasked), {"key", "lost cert"})}
  \cup {Supply(K1, NoCertificate, <<f>>, Unasked) : f \in {Wild, Past, Foreign}}
  \cup {Supply(K1, c, <<Wild>>, Unasked) : c \in {C1, C2, Elsewhere}}
  \cup {Supply(K1, NoCertificate, fs, Unasked) :
          fs \in {<<Wild, Exact>>, <<Exact, Past>>, <<Wild, OtherCerts_>>}}
  \cup {Supply(k, NoCertificate, <<f>>, Asked(Few)) :
          k \in {NoKey} \cup Bundled, f \in {Wild, Foreign}}
  \cup {Supply(K1, NoCertificate, <<f>>, Asked(Few)) :
          f \in {Exact, Untrusted, Timeless, OtherCerts_, Foreign}}
  \cup {Supply(K1, NoCertificate, <<Wild>>, Asked(d)) :
          d \in {Dictionary(id, gs, debug) : id \in {<<"t", "x">>, <<"t", "*">>, <<"u">>},
                   gs \in {<<>>, <<<<"x">>, <<"t", "y">>>>, <<<<"t", "x">>, <<"u">>>>, <<<<"*">>>>},
                   debug \in BOOLEAN}}

------------------------------------------------------------------------------
(* Inputs.                                                                 *)

Node(kind, slices, parses) == [kind |-> kind, slices |-> slices, parses |-> parses]
Folder_ == Node("folder", <<>>, FALSE)
Text == Node("file", <<>>, FALSE)
Slice(signed, encrypted, executable) ==
  [signed |-> signed, encrypted |-> encrypted, executable |-> executable, arm64 |-> TRUE]
Exe == Node("macho", <<Slice(TRUE, FALSE, TRUE)>>, TRUE)
Dylib == Node("macho", <<Slice(FALSE, FALSE, FALSE), [Slice(TRUE, FALSE, FALSE) EXCEPT !.arm64 = FALSE]>>, TRUE)
Locked == Node("macho", <<Slice(TRUE, TRUE, TRUE)>>, TRUE)
Broken == Node("macho", <<>>, FALSE)

Plist(id, exe) == [valid |-> TRUE, id |-> id, versioned |-> TRUE, exe |-> exe]
PA == <<"Payload">>
A == <<"Payload", "A.app">>
E == A \o <<"E.appex">>
F == A \o <<"F.framework">>

(* An archive with an app, an extension with a profile of its own and a    *)
(* library, and debug symbols that are skipped.                            *)
App ==
  [kind |-> "ipa", ext |-> "none",
   nodes |-> (PA :> Folder_ @@ A :> Folder_ @@ A \o <<"a">> :> Exe @@ E :> Folder_
              @@ E \o <<"e">> :> Exe @@ A \o <<"f">> :> Dylib
              @@ A \o <<"S.dSYM">> :> Folder_ @@ A \o <<"S.dSYM", "s">> :> Locked),
   info |-> (A :> Plist(<<"a">>, "a") @@ E :> Plist(<<"a", "e">>, "e")),
   embedded |-> (E :> Exact)]
Framework(info, node) ==
  [App EXCEPT !.nodes = @ @@ F :> Folder_ @@ F \o <<"f">> :> node, !.info = @ @@ F :> info]

At(t, p, node) == [t EXCEPT !.nodes[p] = node]
Bare ==
  [kind |-> "folder", ext |-> "none",
   nodes |-> (<<"A.app">> :> Folder_ @@ <<"A.app", "a">> :> Exe @@ <<"A.app", "B.app">> :> Folder_
              @@ <<"A.app", "B.app", "a">> :> Exe @@ <<"B.app">> :> Folder_
              @@ <<"B.app", "a">> :> Exe @@ <<"f">> :> Dylib),
   info |-> [p \in {<<"A.app">>, <<"A.app", "B.app">>, <<"B.app">>} |-> Plist(<<"a">>, "a")],
   embedded |-> (<<"A.app">> :> Wild)]
Root ==
  [kind |-> "folder", ext |-> "app",
   nodes |-> (<<"a">> :> Exe @@ <<"f">> :> Dylib @@ <<"e">> :> Node("link", <<>>, FALSE)),
   info |-> (<<>> :> Plist(<<"a", "e">>, "a")),
   embedded |-> (<<>> :> Wild)]
Single(node) ==
  [kind |-> "macho", ext |-> "none", nodes |-> (<<"f">> :> node),
   info |-> [p \in {} |-> ""], embedded |-> [p \in {} |-> ""]]

MCTrees ==
  {App, [App EXCEPT !.embedded = [p \in {} |-> Exact]], [App EXCEPT !.embedded[E] = Past],
   At(App, E \o <<"e">>, Locked), At(App, A \o <<"a">>, Dylib), At(App, A \o <<"a">>, Broken),
   At(App, A \o <<"a">>, Text), [App EXCEPT !.info[E].valid = FALSE],
   [App EXCEPT !.info[E].id = <<"a">>], [App EXCEPT !.info[A].exe = "e"],
   Framework(Plist(<<"f">>, "f"), Dylib), Framework(Plist(<<"f">>, ""), Dylib),
   Framework([Plist(<<>>, "f") EXCEPT !.versioned = FALSE], Exe), Framework(Plist(<<"f">>, "f"), Exe),
   [App EXCEPT !.nodes = [p \in DOMAIN App.nodes \ {PA} |-> App.nodes[p]]],
   Bare, Root, At(Root, <<"a">>, Locked), Single(Dylib), Single(Broken), Single(Locked),
   [Bare EXCEPT !.nodes = (<<"f">> :> Dylib), !.info = [p \in {} |-> ""], !.embedded = [p \in {} |-> Wild]],
   [Bare EXCEPT !.nodes = (<<"f">> :> Text), !.info = [p \in {} |-> ""], !.embedded = [p \in {} |-> Wild]],
   [NoTree_ EXCEPT !.kind = "other"]}
==============================================================================
