----------------------------- MODULE MCAppBundle -----------------------------
(***************************************************************************)
(* An app with an extension, a framework inside the extension, and a       *)
(* library in the extension; two profiles, one of them for the extension.  *)
(***************************************************************************)
EXTENDS AppBundle

CONSTANTS app, ext, fw, lib, a1, a2, adhoc

MCWithin == [n \in {app, ext, fw} |->
  CASE n = app -> {ext, fw} [] n = ext -> {fw} [] n = fw -> {}]
MCDepth == [n \in {app, ext, fw} |-> CASE n = app -> 0 [] n = ext -> 2 [] n = fw -> 4]
MCKind == [n \in {app, ext, fw} |->
  CASE n = app -> "app" [] n = ext -> "appex" [] n = fw -> "framework"]
MCHome == [l \in {lib} |-> ext]
MCMatches == {<<a1, app>>, <<a2, ext>>}

Plain == [force |-> FALSE, modify |-> FALSE, removeProvision |-> FALSE,
          inject |-> FALSE, drop |-> {}, scope |-> {"root"}, profiles |-> <<a1>>]

(* From the cache when there is one; forced, with the profiles and a       *)
(* library removed; with new Info.plists and two signers; with a dylib     *)
(* injected everywhere and the signers in the other order.                 *)
MCOptions ==
  {Plain,
   [Plain EXCEPT !.force = TRUE, !.removeProvision = TRUE, !.drop = {lib},
                 !.scope = {"root", "extensions"}],
   [Plain EXCEPT !.modify = TRUE, !.profiles = <<a1, a2>>],
   [Plain EXCEPT !.inject = TRUE, !.scope = Scope, !.profiles = <<a2, a1>>]}

(* Signing the same folder again without -f.                               *)
AgainOptions == {Plain}
ProvisionOptions == {Plain, [Plain EXCEPT !.removeProvision = TRUE]}
AdHocOptions == {[Plain EXCEPT !.profiles = <<adhoc>>]}
==============================================================================
