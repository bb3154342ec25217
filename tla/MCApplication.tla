---------------------------- MODULE MCApplication ----------------------------
(***************************************************************************)
(* Command lines and inputs for TLC: every combination of credentials with *)
(* the wishes that change the way of a run, and lines that are refused,    *)
(* repeat an option or contradict themselves, in both orders.              *)
(***************************************************************************)
EXTENDS Application, AuditInputs

With(o, v) == [opt |-> o, value |-> v]
Line(opts) == [i \in DOMAIN opts |-> Plain(opts[i])]

Credentials == {<<>>, <<"adhoc">>, <<"key">>, <<"key", "prov">>, <<"key", "prov", "prov">>}
Careful == {<<"adhoc", "entitlements">>, <<"key", "cert", "prov">>, <<"key", "prov", "entitlements">>,
            <<"cert">>, <<"prov">>, <<"prov", "prov">>}
Wishful == {<<>>, <<"check">>, <<"output">>, <<"install">>, <<"check", "output">>,
            <<"check", "install">>, <<"output", "metadata">>, <<"check", "output", "metadata">>,
            <<"install", "metadata">>, <<"output", "install">>, <<"dylib">>, <<"metadata">>}
Working == {Line(c \o w \o <<"operand">>) : c \in Credentials, w \in Wishful}
           \cup {Line(c \o <<"output", "operand">>) : c \in Careful}
Auditing == {Line(c \o <<"audit", "operand">>) : c \in Credentials \cup {<<"key", "cert", "prov">>, <<"cert">>, <<"prov">>, <<"prov", "prov">>}}
            \cup {Line(<<"key", "strict-audit", "check", "prov", "operand">>),
                  <<With("audit-format", <<"json">>), Plain("audit-report"), Plain("operand")>>}

(* Arguments that meet each other in every order.                          *)
Pieces == {Plain("operand"), Plain("help"), Plain("version"), Plain("unknown"),
           With("zip_level", <<"9">>), With("zip_level", <<"10">>),
           With("audit-format", <<"sideways">>),
           With("dylib_scope", <<"root", "", "files">>), With("dylib_scope", <<"">>),
           With("dylib_scope", <<"all", "sideways">>),
           Plain("sha256_only"), Plain("legacy_sha1")}
Puzzling == {<<a, b>> : a \in Pieces, b \in Pieces}
            \cup {<<a, b, Plain("operand")>> : a \in Pieces, b \in Pieces} \cup {<<>>}

MCCommandLines == Working \cup Auditing \cup Puzzling

(* Responses that lack at most one of the facts the verdict needs.         *)
MCEvidence == [holds : {Fact \ {f} : f \in Fact} \cup {Fact},
               status : {"good", "revoked", "unknown"}]

(* Files of each kind: unreadable, unknown, a certificate that has expired *)
(* or not, an archive or a Mach-O of which one slice is not signed.        *)
Leaf == [readable |-> TRUE, extension |-> "none", magic |-> "pem", slices |-> <<>>,
         cert |-> TRUE, chain |-> FALSE, current |-> TRUE, wwdr |-> TRUE, issued |-> TRUE]
Some(s, c) == [signed |-> s, cert |-> c]
MCSubjects ==
  {[Leaf EXCEPT !.readable = FALSE], [Leaf EXCEPT !.magic = "unknown"],
   [Leaf EXCEPT !.cert = FALSE], Leaf, [Leaf EXCEPT !.current = FALSE],
   [Leaf EXCEPT !.wwdr = FALSE, !.issued = FALSE, !.current = FALSE],
   [Leaf EXCEPT !.wwdr = FALSE, !.issued = FALSE],
   [Leaf EXCEPT !.extension = "p12", !.chain = TRUE, !.wwdr = FALSE],
   [Leaf EXCEPT !.extension = "ipa", !.slices = <<Some(TRUE, TRUE), Some(FALSE, FALSE)>>],
   [Leaf EXCEPT !.magic = "macho", !.slices = <<Some(TRUE, FALSE), Some(TRUE, TRUE)>>],
   [Leaf EXCEPT !.magic = "macho", !.slices = <<Some(TRUE, FALSE)>>]}
==============================================================================
