------------------------------- MODULE Options -------------------------------
(***************************************************************************)
(* cli/options.cpp: what a command line asks for.  Parse is the fold of    *)
(* Take over the arguments getopt_long reports, followed by Finish; the    *)
(* workflows of Application read nothing else.                             *)
(***************************************************************************)
EXTENDS Naturals, FiniteSets, SequencesExt

(* Options that only add a wish, and the wish they add.                    *)
Flag == {"force", "weak", "adhoc", "check", "install", "audit", "strict", "report",
         "output", "metadata", "dylib", "rmdylib", "cert", "key", "entitlements",
         "edit", "icon"}
Value == {"text", "json", "9", "10", "", "all", "root", "extensions", "frameworks",
          "files", "sideways"}
Argument == [opt : Flag \cup {"prov", "audit-format", "strict-audit", "audit-report",
                              "zip_level", "dylib_scope", "sha256_only", "legacy_sha1",
                              "version", "help", "unknown", "operand"},
             value : Seq(Value)]

Plain(o) == [opt |-> o, value |-> <<>>]

(* The state of Parse: ParseResult, with the options that matter.          *)
NothingParsed ==
  [status |-> "ok", exit |-> 0, flags |-> {}, provisions |-> 0, operands |-> 0,
   scope |-> {"root"}, sha256 |-> TRUE, format |-> "text"]

Everywhere == {"root", "extensions", "frameworks", "files"}
ScopeOf(item) == IF item = "all" THEN Everywhere ELSE {item} \ {""}

(* ParseDylibInjectScope: empty items are skipped, an unknown one refuses  *)
(* the list, and so does a list that selects nothing.                      *)
ParsedScope(items) == UNION {ScopeOf(items[i]) : i \in DOMAIN items}
IsScope(items) == ParsedScope(items) # {} /\ ParsedScope(items) \subseteq Everywhere

(* The whole value of -z is a number from 0 to 9.                          *)
IsZipLevel(v) == v = <<"9">>
IsFormat(v) == v \in {<<"text">>, <<"json">>}

Refused(a) ==
  \/ a.opt = "unknown"
  \/ a.opt = "zip_level" /\ ~IsZipLevel(a.value)
  \/ a.opt = "audit-format" /\ ~IsFormat(a.value)
  \/ a.opt = "dylib_scope" /\ ~IsScope(a.value)

Wishes(a) ==
  IF a.opt \in Flag THEN {a.opt}
  ELSE IF a.opt = "strict-audit" THEN {"strict", "audit"}
  ELSE IF a.opt = "audit-report" THEN {"report", "audit"}
  ELSE IF a.opt = "audit-format" THEN {"audit"}
  ELSE {}

(* Mutant of Take: a refused argument does not end the loop.               *)
TakeAnyhow(r, a) ==
  [r EXCEPT !.status = IF a.opt \in {"version", "help"} THEN a.opt
                       ELSE IF Refused(a) THEN "error" ELSE @,
            !.flags = @ \cup Wishes(a),
            !.provisions = @ + IF a.opt = "prov" THEN 1 ELSE 0,
            !.operands = @ + IF a.opt = "operand" THEN 1 ELSE 0]

(* One turn of the loop; the first refused argument returns from Parse.    *)
Take(r, a) ==
  IF r.status = "error" THEN r
  ELSE IF Refused(a) THEN [r EXCEPT !.status = "error", !.exit = 2]
  ELSE [r EXCEPT !.status = IF a.opt \in {"version", "help"} THEN a.opt ELSE @,
                 !.flags = @ \cup Wishes(a),
                 !.provisions = @ + IF a.opt = "prov" THEN 1 ELSE 0,
                 !.operands = @ + IF a.opt = "operand" THEN 1 ELSE 0,
                 !.scope = IF a.opt = "dylib_scope" THEN ParsedScope(a.value) ELSE @,
                 !.sha256 = IF a.opt \in {"sha256_only", "legacy_sha1"}
                            THEN a.opt = "sha256_only" ELSE @,
                 !.format = IF a.opt = "audit-format" THEN a.value[1] ELSE @]

(* After the loop: operands forbid help and version, and exactly one is    *)
(* needed otherwise.                                                       *)
Finish(r) ==
  IF r.status = "error" THEN r
  ELSE IF r.status \in {"version", "help"}
  THEN IF r.operands = 0 THEN r ELSE [r EXCEPT !.status = "error", !.exit = 2]
  ELSE IF r.operands = 0 THEN [r EXCEPT !.status = "help", !.exit = 1]
  ELSE IF r.operands > 1 THEN [r EXCEPT !.status = "error", !.exit = 2]
  ELSE r

Parse(line) == Finish(FoldLeft(Take, NothingParsed, line))

(* RunMain, for everything but a run of Application.                       *)
ExitOfMain(r) == IF r.status = "error" /\ r.exit = 0 THEN 2 ELSE r.exit

------------------------------------------------------------------------------
(* What a command line means, said without a loop: whether it runs, and    *)
(* what each wish depends on, whatever the order of the arguments.         *)

Given(line) == {line[i].opt : i \in DOMAIN line}
Operands(line) == Cardinality({i \in DOMAIN line : line[i].opt = "operand"})
LastOf(line, opts) ==
  LET at == {i \in DOMAIN line : line[i].opt \in opts}
  IN  IF at = {} THEN "none" ELSE line[Max(at)].opt

Meaning(line) ==
  IF \E i \in DOMAIN line : Refused(line[i]) THEN "error"
  ELSE IF Given(line) \cap {"version", "help"} # {}
  THEN IF Operands(line) > 0 THEN "error" ELSE LastOf(line, {"version", "help"})
  ELSE IF Operands(line) = 1 THEN "ok"
  ELSE IF Operands(line) = 0 THEN "help" ELSE "error"

Means(line, r) ==
  /\ r.status = Meaning(line)
  /\ r.status = "error" => ExitOfMain(r) = 2
  /\ r.status \in {"help", "version"} =>
       (ExitOfMain(r) # 0 <=> Given(line) \cap {"version", "help"} = {})
  /\ r.status = "ok" =>
       /\ "audit" \in r.flags <=>
            Given(line) \cap {"audit", "audit-format", "audit-report", "strict-audit"} # {}
       /\ r.provisions = Cardinality({i \in DOMAIN line : line[i].opt = "prov"})
       /\ r.sha256 <=> LastOf(line, {"sha256_only", "legacy_sha1"}) # "legacy_sha1"
       /\ r.scope # {} /\ r.scope \subseteq Everywhere
       /\ r.flags \ {"audit", "strict", "report"}
            = (Given(line) \cap Flag) \ {"audit", "strict", "report"}
==============================================================================
