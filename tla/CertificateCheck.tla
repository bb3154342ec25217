--------------------------- MODULE CertificateCheck ---------------------------
(***************************************************************************)
(* core/certificate_check.cpp: CheckCertificate finds the certificate of a *)
(* file, its issuer, and asks the issuer's OCSP responder about it.  The   *)
(* request resolves the host in a child process and talks to a server that *)
(* may send anything, be silent, or stop; all of it within one deadline.   *)
(* The child and the server take their own steps.  Time passes only while  *)
(* the program waits, and is counted in units of the shortest wait.        *)
(***************************************************************************)
EXTENDS Integers, Sequences

CONSTANTS
  Deadline,      \* requestDeadline, 15 s
  PerCall,       \* bound of one socket operation, 5 s
  AddressParts,  \* pieces in which the address comes through the pipe
  RequestParts,  \* pieces in which the request is sent
  HeaderParts,   \* receipts that fit into 64 KiB
  BodyParts,     \* kMaximumOCSPResponse
  Evidence       \* facts about a complete response that are tried

Fact == {"parsed", "successful", "trusted", "found", "fresh"}
ASSUME TimeAssumption == {Deadline, PerCall} \subseteq Nat \ {0} /\ PerCall <= Deadline
ASSUME PartsAssumption ==
  {AddressParts, RequestParts, HeaderParts, BodyParts} \subseteq Nat \ {0}
ASSUME EvidenceAssumption ==
  Evidence \subseteq [holds : SUBSET Fact, status : {"good", "revoked", "unknown"}]

VARIABLES
  step,      \* where CheckCertificate is; "idle" outside of a call
  subject,   \* the file: what its bytes hold
  code,      \* the value it returned
  elapsed,   \* time since requestDeadline was set
  child,     \* the resolver process
  pipe,      \* pieces of the address waiting in the pipe
  count,     \* pieces received or sent in the current phase
  expected,  \* the Content-Length
  socket,    \* whether a socket is open
  evidence   \* the response that was verified last

checkVars == <<step, subject, code, elapsed, child, pipe, count, expected, socket, evidence>>
wire == <<child, pipe, socket, evidence, expected>>

NoEvidence == [holds |-> {}, status |-> "unknown"]

------------------------------------------------------------------------------
(* DetectFileType: the extension decides, the first bytes otherwise.       *)

DetectFileType(s) == IF s.extension # "none" THEN s.extension ELSE s.magic

(* Mutant of ExtractFromMachOData: slices without a signature are skipped. *)
ExtractFromAnySlice(slices) ==
  LET signed == {i \in DOMAIN slices : slices[i].signed}
  IN  [signed |-> signed # {}, cert |-> \E i \in signed : slices[i].cert]

(* Every slice of a fat file must be signed; the first certificate found   *)
(* stands for all of them.  An ad-hoc signature holds none.                *)
ExtractFromMachOData(slices) ==
  IF slices = <<>> \/ \E i \in DOMAIN slices : ~slices[i].signed
  THEN [signed |-> FALSE, cert |-> FALSE]
  ELSE [signed |-> TRUE, cert |-> \E i \in DOMAIN slices : slices[i].cert]

(* A certificate file of any format holds a certificate or not.  The       *)
(* executable of an archive is found through its Info.plist.               *)
LoadFromFile(s) == [signed |-> FALSE, cert |-> s.cert]
LoadFromIPA(s) == ExtractFromMachOData(s.slices)

ShowsSigned(s) == DetectFileType(s) \in {"ipa", "macho"}
Loaded(s) ==
  CASE DetectFileType(s) = "ipa" -> LoadFromIPA(s)
    [] DetectFileType(s) = "macho" -> ExtractFromMachOData(s.slices)
    [] OTHER -> LoadFromFile(s)

(* The first certificate of a PKCS#12 chain, or ResolveIssuer.             *)
HasIssuer(s) == (DetectFileType(s) = "p12" /\ s.chain) \/ s.wwdr

(* PrintOCSPResult and what CheckCertificate makes of it.                  *)
Code(s, status) ==
  IF status = "good" THEN (IF s.current THEN 0 ELSE 2)
  ELSE IF status = "revoked" THEN 1 ELSE -1

(* Mutant of Verdict: the age of the response is not looked at.            *)
VerdictAtAnyAge(e) ==
  IF ~({"parsed", "successful", "trusted", "found"} \subseteq e.holds) THEN "error" ELSE e.status

(* The end of PerformOCSP, from d2i_OCSP_RESPONSE on.                      *)
Verdict(e) == IF ~(Fact \subseteq e.holds) THEN "error" ELSE e.status

------------------------------------------------------------------------------
(* CheckCertificate.                                                       *)

CheckInit(nothing) ==
  /\ step = "idle" /\ subject = nothing /\ code = 0 /\ elapsed = 0
  /\ child = "none" /\ pipe = 0 /\ count = 0 /\ expected = 0 /\ socket = FALSE
  /\ evidence = NoEvidence

Return(c) == step' = "returned" /\ code' = c

(* CheckCertificate(s): up to PerformOCSP, which allocates its request and *)
(* starts the resolver.                                                    *)
Load ==
  /\ step = "load"
  /\ \/ /\ ~subject.readable \/ DetectFileType(subject) = "unknown"
        /\ Return(-1)
     \/ /\ subject.readable /\ DetectFileType(subject) # "unknown"
        /\ \/ /\ ShowsSigned(subject)
              /\ ~Loaded(subject).signed \/ ~Loaded(subject).cert
              /\ Return(-2)
           \/ /\ ~ShowsSigned(subject) /\ ~Loaded(subject).cert
              /\ Return(-1)
           \/ /\ Loaded(subject).cert /\ ~HasIssuer(subject)
              /\ Return(IF subject.current THEN 0 ELSE 2)
           \/ /\ Loaded(subject).cert /\ HasIssuer(subject)
              /\ IF subject.issued THEN step' = "fork" /\ UNCHANGED code
                                   ELSE Return(Code(subject, "error"))
  /\ UNCHANGED <<subject, elapsed, count, wire>>

Fork ==
  /\ step = "fork"
  /\ \/ /\ step' = "resolve"
        /\ child' = "running"
        /\ UNCHANGED code
     \/ /\ Return(Code(subject, "error"))
        /\ UNCHANGED child
  /\ UNCHANGED <<subject, elapsed, count, pipe, socket, evidence, expected>>

Remaining == Deadline - elapsed
Least(a, b) == IF a < b THEN a ELSE b

(* Mutant of Patience: each call has its full time, whatever is left.      *)
PatienceEach == PerCall

(* applyRemainingSocketTimeout: how long one socket call may block.        *)
Patience == Least(Remaining, PerCall)

(* The parent waits for the pipe until the deadline.                       *)
AwaitAddress ==
  /\ step = "resolve" /\ count < AddressParts
  /\ \/ /\ Remaining > 0 /\ pipe > 0
        /\ \E n \in 1 .. pipe, t \in 0 .. Remaining :
             /\ count' = count + n /\ pipe' = pipe - n /\ elapsed' = elapsed + t
        /\ UNCHANGED step
     \/ /\ Remaining > 0  \* select or read fails, or the pipe is at its end
        /\ step' = "kill"
        /\ UNCHANGED <<elapsed, count, pipe>>
     \/ /\ Remaining = 0 \/ (pipe = 0 /\ child = "running")
        /\ elapsed' = Deadline
        /\ step' = "kill"
        /\ UNCHANGED <<count, pipe>>
  /\ UNCHANGED <<subject, code, child, socket, evidence, expected>>

AddressComplete ==
  /\ step = "resolve" /\ count = AddressParts
  /\ step' = "kill"
  /\ UNCHANGED <<subject, code, elapsed, count, wire>>

(* Mutant of Kill: the child is expected to exit by itself.                *)
KillNothing ==
  /\ step = "kill"
  /\ pipe' = 0
  /\ step' = "wait"
  /\ UNCHANGED <<subject, code, elapsed, count, child, socket, evidence, expected>>

(* The read end is closed and the child killed; waitpid then returns.      *)
Kill ==
  /\ step = "kill"
  /\ pipe' = 0
  /\ child' = IF child = "running" THEN "killed" ELSE child
  /\ step' = "wait"
  /\ UNCHANGED <<subject, code, elapsed, count, socket, evidence, expected>>

WaitForChild ==
  /\ step = "wait" /\ child \in {"exited", "killed"}
  /\ child' = "none"
  /\ IF count = AddressParts THEN step' = "connect" /\ UNCHANGED code
                             ELSE Return(Code(subject, "error"))
  /\ count' = 0
  /\ UNCHANGED <<subject, elapsed, pipe, socket, evidence, expected>>

Connect ==
  /\ step = "connect"
  /\ \/ /\ Return(Code(subject, "error"))
        /\ UNCHANGED <<elapsed, socket>>
     \/ /\ Remaining > 0
        /\ \E t \in 0 .. Patience :
             /\ elapsed' = elapsed + t
             /\ \/ /\ step' = "send" /\ socket' = TRUE
                   /\ UNCHANGED code
                \/ /\ Return(Code(subject, "error"))  \* the socket is closed again
                   /\ UNCHANGED socket
  /\ UNCHANGED <<subject, count, child, pipe, evidence, expected>>

(* An error after the connection: every such return closes the socket.     *)
Abandon ==
  /\ Return(Code(subject, "error"))
  /\ socket' = FALSE /\ count' = 0

(* Mutant of Give: the deadline is checked for receiving only.             *)
GiveForever(t) == elapsed' = elapsed + t

(* One call that may block: it is not begun after the deadline, and takes  *)
(* at most the time it was given.                                          *)
Give(t) == Remaining > 0 /\ t <= Patience /\ elapsed' = elapsed + t

Send ==
  /\ step = "send"
  /\ \/ \E t \in 0 .. Deadline, n \in 1 .. RequestParts - count :
          /\ Give(t)
          /\ IF count + n = RequestParts THEN step' = "header" /\ count' = 0
                                         ELSE UNCHANGED step /\ count' = count + n
          /\ UNCHANGED <<code, socket>>
     \/ \E t \in 0 .. Deadline : Give(t) /\ Abandon
     \/ Remaining = 0 /\ Abandon /\ UNCHANGED elapsed
  /\ UNCHANGED <<subject, child, pipe, evidence, expected>>

(* Headers: of any length, ended by an empty line or by the server; 200,   *)
(* and one Content-Length, which 0 stands for when it is not there, given  *)
(* twice or no number.  What follows them belongs to the body already.     *)
ReceiveHeader ==
  /\ step = "header"
  /\ \/ \E t \in 0 .. Deadline :
          /\ Give(t) /\ count < HeaderParts
          /\ count' = count + 1
          /\ UNCHANGED <<step, code, socket, expected>>
     \/ \E t \in 0 .. Deadline, length \in 0 .. BodyParts + 1, n \in 0 .. BodyParts + 1 :
          /\ Give(t)
          /\ IF length \in 1 .. BodyParts /\ n <= length
             THEN /\ step' = "body" /\ count' = n /\ expected' = length
                  /\ UNCHANGED <<code, socket>>
             ELSE Abandon /\ UNCHANGED expected
     \/ \E t \in 0 .. Deadline : Give(t) /\ Abandon /\ UNCHANGED expected
     \/ Remaining = 0 /\ Abandon /\ UNCHANGED <<elapsed, expected>>
  /\ UNCHANGED <<subject, child, pipe, evidence>>

ReceiveBody ==
  /\ step = "body" /\ count < expected
  /\ \/ \E t \in 0 .. Deadline, n \in 1 .. BodyParts :
          /\ Give(t)
          /\ IF n > expected - count
             THEN Abandon
             ELSE count' = count + n /\ UNCHANGED <<step, code, socket>>
     \/ \E t \in 0 .. Deadline : Give(t) /\ Abandon
     \/ Remaining = 0 /\ Abandon /\ UNCHANGED elapsed
  /\ UNCHANGED <<subject, child, pipe, evidence, expected>>

(* The socket is closed and the response judged.                           *)
VerifyResponse ==
  /\ step = "body" /\ count = expected
  /\ \E e \in Evidence :
       /\ evidence' = e
       /\ Return(Code(subject, Verdict(e)))
  /\ socket' = FALSE
  /\ UNCHANGED <<subject, elapsed, child, pipe, count, expected>>

(* The child writes the address, as far as it gets one, and exits.         *)
ChildWrites ==
  /\ child = "running" /\ step = "resolve" /\ count + pipe < AddressParts
  /\ pipe' = pipe + 1
  /\ UNCHANGED <<step, subject, code, elapsed, count, child, socket, evidence, expected>>

ChildExits ==
  /\ child = "running"
  /\ child' = "exited"
  /\ UNCHANGED <<step, subject, code, elapsed, count, pipe, socket, evidence, expected>>

CheckStep ==
  \/ Load \/ Fork \/ AwaitAddress \/ AddressComplete \/ Kill \/ WaitForChild
  \/ Connect \/ Send \/ ReceiveHeader \/ ReceiveBody \/ VerifyResponse
ResolverStep == ChildWrites \/ ChildExits

(* The caller begins a check of s, and later takes the result.             *)
CallCheck(s) ==
  /\ step = "idle"
  /\ step' = "load" /\ subject' = s
  /\ UNCHANGED <<code, elapsed, count, wire>>

TakeCode(nothing) ==
  /\ step = "returned"
  /\ step' = "idle" /\ subject' = nothing /\ code' = 0
  /\ elapsed' = 0 /\ count' = 0 /\ expected' = 0 /\ evidence' = NoEvidence
  /\ UNCHANGED <<child, pipe, socket>>

------------------------------------------------------------------------------
(* Properties.                                                             *)

(* A check that passes has seen a certificate that is valid now and, when  *)
(* its issuer is known, a complete response that is signed, recent and     *)
(* says good; and every slice of a Mach-O was signed.                      *)
PassOnlyOnEvidence ==
  (step = "returned" /\ code = 0) =>
    /\ subject.current
    /\ ShowsSigned(subject) => \A i \in DOMAIN subject.slices : subject.slices[i].signed
    /\ HasIssuer(subject) =>
         subject.issued /\ evidence = [holds |-> Fact, status |-> "good"] /\ count = expected

(* Whatever the resolver and the server do, the request stays within its   *)
(* deadline, and when it has returned no process, pipe or socket is left.  *)
RequestConfined ==
  /\ elapsed <= Deadline
  /\ step \in {"idle", "returned"} => child = "none" /\ pipe = 0 /\ ~socket
==============================================================================
