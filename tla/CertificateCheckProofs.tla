------------------------ MODULE CertificateCheckProofs ------------------------
(***************************************************************************)
(* Proofs about CertificateCheck, for every file, deadline, resolver and   *)
(* server: a check passes on complete evidence only, and the request stays *)
(* within its deadline and leaves nothing behind.                          *)
(***************************************************************************)
EXTENDS CertificateCheck, TLAPS

(* Checks of any files, one after the other.                               *)
CheckNext ==
  \/ CheckStep \/ ResolverStep
  \/ (\E s : CallCheck(s)) \/ (\E nothing : TakeCode(nothing))
CheckSpec == (\E nothing : CheckInit(nothing)) /\ [][CheckNext]_checkVars

------------------------------------------------------------------------------
(* The inductive invariant.                                                *)

(* From the fork on, the file has a certificate whose issuer is known.     *)
Resolving == {"fork", "resolve", "kill", "wait"}
Talking   == {"connect", "send", "header", "body"}
Asked ==
  step \in Resolving \cup Talking =>
    Loaded(subject).cert /\ HasIssuer(subject) /\ subject.issued

(* What is open, and at which steps.                                       *)
Opened ==
  /\ elapsed \in Nat
  /\ step \in {"idle", "load", "returned"} \cup Resolving \cup Talking
  /\ step \notin {"resolve", "kill", "wait"} => child = "none"
  /\ step \notin {"resolve", "kill"} => pipe = 0
  /\ step \notin {"send", "header", "body"} => ~socket

(* The pieces of the address are read or in the pipe, and no more than it  *)
(* has; the codes are those of the documentation.                          *)
Pieced ==
  /\ code \in -2 .. 2 /\ child \in {"none", "running", "killed", "exited"}
  /\ step \in {"idle", "load", "fork"} => count = 0
  /\ step = "resolve" => count \in Nat /\ pipe \in Nat /\ count + pipe <= AddressParts
  /\ pipe \in 0 .. AddressParts

CheckInv == Asked /\ Opened /\ RequestConfined /\ PassOnlyOnEvidence

------------------------------------------------------------------------------
(* Facts about the operators.                                              *)

(* A signed file has a certificate only if every slice of it is signed.    *)
LEMMA SignedInEverySlice ==
  ASSUME NEW s, ShowsSigned(s), Loaded(s).cert
  PROVE  \A i \in DOMAIN s.slices : s.slices[i].signed
<1>1. Loaded(s) = ExtractFromMachOData(s.slices)
  BY DEF ShowsSigned, Loaded, LoadFromIPA
<1> QED
  BY <1>1 DEF ExtractFromMachOData

(* Only a good response about a current certificate gives 0.               *)
LEMMA ZeroIsGood ==
  ASSUME NEW s, NEW status, Code(s, status) = 0
  PROVE  status = "good" /\ s.current
  BY DEF Code

(* Only complete evidence is good.                                         *)
LEMMA GoodIsComplete ==
  ASSUME NEW e \in Evidence, Verdict(e) = "good"
  PROVE  e = [holds |-> Fact, status |-> "good"]
<1>1. e \in [holds : SUBSET Fact, status : {"good", "revoked", "unknown"}]
  BY EvidenceAssumption
<1>2. Fact \subseteq e.holds /\ e.status = "good"
  BY DEF Verdict
<1>3. e.holds = Fact
  BY <1>1, <1>2
<1> QED
  BY <1>1, <1>2, <1>3

------------------------------------------------------------------------------
LEMMA InitCheckInv == ASSUME NEW nothing, CheckInit(nothing) PROVE CheckInv
  BY TimeAssumption DEF CheckInit, CheckInv, Asked, Opened, RequestConfined, PassOnlyOnEvidence,
     Resolving, Talking

(* Every step keeps it; the ones that return an error return no 0.         *)
LEMMA NextCheckInv == CheckInv /\ [CheckNext]_checkVars => CheckInv'
<1> SUFFICES ASSUME CheckInv, [CheckNext]_checkVars PROVE CheckInv'
  OBVIOUS
<1> USE TimeAssumption DEF CheckInv, Asked, Opened, RequestConfined, PassOnlyOnEvidence,
        Resolving, Talking, wire, Return, Remaining, Patience, Least
<1>e. \A s : Code(s, "error") = -1
  BY DEF Code
<1>1. CASE Load
  <2>2. CASE step' = "fork"
    BY <1>1, <2>2 DEF Load
  <2>3. CASE step' = "returned" /\ code' # 0
    BY <1>1, <2>3 DEF Load
  <2>4. CASE step' = "returned" /\ code' = 0
    <3>1. Loaded(subject).cert /\ ~HasIssuer(subject) /\ subject.current
      BY <1>1, <2>4, <1>e DEF Load
    <3> QED
      BY <1>1, <2>4, <3>1, SignedInEverySlice DEF Load
  <2>5. step' \in {"fork", "returned"}
    BY <1>1 DEF Load
  <2> QED
    BY <2>2, <2>3, <2>4, <2>5
<1>2. CASE Fork
  BY <1>2, <1>e DEF Fork
<1>3. CASE AwaitAddress
  BY <1>3 DEF AwaitAddress
<1>4. CASE AddressComplete
  BY <1>4 DEF AddressComplete
<1>5. CASE Kill
  BY <1>5 DEF Kill
<1>6. CASE WaitForChild
  BY <1>6, <1>e DEF WaitForChild
<1>7. CASE Connect
  BY <1>7, <1>e DEF Connect
<1>8. CASE Send
  BY <1>8, <1>e DEF Send, Give, Abandon
<1>9. CASE ReceiveHeader
  BY <1>9, <1>e DEF ReceiveHeader, Give, Abandon
<1>10. CASE ReceiveBody
  BY <1>10, <1>e DEF ReceiveBody, Give, Abandon
<1>11. CASE VerifyResponse
  <2>1. PICK e \in Evidence : evidence' = e /\ Return(Code(subject, Verdict(e)))
    BY <1>11 DEF VerifyResponse
  <2>2. code' = 0 => /\ subject.current
                     /\ evidence' = [holds |-> Fact, status |-> "good"]
    BY <2>1, ZeroIsGood, GoodIsComplete
  <2> QED
    BY <1>11, <2>1, <2>2, SignedInEverySlice DEF VerifyResponse
<1>12. CASE ResolverStep
  BY <1>12 DEF ResolverStep, ChildWrites, ChildExits
<1>13. ASSUME NEW s, CallCheck(s) PROVE CheckInv'
  BY <1>13 DEF CallCheck
<1>14. ASSUME NEW nothing, TakeCode(nothing) PROVE CheckInv'
  BY <1>14 DEF TakeCode
<1>15. CASE UNCHANGED checkVars
  BY <1>15 DEF checkVars
<1> QED
  BY <1>1, <1>2, <1>3, <1>4, <1>5, <1>6, <1>7, <1>8, <1>9, <1>10, <1>11, <1>12,
     <1>13, <1>14, <1>15 DEF CheckNext, CheckStep

LEMMA CodesAreFew ==
  ASSUME NEW s, NEW status
  PROVE  Code(s, status) \in -2 .. 2
  BY DEF Code

LEMMA NextPieced == CheckInv /\ Pieced /\ [CheckNext]_checkVars => Pieced'
<1> SUFFICES ASSUME CheckInv, Pieced, [CheckNext]_checkVars PROVE Pieced'
  OBVIOUS
<1>0. AddressParts \in Nat \ {0}
  BY PartsAssumption
<1> USE <1>0, CodesAreFew DEF Pieced, wire, Return
<1>o. step \notin {"resolve", "kill"} => pipe = 0
  BY DEF CheckInv, Opened, Resolving, Talking
<1>1. CASE Load
  <2>1. step' \in {"fork", "returned"} /\ code' \in -2 .. 2
    BY <1>1 DEF Load
  <2> QED
    BY <1>1, <2>1 DEF Load
<1>2. CASE Fork
  BY <1>o, <1>2 DEF Fork
<1>3. CASE AwaitAddress
  BY <1>3 DEF AwaitAddress
<1>4. CASE AddressComplete
  BY <1>4 DEF AddressComplete
<1>5. CASE Kill
  BY <1>5 DEF Kill
<1>6. CASE WaitForChild
  BY <1>o, <1>6 DEF WaitForChild
<1>7. CASE Connect
  BY <1>7 DEF Connect
<1>8. CASE Send
  BY <1>8 DEF Send, Abandon
<1>9. CASE ReceiveHeader
  BY <1>9 DEF ReceiveHeader, Abandon
<1>10. CASE ReceiveBody
  BY <1>10 DEF ReceiveBody, Abandon
<1>11. CASE VerifyResponse
  BY <1>11 DEF VerifyResponse
<1>12. CASE ResolverStep
  BY <1>12 DEF ResolverStep, ChildWrites, ChildExits
<1>13. ASSUME NEW s, CallCheck(s) PROVE Pieced'
  BY <1>13 DEF CallCheck
<1>14. ASSUME NEW nothing, TakeCode(nothing) PROVE Pieced'
  BY <1>14 DEF TakeCode
<1>15. CASE UNCHANGED checkVars
  BY <1>15 DEF checkVars
<1> QED
  BY <1>1, <1>2, <1>3, <1>4, <1>5, <1>6, <1>7, <1>8, <1>9, <1>10, <1>11, <1>12,
     <1>13, <1>14, <1>15 DEF CheckNext, CheckStep

LEMMA Checked == CheckSpec => []CheckInv
<1>1. (\E nothing : CheckInit(nothing)) => CheckInv
  BY InitCheckInv
<1> QED
  BY <1>1, NextCheckInv, PTL DEF CheckSpec

LEMMA ChecksArePieced == CheckSpec => [](CheckInv /\ Pieced)
<1>1. ASSUME NEW nothing, CheckInit(nothing) PROVE CheckInv /\ Pieced
  <2>1. AddressParts \in Nat
    BY PartsAssumption
  <2>2. CheckInv
    BY <1>1, InitCheckInv
  <2>3. code = 0 /\ child = "none" /\ pipe = 0 /\ count = 0 /\ step = "idle"
    BY <1>1 DEF CheckInit
  <2> QED
    BY <2>1, <2>2, <2>3 DEF Pieced
<1>2. (\E nothing : CheckInit(nothing)) => CheckInv /\ Pieced
  BY <1>1
<1> QED
  BY <1>2, NextCheckInv, NextPieced, PTL DEF CheckSpec

(* A check that passes has seen all that it takes, whatever the server     *)
(* sent, in whatever pieces.                                               *)
THEOREM PassesOnlyOnEvidence == CheckSpec => []PassOnlyOnEvidence
<1>1. CheckInv => PassOnlyOnEvidence
  BY DEF CheckInv
<1> QED
  BY Checked, <1>1, PTL

(* The deadline holds for the whole request, and on every way out of it    *)
(* the child is reaped and the pipe and the socket are closed.             *)
THEOREM RequestsAreConfined == CheckSpec => []RequestConfined
<1>1. CheckInv => RequestConfined
  BY DEF CheckInv
<1> QED
  BY Checked, <1>1, PTL
==============================================================================
