-------------------------- MODULE VerificationProofs ------------------------
(***************************************************************************)
(* What module Verification promises, for every contract, every number of  *)
(* evidence requests and of retries, whichever evaluator the run was       *)
(* configured with.  The three invariants need four others: the counter    *)
(* read before a call is still the counter while it is in flight           *)
(* (Counted), a call is numbered and only a try that is left is backed off *)
(* (Attempted), what a call was given is never taken back (Shown), and the *)
(* error the Jev client remembers is of this call or of one given up       *)
(* before it (Blame).                                                      *)
(***************************************************************************)
EXTENDS Verification, TLAPS

\* Nobody but the call in flight moves the counter of its criterion.
Counted ==
  /\ requests = asked
  /\ pc = "call" => call.asked = asked[call.criterion]

\* A call in flight has a number, and one that is backed off has a try left.
Attempted ==
  /\ pc = "call" => call.number > 0
  /\ pc = "backoff" => call.attempt < ModelCallRetries

\* What a model was given stays in the index, with its image.
Shown ==
  judge # "jev" => \A a \in call.evidence : items[a] \notin {"none", "pixelless"}

\* Only Jev's client remembers an error, of this call or of one that was in the air.
Blame ==
  /\ judge # "jev" => last.of = 0 /\ air = {}
  /\ pc = "call" => air \subseteq call.late /\ last.of \in {0, call.number} \cup call.late

IInv ==
  /\ TypeOK /\ Counted /\ Attempted /\ Shown /\ Blame
  /\ EvidenceRequestsBounded /\ VerdictsRestOnWhatWasRead /\ OutagesAreOwn

-----------------------------------------------------------------------------
(* What an answer becomes.                                                  *)

\* A downgrade leaves a typed, inconclusive result with the same evidence.
LEMMA DowngradeLaw ==
  ASSUME NEW r \in Results, NEW reason \in DowngradeReasons
  PROVE  /\ RecordDowngrade(r, reason) \in Results
         /\ RecordDowngrade(r, reason).status = "inconclusive"
         /\ RecordDowngrade(r, reason).evidence = r.evidence
BY DEF RecordDowngrade, Results, Statuses

\* Screening trims the evidence to what was handed over, and decides nothing by itself.
LEMMA ScreenLaw ==
  ASSUME NEW r \in Results, NEW known \in SUBSET Artifacts
  PROVE  LET out == ScreenProposal(r, known)
         IN  /\ out \in Results
             /\ out.evidence \subseteq known
             /\ IsTerminal(out.status) => out.status = r.status
             /\ out.status = "passed" => out.evidence # {}
<1> DEFINE trimmed == [r EXCEPT !.evidence = @ \cap known]
           checked == EnforceEvidenceIntegrity(r, known)
           unsure  == [checked EXCEPT !.absence = "uncertain-navigation"]
           out     == ScreenProposal(r, known)
<1>1. /\ "rejected-evidence" \in DowngradeReasons
      /\ "absence-uncertain-navigation" \in DowngradeReasons
  BY DEF DowngradeReasons
<1>2. trimmed \in Results /\ trimmed.evidence \subseteq known
  BY DEF Results
<1>3. /\ checked \in Results /\ checked.evidence \subseteq known
      /\ IsTerminal(checked.status) => checked.status = r.status
      /\ checked.status = "passed" => checked.evidence # {}
  <2>1. CASE ~ (r.evidence \subseteq known)
    <3>1. checked = RecordDowngrade(trimmed, "rejected-evidence")
      BY <2>1 DEF EnforceEvidenceIntegrity
    <3> HIDE DEF checked, trimmed
    <3> QED BY <1>1, <1>2, <3>1, DowngradeLaw DEF IsTerminal
  <2>2. CASE r.evidence \subseteq known /\ r.status = "passed" /\ r.evidence = {}
    <3>1. checked = RecordDowngrade(r, "rejected-evidence")
      BY <2>2 DEF EnforceEvidenceIntegrity
    <3> HIDE DEF checked
    <3> QED BY <1>1, <2>2, <3>1, DowngradeLaw DEF IsTerminal
  <2>3. CASE r.evidence \subseteq known /\ ~ (r.status = "passed" /\ r.evidence = {})
    <3>1. checked = r
      BY <2>3 DEF EnforceEvidenceIntegrity
    <3> QED BY <2>3, <3>1
  <2> QED BY <2>1, <2>2, <2>3
<1> HIDE DEF checked
<1>4. /\ unsure \in Results /\ unsure.evidence = checked.evidence
      /\ unsure.status = checked.status
  BY <1>3 DEF Results, AbsenceClaims
<1>5. \/ out = checked
      \/ out = unsure
      \/ out = RecordDowngrade(unsure, "absence-uncertain-navigation")
  BY DEF checked, ScreenProposal, EnforceAbsenceRule, ClassifyAbsence, NoFacts
<1> HIDE DEF unsure, out
<1>6. /\ out \in Results
      /\ out.evidence \subseteq known
      /\ IsTerminal(out.status) => out.status = r.status
      /\ out.status = "passed" => out.evidence # {}
  <2>1. CASE out = RecordDowngrade(unsure, "absence-uncertain-navigation")
    BY <1>1, <1>3, <1>4, <2>1, DowngradeLaw DEF IsTerminal
  <2>2. CASE out = checked \/ out = unsure
    BY <1>3, <1>4, <2>2
  <2> QED BY <1>5, <2>1, <2>2
<1> QED BY <1>6 DEF out

\* verifier.ts, validateVerdict: a decided result is the answer's own, about this
\* criterion, and a pass misses nothing.
LEMMA ValidationLaw ==
  ASSUME TypeOK, NEW verdict \in Verdicts
  PROVE  LET out == ValidateVerdict(verdict)
         IN  /\ out \in Results
             /\ out.evidence \subseteq call.evidence
             /\ IsTerminal(out.status) =>
                  out.status = verdict.status /\ verdict.about = call.criterion
             /\ out.status = "passed" => ~ verdict.missing /\ out.evidence # {}
<1> DEFINE proposed == Answer(verdict.status, verdict.evidence, verdict.absence)
           about    == IF verdict.about = call.criterion
                       THEN proposed ELSE RecordDowngrade(proposed, "rejected-evidence")
           screened == ScreenProposal(about, call.evidence)
           out      == ValidateVerdict(verdict)
<1>1. "rejected-evidence" \in DowngradeReasons
  BY DEF DowngradeReasons
<1>2. proposed \in Results /\ proposed.status = verdict.status
  BY DEF Verdicts, Answer, Results, Statuses
<1>3. call.evidence \in SUBSET Artifacts
  BY DEF TypeOK, Calls
<1>4. about \in Results /\ (IsTerminal(about.status) =>
                              about.status = verdict.status /\ verdict.about = call.criterion)
  <2> HIDE DEF proposed
  <2> QED BY <1>1, <1>2, DowngradeLaw DEF IsTerminal
<1>5. /\ screened \in Results /\ screened.evidence \subseteq call.evidence
      /\ IsTerminal(screened.status) => screened.status = about.status
      /\ screened.status = "passed" => screened.evidence # {}
  <2> HIDE DEF about
  <2> QED BY <1>3, <1>4, ScreenLaw
<1>6. out = IF verdict.missing /\ screened.status = "passed"
            THEN RecordDowngrade(screened, "rejected-evidence")
            ELSE screened
  BY DEF ValidateVerdict
<1> HIDE DEF about, screened, out
<1>7. CASE verdict.missing /\ screened.status = "passed"
  <2>1. out = RecordDowngrade(screened, "rejected-evidence")
    BY <1>6, <1>7
  <2>2. out \in Results /\ out.status = "inconclusive" /\ out.evidence \subseteq call.evidence
    BY <1>1, <1>5, <2>1, DowngradeLaw
  <2> QED BY <2>2 DEF IsTerminal, out
<1>8. CASE ~ (verdict.missing /\ screened.status = "passed")
  <2>1. out = screened
    BY <1>6, <1>8
  <2>2. /\ out \in Results /\ out.evidence \subseteq call.evidence
        /\ IsTerminal(out.status) => IsTerminal(about.status) /\ out.status = about.status
        /\ out.status = "passed" => ~ verdict.missing /\ out.evidence # {}
    BY <1>5, <1>8, <2>1
  <2> QED BY <1>4, <2>2 DEF out
<1> QED BY <1>7, <1>8

-----------------------------------------------------------------------------
(* The steps.                                                               *)

\* What an answer's remarks owe to it.
Fair(verdict, said) ==
  /\ said \in SUBSET Remarks
  /\ "about another criterion" \in said => verdict.about # call.criterion
  /\ "evidence is missing" \in said => verdict.missing
  /\ "holds and is contradicted" \in said => verdict.status = "inconclusive"

\* What the end of a call leaves alone.
Ended ==
  /\ pc = "call" /\ pc' \in {"idle", "backoff"}
  /\ UNCHANGED <<judge, items, call, last>>
  /\ occurrence' \in [Criteria -> Nat]

\* The three ways a call ends: a request for evidence, a verdict, a failure.
Requested == Ended /\ UNCHANGED air /\ MayRequest /\ RequestEvidence

Delivered ==
  /\ Ended /\ UNCHANGED air
  /\ \E verdict \in Verdicts, said \in SUBSET Remarks :
       Fair(verdict, said) /\ Deliver(verdict, said)

Failed ==
  /\ Ended
  /\ air' = air \/ (judge = "jev" /\ air' = air \cup {call.number})
  /\ \E retryable \in BOOLEAN, blamed \in {0, last.of} : Fail(retryable, blamed)

\* A model's or the double's answer is a request or a fair verdict.
LEMMA ConcludeLaw ==
  ASSUME Ended, UNCHANGED air, NEW verdict \in Verdicts, Conclude(verdict)
  PROVE  Requested \/ Delivered
<1>1. RemarksOn(verdict) \in SUBSET Remarks /\ Fair(verdict, RemarksOn(verdict))
  BY DEF Fair, RemarksOn, Remarks
<1>2. (RequestEvidence /\ MayRequest) \/ Deliver(verdict, RemarksOn(verdict))
  BY DEF Conclude
<1> QED BY <1>1, <1>2 DEF Requested, Delivered

\* The double answers with a verdict: its script is never empty and its counter counts.
LEMMA ScriptLaw ==
  ASSUME TypeOK
  PROVE  RenderVerdict(call.criterion, occurrence[call.criterion]) \in Verdicts
<1> DEFINE n == occurrence[call.criterion]
           k == IF n < Len(Script) THEN n + 1 ELSE Len(Script)
           Answers == [status : {"passed", "failed", "inconclusive"}, missing : BOOLEAN,
                       citesAll : BOOLEAN]
<1>1. n \in Nat /\ call.criterion \in Criteria /\ call.evidence \in SUBSET Artifacts
  BY DEF TypeOK, Calls
<1>2. Script \in Seq(Answers) /\ Len(Script) \in Nat /\ Len(Script) > 0
  BY VerificationAssumption
<1>3. k \in 1..Len(Script)
  BY <1>1, <1>2
<1>4. Script[k] \in Answers
  <2> HIDE DEF k, Answers
  <2> QED BY <1>2, <1>3
<1>5. RenderVerdict(call.criterion, n) =
        [about |-> call.criterion, status |-> Script[k].status, absence |-> "none",
         missing |-> Script[k].missing,
         evidence |-> IF Script[k].citesAll THEN call.evidence ELSE {}]
  BY DEF RenderVerdict
<1> HIDE DEF k
<1> QED BY <1>1, <1>4, <1>5 DEF Verdicts, AbsenceClaims

\* Jev's settled answer is a fair verdict: what contradicts itself decides nothing.
LEMMA JudgmentLaw ==
  ASSUME TypeOK, NEW j \in Judgments
  PROVE  /\ VerdictOf(j) \in Verdicts
         /\ Fair(VerdictOf(j), IF Conflict(j) THEN {"holds and is contradicted"} ELSE {})
<1>1. /\ call.criterion \in Criteria /\ j.cited \in SUBSET Artifacts /\ j.missing \in BOOLEAN
      /\ j.absence \in AbsenceClaims
  BY DEF TypeOK, Calls, Judgments
<1>2. StatusOf(j) \in {"passed", "failed", "inconclusive"}
      /\ (Conflict(j) => StatusOf(j) = "inconclusive")
  BY DEF StatusOf, Conflict
<1>3. VerdictOf(j) \in Verdicts /\ VerdictOf(j).status = StatusOf(j)
  BY <1>1, <1>2 DEF VerdictOf, Verdicts
<1> QED BY <1>2, <1>3 DEF Fair, Remarks

\* Whoever the evaluator is, its step ends the call in one of the three ways.
LEMMA EvaluatorLaw ==
  ASSUME TypeOK,
         ModelReplies \/ ProviderFails \/ ScriptedReplies \/ JevJudges \/ JevOversized
           \/ JevFaults \/ JevUnreachable \/ TimesOut
  PROVE  Requested \/ Delivered \/ Failed
<1>1. occurrence \in [Criteria -> Nat] /\ call.criterion \in Criteria
  BY DEF TypeOK, Calls
<1>2. \A n \in Criteria : [occurrence EXCEPT ![n] = @ + 1] \in [Criteria -> Nat]
  BY <1>1
<1>3. \A verdict \in Verdicts : Conclude(verdict) => pc' = "idle"
  BY DEF Conclude, RequestEvidence, Deliver
<1>4. CASE ModelReplies
  <2>1. PICK verdict \in Verdicts : Conclude(verdict)
    BY <1>4 DEF ModelReplies
  <2>2. Ended /\ UNCHANGED air
    BY <1>1, <1>3, <1>4, <2>1 DEF ModelReplies, Ended
  <2> QED BY <2>1, <2>2, ConcludeLaw
<1>5. CASE ScriptedReplies
  <2>1. Conclude(RenderVerdict(call.criterion, occurrence[call.criterion]))
    BY <1>5 DEF ScriptedReplies
  <2>2. Ended /\ UNCHANGED air
    BY <1>1, <1>2, <1>3, <1>5, <2>1, ScriptLaw DEF ScriptedReplies, Ended
  <2> QED BY <2>1, <2>2, ScriptLaw, ConcludeLaw
<1>6. CASE JevJudges
  <2>1. PICK j \in Judgments :
          \/ MayRequest /\ RequestEvidence
          \/ Deliver(VerdictOf(j), IF Conflict(j) THEN {"holds and is contradicted"} ELSE {})
    BY <1>6 DEF JevJudges
  <2>2. Ended /\ UNCHANGED air
    BY <1>1, <1>6, <2>1 DEF JevJudges, Ended, RequestEvidence, Deliver
  <2>3. (IF Conflict(j) THEN {"holds and is contradicted"} ELSE {}) \in SUBSET Remarks
    BY DEF Remarks
  <2> QED BY <2>1, <2>2, <2>3, JudgmentLaw DEF Requested, Delivered
<1>7. CASE JevOversized
  <2> DEFINE verdict == [about |-> call.criterion, status |-> "inconclusive", evidence |-> {},
                         missing |-> FALSE, absence |-> "none"]
  <2>1. verdict \in Verdicts /\ Fair(verdict, {})
    BY <1>1 DEF Verdicts, AbsenceClaims, Fair
  <2>2. Ended /\ UNCHANGED air /\ Deliver(verdict, {})
    BY <1>1, <1>7 DEF JevOversized, Ended, Deliver
  <2> QED BY <2>1, <2>2 DEF Delivered
<1>8. CASE ProviderFails \/ JevFaults
  <2>1. /\ Ended /\ UNCHANGED air
        /\ \E retryable \in BOOLEAN : Fail(retryable, 0)
    BY <1>1, <1>8 DEF ProviderFails, JevFaults, Ended, Fail
  <2> QED BY <2>1 DEF Failed
<1>9. CASE JevUnreachable
  <2>1. Ended /\ UNCHANGED air /\ Fail(last.kind # "fatal", last.of)
    BY <1>1, <1>9 DEF JevUnreachable, Ended, Fail
  <2> QED BY <2>1 DEF Failed
<1>10. CASE TimesOut
  <2>1. /\ Ended /\ Fail(TRUE, 0)
        /\ air' = air \/ (judge = "jev" /\ air' = air \cup {call.number})
    BY <1>1, <1>10 DEF TimesOut, GiveUp, Ended, Fail
  <2> QED BY <2>1 DEF Failed
<1> QED BY <1>4, <1>5, <1>6, <1>7, <1>8, <1>9, <1>10

\* Every step of an evaluation, sorted for the proofs.
LEMMA Steps ==
  ASSUME TypeOK, Attempted, [Next]_vars
  PROVE  \/ \E a \in Artifacts : Capture(a)
         \/ \E c \in Criteria, attempt \in 0..ModelCallRetries :
              pc \in {"idle", "backoff"} /\ StartCall(c, attempt)
         \/ Requested \/ Delivered \/ Failed
         \/ BackendThrows
         \/ Abort
         \/ \E n \in air : LateRejection(n)
         \/ UNCHANGED vars
<1>1. CASE \E c \in Criteria : Ask(c)
  BY <1>1, VerificationAssumption DEF Ask
<1>2. CASE Retry
  <2>1. call.criterion \in Criteria /\ call.attempt + 1 \in 0..ModelCallRetries
    BY <1>2, VerificationAssumption DEF Retry, TypeOK, Calls, Attempted
  <2> QED BY <1>2, <2>1 DEF Retry
<1> QED BY <1>1, <1>2, EvaluatorLaw DEF Next

-----------------------------------------------------------------------------
(* The invariant is inductive.                                              *)

LEMMA InitEstablishes == Init => IInv
<1> SUFFICES ASSUME Init PROVE IInv
  OBVIOUS
<1>1. NoOutcome \in Outcomes
  BY VerificationAssumption DEF NoOutcome, Outcomes, PendingResult, Results, Statuses, AbsenceClaims
<1>2. call \in Calls /\ call.number = 0 /\ call.evidence = {}
  <2>1. PICK c \in Criteria :
          call = [criterion |-> c, number |-> 0, attempt |-> 0, asked |-> 0, evidence |-> {},
                  thrown |-> FALSE, late |-> {}]
    BY DEF Init
  <2>2. 0 \in 0..MaxCalls /\ 0 \in 0..ModelCallRetries /\ 0 \in 0..MaxEvidenceRequests
    BY VerificationAssumption
  <2> QED BY <2>1, <2>2 DEF Calls
<1>3. TypeOK
  BY <1>1, <1>2, VerificationAssumption DEF Init, TypeOK, Forms, NoError, Errors
<1>4. Counted /\ Attempted /\ Shown /\ Blame
  BY <1>2 DEF Init, Counted, Attempted, Shown, Blame, NoError
<1>5. EvidenceRequestsBounded /\ VerdictsRestOnWhatWasRead /\ OutagesAreOwn
  BY VerificationAssumption DEF Init, EvidenceRequestsBounded, VerdictsRestOnWhatWasRead,
     OutagesAreOwn, NoOutcome
<1> QED BY <1>3, <1>4, <1>5 DEF IInv

\* The index only grows, and only where nothing was indexed.
LEMMA CapturePreserves ==
  ASSUME IInv, NEW a \in Artifacts, Capture(a)
  PROVE  IInv'
<1>1. PICK form \in Forms \ {"none"} : items' = [items EXCEPT ![a] = form]
  BY DEF Capture
<1>2. items' \in [Artifacts -> Forms]
  BY <1>1 DEF IInv, TypeOK
<1>3. TypeOK'
  BY <1>2 DEF Capture, IInv, TypeOK
<1>4. \A b \in Artifacts : items[b] # "none" => items'[b] = items[b]
  BY <1>1 DEF Capture, IInv, TypeOK
<1>5. Shown'
  BY <1>4 DEF Capture, IInv, TypeOK, Calls, Shown
<1>6. VerdictsRestOnWhatWasRead'
  BY <1>5 DEF Capture, IInv, VerdictsRestOnWhatWasRead, Shown
<1>7. Counted' /\ Attempted' /\ Blame' /\ EvidenceRequestsBounded' /\ OutagesAreOwn'
  BY DEF Capture, IInv, Counted, Attempted, Blame, EvidenceRequestsBounded, OutagesAreOwn
<1> QED BY <1>3, <1>5, <1>6, <1>7 DEF IInv

\* A call starts with what can be read, and remembers what is still in the air.
LEMMA StartPreserves ==
  ASSUME IInv, NEW c \in Criteria, NEW attempt \in 0..ModelCallRetries,
         pc \in {"idle", "backoff"}, StartCall(c, attempt)
  PROVE  IInv'
<1>1. /\ pc' = "call" /\ outcome' = NoOutcome
      /\ call' = [criterion |-> c, number |-> call.number + 1, attempt |-> attempt,
                  asked |-> asked[c], evidence |-> Readable, thrown |-> FALSE, late |-> air]
      /\ last' = IF judge = "jev" THEN NoError ELSE last
      /\ UNCHANGED <<judge, items, asked, occurrence, air, requests>>
  BY DEF StartCall
<1>2. call.number + 1 \in 0..MaxCalls /\ call.number + 1 > 0
  BY VerificationAssumption DEF StartCall, IInv, TypeOK, Calls
<1>3. /\ Readable \in SUBSET Artifacts
      /\ judge # "jev" => \A a \in Readable : items[a] \notin {"none", "pixelless"}
  BY DEF Readable, Indexed
<1>4. asked[c] \in 0..MaxEvidenceRequests /\ air \in SUBSET (1..MaxCalls)
  BY DEF IInv, TypeOK
<1>5. call' \in Calls
  BY <1>1, <1>2, <1>3, <1>4 DEF Calls
<1>6. NoOutcome \in Outcomes /\ NoError \in [kind : Errors, of : 0..MaxCalls]
  BY VerificationAssumption
     DEF NoOutcome, Outcomes, PendingResult, Results, Statuses, AbsenceClaims, NoError, Errors
<1>7. TypeOK'
  BY <1>1, <1>5, <1>6 DEF IInv, TypeOK
<1>8. Counted' /\ Attempted' /\ Shown'
  BY <1>1, <1>2, <1>3 DEF IInv, Counted, Attempted, Shown
<1>9. Blame'
  BY <1>1 DEF IInv, Blame, NoError
<1>10. EvidenceRequestsBounded' /\ VerdictsRestOnWhatWasRead' /\ OutagesAreOwn'
  BY <1>1 DEF IInv, EvidenceRequestsBounded, VerdictsRestOnWhatWasRead, OutagesAreOwn, NoOutcome
<1> QED BY <1>7, <1>8, <1>9, <1>10 DEF IInv

\* A request for evidence is counted once, and within maxEvidenceRequests.
LEMMA RequestPreserves ==
  ASSUME IInv, Requested
  PROVE  IInv'
<1>1. /\ pc = "call" /\ pc' = "idle" /\ UNCHANGED <<judge, items, call, last, air>>
      /\ occurrence' \in [Criteria -> Nat]
      /\ outcome' = [NoOutcome EXCEPT !.kind = "needsEvidence"]
      /\ asked' = [asked EXCEPT ![call.criterion] = call.asked + 1]
      /\ requests' = [requests EXCEPT ![call.criterion] = @ + 1]
      /\ call.asked < MaxEvidenceRequests
  BY DEF Requested, Ended, RequestEvidence, MayRequest
<1>2. /\ call.criterion \in Criteria /\ call.asked = asked[call.criterion] /\ requests = asked
      /\ asked \in [Criteria -> 0..MaxEvidenceRequests]
  BY <1>1 DEF IInv, TypeOK, Calls, Counted
<1>3. call.asked + 1 \in 0..MaxEvidenceRequests
  BY <1>1, <1>2, VerificationAssumption
<1>4. asked' = requests' /\ asked' \in [Criteria -> 0..MaxEvidenceRequests]
  <2> DEFINE c    == call.criterion
             more == call.asked + 1
  <2>1. asked' = [asked EXCEPT ![c] = more] /\ requests' = [asked EXCEPT ![c] = asked[c] + 1]
    BY <1>1, <1>2
  <2>2. more \in 0..MaxEvidenceRequests /\ asked[c] + 1 = more /\ c \in Criteria
    BY <1>2, <1>3
  <2> HIDE DEF c, more
  <2> QED BY <1>2, <2>1, <2>2
<1>5. requests' \in [Criteria -> Nat] /\ EvidenceRequestsBounded'
  BY <1>4, VerificationAssumption DEF EvidenceRequestsBounded
<1>6. outcome' \in Outcomes /\ outcome'.kind = "needsEvidence" /\ outcome'.blamed = 0
  <2>1. NoOutcome \in Outcomes /\ NoOutcome.blamed = 0
    BY VerificationAssumption
       DEF NoOutcome, Outcomes, PendingResult, Results, Statuses, AbsenceClaims
  <2> QED BY <1>1, <2>1 DEF Outcomes
<1>7. TypeOK'
  BY <1>1, <1>4, <1>5, <1>6 DEF IInv, TypeOK
<1>8. Counted' /\ Attempted' /\ Shown' /\ Blame'
  BY <1>1, <1>4 DEF IInv, Counted, Attempted, Shown, Blame
<1>9. VerdictsRestOnWhatWasRead' /\ OutagesAreOwn'
  BY <1>6 DEF VerdictsRestOnWhatWasRead, OutagesAreOwn
<1> QED BY <1>5, <1>7, <1>8, <1>9 DEF IInv

\* A verdict is handed over as it was validated.
LEMMA DeliverPreserves ==
  ASSUME IInv, Delivered
  PROVE  IInv'
<1>1. PICK verdict \in Verdicts, said \in SUBSET Remarks :
        Fair(verdict, said) /\ Deliver(verdict, said)
  BY DEF Delivered
<1> DEFINE result == ValidateVerdict(verdict)
<1>2. /\ result \in Results
      /\ result.evidence \subseteq call.evidence
      /\ IsTerminal(result.status) =>
           result.status = verdict.status /\ verdict.about = call.criterion
      /\ result.status = "passed" => ~ verdict.missing /\ result.evidence # {}
  BY ValidationLaw DEF IInv
<1>3. /\ pc = "call" /\ pc' = "idle" /\ UNCHANGED <<judge, items, call, last, air>>
      /\ occurrence' \in [Criteria -> Nat] /\ UNCHANGED <<asked, requests>>
      /\ outcome' = [NoOutcome EXCEPT !.kind = "verdict", !.result = result, !.said = said]
  BY <1>1 DEF Delivered, Ended, Deliver
<1> HIDE DEF result
<1>4. /\ outcome' \in Outcomes /\ outcome'.kind = "verdict" /\ outcome'.result = result
      /\ outcome'.said = said /\ outcome'.blamed = 0
  <2>1. 0 \in 0..MaxCalls
    BY VerificationAssumption
  <2>2. outcome' = [kind |-> "verdict", result |-> result, said |-> said, blamed |-> 0]
    BY <1>3 DEF NoOutcome
  <2> QED BY <1>2, <2>1, <2>2 DEF Outcomes
<1>5. TypeOK'
  BY <1>3, <1>4 DEF IInv, TypeOK
<1>6. Counted' /\ Attempted' /\ Shown' /\ Blame' /\ EvidenceRequestsBounded'
  BY <1>3 DEF IInv, Counted, Attempted, Shown, Blame, EvidenceRequestsBounded
<1>7. OutagesAreOwn'
  BY <1>4 DEF OutagesAreOwn
<1>8. judge # "jev" => \A a \in result.evidence : items[a] # "pixelless"
  BY <1>2 DEF IInv, Shown
<1>9. IsTerminal(result.status) => said \subseteq {"evidence is missing"}
  BY <1>1, <1>2 DEF Fair, Remarks, IsTerminal
<1>10. result.status = "passed" => said = {}
  BY <1>1, <1>2, <1>9 DEF Fair, IsTerminal
<1>11. VerdictsRestOnWhatWasRead'
  BY <1>2, <1>3, <1>4, <1>8, <1>9, <1>10 DEF VerdictsRestOnWhatWasRead
<1> QED BY <1>5, <1>6, <1>7, <1>11 DEF IInv

\* A failure is blamed on nothing, or on the error the client remembers.
LEMMA FailurePreserves ==
  ASSUME IInv, Failed
  PROVE  IInv'
<1>1. PICK retryable \in BOOLEAN, blamed \in {0, last.of} : Fail(retryable, blamed)
  BY DEF Failed
<1>2. /\ pc = "call" /\ UNCHANGED <<judge, items, call, last, asked, requests>>
      /\ occurrence' \in [Criteria -> Nat]
      /\ pc' \in {"idle", "backoff"} /\ (pc' = "backoff" => call.attempt < ModelCallRetries)
      /\ outcome' = [NoOutcome EXCEPT !.kind = "error", !.blamed = blamed]
      /\ air' = air \/ (judge = "jev" /\ air' = air \cup {call.number})
  BY <1>1 DEF Failed, Ended, Fail
<1>3. /\ blamed \in 0..MaxCalls /\ blamed \in {0, call.number} \cup call.late
  BY <1>2, VerificationAssumption DEF IInv, TypeOK, Blame
<1>4. outcome' \in Outcomes /\ outcome'.kind = "error" /\ outcome'.blamed = blamed
  BY <1>2, <1>3 DEF NoOutcome, Outcomes, PendingResult, Results, Statuses, AbsenceClaims
<1>5. call.number \in 1..MaxCalls
  BY <1>2 DEF IInv, TypeOK, Calls, Attempted
<1>6. air' \subseteq 1..MaxCalls
  BY <1>2, <1>5 DEF IInv, TypeOK
<1>7. TypeOK'
  BY <1>2, <1>4, <1>6 DEF IInv, TypeOK
<1>8. Counted' /\ Attempted' /\ Shown' /\ EvidenceRequestsBounded'
  BY <1>2 DEF IInv, Counted, Attempted, Shown, EvidenceRequestsBounded
<1>9. Blame'
  BY <1>2 DEF IInv, Blame
<1>10. VerdictsRestOnWhatWasRead' /\ OutagesAreOwn'
  BY <1>2, <1>3, <1>4 DEF VerdictsRestOnWhatWasRead, OutagesAreOwn
<1> QED BY <1>7, <1>8, <1>9, <1>10 DEF IInv

\* The client notes the error of the call in flight.
LEMMA ThrowPreserves ==
  ASSUME IInv, BackendThrows
  PROVE  IInv'
<1>1. PICK kind \in {"retryable", "fatal"} : last' = [kind |-> kind, of |-> call.number]
  BY DEF BackendThrows
<1>2. /\ pc = "call" /\ judge = "jev" /\ call' = [call EXCEPT !.thrown = TRUE]
      /\ UNCHANGED <<judge, items, asked, occurrence, pc, air, outcome, requests>>
  BY DEF BackendThrows
<1>3. call \in Calls /\ call.number \in 0..MaxCalls
  BY DEF IInv, TypeOK, Calls
<1>4. /\ call' \in Calls /\ call'.number = call.number /\ call'.late = call.late
      /\ call'.asked = call.asked /\ call'.criterion = call.criterion
      /\ call'.evidence = call.evidence /\ call'.attempt = call.attempt
  BY <1>2, <1>3 DEF Calls
<1>5. last' \in [kind : Errors, of : 0..MaxCalls] /\ last'.of = call.number
  BY <1>1, <1>3 DEF Errors
<1>6. TypeOK'
  BY <1>2, <1>4, <1>5 DEF IInv, TypeOK
<1>7. Counted' /\ Attempted' /\ Shown' /\ Blame' /\ EvidenceRequestsBounded'
  BY <1>2, <1>4, <1>5 DEF IInv, Counted, Attempted, Shown, Blame, EvidenceRequestsBounded
<1>8. VerdictsRestOnWhatWasRead' /\ OutagesAreOwn'
  BY <1>2, <1>4 DEF IInv, VerdictsRestOnWhatWasRead, OutagesAreOwn
<1> QED BY <1>6, <1>7, <1>8 DEF IInv

\* A call that was given up, and one that is rejected at last, change no outcome.
LEMMA LatePreserves ==
  ASSUME IInv, Abort \/ \E n \in air : LateRejection(n)
  PROVE  IInv'
<1>1. UNCHANGED <<judge, items, asked, occurrence, call, outcome, requests>>
  BY DEF Abort, LateRejection
<1>2. CASE Abort
  <2>1. /\ pc' = "over" /\ UNCHANGED last
        /\ air' = air \/ (pc = "call" /\ judge = "jev" /\ air' = air \cup {call.number})
    BY <1>2 DEF Abort, GiveUp
  <2>2. pc = "call" => call.number \in 1..MaxCalls
    BY DEF IInv, TypeOK, Calls, Attempted
  <2>3. TypeOK'
    BY <1>1, <2>1, <2>2 DEF IInv, TypeOK
  <2>4. Counted' /\ Attempted' /\ Shown' /\ Blame'
    BY <1>1, <2>1 DEF IInv, Counted, Attempted, Shown, Blame
  <2> QED BY <1>1, <2>3, <2>4
          DEF IInv, EvidenceRequestsBounded, VerdictsRestOnWhatWasRead, OutagesAreOwn
<1>3. ASSUME NEW n \in air, LateRejection(n)
      PROVE  IInv'
  <2>1. /\ UNCHANGED pc /\ air' = air \ {n}
        /\ \/ UNCHANGED last
           \/ \E kind \in Errors : last' = [kind |-> kind, of |-> n]
    BY <1>3 DEF LateRejection
  <2>2. n \in 0..MaxCalls
    BY DEF IInv, TypeOK
  <2>3. TypeOK' /\ (last'.of = last.of \/ last'.of = n)
    BY <1>1, <2>1, <2>2 DEF IInv, TypeOK
  <2>4. Counted' /\ Attempted' /\ Shown'
    BY <1>1, <2>1 DEF IInv, Counted, Attempted, Shown
  <2>5. Blame'
    BY <1>1, <2>1, <2>3 DEF IInv, Blame
  <2> QED BY <1>1, <2>3, <2>4, <2>5
          DEF IInv, EvidenceRequestsBounded, VerdictsRestOnWhatWasRead, OutagesAreOwn
<1> QED BY <1>2, <1>3

\* IInv is inductive.
LEMMA StepPreserves == IInv /\ [Next]_vars => IInv'
<1> SUFFICES ASSUME IInv, [Next]_vars PROVE IInv'
  OBVIOUS
<1>1. CASE UNCHANGED vars
  BY <1>1 DEF vars, IInv, TypeOK, Counted, Attempted, Shown, Blame, EvidenceRequestsBounded,
              VerdictsRestOnWhatWasRead, OutagesAreOwn
<1> QED BY <1>1, Steps, CapturePreserves, StartPreserves, RequestPreserves, DeliverPreserves,
           FailurePreserves, ThrowPreserves, LatePreserves DEF IInv

-----------------------------------------------------------------------------
(* The theorems.                                                            *)

\* Type correctness: the retries of a call and the counter of a criterion stay within
\* modelCallRetries and maxEvidenceRequests (provider.ts, verifier.ts).
THEOREM VerificationTypes == Spec => []TypeOK
<1>1. IInv => TypeOK
  BY DEF IInv
<1> QED BY InitEstablishes, StepPreserves, <1>1, PTL DEF Spec

\* However often a criterion is asked about, retried or given up, the runner is sent back
\* for evidence at most maxEvidenceRequests times (verifier.ts, runModelCheck).
THEOREM RequestsAreBounded == Spec => []EvidenceRequestsBounded
<1>1. IInv => EvidenceRequestsBounded
  BY DEF IInv
<1> QED BY InitEstablishes, StepPreserves, <1>1, PTL DEF Spec

\* A verdict cites what its call was given and could be read, and is decided by an answer
\* about this criterion that does not contradict itself (validateVerdict, interpret.ts).
THEOREM VerdictsRest == Spec => []VerdictsRestOnWhatWasRead
<1>1. IInv => VerdictsRestOnWhatWasRead
  BY DEF IInv
<1> QED BY InitEstablishes, StepPreserves, <1>1, PTL DEF Spec

\* An outage is retried by the error of its own call, or of a call that was still in the air
\* when this one started (jev/client.ts, takeTransportError).
THEOREM BlameIsOwn == Spec => []OutagesAreOwn
<1>1. IInv => OutagesAreOwn
  BY DEF IInv
<1> QED BY InitEstablishes, StepPreserves, <1>1, PTL DEF Spec
=============================================================================
