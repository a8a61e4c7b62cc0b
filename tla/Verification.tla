---------------------------- MODULE Verification ----------------------------
(***************************************************************************)
(* How a criterion is put to an evaluator and what comes back to the       *)
(* runner (agent-runtime: verifier/, jev/, scripted/, provider.ts; and the *)
(* retry loop of runner.ts around it).  The evaluator is a language model, *)
(* the scripted double, or Jev, whose one client is shared by all calls    *)
(* and remembers the last transport error.  A Jev request that was given   *)
(* up is not aborted: it may still be rejected during a later call.        *)
(*                                                                         *)
(* Module Attempt takes the outcomes of this module as its verifier's      *)
(* answers; here an evaluation is followed call by call.                   *)
(***************************************************************************)
EXTENDS Adjudication, Sequences

CONSTANTS
  MaxEvidenceRequests,   \* budgets.maxEvidenceRequests
  ModelCallRetries,      \* budgets.modelCallRetries
  Script,                \* the double's answers, the nth for the nth call about a criterion
  MaxCalls               \* bound: calls of the evaluator

ASSUME VerificationAssumption ==
  /\ MaxEvidenceRequests \in Nat /\ ModelCallRetries \in Nat /\ MaxCalls \in Nat
  /\ Script \in Seq([status : {"passed", "failed", "inconclusive"}, missing : BOOLEAN,
                     citesAll : BOOLEAN])
  /\ Script # <<>>

VARIABLES
  judge,       \* which evaluator the run was configured with
  items,       \* the evidence index: artifact -> how it can be read
  asked,       \* evidenceRequests, the verifier's counter
  occurrence,  \* verdicts, the double's counter
  pc,          \* "idle", "call", "backoff", "over"
  call,        \* the call in flight, or the last one
  last,        \* the Jev client's last transport error, and the call it is of
  air,         \* Jev calls given up and not settled yet
  outcome,     \* what the runner was last handed
  requests     \* history: requests for evidence handed to the runner

vars == <<judge, items, asked, occurrence, pc, call, last, air, outcome, requests>>

-----------------------------------------------------------------------------
Judges == {"model", "scripted", "jev"}

\* blank: an empty text summary.  pixelless: a screenshot whose image is missing.
Forms == {"none", "plain", "blank", "pixelless"}

Errors == {"none", "retryable", "fatal"}
NoError == [kind |-> "none", of |-> 0]

NoOutcome == [kind |-> "none", result |-> PendingResult, said |-> {}, blamed |-> 0]

\* What an answer said that its result must account for.
Remarks == {"about another criterion", "evidence is missing", "holds and is contradicted"}

Calls ==
  [criterion : Criteria, number : 0..MaxCalls, attempt : 0..ModelCallRetries,
   asked : 0..MaxEvidenceRequests, evidence : SUBSET Artifacts, thrown : BOOLEAN,
   late : SUBSET (1..MaxCalls)]

Outcomes ==
  [kind : {"none", "needsEvidence", "verdict", "error"}, result : Results,
   said : SUBSET Remarks, blamed : 0..MaxCalls]

TypeOK ==
  /\ judge \in Judges /\ items \in [Artifacts -> Forms]
  /\ asked \in [Criteria -> 0..MaxEvidenceRequests]
  /\ requests \in [Criteria -> Nat] /\ occurrence \in [Criteria -> Nat]
  /\ pc \in {"idle", "call", "backoff", "over"}
  /\ call \in Calls
  /\ last \in [kind : Errors, of : 0..MaxCalls]
  /\ air \subseteq 1..MaxCalls
  /\ outcome \in Outcomes

Init ==
  /\ judge \in Judges
  /\ items = [a \in Artifacts |-> "none"]
  /\ asked = [c \in Criteria |-> 0] /\ occurrence = asked /\ requests = asked
  /\ pc = "idle"
  /\ call \in [criterion : Criteria, number : {0}, attempt : {0}, asked : {0}, evidence : {{}},
               thrown : {FALSE}, late : {{}}]
  /\ last = NoError /\ air = {} /\ outcome = NoOutcome

-----------------------------------------------------------------------------
(* The evidence handed over                                                 *)

\* Between two evaluations the run goes on and its index of evidence grows.
Capture(a) ==
  /\ pc = "idle" /\ items[a] = "none"
  /\ \E form \in Forms \ {"none"} : items' = [items EXCEPT ![a] = form]
  /\ UNCHANGED <<judge, asked, occurrence, pc, call, last, air, outcome, requests>>

Indexed == {a \in Artifacts : items[a] # "none"}

\* A model may cite a screenshot only if it saw it; Jev reads text summaries only.
Readable ==
  {a \in Indexed : items[a] # IF judge = "jev" THEN "blank" ELSE "pixelless"}

\* A plausible slip: the client's error is not forgotten when a call starts.
StartCallKeepingError(c, attempt) ==
  /\ call.number < MaxCalls
  /\ pc' = "call"
  /\ call' = [criterion |-> c, number |-> call.number + 1, attempt |-> attempt,
              asked |-> asked[c], evidence |-> Readable, thrown |-> FALSE, late |-> air]
  /\ outcome' = NoOutcome
  /\ UNCHANGED <<judge, items, asked, occurrence, last, air, requests>>

\* verify, once: the counter and the evidence are read before the call.
StartCall(c, attempt) ==
  /\ call.number < MaxCalls
  /\ pc' = "call"
  /\ call' = [criterion |-> c, number |-> call.number + 1, attempt |-> attempt,
              asked |-> asked[c], evidence |-> Readable, thrown |-> FALSE, late |-> air]
  /\ last' = IF judge = "jev" THEN NoError ELSE last
  /\ outcome' = NoOutcome
  /\ UNCHANGED <<judge, items, asked, occurrence, air, requests>>

Ask(c) == pc = "idle" /\ StartCall(c, 0)
Retry  == pc = "backoff" /\ StartCall(call.criterion, call.attempt + 1)

-----------------------------------------------------------------------------
(* What comes back                                                          *)

\* withModelRetry: a failure is handed over once it is not to be tried again.
Fail(retryable, blamed) ==
  /\ outcome' = [NoOutcome EXCEPT !.kind = "error", !.blamed = blamed]
  /\ pc' = IF retryable /\ call.attempt < ModelCallRetries THEN "backoff" ELSE "idle"
  /\ UNCHANGED <<asked, requests>>

\* A plausible slip: a request for evidence is handed over and not counted.
RequestUncounted ==
  /\ outcome' = [NoOutcome EXCEPT !.kind = "needsEvidence"]
  /\ requests' = [requests EXCEPT ![call.criterion] = @ + 1]
  /\ pc' = "idle" /\ UNCHANGED asked

\* The counter is written from the value read before the call.
RequestEvidence ==
  /\ outcome' = [NoOutcome EXCEPT !.kind = "needsEvidence"]
  /\ asked' = [asked EXCEPT ![call.criterion] = call.asked + 1]
  /\ requests' = [requests EXCEPT ![call.criterion] = @ + 1]
  /\ pc' = "idle"

MayRequest == call.asked < MaxEvidenceRequests

\* CriterionVerdict, as decoded.
Verdicts ==
  [about : Criteria, status : {"passed", "failed", "inconclusive"},
   evidence : SUBSET Artifacts, missing : BOOLEAN, absence : AbsenceClaims]

\* A plausible slip: an answer about another criterion is taken for this one.
ValidateAnyCriterion(verdict) ==
  LET screened == ScreenProposal(Answer(verdict.status, verdict.evidence, verdict.absence),
                                 call.evidence)
  IN  IF verdict.missing /\ screened.status = "passed"
      THEN RecordDowngrade(screened, "rejected-evidence")
      ELSE screened

ValidateVerdict(verdict) ==
  LET proposed == Answer(verdict.status, verdict.evidence, verdict.absence)
      about    == IF verdict.about = call.criterion
                  THEN proposed ELSE RecordDowngrade(proposed, "rejected-evidence")
      screened == ScreenProposal(about, call.evidence)
  IN  IF verdict.missing /\ screened.status = "passed"
      THEN RecordDowngrade(screened, "rejected-evidence")
      ELSE screened

Deliver(verdict, said) ==
  /\ outcome' = [NoOutcome EXCEPT !.kind = "verdict", !.result = ValidateVerdict(verdict),
                                  !.said = said]
  /\ pc' = "idle" /\ UNCHANGED <<asked, requests>>

RemarksOn(verdict) ==
  {r \in Remarks : \/ r = "about another criterion" /\ verdict.about # call.criterion
                   \/ r = "evidence is missing" /\ verdict.missing}

\* runModelCheck, once the answer is decoded.
Conclude(verdict) ==
  IF verdict.missing /\ verdict.status = "inconclusive" /\ MayRequest
  THEN RequestEvidence
  ELSE Deliver(verdict, RemarksOn(verdict))

ModelReplies ==
  /\ pc = "call" /\ judge = "model"
  /\ \E verdict \in Verdicts : Conclude(verdict)
  /\ UNCHANGED <<judge, items, occurrence, call, last, air>>

\* An error of the provider keeps its retryability; a malformed verdict has none.
ProviderFails ==
  /\ pc = "call" /\ judge # "jev"
  /\ \E retryable \in BOOLEAN : Fail(retryable, 0)
  /\ UNCHANGED <<judge, items, occurrence, call, last, air>>

-----------------------------------------------------------------------------
(* The scripted double                                                      *)

\* renderVerdict: the last answer of a sequence serves for all later calls.
RenderVerdict(c, n) ==
  LET spec == Script[IF n < Len(Script) THEN n + 1 ELSE Len(Script)]
  IN  [about |-> c, status |-> spec.status, absence |-> "none", missing |-> spec.missing,
       evidence |-> IF spec.citesAll THEN call.evidence ELSE {}]

ScriptedReplies ==
  /\ pc = "call" /\ judge = "scripted"
  /\ occurrence' = [occurrence EXCEPT ![call.criterion] = @ + 1]
  /\ Conclude(RenderVerdict(call.criterion, occurrence[call.criterion]))
  /\ UNCHANGED <<judge, items, call, last, air>>

-----------------------------------------------------------------------------
(* Jev                                                                      *)

Decisions == {"yes", "no", "escalated"}

\* One batch of answers; only decided ones count.
Judgments ==
  [holds : Decisions, contradicted : Decisions, settled : Decisions,
   absence : AbsenceClaims, missing : BOOLEAN, cited : SUBSET call.evidence]

Conflict(j) == j.holds = "yes" /\ j.contradicted = "yes"

\* "Not shown" is not "shown false": a failure needs an explicit contradiction.
StatusOf(j) ==
  IF j.settled = "yes" /\ j.holds = "yes" /\ j.contradicted = "no" THEN "passed"
  ELSE IF j.settled = "yes" /\ j.holds = "no" /\ j.contradicted = "yes" THEN "failed"
  ELSE "inconclusive"

\* What is missing stops no verdict that Jev gives as settled.
VerdictOf(j) ==
  [about |-> call.criterion, status |-> StatusOf(j), evidence |-> j.cited,
   missing |-> j.missing /\ StatusOf(j) # "passed", absence |-> j.absence]

JevJudges ==
  /\ pc = "call" /\ judge = "jev" /\ ~ call.thrown
  /\ \E j \in Judgments :
       IF j.settled = "no" /\ j.missing /\ MayRequest
       THEN RequestEvidence
       ELSE Deliver(VerdictOf(j), IF Conflict(j) THEN {"holds and is contradicted"} ELSE {})
  /\ UNCHANGED <<judge, items, occurrence, call, last, air>>

\* The state is too large: nothing was judged.
JevOversized ==
  /\ pc = "call" /\ judge = "jev" /\ ~ call.thrown
  /\ Deliver([about |-> call.criterion, status |-> "inconclusive", evidence |-> {},
              missing |-> FALSE, absence |-> "none"], {})
  /\ UNCHANGED <<judge, items, occurrence, call, last, air>>

\* A question refused as open-ended, or a client that throws: an adapter fault.
JevFaults ==
  /\ pc = "call" /\ judge = "jev"
  /\ Fail(FALSE, 0)
  /\ UNCHANGED <<judge, items, occurrence, call, last, air>>

\* The backend's own error is noted by the client, then answered as "unreachable".
BackendThrows ==
  /\ pc = "call" /\ judge = "jev" /\ ~ call.thrown
  /\ \E kind \in {"retryable", "fatal"} : last' = [kind |-> kind, of |-> call.number]
  /\ call' = [call EXCEPT !.thrown = TRUE]
  /\ UNCHANGED <<judge, items, asked, occurrence, pc, air, outcome, requests>>

\* transportOf: without an error on record, an unreachable backend is tried again.
JevUnreachable ==
  /\ pc = "call" /\ judge = "jev"
  /\ Fail(last.kind # "fatal", last.of)
  /\ UNCHANGED <<judge, items, occurrence, call, last, air>>

-----------------------------------------------------------------------------
(* Calls given up                                                           *)

GiveUp == air' = IF judge = "jev" /\ ~ call.thrown THEN air \cup {call.number} ELSE air

\* operationTimeoutMs: the runner may try again, while the request goes on.
TimesOut ==
  /\ pc = "call"
  /\ GiveUp /\ Fail(TRUE, 0)
  /\ UNCHANGED <<judge, items, occurrence, call, last>>

\* A cancellation or an interruption ends the evaluation, in flight or between two tries.
Abort ==
  /\ pc \in {"call", "backoff"} /\ pc' = "over"
  /\ IF pc = "call" THEN GiveUp ELSE UNCHANGED air
  /\ UNCHANGED <<judge, items, asked, occurrence, call, last, outcome, requests>>

\* A late rejection is swallowed, after the client has noted it.
LateRejection(n) ==
  /\ n \in air /\ air' = air \ {n}
  /\ \E kind \in Errors : last' = IF kind = "none" THEN last ELSE [kind |-> kind, of |-> n]
  /\ UNCHANGED <<judge, items, asked, occurrence, pc, call, outcome, requests>>

-----------------------------------------------------------------------------
Next ==
  \/ \E a \in Artifacts : Capture(a)
  \/ \E c \in Criteria : Ask(c)
  \/ Retry
  \/ ModelReplies \/ ProviderFails \/ ScriptedReplies
  \/ JevJudges \/ JevOversized \/ JevFaults \/ BackendThrows \/ JevUnreachable
  \/ TimesOut \/ Abort
  \/ \E n \in air : LateRejection(n)

Spec == Init /\ [][Next]_vars

-----------------------------------------------------------------------------
(* Properties *)

\* However often a criterion is put to the evaluator, tried again or given up, the runner
\* is sent back for evidence at most maxEvidenceRequests times about it, and a call that
\* was given up uses none of them (verifier.ts, maxEvidenceRequests).
EvidenceRequestsBounded ==
  \A c \in Criteria : requests[c] = asked[c] /\ requests[c] <= MaxEvidenceRequests

\* A verdict cites only what this very call was given and its evaluator could read, and a
\* decided one was given about this criterion, by an answer that does not contradict
\* itself and, for a pass, misses no evidence.
VerdictsRestOnWhatWasRead ==
  outcome.kind = "verdict" =>
    /\ outcome.result.evidence \subseteq call.evidence
    /\ judge # "jev" => \A a \in outcome.result.evidence : items[a] # "pixelless"
    /\ IsTerminal(outcome.result.status) =>
         outcome.said \subseteq {"evidence is missing"}
    /\ outcome.result.status = "passed" => outcome.said = {} /\ outcome.result.evidence # {}

\* client.ts, takeTransportError: an outage is retried or not by the error of its own call.
\* The one exception is the error of a call that was given up and was still in the air when
\* this one started.
OutagesAreOwn ==
  outcome.blamed \in {0, call.number} \cup call.late
=============================================================================
