------------------------------- MODULE Attempt ------------------------------
(***************************************************************************)
(* One attempt of a run: runner/runner.ts (runAttempt), runner/dispatcher  *)
(* and runner/evidence.  A single fiber walks the browsing loop, the tools *)
(* it dispatches, the evaluations of criteria and the final pass; around   *)
(* it, a cancellation request, an interruption of the fiber and two clocks *)
(* may strike at any await.  `pc` is where that fiber is suspended:        *)
(*                                                                         *)
(*   open, launch, navigate   before the browser, while it and its context *)
(*                     are acquired (uninterruptibly), the first page      *)
(*   loop, model       the top of agentLoop, the browsing model call       *)
(*   dispatch          between two tool calls of a turn                    *)
(*   starting, acting, ending    one tool call: its actionStarted line,    *)
(*                     its operation, its actionFinished line              *)
(*   capture, judge, ask, check, refused, announce   one evaluation: the   *)
(*                     checkpoint capture, the choice of judge, the        *)
(*                     verifier, the code check, neither of them, and the  *)
(*                     verificationFinished line of a recorded verdict     *)
(*   final, pass, settle         before, in and after the final pass       *)
(*   unwinding, timedOut         finalizers of a body that was cut short   *)
(*   tail, returned    the uninterruptible remainder of runAttempt         *)
(*                                                                         *)
(* A turn is the number of tool calls it still holds: the model may ask    *)
(* for any tool, so which one is chosen when it is dispatched.  Criteria   *)
(* are evaluated in any order in the final pass, where the code follows    *)
(* the contract's.  A checkpoint capture or a check's payload of criterion *)
(* c is the artifact c, what is saved of the page the artifact Page.       *)
(***************************************************************************)
EXTENDS Adjudication, Budgets

CONSTANTS
  MaxUsage,          \* bound: tokens one model call may cost
  CodeCriteria,      \* criteria whose method is "code"
  Page,              \* the artifact the page is saved as
  Citations,         \* bound: what an evaluator cites
  Claims,            \* bound: the absence claims it makes
  Screenshots,       \* capture.screenshots
  MaxIdleTurns,
  ModelCallRetries,
  MaxTurnCalls,      \* bound: tool calls in one turn
  StoreMayFail,      \* whether the run store can refuse a write
  Disturbances       \* bound: what the outside does, of the next three

ASSUME AttemptAssumption ==
  /\ CodeCriteria \subseteq Criteria /\ Criteria \subseteq Artifacts /\ Page \in Artifacts
  /\ Citations \subseteq SUBSET Artifacts /\ Claims \subseteq AbsenceClaims
  /\ MaxUsage \in Nat \ {0} /\ MaxIdleTurns \in Nat \ {0} /\ ModelCallRetries \in Nat
  /\ MaxTurnCalls \in Nat \ {0} /\ StoreMayFail \in BOOLEAN
  /\ Screenshots \in {"checkpoints", "every-action", "off"}
  /\ Disturbances \subseteq {"cancellation", "interruption", "clock"}

VARIABLES
  pc, exit,                       \* where the fiber is, how the attempt body ended
  results, inventory, unsaved,    \* the verdicts (module Verdicts)
  index,                          \* the recorder's evidence index, shown to the verifier
  budget, late,                   \* the accounting (module BudgetLedger)
  overdue,                        \* attemptTimeoutMs have elapsed since the attempt began
  cancelReq, interrupted,         \* what the outside asked for
  agent,                          \* the browsing loop's counters
  eval,                           \* the evaluation in progress
  line,                           \* the last actionStarted line in the journal
  page,                           \* the dispatcher's page facts
  outcome                         \* what the attempt will report

vars == <<pc, exit, results, inventory, unsaved, index, budget, late, overdue, cancelReq,
          interrupted, agent, eval, line, page, outcome>>

verdictVars  == <<results, unsaved>>
evidenceVars == <<inventory, index>>
outsideVars  == <<late, overdue, cancelReq, interrupted>>

-----------------------------------------------------------------------------
(* State                                                                    *)

ToolPhases == {"starting", "acting", "ending"}
EvalPhases == {"capture", "judge", "ask", "check", "refused", "announce"}

\* Where racingCancellation watches the cancellation request.
RacedPhases == {"model"} \cup ToolPhases \cup EvalPhases

\* The interruptible window that deps.restore opens, but for the browser's launch:
\* whoever interrupts that one waits for it.
BodyPhases == {"open", "navigate", "loop", "dispatch", "final", "pass", "settle"} \cup RacedPhases

Phases == BodyPhases \cup {"launch", "unwinding", "timedOut", "tail", "returned"}

NoEval == [of |-> "none", by |-> "nobody", lost |-> FALSE]

VerdictsTypeOK == results \in [Criteria -> Results] /\ unsaved \in SUBSET Criteria

\* The browsing loop's counters; `turn` is how many calls the turn still holds.
AgentStates ==
  [turn : 0..MaxTurnCalls, idleTurns : 0..MaxIdleTurns, retries : 0..ModelCallRetries,
   finishRequested : BOOLEAN, fatal : BOOLEAN]

\* The criterion under evaluation, who asked, and whether its evidence was lost.
Evals == [of : Criteria, by : {"agent", "runner"}, lost : BOOLEAN] \cup {NoEval}

Outcomes ==
  [cancellation : BOOLEAN, executionError : BOOLEAN, mandatoryFailure : BOOLEAN,
   exhausted : {"none", "attemptTimeout", "maxModelCalls", "maxTokens", "maxIdleTurns"}]

FiberTypeOK ==
  /\ pc \in Phases
  /\ exit \in {"none", "ok", "error", "timeout", "interrupt"}
  /\ inventory \in SUBSET Artifacts /\ index \in SUBSET Artifacts
  /\ budget \in BudgetStates
  /\ {late, overdue, cancelReq, interrupted} \subseteq BOOLEAN
  /\ agent \in AgentStates
  /\ eval \in Evals
  /\ line \in {"paired", "open", "broken"}
  /\ page \in [observed : BOOLEAN, settled : BOOLEAN]
  /\ outcome \in Outcomes

TypeOK == VerdictsTypeOK /\ FiberTypeOK

Init ==
  /\ pc = "open" /\ exit = "none"
  /\ results = [c \in Criteria |-> PendingResult]
  /\ inventory = {} /\ index = {} /\ unsaved = {}
  /\ budget = MakeBudgetState
  /\ late = FALSE /\ overdue = FALSE /\ cancelReq = FALSE /\ interrupted = FALSE
  /\ agent = [turn |-> 0, idleTurns |-> 0, retries |-> 0, finishRequested |-> FALSE,
              fatal |-> FALSE]
  /\ eval = NoEval
  /\ line = "paired"
  /\ page = [observed |-> FALSE, settled |-> FALSE]
  /\ outcome = [cancellation |-> FALSE, executionError |-> FALSE, mandatoryFailure |-> FALSE,
                exhausted |-> "none"]

ReportError == outcome' = [outcome EXCEPT !.executionError = TRUE]
ReportCancellation == outcome' = [outcome EXCEPT !.cancellation = TRUE]
\* The retries are those of one call: they are over with it.
RetriesOver == agent' = [agent EXCEPT !.retries = 0]
ReportExhausted(kind) == outcome' = [outcome EXCEPT !.exhausted = kind]

-----------------------------------------------------------------------------
(* Opening                                                                  *)

OpenContext ==
  /\ pc = "open"
  /\ pc' = "launch"
  /\ UNCHANGED <<exit, verdictVars, evidenceVars, budget, outsideVars, agent, eval, line, page,
                 outcome>>

ContextOpened ==
  /\ pc = "launch"
  /\ pc' = "navigate"
  /\ UNCHANGED <<exit, verdictVars, evidenceVars, budget, outsideVars, agent, eval, line, page,
                 outcome>>

OpenContextFails ==
  /\ pc \in {"open", "launch"}
  /\ pc' = "tail" /\ exit' = "error"
  /\ UNCHANGED <<verdictVars, evidenceVars, budget, outsideVars, agent, eval, line, page, outcome>>

FirstNavigation(settled) ==
  /\ pc = "navigate"
  /\ page' = [page EXCEPT !.settled = settled]
  /\ pc' = "loop"
  /\ UNCHANGED <<exit, verdictVars, evidenceVars, budget, outsideVars, agent, eval, line, outcome>>

FirstNavigationFails ==
  /\ pc = "navigate"
  /\ ReportError
  /\ pc' = "final"
  /\ UNCHANGED <<exit, verdictVars, evidenceVars, budget, outsideVars, agent, eval, line, page>>

-----------------------------------------------------------------------------
(* The browsing loop                                                        *)

\* Polled once per turn, before anything else.
HonourCancelAtLoopTop ==
  /\ pc = "loop" /\ cancelReq
  /\ ReportCancellation
  /\ pc' = "final"
  /\ UNCHANGED <<exit, verdictVars, evidenceVars, budget, outsideVars, agent, eval, line, page>>

LeaveLoop ==
  /\ pc = "loop" /\ ~ cancelReq
  /\ agent.finishRequested \/ outcome.executionError
  /\ pc' = "final"
  /\ UNCHANGED <<exit, verdictVars, evidenceVars, budget, outsideVars, agent, eval, line, page,
                 outcome>>

MayBrowse ==
  pc = "loop" /\ ~ cancelReq /\ ~ agent.finishRequested /\ ~ outcome.executionError

RefuseTurn ==
  /\ MayBrowse /\ ~ CanStartModelCall("browser", budget, late)
  /\ ReportExhausted(Denial(budget, late))
  /\ pc' = "final"
  /\ UNCHANGED <<exit, verdictVars, evidenceVars, budget, outsideVars, agent, eval, line, page>>

\* A plausible slip: the turn that follows a refused evaluation skips the gate.
StartTurnUngated ==
  /\ MayBrowse
  /\ pc' = "model"
  /\ UNCHANGED <<exit, verdictVars, evidenceVars, budget, outsideVars, agent, eval, line, page,
                 outcome>>

StartTurn ==
  /\ MayBrowse /\ CanStartModelCall("browser", budget, late)
  /\ pc' = "model"
  /\ UNCHANGED <<exit, verdictVars, evidenceVars, budget, outsideVars, agent, eval, line, page,
                 outcome>>

ModelAnswers(usage, calls) ==
  /\ pc = "model" /\ ~ cancelReq
  /\ budget' = ChargeTokens(RecordModelCall(budget), "browser", usage)
  /\ LET idle == agent.idleTurns + 1
     IN  \/ /\ calls > 0
            /\ agent' = [agent EXCEPT !.turn = calls, !.idleTurns = 0, !.retries = 0]
            /\ pc' = "dispatch"
            /\ UNCHANGED outcome
         \/ /\ calls = 0 /\ idle < MaxIdleTurns
            /\ agent' = [agent EXCEPT !.idleTurns = idle, !.retries = 0]
            /\ pc' = "loop"
            /\ UNCHANGED outcome
         \/ /\ calls = 0 /\ idle >= MaxIdleTurns
            /\ agent' = [agent EXCEPT !.idleTurns = idle, !.retries = 0]
            /\ ReportExhausted("maxIdleTurns")
            /\ pc' = "final"
  /\ UNCHANGED <<exit, verdictVars, evidenceVars, outsideVars, eval, line, page>>

\* A plausible slip: one retry too many, and the call is never counted.
RetryOnceMore(retryable) ==
  /\ pc = "model" /\ ~ cancelReq
  /\ retryable /\ agent.retries <= ModelCallRetries
  /\ agent' = [agent EXCEPT !.retries = @ + 1]
  /\ UNCHANGED <<pc, exit, verdictVars, evidenceVars, budget, outsideVars, eval, line, page,
                 outcome>>

\* A failed or timed-out call is retried while it is retryable; a call is counted
\* once, and its failure ends the loop.
ModelFails(retryable) ==
  /\ pc = "model" /\ ~ cancelReq
  /\ \/ /\ retryable /\ agent.retries < ModelCallRetries
        /\ agent' = [agent EXCEPT !.retries = @ + 1]
        /\ UNCHANGED <<pc, budget, outcome>>
     \/ /\ ~ (retryable /\ agent.retries < ModelCallRetries)
        /\ budget' = RecordModelCall(budget)
        /\ ReportError
        /\ pc' = "final"
        /\ RetriesOver
  /\ UNCHANGED <<exit, verdictVars, evidenceVars, outsideVars, eval, line, page>>

-----------------------------------------------------------------------------
(* The tools                                                                *)

AfterCall(agentNow) ==
  IF agentNow.turn = 0 \/ agentNow.finishRequested \/ outcome'.executionError THEN "loop"
  ELSE "dispatch"

\* A tool nobody declared is answered without an action.
DispatchUnknownTool ==
  /\ pc = "dispatch"
  /\ agent' = [agent EXCEPT !.turn = @ - 1]
  /\ UNCHANGED outcome
  /\ pc' = AfterCall(agent')
  /\ UNCHANGED <<exit, verdictVars, evidenceVars, budget, outsideVars, eval, line, page>>

DispatchTool ==
  /\ pc = "dispatch"
  /\ pc' = "starting"
  /\ UNCHANGED <<exit, verdictVars, evidenceVars, budget, outsideVars, agent, eval, line, page,
                 outcome>>

\* The action is in flight from here; its line is in the journal unless the store
\* refused it.
ActionStarted ==
  /\ pc = "starting" /\ ~ cancelReq
  /\ \/ line' = IF line = "broken" THEN "broken" ELSE "open"
     \/ StoreMayFail /\ UNCHANGED line
  /\ pc' = "acting"
  /\ UNCHANGED <<exit, verdictVars, evidenceVars, budget, outsideVars, agent, eval, page, outcome>>

\* The part every tool shares once its operation is over.
ToolDone ==
  /\ pc = "acting" /\ ~ cancelReq
  /\ pc' = "ending"
  /\ UNCHANGED <<exit, verdictVars, budget, outsideVars, eval, line>>

\* An observation or a screenshot of the page is evidence, if the store takes it.
SavePage ==
  \/ inventory' = inventory \cup {Page} /\ index' = index \cup {Page}
  \/ StoreMayFail /\ inventory' \in {inventory, inventory \cup {Page}} /\ UNCHANGED index

Observe ==
  /\ ToolDone /\ SavePage
  /\ page' = [page EXCEPT !.observed = TRUE]
  /\ UNCHANGED <<agent, outcome>>

Screenshot ==
  /\ ToolDone /\ SavePage
  /\ UNCHANGED <<agent, page, outcome>>

Navigate(settled) ==
  /\ ToolDone
  /\ page' = [observed |-> FALSE, settled |-> settled]
  /\ UNCHANGED <<evidenceVars, agent, outcome>>

\* click, fill, press: a navigation they caused leaves the page uncertain.
ActNavigates ==
  /\ ToolDone
  /\ page' = [observed |-> FALSE, settled |-> FALSE]
  /\ UNCHANGED <<evidenceVars, agent, outcome>>

\* Every other end of a tool call: a result, a refusal (parameters, origin, stale
\* or unknown reference, unknown criterion), a driver failure, a timeout.
OtherToolEnd ==
  /\ ToolDone
  /\ UNCHANGED <<evidenceVars, agent, page, outcome>>

\* A driver result that does not decode ends the run once the call has returned; the
\* page it left behind is of no consequence, no evaluation follows.
ToolResultInvalid ==
  /\ ToolDone
  /\ agent' = [agent EXCEPT !.fatal = TRUE]
  /\ UNCHANGED <<evidenceVars, page, outcome>>

Finish ==
  /\ ToolDone
  /\ agent' = [agent EXCEPT !.finishRequested = TRUE]
  /\ UNCHANGED <<evidenceVars, page, outcome>>

Check(c) ==
  /\ pc = "acting" /\ ~ cancelReq
  /\ eval' = [of |-> c, by |-> "agent", lost |-> FALSE]
  /\ pc' = "capture"
  /\ UNCHANGED <<exit, verdictVars, evidenceVars, budget, outsideVars, agent, line, page, outcome>>

\* The capture some configurations take after a browser's action is not mandatory:
\* nobody hears that it failed.
ActionFinished ==
  /\ pc = "ending" /\ ~ cancelReq
  /\ UNCHANGED evidenceVars \/ (Screenshots = "every-action" /\ SavePage)
  /\ line' \in IF line = "open" /\ ~ StoreMayFail THEN {"paired"}
               ELSE IF line = "open" THEN {"paired", "broken"}
               ELSE {line}
  /\ agent' = [agent EXCEPT !.turn = @ - 1]
  /\ outcome' = [outcome EXCEPT !.executionError = @ \/ agent.fatal]
  /\ pc' = AfterCall(agent')
  /\ UNCHANGED <<exit, verdictVars, budget, outsideVars, eval, page>>

-----------------------------------------------------------------------------
(* One evaluation: verifyCriterion, for the agent's `check` and the final pass *)

\* Only a criterion that is still pending is evaluated by the runner itself.
BeginVerification(c) ==
  /\ pc = "pass" /\ results[c].status = "pending"
  /\ eval' = [of |-> c, by |-> "runner", lost |-> FALSE]
  /\ pc' = "capture"
  /\ UNCHANGED <<exit, verdictVars, evidenceVars, budget, outsideVars, agent, line, page, outcome>>

\* The checkpoint capture is mandatory evidence: when it fails, or its record does,
\* this evaluation and the whole attempt remember it.  The store can keep a record
\* it could not announce: the inventory then holds what the recorder gave up.  A
\* configuration can do without captures.
CheckpointCapture ==
  /\ pc = "capture" /\ ~ cancelReq
  /\ pc' = "judge"
  /\ UNCHANGED <<exit, verdictVars, budget, outsideVars, agent, line, page>>
  /\ \/ Screenshots = "off" /\ UNCHANGED <<evidenceVars, eval, outcome>>
     \/ /\ Screenshots # "off"
        /\ inventory' = inventory \cup {eval.of} /\ index' = index \cup {eval.of}
        /\ UNCHANGED <<eval, outcome>>
     \/ /\ Screenshots # "off"
        /\ \/ UNCHANGED inventory
           \/ StoreMayFail /\ inventory' = inventory \cup {eval.of}
        /\ UNCHANGED index
        /\ eval' = [eval EXCEPT !.lost = TRUE]
        /\ outcome' = [outcome EXCEPT !.mandatoryFailure = TRUE]

\* A plausible slip: the evidence lost during the evaluation never reaches the law.
RecordForgettingLoss(proposed) ==
  LET c == eval.of
      facts == [navigationSettled |-> page.settled, checkpointReached |-> page.observed]
  IN  /\ results' = [results EXCEPT ![c] = Adjudicate(proposed, @, inventory, facts, FALSE)]
      /\ unsaved' = IF eval.lost THEN unsaved \cup {c} ELSE unsaved \ {c}
      /\ pc' = "announce"
      /\ UNCHANGED eval

\* The end of every evaluation that produced an answer: the law, on the inventory
\* re-read at this moment.
Record(proposed) ==
  LET c == eval.of
      facts == [navigationSettled |-> page.settled, checkpointReached |-> page.observed]
  IN  /\ results' = [results EXCEPT ![c] = Adjudicate(proposed, @, inventory, facts, eval.lost)]
      /\ unsaved' = IF eval.lost THEN unsaved \cup {c} ELSE unsaved \ {c}
      /\ pc' = "announce"
      /\ UNCHANGED eval

\* The verdict's line is in the journal: back to whoever asked.
VerificationFinished ==
  /\ pc = "announce" /\ ~ cancelReq
  /\ eval' = NoEval
  /\ pc' = IF eval.by = "agent" THEN "ending" ELSE "pass"
  /\ UNCHANGED <<exit, verdictVars, evidenceVars, budget, outsideVars, agent, line, page, outcome>>

\* The choice of judge suspends nowhere: a cancellation waits for what follows it.
JudgeByCode ==
  /\ pc = "judge" /\ eval.of \in CodeCriteria
  /\ pc' = "check"
  /\ UNCHANGED <<exit, verdictVars, evidenceVars, budget, outsideVars, agent, eval, line, page,
                 outcome>>

\* A plausible slip: an evaluation never meets the budget gate.
AskVerifierUngated ==
  /\ pc = "judge" /\ eval.of \notin CodeCriteria
  /\ pc' = "ask"
  /\ UNCHANGED <<exit, verdictVars, evidenceVars, budget, outsideVars, agent, eval, line, page,
                 outcome>>

AskVerifier ==
  /\ pc = "judge" /\ eval.of \notin CodeCriteria
  /\ CanStartModelCall("verifier", budget, late)
  /\ pc' = "ask"
  /\ UNCHANGED <<exit, verdictVars, evidenceVars, budget, outsideVars, agent, eval, line, page,
                 outcome>>

\* The check is bound to another text of the criterion: the run itself is in error.
CheckMisbound ==
  /\ pc = "judge" /\ eval.of \in CodeCriteria
  /\ ReportError
  /\ pc' = "refused"
  /\ UNCHANGED <<exit, verdictVars, evidenceVars, budget, outsideVars, agent, eval, line, page>>

\* The gate refused a verifier call: the budget is reported.
RefuseVerifier ==
  /\ pc = "judge" /\ eval.of \notin CodeCriteria
  /\ ~ CanStartModelCall("verifier", budget, late)
  /\ ReportExhausted(Denial(budget, late))
  /\ pc' = "refused"
  /\ UNCHANGED <<exit, verdictVars, evidenceVars, budget, outsideVars, agent, eval, line, page>>

\* Nobody judged the criterion.
RecordRefusal ==
  /\ pc = "refused" /\ ~ cancelReq
  /\ Record(Answer(IF eval.of \in CodeCriteria THEN "error" ELSE "inconclusive", {}, "none"))
  /\ UNCHANGED <<exit, evidenceVars, budget, outsideVars, agent, line, page, outcome>>

VerifierAnswers(usage, status, cited, claim) ==
  /\ pc = "ask" /\ ~ cancelReq
  /\ budget' = ChargeTokens(RecordModelCall(budget), "verifier", usage)
  /\ Record(ScreenProposal(Answer(status, cited, claim), index))
  /\ RetriesOver
  /\ UNCHANGED <<exit, evidenceVars, outsideVars, line, page, outcome>>

\* The verifier asks for more: the agent may come back with it, the final pass is
\* the last chance.
VerifierNeedsEvidence(usage) ==
  /\ pc = "ask" /\ ~ cancelReq
  /\ budget' = ChargeTokens(RecordModelCall(budget), "verifier", usage)
  /\ \/ /\ eval.by = "agent"
        /\ eval' = NoEval /\ pc' = "ending"
        /\ UNCHANGED verdictVars
     \/ eval.by = "runner" /\ Record(Answer("inconclusive", {}, "none"))
  /\ RetriesOver
  /\ UNCHANGED <<exit, evidenceVars, outsideVars, line, page, outcome>>

\* A verification that fails after its retries is neither counted nor charged.
VerifierFails(retryable) ==
  /\ pc = "ask" /\ ~ cancelReq
  /\ \/ /\ retryable /\ agent.retries < ModelCallRetries
        /\ agent' = [agent EXCEPT !.retries = @ + 1]
        /\ UNCHANGED <<pc, eval, verdictVars>>
     \/ /\ ~ (retryable /\ agent.retries < ModelCallRetries)
        /\ Record(Answer("error", {}, "none"))
        /\ RetriesOver
  /\ UNCHANGED <<exit, evidenceVars, budget, outsideVars, line, page, outcome>>

\* A check journals a probe payload while it runs; one that cannot be saved is lost
\* mandatory evidence like the capture.
CheckSavesPayload ==
  /\ pc = "check" /\ ~ cancelReq
  /\ \/ /\ inventory' = inventory \cup {eval.of} /\ index' = index \cup {eval.of}
        /\ UNCHANGED <<eval, outcome>>
     \/ /\ StoreMayFail
        /\ inventory' \in {inventory, inventory \cup {eval.of}} /\ UNCHANGED index
        /\ eval' = [eval EXCEPT !.lost = TRUE]
        /\ outcome' = [outcome EXCEPT !.mandatoryFailure = TRUE]
  /\ UNCHANGED <<pc, exit, verdictVars, budget, outsideVars, agent, line, page>>

CheckReturns(status, cited) ==
  /\ pc = "check" /\ ~ cancelReq
  /\ Record(Answer(status, cited, "none"))
  /\ UNCHANGED <<exit, evidenceVars, budget, outsideVars, agent, line, page, outcome>>

\* Not registered, thrown or timed out.
CheckFails ==
  /\ pc = "check" /\ ~ cancelReq
  /\ Record(Answer("error", {}, "none"))
  /\ UNCHANGED <<exit, evidenceVars, budget, outsideVars, agent, line, page, outcome>>

-----------------------------------------------------------------------------
(* The final pass and the end of the body                                   *)

\* A plausible slip: an exhausted budget skips the final pass too.
SkipWhenExhausted ==
  /\ pc = "final"
  /\ outcome.cancellation \/ outcome.executionError \/ outcome.exhausted # "none"
  /\ pc' = "settle"
  /\ UNCHANGED <<exit, verdictVars, evidenceVars, budget, outsideVars, agent, eval, line, page,
                 outcome>>

SkipFinalPass ==
  /\ pc = "final" /\ (outcome.cancellation \/ outcome.executionError)
  /\ pc' = "settle"
  /\ UNCHANGED <<exit, verdictVars, evidenceVars, budget, outsideVars, agent, eval, line, page,
                 outcome>>

BeginFinalPass ==
  /\ pc = "final" /\ ~ outcome.cancellation /\ ~ outcome.executionError
  /\ pc' = "pass"
  /\ UNCHANGED <<exit, verdictVars, evidenceVars, budget, outsideVars, agent, eval, line, page,
                 outcome>>

FinalPassDone ==
  /\ pc = "pass" /\ \A c \in Criteria : results[c].status # "pending"
  /\ pc' = "settle"
  /\ UNCHANGED <<exit, verdictVars, evidenceVars, budget, outsideVars, agent, eval, line, page,
                 outcome>>

\* session.finalize returned, or its deadline passed; its captures are recorded.
Settle ==
  /\ pc = "settle"
  /\ pc' = "tail" /\ exit' = "ok"
  /\ UNCHANGED <<verdictVars, evidenceVars, budget, outsideVars, agent, eval, line, page, outcome>>

-----------------------------------------------------------------------------
(* Being cut short                                                          *)

\* What becomes of the action in progress.  Between the two marks of the dispatcher
\* (acting, or an evaluation asked for by the agent) closeInterruptedAction writes
\* the missing actionFinished.  Before the first mark the actionStarted line may
\* have landed, and after the second the actionFinished line may not: neither is
\* repaired.
InFlight == pc = "acting" \/ (pc \in EvalPhases /\ eval.by = "agent")

\* A plausible slip: an evaluation that the agent asked for is not an action to close.
CloseBrowserAction ==
  line' = IF pc = "acting" /\ line = "open" THEN "paired" ELSE line

CloseInterruptedAction ==
  \/ /\ InFlight /\ line = "open"
     /\ line' = "paired" \/ (StoreMayFail /\ line' = "broken")
  \/ /\ (pc = "starting" /\ line # "broken") \/ (pc = "ending" /\ line = "open")
     /\ line' \in {"paired", "broken"}
  \/ /\ ~ (InFlight /\ line = "open")
     /\ ~ (pc = "starting" /\ line # "broken") /\ ~ (pc = "ending" /\ line = "open")
     /\ UNCHANGED line

\* A plausible slip: the aborted work is not followed by noteCancellation.
CancelUnnoted ==
  /\ pc \in RacedPhases /\ cancelReq
  /\ budget' = IF pc = "model" THEN RecordModelCall(budget) ELSE budget
  /\ CloseInterruptedAction
  /\ eval' = NoEval /\ RetriesOver
  /\ pc' = "final"
  /\ UNCHANGED <<exit, verdictVars, evidenceVars, outsideVars, page, outcome>>

\* The race is won by the cancellation request: the work in flight is aborted.  An
\* artifact whose record lands all the same is left out: no evaluation follows.
CancelWins ==
  /\ pc \in RacedPhases /\ cancelReq
  /\ budget' = IF pc = "model" THEN RecordModelCall(budget) ELSE budget
  /\ CloseInterruptedAction
  /\ ReportCancellation
  /\ eval' = NoEval /\ RetriesOver
  /\ pc' = "final"
  /\ UNCHANGED <<exit, verdictVars, evidenceVars, outsideVars, page>>

\* A plausible slip: an evaluation under way is not interruptible.
CutShortBetweenEvaluations(how) ==
  /\ pc \in BodyPhases \ EvalPhases
  /\ CloseInterruptedAction
  /\ eval' = NoEval /\ RetriesOver
  /\ exit' = how /\ pc' = "unwinding"
  /\ UNCHANGED <<verdictVars, evidenceVars, budget, outsideVars, page, outcome>>

CutShort(how) ==
  /\ pc \in BodyPhases
  /\ CloseInterruptedAction
  /\ eval' = NoEval /\ RetriesOver
  /\ exit' = how /\ pc' = "unwinding"
  /\ UNCHANGED <<verdictVars, evidenceVars, budget, outsideVars, page, outcome>>

DeliverInterrupt == interrupted /\ CutShort("interrupt")

AttemptTimeout == overdue /\ CutShort("timeout")

\* The scope's finalizers, each under its own deadline.
Unwound ==
  /\ pc = "unwinding"
  /\ pc' = IF exit = "timeout" THEN "timedOut" ELSE "tail"
  /\ UNCHANGED <<exit, verdictVars, evidenceVars, budget, outsideVars, agent, eval, line, page,
                 outcome>>

\* The timeout's own handler is still interruptible.
TimeoutReported ==
  /\ pc = "timedOut"
  /\ pc' = "tail"
  /\ \/ ~ interrupted /\ ReportExhausted("attemptTimeout") /\ UNCHANGED exit
     \/ interrupted /\ exit' = "interrupt" /\ UNCHANGED outcome
  /\ UNCHANGED <<verdictVars, evidenceVars, budget, outsideVars, agent, eval, line, page>>

-----------------------------------------------------------------------------
(* The uninterruptible remainder of runAttempt                              *)

\* A plausible slip: lost mandatory evidence is not promoted to an error.
TailWithoutMandatory(o) ==
  LET cancelled == o.cancellation \/ exit = "interrupt"
  IN  [o EXCEPT !.cancellation = cancelled,
                !.executionError = @ \/ (exit = "error" /\ ~ cancelled)]

TailOutcome(o) ==
  LET cancelled == o.cancellation \/ exit = "interrupt"
      errored   == o.executionError \/ (exit = "error" /\ ~ cancelled)
  IN  [o EXCEPT !.cancellation = cancelled,
                !.executionError = errored \/ (o.mandatoryFailure /\ ~ cancelled)]

Tail ==
  /\ pc = "tail"
  /\ outcome' = TailOutcome(outcome)
  /\ pc' = "returned"
  /\ UNCHANGED <<exit, verdictVars, evidenceVars, budget, outsideVars, agent, eval, line, page>>

-----------------------------------------------------------------------------
(* The outside                                                              *)

insideVars == <<pc, exit, verdictVars, evidenceVars, budget, agent, eval, line, page, outcome>>

RequestCancellation ==
  /\ "cancellation" \in Disturbances /\ ~ cancelReq /\ pc # "returned"
  /\ cancelReq' = TRUE
  /\ UNCHANGED <<insideVars, late, overdue, interrupted>>

Interrupt ==
  /\ "interruption" \in Disturbances /\ ~ interrupted /\ pc # "returned"
  /\ interrupted' = TRUE
  /\ UNCHANGED <<insideVars, late, overdue, cancelReq>>

\* The run's clock starts before the attempt's timer.
RunClock ==
  /\ "clock" \in Disturbances /\ ~ late /\ pc # "returned"
  /\ late' = TRUE
  /\ UNCHANGED <<insideVars, overdue, cancelReq, interrupted>>

AttemptClock ==
  /\ late /\ ~ overdue /\ pc # "returned"
  /\ overdue' = TRUE
  /\ UNCHANGED <<insideVars, late, cancelReq, interrupted>>

-----------------------------------------------------------------------------
Evaluators ==
  \/ \E usage \in 0..MaxUsage, status \in {"passed", "failed", "inconclusive"},
        cited \in Citations, claim \in Claims : VerifierAnswers(usage, status, cited, claim)
  \/ \E usage \in 0..MaxUsage : VerifierNeedsEvidence(usage)
  \/ \E retryable \in BOOLEAN : VerifierFails(retryable)
  \/ CheckSavesPayload
  \/ \E status \in {"passed", "failed", "inconclusive"}, cited \in Citations :
        CheckReturns(status, cited)
  \/ CheckFails

Browsing ==
  \/ OpenContext \/ ContextOpened \/ OpenContextFails
  \/ (\E settled \in BOOLEAN : FirstNavigation(settled)) \/ FirstNavigationFails
  \/ \E usage \in 0..MaxUsage, calls \in 0..MaxTurnCalls : ModelAnswers(usage, calls)
  \/ \E retryable \in BOOLEAN : ModelFails(retryable)
  \/ Observe \/ Screenshot \/ (\E settled \in BOOLEAN : Navigate(settled)) \/ ActNavigates
  \/ OtherToolEnd
  \/ ToolResultInvalid
  \/ CheckpointCapture

\* What the runner does by itself: its fiber is never left waiting by these.
Harness ==
  \/ HonourCancelAtLoopTop \/ LeaveLoop \/ RefuseTurn \/ StartTurn
  \/ DispatchUnknownTool \/ DispatchTool \/ ActionStarted \/ Finish
  \/ (\E c \in Criteria : Check(c)) \/ ActionFinished
  \/ JudgeByCode \/ CheckMisbound \/ AskVerifier \/ RefuseVerifier
  \/ RecordRefusal \/ VerificationFinished
  \/ SkipFinalPass \/ BeginFinalPass \/ (\E c \in Criteria : BeginVerification(c))
  \/ FinalPassDone \/ Settle
  \/ CancelWins \/ DeliverInterrupt \/ AttemptTimeout \/ Unwound \/ TimeoutReported \/ Tail

Outside == RequestCancellation \/ Interrupt \/ RunClock \/ AttemptClock

Next == Browsing \/ Evaluators \/ Harness \/ Outside

\* Fair: the clocks, the attempt's timer, and the runner's own steps.  The launch of
\* the browser cannot be interrupted and has a timeout of its own.  Nothing is assumed
\* of the model, the page, the verifier or a check, which may never answer, nor of the
\* per-operation timeouts.
Fairness ==
  /\ WF_vars(RunClock) /\ WF_vars(AttemptClock)
  /\ WF_vars(AttemptTimeout)
  /\ WF_vars(ContextOpened \/ OpenContextFails)
  /\ WF_vars(CancelWins)
  /\ WF_vars(HonourCancelAtLoopTop \/ SkipFinalPass \/ Settle)
  /\ WF_vars(Unwound) /\ WF_vars(TimeoutReported) /\ WF_vars(Tail)

Spec == Init /\ [][Next]_vars /\ Fairness

-----------------------------------------------------------------------------
(* Properties *)

Returned == pc = "returned"

Verdict == Aggregate(outcome.cancellation, outcome.executionError, results)

\* The verdicts of an attempt, whatever cut it short, are those of module Verdicts:
\* V!Spec, with the stutter tested first because TLC enumerates V!Next.
V == INSTANCE Verdicts

VerdictsImplemented == V!Init /\ [][UNCHANGED V!vars \/ V!Next]_(V!vars)

\* Its spending is that of module BudgetLedger.
L == INSTANCE BudgetLedger
       WITH call <- IF pc = "model" THEN "browser" ELSE IF pc = "ask" THEN "verifier" ELSE "none"

LedgerImplemented == L!LedgerSpec

\* An attempt reported `passed` met no error and was not interrupted, lost no mandatory
\* evidence, and every criterion of its contract passed on inventoried evidence.  (Its
\* deadline may have struck once every criterion was decided: that is an exhausted
\* budget, not an error.)
NoSilentPass ==
  Returned /\ Verdict = "passed" =>
    /\ ~ outcome.mandatoryFailure
    /\ exit \notin {"error", "interrupt"}
    /\ \A c \in Criteria : /\ results[c].status = "passed"
                           /\ results[c].evidence # {}
                           /\ results[c].evidence \subseteq inventory

\* A criterion left `pending` was never looked at: only a cancellation, an error or
\* the attempt's deadline can leave one, never the model's `finish`, an exhausted
\* budget or a verifier that asks for more evidence.
PendingOnlyWhenCutShort ==
  Returned /\ (\E c \in Criteria : results[c].status = "pending") =>
    outcome.cancellation \/ outcome.executionError \/ exit = "timeout"

\* Once a blocking budget was reported, the browsing model is never called again.  (The
\* tool calls left in its last turn are still dispatched, which design-contracts.md:268
\* excludes: runner.ts, the dispatch loop, stops for finish and for an error only.)
NoTurnAfterExhaustion ==
  outcome.exhausted # "none" => ~ (pc # "model" /\ pc' = "model")

ExhaustionStopsBrowsing == [][NoTurnAfterExhaustion]_vars

\* An attempt always returns, even if the page, the model, the verifier or a check
\* never answers.
Returns == <>Returned

\* A cancellation that arrives while the browsing loop, a tool or an evaluation is
\* under way is reported as one, unless the attempt's own deadline or a concurrent
\* interruption ended it first.
CancelHonoured ==
  (cancelReq /\ pc \in RacedPhases) ~> (Returned /\ (outcome.cancellation \/ exit = "timeout"))

\* An action that was under way, the evaluation an agent asked for included, is closed
\* in the journal by whatever ends it: its result, a cancellation, an interruption or the
\* attempt's deadline.  (One cut short while its actionStarted or its actionFinished line
\* is being written is not: CloseInterruptedAction.)
ActionsClosed ==
  [][InFlight /\ line = "open" => InFlight' \/ pc' = "ending" \/ line' = "paired"]_vars
=============================================================================
