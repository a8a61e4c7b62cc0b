--------------------------- MODULE AttemptProofs ---------------------------
(***************************************************************************)
(* What module Attempt promises, for every contract, every budget, every   *)
(* number of retries and of calls in a turn, whatever the outside does.    *)
(*                                                                         *)
(* The attempt is shown to implement the two specifications it is built    *)
(* on: its verdicts are those of module Verdicts, so what LawProofs proves *)
(* of them holds here (Laws below), and its spending is that of module     *)
(* BudgetLedger, whose bounds it obeys.  Its IInv adds what neither knows: *)
(* where the fiber can be (Control), what a reported budget still allows   *)
(* (Exhaustion), and where the end of the attempt comes from (Ending).     *)
(***************************************************************************)
EXTENDS Attempt, TLAPS

\* The steps that end an evaluation, or leave it where it is: the evaluators' answers and
\* failures, and the refusal of one.
Evaluated ==
  \/ RecordRefusal \/ CheckFails
  \/ \E usage \in 0..MaxUsage, status \in {"passed", "failed", "inconclusive"},
        cited \in Citations, claim \in Claims : VerifierAnswers(usage, status, cited, claim)
  \/ \E usage \in 0..MaxUsage : VerifierNeedsEvidence(usage)
  \/ \E retryable \in BOOLEAN : VerifierFails(retryable)
  \/ \E status \in {"passed", "failed", "inconclusive"}, cited \in Citations :
        CheckReturns(status, cited)

\* The final pass and what follows it: the browsing loop is over for good.
Closing ==
  \/ pc \in {"final", "pass", "settle", "unwinding", "timedOut", "tail", "returned"}
  \/ pc \in EvalPhases /\ eval.by = "runner"

\* A tool call of the turn is being dispatched.
InTurn == pc \in {"dispatch"} \cup ToolPhases \/ (pc \in EvalPhases /\ eval.by = "agent")

\* What the fiber has in hand where it stands.
Control ==
  /\ pc \in EvalPhases => eval # NoEval
  /\ InTurn => agent.turn > 0
  /\ agent.idleTurns = MaxIdleTurns => Closing
  /\ exit # "none" <=> pc \in {"unwinding", "timedOut", "tail", "returned"}
  /\ pc \in {"unwinding", "timedOut"} => exit # "ok"

\* A blocking budget that was reported leaves the browsing loop's gate closed.
Exhaustion ==
  outcome.exhausted # "none" => Closing \/ ~ CanStartModelCall("browser", budget, late)

\* Why a final pass is left out.
CutShortByError == outcome.cancellation \/ outcome.executionError

\* Where the end of the attempt comes from.
Ending ==
  /\ pc = "settle" \/ exit = "ok" =>
       CutShortByError \/ \A c \in Criteria : results[c].status # "pending"
  /\ pc = "returned" =>
       /\ exit = "interrupt" => outcome.cancellation
       /\ exit = "error" \/ outcome.mandatoryFailure => CutShortByError

IInv == FiberTypeOK /\ Control /\ Exhaustion /\ Ending

-----------------------------------------------------------------------------

(* The steps.                                                               *)

\* The evaluators' steps: all but the payload end an evaluation or leave it where it is.
LEMMA ByKind == Evaluators => Evaluated \/ CheckSavesPayload
BY DEF Evaluators, Evaluated

\* The accounting stays one, with a call counted or a call counted and charged.
LEMMA AccountTyped ==
  ASSUME NEW s \in BudgetStates, NEW role, NEW usage \in 0..MaxUsage
  PROVE  /\ RecordModelCall(s) \in BudgetStates
         /\ ChargeTokens(RecordModelCall(s), role, usage) \in BudgetStates
BY DEF RecordModelCall, ChargeTokens, BudgetStates

\* No call reopens the browsing loop's gate (budgets.ts: totals only grow).
LEMMA CallKeepsClosed ==
  ASSUME NEW s \in BudgetStates, NEW role, NEW usage \in 0..MaxUsage, NEW isLate \in BOOLEAN,
         ~ CanStartModelCall("browser", s, isLate)
  PROVE  /\ ~ CanStartModelCall("browser", RecordModelCall(s), isLate)
         /\ ~ CanStartModelCall("browser", ChargeTokens(RecordModelCall(s), role, usage), isLate)
BY BudgetsAssumption
   DEF CanStartModelCall, TokenCeiling, RecordModelCall, ChargeTokens, BudgetStates

\* Where the browsing loop may call, the verifier may: the reserve is its own.
LEMMA VerifierGateIsLast ==
  ASSUME NEW s \in BudgetStates, NEW isLate \in BOOLEAN,
         CanStartModelCall("browser", s, isLate)
  PROVE  CanStartModelCall("verifier", s, isLate)
BY BudgetsAssumption DEF CanStartModelCall, TokenCeiling, VerifierTokensLeft, BudgetStates

\* What they all have in common: where they leave the fiber and what they do not touch.
LEMMA EvaluatedLaw ==
  ASSUME FiberTypeOK, Evaluated
  PROVE  /\ UNCHANGED <<exit, evidenceVars, outsideVars, line, page, outcome>>
         /\ pc \in {"refused", "ask", "check"}
         /\ \/ pc' \in {pc, "announce"} /\ eval' = eval
            \/ pc' = "ending" /\ eval' = NoEval /\ eval.by = "agent"
         /\ \/ budget' = budget
            \/ \E usage \in 0..MaxUsage :
                 budget' = ChargeTokens(RecordModelCall(budget), "verifier", usage)
         /\ \E n \in 0..ModelCallRetries : agent' = [agent EXCEPT !.retries = n]
<1>1. agent = [agent EXCEPT !.retries = agent.retries] /\ agent.retries \in 0..ModelCallRetries
  BY DEF FiberTypeOK, AgentStates
<1>2. 0 \in 0..ModelCallRetries
  BY AttemptAssumption
<1>3. ASSUME NEW retryable \in BOOLEAN, VerifierFails(retryable)
      PROVE  \E n \in 0..ModelCallRetries : agent' = [agent EXCEPT !.retries = n]
  <2>1. \/ agent' = [agent EXCEPT !.retries = 0]
        \/ /\ agent' = [agent EXCEPT !.retries = agent.retries + 1]
           /\ agent.retries < ModelCallRetries
    BY <1>3 DEF VerifierFails, RetriesOver
  <2>2. agent.retries < ModelCallRetries => agent.retries + 1 \in 0..ModelCallRetries
    BY <1>1, AttemptAssumption
  <2> QED BY <1>2, <2>1, <2>2
<1>4. CASE RecordRefusal \/ CheckFails
  BY <1>1, <1>4 DEF RecordRefusal, CheckFails, Record
<1>5. CASE \E status \in {"passed", "failed", "inconclusive"}, cited \in Citations :
             CheckReturns(status, cited)
  BY <1>1, <1>5 DEF CheckReturns, Record
<1>6. CASE \E usage \in 0..MaxUsage, status \in {"passed", "failed", "inconclusive"},
              cited \in Citations, claim \in Claims : VerifierAnswers(usage, status, cited, claim)
  BY <1>2, <1>6 DEF VerifierAnswers, Record, RetriesOver
<1>7. CASE \E usage \in 0..MaxUsage : VerifierNeedsEvidence(usage)
  BY <1>2, <1>7 DEF VerifierNeedsEvidence, Record, RetriesOver
<1>8. CASE \E retryable \in BOOLEAN : VerifierFails(retryable)
  BY <1>3, <1>8 DEF VerifierFails, Record
<1> QED BY <1>4, <1>5, <1>6, <1>7, <1>8 DEF Evaluated

\* Every step of the attempt, sorted for the proofs.
LEMMA Steps ==
  ASSUME [Next]_vars
  PROVE  \/ OpenContext \/ ContextOpened \/ OpenContextFails \/ LeaveLoop \/ StartTurn
         \/ DispatchTool \/ JudgeByCode \/ AskVerifier \/ Settle \/ Unwound
         \/ SkipFinalPass \/ BeginFinalPass \/ FinalPassDone
         \/ FirstNavigationFails \/ HonourCancelAtLoopTop \/ RefuseTurn
         \/ CheckMisbound \/ RefuseVerifier \/ TimeoutReported
         \/ Tail
         \/ \E settled \in BOOLEAN : FirstNavigation(settled)
         \/ \E settled \in BOOLEAN : Navigate(settled)
         \/ Observe \/ Screenshot
         \/ ActNavigates \/ OtherToolEnd
         \/ ToolResultInvalid \/ Finish
         \/ \E usage \in 0..MaxUsage, calls \in 0..MaxTurnCalls : ModelAnswers(usage, calls)
         \/ \E retryable \in BOOLEAN : ModelFails(retryable)
         \/ DispatchUnknownTool
         \/ ActionStarted
         \/ ActionFinished
         \/ \E c \in Criteria : Check(c)
         \/ \E c \in Criteria : BeginVerification(c)
         \/ CheckpointCapture
         \/ CheckSavesPayload
         \/ VerificationFinished
         \/ Evaluated
         \/ CancelWins
         \/ \E how \in {"interrupt", "timeout"} : CutShort(how)
         \/ Outside
         \/ UNCHANGED vars
<1>1. CASE Browsing
  BY <1>1 DEF Browsing
<1>2. CASE Evaluators
  BY <1>2, ByKind
<1>3. CASE Harness
  <2>1. DeliverInterrupt \/ AttemptTimeout =>
          \E how \in {"interrupt", "timeout"} : CutShort(how)
    BY DEF DeliverInterrupt, AttemptTimeout
  <2>2. RecordRefusal => Evaluated
    BY DEF Evaluated
  <2> QED BY <1>3, <2>1, <2>2 DEF Harness
<1> QED BY <1>1, <1>2, <1>3 DEF Next

-----------------------------------------------------------------------------
(* The invariant, part by part.                                             *)

\* What is reported of the end of an attempt is typed.
LEMMA ReportsTyped ==
  ASSUME outcome \in Outcomes
  PROVE  /\ ReportError => outcome' \in Outcomes
         /\ ReportCancellation => outcome' \in Outcomes
         /\ ReportExhausted("attemptTimeout") => outcome' \in Outcomes
         /\ ReportExhausted(Denial(budget, late)) => outcome' \in Outcomes
<1>1. ReportError \/ ReportCancellation => outcome' \in Outcomes
  BY DEF ReportError, ReportCancellation, Outcomes
<1>2. ASSUME NEW kind \in {"attemptTimeout", "maxModelCalls", "maxTokens"}, ReportExhausted(kind)
      PROVE  outcome' \in Outcomes
  BY <1>2 DEF ReportExhausted, Outcomes
<1>3. Denial(budget, late) \in {"attemptTimeout", "maxModelCalls", "maxTokens"}
  BY DEF Denial
<1> QED BY <1>1, <1>2, <1>3

\* The fiber's state keeps its type: the counters stay within their bounds because of Control.
LEMMA TypesPreserved ==
  ASSUME FiberTypeOK, Control, [Next]_vars
  PROVE  FiberTypeOK'
<1>1. CASE OpenContext \/ ContextOpened \/ OpenContextFails \/ LeaveLoop \/ StartTurn
  BY <1>1
     DEF OpenContext, ContextOpened, OpenContextFails, LeaveLoop, StartTurn, evidenceVars,
         outsideVars, FiberTypeOK, Phases, BodyPhases, RacedPhases
<1>2. CASE DispatchTool \/ JudgeByCode \/ AskVerifier \/ Settle \/ Unwound
  BY <1>2
     DEF DispatchTool, JudgeByCode, AskVerifier, Settle, Unwound, evidenceVars, outsideVars,
         FiberTypeOK, Phases, BodyPhases, RacedPhases, ToolPhases, EvalPhases
<1>3. CASE SkipFinalPass \/ BeginFinalPass \/ FinalPassDone
  BY <1>3
     DEF SkipFinalPass, BeginFinalPass, FinalPassDone, evidenceVars, outsideVars, FiberTypeOK,
         Phases, BodyPhases
<1>4. CASE FirstNavigationFails \/ HonourCancelAtLoopTop \/ RefuseTurn
  <2>1. outcome' \in Outcomes
    BY <1>4, ReportsTyped DEF FirstNavigationFails, HonourCancelAtLoopTop, RefuseTurn, FiberTypeOK
  <2>2. pc' \in Phases
    BY <1>4 DEF FirstNavigationFails, HonourCancelAtLoopTop, RefuseTurn, Phases, BodyPhases
  <2>3. UNCHANGED <<exit, inventory, index, budget, outsideVars, agent, eval, line, page>>
    BY <1>4 DEF FirstNavigationFails, HonourCancelAtLoopTop, RefuseTurn, evidenceVars
  <2> QED BY <2>1, <2>2, <2>3 DEF FiberTypeOK, outsideVars
<1>5. CASE CheckMisbound \/ RefuseVerifier \/ TimeoutReported
  <2>1. outcome' \in Outcomes
    BY <1>5, ReportsTyped DEF CheckMisbound, RefuseVerifier, TimeoutReported, FiberTypeOK
  <2>2. pc' \in Phases /\ (exit' = exit \/ exit' = "interrupt")
    BY <1>5
       DEF CheckMisbound, RefuseVerifier, TimeoutReported, Phases, BodyPhases, RacedPhases,
           EvalPhases
  <2>3. UNCHANGED <<inventory, index, budget, outsideVars, agent, eval, line, page>>
    BY <1>5 DEF CheckMisbound, RefuseVerifier, TimeoutReported, evidenceVars
  <2> QED BY <2>1, <2>2, <2>3 DEF FiberTypeOK, outsideVars
<1>6. CASE Tail
  <2>1. TailOutcome(outcome) \in Outcomes
    BY DEF TailOutcome, FiberTypeOK, Outcomes
  <2> QED BY <1>6, <2>1 DEF Tail, evidenceVars, outsideVars, FiberTypeOK, Phases
<1>7. ASSUME NEW settled \in BOOLEAN, FirstNavigation(settled)
      PROVE  FiberTypeOK'
  BY <1>7 DEF FirstNavigation, evidenceVars, outsideVars, FiberTypeOK, Phases, BodyPhases
<1>8. ASSUME NEW settled \in BOOLEAN, Navigate(settled)
      PROVE  FiberTypeOK'
  BY <1>8
     DEF Navigate, ToolDone, evidenceVars, outsideVars, FiberTypeOK, Phases, BodyPhases,
         RacedPhases, ToolPhases
<1>9. CASE Observe \/ Screenshot
  <2>1. pc' \in Phases /\ page' \in [observed : BOOLEAN, settled : BOOLEAN]
    BY <1>9 DEF Observe, Screenshot, ToolDone, FiberTypeOK, Phases, BodyPhases, RacedPhases,
                ToolPhases
  <2>2. inventory' \in SUBSET Artifacts /\ index' \in SUBSET Artifacts
    BY <1>9, AttemptAssumption DEF Observe, Screenshot, SavePage, FiberTypeOK
  <2>3. UNCHANGED <<exit, budget, outsideVars, agent, eval, line, outcome>>
    BY <1>9 DEF Observe, Screenshot, ToolDone
  <2> QED BY <2>1, <2>2, <2>3 DEF FiberTypeOK, outsideVars
<1>10. CASE ActNavigates \/ OtherToolEnd
  <2>1. page' = [observed |-> FALSE, settled |-> FALSE] \/ page' = page
    BY <1>10 DEF ActNavigates, OtherToolEnd
  <2>2. page' \in [observed : BOOLEAN, settled : BOOLEAN]
    <3>1. page \in [observed : BOOLEAN, settled : BOOLEAN]
      BY DEF FiberTypeOK
    <3>2. [observed |-> FALSE, settled |-> FALSE] \in [observed : BOOLEAN, settled : BOOLEAN]
      OBVIOUS
    <3> QED BY <2>1, <3>1, <3>2
  <2>3. pc' \in Phases
    BY <1>10 DEF ActNavigates, OtherToolEnd, ToolDone, Phases, BodyPhases, RacedPhases, ToolPhases
  <2>4. UNCHANGED <<exit, inventory, index, budget, outsideVars, agent, eval, line, outcome>>
    BY <1>10 DEF ActNavigates, OtherToolEnd, ToolDone, evidenceVars
  <2> QED BY <2>2, <2>3, <2>4 DEF FiberTypeOK, outsideVars
<1>11. CASE ToolResultInvalid \/ Finish
  <2>1. agent' \in AgentStates /\ outcome' \in Outcomes
    BY <1>11, ReportsTyped DEF ToolResultInvalid, Finish, FiberTypeOK, AgentStates
  <2>2. pc' \in Phases
    BY <1>11 DEF ToolResultInvalid, Finish, ToolDone, Phases, BodyPhases, RacedPhases, ToolPhases
  <2>3. UNCHANGED <<exit, inventory, index, budget, outsideVars, eval, line, page>>
    BY <1>11 DEF ToolResultInvalid, Finish, ToolDone, evidenceVars
  <2> QED BY <2>1, <2>2, <2>3 DEF FiberTypeOK, outsideVars
<1>12. ASSUME NEW usage \in 0..MaxUsage, NEW calls \in 0..MaxTurnCalls, ModelAnswers(usage, calls)
      PROVE  FiberTypeOK'
  <2>1. budget' \in BudgetStates
    BY <1>12, AccountTyped DEF ModelAnswers, FiberTypeOK
  <2>2. agent.idleTurns + 1 \in 0..MaxIdleTurns /\ 0 \in 0..ModelCallRetries
    BY <1>12, AttemptAssumption
       DEF ModelAnswers, Control, Closing, FiberTypeOK, AgentStates, EvalPhases
  <2>3. agent \in AgentStates /\ outcome \in Outcomes
    BY DEF FiberTypeOK
  <2>4. /\ [agent EXCEPT !.turn = calls, !.idleTurns = 0, !.retries = 0] \in AgentStates
        /\ [agent EXCEPT !.idleTurns = agent.idleTurns + 1, !.retries = 0] \in AgentStates
    <3>1. 0 \in 0..MaxIdleTurns /\ calls \in 0..MaxTurnCalls
      BY AttemptAssumption
    <3> QED BY <2>2, <2>3, <3>1 DEF AgentStates
  <2>5. agent' \in AgentStates
    BY <1>12, <2>4 DEF ModelAnswers
  <2>6. outcome' \in Outcomes
    BY <1>12, <2>3 DEF ModelAnswers, ReportExhausted, Outcomes
  <2>7. pc' \in Phases /\ UNCHANGED <<exit, inventory, index, outsideVars, eval, line, page>>
    BY <1>12 DEF ModelAnswers, evidenceVars, Phases, BodyPhases
  <2> QED BY <2>1, <2>5, <2>6, <2>7 DEF FiberTypeOK, outsideVars
<1>13. ASSUME NEW retryable \in BOOLEAN, ModelFails(retryable)
      PROVE  FiberTypeOK'
  <2>1. budget' \in BudgetStates
    BY <1>13, AccountTyped, AttemptAssumption DEF ModelFails, FiberTypeOK
  <2>2. 0 \in 0..ModelCallRetries
    BY AttemptAssumption
  <2>3. agent \in AgentStates /\ outcome \in Outcomes
    BY DEF FiberTypeOK
  <2>4. /\ [agent EXCEPT !.retries = 0] \in AgentStates
        /\ agent.retries < ModelCallRetries =>
             [agent EXCEPT !.retries = agent.retries + 1] \in AgentStates
    BY <2>3, AttemptAssumption DEF AgentStates
  <2>5. agent' \in AgentStates
    BY <1>13, <2>4 DEF ModelFails, RetriesOver
  <2>6. outcome' \in Outcomes
    BY <1>13, <2>3 DEF ModelFails, ReportError, Outcomes
  <2>7. pc' \in Phases /\ UNCHANGED <<exit, inventory, index, outsideVars, eval, line, page>>
    BY <1>13 DEF ModelFails, evidenceVars, Phases, BodyPhases, RacedPhases
  <2> QED BY <2>1, <2>5, <2>6, <2>7 DEF FiberTypeOK, outsideVars
<1>14. CASE DispatchUnknownTool
  BY <1>14, AttemptAssumption
     DEF DispatchUnknownTool, AfterCall, evidenceVars, outsideVars, FiberTypeOK, AgentStates,
         Phases, BodyPhases, Control, InTurn
<1>15. CASE ActionStarted
  BY <1>15
     DEF ActionStarted, evidenceVars, outsideVars, FiberTypeOK, Phases, BodyPhases, RacedPhases,
         ToolPhases
<1>16. CASE ActionFinished
  <2>1. inventory' \in SUBSET Artifacts /\ index' \in SUBSET Artifacts
    BY <1>16, AttemptAssumption DEF ActionFinished, SavePage, evidenceVars, FiberTypeOK
  <2>2. agent' \in AgentStates /\ outcome' \in Outcomes
    BY <1>16, AttemptAssumption
       DEF ActionFinished, FiberTypeOK, AgentStates, Outcomes, Control, InTurn, ToolPhases
  <2>3. line' \in {"paired", "open", "broken"} /\ pc' \in Phases
    BY <1>16 DEF ActionFinished, AfterCall, FiberTypeOK, Phases, BodyPhases
  <2>4. UNCHANGED <<exit, budget, outsideVars, eval, page>>
    BY <1>16 DEF ActionFinished
  <2> QED BY <2>1, <2>2, <2>3, <2>4 DEF FiberTypeOK, outsideVars
<1>17. ASSUME NEW c \in Criteria, Check(c)
      PROVE  FiberTypeOK'
  BY <1>17
     DEF Check, evidenceVars, outsideVars, FiberTypeOK, Evals, Phases, BodyPhases, RacedPhases,
         EvalPhases
<1>18. ASSUME NEW c \in Criteria, BeginVerification(c)
      PROVE  FiberTypeOK'
  BY <1>18
     DEF BeginVerification, evidenceVars, outsideVars, FiberTypeOK, Evals, Phases, BodyPhases,
         RacedPhases, EvalPhases
<1>19. CASE CheckpointCapture
  <2>a. pc \in EvalPhases
    BY <1>19 DEF CheckpointCapture, EvalPhases
  <2>1. pc \in EvalPhases /\ eval \in Evals /\ eval # NoEval /\ outcome \in Outcomes
    BY <2>a DEF FiberTypeOK, Control
  <2>2. eval.of \in Criteria /\ [eval EXCEPT !.lost = TRUE] \in Evals
    BY <2>1 DEF Evals
  <2>3. [outcome EXCEPT !.mandatoryFailure = TRUE] \in Outcomes
    BY <2>1 DEF Outcomes
  <2>4. eval' \in Evals /\ outcome' \in Outcomes
    BY <1>19, <2>1, <2>2, <2>3 DEF CheckpointCapture
  <2>5. inventory' \in SUBSET Artifacts /\ index' \in SUBSET Artifacts
    BY <1>19, <2>2, AttemptAssumption DEF CheckpointCapture, FiberTypeOK, evidenceVars
  <2>6. UNCHANGED <<exit, budget, outsideVars, agent, line, page>> /\ pc' \in Phases
    BY <1>19 DEF CheckpointCapture, Phases, BodyPhases, RacedPhases, EvalPhases
  <2> QED BY <2>4, <2>5, <2>6 DEF FiberTypeOK, outsideVars
<1>20. CASE CheckSavesPayload
  <2>a. pc \in EvalPhases
    BY <1>20 DEF CheckSavesPayload, EvalPhases
  <2>1. pc \in EvalPhases /\ eval \in Evals /\ eval # NoEval /\ outcome \in Outcomes
    BY <2>a DEF FiberTypeOK, Control
  <2>2. eval.of \in Criteria /\ [eval EXCEPT !.lost = TRUE] \in Evals
    BY <2>1 DEF Evals
  <2>3. [outcome EXCEPT !.mandatoryFailure = TRUE] \in Outcomes
    BY <2>1 DEF Outcomes
  <2>4. eval' \in Evals /\ outcome' \in Outcomes
    BY <1>20, <2>1, <2>2, <2>3 DEF CheckSavesPayload
  <2>5. inventory' \in SUBSET Artifacts /\ index' \in SUBSET Artifacts
    BY <1>20, <2>2, AttemptAssumption DEF CheckSavesPayload, FiberTypeOK
  <2>6. UNCHANGED <<exit, budget, outsideVars, agent, line, page>> /\ pc' \in Phases
    BY <1>20, <2>1 DEF CheckSavesPayload, Phases, BodyPhases, RacedPhases
  <2> QED BY <2>4, <2>5, <2>6 DEF FiberTypeOK, outsideVars
<1>21. CASE VerificationFinished
  BY <1>21
     DEF VerificationFinished, evidenceVars, outsideVars, FiberTypeOK, Evals, Phases, BodyPhases,
         RacedPhases, ToolPhases
<1>22. CASE Evaluated
  BY <1>22, AccountTyped, EvaluatedLaw
     DEF evidenceVars, outsideVars, FiberTypeOK, AgentStates, Evals, Phases, BodyPhases,
         RacedPhases, ToolPhases, EvalPhases
<1>23. CASE CancelWins
  <2>1. budget' \in BudgetStates
    BY <1>23, AccountTyped, AttemptAssumption DEF CancelWins, FiberTypeOK
  <2>2. agent' \in AgentStates
    BY <1>23, AttemptAssumption DEF CancelWins, RetriesOver, FiberTypeOK, AgentStates
  <2>3. outcome' \in Outcomes
    BY <1>23 DEF CancelWins, ReportCancellation, FiberTypeOK, Outcomes
  <2>4. line' \in {"paired", "open", "broken"}
    BY <1>23 DEF CancelWins, CloseInterruptedAction, FiberTypeOK
  <2>5. /\ pc' \in Phases /\ eval' = NoEval
        /\ UNCHANGED <<exit, inventory, index, outsideVars, page>>
    BY <1>23 DEF CancelWins, evidenceVars, Phases, BodyPhases
  <2> QED BY <2>1, <2>2, <2>3, <2>4, <2>5 DEF FiberTypeOK, Evals, outsideVars
<1>24. ASSUME NEW how \in {"interrupt", "timeout"}, CutShort(how)
      PROVE  FiberTypeOK'
  BY <1>24, AttemptAssumption
     DEF CutShort, CloseInterruptedAction, RetriesOver, evidenceVars, outsideVars, FiberTypeOK,
         AgentStates, Evals, Phases
<1>25. CASE Outside
  <2>1. {late, overdue, cancelReq, interrupted}' \subseteq BOOLEAN
    BY <1>25 DEF Outside, RequestCancellation, Interrupt, RunClock, AttemptClock, outsideVars,
                 FiberTypeOK
  <2>2. UNCHANGED <<pc, exit, inventory, index, budget, agent, eval, line, page, outcome>>
    BY <1>25 DEF Outside, RequestCancellation, Interrupt, RunClock, AttemptClock, insideVars,
                 evidenceVars
  <2> QED BY <2>1, <2>2 DEF FiberTypeOK
<1>26. CASE UNCHANGED vars
  BY <1>26 DEF vars, FiberTypeOK
<1> QED BY <1>1, <1>2, <1>3, <1>4, <1>5, <1>6, <1>7, <1>8, <1>9, <1>10, <1>11, <1>12, <1>13,
           <1>14, <1>15, <1>16, <1>17, <1>18, <1>19, <1>20, <1>21, <1>22, <1>23, <1>24, <1>25,
           <1>26, Steps

\* The fiber always has in hand what its place calls for.
LEMMA ControlPreserved ==
  ASSUME FiberTypeOK, Control, [Next]_vars
  PROVE  Control'
<1>1. CASE OpenContext \/ ContextOpened \/ OpenContextFails \/ LeaveLoop \/ StartTurn
  BY <1>1
     DEF OpenContext, ContextOpened, OpenContextFails, LeaveLoop, StartTurn, MayBrowse, Control,
         InTurn, Closing, ToolPhases, EvalPhases
<1>2. CASE DispatchTool \/ JudgeByCode \/ AskVerifier \/ Settle \/ Unwound
  BY <1>2
     DEF DispatchTool, JudgeByCode, AskVerifier, Settle, Unwound, Control, InTurn, Closing,
         ToolPhases, EvalPhases
<1>3. CASE SkipFinalPass \/ BeginFinalPass \/ FinalPassDone
  BY <1>3
     DEF SkipFinalPass, BeginFinalPass, FinalPassDone, Control, InTurn, Closing, ToolPhases,
         EvalPhases
<1>4. CASE FirstNavigationFails \/ HonourCancelAtLoopTop \/ RefuseTurn
  BY <1>4
     DEF FirstNavigationFails, HonourCancelAtLoopTop, RefuseTurn, MayBrowse, Control, InTurn,
         Closing, ToolPhases, EvalPhases
<1>5. CASE CheckMisbound \/ RefuseVerifier \/ TimeoutReported
  BY <1>5
     DEF CheckMisbound, RefuseVerifier, TimeoutReported, Control, InTurn, Closing, ToolPhases,
         EvalPhases
<1>6. CASE Tail
  BY <1>6 DEF Tail, Control, InTurn, Closing, ToolPhases, EvalPhases
<1>7. ASSUME NEW settled \in BOOLEAN, FirstNavigation(settled)
      PROVE  Control'
  BY <1>7 DEF FirstNavigation, Control, InTurn, Closing, ToolPhases, EvalPhases
<1>8. ASSUME NEW settled \in BOOLEAN, Navigate(settled)
      PROVE  Control'
  BY <1>8 DEF Navigate, ToolDone, Control, InTurn, Closing, ToolPhases, EvalPhases
<1>9. CASE Observe \/ Screenshot
  BY <1>9 DEF Observe, Screenshot, ToolDone, Control, InTurn, Closing, ToolPhases, EvalPhases
<1>10. CASE ActNavigates \/ OtherToolEnd
  BY <1>10
     DEF ActNavigates, OtherToolEnd, ToolDone, Control, InTurn, Closing, ToolPhases, EvalPhases
<1>11. CASE ToolResultInvalid \/ Finish
  BY <1>11
     DEF ToolResultInvalid, Finish, ToolDone, Control, InTurn, Closing, FiberTypeOK, AgentStates,
         ToolPhases, EvalPhases
<1>12. ASSUME NEW usage \in 0..MaxUsage, NEW calls \in 0..MaxTurnCalls, ModelAnswers(usage, calls)
      PROVE  Control'
  <2>1. /\ pc' \in {"dispatch", "loop", "final"} /\ pc = "model" /\ exit' = exit
        /\ UNCHANGED eval
    BY <1>12 DEF ModelAnswers
  <2>2. /\ pc' = "dispatch" => agent'.turn > 0
        /\ pc' \in {"dispatch", "loop"} => agent'.idleTurns # MaxIdleTurns
    <3>1. \/ calls > 0 /\ agent' = [agent EXCEPT !.turn = calls, !.idleTurns = 0, !.retries = 0]
          \/ /\ pc' = "loop" /\ agent.idleTurns + 1 < MaxIdleTurns
             /\ agent' = [agent EXCEPT !.idleTurns = agent.idleTurns + 1, !.retries = 0]
          \/ pc' = "final"
      BY <1>12 DEF ModelAnswers
    <3>2. agent \in AgentStates
      BY DEF FiberTypeOK
    <3>3. \/ calls > 0 /\ agent'.turn = calls /\ agent'.idleTurns = 0
          \/ /\ pc' = "loop" /\ agent.idleTurns + 1 < MaxIdleTurns
             /\ agent'.idleTurns = agent.idleTurns + 1
          \/ pc' = "final"
      BY <3>1, <3>2 DEF AgentStates
    <3>4. MaxIdleTurns \in Nat \ {0} /\ agent.idleTurns \in Nat
      BY <3>2, AttemptAssumption DEF AgentStates
    <3>5. CASE calls > 0 /\ agent'.turn = calls /\ agent'.idleTurns = 0
      BY <3>4, <3>5
    <3>6. CASE /\ pc' = "loop" /\ agent.idleTurns + 1 < MaxIdleTurns
               /\ agent'.idleTurns = agent.idleTurns + 1
      BY <3>4, <3>6
    <3>7. CASE pc' = "final"
      BY <3>7
    <3> QED BY <3>3, <3>5, <3>6
  <2> QED BY <2>1, <2>2 DEF Control, InTurn, Closing, EvalPhases, ToolPhases
<1>13. ASSUME NEW retryable \in BOOLEAN, ModelFails(retryable)
      PROVE  Control'
  <2>1. /\ pc = "model" /\ UNCHANGED <<exit, eval>> /\ pc' \in {"model", "final"}
        /\ agent'.idleTurns = agent.idleTurns
    BY <1>13 DEF ModelFails, RetriesOver, FiberTypeOK, AgentStates
  <2> QED BY <2>1 DEF Control, InTurn, Closing, EvalPhases, ToolPhases
<1>14. CASE DispatchUnknownTool
  <2>1. /\ pc = "dispatch" /\ UNCHANGED <<exit, eval>> /\ pc' \in {"dispatch", "loop"}
        /\ agent' = [agent EXCEPT !.turn = agent.turn - 1]
        /\ pc' = "dispatch" => agent'.turn # 0
    BY <1>14 DEF DispatchUnknownTool, AfterCall
  <2>2. agent.turn \in Nat /\ agent.turn > 0 /\ agent'.turn = agent.turn - 1
        /\ agent'.idleTurns = agent.idleTurns
    BY <2>1 DEF Control, InTurn, FiberTypeOK, AgentStates
  <2>3. agent'.turn # 0 => agent'.turn > 0
    BY <2>2
  <2> QED BY <2>1, <2>3 DEF Control, InTurn, Closing, EvalPhases, ToolPhases
<1>15. CASE ActionStarted
  BY <1>15 DEF ActionStarted, Control, InTurn, Closing, ToolPhases, EvalPhases
<1>16. CASE ActionFinished
  BY <1>16
     DEF ActionFinished, AfterCall, Control, InTurn, Closing, FiberTypeOK, AgentStates,
         ToolPhases, EvalPhases
<1>17. ASSUME NEW c \in Criteria, Check(c)
      PROVE  Control'
  BY <1>17 DEF Check, Control, InTurn, Closing, ToolPhases, EvalPhases, NoEval
<1>18. ASSUME NEW c \in Criteria, BeginVerification(c)
      PROVE  Control'
  <2>1. /\ pc = "pass" /\ pc' = "capture" /\ UNCHANGED <<exit, agent>>
        /\ eval' = [of |-> c, by |-> "runner", lost |-> FALSE]
    BY <1>18 DEF BeginVerification
  <2>2. eval'.by = "runner" /\ eval' # NoEval
    BY <2>1 DEF NoEval
  <2> QED BY <2>1, <2>2 DEF Control, InTurn, Closing, EvalPhases, ToolPhases
<1>19. CASE CheckpointCapture
  BY <1>19
     DEF CheckpointCapture, Control, InTurn, Closing, FiberTypeOK, Evals, ToolPhases, EvalPhases,
         NoEval
<1>20. CASE CheckSavesPayload
  <2>1. pc = "check" /\ eval \in Evals /\ eval # NoEval /\ UNCHANGED <<pc, exit, agent>>
    BY <1>20 DEF CheckSavesPayload, FiberTypeOK, Control, EvalPhases
  <2>2. eval'.by = eval.by /\ eval' # NoEval
    BY <1>20, <2>1 DEF CheckSavesPayload, Evals, NoEval
  <2> QED BY <2>1, <2>2 DEF Control, InTurn, Closing
<1>21. CASE VerificationFinished
  BY <1>21 DEF VerificationFinished, Control, InTurn, Closing, ToolPhases, EvalPhases
<1>22. CASE Evaluated
  BY <1>22, EvaluatedLaw
     DEF Control, InTurn, Closing, FiberTypeOK, AgentStates, ToolPhases, EvalPhases
<1>23. CASE CancelWins
  BY <1>23 DEF CancelWins, Control, InTurn, Closing, RacedPhases, ToolPhases, EvalPhases
<1>24. ASSUME NEW how \in {"interrupt", "timeout"}, CutShort(how)
      PROVE  Control'
  BY <1>24 DEF CutShort, Control, InTurn, Closing, ToolPhases, EvalPhases
<1>25. CASE Outside
  BY <1>25
     DEF Outside, RequestCancellation, Interrupt, RunClock, AttemptClock, insideVars, Control,
         InTurn, Closing
<1>26. CASE UNCHANGED vars
  BY <1>26 DEF vars, Control, InTurn, Closing
<1> QED BY <1>1, <1>2, <1>3, <1>4, <1>5, <1>6, <1>7, <1>8, <1>9, <1>10, <1>11, <1>12, <1>13,
           <1>14, <1>15, <1>16, <1>17, <1>18, <1>19, <1>20, <1>21, <1>22, <1>23, <1>24, <1>25,
           <1>26, Steps

\* Nobody reaches the end of the body past a pending criterion but by a cancellation or an error.
LEMMA EndingPreserved ==
  ASSUME FiberTypeOK, Control, Ending, [Next]_vars
  PROVE  Ending'
<1>1. CASE OpenContext \/ ContextOpened \/ OpenContextFails \/ LeaveLoop \/ StartTurn
  BY <1>1
     DEF OpenContext, ContextOpened, OpenContextFails, LeaveLoop, StartTurn, verdictVars, Ending,
         CutShortByError
<1>2. CASE DispatchTool \/ JudgeByCode \/ AskVerifier \/ Settle \/ Unwound
  BY <1>2
     DEF DispatchTool, JudgeByCode, AskVerifier, Settle, Unwound, verdictVars, Ending,
         CutShortByError
<1>3. CASE SkipFinalPass \/ BeginFinalPass \/ FinalPassDone
  BY <1>3 DEF SkipFinalPass, BeginFinalPass, FinalPassDone, verdictVars, Ending, CutShortByError
<1>4. CASE FirstNavigationFails \/ HonourCancelAtLoopTop \/ RefuseTurn
  BY <1>4 DEF FirstNavigationFails, HonourCancelAtLoopTop, RefuseTurn, MayBrowse, Ending, Control
<1>5. CASE CheckMisbound \/ RefuseVerifier \/ TimeoutReported
  BY <1>5 DEF CheckMisbound, RefuseVerifier, TimeoutReported, Ending, Control
<1>6. CASE Tail
  BY <1>6 DEF Tail, TailOutcome, verdictVars, Ending, CutShortByError, FiberTypeOK, Outcomes
<1>7. ASSUME NEW settled \in BOOLEAN, FirstNavigation(settled)
      PROVE  Ending'
  BY <1>7 DEF FirstNavigation, Ending, Control
<1>8. ASSUME NEW settled \in BOOLEAN, Navigate(settled)
      PROVE  Ending'
  BY <1>8 DEF Navigate, ToolDone, verdictVars, Ending, CutShortByError
<1>9. CASE Observe \/ Screenshot
  BY <1>9 DEF Observe, Screenshot, ToolDone, verdictVars, Ending, CutShortByError
<1>10. CASE ActNavigates \/ OtherToolEnd
  BY <1>10 DEF ActNavigates, OtherToolEnd, ToolDone, Ending, Control
<1>11. CASE ToolResultInvalid \/ Finish
  BY <1>11 DEF ToolResultInvalid, Finish, ToolDone, Ending, Control
<1>12. ASSUME NEW usage \in 0..MaxUsage, NEW calls \in 0..MaxTurnCalls, ModelAnswers(usage, calls)
      PROVE  Ending'
  BY <1>12 DEF ModelAnswers, Ending, Control
<1>13. ASSUME NEW retryable \in BOOLEAN, ModelFails(retryable)
      PROVE  Ending'
  BY <1>13 DEF ModelFails, Ending, Control
<1>14. CASE DispatchUnknownTool
  BY <1>14 DEF DispatchUnknownTool, AfterCall, verdictVars, Ending, CutShortByError
<1>15. CASE ActionStarted
  BY <1>15 DEF ActionStarted, Ending, Control
<1>16. CASE ActionFinished
  BY <1>16 DEF ActionFinished, AfterCall, Ending, Control
<1>17. ASSUME NEW c \in Criteria, Check(c)
      PROVE  Ending'
  BY <1>17 DEF Check, Ending, Control
<1>18. ASSUME NEW c \in Criteria, BeginVerification(c)
      PROVE  Ending'
  BY <1>18 DEF BeginVerification, Ending, Control
<1>19. CASE CheckpointCapture
  BY <1>19 DEF CheckpointCapture, Ending, Control
<1>20. CASE CheckSavesPayload
  BY <1>20 DEF CheckSavesPayload, Ending, Control
<1>21. CASE VerificationFinished
  BY <1>21 DEF VerificationFinished, Ending, Control
<1>22. CASE Evaluated
  BY <1>22, EvaluatedLaw DEF Ending, Control
<1>23. CASE CancelWins
  BY <1>23 DEF CancelWins, ReportCancellation, Ending, CutShortByError
<1>24. ASSUME NEW how \in {"interrupt", "timeout"}, CutShort(how)
      PROVE  Ending'
  BY <1>24 DEF CutShort, Ending
<1>25. CASE Outside
  <2>1. UNCHANGED <<pc, exit, outcome, results>>
    BY <1>25
       DEF Outside, RequestCancellation, Interrupt, RunClock, AttemptClock, insideVars,
           verdictVars
  <2> QED BY <2>1 DEF Ending, CutShortByError
<1>26. CASE UNCHANGED vars
  BY <1>26 DEF vars, Ending, CutShortByError
<1> QED BY <1>1, <1>2, <1>3, <1>4, <1>5, <1>6, <1>7, <1>8, <1>9, <1>10, <1>11, <1>12, <1>13,
           <1>14, <1>15, <1>16, <1>17, <1>18, <1>19, <1>20, <1>21, <1>22, <1>23, <1>24, <1>25,
           <1>26, Steps

\* A reported budget keeps the gate of the browsing loop closed, or the loop is over.
LEMMA ExhaustionPreserved ==
  ASSUME FiberTypeOK, Control, Exhaustion, [Next]_vars
  PROVE  Exhaustion'
<1>1. CASE OpenContext \/ ContextOpened \/ OpenContextFails \/ LeaveLoop \/ StartTurn
  BY <1>1
     DEF OpenContext, ContextOpened, OpenContextFails, LeaveLoop, StartTurn, MayBrowse,
         outsideVars, Exhaustion, Closing, EvalPhases
<1>2. CASE DispatchTool \/ JudgeByCode \/ AskVerifier \/ Settle \/ Unwound
  BY <1>2
     DEF DispatchTool, JudgeByCode, AskVerifier, Settle, Unwound, outsideVars, Exhaustion,
         Closing, EvalPhases
<1>3. CASE SkipFinalPass \/ BeginFinalPass \/ FinalPassDone
  BY <1>3 DEF SkipFinalPass, BeginFinalPass, FinalPassDone, Exhaustion, Closing
<1>4. CASE FirstNavigationFails \/ HonourCancelAtLoopTop \/ RefuseTurn
  <2>1. pc' = "final"
    BY <1>4 DEF FirstNavigationFails, HonourCancelAtLoopTop, RefuseTurn
  <2> QED BY <2>1 DEF Exhaustion, Closing
<1>5. CASE CheckMisbound \/ RefuseVerifier \/ TimeoutReported
  BY <1>5, VerifierGateIsLast
     DEF CheckMisbound, RefuseVerifier, TimeoutReported, ReportError, outsideVars, Exhaustion,
         Closing, FiberTypeOK, Outcomes, EvalPhases
<1>6. CASE Tail
  BY <1>6 DEF Tail, Exhaustion, Closing
<1>7. ASSUME NEW settled \in BOOLEAN, FirstNavigation(settled)
      PROVE  Exhaustion'
  BY <1>7 DEF FirstNavigation, outsideVars, Exhaustion, Closing, EvalPhases
<1>8. ASSUME NEW settled \in BOOLEAN, Navigate(settled)
      PROVE  Exhaustion'
  BY <1>8 DEF Navigate, ToolDone, outsideVars, Exhaustion, Closing, EvalPhases
<1>9. CASE Observe \/ Screenshot
  BY <1>9 DEF Observe, Screenshot, ToolDone, outsideVars, Exhaustion, Closing, EvalPhases
<1>10. CASE ActNavigates \/ OtherToolEnd
  BY <1>10 DEF ActNavigates, OtherToolEnd, ToolDone, outsideVars, Exhaustion, Closing, EvalPhases
<1>11. CASE ToolResultInvalid \/ Finish
  BY <1>11 DEF ToolResultInvalid, Finish, ToolDone, outsideVars, Exhaustion, Closing, EvalPhases
<1>12. ASSUME NEW usage \in 0..MaxUsage, NEW calls \in 0..MaxTurnCalls, ModelAnswers(usage, calls)
      PROVE  Exhaustion'
  BY <1>12, CallKeepsClosed
     DEF ModelAnswers, outsideVars, Exhaustion, Closing, FiberTypeOK, EvalPhases
<1>13. ASSUME NEW retryable \in BOOLEAN, ModelFails(retryable)
      PROVE  Exhaustion'
  BY <1>13 DEF ModelFails, outsideVars, Exhaustion, Closing
<1>14. CASE DispatchUnknownTool
  BY <1>14 DEF DispatchUnknownTool, outsideVars, Exhaustion, Closing, EvalPhases
<1>15. CASE ActionStarted
  BY <1>15 DEF ActionStarted, outsideVars, Exhaustion, Closing, EvalPhases
<1>16. CASE ActionFinished
  BY <1>16 DEF ActionFinished, outsideVars, Exhaustion, Closing, EvalPhases
<1>17. ASSUME NEW c \in Criteria, Check(c)
      PROVE  Exhaustion'
  BY <1>17 DEF Check, outsideVars, Exhaustion, Closing, EvalPhases
<1>18. ASSUME NEW c \in Criteria, BeginVerification(c)
      PROVE  Exhaustion'
  BY <1>18 DEF BeginVerification, Exhaustion, Closing, EvalPhases
<1>19. CASE CheckpointCapture
  BY <1>19
     DEF CheckpointCapture, outsideVars, Exhaustion, Closing, FiberTypeOK, Evals, Outcomes,
         EvalPhases, NoEval
<1>20. CASE CheckSavesPayload
  BY <1>20
     DEF CheckSavesPayload, outsideVars, Exhaustion, Closing, FiberTypeOK, Evals, Outcomes, NoEval
<1>21. CASE VerificationFinished
  BY <1>21 DEF VerificationFinished, outsideVars, Exhaustion, Closing
<1>22. CASE Evaluated
  BY <1>22, CallKeepsClosed, EvaluatedLaw
     DEF outsideVars, Exhaustion, Closing, FiberTypeOK, EvalPhases
<1>23. CASE CancelWins
  BY <1>23 DEF CancelWins, Exhaustion, Closing
<1>24. ASSUME NEW how \in {"interrupt", "timeout"}, CutShort(how)
      PROVE  Exhaustion'
  BY <1>24 DEF CutShort, Exhaustion, Closing
<1>25. CASE Outside
  <2>1. UNCHANGED <<pc, outcome, eval, budget>> /\ late' \in {late, TRUE}
    BY <1>25 DEF Outside, RequestCancellation, Interrupt, RunClock, AttemptClock, insideVars
  <2> QED BY <2>1 DEF Exhaustion, Closing, CanStartModelCall
<1>26. CASE UNCHANGED vars
  BY <1>26 DEF vars, Exhaustion, Closing
<1> QED BY <1>1, <1>2, <1>3, <1>4, <1>5, <1>6, <1>7, <1>8, <1>9, <1>10, <1>11, <1>12, <1>13,
           <1>14, <1>15, <1>16, <1>17, <1>18, <1>19, <1>20, <1>21, <1>22, <1>23, <1>24, <1>25,
           <1>26, Steps

-----------------------------------------------------------------------------
(* The verdicts are those of module Verdicts.                               *)

Laws == INSTANCE LawProofs
          WITH call <- IF pc = "model" THEN "browser" ELSE IF pc = "ask" THEN "verifier" ELSE "none"

\* The law is one: module Verdicts is instantiated with the constants it was written for.
LEMMA SameLaw ==
  \A proposed, current, known, facts, lost :
    V!Adjudicate(proposed, current, known, facts, lost) =
      Adjudicate(proposed, current, known, facts, lost)
<1>1. \A r, reason : V!RecordDowngrade(r, reason) = RecordDowngrade(r, reason)
  BY DEF V!RecordDowngrade, RecordDowngrade
<1>2. \A r, known : V!EnforceEvidenceIntegrity(r, known) = EnforceEvidenceIntegrity(r, known)
  BY <1>1 DEF V!EnforceEvidenceIntegrity, EnforceEvidenceIntegrity
<1>3. \A facts : V!ClassifyAbsence(facts) = ClassifyAbsence(facts)
  BY DEF V!ClassifyAbsence, ClassifyAbsence
<1>4. \A r, facts : V!EnforceAbsenceRule(r, facts) = EnforceAbsenceRule(r, facts)
  BY <1>1, <1>3 DEF V!EnforceAbsenceRule, EnforceAbsenceRule, V!NoFacts, NoFacts
<1>5. \A r, lost : V!EnforceEvidencePersistence(r, lost) = EnforceEvidencePersistence(r, lost)
  BY <1>1 DEF V!EnforceEvidencePersistence, EnforceEvidencePersistence
<1>6. \A old, new : V!AdmitVerdict(old, new) = AdmitVerdict(old, new)
  BY DEF V!AdmitVerdict, AdmitVerdict, V!IsTerminal, IsTerminal, V!Severity, Severity
<1> QED BY <1>2, <1>4, <1>5, <1>6 DEF V!Adjudicate, Adjudicate

\* What an evaluator or a code check answers is a proposal of module Verdicts.
LEMMA AnswersAreProposals ==
  ASSUME NEW status \in Statuses \ {"pending"}, NEW cited \in SUBSET Artifacts,
         NEW claim \in AbsenceClaims
  PROVE  Answer(status, cited, claim) \in V!Proposals
BY DEF Answer, V!Proposals, V!Statuses, V!AbsenceClaims, Statuses, AbsenceClaims

\* The verifier's own screening of an answer gives a proposal again.
LEMMA ScreenedAnswersAreProposals ==
  ASSUME NEW p \in V!Proposals, NEW known \in SUBSET Artifacts
  PROVE  ScreenProposal(p, known) \in V!Proposals
<1> DEFINE checked == EnforceEvidenceIntegrity(p, known)
<1>1. [p EXCEPT !.evidence = @ \cap known] \in V!Proposals
  BY DEF V!Proposals
<1>2. ASSUME NEW q \in V!Proposals,
             NEW reason \in {"rejected-evidence", "absence-uncertain-navigation"}
      PROVE  RecordDowngrade(q, reason) \in V!Proposals
  BY DEF RecordDowngrade, V!Proposals, V!Statuses
<1>3. checked \in V!Proposals
  <2>1. \/ checked = p
        \/ checked = RecordDowngrade(p, "rejected-evidence")
        \/ checked = RecordDowngrade([p EXCEPT !.evidence = @ \cap known], "rejected-evidence")
    BY DEF EnforceEvidenceIntegrity
  <2> HIDE DEF checked
  <2> QED BY <1>1, <1>2, <2>1
<1> HIDE DEF checked
<1>4. [checked EXCEPT !.absence = "uncertain-navigation"] \in V!Proposals
  BY <1>3 DEF V!Proposals, V!AbsenceClaims
<1>5. \/ ScreenProposal(p, known) = checked
      \/ ScreenProposal(p, known) = [checked EXCEPT !.absence = "uncertain-navigation"]
      \/ ScreenProposal(p, known) =
           RecordDowngrade([checked EXCEPT !.absence = "uncertain-navigation"],
                           "absence-uncertain-navigation")
  BY DEF checked, ScreenProposal, EnforceAbsenceRule, ClassifyAbsence, NoFacts
<1> QED BY <1>2, <1>3, <1>4, <1>5

\* An evaluation that records a proposal is the abstract evaluation of its criterion.
LEMMA RecordImplements ==
  ASSUME FiberTypeOK, eval # NoEval, NEW p \in V!Proposals, Record(p), UNCHANGED <<inventory, page>>
  PROVE  V!Next
<1>1. eval.of \in Criteria /\ eval.lost \in BOOLEAN
  BY DEF FiberTypeOK, Evals
<1>2. V!Record(eval.of, p, eval.lost)
  BY SameLaw DEF Record, V!Record, V!AbsenceFacts
<1>3. V!Evaluate(eval.of)
  BY <1>1, <1>2 DEF V!Evaluate
<1> QED BY <1>1, <1>3 DEF V!Next

\* Whatever the browser's tools do to the page and to the inventory is the abstract browsing.
LEMMA BrowsingImplements ==
  ASSUME FiberTypeOK', UNCHANGED <<results, unsaved>>, inventory \subseteq inventory'
  PROVE  V!Next
<1>1. inventory' \in SUBSET Artifacts /\ inventory' = inventory \cup inventory'
  BY DEF FiberTypeOK
<1>2. V!Browse(inventory')
  BY <1>1 DEF FiberTypeOK, V!Browse, V!PageStates
<1> QED BY <1>1, <1>2 DEF V!Next

\* Every step of the attempt is a step of module Verdicts, or leaves the verdicts alone.
LEMMA VerdictsStep ==
  ASSUME FiberTypeOK, FiberTypeOK', Control, [Next]_vars
  PROVE  [V!Next]_(V!vars)
<1>1. CASE OpenContext \/ ContextOpened \/ OpenContextFails \/ LeaveLoop \/ StartTurn
  BY <1>1
     DEF OpenContext, ContextOpened, OpenContextFails, LeaveLoop, StartTurn, verdictVars,
         evidenceVars, V!vars
<1>2. CASE DispatchTool \/ JudgeByCode \/ AskVerifier \/ Settle \/ Unwound
  BY <1>2
     DEF DispatchTool, JudgeByCode, AskVerifier, Settle, Unwound, verdictVars, evidenceVars,
         V!vars
<1>3. CASE SkipFinalPass \/ BeginFinalPass \/ FinalPassDone
  BY <1>3 DEF SkipFinalPass, BeginFinalPass, FinalPassDone, verdictVars, evidenceVars, V!vars
<1>4. CASE FirstNavigationFails \/ HonourCancelAtLoopTop \/ RefuseTurn
  BY <1>4
     DEF FirstNavigationFails, HonourCancelAtLoopTop, RefuseTurn, verdictVars, evidenceVars,
         V!vars
<1>5. CASE CheckMisbound \/ RefuseVerifier \/ TimeoutReported
  BY <1>5 DEF CheckMisbound, RefuseVerifier, TimeoutReported, verdictVars, evidenceVars, V!vars
<1>6. CASE Tail
  BY <1>6 DEF Tail, verdictVars, evidenceVars, V!vars
<1>7. ASSUME NEW settled \in BOOLEAN, FirstNavigation(settled)
      PROVE  V!Next
  <2>1. UNCHANGED <<results, unsaved, inventory>>
    BY <1>7 DEF FirstNavigation, verdictVars, evidenceVars
  <2> QED BY <2>1, BrowsingImplements
<1>8. ASSUME NEW settled \in BOOLEAN, Navigate(settled)
      PROVE  V!Next
  <2>1. UNCHANGED <<results, unsaved, inventory>>
    BY <1>8 DEF Navigate, ToolDone, verdictVars, evidenceVars
  <2> QED BY <2>1, BrowsingImplements
<1>9. CASE Observe \/ Screenshot
  <2>1. UNCHANGED <<results, unsaved>> /\ inventory' \in {inventory, inventory \cup {Page}}
    BY <1>9 DEF Observe, Screenshot, ToolDone, SavePage, verdictVars
  <2> QED BY <2>1, AttemptAssumption, BrowsingImplements
<1>10. CASE ActNavigates \/ OtherToolEnd
  <2>1. UNCHANGED <<results, unsaved, inventory>>
    BY <1>10 DEF ActNavigates, OtherToolEnd, ToolDone, verdictVars, evidenceVars
  <2> QED BY <2>1, BrowsingImplements
<1>11. CASE ToolResultInvalid \/ Finish
  BY <1>11 DEF ToolResultInvalid, Finish, ToolDone, verdictVars, evidenceVars, V!vars
<1>12. ASSUME NEW usage \in 0..MaxUsage, NEW calls \in 0..MaxTurnCalls, ModelAnswers(usage, calls)
      PROVE  [V!Next]_(V!vars)
  BY <1>12 DEF ModelAnswers, verdictVars, evidenceVars, V!vars
<1>13. ASSUME NEW retryable \in BOOLEAN, ModelFails(retryable)
      PROVE  [V!Next]_(V!vars)
  BY <1>13 DEF ModelFails, verdictVars, evidenceVars, V!vars
<1>14. CASE DispatchUnknownTool
  BY <1>14 DEF DispatchUnknownTool, verdictVars, evidenceVars, V!vars
<1>15. CASE ActionStarted
  BY <1>15 DEF ActionStarted, verdictVars, evidenceVars, V!vars
<1>16. CASE ActionFinished
  <2>1. UNCHANGED <<results, unsaved>> /\ inventory' \in {inventory, inventory \cup {Page}}
    BY <1>16 DEF ActionFinished, SavePage, verdictVars, evidenceVars
  <2> QED BY <2>1, AttemptAssumption, BrowsingImplements
<1>17. ASSUME NEW c \in Criteria, Check(c)
      PROVE  [V!Next]_(V!vars)
  BY <1>17 DEF Check, verdictVars, evidenceVars, V!vars
<1>18. ASSUME NEW c \in Criteria, BeginVerification(c)
      PROVE  [V!Next]_(V!vars)
  BY <1>18 DEF BeginVerification, verdictVars, evidenceVars, V!vars
<1>19. CASE CheckpointCapture
  <2>1. UNCHANGED <<results, unsaved>> /\ inventory' \in {inventory, inventory \cup {eval.of}}
    BY <1>19 DEF CheckpointCapture, verdictVars, evidenceVars
  <2>2. eval.of \in Artifacts
    <3>1. pc \in EvalPhases
      BY <1>19 DEF CheckpointCapture, EvalPhases
    <3> QED BY <3>1, AttemptAssumption DEF FiberTypeOK, Evals, Control
  <2> QED BY <2>1, <2>2, BrowsingImplements
<1>20. CASE CheckSavesPayload
  <2>1. UNCHANGED <<results, unsaved>> /\ inventory' \in {inventory, inventory \cup {eval.of}}
    BY <1>20 DEF CheckSavesPayload, verdictVars
  <2>2. eval.of \in Artifacts
    <3>1. pc \in EvalPhases
      BY <1>20 DEF CheckSavesPayload, EvalPhases
    <3> QED BY <3>1, AttemptAssumption DEF FiberTypeOK, Evals, Control
  <2> QED BY <2>1, <2>2, BrowsingImplements
<1>21. CASE VerificationFinished
  BY <1>21 DEF VerificationFinished, verdictVars, evidenceVars, V!vars
<1>22. CASE Evaluated
  <2>1. eval # NoEval /\ index \in SUBSET Artifacts
    <3>1. pc \in EvalPhases
      BY <1>22, EvaluatedLaw DEF EvalPhases
    <3> QED BY <3>1 DEF FiberTypeOK, Control
  <2>2. UNCHANGED <<inventory, page>>
    BY <1>22, EvaluatedLaw DEF evidenceVars
  <2>3. ASSUME NEW status \in Statuses \ {"pending"}, NEW cited \in SUBSET Artifacts,
               NEW claim \in AbsenceClaims, Record(Answer(status, cited, claim))
        PROVE  V!Next
    BY <2>1, <2>2, <2>3, AnswersAreProposals, RecordImplements
  <2>4. CASE RecordRefusal \/ CheckFails
    <3>1. PICK status \in {"error", "inconclusive"} : Record(Answer(status, {}, "none"))
      BY <2>4 DEF RecordRefusal, CheckFails
    <3> QED BY <2>3, <3>1 DEF Statuses, AbsenceClaims
  <2>5. ASSUME NEW usage \in 0..MaxUsage, NEW status \in {"passed", "failed", "inconclusive"},
               NEW cited \in Citations, NEW claim \in Claims,
               VerifierAnswers(usage, status, cited, claim)
        PROVE  V!Next
    <3>1. Record(ScreenProposal(Answer(status, cited, claim), index))
      BY <2>5 DEF VerifierAnswers
    <3>2. Answer(status, cited, claim) \in V!Proposals
      <4>1. /\ status \in Statuses \ {"pending"} /\ cited \in SUBSET Artifacts
            /\ claim \in AbsenceClaims
        BY AttemptAssumption DEF Statuses
      <4> QED BY <4>1, AnswersAreProposals
    <3>3. ScreenProposal(Answer(status, cited, claim), index) \in V!Proposals
      BY <2>1, <3>2, ScreenedAnswersAreProposals
    <3> QED BY <2>1, <2>2, <3>1, <3>3, RecordImplements
  <2>6. ASSUME NEW usage \in 0..MaxUsage, VerifierNeedsEvidence(usage)
        PROVE  V!Next \/ UNCHANGED V!vars
    <3>1. Record(Answer("inconclusive", {}, "none")) \/ UNCHANGED verdictVars
      BY <2>6 DEF VerifierNeedsEvidence
    <3> QED BY <2>2, <2>3, <3>1 DEF Statuses, AbsenceClaims, verdictVars, V!vars
  <2>7. ASSUME NEW retryable \in BOOLEAN, VerifierFails(retryable)
        PROVE  V!Next \/ UNCHANGED V!vars
    <3>1. Record(Answer("error", {}, "none")) \/ UNCHANGED verdictVars
      BY <2>7 DEF VerifierFails
    <3> QED BY <2>2, <2>3, <3>1 DEF Statuses, AbsenceClaims, verdictVars, V!vars
  <2>8. ASSUME NEW status \in {"passed", "failed", "inconclusive"}, NEW cited \in Citations,
               CheckReturns(status, cited)
        PROVE  V!Next
    <3>1. status \in Statuses \ {"pending"} /\ cited \in SUBSET Artifacts
      BY AttemptAssumption DEF Statuses
    <3>2. Record(Answer(status, cited, "none"))
      BY <2>8 DEF CheckReturns
    <3> QED BY <2>3, <3>1, <3>2 DEF AbsenceClaims
  <2> QED BY <1>22, <2>4, <2>5, <2>6, <2>7, <2>8 DEF Evaluated
<1>23. CASE CancelWins
  BY <1>23 DEF CancelWins, verdictVars, evidenceVars, V!vars
<1>24. ASSUME NEW how \in {"interrupt", "timeout"}, CutShort(how)
      PROVE  [V!Next]_(V!vars)
  BY <1>24 DEF CutShort, verdictVars, evidenceVars, V!vars
<1>25. CASE Outside
  BY <1>25
     DEF Outside, RequestCancellation, Interrupt, RunClock, AttemptClock, insideVars, verdictVars,
         evidenceVars, V!vars
<1>26. CASE UNCHANGED vars
  BY <1>26 DEF vars, V!vars
<1> QED BY <1>1, <1>2, <1>3, <1>4, <1>5, <1>6, <1>7, <1>8, <1>9, <1>10, <1>11, <1>12, <1>13,
           <1>14, <1>15, <1>16, <1>17, <1>18, <1>19, <1>20, <1>21, <1>22, <1>23, <1>24, <1>25,
           <1>26, Steps

-----------------------------------------------------------------------------
(* The spending is that of module BudgetLedger.                             *)

\* The gate and the accounting of module BudgetLedger are those of module Budgets.
LEMMA SameBudgets ==
  /\ \A role, state, isLate :
       L!CanStartModelCall(role, state, isLate) = CanStartModelCall(role, state, isLate)
  /\ \A state : L!RecordModelCall(state) = RecordModelCall(state)
  /\ \A state, role, usage : L!ChargeTokens(state, role, usage) = ChargeTokens(state, role, usage)
  /\ L!MakeBudgetState = MakeBudgetState
BY DEF L!CanStartModelCall, CanStartModelCall, L!TokenCeiling, TokenCeiling, L!VerifierTokensLeft,
       VerifierTokensLeft, L!RecordModelCall, RecordModelCall, L!ChargeTokens, ChargeTokens,
       L!MakeBudgetState, MakeBudgetState

\* Every step of the attempt is a step of the ledger, or leaves it alone.
LEMMA LedgerStep ==
  ASSUME [Next]_vars
  PROVE  [L!LedgerNext]_(L!ledgerVars)
<1>1. CASE OpenContext \/ ContextOpened \/ OpenContextFails \/ LeaveLoop \/ StartTurn
  <2>1. CASE StartTurn
    <3>1. /\ pc = "loop" /\ pc' = "model" /\ UNCHANGED <<budget, late>>
          /\ CanStartModelCall("browser", budget, late)
      BY <2>1 DEF StartTurn, MayBrowse, outsideVars
    <3>2. L!StartCall("browser")
      BY <3>1, SameBudgets DEF L!StartCall
    <3> QED BY <3>2 DEF L!LedgerNext, L!Roles
  <2>2. CASE OpenContext \/ ContextOpened \/ OpenContextFails \/ LeaveLoop
    BY <2>2 DEF OpenContext, ContextOpened, OpenContextFails, LeaveLoop, outsideVars, L!ledgerVars
  <2> QED BY <1>1, <2>1, <2>2
<1>2. CASE DispatchTool \/ JudgeByCode \/ AskVerifier \/ Settle \/ Unwound
  <2>1. CASE AskVerifier
    <3>1. /\ pc = "judge" /\ pc' = "ask" /\ UNCHANGED <<budget, late>>
          /\ CanStartModelCall("verifier", budget, late)
      BY <2>1 DEF AskVerifier, outsideVars
    <3>2. L!StartCall("verifier")
      BY <3>1, SameBudgets DEF L!StartCall
    <3> QED BY <3>2 DEF L!LedgerNext, L!Roles
  <2>2. CASE DispatchTool \/ JudgeByCode \/ Settle \/ Unwound
    BY <2>2 DEF DispatchTool, JudgeByCode, Settle, Unwound, outsideVars, L!ledgerVars
  <2> QED BY <1>2, <2>1, <2>2
<1>3. CASE SkipFinalPass \/ BeginFinalPass \/ FinalPassDone
  BY <1>3 DEF SkipFinalPass, BeginFinalPass, FinalPassDone, outsideVars, L!ledgerVars
<1>4. CASE FirstNavigationFails \/ HonourCancelAtLoopTop \/ RefuseTurn
  BY <1>4
     DEF FirstNavigationFails, HonourCancelAtLoopTop, RefuseTurn, MayBrowse, outsideVars,
         L!ledgerVars
<1>5. CASE CheckMisbound \/ RefuseVerifier \/ TimeoutReported
  BY <1>5 DEF CheckMisbound, RefuseVerifier, TimeoutReported, outsideVars, L!ledgerVars
<1>6. CASE Tail
  BY <1>6 DEF Tail, outsideVars, L!ledgerVars
<1>7. ASSUME NEW settled \in BOOLEAN, FirstNavigation(settled)
      PROVE  [L!LedgerNext]_(L!ledgerVars)
  BY <1>7 DEF FirstNavigation, outsideVars, L!ledgerVars
<1>8. ASSUME NEW settled \in BOOLEAN, Navigate(settled)
      PROVE  [L!LedgerNext]_(L!ledgerVars)
  BY <1>8 DEF Navigate, ToolDone, outsideVars, L!ledgerVars
<1>9. CASE Observe \/ Screenshot
  BY <1>9 DEF Observe, Screenshot, ToolDone, outsideVars, L!ledgerVars
<1>10. CASE ActNavigates \/ OtherToolEnd
  BY <1>10 DEF ActNavigates, OtherToolEnd, ToolDone, outsideVars, L!ledgerVars
<1>11. CASE ToolResultInvalid \/ Finish
  BY <1>11 DEF ToolResultInvalid, Finish, ToolDone, outsideVars, L!ledgerVars
<1>12. ASSUME NEW usage \in 0..MaxUsage, NEW calls \in 0..MaxTurnCalls, ModelAnswers(usage, calls)
      PROVE  [L!LedgerNext]_(L!ledgerVars)
  <2>1. /\ pc = "model" /\ pc' \in {"dispatch", "loop", "final"} /\ UNCHANGED late
        /\ budget' = ChargeTokens(RecordModelCall(budget), "browser", usage)
    BY <1>12 DEF ModelAnswers, outsideVars
  <2>2. L!CallAnswered(usage)
    BY <2>1, SameBudgets DEF L!CallAnswered
  <2> QED BY <2>2 DEF L!LedgerNext
<1>13. ASSUME NEW retryable \in BOOLEAN, ModelFails(retryable)
      PROVE  [L!LedgerNext]_(L!ledgerVars)
  <2>1. /\ pc = "model" /\ UNCHANGED late
        /\ \/ UNCHANGED <<pc, budget>>
           \/ pc' = "final" /\ budget' = RecordModelCall(budget)
    BY <1>13 DEF ModelFails, outsideVars
  <2>2. CASE UNCHANGED <<pc, budget>>
    BY <2>1, <2>2 DEF L!ledgerVars
  <2>3. CASE pc' = "final" /\ budget' = RecordModelCall(budget)
    <3>1. L!CallAbandoned
      BY <2>1, <2>3, SameBudgets DEF L!CallAbandoned
    <3> QED BY <3>1 DEF L!LedgerNext
  <2> QED BY <2>1, <2>2, <2>3
<1>14. CASE DispatchUnknownTool
  BY <1>14 DEF DispatchUnknownTool, AfterCall, outsideVars, L!ledgerVars
<1>15. CASE ActionStarted
  BY <1>15 DEF ActionStarted, outsideVars, L!ledgerVars
<1>16. CASE ActionFinished
  BY <1>16 DEF ActionFinished, AfterCall, outsideVars, L!ledgerVars
<1>17. ASSUME NEW c \in Criteria, Check(c)
      PROVE  [L!LedgerNext]_(L!ledgerVars)
  BY <1>17 DEF Check, outsideVars, L!ledgerVars
<1>18. ASSUME NEW c \in Criteria, BeginVerification(c)
      PROVE  [L!LedgerNext]_(L!ledgerVars)
  BY <1>18 DEF BeginVerification, outsideVars, L!ledgerVars
<1>19. CASE CheckpointCapture
  BY <1>19 DEF CheckpointCapture, outsideVars, L!ledgerVars
<1>20. CASE CheckSavesPayload
  BY <1>20 DEF CheckSavesPayload, outsideVars, L!ledgerVars
<1>21. CASE VerificationFinished
  BY <1>21 DEF VerificationFinished, outsideVars, L!ledgerVars
<1>22. CASE Evaluated
  <2>1. CASE RecordRefusal \/ CheckFails
    BY <2>1 DEF RecordRefusal, CheckFails, Record, outsideVars, L!ledgerVars
  <2>2. CASE \E status \in {"passed", "failed", "inconclusive"}, cited \in Citations :
               CheckReturns(status, cited)
    BY <2>2 DEF CheckReturns, Record, outsideVars, L!ledgerVars
  <2>3. ASSUME NEW usage \in 0..MaxUsage, pc = "ask", pc' \in {"announce", "ending"},
               UNCHANGED late,
               budget' = ChargeTokens(RecordModelCall(budget), "verifier", usage)
        PROVE  L!LedgerNext
    <3>1. L!CallAnswered(usage)
      BY <2>3, SameBudgets DEF L!CallAnswered
    <3> QED BY <3>1 DEF L!LedgerNext
  <2>4. ASSUME NEW usage \in 0..MaxUsage, NEW status \in {"passed", "failed", "inconclusive"},
               NEW cited \in Citations, NEW claim \in Claims,
               VerifierAnswers(usage, status, cited, claim)
        PROVE  L!LedgerNext
    BY <2>3, <2>4 DEF VerifierAnswers, Record, outsideVars
  <2>5. ASSUME NEW usage \in 0..MaxUsage, VerifierNeedsEvidence(usage)
        PROVE  L!LedgerNext
    BY <2>3, <2>5 DEF VerifierNeedsEvidence, Record, outsideVars
  <2>6. ASSUME NEW retryable \in BOOLEAN, VerifierFails(retryable)
        PROVE  [L!LedgerNext]_(L!ledgerVars)
    <3>1. pc = "ask" /\ pc' \in {"ask", "announce"} /\ UNCHANGED <<budget, late>>
      BY <2>6 DEF VerifierFails, Record, outsideVars
    <3>2. CASE pc' = "ask"
      BY <3>1, <3>2 DEF L!ledgerVars
    <3>3. CASE pc' = "announce"
      <4>1. L!CallAbandoned
        BY <3>1, <3>3 DEF L!CallAbandoned
      <4> QED BY <4>1 DEF L!LedgerNext
    <3> QED BY <3>1, <3>2, <3>3
  <2> QED BY <1>22, <2>1, <2>2, <2>4, <2>5, <2>6 DEF Evaluated
<1>23. CASE CancelWins
  <2>1. /\ pc' = "final" /\ UNCHANGED late
        /\ \/ UNCHANGED budget
           \/ pc = "model" /\ budget' = RecordModelCall(budget)
    BY <1>23 DEF CancelWins, outsideVars
  <2>2. CASE pc \in {"model", "ask"}
    <3>1. L!CallAbandoned
      BY <2>1, <2>2, SameBudgets DEF L!CallAbandoned
    <3> QED BY <3>1 DEF L!LedgerNext
  <2>3. CASE pc \notin {"model", "ask"}
    BY <2>1, <2>3 DEF L!ledgerVars
  <2> QED BY <2>2, <2>3
<1>24. ASSUME NEW how \in {"interrupt", "timeout"}, CutShort(how)
      PROVE  [L!LedgerNext]_(L!ledgerVars)
  <2>1. /\ pc' = "unwinding" /\ UNCHANGED late
        /\ \/ UNCHANGED budget
           \/ pc = "model" /\ budget' = RecordModelCall(budget)
    BY <1>24 DEF CutShort, outsideVars
  <2>2. CASE pc \in {"model", "ask"}
    <3>1. L!CallAbandoned
      BY <2>1, <2>2, SameBudgets DEF L!CallAbandoned
    <3> QED BY <3>1 DEF L!LedgerNext
  <2>3. CASE pc \notin {"model", "ask"}
    BY <2>1, <2>3 DEF L!ledgerVars
  <2> QED BY <2>2, <2>3
<1>25. CASE Outside
  <2>1. CASE RunClock
    <3>1. L!ClockPassesDeadline
      BY <2>1 DEF RunClock, insideVars, L!ClockPassesDeadline
    <3> QED BY <3>1 DEF L!LedgerNext
  <2>2. CASE RequestCancellation \/ Interrupt \/ AttemptClock
    BY <2>2 DEF RequestCancellation, Interrupt, AttemptClock, insideVars, L!ledgerVars
  <2> QED BY <1>25, <2>1, <2>2 DEF Outside
<1>26. CASE UNCHANGED vars
  BY <1>26 DEF vars, L!ledgerVars
<1> QED BY <1>1, <1>2, <1>3, <1>4, <1>5, <1>6, <1>7, <1>8, <1>9, <1>10, <1>11, <1>12, <1>13,
           <1>14, <1>15, <1>16, <1>17, <1>18, <1>19, <1>20, <1>21, <1>22, <1>23, <1>24, <1>25,
           <1>26, Steps

-----------------------------------------------------------------------------
(* Two steps looked at in every place.                                      *)

\* Only the top of the browsing loop starts a browsing call.
LEMMA OnlyStartTurnCalls ==
  ASSUME FiberTypeOK, [Next]_vars
  PROVE  pc # "model" /\ pc' = "model" => StartTurn
<1>1. CASE OpenContext \/ ContextOpened \/ OpenContextFails \/ LeaveLoop \/ StartTurn
  BY <1>1 DEF OpenContext, ContextOpened, OpenContextFails, LeaveLoop
<1>2. CASE DispatchTool \/ JudgeByCode \/ AskVerifier \/ Settle \/ Unwound
  BY <1>2 DEF DispatchTool, JudgeByCode, AskVerifier, Settle, Unwound
<1>3. CASE SkipFinalPass \/ BeginFinalPass \/ FinalPassDone
  BY <1>3 DEF SkipFinalPass, BeginFinalPass, FinalPassDone
<1>4. CASE FirstNavigationFails \/ HonourCancelAtLoopTop \/ RefuseTurn
  BY <1>4 DEF FirstNavigationFails, HonourCancelAtLoopTop, RefuseTurn
<1>5. CASE CheckMisbound \/ RefuseVerifier \/ TimeoutReported
  BY <1>5 DEF CheckMisbound, RefuseVerifier, TimeoutReported
<1>6. CASE Tail
  BY <1>6 DEF Tail
<1>7. ASSUME NEW settled \in BOOLEAN, FirstNavigation(settled)
      PROVE  pc # "model" /\ pc' = "model" => StartTurn
  BY <1>7 DEF FirstNavigation
<1>8. ASSUME NEW settled \in BOOLEAN, Navigate(settled)
      PROVE  pc # "model" /\ pc' = "model" => StartTurn
  BY <1>8 DEF Navigate, ToolDone
<1>9. CASE Observe \/ Screenshot
  BY <1>9 DEF Observe, Screenshot, ToolDone
<1>10. CASE ActNavigates \/ OtherToolEnd
  BY <1>10 DEF ActNavigates, OtherToolEnd, ToolDone
<1>11. CASE ToolResultInvalid \/ Finish
  BY <1>11 DEF ToolResultInvalid, Finish, ToolDone
<1>12. ASSUME NEW usage \in 0..MaxUsage, NEW calls \in 0..MaxTurnCalls, ModelAnswers(usage, calls)
      PROVE  pc # "model" /\ pc' = "model" => StartTurn
  BY <1>12 DEF ModelAnswers
<1>13. ASSUME NEW retryable \in BOOLEAN, ModelFails(retryable)
      PROVE  pc # "model" /\ pc' = "model" => StartTurn
  BY <1>13 DEF ModelFails
<1>14. CASE DispatchUnknownTool
  BY <1>14 DEF DispatchUnknownTool, AfterCall
<1>15. CASE ActionStarted
  BY <1>15 DEF ActionStarted
<1>16. CASE ActionFinished
  BY <1>16 DEF ActionFinished, AfterCall
<1>17. ASSUME NEW c \in Criteria, Check(c)
      PROVE  pc # "model" /\ pc' = "model" => StartTurn
  BY <1>17 DEF Check
<1>18. ASSUME NEW c \in Criteria, BeginVerification(c)
      PROVE  pc # "model" /\ pc' = "model" => StartTurn
  BY <1>18 DEF BeginVerification
<1>19. CASE CheckpointCapture
  BY <1>19 DEF CheckpointCapture
<1>20. CASE CheckSavesPayload
  BY <1>20 DEF CheckSavesPayload
<1>21. CASE VerificationFinished
  BY <1>21 DEF VerificationFinished
<1>22. CASE Evaluated
  BY <1>22, EvaluatedLaw
<1>23. CASE CancelWins
  BY <1>23 DEF CancelWins
<1>24. ASSUME NEW how \in {"interrupt", "timeout"}, CutShort(how)
      PROVE  pc # "model" /\ pc' = "model" => StartTurn
  BY <1>24 DEF CutShort
<1>25. CASE Outside
  BY <1>25 DEF Outside, RequestCancellation, Interrupt, RunClock, AttemptClock, insideVars
<1>26. CASE UNCHANGED vars
  BY <1>26 DEF vars
<1> QED BY <1>1, <1>2, <1>3, <1>4, <1>5, <1>6, <1>7, <1>8, <1>9, <1>10, <1>11, <1>12, <1>13,
           <1>14, <1>15, <1>16, <1>17, <1>18, <1>19, <1>20, <1>21, <1>22, <1>23, <1>24, <1>25,
           <1>26, Steps

\* What ActionsClosed asks of one step.
NoActionLost == InFlight /\ line = "open" => InFlight' \/ pc' = "ending" \/ line' = "paired"

\* An action in flight goes on, reaches its second mark, or has its line closed, unless the
\* store refuses that line.
LEMMA FlightsEnd ==
  ASSUME FiberTypeOK, Control, StoreMayFail = FALSE, [Next]_vars
  PROVE  NoActionLost
<1>1. CASE OpenContext \/ ContextOpened \/ OpenContextFails \/ LeaveLoop \/ StartTurn
  BY <1>1
     DEF OpenContext, ContextOpened, OpenContextFails, LeaveLoop, StartTurn, MayBrowse, InFlight,
         EvalPhases, NoActionLost
<1>2. CASE DispatchTool \/ JudgeByCode \/ AskVerifier \/ Settle \/ Unwound
  BY <1>2
     DEF DispatchTool, JudgeByCode, AskVerifier, Settle, Unwound, InFlight, EvalPhases,
         NoActionLost
<1>3. CASE SkipFinalPass \/ BeginFinalPass \/ FinalPassDone
  BY <1>3 DEF SkipFinalPass, BeginFinalPass, FinalPassDone, InFlight, EvalPhases, NoActionLost
<1>4. CASE FirstNavigationFails \/ HonourCancelAtLoopTop \/ RefuseTurn
  BY <1>4
     DEF FirstNavigationFails, HonourCancelAtLoopTop, RefuseTurn, MayBrowse, InFlight, EvalPhases,
         NoActionLost
<1>5. CASE CheckMisbound \/ RefuseVerifier \/ TimeoutReported
  BY <1>5 DEF CheckMisbound, RefuseVerifier, TimeoutReported, InFlight, EvalPhases, NoActionLost
<1>6. CASE Tail
  BY <1>6 DEF Tail, InFlight, EvalPhases, NoActionLost
<1>7. ASSUME NEW settled \in BOOLEAN, FirstNavigation(settled)
      PROVE  NoActionLost
  BY <1>7 DEF FirstNavigation, InFlight, EvalPhases, NoActionLost
<1>8. ASSUME NEW settled \in BOOLEAN, Navigate(settled)
      PROVE  NoActionLost
  BY <1>8 DEF Navigate, ToolDone, NoActionLost
<1>9. CASE Observe \/ Screenshot
  BY <1>9 DEF Observe, Screenshot, ToolDone, NoActionLost
<1>10. CASE ActNavigates \/ OtherToolEnd
  BY <1>10 DEF ActNavigates, OtherToolEnd, ToolDone, NoActionLost
<1>11. CASE ToolResultInvalid \/ Finish
  BY <1>11 DEF ToolResultInvalid, Finish, ToolDone, NoActionLost
<1>12. ASSUME NEW usage \in 0..MaxUsage, NEW calls \in 0..MaxTurnCalls, ModelAnswers(usage, calls)
      PROVE  NoActionLost
  BY <1>12 DEF ModelAnswers, InFlight, EvalPhases, NoActionLost
<1>13. ASSUME NEW retryable \in BOOLEAN, ModelFails(retryable)
      PROVE  NoActionLost
  BY <1>13 DEF ModelFails, InFlight, EvalPhases, NoActionLost
<1>14. CASE DispatchUnknownTool
  BY <1>14 DEF DispatchUnknownTool, InFlight, EvalPhases, NoActionLost
<1>15. CASE ActionStarted
  BY <1>15 DEF ActionStarted, InFlight, NoActionLost
<1>16. CASE ActionFinished
  BY <1>16 DEF ActionFinished, NoActionLost
<1>17. ASSUME NEW c \in Criteria, Check(c)
      PROVE  NoActionLost
  BY <1>17 DEF Check, InFlight, EvalPhases, NoActionLost
<1>18. ASSUME NEW c \in Criteria, BeginVerification(c)
      PROVE  NoActionLost
  BY <1>18 DEF BeginVerification, InFlight, EvalPhases, NoActionLost
<1>19. CASE CheckpointCapture
  <2>1. eval \in Evals /\ eval # NoEval /\ pc = "capture" /\ pc' = "judge"
    BY <1>19 DEF CheckpointCapture, FiberTypeOK, Control, EvalPhases
  <2>2. eval'.by = eval.by
    BY <1>19, <2>1 DEF CheckpointCapture, Evals
  <2> QED BY <2>1, <2>2 DEF InFlight, EvalPhases, NoActionLost
<1>20. CASE CheckSavesPayload
  BY <1>20 DEF CheckSavesPayload, InFlight, NoActionLost
<1>21. CASE VerificationFinished
  BY <1>21 DEF VerificationFinished, InFlight, NoActionLost
<1>22. CASE Evaluated
  BY <1>22, EvaluatedLaw DEF InFlight, EvalPhases, NoActionLost
<1>23. CASE CancelWins
  BY <1>23 DEF CancelWins, CloseInterruptedAction, InFlight, EvalPhases, NoActionLost
<1>24. ASSUME NEW how \in {"interrupt", "timeout"}, CutShort(how)
      PROVE  NoActionLost
  BY <1>24 DEF CutShort, CloseInterruptedAction, InFlight, EvalPhases, NoActionLost
<1>25. CASE Outside
  BY <1>25
     DEF Outside, RequestCancellation, Interrupt, RunClock, AttemptClock, insideVars, InFlight,
         NoActionLost
<1>26. CASE UNCHANGED vars
  BY <1>26 DEF vars, InFlight, NoActionLost
<1> QED BY <1>1, <1>2, <1>3, <1>4, <1>5, <1>6, <1>7, <1>8, <1>9, <1>10, <1>11, <1>12, <1>13,
           <1>14, <1>15, <1>16, <1>17, <1>18, <1>19, <1>20, <1>21, <1>22, <1>23, <1>24, <1>25,
           <1>26, Steps

-----------------------------------------------------------------------------
(* The theorems.                                                            *)

\* The initial states satisfy the invariant and are those of module Verdicts.
LEMMA InitEstablishes == Init => IInv /\ V!Init
<1>1. Init => FiberTypeOK
  <2>1. /\ 0 \in 0..MaxTurnCalls /\ 0 \in 0..MaxIdleTurns /\ 0 \in 0..ModelCallRetries
    BY AttemptAssumption
  <2>2. MakeBudgetState \in BudgetStates
    BY DEF MakeBudgetState, BudgetStates
  <2>3. Init => agent \in AgentStates
    BY <2>1 DEF Init, AgentStates
  <2>4. Init => outcome \in Outcomes /\ page \in [observed : BOOLEAN, settled : BOOLEAN]
    BY DEF Init, Outcomes
  <2> QED BY <2>2, <2>3, <2>4 DEF Init, FiberTypeOK, Evals, Phases, BodyPhases
<1>2. Init => Control /\ Exhaustion /\ Ending
  BY AttemptAssumption DEF Init, Control, InTurn, Exhaustion, Ending, EvalPhases, ToolPhases
<1>3. Init => V!Init
  BY DEF Init, V!Init, PendingResult, V!PendingResult
<1> QED BY <1>1, <1>2, <1>3 DEF IInv

\* IInv is inductive.
LEMMA Inductive == IInv /\ [Next]_vars => IInv'
BY TypesPreserved, ControlPreserved, EndingPreserved, ExhaustionPreserved DEF IInv

\* IInv holds in every reachable state.
LEMMA Invariance == Spec => []IInv
BY InitEstablishes, Inductive, PTL DEF Spec

\* The verdicts of an attempt follow module Verdicts (runner.ts, verifyCriterion).
LEMMA Refines == Spec => V!Init /\ [][V!Next]_(V!vars)
<1>1. IInv /\ IInv' /\ [Next]_vars => [V!Next]_(V!vars)
  BY VerdictsStep DEF IInv
<1> QED BY InitEstablishes, Invariance, <1>1, PTL DEF Spec

\* An attempt implements module Verdicts: every verdict it records, whoever asked for the
\* evaluation and whatever cut it short, went through the law on the inventory of that moment.
THEOREM VerdictsRefined == Spec => VerdictsImplemented
<1>1. [V!Next]_(V!vars) => [UNCHANGED V!vars \/ V!Next]_(V!vars)
  OBVIOUS
<1> QED BY Refines, <1>1, PTL DEF VerdictsImplemented

\* The instances the theorems of LawProofs are about are the same specifications.
LEMMA SameVerdicts ==
  /\ V!Init <=> Laws!Init
  /\ [V!Next]_(V!vars) <=> [Laws!Next]_(Laws!vars)
<1>1. V!Proposals = Laws!Proposals
  BY DEF V!Proposals, Laws!Proposals, V!Statuses, Laws!Statuses, V!AbsenceClaims,
         Laws!AbsenceClaims
<1>2. \A proposed, current, known, facts, lost :
        V!Adjudicate(proposed, current, known, facts, lost) =
          Laws!Adjudicate(proposed, current, known, facts, lost)
  <2>1. \A r, reason : V!RecordDowngrade(r, reason) = Laws!RecordDowngrade(r, reason)
    BY DEF V!RecordDowngrade, Laws!RecordDowngrade
  <2>2. \A r, known :
          V!EnforceEvidenceIntegrity(r, known) = Laws!EnforceEvidenceIntegrity(r, known)
    BY <2>1 DEF V!EnforceEvidenceIntegrity, Laws!EnforceEvidenceIntegrity
  <2>3. \A facts : V!ClassifyAbsence(facts) = Laws!ClassifyAbsence(facts)
    BY DEF V!ClassifyAbsence, Laws!ClassifyAbsence
  <2>4. \A r, facts : V!EnforceAbsenceRule(r, facts) = Laws!EnforceAbsenceRule(r, facts)
    BY <2>1, <2>3 DEF V!EnforceAbsenceRule, Laws!EnforceAbsenceRule, V!NoFacts, Laws!NoFacts
  <2>5. \A r, lost :
          V!EnforceEvidencePersistence(r, lost) = Laws!EnforceEvidencePersistence(r, lost)
    BY <2>1 DEF V!EnforceEvidencePersistence, Laws!EnforceEvidencePersistence
  <2>6. \A old, new : V!AdmitVerdict(old, new) = Laws!AdmitVerdict(old, new)
    BY DEF V!AdmitVerdict, Laws!AdmitVerdict, V!IsTerminal, Laws!IsTerminal,
           V!Severity, Laws!Severity
  <2> QED BY <2>2, <2>4, <2>5, <2>6 DEF V!Adjudicate, Laws!Adjudicate
<1>3. \A c, p, lost : V!Record(c, p, lost) <=> Laws!Record(c, p, lost)
  BY <1>2 DEF V!Record, Laws!Record, V!AbsenceFacts, Laws!AbsenceFacts
<1>4. \A c : V!Evaluate(c) <=> Laws!Evaluate(c)
  BY <1>1, <1>3 DEF V!Evaluate, Laws!Evaluate
<1>5. V!Next <=> Laws!Next
  BY <1>4 DEF V!Next, Laws!Next, V!Browse, Laws!Browse, V!PageStates, Laws!PageStates
<1> QED BY <1>5 DEF V!Init, Laws!Init, V!PendingResult, Laws!PendingResult, V!vars, Laws!vars

\* What LawProofs proves of module Verdicts holds of an attempt.
LEMMA VerdictsHold == Spec => [](VerdictsTypeOK /\ Laws!VerdictsAreProven)
<1>1. Laws!TypeOK => VerdictsTypeOK
  BY DEF Laws!TypeOK, VerdictsTypeOK, Laws!Results, Results, Laws!Statuses, Statuses,
         Laws!AbsenceClaims, AbsenceClaims, Laws!DowngradeReasons, DowngradeReasons,
         Laws!ReChecks, ReChecks
<1>2. V!Init => Laws!Init
  BY SameVerdicts
<1>3. [V!Next]_(V!vars) => [Laws!Next]_(Laws!vars)
  BY SameVerdicts
<1>4. Laws!Spec => [](Laws!TypeOK /\ Laws!VerdictsAreProven /\ Laws!NoPassOnLostEvidence)
  BY Laws!VerdictsAreSound, BudgetsAssumption, AttemptAssumption
     DEF Laws!BudgetsAssumption, Laws!UsageAssumption
<1> QED BY Refines, <1>1, <1>2, <1>3, <1>4, PTL DEF Laws!Spec

\* Type correctness of the whole attempt, the turn's remaining calls and the idle turns never
\* leaving their bounds included (agentLoop).
THEOREM AttemptTypes == Spec => []TypeOK
<1>1. IInv /\ VerdictsTypeOK => TypeOK
  BY DEF IInv, TypeOK
<1> QED BY Invariance, VerdictsHold, <1>1, PTL

\* No silent pass: an attempt that reports `passed` was not cut short, lost no mandatory
\* evidence, and each criterion passed on inventoried evidence (runAttempt, aggregateStatus).
THEOREM PassesAreEarned == Spec => []NoSilentPass
<1>1. IInv /\ VerdictsTypeOK /\ Laws!VerdictsAreProven => NoSilentPass
  <2> SUFFICES ASSUME IInv, VerdictsTypeOK, Laws!VerdictsAreProven, Returned, Verdict = "passed"
               PROVE  /\ ~ outcome.mandatoryFailure
                      /\ exit \notin {"error", "interrupt"}
                      /\ \A c \in Criteria : /\ results[c].status = "passed"
                                             /\ results[c].evidence # {}
                                             /\ results[c].evidence \subseteq inventory
    BY DEF NoSilentPass
  <2>1. /\ ~ outcome.cancellation /\ ~ outcome.executionError
        /\ \A c \in DOMAIN results :
             results[c].status \notin {"failed", "pending", "inconclusive", "error"}
    BY DEF Verdict, Aggregate
  <2>2. \A c \in Criteria : results[c].status = "passed"
    BY <2>1 DEF VerdictsTypeOK, Results, Statuses
  <2>3. ~ outcome.mandatoryFailure /\ exit \notin {"error", "interrupt"}
    BY <2>1 DEF IInv, Ending, CutShortByError, Returned
  <2> QED BY <2>2, <2>3 DEF Laws!VerdictsAreProven
<1> QED BY Invariance, VerdictsHold, <1>1, PTL

\* Only a cancellation, an error or the attempt's deadline leaves a criterion pending (the
\* final pass of runner.ts goes through every pending one).
THEOREM PendingMeansCutShort == Spec => []PendingOnlyWhenCutShort
<1>1. IInv => PendingOnlyWhenCutShort
  BY DEF IInv, Control, Ending, CutShortByError, PendingOnlyWhenCutShort, Returned, FiberTypeOK
<1> QED BY Invariance, <1>1, PTL

\* Once a blocking budget was reported no browsing call starts, not even after an evaluation
\* the verifier's own gate refused (verifyCriterion reports it inside the loop).
THEOREM ExhaustionIsFinal == Spec => ExhaustionStopsBrowsing
<1>1. IInv /\ [Next]_vars => [NoTurnAfterExhaustion]_vars
  <2> SUFFICES ASSUME IInv, [Next]_vars, outcome.exhausted # "none", pc # "model", pc' = "model"
               PROVE  FALSE
    BY DEF NoTurnAfterExhaustion
  <2>1. StartTurn
    BY OnlyStartTurnCalls DEF IInv
  <2>2. pc = "loop" /\ CanStartModelCall("browser", budget, late)
    BY <2>1 DEF StartTurn, MayBrowse
  <2> QED BY <2>2 DEF IInv, Exhaustion, Closing, EvalPhases
<1> QED BY Invariance, <1>1, PTL DEF Spec, ExhaustionStopsBrowsing

\* An attempt implements module BudgetLedger: one call at a time, a gate before each, the
\* charge after it, and no charge for a call that was cut short.
THEOREM LedgerRefined == Spec => LedgerImplemented
<1>1. Init => L!LedgerInit
  BY SameBudgets DEF Init, L!LedgerInit
<1>2. [Next]_vars => [L!LedgerNext]_(L!ledgerVars)
  BY LedgerStep
<1> QED BY <1>1, <1>2, PTL DEF Spec, LedgerImplemented, L!LedgerSpec

\* The two instances of module BudgetLedger are the same specification.
LEMMA SameLedger ==
  /\ L!LedgerInit <=> Laws!LedgerInit
  /\ [L!LedgerNext]_(L!ledgerVars) <=> [Laws!LedgerNext]_(Laws!ledgerVars)
<1>1. \A role, state, isLate :
        L!CanStartModelCall(role, state, isLate) = Laws!CanStartModelCall(role, state, isLate)
  BY DEF L!CanStartModelCall, Laws!CanStartModelCall, L!TokenCeiling, Laws!TokenCeiling,
         L!VerifierTokensLeft, Laws!VerifierTokensLeft
<1>2. /\ \A state : L!RecordModelCall(state) = Laws!RecordModelCall(state)
      /\ \A state, role, usage :
           L!ChargeTokens(state, role, usage) = Laws!ChargeTokens(state, role, usage)
      /\ L!Roles = Laws!Roles
  BY DEF L!RecordModelCall, Laws!RecordModelCall, L!ChargeTokens, Laws!ChargeTokens, L!Roles,
         Laws!Roles
<1>3. \A role : L!StartCall(role) <=> Laws!StartCall(role)
  BY <1>1 DEF L!StartCall, Laws!StartCall
<1>4. \A usage : L!CallAnswered(usage) <=> Laws!CallAnswered(usage)
  BY <1>2 DEF L!CallAnswered, Laws!CallAnswered
<1>5. L!CallAbandoned <=> Laws!CallAbandoned
  BY <1>2 DEF L!CallAbandoned, Laws!CallAbandoned
<1>6. L!LedgerNext <=> Laws!LedgerNext
  BY <1>2, <1>3, <1>4, <1>5
     DEF L!LedgerNext, Laws!LedgerNext, L!ClockPassesDeadline, Laws!ClockPassesDeadline
<1> QED BY <1>6 DEF L!LedgerInit, Laws!LedgerInit, L!MakeBudgetState, Laws!MakeBudgetState,
                    L!ledgerVars, Laws!ledgerVars

\* What an attempt can spend, whatever the agent does, whatever is retried and whoever cuts it
\* short: its calls stay within maxModelCalls and its tokens within maxTokens plus one overshoot
\* of each role, and a verifier with reserve left is not refused for want of tokens (runner.ts,
\* agentLoop and verifyCriterion, which share one accounting record).
THEOREM AttemptSpendsWithinBudget ==
  Spec => [](Laws!CallsBounded /\ Laws!SpendBounded /\ Laws!ReserveIsAPool
             /\ Laws!VerifierOutlivesBrowser)
<1>1. L!LedgerInit => Laws!LedgerInit
  BY SameLedger
<1>2. [L!LedgerNext]_(L!ledgerVars) => [Laws!LedgerNext]_(Laws!ledgerVars)
  BY SameLedger
<1>3. Laws!BudgetsAssumption /\ Laws!UsageAssumption
  BY BudgetsAssumption, AttemptAssumption DEF Laws!BudgetsAssumption, Laws!UsageAssumption
<1>4. Laws!LedgerSpec => [](Laws!LedgerTypeOK /\ Laws!CallsBounded /\ Laws!SpendBounded)
  BY <1>3, Laws!SpendIsBounded
<1>5. Laws!LedgerSpec => [](Laws!ReserveIsAPool /\ Laws!VerifierOutlivesBrowser)
  BY <1>3, Laws!VerifierShareIsSafe
<1> QED BY LedgerRefined, <1>1, <1>2, <1>4, <1>5, PTL
        DEF LedgerImplemented, L!LedgerSpec, Laws!LedgerSpec

\* With a store that takes its writes, an action in flight is closed in the journal by whatever
\* ends it (closeInterruptedAction).  A store that refuses them can leave it open, as it must.
THEOREM ActionsAreClosed ==
  ASSUME StoreMayFail = FALSE
  PROVE  Spec => ActionsClosed
<1>1. IInv /\ [Next]_vars => [NoActionLost]_vars
  BY FlightsEnd DEF IInv
<1> QED BY Invariance, <1>1, PTL DEF Spec, ActionsClosed, NoActionLost
=============================================================================
