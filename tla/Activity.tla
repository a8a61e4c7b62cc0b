------------------------------ MODULE Activity ------------------------------
(***************************************************************************)
(* One attempt's account of its own activity, and its two readers.         *)
(*                                                                         *)
(* The runner and the dispatcher write the account: the journal's lines,   *)
(* and the counters result.json takes (model calls, tokens, actions).  The *)
(* page rebuilds a timeline and gauges from the lines alone                *)
(* (apps/ui/src/state/reducer.ts, apps/ui/src/components/Budgets.tsx); the *)
(* report prints every line and the result's counters                      *)
(* (packages/reporting/src/view.ts).  Nothing but the lines and the order  *)
(* they were written in ties the two together.                             *)
(*                                                                         *)
(* Every line is written by a step of its own, so a cancellation, Ctrl-C   *)
(* or the attempt's deadline can fall between any two; the store may       *)
(* refuse a line, whose number is then spent.  One criterion is judged by  *)
(* a model or by code.  The clock the gate reads, retries, verdicts, what  *)
(* is written after the body and the delivery of lines to the page belong  *)
(* to other modules: here the page reads each line as it is appended.      *)
(***************************************************************************)
EXTENDS Budgets, Sequences, FiniteSetsExt

CONSTANTS
  MaxActions,     \* the indicative threshold of the contract
  MaxIdleTurns,   \* the blocking budget on turns without a tool call
  Screenshots,    \* capture.screenshots
  MaxActionIds,   \* bound: actions, the calls that name a tool
  MaxCalls,       \* bound: tool calls of one turn
  Usage,          \* bound: tokens of an answered call
  MaxRefusals     \* bound: lines the store refuses

ASSUME ActivityAssumption ==
  /\ MaxActions \in Nat \ {0} /\ MaxIdleTurns \in Nat \ {0}
  /\ Screenshots \in {"checkpoints", "every-action", "off"}
  /\ MaxActionIds \in Nat /\ MaxCalls \in Nat /\ Usage \in Nat /\ MaxRefusals \in Nat

\* `click` stands for navigate, click, fill, press and scroll, which journal nothing of their own.
BrowserTools == {"observe", "screenshot", "click"}
Tools == BrowserTools \cup {"check", "finish"}

\* A call made so many times in a row is a stall, told once.
Repetition == 3

\* What an artifact is linked to: a line, 0 for one that was refused, or nothing.
Absent == -1
NoAction == 0

VARIABLES
  journal, seq, refusals, \* events.jsonl, the last number given out, and the lines refused
  page,                   \* the model of a page that has received what the journal holds
  budget, guidance,       \* the counters of the runner, and those of the action guidance
  pc,                     \* where the attempt is
  turn,                   \* idle turns, tool calls left and made, a repetition told
  act,                    \* the action: id, tool, in flight, outcome, result undecodable
  eval,                   \* the criterion: method, who asked, whether it is pending
  source,                 \* what the next capture is linked to
  exit,                   \* `finish` called, cancellation, executionError, interrupted
  verifierCalls, during   \* history: evaluations answered; <<line, action>> of captures

lines == <<journal, seq, refusals, page>>
vars == <<lines, budget, guidance, pc, turn, act, eval, source, exit, verifierCalls, during>>

-----------------------------------------------------------------------------
\* The page folds the lines one by one into its model.

Headings ==
  {"lifecycle", "observation", "model", "action", "evidence", "verification", "artifact",
   "guidance", "budget", "error"}

\* The budgets the page's copy of the event types knows.
BudgetKinds == {"attemptTimeout", "operationTimeout", "maxModelCalls", "maxTokens"}

\* What a row, an action and an artifact of the page are made of, and what it counts.
RunModels ==
  [timeline : Seq([seq : Nat, kind : Headings, action : Nat, outcome : {"none", "ok", "error"}]),
   actions : Seq([seq : Nat, action : Nat, tool : Tools, outcome : {"none", "ok", "error"}]),
   artifacts : SUBSET (Nat \X Nat), started : Nat, tokens : Nat, verifierTokens : Nat,
   guidance : BOOLEAN,
   breaches : SUBSET (BudgetKinds \cup {"maxIdleTurns"}), cancellation : BOOLEAN]

EmptyRunModel ==
  [timeline |-> <<>>, actions |-> <<>>, artifacts |-> {}, started |-> 0, tokens |-> 0,
   verifierTokens |-> 0, guidance |-> FALSE, breaches |-> {}, cancellation |-> FALSE]

\* The headings of the report's entries.
EventCategories(type) ==
  IF type = "browserContextOpened" THEN "lifecycle"
  ELSE IF type = "observationTaken" THEN "observation"
  ELSE IF type \in {"modelCallStarted", "modelCallFinished"} THEN "model"
  ELSE IF type \in {"actionStarted", "actionFinished"} THEN "action"
  ELSE IF type = "evidenceRequested" THEN "evidence"
  ELSE IF type = "verificationFinished" THEN "verification"
  ELSE IF type = "artifactAvailable" THEN "artifact"
  ELSE IF type = "actionGuidanceExceeded" THEN "guidance"
  ELSE IF type = "budgetExhausted" THEN "budget"
  ELSE "error"  \* progressStalled, error and cancellationRequested

\* The page's headings are the report's, a cancellation's apart.
RowKind(type) ==
  IF type = "cancellationRequested" THEN "lifecycle" ELSE EventCategories(type)

Row(line, owner) ==
  [seq |-> line.seq, kind |-> RowKind(line.type), action |-> owner, outcome |-> "none"]

\* A plausible slip: the line of the action itself left out.
ActionBeforeSeq(actions, from) ==
  LET opened == {i \in DOMAIN actions : from = Absent \/ actions[i].seq < from}
  IN  IF opened = {} THEN NoAction ELSE actions[Max(opened)].action

\* The action a line belongs to: the last one opened at or before it.
ActionAtSeq(actions, from) ==
  LET opened == {i \in DOMAIN actions : from = Absent \/ actions[i].seq <= from}
  IN  IF opened = {} THEN NoAction ELSE actions[Max(opened)].action

\* A plausible slip: any open row that names the action, and not only the action's own.
CloseAnyRow(rows, line) ==
  LET open == {i \in DOMAIN rows : rows[i].action = line.action /\ rows[i].outcome = "none"}
  IN  IF open = {} THEN rows ELSE [rows EXCEPT ![Max(open)].outcome = line.outcome]

CloseTimelineRow(rows, line) ==
  LET open == {i \in DOMAIN rows : /\ rows[i].kind = "action"
                                   /\ rows[i].action = line.action
                                   /\ rows[i].outcome = "none"}
  IN  IF open = {} THEN rows ELSE [rows EXCEPT ![Max(open)].outcome = line.outcome]

NextTimeline(model, line, owner) ==
  IF line.type = "actionFinished" THEN CloseTimelineRow(model.timeline, line)
  ELSE Append(model.timeline, Row(line, owner))

NextActions(actions, line) ==
  IF line.type = "actionStarted"
  THEN Append(actions, [seq |-> line.seq, action |-> line.action, tool |-> line.tool,
                        outcome |-> "none"])
  ELSE IF line.type = "actionFinished"
  THEN [i \in DOMAIN actions |-> IF actions[i].action # line.action THEN actions[i]
                                 ELSE [actions[i] EXCEPT !.outcome = line.outcome]]
  ELSE actions

\* The gauges' numbers: calls from their first line, tokens from their last.
NextAccounting(model, line) ==
  [model EXCEPT
     !.started = @ + (IF line.type = "modelCallStarted" THEN 1 ELSE 0),
     !.tokens = @ + (IF line.type = "modelCallFinished" THEN line.tokens ELSE 0),
     !.verifierTokens = @ + (IF line.type = "modelCallFinished" /\ line.role = "verifier"
                             THEN line.tokens ELSE 0),
     !.guidance = @ \/ line.type = "actionGuidanceExceeded",
     !.breaches = IF line.type = "budgetExhausted" THEN @ \cup {line.budget} ELSE @,
     !.cancellation = @ \/ line.type = "cancellationRequested"]

RunReducer(model, line) ==
  LET owner == IF line.type = "artifactAvailable" THEN ActionAtSeq(model.actions, line.source)
               ELSE line.action
  IN  [NextAccounting(model, line) EXCEPT
         !.timeline = NextTimeline(model, line, owner),
         !.actions = NextActions(model.actions, line),
         !.artifacts = IF line.type = "artifactAvailable" THEN @ \cup {<<line.seq, owner>>} ELSE @]

-----------------------------------------------------------------------------
\* The journal.

Line(type) ==
  [type |-> type, seq |-> 0, role |-> "none", action |-> NoAction, tool |-> "none",
   outcome |-> "none", tokens |-> 0, source |-> Absent, budget |-> "none"]

CallLine(type, role, tokens) == [Line(type) EXCEPT !.role = role, !.tokens = tokens]
ActionLine(type) ==
  [Line(type) EXCEPT !.action = act.id, !.tool = act.tool, !.outcome = act.outcome]
ArtifactLine(from) == [Line("artifactAvailable") EXCEPT !.source = from]
EvidenceLine(by) == [Line("evidenceRequested") EXCEPT !.role = by]
ExhaustedLine(name) == [Line("budgetExhausted") EXCEPT !.budget = name]

\* The page takes the types it knows; of these, those the body of an attempt writes.
HarnessEventTypes ==
  {"browserContextOpened", "observationTaken", "modelCallStarted", "modelCallFinished",
   "actionStarted", "actionFinished", "evidenceRequested", "verificationFinished",
   "artifactAvailable", "actionGuidanceExceeded", "budgetExhausted", "progressStalled", "error",
   "cancellationRequested"}

IsHarnessEvent(line) == line.seq > 0 /\ line.type \in HarnessEventTypes

\* What the page's copy of the event types says of the fields it reads.
Mirrored(line) ==
  /\ line.type \in {"modelCallStarted", "modelCallFinished"} => line.role \in Roles
  /\ line.type \in {"actionStarted", "actionFinished"} =>
       line.action # NoAction /\ line.tool \in Tools
  /\ line.type = "actionFinished" => line.outcome \in {"ok", "error"}
  /\ line.type = "evidenceRequested" => line.role \in {"agent", "verifier", "runner"}
  /\ line.type = "budgetExhausted" => line.budget \in BudgetKinds

Write(line) ==
  /\ journal' = Append(journal, line)
  /\ page' = IF IsHarnessEvent(line) THEN RunReducer(page, line) ELSE page

\* The line is appended, or refused: its number is spent either way.
Emit(line) ==
  /\ seq' = seq + 1
  /\ \/ /\ Write([line EXCEPT !.seq = seq + 1])
        /\ UNCHANGED refusals
     \/ /\ refusals < MaxRefusals
        /\ refusals' = refusals + 1
        /\ UNCHANGED <<journal, page>>

Appended == Len(journal') > Len(journal)

\* An artifact whose line is refused is no artifact: its loss is told instead.
EmitArtifact(from) ==
  \/ /\ seq' = seq + 1
     /\ Write([ArtifactLine(from) EXCEPT !.seq = seq + 1])
     /\ UNCHANGED refusals
  \/ /\ refusals < MaxRefusals
     /\ refusals' = refusals + 1
     /\ seq' = seq + 2
     /\ Write([Line("error") EXCEPT !.seq = seq + 2])

Recorded == refusals' = refusals

\* A step that writes a line and moves on, leaving the named rest of the state alone.
Tell(line, next) ==
  /\ Emit(line)
  /\ pc' = next
  /\ UNCHANGED <<budget, guidance, verifierCalls>>

-----------------------------------------------------------------------------
TypeOK ==
  /\ page \in RunModels
  /\ seq \in Nat /\ Len(journal) <= seq /\ refusals \in 0..MaxRefusals
  /\ budget \in BudgetStates
  /\ guidance \in [used : 0..MaxActionIds, notified : BOOLEAN]
  /\ turn \in [idle : 0..MaxIdleTurns, calls : 0..MaxCalls, made : 0..Repetition,
              repeated : BOOLEAN]
  /\ act \in [id : 0..MaxActionIds, tool : Tools \cup {"none"}, inFlight : BOOLEAN,
              outcome : {"none", "ok", "error"}, broken : BOOLEAN]
  /\ eval \in [method : {"model", "code"}, by : {"none", "agent", "runner"}, pending : BOOLEAN]
  /\ source \in Absent..seq
  /\ exit \in [finishing : BOOLEAN, cancelled : BOOLEAN, failed : BOOLEAN, struck : BOOLEAN]
  /\ verifierCalls \in 0..budget.modelCalls
  /\ during \subseteq (1..seq) \X (1..MaxActionIds)

Init ==
  /\ journal = <<>> /\ seq = 0 /\ refusals = 0 /\ page = EmptyRunModel
  /\ budget = MakeBudgetState /\ guidance = [used |-> 0, notified |-> FALSE]
  /\ pc = "opening context"
  /\ turn = [idle |-> 0, calls |-> 0, made |-> 0, repeated |-> FALSE]
  /\ act = [id |-> NoAction, tool |-> "none", inFlight |-> FALSE, outcome |-> "none",
            broken |-> FALSE]
  /\ \E method \in {"model", "code"} :
       eval = [method |-> method, by |-> "none", pending |-> TRUE]
  /\ source = Absent
  /\ exit = [finishing |-> FALSE, cancelled |-> FALSE, failed |-> FALSE, struck |-> FALSE]
  /\ verifierCalls = 0 /\ during = {}

\* The context opens; the first load then succeeds, or fails and ends the walkthrough.
OpenContext ==
  /\ pc = "opening context"
  /\ \E next \in {"loop", "failing"} :
       /\ Tell(Line("browserContextOpened"), next)
       /\ exit' = [exit EXCEPT !.failed = (next = "failing")]
  /\ UNCHANGED <<turn, act, eval, source, during>>

\* A fatal error of the first load or of a model call is journalled, then the loop is left.
ReportFailure ==
  /\ pc = "failing"
  /\ Tell(Line("error"), "pass")
  /\ UNCHANGED <<turn, act, eval, source, exit, during>>

\* Top of agentLoop: nothing more to do, a budget refuses, or a model call starts.
LeaveLoop ==
  /\ pc = "loop" /\ (exit.finishing \/ exit.failed)
  /\ pc' = "pass"
  /\ UNCHANGED <<lines, budget, guidance, turn, act, eval, source, exit, verifierCalls, during>>

StartTurn ==
  /\ pc = "loop" /\ ~ exit.finishing /\ ~ exit.failed
  /\ IF CanStartModelCall("browser", budget, FALSE)
     THEN Tell(CallLine("modelCallStarted", "browser", 0), "calling")
     ELSE Tell(ExhaustedLine(Denial(budget, FALSE)), "pass")
  /\ UNCHANGED <<turn, act, eval, source, exit, during>>

\* The call is counted whether it is answered or fails; its tokens only when it is answered.
ModelAnswers ==
  /\ pc = "calling"
  /\ budget' = ChargeTokens(RecordModelCall(budget), "browser", Usage)
  /\ \E n \in 0..MaxCalls : turn' = [turn EXCEPT !.calls = n]
  /\ pc' = "answered"
  /\ UNCHANGED <<lines, guidance, act, eval, source, exit, verifierCalls, during>>

ModelFails ==
  /\ pc = "calling"
  /\ budget' = RecordModelCall(budget)
  /\ exit' = [exit EXCEPT !.failed = TRUE]
  /\ pc' = "failing"
  /\ UNCHANGED <<lines, guidance, turn, act, eval, source, verifierCalls, during>>

FinishModelCall ==
  /\ pc = "answered"
  /\ LET idle == IF turn.calls = 0 THEN turn.idle + 1 ELSE 0
     IN  /\ turn' = [turn EXCEPT !.idle = idle]
         /\ Tell(CallLine("modelCallFinished", "browser", Usage),
                 IF turn.calls > 0 THEN "turn" ELSE IF idle < MaxIdleTurns THEN "loop" ELSE "idled")
  /\ UNCHANGED <<act, eval, source, exit, during>>

\* Two stalls are told: too many turns without a tool call, and then the budget that ends the loop;
\* and the same call made three times, which is dispatched all the same.
TellStall ==
  /\ \/ pc = "idled" /\ Tell(Line("progressStalled"), "exhausted")
     \/ pc = "repeating" /\ Tell(Line("progressStalled"), "call")
     \/ pc = "exhausted" /\ Tell(ExhaustedLine("maxIdleTurns"), "pass")
  /\ UNCHANGED <<turn, act, eval, source, exit, during>>

-----------------------------------------------------------------------------
\* One tool call (dispatcher.dispatch).

\* The calls made so far, as many as matter; from the third on the last three may be the same.
Made == IF turn.made = Repetition THEN Repetition ELSE turn.made + 1
Told == IF Made = Repetition /\ ~ turn.repeated THEN BOOLEAN ELSE {turn.repeated}

\* The next call of the turn, or the next turn.
NextCall ==
  /\ pc = "turn"
  /\ exit' = [exit EXCEPT !.failed = @ \/ act.broken]
  /\ IF turn.calls = 0 \/ exit.finishing \/ exit'.failed
     THEN pc' = "loop" /\ UNCHANGED turn
     ELSE \E told \in Told :
            /\ turn' = [turn EXCEPT !.calls = @ - 1, !.made = Made, !.repeated = told]
            /\ pc' = IF told # turn.repeated THEN "repeating" ELSE "call"
  /\ UNCHANGED <<lines, budget, guidance, act, eval, source, verifierCalls, during>>

\* A plausible slip: every tool counts, `check` and `finish` too.
RecordEveryAction(name) ==
  [used |-> guidance.used + 1, notified |-> guidance.notified \/ guidance.used + 1 > MaxActions]

\* Only browser tools count; `notified` is set by the first crossing.
RecordAction(name) ==
  IF name \in BrowserTools
  THEN [used |-> guidance.used + 1,
        notified |-> guidance.notified \/ guidance.used + 1 > MaxActions]
  ELSE guidance

\* An id is minted and the counter moves before anything is known of the call.  A name that is no
\* tool is refused outright.
Dispatch ==
  /\ pc = "call"
  /\ \/ pc' = "turn" /\ UNCHANGED <<guidance, act>>
     \/ \E name \in Tools :
          /\ act.id < MaxActionIds
          /\ act' = [id |-> act.id + 1, tool |-> name, inFlight |-> FALSE, outcome |-> "none",
                     broken |-> FALSE]
          /\ guidance' = RecordAction(name)
          /\ pc' = IF guidance'.notified # guidance.notified THEN "crossing" ELSE "opening"
  /\ UNCHANGED <<lines, budget, turn, eval, source, exit, verifierCalls, during>>

\* The first crossing of the threshold is told, once, before the action is; nothing is refused.
TellCrossing ==
  /\ pc = "crossing"
  /\ Tell(Line("actionGuidanceExceeded"), "opening")
  /\ UNCHANGED <<turn, act, eval, source, exit, during>>

\* actionStarted is written, and only then is the action in flight.
OpenAction ==
  /\ pc = "opening"
  /\ Tell(ActionLine("actionStarted"), "opened")
  /\ source' = IF Appended THEN seq' ELSE Absent
  /\ UNCHANGED <<turn, act, eval, exit, during>>

TakeFlight ==
  /\ pc = "opened"
  /\ act' = [act EXCEPT !.inFlight = TRUE]
  /\ pc' = "acting"
  /\ UNCHANGED <<lines, budget, guidance, turn, eval, source, exit, verifierCalls, during>>

\* An artifact captured in the course of an action.
Capture(from, next) ==
  /\ EmitArtifact(from)
  /\ during' = IF Recorded THEN during \cup {<<seq', act.id>>} ELSE during
  /\ pc' = next
  /\ UNCHANGED <<budget, guidance, turn, act, eval, source, exit, verifierCalls>>

\* An observation is journalled and its snapshot linked to that line, or to 0 if it was refused.
Observe ==
  /\ pc = "acting" /\ act.tool = "observe"
  /\ Tell(Line("observationTaken"), "capturing")
  /\ source' = IF Appended THEN seq' ELSE 0
  /\ UNCHANGED <<turn, act, eval, exit, during>>

Screenshot == pc = "acting" /\ act.tool = "screenshot" /\ Capture(source, "acted")

\* A check asks for the criterion to be evaluated; `finish` is only remembered.
Check ==
  /\ pc = "acting" /\ act.tool = "check"
  /\ eval' = [eval EXCEPT !.by = "agent"]
  /\ pc' = "evidence"
  /\ UNCHANGED <<lines, budget, guidance, turn, act, source, exit, verifierCalls, during>>

Finish ==
  /\ pc = "acting" /\ act.tool = "finish"
  /\ exit' = [exit EXCEPT !.finishing = TRUE]
  /\ pc' = "acted"
  /\ UNCHANGED <<lines, budget, guidance, turn, act, eval, source, verifierCalls, during>>

CaptureObservation == pc = "capturing" /\ Capture(source, "acted")

\* What the driver returned does not decode: a fatal error of its own, told before the end.
BreakContract ==
  /\ <<pc, act.tool>> \in {<<"acting", "click">>, <<"acted", "observe">>}
  /\ Tell(Line("error"), "broken")
  /\ act' = [act EXCEPT !.broken = TRUE]
  /\ UNCHANGED <<turn, eval, source, exit, during>>

\* The action ends and is no longer in flight: any tool may be refused or fail before it has done
\* anything, a screenshot also after.
EndAction ==
  /\ pc \in {"acting", "acted", "broken"}
  /\ \E outcome \in {"ok", "error"} :
       /\ outcome = "ok" => pc = "acted" \/ (pc = "acting" /\ act.tool = "click")
       /\ outcome = "error" => pc # "acted" \/ act.tool = "screenshot"
       /\ act' = [act EXCEPT !.inFlight = FALSE, !.outcome = outcome]
  /\ pc' = "closing"
  /\ UNCHANGED <<lines, budget, guidance, turn, eval, source, exit, verifierCalls, during>>

CloseAction ==
  /\ pc = "closing"
  /\ Tell(ActionLine("actionFinished"),
          IF Screenshots = "every-action" /\ act.tool \in BrowserTools THEN "after" ELSE "turn")
  /\ UNCHANGED <<turn, act, eval, source, exit, during>>

\* The capture after an action has no line of its own to be linked to.
CaptureAfterAction == pc = "after" /\ Capture(Absent, "turn")

-----------------------------------------------------------------------------
\* One evaluation (verifyCriterion), asked for by a check or by the final pass.

Evaluated == IF eval.by = "agent" THEN "acted" ELSE "pass"

RequestEvidence ==
  /\ pc = "evidence"
  /\ Tell(EvidenceLine(eval.by), "checkpoint")
  /\ source' = IF Appended THEN seq' ELSE 0
  /\ UNCHANGED <<turn, act, eval, exit, during>>

\* The capture just recorded belongs to the action that asked; the final pass has none.
Evaluating == IF eval.by = "agent" THEN {<<seq', act.id>>} ELSE {}

\* The mandatory capture, unless captures are off.
Checkpoint ==
  /\ pc = "checkpoint"
  /\ IF Screenshots = "off"
     THEN UNCHANGED <<lines, during>>
     ELSE /\ EmitArtifact(source)
          /\ during' = IF Recorded THEN during \cup Evaluating ELSE during
  /\ pc' = "judging"
  /\ UNCHANGED <<budget, guidance, turn, act, eval, source, exit, verifierCalls>>

\* A code check may hand over a payload, linked like the checkpoint ...
RecordCheckPayload ==
  /\ EmitArtifact(source)
  /\ during' = IF Recorded THEN during \cup Evaluating ELSE during
  /\ UNCHANGED exit

\* ... or be bound to another contract: a fatal error ...
CheckMisbound ==
  /\ Emit(Line("error"))
  /\ exit' = [exit EXCEPT !.failed = TRUE]
  /\ UNCHANGED during

\* ... or return, fail or be missing, which writes nothing.
RunCodeCheck ==
  /\ pc = "judging" /\ eval.method = "code"
  /\ RecordCheckPayload \/ CheckMisbound \/ UNCHANGED <<lines, exit, during>>
  /\ pc' = "deciding"
  /\ UNCHANGED <<budget, guidance, turn, act, eval, source, verifierCalls>>

\* The gate, before a model is asked.
AskVerifier ==
  /\ pc = "judging" /\ eval.method = "model"
  /\ IF CanStartModelCall("verifier", budget, FALSE)
     THEN /\ pc' = "verifying"
          /\ UNCHANGED <<lines, budget, guidance, verifierCalls>>
     ELSE Tell(ExhaustedLine(Denial(budget, FALSE)), "deciding")
  /\ UNCHANGED <<turn, act, eval, source, exit, during>>

\* An answer is counted and charged, a failure is not; neither is journalled as a model call.
VerifierAnswers ==
  /\ pc = "verifying"
  /\ budget' = ChargeTokens(RecordModelCall(budget), "verifier", Usage)
  /\ verifierCalls' = verifierCalls + 1
  /\ pc' \in {"deciding", "asking"}
  /\ UNCHANGED <<lines, guidance, turn, act, eval, source, exit, during>>

VerifierFails ==
  /\ pc = "verifying"
  /\ pc' = "deciding"
  /\ UNCHANGED <<lines, budget, guidance, turn, act, eval, source, exit, verifierCalls, during>>

AskForMore ==
  /\ pc = "asking"
  /\ Tell(EvidenceLine("verifier"), IF eval.by = "agent" THEN "acted" ELSE "deciding")
  /\ UNCHANGED <<turn, act, eval, source, exit, during>>

Decide ==
  /\ pc = "deciding"
  /\ Tell(Line("verificationFinished"), Evaluated)
  /\ eval' = [eval EXCEPT !.pending = FALSE]
  /\ UNCHANGED <<turn, act, source, exit, during>>

\* Steps 7 and 8: what is still pending is evaluated.
FinalPass ==
  /\ pc = "pass"
  /\ IF eval.pending /\ ~ exit.failed /\ ~ exit.cancelled
     THEN eval' = [eval EXCEPT !.by = "runner"] /\ pc' = "evidence"
     ELSE UNCHANGED eval /\ pc' = "done"
  /\ UNCHANGED <<lines, budget, guidance, turn, act, source, exit, verifierCalls, during>>

-----------------------------------------------------------------------------
\* Cut short.

InDispatch == {"call", "crossing", "opening", "opened", "acting", "capturing", "acted", "broken",
               "closing", "after"}
InEvaluation == {"evidence", "checkpoint", "judging", "verifying", "asking", "deciding"}
Body == InDispatch \cup InEvaluation \cup
  {"opening context", "failing", "loop", "calling", "answered", "idled", "exhausted", "turn",
   "repeating", "pass", "noting"}

\* The action in flight is closed as an error, whoever interrupts it.
CloseInterruptedAction ==
  IF act.inFlight
  THEN /\ act' = [act EXCEPT !.inFlight = FALSE, !.outcome = "error"]
       /\ Emit([ActionLine("actionFinished") EXCEPT !.outcome = "error"])
  ELSE UNCHANGED <<lines, act>>

\* A cancellation, heard at the top of the loop or by a race: the call, the tool call or the
\* final evaluation is interrupted.  A browsing call is counted all the same.
Cancel ==
  /\ pc \in {"loop", "calling"} \cup InDispatch \cup InEvaluation
  /\ exit' = [exit EXCEPT !.cancelled = TRUE]
  /\ budget' = IF pc = "calling" THEN RecordModelCall(budget) ELSE budget
  /\ CloseInterruptedAction
  /\ pc' = "noting"
  /\ UNCHANGED <<guidance, turn, eval, source, verifierCalls, during>>

NoteCancellation ==
  /\ pc = "noting"
  /\ Tell(Line("cancellationRequested"), "pass")
  /\ UNCHANGED <<turn, act, eval, source, exit, during>>

\* Ctrl-C or the attempt's deadline: the body is interrupted wherever it is.
Interrupt ==
  /\ pc \in Body
  /\ exit' = [exit EXCEPT !.struck = TRUE]
  /\ CloseInterruptedAction
  /\ pc' = "explaining"
  /\ UNCHANGED <<budget, guidance, turn, eval, source, verifierCalls, during>>

\* The line that says why: none for a signal that only hastens a cancellation.
Explain ==
  /\ pc = "explaining"
  /\ \/ Tell(ExhaustedLine("attemptTimeout"), "done") /\ UNCHANGED exit
     \/ /\ ~ exit.cancelled
        /\ Tell(Line("cancellationRequested"), "done")
        /\ exit' = [exit EXCEPT !.cancelled = TRUE]
     \/ /\ exit.cancelled
        /\ pc' = "done"
        /\ UNCHANGED <<lines, budget, guidance, exit, verifierCalls>>
  /\ UNCHANGED <<turn, act, eval, source, during>>

Next ==
  \/ OpenContext \/ ReportFailure \/ LeaveLoop \/ StartTurn \/ ModelAnswers
  \/ ModelFails \/ FinishModelCall \/ TellStall \/ NextCall \/ Dispatch \/ TellCrossing
  \/ OpenAction \/ TakeFlight \/ Observe \/ Screenshot \/ Check \/ Finish \/ CaptureObservation
  \/ BreakContract \/ EndAction \/ CloseAction \/ CaptureAfterAction \/ RequestEvidence
  \/ Checkpoint \/ RunCodeCheck \/ AskVerifier \/ VerifierAnswers \/ VerifierFails \/ AskForMore
  \/ Decide \/ FinalPass \/ Cancel \/ NoteCancellation \/ Interrupt \/ Explain

Spec == Init /\ [][Next]_vars

-----------------------------------------------------------------------------
\* What result.json takes from the attempt, and the report's account of it.

AttemptOutcome ==
  [calls |-> budget.modelCalls, tokens |-> budget.tokensUsed,
   verifierTokens |-> budget.verifierTokens, actionsUsed |-> guidance.used,
   guidanceExceeded |-> guidance.used > MaxActions]

\* A blocking budget, consumed and remaining: what remains may be negative.
BudgetLine(spent, limit) == [used |-> spent, limit |-> limit, remaining |-> limit - spent]

BudgetLines ==
  [maxModelCalls |-> BudgetLine(AttemptOutcome.calls, MaxModelCalls),
   maxTokens     |-> BudgetLine(AttemptOutcome.tokens, MaxTokens)]

\* The report keeps the indicative count apart from the budgets.
AttemptView ==
  [actions |-> [used |-> AttemptOutcome.actionsUsed, exceeded |-> AttemptOutcome.guidanceExceeded],
   budgets |-> BudgetLines]

\* One entry per line: its heading, its type, and the fields that name an action and its outcome.
TimelineEntries ==
  [i \in DOMAIN journal |->
     [seq |-> journal[i].seq, type |-> journal[i].type,
      category |-> EventCategories(journal[i].type),
      action |-> journal[i].action, outcome |-> journal[i].outcome]]

\* The page's gauges of the blocking budgets ...
BlockingBudgets ==
  [calls |-> page.started, tokens |-> page.tokens, verifier |-> page.verifierTokens,
   callsExhausted |-> "maxModelCalls" \in page.breaches,
   tokensExhausted |-> "maxTokens" \in page.breaches]

\* ... and its count beside the indicative threshold.
ActionGuidance == [used |-> Len(page.actions), exceeded |-> page.guidance]

-----------------------------------------------------------------------------
\* Properties.

\* Rows and entries are told apart, and ordered, by the number of their line.
InOrder(rows) == \A i \in 2..Len(rows) : rows[i - 1].seq < rows[i].seq

\* The page and the report tell the same story in the same order: the page's rows are the report's
\* entries less the ends of actions, under the same headings (a cancellation apart), and the row of
\* an action carries the outcome of the report's entry that ends it, if there is one.  Both are
\* read back from lines written in pairs by the dispatcher (dispatcher.ts, closeInterruptedAction)
\* that a refused line or an interruption may leave alone, and by a copy of the event types that
\* must follow the runner's (apps/ui/src/types/events.ts:6) and lacks one name of a budget.
TimelinesAgree ==
  LET rows    == page.timeline
      entries == TimelineEntries
      Shown   == {n \in DOMAIN entries : entries[n].type # "actionFinished"}
      EndOf(a) == {entries[n].outcome :
                     n \in {m \in DOMAIN entries \ Shown : entries[m].action = a}}
  IN  /\ \A n \in DOMAIN journal : Mirrored(journal[n]) \/ journal[n].budget = "maxIdleTurns"
      /\ InOrder(entries) /\ InOrder(rows)
      /\ \A n \in Shown : \E i \in DOMAIN rows : rows[i].seq = entries[n].seq
      /\ \A i \in DOMAIN rows :
           \E n \in Shown :
             /\ rows[i].seq = entries[n].seq
             /\ rows[i].kind = entries[n].category \/ entries[n].type = "cancellationRequested"
             /\ entries[n].type = "actionStarted" =>
                  /\ rows[i].action = entries[n].action
                  /\ \/ EndOf(rows[i].action) = {} /\ rows[i].outcome = "none"
                     \/ EndOf(rows[i].action) = {rows[i].outcome}

\* The page's gauges never show more than result.json counts, one call apart: a browsing call is
\* told when it starts and counted when it returns, so the gauge of calls is one ahead while a call
\* is under way, and stays so when Ctrl-C or the attempt's deadline cuts it (runner.ts:1040 is not
\* reached).  When every line was written and no call or action was cut short the gauges are the
\* result's numbers exactly, less what the verifier cost, which is in the result and in no line
\* (runner.ts, verifyCriterion).  The indicative count is the result's plus the checks and
\* `finish`, and the threshold is told as crossed when the result says so.  A budget of calls shown
\* as exhausted is one the report shows with nothing left.
GaugesReconcile ==
  LET gauges == BlockingBudgets
      checks == Cardinality({i \in DOMAIN page.actions : page.actions[i].tool \notin BrowserTools})
      told   == [used |-> ActionGuidance.used - checks, exceeded |-> ActionGuidance.exceeded]
      report == AttemptView
      ahead  == IF pc = "calling" \/ exit.struck THEN 1 ELSE 0
  IN  /\ gauges.calls + verifierCalls <= AttemptOutcome.calls + ahead
      /\ gauges.tokens + AttemptOutcome.verifierTokens <= AttemptOutcome.tokens
      /\ gauges.verifier = 0
      /\ told.used <= report.actions.used
      /\ told.exceeded => report.actions.exceeded
      /\ gauges.callsExhausted => report.budgets.maxModelCalls.remaining = 0
      /\ gauges.tokensExhausted => report.budgets.maxTokens.remaining <= VerifierReserveTokens
      /\ refusals = 0 /\ ~ exit.cancelled /\ ~ exit.struck /\ pc \in {"loop", "turn", "done"} =>
           /\ gauges.tokens = AttemptOutcome.tokens - AttemptOutcome.verifierTokens
           /\ gauges.calls = AttemptOutcome.calls - verifierCalls
           /\ told = report.actions

\* As long as the store refused no line at all, an artifact captured in the course of an action is
\* shown under that action, and under no other: the page infers it from the order of lines and the
\* number of one of them, which an observation, a checkpoint, a screenshot and the capture after an
\* action each choose differently (reducer.ts, actionAtSeq).  The captures of the final pass belong
\* to no action, and nothing is said of them.
OwnersAgree ==
  refusals = 0 => during \subseteq page.artifacts
=============================================================================
