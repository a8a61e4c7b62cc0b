----------------------------- MODULE Invocation -----------------------------
(***************************************************************************)
(* One `difmp run --ui`: commands/run.ts runs the selected scenarios in    *)
(* order, each through runOne.ts, publishes their progress on the          *)
(* dashboard's bus, and ends with the exit code of cli.ts.                 *)
(*                                                                         *)
(* A run is what modules Run and Attempt make of it; here it is the lines  *)
(* it appends to its journal (store/runStore.ts, emit) and a final status. *)
(* A fiber of runOne carries each line from the store's live fan-out to    *)
(* the bus, in its own time; closing the run's scope ends it.              *)
(***************************************************************************)
EXTENDS Dashboard

CONSTANTS
  RunStatuses,      \* bound: what runs end with
  MaxLines,         \* bound: lines of a run before its last one
  FanOutCapacity,   \* lines the store's dropping PubSub holds
  AppendMayFail     \* whether a line's append can fail or be cut, part of it written

ASSUME InvocationAssumption ==
  /\ RunStatuses \subseteq {"passed", "failed", "inconclusive", "error", "cancelled"}
  /\ MaxLines \in Nat /\ FanOutCapacity \in Nat \ {0} /\ AppendMayFail \in BOOLEAN

VARIABLES
  pc,           \* start, next, running, interrupted, ending, serving, over
  seq,          \* the current run's sequence number
  written,      \* sequence numbers of the lines wholly in the current run's events.jsonl
  glued,        \* those of them on a line that a part of another began: unreadable
  partial,      \* events.jsonl ends in the middle of a line
  fanOut,       \* lines published by the store, not yet carried to the bus
  results,      \* statuses of the runs that returned, in order
  status,       \* the current run's, once it has one
  cancelReq,    \* POST /api/cancel
  code          \* the exit code, 255 before

runVars == <<seq, written, glued, partial, fanOut, results, status>>
vars == <<dashboardVars, pc, runVars, cancelReq, code>>

Current == Len(results) + 1

SuiteTypes == {"cliStarted", "cliFinished", "cancellationRequested"}
ScenarioTypes == {"scenarioStarted", "harness", "scenarioFinished"}
Messages == [type : SuiteTypes \cup ScenarioTypes, run : 0..Scenarios,
             line : [seq : Nat, status : RunStatuses \cup {"none"}]]

SuiteTypeOK ==
  /\ pc \in {"start", "next", "running", "interrupted", "ending", "serving", "over"}
  /\ seq \in 0..(MaxLines + 1) /\ partial \in BOOLEAN
  /\ written \in SUBSET (1..(MaxLines + 1)) /\ glued \in SUBSET (1..(MaxLines + 1))
  /\ results \in Seq(RunStatuses) /\ Len(results) <= Scenarios
  /\ status \in RunStatuses \cup {"none"}
  /\ journal \in Seq(Messages) /\ fanOut \in Seq(Messages) /\ Len(fanOut) <= FanOutCapacity
  /\ serving \in BOOLEAN /\ cancelReq \in BOOLEAN
  /\ code \in {0, 1, 2, 130, 255}

Models == [lines : Seq(Nat), status : RunStatuses \cup {"running"}]

Boards == [connection : {"connecting", "live", "reconnecting", "closed", "unavailable"},
           cursor : Nat, takeovers : 0..MaxTakeoverAttempts, timer : BOOLEAN,
           finished : BOOLEAN, completed : Nat, model : [1..Scenarios -> Models],
           rows : [1..Scenarios -> RunStatuses \cup {"none", "pending", "running"}]]

Conns == [state : {"none", "registered", "streaming"}, after : Nat, lastSent : Nat,
          replay : Seq(Nat), queue : Seq(Nat)]

Sources == [state : {"none", "connecting", "open"}, url : Nat, lastId : Nat]

PageTypeOK ==
  /\ conn \in Conns /\ Len(conn.queue) <= ClientCapacity
  /\ wire \in Seq(Nat) /\ source \in Sources /\ board \in Boards

\* The variables have their types, and every queue respects its capacity.
TypeOK == SuiteTypeOK /\ PageTypeOK

Init ==
  /\ DashboardInit
  /\ pc = "start" /\ seq = 0 /\ status = "none"
  /\ written = {} /\ glued = {} /\ partial = FALSE /\ fanOut = <<>>
  /\ results = <<>>
  /\ cancelReq = FALSE
  /\ code = 255

StartServer ==
  /\ pc = "start" /\ pc' = "next"
  /\ serving' = TRUE
  /\ Publish(Message("cliStarted", 0, NoLine))
  /\ UNCHANGED <<wire, pageVars, runVars, cancelReq, code>>

StartScenario ==
  /\ pc = "next" /\ Current <= Scenarios /\ ~ cancelReq
  /\ pc' = "running"
  /\ Publish(Message("scenarioStarted", Current, NoLine))
  /\ UNCHANGED <<serving, wire, pageVars, runVars, cancelReq, code>>

\* The store's fan-out drops what it cannot hold.
Offer(line) ==
  IF Len(fanOut) < FanOutCapacity
  THEN Append(fanOut, Message("harness", Current, line))
  ELSE fanOut

\* The line is wholly in the file: with what a failed append left before it, if anything.
Land(line) ==
  /\ written' = written \cup {line.seq}
  /\ glued' = IF partial THEN glued \cup {line.seq} ELSE glued
  /\ partial' = FALSE

\* The append failed, or was cut: none, a part or all of the line is in the file, and
\* nothing takes it back.
AppendFails(line) ==
  /\ AppendMayFail
  /\ Land(line) \/ (partial' \in {partial, TRUE} /\ UNCHANGED <<written, glued>>)

\* A plausible slip: live subscribers are told first.
EmitFanOutFirst(line) ==
  /\ seq' = line.seq
  /\ fanOut' = Offer(line)
  /\ Land(line) \/ AppendFails(line)

\* Journal first, live fan-out second.  The number of a refused line is spent.
Emit(line) ==
  /\ seq' = line.seq
  /\ \/ Land(line) /\ fanOut' = Offer(line)
     \/ AppendFails(line) /\ UNCHANGED fanOut

EmitLine ==
  /\ pc = "running" /\ seq < MaxLines
  /\ Emit([seq |-> seq + 1, status |-> "none"])
  /\ UNCHANGED <<dashboardVars, pc, results, status, cancelReq, code>>

\* The last line; a cancellation that comes too late for the run leaves its status.
EmitRunFinished ==
  /\ pc = "running" /\ pc' = "ending"
  /\ status' \in (IF cancelReq THEN RunStatuses ELSE RunStatuses \ {"cancelled"})
  /\ Emit([seq |-> seq + 1, status |-> status'])
  /\ UNCHANGED <<dashboardVars, results, cancelReq, code>>

FanOut ==
  /\ fanOut # <<>>
  /\ Publish(Head(fanOut))
  /\ fanOut' = Tail(fanOut)
  /\ UNCHANGED <<serving, wire, pageVars, pc, seq, written, glued, partial, results, status,
                 cancelReq, code>>

\* The run's own state goes with it.
EndRun ==
  seq' = 0 /\ written' = {} /\ glued' = {} /\ partial' = FALSE /\ status' = "none"

\* A plausible slip: the fiber that carries lines to the bus outlives the run.
FinishLeavingTheFiber ==
  /\ pc = "ending" /\ pc' = "next"
  /\ results' = Append(results, status)
  /\ EndRun
  /\ Publish(Message("scenarioFinished", Current, [seq |-> 0, status |-> status]))
  /\ UNCHANGED <<serving, wire, pageVars, fanOut, cancelReq, code>>

\* The run's scope closes: what its fan-out had not carried yet is lost to the bus.
\* Then runOne writes the reports, returns, and the scenario is announced as finished.
ScenarioFinished ==
  /\ pc = "ending" /\ pc' = "next"
  /\ results' = Append(results, status)
  /\ EndRun /\ fanOut' = <<>>
  /\ Publish(Message("scenarioFinished", Current, [seq |-> 0, status |-> status]))
  /\ UNCHANGED <<serving, wire, pageVars, cancelReq, code>>

Leave(exitCode) ==
  /\ pc' = "over" /\ code' = exitCode
  /\ serving' = FALSE
  /\ conn' = NoConn /\ wire' = <<>>
  /\ source' = IF source.state = "none" THEN source ELSE [source EXCEPT !.state = "connecting"]

\* A model adapter, a layer, a run or a report that cannot be had: nothing is
\* published, the whole invocation ends.  An execution error has its own code, a defect
\* has not.
ScenarioCannotRun ==
  /\ pc \in {"running", "ending"}
  /\ \E exitCode \in {1, 2} : Leave(exitCode)
  /\ EndRun /\ fanOut' = <<>>
  /\ UNCHANGED <<journal, board, drops, results, cancelReq>>

\* Every scenario ran, or a cancellation was heard between two of them.
FinishSuite ==
  /\ pc = "next" /\ (Current > Scenarios \/ cancelReq)
  /\ pc' = "serving"
  /\ Publish(Message("cliFinished", 0, [seq |-> Len(results), status |-> "none"]))
  /\ UNCHANGED <<serving, wire, pageVars, runVars, cancelReq, code>>

\* A plausible slip: the first scenario that did not pass decides.
ExitForFirst(statuses) ==
  LET bad == SelectSeq(statuses, LAMBDA s : s # "passed")
  IN  IF bad = <<>> THEN 0
      ELSE CASE Head(bad) = "cancelled" -> 130 [] Head(bad) = "error" -> 2 [] OTHER -> 1

\* What the outcome of the scenarios that ran makes of the whole.
ExitFor(statuses) ==
  LET Some(s) == \E i \in DOMAIN statuses : statuses[i] = s
  IN  IF Some("cancelled") THEN 130
      ELSE IF Some("error") THEN 2
      ELSE IF Some("failed") \/ Some("inconclusive") THEN 1
      ELSE 0

\* At once, or when an interactive dashboard is dismissed, which is any time later.
Exit ==
  /\ pc = "serving"
  /\ Leave(ExitFor(results))
  /\ UNCHANGED <<journal, board, drops, runVars, cancelReq>>

\* Ctrl-C.  A run under way writes its last line before its fiber dies (module Run) ...
InterruptRun ==
  /\ pc = "running" /\ pc' = "interrupted"
  /\ status' \in RunStatuses
  /\ Emit([seq |-> seq + 1, status |-> status'])
  /\ UNCHANGED <<dashboardVars, results, cancelReq, code>>

\* ... and elsewhere, once what cannot be interrupted is over, the invocation ends.
Interrupt ==
  /\ pc \notin {"start", "running", "over"}
  /\ Leave(130)
  /\ EndRun /\ fanOut' = <<>>
  /\ UNCHANGED <<journal, board, drops, results, cancelReq>>

\* Bound: the first request only; a later one publishes the same message and changes nothing.
PostCancel ==
  /\ serving /\ ~ cancelReq
  /\ cancelReq' = TRUE
  /\ Publish(Message("cancellationRequested", 0, NoLine))
  /\ UNCHANGED <<serving, wire, pageVars, pc, runVars, code>>

Next ==
  \/ serving /\ Page /\ UNCHANGED <<pc, runVars, cancelReq, code>>
  \/ StartServer \/ StartScenario \/ EmitLine \/ EmitRunFinished \/ FanOut
  \/ ScenarioFinished \/ ScenarioCannotRun \/ FinishSuite \/ Exit
  \/ InterruptRun \/ Interrupt \/ PostCancel

Spec == Init /\ [][Next]_vars

-----------------------------------------------------------------------------
(* Properties *)

\* The lines of the current run that its live fan-out carries, or has carried to the page.
Announced ==
  {n \in 1..(MaxLines + 1) : \E told \in {fanOut, journal} : \E i \in 1..Len(told) :
     told[i].type = "harness" /\ told[i].run = Current /\ told[i].line.seq = n}

\* While the invocation runs, whatever is announced to a page, or on its way there, was
\* wholly appended to the run's journal (runStore.ts, emit); and it can be read back from
\* it, but for a line that follows one whose append failed.  That exception is what the code
\* does, although README.md:554 says that the dashboard never shows what the journal lacks.
LiveLinesAreWritten ==
  pc # "over" => \A n \in Announced : n \in written /\ (n \in glued => n - 1 \notin written)

\* A board that has closed by itself shows the suite as the CLI saw it: every scenario
\* that ran with its status, even if its last line was lost, the others pending.
FinishedBoardIsTrue ==
  board.finished =>
    /\ board.completed = Len(results)
    /\ \A s \in 1..Scenarios :
         board.rows[s] = IF s <= Len(results) THEN results[s] ELSE "pending"

\* A board that has closed by itself explains the exit code, unless it says 130: it is
\* neither 2 without a row in error nor 1 without a verdict that did not pass, and nothing
\* more serious stands in another row, whatever the order they ran in.  Rows are left
\* pending only by a cancellation (commands/run.ts, exitFor), and code 0 may then stand next
\* to them, although README.md:515 says of 0 that every selected scenario passed.
BoardExplainsExit ==
  board.finished /\ code \notin {130, 255} =>
    LET Shown == {board.rows[s] : s \in 1..Scenarios}
    IN  /\ "cancelled" \notin Shown
        /\ code = 2 <=> "error" \in Shown
        /\ code = 1 <=> "error" \notin Shown /\ Shown \cap {"failed", "inconclusive"} # {}
        /\ "pending" \in Shown => cancelReq
=============================================================================
