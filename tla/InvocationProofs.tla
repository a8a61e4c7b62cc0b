--------------------------- MODULE InvocationProofs ---------------------------
(***************************************************************************)
(* What module Invocation promises of an invocation and of the page that   *)
(* follows it, for every number of scenarios, every capacity and every     *)
(* number of link failures.                                                *)
(*                                                                         *)
(* The suite journal is the common ground: Chronicle says in which order   *)
(* it can tell of the scenarios, Stream that the frames in flight continue *)
(* it without a gap from the page's cursor, Told and Applied what the      *)
(* board has made of it up to there: its statuses, its lines and its count *)
(* of them, for which the lines of a run must be Numbered in order.  Live  *)
(* relates it to the journal of the run that is under way, Torn says what  *)
(* a failed append may have done to that journal, Ended what the exit code *)
(* has to do with a suite that came to its end.                            *)
(***************************************************************************)
EXTENDS Invocation, SequenceTheorems, TLAPS

-----------------------------------------------------------------------------
(* The inductive invariant.                                                 *)

\* The message is about one scenario.
OfScenario(i) == journal[i].type \in ScenarioTypes

InRun == {"running", "interrupted", "ending"}

\* What each phase of the invocation says of the rest.
Control ==
  /\ pc = "start" => journal = <<>>
  /\ pc \notin {"start", "over"} => journal # <<>>
  /\ serving => pc \notin {"start", "over"}
  /\ pc \in {"ending", "interrupted"} => status # "none"
  /\ pc \notin InRun => fanOut = <<>>
  /\ pc \in {"start", "next"} => seq = 0
  /\ pc = "running" => seq <= MaxLines
  /\ pc \in InRun => Len(results) < Scenarios
  /\ pc = "serving" => Len(results) = Scenarios \/ cancelReq
  /\ pc # "over" => code = 255

\* The order in which the suite journal tells of the scenarios.
Chronicle ==
  /\ \A i \in 1..Len(journal) : journal[i].type = "cliStarted" <=> i = 1
  /\ \A i \in 1..Len(journal) : OfScenario(i) =>
       /\ journal[i].run \in 1..Current
       /\ journal[i].run = Current => pc \in InRun \cup {"over"}
  /\ \A i \in 1..Len(journal) : journal[i].type = "scenarioFinished" =>
       /\ journal[i].run \in 1..Len(results) /\ journal[i].line.status = results[journal[i].run]
       /\ \A j \in 1..Len(journal) : j > i /\ OfScenario(j) => journal[j].run > journal[i].run
  /\ \A s \in 1..Len(results) : \E i \in 1..Len(journal) :
       journal[i].type = "scenarioFinished" /\ journal[i].run = s
  /\ \A k \in 1..Len(journal) : journal[k].type = "cliFinished" =>
       /\ pc \in {"serving", "over"} /\ journal[k].line.seq = Len(results)
       /\ \A i \in 1..Len(journal) : OfScenario(i) => i < k /\ journal[i].run <= Len(results)

\* The lines of the current run that were published are in its journal.
Live ==
  pc # "over" =>
    /\ \A i \in 1..Len(fanOut) :
         fanOut[i].type = "harness" /\ fanOut[i].run = Current /\ fanOut[i].line.seq \in written
    /\ \A i \in 1..Len(journal) :
         journal[i].type = "harness" /\ journal[i].run = Current => journal[i].line.seq \in written

\* Only a line that follows one whose append failed can stand on a line that is not its own.
Torn ==
  /\ glued \subseteq written
  /\ \A n \in written : n <= seq
  /\ \A n \in glued : n - 1 \notin written
  /\ partial => seq \notin written

\* A suite that came to its end is told by its exit code, or was interrupted afterwards.
Ended ==
  pc = "over" /\ board.finished =>
    /\ code \in {130, ExitFor(results)}
    /\ Len(results) = Scenarios \/ cancelReq

\* The frames in flight continue the journal from the page's cursor, without a gap.
Stream ==
  /\ board.cursor <= Len(journal)
  /\ source.url <= board.cursor /\ source.lastId <= board.cursor
  /\ conn.state = "none" => wire = <<>>
  /\ conn.state = "registered" => wire = <<>> /\ conn.lastSent = conn.after /\ conn.replay = <<>>
  /\ source.state = "none" => conn.state = "none"
  /\ board.finished => source.state = "none"
  /\ conn.state # "none" =>
       /\ conn.lastSent <= Len(journal)
       /\ \A i \in 1..Len(conn.replay) : conn.replay[i] <= Len(journal)
       /\ \A i \in 1..Len(conn.queue) : conn.queue[i] <= Len(journal)
       /\ Len(wire) <= conn.lastSent /\ conn.lastSent <= board.cursor + Len(wire)
       /\ \A i \in 1..Len(wire) : wire[i] + Len(wire) = conn.lastSent + i

\* What the board shows of the scenarios the journal tells of, up to the cursor.
Told ==
  /\ \A i \in 1..board.cursor : journal[i].type = "scenarioFinished" =>
       board.rows[journal[i].run] = journal[i].line.status
  /\ board.cursor > 0 => \A s \in 1..Scenarios :
       (\A i \in 1..board.cursor : OfScenario(i) => journal[i].run # s) => board.rows[s] = "pending"
  /\ board.finished => pc \in {"serving", "over"} /\ FinishedBoardIsTrue

Harness(i) == journal[i].type = "harness"

\* The lines of a run, and those still on their way to the journal, are numbered in order;
\* and nothing is told of a scenario before it starts.
Numbered ==
  /\ \A i, j \in 1..Len(journal) :
       Harness(i) /\ Harness(j) /\ i < j /\ journal[i].run = journal[j].run =>
         journal[i].line.seq < journal[j].line.seq
  /\ \A i \in 1..Len(journal) : journal[i].type = "scenarioStarted" =>
       \A j \in 1..Len(journal) : j < i /\ OfScenario(j) => journal[j].run # journal[i].run
  /\ pc # "over" =>
       /\ \A j \in 1..Len(fanOut) : fanOut[j].line.seq <= seq
       /\ \A i, j \in 1..Len(fanOut) : i < j => fanOut[i].line.seq < fanOut[j].line.seq
       /\ \A i \in 1..Len(journal) : Harness(i) /\ journal[i].run = Current =>
            /\ journal[i].line.seq <= seq
            /\ \A j \in 1..Len(fanOut) : journal[i].line.seq < fanOut[j].line.seq

\* What the board holds of the lines it was told, and of the scenarios that ended.
Applied ==
  /\ \A s \in 1..Scenarios :
       /\ \A i, j \in 1..Len(board.model[s].lines) :
            i < j => board.model[s].lines[i] < board.model[s].lines[j]
       /\ \A i \in 1..Len(board.model[s].lines) : \E n \in 1..board.cursor :
            Harness(n) /\ journal[n].run = s /\ journal[n].line.seq = board.model[s].lines[i]
       /\ \A n \in 1..board.cursor : Harness(n) /\ journal[n].run = s =>
            \E i \in 1..Len(board.model[s].lines) : board.model[s].lines[i] = journal[n].line.seq
  /\ ~ board.finished =>
       /\ \A n \in 1..board.cursor :
            journal[n].type = "scenarioFinished" => journal[n].run <= board.completed
       /\ \A s \in 1..board.completed : \E n \in 1..board.cursor :
            journal[n].type = "scenarioFinished" /\ journal[n].run = s

IInv ==
  /\ TypeOK /\ Control /\ Chronicle /\ Live /\ Torn /\ Stream /\ Numbered
  /\ Told /\ Applied /\ Ended

-----------------------------------------------------------------------------
(* The operators.                                                           *)

\* What publishing a message does to the journal and to the client's queue.
LEMMA PublishLaw ==
  ASSUME TypeOK, NEW m \in Messages, Publish(m)
  PROVE  /\ journal' \in Seq(Messages) /\ Len(journal') = Len(journal) + 1 /\ Len(journal) \in Nat
         /\ \A i \in 1..Len(journal) : journal'[i] = journal[i]
         /\ journal'[Len(journal) + 1] = m
         /\ conn' \in Conns /\ Len(conn'.queue) <= ClientCapacity
         /\ UNCHANGED <<conn.state, conn.after, conn.lastSent, conn.replay>>
         /\ \/ conn'.queue = conn.queue
            \/ /\ Len(conn'.queue) = Len(conn.queue) + 1
               /\ \A i \in 1..Len(conn.queue) : conn'.queue[i] = conn.queue[i]
               /\ conn'.queue[Len(conn.queue) + 1] = Len(journal) + 1
<1>1. /\ journal \in Seq(Messages) /\ conn \in Conns
      /\ conn.queue \in Seq(Nat) /\ Len(conn.queue) <= ClientCapacity
  BY DEF TypeOK, SuiteTypeOK, PageTypeOK, Conns
<1>2. /\ journal' \in Seq(Messages) /\ Len(journal') = Len(journal) + 1
      /\ \A i \in 1..Len(journal) : journal'[i] = journal[i]
      /\ journal'[Len(journal) + 1] = m
  BY <1>1, AppendProperties DEF Publish
<1>3. Len(journal) \in Nat /\ Len(conn.queue) \in Nat /\ ClientCapacity \in Nat
  BY <1>1, LenProperties, DashboardAssumption
<1>4. CASE conn.state # "none" /\ Len(conn.queue) < ClientCapacity
  <2>1. conn' = [conn EXCEPT !.queue = Append(conn.queue, Len(journal) + 1)]
    BY <1>4 DEF Publish
  <2>2. /\ Append(conn.queue, Len(journal) + 1) \in Seq(Nat)
        /\ Len(Append(conn.queue, Len(journal) + 1)) = Len(conn.queue) + 1
        /\ \A i \in 1..Len(conn.queue) :
             Append(conn.queue, Len(journal) + 1)[i] = conn.queue[i]
        /\ Append(conn.queue, Len(journal) + 1)[Len(conn.queue) + 1] = Len(journal) + 1
    BY <1>1, <1>3, AppendProperties
  <2>3. /\ conn'.queue = Append(conn.queue, Len(journal) + 1)
        /\ UNCHANGED <<conn.state, conn.after, conn.lastSent, conn.replay>>
        /\ conn' \in Conns
    BY <1>1, <2>1, <2>2 DEF Conns
  <2>4. Len(conn'.queue) <= ClientCapacity
    BY <1>3, <1>4, <2>2, <2>3
  <2> QED BY <1>2, <1>3, <2>2, <2>3, <2>4
<1>5. CASE ~ (conn.state # "none" /\ Len(conn.queue) < ClientCapacity)
  <2>1. conn' = conn
    BY <1>5 DEF Publish
  <2> QED BY <1>1, <1>2, <1>3, <2>1
<1> QED BY <1>4, <1>5

\* The fold keeps a model's types.
LEMMA FoldTyped ==
  ASSUME NEW model \in Models, NEW line, line.seq \in Nat,
         line.status \in RunStatuses \cup {"none"}
  PROVE  Fold(model, line) \in Models
<1>1. Append(model.lines, line.seq) \in Seq(Nat)
  BY AppendProperties DEF Models
<1> QED BY <1>1 DEF Fold, Models

Rows == RunStatuses \cup {"none", "pending", "running"}

\* A board on which the scenarios were updated.
Updated(b, models, rows, completed) ==
  [b EXCEPT !.model = models, !.rows = rows, !.completed = completed]

\* An update keeps the types, and leaves the connection's part of the board alone.
LEMMA UpdatedLaw ==
  ASSUME NEW b \in Boards, NEW models \in [1..Scenarios -> Models],
         NEW rows \in [1..Scenarios -> Rows], NEW completed \in Nat
  PROVE  /\ Updated(b, models, rows, completed) \in Boards
         /\ Updated(b, models, rows, completed).cursor = b.cursor
         /\ Updated(b, models, rows, completed).finished = b.finished
         /\ Updated(b, models, rows, completed).rows = rows
         /\ Updated(b, models, rows, completed).model = models
         /\ Updated(b, models, rows, completed).completed = completed
BY DEF Updated, Boards, Rows

\* The types of what an update starts from.
LEMMA BoardFields ==
  ASSUME NEW b \in Boards
  PROVE  /\ b.model \in [1..Scenarios -> Models] /\ b.rows \in [1..Scenarios -> Rows]
         /\ b.completed \in Nat /\ b.cursor \in Nat /\ b.finished \in BOOLEAN
BY DEF Boards, Rows

\* What the page shows after a message: its types, its cursor and its rows.
LEMMA ShowLaw ==
  ASSUME NEW b \in Boards, NEW m \in Messages, m.type \in ScenarioTypes => m.run \in 1..Scenarios
  PROVE  /\ Show(b, m) \in Boards /\ Show(b, m).cursor = b.cursor
         /\ m.type # "cliFinished" => Show(b, m).finished = b.finished
         /\ m.type \in {"cancellationRequested", "cliFinished"} => Show(b, m).rows = b.rows
         /\ m.type = "cliFinished" => Show(b, m).finished /\ Show(b, m).completed = m.line.seq
         /\ m.type = "cliStarted" => \A s \in 1..Scenarios : Show(b, m).rows[s] = "pending"
         /\ m.type \in ScenarioTypes =>
              \A s \in (1..Scenarios) \ {m.run} : Show(b, m).rows[s] = b.rows[s]
         /\ m.type = "scenarioFinished" => Show(b, m).rows[m.run] = m.line.status
         /\ m.type \notin ScenarioTypes => Show(b, m).model = b.model
         /\ m.type \in ScenarioTypes =>
              \A s \in (1..Scenarios) \ {m.run} : Show(b, m).model[s] = b.model[s]
         /\ m.type = "scenarioStarted" => Show(b, m).model[m.run] = EmptyModel
         /\ m.type = "harness" => Show(b, m).model[m.run] = Fold(b.model[m.run], m.line)
         /\ m.type = "scenarioFinished" => Show(b, m).model[m.run] = b.model[m.run]
         /\ m.type = "cliStarted" => Show(b, m).completed = 0
         /\ m.type \in {"scenarioStarted", "harness", "cancellationRequested"} =>
              Show(b, m).completed = b.completed
         /\ m.type = "scenarioFinished" =>
              Show(b, m).completed = IF b.completed < Scenarios THEN b.completed + 1
                                     ELSE b.completed
<1>1. /\ m.line.seq \in Nat /\ m.line.status \in RunStatuses \cup {"none"}
      /\ m.type \in SuiteTypes \cup ScenarioTypes
  BY DEF Messages
<1>2. /\ b.model \in [1..Scenarios -> Models] /\ b.rows \in [1..Scenarios -> Rows]
      /\ b.completed \in Nat
  BY BoardFields
<1>3. CASE m.type = "cliStarted"
  <2> DEFINE all == [s \in 1..Scenarios |-> "pending"]
  <2>0. PICK zero \in Nat : zero = 0
    OBVIOUS
  <2>1. Show(b, m) = Updated(b, b.model, all, zero)
    BY <1>3, <2>0 DEF Show, Updated, Boards
  <2>2. all \in [1..Scenarios -> Rows] /\ \A s \in 1..Scenarios : all[s] = "pending"
    BY DEF Rows
  <2> HIDE DEF all
  <2>3. /\ Show(b, m) \in Boards /\ Show(b, m).cursor = b.cursor
        /\ Show(b, m).finished = b.finished /\ Show(b, m).rows = all
        /\ Show(b, m).model = b.model /\ Show(b, m).completed = 0
    BY <1>2, <2>0, <2>1, <2>2, UpdatedLaw, SMTT(30)
  <2> QED BY <1>3, <2>2, <2>3 DEF ScenarioTypes
<1>4. ASSUME m.type \in ScenarioTypes,
             NEW model \in Models, NEW row \in Rows, NEW completed \in Nat,
             Show(b, m) = Updated(b, [b.model EXCEPT ![m.run] = model],
                                  [b.rows EXCEPT ![m.run] = row], completed)
      PROVE  /\ Show(b, m) \in Boards /\ Show(b, m).cursor = b.cursor
             /\ Show(b, m).finished = b.finished
             /\ \A s \in (1..Scenarios) \ {m.run} : Show(b, m).rows[s] = b.rows[s]
             /\ Show(b, m).rows[m.run] = row /\ Show(b, m).completed = completed
             /\ \A s \in (1..Scenarios) \ {m.run} : Show(b, m).model[s] = b.model[s]
             /\ Show(b, m).model[m.run] = model
  <2> DEFINE models == [b.model EXCEPT ![m.run] = model]
             rows   == [b.rows EXCEPT ![m.run] = row]
  <2>1. /\ models \in [1..Scenarios -> Models] /\ rows \in [1..Scenarios -> Rows]
        /\ \A s \in (1..Scenarios) \ {m.run} : rows[s] = b.rows[s]
        /\ rows[m.run] = row
        /\ \A s \in (1..Scenarios) \ {m.run} : models[s] = b.model[s]
        /\ models[m.run] = model
    BY <1>2, <1>4
  <2>2. Show(b, m) = Updated(b, models, rows, completed)
    BY <1>4
  <2> HIDE DEF models, rows
  <2>3. /\ Show(b, m) \in Boards /\ Show(b, m).cursor = b.cursor
        /\ Show(b, m).finished = b.finished /\ Show(b, m).rows = rows
        /\ Show(b, m).model = models /\ Show(b, m).completed = completed
    BY <1>4, <2>1, <2>2, UpdatedLaw, SMTT(30)
  <2> QED BY <2>1, <2>3
<1>5. CASE m.type = "scenarioStarted"
  <2>1. EmptyModel \in Models /\ "running" \in Rows
    BY EmptySeq DEF EmptyModel, Models, Rows
  <2>2. Show(b, m) = Updated(b, [b.model EXCEPT ![m.run] = EmptyModel],
                             [b.rows EXCEPT ![m.run] = "running"], b.completed)
    BY <1>5 DEF Show, Updated, Boards
  <2>3. m.type \in ScenarioTypes
    BY <1>5 DEF ScenarioTypes
  <2>4. /\ Show(b, m) \in Boards /\ Show(b, m).cursor = b.cursor
        /\ Show(b, m).finished = b.finished
        /\ \A s \in (1..Scenarios) \ {m.run} : Show(b, m).rows[s] = b.rows[s]
        /\ \A s \in (1..Scenarios) \ {m.run} : Show(b, m).model[s] = b.model[s]
        /\ Show(b, m).model[m.run] = EmptyModel /\ Show(b, m).completed = b.completed
    BY <1>2, <1>4, <2>1, <2>2, <2>3, ZenonT(30)
  <2> QED BY <1>5, <2>3, <2>4
<1>6. CASE m.type = "harness"
  <2> DEFINE next == Fold(b.model[m.run], m.line)
  <2>1. m.type \in ScenarioTypes
    BY <1>6 DEF ScenarioTypes
  <2>2. next \in Models
    BY <1>1, <1>2, <2>1, FoldTyped
  <2>3. next.status \in Rows
    BY <2>2 DEF Models, Rows
  <2>4. Show(b, m) = Updated(b, [b.model EXCEPT ![m.run] = next],
                             [b.rows EXCEPT ![m.run] = next.status], b.completed)
    BY <1>6 DEF Show, Updated, Boards
  <2> HIDE DEF next
  <2>5. /\ Show(b, m) \in Boards /\ Show(b, m).cursor = b.cursor
        /\ Show(b, m).finished = b.finished
        /\ \A s \in (1..Scenarios) \ {m.run} : Show(b, m).rows[s] = b.rows[s]
        /\ \A s \in (1..Scenarios) \ {m.run} : Show(b, m).model[s] = b.model[s]
        /\ Show(b, m).model[m.run] = next /\ Show(b, m).completed = b.completed
    BY <1>2, <1>4, <2>1, <2>2, <2>3, <2>4, ZenonT(30)
  <2> QED BY <1>6, <2>1, <2>5 DEF next
<1>7. CASE m.type = "scenarioFinished"
  <2>1. m.type \in ScenarioTypes /\ m.line.status \in Rows
    BY <1>1, <1>7 DEF ScenarioTypes, Rows
  <2>2. PICK completed \in Nat :
          completed = IF b.completed < Scenarios THEN b.completed + 1 ELSE b.completed
    BY <1>2
  <2>3. [b.model EXCEPT ![m.run] = b.model[m.run]] = b.model /\ b.model[m.run] \in Models
    BY <1>2, <2>1
  <2>4. Show(b, m) = Updated(b, b.model, [b.rows EXCEPT ![m.run] = m.line.status], completed)
    BY <1>7, <2>2 DEF Show, Updated, Boards
  <2>5. Show(b, m) = Updated(b, [b.model EXCEPT ![m.run] = b.model[m.run]],
                             [b.rows EXCEPT ![m.run] = m.line.status], completed)
    BY <2>3, <2>4
  <2>6. /\ Show(b, m) \in Boards /\ Show(b, m).cursor = b.cursor
        /\ Show(b, m).finished = b.finished
        /\ \A s \in (1..Scenarios) \ {m.run} : Show(b, m).rows[s] = b.rows[s]
        /\ Show(b, m).rows[m.run] = m.line.status
        /\ \A s \in (1..Scenarios) \ {m.run} : Show(b, m).model[s] = b.model[s]
        /\ Show(b, m).model[m.run] = b.model[m.run] /\ Show(b, m).completed = completed
    BY <1>4, <2>1, <2>3, <2>5
  <2> QED BY <1>7, <2>1, <2>2, <2>6
<1>8. CASE m.type = "cliFinished"
  <2>1. Show(b, m) = [b EXCEPT !.completed = m.line.seq, !.finished = TRUE, !.timer = FALSE,
                               !.connection = "closed"]
    BY <1>8 DEF Show, Closed, Boards
  <2> QED BY <1>1, <1>8, <2>1 DEF ScenarioTypes, Boards
<1>9. CASE m.type = "cancellationRequested"
  BY <1>9 DEF Show, ScenarioTypes
<1> QED BY <1>1, <1>3, <1>5, <1>6, <1>7, <1>8, <1>9 DEF SuiteTypes, ScenarioTypes

\* A message is typed when its line is.
LEMMA MessageTyped ==
  ASSUME NEW type \in SuiteTypes \cup ScenarioTypes, NEW run \in 0..Scenarios,
         NEW n \in Nat, NEW s \in RunStatuses \cup {"none"}
  PROVE  /\ Message(type, run, [seq |-> n, status |-> s]) \in Messages
         /\ Message(type, run, [seq |-> n, status |-> s]).type = type
         /\ Message(type, run, [seq |-> n, status |-> s]).run = run
         /\ Message(type, run, [seq |-> n, status |-> s]).line.seq = n
         /\ Message(type, run, [seq |-> n, status |-> s]).line.status = s
BY DEF Message, Messages

\* What emitting a line of the current run does to its journal and to the live fan-out.
LEMMA EmitLaw ==
  ASSUME SuiteTypeOK, Len(results) < Scenarios, seq <= MaxLines,
         NEW s \in RunStatuses \cup {"none"}, Emit([seq |-> seq + 1, status |-> s])
  PROVE  /\ seq' = seq + 1 /\ seq' \in 0..(MaxLines + 1)
         /\ written' \in SUBSET (1..(MaxLines + 1)) /\ written \subseteq written'
         /\ glued' \in SUBSET (1..(MaxLines + 1)) /\ partial' \in BOOLEAN
         /\ fanOut' \in Seq(Messages) /\ Len(fanOut') <= FanOutCapacity
         /\ \/ fanOut' = fanOut
            \/ /\ Len(fanOut') = Len(fanOut) + 1 /\ Len(fanOut) \in Nat
               /\ \A i \in 1..Len(fanOut) : fanOut'[i] = fanOut[i]
               /\ fanOut'[Len(fanOut) + 1].type = "harness"
               /\ fanOut'[Len(fanOut) + 1].run = Current
               /\ fanOut'[Len(fanOut) + 1].line.seq \in written'
               /\ fanOut'[Len(fanOut) + 1].line.seq = seq + 1
<1> DEFINE m == Message("harness", Current, [seq |-> seq + 1, status |-> s])
<1>1. /\ seq \in Nat /\ seq + 1 \in 1..(MaxLines + 1) /\ Current \in 0..Scenarios
      /\ Len(fanOut) \in Nat /\ Len(results) \in Nat
  BY InvocationAssumption, DashboardAssumption, LenProperties DEF SuiteTypeOK, Current
<1>2. /\ m \in Messages /\ m.type = "harness" /\ m.run = Current
      /\ m.line.seq = seq + 1
  <2> DEFINE n == seq + 1
  <2>1. "harness" \in SuiteTypes \cup ScenarioTypes /\ n \in Nat
    BY <1>1 DEF ScenarioTypes
  <2> HIDE DEF n
  <2>2. /\ Message("harness", Current, [seq |-> n, status |-> s]) \in Messages
        /\ Message("harness", Current, [seq |-> n, status |-> s]).type = "harness"
        /\ Message("harness", Current, [seq |-> n, status |-> s]).run = Current
        /\ Message("harness", Current, [seq |-> n, status |-> s]).line.seq = n
    BY <1>1, <2>1, MessageTyped
  <2> QED BY <2>2 DEF n
<1>3. /\ Append(fanOut, m) \in Seq(Messages)
      /\ Len(Append(fanOut, m)) = Len(fanOut) + 1
      /\ \A i \in 1..Len(fanOut) : Append(fanOut, m)[i] = fanOut[i]
      /\ Append(fanOut, m)[Len(fanOut) + 1] = m
  <2> HIDE DEF m
  <2> QED BY <1>2, AppendProperties DEF SuiteTypeOK
<1>4. seq' = seq + 1
  BY DEF Emit
<1>5. \/ written' = written \cup {seq + 1} /\ fanOut' = fanOut
      \/ /\ written' = written \cup {seq + 1} /\ fanOut' = Append(fanOut, m)
         /\ Len(fanOut) < FanOutCapacity
      \/ written' = written /\ fanOut' = fanOut
  BY DEF Emit, Offer, Land, AppendFails
<1>6. fanOut \in Seq(Messages) /\ Len(fanOut) <= FanOutCapacity /\ FanOutCapacity \in Nat
      /\ written \in SUBSET (1..(MaxLines + 1)) /\ glued \in SUBSET (1..(MaxLines + 1))
      /\ partial \in BOOLEAN
  BY InvocationAssumption DEF SuiteTypeOK
<1> HIDE DEF m
<1>7. /\ written' \in SUBSET (1..(MaxLines + 1)) /\ written \subseteq written'
      /\ glued' \in SUBSET (1..(MaxLines + 1)) /\ partial' \in BOOLEAN
      /\ seq' \in 0..(MaxLines + 1)
  <2>1. seq' \in 0..(MaxLines + 1)
    BY <1>1, <1>4
  <2>2. written' = written \cup {seq + 1} \/ written' = written
    BY <1>5
  <2>3. written' \subseteq 1..(MaxLines + 1)
    BY <1>1, <1>6, <2>2
  <2>4. glued' \in {glued, glued \cup {seq + 1}} /\ partial' \in {partial, TRUE, FALSE}
    BY DEF Emit, Land, AppendFails
  <2>5. glued' \subseteq 1..(MaxLines + 1) /\ partial' \in BOOLEAN
    BY <1>1, <1>6, <2>4
  <2> QED BY <2>1, <2>2, <2>3, <2>5
<1>8. CASE fanOut' = fanOut
  BY <1>4, <1>6, <1>7, <1>8
<1>9. CASE /\ written' = written \cup {seq + 1} /\ fanOut' = Append(fanOut, m)
           /\ Len(fanOut) < FanOutCapacity
  <2>1. /\ fanOut' \in Seq(Messages) /\ Len(fanOut') = Len(fanOut) + 1
        /\ \A i \in 1..Len(fanOut) : fanOut'[i] = fanOut[i]
        /\ fanOut'[Len(fanOut) + 1] = m
    BY <1>3, <1>9
  <2>2. Len(fanOut') <= FanOutCapacity
    BY <1>1, <1>6, <1>9, <2>1
  <2>3. m.line.seq \in written'
    BY <1>2, <1>9
  <2> QED BY <1>1, <1>2, <1>4, <1>7, <2>1, <2>2, <2>3
<1> QED BY <1>5, <1>8, <1>9

-----------------------------------------------------------------------------
(* The types.                                                               *)

\* A step of the page or of its stream is none of the invocation's.
LEMMA PageLeavesTheSuite ==
  ASSUME Page
  PROVE  UNCHANGED <<journal, serving>>
BY DEF Page, Subscribe, Respond, Send, Receive, LinkRetries, LinkGivesUp, TimerFires,
       ReconnectNow, Reload

\* What each announcement of the invocation publishes is a message.
LEMMA PublishedAreMessages ==
  ASSUME TypeOK, Control
  PROVE  /\ Message("cliStarted", 0, NoLine) \in Messages
         /\ StartScenario => Message("scenarioStarted", Current, NoLine) \in Messages
         /\ FanOut => Head(fanOut) \in Messages
         /\ ScenarioFinished =>
              Message("scenarioFinished", Current, [seq |-> 0, status |-> status]) \in Messages
         /\ Message("cliFinished", 0, [seq |-> Len(results), status |-> "none"]) \in Messages
         /\ Message("cancellationRequested", 0, NoLine) \in Messages
<1>1. /\ SuiteTypeOK /\ Len(results) \in Nat /\ Scenarios \in Nat /\ 0 \in 0..Scenarios
      /\ 0 \in Nat /\ "none" \in RunStatuses \cup {"none"}
  BY DashboardAssumption, LenProperties DEF TypeOK, SuiteTypeOK
<1>2. /\ Message("cliStarted", 0, NoLine) \in Messages
      /\ Message("cancellationRequested", 0, NoLine) \in Messages
  BY <1>1, MessageTyped DEF NoLine, SuiteTypes
<1>3. Message("cliFinished", 0, [seq |-> Len(results), status |-> "none"]) \in Messages
  BY <1>1, MessageTyped DEF SuiteTypes
<1>4. ASSUME StartScenario PROVE Message("scenarioStarted", Current, NoLine) \in Messages
  <2>1. Current \in 0..Scenarios
    BY <1>1, <1>4 DEF StartScenario, Current
  <2> QED BY <1>1, <2>1, MessageTyped DEF NoLine, ScenarioTypes
<1>5. ASSUME FanOut PROVE Head(fanOut) \in Messages
  BY <1>1, <1>5, HeadTailProperties DEF FanOut, SuiteTypeOK
<1>6. ASSUME ScenarioFinished
      PROVE  Message("scenarioFinished", Current, [seq |-> 0, status |-> status]) \in Messages
  <2>1. Current \in 0..Scenarios /\ status \in RunStatuses \cup {"none"}
    BY <1>1, <1>6 DEF ScenarioFinished, Control, InRun, Current, SuiteTypeOK
  <2> QED BY <1>1, <2>1, MessageTyped DEF ScenarioTypes
<1> QED BY <1>2, <1>3, <1>4, <1>5, <1>6

\* A step is the page's or its stream's, publishes a message, ends the invocation, or is
\* none of the dashboard's business.
LEMMA StepKinds ==
  ASSUME TypeOK, Control, [Next]_vars
  PROVE  \/ serving /\ Page /\ UNCHANGED <<pc, runVars, cancelReq, code>>
         \/ (\E m \in Messages : Publish(m)) /\ UNCHANGED <<wire, pageVars>>
         \/ /\ conn' = NoConn /\ wire' = <<>> /\ pc' = "over" /\ ~ serving'
            /\ source' = IF source.state = "none" THEN source
                         ELSE [source EXCEPT !.state = "connecting"]
            /\ UNCHANGED <<journal, board, drops>>
         \/ UNCHANGED dashboardVars
<1>1. CASE StartServer \/ StartScenario \/ FanOut
  BY <1>1, PublishedAreMessages DEF StartServer, StartScenario, FanOut
<1>2. CASE ScenarioFinished \/ FinishSuite \/ PostCancel
  BY <1>2, PublishedAreMessages DEF ScenarioFinished, FinishSuite, PostCancel
<1>3. CASE ScenarioCannotRun \/ Exit \/ Interrupt
  BY <1>3 DEF ScenarioCannotRun, Exit, Interrupt, Leave
<1>4. CASE EmitLine \/ EmitRunFinished \/ InterruptRun
  BY <1>4 DEF EmitLine, EmitRunFinished, InterruptRun
<1>5. CASE UNCHANGED vars
  BY <1>5 DEF vars
<1> QED BY <1>1, <1>2, <1>3, <1>4, <1>5 DEF Next

\* What the invocation keeps is typed.
LEMMA SuiteTyped ==
  ASSUME TypeOK, Control, [Next]_vars
  PROVE  SuiteTypeOK'
<1>1. /\ SuiteTypeOK /\ Len(results) \in Nat /\ Len(results) \in 0..Scenarios
      /\ Scenarios \in Nat
  BY DashboardAssumption, LenProperties DEF TypeOK, SuiteTypeOK
<1>2. journal' \in Seq(Messages)
  <2>1. journal \in Seq(Messages)
    BY <1>1 DEF SuiteTypeOK
  <2> QED BY <2>1, StepKinds, PublishLaw, PageLeavesTheSuite DEF dashboardVars
<1>3. CASE serving /\ Page /\ UNCHANGED <<pc, runVars, cancelReq, code>>
  BY <1>1, <1>3, PageLeavesTheSuite DEF SuiteTypeOK, runVars
<1>4. CASE StartServer \/ FinishSuite \/ PostCancel
  <2>1. CASE StartServer
    BY <1>1, <1>2, <2>1 DEF StartServer, SuiteTypeOK, runVars
  <2>2. CASE FinishSuite
    BY <1>1, <1>2, <2>2 DEF FinishSuite, SuiteTypeOK, runVars
  <2>3. CASE PostCancel
    BY <1>1, <1>2, <2>3 DEF PostCancel, SuiteTypeOK, runVars
  <2> QED BY <1>4, <2>1, <2>2, <2>3
<1>5. CASE StartScenario
  BY <1>1, <1>2, <1>5 DEF StartScenario, SuiteTypeOK, runVars
<1>6. CASE EmitLine
  <2>1. Len(results) < Scenarios /\ seq <= MaxLines
    BY <1>6 DEF EmitLine, Control, InRun
  <2>2. /\ seq' \in 0..(MaxLines + 1) /\ written' \in SUBSET (1..(MaxLines + 1))
        /\ glued' \in SUBSET (1..(MaxLines + 1)) /\ partial' \in BOOLEAN
        /\ fanOut' \in Seq(Messages) /\ Len(fanOut') <= FanOutCapacity
    BY <1>1, <1>6, <2>1, EmitLaw DEF EmitLine
  <2> QED BY <1>1, <1>6, <2>2 DEF EmitLine, SuiteTypeOK, dashboardVars
<1>7. CASE EmitRunFinished \/ InterruptRun
  <2>1. /\ Len(results) < Scenarios /\ seq <= MaxLines /\ status' \in RunStatuses
        /\ pc' \in {"ending", "interrupted"}
        /\ Emit([seq |-> seq + 1, status |-> status'])
        /\ UNCHANGED <<dashboardVars, results, cancelReq, code>>
    BY <1>7 DEF EmitRunFinished, InterruptRun, Control, InRun
  <2>2. /\ seq' \in 0..(MaxLines + 1) /\ written' \in SUBSET (1..(MaxLines + 1))
        /\ glued' \in SUBSET (1..(MaxLines + 1)) /\ partial' \in BOOLEAN
        /\ fanOut' \in Seq(Messages) /\ Len(fanOut') <= FanOutCapacity
    BY <1>1, <2>1, EmitLaw
  <2> QED BY <1>1, <2>1, <2>2 DEF SuiteTypeOK, dashboardVars
<1>8. CASE FanOut
  <2>1. Tail(fanOut) \in Seq(Messages) /\ Len(Tail(fanOut)) = Len(fanOut) - 1
    BY <1>1, <1>8, HeadTailProperties DEF FanOut, SuiteTypeOK
  <2>2. Len(fanOut) \in Nat /\ Len(fanOut) <= FanOutCapacity /\ FanOutCapacity \in Nat
    BY <1>1, InvocationAssumption, LenProperties DEF SuiteTypeOK
  <2>3. Len(fanOut') <= FanOutCapacity
    BY <1>8, <2>1, <2>2 DEF FanOut
  <2> QED BY <1>1, <1>2, <1>8, <2>1, <2>3 DEF FanOut, SuiteTypeOK
<1>9. CASE ScenarioFinished
  <2>1. Len(results) < Scenarios /\ status \in RunStatuses
    BY <1>1, <1>9 DEF ScenarioFinished, Control, InRun, SuiteTypeOK
  <2>2. results' \in Seq(RunStatuses) /\ Len(results') = Len(results) + 1
    BY <1>1, <1>9, <2>1, AppendProperties DEF ScenarioFinished, SuiteTypeOK
  <2>3. Len(results') <= Scenarios /\ fanOut' \in Seq(Messages) /\ Len(fanOut') <= FanOutCapacity
    BY <1>1, <1>9, <2>1, <2>2, EmptySeq, InvocationAssumption, DashboardAssumption
       DEF ScenarioFinished
  <2>4. seq' \in 0..(MaxLines + 1)
    BY <1>9, InvocationAssumption DEF ScenarioFinished, EndRun
  <2> QED BY <1>1, <1>2, <1>9, <2>2, <2>3, <2>4 DEF ScenarioFinished, EndRun, SuiteTypeOK
<1>10. CASE Exit
  <2>1. ExitFor(results) \in {0, 1, 2, 130, 255}
    BY DEF ExitFor
  <2> QED BY <1>1, <1>10, <2>1 DEF Exit, Leave, runVars, SuiteTypeOK
<1>11. CASE ScenarioCannotRun \/ Interrupt
  <2>1. /\ pc' = "over" /\ code' \in {1, 2, 130} /\ serving' = FALSE /\ fanOut' = <<>>
        /\ EndRun /\ UNCHANGED <<journal, results, cancelReq>>
    BY <1>11 DEF ScenarioCannotRun, Interrupt, Leave
  <2>2. fanOut' \in Seq(Messages) /\ Len(fanOut') <= FanOutCapacity /\ seq' \in 0..(MaxLines + 1)
    BY <2>1, EmptySeq, InvocationAssumption DEF EndRun
  <2> QED BY <1>1, <2>1, <2>2 DEF EndRun, SuiteTypeOK
<1>12. CASE UNCHANGED vars
  BY <1>1, <1>12 DEF vars, runVars, dashboardVars, SuiteTypeOK
<1> QED BY <1>3, <1>4, <1>5, <1>6, <1>7, <1>8, <1>9, <1>10, <1>11, <1>12 DEF Next


-----------------------------------------------------------------------------
(* The stream and the page.                                                 *)

\* A function on an initial segment is a sequence.
LEMMA SegmentIsSeq ==
  ASSUME NEW n \in Nat, NEW f \in [1..n -> Nat]
  PROVE  f \in Seq(Nat) /\ Len(f) = n
<1>1. f \in Seq(Nat)
  <2>1. Seq(Nat) = UNION {[1..k -> Nat] : k \in Nat}
    BY SeqDef
  <2> QED BY <2>1
<1>2. DOMAIN f = 1..n /\ Len(f) = n
  BY <1>1, LenProperties
<1> QED BY <1>1, <1>2

\* The snapshot holds places of the journal.
LEMMA SnapshotLaw ==
  ASSUME Len(journal) \in Nat, NEW after \in 0..Len(journal)
  PROVE  /\ SnapshotAfter(after) \in Seq(Nat)
         /\ \A i \in 1..Len(SnapshotAfter(after)) : SnapshotAfter(after)[i] <= Len(journal)
<1>1. Len(journal) - after \in Nat
  OBVIOUS
<1>2. SnapshotAfter(after) \in [1..(Len(journal) - after) -> Nat]
  BY <1>1 DEF SnapshotAfter
<1>3. SnapshotAfter(after) \in Seq(Nat) /\ Len(SnapshotAfter(after)) = Len(journal) - after
  BY <1>1, <1>2, SegmentIsSeq
<1>4. \A i \in 1..(Len(journal) - after) : SnapshotAfter(after)[i] <= Len(journal)
  BY <1>1 DEF SnapshotAfter
<1> QED BY <1>3, <1>4

\* What is written for a message: whatever was not sent yet, up to it.
LEMMA EncodeLaw ==
  ASSUME NEW n \in Nat, NEW last \in Nat
  PROVE  /\ Encode(n, last) \in Seq(Nat)
         /\ n <= last => Encode(n, last) = <<>> /\ Len(Encode(n, last)) = 0
         /\ n > last => /\ Encode(n, last) # <<>> /\ Len(Encode(n, last)) = n - last
                        /\ \A i \in 1..(n - last) : Encode(n, last)[i] = last + i
<1>1. CASE n <= last
  BY <1>1, EmptySeq DEF Encode
<1>2. CASE n > last
  <2>1. n - last \in Nat /\ n - last # 0
    BY <1>2
  <2>2. /\ Encode(n, last) = [i \in 1..(n - last) |-> last + i]
        /\ Encode(n, last) \in [1..(n - last) -> Nat]
    BY <1>2, <2>1 DEF Encode
  <2>3. Encode(n, last) \in Seq(Nat) /\ Len(Encode(n, last)) = n - last
    BY <2>1, <2>2, SegmentIsSeq
  <2>4. Encode(n, last) # <<>>
    BY <2>1, <2>3, EmptySeq
  <2>5. \A i \in 1..(n - last) : Encode(n, last)[i] = last + i
    BY <2>2
  <2> QED BY <1>2, <2>3, <2>4, <2>5
<1> QED BY <1>1, <1>2

\* The next message the server looks at is in the journal.
LEMMA PendingLaw ==
  ASSUME NEW replay \in Seq(Nat), NEW queue \in Seq(Nat), NEW bound \in Nat,
         \A i \in 1..Len(replay) : replay[i] <= bound,
         \A i \in 1..Len(queue) : queue[i] <= bound,
         replay \o queue # <<>>
  PROVE  /\ Head(replay \o queue) \in 0..bound
         /\ replay = <<>> => queue # <<>>
<1> DEFINE pending == replay \o queue
<1>1. /\ pending \in Seq(Nat) /\ Len(pending) = Len(replay) + Len(queue)
      /\ \A i \in 1..(Len(replay) + Len(queue)) :
           pending[i] = IF i <= Len(replay) THEN replay[i] ELSE queue[i - Len(replay)]
  BY ConcatProperties
<1>2. Len(replay) \in Nat /\ Len(queue) \in Nat /\ Len(pending) \in Nat
  BY <1>1, LenProperties
<1>3. Len(pending) # 0
  BY <1>1, EmptySeq
<1>4. Head(pending) = pending[1] /\ Head(pending) \in Nat
  BY <1>1, HeadTailProperties
<1>5. pending[1] <= bound
  BY <1>1, <1>2, <1>3
<1>6. replay = <<>> => queue # <<>>
  BY <1>1, <1>3, EmptySeq
<1> QED BY <1>4, <1>5, <1>6

\* The head of a queue is dropped: what is left is still in the journal.
LEMMA TailLaw ==
  ASSUME NEW s \in Seq(Nat), s # <<>>, NEW bound \in Nat, \A i \in 1..Len(s) : s[i] <= bound
  PROVE  /\ Tail(s) \in Seq(Nat) /\ Len(Tail(s)) = Len(s) - 1 /\ Len(s) \in Nat
         /\ \A i \in 1..Len(Tail(s)) : Tail(s)[i] <= bound
<1>1. /\ Tail(s) \in Seq(Nat) /\ Len(Tail(s)) = Len(s) - 1
      /\ \A i \in 1..Len(Tail(s)) : Tail(s)[i] = s[i + 1]
  BY HeadTailProperties
<1>2. Len(s) \in Nat
  BY LenProperties
<1> QED BY <1>1, <1>2

\* A stream whose server went on.
Sent(c, last, replay, queue) ==
  [c EXCEPT !.lastSent = last, !.replay = replay, !.queue = queue]

\* Its types.
LEMMA SentLaw ==
  ASSUME NEW c \in Conns, NEW last \in Nat, NEW replay \in Seq(Nat), NEW queue \in Seq(Nat)
  PROVE  /\ Sent(c, last, replay, queue) \in Conns
         /\ Sent(c, last, replay, queue).state = c.state
         /\ Sent(c, last, replay, queue).lastSent = last
         /\ Sent(c, last, replay, queue).replay = replay
         /\ Sent(c, last, replay, queue).queue = queue
BY DEF Sent, Conns

\* A step of the server's: the frames it writes go on from the last number it sent.
LEMMA SendLaw ==
  ASSUME TypeOK, Stream, Send
  PROVE  /\ conn' \in Conns /\ Len(conn'.queue) <= ClientCapacity
         /\ conn'.state = "streaming" /\ conn.state = "streaming"
         /\ conn'.lastSent \in conn.lastSent..Len(journal)
         /\ \A i \in 1..Len(conn'.replay) : conn'.replay[i] <= Len(journal)
         /\ \A i \in 1..Len(conn'.queue) : conn'.queue[i] <= Len(journal)
         /\ wire' \in Seq(Nat)
         /\ Len(wire') = Len(wire) + (conn'.lastSent - conn.lastSent)
         /\ \A i \in 1..Len(wire) : wire'[i] = wire[i]
         /\ \A i \in (Len(wire) + 1)..Len(wire') : wire'[i] + Len(wire) = conn.lastSent + i
<1>1. /\ wire \in Seq(Nat) /\ conn \in Conns /\ journal \in Seq(Messages)
      /\ Len(conn.queue) <= ClientCapacity
  BY DEF TypeOK, SuiteTypeOK, PageTypeOK
<1>2. /\ conn.replay \in Seq(Nat) /\ conn.queue \in Seq(Nat) /\ conn.lastSent \in Nat
      /\ Len(wire) \in Nat /\ Len(journal) \in Nat /\ ClientCapacity \in Nat
  BY <1>1, DashboardAssumption, LenProperties DEF Conns
<1>3. /\ \A i \in 1..Len(conn.replay) : conn.replay[i] <= Len(journal)
      /\ \A i \in 1..Len(conn.queue) : conn.queue[i] <= Len(journal)
      /\ conn.lastSent <= Len(journal)
  BY DEF Stream, Send
<1> DEFINE n      == Head(conn.replay \o conn.queue)
           frames == Encode(n, conn.lastSent)
           last   == IF frames = <<>> THEN conn.lastSent ELSE n
           replay == IF conn.replay = <<>> THEN conn.replay ELSE Tail(conn.replay)
           queue  == IF conn.replay = <<>> THEN Tail(conn.queue) ELSE conn.queue
<1>4. /\ conn.state = "streaming" /\ conn.replay \o conn.queue # <<>>
      /\ wire' = wire \o frames
      /\ conn' = [conn EXCEPT !.lastSent = last, !.replay = replay, !.queue = queue]
  BY <1>1 DEF Send, Conns
<1>5. n \in 0..Len(journal) /\ (conn.replay = <<>> => conn.queue # <<>>)
  BY <1>2, <1>3, <1>4, PendingLaw
<1>6. /\ frames \in Seq(Nat) /\ last \in conn.lastSent..Len(journal)
      /\ Len(frames) = last - conn.lastSent
      /\ \A i \in 1..(last - conn.lastSent) : frames[i] = conn.lastSent + i
  <2> HIDE DEF n
  <2>0. n \in Nat
    BY <1>2, <1>5
  <2>1. /\ frames \in Seq(Nat)
        /\ n <= conn.lastSent => frames = <<>> /\ Len(frames) = 0
        /\ n > conn.lastSent => /\ frames # <<>> /\ Len(frames) = n - conn.lastSent
                                /\ \A i \in 1..(n - conn.lastSent) : frames[i] = conn.lastSent + i
    BY <1>2, <2>0, EncodeLaw
  <2> HIDE DEF frames
  <2>2. CASE n <= conn.lastSent
    BY <1>2, <1>3, <2>1, <2>2
  <2>3. CASE n > conn.lastSent
    <3>1. last = n /\ frames \in Seq(Nat) /\ Len(frames) = n - conn.lastSent
          /\ \A i \in 1..(n - conn.lastSent) : frames[i] = conn.lastSent + i
      BY <2>1, <2>3
    <3>2. n \in conn.lastSent..Len(journal)
      BY <1>2, <1>5, <2>0, <2>3
    <3> QED BY <3>1, <3>2
  <2> QED BY <1>2, <1>5, <2>2, <2>3
<1>7. /\ replay \in Seq(Nat) /\ \A i \in 1..Len(replay) : replay[i] <= Len(journal)
  <2>1. CASE conn.replay = <<>>
    BY <1>2, <1>3, <2>1
  <2>2. CASE conn.replay # <<>>
    BY <1>2, <1>3, <2>2, TailLaw
  <2> QED BY <2>1, <2>2
<1>8. /\ queue \in Seq(Nat) /\ \A i \in 1..Len(queue) : queue[i] <= Len(journal)
      /\ Len(queue) <= ClientCapacity
  <2>1. CASE conn.replay # <<>>
    BY <1>1, <1>2, <1>3, <2>1
  <2>2. CASE conn.replay = <<>>
    <3>1. /\ Tail(conn.queue) \in Seq(Nat) /\ Len(Tail(conn.queue)) = Len(conn.queue) - 1
          /\ Len(conn.queue) \in Nat
          /\ \A i \in 1..Len(Tail(conn.queue)) : Tail(conn.queue)[i] <= Len(journal)
      BY <1>2, <1>3, <1>5, <2>2, TailLaw
    <3> QED BY <1>1, <1>2, <2>2, <3>1
  <2> QED BY <2>1, <2>2
<1> HIDE DEF n, frames, last, replay, queue
<1>9. /\ conn' \in Conns /\ conn'.state = conn.state /\ conn'.lastSent = last
      /\ conn'.replay = replay /\ conn'.queue = queue
  <2>1. last \in Nat /\ replay \in Seq(Nat) /\ queue \in Seq(Nat) /\ conn \in Conns
    BY <1>1, <1>2, <1>6, <1>7, <1>8
  <2>2. /\ Sent(conn, last, replay, queue) \in Conns
        /\ Sent(conn, last, replay, queue).state = conn.state
        /\ Sent(conn, last, replay, queue).lastSent = last
        /\ Sent(conn, last, replay, queue).replay = replay
        /\ Sent(conn, last, replay, queue).queue = queue
    BY <2>1, SentLaw
  <2>3. conn' = Sent(conn, last, replay, queue)
    BY <1>4 DEF Sent
  <2> QED BY <2>2, <2>3
<1>10. /\ wire' \in Seq(Nat) /\ Len(wire') = Len(wire) + Len(frames)
       /\ \A i \in 1..Len(wire') :
            wire'[i] = IF i <= Len(wire) THEN wire[i] ELSE frames[i - Len(wire)]
  BY <1>1, <1>4, <1>6, ConcatProperties, SMTT(30)
<1>11. \A i \in 1..Len(wire) : wire'[i] = wire[i]
  <2>1. Len(frames) \in Nat
    BY <1>6, LenProperties
  <2>2. ASSUME NEW i \in 1..Len(wire) PROVE i \in 1..Len(wire') /\ i <= Len(wire)
    BY <1>2, <1>10, <2>1
  <2> QED BY <1>10, <2>2
<1>12. \A i \in (Len(wire) + 1)..Len(wire') : wire'[i] + Len(wire) = conn.lastSent + i
  <2> TAKE i \in (Len(wire) + 1)..Len(wire')
  <2>0. Len(frames) \in Nat
    BY <1>6, LenProperties
  <2>1. /\ i - Len(wire) \in 1..(last - conn.lastSent) /\ i \in 1..Len(wire') /\ ~ (i <= Len(wire))
    <3>1. i \in Int /\ last \in Int /\ Len(wire) + 1 <= i /\ i <= Len(wire) + Len(frames)
      BY <1>2, <1>6, <1>10, <2>0
    <3> QED BY <1>2, <1>6, <1>10, <2>0, <3>1, SMTT(30)
  <2>2. wire'[i] = conn.lastSent + (i - Len(wire))
    BY <1>6, <1>10, <2>1
  <2> QED BY <1>2, <2>2
<1> QED BY <1>4, <1>6, <1>7, <1>8, <1>9, <1>10, <1>11, <1>12

\* The frame the page reads is the next one it has to see, or one it has seen.
LEMMA ReceiveLaw ==
  ASSUME TypeOK, Control, Chronicle, Stream, serving, Receive
  PROVE  \E n \in 1..Len(journal) :
           LET shown == Show([board EXCEPT !.cursor = n], journal[n])
           IN  /\ journal[n] \in Messages
               /\ journal[n].type \in ScenarioTypes => journal[n].run \in 1..Scenarios
               /\ n <= board.cursor + 1 /\ wire[1] = n /\ wire # <<>> /\ conn.state # "none"
               /\ UNCHANGED <<journal, serving, drops>>
               /\ \/ /\ n <= board.cursor /\ board' = board
                     /\ source' = [source EXCEPT !.lastId = n]
                     /\ wire' = Tail(wire) /\ conn' = conn
                  \/ /\ n = board.cursor + 1 /\ journal[n].type # "cliFinished" /\ board' = shown
                     /\ source' = [source EXCEPT !.lastId = n]
                     /\ wire' = Tail(wire) /\ conn' = conn
                  \/ /\ n = board.cursor + 1 /\ journal[n].type = "cliFinished" /\ board' = shown
                     /\ source' = NoSource /\ wire' = <<>> /\ conn' = NoConn
<1>1. /\ wire \in Seq(Nat) /\ conn \in Conns /\ journal \in Seq(Messages) /\ board \in Boards
      /\ wire # <<>> /\ results \in Seq(RunStatuses) /\ Scenarios \in Nat
  BY DashboardAssumption DEF TypeOK, SuiteTypeOK, PageTypeOK, Receive
<1>2. /\ Len(wire) \in Nat /\ Len(wire) # 0 /\ Len(journal) \in Nat /\ Len(results) \in Nat
      /\ conn.lastSent \in Nat /\ board.cursor \in Nat /\ Head(wire) = wire[1]
      /\ Head(wire) \in Nat
  BY <1>1, LenProperties, EmptySeq, HeadTailProperties DEF Conns, Boards
<1>3. /\ conn.state # "none" /\ conn.lastSent <= Len(journal) /\ Len(wire) <= conn.lastSent
      /\ conn.lastSent <= board.cursor + Len(wire) /\ wire[1] + Len(wire) = conn.lastSent + 1
  BY <1>1, <1>2 DEF Stream
<1> DEFINE n == Head(wire)
<1>4. n \in 1..Len(journal) /\ n <= board.cursor + 1 /\ wire[1] = n
  BY <1>2, <1>3
<1>5. journal[n] \in Messages
  BY <1>1, <1>4, ElementOfSeq
<1>6. journal[n].type \in ScenarioTypes => journal[n].run \in 1..Scenarios
  <2> SUFFICES ASSUME journal[n].type \in ScenarioTypes PROVE journal[n].run \in 1..Scenarios
    OBVIOUS
  <2>1. /\ journal[n].run \in 1..Current
        /\ journal[n].run = Current => pc \in InRun \cup {"over"}
    BY <1>4 DEF Chronicle, OfScenario
  <2>2. CASE journal[n].run = Current
    <3>1. pc \in InRun
      BY <2>1, <2>2 DEF Control
    <3>2. Len(results) < Scenarios
      BY <3>1 DEF Control
    <3> QED BY <1>1, <1>2, <2>1, <3>2 DEF Current
  <2>3. CASE journal[n].run # Current
    <3>1. Len(results) <= Scenarios
      BY DEF TypeOK, SuiteTypeOK
    <3> QED BY <1>1, <1>2, <2>1, <2>3, <3>1 DEF Current
  <2> QED BY <2>2, <2>3
<1>7. UNCHANGED <<journal, serving, drops>>
  BY DEF Receive
<1>8. CASE n <= board.cursor
  <2>1. ~ (n > board.cursor)
    BY <1>2, <1>8
  <2>2. /\ board' = board /\ source' = [source EXCEPT !.lastId = n]
        /\ wire' = Tail(wire) /\ conn' = conn
    BY <1>8, <2>1 DEF Receive
  <2> HIDE DEF n
  <2> QED BY <1>1, <1>3, <1>4, <1>5, <1>6, <1>7, <1>8, <2>2
<1>9. CASE ~ (n <= board.cursor)
  <2>1. n > board.cursor /\ n = board.cursor + 1
    BY <1>2, <1>4, <1>9
  <2>2. /\ board' = Show([board EXCEPT !.cursor = n], journal[n])
        /\ journal[n].type # "cliFinished" =>
             /\ source' = [source EXCEPT !.lastId = n] /\ wire' = Tail(wire) /\ conn' = conn
        /\ journal[n].type = "cliFinished" =>
             source' = NoSource /\ wire' = <<>> /\ conn' = NoConn
    BY <1>9, <2>1 DEF Receive
  <2> HIDE DEF n
  <2> QED BY <1>1, <1>3, <1>4, <1>5, <1>6, <1>7, <2>1, <2>2
<1> QED BY <1>8, <1>9

\* The board the page starts with, and the connections there can be from the start.
LEMMA EmptyPage ==
  ASSUME NEW cursor \in Nat
  PROVE  /\ EmptyBoard \in Boards /\ NoConn \in Conns /\ Len(NoConn.queue) = 0
         /\ NewSource(cursor) \in Sources /\ NoSource \in Sources /\ <<>> \in Seq(Nat)
         /\ Len(NoConn.queue) <= ClientCapacity
<1>1. /\ <<>> \in Seq(Nat) /\ Len(<<>>) = 0 /\ 0 \in Nat /\ 0 \in 0..MaxTakeoverAttempts
  BY EmptySeq, DashboardAssumption
<1>2. EmptyModel \in Models
  BY <1>1 DEF EmptyModel, Models
<1>3. EmptyBoard \in Boards
  <2>1. [s \in 1..Scenarios |-> EmptyModel] \in [1..Scenarios -> Models]
    BY <1>2
  <2>2. [s \in 1..Scenarios |-> "none"] \in
          [1..Scenarios -> RunStatuses \cup {"none", "pending", "running"}]
    OBVIOUS
  <2> QED BY <1>1, <2>1, <2>2 DEF EmptyBoard, Boards
<1>4. NoConn \in Conns /\ Len(NoConn.queue) = 0
  BY <1>1 DEF NoConn, Conns
<1>5. NewSource(cursor) \in Sources /\ NoSource \in Sources
  BY <1>1 DEF NewSource, NoSource, Sources
<1> QED BY <1>1, <1>3, <1>4, <1>5, DashboardAssumption

\* What the page and its stream keep is typed.
LEMMA PageTyped ==
  ASSUME TypeOK, Control, Chronicle, Stream, [Next]_vars
  PROVE  PageTypeOK'
<1>1. /\ conn \in Conns /\ Len(conn.queue) <= ClientCapacity /\ wire \in Seq(Nat)
      /\ source \in Sources /\ board \in Boards /\ journal \in Seq(Messages)
  BY DEF TypeOK, SuiteTypeOK, PageTypeOK
<1>2. /\ board.cursor \in Nat /\ conn.after \in Nat /\ Len(journal) \in Nat
      /\ ResumeFrom \in Nat /\ MaxTakeoverAttempts \in Nat /\ 0 \in 0..MaxTakeoverAttempts
  BY <1>1, DashboardAssumption, LenProperties DEF Boards, Conns, Sources, ResumeFrom
<1>3. CASE Subscribe
  <2>1. /\ conn' = [state |-> "registered", after |-> ResumeFrom, lastSent |-> ResumeFrom,
                    replay |-> <<>>, queue |-> <<>>]
        /\ UNCHANGED <<wire, source, board>>
    BY <1>3 DEF Subscribe, NoConn, pageVars
  <2>2. <<>> \in Seq(Nat) /\ Len(<<>>) <= ClientCapacity
    BY EmptyPage, EmptySeq, DashboardAssumption
  <2>3. conn' \in Conns /\ conn'.queue = <<>>
    BY <1>2, <2>1, <2>2 DEF Conns
  <2> QED BY <1>1, <2>1, <2>2, <2>3 DEF PageTypeOK
<1>4. CASE Respond
  <2>1. conn.after \in 0..Len(journal)
    BY <1>2, <1>4 DEF Respond, Stream
  <2>2. SnapshotAfter(conn.after) \in Seq(Nat)
    BY <1>2, <2>1, SnapshotLaw
  <2>3. conn' \in Conns /\ conn'.queue = conn.queue
    BY <1>1, <1>4, <2>2 DEF Respond, Conns
  <2>4. source' \in Sources
    BY <1>1, <1>4 DEF Respond, Sources
  <2>5. board' \in Boards
    BY <1>1, <1>2, <1>4 DEF Respond, Boards
  <2> QED BY <1>1, <1>4, <2>3, <2>4, <2>5 DEF Respond, PageTypeOK
<1>5. CASE Send
  BY <1>1, <1>5, SendLaw DEF Send, pageVars, PageTypeOK
<1>6. CASE serving /\ Receive
  <2>1. PICK n \in 1..Len(journal) :
          /\ journal[n] \in Messages
          /\ journal[n].type \in ScenarioTypes => journal[n].run \in 1..Scenarios
          /\ wire # <<>>
          /\ \/ board' = board
             \/ board' = Show([board EXCEPT !.cursor = n], journal[n])
          /\ \/ source' = [source EXCEPT !.lastId = n] /\ wire' = Tail(wire) /\ conn' = conn
             \/ source' = NoSource /\ wire' = <<>> /\ conn' = NoConn
    BY <1>6, ReceiveLaw
  <2>2. n \in Nat
    BY <1>2
  <2>3. board' \in Boards
    <3>1. [board EXCEPT !.cursor = n] \in Boards
      BY <1>1, <2>2 DEF Boards
    <3> QED BY <1>1, <2>1, <3>1, ShowLaw
  <2>4. Tail(wire) \in Seq(Nat)
    BY <1>1, <2>1, HeadTailProperties
  <2>5. [source EXCEPT !.lastId = n] \in Sources
    BY <1>1, <2>2 DEF Sources
  <2> QED BY <1>1, <1>2, <2>1, <2>3, <2>4, <2>5, EmptyPage DEF PageTypeOK
<1>7. CASE LinkRetries \/ LinkGivesUp
  <2>1. /\ source' = [source EXCEPT !.state = "connecting"] \/ source' = NoSource
        /\ wire' = <<>> /\ conn' = NoConn
        /\ \/ board' = [board EXCEPT !.connection = "reconnecting"]
           \/ board' = [board EXCEPT !.connection = "unavailable"]
           \/ /\ ~ (board.takeovers >= MaxTakeoverAttempts)
              /\ board' = [board EXCEPT !.connection = "reconnecting", !.takeovers = @ + 1,
                                        !.timer = TRUE]
    BY <1>7 DEF LinkRetries, LinkGivesUp
  <2>2. board' \in Boards
    <3>1. board.takeovers \in 0..MaxTakeoverAttempts
      BY <1>1 DEF Boards
    <3>2. ~ (board.takeovers >= MaxTakeoverAttempts) =>
            board.takeovers + 1 \in 0..MaxTakeoverAttempts
      BY <1>2, <3>1
    <3> QED BY <1>1, <2>1, <3>2 DEF Boards
  <2>3. [source EXCEPT !.state = "connecting"] \in Sources
    BY <1>1 DEF Sources
  <2> QED BY <1>2, <2>1, <2>2, <2>3, EmptyPage DEF PageTypeOK
<1>8. CASE TimerFires \/ ReconnectNow \/ Reload
  <2>1. /\ source' = NewSource(board.cursor) \/ source' = NewSource(0)
        /\ wire' = <<>> /\ conn' = NoConn
        /\ \/ board' = [board EXCEPT !.timer = FALSE]
           \/ board' = [board EXCEPT !.takeovers = 0, !.timer = FALSE]
           \/ board' = EmptyBoard
    BY <1>8 DEF TimerFires, ReconnectNow, Reload, Reconnect
  <2>2. board' \in Boards
    BY <1>1, <1>2, <2>1, EmptyPage DEF Boards
  <2>3. source' \in Sources
    BY <1>2, <2>1, EmptyPage
  <2> QED BY <1>2, <2>1, <2>2, <2>3, EmptyPage DEF PageTypeOK
<1>9. CASE (\E m \in Messages : Publish(m)) /\ UNCHANGED <<wire, pageVars>>
  BY <1>1, <1>9, PublishLaw DEF pageVars, PageTypeOK
<1>10. CASE /\ conn' = NoConn /\ wire' = <<>>
            /\ source' = IF source.state = "none" THEN source
                         ELSE [source EXCEPT !.state = "connecting"]
            /\ UNCHANGED <<journal, board, drops>>
  <2>1. source' \in Sources
    BY <1>1, <1>10 DEF Sources
  <2> QED BY <1>1, <1>2, <1>10, <2>1, EmptyPage DEF PageTypeOK
<1>11. CASE UNCHANGED dashboardVars
  BY <1>1, <1>11 DEF dashboardVars, PageTypeOK
<1> QED BY <1>3, <1>4, <1>5, <1>6, <1>7, <1>8, <1>9, <1>10, <1>11, StepKinds DEF Page

-----------------------------------------------------------------------------
(* The inductive step.                                                      *)

\* The suite journal only grows, and a place in it keeps its message.
LEMMA JournalGrows ==
  ASSUME TypeOK, Control, [Next]_vars
  PROVE  /\ Len(journal) \in Nat /\ Len(journal') \in Nat /\ Len(journal) <= Len(journal')
         /\ \A i \in 1..Len(journal) : journal'[i] = journal[i]
<1>1. journal \in Seq(Messages) /\ Len(journal) \in Nat
  BY LenProperties DEF TypeOK, SuiteTypeOK
<1>2. CASE UNCHANGED journal
  BY <1>1, <1>2
<1>3. CASE \E m \in Messages : Publish(m)
  <2>1. /\ Len(journal') = Len(journal) + 1
        /\ \A i \in 1..Len(journal) : journal'[i] = journal[i]
    BY <1>3, PublishLaw
  <2> QED BY <1>1, <2>1
<1> QED BY <1>2, <1>3, StepKinds, PageLeavesTheSuite DEF dashboardVars

\* The frames in flight go on continuing the journal from the cursor.
LEMMA StreamPreserved ==
  ASSUME TypeOK, Control, Chronicle, Stream, [Next]_vars
  PROVE  Stream'
<1>1. /\ conn \in Conns /\ wire \in Seq(Nat) /\ source \in Sources /\ board \in Boards
      /\ journal \in Seq(Messages)
  BY DEF TypeOK, SuiteTypeOK, PageTypeOK
<1>2. /\ board.cursor \in Nat /\ source.url \in Nat /\ source.lastId \in Nat
      /\ conn.lastSent \in Nat /\ conn.after \in Nat /\ Len(wire) \in Nat
      /\ conn.queue \in Seq(Nat) /\ conn.replay \in Seq(Nat)
      /\ Len(conn.queue) \in Nat /\ Len(conn.replay) \in Nat
  BY <1>1, LenProperties DEF Boards, Sources, Conns
<1>3. /\ Len(journal) \in Nat /\ Len(journal') \in Nat /\ Len(journal) <= Len(journal')
      /\ board.cursor <= Len(journal)
  BY JournalGrows DEF Stream
<1>4. Len(<<>>) = 0
  BY EmptySeq
<1>5. ASSUME conn' = NoConn, wire' = <<>>, board'.cursor <= Len(journal'),
             source'.url <= board'.cursor, source'.lastId <= board'.cursor,
             board'.finished => source'.state = "none"
      PROVE  Stream'
  BY <1>5 DEF Stream, NoConn
<1>6. CASE Subscribe
  <2>1. /\ conn' = [state |-> "registered", after |-> ResumeFrom, lastSent |-> ResumeFrom,
                    replay |-> <<>>, queue |-> <<>>]
        /\ UNCHANGED <<wire, source, board, journal>> /\ source.state = "connecting"
        /\ conn.state = "none"
    BY <1>6 DEF Subscribe, NoConn, pageVars
  <2>2. /\ ResumeFrom <= board.cursor /\ ResumeFrom \in Nat
        /\ wire = <<>>
    BY <1>2, <2>1 DEF Stream, ResumeFrom
  <2>3. /\ conn'.state = "registered" /\ conn'.after = ResumeFrom /\ conn'.lastSent = ResumeFrom
        /\ conn'.replay = <<>> /\ conn'.queue = <<>> /\ wire' = <<>>
    BY <2>1, <2>2
  <2>4. ResumeFrom <= Len(journal) /\ ResumeFrom <= board.cursor + 0 /\ 0 <= ResumeFrom
    BY <1>2, <1>3, <2>2
  <2> QED BY <1>2, <1>3, <1>4, <2>1, <2>2, <2>3, <2>4 DEF Stream
<1>7. CASE Respond
  <2>1. conn.after \in 0..Len(journal)
    BY <1>2, <1>7 DEF Respond, Stream
  <2>2. \A i \in 1..Len(SnapshotAfter(conn.after)) :
          SnapshotAfter(conn.after)[i] <= Len(journal)
    BY <1>3, <2>1, SnapshotLaw
  <2>3. /\ conn'.state = "streaming" /\ conn'.lastSent = conn.lastSent /\ conn'.queue = conn.queue
        /\ conn'.replay = SnapshotAfter(conn.after)
    BY <1>1, <1>7 DEF Respond, Conns
  <2>4. /\ source'.url = source.url /\ source'.lastId = source.lastId /\ source'.state = "open"
    BY <1>1, <1>7 DEF Respond, Sources
  <2>5. board'.cursor = board.cursor /\ board'.finished = board.finished
    BY <1>1, <1>7 DEF Respond, Boards
  <2>6. conn.state = "registered" /\ UNCHANGED <<journal, wire>>
    BY <1>7 DEF Respond
  <2>7. ~ board.finished
    BY <2>6 DEF Stream
  <2> QED BY <2>2, <2>3, <2>4, <2>5, <2>6, <2>7 DEF Stream
<1>8. CASE Send
  <2>1. /\ conn'.state = "streaming" /\ conn.state = "streaming"
        /\ conn'.lastSent \in conn.lastSent..Len(journal)
        /\ \A i \in 1..Len(conn'.replay) : conn'.replay[i] <= Len(journal)
        /\ \A i \in 1..Len(conn'.queue) : conn'.queue[i] <= Len(journal)
        /\ Len(wire') = Len(wire) + (conn'.lastSent - conn.lastSent)
        /\ \A i \in 1..Len(wire) : wire'[i] = wire[i]
        /\ \A i \in (Len(wire) + 1)..Len(wire') : wire'[i] + Len(wire) = conn.lastSent + i
        /\ wire' \in Seq(Nat)
    BY <1>8, SendLaw
  <2>2. UNCHANGED <<journal, source, board>>
    BY <1>8 DEF Send, pageVars
  <2>3. /\ Len(wire) <= conn.lastSent /\ conn.lastSent <= board.cursor + Len(wire)
        /\ \A i \in 1..Len(wire) : wire[i] + Len(wire) = conn.lastSent + i
    BY <2>1 DEF Stream
  <2>4. conn'.lastSent \in Nat /\ conn'.lastSent <= Len(journal)
    BY <1>2, <1>3, <2>1
  <2>5. Len(wire') <= conn'.lastSent /\ conn'.lastSent <= board.cursor + Len(wire')
    BY <1>2, <2>1, <2>3, <2>4
  <2>6. ASSUME NEW i \in 1..Len(wire') PROVE wire'[i] + Len(wire') = conn'.lastSent + i
    <3>1. /\ wire'[i] \in Nat /\ i \in Nat /\ Len(wire') \in Nat /\ Len(wire) \in Nat
          /\ conn.lastSent \in Nat /\ conn'.lastSent \in Nat
          /\ Len(wire') = Len(wire) + (conn'.lastSent - conn.lastSent)
      BY <1>2, <2>1, <2>4, LenProperties, ElementOfSeq
    <3>2. CASE i <= Len(wire)
      <4>1. i \in 1..Len(wire)
        BY <1>2, <3>1, <3>2
      <4>2. wire'[i] + Len(wire) = conn.lastSent + i
        BY <2>1, <2>3, <4>1
      <4> QED BY <3>1, <4>2, SMTT(30)
    <3>3. CASE ~ (i <= Len(wire))
      <4>1. i \in (Len(wire) + 1)..Len(wire')
        BY <1>2, <3>1, <3>3
      <4>2. wire'[i] + Len(wire) = conn.lastSent + i
        BY <2>1, <4>1
      <4> QED BY <3>1, <4>2, SMTT(30)
    <3> QED BY <3>2, <3>3
  <2> QED BY <2>1, <2>2, <2>4, <2>5, <2>6 DEF Stream
<1>9. CASE serving /\ Receive
  <2>1. PICK n \in 1..Len(journal) :
          LET shown == Show([board EXCEPT !.cursor = n], journal[n])
          IN  /\ journal[n] \in Messages
              /\ journal[n].type \in ScenarioTypes => journal[n].run \in 1..Scenarios
              /\ n <= board.cursor + 1 /\ wire[1] = n /\ wire # <<>> /\ conn.state # "none"
              /\ UNCHANGED <<journal, serving, drops>>
              /\ \/ /\ n <= board.cursor /\ board' = board
                    /\ source' = [source EXCEPT !.lastId = n]
                    /\ wire' = Tail(wire) /\ conn' = conn
                 \/ /\ n = board.cursor + 1 /\ journal[n].type # "cliFinished" /\ board' = shown
                    /\ source' = [source EXCEPT !.lastId = n]
                    /\ wire' = Tail(wire) /\ conn' = conn
                 \/ /\ n = board.cursor + 1 /\ journal[n].type = "cliFinished" /\ board' = shown
                    /\ source' = NoSource /\ wire' = <<>> /\ conn' = NoConn
    BY <1>9, ReceiveLaw
  <2> DEFINE moved == [board EXCEPT !.cursor = n]
  <2>2. n \in Nat
    BY <1>3
  <2>3. moved \in Boards /\ moved.cursor = n /\ moved.finished = board.finished
    BY <1>1, <2>2 DEF Boards
  <2> HIDE DEF moved
  <2>4. /\ Show(moved, journal[n]).cursor = n
        /\ journal[n].type # "cliFinished" => Show(moved, journal[n]).finished = board.finished
    BY <2>1, <2>3, ShowLaw
  <2>5. CASE /\ n = board.cursor + 1 /\ board' = Show(moved, journal[n])
             /\ source' = NoSource /\ wire' = <<>> /\ conn' = NoConn
    <3>1. board'.cursor = n /\ n <= Len(journal') /\ 0 <= n
      BY <1>3, <2>1, <2>2, <2>4, <2>5
    <3>2. source'.url = 0 /\ source'.lastId = 0 /\ source'.state = "none"
      BY <2>5 DEF NoSource
    <3> QED BY <1>5, <2>5, <3>1, <3>2
  <2>6. CASE /\ source' = [source EXCEPT !.lastId = n] /\ wire' = Tail(wire) /\ conn' = conn
             /\ \/ n <= board.cursor /\ board' = board
                \/ /\ n = board.cursor + 1 /\ journal[n].type # "cliFinished"
                   /\ board' = Show(moved, journal[n])
    <3>1. /\ board'.finished = board.finished /\ board'.cursor \in Nat /\ n <= board'.cursor
          /\ board.cursor <= board'.cursor /\ board'.cursor <= Len(journal)
          /\ \/ board'.cursor = board.cursor /\ n <= board.cursor
             \/ board'.cursor = board.cursor + 1 /\ n = board.cursor + 1
      BY <1>2, <1>3, <2>1, <2>2, <2>4, <2>6
    <3>2. source'.state = source.state /\ source'.url = source.url /\ source'.lastId = n
      BY <1>1, <2>6 DEF Sources
    <3>3. /\ Len(Tail(wire)) = Len(wire) - 1 /\ Len(wire) \in Nat \ {0} /\ Tail(wire) \in Seq(Nat)
          /\ \A i \in 1..Len(Tail(wire)) : Tail(wire)[i] = wire[i + 1]
      BY <1>1, <1>2, <2>1, EmptySeq, HeadTailProperties
    <3>4. /\ Len(wire) <= conn.lastSent /\ conn.lastSent <= board.cursor + Len(wire)
          /\ \A i \in 1..Len(wire) : wire[i] + Len(wire) = conn.lastSent + i
      BY <2>1 DEF Stream
    <3>5. n + Len(wire) = conn.lastSent + 1
      BY <2>1, <3>3, <3>4
    <3>6. Len(wire') <= conn.lastSent /\ conn.lastSent <= board'.cursor + Len(wire')
      BY <1>2, <2>2, <2>6, <3>1, <3>3, <3>4, <3>5, SMTT(30)
    <3>7. ASSUME NEW i \in 1..Len(wire') PROVE wire'[i] + Len(wire') = conn.lastSent + i
      <4>1. wire'[i] = wire[i + 1] /\ i + 1 \in 1..Len(wire) /\ Len(wire') = Len(wire) - 1
            /\ i \in Nat
        BY <2>6, <3>3
      <4>2. wire[i + 1] + Len(wire) = conn.lastSent + (i + 1) /\ wire[i + 1] \in Nat
        BY <1>1, <3>4, <4>1, ElementOfSeq
      <4>3. Len(wire) \in Nat /\ conn.lastSent \in Nat /\ wire'[i] \in Nat
        BY <1>2, <4>1, <4>2
      <4>4. wire'[i] + Len(wire) = conn.lastSent + (i + 1)
        BY <4>1, <4>2
      <4>5. Len(wire') = Len(wire) - 1 /\ i \in Nat
        BY <4>1
      <4> QED BY <4>3, <4>4, <4>5
    <3>8. source'.url <= board'.cursor
      BY <1>2, <3>1, <3>2 DEF Stream
    <3> QED BY <1>3, <2>1, <2>6, <3>1, <3>2, <3>6, <3>7, <3>8 DEF Stream
  <2> QED BY <2>1, <2>5, <2>6 DEF moved
<1>10. CASE LinkRetries \/ LinkGivesUp
  <2>1. /\ source' = [source EXCEPT !.state = "connecting"] \/ source' = NoSource
        /\ source.state # "none"
        /\ wire' = <<>> /\ conn' = NoConn /\ UNCHANGED journal
        /\ \/ board' = [board EXCEPT !.connection = "reconnecting"]
           \/ board' = [board EXCEPT !.connection = "unavailable"]
           \/ board' = [board EXCEPT !.connection = "reconnecting", !.takeovers = @ + 1,
                                     !.timer = TRUE]
    BY <1>10 DEF LinkRetries, LinkGivesUp
  <2>2. board'.cursor = board.cursor /\ board'.finished = board.finished
    BY <1>1, <2>1 DEF Boards
  <2>3. /\ source'.url \in {source.url, 0} /\ source'.lastId \in {source.lastId, 0}
    BY <1>1, <2>1 DEF Sources, NoSource
  <2>4. ~ board.finished
    BY <2>1 DEF Stream
  <2>5. source'.url <= board'.cursor /\ source'.lastId <= board'.cursor
    BY <1>2, <2>2, <2>3 DEF Stream
  <2> QED BY <1>3, <1>5, <2>1, <2>2, <2>4, <2>5
<1>11. CASE TimerFires \/ ReconnectNow \/ Reload
  <2>1. /\ UNCHANGED journal /\ wire' = <<>> /\ conn' = NoConn
        /\ \/ /\ source' = NewSource(board.cursor) /\ ~ board.finished
              /\ \/ board' = [board EXCEPT !.timer = FALSE]
                 \/ board' = [board EXCEPT !.takeovers = 0, !.timer = FALSE]
           \/ source' = NewSource(0) /\ board' = EmptyBoard
    BY <1>11 DEF TimerFires, ReconnectNow, Reload, Reconnect
  <2>2. /\ board'.cursor \in {board.cursor, 0} /\ ~ board'.finished
        /\ source'.url = board'.cursor /\ source'.lastId = 0
    <3>1. CASE source' = NewSource(0) /\ board' = EmptyBoard
      BY <3>1 DEF NewSource, EmptyBoard
    <3>2. CASE /\ source' = NewSource(board.cursor) /\ ~ board.finished
               /\ \/ board' = [board EXCEPT !.timer = FALSE]
                  \/ board' = [board EXCEPT !.takeovers = 0, !.timer = FALSE]
      <4>1. board'.cursor = board.cursor /\ board'.finished = board.finished
        BY <1>1, <3>2 DEF Boards
      <4>2. source'.url = board.cursor /\ source'.lastId = 0
        BY <3>2 DEF NewSource
      <4> QED BY <3>2, <4>1, <4>2
    <3> QED BY <2>1, <3>1, <3>2
  <2> QED BY <1>2, <1>3, <1>5, <2>1, <2>2
<1>12. CASE (\E m \in Messages : Publish(m)) /\ UNCHANGED <<wire, pageVars>>
  <2>1. /\ UNCHANGED <<conn.state, conn.after, conn.lastSent, conn.replay>>
        /\ Len(journal') = Len(journal) + 1
        /\ \/ conn'.queue = conn.queue
           \/ /\ Len(conn'.queue) = Len(conn.queue) + 1
              /\ \A i \in 1..Len(conn.queue) : conn'.queue[i] = conn.queue[i]
              /\ conn'.queue[Len(conn.queue) + 1] = Len(journal) + 1
    BY <1>12, PublishLaw
  <2>2. UNCHANGED <<wire, source, board>>
    BY <1>12 DEF pageVars
  <2>3. ASSUME conn.state # "none"
        PROVE  /\ conn.lastSent <= Len(journal')
               /\ \A i \in 1..Len(conn.replay) : conn.replay[i] <= Len(journal')
               /\ \A i \in 1..Len(conn'.queue) : conn'.queue[i] <= Len(journal')
    <3>1. conn.lastSent <= Len(journal')
      BY <1>2, <1>3, <2>3 DEF Stream
    <3>2. ASSUME NEW i \in 1..Len(conn.replay) PROVE conn.replay[i] <= Len(journal')
      <4>1. conn.replay[i] \in Nat /\ conn.replay[i] <= Len(journal)
        BY <1>2, <2>3, ElementOfSeq DEF Stream
      <4> QED BY <1>3, <4>1
    <3>3. ASSUME NEW i \in 1..Len(conn.queue) PROVE conn.queue[i] <= Len(journal')
      <4>1. conn.queue[i] \in Nat /\ conn.queue[i] <= Len(journal)
        BY <1>2, <2>3, ElementOfSeq DEF Stream
      <4> QED BY <1>3, <4>1
    <3>4. ASSUME NEW i \in 1..Len(conn'.queue) PROVE conn'.queue[i] <= Len(journal')
      <4>1. CASE conn'.queue = conn.queue
        BY <3>3, <4>1
      <4>2. CASE /\ Len(conn'.queue) = Len(conn.queue) + 1
                 /\ \A j \in 1..Len(conn.queue) : conn'.queue[j] = conn.queue[j]
                 /\ conn'.queue[Len(conn.queue) + 1] = Len(journal) + 1
        <5>1. CASE i = Len(conn.queue) + 1
          BY <1>3, <2>1, <4>2, <5>1
        <5>2. CASE i # Len(conn.queue) + 1
          <6>1. i \in 1..Len(conn.queue)
            BY <1>2, <4>2, <5>2
          <6> QED BY <3>3, <4>2, <6>1
        <5> QED BY <5>1, <5>2
      <4> QED BY <2>1, <4>1, <4>2
    <3> QED BY <3>1, <3>2, <3>4
  <2>4. board.cursor <= Len(journal')
    BY <1>2, <1>3
  <2> QED BY <2>1, <2>2, <2>3, <2>4 DEF Stream
<1>13. CASE /\ conn' = NoConn /\ wire' = <<>>
            /\ source' = IF source.state = "none" THEN source
                         ELSE [source EXCEPT !.state = "connecting"]
            /\ UNCHANGED <<journal, board, drops>>
  <2>1. /\ source'.url = source.url /\ source'.lastId = source.lastId
        /\ source.state = "none" => source'.state = "none"
    BY <1>1, <1>13 DEF Sources
  <2> QED BY <1>3, <1>5, <1>13, <2>1 DEF Stream
<1>14. CASE UNCHANGED dashboardVars
  BY <1>14 DEF dashboardVars, Stream
<1> QED BY <1>6, <1>7, <1>8, <1>9, <1>10, <1>11, <1>12, <1>13, <1>14, StepKinds DEF Page

\* Each phase of the invocation goes on saying what it says of the rest.
LEMMA ControlPreserved ==
  ASSUME TypeOK, Control, [Next]_vars
  PROVE  Control'
<1>1. /\ Len(results) \in Nat /\ Scenarios \in Nat /\ MaxLines \in Nat /\ seq \in Nat
      /\ Len(results) <= Scenarios /\ 0 <= MaxLines
  BY DashboardAssumption, InvocationAssumption, LenProperties DEF TypeOK, SuiteTypeOK
<1>2. ASSUME \E m \in Messages : Publish(m) PROVE journal' # <<>>
  <2>1. Len(journal') = Len(journal) + 1 /\ Len(journal) \in Nat
    BY <1>2, PublishLaw
  <2> QED BY <2>1, EmptySeq
<1>3. ASSUME StartServer \/ StartScenario \/ FanOut \/ ScenarioFinished \/ FinishSuite \/ PostCancel
      PROVE  \E m \in Messages : Publish(m)
  <2>1. CASE StartServer \/ StartScenario \/ FanOut
    BY <2>1, PublishedAreMessages DEF StartServer, StartScenario, FanOut
  <2>2. CASE ScenarioFinished \/ FinishSuite \/ PostCancel
    BY <2>2, PublishedAreMessages DEF ScenarioFinished, FinishSuite, PostCancel
  <2> QED BY <1>3, <2>1, <2>2
<1>4. CASE serving /\ Page /\ UNCHANGED <<pc, runVars, cancelReq, code>>
  BY <1>4, PageLeavesTheSuite DEF runVars, Control
<1>5. CASE StartServer
  BY <1>1, <1>2, <1>3, <1>5 DEF StartServer, runVars, Control, InRun
<1>6. CASE StartScenario
  BY <1>1, <1>2, <1>3, <1>6 DEF StartScenario, runVars, Control, InRun, Current
<1>7. CASE EmitLine
  <2>1. seq' = seq + 1 /\ seq + 1 <= MaxLines
    BY <1>1, <1>7 DEF EmitLine, Emit
  <2> QED BY <1>1, <1>7, <2>1 DEF EmitLine, dashboardVars, Control, InRun
<1>8. CASE EmitRunFinished \/ InterruptRun
  <2>1. /\ pc = "running" /\ pc' \in {"ending", "interrupted"} /\ status' \in RunStatuses
        /\ UNCHANGED <<journal, serving, results, cancelReq, code>>
    BY <1>8 DEF EmitRunFinished, InterruptRun, dashboardVars
  <2>2. status' # "none"
    BY <2>1, InvocationAssumption
  <2> QED BY <2>1, <2>2 DEF Control, InRun
<1>9. CASE FanOut
  BY <1>2, <1>3, <1>9 DEF FanOut, Control, InRun
<1>10. CASE ScenarioFinished
  <2>1. /\ pc = "ending" /\ pc' = "next" /\ fanOut' = <<>> /\ seq' = 0
        /\ UNCHANGED <<serving, cancelReq, code>>
    BY <1>10 DEF ScenarioFinished, EndRun
  <2> QED BY <1>2, <1>3, <1>10, <2>1 DEF Control, InRun
<1>11. CASE ScenarioCannotRun \/ Exit \/ Interrupt
  <2>1. pc' = "over" /\ ~ serving'
    BY <1>11 DEF ScenarioCannotRun, Exit, Interrupt, Leave
  <2>2. fanOut' = <<>>
    BY <1>11 DEF ScenarioCannotRun, Exit, Interrupt, Control, InRun, runVars
  <2> QED BY <2>1, <2>2 DEF Control, InRun
<1>12. CASE FinishSuite
  <2>1. Len(results) = Scenarios \/ cancelReq
    BY <1>1, <1>12 DEF FinishSuite, Current
  <2> QED BY <1>2, <1>3, <1>12, <2>1 DEF FinishSuite, runVars, Control, InRun
<1>13. CASE PostCancel
  BY <1>2, <1>3, <1>13 DEF PostCancel, runVars, Control, InRun
<1>14. CASE UNCHANGED vars
  BY <1>14 DEF vars, runVars, dashboardVars, Control
<1> QED BY <1>4, <1>5, <1>6, <1>7, <1>8, <1>9, <1>10, <1>11, <1>12, <1>13, <1>14 DEF Next

\* The suite journal goes on telling of the scenarios in their order.
LEMMA ChroniclePreserved ==
  ASSUME TypeOK, Control, Chronicle, Live, [Next]_vars
  PROVE  Chronicle'
<1>1. /\ Len(results) \in Nat /\ Scenarios \in Nat /\ results \in Seq(RunStatuses)
      /\ Current \in Nat /\ Current = Len(results) + 1
  BY DashboardAssumption, LenProperties DEF TypeOK, SuiteTypeOK, Current
<1>2. Len(journal) \in Nat /\ journal \in Seq(Messages)
  BY LenProperties DEF TypeOK, SuiteTypeOK
<1>3. \A i \in 1..Len(journal) : journal[i] \in Messages
  BY <1>2, ElementOfSeq
<1>4. \A i \in 1..Len(journal) : journal[i].run \in Nat
  BY <1>1, <1>3 DEF Messages
<1>5. \A i \in 1..Len(journal) : OfScenario(i) => journal[i].run <= Current
  BY <1>1, <1>4 DEF Chronicle
<1>6. CASE /\ UNCHANGED <<journal, results>>
           /\ pc' = pc \/ pc' = "over" \/ (pc = "running" /\ pc' \in InRun)
  <2>1. \A i \in 1..Len(journal) : journal[i].type = "cliFinished" => pc \in {"serving", "over"}
    BY DEF Chronicle
  <2> QED BY <1>6, <2>1 DEF Chronicle, OfScenario, Current, InRun
<1>7. ASSUME NEW m \in Messages, Publish(m)
      PROVE  /\ Len(journal') = Len(journal) + 1
             /\ \A i \in 1..Len(journal) : journal'[i] = journal[i]
             /\ journal'[Len(journal) + 1] = m
             /\ \A i \in 1..Len(journal') : i \in 1..Len(journal) \/ i = Len(journal) + 1
  <2>1. /\ Len(journal') = Len(journal) + 1
        /\ \A i \in 1..Len(journal) : journal'[i] = journal[i]
        /\ journal'[Len(journal) + 1] = m
    BY <1>7, PublishLaw
  <2>2. \A i \in 1..(Len(journal) + 1) : i \in 1..Len(journal) \/ i = Len(journal) + 1
    BY <1>2
  <2> QED BY <2>1, <2>2
<1>8. CASE StartServer
  <2>1. Message("cliStarted", 0, NoLine) \in Messages
    BY PublishedAreMessages, <1>8
  <2>2. /\ journal = <<>> /\ Len(journal) = 0 /\ pc' = "next" /\ UNCHANGED results
    BY <1>8, EmptySeq DEF StartServer, Control, runVars
  <2>3. Len(results) = 0
    BY <1>1, <2>2 DEF Chronicle
  <2>4. /\ Len(journal') = 1 /\ journal'[1] = Message("cliStarted", 0, NoLine)
        /\ \A i \in 1..Len(journal') : i = 1
    BY <1>7, <1>8, <2>1, <2>2 DEF StartServer
  <2>5. /\ \A i \in 1..Len(journal') : i = 1 /\ journal'[i].type = "cliStarted"
        /\ \A s \in 1..Len(results') : FALSE
    BY <2>2, <2>3, <2>4 DEF Message
  <2> QED BY <2>5 DEF Chronicle, OfScenario, ScenarioTypes
<1>9. ASSUME NEW m \in Messages, Publish(m), m.type \in {"scenarioStarted", "harness"},
             m.run = Current, UNCHANGED results, pc' \in InRun, pc \in InRun \cup {"next"}
      PROVE  Chronicle'
  <2>1. /\ Len(journal') = Len(journal) + 1
        /\ \A i \in 1..Len(journal) : journal'[i] = journal[i]
        /\ journal'[Len(journal) + 1] = m
        /\ \A i \in 1..Len(journal') : i \in 1..Len(journal) \/ i = Len(journal) + 1
    BY <1>7, <1>9
  <2>2. Len(journal) # 0
    BY <1>2, <1>9, EmptySeq DEF Control, InRun
  <2>3. \A i \in 1..Len(journal) : journal[i].type # "cliFinished"
    BY <1>9 DEF Chronicle, InRun
  <2>4. \A i \in 1..Len(journal') : journal'[i].type = "cliStarted" <=> i = 1
    BY <1>2, <1>9, <2>1, <2>2 DEF Chronicle
  <2>5. ASSUME NEW i \in 1..Len(journal'), OfScenario(i)'
        PROVE  /\ journal'[i].run \in 1..Current'
               /\ journal'[i].run = Current' => pc' \in InRun \cup {"over"}
    BY <1>1, <1>9, <2>1, <2>5 DEF Chronicle, OfScenario, Current
  <2>6. ASSUME NEW i \in 1..Len(journal'), journal'[i].type = "scenarioFinished"
        PROVE  /\ journal'[i].run \in 1..Len(results')
               /\ journal'[i].line.status = results'[journal'[i].run]
               /\ \A j \in 1..Len(journal') :
                    j > i /\ OfScenario(j)' => journal'[j].run > journal'[i].run
    <3>1. i \in 1..Len(journal) /\ journal'[i] = journal[i]
      BY <1>9, <2>1, <2>6
    <3>2. /\ journal[i].run \in 1..Len(results) /\ journal[i].line.status = results[journal[i].run]
          /\ \A j \in 1..Len(journal) : j > i /\ OfScenario(j) => journal[j].run > journal[i].run
      BY <2>6, <3>1 DEF Chronicle
    <3>3. m.run > journal[i].run
      BY <1>1, <1>9, <3>2
    <3>4. ASSUME NEW j \in 1..Len(journal'), j > i, OfScenario(j)'
          PROVE  journal'[j].run > journal'[i].run
      <4>1. CASE j \in 1..Len(journal)
        BY <2>1, <3>1, <3>2, <3>4, <4>1 DEF OfScenario
      <4>2. CASE j = Len(journal) + 1
        BY <2>1, <3>1, <3>3, <4>2
      <4> QED BY <2>1, <4>1, <4>2
    <3> QED BY <1>9, <3>1, <3>2, <3>4
  <2>7. ASSUME NEW s \in 1..Len(results')
        PROVE  \E i \in 1..Len(journal') :
                 journal'[i].type = "scenarioFinished" /\ journal'[i].run = s
    <3>1. PICK i \in 1..Len(journal) : journal[i].type = "scenarioFinished" /\ journal[i].run = s
      BY <1>9, <2>7 DEF Chronicle
    <3>2. i \in 1..Len(journal')
      BY <1>2, <2>1
    <3> QED BY <2>1, <3>1, <3>2
  <2>8. \A k \in 1..Len(journal') : journal'[k].type # "cliFinished"
    BY <1>9, <2>1, <2>3
  <2> QED BY <2>4, <2>5, <2>6, <2>7, <2>8 DEF Chronicle
<1>10. CASE StartScenario
  <2>1. /\ Message("scenarioStarted", Current, NoLine) \in Messages
        /\ Message("scenarioStarted", Current, NoLine).type = "scenarioStarted"
        /\ Message("scenarioStarted", Current, NoLine).run = Current
    BY PublishedAreMessages, <1>10 DEF Message
  <2> QED BY <1>9, <1>10, <2>1 DEF StartScenario, runVars, InRun
<1>11. CASE FanOut
  <2>1. pc \in InRun /\ fanOut # <<>> /\ fanOut \in Seq(Messages)
    BY <1>11 DEF FanOut, Control, TypeOK, SuiteTypeOK
  <2>2. Head(fanOut) = fanOut[1] /\ 1 \in 1..Len(fanOut) /\ Head(fanOut) \in Messages
    <3>1. Len(fanOut) \in Nat /\ Len(fanOut) # 0
      BY <2>1, LenProperties, EmptySeq
    <3> QED BY <2>1, <3>1, HeadTailProperties
  <2>3. Head(fanOut).type = "harness" /\ Head(fanOut).run = Current
    BY <2>1, <2>2 DEF Live, InRun
  <2> QED BY <1>9, <1>11, <2>1, <2>2, <2>3 DEF FanOut
<1>12. CASE ScenarioFinished
  <2> DEFINE m == Message("scenarioFinished", Current, [seq |-> 0, status |-> status])
  <2>1. m \in Messages /\ m.type = "scenarioFinished" /\ m.run = Current /\ m.line.status = status
    BY PublishedAreMessages, <1>12 DEF Message
  <2> HIDE DEF m
  <2>2. /\ Len(journal') = Len(journal) + 1
        /\ \A i \in 1..Len(journal) : journal'[i] = journal[i]
        /\ journal'[Len(journal) + 1] = m
        /\ \A i \in 1..Len(journal') : i \in 1..Len(journal) \/ i = Len(journal) + 1
    BY <1>7, <1>12, <2>1 DEF ScenarioFinished, m
  <2>3. status \in RunStatuses
    BY <1>12 DEF ScenarioFinished, Control, TypeOK, SuiteTypeOK
  <2>4. /\ results' = Append(results, status) /\ Len(results') = Len(results) + 1
        /\ \A s \in 1..Len(results) : results'[s] = results[s]
        /\ results'[Len(results) + 1] = status
    BY <1>1, <1>12, <2>3, AppendProperties DEF ScenarioFinished
  <2>5. pc = "ending" /\ pc' = "next" /\ Current' = Current + 1 /\ Len(journal) # 0
    BY <1>1, <1>2, <1>12, <2>4, EmptySeq DEF ScenarioFinished, Control, Current
  <2>6. \A i \in 1..Len(journal) : journal[i].type # "cliFinished"
    BY <2>5 DEF Chronicle
  <2>7. \A i \in 1..Len(journal') : journal'[i].type = "cliStarted" <=> i = 1
    BY <1>2, <2>1, <2>2, <2>5 DEF Chronicle
  <2>8. ASSUME NEW i \in 1..Len(journal'), OfScenario(i)'
        PROVE  journal'[i].run \in 1..Current /\ journal'[i].run # Current'
    <3>1. journal'[i].run \in 1..Current
      BY <1>1, <2>1, <2>2, <2>8 DEF Chronicle, OfScenario
    <3> QED BY <1>1, <2>5, <3>1
  <2>9. ASSUME NEW i \in 1..Len(journal'), journal'[i].type = "scenarioFinished"
        PROVE  /\ journal'[i].run \in 1..Len(results')
               /\ journal'[i].line.status = results'[journal'[i].run]
               /\ \A j \in 1..Len(journal') :
                    j > i /\ OfScenario(j)' => journal'[j].run > journal'[i].run
    <3>1. CASE i \in 1..Len(journal)
      <4>1. /\ journal'[i] = journal[i] /\ journal[i].run \in 1..Len(results)
            /\ journal[i].line.status = results[journal[i].run]
            /\ \A j \in 1..Len(journal) : j > i /\ OfScenario(j) => journal[j].run > journal[i].run
        BY <2>2, <2>9, <3>1 DEF Chronicle
      <4>2. journal[i].run \in 1..Len(results') /\ m.run > journal[i].run
        BY <1>1, <2>1, <2>4, <4>1
      <4>3. ASSUME NEW j \in 1..Len(journal'), j > i, OfScenario(j)'
            PROVE  journal'[j].run > journal'[i].run
        <5>1. CASE j \in 1..Len(journal)
          BY <2>2, <4>1, <4>3, <5>1 DEF OfScenario
        <5>2. CASE j = Len(journal) + 1
          BY <2>2, <4>1, <4>2, <5>2
        <5> QED BY <2>2, <5>1, <5>2
      <4> QED BY <2>4, <4>1, <4>2, <4>3
    <3>2. CASE i = Len(journal) + 1
      <4>1. journal'[i] = m /\ m.run \in 1..Len(results') /\ m.run = Len(results) + 1
        BY <1>1, <2>1, <2>2, <2>4, <3>2
      <4>2. ASSUME NEW j \in 1..Len(journal'), j > i PROVE FALSE
        BY <1>2, <2>2, <3>2, <4>2
      <4> QED BY <2>1, <2>4, <4>1, <4>2
    <3> QED BY <2>2, <3>1, <3>2
  <2>10. ASSUME NEW s \in 1..Len(results')
         PROVE  \E i \in 1..Len(journal') :
                  journal'[i].type = "scenarioFinished" /\ journal'[i].run = s
    <3>1. CASE s \in 1..Len(results)
      <4>1. PICK i \in 1..Len(journal) :
              journal[i].type = "scenarioFinished" /\ journal[i].run = s
        BY <3>1 DEF Chronicle
      <4>2. i \in 1..Len(journal')
        BY <1>2, <2>2
      <4> QED BY <2>2, <4>1, <4>2
    <3>2. CASE s \notin 1..Len(results)
      <4>1. s = Current /\ Len(journal) + 1 \in 1..Len(journal')
        BY <1>1, <1>2, <2>2, <2>4, <3>2
      <4> QED BY <2>1, <2>2, <4>1
    <3> QED BY <3>1, <3>2
  <2>11. \A k \in 1..Len(journal') : journal'[k].type # "cliFinished"
    BY <2>1, <2>2, <2>6
  <2>12. \A i \in 1..Len(journal') : OfScenario(i)' =>
           /\ journal'[i].run \in 1..Current'
           /\ journal'[i].run = Current' => pc' \in InRun \cup {"over"}
    BY <1>1, <2>5, <2>8
  <2> QED BY <2>7, <2>9, <2>10, <2>11, <2>12 DEF Chronicle
<1>13. ASSUME NEW m \in Messages, Publish(m), UNCHANGED results, pc \notin {"start", "over"},
              \/ m.type = "cancellationRequested" /\ pc' = pc
              \/ /\ m.type = "cliFinished" /\ pc = "next" /\ pc' = "serving"
                 /\ m.line.seq = Len(results)
       PROVE  Chronicle'
  <2>1. /\ Len(journal') = Len(journal) + 1
        /\ \A i \in 1..Len(journal) : journal'[i] = journal[i]
        /\ journal'[Len(journal) + 1] = m
        /\ \A i \in 1..Len(journal') : i \in 1..Len(journal) \/ i = Len(journal) + 1
    BY <1>7, <1>13
  <2>2. Len(journal) # 0
    BY <1>2, <1>13, EmptySeq DEF Control
  <2>3. ASSUME NEW i \in 1..Len(journal'), OfScenario(i)'
        PROVE  i \in 1..Len(journal) /\ OfScenario(i) /\ journal'[i] = journal[i]
    <3>1. m.type \notin ScenarioTypes
      BY <1>13 DEF ScenarioTypes
    <3> QED BY <2>1, <2>3, <3>1 DEF OfScenario
  <2>4. \A i \in 1..Len(journal') : journal'[i].type = "cliStarted" <=> i = 1
    BY <1>2, <1>13, <2>1, <2>2 DEF Chronicle
  <2>5. \A i \in 1..Len(journal') : OfScenario(i)' =>
          /\ journal'[i].run \in 1..Current'
          /\ journal'[i].run = Current' => pc' \in InRun \cup {"over"}
    BY <1>13, <2>3 DEF Chronicle, Current, InRun
  <2>6. ASSUME NEW i \in 1..Len(journal'), journal'[i].type = "scenarioFinished"
        PROVE  /\ journal'[i].run \in 1..Len(results')
               /\ journal'[i].line.status = results'[journal'[i].run]
               /\ \A j \in 1..Len(journal') :
                    j > i /\ OfScenario(j)' => journal'[j].run > journal'[i].run
    <3>1. i \in 1..Len(journal) /\ journal'[i] = journal[i]
      BY <2>3, <2>6 DEF OfScenario, ScenarioTypes
    <3>2. /\ journal[i].run \in 1..Len(results) /\ journal[i].line.status = results[journal[i].run]
          /\ \A j \in 1..Len(journal) : j > i /\ OfScenario(j) => journal[j].run > journal[i].run
      BY <2>6, <3>1 DEF Chronicle
    <3>3. ASSUME NEW j \in 1..Len(journal'), j > i, OfScenario(j)'
          PROVE  journal'[j].run > journal'[i].run
      BY <2>3, <3>1, <3>2, <3>3
    <3> QED BY <1>13, <3>1, <3>2, <3>3
  <2>7. ASSUME NEW s \in 1..Len(results')
        PROVE  \E i \in 1..Len(journal') :
                 journal'[i].type = "scenarioFinished" /\ journal'[i].run = s
    <3>1. PICK i \in 1..Len(journal) : journal[i].type = "scenarioFinished" /\ journal[i].run = s
      BY <1>13, <2>7 DEF Chronicle
    <3>2. i \in 1..Len(journal')
      BY <1>2, <2>1
    <3> QED BY <2>1, <3>1, <3>2
  <2>8. ASSUME NEW k \in 1..Len(journal'), journal'[k].type = "cliFinished"
        PROVE  /\ pc' \in {"serving", "over"} /\ journal'[k].line.seq = Len(results')
               /\ \A i \in 1..Len(journal') :
                    OfScenario(i)' => i < k /\ journal'[i].run <= Len(results')
    <3>1. CASE k \in 1..Len(journal)
      <4>1. /\ pc \in {"serving", "over"} /\ journal[k].line.seq = Len(results)
            /\ \A i \in 1..Len(journal) : OfScenario(i) => i < k /\ journal[i].run <= Len(results)
        BY <2>1, <2>8, <3>1 DEF Chronicle
      <4>2. \A i \in 1..Len(journal') :
              OfScenario(i)' => i < k /\ journal'[i].run <= Len(results)
        BY <2>3, <4>1
      <4>3. pc' \in {"serving", "over"}
        BY <1>13, <4>1
      <4> QED BY <1>13, <2>1, <3>1, <4>1, <4>2, <4>3
    <3>2. CASE k = Len(journal) + 1
      <4>1. m.type = "cliFinished" /\ pc = "next" /\ pc' = "serving" /\ m.line.seq = Len(results)
        BY <1>13, <2>1, <2>8, <3>2
      <4>2. ASSUME NEW i \in 1..Len(journal'), OfScenario(i)'
            PROVE  i < k /\ journal'[i].run <= Len(results)
        <5>1. i \in 1..Len(journal) /\ OfScenario(i) /\ journal'[i] = journal[i]
          BY <2>3, <4>2
        <5>2. journal[i].run \in 1..Current /\ journal[i].run # Current
          BY <4>1, <5>1 DEF Chronicle, InRun
        <5>3. i < k
          BY <1>2, <3>2, <5>1
        <5> QED BY <1>1, <5>1, <5>2, <5>3
      <4> QED BY <1>13, <2>1, <3>2, <4>1, <4>2
    <3> QED BY <2>1, <3>1, <3>2
  <2> QED BY <2>4, <2>5, <2>6, <2>7, <2>8 DEF Chronicle
<1>14. CASE FinishSuite
  <2> DEFINE m == Message("cliFinished", 0, [seq |-> Len(results), status |-> "none"])
  <2>1. m \in Messages /\ m.type = "cliFinished" /\ m.line.seq = Len(results)
    BY PublishedAreMessages DEF Message
  <2>2. Publish(m) /\ UNCHANGED results /\ pc = "next" /\ pc' = "serving"
    BY <1>14 DEF FinishSuite, runVars
  <2> HIDE DEF m
  <2> QED BY <1>13, <2>1, <2>2
<1>15. CASE PostCancel
  <2> DEFINE m == Message("cancellationRequested", 0, NoLine)
  <2>1. m \in Messages /\ m.type = "cancellationRequested"
    BY PublishedAreMessages DEF Message
  <2>2. Publish(m) /\ UNCHANGED results /\ pc' = pc /\ pc \notin {"start", "over"}
    BY <1>15 DEF PostCancel, runVars, Control
  <2> HIDE DEF m
  <2> QED BY <1>13, <2>1, <2>2
<1>16. CASE serving /\ Page /\ UNCHANGED <<pc, runVars, cancelReq, code>>
  BY <1>6, <1>16, PageLeavesTheSuite DEF runVars
<1>17. CASE EmitLine \/ EmitRunFinished \/ InterruptRun
  BY <1>6, <1>17 DEF EmitLine, EmitRunFinished, InterruptRun, dashboardVars, InRun
<1>18. CASE ScenarioCannotRun \/ Exit \/ Interrupt
  BY <1>6, <1>18 DEF ScenarioCannotRun, Exit, Interrupt, Leave, runVars
<1>19. CASE UNCHANGED vars
  BY <1>6, <1>19 DEF vars, runVars, dashboardVars
<1> QED BY <1>8, <1>10, <1>11, <1>12, <1>14, <1>15, <1>16, <1>17, <1>18, <1>19 DEF Next

\* What was announced of the run under way goes on being in its journal.
LEMMA LivePreserved ==
  ASSUME TypeOK, Control, Chronicle, Live, [Next]_vars
  PROVE  Live'
<1>1. /\ Len(results) \in Nat /\ results \in Seq(RunStatuses) /\ Current = Len(results) + 1
      /\ Len(journal) \in Nat /\ journal \in Seq(Messages) /\ fanOut \in Seq(Messages)
      /\ Len(fanOut) \in Nat
  BY LenProperties DEF TypeOK, SuiteTypeOK, Current
<1>2. CASE pc' = "over"
  BY <1>2 DEF Live
<1>3. CASE pc # "over" /\ UNCHANGED <<journal, fanOut, results, written>>
  BY <1>3 DEF Live, Current
<1>4. ASSUME pc # "over", NEW m \in Messages, Publish(m), m.type # "harness",
             UNCHANGED <<fanOut, results, written>>
      PROVE  Live'
  <2>1. \A i \in 1..Len(journal') :
          \/ journal'[i] = m
          \/ i \in 1..Len(journal) /\ journal'[i] = journal[i]
    <3>1. /\ Len(journal') = Len(journal) + 1
          /\ \A i \in 1..Len(journal) : journal'[i] = journal[i]
          /\ journal'[Len(journal) + 1] = m
      BY <1>4, PublishLaw
    <3>2. \A i \in 1..Len(journal') : i \in 1..Len(journal) \/ i = Len(journal) + 1
      BY <1>1, <3>1
    <3> QED BY <3>1, <3>2
  <2> QED BY <1>4, <2>1 DEF Live, Current
<1>5. CASE StartServer
  <2>1. Message("cliStarted", 0, NoLine).type = "cliStarted"
    BY DEF Message
  <2> QED BY <1>4, <1>5, <2>1, PublishedAreMessages DEF StartServer, runVars
<1>6. CASE StartScenario
  <2>1. Message("scenarioStarted", Current, NoLine).type = "scenarioStarted"
    BY DEF Message
  <2> QED BY <1>4, <1>6, <2>1, PublishedAreMessages DEF StartScenario, runVars
<1>7. CASE FinishSuite
  <2>1. Message("cliFinished", 0, [seq |-> Len(results), status |-> "none"]).type = "cliFinished"
    BY DEF Message
  <2> QED BY <1>4, <1>7, <2>1, PublishedAreMessages DEF FinishSuite, runVars
<1>8. CASE PostCancel
  <2>1. Message("cancellationRequested", 0, NoLine).type = "cancellationRequested"
    BY DEF Message
  <2>2. pc # "over"
    BY <1>8 DEF PostCancel, Control
  <2> QED BY <1>4, <1>8, <2>1, <2>2, PublishedAreMessages DEF PostCancel, runVars
<1>9. CASE EmitLine \/ EmitRunFinished \/ InterruptRun
  <2>1. pc = "running" /\ UNCHANGED <<journal, results>>
    BY <1>9 DEF EmitLine, EmitRunFinished, InterruptRun, dashboardVars
  <2>2. Len(results) < Scenarios /\ seq <= MaxLines
    BY <2>1 DEF Control, InRun
  <2>3. PICK s \in RunStatuses \cup {"none"} : Emit([seq |-> seq + 1, status |-> s])
    BY <1>9 DEF EmitLine, EmitRunFinished, InterruptRun
  <2>4. /\ written \subseteq written'
        /\ \/ fanOut' = fanOut
           \/ /\ Len(fanOut') = Len(fanOut) + 1
              /\ \A i \in 1..Len(fanOut) : fanOut'[i] = fanOut[i]
              /\ fanOut'[Len(fanOut) + 1].type = "harness"
              /\ fanOut'[Len(fanOut) + 1].run = Current
              /\ fanOut'[Len(fanOut) + 1].line.seq \in written'
    BY <2>2, <2>3, EmitLaw DEF TypeOK
  <2>5. /\ \A i \in 1..Len(fanOut) : /\ fanOut[i].type = "harness" /\ fanOut[i].run = Current
                                     /\ fanOut[i].line.seq \in written'
        /\ \A i \in 1..Len(journal) :
             journal[i].type = "harness" /\ journal[i].run = Current =>
               journal[i].line.seq \in written'
    BY <2>1, <2>4 DEF Live
  <2>6. ASSUME NEW i \in 1..Len(fanOut')
        PROVE  fanOut'[i].type = "harness" /\ fanOut'[i].run = Current
               /\ fanOut'[i].line.seq \in written'
    <3>1. CASE fanOut' = fanOut
      BY <2>5, <3>1
    <3>2. CASE /\ Len(fanOut') = Len(fanOut) + 1
               /\ \A j \in 1..Len(fanOut) : fanOut'[j] = fanOut[j]
               /\ fanOut'[Len(fanOut) + 1].type = "harness"
               /\ fanOut'[Len(fanOut) + 1].run = Current
               /\ fanOut'[Len(fanOut) + 1].line.seq \in written'
      <4>1. i \in 1..Len(fanOut) \/ i = Len(fanOut) + 1
        BY <1>1, <3>2
      <4> QED BY <2>5, <3>2, <4>1
    <3> QED BY <2>4, <3>1, <3>2
  <2> QED BY <2>1, <2>5, <2>6 DEF Live, Current
<1>10. CASE FanOut
  <2>1. /\ pc # "over" /\ fanOut # <<>> /\ fanOut' = Tail(fanOut) /\ Publish(Head(fanOut))
        /\ UNCHANGED <<results, written>>
    BY <1>10 DEF FanOut, Control, InRun
  <2>2. /\ Head(fanOut) = fanOut[1] /\ Head(fanOut) \in Messages /\ 1 \in 1..Len(fanOut)
        /\ Len(Tail(fanOut)) = Len(fanOut) - 1
        /\ \A i \in 1..Len(Tail(fanOut)) : Tail(fanOut)[i] = fanOut[i + 1]
    <3>1. Len(fanOut) # 0
      BY <1>1, <2>1, EmptySeq
    <3> QED BY <1>1, <2>1, <3>1, HeadTailProperties
  <2>3. /\ Len(journal') = Len(journal) + 1
        /\ \A i \in 1..Len(journal) : journal'[i] = journal[i]
        /\ journal'[Len(journal) + 1] = fanOut[1]
    BY <2>1, <2>2, PublishLaw
  <2>4. ASSUME NEW i \in 1..Len(journal'), journal'[i].type = "harness", journal'[i].run = Current
        PROVE  journal'[i].line.seq \in written
    <3>1. CASE i \in 1..Len(journal)
      BY <2>1, <2>3, <2>4, <3>1 DEF Live
    <3>2. CASE i = Len(journal) + 1
      BY <2>1, <2>2, <2>3, <3>2 DEF Live
    <3>3. i \in 1..Len(journal) \/ i = Len(journal) + 1
      BY <1>1, <2>3
    <3> QED BY <3>1, <3>2, <3>3
  <2>5. ASSUME NEW i \in 1..Len(fanOut')
        PROVE  fanOut'[i].type = "harness" /\ fanOut'[i].run = Current
               /\ fanOut'[i].line.seq \in written
    <3>1. i + 1 \in 1..Len(fanOut) /\ fanOut'[i] = fanOut[i + 1]
      BY <1>1, <2>1, <2>2
    <3> QED BY <2>1, <3>1 DEF Live
  <2> QED BY <2>1, <2>4, <2>5 DEF Live, Current
<1>11. CASE ScenarioFinished
  <2> DEFINE m == Message("scenarioFinished", Current, [seq |-> 0, status |-> status])
  <2>1. m \in Messages /\ m.type = "scenarioFinished"
    BY PublishedAreMessages, <1>11 DEF Message
  <2> HIDE DEF m
  <2>2. /\ Len(journal') = Len(journal) + 1
        /\ \A i \in 1..Len(journal) : journal'[i] = journal[i]
        /\ journal'[Len(journal) + 1] = m
    BY <1>11, <2>1, PublishLaw DEF ScenarioFinished, m
  <2>3. Current' = Current + 1 /\ fanOut' = <<>>
    <3>1. status \in RunStatuses
      BY <1>11 DEF ScenarioFinished, Control, TypeOK, SuiteTypeOK
    <3>2. Len(results') = Len(results) + 1
      BY <1>1, <1>11, <3>1, AppendProperties DEF ScenarioFinished
    <3> QED BY <1>1, <1>11, <3>2 DEF ScenarioFinished, Current
  <2>4. ASSUME NEW i \in 1..Len(journal'), journal'[i].type = "harness", journal'[i].run = Current'
        PROVE  FALSE
    <3>1. CASE i \in 1..Len(journal)
      <4>1. journal[i].run \in 1..Current
        BY <2>2, <2>4, <3>1 DEF Chronicle, OfScenario, ScenarioTypes
      <4> QED BY <1>1, <2>2, <2>3, <2>4, <3>1, <4>1
    <3>2. CASE i = Len(journal) + 1
      BY <2>1, <2>2, <2>4, <3>2
    <3>3. i \in 1..Len(journal) \/ i = Len(journal) + 1
      BY <1>1, <2>2
    <3> QED BY <3>1, <3>2, <3>3
  <2>5. Len(fanOut') = 0
    BY <2>3, EmptySeq
  <2> QED BY <2>4, <2>5 DEF Live
<1>12. CASE ScenarioCannotRun \/ Exit \/ Interrupt
  BY <1>2, <1>12 DEF ScenarioCannotRun, Exit, Interrupt, Leave
<1>13. CASE serving /\ Page /\ UNCHANGED <<pc, runVars, cancelReq, code>>
  <2>1. pc # "over"
    BY <1>13 DEF Control
  <2> QED BY <1>3, <1>13, <2>1, PageLeavesTheSuite DEF runVars
<1>14. CASE UNCHANGED vars
  BY <1>2, <1>3, <1>14 DEF vars, runVars, dashboardVars
<1> QED BY <1>5, <1>6, <1>7, <1>8, <1>9, <1>10, <1>11, <1>12, <1>13, <1>14 DEF Next

\* A failed append goes on spoiling the line after it at most.
LEMMA TornPreserved ==
  ASSUME TypeOK, Control, Torn, [Next]_vars
  PROVE  Torn'
<1>1. seq \in Nat /\ written \subseteq Nat /\ MaxLines \in Nat
  BY InvocationAssumption DEF TypeOK, SuiteTypeOK
<1>2. CASE EmitLine \/ EmitRunFinished \/ InterruptRun
  <2>1. PICK s \in RunStatuses \cup {"none"} : Emit([seq |-> seq + 1, status |-> s])
    BY <1>2 DEF EmitLine, EmitRunFinished, InterruptRun
  <2>2. seq' = seq + 1
    BY <2>1 DEF Emit
  <2>3. \A n \in written : n \in Nat /\ n <= seq
    BY <1>1 DEF Torn
  <2>4. \/ /\ written' = written \cup {seq + 1} /\ partial' = FALSE
           /\ glued' = IF partial THEN glued \cup {seq + 1} ELSE glued
        \/ written' = written /\ glued' = glued
    BY <2>1 DEF Emit, Land, AppendFails
  <2>5. CASE /\ written' = written \cup {seq + 1} /\ partial' = FALSE
             /\ glued' = IF partial THEN glued \cup {seq + 1} ELSE glued
    <3>1. ASSUME NEW n \in glued' PROVE n - 1 \notin written'
      <4>1. CASE n \in glued
        BY <1>1, <2>3, <2>5, <4>1 DEF Torn
      <4>2. CASE n = seq + 1 /\ partial
        BY <1>1, <2>3, <2>5, <4>2 DEF Torn
      <4> QED BY <2>5, <3>1, <4>1, <4>2
    <3>2. \A n \in written' : n <= seq'
      BY <1>1, <2>2, <2>3, <2>5
    <3>3. glued' \subseteq written' /\ ~ partial'
      BY <2>5 DEF Torn
    <3> QED BY <3>1, <3>2, <3>3 DEF Torn
  <2>6. CASE written' = written /\ glued' = glued
    <3>1. seq' \notin written' /\ \A n \in written' : n <= seq'
      BY <1>1, <2>2, <2>3, <2>6
    <3> QED BY <2>6, <3>1 DEF Torn
  <2> QED BY <2>4, <2>5, <2>6
<1>3. CASE UNCHANGED runVars
  BY <1>3 DEF runVars, Torn
<1>4. CASE UNCHANGED <<seq, written, glued, partial>>
  BY <1>4 DEF Torn
<1>5. CASE EndRun
  BY <1>5 DEF EndRun, Torn
<1>6. CASE serving /\ Page /\ UNCHANGED <<pc, runVars, cancelReq, code>>
  BY <1>3, <1>6
<1>7. CASE StartServer \/ StartScenario \/ FinishSuite \/ Exit \/ PostCancel
  BY <1>3, <1>7 DEF StartServer, StartScenario, FinishSuite, Exit, PostCancel
<1>8. CASE FanOut
  BY <1>4, <1>8 DEF FanOut
<1>9. CASE ScenarioFinished \/ ScenarioCannotRun \/ Interrupt
  BY <1>5, <1>9 DEF ScenarioFinished, ScenarioCannotRun, Interrupt
<1>10. CASE UNCHANGED vars
  BY <1>3, <1>10 DEF vars
<1> QED BY <1>2, <1>6, <1>7, <1>8, <1>9, <1>10 DEF Next

\* Once it is over, nothing happens.
LEMMA OverIsOver ==
  ASSUME Control, pc = "over", [Next]_vars
  PROVE  UNCHANGED vars
BY DEF Control, InRun, Next, StartServer, StartScenario, EmitLine, EmitRunFinished, FanOut,
       ScenarioFinished, ScenarioCannotRun, FinishSuite, Exit, InterruptRun, Interrupt,
       PostCancel

\* Once the suite is finished, its results are what they are.
LEMMA FinishedIsFinished ==
  ASSUME Control, pc \in {"serving", "over"}, [Next]_vars
  PROVE  pc' \in {"serving", "over"} /\ UNCHANGED results
<1>1. CASE pc = "over"
  BY <1>1, OverIsOver DEF vars, runVars
<1>2. CASE pc = "serving"
  BY <1>2 DEF Control, InRun, Next, StartServer, StartScenario, EmitLine, EmitRunFinished, FanOut,
       ScenarioFinished, ScenarioCannotRun, FinishSuite, Exit, InterruptRun, Interrupt,
       PostCancel, Leave, vars, runVars
<1> QED BY <1>1, <1>2

\* A suite that came to its end goes on being told by its exit code.
LEMMA EndedPreserved ==
  ASSUME TypeOK, Control, Told, Ended, [Next]_vars
  PROVE  Ended'
<1>1. CASE pc = "over"
  BY <1>1, OverIsOver DEF vars, runVars, dashboardVars, Ended
<1>2. CASE pc' # "over"
  BY <1>2 DEF Ended
<1>3. CASE pc # "over" /\ pc' = "over"
  <2>1. CASE Exit
    <3>1. /\ code' = ExitFor(results) /\ UNCHANGED <<results, cancelReq>> /\ pc = "serving"
      BY <2>1 DEF Exit, Leave, runVars
    <3> QED BY <3>1 DEF Control, Ended
  <2>2. CASE Interrupt
    <3>1. /\ code' = 130 /\ UNCHANGED <<results, cancelReq, board>>
      BY <2>2 DEF Interrupt, Leave
    <3>2. board.finished => pc = "serving"
      BY <1>3 DEF Told
    <3> QED BY <3>1, <3>2 DEF Control, Ended
  <2>3. CASE ScenarioCannotRun
    <3>1. pc \notin {"serving", "over"} /\ UNCHANGED board
      BY <2>3 DEF ScenarioCannotRun
    <3> QED BY <3>1 DEF Told, Ended
  <2>4. CASE serving /\ Page /\ UNCHANGED <<pc, runVars, cancelReq, code>>
    BY <1>3, <2>4
  <2>5. CASE StartServer \/ StartScenario \/ EmitLine \/ EmitRunFinished \/ FanOut
    BY <1>3, <2>5 DEF StartServer, StartScenario, EmitLine, EmitRunFinished, FanOut
  <2>6. CASE ScenarioFinished \/ FinishSuite \/ InterruptRun \/ PostCancel
    BY <1>3, <2>6 DEF ScenarioFinished, FinishSuite, InterruptRun, PostCancel
  <2> QED BY <1>3, <2>1, <2>2, <2>3, <2>4, <2>5, <2>6 DEF Next, vars
<1> QED BY <1>1, <1>2, <1>3

\* The lines of a run go on being told in the order of their numbers.
LEMMA NumberedPreserved ==
  ASSUME TypeOK, Control, Chronicle, Live, Numbered, [Next]_vars
  PROVE  Numbered'
<1>1. /\ Len(results) \in Nat /\ results \in Seq(RunStatuses) /\ Current = Len(results) + 1
      /\ Len(journal) \in Nat /\ journal \in Seq(Messages) /\ fanOut \in Seq(Messages)
      /\ Len(fanOut) \in Nat /\ seq \in Nat
  BY LenProperties, InvocationAssumption DEF TypeOK, SuiteTypeOK, Current
<1>2. /\ \A i \in 1..Len(journal) : journal[i].line.seq \in Nat /\ journal[i].run \in Nat
      /\ \A i \in 1..Len(fanOut) : fanOut[i].line.seq \in Nat
  <2>1. /\ \A i \in 1..Len(journal) : journal[i] \in Messages
        /\ \A i \in 1..Len(fanOut) : fanOut[i] \in Messages
    BY <1>1, ElementOfSeq
  <2> QED BY <2>1 DEF Messages
<1>3. ASSUME NEW m \in Messages, Publish(m)
      PROVE  /\ Len(journal') = Len(journal) + 1
             /\ \A i \in 1..Len(journal) : journal'[i] = journal[i]
             /\ journal'[Len(journal) + 1] = m
             /\ \A i \in 1..Len(journal') : i \in 1..Len(journal) \/ i = Len(journal) + 1
             /\ \A i, j \in 1..Len(journal') : i < j => i \in 1..Len(journal)
  <2>1. /\ Len(journal') = Len(journal) + 1
        /\ \A i \in 1..Len(journal) : journal'[i] = journal[i]
        /\ journal'[Len(journal) + 1] = m
    BY <1>3, PublishLaw
  <2>2. /\ \A i \in 1..Len(journal') : i \in 1..Len(journal) \/ i = Len(journal) + 1
        /\ \A i, j \in 1..Len(journal') : i < j => i \in 1..Len(journal)
    BY <1>1, <2>1
  <2> QED BY <2>1, <2>2
<1>4. CASE UNCHANGED journal /\ pc' = "over"
  BY <1>4 DEF Numbered, Harness, OfScenario
<1>5. CASE pc # "over" /\ UNCHANGED <<journal, fanOut, results, seq>>
  BY <1>5 DEF Numbered, Harness, OfScenario, Current
<1>6. ASSUME pc # "over", NEW m \in Messages, Publish(m),
             m.type \notin {"harness", "scenarioStarted"},
             UNCHANGED <<fanOut, results, seq>>
      PROVE  Numbered'
  <2>1. /\ \A i \in 1..Len(journal') : Harness(i)' \/ journal'[i].type = "scenarioStarted" =>
             i \in 1..Len(journal) /\ journal'[i] = journal[i] /\ (Harness(i)' => Harness(i))
        /\ \A i, j \in 1..Len(journal') : i < j => i \in 1..Len(journal) /\ journal'[i] = journal[i]
    BY <1>3, <1>6 DEF Harness
  <2>2. \A i, j \in 1..Len(journal') :
          Harness(i)' /\ Harness(j)' /\ i < j /\ journal'[i].run = journal'[j].run =>
            journal'[i].line.seq < journal'[j].line.seq
    BY <2>1 DEF Numbered
  <2>3. \A i \in 1..Len(journal') : journal'[i].type = "scenarioStarted" =>
          \A j \in 1..Len(journal') : j < i /\ OfScenario(j)' => journal'[j].run # journal'[i].run
    BY <2>1 DEF Numbered, OfScenario
  <2>4. \A i \in 1..Len(journal') : Harness(i)' /\ journal'[i].run = Current' =>
          /\ journal'[i].line.seq <= seq'
          /\ \A j \in 1..Len(fanOut') : journal'[i].line.seq < fanOut'[j].line.seq
    BY <1>6, <2>1 DEF Numbered, Current
  <2>5. /\ \A j \in 1..Len(fanOut') : fanOut'[j].line.seq <= seq'
        /\ \A i, j \in 1..Len(fanOut') : i < j => fanOut'[i].line.seq < fanOut'[j].line.seq
    BY <1>6 DEF Numbered
  <2> QED BY <2>2, <2>3, <2>4, <2>5 DEF Numbered
<1>7. CASE StartServer
  <2>1. Message("cliStarted", 0, NoLine).type = "cliStarted"
    BY DEF Message
  <2> QED BY <1>6, <1>7, <2>1, PublishedAreMessages DEF StartServer, runVars
<1>8. CASE FinishSuite
  <2>1. Message("cliFinished", 0, [seq |-> Len(results), status |-> "none"]).type = "cliFinished"
    BY DEF Message
  <2> QED BY <1>6, <1>8, <2>1, PublishedAreMessages DEF FinishSuite, runVars
<1>9. CASE PostCancel
  <2>1. Message("cancellationRequested", 0, NoLine).type = "cancellationRequested"
    BY DEF Message
  <2>2. pc # "over"
    BY <1>9 DEF PostCancel, Control
  <2> QED BY <1>6, <1>9, <2>1, <2>2, PublishedAreMessages DEF PostCancel, runVars
<1>10. CASE StartScenario
  <2> DEFINE m == Message("scenarioStarted", Current, NoLine)
  <2>1. m \in Messages /\ m.type = "scenarioStarted" /\ m.run = Current
    BY PublishedAreMessages, <1>10 DEF Message
  <2>2. /\ Publish(m) /\ pc = "next" /\ UNCHANGED <<fanOut, results, seq>>
    BY <1>10 DEF StartScenario, runVars
  <2> HIDE DEF m
  <2>3. /\ \A i \in 1..Len(journal') : Harness(i)' =>
             i \in 1..Len(journal) /\ journal'[i] = journal[i] /\ Harness(i)
        /\ \A i, j \in 1..Len(journal') : i < j => i \in 1..Len(journal) /\ journal'[i] = journal[i]
    BY <1>3, <2>1, <2>2 DEF Harness
  <2>4. \A i, j \in 1..Len(journal') :
          Harness(i)' /\ Harness(j)' /\ i < j /\ journal'[i].run = journal'[j].run =>
            journal'[i].line.seq < journal'[j].line.seq
    BY <2>3 DEF Numbered
  <2>5. \A j \in 1..Len(journal) : OfScenario(j) => journal[j].run # Current
    BY <2>2 DEF Chronicle, InRun
  <2>6. ASSUME NEW i \in 1..Len(journal'), journal'[i].type = "scenarioStarted",
               NEW j \in 1..Len(journal'), j < i, OfScenario(j)'
        PROVE  journal'[j].run # journal'[i].run
    <3>1. j \in 1..Len(journal) /\ journal'[j] = journal[j] /\ OfScenario(j)
      BY <2>3, <2>6 DEF OfScenario
    <3>2. CASE i \in 1..Len(journal)
      BY <1>3, <2>1, <2>2, <2>6, <3>1, <3>2 DEF Numbered
    <3>3. CASE i = Len(journal) + 1
      BY <1>3, <2>1, <2>2, <2>5, <3>1, <3>3
    <3> QED BY <1>3, <2>1, <2>2, <3>2, <3>3
  <2>7. \A i \in 1..Len(journal') : Harness(i)' => journal'[i].run # Current'
    BY <2>2, <2>3, <2>5 DEF Harness, OfScenario, ScenarioTypes, Current
  <2>8. /\ \A j \in 1..Len(fanOut') : fanOut'[j].line.seq <= seq'
        /\ \A i, j \in 1..Len(fanOut') : i < j => fanOut'[i].line.seq < fanOut'[j].line.seq
    BY <2>2 DEF Numbered
  <2> QED BY <2>4, <2>6, <2>7, <2>8 DEF Numbered
<1>11. CASE EmitLine \/ EmitRunFinished \/ InterruptRun
  <2>1. pc = "running" /\ UNCHANGED <<journal, results>>
    BY <1>11 DEF EmitLine, EmitRunFinished, InterruptRun, dashboardVars
  <2>2. Len(results) < Scenarios /\ seq <= MaxLines
    BY <2>1 DEF Control, InRun
  <2>3. PICK s \in RunStatuses \cup {"none"} : Emit([seq |-> seq + 1, status |-> s])
    BY <1>11 DEF EmitLine, EmitRunFinished, InterruptRun
  <2>4. /\ seq' = seq + 1
        /\ \/ fanOut' = fanOut
           \/ /\ Len(fanOut') = Len(fanOut) + 1
              /\ \A i \in 1..Len(fanOut) : fanOut'[i] = fanOut[i]
              /\ fanOut'[Len(fanOut) + 1].line.seq = seq + 1
    BY <2>2, <2>3, EmitLaw DEF TypeOK
  <2>5. \A j \in 1..Len(fanOut') :
          \/ j \in 1..Len(fanOut) /\ fanOut'[j] = fanOut[j]
          \/ j = Len(fanOut) + 1 /\ fanOut'[j].line.seq = seq + 1
    BY <1>1, <2>4
  <2>6. /\ \A j \in 1..Len(fanOut) : fanOut[j].line.seq <= seq
        /\ \A i, j \in 1..Len(fanOut) : i < j => fanOut[i].line.seq < fanOut[j].line.seq
        /\ \A i \in 1..Len(journal) : Harness(i) /\ journal[i].run = Current =>
             /\ journal[i].line.seq <= seq
             /\ \A j \in 1..Len(fanOut) : journal[i].line.seq < fanOut[j].line.seq
    BY <2>1 DEF Numbered
  <2>7. ASSUME NEW j \in 1..Len(fanOut') PROVE fanOut'[j].line.seq <= seq'
    <3>1. CASE j \in 1..Len(fanOut) /\ fanOut'[j] = fanOut[j]
      BY <1>1, <1>2, <2>4, <2>6, <3>1
    <3>2. CASE j = Len(fanOut) + 1 /\ fanOut'[j].line.seq = seq + 1
      BY <1>1, <2>4, <3>2
    <3> QED BY <2>5, <3>1, <3>2
  <2>8. ASSUME NEW i \in 1..Len(fanOut'), NEW j \in 1..Len(fanOut'), i < j
        PROVE  fanOut'[i].line.seq < fanOut'[j].line.seq
    <3>1. i \in 1..Len(fanOut) /\ fanOut'[i] = fanOut[i]
      BY <1>1, <2>4, <2>5, <2>8
    <3>2. CASE j \in 1..Len(fanOut) /\ fanOut'[j] = fanOut[j]
      BY <2>6, <2>8, <3>1, <3>2
    <3>3. CASE j = Len(fanOut) + 1 /\ fanOut'[j].line.seq = seq + 1
      BY <1>1, <1>2, <2>6, <3>1, <3>3
    <3> QED BY <2>5, <3>2, <3>3
  <2>9. ASSUME NEW i \in 1..Len(journal), Harness(i), journal[i].run = Current
        PROVE  /\ journal[i].line.seq <= seq'
               /\ \A j \in 1..Len(fanOut') : journal[i].line.seq < fanOut'[j].line.seq
    <3>1. /\ journal[i].line.seq <= seq /\ journal[i].line.seq \in Nat
          /\ \A j \in 1..Len(fanOut) : journal[i].line.seq < fanOut[j].line.seq
      BY <1>2, <2>6, <2>9
    <3>2. journal[i].line.seq < seq + 1
      BY <1>1, <3>1
    <3>3. journal[i].line.seq <= seq'
      BY <1>1, <2>4, <3>1
    <3> QED BY <2>5, <3>1, <3>2, <3>3
  <2> QED BY <2>1, <2>7, <2>8, <2>9 DEF Numbered, Harness, OfScenario, Current
<1>12. CASE FanOut
  <2>1. /\ pc # "over" /\ fanOut # <<>> /\ fanOut' = Tail(fanOut) /\ Publish(Head(fanOut))
        /\ UNCHANGED <<results, seq>>
    BY <1>12 DEF FanOut, Control, InRun
  <2>2. /\ Head(fanOut) = fanOut[1] /\ Head(fanOut) \in Messages /\ 1 \in 1..Len(fanOut)
        /\ Len(Tail(fanOut)) = Len(fanOut) - 1
        /\ \A i \in 1..Len(Tail(fanOut)) : Tail(fanOut)[i] = fanOut[i + 1]
    <3>1. Len(fanOut) # 0
      BY <1>1, <2>1, EmptySeq
    <3> QED BY <1>1, <2>1, <3>1, HeadTailProperties
  <2>3. fanOut[1].type = "harness" /\ fanOut[1].run = Current
    BY <2>1, <2>2 DEF Live
  <2>4. \A j \in 1..Len(fanOut') : /\ j + 1 \in 1..Len(fanOut) /\ 1 < j + 1
                                   /\ fanOut'[j] = fanOut[j + 1]
    BY <1>1, <2>1, <2>2
  <2>5. /\ \A i \in 1..Len(journal) : journal'[i] = journal[i]
        /\ journal'[Len(journal) + 1] = fanOut[1]
        /\ \A i \in 1..Len(journal') : i \in 1..Len(journal) \/ i = Len(journal) + 1
        /\ \A i, j \in 1..Len(journal') : i < j => i \in 1..Len(journal)
    BY <1>3, <2>1, <2>2
  <2>6. /\ \A j \in 1..Len(fanOut) : fanOut[j].line.seq <= seq
        /\ \A i, j \in 1..Len(fanOut) : i < j => fanOut[i].line.seq < fanOut[j].line.seq
        /\ \A i \in 1..Len(journal) : Harness(i) /\ journal[i].run = Current =>
             /\ journal[i].line.seq <= seq
             /\ \A j \in 1..Len(fanOut) : journal[i].line.seq < fanOut[j].line.seq
    BY <2>1 DEF Numbered
  <2>7. ASSUME NEW i \in 1..Len(journal'), NEW j \in 1..Len(journal'), Harness(i)', Harness(j)',
               i < j, journal'[i].run = journal'[j].run
        PROVE  journal'[i].line.seq < journal'[j].line.seq
    <3>1. i \in 1..Len(journal) /\ journal'[i] = journal[i] /\ Harness(i)
      BY <2>5, <2>7 DEF Harness
    <3>2. CASE j \in 1..Len(journal)
      BY <2>5, <2>7, <3>1, <3>2 DEF Numbered, Harness
    <3>3. CASE j = Len(journal) + 1
      BY <2>2, <2>3, <2>5, <2>6, <2>7, <3>1, <3>3
    <3> QED BY <2>5, <3>2, <3>3
  <2>8. ASSUME NEW i \in 1..Len(journal'), journal'[i].type = "scenarioStarted",
               NEW j \in 1..Len(journal'), j < i, OfScenario(j)'
        PROVE  journal'[j].run # journal'[i].run
    <3>1. i \in 1..Len(journal) /\ journal'[i] = journal[i]
      BY <2>3, <2>5, <2>8
    <3>2. j \in 1..Len(journal) /\ journal'[j] = journal[j] /\ OfScenario(j)
      BY <2>5, <2>8 DEF OfScenario
    <3> QED BY <2>8, <3>1, <3>2 DEF Numbered
  <2>9. ASSUME NEW i \in 1..Len(journal'), Harness(i)', journal'[i].run = Current
        PROVE  /\ journal'[i].line.seq <= seq
               /\ \A j \in 1..Len(fanOut') : journal'[i].line.seq < fanOut'[j].line.seq
    <3>1. CASE i \in 1..Len(journal)
      BY <2>4, <2>5, <2>6, <2>9, <3>1 DEF Harness
    <3>2. CASE i = Len(journal) + 1
      BY <2>2, <2>4, <2>5, <2>6, <3>2
    <3> QED BY <2>5, <3>1, <3>2
  <2>10. \A i, j \in 1..Len(fanOut') : i < j => i + 1 < j + 1
    BY <1>1, <2>1, <2>2
  <2>11. /\ \A j \in 1..Len(fanOut') : fanOut'[j].line.seq <= seq
         /\ \A i, j \in 1..Len(fanOut') : i < j => fanOut'[i].line.seq < fanOut'[j].line.seq
    BY <2>4, <2>6, <2>10
  <2> QED BY <2>1, <2>7, <2>8, <2>9, <2>11 DEF Numbered, Current
<1>13. CASE ScenarioFinished
  <2> DEFINE m == Message("scenarioFinished", Current, [seq |-> 0, status |-> status])
  <2>1. m \in Messages /\ m.type = "scenarioFinished" /\ Publish(m) /\ fanOut' = <<>>
    BY PublishedAreMessages, <1>13 DEF ScenarioFinished, Message
  <2> HIDE DEF m
  <2>2. Current' = Current + 1
    <3>1. status \in RunStatuses
      BY <1>13 DEF ScenarioFinished, Control, TypeOK, SuiteTypeOK
    <3>2. Len(results') = Len(results) + 1
      BY <1>1, <1>13, <3>1, AppendProperties DEF ScenarioFinished
    <3> QED BY <1>1, <3>2 DEF Current
  <2>3. /\ \A i \in 1..Len(journal') : Harness(i)' \/ journal'[i].type = "scenarioStarted" =>
             i \in 1..Len(journal) /\ journal'[i] = journal[i] /\ (Harness(i)' => Harness(i))
        /\ \A i, j \in 1..Len(journal') : i < j => i \in 1..Len(journal) /\ journal'[i] = journal[i]
    BY <1>3, <2>1 DEF Harness
  <2>4. \A i, j \in 1..Len(journal') :
          Harness(i)' /\ Harness(j)' /\ i < j /\ journal'[i].run = journal'[j].run =>
            journal'[i].line.seq < journal'[j].line.seq
    BY <2>3 DEF Numbered
  <2>5. \A i \in 1..Len(journal') : journal'[i].type = "scenarioStarted" =>
          \A j \in 1..Len(journal') : j < i /\ OfScenario(j)' => journal'[j].run # journal'[i].run
    BY <2>3 DEF Numbered, OfScenario
  <2>6. ASSUME NEW i \in 1..Len(journal'), Harness(i)', journal'[i].run = Current' PROVE FALSE
    <3>1. journal'[i].run \in 1..Current
      BY <2>3, <2>6 DEF Chronicle, OfScenario, Harness, ScenarioTypes
    <3> QED BY <1>1, <2>2, <2>6, <3>1
  <2>7. Len(fanOut') = 0
    BY <2>1, EmptySeq
  <2> QED BY <2>4, <2>5, <2>6, <2>7 DEF Numbered
<1>14. CASE ScenarioCannotRun \/ Exit \/ Interrupt
  BY <1>4, <1>14 DEF ScenarioCannotRun, Exit, Interrupt, Leave
<1>15. CASE serving /\ Page /\ UNCHANGED <<pc, runVars, cancelReq, code>>
  <2>1. pc # "over"
    BY <1>15 DEF Control
  <2> QED BY <1>5, <1>15, <2>1, PageLeavesTheSuite DEF runVars
<1>16. CASE UNCHANGED vars
  BY <1>4, <1>5, <1>16 DEF vars, runVars, dashboardVars
<1> QED BY <1>7, <1>8, <1>9, <1>10, <1>11, <1>12, <1>13, <1>14, <1>15, <1>16 DEF Next

\* A line newer than all the others is added to the model.
LEMMA FoldLaw ==
  ASSUME NEW model \in Models, NEW line, line.seq \in Nat,
         \A i \in 1..Len(model.lines) : model.lines[i] < line.seq
  PROVE  /\ Len(model.lines) \in Nat /\ Len(Fold(model, line).lines) = Len(model.lines) + 1
         /\ \A i \in 1..Len(model.lines) : Fold(model, line).lines[i] = model.lines[i]
         /\ Fold(model, line).lines[Len(model.lines) + 1] = line.seq
<1>1. /\ model.lines \in Seq(Nat) /\ Len(model.lines) \in Nat
      /\ DOMAIN model.lines = 1..Len(model.lines)
  BY LenProperties DEF Models
<1>2. ~ \E i \in DOMAIN model.lines : line.seq <= model.lines[i]
  <2> SUFFICES ASSUME NEW i \in 1..Len(model.lines), line.seq <= model.lines[i] PROVE FALSE
    BY <1>1
  <2>1. model.lines[i] \in Nat /\ model.lines[i] < line.seq
    BY <1>1, ElementOfSeq
  <2> QED BY <2>1
<1>3. Fold(model, line).lines = Append(model.lines, line.seq)
  BY <1>2 DEF Fold
<1> QED BY <1>1, <1>3, AppendProperties

\* The page goes on showing what the journal tells.
LEMMA ToldPreserved ==
  ASSUME TypeOK, Control, Chronicle, Stream, Told, [Next]_vars
  PROVE  Told'
<1>1. /\ board \in Boards /\ board.cursor \in Nat /\ board.cursor <= Len(journal)
      /\ board.rows \in [1..Scenarios -> Rows] /\ Scenarios \in Nat
      /\ Len(results) \in Nat /\ Len(results) <= Scenarios
  BY DashboardAssumption, LenProperties, BoardFields
     DEF TypeOK, SuiteTypeOK, PageTypeOK, Stream
<1>2. /\ Len(journal) \in Nat /\ Len(journal') \in Nat /\ Len(journal) <= Len(journal')
      /\ \A i \in 1..Len(journal) : journal'[i] = journal[i]
  BY JournalGrows
<1>3. \A i \in 1..board.cursor : i \in 1..Len(journal) /\ journal'[i] = journal[i]
  BY <1>1, <1>2
<1>4. ASSUME board'.cursor = board.cursor, board'.rows = board.rows,
             board'.finished = board.finished, board'.completed = board.completed
      PROVE  Told'
  <2>1. \A i \in 1..board'.cursor : journal'[i].type = "scenarioFinished" =>
          board'.rows[journal'[i].run] = journal'[i].line.status
    BY <1>3, <1>4 DEF Told
  <2>2. board'.cursor > 0 => \A s \in 1..Scenarios :
          (\A i \in 1..board'.cursor : OfScenario(i)' => journal'[i].run # s) =>
            board'.rows[s] = "pending"
    BY <1>3, <1>4 DEF Told, OfScenario
  <2>3. board'.finished => pc' \in {"serving", "over"} /\ FinishedBoardIsTrue'
    BY <1>4, FinishedIsFinished DEF Told, FinishedBoardIsTrue
  <2> QED BY <2>1, <2>2, <2>3 DEF Told
<1>5. CASE UNCHANGED board
  BY <1>4, <1>5
<1>6. CASE Respond \/ LinkRetries \/ LinkGivesUp \/ TimerFires \/ ReconnectNow
  <2>1. \/ board' = [board EXCEPT !.connection = "live", !.takeovers = 0]
        \/ board' = [board EXCEPT !.connection = "reconnecting"]
        \/ board' = [board EXCEPT !.connection = "unavailable"]
        \/ board' = [board EXCEPT !.connection = "reconnecting", !.takeovers = @ + 1,
                                  !.timer = TRUE]
        \/ board' = [board EXCEPT !.timer = FALSE]
        \/ board' = [board EXCEPT !.takeovers = 0, !.timer = FALSE]
    BY <1>6 DEF Respond, LinkRetries, LinkGivesUp, TimerFires, ReconnectNow
  <2>2. /\ board'.cursor = board.cursor /\ board'.rows = board.rows
        /\ board'.finished = board.finished /\ board'.completed = board.completed
    BY <1>1, <2>1 DEF Boards
  <2> QED BY <1>4, <2>2
<1>7. CASE Reload
  <2>1. board'.cursor = 0 /\ ~ board'.finished
    BY <1>7 DEF Reload, EmptyBoard
  <2> QED BY <2>1 DEF Told
<1>8. CASE serving /\ Receive
  <2>1. PICK n \in 1..Len(journal) :
          /\ journal[n] \in Messages
          /\ journal[n].type \in ScenarioTypes => journal[n].run \in 1..Scenarios
          /\ UNCHANGED journal
          /\ \/ n <= board.cursor /\ board' = board
             \/ /\ n = board.cursor + 1
                /\ board' = Show([board EXCEPT !.cursor = n], journal[n])
    BY <1>8, ReceiveLaw
  <2>2. CASE board' = board
    BY <1>5, <2>2
  <2>3. CASE n = board.cursor + 1 /\ board' = Show([board EXCEPT !.cursor = n], journal[n])
    <3> DEFINE moved == [board EXCEPT !.cursor = n]
               m     == journal[n]
    <3>0. n \in Nat
      BY <1>2
    <3>1. /\ moved \in Boards /\ moved.cursor = n /\ moved.rows = board.rows
          /\ moved.finished = board.finished
      BY <1>1, <3>0 DEF Boards
    <3>2. m \in Messages /\ (m.type \in ScenarioTypes => m.run \in 1..Scenarios)
      BY <2>1
    <3>3. board' = Show(moved, m)
      BY <2>3
    <3>4. OfScenario(n) <=> m.type \in ScenarioTypes
      BY DEF OfScenario
    <3>5. m.type \in SuiteTypes \cup ScenarioTypes
      BY <3>2 DEF Messages
    <3>6. m.type = "cliStarted" <=> n = 1
      BY DEF Chronicle
    <3>7. m.type = "scenarioFinished" => m.run \in 1..Len(results)
      BY DEF Chronicle
    <3> HIDE DEF moved, m
    <3>8. /\ board'.cursor = n
          /\ m.type # "cliFinished" => board'.finished = board.finished
          /\ m.type \in {"cancellationRequested", "cliFinished"} => board'.rows = board.rows
          /\ m.type = "cliFinished" => board'.finished /\ board'.completed = m.line.seq
          /\ m.type = "cliStarted" => \A s \in 1..Scenarios : board'.rows[s] = "pending"
          /\ m.type \in ScenarioTypes =>
               \A s \in (1..Scenarios) \ {m.run} : board'.rows[s] = board.rows[s]
          /\ m.type = "scenarioFinished" => board'.rows[m.run] = m.line.status
      BY <3>1, <3>2, <3>3, ShowLaw
    <3>9. ASSUME NEW s \in 1..Scenarios, n # 1, m.type \in ScenarioTypes => m.run # s
          PROVE  board'.rows[s] = board.rows[s]
      BY <3>5, <3>6, <3>8, <3>9 DEF SuiteTypes
    <3>10. \A i \in 1..n : i \in 1..board.cursor \/ i = n
      BY <1>1, <2>3
    <3>11. ASSUME NEW i \in 1..n, journal[i].type = "scenarioFinished"
           PROVE  board'.rows[journal[i].run] = journal[i].line.status
      <4>1. CASE i = n
        BY <3>8, <3>11, <4>1 DEF m
      <4>2. CASE i \in 1..board.cursor
        <5>1. /\ i \in 1..Len(journal) /\ n > i /\ n # 1
          BY <1>1, <2>3, <4>2
        <5>2. /\ journal[i].run \in 1..Len(results)
              /\ OfScenario(n) => journal[n].run > journal[i].run
          BY <2>1, <3>11, <5>1 DEF Chronicle
        <5>3. m.type \in ScenarioTypes => m.run # journal[i].run
          BY <1>1, <3>4, <5>2 DEF m
        <5>4. journal[i].run \in 1..Scenarios
          BY <1>1, <5>2
        <5>5. board'.rows[journal[i].run] = board.rows[journal[i].run]
          BY <3>9, <5>1, <5>3, <5>4
        <5> QED BY <3>11, <4>2, <5>5 DEF Told
      <4> QED BY <3>10, <4>1, <4>2
    <3>12. ASSUME NEW s \in 1..Scenarios, \A i \in 1..n : OfScenario(i) => journal[i].run # s
           PROVE  board'.rows[s] = "pending"
      <4>1. CASE n = 1
        BY <3>6, <3>8, <4>1
      <4>2. CASE n # 1
        <5>1. board.cursor > 0 /\ n \in 1..n /\ \A i \in 1..board.cursor : i \in 1..n
          BY <1>1, <2>3, <4>2
        <5>2. m.type \in ScenarioTypes => m.run # s
          BY <3>4, <3>12, <5>1 DEF m
        <5>3. board'.rows[s] = board.rows[s]
          BY <3>9, <4>2, <5>2
        <5>4. board.rows[s] = "pending"
          BY <3>12, <5>1 DEF Told
        <5> QED BY <5>3, <5>4
      <4> QED BY <4>1, <4>2
    <3>13. ~ board.finished
      <4>1. source.state = "open"
        BY <1>8 DEF Receive
      <4> QED BY <4>1 DEF Stream
    <3>14. ASSUME board'.finished
           PROVE  pc' \in {"serving", "over"} /\ FinishedBoardIsTrue'
      <4>1. m.type = "cliFinished"
        BY <3>8, <3>13, <3>14
      <4>2. /\ pc \in {"serving", "over"} /\ m.line.seq = Len(results)
            /\ \A i \in 1..Len(journal) : OfScenario(i) => i < n /\ journal[i].run <= Len(results)
        BY <4>1 DEF Chronicle, m
      <4>3. pc' \in {"serving", "over"} /\ UNCHANGED results
        BY <4>2, FinishedIsFinished
      <4>4. ASSUME NEW s \in 1..Scenarios
            PROVE  board'.rows[s] = IF s <= Len(results) THEN results[s] ELSE "pending"
        <5>1. CASE s <= Len(results)
          <6>1. PICK i \in 1..Len(journal) :
                  journal[i].type = "scenarioFinished" /\ journal[i].run = s
            BY <1>1, <5>1 DEF Chronicle
          <6>2. i < n
            BY <4>2, <6>1 DEF OfScenario, ScenarioTypes
          <6>3. i \in 1..n
            BY <1>2, <6>2
          <6>4. journal[i].line.status = results[s]
            BY <6>1 DEF Chronicle
          <6> QED BY <3>11, <5>1, <6>1, <6>3, <6>4
        <5>2. CASE ~ (s <= Len(results))
          <6>1. \A i \in 1..n : OfScenario(i) => journal[i].run # s
            <7>1. \A i \in 1..n : i \in 1..Len(journal)
              BY <1>2
            <7> QED BY <4>2, <5>2, <7>1
          <6> QED BY <3>12, <5>2, <6>1
        <5> QED BY <5>1, <5>2
      <4> QED BY <3>8, <4>1, <4>2, <4>3, <4>4 DEF FinishedBoardIsTrue
    <3>15. journal' = journal
      BY <2>1
    <3> QED BY <3>8, <3>11, <3>12, <3>14, <3>15 DEF Told, OfScenario
  <2> QED BY <2>1, <2>2, <2>3
<1>9. CASE Subscribe \/ Send
  BY <1>5, <1>9 DEF Subscribe, Send, pageVars
<1> QED BY <1>5, <1>6, <1>7, <1>8, <1>9, StepKinds DEF Page, pageVars, dashboardVars

\* The page goes on holding the lines it was told and counting the scenarios that ended.
LEMMA AppliedPreserved ==
  ASSUME TypeOK, Control, Chronicle, Stream, Numbered, Applied, [Next]_vars
  PROVE  Applied'
<1>1. /\ board \in Boards /\ board.cursor \in Nat /\ board.cursor <= Len(journal)
      /\ board.model \in [1..Scenarios -> Models] /\ board.completed \in Nat /\ Scenarios \in Nat
      /\ Len(results) \in Nat /\ Len(results) <= Scenarios
  BY DashboardAssumption, LenProperties, BoardFields
     DEF TypeOK, SuiteTypeOK, PageTypeOK, Stream
<1>2. /\ Len(journal) \in Nat /\ Len(journal') \in Nat /\ Len(journal) <= Len(journal')
      /\ \A i \in 1..Len(journal) : journal'[i] = journal[i]
  BY JournalGrows
<1>3. \A i \in 1..board.cursor : i \in 1..Len(journal) /\ journal'[i] = journal[i]
  BY <1>1, <1>2
<1>4. ASSUME board'.cursor = board.cursor, board'.model = board.model,
             board'.finished = board.finished, board'.completed = board.completed
      PROVE  Applied'
  <2>1. \A k \in 1..board.cursor : (Harness(k)' <=> Harness(k)) /\ journal'[k] = journal[k]
    BY <1>3 DEF Harness
  <2>2. ASSUME NEW s \in 1..Scenarios
        PROVE  /\ \A i, j \in 1..Len(board'.model[s].lines) :
                    i < j => board'.model[s].lines[i] < board'.model[s].lines[j]
               /\ \A i \in 1..Len(board'.model[s].lines) : \E n \in 1..board'.cursor :
                    Harness(n)' /\ journal'[n].run = s
                    /\ journal'[n].line.seq = board'.model[s].lines[i]
               /\ \A n \in 1..board'.cursor : Harness(n)' /\ journal'[n].run = s =>
                    \E i \in 1..Len(board'.model[s].lines) :
                      board'.model[s].lines[i] = journal'[n].line.seq
    <3> DEFINE lines == board.model[s].lines
    <3>1. /\ \A i, j \in 1..Len(lines) : i < j => lines[i] < lines[j]
          /\ \A i \in 1..Len(lines) : \E n \in 1..board.cursor :
               Harness(n) /\ journal[n].run = s /\ journal[n].line.seq = lines[i]
          /\ \A n \in 1..board.cursor : Harness(n) /\ journal[n].run = s =>
               \E i \in 1..Len(lines) : lines[i] = journal[n].line.seq
      BY DEF Applied
    <3>2. lines = board'.model[s].lines
      BY <1>4
    <3> HIDE DEF lines
    <3>3. ASSUME NEW i \in 1..Len(lines)
          PROVE  \E n \in 1..board'.cursor :
                   Harness(n)' /\ journal'[n].run = s /\ journal'[n].line.seq = lines[i]
      <4>1. PICK n \in 1..board.cursor :
              Harness(n) /\ journal[n].run = s /\ journal[n].line.seq = lines[i]
        BY <3>1
      <4>2. Harness(n)' /\ journal'[n].run = s /\ journal'[n].line.seq = lines[i]
        BY <2>1, <4>1
      <4> QED BY <1>4, <4>2
    <3>4. ASSUME NEW n \in 1..board'.cursor, Harness(n)', journal'[n].run = s
          PROVE  \E i \in 1..Len(lines) : lines[i] = journal'[n].line.seq
      <4>1. n \in 1..board.cursor /\ Harness(n) /\ journal'[n] = journal[n]
        BY <1>4, <2>1, <3>4
      <4> QED BY <3>1, <3>4, <4>1
    <3> QED BY <3>1, <3>2, <3>3, <3>4
  <2>3. ASSUME ~ board'.finished
        PROVE  /\ \A n \in 1..board'.cursor :
                    journal'[n].type = "scenarioFinished" => journal'[n].run <= board'.completed
               /\ \A s \in 1..board'.completed : \E n \in 1..board'.cursor :
                    journal'[n].type = "scenarioFinished" /\ journal'[n].run = s
    <3>1. /\ \A n \in 1..board.cursor :
               journal[n].type = "scenarioFinished" => journal[n].run <= board.completed
          /\ \A s \in 1..board.completed : \E n \in 1..board.cursor :
               journal[n].type = "scenarioFinished" /\ journal[n].run = s
      BY <1>4, <2>3 DEF Applied
    <3> QED BY <1>4, <2>1, <3>1
  <2> QED BY <2>2, <2>3 DEF Applied
<1>5. CASE UNCHANGED board
  BY <1>4, <1>5
<1>6. CASE Respond \/ LinkRetries \/ LinkGivesUp \/ TimerFires \/ ReconnectNow
  <2>1. \/ board' = [board EXCEPT !.connection = "live", !.takeovers = 0]
        \/ board' = [board EXCEPT !.connection = "reconnecting"]
        \/ board' = [board EXCEPT !.connection = "unavailable"]
        \/ board' = [board EXCEPT !.connection = "reconnecting", !.takeovers = @ + 1,
                                  !.timer = TRUE]
        \/ board' = [board EXCEPT !.timer = FALSE]
        \/ board' = [board EXCEPT !.takeovers = 0, !.timer = FALSE]
    BY <1>6 DEF Respond, LinkRetries, LinkGivesUp, TimerFires, ReconnectNow
  <2>2. /\ board'.cursor = board.cursor /\ board'.model = board.model
        /\ board'.finished = board.finished /\ board'.completed = board.completed
    BY <1>1, <2>1 DEF Boards
  <2> QED BY <1>4, <2>2
<1>7. ASSUME board' = EmptyBoard PROVE Applied'
  <2>1. /\ board'.cursor = 0 /\ board'.completed = 0
        /\ \A s \in 1..Scenarios : Len(board'.model[s].lines) = 0
    BY <1>7, EmptySeq DEF EmptyBoard, EmptyModel
  <2> QED BY <2>1 DEF Applied
<1>8. CASE serving /\ Receive
  <2>1. PICK n \in 1..Len(journal) :
          /\ journal[n] \in Messages
          /\ journal[n].type \in ScenarioTypes => journal[n].run \in 1..Scenarios
          /\ UNCHANGED journal
          /\ \/ n <= board.cursor /\ board' = board
             \/ /\ n = board.cursor + 1
                /\ board' = Show([board EXCEPT !.cursor = n], journal[n])
    BY <1>8, ReceiveLaw
  <2>2. CASE board' = board
    BY <1>5, <2>2
  <2>3. CASE n = board.cursor + 1 /\ board' = Show([board EXCEPT !.cursor = n], journal[n])
    <3> DEFINE moved == [board EXCEPT !.cursor = n]
               m     == journal[n]
    <3>0. n \in Nat
      BY <1>2
    <3>1. /\ moved \in Boards /\ moved.cursor = n /\ moved.model = board.model
          /\ moved.finished = board.finished /\ moved.completed = board.completed
      BY <1>1, <3>0 DEF Boards
    <3>2. m \in Messages /\ (m.type \in ScenarioTypes => m.run \in 1..Scenarios)
      BY <2>1
    <3>3. board' = Show(moved, m)
      BY <2>3
    <3>4. /\ m.type \in SuiteTypes \cup ScenarioTypes /\ m.line.seq \in Nat
      BY <3>2 DEF Messages
    <3>5. Harness(n) <=> m.type = "harness"
      BY DEF Harness
    <3> HIDE DEF moved, m
    <3>6. /\ board'.cursor = n
          /\ m.type # "cliFinished" => board'.finished = board.finished
          /\ m.type = "cliFinished" => board'.finished
          /\ m.type \notin ScenarioTypes => board'.model = board.model
          /\ m.type \in ScenarioTypes =>
               \A s \in (1..Scenarios) \ {m.run} : board'.model[s] = board.model[s]
          /\ m.type = "scenarioStarted" => board'.model[m.run] = EmptyModel
          /\ m.type = "harness" => board'.model[m.run] = Fold(board.model[m.run], m.line)
          /\ m.type = "scenarioFinished" => board'.model[m.run] = board.model[m.run]
      BY <3>1, <3>2, <3>3, ShowLaw
    <3>7. /\ m.type = "cliStarted" => board'.completed = 0
          /\ m.type \in {"scenarioStarted", "harness", "cancellationRequested"} =>
               board'.completed = board.completed
          /\ m.type = "scenarioFinished" =>
               board'.completed = IF board.completed < Scenarios THEN board.completed + 1
                                  ELSE board.completed
      BY <3>1, <3>2, <3>3, ShowLaw
    <3>8. \A i \in 1..n : i \in 1..board.cursor \/ i = n
      BY <1>1, <2>3
    <3>9. n \in 1..n /\ \A i \in 1..board.cursor : i \in 1..n /\ i < n /\ i \in 1..Len(journal)
      BY <1>1, <1>2, <2>3, <3>0
    <3>10. ASSUME NEW s \in 1..Scenarios
           PROVE  /\ \A i, j \in 1..Len(board'.model[s].lines) :
                       i < j => board'.model[s].lines[i] < board'.model[s].lines[j]
                  /\ \A i \in 1..Len(board'.model[s].lines) : \E k \in 1..n :
                       /\ Harness(k) /\ journal[k].run = s
                       /\ journal[k].line.seq = board'.model[s].lines[i]
                  /\ \A k \in 1..n : Harness(k) /\ journal[k].run = s =>
                       \E i \in 1..Len(board'.model[s].lines) :
                         board'.model[s].lines[i] = journal[k].line.seq
      <4> DEFINE lines == board.model[s].lines
                 now   == board'.model[s].lines
      <4>1. /\ \A i, j \in 1..Len(lines) : i < j => lines[i] < lines[j]
            /\ \A i \in 1..Len(lines) : \E k \in 1..board.cursor :
                 Harness(k) /\ journal[k].run = s /\ journal[k].line.seq = lines[i]
            /\ \A k \in 1..board.cursor : Harness(k) /\ journal[k].run = s =>
                 \E i \in 1..Len(lines) : lines[i] = journal[k].line.seq
        BY DEF Applied
      <4>2. board.model[s] \in Models
        BY <1>1
      <4>3. CASE board'.model[s] = board.model[s] /\ ~ (Harness(n) /\ journal[n].run = s)
        BY <3>8, <3>9, <4>1, <4>3, ZenonT(30)
      <4>4. CASE m.type = "scenarioStarted" /\ m.run = s
        <5>1. Len(now) = 0
          BY <3>6, <4>4, EmptySeq DEF EmptyModel
        <5>2. \A k \in 1..n : Harness(k) => journal[k].run # s
          BY <3>5, <3>8, <3>9, <4>4 DEF Numbered, Harness, OfScenario, ScenarioTypes, m
        <5> QED BY <5>1, <5>2
      <4>5. CASE m.type = "harness" /\ m.run = s
        <5>1. board'.model[s] = Fold(board.model[s], m.line)
          BY <3>6, <4>5
        <5>2. ASSUME NEW i \in 1..Len(lines) PROVE lines[i] < m.line.seq
          <6>1. PICK k \in 1..board.cursor :
                  Harness(k) /\ journal[k].run = s /\ journal[k].line.seq = lines[i]
            BY <4>1
          <6>2. k \in 1..Len(journal) /\ k < n
            BY <3>9
          <6>3. journal[k].line.seq < journal[n].line.seq
            BY <3>5, <4>5, <6>1, <6>2 DEF Numbered, m
          <6> QED BY <6>1, <6>3 DEF m
        <5>3. /\ Len(lines) \in Nat /\ Len(now) = Len(lines) + 1
              /\ \A i \in 1..Len(lines) : now[i] = lines[i]
              /\ now[Len(lines) + 1] = m.line.seq
          <6>1. /\ m.line.seq \in Nat
                /\ \A i \in 1..Len(board.model[s].lines) : board.model[s].lines[i] < m.line.seq
            BY <3>4, <4>5, <5>2
          <6> DEFINE line == m.line
          <6>2. /\ line.seq \in Nat
                /\ \A i \in 1..Len(board.model[s].lines) : board.model[s].lines[i] < line.seq
            BY <6>1
          <6>3. now = Fold(board.model[s], line).lines
            BY <5>1
          <6> HIDE DEF line, now
          <6>4. /\ Len(lines) \in Nat /\ Len(now) = Len(lines) + 1
                /\ \A i \in 1..Len(lines) : now[i] = lines[i]
                /\ now[Len(lines) + 1] = line.seq
            BY <4>2, <6>2, <6>3, FoldLaw
          <6> QED BY <6>4 DEF line
        <5> HIDE DEF lines, now
        <5>4. /\ \A i \in 1..Len(now) : i \in 1..Len(lines) \/ i = Len(lines) + 1
              /\ \A i, j \in 1..Len(now) : i < j => i \in 1..Len(lines)
              /\ \A i \in 1..Len(lines) : i \in 1..Len(now)
              /\ Len(lines) + 1 \in 1..Len(now)
          BY <5>3
        <5>5. ASSUME NEW i \in 1..Len(now), NEW j \in 1..Len(now), i < j PROVE now[i] < now[j]
          BY <4>1, <5>2, <5>3, <5>4, <5>5
        <5>6. ASSUME NEW i \in 1..Len(now)
              PROVE  \E k \in 1..n :
                       Harness(k) /\ journal[k].run = s /\ journal[k].line.seq = now[i]
          <6>1. CASE i \in 1..Len(lines)
            BY <3>9, <4>1, <5>3, <6>1, ZenonT(30)
          <6>2. CASE i = Len(lines) + 1
            BY <3>5, <3>9, <4>5, <5>3, <6>2 DEF m
          <6> QED BY <5>4, <6>1, <6>2
        <5>7. ASSUME NEW k \in 1..n, Harness(k), journal[k].run = s
              PROVE  \E i \in 1..Len(now) : now[i] = journal[k].line.seq
          <6>1. CASE k \in 1..board.cursor
            BY <4>1, <5>3, <5>4, <5>7, <6>1
          <6>2. CASE k = n
            BY <5>3, <5>4, <6>2 DEF m
          <6> QED BY <3>8, <6>1, <6>2
        <5> QED BY <5>5, <5>6, <5>7 DEF now
      <4>6. CASE m.type \in ScenarioTypes /\ m.run # s
        BY <3>5, <3>6, <4>3, <4>6 DEF m
      <4>7. CASE m.type = "scenarioFinished" /\ m.run = s
        BY <3>5, <3>6, <4>3, <4>7
      <4>8. CASE m.type \notin ScenarioTypes
        BY <3>5, <3>6, <4>3, <4>8 DEF ScenarioTypes
      <4> QED BY <4>4, <4>5, <4>6, <4>7, <4>8 DEF ScenarioTypes
    <3>11. ASSUME ~ board'.finished
           PROVE  /\ \A k \in 1..n : journal[k].type = "scenarioFinished" =>
                       journal[k].run <= board'.completed
                  /\ \A s \in 1..board'.completed : \E k \in 1..n :
                       journal[k].type = "scenarioFinished" /\ journal[k].run = s
      <4>1. ~ board.finished /\ m.type # "cliFinished"
        BY <3>6, <3>11
      <4>2. /\ \A k \in 1..board.cursor :
                 journal[k].type = "scenarioFinished" => journal[k].run <= board.completed
            /\ \A s \in 1..board.completed : \E k \in 1..board.cursor :
                 journal[k].type = "scenarioFinished" /\ journal[k].run = s
        BY <4>1 DEF Applied
      <4>3. CASE m.type \in {"scenarioStarted", "harness", "cancellationRequested"}
        BY <3>7, <3>8, <3>9, <4>2, <4>3 DEF m
      <4>4. CASE m.type = "cliStarted"
        <5>1. n = 1
          BY <4>4 DEF Chronicle, m
        <5>2. \A k \in 1..n : journal[k].type # "scenarioFinished"
          BY <3>0, <4>4, <5>1 DEF m
        <5>3. board'.completed = 0
          BY <3>7, <4>4
        <5> QED BY <5>2, <5>3
      <4>5. CASE m.type = "scenarioFinished"
        <5>1. /\ m.run \in 1..Len(results)
              /\ \A j \in 1..Len(journal) : j > n /\ OfScenario(j) => journal[j].run > m.run
          BY <4>5 DEF Chronicle, m
        <5>2. m.run \in Nat /\ m.run <= Scenarios /\ 1 <= m.run
          BY <1>1, <5>1
        <5>3. m.run > board.completed
          <6> SUFFICES ASSUME ~ (m.run > board.completed) PROVE FALSE
            OBVIOUS
          <6>1. m.run \in 1..board.completed
            BY <1>1, <5>2
          <6>2. PICK k \in 1..board.cursor :
                  journal[k].type = "scenarioFinished" /\ journal[k].run = m.run
            BY <4>2, <6>1
          <6>3. k \in 1..Len(journal) /\ n > k
            BY <1>1, <2>3, <3>9
          <6>4. journal[n].run > journal[k].run
            BY <4>5, <6>2, <6>3 DEF Chronicle, OfScenario, ScenarioTypes, m
          <6> QED BY <5>2, <6>2, <6>4 DEF m
        <5>4. m.run - 1 <= board.completed
          <6> SUFFICES ASSUME ~ (m.run - 1 <= board.completed) PROVE FALSE
            OBVIOUS
          <6>1. /\ m.run - 1 \in 1..Len(results) /\ m.run - 1 < m.run
                /\ m.run - 1 > board.completed
            BY <1>1, <5>1, <5>2
          <6>2. PICK k \in 1..Len(journal) :
                  journal[k].type = "scenarioFinished" /\ journal[k].run = m.run - 1
            BY <6>1 DEF Chronicle
          <6>3. OfScenario(k)
            BY <6>2 DEF OfScenario, ScenarioTypes
          <6>4. CASE k > n
            BY <5>1, <5>2, <6>2, <6>3, <6>4
          <6>5. CASE k = n
            BY <5>2, <6>2, <6>5 DEF m
          <6>6. CASE k < n
            <7>1. k \in 1..board.cursor
              BY <1>1, <1>2, <2>3, <6>6
            <7>2. journal[k].run <= board.completed
              BY <4>2, <6>2, <7>1
            <7> QED BY <1>1, <5>2, <6>1, <6>2, <7>2
          <6>7. k \in Nat
            BY <1>2
          <6> QED BY <3>0, <6>4, <6>5, <6>6, <6>7
        <5>5. m.run = board.completed + 1 /\ board'.completed = board.completed + 1
          BY <1>1, <3>7, <4>5, <5>2, <5>3, <5>4
        <5>6. ASSUME NEW k \in 1..n, journal[k].type = "scenarioFinished"
              PROVE  journal[k].run <= board'.completed
          <6>1. CASE k = n
            BY <1>1, <5>5, <6>1 DEF m
          <6>2. CASE k \in 1..board.cursor
            <7>1. journal[k].run <= board.completed /\ journal[k].run \in 1..Len(results)
              BY <3>9, <4>2, <5>6, <6>2 DEF Chronicle
            <7> QED BY <1>1, <5>5, <7>1
          <6> QED BY <3>8, <6>1, <6>2
        <5>7. ASSUME NEW s \in 1..board'.completed
              PROVE  \E k \in 1..n : journal[k].type = "scenarioFinished" /\ journal[k].run = s
          <6>1. CASE s \in 1..board.completed
            BY <3>9, <4>2, <6>1
          <6>2. CASE s = m.run
            BY <3>9, <4>5, <6>2 DEF m
          <6>3. s \in 1..board.completed \/ s = m.run
            BY <1>1, <5>5
          <6> QED BY <6>1, <6>2, <6>3
        <5> QED BY <5>6, <5>7
      <4> QED BY <3>4, <4>1, <4>3, <4>4, <4>5 DEF SuiteTypes, ScenarioTypes
    <3>12. journal' = journal
      BY <2>1
    <3>13. board'.cursor = n /\ \A k \in 1..n : Harness(k)' <=> Harness(k)
      BY <3>6, <3>12 DEF Harness
    <3>14. \A s \in 1..Scenarios :
             /\ \A i, j \in 1..Len(board'.model[s].lines) :
                  i < j => board'.model[s].lines[i] < board'.model[s].lines[j]
             /\ \A i \in 1..Len(board'.model[s].lines) : \E k \in 1..board'.cursor :
                  /\ Harness(k)' /\ journal'[k].run = s
                  /\ journal'[k].line.seq = board'.model[s].lines[i]
             /\ \A k \in 1..board'.cursor : Harness(k)' /\ journal'[k].run = s =>
                  \E i \in 1..Len(board'.model[s].lines) :
                    board'.model[s].lines[i] = journal'[k].line.seq
      BY <3>10, <3>12, <3>13
    <3>15. ~ board'.finished =>
             /\ \A k \in 1..board'.cursor :
                  journal'[k].type = "scenarioFinished" => journal'[k].run <= board'.completed
             /\ \A s \in 1..board'.completed : \E k \in 1..board'.cursor :
                  journal'[k].type = "scenarioFinished" /\ journal'[k].run = s
      BY <3>11, <3>12, <3>13
    <3> QED BY <3>14, <3>15, Zenon DEF Applied
  <2> QED BY <2>1, <2>2, <2>3
<1>9. CASE Subscribe \/ Send
  BY <1>5, <1>9 DEF Subscribe, Send, pageVars
<1>10. CASE Reload
  BY <1>7, <1>10 DEF Reload
<1> QED BY <1>5, <1>6, <1>8, <1>9, <1>10, StepKinds DEF Page, pageVars, dashboardVars

-----------------------------------------------------------------------------
(* The theorems.                                                            *)

\* Nothing was told, published or connected when the CLI starts.
LEMMA InitEstablishes == Init => IInv
<1> SUFFICES ASSUME Init PROVE IInv
  OBVIOUS
<1>1. /\ journal = <<>> /\ serving = FALSE /\ conn = NoConn /\ wire = <<>>
      /\ source = NewSource(0) /\ board = EmptyBoard /\ pc = "start" /\ seq = 0
      /\ status = "none" /\ written = {} /\ glued = {} /\ ~ partial
      /\ fanOut = <<>> /\ results = <<>>
      /\ cancelReq = FALSE /\ code = 255
  BY DEF Init, DashboardInit
<1>2. /\ Len(<<>>) = 0 /\ <<>> \in Seq(Messages) /\ <<>> \in Seq(RunStatuses)
  BY EmptySeq
<1>3. Scenarios \in Nat /\ MaxLines \in Nat /\ FanOutCapacity \in Nat /\ 0 \in Nat
  BY DashboardAssumption, InvocationAssumption
<1>4. SuiteTypeOK
  <2>1. seq \in 0..(MaxLines + 1) /\ Len(results) <= Scenarios /\ Len(fanOut) <= FanOutCapacity
    BY <1>1, <1>2, <1>3
  <2>2. written \in SUBSET (1..(MaxLines + 1)) /\ glued \in SUBSET (1..(MaxLines + 1))
        /\ partial \in BOOLEAN
    BY <1>1 DEF Init
  <2> QED BY <1>1, <1>2, <2>1, <2>2 DEF SuiteTypeOK
<1>5. PageTypeOK
  BY <1>1, <1>3, EmptyPage DEF PageTypeOK
<1>6. Control
  BY <1>1, <1>2, <1>3 DEF Control, InRun
<1>7. Chronicle
  BY <1>1, <1>2 DEF Chronicle
<1>8. Live
  BY <1>1, <1>2 DEF Live
<1>9. Stream
  BY <1>1, <1>2 DEF Stream, NoConn, NewSource, EmptyBoard
<1>10. Told
  BY <1>1 DEF Told, EmptyBoard
<1>11. Ended /\ Torn
  BY <1>1 DEF Ended, Torn
<1>12. Numbered
  BY <1>1, <1>2 DEF Numbered
<1>13. Applied
  <2>1. /\ board.cursor = 0 /\ board.completed = 0
        /\ \A s \in 1..Scenarios : Len(board.model[s].lines) = 0
    BY <1>1, <1>2 DEF EmptyBoard, EmptyModel
  <2> QED BY <2>1 DEF Applied
<1> QED BY <1>4, <1>5, <1>6, <1>7, <1>8, <1>9, <1>10, <1>11, <1>12, <1>13 DEF IInv, TypeOK

\* The invariant holds of every behaviour.
LEMMA InvariantHolds == Spec => []IInv
<1>1. IInv /\ [Next]_vars => IInv'
  <2> SUFFICES ASSUME IInv, [Next]_vars PROVE IInv'
    OBVIOUS
  <2>1. /\ TypeOK /\ Control /\ Chronicle /\ Live /\ Torn /\ Stream /\ Numbered
        /\ Told /\ Applied /\ Ended
    BY DEF IInv
  <2>2. TypeOK'
    BY <2>1, SuiteTyped, PageTyped DEF TypeOK
  <2>3. Control' /\ Chronicle' /\ Live' /\ Torn'
    BY <2>1, ControlPreserved, ChroniclePreserved, LivePreserved, TornPreserved
  <2>4. Stream' /\ Numbered'
    BY <2>1, StreamPreserved, NumberedPreserved
  <2>5. Told' /\ Applied' /\ Ended'
    BY <2>1, ToldPreserved, AppliedPreserved, EndedPreserved
  <2> QED BY <2>2, <2>3, <2>4, <2>5 DEF IInv
<1> QED BY InitEstablishes, <1>1, PTL DEF Spec

\* The variables have their types; the fan-out's queue, and the one the server keeps for
\* a client, never hold more than their capacity (store/runStore.ts, server/sse.ts).
THEOREM InvocationTypes == Spec => []TypeOK
<1>1. IInv => TypeOK
  BY DEF IInv
<1> QED BY InvariantHolds, <1>1, PTL

\* Whatever the disk refuses or tears and the fan-out drops, a line of the current run that is
\* told to a page, or on its way there, was wholly appended to that run's journal, and can be
\* read back from it unless the append just before it failed (runStore.ts, emit).
THEOREM LinesAreDurable == Spec => []LiveLinesAreWritten
<1>1. IInv => LiveLinesAreWritten
  <2> SUFFICES ASSUME IInv, pc # "over", NEW n \in Announced
               PROVE  n \in written /\ (n \in glued => n - 1 \notin written)
    BY DEF LiveLinesAreWritten
  <2>1. n \in written
    BY DEF Announced, IInv, Live
  <2> QED BY <2>1 DEF IInv, Torn
<1> QED BY InvariantHolds, <1>1, PTL

\* Whatever the link, the slow client's queue and the reconnections did, the page has applied
\* exactly the messages up to its cursor, each once and in order (server/bus.ts, sse.ts,
\* useRunStream.ts, reducer.ts).
THEOREM BoardsAreTrue == Spec => []BoardMatchesJournal
<1>1. IInv => BoardMatchesJournal
  <2> SUFFICES ASSUME IInv PROVE BoardMatchesJournal
    OBVIOUS
  <2>1. /\ board.cursor \in Nat /\ Len(journal) \in Nat /\ board.completed \in Nat
    BY BoardFields, LenProperties DEF IInv, TypeOK, SuiteTypeOK, PageTypeOK
  <2>2. board.cursor <= Len(journal)
    BY DEF IInv, Stream
  <2>3. \A n \in 1..board.cursor : n \in 1..Len(journal)
    BY <2>1, <2>2
  <2>4. ASSUME NEW s \in 1..Scenarios
        PROVE  LET lines == board.model[s].lines
               IN  /\ {lines[i] : i \in 1..Len(lines)} = {journal[n].line.seq : n \in LinesTold(s)}
                   /\ \A i, j \in 1..Len(lines) : i < j => lines[i] < lines[j]
                   /\ \A m, n \in LinesTold(s) :
                        m < n => journal[m].line.seq < journal[n].line.seq
    <3> DEFINE lines == board.model[s].lines
    <3>1. /\ \A i, j \in 1..Len(lines) : i < j => lines[i] < lines[j]
          /\ \A i \in 1..Len(lines) : \E n \in 1..board.cursor :
               Harness(n) /\ journal[n].run = s /\ journal[n].line.seq = lines[i]
          /\ \A n \in 1..board.cursor : Harness(n) /\ journal[n].run = s =>
               \E i \in 1..Len(lines) : lines[i] = journal[n].line.seq
      BY DEF IInv, Applied
    <3> HIDE DEF lines
    <3>4. \A n : n \in LinesTold(s) <=>
                 n \in 1..board.cursor /\ Harness(n) /\ journal[n].run = s
      BY DEF LinesTold, Harness
    <3>5. \A i \in 1..Len(lines) : \E n \in LinesTold(s) : journal[n].line.seq = lines[i]
      BY <3>1, <3>4
    <3>6. \A n \in LinesTold(s) : \E i \in 1..Len(lines) : lines[i] = journal[n].line.seq
      BY <3>1, <3>4
    <3>2. {lines[i] : i \in 1..Len(lines)} = {journal[n].line.seq : n \in LinesTold(s)}
      BY <3>5, <3>6
    <3>3. \A m, n \in LinesTold(s) : m < n => journal[m].line.seq < journal[n].line.seq
      BY <2>3 DEF LinesTold, IInv, Numbered, Harness
    <3> QED BY <3>1, <3>2, <3>3 DEF lines
  <2>5. ASSUME ~ board.finished
        PROVE  {journal[n].run : n \in EndsTold} = 1..board.completed
    <3>1. /\ \A n \in 1..board.cursor :
               journal[n].type = "scenarioFinished" => journal[n].run <= board.completed
          /\ \A s \in 1..board.completed : \E n \in 1..board.cursor :
               journal[n].type = "scenarioFinished" /\ journal[n].run = s
      BY <2>5 DEF IInv, Applied
    <3>2. \A n \in 1..board.cursor :
            journal[n].type = "scenarioFinished" => journal[n].run \in 1..Len(results)
      BY <2>3 DEF IInv, Chronicle
    <3>3. Len(results) \in Nat
      BY LenProperties DEF IInv, TypeOK, SuiteTypeOK
    <3>4. \A n \in EndsTold : journal[n].run \in 1..board.completed
      BY <2>1, <3>1, <3>2, <3>3 DEF EndsTold
    <3> QED BY <3>1, <3>4 DEF EndsTold
  <2> QED BY <2>2, <2>4, <2>5 DEF BoardMatchesJournal
<1> QED BY InvariantHolds, <1>1, PTL

\* A board that closed by itself shows the suite as the CLI saw it, however often the
\* stream broke and whatever its queue had to drop (useRunStream.ts, reducer.ts).
THEOREM BoardsEndTrue == Spec => []FinishedBoardIsTrue
<1>1. IInv => FinishedBoardIsTrue
  BY DEF IInv, Told, FinishedBoardIsTrue
<1> QED BY InvariantHolds, <1>1, PTL

\* A board that closed by itself and an exit code other than 130 tell the same of the suite:
\* the most serious status among the rows is the one the code stands for, and rows are left
\* pending only by a cancellation (commands/run.ts, exitFor; reducer.ts).
THEOREM BoardsExplainExits == Spec => []BoardExplainsExit
<1>1. IInv => BoardExplainsExit
  <2> DEFINE Shown == {board.rows[s] : s \in 1..Scenarios}
  <2> SUFFICES ASSUME IInv, board.finished, code \notin {130, 255}
               PROVE  /\ "cancelled" \notin Shown
                      /\ code = 2 <=> "error" \in Shown
                      /\ code = 1 <=> "error" \notin Shown
                                       /\ Shown \cap {"failed", "inconclusive"} # {}
                      /\ "pending" \in Shown => cancelReq
    BY DEF BoardExplainsExit
  <2>1. pc = "over"
    BY DEF IInv, Control
  <2>2. code = ExitFor(results) /\ (Len(results) = Scenarios \/ cancelReq)
    BY <2>1 DEF IInv, Ended
  <2>3. /\ DOMAIN results = 1..Len(results) /\ results \in Seq(RunStatuses)
        /\ Len(results) \in Nat /\ Len(results) <= Scenarios /\ Scenarios \in Nat
    BY DashboardAssumption, LenProperties DEF IInv, TypeOK, SuiteTypeOK
  <2>4. \A i \in 1..Len(results) : i \in 1..Scenarios
    BY <2>3
  <2>5. \A s \in 1..Scenarios : board.rows[s] = IF s <= Len(results) THEN results[s] ELSE "pending"
    BY DEF IInv, Told, FinishedBoardIsTrue
  <2>6. \A i \in 1..Len(results) :
          results[i] \in {"passed", "failed", "inconclusive", "error", "cancelled"}
    BY <2>3, ElementOfSeq, InvocationAssumption
  <2>7. \A s \in 1..Scenarios : s <= Len(results) => s \in 1..Len(results)
    BY <2>3
  <2>8. \A word \in {"failed", "inconclusive", "error", "cancelled"} :
          word \in Shown <=> \E i \in DOMAIN results : results[i] = word
    BY <2>3, <2>4, <2>5, <2>7
  <2>9. "pending" \in Shown => cancelReq
    <3> SUFFICES ASSUME NEW s \in 1..Scenarios, board.rows[s] = "pending" PROVE cancelReq
      OBVIOUS
    <3>1. ~ (s <= Len(results))
      BY <2>5, <2>6, <2>7
    <3> QED BY <2>2, <2>3, <3>1
  <2> HIDE DEF Shown
  <2>10. /\ "cancelled" \notin Shown
         /\ code = 2 <=> "error" \in Shown
         /\ code = 1 <=> "error" \notin Shown /\ ("failed" \in Shown \/ "inconclusive" \in Shown)
    BY <2>2, <2>8 DEF ExitFor
  <2>11. ("failed" \in Shown \/ "inconclusive" \in Shown)
           <=> Shown \cap {"failed", "inconclusive"} # {}
    OBVIOUS
  <2> QED BY <2>9, <2>10, <2>11
<1> QED BY InvariantHolds, <1>1, PTL
=============================================================================
