----------------------------- MODULE Dashboard ------------------------------
(***************************************************************************)
(* The live dashboard: the suite journal of server/bus.ts, the event       *)
(* stream of server/sse.ts and routes.ts (GET /api/events), and the        *)
(* browser side of apps/ui (useRunStream.ts, reducer.ts).  One client is   *)
(* modelled; any number of them share nothing but the journal.             *)
(*                                                                         *)
(* A message's sequence number is its place in the journal.  The wire is   *)
(* what the server wrote and the page has not read: a link that drops      *)
(* loses it.  The browser's EventSource either retries by itself, with     *)
(* Last-Event-ID, or gives up, and the page then resumes from its cursor.  *)
(***************************************************************************)
EXTENDS Naturals, Sequences

CONSTANTS
  Scenarios,           \* how many are selected; they run in order
  ClientCapacity,      \* messages the server holds for a slow client
  WireCapacity,        \* bound: frames in flight at which the server waits
  MaxTakeoverAttempts,
  MaxDrops             \* bound: link failures, reloads and reconnections by hand

ASSUME DashboardAssumption ==
  /\ Scenarios \in Nat \ {0} /\ ClientCapacity \in Nat \ {0}
  /\ WireCapacity \in Nat \ {0} /\ MaxTakeoverAttempts \in Nat \ {0}
  /\ MaxDrops \in Nat

VARIABLES
  journal,  \* the suite journal
  serving,  \* the HTTP server is up
  conn,     \* the server's side of the client's stream
  wire,     \* frames in flight
  source,   \* the page's EventSource
  board,    \* what the page knows and shows
  drops     \* link failures, reloads and reconnections by hand so far

dashboardVars == <<journal, serving, conn, wire, source, board, drops>>
pageVars == <<source, board, drops>>

Message(type, run, line) == [type |-> type, run |-> run, line |-> line]

NoLine == [seq |-> 0, status |-> "none"]

\* Nobody is connected; a subscription not yet answered; a stream.
NoConn == [state |-> "none", after |-> 0, lastSent |-> 0, replay |-> <<>>, queue |-> <<>>]

EmptyModel == [lines |-> <<>>, status |-> "running"]

EmptyBoard == [connection |-> "connecting", cursor |-> 0, takeovers |-> 0, timer |-> FALSE,
               finished |-> FALSE, completed |-> 0,
               model |-> [s \in 1..Scenarios |-> EmptyModel],
               rows |-> [s \in 1..Scenarios |-> "none"]]

\* The URL carries the cursor the page resumes from; the header, once a frame came.
NewSource(cursor) == [state |-> "connecting", url |-> cursor, lastId |-> 0]
NoSource == [state |-> "none", url |-> 0, lastId |-> 0]

DashboardInit ==
  /\ journal = <<>> /\ serving = FALSE
  /\ conn = NoConn /\ wire = <<>>
  /\ source = NewSource(0) /\ board = EmptyBoard
  /\ drops = 0

-----------------------------------------------------------------------------
(* The bus                                                                  *)

\* An offer to a full queue is dropped; the journal keeps the message.
Publish(message) ==
  /\ journal' = Append(journal, message)
  /\ conn' = IF conn.state # "none" /\ Len(conn.queue) < ClientCapacity
             THEN [conn EXCEPT !.queue = Append(@, Len(journal) + 1)]
             ELSE conn

\* The page's request: the cursor it resumes from.
ResumeFrom == IF source.lastId > 0 THEN source.lastId ELSE source.url

\* The queue is registered first, the snapshot taken second.
Subscribe ==
  /\ serving /\ source.state = "connecting" /\ conn.state = "none"
  /\ conn' = [NoConn EXCEPT !.state = "registered", !.after = ResumeFrom, !.lastSent = ResumeFrom]
  /\ UNCHANGED <<journal, serving, wire, pageVars>>

\* A plausible slip: the cursor is taken as the first message to send, not the last received.
SnapshotAfterNext(after) == [i \in 1..(Len(journal) - after - 1) |-> after + 1 + i]

SnapshotAfter(after) == [i \in 1..(Len(journal) - after) |-> after + i]

Respond ==
  /\ conn.state = "registered"
  /\ conn' = [conn EXCEPT !.state = "streaming", !.replay = SnapshotAfter(conn.after)]
  /\ source' = [source EXCEPT !.state = "open"]
  /\ board' = [board EXCEPT !.connection = "live", !.takeovers = 0]
  /\ UNCHANGED <<journal, serving, wire, drops>>

\* A plausible slip: what the queue dropped is not looked up in the journal.
EncodeWithoutGap(seq, lastSent) == IF seq <= lastSent THEN <<>> ELSE <<seq>>

\* Nothing twice, and whatever a full queue dropped before `seq` goes first.
Encode(seq, lastSent) ==
  IF seq <= lastSent THEN <<>> ELSE [i \in 1..(seq - lastSent) |-> lastSent + i]

Send ==
  /\ conn.state = "streaming" /\ Len(wire) < WireCapacity
  /\ LET pending == conn.replay \o conn.queue
         frames  == Encode(Head(pending), conn.lastSent)
     IN  /\ pending # <<>>
         /\ wire' = wire \o frames
         /\ conn' = [conn EXCEPT !.lastSent = IF frames = <<>> THEN @ ELSE Head(pending),
                                 !.replay = IF @ = <<>> THEN @ ELSE Tail(@),
                                 !.queue = IF conn.replay = <<>> THEN Tail(@) ELSE @]
  /\ UNCHANGED <<journal, serving, pageVars>>

-----------------------------------------------------------------------------
(* The page                                                                 *)

\* Once per line of a run, in order; the last line carries the run's status.
Fold(model, line) ==
  IF \E i \in DOMAIN model.lines : line.seq <= model.lines[i]
  THEN model
  ELSE [lines  |-> Append(model.lines, line.seq),
        status |-> IF line.status = "none" THEN model.status ELSE line.status]

Closed(b) == [b EXCEPT !.finished = TRUE, !.timer = FALSE, !.connection = "closed"]

\* What the page makes of a suite message it has not seen yet.
Show(b, m) ==
  IF m.type = "cliStarted"
  THEN [b EXCEPT !.rows = [s \in 1..Scenarios |-> "pending"], !.completed = 0]
  ELSE IF m.type = "scenarioStarted"
  THEN [b EXCEPT !.model[m.run] = EmptyModel, !.rows[m.run] = "running"]
  ELSE IF m.type = "harness"
  THEN LET next == Fold(b.model[m.run], m.line)
       IN  [b EXCEPT !.model[m.run] = next, !.rows[m.run] = next.status]
  ELSE IF m.type = "scenarioFinished"
  THEN [b EXCEPT !.rows[m.run] = m.line.status,
                 !.completed = IF @ < Scenarios THEN @ + 1 ELSE @]
  ELSE IF m.type = "cliFinished"
  THEN Closed([b EXCEPT !.completed = m.line.seq])
  ELSE b

\* The event stream's own guard: a frame at or below the cursor is absorbed.
Receive ==
  /\ source.state = "open" /\ wire # <<>>
  /\ LET seq  == Head(wire)
         last == journal[seq].type = "cliFinished" /\ seq > board.cursor
     IN  /\ board' = IF seq <= board.cursor THEN board
                     ELSE Show([board EXCEPT !.cursor = seq], journal[seq])
         /\ source' = IF last THEN NoSource ELSE [source EXCEPT !.lastId = seq]
         /\ wire' = IF last THEN <<>> ELSE Tail(wire)
         /\ conn' = IF last THEN NoConn ELSE conn
  /\ UNCHANGED <<journal, serving, drops>>

Drop == drops < MaxDrops /\ drops' = drops + 1

Reconnect(cursor) ==
  /\ source' = NewSource(cursor)
  /\ wire' = <<>> /\ conn' = NoConn

\* The link fails, or the server ended the stream.  The browser retries by itself ...
LinkRetries ==
  /\ Drop
  /\ source.state \in {"connecting", "open"}
  /\ source' = [source EXCEPT !.state = "connecting"]
  /\ board' = [board EXCEPT !.connection = "reconnecting"]
  /\ wire' = <<>> /\ conn' = NoConn
  /\ UNCHANGED <<journal, serving>>

\* ... or gives up, and the page takes over, a bounded number of times.
LinkGivesUp ==
  /\ Drop
  /\ source.state \in {"connecting", "open"}
  /\ source' = NoSource
  /\ board' = IF board.takeovers >= MaxTakeoverAttempts
              THEN [board EXCEPT !.connection = "unavailable"]
              ELSE [board EXCEPT !.connection = "reconnecting", !.takeovers = @ + 1,
                                 !.timer = TRUE]
  /\ wire' = <<>> /\ conn' = NoConn
  /\ UNCHANGED <<journal, serving>>

TimerFires ==
  /\ board.timer /\ ~ board.finished
  /\ board' = [board EXCEPT !.timer = FALSE]
  /\ Reconnect(board.cursor)
  /\ UNCHANGED <<journal, serving, drops>>

ReconnectNow ==
  /\ Drop
  /\ ~ board.finished
  /\ board' = [board EXCEPT !.takeovers = 0, !.timer = FALSE]
  /\ Reconnect(board.cursor)
  /\ UNCHANGED <<journal, serving>>

\* The page is loaded again: nothing of it survives, the journal does.
Reload ==
  /\ Drop
  /\ serving /\ board.cursor > 0
  /\ board' = EmptyBoard
  /\ Reconnect(0)
  /\ UNCHANGED <<journal, serving>>

Page ==
  \/ Subscribe \/ Respond \/ Send \/ Receive
  \/ LinkRetries \/ LinkGivesUp \/ TimerFires \/ ReconnectNow \/ Reload

-----------------------------------------------------------------------------
(* Properties of the stream                                                 *)

\* The messages the page has been told, of a scenario's lines and of its end.
LinesTold(run) == {n \in 1..board.cursor : journal[n].type = "harness" /\ journal[n].run = run}
EndsTold == {n \in 1..board.cursor : journal[n].type = "scenarioFinished"}

\* Whatever the link, the slow client's queue and the reconnections did, the page has
\* applied exactly the messages up to its cursor, each once and in order: the lines of a
\* run that it was told and no other, in the order both the suite journal and the page
\* keep them, and one more scenario counted each time the next one ends.
BoardMatchesJournal ==
  /\ board.cursor <= Len(journal)
  /\ \A s \in 1..Scenarios :
       LET lines == board.model[s].lines
       IN  /\ {lines[i] : i \in 1..Len(lines)} = {journal[n].line.seq : n \in LinesTold(s)}
           /\ \A i, j \in 1..Len(lines) : i < j => lines[i] < lines[j]
           /\ \A m, n \in LinesTold(s) : m < n => journal[m].line.seq < journal[n].line.seq
  /\ ~ board.finished => {journal[n].run : n \in EndsTold} = 1..board.completed

=============================================================================
