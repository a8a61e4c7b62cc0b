------------------------------- MODULE Report -------------------------------
(***************************************************************************)
(* One run's directory and its two readers.  The store (core/store) writes *)
(* the journal, the inventory, the contract and the result, any of which   *)
(* the disk may refuse, and the process may be interrupted or killed; the  *)
(* page folds the lines as they are published (ui/state/reducer.ts); the   *)
(* reporters rebuild everything from the files afterwards                  *)
(* (cli/reportInput.ts, reporting/).                                       *)
(*                                                                         *)
(* Of a journal line the model keeps what the two readers make of it.      *)
(* Delivery to the page is module Dashboard's; the law behind a verdict is *)
(* module Verdicts'.                                                       *)
(***************************************************************************)
EXTENDS Adjudication, FiniteSets

CONSTANTS
  MaxVerifications,   \* bound: verdicts recorded
  MaxRefusals         \* bound: journal lines and inventory writes the disk refuses

ASSUME ReportAssumption ==
  IsFiniteSet(Criteria) /\ "no" \notin Artifacts /\ MaxVerifications \in Nat /\ MaxRefusals \in Nat

VARIABLES
  stage,       \* where the run is
  contract,    \* is contract.json there
  results,     \* criterion -> result, in the runner's memory
  cause,       \* what ended the attempt, for the aggregate
  memory,      \* artifacts recorded, in the store's memory
  writing,     \* the artifact whose inventory write is under way
  due,         \* the line about a change already made, which is to be appended next
  onDisk,      \* what artifacts.json holds
  partial,     \* the journal ends in the middle of a line
  finished,    \* it has a runFinished line that can be read
  board,       \* the page's model of the run
  result,      \* result.json
  report,      \* the view the reporters were given
  untold,      \* history: the changes no line has told the page of
  verified, refused, cut   \* history: verdicts, refusals, a write was interrupted

store == <<memory, writing, onDisk>>
journal == <<partial, finished, board>>
past == <<untold, verified, refused, cut>>
vars == <<stage, contract, results, cause, store, due, journal, result, report, past>>

-----------------------------------------------------------------------------
ArtifactStates == {"present", "missing", "failed"}
Partial(set, values) == UNION {[some -> values] : some \in SUBSET set}
States(set) == Partial(set, ArtifactStates)

Boards == [status : RunStatuses \cup {"running"}, criteria : Partial(Criteria, Statuses),
           artifacts : States(Artifacts)]

NoResult == [status |-> "none", criteria |-> <<>>]
EmptyBoard == [status |-> "running", criteria |-> <<>>, artifacts |-> <<>>]

NoReport == [status |-> "none", criteria |-> <<>>, dangling |-> {}, artifacts |-> <<>>,
             finalized |-> FALSE]

NoLine == [type |-> "none", of |-> "none"]
Lines == [type : {"verificationFinished"}, of : Criteria]
           \cup [type : {"artifactAvailable"}, of : Artifacts]

TypeOK ==
  /\ due \in Lines \cup {NoLine}
  /\ untold \in [criteria : SUBSET Criteria, artifacts : SUBSET Artifacts, status : BOOLEAN]
  /\ stage \in {"open", "frozen", "attempt", "verdict", "resulted", "over"}
  /\ writing \in Artifacts \cup {"no"} /\ contract \in BOOLEAN
  /\ partial \in BOOLEAN /\ cut \in BOOLEAN
  /\ DOMAIN results \subseteq Criteria /\ results \in [DOMAIN results -> Results]
  /\ cause \in {"none", "cancelled", "error"}
  /\ memory \in States(Artifacts) /\ onDisk \in States(Artifacts)
  /\ finished \in BOOLEAN
  /\ board \in Boards
  /\ refused \in 0..MaxRefusals /\ verified \in 0..MaxVerifications

Init ==
  /\ stage = "open" /\ contract = FALSE /\ results = <<>> /\ cause = "none"
  /\ memory = <<>> /\ writing = "no" /\ onDisk = <<>>
  /\ partial = FALSE /\ finished = FALSE /\ board = EmptyBoard
  /\ result = NoResult /\ report = NoReport
  /\ due = NoLine /\ untold = [criteria |-> {}, artifacts |-> {}, status |-> FALSE]
  /\ verified = 0 /\ refused = 0 /\ cut = FALSE

-----------------------------------------------------------------------------
(* The page                                                                 *)

With(f, x, v) == [y \in DOMAIN f \cup {x} |-> IF y = x THEN v ELSE f[y]]

\* A plausible slip: the board keeps the first verdict it was told.
KeepFirst(criteria, c, status) ==
  IF c \in DOMAIN criteria /\ criteria[c] # "pending" THEN criteria ELSE With(criteria, c, status)

UpsertCriterion(criteria, c, status) == With(criteria, c, status)

Resolved(status) == IF status = "pending" THEN "inconclusive" ELSE status

\* runReducer.  What is still pending when the run finishes is shown as unresolved.
RunReducer(type, of, status) ==
  IF type = "contractFrozen"
  THEN [board EXCEPT !.criteria = [c \in of |-> "pending"]]
  ELSE IF type = "verificationFinished"
  THEN [board EXCEPT !.criteria = UpsertCriterion(@, of, status)]
  ELSE IF type = "artifactAvailable"
  THEN [board EXCEPT !.artifacts = With(@, of, status)]
  ELSE [board EXCEPT !.status = status, !.criteria = [c \in DOMAIN @ |-> Resolved(@[c])]]

-----------------------------------------------------------------------------
(* The store                                                                *)

\* The line is wholly in the file: glued to what a failed append left before it, if anything,
\* and then lost to its readers.
Land(type) == finished' = (type = "runFinished" /\ ~ partial) /\ partial' = FALSE

\* The append was refused or cut: none, a part or all of the line is in the file, and it is
\* not published.
AppendFails(type) ==
  /\ Land(type) \/ (partial' \in {partial, TRUE} /\ UNCHANGED finished)
  /\ UNCHANGED board

\* What is left untold by a line that is published.
Told(type, of) ==
  IF type = "contractFrozen" THEN [untold EXCEPT !.criteria = {}]
  ELSE IF type = "verificationFinished" THEN [untold EXCEPT !.criteria = @ \ {of}]
  ELSE IF type = "artifactAvailable" THEN [untold EXCEPT !.artifacts = @ \ {of}]
  ELSE [untold EXCEPT !.status = FALSE]

\* Journal first, then the page; the disk may refuse the line.
Emit(type, of, status) ==
  \/ /\ Land(type)
     /\ board' = RunReducer(type, of, status) /\ untold' = Told(type, of)
     /\ UNCHANGED refused
  \/ /\ refused < MaxRefusals /\ refused' = refused + 1
     /\ AppendFails(type) /\ UNCHANGED untold

\* A cancellation or an interruption, which the run's cause tells, or the deadline, which it
\* does not.
CutShort == cut' = TRUE /\ cause' \in {cause, "cancelled"}

\* recordArtifact: in memory first, then the inventory, under the store's one permit.
RecordArtifact ==
  /\ stage = "attempt" /\ writing = "no" /\ due = NoLine
  /\ \E id \in Artifacts \ (DOMAIN memory \cup DOMAIN onDisk), state \in ArtifactStates :
       memory' = With(memory, id, state) /\ writing' = id
  /\ UNCHANGED <<stage, contract, results, cause, onDisk, due, journal, result, report, past>>

\* The rename is the commit; the line about the artifact is yet to come.
CommitInventory ==
  /\ writing # "no" /\ writing' = "no"
  /\ onDisk' = memory
  /\ due' = [type |-> "artifactAvailable", of |-> writing]
  /\ untold' = [untold EXCEPT !.artifacts = @ \cup {writing}]
  /\ UNCHANGED <<stage, contract, results, cause, memory, journal, result, report, verified,
                 refused, cut>>

\* A plausible slip: the record stays in memory.
NoRollBack == memory' = memory

RollBack == memory' = [x \in DOMAIN memory \ {writing} |-> memory[x]]

RefuseInventory ==
  /\ writing # "no" /\ writing' = "no"
  /\ refused < MaxRefusals /\ refused' = refused + 1
  /\ RollBack
  /\ UNCHANGED <<stage, contract, results, cause, onDisk, due, journal, result, report, untold,
                 verified, cut>>

\* It may be cut after the rename: the record is taken back all the same, and never told.
InterruptInventory ==
  /\ writing # "no" /\ writing' = "no"
  /\ onDisk' \in {onDisk, memory}
  /\ RollBack
  /\ untold' = [untold EXCEPT !.artifacts = @ \cup {writing}]
  /\ CutShort
  /\ UNCHANGED <<stage, contract, results, due, journal, result, report, verified, refused>>

\* What a line that is due says.
StatusOf(line) ==
  IF line.type = "verificationFinished" THEN results[line.of].status ELSE memory[line.of]

TellLine ==
  /\ due # NoLine /\ due' = NoLine
  /\ Emit(due.type, due.of, StatusOf(due))
  /\ UNCHANGED <<stage, contract, results, cause, store, result, report, verified, cut>>

InterruptLine ==
  /\ due # NoLine /\ due' = NoLine
  /\ AppendFails(due.type)
  /\ CutShort
  /\ UNCHANGED <<stage, contract, results, store, result, report, untold, verified, refused>>

-----------------------------------------------------------------------------
(* The run                                                                  *)

\* What needs no contract fails before it: no criterion, and an error.
FailEarly ==
  /\ stage = "open" /\ stage' = "verdict" /\ cause' = "error"
  /\ UNCHANGED <<contract, results, store, due, journal, result, report, past>>

WriteContract ==
  /\ stage = "open" /\ stage' = "frozen" /\ contract' = TRUE
  /\ untold' = [untold EXCEPT !.criteria = Criteria]
  /\ UNCHANGED <<results, cause, store, due, journal, result, report, verified, refused, cut>>

\* A refused line is ignored here as everywhere; a refused manifest ends the run (Stop).
ContractFrozen ==
  /\ stage = "frozen" /\ stage' = "attempt"
  /\ Emit("contractFrozen", Criteria, "none")
  /\ results' = [c \in Criteria |-> PendingResult]
  /\ UNCHANGED <<contract, cause, store, due, result, report, verified, cut>>

Recorded == {id \in DOMAIN memory : memory[id] = "present"}

\* The verdict is in the runner's memory; its line is yet to come.
Verify(c) ==
  /\ stage = "attempt" /\ writing = "no" /\ due = NoLine
  /\ ~ cut /\ verified < MaxVerifications
  /\ \E status \in Statuses \ {"pending"}, evidence \in SUBSET Recorded :
       /\ status = "passed" => evidence # {}
       /\ results' = [results EXCEPT ![c] = AdmitVerdict(@, Answer(status, evidence, "none"))]
  /\ due' = [type |-> "verificationFinished", of |-> c]
  /\ untold' = [untold EXCEPT !.criteria = @ \cup {c}]
  /\ verified' = verified + 1
  /\ UNCHANGED <<stage, contract, cause, store, journal, result, report, refused, cut>>

AttemptEnds ==
  /\ stage = "attempt" /\ writing = "no" /\ due = NoLine /\ stage' = "verdict"
  /\ cause' \in IF cause = "none" THEN {"none", "cancelled", "error"} ELSE {cause}
  /\ UNCHANGED <<contract, results, store, due, journal, result, report, past>>

WriteResult ==
  /\ stage = "verdict" /\ stage' = "resulted"
  /\ result' = [status |-> Aggregate(cause = "cancelled", cause = "error", results),
                criteria |-> results]
  /\ untold' = [untold EXCEPT !.status = TRUE]
  /\ UNCHANGED <<contract, results, cause, store, due, journal, report, verified, refused, cut>>

RunFinished ==
  /\ stage = "resulted" /\ stage' = "over"
  /\ Emit("runFinished", Criteria, result.status)
  /\ UNCHANGED <<contract, results, cause, store, due, result, report, verified, cut>>

\* The process is killed, perhaps in the middle of a line; or the disk refuses a file.
Stop ==
  /\ stage # "over" /\ stage' = "over"
  /\ writing' = "no" /\ onDisk' \in IF writing = "no" THEN {onDisk} ELSE {onDisk, memory}
  /\ due' = NoLine
  /\ AppendFails(IF stage = "resulted" THEN "runFinished" ELSE due.type)
  /\ UNCHANGED <<contract, results, cause, memory, result, report, past>>

-----------------------------------------------------------------------------
(* The reporters                                                            *)

\* readRunJournal: a truncated tail, or no last line that can be read, is not finalized.
Finalized == finished /\ ~ partial

Found(c) == c \in DOMAIN result.criteria

\* buildReportView: the contract's criteria, each with the result found for it, if any.
BuildReportView ==
  [status    |-> result.status,
   criteria  |-> [c \in IF contract THEN Criteria ELSE {} |->
                    IF Found(c) THEN result.criteria[c].status ELSE "pending"],
   dangling  |-> (UNION {result.criteria[c].evidence : c \in DOMAIN result.criteria})
                   \ DOMAIN onDisk,
   artifacts |-> onDisk,
   finalized |-> Finalized]

\* collectDiagnostics: what a report points out, beside its criteria.
Diagnostics(view) ==
  {source \in {"contract", "journal", "status", "evidence", "artifact"} :
    \/ source = "contract" /\ ~ contract
    \/ source = "journal"  /\ ~ view.finalized
    \/ source = "status"   /\ view.status \in {"error", "cancelled", "inconclusive"}
    \/ source = "evidence" /\ view.dangling # {}
    \/ source = "artifact" /\ \E id \in DOMAIN view.artifacts : view.artifacts[id] # "present"}

\* loadReportInput, which needs result.json, and the files written from the one view.
LoadReport ==
  /\ stage = "over" /\ result # NoResult /\ report = NoReport
  /\ report' = BuildReportView
  /\ UNCHANGED <<stage, contract, results, cause, store, due, journal, result, past>>

Count(view, statuses) == Cardinality({c \in DOMAIN view.criteria : view.criteria[c] \in statuses})

\* A plausible slip: the run-level case is kept for a run without criteria.
RunCaseIfEmpty(view) == DOMAIN view.criteria = {}

RunLevelCase(view) == view.status \in {"error", "cancelled"} \/ DOMAIN view.criteria = {}

\* renderJUnitFromView, with the outcome of each criterion: nothing is ever skipped.
JUnit(view) ==
  LET run == IF RunLevelCase(view) THEN 1 ELSE 0
  IN  [tests    |-> Cardinality(DOMAIN view.criteria) + run,
       failures |-> Count(view, {"failed"}),
       errors   |-> Count(view, {"inconclusive", "pending", "error"}) + run]

-----------------------------------------------------------------------------
Next ==
  \/ RecordArtifact \/ CommitInventory \/ RefuseInventory \/ InterruptInventory
  \/ TellLine \/ InterruptLine
  \/ FailEarly \/ WriteContract \/ ContractFrozen
  \/ \E c \in Criteria : Verify(c)
  \/ AttemptEnds \/ WriteResult \/ RunFinished \/ Stop
  \/ LoadReport

Spec == Init /\ [][Next]_vars

-----------------------------------------------------------------------------
(* Properties *)

\* junit.ts: a green file means a passed run and a passed run a green file, whatever the
\* cause, with or without a contract, and for a result whose criteria were never evaluated;
\* a report that is not green always says why, by a failed criterion or a diagnostic.
GreenMeansPassed ==
  report # NoReport =>
    /\ JUnit(report).failures + JUnit(report).errors = 0 <=> report.status = "passed"
    /\ report.status = "passed" \/ JUnit(report).failures # 0 \/ Diagnostics(report) # {}

\* A verdict the result records cites only artifacts that artifacts.json holds, whichever
\* write was refused or cut short; while the run lasts, the store's memory never claims more
\* than the file, and differs from it only after an interruption (runStore.ts, recordArtifact).
CitedIsOnDisk ==
  /\ report.dangling = {}
  /\ stage = "attempt" /\ writing = "no" =>
       /\ \A id \in DOMAIN memory : id \in DOMAIN onDisk /\ onDisk[id] = memory[id]
       /\ cut \/ memory = onDisk

\* The board a page folded live and the report rebuilt from the files tell the same story
\* about a run whose last line was published, whatever was refused or cut before it: of a
\* criterion or an artifact they differ only when the line about its last change was refused
\* or cut (runStore.ts, emit and recordArtifact; runner.ts:752), and of a criterion never
\* evaluated, which the board resolves.
BoardMatchesReport ==
  report # NoReport /\ report.finalized /\ ~ untold.status =>
    /\ board.status = report.status
    /\ DOMAIN board.criteria \subseteq DOMAIN report.criteria
    /\ \A c \in DOMAIN report.criteria \ untold.criteria :
         c \in DOMAIN board.criteria /\ board.criteria[c] = Resolved(report.criteria[c])
    /\ \A id \in DOMAIN board.artifacts :
         id \in DOMAIN report.artifacts /\ board.artifacts[id] = report.artifacts[id]
    /\ DOMAIN report.artifacts \subseteq DOMAIN board.artifacts \cup untold.artifacts
    /\ refused # 0 \/ cut \/ untold.criteria \cup untold.artifacts = {}
=============================================================================
