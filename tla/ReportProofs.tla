----------------------------- MODULE ReportProofs -----------------------------
(***************************************************************************)
(* What module Report promises about a run's two readers, for every set of *)
(* criteria and of artifacts and every number of refused writes.           *)
(*                                                                         *)
(* None of its invariants is inductive.  They rest on how far the run has  *)
(* come and on what a report was built from (Control), on the store's      *)
(* memory against the file while a write is under way (Storing), on the    *)
(* board against both (Telling), and on what the page was not told (Owed). *)
(***************************************************************************)
EXTENDS Report, SequenceTheorems, FiniteSetTheorems, TLAPS

-----------------------------------------------------------------------------
(* The inductive invariant.                                                 *)

\* What each stage says of the contract, the results, the result and the report.
Control ==
  /\ writing # "no" \/ due # NoLine => stage = "attempt"
  /\ writing # "no" => due = NoLine
  /\ stage = "open" => ~ contract
  /\ stage \in {"frozen", "attempt"} => contract
  /\ stage \in {"open", "frozen"} => DOMAIN results = {}
  /\ stage \in {"attempt", "verdict", "resulted"} \/ result # NoResult =>
       DOMAIN results = IF contract THEN Criteria ELSE {}
  /\ stage \in {"open", "frozen", "attempt", "verdict"} => result = NoResult
  /\ stage = "resulted" => result # NoResult
  /\ result # NoResult =>
       /\ result.criteria = results
       /\ result.status = Aggregate(cause = "cancelled", cause = "error", results)
  /\ report # NoReport => stage = "over" /\ result # NoResult /\ report = BuildReportView

\* The artifacts no write of which is under way.
Saved == DOMAIN memory \ {writing}

\* The store's memory against the file; what is cited stays in both.
Storing ==
  /\ writing # "no" => writing \in DOMAIN memory /\ writing \notin DOMAIN onDisk
  /\ stage # "over" => \A id \in Saved : id \in DOMAIN onDisk /\ onDisk[id] = memory[id]
  /\ stage # "over" /\ ~ cut => DOMAIN onDisk \subseteq Saved
  /\ \A c \in DOMAIN results : results[c].evidence \subseteq Saved \cap DOMAIN onDisk
  /\ due.type = "artifactAvailable" => due.of \in Saved \cap DOMAIN onDisk

\* What the board shows of a criterion.
Shown(c) ==
  IF board.status = "running" THEN results[c].status ELSE Resolved(results[c].status)

\* The board knows only what the run has, and all of it but what it was not told.
Telling ==
  /\ \A id \in DOMAIN board.artifacts :
       /\ id \in Saved /\ id \in DOMAIN onDisk
       /\ board.artifacts[id] = memory[id] /\ board.artifacts[id] = onDisk[id]
  /\ stage # "over" => ~ finished /\ board.status = "running"
  /\ stage = "frozen" => untold.criteria = Criteria
  /\ stage = "resulted" => untold.status
  /\ finished /\ ~ untold.status => board.status = result.status
  /\ DOMAIN board.criteria \subseteq DOMAIN results
  /\ \A c \in DOMAIN results \ untold.criteria :
       c \in DOMAIN board.criteria /\ board.criteria[c] = Shown(c)
  /\ stage # "over" \/ result # NoResult =>
       DOMAIN onDisk \subseteq DOMAIN board.artifacts \cup untold.artifacts

\* While nothing was refused or cut, nothing is untold but what is about to be told.
Owed ==
  refused = 0 /\ ~ cut /\ (stage # "over" \/ result # NoResult) =>
    /\ stage # "frozen" =>
         \A c \in untold.criteria : due.type = "verificationFinished" /\ due.of = c
    /\ \A id \in untold.artifacts : due.type = "artifactAvailable" /\ due.of = id

IInv == TypeOK /\ Control /\ Storing /\ Telling /\ Owed

-----------------------------------------------------------------------------
(* The operators.                                                           *)

\* A partial function is one whose domain lies in the set.
LEMMA PartialLaw ==
  ASSUME NEW set, NEW values
  PROVE  \A f : f \in Partial(set, values) <=> DOMAIN f \subseteq set /\ f \in [DOMAIN f -> values]
BY DEF Partial

\* One entry is added or replaced, and the others stay.
LEMMA WithLaw ==
  ASSUME NEW set, NEW values, NEW f \in Partial(set, values), NEW x \in set, NEW v \in values
  PROVE  /\ With(f, x, v) \in Partial(set, values)
         /\ DOMAIN With(f, x, v) = DOMAIN f \cup {x}
         /\ With(f, x, v)[x] = v
         /\ \A y \in DOMAIN f \ {x} : With(f, x, v)[y] = f[y]
<1>1. DOMAIN f \subseteq set /\ f \in [DOMAIN f -> values]
  BY PartialLaw
<1>2. /\ DOMAIN With(f, x, v) = DOMAIN f \cup {x}
      /\ With(f, x, v) \in [DOMAIN f \cup {x} -> values]
  BY <1>1 DEF With
<1>3. With(f, x, v) \in Partial(set, values)
  BY <1>1, <1>2, PartialLaw
<1> QED BY <1>2, <1>3 DEF With

\* The page's fold keeps the board's types, and each line touches only what it is about.
LEMMA ReducerLaw ==
  ASSUME TypeOK, NEW status
  PROVE  /\ LET new == RunReducer("contractFrozen", Criteria, status)
            IN  /\ new.criteria = [c \in Criteria |-> "pending"]
                /\ new.status = board.status /\ new.artifacts = board.artifacts
         /\ \A c \in Criteria : status \in Statuses =>
              LET new == RunReducer("verificationFinished", c, status)
              IN  /\ new.criteria = With(board.criteria, c, status)
                  /\ new.status = board.status /\ new.artifacts = board.artifacts
         /\ \A id \in Artifacts : status \in ArtifactStates =>
              LET new == RunReducer("artifactAvailable", id, status)
              IN  /\ new.artifacts = With(board.artifacts, id, status)
                  /\ new.status = board.status /\ new.criteria = board.criteria
         /\ status \in RunStatuses =>
              LET new == RunReducer("runFinished", Criteria, status)
              IN  /\ new.criteria = [c \in DOMAIN board.criteria |-> Resolved(board.criteria[c])]
                  /\ new.status = status /\ new.artifacts = board.artifacts
BY DEF TypeOK, RunReducer, UpsertCriterion

\* The order of the aggregate, as the two ways it can be read.
LEMMA AggregateLaw ==
  ASSUME NEW cancelled \in BOOLEAN, NEW failing \in BOOLEAN, NEW given,
         \A c \in DOMAIN given : given[c].status \in Statuses
  PROVE  LET status == Aggregate(cancelled, failing, given)
         IN  /\ status \in RunStatuses
             /\ status = "passed" <=> /\ ~ cancelled /\ ~ failing /\ DOMAIN given # {}
                                      /\ \A c \in DOMAIN given : given[c].status = "passed"
             /\ status = "failed" => \E c \in DOMAIN given : given[c].status = "failed"
BY DEF Aggregate, RunStatuses, Statuses

\* A verdict that is admitted cites what the old one or the new one cited.
LEMMA AdmitLaw ==
  ASSUME NEW old \in Results, NEW new \in Results
  PROVE  /\ AdmitVerdict(old, new) \in Results
         /\ AdmitVerdict(old, new).evidence \subseteq old.evidence \cup new.evidence
<1> DEFINE worse   == Severity[new.status] > Severity[old.status]
           history == old.reChecks \cup {[status |-> new.status, applied |-> worse]}
<1>1. history \in SUBSET ReChecks
  <2>1. \A s \in Statuses : Severity[s] \in Int
    BY DEF Severity, Statuses
  <2>2. worse \in BOOLEAN
    BY <2>1 DEF Results
  <2> HIDE DEF worse
  <2> QED BY <2>2 DEF Results, ReChecks
<1>2. \/ AdmitVerdict(old, new) = new
      \/ AdmitVerdict(old, new) =
           [new EXCEPT !.reChecks = history, !.downgrades = old.downgrades \cup @]
      \/ AdmitVerdict(old, new) = [old EXCEPT !.reChecks = history]
  BY DEF AdmitVerdict
<1> HIDE DEF history
<1> QED BY <1>1, <1>2 DEF Results

\* Every answer is a result.
LEMMA AnswerLaw ==
  ASSUME NEW status \in Statuses, NEW evidence \in SUBSET Artifacts
  PROVE  /\ Answer(status, evidence, "none") \in Results
         /\ Answer(status, evidence, "none").evidence = evidence
BY DEF Answer, Results, AbsenceClaims

-----------------------------------------------------------------------------
(* The invariant is inductive.                                              *)

\* What the file and the page make of a line that could not be appended.
LEMMA AppendLaw ==
  ASSUME TypeOK, NEW type, AppendFails(type)
  PROVE  /\ board' = board /\ partial' \in BOOLEAN /\ finished' \in BOOLEAN
         /\ finished' => finished \/ type = "runFinished"
<1>1. CASE Land(type)
  BY <1>1 DEF AppendFails, Land
<1>2. CASE partial' \in {partial, TRUE} /\ UNCHANGED finished
  BY <1>2 DEF AppendFails, TypeOK
<1> QED BY <1>1, <1>2 DEF AppendFails

\* What a line the store emits does, whether it is appended or refused.
LEMMA EmitLaw ==
  ASSUME TypeOK, NEW type, NEW of, NEW status, Emit(type, of, status)
  PROVE  /\ refused' \in 0..MaxRefusals /\ partial' \in BOOLEAN /\ finished' \in BOOLEAN
         /\ finished' => finished \/ type = "runFinished"
         /\ \/ /\ board' = RunReducer(type, of, status)
               /\ untold' = Told(type, of) /\ refused' = refused
            \/ refused' # 0 /\ board' = board /\ untold' = untold
<1>1. MaxRefusals \in Nat /\ refused \in 0..MaxRefusals
  BY ReportAssumption DEF TypeOK
<1>2. CASE /\ Land(type)
           /\ board' = RunReducer(type, of, status) /\ untold' = Told(type, of)
           /\ UNCHANGED refused
  BY <1>1, <1>2 DEF Land
<1>3. CASE /\ refused < MaxRefusals /\ refused' = refused + 1
           /\ AppendFails(type) /\ UNCHANGED untold
  <2>1. refused' \in 0..MaxRefusals /\ refused' # 0
    BY <1>1, <1>3
  <2> QED BY <1>3, <2>1, AppendLaw
<1> QED BY <1>2, <1>3 DEF Emit

\* What a line tells is untold no longer, and nothing else changes.
LEMMA ToldLaw ==
  ASSUME TypeOK, NEW type, NEW of
  PROVE  /\ Told(type, of) \in [criteria : SUBSET Criteria, artifacts : SUBSET Artifacts,
                                 status : BOOLEAN]
         /\ type = "contractFrozen" =>
              Told(type, of).criteria = {} /\ Told(type, of).artifacts = untold.artifacts
         /\ type = "verificationFinished" =>
              /\ Told(type, of).criteria = untold.criteria \ {of}
              /\ Told(type, of).artifacts = untold.artifacts
         /\ type = "artifactAvailable" =>
              /\ Told(type, of).artifacts = untold.artifacts \ {of}
              /\ Told(type, of).criteria = untold.criteria
         /\ type = "runFinished" =>
              /\ Told(type, of).criteria = untold.criteria
              /\ Told(type, of).artifacts = untold.artifacts
         /\ type # "runFinished" /\ type \in {"contractFrozen", "verificationFinished",
                                            "artifactAvailable"} =>
              Told(type, of).status = untold.status
BY DEF Told, TypeOK

\* The board keeps its types whatever line is folded.
LEMMA BoardTyped ==
  ASSUME TypeOK, NEW status
  PROVE  /\ RunReducer("contractFrozen", Criteria, status) \in Boards
         /\ \A c \in Criteria : status \in Statuses =>
              RunReducer("verificationFinished", c, status) \in Boards
         /\ \A id \in Artifacts : status \in ArtifactStates =>
              RunReducer("artifactAvailable", id, status) \in Boards
         /\ status \in RunStatuses => RunReducer("runFinished", Criteria, status) \in Boards
<1>1. board \in Boards /\ board.criteria \in Partial(Criteria, Statuses)
      /\ board.artifacts \in Partial(Artifacts, ArtifactStates)
  BY DEF TypeOK, Boards, States
<1>2. [c \in Criteria |-> "pending"] \in Partial(Criteria, Statuses)
  BY PartialLaw DEF Statuses
<1>3. [c \in DOMAIN board.criteria |-> Resolved(board.criteria[c])] \in Partial(Criteria, Statuses)
  <2>1. DOMAIN board.criteria \subseteq Criteria
        /\ board.criteria \in [DOMAIN board.criteria -> Statuses]
    BY <1>1, PartialLaw
  <2>2. \A c \in DOMAIN board.criteria : Resolved(board.criteria[c]) \in Statuses
    BY <2>1 DEF Resolved, Statuses
  <2> QED BY <2>1, <2>2, PartialLaw
<1>4. RunReducer("contractFrozen", Criteria, status) \in Boards
  BY <1>1, <1>2 DEF RunReducer, Boards
<1>5. ASSUME NEW c \in Criteria, status \in Statuses
      PROVE  RunReducer("verificationFinished", c, status) \in Boards
  <2>1. With(board.criteria, c, status) \in Partial(Criteria, Statuses)
    BY <1>1, <1>5, WithLaw
  <2> QED BY <1>1, <2>1 DEF RunReducer, UpsertCriterion, Boards
<1>6. ASSUME NEW id \in Artifacts, status \in ArtifactStates
      PROVE  RunReducer("artifactAvailable", id, status) \in Boards
  <2>1. With(board.artifacts, id, status) \in States(Artifacts)
    BY <1>1, <1>6, WithLaw DEF States
  <2> QED BY <1>1, <2>1 DEF RunReducer, Boards
<1>7. ASSUME status \in RunStatuses
      PROVE  RunReducer("runFinished", Criteria, status) \in Boards
  BY <1>1, <1>3, <1>7 DEF RunReducer, Boards
<1> QED BY <1>4, <1>5, <1>6, <1>7

\* Dropping an entry leaves a partial function.
LEMMA RollBackLaw ==
  ASSUME TypeOK, RollBack
  PROVE  /\ memory' \in States(Artifacts) /\ DOMAIN memory' = Saved
         /\ \A id \in Saved : memory'[id] = memory[id]
<1>1. DOMAIN memory \subseteq Artifacts /\ memory \in [DOMAIN memory -> ArtifactStates]
  BY PartialLaw DEF TypeOK, States
<1>2. memory' \in [Saved -> ArtifactStates]
  BY <1>1 DEF RollBack, Saved
<1> QED BY <1>1, <1>2, PartialLaw DEF RollBack, Saved, States

\* Recording a verdict gives the criterion a result that cites what was cited or is on disk.
LEMMA VerifyLaw ==
  ASSUME TypeOK, Control, Storing, NEW c \in Criteria, Verify(c)
  PROVE  /\ DOMAIN results' = DOMAIN results /\ results' \in [DOMAIN results -> Results]
         /\ c \in DOMAIN results
         /\ \A d \in DOMAIN results : results'[d].evidence \subseteq Saved \cap DOMAIN onDisk
         /\ \A d \in DOMAIN results \ {c} : results'[d] = results[d]
<1>1. PICK status \in Statuses, evidence \in SUBSET Recorded :
        results' = [results EXCEPT ![c] = AdmitVerdict(@, Answer(status, evidence, "none"))]
  BY DEF Verify
<1>2. DOMAIN results = Criteria /\ results \in [Criteria -> Results]
  BY DEF Verify, Control, TypeOK
<1>3. /\ DOMAIN memory \subseteq Artifacts
      /\ Recorded \subseteq Saved /\ Recorded \subseteq DOMAIN onDisk
  <2>1. DOMAIN memory \subseteq Artifacts
    BY PartialLaw DEF TypeOK, States
  <2>2. Recorded \subseteq Saved
    BY <2>1, ReportAssumption DEF Verify, Recorded, Saved
  <2> QED BY <2>1, <2>2 DEF Verify, Storing
<1>4. /\ Answer(status, evidence, "none") \in Results
      /\ Answer(status, evidence, "none").evidence = evidence
  BY <1>3, AnswerLaw DEF Recorded
<1>5. /\ AdmitVerdict(results[c], Answer(status, evidence, "none")) \in Results
      /\ AdmitVerdict(results[c], Answer(status, evidence, "none")).evidence
           \subseteq results[c].evidence \cup evidence
  BY <1>2, <1>4, AdmitLaw
<1>6. results' \in [Criteria -> Results] /\ \A d \in Criteria \ {c} : results'[d] = results[d]
  BY <1>1, <1>2, <1>5
<1>7. results'[c].evidence \subseteq results[c].evidence \cup evidence
  BY <1>1, <1>2, <1>5
<1>8. \A d \in Criteria : results'[d].evidence \subseteq Saved \cap DOMAIN onDisk
  BY <1>2, <1>3, <1>6, <1>7 DEF Storing
<1> QED BY <1>1, <1>2, <1>6, <1>8

\* A line that is due is about a criterion that has a result or an artifact that is recorded.
LEMMA DueLaw ==
  ASSUME TypeOK, Control, Storing, due # NoLine
  PROVE  \/ /\ due.type = "verificationFinished" /\ due.of \in Criteria
            /\ due.of \in DOMAIN results
            /\ StatusOf(due) = results[due.of].status /\ StatusOf(due) \in Statuses
         \/ /\ due.type = "artifactAvailable" /\ due.of \in Artifacts
            /\ due.of \in Saved \cap DOMAIN onDisk
            /\ StatusOf(due) = memory[due.of] /\ StatusOf(due) \in ArtifactStates
<1>1. due \in Lines
  BY DEF TypeOK
<1>2. CASE due.type = "verificationFinished"
  <2>1. due.of \in Criteria
    BY <1>1, <1>2 DEF Lines
  <2>2. DOMAIN results = Criteria /\ results \in [Criteria -> Results]
    BY DEF Control, TypeOK
  <2> QED BY <1>2, <2>1, <2>2 DEF StatusOf, Results
<1>3. CASE due.type = "artifactAvailable"
  <2>1. due.of \in Artifacts
    BY <1>1, <1>3 DEF Lines
  <2>2. due.of \in Saved \cap DOMAIN onDisk
    BY <1>3 DEF Storing
  <2>3. memory \in [DOMAIN memory -> ArtifactStates] /\ due.of \in DOMAIN memory
    BY <2>2, PartialLaw DEF TypeOK, States, Saved
  <2> QED BY <1>3, <2>1, <2>2, <2>3 DEF StatusOf
<1> QED BY <1>1, <1>2, <1>3 DEF Lines

\* Once written, the result has a status.
LEMMA ResultLaw ==
  ASSUME TypeOK, Control
  PROVE  result # NoResult \/ stage = "resulted" => result.status \in RunStatuses
<1>1. \A c \in DOMAIN results : results[c].status \in Statuses
  BY DEF TypeOK, Results
<1> QED BY <1>1, AggregateLaw DEF Control

\* The state keeps its types.
LEMMA TypesPreserved ==
  ASSUME TypeOK, Control, Storing, [Next]_vars
  PROVE  TypeOK'
<1> USE DEF past
<1>1. CASE RecordArtifact
  <2>1. PICK id \in Artifacts, state \in ArtifactStates :
          memory' = With(memory, id, state) /\ writing' = id
    BY <1>1 DEF RecordArtifact
  <2>2. memory' \in States(Artifacts)
    BY <2>1, WithLaw DEF TypeOK, States
  <2> QED BY <1>1, <2>1, <2>2 DEF RecordArtifact, journal, TypeOK
<1>2. CASE CommitInventory
  <2>1. due' \in Lines /\ untold'.artifacts \in SUBSET Artifacts
    BY <1>2 DEF CommitInventory, Lines, TypeOK
  <2> QED BY <1>2, <2>1 DEF CommitInventory, journal, TypeOK
<1>3. CASE RefuseInventory
  <2>1. memory' \in States(Artifacts)
    BY <1>3, RollBackLaw DEF RefuseInventory
  <2>2. refused' \in 0..MaxRefusals
    BY <1>3, ReportAssumption DEF RefuseInventory, TypeOK
  <2> QED BY <1>3, <2>1, <2>2 DEF RefuseInventory, journal, TypeOK
<1>4. CASE InterruptInventory
  <2>1. memory' \in States(Artifacts)
    BY <1>4, RollBackLaw DEF InterruptInventory
  <2>2. onDisk' \in States(Artifacts) /\ cause' \in {"none", "cancelled", "error"} /\ cut'
    BY <1>4 DEF InterruptInventory, CutShort, TypeOK
  <2>3. untold' \in [criteria : SUBSET Criteria, artifacts : SUBSET Artifacts, status : BOOLEAN]
    BY <1>4 DEF InterruptInventory, TypeOK
  <2> QED BY <1>4, <2>1, <2>2, <2>3 DEF InterruptInventory, journal, TypeOK
<1>5. CASE FailEarly
  BY <1>5 DEF FailEarly, store, journal, TypeOK
<1>6. CASE WriteContract
  BY <1>6 DEF WriteContract, store, journal, TypeOK
<1>7. CASE ContractFrozen
  <2>1. Emit("contractFrozen", Criteria, "none")
    BY <1>7 DEF ContractFrozen
  <2>2. /\ board' \in Boards /\ refused' \in 0..MaxRefusals
        /\ partial' \in BOOLEAN /\ finished' \in BOOLEAN
        /\ untold' \in [criteria : SUBSET Criteria, artifacts : SUBSET Artifacts,
                        status : BOOLEAN]
    BY <2>1, EmitLaw, BoardTyped, ToldLaw DEF TypeOK
  <2>3. DOMAIN results' = Criteria /\ results' \in [Criteria -> Results]
    <3>1. PendingResult \in Results
      BY DEF PendingResult, Results, Statuses, AbsenceClaims
    <3> QED BY <1>7, <3>1 DEF ContractFrozen
  <2> QED BY <1>7, <2>2, <2>3 DEF ContractFrozen, store, TypeOK
<1>8. ASSUME NEW c \in Criteria, Verify(c)
      PROVE  TypeOK'
  <2>1. DOMAIN results' = DOMAIN results /\ results' \in [DOMAIN results -> Results]
    BY <1>8, VerifyLaw
  <2>2. verified' \in 0..MaxVerifications
    BY <1>8, ReportAssumption DEF Verify, TypeOK
  <2>3. due' \in Lines
    BY <1>8 DEF Verify, Lines
  <2>4. untold' \in [criteria : SUBSET Criteria, artifacts : SUBSET Artifacts, status : BOOLEAN]
    BY <1>8 DEF Verify, TypeOK
  <2> QED BY <1>8, <2>1, <2>2, <2>3, <2>4 DEF Verify, store, journal, TypeOK
<1>9. CASE AttemptEnds
  BY <1>9 DEF AttemptEnds, store, journal, TypeOK
<1>10. CASE WriteResult
  BY <1>10 DEF WriteResult, store, journal, TypeOK
<1>11. CASE RunFinished
  <2>1. result.status \in RunStatuses
    BY <1>11, ResultLaw DEF RunFinished
  <2>2. Emit("runFinished", Criteria, result.status)
    BY <1>11 DEF RunFinished
  <2>3. /\ board' \in Boards /\ refused' \in 0..MaxRefusals
        /\ partial' \in BOOLEAN /\ finished' \in BOOLEAN
        /\ untold' \in [criteria : SUBSET Criteria, artifacts : SUBSET Artifacts,
                        status : BOOLEAN]
    BY <2>1, <2>2, EmitLaw, BoardTyped, ToldLaw DEF TypeOK
  <2> QED BY <1>11, <2>3 DEF RunFinished, store, TypeOK
<1>12. CASE Stop
  <2>1. board' = board /\ partial' \in BOOLEAN /\ finished' \in BOOLEAN
    BY <1>12, AppendLaw DEF Stop
  <2>2. onDisk' \in States(Artifacts) /\ due' \in Lines \cup {NoLine} /\ writing' = "no"
    BY <1>12 DEF Stop, TypeOK
  <2> QED BY <1>12, <2>1, <2>2 DEF Stop, TypeOK
<1>13. CASE LoadReport
  BY <1>13 DEF LoadReport, store, journal, TypeOK
<1>14. CASE TellLine
  <2>1. Emit(due.type, due.of, StatusOf(due))
    BY <1>14 DEF TellLine
  <2>2. /\ board' \in Boards /\ refused' \in 0..MaxRefusals
        /\ partial' \in BOOLEAN /\ finished' \in BOOLEAN
        /\ untold' \in [criteria : SUBSET Criteria, artifacts : SUBSET Artifacts,
                        status : BOOLEAN]
    <3>1. RunReducer(due.type, due.of, StatusOf(due)) \in Boards
      BY <1>14, DueLaw, BoardTyped DEF TellLine
    <3> QED BY <2>1, <3>1, EmitLaw, ToldLaw DEF TypeOK
  <2>3. due' = NoLine
    BY <1>14 DEF TellLine
  <2> QED BY <1>14, <2>2, <2>3 DEF TellLine, store, TypeOK
<1>15. CASE InterruptLine
  <2>1. board' = board /\ partial' \in BOOLEAN /\ finished' \in BOOLEAN
    BY <1>15, AppendLaw DEF InterruptLine
  <2>2. due' = NoLine /\ cause' \in {"none", "cancelled", "error"} /\ cut'
    BY <1>15 DEF InterruptLine, CutShort, TypeOK
  <2> QED BY <1>15, <2>1, <2>2 DEF InterruptLine, store, TypeOK
<1>16. CASE UNCHANGED vars
  BY <1>16 DEF vars, store, journal, TypeOK
<1> QED BY <1>1, <1>2, <1>3, <1>4, <1>5, <1>6, <1>7, <1>8, <1>9, <1>10, <1>11, <1>12, <1>13,
           <1>14, <1>15, <1>16 DEF Next

\* The stages come in their order, the result is written once and the report is built from it.
LEMMA ControlPreserved ==
  ASSUME TypeOK, Control, [Next]_vars
  PROVE  Control'
<1> USE DEF past
<1>1. CASE RecordArtifact \/ CommitInventory \/ RefuseInventory \/ InterruptInventory
  <2>1. /\ stage = "attempt" /\ stage' = "attempt"
        /\ UNCHANGED <<contract, result, report, results>>
        /\ writing' # "no" => due' = NoLine
    BY <1>1 DEF RecordArtifact, CommitInventory, RefuseInventory, InterruptInventory, Control
  <2> QED BY <2>1 DEF Control
<1>2. ASSUME NEW c \in Criteria, Verify(c)
      PROVE  Control'
  <2>1. /\ stage = "attempt" /\ stage' = "attempt" /\ UNCHANGED <<contract, result, report>>
        /\ DOMAIN results' = DOMAIN results /\ writing' = "no"
    <3>1. \E x : results' = [results EXCEPT ![c] = x]
      BY <1>2 DEF Verify
    <3> QED BY <1>2, <3>1 DEF Verify, TypeOK, store
  <2> QED BY <2>1 DEF Control
<1>3. CASE FailEarly \/ WriteContract \/ AttemptEnds
  <2>1. /\ \/ stage = "open" /\ stage' = "verdict" /\ contract' = contract
           \/ stage = "open" /\ stage' = "frozen" /\ contract'
           \/ stage = "attempt" /\ stage' = "verdict" /\ contract' = contract
        /\ UNCHANGED <<results, writing, due, result, report>> /\ writing = "no" /\ due = NoLine
    BY <1>3 DEF FailEarly, WriteContract, AttemptEnds, store, Control
  <2> QED BY <2>1 DEF Control
<1>4. CASE ContractFrozen
  <2>1. /\ stage = "frozen" /\ stage' = "attempt" /\ DOMAIN results' = Criteria
        /\ UNCHANGED <<contract, writing, due, result, report>>
    BY <1>4 DEF ContractFrozen, store
  <2> QED BY <2>1 DEF Control
<1>5. CASE WriteResult
  <2>1. /\ stage = "verdict" /\ stage' = "resulted" /\ writing' = writing /\ contract' = contract
        /\ results' = results /\ cause' = cause /\ report' = report /\ due' = due
        /\ result' = [status |-> Aggregate(cause = "cancelled", cause = "error", results),
                      criteria |-> results]
    BY <1>5 DEF WriteResult, store
  <2>2. result' # NoResult
    <3>1. Aggregate(cause = "cancelled", cause = "error", results) \in RunStatuses
      <4>1. \A c \in DOMAIN results : results[c].status \in Statuses
        BY DEF TypeOK, Results
      <4> QED BY <4>1, AggregateLaw
    <3> QED BY <2>1, <3>1 DEF NoResult, RunStatuses
  <2> QED BY <2>1, <2>2 DEF Control
<1>6. CASE RunFinished \/ Stop
  <2>1. /\ stage # "over" /\ stage' = "over"
        /\ UNCHANGED <<contract, results, cause, result, report>>
        /\ writing' = "no" /\ due' = NoLine
    BY <1>6 DEF RunFinished, Stop, store, Control
  <2> QED BY <2>1 DEF Control
<1>7. CASE LoadReport
  <2>1. /\ UNCHANGED <<contract, results, cause, onDisk, finished, partial, result, stage>>
        /\ UNCHANGED <<writing, due>>
    BY <1>7 DEF LoadReport, store, journal
  <2>2. BuildReportView' = BuildReportView
    BY <2>1 DEF BuildReportView, Found, Finalized
  <2>3. stage = "over" /\ result # NoResult /\ report' = BuildReportView
    BY <1>7 DEF LoadReport
  <2> QED BY <2>1, <2>2, <2>3 DEF Control
<1>8. CASE TellLine \/ InterruptLine
  <2>1. /\ stage = "attempt" /\ stage' = "attempt" /\ due' = NoLine
        /\ UNCHANGED <<contract, results, writing, result, report>>
    BY <1>8 DEF TellLine, InterruptLine, store, Control
  <2> QED BY <2>1 DEF Control
<1>9. CASE UNCHANGED vars
  <2>1. /\ UNCHANGED <<contract, results, cause, onDisk, finished, partial, result, stage>>
        /\ UNCHANGED <<writing, due, report>>
    BY <1>9 DEF vars, store, journal
  <2>2. BuildReportView' = BuildReportView
    BY <2>1 DEF BuildReportView, Found, Finalized
  <2> QED BY <2>1, <2>2 DEF Control
<1> QED BY <1>1, <1>2, <1>3, <1>4, <1>5, <1>6, <1>7, <1>8, <1>9 DEF Next

\* Between two writes of the inventory every artifact in memory is saved.
LEMMA SavedLaw ==
  ASSUME TypeOK
  PROVE  /\ DOMAIN memory \subseteq Artifacts /\ "no" \notin DOMAIN memory
         /\ writing = "no" => Saved = DOMAIN memory
         /\ (writing' = "no" /\ "no" \notin DOMAIN memory') => Saved' = DOMAIN memory'
<1>1. DOMAIN memory \subseteq Artifacts /\ "no" \notin DOMAIN memory
  BY PartialLaw, ReportAssumption DEF TypeOK, States
<1> QED BY <1>1 DEF Saved

\* What is cited stays in the store's memory and in its file.
LEMMA StoringPreserved ==
  ASSUME TypeOK, Control, Storing, [Next]_vars
  PROVE  Storing'
<1> USE DEF past
<1>0. NoLine.type # "artifactAvailable"
  BY DEF NoLine
<1>1. ASSUME UNCHANGED <<memory, writing, onDisk, results>>, cut => cut',
             due' = due \/ due' = NoLine, stage = "over" => stage' = "over"
      PROVE  Storing'
  BY <1>0, <1>1 DEF Storing, Saved
<1>2. CASE RecordArtifact
  <2>1. PICK id \in Artifacts \ (DOMAIN memory \cup DOMAIN onDisk), state \in ArtifactStates :
          memory' = With(memory, id, state) /\ writing' = id
    BY <1>2 DEF RecordArtifact
  <2>2. /\ DOMAIN memory' = DOMAIN memory \cup {id}
        /\ \A y \in DOMAIN memory : memory'[y] = memory[y]
    BY <2>1 DEF With
  <2>3. Saved = DOMAIN memory /\ Saved' = Saved
    BY <1>2, <2>1, <2>2, SavedLaw DEF RecordArtifact, Saved
  <2>4. UNCHANGED <<stage, results, onDisk, cut, due>>
    BY <1>2 DEF RecordArtifact
  <2> QED BY <2>1, <2>2, <2>3, <2>4 DEF Storing
<1>3. CASE CommitInventory
  <2>1. /\ writing # "no" /\ writing' = "no" /\ onDisk' = memory /\ memory' = memory
        /\ UNCHANGED <<stage, results, cut>> /\ due'.of = writing
    BY <1>3 DEF CommitInventory
  <2>2. Saved' = DOMAIN memory /\ Saved \subseteq DOMAIN memory
    BY <2>1, SavedLaw DEF Saved
  <2> QED BY <2>1, <2>2 DEF Storing
<1>4. CASE RefuseInventory \/ InterruptInventory
  <2>1. /\ writing # "no" /\ writing' = "no" /\ onDisk' \in {onDisk, memory} /\ RollBack
        /\ UNCHANGED <<stage, results, due>> /\ due = NoLine
        /\ (onDisk' = onDisk /\ cut' = cut) \/ cut'
    BY <1>4 DEF RefuseInventory, InterruptInventory, CutShort, Control
  <2>2. DOMAIN memory' = Saved /\ \A id \in Saved : memory'[id] = memory[id]
    BY <2>1, RollBackLaw
  <2>3. Saved' = Saved /\ Saved \subseteq DOMAIN memory
    BY <2>1, <2>2, SavedLaw DEF Saved
  <2>4. stage # "over"
    BY <2>1 DEF Control
  <2> QED BY <1>0, <2>1, <2>2, <2>3, <2>4 DEF Storing
<1>5. CASE ContractFrozen
  <2>1. UNCHANGED <<memory, writing, onDisk, cut, due>> /\ stage # "over"
    BY <1>5 DEF ContractFrozen, store
  <2>2. \A c \in DOMAIN results' : results'[c].evidence = {}
    BY <1>5 DEF ContractFrozen, PendingResult
  <2> QED BY <2>1, <2>2 DEF Storing, Saved
<1>6. ASSUME NEW c \in Criteria, Verify(c)
      PROVE  Storing'
  <2>1. /\ UNCHANGED <<stage, memory, writing, onDisk, cut>>
        /\ due'.type # "artifactAvailable"
    BY <1>6 DEF Verify, store
  <2>2. /\ DOMAIN results' = DOMAIN results
        /\ \A d \in DOMAIN results : results'[d].evidence \subseteq Saved \cap DOMAIN onDisk
    BY <1>6, VerifyLaw
  <2> QED BY <2>1, <2>2 DEF Storing, Saved
<1>7. CASE Stop
  <2>1. /\ stage' = "over" /\ writing' = "no" /\ due' = NoLine
        /\ onDisk' = onDisk \/ (writing # "no" /\ onDisk' = memory)
        /\ UNCHANGED <<memory, results, cut>>
    BY <1>7 DEF Stop
  <2>2. Saved' = DOMAIN memory /\ Saved \subseteq DOMAIN memory
    BY <2>1, SavedLaw DEF Saved
  <2> QED BY <1>0, <2>1, <2>2 DEF Storing
<1>8. CASE FailEarly \/ WriteContract \/ AttemptEnds \/ WriteResult
  <2>1. stage # "over" /\ UNCHANGED <<memory, writing, onDisk, results, cut, due>>
    BY <1>8 DEF FailEarly, WriteContract, AttemptEnds, WriteResult, store
  <2> QED BY <1>1, <2>1
<1>9. CASE RunFinished \/ LoadReport \/ UNCHANGED vars
  <2>1. /\ UNCHANGED <<memory, writing, onDisk, results, cut, due>>
        /\ stage = "over" => stage' = "over"
    BY <1>9 DEF RunFinished, LoadReport, vars, store
  <2> QED BY <1>1, <2>1
<1>10. CASE TellLine \/ InterruptLine
  <2>1. /\ UNCHANGED <<memory, writing, onDisk, results, stage>>
        /\ due' = NoLine /\ (cut => cut') /\ (stage = "over" => stage' = "over")
    BY <1>10 DEF TellLine, InterruptLine, CutShort, store
  <2> QED BY <1>1, <2>1
<1> QED BY <1>2, <1>3, <1>4, <1>5, <1>6, <1>7, <1>8, <1>9, <1>10 DEF Next

\* The board tells what the run has, but for what it was not told.
LEMMA TellingPreserved ==
  ASSUME TypeOK, Control, Storing, Telling, [Next]_vars
  PROVE  Telling'
<1> USE DEF past
<1>1. board.artifacts \in Partial(Artifacts, ArtifactStates)
  BY DEF TypeOK, Boards, States
<1>2. \A c : Shown(c)' = IF board'.status = "running" THEN results'[c].status
                        ELSE Resolved(results'[c].status)
  BY DEF Shown, Resolved
<1>3. CASE RecordArtifact
  <2>1. PICK id \in Artifacts \ (DOMAIN memory \cup DOMAIN onDisk), state \in ArtifactStates :
          memory' = With(memory, id, state) /\ writing' = id
    BY <1>3 DEF RecordArtifact
  <2>2. /\ DOMAIN memory' = DOMAIN memory \cup {id}
        /\ \A y \in DOMAIN memory : memory'[y] = memory[y]
    BY <2>1 DEF With
  <2>3. Saved = DOMAIN memory /\ Saved' = Saved
    BY <1>3, <2>1, <2>2, SavedLaw DEF RecordArtifact, Saved
  <2>4. UNCHANGED <<stage, results, onDisk, finished, board, result, untold>>
    BY <1>3 DEF RecordArtifact, journal
  <2> QED BY <2>2, <2>3, <2>4 DEF Telling, Shown
<1>4. CASE CommitInventory
  <2>1. /\ writing # "no" /\ writing' = "no" /\ onDisk' = memory /\ memory' = memory
        /\ UNCHANGED <<stage, results, finished, board, result>> /\ stage # "over"
        /\ untold'.criteria = untold.criteria /\ untold'.status = untold.status
        /\ untold'.artifacts = untold.artifacts \cup {writing}
    BY <1>4 DEF CommitInventory, Control, journal, TypeOK
  <2>2. Saved' = DOMAIN memory /\ DOMAIN memory = Saved \cup {writing}
    BY <2>1, SavedLaw DEF Saved, Storing
  <2>3. Saved \subseteq DOMAIN onDisk
    BY <2>1 DEF Storing
  <2> QED BY <2>1, <2>2, <2>3 DEF Telling, Shown
<1>5. CASE RefuseInventory \/ InterruptInventory
  <2>1. /\ writing # "no" /\ writing' = "no" /\ RollBack
        /\ UNCHANGED <<stage, results, finished, board, result>> /\ stage # "over"
        /\ untold'.criteria = untold.criteria /\ untold'.status = untold.status
        /\ \/ onDisk' = onDisk /\ untold.artifacts \subseteq untold'.artifacts
           \/ onDisk' = memory /\ untold'.artifacts = untold.artifacts \cup {writing}
    BY <1>5 DEF RefuseInventory, InterruptInventory, Control, journal, TypeOK
  <2>2. DOMAIN memory' = Saved /\ \A id \in Saved : memory'[id] = memory[id]
    BY <2>1, RollBackLaw
  <2>3. Saved' = Saved /\ DOMAIN memory \subseteq Saved \cup {writing}
    BY <2>1, <2>2, SavedLaw DEF Saved
  <2>4. Saved \subseteq DOMAIN onDisk
    BY <2>1 DEF Storing
  <2> QED BY <2>1, <2>2, <2>3, <2>4 DEF Telling, Shown, Saved
<1>6. CASE FailEarly \/ WriteContract \/ AttemptEnds \/ WriteResult
  <2>1. /\ UNCHANGED <<results, memory, writing, onDisk, finished, board>>
        /\ stage # "over" /\ stage' # "over" /\ (stage' = "resulted" => untold'.status)
        /\ untold.criteria \subseteq untold'.criteria /\ untold'.artifacts = untold.artifacts
        /\ stage' = "frozen" => untold'.criteria = Criteria
    BY <1>6 DEF FailEarly, WriteContract, AttemptEnds, WriteResult, store, journal, TypeOK
  <2> QED BY <2>1 DEF Telling, Shown, Saved
<1>7. CASE ContractFrozen
  <2>1. /\ UNCHANGED <<memory, writing, onDisk, result>> /\ stage = "frozen" /\ stage' = "attempt"
        /\ ~ finished /\ results' = [c \in Criteria |-> PendingResult] /\ DOMAIN results = {}
        /\ Emit("contractFrozen", Criteria, "none")
    BY <1>7 DEF ContractFrozen, store, Telling, Control
  <2>2. CASE /\ board' = RunReducer("contractFrozen", Criteria, "none")
             /\ untold' = Told("contractFrozen", Criteria) /\ ~ finished'
    <3>1. /\ board'.criteria = [c \in Criteria |-> "pending"] /\ board'.artifacts = board.artifacts
          /\ board'.status = board.status /\ untold'.artifacts = untold.artifacts
      BY <2>2, ReducerLaw, ToldLaw
    <3> QED BY <2>1, <2>2, <3>1 DEF Telling, Shown, Saved, PendingResult
  <2>3. CASE board' = board /\ untold' = untold /\ ~ finished'
    <3>1. untold.criteria = Criteria
      BY <2>1 DEF Telling
    <3> QED BY <2>1, <2>3, <3>1 DEF Telling, Shown, Saved
  <2> QED BY <2>1, <2>2, <2>3, EmitLaw
<1>8. ASSUME NEW c \in Criteria, Verify(c)
      PROVE  Telling'
  <2>1. /\ UNCHANGED <<stage, memory, writing, onDisk, board, finished, result>>
        /\ untold'.criteria = untold.criteria \cup {c}
        /\ untold'.artifacts = untold.artifacts /\ untold'.status = untold.status
    BY <1>8 DEF Verify, store, journal, TypeOK
  <2>2. /\ DOMAIN results' = DOMAIN results
        /\ \A d \in DOMAIN results \ {c} : results'[d] = results[d]
    BY <1>8, VerifyLaw
  <2> QED BY <2>1, <2>2 DEF Telling, Shown, Saved
<1>9. CASE TellLine
  <2>1. /\ UNCHANGED <<results, memory, writing, onDisk, result, stage>> /\ stage = "attempt"
        /\ ~ finished /\ due # NoLine /\ Emit(due.type, due.of, StatusOf(due))
    BY <1>9 DEF TellLine, store, Telling, Control
  <2>2. CASE /\ due.type = "verificationFinished" /\ due.of \in Criteria
             /\ due.of \in DOMAIN results
             /\ StatusOf(due) = results[due.of].status /\ StatusOf(due) \in Statuses
             /\ board' = RunReducer(due.type, due.of, StatusOf(due))
             /\ untold' = Told(due.type, due.of) /\ ~ finished'
    <3> DEFINE c == due.of
    <3>1. /\ board'.criteria = With(board.criteria, c, results[c].status)
          /\ board'.artifacts = board.artifacts /\ board'.status = board.status
          /\ untold'.criteria = untold.criteria \ {c} /\ untold'.artifacts = untold.artifacts
      <4>1. /\ board' = RunReducer("verificationFinished", c, StatusOf(due))
            /\ untold' = Told("verificationFinished", c)
            /\ c \in Criteria /\ StatusOf(due) = results[c].status /\ StatusOf(due) \in Statuses
        BY <2>2
      <4> HIDE DEF c
      <4>2. /\ board'.criteria = With(board.criteria, c, StatusOf(due))
            /\ board'.artifacts = board.artifacts /\ board'.status = board.status
        BY <4>1 DEF RunReducer, UpsertCriterion, TypeOK, Boards
      <4>3. /\ untold'.criteria = untold.criteria \ {c}
            /\ untold'.artifacts = untold.artifacts
        BY <4>1, ToldLaw
      <4> QED BY <4>1, <4>2, <4>3
    <3>2. c \in DOMAIN results
      BY <2>2
    <3> HIDE DEF c
    <3>3. /\ DOMAIN board'.criteria = DOMAIN board.criteria \cup {c}
          /\ board'.criteria[c] = results[c].status
          /\ \A d \in DOMAIN board.criteria \ {c} : board'.criteria[d] = board.criteria[d]
      BY <3>1 DEF With
    <3>4. board.status = "running"
      BY <2>1 DEF Telling
    <3>5. ASSUME NEW d \in DOMAIN results' \ untold'.criteria
          PROVE  d \in DOMAIN board'.criteria /\ board'.criteria[d] = Shown(d)'
      <4>1. CASE d = c
        BY <1>2, <2>1, <3>1, <3>3, <3>4, <4>1
      <4>2. CASE d # c
        BY <1>2, <2>1, <3>1, <3>3, <3>4, <4>2 DEF Telling, Shown
      <4> QED BY <4>1, <4>2
    <3> QED BY <2>1, <2>2, <3>1, <3>2, <3>3, <3>4, <3>5 DEF Telling, Saved
  <2>3. CASE /\ due.type = "artifactAvailable" /\ due.of \in Artifacts
             /\ due.of \in Saved \cap DOMAIN onDisk
             /\ StatusOf(due) = memory[due.of] /\ StatusOf(due) \in ArtifactStates
             /\ board' = RunReducer(due.type, due.of, StatusOf(due))
             /\ untold' = Told(due.type, due.of) /\ ~ finished'
    <3> DEFINE x == due.of
    <3>1. /\ board'.artifacts = With(board.artifacts, x, memory[x])
          /\ board'.criteria = board.criteria /\ board'.status = board.status
          /\ untold'.artifacts = untold.artifacts \ {x} /\ untold'.criteria = untold.criteria
      <4>1. /\ board' = RunReducer("artifactAvailable", x, StatusOf(due))
            /\ untold' = Told("artifactAvailable", x)
            /\ x \in Artifacts /\ StatusOf(due) = memory[x] /\ StatusOf(due) \in ArtifactStates
        BY <2>3
      <4> HIDE DEF x
      <4>2. /\ board'.artifacts = With(board.artifacts, x, StatusOf(due))
            /\ board'.criteria = board.criteria /\ board'.status = board.status
        BY <4>1 DEF RunReducer, TypeOK, Boards
      <4>3. /\ untold'.artifacts = untold.artifacts \ {x}
            /\ untold'.criteria = untold.criteria
        BY <4>1, ToldLaw
      <4> QED BY <4>1, <4>2, <4>3
    <3>2. x \in Saved /\ x \in DOMAIN onDisk /\ onDisk[x] = memory[x]
      BY <2>1, <2>3 DEF Storing
    <3> HIDE DEF x
    <3>3. /\ DOMAIN board'.artifacts = DOMAIN board.artifacts \cup {x}
          /\ board'.artifacts[x] = memory[x]
          /\ \A y \in DOMAIN board.artifacts \ {x} : board'.artifacts[y] = board.artifacts[y]
      BY <3>1 DEF With
    <3>4. \A id \in DOMAIN board'.artifacts :
            /\ id \in Saved /\ id \in DOMAIN onDisk
            /\ board'.artifacts[id] = memory[id] /\ board'.artifacts[id] = onDisk[id]
      BY <3>2, <3>3 DEF Telling
    <3>5. DOMAIN onDisk \subseteq DOMAIN board'.artifacts \cup untold'.artifacts
      BY <2>1, <3>1, <3>3 DEF Telling
    <3> QED BY <2>1, <2>3, <3>1, <3>4, <3>5 DEF Telling, Shown, Saved
  <2>4. CASE board' = board /\ untold' = untold /\ ~ finished'
    BY <2>1, <2>4 DEF Telling, Shown, Saved
  <2> QED BY <2>1, <2>2, <2>3, <2>4, EmitLaw, DueLaw
<1>10. CASE InterruptLine
  <2>1. /\ UNCHANGED <<results, memory, writing, onDisk, result, stage, untold>>
        /\ stage = "attempt" /\ ~ finished /\ due # NoLine /\ AppendFails(due.type)
    BY <1>10 DEF InterruptLine, store, Telling, Control
  <2>2. board' = board /\ ~ finished'
    BY <2>1, AppendLaw, DueLaw
  <2> QED BY <2>1, <2>2 DEF Telling, Shown, Saved
<1>11. CASE RunFinished
  <2>1. /\ UNCHANGED <<results, memory, writing, onDisk, result>>
        /\ stage = "resulted" /\ stage' = "over"
        /\ untold.status /\ board.status = "running" /\ result # NoResult
        /\ Emit("runFinished", Criteria, result.status)
    BY <1>11 DEF RunFinished, store, Telling, Control
  <2>2. result.status \in RunStatuses /\ result.status # "running"
    BY <2>1, ResultLaw DEF RunStatuses
  <2>3. CASE /\ board' = RunReducer("runFinished", Criteria, result.status)
             /\ untold' = Told("runFinished", Criteria)
    <3>1. /\ board'.criteria = [c \in DOMAIN board.criteria |-> Resolved(board.criteria[c])]
          /\ board'.status = result.status /\ board'.artifacts = board.artifacts
          /\ untold'.criteria = untold.criteria /\ untold'.artifacts = untold.artifacts
      BY <2>2, <2>3, ReducerLaw, ToldLaw
    <3>2. ASSUME NEW d \in DOMAIN results' \ untold'.criteria
          PROVE  d \in DOMAIN board'.criteria /\ board'.criteria[d] = Shown(d)'
      BY <1>2, <2>1, <2>2, <3>1 DEF Telling, Shown
    <3> QED BY <2>1, <3>1, <3>2 DEF Telling, Saved
  <2>4. CASE board' = board /\ untold' = untold
    BY <2>1, <2>4 DEF Telling, Shown, Saved
  <2> QED BY <2>1, <2>3, <2>4, EmitLaw
<1>12. CASE Stop
  <2>1. /\ stage # "over" /\ stage' = "over" /\ writing' = "no"
        /\ onDisk' = onDisk \/ (writing # "no" /\ onDisk' = memory)
        /\ UNCHANGED <<memory, results, result, untold>>
        /\ AppendFails(IF stage = "resulted" THEN "runFinished" ELSE due.type)
    BY <1>12 DEF Stop
  <2>2. due.type # "runFinished"
    BY DEF TypeOK, Lines, NoLine
  <2>3. board' = board /\ (finished' => stage = "resulted")
    <3>1. ~ finished
      BY <2>1 DEF Telling
    <3> QED BY <2>1, <2>2, <3>1, AppendLaw
  <2>4. /\ Saved' = DOMAIN memory /\ Saved \subseteq DOMAIN memory
        /\ result # NoResult => writing = "no"
    BY <2>1, SavedLaw DEF Saved, Control
  <2> QED BY <2>1, <2>3, <2>4 DEF Telling, Shown
<1>13. CASE LoadReport \/ UNCHANGED vars
  <2>1. UNCHANGED <<stage, results, memory, writing, onDisk, finished, board, result, untold>>
    BY <1>13 DEF LoadReport, vars, store, journal
  <2> QED BY <2>1 DEF Telling, Shown, Saved
<1> QED BY <1>3, <1>4, <1>5, <1>6, <1>7, <1>8, <1>9, <1>10, <1>11, <1>12, <1>13 DEF Next

\* Nothing is owed to the page but what is about to be told, or what was refused or cut.
LEMMA OwedPreserved ==
  ASSUME TypeOK, Control, Storing, Telling, Owed, [Next]_vars
  PROVE  Owed'
<1> USE DEF past
<1>1. CASE RecordArtifact \/ LoadReport \/ UNCHANGED vars
  BY <1>1 DEF RecordArtifact, LoadReport, vars, Owed
<1>2. CASE CommitInventory
  <2>1. /\ due = NoLine /\ stage = "attempt" /\ UNCHANGED <<stage, refused, cut, result>>
        /\ due' = [type |-> "artifactAvailable", of |-> writing]
        /\ untold'.criteria = untold.criteria
        /\ untold'.artifacts = untold.artifacts \cup {writing}
    BY <1>2 DEF CommitInventory, Control, TypeOK
  <2> QED BY <2>1 DEF Owed, NoLine
<1>3. CASE RefuseInventory
  <2>1. refused' # 0
    BY <1>3 DEF RefuseInventory, TypeOK
  <2> QED BY <2>1 DEF Owed
<1>4. CASE InterruptInventory \/ InterruptLine
  <2>1. cut'
    BY <1>4 DEF InterruptInventory, InterruptLine, CutShort
  <2> QED BY <2>1 DEF Owed
<1>5. CASE FailEarly \/ WriteContract \/ AttemptEnds \/ WriteResult
  <2>1. /\ UNCHANGED <<refused, cut, due>> /\ stage # "over" /\ stage # "frozen"
        /\ untold'.artifacts = untold.artifacts
        /\ untold'.criteria = untold.criteria \/ stage' = "frozen"
    BY <1>5 DEF FailEarly, WriteContract, AttemptEnds, WriteResult, TypeOK
  <2> QED BY <2>1 DEF Owed
<1>6. CASE ContractFrozen
  <2>1. /\ Emit("contractFrozen", Criteria, "none") /\ UNCHANGED <<cut, due, result>>
        /\ stage # "over"
    BY <1>6 DEF ContractFrozen
  <2>2. CASE untold' = Told("contractFrozen", Criteria) /\ refused' = refused
    <3>1. untold'.criteria = {} /\ untold'.artifacts = untold.artifacts
      BY <2>2, ToldLaw
    <3> QED BY <2>1, <2>2, <3>1 DEF Owed
  <2>3. CASE refused' # 0
    BY <2>3 DEF Owed
  <2> QED BY <2>1, <2>2, <2>3, EmitLaw
<1>7. ASSUME NEW c \in Criteria, Verify(c)
      PROVE  Owed'
  <2>1. /\ due = NoLine /\ stage = "attempt" /\ UNCHANGED <<stage, refused, cut, result>>
        /\ due' = [type |-> "verificationFinished", of |-> c]
        /\ untold'.criteria = untold.criteria \cup {c}
        /\ untold'.artifacts = untold.artifacts
    BY <1>7 DEF Verify, TypeOK
  <2> QED BY <2>1 DEF Owed, NoLine
<1>8. CASE TellLine
  <2>1. /\ due # NoLine /\ due' = NoLine /\ Emit(due.type, due.of, StatusOf(due))
        /\ UNCHANGED <<stage, cut, result>> /\ stage = "attempt"
    BY <1>8 DEF TellLine, Control
  <2>2. CASE untold' = Told(due.type, due.of) /\ refused' = refused
    <3>1. CASE due.type = "verificationFinished"
      <4>1. /\ untold'.criteria = untold.criteria \ {due.of}
            /\ untold'.artifacts = untold.artifacts
        BY <2>2, <3>1, ToldLaw
      <4> QED BY <2>1, <2>2, <3>1, <4>1 DEF Owed
    <3>2. CASE due.type = "artifactAvailable"
      <4>1. /\ untold'.artifacts = untold.artifacts \ {due.of}
            /\ untold'.criteria = untold.criteria
        BY <2>2, <3>2, ToldLaw
      <4> QED BY <2>1, <2>2, <3>2, <4>1 DEF Owed
    <3> QED BY <2>1, <3>1, <3>2, DueLaw
  <2>3. CASE refused' # 0
    BY <2>3 DEF Owed
  <2> QED BY <2>1, <2>2, <2>3, EmitLaw
<1>9. CASE RunFinished
  <2>1. /\ Emit("runFinished", Criteria, result.status) /\ UNCHANGED <<cut, due, result>>
        /\ stage = "resulted" /\ stage' = "over"
    BY <1>9 DEF RunFinished
  <2>2. CASE untold' = Told("runFinished", Criteria) /\ refused' = refused
    <3>1. untold'.criteria = untold.criteria /\ untold'.artifacts = untold.artifacts
      BY <2>2, ToldLaw
    <3> QED BY <2>1, <2>2, <3>1 DEF Owed
  <2>3. CASE refused' # 0
    BY <2>3 DEF Owed
  <2> QED BY <2>1, <2>2, <2>3, EmitLaw
<1>10. CASE Stop
  <2>1. /\ stage # "over" /\ stage' = "over" /\ due' = NoLine
        /\ UNCHANGED <<refused, cut, untold, result>>
        /\ result # NoResult => due = NoLine /\ stage # "frozen"
    BY <1>10 DEF Stop, Control
  <2> QED BY <2>1 DEF Owed
<1> QED BY <1>1, <1>2, <1>3, <1>4, <1>5, <1>6, <1>7, <1>8, <1>9, <1>10 DEF Next

\* The empty sequence is the partial function that is defined nowhere.
LEMMA NowhereLaw ==
  ASSUME NEW set, NEW values
  PROVE  <<>> \in [DOMAIN <<>> -> values] /\ DOMAIN <<>> = {} /\ <<>> \in Partial(set, values)
<1>1. <<>> \in Seq(values)
  BY EmptySeq
<1>2. \E n \in Nat : <<>> \in [1..n -> values]
  <2>1. Seq(values) = UNION {[1..n -> values] : n \in Nat}
    BY SeqDef
  <2> QED BY <1>1, <2>1
<1>3. <<>> \in [DOMAIN <<>> -> values]
  BY <1>2
<1>4. DOMAIN <<>> = {}
  OBVIOUS
<1> QED BY <1>3, <1>4, PartialLaw

\* The run begins within the invariant.
LEMMA InitEstablishes == Init => IInv
<1> SUFFICES ASSUME Init PROVE IInv
  OBVIOUS
<1>1. /\ DOMAIN results = {} /\ DOMAIN memory = {} /\ DOMAIN onDisk = {}
      /\ DOMAIN board.criteria = {} /\ DOMAIN board.artifacts = {}
  BY DEF Init, EmptyBoard
<1>2. memory \in States(Artifacts) /\ onDisk \in States(Artifacts)
  BY NowhereLaw DEF Init, States
<1>3. board \in Boards
  <2>1. <<>> \in Partial(Criteria, Statuses) /\ <<>> \in States(Artifacts)
    BY NowhereLaw DEF States
  <2> QED BY <2>1 DEF Init, EmptyBoard, Boards
<1>4. results \in [DOMAIN results -> Results]
  BY NowhereLaw DEF Init
<1>5. TypeOK
  <2>1. /\ refused \in 0..MaxRefusals /\ verified \in 0..MaxVerifications
        /\ untold \in [criteria : SUBSET Criteria, artifacts : SUBSET Artifacts, status : BOOLEAN]
    BY ReportAssumption DEF Init
  <2>2. DOMAIN results \subseteq Criteria
    BY <1>1
  <2> QED BY <1>2, <1>3, <1>4, <2>1, <2>2 DEF Init, TypeOK
<1>6. Control
  BY <1>1 DEF Init, Control
<1>7. Storing /\ Telling /\ Owed
  <2>1. /\ due.type # "artifactAvailable" /\ board.status = "running"
        /\ untold.criteria = {} /\ untold.artifacts = {}
    BY DEF Init, NoLine, EmptyBoard
  <2> QED BY <1>1, <2>1 DEF Init, Storing, Telling, Owed, Saved
<1> QED BY <1>5, <1>6, <1>7 DEF IInv

\* The invariant holds in every reachable state.
LEMMA InvariantHolds == Spec => []IInv
<1>1. IInv /\ [Next]_vars => IInv'
  BY TypesPreserved, ControlPreserved, StoringPreserved, TellingPreserved,
     OwedPreserved DEF IInv
<1> QED BY <1>1, InitEstablishes, PTL DEF Spec

-----------------------------------------------------------------------------
(* What a report is, once there is one.                                     *)

\* What buildReportView makes of a run that has a result.
LEMMA ReportLaw ==
  ASSUME IInv, report # NoReport
  PROVE  /\ DOMAIN report.criteria = DOMAIN results
         /\ \A c \in DOMAIN results : report.criteria[c] = results[c].status
         /\ report.status = Aggregate(cause = "cancelled", cause = "error", results)
         /\ report.artifacts = onDisk /\ (report.finalized <=> finished /\ ~ partial)
         /\ report.dangling = {}
         /\ DOMAIN results \subseteq Criteria
         /\ \A c \in DOMAIN results : results[c].status \in Statuses
<1>1. /\ report = BuildReportView /\ result.criteria = results
      /\ result.status = Aggregate(cause = "cancelled", cause = "error", results)
      /\ DOMAIN results = IF contract THEN Criteria ELSE {}
  BY DEF IInv, Control
<1>2. DOMAIN results \subseteq Criteria /\ \A c \in DOMAIN results : results[c].status \in Statuses
  BY DEF IInv, TypeOK, Results
<1>3. /\ report.status = result.status /\ report.artifacts = onDisk
      /\ (report.finalized <=> finished /\ ~ partial)
      /\ report.dangling = (UNION {result.criteria[c].evidence : c \in DOMAIN result.criteria})
                             \ DOMAIN onDisk
      /\ report.criteria = [c \in IF contract THEN Criteria ELSE {} |->
                              IF Found(c) THEN result.criteria[c].status ELSE "pending"]
  BY <1>1 DEF BuildReportView, Finalized
<1>4. report.dangling = {}
  <2>1. \A c \in DOMAIN results : results[c].evidence \subseteq DOMAIN onDisk
    BY DEF IInv, Storing
  <2>2. \A set \in {results[c].evidence : c \in DOMAIN results} : set \subseteq DOMAIN onDisk
    BY <2>1
  <2>3. UNION {results[c].evidence : c \in DOMAIN results} \subseteq DOMAIN onDisk
    BY <2>2
  <2>4. report.dangling = (UNION {results[c].evidence : c \in DOMAIN results}) \ DOMAIN onDisk
    BY <1>1, <1>3
  <2> QED BY <2>3, <2>4
<1>5. DOMAIN report.criteria = DOMAIN results
  BY <1>1, <1>3
<1>6. \A c \in DOMAIN results : report.criteria[c] = results[c].status
  BY <1>1, <1>3 DEF Found
<1> QED BY <1>1, <1>2, <1>3, <1>4, <1>5, <1>6

\* A count is zero when and only when there is nothing to count.
LEMMA CountLaw ==
  ASSUME NEW view, NEW statuses, DOMAIN view.criteria \subseteq Criteria
  PROVE  /\ Count(view, statuses) \in Nat
         /\ Count(view, statuses) = 0 <=>
              \A c \in DOMAIN view.criteria : view.criteria[c] \notin statuses
<1> DEFINE some == {c \in DOMAIN view.criteria : view.criteria[c] \in statuses}
<1>1. IsFiniteSet(some) /\ some \subseteq DOMAIN view.criteria
  BY ReportAssumption, FS_Subset
<1>2. Cardinality(some) \in Nat /\ (Cardinality(some) = 0 <=> some = {})
  <2> HIDE DEF some
  <2> QED BY <1>1, FS_CardinalityType, FS_EmptySet
<1> QED BY <1>2 DEF Count

-----------------------------------------------------------------------------
(* The theorems.                                                            *)

\* The state of a run's directory and of its readers is typed.
THEOREM ReportTypes == Spec => []TypeOK
<1>1. IInv => TypeOK
  BY DEF IInv
<1> QED BY <1>1, InvariantHolds, PTL

\* No verdict cites an artifact that artifacts.json does not hold, whichever write was
\* refused or cut short, and the store's memory never claims more than the file.
THEOREM CitationsAreOnDisk == Spec => []CitedIsOnDisk
<1>1. IInv => CitedIsOnDisk
  <2> SUFFICES ASSUME IInv PROVE CitedIsOnDisk
    OBVIOUS
  <2>1. report.dangling = {}
    BY ReportLaw DEF NoReport
  <2>2. ASSUME stage = "attempt", writing = "no"
        PROVE  /\ \A id \in DOMAIN memory : id \in DOMAIN onDisk /\ onDisk[id] = memory[id]
               /\ cut \/ memory = onDisk
    <3>1. Saved = DOMAIN memory
      BY <2>2, SavedLaw DEF IInv
    <3>2. \A id \in DOMAIN memory : id \in DOMAIN onDisk /\ onDisk[id] = memory[id]
      BY <2>2, <3>1 DEF IInv, Storing
    <3>3. ~ cut => DOMAIN onDisk = DOMAIN memory
      BY <2>2, <3>1, <3>2 DEF IInv, Storing
    <3>4. /\ memory \in [DOMAIN memory -> ArtifactStates]
          /\ onDisk \in [DOMAIN onDisk -> ArtifactStates]
      BY PartialLaw DEF IInv, TypeOK, States
    <3> QED BY <3>2, <3>3, <3>4
  <2> QED BY <2>1, <2>2 DEF CitedIsOnDisk
<1> QED BY <1>1, InvariantHolds, PTL

\* The board folded live and the report rebuilt from the files agree on a run whose last line
\* was published, but for what a line that was refused or cut should have told.
THEOREM ReadersAgree == Spec => []BoardMatchesReport
<1>1. IInv => BoardMatchesReport
  <2> SUFFICES ASSUME IInv, report # NoReport, report.finalized, ~ untold.status
               PROVE  /\ board.status = report.status
                      /\ DOMAIN board.criteria \subseteq DOMAIN report.criteria
                      /\ \A c \in DOMAIN report.criteria \ untold.criteria :
                           /\ c \in DOMAIN board.criteria
                           /\ board.criteria[c] = Resolved(report.criteria[c])
                      /\ \A id \in DOMAIN board.artifacts :
                           /\ id \in DOMAIN report.artifacts
                           /\ board.artifacts[id] = report.artifacts[id]
                      /\ DOMAIN report.artifacts
                           \subseteq DOMAIN board.artifacts \cup untold.artifacts
                      /\ refused # 0 \/ cut \/ untold.criteria \cup untold.artifacts = {}
    BY DEF BoardMatchesReport
  <2>1. finished /\ report.artifacts = onDisk
    BY ReportLaw
  <2>2. stage = "over" /\ result # NoResult
    BY DEF IInv, Control
  <2>3. board.status = report.status /\ board.status # "running"
    <3>1. board.status = result.status
      BY <2>1 DEF IInv, Telling
    <3>2. result.status \in RunStatuses
      BY <2>2, ResultLaw DEF IInv
    <3>3. report.status = result.status
      BY ReportLaw DEF IInv, Control
    <3> QED BY <3>1, <3>2, <3>3 DEF RunStatuses
  <2>4. /\ DOMAIN board.criteria \subseteq DOMAIN results
        /\ \A c \in DOMAIN results \ untold.criteria :
             c \in DOMAIN board.criteria /\ board.criteria[c] = Resolved(results[c].status)
    BY <2>3 DEF IInv, Telling, Shown
  <2>5. \A id \in DOMAIN board.artifacts : id \in DOMAIN onDisk /\ board.artifacts[id] = onDisk[id]
    BY DEF IInv, Telling
  <2>6. DOMAIN onDisk \subseteq DOMAIN board.artifacts \cup untold.artifacts
    BY <2>2 DEF IInv, Telling
  <2>7. refused # 0 \/ cut \/ untold.criteria \cup untold.artifacts = {}
    <3>1. due.type \notin {"verificationFinished", "artifactAvailable"}
      BY <2>2 DEF IInv, Control, NoLine
    <3> QED BY <2>2, <3>1 DEF IInv, Owed
  <2> QED BY <2>1, <2>3, <2>4, <2>5, <2>6, <2>7, ReportLaw
<1> QED BY <1>1, InvariantHolds, PTL

\* A green JUnit file means a passed run and a passed run a green file; and whatever is not
\* green says why, by a failed criterion or by a diagnostic.
THEOREM GreenIsPassed == Spec => []GreenMeansPassed
<1>1. IInv => GreenMeansPassed
  <2> SUFFICES ASSUME IInv, report # NoReport
               PROVE  /\ JUnit(report).failures + JUnit(report).errors = 0
                           <=> report.status = "passed"
                      /\ \/ report.status = "passed" \/ JUnit(report).failures # 0
                         \/ Diagnostics(report) # {}
    BY DEF GreenMeansPassed
  <2> DEFINE run    == IF RunLevelCase(report) THEN 1 ELSE 0
             failed == Count(report, {"failed"})
             unsure == Count(report, {"inconclusive", "pending", "error"})
  <2>1. /\ DOMAIN report.criteria = DOMAIN results /\ DOMAIN results \subseteq Criteria
        /\ \A c \in DOMAIN results : report.criteria[c] = results[c].status
        /\ \A c \in DOMAIN results : results[c].status \in Statuses
        /\ report.status = Aggregate(cause = "cancelled", cause = "error", results)
    BY ReportLaw
  <2>2. /\ report.status \in RunStatuses
        /\ report.status = "passed" <=>
             /\ cause # "cancelled" /\ cause # "error" /\ DOMAIN results # {}
             /\ \A c \in DOMAIN results : results[c].status = "passed"
        /\ report.status = "failed" => \E c \in DOMAIN results : results[c].status = "failed"
    <3> DEFINE cancelled == cause = "cancelled"
               broken    == cause = "error"
    <3>1. /\ report.status = Aggregate(cancelled, broken, results)
          /\ cancelled \in BOOLEAN /\ broken \in BOOLEAN
          /\ \A c \in DOMAIN results : results[c].status \in Statuses
      BY <2>1
    <3> HIDE DEF cancelled, broken
    <3>2. /\ report.status \in RunStatuses
          /\ report.status = "passed" <=>
               /\ ~ cancelled /\ ~ broken /\ DOMAIN results # {}
               /\ \A c \in DOMAIN results : results[c].status = "passed"
          /\ report.status = "failed" => \E c \in DOMAIN results : results[c].status = "failed"
      BY <3>1, AggregateLaw
    <3> QED BY <3>2 DEF cancelled, broken
  <2>3. /\ failed \in Nat /\ unsure \in Nat /\ run \in {0, 1}
        /\ failed = 0 <=> \A c \in DOMAIN results : results[c].status # "failed"
        /\ unsure = 0 <=> \A c \in DOMAIN results :
                            results[c].status \notin {"inconclusive", "pending", "error"}
    BY <2>1, CountLaw
  <2>4. JUnit(report).failures = failed /\ JUnit(report).errors = unsure + run
    BY DEF JUnit
  <2>5. run = 0 <=> report.status \notin {"error", "cancelled"} /\ DOMAIN results # {}
    <3>1. DOMAIN report.criteria = DOMAIN results
      BY <2>1
    <3>2. run = 0 <=> ~ RunLevelCase(report)
      OBVIOUS
    <3> QED BY <3>1, <3>2 DEF RunLevelCase
  <2> HIDE DEF run, failed, unsure
  <2>6. JUnit(report).failures + JUnit(report).errors = 0 <=> failed = 0 /\ unsure = 0 /\ run = 0
    BY <2>3, <2>4
  <2>7. failed = 0 /\ unsure = 0 => \A c \in DOMAIN results : results[c].status = "passed"
    BY <2>1, <2>3 DEF Statuses
  <2>8. (cause = "cancelled" => report.status = "cancelled")
        /\ (cause = "error" => report.status = "error")
    BY <2>1 DEF Aggregate
  <2>9. failed = 0 /\ unsure = 0 /\ run = 0 <=> report.status = "passed"
    BY <2>2, <2>3, <2>5, <2>7, <2>8
  <2>10. report.status \in {"error", "cancelled", "inconclusive"} =>
           "status" \in Diagnostics(report)
    BY DEF Diagnostics
  <2>11. report.status = "failed" => JUnit(report).failures # 0
    BY <2>2, <2>3, <2>4
  <2> QED BY <2>2, <2>6, <2>9, <2>10, <2>11 DEF RunStatuses
<1> QED BY <1>1, InvariantHolds, PTL
=============================================================================
