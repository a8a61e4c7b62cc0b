---------------------------- MODULE Adjudication ----------------------------
(***************************************************************************)
(* The law of packages/core/src/policy: what happens between an            *)
(* evaluator's answer about a criterion and the verdict the harness        *)
(* records, and how the recorded verdicts become the status of the run.    *)
(* Everything here is a pure operator, as it is in the source.             *)
(*                                                                         *)
(* A criterion result keeps what the rules read and write: its status, the *)
(* artifacts it cites, its absence claim, the downgrades imposed on it and *)
(* the later evaluations (reChecks) attached to it.  The wording of        *)
(* observations, limitations and notes is left out; a list whose order no  *)
(* rule reads (evidence, downgrades, reChecks) is a set.                   *)
(***************************************************************************)
EXTENDS Integers

CONSTANTS Criteria,   \* the frozen contract's criteria
          Artifacts   \* artifact ids an evaluator can cite, minted or invented

Statuses == {"pending", "passed", "inconclusive", "error", "failed"}

AbsenceClaims == {"none", "established-at-checkpoint", "uncertain-navigation"}

DowngradeReasons ==
  {"rejected-evidence", "absence-uncertain-navigation", "evidence-persistence-failed"}

ReChecks == [status : Statuses, applied : BOOLEAN]

Results == [status : Statuses, evidence : SUBSET Artifacts, absence : AbsenceClaims,
            downgrades : SUBSET DowngradeReasons, reChecks : SUBSET ReChecks]

Facts == [navigationSettled : BOOLEAN, checkpointReached : BOOLEAN]

PendingResult ==
  [status |-> "pending", evidence |-> {}, absence |-> "none",
   downgrades |-> {}, reChecks |-> {}]

\* A fresh answer, as an evaluator or a code check builds it on pendingResult.
Answer(status, evidence, absence) ==
  [status |-> status, evidence |-> evidence, absence |-> absence,
   downgrades |-> {}, reChecks |-> {}]

-----------------------------------------------------------------------------
(* Rule 1: every cited artifact exists in this attempt's inventory.         *)

RecordDowngrade(result, reason) ==
  [result EXCEPT !.status = "inconclusive", !.downgrades = @ \cup {reason}]

\* A plausible slip: only the invented references are looked at, and a `passed`
\* that cites nothing goes through.
IntegrityWithoutEmptyRule(result, known) ==
  IF result.evidence \subseteq known
  THEN result
  ELSE RecordDowngrade([result EXCEPT !.evidence = @ \cap known], "rejected-evidence")

EnforceEvidenceIntegrity(result, known) ==
  IF ~ (result.evidence \subseteq known)
  THEN RecordDowngrade([result EXCEPT !.evidence = @ \cap known], "rejected-evidence")
  ELSE IF result.status = "passed" /\ result.evidence = {}
       THEN RecordDowngrade(result, "rejected-evidence")
       ELSE result

-----------------------------------------------------------------------------
(* Rule 2: a missing element proves a failure only on a settled page that   *)
(* was observed; the evaluator's own claim of uncertainty is final.         *)

ClassifyAbsence(facts) ==
  IF facts.navigationSettled /\ facts.checkpointReached
  THEN "established-at-checkpoint"
  ELSE "uncertain-navigation"

NoFacts == [navigationSettled |-> FALSE, checkpointReached |-> FALSE]

\* A plausible slip: the claim is taken as the decision.
AbsenceAsClaimed(result, facts) == result

EnforceAbsenceRule(result, facts) ==
  IF result.absence = "none"
  THEN result
  ELSE LET branch == ClassifyAbsence(IF result.absence = "uncertain-navigation"
                                     THEN NoFacts ELSE facts)
           derived == [result EXCEPT !.absence = branch]
       IN  IF branch = "uncertain-navigation" /\ derived.status = "failed"
           THEN RecordDowngrade(derived, "absence-uncertain-navigation")
           ELSE derived

-----------------------------------------------------------------------------
(* Rule 3: mandatory evidence that could not be saved forbids `passed`.     *)

PersistenceIgnored(result, lost) == result

EnforceEvidencePersistence(result, lost) ==
  IF lost /\ result.status = "passed"
  THEN RecordDowngrade(result, "evidence-persistence-failed")
  ELSE result

-----------------------------------------------------------------------------
(* Rule 4: a terminal verdict is only ever made worse by asking again.      *)

Severity ==
  [pending |-> -1, passed |-> 0, inconclusive |-> 1, error |-> 2, failed |-> 3]

IsTerminal(status) == status \in {"passed", "failed"}

\* A plausible slip: the last answer wins.
LastAnswerWins(current, incoming) == incoming

AdmitVerdict(current, incoming) ==
  IF ~ IsTerminal(current.status)
  THEN incoming
  ELSE LET worse   == Severity[incoming.status] > Severity[current.status]
           history == current.reChecks \cup {[status |-> incoming.status, applied |-> worse]}
       IN  IF worse
           THEN [incoming EXCEPT !.reChecks = history,
                                 !.downgrades = current.downgrades \cup @]
           ELSE [current EXCEPT !.reChecks = history]

-----------------------------------------------------------------------------
(* The two application points of the law.                                   *)

Adjudicate(proposed, current, known, facts, lost) ==
  LET checked   == EnforceEvidenceIntegrity(proposed, known)
      absence   == EnforceAbsenceRule(checked, facts)
      persisted == EnforceEvidencePersistence(absence, lost)
  IN  AdmitVerdict(current, persisted)

\* The verifier's own first pass, over the evidence it was handed.
ScreenProposal(proposed, known) ==
  LET checked == EnforceEvidenceIntegrity(proposed, known)
  IN  IF checked.absence = "uncertain-navigation"
      THEN EnforceAbsenceRule(checked, NoFacts)
      ELSE checked

-----------------------------------------------------------------------------
(* The aggregate, in its exact order.                                       *)

RunStatuses == {"cancelled", "error", "failed", "inconclusive", "passed"}

\* `criteria` maps the evaluated criteria to their results; it is empty when the
\* run ended before the contract existed.
Aggregate(cancelled, executionError, criteria) ==
  LET with(statuses) == \E c \in DOMAIN criteria : criteria[c].status \in statuses
  IN  IF cancelled THEN "cancelled"
      ELSE IF executionError THEN "error"
      ELSE IF with({"failed"}) THEN "failed"
      ELSE IF DOMAIN criteria = {} \/ with({"pending", "inconclusive", "error"})
           THEN "inconclusive"
      ELSE "passed"
=============================================================================
