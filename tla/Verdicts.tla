------------------------------ MODULE Verdicts ------------------------------
(***************************************************************************)
(* What an attempt promises about its verdicts, whoever asks for them and  *)
(* in whatever order: the criteria's recorded results, the inventory the   *)
(* evidence rules read, and one step per evaluation that reaches the law   *)
(* (runner.ts, verifyCriterion).  The evaluator is untrusted: it may cite  *)
(* artifacts that do not exist, claim an absence it could not observe, or  *)
(* be asked again and again by the browsing agent; the page moves under    *)
(* it.  Module Attempt says when the runner really takes these steps, and  *)
(* implements this module.                                                 *)
(***************************************************************************)
EXTENDS Adjudication

VARIABLES
  results,    \* criterion -> recorded result
  inventory,  \* artifacts of this attempt present in artifacts.json
  unsaved,    \* criteria whose last evaluation lost its mandatory evidence
  page        \* what the dispatcher knows of the page: observed, settled

vars == <<results, inventory, unsaved, page>>

PageStates == [observed : BOOLEAN, settled : BOOLEAN]

\* What an evaluator, its screening or a code check can hand to the law.
Proposals ==
  [status : Statuses \ {"pending"}, evidence : SUBSET Artifacts, absence : AbsenceClaims,
   downgrades : SUBSET {"rejected-evidence", "absence-uncertain-navigation"},
   reChecks : {{}}]

TypeOK ==
  /\ results \in [Criteria -> Results]
  /\ inventory \in SUBSET Artifacts
  /\ unsaved \in SUBSET Criteria
  /\ page \in PageStates

Init ==
  /\ results = [c \in Criteria |-> PendingResult]
  /\ inventory = {}
  /\ unsaved = {}
  /\ page = [observed |-> FALSE, settled |-> FALSE]

\* Between two evaluations: the page is navigated, acted on or observed, the store
\* records artifacts.  Nothing ever removes one.
Browse(saved) ==
  /\ page' \in PageStates
  /\ inventory' = inventory \cup saved
  /\ UNCHANGED <<results, unsaved>>

\* The facts the law is given about the page, whatever the evaluator claims of it.
AbsenceFacts == [navigationSettled |-> page.settled, checkpointReached |-> page.observed]

\* One evaluation reaches the law, with the inventory and the page of that moment.
Record(c, proposed, lost) ==
  /\ unsaved' = IF lost THEN unsaved \cup {c} ELSE unsaved \ {c}
  /\ UNCHANGED <<inventory, page>>
  /\ results' = [results EXCEPT ![c] = Adjudicate(proposed, @, inventory, AbsenceFacts, lost)]

\* The agent may have any criterion judged at any time, as often as it likes.
Evaluate(c) ==
  \E lost \in BOOLEAN, proposed \in Proposals : Record(c, proposed, lost)

Next ==
  \/ \E saved \in SUBSET Artifacts : Browse(saved)
  \/ \E c \in Criteria : Evaluate(c)

Spec == Init /\ [][Next]_vars

-----------------------------------------------------------------------------
(* Properties *)

\* A criterion is `passed` only on evidence, and on evidence that is in the
\* inventory; no verdict at all cites an artifact the inventory does not hold
\* (the false green of an invented or unsaved proof).
VerdictsAreProven ==
  \A c \in Criteria :
    /\ results[c].evidence \subseteq inventory
    /\ results[c].status = "passed" => results[c].evidence # {}

\* A criterion whose last evaluation lost its mandatory evidence is not `passed`,
\* even if an earlier evaluation had passed it on evidence that was saved.
NoPassOnLostEvidence ==
  \A c \in unsaved : results[c].status # "passed"

\* The red of an absence is only ever given on a page that was looked at: when a
\* criterion becomes `failed` by something its evaluator did not find, the dispatcher
\* knows, at that very moment, of a settled navigation and of an observation taken
\* since, whatever the evaluator claimed and whatever earlier evaluations saw.
AbsenceNeedsALook ==
  \A c \in Criteria :
    results'[c].status = "failed" /\ results'[c].absence # "none" =>
      results[c].status = "failed" \/ (page.settled /\ page.observed)

FailuresAreSeen == [][AbsenceNeedsALook]_vars

\* Asking again never improves a decision: a `failed` criterion keeps its verdict,
\* its evidence and its history for good, and a `passed` one keeps them or gets
\* strictly worse.
DecisionsOnlyWorsen ==
  \A c \in Criteria :
    LET old == results[c]
        new == results'[c]
        Kept == new = [old EXCEPT !.reChecks = new.reChecks]
    IN  IsTerminal(old.status) =>
          /\ old.reChecks \subseteq new.reChecks
          /\ Kept \/ (old.status = "passed" /\ Severity[new.status] > Severity["passed"])

AskingAgainNeverUpgrades == [][DecisionsOnlyWorsen]_vars
=============================================================================
