----------------------------- MODULE LawProofs ------------------------------
(***************************************************************************)
(* The two laws an attempt obeys, each proved alone: what module Verdicts  *)
(* promises for every set of criteria and of artifacts, and what module    *)
(* BudgetLedger promises for every configuration the schema admits and     *)
(* every cost of a call.  Module AttemptProofs shows that an attempt       *)
(* implements both.                                                        *)
(*                                                                         *)
(* Verdicts: each rule of the law gets a lemma on what it returns; the     *)
(* lemma on Adjudicate chains them; the invariants follow from it, because *)
(* the inventory only grows and a step rewrites one criterion.             *)
(*                                                                         *)
(* Budgets: SpendBounded is not inductive.  The gate's conditions have to  *)
(* be carried from the start of a call to its charge, and the browsing     *)
(* loop's own share bounded apart from the verifier's; Margins states both.*)
(***************************************************************************)
EXTENDS Verdicts, BudgetLedger, TLAPS

-----------------------------------------------------------------------------
(* The rules, one by one.                                                   *)

LEMMA DowngradeTyped ==
  ASSUME NEW r \in Results, NEW reason \in DowngradeReasons
  PROVE  /\ RecordDowngrade(r, reason) \in Results
         /\ RecordDowngrade(r, reason).status = "inconclusive"
         /\ RecordDowngrade(r, reason).evidence = r.evidence
         /\ RecordDowngrade(r, reason).absence = r.absence
BY DEF RecordDowngrade, Results, Statuses

\* Rule 1 leaves only known evidence, and a `passed` that cites some.
LEMMA IntegrityLaw ==
  ASSUME NEW r \in Results, NEW known \in SUBSET Artifacts
  PROVE  LET out == EnforceEvidenceIntegrity(r, known)
         IN  /\ out \in Results
             /\ out.evidence \subseteq known
             /\ out.status = "passed" => out.evidence # {}
             /\ out.status = "pending" => r.status = "pending"
<1> DEFINE trimmed == [r EXCEPT !.evidence = @ \cap known]
<1>1. trimmed \in Results /\ trimmed.evidence \subseteq known
  BY DEF Results
<1>2. "rejected-evidence" \in DowngradeReasons
  BY DEF DowngradeReasons
<1>3. CASE ~ (r.evidence \subseteq known)
  BY <1>1, <1>2, <1>3, DowngradeTyped DEF EnforceEvidenceIntegrity
<1>4. CASE r.evidence \subseteq known
  BY <1>2, <1>4, DowngradeTyped DEF EnforceEvidenceIntegrity
<1> QED BY <1>3, <1>4

\* A failure that rests on an absence was decided on a page known to be settled and observed.
Seen(r, facts) ==
  r.status = "failed" /\ r.absence # "none" => facts.navigationSettled /\ facts.checkpointReached

\* Rule 2 leaves the evidence alone and no failure on an absence the page facts do not
\* support; it never makes a `passed`.
LEMMA AbsenceLaw ==
  ASSUME NEW r \in Results, NEW facts \in Facts
  PROVE  LET out == EnforceAbsenceRule(r, facts)
         IN  /\ out \in Results
             /\ out.evidence = r.evidence
             /\ out.status \in {"passed", "pending"} => out.status = r.status
             /\ Seen(out, facts)
<1> DEFINE branch  == ClassifyAbsence(IF r.absence = "uncertain-navigation"
                                      THEN NoFacts ELSE facts)
           derived == [r EXCEPT !.absence = branch]
<1>1. /\ branch \in {"established-at-checkpoint", "uncertain-navigation"}
      /\ branch = "established-at-checkpoint" =>
           facts.navigationSettled /\ facts.checkpointReached
  BY DEF ClassifyAbsence, NoFacts
<1>2. /\ derived \in Results /\ derived.evidence = r.evidence
      /\ derived.status = r.status /\ derived.absence = branch
  BY <1>1 DEF Results, AbsenceClaims
<1>3. CASE r.absence = "none"
  BY <1>3 DEF EnforceAbsenceRule, Seen
<1>4. CASE r.absence # "none"
  <2>1. EnforceAbsenceRule(r, facts) =
          IF branch = "uncertain-navigation" /\ derived.status = "failed"
          THEN RecordDowngrade(derived, "absence-uncertain-navigation")
          ELSE derived
    BY <1>4 DEF EnforceAbsenceRule
  <2>2. "absence-uncertain-navigation" \in DowngradeReasons
    BY DEF DowngradeReasons
  <2>. HIDE DEF branch, derived
  <2> QED BY <1>1, <1>2, <2>1, <2>2, DowngradeTyped DEF Seen
<1> QED BY <1>3, <1>4

\* Rule 3 only ever takes a `passed` away, and always does when evidence was lost.
LEMMA PersistenceLaw ==
  ASSUME NEW r \in Results, NEW lost \in BOOLEAN
  PROVE  LET out == EnforceEvidencePersistence(r, lost)
         IN  /\ out \in Results
             /\ out.evidence = r.evidence
             /\ out.absence = r.absence
             /\ out.status = "passed" => r.status = "passed" /\ ~ lost
             /\ out.status \in {"failed", "pending"} => out.status = r.status
<1>1. "evidence-persistence-failed" \in DowngradeReasons
  BY DEF DowngradeReasons
<1> QED BY <1>1, DowngradeTyped DEF EnforceEvidencePersistence

\* Rule 4 keeps a decision, with a longer history, or replaces it by a worse answer.
LEMMA AdmissionLaw ==
  ASSUME NEW old \in Results, NEW new \in Results, new.status # "pending"
  PROVE  LET out == AdmitVerdict(old, new)
         IN  /\ out \in Results
             /\ \/ /\ out.status = new.status
                   /\ out.evidence = new.evidence
                   /\ out.absence = new.absence
                \/ /\ IsTerminal(old.status)
                   /\ out = [old EXCEPT !.reChecks = out.reChecks]
             /\ IsTerminal(old.status) => old.reChecks \subseteq out.reChecks
             /\ IsTerminal(old.status) /\ out # [old EXCEPT !.reChecks = out.reChecks]
                  => old.status = "passed" /\ Severity[out.status] > Severity["passed"]
             /\ old.status = "passed" /\ out.status = "passed" => new.status = "passed"
<1> DEFINE worse   == Severity[new.status] > Severity[old.status]
           history == old.reChecks \cup {[status |-> new.status, applied |-> worse]}
<1>1. history \in SUBSET ReChecks /\ old.reChecks \subseteq history
  <2>1. \A s \in Statuses : Severity[s] \in Int
    BY DEF Severity, Statuses
  <2>2. worse \in BOOLEAN
    BY <2>1 DEF Results
  <2> HIDE DEF worse
  <2> QED BY <2>2 DEF Results, ReChecks
<1>2. CASE ~ IsTerminal(old.status)
  BY <1>2 DEF AdmitVerdict, IsTerminal
<1>3. CASE IsTerminal(old.status) /\ worse
  <2>1. AdmitVerdict(old, new) =
          [new EXCEPT !.reChecks = history, !.downgrades = old.downgrades \cup @]
    BY <1>3 DEF AdmitVerdict
  <2>2. old.status = "passed" /\ Severity[new.status] > Severity["passed"]
    BY <1>3 DEF IsTerminal, Severity, Results, Statuses
  <2>3. new.status # "passed"
    BY <2>2 DEF Severity
  <2> HIDE DEF history
  <2> QED BY <1>1, <2>1, <2>2, <2>3 DEF Results
<1>4. CASE IsTerminal(old.status) /\ ~ worse
  <2>1. AdmitVerdict(old, new) = [old EXCEPT !.reChecks = history]
    BY <1>4 DEF AdmitVerdict
  <2>2. ASSUME old.status = "passed" PROVE new.status = "passed"
    BY <1>4, <2>2 DEF Severity, Results, Statuses
  <2> HIDE DEF history
  <2> QED BY <1>1, <1>4, <2>1, <2>2 DEF Results
<1> QED BY <1>2, <1>3, <1>4

\* What is recorded is either a screened answer or the decision that was already
\* there, with a longer history.
Lawful(out, old, known, facts, lost) ==
  LET Kept == out = [old EXCEPT !.reChecks = out.reChecks]
  IN  /\ out \in Results
      /\ \/ /\ out.evidence \subseteq known
            /\ out.status = "passed" => out.evidence # {}
            /\ Seen(out, facts)
         \/ IsTerminal(old.status) /\ Kept
      /\ lost => out.status # "passed"
      /\ IsTerminal(old.status) =>
           /\ old.reChecks \subseteq out.reChecks
           /\ Kept \/ (old.status = "passed" /\ Severity[out.status] > Severity["passed"])

\* The law as a whole, from the lemmas on its four rules in their order.
LEMMA AdjudicationLaw ==
  ASSUME NEW proposed \in Results, proposed.status # "pending", NEW old \in Results,
         NEW known \in SUBSET Artifacts, NEW facts \in Facts, NEW lost \in BOOLEAN
  PROVE  Lawful(Adjudicate(proposed, old, known, facts, lost), old, known, facts, lost)
<1> DEFINE checked   == EnforceEvidenceIntegrity(proposed, known)
           absence   == EnforceAbsenceRule(checked, facts)
           persisted == EnforceEvidencePersistence(absence, lost)
           out       == AdmitVerdict(old, persisted)
<1>1. /\ checked \in Results /\ checked.evidence \subseteq known
      /\ checked.status = "passed" => checked.evidence # {}
      /\ checked.status # "pending"
  BY IntegrityLaw
<1>2. /\ absence \in Results /\ absence.evidence = checked.evidence
      /\ absence.status \in {"passed", "pending"} => absence.status = checked.status
      /\ Seen(absence, facts)
  <2> HIDE DEF checked
  <2> QED BY <1>1, AbsenceLaw
<1>3. /\ persisted \in Results /\ persisted.evidence = absence.evidence
      /\ persisted.absence = absence.absence
      /\ persisted.status = "passed" => absence.status = "passed" /\ ~ lost
      /\ persisted.status \in {"failed", "pending"} => persisted.status = absence.status
  <2> HIDE DEF absence
  <2> QED BY <1>2, PersistenceLaw
<1>4. persisted.status # "pending"
  <2> HIDE DEF checked, absence, persisted
  <2> QED BY <1>1, <1>2, <1>3
<1>5. /\ out \in Results
      /\ \/ /\ out.status = persisted.status /\ out.evidence = persisted.evidence
            /\ out.absence = persisted.absence
         \/ IsTerminal(old.status) /\ out = [old EXCEPT !.reChecks = out.reChecks]
      /\ IsTerminal(old.status) => old.reChecks \subseteq out.reChecks
      /\ IsTerminal(old.status) /\ out # [old EXCEPT !.reChecks = out.reChecks]
           => old.status = "passed" /\ Severity[out.status] > Severity["passed"]
      /\ old.status = "passed" /\ out.status = "passed" => persisted.status = "passed"
  <2> HIDE DEF persisted
  <2> QED BY <1>3, <1>4, AdmissionLaw
<1>6. Adjudicate(proposed, old, known, facts, lost) = out
  BY DEF Adjudicate
<1>7. lost => out.status # "passed"
  <2> HIDE DEF checked, absence, persisted, out
  <2> QED BY <1>3, <1>5 DEF IsTerminal, Results
<1> HIDE DEF checked, absence, persisted, out
<1>8. out.status = persisted.status /\ out.absence = persisted.absence => Seen(out, facts)
  BY <1>2, <1>3 DEF Seen
<1> QED BY <1>1, <1>2, <1>3, <1>5, <1>6, <1>7, <1>8 DEF Lawful

-----------------------------------------------------------------------------
(* The state machine.                                                       *)

\* The two invariants together are inductive once the types are: nothing has to
\* be strengthened, because an inventory never shrinks.
IInv ==
  /\ TypeOK
  /\ VerdictsAreProven
  /\ NoPassOnLostEvidence

LEMMA FactsTyped ==
  ASSUME TypeOK
  PROVE  AbsenceFacts \in Facts
BY DEF TypeOK, PageStates, AbsenceFacts, Facts

LEMMA ProposalsTyped ==
  ASSUME NEW p \in Proposals
  PROVE  p \in Results /\ p.status # "pending"
BY DEF Proposals, Results, DowngradeReasons

LEMMA InitEstablishes == Init => IInv
BY DEF Init, IInv, TypeOK, VerdictsAreProven, NoPassOnLostEvidence, PageStates, PendingResult,
       Results, Statuses, AbsenceClaims

\* What one evaluation of c does to the criterion it is about.
LEMMA RecordLaw ==
  ASSUME IInv, NEW c \in Criteria, NEW proposed \in Proposals, NEW lost \in BOOLEAN,
         Record(c, proposed, lost)
  PROVE  /\ IInv'
         /\ DecisionsOnlyWorsen
         /\ AbsenceNeedsALook
<1> DEFINE out == Adjudicate(proposed, results[c], inventory, AbsenceFacts, lost)
<1>1. results[c] \in Results /\ inventory \in SUBSET Artifacts /\ AbsenceFacts \in Facts
  BY FactsTyped DEF IInv, TypeOK
<1>2. /\ results' = [results EXCEPT ![c] = out] /\ inventory' = inventory /\ page' = page
      /\ unsaved' = IF lost THEN unsaved \cup {c} ELSE unsaved \ {c}
  BY DEF Record
<1>3. /\ out \in Results
      /\ \/ /\ out.evidence \subseteq inventory
            /\ out.status = "passed" => out.evidence # {}
            /\ Seen(out, AbsenceFacts)
         \/ /\ IsTerminal(results[c].status)
            /\ out = [results[c] EXCEPT !.reChecks = out.reChecks]
      /\ lost => out.status # "passed"
      /\ IsTerminal(results[c].status) =>
           /\ results[c].reChecks \subseteq out.reChecks
           /\ \/ out = [results[c] EXCEPT !.reChecks = out.reChecks]
              \/ /\ results[c].status = "passed"
                 /\ Severity[out.status] > Severity["passed"]
  <2>1. proposed \in Results /\ proposed.status # "pending"
    BY ProposalsTyped
  <2>2. Lawful(out, results[c], inventory, AbsenceFacts, lost)
    BY <1>1, <2>1, AdjudicationLaw
  <2> QED BY <1>1, <2>1, <2>2 DEF Lawful
<1> HIDE DEF out
<1>4. TypeOK'
  BY <1>2, <1>3 DEF IInv, TypeOK
<1>5. /\ out.evidence \subseteq inventory
      /\ out.status = "passed" => out.evidence # {}
  BY <1>1, <1>3 DEF IInv, VerdictsAreProven, Results
<1>6. \A d \in Criteria : results'[d] = IF d = c THEN out ELSE results[d]
  BY <1>2 DEF IInv, TypeOK
<1>7. VerdictsAreProven'
  BY <1>2, <1>5, <1>6 DEF IInv, VerdictsAreProven
<1>8. NoPassOnLostEvidence'
  BY <1>2, <1>3, <1>6 DEF IInv, TypeOK, NoPassOnLostEvidence
<1>9. DecisionsOnlyWorsen
  <2> SUFFICES ASSUME NEW d \in Criteria, IsTerminal(results[d].status)
               PROVE  /\ results[d].reChecks \subseteq results'[d].reChecks
                      /\ \/ results'[d] = [results[d] EXCEPT !.reChecks = results'[d].reChecks]
                         \/ /\ results[d].status = "passed"
                            /\ Severity[results'[d].status] > Severity["passed"]
    BY DEF DecisionsOnlyWorsen
  <2>1. CASE d = c
    BY <1>3, <1>6, <2>1
  <2>2. CASE d # c
    <3>1. results'[d] = results[d] /\ results[d] \in Results
      BY <1>6, <2>2 DEF IInv, TypeOK
    <3> QED BY <3>1 DEF Results
  <2> QED BY <2>1, <2>2
<1>10. AbsenceNeedsALook
  <2> SUFFICES ASSUME NEW d \in Criteria, results'[d].status = "failed",
                      results'[d].absence # "none", results[d].status # "failed"
               PROVE  page.settled /\ page.observed
    BY DEF AbsenceNeedsALook
  <2>1. d = c /\ results'[d] = out
    BY <1>6
  <2>2. out # [results[c] EXCEPT !.reChecks = out.reChecks]
    BY <1>1, <2>1 DEF Results
  <2>3. Seen(out, AbsenceFacts)
    BY <1>3, <2>2
  <2> QED BY <2>1, <2>3 DEF Seen, AbsenceFacts
<1> QED BY <1>4, <1>7, <1>8, <1>9, <1>10 DEF IInv

LEMMA StepPreserves ==
  ASSUME IInv, [Next]_vars
  PROVE  IInv' /\ (UNCHANGED vars \/ (DecisionsOnlyWorsen /\ AbsenceNeedsALook))
<1>1. CASE UNCHANGED vars
  BY <1>1 DEF vars, IInv, TypeOK, VerdictsAreProven, NoPassOnLostEvidence
<1>2. ASSUME NEW saved \in SUBSET Artifacts, Browse(saved)
      PROVE  IInv' /\ DecisionsOnlyWorsen /\ AbsenceNeedsALook
  <2>1. TypeOK' /\ VerdictsAreProven' /\ NoPassOnLostEvidence'
    BY <1>2 DEF Browse, IInv, TypeOK, VerdictsAreProven, NoPassOnLostEvidence
  <2>2. \A c \in Criteria : results'[c] = results[c] /\ results[c] \in Results
    BY <1>2 DEF Browse, IInv, TypeOK
  <2>3. DecisionsOnlyWorsen /\ AbsenceNeedsALook
    BY <2>2 DEF DecisionsOnlyWorsen, AbsenceNeedsALook, Results
  <2> QED BY <2>1, <2>3 DEF IInv
<1>3. ASSUME NEW c \in Criteria, Evaluate(c)
      PROVE  IInv' /\ DecisionsOnlyWorsen /\ AbsenceNeedsALook
  BY <1>3, RecordLaw DEF Evaluate
<1> QED BY <1>1, <1>2, <1>3 DEF Next

\* Type correctness and the two safety invariants, whatever the criteria and the
\* artifacts: no false green on missing or lost evidence (policy/adjudicate.ts as the
\* runner applies it).
THEOREM VerdictsAreSound == Spec => [](TypeOK /\ VerdictsAreProven /\ NoPassOnLostEvidence)
<1>1. IInv /\ [Next]_vars => IInv'
  BY StepPreserves
<1>2. IInv => TypeOK /\ VerdictsAreProven /\ NoPassOnLostEvidence
  BY DEF IInv
<1> QED BY InitEstablishes, <1>1, <1>2, PTL DEF Spec

\* No false red on an absence: a criterion becomes `failed` by something its evaluator did
\* not find only while the dispatcher knows of a settled navigation and of an observation
\* taken since (policy/absence.ts with the facts of runner.ts, verifyCriterion).
THEOREM FailuresAreAlwaysSeen == Spec => FailuresAreSeen
<1>1. IInv /\ [Next]_vars => IInv' /\ [AbsenceNeedsALook]_vars
  BY StepPreserves
<1> QED BY InitEstablishes, <1>1, PTL DEF Spec, FailuresAreSeen

\* A decision is only ever made worse by asking again (policy/verdict.ts,
\* admitVerdict): a `failed` criterion can never become `passed`.
THEOREM DecisionsOnlyEverWorsen == Spec => AskingAgainNeverUpgrades
<1>1. IInv /\ [Next]_vars => IInv' /\ [DecisionsOnlyWorsen]_vars
  BY StepPreserves
<1> QED BY InitEstablishes, <1>1, PTL DEF Spec, AskingAgainNeverUpgrades

-----------------------------------------------------------------------------
(* The ledger: what a call adds, and how far it can go.                     *)

BrowserTokens == budget.tokensUsed - budget.verifierTokens

Margins ==
  /\ call = "browser" => budget.tokensUsed < MaxTokens - VerifierReserveTokens
  /\ call = "verifier" => \/ budget.verifierTokens < VerifierReserveTokens
                          \/ budget.tokensUsed < MaxTokens
  /\ BrowserTokens <= MaxTokens - VerifierReserveTokens - 1 + MaxUsage

LedgerInv == LedgerTypeOK /\ CallsBounded /\ Margins /\ SpendBounded

-----------------------------------------------------------------------------
(* The operators of the policy.                                             *)

LEMMA RecordTyped ==
  ASSUME NEW s \in BudgetStates
  PROVE  /\ RecordModelCall(s) \in BudgetStates
         /\ RecordModelCall(s).modelCalls = s.modelCalls + 1
         /\ RecordModelCall(s).tokensUsed = s.tokensUsed
         /\ RecordModelCall(s).verifierTokens = s.verifierTokens
BY DEF RecordModelCall, BudgetStates

LEMMA ChargeTyped ==
  ASSUME NEW s \in BudgetStates, NEW role \in Roles, NEW usage \in Nat
  PROVE  /\ ChargeTokens(s, role, usage) \in BudgetStates
         /\ ChargeTokens(s, role, usage).modelCalls = s.modelCalls
         /\ ChargeTokens(s, role, usage).tokensUsed = s.tokensUsed + usage
         /\ ChargeTokens(s, role, usage).verifierTokens =
              s.verifierTokens + (IF role = "verifier" THEN usage ELSE 0)
BY DEF ChargeTokens, BudgetStates

\* The gate, spelled out for each role.
LEMMA BrowserGate ==
  ASSUME NEW s \in BudgetStates, NEW isLate \in BOOLEAN
  PROVE  CanStartModelCall("browser", s, isLate) <=>
           /\ ~ isLate
           /\ s.modelCalls < MaxModelCalls
           /\ s.tokensUsed < MaxTokens - VerifierReserveTokens
BY DEF CanStartModelCall, TokenCeiling

LEMMA VerifierGate ==
  ASSUME NEW s \in BudgetStates, NEW isLate \in BOOLEAN
  PROVE  CanStartModelCall("verifier", s, isLate) <=>
           /\ ~ isLate
           /\ s.modelCalls < MaxModelCalls
           /\ s.verifierTokens < VerifierReserveTokens \/ s.tokensUsed < MaxTokens
BY BudgetsAssumption DEF CanStartModelCall, VerifierTokensLeft, BudgetStates

-----------------------------------------------------------------------------
(* The invariant.                                                           *)

LEMMA LedgerInitEstablishes == LedgerInit => LedgerInv
<1> SUFFICES ASSUME LedgerInit PROVE LedgerInv
  OBVIOUS
<1>1. /\ budget \in BudgetStates /\ budget.modelCalls = 0 /\ budget.tokensUsed = 0
      /\ budget.verifierTokens = 0
  BY DEF LedgerInit, MakeBudgetState, BudgetStates
<1>2. call = "none" /\ late = FALSE
  BY DEF LedgerInit
<1>3. LedgerTypeOK
  <2>1. late \in BOOLEAN /\ call \in Roles \cup {"none"}
    BY <1>2, Zenon
  <2> QED BY <1>1, <2>1 DEF LedgerTypeOK
<1>4. CallsBounded
  BY <1>1, <1>2, BudgetsAssumption DEF CallsBounded
<1>5. Margins
  BY <1>1, <1>2, BudgetsAssumption, UsageAssumption DEF Margins, BrowserTokens
<1>6. SpendBounded
  BY <1>1, BudgetsAssumption, UsageAssumption DEF SpendBounded
<1> QED BY <1>3, <1>4, <1>5, <1>6 DEF LedgerInv

LEMMA StartPreserves ==
  ASSUME LedgerInv, NEW role \in Roles, StartCall(role)
  PROVE  LedgerInv'
<1>1. budget \in BudgetStates /\ late \in BOOLEAN /\ budget' = budget /\ call' = role
      /\ late' = late /\ call = "none"
  BY DEF StartCall, LedgerInv, LedgerTypeOK
<1>2. budget.modelCalls < MaxModelCalls
  BY DEF StartCall, CanStartModelCall
<1>3. CASE role = "browser"
  BY <1>1, <1>2, <1>3, BrowserGate, BudgetsAssumption
     DEF StartCall, LedgerInv, LedgerTypeOK, CallsBounded, Margins, SpendBounded, BrowserTokens,
         BudgetStates
<1>4. CASE role = "verifier"
  BY <1>1, <1>2, <1>4, VerifierGate, BudgetsAssumption
     DEF StartCall, LedgerInv, LedgerTypeOK, CallsBounded, Margins, SpendBounded, BrowserTokens,
         BudgetStates
<1> QED BY <1>3, <1>4 DEF Roles

\* The heart of the bound: what the gate saw before the call caps what the call can
\* bring the total to.
LEMMA AnswerPreserves ==
  ASSUME LedgerInv, NEW usage \in 0..MaxUsage, CallAnswered(usage)
  PROVE  LedgerInv'
<1>1. /\ budget \in BudgetStates /\ call \in Roles /\ usage \in Nat /\ usage <= MaxUsage
      /\ budget' = ChargeTokens(RecordModelCall(budget), call, usage)
      /\ call' = "none" /\ late' = late
  BY UsageAssumption DEF CallAnswered, LedgerInv, LedgerTypeOK
<1>2. /\ budget' \in BudgetStates
      /\ budget'.modelCalls = budget.modelCalls + 1
      /\ budget'.tokensUsed = budget.tokensUsed + usage
      /\ budget'.verifierTokens =
           budget.verifierTokens + (IF call = "verifier" THEN usage ELSE 0)
  BY <1>1, RecordTyped, ChargeTyped
<1>3. LedgerTypeOK' /\ CallsBounded'
  BY <1>1, <1>2, BudgetsAssumption DEF LedgerInv, LedgerTypeOK, CallsBounded, Roles, BudgetStates
<1>4. CASE call = "browser"
  <2>1. budget.tokensUsed < MaxTokens - VerifierReserveTokens
    BY <1>4 DEF LedgerInv, Margins
  <2> QED BY <1>1, <1>2, <1>3, <1>4, <2>1, BudgetsAssumption, UsageAssumption
          DEF LedgerInv, LedgerTypeOK, Margins, SpendBounded, BrowserTokens, BudgetStates
<1>5. CASE call = "verifier"
  <2>1. budget.verifierTokens < VerifierReserveTokens \/ budget.tokensUsed < MaxTokens
    BY <1>5 DEF LedgerInv, Margins
  <2> QED BY <1>1, <1>2, <1>3, <1>5, <2>1, BudgetsAssumption, UsageAssumption
          DEF LedgerInv, LedgerTypeOK, Margins, SpendBounded, BrowserTokens, BudgetStates
<1> QED BY <1>1, <1>4, <1>5 DEF Roles

LEMMA AbandonPreserves ==
  ASSUME LedgerInv, CallAbandoned
  PROVE  LedgerInv'
<1>1. budget \in BudgetStates /\ call' = "none" /\ late' = late /\ call # "none"
  BY DEF CallAbandoned, LedgerInv, LedgerTypeOK
<1>2. /\ budget' \in BudgetStates
      /\ budget'.tokensUsed = budget.tokensUsed
      /\ budget'.verifierTokens = budget.verifierTokens
      /\ budget'.modelCalls \in {budget.modelCalls, budget.modelCalls + 1}
  BY <1>1, RecordTyped DEF CallAbandoned
<1> QED BY <1>1, <1>2, BudgetsAssumption
        DEF LedgerInv, LedgerTypeOK, CallsBounded, Margins, SpendBounded, BrowserTokens,
            BudgetStates

LEMMA LedgerStepPreserves ==
  ASSUME LedgerInv, [LedgerNext]_ledgerVars
  PROVE  LedgerInv'
<1>1. CASE UNCHANGED ledgerVars
  BY <1>1 DEF ledgerVars, LedgerInv, LedgerTypeOK, CallsBounded, Margins, SpendBounded,
              BrowserTokens
<1>2. CASE ClockPassesDeadline
  BY <1>2 DEF ClockPassesDeadline, LedgerInv, LedgerTypeOK, CallsBounded, Margins, SpendBounded,
              BrowserTokens
<1> QED BY <1>1, <1>2, StartPreserves, AnswerPreserves, AbandonPreserves DEF LedgerNext

-----------------------------------------------------------------------------
(* The theorems.                                                            *)

\* Whatever the agent and the evaluator do, the counted calls stay within
\* maxModelCalls and the tokens within maxTokens plus one overshoot per role
\* (policy/budgets.ts, the gate read before a call whose cost is known after it).
THEOREM SpendIsBounded == LedgerSpec => [](LedgerTypeOK /\ CallsBounded /\ SpendBounded)
<1>1. LedgerInv /\ [LedgerNext]_ledgerVars => LedgerInv'
  BY LedgerStepPreserves
<1>2. LedgerInv => LedgerTypeOK /\ CallsBounded /\ SpendBounded
  BY DEF LedgerInv
<1> QED BY LedgerInitEstablishes, <1>1, <1>2, PTL DEF LedgerSpec

\* The verifier's share: never refused for want of tokens before its reserve is
\* spent, and never shut out while the browsing loop may go on (canStartModelCall).
THEOREM VerifierShareIsSafe == LedgerSpec => [](ReserveIsAPool /\ VerifierOutlivesBrowser)
<1>1. LedgerInv /\ [LedgerNext]_ledgerVars => LedgerInv'
  BY LedgerStepPreserves
<1>2. LedgerInv => ReserveIsAPool
  BY VerifierGate DEF LedgerInv, LedgerTypeOK, ReserveIsAPool
<1>3. LedgerInv => VerifierOutlivesBrowser
  BY BrowserGate, VerifierGate, BudgetsAssumption
     DEF LedgerInv, LedgerTypeOK, VerifierOutlivesBrowser, BudgetStates
<1> QED BY LedgerInitEstablishes, <1>1, <1>2, <1>3, PTL DEF LedgerSpec

\* A step only ever adds to the accounting.
LEMMA AccountingOnlyGrows ==
  ASSUME LedgerInv, [LedgerNext]_ledgerVars
  PROVE  /\ budget.modelCalls <= budget'.modelCalls
         /\ budget.tokensUsed <= budget'.tokensUsed
         /\ budget.verifierTokens <= budget'.verifierTokens
         /\ late => late'
<1>1. budget \in BudgetStates /\ late \in BOOLEAN
  BY DEF LedgerInv, LedgerTypeOK
<1>2. CASE budget' = budget /\ (late => late')
  BY <1>1, <1>2 DEF BudgetStates
<1>3. ASSUME NEW usage \in 0..MaxUsage, CallAnswered(usage)
      PROVE  /\ budget.modelCalls <= budget'.modelCalls
             /\ budget.tokensUsed <= budget'.tokensUsed
             /\ budget.verifierTokens <= budget'.verifierTokens
             /\ late => late'
  <2>1. call \in Roles /\ usage \in Nat /\ late' = late
        /\ budget' = ChargeTokens(RecordModelCall(budget), call, usage)
    BY <1>3, UsageAssumption DEF CallAnswered, LedgerInv, LedgerTypeOK
  <2>2. /\ budget'.modelCalls = budget.modelCalls + 1
        /\ budget'.tokensUsed = budget.tokensUsed + usage
        /\ budget'.verifierTokens =
             budget.verifierTokens + (IF call = "verifier" THEN usage ELSE 0)
    BY <1>1, <2>1, RecordTyped, ChargeTyped
  <2> QED BY <1>1, <2>1, <2>2 DEF BudgetStates
<1>4. CASE CallAbandoned
  BY <1>1, <1>4, RecordTyped DEF CallAbandoned, BudgetStates
<1>5. CASE UNCHANGED ledgerVars \/ ClockPassesDeadline \/ \E role \in Roles : StartCall(role)
  BY <1>2, <1>5 DEF ledgerVars, ClockPassesDeadline, StartCall
<1> QED BY <1>3, <1>4, <1>5 DEF LedgerNext

\* Once refused, a role is refused for the rest of the run: no late request follows
\* an exhausted budget by the gate's own doing.
THEOREM RefusalsAreFinal == LedgerSpec => RefusalIsFinal
<1>1. LedgerInv /\ [LedgerNext]_ledgerVars => LedgerInv'
  BY LedgerStepPreserves
<1>2. ASSUME LedgerInv, LedgerInv', [LedgerNext]_ledgerVars PROVE GateStaysClosed
  <2>1. /\ budget \in BudgetStates /\ budget' \in BudgetStates
        /\ late \in BOOLEAN /\ late' \in BOOLEAN
    BY <1>2 DEF LedgerInv, LedgerTypeOK
  <2>2. /\ budget.modelCalls <= budget'.modelCalls
        /\ budget.tokensUsed <= budget'.tokensUsed
        /\ budget.verifierTokens <= budget'.verifierTokens
        /\ late => late'
    BY <1>2, AccountingOnlyGrows
  <2>3. CanStartModelCall("browser", budget', late') => CanStartModelCall("browser", budget, late)
    BY <2>1, <2>2, BrowserGate, BudgetsAssumption DEF BudgetStates
  <2>4. CanStartModelCall("verifier", budget', late') => CanStartModelCall("verifier", budget, late)
    BY <2>1, <2>2, VerifierGate, BudgetsAssumption DEF BudgetStates
  <2> QED BY <2>3, <2>4 DEF GateStaysClosed, Roles
<1>3. LedgerInv /\ LedgerInv' /\ [LedgerNext]_ledgerVars => [GateStaysClosed]_ledgerVars
  BY <1>2
<1> QED BY LedgerInitEstablishes, <1>1, <1>3, PTL DEF LedgerSpec, RefusalIsFinal
=============================================================================
