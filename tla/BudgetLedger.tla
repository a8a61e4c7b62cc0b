---------------------------- MODULE BudgetLedger ----------------------------
(***************************************************************************)
(* What the budgets promise of a whole attempt: one model call at a time,  *)
(* a gate read before it, a cost known only after it.  The runner's loop   *)
(* and its verifications (runner.ts) are the only callers; module Attempt  *)
(* says when they call, and implements this module.                        *)
(***************************************************************************)
EXTENDS Budgets

CONSTANT MaxUsage     \* the most tokens one call can cost; the code has no such bound

ASSUME UsageAssumption == MaxUsage \in Nat \ {0}

VARIABLES
  budget,  \* the accounting record
  call,    \* the role of the model call in flight, or "none"
  late     \* attemptTimeoutMs have elapsed since the run started

ledgerVars == <<budget, call, late>>

LedgerTypeOK ==
  /\ budget \in BudgetStates
  /\ budget.verifierTokens <= budget.tokensUsed
  /\ call \in Roles \cup {"none"}
  /\ late \in BOOLEAN

LedgerInit ==
  /\ budget = MakeBudgetState
  /\ call = "none"
  /\ late = FALSE

StartCall(role) ==
  /\ call = "none"
  /\ CanStartModelCall(role, budget, late)
  /\ call' = role
  /\ UNCHANGED <<budget, late>>

\* The call answered: it is counted, and its reported usage is charged.
CallAnswered(usage) ==
  /\ call # "none"
  /\ budget' = ChargeTokens(RecordModelCall(budget), call, usage)
  /\ call' = "none"
  /\ UNCHANGED late

\* The call failed after its retries, or was interrupted, and is not charged.  A
\* browsing call is still counted unless the attempt itself was cut short; a
\* verifier call never is.
CallAbandoned ==
  /\ call # "none"
  /\ \/ budget' = budget
     \/ call = "browser" /\ budget' = RecordModelCall(budget)
  /\ call' = "none"
  /\ UNCHANGED late

ClockPassesDeadline ==
  /\ ~ late
  /\ late' = TRUE
  /\ UNCHANGED <<budget, call>>

LedgerNext ==
  \/ \E role \in Roles : StartCall(role)
  \/ \E usage \in 0..MaxUsage : CallAnswered(usage)
  \/ CallAbandoned
  \/ ClockPassesDeadline

LedgerSpec == LedgerInit /\ [][LedgerNext]_ledgerVars

-----------------------------------------------------------------------------
(* Properties *)

\* The calls counted and the one in flight stay within maxModelCalls.
CallsBounded ==
  budget.modelCalls + (IF call = "none" THEN 0 ELSE 1) <= MaxModelCalls

\* What a run can spend at most, the price of gates read before a call whose cost
\* is known after it: the browsing loop overshoots its ceiling by one call at most,
\* and the verifier its own share by one more.
SpendBounded == budget.tokensUsed <= MaxTokens + 2 * (MaxUsage - 1)

\* The reserve is a pool: whatever the browsing loop spent, a verifier that has not
\* consumed its reserve is never refused for want of tokens.
ReserveIsAPool ==
  ~ late /\ budget.modelCalls < MaxModelCalls
         /\ budget.verifierTokens < VerifierReserveTokens
    => CanStartModelCall("verifier", budget, late)

\* The verifier is never shut out while the browsing loop may still go on: an
\* agent that is given a turn can have its criteria judged.
VerifierOutlivesBrowser ==
  CanStartModelCall("browser", budget, late) => CanStartModelCall("verifier", budget, late)

\* A refusal is final: nothing that happens later reopens the gate it closed.
GateStaysClosed ==
  \A role \in Roles :
    ~ CanStartModelCall(role, budget, late) => ~ CanStartModelCall(role, budget', late')

RefusalIsFinal == [][GateStaysClosed]_ledgerVars
=============================================================================
