------------------------------ MODULE Budgets -------------------------------
(***************************************************************************)
(* The blocking budgets of packages/core/src/policy/budgets.ts: the gate   *)
(* every model call passes, and the accounting that follows it.            *)
(*                                                                         *)
(* The accounting record keeps one token total: input and output tokens    *)
(* are only ever read as their sum.  The clock is abstracted to whether    *)
(* attemptTimeoutMs have elapsed since the RUN started (`late`), the only  *)
(* thing the gate asks of it.                                              *)
(***************************************************************************)
EXTENDS Integers

CONSTANTS MaxModelCalls, MaxTokens, VerifierReserveTokens

\* What the schema of the resolved configuration admits (domain/budgets.ts).
ASSUME BudgetsAssumption ==
  /\ MaxModelCalls \in Nat \ {0}
  /\ MaxTokens \in Nat \ {0}
  /\ VerifierReserveTokens \in Nat
  /\ VerifierReserveTokens < MaxTokens

Roles == {"browser", "verifier"}

BudgetStates == [modelCalls : Nat, tokensUsed : Nat, verifierTokens : Nat]

MakeBudgetState == [modelCalls |-> 0, tokensUsed |-> 0, verifierTokens |-> 0]

TokenCeiling(role) ==
  IF role = "verifier" THEN MaxTokens ELSE MaxTokens - VerifierReserveTokens

\* Two plausible slips: the reserve as a subtraction, and the reserve alone.
ReserveAsSubtraction(state) == MaxTokens - state.tokensUsed
ReserveOnly(state) == VerifierReserveTokens - state.verifierTokens

\* The larger of the verifier's own untouched reserve and the shared pool's rest.
VerifierTokensLeft(state) ==
  LET reserve == VerifierReserveTokens - state.verifierTokens
      shared  == MaxTokens - state.tokensUsed
  IN  IF reserve > shared THEN reserve ELSE shared

\* A plausible slip: `>` for `>=` at the browsing loop's ceiling.
GateOffByOne(role, state, late) ==
  /\ ~ late
  /\ state.modelCalls < MaxModelCalls
  /\ IF role = "browser"
     THEN state.tokensUsed <= TokenCeiling("browser")
     ELSE VerifierTokensLeft(state) > 0

\* A plausible slip: calls are not counted at the gate.
GateWithoutCallLimit(role, state, late) ==
  /\ ~ late
  /\ IF role = "browser"
     THEN state.tokensUsed < TokenCeiling("browser")
     ELSE VerifierTokensLeft(state) > 0

CanStartModelCall(role, state, late) ==
  /\ ~ late
  /\ state.modelCalls < MaxModelCalls
  /\ IF role = "browser"
     THEN state.tokensUsed < TokenCeiling("browser")
     ELSE VerifierTokensLeft(state) > 0

\* The budget a refusal names, in the gate's order.
Denial(state, late) ==
  IF late THEN "attemptTimeout"
  ELSE IF state.modelCalls >= MaxModelCalls THEN "maxModelCalls"
  ELSE "maxTokens"

RecordModelCall(state) == [state EXCEPT !.modelCalls = @ + 1]

\* A plausible slip: the verifier's tokens kept out of the totals.
ChargeVerifierApart(state, role, usage) ==
  IF role = "verifier"
  THEN [state EXCEPT !.verifierTokens = @ + usage]
  ELSE [state EXCEPT !.tokensUsed = @ + usage]

\* A plausible slip: what a verifier call left of the reserve goes back to the pool.
ReserveGivenBack(state, role, usage) ==
  LET unused == IF role = "verifier" /\ usage < VerifierReserveTokens
                THEN VerifierReserveTokens - usage ELSE 0
  IN  [state EXCEPT !.tokensUsed = @ + usage - unused,
                    !.verifierTokens = IF role = "verifier" THEN @ + usage ELSE @]

ChargeTokens(state, role, usage) ==
  [modelCalls     |-> state.modelCalls,
   tokensUsed     |-> state.tokensUsed + usage,
   verifierTokens |-> state.verifierTokens + (IF role = "verifier" THEN usage ELSE 0)]
=============================================================================
