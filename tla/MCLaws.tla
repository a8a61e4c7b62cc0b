------------------------------- MODULE MCLaws -------------------------------
(***************************************************************************)
(* The two laws an attempt obeys, checked together.  Neither reads the     *)
(* other's state, so a behaviour of one is one of both in which the other  *)
(* rests: their states add up instead of multiplying.                      *)
(***************************************************************************)
EXTENDS Verdicts, BudgetLedger

LawsNext ==
  \/ LedgerInit /\ Next /\ UNCHANGED ledgerVars
  \/ Init /\ LedgerNext /\ UNCHANGED vars

LawsInit == Init /\ LedgerInit

Laws == LawsInit /\ [][LawsNext]_<<vars, ledgerVars>>
=============================================================================
