--------------------------- MODULE MCVerification ---------------------------
(* A small instance of Verification for TLC.                                *)
EXTENDS Verification

\* The double first asks for evidence, then passes on all it was shown.
ScriptedAnswers ==
  << [status |-> "inconclusive", missing |-> TRUE, citesAll |-> FALSE],
     [status |-> "passed", missing |-> FALSE, citesAll |-> TRUE] >>
=============================================================================
