------------------------------- MODULE MCRun --------------------------------
(* Requests for module Run: one input key, and a name of each kind to cite.  *)
EXTENDS Run, TLC

References == {"run.id", "toString", "fixture.user", "user", "undeclared"}

OneName == {{}} \cup {{name} : name \in References}

Layers(values) == {<<>>} \cup {"user" :> value : value \in values}

\* `difmp run` alone: every specification of two texts at most.
Specifications ==
  [config : Layers(OneName), spec : Layers(OneName), file : {<<>>}, cli : {<<>>},
   texts : {{text} : text \in OneName} \cup {{{"fixture.user"}, {"user"}}},
   fixture : {None, "known", "unknown"}, checks : {{}, {"known"}, {"unknown"}}]

\* With --inputs-file and --input: one specification, every layer.
WithInputs ==
  [config : Layers({{}}), spec : Layers({{}, {"undeclared"}}),
   file : Layers(OneName), cli : Layers({{}, {"user"}}),
   texts : {{{"user"}}}, fixture : {None}, checks : {{}}]

SmallRequests == Specifications \cup WithInputs
=============================================================================
