---------------------------- MODULE Preparation -----------------------------
(***************************************************************************)
(* What a specification goes through before its contract is frozen         *)
(* (prepare/index.ts), by its two doors: prepareRun, which stops at the    *)
(* first problem, and checkRun, behind `difmp validate`, which collects    *)
(* them all without running a fixture.                                     *)
(*                                                                         *)
(* A text, or the value of an input, is the set of the names it cites      *)
(* between double braces; a layer of inputs is a function from the keys it *)
(* gives to their values.  What a name stands for is left out: a value is  *)
(* never interpolated again.                                               *)
(*                                                                         *)
(* A request: its four layers (config, spec, file, cli), the texts (body   *)
(* and criteria), the fixture it names or "none", the checks it maps.      *)
(***************************************************************************)
CONSTANTS
  Reserved,            \* run.id, attempt.id
  Inherited,           \* names that every record answers to (toString, ...)
  FixtureKeys,         \* fixture.<key>
  RegisteredFixtures,
  RegisteredChecks

None == "none"

-----------------------------------------------------------------------------
(* Names                                                                    *)

\* interpolate: whether every name a text cites stands for something.  `keys` are the
\* inputs in scope, `public` what a fixture exposes; validate keeps a fixture's names
\* as they are written.  Looking up an inherited name finds what every record has.
Interpolates(text, keys, public, mode) ==
  \A name \in text :
    \/ name \in Reserved \cup Inherited \cup keys
    \/ name \in FixtureKeys /\ (mode = "validate" \/ name \in public)

\* The names that a freeze has still to find among the fixture's values.
Unresolved(texts, keys) == (UNION texts) \ (Reserved \cup Inherited \cup keys)

\* resolveInputs: a value cites the reserved names only, not a fixture's, not an input's.
ResolvesInputs(inputs) ==
  \A key \in DOMAIN inputs :
    /\ inputs[key] \cap (FixtureKeys \cup DOMAIN inputs) = {}
    /\ Interpolates(inputs[key], {}, {}, "strict")

-----------------------------------------------------------------------------
(* Inputs: config < spec < --inputs-file < --input                          *)

Declared(request) == DOMAIN request.config \cup DOMAIN request.spec

\* resolveInputPrecedence refuses a key that neither the config nor the spec declares.
KeysAreDeclared(request) == DOMAIN request.file \cup DOMAIN request.cli \subseteq Declared(request)

\* { ...lower, ...upper }
Spread(lower, upper) ==
  [key \in DOMAIN lower \cup DOMAIN upper |->
     IF key \in DOMAIN upper THEN upper[key] ELSE lower[key]]

Merged(request) ==
  Spread(Spread(Spread(request.config, request.spec), request.file), request.cli)

\* resolveRunInputs
InputsResolve(request) == KeysAreDeclared(request) /\ ResolvesInputs(Merged(request))

-----------------------------------------------------------------------------
(* The two doors                                                            *)

FixtureIsKnown(request) == request.fixture \in RegisteredFixtures \cup {None}

\* A plausible slip: a mapped check is looked up when it is needed.
KnowsFixtureOnly(request) == FixtureIsKnown(request)

\* validateSpecRegistries
RegistriesKnow(request) == FixtureIsKnown(request) /\ request.checks \subseteq RegisteredChecks

\* prepareRun, up to the contract it hands back.
Prepares(request) == InputsResolve(request) /\ RegistriesKnow(request)

\* contract, the verb of a prepared run: every text, strictly.
Freezes(unresolved, public) == unresolved \subseteq FixtureKeys \cap public

\* checkRun, when it finds no problem: without the inputs of a run.  Inputs that do not
\* resolve are a problem, and count as none for the texts.
FindsNoProblem(request) ==
  LET inputs == Spread(request.config, request.spec)
  IN  /\ ResolvesInputs(inputs)
      /\ \A text \in request.texts : Interpolates(text, DOMAIN inputs, {}, "validate")
      /\ FixtureIsKnown(request) /\ request.checks \subseteq RegisteredChecks
=============================================================================
