# A TLA+ verification of difmp

difmp runs end-to-end test scenarios written in natural language. A *browsing agent* (a language
model) drives a real browser; each acceptance criterion of the scenario is judged by a *verifier*
(another model) or by a *code check* of the project; a *harness* written in TypeScript on top of
Effect decides what may be asked, records what happened, and derives the verdict of the run.

Neither model is trusted. The harness alone must make sure that a `passed` rests on evidence that
is on disk, that a `failed` is not the artefact of a page that had not settled, that budgets hold,
that a cancelled or interrupted run is still recorded, and that a scenario's fixture is released
whatever happens. That is what these modules are about. Paths below are relative to `src/`.

## 1. Inventory

### Core (`packages/core/src`)

| Component | State it keeps | Operations | What makes it correct |
|---|---|---|---|
| **Verdict law** `policy/{verdict,evidence,absence,adjudicate,aggregate}.ts` | none: pure functions over a criterion's result, the inventory and the page facts | `screenProposal`, `adjudicate`, `aggregate` | no pass without inventoried evidence, no failure on an uncertain absence, no upgrade by asking again |
| **Budgets** `policy/budgets.ts` | calls made, tokens used, the verifier's tokens | `canStartModelCall`, `recordModelCall`, `chargeTokens` | calls and spend bounded, the verifier's reserve never eaten by browsing, refusals final |
| **Attempt runner** `runner/runner.ts` (`runAttempt`, 375-1347) | results, budget, idle turns, cancellation, execution error, exhausted budget, mandatory failure | browsing loop, tool dispatch loop, `verifyCriterion`, code checks, final pass, timeout, interruption, tail | always returns, never a silent pass, a cancellation is honoured, an exhausted budget stops it |
| **Tool dispatcher** `runner/dispatcher.ts` | page facts, its copy of the observation, action in flight, indicative counter, finish requested | one handler per tool, `finishAction`, `closeInterruptedAction` | the action in flight is closed whoever cuts it short, facts true to the page, references resolved against what the agent saw |
| **Evidence recorder** `runner/evidence.ts` | evidence index, mandatory failures | `recordObservation`, `takeScreenshot`, `persistArtifact` | what is cited was recorded, each capture once, and is linked to the line it was taken at |
| **Run lifecycle** `runner/runner.ts` (`runScenario`, `finalize`) | cleanup flag, mask, status | manifest, preparation, fixture, freeze, attempt, result, journal | `runFinished` last, result recorded, fixture released |
| **Store and journal** `store/runStore.ts` | sequence number, inventory, PubSub of lines | `emit`, `recordArtifact`, `atomicWrite` | what is announced is on disk, the inventory on disk is the one in memory |
| **Spec, inputs, contract** `spec`, `interpolate`, `prepare`, `registry`, `config` | none | decode, resolve inputs, `checkRun` (validate), `prepareRun`, freeze the contract | precedence of inputs, `validate` foretells the run |
| **Origins, redaction, action guidance** `policy/{origins,redact,actions}.ts` | an indicative counter, and whether its crossing was told | predicates, `recordAction` | told once, refuses nothing, agrees with what is shown |

### Around the core

| Component | Notes |
|---|---|
| **Fixture manager** `apps/cli/src/fixtures.ts` | a stack of cleanups; setup raced with a timeout and an abort signal; cleanups in reverse order under one deadline |
| **Verifier** `packages/agent-runtime/src/verifier` | one model call per question; counts the evidence requests of each criterion; validates what the model cites, and about which criterion it answers |
| **Jev evaluator** `packages/agent-runtime/src/jev` | one client for all calls, which remembers its last transport error; judgments turned into a result; a call given up is not aborted |
| **Providers** `packages/agent-runtime/src` | adapters of model SDKs; the scripted double, with its counters of occurrences |
| **Browser driver** `packages/browser-playwright/src` | a browser and a context acquired with their finalizers; one session per attempt with a lock, a navigation listener, the live observation references are resolved against, and a `finalize` called by up to three parties |
| **Reporting** `packages/reporting/src` | rebuilds a view from a run's files: result, inventory, timeline, budgets, diagnostics; JUnit and HTML from the view |
| **CLI** `apps/cli/src` | runs the selected scenarios in sequence, derives the exit code |
| **Dashboard server and client** `apps/cli/src/server`, `apps/ui/src` | a bus of journal lines served as an event stream; a reducer with a cursor, take-over and back-off, which rebuilds criteria, timeline, gauges and the owners of artifacts |

### How they interact

`runOne` (CLI) builds the layers and forks `runScenario`; a signal interrupts that fiber, a
dashboard request completes a *cancellation* deferred: two different mechanisms with different
outcomes. `runScenario` calls the fixture manager, then `runAttempt` inside an uninterruptible
region whose body is restored. `runAttempt` alternates calls to the model, to the dispatcher (which
calls the browser session and the evidence recorder) and to the verifier or a code check; each is
raced with the cancellation, and the whole body with `attemptTimeoutMs`. Everything observable goes
through the store, which may refuse any write. It has two independent readers: the page folds the
lines as they are emitted, the reporters rebuild everything from the files once the run is over.

### What is hard here

* **Two ways to stop, plus two clocks.** Interruption, cancellation, the attempt's timer and the
  gate's clock (which counts from the start of the *run*, not of the attempt) can meet at any await.
* **Untrusted answers, asked repeatedly.** The agent can have a criterion judged any number of
  times, in the middle of the browsing loop, and the final pass judges what is left.
* **Costs known afterwards.** A call's tokens are charged when it has answered.
* **Partial failure.** Each record is a file write, an inventory write and a journal line.
* **Copies.** The session and the dispatcher each hold an observation of a page that goes on moving;
  the page and the report each hold an account of the same run; the Jev client is shared by calls.
* **Cleanup from several hooks.** The same fixture can be released by the attempt's exit, by the
  run's exit, by a rejected contract, or by the setup's own failure; captures are gathered by the
  attempt's end, its finalizer, or the driver's.

The hazards are listed one by one in `PROJECT.json`, each at its line with the properties that
cover it, or the reason none does.

## 2. Modules

```
 operators        abstract specifications       components            proofs
 ---------        -----------------------       ----------            ------
 Adjudication --> Verdicts -----------+
      |                \               +-------------------------->  LawProofs
      |                 \             /                                    | (Laws)
      |                  + implemented by -----> Attempt ----------->  AttemptProofs
      |                 /             \
 Budgets -------> BudgetLedger --------+
      |
      +---------------------------------------> Activity --------->  ActivityProofs

 Adjudication --------------------------------> Verification ------>  VerificationProofs
 Adjudication --------------------------------> Report ------------>  ReportProofs
 Preparation, Fixtures -----------------------> Run --------------->  RunProofs
 Dashboard -----------------------------------> Invocation -------->  InvocationProofs
                                                Session ----------->  SessionProofs
```

`MCRun` and `MCVerification` only give constants their values. `MCLaws` puts the two abstract
specifications side by side, one resting while the other moves, so that one run checks both.

### Adjudication and Verdicts

`Adjudication` has one operator per function of the policy, under the name it has in the code:
integrity, absence, persistence, admission, chained by `Adjudicate` in the code's order, and
`Aggregate`. Evidence, downgrades and re-checks are sets, because no rule reads their order;
wording is left out. `Verdicts` is the abstract specification: criteria, an inventory that only
grows, the two facts the dispatcher keeps of the page (observed, settled), which move at any time
(`Browse`), and one step per evaluation reaching the law with *any* proposal the callers can build,
including citations of artifacts that do not exist and claims about the page that are not true.

### Budgets and BudgetLedger

`Budgets` has the gate and the accounting. Input and output tokens are one number, since the code
only reads their sum; time is the one bit the gate asks (`late`). `BudgetLedger` is the abstract
specification: one call in flight at a time, the gate read before it, the cost known after.

### Attempt

The program counter `pc` names what the attempt's fiber is doing:

| `pc` | code |
|---|---|
| `open`, `launch`, `navigate` | `attemptBody` 1176-1233; the launch cannot be interrupted |
| `loop`, `model` | `agentLoop` 944-1128, and the retries of `withModelRetry` |
| `dispatch`, `starting`, `acting`, `ending` | the dispatch loop, and the two journal lines around a tool |
| `capture`, `judge`, `ask`, `check`, `refused`, `announce` | `verifyCriterion`, `codeCheckBody` |
| `final`, `pass`, `settle` | the final pass and the captures that follow |
| `unwinding`, `timedOut`, `tail`, `returned` | interruption, timeout, tail |

An evaluation requested by the agent and one of the final pass are the same phases; `eval`
remembers who asked. `page` holds the facts the absence rule reads, `inventory` what the store
has recorded, `outcome` what the attempt reports besides its results, `agent` the counters of the
browsing loop. Cancellation (`cancelReq`), interruption (`interrupted`), the gate's clock (`late`)
and the attempt's timer (`overdue`) are raised by actions of their own, at any moment; the phases
that hear each of them are named sets (`RacedPhases`, `BodyPhases`). `StoreMayFail` lets the store
refuse a write, before or after it took effect; `Disturbances` bounds what the outside does in a run.
`Screenshots` is the configuration's `capture.screenshots`: the checkpoint's capture is taken unless
it is `off`, and one after every action when it is `every-action`.

### Session

The browser session of one attempt between the page and the dispatcher. The page navigates, changes
its elements and loads in its own time; the session's listener hears of navigations late; an
observation is a snapshot, then the title and the URL, then the moment it becomes the live one;
each act counts the matches of a reference, acts, and waits to settle. `step` is the operation that
holds the lock, `stage` the life of the context from the launch of the browser to its release, and
`fin` the steps of `finalize`, which the runner, its finalizer and the driver's finalizer may each
begin. An operation can exceed its deadline, and an interruption can strike, between any two steps.

### Preparation, Fixtures and Run

`Preparation` has the precedence of inputs, what interpolation resolves in each mode, the registries,
and the two doors of `prepare/index.ts`: `prepareRun`, which stops at the first problem, and
`checkRun`, which collects them without a fixture. A text is the set of the names it cites.
`Fixtures` is the manager: a setup script that acquires up to `MaxResources` resources, may hang,
throw, or go on acquiring after it was abandoned; cleanups in reverse order under a deadline.
`Run` is `runScenario` and `finalize`, for any request: manifest, preparation, fixture, freeze,
attempt (one step: its inner life is `Attempt`), release, result, last line. An interruption is
raised once at any moment and strikes where the fiber can be interrupted; what was being written may
or may not have landed. The store may refuse any write; a phase that writes a line and then a file
may have done the first when the second is refused (`FrozenLine`).

### Verification

One criterion at a time is put to an evaluator chosen for the run: a model (`verifier.ts`), the
scripted double, or Jev. `call` is the evaluation in flight, with the counter it read before it
(`asked`) and the evidence it was given; a call may answer anything, fail, be retried by the runner,
or be given up by a deadline or a cancellation. A Jev call given up stays in `air`, and may be
rejected during a later one. `outcome` is what the runner is handed. `Attempt` takes these outcomes
as its verifier's answers.

### Report

One run's directory and its two readers. The store writes journal, inventory (record in memory,
temporary file, rename, rollback), contract and result; any write may be refused, cut short or be
the last before the process is killed. A change and the line that tells it are two steps: after a
verdict or an inventory write the line is `due`, and it is told, refused, or cut by a cancellation,
an interruption or the deadline in between; `untold` remembers what the page was never told. An
append that stops in the middle of a line leaves the journal `partial`, and the next line is glued
to it. One thing is simpler than the code: a code check that outlives its own timeout may go on
recording evidence next to the runner's; here one writer records at a time.
`board` is the page's fold, `report` the view rebuilt by
`loadReportInput` and `buildReportView`, `JUnit` the cases rendered from it.

### Activity

The same attempt as `Attempt`'s, seen through the lines it writes, one step per line: opening,
browsing calls, tool calls with their observations and captures, evaluations, the final pass, a
cancellation heard by a race, an interruption or the deadline between any two lines, and the store
refusing a line. `budget` and `guidance` are the runner's own counters, `page` the fold of
`reducer.ts` (timeline, actions, owners of artifacts, gauges), and `AttemptView`, `TimelineEntries`
what `view.ts` derives. The two timelines are compared by the numbers of their lines, both in order
and each row the other's: as many, and the same ones. Verdicts and retries are left to `Attempt`:
here they write no line the two readers could disagree on. The two stalls the runner tells are there:
too many idle turns, and the same tool call made three times in a row, told once; which calls are the
same is left open, so from the third on any may be a repetition. `MaxCalls` bounds the calls of one
turn.

### Dashboard and Invocation

`Dashboard` is the suite bus (`journal`), one subscription of `GET /api/events` (`conn`: registered,
then its snapshot taken, then streaming through the gap-filling encoder), the frames in flight
(`wire`), the page's EventSource (`source`: the cursor of its URL, and the last id it would replay)
and the page (`board`: cursor, take-overs, the fold of each run, the rows and the count). Clients
share only the journal, so one is enough. `Invocation` is `commands/run.ts` around `runOne`: each
scenario emits lines (`written` on disk, then offered to the store's dropping fan-out), a fiber
carries them to the bus, the run's scope closes, the scenario is announced. An append may fail, or
stop in the middle of a line (`partial`): the next one is then on disk but `glued` to it. The
invocation ends by `cliFinished`, by Ctrl-C, or by a scenario that cannot be run, which exits 2 for an
error with that code and 1 for a defect (`cli.ts:111`); `code` is what `exitCodeOf` makes of it. What
the CLI writes to the console is assumed accepted. The page
takes steps while the server is up: what it does afterwards shows nothing new. `/api/ui/events`,
which the CLI does not give its page, is not modelled.

### Abstractions shared by all modules

Texts, prompts, screenshots and messages are not represented; artifacts are model values (in
`Attempt` one per criterion's checkpoint capture, and one for whatever the page gives). An effect that cannot be
interrupted between two awaits is one action. Deadlock is not checked where a system ends by design;
`Returns` and `Ends` say that an attempt and a run do.

## 3. Runs

| Run | Bounds | Question |
|---|---|---|
| `laws` | 1 criterion, 2 artifacts; 5 calls, 7 tokens, reserve 2, 4 tokens a call | does the verdict law hold over every sequence of answers, however the page moves? spend, reserve, refusals (23,463 states) |
| `attempt` | 1 model criterion, 2 calls, 2 tokens, reserve 1, 2 tool calls a turn | the whole attempt under cancellation, interruption, both clocks; the ledger's refinement; liveness (658,150) |
| `attempt_store` | a code criterion and a model one, 2 calls, 1 token, 1 retry, a capture after every action, refusing store, cancellation only | the refinement of the verdict law when records are lost (1,237,586) |
| `run` | 2 resources, 4 statuses of an attempt, the requests of `MCRun` | a whole run under interruption and a refusing store; does `validate` foretell it? (18,922) |
| `fixture_leak` (violation) | same | is the fixture always released, as `runner.ts:306` says? |
| `session` | 1 element, 3 documents, 2 observations | are references, captures and finalizers right whatever the page does? (5,857,105) |
| `stale_settled` (violation) | 1 element, 2 documents, 1 observation | is "settled" only said of a navigation that settled, as `absence.ts:5` says? |
| `verification` | 2 criteria, 2 artifacts, 1 evidence request, 1 retry, 4 calls | what evaluators hand to the runner across retries and outages (809,120) |
| `report` | 2 criteria, 2 artifacts, 2 verdicts, 2 refusals | do the files, the page and the runner tell the same story? (6,266,498) |
| `activity` | 1 criterion, 2 actions, 3 tool calls a turn, 2 model calls, threshold 1, 1 idle turn, a capture after every action, 1 refused line | the timeline, gauges and owners the page rebuilds from the lines (1,939,899) |
| `invocation` | 2 scenarios, 1 line before a run's last one, queues and wire of 1, 2 link failures, statuses failed and cancelled, every append succeeds | is the page's picture true? (3.6 million) |
| `records` | 2 scenarios, 1 line before a run's last one, queues and wire of 1, the five statuses, any append may fail or be cut, a link that never fails | is what is announced on disk? does what the page shows explain the exit code? (5.9 million) |

Why the bounds are enough. *Verdicts*: a step rewrites one criterion and no rule reads another, so
one criterion has every behaviour; two artifacts give a cited one that is known beside one that is
not. *Ledger*: a call costs up to 4 against a ceiling of 5 and a reserve of 2, so that one call
overshoots the browsing loop's ceiling, the pool, or neither (the two are checked by `laws`, and
share no state). *Attempt*: two calls make "refused
after one" and "refused from the start" differ; two tool calls in a turn are what it takes for one
to follow an exhausted budget, or a re-check to follow a check; one browsing turn may eat the shared
tokens and leave the verifier its reserve of 1. *AttemptStore*: two criteria of different kinds,
since a failure recorded for one must not clear or condemn the other, and two calls, so that the
second criterion can still be judged after a browsing turn; the outside is limited to a cancellation
(`Disturbances`), the interruption and the clocks being those of `attempt`. *Run*: two resources
make an order of release; one input key and one name of each kind (reserved, inherited, a fixture's,
an input's, undeclared), in every layer, are all that the rules tell apart. *Session*: three
documents and two observations let a reference of the first observation meet a page that has
navigated since, before or after the second; a reference is resolved by itself, so one element is
enough. *Verification*: one request for evidence is at its limit at once; two criteria let an answer
be about the other; four calls let a call given up be rejected during the next one, after a retry.
*Report*: two verdicts re-judge a criterion, or judge both; two refusals let an inventory be refused
after a line was, or two lines; every cut is between a change and its line, in the line, or in the
rename. *Activity*: two actions let an artifact belong to an earlier action than the last, and cross
a threshold of 1; three tool calls in a turn are what a repetition takes; two model calls and two
tokens leave the verifier a reserve of 1 and exhaust either budget. Only one browsing turn is
answered with tool calls there (the second call is the verifier's, or an idle or cut one); that a
turn leaves nothing behind which the next one reads is for the proofs, which bound no turn.
*Invocation*: a queue and a wire of one are full at once; two link failures (`MaxDrops` also counts
reloads and reconnections by hand) let a retry with `Last-Event-ID` follow a take-over by URL; two
scenarios make an order of statuses, failed then cancelled, and a line of the first that comes after
its end. *Records*: one line and a last one let a line follow a torn one; all five statuses in either
order, after a line that was lost or not, with a board whose link never fails.

No run has `capture.screenshots` at `off`: it removes one capture and adds nothing, and is covered
by the theorems, which leave it a parameter.

The passing properties:

* `VerdictsAreProven`, `NoPassOnLostEvidence`, `AskingAgainNeverUpgrades`: the law.
  `FailuresAreSeen`: a criterion becomes failed by an absence only when the dispatcher knows, at that
  very step, of a settled navigation and of an observation, whatever the evaluator claims. (Whether
  what the dispatcher knows is true of the page is another matter: `stale_settled`.)
* `SpendBounded`, `ReserveIsAPool`, `VerifierOutlivesBrowser`, `RefusalIsFinal`: the ledger.
  `SpendBounded` is exact: two calls may overshoot, one of each role.
* `NoSilentPass`: a passed attempt met no error and no interruption, lost no mandatory evidence, and each criterion rests on evidence in the inventory. `PendingOnlyWhenCutShort`: a
  criterion nobody judged implies a cancellation, an error or the deadline.
  `ExhaustionStopsBrowsing`: no browsing call after a reported budget. `ActionsClosed`: an action
  struck while its tool runs is closed, once. `Returns`, `CancelHonoured`: liveness.
  `VerdictsImplemented`, `LedgerImplemented`: the refinements, so that what is proved of the
  abstract modules holds of the attempt.
* `JournalOrdered`, `CleanedOnceInReverse`, `GuardedFixtureReleased`, `AttemptIsRecorded`, `Ends`:
  the run. `ValidateForesees`: a specification `difmp validate` finds clean is not refused by the
  run on grounds that could be known without its fixture.
* `ElementsActedOnWereSeen`: an element is acted on only in the document the agent's observation was
  of. `CapturedOnce`: each expected capture is registered at most once, and exactly once unless its
  settling was itself cut short. `ClosedInOrder`: the context closes before the browser, even after
  a finalize that was cut short.
* `EvidenceRequestsBounded`: retries and calls given up use none of the evidence requests, and
  there are never more than the budget. `VerdictsRestOnWhatWasRead`: what an evaluator could not
  read or what an answer says of another criterion never becomes a verdict. `OutagesAreOwn`: a call
  is retried or not by its own error, but for the late error of one that was given up.
* `GreenMeansPassed`: a JUnit file is green exactly when the run passed, and a file that is not says
  why. `CitedIsOnDisk`: what a result cites is in `artifacts.json`. `BoardMatchesReport`: the page's
  criteria, artifacts and status are the report's, but for what was never told because its line was
  refused or cut.
* `TimelinesAgree`, `GaugesReconcile`, `OwnersAgree`: the page's timeline, gauges and owners of
  artifacts against the report's entries, `result.json`'s counters, and the actions the artifacts
  were captured in. A call is told when it starts and counted when it returns, so the gauge of calls
  may be one ahead of the result, while a call is under way and for good when Ctrl-C or the deadline
  cuts it. `OwnersAgree` is of attempts that lost no line, and of the captures made during an action.
* `BoardMatchesJournal`: the page has applied exactly the messages up to its cursor, each once and
  in order, whatever was dropped, lost or repeated. `LiveLinesAreWritten`: whatever is announced to a page was
  wholly appended to the journal, and can be read back from it unless the append before it failed.
  `FinishedBoardIsTrue`: a page that closed by itself shows the suite as the CLI saw it, even where a
  run's last lines were lost on the way. `BoardExplainsExit`: unless the code is 130, it is 2 exactly
  when such a page has a row in error, and 1 exactly when it has none and one that failed or is
  inconclusive; a row left pending means that a cancellation was requested.

`attempt` and `run` check their module's type invariant. The other components define theirs without
a run that checks it; like `CallsBounded`, they are proved.

### Fairness

In `Attempt`, weak fairness is assumed of the two clocks (time passes), of the attempt's timer, of
the launch of the browser (Playwright gives it a timeout, and it cannot be interrupted), of the
delivery of a cancellation to an effect raced with it, of the runner's own steps that wait for
nothing, and of the finalizer, which the code bounds by deadlines. *Nothing* is assumed of the
model, the page, the verifier or a check: they may never answer. `Returns` therefore rests on the
timer alone. In `Run`, the runner's steps and its deadlines are fair, the attempt returns (which is
`Returns`) and the disk answers; nothing is assumed of the fixture.

`Session`, `Verification`, `Report`, `Activity` and `Invocation` state safety only and assume no
fairness.

Limits of `Returns`: the code closes the browser without a deadline of its own
(`browser-playwright/src/driver.ts`); a close that never settles would hold the attempt, and is
assumed away.

## 4. Proofs

Checked by TLAPS for every value of the constants that satisfies the named assumptions:
`BudgetsAssumption` is what the configuration's schema admits, `UsageAssumption` that a call has a
largest cost; the others (`AttemptAssumption`, `StatusesAssumption`, `ResourcesAssumption`,
`VerificationAssumption`, `SessionAssumption`, `ReportAssumption`, `DashboardAssumption`,
`InvocationAssumption`) type the constants, name the outcomes the code itself writes, ask that a
queue holds at least one message, that the double's script is not empty, that the criteria of a
contract and the elements of a document are finite sets, and that the mark "no write is under way"
is not the name of an artifact. So every bound of section 3 is a parameter here: the theorems hold
for any number of criteria, artifacts, calls, retries, resources, documents, scenarios, lines, link
failures and refused writes.

Every invariant that a run of section 3 checks is also proved. Each proof is
`Init => IInv`, `IInv /\ [Next]_vars => IInv'`, `IInv => property`; the steps are grouped by what
they leave alone, and each part of `IInv` has the lemma that the steps preserve it.

**LawProofs.** The two abstract specifications. *Verdicts*: one lemma per rule says what it returns
(`IntegrityLaw`, `AbsenceLaw`, `PersistenceLaw`, `AdmissionLaw`), `AdjudicationLaw` chains them. The
inductive invariant is the type invariant with the verdict invariants: they carry one another
because the admission rule may keep the *earlier* result, whose evidence must still be in the
inventory, and whose status must still bow to the loss of evidence in this evaluation.
`VerdictsAreSound` gives the invariants, `DecisionsOnlyEverWorsen` and `FailuresAreAlwaysSeen` the two
action properties; the second rests on `AbsenceLaw`, and on what the later rules may do to a failure:
keep an earlier one, or replace it. *Ledger*:
`SpendBounded` is not inductive: the gate's conditions must be carried from the start of a call to
its charge, and the browsing loop's share bounded apart from the verifier's (`Ledger`).
`SpendIsBounded`, `VerifierShareIsSafe`, and `RefusalsAreFinal`, the last from the fact that
accounting only grows (`AccountingOnlyGrows`) and that each allowance of the verifier shrinks with
it.

**AttemptProofs.** The two refinements, step by step. `LedgerRefined`: an attempt's step starts a
call, ends it with or without a charge, or leaves the ledger alone. `VerdictsRefined`: what an
evaluation records is what the law makes of a proposal the callers may build, on the inventory of
that very step. What `LawProofs` proves then holds of the attempt through the instance `Laws`:
`AttemptSpendsWithinBudget` carries the ledger's bounds to an attempt's counters, and
`PassesAreEarned` (`NoSilentPass`) follows from it together with the attempt's own `IInv`: what the
fiber has in hand at each phase (`Control`), that a reported budget leaves the browsing gate closed
(`Exhaustion`), and where an end comes from (`Ending`). `ExhaustionIsFinal` rests on the second: the
verifier's gate is the last to close (`VerifierGateIsLast`), so an evaluation it refused inside the
loop leaves no browsing call either. `PendingMeansCutShort` and `AttemptTypes` follow likewise.
`ActionsAreClosed` has the hypothesis `StoreMayFail = FALSE`, which is that of the run that checks
it: a store that refuses the closing line leaves the action open, as `dispatcher.ts` accepts.

**RunProofs.** `FixturesAreReleased`, `CleanupsRunInReverse`, `JournalIsOrdered`,
`AttemptsAreRecorded`, `ValidationForesees`, `RunTypes`. The release is carried by `Cleaning`: the
cleanups already called, followed by those still queued, are the ones owed, from the last to the
first, in every phase of every path (undo of a setup, ordinary release, safety net); `Control`
says which phases hold a session, the mask or a strike, `Recording` what is on disk in each,
`Foreseeing` what `checkRun` would have said of the request being run. The two windows of section
5 appear in the proof where they are in the code: an interruption at the `fixtureReady` line, and
one that cuts the release of a rejected contract. `DoorsAgree` states of the operators of
`Preparation` alone that validate finds no problem exactly when the run is prepared with at most a
fixture's names to find.

**VerificationProofs.** `RequestsAreBounded`, `VerdictsRest`, `BlameIsOwn`, `VerificationTypes`. The
strengthening says that the counter read before a call is still the counter while it is in flight
(`Counted`), that what a call was given is never taken out of the index (`Shown`), and that the
error Jev's client remembers is of this call or of one that was in the air when it began (`Blame`).

**SessionProofs.** `ActsAreSeen` rests on `Remembered`: each of the two memories of an observation
(the session's, the dispatcher's) and the argument of the operation under way hold only references
of the document the observation is of. `CapturesAreRegistered` rests on `Gathering` (what is
registered, followed by what is gathered, is a beginning of one list) and `Settling` (a finalize
begins again only if it had not run); `ClosingIsOrdered` on `Contained`. `SessionTypes`.

**ReportProofs.** `CitationsAreOnDisk`, `ReadersAgree`, `GreenIsPassed`, `ReportTypes`. `Storing`
relates memory and file around the one write under way; `Telling` relates the board to both, and to
the results of every criterion whose last line was told; `Owed` says that what is `untold` is about
to be told, or that something was refused or cut; `Control` says what a report was built from. Lemmas
state what the page's reducer, the view, the JUnit cases and the aggregate return.

**ActivityProofs.** `TimelinesAlwaysAgree`, `GaugesAlwaysReconcile`, `OwnersAlwaysAgree`,
`ActivityTypes`, for any number of lines, actions and refused lines, and a cancellation, an
interruption or the deadline between any two lines. Every step makes one of four moves (`Moves`): it
writes nothing, a line that is not an action's, the line that opens one, or the line that closes it;
and it takes the attempt onward (`Onward`: no identifier is opened or ended twice). `Story` relates
lines and rows one by one, `Pairs` the outcome of an action's row to the line that ends it, under
what can still be opened (`Unopened`) or ended (`Unended`). `Owned` says that the last action the
page opened is the one under way and that a capture is linked to its line or a later one, until a
line is refused. `Gauges` bounds what is shown by what was counted, with the tokens not told yet and
the action not shown yet; `Exact` makes it an equality as long as nothing was refused or cut short
(`Whole`). `Calls` says that the gauge of calls is at most one ahead, with `Halted` for the attempt
that was struck: it starts no other call. Where the attempt can be (`Placed`) carries them all.

**InvocationProofs.** `BoardsAreTrue`, `BoardsEndTrue`, `LinesAreDurable`, `BoardsExplainExits`,
`InvocationTypes`, of the CLI, the store's fan-out, the bus, one client's stream and the page at once.
`Stream` is the delivery invariant: the numbers in flight are consecutive and end at the encoder's
`lastSent`, which is at most the page's cursor and the frames in flight; so a frame is either the
page's next or a repetition, whatever was dropped, resumed or reconnected. `Chronicle` says what the
suite journal holds of each scenario, `Live` that what is on its way is on disk, `Torn` which of its
lines are glued to a part of another, `Ended` what the exit code was made of, `Numbered` that the
lines of a run are numbered in order across the fan-out and the journal, `Told` and `Applied` what
the page makes of the messages up to its cursor.

Only model-checked:

* Liveness (`Returns`, `CancelHonoured`, `Ends`), since its proofs need ENABLED and fairness, which
  the prover does not handle.
* `ActionsClosed` when the store refuses writes: no claim is made there.

## 5. What the code does that a reader of the documents would not expect

Two disagreements have a run that exhibits them (see `findings` in `PROJECT.json`):

* `fixture_leak`: a fixture is not released when an interruption strikes between its hand-over and
  the safety net;
* `stale_settled`: a navigation that fails or times out after the document changed leaves the
  dispatcher sure that the page has settled.

Others were met while modelling and have no run of their own; the passing properties state what
holds in their place.

Exit codes and records:

* A dashboard cancellation heard between two scenarios ends the invocation with the code of those
  that ran, 0 when they passed or when none ran (`commands/run.ts:110`, `exitFor`), while
  `README.md:515` says of 0 that every selected scenario passed, and `README.md:615` of Cancel that
  it exits 130. `BoardExplainsExit` lets a row stay pending next to a code other than 130 only after
  a cancellation was requested.
* An append that stops in the middle of a line leaves that part in `events.jsonl`; the next line is
  glued to it, announced to the page, and invalid to the journal's readers (`store/jsonl.ts`), while
  `runStore.ts:150` says that a subscriber never observes an unjournalled event, and `README.md:554`
  that the dashboard never shows what the journal does not have. `LiveLinesAreWritten` has that line
  as its exception.
* Before the attempt nothing masks an interruption (`runner.ts:353`): a run that has a manifest then
  ends without `result.json` and `runFinished`, while `design-contracts.md:282` says that the
  finalize tail always runs, and `README.md:521` that `result.json` exists by then.
  `AttemptIsRecorded` says what holds, from the attempt on.

Verdicts, budgets, stopping:

* The history of a decided criterion is dropped when a later answer passes through an unsettled
  verdict: `verdict.ts:52` replaces the result whole, while `verdict.ts:80` says it is kept.
* `dispatcher.ts:193` remembers the action in flight once its first line is written, and forgets it
  before the last: an interruption while either is being written leaves an `actionStarted` unpaired,
  which `docs/internal/design-contracts.md:221` excludes.
* The tool calls left in a turn are still dispatched after the verifier's gate reported
  `budgetExhausted` in it (`runner.ts:1168` stops for `finish` and for an error only), while
  `design-contracts.md:268` says that no tool call follows. `ExhaustionStopsBrowsing` says what
  holds, of browsing calls.
* The gate's clock counts from the start of the run, fixture setup included; the attempt's timer
  starts with the attempt. `domain/budgets.ts:45` describes only the latter.
* Total spend may exceed the ceiling by one call of each role, more than "overshoot plus the
  reserve" suggests; `SpendBounded` states the exact bound.
* A cancellation requested while the first navigation fails is reported as an error.
* A dashboard whose slow client's queue drops `cliFinished`, the last message, never learns of it:
  gaps are filled when a later message comes.
* Lines still in the store's fan-out when a run's scope closes never reach the dashboard, while
  `apps/cli/README.md` documents only the loss of a consumer that lags by more than 1024.
* A verifier call that fails is neither counted nor charged.
* `dispatcher.ts:389` says that the page is unsettled "until the page is observed again", but
  `observe` does not settle it; only a navigation does. The error is on the careful side.

Browser and evaluators:

* A result of `observe` may join the snapshot of one document with the title and URL of the next,
  when the page navigates between the two.
* A keyboard press without a reference is accepted with an observation of an older document.
* A Jev call given up is not aborted; its late error can be read by a later call and decide whether
  that one is retried. `OutagesAreOwn` makes it the one exception.
* Jev drops what a passed judgment says is missing, while `verifier/validate.ts` says that a `passed`
  cannot claim to still need proof.
* Names that every record inherits (`{{ toString }}`) resolve although nothing declares them.

The two readers of a run:

* The page's gauges of model calls and tokens ("of which verifier", `Budgets.tsx:63`) never include
  the verifier: its calls are counted (`runner.ts:699`) and have no line. `GaugesReconcile` states
  the difference.
* The page's "accepted actions" count checks and `finish` (`reducer.ts:299`), which
  `dispatcher.ts:63` and `design-contracts.md:226` exclude.
* `apps/ui/src/types/events.ts:6` claims a field-for-field copy of the core's event types; its
  `BudgetKind` (line 47) lacks `maxIdleTurns` and `fixtureSetupTimeout`. Nothing breaks: the name is
  only printed. `TimelinesAgree` excepts it.
* The captures of the final pass are shown under the last action (`reducer.ts:38`), while
  `state/model.ts:68` says "the action this artifact was captured during".
* The page turns a criterion that is still pending into inconclusive at `runFinished`; the report
  keeps it pending, as `README.md:505` describes. `BoardMatchesReport` states the difference.
* `loadReportInput` requires `result.json`, although its comment calls the manifest the only
  mandatory file, and `README.md:573` says that Ctrl-C still yields JUnit and a report.
* An artifact whose line is refused after its inventory write is reported as not recorded, although
  `artifacts.json` holds it.
* A reporter whose write fails leaves its temporary file behind.
* The encoder of `/api/ui/events` keeps the last number it sent while the per-run journal is reset
  for the next scenario.

## 6. What is not modelled

* Text processing: Markdown and schema decoding of specifications and configuration, hashing,
  redaction, origins, prompts. Functions without state, which unit tests reach.
* Layout: the HTML report, the console's, and the components of the page beyond what their gauges
  read.
* The adapters of model SDKs (tool protocol, options, streaming) and the inside of a snapshot (its
  elements are a set).
* `/api/ui/events`, the static files and the artifacts routes of the dashboard server: the CLI gives
  its page the suite stream.
* `list`, `init`, selection and overrides of the CLI: single passes over text.
* Examples and the application the end-to-end tests drive.

Bounds of what is modelled: `Run` takes an attempt as one step, and `Activity` an evaluation's
verdict as unknown; `Attempt` composes with both through the statuses and lines they exchange, and
no run checks all three at once, which would be out of TLC's reach.

## 7. Plan

Done, in this order: `Adjudication`, `Verdicts` and their proofs; `Budgets`, `BudgetLedger` and
their proofs; `Attempt` and its refinements; `Fixtures` and `Run`; `Dashboard` and `Invocation`;
`Preparation` with `Run`; `Session`; `Verification`; `Report`; `Activity`.

The refinements, and every safety property that a run checks, are proved.

Left: `Run` over an attempt that takes steps, by composing the statuses and lines the two exchange.
