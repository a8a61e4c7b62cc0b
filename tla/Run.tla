-------------------------------- MODULE Run ---------------------------------
(***************************************************************************)
(* One run of a scenario: runScenario and finalize (runner/runner.ts) over *)
(* the fixture manager (module Fixtures).  The attempt is what module      *)
(* Attempt details; here it returns with some status.  The fiber of the    *)
(* run may be interrupted at any await until the attempt, which holds the  *)
(* rest of the run in an uninterruptible mask.  `pc`:                      *)
(*                                                                         *)
(*   begin, config, persist   runStarted, configResolved, first manifest   *)
(*   prepare                  inputs, registries                           *)
(*   setup, undo              the fixture's setup, its own cleanups when   *)
(*                            it did not succeed                           *)
(*   announce                 the fixtureReady line                        *)
(*   freeze, rejecting        the contract; a rejected one releases first  *)
(*   contract, remanifest     contract.json, the final manifest            *)
(*   attempt, release         the attempt, then the fixture's cleanup      *)
(*   reportError, reportExhausted   the journal line of an early end       *)
(*   record, conclude         result.json, the runFinished line            *)
(*   leaving                  the safety net of a run that is going away   *)
(*   over                                                                  *)
(***************************************************************************)
EXTENDS Fixtures, Preparation

CONSTANTS
  RunStatuses,   \* what an attempt can be reported as
  Requests       \* specifications, with the configuration and inputs they may be run with

\* finalize writes these two itself; "none" stands for a result that is not written.
ASSUME StatusesAssumption ==
  {"error", "inconclusive"} \subseteq RunStatuses /\ "none" \notin RunStatuses

VARIABLES
  pc, exit,         \* where the fiber is, how it ended
  journal,          \* events.jsonl, its lines by type
  manifest, result, \* manifest.json and result.json
  verdict,          \* the status finalize will write
  session,          \* the runner holds a fixture session
  fixtureReleased,
  masked,           \* inside the uninterruptible mask
  interrupted, struckAt,  \* an interruption was asked for; where it struck
  refused,          \* the store has refused a write
  told,             \* what `difmp validate` says of the same specification and configuration
  unresolved,       \* names the prepared contract has still to find
  public,           \* the names a fixture exposes
  stage             \* where result.json says an early end struck

preparation == <<told, unresolved, public, stage>>

runVars == <<exit, journal, manifest, result, verdict, session, fixtureReleased, masked,
             interrupted, struckAt, refused, preparation>>

vars == <<pc, runVars, fixtureVars>>

-----------------------------------------------------------------------------
(* State                                                                    *)

Lines == {"runStarted", "configResolved", "error", "budgetExhausted", "fixtureReady",
          "contractFrozen", "fixtureCleaned", "runFinished"}

\* What the journal may already hold of the line a phase is writing when it is cut short.
LineOf == [begin |-> "runStarted", config |-> "configResolved", announce |-> "fixtureReady",
           rejecting |-> "fixtureCleaned", remanifest |-> "contractFrozen",
           reportError |-> "error", reportExhausted |-> "budgetExhausted",
           conclude |-> "runFinished"]

EarlyPhases == {"begin", "config", "persist", "prepare", "setup", "announce", "freeze",
                "rejecting", "contract", "remanifest", "reportError", "reportExhausted"}

Phases == EarlyPhases \cup {"undo", "attempt", "release", "record", "conclude", "leaving", "over"}

TypeOK ==
  /\ FixturesTypeOK
  /\ pc \in Phases
  /\ exit \in {"none", "returned", "failed", "interrupted"}
  /\ journal \in Seq(Lines)
  /\ manifest \in {"none", "initial", "final"}
  /\ {result, verdict} \subseteq RunStatuses \cup {"none"}
  /\ {session, fixtureReleased, masked, interrupted, refused} \subseteq BOOLEAN
  /\ struckAt \in Phases \cup {"none"}
  /\ told \in {"nothing", "clean", "problems"}
  /\ \A name \in public : name \in FixtureKeys
  /\ unresolved \cap (Reserved \cup Inherited) = {}
  /\ stage \in {"none", "validate", "fixture-setup", "contract"}

Init ==
  /\ FixturesInit
  /\ pc = "begin" /\ exit = "none"
  /\ journal = <<>> /\ manifest = "none" /\ result = "none" /\ verdict = "none"
  /\ session = FALSE /\ fixtureReleased = FALSE /\ masked = FALSE
  /\ interrupted = FALSE /\ struckAt = "none" /\ refused = FALSE
  /\ told = "nothing" /\ unresolved = {} /\ public = {} /\ stage = "none"

-----------------------------------------------------------------------------
(* Writing                                                                  *)

\* A line whose failure is ignored.
Emit(line) ==
  \/ journal' = Append(journal, line) /\ UNCHANGED refused
  \/ refused' = TRUE /\ UNCHANGED journal

\* cleanupFixture: at most once, and only for a fixture that was handed over.
CleanupFixture ==
  IF session /\ ~ fixtureReleased
  THEN fixtureReleased' = TRUE /\ StartCleanups
  ELSE UNCHANGED <<fixtureReleased, fixtureVars>>

\* The end of the run's fiber: through the safety net, which is attached to all that
\* follows the fixtureReady line and finds nothing left to do once the fixture is
\* released.
Leave(from) ==
  IF session /\ ~ fixtureReleased /\ from # "announce"
  THEN pc' = "leaving" /\ CleanupFixture
  ELSE pc' = "over" /\ UNCHANGED <<fixtureReleased, fixtureVars>>

\* The contractFrozen line comes before the manifest is rewritten.
FrozenLine ==
  \/ UNCHANGED journal
  \/ pc = "remanifest" /\ journal' = Append(journal, LineOf[pc])

\* A plausible slip: a store failure walks out of the run, as it used to.
StoreRefusesUnguarded ==
  /\ pc \in {"begin", "config", "persist", "contract", "remanifest", "record"}
  /\ refused' = TRUE /\ exit' = "failed"
  /\ FrozenLine
  /\ pc' = "over"
  /\ UNCHANGED <<manifest, result, verdict, session, fixtureReleased, masked,
                 interrupted, struckAt, preparation, fixtureVars>>

\* A write the run cannot do without is refused: it fails with a RunFailure.
StoreRefuses ==
  /\ pc \in {"begin", "config", "persist", "contract", "remanifest", "record"}
  /\ refused' = TRUE /\ exit' = "failed"
  /\ FrozenLine
  /\ Leave(pc)
  /\ UNCHANGED <<manifest, result, verdict, session, masked, interrupted, struckAt, preparation>>

-----------------------------------------------------------------------------
(* Before the attempt                                                       *)

Begin ==
  /\ pc \in {"begin", "config"}
  /\ journal' = Append(journal, LineOf[pc])
  /\ pc' = IF pc = "begin" THEN "config" ELSE "persist"
  /\ UNCHANGED <<exit, manifest, result, verdict, session, fixtureReleased, masked, interrupted,
                 struckAt, refused, preparation, fixtureVars>>

WriteInitialManifest ==
  /\ pc = "persist"
  /\ manifest' = "initial"
  /\ pc' = "prepare"
  /\ UNCHANGED <<exit, journal, result, verdict, session, fixtureReleased, masked, interrupted,
                 struckAt, refused, preparation, fixtureVars>>

\* What validate would have said, had it been asked: nothing of inputs it is not given.
Foretell(request) ==
  told' = IF DOMAIN request.file \cup DOMAIN request.cli # {} THEN "nothing"
          ELSE IF FindsNoProblem(request) THEN "clean" ELSE "problems"

\* The inputs stage, then the registries: prepareRun.
Prepare ==
  /\ pc = "prepare"
  /\ \E request \in Requests :
       /\ Prepares(request) /\ Foretell(request)
       /\ unresolved' = Unresolved(request.texts, DOMAIN Merged(request))
       /\ IF request.fixture = None
          THEN pc' = "freeze" /\ UNCHANGED fixtureVars
          ELSE pc' = "setup" /\ StartScript
  /\ UNCHANGED <<exit, journal, manifest, result, verdict, session, fixtureReleased, masked,
                 interrupted, struckAt, refused, public, stage>>

PrepareFails ==
  /\ pc = "prepare"
  /\ \E request \in Requests : ~ Prepares(request) /\ Foretell(request)
  /\ verdict' = "error" /\ stage' = "validate"
  /\ pc' = "reportError"
  /\ UNCHANGED <<exit, journal, manifest, result, session, fixtureReleased, masked, interrupted,
                 struckAt, refused, unresolved, public, fixtureVars>>

SetupReturns ==
  /\ pc = "setup"
  /\ ScriptEnds("ended") /\ UNCHANGED queue
  /\ session' = TRUE
  /\ public' \in SUBSET FixtureKeys
  /\ pc' = "announce"
  /\ UNCHANGED <<exit, journal, manifest, result, verdict, fixtureReleased, masked, interrupted,
                 struckAt, refused, told, unresolved, stage>>

\* A setup that threw, or exceeded its timeout: what it had acquired is released first.
SetupFails(status) ==
  /\ pc = "setup"
  /\ ScriptEnds("ended") \/ (status = "inconclusive" /\ ScriptEnds("abandoned"))
  /\ queue' = Cleanups
  /\ verdict' = status
  /\ stage' = IF status = "error" THEN "fixture-setup" ELSE "none"
  /\ pc' = "undo"
  /\ UNCHANGED <<exit, journal, manifest, result, session, fixtureReleased, masked, interrupted,
                 struckAt, refused, told, unresolved, public>>

SetupThrows == SetupFails("error")

\* A plausible slip: the setup has no deadline, as it used to.
SetupNeverTimesOut == FALSE

SetupTimesOut == SetupFails("inconclusive")

UndoDone ==
  /\ pc = "undo" /\ queue = <<>>
  /\ pc' = IF exit = "interrupted" THEN "over"
           ELSE IF verdict = "error" THEN "reportError" ELSE "reportExhausted"
  /\ UNCHANGED <<runVars, fixtureVars>>

\* fixtureReady, and the journal lines of an early end.
AnnounceFixture ==
  /\ pc = "announce" /\ Emit("fixtureReady")
  /\ pc' = "freeze"
  /\ UNCHANGED <<exit, manifest, result, verdict, session, fixtureReleased, masked, interrupted,
                 struckAt, preparation, fixtureVars>>

ReportEarlyEnd ==
  /\ pc \in {"reportError", "reportExhausted"} /\ Emit(LineOf[pc])
  /\ pc' = "record"
  /\ UNCHANGED <<exit, manifest, result, verdict, session, fixtureReleased, masked, interrupted,
                 struckAt, preparation, fixtureVars>>

FreezeContract ==
  /\ pc = "freeze" /\ Freezes(unresolved, public)
  /\ pc' = "contract"
  /\ UNCHANGED <<runVars, fixtureVars>>

\* A contract that does not freeze: the fixture is released, then the error reported.
FreezeFails ==
  /\ pc = "freeze" /\ ~ Freezes(unresolved, public)
  /\ verdict' = "error" /\ stage' = "contract"
  /\ pc' = (IF session THEN "rejecting" ELSE "reportError") /\ CleanupFixture
  /\ UNCHANGED <<exit, journal, manifest, result, session, masked, interrupted, struckAt, refused,
                 told, unresolved, public>>

\* contract.json; its contractFrozen line is written in the next phase.
WriteContract ==
  /\ pc = "contract"
  /\ pc' = "remanifest"
  /\ UNCHANGED <<runVars, fixtureVars>>

WriteFinalManifest ==
  /\ pc = "remanifest" /\ Emit("contractFrozen")
  /\ manifest' = "final"
  /\ masked' = TRUE
  /\ pc' = "attempt"
  /\ UNCHANGED <<exit, result, verdict, session, fixtureReleased, interrupted, struckAt,
                 preparation, fixtureVars>>

-----------------------------------------------------------------------------
(* The attempt and what follows it                                          *)

\* A plausible slip: the release is left to the safety net.
AttemptReturnsUnreleased(status) ==
  /\ pc = "attempt"
  /\ verdict' = status
  /\ pc' = "record"
  /\ UNCHANGED <<exit, journal, manifest, result, session, fixtureReleased, masked, interrupted,
                 struckAt, refused, preparation, fixtureVars>>

AttemptReturns(status) ==
  /\ pc = "attempt"
  /\ verdict' = status
  /\ pc' = "release" /\ CleanupFixture
  /\ UNCHANGED <<exit, journal, manifest, result, session, masked, interrupted, struckAt, refused,
                 preparation>>

\* The cleanup came back, or its deadline passed.
ReleaseDone ==
  /\ pc \in {"release", "rejecting", "leaving"} /\ queue = <<>>
  /\ IF session THEN Emit("fixtureCleaned") ELSE UNCHANGED <<journal, refused>>
  /\ pc' = [release |-> "record", rejecting |-> "reportError", leaving |-> "over"][pc]
  /\ UNCHANGED <<exit, manifest, result, verdict, session, fixtureReleased, masked, interrupted,
                 struckAt, preparation, fixtureVars>>

WriteResult ==
  /\ pc = "record"
  /\ result' = verdict
  /\ pc' = "conclude"
  /\ UNCHANGED <<exit, journal, manifest, verdict, session, fixtureReleased, masked, interrupted,
                 struckAt, refused, preparation, fixtureVars>>

\* The last line of the journal.
Conclude ==
  /\ pc = "conclude" /\ Emit("runFinished")
  /\ exit' = "returned"
  /\ Leave(pc)
  /\ UNCHANGED <<manifest, result, verdict, session, masked, interrupted, struckAt, preparation>>

-----------------------------------------------------------------------------
(* The fixture's own steps, and interruption                                *)

FixtureAcquires == Acquire /\ UNCHANGED <<pc, runVars>>

CleaningUp == pc \in {"undo", "rejecting", "release", "leaving"}

FixtureCleanup == CleaningUp /\ RunCleanup /\ UNCHANGED <<pc, runVars>>

CleanupDeadline == CleaningUp /\ CleanupsTimeOut /\ UNCHANGED <<pc, runVars>>

Interrupt ==
  /\ ~ interrupted /\ pc # "over"
  /\ interrupted' = TRUE
  /\ UNCHANGED <<pc, exit, journal, manifest, result, verdict, session, fixtureReleased, masked,
                 struckAt, refused, preparation, fixtureVars>>

\* A plausible slip: the tail that follows an attempt can be interrupted too.
InterruptibleEverywhere == EarlyPhases \cup {"record", "conclude"}

Interruptible == EarlyPhases \cup (IF masked THEN {} ELSE {"record", "conclude"})

\* Whatever the phase was writing may have landed.  A setup is told to stop and its
\* cleanups run; a release that was under way is not resumed.
InterruptStrikes ==
  /\ interrupted /\ struckAt = "none" /\ pc \in Interruptible
  /\ struckAt' = pc /\ exit' = "interrupted"
  /\ \/ UNCHANGED journal
     \/ /\ pc \in DOMAIN LineOf /\ queue = <<>>
        /\ journal' = Append(journal, LineOf[pc])
  /\ \/ UNCHANGED manifest
     \/ pc = "persist" /\ manifest' = "initial"
     \/ pc = "remanifest" /\ manifest' = "final"
  /\ \/ UNCHANGED result
     \/ pc = "record" /\ result' = verdict
  /\ \/ /\ pc = "setup"
        /\ ScriptEnds("ended") \/ ScriptEnds("abandoned")
        /\ queue' = Cleanups
        /\ pc' = "undo" /\ UNCHANGED fixtureReleased
     \/ /\ pc = "rejecting"
        /\ queue' = <<>> /\ pc' = "over"
        /\ UNCHANGED <<fixtureReleased, script, registered, owed, called, timedOut>>
     \/ pc \notin {"setup", "rejecting"} /\ Leave(pc)
  /\ UNCHANGED <<verdict, session, masked, interrupted, refused, preparation>>

-----------------------------------------------------------------------------
\* What a fixture does in its own time, if ever.
Fixture == FixtureAcquires \/ SetupReturns \/ SetupThrows \/ FixtureCleanup

Runner ==
  \/ Begin \/ WriteInitialManifest \/ StoreRefuses
  \/ Prepare \/ PrepareFails
  \/ SetupTimesOut \/ UndoDone \/ CleanupDeadline
  \/ AnnounceFixture \/ ReportEarlyEnd
  \/ FreezeContract \/ FreezeFails \/ WriteContract \/ WriteFinalManifest
  \/ \E status \in RunStatuses : AttemptReturns(status)
  \/ ReleaseDone \/ WriteResult \/ Conclude
  \/ InterruptStrikes

Next == Fixture \/ Runner \/ Interrupt

\* The runner's own steps and its deadlines are fair, the attempt returns (module
\* Attempt), the disk answers.  Nothing is assumed of the fixture.
Spec == Init /\ [][Next]_vars /\ WF_vars(Runner)

-----------------------------------------------------------------------------
(* Properties *)

Over == pc = "over"

Positions(line) == {i \in 1..Len(journal) : journal[i] = line}

\* runFinished is the last line of a journal, whatever became of the run, and what it
\* announces is already on disk; a fixture is reported cleaned at most once.
JournalOrdered ==
  /\ \A i \in Positions("runFinished") : i = Len(journal) /\ result # "none"
  /\ \A i, j \in Positions("fixtureCleaned") : i = j

\* The last thing a fixture acquired is the first released, and nothing is released
\* twice, however many of the runner's and the manager's hooks fire.
CleanedOnceInReverse ==
  \A i, j \in 1..Len(called) : i < j => called[i] > called[j]

Released == timedOut \/ \A n \in 1..owed : \E i \in 1..Len(called) : called[i] = n

\* Whatever ends a run (a status, a store failure, a rejected contract, a setup that
\* threw or never returned, an interruption), every cleanup its fixture had registered
\* was called or met the deadline; two windows apart, in which an interruption strikes.
GuardedFixtureReleased ==
  Over /\ struckAt \notin {"announce", "rejecting"} => Released

\* Stated by runner.ts:306 (its release is attached to the whole remainder of the run
\* right where it is acquired) and design-contracts.md:543.
FixtureReleased == Over => Released

\* From the attempt on, nothing but a store that refuses loses the record of a run:
\* not an interruption, at any moment.
AttemptIsRecorded ==
  Over /\ masked /\ ~ refused =>
    /\ exit = "returned" /\ result = verdict
    /\ Positions("runFinished") # {}
    /\ session => Positions("fixtureCleaned") # {}

\* validate and run read a specification the same way.  Of a run without inputs of its
\* own: what validate found no problem with is refused, before the attempt, for a value
\* its fixture does not expose or not at all; what it found a problem with is never
\* attempted.
ValidateForesees ==
  /\ told = "clean" =>
       stage # "validate" /\ (stage = "contract" => unresolved \subseteq FixtureKeys)
  /\ told = "problems" => ~ masked

\* A run always ends, even if its fixture's setup or its cleanup never returns.
Ends == <>Over
=============================================================================
