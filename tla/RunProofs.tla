------------------------------ MODULE RunProofs ------------------------------
(***************************************************************************)
(* What module Run promises of a run, for every set of requests, every     *)
(* bound on a fixture's resources and every status an attempt can end in.  *)
(*                                                                         *)
(* None of the safety properties is inductive.  What carries them is which *)
(* phases can hold a fixture session, the mask or a strike (Control), how  *)
(* far the cleanups of a fixture have come (Cleaning), what the journal    *)
(* and the result have in each phase (Recording), and what was foretold    *)
(* of the request that is being run (Foreseeing).                          *)
(***************************************************************************)
EXTENDS Run, SequenceTheorems, TLAPS

-----------------------------------------------------------------------------
(* The inductive invariant.                                                 *)

\* The phases before a fixture can exist.
BeforeFixture == {"begin", "config", "persist", "prepare"}

\* What each phase says of the mask, the strike, the fixture session and its script.
Control ==
  /\ struckAt # "none" <=> exit = "interrupted"
  /\ struckAt # "none" => pc \in {"undo", "leaving", "over"} /\ ~ masked
  /\ masked => pc \in {"attempt", "release", "record", "conclude", "leaving", "over"}
  /\ pc \in {"attempt", "release"} => masked
  /\ session => script = "ended" /\ pc \notin BeforeFixture \cup {"setup", "undo"}
  /\ fixtureReleased =>
       session /\ pc \notin {"announce", "freeze", "contract", "remanifest", "attempt"}
  /\ pc \in BeforeFixture => script = "idle"
  /\ script = "running" <=> pc = "setup"
  /\ pc \in {"announce", "rejecting", "leaving"} => session
  /\ pc \in {"rejecting", "reportError", "reportExhausted", "release", "record", "conclude"} =>
       verdict # "none"
  /\ pc = "undo" /\ exit # "interrupted" => verdict \in {"error", "inconclusive"}

\* Held: the fixture was handed over and its release has not begun.
Held == session /\ ~ fixtureReleased

\* Everything owed was called, or the deadline passed.
Settled == timedOut \/ Len(called) = owed

\* The cleanups called so far, and those still queued, are those the setup left, from the
\* last to the first; and what the queue has still to call is what makes the release whole.
Cleaning ==
  /\ script = "idle" => registered = 0 /\ owed = 0
  /\ script = "running" => owed = 0
  /\ script = "ended" => registered = owed
  /\ Len(called) <= owed
  /\ \A i \in 1..Len(called) : called[i] = owed + 1 - i
  /\ queue # <<>> =>
       /\ CleaningUp
       /\ Len(called) + Len(queue) = owed
       /\ \A i \in 1..Len(queue) : queue[i] = owed + 1 - Len(called) - i
  /\ Held \/ pc = "setup" => called = <<>> /\ queue = <<>>
  /\ CleaningUp => ~ Held /\ (timedOut \/ Len(called) + Len(queue) = owed)
  /\ pc \in {"reportError", "reportExhausted", "record", "conclude"} => ~ Held
  /\ ~ CleaningUp /\ ~ Held => Settled \/ struckAt = "rejecting"
  /\ pc = "over" /\ Held => struckAt = "announce"

\* What the journal and the result already have.
Recording ==
  /\ Positions("runFinished") # {} => pc = "over" /\ result # "none"
  /\ \A i \in Positions("runFinished") : i = Len(journal)
  /\ Positions("fixtureCleaned") # {} => session /\ fixtureReleased /\ ~ CleaningUp
  /\ \A i, j \in Positions("fixtureCleaned") : i = j
  /\ pc = "conclude" => result = verdict
  /\ masked /\ ~ refused =>
       /\ pc # "leaving"
       /\ pc \in {"record", "conclude", "over"} /\ session => Positions("fixtureCleaned") # {}
       /\ pc = "over" => /\ exit = "returned" /\ result = verdict
                         /\ Positions("runFinished") # {}

\* What validate would have said bears on the names that are left to find.
Foreseeing ==
  /\ pc \in BeforeFixture \cup {"setup", "announce", "freeze", "contract", "remanifest"} =>
       stage = "none"
  /\ told = "clean" => stage # "validate" /\ unresolved \subseteq FixtureKeys
  /\ told = "problems" => stage = "validate" \/ ~ (unresolved \subseteq FixtureKeys)
  /\ masked \/ pc \in {"contract", "remanifest"} => told # "problems"

IInv == TypeOK /\ Control /\ Cleaning /\ Recording /\ Foreseeing

-----------------------------------------------------------------------------
(* The operators.                                                           *)

\* The snapshot of runCleanups: every cleanup registered, the last one first.
LEMMA CleanupsLaw ==
  ASSUME registered \in 0..MaxResources
  PROVE  /\ Cleanups \in Seq(1..MaxResources) /\ Len(Cleanups) = registered
         /\ \A i \in 1..registered : Cleanups[i] = registered + 1 - i
         /\ registered = 0 => Cleanups = <<>>
<1>1. Cleanups \in [1..registered -> 1..MaxResources]
  BY ResourcesAssumption DEF Cleanups
<1>2. Cleanups \in Seq(1..MaxResources)
  <2>1. \E n \in Nat : Cleanups \in [1..n -> 1..MaxResources]
    BY <1>1, ResourcesAssumption
  <2> QED BY <2>1, SeqDef, Zenon
<1>3. DOMAIN Cleanups = 1..registered
  BY DEF Cleanups
<1>4. Len(Cleanups) = registered
  BY <1>3
<1>5. registered = 0 => Cleanups = <<>>
  BY <1>4
<1> QED BY <1>2 DEF Cleanups

\* Without inputs of a run, the values in force are the specification's over the
\* configuration's: the ones validate reads.
LEMMA MergedWithoutInputs ==
  ASSUME NEW request, DOMAIN request.file \cup DOMAIN request.cli = {}
  PROVE  Merged(request) = Spread(request.config, request.spec)
<1> DEFINE inputs == Spread(request.config, request.spec)
<1>1. inputs = [key \in DOMAIN inputs |-> inputs[key]]
  BY DEF Spread
<1> HIDE DEF inputs
<1>2. Spread(inputs, request.file) = inputs
  BY <1>1 DEF Spread
<1>3. Spread(inputs, request.cli) = inputs
  BY <1>1 DEF Spread
<1> QED BY <1>2, <1>3 DEF Merged, inputs

\* What validate finds no problem with is prepared, and its texts leave at most a
\* fixture's names to find.
LEMMA CleanIsPrepared ==
  ASSUME NEW request, DOMAIN request.file \cup DOMAIN request.cli = {},
         FindsNoProblem(request)
  PROVE  /\ Prepares(request)
         /\ Unresolved(request.texts, DOMAIN Merged(request)) \subseteq FixtureKeys
<1>1. Merged(request) = Spread(request.config, request.spec)
  BY MergedWithoutInputs
<1>2. InputsResolve(request) /\ RegistriesKnow(request)
  BY <1>1 DEF FindsNoProblem, InputsResolve, RegistriesKnow, KeysAreDeclared
<1>3. Unresolved(request.texts, DOMAIN Merged(request)) \subseteq FixtureKeys
  BY <1>1 DEF FindsNoProblem, Unresolved, Interpolates
<1> QED BY <1>2, <1>3 DEF Prepares

\* What validate finds a problem with, and is prepared all the same, cites a name that
\* no fixture can give.
LEMMA ProblemIsUnresolved ==
  ASSUME NEW request, DOMAIN request.file \cup DOMAIN request.cli = {},
         ~ FindsNoProblem(request), Prepares(request)
  PROVE  ~ (Unresolved(request.texts, DOMAIN Merged(request)) \subseteq FixtureKeys)
<1>1. Merged(request) = Spread(request.config, request.spec)
  BY MergedWithoutInputs
<1>2. PICK text \in request.texts :
        ~ Interpolates(text, DOMAIN Merged(request), {}, "validate")
  BY <1>1 DEF FindsNoProblem, Prepares, InputsResolve, RegistriesKnow
<1> QED BY <1>2 DEF Unresolved, Interpolates

\* The two doors read a specification the same way, whatever it cites and declares: without
\* inputs of a run, `difmp validate` finds no problem exactly when the run is prepared with
\* nothing left to find but names of its fixture.
THEOREM DoorsAgree ==
  ASSUME NEW request, DOMAIN request.file \cup DOMAIN request.cli = {}
  PROVE  FindsNoProblem(request) <=>
           /\ Prepares(request)
           /\ Unresolved(request.texts, DOMAIN Merged(request)) \subseteq FixtureKeys
<1>1. FindsNoProblem(request) \in BOOLEAN /\ Prepares(request) \in BOOLEAN
  BY DEF FindsNoProblem, Prepares, InputsResolve, RegistriesKnow, FixtureIsKnown,
         KeysAreDeclared, ResolvesInputs
<1> QED BY <1>1, CleanIsPrepared, ProblemIsUnresolved

\* A line more in the journal, at its end.
LEMMA OneLineMore ==
  ASSUME journal \in Seq(Lines), NEW line \in Lines, journal' = Append(journal, line)
  PROVE  /\ journal' \in Seq(Lines) /\ Len(journal') = Len(journal) + 1
         /\ \A other \in Lines :
              Positions(other)' = Positions(other) \cup
                                    (IF other = line THEN {Len(journal')} ELSE {})
<1>1. /\ journal' \in Seq(Lines) /\ Len(journal') = Len(journal) + 1 /\ Len(journal) \in Nat
      /\ \A i \in 1..Len(journal) : journal'[i] = journal[i]
      /\ journal'[Len(journal')] = line
  BY LenProperties
<1> QED BY DEF Positions

\* What a line whose failure is ignored leaves in the journal.
LEMMA EmitLaw ==
  ASSUME journal \in Seq(Lines), NEW line \in Lines, Emit(line)
  PROVE  /\ \A other \in Lines \ {line} : Positions(other)' = Positions(other)
         /\ \/ refused' /\ Positions(line)' = Positions(line)
            \/ /\ refused' = refused
               /\ Positions(line)' = Positions(line) \cup {Len(journal')}
<1>1. CASE journal' = Append(journal, line) /\ UNCHANGED refused
  <2>1. \A other \in Lines :
          Positions(other)' = Positions(other) \cup (IF other = line THEN {Len(journal')} ELSE {})
    BY <1>1, OneLineMore
  <2> QED BY <1>1, <2>1
<1>2. CASE refused' = TRUE /\ UNCHANGED journal
  BY <1>2 DEF Positions
<1> QED BY <1>1, <1>2 DEF Emit

-----------------------------------------------------------------------------
(* The invariant, part by part: one step for each action.                   *)

\* Every step of a fixture, and every thing the runner does to its queue.
LEMMA FixtureStepTyped ==
  ASSUME FixturesTypeOK,
         \/ StartScript \/ Acquire \/ StartCleanups \/ RunCleanup \/ CleanupsTimeOut
         \/ \E how \in {"ended", "abandoned"} : ScriptEnds(how) /\ queue' \in {queue, Cleanups}
         \/ queue' \in {<<>>, queue} /\ UNCHANGED <<script, registered, owed, called, timedOut>>
  PROVE  FixturesTypeOK'
<1>1. /\ Cleanups \in Seq(1..MaxResources) /\ Len(Cleanups) = registered
      /\ registered \in 0..MaxResources
  BY CleanupsLaw DEF FixturesTypeOK
<1>2. CASE RunCleanup
  <2>1. /\ Head(queue) \in 1..MaxResources /\ Len(queue) \in Nat
        /\ queue' \in Seq(1..MaxResources) /\ Len(queue') = Len(queue) - 1
    BY <1>2, HeadTailProperties, LenProperties DEF RunCleanup, FixturesTypeOK
  <2>2. called' \in Seq(1..MaxResources)
    BY <1>2, <2>1, AppendProperties DEF RunCleanup, FixturesTypeOK
  <2>3. Len(queue') <= MaxResources
    BY <2>1, ResourcesAssumption DEF FixturesTypeOK
  <2>4. UNCHANGED <<script, registered, owed, timedOut>>
    BY <1>2 DEF RunCleanup
  <2> QED BY <2>1, <2>2, <2>3, <2>4 DEF FixturesTypeOK
<1>3. CASE StartScript \/ Acquire
  BY <1>3, ResourcesAssumption DEF StartScript, Acquire, FixturesTypeOK
<1>4. CASE StartCleanups
  BY <1>1, <1>4 DEF StartCleanups, FixturesTypeOK
<1>5. CASE \E how \in {"ended", "abandoned"} : ScriptEnds(how) /\ queue' \in {queue, Cleanups}
  <2>1. queue' \in Seq(1..MaxResources) /\ Len(queue') <= MaxResources
    BY <1>1, <1>5 DEF FixturesTypeOK
  <2>2. /\ script' \in {"ended", "abandoned"} /\ owed' = registered
        /\ UNCHANGED <<registered, called, timedOut>>
    BY <1>5 DEF ScriptEnds
  <2> QED BY <2>1, <2>2 DEF FixturesTypeOK
<1>6. CASE \/ CleanupsTimeOut
           \/ /\ queue' \in {<<>>, queue}
              /\ UNCHANGED <<script, registered, owed, called, timedOut>>
  <2>1. <<>> \in Seq(1..MaxResources) /\ Len(<<>>) <= MaxResources
    BY ResourcesAssumption
  <2>2. queue' = <<>> \/ queue' = queue
    BY <1>6 DEF CleanupsTimeOut
  <2>3. queue' \in Seq(1..MaxResources) /\ Len(queue') <= MaxResources
    BY <2>1, <2>2 DEF FixturesTypeOK
  <2> QED BY <1>6, <2>3 DEF CleanupsTimeOut, FixturesTypeOK
<1> QED BY <1>2, <1>3, <1>4, <1>5, <1>6

\* cleanupFixture keeps the types.
LEMMA ReleaseTyped ==
  ASSUME FixturesTypeOK, fixtureReleased \in BOOLEAN, CleanupFixture
  PROVE  FixturesTypeOK' /\ fixtureReleased' \in BOOLEAN
BY FixtureStepTyped DEF CleanupFixture, fixtureVars

\* So does the way out of a run.
LEMMA LeaveTyped ==
  ASSUME FixturesTypeOK, fixtureReleased \in BOOLEAN, NEW from, Leave(from)
  PROVE  FixturesTypeOK' /\ fixtureReleased' \in BOOLEAN /\ pc' \in {"leaving", "over"}
BY FixtureStepTyped, ReleaseTyped DEF Leave, fixtureVars

\* And so does a line.
LEMMA EmitTyped ==
  ASSUME journal \in Seq(Lines), refused \in BOOLEAN, NEW line \in Lines, Emit(line)
  PROVE  journal' \in Seq(Lines) /\ refused' \in BOOLEAN
BY OneLineMore DEF Emit

\* The types.
LEMMA TypePreserved ==
  ASSUME TypeOK, [Next]_vars
  PROVE  TypeOK'
<1>1. CASE FixtureAcquires
  BY <1>1, FixtureStepTyped DEF FixtureAcquires, TypeOK, runVars, preparation
<1>2. CASE SetupReturns
  BY <1>2, FixtureStepTyped DEF SetupReturns, TypeOK, Phases, EarlyPhases
<1>3. CASE \E status \in {"error", "inconclusive"} : SetupFails(status)
  BY <1>3, FixtureStepTyped, StatusesAssumption DEF SetupFails, TypeOK, Phases
<1>4. CASE FixtureCleanup
  BY <1>4, FixtureStepTyped DEF FixtureCleanup, TypeOK, runVars, preparation
<1>5. CASE Begin
  BY <1>5, FixtureStepTyped
     DEF Begin, TypeOK, Phases, EarlyPhases, Lines, preparation, fixtureVars, LineOf
<1>6. CASE WriteInitialManifest
  BY <1>6, FixtureStepTyped
     DEF WriteInitialManifest, TypeOK, Phases, EarlyPhases, preparation, fixtureVars
<1>7. CASE StoreRefuses
  <2>1. journal' \in Seq(Lines)
    BY <1>7 DEF StoreRefuses, FrozenLine, LineOf, Lines, TypeOK
  <2> QED BY <1>7, <2>1, LeaveTyped DEF StoreRefuses, TypeOK, Phases, preparation
<1>8. CASE Prepare
  BY <1>8, FixtureStepTyped
     DEF Prepare, Foretell, TypeOK, Phases, EarlyPhases, fixtureVars, Unresolved
<1>9. CASE PrepareFails
  BY <1>9, FixtureStepTyped, StatusesAssumption
     DEF PrepareFails, Foretell, TypeOK, Phases, EarlyPhases, fixtureVars
<1>10. CASE UndoDone
  BY <1>10, FixtureStepTyped
     DEF UndoDone, TypeOK, Phases, EarlyPhases, runVars, preparation, fixtureVars
<1>11. CASE CleanupDeadline
  BY <1>11, FixtureStepTyped DEF CleanupDeadline, TypeOK, runVars, preparation
<1>12. CASE AnnounceFixture
  BY <1>12, FixtureStepTyped, EmitTyped
     DEF AnnounceFixture, TypeOK, Phases, EarlyPhases, Lines, preparation, fixtureVars
<1>13. CASE ReportEarlyEnd
  BY <1>13, FixtureStepTyped, EmitTyped
     DEF ReportEarlyEnd, TypeOK, Phases, Lines, preparation, fixtureVars, LineOf
<1>14. CASE FreezeContract
  BY <1>14, FixtureStepTyped
     DEF FreezeContract, TypeOK, Phases, EarlyPhases, runVars, preparation, fixtureVars
<1>15. CASE FreezeFails
  BY <1>15, ReleaseTyped, StatusesAssumption DEF FreezeFails, TypeOK, Phases, EarlyPhases
<1>16. CASE WriteContract
  BY <1>16, FixtureStepTyped
     DEF WriteContract, TypeOK, Phases, EarlyPhases, runVars, preparation, fixtureVars
<1>17. CASE WriteFinalManifest
  BY <1>17, FixtureStepTyped, EmitTyped
     DEF WriteFinalManifest, TypeOK, Phases, Lines, preparation, fixtureVars
<1>18. CASE \E status \in RunStatuses : AttemptReturns(status)
  BY <1>18, ReleaseTyped DEF AttemptReturns, TypeOK, Phases, preparation
<1>19. CASE ReleaseDone
  <2>1. \/ pc = "release" /\ pc' = "record"
        \/ pc = "rejecting" /\ pc' = "reportError"
        \/ pc = "leaving" /\ pc' = "over"
    BY <1>19 DEF ReleaseDone
  <2> QED BY <1>19, FixtureStepTyped, EmitTyped
       DEF ReleaseDone, TypeOK, Phases, EarlyPhases, Lines, preparation, fixtureVars
<1>20. CASE WriteResult
  BY <1>20, FixtureStepTyped DEF WriteResult, TypeOK, Phases, preparation, fixtureVars
<1>21. CASE Conclude
  BY <1>21, LeaveTyped, EmitTyped DEF Conclude, TypeOK, Phases, Lines, preparation
<1>22. CASE InterruptStrikes
  BY <1>22, FixtureStepTyped, LeaveTyped
     DEF InterruptStrikes, TypeOK, Phases, EarlyPhases, Lines, preparation, LineOf
<1>23. CASE Interrupt
  BY <1>23, FixtureStepTyped DEF Interrupt, TypeOK, preparation, fixtureVars
<1>24. CASE UNCHANGED vars
  BY <1>24, FixtureStepTyped DEF vars, TypeOK, runVars, preparation, fixtureVars
<1> QED BY <1>1, <1>2, <1>3, <1>4, <1>5, <1>6, <1>7, <1>8, <1>9, <1>10, <1>11, <1>12, <1>13,
           <1>14, <1>15, <1>16, <1>17, <1>18, <1>19, <1>20, <1>21, <1>22, <1>23, <1>24
     DEF Next, Fixture, Runner, SetupThrows, SetupTimesOut

\* Where the mask, the strike, the session and the setup stand in each phase.
LEMMA ControlPreserved ==
  ASSUME TypeOK, Control, [Next]_vars
  PROVE  Control'
<1>1. CASE FixtureAcquires
  BY <1>1 DEF FixtureAcquires, Control, runVars, Acquire
<1>2. CASE SetupReturns
  BY <1>2 DEF SetupReturns, Control, BeforeFixture, ScriptEnds
<1>3. CASE \E status \in {"error", "inconclusive"} : SetupFails(status)
  BY <1>3 DEF SetupFails, Control, BeforeFixture, ScriptEnds
<1>4. CASE FixtureCleanup
  BY <1>4 DEF FixtureCleanup, Control, runVars, RunCleanup
<1>5. CASE Begin
  BY <1>5 DEF Begin, Control, BeforeFixture, fixtureVars
<1>6. CASE WriteInitialManifest
  BY <1>6 DEF WriteInitialManifest, Control, BeforeFixture, fixtureVars
<1>7. CASE StoreRefuses
  BY <1>7
     DEF StoreRefuses, Control, BeforeFixture, fixtureVars, CleanupFixture, StartCleanups, Leave
<1>8. CASE Prepare
  BY <1>8 DEF Prepare, Control, BeforeFixture, fixtureVars, StartScript
<1>9. CASE PrepareFails
  BY <1>9 DEF PrepareFails, Control, BeforeFixture, fixtureVars
<1>10. CASE UndoDone
  BY <1>10 DEF UndoDone, Control, BeforeFixture, fixtureVars, runVars
<1>11. CASE CleanupDeadline
  BY <1>11 DEF CleanupDeadline, Control, runVars, CleanupsTimeOut
<1>12. CASE AnnounceFixture
  BY <1>12 DEF AnnounceFixture, Control, BeforeFixture, fixtureVars
<1>13. CASE ReportEarlyEnd
  BY <1>13 DEF ReportEarlyEnd, Control, BeforeFixture, fixtureVars
<1>14. CASE FreezeContract
  BY <1>14 DEF FreezeContract, Control, BeforeFixture, fixtureVars, runVars
<1>15. CASE FreezeFails
  BY <1>15 DEF FreezeFails, Control, BeforeFixture, fixtureVars, CleanupFixture, StartCleanups
<1>16. CASE WriteContract
  BY <1>16 DEF WriteContract, Control, BeforeFixture, fixtureVars, runVars
<1>17. CASE WriteFinalManifest
  BY <1>17 DEF WriteFinalManifest, Control, BeforeFixture, fixtureVars
<1>18. CASE \E status \in RunStatuses : AttemptReturns(status)
  BY <1>18, StatusesAssumption
     DEF AttemptReturns, Control, BeforeFixture, fixtureVars, CleanupFixture, StartCleanups
<1>19. CASE ReleaseDone
  <2>1. \/ pc = "release" /\ pc' = "record"
        \/ pc = "rejecting" /\ pc' = "reportError"
        \/ pc = "leaving" /\ pc' = "over"
    BY <1>19 DEF ReleaseDone
  <2> QED BY <1>19 DEF ReleaseDone, Control, BeforeFixture, fixtureVars
<1>20. CASE WriteResult
  BY <1>20 DEF WriteResult, Control, BeforeFixture, fixtureVars
<1>21. CASE Conclude
  BY <1>21 DEF Conclude, Control, BeforeFixture, fixtureVars, CleanupFixture, StartCleanups, Leave
<1>22. CASE InterruptStrikes
  BY <1>22
     DEF InterruptStrikes, Interruptible, EarlyPhases, Control, BeforeFixture, fixtureVars,
         CleanupFixture, StartCleanups, Leave, ScriptEnds
<1>23. CASE Interrupt
  BY <1>23 DEF Interrupt, Control, fixtureVars
<1>24. CASE UNCHANGED vars
  BY <1>24 DEF vars, Control, fixtureVars, runVars
<1> QED BY <1>1, <1>2, <1>3, <1>4, <1>5, <1>6, <1>7, <1>8, <1>9, <1>10, <1>11, <1>12, <1>13,
           <1>14, <1>15, <1>16, <1>17, <1>18, <1>19, <1>20, <1>21, <1>22, <1>23, <1>24
     DEF Next, Fixture, Runner, SetupThrows, SetupTimesOut

-----------------------------------------------------------------------------
(* The fixture.                                                             *)

\* The head and the tail of a queue.
LEMMA PoppedLaw ==
  ASSUME NEW S, NEW s \in Seq(S), s # <<>>
  PROVE  /\ Len(s) \in Nat \ {0} /\ Head(s) = s[1] /\ s[1] \in S
         /\ Len(Tail(s)) = Len(s) - 1
         /\ \A i \in 1..Len(Tail(s)) : Tail(s)[i] = s[i + 1]
<1>1. Len(s) \in Nat \ {0}
  BY EmptySeq
<1>2. Head(s) = s[1] /\ s[1] \in S
  BY <1>1
<1> QED BY HeadTailProperties

\* What cleanupFixture does of a fixture that is still held, and of one that is not.
LEMMA ReleaseLaw ==
  ASSUME TypeOK, Control, Cleaning, CleanupFixture
  PROVE  /\ UNCHANGED <<script, registered, owed, called, timedOut>>
         /\ Held => /\ fixtureReleased' /\ called = <<>> /\ Len(queue') = owed
                    /\ owed = 0 => queue' = <<>>
                    /\ \A i \in 1..owed : queue'[i] = owed + 1 - i
         /\ ~ Held => UNCHANGED <<fixtureReleased, queue>>
<1>1. CASE Held
  <2>1. script = "ended" /\ registered = owed /\ called = <<>>
    BY <1>1 DEF Held, Control, Cleaning
  <2>2. Len(Cleanups) = owed /\ \A i \in 1..owed : Cleanups[i] = owed + 1 - i
    BY <2>1, CleanupsLaw DEF TypeOK, FixturesTypeOK
  <2>3. owed = 0 => Cleanups = <<>>
    BY <2>1, CleanupsLaw DEF TypeOK, FixturesTypeOK
  <2> QED BY <1>1, <2>1, <2>2, <2>3 DEF CleanupFixture, StartCleanups, Held
<1>2. CASE ~ Held
  BY <1>2 DEF CleanupFixture, Held, fixtureVars
<1> QED BY <1>1, <1>2

\* How far the cleanups have come.
LEMMA CleaningPreserved ==
  ASSUME TypeOK, Control, Cleaning, [Next]_vars
  PROVE  Cleaning'
<1>1. CASE FixtureAcquires
  BY <1>1 DEF FixtureAcquires, Cleaning, Held, Settled, CleaningUp, runVars, Acquire
<1>2. CASE SetupReturns
  BY <1>2
     DEF SetupReturns, Cleaning, Control, Held, CleaningUp, TypeOK, FixturesTypeOK, ScriptEnds
<1>3. CASE \E status \in {"error", "inconclusive"} : SetupFails(status)
  BY <1>3, CleanupsLaw
     DEF SetupFails, Cleaning, Control, Held, CleaningUp, TypeOK, FixturesTypeOK, ScriptEnds
<1>4. CASE FixtureCleanup
  <2>1. CleaningUp /\ queue # <<>> /\ ~ Held /\ pc # "setup"
    BY <1>4 DEF FixtureCleanup, RunCleanup, Cleaning
  <2>2. /\ Len(called) \in Nat /\ Len(queue) \in Nat \ {0}
        /\ queue[1] \in 1..MaxResources /\ Head(queue) = queue[1]
        /\ Len(queue') = Len(queue) - 1
        /\ \A i \in 1..Len(queue') : queue'[i] = queue[i + 1]
    <3>1. queue' = Tail(queue)
      BY <1>4 DEF FixtureCleanup, RunCleanup
    <3>2. called \in Seq(1..MaxResources) /\ queue \in Seq(1..MaxResources)
      BY DEF TypeOK, FixturesTypeOK
    <3> QED BY <2>1, <3>1, <3>2, PoppedLaw, LenProperties
  <2>3. /\ Len(called') = Len(called) + 1
        /\ \A i \in 1..Len(called) : called'[i] = called[i]
        /\ called'[Len(called) + 1] = queue[1]
    <3>1. called \in Seq(1..MaxResources) /\ queue[1] \in 1..MaxResources
      BY <2>2 DEF TypeOK, FixturesTypeOK
    <3>2. called' = Append(called, queue[1])
      BY <1>4 DEF FixtureCleanup, RunCleanup
    <3> QED BY <3>2
  <2>4. UNCHANGED <<pc, runVars, script, registered, owed, timedOut>>
    BY <1>4 DEF FixtureCleanup, RunCleanup
  <2>5. /\ Len(called) + Len(queue) = owed /\ owed \in Nat
        /\ \A i \in 1..Len(called) : called[i] = owed + 1 - i
        /\ \A i \in 1..Len(queue) : queue[i] = owed + 1 - Len(called) - i
    BY <2>1 DEF Cleaning
  <2>6. Len(called') + Len(queue') = owed' /\ Len(called') <= owed'
    <3>1. owed' = owed
      BY <2>4
    <3>2. /\ Len(called) \in Nat /\ Len(queue) \in Nat \ {0} /\ owed \in Nat
          /\ Len(called) + Len(queue) = owed
          /\ Len(called') = Len(called) + 1 /\ Len(queue') = Len(queue) - 1
      BY <2>2, <2>3, <2>5
    <3> QED BY <3>1, <3>2
  <2>7. \A i \in 1..Len(called') : called'[i] = owed' + 1 - i
    BY <2>2, <2>3, <2>4, <2>5
  <2>8. \A i \in 1..Len(queue') : queue'[i] = owed' + 1 - Len(called') - i
    BY <2>2, <2>3, <2>4, <2>5
  <2> QED BY <2>1, <2>4, <2>6, <2>7, <2>8 DEF Cleaning, CleaningUp, Held, runVars
<1>5. CASE Begin
  BY <1>5 DEF Begin, Cleaning, Held, Settled, CleaningUp, fixtureVars
<1>6. CASE WriteInitialManifest
  BY <1>6 DEF WriteInitialManifest, Cleaning, Held, Settled, CleaningUp, fixtureVars
<1>7. CASE StoreRefuses
  BY <1>7, ReleaseLaw
     DEF StoreRefuses, Cleaning, BeforeFixture, Held, Settled, CleaningUp, fixtureVars, Leave
<1>8. CASE Prepare
  BY <1>8 DEF Prepare, Cleaning, Held, Settled, CleaningUp, fixtureVars, StartScript
<1>9. CASE PrepareFails
  BY <1>9 DEF PrepareFails, Cleaning, Control, BeforeFixture, Held, Settled, fixtureVars
<1>10. CASE UndoDone
  BY <1>10 DEF UndoDone, Cleaning, Held, Settled, CleaningUp, fixtureVars, runVars
<1>11. CASE CleanupDeadline
  BY <1>11 DEF CleanupDeadline, Cleaning, Held, CleaningUp, runVars, CleanupsTimeOut
<1>12. CASE AnnounceFixture
  BY <1>12 DEF AnnounceFixture, Cleaning, Held, Settled, CleaningUp, fixtureVars
<1>13. CASE ReportEarlyEnd
  BY <1>13 DEF ReportEarlyEnd, Cleaning, Held, Settled, CleaningUp, fixtureVars
<1>14. CASE FreezeContract
  BY <1>14 DEF FreezeContract, Cleaning, Held, Settled, CleaningUp, fixtureVars, runVars
<1>15. CASE FreezeFails
  BY <1>15, ReleaseLaw DEF FreezeFails, Cleaning, Control, Held, Settled, CleaningUp
<1>16. CASE WriteContract
  BY <1>16 DEF WriteContract, Cleaning, Held, Settled, CleaningUp, fixtureVars, runVars
<1>17. CASE WriteFinalManifest
  BY <1>17 DEF WriteFinalManifest, Cleaning, Held, Settled, CleaningUp, fixtureVars
<1>18. CASE \E status \in RunStatuses : AttemptReturns(status)
  BY <1>18, ReleaseLaw DEF AttemptReturns, Cleaning, Control, Held, Settled, CleaningUp
<1>19. CASE ReleaseDone
  <2>1. \/ pc = "release" /\ pc' = "record"
        \/ pc = "rejecting" /\ pc' = "reportError"
        \/ pc = "leaving" /\ pc' = "over"
    BY <1>19 DEF ReleaseDone
  <2> QED BY <1>19 DEF ReleaseDone, Cleaning, Held, Settled, CleaningUp, fixtureVars
<1>20. CASE WriteResult
  BY <1>20 DEF WriteResult, Cleaning, Held, Settled, CleaningUp, fixtureVars
<1>21. CASE Conclude
  BY <1>21 DEF Conclude, Cleaning, Held, Settled, CleaningUp, fixtureVars, Leave
<1>22. CASE InterruptStrikes
  <2>1. CASE pc = "setup"
    BY <1>22, <2>1, CleanupsLaw
       DEF InterruptStrikes, ScriptEnds, Cleaning, Control, CleaningUp, Held, TypeOK,
           FixturesTypeOK
  <2>2. CASE pc = "rejecting"
    BY <1>22, <2>2 DEF InterruptStrikes, Cleaning, CleaningUp, Held
  <2>3. CASE pc \notin {"setup", "rejecting"}
    <3>1. /\ Leave(pc) /\ pc \in Interruptible
          /\ struckAt' = pc /\ UNCHANGED session
      BY <1>22, <2>3 DEF InterruptStrikes
    <3>2. CASE session /\ ~ fixtureReleased /\ pc # "announce"
      BY <3>1, <3>2, ReleaseLaw DEF Leave, Cleaning, CleaningUp, Held
    <3>3. CASE ~ (session /\ ~ fixtureReleased /\ pc # "announce")
      BY <2>3, <3>1, <3>3
         DEF Leave, Cleaning, Control, CleaningUp, Held, Settled, fixtureVars, Interruptible,
             EarlyPhases
    <3> QED BY <3>2, <3>3
  <2> QED BY <2>1, <2>2, <2>3
<1>23. CASE Interrupt
  BY <1>23 DEF Interrupt, Cleaning, Held, Settled, CleaningUp, fixtureVars
<1>24. CASE UNCHANGED vars
  BY <1>24 DEF vars, Cleaning, Held, Settled, CleaningUp, fixtureVars, runVars
<1> QED BY <1>1, <1>2, <1>3, <1>4, <1>5, <1>6, <1>7, <1>8, <1>9, <1>10, <1>11, <1>12, <1>13,
           <1>14, <1>15, <1>16, <1>17, <1>18, <1>19, <1>20, <1>21, <1>22, <1>23, <1>24
     DEF Next, Fixture, Runner, SetupThrows, SetupTimesOut

-----------------------------------------------------------------------------
(* The record of the run, and what validate foretold.                       *)

\* What the journal and the result have.
LEMMA RecordingPreserved ==
  ASSUME TypeOK, Control, Cleaning, Recording, [Next]_vars
  PROVE  Recording'
<1>1. CASE FixtureAcquires
  BY <1>1 DEF FixtureAcquires, Recording, CleaningUp, Positions, runVars
<1>2. CASE SetupReturns
  BY <1>2 DEF SetupReturns, Recording, CleaningUp, Positions
<1>3. CASE \E status \in {"error", "inconclusive"} : SetupFails(status)
  BY <1>3 DEF SetupFails, Recording, Control, Positions
<1>4. CASE FixtureCleanup
  BY <1>4 DEF FixtureCleanup, Recording, Positions, runVars
<1>5. CASE Begin
  <2>1. /\ Positions("runFinished")' = Positions("runFinished")
        /\ Positions("fixtureCleaned")' = Positions("fixtureCleaned")
    BY <1>5, OneLineMore DEF Begin, LineOf, Lines, TypeOK
  <2> QED BY <1>5, <2>1 DEF Begin, Recording, Control, BeforeFixture
<1>6. CASE WriteInitialManifest
  BY <1>6 DEF WriteInitialManifest, Recording, CleaningUp, Positions
<1>7. CASE StoreRefuses
  <2>1. \A line \in {"runFinished", "fixtureCleaned"} : Positions(line)' = Positions(line)
    <3>1. CASE UNCHANGED journal
      BY <3>1 DEF Positions
    <3>2. CASE journal' = Append(journal, "contractFrozen")
      BY <3>2, OneLineMore DEF Lines, TypeOK
    <3> QED BY <1>7, <3>1, <3>2 DEF StoreRefuses, FrozenLine, LineOf
  <2>2. Positions("runFinished") = {}
    BY <1>7 DEF StoreRefuses, Recording
  <2> QED BY <1>7, <2>1, <2>2 DEF StoreRefuses, Recording, CleaningUp, Leave
<1>8. CASE Prepare
  BY <1>8 DEF Prepare, Recording, CleaningUp, Positions
<1>9. CASE PrepareFails
  BY <1>9 DEF PrepareFails, Recording, CleaningUp, Positions
<1>10. CASE UndoDone
  BY <1>10 DEF UndoDone, Recording, Control, Positions, runVars
<1>11. CASE CleanupDeadline
  BY <1>11 DEF CleanupDeadline, Recording, Positions, runVars
<1>12. CASE AnnounceFixture
  <2>1. /\ Positions("runFinished")' = Positions("runFinished")
        /\ Positions("fixtureCleaned")' = Positions("fixtureCleaned")
    BY <1>12, EmitLaw DEF AnnounceFixture, Lines, TypeOK
  <2> QED BY <1>12, <2>1 DEF AnnounceFixture, Recording, CleaningUp
<1>13. CASE ReportEarlyEnd
  <2>1. /\ Positions("runFinished")' = Positions("runFinished")
        /\ Positions("fixtureCleaned")' = Positions("fixtureCleaned")
    BY <1>13, EmitLaw DEF ReportEarlyEnd, LineOf, Lines, TypeOK
  <2> QED BY <1>13, <2>1 DEF ReportEarlyEnd, Recording, Control, CleaningUp
<1>14. CASE FreezeContract
  BY <1>14 DEF FreezeContract, Recording, CleaningUp, Positions, runVars
<1>15. CASE FreezeFails
  BY <1>15 DEF FreezeFails, Recording, Control, Positions
<1>16. CASE WriteContract
  BY <1>16 DEF WriteContract, Recording, CleaningUp, Positions, runVars
<1>17. CASE WriteFinalManifest
  <2>1. /\ Positions("runFinished")' = Positions("runFinished")
        /\ Positions("fixtureCleaned")' = Positions("fixtureCleaned")
    BY <1>17, EmitLaw DEF WriteFinalManifest, Lines, TypeOK
  <2> QED BY <1>17, <2>1 DEF WriteFinalManifest, Recording, CleaningUp
<1>18. CASE \E status \in RunStatuses : AttemptReturns(status)
  BY <1>18 DEF AttemptReturns, Recording, Control, Positions
<1>19. CASE ReleaseDone
  <2>1. /\ Positions("runFinished") = {} /\ Positions("runFinished")' = {}
        /\ Positions("fixtureCleaned") = {}
    BY <1>19, EmitLaw DEF ReleaseDone, Recording, CleaningUp, Positions, Lines, TypeOK
  <2>2. \/ ~ session /\ refused' = refused /\ Positions("fixtureCleaned")' = {}
        \/ refused' /\ Positions("fixtureCleaned")' = {}
        \/ /\ session /\ refused' = refused
           /\ Positions("fixtureCleaned")' = {Len(journal')}
    BY <1>19, <2>1, EmitLaw DEF ReleaseDone, Positions, Lines, TypeOK
  <2>3. \/ pc = "release" /\ pc' = "record"
        \/ pc = "rejecting" /\ pc' = "reportError"
        \/ pc = "leaving" /\ pc' = "over"
    BY <1>19 DEF ReleaseDone
  <2>4. session => fixtureReleased
    BY <1>19 DEF ReleaseDone, Cleaning, CleaningUp, Held
  <2>5. UNCHANGED <<exit, manifest, result, verdict, session, fixtureReleased, masked>>
    BY <1>19 DEF ReleaseDone
  <2>6. \A i, j \in Positions("fixtureCleaned")' : i = j
    BY <2>2
  <2> QED BY <2>1, <2>2, <2>3, <2>4, <2>5 DEF Recording, CleaningUp
<1>20. CASE WriteResult
  BY <1>20 DEF WriteResult, Recording, CleaningUp, Positions
<1>21. CASE Conclude
  <2>1. /\ Positions("fixtureCleaned")' = Positions("fixtureCleaned")
        /\ \/ refused' /\ Positions("runFinished")' = {}
           \/ refused' = refused /\ Positions("runFinished")' = {Len(journal')}
    BY <1>21, EmitLaw DEF Conclude, Recording, Lines, TypeOK
  <2>2. pc' = "over" /\ UNCHANGED fixtureReleased
    BY <1>21 DEF Conclude, Leave, Cleaning, Held
  <2> QED BY <1>21, <2>1, <2>2 DEF Conclude, Recording, Control, CleaningUp
<1>22. CASE InterruptStrikes
  <2>1. /\ ~ masked' /\ pc # "over" /\ UNCHANGED session
        /\ pc' \in {"undo", "leaving", "over"}
    BY <1>22 DEF InterruptStrikes, Interruptible, EarlyPhases, Control, Leave
  <2>2. Positions("runFinished") = {}
    BY <2>1 DEF Recording
  <2>3. \/ /\ Positions("runFinished")' = {}
           /\ Positions("fixtureCleaned")' = Positions("fixtureCleaned")
        \/ /\ pc = "rejecting" /\ Positions("runFinished")' = {}
           /\ Positions("fixtureCleaned") = {}
           /\ Positions("fixtureCleaned")' = {Len(journal')}
        \/ /\ pc = "conclude" /\ Positions("runFinished")' = {Len(journal')}
           /\ Positions("fixtureCleaned")' = Positions("fixtureCleaned")
    <3>1. CASE UNCHANGED journal
      BY <2>2, <3>1 DEF Positions
    <3>2. CASE pc \in DOMAIN LineOf /\ journal' = Append(journal, LineOf[pc])
      <4>1. /\ LineOf[pc] \in Lines /\ {"runFinished", "fixtureCleaned"} \subseteq Lines
            /\ LineOf[pc] = "runFinished" <=> pc = "conclude"
            /\ LineOf[pc] = "fixtureCleaned" <=> pc = "rejecting"
        BY <3>2 DEF LineOf, Lines
      <4>2. \A other \in Lines :
              Positions(other)' = Positions(other) \cup
                                    (IF other = LineOf[pc] THEN {Len(journal')} ELSE {})
        BY <3>2, <4>1, OneLineMore DEF TypeOK
      <4>3. pc = "rejecting" => Positions("fixtureCleaned") = {}
        BY DEF Recording, CleaningUp
      <4> QED BY <2>2, <4>1, <4>2, <4>3
    <3> QED BY <1>22, <3>1, <3>2 DEF InterruptStrikes
  <2>4. /\ pc = "rejecting" => session /\ fixtureReleased' /\ pc' = "over"
        /\ Positions("fixtureCleaned") # {} => fixtureReleased' /\ pc' # "leaving"
        /\ pc = "conclude" => pc' = "over" /\ result' # "none"
    <3>1. \/ pc' \in {"undo", "over"} /\ UNCHANGED fixtureReleased
          \/ ~ fixtureReleased /\ pc \notin {"rejecting", "conclude"}
      BY <1>22 DEF InterruptStrikes, Leave, Cleaning, Held
    <3>2. pc = "rejecting" => session /\ fixtureReleased /\ pc' = "over"
      BY <1>22 DEF InterruptStrikes, Cleaning, CleaningUp, Held, Control
    <3>3. pc = "conclude" => result' # "none" /\ pc' # "undo"
      BY <1>22 DEF InterruptStrikes, Leave, Recording, Control
    <3> QED BY <3>1, <3>2, <3>3 DEF Recording
  <2>5. \A i, j \in Positions("fixtureCleaned")' : i = j
    BY <2>3 DEF Recording
  <2>6. Positions("fixtureCleaned")' # {} => session' /\ fixtureReleased' /\ ~ CleaningUp'
    <3>1. Positions("fixtureCleaned") # {} => session /\ pc # "setup"
      BY DEF Recording, Control
    <3>2. pc' = "undo" => pc = "setup"
      BY <1>22 DEF InterruptStrikes, Leave
    <3> QED BY <2>1, <2>3, <2>4, <3>1, <3>2 DEF CleaningUp
  <2> QED BY <2>1, <2>3, <2>4, <2>6 DEF Recording
<1>23. CASE Interrupt
  BY <1>23 DEF Interrupt, Recording, CleaningUp, Positions
<1>24. CASE UNCHANGED vars
  BY <1>24 DEF vars, Recording, CleaningUp, Positions, runVars
<1> QED BY <1>1, <1>2, <1>3, <1>4, <1>5, <1>6, <1>7, <1>8, <1>9, <1>10, <1>11, <1>12, <1>13,
           <1>14, <1>15, <1>16, <1>17, <1>18, <1>19, <1>20, <1>21, <1>22, <1>23, <1>24
     DEF Next, Fixture, Runner, SetupThrows, SetupTimesOut

\* What was foretold, against the phases it bears on.
LEMMA ForeseeingPreserved ==
  ASSUME TypeOK, Control, Foreseeing, [Next]_vars
  PROVE  Foreseeing'
<1>1. CASE FixtureAcquires
  BY <1>1 DEF FixtureAcquires, Foreseeing, runVars, preparation
<1>2. CASE SetupReturns
  BY <1>2 DEF SetupReturns, Foreseeing
<1>3. CASE \E status \in {"error", "inconclusive"} : SetupFails(status)
  BY <1>3 DEF SetupFails, Foreseeing, BeforeFixture
<1>4. CASE FixtureCleanup
  BY <1>4 DEF FixtureCleanup, Foreseeing, runVars, preparation
<1>5. CASE Begin
  BY <1>5 DEF Begin, Foreseeing, BeforeFixture, preparation
<1>6. CASE WriteInitialManifest
  BY <1>6 DEF WriteInitialManifest, Foreseeing, BeforeFixture, preparation
<1>7. CASE StoreRefuses
  BY <1>7 DEF StoreRefuses, Foreseeing, BeforeFixture, preparation, Leave
<1>8. CASE Prepare
  BY <1>8, CleanIsPrepared, ProblemIsUnresolved
     DEF Prepare, Foretell, Foreseeing, Control, BeforeFixture
<1>9. CASE PrepareFails
  BY <1>9, CleanIsPrepared DEF PrepareFails, Foretell, Foreseeing, Control, BeforeFixture
<1>10. CASE UndoDone
  BY <1>10 DEF UndoDone, Foreseeing, BeforeFixture, runVars, preparation
<1>11. CASE CleanupDeadline
  BY <1>11 DEF CleanupDeadline, Foreseeing, runVars, preparation
<1>12. CASE AnnounceFixture
  BY <1>12 DEF AnnounceFixture, Foreseeing, preparation
<1>13. CASE ReportEarlyEnd
  BY <1>13 DEF ReportEarlyEnd, Foreseeing, BeforeFixture, preparation
<1>14. CASE FreezeContract
  BY <1>14 DEF FreezeContract, Foreseeing, runVars, preparation, Freezes
<1>15. CASE FreezeFails
  BY <1>15 DEF FreezeFails, Foreseeing, BeforeFixture
<1>16. CASE WriteContract
  BY <1>16 DEF WriteContract, Foreseeing, runVars, preparation
<1>17. CASE WriteFinalManifest
  BY <1>17 DEF WriteFinalManifest, Foreseeing, preparation
<1>18. CASE \E status \in RunStatuses : AttemptReturns(status)
  BY <1>18 DEF AttemptReturns, Foreseeing, BeforeFixture, preparation
<1>19. CASE ReleaseDone
  <2>1. \/ pc = "release" /\ pc' = "record"
        \/ pc = "rejecting" /\ pc' = "reportError"
        \/ pc = "leaving" /\ pc' = "over"
    BY <1>19 DEF ReleaseDone
  <2> QED BY <1>19 DEF ReleaseDone, Foreseeing, BeforeFixture, preparation
<1>20. CASE WriteResult
  BY <1>20 DEF WriteResult, Foreseeing, BeforeFixture, preparation
<1>21. CASE Conclude
  BY <1>21 DEF Conclude, Foreseeing, BeforeFixture, preparation, Leave
<1>22. CASE InterruptStrikes
  BY <1>22 DEF InterruptStrikes, Foreseeing, BeforeFixture, preparation, Leave
<1>23. CASE Interrupt
  BY <1>23 DEF Interrupt, Foreseeing, preparation
<1>24. CASE UNCHANGED vars
  BY <1>24 DEF vars, Foreseeing, runVars, preparation
<1> QED BY <1>1, <1>2, <1>3, <1>4, <1>5, <1>6, <1>7, <1>8, <1>9, <1>10, <1>11, <1>12, <1>13,
           <1>14, <1>15, <1>16, <1>17, <1>18, <1>19, <1>20, <1>21, <1>22, <1>23, <1>24
     DEF Next, Fixture, Runner, SetupThrows, SetupTimesOut

-----------------------------------------------------------------------------
(* The theorems.                                                            *)

\* The invariant of every run.
LEMMA InvariantHolds == Spec => []IInv
<1>1. Init => IInv
  <2> SUFFICES ASSUME Init PROVE IInv
    OBVIOUS
  <2>1. TypeOK
    <3>1. <<>> \in Seq(1..MaxResources) /\ Len(<<>>) = 0 /\ <<>> \in Seq(Lines)
      OBVIOUS
    <3>2. 0 \in 0..MaxResources /\ 0 <= MaxResources
      BY ResourcesAssumption
    <3>3. FixturesTypeOK
      BY <3>1, <3>2 DEF Init, FixturesInit, FixturesTypeOK
    <3> QED BY <3>1, <3>3 DEF Init, TypeOK, Phases, EarlyPhases
  <2>2. Control
    BY DEF Init, FixturesInit, Control
  <2>3. Cleaning
    BY DEF Init, FixturesInit, Cleaning, Held, Settled
  <2>4. Recording
    BY DEF Init, Recording, Positions
  <2>5. Foreseeing
    BY DEF Init, Foreseeing
  <2> QED BY <2>1, <2>2, <2>3, <2>4, <2>5 DEF IInv
<1>2. IInv /\ [Next]_vars => IInv'
  BY TypePreserved, ControlPreserved, CleaningPreserved, RecordingPreserved, ForeseeingPreserved
     DEF IInv
<1> QED BY <1>1, <1>2, PTL DEF Spec

\* The state of a run keeps its types, whatever requests it is given.
THEOREM RunTypes == Spec => []TypeOK
BY InvariantHolds, PTL DEF IInv

\* runFinished is the last line of a journal and announces a result already written,
\* however the run ended; the fixture's end is reported at most once (finalize, and the
\* safety net that may follow it).
THEOREM JournalIsOrdered == Spec => []JournalOrdered
<1>1. IInv => JournalOrdered
  BY DEF IInv, Recording, JournalOrdered
<1> QED BY <1>1, InvariantHolds, PTL

\* A fixture's cleanups run once each, the last registered first (runCleanups).
THEOREM CleanupsRunInReverse == Spec => []CleanedOnceInReverse
<1>1. IInv => CleanedOnceInReverse
  <2> SUFFICES ASSUME IInv, NEW i \in 1..Len(called), NEW j \in 1..Len(called), i < j
               PROVE  called[i] > called[j]
    BY DEF CleanedOnceInReverse
  <2>1. called[i] = owed + 1 - i /\ called[j] = owed + 1 - j /\ owed \in Nat
    BY DEF IInv, Cleaning, TypeOK, FixturesTypeOK
  <2> QED BY <2>1
<1> QED BY <1>1, InvariantHolds, PTL

\* Whatever ends a run, and whenever an interruption strikes but for its two windows,
\* every cleanup the fixture had registered was called or met the deadline
\* (cleanupFixture, the safety net, the undo of a setup).
THEOREM FixturesAreReleased == Spec => []GuardedFixtureReleased
<1>1. IInv => GuardedFixtureReleased
  <2> SUFFICES ASSUME IInv, Over, struckAt \notin {"announce", "rejecting"}
               PROVE  Released
    BY DEF GuardedFixtureReleased
  <2>1. Settled
    BY DEF IInv, Cleaning, Over, CleaningUp
  <2>2. CASE Len(called) = owed
    <3>1. \A i \in 1..owed : called[i] = owed + 1 - i
      BY <2>2 DEF IInv, Cleaning
    <3>2. owed \in Nat
      BY DEF IInv, TypeOK, FixturesTypeOK
    <3>3. ASSUME NEW n \in 1..owed PROVE \E i \in 1..owed : called[i] = n
      <4>1. owed + 1 - n \in 1..owed /\ owed + 1 - (owed + 1 - n) = n
        BY <3>2
      <4> QED BY <3>1, <4>1
    <3> QED BY <2>2, <3>3 DEF Released
  <2> QED BY <2>1, <2>2 DEF Settled, Released
<1> QED BY <1>1, InvariantHolds, PTL

\* From the attempt on, a run is interrupted no more: it returns its verdict, with its
\* result, its last line and the end of its fixture on disk, or the store refused a write.
THEOREM AttemptsAreRecorded == Spec => []AttemptIsRecorded
<1>1. IInv => AttemptIsRecorded
  BY DEF IInv, Recording, AttemptIsRecorded, Over
<1> QED BY <1>1, InvariantHolds, PTL

\* `difmp validate` and `difmp run` judge a specification alike (checkRun, prepareRun).
THEOREM ValidationForesees == Spec => []ValidateForesees
<1>1. IInv => ValidateForesees
  BY DEF IInv, Foreseeing, ValidateForesees
<1> QED BY <1>1, InvariantHolds, PTL
=============================================================================
