------------------------------ MODULE Fixtures ------------------------------
(***************************************************************************)
(* The fixture manager of the CLI (apps/cli/src/fixtures.ts).  A fixture   *)
(* is a script of the project: it acquires resources one after the other   *)
(* and registers a cleanup for each as it goes.  Resource n is the n-th it *)
(* acquires, so `registered` counts them.  A script that is told to stop   *)
(* may ignore the signal: abandoned, it goes on acquiring.                 *)
(***************************************************************************)
EXTENDS Integers, Sequences

CONSTANT MaxResources   \* bound: resources one fixture acquires

ASSUME ResourcesAssumption == MaxResources \in Nat

VARIABLES
  script,       \* the fixture's setup function
  registered,   \* cleanups it has registered
  owed,         \* those registered when the setup ended, however it ended
  queue,        \* the cleanups under way, in calling order
  called,       \* the cleanups called, in order
  timedOut      \* whether a cleanup deadline passed

fixtureVars == <<script, registered, owed, queue, called, timedOut>>

FixturesTypeOK ==
  /\ script \in {"idle", "running", "abandoned", "ended"}
  /\ registered \in 0..MaxResources /\ owed \in 0..MaxResources
  /\ queue \in Seq(1..MaxResources) /\ Len(queue) <= MaxResources
  /\ called \in Seq(1..MaxResources)
  /\ timedOut \in BOOLEAN

FixturesInit ==
  /\ script = "idle"
  /\ registered = 0 /\ owed = 0
  /\ queue = <<>> /\ called = <<>>
  /\ timedOut = FALSE

StartScript ==
  /\ script = "idle"
  /\ script' = "running"
  /\ UNCHANGED <<registered, owed, queue, called, timedOut>>

Acquire ==
  /\ script \in {"running", "abandoned"} /\ registered < MaxResources
  /\ registered' = registered + 1
  /\ UNCHANGED <<script, owed, queue, called, timedOut>>

\* The setup is over: what it registered so far is owed a cleanup.
ScriptEnds(how) ==
  /\ script = "running"
  /\ script' = how
  /\ owed' = registered
  /\ UNCHANGED <<registered, called, timedOut>>

\* A plausible slip: the first thing acquired is the first thing released.
CleanupsInOrder == [i \in 1..registered |-> i]

\* A plausible slip: positions counted from zero.
CleanupsFromZero == [i \in 1..registered |-> registered - i]

\* runCleanups takes a snapshot: the last thing acquired is the first released.
Cleanups == [i \in 1..registered |-> registered + 1 - i]

StartCleanups ==
  /\ queue' = Cleanups
  /\ UNCHANGED <<script, registered, owed, called, timedOut>>

\* One cleanup is called.  One that throws is reported and the next one follows; one
\* that never returns leaves the rest to the deadline.
RunCleanup ==
  /\ queue # <<>>
  /\ called' = Append(called, Head(queue))
  /\ queue' = Tail(queue)
  /\ UNCHANGED <<script, registered, owed, timedOut>>

CleanupsTimeOut ==
  /\ queue # <<>>
  /\ queue' = <<>> /\ timedOut' = TRUE
  /\ UNCHANGED <<script, registered, owed, called>>
=============================================================================
