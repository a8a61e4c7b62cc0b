------------------------------- MODULE Session -------------------------------
(***************************************************************************)
(* The browser session of an attempt (browser-playwright: driver.ts,       *)
(* session.ts) between its two neighbours: the page, which navigates and   *)
(* changes in its own time, and the tool dispatcher (dispatcher.ts), which *)
(* keeps its own copy of what was observed.  One operation holds the       *)
(* session's lock at a time; each await of it is a step of its own.        *)
(*                                                                         *)
(* `stage` is the life of the context:                                     *)
(*   launch, context, setup   the driver opens                             *)
(*   announce                 the browserContextOpened line                *)
(*   first, open              the first navigation, the browsing loop      *)
(*   wrap, unwind             the runner settles the captures: at the end  *)
(*                            of the attempt, or because it was cut short  *)
(*   driver, release, close   the finalizers of the driver, last in first  *)
(*   gone                                                                  *)
(***************************************************************************)
EXTENDS Naturals, Sequences, FiniteSets

CONSTANTS
  Elements,          \* the elements a document may hold
  MaxDocuments,      \* bound: documents the page goes through
  MaxObservations    \* bound: observations the agent asks for

ASSUME SessionAssumption ==
  MaxDocuments \in Nat \ {0} /\ MaxObservations \in Nat /\ IsFiniteSet(Elements)

VARIABLES
  doc, dom, loaded,        \* the page: its document, what is in it, its load event
  heard,                   \* navigations: those the session's listener was told of
  current, seen,           \* the live observation, for the session and for the dispatcher
  settled,                 \* navigationSettled
  step, op,                \* the operation that holds the lock, and its arguments
  stage,
  closed, contextClosed,   \* ContextState
  context, browser,        \* what is really open
  fin, batch,              \* where finalize is, the outcomes it has gathered
  inventory,               \* the capture outcomes registered as artifacts
  snapshots,               \* history: the document each observation is of
  acted,                   \* history: the last element acted on, in which document
  drove,                   \* history: an operation's navigation has not come to an end
  cut                      \* history: captures were lost to a deadline or an interruption

pageVars == <<doc, dom, loaded>>
memory   == <<heard, current, seen, settled>>
opVars   == <<step, op>>
closing  == <<closed, contextClosed, context, browser, fin, batch, inventory, cut>>
history  == <<snapshots, acted, drove>>
vars == <<pageVars, memory, opVars, stage, closing, history>>

-----------------------------------------------------------------------------
(* State                                                                    *)

\* A reference names an element of one document: it means nothing in the next one.
Refs == (0..MaxDocuments) \X Elements
Observations == [id : 0..MaxObservations, refs : SUBSET Refs]
NoObservation == [id |-> 0, refs |-> {}]

NoRef == <<>>
NoOp == [obs |-> 0, ref |-> NoRef, refs |-> {}, of |-> 0, before |-> 0]

Steps == {"idle", "snapshot", "title", "goto", "loading", "counting", "acting", "probing",
          "settling"}
Stages == {"launch", "context", "setup", "announce", "first", "open", "wrap", "unwind", "driver",
           "release", "close", "gone"}
Kinds == {"trace", "logs", "video"}
Outcomes == [kind : Kinds, state : {"present", "absent"}]   \* absent: missing or failed

Ops == [obs : 0..MaxObservations, ref : Refs \cup {NoRef}, refs : SUBSET Refs,
        of : 0..MaxDocuments, before : 0..MaxDocuments]

PageTypeOK ==
  doc \in 0..MaxDocuments /\ heard \in 0..doc /\ dom \in SUBSET Elements /\ loaded \in BOOLEAN

MemoryTypeOK ==
  /\ current \in Observations /\ seen \in Observations /\ settled \in BOOLEAN
  /\ step \in Steps /\ op \in Ops
  /\ snapshots \in Seq(0..MaxDocuments) /\ Len(snapshots) <= MaxObservations
  /\ acted \in [obs : 0..MaxObservations, doc : 0..MaxDocuments] /\ drove \in BOOLEAN

CaptureTypeOK ==
  /\ stage \in Stages /\ {closed, contextClosed, browser, cut} \subseteq BOOLEAN
  /\ context \in {"none", "open", "closed"}
  /\ fin \in {"no", "trace", "close", "logs", "video", "register"}
  /\ batch \in Seq(Outcomes) /\ inventory \in Seq(Outcomes)

TypeOK == PageTypeOK /\ MemoryTypeOK /\ CaptureTypeOK

Init ==
  /\ doc = 0 /\ dom = {} /\ loaded = TRUE
  /\ heard = 0 /\ current = NoObservation /\ seen = NoObservation /\ settled = FALSE
  /\ step = "idle" /\ op = NoOp /\ stage = "launch"
  /\ closed = FALSE /\ contextClosed = FALSE /\ context = "none" /\ browser = FALSE
  /\ fin = "no" /\ batch = <<>> /\ inventory = <<>>
  /\ snapshots = <<>> /\ acted = [obs |-> 0, doc |-> 0] /\ drove = FALSE /\ cut = FALSE

-----------------------------------------------------------------------------
(* Opening                                                                  *)

Open ==
  /\ \/ stage = "launch" /\ stage' = "context" /\ browser' = TRUE /\ UNCHANGED context
     \/ stage = "context" /\ stage' = "setup" /\ context' = "open" /\ UNCHANGED browser
     \/ stage = "setup" /\ stage' = "announce" /\ UNCHANGED <<context, browser>>
     \/ stage = "announce" /\ stage' = "first" /\ UNCHANGED <<context, browser>>
  /\ UNCHANGED <<pageVars, memory, opVars, closed, contextClosed, fin, batch, inventory, cut,
                 history>>

\* A failure or an interruption leaves by the finalizers registered so far.  Until the
\* runner's own is, nothing gathers the captures, or what the driver's gathers is discarded.
OpenFails ==
  /\ \/ stage = "launch" /\ stage' = "gone"
     \/ stage = "context" /\ stage' = "close"
     \/ stage = "setup" /\ stage' = "release"
     \/ stage = "announce" /\ stage' = "driver"
  /\ cut' = (stage \in {"setup", "announce"})
  /\ UNCHANGED <<pageVars, memory, opVars, closed, contextClosed, context, browser, fin, batch,
                 inventory, history>>

-----------------------------------------------------------------------------
(* The page                                                                 *)

\* A new document replaces what was there.
NewDocument ==
  /\ doc < MaxDocuments
  /\ doc' = doc + 1 /\ loaded' = FALSE
  /\ dom' \in SUBSET Elements

PageUp == stage \in {"first", "open"}

PageNavigates ==
  PageUp /\ NewDocument /\ UNCHANGED <<memory, opVars, stage, closing, history>>

PageChanges ==
  /\ PageUp
  /\ \/ ~ loaded /\ loaded' = TRUE /\ UNCHANGED dom
     \/ dom' \in (SUBSET Elements) \ {dom} /\ UNCHANGED loaded
  /\ UNCHANGED <<doc, memory, opVars, stage, closing, history>>

\* The framenavigated listener: the news of a navigation comes after it.
HearNavigation ==
  /\ PageUp /\ heard < doc
  /\ heard' = heard + 1
  /\ current' = NoObservation
  /\ UNCHANGED <<pageVars, seen, settled, opVars, stage, closing, history>>

-----------------------------------------------------------------------------
(* Operations                                                               *)

\* withPermits, then ensureOpen.
Enter == stage = "open" /\ step = "idle" /\ ~ closed

Observe ==
  /\ Enter /\ Len(snapshots) < MaxObservations
  /\ snapshots' = Append(snapshots, 0)
  /\ step' = "snapshot"
  /\ UNCHANGED <<pageVars, memory, op, stage, closing, acted, drove>>

\* The references the model may quote are exactly those of the snapshot's own text.
TakeSnapshot ==
  /\ step = "snapshot"
  /\ step' = "title" /\ op' = [NoOp EXCEPT !.refs = {doc} \X dom, !.of = doc]
  /\ UNCHANGED <<pageVars, memory, stage, closing, history>>

\* The observation becomes live after two awaits, whatever was heard meanwhile.
Observed ==
  /\ step = "title"
  /\ current' = [id |-> Len(snapshots), refs |-> op.refs] /\ seen' = current'
  /\ snapshots' = [snapshots EXCEPT ![Len(snapshots)] = op.of]
  /\ drove' = FALSE
  /\ step' = "idle" /\ op' = NoOp
  /\ UNCHANGED <<pageVars, heard, settled, stage, closing, acted>>

\* The runner navigates first, without a deadline of its own; then the agent may.
Navigate ==
  /\ Enter \/ (stage = "first" /\ step = "idle" /\ ~ closed)
  /\ step' = "goto"
  /\ UNCHANGED <<pageVars, memory, op, stage, closing, history>>

Commit ==
  /\ step = "goto" /\ NewDocument
  /\ drove' = TRUE
  /\ step' = "loading"
  /\ UNCHANGED <<memory, op, stage, closing, snapshots, acted>>

NavigateReturns ==
  /\ step = "loading"
  /\ settled' \in IF loaded THEN BOOLEAN ELSE {FALSE}
  /\ current' = NoObservation /\ seen' = NoObservation
  /\ drove' = FALSE
  /\ step' = "idle" /\ stage' = "open"
  /\ UNCHANGED <<pageVars, heard, op, closing, snapshots, acted>>

\* A plausible slip: any observation will do, whichever the agent quotes.
AnyLive(observation, id) == observation.id # 0

Live(observation, id) == observation.id = id

\* Both the dispatcher and the session refuse what their own memory does not hold.
Interact(id, ref) ==
  /\ Enter /\ id # 0
  /\ \A observation \in {seen, current} : Live(observation, id) /\ ref \in observation.refs
  /\ step' = "counting" /\ op' = [NoOp EXCEPT !.obs = id, !.ref = ref]
  /\ UNCHANGED <<pageVars, memory, stage, closing, history>>

\* A key pressed without a reference may come without an observation (0).
PressKey(id) ==
  /\ Enter
  /\ id # 0 => Live(seen, id) /\ Live(current, id)
  /\ step' = "acting" /\ op' = [NoOp EXCEPT !.obs = id, !.before = heard]
  /\ UNCHANGED <<pageVars, memory, stage, closing, history>>

\* What the browser makes of a reference: one element of the present document, or none.
Resolves(ref) == ref \in {NoRef} \cup ({doc} \X dom)

CountRef ==
  /\ step = "counting"
  /\ IF Resolves(op.ref)
     THEN step' = "acting" /\ op' = [op EXCEPT !.before = heard]
     ELSE step' = "idle" /\ op' = NoOp
  /\ UNCHANGED <<pageVars, memory, stage, closing, history>>

Act ==
  /\ step = "acting" /\ Resolves(op.ref)
  /\ acted' = IF op.ref = NoRef THEN acted ELSE [obs |-> op.obs, doc |-> doc]
  /\ step' = "probing"
  /\ UNCHANGED <<pageVars, memory, op, stage, closing, snapshots, drove>>

\* didNavigate: nothing more is waited for once the probe's time is up.
Probe ==
  /\ step = "probing"
  /\ IF heard # op.before
     THEN step' = "settling" /\ drove' = TRUE
     ELSE step' = "idle" /\ UNCHANGED drove
  /\ UNCHANGED <<pageVars, memory, op, stage, closing, snapshots, acted>>

InteractionNavigated ==
  /\ step = "settling"
  /\ seen' = NoObservation /\ settled' = FALSE
  /\ step' = "idle"
  /\ UNCHANGED <<pageVars, heard, current, op, stage, closing, history>>

\* An operation that fails, or exceeds the dispatcher's deadline, leaves the dispatcher's
\* memory as it was.  A first navigation that fails ends the attempt.
OperationFails ==
  /\ step # "idle" /\ (stage = "first" => step = "goto")
  /\ step' = "idle" /\ op' = NoOp
  /\ stage' = IF stage = "first" THEN "wrap" ELSE stage
  /\ UNCHANGED <<pageVars, memory, closing, history>>

-----------------------------------------------------------------------------
(* Settling the captures and closing                                        *)

LoopEnds ==
  /\ stage = "open" /\ step = "idle"
  /\ stage' = "wrap"
  /\ UNCHANGED <<pageVars, memory, opVars, closing, history>>

\* The attempt's deadline, or an interruption.  A finalize under way is not resumed.
CutShort ==
  /\ stage \in {"first", "open", "wrap"}
  /\ stage' = "unwind"
  /\ step' = "idle" /\ op' = NoOp
  /\ fin' = "no" /\ batch' = <<>> /\ cut' = (fin # "no")
  /\ UNCHANGED <<pageVars, memory, closed, contextClosed, context, browser, inventory, history>>

Finalizing == stage \in {"wrap", "unwind", "driver"}
After == IF stage = "driver" THEN "release" ELSE "driver"

\* A plausible slip: finalize is not idempotent.
FinalizeAgain ==
  /\ Finalizing /\ fin = "no"
  /\ closed' = TRUE /\ fin' = "trace" /\ UNCHANGED stage
  /\ UNCHANGED <<pageVars, memory, opVars, contextClosed, context, browser, batch, inventory, cut,
                 history>>

Finalize ==
  /\ Finalizing /\ fin = "no"
  /\ IF closed
     THEN stage' = After /\ UNCHANGED <<closed, fin>>
     ELSE closed' = TRUE /\ fin' = "trace" /\ UNCHANGED stage
  /\ UNCHANGED <<pageVars, memory, opVars, contextClosed, context, browser, batch, inventory, cut,
                 history>>

Gather(kind, states) == \E s \in states : batch' = Append(batch, [kind |-> kind, state |-> s])

\* The trace first, then the context, whose close is what finalises the video.
FinalizeStep ==
  /\ \/ fin = "trace" /\ fin' = "close" /\ Gather("trace", {"present", "absent"})
        /\ UNCHANGED <<context, contextClosed>>
     \/ fin = "close" /\ fin' = "logs" /\ UNCHANGED batch
        /\ \/ context' = "closed" /\ contextClosed' = TRUE
           \/ UNCHANGED <<context, contextClosed>>
     \/ fin = "logs" /\ fin' = "video" /\ Gather("logs", {"present", "absent"})
        /\ UNCHANGED <<context, contextClosed>>
     \/ fin = "video" /\ fin' = "register"
        /\ Gather("video", {"absent"} \cup IF contextClosed THEN {"present"} ELSE {})
        /\ UNCHANGED <<context, contextClosed>>
  /\ UNCHANGED <<pageVars, memory, opVars, stage, closed, browser, inventory, cut, history>>

\* registerCapture, one outcome at a time; the driver's own finalizer discards them.
RegisterCapture ==
  /\ fin = "register"
  /\ IF batch = <<>> \/ stage = "driver"
     THEN fin' = "no" /\ batch' = <<>> /\ stage' = After /\ UNCHANGED inventory
     ELSE /\ inventory' = Append(inventory, Head(batch)) /\ batch' = Tail(batch)
          /\ UNCHANGED <<fin, stage>>
  /\ UNCHANGED <<pageVars, memory, opVars, closed, contextClosed, context, browser, cut, history>>

\* Each call of finalize has a deadline; only the runner's leaves a trace of having missed it.
FinalizeTimesOut ==
  /\ fin \in {"trace", "close", "logs", "video"}
  /\ inventory' = IF stage = "wrap"
                  THEN Append(inventory, [kind |-> "trace", state |-> "absent"])
                  ELSE inventory
  /\ fin' = "no" /\ batch' = <<>> /\ cut' = TRUE
  /\ stage' = After
  /\ UNCHANGED <<pageVars, memory, opVars, closed, contextClosed, context, browser, history>>

\* A plausible slip, once made: one flag for "no further action" and for "closed".
ReleaseByOneFlag ==
  /\ stage = "release"
  /\ closed' = TRUE /\ contextClosed' = TRUE
  /\ context' = IF closed THEN context ELSE "closed"
  /\ stage' = "close"
  /\ UNCHANGED <<pageVars, memory, opVars, browser, fin, batch, inventory, cut, history>>

\* The context's release: its failure is ignored, and nothing tries again.
ReleaseContext ==
  /\ stage = "release"
  /\ closed' = TRUE /\ contextClosed' = TRUE
  /\ context' = IF contextClosed THEN context ELSE "closed"
  /\ stage' = "close"
  /\ UNCHANGED <<pageVars, memory, opVars, browser, fin, batch, inventory, cut, history>>

CloseBrowser ==
  /\ stage = "close"
  /\ browser' = FALSE
  /\ stage' = "gone"
  /\ UNCHANGED <<pageVars, memory, opVars, closed, contextClosed, context, fin, batch, inventory,
                 cut, history>>

-----------------------------------------------------------------------------
Page == PageNavigates \/ PageChanges \/ HearNavigation

Operations ==
  \/ Observe \/ TakeSnapshot \/ Observed
  \/ Navigate \/ Commit \/ NavigateReturns
  \/ \E id \in 1..Len(snapshots), ref \in seen.refs : Interact(id, ref)
  \/ \E id \in 0..Len(snapshots) : PressKey(id)
  \/ CountRef \/ Act \/ Probe \/ InteractionNavigated \/ OperationFails

Lifecycle ==
  \/ Open \/ OpenFails \/ LoopEnds \/ CutShort
  \/ Finalize \/ FinalizeStep \/ RegisterCapture \/ FinalizeTimesOut
  \/ ReleaseContext \/ CloseBrowser

Next == Page \/ Operations \/ Lifecycle

Spec == Init /\ [][Next]_vars

-----------------------------------------------------------------------------
(* Properties *)

\* An element is acted on only in the document whose observation the agent quoted, however
\* the page navigates and changes between the snapshot, the agent's answer, the check of
\* the reference and the act itself.
ElementsActedOnWereSeen ==
  acted.obs # 0 => acted.doc = snapshots[acted.obs]

RegisteredAs(kind) == {i \in 1..Len(inventory) : inventory[i].kind = kind}

\* finalize is called up to three times on one context.  Every expected capture is
\* registered at most once, and exactly once unless a deadline or an interruption met the
\* settling itself.
CapturedOnce ==
  \A kind \in Kinds :
    /\ Cardinality(RegisteredAs(kind)) <= 1
    /\ stage = "gone" /\ context # "none" /\ ~ cut => RegisteredAs(kind) # {}

\* The browser is closed only after its context, which is what keeps the video, even when
\* the finalize that was to close it had been cut short.
ClosedInOrder ==
  stage = "gone" => ~ browser /\ context # "open"

\* absence.ts:5: "Did the navigation that preceded the observation actually settle?"  The
\* fact is never given for a navigation an operation began or noticed and did not see end.
SettledMeansSettled ==
  stage = "open" /\ step = "idle" /\ settled => ~ drove
=============================================================================
