----------------------------- MODULE SessionProofs -----------------------------
(***************************************************************************)
(* What module Session promises of a browser session, for every set of     *)
(* elements, every number of documents and of observations.                *)
(*                                                                         *)
(* The references are safe because both memories, the session's and the    *)
(* dispatcher's, hold only references of the document their observation    *)
(* is of (Remembered): what becomes of a stale one is then the browser's   *)
(* answer, not the lock's.  The captures are registered once because what  *)
(* was registered, followed by what was gathered, is always a beginning    *)
(* of one list (Gathering), and finalize starts over only before it ran    *)
(* (Settling).                                                             *)
(***************************************************************************)
EXTENDS Session, SequenceTheorems, FiniteSetTheorems, TLAPS

-----------------------------------------------------------------------------
(* The inductive invariant.                                                 *)

\* An observation that was taken: its snapshot is over.
Taken(id) == id \in 1..Len(snapshots) /\ (step \in {"snapshot", "title"} => id # Len(snapshots))

\* Every reference that is held names an element of the document its observation is of.
Remembered ==
  /\ \A observation \in {current, seen} :
       /\ observation.id # 0 => Taken(observation.id)
       /\ \A ref \in observation.refs :
            observation.id # 0 /\ ref[1] = snapshots[observation.id]
  /\ step \in {"snapshot", "title"} => snapshots # <<>>
  /\ step = "title" => \A ref \in op.refs : ref[1] = op.of
  /\ step \in {"counting", "acting"} =>
       /\ op.obs # 0 => Taken(op.obs)
       /\ op.ref # NoRef => op.obs # 0 /\ op.ref[1] = snapshots[op.obs]
  /\ acted.obs # 0 => Taken(acted.obs) /\ acted.doc = snapshots[acted.obs]

Opening == {"launch", "context", "setup", "announce"}

\* The lock is held only while the attempt browses.
Busy == step # "idle" => stage \in {"first", "open"}

\* What is open at each stage of the session's life.
Contained ==
  /\ stage = "launch" => ~ browser
  /\ stage \in {"launch", "context"} => context = "none"
  /\ context = "none" => stage \in {"launch", "context", "close", "gone"}
  /\ contextClosed => context = "closed"
  /\ stage \in {"close", "gone"} => context # "open"
  /\ stage = "gone" => ~ browser

Order == <<"trace", "logs", "video">>

\* How many outcomes finalize has gathered and not yet registered.
Gathered ==
  IF fin \in {"no", "trace"} THEN 0 ELSE IF fin \in {"close", "logs"} THEN 1
  ELSE IF fin = "video" THEN 2 ELSE 3 - Len(inventory)

\* The outcomes registered, then those gathered, are the captures in their order.
Gathering ==
  /\ Len(inventory) <= 3 /\ Len(batch) = Gathered
  /\ \A i \in 1..Len(inventory) : inventory[i].kind = Order[i]
  /\ \A i \in 1..Len(batch) : batch[i].kind = Order[Len(inventory) + i]

\* When finalize has run, and when it is known to have come to its end.
Settling ==
  /\ fin \notin {"no", "register"} \/ ~ closed => inventory = <<>>
  /\ fin # "no" => closed /\ Finalizing
  /\ stage \in Opening \cup {"first", "open"} \/ (stage = "wrap" /\ fin = "no") => ~ closed /\ ~ cut
  /\ closed /\ fin = "no" /\ ~ cut => Len(inventory) = 3
  /\ stage = "driver" /\ (~ closed \/ fin # "no") => cut
  /\ stage \in {"release", "close", "gone"} /\ context # "none" => closed \/ cut

IInv == TypeOK /\ Remembered /\ Busy /\ Contained /\ Gathering /\ Settling

-----------------------------------------------------------------------------
(* The invariant is inductive.                                              *)

\* The empty observation and the empty operation are typed, and no reference is the empty one.
LEMMA ConstantsTyped ==
  /\ NoObservation \in Observations /\ NoObservation.id = 0 /\ NoObservation.refs = {}
  /\ NoOp \in Ops /\ NoOp.ref = NoRef /\ NoOp.obs = 0
  /\ \A ref \in Refs : ref # NoRef
<1>1. 0 \in 0..MaxObservations /\ 0 \in 0..MaxDocuments
  BY SessionAssumption
<1> QED BY <1>1 DEF NoObservation, Observations, NoOp, Ops, NoRef, Refs

\* The arguments each operation starts with are typed.
LEMMA OperationsTyped ==
  ASSUME PageTypeOK
  PROVE  /\ {doc} \X dom \in SUBSET Refs
         /\ [NoOp EXCEPT !.refs = {doc} \X dom, !.of = doc] \in Ops
         /\ \A id \in 0..MaxObservations, ref \in Refs :
              [NoOp EXCEPT !.obs = id, !.ref = ref] \in Ops
         /\ \A id \in 0..MaxObservations : [NoOp EXCEPT !.obs = id, !.before = heard] \in Ops
         /\ \A o \in Ops : [o EXCEPT !.before = heard] \in Ops
<1>1. doc \in 0..MaxDocuments /\ heard \in 0..MaxDocuments
  BY SessionAssumption DEF PageTypeOK
<1>2. {doc} \X dom \in SUBSET Refs
  BY DEF PageTypeOK, Refs
<1>3. NoOp \in Ops
  BY ConstantsTyped
<1>4. [NoOp EXCEPT !.refs = {doc} \X dom, !.of = doc] \in Ops
  BY <1>1, <1>2, <1>3 DEF Ops
<1>5. \A id \in 0..MaxObservations, ref \in Refs : [NoOp EXCEPT !.obs = id, !.ref = ref] \in Ops
  BY <1>3 DEF Ops
<1>6. \A o \in Ops : [o EXCEPT !.before = heard] \in Ops
  BY <1>1 DEF Ops
<1>7. \A id \in 0..MaxObservations : [NoOp EXCEPT !.obs = id, !.before = heard] \in Ops
  BY <1>1, <1>3 DEF Ops
<1> QED BY <1>2, <1>4, <1>5, <1>6, <1>7

\* The page's documents are numbered within the bound, and no news of one precedes it.
LEMMA PageTyped ==
  ASSUME PageTypeOK, [Next]_vars
  PROVE  PageTypeOK'
<1>1. ASSUME UNCHANGED <<pageVars, heard>>
      PROVE  PageTypeOK'
  BY <1>1 DEF PageTypeOK, pageVars
<1>2. CASE Open \/ OpenFails \/ Observe \/ TakeSnapshot \/ Observed
  <2>1. UNCHANGED <<pageVars, heard>>
    BY <1>2 DEF Open, OpenFails, Observe, TakeSnapshot, Observed, memory
  <2> QED BY <1>1, <2>1
<1>3. CASE \/ Navigate \/ NavigateReturns
           \/ (\E id \in 1..Len(snapshots), ref \in seen.refs : Interact(id, ref))
           \/ (\E id \in 0..Len(snapshots) : PressKey(id)) \/ CountRef
  <2>1. UNCHANGED <<pageVars, heard>>
    BY <1>3
       DEF Navigate, NavigateReturns, Interact, PressKey, CountRef, pageVars, memory, opVars,
           closing, history
  <2> QED BY <1>1, <2>1
<1>4. CASE Act \/ Probe \/ InteractionNavigated \/ OperationFails \/ LoopEnds
  <2>1. UNCHANGED <<pageVars, heard>>
    BY <1>4 DEF Act, Probe, InteractionNavigated, OperationFails, LoopEnds, memory
  <2> QED BY <1>1, <2>1
<1>5. CASE CutShort \/ Finalize \/ FinalizeStep \/ RegisterCapture \/ FinalizeTimesOut
  <2>1. UNCHANGED <<pageVars, heard>>
    BY <1>5 DEF CutShort, Finalize, FinalizeStep, RegisterCapture, FinalizeTimesOut, memory
  <2> QED BY <1>1, <2>1
<1>6. CASE ReleaseContext \/ CloseBrowser
  <2>1. UNCHANGED <<pageVars, heard>>
    BY <1>6 DEF ReleaseContext, CloseBrowser, memory
  <2> QED BY <1>1, <2>1
<1>7. CASE PageNavigates
  <2>1. doc' = doc + 1 /\ doc < MaxDocuments /\ heard' = heard
    BY <1>7 DEF PageNavigates, NewDocument, memory
  <2>2. dom' \in SUBSET Elements /\ loaded' \in BOOLEAN
    BY <1>7 DEF PageNavigates, NewDocument
  <2>3. doc' \in 0..MaxDocuments /\ heard' \in 0..doc'
    BY <2>1, SessionAssumption DEF PageTypeOK
  <2> QED BY <2>2, <2>3 DEF PageTypeOK
<1>8. CASE PageChanges
  BY <1>8 DEF PageChanges, memory, PageTypeOK
<1>9. CASE HearNavigation
  BY <1>9 DEF HearNavigation, pageVars, PageTypeOK
<1>10. CASE Commit
  <2>1. doc' = doc + 1 /\ doc < MaxDocuments /\ heard' = heard
    BY <1>10 DEF Commit, NewDocument, memory
  <2>2. dom' \in SUBSET Elements /\ loaded' \in BOOLEAN
    BY <1>10 DEF Commit, NewDocument
  <2>3. doc' \in 0..MaxDocuments /\ heard' \in 0..doc'
    BY <2>1, SessionAssumption DEF PageTypeOK
  <2> QED BY <2>2, <2>3 DEF PageTypeOK
<1>11. CASE UNCHANGED vars
  <2>1. UNCHANGED <<pageVars, heard>>
    BY <1>11 DEF vars, memory
  <2> QED BY <1>1, <2>1
<1> QED BY <1>2, <1>3, <1>4, <1>5, <1>6, <1>7, <1>8, <1>9, <1>10, <1>11
     DEF Next, Page, Operations, Lifecycle

\* What the session and the dispatcher remember is typed.
LEMMA MemoryTyped ==
  ASSUME PageTypeOK, MemoryTypeOK, Remembered, [Next]_vars
  PROVE  MemoryTypeOK'
<1>1. ASSUME UNCHANGED <<current, seen, settled, opVars, history>>
      PROVE  MemoryTypeOK'
  BY <1>1 DEF MemoryTypeOK, opVars, history
<1>2. CASE Open \/ OpenFails \/ PageNavigates \/ PageChanges \/ LoopEnds
  <2>1. UNCHANGED <<current, seen, settled, opVars, history>>
    BY <1>2 DEF Open, OpenFails, PageNavigates, PageChanges, LoopEnds, memory
  <2> QED BY <1>1, <2>1
<1>3. CASE Finalize \/ FinalizeStep \/ RegisterCapture \/ FinalizeTimesOut \/ ReleaseContext
  <2>1. UNCHANGED <<current, seen, settled, opVars, history>>
    BY <1>3 DEF Finalize, FinalizeStep, RegisterCapture, FinalizeTimesOut, ReleaseContext, memory
  <2> QED BY <1>1, <2>1
<1>4. CASE CloseBrowser
  <2>1. UNCHANGED <<current, seen, settled, opVars, history>>
    BY <1>4 DEF CloseBrowser, memory
  <2> QED BY <1>1, <2>1
<1>5. CASE HearNavigation
  BY <1>5, ConstantsTyped DEF HearNavigation, opVars, history, MemoryTypeOK
<1>6. CASE Observe
  <2>1. snapshots \in Seq(0..MaxDocuments) /\ 0 \in 0..MaxDocuments
    BY SessionAssumption DEF MemoryTypeOK
  <2>2. snapshots' \in Seq(0..MaxDocuments) /\ Len(snapshots') = Len(snapshots) + 1
    BY <1>6, <2>1 DEF Observe
  <2>3. Len(snapshots) \in Nat /\ Len(snapshots) < MaxObservations
    BY <1>6 DEF Observe
  <2>4. Len(snapshots') <= MaxObservations
    BY <2>2, <2>3, SessionAssumption
  <2>5. step' \in Steps
    BY <1>6 DEF Observe, Steps
  <2> QED BY <1>6, <2>2, <2>4, <2>5 DEF Observe, memory, MemoryTypeOK
<1>7. CASE TakeSnapshot
  BY <1>7, ConstantsTyped, OperationsTyped
     DEF TakeSnapshot, pageVars, memory, opVars, closing, history, MemoryTypeOK, Steps
<1>8. CASE Observed
  <2>1. snapshots \in Seq(0..MaxDocuments) /\ Len(snapshots) <= MaxObservations /\ op \in Ops
    BY DEF MemoryTypeOK
  <2>2. op.refs \in SUBSET Refs /\ op.of \in 0..MaxDocuments
    BY <2>1 DEF Ops
  <2>3. Len(snapshots) \in 1..Len(snapshots) /\ Len(snapshots) \in 0..MaxObservations
    BY <1>8, <2>1 DEF Observed, Remembered
  <2>4. snapshots' \in Seq(0..MaxDocuments) /\ Len(snapshots') = Len(snapshots)
    BY <1>8, <2>1, <2>2, <2>3 DEF Observed
  <2>5. current' \in Observations /\ seen' \in Observations
    BY <1>8, <2>2, <2>3 DEF Observed, Observations
  <2>6. step' \in Steps /\ op' \in Ops
    BY <1>8, ConstantsTyped DEF Observed, Steps
  <2> QED BY <1>8, <2>4, <2>5, <2>6 DEF Observed, MemoryTypeOK
<1>9. CASE Navigate
  BY <1>9 DEF Navigate, memory, history, MemoryTypeOK, Steps
<1>10. CASE Commit
  BY <1>10 DEF Commit, memory, MemoryTypeOK, Steps
<1>11. CASE NavigateReturns
  BY <1>11, ConstantsTyped DEF NavigateReturns, MemoryTypeOK, Steps
<1>12. ASSUME NEW id \in 1..Len(snapshots), NEW ref \in seen.refs, Interact(id, ref)
      PROVE  MemoryTypeOK'
  <2>1. id \in 0..MaxObservations /\ ref \in Refs
    <3>1. Len(snapshots) \in Nat /\ Len(snapshots) <= MaxObservations
      BY DEF MemoryTypeOK
    <3>2. seen.refs \subseteq Refs
      BY DEF MemoryTypeOK, Observations
    <3> QED BY <3>1, <3>2, SessionAssumption
  <2>2. op' \in Ops
    BY <1>12, <2>1, OperationsTyped DEF Interact
  <2>3. step' \in Steps
    BY <1>12 DEF Interact, Steps
  <2> QED BY <1>12, <2>2, <2>3 DEF Interact, memory, history, MemoryTypeOK
<1>13. ASSUME NEW id \in 0..Len(snapshots), PressKey(id)
      PROVE  MemoryTypeOK'
  <2>1. id \in 0..MaxObservations
    <3>1. Len(snapshots) \in Nat /\ Len(snapshots) <= MaxObservations
      BY DEF MemoryTypeOK
    <3> QED BY <3>1, SessionAssumption
  <2>2. op' \in Ops
    BY <1>13, <2>1, OperationsTyped DEF PressKey
  <2>3. step' \in Steps
    BY <1>13 DEF PressKey, Steps
  <2> QED BY <1>13, <2>2, <2>3 DEF PressKey, memory, history, MemoryTypeOK
<1>14. CASE CountRef
  BY <1>14, ConstantsTyped, OperationsTyped
     DEF CountRef, Resolves, pageVars, memory, opVars, closing, history, MemoryTypeOK, Steps
<1>15. CASE Act
  <2>1. op.obs \in 0..MaxObservations /\ doc \in 0..MaxDocuments
    BY DEF MemoryTypeOK, PageTypeOK, Ops
  <2>2. acted' \in [obs : 0..MaxObservations, doc : 0..MaxDocuments]
    BY <1>15, <2>1 DEF Act, MemoryTypeOK
  <2>3. step' \in Steps
    BY <1>15 DEF Act, Steps
  <2> QED BY <1>15, <2>2, <2>3 DEF Act, memory, MemoryTypeOK
<1>16. CASE Probe
  BY <1>16 DEF Probe, memory, MemoryTypeOK, Steps
<1>17. CASE InteractionNavigated
  BY <1>17, ConstantsTyped DEF InteractionNavigated, history, MemoryTypeOK, Steps
<1>18. CASE OperationFails
  BY <1>18, ConstantsTyped DEF OperationFails, memory, history, MemoryTypeOK, Steps
<1>19. CASE CutShort
  BY <1>19, ConstantsTyped DEF CutShort, memory, history, MemoryTypeOK, Steps
<1>20. CASE UNCHANGED vars
  <2>1. UNCHANGED <<current, seen, settled, opVars, history>>
    BY <1>20 DEF vars, memory
  <2> QED BY <1>1, <2>1
<1> QED BY <1>2, <1>3, <1>4, <1>5, <1>6, <1>7, <1>8, <1>9, <1>10, <1>11, <1>12, <1>13, <1>14,
           <1>15, <1>16, <1>17, <1>18, <1>19, <1>20
     DEF Next, Page, Operations, Lifecycle

\* The life of the context and of its captures is typed.
LEMMA CaptureTyped ==
  ASSUME CaptureTypeOK, [Next]_vars
  PROVE  CaptureTypeOK'
<1>1. ASSUME UNCHANGED <<stage, closing>>
      PROVE  CaptureTypeOK'
  BY <1>1 DEF CaptureTypeOK, closing
<1>2. CASE PageNavigates \/ PageChanges \/ HearNavigation \/ Observe \/ TakeSnapshot
  <2>1. UNCHANGED <<stage, closing>>
    BY <1>2 DEF PageNavigates, PageChanges, HearNavigation, Observe, TakeSnapshot
  <2> QED BY <1>1, <2>1
<1>3. CASE \/ Observed \/ Navigate \/ Commit
           \/ (\E id \in 1..Len(snapshots), ref \in seen.refs : Interact(id, ref))
           \/ (\E id \in 0..Len(snapshots) : PressKey(id))
  <2>1. UNCHANGED <<stage, closing>>
    BY <1>3
       DEF Observed, Navigate, Commit, NewDocument, Interact, PressKey, pageVars, memory, opVars,
           closing, history
  <2> QED BY <1>1, <2>1
<1>4. CASE CountRef \/ Act \/ Probe \/ InteractionNavigated
  <2>1. UNCHANGED <<stage, closing>>
    BY <1>4 DEF CountRef, Act, Probe, InteractionNavigated
  <2> QED BY <1>1, <2>1
<1>5. CASE Open
  BY <1>5 DEF Open, CaptureTypeOK, Stages
<1>6. CASE OpenFails
  BY <1>6 DEF OpenFails, CaptureTypeOK, Stages
<1>7. CASE NavigateReturns
  BY <1>7 DEF NavigateReturns, closing, CaptureTypeOK, Stages
<1>8. CASE OperationFails
  BY <1>8 DEF OperationFails, closing, CaptureTypeOK, Stages
<1>9. CASE LoopEnds
  BY <1>9 DEF LoopEnds, closing, CaptureTypeOK, Stages
<1>10. CASE CutShort
  BY <1>10 DEF CutShort, CaptureTypeOK, Stages
<1>11. CASE Finalize
  BY <1>11 DEF Finalize, After, CaptureTypeOK, Stages
<1>12. CASE FinalizeStep
  <2>1. fin' \in {"no", "trace", "close", "logs", "video", "register"}
    BY <1>12 DEF FinalizeStep
  <2>2. context' \in {"none", "open", "closed"} /\ contextClosed' \in BOOLEAN
    BY <1>12 DEF FinalizeStep, CaptureTypeOK
  <2>3. batch' \in Seq(Outcomes)
    <3>1. \A kind \in Kinds, s \in {"present", "absent"} : [kind |-> kind, state |-> s] \in Outcomes
      BY DEF Outcomes
    <3>2. batch' = batch \/ \E o \in Outcomes : batch' = Append(batch, o)
      BY <1>12, <3>1 DEF FinalizeStep, Gather, Kinds
    <3> QED BY <3>2 DEF CaptureTypeOK
  <2> QED BY <1>12, <2>2, <2>3 DEF FinalizeStep, CaptureTypeOK
<1>13. CASE RegisterCapture
  <2>1. batch \in Seq(Outcomes) /\ inventory \in Seq(Outcomes)
    BY DEF CaptureTypeOK
  <2>2. batch' \in Seq(Outcomes) /\ inventory' \in Seq(Outcomes)
    <3>1. CASE batch = <<>> \/ stage = "driver"
      BY <1>13, <2>1, <3>1, EmptySeq DEF RegisterCapture
    <3>2. CASE ~ (batch = <<>> \/ stage = "driver")
      <4>1. Head(batch) \in Outcomes /\ Tail(batch) \in Seq(Outcomes)
        BY <2>1, <3>2
      <4>2. Append(inventory, Head(batch)) \in Seq(Outcomes)
        BY <2>1, <4>1
      <4> QED BY <1>13, <3>2, <4>1, <4>2 DEF RegisterCapture
    <3> QED BY <3>1, <3>2
  <2>3. stage' \in Stages /\ fin' \in {"no", "trace", "close", "logs", "video", "register"}
    BY <1>13 DEF RegisterCapture, After, Stages, CaptureTypeOK
  <2> QED BY <1>13, <2>2, <2>3 DEF RegisterCapture, CaptureTypeOK
<1>14. CASE FinalizeTimesOut
  <2>1. inventory' \in Seq(Outcomes)
    <3>1. [kind |-> "trace", state |-> "absent"] \in Outcomes
      BY DEF Outcomes, Kinds
    <3> QED BY <1>14, <3>1 DEF FinalizeTimesOut, CaptureTypeOK
  <2>2. batch' \in Seq(Outcomes)
    BY <1>14 DEF FinalizeTimesOut
  <2>3. stage' \in Stages
    BY <1>14 DEF FinalizeTimesOut, After, Stages
  <2> QED BY <1>14, <2>1, <2>3 DEF FinalizeTimesOut, CaptureTypeOK
<1>15. CASE ReleaseContext
  BY <1>15 DEF ReleaseContext, CaptureTypeOK, Stages
<1>16. CASE CloseBrowser
  BY <1>16 DEF CloseBrowser, CaptureTypeOK, Stages
<1>17. CASE UNCHANGED vars
  <2>1. UNCHANGED <<stage, closing>>
    BY <1>17 DEF vars
  <2> QED BY <1>1, <2>1
<1> QED BY <1>2, <1>3, <1>4, <1>5, <1>6, <1>7, <1>8, <1>9, <1>10, <1>11, <1>12, <1>13, <1>14,
           <1>15, <1>16, <1>17
     DEF Next, Page, Operations, Lifecycle

\* What is remembered names elements of the document it was taken from.
LEMMA MemoryPreserved ==
  ASSUME TypeOK, Remembered, [Next]_vars
  PROVE  Remembered'
<1>1. ASSUME UNCHANGED <<current, seen, opVars, history>>
      PROVE  Remembered'
  BY <1>1 DEF Remembered, Taken, opVars, history
<1>2. CASE Open \/ OpenFails \/ PageNavigates \/ PageChanges \/ LoopEnds
  <2>1. UNCHANGED <<current, seen, opVars, history>>
    BY <1>2 DEF Open, OpenFails, PageNavigates, PageChanges, LoopEnds, memory
  <2> QED BY <1>1, <2>1
<1>3. CASE Finalize \/ FinalizeStep \/ RegisterCapture \/ FinalizeTimesOut \/ ReleaseContext
  <2>1. UNCHANGED <<current, seen, opVars, history>>
    BY <1>3 DEF Finalize, FinalizeStep, RegisterCapture, FinalizeTimesOut, ReleaseContext, memory
  <2> QED BY <1>1, <2>1
<1>4. CASE CloseBrowser
  <2>1. UNCHANGED <<current, seen, opVars, history>>
    BY <1>4 DEF CloseBrowser, memory
  <2> QED BY <1>1, <2>1
<1>5. CASE HearNavigation
  BY <1>5 DEF HearNavigation, opVars, history, Remembered, Taken, NoObservation
<1>6. CASE Observe
  BY <1>6 DEF Observe, memory, Remembered, Taken
<1>7. CASE TakeSnapshot
  BY <1>7 DEF TakeSnapshot, memory, history, Remembered, Taken
<1>8. CASE Observed
  BY <1>8 DEF Observed, Remembered, Taken
<1>9. CASE Navigate
  BY <1>9 DEF Navigate, memory, history, Remembered, Taken
<1>10. CASE Commit
  BY <1>10 DEF Commit, memory, Remembered, Taken
<1>11. CASE NavigateReturns
  BY <1>11, ConstantsTyped DEF NavigateReturns, Remembered, Taken
<1>12. ASSUME NEW id \in 1..Len(snapshots), NEW ref \in seen.refs, Interact(id, ref)
      PROVE  Remembered'
  BY <1>12 DEF Interact, Live, memory, history, Remembered, Taken
<1>13. ASSUME NEW id \in 0..Len(snapshots), PressKey(id)
      PROVE  Remembered'
  BY <1>13, ConstantsTyped DEF PressKey, memory, history, Remembered, Taken
<1>14. CASE CountRef
  <2>1. op \in Ops
    BY DEF TypeOK, MemoryTypeOK
  <2>2. CASE Resolves(op.ref)
    <3>1. op'.obs = op.obs /\ op'.ref = op.ref /\ step' = "acting" /\ step = "counting"
      BY <1>14, <2>1, <2>2 DEF CountRef, Ops
    <3> QED BY <1>14, <3>1 DEF CountRef, memory, history, Remembered, Taken
  <2>3. CASE ~ Resolves(op.ref)
    <3>1. step' = "idle" /\ step = "counting"
      BY <1>14, <2>3 DEF CountRef
    <3> QED BY <1>14, <3>1 DEF CountRef, memory, history, Remembered, Taken
  <2> QED BY <2>2, <2>3
<1>15. CASE Act
  BY <1>15 DEF Act, Resolves, memory, Remembered, Taken
<1>16. CASE Probe
  BY <1>16 DEF Probe, memory, Remembered, Taken
<1>17. CASE InteractionNavigated
  BY <1>17, ConstantsTyped DEF InteractionNavigated, history, Remembered, Taken
<1>18. CASE OperationFails
  BY <1>18 DEF OperationFails, memory, history, Remembered, Taken
<1>19. CASE CutShort
  BY <1>19 DEF CutShort, memory, history, Remembered, Taken
<1>20. CASE UNCHANGED vars
  <2>1. UNCHANGED <<current, seen, opVars, history>>
    BY <1>20 DEF vars, memory
  <2> QED BY <1>1, <2>1
<1> QED BY <1>2, <1>3, <1>4, <1>5, <1>6, <1>7, <1>8, <1>9, <1>10, <1>11, <1>12, <1>13, <1>14,
           <1>15, <1>16, <1>17, <1>18, <1>19, <1>20
     DEF Next, Page, Operations, Lifecycle

\* Operations are over before the captures are settled.
LEMMA BusyPreserved ==
  ASSUME Settling, Busy, [Next]_vars
  PROVE  Busy'
<1>1. ASSUME UNCHANGED <<step, stage>>
      PROVE  Busy'
  BY <1>1 DEF Busy
<1>2. CASE PageNavigates \/ PageChanges \/ HearNavigation \/ FinalizeStep
  <2>1. UNCHANGED <<step, stage>>
    BY <1>2 DEF PageNavigates, PageChanges, HearNavigation, FinalizeStep, opVars
  <2> QED BY <1>1, <2>1
<1>3. CASE Open
  BY <1>3 DEF Open, opVars, Busy
<1>4. CASE OpenFails
  BY <1>4 DEF OpenFails, opVars, Busy
<1>5. CASE Observe
  BY <1>5 DEF Observe, Enter, Busy
<1>6. CASE TakeSnapshot
  BY <1>6 DEF TakeSnapshot, Busy
<1>7. CASE Observed
  BY <1>7 DEF Observed, Busy
<1>8. CASE Navigate
  BY <1>8 DEF Navigate, Enter, Busy
<1>9. CASE Commit
  BY <1>9 DEF Commit, Busy
<1>10. CASE NavigateReturns
  BY <1>10 DEF NavigateReturns, Busy
<1>11. ASSUME NEW id \in 1..Len(snapshots), NEW ref \in seen.refs, Interact(id, ref)
      PROVE  Busy'
  BY <1>11 DEF Interact, Enter, Busy
<1>12. ASSUME NEW id \in 0..Len(snapshots), PressKey(id)
      PROVE  Busy'
  BY <1>12 DEF PressKey, Enter, Busy
<1>13. CASE CountRef
  BY <1>13 DEF CountRef, Busy
<1>14. CASE Act
  BY <1>14 DEF Act, Busy
<1>15. CASE Probe
  BY <1>15 DEF Probe, Busy
<1>16. CASE InteractionNavigated
  BY <1>16 DEF InteractionNavigated, Busy
<1>17. CASE OperationFails
  BY <1>17 DEF OperationFails, Busy
<1>18. CASE LoopEnds
  BY <1>18 DEF LoopEnds, opVars, Busy
<1>19. CASE CutShort
  BY <1>19 DEF CutShort, Busy
<1>20. CASE Finalize
  BY <1>20 DEF Finalize, Finalizing, opVars, Busy
<1>21. CASE RegisterCapture
  BY <1>21 DEF RegisterCapture, opVars, Busy, Settling
<1>22. CASE FinalizeTimesOut
  BY <1>22 DEF FinalizeTimesOut, opVars, Busy, Settling
<1>23. CASE ReleaseContext
  BY <1>23 DEF ReleaseContext, opVars, Busy
<1>24. CASE CloseBrowser
  BY <1>24 DEF CloseBrowser, opVars, Busy
<1>25. CASE UNCHANGED vars
  <2>1. UNCHANGED <<step, stage>>
    BY <1>25 DEF vars, opVars
  <2> QED BY <1>1, <2>1
<1> QED BY <1>2, <1>3, <1>4, <1>5, <1>6, <1>7, <1>8, <1>9, <1>10, <1>11, <1>12, <1>13, <1>14,
           <1>15, <1>16, <1>17, <1>18, <1>19, <1>20, <1>21, <1>22, <1>23, <1>24, <1>25
     DEF Next, Page, Operations, Lifecycle

\* The context is closed before the browser, by whichever finalizer gets there.
LEMMA ContainmentPreserved ==
  ASSUME Busy, Contained, Settling, [Next]_vars
  PROVE  Contained'
<1>1. ASSUME UNCHANGED <<stage, closing>>
      PROVE  Contained'
  BY <1>1 DEF Contained, closing
<1>2. CASE PageNavigates \/ PageChanges \/ HearNavigation \/ Observe \/ TakeSnapshot
  <2>1. UNCHANGED <<stage, closing>>
    BY <1>2 DEF PageNavigates, PageChanges, HearNavigation, Observe, TakeSnapshot
  <2> QED BY <1>1, <2>1
<1>3. CASE \/ Observed \/ Navigate \/ Commit
           \/ (\E id \in 1..Len(snapshots), ref \in seen.refs : Interact(id, ref))
           \/ (\E id \in 0..Len(snapshots) : PressKey(id))
  <2>1. UNCHANGED <<stage, closing>>
    BY <1>3
       DEF Observed, Navigate, Commit, NewDocument, Interact, PressKey, pageVars, memory, opVars,
           closing, history
  <2> QED BY <1>1, <2>1
<1>4. CASE CountRef \/ Act \/ Probe \/ InteractionNavigated
  <2>1. UNCHANGED <<stage, closing>>
    BY <1>4 DEF CountRef, Act, Probe, InteractionNavigated
  <2> QED BY <1>1, <2>1
<1>5. CASE Open
  BY <1>5 DEF Open, Contained
<1>6. CASE OpenFails
  BY <1>6 DEF OpenFails, Contained
<1>7. CASE NavigateReturns
  BY <1>7 DEF NavigateReturns, closing, Contained, Busy
<1>8. CASE OperationFails
  BY <1>8 DEF OperationFails, closing, Contained
<1>9. CASE LoopEnds
  BY <1>9 DEF LoopEnds, closing, Contained
<1>10. CASE CutShort
  BY <1>10 DEF CutShort, Contained
<1>11. CASE Finalize
  BY <1>11 DEF Finalize, Finalizing, After, Contained
<1>12. CASE FinalizeStep
  <2>1. fin # "no" /\ Finalizing
    BY <1>12 DEF FinalizeStep, Settling
  <2>2. stage \in {"wrap", "unwind", "driver"} /\ stage' = stage /\ browser' = browser
    BY <1>12, <2>1 DEF FinalizeStep, Finalizing
  <2>3. \/ context' = context /\ contextClosed' = contextClosed
        \/ context' = "closed" /\ contextClosed' = TRUE
    BY <1>12 DEF FinalizeStep
  <2> QED BY <2>2, <2>3 DEF Contained
<1>13. CASE RegisterCapture
  <2>1. stage \in {"wrap", "unwind", "driver"} /\ context # "none"
    BY <1>13 DEF RegisterCapture, Settling, Finalizing, Contained
  <2>2. stage' \in {"wrap", "unwind", "driver", "release"}
    BY <1>13, <2>1 DEF RegisterCapture, After
  <2>3. UNCHANGED <<context, contextClosed, browser>>
    BY <1>13 DEF RegisterCapture
  <2> QED BY <2>1, <2>2, <2>3 DEF Contained
<1>14. CASE FinalizeTimesOut
  <2>1. stage \in {"wrap", "unwind", "driver"} /\ context # "none"
    BY <1>14 DEF FinalizeTimesOut, Settling, Finalizing, Contained
  <2>2. stage' \in {"wrap", "unwind", "driver", "release"}
    BY <1>14 DEF FinalizeTimesOut, After
  <2>3. UNCHANGED <<context, contextClosed, browser>>
    BY <1>14 DEF FinalizeTimesOut
  <2> QED BY <2>1, <2>2, <2>3 DEF Contained
<1>15. CASE ReleaseContext
  BY <1>15 DEF ReleaseContext, Contained
<1>16. CASE CloseBrowser
  BY <1>16 DEF CloseBrowser, Contained
<1>17. CASE UNCHANGED vars
  <2>1. UNCHANGED <<stage, closing>>
    BY <1>17 DEF vars
  <2> QED BY <1>1, <2>1
<1> QED BY <1>2, <1>3, <1>4, <1>5, <1>6, <1>7, <1>8, <1>9, <1>10, <1>11, <1>12, <1>13, <1>14,
           <1>15, <1>16, <1>17
     DEF Next, Page, Operations, Lifecycle

\* The outcomes gathered and registered are the captures, in their order.
LEMMA GatheringPreserved ==
  ASSUME CaptureTypeOK, Settling, Gathering, [Next]_vars
  PROVE  Gathering'
<1>1. ASSUME UNCHANGED <<fin, batch, inventory>>
      PROVE  Gathering'
  BY <1>1 DEF Gathering, Gathered
<1>2. CASE Open \/ OpenFails \/ PageNavigates \/ PageChanges \/ HearNavigation
  <2>1. UNCHANGED <<fin, batch, inventory>>
    BY <1>2 DEF Open, OpenFails, PageNavigates, PageChanges, HearNavigation, closing
  <2> QED BY <1>1, <2>1
<1>3. CASE Observe \/ TakeSnapshot \/ Observed \/ Navigate \/ Commit
  <2>1. UNCHANGED <<fin, batch, inventory>>
    BY <1>3 DEF Observe, TakeSnapshot, Observed, Navigate, Commit, closing
  <2> QED BY <1>1, <2>1
<1>4. CASE \/ NavigateReturns
           \/ (\E id \in 1..Len(snapshots), ref \in seen.refs : Interact(id, ref))
           \/ (\E id \in 0..Len(snapshots) : PressKey(id)) \/ CountRef \/ Act
  <2>1. UNCHANGED <<fin, batch, inventory>>
    BY <1>4
       DEF NavigateReturns, Interact, PressKey, CountRef, Act, pageVars, memory, opVars, closing,
           history
  <2> QED BY <1>1, <2>1
<1>5. CASE Probe \/ InteractionNavigated \/ OperationFails \/ LoopEnds \/ ReleaseContext
  <2>1. UNCHANGED <<fin, batch, inventory>>
    BY <1>5 DEF Probe, InteractionNavigated, OperationFails, LoopEnds, ReleaseContext, closing
  <2> QED BY <1>1, <2>1
<1>6. CASE CloseBrowser
  <2>1. UNCHANGED <<fin, batch, inventory>>
    BY <1>6 DEF CloseBrowser
  <2> QED BY <1>1, <2>1
<1>7. CASE CutShort
  <2>1. fin' = "no" /\ batch' = <<>> /\ inventory' = inventory
    BY <1>7 DEF CutShort
  <2> QED BY <2>1 DEF Gathering, Gathered
<1>8. CASE Finalize
  BY <1>8 DEF Finalize, Gathering, Gathered
<1>9. CASE FinalizeStep
  <2>1. inventory = <<>> /\ inventory' = <<>> /\ Len(inventory) = 0
    <3>1. fin \notin {"no", "register"}
      BY <1>9 DEF FinalizeStep
    <3> QED BY <1>9 DEF FinalizeStep, Settling
  <2>2. CASE fin = "close"
    BY <1>9, <2>2 DEF FinalizeStep, Gathering, Gathered
  <2>3. ASSUME NEW o \in Outcomes, batch' = Append(batch, o), Len(batch) \in 0..2,
               o.kind = Order[Len(batch) + 1]
        PROVE  /\ Len(batch') = Len(batch) + 1
               /\ \A i \in 1..Len(batch') : batch'[i].kind = Order[Len(inventory') + i]
    <3>1. batch \in Seq(Outcomes)
      BY DEF CaptureTypeOK
    <3>2. /\ Len(batch') = Len(batch) + 1
          /\ \A i \in 1..Len(batch) : batch'[i] = batch[i]
          /\ batch'[Len(batch) + 1] = o
      BY <2>3
    <3>3. \A i \in 1..Len(batch) : batch[i].kind = Order[i]
      BY <2>1 DEF Gathering
    <3> QED BY <2>1, <2>3, <3>3
  <2>4. ASSUME fin \in {"trace", "logs", "video"}
        PROVE  \E o \in Outcomes :
                 /\ batch' = Append(batch, o) /\ o.kind = fin
                 /\ \/ fin = "trace" /\ fin' = "close"
                    \/ fin = "logs" /\ fin' = "video"
                    \/ fin = "video" /\ fin' = "register"
    BY <1>9, <2>4 DEF FinalizeStep, Gather, Outcomes, Kinds
  <2>5. CASE fin \in {"trace", "logs", "video"}
    <3>1. PICK o \in Outcomes :
            /\ batch' = Append(batch, o) /\ o.kind = fin
            /\ \/ fin = "trace" /\ fin' = "close"
               \/ fin = "logs" /\ fin' = "video"
               \/ fin = "video" /\ fin' = "register"
      BY <2>4, <2>5
    <3>2. /\ Len(batch) \in 0..2 /\ fin = Order[Len(batch) + 1]
          /\ Gathered' = Len(batch) + 1
      BY <2>1, <3>1 DEF Gathering, Gathered, Order
    <3>3. /\ Len(batch') = Len(batch) + 1
          /\ \A i \in 1..Len(batch') : batch'[i].kind = Order[Len(inventory') + i]
      BY <2>3, <3>1, <3>2
    <3> QED BY <2>1, <3>2, <3>3 DEF Gathering
  <2> QED BY <1>9, <2>2, <2>5 DEF FinalizeStep
<1>10. CASE RegisterCapture
  <2>1. batch \in Seq(Outcomes) /\ inventory \in Seq(Outcomes) /\ fin = "register"
    BY <1>10 DEF CaptureTypeOK, RegisterCapture
  <2>2. CASE batch = <<>> \/ stage = "driver"
    <3>1. fin' = "no" /\ batch' = <<>> /\ inventory' = inventory
      BY <1>10, <2>2 DEF RegisterCapture
    <3> QED BY <3>1 DEF Gathering, Gathered
  <2>3. CASE ~ (batch = <<>> \/ stage = "driver")
    <3>1. /\ batch # <<>> /\ fin' = fin /\ batch' = Tail(batch)
          /\ inventory' = Append(inventory, Head(batch))
      BY <1>10, <2>3 DEF RegisterCapture
    <3>2. /\ Len(batch) \in Nat /\ Len(batch) > 0 /\ Len(inventory) \in Nat
          /\ Len(inventory) <= 3 /\ Len(batch) = 3 - Len(inventory)
      BY <2>1, <3>1 DEF Gathering, Gathered
    <3>3. /\ Head(batch) = batch[1] /\ Len(batch') = Len(batch) - 1
          /\ \A i \in 1..Len(batch') : batch'[i] = batch[i + 1]
      BY <3>1
    <3>4. Head(batch) \in Outcomes
      BY <2>1, <3>1
    <3>5. /\ Len(inventory') = Len(inventory) + 1
          /\ \A i \in 1..Len(inventory) : inventory'[i] = inventory[i]
          /\ inventory'[Len(inventory) + 1] = Head(batch)
      BY <3>1
    <3>6. Head(batch).kind = Order[Len(inventory) + 1]
      BY <3>3 DEF Gathering
    <3>7. Len(inventory') <= 3 /\ Len(batch') = Gathered'
      BY <2>1, <3>1, <3>2 DEF Gathered
    <3>8. \A i \in 1..Len(inventory') : inventory'[i].kind = Order[i]
      BY <3>5, <3>6 DEF Gathering
    <3>9. \A i \in 1..Len(batch') : batch'[i].kind = Order[Len(inventory') + i]
      BY <3>2, <3>3, <3>5 DEF Gathering
    <3> QED BY <3>7, <3>8, <3>9 DEF Gathering
  <2> QED BY <2>2, <2>3
<1>11. CASE FinalizeTimesOut
  <2>1. inventory = <<>> /\ fin' = "no" /\ batch' = <<>>
    BY <1>11 DEF FinalizeTimesOut, Settling
  <2>2. inventory' = <<>> \/ inventory' = <<[kind |-> "trace", state |-> "absent"]>>
    BY <1>11, <2>1 DEF FinalizeTimesOut
  <2> QED BY <2>1, <2>2 DEF Gathering, Gathered, Order
<1>12. CASE UNCHANGED vars
  <2>1. UNCHANGED <<fin, batch, inventory>>
    BY <1>12 DEF vars, closing
  <2> QED BY <1>1, <2>1
<1> QED BY <1>2, <1>3, <1>4, <1>5, <1>6, <1>7, <1>8, <1>9, <1>10, <1>11, <1>12
     DEF Next, Page, Operations, Lifecycle

\* Every expected capture is registered before the session is released, unless cut short.
LEMMA SettlingPreserved ==
  ASSUME CaptureTypeOK, Busy, Contained, Gathering, Settling, [Next]_vars
  PROVE  Settling'
<1>1. ASSUME UNCHANGED <<stage, closing>>
      PROVE  Settling'
  BY <1>1 DEF Settling, Finalizing, closing
<1>2. CASE PageNavigates \/ PageChanges \/ HearNavigation \/ Observe \/ TakeSnapshot
  <2>1. UNCHANGED <<stage, closing>>
    BY <1>2 DEF PageNavigates, PageChanges, HearNavigation, Observe, TakeSnapshot
  <2> QED BY <1>1, <2>1
<1>3. CASE \/ Observed \/ Navigate \/ Commit
           \/ (\E id \in 1..Len(snapshots), ref \in seen.refs : Interact(id, ref))
           \/ (\E id \in 0..Len(snapshots) : PressKey(id))
  <2>1. UNCHANGED <<stage, closing>>
    BY <1>3
       DEF Observed, Navigate, Commit, NewDocument, Interact, PressKey, pageVars, memory, opVars,
           closing, history
  <2> QED BY <1>1, <2>1
<1>4. CASE CountRef \/ Act \/ Probe \/ InteractionNavigated
  <2>1. UNCHANGED <<stage, closing>>
    BY <1>4 DEF CountRef, Act, Probe, InteractionNavigated
  <2> QED BY <1>1, <2>1
<1>5. CASE Open
  BY <1>5 DEF Open, Settling, Opening
<1>6. CASE OpenFails
  <2>1. stage \in Opening /\ ~ closed /\ fin = "no" /\ inventory = <<>>
    BY <1>6 DEF OpenFails, Opening, Settling
  <2>2. closed' = closed /\ fin' = fin /\ inventory' = inventory /\ context' = context
    BY <1>6 DEF OpenFails
  <2>3. \/ stage' = "gone" /\ context = "none"
        \/ stage' = "close" /\ context = "none"
        \/ stage' \in {"release", "driver"} /\ cut'
    BY <1>6 DEF OpenFails, Contained
  <2> QED BY <2>1, <2>2, <2>3 DEF Settling, Opening
<1>7. CASE NavigateReturns
  <2>1. stage \in {"first", "open"} /\ stage' = "open" /\ UNCHANGED closing
    BY <1>7 DEF NavigateReturns, Busy
  <2> QED BY <2>1 DEF Settling, closing
<1>8. CASE OperationFails
  BY <1>8 DEF OperationFails, closing, Settling, Finalizing
<1>9. CASE LoopEnds
  BY <1>9 DEF LoopEnds, closing, Settling
<1>10. CASE CutShort
  <2>1. /\ fin' = "no" /\ stage' = "unwind" /\ (cut' <=> fin # "no")
        /\ closed' = closed /\ inventory' = inventory /\ context' = context
    BY <1>10 DEF CutShort
  <2>2. closed /\ fin = "no" => FALSE
    BY <1>10 DEF CutShort, Settling
  <2> QED BY <2>1, <2>2 DEF Settling, Opening
<1>11. CASE Finalize
  BY <1>11 DEF Finalize, After, Settling, Finalizing, Opening
<1>12. CASE FinalizeStep
  <2>1. /\ fin \notin {"no", "register"} /\ fin' # "no" /\ stage' = stage /\ closed' = closed
        /\ inventory' = inventory /\ cut' = cut
    BY <1>12 DEF FinalizeStep
  <2>2. stage \notin {"release", "close", "gone"}
    BY <2>1 DEF Settling, Finalizing
  <2> QED BY <2>1 DEF Settling, Finalizing
<1>13. CASE RegisterCapture
  <2>1. /\ fin = "register" /\ closed' = closed /\ cut' = cut /\ context' = context
        /\ stage \in {"wrap", "unwind", "driver"} /\ closed
    BY <1>13 DEF RegisterCapture, Settling, Finalizing
  <2>2. CASE batch = <<>> \/ stage = "driver"
    <3>1. fin' = "no" /\ stage' = After /\ inventory' = inventory
      BY <1>13, <2>2 DEF RegisterCapture
    <3>2. ~ cut => Len(inventory) = 3
      <4>1. stage = "driver" => cut
        BY <2>1 DEF Settling
      <4>2. batch = <<>> => 3 - Len(inventory) = 0
        BY <2>1 DEF Gathering, Gathered
      <4>3. Len(inventory) \in Nat
        BY DEF CaptureTypeOK
      <4> QED BY <2>2, <4>1, <4>2
    <3> QED BY <2>1, <3>1, <3>2 DEF Settling, Opening, After
  <2>3. CASE ~ (batch = <<>> \/ stage = "driver")
    <3>1. fin' = fin /\ stage' = stage
      BY <1>13, <2>3 DEF RegisterCapture
    <3> QED BY <2>1, <3>1 DEF Settling, Finalizing
  <2> QED BY <2>2, <2>3
<1>14. CASE FinalizeTimesOut
  <2>1. /\ fin # "no" /\ closed /\ closed' = closed /\ cut' = TRUE /\ fin' = "no" /\ stage' = After
        /\ stage \in {"wrap", "unwind", "driver"}
    BY <1>14 DEF FinalizeTimesOut, Settling, Finalizing
  <2> QED BY <2>1 DEF Settling, Opening, After
<1>15. CASE ReleaseContext
  <2>1. /\ fin = "no" /\ context # "none" /\ (closed \/ cut)
    BY <1>15 DEF ReleaseContext, Settling, Finalizing, Contained
  <2>2. closed' = TRUE /\ stage' = "close" /\ fin' = fin /\ inventory' = inventory /\ cut' = cut
    BY <1>15 DEF ReleaseContext
  <2>3. ~ cut => Len(inventory) = 3
    BY <2>1 DEF Settling
  <2> QED BY <2>1, <2>2 DEF Settling, Opening
<1>16. CASE CloseBrowser
  BY <1>16 DEF CloseBrowser, Settling, Finalizing, Opening
<1>17. CASE UNCHANGED vars
  <2>1. UNCHANGED <<stage, closing>>
    BY <1>17 DEF vars
  <2> QED BY <1>1, <2>1
<1> QED BY <1>2, <1>3, <1>4, <1>5, <1>6, <1>7, <1>8, <1>9, <1>10, <1>11, <1>12, <1>13, <1>14,
           <1>15, <1>16, <1>17
     DEF Next, Page, Operations, Lifecycle

LEMMA InitEstablishes == Init => IInv
<1> SUFFICES ASSUME Init PROVE IInv
  OBVIOUS
<1>1. PageTypeOK
  BY SessionAssumption DEF Init, PageTypeOK
<1>2. MemoryTypeOK
  <2>1. snapshots \in Seq(0..MaxDocuments) /\ Len(snapshots) = 0
    BY DEF Init
  <2>2. acted \in [obs : 0..MaxObservations, doc : 0..MaxDocuments]
    BY SessionAssumption DEF Init
  <2>3. Len(snapshots) <= MaxObservations
    BY <2>1, SessionAssumption
  <2> QED BY <2>1, <2>2, <2>3, ConstantsTyped DEF Init, MemoryTypeOK, Steps
<1>3. CaptureTypeOK
  BY EmptySeq DEF Init, CaptureTypeOK, Stages
<1>4. Remembered
  BY ConstantsTyped DEF Init, Remembered
<1>5. Busy /\ Contained
  BY DEF Init, Busy, Contained
<1>6. Gathering
  BY DEF Init, Gathering, Gathered
<1>7. Settling
  BY DEF Init, Settling
<1> QED BY <1>1, <1>2, <1>3, <1>4, <1>5, <1>6, <1>7 DEF IInv, TypeOK

LEMMA InvariantHolds == Spec => []IInv
<1>1. IInv /\ [Next]_vars => IInv'
  <2> SUFFICES ASSUME IInv, [Next]_vars PROVE IInv'
    OBVIOUS
  <2>1. /\ PageTypeOK /\ MemoryTypeOK /\ CaptureTypeOK /\ TypeOK
        /\ Remembered /\ Busy /\ Contained /\ Gathering /\ Settling
    BY DEF IInv, TypeOK
  <2>2. PageTypeOK' /\ MemoryTypeOK' /\ CaptureTypeOK'
    BY <2>1, PageTyped, MemoryTyped, CaptureTyped
  <2>3. Remembered' /\ Busy'
    BY <2>1, MemoryPreserved, BusyPreserved
  <2>4. Contained' /\ Gathering' /\ Settling'
    BY <2>1, ContainmentPreserved, GatheringPreserved, SettlingPreserved
  <2> QED BY <2>2, <2>3, <2>4 DEF IInv, TypeOK
<1> QED BY <1>1, InitEstablishes, PTL DEF Spec

-----------------------------------------------------------------------------
(* The theorems.                                                            *)

\* The session's state is typed, whatever the page does and wherever it is cut short.
THEOREM SessionTypes == Spec => []TypeOK
<1>1. IInv => TypeOK
  BY DEF IInv
<1> QED BY <1>1, InvariantHolds, PTL

\* An element is acted on only in the document whose observation the agent quoted: a
\* reference resolves in one document, and both memories hold only references of the
\* document their observation is of.
THEOREM ActsAreSeen == Spec => []ElementsActedOnWereSeen
<1>1. IInv => ElementsActedOnWereSeen
  BY DEF IInv, Remembered, ElementsActedOnWereSeen
<1> QED BY <1>1, InvariantHolds, PTL

\* The context is closed before the browser, and both are closed when the session is gone.
THEOREM ClosingIsOrdered == Spec => []ClosedInOrder
<1>1. IInv => ClosedInOrder
  BY DEF IInv, Contained, ClosedInOrder
<1> QED BY <1>1, InvariantHolds, PTL

\* Each kind of capture is registered at most once, however many times finalize is called,
\* and exactly once in a session that was not cut short while its captures settled.
THEOREM CapturesAreRegistered == Spec => []CapturedOnce
<1>1. IInv => CapturedOnce
  <2> SUFFICES ASSUME IInv, NEW kind \in Kinds
               PROVE  /\ Cardinality(RegisteredAs(kind)) <= 1
                      /\ stage = "gone" /\ context # "none" /\ ~ cut => RegisteredAs(kind) # {}
    BY DEF CapturedOnce
  <2>1. /\ Len(inventory) \in Nat /\ Len(inventory) <= 3
        /\ \A i \in 1..Len(inventory) : inventory[i].kind = Order[i]
    BY DEF IInv, Gathering
  <2>2. PICK k \in 1..3 : \A i \in 1..3 : Order[i] = kind <=> i = k
    BY DEF Order, Kinds
  <2>3. RegisteredAs(kind) = {i \in 1..Len(inventory) : i = k}
    BY <2>1, <2>2 DEF RegisteredAs
  <2>4. Cardinality(RegisteredAs(kind)) <= 1
    <3>1. RegisteredAs(kind) = {} \/ RegisteredAs(kind) = {k}
      BY <2>3
    <3>2. Cardinality({}) = 0 /\ Cardinality({k}) = 1
      BY FS_EmptySet, FS_Singleton
    <3> QED BY <3>1, <3>2
  <2>5. stage = "gone" /\ context # "none" /\ ~ cut => Len(inventory) = 3
    BY DEF IInv, Settling, Finalizing
  <2> QED BY <2>3, <2>4, <2>5
<1> QED BY <1>1, InvariantHolds, PTL
=============================================================================
