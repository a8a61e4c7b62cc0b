--------------------------- MODULE ActivityProofs ---------------------------
(***************************************************************************)
(* What module Activity promises, for every budget, every threshold and    *)
(* every number of actions, of tokens and of refused lines.                *)
(*                                                                         *)
(* None of the three properties is inductive.  The timeline needs to know  *)
(* which actions can still be opened and which can still end (Story); the  *)
(* gauges what was counted and not yet told, or told and not yet counted   *)
(* (Gauges, Exact, Calls), and that a struck attempt does not go on        *)
(* (Halted); the owners which action the last line opened (Owned).         *)
(* All of them need to know where the attempt can be (Placed).             *)
(***************************************************************************)
EXTENDS Activity, FiniteSetTheorems, SequenceTheorems, TLAPS

Places == Body \cup {"explaining", "done"}
Outcomes == {"none", "ok", "error"}

\* What a line is made of.
Lines ==
  [type : HarnessEventTypes, seq : Nat, role : Roles \cup {"none", "agent", "runner"},
   action : 0..MaxActionIds, tool : Tools \cup {"none"}, outcome : Outcomes, tokens : Nat,
   source : Nat \cup {Absent}, budget : BudgetKinds \cup {"none", "maxIdleTurns"}]

\* Rows and lines are told apart, and ordered, by their numbers, any two of them.
Ordered(rows) == \A i, j \in DOMAIN rows : i < j => rows[i].seq < rows[j].seq

\* A line the page's copy of the event types describes, the one budget it lacks apart.
Sound(line) ==
  Mirrored(line) \/ (line.type = "budgetExhausted" /\ line.budget = "maxIdleTurns")

\* The types of the part of the state the lines do not touch.
ControlTypeOK ==
  /\ budget \in BudgetStates
  /\ guidance \in [used : 0..MaxActionIds, notified : BOOLEAN]
  /\ turn \in [idle : 0..MaxIdleTurns, calls : 0..MaxCalls, made : 0..Repetition,
              repeated : BOOLEAN]
  /\ act \in [id : 0..MaxActionIds, tool : Tools \cup {"none"}, inFlight : BOOLEAN,
              outcome : Outcomes, broken : BOOLEAN]
  /\ eval \in [method : {"model", "code"}, by : {"none", "agent", "runner"}, pending : BOOLEAN]
  /\ exit \in [finishing : BOOLEAN, cancelled : BOOLEAN, failed : BOOLEAN, struck : BOOLEAN]
  /\ verifierCalls \in 0..budget.modelCalls
  /\ pc \in Places

LinesTypeOK ==
  /\ journal \in Seq(Lines) /\ page \in RunModels
  /\ seq \in Nat /\ Len(journal) <= seq /\ refusals \in 0..MaxRefusals
  /\ source \in Absent..seq
  /\ during \subseteq (1..seq) \X (1..MaxActionIds)

\* An evaluation the agent asked for, and the part of a tool call that follows it.
Asked == pc \in InEvaluation /\ eval.by = "agent"
Acting == pc \in {"acting", "capturing", "acted", "broken"} \/ Asked
Unopened == pc \in {"crossing", "opening"}
Unended == act.inFlight \/ pc \in {"crossing", "opening", "opened", "closing"}

\* Where the attempt can be.
Placed ==
  /\ turn.idle = MaxIdleTurns =>
       \/ pc \in {"idled", "exhausted", "pass", "noting", "explaining", "done"}
       \/ pc \in InEvaluation /\ eval.by = "runner"
  /\ guidance.used <= act.id
  /\ pc \in InEvaluation => eval.by # "none"
  /\ act.inFlight <=> Acting
  /\ act.tool # "none" <=> act.id > 0
  /\ Acting \/ Unended \/ pc = "after" => act.id > 0
  /\ pc = "closing" => act.outcome # "none"

\* The lines and their rows, one by one, and what can still be opened or end.
Story ==
  /\ \A n \in DOMAIN journal :
       /\ journal[n].seq \in 1..seq
       /\ Sound(journal[n])
  /\ \A i \in DOMAIN page.timeline : page.timeline[i].seq \in 1..seq
  /\ Ordered(journal) /\ Ordered(page.timeline)
  /\ \A n \in DOMAIN journal : journal[n].type # "actionFinished" =>
       \E i \in DOMAIN page.timeline : page.timeline[i].seq = journal[n].seq
  /\ \A i \in DOMAIN page.timeline : \E n \in DOMAIN journal :
       /\ journal[n].type # "actionFinished"
       /\ page.timeline[i].seq = journal[n].seq
       /\ page.timeline[i].kind = RowKind(journal[n].type)
       /\ journal[n].type = "actionStarted" => page.timeline[i].action = journal[n].action

ActionRows == {i \in DOMAIN page.timeline : page.timeline[i].kind = "action"}
Ends(a) == {n \in DOMAIN journal : journal[n].type = "actionFinished" /\ journal[n].action = a}

Pairs ==
  /\ \A n \in DOMAIN journal : journal[n].type = "actionFinished" =>
       journal[n].action <= act.id /\ (Unended => journal[n].action # act.id)
  /\ \A i \in ActionRows :
       page.timeline[i].action <= act.id /\ (Unopened => page.timeline[i].action # act.id)
  /\ \A i, j \in ActionRows : page.timeline[i].action = page.timeline[j].action => i = j
  /\ \A i \in ActionRows :
       \/ Ends(page.timeline[i].action) = {} /\ page.timeline[i].outcome = "none"
       \/ /\ Ends(page.timeline[i].action) # {}
          /\ \A n \in Ends(page.timeline[i].action) :
               journal[n].outcome = page.timeline[i].outcome

Held == Acting \/ pc \in {"opened", "closing", "after"}

\* As long as no line was refused, the last action opened is the one under way, and what is
\* captured is linked to a line of its own.
Owned ==
  refusals = 0 =>
    /\ during \subseteq page.artifacts
    /\ Held =>
         /\ page.actions # <<>>
         /\ page.actions[Len(page.actions)].action = act.id
         /\ page.actions[Len(page.actions)].seq <= seq
         /\ source = Absent \/ page.actions[Len(page.actions)].seq <= source

Checks == {i \in DOMAIN page.actions : page.actions[i].tool \notin BrowserTools}
Untold == IF pc = "answered" THEN Usage ELSE 0
Unshown == IF Unopened /\ act.tool \in BrowserTools THEN 1 ELSE 0
InCall == IF pc \in {"calling", "verifying"} THEN 1 ELSE 0

\* What the page shows is within what was counted.
Gauges ==
  /\ page.verifierTokens = 0
  /\ page.tokens + budget.verifierTokens + Untold <= budget.tokensUsed
  /\ Len(page.actions) + Unshown <= guidance.used + Cardinality(Checks)
  /\ guidance.notified <=> guidance.used > MaxActions
  /\ page.guidance => guidance.notified
  /\ pc = "crossing" => guidance.notified
  /\ budget.modelCalls + InCall <= MaxModelCalls
  /\ "maxModelCalls" \in page.breaches => budget.modelCalls = MaxModelCalls
  /\ "maxTokens" \in page.breaches => MaxTokens - budget.tokensUsed <= VerifierReserveTokens

\* And it is what was counted when nothing was refused or cut short.
Whole == refusals = 0 /\ ~ exit.cancelled /\ ~ exit.struck

Exact ==
  Whole =>
    /\ page.tokens + budget.verifierTokens + Untold = budget.tokensUsed
    /\ Len(page.actions) + Unshown = guidance.used + Cardinality(Checks)
    /\ page.started + verifierCalls = budget.modelCalls + (IF pc = "calling" THEN 1 ELSE 0)
    /\ page.guidance <=> guidance.notified /\ pc # "crossing"

\* An attempt that was struck does not go on, so that one call at most is told and never counted.
Halted == exit.struck => pc \in {"explaining", "done"}
Ahead == IF pc = "calling" \/ exit.struck THEN 1 ELSE 0
Calls == page.started + verifierCalls <= budget.modelCalls + Ahead

IInv ==
  /\ ControlTypeOK /\ LinesTypeOK /\ Placed /\ Story /\ Pairs /\ Owned /\ Gauges /\ Exact
  /\ Halted /\ Calls

-----------------------------------------------------------------------------
(* Sequences and the operators of the page.                                 *)

Rows == [seq : Nat, kind : Headings, action : Nat, outcome : Outcomes]
OpenedActions == [seq : Nat, action : Nat, tool : Tools, outcome : Outcomes]

\* What a set of positions contains has a last position.
LEMMA MaxLaw ==
  ASSUME NEW n \in Nat, NEW S \in SUBSET (1..n), S # {}
  PROVE  Max(S) \in S /\ \A i \in S : i <= Max(S)
<1> DEFINE T == {n - i : i \in S}
<1>1. T \subseteq Nat /\ T # {}
  <2>1. \A i \in S : i \in 1..n /\ n - i \in Nat
    OBVIOUS
  <2> QED BY <2>1
<1>2. PICK t \in T : \A u \in T : ~ (<<u, t>> \in OpToRel(<, Nat))
  <2>1. IsWellFoundedOn(OpToRel(<, Nat), Nat)
    BY NatLessThanWellFounded
  <2> HIDE DEF T
  <2> QED BY <1>1, <2>1, WFMin
<1>3. \A u \in T : t <= u
  <2> SUFFICES ASSUME NEW u \in T PROVE t <= u
    OBVIOUS
  <2>1. t \in Nat /\ u \in Nat
    BY <1>1
  <2>2. ~ (<<u, t>> \in OpToRel(<, Nat))
    BY <1>2
  <2>3. u < t => <<u, t>> \in OpToRel(<, Nat)
    BY <2>1 DEF OpToRel
  <2>4. ~ (u < t)
    BY <2>2, <2>3
  <2> QED BY <2>1, <2>4
<1>4. PICK m \in S : t = n - m
  OBVIOUS
<1>5. \A i \in S : i <= m
  <2> SUFFICES ASSUME NEW i \in S PROVE i <= m
    OBVIOUS
  <2>1. n - i \in T
    OBVIOUS
  <2>2. t <= n - i
    BY <1>3, <2>1
  <2> HIDE DEF T
  <2>3. i \in 1..n /\ m \in 1..n
    OBVIOUS
  <2> QED BY <1>4, <2>2, <2>3
<1> QED BY <1>5 DEF Max

\* The owner of a line is an action of the page, and the last one when that is told in time.
LEMMA OwnerLaw ==
  ASSUME NEW actions \in Seq(OpenedActions), NEW from \in Int
  PROVE  /\ ActionAtSeq(actions, from) \in Nat
         /\ actions # <<>> /\ (from = Absent \/ actions[Len(actions)].seq <= from) =>
              ActionAtSeq(actions, from) = actions[Len(actions)].action
<1> DEFINE opened == {i \in DOMAIN actions : from = Absent \/ actions[i].seq <= from}
<1>1. ActionAtSeq(actions, from) = IF opened = {} THEN NoAction ELSE actions[Max(opened)].action
  BY DEF ActionAtSeq
<1>2. Len(actions) \in Nat /\ opened \in SUBSET (1..Len(actions))
  BY LenProperties
<1>3. opened # {} => Max(opened) \in opened /\ \A i \in opened : i <= Max(opened)
  <2> HIDE DEF opened
  <2> QED BY <1>2, MaxLaw
<1>4. ActionAtSeq(actions, from) \in Nat
  <2>1. \A i \in 1..Len(actions) : actions[i] \in OpenedActions
    BY ElementOfSeq
  <2>2. \A i \in 1..Len(actions) : actions[i].action \in Nat
    BY <2>1 DEF OpenedActions
  <2> HIDE DEF opened
  <2>3. opened # {} => Max(opened) \in 1..Len(actions)
    BY <1>2, <1>3
  <2>4. CASE opened = {}
    BY <1>1, <2>4 DEF NoAction
  <2>5. CASE opened # {}
    BY <1>1, <2>2, <2>3, <2>5
  <2> QED BY <2>4, <2>5
<1>5. ASSUME actions # <<>>, from = Absent \/ actions[Len(actions)].seq <= from
      PROVE  ActionAtSeq(actions, from) = actions[Len(actions)].action
  <2>1. Len(actions) \in 1..Len(actions)
    BY <1>5, <1>2, EmptySeq
  <2>2. Len(actions) \in opened
    BY <1>5, <2>1, LenProperties
  <2> HIDE DEF opened
  <2>3. Max(opened) \in 1..Len(actions) /\ Len(actions) <= Max(opened)
    BY <1>2, <1>3, <2>2
  <2>4. Max(opened) = Len(actions)
    BY <1>2, <2>3
  <2> QED BY <1>1, <2>2, <2>4
<1> QED BY <1>4, <1>5

\* Closing a row leaves every row what it is and where it is, and changes one outcome at most.
LEMMA CloseLaw ==
  ASSUME NEW rows \in Seq(Rows), NEW line \in Lines
  PROVE  LET closed == CloseTimelineRow(rows, line)
             open == {i \in DOMAIN rows : /\ rows[i].kind = "action"
                                          /\ rows[i].action = line.action
                                          /\ rows[i].outcome = "none"}
         IN  /\ closed \in Seq(Rows) /\ DOMAIN closed = DOMAIN rows
             /\ \A i \in DOMAIN rows : /\ closed[i].seq = rows[i].seq
                                       /\ closed[i].kind = rows[i].kind
                                       /\ closed[i].action = rows[i].action
                                       /\ i \notin open => closed[i].outcome = rows[i].outcome
             /\ (\A i, j \in open : i = j) => \A i \in open : closed[i].outcome = line.outcome
<1> DEFINE closed == CloseTimelineRow(rows, line)
           open == {i \in DOMAIN rows : /\ rows[i].kind = "action"
                                        /\ rows[i].action = line.action
                                        /\ rows[i].outcome = "none"}
<1>1. Len(rows) \in Nat /\ DOMAIN rows = 1..Len(rows) /\ open \in SUBSET (1..Len(rows))
  BY LenProperties
<1>2. line.outcome \in Outcomes
  BY DEF Lines
<1>3. CASE open = {}
  <2>1. closed = rows
    BY <1>3 DEF CloseTimelineRow
  <2> QED BY <1>3, <2>1
<1>4. CASE open # {}
  <2> DEFINE m == Max(open)
             row == [rows[m] EXCEPT !.outcome = line.outcome]
  <2>1. closed = [rows EXCEPT ![m] = row]
    BY <1>4 DEF CloseTimelineRow
  <2>2. m \in open /\ m \in 1..Len(rows)
    <3> HIDE DEF open
    <3> QED BY <1>1, <1>4, MaxLaw
  <2>3. rows[m] \in Rows
    BY <1>1, <2>2, ElementOfSeq
  <2>4. /\ row \in Rows /\ row.seq = rows[m].seq /\ row.kind = rows[m].kind
        /\ row.action = rows[m].action /\ row.outcome = line.outcome
    <3> HIDE DEF m
    <3> QED BY <1>2, <2>3 DEF Rows
  <2> HIDE DEF m, row, open, closed
  <2>5. closed \in Seq(Rows) /\ DOMAIN closed = DOMAIN rows
    BY <1>1, <2>1, <2>2, <2>4, ExceptSeq
  <2>6. \A i \in DOMAIN rows : closed[i] = IF i = m THEN row ELSE rows[i]
    BY <1>1, <2>1, <2>2
  <2>7. (\A i, j \in open : i = j) => \A i \in open : i = m
    BY <2>2
  <2>8. open \subseteq DOMAIN rows
    BY <1>1
  <2>9. \A i \in DOMAIN rows : /\ closed[i].seq = rows[i].seq
                               /\ closed[i].kind = rows[i].kind
                               /\ closed[i].action = rows[i].action
                               /\ i \notin open => closed[i].outcome = rows[i].outcome
    BY <2>2, <2>4, <2>6
  <2>10. (\A i, j \in open : i = j) => \A i \in open : closed[i].outcome = line.outcome
    BY <2>4, <2>6, <2>7, <2>8
  <2> QED BY <2>5, <2>9, <2>10 DEF closed, open
<1> QED BY <1>3, <1>4

\* The page lists an action with the line that opens it, and only its outcome changes after.
LEMMA ActionsLaw ==
  ASSUME NEW actions \in Seq(OpenedActions), NEW line \in Lines,
         line.type = "actionStarted" => line.tool \in Tools
  PROVE  LET after == NextActions(actions, line)
         IN  /\ after \in Seq(OpenedActions)
             /\ line.type # "actionStarted" =>
                  /\ DOMAIN after = DOMAIN actions /\ Len(after) = Len(actions)
                  /\ \A i \in DOMAIN actions : /\ after[i].seq = actions[i].seq
                                               /\ after[i].action = actions[i].action
                                               /\ after[i].tool = actions[i].tool
             /\ line.type = "actionStarted" =>
                  /\ Len(after) = Len(actions) + 1
                  /\ \A i \in DOMAIN actions : after[i] = actions[i]
                  /\ after[Len(after)].seq = line.seq
                  /\ after[Len(after)].action = line.action
                  /\ after[Len(after)].tool = line.tool
<1> DEFINE after == NextActions(actions, line)
<1>0. /\ line.seq \in Nat /\ line.action \in Nat /\ line.outcome \in Outcomes
  <2>1. line.action \in 0..MaxActionIds /\ MaxActionIds \in Nat
    BY ActivityAssumption DEF Lines
  <2> QED BY <2>1 DEF Lines
<1>1. Len(actions) \in Nat /\ DOMAIN actions = 1..Len(actions)
      /\ \A i \in 1..Len(actions) : actions[i] \in OpenedActions
  BY LenProperties, ElementOfSeq
<1>2. CASE line.type = "actionStarted"
  <2> DEFINE new == [seq |-> line.seq, action |-> line.action, tool |-> line.tool,
                     outcome |-> "none"]
  <2>1. after = Append(actions, new)
    BY <1>2 DEF NextActions
  <2>2. /\ new \in OpenedActions /\ new.seq = line.seq /\ new.action = line.action
        /\ new.tool = line.tool
    BY <1>0, <1>2 DEF OpenedActions, Outcomes
  <2> HIDE DEF after, new
  <2>3. /\ after \in Seq(OpenedActions) /\ Len(after) = Len(actions) + 1
        /\ \A i \in 1..Len(actions) : after[i] = actions[i]
        /\ after[Len(actions) + 1] = new
    BY <2>1, <2>2, AppendProperties
  <2> QED BY <1>1, <1>2, <2>2, <2>3 DEF after
<1>3. CASE line.type = "actionFinished"
  <2> DEFINE told(i) == [actions[i] EXCEPT !.outcome = line.outcome]
  <2>1. after = [i \in DOMAIN actions |-> IF actions[i].action # line.action THEN actions[i]
                                         ELSE told(i)]
    BY <1>3 DEF NextActions
  <2>2. \A i \in DOMAIN actions : /\ told(i) \in OpenedActions /\ told(i).seq = actions[i].seq
                                  /\ told(i).action = actions[i].action
                                  /\ told(i).tool = actions[i].tool
    BY <1>0, <1>1 DEF OpenedActions
  <2> HIDE DEF after, told
  <2>3. \A i \in DOMAIN actions : /\ after[i] \in OpenedActions /\ after[i].seq = actions[i].seq
                                  /\ after[i].action = actions[i].action
                                  /\ after[i].tool = actions[i].tool
    BY <1>1, <2>1, <2>2
  <2>4. after \in [1..Len(actions) -> OpenedActions]
    BY <1>1, <2>1, <2>3
  <2>5. after \in Seq(OpenedActions) /\ Len(after) = Len(actions) /\ DOMAIN after = DOMAIN actions
    BY <1>1, <2>4, SeqDef, LenProperties
  <2> QED BY <1>3, <2>3, <2>5 DEF after
<1>4. CASE line.type \notin {"actionStarted", "actionFinished"}
  BY <1>4 DEF NextActions
<1> QED BY <1>2, <1>3, <1>4

\* A line that does not end an action gets a row, under its own number.
LEMMA TimelineLaw ==
  ASSUME NEW model \in RunModels, NEW line \in Lines, NEW owner \in Nat
  PROVE  /\ NextTimeline(model, line, owner) \in Seq(Rows)
         /\ line.type # "actionFinished" =>
              /\ NextTimeline(model, line, owner) = Append(model.timeline, Row(line, owner))
              /\ Row(line, owner) \in Rows
<1>1. model.timeline \in Seq(Rows) /\ line.seq \in Nat
  BY DEF RunModels, Rows, Outcomes, Lines
<1>2. RowKind(line.type) \in Headings
  BY DEF RowKind, EventCategories, Headings
<1>3. Row(line, owner) \in Rows
  BY <1>1, <1>2 DEF Row, Rows, Outcomes
<1>4. CASE line.type = "actionFinished"
  BY <1>1, <1>4, CloseLaw DEF NextTimeline
<1>5. CASE line.type # "actionFinished"
  BY <1>1, <1>3, <1>5, AppendProperties DEF NextTimeline
<1> QED BY <1>3, <1>4, <1>5 DEF NextTimeline

Owner(model, line) ==
  IF line.type = "artifactAvailable" THEN ActionAtSeq(model.actions, line.source) ELSE line.action

\* The owner of a line is a number.
LEMMA OwnerTyped ==
  ASSUME NEW model \in RunModels, NEW line \in Lines
  PROVE  Owner(model, line) \in Nat
<1>1. model.actions \in Seq(OpenedActions)
  BY DEF RunModels, OpenedActions, Outcomes
<1>2. line.action \in 0..MaxActionIds /\ MaxActionIds \in Nat /\ line.source \in Int
  BY ActivityAssumption DEF Lines, Absent
<1>3. line.action \in Nat
  BY <1>2
<1>4. ActionAtSeq(model.actions, line.source) \in Nat
  BY <1>1, <1>2, OwnerLaw
<1> QED BY <1>3, <1>4 DEF Owner

\* What a line adds to the gauges.
LEMMA AccountingLaw ==
  ASSUME NEW model \in RunModels, NEW line \in Lines, Sound(line)
  PROVE  LET after == NextAccounting(model, line)
             told  == line.type = "modelCallFinished"
         IN  /\ after \in RunModels /\ after.artifacts = model.artifacts
             /\ after.started = model.started + IF line.type = "modelCallStarted" THEN 1 ELSE 0
             /\ after.tokens = model.tokens + IF told THEN line.tokens ELSE 0
             /\ told /\ line.role # "verifier" => after.verifierTokens = model.verifierTokens
             /\ ~ told => after.verifierTokens = model.verifierTokens
             /\ after.guidance <=> model.guidance \/ line.type = "actionGuidanceExceeded"
             /\ after.breaches = IF line.type = "budgetExhausted"
                                 THEN model.breaches \cup {line.budget} ELSE model.breaches
<1> DEFINE started == model.started + (IF line.type = "modelCallStarted" THEN 1 ELSE 0)
           tokens  == model.tokens + (IF line.type = "modelCallFinished" THEN line.tokens ELSE 0)
           charged == model.verifierTokens
                        + (IF line.type = "modelCallFinished" /\ line.role = "verifier"
                           THEN line.tokens ELSE 0)
           crossed == model.guidance \/ line.type = "actionGuidanceExceeded"
           named   == IF line.type = "budgetExhausted" THEN model.breaches \cup {line.budget}
                      ELSE model.breaches
           Named   == BudgetKinds \cup {"maxIdleTurns"}
           ended   == model.cancellation \/ line.type = "cancellationRequested"
<1>1. NextAccounting(model, line) =
        [model EXCEPT !.started = started, !.tokens = tokens, !.verifierTokens = charged,
                      !.guidance = crossed, !.breaches = named, !.cancellation = ended]
  BY DEF NextAccounting
<1>2. /\ model.started \in Nat /\ model.tokens \in Nat /\ model.verifierTokens \in Nat
      /\ model.breaches \in SUBSET Named /\ line.tokens \in Nat
      /\ line.type = "budgetExhausted" => line.budget \in Named
  BY DEF RunModels, Lines, Sound, Mirrored
<1>3. started \in Nat /\ tokens \in Nat /\ charged \in Nat /\ named \in SUBSET Named
  BY <1>2
<1>4. crossed \in BOOLEAN /\ ended \in BOOLEAN
  BY DEF RunModels
<1>5. /\ line.type = "modelCallFinished" /\ line.role # "verifier" =>
           charged = model.verifierTokens
      /\ line.type # "modelCallFinished" => charged = model.verifierTokens
  BY <1>2
<1> HIDE DEF started, tokens, charged, crossed, named, ended
<1>6. /\ NextAccounting(model, line) \in RunModels
      /\ NextAccounting(model, line).artifacts = model.artifacts
      /\ NextAccounting(model, line).started = started
      /\ NextAccounting(model, line).tokens = tokens
      /\ NextAccounting(model, line).verifierTokens = charged
      /\ NextAccounting(model, line).guidance = crossed
      /\ NextAccounting(model, line).breaches = named
  BY <1>1, <1>3, <1>4 DEF RunModels
<1> QED BY <1>5, <1>6 DEF started, tokens, crossed, named

\* What the page is after a line.
LEMMA FoldLaw ==
  ASSUME NEW model \in RunModels, NEW line \in Lines, Sound(line)
  PROVE  LET after == RunReducer(model, line)
             counted == NextAccounting(model, line)
         IN  /\ after \in RunModels
             /\ after.timeline = NextTimeline(model, line, Owner(model, line))
             /\ after.actions = NextActions(model.actions, line)
             /\ after.artifacts = IF line.type = "artifactAvailable"
                                  THEN model.artifacts \cup {<<line.seq, Owner(model, line)>>}
                                  ELSE model.artifacts
             /\ after.started = counted.started /\ after.tokens = counted.tokens
             /\ after.verifierTokens = counted.verifierTokens
             /\ after.guidance = counted.guidance /\ after.breaches = counted.breaches
<1> DEFINE counted   == NextAccounting(model, line)
           timeline  == NextTimeline(model, line, Owner(model, line))
           actions   == NextActions(model.actions, line)
           artifacts == IF line.type = "artifactAvailable"
                        THEN model.artifacts \cup {<<line.seq, Owner(model, line)>>}
                        ELSE model.artifacts
<1>1. RunReducer(model, line) =
        [counted EXCEPT !.timeline = timeline, !.actions = actions,
                        !.artifacts = IF line.type = "artifactAvailable"
                                      THEN counted.artifacts \cup {<<line.seq, Owner(model, line)>>}
                                      ELSE counted.artifacts]
  BY DEF RunReducer, Owner
<1>2. counted \in RunModels /\ counted.artifacts = model.artifacts
  BY AccountingLaw
<1>3. /\ model.actions \in Seq(OpenedActions) /\ model.artifacts \in SUBSET (Nat \X Nat)
      /\ line.seq \in Nat
  BY DEF RunModels, OpenedActions, Outcomes, Lines
<1>4. Owner(model, line) \in Nat
  BY OwnerTyped
<1>5. timeline \in Seq(Rows) /\ actions \in Seq(OpenedActions)
  <2>1. line.type = "actionStarted" => line.tool \in Tools
    BY DEF Sound, Mirrored
  <2> QED BY <1>3, <1>4, <2>1, TimelineLaw, ActionsLaw
<1>6. artifacts \in SUBSET (Nat \X Nat)
  BY <1>3, <1>4
<1>7. RunReducer(model, line) =
        [counted EXCEPT !.timeline = timeline, !.actions = actions, !.artifacts = artifacts]
  BY <1>1, <1>2
<1> HIDE DEF counted, timeline, actions, artifacts
<1> QED BY <1>2, <1>5, <1>6, <1>7
        DEF RunModels, Rows, OpenedActions, Outcomes, counted, timeline, actions, artifacts

-----------------------------------------------------------------------------
(* The journal.                                                             *)

\* A line with a number of its own.
Numbered(line, n) == [line EXCEPT !.seq = n]

\* A number is all a line gets when it is written.
LEMMA NumberedLaw ==
  ASSUME NEW line \in Lines, NEW n \in Nat
  PROVE  /\ Numbered(line, n) \in Lines /\ Numbered(line, n).seq = n
         /\ Numbered(line, n).type = line.type /\ Numbered(line, n).role = line.role
         /\ Numbered(line, n).action = line.action /\ Numbered(line, n).tool = line.tool
         /\ Numbered(line, n).outcome = line.outcome /\ Numbered(line, n).tokens = line.tokens
         /\ Numbered(line, n).source = line.source /\ Numbered(line, n).budget = line.budget
BY DEF Numbered, Lines

\* Numbering a line leaves it as sound as it was.
LEMMA NumberedIsSound ==
  ASSUME NEW line \in Lines, NEW n \in Nat
  PROVE  Sound(Numbered(line, n)) <=> Sound(line)
BY NumberedLaw DEF Sound, Mirrored

\* The lines the attempt writes.
LEMMA LineLaw ==
  ASSUME NEW type \in HarnessEventTypes
  PROVE  /\ Line(type) \in Lines /\ Line(type).type = type /\ Line(type).action = NoAction
         /\ Line(type).budget = "none"
         /\ type \in {"browserContextOpened", "observationTaken", "verificationFinished", "error",
                      "actionGuidanceExceeded", "progressStalled", "cancellationRequested"} =>
              Sound(Line(type))
<1>1. 0 \in 0..MaxActionIds
  BY ActivityAssumption
<1>2. Line(type) \in Lines /\ Line(type).type = type /\ Line(type).budget = "none"
  BY <1>1 DEF Line, Lines, NoAction, Absent, Outcomes
<1> QED BY <1>2 DEF Line, Sound, Mirrored, Lines

\* The lines of a model call.
LEMMA CallLineLaw ==
  ASSUME NEW type \in {"modelCallStarted", "modelCallFinished"}, NEW tokens \in Nat
  PROVE  LET line == CallLine(type, "browser", tokens)
         IN  /\ line \in Lines /\ Sound(line) /\ line.type = type /\ line.role = "browser"
             /\ line.tokens = tokens
<1>1. type \in HarnessEventTypes
  BY DEF HarnessEventTypes
<1>2. LET line == CallLine(type, "browser", tokens)
      IN  /\ line \in Lines /\ line.type = type /\ line.role = "browser"
          /\ line.tokens = tokens
  <2>1. PICK base \in Lines : base = Line(type) /\ base.type = type
    BY <1>1, LineLaw
  <2>2. CallLine(type, "browser", tokens) = [base EXCEPT !.role = "browser", !.tokens = tokens]
    BY <2>1 DEF CallLine
  <2> QED BY <2>1, <2>2 DEF Lines, Roles
<1> QED BY <1>2 DEF Sound, Mirrored, Roles

\* The line of a request for evidence.
LEMMA EvidenceLineLaw ==
  ASSUME NEW by \in {"agent", "verifier", "runner"}
  PROVE  /\ EvidenceLine(by) \in Lines /\ Sound(EvidenceLine(by))
         /\ EvidenceLine(by).type = "evidenceRequested"
<1>1. "evidenceRequested" \in HarnessEventTypes
  BY DEF HarnessEventTypes
<1>2. /\ EvidenceLine(by) \in Lines /\ EvidenceLine(by).type = "evidenceRequested"
      /\ EvidenceLine(by).role = by
  BY <1>1, LineLaw DEF EvidenceLine, Lines, Roles
<1> QED BY <1>2 DEF Sound, Mirrored

\* The line of an exhausted budget, maxIdleTurns included.
LEMMA ExhaustedLineLaw ==
  ASSUME NEW name \in BudgetKinds \cup {"maxIdleTurns"}
  PROVE  /\ ExhaustedLine(name) \in Lines /\ Sound(ExhaustedLine(name))
         /\ ExhaustedLine(name).type = "budgetExhausted" /\ ExhaustedLine(name).budget = name
<1>1. "budgetExhausted" \in HarnessEventTypes
  BY DEF HarnessEventTypes
<1>2. /\ ExhaustedLine(name) \in Lines /\ ExhaustedLine(name).type = "budgetExhausted"
      /\ ExhaustedLine(name).budget = name
  BY <1>1, LineLaw DEF ExhaustedLine, Lines
<1> QED BY <1>2 DEF Sound, Mirrored

\* The line of an artifact.
LEMMA ArtifactLineLaw ==
  ASSUME NEW from \in Nat \cup {Absent}
  PROVE  /\ ArtifactLine(from) \in Lines /\ Sound(ArtifactLine(from))
         /\ ArtifactLine(from).type = "artifactAvailable" /\ ArtifactLine(from).source = from
<1>1. "artifactAvailable" \in HarnessEventTypes
  BY DEF HarnessEventTypes
<1>2. /\ ArtifactLine(from) \in Lines /\ ArtifactLine(from).type = "artifactAvailable"
      /\ ArtifactLine(from).source = from
  BY <1>1, LineLaw DEF ArtifactLine, Lines
<1> QED BY <1>2 DEF Sound, Mirrored

\* The two lines of an action.
LEMMA ActionLineLaw ==
  ASSUME ControlTypeOK, act.tool \in Tools, act.id # 0,
         NEW type \in {"actionStarted", "actionFinished"}
  PROVE  LET line == ActionLine(type)
         IN  /\ line \in Lines /\ line.type = type /\ line.action = act.id
             /\ line.tool = act.tool /\ line.outcome = act.outcome
             /\ type = "actionStarted" => Sound(line)
             /\ act.outcome # "none" => Sound(line)
<1>1. type \in HarnessEventTypes
  BY DEF HarnessEventTypes
<1>2. act.id \in 0..MaxActionIds /\ act.tool \in Tools \cup {"none"} /\ act.outcome \in Outcomes
  BY DEF ControlTypeOK
<1>3. LET line == ActionLine(type)
      IN  /\ line \in Lines /\ line.type = type /\ line.action = act.id
          /\ line.tool = act.tool /\ line.outcome = act.outcome
  <2>1. PICK base \in Lines : base = Line(type) /\ base.type = type
    BY <1>1, LineLaw
  <2> DEFINE id == act.id
             tool == act.tool
             outcome == act.outcome
  <2>2. ActionLine(type) = [base EXCEPT !.action = id, !.tool = tool, !.outcome = outcome]
    BY <2>1 DEF ActionLine
  <2>3. id \in 0..MaxActionIds /\ tool \in Tools \cup {"none"} /\ outcome \in Outcomes
    BY <1>2
  <2> HIDE DEF id, tool, outcome
  <2>4. LET line == ActionLine(type)
        IN  /\ line \in Lines /\ line.type = type /\ line.action = id
            /\ line.tool = tool /\ line.outcome = outcome
    BY <2>1, <2>2, <2>3 DEF Lines
  <2> QED BY <2>4 DEF id, tool, outcome
<1> QED BY <1>2, <1>3 DEF Sound, Mirrored, NoAction, Outcomes

\* What a step does to the lines: nothing but spend numbers, or one line more, which the page reads.
Still == UNCHANGED <<journal, page>> /\ seq' \in Nat /\ seq <= seq'
Written(m) ==
  /\ m \in Lines /\ Sound(m) /\ m.seq = seq' /\ seq' \in Nat /\ seq < seq'
  /\ journal' = Append(journal, m)
  /\ page' = RunReducer(page, m)

\* A numbered line of the attempt is one the page reads.
LEMMA WriteLaw ==
  ASSUME LinesTypeOK, NEW line \in Lines, Sound(line), NEW n \in Nat, seq < n, seq' = n,
         Write([line EXCEPT !.seq = n])
  PROVE  Written(Numbered(line, n))
<1>1. /\ Numbered(line, n) \in Lines /\ Numbered(line, n).seq = n
      /\ Numbered(line, n).type = line.type
  BY NumberedLaw
<1>2. n > 0
  BY DEF LinesTypeOK
<1>3. line.type \in HarnessEventTypes
  BY DEF Lines
<1>4. IsHarnessEvent(Numbered(line, n))
  BY <1>1, <1>2, <1>3 DEF IsHarnessEvent
<1>5. Write(Numbered(line, n))
  BY DEF Numbered
<1> QED BY <1>1, <1>4, <1>5, NumberedIsSound DEF Write, Written

\* A line is written under its number, or refused.
LEMMA EmitLaw ==
  ASSUME LinesTypeOK, NEW line \in Lines, Sound(line), Emit(line)
  PROVE  \/ Still /\ seq' = seq + 1 /\ refusals' = refusals + 1 /\ refusals' \in 1..MaxRefusals
         \/ /\ Written(Numbered(line, seq')) /\ seq' = seq + 1 /\ refusals' = refusals
            /\ Numbered(line, seq').seq = seq + 1
<1>1. seq \in Nat /\ seq' = seq + 1 /\ refusals \in Nat /\ MaxRefusals \in Nat
  BY ActivityAssumption DEF Emit, LinesTypeOK
<1>2. CASE Write([line EXCEPT !.seq = seq + 1]) /\ UNCHANGED refusals
  <2>1. Written(Numbered(line, seq + 1))
    BY <1>1, <1>2, WriteLaw
  <2>2. Numbered(line, seq + 1).seq = seq + 1
    BY <1>1, NumberedLaw
  <2> QED BY <1>1, <1>2, <2>1, <2>2
<1>3. CASE refusals < MaxRefusals /\ refusals' = refusals + 1 /\ UNCHANGED <<journal, page>>
  BY <1>1, <1>3 DEF Still
<1> QED BY <1>2, <1>3 DEF Emit

\* So is an artifact's, but its loss is told.
LEMMA EmitArtifactLaw ==
  ASSUME LinesTypeOK, NEW from \in Nat \cup {Absent}, EmitArtifact(from)
  PROVE  \/ /\ Written(Numbered(ArtifactLine(from), seq')) /\ refusals' = refusals
            /\ seq' = seq + 1
         \/ /\ Written(Numbered(Line("error"), seq')) /\ refusals' = refusals + 1
            /\ refusals' \in 1..MaxRefusals
<1>1. seq \in Nat /\ refusals \in Nat /\ MaxRefusals \in Nat
  BY ActivityAssumption DEF LinesTypeOK
<1>2. CASE /\ seq' = seq + 1 /\ Write([ArtifactLine(from) EXCEPT !.seq = seq + 1])
           /\ UNCHANGED refusals
  <2>1. ArtifactLine(from) \in Lines /\ Sound(ArtifactLine(from))
    BY ArtifactLineLaw
  <2>2. Written(Numbered(ArtifactLine(from), seq + 1))
    BY <1>1, <1>2, <2>1, WriteLaw
  <2> QED BY <1>2, <2>2
<1>3. CASE /\ refusals < MaxRefusals /\ refusals' = refusals + 1 /\ seq' = seq + 2
           /\ Write([Line("error") EXCEPT !.seq = seq + 2])
  <2>1. Line("error") \in Lines /\ Sound(Line("error"))
    BY LineLaw DEF HarnessEventTypes
  <2>2. Written(Numbered(Line("error"), seq + 2))
    BY <1>1, <1>3, <2>1, WriteLaw
  <2> QED BY <1>1, <1>3, <2>2
<1> QED BY <1>2, <1>3 DEF EmitArtifact

-----------------------------------------------------------------------------
(* What the steps do to the lines.                                          *)

ActionTypes == {"actionStarted", "actionFinished"}

\* One line that speaks of no action ...
PlainMove == \E m \in Lines : Written(m) /\ m.type \notin ActionTypes

\* ... or the line that opens the action under way, or the one that ends it.
StartMove ==
  \E m \in Lines :
    /\ Written(m) /\ m.type = "actionStarted" /\ m.action = act.id /\ m.tool = act.tool
    /\ Unopened /\ ~ Unopened' /\ UNCHANGED act
EndMove ==
  \E m \in Lines :
    /\ Written(m) /\ m.type = "actionFinished" /\ m.action = act.id
    /\ Unended /\ ~ Unended' /\ ~ Unopened' /\ act'.id = act.id

\* Lines that were refused are counted.
Counted == refusals' \in 0..MaxRefusals /\ refusals <= refusals'

\* A line that is not an action's is one the page adds a row for, or is refused.
LEMMA EmitPlain ==
  ASSUME LinesTypeOK, NEW line \in Lines, Sound(line), line.type \notin ActionTypes, Emit(line)
  PROVE  (Still \/ PlainMove) /\ Counted
<1>1. seq \in Nat /\ seq + 1 \in Nat /\ refusals \in 0..MaxRefusals /\ MaxRefusals \in Nat
  BY ActivityAssumption DEF LinesTypeOK
<1>2. CASE Still /\ seq' = seq + 1 /\ refusals' = refusals + 1 /\ refusals' \in 1..MaxRefusals
  BY <1>1, <1>2 DEF Counted
<1>3. CASE /\ Written(Numbered(line, seq')) /\ seq' = seq + 1 /\ refusals' = refusals
           /\ Numbered(line, seq').seq = seq + 1
  <2>1. Numbered(line, seq') \in Lines /\ Numbered(line, seq').type = line.type
    BY <1>1, <1>3, NumberedLaw
  <2> QED BY <1>1, <1>3, <2>1 DEF PlainMove, Counted
<1> QED BY <1>2, <1>3, EmitLaw

\* So is an artifact's, or the one that tells its loss: a line is written either way.
LEMMA EmitArtifactPlain ==
  ASSUME LinesTypeOK, NEW from \in Nat \cup {Absent}, EmitArtifact(from)
  PROVE  PlainMove /\ Counted
<1>1. seq \in Nat /\ seq + 1 \in Nat /\ refusals \in 0..MaxRefusals /\ MaxRefusals \in Nat
  BY ActivityAssumption DEF LinesTypeOK
<1>2. \E line \in {ArtifactLine(from), Line("error")} :
        /\ Written(Numbered(line, seq'))
        /\ refusals' = refusals \/ (refusals' = refusals + 1 /\ refusals' \in 1..MaxRefusals)
  BY EmitArtifactLaw
<1>3. PICK line \in {ArtifactLine(from), Line("error")} :
        /\ Written(Numbered(line, seq'))
        /\ refusals' = refusals \/ (refusals' = refusals + 1 /\ refusals' \in 1..MaxRefusals)
  BY <1>2
<1>4. line \in Lines /\ line.type \notin ActionTypes
  BY ArtifactLineLaw, LineLaw DEF HarnessEventTypes, ActionTypes
<1>5. seq' \in Nat
  BY <1>3 DEF Written
<1>6. Numbered(line, seq') \in Lines /\ Numbered(line, seq').type = line.type
  BY <1>4, <1>5, NumberedLaw
<1> QED BY <1>1, <1>3, <1>4, <1>6 DEF PlainMove, Counted

\* Nothing is written by a step that leaves the lines alone.
LEMMA LinesKept ==
  ASSUME LinesTypeOK, UNCHANGED lines
  PROVE  Still /\ Counted
BY DEF LinesTypeOK, lines, Still, Counted

\* A line known by its type alone.
LEMMA EmitNamed ==
  ASSUME NEW type \in {"browserContextOpened", "observationTaken", "verificationFinished", "error",
                       "actionGuidanceExceeded", "progressStalled", "cancellationRequested"},
         LinesTypeOK, Emit(Line(type))
  PROVE  (Still \/ PlainMove) /\ Counted
<1>1. Line(type) \in Lines /\ Sound(Line(type)) /\ Line(type).type = type
  BY LineLaw DEF HarnessEventTypes
<1>2. type \notin ActionTypes
  BY DEF ActionTypes
<1> QED BY <1>1, <1>2, EmitPlain

\* The line of an exhausted budget.
LEMMA EmitExhausted ==
  ASSUME LinesTypeOK, NEW name \in BudgetKinds \cup {"maxIdleTurns"}, Emit(ExhaustedLine(name))
  PROVE  (Still \/ PlainMove) /\ Counted
BY ExhaustedLineLaw, EmitPlain DEF ActionTypes

\* The line of a request for evidence.
LEMMA EmitEvidence ==
  ASSUME LinesTypeOK, NEW by \in {"agent", "verifier", "runner"}, Emit(EvidenceLine(by))
  PROVE  (Still \/ PlainMove) /\ Counted
BY EvidenceLineLaw, EmitPlain DEF ActionTypes

\* The lines of a model call.
LEMMA EmitCall ==
  ASSUME LinesTypeOK, NEW type \in {"modelCallStarted", "modelCallFinished"}, NEW tokens \in Nat,
         Emit(CallLine(type, "browser", tokens))
  PROVE  (Still \/ PlainMove) /\ Counted
BY CallLineLaw, EmitPlain DEF ActionTypes

\* What the gate names is a budget the page knows.
LEMMA DenialIsKnown == Denial(budget, FALSE) \in {"maxModelCalls", "maxTokens"} \cap BudgetKinds
BY DEF Denial, BudgetKinds

\* The action under way is one of the tools, and its line a sound one.
LEMMA ActionIsKnown ==
  ASSUME ControlTypeOK, Placed, Acting \/ Unended
  PROVE  act.tool \in Tools /\ act.id # 0
<1>1. act.id > 0 /\ act.id \in 0..MaxActionIds /\ MaxActionIds \in Nat
  BY ActivityAssumption DEF Placed, ControlTypeOK
<1>2. act.tool \in Tools \cup {"none"} /\ act.tool # "none"
  BY <1>1 DEF Placed, ControlTypeOK
<1> QED BY <1>1, <1>2

\* An interruption closes the action in flight, when there is one.
LEMMA EmitInterrupted ==
  ASSUME ControlTypeOK, LinesTypeOK, Placed, CloseInterruptedAction,
         pc' \notin {"crossing", "opening", "opened", "closing"}
  PROVE  (Still \/ EndMove) /\ Counted
<1>0. seq \in Nat /\ seq + 1 \in Nat /\ refusals \in 0..MaxRefusals /\ MaxRefusals \in Nat
  BY ActivityAssumption DEF LinesTypeOK
<1>1. CASE ~ act.inFlight
  BY <1>1, LinesKept DEF CloseInterruptedAction
<1>2. CASE act.inFlight
  <2> DEFINE line == [ActionLine("actionFinished") EXCEPT !.outcome = "error"]
  <2>1. act.tool \in Tools /\ act.id # 0
    BY <1>2, ActionIsKnown DEF Unended
  <2>2. PICK base \in Lines : /\ base = ActionLine("actionFinished")
                              /\ base.type = "actionFinished"
                              /\ base.action = act.id /\ base.tool = act.tool
    BY <2>1, ActionLineLaw
  <2>3. /\ line \in Lines /\ line.type = "actionFinished" /\ line.action = act.id
        /\ line.tool = act.tool /\ line.outcome = "error"
    BY <2>2 DEF Lines, Outcomes
  <2>4. Sound(line)
    BY <2>1, <2>3 DEF Sound, Mirrored, NoAction
  <2>5. Emit(line)
    BY <1>2 DEF CloseInterruptedAction
  <2>6. Unended /\ act'.id = act.id /\ ~ act'.inFlight
    BY <1>2 DEF CloseInterruptedAction, Unended, ControlTypeOK
  <2>7. ~ Unended' /\ ~ Unopened'
    BY <2>6 DEF Unended, Unopened
  <2> HIDE DEF line
  <2>8. CASE Still /\ seq' = seq + 1 /\ refusals' = refusals + 1 /\ refusals' \in 1..MaxRefusals
    BY <1>0, <2>8 DEF Counted
  <2>9. CASE /\ Written(Numbered(line, seq')) /\ seq' = seq + 1 /\ refusals' = refusals
             /\ Numbered(line, seq').seq = seq + 1
    <3>1. /\ Numbered(line, seq') \in Lines /\ Numbered(line, seq').type = line.type
          /\ Numbered(line, seq').action = line.action
      BY <1>0, <2>3, <2>9, NumberedLaw
    <3> QED BY <1>0, <2>3, <2>6, <2>7, <2>9, <3>1 DEF EndMove, Counted
  <2> QED BY <2>3, <2>4, <2>5, <2>8, <2>9, EmitLaw
<1> QED BY <1>1, <1>2

\* The line that opens an action.
LEMMA OpenMoves ==
  ASSUME ControlTypeOK, LinesTypeOK, Placed, OpenAction
  PROVE  (Still \/ StartMove) /\ Counted
<1>0. seq \in Nat /\ seq + 1 \in Nat /\ refusals \in 0..MaxRefusals /\ MaxRefusals \in Nat
  BY ActivityAssumption DEF LinesTypeOK
<1>1. /\ pc = "opening" /\ pc' = "opened" /\ UNCHANGED act
      /\ Emit(ActionLine("actionStarted"))
  BY DEF OpenAction, Tell
<1>2. Unended /\ Unopened /\ ~ Unopened'
  BY <1>1 DEF Unended, Unopened
<1>3. act.tool \in Tools /\ act.id # 0
  BY <1>2, ActionIsKnown
<1> DEFINE line == ActionLine("actionStarted")
<1>4. /\ line \in Lines /\ Sound(line) /\ line.type = "actionStarted" /\ line.action = act.id
      /\ line.tool = act.tool
  BY <1>3, ActionLineLaw
<1> HIDE DEF line
<1>5. CASE Still /\ seq' = seq + 1 /\ refusals' = refusals + 1 /\ refusals' \in 1..MaxRefusals
  BY <1>0, <1>5 DEF Counted
<1>6. CASE /\ Written(Numbered(line, seq')) /\ seq' = seq + 1 /\ refusals' = refusals
           /\ Numbered(line, seq').seq = seq + 1
  <2>1. /\ Numbered(line, seq') \in Lines /\ Numbered(line, seq').type = line.type
        /\ Numbered(line, seq').action = line.action /\ Numbered(line, seq').tool = line.tool
    BY <1>0, <1>4, <1>6, NumberedLaw
  <2> QED BY <1>0, <1>1, <1>2, <1>4, <1>6, <2>1 DEF StartMove, Counted
<1> QED BY <1>1, <1>4, <1>5, <1>6, EmitLaw DEF line

\* The line that closes it.
LEMMA CloseMoves ==
  ASSUME ControlTypeOK, LinesTypeOK, Placed, CloseAction
  PROVE  (Still \/ EndMove) /\ Counted
<1>0. seq \in Nat /\ seq + 1 \in Nat /\ refusals \in 0..MaxRefusals /\ MaxRefusals \in Nat
  BY ActivityAssumption DEF LinesTypeOK
<1>1. /\ pc = "closing" /\ pc' \in {"after", "turn"} /\ UNCHANGED act
      /\ Emit(ActionLine("actionFinished"))
  BY DEF CloseAction, Tell
<1>2. Unended /\ ~ Unopened' /\ ~ act.inFlight /\ act.outcome # "none"
  BY <1>1 DEF Unended, Unopened, Placed, Acting, Asked, InEvaluation
<1>3. ~ Unended'
  BY <1>1, <1>2 DEF Unended
<1>4. act.tool \in Tools /\ act.id # 0
  BY <1>2, ActionIsKnown
<1> DEFINE line == ActionLine("actionFinished")
<1>5. /\ line \in Lines /\ Sound(line) /\ line.type = "actionFinished" /\ line.action = act.id
  BY <1>2, <1>4, ActionLineLaw
<1> HIDE DEF line
<1>6. CASE Still /\ seq' = seq + 1 /\ refusals' = refusals + 1 /\ refusals' \in 1..MaxRefusals
  BY <1>0, <1>6 DEF Counted
<1>7. CASE /\ Written(Numbered(line, seq')) /\ seq' = seq + 1 /\ refusals' = refusals
           /\ Numbered(line, seq').seq = seq + 1
  <2>1. /\ Numbered(line, seq') \in Lines /\ Numbered(line, seq').type = line.type
        /\ Numbered(line, seq').action = line.action
    BY <1>0, <1>5, <1>7, NumberedLaw
  <2> QED BY <1>0, <1>1, <1>2, <1>3, <1>5, <1>7, <2>1 DEF EndMove, Counted
<1> QED BY <1>1, <1>5, <1>6, <1>7, EmitLaw DEF line

\* The steps that tell something else than the two ends of an action.
LEMMA PlainSteps ==
  ASSUME ControlTypeOK, LinesTypeOK, Placed,
         \/ OpenContext \/ ReportFailure \/ StartTurn \/ FinishModelCall \/ TellStall
         \/ TellCrossing \/ Observe \/ BreakContract \/ RequestEvidence \/ AskVerifier \/ AskForMore
         \/ Decide \/ NoteCancellation \/ Explain
  PROVE  (Still \/ PlainMove) /\ Counted
<1>1. CASE OpenContext
  BY <1>1, EmitNamed DEF OpenContext, Tell
<1>2. CASE ReportFailure
  BY <1>2, EmitNamed DEF ReportFailure, Tell
<1>3. CASE StartTurn
  BY <1>3, EmitCall, EmitExhausted, DenialIsKnown DEF StartTurn, Tell
<1>4. CASE FinishModelCall
  <2>1. Usage \in Nat /\ Emit(CallLine("modelCallFinished", "browser", Usage))
    BY <1>4, ActivityAssumption DEF FinishModelCall, Tell
  <2> QED BY <2>1, EmitCall
<1>5. CASE TellStall
  <2>1. Emit(Line("progressStalled")) \/ Emit(ExhaustedLine("maxIdleTurns"))
    BY <1>5 DEF TellStall, Tell
  <2> QED BY <2>1, EmitNamed, EmitExhausted
<1>6. CASE TellCrossing
  BY <1>6, EmitNamed DEF TellCrossing, Tell
<1>7. CASE Observe
  BY <1>7, EmitNamed DEF Observe, Tell
<1>8. CASE BreakContract
  BY <1>8, EmitNamed DEF BreakContract, Tell
<1>9. CASE RequestEvidence
  <2>1. Emit(EvidenceLine(eval.by)) /\ eval.by \in {"agent", "verifier", "runner"}
    BY <1>9 DEF RequestEvidence, Tell, Placed, ControlTypeOK, InEvaluation
  <2> QED BY <2>1, EmitEvidence
<1>10. CASE AskVerifier
  <2>1. UNCHANGED lines \/ Emit(ExhaustedLine(Denial(budget, FALSE)))
    BY <1>10 DEF AskVerifier, Tell
  <2> QED BY <2>1, LinesKept, EmitExhausted, DenialIsKnown
<1>11. CASE AskForMore
  BY <1>11, EmitEvidence DEF AskForMore, Tell
<1>12. CASE Decide
  BY <1>12, EmitNamed DEF Decide, Tell
<1>13. CASE NoteCancellation
  BY <1>13, EmitNamed DEF NoteCancellation, Tell
<1>14. CASE Explain
  <2>1. \/ Emit(ExhaustedLine("attemptTimeout")) \/ Emit(Line("cancellationRequested"))
        \/ UNCHANGED lines
    BY <1>14 DEF Explain, Tell
  <2>2. "attemptTimeout" \in BudgetKinds
    BY DEF BudgetKinds
  <2> QED BY <2>1, <2>2, EmitExhausted, EmitNamed, LinesKept
<1> QED
  BY <1>1, <1>2, <1>3, <1>4, <1>5, <1>6, <1>7, <1>8, <1>9, <1>10, <1>11, <1>12, <1>13, <1>14

\* The steps that capture something, and a check by code, which may.
LEMMA CaptureSteps ==
  ASSUME ControlTypeOK, LinesTypeOK, Placed,
         Screenshot \/ CaptureObservation \/ CaptureAfterAction \/ Checkpoint \/ RunCodeCheck
  PROVE  (Still \/ PlainMove) /\ Counted
<1>1. source \in Nat \cup {Absent} /\ Absent \in Nat \cup {Absent}
  BY DEF LinesTypeOK, Absent
<1>2. CASE Screenshot \/ CaptureObservation \/ CaptureAfterAction
  <2>1. EmitArtifact(source) \/ EmitArtifact(Absent)
    BY <1>2 DEF Screenshot, CaptureObservation, CaptureAfterAction, Capture
  <2> QED BY <1>1, <2>1, EmitArtifactPlain
<1>3. CASE Checkpoint \/ RunCodeCheck
  <2>1. EmitArtifact(source) \/ Emit(Line("error")) \/ UNCHANGED lines
    BY <1>3 DEF Checkpoint, RunCodeCheck, RecordCheckPayload, CheckMisbound
  <2> QED BY <1>1, <2>1, EmitArtifactPlain, EmitNamed, LinesKept
<1> QED BY <1>2, <1>3

\* The steps that leave the lines alone.
Silent ==
  \/ LeaveLoop \/ ModelAnswers \/ ModelFails \/ NextCall \/ Dispatch \/ TakeFlight \/ Check
  \/ Finish \/ EndAction \/ VerifierAnswers \/ VerifierFails \/ FinalPass

\* They do.
LEMMA SilentSteps ==
  ASSUME Silent
  PROVE  UNCHANGED lines
BY DEF Silent, LeaveLoop, ModelAnswers, ModelFails, NextCall, Dispatch, TakeFlight, Check, Finish,
       EndAction, VerifierAnswers, VerifierFails, FinalPass

\* Every step makes one of the four moves, and spends its numbers.
LEMMA Moves ==
  ASSUME ControlTypeOK, LinesTypeOK, Placed, [Next]_vars
  PROVE  (Still \/ PlainMove \/ StartMove \/ EndMove) /\ Counted
<1>1. CASE UNCHANGED vars \/ Silent
  BY <1>1, SilentSteps, LinesKept DEF vars
<1>2. CASE OpenAction
  BY <1>2, OpenMoves
<1>3. CASE CloseAction
  BY <1>3, CloseMoves
<1>4. CASE Cancel \/ Interrupt
  BY <1>4, EmitInterrupted DEF Cancel, Interrupt
<1> QED BY <1>1, <1>2, <1>3, <1>4, PlainSteps, CaptureSteps DEF Next, Silent

\* An action is opened and ended once: what could not be any more will not be again.
Onward ==
  \/ act'.id > act.id
  \/ act'.id = act.id /\ (Unopened' => Unopened) /\ (Unended' => Unended)

\* Every step takes the attempt onward: no action is opened or ends twice.
LEMMA GoesOnward ==
  ASSUME ControlTypeOK, Placed, [Next]_vars
  PROVE  Onward
<1>1. CASE Dispatch
  BY <1>1 DEF Dispatch, Onward, ControlTypeOK, Unopened, Unended
<1>2. CASE \/ TellCrossing \/ OpenAction \/ TakeFlight \/ EndAction \/ CloseAction
  BY <1>2 DEF TellCrossing, OpenAction, TakeFlight, EndAction, CloseAction, Tell, ControlTypeOK,
       Placed, Onward, Unopened, Unended, Acting, Asked, InEvaluation
<1>3. CASE Cancel \/ Interrupt
  BY <1>3 DEF Cancel, Interrupt, CloseInterruptedAction, Onward, Unopened, Unended, ControlTypeOK
<1>4. CASE BreakContract
  BY <1>4 DEF BreakContract, Tell, Onward, Unopened, Unended, ControlTypeOK
<1>5. CASE
        \/ OpenContext \/ ReportFailure \/ LeaveLoop \/ StartTurn \/ ModelAnswers \/ ModelFails
        \/ FinishModelCall \/ TellStall \/ NextCall \/ Observe
  <2>1. UNCHANGED act /\ pc' \notin {"crossing", "opening", "opened", "closing"}
    BY <1>5 DEF OpenContext, ReportFailure, LeaveLoop, StartTurn, ModelAnswers, ModelFails,
         FinishModelCall, TellStall, NextCall, Observe, Tell
  <2> QED BY <2>1 DEF Onward, Unopened, Unended
<1>6. CASE
        \/ Screenshot \/ Check \/ Finish \/ CaptureObservation \/ CaptureAfterAction
        \/ RequestEvidence \/ Checkpoint \/ RunCodeCheck \/ AskVerifier \/ VerifierAnswers
  <2>1. UNCHANGED act /\ pc' \notin {"crossing", "opening", "opened", "closing"}
    BY <1>6 DEF Screenshot, Check, Finish, CaptureObservation, CaptureAfterAction, RequestEvidence,
         Checkpoint, RunCodeCheck, AskVerifier, VerifierAnswers, Capture, Tell
  <2> QED BY <2>1 DEF Onward, Unopened, Unended
<1>7. CASE \/ VerifierFails \/ AskForMore \/ Decide \/ FinalPass \/ NoteCancellation \/ Explain
           \/ UNCHANGED vars
  <2>1. UNCHANGED act /\ (UNCHANGED pc \/ pc' \notin {"crossing", "opening", "opened", "closing"})
    BY <1>7 DEF VerifierFails, AskForMore, Decide, Evaluated, FinalPass, NoteCancellation, Explain,
         Tell, vars
  <2> QED BY <2>1 DEF Onward, Unopened, Unended
<1> QED BY <1>1, <1>2, <1>3, <1>4, <1>5, <1>6, <1>7 DEF Next

-----------------------------------------------------------------------------
(* The control.                                                             *)

\* What each step leaves alone.
LEMMA Frames ==
  ASSUME Next
  PROVE  /\ UNCHANGED <<budget, verifierCalls>>
              \/ ModelAnswers \/ ModelFails \/ VerifierAnswers \/ Cancel
         /\ UNCHANGED guidance \/ Dispatch
         /\ UNCHANGED turn \/ ModelAnswers \/ FinishModelCall \/ NextCall
         /\ UNCHANGED act
              \/ Dispatch \/ TakeFlight \/ BreakContract \/ EndAction \/ Cancel \/ Interrupt
         /\ UNCHANGED eval \/ Check \/ Decide \/ FinalPass
         /\ UNCHANGED exit
              \/ OpenContext \/ ModelFails \/ NextCall \/ Finish \/ RunCodeCheck \/ Cancel
              \/ Interrupt \/ Explain
<1>1. CASE \/ OpenContext \/ ReportFailure \/ LeaveLoop \/ StartTurn \/ ModelAnswers \/ ModelFails
           \/ FinishModelCall \/ TellStall \/ NextCall
  BY <1>1 DEF OpenContext, ReportFailure, LeaveLoop, StartTurn, ModelAnswers, ModelFails,
       FinishModelCall, TellStall, NextCall, Tell
<1>2. CASE \/ Dispatch \/ TellCrossing \/ OpenAction \/ TakeFlight \/ Observe \/ Screenshot \/ Check
           \/ Finish \/ CaptureObservation
  BY <1>2 DEF Dispatch, TellCrossing, OpenAction, TakeFlight, Observe, Screenshot, Check, Finish,
       CaptureObservation, Tell, Capture
<1>3. CASE \/ BreakContract \/ EndAction \/ CloseAction \/ CaptureAfterAction \/ RequestEvidence
           \/ Checkpoint \/ RunCodeCheck \/ AskVerifier \/ VerifierAnswers
  BY <1>3 DEF BreakContract, EndAction, CloseAction, CaptureAfterAction, RequestEvidence,
       Checkpoint, RunCodeCheck, AskVerifier, VerifierAnswers, Tell, Capture
<1>4. CASE \/ VerifierFails \/ AskForMore \/ Decide \/ FinalPass \/ Cancel \/ NoteCancellation
           \/ Interrupt \/ Explain
  BY <1>4 DEF VerifierFails, AskForMore, Decide, FinalPass, Cancel, NoteCancellation, Interrupt,
       Explain, Tell
<1> QED BY <1>1, <1>2, <1>3, <1>4 DEF Next

\* The budget only grows, one call and the cost of an answer at a time.
LEMMA BudgetStep ==
  ASSUME ControlTypeOK, Next
  PROVE  budget' \in BudgetStates /\ verifierCalls' \in 0..budget'.modelCalls
<1>1. PICK calls \in Nat, tokens \in Nat, reserved \in Nat :
        budget = [modelCalls |-> calls, tokensUsed |-> tokens, verifierTokens |-> reserved]
  BY DEF ControlTypeOK, BudgetStates
<1>2. verifierCalls \in 0..calls /\ Usage \in Nat
  BY <1>1, ActivityAssumption DEF ControlTypeOK
<1>3. CASE ModelAnswers \/ VerifierAnswers
  <2>1. PICK added \in Nat :
          budget' = [modelCalls |-> calls + 1, tokensUsed |-> tokens + Usage,
                     verifierTokens |-> reserved + added]
    BY <1>1, <1>2, <1>3 DEF ModelAnswers, VerifierAnswers, RecordModelCall, ChargeTokens
  <2>2. verifierCalls' \in {verifierCalls, verifierCalls + 1}
    BY <1>3 DEF ModelAnswers, VerifierAnswers
  <2> QED BY <1>2, <2>1, <2>2 DEF BudgetStates
<1>4. CASE ModelFails \/ Cancel
  <2>1. /\ \/ budget' = budget
           \/ budget' = [modelCalls |-> calls + 1, tokensUsed |-> tokens,
                         verifierTokens |-> reserved]
        /\ UNCHANGED verifierCalls
    BY <1>1, <1>4 DEF ModelFails, Cancel, RecordModelCall
  <2> QED BY <1>1, <1>2, <2>1 DEF BudgetStates
<1>5. CASE UNCHANGED <<budget, verifierCalls>>
  BY <1>5 DEF ControlTypeOK
<1> QED BY <1>3, <1>4, <1>5, Frames

Turns ==
  [idle : 0..MaxIdleTurns, calls : 0..MaxCalls, made : 0..Repetition, repeated : BOOLEAN]
Actions ==
  [id : 0..MaxActionIds, tool : Tools \cup {"none"}, inFlight : BOOLEAN, outcome : Outcomes,
   broken : BOOLEAN]

\* The idle turns and the calls left keep their types.
LEMMA TurnStep ==
  ASSUME ControlTypeOK, Placed, Next
  PROVE  turn' \in Turns
<1>1. /\ MaxCalls \in Nat /\ MaxIdleTurns \in Nat \ {0}
      /\ turn \in Turns /\ turn.idle \in 0..MaxIdleTurns /\ turn.calls \in 0..MaxCalls
      /\ turn.made \in 0..Repetition /\ turn.repeated \in BOOLEAN
  BY ActivityAssumption DEF ControlTypeOK, Turns
<1>2. CASE ModelAnswers
  <2>1. PICK n \in 0..MaxCalls : turn' = [turn EXCEPT !.calls = n]
    BY <1>2 DEF ModelAnswers
  <2> QED BY <1>1, <2>1 DEF Turns
<1>3. CASE FinishModelCall
  <2>1. turn.idle # MaxIdleTurns
    BY <1>3 DEF FinishModelCall, Placed, InEvaluation
  <2>2. PICK idle \in {0, turn.idle + 1} : turn' = [turn EXCEPT !.idle = idle]
    BY <1>3 DEF FinishModelCall
  <2>3. idle \in 0..MaxIdleTurns
    BY <1>1, <2>1
  <2> QED BY <1>1, <2>2, <2>3 DEF Turns
<1>4. CASE NextCall
  <2>1. CASE UNCHANGED turn
    BY <1>1, <2>1
  <2>2. CASE ~ UNCHANGED turn
    <3>1. PICK told \in Told :
            turn' = [turn EXCEPT !.calls = @ - 1, !.made = Made, !.repeated = told]
      BY <1>4, <2>2 DEF NextCall
    <3>2. turn.calls # 0
      BY <1>4, <2>2 DEF NextCall
    <3>5. turn.calls - 1 \in 0..MaxCalls
      BY <1>1, <3>2
    <3>3. Made \in 0..Repetition
      BY <1>1 DEF Made, Repetition
    <3>4. told \in BOOLEAN
      BY <1>1 DEF Told
    <3> QED BY <1>1, <3>1, <3>3, <3>4, <3>5 DEF Turns
  <2> QED BY <2>1, <2>2
<1> QED BY <1>1, <1>2, <1>3, <1>4, Frames

\* The action keeps its type.
LEMMA ActStep ==
  ASSUME ControlTypeOK, Placed, Next
  PROVE  act' \in Actions
<1>1. /\ MaxActionIds \in Nat /\ act \in Actions /\ act.id \in 0..MaxActionIds
  BY ActivityAssumption DEF ControlTypeOK, Actions
<1>2. CASE Dispatch
  <2>1. UNCHANGED act \/ \E name \in Tools :
          /\ act.id < MaxActionIds
          /\ act' = [id |-> act.id + 1, tool |-> name, inFlight |-> FALSE, outcome |-> "none",
                     broken |-> FALSE]
    BY <1>2 DEF Dispatch
  <2>2. act.id < MaxActionIds => act.id + 1 \in 0..MaxActionIds
    BY <1>1
  <2>3. UNCHANGED act \/ \E id \in 0..MaxActionIds, name \in Tools :
          act' = [id |-> id, tool |-> name, inFlight |-> FALSE, outcome |-> "none",
                  broken |-> FALSE]
    BY <2>1, <2>2
  <2>4. \A id \in 0..MaxActionIds, name \in Tools :
          [id |-> id, tool |-> name, inFlight |-> FALSE, outcome |-> "none", broken |-> FALSE]
            \in Actions
    BY DEF Actions, Outcomes
  <2> QED BY <1>1, <2>3, <2>4
<1>3. CASE TakeFlight \/ BreakContract
  BY <1>1, <1>3 DEF TakeFlight, BreakContract, Actions
<1>4. CASE EndAction
  <2>1. PICK outcome \in Outcomes : act' = [act EXCEPT !.inFlight = FALSE, !.outcome = outcome]
    BY <1>4 DEF EndAction, Outcomes
  <2> QED BY <1>1, <2>1 DEF Actions
<1>5. CASE Cancel \/ Interrupt
  <2>1. act' = act \/ act' = [act EXCEPT !.inFlight = FALSE, !.outcome = "error"]
    BY <1>5 DEF Cancel, Interrupt, CloseInterruptedAction
  <2> QED BY <1>1, <2>1 DEF Actions, Outcomes
<1> QED BY <1>1, <1>2, <1>3, <1>4, <1>5, Frames

\* Every step keeps the types of what the lines do not touch.
LEMMA ControlStep ==
  ASSUME ControlTypeOK, Placed, Next
  PROVE  ControlTypeOK'
<1>1. guidance' \in [used : 0..MaxActionIds, notified : BOOLEAN]
  <2>1. /\ guidance \in [used : 0..MaxActionIds, notified : BOOLEAN]
        /\ guidance.used \in 0..MaxActionIds /\ act.id \in 0..MaxActionIds /\ MaxActionIds \in Nat
    BY ActivityAssumption DEF ControlTypeOK
  <2>2. CASE Dispatch
    <3>1. act.id < MaxActionIds => guidance.used + 1 \in 0..MaxActionIds
      <4>1. guidance.used <= act.id
        BY DEF Placed
      <4> QED BY <2>1, <4>1
    <3>2. PICK notified \in BOOLEAN :
            \/ guidance' = guidance
            \/ /\ act.id < MaxActionIds
               /\ guidance' = [used |-> guidance.used + 1, notified |-> notified]
      BY <2>2 DEF Dispatch, RecordAction
    <3> QED BY <2>1, <3>1, <3>2
  <2> QED BY <2>1, <2>2, Frames
<1>2. eval' \in [method : {"model", "code"}, by : {"none", "agent", "runner"}, pending : BOOLEAN]
  <2>1. CASE Check \/ Decide \/ FinalPass
    <3>1. \/ UNCHANGED eval \/ eval' = [eval EXCEPT !.pending = FALSE]
          \/ \E by \in {"agent", "runner"} : eval' = [eval EXCEPT !.by = by]
      BY <2>1 DEF Check, Decide, FinalPass
    <3> QED BY <3>1 DEF ControlTypeOK
  <2> QED BY <2>1, Frames DEF ControlTypeOK
<1>3. exit' \in [finishing : BOOLEAN, cancelled : BOOLEAN, failed : BOOLEAN, struck : BOOLEAN]
  <2>1. \/ UNCHANGED exit
        \/ \E b \in BOOLEAN : exit' = [exit EXCEPT !.failed = b]
        \/ exit' = [exit EXCEPT !.finishing = TRUE] \/ exit' = [exit EXCEPT !.cancelled = TRUE]
        \/ exit' = [exit EXCEPT !.struck = TRUE]
    <3>1. CASE OpenContext \/ ModelFails
      BY <3>1 DEF OpenContext, ModelFails
    <3>2. CASE NextCall
      <4>1. (exit.failed \/ act.broken) \in BOOLEAN
        OBVIOUS
      <4>2. exit' = [exit EXCEPT !.failed = exit.failed \/ act.broken]
        BY <3>2 DEF NextCall, ControlTypeOK
      <4> QED BY <4>1, <4>2
    <3>3. CASE RunCodeCheck
      BY <3>3 DEF RunCodeCheck, RecordCheckPayload, CheckMisbound
    <3>4. CASE Finish \/ Cancel \/ Interrupt \/ Explain
      BY <3>4 DEF Finish, Cancel, Interrupt, Explain
    <3> QED BY <3>1, <3>2, <3>3, <3>4, Frames
  <2> QED BY <2>1 DEF ControlTypeOK
<1>4. pc' \in Places
  <2>1. CASE \/ OpenContext \/ ReportFailure \/ LeaveLoop \/ StartTurn \/ ModelAnswers \/ ModelFails
             \/ FinishModelCall \/ TellStall \/ NextCall \/ Dispatch \/ TellCrossing
              \/ OpenAction
             \/ TakeFlight \/ Observe \/ Screenshot \/ Check \/ Finish \/ CaptureObservation
    BY <2>1 DEF OpenContext, ReportFailure, LeaveLoop, StartTurn, ModelAnswers, ModelFails,
         FinishModelCall, TellStall, NextCall, Dispatch, TellCrossing, OpenAction, TakeFlight,
         Observe, Screenshot, Check, Finish, CaptureObservation, Tell, Capture,
         Places, Body, InDispatch, InEvaluation
  <2>2. CASE \/ BreakContract \/ EndAction \/ CloseAction \/ CaptureAfterAction \/ RequestEvidence
             \/ Checkpoint \/ RunCodeCheck \/ AskVerifier \/ VerifierAnswers \/ VerifierFails
             \/ AskForMore \/ Decide \/ FinalPass \/ Cancel \/ NoteCancellation \/ Interrupt
             \/ Explain
    BY <2>2 DEF BreakContract, EndAction, CloseAction, CaptureAfterAction, RequestEvidence,
         Checkpoint, RunCodeCheck, AskVerifier, VerifierAnswers, VerifierFails, AskForMore, Decide,
         Evaluated, FinalPass, Cancel, NoteCancellation, Interrupt, Explain, Tell, Capture,
         Places, Body, InDispatch, InEvaluation
  <2> QED BY <2>1, <2>2 DEF Next
<1> QED BY <1>1, <1>2, <1>3, <1>4, BudgetStep, TurnStep, ActStep DEF ControlTypeOK, Turns, Actions

\* Every step leaves the attempt where it can be.
LEMMA PlacedStep ==
  ASSUME ControlTypeOK, Placed, Next
  PROVE  Placed'
<1>0. /\ MaxActionIds \in Nat /\ MaxIdleTurns \in Nat \ {0}
      /\ act.id \in Nat /\ turn.calls \in Nat /\ guidance.used \in Nat
  BY ActivityAssumption DEF ControlTypeOK
<1>1. CASE OpenContext \/ ReportFailure \/ LeaveLoop \/ StartTurn
  BY <1>0, <1>1 DEF OpenContext, ReportFailure, LeaveLoop, StartTurn, Tell, ControlTypeOK,
       Placed, InDispatch, InEvaluation, Acting, Asked, Unended, Outcomes
<1>2. CASE ModelAnswers \/ ModelFails \/ FinishModelCall \/ TellStall
  BY <1>0, <1>2 DEF ModelAnswers, ModelFails, FinishModelCall, TellStall, Tell, ControlTypeOK,
       Placed, InDispatch, InEvaluation, Acting, Asked, Unended, Outcomes
<1>3. CASE NextCall
  BY <1>0, <1>3 DEF NextCall, ControlTypeOK, Placed, InDispatch, InEvaluation, Acting, Asked,
       Unended, Outcomes
<1>4. CASE TellCrossing \/ OpenAction \/ TakeFlight
  BY <1>0, <1>4 DEF TellCrossing, OpenAction, TakeFlight, Tell, ControlTypeOK, Placed,
       InDispatch, InEvaluation, Acting, Asked, Unended, Outcomes
<1>5. CASE Observe \/ Screenshot \/ Check \/ Finish \/ CaptureObservation
  BY <1>0, <1>5 DEF Observe, Screenshot, Check, Finish, CaptureObservation, Tell, Capture,
       ControlTypeOK, Placed, InDispatch, InEvaluation, Acting, Asked, Unended, Outcomes
<1>6. CASE BreakContract \/ EndAction
  <2>1. /\ pc \in {"acting", "acted", "broken"} /\ pc' \in {"broken", "closing"}
        /\ UNCHANGED <<guidance, turn, eval>>
    BY <1>6 DEF BreakContract, EndAction, Tell
  <2>2. /\ act'.id = act.id /\ act'.tool = act.tool
        /\ act'.inFlight <=> pc' = "broken" /\ act.inFlight
        /\ pc' = "closing" => act'.outcome # "none"
    BY <1>6 DEF BreakContract, EndAction, Tell, ControlTypeOK
  <2> QED BY <1>0, <2>1, <2>2 DEF ControlTypeOK, Placed, InEvaluation, Acting, Asked, Unended
<1>7. CASE CloseAction \/ CaptureAfterAction
  BY <1>0, <1>7 DEF CloseAction, CaptureAfterAction, Tell, Capture, ControlTypeOK, Placed,
       InDispatch, InEvaluation, Acting, Asked, Unended, Outcomes
<1>8. CASE RequestEvidence \/ Checkpoint \/ RunCodeCheck
  BY <1>0, <1>8 DEF RequestEvidence, Checkpoint, RunCodeCheck, Tell, ControlTypeOK, Placed,
       InDispatch, InEvaluation, Acting, Asked, Unended, Outcomes
<1>9. CASE AskVerifier \/ VerifierAnswers \/ VerifierFails
  BY <1>0, <1>9 DEF AskVerifier, VerifierAnswers, VerifierFails, Tell, ControlTypeOK, Placed,
       InDispatch, InEvaluation, Acting, Asked, Unended, Outcomes
<1>10. CASE AskForMore \/ Decide \/ FinalPass
  BY <1>0, <1>10 DEF AskForMore, Decide, FinalPass, Tell, Evaluated, ControlTypeOK, Placed,
       InDispatch, InEvaluation, Acting, Asked, Unended, Outcomes
<1>11. CASE NoteCancellation \/ Explain
  BY <1>0, <1>11 DEF NoteCancellation, Explain, Tell, ControlTypeOK, Placed, InDispatch,
       InEvaluation, Acting, Asked, Unended, Outcomes
<1>12. CASE Dispatch
  <2>1. CASE UNCHANGED <<guidance, act>>
    BY <1>0, <1>12, <2>1 DEF Dispatch, ControlTypeOK, Placed, InEvaluation, Acting, Asked, Unended
  <2>2. CASE ~ UNCHANGED <<guidance, act>>
    <3>1. PICK name \in Tools :
            /\ act' = [id |-> act.id + 1, tool |-> name, inFlight |-> FALSE, outcome |-> "none",
                       broken |-> FALSE]
            /\ guidance' = RecordAction(name)
      BY <1>12, <2>2 DEF Dispatch
    <3>2. /\ pc = "call" /\ pc' \in {"crossing", "opening"}
          /\ UNCHANGED <<turn, eval>>
      BY <1>12, <2>2 DEF Dispatch
    <3>3. guidance'.used \in {guidance.used, guidance.used + 1}
      BY <3>1 DEF RecordAction
    <3>4. act'.id = act.id + 1 /\ act'.tool # "none" /\ act'.inFlight = FALSE
      BY <3>1 DEF Tools, BrowserTools
    <3> QED
      BY <1>0, <3>2, <3>3, <3>4 DEF ControlTypeOK, Placed, InEvaluation, Acting, Asked, Unended
  <2> QED BY <2>1, <2>2
<1>13. CASE Cancel \/ Interrupt
  <2>1. pc' \in {"noting", "explaining"} /\ UNCHANGED <<guidance, turn, eval>>
    BY <1>13 DEF Cancel, Interrupt
  <2>2. act'.id = act.id /\ act'.tool = act.tool /\ ~ act'.inFlight
    BY <1>13 DEF Cancel, Interrupt, CloseInterruptedAction, ControlTypeOK
  <2> QED BY <1>0, <2>1, <2>2 DEF ControlTypeOK, Placed, InEvaluation, Acting, Asked, Unended
<1> QED BY <1>1, <1>2, <1>3, <1>4, <1>5, <1>6, <1>7, <1>8, <1>9, <1>10, <1>11, <1>12, <1>13 DEF
       Next

-----------------------------------------------------------------------------
(* The lines.                                                               *)

\* A written line is the last of the journal.
LEMMA WrittenLaw ==
  ASSUME LinesTypeOK, NEW m \in Lines, Written(m)
  PROVE  /\ journal' \in Seq(Lines) /\ page' \in RunModels
         /\ Len(journal) \in Nat /\ DOMAIN journal = 1..Len(journal)
         /\ Len(journal') = Len(journal) + 1 /\ DOMAIN journal' = 1..(Len(journal) + 1)
         /\ \A n \in DOMAIN journal : journal'[n] = journal[n]
         /\ journal'[Len(journal) + 1] = m
<1>1. journal \in Seq(Lines) /\ page \in RunModels /\ Sound(m)
      /\ journal' = Append(journal, m) /\ page' = RunReducer(page, m)
  BY DEF LinesTypeOK, Written
<1>2. page' \in RunModels
  BY <1>1, FoldLaw
<1>3. Len(journal) \in Nat /\ DOMAIN journal = 1..Len(journal)
  BY <1>1, LenProperties
<1>4. /\ journal' \in Seq(Lines) /\ Len(journal') = Len(journal) + 1
      /\ \A n \in 1..Len(journal) : journal'[n] = journal[n]
      /\ journal'[Len(journal) + 1] = m
  BY <1>1, AppendProperties
<1>5. DOMAIN journal' = 1..(Len(journal) + 1)
  BY <1>4, LenProperties
<1> QED BY <1>2, <1>3, <1>4, <1>5

\* What a capture is linked to, and the captures themselves.
LEMMA LinksStep ==
  ASSUME ControlTypeOK, LinesTypeOK, Placed, Next
  PROVE  /\ source' \in {source, seq', 0, Absent}
         /\ \/ during' = during
            \/ /\ during' = during \cup {<<seq', act.id>>}
               /\ Acting \/ pc = "after"
               /\ seq' = seq + 1
<1>1. source \in Nat \cup {Absent} /\ Absent \in Nat \cup {Absent}
  BY DEF LinesTypeOK, Absent
<1>2. CASE Screenshot \/ CaptureObservation \/ CaptureAfterAction
  <2>1. PICK from \in Nat \cup {Absent} :
          /\ EmitArtifact(from) /\ UNCHANGED source
          /\ during' = IF Recorded THEN during \cup {<<seq', act.id>>} ELSE during
    BY <1>1, <1>2 DEF Screenshot, CaptureObservation, CaptureAfterAction, Capture
  <2>2. Recorded => seq' = seq + 1
    BY <2>1 DEF EmitArtifact, Recorded, LinesTypeOK
  <2>3. Acting \/ pc = "after"
    BY <1>2 DEF Screenshot, CaptureObservation, CaptureAfterAction, Acting
  <2> QED BY <2>1, <2>2, <2>3
<1>3. CASE Checkpoint \/ RunCodeCheck
  <2>1. /\ UNCHANGED source
        /\ \/ UNCHANGED during
           \/ /\ EmitArtifact(source)
              /\ during' = IF Recorded THEN during \cup Evaluating ELSE during
    BY <1>3 DEF Checkpoint, RunCodeCheck, RecordCheckPayload, CheckMisbound
  <2>2. EmitArtifact(source) /\ Recorded => seq' = seq + 1
    BY DEF EmitArtifact, Recorded, LinesTypeOK
  <2>3. eval.by = "agent" => Acting
    BY <1>3 DEF Checkpoint, RunCodeCheck, Acting, Asked, InEvaluation
  <2> QED BY <2>1, <2>2, <2>3 DEF Evaluating
<1>4. CASE OpenAction \/ Observe \/ RequestEvidence
  BY <1>4 DEF OpenAction, Observe, RequestEvidence
<1>5. CASE \/ OpenContext \/ ReportFailure \/ LeaveLoop \/ StartTurn \/ ModelAnswers \/ ModelFails
           \/ FinishModelCall \/ TellStall \/ NextCall \/ Dispatch \/ TellCrossing \/ TakeFlight
           \/ Check \/ Finish \/ BreakContract
  BY <1>5 DEF OpenContext, ReportFailure, LeaveLoop, StartTurn, ModelAnswers, ModelFails,
       FinishModelCall, TellStall, NextCall, Dispatch, TellCrossing, TakeFlight, Check, Finish,
       BreakContract
<1>6. CASE \/ EndAction \/ CloseAction \/ AskVerifier \/ VerifierAnswers \/ VerifierFails
           \/ AskForMore \/ Decide \/ FinalPass \/ Cancel \/ NoteCancellation \/ Interrupt
           \/ Explain
  BY <1>6 DEF EndAction, CloseAction, AskVerifier, VerifierAnswers, VerifierFails, AskForMore,
       Decide, FinalPass, Cancel, NoteCancellation, Interrupt, Explain
<1> QED BY <1>2, <1>3, <1>4, <1>5, <1>6 DEF Next

\* Every step keeps the types of the lines and of the page.
LEMMA LinesStep ==
  ASSUME ControlTypeOK, LinesTypeOK, Placed, Next
  PROVE  LinesTypeOK'
<1>1. (Still \/ \E m \in Lines : Written(m)) /\ Counted
  BY Moves DEF PlainMove, StartMove, EndMove
<1>2. /\ journal' \in Seq(Lines) /\ page' \in RunModels
      /\ seq' \in Nat /\ seq <= seq' /\ Len(journal') <= seq'
  <2>1. CASE Still
    BY <2>1 DEF Still, LinesTypeOK
  <2>2. CASE \E m \in Lines : Written(m)
    <3>1. PICK m \in Lines : Written(m)
      BY <2>2
    <3>2. seq \in Nat /\ seq' \in Nat /\ seq < seq' /\ Len(journal) <= seq
      BY <3>1 DEF Written, LinesTypeOK
    <3> QED BY <3>1, <3>2, WrittenLaw
  <2> QED BY <1>1, <2>1, <2>2
<1>3. source' \in Absent..seq'
  <2>1. source \in Absent..seq /\ seq \in Nat /\ Absent = -1
    BY DEF LinesTypeOK, Absent
  <2>2. source' \in {source, seq', 0, Absent}
    BY LinksStep
  <2> QED BY <1>2, <2>1, <2>2
<1>4. during' \subseteq (1..seq') \X (1..MaxActionIds)
  <2>1. /\ during \subseteq (1..seq) \X (1..MaxActionIds) /\ seq \in Nat
        /\ act.id \in 0..MaxActionIds /\ MaxActionIds \in Nat
    BY ActivityAssumption DEF LinesTypeOK, ControlTypeOK
  <2>2. 1..seq \subseteq 1..seq'
    BY <1>2, <2>1
  <2>3. during \subseteq (1..seq') \X (1..MaxActionIds)
    BY <2>1, <2>2
  <2>4. ASSUME Acting \/ pc = "after", seq' = seq + 1
        PROVE  seq' \in 1..seq' /\ act.id \in 1..MaxActionIds
    BY <2>1, <2>4 DEF Placed
  <2> QED BY <2>3, <2>4, LinksStep
<1> QED BY <1>1, <1>2, <1>3, <1>4 DEF LinesTypeOK, Counted

\* The lines are told in the order of their numbers, and so are the rows.
LEMMA StoryStep ==
  ASSUME LinesTypeOK, Story, Still \/ \E m \in Lines : Written(m)
  PROVE  Story'
<1>1. CASE Still
  <2>1. \A k : k \in 1..seq => k \in 1..seq'
    BY <1>1 DEF Still, LinesTypeOK
  <2> QED BY <1>1, <2>1 DEF Still, Story, Sound, Mirrored, Ordered
<1>2. CASE \E m \in Lines : Written(m)
  <2>1. PICK m \in Lines : Written(m)
    BY <1>2
  <2> DEFINE rows == page.timeline
             owner == Owner(page, m)
             row == Row(m, owner)
             k == Len(journal) + 1
  <2>2. /\ m.seq = seq' /\ seq' \in Nat /\ seq \in Nat /\ seq < seq' /\ Sound(m)
        /\ page \in RunModels /\ page' = RunReducer(page, m) /\ rows \in Seq(Rows)
    BY <2>1 DEF Written, LinesTypeOK, RunModels, Rows, Outcomes
  <2>3. /\ Len(journal) \in Nat /\ DOMAIN journal = 1..Len(journal) /\ DOMAIN journal' = 1..k
        /\ \A n \in DOMAIN journal : journal'[n] = journal[n]
        /\ journal'[k] = m
    BY <2>1, WrittenLaw
  <2>4. page'.timeline = NextTimeline(page, m, owner) /\ owner \in Nat
    BY <2>2, FoldLaw, OwnerTyped
  <2>5. \A n \in DOMAIN journal' : n \in DOMAIN journal \/ n = k
    BY <2>3
  <2>6. \A n \in DOMAIN journal : journal[n].seq \in 1..seq /\ Sound(journal[n]) /\ n < k
    BY <2>3 DEF Story
  <2>7. \A n \in DOMAIN journal' : journal'[n].seq \in 1..seq' /\ Sound(journal'[n])
    BY <2>2, <2>3, <2>5, <2>6
  <2>8. Ordered(journal)'
    <3>1. \A i, j \in DOMAIN journal : i < j => journal[i].seq < journal[j].seq
      BY DEF Story, Ordered
    <3>2. SUFFICES ASSUME NEW i \in DOMAIN journal', NEW j \in DOMAIN journal', i < j
                   PROVE  journal'[i].seq < journal'[j].seq
      BY DEF Ordered
    <3>3. i \in DOMAIN journal
      BY <2>3, <3>2
    <3>4. CASE j \in DOMAIN journal
      BY <2>3, <3>1, <3>2, <3>3, <3>4
    <3>5. CASE j = k
      BY <2>2, <2>3, <2>6, <3>3, <3>5
    <3> QED BY <2>5, <3>4, <3>5
  <2>9. Len(rows) \in Nat /\ DOMAIN rows = 1..Len(rows)
    BY <2>2, LenProperties
  <2>10. CASE m.type = "actionFinished"
    <3>1. page'.timeline = CloseTimelineRow(rows, m)
      BY <2>4, <2>10 DEF NextTimeline
    <3> HIDE DEF rows
    <3>2. /\ DOMAIN page'.timeline = DOMAIN rows
          /\ \A i \in DOMAIN rows : /\ page'.timeline[i].seq = rows[i].seq
                                    /\ page'.timeline[i].kind = rows[i].kind
                                    /\ page'.timeline[i].action = rows[i].action
      BY <2>2, <3>1, CloseLaw
    <3>3. \A i \in DOMAIN page'.timeline : page'.timeline[i].seq \in 1..seq'
      BY <2>2, <3>2 DEF Story, rows
    <3>4. Ordered(page.timeline)'
      BY <3>2 DEF Story, Ordered, rows
    <3>5. \A n \in DOMAIN journal' : journal'[n].type # "actionFinished" =>
            \E i \in DOMAIN page'.timeline : page'.timeline[i].seq = journal'[n].seq
      BY <2>3, <2>5, <2>10, <3>2 DEF Story, rows
    <3>6. \A i \in DOMAIN page'.timeline : \E n \in DOMAIN journal' :
            /\ journal'[n].type # "actionFinished"
            /\ page'.timeline[i].seq = journal'[n].seq
            /\ page'.timeline[i].kind = RowKind(journal'[n].type)
            /\ journal'[n].type = "actionStarted" =>
                 page'.timeline[i].action = journal'[n].action
      BY <2>3, <3>2 DEF Story, rows
    <3> QED BY <2>7, <2>8, <3>3, <3>4, <3>5, <3>6 DEF Story, Sound, Mirrored
  <2>11. CASE m.type # "actionFinished"
    <3>1. page'.timeline = Append(rows, row) /\ row \in Rows
      BY <2>2, <2>4, <2>11, TimelineLaw
    <3>2. /\ row.seq = m.seq /\ row.kind = RowKind(m.type)
          /\ m.type = "actionStarted" => row.action = m.action
      BY DEF Row, Owner
    <3> HIDE DEF rows, row, k
    <3> DEFINE l == Len(rows) + 1
    <3>3. /\ DOMAIN page'.timeline = 1..l
          /\ \A i \in DOMAIN rows : page'.timeline[i] = rows[i]
          /\ page'.timeline[l] = row
      <4>1. page'.timeline \in Seq(Rows) /\ Len(page'.timeline) = l
        BY <2>2, <3>1, AppendProperties
      <4> QED BY <2>2, <2>9, <3>1, <4>1, AppendProperties, LenProperties
    <3>4. \A i \in DOMAIN page'.timeline : i \in DOMAIN rows \/ i = l
      BY <2>9, <3>3
    <3>5. \A i \in DOMAIN rows : rows[i].seq \in 1..seq /\ i < l /\ i \in DOMAIN page'.timeline
      BY <2>9, <3>3 DEF Story, rows
    <3>6. l \in DOMAIN page'.timeline /\ k \in DOMAIN journal'
      BY <2>3, <2>9, <3>3 DEF k
    <3>7. \A i \in DOMAIN page'.timeline : page'.timeline[i].seq \in 1..seq'
      BY <2>2, <3>2, <3>3, <3>4, <3>5
    <3>8. Ordered(page.timeline)'
      <4>1. \A i, j \in DOMAIN rows : i < j => rows[i].seq < rows[j].seq
        BY DEF Story, Ordered, rows
      <4>2. SUFFICES ASSUME NEW i \in DOMAIN page'.timeline, NEW j \in DOMAIN page'.timeline, i < j
                     PROVE  page'.timeline[i].seq < page'.timeline[j].seq
        BY DEF Ordered
      <4>3. i \in DOMAIN rows
        BY <2>9, <3>3, <4>2
      <4>4. CASE j \in DOMAIN rows
        BY <3>3, <4>1, <4>2, <4>3, <4>4
      <4>5. CASE j = l
        BY <2>2, <3>2, <3>3, <3>5, <4>3, <4>5
      <4> QED BY <3>4, <4>4, <4>5
    <3>9. \A n \in DOMAIN journal' : journal'[n].type # "actionFinished" =>
            \E i \in DOMAIN page'.timeline : page'.timeline[i].seq = journal'[n].seq
      <4> SUFFICES ASSUME NEW n \in DOMAIN journal', journal'[n].type # "actionFinished"
                   PROVE  \E i \in DOMAIN page'.timeline : page'.timeline[i].seq = journal'[n].seq
        OBVIOUS
      <4>1. CASE n = k
        BY <2>3, <3>2, <3>3, <3>6, <4>1
      <4>2. CASE n \in DOMAIN journal
        <5>1. journal'[n] = journal[n]
          BY <2>3, <4>2
        <5>2. PICK i \in DOMAIN rows : rows[i].seq = journal[n].seq
          BY <4>2, <5>1 DEF Story, rows
        <5> QED BY <3>3, <3>5, <5>1, <5>2
      <4> QED BY <2>5, <4>1, <4>2
    <3>10. \A i \in DOMAIN page'.timeline : \E n \in DOMAIN journal' :
            /\ journal'[n].type # "actionFinished"
            /\ page'.timeline[i].seq = journal'[n].seq
            /\ page'.timeline[i].kind = RowKind(journal'[n].type)
            /\ journal'[n].type = "actionStarted" =>
                 page'.timeline[i].action = journal'[n].action
      <4> SUFFICES ASSUME NEW i \in DOMAIN page'.timeline
                   PROVE  \E n \in DOMAIN journal' :
                            /\ journal'[n].type # "actionFinished"
                            /\ page'.timeline[i].seq = journal'[n].seq
                            /\ page'.timeline[i].kind = RowKind(journal'[n].type)
                            /\ journal'[n].type = "actionStarted" =>
                                 page'.timeline[i].action = journal'[n].action
        OBVIOUS
      <4>1. CASE i = l
        BY <2>3, <2>11, <3>2, <3>3, <3>6, <4>1
      <4>2. CASE i \in DOMAIN rows
        <5>1. PICK n \in DOMAIN journal :
                /\ journal[n].type # "actionFinished"
                /\ rows[i].seq = journal[n].seq /\ rows[i].kind = RowKind(journal[n].type)
                /\ journal[n].type = "actionStarted" => rows[i].action = journal[n].action
          BY <4>2 DEF Story, rows
        <5>2. n \in DOMAIN journal' /\ journal'[n] = journal[n] /\ page'.timeline[i] = rows[i]
          BY <2>3, <3>3, <4>2 DEF k
        <5> QED BY <5>1, <5>2
      <4> QED BY <3>4, <4>1, <4>2
    <3> QED BY <2>7, <2>8, <3>7, <3>8, <3>9, <3>10 DEF Story, Sound, Mirrored
  <2> QED BY <2>10, <2>11
<1> QED BY <1>1, <1>2

\* What a line adds to the rows, and to the ends.
LEMMA RowsLaw ==
  ASSUME LinesTypeOK, NEW m \in Lines, Written(m)
  PROVE  /\ page.timeline \in Seq(Rows) /\ page'.timeline \in Seq(Rows)
         /\ Len(page.timeline) \in Nat /\ DOMAIN page.timeline = 1..Len(page.timeline)
         /\ m.type = "actionFinished" => page'.timeline = CloseTimelineRow(page.timeline, m)
         /\ m.type # "actionFinished" =>
              LET l == Len(page.timeline) + 1
              IN  /\ DOMAIN page'.timeline = 1..l
                  /\ \A i \in DOMAIN page.timeline : page'.timeline[i] = page.timeline[i]
                  /\ page'.timeline[l].kind = "action" <=> m.type = "actionStarted"
                  /\ m.type = "actionStarted" => /\ page'.timeline[l].action = m.action
                                                 /\ page'.timeline[l].outcome = "none"
<1> DEFINE rows == page.timeline
           owner == Owner(page, m)
           row == Row(m, owner)
           l == Len(rows) + 1
<1>1. /\ page \in RunModels /\ page' \in RunModels /\ rows \in Seq(Rows)
      /\ page'.timeline \in Seq(Rows) /\ Sound(m) /\ page' = RunReducer(page, m)
      /\ m.type \in HarnessEventTypes
  BY WrittenLaw DEF Written, LinesTypeOK, RunModels, Rows, Outcomes, Lines
<1>2. page'.timeline = NextTimeline(page, m, owner) /\ owner \in Nat
  BY <1>1, FoldLaw, OwnerTyped
<1>3. Len(rows) \in Nat /\ DOMAIN rows = 1..Len(rows)
  BY <1>1, LenProperties
<1>4. CASE m.type = "actionFinished"
  BY <1>1, <1>2, <1>3, <1>4 DEF NextTimeline
<1>5. CASE m.type # "actionFinished"
  <2>1. page'.timeline = Append(rows, row) /\ row \in Rows
    BY <1>1, <1>2, <1>5, TimelineLaw
  <2>2. /\ row.kind = "action" <=> m.type = "actionStarted"
        /\ m.type = "actionStarted" => row.action = m.action
        /\ row.outcome = "none"
    BY <1>1, <1>5 DEF Row, Owner, RowKind, EventCategories, HarnessEventTypes
  <2> HIDE DEF rows, row
  <2>3. /\ Len(page'.timeline) = l
        /\ \A i \in 1..Len(rows) : page'.timeline[i] = rows[i]
        /\ page'.timeline[l] = row
    BY <1>1, <2>1, AppendProperties
  <2>4. DOMAIN page'.timeline = 1..l
    BY <1>1, <2>3, LenProperties
  <2> QED BY <1>1, <1>3, <1>5, <2>2, <2>3, <2>4 DEF rows
<1> QED BY <1>4, <1>5

\* What is known of an id is known of it as long as it lasts.
LEMMA Younger ==
  ASSUME ControlTypeOK, ControlTypeOK', Onward, NEW a \in Nat, a <= act.id
  PROVE  /\ a <= act'.id
         /\ (Unended => a # act.id) => (Unended' => a # act'.id)
         /\ (Unopened => a # act.id) => (Unopened' => a # act'.id)
<1>1. act.id \in Nat /\ act'.id \in Nat
  BY ActivityAssumption DEF ControlTypeOK
<1>2. CASE act'.id > act.id
  BY <1>1, <1>2
<1>3. CASE act'.id = act.id /\ (Unopened' => Unopened) /\ (Unended' => Unended)
  BY <1>1, <1>3
<1> QED BY <1>2, <1>3 DEF Onward

\* The four parts of Pairs.
EndsAreSpent ==
  \A n \in DOMAIN journal : journal[n].type = "actionFinished" =>
    journal[n].action <= act.id /\ (Unended => journal[n].action # act.id)
RowsAreSpent ==
  \A i \in ActionRows :
    page.timeline[i].action <= act.id /\ (Unopened => page.timeline[i].action # act.id)
RowsDiffer ==
  \A i, j \in ActionRows : page.timeline[i].action = page.timeline[j].action => i = j
RowsTellEnds ==
  \A i \in ActionRows :
    \/ Ends(page.timeline[i].action) = {} /\ page.timeline[i].outcome = "none"
    \/ /\ Ends(page.timeline[i].action) # {}
       /\ \A n \in Ends(page.timeline[i].action) : journal[n].outcome = page.timeline[i].outcome

\* And nothing else.
LEMMA PairsParts == Pairs <=> EndsAreSpent /\ RowsAreSpent /\ RowsDiffer /\ RowsTellEnds
BY DEF Pairs, EndsAreSpent, RowsAreSpent, RowsDiffer, RowsTellEnds

\* Every move keeps rows and ends together.
LEMMA PairsStep ==
  ASSUME ControlTypeOK, ControlTypeOK', LinesTypeOK, Pairs, Onward,
         Still \/ PlainMove \/ StartMove \/ EndMove
  PROVE  Pairs'
<1> USE DEF ActionTypes
<1>1. /\ \A n \in DOMAIN journal : journal[n].action \in Nat
      /\ \A i \in DOMAIN page.timeline : page.timeline[i].action \in Nat
  <2>1. /\ \A n \in DOMAIN journal : journal[n] \in Lines
        /\ page.timeline \in Seq(Rows) /\ MaxActionIds \in Nat
    BY ActivityAssumption, ElementOfSeq, LenProperties DEF LinesTypeOK, RunModels, Rows, Outcomes
  <2>2. \A i \in DOMAIN page.timeline : page.timeline[i] \in Rows
    BY <2>1, ElementOfSeq, LenProperties
  <2>3. \A line \in Lines : line.action \in Nat
    BY <2>1 DEF Lines
  <2> QED BY <2>1, <2>2, <2>3 DEF Rows
<1>2. EndsAreSpent /\ RowsAreSpent /\ RowsDiffer /\ RowsTellEnds
  BY PairsParts
\* What was told is still true of the action under way.
<1>3. \A n \in DOMAIN journal : journal[n].type = "actionFinished" =>
        journal[n].action <= act'.id /\ (Unended' => journal[n].action # act'.id)
  BY <1>1, <1>2, Younger DEF EndsAreSpent
<1>4. \A i \in ActionRows :
        page.timeline[i].action <= act'.id /\ (Unopened' => page.timeline[i].action # act'.id)
  BY <1>1, <1>2, Younger DEF RowsAreSpent, ActionRows
<1>5. CASE Still
  <2>1. journal' = journal /\ page' = page
    BY <1>5 DEF Still
  <2>2. ActionRows' = ActionRows /\ \A a : Ends(a)' = Ends(a)
    BY <2>1 DEF ActionRows, Ends
  <2>3. EndsAreSpent' /\ RowsAreSpent'
    BY <1>3, <1>4, <2>1, <2>2 DEF EndsAreSpent, RowsAreSpent
  <2>4. RowsDiffer' /\ RowsTellEnds'
    BY <1>2, <2>1, <2>2 DEF RowsDiffer, RowsTellEnds, Ends
  <2> QED BY <2>3, <2>4, PairsParts DEF Pairs, EndsAreSpent, RowsAreSpent, RowsDiffer, RowsTellEnds
<1>6. ASSUME NEW m \in Lines, Written(m), m.type \notin {"actionStarted", "actionFinished"}
      PROVE  Pairs'
  <2>1. /\ \A n \in DOMAIN journal' : n \in DOMAIN journal \/ journal'[n] = m
        /\ \A n \in DOMAIN journal : n \in DOMAIN journal' /\ journal'[n] = journal[n]
    BY <1>6, WrittenLaw
  <2>2. /\ \A i \in DOMAIN page'.timeline :
             i \in DOMAIN page.timeline \/ page'.timeline[i].kind # "action"
        /\ \A i \in DOMAIN page.timeline :
             i \in DOMAIN page'.timeline /\ page'.timeline[i] = page.timeline[i]
    BY <1>6, RowsLaw
  <2>3. /\ ActionRows' = ActionRows
        /\ \A i \in ActionRows : page'.timeline[i] = page.timeline[i]
    BY <2>2 DEF ActionRows
  <2>4. \A a : Ends(a)' = Ends(a) /\ \A n \in Ends(a) : journal'[n] = journal[n]
    BY <1>6, <2>1 DEF Ends
  <2>5. EndsAreSpent'
    BY <1>3, <1>6, <2>1 DEF EndsAreSpent
  <2>6. RowsAreSpent' /\ RowsDiffer'
    BY <1>2, <1>4, <2>3 DEF RowsAreSpent, RowsDiffer
  <2>7. RowsTellEnds'
    BY <1>2, <2>3, <2>4 DEF RowsTellEnds
  <2> QED BY <2>5, <2>6, <2>7 DEF Pairs, EndsAreSpent, RowsAreSpent, RowsDiffer, RowsTellEnds
<1>7. ASSUME NEW m \in Lines, Written(m), m.type = "actionStarted", m.action = act.id,
             Unopened, ~ Unopened', act' = act
      PROVE  Pairs'
  <2> DEFINE l == Len(page.timeline) + 1
  <2>1. /\ \A n \in DOMAIN journal' : n \in DOMAIN journal \/ journal'[n] = m
        /\ \A n \in DOMAIN journal : n \in DOMAIN journal' /\ journal'[n] = journal[n]
    BY <1>7, WrittenLaw
  <2>2. /\ \A i \in DOMAIN page'.timeline : i \in DOMAIN page.timeline \/ i = l
        /\ \A i \in DOMAIN page.timeline :
             i \in DOMAIN page'.timeline /\ page'.timeline[i] = page.timeline[i]
        /\ page'.timeline[l].action = act.id /\ page'.timeline[l].outcome = "none"
    BY <1>7, RowsLaw
  <2> HIDE DEF l
  <2>3. /\ \A i \in ActionRows' : i \in ActionRows \/ i = l
        /\ \A i \in ActionRows : page'.timeline[i] = page.timeline[i]
    BY <2>2 DEF ActionRows
  <2>4. \A a : Ends(a)' = Ends(a) /\ \A n \in Ends(a) : journal'[n] = journal[n]
    BY <1>7, <2>1 DEF Ends
  <2>5. EndsAreSpent'
    BY <1>3, <1>7, <2>1 DEF EndsAreSpent
  <2>6. act.id \in Nat
    BY ActivityAssumption DEF ControlTypeOK
  <2>7. RowsAreSpent'
    BY <1>4, <1>7, <2>2, <2>3, <2>6 DEF RowsAreSpent
  <2>8. \A i \in ActionRows : page.timeline[i].action # act.id
    BY <1>2, <1>7 DEF RowsAreSpent
  <2>9. RowsDiffer'
    BY <1>2, <2>2, <2>3, <2>8 DEF RowsDiffer
  <2>10. Ends(act.id) = {}
    <3>1. Unended
      BY <1>7 DEF Unopened, Unended
    <3> QED BY <1>2, <3>1 DEF EndsAreSpent, Ends
  <2>11. RowsTellEnds'
    BY <1>2, <2>2, <2>3, <2>4, <2>10 DEF RowsTellEnds
  <2> QED BY <2>5, <2>7, <2>9, <2>11 DEF Pairs, EndsAreSpent, RowsAreSpent, RowsDiffer, RowsTellEnds
<1>8. ASSUME NEW m \in Lines, Written(m), m.type = "actionFinished", m.action = act.id,
             Unended, ~ Unended', ~ Unopened', act'.id = act.id
      PROVE  Pairs'
  <2> DEFINE k == Len(journal) + 1
             rows == page.timeline
             closed == CloseTimelineRow(rows, m)
             open == {i \in DOMAIN rows : /\ rows[i].kind = "action"
                                          /\ rows[i].action = m.action
                                          /\ rows[i].outcome = "none"}
  <2>1. /\ \A n \in DOMAIN journal' : n \in DOMAIN journal \/ n = k
        /\ \A n \in DOMAIN journal : n \in DOMAIN journal' /\ journal'[n] = journal[n]
        /\ k \in DOMAIN journal' /\ k \notin DOMAIN journal /\ journal'[k] = m
    BY <1>8, WrittenLaw
  <2>2. page'.timeline = closed /\ rows \in Seq(Rows)
    BY <1>8, RowsLaw
  <2> HIDE DEF k
  <2>3. /\ DOMAIN closed = DOMAIN rows
        /\ \A i \in DOMAIN rows : /\ closed[i].seq = rows[i].seq
                                  /\ closed[i].kind = rows[i].kind
                                  /\ closed[i].action = rows[i].action
                                  /\ i \notin open => closed[i].outcome = rows[i].outcome
        /\ (\A i, j \in open : i = j) => \A i \in open : closed[i].outcome = m.outcome
    <3> HIDE DEF rows, closed
    <3> QED BY <2>2, CloseLaw DEF closed
  <2> HIDE DEF closed, open
  <2>4. ActionRows' = ActionRows
    BY <2>2, <2>3 DEF ActionRows
  <2>5. \A i \in ActionRows : i \in DOMAIN rows /\ closed[i].action = rows[i].action
    BY <2>3 DEF ActionRows
  <2>6. act.id \in Nat
    BY ActivityAssumption DEF ControlTypeOK
  <2>7. EndsAreSpent'
    BY <1>3, <1>8, <2>1, <2>6 DEF EndsAreSpent
  <2>8. RowsAreSpent' /\ RowsDiffer'
    BY <1>2, <1>4, <2>2, <2>4, <2>5 DEF RowsAreSpent, RowsDiffer
  <2>9. Ends(act.id) = {}
    BY <1>2, <1>8 DEF EndsAreSpent, Ends
  <2>10. \A a : a = act.id => Ends(a)' = {k}
    BY <1>8, <2>1, <2>9 DEF Ends
  <2>11. \A a : a # act.id => Ends(a)' = Ends(a) /\ \A n \in Ends(a) : journal'[n] = journal[n]
    BY <1>8, <2>1 DEF Ends
  <2>12. \A i \in ActionRows : i \in open <=> rows[i].action = act.id
    BY <1>2, <1>8, <2>9 DEF open, RowsTellEnds, ActionRows
  <2>13. open \subseteq ActionRows
    BY DEF open, ActionRows
  <2>14. \A i, j \in open : i = j
    BY <1>2, <2>12, <2>13 DEF RowsDiffer
  <2>15. RowsTellEnds'
    <3>1. ASSUME NEW i \in ActionRows, NEW a, a = page'.timeline[i].action
          PROVE  \/ Ends(a)' = {} /\ page'.timeline[i].outcome = "none"
                 \/ /\ Ends(a)' # {}
                    /\ \A n \in Ends(a)' : journal'[n].outcome = page'.timeline[i].outcome
      <4>1. a = rows[i].action
        BY <2>2, <2>5, <3>1
      <4>2. CASE i \in open
        <5>1. a = act.id /\ page'.timeline[i].outcome = m.outcome
          BY <2>2, <2>3, <2>12, <2>14, <4>1, <4>2
        <5> QED BY <2>1, <2>10, <5>1
      <4>3. CASE i \notin open
        <5>1. a # act.id /\ page'.timeline[i].outcome = rows[i].outcome
          BY <2>2, <2>3, <2>5, <2>12, <4>1, <4>3
        <5>2. \/ Ends(a) = {} /\ rows[i].outcome = "none"
              \/ Ends(a) # {} /\ \A n \in Ends(a) : journal[n].outcome = rows[i].outcome
          BY <1>2, <4>1 DEF RowsTellEnds
        <5> QED BY <2>11, <5>1, <5>2
      <4> QED BY <4>2, <4>3
    <3> QED BY <2>4, <3>1 DEF RowsTellEnds, Ends
  <2> QED BY <2>7, <2>8, <2>15 DEF Pairs, EndsAreSpent, RowsAreSpent, RowsDiffer, RowsTellEnds
<1> QED BY <1>5, <1>6, <1>7, <1>8 DEF PlainMove, StartMove, EndMove

-----------------------------------------------------------------------------
(* The owners of artifacts.                                                 *)

\* Only the line that opens an action changes which one was opened last, and nothing is unlinked.
LEMMA LastLaw ==
  ASSUME LinesTypeOK, Still \/ PlainMove \/ EndMove
  PROVE  /\ page.artifacts \subseteq page'.artifacts
         /\ page.actions # <<>> =>
              /\ page'.actions # <<>>
              /\ page'.actions[Len(page'.actions)].action = page.actions[Len(page.actions)].action
              /\ page'.actions[Len(page'.actions)].seq = page.actions[Len(page.actions)].seq
<1>1. CASE Still
  BY <1>1 DEF Still
<1>2. ASSUME NEW m \in Lines, Written(m), m.type # "actionStarted"
      PROVE  /\ page.artifacts \subseteq page'.artifacts
             /\ page.actions # <<>> =>
                  /\ page'.actions # <<>>
                  /\ page'.actions[Len(page'.actions)].action
                       = page.actions[Len(page.actions)].action
                  /\ page'.actions[Len(page'.actions)].seq = page.actions[Len(page.actions)].seq
  <2>1. /\ page \in RunModels /\ page.actions \in Seq(OpenedActions) /\ Sound(m)
        /\ page' = RunReducer(page, m)
    BY <1>2 DEF Written, LinesTypeOK, RunModels, OpenedActions, Outcomes
  <2>2. /\ page'.actions = NextActions(page.actions, m)
        /\ page.artifacts \subseteq page'.artifacts
    BY <2>1, FoldLaw
  <2> DEFINE before == page.actions
             after == page'.actions
  <2>3. /\ after \in Seq(OpenedActions) /\ Len(after) = Len(before)
        /\ \A i \in DOMAIN before : /\ after[i].seq = before[i].seq
                                    /\ after[i].action = before[i].action
    <3> HIDE DEF before
    <3> QED BY <1>2, <2>1, <2>2, ActionsLaw DEF before
  <2>4. ASSUME before # <<>>
        PROVE  /\ after # <<>> /\ after[Len(after)].action = before[Len(before)].action
               /\ after[Len(after)].seq = before[Len(before)].seq
    <3>1. Len(before) \in DOMAIN before /\ Len(before) # 0
      BY <2>1, <2>4, EmptySeq, LenProperties
    <3> QED BY <2>3, <3>1, EmptySeq
  <2> QED BY <2>2, <2>4
<1> QED BY <1>1, <1>2 DEF PlainMove, EndMove, ActionTypes

\* The line that opens an action makes it the page's last one.
LEMMA OpenedLaw ==
  ASSUME LinesTypeOK, StartMove
  PROVE  /\ page.artifacts \subseteq page'.artifacts /\ page'.actions # <<>>
         /\ page'.actions[Len(page'.actions)].action = act.id
         /\ page'.actions[Len(page'.actions)].seq = seq'
<1>1. PICK m \in Lines : Written(m) /\ m.type = "actionStarted" /\ m.action = act.id
  BY DEF StartMove
<1>2. /\ page \in RunModels /\ page.actions \in Seq(OpenedActions) /\ Sound(m) /\ m.seq = seq'
      /\ page' = RunReducer(page, m)
  BY <1>1 DEF Written, LinesTypeOK, RunModels, OpenedActions, Outcomes
<1>3. /\ page'.actions = NextActions(page.actions, m)
      /\ page.artifacts \subseteq page'.artifacts
  BY <1>2, FoldLaw
<1>4. m.type = "actionStarted" => m.tool \in Tools
  BY <1>2 DEF Sound, Mirrored
<1> DEFINE before == page.actions
           after == page'.actions
<1>5. /\ after \in Seq(OpenedActions) /\ Len(after) = Len(before) + 1
      /\ after[Len(after)].seq = m.seq /\ after[Len(after)].action = m.action
  <2> HIDE DEF before
  <2> QED BY <1>1, <1>2, <1>3, <1>4, ActionsLaw DEF before
<1>6. Len(before) \in Nat
  BY <1>2, LenProperties
<1>7. after # <<>>
  BY <1>5, <1>6, EmptySeq
<1> QED BY <1>1, <1>2, <1>3, <1>5, <1>7

\* What is captured in the course of the last action opened is shown under it.
LEMMA CaptureIsOwned ==
  ASSUME LinesTypeOK, Owned, NEW from \in {source, Absent}, EmitArtifact(from), Recorded,
         Held, refusals = 0
  PROVE  <<seq', act.id>> \in page'.artifacts
<1> DEFINE m == Numbered(ArtifactLine(from), seq')
<1>1. from \in Nat \cup {Absent} /\ from \in Int /\ refusals + 1 # refusals
  BY DEF LinesTypeOK, Absent
<1>2. Written(m) /\ seq' \in Nat
  BY <1>1, EmitArtifactLaw DEF Recorded, Written
<1>3. /\ m \in Lines /\ m.seq = seq' /\ m.type = "artifactAvailable" /\ m.source = from
  BY <1>1, <1>2, ArtifactLineLaw, NumberedLaw
<1> HIDE DEF m
<1>4. page'.artifacts = page.artifacts \cup {<<seq', ActionAtSeq(page.actions, from)>>}
  <2>1. page \in RunModels /\ Sound(m) /\ page' = RunReducer(page, m)
    BY <1>2 DEF Written, LinesTypeOK
  <2> QED BY <1>3, <2>1, FoldLaw DEF Owner
<1>5. ActionAtSeq(page.actions, from) = act.id
  <2>1. page.actions \in Seq(OpenedActions)
    BY DEF LinesTypeOK, RunModels, OpenedActions, Outcomes
  <2>2. /\ page.actions # <<>> /\ page.actions[Len(page.actions)].action = act.id
        /\ from = Absent \/ page.actions[Len(page.actions)].seq <= from
    BY DEF Owned
  <2> QED BY <1>1, <2>1, <2>2, OwnerLaw
<1> QED BY <1>4, <1>5

\* An action is held from its first line on, and what is linked is linked to that line or a
\* later one.
LEMMA HeldLaw ==
  ASSUME ControlTypeOK, Placed, Next, ~ OpenAction, Held'
  PROVE  /\ Held /\ act'.id = act.id
         /\ source' = source \/ Observe \/ RequestEvidence
<1> USE DEF Held
<1>1. CASE \/ OpenContext \/ ReportFailure \/ LeaveLoop \/ StartTurn \/ ModelAnswers \/ ModelFails
           \/ FinishModelCall \/ TellStall \/ NextCall \/ Dispatch \/ TellCrossing
  BY <1>1 DEF OpenContext, ReportFailure, LeaveLoop, StartTurn, ModelAnswers, ModelFails,
       FinishModelCall, TellStall, NextCall, Dispatch, TellCrossing, Tell, Acting, Asked,
       InEvaluation
<1>2. CASE \/ TakeFlight \/ Observe \/ Screenshot \/ Check \/ Finish \/ CaptureObservation
           \/ CloseAction \/ CaptureAfterAction
  BY <1>2 DEF TakeFlight, Observe, Screenshot, Check, Finish, CaptureObservation, CloseAction,
       CaptureAfterAction, Tell, Capture, Acting, Asked, InEvaluation, ControlTypeOK
<1>3. CASE BreakContract \/ EndAction \/ Cancel \/ Interrupt
  BY <1>3 DEF BreakContract, EndAction, Cancel, Interrupt, CloseInterruptedAction, Tell,
       Acting, Asked, InEvaluation, ControlTypeOK
<1>4. CASE RequestEvidence \/ Checkpoint \/ RunCodeCheck \/ AskVerifier \/ VerifierAnswers
  BY <1>4 DEF RequestEvidence, Checkpoint, RunCodeCheck, AskVerifier, VerifierAnswers, Tell,
       Acting, Asked, InEvaluation
<1>5. CASE \/ VerifierFails \/ AskForMore \/ Decide \/ FinalPass \/ NoteCancellation \/ Explain
  BY <1>5 DEF VerifierFails, AskForMore, Decide, Evaluated, FinalPass, NoteCancellation, Explain,
       Tell, Acting, Asked, InEvaluation, ControlTypeOK
<1> QED BY <1>1, <1>2, <1>3, <1>4, <1>5 DEF Next

\* The captures of a step.
LEMMA CapturesStep ==
  ASSUME ControlTypeOK, LinesTypeOK, Placed, Owned, Next, refusals = 0, refusals' = 0
  PROVE  during' \subseteq page'.artifacts
<1>1. during \subseteq page'.artifacts
  BY LastLaw, OpenedLaw, Moves DEF Owned
<1>2. CASE UNCHANGED during
  BY <1>1, <1>2
<1>3. CASE Screenshot \/ CaptureObservation \/ CaptureAfterAction
  <2>1. \E from \in {source, Absent} : EmitArtifact(from)
    BY <1>3 DEF Screenshot, CaptureObservation, CaptureAfterAction, Capture
  <2>2. Held /\ Recorded /\ during' = during \cup {<<seq', act.id>>}
    BY <1>3 DEF Screenshot, CaptureObservation, CaptureAfterAction, Capture, Held, Acting, Recorded
  <2> QED BY <1>1, <2>1, <2>2, CaptureIsOwned
<1>4. CASE (Checkpoint \/ RunCodeCheck) /\ ~ UNCHANGED during
  <2>1. EmitArtifact(source) /\ during' = during \cup Evaluating /\ Recorded
    BY <1>4 DEF Checkpoint, RunCodeCheck, RecordCheckPayload, CheckMisbound, Recorded
  <2>2. eval.by = "agent" => Held
    BY <1>4 DEF Checkpoint, RunCodeCheck, Held, Acting, Asked, InEvaluation
  <2> QED BY <1>1, <2>1, <2>2, CaptureIsOwned DEF Evaluating
<1>5. CASE \/ OpenContext \/ ReportFailure \/ LeaveLoop \/ StartTurn \/ ModelAnswers \/ ModelFails
           \/ FinishModelCall \/ TellStall \/ NextCall \/ Dispatch \/ TellCrossing \/ OpenAction
           \/ TakeFlight \/ Observe \/ Check \/ Finish \/ BreakContract
  <2>1. UNCHANGED during
    BY <1>5 DEF OpenContext, ReportFailure, LeaveLoop, StartTurn, ModelAnswers, ModelFails,
         FinishModelCall, TellStall, NextCall, Dispatch, TellCrossing, OpenAction, TakeFlight,
         Observe, Check, Finish, BreakContract
  <2> QED BY <1>2, <2>1
<1>6. CASE \/ EndAction \/ CloseAction \/ RequestEvidence \/ AskVerifier \/ VerifierAnswers
           \/ VerifierFails \/ AskForMore \/ Decide \/ FinalPass \/ Cancel \/ NoteCancellation
           \/ Interrupt \/ Explain
  <2>1. UNCHANGED during
    BY <1>6 DEF EndAction, CloseAction, RequestEvidence, AskVerifier, VerifierAnswers,
         VerifierFails, AskForMore, Decide, FinalPass, Cancel, NoteCancellation, Interrupt, Explain
  <2> QED BY <1>2, <2>1
<1> QED BY <1>2, <1>3, <1>4, <1>5, <1>6 DEF Next

\* A line that is not refused is in the journal.
LEMMA EmitAppends ==
  ASSUME LinesTypeOK, NEW line, Emit(line), refusals' = refusals
  PROVE  Appended
<1>1. refusals + 1 # refusals /\ journal \in Seq(Lines) /\ Len(journal) \in Nat
  BY LenProperties DEF LinesTypeOK
<1>2. \E m : journal' = Append(journal, m)
  BY <1>1 DEF Emit, Write
<1>3. Len(journal') = Len(journal) + 1
  BY <1>1, <1>2
<1> QED BY <1>1, <1>3 DEF Appended

\* Every step leaves the last action opened the one under way.
LEMMA OwnedStep ==
  ASSUME ControlTypeOK, LinesTypeOK, Placed, Owned, Next
  PROVE  Owned'
<1> SUFFICES ASSUME refusals' = 0 PROVE Owned'
  BY DEF Owned
<1>1. refusals = 0 /\ (Still \/ PlainMove \/ StartMove \/ EndMove)
  BY Moves DEF Counted, LinesTypeOK
<1>2. during' \subseteq page'.artifacts
  BY <1>1, CapturesStep
<1>3. seq \in Nat /\ seq' \in Nat /\ seq <= seq'
  BY <1>1 DEF LinesTypeOK, Still, PlainMove, StartMove, EndMove, Written
<1> DEFINE last == page.actions[Len(page.actions)]
<1>4. CASE OpenAction
  <2>1. UNCHANGED act /\ (source' = IF Appended THEN seq' ELSE Absent)
    BY <1>4 DEF OpenAction
  <2>2. Emit(ActionLine("actionStarted")) /\ pc = "opening" /\ pc' = "opened"
    BY <1>4 DEF OpenAction, Tell
  <2>3. Still \/ StartMove
    BY <1>4, OpenMoves
  <2>4. ~ Still
    <3>1. Appended
      BY <1>1, <2>2, EmitAppends
    <3> QED BY <3>1 DEF Still, Appended, LinesTypeOK
  <2>5. /\ page'.actions # <<>> /\ last'.action = act'.id /\ last'.seq = seq'
    BY <2>1, <2>3, <2>4, OpenedLaw
  <2>6. source' = Absent \/ last'.seq <= source'
    BY <1>3, <2>1, <2>5
  <2> HIDE DEF last
  <2> QED BY <1>2, <1>3, <2>5, <2>6 DEF Owned, last
<1>5. CASE ~ OpenAction /\ Held'
  <2>1. /\ Held /\ act'.id = act.id
        /\ source' = source \/ Observe \/ RequestEvidence
    BY <1>5, HeldLaw
  <2>2. /\ page.actions # <<>> /\ last.action = act.id /\ last.seq <= seq
        /\ source = Absent \/ last.seq <= source
    BY <1>1, <2>1 DEF Owned
  <2>3. ~ StartMove
    BY <2>1 DEF StartMove, Unopened, Held, Acting, Asked, InEvaluation
  <2>4. page'.actions # <<>> /\ last'.action = act'.id /\ last'.seq = last.seq
    BY <1>1, <2>1, <2>2, <2>3, LastLaw
  <2>5. last.seq \in Nat
    <3>1. page.actions \in Seq(OpenedActions)
      BY DEF LinesTypeOK, RunModels, OpenedActions, Outcomes
    <3>2. Len(page.actions) \in DOMAIN page.actions
      BY <2>2, <3>1, EmptySeq, LenProperties
    <3>3. last \in OpenedActions
      BY <3>1, <3>2, ElementOfSeq, LenProperties
    <3> QED BY <3>3 DEF OpenedActions
  <2>6. source' = source \/ source' = seq'
    <3>1. CASE Observe \/ RequestEvidence
      <4>1. /\ source' = IF Appended THEN seq' ELSE 0
            /\ \E line : Emit(line)
        BY <3>1 DEF Observe, RequestEvidence, Tell
      <4> QED BY <1>1, <4>1, EmitAppends
    <3> QED BY <2>1, <3>1
  <2> HIDE DEF last
  <2>7. /\ last'.seq <= seq'
        /\ source' = Absent \/ last'.seq <= source'
    BY <1>3, <2>2, <2>4, <2>5, <2>6
  <2> QED BY <1>2, <2>4, <2>7 DEF Owned, last
<1>6. CASE ~ Held'
  BY <1>2, <1>6 DEF Owned
<1> QED BY <1>4, <1>5, <1>6

-----------------------------------------------------------------------------
(* The gauges.                                                              *)

\* The page's numbers are numbers.
LEMMA GaugeTypes ==
  ASSUME LinesTypeOK
  PROVE  /\ page.tokens \in Nat /\ page.verifierTokens \in Nat /\ page.started \in Nat
         /\ page.guidance \in BOOLEAN
         /\ Len(page.actions) \in Nat /\ DOMAIN page.actions = 1..Len(page.actions)
         /\ page.actions \in Seq(OpenedActions)
         /\ IsFiniteSet(Checks) /\ Cardinality(Checks) \in Nat
<1>1. /\ page.tokens \in Nat /\ page.verifierTokens \in Nat /\ page.started \in Nat
      /\ page.guidance \in BOOLEAN /\ page.actions \in Seq(OpenedActions)
  BY DEF LinesTypeOK, RunModels, OpenedActions, Outcomes
<1>2. Len(page.actions) \in Nat /\ DOMAIN page.actions = 1..Len(page.actions)
  BY <1>1, LenProperties
<1>3. IsFiniteSet(1..Len(page.actions))
  BY <1>2, FS_Interval
<1>4. Checks \subseteq 1..Len(page.actions)
  BY <1>2 DEF Checks
<1>5. IsFiniteSet(Checks)
  BY <1>3, <1>4, FS_Subset
<1>6. Cardinality(Checks) \in Nat
  BY <1>5, FS_CardinalityType
<1> QED BY <1>1, <1>2, <1>5, <1>6

\* What a line adds to each gauge.
LEMMA GaugeLaw ==
  ASSUME LinesTypeOK, NEW m \in Lines, Written(m)
  PROVE  /\ page'.started = page.started + IF m.type = "modelCallStarted" THEN 1 ELSE 0
         /\ page'.tokens = page.tokens + IF m.type = "modelCallFinished" THEN m.tokens ELSE 0
         /\ m.type # "modelCallFinished" \/ m.role # "verifier" =>
              page'.verifierTokens = page.verifierTokens
         /\ page'.guidance <=> page.guidance \/ m.type = "actionGuidanceExceeded"
         /\ page'.breaches = IF m.type = "budgetExhausted" THEN page.breaches \cup {m.budget}
                             ELSE page.breaches
         /\ m.type # "actionStarted" => /\ Len(page'.actions) = Len(page.actions)
                                        /\ Cardinality(Checks)' = Cardinality(Checks)
         /\ m.type = "actionStarted" =>
              /\ Len(page'.actions) = Len(page.actions) + 1
              /\ Cardinality(Checks)' =
                   Cardinality(Checks) + IF m.tool \in BrowserTools THEN 0 ELSE 1
<1>1. /\ page \in RunModels /\ page.actions \in Seq(OpenedActions) /\ Sound(m)
      /\ page' = RunReducer(page, m)
  BY DEF Written, LinesTypeOK, RunModels, OpenedActions, Outcomes
<1>2. /\ page'.started = page.started + IF m.type = "modelCallStarted" THEN 1 ELSE 0
      /\ page'.tokens = page.tokens + IF m.type = "modelCallFinished" THEN m.tokens ELSE 0
      /\ m.type # "modelCallFinished" \/ m.role # "verifier" =>
           page'.verifierTokens = page.verifierTokens
      /\ page'.guidance <=> page.guidance \/ m.type = "actionGuidanceExceeded"
      /\ page'.breaches = IF m.type = "budgetExhausted" THEN page.breaches \cup {m.budget}
                          ELSE page.breaches
  <2> DEFINE counted == NextAccounting(page, m)
  <2>1. /\ page'.started = counted.started /\ page'.tokens = counted.tokens
        /\ page'.verifierTokens = counted.verifierTokens
        /\ page'.guidance = counted.guidance /\ page'.breaches = counted.breaches
    BY <1>1, FoldLaw
  <2>2. /\ counted.started = page.started + IF m.type = "modelCallStarted" THEN 1 ELSE 0
        /\ counted.tokens = page.tokens + IF m.type = "modelCallFinished" THEN m.tokens ELSE 0
        /\ m.type # "modelCallFinished" \/ m.role # "verifier" =>
             counted.verifierTokens = page.verifierTokens
        /\ counted.guidance <=> page.guidance \/ m.type = "actionGuidanceExceeded"
        /\ counted.breaches = IF m.type = "budgetExhausted" THEN page.breaches \cup {m.budget}
                              ELSE page.breaches
    BY <1>1, AccountingLaw
  <2> HIDE DEF counted
  <2> QED BY <2>1, <2>2
<1> DEFINE before == page.actions
           after == page'.actions
<1>3. after = NextActions(before, m) /\ (m.type = "actionStarted" => m.tool \in Tools)
  BY <1>1, FoldLaw DEF Sound, Mirrored
<1>4. /\ after \in Seq(OpenedActions)
      /\ m.type # "actionStarted" =>
           /\ DOMAIN after = DOMAIN before /\ Len(after) = Len(before)
           /\ \A i \in DOMAIN before : after[i].tool = before[i].tool
      /\ m.type = "actionStarted" =>
           /\ Len(after) = Len(before) + 1
           /\ \A i \in DOMAIN before : after[i] = before[i]
           /\ after[Len(after)].tool = m.tool
  <2> HIDE DEF before
  <2> QED BY <1>1, <1>3, ActionsLaw DEF before
<1>5. /\ Len(before) \in Nat /\ DOMAIN before = 1..Len(before)
      /\ IsFiniteSet(Checks) /\ Cardinality(Checks) \in Nat
  BY GaugeTypes
<1>6. DOMAIN after = 1..Len(after)
  BY <1>4, LenProperties
<1>7. CASE m.type # "actionStarted"
  <2>1. Checks' = Checks
    BY <1>4, <1>7 DEF Checks
  <2> QED BY <1>2, <1>4, <1>7, <2>1
<1>8. CASE m.type = "actionStarted"
  <2> DEFINE l == Len(before) + 1
  <2>1. /\ l = Len(after) /\ l \in DOMAIN after /\ l \notin DOMAIN before
        /\ \A i \in DOMAIN after : i \in DOMAIN before \/ i = l
        /\ DOMAIN before \subseteq DOMAIN after
    BY <1>4, <1>5, <1>6, <1>8
  <2> HIDE DEF l
  <2>2. Checks' = Checks \cup (IF m.tool \in BrowserTools THEN {} ELSE {l})
    BY <1>4, <1>8, <2>1 DEF Checks
  <2>3. l \notin Checks
    BY <2>1 DEF Checks
  <2>4. CASE m.tool \in BrowserTools
    BY <1>2, <1>4, <1>5, <1>8, <2>2, <2>4
  <2>5. CASE m.tool \notin BrowserTools
    <3>1. Cardinality(Checks \cup {l}) = Cardinality(Checks) + 1
      BY <1>5, <2>3, FS_AddElement
    <3> QED BY <1>2, <1>4, <1>5, <1>8, <2>2, <2>5, <3>1
  <2> QED BY <2>4, <2>5
<1> QED BY <1>7, <1>8

\* The gauges stand still ...
SameGauges ==
  /\ page'.tokens = page.tokens /\ page'.verifierTokens = page.verifierTokens
  /\ page'.started = page.started /\ (page'.guidance <=> page.guidance)
  /\ Len(page'.actions) = Len(page.actions) /\ Cardinality(Checks)' = Cardinality(Checks)
  /\ \A name \in {"maxModelCalls", "maxTokens"} :
       name \in page'.breaches <=> name \in page.breaches

\* ... when a line says nothing of them.
Quiet(line) ==
  /\ line.type \notin {"modelCallStarted", "modelCallFinished", "actionStarted",
                       "actionGuidanceExceeded"}
  /\ line.type = "budgetExhausted" => line.budget \notin {"maxModelCalls", "maxTokens"}

\* A line that moves no gauge moves none.
LEMMA QuietLaw ==
  ASSUME LinesTypeOK, Still \/ \E m \in Lines : Written(m) /\ Quiet(m)
  PROVE  SameGauges
<1>1. CASE Still
  BY <1>1 DEF Still, SameGauges, Checks
<1>2. ASSUME NEW m \in Lines, Written(m), Quiet(m)
      PROVE  SameGauges
  <2>1. page.started \in Nat /\ page.tokens \in Nat
    BY GaugeTypes
  <2>2. /\ page'.verifierTokens = page.verifierTokens
        /\ page'.started = page.started + 0 /\ page'.tokens = page.tokens + 0
        /\ page'.guidance <=> page.guidance
        /\ Len(page'.actions) = Len(page.actions) /\ Cardinality(Checks)' = Cardinality(Checks)
    BY <1>2, GaugeLaw DEF Quiet
  <2>3. page'.breaches = IF m.type = "budgetExhausted" THEN page.breaches \cup {m.budget}
                         ELSE page.breaches
    BY <1>2, GaugeLaw
  <2>4. page'.started = page.started /\ page'.tokens = page.tokens
    BY <2>1, <2>2
  <2> QED BY <1>2, <2>2, <2>3, <2>4 DEF SameGauges, Quiet
<1> QED BY <1>1, <1>2

\* Written or refused.
LEMMA EmitQuiet ==
  ASSUME LinesTypeOK, NEW line \in Lines, Sound(line), Quiet(line), Emit(line)
  PROVE  SameGauges
<1>1. seq' \in Nat
  BY DEF Emit, LinesTypeOK
<1>2. Numbered(line, seq') \in Lines /\ Quiet(Numbered(line, seq'))
  BY <1>1, NumberedLaw DEF Quiet
<1> QED BY <1>2, EmitLaw, QuietLaw

\* An artifact's line and the one that tells its loss are such lines.
LEMMA EmitArtifactQuiet ==
  ASSUME LinesTypeOK, NEW from \in Nat \cup {Absent}, EmitArtifact(from)
  PROVE  SameGauges
<1>1. PICK line \in {ArtifactLine(from), Line("error")} : Written(Numbered(line, seq'))
  BY EmitArtifactLaw
<1>2. line \in Lines /\ line.type \in {"artifactAvailable", "error"}
  BY ArtifactLineLaw, LineLaw DEF HarnessEventTypes
<1>3. seq' \in Nat
  BY <1>1 DEF Written
<1>4. Numbered(line, seq') \in Lines /\ Quiet(Numbered(line, seq'))
  BY <1>2, <1>3, NumberedLaw DEF Quiet
<1> QED BY <1>1, <1>4, QuietLaw

\* So are those known by their type alone.
LEMMA NamedQuiet ==
  ASSUME NEW type \in {"browserContextOpened", "observationTaken", "verificationFinished", "error",
                       "progressStalled", "cancellationRequested"},
         LinesTypeOK, Emit(Line(type))
  PROVE  SameGauges
<1>1. Line(type) \in Lines /\ Sound(Line(type)) /\ Line(type).type = type
  BY LineLaw DEF HarnessEventTypes
<1> QED BY <1>1, EmitQuiet DEF Quiet

\* The steps that move no gauge.
LEMMA QuietSteps ==
  ASSUME ControlTypeOK, LinesTypeOK, Placed, [Next]_vars,
         ~ StartTurn, ~ FinishModelCall, ~ TellCrossing, ~ OpenAction, ~ AskVerifier
  PROVE  SameGauges
<1>1. UNCHANGED lines => SameGauges
  BY LinesKept, QuietLaw
<1>2. CASE UNCHANGED vars \/ Silent
  BY <1>1, <1>2, SilentSteps DEF vars
<1>3. CASE OpenContext \/ ReportFailure \/ Observe \/ BreakContract \/ Decide \/ NoteCancellation
  <2>1. \E type \in {"browserContextOpened", "observationTaken", "verificationFinished", "error",
                     "cancellationRequested"} : Emit(Line(type))
    BY <1>3 DEF OpenContext, ReportFailure, Observe, BreakContract, Decide, NoteCancellation, Tell
  <2> QED BY <2>1, NamedQuiet
<1>4. CASE RequestEvidence \/ AskForMore
  <2>1. \E by \in {"agent", "verifier", "runner"} : Emit(EvidenceLine(by))
    BY <1>4 DEF RequestEvidence, AskForMore, Tell, Placed, ControlTypeOK, InEvaluation
  <2> QED BY <2>1, EvidenceLineLaw, EmitQuiet DEF Quiet
<1>5. CASE TellStall \/ Explain
  <2>1. \/ \E type \in {"progressStalled", "cancellationRequested"} : Emit(Line(type))
        \/ \E name \in {"maxIdleTurns", "attemptTimeout"} : Emit(ExhaustedLine(name))
        \/ UNCHANGED lines
    BY <1>5 DEF TellStall, Explain, Tell
  <2>2. \A name \in {"maxIdleTurns", "attemptTimeout"} :
          /\ ExhaustedLine(name) \in Lines /\ Sound(ExhaustedLine(name))
          /\ Quiet(ExhaustedLine(name))
    BY ExhaustedLineLaw DEF Quiet, BudgetKinds
  <2> QED BY <1>1, <2>1, <2>2, NamedQuiet, EmitQuiet
<1>6. CASE \/ Screenshot \/ CaptureObservation \/ CaptureAfterAction \/ Checkpoint \/ RunCodeCheck
  <2>1. \/ \E from \in Nat \cup {Absent} : EmitArtifact(from)
        \/ Emit(Line("error")) \/ UNCHANGED lines
    BY <1>6 DEF Screenshot, CaptureObservation, CaptureAfterAction, Checkpoint, RunCodeCheck,
         RecordCheckPayload, CheckMisbound, Capture, LinesTypeOK, Absent
  <2> QED BY <1>1, <2>1, EmitArtifactQuiet, NamedQuiet
<1>7. CASE CloseAction \/ Cancel \/ Interrupt
  <2>1. Still \/ EndMove
    BY <1>7, CloseMoves, EmitInterrupted DEF Cancel, Interrupt
  <2> QED BY <2>1, QuietLaw DEF EndMove, Quiet
<1> QED BY <1>2, <1>3, <1>4, <1>5, <1>6, <1>7 DEF Next, Silent

\* Where something was counted and is not told yet, or told and not counted yet.
Counting == {"calling", "answered", "crossing", "opening", "verifying"}

\* The runner's numbers are numbers.
LEMMA NumberTypes ==
  ASSUME ControlTypeOK
  PROVE  /\ budget.modelCalls \in Nat /\ budget.tokensUsed \in Nat /\ budget.verifierTokens \in Nat
         /\ guidance.used \in Nat /\ guidance.notified \in BOOLEAN /\ verifierCalls \in Nat
         /\ Usage \in Nat /\ MaxActions \in Nat
         /\ MaxModelCalls \in Nat /\ MaxTokens \in Nat /\ VerifierReserveTokens \in Nat
BY ActivityAssumption, BudgetsAssumption DEF ControlTypeOK, BudgetStates

\* What was cut short remains so, and what was refused.
LEMMA WholeStep ==
  ASSUME ControlTypeOK, LinesTypeOK, Placed, Next, Whole'
  PROVE  Whole /\ refusals' = refusals
<1>1. refusals = 0 /\ refusals' = 0
  BY Moves DEF Counted, Whole, LinesTypeOK
<1>2. (exit.cancelled => exit'.cancelled) /\ (exit.struck => exit'.struck)
  <2>1. CASE OpenContext \/ ModelFails \/ NextCall \/ Finish \/ RunCodeCheck
    BY <2>1 DEF OpenContext, ModelFails, NextCall, Finish, RunCodeCheck, RecordCheckPayload,
         CheckMisbound, ControlTypeOK
  <2>2. CASE Cancel \/ Interrupt \/ Explain
    BY <2>2 DEF Cancel, Interrupt, Explain, ControlTypeOK
  <2> QED BY <2>1, <2>2, Frames
<1> QED BY <1>1, <1>2 DEF Whole

\* A line that was not refused was written.
LEMMA StillIsNotWhole ==
  ASSUME LinesTypeOK, NEW line \in Lines, Sound(line), Emit(line), refusals' = refusals
  PROVE  /\ Written(Numbered(line, seq')) /\ Numbered(line, seq') \in Lines
         /\ Numbered(line, seq').type = line.type /\ Numbered(line, seq').tokens = line.tokens
         /\ Numbered(line, seq').tool = line.tool
<1>1. refusals + 1 # refusals /\ seq' \in Nat
  BY DEF LinesTypeOK, Emit
<1>2. Written(Numbered(line, seq'))
  BY <1>1, EmitLaw
<1> QED BY <1>1, <1>2, NumberedLaw

\* Steps that count nothing and tell nothing that is counted.
LEMMA GaugesUntouched ==
  ASSUME ControlTypeOK, LinesTypeOK, Gauges, SameGauges, UNCHANGED <<budget, guidance>>,
         pc' \notin Counting
  PROVE  Gauges'
<1>1. Untold' = 0 /\ Unshown' = 0 /\ InCall' = 0 /\ pc' # "crossing"
  BY DEF Counting, Untold, Unshown, InCall, Unopened
<1>2. Untold \in Nat /\ Unshown \in Nat /\ InCall \in Nat
  BY NumberTypes DEF Untold, Unshown, InCall
<1>3. /\ page'.tokens + budget'.verifierTokens + Untold' <= budget'.tokensUsed
      /\ Len(page'.actions) + Unshown' <= guidance'.used + Cardinality(Checks)'
      /\ budget'.modelCalls + InCall' <= MaxModelCalls
  <2>1. /\ page'.tokens = page.tokens /\ Len(page'.actions) = Len(page.actions)
        /\ Cardinality(Checks)' = Cardinality(Checks) /\ budget' = budget /\ guidance' = guidance
    BY DEF SameGauges
  <2>2. /\ page.tokens + budget.verifierTokens + Untold <= budget.tokensUsed
        /\ Len(page.actions) + Unshown <= guidance.used + Cardinality(Checks)
        /\ budget.modelCalls + InCall <= MaxModelCalls
    BY DEF Gauges
  <2>3. /\ page.tokens \in Nat /\ budget.verifierTokens \in Nat /\ budget.tokensUsed \in Nat
        /\ Len(page.actions) \in Nat /\ Cardinality(Checks) \in Nat /\ guidance.used \in Nat
        /\ budget.modelCalls \in Nat /\ MaxModelCalls \in Nat
    BY NumberTypes, GaugeTypes
  <2>4. page'.tokens + budget'.verifierTokens + Untold' <= budget'.tokensUsed
    BY <1>1, <1>2, <2>1, <2>2, <2>3
  <2>5. Len(page'.actions) + Unshown' <= guidance'.used + Cardinality(Checks)'
    BY <1>1, <1>2, <2>1, <2>2, <2>3
  <2>6. budget'.modelCalls + InCall' <= MaxModelCalls
    BY <1>1, <1>2, <2>1, <2>2, <2>3
  <2> QED BY <2>4, <2>5, <2>6
<1>4. /\ page'.verifierTokens = 0 /\ (guidance'.notified <=> guidance'.used > MaxActions)
      /\ page'.guidance => guidance'.notified
  BY DEF SameGauges, Gauges
<1>5. /\ "maxModelCalls" \in page'.breaches => budget'.modelCalls = MaxModelCalls
      /\ "maxTokens" \in page'.breaches =>
           MaxTokens - budget'.tokensUsed <= VerifierReserveTokens
  BY DEF SameGauges, Gauges
<1> QED BY <1>1, <1>3, <1>4, <1>5 DEF Gauges

\* Equal counts stay equal when neither side is counted on.
LEMMA ExactUntouched ==
  ASSUME ControlTypeOK, LinesTypeOK, Exact, SameGauges,
         UNCHANGED <<budget, guidance, verifierCalls>>,
         pc \notin Counting \/ pc = "verifying", pc' \notin Counting, Whole' => Whole
  PROVE  Exact'
<1> SUFFICES ASSUME Whole' PROVE Exact'
  BY DEF Exact
<1>1. /\ Untold = 0 /\ Unshown = 0 /\ pc \notin {"calling", "crossing"}
      /\ Untold' = 0 /\ Unshown' = 0 /\ pc' \notin {"calling", "crossing"}
  BY DEF Counting, Untold, Unshown, Unopened
<1> QED BY <1>1 DEF Exact, SameGauges

\* The steps that do so.
LEMMA UntouchedSteps ==
  ASSUME ControlTypeOK, LinesTypeOK, Placed, Gauges, Exact,
         \/ OpenContext \/ ReportFailure \/ LeaveLoop \/ TellStall \/ NextCall \/ TakeFlight
         \/ Observe \/ Screenshot \/ Check \/ Finish \/ CaptureObservation \/ BreakContract
         \/ EndAction \/ CloseAction \/ CaptureAfterAction \/ RequestEvidence \/ Checkpoint
         \/ RunCodeCheck \/ VerifierFails \/ AskForMore \/ Decide \/ FinalPass \/ NoteCancellation
         \/ Explain
  PROVE  Gauges' /\ Exact'
<1>1. /\ UNCHANGED <<budget, guidance, verifierCalls>>
      /\ pc \notin Counting \/ pc = "verifying"
      /\ pc' \notin Counting
      /\ ~ StartTurn /\ ~ FinishModelCall /\ ~ TellCrossing /\ ~ OpenAction /\ ~ AskVerifier
  <2>1. CASE OpenContext \/ ReportFailure \/ LeaveLoop \/ TellStall \/ NextCall \/ TakeFlight
    BY <2>1 DEF OpenContext, ReportFailure, LeaveLoop, TellStall, NextCall, TakeFlight, Tell,
         Counting, StartTurn, FinishModelCall, TellCrossing, OpenAction, AskVerifier
  <2>2. CASE Observe \/ Screenshot \/ Check \/ Finish \/ CaptureObservation \/ BreakContract
    BY <2>2 DEF Observe, Screenshot, Check, Finish, CaptureObservation, BreakContract, Tell,
         Capture,
         Counting, StartTurn, FinishModelCall, TellCrossing, OpenAction, AskVerifier
  <2>3. CASE EndAction \/ CloseAction \/ CaptureAfterAction \/ RequestEvidence \/ Checkpoint
    BY <2>3 DEF EndAction, CloseAction, CaptureAfterAction, RequestEvidence, Checkpoint, Tell,
         Capture, Counting, StartTurn, FinishModelCall, TellCrossing, OpenAction, AskVerifier
  <2>4. CASE RunCodeCheck \/ VerifierFails \/ AskForMore \/ Decide \/ FinalPass
    BY <2>4 DEF RunCodeCheck, VerifierFails, AskForMore, Decide, Evaluated, FinalPass, Tell,
         Counting, StartTurn, FinishModelCall, TellCrossing, OpenAction, AskVerifier
  <2>5. CASE NoteCancellation \/ Explain
    BY <2>5 DEF NoteCancellation, Explain, Tell,
         Counting, StartTurn, FinishModelCall, TellCrossing, OpenAction, AskVerifier
  <2> QED BY <2>1, <2>2, <2>3, <2>4, <2>5
<1>2. Next
  BY DEF Next
<1>3. SameGauges /\ (Whole' => Whole)
  BY <1>1, <1>2, QuietSteps, WholeStep
<1> QED BY <1>1, <1>3, GaugesUntouched, ExactUntouched

\* The numbers the gauges are made of, taken one by one.
LEMMA Numbers ==
  ASSUME ControlTypeOK, LinesTypeOK, Gauges
  PROVE  /\ page.tokens \in Nat /\ page.started \in Nat
         /\ budget.verifierTokens \in Nat /\ budget.tokensUsed \in Nat /\ budget.modelCalls \in Nat
         /\ verifierCalls \in Nat /\ guidance.used \in Nat
         /\ Len(page.actions) \in Nat /\ Cardinality(Checks) \in Nat
         /\ Usage \in Nat /\ MaxActions \in Nat /\ MaxModelCalls \in Nat /\ MaxTokens \in Nat
         /\ VerifierReserveTokens \in Nat
         /\ page.tokens + budget.verifierTokens + Untold <= budget.tokensUsed
         /\ Len(page.actions) + Unshown <= guidance.used + Cardinality(Checks)
         /\ budget.modelCalls + InCall <= MaxModelCalls
BY NumberTypes, GaugeTypes DEF Gauges

\* What a refusal names is used up.
LEMMA DenialLaw ==
  ASSUME ControlTypeOK, LinesTypeOK, Gauges, NEW role \in Roles,
         ~ CanStartModelCall(role, budget, FALSE)
  PROVE  /\ Denial(budget, FALSE) = "maxModelCalls" => budget.modelCalls = MaxModelCalls
         /\ Denial(budget, FALSE) = "maxTokens" =>
              MaxTokens - budget.tokensUsed <= VerifierReserveTokens
<1>1. /\ budget.tokensUsed \in Nat /\ budget.modelCalls \in Nat /\ budget.verifierTokens \in Nat
      /\ MaxModelCalls \in Nat /\ MaxTokens \in Nat /\ VerifierReserveTokens \in Nat
      /\ budget.modelCalls + InCall <= MaxModelCalls /\ InCall \in {0, 1}
  BY Numbers DEF InCall
<1>2. Denial(budget, FALSE) = "maxModelCalls" => budget.modelCalls = MaxModelCalls
  <2>1. Denial(budget, FALSE) = "maxModelCalls" => budget.modelCalls >= MaxModelCalls
    BY DEF Denial
  <2> QED BY <1>1, <2>1
<1>3. ASSUME Denial(budget, FALSE) = "maxTokens"
      PROVE  MaxTokens - budget.tokensUsed <= VerifierReserveTokens
  <2>1. ~ (budget.modelCalls >= MaxModelCalls)
    BY <1>3 DEF Denial
  <2>2. budget.modelCalls < MaxModelCalls
    BY <1>1, <2>1
  <2>3. CASE role = "browser"
    <3>1. ~ (budget.tokensUsed < MaxTokens - VerifierReserveTokens)
      BY <2>2, <2>3 DEF CanStartModelCall, TokenCeiling
    <3> QED BY <1>1, <3>1
  <2>4. CASE role = "verifier"
    <3>1. ~ (VerifierTokensLeft(budget) > 0)
      BY <2>2, <2>4 DEF CanStartModelCall
    <3> QED BY <1>1, <3>1 DEF VerifierTokensLeft
  <2> QED BY <2>3, <2>4 DEF Roles
<1> QED BY <1>2, <1>3

\* The two gates: a call starts, or a budget is told as used up.
LEMMA GateSteps ==
  ASSUME ControlTypeOK, LinesTypeOK, Placed, Gauges, Exact, StartTurn \/ AskVerifier
  PROVE  Gauges' /\ Exact'
<1>1. /\ UNCHANGED <<budget, guidance, verifierCalls>> /\ pc \in {"loop", "judging"}
      /\ pc' \in {"calling", "verifying", "pass", "deciding"}
  BY DEF StartTurn, AskVerifier, Tell
<1>2. Untold = 0 /\ Unshown = 0 /\ InCall = 0 /\ Untold' = 0 /\ Unshown' = 0
  BY <1>1 DEF Untold, Unshown, InCall, Unopened
<1>3. Next /\ (Whole' => Whole /\ refusals' = refusals)
  BY WholeStep DEF Next
<1>4. CASE pc' \in {"pass", "deciding"}
  <2> DEFINE name == Denial(budget, FALSE)
             line == ExhaustedLine(name)
  <2>1. Emit(line) /\ \E role \in Roles : ~ CanStartModelCall(role, budget, FALSE)
    BY <1>4 DEF StartTurn, AskVerifier, Tell, Roles
  <2>2. name \in {"maxModelCalls", "maxTokens"} \cap BudgetKinds
    BY DenialIsKnown
  <2>3. line \in Lines /\ Sound(line) /\ line.type = "budgetExhausted" /\ line.budget = name
    BY <2>2, ExhaustedLineLaw
  <2>4. /\ name = "maxModelCalls" => budget.modelCalls = MaxModelCalls
        /\ name = "maxTokens" => MaxTokens - budget.tokensUsed <= VerifierReserveTokens
    BY <2>1, DenialLaw
  <2> HIDE DEF line, name
  <2>5. /\ page'.tokens = page.tokens /\ page'.verifierTokens = page.verifierTokens
        /\ page'.started = page.started /\ (page'.guidance <=> page.guidance)
        /\ Len(page'.actions) = Len(page.actions) /\ Cardinality(Checks)' = Cardinality(Checks)
        /\ page'.breaches \subseteq page.breaches \cup {name}
    <3>1. CASE Still
      BY <3>1 DEF Still, Checks
    <3>2. CASE Written(Numbered(line, seq'))
      <4> DEFINE m == Numbered(line, seq')
      <4>1. m \in Lines /\ m.type = "budgetExhausted" /\ m.budget = name
        <5>1. seq' \in Nat
          BY <2>1 DEF Emit, LinesTypeOK
        <5> QED BY <2>3, <5>1, NumberedLaw
      <4> HIDE DEF m
      <4>2. /\ page'.tokens = page.tokens + 0 /\ page'.verifierTokens = page.verifierTokens
            /\ page'.started = page.started + 0 /\ (page'.guidance <=> page.guidance)
            /\ Len(page'.actions) = Len(page.actions)
            /\ Cardinality(Checks)' = Cardinality(Checks)
            /\ page'.breaches = page.breaches \cup {name}
        BY <3>2, <4>1, GaugeLaw DEF m
      <4>3. page.tokens + 0 = page.tokens /\ page.started + 0 = page.started
        BY GaugeTypes
      <4> QED BY <4>2, <4>3
    <3> QED BY <2>1, <2>3, <3>1, <3>2, EmitLaw
  <2>6. InCall' = 0 /\ pc' \notin {"calling", "crossing"}
    BY <1>4 DEF InCall
  <2>7. Gauges'
    BY <1>1, <1>2, <2>4, <2>5, <2>6 DEF Gauges
  <2>8. Exact'
    BY <1>1, <1>2, <1>3, <2>5, <2>6 DEF Exact
  <2> QED BY <2>7, <2>8
<1>5. CASE pc' \in {"calling", "verifying"}
  <2>1. InCall' = 1 /\ budget.modelCalls + 1 <= MaxModelCalls
    <3>1. budget.modelCalls < MaxModelCalls
      BY <1>5 DEF StartTurn, AskVerifier, Tell, CanStartModelCall
    <3> QED BY <1>5, <3>1, Numbers DEF InCall
  <2>2. CASE pc' = "verifying"
    <3>1. UNCHANGED lines
      BY <2>2 DEF StartTurn, AskVerifier, Tell
    <3>2. SameGauges
      BY <3>1, LinesKept, QuietLaw
    <3>3. Gauges'
      BY <1>1, <1>2, <2>1, <2>2, <3>2 DEF Gauges, SameGauges
    <3>4. Exact'
      BY <1>1, <1>2, <1>3, <2>2, <3>2 DEF Exact, SameGauges
    <3> QED BY <3>3, <3>4
  <2>3. CASE pc' = "calling"
    <3> DEFINE line == CallLine("modelCallStarted", "browser", 0)
    <3>1. Emit(line)
      BY <2>3 DEF StartTurn, AskVerifier, Tell
    <3>2. line \in Lines /\ Sound(line) /\ line.type = "modelCallStarted"
      BY CallLineLaw
    <3> HIDE DEF line
    <3>3. /\ page'.tokens = page.tokens /\ page'.verifierTokens = page.verifierTokens
          /\ (page'.guidance <=> page.guidance)
          /\ Len(page'.actions) = Len(page.actions) /\ Cardinality(Checks)' = Cardinality(Checks)
          /\ page'.breaches = page.breaches
          /\ refusals' = refusals => page'.started = page.started + 1
      <4>1. CASE Still /\ refusals' = refusals + 1
        <5>1. refusals' # refusals
          BY <4>1 DEF LinesTypeOK
        <5> QED BY <4>1, <5>1 DEF Still, Checks
      <4>2. CASE Written(Numbered(line, seq'))
        <5> DEFINE m == Numbered(line, seq')
        <5>1. m \in Lines /\ m.type = "modelCallStarted"
          <6>1. seq' \in Nat
            BY <3>1 DEF Emit, LinesTypeOK
          <6> QED BY <3>2, <6>1, NumberedLaw
        <5> HIDE DEF m
        <5>2. /\ page'.tokens = page.tokens + 0 /\ page'.verifierTokens = page.verifierTokens
              /\ page'.started = page.started + 1 /\ (page'.guidance <=> page.guidance)
              /\ Len(page'.actions) = Len(page.actions)
              /\ Cardinality(Checks)' = Cardinality(Checks)
              /\ page'.breaches = page.breaches
          BY <4>2, <5>1, GaugeLaw DEF m
        <5>3. page.tokens + 0 = page.tokens
          BY GaugeTypes
        <5> QED BY <5>2, <5>3
      <4> QED BY <3>1, <3>2, <4>1, <4>2, EmitLaw
    <3>4. Gauges'
      BY <1>1, <1>2, <2>1, <2>3, <3>3 DEF Gauges
    <3>5. Whole' => page'.started + verifierCalls' = budget'.modelCalls + 1
      <4> SUFFICES ASSUME Whole' PROVE page'.started + verifierCalls' = budget'.modelCalls + 1
        OBVIOUS
      <4>1. page.started + verifierCalls = budget.modelCalls + 0
        BY <1>1, <1>3 DEF Exact
      <4>2. /\ page'.started = page.started + 1 /\ verifierCalls' = verifierCalls
            /\ budget'.modelCalls = budget.modelCalls
        BY <1>1, <1>3, <3>3
      <4>3. page.started \in Nat /\ verifierCalls \in Nat /\ budget.modelCalls \in Nat
        BY Numbers
      <4> QED BY <4>1, <4>2, <4>3
    <3>6. Exact'
      BY <1>1, <1>2, <1>3, <2>3, <3>3, <3>5 DEF Exact
    <3> QED BY <3>4, <3>6
  <2> QED BY <1>5, <2>2, <2>3
<1> QED BY <1>1, <1>4, <1>5

\* A call that was answered is counted with what it cost.
LEMMA AnswerSteps ==
  ASSUME ControlTypeOK, LinesTypeOK, Placed, Gauges, Exact, ModelAnswers \/ VerifierAnswers
  PROVE  Gauges' /\ Exact'
<1>1. Next /\ (Whole' => Whole) /\ UNCHANGED lines /\ UNCHANGED guidance
  BY WholeStep DEF Next, ModelAnswers, VerifierAnswers
<1>2. SameGauges
  BY <1>1, LinesKept, QuietLaw
<1>3. /\ budget'.modelCalls = budget.modelCalls + 1
      /\ budget'.tokensUsed = budget.tokensUsed + Usage
      /\ ModelAnswers => budget'.verifierTokens = budget.verifierTokens + 0
      /\ VerifierAnswers => budget'.verifierTokens = budget.verifierTokens + Usage
  BY DEF ModelAnswers, VerifierAnswers, ChargeTokens, RecordModelCall, ControlTypeOK, BudgetStates
<1>4. /\ Untold = 0 /\ Unshown = 0 /\ InCall = 1 /\ InCall' = 0 /\ Unshown' = 0
      /\ pc' \notin {"calling", "crossing"}
  BY DEF ModelAnswers, VerifierAnswers, Untold, Unshown, InCall, Unopened
<1>5. /\ page.tokens \in Nat /\ page.started \in Nat
      /\ budget.verifierTokens \in Nat /\ budget.tokensUsed \in Nat /\ budget.modelCalls \in Nat
      /\ verifierCalls \in Nat /\ Usage \in Nat /\ MaxModelCalls \in Nat /\ MaxTokens \in Nat
      /\ VerifierReserveTokens \in Nat
      /\ page.tokens + budget.verifierTokens + Untold <= budget.tokensUsed
      /\ budget.modelCalls + InCall <= MaxModelCalls
  BY Numbers
<1>6. /\ ModelAnswers => Untold' = Usage
      /\ VerifierAnswers => Untold' = 0
  BY DEF ModelAnswers, VerifierAnswers, Untold
<1>7. budget'.verifierTokens + Untold' = budget.verifierTokens + Usage
  BY <1>3, <1>5, <1>6
<1>8. budget'.verifierTokens \in Nat /\ Untold' \in Nat
  BY <1>3, <1>5, <1>6
<1>9. page'.tokens = page.tokens /\ page'.started = page.started
  BY <1>2 DEF SameGauges
<1>10. page'.tokens + budget'.verifierTokens + Untold' <= budget'.tokensUsed
  BY <1>3, <1>4, <1>5, <1>7, <1>8, <1>9
<1>11. budget'.modelCalls + InCall' <= MaxModelCalls /\ budget.modelCalls # MaxModelCalls
  BY <1>3, <1>4, <1>5
<1>12. MaxTokens - budget.tokensUsed <= VerifierReserveTokens =>
         MaxTokens - budget'.tokensUsed <= VerifierReserveTokens
  BY <1>3, <1>5
<1>13. Gauges'
  BY <1>1, <1>2, <1>4, <1>10, <1>11, <1>12 DEF Gauges, SameGauges
<1>14. ASSUME Whole'
       PROVE  /\ page'.tokens + budget'.verifierTokens + Untold' = budget'.tokensUsed
              /\ page'.started + verifierCalls' = budget'.modelCalls + 0
  <2>1. /\ page.tokens + budget.verifierTokens + Untold = budget.tokensUsed
        /\ page.started + verifierCalls
             = budget.modelCalls + IF pc = "calling" THEN 1 ELSE 0
    BY <1>1, <1>14 DEF Exact
  <2>2. page'.tokens + budget'.verifierTokens + Untold' = budget'.tokensUsed
    BY <1>3, <1>4, <1>5, <1>7, <1>8, <1>9, <2>1
  <2>3. CASE ModelAnswers
    <3>1. pc = "calling" /\ verifierCalls' = verifierCalls
      BY <2>3 DEF ModelAnswers
    <3>2. page.started + verifierCalls = budget.modelCalls + 1
      BY <2>1, <3>1
    <3> QED BY <1>3, <1>5, <1>9, <2>2, <3>1, <3>2
  <2>4. CASE VerifierAnswers
    <3>1. pc # "calling" /\ verifierCalls' = verifierCalls + 1
      BY <2>4 DEF VerifierAnswers
    <3>2. page.started + verifierCalls = budget.modelCalls + 0
      BY <2>1, <3>1
    <3>3. page.started + (verifierCalls + 1) = budget.modelCalls + 1
      <4>1. page.started \in Nat /\ verifierCalls \in Nat /\ budget.modelCalls \in Nat
        BY <1>5
      <4> QED BY <3>2, <4>1
    <3>4. page'.started + verifierCalls' = budget'.modelCalls
      BY <1>3, <1>9, <3>1, <3>3
    <3>5. budget'.modelCalls + 0 = budget'.modelCalls
      BY <1>3, <1>5
    <3> QED BY <2>2, <3>4, <3>5
  <2> QED BY <2>3, <2>4
<1>15. Exact'
  <2>1. ASSUME Whole'
        PROVE  /\ Len(page'.actions) + Unshown' = guidance'.used + Cardinality(Checks)'
               /\ page'.guidance <=> guidance'.notified
    <3>1. /\ Len(page.actions) + Unshown = guidance.used + Cardinality(Checks)
          /\ page.guidance <=> guidance.notified
          /\ guidance' = guidance
      BY <1>1, <1>4, <2>1 DEF Exact, ModelAnswers, VerifierAnswers
    <3> QED BY <1>2, <1>4, <3>1 DEF SameGauges
  <2> QED BY <1>4, <1>14, <2>1 DEF Exact
<1> QED BY <1>13, <1>15

\* A call that failed is counted, and costs nothing; an interrupted one too, and nothing is whole.
LEMMA FailSteps ==
  ASSUME ControlTypeOK, LinesTypeOK, Placed, Gauges, Exact, ModelFails \/ Cancel \/ Interrupt
  PROVE  Gauges' /\ Exact'
<1>1. Next /\ UNCHANGED guidance
  BY DEF Next, ModelFails, Cancel, Interrupt
<1>2. SameGauges
  <2>1. pc' \in {"failing", "noting", "explaining"}
    BY DEF ModelFails, Cancel, Interrupt
  <2>2. ~ StartTurn /\ ~ FinishModelCall /\ ~ TellCrossing /\ ~ OpenAction /\ ~ AskVerifier
    BY <2>1 DEF StartTurn, FinishModelCall, TellCrossing, OpenAction, AskVerifier, Tell
  <2> QED BY <1>1, <2>2, QuietSteps
<1>3. /\ budget'.tokensUsed = budget.tokensUsed
      /\ budget'.verifierTokens = budget.verifierTokens
      /\ budget'.modelCalls = budget.modelCalls + IF pc = "calling" /\ ~ Interrupt THEN 1 ELSE 0
  BY DEF ModelFails, Cancel, Interrupt, RecordModelCall, ControlTypeOK, BudgetStates
<1>4. Untold' = 0 /\ InCall' = 0 /\ Unshown' = 0 /\ pc' \notin {"calling", "crossing"}
  BY DEF ModelFails, Cancel, Interrupt, Untold, Unshown, InCall, Unopened
<1>5. /\ page.tokens \in Nat /\ page.started \in Nat
      /\ budget.verifierTokens \in Nat /\ budget.tokensUsed \in Nat /\ budget.modelCalls \in Nat
      /\ MaxModelCalls \in Nat /\ guidance.used \in Nat
      /\ Len(page.actions) \in Nat /\ Cardinality(Checks) \in Nat
      /\ page.tokens + budget.verifierTokens + Untold <= budget.tokensUsed
      /\ Len(page.actions) + Unshown <= guidance.used + Cardinality(Checks)
      /\ budget.modelCalls + InCall <= MaxModelCalls
  BY Numbers
<1>6. Untold \in Nat /\ Unshown \in Nat
  BY Numbers DEF Untold, Unshown
<1>7. /\ page'.tokens = page.tokens /\ page'.started = page.started
      /\ Len(page'.actions) = Len(page.actions) /\ Cardinality(Checks)' = Cardinality(Checks)
  BY <1>2 DEF SameGauges
<1>8. page'.tokens + budget'.verifierTokens + Untold' <= budget'.tokensUsed
  BY <1>3, <1>4, <1>5, <1>6, <1>7
<1>9. Len(page'.actions) + Unshown' <= guidance.used + Cardinality(Checks)'
  BY <1>4, <1>5, <1>6, <1>7
<1>10. /\ budget'.modelCalls + InCall' <= MaxModelCalls
       /\ budget.modelCalls = MaxModelCalls => budget'.modelCalls = MaxModelCalls
  <2>1. CASE pc = "calling"
    BY <1>3, <1>4, <1>5, <2>1 DEF InCall
  <2>2. CASE pc # "calling"
    <3>1. InCall \in {0, 1}
      BY DEF InCall
    <3> QED BY <1>3, <1>4, <1>5, <2>2, <3>1
  <2> QED BY <2>1, <2>2
<1>11. Gauges'
  BY <1>1, <1>2, <1>3, <1>4, <1>8, <1>9, <1>10 DEF Gauges, SameGauges
<1>12. Exact'
  <2>1. ASSUME Whole' PROVE ModelFails /\ Whole
    <3>1. Whole /\ ~ exit'.cancelled /\ ~ exit'.struck
      BY <1>1, <2>1, WholeStep DEF Whole
    <3> QED BY <3>1 DEF Cancel, Interrupt, ControlTypeOK
  <2>2. ASSUME ModelFails, Whole
        PROVE  /\ page'.tokens + budget'.verifierTokens + Untold' = budget'.tokensUsed
               /\ Len(page'.actions) + Unshown' = guidance'.used + Cardinality(Checks)'
               /\ page'.started + verifierCalls' = budget'.modelCalls + 0
               /\ page'.guidance <=> guidance'.notified
    <3>1. pc = "calling" /\ UNCHANGED <<guidance, verifierCalls>> /\ Untold = 0 /\ Unshown = 0
      BY <2>2 DEF ModelFails, Untold, Unshown, Unopened
    <3>2. /\ page.tokens + budget.verifierTokens + 0 = budget.tokensUsed
          /\ Len(page.actions) + 0 = guidance.used + Cardinality(Checks)
          /\ page.started + verifierCalls = budget.modelCalls + 1
          /\ page.guidance <=> guidance.notified
      BY <2>2, <3>1 DEF Exact
    <3>3. budget'.modelCalls = budget.modelCalls + 1 /\ verifierCalls \in Nat
      BY <2>2, Numbers DEF ModelFails, RecordModelCall, ControlTypeOK, BudgetStates
    <3>4. page'.started + verifierCalls' = budget'.modelCalls + 0
      BY <1>5, <1>7, <3>1, <3>2, <3>3
    <3>5. page'.tokens + budget'.verifierTokens + Untold' = budget'.tokensUsed
      BY <1>3, <1>4, <1>7, <3>2
    <3>6. Len(page'.actions) + Unshown' = guidance'.used + Cardinality(Checks)'
      BY <1>4, <1>7, <3>1, <3>2
    <3>7. page'.guidance <=> guidance'.notified
      BY <1>2, <3>1, <3>2 DEF SameGauges
    <3> QED BY <3>4, <3>5, <3>6, <3>7
  <2> QED BY <1>4, <2>1, <2>2 DEF Exact
<1> QED BY <1>11, <1>12

\* An answered browsing call is told, with what it cost.
LEMMA FinishStep ==
  ASSUME ControlTypeOK, LinesTypeOK, Placed, Gauges, Exact, FinishModelCall
  PROVE  Gauges' /\ Exact'
<1> DEFINE line == CallLine("modelCallFinished", "browser", Usage)
<1>1. /\ Next /\ Emit(line) /\ UNCHANGED <<budget, guidance, verifierCalls>> /\ pc = "answered"
      /\ pc' \notin Counting
  BY DEF Next, FinishModelCall, Tell, Counting
<1>2. /\ line \in Lines /\ Sound(line) /\ line.type = "modelCallFinished" /\ line.tokens = Usage
      /\ line.role = "browser"
  BY CallLineLaw, NumberTypes
<1> HIDE DEF line
<1>3. /\ Untold = Usage /\ Unshown = 0 /\ InCall = 0
      /\ Untold' = 0 /\ Unshown' = 0 /\ InCall' = 0 /\ pc' \notin {"calling", "crossing"}
  BY <1>1 DEF Counting, Untold, Unshown, InCall, Unopened
<1>4. /\ page'.verifierTokens = page.verifierTokens
      /\ page'.started = page.started /\ (page'.guidance <=> page.guidance)
      /\ Len(page'.actions) = Len(page.actions) /\ Cardinality(Checks)' = Cardinality(Checks)
      /\ page'.breaches = page.breaches
      /\ page'.tokens \in {page.tokens, page.tokens + Usage}
      /\ refusals' = refusals => page'.tokens = page.tokens + Usage
  <2>1. CASE Still /\ refusals' = refusals + 1
    <3>1. refusals' # refusals
      BY <2>1 DEF LinesTypeOK
    <3> QED BY <2>1, <3>1 DEF Still, Checks
  <2>2. CASE Written(Numbered(line, seq'))
    <3> DEFINE m == Numbered(line, seq')
    <3>1. m \in Lines /\ m.type = "modelCallFinished" /\ m.tokens = Usage /\ m.role # "verifier"
      <4>1. seq' \in Nat
        BY <1>1 DEF Emit, LinesTypeOK
      <4> QED BY <1>2, <4>1, NumberedLaw
    <3> HIDE DEF m
    <3>2. /\ page'.tokens = page.tokens + Usage /\ page'.verifierTokens = page.verifierTokens
          /\ page'.started = page.started + 0 /\ (page'.guidance <=> page.guidance)
          /\ Len(page'.actions) = Len(page.actions)
          /\ Cardinality(Checks)' = Cardinality(Checks)
          /\ page'.breaches = page.breaches
      BY <2>2, <3>1, GaugeLaw DEF m
    <3>3. page.started + 0 = page.started
      BY GaugeTypes
    <3> QED BY <3>2, <3>3
  <2> QED BY <1>1, <1>2, <2>1, <2>2, EmitLaw
<1>5. /\ page.tokens \in Nat /\ budget.verifierTokens \in Nat /\ budget.tokensUsed \in Nat
      /\ Usage \in Nat
      /\ page.tokens + budget.verifierTokens + Usage <= budget.tokensUsed
  BY <1>3, Numbers
<1>6. page'.tokens + budget'.verifierTokens + Untold' <= budget'.tokensUsed
  BY <1>1, <1>3, <1>4, <1>5
<1>7. Gauges'
  BY <1>1, <1>3, <1>4, <1>6 DEF Gauges
<1>8. Exact'
  <2>1. ASSUME Whole'
        PROVE  page'.tokens + budget'.verifierTokens + Untold' = budget'.tokensUsed
    <3>1. page'.tokens = page.tokens + Usage
      BY <1>1, <1>4, <2>1, WholeStep
    <3>2. page.tokens + budget.verifierTokens + Usage = budget.tokensUsed
      BY <1>1, <1>3, <2>1, WholeStep DEF Exact
    <3>3. budget' = budget
      BY <1>1
    <3> QED BY <1>3, <1>5, <3>1, <3>2, <3>3
  <2>2. ASSUME Whole'
        PROVE  /\ Len(page'.actions) + Unshown' = guidance'.used + Cardinality(Checks)'
               /\ page'.started + verifierCalls' = budget'.modelCalls + 0
               /\ page'.guidance <=> guidance'.notified
    <3>1. /\ Len(page.actions) + Unshown = guidance.used + Cardinality(Checks)
          /\ page.started + verifierCalls = budget.modelCalls + 0
          /\ page.guidance <=> guidance.notified
      BY <1>1, <2>2, WholeStep DEF Exact
    <3> QED BY <1>1, <1>3, <1>4, <3>1
  <2> QED BY <1>3, <2>1, <2>2 DEF Exact
<1> QED BY <1>7, <1>8

\* A tool call is counted before anything of it is told.
LEMMA DispatchStep ==
  ASSUME ControlTypeOK, LinesTypeOK, Placed, Gauges, Exact, Dispatch
  PROVE  Gauges' /\ Exact'
<1>1. /\ Next /\ UNCHANGED lines /\ UNCHANGED <<budget, verifierCalls>> /\ pc = "call"
      /\ pc' \in {"turn", "crossing", "opening"}
  BY DEF Next, Dispatch
<1>2. SameGauges /\ (Whole' => Whole)
  BY <1>1, LinesKept, QuietLaw, WholeStep
<1>3. /\ Untold = 0 /\ Unshown = 0 /\ InCall = 0 /\ Untold' = 0 /\ InCall' = 0
  BY <1>1 DEF Untold, Unshown, InCall, Unopened
<1>4. CASE UNCHANGED <<guidance, act>> /\ pc' = "turn"
  <2>1. pc' \notin Counting /\ pc \notin Counting
    BY <1>1, <1>4 DEF Counting
  <2> QED BY <1>1, <1>2, <1>4, <2>1, GaugesUntouched, ExactUntouched
<1>5. CASE ~ (UNCHANGED <<guidance, act>> /\ pc' = "turn")
  <2>1. PICK name \in Tools :
          /\ act' = [id |-> act.id + 1, tool |-> name, inFlight |-> FALSE, outcome |-> "none",
                     broken |-> FALSE]
          /\ guidance' = RecordAction(name)
          /\ pc' = IF guidance'.notified # guidance.notified THEN "crossing" ELSE "opening"
    BY <1>5 DEF Dispatch
  <2>2. Unshown' = IF name \in BrowserTools THEN 1 ELSE 0
    BY <2>1 DEF Unshown, Unopened
  <2>3. guidance'.used = guidance.used + Unshown'
    BY <2>1, <2>2, NumberTypes DEF RecordAction
  <2>4. /\ guidance.used \in Nat /\ MaxActions \in Nat /\ Unshown' \in Nat
        /\ Len(page.actions) \in Nat /\ Cardinality(Checks) \in Nat
        /\ Len(page.actions) + 0 <= guidance.used + Cardinality(Checks)
    BY <1>3, <2>2, Numbers
  <2>5. Len(page'.actions) = Len(page.actions) /\ Cardinality(Checks)' = Cardinality(Checks)
    BY <1>2 DEF SameGauges
  <2>6. Len(page'.actions) + Unshown' <= guidance'.used + Cardinality(Checks)'
    BY <2>3, <2>4, <2>5
  <2>7. /\ guidance'.notified <=> guidance'.used > MaxActions
        /\ guidance.notified => guidance'.notified
        /\ pc' = "crossing" => guidance'.notified
        /\ pc' # "crossing" => (guidance'.notified <=> guidance.notified)
    <3>1. guidance.notified <=> guidance.used > MaxActions
      BY DEF Gauges
    <3>2. CASE name \in BrowserTools
      <4>1. /\ guidance'.used = guidance.used + 1
            /\ guidance'.notified <=> guidance.notified \/ guidance.used + 1 > MaxActions
        BY <2>1, <3>2 DEF RecordAction
      <4>2. guidance.used > MaxActions => guidance.used + 1 > MaxActions
        BY <2>4
      <4>3. guidance.notified \in BOOLEAN /\ guidance'.notified \in BOOLEAN
        BY <2>1, <3>2, NumberTypes DEF RecordAction
      <4> QED BY <2>1, <3>1, <4>1, <4>2, <4>3
    <3>3. CASE name \notin BrowserTools
      BY <2>1, <3>1, <3>3 DEF RecordAction
    <3> QED BY <3>2, <3>3
  <2>8. Gauges'
    BY <1>1, <1>2, <1>3, <2>6, <2>7 DEF Gauges, SameGauges
  <2>9. ASSUME Whole'
        PROVE  Len(page'.actions) + Unshown' = guidance'.used + Cardinality(Checks)'
    <3>1. Len(page.actions) + 0 = guidance.used + Cardinality(Checks)
      BY <1>2, <1>3, <2>9 DEF Exact
    <3> QED BY <2>3, <2>4, <2>5, <3>1
  <2>10. ASSUME Whole'
         PROVE  /\ page'.tokens + budget'.verifierTokens + Untold' = budget'.tokensUsed
                /\ page'.started + verifierCalls' = budget'.modelCalls + 0
                /\ page'.guidance <=> guidance.notified
    <3>1. /\ page.tokens + budget.verifierTokens + Untold = budget.tokensUsed
          /\ page.started + verifierCalls = budget.modelCalls + 0
          /\ page.guidance <=> guidance.notified
      BY <1>1, <1>2, <2>10 DEF Exact
    <3> QED BY <1>1, <1>2, <1>3, <3>1 DEF SameGauges
  <2>11. pc' # "calling" /\ pc' \in {"crossing", "opening"}
    BY <2>1
  <2>12. ASSUME Whole', pc' = "crossing"
         PROVE  ~ page'.guidance
    <3>1. guidance'.notified # guidance.notified
      BY <2>1, <2>12
    <3>2. guidance.notified \in BOOLEAN /\ guidance'.notified \in BOOLEAN
      BY <2>1, NumberTypes DEF RecordAction
    <3>3. ~ guidance.notified
      BY <2>7, <2>12, <3>1, <3>2
    <3> QED BY <2>10, <2>12, <3>3
  <2>13. Exact'
    <3>1. ASSUME Whole'
          PROVE  page'.guidance <=> guidance'.notified /\ pc' # "crossing"
      BY <2>7, <2>10, <2>12, <3>1
    <3> QED BY <2>9, <2>10, <2>11, <3>1 DEF Exact
  <2> QED BY <2>8, <2>13
<1> QED BY <1>4, <1>5

\* The first crossing is told once, when it was just counted.
LEMMA CrossingStep ==
  ASSUME ControlTypeOK, LinesTypeOK, Placed, Gauges, Exact, TellCrossing
  PROVE  Gauges' /\ Exact'
<1> DEFINE line == Line("actionGuidanceExceeded")
<1>1. /\ Next /\ Emit(line) /\ UNCHANGED <<budget, guidance, verifierCalls, act>>
      /\ pc = "crossing" /\ pc' = "opening"
  BY DEF Next, TellCrossing, Tell
<1>2. line \in Lines /\ Sound(line) /\ line.type = "actionGuidanceExceeded"
  BY LineLaw DEF HarnessEventTypes
<1> HIDE DEF line
<1>3. /\ Untold = 0 /\ InCall = 0 /\ Untold' = 0 /\ InCall' = 0 /\ Unshown' = Unshown
  BY <1>1 DEF Untold, Unshown, InCall, Unopened
<1>4. /\ page'.verifierTokens = page.verifierTokens /\ page'.tokens = page.tokens
      /\ page'.started = page.started
      /\ Len(page'.actions) = Len(page.actions) /\ Cardinality(Checks)' = Cardinality(Checks)
      /\ page'.breaches = page.breaches
      /\ refusals' = refusals => page'.guidance
  <2>1. CASE Still /\ refusals' = refusals + 1
    <3>1. refusals' # refusals
      BY <2>1 DEF LinesTypeOK
    <3> QED BY <2>1, <3>1 DEF Still, Checks
  <2>2. CASE Written(Numbered(line, seq'))
    <3> DEFINE m == Numbered(line, seq')
    <3>1. m \in Lines /\ m.type = "actionGuidanceExceeded"
      <4>1. seq' \in Nat
        BY <1>1 DEF Emit, LinesTypeOK
      <4> QED BY <1>2, <4>1, NumberedLaw
    <3> HIDE DEF m
    <3>2. /\ page'.tokens = page.tokens + 0 /\ page'.verifierTokens = page.verifierTokens
          /\ page'.started = page.started + 0 /\ page'.guidance
          /\ Len(page'.actions) = Len(page.actions)
          /\ Cardinality(Checks)' = Cardinality(Checks)
          /\ page'.breaches = page.breaches
      BY <2>2, <3>1, GaugeLaw DEF m
    <3>3. page.started + 0 = page.started /\ page.tokens + 0 = page.tokens
      BY GaugeTypes
    <3> QED BY <3>2, <3>3
  <2> QED BY <1>1, <1>2, <2>1, <2>2, EmitLaw
<1>5. guidance.notified /\ guidance'.notified
  BY <1>1 DEF Gauges
<1>6. Gauges'
  BY <1>1, <1>3, <1>4, <1>5 DEF Gauges
<1>7. Exact'
  <2>1. ASSUME Whole'
        PROVE  /\ page'.tokens + budget'.verifierTokens + Untold' = budget'.tokensUsed
               /\ Len(page'.actions) + Unshown' = guidance'.used + Cardinality(Checks)'
               /\ page'.started + verifierCalls' = budget'.modelCalls + 0
    <3>1. /\ page.tokens + budget.verifierTokens + Untold = budget.tokensUsed
          /\ Len(page.actions) + Unshown = guidance.used + Cardinality(Checks)
          /\ page.started + verifierCalls = budget.modelCalls + 0
      BY <1>1, <2>1, WholeStep DEF Exact
    <3> QED BY <1>1, <1>3, <1>4, <3>1
  <2>2. ASSUME Whole' PROVE page'.guidance
    BY <1>1, <1>4, <2>2, WholeStep
  <2>3. pc' \notin {"calling", "crossing"}
    BY <1>1
  <2> QED BY <1>5, <2>1, <2>2, <2>3 DEF Exact
<1> QED BY <1>6, <1>7

\* An action is told, and shown; a check and `finish` are shown without having been counted.
LEMMA OpenStep ==
  ASSUME ControlTypeOK, LinesTypeOK, Placed, Gauges, Exact, OpenAction
  PROVE  Gauges' /\ Exact'
<1>1. /\ Next /\ UNCHANGED <<budget, guidance, verifierCalls>> /\ pc = "opening" /\ pc' = "opened"
      /\ Emit(ActionLine("actionStarted"))
  BY DEF Next, OpenAction, Tell
<1> DEFINE added == IF act.tool \in BrowserTools THEN 0 ELSE 1
<1>2. /\ Untold = 0 /\ InCall = 0 /\ Untold' = 0 /\ InCall' = 0 /\ Unshown' = 0
      /\ Unshown = 1 - added
  BY <1>1 DEF Untold, Unshown, InCall, Unopened
<1>3. /\ page'.verifierTokens = page.verifierTokens /\ page'.tokens = page.tokens
      /\ page'.started = page.started /\ (page'.guidance <=> page.guidance)
      /\ page'.breaches = page.breaches
      /\ \/ /\ Len(page'.actions) = Len(page.actions)
            /\ Cardinality(Checks)' = Cardinality(Checks)
            /\ refusals' # refusals
         \/ /\ Len(page'.actions) = Len(page.actions) + 1
            /\ Cardinality(Checks)' = Cardinality(Checks) + added
  <2>1. CASE Still
    <3>1. journal' = journal /\ page' = page
      BY <2>1 DEF Still
    <3>2. refusals' # refusals
      <4>1. ~ Appended
        BY <3>1 DEF Appended, LinesTypeOK
      <4> QED BY <1>1, <4>1, EmitAppends
    <3> QED BY <3>1, <3>2 DEF Checks
  <2>2. CASE StartMove
    <3>1. PICK m \in Lines : Written(m) /\ m.type = "actionStarted" /\ m.tool = act.tool
      BY <2>2 DEF StartMove
    <3>2. /\ page'.tokens = page.tokens + 0 /\ page'.verifierTokens = page.verifierTokens
          /\ page'.started = page.started + 0 /\ (page'.guidance <=> page.guidance)
          /\ Len(page'.actions) = Len(page.actions) + 1
          /\ Cardinality(Checks)' = Cardinality(Checks) + added
          /\ page'.breaches = page.breaches
      BY <3>1, GaugeLaw
    <3>3. page.started + 0 = page.started /\ page.tokens + 0 = page.tokens
      BY GaugeTypes
    <3> QED BY <3>2, <3>3
  <2> QED BY <2>1, <2>2, OpenMoves
<1>4. /\ guidance.used \in Nat /\ Len(page.actions) \in Nat /\ Cardinality(Checks) \in Nat
      /\ added \in {0, 1}
      /\ Len(page.actions) + Unshown <= guidance.used + Cardinality(Checks)
  BY Numbers
<1> HIDE DEF added
<1>5. Len(page'.actions) + Unshown' <= guidance.used + Cardinality(Checks)'
  BY <1>2, <1>3, <1>4
<1>6. Gauges'
  BY <1>1, <1>2, <1>3, <1>5 DEF Gauges
<1>7. Exact'
  <2>1. ASSUME Whole'
        PROVE  /\ page'.tokens + budget'.verifierTokens + Untold' = budget'.tokensUsed
               /\ page'.started + verifierCalls' = budget'.modelCalls + 0
               /\ page'.guidance <=> guidance'.notified
    <3>1. /\ page.tokens + budget.verifierTokens + Untold = budget.tokensUsed
          /\ page.started + verifierCalls = budget.modelCalls + 0
          /\ page.guidance <=> guidance.notified
      BY <1>1, <2>1, WholeStep DEF Exact
    <3> QED BY <1>1, <1>2, <1>3, <3>1
  <2>2. ASSUME Whole'
        PROVE  Len(page'.actions) + Unshown' = guidance'.used + Cardinality(Checks)'
    <3>1. /\ Len(page.actions) + Unshown = guidance.used + Cardinality(Checks)
          /\ refusals' = refusals /\ guidance' = guidance
      BY <1>1, <2>2, WholeStep DEF Exact
    <3> QED BY <1>2, <1>3, <1>4, <3>1
  <2>3. pc' \notin {"calling", "crossing"}
    BY <1>1
  <2> QED BY <2>1, <2>2, <2>3 DEF Exact
<1> QED BY <1>6, <1>7

\* Every step keeps the gauges within the counts, and equal to them when nothing was lost.
LEMMA GaugesStep ==
  ASSUME ControlTypeOK, LinesTypeOK, Placed, Gauges, Exact, Next
  PROVE  Gauges' /\ Exact'
BY UntouchedSteps, GateSteps, AnswerSteps, FailSteps, FinishStep, DispatchStep, CrossingStep,
   OpenStep DEF Next

\* An attempt that was struck stays where it is, or is done.
LEMMA HaltedStep ==
  ASSUME ControlTypeOK, Halted, Next
  PROVE  Halted'
<1>1. CASE exit.struck
  <2>1. pc \notin Body /\ pc # "done" => pc = "explaining"
    BY <1>1 DEF Halted
  <2>2. pc \notin Body
    BY <1>1 DEF Halted, Body, InDispatch, InEvaluation
  <2>3. Explain
    <3>1. Next => pc \in Body \/ Explain
      BY DEF Next, Body, InDispatch, InEvaluation, OpenContext, ReportFailure, LeaveLoop,
           StartTurn, ModelAnswers, ModelFails, FinishModelCall, TellStall, NextCall, Dispatch,
           TellCrossing, OpenAction, TakeFlight, Observe, Screenshot, Check, Finish,
           CaptureObservation, BreakContract, EndAction, CloseAction, CaptureAfterAction,
           RequestEvidence, Checkpoint, RunCodeCheck, AskVerifier, VerifierAnswers, VerifierFails,
           AskForMore, Decide, FinalPass, Cancel, NoteCancellation, Interrupt
    <3> QED BY <2>2, <3>1
  <2> QED BY <2>3 DEF Explain, Tell, Halted
<1>2. CASE ~ exit.struck
  <2>1. CASE Interrupt
    BY <2>1 DEF Interrupt, Halted
  <2>2. CASE OpenContext \/ ModelFails \/ NextCall \/ Finish \/ RunCodeCheck
    BY <1>2, <2>2 DEF OpenContext, ModelFails, NextCall, Finish, RunCodeCheck,
         RecordCheckPayload, CheckMisbound, ControlTypeOK, Halted
  <2>3. CASE Cancel \/ Explain
    BY <1>2, <2>3 DEF Cancel, Explain, ControlTypeOK, Halted
  <2>4. CASE UNCHANGED exit
    BY <1>2, <2>4 DEF Halted
  <2> QED BY <2>1, <2>2, <2>3, <2>4, Frames
<1> QED BY <1>1, <1>2

\* The page is told of a call once at most, and only when it starts.
LEMMA StartedLaw ==
  ASSUME ControlTypeOK, LinesTypeOK, Placed, Next
  PROVE  /\ page.started \in Nat /\ page'.started \in {page.started, page.started + 1}
         /\ page'.started # page.started => StartTurn /\ pc' = "calling"
<1>1. (Still \/ PlainMove \/ StartMove \/ EndMove) /\ page.started \in Nat
  BY Moves, GaugeTypes
<1>2. page'.started \in {page.started, page.started + 1}
  <2>1. CASE Still
    BY <2>1 DEF Still
  <2>2. CASE ~ Still
    <3>1. PICK m \in Lines : Written(m)
      BY <1>1, <2>2 DEF PlainMove, StartMove, EndMove
    <3>2. page'.started = page.started + IF m.type = "modelCallStarted" THEN 1 ELSE 0
      BY <3>1, GaugeLaw
    <3> QED BY <1>1, <3>2
  <2> QED BY <2>1, <2>2
<1>3. ASSUME page'.started # page.started
      PROVE  StartTurn /\ pc' = "calling"
  <2>1. StartTurn \/ FinishModelCall \/ TellCrossing \/ OpenAction \/ AskVerifier
    BY <1>3, QuietSteps DEF SameGauges
  <2>2. ~ Still
    BY <1>3 DEF Still
  <2>3. ASSUME NEW line \in Lines, Sound(line), Emit(line)
        PROVE  line.type = "modelCallStarted"
    <3>1. seq' \in Nat /\ Written(Numbered(line, seq'))
      BY <2>2, <2>3, EmitLaw DEF Emit, LinesTypeOK
    <3>2. Numbered(line, seq') \in Lines /\ Numbered(line, seq').type = line.type
      BY <2>3, <3>1, NumberedLaw
    <3>3. page'.started = page.started + IF line.type = "modelCallStarted" THEN 1 ELSE 0
      BY <3>1, <3>2, GaugeLaw
    <3> QED BY <1>1, <1>3, <3>3
  <2>4. ~ FinishModelCall
    <3> SUFFICES ASSUME FinishModelCall PROVE FALSE
      OBVIOUS
    <3> DEFINE line == CallLine("modelCallFinished", "browser", Usage)
    <3>1. Emit(line)
      BY DEF FinishModelCall, Tell
    <3>2. line \in Lines /\ Sound(line) /\ line.type = "modelCallFinished"
      BY CallLineLaw, NumberTypes
    <3> HIDE DEF line
    <3> QED BY <2>3, <3>1, <3>2
  <2>5. ~ TellCrossing
    <3> SUFFICES ASSUME TellCrossing PROVE FALSE
      OBVIOUS
    <3> DEFINE line == Line("actionGuidanceExceeded")
    <3>1. Emit(line)
      BY DEF TellCrossing, Tell
    <3>2. line \in Lines /\ Sound(line) /\ line.type = "actionGuidanceExceeded"
      BY LineLaw DEF HarnessEventTypes
    <3> HIDE DEF line
    <3> QED BY <2>3, <3>1, <3>2
  <2>6. ~ OpenAction
    <3> SUFFICES ASSUME OpenAction PROVE FALSE
      OBVIOUS
    <3>1. StartMove
      BY <2>2, OpenMoves
    <3>2. PICK m \in Lines : Written(m) /\ m.type = "actionStarted"
      BY <3>1 DEF StartMove
    <3>3. page'.started = page.started + 0
      BY <3>2, GaugeLaw
    <3> QED BY <1>1, <1>3, <3>3
  <2>7. ASSUME Emit(ExhaustedLine(Denial(budget, FALSE)))
        PROVE  FALSE
    <3> DEFINE line == ExhaustedLine(Denial(budget, FALSE))
    <3>1. line \in Lines /\ Sound(line) /\ line.type = "budgetExhausted"
      BY ExhaustedLineLaw, DenialIsKnown
    <3> HIDE DEF line
    <3>2. Emit(line)
      BY <2>7 DEF line
    <3> QED BY <2>3, <3>1, <3>2
  <2>8. ~ AskVerifier
    <3>1. ~ UNCHANGED lines
      BY <2>2, LinesKept
    <3> QED BY <2>7, <3>1 DEF AskVerifier, Tell
  <2>9. StartTurn
    BY <2>1, <2>4, <2>5, <2>6, <2>8
  <2> QED BY <2>7, <2>9 DEF StartTurn, Tell
<1> QED BY <1>1, <1>2, <1>3

\* Every step leaves the gauge of calls one ahead of the count at most.
LEMMA CallsStep ==
  ASSUME ControlTypeOK, LinesTypeOK, Placed, Halted, Calls, Next
  PROVE  Calls'
<1>1. /\ page.started \in Nat /\ verifierCalls \in Nat /\ budget.modelCalls \in Nat
      /\ Ahead \in {0, 1} /\ Ahead' \in {0, 1}
      /\ page.started + verifierCalls <= budget.modelCalls + Ahead
  BY StartedLaw, NumberTypes DEF Calls, Ahead
<1>2. exit.struck => exit'.struck
  <2>1. CASE OpenContext \/ ModelFails \/ NextCall \/ Finish \/ RunCodeCheck
    BY <2>1 DEF OpenContext, ModelFails, NextCall, Finish, RunCodeCheck, RecordCheckPayload,
         CheckMisbound, ControlTypeOK
  <2>2. CASE Cancel \/ Interrupt \/ Explain
    BY <2>2 DEF Cancel, Interrupt, Explain, ControlTypeOK
  <2> QED BY <2>1, <2>2, Frames
<1>3. CASE page'.started # page.started
  <2>1. /\ StartTurn /\ pc' = "calling" /\ page'.started = page.started + 1
        /\ UNCHANGED <<budget, verifierCalls, exit>> /\ pc = "loop"
    BY <1>3, StartedLaw DEF StartTurn, Tell
  <2>2. Ahead = 0 /\ Ahead' = 1
    BY <2>1 DEF Ahead, Halted
  <2> QED BY <1>1, <2>1, <2>2 DEF Calls
<1>4. CASE page'.started = page.started
  <2>1. CASE ModelAnswers \/ ModelFails \/ VerifierAnswers
    <3>1. /\ budget'.modelCalls = budget.modelCalls + 1
          /\ verifierCalls' = verifierCalls + (IF VerifierAnswers THEN 1 ELSE 0)
          /\ pc' # "calling" /\ (VerifierAnswers => pc # "calling")
      BY <2>1 DEF ModelAnswers, ModelFails, VerifierAnswers, ChargeTokens, RecordModelCall,
           ControlTypeOK, BudgetStates
    <3>2. VerifierAnswers => Ahead <= Ahead'
      BY <1>1, <1>2, <3>1 DEF Ahead
    <3> QED BY <1>1, <1>4, <3>1, <3>2 DEF Calls
  <2>2. CASE Cancel
    <3>1. /\ budget'.modelCalls = budget.modelCalls + (IF pc = "calling" THEN 1 ELSE 0)
          /\ verifierCalls' = verifierCalls
      BY <2>2 DEF Cancel, RecordModelCall, ControlTypeOK, BudgetStates
    <3>2. pc # "calling" => Ahead <= Ahead'
      BY <1>1, <1>2 DEF Ahead
    <3> QED BY <1>1, <1>4, <3>1, <3>2 DEF Calls
  <2>3. CASE /\ UNCHANGED <<budget, verifierCalls>>
             /\ ~ ModelAnswers /\ ~ ModelFails /\ ~ Cancel
    <3>1. pc = "calling" => Interrupt
      BY <2>3 DEF Next, InDispatch, InEvaluation, OpenContext, ReportFailure, LeaveLoop,
           StartTurn, FinishModelCall, TellStall, NextCall, Dispatch,
           TellCrossing, OpenAction, TakeFlight, Observe, Screenshot, Check, Finish,
           CaptureObservation, BreakContract, EndAction, CloseAction, CaptureAfterAction,
           RequestEvidence, Checkpoint, RunCodeCheck, AskVerifier, VerifierAnswers, VerifierFails,
           AskForMore, Decide, FinalPass, NoteCancellation, Explain
    <3>2. Interrupt => exit'.struck
      BY DEF Interrupt, ControlTypeOK
    <3>3. Ahead <= Ahead'
      BY <1>1, <1>2, <3>1, <3>2 DEF Ahead
    <3> QED BY <1>1, <1>4, <2>3, <3>3 DEF Calls
  <2> QED BY <2>1, <2>2, <2>3, Frames
<1> QED BY <1>3, <1>4

-----------------------------------------------------------------------------
(* The theorems.                                                            *)

\* The invariant holds before the context opens.
LEMMA InitEstablishes ==
  ASSUME Init
  PROVE  IInv
<1>1. /\ journal = <<>> /\ seq = 0 /\ refusals = 0 /\ page = EmptyRunModel
      /\ pc = "opening context" /\ source = Absent /\ during = {} /\ verifierCalls = 0
      /\ budget = MakeBudgetState
  BY DEF Init
<1>2. /\ MaxActionIds \in Nat /\ MaxIdleTurns \in Nat \ {0} /\ MaxRefusals \in Nat
      /\ MaxActions \in Nat \ {0} /\ MaxModelCalls \in Nat
  BY ActivityAssumption, BudgetsAssumption
<1>3. ControlTypeOK
  <2>1. budget \in BudgetStates /\ verifierCalls \in 0..budget.modelCalls
    <3>1. budget = [modelCalls |-> 0, tokensUsed |-> 0, verifierTokens |-> 0]
      BY <1>1 DEF MakeBudgetState
    <3>2. budget \in BudgetStates /\ budget.modelCalls = 0
      BY <3>1 DEF BudgetStates
    <3>3. 0 \in 0..0
      OBVIOUS
    <3> QED BY <1>1, <3>2, <3>3
  <2>2. 0 \in 0..MaxActionIds /\ 0 \in 0..MaxIdleTurns
    BY <1>2
  <2>3. guidance \in [used : 0..MaxActionIds, notified : BOOLEAN]
    <3>1. guidance = [used |-> 0, notified |-> FALSE]
      BY DEF Init
    <3> QED BY <2>2, <3>1
  <2>5. turn \in Turns
    <3>1. turn = [idle |-> 0, calls |-> 0, made |-> 0, repeated |-> FALSE]
      BY DEF Init
    <3>2. 0 \in 0..MaxCalls /\ 0 \in 0..Repetition
      BY ActivityAssumption DEF Repetition
    <3> QED BY <2>2, <3>1, <3>2 DEF Turns
  <2>6. act \in [id : 0..MaxActionIds, tool : Tools \cup {"none"}, inFlight : BOOLEAN,
                outcome : Outcomes, broken : BOOLEAN]
    <3>1. act = [id |-> 0, tool |-> "none", inFlight |-> FALSE, outcome |-> "none",
                 broken |-> FALSE]
      BY DEF Init, NoAction
    <3>2. "none" \in Tools \cup {"none"} /\ "none" \in Outcomes
      BY DEF Outcomes
    <3> QED BY <2>2, <3>1, <3>2
  <2>7. eval \in [method : {"model", "code"}, by : {"none", "agent", "runner"},
                  pending : BOOLEAN]
    <3>1. PICK method \in {"model", "code"} :
            eval = [method |-> method, by |-> "none", pending |-> TRUE]
      BY DEF Init
    <3> QED BY <3>1
  <2>8. exit \in [finishing : BOOLEAN, cancelled : BOOLEAN, failed : BOOLEAN, struck : BOOLEAN]
    <3>1. exit = [finishing |-> FALSE, cancelled |-> FALSE, failed |-> FALSE, struck |-> FALSE]
      BY DEF Init
    <3> QED BY <3>1
  <2>4. pc \in Places
    BY <1>1 DEF Places, Body
  <2> QED BY <2>1, <2>3, <2>4, <2>5, <2>6, <2>7, <2>8 DEF ControlTypeOK, Turns
<1>4. /\ page.timeline = <<>> /\ page.actions = <<>> /\ page.tokens = 0 /\ page.started = 0
      /\ page.verifierTokens = 0 /\ page.guidance = FALSE /\ page.breaches = {}
  BY <1>1 DEF EmptyRunModel
<1>5. \A S : <<>> \in Seq(S) /\ Len(<<>>) = 0 /\ DOMAIN <<>> = {}
  OBVIOUS
<1>6. /\ Len(journal) = 0 /\ DOMAIN journal = {} /\ journal \in Seq(Lines)
      /\ DOMAIN page.timeline = {} /\ DOMAIN page.actions = {} /\ Len(page.actions) = 0
  BY <1>1, <1>4, <1>5
<1>7. LinesTypeOK
  <2>1. page \in RunModels
    BY <1>1, <1>5 DEF EmptyRunModel, RunModels
  <2>2. Absent \in Absent..0 /\ 0 \in 0..MaxRefusals
    BY <1>2 DEF Absent
  <2>3. seq \in Nat /\ Len(journal) <= seq
    <3>1. Len(journal) = 0 /\ seq = 0
      BY <1>1, <1>6
    <3> QED BY <3>1
  <2> QED BY <1>1, <1>6, <2>1, <2>2, <2>3 DEF LinesTypeOK
<1>8. Placed
  <2>1. /\ turn.idle = 0 /\ act.id = 0 /\ act.tool = "none" /\ ~ act.inFlight
        /\ guidance.used = 0
    BY DEF Init, NoAction
  <2>2. /\ ~ Acting /\ ~ Unended /\ pc \notin InEvaluation
        /\ pc \notin {"call", "closing", "after"}
    BY <1>1, <2>1 DEF Acting, Asked, Unended, InEvaluation
  <2>3. turn.idle # MaxIdleTurns
    BY <1>2, <2>1
  <2> QED BY <2>1, <2>2, <2>3 DEF Placed
<1>9. Story
  BY <1>6 DEF Story, Ordered
<1>10. Pairs
  BY <1>6 DEF Pairs, ActionRows
<1>11. Owned
  BY <1>1 DEF Owned, Held, Acting, Asked, InEvaluation
<1>12. Checks = {} /\ Cardinality(Checks) = 0
  BY <1>6, FS_EmptySet DEF Checks
<1>13. Untold = 0 /\ Unshown = 0 /\ InCall = 0 /\ pc \notin {"calling", "crossing"}
  BY <1>1 DEF Untold, Unshown, InCall, Unopened
<1>14. /\ budget.modelCalls = 0 /\ budget.tokensUsed = 0 /\ budget.verifierTokens = 0
       /\ guidance.used = 0 /\ guidance.notified = FALSE
  BY DEF Init, MakeBudgetState
<1>15. 0 <= MaxModelCalls /\ ~ (0 > MaxActions)
  BY <1>2
<1>16. Gauges
  BY <1>4, <1>6, <1>12, <1>13, <1>14, <1>15 DEF Gauges
<1>17. Exact
  <2>1. /\ page.tokens + budget.verifierTokens + Untold = budget.tokensUsed
        /\ Len(page.actions) + Unshown = guidance.used + Cardinality(Checks)
    BY <1>4, <1>6, <1>12, <1>13, <1>14
  <2>2. page.started + verifierCalls = budget.modelCalls + (IF pc = "calling" THEN 1 ELSE 0)
    <3>1. page.started = 0 /\ verifierCalls = 0 /\ budget.modelCalls = 0
      BY <1>1, <1>4, <1>14
    <3> QED BY <1>13, <3>1
  <2>3. page.guidance <=> guidance.notified /\ pc # "crossing"
    BY <1>4, <1>13, <1>14
  <2> QED BY <2>1, <2>2, <2>3 DEF Exact
<1>18. Halted
  <2>1. ~ exit.struck
    BY DEF Init
  <2> QED BY <2>1 DEF Halted
<1>19. Calls
  <2>1. page.started = 0 /\ verifierCalls = 0 /\ budget.modelCalls = 0 /\ Ahead \in {0, 1}
    BY <1>1, <1>4, <1>14 DEF Ahead
  <2>2. page.started + verifierCalls <= budget.modelCalls + Ahead
    BY <2>1
  <2> QED BY <2>2 DEF Calls
<1> QED BY <1>3, <1>7, <1>8, <1>9, <1>10, <1>11, <1>16, <1>17, <1>18, <1>19 DEF IInv

\* Every step keeps it.
LEMMA StepPreserves ==
  ASSUME IInv, [Next]_vars
  PROVE  IInv'
<1>1. CASE Next
  <2>1. ControlTypeOK' /\ LinesTypeOK' /\ Placed'
    BY <1>1, ControlStep, LinesStep, PlacedStep DEF IInv
  <2>2. Still \/ PlainMove \/ StartMove \/ EndMove
    BY Moves DEF IInv
  <2>3. Story'
    BY <2>2, StoryStep DEF IInv, PlainMove, StartMove, EndMove
  <2>4. Pairs'
    BY <2>1, <2>2, PairsStep, GoesOnward DEF IInv
  <2>5. Owned'
    BY <1>1, OwnedStep DEF IInv
  <2>6. Gauges' /\ Exact'
    BY <1>1, GaugesStep DEF IInv
  <2>7. Halted' /\ Calls'
    BY <1>1, HaltedStep, CallsStep DEF IInv
  <2> QED BY <2>1, <2>3, <2>4, <2>5, <2>6, <2>7 DEF IInv
<1>2. CASE UNCHANGED vars
  <2>1. /\ ControlTypeOK' /\ LinesTypeOK' /\ Placed' /\ Owned'
    BY <1>2 DEF IInv, vars, lines, ControlTypeOK, LinesTypeOK, Placed, Owned, Held, Acting, Asked,
         Unended
  <2>2. Story' /\ Pairs'
    BY <1>2 DEF IInv, vars, lines, Story, Pairs, Sound, Mirrored, Ordered, ActionRows, Ends,
         Unended, Unopened
  <2>3. Gauges' /\ Exact'
    BY <1>2 DEF IInv, vars, lines, Gauges, Exact, Whole, Untold, Unshown, InCall, Checks, Unopened
  <2>4. Halted' /\ Calls'
    BY <1>2 DEF IInv, vars, lines, Halted, Calls, Ahead
  <2> QED BY <2>1, <2>2, <2>3, <2>4 DEF IInv
<1> QED BY <1>1, <1>2

\* So it always holds.
LEMMA Invariance == Spec => []IInv
BY InitEstablishes, StepPreserves, PTL DEF Spec

\* Every variable keeps its type, and the counters stay within their bounds.
THEOREM ActivityTypes == Spec => []TypeOK
<1>1. IInv => TypeOK
  BY DEF IInv, ControlTypeOK, LinesTypeOK, TypeOK, Outcomes
<1> QED BY <1>1, Invariance, PTL

\* The page and the report tell the same story in the same order, whatever was refused and
\* wherever the attempt was cut short.
THEOREM TimelinesAlwaysAgree == Spec => []TimelinesAgree
<1> DEFINE rows    == page.timeline
           entries == TimelineEntries
           Shown   == {n \in DOMAIN entries : entries[n].type # "actionFinished"}
           EndOf(a) == {entries[n].outcome :
                          n \in {m \in DOMAIN entries \ Shown : entries[m].action = a}}
<1>1. ASSUME IInv
      PROVE  TimelinesAgree
  <2>1. /\ DOMAIN entries = DOMAIN journal
        /\ \A n \in DOMAIN journal :
             /\ entries[n].seq = journal[n].seq /\ entries[n].type = journal[n].type
             /\ entries[n].category = EventCategories(journal[n].type)
             /\ entries[n].action = journal[n].action /\ entries[n].outcome = journal[n].outcome
    BY DEF TimelineEntries
  <2> HIDE DEF entries
  <2>2. Story /\ RowsTellEnds
    BY <1>1, PairsParts DEF IInv
  <2>3. \A n \in DOMAIN journal : Mirrored(journal[n]) \/ journal[n].budget = "maxIdleTurns"
    BY <2>2 DEF Story, Sound
  <2>4. InOrder(entries) /\ InOrder(rows)
    <3>1. Len(journal) \in Nat /\ DOMAIN journal = 1..Len(journal)
      BY <1>1, LenProperties DEF IInv, LinesTypeOK
    <3>2. Len(entries) = Len(journal)
      BY <2>1, <3>1
    <3>3. InOrder(entries)
      BY <2>1, <2>2, <3>1, <3>2 DEF Story, Ordered, InOrder
    <3>4. rows \in Seq(Rows)
      BY <1>1 DEF IInv, LinesTypeOK, RunModels, Rows, Outcomes
    <3>5. Len(rows) \in Nat /\ DOMAIN rows = 1..Len(rows)
      BY <3>4, LenProperties
    <3>6. InOrder(rows)
      <4>1. Ordered(rows)
        BY <2>2 DEF Story
      <4> HIDE DEF rows
      <4> QED BY <3>5, <4>1 DEF Ordered, InOrder
    <3> QED BY <3>3, <3>6
  <2>5. \A n \in Shown : \E i \in DOMAIN rows : rows[i].seq = entries[n].seq
    BY <2>1, <2>2 DEF Story
  <2>6. \A a : EndOf(a) = {journal[n].outcome : n \in Ends(a)}
    <3> SUFFICES ASSUME NEW a PROVE EndOf(a) = {journal[n].outcome : n \in Ends(a)}
      OBVIOUS
    <3>1. {m \in DOMAIN entries \ Shown : entries[m].action = a} = Ends(a)
      BY <2>1 DEF Ends
    <3>2. \A n \in Ends(a) : entries[n].outcome = journal[n].outcome
      BY <2>1 DEF Ends
    <3> QED BY <3>1, <3>2
  <2>7. ASSUME NEW i \in DOMAIN rows
        PROVE  \E n \in Shown :
                 /\ rows[i].seq = entries[n].seq
                 /\ rows[i].kind = entries[n].category \/ entries[n].type = "cancellationRequested"
                 /\ entries[n].type = "actionStarted" =>
                      /\ rows[i].action = entries[n].action
                      /\ \/ EndOf(rows[i].action) = {} /\ rows[i].outcome = "none"
                         \/ EndOf(rows[i].action) = {rows[i].outcome}
    <3>1. PICK n \in DOMAIN journal :
            /\ journal[n].type # "actionFinished"
            /\ rows[i].seq = journal[n].seq /\ rows[i].kind = RowKind(journal[n].type)
            /\ journal[n].type = "actionStarted" => rows[i].action = journal[n].action
      BY <2>2 DEF Story
    <3>2. n \in Shown
      BY <2>1, <3>1
    <3>3. rows[i].kind = entries[n].category \/ entries[n].type = "cancellationRequested"
      BY <2>1, <3>1 DEF RowKind
    <3>4. ASSUME entries[n].type = "actionStarted"
          PROVE  \/ EndOf(rows[i].action) = {} /\ rows[i].outcome = "none"
                 \/ EndOf(rows[i].action) = {rows[i].outcome}
      <4>1. i \in ActionRows
        BY <2>1, <3>1, <3>4 DEF RowKind, EventCategories, ActionRows
      <4>2. \/ Ends(rows[i].action) = {} /\ rows[i].outcome = "none"
            \/ /\ Ends(rows[i].action) # {}
               /\ \A k \in Ends(rows[i].action) : journal[k].outcome = rows[i].outcome
        BY <2>2, <4>1 DEF RowsTellEnds
      <4>3. EndOf(rows[i].action) = {journal[k].outcome : k \in Ends(rows[i].action)}
        BY <2>6
      <4> HIDE DEF EndOf, rows
      <4> QED BY <4>2, <4>3
    <3> HIDE DEF EndOf
    <3> QED BY <2>1, <3>1, <3>2, <3>3, <3>4
  <2> QED BY <2>3, <2>4, <2>5, <2>7 DEF TimelinesAgree, entries
<1> QED BY <1>1, Invariance, PTL

\* The page's gauges never run ahead of what result.json counts, but for the one call that is
\* under way or that an interruption cut, and meet it when nothing was refused or cut short.
THEOREM GaugesAlwaysReconcile == Spec => []GaugesReconcile
<1>1. ASSUME IInv
      PROVE  GaugesReconcile
  <2> DEFINE checks == Cardinality(Checks)
  <2>1. ControlTypeOK /\ LinesTypeOK /\ Gauges /\ Exact /\ Calls
    BY <1>1 DEF IInv
  <2>2. /\ page.tokens \in Nat /\ page.started \in Nat
        /\ budget.verifierTokens \in Nat /\ budget.tokensUsed \in Nat /\ budget.modelCalls \in Nat
        /\ verifierCalls \in Nat /\ guidance.used \in Nat
        /\ Len(page.actions) \in Nat /\ checks \in Nat
        /\ MaxModelCalls \in Nat /\ MaxTokens \in Nat
        /\ page.tokens + budget.verifierTokens + Untold <= budget.tokensUsed
        /\ Len(page.actions) + Unshown <= guidance.used + checks
    BY <2>1, Numbers
  <2>3. Untold \in Nat /\ Unshown \in Nat
    BY NumberTypes, <2>1 DEF Untold, Unshown
  <2> HIDE DEF checks
  <2>4. page.tokens + budget.verifierTokens <= budget.tokensUsed
    BY <2>2, <2>3
  <2>5. Len(page.actions) - checks <= guidance.used
    BY <2>2, <2>3
  <2>6. page.verifierTokens = 0 /\ (page.guidance => guidance.used > MaxActions)
    BY <2>1 DEF Gauges
  <2>7. "maxModelCalls" \in page.breaches => MaxModelCalls - budget.modelCalls = 0
    <3>1. "maxModelCalls" \in page.breaches => budget.modelCalls = MaxModelCalls
      BY <2>1 DEF Gauges
    <3> QED BY <2>2, <3>1
  <2>8. "maxTokens" \in page.breaches => MaxTokens - budget.tokensUsed <= VerifierReserveTokens
    BY <2>1 DEF Gauges
  <2>9. ASSUME refusals = 0, ~ exit.cancelled, ~ exit.struck, pc \in {"loop", "turn", "done"}
        PROVE  /\ page.tokens = budget.tokensUsed - budget.verifierTokens
               /\ page.started = budget.modelCalls - verifierCalls
               /\ Len(page.actions) - checks = guidance.used
               /\ page.guidance <=> guidance.used > MaxActions
    <3>1. /\ page.tokens + budget.verifierTokens + 0 = budget.tokensUsed
          /\ Len(page.actions) + 0 = guidance.used + checks
          /\ page.started + verifierCalls = budget.modelCalls + 0
          /\ page.guidance <=> guidance.notified
      BY <2>1, <2>9 DEF Exact, Whole, Untold, Unshown, Unopened, checks
    <3>2. page.guidance <=> guidance.used > MaxActions
      BY <2>1, <3>1 DEF Gauges
    <3>3. page.tokens = budget.tokensUsed - budget.verifierTokens
      BY <2>2, <3>1
    <3>4. page.started = budget.modelCalls - verifierCalls
      BY <2>2, <3>1
    <3>5. Len(page.actions) - checks = guidance.used
      <4>1. Len(page.actions) \in Nat /\ checks \in Nat /\ guidance.used \in Nat
        BY <2>2
      <4> QED BY <3>1, <4>1
    <3> QED BY <3>2, <3>3, <3>4, <3>5
  <2>10. page.guidance \in BOOLEAN /\ (guidance.used > MaxActions) \in BOOLEAN
    BY <2>1, GaugeTypes
  <2> QED
    BY <2>1, <2>4, <2>5, <2>6, <2>7, <2>8, <2>9, <2>10
       DEF Calls, Ahead, GaugesReconcile, BlockingBudgets, ActionGuidance, AttemptView,
           AttemptOutcome, BudgetLines, BudgetLine, checks, Checks
<1> QED BY <1>1, Invariance, PTL

\* As long as no line was refused, every artifact captured in the course of an action is shown
\* under that action.
THEOREM OwnersAlwaysAgree == Spec => []OwnersAgree
<1>1. IInv => OwnersAgree
  BY DEF IInv, Owned, OwnersAgree
<1> QED BY <1>1, Invariance, PTL
=============================================================================
