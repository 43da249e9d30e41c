----------------------- MODULE OrganizationExecutorProofs -----------------------
(***************************************************************************)
(* Theorems about OrganizationExecutor and about the checks of             *)
(* OrganizationContract that it relies on: for plans with any number of    *)
(* steps of any size, any budgets and any bounds.                          *)
(***************************************************************************)
EXTENDS OrganizationExecutor, OrganizationContractProofs

-----------------------------------------------------------------------------
(***************************************************************************)
(* Type correctness.                                                       *)
(***************************************************************************)
ObjectMap == UNION {[keys -> Observation] : keys \in SUBSET Objects}
PlaceMap == UNION {[keys -> Observation] : keys \in SUBSET (Parents \X Names)}

WorkerRecord ==
  [pc : {"stopped", "polling", "claimed", "loaded", "running", "finishing"},
   op : Operations \cup {NoOperation}, token : Nat, claimed : Nat, revision : Nat,
   step : Nat, member : Nat,
   phase : {"source", "target", "move", "rename", "verify"}, calls : Nat,
   started : BOOLEAN, confirmed : BOOLEAN,
   sources : ObjectMap, targets : PlaceMap, observed : ObjectMap,
   result : {"none", "organized", "failed", "uncertain"}, stopping : BOOLEAN]

Write == [kind : {"move", "rename"}, member : StepExpectation]

TypeInv ==
  /\ op \in [Operations -> OperationRow]
  /\ plan \in [Operations -> {"approved", "amended", "superseded", "withdrawn"}]
  /\ dirty \subseteq Operations \X Parents
  /\ w \in WorkerRecord
  /\ drive \in [Objects -> Place]
  /\ late \subseteq Write
  /\ touched \subseteq Objects
  /\ now \in Nat /\ issued \in Nat

\* The operation a worker is inside of, and the member it is at, exist.
Inside ==
  w.pc \in {"claimed", "loaded", "running", "finishing"} =>
    /\ w.op \in Operations
    /\ w.step \in DOMAIN Steps[w.op]
    /\ w.member \in DOMAIN Steps[w.op][w.step]

\* The types of the proof are those that the run checks, and more.
LEMMA TypeInvImpliesTypeOK == TypeInv => TypeOK
<1> SUFFICES ASSUME TypeInv PROVE TypeOK
  OBVIOUS
<1>1. w \in WorkerRecord
  BY DEF TypeInv
<1>2. \A map \in ObjectMap : ObservationMap(map, Objects)
  BY DEF ObjectMap, ObservationMap
<1>3. \A map \in PlaceMap : ObservationMap(map, Parents \X Names)
  BY DEF PlaceMap, ObservationMap
<1> QED BY <1>1, <1>2, <1>3 DEF TypeInv, TypeOK, WorkerRecord

\* What a plan is made of.
LEMMA StepTypes ==
  ASSUME NEW o \in Operations
  PROVE  /\ Steps[o] \in Seq(Seq(StepExpectation))
         /\ 1 \in DOMAIN Steps[o]
         /\ \A i \in DOMAIN Steps[o] :
              /\ Steps[o][i] \in Seq(StepExpectation)
              /\ 1 \in DOMAIN Steps[o][i]
              /\ GroupOf(Steps[o][i]) \subseteq Members(o)
              /\ GroupOf(Steps[o][i]) \subseteq StepExpectation
              /\ \A k \in DOMAIN Steps[o][i] :
                   /\ Steps[o][i][k] \in StepExpectation
                   /\ Steps[o][i][k] \in GroupOf(Steps[o][i])
         /\ Members(o) \subseteq StepExpectation
<1>1. Steps[o] \in Seq(Seq(StepExpectation)) /\ Steps[o] # <<>>
  BY StepsAssumption
<1>2. 1 \in DOMAIN Steps[o]
  BY <1>1
<1>3. ASSUME NEW i \in DOMAIN Steps[o]
      PROVE  /\ Steps[o][i] \in Seq(StepExpectation)
             /\ 1 \in DOMAIN Steps[o][i]
             /\ \A k \in DOMAIN Steps[o][i] : Steps[o][i][k] \in StepExpectation
  <2>1. Steps[o][i] \in Seq(StepExpectation)
    BY <1>1
  <2>2. Steps[o][i] # <<>>
    BY StepsAssumption
  <2> QED BY <2>1, <2>2
<1>4. \A i \in DOMAIN Steps[o] :
        /\ GroupOf(Steps[o][i]) \subseteq Members(o)
        /\ GroupOf(Steps[o][i]) \subseteq StepExpectation
        /\ \A k \in DOMAIN Steps[o][i] : Steps[o][i][k] \in GroupOf(Steps[o][i])
  BY <1>3 DEF GroupOf, Members
<1>5. Members(o) \subseteq StepExpectation
  BY <1>4 DEF Members
<1> QED BY <1>1, <1>2, <1>3, <1>4, <1>5

\* Each statement turns a well-formed row into a well-formed row.
LEMMA RowTypes ==
  /\ QueuedRow(1) \in OperationRow
  /\ \A row \in OperationRow, token, t \in Nat :
       ClaimedRow(row, token, t) \in OperationRow
  /\ \A row \in OperationRow, t \in Nat : RenewedRow(row, t) \in OperationRow
  /\ \A row \in OperationRow, s \in OperationStatus :
       FinishedRow(row, s) \in OperationRow
  /\ \A row \in OperationRow :
       CancelledRow(row) \in OperationRow /\ RetriedRow(row) \in OperationRow
<1> USE DEF OperationRow, OperationStatus
<1>1. QueuedRow(1) \in OperationRow
  BY DEF AbsentRow, QueuedRow, NoToken, NoExpiry
<1>2. ASSUME NEW row \in OperationRow, NEW token \in Nat, NEW t \in Nat
      PROVE  /\ ClaimedRow(row, token, t) \in OperationRow
             /\ RenewedRow(row, t) \in OperationRow
  <2>1. t + LeaseDuration \in Nat /\ row.revision + 1 \in Nat
        /\ row.attempts + 1 \in Nat
    BY LeaseDurationAssumption
  <2> QED BY <2>1 DEF ClaimedRow, RenewedRow
<1>3. ASSUME NEW row \in OperationRow
      PROVE  /\ \A s \in OperationStatus : FinishedRow(row, s) \in OperationRow
             /\ CancelledRow(row) \in OperationRow
             /\ RetriedRow(row) \in OperationRow
  <2>1. row.revision + 1 \in Nat
    OBVIOUS
  <2> QED BY <2>1 DEF FinishedRow, CancelledRow, RetriedRow, NoToken, NoExpiry
<1> QED BY <1>1, <1>2, <1>3

\* What the statements leave in the columns that the proofs look at.
LEMMA RowColumns ==
  /\ QueuedRow(1).status = "planned"
  /\ \A row \in OperationRow, token, t \in Nat :
       /\ ClaimedRow(row, token, t).status = "organizing"
       /\ ClaimedRow(row, token, t).token = token
  /\ \A row \in OperationRow, t \in Nat :
       /\ RenewedRow(row, t).status = row.status
       /\ RenewedRow(row, t).token = row.token
       /\ RenewedRow(row, t).revision = row.revision + 1
  /\ \A row \in OperationRow :
       /\ \A s \in OperationStatus : FinishedRow(row, s).status = s
       /\ CancelledRow(row).status = "cancelled"
       /\ RetriedRow(row).status = "planned"
BY DEF OperationRow, QueuedRow, AbsentRow, ClaimedRow, RenewedRow, FinishedRow,
       CancelledRow, RetriedRow

\* What the worker has seen stays a map of observations.
LEMMA PutTypes ==
  /\ <<>> \in ObjectMap /\ <<>> \in PlaceMap
  /\ \A map \in ObjectMap, x \in Objects, seen \in Observation :
       Put(map, x, seen) \in ObjectMap
  /\ \A map \in PlaceMap, place \in Parents \X Names, seen \in Observation :
       Put(map, place, seen) \in PlaceMap
<1>1. <<>> \in ObjectMap /\ <<>> \in PlaceMap
  <2>1. <<>> \in [{} -> Observation]
    OBVIOUS
  <2> QED BY <2>1 DEF ObjectMap, PlaceMap
<1>2. ASSUME NEW map \in ObjectMap, NEW x \in Objects, NEW seen \in Observation
      PROVE  Put(map, x, seen) \in ObjectMap
  <2>1. PICK keys \in SUBSET Objects : map \in [keys -> Observation]
    BY DEF ObjectMap
  <2>2. Put(map, x, seen) \in [keys \cup {x} -> Observation]
    BY <2>1 DEF Put
  <2> QED BY <2>2 DEF ObjectMap
<1>3. ASSUME NEW map \in PlaceMap, NEW place \in Parents \X Names,
             NEW seen \in Observation
      PROVE  Put(map, place, seen) \in PlaceMap
  <2>1. PICK keys \in SUBSET (Parents \X Names) : map \in [keys -> Observation]
    BY DEF PlaceMap
  <2>2. Put(map, place, seen) \in [keys \cup {place} -> Observation]
    BY <2>1 DEF Put
  <2> QED BY <2>2 DEF PlaceMap
<1> QED BY <1>1, <1>2, <1>3

\* The worker between two operations.
LEMMA PollingType ==
  /\ Polling \in WorkerRecord /\ Polling.pc = "polling" /\ Polling.op = NoOperation
  /\ Stopped \in WorkerRecord /\ Stopped.pc = "stopped" /\ Stopped.op = NoOperation
  /\ Rest \in {Polling, Stopped}
BY PutTypes DEF Polling, Stopped, Rest, WorkerRecord, NoToken

\* What a read returns is an observation: what the drive holds, or nothing.
LEMMA Answers ==
  ASSUME TypeInv, NEW e \in StepExpectation
  PROVE  /\ ReadObjectAnswers(e) \subseteq Observation
         /\ \A seen \in ReadObjectAnswers(e) :
              seen # Unobserved =>
                drive[e.object] = <<seen.parent, seen.name>> /\ seen.object = e.object
         /\ ReadTargetAnswers(e) \subseteq Observation
         /\ Unobserved \in ReadTargetAnswers(e) =>
              \A x \in Objects : drive[x] # TargetPlace(e)
<1>t. /\ drive \in [Objects -> Place]
      /\ e.object \in Objects
      /\ TargetPlace(e) \in Parents \X Names
  BY DEF TypeInv, StepExpectation, TargetPlace
<1>1. ASSUME NEW x \in Objects, drive[x] # Nowhere
      PROVE  /\ StateOf(x) \in RemoteObjectState
             /\ StateOf(x).object = x
             /\ drive[x] = <<StateOf(x).parent, StateOf(x).name>>
  BY <1>1, <1>t DEF StateOf, Place, RemoteObjectState
<1>2. ASSUME NEW seen \in ReadObjectAnswers(e)
      PROVE  \/ seen = Unobserved
             \/ drive[e.object] # Nowhere /\ seen = StateOf(e.object)
  BY <1>2 DEF ReadObjectAnswers
<1>3. ASSUME NEW seen \in ReadTargetAnswers(e)
      PROVE  \/ seen = Unobserved /\ \A x \in Objects : drive[x] # TargetPlace(e)
             \/ \E x \in Objects : drive[x] = TargetPlace(e) /\ seen = StateOf(x)
  BY <1>3 DEF ReadTargetAnswers
<1>4. TargetPlace(e) # Nowhere
  BY <1>t, StepsAssumption
<1>5. \A x \in Objects : drive[x] = TargetPlace(e) =>
        StateOf(x) \in Observation /\ StateOf(x) # Unobserved
  BY <1>1, <1>4, UnobservedAssumption DEF Observation
<1> QED BY <1>1, <1>2, <1>3, <1>5, <1>t, UnobservedAssumption DEF Observation

-----------------------------------------------------------------------------
(***************************************************************************)
(* What a step of the worker makes of its record.                          *)
(***************************************************************************)

\* next, but for what every call adds: a new revision and one call less.
Becomes(next) ==
  /\ w' \in WorkerRecord
  /\ w'.pc = next.pc /\ w'.op = next.op /\ w'.token = next.token
  /\ w'.claimed = next.claimed /\ w'.step = next.step /\ w'.member = next.member
  /\ w'.phase = next.phase /\ w'.started = next.started
  /\ w'.confirmed = next.confirmed /\ w'.sources = next.sources
  /\ w'.targets = next.targets /\ w'.observed = next.observed
  /\ w'.result = next.result /\ w'.stopping = next.stopping

\* A call to 115 renews the lease first, which moves the revision on.
LEMMA CallEffect ==
  ASSUME TypeInv, NEW next \in WorkerRecord, Call(next)
  PROVE  /\ Becomes(next)
         /\ w'.revision = w.revision + 1 /\ w'.calls = w.calls - 1
         /\ HoldsLive /\ op' = [op EXCEPT ![w.op] = RenewedRow(@, now)]
         /\ UNCHANGED <<plan, dirty, touched, now, issued>>
<1>1. w.revision + 1 \in Nat /\ w.calls - 1 \in Nat
  BY DEF TypeInv, WorkerRecord, Call, MayCall
<1>2. w' = [next EXCEPT !.revision = w.revision + 1, !.calls = w.calls - 1]
  BY DEF Call
<1>3. Becomes(next) /\ w'.revision = w.revision + 1 /\ w'.calls = w.calls - 1
  BY <1>1, <1>2 DEF WorkerRecord, Becomes
<1> QED BY <1>3 DEF Call, MayCall

\* The worker ends its operation with one of the three outcomes.
Ends(next, result) ==
  /\ next \in WorkerRecord
  /\ next.pc = "finishing" /\ next.op = w.op /\ next.result = result
  /\ next.token = w.token
  /\ next.step = w.step /\ next.member = w.member /\ next.claimed = w.claimed
  /\ next.revision = w.revision /\ next.confirmed = w.confirmed

\* Finishing an operation leaves the place of the worker in its plan.
LEMMA FinishingEnds ==
  ASSUME w \in WorkerRecord, NEW result \in {"organized", "failed", "uncertain"}
  PROVE  /\ Ends(Finishing(result), result)
         /\ Ends([Finishing(result) EXCEPT !.started = TRUE], result)
         /\ Ends([Finishing(result) EXCEPT !.stopping = TRUE], result)
BY DEF Finishing, Ends, WorkerRecord

\* The worker stays in its operation, at another step, member or phase.
Continues(next, step, member, phase) ==
  /\ next \in WorkerRecord
  /\ next.pc = "running" /\ next.op = w.op /\ next.token = w.token
  /\ next.claimed = w.claimed
  /\ next.revision = w.revision
  /\ next.step = step /\ next.member = member /\ next.phase = phase

NextStepBegins(next) ==
  /\ w.step < Len(Steps[w.op])
  /\ Continues(next, w.step + 1, 1, "source")
  /\ next.sources = <<>> /\ next.targets = <<>> /\ next.observed = <<>>
  /\ next.confirmed = w.confirmed

\* After a step comes the next one, or the end of the plan.
LEMMA NextStepEffect ==
  ASSUME w \in WorkerRecord, w.pc = "running"
  PROVE  \/ NextStepBegins(NextStep)
         \/ ~(w.step < Len(Steps[w.op])) /\ Ends(NextStep, "organized")
<1>1. CASE w.step < Len(Steps[w.op])
  <2>1. w.step + 1 \in Nat
    BY DEF WorkerRecord
  <2> QED BY <1>1, <2>1, PutTypes
          DEF NextStep, NextStepBegins, Continues, WorkerRecord
<1>2. CASE ~(w.step < Len(Steps[w.op]))
  BY <1>2, FinishingEnds DEF NextStep
<1> QED BY <1>1, <1>2

\* The member the worker is at, while it is inside of an operation.
LEMMA MemberTypes ==
  ASSUME TypeInv, Inside, w.pc = "running"
  PROVE  /\ w.op \in Operations /\ w.step \in DOMAIN Steps[w.op]
         /\ Step \in Seq(StepExpectation) /\ w.member \in 1..Len(Step)
         /\ Member \in StepExpectation /\ Member \in GroupOf(Step)
         /\ Member \in Members(w.op) /\ Member.object \in Objects
         /\ TargetPlace(Member) \in Parents \X Names
         /\ GroupOf(Step) \subseteq Members(w.op)
         /\ ~LastMember => w.member + 1 \in 1..Len(Step)
         /\ 1 \in 1..Len(Step)
<1>1. /\ w.op \in Operations /\ w.step \in DOMAIN Steps[w.op]
      /\ w.member \in DOMAIN Steps[w.op][w.step]
  BY DEF Inside
<1>2. Step \in Seq(StepExpectation) /\ w.member \in 1..Len(Step) /\ 1 \in DOMAIN Step
      /\ GroupOf(Step) \subseteq Members(w.op)
  BY <1>1, StepTypes DEF Step
<1>3. Member \in StepExpectation /\ Member \in GroupOf(Step) /\ Member \in Members(w.op)
  BY <1>1, StepTypes DEF Member, Step
<1>4. Member.object \in Objects /\ TargetPlace(Member) \in Parents \X Names
  BY <1>3 DEF StepExpectation, TargetPlace
<1> QED BY <1>1, <1>2, <1>3, <1>4 DEF LastMember

\* Reading the source goes on with the target, or ends the operation.
LEMMA ReadSourceEffect ==
  ASSUME TypeInv, Inside, ReadSource
  PROVE  /\ w.pc = "running" /\ w.phase = "source" /\ UNCHANGED <<drive, late>>
         /\ \E next \in WorkerRecord :
              /\ Call(next)
              /\ \/ Ends(next, "uncertain")
                 \/ \E seen \in ReadObjectAnswers(Member) :
                      /\ Continues(next, w.step, w.member, "target")
                      /\ next.sources = Put(w.sources, Member.object, seen)
                      /\ next.targets = w.targets /\ next.observed = w.observed
                      /\ next.confirmed = w.confirmed
<1>t. w \in WorkerRecord
  BY DEF TypeInv
<1>1. w.pc = "running" /\ w.phase = "source" /\ UNCHANGED <<drive, late>>
  BY DEF ReadSource
<1>2. CASE Call(Finishing("uncertain"))
  BY <1>1, <1>2, <1>t, FinishingEnds DEF Ends
<1>3. ASSUME NEW seen \in ReadObjectAnswers(Member),
             Call([w EXCEPT !.sources = Put(@, Member.object, seen),
                            !.phase = "target"])
      PROVE  \E next \in WorkerRecord :
               /\ Call(next)
               /\ Continues(next, w.step, w.member, "target")
               /\ next.sources = Put(w.sources, Member.object, seen)
               /\ next.targets = w.targets /\ next.observed = w.observed
               /\ next.confirmed = w.confirmed
  <2> DEFINE next == [w EXCEPT !.sources = Put(@, Member.object, seen),
                               !.phase = "target"]
  <2>1. Put(w.sources, Member.object, seen) \in ObjectMap
    BY <1>1, <1>t, MemberTypes, Answers, PutTypes DEF WorkerRecord
  <2>2. /\ Continues(next, w.step, w.member, "target")
        /\ next.sources = Put(w.sources, Member.object, seen)
        /\ next.targets = w.targets /\ next.observed = w.observed
        /\ next.confirmed = w.confirmed
    BY <1>1, <1>t, <2>1 DEF Continues, WorkerRecord
  <2> QED BY <1>3, <2>2 DEF Continues
<1> QED BY <1>1, <1>2, <1>3 DEF ReadSource

\* The decision on a step, case by case.
LEMMA DecideEffect ==
  ASSUME TypeInv, w.pc = "running", NEW targets \in PlaceMap
  PROVE  LET check == CheckGroupBeforeWrite(GroupOf(Step), w.sources, targets)
             next == Decide(targets)
         IN \/ /\ check.status = "ready"
               /\ Continues(next, w.step, 1, "move")
               /\ next.observed = w.observed /\ next.confirmed = w.confirmed
            \/ /\ check.status = "already_applied"
               /\ \/ NextStepBegins(next)
                  \/ ~(w.step < Len(Steps[w.op])) /\ Ends(next, "organized")
            \/ \E result \in {"failed", "uncertain"} : Ends(next, result)
<1> DEFINE check == CheckGroupBeforeWrite(GroupOf(Step), w.sources, targets)
           next == Decide(targets)
<1>t. w \in WorkerRecord
  BY DEF TypeInv
<1>1. check.status \in {"ready", "already_applied", "conflict", "uncertain"}
  BY DEF CheckGroupBeforeWrite, AggregateBeforeWrite, Result
<1> HIDE DEF check
<1>2. next = CASE check.status = "ready" ->
                    [w EXCEPT !.targets = targets, !.member = 1, !.phase = "move"]
               [] check.status = "already_applied" ->
                    IF TakenByOther(targets) THEN Finishing("failed") ELSE NextStep
               [] check.status = "uncertain" -> Finishing("uncertain")
               [] check.status = "conflict" ->
                    Finishing(IF check.code = "group_partial_state"
                              THEN "uncertain" ELSE "failed")
  BY DEF Decide, check
<1> HIDE DEF next
<1>3. CASE check.status = "ready"
  <2>1. next = [w EXCEPT !.targets = targets, !.member = 1, !.phase = "move"]
    BY <1>2, <1>3
  <2>2. /\ Continues(next, w.step, 1, "move")
        /\ next.observed = w.observed /\ next.confirmed = w.confirmed
    BY <1>t, <2>1 DEF Continues, WorkerRecord
  <2> QED BY <1>3, <2>2 DEF check, next
<1>4. CASE check.status = "already_applied"
  <2>1. next = IF TakenByOther(targets) THEN Finishing("failed") ELSE NextStep
    BY <1>2, <1>4
  <2> QED BY <1>4, <1>t, <2>1, FinishingEnds, NextStepEffect DEF check, next
<1>5. CASE check.status = "uncertain"
  <2>1. next = Finishing("uncertain")
    BY <1>2, <1>5
  <2> QED BY <1>t, <2>1, FinishingEnds DEF check, next
<1>6. CASE check.status = "conflict"
  <2>1. next = Finishing("uncertain") \/ next = Finishing("failed")
    BY <1>2, <1>6
  <2> QED BY <1>t, <2>1, FinishingEnds DEF check, next
<1> QED BY <1>1, <1>3, <1>4, <1>5, <1>6 DEF check

\* Reading the target goes on with the next member, with the writes, or ends the operation.
LEMMA ReadTargetEffect ==
  ASSUME TypeInv, Inside, ReadTargetPlace
  PROVE  /\ w.pc = "running" /\ w.phase = "target" /\ UNCHANGED <<drive, late>>
         /\ \E next \in WorkerRecord :
              /\ Call(next)
              /\ \/ Ends(next, "uncertain")
                 \/ \E seen \in ReadTargetAnswers(Member) :
                      /\ ~LastMember
                      /\ Continues(next, w.step, w.member + 1, "source")
                      /\ next.targets = Put(w.targets, TargetPlace(Member), seen)
                      /\ next.sources = w.sources /\ next.observed = w.observed
                      /\ next.confirmed = w.confirmed
                 \/ \E seen \in ReadTargetAnswers(Member) :
                      /\ LastMember
                      /\ next = Decide(Put(w.targets, TargetPlace(Member), seen))
<1>t. w \in WorkerRecord
  BY DEF TypeInv
<1>1. w.pc = "running" /\ w.phase = "target" /\ UNCHANGED <<drive, late>>
  BY DEF ReadTargetPlace
<1>2. CASE Call(Finishing("uncertain"))
  BY <1>1, <1>2, <1>t, FinishingEnds DEF Ends
<1>3. ASSUME NEW seen \in ReadTargetAnswers(Member),
             Call(IF LastMember
                  THEN Decide(Put(w.targets, TargetPlace(Member), seen))
                  ELSE [w EXCEPT !.targets = Put(w.targets, TargetPlace(Member), seen),
                                 !.member = @ + 1, !.phase = "source"])
      PROVE  \E next \in WorkerRecord :
               /\ Call(next)
               /\ \/ /\ ~LastMember
                     /\ Continues(next, w.step, w.member + 1, "source")
                     /\ next.targets = Put(w.targets, TargetPlace(Member), seen)
                     /\ next.sources = w.sources /\ next.observed = w.observed
                     /\ next.confirmed = w.confirmed
                  \/ /\ LastMember
                     /\ next = Decide(Put(w.targets, TargetPlace(Member), seen))
  <2> DEFINE targets == Put(w.targets, TargetPlace(Member), seen)
             next == [w EXCEPT !.targets = targets, !.member = @ + 1,
                               !.phase = "source"]
  <2>1. targets \in PlaceMap
    BY <1>1, <1>t, MemberTypes, Answers, PutTypes DEF WorkerRecord
  <2>2. CASE LastMember
    <3>1. Call(Decide(targets))
      BY <1>3, <2>2
    <3>2. Decide(targets) \in WorkerRecord
      BY <1>1, <2>1, DecideEffect DEF Continues, Ends, NextStepBegins
    <3> QED BY <2>2, <3>1, <3>2
  <2>3. CASE ~LastMember
    <3>1. Call(next)
      BY <1>3, <2>3
    <3>2. w.member + 1 \in Nat
      BY <1>t DEF WorkerRecord
    <3> HIDE DEF targets
    <3>3. /\ Continues(next, w.step, w.member + 1, "source")
          /\ next.targets = targets /\ next.sources = w.sources
          /\ next.observed = w.observed /\ next.confirmed = w.confirmed
      BY <1>1, <1>t, <2>1, <3>2 DEF Continues, WorkerRecord
    <3>4. next \in WorkerRecord
      BY <3>3 DEF Continues
    <3> HIDE DEF next
    <3> QED BY <2>3, <3>1, <3>3, <3>4 DEF targets
  <2> QED BY <2>2, <2>3
<1> QED BY <1>1, <1>2, <1>3 DEF ReadTargetPlace

\* A write is applied, is kept for later, or never arrives.
LEMMA WriteEffect ==
  ASSUME TypeInv, Inside, WriteObject
  PROVE  /\ w.pc = "running" /\ w.phase \in {"move", "rename"}
         /\ \E next \in WorkerRecord :
              /\ Call(next)
              /\ LET write == [kind |-> w.phase, member |-> Member]
                 IN \/ /\ drive[Member.object] # Nowhere /\ Apply(write)
                       /\ UNCHANGED late
                       /\ \/ /\ w.phase = "move"
                             /\ Continues(next, w.step, w.member, "rename")
                          \/ /\ w.phase = "rename" /\ ~LastMember
                             /\ Continues(next, w.step, w.member + 1, "move")
                          \/ /\ w.phase = "rename" /\ LastMember
                             /\ Continues(next, w.step, 1, "verify")
                       /\ next.confirmed = TRUE /\ next.observed = w.observed
                    \/ /\ Ends(next, AfterFailedWrite) /\ UNCHANGED <<drive, late>>
                    \/ /\ Ends(next, "uncertain")
                       /\ UNCHANGED drive \/ Apply(write)
                       /\ late' \subseteq late \cup {write}
<1> DEFINE write == [kind |-> w.phase, member |-> Member]
           ended(status) == [Finishing(status) EXCEPT !.started = TRUE]
<1>t. w \in WorkerRecord
  BY DEF TypeInv
<1>1. w.pc = "running" /\ w.phase \in {"move", "rename"}
  BY DEF WriteObject
<1>2. \/ /\ drive[Member.object] # Nowhere /\ Apply(write)
         /\ Call(AfterWrite) /\ UNCHANGED late
      \/ Call(ended(AfterFailedWrite)) /\ UNCHANGED <<drive, late>>
      \/ /\ Call(ended("uncertain"))
         /\ UNCHANGED drive \/ Apply(write)
         /\ late' \subseteq late \cup {write}
  BY DEF WriteObject, AfterUnknownWrite
<1>3. AfterFailedWrite \in {"failed", "uncertain"}
  BY DEF AfterFailedWrite
<1>4. Ends(ended(AfterFailedWrite), AfterFailedWrite) /\ Ends(ended("uncertain"), "uncertain")
  BY <1>t, <1>3, FinishingEnds
<1>5. /\ \/ /\ w.phase = "move"
            /\ Continues(AfterWrite, w.step, w.member, "rename")
         \/ /\ w.phase = "rename" /\ ~LastMember
            /\ Continues(AfterWrite, w.step, w.member + 1, "move")
         \/ /\ w.phase = "rename" /\ LastMember
            /\ Continues(AfterWrite, w.step, 1, "verify")
      /\ AfterWrite.confirmed = TRUE /\ AfterWrite.observed = w.observed
  <2>1. w.member + 1 \in Nat
    BY <1>t DEF WorkerRecord
  <2>2. CASE w.phase = "move"
    <3>1. AfterWrite = [w EXCEPT !.started = TRUE, !.confirmed = TRUE, !.phase = "rename"]
      BY <2>2 DEF AfterWrite
    <3> QED BY <1>1, <1>t, <2>2, <3>1 DEF Continues, WorkerRecord
  <2>3. CASE w.phase = "rename" /\ ~LastMember
    <3>1. AfterWrite = [w EXCEPT !.started = TRUE, !.confirmed = TRUE, !.phase = "move",
                                 !.member = @ + 1]
      BY <2>3 DEF AfterWrite
    <3> QED BY <1>1, <1>t, <2>1, <2>3, <3>1 DEF Continues, WorkerRecord
  <2>4. CASE w.phase = "rename" /\ LastMember
    <3>1. AfterWrite = [w EXCEPT !.started = TRUE, !.confirmed = TRUE, !.phase = "verify",
                                 !.member = 1]
      BY <2>4 DEF AfterWrite
    <3> QED BY <1>1, <1>t, <2>4, <3>1 DEF Continues, WorkerRecord
  <2> QED BY <1>1, <2>2, <2>3, <2>4
<1>6. CASE /\ drive[Member.object] # Nowhere /\ Apply(write)
           /\ Call(AfterWrite) /\ UNCHANGED late
  <2>1. AfterWrite \in WorkerRecord
    BY <1>5 DEF Continues
  <2> QED BY <1>1, <1>5, <1>6, <2>1
<1>7. CASE Call(ended(AfterFailedWrite)) /\ UNCHANGED <<drive, late>>
  <2>1. ended(AfterFailedWrite) \in WorkerRecord
    BY <1>4 DEF Ends
  <2> QED BY <1>1, <1>4, <1>7, <2>1
<1>8. CASE /\ Call(ended("uncertain"))
           /\ UNCHANGED drive \/ Apply(write)
           /\ late' \subseteq late \cup {write}
  <2>1. ended("uncertain") \in WorkerRecord
    BY <1>4 DEF Ends
  <2> HIDE DEF ended
  <2> QED BY <1>1, <1>4, <1>8, <2>1
<1> QED BY <1>2, <1>6, <1>7, <1>8

\* Reading back goes on with the next member or the next step, or ends the operation.
LEMMA VerifyEffect ==
  ASSUME TypeInv, Inside, Verify
  PROVE  /\ w.pc = "running" /\ w.phase = "verify" /\ UNCHANGED <<drive, late>>
         /\ \E next \in WorkerRecord :
              /\ Call(next)
              /\ \/ Ends(next, "uncertain")
                 \/ \E seen \in ReadObjectAnswers(Member) :
                      LET observed == Put(w.observed, Member.object, seen)
                      IN \/ /\ ~LastMember
                            /\ Continues(next, w.step, w.member + 1, "verify")
                            /\ next.observed = observed
                            /\ next.confirmed = w.confirmed
                         \/ /\ LastMember
                            /\ CheckGroupAfterWrite(GroupOf(Step), observed).status
                                 = "already_applied"
                            /\ \/ NextStepBegins(next)
                               \/ /\ ~(w.step < Len(Steps[w.op]))
                                  /\ Ends(next, "organized")
<1>t. w \in WorkerRecord
  BY DEF TypeInv
<1>1. w.pc = "running" /\ w.phase = "verify" /\ UNCHANGED <<drive, late>>
  BY DEF Verify
<1>2. CASE Call(Finishing("uncertain"))
  BY <1>1, <1>2, <1>t, FinishingEnds DEF Ends
<1>3. ASSUME NEW seen \in ReadObjectAnswers(Member), NEW observed,
             observed = Put(w.observed, Member.object, seen),
             NEW status, status = CheckGroupAfterWrite(GroupOf(Step), observed).status,
             Call(CASE ~LastMember ->
                         [w EXCEPT !.observed = observed, !.member = @ + 1]
                    [] LastMember /\ status = "already_applied" -> NextStep
                    [] OTHER -> Finishing("uncertain"))
      PROVE  \E next \in WorkerRecord :
               /\ Call(next)
               /\ \/ Ends(next, "uncertain")
                  \/ /\ ~LastMember
                     /\ Continues(next, w.step, w.member + 1, "verify")
                     /\ next.observed = observed
                     /\ next.confirmed = w.confirmed
                  \/ /\ LastMember /\ status = "already_applied"
                     /\ \/ NextStepBegins(next)
                        \/ /\ ~(w.step < Len(Steps[w.op]))
                           /\ Ends(next, "organized")
  <2>1. observed \in ObjectMap
    BY <1>1, <1>3, <1>t, MemberTypes, Answers, PutTypes DEF WorkerRecord
  <2>2. CASE ~LastMember
    <3> DEFINE next == [w EXCEPT !.observed = observed, !.member = @ + 1]
    <3>1. Call(next)
      BY <1>3, <2>2
    <3>2. w.member + 1 \in Nat
      BY <1>t DEF WorkerRecord
    <3>3. /\ Continues(next, w.step, w.member + 1, "verify")
          /\ next.observed = observed /\ next.confirmed = w.confirmed
      BY <1>1, <1>t, <2>1, <3>2 DEF Continues, WorkerRecord
    <3>4. next \in WorkerRecord
      BY <3>3 DEF Continues
    <3> HIDE DEF next
    <3> QED BY <2>2, <3>1, <3>3, <3>4
  <2>3. CASE LastMember /\ status = "already_applied"
    <3>1. Call(NextStep)
      BY <1>3, <2>3
    <3>2. \/ NextStepBegins(NextStep)
          \/ ~(w.step < Len(Steps[w.op])) /\ Ends(NextStep, "organized")
      BY <1>1, <1>t, NextStepEffect
    <3>3. NextStep \in WorkerRecord
      BY <3>2 DEF NextStepBegins, Continues, Ends
    <3> QED BY <2>3, <3>1, <3>2, <3>3
  <2>4. CASE LastMember /\ status # "already_applied"
    <3>1. Call(Finishing("uncertain"))
      BY <1>3, <2>4
    <3>2. Ends(Finishing("uncertain"), "uncertain")
      BY <1>t, FinishingEnds
    <3> QED BY <3>1, <3>2 DEF Ends
  <2> QED BY <2>2, <2>3, <2>4
<1>4. ASSUME NEW seen \in ReadObjectAnswers(Member),
             Call(CASE ~LastMember ->
                         [w EXCEPT !.observed = Put(w.observed, Member.object, seen),
                                   !.member = @ + 1]
                    [] LastMember /\ CheckGroupAfterWrite(GroupOf(Step),
                         Put(w.observed, Member.object, seen)).status
                           = "already_applied" -> NextStep
                    [] OTHER -> Finishing("uncertain"))
      PROVE  \E next \in WorkerRecord :
               /\ Call(next)
               /\ \/ Ends(next, "uncertain")
                  \/ /\ ~LastMember
                     /\ Continues(next, w.step, w.member + 1, "verify")
                     /\ next.observed = Put(w.observed, Member.object, seen)
                     /\ next.confirmed = w.confirmed
                  \/ /\ LastMember
                     /\ CheckGroupAfterWrite(GroupOf(Step),
                          Put(w.observed, Member.object, seen)).status
                            = "already_applied"
                     /\ \/ NextStepBegins(next)
                        \/ /\ ~(w.step < Len(Steps[w.op]))
                           /\ Ends(next, "organized")
  BY <1>3, <1>4
<1> QED BY <1>1, <1>2, <1>4 DEF Verify

-----------------------------------------------------------------------------
(***************************************************************************)
(* Type correctness, and the row of the worker's operation.                *)
(***************************************************************************)
LEMMA RowIsKeptImpliesInside ==
  ASSUME TypeInv, RowIsKept
  PROVE  /\ Inside
         /\ w.op # NoOperation <=>
              w.pc \in {"claimed", "loaded", "running", "finishing"}
         /\ w.op # NoOperation => w.op \in Operations
<1>1. w.op \in Operations \cup {NoOperation}
  BY DEF TypeInv, WorkerRecord
<1>2. CASE w.op = NoOperation
  BY <1>2, PollingType DEF RowIsKept, Inside
<1>3. CASE w.op # NoOperation
  BY <1>1, <1>3 DEF RowIsKept, Inside
<1> QED BY <1>2, <1>3

\* The row after a renewal.
LEMMA RenewedTypes ==
  ASSUME TypeInv, w.op \in Operations
  PROVE  /\ RenewedRow(op[w.op], now) \in OperationRow
         /\ RenewedRow(op[w.op], now).status = op[w.op].status
         /\ RenewedRow(op[w.op], now).token = op[w.op].token
         /\ RenewedRow(op[w.op], now).revision = op[w.op].revision + 1
         /\ op[w.op].revision \in Nat /\ w.revision \in Nat
<1>1. op[w.op] \in OperationRow /\ now \in Nat
  BY DEF TypeInv
<1>2. RenewedRow(op[w.op], now) \in OperationRow
  BY <1>1, RowTypes
<1>3. /\ RenewedRow(op[w.op], now).status = op[w.op].status
      /\ RenewedRow(op[w.op], now).token = op[w.op].token
      /\ RenewedRow(op[w.op], now).revision = op[w.op].revision + 1
  BY <1>1, RowColumns
<1>4. op[w.op].revision \in Nat /\ w.revision \in Nat
  BY <1>1 DEF OperationRow, TypeInv, WorkerRecord
<1> QED BY <1>2, <1>3, <1>4

\* A write moves its object and nothing else.
LEMMA ApplyEffect ==
  ASSUME TypeInv, NEW write \in Write, Apply(write)
  PROVE  /\ drive' \in [Objects -> Place]
         /\ write.member.object \in Objects
         /\ drive'[write.member.object] = PlaceAfter(write)
         /\ \A x \in Objects : x # write.member.object => drive'[x] = drive[x]
<1>1. /\ write.member.object \in Objects /\ write.member.targetParent \in Parents
      /\ write.member.targetName \in Names
  BY DEF Write, StepExpectation
<1>2. drive \in [Objects -> Place] /\ drive[write.member.object] \in Place
  BY <1>1 DEF TypeInv
<1>3. PlaceAfter(write) \in Place
  <2>1. CASE drive[write.member.object] = Nowhere
    BY <2>1 DEF PlaceAfter, Place
  <2>2. CASE drive[write.member.object] # Nowhere
    <3>1. PICK parent \in Parents, name \in Names :
            drive[write.member.object] = <<parent, name>>
      BY <1>2, <2>2 DEF Place
    <3>2. \/ PlaceAfter(write) = <<write.member.targetParent, name>>
          \/ PlaceAfter(write) = <<parent, write.member.targetName>>
      BY <2>2, <3>1 DEF PlaceAfter
    <3> QED BY <1>1, <3>2 DEF Place
  <2> QED BY <2>1, <2>2
<1> QED BY <1>1, <1>2, <1>3 DEF Apply

\* What a call leaves behind, as far as the worker and its row go.
LEMMA CallKeeps ==
  ASSUME TypeInv, RowIsKept, w.pc = "running",
         NEW next \in WorkerRecord, Call(next),
         next.pc \in {"running", "finishing"}, next.op = w.op,
         next.claimed = w.claimed,
         next.step \in DOMAIN Steps[w.op],
         next.member \in DOMAIN Steps[w.op][next.step],
         next.pc = "finishing" => next.result # "none",
         drive' \in [Objects -> Place], late' \subseteq Write
  PROVE  TypeInv' /\ RowIsKept'
<1>1. /\ Becomes(next) /\ w'.revision = w.revision + 1
      /\ op' = [op EXCEPT ![w.op] = RenewedRow(@, now)]
      /\ UNCHANGED <<plan, dirty, touched, now, issued>>
  BY CallEffect
<1>2. w.op \in Operations /\ w.op # NoOperation
  BY RowIsKeptImpliesInside
<1>3. op[w.op] \in OperationRow /\ now \in Nat /\ w \in WorkerRecord
  BY <1>2 DEF TypeInv
<1>4. /\ op' \in [Operations -> OperationRow]
      /\ op'[w.op].status = "organizing"
      /\ op'[w.op].revision = op[w.op].revision + 1
  <2>1. RenewedRow(op[w.op], now) \in OperationRow
    BY <1>3, RowTypes
  <2>2. op'[w.op] = RenewedRow(op[w.op], now)
    BY <1>1, <1>2 DEF TypeInv
  <2>3. op[w.op].status = "organizing"
    BY <1>2 DEF RowIsKept
  <2>4. /\ RenewedRow(op[w.op], now).status = op[w.op].status
        /\ RenewedRow(op[w.op], now).revision = op[w.op].revision + 1
    BY <1>3, RowColumns
  <2>5. op' \in [Operations -> OperationRow]
    BY <1>1, <2>1 DEF TypeInv
  <2> QED BY <2>2, <2>3, <2>4, <2>5
<1>5. TypeInv'
  BY <1>1, <1>4 DEF TypeInv, Becomes
<1>6. w'.claimed <= w'.revision /\ w'.revision <= op'[w.op].revision
  <2>1. w.claimed <= w.revision /\ w.revision <= op[w.op].revision
    BY <1>2 DEF RowIsKept
  <2>2. {w.claimed, w.revision, op[w.op].revision} \subseteq Nat
    BY <1>3 DEF WorkerRecord, OperationRow
  <2>3. w'.claimed = w.claimed
    BY <1>1 DEF Becomes
  <2> QED BY <1>1, <1>4, <2>1, <2>2, <2>3
<1>7. RowIsKept'
  BY <1>1, <1>2, <1>4, <1>6 DEF RowIsKept, Becomes
<1> QED BY <1>5, <1>7

\* ... with the shapes of a record that the calls leave: the worker ends its
\* operation, begins the next step, or is at some member of the same step.
StaysInStep(next) ==
  /\ next.pc = "running" /\ next.op = w.op /\ next.token = w.token
  /\ next.claimed = w.claimed
  /\ next.step = w.step /\ next.member \in DOMAIN Step

GoesOn(next) ==
  \/ Ends(next, "organized") \/ Ends(next, "failed") \/ Ends(next, "uncertain")
  \/ StaysInStep(next)
  \/ NextStepBegins(next)

\* What goes on with a member of the step stays in the step.
LEMMA MembersOfStep ==
  ASSUME TypeInv, Inside, w.pc = "running", NEW next, NEW phase
  PROVE  /\ Continues(next, w.step, w.member, phase) => StaysInStep(next)
         /\ Continues(next, w.step, 1, phase) => StaysInStep(next)
         /\ ~LastMember /\ Continues(next, w.step, w.member + 1, phase)
              => StaysInStep(next)
<1>1. /\ w.member \in DOMAIN Step /\ 1 \in DOMAIN Step
      /\ ~LastMember => w.member + 1 \in DOMAIN Step
  BY MemberTypes
<1> QED BY <1>1 DEF Continues, StaysInStep

\* A call that goes on keeps the types and the row.
LEMMA CallGoesOn ==
  ASSUME TypeInv, RowIsKept, w.pc = "running",
         NEW next \in WorkerRecord, Call(next),
         GoesOn(next), drive' \in [Objects -> Place], late' \subseteq Write
  PROVE  TypeInv' /\ RowIsKept'
<1>1. /\ w.op \in Operations /\ w.step \in DOMAIN Steps[w.op]
      /\ w.member \in DOMAIN Steps[w.op][w.step]
  BY RowIsKeptImpliesInside DEF Inside
<1>2. CASE Ends(next, "organized") \/ Ends(next, "failed") \/ Ends(next, "uncertain")
  BY <1>1, <1>2, CallKeeps DEF Ends
<1>3. CASE StaysInStep(next)
  BY <1>1, <1>3, CallKeeps DEF StaysInStep, Step
<1>4. CASE NextStepBegins(next)
  <2>1. w.step + 1 \in DOMAIN Steps[w.op] /\ 1 \in DOMAIN Steps[w.op][w.step + 1]
    <3>1. Steps[w.op] \in Seq(Seq(StepExpectation))
      BY <1>1, StepTypes
    <3>2. w.step + 1 \in DOMAIN Steps[w.op]
      BY <1>1, <1>4, <3>1 DEF NextStepBegins
    <3> QED BY <1>1, <3>2, StepTypes
  <2> QED BY <1>4, <2>1, CallKeeps DEF NextStepBegins, Continues
<1> QED BY <1>2, <1>3, <1>4 DEF GoesOn

\* Steps at which the worker lets go of its operation.
LEMMA LeavingKeeps ==
  ASSUME TypeInv, RowIsKept, w' \in {Polling, Stopped},
         \/ UNCHANGED op
         \/ \E s \in OperationStatus :
              w.op \in Operations /\ op' = [op EXCEPT ![w.op] = FinishedRow(@, s)],
         dirty' \subseteq Operations \X Parents,
         UNCHANGED <<plan, drive, late, touched, now, issued>>
  PROVE  TypeInv' /\ RowIsKept'
<1>1. op' \in [Operations -> OperationRow]
  BY RowTypes DEF TypeInv
<1>2. w' \in WorkerRecord /\ w'.op = NoOperation
  BY PollingType
<1> QED BY <1>1, <1>2, PollingType DEF TypeInv, RowIsKept

\* At the start the worker has no operation.
LEMMA KeptInitially == Init => TypeInv /\ RowIsKept
<1> SUFFICES ASSUME Init PROVE TypeInv /\ RowIsKept
  OBVIOUS
<1>1. op \in [Operations -> OperationRow]
  BY RowTypes DEF Init
<1>2. \A x \in Objects : Home(x) \in Place
  <2> SUFFICES ASSUME NEW x \in Objects PROVE Home(x) \in Place
    OBVIOUS
  <2> DEFINE planned ==
               {e \in UNION {Members(o) : o \in Operations} : e.object = x}
  <2>1. planned \subseteq StepExpectation
    BY StepTypes
  <2>2. CASE planned = {}
    BY <2>2 DEF Home, Place
  <2>3. CASE planned # {}
    <3>1. (CHOOSE e \in planned : TRUE) \in StepExpectation
      BY <2>1, <2>3
    <3> QED BY <2>3, <3>1 DEF Home, Place, StepExpectation
  <2> QED BY <2>2, <2>3
<1>3. w \in WorkerRecord /\ w.op = NoOperation
  BY PollingType DEF Init
<1> QED BY <1>1, <1>2, <1>3, PollingType DEF Init, TypeInv, RowIsKept

\* The remote calls, and what each of them makes of the worker.
Calls == ReadSource \/ ReadTargetPlace \/ WriteObject \/ Verify

\* All calls go on.
LEMMA CallsGoOn ==
  ASSUME TypeInv, Inside, Calls
  PROVE  /\ w.pc = "running"
         /\ drive' \in [Objects -> Place] /\ late' \subseteq Write
         /\ \E next \in WorkerRecord : Call(next) /\ GoesOn(next)
<1>2. drive \in [Objects -> Place] /\ late \subseteq Write
  BY DEF TypeInv
<1>3. CASE ReadSource
  <2>1. PICK next \in WorkerRecord :
          /\ Call(next)
          /\ Ends(next, "uncertain") \/ Continues(next, w.step, w.member, "target")
    BY <1>3, ReadSourceEffect
  <2>2. w.pc = "running" /\ UNCHANGED <<drive, late>>
    BY <1>3, ReadSourceEffect
  <2>3. GoesOn(next)
    BY <2>1, <2>2, MembersOfStep DEF GoesOn
  <2> QED BY <1>2, <2>1, <2>2, <2>3
<1>4. CASE ReadTargetPlace
  <2>1. PICK next \in WorkerRecord :
          /\ Call(next)
          /\ \/ Ends(next, "uncertain")
             \/ ~LastMember /\ Continues(next, w.step, w.member + 1, "source")
             \/ \E seen \in ReadTargetAnswers(Member) :
                  next = Decide(Put(w.targets, TargetPlace(Member), seen))
    BY <1>4, ReadTargetEffect
  <2>2. w.pc = "running" /\ UNCHANGED <<drive, late>>
    BY <1>4, ReadTargetEffect
  <2>3. ASSUME NEW seen \in ReadTargetAnswers(Member)
        PROVE  Put(w.targets, TargetPlace(Member), seen) \in PlaceMap
    BY <2>2, MemberTypes, Answers, PutTypes DEF TypeInv, WorkerRecord
  <2>4. ASSUME \E seen \in ReadTargetAnswers(Member) :
                 next = Decide(Put(w.targets, TargetPlace(Member), seen))
        PROVE  GoesOn(next)
    <3>1. PICK targets \in PlaceMap : next = Decide(targets)
      BY <2>3, <2>4
    <3>2. \/ Continues(next, w.step, 1, "move") \/ NextStepBegins(next)
          \/ Ends(next, "organized")
          \/ \E result \in {"failed", "uncertain"} : Ends(next, result)
      BY <2>2, <3>1, DecideEffect
    <3>3. Continues(next, w.step, 1, "move") => StaysInStep(next)
      BY <2>2, MembersOfStep
    <3>4. GoesOn(next)
      BY <3>2, <3>3 DEF GoesOn
    <3> QED BY <3>4
  <2>5. ~LastMember /\ Continues(next, w.step, w.member + 1, "source")
          => StaysInStep(next)
    BY <2>2, MembersOfStep
  <2>6. GoesOn(next)
    BY <2>1, <2>4, <2>5 DEF GoesOn
  <2> QED BY <1>2, <2>1, <2>2, <2>6
<1>5. CASE WriteObject
  <2> DEFINE write == [kind |-> w.phase, member |-> Member]
  <2>1. w.pc = "running" /\ w.phase \in {"move", "rename"}
    BY <1>5, WriteEffect
  <2>2. write \in Write
    BY <2>1, MemberTypes DEF Write
  <2>3. PICK next \in WorkerRecord :
          /\ Call(next)
          /\ UNCHANGED drive \/ Apply(write)
          /\ late' \subseteq late \cup {write}
          /\ \/ Continues(next, w.step, w.member, "rename")
             \/ ~LastMember /\ Continues(next, w.step, w.member + 1, "move")
             \/ Continues(next, w.step, 1, "verify")
             \/ \E result \in {"failed", "uncertain"} : Ends(next, result)
    <3> HIDE DEF write
    <3>1. AfterFailedWrite \in {"failed", "uncertain"}
      BY DEF AfterFailedWrite
    <3> QED BY <1>5, <3>1, WriteEffect DEF write
  <2>4. drive' \in [Objects -> Place] /\ late' \subseteq Write
    BY <1>2, <2>2, <2>3, ApplyEffect
  <2>5. GoesOn(next)
    BY <2>1, <2>3, MembersOfStep DEF GoesOn
  <2> QED BY <2>1, <2>3, <2>4, <2>5
<1>6. CASE Verify
  <2>1. PICK next \in WorkerRecord :
          /\ Call(next)
          /\ \/ Ends(next, "uncertain") \/ Ends(next, "organized")
             \/ NextStepBegins(next)
             \/ ~LastMember /\ Continues(next, w.step, w.member + 1, "verify")
    BY <1>6, VerifyEffect
  <2>2. w.pc = "running" /\ UNCHANGED <<drive, late>>
    BY <1>6, VerifyEffect
  <2>3. GoesOn(next)
    BY <2>1, <2>2, MembersOfStep DEF GoesOn
  <2> QED BY <1>2, <2>1, <2>2, <2>3
<1> QED BY <1>3, <1>4, <1>5, <1>6 DEF Calls

\* The calls keep the types and the row.
LEMMA KeptByCalls == ASSUME TypeInv, RowIsKept, Calls PROVE TypeInv' /\ RowIsKept'
BY CallsGoOn, CallGoesOn, RowIsKeptImpliesInside

\* Whatever the environment does to the rows, the drive and the clock.
LEMMA KeptByOthers ==
  ASSUME TypeInv, RowIsKept, UNCHANGED w,
         \/ UNCHANGED op
         \/ \E o \in Operations :
              /\ op[o].status # "organizing"
              /\ op' = [op EXCEPT ![o] = CancelledRow(@)]
                 \/ op' = [op EXCEPT ![o] = RetriedRow(@)],
         plan' \in [Operations -> {"approved", "amended", "superseded", "withdrawn"}],
         UNCHANGED <<dirty, issued>>,
         drive' \in [Objects -> Place], late' \subseteq late,
         touched' \subseteq Objects, now' \in Nat
  PROVE  TypeInv' /\ RowIsKept'
<1>1. op' \in [Operations -> OperationRow]
  BY RowTypes DEF TypeInv
<1>2. TypeInv'
  BY <1>1 DEF TypeInv
<1>3. w.op # NoOperation => op'[w.op] = op[w.op]
  BY RowIsKeptImpliesInside DEF TypeInv, RowIsKept
<1>4. RowIsKept'
  BY <1>3 DEF RowIsKept, Polling, Stopped
<1> QED BY <1>2, <1>4

\* So does what the worker does between them, and what stops it.
LEMMA KeptByWorker ==
  ASSUME TypeInv, RowIsKept, WorkerStep \/ StartWorker \/ LocalFailure \/ CancelWorker
                             \/ KillWorker
  PROVE  TypeInv' /\ RowIsKept'
<1>t. /\ w \in WorkerRecord /\ now \in Nat /\ issued \in Nat
      /\ op \in [Operations -> OperationRow]
      /\ dirty \subseteq Operations \X Parents
  BY DEF TypeInv
<1>0. Inside
  BY RowIsKeptImpliesInside
<1>r. Rest \in {Polling, Stopped}
  BY PollingType
<1>s. {"failed", "uncertain", "organized"} \subseteq OperationStatus
  BY DEF OperationStatus
<1>1. CASE ClaimNext
  <2>1. PICK o \in Operations, budget \in Budgets :
          /\ issued' = issued + 1
          /\ op' = [op EXCEPT ![o] = ClaimedRow(@, issued', now)]
          /\ w' = [Polling EXCEPT
                     !.pc = "claimed", !.op = o, !.token = issued',
                     !.claimed = op'[o].revision, !.revision = op'[o].revision,
                     !.calls = budget]
    BY <1>1 DEF ClaimNext, OldestPlanned
  <2>2. UNCHANGED <<plan, dirty, starts, drive, late, touched, now>>
    BY <1>1 DEF ClaimNext, remote
  <2>3. issued' \in Nat /\ budget \in Nat
    BY <1>t, <2>1, BudgetsAssumption
  <2>4. /\ ClaimedRow(op[o], issued', now) \in OperationRow
        /\ ClaimedRow(op[o], issued', now).status = "organizing"
    <3>1. op[o] \in OperationRow
      BY <1>t
    <3>2. ClaimedRow(op[o], issued', now) \in OperationRow
      BY <1>t, <2>3, <3>1, RowTypes
    <3>3. ClaimedRow(op[o], issued', now).status = "organizing"
      BY <1>t, <2>3, <3>1, RowColumns
    <3> QED BY <3>2, <3>3
  <2>5. op' \in [Operations -> OperationRow] /\ op'[o].status = "organizing"
    BY <1>t, <2>1, <2>4
  <2>6. op'[o].revision \in Nat
    BY <2>5 DEF OperationRow
  <2>7. w' \in WorkerRecord /\ w'.op = o /\ w'.pc = "claimed" /\ w'.step = 1
        /\ w'.member = 1 /\ w'.claimed = op'[o].revision
        /\ w'.revision = op'[o].revision
    BY <2>1, <2>3, <2>6, PutTypes DEF WorkerRecord, Polling
  <2>8. TypeInv'
    BY <2>2, <2>3, <2>5, <2>7 DEF TypeInv
  <2>9. RowIsKept'
    BY <2>5, <2>6, <2>7, StepTypes, StepsAssumption DEF RowIsKept
  <2> QED BY <2>8, <2>9
<1>2. CASE PrepareRun \/ BeginExecute
  <2>1. /\ w.pc \in {"claimed", "loaded"}
        /\ \/ w' = [w EXCEPT !.pc = "loaded"] \/ w' = [w EXCEPT !.pc = "running"]
           \/ w' = Finishing("failed")
        /\ UNCHANGED <<op, plan, dirty, drive, late, touched, now, issued>>
    BY <1>2 DEF PrepareRun, BeginExecute, rows, remote
  <2>2. /\ w' \in WorkerRecord /\ w'.pc \in {"loaded", "running", "finishing"}
        /\ w'.op = w.op /\ w'.step = w.step /\ w'.member = w.member
        /\ w'.claimed = w.claimed /\ w'.revision = w.revision
        /\ w'.pc = "finishing" => w'.result # "none"
    <3>1. CASE w' = [w EXCEPT !.pc = "loaded"]
      BY <1>t, <3>1 DEF WorkerRecord
    <3>2. CASE w' = [w EXCEPT !.pc = "running"]
      BY <1>t, <3>2 DEF WorkerRecord
    <3>3. CASE w' = Finishing("failed")
      BY <1>t, <3>3 DEF WorkerRecord, Finishing
    <3> QED BY <2>1, <3>1, <3>2, <3>3
  <2>3. w.op # NoOperation /\ w.op \in Operations
    BY <2>1, RowIsKeptImpliesInside
  <2> QED BY <2>1, <2>2, <2>3 DEF TypeInv, RowIsKept
<1>3. CASE RejectClaim
  <2>1. w.op \in Operations
    BY <1>3, <1>0 DEF RejectClaim, Inside
  <2>2. \/ UNCHANGED op
        \/ op' = [op EXCEPT ![w.op] = FinishedRow(@, "failed")]
        \/ op' = [op EXCEPT ![w.op] = FinishedRow(@, "uncertain")]
    BY <1>3, <1>t DEF RejectClaim
  <2>3. w' = Rest /\ UNCHANGED <<plan, dirty, drive, late, touched, now, issued>>
    BY <1>3 DEF RejectClaim, remote
  <2> QED BY <1>r, <1>s, <1>t, <2>1, <2>2, <2>3, LeavingKeeps
<1>4. CASE ReadSource \/ ReadTargetPlace \/ WriteObject \/ Verify
  BY <1>4, KeptByCalls DEF Calls
<1>5. CASE OutOfCalls
  <2>1. PICK result \in {"failed", "uncertain"} :
          w' = [Finishing(result) EXCEPT !.revision = @ + 1]
    BY <1>5 DEF OutOfCalls
  <2>2. /\ w.pc = "running" /\ op' = [op EXCEPT ![w.op] = RenewedRow(@, now)]
        /\ UNCHANGED <<plan, dirty, drive, late, touched, now, issued>>
    BY <1>5 DEF OutOfCalls, remote
  <2>3. w.op \in Operations /\ w.op # NoOperation
    BY <2>2, RowIsKeptImpliesInside
  <2>4. w.revision \in Nat /\ w.claimed \in Nat /\ w.revision + 1 \in Nat
    BY <1>t DEF WorkerRecord
  <2>5. /\ w' \in WorkerRecord /\ w'.pc = "finishing" /\ w'.result # "none"
        /\ w'.op = w.op /\ w'.step = w.step /\ w'.member = w.member
        /\ w'.claimed = w.claimed /\ w'.revision = w.revision + 1
    BY <1>t, <2>1, <2>4 DEF WorkerRecord, Finishing
  <2>6. /\ RenewedRow(op[w.op], now) \in OperationRow
        /\ RenewedRow(op[w.op], now).status = op[w.op].status
        /\ RenewedRow(op[w.op], now).revision = op[w.op].revision + 1
        /\ op[w.op].revision \in Nat
    BY <2>3, RenewedTypes
  <2>7. /\ op' \in [Operations -> OperationRow]
        /\ op'[w.op] = RenewedRow(op[w.op], now)
    BY <1>t, <2>2, <2>3, <2>6
  <2>8. TypeInv'
    BY <2>2, <2>5, <2>7 DEF TypeInv
  <2>9. RowIsKept'
    BY <2>3, <2>4, <2>5, <2>6, <2>7 DEF RowIsKept
  <2> QED BY <2>8, <2>9
<1>6. CASE LoseLease
  <2>1. w.op \in Operations
    BY <1>6, <1>0 DEF LoseLease, Inside
  <2>2. UNCHANGED op \/ op' = [op EXCEPT ![w.op] = FinishedRow(@, "uncertain")]
    BY <1>6, <1>t DEF LoseLease, RowAfterLeaseLoss
  <2>3. w' = Rest /\ UNCHANGED <<plan, dirty, drive, late, touched, now, issued>>
    BY <1>6 DEF LoseLease, remote
  <2> QED BY <1>r, <1>s, <1>t, <2>1, <2>2, <2>3, LeavingKeeps
<1>7. CASE FinishOperation
  <2>1. w.op \in Operations /\ w.op # NoOperation
    BY <1>7, RowIsKeptImpliesInside DEF FinishOperation
  <2>2. w.result \in OperationStatus
    BY <1>7, <1>s, <1>t, <2>1 DEF WorkerRecord, RowIsKept, FinishOperation
  <2>3. \/ UNCHANGED op
        \/ op' = [op EXCEPT ![w.op] = FinishedRow(@, "failed")]
        \/ op' = [op EXCEPT ![w.op] = FinishedRow(@, "uncertain")]
        \/ op' = [op EXCEPT ![w.op] = FinishedRow(@, w.result)]
    BY <1>7, <1>t DEF FinishOperation, RowAfterLeaseLoss
  <2>4. dirty' \subseteq Operations \X Parents
    <3>1. DirectoriesOf(w.op) \subseteq Parents
      BY <2>1, StepTypes DEF DirectoriesOf, StepExpectation
    <3>2. dirty' = dirty \/ dirty' = dirty \cup ({w.op} \X DirectoriesOf(w.op))
      BY <1>7 DEF FinishOperation
    <3> QED BY <1>t, <2>1, <3>1, <3>2
  <2>5. w' = Rest /\ UNCHANGED <<plan, drive, late, touched, now, issued>>
    BY <1>7 DEF FinishOperation, remote
  <2> QED BY <1>r, <1>s, <2>1, <2>2, <2>3, <2>4, <2>5, LeavingKeeps
<1>8. CASE StartWorker
  <2>1. w' = Polling /\ UNCHANGED <<op, plan, dirty, drive, late, touched, now, issued>>
    BY <1>8 DEF StartWorker, rows, remote
  <2> QED BY <1>t, <2>1, LeavingKeeps
<1>9. CASE LocalFailure
  <2>1. UNCHANGED op \/ op' = [op EXCEPT ![w.op] = FinishedRow(@, "uncertain")]
    BY <1>9, <1>t DEF LocalFailure
  <2>3. w.op \in Operations
    BY <1>9, <1>0 DEF LocalFailure, Inside
  <2>2. w' = Rest /\ UNCHANGED <<plan, dirty, drive, late, touched, now, issued>>
    BY <1>9 DEF LocalFailure, remote
  <2> QED BY <1>r, <1>s, <1>t, <2>1, <2>2, <2>3, LeavingKeeps
<1>10. CASE CancelWorker
  <2>1. UNCHANGED <<plan, dirty, drive, late, touched, now, issued>>
    BY <1>10 DEF CancelWorker, remote
  <2>2. CASE w' = Stopped /\ UNCHANGED op
    BY <1>t, <2>1, <2>2, LeavingKeeps
  <2>3. CASE /\ w.pc \in {"running", "finishing"}
             /\ w' = [Finishing("uncertain") EXCEPT !.stopping = TRUE]
             /\ UNCHANGED op \/ op' = [op EXCEPT ![w.op] = RenewedRow(@, now)]
    <3>1. /\ w' \in WorkerRecord /\ w'.pc = "finishing" /\ w'.result # "none"
          /\ w'.op = w.op /\ w'.step = w.step /\ w'.member = w.member
          /\ w'.claimed = w.claimed /\ w'.revision = w.revision
      BY <1>t, <2>3 DEF WorkerRecord, Finishing
    <3>2. w.op \in Operations /\ w.op # NoOperation
      BY <2>3, RowIsKeptImpliesInside
    <3>3. /\ RenewedRow(op[w.op], now) \in OperationRow
          /\ RenewedRow(op[w.op], now).status = op[w.op].status
          /\ RenewedRow(op[w.op], now).revision = op[w.op].revision + 1
          /\ op[w.op].revision \in Nat /\ w.revision \in Nat
      BY <3>2, RenewedTypes
    <3>4. /\ op' \in [Operations -> OperationRow]
          /\ op'[w.op] = op[w.op] \/ op'[w.op] = RenewedRow(op[w.op], now)
      BY <1>t, <2>3, <3>2, <3>3
    <3>5. TypeInv'
      BY <2>1, <3>1, <3>4 DEF TypeInv
    <3>6. w.revision <= op[w.op].revision
      BY <3>2 DEF RowIsKept
    <3>7. /\ op'[w.op].status = op[w.op].status
          /\ w.revision <= op'[w.op].revision
      BY <3>3, <3>4, <3>6
    <3>8. RowIsKept'
      BY <3>1, <3>2, <3>7 DEF RowIsKept
    <3> QED BY <3>5, <3>8
  <2> QED BY <1>10, <2>2, <2>3 DEF CancelWorker
<1>11. CASE KillWorker
  <2>1. w' = Stopped /\ UNCHANGED <<op, plan, dirty, drive, late, touched, now, issued>>
    BY <1>11 DEF KillWorker, rows, remote
  <2> QED BY <1>t, <2>1, LeavingKeeps
<1> QED BY <1>1, <1>2, <1>3, <1>4, <1>5, <1>6, <1>7, <1>8, <1>9, <1>10, <1>11
        DEF WorkerStep

\* Every step keeps the types and the row of the worker's operation.
LEMMA KeptNext == TypeInv /\ RowIsKept /\ [Next]_vars => TypeInv' /\ RowIsKept'
<1> SUFFICES ASSUME TypeInv, RowIsKept, [Next]_vars PROVE TypeInv' /\ RowIsKept'
  OBVIOUS
<1>t. /\ op \in [Operations -> OperationRow]
      /\ plan \in [Operations -> {"approved", "amended", "superseded", "withdrawn"}]
      /\ drive \in [Objects -> Place] /\ late \subseteq Write
      /\ touched \subseteq Objects /\ now \in Nat
  BY DEF TypeInv
<1>1. CASE WorkerStep \/ StartWorker \/ LocalFailure \/ CancelWorker \/ KillWorker
  BY <1>1, KeptByWorker
<1>2. ASSUME NEW o \in Operations, CancelOperation(o) \/ RetryOperation(o)
      PROVE  TypeInv' /\ RowIsKept'
  <2>1. /\ op[o].status # "organizing"
        /\ op' = [op EXCEPT ![o] = CancelledRow(@)]
           \/ op' = [op EXCEPT ![o] = RetriedRow(@)]
        /\ UNCHANGED <<plan, dirty, w, drive, late, touched, now, issued>>
    BY <1>2 DEF CancelOperation, RetryOperation, Cancellable, Retryable, remote
  <2> QED BY <1>t, <2>1, KeptByOthers
<1>3. ASSUME NEW o \in Operations, ChangePlan(o) PROVE TypeInv' /\ RowIsKept'
  <2>1. /\ plan' \in [Operations -> {"approved", "amended", "superseded", "withdrawn"}]
        /\ UNCHANGED <<op, dirty, w, drive, late, touched, now, issued>>
    BY <1>3, <1>t DEF ChangePlan, remote
  <2> QED BY <1>t, <2>1, KeptByOthers
<1>4. ASSUME NEW write \in late, LateWrite(write) PROVE TypeInv' /\ RowIsKept'
  <2>1. drive' \in [Objects -> Place] /\ late' \subseteq late
    BY <1>4, <1>t, ApplyEffect DEF LateWrite
  <2> QED BY <1>4, <1>t, <2>1, KeptByOthers DEF LateWrite, rows
<1>5. ASSUME NEW x \in Objects, NEW place \in Place, Tamper(x, place)
      PROVE  TypeInv' /\ RowIsKept'
  <2>1. drive' \in [Objects -> Place] /\ touched' \subseteq Objects
    BY <1>5, <1>t DEF Tamper
  <2> QED BY <1>5, <1>t, <2>1, KeptByOthers DEF Tamper, rows
<1>6. CASE Tick
  <2>1. now' \in Nat
    BY <1>6, <1>t DEF Tick
  <2> QED BY <1>6, <1>t, <2>1, KeptByOthers DEF Tick, rows, remote
<1>7. CASE UNCHANGED vars
  BY <1>7, <1>t, KeptByOthers DEF vars
<1> QED BY <1>1, <1>2, <1>3, <1>4, <1>5, <1>6, <1>7 DEF Next

\* The worker's record, the rows and the drive are always well formed.
THEOREM TypeCorrect == Spec => []TypeOK
<1>1. Spec => [](TypeInv /\ RowIsKept)
  BY KeptInitially, KeptNext, PTL DEF Spec
<1> QED BY <1>1, TypeInvImpliesTypeOK, PTL

-----------------------------------------------------------------------------
(***************************************************************************)
(* What a step changes.                                                    *)
(***************************************************************************)

\* The steps that leave the worker alone ...
Others ==
  \/ \E o \in Operations : CancelOperation(o) \/ RetryOperation(o) \/ ChangePlan(o)
  \/ \E write \in late : LateWrite(write)
  \/ \E x \in Objects, place \in Place : Tamper(x, place)
  \/ Tick \/ UNCHANGED vars

\* ... those that make it let go of its operation, if it has one ...
Leaves ==
  /\ w' \in {Polling, Stopped}
  /\ UNCHANGED <<drive, late, touched>>
  /\ RejectClaim \/ LoseLease \/ FinishOperation \/ StartWorker \/ LocalFailure
     \/ CancelWorker \/ KillWorker

\* ... those that make it end its operation next, without a call ...
Wraps(result) ==
  /\ w.pc \in {"loaded", "running", "finishing"}
  /\ w'.pc = "finishing" /\ w'.op = w.op /\ w'.result = result
  /\ UNCHANGED <<drive, late, touched>>
  /\ result # "uncertain" =>
       w.pc = "loaded" \/ (w.pc = "running" /\ w.phase \in {"source", "target"})
  /\ UNCHANGED op \/ op' = [op EXCEPT ![w.op] = RenewedRow(@, now)]

\* ... and those that take it further into it.
Enters ==
  /\ \/ w.pc = "claimed" /\ w' = [w EXCEPT !.pc = "loaded"]
     \/ w.pc = "loaded" /\ w' = [w EXCEPT !.pc = "running"]
  /\ UNCHANGED <<op, drive, late, touched>>

\* The steps, sorted by what they do to the worker.
LEMMA StepKinds ==
  ASSUME TypeInv, [Next]_vars
  PROVE  \/ Others /\ UNCHANGED w
         \/ Leaves
         \/ Wraps("failed") \/ Wraps("uncertain")
         \/ Enters
         \/ ClaimNext
         \/ Calls
<1>t. w \in WorkerRecord
  BY DEF TypeInv
<1>r. Rest \in {Polling, Stopped}
  BY PollingType
<1>1. CASE Others
  BY <1>1 DEF Others, CancelOperation, RetryOperation, ChangePlan, LateWrite, Tamper,
              Tick, vars
<1>2. CASE RejectClaim \/ LoseLease \/ FinishOperation \/ StartWorker \/ LocalFailure
           \/ KillWorker
  BY <1>2, <1>r DEF RejectClaim, LoseLease, FinishOperation, StartWorker, LocalFailure,
                    KillWorker, Leaves, remote
<1>3. CASE CancelWorker
  <2>1. UNCHANGED <<drive, late, touched>>
    BY <1>3 DEF CancelWorker, remote
  <2>2. CASE w' = Stopped
    BY <1>3, <2>1, <2>2 DEF Leaves
  <2>3. CASE /\ w.pc \in {"running", "finishing"}
             /\ w' = [Finishing("uncertain") EXCEPT !.stopping = TRUE]
             /\ UNCHANGED op \/ op' = [op EXCEPT ![w.op] = RenewedRow(@, now)]
    <3>1. w'.pc = "finishing" /\ w'.op = w.op /\ w'.result = "uncertain"
      BY <1>t, <2>3 DEF Finishing, WorkerRecord
    <3> QED BY <2>1, <2>3, <3>1 DEF Wraps
  <2> QED BY <1>3, <2>2, <2>3 DEF CancelWorker
<1>4. CASE BeginExecute \/ PrepareRun
  <2>1. UNCHANGED <<op, drive, late, touched>>
    BY <1>4 DEF BeginExecute, PrepareRun, rows, remote
  <2>2. CASE w' = Finishing("failed") /\ w.pc = "loaded"
    <3>1. w'.pc = "finishing" /\ w'.op = w.op /\ w'.result = "failed"
      BY <1>t, <2>2 DEF Finishing, WorkerRecord
    <3>2. op' = op /\ UNCHANGED <<drive, late, touched>> /\ w.pc = "loaded"
      BY <2>1, <2>2
    <3>3. Wraps("failed")
      BY <3>1, <3>2 DEF Wraps
    <3> QED BY <3>3
  <2> QED BY <1>4, <2>1, <2>2 DEF BeginExecute, PrepareRun, Enters
<1>5. CASE OutOfCalls
  <2>1. /\ w.pc = "running" /\ UNCHANGED <<drive, late, touched>>
        /\ op' = [op EXCEPT ![w.op] = RenewedRow(@, now)]
    BY <1>5 DEF OutOfCalls, remote
  <2>2. \E result \in {"failed", "uncertain"} :
          /\ w' = [Finishing(result) EXCEPT !.revision = @ + 1]
          /\ result # "uncertain" => w.phase \in {"source", "target"}
    BY <1>5 DEF OutOfCalls
  <2>3. PICK result \in {"failed", "uncertain"} :
          /\ w'.pc = "finishing" /\ w'.op = w.op /\ w'.result = result
          /\ result # "uncertain" => w.phase \in {"source", "target"}
    BY <1>t, <2>2 DEF Finishing, WorkerRecord
  <2> QED BY <2>1, <2>3 DEF Wraps
<1> QED BY <1>1, <1>2, <1>3, <1>4, <1>5 DEF Next, WorkerStep, Others, Calls

\* Who may move an object.
LEMMA DriveChanges ==
  ASSUME TypeInv, Inside, [Next]_vars, NEW x \in Objects
  PROVE  /\ touched \subseteq touched'
         /\ drive'[x] # drive[x] =>
              \/ x \in touched'
              \/ \E write \in late : write.member.object = x
              \/ WriteObject /\ Member.object = x
<1>1. CASE Leaves \/ Wraps("failed") \/ Wraps("uncertain") \/ Enters \/ ClaimNext
  BY <1>1 DEF Leaves, Wraps, Enters, ClaimNext, remote
<1>2. CASE ReadSource \/ ReadTargetPlace \/ Verify
  <2>1. UNCHANGED drive
    BY <1>2 DEF ReadSource, ReadTargetPlace, Verify
  <2>2. UNCHANGED touched
    BY <1>2 DEF ReadSource, ReadTargetPlace, Verify, Call
  <2> QED BY <2>1, <2>2
<1>3. CASE WriteObject
  <2> DEFINE write == [kind |-> w.phase, member |-> Member]
  <2>1. w.phase \in {"move", "rename"} /\ w.pc = "running"
    BY <1>3 DEF WriteObject
  <2>2. write \in Write /\ write.member = Member
    BY <2>1, MemberTypes DEF Write
  <2>3. UNCHANGED touched
    BY <1>3 DEF WriteObject, Call
  <2>4. UNCHANGED drive \/ Apply(write)
    BY <1>3 DEF WriteObject
  <2> HIDE DEF write
  <2> QED BY <1>3, <2>2, <2>3, <2>4, ApplyEffect
<1>4. CASE \E write \in late : LateWrite(write)
  <2>1. PICK write \in late : LateWrite(write)
    BY <1>4
  <2>2. write \in Write
    BY DEF TypeInv
  <2> QED BY <2>1, <2>2, ApplyEffect DEF LateWrite
<1>5. CASE \E y \in Objects, place \in Place : Tamper(y, place)
  BY <1>5 DEF Tamper, TypeInv
<1>6. CASE \E o \in Operations : CancelOperation(o) \/ RetryOperation(o) \/ ChangePlan(o)
  BY <1>6 DEF CancelOperation, RetryOperation, ChangePlan, remote
<1>7. CASE Tick \/ UNCHANGED vars
  BY <1>7 DEF Tick, vars, remote
<1> QED BY <1>1, <1>2, <1>3, <1>4, <1>5, <1>6, <1>7, StepKinds DEF Others, Calls

\* How the status of a row changes, and who may change it.
LEMMA StatusChanges ==
  ASSUME TypeInv, RowIsKept, [Next]_vars, NEW o \in Operations,
         op'[o].status # op[o].status
  PROVE  \/ /\ ClaimNext /\ w'.op = o
            /\ op[o].status = "planned" /\ op'[o].status = "organizing"
         \/ /\ Others
            /\ \/ op[o].status = "planned" /\ op'[o].status = "cancelled"
               \/ op[o].status = "failed" /\ op'[o].status = "planned"
         \/ /\ Leaves /\ w.op = o /\ op[o].status = "organizing"
            /\ \/ op'[o].status = "uncertain"
               \/ op'[o].status = "failed" /\ w.pc = "claimed"
               \/ /\ op'[o].status \in {"failed", "organized"} /\ w.pc = "finishing"
                  /\ w.result # "uncertain"
                  /\ op'[o].status = "organized" =>
                       /\ w.result = "organized"
                       /\ dirty' = dirty \cup ({o} \X DirectoriesOf(o))
<1>t. /\ w \in WorkerRecord /\ op \in [Operations -> OperationRow] /\ issued \in Nat
      /\ now \in Nat
  BY DEF TypeInv
<1>k. /\ w.op # NoOperation <=> w.pc \in {"claimed", "loaded", "running", "finishing"}
      /\ w.op # NoOperation => w.op \in Operations /\ op[w.op].status = "organizing"
  BY RowIsKeptImpliesInside DEF RowIsKept
<1>f. \A s \in OperationStatus : FinishedRow(op[o], s).status = s
  BY <1>t, RowColumns
<1>s. {"failed", "uncertain", "organized"} \subseteq OperationStatus
  BY DEF OperationStatus
<1>1. CASE Others /\ UNCHANGED w
  <2>1. PICK q \in Operations : CancelOperation(q) \/ RetryOperation(q)
    BY <1>1 DEF Others, ChangePlan, LateWrite, Tamper, Tick, rows, vars
  <2>2. q = o
    BY <2>1, <1>t DEF CancelOperation, RetryOperation
  <2>3. CASE CancelOperation(q)
    <3>1. op[o].status = "planned" /\ op'[o] = CancelledRow(op[o])
      BY <1>t, <2>2, <2>3 DEF CancelOperation, Cancellable
    <3>2. CancelledRow(op[o]).status = "cancelled"
      BY <1>t, RowColumns
    <3> QED BY <1>1, <3>1, <3>2
  <2>4. CASE RetryOperation(q)
    <3>1. op[o].status = "failed" /\ op'[o] = RetriedRow(op[o])
      BY <1>t, <2>2, <2>4 DEF RetryOperation, Retryable
    <3>2. RetriedRow(op[o]).status = "planned"
      BY <1>t, RowColumns
    <3> QED BY <1>1, <3>1, <3>2
  <2> QED BY <2>1, <2>3, <2>4
<1>2. CASE Leaves
  <2>1. CASE RejectClaim
    <3>1. /\ w.pc = "claimed" /\ w.op \in Operations
          /\ \/ UNCHANGED op
             \/ op' = [op EXCEPT ![w.op] = FinishedRow(@, "failed")]
             \/ op' = [op EXCEPT ![w.op] = FinishedRow(@, "uncertain")]
      BY <2>1, <1>t, <1>k DEF RejectClaim
    <3>2. w.op = o /\ \/ op'[o] = FinishedRow(op[o], "failed")
                      \/ op'[o] = FinishedRow(op[o], "uncertain")
      BY <1>t, <3>1
    <3> QED BY <1>2, <1>f, <1>k, <1>s, <3>1, <3>2
  <2>2. CASE LoseLease \/ LocalFailure
    <3>1. UNCHANGED op \/ op' = [op EXCEPT ![w.op] = FinishedRow(@, "uncertain")]
      BY <2>2, <1>t DEF LoseLease, LocalFailure, RowAfterLeaseLoss
    <3>2. w.op \in Operations
      BY <2>2, <1>k DEF LoseLease, LocalFailure
    <3>3. w.op = o /\ op'[o] = FinishedRow(op[o], "uncertain")
      BY <1>t, <3>1, <3>2
    <3>4. op[o].status = "organizing"
      BY <1>k, <3>2, <3>3, StepsAssumption
    <3>5. op'[o].status = "uncertain"
      BY <1>f, <1>s, <3>3
    <3> QED BY <1>2, <3>3, <3>4, <3>5
  <2>3. CASE FinishOperation
    <3>1. w.pc = "finishing" /\ w.op \in Operations /\ w.result # "none"
      BY <2>3, <1>k DEF FinishOperation, RowIsKept
    <3>2. \/ UNCHANGED op
          \/ /\ op' = [op EXCEPT ![w.op] = FinishedRow(@, w.result)]
             /\ dirty' = IF w.result = "organized"
                         THEN dirty \cup ({w.op} \X DirectoriesOf(w.op)) ELSE dirty
          \/ op' = [op EXCEPT ![w.op] = FinishedRow(@, "failed")]
             /\ w.result = "organized"
          \/ op' = [op EXCEPT ![w.op] = FinishedRow(@, "uncertain")]
      BY <2>3, <1>t DEF FinishOperation, RowAfterLeaseLoss
    <3>3. /\ w.op = o
          /\ \/ /\ op'[o] = FinishedRow(op[o], w.result)
                /\ dirty' = IF w.result = "organized"
                            THEN dirty \cup ({w.op} \X DirectoriesOf(w.op)) ELSE dirty
             \/ op'[o] = FinishedRow(op[o], "failed") /\ w.result = "organized"
             \/ op'[o] = FinishedRow(op[o], "uncertain")
      BY <1>t, <3>1, <3>2
    <3>4. w.result \in {"failed", "uncertain", "organized"}
      BY <1>t, <3>1 DEF WorkerRecord
    <3> QED BY <1>2, <1>f, <1>k, <1>s, <3>1, <3>3, <3>4
  <2>4. CASE StartWorker \/ KillWorker
    BY <2>4 DEF StartWorker, KillWorker, rows
  <2>5. CASE CancelWorker
    <3>1. \/ op' = op
          \/ op' = [op EXCEPT ![w.op] = RenewedRow(@, now)] /\ w.pc = "running"
      BY <2>5 DEF CancelWorker
    <3>2. op'[o] = op[o] \/ op'[o] = RenewedRow(op[o], now)
      BY <1>t, <1>k, <3>1
    <3>3. RenewedRow(op[o], now).status = op[o].status
      BY <1>t, RowColumns
    <3> QED BY <3>2, <3>3
  <2> QED BY <1>2, <2>1, <2>2, <2>3, <2>4, <2>5 DEF Leaves
<1>3. CASE Wraps("failed") \/ Wraps("uncertain") \/ Enters \/ Calls
  <2>1. \/ op' = op
        \/ op' = [op EXCEPT ![w.op] = RenewedRow(@, now)] /\ w.op # NoOperation
    <3>1. CASE Calls
      <4>1. w.pc = "running"
        BY <3>1 DEF Calls, ReadSource, ReadTargetPlace, WriteObject, Verify
      <4>2. op' = [op EXCEPT ![w.op] = RenewedRow(@, now)]
        BY <3>1 DEF Calls, ReadSource, ReadTargetPlace, WriteObject, Verify, Call
      <4> QED BY <1>k, <4>1, <4>2
    <3> QED BY <1>3, <1>k, <3>1 DEF Wraps, Enters
  <2>2. op'[o] = op[o] \/ op'[o] = RenewedRow(op[o], now)
    BY <1>t, <1>k, <2>1
  <2>3. RenewedRow(op[o], now).status = op[o].status
    BY <1>t, RowColumns
  <2> QED BY <2>2, <2>3
<1>4. CASE ClaimNext
  <2>1. PICK q \in Operations :
          /\ op[q].status = "planned" /\ issued' = issued + 1
          /\ op' = [op EXCEPT ![q] = ClaimedRow(@, issued', now)]
          /\ w'.op = q
    BY <1>4 DEF ClaimNext, OldestPlanned, Polling
  <2>2. q = o /\ op'[o] = ClaimedRow(op[o], issued', now) /\ issued' \in Nat
    BY <1>t, <2>1
  <2>3. ClaimedRow(op[o], issued', now).status = "organizing"
    BY <1>t, <2>2, RowColumns
  <2> QED BY <1>4, <2>1, <2>2, <2>3
<1> QED BY <1>1, <1>2, <1>3, <1>4, StepKinds

\* Nothing but a claim gives the worker another operation, and a worker that is
\* about to end its operation can only turn to UNCERTAIN.
LEMMA OperationIsKept ==
  ASSUME TypeInv, RowIsKept, [Next]_vars, w'.op # NoOperation
  PROVE  \/ ClaimNext
         \/ /\ w'.op = w.op
            /\ w.pc = "finishing" =>
                 w'.pc = "finishing" /\ w'.result \in {w.result, "uncertain"}
<1>1. CASE Calls
  <2>1. PICK next \in WorkerRecord : Call(next) /\ GoesOn(next)
    BY <1>1, CallsGoOn, RowIsKeptImpliesInside
  <2>2. next.op = w.op
    BY <2>1 DEF GoesOn, Ends, StaysInStep, NextStepBegins, Continues
  <2>3. w.pc = "running"
    BY <1>1, CallsGoOn, RowIsKeptImpliesInside
  <2> QED BY <2>1, <2>2, <2>3, CallEffect DEF Becomes
<1>2. CASE Leaves
  BY <1>2, PollingType DEF Leaves
<1>3. CASE Wraps("failed") \/ Wraps("uncertain")
  BY <1>3 DEF Wraps
<1>4. CASE Enters
  BY <1>4 DEF Enters, TypeInv, WorkerRecord
<1> QED BY <1>1, <1>2, <1>3, <1>4, StepKinds

\* The objects of a plan are its own, except the shared ones.
LEMMA SharedObjects ==
  ASSUME NEW o \in Operations
  PROVE  /\ ObjectsOf(o) \subseteq Objects
         /\ \A q \in Operations, x \in ObjectsOf(o) :
              x \in ObjectsOf(q) /\ x \notin Shared => q = o
         /\ \A i \in DOMAIN Steps[o] : \A e \in GroupOf(Steps[o][i]) :
              e.object \in ObjectsOf(o)
<1>1. ObjectsOf(o) \subseteq Objects
  BY StepTypes DEF ObjectsOf, StepExpectation
<1> QED BY <1>1, StepTypes DEF Shared, ObjectsOf

\* An object of one operation alone stays where it is while the operation is
\* not being written and has no write open, unless a stranger takes it.
LEMMA Steady ==
  ASSUME TypeInv, RowIsKept, LateWritesAreGivenUp, [Next]_vars,
         NEW o \in Operations, NEW x \in ObjectsOf(o),
         x \notin touched' \cup Shared, ~GivenUp(o),
         ~(WriteObject /\ w.op = o /\ Member.object = x)
  PROVE  drive'[x] = drive[x]
<1>1. x \in Objects /\ \A q \in Operations : x \in ObjectsOf(q) => q = o
  BY SharedObjects
<1>2. ASSUME NEW write \in late PROVE write.member.object # x
  <2>1. PICK q \in Operations : write.member \in Members(q) /\ GivenUp(q)
    BY DEF LateWritesAreGivenUp
  <2>2. write.member.object \in ObjectsOf(q)
    BY <2>1 DEF ObjectsOf
  <2> QED BY <1>1, <2>1, <2>2
<1>3. ASSUME WriteObject PROVE Member.object # x
  <2>1. w.pc = "running" /\ Inside
    BY <1>3, RowIsKeptImpliesInside DEF WriteObject
  <2>2. w.op \in Operations /\ Member.object \in ObjectsOf(w.op)
    BY <2>1, MemberTypes DEF ObjectsOf
  <2> QED BY <1>1, <1>3, <2>2
<1> QED BY <1>1, <1>2, <1>3, DriveChanges, RowIsKeptImpliesInside

\* A step whose objects all stay where they are stays as it is.
LEMMA ShapeStays ==
  ASSUME NEW o \in Operations, NEW i \in DOMAIN Steps[o],
         touched \subseteq touched',
         \A e \in GroupOf(Steps[o][i]) :
           e.object \notin touched' \cup Shared =>
             drive'[e.object] = drive[e.object]
  PROVE  /\ Whole(o, i) => Whole(o, i)'
         /\ Applied(o, i) => Applied(o, i)'
<1>1. \A e \in GroupOf(Steps[o][i]) :
        Untouched(e)' => /\ Untouched(e)
                         /\ AtSource(e) => AtSource(e)'
                         /\ AtTarget(e) => AtTarget(e)'
  BY DEF Untouched, AtSource, AtTarget
<1>2. ASSUME Whole(o, i), \A e \in GroupOf(Steps[o][i]) : Untouched(e)'
      PROVE  \/ \A e \in GroupOf(Steps[o][i]) : AtSource(e)'
             \/ \A e \in GroupOf(Steps[o][i]) : AtTarget(e)'
  BY <1>1, <1>2 DEF Whole
<1>3. ASSUME Applied(o, i), NEW e \in GroupOf(Steps[o][i]), Untouched(e)'
      PROVE  AtTarget(e)'
  BY <1>1, <1>3 DEF Applied
<1> QED BY <1>2, <1>3 DEF Whole, Applied

\* A step that is applied is whole.
LEMMA AppliedIsWhole ==
  ASSUME NEW o \in Operations, NEW i \in DOMAIN Steps[o]
  PROVE  Applied(o, i) => Whole(o, i)
BY DEF Applied, Whole

-----------------------------------------------------------------------------
(***************************************************************************)
(* The inductive invariant, part by part.                                  *)
(***************************************************************************)
LEMMA CallsLeave ==
  ASSUME TypeInv, RowIsKept, Calls
  PROVE  w.pc = "running" /\ w'.op = w.op /\ w'.pc \in {"running", "finishing"}
<1>1. PICK next \in WorkerRecord : Call(next) /\ GoesOn(next)
  BY CallsGoOn, RowIsKeptImpliesInside
<1>2. next.op = w.op /\ next.pc \in {"running", "finishing"}
  BY <1>1 DEF GoesOn, Ends, StaysInStep, NextStepBegins, Continues
<1> QED BY <1>1, <1>2, CallEffect, CallsGoOn, RowIsKeptImpliesInside DEF Becomes

\* A claim takes a planned operation.
LEMMA ClaimEffect ==
  ASSUME TypeInv, ClaimNext
  PROVE  \E o \in Operations : \E token, revision, calls \in Nat :
           /\ op[o].status = "planned"
           /\ w.op = NoOperation
           /\ w' = [Polling EXCEPT
                      !.pc = "claimed", !.op = o, !.token = token,
                      !.claimed = revision, !.revision = revision, !.calls = calls]
           /\ w'.op = o /\ w'.pc = "claimed"
           /\ UNCHANGED <<drive, late, touched>>
<1>1. PICK o \in Operations, budget \in Budgets :
        /\ op[o].status = "planned" /\ issued' = issued + 1
        /\ op' = [op EXCEPT ![o] = ClaimedRow(@, issued', now)]
        /\ w' = [Polling EXCEPT
                   !.pc = "claimed", !.op = o, !.token = issued',
                   !.claimed = op'[o].revision, !.revision = op'[o].revision,
                   !.calls = budget]
  BY DEF ClaimNext, OldestPlanned
<1>2. issued' \in Nat /\ budget \in Nat
  BY <1>1, BudgetsAssumption DEF TypeInv
<1>3. op'[o].revision \in Nat
  <2>1. ClaimedRow(op[o], issued', now) \in OperationRow
    BY <1>2, RowTypes DEF TypeInv
  <2>2. op'[o] = ClaimedRow(op[o], issued', now)
    BY <1>1 DEF TypeInv
  <2> QED BY <2>1, <2>2 DEF OperationRow
<1>4. w.op = NoOperation /\ UNCHANGED <<drive, late, touched>>
  BY DEF ClaimNext, remote, Polling
<1>5. w'.op = o /\ w'.pc = "claimed"
  BY <1>1 DEF Polling
<1> QED BY <1>1, <1>2, <1>3, <1>4, <1>5

\* A worker that has just claimed has written nothing.
LEMMA FreshNext ==
  ASSUME TypeInv, RowIsKept, ClaimIsFresh, [Next]_vars PROVE ClaimIsFresh'
<1>1. CASE Others /\ UNCHANGED w
  BY <1>1 DEF ClaimIsFresh
<1>2. CASE Leaves \/ Wraps("failed") \/ Wraps("uncertain")
  BY <1>2, PollingType DEF Leaves, Wraps, ClaimIsFresh
<1>3. CASE Enters
  BY <1>3 DEF Enters, ClaimIsFresh, TypeInv, WorkerRecord
<1>4. CASE ClaimNext
  <2>1. PICK o \in Operations, budget \in Budgets :
          w' = [Polling EXCEPT
                  !.pc = "claimed", !.op = o, !.token = issued',
                  !.claimed = op'[o].revision, !.revision = op'[o].revision,
                  !.calls = budget]
    BY <1>4 DEF ClaimNext, OldestPlanned
  <2>2. /\ w'.step = 1 /\ w'.member = 1 /\ w'.phase = "source" /\ ~w'.confirmed
        /\ w'.sources = <<>> /\ w'.targets = <<>> /\ w'.observed = <<>>
    BY <2>1 DEF Polling
  <2> QED BY <2>2 DEF ClaimIsFresh
<1>5. CASE Calls
  BY <1>5, CallsLeave DEF ClaimIsFresh
<1> QED BY <1>1, <1>2, <1>3, <1>4, <1>5, StepKinds

\* No step takes an operation out of the ways that end in UNCERTAIN.
LEMMA GivenUpStays ==
  ASSUME TypeInv, RowIsKept, [Next]_vars, NEW o \in Operations, GivenUp(o)
  PROVE  GivenUp(o)'
<1>1. op'[o].status \in {"organizing", "uncertain"}
  BY StatusChanges DEF GivenUp
<1>2. ASSUME w'.op = o PROVE w'.pc = "finishing" /\ w'.result = "uncertain"
  <2>1. w'.op # NoOperation
    BY <1>2, StepsAssumption
  <2>2. ~ClaimNext
    <3>1. ASSUME ClaimNext PROVE op[o].status = "planned"
      BY <1>2, <3>1, ClaimEffect DEF Polling
    <3> QED BY <3>1 DEF GivenUp
  <2> QED BY <1>2, <2>1, <2>2, OperationIsKept DEF GivenUp
<1> QED BY <1>1, <1>2 DEF GivenUp

\* Late writes belong to operations that were given up as uncertain.
LEMMA LateNext ==
  ASSUME TypeInv, RowIsKept, LateWritesAreGivenUp, [Next]_vars, RowIsKept'
  PROVE  LateWritesAreGivenUp'
<1>i. Inside
  BY RowIsKeptImpliesInside
<1>1. ASSUME NEW write \in late
      PROVE  \E o \in Operations : write.member \in Members(o) /\ GivenUp(o)'
  BY GivenUpStays DEF LateWritesAreGivenUp
<1>2. CASE WriteObject
  <2> DEFINE sent == [kind |-> w.phase, member |-> Member]
  <2>o. PICK o \in Operations : o = w.op
    BY <1>2, <1>i DEF WriteObject, Inside
  <2>1. ASSUME NEW write \in late', write \notin late
        PROVE  write.member \in Members(o) /\ GivenUp(o)'
    <3>1. PICK next \in WorkerRecord :
            Call(next) /\ Ends(next, "uncertain") /\ late' \subseteq late \cup {sent}
      BY <1>2, <1>i, <2>1, WriteEffect
    <3>2. write.member = Member
      BY <2>1, <3>1
    <3>3. w'.op = o /\ w'.pc = "finishing" /\ w'.result = "uncertain"
      BY <2>o, <3>1, CallEffect DEF Becomes, Ends
    <3>4. op'[o].status = "organizing"
      BY <3>3, StepsAssumption DEF RowIsKept
    <3>5. GivenUp(o)'
      BY <3>3, <3>4 DEF GivenUp
    <3> QED BY <1>2, <1>i, <2>o, <3>2, <3>5, MemberTypes DEF WriteObject
  <2> QED BY <1>1, <2>1 DEF LateWritesAreGivenUp
<1>3. CASE ~WriteObject
  <2>1. late' \subseteq late
    <3>1. CASE Others
      BY <3>1 DEF Others, CancelOperation, RetryOperation, ChangePlan, LateWrite,
                  Tamper, Tick, vars, remote
    <3>2. CASE Calls
      BY <1>3, <3>2 DEF Calls, ReadSource, ReadTargetPlace, Verify
    <3>3. CASE ClaimNext
      BY <3>3, ClaimEffect
    <3> QED BY <3>1, <3>2, <3>3, StepKinds DEF Leaves, Wraps, Enters
  <2> QED BY <1>1, <2>1 DEF LateWritesAreGivenUp
<1> QED BY <1>2, <1>3

\* A call is never a stutter of the worker.
LEMMA OthersDoNotCall == ASSUME TypeInv, RowIsKept, UNCHANGED w PROVE ~Calls
<1> SUFFICES ASSUME Calls PROVE FALSE
  OBVIOUS
<1>1. PICK next \in WorkerRecord : Call(next)
  BY CallsGoOn, RowIsKeptImpliesInside
<1>2. w'.calls = w.calls - 1
  BY <1>1, CallEffect
<1>3. w.calls \in Nat
  BY DEF TypeInv, WorkerRecord
<1> QED BY <1>2, <1>3

\* What a read returns may be added to what the worker knows.
LEMMA PutSees ==
  ASSUME TypeInv, Inside, w.pc = "running", NEW map, StillSeen(map),
         NEW seen \in ReadObjectAnswers(Member)
  PROVE  StillSeen(Put(map, Member.object, seen))
<1>1. seen # Unobserved => drive[Member.object] = <<seen.parent, seen.name>>
  BY MemberTypes, Answers
<1>2. ASSUME NEW x \in ObjectsOf(w.op) \cap DOMAIN Put(map, Member.object, seen),
             Put(map, Member.object, seen)[x] # Unobserved,
             x \notin touched \cup Shared
      PROVE  drive[x] = <<Put(map, Member.object, seen)[x].parent,
                          Put(map, Member.object, seen)[x].name>>
  <2>1. CASE x = Member.object
    <3>1. Put(map, Member.object, seen)[x] = seen
      BY <2>1 DEF Put
    <3> QED BY <1>1, <1>2, <2>1, <3>1
  <2>2. CASE x # Member.object
    <3>1. x \in DOMAIN map /\ Put(map, Member.object, seen)[x] = map[x]
      BY <1>2, <2>2 DEF Put
    <3> QED BY <1>2, <3>1 DEF StillSeen
  <2> QED BY <2>1, <2>2
<1> QED BY <1>2 DEF StillSeen

\* What the worker has observed of its objects stays true.
LEMMA ObservationsNext ==
  ASSUME TypeInv, ExecutorInv, [Next]_vars, RowIsKept' PROVE ObservationsHold'
<1> SUFFICES ASSUME w'.pc = "running"
             PROVE  /\ w'.phase \in {"source", "target"} => StillSeen(w.sources)'
                    /\ IF w'.phase = "verify" THEN StillSeen(w.observed)'
                                              ELSE DOMAIN w'.observed = {}
  BY DEF ObservationsHold
<1>i. Inside /\ RowIsKept /\ LateWritesAreGivenUp
  BY RowIsKeptImpliesInside DEF ExecutorInv
<1>e. DOMAIN <<>> = {}
  OBVIOUS
<1>1. CASE Others /\ UNCHANGED w
  <2>1. w.pc = "running"
    BY <1>1
  <2>2. w.op \in Operations /\ ~GivenUp(w.op)
    BY <1>i, <2>1 DEF Inside, GivenUp
  <2>3. \A x \in ObjectsOf(w.op) : x \notin touched' \cup Shared =>
          x \notin touched /\ drive'[x] = drive[x]
    BY <1>1, <1>i, <2>2, Steady, OthersDoNotCall, DriveChanges, SharedObjects DEF Calls
  <2>4. StillSeen(w.sources) => StillSeen(w.sources)'
    BY <1>1, <2>3 DEF StillSeen
  <2>5. StillSeen(w.observed) => StillSeen(w.observed)'
    BY <1>1, <2>3 DEF StillSeen
  <2> QED BY <1>1, <2>1, <2>4, <2>5 DEF ExecutorInv, ObservationsHold
<1>2. CASE Enters
  <2>1. /\ w'.phase = "source" /\ w'.sources = <<>> /\ w'.observed = <<>>
    BY <1>2 DEF Enters, TypeInv, WorkerRecord, ExecutorInv, ClaimIsFresh
  <2> QED BY <1>e, <2>1 DEF StillSeen
<1>3. CASE Calls
  <2>r. w.pc = "running" /\ w'.op = w.op
    BY <1>3, <1>i, CallsLeave
  <2>o. /\ w.phase \in {"source", "target"} => StillSeen(w.sources)
        /\ IF w.phase = "verify" THEN StillSeen(w.observed) ELSE DOMAIN w.observed = {}
    BY <2>r DEF ExecutorInv, ObservationsHold
  <2>n. ASSUME NEW next \in WorkerRecord, Call(next)
        PROVE  /\ w'.pc = next.pc /\ w'.phase = next.phase /\ w'.sources = next.sources
               /\ w'.observed = next.observed /\ touched' = touched
    BY <2>n, CallEffect DEF Becomes
  <2>b. ASSUME NEW next \in WorkerRecord, Call(next), NextStepBegins(next)
        PROVE  /\ w'.phase = "source" /\ DOMAIN w'.sources = {}
               /\ DOMAIN w'.observed = {}
    BY <2>b, <2>n, <1>e DEF NextStepBegins, Continues
  <2>1. CASE ReadSource
    <3>1. w.phase = "source" /\ UNCHANGED drive
      BY <1>i, <2>1, ReadSourceEffect
    <3>2. PICK next \in WorkerRecord, seen \in ReadObjectAnswers(Member) :
            /\ Call(next) /\ Continues(next, w.step, w.member, "target")
            /\ next.sources = Put(w.sources, Member.object, seen)
            /\ next.observed = w.observed
      <4>1. PICK next \in WorkerRecord :
              /\ Call(next)
              /\ \/ Ends(next, "uncertain")
                 \/ \E seen \in ReadObjectAnswers(Member) :
                      /\ Continues(next, w.step, w.member, "target")
                      /\ next.sources = Put(w.sources, Member.object, seen)
                      /\ next.observed = w.observed
        BY <1>i, <2>1, ReadSourceEffect
      <4>2. ~Ends(next, "uncertain")
        BY <2>n, <4>1 DEF Ends
      <4> QED BY <4>1, <4>2
    <3>3. StillSeen(Put(w.sources, Member.object, seen))
      BY <1>i, <2>o, <2>r, <3>1, <3>2, PutSees
    <3>4. w'.sources = Put(w.sources, Member.object, seen) /\ touched' = touched
          /\ w'.observed = w.observed /\ w'.phase = "target"
      BY <2>n, <3>2 DEF Continues
    <3>5. StillSeen(w.sources)'
      BY <2>r, <3>1, <3>3, <3>4 DEF StillSeen
    <3> QED BY <2>o, <3>1, <3>4, <3>5
  <2>2. CASE ReadTargetPlace
    <3>1. w.phase = "target" /\ UNCHANGED drive
      BY <1>i, <2>2, ReadTargetEffect
    <3>2. PICK next \in WorkerRecord :
            /\ Call(next)
            /\ \/ Ends(next, "uncertain")
               \/ /\ Continues(next, w.step, w.member + 1, "source")
                  /\ next.sources = w.sources /\ next.observed = w.observed
               \/ \E seen \in ReadTargetAnswers(Member) :
                    next = Decide(Put(w.targets, TargetPlace(Member), seen))
      BY <1>i, <2>2, ReadTargetEffect
    <3>3. ~Ends(next, "uncertain") /\ ~Ends(next, "failed") /\ ~Ends(next, "organized")
      BY <2>n, <3>2 DEF Ends
    <3>4. CASE /\ Continues(next, w.step, w.member + 1, "source")
               /\ next.sources = w.sources /\ next.observed = w.observed
      <4>1. /\ w'.phase = "source" /\ w'.sources = w.sources
            /\ w'.observed = w.observed /\ touched' = touched
        BY <2>n, <3>2, <3>4 DEF Continues
      <4>2. StillSeen(w.sources)'
        BY <2>o, <2>r, <3>1, <4>1 DEF StillSeen
      <4> QED BY <2>o, <3>1, <4>1, <4>2
    <3>5. ASSUME NEW seen \in ReadTargetAnswers(Member),
                 next = Decide(Put(w.targets, TargetPlace(Member), seen))
          PROVE  \/ Continues(next, w.step, 1, "move") /\ next.observed = w.observed
                 \/ NextStepBegins(next)
      <4>1. Put(w.targets, TargetPlace(Member), seen) \in PlaceMap
        BY <1>i, <2>r, MemberTypes, Answers, PutTypes DEF TypeInv, WorkerRecord
      <4> QED BY <2>r, <3>3, <3>5, <4>1, DecideEffect
    <3>6. CASE Continues(next, w.step, 1, "move") /\ next.observed = w.observed
      BY <2>n, <2>o, <3>1, <3>2, <3>6 DEF Continues
    <3>7. CASE NextStepBegins(next)
      BY <2>b, <3>2, <3>7 DEF StillSeen
    <3> QED BY <3>2, <3>3, <3>4, <3>5, <3>6, <3>7
  <2>3. CASE WriteObject
    <3>1. w.phase \in {"move", "rename"}
      BY <1>i, <2>3, WriteEffect
    <3>2. PICK next \in WorkerRecord :
            /\ Call(next)
            /\ \/ next.phase \in {"move", "rename", "verify"} /\ next.observed = w.observed
               \/ next.pc = "finishing"
      BY <1>i, <2>3, WriteEffect DEF Continues, Ends
    <3>3. DOMAIN w'.observed = {} /\ w'.phase \notin {"source", "target"}
      BY <2>n, <2>o, <3>1, <3>2
    <3> QED BY <3>3 DEF StillSeen
  <2>4. CASE Verify
    <3>1. w.phase = "verify" /\ UNCHANGED drive
      BY <1>i, <2>4, VerifyEffect
    <3>2. PICK next \in WorkerRecord :
            /\ Call(next)
            /\ \/ next.pc = "finishing"
               \/ NextStepBegins(next)
               \/ \E seen \in ReadObjectAnswers(Member) :
                    /\ Continues(next, w.step, w.member + 1, "verify")
                    /\ next.observed = Put(w.observed, Member.object, seen)
      BY <1>i, <2>4, VerifyEffect DEF Ends
    <3>3. CASE NextStepBegins(next)
      BY <2>b, <3>2, <3>3 DEF StillSeen
    <3>4. ASSUME NEW seen \in ReadObjectAnswers(Member),
                 Continues(next, w.step, w.member + 1, "verify"),
                 next.observed = Put(w.observed, Member.object, seen)
          PROVE  w'.phase = "verify" /\ StillSeen(w.observed)'
      <4>1. StillSeen(Put(w.observed, Member.object, seen))
        BY <1>i, <2>o, <2>r, <3>1, PutSees
      <4>2. /\ w'.observed = Put(w.observed, Member.object, seen)
            /\ w'.phase = "verify" /\ touched' = touched
        BY <2>n, <3>2, <3>4 DEF Continues
      <4> QED BY <2>r, <3>1, <4>1, <4>2 DEF StillSeen
    <3> QED BY <2>n, <3>2, <3>3, <3>4
  <2> QED BY <1>3, <2>1, <2>2, <2>3, <2>4 DEF Calls
<1>4. ~(Leaves \/ Wraps("failed") \/ Wraps("uncertain") \/ ClaimNext)
  BY PollingType, ClaimEffect DEF Leaves, Wraps
<1> QED BY <1>1, <1>2, <1>3, <1>4, StepKinds

\* What the worker was shown of an object, as long as it is still so.
LEMMA SeenIsSo ==
  ASSUME TypeInv, Inside, w.pc = "running", NEW map, StillSeen(map),
         NEW e \in GroupOf(Step), Untouched(e)
  PROVE  /\ ObservedAt(map, e.object) = TargetState(e) => AtTarget(e)
         /\ ObservedAt(map, e.object) = SourceState(e) => AtSource(e)
<1>1. e \in Members(w.op) /\ e \in StepExpectation
  BY MemberTypes, StepTypes
<1>2. ASSUME ObservedAt(map, e.object) # Unobserved
      PROVE  drive[e.object] = <<ObservedAt(map, e.object).parent,
                                 ObservedAt(map, e.object).name>>
  BY <1>1, <1>2 DEF ObservedAt, StillSeen, ObjectsOf, Untouched
<1>3. SourceState(e) # Unobserved /\ TargetState(e) # Unobserved
  BY <1>1, StatesAreObservations
<1> QED BY <1>1, <1>2, <1>3
        DEF AtTarget, AtSource, TargetState, SourceState, TargetPlace

\* The check after the writes lets the worker go on only over an applied step.
LEMMA VerifiedIsApplied ==
  ASSUME TypeInv, Inside, ObservationsHold, w.pc = "running", w.phase = "verify",
         NEW seen \in ReadObjectAnswers(Member),
         CheckGroupAfterWrite(GroupOf(Step),
           Put(w.observed, Member.object, seen)).status = "already_applied"
  PROVE  Applied(w.op, w.step)
<1> DEFINE observed == Put(w.observed, Member.object, seen)
<1>1. StillSeen(observed)
  BY PutSees DEF ObservationsHold
<1> HIDE DEF observed
<1>2. {CheckAfterWrite(e, ObservedAt(observed, e.object)) : e \in GroupOf(Step)}
        = {"already_applied"}
  BY DEF CheckGroupAfterWrite, Result, observed
<1>3. ASSUME NEW e \in GroupOf(Step), Untouched(e) PROVE AtTarget(e)
  <2>1. CheckAfterWrite(e, ObservedAt(observed, e.object)) = "already_applied"
    BY <1>2
  <2>2. ObservedAt(observed, e.object) = TargetState(e)
    BY <2>1 DEF CheckAfterWrite
  <2> QED BY <1>1, <1>3, <2>2, SeenIsSo
<1> QED BY <1>3 DEF Applied, Step

\* The decision before the writes skips only an applied step, and begins to
\* write only a step that is untouched at its source.
LEMMA DecisionIsSound ==
  ASSUME TypeInv, Inside, ObservationsHold, w.pc = "running", w.phase = "target",
         NEW targets \in PlaceMap
  PROVE  LET check == CheckGroupBeforeWrite(GroupOf(Step), w.sources, targets)
         IN /\ check.status = "already_applied" => Applied(w.op, w.step)
            /\ check.status = "ready" =>
                 \A e \in GroupOf(Step) :
                   /\ Untouched(e) => AtSource(e)
                   /\ ObservedAt(targets, TargetPlace(e)) = Unobserved
<1>1. /\ GroupOf(Step) \in SUBSET StepExpectation
      /\ \A k \in DOMAIN w.sources : w.sources[k] \in Observation
      /\ \A k \in DOMAIN targets : targets[k] \in Observation
  <2>1. GroupOf(Step) \subseteq StepExpectation
    <3>1. w.op \in Operations /\ w.step \in DOMAIN Steps[w.op]
      BY MemberTypes
    <3> QED BY <3>1, StepTypes DEF Step
  <2>2. w.sources \in ObjectMap
    BY DEF TypeInv, WorkerRecord
  <2> QED BY <2>1, <2>2 DEF ObjectMap, PlaceMap
<1>2. /\ ReadyIsSafe(GroupOf(Step), w.sources, targets)
      /\ AppliedIsExact(GroupOf(Step), w.sources, targets)
  BY <1>1, ReadyImpliesSafe, AppliedImpliesExact
<1>3. StillSeen(w.sources)
  BY DEF ObservationsHold
<1>4. ASSUME CheckGroupBeforeWrite(GroupOf(Step), w.sources, targets).status
               = "already_applied"
      PROVE  Applied(w.op, w.step)
  <2>1. \A e \in GroupOf(Step) : ObservedAt(w.sources, e.object) = TargetState(e)
    BY <1>2, <1>4 DEF AppliedIsExact
  <2> QED BY <1>3, <2>1, SeenIsSo DEF Applied, Step
<1>5. ASSUME CheckGroupBeforeWrite(GroupOf(Step), w.sources, targets).status = "ready",
             NEW e \in GroupOf(Step)
      PROVE  /\ Untouched(e) => AtSource(e)
             /\ ObservedAt(targets, TargetPlace(e)) = Unobserved
  <2>1. /\ ObservedAt(w.sources, e.object) = SourceState(e)
        /\ ObservedAt(targets, TargetPlace(e)) = Unobserved
    BY <1>2, <1>5 DEF ReadyIsSafe
  <2> QED BY <1>3, <2>1, SeenIsSo
<1> QED BY <1>4, <1>5

\* The ways in which the worker is inside of a step after a call.
BeginsNextStep ==
  /\ w'.step = w.step + 1 /\ w'.member = 1 /\ w'.phase = "source"
  /\ DOMAIN w'.targets = {} /\ w'.confirmed = w.confirmed
  /\ Applied(w.op, w.step)
  /\ UNCHANGED drive

ReadsOn ==
  /\ w'.step = w.step /\ w'.confirmed = w.confirmed
  /\ UNCHANGED drive
  /\ \/ /\ w.phase = "source" /\ w'.phase = "target"
        /\ w'.member = w.member /\ w'.targets = w.targets
     \/ /\ w.phase = "target" /\ w'.phase = "source"
        /\ ~LastMember /\ w'.member = w.member + 1
        /\ \E seen \in ReadTargetAnswers(Member) :
             w'.targets = Put(w.targets, TargetPlace(Member), seen)
     \/ w.phase = "verify" /\ w'.phase = "verify"

BeginsToWrite ==
  /\ w.phase = "target" /\ LastMember
  /\ w'.step = w.step /\ w'.member = 1 /\ w'.phase = "move"
  /\ w'.confirmed = w.confirmed
  /\ UNCHANGED drive
  /\ \E seen \in ReadTargetAnswers(Member) : \A e \in GroupOf(Step) :
       /\ Untouched(e) => AtSource(e)
       /\ ObservedAt(Put(w.targets, TargetPlace(Member), seen), TargetPlace(e))
            = Unobserved

WritesOn ==
  /\ WriteObject
  /\ w.phase \in {"move", "rename"}
  /\ w'.step = w.step /\ w'.confirmed = TRUE
  /\ drive[Member.object] # Nowhere
  /\ Apply([kind |-> w.phase, member |-> Member])
  /\ \/ w.phase = "move" /\ w'.phase = "rename" /\ w'.member = w.member
     \/ w.phase = "rename" /\ w'.phase = "move" /\ w'.member = w.member + 1
     \/ w.phase = "rename" /\ w'.phase = "verify"

\* The calls of a worker that stays in its plan.
LEMMA RunningOn ==
  ASSUME TypeInv, RowIsKept, ObservationsHold, Calls, w'.pc = "running"
  PROVE  /\ w.pc = "running" /\ w'.op = w.op /\ touched' = touched
         /\ BeginsNextStep \/ ReadsOn \/ BeginsToWrite \/ WritesOn
<1>i. Inside
  BY RowIsKeptImpliesInside
<1>r. w.pc = "running" /\ w'.op = w.op
  BY CallsLeave
<1>n. ASSUME NEW next \in WorkerRecord, Call(next)
      PROVE  /\ w'.pc = next.pc /\ w'.phase = next.phase /\ w'.step = next.step
             /\ w'.member = next.member /\ w'.targets = next.targets
             /\ w'.confirmed = next.confirmed /\ touched' = touched
  BY <1>n, CallEffect DEF Becomes
<1>e. DOMAIN <<>> = {}
  OBVIOUS
<1>b. ASSUME NEW next \in WorkerRecord, Call(next), NextStepBegins(next),
             UNCHANGED drive, Applied(w.op, w.step)
      PROVE  BeginsNextStep
  BY <1>b, <1>n, <1>e DEF NextStepBegins, Continues, BeginsNextStep
<1>1. CASE ReadSource
  <2>1. PICK next \in WorkerRecord :
          /\ Call(next)
          /\ \/ next.pc = "finishing"
             \/ /\ Continues(next, w.step, w.member, "target")
                /\ next.targets = w.targets /\ next.confirmed = w.confirmed
    BY <1>i, <1>1, ReadSourceEffect DEF Ends
  <2>2. w.phase = "source" /\ UNCHANGED drive
    BY <1>i, <1>1, ReadSourceEffect
  <2> QED BY <1>n, <1>r, <2>1, <2>2 DEF ReadsOn, Continues
<1>2. CASE ReadTargetPlace
  <2>1. PICK next \in WorkerRecord :
          /\ Call(next)
          /\ \/ next.pc = "finishing"
             \/ \E seen \in ReadTargetAnswers(Member) :
                  /\ ~LastMember
                  /\ Continues(next, w.step, w.member + 1, "source")
                  /\ next.targets = Put(w.targets, TargetPlace(Member), seen)
                  /\ next.confirmed = w.confirmed
             \/ \E seen \in ReadTargetAnswers(Member) :
                  /\ LastMember
                  /\ next = Decide(Put(w.targets, TargetPlace(Member), seen))
    BY <1>i, <1>2, ReadTargetEffect DEF Ends
  <2>2. w.phase = "target" /\ UNCHANGED drive
    BY <1>i, <1>2, ReadTargetEffect
  <2>3. CASE next.pc = "finishing"
    BY <1>n, <2>1, <2>3
  <2>4. ASSUME NEW seen \in ReadTargetAnswers(Member), ~LastMember,
               Continues(next, w.step, w.member + 1, "source"),
               next.targets = Put(w.targets, TargetPlace(Member), seen),
               next.confirmed = w.confirmed
        PROVE  ReadsOn
    BY <1>n, <2>1, <2>2, <2>4 DEF ReadsOn, Continues
  <2>5. ASSUME NEW seen \in ReadTargetAnswers(Member), LastMember,
               next = Decide(Put(w.targets, TargetPlace(Member), seen))
        PROVE  BeginsNextStep \/ BeginsToWrite
    <3>1. PICK targets \in PlaceMap : targets = Put(w.targets, TargetPlace(Member), seen)
      BY <1>i, <1>r, MemberTypes, Answers, PutTypes DEF TypeInv, WorkerRecord
    <3>2. PICK status : status =
            CheckGroupBeforeWrite(GroupOf(Step), w.sources, targets).status
      OBVIOUS
    <3>3. \/ /\ status = "ready"
             /\ Continues(next, w.step, 1, "move") /\ next.confirmed = w.confirmed
          \/ status = "already_applied" /\ NextStepBegins(next)
          \/ next.pc = "finishing"
      BY <1>r, <2>5, <3>1, <3>2, DecideEffect DEF Ends
    <3>4. CASE status = "ready" /\ Continues(next, w.step, 1, "move")
               /\ next.confirmed = w.confirmed
      <4>1. \A e \in GroupOf(Step) :
              /\ Untouched(e) => AtSource(e)
              /\ ObservedAt(targets, TargetPlace(e)) = Unobserved
        BY <1>i, <1>r, <2>2, <3>2, <3>4, DecisionIsSound
      <4>2. /\ w'.step = w.step /\ w'.member = 1 /\ w'.phase = "move"
            /\ w'.confirmed = w.confirmed
        BY <1>n, <2>1, <3>4 DEF Continues
      <4> QED BY <2>2, <2>5, <3>1, <4>1, <4>2 DEF BeginsToWrite
    <3>5. CASE status = "already_applied" /\ NextStepBegins(next)
      <4>1. Applied(w.op, w.step)
        BY <1>i, <1>r, <2>2, <3>2, <3>5, DecisionIsSound
      <4> QED BY <1>b, <2>1, <2>2, <3>5, <4>1
    <3> QED BY <1>n, <2>1, <3>3, <3>4, <3>5
  <2> QED BY <1>n, <1>r, <2>1, <2>3, <2>4, <2>5
<1>3. CASE WriteObject
  <2>1. w.phase \in {"move", "rename"}
    BY <1>i, <1>3, WriteEffect
  <2>2. PICK next \in WorkerRecord :
          /\ Call(next)
          /\ \/ next.pc = "finishing"
             \/ /\ drive[Member.object] # Nowhere
                /\ Apply([kind |-> w.phase, member |-> Member])
                /\ \/ w.phase = "move" /\ Continues(next, w.step, w.member, "rename")
                   \/ w.phase = "rename" /\ Continues(next, w.step, w.member + 1, "move")
                   \/ w.phase = "rename" /\ Continues(next, w.step, 1, "verify")
                /\ next.confirmed = TRUE
    BY <1>i, <1>3, WriteEffect DEF Ends
  <2>3. next.pc # "finishing"
    BY <1>n, <2>2
  <2> QED BY <1>3, <1>n, <1>r, <2>1, <2>2, <2>3 DEF WritesOn, Continues
<1>4. CASE Verify
  <2>1. w.phase = "verify" /\ UNCHANGED drive
    BY <1>i, <1>4, VerifyEffect
  <2>2. PICK next \in WorkerRecord :
          /\ Call(next)
          /\ \/ next.pc = "finishing"
             \/ \E seen \in ReadObjectAnswers(Member) :
                  /\ CheckGroupAfterWrite(GroupOf(Step),
                       Put(w.observed, Member.object, seen)).status = "already_applied"
                  /\ NextStepBegins(next)
             \/ /\ Continues(next, w.step, w.member + 1, "verify")
                /\ next.confirmed = w.confirmed
    BY <1>i, <1>4, VerifyEffect DEF Ends
  <2>3. ASSUME NEW seen \in ReadObjectAnswers(Member),
               CheckGroupAfterWrite(GroupOf(Step),
                 Put(w.observed, Member.object, seen)).status = "already_applied",
               NextStepBegins(next)
        PROVE  BeginsNextStep
    <3>1. Applied(w.op, w.step)
      BY <1>i, <1>r, <2>1, <2>3, VerifiedIsApplied
    <3> QED BY <1>b, <2>1, <2>2, <2>3, <3>1
  <2>4. ASSUME Continues(next, w.step, w.member + 1, "verify"),
               next.confirmed = w.confirmed
        PROVE  ReadsOn
    <3>1. w'.step = w.step /\ w'.phase = "verify" /\ w'.confirmed = w.confirmed
      BY <1>n, <2>2, <2>4 DEF Continues
    <3> QED BY <2>1, <3>1 DEF ReadsOn
  <2> QED BY <1>n, <1>r, <2>2, <2>3, <2>4
<1>5. touched' = touched
  BY <1>i, <1>n, CallsGoOn
<1> QED BY <1>r, <1>1, <1>2, <1>3, <1>4, <1>5 DEF Calls

\* An object that only moves when nobody answers for it.
LEMMA FreeStays ==
  ASSUME TypeInv, RowIsKept, LateWritesAreGivenUp, [Next]_vars,
         w.pc = "running", w'.op = w.op, ~WriteObject, NEW place, Free(place)
  PROVE  Free(place)'
<1>1. ASSUME NEW x \in Objects, NEW o \in Operations \ {w.op},
             op[o].status \in {"organizing", "uncertain"}, x \in ObjectsOf(o)
      PROVE  Unsettled(x)'
  <2>1. op'[o].status \in {"organizing", "uncertain"}
    BY <1>1, StatusChanges
  <2> QED BY <1>1, <2>1 DEF Unsettled
<1>2. ASSUME NEW x \in Objects, drive'[x] = place PROVE x \in touched' \/ Unsettled(x)'
  <2>1. CASE drive'[x] = drive[x]
    BY <1>1, <1>2, <2>1, DriveChanges, RowIsKeptImpliesInside DEF Free, Unsettled
  <2>2. CASE \E write \in late : write.member.object = x
    <3>1. PICK write \in late : write.member.object = x
      BY <2>2
    <3>2. PICK o \in Operations : write.member \in Members(o) /\ GivenUp(o)
      BY DEF LateWritesAreGivenUp
    <3>3. o # w.op /\ op[o].status \in {"organizing", "uncertain"}
      BY <3>2 DEF GivenUp
    <3>4. x \in ObjectsOf(o)
      BY <3>1, <3>2 DEF ObjectsOf
    <3> QED BY <1>1, <3>3, <3>4
  <2> QED BY <2>1, <2>2, DriveChanges, RowIsKeptImpliesInside
<1> QED BY <1>2 DEF Free

\* The places that the worker has found free stay free, strangers apart.
LEMMA TargetsNext ==
  ASSUME TypeInv, ExecutorInv, [Next]_vars, RowIsKept' PROVE TargetsAreFree'
<1> SUFFICES ASSUME w'.pc = "running"
             PROVE  /\ w'.phase \in {"source", "target"} =>
                         /\ \A i \in 1..(w'.member - 1) :
                              TargetPlace(Step'[i]) \in DOMAIN w'.targets
                         /\ \A place \in DOMAIN w'.targets :
                              w'.targets[place] = Unobserved => Free(place)'
                    /\ w'.phase = "move" /\ w'.member = 1 =>
                         \A e \in GroupOf(Step)' : Free(TargetPlace(e))'
  BY DEF TargetsAreFree
<1>i. Inside /\ RowIsKept /\ LateWritesAreGivenUp /\ ObservationsHold /\ TargetsAreFree
  BY RowIsKeptImpliesInside DEF ExecutorInv
<1>m. w.member \in Nat
  BY DEF TypeInv, WorkerRecord
<1>1. CASE Others /\ UNCHANGED w
  <2>1. w.pc = "running" /\ ~WriteObject /\ Step' = Step
    BY <1>1, <1>i, OthersDoNotCall DEF Step, Calls
  <2>2. \A place : Free(place) => Free(place)'
    BY <1>1, <1>i, <2>1, FreeStays
  <2>3. /\ w.phase \in {"source", "target"} =>
             /\ \A i \in 1..(w.member - 1) : TargetPlace(Step[i]) \in DOMAIN w.targets
             /\ \A place \in DOMAIN w.targets :
                  w.targets[place] = Unobserved => Free(place)
        /\ w.phase = "move" /\ w.member = 1 => \A e \in GroupOf(Step) : Free(TargetPlace(e))
    BY <1>i, <2>1 DEF TargetsAreFree
  <2> QED BY <1>1, <2>1, <2>2, <2>3
<1>2. CASE Enters
  <2>1. w'.phase = "source" /\ w'.targets = <<>> /\ w'.member = 1
    BY <1>2 DEF Enters, TypeInv, WorkerRecord, ExecutorInv, ClaimIsFresh
  <2> QED BY <2>1
<1>3. CASE Calls
  <2>1. /\ w.pc = "running" /\ w'.op = w.op /\ touched' = touched
        /\ BeginsNextStep \/ ReadsOn \/ BeginsToWrite \/ WritesOn
    BY <1>3, <1>i, RunningOn
  <2>2. CASE BeginsNextStep
    BY <2>2 DEF BeginsNextStep
  <2>3. CASE ReadsOn
    <3>1. Step' = Step
      BY <2>1, <2>3 DEF ReadsOn, Step
    <3>2. CASE /\ w.phase = "source" /\ w'.phase = "target"
               /\ w'.member = w.member /\ w'.targets = w.targets
      <4>1. ~WriteObject
        BY <3>2 DEF WriteObject
      <4>2. \A place : Free(place) => Free(place)'
        BY <1>i, <2>1, <4>1, FreeStays
      <4> QED BY <1>i, <2>1, <3>1, <3>2, <4>2 DEF TargetsAreFree
    <3>3. ASSUME w.phase = "target", w'.phase = "source", w'.member = w.member + 1,
                 NEW seen \in ReadTargetAnswers(Member),
                 w'.targets = Put(w.targets, TargetPlace(Member), seen)
          PROVE  /\ \A i \in 1..(w'.member - 1) :
                      TargetPlace(Step'[i]) \in DOMAIN w'.targets
                 /\ \A place \in DOMAIN w'.targets :
                      w'.targets[place] = Unobserved => Free(place)'
      <4>1. ~WriteObject
        BY <3>3 DEF WriteObject
      <4>2. \A place : Free(place) => Free(place)'
        BY <1>i, <2>1, <4>1, FreeStays
      <4>3. DOMAIN w'.targets = DOMAIN w.targets \cup {TargetPlace(Member)}
        BY <3>3 DEF Put
      <4>4. \A i \in 1..(w.member - 1) : TargetPlace(Step[i]) \in DOMAIN w.targets
        BY <1>i, <2>1, <3>3 DEF TargetsAreFree
      <4>5. \A i \in 1..(w'.member - 1) : TargetPlace(Step'[i]) \in DOMAIN w'.targets
        <5>1. \A i \in 1..(w'.member - 1) : i \in 1..(w.member - 1) \/ i = w.member
          BY <1>m, <3>3
        <5> QED BY <3>1, <4>3, <4>4, <5>1 DEF Member
      <4>6. ASSUME NEW place \in DOMAIN w'.targets, w'.targets[place] = Unobserved
            PROVE  Free(place)
        <5>1. CASE place = TargetPlace(Member)
          <6>1. seen = Unobserved
            BY <3>3, <4>3, <4>6, <5>1 DEF Put
          <6> QED BY <1>i, <2>1, <5>1, <6>1, MemberTypes, Answers DEF Free
        <5>2. CASE place # TargetPlace(Member)
          <6>1. place \in DOMAIN w.targets /\ w.targets[place] = Unobserved
            BY <3>3, <4>3, <4>6, <5>2 DEF Put
          <6> QED BY <1>i, <2>1, <3>3, <6>1 DEF TargetsAreFree
        <5> QED BY <5>1, <5>2
      <4> QED BY <4>2, <4>5, <4>6
    <3> QED BY <2>3, <3>2, <3>3 DEF ReadsOn
  <2>4. CASE BeginsToWrite
    <3>1. /\ w.phase = "target" /\ LastMember /\ w'.phase = "move" /\ Step' = Step
      BY <2>1, <2>4 DEF BeginsToWrite, Step
    <3>2. PICK seen \in ReadTargetAnswers(Member) : \A e \in GroupOf(Step) :
            ObservedAt(Put(w.targets, TargetPlace(Member), seen), TargetPlace(e))
              = Unobserved
      BY <2>4 DEF BeginsToWrite
    <3>3. ~WriteObject
      BY <3>1 DEF WriteObject
    <3>4. \A place : Free(place) => Free(place)'
      BY <1>i, <2>1, <3>3, FreeStays
    <3>5. ASSUME NEW e \in GroupOf(Step) PROVE Free(TargetPlace(e))
      <4>1. CASE TargetPlace(e) = TargetPlace(Member)
        <5>1. seen = Unobserved
          BY <3>2, <4>1 DEF ObservedAt, Put
        <5> QED BY <1>i, <2>1, <4>1, <5>1, MemberTypes, Answers DEF Free
      <4>2. CASE TargetPlace(e) # TargetPlace(Member)
        <5>1. PICK k \in DOMAIN Step : e = Step[k]
          BY DEF GroupOf
        <5>2. k \in 1..(w.member - 1)
          <6>1. k # w.member
            BY <4>2, <5>1 DEF Member
          <6>2. k \in 1..Len(Step) /\ w.member = Len(Step)
            BY <1>i, <2>1, <3>1, MemberTypes DEF LastMember
          <6> QED BY <1>m, <6>1, <6>2
        <5>3. TargetPlace(e) \in DOMAIN w.targets
          BY <1>i, <2>1, <3>1, <5>1, <5>2 DEF TargetsAreFree
        <5>4. w.targets[TargetPlace(e)] = Unobserved
          BY <3>2, <4>2, <5>3 DEF ObservedAt, Put
        <5> QED BY <1>i, <2>1, <3>1, <5>3, <5>4 DEF TargetsAreFree
      <4> QED BY <4>1, <4>2
    <3> QED BY <3>1, <3>4, <3>5
  <2>5. CASE WritesOn
    <3>1. w.member >= 1
      BY <1>i, <2>1, MemberTypes
    <3> QED BY <1>m, <2>5, <3>1 DEF WritesOn
  <2> QED BY <2>1, <2>2, <2>3, <2>4, <2>5
<1>4. ~(Leaves \/ Wraps("failed") \/ Wraps("uncertain") \/ ClaimNext)
  BY PollingType, ClaimEffect DEF Leaves, Wraps
<1> QED BY <1>1, <1>2, <1>3, <1>4, StepKinds

\* No two members of a plan are the same object.
LEMMA DistinctObjects ==
  ASSUME NEW o \in Operations, NEW i \in DOMAIN Steps[o], NEW j \in DOMAIN Steps[o],
         NEW k \in DOMAIN Steps[o][i], NEW l \in DOMAIN Steps[o][j],
         Steps[o][i][k].object = Steps[o][j][l].object
  PROVE  i = j /\ k = l
<1>1. i = j
  <2>1. ASSUME i # j PROVE FALSE
    <3>1. GroupObjects(GroupOf(Steps[o][i]))
            \cap GroupObjects(GroupOf(Steps[o][j])) = {}
      BY <2>1, StepsAssumption
    <3>2. /\ Steps[o][i][k].object \in GroupObjects(GroupOf(Steps[o][i]))
          /\ Steps[o][j][l].object \in GroupObjects(GroupOf(Steps[o][j]))
      BY DEF GroupObjects, GroupOf
    <3> QED BY <3>1, <3>2
  <2> QED BY <2>1
<1>2. k = l
  <2>1. IsCompanionGroup(Steps[o][i])
    BY StepsAssumption
  <2> QED BY <1>1, <2>1 DEF IsCompanionGroup
<1> QED BY <1>1, <1>2

\* The members the worker has dealt with stay written.
LEMMA MembersNext ==
  ASSUME TypeInv, ExecutorInv, [Next]_vars, RowIsKept' PROVE MembersAreWritten'
<1> SUFFICES ASSUME w'.pc = "running", w'.phase \in {"move", "rename"},
                    NEW i \in DOMAIN Step', Untouched(Step[i])'
             PROVE  Written(i)'
  BY DEF MembersAreWritten
<1>i. Inside /\ RowIsKept /\ LateWritesAreGivenUp /\ ObservationsHold /\ MembersAreWritten
  BY RowIsKeptImpliesInside DEF ExecutorInv
<1>d. touched \subseteq touched'
  <2>1. \A x \in Objects : touched \subseteq touched'
    BY <1>i, DriveChanges
  <2>2. CASE Objects = {}
    BY <2>2 DEF TypeInv
  <2> QED BY <2>1, <2>2
<1>1. CASE Others /\ UNCHANGED w
  <2>1. w.pc = "running" /\ ~WriteObject /\ Step' = Step
    BY <1>1, <1>i, OthersDoNotCall DEF Step, Calls
  <2>2. PICK e : e = Step[i] /\ e = Step'[i]
    BY <2>1
  <2>3. w.op \in Operations /\ ~GivenUp(w.op) /\ e.object \in ObjectsOf(w.op)
    <3>1. e \in GroupOf(Step)
      BY <2>1, <2>2 DEF GroupOf
    <3> QED BY <1>i, <2>1, <3>1, MemberTypes DEF GivenUp, ObjectsOf
  <2>4. e.object \notin touched' \cup Shared
    BY <2>2 DEF Untouched
  <2>5. drive'[e.object] = drive[e.object]
    BY <1>i, <2>1, <2>3, <2>4, Steady
  <2>6. Written(i)
    BY <1>1, <1>d, <1>i, <2>1, <2>2, <2>4 DEF MembersAreWritten, Untouched
  <2> QED BY <1>1, <2>1, <2>2, <2>5, <2>6 DEF Written
<1>2. CASE Calls
  <2>1. /\ w.pc = "running" /\ w'.op = w.op /\ touched' = touched
        /\ BeginsNextStep \/ ReadsOn \/ BeginsToWrite \/ WritesOn
    BY <1>2, <1>i, RunningOn
  <2>2. ~BeginsNextStep /\ ~ReadsOn
    BY DEF BeginsNextStep, ReadsOn
  <2>3. CASE BeginsToWrite
    <3>1. w'.member = 1 /\ w'.phase = "move" /\ Step' = Step /\ drive' = drive
      BY <2>1, <2>3 DEF BeginsToWrite, Step
    <3>2. PICK e : e = Step[i] /\ e = Step'[i]
      BY <3>1
    <3>3. e \in GroupOf(Step) /\ Untouched(e)
      BY <2>1, <3>1, <3>2 DEF GroupOf, Untouched
    <3>4. AtSource(e)
      BY <2>3, <3>3 DEF BeginsToWrite
    <3>5. i \in 1..Len(Step)
      BY <1>i, <2>1, <3>1, MemberTypes
    <3>6. ~(i < 1)
      BY <3>5
    <3> QED BY <3>1, <3>2, <3>4, <3>6 DEF Written, AtSource
  <2>4. CASE WritesOn
    <3> DEFINE write == [kind |-> w.phase, member |-> Member]
    <3>1. Step' = Step /\ w.phase \in {"move", "rename"}
      BY <2>1, <2>4 DEF WritesOn, Step
    <3>2. PICK e : e = Step[i] /\ e = Step'[i]
      BY <3>1
    <3>3. Untouched(e)
      BY <2>1, <3>2 DEF Untouched
    <3>4. Written(i)
      BY <1>i, <2>1, <3>1, <3>2, <3>3 DEF MembersAreWritten
    <3>5. write \in Write /\ write.member = Member
      BY <1>i, <2>1, <3>1, MemberTypes DEF Write
    <3>6. /\ drive'[Member.object] = PlaceAfter(write)
          /\ \A x \in Objects : x # Member.object => drive'[x] = drive[x]
      BY <2>4, <3>5, ApplyEffect DEF WritesOn
    <3>7. i \in 1..Len(Step) /\ w.member \in 1..Len(Step) /\ w.op \in Operations
          /\ w.step \in DOMAIN Steps[w.op]
      BY <1>i, <2>1, <3>1, MemberTypes
    <3>8. CASE i = w.member
      <4>1. e = Member
        BY <3>2, <3>8 DEF Member
      <4>2. CASE w.phase = "move"
        <5>1. drive[e.object] = <<e.sourceParent, e.sourceName>>
          BY <3>2, <3>4, <3>8, <4>2, <3>7 DEF Written
        <5>2. drive'[e.object] = <<e.targetParent, e.sourceName>>
          BY <2>4, <3>6, <4>1, <4>2, <5>1 DEF PlaceAfter, WritesOn
        <5>3. w'.phase = "rename" /\ w'.member = w.member
          BY <2>4, <4>2 DEF WritesOn
        <5> QED BY <3>2, <3>7, <3>8, <5>2, <5>3 DEF Written
      <4>3. CASE w.phase = "rename"
        <5>1. drive[e.object] = <<e.targetParent, e.sourceName>>
          BY <3>2, <3>4, <3>8, <4>3, <3>7 DEF Written
        <5>2. drive'[e.object] = <<e.targetParent, e.targetName>>
          BY <2>4, <3>6, <4>1, <4>3, <5>1 DEF PlaceAfter, WritesOn
        <5>3. w'.phase = "move" /\ w'.member = w.member + 1
          BY <2>4, <4>3 DEF WritesOn
        <5>4. i < w'.member
          BY <3>7, <3>8, <5>3
        <5> QED BY <3>2, <5>2, <5>4 DEF Written, TargetPlace
      <4> QED BY <3>1, <4>2, <4>3
    <3>9. CASE i # w.member
      <4>1. e.object # Member.object
        <5>1. Step[i].object = Step[w.member].object => i = w.member
          BY <3>7, DistinctObjects DEF Step
        <5> QED BY <3>2, <3>9, <5>1 DEF Member
      <4>2. e.object \in Objects
        <5>1. e \in GroupOf(Step)
          BY <3>1, <3>2 DEF GroupOf
        <5> QED BY <1>i, <2>1, <5>1, MemberTypes, StepTypes DEF StepExpectation
      <4>3. drive'[e.object] = drive[e.object]
        BY <3>6, <4>1, <4>2
      <4>4. \/ w'.phase = "rename" /\ w'.member = w.member
            \/ w'.phase = "move" /\ w'.member = w.member + 1
        BY <2>4 DEF WritesOn
      <4>5. /\ i < w'.member <=> i < w.member
            /\ i # w'.member \/ w'.phase = "move"
        BY <3>7, <3>9, <4>4
      <4> QED BY <3>2, <3>4, <3>9, <4>3, <4>5 DEF Written
    <3> QED BY <3>8, <3>9
  <2> QED BY <2>1, <2>2, <2>3, <2>4
<1>3. ~(Leaves \/ Wraps("failed") \/ Wraps("uncertain") \/ ClaimNext)
  BY PollingType, ClaimEffect DEF Leaves, Wraps
<1>4. ~Enters
  BY DEF Enters, TypeInv, WorkerRecord, ExecutorInv, ClaimIsFresh
<1> QED BY <1>1, <1>2, <1>3, <1>4, StepKinds

\* What a worker that comes to a result has seen.
LEMMA FinishingOn ==
  ASSUME TypeInv, RowIsKept, ObservationsHold, Calls, w'.pc = "finishing"
  PROVE  /\ w.pc = "running" /\ w'.op = w.op /\ touched' = touched
         /\ \/ w'.result = "uncertain"
            \/ /\ w'.result = "failed" /\ UNCHANGED drive
               /\ w.phase \in {"source", "target"} \/ ~w.confirmed
            \/ /\ w'.result = "organized" /\ UNCHANGED drive
               /\ Applied(w.op, w.step) /\ ~(w.step < Len(Steps[w.op]))
<1>i. Inside
  BY RowIsKeptImpliesInside
<1>r. w.pc = "running" /\ w'.op = w.op
  BY CallsLeave
<1>n. ASSUME NEW next \in WorkerRecord, Call(next)
      PROVE  w'.pc = next.pc /\ w'.result = next.result /\ touched' = touched
  BY <1>n, CallEffect DEF Becomes
<1>t. touched' = touched
  BY <1>i, <1>n, CallsGoOn
<1>1. CASE ReadSource
  <2>1. PICK next \in WorkerRecord :
          Call(next) /\ (next.result = "uncertain" \/ next.pc = "running")
    BY <1>i, <1>1, ReadSourceEffect DEF Ends, Continues
  <2> QED BY <1>n, <1>r, <1>t, <2>1
<1>2. CASE ReadTargetPlace
  <2>1. PICK next \in WorkerRecord :
          /\ Call(next)
          /\ \/ next.result = "uncertain" \/ next.pc = "running"
             \/ \E seen \in ReadTargetAnswers(Member) :
                  next = Decide(Put(w.targets, TargetPlace(Member), seen))
    BY <1>i, <1>2, ReadTargetEffect DEF Ends, Continues
  <2>2. w.phase = "target" /\ UNCHANGED drive
    BY <1>i, <1>2, ReadTargetEffect
  <2>3. ASSUME NEW seen \in ReadTargetAnswers(Member),
               next = Decide(Put(w.targets, TargetPlace(Member), seen))
        PROVE  \/ next.result \in {"failed", "uncertain"} \/ next.pc = "running"
               \/ /\ next.result = "organized" /\ Applied(w.op, w.step)
                  /\ ~(w.step < Len(Steps[w.op]))
    <3>1. PICK targets \in PlaceMap : targets = Put(w.targets, TargetPlace(Member), seen)
      BY <1>i, <1>r, MemberTypes, Answers, PutTypes DEF TypeInv, WorkerRecord
    <3>2. PICK status : status =
            CheckGroupBeforeWrite(GroupOf(Step), w.sources, targets).status
      OBVIOUS
    <3>3. \/ next.pc = "running"
          \/ /\ status = "already_applied" /\ ~(w.step < Len(Steps[w.op]))
             /\ next.result = "organized"
          \/ next.result \in {"failed", "uncertain"}
      BY <1>r, <2>3, <3>1, <3>2, DecideEffect DEF Ends, Continues, NextStepBegins
    <3>4. status = "already_applied" => Applied(w.op, w.step)
      BY <1>i, <1>r, <2>2, <3>2, DecisionIsSound
    <3> QED BY <3>3, <3>4
  <2> QED BY <1>n, <1>r, <1>t, <2>1, <2>2, <2>3
<1>3. CASE WriteObject
  <2>1. PICK next \in WorkerRecord :
          /\ Call(next)
          /\ \/ next.result = "uncertain" \/ next.pc = "running"
             \/ next.result = AfterFailedWrite /\ UNCHANGED drive
    BY <1>i, <1>3, WriteEffect DEF Ends, Continues
  <2>2. \/ AfterFailedWrite = "uncertain"
        \/ AfterFailedWrite = "failed" /\ ~w.confirmed
    BY DEF AfterFailedWrite
  <2> QED BY <1>n, <1>r, <1>t, <2>1, <2>2
<1>4. CASE Verify
  <2>1. w.phase = "verify" /\ UNCHANGED drive
    BY <1>i, <1>4, VerifyEffect
  <2>2. PICK next \in WorkerRecord :
          /\ Call(next)
          /\ \/ next.result = "uncertain" \/ next.pc = "running"
             \/ \E seen \in ReadObjectAnswers(Member) :
                  /\ CheckGroupAfterWrite(GroupOf(Step),
                       Put(w.observed, Member.object, seen)).status = "already_applied"
                  /\ ~(w.step < Len(Steps[w.op])) /\ next.result = "organized"
    BY <1>i, <1>4, VerifyEffect DEF Ends, Continues, NextStepBegins
  <2> QED BY <1>i, <1>n, <1>r, <1>t, <2>1, <2>2, VerifiedIsApplied
<1> QED BY <1>1, <1>2, <1>3, <1>4 DEF Calls

\* A plan whose objects nobody else has touched stays as whole as it was.
LEMMA PlanStays ==
  ASSUME NEW o \in Operations, touched \subseteq touched',
         \A x \in ObjectsOf(o) : x \notin touched' \cup Shared => drive'[x] = drive[x]
  PROVE  /\ \A i \in DOMAIN Steps[o] :
              /\ Whole(o, i) => Whole(o, i)'
              /\ Applied(o, i) => Applied(o, i)'
         /\ PlanIsWhole(o) => PlanIsWhole(o)'
         /\ PlanIsApplied(o) => PlanIsApplied(o)'
<1>1. \A i \in DOMAIN Steps[o] :
        /\ Whole(o, i) => Whole(o, i)'
        /\ Applied(o, i) => Applied(o, i)'
  BY SharedObjects, ShapeStays
<1> QED BY <1>1 DEF PlanIsWhole, PlanIsApplied

\* What others have touched is never forgotten.
LEMMA TouchedGrows ==
  ASSUME TypeInv, RowIsKept, [Next]_vars PROVE touched \subseteq touched'
<1>1. CASE Objects = {}
  BY <1>1 DEF TypeInv
<1>2. CASE Objects # {}
  BY <1>2, DriveChanges, RowIsKeptImpliesInside
<1> QED BY <1>1, <1>2

\* The operations that are not in anybody's hands.
SettledStepsAreWhole ==
  \A o \in Operations :
    /\ op[o].status \notin {"organizing", "uncertain"} => PlanIsWhole(o)
    /\ op[o].status = "organized" => PlanIsApplied(o)

\* The steps behind the worker stay whole.
LEMMA SettledNext ==
  ASSUME TypeInv, ExecutorInv, [Next]_vars PROVE SettledStepsAreWhole'
<1>i. RowIsKept /\ LateWritesAreGivenUp /\ StepsAreWhole
  BY DEF ExecutorInv
<1> SUFFICES ASSUME NEW o \in Operations,
                    op'[o].status \notin {"organizing", "uncertain"}
             PROVE  /\ PlanIsWhole(o)'
                    /\ op'[o].status = "organized" => PlanIsApplied(o)'
  BY DEF SettledStepsAreWhole
<1>1. CASE op[o].status \notin {"organizing", "uncertain"}
  <2>1. ~GivenUp(o) /\ w.op # o
    BY <1>1, <1>i, StepsAssumption DEF GivenUp, RowIsKept
  <2>2. \A x \in ObjectsOf(o) : x \notin touched' \cup Shared => drive'[x] = drive[x]
    BY <1>i, <2>1, Steady
  <2>3. PlanIsWhole(o) /\ (op[o].status = "organized" => PlanIsApplied(o))
    BY <1>1, <1>i DEF StepsAreWhole
  <2>4. op'[o].status = "organized" => op[o].status = "organized"
    BY <1>i, <2>1, StatusChanges
  <2> QED BY <1>i, <2>2, <2>3, <2>4, PlanStays, TouchedGrows
<1>2. CASE op[o].status \in {"organizing", "uncertain"}
  <2>1. /\ Leaves /\ w.op = o
        /\ \/ op'[o].status = "failed" /\ w.pc = "claimed"
           \/ /\ w.pc = "finishing" /\ w.result # "uncertain"
              /\ op'[o].status = "organized" => w.result = "organized"
    BY <1>2, <1>i, StatusChanges
  <2>2. PlanIsWhole(o) /\ (op'[o].status = "organized" => PlanIsApplied(o))
    BY <1>i, <2>1 DEF StepsAreWhole
  <2>3. touched' = touched /\ drive' = drive
    BY <2>1 DEF Leaves
  <2> QED BY <2>2, <2>3, PlanStays
<1> QED BY <1>1, <1>2

\* Of the steps of an operation, at most the one under way is half done.
LEMMA StepsNext ==
  ASSUME TypeInv, ExecutorInv, [Next]_vars, RowIsKept' PROVE StepsAreWhole'
<1>i. /\ RowIsKept /\ LateWritesAreGivenUp /\ StepsAreWhole /\ ObservationsHold
      /\ Inside /\ ClaimIsFresh
  BY RowIsKeptImpliesInside DEF ExecutorInv
<1>w. \A o \in Operations : \A i \in DOMAIN Steps[o] : Applied(o, i) => Whole(o, i)
  BY AppliedIsWhole
<1>1. SettledStepsAreWhole'
  BY SettledNext
\* The steps of the worker's operation, once it has one.
<1>2. ASSUME NEW o \in Operations, w'.op = o
      PROVE  /\ w'.pc \in {"claimed", "loaded"} => PlanIsWhole(o)'
             /\ w'.pc = "running" =>
                  /\ \A i \in 1..(w'.step - 1) : Applied(o, i)'
                  /\ \A i \in DOMAIN Steps[o] :
                       i # w'.step \/ w'.phase \in {"source", "target"} \/ ~w'.confirmed
                       => Whole(o, i)'
             /\ w'.pc = "finishing" =>
                  /\ w'.result # "uncertain" => PlanIsWhole(o)'
                  /\ w'.result = "organized" => PlanIsApplied(o)'
  <2>s. Steps[o] \in Seq(Seq(StepExpectation))
    BY StepTypes
  <2>o. w.op = o =>
          /\ w.pc \in {"claimed", "loaded"} => PlanIsWhole(o)
          /\ w.pc = "running" =>
               /\ \A i \in 1..(w.step - 1) : Applied(o, i)
               /\ \A i \in DOMAIN Steps[o] :
                    i # w.step \/ w.phase \in {"source", "target"} \/ ~w.confirmed
                    => Whole(o, i)
               /\ w.step \in DOMAIN Steps[o]
          /\ w.pc = "finishing" =>
               /\ w.result # "uncertain" => PlanIsWhole(o)
               /\ w.result = "organized" => PlanIsApplied(o)
    BY <1>i DEF StepsAreWhole, Inside
  \* A step that leaves the drive alone leaves the shape of the plan alone.
  <2>d. ASSUME UNCHANGED <<drive, touched>>
        PROVE  /\ \A i \in DOMAIN Steps[o] :
                    /\ Whole(o, i) => Whole(o, i)'
                    /\ Applied(o, i) => Applied(o, i)'
               /\ PlanIsWhole(o) => PlanIsWhole(o)'
               /\ PlanIsApplied(o) => PlanIsApplied(o)'
    BY <2>d, PlanStays
  <2>b. ASSUME w.pc = "running", w.op = o
        PROVE  \A i \in 1..(w.step - 1) : i \in DOMAIN Steps[o]
    BY <2>b, <2>o, <2>s
  <2>1. CASE Others /\ UNCHANGED w
    <3>1. CASE w.pc = "finishing" /\ w.result = "uncertain"
      BY <2>1, <2>o, <1>2, <3>1, <1>i DEF RowIsKept
    <3>2. CASE ~(w.pc = "finishing" /\ w.result = "uncertain")
      <4>1. ~GivenUp(o) /\ ~WriteObject
        BY <1>2, <1>i, <2>1, <3>2, OthersDoNotCall DEF GivenUp, Calls
      <4>2. \A x \in ObjectsOf(o) :
              x \notin touched' \cup Shared => drive'[x] = drive[x]
        BY <1>i, <4>1, Steady
      <4>3. /\ \A i \in DOMAIN Steps[o] :
                 /\ Whole(o, i) => Whole(o, i)'
                 /\ Applied(o, i) => Applied(o, i)'
            /\ PlanIsWhole(o) => PlanIsWhole(o)'
            /\ PlanIsApplied(o) => PlanIsApplied(o)'
        BY <1>i, <4>2, PlanStays, TouchedGrows
      <4> QED BY <1>2, <2>1, <2>b, <2>o, <4>3
    <3> QED BY <3>1, <3>2
  <2>2. CASE Leaves
    BY <1>2, <2>2, PollingType, StepsAssumption DEF Leaves
  <2>3. CASE Wraps("failed") \/ Wraps("uncertain")
    <3>1. w'.pc = "finishing" /\ w.op = o /\ UNCHANGED <<drive, touched>>
      BY <1>2, <2>3 DEF Wraps
    <3>2. w'.result # "organized"
      BY <2>3 DEF Wraps
    <3>3. ASSUME w'.result # "uncertain" PROVE PlanIsWhole(o)
      <4>1. w.pc = "loaded" \/ (w.pc = "running" /\ w.phase \in {"source", "target"})
        BY <2>3, <3>3 DEF Wraps
      <4> QED BY <2>o, <3>1, <4>1 DEF PlanIsWhole
    <3> QED BY <2>d, <3>1, <3>2, <3>3
  <2>4. CASE Enters
    <3>1. /\ w.op = o /\ w.pc \in {"claimed", "loaded"} /\ UNCHANGED <<drive, touched>>
          /\ w'.pc \in {"loaded", "running"} /\ w'.step = 1
      BY <1>2, <1>i, <2>4 DEF Enters, TypeInv, WorkerRecord, ClaimIsFresh
    <3>2. PlanIsWhole(o)' /\ \A i \in DOMAIN Steps[o] : Whole(o, i)'
      BY <2>d, <2>o, <3>1 DEF PlanIsWhole
    <3> QED BY <3>1, <3>2
  <2>5. CASE ClaimNext
    <3>1. /\ op[o].status = "planned" /\ w'.pc = "claimed" /\ UNCHANGED <<drive, touched>>
      BY <1>2, <2>5, ClaimEffect
    <3>2. PlanIsWhole(o)
      BY <1>i, <3>1 DEF StepsAreWhole
    <3> QED BY <2>d, <3>1, <3>2
  <2>6. CASE Calls /\ w'.pc = "finishing"
    <3>1. /\ w.pc = "running" /\ w.op = o /\ touched' = touched
          /\ \/ w'.result = "uncertain"
             \/ /\ w'.result = "failed" /\ UNCHANGED drive
                /\ w.phase \in {"source", "target"} \/ ~w.confirmed
             \/ /\ w'.result = "organized" /\ UNCHANGED drive
                /\ Applied(o, w.step) /\ ~(w.step < Len(Steps[o]))
      BY <1>2, <1>i, <2>6, FinishingOn
    <3>2. CASE w'.result = "uncertain"
      BY <2>6, <3>2
    <3>3. CASE /\ w'.result = "failed" /\ UNCHANGED drive
               /\ w.phase \in {"source", "target"} \/ ~w.confirmed
      <4>1. PlanIsWhole(o)
        BY <2>o, <3>1, <3>3 DEF PlanIsWhole
      <4> QED BY <2>6, <2>d, <3>1, <3>3, <4>1
    <3>4. CASE /\ w'.result = "organized" /\ UNCHANGED drive
               /\ Applied(o, w.step) /\ ~(w.step < Len(Steps[o]))
      <4>1. \A i \in DOMAIN Steps[o] : i \in 1..(w.step - 1) \/ i = w.step
        BY <2>o, <2>s, <3>1, <3>4
      <4>2. PlanIsApplied(o)
        BY <2>o, <3>1, <3>4, <4>1 DEF PlanIsApplied
      <4>3. PlanIsWhole(o)
        BY <1>w, <4>2 DEF PlanIsApplied, PlanIsWhole
      <4> QED BY <2>6, <2>d, <3>1, <3>4, <4>2, <4>3
    <3> QED BY <3>1, <3>2, <3>3, <3>4
  <2>7. CASE Calls /\ w'.pc = "running"
    <3>1. /\ w.pc = "running" /\ w.op = o /\ touched' = touched
          /\ BeginsNextStep \/ ReadsOn \/ BeginsToWrite \/ WritesOn
      BY <1>2, <1>i, <2>7, RunningOn
    <3>2. CASE BeginsNextStep
      <4>1. /\ UNCHANGED drive /\ w'.step = w.step + 1 /\ Applied(o, w.step)
            /\ w'.phase = "source"
        BY <3>1, <3>2 DEF BeginsNextStep
      <4>2. \A i \in 1..(w'.step - 1) : i \in 1..(w.step - 1) \/ i = w.step
        BY <2>o, <2>s, <3>1, <4>1
      <4>3. \A i \in 1..(w'.step - 1) : Applied(o, i) /\ i \in DOMAIN Steps[o]
        BY <2>b, <2>o, <3>1, <4>1, <4>2
      <4>4. \A i \in DOMAIN Steps[o] : Whole(o, i)
        BY <1>w, <2>o, <3>1, <4>1
      <4> QED BY <2>7, <2>d, <3>1, <4>1, <4>3, <4>4
    <3>3. CASE ReadsOn \/ BeginsToWrite
      <4>1. /\ UNCHANGED drive /\ w'.step = w.step /\ w'.confirmed = w.confirmed
            /\ w.phase \in {"source", "target"}
               \/ (w.phase = "verify" /\ w'.phase = "verify")
        BY <3>3 DEF ReadsOn, BeginsToWrite
      <4>2. \A i \in DOMAIN Steps[o] :
              i # w'.step \/ w'.phase \in {"source", "target"} \/ ~w'.confirmed
              => Whole(o, i)
        BY <2>o, <3>1, <4>1
      <4> QED BY <2>7, <2>b, <2>d, <2>o, <3>1, <4>1, <4>2
    <3>4. CASE WritesOn
      <4> DEFINE write == [kind |-> w.phase, member |-> Member]
      <4>1. /\ w'.step = w.step /\ w'.confirmed = TRUE
            /\ w'.phase \notin {"source", "target"} /\ w.phase \in {"move", "rename"}
        BY <3>4 DEF WritesOn
      <4>2. write \in Write /\ write.member = Member
        BY <1>i, <3>1, <4>1, MemberTypes DEF Write
      <4>3. \A x \in Objects : x # Member.object => drive'[x] = drive[x]
        BY <3>4, <4>2, ApplyEffect DEF WritesOn
      <4>4. ASSUME NEW i \in DOMAIN Steps[o], i # w.step,
                   NEW e \in GroupOf(Steps[o][i])
            PROVE  drive'[e.object] = drive[e.object]
        <5>1. PICK k \in DOMAIN Steps[o][i] : e = Steps[o][i][k]
          BY DEF GroupOf
        <5>2. w.step \in DOMAIN Steps[o] /\ w.member \in DOMAIN Steps[o][w.step]
              /\ Member = Steps[o][w.step][w.member]
          BY <1>i, <3>1 DEF Inside, Member, Step
        <5>3. e.object # Member.object
          BY <4>4, <5>1, <5>2, DistinctObjects
        <5>4. e.object \in Objects
          BY SharedObjects
        <5> QED BY <4>3, <5>3, <5>4
      <4>5. \A i \in DOMAIN Steps[o] : i # w.step =>
              /\ Whole(o, i) => Whole(o, i)'
              /\ Applied(o, i) => Applied(o, i)'
        BY <3>1, <4>4, ShapeStays
      <4>6. \A i \in 1..(w.step - 1) : i # w.step
        BY <2>o, <2>s, <3>1
      <4> QED BY <2>7, <2>b, <2>o, <3>1, <4>1, <4>5, <4>6
    <3> QED BY <3>1, <3>2, <3>3, <3>4
  <2> QED BY <1>i, <2>1, <2>2, <2>3, <2>4, <2>5, <2>6, <2>7, CallsLeave, StepKinds
<1>3. w'.pc \in {"claimed", "loaded", "running", "finishing"} =>
        \E o \in Operations : w'.op = o
  <2>1. w'.op \in Operations \/ w'.op = NoOperation
    <3>1. CASE ClaimNext
      BY <3>1, ClaimEffect
    <3> QED BY <1>i, <3>1, OperationIsKept, RowIsKeptImpliesInside
  <2>2. w'.op = NoOperation => w'.pc \in {"polling", "stopped"}
    BY PollingType DEF RowIsKept
  <2> QED BY <2>1, <2>2
<1> QED
  <2>1. ASSUME w'.pc \in {"claimed", "loaded", "running", "finishing"}
        PROVE  /\ w'.pc \in {"claimed", "loaded"} => PlanIsWhole(w.op)'
               /\ w'.pc = "running" =>
                    /\ \A i \in 1..(w'.step - 1) : Applied(w.op, i)'
                    /\ \A i \in DOMAIN Steps[w'.op] :
                         i # w'.step \/ w'.phase \in {"source", "target"}
                           \/ ~w'.confirmed => Whole(w.op, i)'
               /\ w'.pc = "finishing" =>
                    /\ w'.result # "uncertain" => PlanIsWhole(w.op)'
                    /\ w'.result = "organized" => PlanIsApplied(w.op)'
    <3>1. PICK o \in Operations : w'.op = o
      BY <1>3, <2>1
    <3> QED BY <1>2, <3>1
       DEF PlanIsWhole, PlanIsApplied, Whole, Applied
  <2> QED BY <1>1, <2>1 DEF StepsAreWhole, SettledStepsAreWhole

\* In the beginning every file is where the scan saw it.
LEMMA InvariantInitially == Init => ExecutorInv
<1> SUFFICES ASSUME Init PROVE ExecutorInv
  OBVIOUS
<1>k. RowIsKept
  BY KeptInitially
<1>1. ASSUME NEW o \in Operations, NEW i \in DOMAIN Steps[o],
             NEW e \in GroupOf(Steps[o][i]), Untouched(e)
      PROVE  AtSource(e)
  <2> DEFINE planned ==
               {d \in UNION {Members(q) : q \in Operations} : d.object = e.object}
  <2>1. e \in planned
    BY StepTypes
  <2>2. ASSUME NEW d \in planned PROVE d = e
    <3>1. PICK q \in Operations : d \in Members(q)
      OBVIOUS
    <3>2. d.object = e.object /\ e.object \in ObjectsOf(o) /\ d.object \in ObjectsOf(q)
      BY <3>1, SharedObjects DEF ObjectsOf
    <3>3. q = o
      BY <1>1, <3>2, SharedObjects DEF Untouched
    <3>4. PICK j \in DOMAIN Steps[o] : d \in GroupOf(Steps[o][j])
      BY <3>1, <3>3 DEF Members
    <3>5. PICK l \in DOMAIN Steps[o][j] : d = Steps[o][j][l]
      BY <3>4 DEF GroupOf
    <3>6. PICK k \in DOMAIN Steps[o][i] : e = Steps[o][i][k]
      BY DEF GroupOf
    <3> QED BY <3>2, <3>5, <3>6, DistinctObjects
  <2>3. (CHOOSE d \in planned : TRUE) = e
    BY <2>1, <2>2
  <2>4. Home(e.object) = <<e.sourceParent, e.sourceName>>
    BY <2>1, <2>3 DEF Home
  <2>5. e.object \in Objects
    BY SharedObjects
  <2> QED BY <2>4, <2>5 DEF AtSource, Init
<1>2. \A o \in Operations : PlanIsWhole(o) /\ op[o].status = "planned"
  BY <1>1, RowColumns DEF PlanIsWhole, Whole, Init
<1>3. w.pc = "stopped" /\ late = {}
  BY PollingType DEF Init
<1> QED BY <1>k, <1>2, <1>3
        DEF ExecutorInv, ClaimIsFresh, LateWritesAreGivenUp, ObservationsHold,
            TargetsAreFree, MembersAreWritten, StepsAreWhole

\* Every step keeps the invariant.
LEMMA InvariantNext == TypeInv /\ ExecutorInv /\ [Next]_vars => TypeInv' /\ ExecutorInv'
<1> SUFFICES ASSUME TypeInv, ExecutorInv, [Next]_vars PROVE TypeInv' /\ ExecutorInv'
  OBVIOUS
<1>1. RowIsKept /\ ClaimIsFresh /\ LateWritesAreGivenUp
  BY DEF ExecutorInv
<1>2. TypeInv' /\ RowIsKept'
  BY <1>1, KeptNext
<1>3. ClaimIsFresh'
  BY <1>1, FreshNext
<1>4. LateWritesAreGivenUp'
  BY <1>1, <1>2, LateNext
<1>5. ObservationsHold' /\ TargetsAreFree' /\ MembersAreWritten' /\ StepsAreWhole'
  BY <1>2, ObservationsNext, TargetsNext, MembersNext, StepsNext
<1> QED BY <1>2, <1>3, <1>4, <1>5 DEF ExecutorInv

\* What the whole of the executor rests on: its record, the rows, the drive and
\* the writes without an answer agree with each other at every moment.
THEOREM InvariantHolds == Spec => [](TypeInv /\ ExecutorInv)
<1>1. Init => TypeInv /\ ExecutorInv
  BY KeptInitially, InvariantInitially
<1> QED BY <1>1, InvariantNext, PTL DEF Spec

-----------------------------------------------------------------------------
(***************************************************************************)
(* The properties of the executor.                                         *)
(***************************************************************************)

\* A user may retry an operation, or take it as done or called off, without a
\* late write of an earlier attempt changing the drive behind it.
THEOREM NothingIsPending == Spec => []SettledIsQuiescent
<1>1. ExecutorInv => SettledIsQuiescent
  <2> SUFFICES ASSUME ExecutorInv, NEW o \in Operations,
                      op[o].status \in {"planned", "failed", "cancelled", "organized"},
                      NEW write \in late, write.member.object \in ObjectsOf(o) \ Shared
               PROVE  FALSE
    BY DEF SettledIsQuiescent
  <2>1. PICK q \in Operations : write.member \in Members(q) /\ GivenUp(q)
    BY DEF ExecutorInv, LateWritesAreGivenUp
  <2>2. write.member.object \in ObjectsOf(q)
    BY <2>1 DEF ObjectsOf
  <2>3. q = o
    BY <2>2, SharedObjects
  <2> QED BY <2>1, <2>3 DEF GivenUp
<1> QED BY <1>1, InvariantHolds, PTL

\* A video and its companions are never left apart without the operation
\* saying so.
THEOREM GroupsStayWhole == Spec => []GroupsAreWhole
<1>1. ExecutorInv => GroupsAreWhole
  BY DEF ExecutorInv, StepsAreWhole, GroupsAreWhole, PlanIsWhole
<1> QED BY <1>1, InvariantHolds, PTL

\* No event is lost.
LEMMA EventsAreKept ==
  ASSUME TypeInv, RowIsKept, [Next]_vars PROVE dirty \subseteq dirty'
<1>1. CASE Others
  BY <1>1 DEF Others, CancelOperation, RetryOperation, ChangePlan, LateWrite, Tamper,
              Tick, rows, vars
<1>2. CASE Leaves
  BY <1>2 DEF Leaves, RejectClaim, LoseLease, FinishOperation, StartWorker,
              LocalFailure, CancelWorker, KillWorker, rows
<1>3. CASE Calls
  BY <1>3, CallsGoOn, CallEffect, RowIsKeptImpliesInside
<1>4. CASE ~Others /\ ~Leaves /\ ~Calls
  BY <1>4, StepKinds
     DEF Next, WorkerStep, ClaimNext, PrepareRun, BeginExecute, OutOfCalls,
         CancelWorker, rows, Others, Calls, RejectClaim, LoseLease, FinishOperation,
         LocalFailure, KillWorker, StartWorker
<1> QED BY <1>1, <1>2, <1>3, <1>4

\* ORGANIZED commits together with the dirty event of each directory that lost
\* or got a file, and no event is ever taken back.
THEOREM OrganizedReports == Spec => []OrganizedIsReported
<1>1. Init => OrganizedIsReported
  BY RowColumns DEF Init, OrganizedIsReported
<1>2. TypeInv /\ ExecutorInv /\ OrganizedIsReported /\ [Next]_vars => OrganizedIsReported'
  <2> SUFFICES ASSUME TypeInv, ExecutorInv, OrganizedIsReported, [Next]_vars,
                      NEW o \in Operations, op'[o].status = "organized",
                      NEW e \in Members(o)
               PROVE  {<<o, e.sourceParent>>, <<o, e.targetParent>>} \subseteq dirty'
    BY DEF OrganizedIsReported
  <2>i. RowIsKept
    BY DEF ExecutorInv
  <2>1. CASE op[o].status = "organized"
    BY <2>1, <2>i, EventsAreKept DEF OrganizedIsReported
  <2>2. CASE op[o].status # "organized"
    <3>1. dirty' = dirty \cup ({o} \X DirectoriesOf(o))
      BY <2>2, <2>i, StatusChanges
    <3> QED BY <3>1 DEF DirectoriesOf
  <2> QED BY <2>1, <2>2
<1> QED BY <1>1, <1>2, InvariantHolds, PTL DEF Spec

\* ORGANIZED is said only of a plan whose files are all where it put them, and
\* that was reported to the directories' readers.
THEOREM OrganizedIsSo == Spec => []OrganizedIsTrue
<1>1. ExecutorInv => OrganizedMeansApplied
  BY DEF ExecutorInv, StepsAreWhole, OrganizedMeansApplied, PlanIsApplied, Applied, Members
<1> QED BY <1>1, InvariantHolds, OrganizedReports, PTL DEF OrganizedIsTrue

\* A replay does not move twice: whatever attempts came before, a write is sent
\* only for a file that is where the plan expects it before that write.
THEOREM NothingIsWrittenTwice == Spec => NoSecondWrite
<1>1. TypeInv /\ ExecutorInv =>
        ((WriteIsSent /\ Untouched(Member)) =>
           drive[Member.object] =
             IF w.phase = "move"
             THEN <<Member.sourceParent, Member.sourceName>>
             ELSE <<Member.targetParent, Member.sourceName>>)
  <2> SUFFICES ASSUME TypeInv, ExecutorInv, WriteIsSent, Untouched(Member)
               PROVE  drive[Member.object] =
                        IF w.phase = "move"
                        THEN <<Member.sourceParent, Member.sourceName>>
                        ELSE <<Member.targetParent, Member.sourceName>>
    OBVIOUS
  <2>1. w.pc = "running" /\ w.phase \in {"move", "rename"}
    BY DEF WriteIsSent
  <2>2. w.member \in DOMAIN Step /\ ~(w.member < w.member)
    BY <2>1, MemberTypes, RowIsKeptImpliesInside DEF ExecutorInv
  <2>3. Written(w.member)
    BY <2>1, <2>2 DEF ExecutorInv, MembersAreWritten, Member
  <2> QED BY <2>1, <2>2, <2>3 DEF Written, Member
<1> QED BY <1>1, InvariantHolds, PTL DEF NoSecondWrite, Spec

\* The first write of a step is sent only over places that nobody holds who
\* could answer for it.
THEOREM NothingIsLost == Spec => NothingIsOverwritten
<1>1. TypeInv /\ ExecutorInv =>
        ((WriteIsSent /\ w.phase = "move" /\ w.member = 1) =>
           \A e \in GroupOf(Step), x \in Objects :
             drive[x] = TargetPlace(e) => x \in touched \/ Unsettled(x))
  BY DEF ExecutorInv, TargetsAreFree, WriteIsSent, Free
<1> QED BY <1>1, InvariantHolds, PTL DEF NothingIsOverwritten, Spec

\* The initial states are those of a job with a lease.
LEMMA JobInitially == Init => Job!JobInit
BY DEF Init, Job!JobInit, holderMap, Stopped, Polling, QueuedRow, AbsentRow, Owns

\* A step that ends the operation of the worker does so only while the worker
\* owns its row.
LEMMA EndingNeedsTheRow ==
  ASSUME TypeInv, RowIsKept,
         RejectClaim \/ LoseLease \/ FinishOperation \/ LocalFailure
  PROVE  /\ w.op \in Operations /\ w'.op = NoOperation
         /\ \/ UNCHANGED op
            \/ /\ Owns(op[w.op], w.revision, w.token)
               /\ \E result \in {"organized", "failed", "uncertain"} :
                    op' = [op EXCEPT ![w.op] = FinishedRow(@, result)]
<1>t. op \in [Operations -> OperationRow] /\ w \in WorkerRecord
  BY DEF TypeInv
<1>k. /\ w.pc \in {"claimed", "loaded", "running", "finishing"}
      /\ w.op \in Operations /\ w.op # NoOperation
  <2>1. w.pc \in {"claimed", "loaded", "running", "finishing"}
    BY DEF RejectClaim, LoseLease, FinishOperation, LocalFailure
  <2> QED BY <2>1, RowIsKeptImpliesInside DEF Inside
<1>n. w'.op = NoOperation
  BY PollingType DEF RejectClaim, LoseLease, FinishOperation, LocalFailure, Polling,
                     Stopped
<1>u. ASSUME op' = [op EXCEPT ![w.op] = @] PROVE UNCHANGED op
  BY <1>t, <1>u
<1>h. HoldsLive => Owns(op[w.op], w.revision, w.token)
  BY DEF HoldsLive, OwnsLive
<1>1. CASE RejectClaim
  BY <1>1, <1>h, <1>k, <1>n, <1>u DEF RejectClaim
<1>2. CASE LoseLease
  BY <1>2, <1>k, <1>n, <1>u DEF LoseLease, RowAfterLeaseLoss
<1>3. CASE FinishOperation
  <2>1. w.result \in {"organized", "failed", "uncertain"}
    BY <1>3, <1>k, <1>t DEF FinishOperation, RowIsKept, WorkerRecord
  <2> QED BY <1>3, <1>h, <1>k, <1>n, <1>u, <2>1 DEF FinishOperation, RowAfterLeaseLoss
<1>4. CASE LocalFailure
  <2>1. CASE Owns(op[w.op], w.claimed, w.token)
    <3>1. w.claimed = w.revision
      BY <1>k, <1>t, <2>1 DEF Owns, RowIsKept, WorkerRecord, OperationRow
    <3> QED BY <1>4, <1>k, <1>n, <2>1, <3>1 DEF LocalFailure
  <2>2. CASE ~Owns(op[w.op], w.claimed, w.token)
    BY <1>4, <1>k, <1>n, <1>u, <2>2 DEF LocalFailure
  <2> QED BY <2>1, <2>2
<1> QED BY <1>1, <1>2, <1>3, <1>4

\* Every step is a step of such a job, or leaves it alone.
LEMMA JobSteps ==
  ASSUME TypeInv, RowIsKept, [Next]_vars
  PROVE  [Job!JobNext]_(Job!jobVars)
<1> DEFINE stateMap == [o \in Operations |-> op[o].status]
           workingMap == [c \in {Worker} |-> w.op]
           Owned(o) == w.op = o /\ Owns(op[o], w.revision, w.token)
<1>t. /\ op \in [Operations -> OperationRow] /\ w \in WorkerRecord
      /\ now \in Nat /\ issued \in Nat
  BY DEF TypeInv
<1>k. /\ w.op # NoOperation <=> w.pc \in {"claimed", "loaded", "running", "finishing"}
      /\ w.op # NoOperation => w.op \in Operations /\ op[w.op].status = "organizing"
  BY RowIsKeptImpliesInside DEF RowIsKept, Inside
<1>maps. /\ holderMap = [o \in Operations |-> IF Owned(o) THEN Worker ELSE Nobody]
         /\ holderMap' = [o \in Operations |-> IF Owned(o)' THEN Worker ELSE Nobody]
  BY DEF holderMap
<1>same. ASSUME \A o \in Operations : op'[o].status = op[o].status,
                w'.op = w.op,
                \A o \in Operations : Owned(o)' <=> Owned(o)
         PROVE  UNCHANGED Job!jobVars
  BY <1>same, <1>maps DEF Job!jobVars
<1>row. ASSUME NEW o \in Operations, w.op = o,
               op' = [op EXCEPT ![o] = RenewedRow(@, now)], w'.op = w.op
        PROVE  /\ op'[o].status = "organizing" /\ op[o].status = "organizing"
               /\ op'[o].token = op[o].token
               /\ op'[o].revision = op[o].revision + 1
               /\ \A q \in Operations : op'[q].status = op[q].status
               /\ \A q \in Operations \ {o} : ~Owned(q) /\ ~Owned(q)'
  <2>1. /\ RenewedRow(op[o], now).status = op[o].status
        /\ RenewedRow(op[o], now).token = op[o].token
        /\ RenewedRow(op[o], now).revision = op[o].revision + 1
    BY <1>t, RowColumns
  <2>2. op[o].status = "organizing"
    BY <1>k, <1>row, StepsAssumption
  <2> QED BY <1>row, <1>t, <2>1, <2>2
<1>renew. ASSUME w.op \in Operations, op' = [op EXCEPT ![w.op] = RenewedRow(@, now)],
                 w'.op = w.op, w'.token = w.token, w'.revision = w.revision + 1
          PROVE  UNCHANGED Job!jobVars
  <2>p. PICK o \in Operations : o = w.op
    BY <1>renew
  <2>1. /\ op'[o].status = "organizing" /\ op[o].status = "organizing"
        /\ op'[o].token = op[o].token
        /\ op'[o].revision = op[o].revision + 1
        /\ \A q \in Operations : op'[q].status = op[q].status
        /\ \A q \in Operations \ {o} : ~Owned(q) /\ ~Owned(q)'
    BY <1>renew, <1>row, <2>p
  <2>2. op[o].revision \in Nat /\ w.revision \in Nat
    BY <1>t DEF OperationRow, WorkerRecord
  <2>3. Owned(o)' <=> Owned(o)
    BY <1>renew, <2>p, <2>1, <2>2 DEF Owns
  <2> QED BY <1>renew, <1>same, <2>1, <2>3
<1>1. ASSUME op' = op, w'.op = w.op, w'.token = w.token, w'.revision = w.revision
      PROVE  UNCHANGED Job!jobVars
  BY <1>1, <1>same
<1>2. CASE Calls
  <2>1. PICK next \in WorkerRecord : Call(next) /\ GoesOn(next)
    BY <1>2, CallsGoOn, RowIsKeptImpliesInside
  <2>2. next.op = w.op /\ next.token = w.token
    BY <2>1 DEF GoesOn, Ends, StaysInStep, NextStepBegins, Continues
  <2>3. w.op \in Operations
    BY <1>2, <1>k, CallsLeave, StepsAssumption
  <2> QED BY <1>renew, <2>1, <2>2, <2>3, CallEffect DEF Becomes
<1>3. CASE OutOfCalls
  <2>1. /\ w'.op = w.op /\ w'.token = w.token /\ w'.revision = w.revision + 1
    BY <1>3, <1>t DEF OutOfCalls, Finishing, WorkerRecord
  <2> QED BY <1>3, <1>k, <1>renew, <2>1, StepsAssumption DEF OutOfCalls
<1>4. CASE PrepareRun \/ BeginExecute
  <2>1. op' = op /\ w'.op = w.op /\ w'.token = w.token /\ w'.revision = w.revision
    BY <1>4, <1>t DEF PrepareRun, BeginExecute, Finishing, WorkerRecord, rows
  <2> QED BY <1>1, <2>1
<1>5. ASSUME w.op \in Operations, op' = op, w'.op = NoOperation
      PROVE  Job!GiveUp(Worker)
  <2>1. \A o \in Operations : ~Owned(o)'
    BY <1>5, StepsAssumption
  <2>2. holderMap' = [o \in Operations |->
                        IF holderMap[o] = Worker THEN Nobody ELSE holderMap[o]]
    BY <1>maps, <2>1, WorkerAssumption
  <2>3. workingMap' = [workingMap EXCEPT ![Worker] = NoOperation]
        /\ workingMap[Worker] # NoOperation
    BY <1>5, StepsAssumption
  <2> QED BY <1>5, <2>2, <2>3 DEF Job!GiveUp
<1>6. CASE RejectClaim \/ LoseLease \/ FinishOperation \/ LocalFailure
  <2>p. PICK o \in Operations : o = w.op /\ w'.op = NoOperation
    BY <1>6, EndingNeedsTheRow
  <2>1. CASE UNCHANGED op
    BY <1>5, <2>p, <2>1 DEF Job!JobNext
  <2>2. ASSUME NEW result \in {"organized", "failed", "uncertain"},
               Owns(op[o], w.revision, w.token),
               op' = [op EXCEPT ![o] = FinishedRow(@, result)]
        PROVE  Job!FinishJob(o, Worker, result)
    <3>1. FinishedRow(op[o], result).status = result
      BY <1>t, RowColumns DEF OperationStatus
    <3>2. stateMap' = [stateMap EXCEPT ![o] = result] /\ stateMap[o] = "organizing"
      BY <1>t, <2>2, <3>1 DEF Owns
    <3>3. holderMap[o] = Worker
      BY <2>p, <2>2, <1>maps
    <3>4. holderMap' = [holderMap EXCEPT ![o] = Nobody]
      <4>1. \A q \in Operations : ~Owned(q)'
        BY <2>p, StepsAssumption
      <4>2. \A q \in Operations \ {o} : ~Owned(q)
        BY <2>p
      <4> QED BY <1>maps, <4>1, <4>2
    <3>5. workingMap' = [workingMap EXCEPT ![Worker] = NoOperation]
          /\ workingMap[Worker] = o
      BY <2>p
    <3> QED BY <3>2, <3>3, <3>4, <3>5 DEF Job!FinishJob
  <2> QED BY <1>6, <2>p, <2>1, <2>2, EndingNeedsTheRow DEF Job!JobNext
<1>7. CASE KillWorker
  <2>1. op' = op /\ w'.op = NoOperation /\ w' = Stopped
    BY <1>7 DEF KillWorker, Stopped, Polling, rows
  <2>2. CASE w.op = NoOperation
    BY <1>maps, <1>same, <2>1, <2>2, StepsAssumption
  <2>3. CASE w.op # NoOperation
    BY <1>5, <1>k, <2>1, <2>3 DEF Job!JobNext
  <2> QED BY <2>2, <2>3
<1>8. CASE StartWorker
  <2>1. op' = op /\ w'.op = NoOperation /\ w.op = NoOperation
    BY <1>8 DEF StartWorker, Stopped, Polling, rows
  <2> QED BY <1>same, <2>1, StepsAssumption
<1>9. CASE CancelWorker
  <2>1. CASE w' = Stopped /\ UNCHANGED op
    <3>1. w'.op = NoOperation
      BY <2>1 DEF Stopped, Polling
    <3>2. CASE w.op = NoOperation
      BY <1>same, <2>1, <3>1, <3>2, StepsAssumption
    <3>3. CASE w.op # NoOperation
      BY <1>5, <1>k, <2>1, <3>1, <3>3 DEF Job!JobNext
    <3> QED BY <3>2, <3>3
  <2>2. ASSUME w.pc \in {"running", "finishing"},
               w' = [Finishing("uncertain") EXCEPT !.stopping = TRUE]
        PROVE  /\ w.op \in Operations
               /\ w'.op = w.op /\ w'.token = w.token /\ w'.revision = w.revision
    BY <1>k, <1>t, <2>2, StepsAssumption DEF Finishing, WorkerRecord
  <2>3. CASE /\ w.pc \in {"running", "finishing"} /\ UNCHANGED op
             /\ w' = [Finishing("uncertain") EXCEPT !.stopping = TRUE]
    BY <1>1, <2>2, <2>3
  <2>4. CASE /\ w.pc = "running" /\ HoldsLive
             /\ w' = [Finishing("uncertain") EXCEPT !.stopping = TRUE]
             /\ op' = [op EXCEPT ![w.op] = RenewedRow(@, now)]
    <3>p. PICK o \in Operations : o = w.op
      BY <2>2, <2>4
    <3>0. w'.op = w.op /\ w'.token = w.token /\ w'.revision = w.revision
      BY <2>2, <2>4
    <3>1. /\ op'[o].status = "organizing" /\ op[o].status = "organizing"
          /\ op'[o].revision = op[o].revision + 1
          /\ \A q \in Operations : op'[q].status = op[q].status
          /\ \A q \in Operations \ {o} : ~Owned(q) /\ ~Owned(q)'
      BY <1>row, <2>4, <3>p, <3>0
    <3>2. Owned(o) /\ ~Owned(o)'
      BY <1>t, <2>4, <3>p, <3>0, <3>1 DEF HoldsLive, OwnsLive, Owns, OperationRow
    <3>3. holderMap' = [holderMap EXCEPT ![o] = Nobody] /\ holderMap[o] = Worker
      BY <1>maps, <3>1, <3>2
    <3>4. Job!Orphan(o)
      BY <3>0, <3>1, <3>3, WorkerAssumption DEF Job!Orphan
    <3> QED BY <3>4 DEF Job!JobNext
  <2> QED BY <1>9, <2>1, <2>3, <2>4 DEF CancelWorker
<1>10. CASE ClaimNext
  <2>1. PICK o \in Operations, budget \in Budgets :
          /\ op[o].status = "planned" /\ issued' = issued + 1
          /\ op' = [op EXCEPT ![o] = ClaimedRow(@, issued', now)]
          /\ w' = [Polling EXCEPT
                     !.pc = "claimed", !.op = o, !.token = issued',
                     !.claimed = op'[o].revision, !.revision = op'[o].revision,
                     !.calls = budget]
    BY <1>10 DEF ClaimNext, OldestPlanned
  <2>2. w.op = NoOperation
    BY <1>10 DEF ClaimNext, Polling
  <2>3. w'.op = o /\ w'.token = issued' /\ w'.revision = op'[o].revision
    BY <2>1 DEF Polling
  <2>4. op'[o] = ClaimedRow(op[o], issued', now) /\ issued' \in Nat
    BY <1>t, <2>1
  <2>5. op'[o].status = "organizing" /\ op'[o].token = issued'
    BY <1>t, <2>4, RowColumns
  <2>6. Owned(o)' /\ \A q \in Operations \ {o} : ~Owned(q)'
    BY <2>3, <2>5 DEF Owns
  <2>7. \A q \in Operations : ~Owned(q)
    BY <2>2, StepsAssumption
  <2>8. holderMap' = [holderMap EXCEPT ![o] = Worker]
    BY <1>maps, <2>6, <2>7
  <2>9. stateMap' = [stateMap EXCEPT ![o] = "organizing"] /\ stateMap[o] = "planned"
    BY <1>t, <2>1, <2>5
  <2>10. workingMap' = [workingMap EXCEPT ![Worker] = o]
         /\ workingMap[Worker] = NoOperation
    BY <2>2, <2>3
  <2>11. Job!Acquire(o, Worker)
    BY <2>8, <2>9, <2>10 DEF Job!Acquire
  <2> QED BY <2>11 DEF Job!JobNext
<1>11. ASSUME NEW o \in Operations, CancelOperation(o) \/ RetryOperation(o)
       PROVE  [Job!JobNext]_(Job!jobVars)
  <2>1. /\ w' = w
        /\ \/ op[o].status = "planned" /\ op' = [op EXCEPT ![o] = CancelledRow(@)]
           \/ op[o].status = "failed" /\ op' = [op EXCEPT ![o] = RetriedRow(@)]
    BY <1>11 DEF CancelOperation, RetryOperation, Cancellable, Retryable
  <2>2. /\ CancelledRow(op[o]).status = "cancelled"
        /\ RetriedRow(op[o]).status = "planned"
    BY <1>t, RowColumns
  <2>3. \A q \in Operations : Owned(q)' <=> Owned(q)
    BY <1>t, <2>1, <2>2 DEF Owns
  <2>4. holderMap' = holderMap /\ workingMap' = workingMap
    BY <2>1, <2>3, <1>maps
  <2>5. \/ stateMap[o] = "planned" /\ stateMap' = [stateMap EXCEPT ![o] = "cancelled"]
        \/ stateMap[o] = "failed" /\ stateMap' = [stateMap EXCEPT ![o] = "planned"]
    BY <1>t, <2>1, <2>2
  <2>6. Job!CancelJob(o) \/ Job!RetryJob(o)
    BY <2>4, <2>5 DEF Job!CancelJob, Job!RetryJob
  <2> QED BY <2>6 DEF Job!JobNext
<1>12. CASE UNCHANGED <<op, w>>
  BY <1>1, <1>12
<1> QED
  BY <1>2, <1>3, <1>4, <1>6, <1>7, <1>8, <1>9, <1>10, <1>11, <1>12
     DEF Next, WorkerStep, Calls, ChangePlan, LateWrite, Tamper, Tick, vars, rows

\* The worker, whatever cancels, kills or fails it, is a client of the abstract
\* queue: it ends an operation only as the holder of its row.
THEOREM WorkerImplementsLeasedJob == Spec => ImplementsLeasedJob
<1>1. TypeInv /\ RowIsKept /\ [Next]_vars => [Job!JobNext]_(Job!jobVars)
  BY JobSteps
<1>2. ExecutorInv => RowIsKept
  BY DEF ExecutorInv
<1> QED
  BY JobInitially, InvariantHolds, <1>1, <1>2, PTL
     DEF Spec, ImplementsLeasedJob, Job!JobSpec
=============================================================================
