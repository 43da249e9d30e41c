----------------------- MODULE OrganizationContractProofs -----------------------
(***************************************************************************)
(* Theorems about the checks of OrganizationContract, for groups of any    *)
(* size and any observations.                                              *)
(***************************************************************************)
EXTENDS OrganizationContract, TLAPS

\* The four statuses are told apart.
LEMMA AggregateIsExact ==
  ASSUME NEW statuses
  PROVE  /\ AggregateBeforeWrite(statuses).status = "ready"
              <=> statuses = {"ready"}
         /\ AggregateBeforeWrite(statuses).status = "already_applied"
              <=> statuses = {"already_applied"}
BY DEF AggregateBeforeWrite, Result

\* A source is never confused with a target that differs from it.
LEMMA StatesAreObservations ==
  ASSUME NEW e \in StepExpectation
  PROVE  /\ SourceState(e) # Unobserved /\ TargetState(e) # Unobserved
         /\ SourceState(e).object = e.object
BY UnobservedAssumption
   DEF StepExpectation, SourceState, TargetState, RemoteObjectState

\* One member is ready only at its unchanged source with an empty target.
LEMMA ReadyMember ==
  ASSUME NEW e \in StepExpectation, NEW source \in Observation,
         NEW target \in Observation,
         CheckStepBeforeWrite(e, source, target) = "ready"
  PROVE  /\ source = SourceState(e)
         /\ SourceState(e) # TargetState(e)
         /\ target = Unobserved
BY StatesAreObservations
   DEF CheckStepBeforeWrite, CheckBeforeWrite, Observation

\* What ObservedAt returns for a map of observations.
LEMMA ObservedType ==
  ASSUME NEW map, \A k \in DOMAIN map : map[k] \in Observation, NEW key
  PROVE  ObservedAt(map, key) \in Observation
BY DEF ObservedAt, Observation

\* "ready" lets the executor write.  For every group and whatever was
\* observed, it is answered only when each member was seen at its unchanged
\* source and each target place was seen empty.
THEOREM ReadyImpliesSafe ==
  ASSUME NEW g \in SUBSET StepExpectation, NEW sources, NEW targets,
         \A k \in DOMAIN sources : sources[k] \in Observation,
         \A k \in DOMAIN targets : targets[k] \in Observation
  PROVE  ReadyIsSafe(g, sources, targets)
<1> SUFFICES ASSUME CheckGroupBeforeWrite(g, sources, targets).status = "ready",
                    NEW e \in g
             PROVE  /\ ObservedAt(sources, e.object) = SourceState(e)
                    /\ SourceState(e) # TargetState(e)
                    /\ ObservedAt(targets, TargetPlace(e)) = Unobserved
  BY DEF ReadyIsSafe
<1>1. StatusesBeforeWrite(g, sources, targets) = {"ready"}
  BY AggregateIsExact DEF CheckGroupBeforeWrite, Result
<1>2. CheckStepBeforeWrite(e, ObservedAt(sources, e.object),
                           ObservedAt(targets, TargetPlace(e))) = "ready"
  BY <1>1 DEF StatusesBeforeWrite
<1> QED BY <1>2, ReadyMember, ObservedType

\* A group is skipped as done only when each member was seen at its target.
THEOREM AppliedImpliesExact ==
  ASSUME NEW g \in SUBSET StepExpectation, NEW sources, NEW targets,
         \A k \in DOMAIN sources : sources[k] \in Observation,
         \A k \in DOMAIN targets : targets[k] \in Observation
  PROVE  AppliedIsExact(g, sources, targets)
<1> SUFFICES ASSUME CheckGroupBeforeWrite(g, sources, targets).status
                      = "already_applied",
                    NEW e \in g
             PROVE  ObservedAt(sources, e.object) = TargetState(e)
  BY DEF AppliedIsExact
<1>1. StatusesBeforeWrite(g, sources, targets) = {"already_applied"}
  BY AggregateIsExact DEF CheckGroupBeforeWrite, Result
<1>2. CheckStepBeforeWrite(e, ObservedAt(sources, e.object),
                           ObservedAt(targets, TargetPlace(e))) = "already_applied"
  BY <1>1 DEF StatusesBeforeWrite
<1>3. ObservedAt(sources, e.object) \in Observation
  BY ObservedType
<1> QED BY <1>2, <1>3 DEF CheckStepBeforeWrite, CheckBeforeWrite, Observation

\* After a timeout the only definite answer is that the write was applied.
THEOREM TimeoutLeavesOpen ==
  ASSUME NEW g \in SUBSET StepExpectation, NEW observed,
         \A k \in DOMAIN observed : observed[k] \in Observation
  PROVE  TimeoutStaysOpen(g, observed)
<1> DEFINE after == {CheckAfterWrite(e, ObservedAt(observed, e.object)) : e \in g}
           timeout == {CheckAfterTimeout(e, ObservedAt(observed, e.object)) : e \in g}
<1>1. \A e \in g : CheckAfterTimeout(e, ObservedAt(observed, e.object)) = "already_applied"
                  <=> CheckAfterWrite(e, ObservedAt(observed, e.object)) = "already_applied"
  BY DEF CheckAfterTimeout
<1>2. timeout = {"already_applied"} <=> after = {"already_applied"}
  BY <1>1
<1> QED BY <1>2 DEF TimeoutStaysOpen, CheckGroupAfterTimeout, CheckGroupAfterWrite, Result
=============================================================================
