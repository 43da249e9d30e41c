-------------------------- MODULE OrganizationContract --------------------------
(***************************************************************************)
(* The pure checks that stand between an approved plan and a remote write: *)
(* organization_execution_contract.py for one object and                   *)
(* organization_companion_contract.py for a video with its companions.     *)
(*                                                                         *)
(* An observation is the state of one remote object, [object, parent,      *)
(* name], or Unobserved (Python's None).  An expectation is the immutable  *)
(* source and target state of one step of the plan.  A group is the set of *)
(* the expectations of a step: no check depends on their order.            *)
(***************************************************************************)
EXTENDS Naturals, Sequences

CONSTANTS Objects, Parents, Names, Unobserved

RemoteObjectState == [object : Objects, parent : Parents, name : Names]

ASSUME UnobservedAssumption == Unobserved \notin RemoteObjectState

Observation == RemoteObjectState \cup {Unobserved}

StepExpectation == [object : Objects, sourceParent : Parents, sourceName : Names,
                    targetParent : Parents, targetName : Names]

SourceState(e) ==
  [object |-> e.object, parent |-> e.sourceParent, name |-> e.sourceName]

TargetState(e) ==
  [object |-> e.object, parent |-> e.targetParent, name |-> e.targetName]

TargetPlace(e) == <<e.targetParent, e.targetName>>

StepCheck == {"ready", "already_applied", "conflict", "uncertain"}

(***************************************************************************)
(* The members of a step form a group when they name every object and      *)
(* every target once (casefold is the identity on the model's names).      *)
(***************************************************************************)
IsCompanionGroup(members) ==
  \A i, j \in DOMAIN members :
    i # j => /\ members[i].object # members[j].object
             /\ TargetPlace(members[i]) # TargetPlace(members[j])

GroupOf(members) == {members[i] : i \in DOMAIN members}

(***************************************************************************)
(* check_before_write: an object that is neither at its target nor missing *)
(* is ready only at its unchanged source with nothing at the target.       *)
(***************************************************************************)
BugCheckBeforeWrite(e, source, target) ==
  CASE source = TargetState(e) -> "already_applied"
    [] source # TargetState(e) /\ source = Unobserved -> "uncertain"
    [] source \notin {TargetState(e), Unobserved} ->
         IF source.object = e.object /\ target = Unobserved
         THEN "ready" ELSE "conflict"

CheckBeforeWrite(e, source, target) ==
  CASE source = TargetState(e) -> "already_applied"
    [] source # TargetState(e) /\ source = Unobserved -> "uncertain"
    [] source \notin {TargetState(e), Unobserved} ->
         IF source = SourceState(e) /\ target = Unobserved
         THEN "ready" ELSE "conflict"

\* check_after_write: only the exact postcondition counts.
CheckAfterWrite(e, observed) ==
  CASE observed = TargetState(e) -> "already_applied"
    [] observed # TargetState(e) /\ observed = Unobserved -> "uncertain"
    [] observed \notin {TargetState(e), Unobserved} -> "conflict"

\* check_after_timeout: anything but the exact postcondition stays open.
CheckAfterTimeout(e, observed) ==
  IF CheckAfterWrite(e, observed) = "already_applied"
  THEN "already_applied" ELSE "uncertain"

(***************************************************************************)
(* _check_step_before_write: a member whose target place is taken, while   *)
(* the member itself is not there, is a conflict whatever else holds.      *)
(***************************************************************************)
CheckStepBeforeWrite(e, source, target) ==
  IF target # Unobserved /\ source # TargetState(e)
  THEN "conflict"
  ELSE CheckBeforeWrite(e, source, target)

Result(status, code) == [status |-> status, code |-> code]

(***************************************************************************)
(* _aggregate_before_write on the statuses of the members.                 *)
(***************************************************************************)
BugAggregateBeforeWrite(statuses) ==
  IF statuses = {"ready"} THEN Result("ready", "")
  ELSE IF "already_applied" \in statuses THEN Result("already_applied", "")
  ELSE Result("conflict", "group_precondition_conflict")

AggregateBeforeWrite(statuses) ==
  CASE statuses = {"ready"}           -> Result("ready", "")
    [] statuses = {"already_applied"} -> Result("already_applied", "")
    [] "conflict" \in statuses ->
         Result("conflict", "group_precondition_conflict")
    [] "uncertain" \in statuses /\ "conflict" \notin statuses ->
         Result("uncertain", "group_precondition_unverified")
    [] OTHER -> Result("conflict", "group_partial_state")

(***************************************************************************)
(* check_group_before_write.  sources maps objects, targets maps places,   *)
(* to observations; an entry that was never read counts as unobserved, one *)
(* for a stranger is refused.                                              *)
(***************************************************************************)
ObservedAt(map, key) == IF key \in DOMAIN map THEN map[key] ELSE Unobserved

GroupObjects(g) == {e.object : e \in g}
GroupTargets(g) == {TargetPlace(e) : e \in g}

StatusesBeforeWrite(g, sources, targets) ==
  {CheckStepBeforeWrite(e, ObservedAt(sources, e.object),
                        ObservedAt(targets, TargetPlace(e))) : e \in g}

CheckGroupBeforeWrite(g, sources, targets) ==
  IF DOMAIN sources \subseteq GroupObjects(g)
     /\ DOMAIN targets \subseteq GroupTargets(g)
  THEN AggregateBeforeWrite(StatusesBeforeWrite(g, sources, targets))
  ELSE Result("conflict", "group_member_set_mismatch")

(***************************************************************************)
(* check_group_after_write and check_group_after_timeout.                  *)
(***************************************************************************)
CheckGroupAfterWrite(g, observed) ==
  LET known == DOMAIN observed \subseteq GroupObjects(g)
      statuses == {CheckAfterWrite(e, ObservedAt(observed, e.object)) : e \in g}
  IN CASE ~known -> Result("uncertain", "group_member_set_mismatch")
       [] known /\ statuses = {"already_applied"} -> Result("already_applied", "")
       [] known /\ "conflict" \in statuses ->
            Result("conflict", "group_postcondition_conflict")
       [] OTHER -> Result("uncertain", "group_postcondition_unverified")

BugCheckGroupAfterTimeout(g, observed) == CheckGroupAfterWrite(g, observed)

CheckGroupAfterTimeout(g, observed) ==
  LET known == DOMAIN observed \subseteq GroupObjects(g)
      statuses == {CheckAfterTimeout(e, ObservedAt(observed, e.object)) : e \in g}
  IN CASE ~known -> Result("uncertain", "group_member_set_mismatch")
       [] known /\ statuses = {"already_applied"} -> Result("already_applied", "")
       [] OTHER -> Result("uncertain", "timeout")

-----------------------------------------------------------------------------
(***************************************************************************)
(* What the checks promise.                                                *)
(***************************************************************************)

\* "ready" lets the executor write, so every member must have been seen at
\* its unchanged source, and every target place must have been seen empty.
ReadyIsSafe(g, sources, targets) ==
  CheckGroupBeforeWrite(g, sources, targets).status = "ready" =>
    \A e \in g :
      /\ ObservedAt(sources, e.object) = SourceState(e)
      /\ SourceState(e) # TargetState(e)
      /\ ObservedAt(targets, TargetPlace(e)) = Unobserved

\* A group is skipped as done only when each member was seen at its target.
AppliedIsExact(g, sources, targets) ==
  CheckGroupBeforeWrite(g, sources, targets).status = "already_applied" =>
    \A e \in g : ObservedAt(sources, e.object) = TargetState(e)

\* After a timeout the only definite answer is that the write was applied; a
\* member that was seen untouched at its source never makes it "ready" again.
TimeoutStaysOpen(g, observed) ==
  LET status == CheckGroupAfterTimeout(g, observed).status
  IN /\ status \in {"already_applied", "uncertain"}
     /\ status = "already_applied"
        <=> CheckGroupAfterWrite(g, observed).status = "already_applied"
=============================================================================
