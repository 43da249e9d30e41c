---------------------------- MODULE IsolationContract ----------------------------
(***************************************************************************)
(* organization_isolation_contract.py: moving one object out of the way,   *)
(* into a directory of isolation, and back to where the plan wanted it.    *)
(* Its checks are those of OrganizationContract, written a second time and *)
(* stricter: an observation may be malformed, a read may time out, and an  *)
(* object that is partly moved is told apart.                              *)
(*                                                                         *)
(* An intent is [action, object, source, isolation, target], its three     *)
(* places being pairs of a parent and a name, and managed, the parents     *)
(* that the program may touch.                                             *)
(***************************************************************************)
EXTENDS OrganizationContract

CONSTANT Malformed \* an observation that _valid_observation refuses

ASSUME MalformedAssumption == Malformed \notin Observation

\* resolve_isolation_intent refuses an intent that leaves the managed parents.
Resolved(intent) ==
  {intent.source[1], intent.isolation[1], intent.target[1]} \subseteq intent.managed

From(intent) == IF intent.action = "isolate" THEN intent.source ELSE intent.isolation
To(intent) == IF intent.action = "isolate" THEN intent.isolation ELSE intent.target

Expectation(intent) ==
  [object |-> intent.object, sourceParent |-> From(intent)[1], sourceName |-> From(intent)[2],
   targetParent |-> To(intent)[1], targetName |-> To(intent)[2]]

IsolatePartly(e, source, target) ==
  IF source = TargetState(e) THEN target \notin {Unobserved, TargetState(e)}
  ELSE target # Unobserved /\ target.object = e.object

(***************************************************************************)
(* _check_before_write.                                                    *)
(***************************************************************************)
BugIsolateBefore(e, source, target, timedOut) ==
  CASE timedOut \/ Malformed \in {source, target} \/ source = Unobserved -> "uncertain"
    [] OTHER ->
         CASE source = TargetState(e) -> "already_applied"
           [] source = SourceState(e) ->
                IF target = Unobserved \/ target = source THEN "ready" ELSE "conflict"
           [] source \notin {SourceState(e), TargetState(e)} -> "conflict"

IsolateBefore(e, source, target, timedOut) ==
  CASE timedOut \/ Malformed \in {source, target} \/ source = Unobserved -> "uncertain"
    [] OTHER ->
         CASE source = TargetState(e) ->
                IF IsolatePartly(e, source, target) THEN "conflict" ELSE "already_applied"
           [] source = SourceState(e) /\ source # TargetState(e) ->
                IF target = Unobserved THEN "ready" ELSE "conflict"
           [] source \notin {SourceState(e), TargetState(e)} -> "conflict"

\* _check_after_write and _check_after_timeout.
IsolateAfter(e, observed) ==
  IF observed = Malformed THEN "uncertain" ELSE CheckAfterWrite(e, observed)
IsolateAfterTimeout(e, observed) ==
  IF observed = Malformed THEN "uncertain" ELSE CheckAfterTimeout(e, observed)

(***************************************************************************)
(* The second writing is no laxer than the first: whatever it takes for    *)
(* ready or done is so for the contract of the plan, the place that an     *)
(* object is moved to was seen empty, and a restore takes the object up    *)
(* where the isolation put it down.                                        *)
(***************************************************************************)
IsolationIsNoLaxer(intent, source, target, timedOut) ==
  LET e == Expectation(intent)
      status == IsolateBefore(e, source, target, timedOut)
      back == Expectation([intent EXCEPT !.action = "restore"])
  IN /\ status \in {"ready", "already_applied"} =>
          CheckBeforeWrite(e, source, target) = status
     /\ status = "ready" => source = SourceState(e) /\ target = Unobserved
     /\ intent.action = "isolate" =>
          (IsolateAfter(e, source) = "already_applied" <=> source = SourceState(back))
=============================================================================
