------------------------------- MODULE PlanPayload -------------------------------
(***************************************************************************)
(* The content of an organization plan (organization_plan.py): how         *)
(* create_plan turns named files into moves, and how load_executable_steps *)
(* reads the moves back after a person has confirmed the plan.  Both read  *)
(* the entries of one scan, which must be the latest each time; no entry   *)
(* of a scan is ever changed or removed, but another scan that shares its  *)
(* idempotency key may have added some.                                    *)
(*                                                                         *)
(* rows maps the objects of a scan to [parent, label, directory]; a label  *)
(* is a path with its last name.  An item is [object, parent, label,       *)
(* target, targetParent, targetName, accepted, companions]: a file as the  *)
(* caller saw it, where its naming plan puts it ([directory, name], or     *)
(* Missing) and the files that go with it.  accepted stands for a naming   *)
(* plan and a match that need no review.  The items come in the order of   *)
(* their objects, as _validate_items sorts them, and share a rule version. *)
(***************************************************************************)
EXTENDS Nullable, Naturals, Sequences

CONSTANTS Root, Top   \* Top: the path of the library's root itself

\* The root is managed, and every directory of the scan.
IsManaged(directory, rows) ==
  directory = Root \/ (directory \in DOMAIN rows /\ rows[directory].directory)

\* _target_directory_matches
TargetMatches(item, rows) ==
  IF item.target.directory = Top THEN item.targetParent = Root
  ELSE /\ item.targetParent \in DOMAIN rows
       /\ rows[item.targetParent].directory
       /\ rows[item.targetParent].label = item.target.directory

\* The file of an item and its companions, as members of one move.
MembersOf(item) ==
  LET member(s) == [object |-> s.object, parent |-> s.parent, label |-> s.label,
                    targetParent |-> s.targetParent, targetName |-> s.targetName]
  IN <<member(item)>> \o [i \in DOMAIN item.companions |-> member(item.companions[i])]

\* A member is the file that the scan has under its identity.
IsCurrent(member, rows) ==
  /\ member.object \in DOMAIN rows
  /\ rows[member.object] = [parent |-> member.parent, label |-> member.label,
                            directory |-> FALSE]

(***************************************************************************)
(* _execution_payload: the members of the move, or Missing when anything   *)
(* about one of them is in doubt.                                          *)
(***************************************************************************)
ExecutionPayload(item, rows) ==
  LET members == MembersOf(item) IN
  IF /\ item.target # Missing
     /\ item.targetName = item.target.name
     /\ TargetMatches(item, rows)
     /\ \A i \in DOMAIN members :
          /\ IsCurrent(members[i], rows)
          /\ IsManaged(members[i].parent, rows)
          /\ members[i].targetParent = item.targetParent
          /\ \A j \in DOMAIN members \ {i} : members[i].object # members[j].object
  THEN members ELSE Missing

(***************************************************************************)
(* _build_payload: one action for each item.  The plan is planned when     *)
(* every item is accepted and no two actions, and nothing that the caller  *)
(* knows to be there, share a target.                                      *)
(***************************************************************************)
BugTaken(items, i, conflicts) ==
  items[i].target # Missing /\ items[i].target \in conflicts
Taken(items, i, conflicts) ==
  /\ items[i].target # Missing
  /\ \/ items[i].target \in conflicts
     \/ \E j \in DOMAIN items \ {i} : items[j].target = items[i].target

ActionOf(items, i, rows, conflicts) ==
  LET members == ExecutionPayload(items[i], rows) IN
  [object |-> items[i].object, target |-> items[i].target, members |-> members,
   conflict |-> Taken(items, i, conflicts),
   kind |-> IF items[i].accepted /\ members # Missing /\ ~Taken(items, i, conflicts)
            THEN "move" ELSE "review"]

\* What the plan keeps of its sources, and of why each action is what it is: the
\* reasons are a tuple of Python, which is a list once it has been JSON.
SourcesOf(items, actions) ==
  LET seen(s) == [object |-> s.object, parent |-> s.parent, label |-> s.label] IN
  [i \in DOMAIN items |->
     [file |-> seen(items[i]),
      companions |-> IF actions[i].members = Missing THEN Missing
                     ELSE [k \in DOMAIN actions[i].members |-> seen(actions[i].members[k])]]]
BasisOf(items, actions) ==
  [i \in DOMAIN items |->
     [naming |-> items[i].accepted, reasons |-> "tuple",
      accepted |-> items[i].accepted /\ actions[i].members # Missing]]

BuildPayload(items, rows, conflicts) ==
  LET actions == [i \in DOMAIN items |-> ActionOf(items, i, rows, conflicts)] IN
  [status |-> IF \A i \in DOMAIN actions : actions[i].kind = "move"
              THEN "planned" ELSE "needs_review",
   actions |-> actions,
   sources |-> SourcesOf(items, actions),
   basis |-> BasisOf(items, actions)]

\* _validate_items: every source is named once.
AreItems(items) ==
  /\ items # <<>>
  /\ \A i, j \in DOMAIN items : i # j => items[i].object # items[j].object

\* basis_json as json.loads reads it.
Stored(basis) == [i \in DOMAIN basis |-> [basis[i] EXCEPT !.reasons = "list"]]

(***************************************************************************)
(* create_plan: the scan must be the latest complete one, and every source *)
(* is what the scan says.  The plan is stored as JSON.                     *)
(***************************************************************************)
CreatePlan(items, rows, conflicts, current) ==
  IF /\ current
     /\ AreItems(items)
     /\ \A i \in DOMAIN items : IsCurrent(MembersOf(items[i])[1], rows)
  THEN [BuildPayload(items, rows, conflicts) EXCEPT !.basis = Stored(@)]
  ELSE Missing

(***************************************************************************)
(* refresh_plan.  outdated: the plan has expired, the library has changed, *)
(* its scan is not the latest or a version differs.  items are compared    *)
(* with the plan if the caller gives them (else Missing); items that are   *)
(* no longer in the scan are an error, and the plan stays as it was.       *)
(*                                                                         *)
(* The fresh basis has tuples where the stored one has lists, so that the  *)
(* two always differ: a refresh with items invalidates every plan.         *)
(***************************************************************************)
Invalidated(plan) == [plan EXCEPT !.status = "invalidated"]

SameAs(plan, payload) == plan.sources = payload.sources /\ plan.basis = payload.basis

RefreshPlan(plan, outdated, items, rows, conflicts) ==
  IF plan = Missing \/ plan.status = "ignored" THEN plan
  ELSE IF /\ items # Missing
          /\ \/ ~AreItems(items)
             \/ \E i \in DOMAIN items : items[i].object \notin DOMAIN rows
       THEN plan
  ELSE IF \/ outdated
          \/ items # Missing /\ ~SameAs(plan, BuildPayload(items, rows, conflicts))
          \/ \E i \in DOMAIN plan.actions :
               plan.actions[i].target # Missing /\ plan.actions[i].target \in conflicts
       THEN Invalidated(plan) ELSE plan

(***************************************************************************)
(* _parse_executable_steps: only moves, and every object in one of them.   *)
(***************************************************************************)
Occurrences(steps) ==
  UNION {{<<i, k>> : k \in DOMAIN steps[i]} : i \in DOMAIN steps}

ParsedSteps(plan) ==
  LET steps == [i \in DOMAIN plan.actions |-> plan.actions[i].members] IN
  IF /\ \A i \in DOMAIN plan.actions : plan.actions[i].kind = "move"
     /\ \A a, b \in Occurrences(steps) :
          a # b => steps[a[1]][a[2]].object # steps[b[1]][b[2]].object
  THEN steps ELSE Missing

(***************************************************************************)
(* _validate_persisted_step: the step fits the entries of the scan as they *)
(* are now.  What the plan's columns say of each other is covered by the   *)
(* plan's hash and never changes.                                          *)
(***************************************************************************)
BugStepIsValid(action, members, rows) ==
  /\ ~action.conflict
  /\ members[1].object = action.object
  /\ members[1].targetName = action.target.name
  /\ TargetMatches([target |-> action.target,
                    targetParent |-> members[1].targetParent], rows)
  /\ \A k \in DOMAIN members :
       /\ IsCurrent(members[k], rows)
       /\ {members[k].parent, members[k].targetParent} \subseteq DOMAIN rows
StepIsValid(action, members, rows) ==
  /\ ~action.conflict
  /\ members[1].object = action.object
  /\ members[1].targetName = action.target.name
  /\ TargetMatches([target |-> action.target,
                    targetParent |-> members[1].targetParent], rows)
  /\ \A k \in DOMAIN members :
       /\ IsCurrent(members[k], rows)
       /\ IsManaged(members[k].parent, rows)
       /\ IsManaged(members[k].targetParent, rows)
       /\ members[k].targetParent = members[1].targetParent

(***************************************************************************)
(* load_executable_steps.  current: the plan has not expired, the library  *)
(* is the one it was made for and the plan's scan is still the latest.     *)
(***************************************************************************)
LoadSteps(plan, rows, current) ==
  IF plan = Missing \/ ~current THEN Missing
  ELSE IF plan.status # "planned" \/ ParsedSteps(plan) = Missing THEN Missing
  ELSE IF \A i \in DOMAIN plan.actions :
            StepIsValid(plan.actions[i], ParsedSteps(plan)[i], rows)
       THEN ParsedSteps(plan) ELSE Missing

(***************************************************************************)
(* The moves that leave this component are safe to hand to the executor    *)
(* one after the other: no object is moved twice, no two moves put their   *)
(* file in one place, and each member is a file that the scan shows where  *)
(* the person who confirmed the plan saw it.                               *)
(***************************************************************************)
LoadedAreSafe(steps, rows) ==
  steps # Missing =>
    /\ \A a, b \in Occurrences(steps) :
         /\ a # b => steps[a[1]][a[2]].object # steps[b[1]][b[2]].object
         /\ rows[steps[a[1]][a[2]].object]
              = [parent |-> steps[a[1]][a[2]].parent,
                 label |-> steps[a[1]][a[2]].label, directory |-> FALSE]
         /\ steps[a[1]][a[2]].targetParent = steps[a[1]][1].targetParent
    /\ \A i, j \in DOMAIN steps :
         i # j => <<steps[i][1].targetParent, steps[i][1].targetName>>
                    # <<steps[j][1].targetParent, steps[j][1].targetName>>

(***************************************************************************)
(* A plan that is shown as planned, and that a person therefore confirms,  *)
(* can be carried out while its scan is the latest: what create_plan has   *)
(* accepted, the checks of load_executable_steps accept as well.  The one  *)
(* exception is a file that two of its moves name, which only the loading  *)
(* refuses.                                                                *)
(***************************************************************************)
PlannedLoads(items, plan, steps) ==
  LET all == [i \in DOMAIN items |-> MembersOf(items[i])] IN
  (/\ plan # Missing
   /\ plan.status = "planned"
   /\ \A a, b \in Occurrences(all) :
        a # b => all[a[1]][a[2]].object # all[b[1]][b[2]].object)
    => steps # Missing
=============================================================================
