------------------------- MODULE OrganizationPlanReview -------------------------
(***************************************************************************)
(* OrganizationPlanService and the prerequisite check of                   *)
(* OrganizationOperationService: the life of organization_plans rows under *)
(* concurrent reviewers and checks.  refresh_plan, which nothing calls, is *)
(* a decision of PlanPayload.                                              *)
(*                                                                         *)
(* A reviewer's write is an UPDATE with the revision it read in its WHERE  *)
(* clause.  A check that finds a plan stale writes through the ORM, by     *)
(* primary key, with the revision it read plus one.  Between the read and  *)
(* the write of either another coroutine may run.                          *)
(***************************************************************************)
EXTENDS Naturals

CONSTANTS
  Callers,       \* coroutines that call the services
  MaxContents,   \* bound: different contents the library takes on
  MaxRevision    \* bound: revisions of a plan row

ASSUME BoundsAssumption == MaxContents \in Nat \ {0} /\ MaxRevision \in Nat

(***************************************************************************)
(* A plan is identified by plan_hash: the hash of the library snapshot, of *)
(* the scan and of the actions, not of the expiry.  The contents that the  *)
(* library takes on are numbered; plan[i] is the row for content i.        *)
(***************************************************************************)
Contents == 1..MaxContents

VARIABLES
  content,   \* the content of the library that the latest scan shows
  plan,      \* plan[i]: status, revision, void (expired, or the library was
             \* changed since)
  call       \* call[c]: the call caller c is inside of

reviewVars == <<content, plan, call>>

PlanStatus == {"absent", "needs_review", "planned", "ignored", "invalidated"}
PlanRow == [status : PlanStatus, revision : Nat, void : BOOLEAN]
NoPlan == [status |-> "absent", revision |-> 0, void |-> FALSE]

Request == [kind : {"none", "create", "confirm", "ignore", "alias",
                    "invalidate"},
            plan : Contents, revision : Nat]
NoRequest == [kind |-> "none", plan |-> 1, revision |-> 0]

ReviewTypeOK ==
  /\ content \in Contents
  /\ plan \in [Contents -> PlanRow]
  /\ call \in [Callers -> Request]

ReviewInit ==
  /\ content = 1
  /\ plan = [i \in Contents |-> NoPlan]
  /\ call = [c \in Callers |-> NoRequest]

Begin(c, kind, i) ==
  /\ call[c] = NoRequest
  /\ call' = [call EXCEPT ![c] =
       [kind |-> kind, plan |-> i, revision |-> plan[i].revision]]

(***************************************************************************)
(* create_plan: from the latest complete scan only.  A row with the same   *)
(* hash is returned as it is, whatever its status, before the INSERT or    *)
(* after the unique constraint refused it.                                 *)
(***************************************************************************)
FreshPlan(status) == [status |-> status, revision |-> 1, void |-> FALSE]

KnownPlan(row) == row.status # "absent"

CreatePlanRead(c) ==
  /\ ~KnownPlan(plan[content])
  /\ Begin(c, "create", content)
  /\ UNCHANGED <<content, plan>>

CreatePlanInsert(c) ==
  LET i == call[c].plan
  IN /\ call[c].kind = "create"
     /\ \/ /\ plan[i].status = "absent"
           /\ \E status \in {"needs_review", "planned"} :
                plan' = [plan EXCEPT ![i] = FreshPlan(status)]
        \/ KnownPlan(plan[i]) /\ UNCHANGED plan
     /\ call' = [call EXCEPT ![c] = NoRequest]
     /\ UNCHANGED content

(***************************************************************************)
(* confirm_plan, ignore_plan_at_revision and alias_plan.  The reads check  *)
(* the status; of the UPDATEs only alias_plan's names it again.            *)
(***************************************************************************)
Confirmable(row) == row.status = "needs_review"
Ignorable(row) == row.status \notin {"absent", "ignored"}
Reviewable(row) == row.status \in {"needs_review", "planned"}

ReviewRead(c, i) ==
  /\ \/ Confirmable(plan[i]) /\ Begin(c, "confirm", i)
     \/ Ignorable(plan[i]) /\ Begin(c, "ignore", i)
     \/ Reviewable(plan[i]) /\ Begin(c, "alias", i)
  /\ UNCHANGED <<content, plan>>

BugUnchanged(request) == TRUE

Unchanged(request) == plan[request.plan].revision = request.revision

ReviewedRow(kind, row) ==
  [row EXCEPT !.status = CASE kind = "confirm" -> "planned"
                           [] kind = "ignore"  -> "ignored"
                           [] kind = "alias"   -> @,
              !.revision = @ + 1]

ReviewWrite(c) ==
  LET request == call[c]
      i == request.plan
      applies == /\ Unchanged(request)
                 /\ request.kind = "alias" => Reviewable(plan[i])
  IN /\ request.kind \in {"confirm", "ignore", "alias"}
     /\ \/ /\ applies
           /\ plan[i].revision < MaxRevision
           /\ plan' = [plan EXCEPT ![i] = ReviewedRow(request.kind, @)]
        \/ ~applies /\ UNCHANGED plan
     /\ call' = [call EXCEPT ![c] = NoRequest]
     /\ UNCHANGED content

(***************************************************************************)
(* _ensure_planned_and_current, when create() or claim() of an operation   *)
(* finds a planned plan void.  It does not ask whether the scan is still   *)
(* the latest.                                                             *)
(***************************************************************************)
PlannedButVoid(row) == row.status = "planned" /\ row.void

CheckRead(c, i) ==
  /\ PlannedButVoid(plan[i])
  /\ Begin(c, "invalidate", i)
  /\ UNCHANGED <<content, plan>>

InvalidateWrite(c) ==
  LET request == call[c]
  IN /\ request.kind = "invalidate"
     /\ plan' = [plan EXCEPT ![request.plan].status = "invalidated",
                             ![request.plan].revision = request.revision + 1]
     /\ call' = [call EXCEPT ![c] = NoRequest]
     /\ UNCHANGED content

(***************************************************************************)
(* The expiry passes; a scan or an edit of the library record shows new    *)
(* content, and the edit voids the plans made before it.                   *)
(***************************************************************************)
Voided(row) == [row EXCEPT !.void = TRUE]

Expire(i) ==
  /\ plan[i].status # "absent" /\ ~plan[i].void
  /\ plan' = [plan EXCEPT ![i] = Voided(@)]
  /\ UNCHANGED <<content, call>>

NewContent ==
  /\ content < MaxContents
  /\ content' = content + 1
  /\ \/ UNCHANGED plan
     \/ plan' = [i \in Contents |->
                   IF plan[i].status = "absent" THEN plan[i] ELSE Voided(plan[i])]
  /\ UNCHANGED call

ReviewStep ==
  \/ \E c \in Callers :
       \/ CreatePlanRead(c) \/ CreatePlanInsert(c)
       \/ ReviewWrite(c) \/ InvalidateWrite(c)
       \/ \E i \in Contents : ReviewRead(c, i) \/ CheckRead(c, i)
  \/ \E i \in Contents : Expire(i)
  \/ NewContent

ReviewSpec == ReviewInit /\ [][ReviewStep]_reviewVars

-----------------------------------------------------------------------------
(***************************************************************************)
(* Properties.                                                             *)
(***************************************************************************)

\* The revision that a reviewer read before confirming is never ahead of the
\* row, and it is the row's only as long as the plan still waits for review:
\* an invalidation that writes back an older revision plus one never makes
\* it come true again.
NoReviewerIsRevived ==
  \A c \in Callers :
    call[c].kind = "confirm" =>
      LET row == plan[call[c].plan]
      IN /\ row.revision >= call[c].revision
         /\ row.revision = call[c].revision => row.status = "needs_review"

\* What NoReviewerIsRevived rests on: whoever is about to invalidate a plan
\* saw it after every reviewer that is about to confirm it.
InvalidatorsCameLater ==
  \A d \in Callers :
    call[d].kind = "invalidate" =>
      /\ plan[call[d].plan].status \notin {"absent", "needs_review"}
      /\ \A c \in Callers :
           call[c].kind = "confirm" /\ call[c].plan = call[d].plan
           => call[c].revision < call[d].revision

\* REQ-001, 7.8: a plan that was invalidated has to be generated again.
\* It never becomes executable again, whatever a reviewer read before.
InvalidatedStaysOut ==
  [][\A i \in Contents :
       plan[i].status = "invalidated"
       => plan'[i].status \in {"invalidated", "ignored"}]_reviewVars
=============================================================================
