--------------------------- MODULE OperationRecord ---------------------------
(***************************************************************************)
(* One row of the table organization_operations and the conditional        *)
(* UPDATE statements that OrganizationOperationService issues on it.  Each *)
(* statement is one guard (its WHERE clause) and one row (its VALUES).     *)
(* The service module and the executor module share these definitions.    *)
(*                                                                         *)
(* A lease token is a fresh uuid4 hex in the code and a natural number     *)
(* that was never issued before here; zero stands for SQL NULL, in the     *)
(* token and in the expiry.                                                *)
(***************************************************************************)
EXTENDS Naturals

CONSTANT LeaseDuration   \* lease_duration, in ticks of the model's clock

(***************************************************************************)
(* _validate_lease_duration accepts only a positive duration.              *)
(***************************************************************************)
ASSUME LeaseDurationAssumption == LeaseDuration \in Nat \ {0}

NoToken == 0
NoExpiry == 0

(***************************************************************************)
(* OrganizationOperationStatus; "absent" means that the row does not exist.*)
(***************************************************************************)
OperationStatus == {"absent", "planned", "organizing", "organized",
                    "failed", "uncertain", "cancelled"}

OperationRow == [status : OperationStatus, revision : Nat, attempts : Nat,
                 token : Nat, expires : Nat, planRevision : Nat]

AbsentRow == [status |-> "absent", revision |-> 0, attempts |-> 0,
              token |-> NoToken, expires |-> NoExpiry, planRevision |-> 0]

\* The row create() inserts for a plan read at planRevision.
QueuedRow(planRevision) ==
  [AbsentRow EXCEPT !.status = "planned", !.revision = 1,
                    !.planRevision = planRevision]

(***************************************************************************)
(* claim(): the row is still at the revision the caller read, and it is    *)
(* PLANNED, or ORGANIZING under a lease that has run out at time t.        *)
(***************************************************************************)
BugLeaseRunOutEarly(row, t) == TRUE

LeaseRunOut(row, t) == row.expires <= t

Claimable(row, revision, t) ==
  /\ row.revision = revision
  /\ \/ row.status = "planned"
     \/ row.status = "organizing" /\ LeaseRunOut(row, t)

ClaimedRow(row, token, t) ==
  [row EXCEPT !.status = "organizing", !.revision = @ + 1, !.attempts = @ + 1,
              !.token = token, !.expires = t + LeaseDuration]

(***************************************************************************)
(* The WHERE clause of finish_after_lease_loss(): revision, status and     *)
(* token, but not the expiry.                                              *)
(***************************************************************************)
BugOwnsWhoeverRuns(row, revision, token) == row.status = "organizing"

Owns(row, revision, token) ==
  /\ row.status = "organizing"
  /\ row.revision = revision
  /\ row.token = token

(***************************************************************************)
(* The WHERE clause of renew_lease(), finish() and                         *)
(* complete_organized_with_dirty_events(): the lease must also be live.    *)
(***************************************************************************)
OwnsLive(row, revision, token, t) ==
  Owns(row, revision, token) /\ ~LeaseRunOut(row, t)

RenewedRow(row, t) ==
  [row EXCEPT !.revision = @ + 1, !.expires = t + LeaseDuration]

\* ORGANIZED, FAILED or UNCERTAIN: the lease columns become NULL.
FinishedRow(row, status) ==
  [row EXCEPT !.status = status, !.revision = @ + 1,
              !.token = NoToken, !.expires = NoExpiry]

(***************************************************************************)
(* cancel() takes a PLANNED row, retry() a FAILED one.                     *)
(***************************************************************************)
Cancellable(row, revision) == row.revision = revision /\ row.status = "planned"

BugCancelledRow(row) == [row EXCEPT !.status = "ignored", !.revision = @ + 1]

CancelledRow(row) == [row EXCEPT !.status = "cancelled", !.revision = @ + 1]

BugRetryable(row, revision) ==
  row.revision = revision /\ row.status \in {"failed", "uncertain"}

Retryable(row, revision) == row.revision = revision /\ row.status = "failed"

RetriedRow(row) == [row EXCEPT !.status = "planned", !.revision = @ + 1]
=============================================================================
