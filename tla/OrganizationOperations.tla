------------------------ MODULE OrganizationOperations ------------------------
(***************************************************************************)
(* OrganizationOperationService: the durable queue of organization         *)
(* operations, their leases, and the plan each of them was approved under. *)
(*                                                                         *)
(* Every awaited database call of the service is a place where another     *)
(* coroutine may run.  SELECTs run outside a transaction (WAL SQLite,      *)
(* implicit BEGIN only before DML), so a method that reads rows and then   *)
(* writes is two steps here, and only the WHERE clause of its UPDATE       *)
(* protects what it read.                                                  *)
(*                                                                         *)
(* A client is any coroutine that calls the service: an HTTP request or a  *)
(* worker.  The service is modelled as it is written, for any number of    *)
(* clients, claim() of an expired lease included; OrganizationExecutor     *)
(* restricts it to what the application does with it.                      *)
(***************************************************************************)
EXTENDS OperationRecord, FiniteSets

CONSTANTS
  Operations,        \* ids of organization_operations rows
  Plans,             \* ids of organization_plans rows
  Keys,              \* idempotency keys
  Clients,           \* coroutines that call the service
  NoOperation, NoPlan, NoKey,
  Nobody,            \* no client: the holder of an operation that has none
  MaxNow,            \* bound: ticks of the clock
  MaxRevision,       \* bound: revisions of an operation row
  MaxPlanRevision    \* bound: revisions of a plan row

ASSUME NoValuesAssumption ==
  /\ NoOperation \notin Operations
  /\ NoPlan \notin Plans
  /\ NoKey \notin Keys
  /\ Nobody \notin Clients

VARIABLES
  plan,     \* plan[p]: status, revision, and whether its prerequisites hold
  op,       \* op[o]: the operation row
  scope,    \* scope[o]: plan_id and idempotency_key of the row
  dirty,    \* operations whose directory_dirty events are in the outbox
  now,      \* datetime.now(UTC)
  issued,   \* lease tokens issued so far
  call,     \* call[c]: the service call client c is inside of
  held      \* held[c]: the OrganizationOperationLease client c was given

vars == <<plan, op, scope, dirty, now, issued, call, held>>

PlanStatus == {"needs_review", "planned", "ignored", "invalidated"}
PlanRow == [status : PlanStatus, revision : Nat, current : BOOLEAN]

ScopeRow == [plan : Plans \cup {NoPlan}, key : Keys \cup {NoKey}]
NoScope == [plan |-> NoPlan, key |-> NoKey]

CallRecord == [pc : {"idle", "creating", "claiming", "invalidating"},
               plan : Plans \cup {NoPlan}, key : Keys \cup {NoKey},
               op : Operations \cup {NoOperation}, revision : Nat, at : Nat]
Idle == [pc |-> "idle", plan |-> NoPlan, key |-> NoKey, op |-> NoOperation,
         revision |-> 0, at |-> 0]
Creating(p, k, r) == [Idle EXCEPT !.pc = "creating", !.plan = p, !.key = k,
                                  !.revision = r]
Claiming(o, r, t) == [Idle EXCEPT !.pc = "claiming", !.op = o, !.revision = r,
                                  !.at = t]
Invalidating(p, r) == [Idle EXCEPT !.pc = "invalidating", !.plan = p,
                                   !.revision = r]

Lease == [op : Operations \cup {NoOperation}, revision : Nat, token : Nat]
NoLease == [op |-> NoOperation, revision |-> 0, token |-> NoToken]

TypeOK ==
  /\ plan \in [Plans -> PlanRow]
  /\ op \in [Operations -> OperationRow]
  /\ scope \in [Operations -> ScopeRow]
  /\ dirty \in SUBSET Operations
  /\ now \in Nat
  /\ issued \in Nat
  /\ call \in [Clients -> CallRecord]
  /\ held \in [Clients -> Lease]

Init ==
  /\ plan \in [Plans -> {[status |-> s, revision |-> 1, current |-> TRUE] :
                           s \in {"needs_review", "planned"}}]
  /\ op = [o \in Operations |-> AbsentRow]
  /\ scope = [o \in Operations |-> NoScope]
  /\ dirty = {}
  /\ now = 1
  /\ issued = 0
  /\ call = [c \in Clients |-> Idle]
  /\ held = [c \in Clients |-> NoLease]

(***************************************************************************)
(* _ensure_planned_and_current on the plan row as it is read: the plan is  *)
(* PLANNED, its library snapshot, scan run and expiry still hold.          *)
(***************************************************************************)
BugPlannedAndCurrent(p) == plan[p].current

PlannedAndCurrent(p) == plan[p].status = "planned" /\ plan[p].current

PlannedButStale(p) == plan[p].status = "planned" /\ ~plan[p].current

ExistsForKey(k) == \E o \in Operations : scope[o].key = k
ExistsForPlan(p) == \E o \in Operations : scope[o].plan = p

(***************************************************************************)
(* create(), the reads: the plan must be planned and current; an operation *)
(* with the same key is returned or refused, another operation of the plan *)
(* is refused, without any write.                                          *)
(***************************************************************************)
CreateRead(c, p, k) ==
  /\ call[c] = Idle
  /\ \/ /\ PlannedAndCurrent(p)
        /\ ~ExistsForKey(k) /\ ~ExistsForPlan(p)
        /\ call' = [call EXCEPT ![c] = Creating(p, k, plan[p].revision)]
     \/ /\ PlannedButStale(p)
        /\ call' = [call EXCEPT ![c] = Invalidating(p, plan[p].revision)]
  /\ UNCHANGED <<plan, op, scope, dirty, now, issued, held>>

(***************************************************************************)
(* create(), the INSERT: the unique constraints on plan_id and             *)
(* idempotency_key decide; on IntegrityError the call returns the existing *)
(* row or a conflict and changes nothing.                                  *)
(***************************************************************************)
BugUniqueScope(p, k) == ~ExistsForKey(k)

UniqueScope(p, k) == ~ExistsForKey(k) /\ ~ExistsForPlan(p)

CreateInsert(c) ==
  /\ call[c].pc = "creating"
  /\ LET p == call[c].plan
         k == call[c].key
     IN \/ /\ UniqueScope(p, k)
           /\ \E o \in Operations :
                /\ op[o].status = "absent"
                /\ op' = [op EXCEPT ![o] = QueuedRow(call[c].revision)]
                /\ scope' = [scope EXCEPT ![o] = [plan |-> p, key |-> k]]
        \/ ~UniqueScope(p, k) /\ UNCHANGED <<op, scope>>
  /\ call' = [call EXCEPT ![c] = Idle]
  /\ UNCHANGED <<plan, dirty, now, issued, held>>

(***************************************************************************)
(* claim(), the reads.  The caller's expected revision is the row's: with  *)
(* any other the call raises at once.  The clock is read before them.      *)
(***************************************************************************)
ClaimRead(c, o) ==
  /\ call[c] = Idle /\ held[c] = NoLease
  /\ op[o].status # "absent"
  /\ LET p == scope[o].plan IN
     \/ /\ PlannedAndCurrent(p)
        /\ plan[p].revision = op[o].planRevision
        /\ Claimable(op[o], op[o].revision, now)
        /\ call' = [call EXCEPT ![c] = Claiming(o, op[o].revision, now)]
     \/ /\ PlannedButStale(p)
        /\ call' = [call EXCEPT ![c] = Invalidating(p, plan[p].revision)]
  /\ UNCHANGED <<plan, op, scope, dirty, now, issued, held>>

(***************************************************************************)
(* claim(), the UPDATE: it re-checks the operation row, not the plan.      *)
(***************************************************************************)
ClaimWrite(c) ==
  /\ call[c].pc = "claiming"
  /\ LET o == call[c].op IN
     \/ /\ Claimable(op[o], call[c].revision, call[c].at)
        /\ op[o].revision < MaxRevision
        /\ issued' = issued + 1
        /\ op' = [op EXCEPT ![o] = ClaimedRow(@, issued', call[c].at)]
        /\ held' = [held EXCEPT ![c] =
             [op |-> o, revision |-> call[c].revision + 1, token |-> issued']]
     \/ /\ ~Claimable(op[o], call[c].revision, call[c].at)
        /\ UNCHANGED <<op, issued, held>>
  /\ call' = [call EXCEPT ![c] = Idle]
  /\ UNCHANGED <<plan, scope, dirty, now>>

(***************************************************************************)
(* The tail of _ensure_planned_and_current: the ORM writes the plan back   *)
(* by primary key, from the revision it read, without a WHERE on it.       *)
(***************************************************************************)
InvalidateWrite(c) ==
  /\ call[c].pc = "invalidating"
  /\ plan' = [plan EXCEPT ![call[c].plan].status = "invalidated",
                          ![call[c].plan].revision = call[c].revision + 1]
  /\ call' = [call EXCEPT ![c] = Idle]
  /\ UNCHANGED <<op, scope, dirty, now, issued, held>>

(***************************************************************************)
(* renew_lease().  A caller that is cancelled while the commit is in       *)
(* flight never sees the new revision although the row has it.             *)
(***************************************************************************)
HoldsLive(c) ==
  /\ held[c] # NoLease
  /\ OwnsLive(op[held[c].op], held[c].revision, held[c].token, now)

RenewLease(c) ==
  /\ call[c] = Idle
  /\ HoldsLive(c)
  /\ op[held[c].op].revision < MaxRevision
  /\ op' = [op EXCEPT ![held[c].op] = RenewedRow(@, now)]
  /\ \/ held' = [held EXCEPT ![c].revision = @ + 1]
     \/ UNCHANGED held
  /\ UNCHANGED <<plan, scope, dirty, now, issued, call>>

(***************************************************************************)
(* finish() with FAILED or UNCERTAIN.                                      *)
(***************************************************************************)
Finish(c, status) ==
  /\ call[c] = Idle
  /\ HoldsLive(c)
  /\ op' = [op EXCEPT ![held[c].op] = FinishedRow(@, status)]
  /\ held' = [held EXCEPT ![c] = NoLease]
  /\ UNCHANGED <<plan, scope, dirty, now, issued, call>>

(***************************************************************************)
(* finish_after_lease_loss(): the expiry is not asked for.                 *)
(***************************************************************************)
FinishAfterLeaseLoss(c) ==
  /\ call[c] = Idle
  /\ held[c] # NoLease
  /\ Owns(op[held[c].op], held[c].revision, held[c].token)
  /\ op' = [op EXCEPT ![held[c].op] = FinishedRow(@, "uncertain")]
  /\ held' = [held EXCEPT ![c] = NoLease]
  /\ UNCHANGED <<plan, scope, dirty, now, issued, call>>

(***************************************************************************)
(* complete_organized_with_dirty_events(): the terminal state and the      *)
(* outbox rows commit together; a failure of the outbox rolls both back,   *)
(* and the caller keeps its lease.                                         *)
(***************************************************************************)
BugCompleteOrganized(c) ==
  /\ call[c] = Idle
  /\ HoldsLive(c)
  /\ op' = [op EXCEPT ![held[c].op] = FinishedRow(@, "organized")]
  /\ \/ dirty' = dirty \cup {held[c].op}
     \/ UNCHANGED dirty
  /\ held' = [held EXCEPT ![c] = NoLease]
  /\ UNCHANGED <<plan, scope, now, issued, call>>

CompleteOrganized(c) ==
  /\ call[c] = Idle
  /\ HoldsLive(c)
  /\ op' = [op EXCEPT ![held[c].op] = FinishedRow(@, "organized")]
  /\ dirty' = dirty \cup {held[c].op}
  /\ held' = [held EXCEPT ![c] = NoLease]
  /\ UNCHANGED <<plan, scope, now, issued, call>>

(***************************************************************************)
(* cancel() and retry(), by a user who has read the current revision.      *)
(***************************************************************************)
CancelOperation(o) ==
  /\ Cancellable(op[o], op[o].revision)
  /\ op' = [op EXCEPT ![o] = CancelledRow(@)]
  /\ UNCHANGED <<plan, scope, dirty, now, issued, call, held>>

RetryOperation(o) ==
  /\ Retryable(op[o], op[o].revision)
  /\ op[o].revision < MaxRevision
  /\ op' = [op EXCEPT ![o] = RetriedRow(@)]
  /\ UNCHANGED <<plan, scope, dirty, now, issued, call, held>>

(***************************************************************************)
(* What the plan review does to the plan row meanwhile (its own races are  *)
(* the subject of OrganizationPlanReview), and a library edit, a scan run  *)
(* that is no longer complete or the expiry making the plan stale.         *)
(***************************************************************************)
ConfirmPlan(p) ==
  /\ plan[p].status = "needs_review"
  /\ plan' = [plan EXCEPT ![p].status = "planned", ![p].revision = @ + 1]
  /\ UNCHANGED <<op, scope, dirty, now, issued, call, held>>

IgnorePlan(p) ==
  /\ plan[p].status # "ignored"
  /\ plan[p].revision < MaxPlanRevision
  /\ plan' = [plan EXCEPT ![p].status = "ignored", ![p].revision = @ + 1]
  /\ UNCHANGED <<op, scope, dirty, now, issued, call, held>>

AliasPlan(p) ==
  /\ plan[p].status \in {"needs_review", "planned"}
  /\ plan[p].revision < MaxPlanRevision
  /\ plan' = [plan EXCEPT ![p].revision = @ + 1]
  /\ UNCHANGED <<op, scope, dirty, now, issued, call, held>>

PlanGoesStale(p) ==
  /\ plan[p].current
  /\ plan' = [plan EXCEPT ![p].current = FALSE]
  /\ UNCHANGED <<op, scope, dirty, now, issued, call, held>>

(***************************************************************************)
(* The process of a client dies, or its coroutine is dropped: it forgets   *)
(* its lease and the call it was inside of.  The rows stay.                *)
(***************************************************************************)
Crash(c) ==
  /\ call[c] # Idle \/ held[c] # NoLease
  /\ call' = [call EXCEPT ![c] = Idle]
  /\ held' = [held EXCEPT ![c] = NoLease]
  /\ UNCHANGED <<plan, op, scope, dirty, now, issued>>

Tick ==
  /\ now < MaxNow
  /\ now' = now + 1
  /\ UNCHANGED <<plan, op, scope, dirty, issued, call, held>>

Next ==
  \/ \E c \in Clients :
       \/ \E p \in Plans, k \in Keys : CreateRead(c, p, k)
       \/ CreateInsert(c)
       \/ \E o \in Operations : ClaimRead(c, o)
       \/ ClaimWrite(c)
       \/ InvalidateWrite(c)
       \/ RenewLease(c)
       \/ \E status \in {"failed", "uncertain"} : Finish(c, status)
       \/ FinishAfterLeaseLoss(c)
       \/ CompleteOrganized(c)
       \/ Crash(c)
  \/ \E o \in Operations : CancelOperation(o) \/ RetryOperation(o)
  \/ \E p \in Plans :
       ConfirmPlan(p) \/ IgnorePlan(p) \/ AliasPlan(p) \/ PlanGoesStale(p)
  \/ Tick

Spec == Init /\ [][Next]_vars

-----------------------------------------------------------------------------
(***************************************************************************)
(* Safety.                                                                 *)
(***************************************************************************)

\* The token and the expiry are set exactly while the operation is
\* ORGANIZING, and no row carries a token that was never issued: a lease
\* that leaks out of a finished row would let its old holder write again.
LeaseColumns ==
  \A o \in Operations :
    /\ (op[o].status = "organizing") <=> (op[o].token # NoToken)
    /\ (op[o].status = "organizing") <=> (op[o].expires # NoExpiry)
    /\ op[o].token <= issued

\* Two clients never hold leases that the service would both accept for the
\* same operation, however claims, renewals, expiries and crashes interleave.
OneWriter ==
  \A c, d \in Clients :
    (/\ c # d
     /\ held[c] # NoLease /\ held[d] # NoLease
     /\ held[c].op = held[d].op)
    => ~(/\ Owns(op[held[c].op], held[c].revision, held[c].token)
         /\ Owns(op[held[d].op], held[d].revision, held[d].token))

\* A plan is queued at most once, and so is an idempotency key, although
\* concurrent create() calls all pass their checks before any of them inserts.
OneOperationPerScope ==
  \A o, q \in Operations :
    (o # q /\ op[o].status # "absent" /\ op[q].status # "absent")
    => scope[o].plan # scope[q].plan /\ scope[o].key # scope[q].key

\* The outbox holds the directory_dirty events of exactly the operations that
\* are ORGANIZED: the commit that finishes one carries its events.
DirtyIffOrganized ==
  \A o \in Operations : o \in dirty <=> op[o].status = "organized"

\* No operation exists for a plan that nobody confirmed, whatever reviewers
\* did to the plan between the check in create() and its INSERT.
QueuedPlanWasConfirmed ==
  \A o \in Operations :
    op[o].status # "absent" => plan[scope[o].plan].status # "needs_review"

(***************************************************************************)
(* Action properties.                                                      *)
(***************************************************************************)

\* ORGANIZED, UNCERTAIN and CANCELLED are final.  In particular no call of
\* any client, stale ones included, puts an uncertain outcome back in the
\* queue: only a person who looked at 115 may.
TerminalIsFinal ==
  [][\A o \in Operations :
       op[o].status \in {"organized", "uncertain", "cancelled"}
       => op'[o] = op[o]]_vars

\* A lease changes hands only after it has run out: as long as the expiry a
\* holder was given lies ahead, the row keeps the holder's token or the
\* operation leaves ORGANIZING.
TakeoverOnlyAfterExpiry ==
  [][\A o \in Operations :
       (/\ op[o].status = "organizing" /\ op'[o].status = "organizing"
        /\ op'[o].token # op[o].token)
       => op[o].expires <= now]_vars

\* Every change of an operation row is one new revision, so a caller that
\* compares revisions never misses a change.
EveryChangeIsARevision ==
  [][\A o \in Operations :
       op'[o] # op[o] => op'[o].revision = op[o].revision + 1]_vars

-----------------------------------------------------------------------------
(***************************************************************************)
(* What the properties above rest on.                                      *)
(***************************************************************************)

\* Rows, calls and leases refer to rows that exist.
Scoped ==
  /\ \A o \in Operations :
       op[o].status # "absent" => scope[o].plan \in Plans /\ scope[o].key \in Keys
  /\ \A c \in Clients :
       /\ call[c].pc = "creating" => call[c].plan \in Plans /\ call[c].key \in Keys
       /\ call[c].pc = "invalidating" => call[c].plan \in Plans
       /\ call[c].pc = "claiming" => call[c].op \in Operations
       /\ held[c] # NoLease => held[c].op \in Operations

\* A row that was never inserted is empty, and a call in progress read the
\* clock in the past.
AbsentIsEmpty ==
  \A o \in Operations : op[o].status = "absent" => op[o] = AbsentRow

CallsAreInThePast == \A c \in Clients : call[c].at <= now

\* Two clients never share a token, whatever became of the operations.
TokensAreFenced ==
  /\ \A c \in Clients : held[c] # NoLease => held[c].token \in 1..issued
  /\ \A c, d \in Clients :
       c # d /\ held[c] # NoLease /\ held[d] # NoLease
       => held[c].token # held[d].token

\* A client that is inside of claim() holds no lease.
ClaimersHoldNothing ==
  \A c \in Clients : call[c].pc = "claiming" => held[c] = NoLease

\* create() is between its check and its INSERT only for a plan that was
\* confirmed, and no reviewer takes a plan back to needs_review.
CreatingIsConfirmed ==
  \A c \in Clients :
    call[c].pc = "creating" => plan[call[c].plan].status # "needs_review"

-----------------------------------------------------------------------------
(***************************************************************************)
(* The service implements LeasedJob: tokens, revisions and expiries are    *)
(* one way to keep the promise that only the latest holder finishes an     *)
(* operation.                                                              *)
(***************************************************************************)
Holds(c, o) == held[c].op = o /\ Owns(op[o], held[c].revision, held[c].token)

stateMap == [o \in Operations |-> op[o].status]

holderMap ==
  [o \in Operations |->
     IF \E c \in Clients : Holds(c, o)
     THEN CHOOSE c \in Clients : Holds(c, o)
     ELSE Nobody]

workingMap == [c \in Clients |-> held[c].op]

Job == INSTANCE LeasedJob WITH
  Jobs <- Operations, NoJob <- NoOperation,
  state <- stateMap, holder <- holderMap, working <- workingMap

\* Only the client that the row's token and revision name finishes an
\* operation, and a client whose lease was taken over never does, whichever
\* way claims, renewals, expiries, retries and crashes interleave.
ImplementsLeasedJob == Job!JobSpec
=============================================================================
