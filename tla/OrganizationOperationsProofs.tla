---------------------- MODULE OrganizationOperationsProofs ----------------------
(***************************************************************************)
(* Theorems about OrganizationOperations, for any sets of operations,      *)
(* plans, keys and clients, any lease duration and any bounds.             *)
(***************************************************************************)
EXTENDS OrganizationOperations, TLAPS

(***************************************************************************)
(* Lemmas about the rows that the UPDATE statements write.                 *)
(***************************************************************************)

\* Each statement turns a well-formed row into a well-formed row.
LEMMA RowTypes ==
  /\ AbsentRow \in OperationRow
  /\ \A r \in Nat : QueuedRow(r) \in OperationRow
  /\ \A row \in OperationRow, token, t \in Nat :
       ClaimedRow(row, token, t) \in OperationRow
  /\ \A row \in OperationRow, t \in Nat : RenewedRow(row, t) \in OperationRow
  /\ \A row \in OperationRow, s \in OperationStatus :
       FinishedRow(row, s) \in OperationRow
  /\ \A row \in OperationRow :
       CancelledRow(row) \in OperationRow /\ RetriedRow(row) \in OperationRow
<1> USE DEF OperationRow, OperationStatus
<1>1. /\ AbsentRow \in OperationRow
      /\ \A r \in Nat : QueuedRow(r) \in OperationRow
  BY DEF AbsentRow, QueuedRow, NoToken, NoExpiry
<1>2. ASSUME NEW row \in OperationRow, NEW token \in Nat, NEW t \in Nat
      PROVE  /\ ClaimedRow(row, token, t) \in OperationRow
             /\ RenewedRow(row, t) \in OperationRow
  <2>1. t + LeaseDuration \in Nat /\ row.revision + 1 \in Nat
        /\ row.attempts + 1 \in Nat
    BY LeaseDurationAssumption
  <2> QED BY <2>1 DEF ClaimedRow, RenewedRow
<1>3. ASSUME NEW row \in OperationRow
      PROVE  /\ \A s \in OperationStatus : FinishedRow(row, s) \in OperationRow
             /\ CancelledRow(row) \in OperationRow
             /\ RetriedRow(row) \in OperationRow
  <2>1. row.revision + 1 \in Nat
    OBVIOUS
  <2> QED BY <2>1 DEF FinishedRow, CancelledRow, RetriedRow, NoToken, NoExpiry
<1> QED BY <1>1, <1>2, <1>3

\* What each statement leaves in the columns.
LEMMA RowColumns ==
  /\ \A r \in Nat :
       /\ QueuedRow(r).status = "planned" /\ QueuedRow(r).revision = 1
       /\ QueuedRow(r).token = NoToken /\ QueuedRow(r).expires = NoExpiry
  /\ \A row \in OperationRow, token, t \in Nat :
       LET claimed == ClaimedRow(row, token, t)
           renewed == RenewedRow(row, t)
       IN /\ claimed.status = "organizing" /\ claimed.revision = row.revision + 1
          /\ claimed.token = token /\ claimed.expires = t + LeaseDuration
          /\ renewed.status = row.status /\ renewed.revision = row.revision + 1
          /\ renewed.token = row.token /\ renewed.expires = t + LeaseDuration
  /\ \A row \in OperationRow :
       /\ \A s \in OperationStatus :
            LET finished == FinishedRow(row, s)
            IN /\ finished.status = s /\ finished.revision = row.revision + 1
               /\ finished.token = NoToken /\ finished.expires = NoExpiry
       /\ CancelledRow(row).status = "cancelled"
       /\ RetriedRow(row).status = "planned"
       /\ \A new \in {CancelledRow(row), RetriedRow(row)} :
            /\ new.revision = row.revision + 1
            /\ new.token = row.token /\ new.expires = row.expires
BY DEF OperationRow, QueuedRow, AbsentRow, ClaimedRow, RenewedRow, FinishedRow,
       CancelledRow, RetriedRow

-----------------------------------------------------------------------------
(***************************************************************************)
(* Type correctness.                                                       *)
(***************************************************************************)
\* What the records of a call in progress hold.
LEMMA CallTypes ==
  /\ \A p \in Plans, k \in Keys, r \in Nat :
       /\ Creating(p, k, r) \in CallRecord
       /\ Creating(p, k, r).pc = "creating" /\ Creating(p, k, r).at = 0
       /\ Creating(p, k, r).plan = p /\ Creating(p, k, r).key = k
  /\ \A o \in Operations, r, t \in Nat :
       /\ Claiming(o, r, t) \in CallRecord
       /\ Claiming(o, r, t).pc = "claiming" /\ Claiming(o, r, t).op = o
       /\ Claiming(o, r, t).at = t
  /\ \A p \in Plans, r \in Nat :
       /\ Invalidating(p, r) \in CallRecord
       /\ Invalidating(p, r).pc = "invalidating" /\ Invalidating(p, r).plan = p
       /\ Invalidating(p, r).at = 0
<1>1. ASSUME NEW p \in Plans, NEW k \in Keys, NEW r \in Nat
      PROVE  /\ Creating(p, k, r) \in CallRecord
             /\ Creating(p, k, r).pc = "creating" /\ Creating(p, k, r).at = 0
             /\ Creating(p, k, r).plan = p /\ Creating(p, k, r).key = k
  BY DEF Creating, Idle, CallRecord
<1>2. ASSUME NEW o \in Operations, NEW r \in Nat, NEW t \in Nat
      PROVE  /\ Claiming(o, r, t) \in CallRecord
             /\ Claiming(o, r, t).pc = "claiming" /\ Claiming(o, r, t).op = o
             /\ Claiming(o, r, t).at = t
  BY DEF Claiming, Idle, CallRecord
<1>3. ASSUME NEW p \in Plans, NEW r \in Nat
      PROVE  /\ Invalidating(p, r) \in CallRecord
             /\ Invalidating(p, r).pc = "invalidating" /\ Invalidating(p, r).plan = p
             /\ Invalidating(p, r).at = 0
  BY DEF Invalidating, Idle, CallRecord
<1> QED BY <1>1, <1>2, <1>3

\* A caller that does nothing, and no lease.
LEMMA IdleType == Idle \in CallRecord /\ NoLease \in Lease
BY DEF Idle, CallRecord, NoLease, Lease, NoToken

\* The initial states have their types.
LEMMA TypeInit == Init => TypeOK /\ Scoped
<1> SUFFICES ASSUME Init PROVE TypeOK /\ Scoped
  OBVIOUS
<1>1. plan \in [Plans -> PlanRow]
  <2>1. \A s \in {"needs_review", "planned"} :
          [status |-> s, revision |-> 1, current |-> TRUE] \in PlanRow
    BY DEF PlanRow, PlanStatus
  <2> QED BY <2>1 DEF Init
<1>2. op \in [Operations -> OperationRow]
  BY RowTypes DEF Init
<1>3. scope \in [Operations -> ScopeRow]
  BY DEF Init, ScopeRow, NoScope
<1>4. call \in [Clients -> CallRecord] /\ held \in [Clients -> Lease]
  BY IdleType DEF Init
<1>5. Scoped
  BY DEF Init, Scoped, AbsentRow, Idle
<1> QED BY <1>1, <1>2, <1>3, <1>4, <1>5 DEF Init, TypeOK

\* Every step keeps them.
LEMMA TypeStep == TypeOK /\ Scoped /\ [Next]_vars => TypeOK' /\ Scoped'
<1> SUFFICES ASSUME TypeOK, Scoped, [Next]_vars PROVE TypeOK' /\ Scoped'
  OBVIOUS
<1>t. /\ plan \in [Plans -> PlanRow]
      /\ op \in [Operations -> OperationRow]
      /\ scope \in [Operations -> ScopeRow]
      /\ dirty \in SUBSET Operations
      /\ now \in Nat
      /\ issued \in Nat
      /\ call \in [Clients -> CallRecord]
      /\ held \in [Clients -> Lease]
  BY DEF TypeOK
<1>1. ASSUME NEW c \in Clients, NEW p \in Plans, NEW k \in Keys,
             CreateRead(c, p, k)
      PROVE  TypeOK' /\ Scoped'
  <2>1. plan[p].revision \in Nat
    BY <1>t DEF PlanRow
  <2>2. \E r \in {Creating(p, k, plan[p].revision), Invalidating(p, plan[p].revision)} :
          call' = [call EXCEPT ![c] = r]
    BY <1>1 DEF CreateRead
  <2> QED BY <1>1, <1>t, <2>1, <2>2, CallTypes DEF CreateRead, TypeOK, Scoped
<1>2. ASSUME NEW c \in Clients, CreateInsert(c) PROVE TypeOK' /\ Scoped'
  <2>1. /\ call[c].revision \in Nat
        /\ call[c].plan \in Plans
        /\ call[c].key \in Keys
    BY <1>2, <1>t DEF CallRecord, CreateInsert, Scoped
  <2>2. QueuedRow(call[c].revision) \in OperationRow
    BY <2>1, RowTypes
  <2>3. op' \in [Operations -> OperationRow] /\ scope' \in [Operations -> ScopeRow]
    <3>1. [plan |-> call[c].plan, key |-> call[c].key] \in ScopeRow
      BY <2>1 DEF ScopeRow
    <3> QED BY <1>2, <1>t, <2>2, <3>1 DEF CreateInsert
  <2>4. call' = [call EXCEPT ![c] = Idle] /\ call' \in [Clients -> CallRecord]
    BY <1>2, <1>t, IdleType DEF CreateInsert
  <2>5. Scoped'
    BY <1>2, <1>t, <2>1, <2>4 DEF CreateInsert, Scoped, Idle
  <2> QED BY <1>2, <1>t, <2>3, <2>4, <2>5 DEF CreateInsert, TypeOK
<1>3. ASSUME NEW c \in Clients, NEW o \in Operations, ClaimRead(c, o)
      PROVE  TypeOK' /\ Scoped'
  <2>1. op[o].revision \in Nat /\ scope[o].plan \in Plans
    BY <1>3, <1>t DEF OperationRow, Scoped, ClaimRead
  <2>2. plan[scope[o].plan].revision \in Nat
    BY <1>t, <2>1 DEF PlanRow
  <2>3. \E r \in {Claiming(o, op[o].revision, now),
                    Invalidating(scope[o].plan, plan[scope[o].plan].revision)} :
          call' = [call EXCEPT ![c] = r]
    BY <1>3 DEF ClaimRead
  <2> QED BY <1>3, <1>t, <2>1, <2>2, <2>3, CallTypes DEF ClaimRead, TypeOK, Scoped
<1>4. ASSUME NEW c \in Clients, ClaimWrite(c) PROVE TypeOK' /\ Scoped'
  <2>1. call[c].op \in Operations /\ call[c].revision \in Nat /\ call[c].at \in Nat
    BY <1>4, <1>t DEF ClaimWrite, CallRecord, Scoped
  <2>2. ClaimedRow(op[call[c].op], issued + 1, call[c].at) \in OperationRow
    <3>1. op[call[c].op] \in OperationRow /\ issued + 1 \in Nat
      BY <1>t, <2>1
    <3>2. \A row \in OperationRow, token, t \in Nat :
            ClaimedRow(row, token, t) \in OperationRow
      BY RowTypes
    <3> QED BY <2>1, <3>1, <3>2
  <2>3. /\ op' \in [Operations -> OperationRow]
        /\ issued' \in Nat
    BY <1>4, <1>t, <2>1, <2>2 DEF ClaimWrite
  <2>4. [op |-> call[c].op, revision |-> call[c].revision + 1, token |-> issued + 1]
          \in Lease
    BY <1>t, <2>1 DEF Lease
  <2>5. /\ held' \in [Clients -> Lease]
        /\ \A d \in Clients : held'[d] # NoLease => held'[d].op \in Operations
    BY <1>4, <1>t, <2>1, <2>4 DEF ClaimWrite, Scoped
  <2>6. call' = [call EXCEPT ![c] = Idle] /\ call' \in [Clients -> CallRecord]
    BY <1>4, <1>t, IdleType DEF ClaimWrite
  <2>7. \A o \in Operations : op'[o].status # "absent" => op[o].status # "absent"
    BY <1>4, <1>t, <2>1 DEF ClaimWrite, Claimable
  <2>8. Scoped'
    BY <1>4, <2>5, <2>6, <2>7, <1>t DEF ClaimWrite, Scoped, Idle
  <2> QED BY <1>4, <1>t, <2>3, <2>5, <2>6, <2>8 DEF ClaimWrite, TypeOK
<1>5. ASSUME NEW c \in Clients, InvalidateWrite(c) PROVE TypeOK' /\ Scoped'
  <2>1. call[c].plan \in Plans /\ call[c].revision \in Nat
    BY <1>5, <1>t DEF InvalidateWrite, CallRecord, Scoped
  <2>2. plan' \in [Plans -> PlanRow]
    BY <1>5, <1>t, <2>1 DEF InvalidateWrite, PlanRow, PlanStatus
  <2>3. call' = [call EXCEPT ![c] = Idle] /\ call' \in [Clients -> CallRecord]
    BY <1>5, <1>t, IdleType DEF InvalidateWrite
  <2> QED BY <1>5, <1>t, <2>2, <2>3 DEF InvalidateWrite, TypeOK, Scoped, Idle
<1>6. ASSUME NEW c \in Clients, RenewLease(c) PROVE TypeOK' /\ Scoped'
  <2>1. held[c] # NoLease /\ held[c].op \in Operations
    BY <1>6 DEF RenewLease, HoldsLive, Scoped
  <2>2. RenewedRow(op[held[c].op], now) \in OperationRow
    BY <1>t, <2>1, RowTypes
  <2>3. /\ op' \in [Operations -> OperationRow]
        /\ \A o \in Operations : op'[o].status = op[o].status
    BY <1>6, <1>t, <2>1, <2>2 DEF RenewLease, RenewedRow, OperationRow
  <2>4. [held[c] EXCEPT !.revision = @ + 1] \in Lease
        /\ [held[c] EXCEPT !.revision = @ + 1].op = held[c].op
    BY <1>t DEF Lease
  <2>5. /\ held' \in [Clients -> Lease]
        /\ \A d \in Clients : held'[d] # NoLease => held'[d].op \in Operations
    BY <1>6, <1>t, <2>1, <2>4 DEF RenewLease, Scoped
  <2> QED BY <1>6, <1>t, <2>3, <2>5 DEF RenewLease, TypeOK, Scoped
<1>7. ASSUME NEW c \in Clients, NEW status \in {"failed", "uncertain", "organized"},
             held[c] # NoLease,
             op[held[c].op].status = "organizing",
             op' = [op EXCEPT ![held[c].op] = FinishedRow(@, status)],
             held' = [held EXCEPT ![c] = NoLease],
             dirty' = dirty \/ dirty' = dirty \cup {held[c].op},
             UNCHANGED <<plan, scope, now, issued, call>>
      PROVE  TypeOK' /\ Scoped'
  <2>1. held[c].op \in Operations
    BY <1>7 DEF Scoped
  <2>2. FinishedRow(op[held[c].op], status) \in OperationRow
    BY <1>t, <2>1, RowTypes DEF OperationStatus
  <2>3. /\ op' \in [Operations -> OperationRow]
        /\ \A o \in Operations :
             op'[o].status # "absent" => op[o].status # "absent"
    BY <1>7, <1>t, <2>1, <2>2
  <2>4. held' \in [Clients -> Lease]
    BY <1>7, <1>t, IdleType
  <2> QED BY <1>7, <1>t, <2>1, <2>3, <2>4 DEF TypeOK, Scoped
<1>8. ASSUME NEW c \in Clients, NEW status \in {"failed", "uncertain"},
             Finish(c, status)
      PROVE  TypeOK' /\ Scoped'
  BY <1>7, <1>8 DEF Finish, HoldsLive, OwnsLive, Owns
<1>9. ASSUME NEW c \in Clients, FinishAfterLeaseLoss(c) PROVE TypeOK' /\ Scoped'
  BY <1>7, <1>9 DEF FinishAfterLeaseLoss, Owns
<1>10. ASSUME NEW c \in Clients, CompleteOrganized(c) PROVE TypeOK' /\ Scoped'
  BY <1>7, <1>10 DEF CompleteOrganized, HoldsLive, OwnsLive, Owns
<1>11. ASSUME NEW c \in Clients, Crash(c) PROVE TypeOK' /\ Scoped'
  BY <1>11, <1>t, IdleType DEF Crash, TypeOK, Scoped, Idle
<1>12. ASSUME NEW o \in Operations, CancelOperation(o) \/ RetryOperation(o)
       PROVE  TypeOK' /\ Scoped'
  <2>1. CancelledRow(op[o]) \in OperationRow /\ RetriedRow(op[o]) \in OperationRow
    BY <1>t, RowTypes
  <2>2. op' \in [Operations -> OperationRow]
    BY <1>12, <1>t, <2>1 DEF CancelOperation, RetryOperation
  <2>3. \A q \in Operations : op'[q].status # "absent" => op[q].status # "absent"
    BY <1>12, <1>t
       DEF CancelOperation, RetryOperation, Cancellable, Retryable
  <2> QED BY <1>12, <1>t, <2>2, <2>3
          DEF CancelOperation, RetryOperation, TypeOK, Scoped
<1>13. ASSUME NEW p \in Plans,
              ConfirmPlan(p) \/ IgnorePlan(p) \/ AliasPlan(p) \/ PlanGoesStale(p)
       PROVE  TypeOK' /\ Scoped'
  <2>0. plan[p] \in PlanRow /\ plan[p].revision + 1 \in Nat
    BY <1>t DEF PlanRow
  <2>1. PICK row \in PlanRow : plan' = [plan EXCEPT ![p] = row]
    <3>1. CASE ConfirmPlan(p)
      <4>1. [plan[p] EXCEPT !.status = "planned", !.revision = @ + 1] \in PlanRow
        BY <2>0 DEF PlanRow, PlanStatus
      <4> QED BY <3>1, <4>1, <1>t DEF ConfirmPlan
    <3>2. CASE IgnorePlan(p)
      <4>1. [plan[p] EXCEPT !.status = "ignored", !.revision = @ + 1] \in PlanRow
        BY <2>0 DEF PlanRow, PlanStatus
      <4> QED BY <3>2, <4>1, <1>t DEF IgnorePlan
    <3>3. CASE AliasPlan(p)
      <4>1. [plan[p] EXCEPT !.revision = @ + 1] \in PlanRow
        BY <2>0 DEF PlanRow
      <4> QED BY <3>3, <4>1, <1>t DEF AliasPlan
    <3>4. CASE PlanGoesStale(p)
      <4>1. [plan[p] EXCEPT !.current = FALSE] \in PlanRow
        BY <2>0 DEF PlanRow
      <4> QED BY <3>4, <4>1, <1>t DEF PlanGoesStale
    <3> QED BY <1>13, <3>1, <3>2, <3>3, <3>4
  <2> QED BY <1>13, <1>t, <2>1
          DEF ConfirmPlan, IgnorePlan, AliasPlan, PlanGoesStale, TypeOK, Scoped
<1>14. CASE Tick
  BY <1>14, <1>t DEF Tick, TypeOK, Scoped
<1>15. CASE UNCHANGED vars
  BY <1>15, <1>t DEF vars, TypeOK, Scoped
<1> QED
  BY <1>1, <1>2, <1>3, <1>4, <1>5, <1>6, <1>8, <1>9, <1>10, <1>11, <1>12,
     <1>13, <1>14, <1>15 DEF Next

\* Every variable keeps its type, and every operation, call and lease refers
\* to a plan, key or operation that exists: no interleaving of create(),
\* claim() and the rest leaves a dangling row.
THEOREM TypeCorrect == Spec => []TypeOK
<1>1. Spec => [](TypeOK /\ Scoped)
  BY TypeInit, TypeStep, PTL DEF Spec
<1> QED BY <1>1, PTL

-----------------------------------------------------------------------------
(***************************************************************************)
(* What one step may do to one operation row: nothing, or exactly what one *)
(* of the UPDATE and INSERT statements does under its WHERE clause.        *)
(***************************************************************************)
Claims(o) ==
  \E c \in Clients :
    /\ Claimable(op[o], call[c].revision, call[c].at)
    /\ op'[o] = ClaimedRow(op[o], issued + 1, call[c].at)
    /\ issued' = issued + 1
    /\ dirty' = dirty

Inserts(o) ==
  /\ op[o].status = "absent"
  /\ \E c \in Clients : CreateInsert(c)
  /\ \E r \in Nat : op'[o] = QueuedRow(r)
  /\ issued' = issued /\ dirty' = dirty

Renews(o) ==
  /\ op[o].status = "organizing" /\ op'[o] = RenewedRow(op[o], now)
  /\ issued' = issued /\ dirty' = dirty

Finishes(o) ==
  /\ op[o].status = "organizing"
  /\ issued' = issued
  /\ \/ /\ \E s \in {"failed", "uncertain"} : op'[o] = FinishedRow(op[o], s)
        /\ dirty' = dirty
     \/ op'[o] = FinishedRow(op[o], "organized") /\ dirty' = dirty \cup {o}

Reopens(o) ==
  /\ \/ op[o].status = "planned" /\ op'[o] = CancelledRow(op[o])
     \/ op[o].status = "failed" /\ op'[o] = RetriedRow(op[o])
  /\ issued' = issued /\ dirty' = dirty

Keeps(o) ==
  /\ op'[o] = op[o]
  /\ issued' \in {issued, issued + 1}
  /\ o \in dirty' <=> o \in dirty

RowStep(o) ==
  \/ Keeps(o) \/ Claims(o) \/ Inserts(o) \/ Renews(o) \/ Finishes(o)
  \/ Reopens(o)

\* What a step does to a row.
LEMMA RowSteps ==
  ASSUME TypeOK, Scoped, [Next]_vars, NEW o \in Operations
  PROVE  RowStep(o)
<1>t. /\ op \in [Operations -> OperationRow]
      /\ issued \in Nat
      /\ call \in [Clients -> CallRecord]
      /\ held \in [Clients -> Lease]
  BY DEF TypeOK
<1> DEFINE Same == op' = op /\ issued' = issued /\ dirty' = dirty
<1>0. Same => RowStep(o)
  BY DEF RowStep, Keeps
<1>1. ASSUME NEW c \in Clients, CreateInsert(c) PROVE RowStep(o)
  <2>1. call[c].revision \in Nat
    BY <1>t DEF CallRecord
  <2>2. /\ op' = op \/ \E q \in Operations :
             /\ op[q].status = "absent"
             /\ op' = [op EXCEPT ![q] = QueuedRow(call[c].revision)]
        /\ issued' = issued /\ dirty' = dirty
    BY <1>1 DEF CreateInsert
  <2> QED BY <1>1, <1>t, <2>1, <2>2 DEF RowStep, Keeps, Inserts
<1>2. ASSUME NEW c \in Clients, ClaimWrite(c) PROVE RowStep(o)
  <2>1. \/ Same
        \/ /\ Claimable(op[call[c].op], call[c].revision, call[c].at)
           /\ op' = [op EXCEPT ![call[c].op] =
                             ClaimedRow(@, issued + 1, call[c].at)]
           /\ issued' = issued + 1 /\ dirty' = dirty
    BY <1>2 DEF ClaimWrite
  <2> QED BY <1>0, <1>t, <2>1 DEF RowStep, Keeps, Claims
<1>3. ASSUME NEW c \in Clients, RenewLease(c) PROVE RowStep(o)
  <2>1. /\ op[held[c].op].status = "organizing"
        /\ op' = [op EXCEPT ![held[c].op] = RenewedRow(@, now)]
        /\ issued' = issued /\ dirty' = dirty
    BY <1>3 DEF RenewLease, HoldsLive, OwnsLive, Owns
  <2> QED BY <1>t, <2>1 DEF RowStep, Keeps, Renews
<1>4. ASSUME NEW c \in Clients,
             \/ \E status \in {"failed", "uncertain"} : Finish(c, status)
             \/ FinishAfterLeaseLoss(c)
      PROVE  RowStep(o)
  <2>1. /\ op[held[c].op].status = "organizing"
        /\ \E s \in {"failed", "uncertain"} :
             op' = [op EXCEPT ![held[c].op] = FinishedRow(@, s)]
        /\ issued' = issued /\ dirty' = dirty
    BY <1>4 DEF Finish, FinishAfterLeaseLoss, HoldsLive, OwnsLive, Owns
  <2> QED BY <1>t, <2>1 DEF RowStep, Keeps, Finishes
<1>5. ASSUME NEW c \in Clients, CompleteOrganized(c) PROVE RowStep(o)
  <2>1. /\ op[held[c].op].status = "organizing"
        /\ op' = [op EXCEPT ![held[c].op] = FinishedRow(@, "organized")]
        /\ issued' = issued /\ dirty' = dirty \cup {held[c].op}
    BY <1>5 DEF CompleteOrganized, HoldsLive, OwnsLive, Owns
  <2> QED BY <1>t, <2>1 DEF RowStep, Keeps, Finishes
<1>6. ASSUME NEW q \in Operations, CancelOperation(q) \/ RetryOperation(q)
      PROVE  RowStep(o)
  <2>1. /\ \/ /\ op[q].status = "planned"
              /\ op' = [op EXCEPT ![q] = CancelledRow(@)]
           \/ /\ op[q].status = "failed"
              /\ op' = [op EXCEPT ![q] = RetriedRow(@)]
        /\ issued' = issued /\ dirty' = dirty
    BY <1>6 DEF CancelOperation, RetryOperation, Cancellable, Retryable
  <2> QED BY <1>t, <2>1 DEF RowStep, Keeps, Reopens
<1>7. ASSUME NEW c \in Clients,
             \/ \E p \in Plans, k \in Keys : CreateRead(c, p, k)
             \/ \E q \in Operations : ClaimRead(c, q)
             \/ InvalidateWrite(c)
             \/ Crash(c)
      PROVE  RowStep(o)
  BY <1>0, <1>7 DEF CreateRead, ClaimRead, InvalidateWrite, Crash
<1>8. ASSUME NEW p \in Plans,
             ConfirmPlan(p) \/ IgnorePlan(p) \/ AliasPlan(p) \/ PlanGoesStale(p)
      PROVE  RowStep(o)
  BY <1>0, <1>8 DEF ConfirmPlan, IgnorePlan, AliasPlan, PlanGoesStale
<1>9. CASE Tick \/ UNCHANGED vars
  BY <1>0, <1>9 DEF Tick, vars
<1> QED
  BY <1>1, <1>2, <1>3, <1>4, <1>5, <1>6, <1>7, <1>8, <1>9 DEF Next

\* Times and tokens are numbers.
LEMMA ClockTypes ==
  ASSUME TypeOK
  PROVE  /\ now \in Nat /\ issued \in Nat /\ issued + 1 \in Nat
         /\ \A c \in Clients : call[c].at \in Nat
BY DEF TypeOK, CallRecord

\* The types hold in every state.
LEMMA Typed == Spec => [](TypeOK /\ Scoped)
BY TypeInit, TypeStep, PTL DEF Spec

-----------------------------------------------------------------------------
(***************************************************************************)
(* The life of one row.                                                    *)
(***************************************************************************)

\* ORGANIZED, UNCERTAIN and CANCELLED are final: no WHERE clause of the
\* service accepts such a row, so no client, however stale, reopens it.
THEOREM TerminalRowsAreFinal == Spec => TerminalIsFinal
<1>1. ASSUME TypeOK, Scoped, [Next]_vars,
             NEW o \in Operations,
             op[o].status \in {"organized", "uncertain", "cancelled"}
      PROVE  op'[o] = op[o]
  BY <1>1, RowSteps
     DEF RowStep, Keeps, Claims, Claimable, Inserts, Renews, Finishes, Reopens
<1>2. TypeOK /\ Scoped /\ [Next]_vars =>
        [\A o \in Operations :
           op[o].status \in {"organized", "uncertain", "cancelled"}
           => op'[o] = op[o]]_vars
  BY <1>1
<1> QED BY <1>2, Typed, PTL DEF Spec, TerminalIsFinal

\* The lease columns are set exactly while the operation is ORGANIZING, and
\* they hold a token that was issued: finishing clears them, and no statement
\* sets them without a claim.
THEOREM LeaseColumnsFollowStatus == Spec => []LeaseColumns
<1>1. Init => LeaseColumns
  BY DEF Init, LeaseColumns, AbsentRow, NoToken, NoExpiry
<1>2. TypeOK /\ Scoped /\ LeaseColumns /\ [Next]_vars => LeaseColumns'
  <2> SUFFICES ASSUME TypeOK, Scoped, LeaseColumns, [Next]_vars,
                      NEW o \in Operations
               PROVE  /\ (op'[o].status = "organizing") <=> (op'[o].token # NoToken)
                      /\ (op'[o].status = "organizing") <=> (op'[o].expires # NoExpiry)
                      /\ op'[o].token <= issued'
    BY DEF LeaseColumns
  <2>t. /\ op[o] \in OperationRow /\ issued \in Nat /\ now \in Nat
        /\ (op[o].status = "organizing") <=> (op[o].token # NoToken)
        /\ (op[o].status = "organizing") <=> (op[o].expires # NoExpiry)
        /\ op[o].token <= issued
        /\ LeaseDuration \in Nat /\ LeaseDuration > 0
    BY LeaseDurationAssumption DEF TypeOK, LeaseColumns
  <2>1. CASE Keeps(o)
    BY <2>1, <2>t DEF Keeps, OperationRow
  <2>2. CASE Claims(o)
    <3>1. PICK c \in Clients :
            /\ op'[o] = ClaimedRow(op[o], issued + 1, call[c].at)
            /\ issued' = issued + 1
      BY <2>2 DEF Claims
    <3>2. call[c].at + LeaseDuration > 0 /\ issued + 1 > 0
      BY <2>t DEF TypeOK, CallRecord
    <3> QED BY <3>1, <3>2, <2>t DEF ClaimedRow, OperationRow, NoToken, NoExpiry
  <2>3. CASE Inserts(o)
    BY <2>3, <2>t, RowColumns DEF Inserts, NoToken, NoExpiry
  <2>4. CASE Renews(o)
    <3>1. now + LeaseDuration > 0
      BY <2>t
    <3> QED BY <2>4, <2>t, <3>1 DEF Renews, RenewedRow, OperationRow, NoToken, NoExpiry
  <2>5. CASE Finishes(o)
    BY <2>5, <2>t, RowColumns DEF Finishes, OperationStatus, NoToken, NoExpiry
  <2>6. CASE Reopens(o)
    BY <2>6, <2>t, RowColumns DEF Reopens
  <2> QED BY <2>1, <2>2, <2>3, <2>4, <2>5, <2>6, RowSteps DEF RowStep
<1> QED BY <1>1, <1>2, Typed, PTL DEF Spec

\* Every change of a row raises its revision by one, so a client that compares
\* revisions notices every change.
THEOREM ChangesAreRevisions == Spec => EveryChangeIsARevision
<1>1. Init => AbsentIsEmpty
  BY DEF Init, AbsentIsEmpty
<1>2. TypeOK /\ Scoped /\ AbsentIsEmpty /\ [Next]_vars => AbsentIsEmpty'
  <2> SUFFICES ASSUME TypeOK, Scoped, AbsentIsEmpty, [Next]_vars,
                      NEW o \in Operations, op'[o].status = "absent"
               PROVE  op'[o] = AbsentRow
    BY DEF AbsentIsEmpty
  <2>t. op[o] \in OperationRow
    BY DEF TypeOK
  <2>1. op'[o] = op[o]
    <3>1. CASE Keeps(o)
      BY <3>1 DEF Keeps
    <3>2. CASE Claims(o)
      BY <3>2, <2>t, RowColumns, ClockTypes DEF Claims
    <3>3. CASE Inserts(o)
      BY <3>3, RowColumns DEF Inserts
    <3>4. CASE Renews(o)
      BY <3>4, <2>t, RowColumns, ClockTypes DEF Renews
    <3>5. CASE Finishes(o)
      BY <3>5, <2>t, RowColumns DEF Finishes, OperationStatus
    <3>6. CASE Reopens(o)
      BY <3>6, <2>t, RowColumns DEF Reopens
    <3> QED BY <3>1, <3>2, <3>3, <3>4, <3>5, <3>6, RowSteps DEF RowStep
  <2> QED BY <2>1 DEF AbsentIsEmpty
<1>3. Spec => [](TypeOK /\ Scoped /\ AbsentIsEmpty)
  BY <1>1, <1>2, Typed, PTL DEF Spec
<1>4. ASSUME TypeOK, Scoped, AbsentIsEmpty, [Next]_vars,
             NEW o \in Operations, op'[o] # op[o]
      PROVE  op'[o].revision = op[o].revision + 1
  <2>t. op[o] \in OperationRow
    BY <1>4 DEF TypeOK
  <2>1. CASE Inserts(o)
    <3>1. op[o].revision = 0
      BY <1>4, <2>1 DEF Inserts, AbsentIsEmpty, AbsentRow
    <3> QED BY <2>1, <3>1, RowColumns DEF Inserts
  <2>2. CASE Claims(o) \/ Renews(o)
    BY <1>4, <2>2, <2>t, RowColumns, ClockTypes DEF Claims, Renews
  <2>3. CASE Finishes(o)
    BY <2>3, <2>t, RowColumns DEF Finishes, OperationStatus
  <2>4. CASE Reopens(o)
    BY <2>4, <2>t, RowColumns DEF Reopens
  <2> QED BY <1>4, <2>1, <2>2, <2>3, <2>4, RowSteps DEF RowStep, Keeps
<1>5. TypeOK /\ Scoped /\ AbsentIsEmpty /\ [Next]_vars =>
        [\A o \in Operations :
           op'[o] # op[o] => op'[o].revision = op[o].revision + 1]_vars
  BY <1>4
<1> QED BY <1>3, <1>5, PTL DEF Spec, EveryChangeIsARevision

-----------------------------------------------------------------------------
(***************************************************************************)
(* Leases.                                                                 *)
(***************************************************************************)

\* A lease changes hands only after it has run out: claim() compares the
\* expiry with a clock it read before its UPDATE, which can only be earlier.
THEOREM TakeoverNeedsExpiry == Spec => TakeoverOnlyAfterExpiry
<1>1. Init => CallsAreInThePast
  BY DEF Init, CallsAreInThePast, Idle
<1>2. TypeOK /\ Scoped /\ CallsAreInThePast /\ [Next]_vars => CallsAreInThePast'
  <2> SUFFICES ASSUME TypeOK, Scoped, CallsAreInThePast, [Next]_vars,
                      NEW d \in Clients
               PROVE  call'[d].at <= now'
    BY DEF CallsAreInThePast
  <2>t. call \in [Clients -> CallRecord] /\ now \in Nat /\ call[d].at <= now
    BY DEF TypeOK, CallsAreInThePast
  <2> DEFINE Writes(c) ==
               \E r \in CallRecord :
                 r.at \in {0, now} /\ call' = [call EXCEPT ![c] = r]
  <2>1. \/ call' = call /\ now' \in {now, now + 1}
        \/ now' = now /\ \E c \in Clients : Writes(c)
    <3>1. ASSUME NEW c \in Clients, NEW p \in Plans, NEW k \in Keys,
                 CreateRead(c, p, k)
          PROVE  now' = now /\ Writes(c)
      <4>1. plan[p].revision \in Nat
        BY DEF TypeOK, PlanRow
      <4> QED BY <3>1, <4>1, CallTypes DEF CreateRead
    <3>2. ASSUME NEW c \in Clients, NEW o \in Operations, ClaimRead(c, o)
          PROVE  now' = now /\ Writes(c)
      <4>1. op[o].revision \in Nat /\ scope[o].plan \in Plans
        BY <3>2 DEF TypeOK, OperationRow, Scoped, ClaimRead
      <4>2. plan[scope[o].plan].revision \in Nat
        BY <4>1 DEF TypeOK, PlanRow
      <4> QED BY <2>t, <3>2, <4>1, <4>2, CallTypes DEF ClaimRead
    <3>3. ASSUME NEW c \in Clients,
                 CreateInsert(c) \/ ClaimWrite(c) \/ InvalidateWrite(c) \/ Crash(c)
          PROVE  now' = now /\ Writes(c)
      <4>1. Idle \in CallRecord /\ Idle.at = 0
        BY IdleType DEF Idle
      <4> QED BY <3>3, <4>1 DEF CreateInsert, ClaimWrite, InvalidateWrite, Crash
    <3>4. ASSUME NEW c \in Clients,
                 \/ RenewLease(c) \/ FinishAfterLeaseLoss(c) \/ CompleteOrganized(c)
                 \/ \E status \in {"failed", "uncertain"} : Finish(c, status)
          PROVE  call' = call /\ now' = now
      BY <3>4 DEF RenewLease, Finish, FinishAfterLeaseLoss, CompleteOrganized
    <3>5. ASSUME NEW o \in Operations, CancelOperation(o) \/ RetryOperation(o)
          PROVE  call' = call /\ now' = now
      BY <3>5 DEF CancelOperation, RetryOperation
    <3>6. ASSUME NEW p \in Plans,
                 \/ ConfirmPlan(p) \/ IgnorePlan(p) \/ AliasPlan(p)
                 \/ PlanGoesStale(p)
          PROVE  call' = call /\ now' = now
      BY <3>6 DEF ConfirmPlan, IgnorePlan, AliasPlan, PlanGoesStale
    <3>7. CASE Tick \/ UNCHANGED vars
      BY <3>7 DEF Tick, vars
    <3> HIDE DEF Writes
    <3> QED BY <3>1, <3>2, <3>3, <3>4, <3>5, <3>6, <3>7 DEF Next
  <2>2. ASSUME call' = call, now' \in {now, now + 1} PROVE call'[d].at <= now'
    BY <2>2, <2>t, ClockTypes
  <2>3. ASSUME NEW c \in Clients, Writes(c), now' = now PROVE call'[d].at <= now'
    BY <2>3, <2>t
  <2> QED BY <2>1, <2>2, <2>3
<1>3. Spec => [](TypeOK /\ Scoped /\ CallsAreInThePast)
  BY <1>1, <1>2, Typed, PTL DEF Spec
<1>4. ASSUME TypeOK, Scoped, CallsAreInThePast, [Next]_vars,
             NEW o \in Operations,
             op[o].status = "organizing", op'[o].status = "organizing",
             op'[o].token # op[o].token
      PROVE  op[o].expires <= now
  <2>t. op[o] \in OperationRow /\ now \in Nat
    BY <1>4 DEF TypeOK
  <2>1. CASE Claims(o)
    <3>1. PICK c \in Clients : op[o].expires <= call[c].at
      BY <1>4, <2>1 DEF Claims, Claimable, LeaseRunOut
    <3>2. call[c].at <= now /\ call[c].at \in Nat /\ op[o].expires \in Nat
      BY <1>4, <2>t, ClockTypes DEF CallsAreInThePast, OperationRow
    <3> QED BY <2>t, <3>1, <3>2
  <2>2. CASE Finishes(o)
    BY <1>4, <2>2, <2>t, RowColumns DEF Finishes, OperationStatus
  <2> QED BY <1>4, <2>t, <2>1, <2>2, RowSteps, RowColumns
          DEF RowStep, Keeps, Inserts, Renews, Reopens
<1>5. TypeOK /\ Scoped /\ CallsAreInThePast /\ [Next]_vars =>
        [\A o \in Operations :
           (/\ op[o].status = "organizing" /\ op'[o].status = "organizing"
            /\ op'[o].token # op[o].token)
           => op[o].expires <= now]_vars
  BY <1>4
<1> QED BY <1>3, <1>5, PTL DEF Spec, TakeoverOnlyAfterExpiry

\* What one step may do to the leases that clients hold: only a claim hands
\* one out, and its token was never issued before.
LEMMA LeaseSteps ==
  ASSUME TypeOK, Scoped, [Next]_vars
  PROVE  \/ held' = held /\ issued' \in {issued, issued + 1}
         \/ \E c \in Clients :
              /\ \E lease \in Lease :
                   /\ held' = [held EXCEPT ![c] = lease]
                   /\ \/ lease = NoLease /\ issued' = issued
                      \/ /\ held[c] # NoLease /\ lease.token = held[c].token
                         /\ issued' = issued
                      \/ lease.token = issued + 1 /\ issued' = issued + 1
<1>t. held \in [Clients -> Lease] /\ issued \in Nat
  BY DEF TypeOK
<1>1. ASSUME NEW c \in Clients, ClaimWrite(c)
      PROVE  \/ held' = held /\ issued' = issued
             \/ \E lease \in Lease :
                  /\ held' = [held EXCEPT ![c] = lease]
                  /\ lease.token = issued + 1 /\ issued' = issued + 1
  <2>1. call[c].op \in Operations /\ call[c].revision + 1 \in Nat /\ issued + 1 \in Nat
    BY <1>1, <1>t DEF ClaimWrite, Scoped, TypeOK, CallRecord
  <2>2. [op |-> call[c].op, revision |-> call[c].revision + 1, token |-> issued + 1]
          \in Lease
    BY <2>1 DEF Lease
  <2> QED BY <1>1, <2>2 DEF ClaimWrite
<1>2. ASSUME NEW c \in Clients, RenewLease(c)
      PROVE  \/ held' = held /\ issued' = issued
             \/ \E lease \in Lease :
                  /\ held' = [held EXCEPT ![c] = lease]
                  /\ held[c] # NoLease /\ lease.token = held[c].token
                  /\ issued' = issued
  <2>1. [held[c] EXCEPT !.revision = @ + 1] \in Lease
        /\ [held[c] EXCEPT !.revision = @ + 1].token = held[c].token
    BY <1>t DEF Lease
  <2> QED BY <1>2, <1>t, <2>1 DEF RenewLease, HoldsLive
<1>3. ASSUME NEW c \in Clients,
             \/ FinishAfterLeaseLoss(c) \/ CompleteOrganized(c) \/ Crash(c)
             \/ \E status \in {"failed", "uncertain"} : Finish(c, status)
      PROVE  held' = [held EXCEPT ![c] = NoLease] /\ issued' = issued
  BY <1>3 DEF Finish, FinishAfterLeaseLoss, CompleteOrganized, Crash
<1>4. ASSUME NEW c \in Clients,
             \/ \E p \in Plans, k \in Keys : CreateRead(c, p, k)
             \/ \E q \in Operations : ClaimRead(c, q)
             \/ CreateInsert(c) \/ InvalidateWrite(c)
      PROVE  held' = held /\ issued' = issued
  BY <1>4 DEF CreateRead, ClaimRead, CreateInsert, InvalidateWrite
<1>5. ASSUME NEW o \in Operations, CancelOperation(o) \/ RetryOperation(o)
      PROVE  held' = held /\ issued' = issued
  BY <1>5 DEF CancelOperation, RetryOperation
<1>6. ASSUME NEW p \in Plans,
             ConfirmPlan(p) \/ IgnorePlan(p) \/ AliasPlan(p) \/ PlanGoesStale(p)
      PROVE  held' = held /\ issued' = issued
  BY <1>6 DEF ConfirmPlan, IgnorePlan, AliasPlan, PlanGoesStale
<1>7. CASE Tick \/ UNCHANGED vars
  BY <1>7 DEF Tick, vars
<1> QED BY <1>1, <1>2, <1>3, <1>4, <1>5, <1>6, <1>7, IdleType DEF Next

\* A token is handed out once, and only together with the row that names it.
LEMMA Fenced == Spec => []TokensAreFenced
<1>1. Init => TokensAreFenced
  BY DEF Init, TokensAreFenced
<1>2. TypeOK /\ Scoped /\ TokensAreFenced /\ [Next]_vars => TokensAreFenced'
  <2> SUFFICES ASSUME TypeOK, Scoped, TokensAreFenced, [Next]_vars
               PROVE  TokensAreFenced'
    OBVIOUS
  <2>t. held \in [Clients -> Lease] /\ issued \in Nat
    BY DEF TypeOK
  <2>1. \A d \in Clients : held[d].token \in Nat
    BY <2>t DEF Lease
  <2>2. CASE held' = held /\ issued' \in {issued, issued + 1}
    BY <2>2, <2>t, <2>1 DEF TokensAreFenced
  <2>3. ASSUME NEW c \in Clients, NEW lease \in Lease,
               held' = [held EXCEPT ![c] = lease],
               \/ lease = NoLease /\ issued' = issued
               \/ /\ held[c] # NoLease /\ lease.token = held[c].token
                  /\ issued' = issued
               \/ lease.token = issued + 1 /\ issued' = issued + 1
        PROVE  TokensAreFenced'
    <3>1. held'[c] = lease /\ \A d \in Clients \ {c} : held'[d] = held[d]
      BY <2>3, <2>t
    <3>2. \A d \in Clients : held'[d] # NoLease => held'[d].token \in 1..issued'
      BY <2>3, <2>t, <2>1, <3>1 DEF TokensAreFenced
    <3>3. \A d \in Clients \ {c} :
            held'[d] # NoLease /\ lease # NoLease => held'[d].token # lease.token
      BY <2>3, <2>t, <2>1, <3>1 DEF TokensAreFenced
    <3> QED BY <3>1, <3>2, <3>3 DEF TokensAreFenced
  <2> QED BY <2>2, <2>3, LeaseSteps
<1> QED BY <1>1, <1>2, Typed, PTL DEF Spec

\* Two clients never hold leases that the service would both accept: tokens
\* are handed out once, so the row can name at most one of them.
THEOREM SingleWriter == Spec => []OneWriter
<1>1. TokensAreFenced => OneWriter
  BY DEF TokensAreFenced, OneWriter, Owns
<1> QED BY <1>1, Fenced, PTL

-----------------------------------------------------------------------------
(***************************************************************************)
(* Operations, their plans and the outbox.                                 *)
(***************************************************************************)

\* The outbox holds the events of exactly the organized operations: the one
\* commit that makes an operation ORGANIZED carries its events, and no other
\* statement touches either side.
THEOREM OutboxMatchesOperations == Spec => []DirtyIffOrganized
<1>1. Init => DirtyIffOrganized
  BY DEF Init, DirtyIffOrganized, AbsentRow
<1>2. TypeOK /\ Scoped /\ DirtyIffOrganized /\ [Next]_vars => DirtyIffOrganized'
  <2> SUFFICES ASSUME TypeOK, Scoped, DirtyIffOrganized, [Next]_vars,
                      NEW o \in Operations
               PROVE  o \in dirty' <=> op'[o].status = "organized"
    BY DEF DirtyIffOrganized
  <2>t. op[o] \in OperationRow /\ (o \in dirty <=> op[o].status = "organized")
    BY DEF TypeOK, DirtyIffOrganized
  <2>1. CASE Keeps(o)
    BY <2>1, <2>t DEF Keeps
  <2>2. CASE Claims(o)
    BY <2>2, <2>t, RowColumns, ClockTypes DEF Claims, Claimable
  <2>3. CASE Inserts(o)
    BY <2>3, <2>t, RowColumns DEF Inserts
  <2>4. CASE Renews(o)
    BY <2>4, <2>t, RowColumns, ClockTypes DEF Renews
  <2>5. CASE Finishes(o)
    BY <2>5, <2>t, RowColumns DEF Finishes, OperationStatus
  <2>6. CASE Reopens(o)
    BY <2>6, <2>t, RowColumns DEF Reopens
  <2> QED BY <2>1, <2>2, <2>3, <2>4, <2>5, <2>6, RowSteps DEF RowStep
<1> QED BY <1>1, <1>2, Typed, PTL DEF Spec

\* A row appears only by CreateInsert, and nothing else touches its plan or
\* its idempotency key.
LEMMA ScopeSteps ==
  ASSUME TypeOK, Scoped, [Next]_vars, ~\E c \in Clients : CreateInsert(c)
  PROVE  /\ scope' = scope
         /\ \A o \in Operations : op'[o].status # "absent" => op[o].status # "absent"
<1>1. scope' = scope
  BY DEF Next, vars, CreateRead, ClaimRead, ClaimWrite, InvalidateWrite, RenewLease,
         Finish, FinishAfterLeaseLoss, CompleteOrganized, Crash, CancelOperation,
         RetryOperation, ConfirmPlan, IgnorePlan, AliasPlan, PlanGoesStale, Tick
<1>2. ASSUME NEW o \in Operations, op[o].status = "absent"
      PROVE  op'[o].status = "absent"
  BY <1>2, RowSteps
     DEF RowStep, Keeps, Claims, Claimable, Inserts, Renews, Finishes, Reopens
<1> QED BY <1>1, <1>2

\* A plan is queued at most once, and so is an idempotency key, however many
\* create() calls passed their checks before the first of them inserted.
THEOREM ScopesAreUnique == Spec => []OneOperationPerScope
<1>1. Init => OneOperationPerScope
  BY DEF Init, OneOperationPerScope, AbsentRow
<1>2. TypeOK /\ Scoped /\ OneOperationPerScope /\ [Next]_vars => OneOperationPerScope'
  <2> SUFFICES ASSUME TypeOK, Scoped, OneOperationPerScope, [Next]_vars
               PROVE  OneOperationPerScope'
    OBVIOUS
  <2>1. CASE ~\E c \in Clients : CreateInsert(c)
    BY <2>1, ScopeSteps DEF OneOperationPerScope
  <2>2. ASSUME NEW c \in Clients, CreateInsert(c) PROVE OneOperationPerScope'
    <3>t. op \in [Operations -> OperationRow] /\ scope \in [Operations -> ScopeRow]
      BY DEF TypeOK
    <3>1. CASE op' = op /\ scope' = scope
      BY <3>1 DEF OneOperationPerScope
    <3>2. ASSUME NEW o \in Operations,
                 UniqueScope(call[c].plan, call[c].key),
                 op' = [op EXCEPT ![o] = QueuedRow(call[c].revision)],
                 scope' = [scope EXCEPT ![o] =
                             [plan |-> call[c].plan, key |-> call[c].key]]
          PROVE  OneOperationPerScope'
      <4>1. scope'[o] = [plan |-> call[c].plan, key |-> call[c].key]
        BY <3>2, <3>t
      <4>2. \A q \in Operations \ {o} :
              /\ op'[q] = op[q] /\ scope'[q] = scope[q]
              /\ scope'[q].plan # scope'[o].plan
              /\ scope'[q].key # scope'[o].key
        BY <3>2, <3>t, <4>1 DEF UniqueScope, ExistsForKey, ExistsForPlan
      <4> QED BY <4>2 DEF OneOperationPerScope
    <3> QED BY <2>2, <3>1, <3>2 DEF CreateInsert
  <2> QED BY <2>1, <2>2
<1> QED BY <1>1, <1>2, Typed, PTL DEF Spec

\* No reviewer and no check puts a plan back to needs_review.
LEMMA PlanSteps ==
  ASSUME TypeOK, Scoped, [Next]_vars, NEW p \in Plans,
         plan'[p].status = "needs_review"
  PROVE  plan[p].status = "needs_review"
<1>t. plan \in [Plans -> PlanRow]
  BY DEF TypeOK
<1>1. ASSUME NEW q \in Plans,
             ConfirmPlan(q) \/ IgnorePlan(q) \/ AliasPlan(q) \/ PlanGoesStale(q)
      PROVE  plan[p].status = "needs_review"
  <2>1. plan[q] \in PlanRow
    BY <1>t
  <2>2. \E row \in {[plan[q] EXCEPT !.status = "planned", !.revision = @ + 1],
                    [plan[q] EXCEPT !.status = "ignored", !.revision = @ + 1],
                    [plan[q] EXCEPT !.revision = @ + 1],
                    [plan[q] EXCEPT !.current = FALSE]} :
          plan' = [plan EXCEPT ![q] = row]
    BY <1>1, <1>t DEF ConfirmPlan, IgnorePlan, AliasPlan, PlanGoesStale
  <2> QED BY <2>1, <2>2, <1>t DEF PlanRow
<1>2. ASSUME NEW c \in Clients, InvalidateWrite(c)
      PROVE  plan[p].status = "needs_review"
  BY <1>2, <1>t DEF InvalidateWrite, PlanRow
<1>3. CASE plan' = plan
  BY <1>3
<1> QED
  BY <1>1, <1>2, <1>3
     DEF Next, vars, CreateRead, CreateInsert, ClaimRead, ClaimWrite, RenewLease,
         Finish, FinishAfterLeaseLoss, CompleteOrganized, Crash, CancelOperation,
         RetryOperation, Tick

\* A client is inside of create() only after CreateRead saw a planned plan.
LEMMA CreatingSteps ==
  ASSUME TypeOK, Scoped, [Next]_vars, NEW c \in Clients,
         call'[c].pc = "creating", call'[c] # call[c]
  PROVE  /\ call'[c].plan \in Plans
         /\ plan[call'[c].plan].status = "planned"
<1>t. call \in [Clients -> CallRecord]
  BY DEF TypeOK
<1>1. ASSUME NEW d \in Clients, NEW p \in Plans, NEW k \in Keys,
             CreateRead(d, p, k)
      PROVE  call'[c].plan \in Plans /\ plan[call'[c].plan].status = "planned"
  <2>1. plan[p].revision \in Nat
    BY DEF TypeOK, PlanRow
  <2> QED BY <1>1, <1>t, <2>1, CallTypes DEF CreateRead, PlannedAndCurrent
<1>2. ASSUME NEW d \in Clients, NEW o \in Operations, ClaimRead(d, o)
      PROVE  FALSE
  <2>1. op[o].revision \in Nat /\ now \in Nat /\ scope[o].plan \in Plans
    BY <1>2 DEF TypeOK, OperationRow, Scoped, ClaimRead
  <2>2. plan[scope[o].plan].revision \in Nat
    BY <2>1 DEF TypeOK, PlanRow
  <2> QED BY <1>2, <1>t, <2>1, <2>2, CallTypes DEF ClaimRead
<1>3. ASSUME NEW d \in Clients,
             CreateInsert(d) \/ ClaimWrite(d) \/ InvalidateWrite(d) \/ Crash(d)
      PROVE  FALSE
  BY <1>3, <1>t DEF CreateInsert, ClaimWrite, InvalidateWrite, Crash, Idle
<1>4. CASE call' = call
  BY <1>4
<1> QED
  BY <1>1, <1>2, <1>3, <1>4
     DEF Next, vars, RenewLease, Finish, FinishAfterLeaseLoss, CompleteOrganized,
         CancelOperation, RetryOperation, ConfirmPlan, IgnorePlan, AliasPlan,
         PlanGoesStale, Tick

\* No operation exists for a plan that nobody confirmed, although create()
\* inserts for a plan that it read in an earlier step.
THEOREM QueuedPlansAreConfirmed == Spec => []QueuedPlanWasConfirmed
<1>1. Init => CreatingIsConfirmed /\ QueuedPlanWasConfirmed
  BY DEF Init, CreatingIsConfirmed, QueuedPlanWasConfirmed, AbsentRow, Idle
<1>2. /\ TypeOK /\ Scoped /\ CreatingIsConfirmed /\ QueuedPlanWasConfirmed
      /\ [Next]_vars
      => CreatingIsConfirmed' /\ QueuedPlanWasConfirmed'
  <2> SUFFICES ASSUME TypeOK, Scoped, CreatingIsConfirmed, QueuedPlanWasConfirmed,
                      [Next]_vars
               PROVE  CreatingIsConfirmed' /\ QueuedPlanWasConfirmed'
    OBVIOUS
  <2>1. CreatingIsConfirmed'
    <3> SUFFICES ASSUME NEW c \in Clients, call'[c].pc = "creating"
                 PROVE  plan'[call'[c].plan].status # "needs_review"
      BY DEF CreatingIsConfirmed
    <3>1. /\ call'[c].plan \in Plans
          /\ plan[call'[c].plan].status # "needs_review"
      BY CreatingSteps DEF CreatingIsConfirmed, Scoped
    <3> QED BY <3>1, PlanSteps
  <2>2. QueuedPlanWasConfirmed'
    <3> SUFFICES ASSUME NEW o \in Operations, op'[o].status # "absent"
                 PROVE  plan'[scope'[o].plan].status # "needs_review"
      BY DEF QueuedPlanWasConfirmed
    <3>1. /\ scope'[o].plan \in Plans
          /\ plan[scope'[o].plan].status # "needs_review"
      <4>1. CASE ~\E c \in Clients : CreateInsert(c)
        BY <4>1, ScopeSteps DEF QueuedPlanWasConfirmed, Scoped
      <4>2. ASSUME NEW c \in Clients, CreateInsert(c)
            PROVE  /\ scope'[o].plan \in Plans
                   /\ plan[scope'[o].plan].status # "needs_review"
        BY <4>2 DEF CreateInsert, QueuedPlanWasConfirmed, CreatingIsConfirmed,
                    Scoped, TypeOK
      <4> QED BY <4>1, <4>2
    <3> QED BY <3>1, PlanSteps
  <2> QED BY <2>1, <2>2
<1> QED BY <1>1, <1>2, Typed, PTL DEF Spec

-----------------------------------------------------------------------------
(***************************************************************************)
(* The service implements LeasedJob.                                       *)
(***************************************************************************)

\* A client enters claim() without a lease and is given one only at its end.
LEMMA ClaimersStayFree == Spec => []ClaimersHoldNothing
<1>1. Init => ClaimersHoldNothing
  BY DEF Init, ClaimersHoldNothing
<1>2. TypeOK /\ Scoped /\ ClaimersHoldNothing /\ [Next]_vars => ClaimersHoldNothing'
  <2> SUFFICES ASSUME TypeOK, Scoped, ClaimersHoldNothing, [Next]_vars
               PROVE  ClaimersHoldNothing'
    OBVIOUS
  <2>t. call \in [Clients -> CallRecord] /\ held \in [Clients -> Lease]
    BY DEF TypeOK
  <2>1. ASSUME NEW c \in Clients, NEW o \in Operations, ClaimRead(c, o)
        PROVE  ClaimersHoldNothing'
    <3>1. held' = held /\ held[c] = NoLease /\ \E r : call' = [call EXCEPT ![c] = r]
      BY <2>1 DEF ClaimRead
    <3> QED BY <3>1, <2>t DEF ClaimersHoldNothing
  <2>2. ASSUME NEW c \in Clients, NEW p \in Plans, NEW k \in Keys, CreateRead(c, p, k)
        PROVE  ClaimersHoldNothing'
    <3>1. plan[p].revision \in Nat
      BY DEF TypeOK, PlanRow
    <3>2. /\ held' = held
          /\ \E r : r.pc # "claiming" /\ call' = [call EXCEPT ![c] = r]
      BY <2>2, <3>1, CallTypes DEF CreateRead
    <3> QED BY <3>2, <2>t DEF ClaimersHoldNothing
  <2>3. ASSUME NEW c \in Clients,
               \/ CreateInsert(c) \/ ClaimWrite(c) \/ InvalidateWrite(c) \/ Crash(c)
        PROVE  ClaimersHoldNothing'
    <3>1. /\ call' = [call EXCEPT ![c] = Idle]
          /\ \A d \in Clients \ {c} : held'[d] = held[d]
      BY <2>3, <2>t DEF CreateInsert, ClaimWrite, InvalidateWrite, Crash
    <3> QED BY <3>1, <2>t DEF ClaimersHoldNothing, Idle
  <2>4. ASSUME NEW c \in Clients,
               \/ RenewLease(c) \/ FinishAfterLeaseLoss(c) \/ CompleteOrganized(c)
               \/ \E status \in {"failed", "uncertain"} : Finish(c, status)
        PROVE  ClaimersHoldNothing'
    <3>1. /\ call' = call /\ call[c].pc = "idle"
          /\ \A d \in Clients \ {c} : held'[d] = held[d]
      BY <2>4, <2>t
         DEF RenewLease, Finish, FinishAfterLeaseLoss, CompleteOrganized, Idle
    <3> QED BY <3>1 DEF ClaimersHoldNothing
  <2>5. CASE call' = call /\ held' = held
    BY <2>5 DEF ClaimersHoldNothing
  <2> QED
    BY <2>1, <2>2, <2>3, <2>4, <2>5
       DEF Next, vars, CancelOperation, RetryOperation, ConfirmPlan, IgnorePlan,
           AliasPlan, PlanGoesStale, Tick
<1> QED BY <1>1, <1>2, Typed, PTL DEF Spec

\* A holder has a lease of its own, whose token is the row's.
LEMMA HolderHasToken ==
  \A o \in Operations, c \in Clients :
    Holds(c, o) => held[c] # NoLease /\ held[c].token = op[o].token
BY NoValuesAssumption DEF Holds, Owns, NoLease

\* Who holds a lease after a step has the token of the row.
LEMMA HolderHasTokenNext ==
  \A o \in Operations, c \in Clients :
    Holds(c, o)' => held'[c] # NoLease /\ held'[c].token = op'[o].token
BY NoValuesAssumption DEF Holds, Owns, NoLease

\* Who holds an operation is one client or nobody, so the mapping's choice is
\* no choice.
LEMMA HolderIsUnique ==
  ASSUME Scoped, TokensAreFenced, NEW o \in Operations
  PROVE  /\ \A c \in Clients : Holds(c, o) => holderMap[o] = c
         /\ (\A c \in Clients : ~Holds(c, o)) => holderMap[o] = Nobody
<1>1. \A c, d \in Clients : Holds(c, o) /\ Holds(d, o) => c = d
  BY HolderHasToken DEF TokensAreFenced
<1> QED BY <1>1 DEF holderMap

\* After a step at most one caller holds the lease of an operation.
LEMMA HolderIsUniqueNext ==
  ASSUME Scoped', TokensAreFenced', NEW o \in Operations
  PROVE  /\ \A c \in Clients : Holds(c, o)' => holderMap'[o] = c
         /\ (\A c \in Clients : ~Holds(c, o)') => holderMap'[o] = Nobody
<1>1. \A c, d \in Clients : Holds(c, o)' /\ Holds(d, o)' => c = d
  BY HolderHasTokenNext DEF TokensAreFenced
<1> QED BY <1>1 DEF holderMap

\* The first state, and each step, of the service is one of LeasedJob.
LEMMA JobInitially == Init => Job!JobInit
BY DEF Init, Job!JobInit, stateMap, holderMap, workingMap, Holds, Owns, AbsentRow,
       NoLease

\* Every step is a step of a job with a lease, or leaves it alone.
LEMMA JobSteps ==
  ASSUME TypeOK, Scoped, TokensAreFenced, ClaimersHoldNothing,
         Scoped', TokensAreFenced', [Next]_vars
  PROVE  [Job!JobNext]_(Job!jobVars)
<1>t. /\ op \in [Operations -> OperationRow] /\ held \in [Clients -> Lease]
      /\ call \in [Clients -> CallRecord] /\ issued \in Nat
  BY DEF TypeOK
<1>maps. /\ stateMap = [o \in Operations |-> op[o].status]
         /\ stateMap' = [o \in Operations |-> op'[o].status]
         /\ workingMap = [c \in Clients |-> held[c].op]
         /\ workingMap' = [c \in Clients |-> held'[c].op]
         /\ holderMap = [o \in Operations |-> holderMap[o]]
         /\ holderMap' = [o \in Operations |-> holderMap'[o]]
  BY DEF stateMap, workingMap, holderMap
<1>keep. ASSUME NEW o \in Operations, \A c \in Clients : Holds(c, o)' <=> Holds(c, o)
         PROVE  holderMap'[o] = holderMap[o]
  BY <1>keep, HolderIsUnique, HolderIsUniqueNext
<1>stutter. ASSUME \A o \in Operations : op'[o].status = op[o].status,
                   \A c \in Clients : held'[c].op = held[c].op,
                   \A o \in Operations, c \in Clients : Holds(c, o)' <=> Holds(c, o)
            PROVE  UNCHANGED Job!jobVars
  BY <1>stutter, <1>maps, <1>keep DEF Job!jobVars
<1>1. CASE op' = op /\ held' = held
  BY <1>1, <1>stutter DEF Holds
<1>2. ASSUME NEW c \in Clients, CreateInsert(c) PROVE [Job!JobNext]_(Job!jobVars)
  <2>1. CASE op' = op
    BY <1>2, <2>1, <1>1 DEF CreateInsert
  <2>2. ASSUME NEW o \in Operations, op[o].status = "absent",
               op' = [op EXCEPT ![o] = QueuedRow(call[c].revision)]
        PROVE  Job!Enqueue(o)
    <3>1. op'[o].status = "planned" /\ held' = held
      BY <1>2, <1>t, <2>2, RowColumns DEF CreateInsert, CallRecord
    <3>2. \A q \in Operations, d \in Clients : Holds(d, q)' <=> Holds(d, q)
      BY <1>t, <2>2, <3>1 DEF Holds, Owns
    <3> QED BY <1>t, <2>2, <3>1, <3>2, <1>maps, <1>keep DEF Job!Enqueue
  <2> QED BY <1>2, <2>1, <2>2 DEF CreateInsert, Job!JobNext
<1>3. ASSUME NEW c \in Clients, ClaimWrite(c) PROVE [Job!JobNext]_(Job!jobVars)
  <2>p. PICK o \in Operations : o = call[c].op
    BY <1>3 DEF ClaimWrite, Scoped
  <2>0. call[c].revision \in Nat /\ call[c].at \in Nat /\ held[c] = NoLease
    BY <1>3, <1>t DEF ClaimWrite, CallRecord, ClaimersHoldNothing
  <2>1. CASE op' = op /\ held' = held
    BY <1>1, <2>1
  <2>2. ASSUME Claimable(op[o], call[c].revision, call[c].at),
               op' = [op EXCEPT ![o] = ClaimedRow(@, issued + 1, call[c].at)],
               held' = [held EXCEPT ![c] =
                 [op |-> o, revision |-> call[c].revision + 1, token |-> issued + 1]]
        PROVE  Job!Acquire(o, c)
    <3>1. /\ op'[o].status = "organizing" /\ op'[o].token = issued + 1
          /\ op'[o].revision = call[c].revision + 1
          /\ held'[c] = [op |-> o, revision |-> call[c].revision + 1,
                         token |-> issued + 1]
      BY <1>t, <2>0, <2>2, RowColumns DEF Claimable
    <3>2. Holds(c, o)'
      BY <3>1 DEF Holds, Owns
    <3>3. \A q \in Operations \ {o}, d \in Clients : Holds(d, q)' <=> Holds(d, q)
      BY <1>t, <2>0, <2>2, <3>1, NoValuesAssumption DEF Holds, NoLease
    <3>4. holderMap' = [holderMap EXCEPT ![o] = c]
      BY <2>0, <3>2, <3>3, <1>maps, <1>keep, HolderIsUniqueNext
    <3>5. held[c].op = NoOperation
      BY <2>0 DEF NoLease
    <3> QED BY <1>t, <2>0, <2>2, <3>1, <3>4, <3>5, <1>maps DEF Job!Acquire, Claimable
  <2> QED BY <1>3, <2>p, <2>0, <2>1, <2>2 DEF ClaimWrite, Job!JobNext
<1>4. ASSUME NEW c \in Clients, RenewLease(c) PROVE [Job!JobNext]_(Job!jobVars)
  <2>p. PICK o \in Operations : o = held[c].op
    BY <1>4 DEF RenewLease, HoldsLive, Scoped
  <2>0. /\ held[c] # NoLease /\ Holds(c, o)
        /\ op[o].status = "organizing" /\ now \in Nat
    BY <1>4, <2>p DEF RenewLease, HoldsLive, OwnsLive, Owns, Holds, TypeOK
  <2>1. op' = [op EXCEPT ![o] = RenewedRow(@, now)]
    BY <1>4, <2>p DEF RenewLease
  <2>2. held' = held \/ held' = [held EXCEPT ![c].revision = @ + 1]
    BY <1>4 DEF RenewLease
  <2>3. /\ op'[o].status = "organizing" /\ op'[o].revision = op[o].revision + 1
        /\ op'[o].token = op[o].token
        /\ \A q \in Operations \ {o} : op'[q] = op[q]
    BY <1>t, <2>0, <2>1, RowColumns
  <2>4. \A d \in Clients : held'[d].op = held[d].op /\ held'[d].token = held[d].token
    BY <1>t, <2>2 DEF Lease
  <2>5. \A d \in Clients \ {c} : ~Holds(d, o) /\ ~Holds(d, o)'
    <3> SUFFICES ASSUME NEW d \in Clients \ {c}, Holds(d, o) \/ Holds(d, o)'
                 PROVE  FALSE
      OBVIOUS
    <3>1. held[d].op = o /\ held[d].token = op[o].token
      BY <2>3, <2>4 DEF Holds, Owns
    <3>2. held[d] # NoLease
      BY <3>1, NoValuesAssumption DEF NoLease
    <3> QED BY <2>0, <3>1, <3>2, HolderHasToken DEF TokensAreFenced
  <2>6. \A q \in Operations \ {o}, d \in Clients : Holds(d, q)' <=> Holds(d, q)
    <3> SUFFICES ASSUME NEW q \in Operations \ {o}, NEW d \in Clients
                 PROVE  Holds(d, q)' <=> Holds(d, q)
      OBVIOUS
    <3>1. CASE d = c
      BY <3>1, <2>0, <2>4 DEF Holds
    <3>2. CASE d # c
      BY <3>2, <1>t, <2>2, <2>3 DEF Holds
    <3> QED BY <3>1, <3>2
  <2>7. CASE held' = held
    <3>1. ~Holds(c, o)'
      BY <1>t, <2>0, <2>3, <2>7 DEF Holds, Owns, OperationRow
    <3>2. holderMap'[o] = Nobody /\ holderMap[o] = c
      BY <2>0, <2>5, <3>1, HolderIsUnique, HolderIsUniqueNext
    <3>3. holderMap' = [holderMap EXCEPT ![o] = Nobody]
      BY <2>0, <2>6, <3>2, <1>maps, <1>keep
    <3>4. Job!Orphan(o)
      BY <1>t, <2>0, <2>3, <2>7, <3>2, <3>3, <1>maps, NoValuesAssumption
         DEF Job!Orphan
    <3> QED BY <2>0, <3>4 DEF Job!JobNext
  <2>8. CASE held' = [held EXCEPT ![c].revision = @ + 1]
    <3>1. held'[c].revision = held[c].revision + 1
      BY <1>t, <2>8 DEF Lease
    <3>2. Holds(c, o)'
      BY <2>0, <2>3, <2>4, <3>1 DEF Holds, Owns
    <3> QED BY <1>stutter, <1>t, <2>0, <2>3, <2>4, <2>5, <2>6, <3>2
  <2> QED BY <2>2, <2>7, <2>8
<1>5. ASSUME NEW c \in Clients, NEW status \in {"failed", "uncertain", "organized"},
             held[c] # NoLease,
             Owns(op[held[c].op], held[c].revision, held[c].token),
             op' = [op EXCEPT ![held[c].op] = FinishedRow(@, status)],
             held' = [held EXCEPT ![c] = NoLease]
      PROVE  Job!JobNext
  <2>p. PICK o \in Operations : o = held[c].op
    BY <1>5 DEF Scoped
  <2>0. Holds(c, o) /\ op[o].status = "organizing"
    BY <1>5, <2>p DEF Holds, Owns
  <2>1. op' = [op EXCEPT ![o] = FinishedRow(@, status)] /\ workingMap[c] = o
    BY <1>5, <1>maps, <2>p
  <2>2. op'[o].status = status /\ \A q \in Operations \ {o} : op'[q] = op[q]
    BY <1>t, <2>0, <2>1, RowColumns DEF OperationStatus
  <2>3. \A d \in Clients : ~Holds(d, o)'
    BY <2>2 DEF Holds, Owns
  <2>4. \A q \in Operations \ {o}, d \in Clients : Holds(d, q)' <=> Holds(d, q)
    BY <1>5, <1>t, <2>0, <2>2, NoValuesAssumption DEF Holds, NoLease
  <2>5. holderMap' = [holderMap EXCEPT ![o] = Nobody] /\ holderMap[o] = c
    BY <2>0, <2>3, <2>4, <1>maps, <1>keep, HolderIsUnique, HolderIsUniqueNext
  <2>6. workingMap' = [workingMap EXCEPT ![c] = NoOperation]
    BY <1>5, <1>t, <1>maps DEF NoLease
  <2>7. stateMap' = [stateMap EXCEPT ![o] = status]
    BY <1>t, <2>0, <2>2, <1>maps
  <2>8. Job!FinishJob(o, c, status)
    BY <2>0, <2>1, <2>5, <2>6, <2>7, <1>maps DEF Job!FinishJob
  <2> QED BY <2>0, <2>8 DEF Job!JobNext
<1>6. ASSUME NEW c \in Clients,
             \/ \E status \in {"failed", "uncertain"} : Finish(c, status)
             \/ FinishAfterLeaseLoss(c) \/ CompleteOrganized(c)
      PROVE  [Job!JobNext]_(Job!jobVars)
  BY <1>5, <1>6 DEF Finish, FinishAfterLeaseLoss, CompleteOrganized, HoldsLive, OwnsLive
<1>7. ASSUME NEW c \in Clients, Crash(c) PROVE [Job!JobNext]_(Job!jobVars)
  <2>0. op' = op /\ held' = [held EXCEPT ![c] = NoLease]
    BY <1>7 DEF Crash
  <2>1. CASE held[c] = NoLease
    BY <1>1, <1>t, <2>0, <2>1
  <2>2. CASE held[c] # NoLease
    <3>1. held[c].op \in Operations
      BY <2>2 DEF Scoped
    <3>2. \A q \in Operations : ~Holds(c, q)'
      BY <1>t, <2>0, NoValuesAssumption DEF Holds, NoLease
    <3>3. \A q \in Operations, d \in Clients \ {c} : Holds(d, q)' <=> Holds(d, q)
      BY <1>t, <2>0 DEF Holds
    <3>4. ASSUME NEW q \in Operations
          PROVE  holderMap'[q] = IF holderMap[q] = c THEN Nobody ELSE holderMap[q]
      <4>1. CASE Holds(c, q)
        <5>1. \A d \in Clients \ {c} : ~Holds(d, q)
          BY <4>1, NoValuesAssumption DEF Holds, Owns, TokensAreFenced, NoLease
        <5> QED BY <4>1, <5>1, <3>2, <3>3, HolderIsUnique, HolderIsUniqueNext
      <4>2. CASE ~Holds(c, q)
        <5>1. holderMap'[q] = holderMap[q]
          BY <4>2, <3>2, <3>3, <1>keep
        <5>2. holderMap[q] # c
          BY <4>2, HolderIsUnique, NoValuesAssumption
        <5> QED BY <5>1, <5>2
      <4> QED BY <4>1, <4>2
    <3>5. workingMap' = [workingMap EXCEPT ![c] = NoOperation]
          /\ workingMap[c] # NoOperation /\ stateMap' = stateMap
      BY <1>t, <2>0, <3>1, <1>maps, NoValuesAssumption DEF NoLease
    <3>6. Job!GiveUp(c)
      BY <3>4, <3>5, <1>maps DEF Job!GiveUp
    <3> QED BY <3>6 DEF Job!JobNext
  <2> QED BY <2>1, <2>2
<1>8. ASSUME NEW o \in Operations, CancelOperation(o) \/ RetryOperation(o)
      PROVE  [Job!JobNext]_(Job!jobVars)
  <2>1. /\ held' = held
        /\ \/ op[o].status = "planned" /\ op' = [op EXCEPT ![o] = CancelledRow(@)]
           \/ op[o].status = "failed" /\ op' = [op EXCEPT ![o] = RetriedRow(@)]
    BY <1>8 DEF CancelOperation, RetryOperation, Cancellable, Retryable
  <2>2. /\ CancelledRow(op[o]).status = "cancelled"
        /\ RetriedRow(op[o]).status = "planned"
    BY <1>t, RowColumns
  <2>3. \A q \in Operations, d \in Clients : Holds(d, q)' <=> Holds(d, q)
    BY <1>t, <2>1, <2>2 DEF Holds, Owns
  <2>4. holderMap' = holderMap /\ workingMap' = workingMap
    BY <2>1, <2>3, <1>maps, <1>keep
  <2>5. \/ stateMap[o] = "planned" /\ stateMap' = [stateMap EXCEPT ![o] = "cancelled"]
        \/ stateMap[o] = "failed" /\ stateMap' = [stateMap EXCEPT ![o] = "planned"]
    BY <1>t, <2>1, <2>2, <1>maps
  <2>6. Job!CancelJob(o) \/ Job!RetryJob(o)
    BY <2>4, <2>5 DEF Job!CancelJob, Job!RetryJob
  <2> QED BY <2>6 DEF Job!JobNext
<1> QED
  BY <1>1, <1>2, <1>3, <1>4, <1>6, <1>7, <1>8
     DEF Next, vars, CreateRead, ClaimRead, InvalidateWrite, ConfirmPlan, IgnorePlan,
         AliasPlan, PlanGoesStale, Tick

\* Every behaviour of the service, however many clients race, crash and lose
\* their leases, is a behaviour of the abstract queue: a job is finished only
\* by its one holder.
THEOREM ServiceImplementsLeasedJob == Spec => ImplementsLeasedJob
<1>1. Spec => [](/\ TypeOK /\ Scoped /\ TokensAreFenced /\ ClaimersHoldNothing)
  BY Typed, Fenced, ClaimersStayFree, PTL
<1>2. /\ TypeOK /\ Scoped /\ TokensAreFenced /\ ClaimersHoldNothing
      /\ Scoped' /\ TokensAreFenced' /\ [Next]_vars
      => [Job!JobNext]_(Job!jobVars)
  BY JobSteps
<1> QED BY JobInitially, <1>1, <1>2, PTL DEF Spec, ImplementsLeasedJob, Job!JobSpec
=============================================================================
