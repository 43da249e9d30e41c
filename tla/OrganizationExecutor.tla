-------------------------- MODULE OrganizationExecutor --------------------------
(***************************************************************************)
(* OrganizationWorker and OrganizationExecutor: the one coroutine that     *)
(* claims queued operations and moves files on the remote drive, together  *)
(* with the operation rows it leases and the drive it writes to.           *)
(*                                                                         *)
(* p115_c03_timeout_executor calls the client synchronously, so a remote   *)
(* call and the handling of its answer are one step here: no coroutine     *)
(* runs in between, and a cancellation is delivered only at the next       *)
(* database call.  What may happen in between is on the remote side: a     *)
(* call that timed out can still take effect later (late).                 *)
(*                                                                         *)
(* The executor renews its lease twice before each call; the renewals and  *)
(* the call they protect are one step, with one new revision.              *)
(***************************************************************************)
EXTENDS OperationRecord, OrganizationContract, FiniteSets

CONSTANTS
  Operations,
  Queue,          \* the operations in the order they were created
  Steps,          \* Steps[o]: the plan, a sequence of steps, each a sequence
                  \* of expectations (a video and its companion files)
  NoOperation,
  Worker, Nobody, \* the worker as the only client of LeasedJob, or none
  Nowhere,        \* outside of every directory that a plan manages
  Budgets,        \* values of max_transport_calls
  LocalFailures,  \* whether database calls of the worker may raise
  Interruptions,  \* whether the worker may be cancelled or killed
  MaxStarts,      \* bound: times the worker is started
  MaxNow,         \* bound: ticks of the clock
  MaxAttempts,    \* bound: claims of one operation
  MaxTampers      \* bound: objects moved by somebody else

Members(o) == UNION {GroupOf(Steps[o][i]) : i \in DOMAIN Steps[o]}
ObjectsOf(o) == {e.object : e \in Members(o)}

(***************************************************************************)
(* What load_executable_steps, run_once and _validate_live_scope let       *)
(* through: in particular no object is in two steps.                       *)
(***************************************************************************)
ASSUME StepsAssumption ==
  /\ NoOperation \notin Operations
  /\ Steps \in [Operations -> Seq(Seq(StepExpectation))]
  /\ Nowhere \notin Parents \X Names
  /\ \A o \in Operations :
       /\ Steps[o] # <<>>
       /\ \A i, j \in DOMAIN Steps[o] :
            i # j => GroupObjects(GroupOf(Steps[o][i]))
                     \cap GroupObjects(GroupOf(Steps[o][j])) = {}
       /\ \A i \in DOMAIN Steps[o] :
            /\ Steps[o][i] # <<>>
            /\ IsCompanionGroup(Steps[o][i])

ASSUME BudgetsAssumption == Budgets \subseteq Nat
ASSUME WorkerAssumption == Worker # Nobody

VARIABLES
  op,       \* op[o]: the operation row
  plan,     \* plan[o]: "approved", "superseded" (a later scan is complete),
            \* "amended" (same content at a later revision) or "withdrawn"
            \* (ignored, invalidated, expired or its library changed)
  dirty,    \* <<operation, directory>>: the rows of the outbox
  w,        \* the worker's coroutine
  starts,   \* how often it was started
  drive,    \* drive[x]: <<parent, name>> of object x, or Nowhere
  late,     \* writes without an answer that may still take effect
  touched,  \* objects that somebody else moved
  now, issued

rows == <<op, plan, dirty>>
remote == <<drive, late, touched>>
vars == <<op, plan, dirty, w, starts, drive, late, touched, now, issued>>

Place == (Parents \X Names) \cup {Nowhere}

\* Local variables of run_once, execute and _ExecutionContext.
Polling == [pc |-> "polling", op |-> NoOperation, token |-> NoToken,
            claimed |-> 0, revision |-> 0, step |-> 1, member |-> 1,
            phase |-> "source", calls |-> 0, started |-> FALSE,
            confirmed |-> FALSE, sources |-> <<>>, targets |-> <<>>,
            observed |-> <<>>, result |-> "none", stopping |-> FALSE]
Stopped == [Polling EXCEPT !.pc = "stopped"]

\* Where the scan that the plans were made from saw an object.
Home(x) ==
  LET planned == {e \in UNION {Members(o) : o \in Operations} : e.object = x}
  IN IF planned = {} THEN Nowhere
     ELSE LET e == CHOOSE e \in planned : TRUE
          IN <<e.sourceParent, e.sourceName>>

Init ==
  /\ op = [o \in Operations |-> QueuedRow(1)]
  /\ plan = [o \in Operations |-> "approved"]
  /\ dirty = {}
  /\ w = Stopped
  /\ starts = 0
  /\ drive = [x \in Objects |-> Home(x)]
  /\ late = {}
  /\ touched = {}
  /\ now = 1
  /\ issued = 0

-----------------------------------------------------------------------------
(***************************************************************************)
(* The remote drive, as the executor's transport sees it.                  *)
(***************************************************************************)
StateOf(x) == [object |-> x, parent |-> drive[x][1], name |-> drive[x][2]]

\* read_object lists the source and the target directory; a name that is
\* neither of the two planned ones is an error, not an answer.
ReadObjectAnswers(e) ==
  LET x == e.object
      listed == /\ drive[x] # Nowhere
                /\ drive[x][1] \in {e.sourceParent, e.targetParent}
  IN CASE ~listed -> {Unobserved}
       [] listed /\ drive[x][2] \in {e.sourceName, e.targetName} -> {StateOf(x)}
       [] OTHER -> {}

\* read_target looks for the name in the target directory; two objects of
\* that name are an error.
ReadTargetAnswers(e) ==
  LET there == {x \in Objects : drive[x] = TargetPlace(e)}
  IN CASE there = {} -> {Unobserved}
       [] Cardinality(there) = 1 -> {StateOf(x) : x \in there}
       [] OTHER -> {}

\* The place of the object after a move or a rename took effect.
PlaceAfter(write) ==
  LET place == drive[write.member.object]
  IN CASE place = Nowhere -> Nowhere
       [] place # Nowhere /\ write.kind = "move" ->
            <<write.member.targetParent, place[2]>>
       [] OTHER -> <<place[1], write.member.targetName>>

Apply(write) == drive' = [drive EXCEPT ![write.member.object] = PlaceAfter(write)]

-----------------------------------------------------------------------------
(***************************************************************************)
(* The worker.                                                             *)
(***************************************************************************)
HoldsLive == OwnsLive(op[w.op], w.revision, w.token, now)

Step == Steps[w.op][w.step]
Member == Step[w.member]
LastMember == w.member = Len(Step)

Rest == IF w.stopping THEN Stopped ELSE Polling

Finishing(status) == [w EXCEPT !.pc = "finishing", !.result = status]

\* The row when the worker ends without a live lease: UNCERTAIN if it may
\* have written and the row still carries its token and revision.
BugRowAfterLeaseLoss ==
  IF w.started THEN FinishedRow(op[w.op], "uncertain") ELSE op[w.op]

RowAfterLeaseLoss ==
  IF w.started /\ Owns(op[w.op], w.revision, w.token)
  THEN FinishedRow(op[w.op], "uncertain")
  ELSE op[w.op]

StartWorker ==
  /\ w = Stopped
  /\ starts < MaxStarts
  /\ starts' = starts + 1
  /\ w' = Polling
  /\ UNCHANGED <<rows, remote, now, issued>>

(***************************************************************************)
(* claim_next: the oldest PLANNED operation and no other.  When its plan   *)
(* is no longer planned, valid and at the revision it was queued with,     *)
(* claim raises and run_forever starts over with the same operation.  The  *)
(* claim does not ask whether the plan's scan is still the latest; only    *)
(* load_executable_steps does.                                             *)
(***************************************************************************)
BugOldestPlanned ==
  {o \in Operations :
     \E i \in DOMAIN Queue :
       /\ Queue[i] = o
       /\ op[o].status = "planned"
       /\ \A j \in 1..(i - 1) : op[Queue[j]].status = "organized"}

OldestPlanned ==
  {o \in Operations :
     \E i \in DOMAIN Queue :
       /\ Queue[i] = o
       /\ op[o].status = "planned"
       /\ \A j \in 1..(i - 1) : op[Queue[j]].status # "planned"}

ClaimNext ==
  /\ w = Polling
  /\ \E o \in OldestPlanned, budget \in Budgets :
       /\ plan[o] \in {"approved", "superseded"}
       /\ op[o].attempts < MaxAttempts
       /\ issued' = issued + 1
       /\ op' = [op EXCEPT ![o] = ClaimedRow(@, issued', now)]
       /\ w' = [Polling EXCEPT
                  !.pc = "claimed", !.op = o, !.token = issued',
                  !.claimed = op'[o].revision, !.revision = op'[o].revision,
                  !.calls = budget]
  /\ UNCHANGED <<plan, dirty, starts, remote, now>>

(***************************************************************************)
(* run_once between the claim and execute(): the plan is loaded again and  *)
(* must still be executable, and a client must be available.  Otherwise    *)
(* _finish_failed ends the operation, with a live lease or without.        *)
(***************************************************************************)
Executable(o) == plan[o] \in {"approved", "amended"}

PrepareRun ==
  /\ w.pc = "claimed"
  /\ Executable(w.op)
  /\ w' = [w EXCEPT !.pc = "loaded"]
  /\ UNCHANGED <<rows, starts, remote, now, issued>>

BugRejectClaim ==
  /\ w.pc = "claimed"
  /\ w' = Rest
  /\ UNCHANGED <<rows, starts, remote, now, issued>>

RejectClaim ==
  /\ w.pc = "claimed"
  /\ op' = [op EXCEPT ![w.op] =
       CASE HoldsLive -> FinishedRow(@, "failed")
         [] ~HoldsLive /\ Owns(@, w.revision, w.token) ->
              FinishedRow(@, "uncertain")
         [] OTHER -> @]
  /\ w' = Rest
  /\ UNCHANGED <<plan, dirty, starts, remote, now, issued>>

BeginExecute ==
  /\ w.pc = "loaded"
  /\ w' = IF Executable(w.op) THEN [w EXCEPT !.pc = "running"]
                              ELSE Finishing("failed")
  /\ UNCHANGED <<rows, starts, remote, now, issued>>

(***************************************************************************)
(* _call: within the budget and under a live lease, which is renewed.      *)
(***************************************************************************)
BugMayCall == HoldsLive

MayCall == w.calls > 0 /\ HoldsLive

Call(next) ==
  /\ MayCall
  /\ op' = [op EXCEPT ![w.op] = RenewedRow(@, now)]
  /\ w' = [next EXCEPT !.revision = w.revision + 1, !.calls = w.calls - 1]
  /\ UNCHANGED <<plan, dirty, starts, touched, now, issued>>

Put(map, key, value) ==
  [k \in DOMAIN map \cup {key} |-> IF k = key THEN value ELSE map[k]]

NextStep ==
  IF w.step < Len(Steps[w.op])
  THEN [w EXCEPT !.step = @ + 1, !.member = 1, !.phase = "source",
                 !.sources = <<>>, !.targets = <<>>, !.observed = <<>>]
  ELSE Finishing("organized")

ReadSource ==
  /\ w.pc = "running" /\ w.phase = "source"
  /\ \/ \E seen \in ReadObjectAnswers(Member) :
          Call([w EXCEPT !.sources = Put(@, Member.object, seen),
                         !.phase = "target"])
     \/ Call(Finishing("uncertain"))
  /\ UNCHANGED <<drive, late>>

\* A step that is already applied is a conflict all the same when another
\* object holds one of its target places.
TakenByOther(targets) ==
  \E e \in GroupOf(Step) :
    LET seen == ObservedAt(targets, TargetPlace(e))
    IN seen # Unobserved /\ seen.object # e.object

\* The decision on a step once every member and every target was read.
BugDecide(targets) ==
  [w EXCEPT !.targets = targets, !.member = 1, !.phase = "move"]

Decide(targets) ==
  LET check == CheckGroupBeforeWrite(GroupOf(Step), w.sources, targets)
  IN CASE check.status = "ready" ->
            [w EXCEPT !.targets = targets, !.member = 1, !.phase = "move"]
       [] check.status = "already_applied" ->
            IF TakenByOther(targets) THEN Finishing("failed") ELSE NextStep
       [] check.status = "uncertain" -> Finishing("uncertain")
       [] check.status = "conflict" ->
            Finishing(IF check.code = "group_partial_state"
                      THEN "uncertain" ELSE "failed")

ReadTargetPlace ==
  /\ w.pc = "running" /\ w.phase = "target"
  /\ \/ \E seen \in ReadTargetAnswers(Member) :
          LET targets == Put(w.targets, TargetPlace(Member), seen)
          IN Call(IF LastMember
                  THEN Decide(targets)
                  ELSE [w EXCEPT !.targets = targets, !.member = @ + 1,
                                 !.phase = "source"])
     \/ Call(Finishing("uncertain"))
  /\ UNCHANGED <<drive, late>>

(***************************************************************************)
(* One move or rename.  The receipt says success, or that the write failed *)
(* for good, or nothing definite: then it took effect, or will, or never   *)
(* does.                                                                   *)
(***************************************************************************)
AfterWrite ==
  CASE w.phase = "move" ->
         [w EXCEPT !.started = TRUE, !.confirmed = TRUE, !.phase = "rename"]
    [] w.phase = "rename" /\ ~LastMember ->
         [w EXCEPT !.started = TRUE, !.confirmed = TRUE, !.phase = "move",
                   !.member = @ + 1]
    [] OTHER ->
         [w EXCEPT !.started = TRUE, !.confirmed = TRUE, !.phase = "verify",
                   !.member = 1]

BugAfterFailedWrite == "failed"

AfterFailedWrite == IF w.confirmed THEN "uncertain" ELSE "failed"

BugAfterUnknownWrite == IF w.confirmed THEN "uncertain" ELSE "failed"

AfterUnknownWrite == "uncertain"

WriteObject ==
  /\ w.pc = "running" /\ w.phase \in {"move", "rename"}
  /\ LET write == [kind |-> w.phase, member |-> Member]
         ended(status) == [Finishing(status) EXCEPT !.started = TRUE]
     IN \/ drive[Member.object] # Nowhere /\ Apply(write)
           /\ Call(AfterWrite) /\ UNCHANGED late
        \/ Call(ended(AfterFailedWrite)) /\ UNCHANGED <<drive, late>>
        \/ Call(ended(AfterUnknownWrite)) /\ Apply(write) /\ UNCHANGED late
        \/ Call(ended(AfterUnknownWrite)) /\ UNCHANGED drive
           /\ \/ late' = late \cup {write}
              \/ UNCHANGED late

\* The read after the write, and the postcondition of the whole step.
Verify ==
  /\ w.pc = "running" /\ w.phase = "verify"
  /\ \/ \E seen \in ReadObjectAnswers(Member) :
          LET observed == Put(w.observed, Member.object, seen)
              check == CheckGroupAfterWrite(GroupOf(Step), observed)
          IN Call(CASE ~LastMember ->
                         [w EXCEPT !.observed = observed, !.member = @ + 1]
                    [] LastMember /\ check.status = "already_applied" ->
                         NextStep
                    [] OTHER -> Finishing("uncertain"))
     \/ Call(Finishing("uncertain"))
  /\ UNCHANGED <<drive, late>>

(***************************************************************************)
(* The budget is spent: FAILED while a step is still being checked,        *)
(* UNCERTAIN once it is being written.                                     *)
(***************************************************************************)
OutOfCalls ==
  /\ w.pc = "running" /\ w.calls = 0 /\ HoldsLive
  /\ op' = [op EXCEPT ![w.op] = RenewedRow(@, now)]
  /\ w' = [Finishing(IF w.phase \in {"source", "target"}
                     THEN "failed" ELSE "uncertain")
           EXCEPT !.revision = @ + 1]
  /\ UNCHANGED <<plan, dirty, starts, remote, now, issued>>

\* _handle_lease_loss: a renewal found no live lease.
LoseLease ==
  /\ w.pc = "running" /\ ~HoldsLive
  /\ op' = [op EXCEPT ![w.op] = RowAfterLeaseLoss]
  /\ w' = Rest
  /\ UNCHANGED <<plan, dirty, starts, remote, now, issued>>

(***************************************************************************)
(* _finish.  ORGANIZED commits with one dirty event per directory of the   *)
(* plan; when the outbox cannot be written, the operation becomes FAILED,  *)
(* unless the lease runs out between the two attempts.                     *)
(***************************************************************************)
BugDirectoriesOf(o) == {e.targetParent : e \in Members(o)}

DirectoriesOf(o) ==
  UNION {{e.sourceParent, e.targetParent} : e \in Members(o)}

FinishOperation ==
  /\ w.pc = "finishing"
  /\ \/ /\ HoldsLive
        /\ op' = [op EXCEPT ![w.op] = FinishedRow(@, w.result)]
        /\ dirty' = IF w.result = "organized"
                    THEN dirty \cup ({w.op} \X DirectoriesOf(w.op)) ELSE dirty
     \/ /\ HoldsLive /\ w.result = "organized" /\ LocalFailures
        /\ \/ op' = [op EXCEPT ![w.op] = FinishedRow(@, "failed")]
           \/ UNCHANGED op
        /\ UNCHANGED dirty
     \/ /\ ~HoldsLive
        /\ op' = [op EXCEPT ![w.op] = RowAfterLeaseLoss]
        /\ UNCHANGED dirty
  /\ w' = Rest
  /\ UNCHANGED <<plan, starts, remote, now, issued>>

WorkerStep ==
  \/ ClaimNext \/ PrepareRun \/ RejectClaim \/ BeginExecute
  \/ ReadSource \/ ReadTargetPlace \/ WriteObject \/ Verify
  \/ OutOfCalls \/ LoseLease \/ FinishOperation

-----------------------------------------------------------------------------
(***************************************************************************)
(* What may happen to the worker.                                          *)
(***************************************************************************)

(***************************************************************************)
(* A database call raises.  Inside execute(), run_once falls back to       *)
(* finish_after_lease_loss with the lease it got from the claim, which the *)
(* row no longer carries once the executor has renewed it.                 *)
(***************************************************************************)
LocalFailure ==
  /\ LocalFailures
  /\ \/ w.pc = "claimed" /\ UNCHANGED op
     \/ /\ w.pc \in {"loaded", "running", "finishing"}
        /\ op' = [op EXCEPT ![w.op] =
             IF Owns(@, w.claimed, w.token) THEN FinishedRow(@, "uncertain")
             ELSE @]
  /\ w' = Rest
  /\ UNCHANGED <<plan, dirty, starts, remote, now, issued>>

(***************************************************************************)
(* The application cancels the worker's task (shutdown, or the credential  *)
(* was replaced).  Inside _run_steps the executor still tries to record    *)
(* UNCERTAIN; a renewal that was being committed may have changed the      *)
(* revision without the executor learning of it.                           *)
(***************************************************************************)
CancelWorker ==
  /\ Interruptions
  /\ \/ /\ w.pc \in {"polling", "claimed", "loaded"}
        /\ w' = Stopped
        /\ UNCHANGED op
     \/ /\ w.pc \in {"running", "finishing"} /\ ~w.stopping
        /\ w' = [Finishing("uncertain") EXCEPT !.stopping = TRUE]
        /\ \/ UNCHANGED op
           \/ /\ w.pc = "running" /\ HoldsLive
              /\ op' = [op EXCEPT ![w.op] = RenewedRow(@, now)]
  /\ UNCHANGED <<plan, dirty, starts, remote, now, issued>>

KillWorker ==
  /\ Interruptions
  /\ w.pc # "stopped"
  /\ w' = Stopped
  /\ UNCHANGED <<rows, starts, remote, now, issued>>

(***************************************************************************)
(* What users do to the rows: cancel(), retry(), and a plan that is        *)
(* amended (alias), superseded (a new scan) or withdrawn.                  *)
(***************************************************************************)
CancelOperation(o) ==
  /\ Cancellable(op[o], op[o].revision)
  /\ op' = [op EXCEPT ![o] = CancelledRow(@)]
  /\ UNCHANGED <<plan, dirty, w, starts, remote, now, issued>>

RetryOperation(o) ==
  /\ Retryable(op[o], op[o].revision)
  /\ op[o].attempts < MaxAttempts
  /\ op' = [op EXCEPT ![o] = RetriedRow(@)]
  /\ UNCHANGED <<plan, dirty, w, starts, remote, now, issued>>

ChangePlan(o) ==
  /\ \/ /\ plan[o] = "approved"
        /\ \E change \in {"amended", "superseded"} :
             plan' = [plan EXCEPT ![o] = change]
     \/ plan[o] # "withdrawn" /\ plan' = [plan EXCEPT ![o] = "withdrawn"]
  /\ UNCHANGED <<op, dirty, w, starts, remote, now, issued>>

(***************************************************************************)
(* What happens on the drive without the worker.                           *)
(***************************************************************************)
LateWrite(write) ==
  /\ write \in late
  /\ \/ Apply(write)
     \/ UNCHANGED drive
  /\ late' = late \ {write}
  /\ UNCHANGED <<rows, w, starts, touched, now, issued>>

Tamper(x, place) ==
  /\ Cardinality(touched) < MaxTampers
  /\ x \notin touched
  /\ place # drive[x]
  /\ drive' = [drive EXCEPT ![x] = place]
  /\ touched' = touched \cup {x}
  /\ UNCHANGED <<rows, w, starts, late, now, issued>>

Tick ==
  /\ now < MaxNow
  /\ now' = now + 1
  /\ UNCHANGED <<rows, w, starts, remote, issued>>

Next ==
  \/ StartWorker \/ WorkerStep
  \/ LocalFailure \/ CancelWorker \/ KillWorker
  \/ \E o \in Operations :
       CancelOperation(o) \/ RetryOperation(o) \/ ChangePlan(o)
  \/ \E write \in late : LateWrite(write)
  \/ \E x \in Objects, place \in Place : Tamper(x, place)
  \/ Tick

Spec == Init /\ [][Next]_vars

(***************************************************************************)
(* The service is restarted whenever it stops (docker-compose.yml:         *)
(* restart), run_forever never leaves its loop on its own, and every       *)
(* remote call has a timeout: the worker is weakly fair.                   *)
(***************************************************************************)
FairSpec == Spec /\ WF_vars(StartWorker) /\ WF_vars(WorkerStep)

-----------------------------------------------------------------------------
ObservationMap(map, keys) ==
  DOMAIN map \subseteq keys /\ \A k \in DOMAIN map : map[k] \in Observation

TypeOK ==
  /\ op \in [Operations -> OperationRow]
  /\ plan \in [Operations ->
                {"approved", "amended", "superseded", "withdrawn"}]
  /\ dirty \subseteq Operations \X Parents
  /\ w.pc \in {"stopped", "polling", "claimed", "loaded", "running", "finishing"}
  /\ w.op \in Operations \cup {NoOperation}
  /\ w.phase \in {"source", "target", "move", "rename", "verify"}
  /\ w.result \in {"none", "organized", "failed", "uncertain"}
  /\ {w.claimed, w.revision, w.token, w.step, w.member, w.calls} \subseteq Nat
  /\ {w.started, w.confirmed, w.stopping} \subseteq BOOLEAN
  /\ ObservationMap(w.sources, Objects)
  /\ ObservationMap(w.targets, Parents \X Names)
  /\ ObservationMap(w.observed, Objects)
  /\ drive \in [Objects -> Place]
  /\ touched \subseteq Objects

(***************************************************************************)
(* Safety.                                                                 *)
(***************************************************************************)
AtSource(e) == drive[e.object] = <<e.sourceParent, e.sourceName>>
AtTarget(e) == drive[e.object] = TargetPlace(e)

\* Nobody but the operation itself moves the object: no stranger on the drive,
\* and no other operation, since two plans of one scan may name the same file.
Shared ==
  {x \in Objects :
     \E o, q \in Operations : o # q /\ x \in ObjectsOf(o) \cap ObjectsOf(q)}

Untouched(e) == e.object \notin touched \cup Shared

\* An operation that the user may retry, or that counts as done or called
\* off, has no write left that could still change the drive: every write
\* without a definite answer ends in UNCERTAIN.
SettledIsQuiescent ==
  \A o \in Operations :
    op[o].status \in {"planned", "failed", "cancelled", "organized"}
    => \A write \in late : write.member.object \notin ObjectsOf(o) \ Shared

\* A video and its companions are never left apart without the operation
\* saying so: a step that nobody else interfered with is at its source or at
\* its target as a whole, unless the operation is running or UNCERTAIN.
Whole(o, i) ==
  (\A e \in GroupOf(Steps[o][i]) : Untouched(e)) =>
    \/ \A e \in GroupOf(Steps[o][i]) : AtSource(e)
    \/ \A e \in GroupOf(Steps[o][i]) : AtTarget(e)

GroupsAreWhole ==
  \A o \in Operations :
    op[o].status \notin {"organizing", "uncertain"} =>
      \A i \in DOMAIN Steps[o] : Whole(o, i)

\* ORGANIZED is said only of a plan whose files are all where it put them,
\* whatever attempts, lost leases and late writes came before.
OrganizedMeansApplied ==
  \A o \in Operations :
    op[o].status = "organized" =>
      \A e \in Members(o) : Untouched(e) => AtTarget(e)

\* ... and every directory that lost or got a file has its dirty event.
OrganizedIsReported ==
  \A o \in Operations :
    op[o].status = "organized" =>
      \A e \in Members(o) :
        {<<o, e.sourceParent>>, <<o, e.targetParent>>} \subseteq dirty

\* What a user, and the next scan, are told by ORGANIZED is so.
OrganizedIsTrue == OrganizedMeansApplied /\ OrganizedIsReported

(***************************************************************************)
(* Action properties.                                                      *)
(***************************************************************************)
WriteIsSent ==
  /\ w.pc = "running" /\ w.phase \in {"move", "rename"}
  /\ w'.op = w.op /\ w'.calls = w.calls - 1

\* A replay does not move twice: a move is sent only for a file that is still
\* at its source and a rename only for one that was moved and not renamed,
\* across attempts, crashes and retries of the operation.
NoSecondWrite ==
  [][(WriteIsSent /\ Untouched(Member)) =>
       drive[Member.object] =
         IF w.phase = "move"
         THEN <<Member.sourceParent, Member.sourceName>>
         ELSE <<Member.targetParent, Member.sourceName>>]_vars

\* No step is begun over an occupied target: when its first write is sent, no
\* object that an operation with a definite outcome left there holds one of
\* its places.  (A write without an answer may land there at any time.)
Unsettled(x) ==
  \E o \in Operations \ {w.op} :
    op[o].status \in {"organizing", "uncertain"} /\ x \in ObjectsOf(o)

NothingIsOverwritten ==
  [][(WriteIsSent /\ w.phase = "move" /\ w.member = 1) =>
       \A e \in GroupOf(Step), x \in Objects :
         drive[x] = TargetPlace(e) => x \in touched \/ Unsettled(x)]_vars

(***************************************************************************)
(* What the documents say and the code does not keep.                      *)
(***************************************************************************)

\* Work package O01, crash recovery: an operation that was running when the
\* service stopped is taken up again, or ended, after the restart.
RunningIsRecovered ==
  \A o \in Operations :
    op[o].status = "organizing" ~> op[o].status # "organizing"

-----------------------------------------------------------------------------
(***************************************************************************)
(* What the properties above rest on.                                      *)
(***************************************************************************)

\* The row of the worker's operation stays ORGANIZING until the worker ends
\* it or forgets it, and the worker's revision is never ahead of the row's.
RowIsKept ==
  /\ w.op = NoOperation => w \in {Polling, Stopped}
  /\ w.op # NoOperation =>
       /\ w.pc \in {"claimed", "loaded", "running", "finishing"}
       /\ op[w.op].status = "organizing"
       /\ w.claimed <= w.revision /\ w.revision <= op[w.op].revision
       /\ w.step \in DOMAIN Steps[w.op]
       /\ w.member \in DOMAIN Steps[w.op][w.step]
       /\ w.pc = "finishing" => w.result # "none"

\* A write without an answer belongs to an operation that is UNCERTAIN, or
\* that can end in no other way.
GivenUp(o) ==
  /\ op[o].status \in {"organizing", "uncertain"}
  /\ w.op = o => w.pc = "finishing" /\ w.result = "uncertain"

LateWritesAreGivenUp ==
  \A write \in late : \E o \in Operations :
    write.member \in Members(o) /\ GivenUp(o)

\* A claim starts with nothing read and nothing written.
ClaimIsFresh ==
  w.pc \in {"claimed", "loaded"} =>
    /\ w.step = 1 /\ w.member = 1 /\ w.phase = "source" /\ ~w.confirmed
    /\ w.sources = <<>> /\ w.targets = <<>> /\ w.observed = <<>>

\* What the worker saw of an object is still so, unless others move it.
StillSeen(map) ==
  \A x \in ObjectsOf(w.op) \cap DOMAIN map :
    map[x] # Unobserved /\ x \notin touched \cup Shared =>
      drive[x] = <<map[x].parent, map[x].name>>

ObservationsHold ==
  w.pc = "running" =>
    /\ w.phase \in {"source", "target"} => StillSeen(w.sources)
    /\ IF w.phase = "verify" THEN StillSeen(w.observed) ELSE DOMAIN w.observed = {}

\* A place that was read empty is held by nobody, strangers and operations
\* without a definite outcome apart.
Free(place) ==
  \A x \in Objects : drive[x] = place => x \in touched \/ Unsettled(x)

TargetsAreFree ==
  w.pc = "running" =>
    /\ w.phase \in {"source", "target"} =>
         /\ \A i \in 1..(w.member - 1) : TargetPlace(Step[i]) \in DOMAIN w.targets
         /\ \A place \in DOMAIN w.targets :
              w.targets[place] = Unobserved => Free(place)
    /\ w.phase = "move" /\ w.member = 1 =>
         \A e \in GroupOf(Step) : Free(TargetPlace(e))

\* While a step is written, the members in front of the worker's are at their
\* target, the ones behind it at their source.
Written(i) ==
  LET e == Step[i]
  IN drive[e.object] =
       IF i < w.member THEN TargetPlace(e)
       ELSE IF i = w.member /\ w.phase = "rename"
            THEN <<e.targetParent, e.sourceName>>
            ELSE <<e.sourceParent, e.sourceName>>

MembersAreWritten ==
  w.pc = "running" /\ w.phase \in {"move", "rename"} =>
    \A i \in DOMAIN Step : Untouched(Step[i]) => Written(i)

\* Only the step that is being written may be apart, and the steps in front
\* of it are applied.
Applied(o, i) == \A e \in GroupOf(Steps[o][i]) : Untouched(e) => AtTarget(e)

PlanIsWhole(o) == \A i \in DOMAIN Steps[o] : Whole(o, i)
PlanIsApplied(o) == \A i \in DOMAIN Steps[o] : Applied(o, i)

StepsAreWhole ==
  /\ \A o \in Operations :
       /\ op[o].status \notin {"organizing", "uncertain"} => PlanIsWhole(o)
       /\ op[o].status = "organized" => PlanIsApplied(o)
  /\ w.pc \in {"claimed", "loaded"} => PlanIsWhole(w.op)
  /\ w.pc = "running" =>
       /\ \A i \in 1..(w.step - 1) : Applied(w.op, i)
       /\ \A i \in DOMAIN Steps[w.op] :
            i # w.step \/ w.phase \in {"source", "target"} \/ ~w.confirmed
            => Whole(w.op, i)
  /\ w.pc = "finishing" =>
       /\ w.result # "uncertain" => PlanIsWhole(w.op)
       /\ w.result = "organized" => PlanIsApplied(w.op)

ExecutorInv ==
  /\ RowIsKept /\ ClaimIsFresh /\ LateWritesAreGivenUp
  /\ ObservationsHold /\ TargetsAreFree
  /\ MembersAreWritten /\ StepsAreWhole

-----------------------------------------------------------------------------
(***************************************************************************)
(* The worker, with everything that may happen to it, still only does to   *)
(* the operations what LeasedJob allows to one client: crashes, swallowed  *)
(* exceptions and renewals it never learnt of cost it the job, they never  *)
(* let it finish a job that it does not hold.                              *)
(***************************************************************************)
holderMap ==
  [o \in Operations |->
     IF w.op = o /\ Owns(op[o], w.revision, w.token) THEN Worker ELSE Nobody]

Job == INSTANCE LeasedJob WITH
  Jobs <- Operations, Clients <- {Worker}, NoJob <- NoOperation,
  state <- [o \in Operations |-> op[o].status],
  holder <- holderMap,
  working <- [c \in {Worker} |-> w.op]

\* The worker finishes an operation only while the row's token and revision
\* are the ones it was given last.
ImplementsLeasedJob == Job!JobSpec
=============================================================================
