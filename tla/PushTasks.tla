------------------------------- MODULE PushTasks -------------------------------
(***************************************************************************)
(* TaskService and TaskWorker: the durable tasks that push one resource to *)
(* 115, and the PUSH stages of the workflows they belong to                *)
(* (services/tasks.py, worker.py).                                         *)
(*                                                                         *)
(* create() holds a lock from its first read to its commit; retry() and    *)
(* the worker do not.  The worker loads its task before the submission and *)
(* writes the outcome after it, without looking at the row again.  There   *)
(* is one worker; it is cancelled and replaced when the credentials of 115 *)
(* change, and lost with the process.                                      *)
(*                                                                         *)
(* Only magnet links can be pushed: the application never allows the       *)
(* action SAVE_SHARE.  A lease is live until it runs out; there is no      *)
(* clock.                                                                  *)
(***************************************************************************)
EXTENDS WorkflowStages, Naturals

CONSTANTS
  MaxTasks,      \* bound: tasks of the resource, numbered as they are created
  MaxRequests,   \* bound: create() and retry() calls for one task
  MaxStops,      \* bound: how often the worker or the process stops
  Retriers,      \* concurrent retry() calls
  NoTask, NoWorkflow

ASSUME TasksAssumption ==
  /\ MaxTasks \in Nat /\ MaxRequests \in Nat /\ MaxStops \in Nat
  /\ NoTask \notin Nat
  /\ NoWorkflow \notin Workflows

VARIABLES
  task,       \* task[t]: the row
  child,      \* child[f]: the task that the PUSH stage of f names
  creator,    \* the create() call that holds the lock, after its reads
  retrier,    \* retrier[r]: a retry() call after its read
  worker,     \* the worker's coroutine
  leftover,   \* what recover_expired has loaded of the tasks it found
  stops,      \* how often the worker or the process has stopped
  requested,  \* requested[t]: create() and retry() calls that were committed
  sent,       \* sent[t]: submissions of t that left for 115
  adopted     \* tasks that a workflow was linked to after their creation

taskVars == <<task, child, creator, retrier, worker, leftover, stops,
             requested, sent, adopted>>
vars == <<workflowVars, taskVars>>

Tasks == 1..MaxTasks
TaskState == {"absent", "queued", "submitting", "accepted", "needs_auth",
              "failed", "uncertain"}
RemoteStatus == {"accepted", "needs_auth", "failed", "uncertain"}
Retryable == {"failed", "needs_auth", "uncertain"}

TaskRow == [state : TaskState, workflow : Workflows \cup {NoWorkflow},
            lease : {"none", "live", "out"}, ref : BOOLEAN]

NoRow == [state |-> "absent", workflow |-> NoWorkflow, lease |-> "none",
          ref |-> FALSE]

IdleCreator == [pc |-> "idle", task |-> NoTask, workflow |-> NoWorkflow]
IdleRetrier == [task |-> NoTask, workflow |-> NoWorkflow, ref |-> FALSE]
IdleWorker == [pc |-> "idle", task |-> NoTask, workflow |-> NoWorkflow,
               ref |-> FALSE, result |-> "none"]
StoppedWorker == [IdleWorker EXCEPT !.pc = "stopped"]
RecoveringWorker == [IdleWorker EXCEPT !.pc = "recovering"]

Nothing == [t \in {} |-> NoRow]

TypeOK ==
  /\ WorkflowTypeOK
  /\ task \in [Tasks -> TaskRow]
  /\ child \in [Workflows -> Tasks \cup {NoTask}]
  /\ creator \in
       {IdleCreator}
         \cup [pc : {"inserting"}, task : {NoTask},
               workflow : Workflows \cup {NoWorkflow}]
         \cup [pc : {"reusing"}, task : Tasks, workflow : Workflows]
  /\ retrier \in [Retriers -> [task : Tasks \cup {NoTask}, ref : BOOLEAN,
                               workflow : Workflows \cup {NoWorkflow}]]
  /\ worker \in
       {StoppedWorker, RecoveringWorker, IdleWorker}
         \cup [pc : {"claimed", "loaded", "answered"}, task : Tasks,
               workflow : Workflows \cup {NoWorkflow}, ref : BOOLEAN,
               result : RemoteStatus \cup {"none"}]
  /\ worker.pc = "answered" => worker.result \in RemoteStatus
  /\ DOMAIN leftover \subseteq Tasks
  /\ leftover \in [DOMAIN leftover -> [workflow : Workflows \cup {NoWorkflow},
                                      ref : BOOLEAN]]
  /\ stops \in 0..MaxStops
  /\ requested \in [Tasks -> Nat]
  /\ sent \in [Tasks -> Nat]
  /\ adopted \subseteq Tasks

Init ==
  /\ WorkflowInit
  /\ task = [t \in Tasks |-> NoRow]
  /\ child = [f \in Workflows |-> NoTask]
  /\ creator = IdleCreator
  /\ retrier = [r \in Retriers |-> IdleRetrier]
  /\ worker = StoppedWorker
  /\ leftover = Nothing
  /\ stops = 0
  /\ requested = [t \in Tasks |-> 0]
  /\ sent = [t \in Tasks |-> 0]
  /\ adopted = {}

\* The PUSH stage of f, if there is one, and the task it names.
SyncStage(f, t, value) ==
  IF f = NoWorkflow
  THEN UNCHANGED <<status, stage, child>>
  ELSE /\ RecordStage(f, "push", value)
       /\ child' = [child EXCEPT ![f] = t]

(***************************************************************************)
(* create().  Without force, a task of the last 24 hours that is active or *)
(* accepted is returned, and linked if it has no workflow yet.  The tasks  *)
(* up to yesterday are the ones that are older.                            *)
(***************************************************************************)
Reusable(t) == task[t].state \in {"queued", "submitting", "accepted"}

CreateRead(f, force, yesterday) ==
  LET existing == {t \in Tasks : t > yesterday /\ Reusable(t)}
  IN /\ creator = IdleCreator
     /\ f # NoWorkflow => status[f] # "absent"
     /\ \/ /\ force \/ existing = {}
           /\ creator' = [pc |-> "inserting", task |-> NoTask, workflow |-> f]
        \/ /\ ~force
           /\ \E t \in existing :
                /\ \A u \in existing : u <= t
                /\ f # NoWorkflow /\ task[t].workflow = NoWorkflow
                /\ creator' = [pc |-> "reusing", task |-> t, workflow |-> f]
     /\ UNCHANGED <<workflowVars, task, child, retrier, worker, leftover, stops,
                    requested, sent, adopted>>

CreateInsert ==
  \E t \in Tasks :
    /\ creator.pc = "inserting"
    /\ \A u \in Tasks : task[u].state = "absent" <=> u >= t
    /\ task' = [task EXCEPT ![t] =
         [state |-> "queued", workflow |-> creator.workflow, lease |-> "none",
          ref |-> FALSE]]
    /\ SyncStage(creator.workflow, t, "running")
    /\ requested' = [requested EXCEPT ![t] = 1]
    /\ creator' = IdleCreator
    /\ UNCHANGED <<session, retrier, worker, leftover, stops, sent, adopted>>

LinkExisting ==
  /\ creator.pc = "reusing"
  /\ task' = [task EXCEPT ![creator.task].workflow = creator.workflow]
  /\ SyncStage(creator.workflow, creator.task, "running")
  /\ adopted' = adopted \cup {creator.task}
  /\ creator' = IdleCreator
  /\ UNCHANGED <<session, retrier, worker, leftover, stops, requested, sent>>

(***************************************************************************)
(* retry() and prepare_manual_retry.  The lease columns of a task that may *)
(* be retried are empty, so the ORM does not write them.                   *)
(***************************************************************************)
RetryRead(r, t) ==
  /\ retrier[r] = IdleRetrier
  /\ task[t].state \in Retryable
  /\ requested[t] < MaxRequests
  /\ retrier' = [retrier EXCEPT ![r] =
       [task |-> t, workflow |-> task[t].workflow, ref |-> task[t].ref]]
  /\ UNCHANGED <<workflowVars, task, child, creator, worker, leftover, stops,
                 requested, sent, adopted>>

RetryWrite(r) ==
  LET t == retrier[r].task
  IN /\ t # NoTask
     /\ task' = [task EXCEPT ![t].state = "queued",
                             ![t].ref = Written(retrier[r].ref, FALSE, @)]
     /\ SyncStage(retrier[r].workflow, t, "running")
     /\ requested' = [requested EXCEPT ![t] = @ + 1]
     /\ retrier' = [retrier EXCEPT ![r] = IdleRetrier]
     /\ UNCHANGED <<session, creator, worker, leftover, stops, sent, adopted>>

(***************************************************************************)
(* The worker: _claim_one, the load of the task, the submission with the   *)
(* checks in front of it, and the outcome.                                 *)
(***************************************************************************)
BugWaiting(t) == task[t].state = "queued" /\ task[t].lease = "out"

Waiting(t) == task[t].state = "queued" /\ task[t].lease # "live"

ClaimOne ==
  \E t \in Tasks :
    /\ worker.pc = "idle"
    /\ Waiting(t) /\ \A u \in 1..(t - 1) : ~Waiting(u)
    /\ task' = [task EXCEPT ![t].state = "submitting", ![t].lease = "live"]
    /\ worker' = [IdleWorker EXCEPT !.pc = "claimed", !.task = t]
    /\ UNCHANGED <<workflowVars, child, creator, retrier, leftover, stops,
                   requested, sent, adopted>>

LoadTask ==
  /\ worker.pc = "claimed"
  /\ worker' = [worker EXCEPT !.pc = "loaded", !.workflow = task[worker.task].workflow,
                    !.ref = task[worker.task].ref]
  /\ UNCHANGED <<workflowVars, task, child, creator, retrier, leftover, stops,
                 requested, sent, adopted>>

Answer(result) == worker' = [worker EXCEPT !.pc = "answered", !.result = result]

\* The inventory guard, the decryption or the adapter refuse before anything
\* is sent.
RefuseLocally ==
  /\ worker.pc = "loaded"
  /\ \E result \in {"failed", "needs_auth"} : Answer(result)
  /\ UNCHANGED <<workflowVars, task, child, creator, retrier, leftover, stops,
                 requested, sent, adopted>>

Submit ==
  /\ worker.pc = "loaded"
  /\ sent' = [sent EXCEPT ![worker.task] = @ + 1]
  /\ \E result \in RemoteStatus : Answer(result)
  /\ UNCHANGED <<workflowVars, task, child, creator, retrier, leftover, stops,
                 requested, adopted>>

\* _workflow_stage_status
BugStageOf(state) ==
  CASE state = "accepted" -> "succeeded"
    [] state = "needs_auth" -> "waiting_confirmation"
    [] OTHER -> "running"

BugStageIsState(state) == state

StageOf(state) ==
  CASE state = "accepted" -> "succeeded"
    [] state = "needs_auth" -> "waiting_confirmation"
    [] state \in {"uncertain", "failed"} -> state
    [] OTHER -> "running"

RecordOutcome ==
  /\ worker.pc = "answered"
  /\ task' = [task EXCEPT
       ![worker.task].state = worker.result, ![worker.task].lease = "none",
       ![worker.task].ref = Written(worker.ref, worker.result = "accepted", @)]
  /\ SyncStage(worker.workflow, worker.task, StageOf(worker.result))
  /\ worker' = IdleWorker
  /\ UNCHANGED <<session, creator, retrier, leftover, stops, requested, sent, adopted>>

(***************************************************************************)
(* recover_expired, in front of run_forever: only at the start of a        *)
(* worker, and only for leases that have run out by then.  It loads the    *)
(* tasks, asks 115 about the ones with a reference, and writes all of them *)
(* in one transaction.  Without an answer, or without a reference, the     *)
(* outcome is uncertain.                                                   *)
(***************************************************************************)
Expired(t) == task[t].state = "submitting" /\ task[t].lease = "out"

StartWorker ==
  /\ worker = StoppedWorker
  /\ worker' = RecoveringWorker
  /\ leftover' = [t \in {t \in Tasks : Expired(t)} |->
                   [workflow |-> task[t].workflow, ref |-> task[t].ref]]
  /\ UNCHANGED <<workflowVars, task, child, creator, retrier, stops, requested,
                 sent, adopted>>

BugRequeued(t, result) ==
  [task[t] EXCEPT !.state = "queued", !.lease = "none"]

Recovered(t, result) == [task[t] EXCEPT !.state = result, !.lease = "none"]

RecoverExpired ==
  LET found == DOMAIN leftover
      linked == {f \in Workflows : \E t \in found : leftover[t].workflow = f}
  IN /\ worker = RecoveringWorker
     /\ worker' = IdleWorker
     /\ leftover' = Nothing
     /\ \E result \in [found -> RemoteStatus], last \in [linked -> found] :
          /\ \A t \in found : ~leftover[t].ref => result[t] = "uncertain"
          /\ \A f \in linked : leftover[last[f]].workflow = f
          /\ task' = [t \in Tasks |-> IF t \in found
                                      THEN Recovered(t, result[t]) ELSE task[t]]
          /\ stage' = [f \in Workflows |->
               IF f \in linked
               THEN [stage[f] EXCEPT !["push"] = StageOf(result[last[f]])]
               ELSE stage[f]]
          /\ status' = [f \in Workflows |->
               IF f \in linked THEN DeriveStatus(stage'[f]) ELSE status[f]]
          /\ child' = [f \in Workflows |-> IF f \in linked THEN last[f] ELSE child[f]]
     /\ UNCHANGED <<session, creator, retrier, stops, requested, sent, adopted>>

(***************************************************************************)
(* The worker is cancelled when the credentials change; a submission that  *)
(* is under way may have left.  The process may stop at any time.          *)
(***************************************************************************)
Interrupted ==
  /\ worker # StoppedWorker /\ stops < MaxStops
  /\ stops' = stops + 1
  /\ worker' = StoppedWorker
  /\ leftover' = Nothing
  /\ \/ UNCHANGED sent
     \/ worker.pc = "loaded" /\ sent' = [sent EXCEPT ![worker.task] = @ + 1]

CancelWorker ==
  /\ Interrupted
  /\ UNCHANGED <<workflowVars, task, child, creator, retrier, requested, adopted>>

StopProcess ==
  /\ Interrupted
  /\ creator' = IdleCreator
  /\ retrier' = [r \in Retriers |-> IdleRetrier]
  /\ session' = [s \in Sessions |-> NoCall]
  /\ UNCHANGED <<status, stage, task, child, requested, adopted>>

(***************************************************************************)
(* Time.                                                                   *)
(***************************************************************************)
LeaseRunsOut(t) ==
  /\ task[t].lease = "live"
  /\ task' = [task EXCEPT ![t].lease = "out"]
  /\ UNCHANGED <<workflowVars, child, creator, retrier, worker, leftover, stops,
                 requested, sent, adopted>>

WorkerStep ==
  \/ RecoverExpired
  \/ ClaimOne \/ LoadTask \/ RefuseLocally \/ Submit \/ RecordOutcome

Next ==
  \/ WorkflowStep /\ UNCHANGED taskVars
  \/ \E f \in Workflows \cup {NoWorkflow}, force \in BOOLEAN, yesterday \in 0..MaxTasks :
       CreateRead(f, force, yesterday)
  \/ CreateInsert \/ LinkExisting
  \/ \E r \in Retriers : RetryWrite(r) \/ \E t \in Tasks : RetryRead(r, t)
  \/ StartWorker \/ WorkerStep
  \/ CancelWorker \/ StopProcess
  \/ \E t \in Tasks : LeaseRunsOut(t)

Spec == Init /\ [][Next]_vars

(***************************************************************************)
(* run_forever polls every second, the service restarts the worker, a      *)
(* submission has a timeout, and leases run out with time.                 *)
(***************************************************************************)
FairSpec ==
  /\ Spec
  /\ WF_vars(StartWorker) /\ WF_vars(WorkerStep)
  /\ \A t \in Tasks : WF_vars(LeaseRunsOut(t))

-----------------------------------------------------------------------------
\* Nothing is sent to 115 that nobody asked for: every submission answers a
\* request of its own, a create() or a retry(), whatever is interrupted,
\* recovered, or retried twice at once.
SubmissionsAreRequested == \A t \in Tasks : sent[t] <= requested[t]

\* The lease columns are empty once a task has an outcome; retry() relies on
\* it, for it does not write them.
SettledHasNoLease ==
  \A t \in Tasks :
    task[t].state \in {"accepted"} \cup Retryable => task[t].lease = "none"

\* REQ-009, 13: the PUSH stage follows the task it names, from the enqueuing
\* to the outcome, through retries and restarts: it runs exactly while the
\* task is on its way and succeeds exactly if 115 accepted it, unless a user
\* called it off.  For tasks that were created with their workflow.
StageFollowsTask ==
  \A f \in Workflows :
    LET push == stage[f]["push"]
        state == task[child[f]].state
    IN child[f] \in Tasks \ adopted /\ push # "cancelled" =>
         /\ push = "running" <=> state \in {"queued", "submitting"}
         /\ push = "succeeded" <=> state = "accepted"

(***************************************************************************)
(* What the documents say and the code does not keep.                      *)
(***************************************************************************)

\* REQ-009, 13: ... whichever way the task was linked.
LinkedStageEnds ==
  \A f \in Workflows :
    child[f] # NoTask /\ stage[f]["push"] = "running" =>
      task[child[f]].state \in {"queued", "submitting"}
=============================================================================
