----------------------------- MODULE WorkflowStages -----------------------------
(***************************************************************************)
(* WorkflowService: top-level workflows whose status is derived from the   *)
(* statuses of their stages (services/workflows.py).                       *)
(*                                                                         *)
(* A method loads the workflow and one or all of its stages, and takes the *)
(* database's write lock only when its first change is flushed.  Each of   *)
(* patch_stage, decide_approval and cancel is therefore a read and a       *)
(* write; rows that were not loaded before the flush are read under the    *)
(* lock.  The ORM writes a column only if its value differs from the value *)
(* it loaded, whatever the column holds by then.                           *)
(***************************************************************************)
CONSTANTS
  Workflows,
  Stages,         \* the stage names of a workflow
  Sessions,       \* concurrent requests
  Patched,        \* the stages that clients patch ...
  PatchValues     \* ... and the statuses they give them

StageStatus == {"pending", "running", "waiting_confirmation",
                "waiting_external", "succeeded", "skipped", "failed",
                "uncertain", "cancelled"}

WorkflowStatus == {"in_progress", "waiting_user_confirmation",
                   "waiting_external", "partial", "completed", "cancelled",
                   "failed", "result_pending_confirmation"}

ASSUME StagesAssumption ==
  /\ {"approval", "push"} \subseteq Stages
  /\ Patched \subseteq Stages
  /\ PatchValues \subseteq StageStatus

VARIABLES
  status,    \* status[w]: the workflow's row, "absent" before create()
  stage,     \* stage[w][g]: the rows of its stages
  session    \* session[s]: what a request has loaded and not yet written

workflowVars == <<status, stage, session>>

NotStarted == {"pending", "waiting_confirmation", "waiting_external"}
Unclear == {"running", "uncertain"}

\* What a request loaded: the status of the workflow and some of the stages.
Loaded(kind, w, value, gs) ==
  [kind |-> kind, workflow |-> w, value |-> value, status |-> status[w],
   seen |-> [g \in gs |-> stage[w][g]]]

NoCall == [kind |-> "none"]

IsCall(call) ==
  /\ call.kind \in {"patch", "approve", "reject", "cancel"}
  /\ call.workflow \in Workflows
  /\ call.status \in WorkflowStatus
  /\ DOMAIN call.seen \subseteq Stages
  /\ call.seen \in [DOMAIN call.seen -> StageStatus]
  /\ call.kind = "patch" => call.value \in StageStatus
  /\ call.kind = "cancel" => DOMAIN call.seen = Stages

WorkflowTypeOK ==
  /\ status \in [Workflows -> WorkflowStatus \cup {"absent"}]
  /\ stage \in [Workflows -> [Stages -> StageStatus]]
  /\ DOMAIN session = Sessions
  /\ \A s \in Sessions : session[s] = NoCall \/ IsCall(session[s])

WorkflowInit ==
  /\ status = [w \in Workflows |-> "absent"]
  /\ stage = [w \in Workflows |-> [g \in Stages |-> "pending"]]
  /\ session = [s \in Sessions |-> NoCall]

(***************************************************************************)
(* _derive_status: the first line that applies.                            *)
(***************************************************************************)
DeriveStatus(of) ==
  LET Some(s) == \E g \in Stages : of[g] = s
  IN IF Some("uncertain") THEN "result_pending_confirmation"
     ELSE IF Some("waiting_confirmation") THEN "waiting_user_confirmation"
     ELSE IF Some("waiting_external") THEN "waiting_external"
     ELSE IF Some("running") \/ Some("pending")
          THEN IF Some("failed") THEN "partial" ELSE "in_progress"
     ELSE IF Some("failed")
          THEN IF Some("succeeded") THEN "partial" ELSE "failed"
     ELSE IF \A g \in Stages : of[g] = "cancelled" THEN "cancelled"
     ELSE IF Some("cancelled") THEN "partial"
     ELSE "completed"

\* A column that a session loaded and assigned to, as it is stored.
Written(loaded, value, stored) == IF value = loaded THEN stored ELSE value

\* The commit of a session whose view of the stages is of.
Save(call, of) ==
  LET w == call.workflow
  IN /\ stage' = [stage EXCEPT ![w] =
          [g \in Stages |->
             IF g \in DOMAIN call.seen
             THEN Written(call.seen[g], of[g], stage[w][g])
             ELSE of[g]]]
     /\ status' = [status EXCEPT ![w] =
          Written(call.status, DeriveStatus(of), @)]

\* link_child and sync_child_stage: their callers have changed a task in the
\* same session, so the lock is taken before the workflow is loaded.
RecordStage(w, g, value) ==
  Save(Loaded("sync", w, value, {}), [stage[w] EXCEPT ![g] = value])

CreateWorkflow(w) ==
  /\ status[w] = "absent"
  /\ status' = [status EXCEPT ![w] = "in_progress"]
  /\ UNCHANGED <<stage, session>>

Load(s, kind, w, value, gs) ==
  /\ session[s] = NoCall
  /\ status[w] # "absent"
  /\ session' = [session EXCEPT ![s] = Loaded(kind, w, value, gs)]
  /\ UNCHANGED <<status, stage>>

Commit(s, of) ==
  /\ Save(session[s], of)
  /\ session' = [session EXCEPT ![s] = NoCall]

(***************************************************************************)
(* patch_stage sets any stage to any status.                               *)
(***************************************************************************)
PatchRead(s, w, g, value) == Load(s, "patch", w, value, {g})

PatchWrite(s) ==
  LET call == session[s]
  IN /\ call.kind = "patch"
     /\ Commit(s, [g \in Stages |-> IF g \in DOMAIN call.seen
                                    THEN call.value
                                    ELSE stage[call.workflow][g]])

(***************************************************************************)
(* decide_approval.  A rejection cancels what has not started; it loads    *)
(* the other stages after the approval was flushed.                        *)
(***************************************************************************)
DecideRead(s, w, decision) ==
  /\ stage[w]["approval"] = "waiting_confirmation"
  /\ Load(s, decision, w, "none", {"approval"})

ApproveWrite(s) ==
  /\ session[s].kind = "approve"
  /\ Commit(s, [stage[session[s].workflow] EXCEPT !["approval"] = "succeeded"])

BugRejectedView(of) == [g \in Stages |-> "cancelled"]

RejectedView(of) ==
  [g \in Stages |->
     IF g = "approval" \/ of[g] \in NotStarted THEN "cancelled" ELSE of[g]]

RejectWrite(s) ==
  /\ session[s].kind = "reject"
  /\ Commit(s, RejectedView(stage[session[s].workflow]))

(***************************************************************************)
(* cancel loads everything first and looks at nothing again.               *)
(***************************************************************************)
Cancellable(w) ==
  /\ status[w] \notin {"completed", "cancelled", "failed"}
  /\ \A g \in Stages : stage[w][g] \notin Unclear
  /\ \E g \in Stages : stage[w][g] \in NotStarted

CancelRead(s, w) == Cancellable(w) /\ Load(s, "cancel", w, "none", Stages)

CancelWrite(s) ==
  LET seen == session[s].seen
  IN /\ session[s].kind = "cancel"
     /\ Commit(s, [g \in Stages |-> IF seen[g] \in NotStarted
                                    THEN "cancelled" ELSE seen[g]])

WorkflowStep ==
  \/ \E w \in Workflows : CreateWorkflow(w)
  \/ \E s \in Sessions, w \in Workflows :
       \/ \E g \in Patched, value \in PatchValues : PatchRead(s, w, g, value)
       \/ \E decision \in {"approve", "reject"} : DecideRead(s, w, decision)
       \/ CancelRead(s, w)
  \/ \E s \in Sessions :
       PatchWrite(s) \/ ApproveWrite(s) \/ RejectWrite(s) \/ CancelWrite(s)

-----------------------------------------------------------------------------
\* The comment in decide_approval: "A running or uncertain child remains
\* visible and cannot be rewritten" by a rejection, whatever was started
\* after the rejection was read.
RejectionKeepsRunning ==
  [][\A s \in Sessions :
       LET w == session[s].workflow
       IN session[s].kind = "reject" /\ session'[s] = NoCall =>
            \A g \in Stages \ {"approval"} :
              stage[w][g] \in Unclear => stage'[w][g] = stage[w][g]]_workflowVars

\* REQ-009: the top-level status is computed from the child tasks.
StatusIsDerived ==
  \A w \in Workflows :
    status[w] # "absent" => status[w] = DeriveStatus(stage[w])
=============================================================================
