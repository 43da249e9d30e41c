------------------------------ MODULE LeasedJob ------------------------------
(***************************************************************************)
(* What a durable job queue with leases promises, without tokens,          *)
(* revisions or clocks: every job has at most one holder, a holder may be  *)
(* replaced, and a client that was replaced may go on believing that it    *)
(* works on the job but can no longer finish it.                           *)
(* OrganizationOperations implements this specification.                   *)
(***************************************************************************)
CONSTANTS Jobs, Clients, NoJob, Nobody

VARIABLES
  state,    \* state[j]
  holder,   \* holder[j]: the client whose word on the running job counts
  working   \* working[c]: the job client c believes it holds

jobVars == <<state, holder, working>>

JobInit ==
  /\ state \in [Jobs -> {"absent", "planned"}]
  /\ holder = [j \in Jobs |-> Nobody]
  /\ working = [c \in Clients |-> NoJob]

Enqueue(j) ==
  /\ state[j] = "absent"
  /\ state' = [state EXCEPT ![j] = "planned"]
  /\ UNCHANGED <<holder, working>>

\* The first holder of a waiting job, or the next one of a running job.
Acquire(j, c) ==
  /\ state[j] \in {"planned", "organizing"}
  /\ working[c] = NoJob
  /\ state' = [state EXCEPT ![j] = "organizing"]
  /\ holder' = [holder EXCEPT ![j] = c]
  /\ working' = [working EXCEPT ![c] = j]

\* A client forgets its job; a job it held is left without a holder.
GiveUp(c) ==
  /\ working[c] # NoJob
  /\ working' = [working EXCEPT ![c] = NoJob]
  /\ holder' = [j \in Jobs |-> IF holder[j] = c THEN Nobody ELSE holder[j]]
  /\ UNCHANGED state

\* The holder can no longer prove that it is the holder.
Orphan(j) ==
  /\ state[j] = "organizing"
  /\ holder[j] # Nobody
  /\ holder' = [holder EXCEPT ![j] = Nobody]
  /\ UNCHANGED <<state, working>>

\* Only the holder of a running job finishes it.
FinishJob(j, c, result) ==
  /\ state[j] = "organizing"
  /\ holder[j] = c
  /\ working[c] = j
  /\ state' = [state EXCEPT ![j] = result]
  /\ holder' = [holder EXCEPT ![j] = Nobody]
  /\ working' = [working EXCEPT ![c] = NoJob]

\* A waiting job is cancelled, a failed one waits again.
CancelJob(j) ==
  /\ state[j] = "planned"
  /\ state' = [state EXCEPT ![j] = "cancelled"]
  /\ UNCHANGED <<holder, working>>

RetryJob(j) ==
  /\ state[j] = "failed"
  /\ state' = [state EXCEPT ![j] = "planned"]
  /\ UNCHANGED <<holder, working>>

JobNext ==
  \/ \E j \in Jobs : Enqueue(j) \/ Orphan(j) \/ CancelJob(j) \/ RetryJob(j)
  \/ \E c \in Clients : GiveUp(c)
  \/ \E j \in Jobs, c \in Clients :
       \/ Acquire(j, c)
       \/ \E result \in {"organized", "failed", "uncertain"} :
            FinishJob(j, c, result)

JobSpec == JobInit /\ [][JobNext]_jobVars
=============================================================================
