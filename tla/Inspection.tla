------------------------------- MODULE Inspection -------------------------------
(***************************************************************************)
(* InspectionService and InspectionWorker: batches of magnets whose        *)
(* content is read through qBittorrent, with a cache per infohash          *)
(* (services/inspection.py), and the removal of what has expired (db.py).  *)
(*                                                                         *)
(* There is one worker.  It takes the oldest batch and inspects its items  *)
(* at the same time; each item is claimed and stored in a transaction of   *)
(* its own.  A resource is named by its infohash.  There is no clock.      *)
(***************************************************************************)
EXTENDS Naturals, FiniteSets

CONSTANTS
  Magnets,       \* resources that can be inspected
  MaxBatches,    \* bound: batches, numbered as they are created
  MaxStops,      \* bound: how often the process stops
  NoBatch

VARIABLES
  batch,     \* batch[b]: the row of a batch
  item,      \* item[b][m]: the status of an item
  cache,     \* cache[m]: the row of magnet_metadata_cache
  resource,  \* resource[m]: the row of the resource, expired or not
  worker,    \* run_once
  inspect,   \* inspect[m]: the coroutine of an item of the worker's batch
  halts      \* how often the process has stopped

inspectVars == <<batch, item, cache, resource, worker, inspect, halts>>

Batches == 1..MaxBatches
Ended == {"verified", "timeout", "failed"}
Open == {"queued", "running"}
BatchStatus == {"absent"} \cup Open \cup {"completed", "partial", "failed"}

Idle == [pc |-> "idle", batch |-> NoBatch]
Stopped == [pc |-> "recover", batch |-> NoBatch]
NoItem == [m \in Magnets |-> "none"]

TypeOK ==
  /\ batch \in [Batches -> [status : BatchStatus, old : BOOLEAN]]
  /\ item \in [Batches -> [Magnets -> {"none"} \cup Open \cup Ended]]
  /\ cache \in [Magnets -> {"none", "verified", "timeout", "expired"}]
  /\ resource \in [Magnets -> {"live", "expired", "gone"}]
  /\ worker \in [pc : {"recover", "idle", "depend", "list", "run"},
                 batch : Batches \cup {NoBatch}]
  /\ inspect \in [Magnets -> {"none", "claim", "ask"} \cup Ended]
  /\ halts \in 0..MaxStops

Init ==
  /\ batch = [b \in Batches |-> [status |-> "absent", old |-> FALSE]]
  /\ item = [b \in Batches |-> NoItem]
  /\ cache = [m \in Magnets |-> "none"]
  /\ resource = [m \in Magnets |-> "live"]
  /\ worker = Stopped
  /\ inspect = NoItem
  /\ halts = 0

Items(b) == {m \in Magnets : item[b][m] # "none"}
Unfinished(b) == {m \in Magnets : item[b][m] \in Open}

\* What the items of a batch that have all ended say of it.
Outcome(results) ==
  IF results = {"verified"} THEN "completed"
  ELSE IF "verified" \in results THEN "partial" ELSE "failed"

(***************************************************************************)
(* InspectionService.create: items with a usable cache entry end at once.  *)
(***************************************************************************)
Create(b, magnets, force) ==
  LET cached(m) == cache[m] \in {"verified", "timeout"} /\ ~force
      row == [m \in Magnets |-> IF m \notin magnets THEN "none"
                                ELSE IF cached(m) THEN cache[m] ELSE "queued"]
  IN /\ magnets # {}
     /\ batch[b].status = "absent" /\ item[b] = NoItem
     /\ \A c \in Batches : c < b => batch[c].status # "absent" \/ batch[c].old
     /\ ~batch[b].old
     /\ \A m \in magnets : resource[m] = "live"
     /\ item' = [item EXCEPT ![b] = row]
     /\ batch' = [batch EXCEPT ![b].status =
          IF \E m \in magnets : row[m] = "queued" THEN "queued"
          ELSE Outcome({row[m] : m \in magnets})]
     /\ UNCHANGED <<cache, resource, worker, inspect, halts>>

(***************************************************************************)
(* run_forever: recover_after_restart, then run_once again and again.      *)
(***************************************************************************)
\* Mutant: the batches that were running stay so.
BugRecovered(status) == status
Recovered(status) == IF status \in Open THEN "queued" ELSE status

Recover ==
  /\ worker = Stopped
  /\ worker' = Idle
  /\ batch' = [b \in Batches |-> [batch[b] EXCEPT !.status = Recovered(@)]]
  /\ item' = [b \in Batches |-> [m \in Magnets |->
                IF item[b][m] = "running" THEN "queued" ELSE item[b][m]]]
  /\ UNCHANGED <<cache, resource, inspect, halts>>

ClaimBatch(b) ==
  /\ worker = Idle
  /\ batch[b].status = "queued"
  /\ \A c \in Batches : c < b => batch[c].status # "queued"
  /\ batch' = [batch EXCEPT ![b].status = "running"]
  /\ worker' = [pc |-> "depend", batch |-> b]
  /\ UNCHANGED <<item, cache, resource, inspect, halts>>

\* Mutant: the batch fails although some items have ended.
BugUntouched(b) == TRUE
Untouched(b) == \A m \in Magnets : item[b][m] \notin Ended

\* _ensure_dependency.  qBittorrent cannot be reached: the batch fails as a
\* whole, unless some of its items have ended.
Depend(available) ==
  LET b == worker.batch
      fails == ~available /\ Untouched(b)
  IN /\ worker.pc = "depend"
     /\ worker' = IF fails THEN Idle ELSE [worker EXCEPT !.pc = "list"]
     /\ batch' = IF fails /\ batch[b].status # "absent"
                 THEN [batch EXCEPT ![b].status = "failed"] ELSE batch
     /\ UNCHANGED <<item, cache, resource, inspect, halts>>

ListItems ==
  /\ worker.pc = "list"
  /\ worker' = [worker EXCEPT !.pc = "run"]
  /\ inspect' = [m \in Magnets |-> IF m \in Unfinished(worker.batch) THEN "claim" ELSE "none"]
  /\ UNCHANGED <<batch, item, cache, resource, halts>>

ClaimItem(m) ==
  LET b == worker.batch IN
  /\ inspect[m] = "claim"
  /\ IF item[b][m] \notin Open
     THEN inspect' = [inspect EXCEPT ![m] = "none"] /\ UNCHANGED item
     ELSE /\ item' = [item EXCEPT ![b][m] = "running"]
          /\ inspect' = [inspect EXCEPT ![m] = "ask"]
  /\ UNCHANGED <<batch, cache, resource, worker, halts>>

Inspect(m, result) ==
  /\ inspect[m] = "ask"
  /\ inspect' = [inspect EXCEPT ![m] = result]
  /\ UNCHANGED <<batch, item, cache, resource, worker, halts>>

\* Mutant: a timeout replaces what is known.
BugCached(m, result) == IF result = "failed" THEN cache[m] ELSE result

\* _store_cache
Cached(m, result) ==
  IF result = "failed" \/ (result = "timeout" /\ cache[m] = "verified")
  THEN cache[m] ELSE result

\* Nothing is stored for an item that was removed or has ended.
StoreResult(m) ==
  LET b == worker.batch IN
  /\ inspect[m] \in Ended
  /\ IF item[b][m] \in Open
     THEN /\ item' = [item EXCEPT ![b][m] = inspect[m]]
          /\ cache' = [cache EXCEPT ![m] = Cached(m, inspect[m])]
     ELSE UNCHANGED <<item, cache>>
  /\ inspect' = [inspect EXCEPT ![m] = "none"]
  /\ UNCHANGED <<batch, resource, worker, halts>>

FinalizeBatch ==
  LET b == worker.batch IN
  /\ worker.pc = "run"
  /\ inspect = NoItem
  /\ worker' = Idle
  /\ batch' = IF batch[b].status \in {"absent", "failed"} \/ Unfinished(b) # {}
              THEN batch
              ELSE [batch EXCEPT ![b].status = Outcome({item[b][m] : m \in Items(b)})]
  /\ UNCHANGED <<item, cache, resource, inspect, halts>>

WorkerStep ==
  \/ Recover
  \/ \E b \in Batches : ClaimBatch(b)
  \/ \E available \in BOOLEAN : Depend(available)
  \/ ListItems
  \/ \E m \in Magnets :
       \/ ClaimItem(m)
       \/ \E result \in Ended : Inspect(m, result)
       \/ StoreResult(m)
  \/ FinalizeBatch

Stop ==
  /\ halts < MaxStops
  /\ halts' = halts + 1
  /\ worker' = Stopped
  /\ inspect' = NoItem
  /\ UNCHANGED <<batch, item, cache, resource>>

(***************************************************************************)
(* Time, and cleanup_expired.  An item refers to its resource with ON      *)
(* DELETE RESTRICT: one item in the way refuses the whole transaction.     *)
(* Push tasks, which also keep a resource, are left out.                   *)
(***************************************************************************)
TimePasses ==
  /\ \/ \E m \in Magnets :
          /\ cache[m] = "timeout"
          /\ cache' = [cache EXCEPT ![m] = "expired"]
          /\ UNCHANGED <<batch, resource>>
     \/ \E m \in Magnets :
          /\ resource[m] = "live"
          /\ resource' = [resource EXCEPT ![m] = "expired"]
          /\ UNCHANGED <<batch, cache>>
     \/ \E b \in Batches :
          /\ batch[b].status # "absent" /\ ~batch[b].old
          /\ batch' = [batch EXCEPT ![b].old = TRUE]
          /\ UNCHANGED <<cache, resource>>
  /\ UNCHANGED <<item, worker, inspect, halts>>

Unprotected ==
  {m \in Magnets : resource[m] = "expired"
     /\ \A b \in Batches : batch[b].status \in Open => item[b][m] \notin Open}

Refused == \E m \in Unprotected, b \in Batches : item[b][m] # "none"

Cleanup ==
  /\ ~Refused
  /\ resource' = [m \in Magnets |-> IF m \in Unprotected THEN "gone" ELSE resource[m]]
  /\ cache' = [m \in Magnets |-> IF cache[m] = "expired" THEN "none" ELSE cache[m]]
  /\ batch' = [b \in Batches |->
       IF batch[b].old THEN [batch[b] EXCEPT !.status = "absent"] ELSE batch[b]]
  /\ item' = [b \in Batches |-> IF batch[b].old THEN NoItem ELSE item[b]]
  /\ UNCHANGED <<worker, inspect, halts>>

Next ==
  \/ \E b \in Batches, magnets \in SUBSET Magnets, force \in BOOLEAN :
       Create(b, magnets, force)
  \/ WorkerStep
  \/ Stop
  \/ TimePasses
  \/ Cleanup

Spec == Init /\ [][Next]_inspectVars

\* The worker is started with the process and polls, and an inspection has a
\* timeout.  The warming calls cleanup_expired every night.
FairSpec == Spec /\ WF_inspectVars(WorkerStep) /\ WF_inspectVars(Cleanup)

(***************************************************************************)
(* Properties.                                                             *)
(***************************************************************************)

\* A batch that has ended says what its items say: no item of a completed batch
\* is open or was not verified, and a batch with a verified item did not fail
\* (_batch_status, _ensure_dependency, _finalize_batch).
BatchFollowsItems ==
  \A b \in Batches :
    LET results == {item[b][m] : m \in Items(b)} IN
    /\ batch[b].status = "completed" => results = {"verified"}
    /\ batch[b].status = "partial" => "verified" \in results /\ results \cap Open = {}
    /\ batch[b].status = "failed" => "verified" \notin results

\* What was verified stays known, whatever is inspected again (_store_cache).
VerifiedIsKept ==
  \A m \in Magnets : cache[m] = "verified" => cache'[m] = "verified"

\* A batch whose retention has passed is removed.
ExpiredIsRemoved ==
  \A b \in Batches : batch[b].status # "absent" /\ batch[b].old ~> batch[b].status = "absent"
=============================================================================
