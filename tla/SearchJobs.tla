------------------------------ MODULE SearchJobs ------------------------------
(***************************************************************************)
(* SearchService.start_resource_search and get_resource_search_task: the   *)
(* search jobs of one title and season, kept in memory and in the table    *)
(* resource_search_jobs (services/search.py).                              *)
(*                                                                         *)
(* The memory holds one task object per title and season.  A task that is  *)
(* loaded from the table is another object with the same id, and a search  *)
(* is started for it if it has not ended.  Each save writes all columns.   *)
(***************************************************************************)
EXTENDS Naturals, FiniteSets

CONSTANTS
  Clients,    \* concurrent requests
  MaxJobs,    \* bound: jobs, numbered as they are created
  MaxTasks,   \* bound: task objects
  MaxStops,   \* bound: how often the process stops
  None

VARIABLES
  job,      \* job[j]: the status in the row of a job
  task,     \* task[o]: a task object and the coroutine that works on it
  current,  \* the task object that the memory holds
  client,   \* client[c]: a request
  latest,   \* the job whose row was written last
  snapshot, \* whether the search cache has a row
  stops,
  told      \* told[j]: the last status of j that a client was given

jobVars == <<job, task, current, client, latest, snapshot, stops, told>>

Jobs == 1..MaxJobs
TaskObjects == 1..MaxTasks
Ended == {"ready", "failed"}
Running == {"queued", "running"}
Status == {"absent"} \cup Running \cup Ended

NoTask == [id |-> None, status |-> "absent", pc |-> "none"]
Idle == [pc |-> "idle", task |-> None, id |-> None, status |-> "absent"]

TypeOK ==
  /\ job \in [Jobs -> Status]
  /\ task \in [TaskObjects -> [id : Jobs \cup {None}, status : Status,
                           pc : {"none", "start", "search", "save"}]]
  /\ current \in TaskObjects \cup {None}
  /\ client \in [Clients -> [pc : {"idle", "latest", "snapshot", "save", "load"},
                             task : TaskObjects \cup {None}, id : Jobs \cup {None},
                             status : Status]]
  /\ latest \in Jobs \cup {None}
  /\ snapshot \in BOOLEAN
  /\ stops \in 0..MaxStops
  /\ told \in [Jobs -> Status]

Init ==
  /\ job = [j \in Jobs |-> "absent"]
  /\ task = [o \in TaskObjects |-> NoTask]
  /\ current = None
  /\ client = [c \in Clients |-> Idle]
  /\ latest = None
  /\ snapshot \in BOOLEAN
  /\ stops = 0
  /\ told = [j \in Jobs |-> "absent"]

Set(c, next) == client' = [client EXCEPT ![c] = next]
Tell(j, status) == told' = [told EXCEPT ![j] = status]
NewObject(o) ==
  task[o] = NoTask /\ \A p \in TaskObjects : p < o => task[p] # NoTask
Write(j, status) == job' = [job EXCEPT ![j] = status] /\ latest' = j
Save(o) == Write(task[o].id, task[o].status)

(***************************************************************************)
(* start_resource_search: a job that runs is returned, one that is ready   *)
(* as well unless a refresh is asked for; otherwise there is a new one.    *)
(***************************************************************************)
Reuse(status, refresh) == status \in Running \/ (status = "ready" /\ ~refresh)
Known(refresh) == current # None /\ Reuse(task[current].status, refresh)

StartKnown(c, refresh) ==
  /\ client[c] = Idle
  /\ Known(refresh)
  /\ Tell(task[current].id, task[current].status)
  /\ UNCHANGED <<job, task, current, client, latest, snapshot, stops>>

Unused(j) == job[j] = "absent" /\ \A o \in TaskObjects : task[o].id # j

StartUnknown(c, refresh) ==
  /\ client[c] = Idle
  /\ \E j \in Jobs : Unused(j)
  /\ ~Known(refresh)
  /\ Set(c, [Idle EXCEPT !.pc = IF current = None THEN "latest" ELSE "snapshot",
                         !.status = IF refresh THEN "queued" ELSE "ready"])
  /\ UNCHANGED <<job, task, current, latest, snapshot, stops, told>>

\* _load_latest_resource_search_task, the job that was updated last.  A job
\* that has not ended is put into memory and run.
LoadLatest(c, o) ==
  LET j == latest
      refresh == client[c].status = "queued"
  IN
  /\ client[c].pc = "latest"
  /\ latest # None
  /\ IF job[j] \in Running
     THEN /\ NewObject(o)
          /\ task' = [task EXCEPT ![o] = [id |-> j, status |-> job[j], pc |-> "start"]]
          /\ current' = o
          /\ Tell(j, job[j])
          /\ Set(c, Idle)
     ELSE IF job[j] = "ready" /\ ~refresh
     THEN Tell(j, job[j]) /\ Set(c, Idle) /\ UNCHANGED <<task, current>>
     ELSE Set(c, [client[c] EXCEPT !.pc = "snapshot"]) /\ UNCHANGED <<task, current, told>>
  /\ UNCHANGED <<job, latest, snapshot, stops>>

LoadNothing(c) ==
  /\ client[c].pc = "latest"
  /\ latest = None
  /\ Set(c, [client[c] EXCEPT !.pc = "snapshot"])
  /\ UNCHANGED <<job, task, current, latest, snapshot, stops, told>>

\* The new task is in memory before its row is written.  It is ready at once
\* if there is a snapshot and no refresh was asked for.
Create(c, j, o) ==
  /\ client[c].pc = "snapshot"
  /\ NewObject(o)
  /\ \A i \in Jobs : Unused(i) <=> i >= j
  /\ task' = [task EXCEPT ![o] =
       [id |-> j, pc |-> "none",
        status |-> IF client[c].status = "ready" /\ snapshot THEN "ready" ELSE "queued"]]
  /\ current' = o
  /\ Set(c, [Idle EXCEPT !.pc = "save", !.task = o])
  /\ UNCHANGED <<job, latest, snapshot, stops, told>>

SaveCreated(c) ==
  LET o == client[c].task IN
  /\ client[c].pc = "save"
  /\ Save(o)
  /\ task' = [task EXCEPT ![o].pc = IF task[o].status = "ready" THEN "none" ELSE "start"]
  /\ Tell(task[o].id, task[o].status)
  /\ Set(c, Idle)
  /\ UNCHANGED <<current, snapshot, stops>>

(***************************************************************************)
(* get_resource_search_task.  A task that has ended is read under a lock   *)
(* that its coroutine holds while it saves the row.                        *)
(***************************************************************************)
InMemory(j) == current # None /\ task[current].id = j

PollKnown(c, j) ==
  /\ client[c] = Idle
  /\ InMemory(j)
  /\ told[j] # "absent"
  /\ task[current].pc # "save"
  /\ Tell(j, task[current].status)
  /\ UNCHANGED <<job, task, current, client, latest, snapshot, stops>>

PollUnknown(c, j) ==
  /\ client[c] = Idle
  /\ ~InMemory(j)
  /\ told[j] # "absent"
  /\ Set(c, [Idle EXCEPT !.pc = "load", !.id = j])
  /\ UNCHANGED <<job, task, current, latest, snapshot, stops, told>>

\* Mutant: the search of a task that was loaded is not started.
BugRestored(status) == "none"
Restored(status) == IF status \in Running THEN "start" ELSE "none"

Load(c, o) ==
  LET j == client[c].id IN
  /\ client[c].pc = "load"
  /\ IF job[j] = "absent"
     THEN UNCHANGED <<task, current, told>>
     ELSE /\ NewObject(o)
          /\ task' = [task EXCEPT ![o] =
               [id |-> j, status |-> job[j], pc |-> Restored(job[j])]]
          /\ current' = o
          /\ Tell(j, job[j])
  /\ Set(c, Idle)
  /\ UNCHANGED <<job, latest, snapshot, stops>>

(***************************************************************************)
(* _run_resource_search.                                                   *)
(***************************************************************************)
RunSearch(o) ==
  /\ task[o].pc = "start"
  /\ Write(task[o].id, "running")
  /\ task' = [task EXCEPT ![o].status = "running", ![o].pc = "search"]
  /\ UNCHANGED <<current, client, snapshot, stops, told>>

\* The status is set and the lock taken without a pause.
SearchEnds(o, status) ==
  /\ task[o].pc = "search"
  /\ task' = [task EXCEPT ![o].status = status, ![o].pc = "save"]
  /\ snapshot' = (snapshot \/ status = "ready")
  /\ UNCHANGED <<job, current, client, latest, stops, told>>

SaveEnded(o) ==
  /\ task[o].pc = "save"
  /\ Save(o)
  /\ task' = [task EXCEPT ![o].pc = "none"]
  /\ UNCHANGED <<current, client, snapshot, stops, told>>

RunStep(o) ==
  \/ RunSearch(o)
  \/ \E status \in Ended : SearchEnds(o, status)
  \/ SaveEnded(o)

\* The memory is lost; what a client was told is not.
Restart ==
  /\ stops < MaxStops
  /\ stops' = stops + 1
  /\ task' = [o \in TaskObjects |-> [task[o] EXCEPT !.pc = "none"]]
  /\ current' = None
  /\ client' = [c \in Clients |-> Idle]
  /\ UNCHANGED <<job, latest, snapshot, told>>

Poll(j) ==
  \E c \in Clients :
    \/ PollKnown(c, j)
    \/ PollUnknown(c, j)
    \/ client[c].id = j /\ \E o \in TaskObjects : Load(c, o)

StartStep(c) ==
  \/ \E o \in TaskObjects : LoadLatest(c, o) \/ \E j \in Jobs : Create(c, j, o)
  \/ LoadNothing(c)
  \/ SaveCreated(c)

Next ==
  \/ \E c \in Clients :
       \/ \E refresh \in BOOLEAN : StartKnown(c, refresh) \/ StartUnknown(c, refresh)
       \/ StartStep(c)
  \/ \E j \in Jobs : Poll(j)
  \/ \E o \in TaskObjects : RunStep(o)
  \/ Restart

Spec == Init /\ [][Next]_jobVars

\* A search ends, a request is answered, and a client that was given an id asks
\* for it again.
Fairness ==
  /\ \A c \in Clients : WF_jobVars(StartStep(c))
  /\ \A o \in TaskObjects : WF_jobVars(RunStep(o))
  /\ \A j \in Jobs : SF_jobVars(Poll(j))

FairSpec == Spec /\ Fairness
=============================================================================
