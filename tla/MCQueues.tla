------------------------------- MODULE MCQueues -------------------------------
(***************************************************************************)
(* TLC instance of everything that works through a queue: the organization *)
(* worker, the push worker, the webhook publisher, the scheduler of        *)
(* subscriptions, search jobs and the inspection worker.  As in MCServices *)
(* the first state chooses the component that moves.  The fairness is that *)
(* of each component, for the behaviours in which it is chosen.            *)
(***************************************************************************)
EXTENDS MCOrganizationExecutor

CONSTANTS
  None,
  \* Subscriptions
  Releases, Callers, Scheduler, Scoped, MaxRows, MaxChanges, MaxSearches, MaxRestarts, NoSubscription,
  \* FixtureProbe
  Visitors, ListingCalls

\* The visitors are nothing of the fixture, and a listing takes at most the pages
\* that it may take.
ASSUME ProbeAssumption ==
  /\ Visitors \cap {"root", "source", "quarantine", "artifact", "base", "nowhere"} = {}
  /\ ListingCalls \subseteq 0..4

VARIABLES
  part,
  \* PushTasks
  status, stage, session, task, child, creator, retrier, pusher, leftover,
  interruptions, requested, sent, adopted,
  \* WebhookDeliveries
  endpoint, delivery, due, publisher, bounds, accepted,
  \* Subscriptions
  sub, observed, check, listed, used, reported, wanted,
  \* SearchJobs
  job, object, current, client, latest, snapshot, stops, told,
  \* Inspection
  batch, item, cache, resource, inspector, inspect, halts,
  \* FixtureProbe
  tree, unsettled, position, writes, lists, reads, pages, recycled, early, report

Push == INSTANCE PushTasks WITH
  worker <- pusher, stops <- interruptions,
  Workflows <- {"f"}, Stages <- {"approval", "push"}, Sessions <- {},
  Patched <- {"approval"}, PatchValues <- {"waiting_confirmation"},
  MaxTasks <- 2, MaxRequests <- 1, MaxStops <- 1, Retriers <- {"r"},
  NoTask <- None, NoWorkflow <- "none"

Receiver == <<"e1", "e2">>

Hooks == INSTANCE WebhookDeliveries WITH
  Endpoints <- {Receiver[1], Receiver[2]}, Publishers <- {"task", "route"}, Background <- "task",
  KeyChanges <- FALSE, MaxAttempts <- 2, MaxEvents <- 1, MaxRetries <- 0,
  MaxChanges <- 1, MaxRestarts <- 1, NoDelivery <- None

Following == INSTANCE Subscriptions WITH
  call <- check, Resources <- Releases, MaxStops <- MaxRestarts,
  NoRow <- NoSubscription

Jobs == INSTANCE SearchJobs WITH
  task <- object, Clients <- {"c"}, MaxJobs <- 2, MaxTasks <- 3, MaxStops <- 1,
  None <- None

Inspections == INSTANCE Inspection WITH
  worker <- inspector,
  Magnets <- {"m1"}, MaxBatches <- 2, MaxStops <- 1, NoBatch <- None

Probe == INSTANCE FixtureProbe WITH
  remote <- tree, sent <- recycled, late <- unsettled,
  Guests <- Visitors, PageCalls <- ListingCalls

-----------------------------------------------------------------------------
pushVars == <<status, stage, session, task, child, creator, retrier, pusher,
              leftover, interruptions, requested, sent, adopted>>
hookVars == <<endpoint, delivery, due, publisher, bounds, accepted>>
subVars == <<sub, observed, check, listed, used, reported, wanted>>
jobVars == <<job, object, current, client, latest, snapshot, stops, told>>
inspectVars == <<batch, item, cache, resource, inspector, inspect, halts>>
probeVars == <<tree, unsettled, position, writes, lists, reads, pages, recycled,
               early, report>>
queueVars == <<part, vars, pushVars, hookVars, subVars, jobVars, inspectVars,
       probeVars>>

QueuesInit ==
  /\ part \in {"organizing", "push", "hooks", "subscriptions", "jobs", "inspection",
               "probe"}
  /\ Init /\ Push!Init /\ Hooks!HookInit /\ Following!Init /\ Jobs!Init
  /\ Inspections!Init /\ Probe!Init
  \* One initial state of each component that does not move.
  /\ part # "jobs" => ~snapshot
  /\ part # "probe" => pages = 1

Keep(p) ==
  /\ UNCHANGED part
  /\ IF p = "organizing" THEN TRUE ELSE UNCHANGED vars
  /\ IF p = "push" THEN TRUE ELSE UNCHANGED pushVars
  /\ IF p = "hooks" THEN TRUE ELSE UNCHANGED hookVars
  /\ IF p = "subscriptions" THEN TRUE ELSE UNCHANGED subVars
  /\ IF p = "jobs" THEN TRUE ELSE UNCHANGED jobVars
  /\ IF p = "inspection" THEN TRUE ELSE UNCHANGED inspectVars
  /\ IF p = "probe" THEN TRUE ELSE UNCHANGED probeVars

QueuesNext ==
  \/ part = "organizing" /\ Next /\ Keep("organizing")
  \/ part = "push" /\ Push!Next /\ Keep("push")
  \/ part = "hooks" /\ Hooks!HookStep /\ Keep("hooks")
  \/ part = "subscriptions" /\ Following!Next /\ Keep("subscriptions")
  \/ part = "jobs" /\ Jobs!Next /\ Keep("jobs")
  \/ part = "inspection" /\ Inspections!Next /\ Keep("inspection")
  \/ part = "probe" /\ Probe!Next /\ Keep("probe")

\* The fairness of each component, while it is the one that moves.
Fair ==
  /\ WF_vars(part = "organizing" /\ StartWorker)
  /\ WF_vars(part = "organizing" /\ WorkerStep)
  /\ WF_pushVars(part = "push" /\ Push!StartWorker)
  /\ WF_pushVars(part = "push" /\ Push!WorkerStep)
  /\ \A n \in Push!Tasks : WF_pushVars(part = "push" /\ Push!LeaseRunsOut(n))
  /\ WF_hookVars(part = "hooks" /\ Hooks!PublishStep("task"))
  /\ \A n \in Hooks!Deliveries : WF_hookVars(part = "hooks" /\ Hooks!BecomeDue(n))
  /\ WF_subVars(part = "subscriptions" /\ Following!ScheduleStep)
  /\ WF_jobVars(part = "jobs" /\ Jobs!StartStep("c"))
  /\ \A n \in Jobs!TaskObjects : WF_jobVars(part = "jobs" /\ Jobs!RunStep(n))
  \* With one client that polls, weak fairness is enough.
  /\ \A n \in Jobs!Jobs : WF_jobVars(part = "jobs" /\ Jobs!Poll(n))
  /\ WF_inspectVars(part = "inspection" /\ Inspections!WorkerStep)
  /\ WF_inspectVars(part = "inspection" /\ Inspections!Cleanup)
  /\ WF_probeVars(part = "probe" /\ Probe!ProbeStep)

QueuesSpec ==
  /\ QueuesInit
  /\ [][QueuesNext]_queueVars
  /\ Fair

-----------------------------------------------------------------------------
(***************************************************************************)
(* The properties of the components.                                       *)
(***************************************************************************)

\* What is queued is taken: an approved organization by its worker, a push task
\* by the push worker, a subscription that is due by the scheduler, as long as
\* the bound lets a search start.
Queued(n) ==
  \/ /\ part = "organizing"
     /\ op[Queue[n]].status = "planned"
     /\ \A o \in Operations : plan[o] = "approved"
  \/ part = "push" /\ task[n].state = "queued"
  \/ /\ part = "subscriptions"
     /\ Following!Due(n)
     /\ check[Scheduler].row # n
     /\ used.searches < MaxSearches

QueuedIsTaken == \A n \in 1..2 : Queued(n) ~> ~Queued(n)

\* What was begun ends: a claimed organization has an outcome, a delivery is
\* delivered or dead, a search job that a client keeps asking for ends as long
\* as there are objects to load it into, a batch of inspections ends or is
\* removed, also when the process stops in the middle of them, and the fixture
\* probe reports.
Begun(n) ==
  \/ part = "organizing" /\ op[Queue[n]].status = "organizing"
  \/ part = "hooks" /\ Hooks!Pending(<<Receiver[n], 1>>)
  \/ /\ part = "jobs"
     /\ told[n] # "absent"
     /\ job[n] \in Jobs!Running
     /\ \E y \in Jobs!TaskObjects : object[y] = Jobs!NoTask
  \/ part = "inspection" /\ batch[n].status \in Inspections!Open
  \/ part = "probe" /\ report = Probe!Running

BegunEnds == \A n \in 1..2 : Begun(n) ~> ~Begun(n)

\* A resource is reported as new by one check of a subscription.
NewIsReportedOnce == Following!NewIsReportedOnce

\* The fixture probe cleans up after itself and nothing else.
ProbeIsTidy == part = "probe" => Probe!ProbeIsTidy
=============================================================================
