----------------------------- MODULE Subscriptions -----------------------------
(***************************************************************************)
(* SubscriptionService and SubscriptionScheduler: the subscriptions of one *)
(* scope (a film, a season, some episodes) and their checks, which search  *)
(* for resources and remember the ones that were seen                      *)
(* (services/subscriptions.py, services/subscription_scheduler.py).        *)
(*                                                                         *)
(* A call is a sequence of sessions.  What it read may be old when it      *)
(* writes, and a column that is assigned its loaded value is not written.  *)
(* A caller may name any revision, so the revision is not kept.  A row is  *)
(* due when its next_check_at has passed; there is no clock.               *)
(***************************************************************************)
EXTENDS Naturals, FiniteSets

CONSTANTS
  Resources,    \* canonical keys that a search may find
  Callers,      \* concurrent calls of the API
  Scheduler,    \* the call that the scheduler makes
  Scoped,       \* whether season and episodes are given: NULLs are not unique
  MaxRows, MaxChanges, MaxSearches, MaxStops,  \* bounds
  NoRow

VARIABLES
  sub,       \* sub[n]: a subscription, numbered as they are created
  observed,  \* observed[n]: the resources that have an observation row
  call,      \* call[c]: a call between two of its sessions
  listed,    \* the rows that run_due_once has still to check
  used,      \* what the bounds count
  reported,  \* reported[n][r]: how many checks returned r as new
  wanted     \* wanted[n]: no user has paused or cancelled n since it was active

subVars == <<sub, observed, call, listed, used, reported, wanted>>

Rows == 1..MaxRows
Calls == Callers \cup {Scheduler}
Status == {"absent", "active", "matched", "no_match", "paused", "cancelled"}
Stopped == {"paused", "cancelled"}
Schedulable == {"active", "matched", "no_match"}
Next_check == {"none", "due", "later"}

Idle == [pc |-> "idle", row |-> NoRow, loaded |-> "absent", status |-> "absent",
         found |-> {}, new |-> {}]

TypeOK ==
  /\ sub \in [Rows -> [status : Status, next : Next_check]]
  /\ observed \in [Rows -> SUBSET Resources]
  /\ call \in [Calls ->
       [pc : {"idle", "insert", "mutate", "search", "observe", "insert_new",
              "conclude", "finish", "failed"},
        row : Rows \cup {NoRow}, loaded : Status, status : Status,
        found : SUBSET Resources, new : SUBSET Resources]]
  /\ listed \subseteq Rows
  /\ used \in [changes : 0..MaxChanges, searches : 0..MaxSearches, stops : 0..MaxStops]
  /\ reported \in [Rows -> [Resources -> Nat]]
  /\ wanted \in [Rows -> BOOLEAN]

Init ==
  /\ sub = [n \in Rows |-> [status |-> "absent", next |-> "none"]]
  /\ observed = [n \in Rows |-> {}]
  /\ call = [c \in Calls |-> Idle]
  /\ listed = {}
  /\ used = [changes |-> 0, searches |-> 0, stops |-> 0]
  /\ reported = [n \in Rows |-> [r \in Resources |-> 0]]
  /\ wanted = [n \in Rows |-> FALSE]

Exists(n) == sub[n].status # "absent"
Goto(c, next) == call' = [call EXCEPT ![c] = next]
Spend(what, limit) == used[what] < limit /\ used' = [used EXCEPT ![what] = @ + 1]
Differs(loaded, new, current) == IF new = loaded THEN current ELSE new

(***************************************************************************)
(* create(): any row of the scope that the SELECT returns first decides.   *)
(***************************************************************************)
CreateRead(c) ==
  /\ call[c] = Idle
  /\ \/ \A n \in Rows : ~Exists(n)
     \/ \E n \in Rows : sub[n].status = "cancelled"
  /\ Goto(c, [Idle EXCEPT !.pc = "insert"])
  /\ UNCHANGED <<sub, observed, listed, used, reported, wanted>>

CreateInsert(c, n) ==
  /\ call[c].pc = "insert"
  /\ \A m \in Rows : Exists(m) <=> m < n
  /\ IF Scoped /\ \E m \in Rows : Exists(m)
     THEN UNCHANGED <<sub, wanted>>          \* uq_subscription_scope
     ELSE /\ sub' = [sub EXCEPT ![n] = [status |-> "active", next |-> "due"]]
          /\ wanted' = [wanted EXCEPT ![n] = TRUE]
  /\ Goto(c, Idle)
  /\ UNCHANGED <<observed, listed, used, reported>>

(***************************************************************************)
(* mutate(): pause, resume and cancel.                                     *)
(***************************************************************************)
MutateRead(c, n, status) ==
  /\ call[c] = Idle
  /\ Exists(n)
  /\ status \in {"paused", "active"} => sub[n].status # "cancelled"
  /\ Spend("changes", MaxChanges)
  /\ Goto(c, [Idle EXCEPT !.pc = "mutate", !.row = n, !.loaded = sub[n].status,
                          !.status = status])
  /\ UNCHANGED <<sub, observed, listed, reported, wanted>>

MutateWrite(c) ==
  LET me == call[c]
      n == me.row
  IN /\ me.pc = "mutate"
     /\ sub' = [sub EXCEPT
          ![n].status = Differs(me.loaded, me.status, @),
          ![n].next = CASE me.status = "active" -> "due"
                        [] me.status = "cancelled" -> "none"
                        [] OTHER -> @]
     /\ wanted' = [wanted EXCEPT ![n] = me.status = "active"]
     /\ Goto(c, Idle)
     /\ UNCHANGED <<observed, listed, used, reported>>

(***************************************************************************)
(* check(): the status is read, the search is awaited, the observations    *)
(* are recorded, and the outcome is written whatever the status is then.   *)
(***************************************************************************)
StartCheck(c, n) ==
  /\ call[c] = Idle
  /\ sub[n].status \in Schedulable
  /\ Spend("searches", MaxSearches)
  /\ Goto(c, [Idle EXCEPT !.pc = "search", !.row = n])
  /\ UNCHANGED <<sub, observed, reported, wanted>>

SearchFinds(c, found) ==
  /\ call[c].pc = "search"
  /\ Goto(c, [call[c] EXCEPT !.pc = IF found = {} THEN "conclude" ELSE "observe",
                             !.found = found])
  /\ UNCHANGED <<sub, observed, listed, used, reported, wanted>>

SearchFails(c) ==
  /\ call[c].pc = "search"
  /\ Goto(c, [call[c] EXCEPT !.pc = "failed"])
  /\ UNCHANGED <<sub, observed, listed, used, reported, wanted>>

RecordFailure(c) ==
  /\ call[c].pc = "failed"
  /\ sub' = [sub EXCEPT ![call[c].row].next = "later"]
  /\ Goto(c, Idle)
  /\ UNCHANGED <<observed, listed, used, reported, wanted>>

ReadObservations(c) ==
  /\ call[c].pc = "observe"
  /\ Goto(c, [call[c] EXCEPT !.pc = "insert_new",
                             !.new = call[c].found \ observed[call[c].row]])
  /\ UNCHANGED <<sub, observed, listed, used, reported, wanted>>

\* Mutant: rows that another check has inserted meanwhile are left alone.
BugRefused(n, new) == FALSE

\* The key of an observation is made from the subscription and the resource.
Refused(n, new) == new \cap observed[n] # {}

\* Another check has inserted one of the rows: the insert, and with it the
\* check, raises.
InsertObservations(c) ==
  LET n == call[c].row
      new == call[c].new
  IN /\ call[c].pc = "insert_new"
     /\ IF Refused(n, new)
        THEN Goto(c, Idle) /\ UNCHANGED <<observed, reported>>
        ELSE /\ observed' = [observed EXCEPT ![n] = @ \cup new]
             /\ reported' = [reported EXCEPT ![n] =
                  [r \in Resources |-> @[r] + IF r \in new THEN 1 ELSE 0]]
             /\ Goto(c, [call[c] EXCEPT !.pc = "conclude"])
     /\ UNCHANGED <<sub, listed, used, wanted>>

ReadOutcome(c) ==
  /\ call[c].pc = "conclude"
  /\ Goto(c, [call[c] EXCEPT !.pc = "finish", !.loaded = sub[call[c].row].status])
  /\ UNCHANGED <<sub, observed, listed, used, reported, wanted>>

WriteOutcome(c) ==
  LET me == call[c] IN
  /\ me.pc = "finish"
  /\ sub' = [sub EXCEPT
       ![me.row].status =
         Differs(me.loaded, IF me.found = {} THEN "no_match" ELSE "matched", @),
       ![me.row].next = "later"]
  /\ Goto(c, Idle)
  /\ UNCHANGED <<observed, listed, used, reported, wanted>>

CheckStep(c) ==
  \/ \E found \in SUBSET Resources : SearchFinds(c, found)
  \/ SearchFails(c)
  \/ RecordFailure(c)
  \/ ReadObservations(c)
  \/ InsertObservations(c)
  \/ ReadOutcome(c)
  \/ WriteOutcome(c)

(***************************************************************************)
(* run_due_once: the due rows are listed, then checked one after another.  *)
(***************************************************************************)
Due(n) == sub[n].status \in Schedulable /\ sub[n].next = "due"

\* Mutant: a row that was never searched is not found by the SELECT.
BugListed == {n \in Rows : Due(n) /\ sub[n].status # "active"}
Listed == {n \in Rows : Due(n)}

ListDue ==
  /\ call[Scheduler] = Idle
  /\ listed = {}
  /\ Listed # {}
  /\ listed' = Listed
  /\ UNCHANGED <<sub, observed, call, used, reported, wanted>>

CheckListed(n) ==
  /\ n \in listed
  /\ StartCheck(Scheduler, n)
  /\ listed' = listed \ {n}

\* check() finds it paused or cancelled meanwhile, and the next one is taken.
SkipListed(n) ==
  /\ call[Scheduler] = Idle
  /\ n \in listed
  /\ sub[n].status \notin Schedulable
  /\ listed' = listed \ {n}
  /\ UNCHANGED <<sub, observed, call, used, reported, wanted>>

ScheduleStep ==
  \/ ListDue
  \/ \E n \in Rows : CheckListed(n) \/ SkipListed(n)
  \/ CheckStep(Scheduler)

TimePasses(n) ==
  /\ sub[n].next = "later"
  /\ sub' = [sub EXCEPT ![n].next = "due"]
  /\ UNCHANGED <<observed, call, listed, used, reported, wanted>>

Restart ==
  /\ Spend("stops", MaxStops)
  /\ call' = [c \in Calls |-> Idle]
  /\ listed' = {}
  /\ UNCHANGED <<sub, observed, reported, wanted>>

Next ==
  \/ \E c \in Callers :
       \/ CreateRead(c)
       \/ \E n \in Rows :
            \/ CreateInsert(c, n)
            \/ \E status \in Stopped \cup {"active"} : MutateRead(c, n, status)
            \/ StartCheck(c, n) /\ UNCHANGED listed
       \/ MutateWrite(c)
       \/ CheckStep(c)
  \/ ScheduleStep
  \/ \E n \in Rows : TimePasses(n)
  \/ Restart

Spec == Init /\ [][Next]_subVars

\* The scheduler runs every minute, and a search ends.
FairSpec == Spec /\ WF_subVars(ScheduleStep)

(***************************************************************************)
(* Properties.                                                             *)
(***************************************************************************)

\* A resource is reported as new by one check of a subscription, whatever other
\* checks run at the same time (_record_observations).
NewIsReportedOnce ==
  \A n \in Rows, r \in Resources : reported[n][r] <= 1

\* A search starts for a subscription only if no user has paused or cancelled
\* it since it was active.
PausedIsNotSearched ==
  [][\A n \in Rows, c \in Calls :
       StartCheck(c, n) => wanted[n]]_subVars
=============================================================================
