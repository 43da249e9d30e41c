------------------------------ MODULE LibraryScan ------------------------------
(***************************************************************************)
(* LibraryIndexService: paged scans of one library directory of 115 into   *)
(* run rows that are found again by their idempotency key, with the ledger *)
(* of the objects that were seen (services/library_index.py), and the      *)
(* check that a push makes of the latest run                               *)
(* (services/inventory_push_guard.py).                                     *)
(*                                                                         *)
(* scan() may be called more than once at a time, also with one key.  It   *)
(* reads before it writes and SQLite takes its write lock at the first     *)
(* change, so what was read may be old: Read and Write steps are separate. *)
(* The gateway lists one object per page and never states a page count.    *)
(***************************************************************************)
EXTENDS Naturals, Sequences, FiniteSets, FiniteSetsExt

CONSTANTS
  Keys,       \* idempotency keys; a key names its run
  Order,      \* the objects, in the order in which 115 lists them
  Versions,   \* what may change of an object while it keeps its identity
  Scanners,   \* concurrent scan() calls
  Guards,     \* concurrent checks in front of a push
  MaxEdits, MaxScans, MaxFaults, MaxChecks,  \* bounds
  NoKey, NotListed, NoTotal

Objects == {Order[i] : i \in DOMAIN Order}

ASSUME ScanAssumption ==
  /\ IsFiniteSet(Keys) /\ NoKey \notin Keys
  /\ Order \in Seq(Objects) /\ Order # <<>>
  /\ NotListed \notin Versions /\ NoTotal \notin Nat
  /\ {MaxEdits, MaxScans, MaxFaults, MaxChecks} \subseteq Nat

VARIABLES
  remote,   \* remote[o]: the version of o in the directory, or NotListed
  run,      \* run[k]: the run row, its checkpoint and its entries
  ledger,   \* ledger[o]: availability of o as far as complete scans tell
  events,   \* inventory events, unique by their dedupe key
  scanner,  \* scanner[s]: a scan() call
  guard,    \* guard[g]: a check in front of a push
  counts,   \* what the bounds count
  edited    \* keys whose run was created before the directory changed

scanVars == <<remote, run, ledger, events, scanner, guard, counts, edited>>

Shown == Versions \cup {NotListed}
RunState == {"absent", "queued", "running", "failed", "cancelled", "completed"}

RunRow == [state : RunState, complete : BOOLEAN, revision : Nat, created : Nat,
           total : Nat \cup {NoTotal}, page : Nat, seen : Nat,
           entries : [Objects -> Shown]]

NoEntries == [o \in Objects |-> NotListed]

NoRun == [state |-> "absent", complete |-> FALSE, revision |-> 0, created |-> 0,
          total |-> NoTotal, page |-> 0, seen |-> 0,
          entries |-> NoEntries]

IdleScanner ==
  [pc |-> "idle", key |-> NoKey, total |-> NoTotal, next |-> 0,
   item |-> {}, terminal |-> FALSE, page |-> 0, seen |-> 0,
   was |-> NoRun.complete, previous |-> NoKey, revision |-> 0,
   outcome |-> "failed"]

ScannerState ==
  [pc : {"idle", "lookup", "insert", "mark", "checkpoint", "list", "persist",
         "write", "complete", "finish", "result", "abort"},
   key : Keys \cup {NoKey}, total : Nat \cup {NoTotal}, next : Nat,
   item : SUBSET (Objects \X Versions), terminal : BOOLEAN, page : Nat,
   seen : Nat, was : BOOLEAN, previous : Keys \cup {NoKey}, revision : Nat,
   outcome : {"failed", "cancelled"}]

NotAsking == [pc |-> "idle", object |-> Order[1], key |-> NoKey,
              code |-> "none"]

Code == {"none", "inventory_index_incomplete", "inventory_index_stale",
         "inventory_exact_duplicate", "inventory_not_found"}

ScanTypeOK ==
  /\ remote \in [Objects -> Shown]
  /\ run \in [Keys -> RunRow]
  /\ ledger \in [Objects -> [status : {"unknown", "active", "missing"},
                             version : Shown]]
  /\ events \subseteq Keys \X Objects \X {"added", "changed", "removed", "restored"}
  /\ scanner \in [Scanners -> ScannerState]
  /\ guard \in [Guards -> [pc : {"idle", "entries", "answered"},
                           object : Objects, key : Keys \cup {NoKey},
                           code : Code]]
  /\ counts \in [edits : 0..MaxEdits, scans : 0..MaxScans,
                 faults : 0..MaxFaults, checks : 0..MaxChecks]
  /\ edited \subseteq Keys

ScanInit ==
  /\ remote \in [Objects -> Shown]
  /\ run = [k \in Keys |-> NoRun]
  /\ ledger = [o \in Objects |-> [status |-> "unknown", version |-> NotListed]]
  /\ events = {}
  /\ scanner = [s \in Scanners |-> IdleScanner]
  /\ guard = [g \in Guards |-> NotAsking]
  /\ counts = [edits |-> 0, scans |-> 0, faults |-> 0, checks |-> 0]
  /\ edited = {}

Counted(what) == counts' = [counts EXCEPT ![what] = @ + 1]

Continue(s, next) == scanner' = [scanner EXCEPT ![s] = next]
MoveTo(s, pc) == Continue(s, [scanner[s] EXCEPT !.pc = pc])
GiveResult(s) == Continue(s, [IdleScanner EXCEPT !.pc = "result", !.key = scanner[s].key])
FallBack(s, outcome) ==
  Continue(s, [IdleScanner EXCEPT !.pc = "abort", !.key = scanner[s].key,
                                  !.outcome = outcome])

\* An UPDATE of the caller's run.
Update(k, row) == run' = [run EXCEPT ![k] = row]

OnlyScanner == UNCHANGED <<remote, run, ledger, events, guard, counts, edited>>
OnlyRun == UNCHANGED <<remote, ledger, events, guard, counts, edited>>

(***************************************************************************)
(* 115: the listing of the directory, one object per page.                 *)
(***************************************************************************)
Present == {o \in Objects : remote[o] # NotListed}

\* The objects that are listed at place p.
ListedAt(p) ==
  {Order[i] : i \in {i \in DOMAIN Order :
     /\ Order[i] \in Present
     /\ Cardinality({j \in 1..i : Order[j] \in Present}) = p}}

Items(p) == {<<o, remote[o]>> : o \in ListedAt(p)}

\* Mutant: the total is counted from the records instead of read from the answer.
BugPage(p) ==
  [item |-> Items(p), total |-> (p - 1) + Cardinality(Items(p)), terminal |-> TRUE]

\* The page p of the directory, as _parse_page accepts it.
Page(p) ==
  LET total == Cardinality(Present)
  IN [item |-> Items(p), total |-> total,
      terminal |-> (p - 1) + Cardinality(Items(p)) = total]

\* Somebody changes the directory; what is then scanned is not one state of it.
Edit(o, version) ==
  /\ counts.edits < MaxEdits
  /\ version # remote[o]
  /\ remote' = [remote EXCEPT ![o] = version]
  /\ edited' = edited \cup {k \in Keys : run[k].state # "absent"}
  /\ Counted("edits")
  /\ UNCHANGED <<run, ledger, events, scanner, guard>>

(***************************************************************************)
(* scan(): the run is looked up by its key and inserted if there is none.  *)
(* An insert that loses against another one raises out of scan().          *)
(***************************************************************************)
Lookup(s, k) ==
  /\ scanner[s].pc = "idle"
  /\ counts.scans < MaxScans
  /\ Counted("scans")
  /\ Continue(s, [IdleScanner EXCEPT
       !.pc = IF run[k].state = "absent" THEN "insert"
              ELSE IF run[k].complete /\ run[k].state = "completed" THEN "result"
              ELSE "mark",
       !.key = k, !.total = run[k].total])
  /\ UNCHANGED <<remote, run, ledger, events, guard, edited>>

Insert(s) ==
  LET k == scanner[s].key IN
  /\ scanner[s].pc = "insert"
  /\ IF run[k].state = "absent"
     THEN /\ Update(k, [NoRun EXCEPT !.state = "queued",
                          !.created = 1 + Cardinality({j \in Keys : run[j].state # "absent"})])
          /\ MoveTo(s, "mark")
     ELSE /\ Continue(s, IdleScanner)
          /\ UNCHANGED run
  /\ OnlyRun

MarkRunning(s) ==
  LET k == scanner[s].key IN
  /\ scanner[s].pc = "mark"
  /\ Update(k, [run[k] EXCEPT !.state = "running"])
  /\ MoveTo(s, "checkpoint")
  /\ OnlyRun

ReadCheckpoint(s) ==
  /\ scanner[s].pc = "checkpoint"
  /\ Continue(s, [scanner[s] EXCEPT !.pc = "list",
                                    !.next = run[scanner[s].key].page + 1])
  /\ OnlyScanner

\* list_directory and _validate_page.  A page that lies behind the end of the
\* directory, or another total than the one seen first, ends the scan.
List(s) ==
  LET me == scanner[s]
      page == Page(me.next)
  IN /\ me.pc = "list"
     /\ IF me.next - 1 > page.total \/ me.total \notin {NoTotal, page.total}
        THEN FallBack(s, "failed")
        ELSE Continue(s, [me EXCEPT !.pc = "persist", !.total = page.total,
                            !.item = page.item, !.terminal = page.terminal])
     /\ OnlyScanner

(***************************************************************************)
(* _persist_page: the run, the checkpoint and the entries are read, then   *)
(* written in one transaction.  A page that holds an entry again is        *)
(* refused, by the check or by the primary key.  The checkpoint is written *)
(* where it differs from what was read.                                    *)
(***************************************************************************)
Holds(k, item) == \E e \in item : run[k].entries[e[1]] # NotListed

ReadRun(s) ==
  LET me == scanner[s] IN
  /\ me.pc = "persist"
  /\ IF Holds(me.key, me.item)
     THEN FallBack(s, "failed")
     ELSE Continue(s, [me EXCEPT !.pc = "write", !.page = run[me.key].page,
                                 !.seen = run[me.key].seen])
  /\ OnlyScanner

Differs(loaded, new, current) == IF new = loaded THEN current ELSE new

WritePage(s) ==
  LET me == scanner[s]
      row == run[me.key]
  IN /\ me.pc = "write"
     /\ IF Holds(me.key, me.item)
        THEN FallBack(s, "failed") /\ UNCHANGED run
        ELSE /\ Update(me.key, [row EXCEPT
                  !.total = me.total,
                  !.page = Differs(me.page, me.next, @),
                  !.seen = Differs(me.seen, me.seen + Cardinality(me.item), @),
                  !.entries = [o \in Objects |->
                                 IF \E e \in me.item : e[1] = o
                                 THEN (CHOOSE e \in me.item : e[1] = o)[2]
                                 ELSE @[o]]])
             /\ Continue(s, IF me.terminal
                            THEN [me EXCEPT !.pc = "complete"]
                            ELSE [me EXCEPT !.pc = "list", !.next = @ + 1])
     /\ OnlyRun

(***************************************************************************)
(* _complete_run.  The run and its predecessor, the complete run of the    *)
(* library with the highest revision, are read first; the difference, the  *)
(* ledger, the events and the run are written in one transaction.          *)
(***************************************************************************)
Completed(k) == run[k].complete /\ run[k].state = "completed"

Incomplete(k, state) ==
  Update(k, [run[k] EXCEPT !.state = state, !.complete = FALSE])

ReadPrevious(s) ==
  LET me == scanner[s]
      row == run[me.key]
      others == {k \in Keys \ {me.key} : Completed(k)}
      best == {k \in others : \A j \in others : run[j].revision <= run[k].revision}
  IN /\ me.pc = "complete"
     /\ IF row.total # NoTotal /\ row.seen # row.total
        THEN Incomplete(me.key, "failed") /\ GiveResult(s)
        ELSE /\ \E previous \in IF best = {} THEN {NoKey} ELSE best :
                  Continue(s, [me EXCEPT !.pc = "finish", !.was = row.complete,
                    !.previous = previous,
                    !.revision = 1 + Max({run[k].revision : k \in Keys})])
             /\ UNCHANGED run
     /\ OnlyRun

\* How an object differs between two snapshots.
Change(old, new) ==
  IF old = new THEN "none"
  ELSE IF old = NotListed THEN "added"
  ELSE IF new = NotListed THEN "removed"
  ELSE "changed"

\* _record_ledger_observation and _record_ledger_removal: the ledger entry and
\* the event after a change, none for an object that has already that status.
Recorded(entry, change, new) ==
  CASE change = "none" -> entry
    [] change = "removed" -> [entry EXCEPT !.status = "missing"]
    [] OTHER -> [status |-> "active", version |-> new]

EventOf(entry, change) ==
  CASE change = "none" -> {}
    [] change = "removed" -> IF entry.status = "missing" THEN {} ELSE {"removed"}
    [] entry.status = "unknown" -> {"added"}
    [] entry.status = "missing" -> {"restored"}
    [] OTHER -> {change} \ {"added"}

Finish(s) ==
  LET me == scanner[s]
      row == run[me.key]
      old == IF me.previous = NoKey THEN NoEntries ELSE run[me.previous].entries
      change == [o \in Objects |-> Change(old[o], row.entries[o])]
  IN /\ me.pc = "finish"
     /\ Update(me.key, [row EXCEPT !.state = "completed",
                          !.complete = Differs(me.was, TRUE, @),
                          !.revision = me.revision])
     /\ ledger' = [o \in Objects |-> Recorded(ledger[o], change[o], row.entries[o])]
     /\ events' = events \cup
          UNION {{me.key} \X {o} \X EventOf(ledger[o], change[o]) : o \in Objects}
     /\ GiveResult(s)
     /\ UNCHANGED <<remote, guard, counts, edited>>

\* _finish_incomplete: by primary key, whatever the run has become.
Abort(s) ==
  /\ scanner[s].pc = "abort"
  /\ Incomplete(scanner[s].key, scanner[s].outcome)
  /\ GiveResult(s)
  /\ OnlyRun

Return(s) ==
  /\ scanner[s].pc = "result"
  /\ Continue(s, IdleScanner)
  /\ OnlyScanner

\* The gateway raises, or the database does while a page is persisted.
CallFails(s) ==
  /\ scanner[s].pc \in {"list", "persist", "write"}
  /\ counts.faults < MaxFaults
  /\ Counted("faults")
  /\ FallBack(s, "failed")
  /\ UNCHANGED <<remote, run, ledger, events, guard, edited>>

\* CancelledError inside the try statement of scan(), also after the commit.
Cancel(s) ==
  /\ scanner[s].pc \notin {"idle", "insert"}
  /\ counts.faults < MaxFaults
  /\ Counted("faults")
  /\ FallBack(s, "cancelled")
  /\ UNCHANGED <<remote, run, ledger, events, guard, edited>>

KillScans ==
  /\ counts.faults < MaxFaults
  /\ \E s \in Scanners : scanner[s].pc # "idle"
  /\ Counted("faults")
  /\ scanner' = [s \in Scanners |-> IdleScanner]
  /\ guard' = [g \in Guards |-> NotAsking]
  /\ UNCHANGED <<remote, run, ledger, events, edited>>

(***************************************************************************)
(* InventoryPushGuard.check: the run that was created last, then its       *)
(* entries, which decide only if the run is complete and fresh.  There is  *)
(* no clock: a run may be stale at any time.                               *)
(***************************************************************************)
Reply(g, code) == guard' = [guard EXCEPT ![g].pc = "answered", ![g].code = code]

LatestRun ==
  {k \in Keys : run[k].state # "absent"
               /\ \A j \in Keys : run[j].created <= run[k].created}

\* Mutant: the last run decides, complete or not.
BugCheck(g, o) ==
  /\ guard[g].pc = "idle"
  /\ counts.checks < MaxChecks
  /\ Counted("checks")
  /\ \E k \in LatestRun :
       guard' = [guard EXCEPT ![g] = [NotAsking EXCEPT
         !.pc = "entries", !.object = o, !.key = k]]
  /\ UNCHANGED <<remote, run, ledger, events, scanner, edited>>

Check(g, o) ==
  /\ guard[g].pc = "idle"
  /\ counts.checks < MaxChecks
  /\ Counted("checks")
  /\ \/ /\ ~\E k \in LatestRun : Completed(k)
        /\ guard' = [guard EXCEPT ![g] = [NotAsking EXCEPT
             !.pc = "answered", !.object = o, !.code = "inventory_index_incomplete"]]
     \/ \E k \in LatestRun :
          /\ Completed(k)
          /\ guard' = [guard EXCEPT ![g] = [NotAsking EXCEPT
               !.pc = "entries", !.object = o, !.key = k]]
  /\ UNCHANGED <<remote, run, ledger, events, scanner, edited>>

ReadEntries(g) ==
  LET me == guard[g]
      known == run[me.key].entries[me.object] # NotListed
  IN /\ me.pc = "entries"
     /\ \/ Reply(g, "inventory_index_stale")
        \/ Reply(g, IF known THEN "inventory_exact_duplicate"
                     ELSE "inventory_not_found")
     /\ UNCHANGED <<remote, run, ledger, events, scanner, counts, edited>>

Push(g) ==
  /\ guard[g].pc = "answered"
  /\ guard' = [guard EXCEPT ![g] = NotAsking]
  /\ UNCHANGED <<remote, run, ledger, events, scanner, counts, edited>>

ScanStep ==
  \/ \E s \in Scanners :
       \/ \E k \in Keys : Lookup(s, k)
       \/ Insert(s)
       \/ MarkRunning(s)
       \/ ReadCheckpoint(s)
       \/ List(s)
       \/ ReadRun(s)
       \/ WritePage(s)
       \/ ReadPrevious(s)
       \/ Finish(s)
       \/ Abort(s)
       \/ Return(s)
       \/ CallFails(s)
       \/ Cancel(s)
  \/ \E g \in Guards :
       \/ \E o \in Objects : Check(g, o)
       \/ ReadEntries(g)
       \/ Push(g)
  \/ \E o \in Objects, version \in Shown : Edit(o, version)
  \/ KillScans

ScanSpec == ScanInit /\ [][ScanStep]_scanVars

(***************************************************************************)
(* Properties.                                                             *)
(***************************************************************************)

\* A run that is complete holds exactly what the directory holds, if nobody
\* changed the directory since the run was created: no page is missed or read
\* twice, whatever was interrupted, resumed or done by another scan of the
\* same key (scan, _persist_page, _complete_run).
CompleteSnapshotIsFaithful ==
  \A k \in Keys \ edited : Completed(k) => run[k].entries = remote

\* A push that the guard lets through is of an object that is not in the
\* library, unless the directory changed since the run the guard looked at
\* was created (InventoryPushGuard.check: it fails closed).
AllowedMeansAbsent ==
  \A g \in Guards :
    guard[g].code = "inventory_not_found" /\ guard[g].key \notin edited
      => remote[guard[g].object] = NotListed
=============================================================================
