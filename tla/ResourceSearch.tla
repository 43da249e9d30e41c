---------------------------- MODULE ResourceSearch ----------------------------
(***************************************************************************)
(* SearchService: searches for the resources of one title, the snapshot of *)
(* each scope of it (the title, a season) and the watch on a title without *)
(* resources (services/search.py); the nightly warming, which ends with    *)
(* the removal of what has expired (services/cache_warm.py, db.py).        *)
(*                                                                         *)
(* The searches of a title hold its lock from the read of the snapshot to  *)
(* the answer.  The removal does not.                                      *)
(***************************************************************************)
EXTENDS Naturals, FiniteSets

CONSTANTS
  Scopes, Whole,   \* the scopes of a title; Whole is the one without season
  Resources, Shares,  \* canonical keys; the others are magnets
  Searchers,       \* concurrent searches for a user
  Warmer,          \* the search of the nightly warming
  MaxSearches,     \* bound
  Nobody

VARIABLES
  snapshot,  \* snapshot[q]: the row of search_cache
  age,       \* age[q]: how long ago the last snapshot of q was fetched
  stored,    \* resources that have a row
  watch,     \* the row of movie_watches
  lock,      \* who holds the lock of the title
  search,    \* search[s]: a search
  begun      \* how many searches have begun

searchVars == <<snapshot, age, stored, watch, lock, search, begun>>

All == Searchers \cup {Warmer}
Kind == {"none", "positive", "negative", "partial"}
Outcome == {"none", "fresh", "complete", "partial", "stale", "unavailable"}

NoSnapshot == [kind |-> "none", resources |-> {}]
Idle == [pc |-> "idle", scope |-> Whole, refresh |-> FALSE, usable |-> FALSE,
         cached |-> {}, found |-> {}, preserved |-> {}, outcome |-> "none"]

TypeOK ==
  /\ snapshot \in [Scopes -> [kind : Kind, resources : SUBSET Resources]]
  /\ age \in [Scopes -> {"never", "fresh", "old", "gone"}]
  /\ stored \subseteq Resources
  /\ watch \in {"none", "active", "found"}
  /\ lock \in All \cup {Nobody}
  /\ search \in [All ->
       [pc : {"idle", "wait", "query", "partial", "verify", "persist", "answer", "clean"},
        scope : Scopes, refresh : BOOLEAN, usable : BOOLEAN,
        cached : SUBSET Resources, found : SUBSET Resources,
        preserved : SUBSET Resources, outcome : Outcome]]
  /\ begun \in 0..MaxSearches

Init ==
  /\ snapshot = [q \in Scopes |-> NoSnapshot]
  /\ age = [q \in Scopes |-> "never"]
  /\ stored = {}
  /\ watch = "none"
  /\ lock = Nobody
  /\ search = [s \in All |-> Idle]
  /\ begun = 0

Set(s, next) == search' = [search EXCEPT ![s] = next]

\* The answer, and with it the lock.
Answer(s, outcome) ==
  Set(s, [Idle EXCEPT !.pc = "answer", !.scope = search[s].scope, !.outcome = outcome])
Unlock == lock' = Nobody

(***************************************************************************)
(* search() and warm_media.  The warming skips a title that has a snapshot *)
(* of today, and one that is on none of the home lists.                    *)
(***************************************************************************)
Begin(s, q, refresh) ==
  /\ search[s] = Idle
  /\ begun < MaxSearches
  /\ begun' = begun + 1
  /\ s = Warmer => q = Whole /\ refresh
  /\ Set(s, [Idle EXCEPT !.pc = "wait", !.scope = q, !.refresh = refresh])
  /\ UNCHANGED <<snapshot, age, stored, watch, lock>>

SkipWarm ==
  /\ search[Warmer] = Idle
  /\ Set(Warmer, [Idle EXCEPT !.pc = "clean"])
  /\ UNCHANGED <<snapshot, age, stored, watch, lock, begun>>

\* Mutant: the lock is not taken.
BugMayEnter(s) == TRUE
MayEnter(s) == lock = Nobody

\* _search_locked reads the snapshot; it is used for seven days.
Enter(s) ==
  LET me == search[s]
      row == snapshot[me.scope]
      usable == row.kind # "none" /\ age[me.scope] # "gone"
  IN /\ me.pc = "wait"
     /\ MayEnter(s)
     /\ IF usable /\ ~me.refresh /\ age[me.scope] = "fresh"
        THEN Answer(s, "fresh") /\ UNCHANGED lock
        ELSE /\ lock' = s
             /\ Set(s, [me EXCEPT !.pc = "query", !.usable = usable,
                          !.cached = IF usable THEN row.resources \cap stored ELSE {}])
     /\ UNCHANGED <<snapshot, age, stored, watch, begun>>

(***************************************************************************)
(* The queries to PanSou, those for the alternative titles included: all   *)
(* of them fail, some do, or none.                                         *)
(***************************************************************************)
AllQueriesFail(s) ==
  /\ search[s].pc = "query"
  /\ Answer(s, IF search[s].usable THEN "stale" ELSE "unavailable")
  /\ Unlock
  /\ UNCHANGED <<snapshot, age, stored, watch, begun>>

QueriesEnd(s, found, complete) ==
  LET me == search[s] IN
  /\ me.pc = "query"
  /\ Set(s, [me EXCEPT !.found = found,
               !.pc = IF ~complete THEN "partial"
                      ELSE IF me.refresh THEN "verify" ELSE "persist"])
  /\ UNCHANGED <<snapshot, age, stored, watch, lock, begun>>

\* A new snapshot: the row, its time, and the rows of what was found.
Persist(q, kind, found, others) ==
  /\ snapshot' = [snapshot EXCEPT ![q] = [kind |-> kind, resources |-> found \cup others]]
  /\ age' = [age EXCEPT ![q] = "fresh"]
  /\ stored' = stored \cup found

\* Mutant: what was found replaces what was known.
BugMerged(me) == me.found
Merged(me) == me.found \cup me.cached

PersistPartial(s) ==
  LET me == search[s] IN
  /\ me.pc = "partial"
  /\ Persist(me.scope, "partial", me.found, Merged(me))
  /\ Answer(s, IF me.usable THEN "stale" ELSE "partial")
  /\ Unlock
  /\ UNCHANGED <<watch, begun>>

(***************************************************************************)
(* _verify_shares: a share that is bad is dropped, one that is not known   *)
(* to be good or bad is kept if the last snapshot had it, and all shares   *)
(* of the last snapshot are kept if nothing could be checked.              *)
(***************************************************************************)
Verify(s, good, unclear) ==
  LET me == search[s]
      shares == me.found \cap Shares
  IN /\ me.pc = "verify"
     /\ good \cap unclear = {} /\ good \cup unclear \subseteq shares
     /\ Set(s, [me EXCEPT !.pc = "persist",
                          !.found = (@ \ Shares) \cup good,
                          !.preserved = unclear \cap me.cached])
     /\ UNCHANGED <<snapshot, age, stored, watch, lock, begun>>

VerifyFails(s) ==
  LET me == search[s] IN
  /\ me.pc = "verify"
  /\ me.found \cap Shares # {}
  /\ Set(s, [me EXCEPT !.pc = "persist", !.found = @ \ Shares,
                       !.preserved = me.cached \cap Shares])
  /\ UNCHANGED <<snapshot, age, stored, watch, lock, begun>>

PersistComplete(s) ==
  LET me == search[s]
      resources == me.found \cup me.preserved
  IN /\ me.pc = "persist"
     /\ Persist(me.scope, IF resources = {} THEN "negative" ELSE "positive",
                me.found, me.preserved)
     /\ watch' = IF me.scope # Whole THEN watch
                 ELSE IF resources = {} THEN "active"
                 ELSE IF watch = "active" THEN "found" ELSE watch
     /\ Answer(s, "complete")
     /\ Unlock
     /\ UNCHANGED begun

Return(s) ==
  /\ search[s].pc = "answer"
  /\ Set(s, IF s = Warmer THEN [Idle EXCEPT !.pc = "clean"] ELSE Idle)
  /\ UNCHANGED <<snapshot, age, stored, watch, lock, begun>>

\* The call is cancelled, or the database refuses a write.
Abandon(s) ==
  /\ search[s].pc \in {"wait", "query", "partial", "verify", "persist"}
  /\ Set(s, Idle) \/ (s = Warmer /\ Set(s, [Idle EXCEPT !.pc = "clean"]))
  /\ lock' = IF lock = s THEN Nobody ELSE lock
  /\ UNCHANGED <<snapshot, age, stored, watch, begun>>

(***************************************************************************)
(* cleanup_expired: a snapshot expires when it is not fresh any more.  A   *)
(* resource expires when it was not found for a week.                      *)
(***************************************************************************)
Clean(forgotten) ==
  /\ search[Warmer].pc = "clean"
  /\ snapshot' = [q \in Scopes |->
       IF age[q] = "fresh" THEN snapshot[q] ELSE NoSnapshot]
  /\ forgotten \subseteq stored
  /\ stored' = stored \ forgotten
  /\ Set(Warmer, Idle)
  /\ UNCHANGED <<age, watch, lock, begun>>

TimePasses(q) ==
  /\ \/ age[q] = "fresh" /\ age' = [age EXCEPT ![q] = "old"]
     \/ age[q] = "old" /\ age' = [age EXCEPT ![q] = "gone"]
  /\ UNCHANGED <<snapshot, stored, watch, lock, search, begun>>

Next ==
  \/ \E s \in All :
       \/ \E q \in Scopes, refresh \in BOOLEAN : Begin(s, q, refresh)
       \/ Enter(s)
       \/ AllQueriesFail(s)
       \/ \E found \in SUBSET Resources, complete \in BOOLEAN :
            QueriesEnd(s, found, complete)
       \/ PersistPartial(s)
       \/ \E good, unclear \in SUBSET Shares : Verify(s, good, unclear)
       \/ VerifyFails(s)
       \/ PersistComplete(s)
       \/ Return(s)
       \/ Abandon(s)
  \/ SkipWarm
  \/ \E forgotten \in SUBSET Resources : Clean(forgotten)
  \/ \E q \in Scopes : TimePasses(q)

Spec == Init /\ [][Next]_searchVars

(***************************************************************************)
(* Properties.                                                             *)
(***************************************************************************)

\* A search that was answered only in part never costs a resource that an
\* earlier search has put into a usable snapshot, whoever made that search
\* (_search_locked).
PartialLosesNothing ==
  [][\A q \in Scopes :
       age[q] # "gone" /\ snapshot[q] # snapshot'[q] /\ snapshot'[q].kind = "partial"
         => snapshot[q].resources \cap stored \subseteq snapshot'[q].resources]_searchVars
=============================================================================
