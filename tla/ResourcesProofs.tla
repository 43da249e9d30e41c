----------------------------- MODULE ResourcesProofs ----------------------------
(***************************************************************************)
(* Theorems about finding resources and pushing them to 115:               *)
(* ResourceSearch, Inspection and MetadataFetch, as the instances that     *)
(* MCServices makes of them, and PushTasks, with its workflows.  They hold *)
(* for any number of titles, searches, magnets, batches, calls, tasks and  *)
(* workflows; ServicesProofs draws the conclusions for ServicesSpec.       *)
(***************************************************************************)
EXTENDS MCServices, TLAPS

(***************************************************************************)
(* Searches: a partial answer costs nothing.                               *)
(***************************************************************************)
\* The places of a search between its read of the snapshot and its answer.
Inside == {"query", "partial", "verify", "persist"}

\* What a search carries.
SearchRecord ==
  [pc : Inside \cup {"idle", "wait", "answer", "clean"}, scope : Scopes, refresh : BOOLEAN,
   usable : BOOLEAN, cached : SUBSET Findable, found : SUBSET Findable,
   preserved : SUBSET Findable, outcome : Searches!Outcome]

SnapshotRow == [kind : Searches!Kind, resources : SUBSET Findable]

SearchTypes ==
  /\ snapshot \in [Scopes -> SnapshotRow]
  /\ age \in [Scopes -> {"never", "fresh", "old", "gone"}]
  /\ stored \subseteq Findable
  /\ search \in [Searches!All -> SearchRecord]

\* The lock of the title is held from the read to the answer.
LockIsTaken == \A s \in Searches!All : search[s].pc \in Inside => titleLock = s

\* A row that is not there holds nothing.
NothingIsEmpty == \A q \in Scopes : snapshot[q].kind = "none" => snapshot[q].resources = {}

\* Until the queries have ended, a search knows whatever the snapshot of its scope
\* holds, as long as that is usable.
CachedIsKnown ==
  \A s \in Searches!All :
    search[s].pc \in {"query", "partial"} /\ age[search[s].scope] # "gone" =>
      snapshot[search[s].scope].resources \cap stored \subseteq search[s].cached

SearchInv == SearchTypes /\ LockIsTaken /\ NothingIsEmpty /\ CachedIsKnown

-----------------------------------------------------------------------------
\* One search moves on, and no row changes.
LEMMA SearchMoves ==
  ASSUME SearchInv, NEW s \in Searches!All, NEW next \in SearchRecord,
         search' = [search EXCEPT ![s] = next],
         next.pc \in Inside => titleLock' = s,
         \A r \in Searches!All \ {s} : titleLock = r => titleLock' = r,
         UNCHANGED <<snapshot, age, stored>>,
         next.pc \in {"query", "partial"} /\ age[next.scope] # "gone" =>
           snapshot[next.scope].resources \cap stored \subseteq next.cached
  PROVE  SearchInv'
<1>1. search'[s] = next /\ \A r \in Searches!All \ {s} : search'[r] = search[r]
  BY DEF SearchInv, SearchTypes
<1>2. SearchTypes'
  BY DEF SearchInv, SearchTypes
<1>3. LockIsTaken'
  BY <1>1 DEF SearchInv, LockIsTaken
<1>4. NothingIsEmpty'
  BY DEF SearchInv, NothingIsEmpty
<1>5. CachedIsKnown'
  BY <1>1 DEF SearchInv, CachedIsKnown
<1> QED BY <1>2, <1>3, <1>4, <1>5 DEF SearchInv

\* A search that waits for nothing carries nothing.
LEMMA RestingSearch ==
  ASSUME WholeTitle \in Scopes,
         NEW q \in Scopes, NEW refresh \in BOOLEAN, NEW outcome \in Searches!Outcome
  PROVE  /\ Searches!Idle \in SearchRecord /\ Searches!Idle.pc = "idle"
         /\ [Searches!Idle EXCEPT !.pc = "clean"] \in SearchRecord
         /\ [Searches!Idle EXCEPT !.pc = "clean"].pc = "clean"
         /\ [Searches!Idle EXCEPT !.pc = "wait", !.scope = q, !.refresh = refresh]
              \in SearchRecord
         /\ [Searches!Idle EXCEPT !.pc = "wait", !.scope = q, !.refresh = refresh].pc = "wait"
         /\ [Searches!Idle EXCEPT !.pc = "answer", !.scope = q, !.outcome = outcome]
              \in SearchRecord
         /\ [Searches!Idle EXCEPT !.pc = "answer", !.scope = q, !.outcome = outcome].pc
              = "answer"
BY DEF Searches!Idle, SearchRecord, Searches!Outcome, Inside

\* A search that has its answer.
LEMMA AnsweredSearch ==
  ASSUME WholeTitle \in Scopes, NEW q \in Scopes, NEW outcome \in Searches!Outcome,
         NEW next, next = [Searches!Idle EXCEPT !.pc = "answer", !.scope = q,
                                                !.outcome = outcome]
  PROVE  next \in SearchRecord /\ next.pc = "answer"
BY DEF Searches!Idle, SearchRecord, Searches!Outcome

\* A search begins, is answered, ends or is abandoned without a write.
LEMMA RestsKeep ==
  ASSUME SearchInv, WholeTitle \in Scopes, NoSearch \notin Searches!All, NEW s \in Searches!All,
         UNCHANGED <<snapshot, age, stored>>,
         \A r \in Searches!All \ {s} : titleLock = r => titleLock' = r,
         NEW next \in SearchRecord, next.pc \notin Inside,
         search' = [search EXCEPT ![s] = next]
  PROVE  SearchInv'
BY SearchMoves DEF Inside

\* The searches that write no row.
LEMMA QuietKeep ==
  ASSUME SearchInv, WholeTitle \in Scopes, NoSearch \notin Searches!All, NEW s \in Searches!All,
         \/ \E q \in Scopes, refresh \in BOOLEAN : Searches!Begin(s, q, refresh)
         \/ Searches!AllQueriesFail(s)
         \/ Searches!Return(s)
         \/ Searches!Abandon(s)
         \/ s = Warmer /\ Searches!SkipWarm
  PROVE  SearchInv'
<1> USE DEF Searches!Set, Inside
<1>1. /\ Searches!Idle \in SearchRecord /\ Searches!Idle.pc = "idle"
      /\ [Searches!Idle EXCEPT !.pc = "clean"] \in SearchRecord
      /\ [Searches!Idle EXCEPT !.pc = "clean"].pc = "clean"
  BY RestingSearch DEF Searches!Outcome
<1>2. ASSUME NEW q \in Scopes, NEW refresh \in BOOLEAN, Searches!Begin(s, q, refresh)
      PROVE  SearchInv'
  <2> DEFINE next == [Searches!Idle EXCEPT !.pc = "wait", !.scope = q, !.refresh = refresh]
  <2>1. next \in SearchRecord /\ next.pc = "wait"
    BY RestingSearch DEF Searches!Outcome
  <2>2. /\ search' = [search EXCEPT ![s] = next]
        /\ UNCHANGED <<snapshot, age, stored, titleLock>>
    BY <1>2 DEF Searches!Begin
  <2> HIDE DEF next
  <2> QED BY <2>1, <2>2, RestsKeep
<1>3. CASE Searches!AllQueriesFail(s)
  <2>1. search[s].pc = "query" /\ search[s] \in SearchRecord
    BY <1>3 DEF Searches!AllQueriesFail, SearchInv, SearchTypes
  <2>2. search[s].scope \in Scopes /\ titleLock = s
    BY <2>1 DEF SearchRecord, SearchInv, LockIsTaken
  <2>3. PICK outcome \in {"stale", "unavailable"} : Searches!Answer(s, outcome)
    BY <1>3 DEF Searches!AllQueriesFail
  <2> DEFINE next == [Searches!Idle EXCEPT !.pc = "answer", !.scope = search[s].scope,
                                           !.outcome = outcome]
  <2>4. next \in SearchRecord /\ next.pc = "answer"
    <3>1. outcome \in Searches!Outcome
      BY DEF Searches!Outcome
    <3>2. next = [Searches!Idle EXCEPT !.pc = "answer", !.scope = search[s].scope,
                                       !.outcome = outcome]
      OBVIOUS
    <3> HIDE DEF next
    <3> QED BY <2>2, <3>1, <3>2, AnsweredSearch
  <2>5. search' = [search EXCEPT ![s] = next] /\ UNCHANGED <<snapshot, age, stored>>
    BY <1>3, <2>3 DEF Searches!Answer, Searches!AllQueriesFail
  <2> HIDE DEF next
  <2> QED BY <2>2, <2>4, <2>5, RestsKeep
<1>4. CASE Searches!Return(s)
  <2>1. PICK next \in {Searches!Idle, [Searches!Idle EXCEPT !.pc = "clean"]} :
          search' = [search EXCEPT ![s] = next]
    BY <1>4 DEF Searches!Return
  <2>2. UNCHANGED <<snapshot, age, stored, titleLock>>
    BY <1>4 DEF Searches!Return
  <2> QED BY <1>1, <2>1, <2>2, RestsKeep
<1>5. CASE Searches!Abandon(s)
  <2>1. PICK next \in {Searches!Idle, [Searches!Idle EXCEPT !.pc = "clean"]} :
          search' = [search EXCEPT ![s] = next]
    BY <1>5 DEF Searches!Abandon
  <2>2. /\ UNCHANGED <<snapshot, age, stored>>
        /\ titleLock' = IF titleLock = s THEN NoSearch ELSE titleLock
    BY <1>5 DEF Searches!Abandon
  <2> QED BY <1>1, <2>1, <2>2, RestsKeep
<1>6. CASE s = Warmer /\ Searches!SkipWarm
  BY <1>1, <1>6, RestsKeep DEF Searches!SkipWarm
<1> QED BY <1>2, <1>3, <1>4, <1>5, <1>6

\* A search reads the snapshot and takes the lock.
LEMMA EnterKeeps ==
  ASSUME SearchInv, WholeTitle \in Scopes, NoSearch \notin Searches!All, NEW s \in Searches!All,
         Searches!Enter(s)
  PROVE  SearchInv'
<1> USE DEF Searches!Set
<1> DEFINE me == search[s]
           row == snapshot[me.scope]
           usable == row.kind # "none" /\ age[me.scope] # "gone"
<1>1. me \in SearchRecord /\ me.scope \in Scopes /\ row \in SnapshotRow
      /\ stored \subseteq Findable
  BY DEF SearchInv, SearchTypes, SearchRecord
<1>2. titleLock = NoSearch /\ UNCHANGED <<snapshot, age, stored>>
  BY DEF Searches!Enter, Searches!MayEnter
<1>3. CASE Searches!Answer(s, "fresh") /\ UNCHANGED titleLock
  <2> DEFINE next == [Searches!Idle EXCEPT !.pc = "answer", !.scope = me.scope,
                                           !.outcome = "fresh"]
  <2>1. next \in SearchRecord /\ next.pc = "answer"
    BY <1>1, RestingSearch DEF Searches!Outcome
  <2>2. search' = [search EXCEPT ![s] = next]
    BY <1>3 DEF Searches!Answer
  <2> HIDE DEF next
  <2> QED BY <1>2, <1>3, <2>1, <2>2, RestsKeep DEF Inside
<1>4. CASE /\ titleLock' = s
           /\ search' = [search EXCEPT ![s] =
                [me EXCEPT !.pc = "query", !.usable = usable,
                           !.cached = IF usable THEN row.resources \cap stored ELSE {}]]
  <2> DEFINE known == IF usable THEN row.resources \cap stored ELSE {}
             next == [me EXCEPT !.pc = "query", !.usable = usable, !.cached = known]
  <2>1. known \in SUBSET Findable /\ usable \in BOOLEAN
    BY <1>1
  <2>2. age[me.scope] # "gone" => row.resources \cap stored \subseteq known
    BY <1>1 DEF SearchInv, NothingIsEmpty
  <2>3. search' = [search EXCEPT ![s] = next]
    BY <1>4
  <2> HIDE DEF known, usable
  <2>4. next \in SearchRecord /\ next.scope = me.scope /\ next.cached = known
    BY <1>1, <2>1 DEF SearchRecord, Inside
  <2>5. titleLock' = s
    BY <1>4
  <2> HIDE DEF next
  <2> QED BY <1>2, <2>2, <2>3, <2>4, <2>5, SearchMoves
<1> QED BY <1>3, <1>4 DEF Searches!Enter

\* The queries end, and the shares are verified.
LEMMA QueriesKeep ==
  ASSUME SearchInv, NEW s \in Searches!All,
         \/ \E found \in SUBSET Findable, complete \in BOOLEAN :
              Searches!QueriesEnd(s, found, complete)
         \/ \E good, unclear \in SUBSET Shares : Searches!Verify(s, good, unclear)
         \/ Searches!VerifyFails(s)
  PROVE  SearchInv'
<1> USE DEF Searches!Set
<1>1. search[s] \in SearchRecord
  BY DEF SearchInv, SearchTypes
<1>2. search[s].pc \in Inside /\ UNCHANGED <<snapshot, age, stored, titleLock>>
  BY DEF Searches!QueriesEnd, Searches!Verify, Searches!VerifyFails, Inside
<1>3. titleLock' = s
  BY <1>2 DEF SearchInv, LockIsTaken
<1>4. ASSUME NEW found \in SUBSET Findable, NEW complete \in BOOLEAN,
             Searches!QueriesEnd(s, found, complete)
      PROVE  SearchInv'
  <2>1. PICK place \in {"partial", "verify", "persist"} :
          search' = [search EXCEPT ![s] = [search[s] EXCEPT !.found = found, !.pc = place]]
    BY <1>4 DEF Searches!QueriesEnd
  <2> DEFINE next == [search[s] EXCEPT !.found = found, !.pc = place]
  <2>2. next \in SearchRecord /\ next.scope = search[s].scope /\ next.cached = search[s].cached
    BY <1>1 DEF SearchRecord, Inside
  <2>3. age[next.scope] # "gone" =>
          snapshot[next.scope].resources \cap stored \subseteq next.cached
    BY <1>4, <2>2 DEF SearchInv, CachedIsKnown, Searches!QueriesEnd
  <2>4. search' = [search EXCEPT ![s] = next]
    BY <2>1
  <2> HIDE DEF next
  <2> QED BY <1>2, <1>3, <2>2, <2>3, <2>4, SearchMoves
<1>5. ASSUME NEW found \in SUBSET Findable, NEW preserved \in SUBSET Findable,
             search' = [search EXCEPT ![s] =
               [search[s] EXCEPT !.pc = "persist", !.found = found, !.preserved = preserved]]
      PROVE  SearchInv'
  <2> DEFINE next == [search[s] EXCEPT !.pc = "persist", !.found = found,
                                       !.preserved = preserved]
  <2>1. next \in SearchRecord /\ next.pc = "persist"
    BY <1>1 DEF SearchRecord, Inside
  <2>2. search' = [search EXCEPT ![s] = next]
    BY <1>5
  <2> HIDE DEF next
  <2> QED BY <1>2, <1>3, <2>1, <2>2, SearchMoves
<1>6. search[s].found \in SUBSET Findable /\ search[s].cached \in SUBSET Findable
  BY <1>1 DEF SearchRecord
<1>7. ASSUME NEW good \in SUBSET Shares, NEW unclear \in SUBSET Shares,
             Searches!Verify(s, good, unclear)
      PROVE  SearchInv'
  <2>1. /\ good \subseteq search[s].found
        /\ search' = [search EXCEPT ![s] =
             [search[s] EXCEPT !.pc = "persist", !.found = (search[s].found \ Shares) \cup good,
                               !.preserved = unclear \cap search[s].cached]]
    BY <1>7 DEF Searches!Verify
  <2>2. /\ (search[s].found \ Shares) \cup good \in SUBSET Findable
        /\ unclear \cap search[s].cached \in SUBSET Findable
    BY <1>6, <2>1
  <2> QED BY <1>5, <2>1, <2>2
<1>8. CASE Searches!VerifyFails(s)
  <2>1. search' = [search EXCEPT ![s] =
             [search[s] EXCEPT !.pc = "persist", !.found = search[s].found \ Shares,
                               !.preserved = search[s].cached \cap Shares]]
    BY <1>8 DEF Searches!VerifyFails
  <2>2. /\ search[s].found \ Shares \in SUBSET Findable
        /\ search[s].cached \cap Shares \in SUBSET Findable
    BY <1>6
  <2> QED BY <1>5, <2>1, <2>2
<1> QED BY <1>4, <1>7, <1>8

\* A new snapshot is written by the search that has the lock; no other one is inside.
LEMMA PersistKeeps ==
  ASSUME SearchInv, WholeTitle \in Scopes, NoSearch \notin Searches!All, NEW s \in Searches!All,
         Searches!PersistPartial(s) \/ Searches!PersistComplete(s)
  PROVE  SearchInv'
<1> USE DEF Searches!Set
<1>1. /\ search[s] \in SearchRecord /\ search[s].pc \in {"partial", "persist"}
      /\ titleLock' = NoSearch
  BY DEF Searches!PersistPartial, Searches!PersistComplete, Searches!Unlock, SearchInv,
         SearchTypes
<1>2. titleLock = s
  BY <1>1 DEF SearchInv, LockIsTaken, Inside
<1>3. /\ search[s].scope \in Scopes /\ search[s].found \in SUBSET Findable
      /\ search[s].cached \in SUBSET Findable /\ search[s].preserved \in SUBSET Findable
  BY <1>1 DEF SearchRecord
<1>4. PICK kind \in {"partial", "negative", "positive"},
           others \in {search[s].found \cup search[s].cached, search[s].preserved},
           outcome \in {"stale", "partial", "complete"} :
        /\ Searches!Persist(search[s].scope, kind, search[s].found, others)
        /\ Searches!Answer(s, outcome)
  BY DEF Searches!PersistPartial, Searches!PersistComplete, Searches!Merged
<1> DEFINE q == search[s].scope
           row == [kind |-> kind, resources |-> search[s].found \cup others]
           next == [Searches!Idle EXCEPT !.pc = "answer", !.scope = q, !.outcome = outcome]
<1>5. /\ snapshot' = [snapshot EXCEPT ![q] = row] /\ age' = [age EXCEPT ![q] = "fresh"]
      /\ stored' = stored \cup search[s].found /\ search' = [search EXCEPT ![s] = next]
  BY <1>4 DEF Searches!Persist, Searches!Answer
<1>6. row \in SnapshotRow /\ row.kind # "none"
  BY <1>3 DEF SnapshotRow, Searches!Kind
<1>7. next \in SearchRecord /\ next.pc = "answer"
  <2>1. outcome \in Searches!Outcome
    BY DEF Searches!Outcome
  <2> QED BY <1>3, <2>1, RestingSearch
<1> HIDE DEF next, row
<1>8. SearchTypes'
  BY <1>3, <1>5, <1>6, <1>7 DEF SearchInv, SearchTypes
<1>9. \A r \in Searches!All : search'[r].pc \notin Inside
  <2> SUFFICES ASSUME NEW r \in Searches!All PROVE search'[r].pc \notin Inside
    OBVIOUS
  <2>1. CASE r = s
    BY <1>5, <1>7, <2>1 DEF SearchInv, SearchTypes, Inside
  <2>2. CASE r # s
    BY <1>2, <1>5, <2>2 DEF SearchInv, SearchTypes, LockIsTaken
  <2> QED BY <2>1, <2>2
<1>10. NothingIsEmpty'
  BY <1>5, <1>6 DEF SearchInv, SearchTypes, NothingIsEmpty
<1> QED BY <1>8, <1>9, <1>10 DEF SearchInv, LockIsTaken, CachedIsKnown, Inside

\* What has expired is removed, and time passes: a snapshot only loses by it.
LEMMA TimeKeeps ==
  ASSUME SearchInv, WholeTitle \in Scopes, NoSearch \notin Searches!All,
         \/ \E forgotten \in SUBSET Findable : Searches!Clean(forgotten)
         \/ \E q \in Scopes : Searches!TimePasses(q)
         \/ UNCHANGED Searches!searchVars
  PROVE  SearchInv'
<1>1. ASSUME NEW forgotten \in SUBSET Findable, Searches!Clean(forgotten) PROVE SearchInv'
  <2>1. /\ snapshot' = [q \in Scopes |-> IF age[q] = "fresh" THEN snapshot[q]
                                          ELSE Searches!NoSnapshot]
        /\ stored' = stored \ forgotten /\ UNCHANGED <<age, titleLock>>
        /\ search[Warmer].pc = "clean"
        /\ search' = [search EXCEPT ![Warmer] = Searches!Idle]
    BY <1>1 DEF Searches!Clean, Searches!Set
  <2>2. Searches!Idle \in SearchRecord /\ Searches!Idle.pc = "idle"
    BY RestingSearch DEF Searches!Outcome
  <2>3. Searches!NoSnapshot \in SnapshotRow /\ Searches!NoSnapshot.resources = {}
    BY DEF Searches!NoSnapshot, SnapshotRow, Searches!Kind
  <2>4. \A q \in Scopes :
          /\ snapshot'[q] \in SnapshotRow
          /\ snapshot'[q] = snapshot[q] \/ snapshot'[q].resources = {}
          /\ snapshot'[q].resources \cap stored' \subseteq snapshot[q].resources \cap stored
    BY <2>1, <2>3 DEF SearchInv, SearchTypes, SnapshotRow
  <2>5. SearchTypes'
    BY <2>1, <2>2, <2>4 DEF SearchInv, SearchTypes
  <2>6. \A s \in Searches!All : search'[s] = search[s] \/ search'[s].pc = "idle"
    BY <2>1, <2>2 DEF SearchInv, SearchTypes
  <2>7. LockIsTaken'
    BY <2>1, <2>6 DEF SearchInv, LockIsTaken, Inside
  <2>8. NothingIsEmpty'
    BY <2>4 DEF SearchInv, NothingIsEmpty
  <2>9. CachedIsKnown'
    <3> SUFFICES ASSUME NEW s \in Searches!All, search'[s].pc \in {"query", "partial"},
                        age[search'[s].scope] # "gone"
                 PROVE  snapshot'[search'[s].scope].resources \cap stored'
                          \subseteq search'[s].cached
      BY <2>1 DEF CachedIsKnown
    <3>1. search'[s] = search[s] /\ search[s].scope \in Scopes
      BY <2>6 DEF SearchInv, SearchTypes, SearchRecord
    <3> QED BY <2>4, <3>1 DEF SearchInv, CachedIsKnown
  <2> QED BY <2>5, <2>7, <2>8, <2>9 DEF SearchInv
<1>2. ASSUME NEW q \in Scopes, Searches!TimePasses(q) PROVE SearchInv'
  <2>1. /\ UNCHANGED <<snapshot, stored, titleLock, search>>
        /\ age' \in [Scopes -> {"never", "fresh", "old", "gone"}]
        /\ \A p \in Scopes : age'[p] # "gone" => age[p] # "gone"
    BY <1>2 DEF Searches!TimePasses, SearchInv, SearchTypes
  <2>2. \A s \in Searches!All : search[s].scope \in Scopes
    BY DEF SearchInv, SearchTypes, SearchRecord
  <2> QED BY <2>1, <2>2 DEF SearchInv, SearchTypes, LockIsTaken, NothingIsEmpty, CachedIsKnown
<1>3. CASE UNCHANGED Searches!searchVars
  BY <1>3 DEF Searches!searchVars, SearchInv, SearchTypes, LockIsTaken, NothingIsEmpty,
              CachedIsKnown
<1> QED BY <1>1, <1>2, <1>3

\* Every step of the searches keeps the invariant.
LEMMA SearchesKeep ==
  ASSUME SearchInv, WholeTitle \in Scopes, NoSearch \notin Searches!All,
         [Searches!Next]_(Searches!searchVars)
  PROVE  SearchInv'
<1>1. Searches!SkipWarm => SearchInv'
  BY QuietKeep DEF Searches!All
<1> QED BY <1>1, QuietKeep, EnterKeeps, QueriesKeep, PersistKeeps, TimeKeeps
        DEF Searches!Next

\* The invariant holds in every state.
LEMMA SearchesHold ==
  ASSUME WholeTitle \in Scopes, NoSearch \notin Searches!All
  PROVE  Searches!Spec => []SearchInv
<1>1. Searches!Init => SearchInv
  <2> SUFFICES ASSUME Searches!Init PROVE SearchInv
    OBVIOUS
  <2>1. /\ snapshot = [q \in Scopes |-> Searches!NoSnapshot]
        /\ Searches!NoSnapshot \in SnapshotRow /\ Searches!NoSnapshot.resources = {}
        /\ Searches!Idle \in SearchRecord /\ Searches!Idle.pc = "idle"
    BY RestingSearch DEF Searches!Init, Searches!NoSnapshot, SnapshotRow, Searches!Kind,
                         Searches!Outcome
  <2>2. /\ age = [q \in Scopes |-> "never"] /\ stored = {}
        /\ search = [s \in Searches!All |-> Searches!Idle]
    BY DEF Searches!Init
  <2> QED BY <2>1, <2>2 DEF SearchInv, SearchTypes, LockIsTaken, NothingIsEmpty,
                            CachedIsKnown, Inside
<1> QED BY <1>1, SearchesKeep, PTL DEF Searches!Spec

\* A search that was answered only in part costs no resource of a usable snapshot,
\* whoever has made that, whatever the warming removes meanwhile, and however many
\* searches of the title wait (_search_locked).
THEOREM PartialAnswersAddOnly ==
  ASSUME WholeTitle \in Scopes, NoSearch \notin Searches!All
  PROVE  Searches!Spec => Searches!PartialLosesNothing
<1>1. ASSUME SearchInv, [Searches!Next]_(Searches!searchVars)
      PROVE  [\A q \in Scopes :
                age[q] # "gone" /\ snapshot[q] # snapshot'[q] /\ snapshot'[q].kind = "partial"
                  => snapshot[q].resources \cap stored \subseteq snapshot'[q].resources
             ]_(Searches!searchVars)
  <2> SUFFICES ASSUME NEW q \in Scopes, Searches!Next,
                      age[q] # "gone", snapshot[q] # snapshot'[q],
                      snapshot'[q].kind = "partial"
               PROVE  snapshot[q].resources \cap stored \subseteq snapshot'[q].resources
    BY <1>1
  <2>1. snapshot \in [Scopes -> SnapshotRow]
    BY <1>1 DEF SearchInv, SearchTypes
  <2>2. ASSUME NEW s \in Searches!All, Searches!PersistPartial(s)
        PROVE  snapshot[q].resources \cap stored \subseteq snapshot'[q].resources
    <3> DEFINE me == search[s]
    <3>1. /\ snapshot' = [snapshot EXCEPT ![me.scope] =
               [kind |-> "partial", resources |-> me.found \cup (me.found \cup me.cached)]]
          /\ me.pc = "partial"
      BY <2>2 DEF Searches!PersistPartial, Searches!Persist, Searches!Merged
    <3>2. q = me.scope
      BY <2>1, <3>1
    <3>3. me.cached \subseteq snapshot'[q].resources
      BY <2>1, <3>1, <3>2
    <3> QED BY <1>1, <3>1, <3>2, <3>3 DEF SearchInv, CachedIsKnown
  <2>3. ASSUME NEW s \in Searches!All, Searches!PersistComplete(s) PROVE FALSE
    <3>1. PICK kind \in {"negative", "positive"} :
            \E found : snapshot' = [snapshot EXCEPT ![search[s].scope] =
                                      [kind |-> kind, resources |-> found]]
      BY <2>3 DEF Searches!PersistComplete, Searches!Persist
    <3> QED BY <2>1, <3>1
  <2>4. ASSUME NEW forgotten, Searches!Clean(forgotten) PROVE FALSE
    BY <2>1, <2>4 DEF Searches!Clean, Searches!NoSnapshot
  <2>5. snapshot' # snapshot
    OBVIOUS
  <2> QED
    BY <2>2, <2>3, <2>4, <2>5, Zenon
    DEF Searches!Next, Searches!Begin, Searches!Enter, Searches!AllQueriesFail,
        Searches!QueriesEnd, Searches!Verify, Searches!VerifyFails, Searches!Return,
        Searches!Abandon, Searches!SkipWarm, Searches!TimePasses
<1> QED BY <1>1, SearchesHold, PTL DEF Searches!Spec, Searches!PartialLosesNothing

(***************************************************************************)
(* Inspections: the status of a batch and the cache.                       *)
(***************************************************************************)
\* The rows and the worker; the batch of a working worker is known by its number.
InspectionTypes ==
  /\ batch \in [Inspections!Batches -> [status : Inspections!BatchStatus, old : BOOLEAN]]
  /\ item \in [Inspections!Batches ->
                 [Magnets -> {"none"} \cup Inspections!Open \cup Inspections!Ended]]
  /\ cache \in [Magnets -> {"none", "verified", "timeout", "expired"}]
  /\ inspect \in [Magnets -> {"none", "claim", "ask"} \cup Inspections!Ended]
  /\ inspector \in [pc : {"recover", "idle", "depend", "list", "run"},
                    batch : Inspections!Batches \cup {NoBatch}]

\* The batch that the worker has taken is running, or was removed with its items.
TakenIsRunning ==
  inspector.pc \in {"depend", "list", "run"} =>
    /\ inspector.batch \in Inspections!Batches
    /\ \/ batch[inspector.batch].status = "running"
       \/ /\ batch[inspector.batch].status = "absent" /\ batch[inspector.batch].old
          /\ item[inspector.batch] = Inspections!NoItem

\* An item is under way only while the worker waits for its items.
ItemsAreAwaited == inspect # Inspections!NoItem => inspector.pc = "run"

\* What a batch says of itself, one batch at a time.
SaysItsItems(label, row) ==
  LET results == {row[m] : m \in {m \in Magnets : row[m] # "none"}} IN
  /\ label = "completed" => results = {"verified"}
  /\ label = "partial" => "verified" \in results /\ results \cap Inspections!Open = {}
  /\ label = "failed" => "verified" \notin results

StatusesAreTrue ==
  \A b \in Inspections!Batches : SaysItsItems(batch[b].status, item[b])

InspectionInv == InspectionTypes /\ TakenIsRunning /\ ItemsAreAwaited /\ StatusesAreTrue

-----------------------------------------------------------------------------
\* A row of a batch.
BatchRow == [status : Inspections!BatchStatus, old : BOOLEAN]
ItemRow == [Magnets -> {"none"} \cup Inspections!Open \cup Inspections!Ended]

\* What the items say is true of them when they have all ended.
LEMMA OutcomeIsTrue ==
  ASSUME NEW row \in ItemRow, \A m \in Magnets : row[m] \notin Inspections!Open
  PROVE  LET results == {row[m] : m \in {m \in Magnets : row[m] # "none"}} IN
         /\ SaysItsItems(Inspections!Outcome(results), row)
         /\ Inspections!Outcome(results) \in {"completed", "partial", "failed"}
BY DEF SaysItsItems, Inspections!Outcome, ItemRow, Inspections!Open

\* A status that is not of the end says nothing.
LEMMA NotOver ==
  ASSUME NEW label \in {"absent", "queued", "running"}, NEW row
  PROVE  SaysItsItems(label, row)
BY DEF SaysItsItems

\* One batch and the worker change; what was true of the others stays so.
LEMMA OneBatch ==
  ASSUME InspectionInv, NEW b \in Inspections!Batches,
         NEW x \in BatchRow, NEW row \in ItemRow,
         batch' = [batch EXCEPT ![b] = x], item' = [item EXCEPT ![b] = row],
         SaysItsItems(x.status, row),
         UNCHANGED cache, InspectionTypes', TakenIsRunning', ItemsAreAwaited'
  PROVE  InspectionInv'
<1>1. \A c \in Inspections!Batches :
        /\ batch'[c] = IF c = b THEN x ELSE batch[c]
        /\ item'[c] = IF c = b THEN row ELSE item[c]
  BY DEF InspectionInv, InspectionTypes
<1>2. StatusesAreTrue'
  <2> SUFFICES ASSUME NEW c \in Inspections!Batches
               PROVE  SaysItsItems(batch'[c].status, item'[c])
    BY DEF StatusesAreTrue
  <2>1. CASE c = b
    BY <1>1, <2>1
  <2>2. CASE c # b
    BY <1>1, <2>2 DEF InspectionInv, StatusesAreTrue
  <2> QED BY <2>1, <2>2
<1> QED BY <1>2 DEF InspectionInv

\* create(): what the cache answers ends at once.
LEMMA CreateKeeps ==
  ASSUME InspectionInv, NEW b \in Inspections!Batches, NEW magnets \in SUBSET Magnets,
         NEW force \in BOOLEAN, Inspections!Create(b, magnets, force)
  PROVE  InspectionInv'
<1> DEFINE row == [m \in Magnets |->
                     IF m \notin magnets THEN "none"
                     ELSE IF cache[m] \in {"verified", "timeout"} /\ ~force
                     THEN cache[m] ELSE "queued"]
           results == {row[m] : m \in magnets}
           label == IF \E m \in magnets : row[m] = "queued" THEN "queued"
                     ELSE Inspections!Outcome(results)
           x == [batch[b] EXCEPT !.status = label]
<1>1. /\ item' = [item EXCEPT ![b] = row]
      /\ batch' = [batch EXCEPT ![b].status = label]
      /\ UNCHANGED <<cache, inspector, inspect>>
      /\ batch[b].status = "absent" /\ ~batch[b].old
  BY DEF Inspections!Create
<1>2. row \in ItemRow
  BY DEF ItemRow, Inspections!Open, Inspections!Ended
<1>3. /\ \A m \in magnets : row[m] \in {"verified", "timeout", "queued"}
      /\ {m \in Magnets : row[m] # "none"} = magnets
  OBVIOUS
<1>4. (\A m \in magnets : row[m] # "queued") =>
        \A m \in Magnets : row[m] \notin Inspections!Open
  BY <1>3 DEF Inspections!Open
<1>5. SaysItsItems(label, row) /\ label \in {"queued", "completed", "partial", "failed"}
  BY <1>2, <1>3, <1>4, OutcomeIsTrue, NotOver
<1> HIDE DEF row, label, results
<1>6. batch[b] \in BatchRow
  BY DEF InspectionInv, InspectionTypes, BatchRow
<1>7. x \in BatchRow /\ x.status = label
  BY <1>5, <1>6 DEF BatchRow, Inspections!BatchStatus, Inspections!Open
<1>8. batch' = [batch EXCEPT ![b] = x]
  BY <1>1
<1>9. InspectionTypes'
  BY <1>1, <1>2, <1>7, <1>8 DEF InspectionInv, InspectionTypes, BatchRow, ItemRow
<1>10. TakenIsRunning'
  <2>1. ASSUME inspector.pc \in {"depend", "list", "run"}
        PROVE  /\ inspector.batch \in Inspections!Batches /\ inspector.batch # b
    BY <1>1, <2>1 DEF InspectionInv, TakenIsRunning
  <2>2. \A c \in Inspections!Batches \ {b} : batch'[c] = batch[c] /\ item'[c] = item[c]
    BY <1>1, <1>8 DEF InspectionInv, InspectionTypes
  <2> QED BY <1>1, <2>1, <2>2 DEF InspectionInv, TakenIsRunning
<1>11. ItemsAreAwaited'
  BY <1>1 DEF InspectionInv, ItemsAreAwaited
<1> HIDE DEF x
<1> QED BY <1>1, <1>2, <1>5, <1>7, <1>8, <1>9, <1>10, <1>11, OneBatch

\* The start puts what was running back into the queue.
LEMMA RecoverKeeps ==
  ASSUME InspectionInv, Inspections!Recover PROVE InspectionInv'
<1>1. /\ inspector' = Inspections!Idle /\ UNCHANGED <<cache, inspect>>
      /\ batch' = [b \in Inspections!Batches |->
           [batch[b] EXCEPT !.status = Inspections!Recovered(@)]]
      /\ item' = [b \in Inspections!Batches |-> [m \in Magnets |->
           IF item[b][m] = "running" THEN "queued" ELSE item[b][m]]]
      /\ inspector.pc = "recover"
  BY DEF Inspections!Recover, Inspections!Stopped
<1>2. /\ inspector'.pc = "idle" /\ inspector'.batch = NoBatch
      /\ inspector' = [pc |-> "idle", batch |-> NoBatch]
  BY <1>1 DEF Inspections!Idle
<1>3. inspect = Inspections!NoItem
  BY <1>1 DEF InspectionInv, ItemsAreAwaited
<1>4. \A b \in Inspections!Batches :
        /\ batch[b] \in BatchRow /\ item[b] \in ItemRow
        /\ batch'[b] = [batch[b] EXCEPT !.status = Inspections!Recovered(@)]
        /\ item'[b] = [m \in Magnets |->
             IF item[b][m] = "running" THEN "queued" ELSE item[b][m]]
  BY <1>1 DEF InspectionInv, InspectionTypes, BatchRow, ItemRow
<1>5. ASSUME NEW b \in Inspections!Batches
      PROVE  /\ batch'[b] \in BatchRow /\ item'[b] \in ItemRow
             /\ SaysItsItems(batch'[b].status, item'[b])
  <2>1. item'[b] \in ItemRow
    <3>1. item[b] \in ItemRow
      BY <1>4
    <3>2. \A m \in Magnets :
            (IF item[b][m] = "running" THEN "queued" ELSE item[b][m])
              \in {"none"} \cup Inspections!Open \cup Inspections!Ended
      BY <3>1 DEF ItemRow, Inspections!Open
    <3>3. item'[b] = [m \in Magnets |->
             IF item[b][m] = "running" THEN "queued" ELSE item[b][m]]
      BY <1>4
    <3> QED BY <3>2, <3>3 DEF ItemRow
  <2>2. /\ batch'[b] \in BatchRow
        /\ batch'[b].status = IF batch[b].status \in Inspections!Open THEN "queued"
                              ELSE batch[b].status
    BY <1>4 DEF BatchRow, Inspections!Recovered, Inspections!BatchStatus, Inspections!Open
  <2>3. SaysItsItems(batch[b].status, item[b])
    BY DEF InspectionInv, StatusesAreTrue
  <2>4. CASE batch'[b].status = "queued"
    BY <2>1, <2>2, <2>4 DEF SaysItsItems
  <2>5. CASE batch'[b].status = batch[b].status
    <3>1. \A m \in Magnets :
            /\ item'[b][m] = IF item[b][m] = "running" THEN "queued" ELSE item[b][m]
            /\ item'[b][m] = "verified" <=> item[b][m] = "verified"
            /\ item'[b][m] = "none" <=> item[b][m] = "none"
            /\ item'[b][m] \in Inspections!Open <=> item[b][m] \in Inspections!Open
      <4> SUFFICES ASSUME NEW m \in Magnets
                   PROVE  /\ item'[b][m] = IF item[b][m] = "running" THEN "queued" ELSE item[b][m]
                          /\ item'[b][m] = "verified" <=> item[b][m] = "verified"
                          /\ item'[b][m] = "none" <=> item[b][m] = "none"
                          /\ item'[b][m] \in Inspections!Open <=> item[b][m] \in Inspections!Open
        OBVIOUS
      <4>1. item'[b][m] = IF item[b][m] = "running" THEN "queued" ELSE item[b][m]
        <5>1. item'[b] = [n \in Magnets |->
                 IF item[b][n] = "running" THEN "queued" ELSE item[b][n]]
          BY <1>4
        <5> QED BY <5>1
      <4> QED BY <4>1 DEF Inspections!Open
    <3> DEFINE before == {item[b][m] : m \in {m \in Magnets : item[b][m] # "none"}}
               after == {item'[b][m] : m \in {m \in Magnets : item'[b][m] # "none"}}
    <3>2. "verified" \in after <=> "verified" \in before
      BY <3>1
    <3>3. before = {"verified"} => after = {"verified"}
      <4> HAVE before = {"verified"}
      <4>1. \A m \in Magnets : item[b][m] # "none" => item[b][m] = "verified"
        OBVIOUS
      <4>2. \A y \in after : y = "verified"
        BY <3>1, <4>1
      <4>3. "verified" \in after
        BY <3>2
      <4> QED BY <4>2, <4>3
    <3>4. before \cap Inspections!Open = {} => after \cap Inspections!Open = {}
      <4> SUFFICES ASSUME before \cap Inspections!Open = {},
                          NEW y \in after, y \in Inspections!Open
                   PROVE  FALSE
        OBVIOUS
      <4>1. PICK m \in Magnets : item'[b][m] # "none" /\ y = item'[b][m]
        OBVIOUS
      <4> QED BY <3>1, <4>1
    <3>5. /\ batch[b].status = "completed" => before = {"verified"}
          /\ batch[b].status = "partial" =>
               "verified" \in before /\ before \cap Inspections!Open = {}
          /\ batch[b].status = "failed" => "verified" \notin before
      BY <2>3 DEF SaysItsItems
    <3>6. SaysItsItems(batch'[b].status, item'[b]) <=>
            /\ batch'[b].status = "completed" => after = {"verified"}
            /\ batch'[b].status = "partial" =>
                 "verified" \in after /\ after \cap Inspections!Open = {}
            /\ batch'[b].status = "failed" => "verified" \notin after
      BY DEF SaysItsItems
    <3> HIDE DEF before, after
    <3> QED BY <2>1, <2>2, <2>5, <3>2, <3>3, <3>4, <3>5, <3>6
  <2> QED BY <2>1, <2>2, <2>4, <2>5
<1>6. InspectionTypes'
  <2>1. /\ batch' \in [Inspections!Batches -> BatchRow]
        /\ item' \in [Inspections!Batches -> ItemRow]
    BY <1>1, <1>5
  <2> QED BY <1>1, <1>2, <2>1 DEF InspectionInv, InspectionTypes, BatchRow, ItemRow
<1> QED
  BY <1>1, <1>2, <1>3, <1>5, <1>6
  DEF InspectionInv, TakenIsRunning, ItemsAreAwaited, StatusesAreTrue, Inspections!NoItem

\* The worker takes a batch, asks for qBittorrent and lists the items.
LEMMA TakeKeeps ==
  ASSUME InspectionInv, NEW b \in Inspections!Batches, Inspections!ClaimBatch(b)
  PROVE  InspectionInv'
<1> DEFINE x == [batch[b] EXCEPT !.status = "running"]
<1>1. /\ batch' = [batch EXCEPT ![b].status = "running"]
      /\ inspector' = [pc |-> "depend", batch |-> b]
      /\ inspector.pc = "idle" /\ UNCHANGED <<item, cache, inspect>>
  BY DEF Inspections!ClaimBatch, Inspections!Idle
<1>2. batch[b] \in BatchRow /\ item[b] \in ItemRow
  BY DEF InspectionInv, InspectionTypes, BatchRow, ItemRow
<1>3. x \in BatchRow /\ x.status = "running"
  BY <1>2 DEF BatchRow, Inspections!BatchStatus, Inspections!Open
<1>4. batch' = [batch EXCEPT ![b] = x] /\ item' = [item EXCEPT ![b] = item[b]]
  BY <1>1 DEF InspectionInv, InspectionTypes
<1> HIDE DEF x
<1>5. batch'[b] = x
  BY <1>4 DEF InspectionInv, InspectionTypes
<1>6. InspectionTypes'
  BY <1>1, <1>3, <1>4 DEF InspectionInv, InspectionTypes, BatchRow
<1>7. TakenIsRunning' /\ ItemsAreAwaited'
  BY <1>1, <1>3, <1>5 DEF InspectionInv, TakenIsRunning, ItemsAreAwaited
<1>8. SaysItsItems(x.status, item[b])
  BY <1>3 DEF SaysItsItems
<1>9. UNCHANGED cache
  BY <1>1
<1> QED BY <1>2, <1>3, <1>4, <1>6, <1>7, <1>8, <1>9, OneBatch

\* A batch fails as a whole only while none of its items has ended.
LEMMA DependKeeps ==
  ASSUME InspectionInv, NEW available \in BOOLEAN, Inspections!Depend(available)
  PROVE  InspectionInv'
<1> DEFINE b == inspector.batch
           x == [batch[b] EXCEPT !.status = "failed"]
<1>1. /\ b \in Inspections!Batches /\ inspector.pc = "depend"
      /\ UNCHANGED <<item, cache, inspect>>
      /\ batch[b] \in BatchRow /\ item[b] \in ItemRow
  BY DEF Inspections!Depend, InspectionInv, InspectionTypes, TakenIsRunning, BatchRow, ItemRow
<1>2. inspect = Inspections!NoItem
  BY <1>1 DEF InspectionInv, ItemsAreAwaited
<1>3. CASE ~available /\ Inspections!Untouched(b)
  <2>1. inspector' = [pc |-> "idle", batch |-> NoBatch]
    BY <1>3 DEF Inspections!Depend, Inspections!Idle
  <2>2. TakenIsRunning' /\ ItemsAreAwaited'
    BY <1>1, <1>2, <2>1 DEF TakenIsRunning, ItemsAreAwaited, Inspections!NoItem
  <2>3. CASE batch[b].status # "absent"
    <3>1. x \in BatchRow /\ x.status = "failed"
      BY <1>1 DEF BatchRow, Inspections!BatchStatus
    <3>2. batch' = [batch EXCEPT ![b] = x] /\ item' = [item EXCEPT ![b] = item[b]]
      BY <1>1, <1>3, <2>3 DEF Inspections!Depend, InspectionInv, InspectionTypes
    <3>3. SaysItsItems(x.status, item[b])
      BY <1>3, <3>1 DEF SaysItsItems, Inspections!Untouched, Inspections!Ended
    <3> HIDE DEF x
    <3>4. InspectionTypes'
      BY <1>1, <2>1, <3>1, <3>2 DEF InspectionInv, InspectionTypes, BatchRow
    <3> HIDE DEF b
    <3> QED BY <1>1, <2>2, <3>1, <3>2, <3>3, <3>4, OneBatch
  <2>4. CASE batch[b].status = "absent"
    <3>1. UNCHANGED batch
      BY <2>4 DEF Inspections!Depend
    <3>2. InspectionTypes' /\ StatusesAreTrue'
      BY <1>1, <2>1, <3>1 DEF InspectionInv, InspectionTypes, StatusesAreTrue
    <3> QED BY <2>2, <3>2 DEF InspectionInv
  <2> QED BY <2>3, <2>4
<1>4. CASE ~(~available /\ Inspections!Untouched(b))
  <2>1. inspector' = [inspector EXCEPT !.pc = "list"] /\ UNCHANGED batch
    BY <1>4 DEF Inspections!Depend
  <2>2. inspector'.pc = "list" /\ inspector'.batch = b
    BY <2>1 DEF InspectionInv, InspectionTypes
  <2>3. InspectionTypes' /\ StatusesAreTrue'
    BY <1>1, <2>1 DEF InspectionInv, InspectionTypes, StatusesAreTrue
  <2>4. TakenIsRunning' /\ ItemsAreAwaited'
    BY <1>1, <1>2, <2>1, <2>2
    DEF InspectionInv, TakenIsRunning, ItemsAreAwaited, Inspections!NoItem
  <2> QED BY <2>3, <2>4 DEF InspectionInv
<1> QED BY <1>3, <1>4

\* The coroutines of the items: until the worker finalizes, the batch is running
\* or gone, so no status depends on them.
LEMMA ItemsKeep ==
  ASSUME InspectionInv, NEW m \in Magnets,
         \/ Inspections!ClaimItem(m)
         \/ \E result \in Inspections!Ended : Inspections!Inspect(m, result)
         \/ Inspections!StoreResult(m)
  PROVE  InspectionInv'
<1> DEFINE b == inspector.batch
<1>1. /\ inspect[m] # "none" /\ UNCHANGED <<batch, inspector>>
      /\ inspect' \in [Magnets -> {"none", "claim", "ask"} \cup Inspections!Ended]
  <2>1. inspect \in [Magnets -> {"none", "claim", "ask"} \cup Inspections!Ended]
    BY DEF InspectionInv, InspectionTypes
  <2>2. /\ inspect[m] \in {"claim", "ask"} \cup Inspections!Ended
        /\ UNCHANGED <<batch, inspector>>
        /\ \E y \in {"none", "ask"} \cup Inspections!Ended : inspect' = [inspect EXCEPT ![m] = y]
    BY DEF Inspections!ClaimItem, Inspections!Inspect, Inspections!StoreResult
  <2> QED BY <2>1, <2>2 DEF Inspections!Ended
<1>2. inspector.pc = "run" /\ b \in Inspections!Batches
  BY <1>1 DEF InspectionInv, ItemsAreAwaited, TakenIsRunning, Inspections!NoItem
<1>3. /\ batch[b] \in BatchRow /\ item[b] \in ItemRow
      /\ batch[b].status \in {"running", "absent"}
      /\ batch[b].status = "absent" =>
           batch[b].old /\ \A n \in Magnets : item[b][n] = "none"
  BY <1>2 DEF InspectionInv, InspectionTypes, TakenIsRunning, BatchRow, ItemRow,
              Inspections!NoItem
<1>4. cache' \in [Magnets -> {"none", "verified", "timeout", "expired"}]
  <2>1. cache \in [Magnets -> {"none", "verified", "timeout", "expired"}]
    BY DEF InspectionInv, InspectionTypes
  <2>2. \/ UNCHANGED cache
        \/ /\ inspect[m] \in Inspections!Ended
           /\ cache' = [cache EXCEPT ![m] = Inspections!Cached(m, inspect[m])]
    BY DEF Inspections!ClaimItem, Inspections!Inspect, Inspections!StoreResult
  <2>3. inspect[m] \in Inspections!Ended => Inspections!Cached(m, inspect[m])
          \in {"none", "verified", "timeout", "expired"}
    BY <2>1 DEF Inspections!Ended, Inspections!Cached
  <2> QED BY <2>1, <2>2, <2>3
<1>5. UNCHANGED item \/ \E y \in {"running"} \cup Inspections!Ended :
        item' = [item EXCEPT ![b][m] = y] /\ item[b][m] \in Inspections!Open
  BY DEF Inspections!ClaimItem, Inspections!Inspect, Inspections!StoreResult
<1>6. /\ item' \in [Inspections!Batches -> ItemRow]
      /\ \A c \in Inspections!Batches \ {b} : item'[c] = item[c]
      /\ batch[b].status = "absent" => UNCHANGED item
  <2>1. item \in [Inspections!Batches -> ItemRow]
    BY DEF InspectionInv, InspectionTypes, ItemRow
  <2>2. CASE UNCHANGED item
    BY <2>1, <2>2
  <2>3. CASE item' # item
    <3>1. PICK y \in {"running"} \cup Inspections!Ended :
            item' = [item EXCEPT ![b][m] = y] /\ item[b][m] \in Inspections!Open
      BY <1>5, <2>3
    <3>2. [item[b] EXCEPT ![m] = y] \in ItemRow
      BY <1>3 DEF ItemRow, Inspections!Open
    <3>3. item' = [item EXCEPT ![b] = [item[b] EXCEPT ![m] = y]]
      BY <3>1
    <3>4. batch[b].status # "absent"
      BY <1>3, <3>1 DEF Inspections!Open
    <3> QED BY <2>1, <3>2, <3>3, <3>4
  <2> QED BY <2>2, <2>3
<1>7. InspectionTypes'
  BY <1>1, <1>4, <1>6 DEF InspectionInv, InspectionTypes, ItemRow
<1>8. TakenIsRunning' /\ ItemsAreAwaited'
  BY <1>1, <1>2, <1>3, <1>6 DEF InspectionInv, TakenIsRunning, ItemsAreAwaited
<1>9. StatusesAreTrue'
  <2> SUFFICES ASSUME NEW c \in Inspections!Batches
               PROVE  SaysItsItems(batch[c].status, item'[c])
    BY <1>1 DEF StatusesAreTrue
  <2>1. CASE c = b
    BY <1>3, <2>1, NotOver
  <2>2. CASE c # b
    BY <1>6, <2>2 DEF InspectionInv, StatusesAreTrue
  <2> QED BY <2>1, <2>2
<1> QED BY <1>7, <1>8, <1>9 DEF InspectionInv

\* The worker lists the items of its batch.
LEMMA ListKeeps ==
  ASSUME InspectionInv, Inspections!ListItems PROVE InspectionInv'
<1>1. /\ inspector' = [inspector EXCEPT !.pc = "run"] /\ inspector.pc = "list"
      /\ inspect' \in [Magnets -> {"none", "claim"}] /\ UNCHANGED <<batch, item, cache>>
  BY DEF Inspections!ListItems
<1>2. inspector'.pc = "run" /\ inspector'.batch = inspector.batch
  BY <1>1 DEF InspectionInv, InspectionTypes
<1>3. InspectionTypes' /\ StatusesAreTrue'
  BY <1>1 DEF InspectionInv, InspectionTypes, StatusesAreTrue
<1> QED BY <1>1, <1>2, <1>3 DEF InspectionInv, TakenIsRunning, ItemsAreAwaited

\* The last step of a batch reads its items when all of them have ended.
LEMMA FinalizeKeeps ==
  ASSUME InspectionInv, Inspections!FinalizeBatch PROVE InspectionInv'
<1> DEFINE b == inspector.batch
           results == {item[b][m] : m \in Inspections!Items(b)}
           x == [batch[b] EXCEPT !.status = Inspections!Outcome(results)]
<1>1. /\ b \in Inspections!Batches /\ inspector.pc = "run" /\ inspect = Inspections!NoItem
      /\ inspector' = [pc |-> "idle", batch |-> NoBatch] /\ UNCHANGED <<item, cache, inspect>>
      /\ batch[b] \in BatchRow /\ item[b] \in ItemRow
  BY DEF Inspections!FinalizeBatch, InspectionInv, InspectionTypes, TakenIsRunning,
         Inspections!Idle, BatchRow, ItemRow
<1>2. TakenIsRunning' /\ ItemsAreAwaited'
  BY <1>1 DEF TakenIsRunning, ItemsAreAwaited, Inspections!NoItem
<1>3. CASE UNCHANGED batch
  <2>1. InspectionTypes' /\ StatusesAreTrue'
    BY <1>1, <1>3 DEF InspectionInv, InspectionTypes, StatusesAreTrue
  <2> QED BY <1>2, <2>1 DEF InspectionInv
<1>4. CASE batch' # batch
  <2>1. /\ Inspections!Unfinished(b) = {}
        /\ batch' = [batch EXCEPT ![b].status = Inspections!Outcome(results)]
    BY <1>4 DEF Inspections!FinalizeBatch
  <2>2. \A m \in Magnets : item[b][m] \notin Inspections!Open
    BY <2>1 DEF Inspections!Unfinished
  <2>3. /\ SaysItsItems(Inspections!Outcome(results), item[b])
        /\ Inspections!Outcome(results) \in {"completed", "partial", "failed"}
    BY <1>1, <2>2, OutcomeIsTrue DEF Inspections!Items
  <2> HIDE DEF results
  <2>4. x \in BatchRow /\ x.status = Inspections!Outcome(results)
    BY <1>1, <2>3 DEF BatchRow, Inspections!BatchStatus
  <2>5. batch' = [batch EXCEPT ![b] = x] /\ item' = [item EXCEPT ![b] = item[b]]
    BY <1>1, <2>1 DEF InspectionInv, InspectionTypes
  <2>6. SaysItsItems(x.status, item[b])
    BY <2>3, <2>4
  <2> HIDE DEF x
  <2>7. InspectionTypes'
    BY <1>1, <2>4, <2>5 DEF InspectionInv, InspectionTypes, BatchRow
  <2> HIDE DEF b
  <2> QED BY <1>1, <1>2, <2>4, <2>5, <2>6, <2>7, OneBatch
<1> QED BY <1>3, <1>4

\* The process stops, time passes, and what is old is removed.
LEMMA OthersKeepInspections ==
  ASSUME InspectionInv,
         Inspections!Stop \/ Inspections!TimePasses \/ Inspections!Cleanup
           \/ UNCHANGED Inspections!inspectVars
  PROVE  InspectionInv'
<1>1. CASE Inspections!Stop
  <2>1. /\ inspector' = [pc |-> "recover", batch |-> NoBatch]
        /\ inspect' = [m \in Magnets |-> "none"] /\ UNCHANGED <<batch, item, cache>>
    BY <1>1 DEF Inspections!Stop, Inspections!Stopped, Inspections!NoItem
  <2> QED
    BY <2>1 DEF InspectionInv, InspectionTypes, TakenIsRunning, ItemsAreAwaited,
                StatusesAreTrue, Inspections!NoItem
<1>2. CASE Inspections!TimePasses
  <2>1. /\ UNCHANGED <<item, inspector, inspect>>
        /\ cache' \in [Magnets -> {"none", "verified", "timeout", "expired"}]
    BY <1>2 DEF Inspections!TimePasses, InspectionInv, InspectionTypes
  <2>2. UNCHANGED batch \/ \E b \in Inspections!Batches :
          batch' = [batch EXCEPT ![b].old = TRUE]
    BY <1>2 DEF Inspections!TimePasses
  <2>3. /\ batch' \in [Inspections!Batches -> BatchRow]
        /\ \A c \in Inspections!Batches :
             /\ batch'[c].status = batch[c].status
             /\ batch[c].old => batch'[c].old
    <3>1. batch \in [Inspections!Batches -> BatchRow]
      BY DEF InspectionInv, InspectionTypes, BatchRow
    <3>2. CASE UNCHANGED batch
      BY <3>1, <3>2
    <3>3. ASSUME NEW b \in Inspections!Batches, batch' = [batch EXCEPT ![b].old = TRUE]
          PROVE  /\ batch' \in [Inspections!Batches -> BatchRow]
                 /\ \A c \in Inspections!Batches :
                      /\ batch'[c].status = batch[c].status
                      /\ batch[c].old => batch'[c].old
      <4>1. batch' = [batch EXCEPT ![b] = [batch[b] EXCEPT !.old = TRUE]]
        BY <3>3
      <4>2. /\ [batch[b] EXCEPT !.old = TRUE] \in BatchRow
            /\ [batch[b] EXCEPT !.old = TRUE].status = batch[b].status
            /\ [batch[b] EXCEPT !.old = TRUE].old
        BY <3>1 DEF BatchRow
      <4> QED BY <3>1, <4>1, <4>2
    <3> QED BY <2>2, <3>2, <3>3
  <2> QED
    BY <2>1, <2>3 DEF InspectionInv, InspectionTypes, TakenIsRunning, ItemsAreAwaited,
                      StatusesAreTrue, BatchRow
<1>3. CASE Inspections!Cleanup
  <2>1. /\ UNCHANGED <<inspector, inspect>>
        /\ cache' \in [Magnets -> {"none", "verified", "timeout", "expired"}]
    BY <1>3 DEF Inspections!Cleanup, InspectionInv, InspectionTypes
  <2>2. /\ batch' = [b \in Inspections!Batches |->
             IF batch[b].old THEN [batch[b] EXCEPT !.status = "absent"] ELSE batch[b]]
        /\ item' = [b \in Inspections!Batches |->
             IF batch[b].old THEN Inspections!NoItem ELSE item[b]]
    BY <1>3 DEF Inspections!Cleanup
  <2>3. \A c \in Inspections!Batches :
          /\ batch[c] \in BatchRow /\ batch'[c] \in BatchRow
          /\ item'[c] \in [Magnets -> {"none"} \cup Inspections!Open \cup Inspections!Ended]
          /\ batch[c].old => /\ batch'[c].status = "absent" /\ batch'[c].old
                             /\ item'[c] = Inspections!NoItem
          /\ ~batch[c].old => batch'[c] = batch[c] /\ item'[c] = item[c]
    <3> SUFFICES ASSUME NEW c \in Inspections!Batches
                 PROVE
          /\ batch[c] \in BatchRow /\ batch'[c] \in BatchRow
          /\ item'[c] \in [Magnets -> {"none"} \cup Inspections!Open \cup Inspections!Ended]
          /\ batch[c].old => /\ batch'[c].status = "absent" /\ batch'[c].old
                             /\ item'[c] = Inspections!NoItem
          /\ ~batch[c].old => batch'[c] = batch[c] /\ item'[c] = item[c]
      OBVIOUS
    <3>1. batch[c] \in BatchRow
      BY DEF InspectionInv, InspectionTypes, BatchRow
    <3>2. CASE batch[c].old
      BY <2>2, <3>1, <3>2 DEF BatchRow, Inspections!BatchStatus, Inspections!NoItem
    <3>3. CASE ~batch[c].old
      BY <2>2, <3>1, <3>3 DEF InspectionInv, InspectionTypes
    <3> QED BY <3>1, <3>2, <3>3
  <2>4. InspectionTypes'
    BY <2>1, <2>2, <2>3 DEF InspectionInv, InspectionTypes, BatchRow
  <2>5. StatusesAreTrue'
    BY <2>3, NotOver DEF InspectionInv, StatusesAreTrue
  <2>6. TakenIsRunning' /\ ItemsAreAwaited'
    BY <2>1, <2>3 DEF InspectionInv, TakenIsRunning, ItemsAreAwaited
  <2> QED BY <2>4, <2>5, <2>6 DEF InspectionInv
<1>4. CASE UNCHANGED Inspections!inspectVars
  BY <1>4 DEF Inspections!inspectVars, InspectionInv, InspectionTypes, TakenIsRunning,
              ItemsAreAwaited, StatusesAreTrue
<1> QED BY <1>1, <1>2, <1>3, <1>4

\* Every step of the inspections keeps the invariant.
LEMMA InspectionsKeep ==
  ASSUME InspectionInv, [Inspections!Next]_(Inspections!inspectVars) PROVE InspectionInv'
BY CreateKeeps, RecoverKeeps, TakeKeeps, DependKeeps, ListKeeps, ItemsKeep, FinalizeKeeps,
   OthersKeepInspections DEF Inspections!Next, Inspections!WorkerStep

\* It holds in every state.
LEMMA InspectionsHold == Inspections!Spec => []InspectionInv
<1>1. Inspections!Init => InspectionInv
  <2> SUFFICES ASSUME Inspections!Init PROVE InspectionInv
    OBVIOUS
  <2>1. /\ batch = [b \in Inspections!Batches |-> [status |-> "absent", old |-> FALSE]]
        /\ item = [b \in Inspections!Batches |-> [m \in Magnets |-> "none"]]
        /\ cache = [m \in Magnets |-> "none"] /\ inspect = [m \in Magnets |-> "none"]
        /\ inspector = [pc |-> "recover", batch |-> NoBatch]
    BY DEF Inspections!Init, Inspections!NoItem, Inspections!Stopped
  <2>2. InspectionTypes
    BY <2>1 DEF InspectionTypes, Inspections!BatchStatus
  <2>3. StatusesAreTrue
    BY <2>1, NotOver DEF StatusesAreTrue
  <2> QED BY <2>1, <2>2, <2>3
          DEF InspectionInv, TakenIsRunning, ItemsAreAwaited, Inspections!NoItem
<1> QED BY <1>1, InspectionsKeep, PTL DEF Inspections!Spec

\* A batch that has ended says what its items say (_batch_status), for any number of
\* items and batches, and whatever is stopped, recovered or removed in between.
THEOREM BatchesFollowTheirItems ==
  Inspections!Spec => []Inspections!BatchFollowsItems
<1>1. InspectionInv => Inspections!BatchFollowsItems
  BY DEF InspectionInv, StatusesAreTrue, SaysItsItems, Inspections!BatchFollowsItems,
         Inspections!Items
<1> QED BY <1>1, InspectionsHold, PTL

\* An infohash that was verified stays so in the cache: a later timeout or failure
\* does not replace it, and it does not expire (_store_cache).
THEOREM VerifiedStays ==
  Inspections!Spec => [][Inspections!VerifiedIsKept]_(Inspections!inspectVars)
<1>1. ASSUME InspectionInv, [Inspections!Next]_(Inspections!inspectVars)
      PROVE  Inspections!VerifiedIsKept
  <2> SUFFICES ASSUME NEW m \in Magnets, cache[m] = "verified"
               PROVE  cache'[m] = "verified"
    BY DEF Inspections!VerifiedIsKept
  <2>1. cache = [n \in Magnets |-> cache[n]]
    BY <1>1 DEF InspectionInv, InspectionTypes
  <2>2. CASE UNCHANGED cache
    BY <2>2
  <2>3. ASSUME NEW n \in Magnets, Inspections!StoreResult(n) PROVE cache'[m] = "verified"
    <3>1. UNCHANGED cache
            \/ cache' = [cache EXCEPT ![n] = Inspections!Cached(n, inspect[n])]
      BY <2>3 DEF Inspections!StoreResult
    <3>2. inspect[n] \in Inspections!Ended
      BY <2>3 DEF Inspections!StoreResult
    <3> QED BY <2>1, <3>1, <3>2 DEF Inspections!Cached, Inspections!Ended
  <2>4. CASE Inspections!TimePasses
    BY <2>1, <2>4 DEF Inspections!TimePasses
  <2>5. CASE Inspections!Cleanup
    BY <2>5 DEF Inspections!Cleanup
  <2>6. CASE Inspections!WorkerStep
    BY <2>2, <2>3, <2>6
    DEF Inspections!WorkerStep, Inspections!Recover, Inspections!ClaimBatch,
        Inspections!Depend, Inspections!ListItems, Inspections!ClaimItem,
        Inspections!Inspect, Inspections!FinalizeBatch
  <2>7. CASE Inspections!Stop \/ UNCHANGED Inspections!inspectVars
    BY <2>2, <2>7 DEF Inspections!Stop, Inspections!inspectVars
  <2>8. ASSUME NEW b \in Inspections!Batches, NEW magnets \in SUBSET Magnets,
               NEW force \in BOOLEAN, Inspections!Create(b, magnets, force)
        PROVE  cache'[m] = "verified"
    BY <2>2, <2>8 DEF Inspections!Create
  <2> QED BY <1>1, <2>4, <2>5, <2>6, <2>7, <2>8 DEF Inspections!Next
<1> QED BY <1>1, InspectionsHold, PTL DEF Inspections!Spec

(***************************************************************************)
(* Metadata calls: what they remove.                                       *)
(***************************************************************************)
\* A call that has not added anything.
Untried == {"new", "login", "queue", "guard", "look", "existing", "read existing"}
\* A call that has asked for its torrent to be removed, or has nothing to remove.
Behind == {"marker queue", "marker", "tags", "done", "dead"}
Places == Untried \cup Behind \cup {"add", "poll", "files", "cleanup", "delete"}

Fetching == [pc : Places, hash : Hashes,
             result : Fetches!Results \cup {"cleanup_failed", "cancelled"},
             marked : BOOLEAN, cancelled : BOOLEAN, unclean : BOOLEAN, lost : BOOLEAN]
Torrents == [owner : Fetchers \cup {"free", "user"},
             phase : {"none", "fetching", "stopped", "downloading"}]

FetchTypes ==
  /\ torrents \in [Hashes -> Torrents]
  /\ fetch \in [Fetchers -> Fetching]

\* The torrent of a call has the infohash of the call, which has added it.
OwnersAreKnown ==
  \A h \in Hashes, c \in Fetchers : torrents[h].owner = c =>
    fetch[c].hash = h /\ fetch[c].pc \notin Untried

\* A removal that is under way, or that was given up, finds the call's own torrent.
RemovalsHitTheirOwn ==
  \A c \in Fetchers :
    fetch[c].pc = "delete" \/ <<c, "delete">> \in delayed =>
      torrents[fetch[c].hash].owner = c

\* A removal that was given up belongs to a call that is behind it.
GivenUpIsBehind ==
  \A c \in Fetchers : <<c, "delete">> \in delayed => fetch[c].pc \in Behind

\* Who has not added anything has left nothing, and only a lost answer may still
\* bring a torrent.
NothingBefore ==
  \A c \in Fetchers :
    /\ fetch[c].pc \in Untried => c \notin marks /\ <<c, "add">> \notin delayed
    /\ <<c, "add">> \in delayed => fetch[c].lost

\* A call removes its tag when it has no torrent, and has then left nothing.
TidyAtTheEnd ==
  \A c \in Fetchers :
    /\ fetch[c].pc = "tags" /\ ~fetch[c].lost => \A h \in Hashes : torrents[h].owner # c
    /\ fetch[c].pc = "done" /\ ~fetch[c].unclean /\ ~fetch[c].lost =>
         c \notin marks /\ \A h \in Hashes : torrents[h].owner # c

FetchInv ==
  /\ FetchTypes /\ OwnersAreKnown /\ RemovalsHitTheirOwn /\ GivenUpIsBehind
  /\ NothingBefore /\ TidyAtTheEnd

-----------------------------------------------------------------------------
\* A call goes on; torrents, tags and requests stay.
LEMMA CallMoves ==
  ASSUME FetchInv, NEW c \in Fetchers, NEW next \in Fetching,
         fetch' = [fetch EXCEPT ![c] = next], UNCHANGED <<torrents, marks, delayed>>,
         fetch[c].pc \in Untried \/ next.hash = fetch[c].hash,
         next.pc \in Untried => fetch[c].pc \in Untried,
         fetch[c].pc \in Behind => next.pc \in Behind,
         next.pc = "delete" => torrents[next.hash].owner = c,
         <<c, "add">> \in delayed => next.lost,
         next.pc = "tags" /\ ~next.lost => \A h \in Hashes : torrents[h].owner # c,
         next.pc = "done" /\ ~next.unclean /\ ~next.lost =>
           c \notin marks /\ \A h \in Hashes : torrents[h].owner # c
  PROVE  FetchInv'
<1>1. fetch'[c] = next /\ \A d \in Fetchers \ {c} : fetch'[d] = fetch[d]
  BY DEF FetchInv, FetchTypes
<1>2. FetchTypes'
  BY DEF FetchInv, FetchTypes
<1>3. OwnersAreKnown'
  BY <1>1 DEF FetchInv, OwnersAreKnown
<1>4. RemovalsHitTheirOwn'
  <2> SUFFICES ASSUME NEW d \in Fetchers, fetch'[d].pc = "delete" \/ <<d, "delete">> \in delayed
               PROVE  torrents[fetch'[d].hash].owner = d
    BY DEF RemovalsHitTheirOwn
  <2>1. CASE d # c
    BY <1>1, <2>1 DEF FetchInv, RemovalsHitTheirOwn
  <2>2. CASE d = c /\ next.pc = "delete"
    BY <1>1, <2>2
  <2>3. CASE d = c /\ <<c, "delete">> \in delayed
    <3>1. torrents[fetch[c].hash].owner = c /\ fetch[c].pc \in Behind
      BY <2>3 DEF FetchInv, RemovalsHitTheirOwn, GivenUpIsBehind
    <3> QED BY <1>1, <2>3, <3>1 DEF Behind, Untried
  <2> QED BY <1>1, <2>1, <2>2, <2>3
<1>5. GivenUpIsBehind'
  BY <1>1 DEF FetchInv, GivenUpIsBehind
<1>6. NothingBefore'
  BY <1>1 DEF FetchInv, NothingBefore
<1>7. TidyAtTheEnd'
  BY <1>1 DEF FetchInv, TidyAtTheEnd
<1> QED BY <1>2, <1>3, <1>4, <1>5, <1>6, <1>7 DEF FetchInv

\* Who has not added anything has no torrent.
LEMMA NoneYet ==
  ASSUME FetchInv, NEW c \in Fetchers, fetch[c].pc \in Untried
  PROVE  /\ c \notin marks /\ <<c, "add">> \notin delayed /\ <<c, "delete">> \notin delayed
         /\ \A h \in Hashes : torrents[h].owner # c
BY DEF FetchInv, NothingBefore, OwnersAreKnown, GivenUpIsBehind, Behind, Untried

\* What a call is told.
LEMMA ToldIsResult ==
  ASSUME NEW x \in Fetching
  PROVE  [x EXCEPT !.pc = "done", !.result = Fetches!Told(x)] \in Fetching
<1>1. Fetches!Told(x) \in Fetches!Results \cup {"cleanup_failed", "cancelled"}
  BY DEF Fetches!Told, Fetching, Fetches!Results
<1>2. "done" \in Places
  BY DEF Places, Behind
<1> QED BY <1>1, <1>2 DEF Fetching

\* A call that ends, with what it remembers.
LEMMA FinishKeeps ==
  ASSUME FetchInv, NEW c \in Fetchers, NEW x \in Fetching, Fetches!Finish(c, x),
         UNCHANGED <<torrents, marks, delayed>>,
         x.hash = fetch[c].hash, x.lost = fetch[c].lost,
         x.unclean \/ fetch[c].pc \in Untried
  PROVE  FetchInv'
<1> DEFINE next == [x EXCEPT !.pc = "done", !.result = Fetches!Told(x)]
<1>1. /\ next \in Fetching /\ next.pc = "done" /\ next.hash = x.hash
      /\ next.lost = x.lost /\ next.unclean = x.unclean
  BY ToldIsResult DEF Fetching
<1>2. fetch' = [fetch EXCEPT ![c] = next]
  BY DEF Fetches!Finish
<1> HIDE DEF next
<1>3. "done" \notin Untried /\ "done" \in Behind
  BY DEF Untried, Behind
<1>4. <<c, "add">> \in delayed => next.lost
  BY <1>1 DEF FetchInv, NothingBefore
<1>5. next.pc = "done" /\ ~next.unclean /\ ~next.lost =>
        c \notin marks /\ \A h \in Hashes : torrents[h].owner # c
  BY <1>1, NoneYet
<1> QED BY <1>1, <1>2, <1>3, <1>4, <1>5, CallMoves

\* A call that goes on to another place.
LEMMA GotoKeeps ==
  ASSUME FetchInv, NEW c \in Fetchers, NEW next \in Fetching,
         fetch' = [fetch EXCEPT ![c] = next], UNCHANGED <<torrents, marks, delayed>>,
         next.hash = fetch[c].hash, next.lost = fetch[c].lost, next.pc \notin {"done", "tags"},
         next.pc \in Untried => fetch[c].pc \in Untried,
         fetch[c].pc \in Behind => next.pc \in Behind,
         next.pc = "delete" => torrents[fetch[c].hash].owner = c
  PROVE  FetchInv'
<1>1. <<c, "add">> \in delayed => next.lost
  BY DEF FetchInv, NothingBefore
<1> QED BY <1>1, CallMoves

\* The record of a call at another place.
LEMMA Placed ==
  ASSUME FetchInv, NEW c \in Fetchers, NEW place \in Places,
         NEW result \in Fetches!Results, NEW flag \in BOOLEAN
  PROVE  /\ fetch[c] \in Fetching
         /\ [fetch[c] EXCEPT !.pc = place] \in Fetching
         /\ [fetch[c] EXCEPT !.pc = place].pc = place
         /\ [fetch[c] EXCEPT !.pc = place].hash = fetch[c].hash
         /\ [fetch[c] EXCEPT !.pc = place].lost = fetch[c].lost
         /\ [fetch[c] EXCEPT !.pc = place, !.result = result] \in Fetching
         /\ [fetch[c] EXCEPT !.pc = place, !.result = result].pc = place
         /\ [fetch[c] EXCEPT !.pc = place, !.result = result].hash = fetch[c].hash
         /\ [fetch[c] EXCEPT !.pc = place, !.result = result].lost = fetch[c].lost
         /\ [fetch[c] EXCEPT !.pc = place, !.unclean = TRUE] \in Fetching
         /\ [fetch[c] EXCEPT !.pc = place, !.unclean = TRUE].pc = place
         /\ [fetch[c] EXCEPT !.pc = place, !.unclean = TRUE].hash = fetch[c].hash
         /\ [fetch[c] EXCEPT !.pc = place, !.unclean = TRUE].lost = fetch[c].lost
         /\ [fetch[c] EXCEPT !.pc = place, !.marked = flag] \in Fetching
         /\ [fetch[c] EXCEPT !.pc = place, !.marked = flag].pc = place
         /\ [fetch[c] EXCEPT !.pc = place, !.marked = flag].hash = fetch[c].hash
         /\ [fetch[c] EXCEPT !.pc = place, !.marked = flag].lost = fetch[c].lost
<1>1. fetch[c] \in Fetching
  BY DEF FetchInv, FetchTypes
<1> QED BY <1>1 DEF Fetching

\* The same record when nothing else of it changes.
LEMMA Moved ==
  ASSUME FetchInv, NEW c \in Fetchers, NEW place \in Places
  PROVE  /\ [fetch[c] EXCEPT !.pc = place] \in Fetching
         /\ [fetch[c] EXCEPT !.pc = place].pc = place
         /\ [fetch[c] EXCEPT !.pc = place].hash = fetch[c].hash
         /\ [fetch[c] EXCEPT !.pc = place].lost = fetch[c].lost
<1>1. fetch[c] \in Fetching
  BY DEF FetchInv, FetchTypes
<1> QED BY <1>1 DEF Fetching

\* A call begins.
LEMMA StartKeeps ==
  ASSUME FetchInv, NEW c \in Fetchers, NEW h \in Hashes, Fetches!Start(c, h)
  PROVE  FetchInv'
<1> DEFINE next == Fetches!NewCall(h)
<1>1. next \in Fetching /\ next.pc = "login"
  BY DEF Fetches!NewCall, Fetching, Fetches!Results, Places, Untried
<1>2. /\ fetch[c].pc \in Untried /\ next.pc \in Untried
      /\ fetch' = [fetch EXCEPT ![c] = next] /\ UNCHANGED <<torrents, marks, delayed>>
  BY <1>1 DEF Fetches!Start, Fetches!At, Untried
<1> HIDE DEF next
<1>3. fetch[c].pc \notin Behind
  BY <1>2 DEF Untried, Behind
<1> QED BY <1>1, <1>2, <1>3, NoneYet, CallMoves

\* Log in, the semaphore, the lock, and what is only read.
LEMMA ReadsKeep ==
  ASSUME FetchInv, NEW c \in Fetchers,
         \/ Fetches!Login(c) \/ Fetches!Enter(c) \/ Fetches!Guard(c) \/ Fetches!Look(c)
         \/ Fetches!PollExisting(c) \/ Fetches!ReadExisting(c)
  PROVE  FetchInv'
<1>1. ASSUME NEW result \in Fetches!Results, fetch[c].pc \in Untried,
             Fetches!Finish(c, [fetch[c] EXCEPT !.result = result]),
             UNCHANGED <<torrents, marks, delayed>>
      PROVE  FetchInv'
  <2> DEFINE x == [fetch[c] EXCEPT !.result = result]
  <2>1. fetch[c] \in Fetching
    BY DEF FetchInv, FetchTypes
  <2>2. x \in Fetching /\ x.hash = fetch[c].hash /\ x.lost = fetch[c].lost
    BY <2>1 DEF Fetching
  <2>3. Fetches!Finish(c, x)
    BY <1>1
  <2> HIDE DEF x
  <2> QED BY <1>1, <2>2, <2>3, FinishKeeps
<1>2. ASSUME NEW place \in Untried, fetch[c].pc \in Untried, Fetches!Goto(c, place),
             UNCHANGED <<torrents, marks, delayed>>
      PROVE  FetchInv'
  <2>1. place \in Places /\ place \notin {"done", "tags", "delete"}
        /\ fetch[c].pc \notin Behind /\ TRUE \in BOOLEAN /\ "none" \in Fetches!Results
    BY <1>2 DEF Places, Untried, Behind, Fetches!Results
  <2> DEFINE next == [fetch[c] EXCEPT !.pc = place]
  <2>2. /\ next \in Fetching /\ next.pc = place /\ next.hash = fetch[c].hash
        /\ next.lost = fetch[c].lost
    BY <2>1, Placed
  <2>3. fetch' = [fetch EXCEPT ![c] = next]
    BY <1>2 DEF Fetches!Goto
  <2> HIDE DEF next
  <2> QED BY <1>2, <2>1, <2>2, <2>3, GotoKeeps
<1>3. CASE Fetches!Login(c)
  BY <1>1, <1>2, <1>3 DEF Fetches!Login, Fetches!At, Untried, Fetches!Results
<1>4. CASE Fetches!Enter(c)
  <2>1. CASE Fetches!At(c, "queue")
    BY <1>2, <1>4, <2>1 DEF Fetches!Enter, Fetches!At, Untried
  <2>2. CASE Fetches!At(c, "marker queue")
    <3> DEFINE next == [fetch[c] EXCEPT !.pc = "marker"]
    <3>1. "marker" \in Places \cap Behind /\ "marker" \notin Untried
          /\ "none" \in Fetches!Results
      BY DEF Places, Behind, Untried, Fetches!Results
    <3>2. /\ next \in Fetching /\ next.pc = "marker" /\ next.hash = fetch[c].hash
          /\ next.lost = fetch[c].lost
      BY <3>1, Placed
    <3>3. fetch' = [fetch EXCEPT ![c] = next] /\ UNCHANGED <<torrents, marks, delayed>>
      BY <1>4, <2>2 DEF Fetches!Enter, Fetches!At, Fetches!Goto
    <3> HIDE DEF next
    <3> QED BY <3>1, <3>2, <3>3, GotoKeeps
  <2> QED BY <1>4, <2>1, <2>2 DEF Fetches!Enter
<1>5. CASE Fetches!Guard(c)
  BY <1>2, <1>5 DEF Fetches!Guard, Fetches!At, Untried
<1>6. CASE Fetches!Look(c)
  <2>1. fetch[c].pc \in Untried /\ fetch[c].pc \notin Behind
        /\ UNCHANGED <<torrents, marks, delayed>>
    BY <1>6 DEF Fetches!Look, Fetches!At, Untried, Behind
  <2>2. CASE fetch' = [fetch EXCEPT ![c].pc = "add", ![c].marked = TRUE]
    <3> DEFINE next == [fetch[c] EXCEPT !.pc = "add", !.marked = TRUE]
    <3>1. "add" \in Places /\ "add" \notin Untried /\ "none" \in Fetches!Results
      BY DEF Places, Untried, Fetches!Results
    <3>2. /\ next \in Fetching /\ next.pc = "add" /\ next.hash = fetch[c].hash
          /\ next.lost = fetch[c].lost
      BY <3>1, Placed
    <3>3. fetch' = [fetch EXCEPT ![c] = next]
      BY <2>2
    <3> HIDE DEF next
    <3> QED BY <2>1, <3>1, <3>2, <3>3, GotoKeeps
  <2> QED BY <1>1, <1>2, <1>6, <2>1, <2>2
          DEF Fetches!Look, Untried, Fetches!Results
<1>7. CASE Fetches!PollExisting(c)
  BY <1>1, <1>2, <1>7 DEF Fetches!PollExisting, Fetches!At, Untried, Fetches!Results
<1>8. CASE Fetches!ReadExisting(c)
  BY <1>1, <1>8 DEF Fetches!ReadExisting, Fetches!At, Untried, Fetches!Results
<1> QED BY <1>3, <1>4, <1>5, <1>6, <1>7, <1>8

\* A call that has added its torrent, or may have, goes on; what it changes is its
\* own torrent, tag and requests.
LEMMA OwnMoves ==
  ASSUME FetchInv, {"free", "user"} \cap Fetchers = {},
         NEW c \in Fetchers, NEW next \in Fetching, fetch' = [fetch EXCEPT ![c] = next],
         torrents' \in [Hashes -> Torrents],
         \A h \in Hashes :
           \/ torrents'[h].owner = torrents[h].owner
           \/ /\ h = fetch[c].hash
              /\ {torrents[h].owner, torrents'[h].owner} \subseteq {"free", c},
         marks' \subseteq marks \cup {c},
         delayed' \subseteq delayed \cup {<<c, "add">>, <<c, "delete">>},
         next.hash = fetch[c].hash, next.pc \notin Untried,
         next.pc = "delete" \/ <<c, "delete">> \in delayed' =>
           torrents'[fetch[c].hash].owner = c,
         <<c, "delete">> \in delayed' => next.pc \in Behind,
         <<c, "add">> \in delayed' => next.lost,
         next.pc = "tags" /\ ~next.lost => \A h \in Hashes : torrents'[h].owner # c,
         next.pc = "done" /\ ~next.unclean /\ ~next.lost =>
           c \notin marks' /\ \A h \in Hashes : torrents'[h].owner # c
  PROVE  FetchInv'
<1>1. fetch'[c] = next /\ \A d \in Fetchers \ {c} : fetch'[d] = fetch[d]
  BY DEF FetchInv, FetchTypes
<1>2. FetchTypes'
  BY DEF FetchInv, FetchTypes
<1>3. \A d \in Fetchers \ {c}, h \in Hashes : torrents'[h].owner = d <=> torrents[h].owner = d
  OBVIOUS
<1>4. \A d \in Fetchers \ {c} :
        /\ d \in marks' => d \in marks
        /\ <<d, "add">> \in delayed' => <<d, "add">> \in delayed
        /\ <<d, "delete">> \in delayed' => <<d, "delete">> \in delayed
  OBVIOUS
<1>5. \A d \in Fetchers : fetch[d].hash \in Hashes
  BY DEF FetchInv, FetchTypes, Fetching
<1>6. OwnersAreKnown'
  <2> SUFFICES ASSUME NEW h \in Hashes, NEW d \in Fetchers, torrents'[h].owner = d
               PROVE  fetch'[d].hash = h /\ fetch'[d].pc \notin Untried
    BY DEF OwnersAreKnown
  <2>1. CASE d # c
    BY <1>1, <1>3, <2>1 DEF FetchInv, OwnersAreKnown
  <2>2. CASE d = c
    <3>1. fetch[c].hash = h
      BY <2>2 DEF FetchInv, OwnersAreKnown
    <3> QED BY <1>1, <2>2, <3>1
  <2> QED BY <2>1, <2>2
<1>7. RemovalsHitTheirOwn'
  <2> SUFFICES ASSUME NEW d \in Fetchers,
                      fetch'[d].pc = "delete" \/ <<d, "delete">> \in delayed'
               PROVE  torrents'[fetch'[d].hash].owner = d
    BY DEF RemovalsHitTheirOwn
  <2>1. CASE d # c
    BY <1>1, <1>3, <1>4, <1>5, <2>1 DEF FetchInv, RemovalsHitTheirOwn
  <2>2. CASE d = c
    BY <1>1, <2>2
  <2> QED BY <2>1, <2>2
<1>8. GivenUpIsBehind'
  BY <1>1, <1>4 DEF FetchInv, GivenUpIsBehind
<1>9. NothingBefore'
  BY <1>1, <1>4 DEF FetchInv, NothingBefore
<1>10. TidyAtTheEnd'
  BY <1>1, <1>3, <1>4 DEF FetchInv, TidyAtTheEnd
<1> QED BY <1>2, <1>6, <1>7, <1>8, <1>9, <1>10 DEF FetchInv

\* qBittorrent adds the torrent of a call, or has one with that infohash.
LEMMA CarriedOut ==
  ASSUME FetchInv, NEW c \in Fetchers, Fetches!CarryOutAdd(c)
  PROVE  /\ torrents' \in [Hashes -> Torrents] /\ marks' \subseteq marks \cup {c}
         /\ \A h \in Hashes :
              \/ torrents'[h].owner = torrents[h].owner
              \/ h = fetch[c].hash /\ torrents[h].owner = "free" /\ torrents'[h].owner = c
<1> DEFINE new == Fetches!Added(c)
<1>1. new \in Torrents /\ new.owner = c /\ Fetches!Absent.owner = "free"
  BY DEF Fetches!Added, Fetches!Absent, Fetches!Free, Torrents
<1>2. \/ UNCHANGED torrents
      \/ /\ torrents[fetch[c].hash] = Fetches!Absent
         /\ torrents' = [torrents EXCEPT ![fetch[c].hash] = new]
  BY DEF Fetches!CarryOutAdd, Fetches!Torrent
<1>3. marks' \subseteq marks \cup {c}
  BY DEF Fetches!CarryOutAdd
<1>4. torrents \in [Hashes -> Torrents]
  BY DEF FetchInv, FetchTypes
<1> HIDE DEF new
<1> QED BY <1>1, <1>2, <1>3, <1>4

\* The removal of the torrent with the infohash of a call.
LEMMA Removed ==
  ASSUME FetchInv, NEW c \in Fetchers,
         torrents[fetch[c].hash].owner = c,
         torrents' = [torrents EXCEPT ![fetch[c].hash] = Fetches!Absent]
  PROVE  /\ torrents' \in [Hashes -> Torrents]
         /\ \A h \in Hashes :
              \/ torrents'[h].owner = torrents[h].owner
              \/ h = fetch[c].hash /\ torrents[h].owner = c /\ torrents'[h].owner = "free"
<1>1. Fetches!Absent \in Torrents /\ Fetches!Absent.owner = "free"
  BY DEF Fetches!Absent, Fetches!Free, Torrents
<1> QED BY <1>1 DEF FetchInv, FetchTypes

\* Adding: the answer comes, is a refusal, or is lost.
LEMMA AddKeeps ==
  ASSUME FetchInv, {"free", "user"} \cap Fetchers = {}, NEW c \in Fetchers, Fetches!Add(c)
  PROVE  FetchInv'
<1>1. fetch[c].pc = "add" /\ fetch[c] \in Fetching
  BY DEF Fetches!Add, Fetches!At, FetchInv, FetchTypes
<1>2. <<c, "delete">> \notin delayed /\ fetch[c].pc \notin Untried
  BY <1>1 DEF FetchInv, GivenUpIsBehind, Behind, Untried
<1>3. <<c, "add">> \in delayed => fetch[c].lost
  BY DEF FetchInv, NothingBefore
<1>4. CASE /\ Fetches!CarryOutAdd(c) /\ UNCHANGED delayed
           /\ Fetches!Goto(c, IF fetch[c].cancelled THEN "cleanup" ELSE "poll")
  <2>1. PICK place \in {"cleanup", "poll"} : Fetches!Goto(c, place)
    BY <1>4
  <2> DEFINE next == [fetch[c] EXCEPT !.pc = place]
  <2>2. place \in Places /\ place \notin Untried \cup {"delete", "tags", "done"}
    BY DEF Places, Untried
  <2>3. /\ next \in Fetching /\ next.pc = place /\ next.hash = fetch[c].hash
        /\ next.lost = fetch[c].lost
    BY <2>2, Moved
  <2>4. fetch' = [fetch EXCEPT ![c] = next]
    BY <2>1 DEF Fetches!Goto
  <2>5. torrents' \in [Hashes -> Torrents] /\ marks' \subseteq marks \cup {c}
    BY <1>4, CarriedOut
  <2>6. \A h \in Hashes :
          \/ torrents'[h].owner = torrents[h].owner
          \/ /\ h = fetch[c].hash
             /\ {torrents[h].owner, torrents'[h].owner} \subseteq {"free", c}
    BY <1>4, CarriedOut
  <2>7. delayed' \subseteq delayed \cup {<<c, "add">>, <<c, "delete">>}
    BY <1>4
  <2>8. /\ next.pc \notin Untried /\ next.pc \notin {"delete", "tags", "done"}
        /\ <<c, "delete">> \notin delayed' /\ (<<c, "add">> \in delayed' => next.lost)
    BY <1>2, <1>3, <1>4, <2>2, <2>3
  <2> HIDE DEF next
  <2> QED BY <2>3, <2>4, <2>5, <2>6, <2>7, <2>8, OwnMoves
<1>5. CASE Fetches!With(c, "unsupported", "cleanup") /\ UNCHANGED <<torrents, marks, delayed>>
  <2> DEFINE next == [fetch[c] EXCEPT !.pc = "cleanup", !.result = "unsupported"]
  <2>1. /\ "cleanup" \in Places /\ "cleanup" \notin Untried
        /\ "unsupported" \in Fetches!Results
    BY DEF Places, Untried, Fetches!Results
  <2>2. /\ next \in Fetching /\ next.pc = "cleanup" /\ next.hash = fetch[c].hash
        /\ next.lost = fetch[c].lost
    <3>1. fetch[c] \in Fetching
      BY DEF FetchInv, FetchTypes
    <3> QED BY <2>1, <3>1 DEF Fetching
  <2>3. fetch' = [fetch EXCEPT ![c] = next]
    BY <1>5 DEF Fetches!With
  <2>4. fetch[c].pc \notin Behind
    BY <1>1 DEF Behind, Untried
  <2> HIDE DEF next
  <2> QED BY <1>5, <2>1, <2>2, <2>3, <2>4, GotoKeeps
<1>6. CASE /\ fetch' = [fetch EXCEPT ![c].pc = "cleanup", ![c].result = "failed",
                                     ![c].lost = TRUE]
           /\ delayed' = delayed \cup {<<c, "add">>} /\ UNCHANGED <<torrents, marks>>
  <2> DEFINE next == [fetch[c] EXCEPT !.pc = "cleanup", !.result = "failed", !.lost = TRUE]
  <2>1. "cleanup" \in Places /\ "cleanup" \notin Untried /\ "failed" \in Fetches!Results
    BY DEF Places, Untried, Fetches!Results
  <2>2. /\ next \in Fetching /\ next.pc = "cleanup" /\ next.hash = fetch[c].hash /\ next.lost
    BY <1>1, <2>1 DEF Fetching
  <2>3. fetch' = [fetch EXCEPT ![c] = next] /\ torrents' \in [Hashes -> Torrents]
    BY <1>6 DEF FetchInv, FetchTypes
  <2>4. <<c, "delete">> \notin delayed'
    BY <1>2, <1>6
  <2>5. marks' \subseteq marks \cup {c} /\ \A h \in Hashes : torrents'[h].owner = torrents[h].owner
    BY <1>6
  <2>6. delayed' \subseteq delayed \cup {<<c, "add">>, <<c, "delete">>}
    BY <1>6
  <2>7. next.pc \notin Untried /\ next.pc \notin {"delete", "tags", "done"}
    BY <2>1, <2>2
  <2> HIDE DEF next
  <2> QED BY <2>2, <2>3, <2>4, <2>5, <2>6, <2>7, OwnMoves
<1> QED BY <1>4, <1>5, <1>6 DEF Fetches!Add

\* The deadline, the files, and the search for what has to be removed.
LEMMA PollsKeep ==
  ASSUME FetchInv, NEW c \in Fetchers,
         Fetches!Poll(c) \/ Fetches!ReadFiles(c) \/ Fetches!Cleanup(c)
  PROVE  FetchInv'
<1>1. /\ fetch[c].pc \in {"poll", "files", "cleanup"} /\ fetch[c] \in Fetching
      /\ UNCHANGED <<torrents, marks, delayed>>
  BY DEF Fetches!Poll, Fetches!ReadFiles, Fetches!Cleanup, Fetches!At, FetchInv, FetchTypes
<1>2. fetch[c].pc \notin Behind
  BY <1>1 DEF Behind, Untried
<1>3. ASSUME NEW result \in {"verified", "timeout", "failed"},
             Fetches!With(c, result, "cleanup")
      PROVE  FetchInv'
  <2> DEFINE next == [fetch[c] EXCEPT !.pc = "cleanup", !.result = result]
  <2>1. "cleanup" \in Places /\ "cleanup" \notin Untried /\ result \in Fetches!Results
    BY DEF Places, Untried, Fetches!Results
  <2>2. /\ next \in Fetching /\ next.pc = "cleanup" /\ next.hash = fetch[c].hash
        /\ next.lost = fetch[c].lost
    BY <1>1, <2>1 DEF Fetching
  <2>3. fetch' = [fetch EXCEPT ![c] = next]
    BY <1>3 DEF Fetches!With
  <2> HIDE DEF next
  <2> QED BY <1>1, <1>2, <2>1, <2>2, <2>3, GotoKeeps
<1>4. ASSUME NEW place \in {"files", "delete", "marker queue"}, Fetches!Goto(c, place),
             place = "delete" => torrents[fetch[c].hash].owner = c
      PROVE  FetchInv'
  <2> DEFINE next == [fetch[c] EXCEPT !.pc = place]
  <2>1. place \in Places /\ place \notin Untried \cup {"done", "tags"}
    BY DEF Places, Untried, Behind
  <2>2. /\ next \in Fetching /\ next.pc = place /\ next.hash = fetch[c].hash
        /\ next.lost = fetch[c].lost
    BY <2>1, Moved
  <2>3. fetch' = [fetch EXCEPT ![c] = next]
    BY <1>4 DEF Fetches!Goto
  <2> HIDE DEF next
  <2> QED BY <1>1, <1>2, <1>4, <2>1, <2>2, <2>3, GotoKeeps
<1>5. CASE Fetches!Unclean(c, "marker queue")
  <2> DEFINE next == [fetch[c] EXCEPT !.pc = "marker queue", !.unclean = TRUE]
  <2>1. "marker queue" \in Places /\ "marker queue" \notin Untried
        /\ "none" \in Fetches!Results
    BY DEF Places, Untried, Behind, Fetches!Results
  <2>2. /\ next \in Fetching /\ next.pc = "marker queue" /\ next.hash = fetch[c].hash
        /\ next.lost = fetch[c].lost
    BY <2>1, Placed
  <2>3. fetch' = [fetch EXCEPT ![c] = next]
    BY <1>5 DEF Fetches!Unclean
  <2> HIDE DEF next
  <2> QED BY <1>1, <1>2, <2>1, <2>2, <2>3, GotoKeeps
<1>6. CASE Fetches!Poll(c)
  BY <1>3, <1>4, <1>6 DEF Fetches!Poll
<1>7. CASE Fetches!ReadFiles(c)
  BY <1>3, <1>7 DEF Fetches!ReadFiles
<1>8. CASE Fetches!Cleanup(c)
  BY <1>4, <1>5, <1>8 DEF Fetches!Cleanup, Fetches!Ours, Fetches!Torrent
<1> QED BY <1>6, <1>7, <1>8

\* The removal names an infohash, under which the call's own torrent still is.
LEMMA DeleteKeeps ==
  ASSUME FetchInv, {"free", "user"} \cap Fetchers = {}, NEW c \in Fetchers,
         Fetches!DeleteTorrent(c)
  PROVE  FetchInv'
<1>1. /\ fetch[c].pc = "delete" /\ fetch[c] \in Fetching
      /\ torrents[fetch[c].hash].owner = c /\ UNCHANGED marks
  BY DEF Fetches!DeleteTorrent, Fetches!At, FetchInv, FetchTypes, RemovalsHitTheirOwn
<1>2. <<c, "delete">> \notin delayed
  BY <1>1 DEF FetchInv, GivenUpIsBehind, Behind, Untried
<1>3. /\ "marker queue" \in Places \cap Behind /\ "marker queue" \notin Untried
      /\ "none" \in Fetches!Results
  BY DEF Places, Untried, Behind, Fetches!Results
<1>4. <<c, "add">> \in delayed => fetch[c].lost
  BY DEF FetchInv, NothingBefore
<1>5. CASE /\ torrents' = [torrents EXCEPT ![fetch[c].hash] = Fetches!Absent]
           /\ Fetches!Goto(c, "marker queue") /\ UNCHANGED delayed
  <2> DEFINE next == [fetch[c] EXCEPT !.pc = "marker queue"]
  <2>1. /\ next \in Fetching /\ next.pc = "marker queue" /\ next.hash = fetch[c].hash
        /\ next.lost = fetch[c].lost
    BY <1>3, Placed
  <2>2. fetch' = [fetch EXCEPT ![c] = next]
    BY <1>5 DEF Fetches!Goto
  <2>3. /\ torrents' \in [Hashes -> Torrents]
        /\ \A h \in Hashes :
              \/ torrents'[h].owner = torrents[h].owner
              \/ /\ h = fetch[c].hash
                 /\ {torrents[h].owner, torrents'[h].owner} \subseteq {"free", c}
    BY <1>1, <1>5, Removed
  <2>4. /\ marks' \subseteq marks \cup {c}
        /\ delayed' \subseteq delayed \cup {<<c, "add">>, <<c, "delete">>}
        /\ <<c, "delete">> \notin delayed' /\ (<<c, "add">> \in delayed' => next.lost)
    BY <1>1, <1>2, <1>4, <1>5, <2>1
  <2>5. next.pc \notin Untried /\ next.pc \notin {"delete", "tags", "done"}
    BY <1>3, <2>1
  <2> HIDE DEF next
  <2> QED BY <2>1, <2>2, <2>3, <2>4, <2>5, OwnMoves
<1>6. CASE /\ delayed' = delayed \cup {<<c, "delete">>}
           /\ Fetches!Unclean(c, "marker queue") /\ UNCHANGED torrents
  <2> DEFINE next == [fetch[c] EXCEPT !.pc = "marker queue", !.unclean = TRUE]
  <2>1. /\ next \in Fetching /\ next.pc = "marker queue" /\ next.hash = fetch[c].hash
        /\ next.lost = fetch[c].lost
    BY <1>3, Placed
  <2>2. fetch' = [fetch EXCEPT ![c] = next] /\ torrents' \in [Hashes -> Torrents]
    BY <1>6 DEF Fetches!Unclean, FetchInv, FetchTypes
  <2>3. <<c, "add">> \in delayed' => next.lost
    BY <1>4, <1>6, <2>1
  <2> HIDE DEF next
  <2> QED BY <1>1, <1>3, <1>6, <2>1, <2>2, <2>3, OwnMoves
<1> QED BY <1>5, <1>6 DEF Fetches!DeleteTorrent

\* The tag of a call is looked up again, and removed when no torrent is under it.
LEMMA MarksKeep ==
  ASSUME FetchInv, {"free", "user"} \cap Fetchers = {}, NEW c \in Fetchers,
         Fetches!ListMarked(c) \/ Fetches!RemoveMarks(c)
  PROVE  FetchInv'
<1>1. /\ fetch[c].pc \in {"marker", "tags"} /\ fetch[c] \in Fetching
      /\ UNCHANGED <<torrents, delayed>> /\ marks' \subseteq marks
  BY DEF Fetches!ListMarked, Fetches!RemoveMarks, Fetches!At, FetchInv, FetchTypes
<1>2. fetch[c].pc \in Behind \ Untried
  BY <1>1 DEF Behind, Untried
<1>3. ASSUME Fetches!Finish(c, [fetch[c] EXCEPT !.unclean = TRUE])
      PROVE  FetchInv'
  <2> DEFINE x == [fetch[c] EXCEPT !.unclean = TRUE]
             next == [x EXCEPT !.pc = "done", !.result = Fetches!Told(x)]
  <2>1. x \in Fetching /\ x.hash = fetch[c].hash /\ x.lost = fetch[c].lost /\ x.unclean
    BY <1>1 DEF Fetching
  <2>2. fetch' = [fetch EXCEPT ![c] = next]
    BY <1>3 DEF Fetches!Finish
  <2> HIDE DEF x
  <2>3. /\ next \in Fetching /\ next.pc = "done" /\ next.hash = fetch[c].hash
        /\ next.lost = fetch[c].lost /\ next.unclean
    BY <2>1, ToldIsResult DEF Fetching
  <2>4. "done" \notin Untried /\ "done" \in Behind
    BY DEF Untried, Behind
  <2>5. <<c, "add">> \in delayed => next.lost
    BY <2>3 DEF FetchInv, NothingBefore
  <2>6. <<c, "delete">> \in delayed => torrents[fetch[c].hash].owner = c
    BY DEF FetchInv, RemovalsHitTheirOwn
  <2>7. torrents \in [Hashes -> Torrents]
    BY DEF FetchInv, FetchTypes
  <2> HIDE DEF next
  <2> QED BY <1>1, <2>2, <2>3, <2>4, <2>5, <2>6, <2>7, OwnMoves
<1>4. CASE Fetches!ListMarked(c)
  <2>1. CASE (\A h \in Hashes : torrents[h].owner # c) /\ Fetches!Goto(c, "tags")
    <3> DEFINE next == [fetch[c] EXCEPT !.pc = "tags"]
    <3>1. "tags" \in Places \cap Behind /\ "tags" \notin Untried /\ "none" \in Fetches!Results
      BY DEF Places, Behind, Untried, Fetches!Results
    <3>2. /\ next \in Fetching /\ next.pc = "tags" /\ next.hash = fetch[c].hash
          /\ next.lost = fetch[c].lost
      <4>1. fetch[c] \in Fetching
        BY DEF FetchInv, FetchTypes
      <4> QED BY <3>1, <4>1 DEF Fetching
    <3>3. fetch' = [fetch EXCEPT ![c] = next] /\ UNCHANGED marks
      BY <1>4, <2>1 DEF Fetches!Goto, Fetches!ListMarked
    <3>4. <<c, "add">> \in delayed => next.lost
      BY <3>2 DEF FetchInv, NothingBefore
    <3> HIDE DEF next
    <3> QED BY <1>1, <2>1, <3>1, <3>2, <3>3, <3>4, CallMoves
  <2> QED BY <1>3, <1>4, <2>1 DEF Fetches!ListMarked
<1>5. CASE Fetches!RemoveMarks(c)
  <2>1. CASE marks' = marks \ {c} /\ Fetches!Finish(c, fetch[c])
    <3> DEFINE next == [fetch[c] EXCEPT !.pc = "done", !.result = Fetches!Told(fetch[c])]
    <3>1. /\ next \in Fetching /\ next.pc = "done" /\ next.hash = fetch[c].hash
          /\ next.lost = fetch[c].lost
      BY <1>1, ToldIsResult DEF Fetching
    <3>2. fetch' = [fetch EXCEPT ![c] = next]
      BY <2>1 DEF Fetches!Finish
    <3>3. "done" \notin Untried /\ "done" \in Behind
      BY DEF Untried, Behind
    <3>4. fetch[c].pc = "tags"
      BY <1>5 DEF Fetches!RemoveMarks, Fetches!At
    <3>5. ~fetch[c].lost => \A h \in Hashes : torrents[h].owner # c
      BY <3>4 DEF FetchInv, TidyAtTheEnd
    <3>6. <<c, "add">> \in delayed => next.lost
      BY <3>1 DEF FetchInv, NothingBefore
    <3>7. <<c, "delete">> \in delayed => torrents[fetch[c].hash].owner = c
      BY DEF FetchInv, RemovalsHitTheirOwn
    <3>8. torrents \in [Hashes -> Torrents] /\ c \notin marks'
      BY <2>1 DEF FetchInv, FetchTypes
    <3> HIDE DEF next
    <3> QED BY <1>1, <3>1, <3>2, <3>3, <3>5, <3>6, <3>7, <3>8, OwnMoves
  <2> QED BY <1>3, <1>5, <2>1 DEF Fetches!RemoveMarks
<1> QED BY <1>4, <1>5

\* A cancelled call ends at once if it has added nothing, and cleans up otherwise.
LEMMA CancelledKeeps ==
  ASSUME FetchInv, NEW c \in Fetchers, Fetches!Cancel(c) PROVE FetchInv'
<1> DEFINE x == fetch[c]
           next == Fetches!Interrupted(x)
<1>1. /\ x \in Fetching /\ x.pc \notin {"new", "done", "dead"}
      /\ fetch' = [fetch EXCEPT ![c] = next] /\ UNCHANGED <<torrents, marks, delayed>>
  BY DEF Fetches!Cancel, Fetches!Ended, FetchInv, FetchTypes
<1>2. x.pc \in Places
  BY <1>1 DEF Fetching
<1>3. <<c, "add">> \in delayed => x.lost
  BY DEF FetchInv, NothingBefore
<1>4. CASE x.pc \in {"poll", "files"}
  <2>1. next = [x EXCEPT !.cancelled = TRUE, !.pc = "cleanup"]
    BY <1>4 DEF Fetches!Interrupted
  <2>2. "cleanup" \in Places /\ "cleanup" \notin Untried /\ x.pc \notin Behind
    BY <1>4 DEF Places, Untried, Behind
  <2>3. /\ next \in Fetching /\ next.pc = "cleanup" /\ next.hash = x.hash
        /\ next.lost = x.lost
    BY <1>1, <2>1, <2>2 DEF Fetching
  <2> HIDE DEF next
  <2> QED BY <1>1, <2>2, <2>3, GotoKeeps
<1>5. CASE x.pc \in {"add", "cleanup", "delete"}
  <2>1. next = [x EXCEPT !.cancelled = TRUE]
    BY <1>5 DEF Fetches!Interrupted
  <2>2. x.pc \notin Untried /\ x.pc \notin Behind
    BY <1>5 DEF Untried, Behind
  <2>3. next \in Fetching /\ next.pc = x.pc /\ next.hash = x.hash /\ next.lost = x.lost
    BY <1>1, <2>1 DEF Fetching
  <2>4. x.pc = "delete" => torrents[x.hash].owner = c
    BY DEF FetchInv, RemovalsHitTheirOwn
  <2> HIDE DEF next
  <2> QED BY <1>1, <1>5, <2>2, <2>3, <2>4, GotoKeeps
<1>6. CASE x.pc \in {"marker queue", "marker", "tags"}
  <2>1. next = x
    BY <1>6 DEF Fetches!Interrupted
  <2>2. x.pc \in Behind /\ x.pc \notin Untried
    BY <1>6 DEF Behind, Untried
  <2>3. x.pc = "tags" /\ ~x.lost => \A h \in Hashes : torrents[h].owner # c
    BY DEF FetchInv, TidyAtTheEnd
  <2> HIDE DEF next
  <2> QED BY <1>1, <1>3, <1>6, <2>1, <2>2, <2>3, CallMoves
<1>7. CASE x.pc \in Untried
  <2>1. next = [x EXCEPT !.cancelled = TRUE, !.pc = "done", !.result = "cancelled"]
    BY <1>7 DEF Fetches!Interrupted, Untried
  <2>2. "done" \in Places /\ "done" \notin Untried /\ "done" \in Behind
    BY DEF Places, Untried, Behind
  <2>3. /\ next \in Fetching /\ next.pc = "done" /\ next.hash = x.hash /\ next.lost = x.lost
    BY <1>1, <2>1, <2>2 DEF Fetching
  <2>4. c \notin marks /\ \A h \in Hashes : torrents[h].owner # c
    BY <1>7, NoneYet
  <2> HIDE DEF next
  <2> QED BY <1>1, <1>3, <2>2, <2>3, <2>4, CallMoves
<1>8. \/ x.pc \in {"poll", "files"} \/ x.pc \in {"add", "cleanup", "delete"}
      \/ x.pc \in {"marker queue", "marker", "tags"} \/ x.pc \in Untried
  BY <1>1, <1>2 DEF Places, Behind
<1> QED BY <1>4, <1>5, <1>6, <1>7, <1>8

\* A request that was given up is carried out late.
LEMMA LateKeeps ==
  ASSUME FetchInv, {"free", "user"} \cap Fetchers = {}, NEW c \in Fetchers,
         Fetches!CarryOutLate(c)
  PROVE  FetchInv'
<1>1. fetch[c] \in Fetching /\ UNCHANGED fetch /\ fetch' = [fetch EXCEPT ![c] = fetch[c]]
  BY DEF Fetches!CarryOutLate, FetchInv, FetchTypes
<1>2. CASE /\ <<c, "add">> \in delayed /\ Fetches!CarryOutAdd(c)
           /\ delayed' = delayed \ {<<c, "add">>}
  <2>1. fetch[c].pc \notin Untried /\ fetch[c].lost
    BY <1>2 DEF FetchInv, NothingBefore
  <2>2. \A h \in Hashes : torrents[h].owner = c => torrents'[h].owner = c
    BY <1>2, CarriedOut
  <2>3. fetch[c].pc = "delete" \/ <<c, "delete">> \in delayed' =>
          torrents'[fetch[c].hash].owner = c
    BY <1>1, <1>2, <2>2 DEF FetchInv, RemovalsHitTheirOwn, Fetching
  <2>4. <<c, "delete">> \in delayed' => fetch[c].pc \in Behind
    BY <1>2 DEF FetchInv, GivenUpIsBehind
  <2>5. torrents' \in [Hashes -> Torrents] /\ marks' \subseteq marks \cup {c}
    BY <1>2, CarriedOut
  <2>6. \A h \in Hashes :
          \/ torrents'[h].owner = torrents[h].owner
          \/ /\ h = fetch[c].hash
             /\ {torrents[h].owner, torrents'[h].owner} \subseteq {"free", c}
    BY <1>2, CarriedOut
  <2>7. delayed' \subseteq delayed \cup {<<c, "add">>, <<c, "delete">>}
    BY <1>2
  <2> QED BY <1>1, <2>1, <2>3, <2>4, <2>5, <2>6, <2>7, OwnMoves
<1>3. CASE /\ <<c, "delete">> \in delayed /\ delayed' = delayed \ {<<c, "delete">>}
           /\ torrents' = [torrents EXCEPT ![fetch[c].hash] = Fetches!Absent]
           /\ UNCHANGED marks
  <2>1. fetch[c].pc \in Behind /\ torrents[fetch[c].hash].owner = c
    BY <1>3 DEF FetchInv, GivenUpIsBehind, RemovalsHitTheirOwn
  <2>2. fetch[c].pc \notin Untried /\ fetch[c].pc # "delete"
    BY <2>1 DEF Behind, Untried
  <2>3. <<c, "add">> \in delayed' => fetch[c].lost
    BY <1>3 DEF FetchInv, NothingBefore
  <2>4. /\ torrents' \in [Hashes -> Torrents]
        /\ \A h \in Hashes :
              \/ torrents'[h].owner = torrents[h].owner
              \/ h = fetch[c].hash /\ torrents[h].owner = c /\ torrents'[h].owner = "free"
    BY <1>3, <2>1, Removed
  <2>5. /\ fetch[c].pc = "tags" /\ ~fetch[c].lost =>
             \A h \in Hashes : torrents'[h].owner # c
        /\ fetch[c].pc = "done" /\ ~fetch[c].unclean /\ ~fetch[c].lost =>
             c \notin marks /\ \A h \in Hashes : torrents'[h].owner # c
    BY <2>4 DEF FetchInv, TidyAtTheEnd
  <2>6. \A h \in Hashes :
          \/ torrents'[h].owner = torrents[h].owner
          \/ /\ h = fetch[c].hash
             /\ {torrents[h].owner, torrents'[h].owner} \subseteq {"free", c}
    BY <2>4
  <2>7. /\ marks' \subseteq marks \cup {c}
        /\ delayed' \subseteq delayed \cup {<<c, "add">>, <<c, "delete">>}
        /\ <<c, "delete">> \notin delayed' /\ marks' = marks
    BY <1>3
  <2> QED BY <1>1, <2>1, <2>2, <2>3, <2>4, <2>5, <2>6, <2>7, OwnMoves
<1> QED BY <1>2, <1>3 DEF Fetches!CarryOutLate

\* The user, qBittorrent and a kill.
LEMMA OthersKeepFetches ==
  ASSUME FetchInv, {"free", "user"} \cap Fetchers = {},
         \/ \E h \in Hashes : Fetches!Progress(h) \/ Fetches!UserActs(h)
         \/ Fetches!Kill \/ UNCHANGED Fetches!fetchVars
  PROVE  FetchInv'
<1>1. ASSUME UNCHANGED <<marks, delayed, fetch>>, torrents' \in [Hashes -> Torrents],
             \A h \in Hashes : \/ torrents'[h].owner = torrents[h].owner
                               \/ {torrents[h].owner, torrents'[h].owner}
                                    \subseteq {"free", "user"}
      PROVE  FetchInv'
  <2>1. \A h \in Hashes, c \in Fetchers : torrents'[h].owner = c <=> torrents[h].owner = c
    BY <1>1
  <2>2. \A c \in Fetchers : fetch[c].hash \in Hashes
    BY DEF FetchInv, FetchTypes, Fetching
  <2> QED BY <1>1, <2>1, <2>2
          DEF FetchInv, FetchTypes, OwnersAreKnown, RemovalsHitTheirOwn, GivenUpIsBehind,
              NothingBefore, TidyAtTheEnd
<1>2. ASSUME NEW h \in Hashes, Fetches!Progress(h) PROVE FetchInv'
  <2>1. PICK p \in {"stopped", "downloading"} : torrents' = [torrents EXCEPT ![h].phase = p]
    BY <1>2 DEF Fetches!Progress
  <2>2. torrents' = [torrents EXCEPT ![h] = [torrents[h] EXCEPT !.phase = p]]
    BY <2>1
  <2>3. /\ [torrents[h] EXCEPT !.phase = p] \in Torrents
        /\ [torrents[h] EXCEPT !.phase = p].owner = torrents[h].owner
    BY DEF FetchInv, FetchTypes, Torrents
  <2>4. UNCHANGED <<marks, delayed, fetch>>
    BY <1>2 DEF Fetches!Progress
  <2>5. /\ torrents' \in [Hashes -> Torrents]
        /\ \A g \in Hashes : torrents'[g].owner = torrents[g].owner
    BY <2>2, <2>3 DEF FetchInv, FetchTypes
  <2> QED BY <1>1, <2>4, <2>5
<1>3. ASSUME NEW h \in Hashes, Fetches!UserActs(h) PROVE FetchInv'
  <2>1. PICK new \in {Fetches!Added("user"), Fetches!Absent} :
          torrents' = [torrents EXCEPT ![h] = new]
    BY <1>3 DEF Fetches!UserActs, Fetches!User
  <2>2. new \in Torrents /\ new.owner \in {"free", "user"}
    BY DEF Fetches!Added, Fetches!Absent, Fetches!Free, Torrents
  <2>3. torrents[h].owner \in {"free", "user"}
    BY <1>3 DEF Fetches!UserActs, Fetches!User, Fetches!Absent, Fetches!Free
  <2>4. UNCHANGED <<marks, delayed, fetch>>
    BY <1>3 DEF Fetches!UserActs
  <2>5. /\ torrents' \in [Hashes -> Torrents]
        /\ \A g \in Hashes : \/ torrents'[g].owner = torrents[g].owner
                             \/ {torrents[g].owner, torrents'[g].owner}
                                  \subseteq {"free", "user"}
    BY <2>1, <2>2, <2>3 DEF FetchInv, FetchTypes
  <2> QED BY <1>1, <2>4, <2>5
<1>4. CASE Fetches!Kill
  <2>1. /\ UNCHANGED <<torrents, marks, delayed>>
        /\ fetch' = [c \in Fetchers |->
             IF fetch[c].pc \in {"new"} \cup Fetches!Ended THEN fetch[c]
             ELSE [fetch[c] EXCEPT !.pc = "dead"]]
    BY <1>4 DEF Fetches!Kill
  <2>2. "dead" \in Places \cap Behind /\ "dead" \notin Untried
    BY DEF Places, Behind, Untried
  <2>3. \A c \in Fetchers :
          /\ fetch'[c] \in Fetching /\ fetch'[c].hash = fetch[c].hash
          /\ fetch'[c].lost = fetch[c].lost
          /\ fetch'[c] = fetch[c] \/ fetch'[c].pc = "dead"
    BY <2>1, <2>2 DEF FetchInv, FetchTypes, Fetching
  <2>4. FetchTypes'
    BY <2>1, <2>3 DEF FetchInv, FetchTypes
  <2>5. OwnersAreKnown' /\ RemovalsHitTheirOwn'
    BY <2>1, <2>2, <2>3 DEF FetchInv, OwnersAreKnown, RemovalsHitTheirOwn
  <2>6. GivenUpIsBehind' /\ NothingBefore' /\ TidyAtTheEnd'
    BY <2>1, <2>2, <2>3 DEF FetchInv, GivenUpIsBehind, NothingBefore, TidyAtTheEnd
  <2> QED BY <2>4, <2>5, <2>6 DEF FetchInv
<1>5. CASE UNCHANGED Fetches!fetchVars
  BY <1>5 DEF Fetches!fetchVars, FetchInv, FetchTypes, OwnersAreKnown, RemovalsHitTheirOwn,
              GivenUpIsBehind, NothingBefore, TidyAtTheEnd
<1> QED BY <1>2, <1>3, <1>4, <1>5

\* Every step of the calls keeps the invariant.
LEMMA FetchesKeep ==
  ASSUME FetchInv, {"free", "user"} \cap Fetchers = {},
         [Fetches!Next]_(Fetches!fetchVars)
  PROVE  FetchInv'
BY StartKeeps, ReadsKeep, AddKeeps, PollsKeep, DeleteKeeps, MarksKeep, CancelledKeeps,
   LateKeeps, OthersKeepFetches DEF Fetches!Next

\* It holds in every state.
LEMMA FetchesHold ==
  ASSUME {"free", "user"} \cap Fetchers = {} PROVE Fetches!Spec => []FetchInv
<1>1. Fetches!Init => FetchInv
  <2> SUFFICES ASSUME Fetches!Init PROVE FetchInv
    OBVIOUS
  <2>1. PICK h \in Hashes :
          fetch = [c \in Fetchers |-> [Fetches!NewCall(h) EXCEPT !.pc = "new"]]
    BY DEF Fetches!Init
  <2>2. /\ [Fetches!NewCall(h) EXCEPT !.pc = "new"] \in Fetching
        /\ [Fetches!NewCall(h) EXCEPT !.pc = "new"].pc = "new"
    BY DEF Fetches!NewCall, Fetching, Fetches!Results, Places, Untried
  <2>3. /\ torrents = [g \in Hashes |-> Fetches!Absent] /\ marks = {} /\ delayed = {}
        /\ Fetches!Absent \in Torrents /\ Fetches!Absent.owner = "free"
    BY DEF Fetches!Init, Fetches!Absent, Fetches!Free, Torrents
  <2>4. /\ FetchTypes
        /\ \A c \in Fetchers : fetch[c].pc = "new"
        /\ \A g \in Hashes, c \in Fetchers : torrents[g].owner # c
    BY <2>1, <2>2, <2>3 DEF FetchTypes
  <2> QED BY <2>3, <2>4 DEF FetchInv, OwnersAreKnown, RemovalsHitTheirOwn, GivenUpIsBehind,
                            NothingBefore, TidyAtTheEnd
<1> QED BY <1>1, FetchesKeep, PTL DEF Fetches!Spec

\* A call that ends with every cleanup request answered has left neither a torrent
\* nor a tag behind (inspect, _cleanup, _cleanup_marker), however many calls of one
\* infohash there are, and whatever was cancelled, given up or carried out late.
THEOREM CallsLeaveNothing ==
  ASSUME {"free", "user"} \cap Fetchers = {}
  PROVE  Fetches!Spec => []Fetches!NothingIsLeftBehind
<1>1. FetchInv => Fetches!NothingIsLeftBehind
  BY DEF FetchInv, TidyAtTheEnd, Fetches!NothingIsLeftBehind, Fetches!At
<1> QED BY <1>1, FetchesHold, PTL

\* A removal names an infohash and no owner, and is answered late or not at all; yet
\* it never takes a torrent that the user has added.
THEOREM TorrentsOfUsersStay ==
  ASSUME {"free", "user"} \cap Fetchers = {}
  PROVE  Fetches!Spec => [][Fetches!ForeignTorrentsStay]_(Fetches!fetchVars)
<1>1. ASSUME FetchInv, Fetches!Next PROVE Fetches!ForeignTorrentsStay
  <2> SUFFICES ASSUME NEW h \in Hashes, torrents[h].owner = "user",
                      torrents'[h].owner # "user"
               PROVE  fetch' = fetch /\ delayed' = delayed
    BY DEF Fetches!ForeignTorrentsStay, Fetches!User
  <2>1. torrents' # torrents /\ torrents \in [Hashes -> Torrents]
    BY <1>1 DEF FetchInv, FetchTypes
  <2>2. ASSUME NEW c \in Fetchers, Fetches!CarryOutAdd(c) PROVE FALSE
    BY <1>1, <2>2, CarriedOut
  <2>3. ASSUME NEW c \in Fetchers,
               torrents' = [torrents EXCEPT ![fetch[c].hash] = Fetches!Absent],
               fetch[c].pc = "delete" \/ <<c, "delete">> \in delayed
        PROVE  FALSE
    <3>1. torrents[fetch[c].hash].owner = c
      BY <1>1, <2>3 DEF FetchInv, RemovalsHitTheirOwn
    <3> QED BY <2>1, <2>3, <3>1
  <2>4. ASSUME NEW c \in Fetchers, Fetches!Add(c) \/ Fetches!CarryOutLate(c) PROVE FALSE
    BY <2>1, <2>2, <2>3, <2>4 DEF Fetches!Add, Fetches!CarryOutLate
  <2>5. ASSUME NEW c \in Fetchers, Fetches!DeleteTorrent(c) PROVE FALSE
    BY <2>1, <2>3, <2>5 DEF Fetches!DeleteTorrent, Fetches!At
  <2>6. ASSUME NEW c \in Fetchers,
               \/ Fetches!Login(c) \/ Fetches!Enter(c) \/ Fetches!Guard(c) \/ Fetches!Look(c)
               \/ Fetches!PollExisting(c) \/ Fetches!ReadExisting(c) \/ Fetches!Poll(c)
               \/ Fetches!ReadFiles(c) \/ Fetches!Cleanup(c) \/ Fetches!ListMarked(c)
               \/ Fetches!RemoveMarks(c) \/ Fetches!Cancel(c)
               \/ \E g \in Hashes : Fetches!Start(c, g)
        PROVE  FALSE
    BY <2>1, <2>6
    DEF Fetches!Login, Fetches!Enter, Fetches!Guard, Fetches!Look, Fetches!PollExisting,
        Fetches!ReadExisting, Fetches!Poll, Fetches!ReadFiles, Fetches!Cleanup,
        Fetches!ListMarked, Fetches!RemoveMarks, Fetches!Cancel, Fetches!Start
  <2>7. CASE Fetches!Kill
    BY <2>1, <2>7 DEF Fetches!Kill
  <2>8. ASSUME NEW g \in Hashes, Fetches!Progress(g) \/ Fetches!UserActs(g)
        PROVE  fetch' = fetch /\ delayed' = delayed
    BY <2>8 DEF Fetches!Progress, Fetches!UserActs
  <2> QED BY <1>1, <2>4, <2>5, <2>6, <2>7, <2>8 DEF Fetches!Next
<1>2. ASSUME FetchInv PROVE [Fetches!Next]_(Fetches!fetchVars)
          => [Fetches!ForeignTorrentsStay]_(Fetches!fetchVars)
  BY <1>1, <1>2
<1> QED BY <1>2, FetchesHold, PTL DEF Fetches!Spec

-----------------------------------------------------------------------------
(***************************************************************************)
(* The workflows.                                                          *)
(***************************************************************************)

\* _derive_status always returns a status that a workflow may have.
LEMMA DerivedIsAStatus ==
  ASSUME NEW of
  PROVE  DeriveStatus(of) \in WorkflowStatus
BY DEF DeriveStatus, WorkflowStatus

\* A commit keeps the types of both tables, if what the session wants to
\* write is a status.
LEMMA SaveKeepsTypes ==
  ASSUME WorkflowTypeOK, NEW request, NEW of,
         request.workflow \in Workflows,
         \A g \in Stages : of[g] \in StageStatus,
         Save(request, of)
  PROVE  /\ status' \in [Workflows -> WorkflowStatus \cup {"absent"}]
         /\ stage' \in [Workflows -> [Stages -> StageStatus]]
<1>1. DeriveStatus(of) \in WorkflowStatus
  BY DerivedIsAStatus
<1>2. status' \in [Workflows -> WorkflowStatus \cup {"absent"}]
  BY <1>1 DEF WorkflowTypeOK, Save, Written
<1>3. [g \in Stages |->
         IF g \in DOMAIN request.seen
         THEN Written(request.seen[g], of[g], stage[request.workflow][g])
         ELSE of[g]] \in [Stages -> StageStatus]
  BY DEF WorkflowTypeOK, Written
<1>4. stage' \in [Workflows -> [Stages -> StageStatus]]
  BY <1>3 DEF WorkflowTypeOK, Save
<1>5. QED
  BY <1>2, <1>4

\* What a method loads is a call, if the workflow exists.
LEMMA LoadKeepsTypes ==
  ASSUME WorkflowTypeOK, NEW s \in Sessions, NEW w \in Workflows, NEW value,
         NEW kind \in {"patch", "approve", "reject", "cancel"}, NEW gs \in SUBSET Stages,
         kind = "patch" => value \in StageStatus,
         kind = "cancel" => gs = Stages,
         Load(s, kind, w, value, gs)
  PROVE  WorkflowTypeOK'
<1>1. IsCall(Loaded(kind, w, value, gs))
  BY DEF WorkflowTypeOK, Load, Loaded, IsCall
<1>2. QED
  BY <1>1 DEF WorkflowTypeOK, Load, IsCall

\* A session commits the stages that it has computed.
LEMMA CommitKeepsTypes ==
  ASSUME WorkflowTypeOK, NEW s \in Sessions, NEW of,
         session[s].workflow \in Workflows,
         \A g \in Stages : of[g] \in StageStatus,
         Commit(s, of)
  PROVE  WorkflowTypeOK'
<1>1. /\ status' \in [Workflows -> WorkflowStatus \cup {"absent"}]
      /\ stage' \in [Workflows -> [Stages -> StageStatus]]
  BY SaveKeepsTypes DEF Commit
<1>2. DOMAIN session' = Sessions /\ \A x \in Sessions : session'[x] = NoCall \/ IsCall(session'[x])
  BY DEF Commit, WorkflowTypeOK
<1>3. QED
  BY <1>1, <1>2 DEF WorkflowTypeOK, IsCall

\* A session with a pending method holds a call.
LEMMA PendingIsACall ==
  ASSUME WorkflowTypeOK, NEW s \in Sessions, session[s].kind # "none"
  PROVE  IsCall(session[s])
BY DEF WorkflowTypeOK, NoCall

\* The steps of the workflows keep the types.
LEMMA WorkflowStepKeepsTypes ==
  ASSUME WorkflowTypeOK, WorkflowStep
  PROVE  WorkflowTypeOK'
<1>1. ASSUME NEW w \in Workflows, CreateWorkflow(w) PROVE WorkflowTypeOK'
  BY <1>1 DEF CreateWorkflow, WorkflowTypeOK, WorkflowStatus, IsCall
<1>2. ASSUME NEW s \in Sessions, NEW w \in Workflows, NEW g \in Patched,
             NEW value \in PatchValues, PatchRead(s, w, g, value)
      PROVE  WorkflowTypeOK'
  BY <1>2, LoadKeepsTypes, StagesAssumption DEF PatchRead
<1>3. ASSUME NEW s \in Sessions, NEW w \in Workflows,
             NEW decision \in {"approve", "reject"}, DecideRead(s, w, decision)
      PROVE  WorkflowTypeOK'
  BY <1>3, LoadKeepsTypes, StagesAssumption DEF DecideRead
<1>4. ASSUME NEW s \in Sessions, NEW w \in Workflows, CancelRead(s, w)
      PROVE  WorkflowTypeOK'
  BY <1>4, LoadKeepsTypes DEF CancelRead
<1>5. ASSUME NEW s \in Sessions, PatchWrite(s) PROVE WorkflowTypeOK'
  <2>1. IsCall(session[s])
    BY <1>5, PendingIsACall DEF PatchWrite
  <2>2. QED
    BY <1>5, <2>1, CommitKeepsTypes DEF PatchWrite, IsCall, WorkflowTypeOK
<1>6. ASSUME NEW s \in Sessions, ApproveWrite(s) PROVE WorkflowTypeOK'
  <2>1. IsCall(session[s])
    BY <1>6, PendingIsACall DEF ApproveWrite
  <2>2. QED
    BY <1>6, <2>1, CommitKeepsTypes
    DEF ApproveWrite, IsCall, WorkflowTypeOK, StageStatus
<1>7. ASSUME NEW s \in Sessions, RejectWrite(s) PROVE WorkflowTypeOK'
  <2>1. IsCall(session[s])
    BY <1>7, PendingIsACall DEF RejectWrite
  <2>2. \A g \in Stages : RejectedView(stage[session[s].workflow])[g] \in StageStatus
    BY <2>1 DEF RejectedView, IsCall, WorkflowTypeOK, StageStatus
  <2>3. QED
    BY <1>7, <2>1, <2>2, CommitKeepsTypes DEF RejectWrite, IsCall
<1>8. ASSUME NEW s \in Sessions, CancelWrite(s) PROVE WorkflowTypeOK'
  <2>1. IsCall(session[s]) /\ session[s].kind = "cancel"
    BY <1>8, PendingIsACall DEF CancelWrite
  <2>2. \A g \in Stages : session[s].seen[g] \in StageStatus
    BY <2>1 DEF IsCall
  <2> DEFINE of == [g \in Stages |-> IF session[s].seen[g] \in NotStarted
                                     THEN "cancelled" ELSE session[s].seen[g]]
  <2>3. \A g \in Stages : of[g] \in StageStatus
    BY <2>2 DEF StageStatus
  <2>4. Commit(s, of)
    BY <1>8 DEF CancelWrite
  <2>5. QED
    BY <2>1, <2>3, <2>4, CommitKeepsTypes DEF IsCall
<1>9. QED
  BY <1>1, <1>2, <1>3, <1>4, <1>5, <1>6, <1>7, <1>8 DEF WorkflowStep

\* What a child task records about its stage.
LEMMA RecordStageKeepsTypes ==
  ASSUME WorkflowTypeOK, NEW w \in Workflows, NEW g \in Stages,
         NEW value \in StageStatus, RecordStage(w, g, value),
         UNCHANGED session
  PROVE  WorkflowTypeOK'
<1>1. /\ status' \in [Workflows -> WorkflowStatus \cup {"absent"}]
      /\ stage' \in [Workflows -> [Stages -> StageStatus]]
  <2> DEFINE request == Loaded("sync", w, value, {})
             of == [stage[w] EXCEPT ![g] = value]
  <2>1. \A h \in Stages : of[h] \in StageStatus
    BY DEF WorkflowTypeOK
  <2>2. request.workflow \in Workflows /\ Save(request, of)
    BY DEF RecordStage, Loaded
  <2> HIDE DEF request, of
  <2>3. QED
    BY <2>1, <2>2, SaveKeepsTypes
<1>2. QED
  BY <1>1 DEF WorkflowTypeOK, IsCall

\* The stage of a task is copied into its workflow.
LEMMA SyncStageKeepsTypes ==
  ASSUME TypeOK, NEW f \in Workflows \cup {NoWorkflow}, NEW t \in Tasks,
         NEW value \in StageStatus, SyncStage(f, t, value), UNCHANGED session
  PROVE  WorkflowTypeOK' /\ child' \in [Workflows -> Tasks \cup {NoTask}]
<1>1. CASE f = NoWorkflow
  BY <1>1 DEF SyncStage, TypeOK, WorkflowTypeOK, IsCall
<1>2. CASE f # NoWorkflow
  BY <1>2, RecordStageKeepsTypes, StagesAssumption DEF SyncStage, TypeOK
<1>3. QED
  BY <1>1, <1>2

\* _workflow_stage_status returns the status of a stage.
LEMMA StageOfIsAStatus ==
  ASSUME NEW state
  PROVE  StageOf(state) \in StageStatus
BY DEF StageOf, StageStatus

-----------------------------------------------------------------------------
(***************************************************************************)
(* Types.                                                                  *)
(***************************************************************************)
\* A call that is about to link a task has one.
LEMMA NoOtherCreator ==
  ASSUME TypeOK, creator.pc = "reusing"
  PROVE  creator.task \in Tasks /\ creator.workflow \in Workflows
BY DEF TypeOK, IdleCreator

\* A worker that has claimed a task has one.
LEMMA BusyWorkerHasTask ==
  ASSUME TypeOK, worker.pc \in {"claimed", "loaded", "answered"}
  PROVE  worker \in [pc : {"claimed", "loaded", "answered"}, task : Tasks,
                     workflow : Workflows \cup {NoWorkflow}, ref : BOOLEAN,
                     result : RemoteStatus \cup {"none"}]
BY DEF TypeOK, StoppedWorker, RecoveringWorker, IdleWorker

\* The initial states have their types.
LEMMA InitHasTypes == Init => TypeOK
BY TasksAssumption
DEF Init, WorkflowInit, TypeOK, WorkflowTypeOK, StageStatus, NoRow, TaskRow,
    TaskState, IdleCreator, IdleRetrier, StoppedWorker, IdleWorker, Nothing

\* Every step keeps them.
LEMMA StepKeepsTypes ==
  ASSUME TypeOK, [Next]_vars
  PROVE  TypeOK'
<1> USE TasksAssumption DEF Tasks
<1>1. ASSUME WorkflowStep, UNCHANGED taskVars PROVE TypeOK'
  BY <1>1, WorkflowStepKeepsTypes DEF TypeOK, taskVars
<1>2. ASSUME NEW f \in Workflows \cup {NoWorkflow}, NEW force \in BOOLEAN,
             NEW yesterday \in 0..MaxTasks, CreateRead(f, force, yesterday)
      PROVE  TypeOK'
  <2>1. creator' \in {IdleCreator}
                        \cup [pc : {"inserting"}, task : {NoTask},
                              workflow : Workflows \cup {NoWorkflow}]
                        \cup [pc : {"reusing"}, task : Tasks, workflow : Workflows]
    BY <1>2 DEF CreateRead
  <2>2. QED
    BY <1>2, <2>1 DEF CreateRead, TypeOK, WorkflowTypeOK, workflowVars, IsCall
<1>3. ASSUME CreateInsert PROVE TypeOK'
  <2>1. PICK t \in Tasks : 
          /\ task' = [task EXCEPT ![t] = [state |-> "queued", workflow |-> creator.workflow,
                                          lease |-> "none", ref |-> FALSE]]
          /\ SyncStage(creator.workflow, t, "running")
          /\ requested' = [requested EXCEPT ![t] = 1]
    BY <1>3 DEF CreateInsert
  <2>2. creator.workflow \in Workflows \cup {NoWorkflow}
    BY DEF TypeOK, IdleCreator
  <2>3. WorkflowTypeOK' /\ child' \in [Workflows -> Tasks \cup {NoTask}]
    BY <1>3, <2>1, <2>2, SyncStageKeepsTypes DEF CreateInsert, StageStatus
  <2>4. [state |-> "queued", workflow |-> creator.workflow, lease |-> "none",
         ref |-> FALSE] \in TaskRow
    BY <2>2 DEF TaskRow, TaskState
  <2>5. task' \in [Tasks -> TaskRow]
    BY <2>1, <2>4 DEF TypeOK
  <2>6. QED
    BY <1>3, <2>1, <2>3, <2>5 DEF CreateInsert, TypeOK
<1>4. ASSUME LinkExisting PROVE TypeOK'
  <2>1. creator.task \in Tasks /\ creator.workflow \in Workflows
    BY <1>4, NoOtherCreator DEF LinkExisting
  <2>2. WorkflowTypeOK' /\ child' \in [Workflows -> Tasks \cup {NoTask}]
    BY <1>4, <2>1, SyncStageKeepsTypes DEF LinkExisting, TypeOK, StageStatus
  <2>3. task' \in [Tasks -> TaskRow]
    <3>1. task[creator.task] \in TaskRow
      BY <2>1 DEF TypeOK
    <3>2. [task[creator.task] EXCEPT !.workflow = creator.workflow] \in TaskRow
      BY <2>1, <3>1 DEF TaskRow
    <3>3. QED
      BY <1>4, <3>2 DEF LinkExisting, TypeOK
  <2>4. QED
    BY <1>4, <2>1, <2>2, <2>3 DEF LinkExisting, TypeOK
<1>5. ASSUME NEW r \in Retriers, NEW t \in Tasks, RetryRead(r, t) PROVE TypeOK'
  <2>1. task[t].workflow \in Workflows \cup {NoWorkflow} /\ task[t].ref \in BOOLEAN
    BY DEF TypeOK, TaskRow
  <2>2. QED
    BY <1>5, <2>1 DEF RetryRead, TypeOK, WorkflowTypeOK, workflowVars, IsCall
<1>6. ASSUME NEW r \in Retriers, RetryWrite(r) PROVE TypeOK'
  <2> DEFINE t == retrier[r].task
  <2>1. t \in Tasks /\ retrier[r].workflow \in Workflows \cup {NoWorkflow}
    BY <1>6 DEF RetryWrite, TypeOK
  <2>2. WorkflowTypeOK' /\ child' \in [Workflows -> Tasks \cup {NoTask}]
    BY <1>6, <2>1, SyncStageKeepsTypes DEF RetryWrite, TypeOK, StageStatus
  <2>3. task[t] \in TaskRow
    BY <2>1 DEF TypeOK
  <2>4. [task[t] EXCEPT !.state = "queued", !.ref = Written(retrier[r].ref, FALSE, @)] \in TaskRow
    BY <2>3 DEF TaskRow, TaskState, Written
  <2>5. task' \in [Tasks -> TaskRow]
    BY <1>6, <2>1, <2>4 DEF RetryWrite, TypeOK
  <2>6. retrier' \in [Retriers -> [task : Tasks \cup {NoTask}, ref : BOOLEAN,
                                  workflow : Workflows \cup {NoWorkflow}]]
    BY <1>6 DEF RetryWrite, TypeOK, IdleRetrier
  <2>7. requested' \in [Tasks -> Nat]
    BY <1>6, <2>1 DEF RetryWrite, TypeOK
  <2>8. QED
    BY <1>6, <2>2, <2>5, <2>6, <2>7 DEF RetryWrite, TypeOK
<1>7. ASSUME StartWorker PROVE TypeOK'
  <2>1. DOMAIN leftover' \subseteq Tasks
        /\ leftover' \in [DOMAIN leftover' -> [workflow : Workflows \cup {NoWorkflow},
                                              ref : BOOLEAN]]
    <3>1. \A t \in Tasks : task[t].workflow \in Workflows \cup {NoWorkflow}
                           /\ task[t].ref \in BOOLEAN
      BY DEF TypeOK, TaskRow
    <3>2. QED
      BY <1>7, <3>1 DEF StartWorker
  <2>2. worker' = RecoveringWorker /\ worker'.pc # "answered"
    BY <1>7 DEF StartWorker, RecoveringWorker, IdleWorker
  <2>3. WorkflowTypeOK'
    BY <1>7 DEF StartWorker, TypeOK, WorkflowTypeOK, workflowVars, IsCall
  <2>4. QED
    BY <1>7, <2>1, <2>2, <2>3 DEF StartWorker, TypeOK
<1>7a. ASSUME RecoverExpired PROVE TypeOK'
  <2> DEFINE found == DOMAIN leftover
             linked == {f \in Workflows : \E t \in found : leftover[t].workflow = f}
  <2>1. PICK result \in [found -> RemoteStatus], last \in [linked -> found] :
          /\ \A t \in found : ~leftover[t].ref => result[t] = "uncertain"
          /\ \A f \in linked : leftover[last[f]].workflow = f
          /\ task' = [t \in Tasks |-> IF t \in found
                                      THEN Recovered(t, result[t]) ELSE task[t]]
          /\ stage' = [f \in Workflows |->
               IF f \in linked
               THEN [stage[f] EXCEPT !["push"] = StageOf(result[last[f]])]
               ELSE stage[f]]
          /\ status' = [f \in Workflows |->
               IF f \in linked THEN DeriveStatus(stage'[f]) ELSE status[f]]
          /\ child' = [f \in Workflows |-> IF f \in linked THEN last[f] ELSE child[f]]
    BY <1>7a DEF RecoverExpired
  <2>2. ASSUME NEW t \in found PROVE Recovered(t, result[t]) \in TaskRow
    <3>1. task[t] \in TaskRow /\ result[t] \in TaskState
      BY DEF TypeOK, RemoteStatus, TaskState
    <3>2. QED
      BY <3>1 DEF Recovered, TaskRow
  <2>3. task' \in [Tasks -> TaskRow]
    BY <2>1, <2>2 DEF TypeOK
  <2>4. stage' \in [Workflows -> [Stages -> StageStatus]]
    BY <2>1, StageOfIsAStatus DEF TypeOK, WorkflowTypeOK
  <2>5. status' \in [Workflows -> WorkflowStatus \cup {"absent"}]
    BY <2>1, DerivedIsAStatus DEF TypeOK, WorkflowTypeOK
  <2>6. child' \in [Workflows -> Tasks \cup {NoTask}]
    BY <2>1 DEF TypeOK
  <2>7. WorkflowTypeOK'
    <3>1. UNCHANGED session
      BY <1>7a, Zenon DEF RecoverExpired
    <3> QED BY <2>4, <2>5, <3>1 DEF TypeOK, WorkflowTypeOK, IsCall
  <2>8. worker' = IdleWorker /\ worker'.pc # "answered"
    BY <1>7a DEF RecoverExpired, IdleWorker
  <2>9. leftover' = Nothing /\ DOMAIN Nothing = {} /\ Nothing \in [{} -> {}]
    BY <1>7a DEF RecoverExpired, Nothing
  <2>10. QED
    BY <1>7a, <2>3, <2>6, <2>7, <2>8, <2>9 DEF RecoverExpired, TypeOK
<1>8. ASSUME ClaimOne PROVE TypeOK'
  <2>1. PICK t \in Tasks :
          /\ task' = [task EXCEPT ![t].state = "submitting", ![t].lease = "live"]
          /\ worker' = [IdleWorker EXCEPT !.pc = "claimed", !.task = t]
    BY <1>8 DEF ClaimOne
  <2>2. task[t] \in TaskRow
    BY DEF TypeOK
  <2>3. [task[t] EXCEPT !.state = "submitting", !.lease = "live"] \in TaskRow
    BY <2>2 DEF TaskRow, TaskState
  <2>4. task' \in [Tasks -> TaskRow]
    BY <2>1, <2>3 DEF TypeOK
  <2>5. worker' \in [pc : {"claimed", "loaded", "answered"}, task : Tasks,
                     workflow : Workflows \cup {NoWorkflow}, ref : BOOLEAN,
                     result : RemoteStatus \cup {"none"}]
        /\ worker'.pc # "answered"
    BY <2>1 DEF IdleWorker
  <2>6. WorkflowTypeOK'
    BY <1>8 DEF ClaimOne, TypeOK, WorkflowTypeOK, workflowVars, IsCall
  <2>7. UNCHANGED <<child, creator, retrier, leftover, stops, requested, sent, adopted>>
    BY <1>8, Zenon DEF ClaimOne
  <2>8. QED
    BY <2>4, <2>5, <2>6, <2>7 DEF TypeOK
<1>9. ASSUME LoadTask PROVE TypeOK'
  <2>1. worker \in [pc : {"claimed", "loaded", "answered"}, task : Tasks,
                    workflow : Workflows \cup {NoWorkflow}, ref : BOOLEAN,
                    result : RemoteStatus \cup {"none"}]
    BY <1>9, BusyWorkerHasTask DEF LoadTask
  <2>2. task[worker.task] \in TaskRow
    BY <2>1 DEF TypeOK
  <2>3. QED
    BY <1>9, <2>1, <2>2
    DEF LoadTask, TypeOK, TaskRow, WorkflowTypeOK, workflowVars, IsCall
<1>10. ASSUME RefuseLocally PROVE TypeOK'
  BY <1>10, BusyWorkerHasTask
  DEF RefuseLocally, Answer, RemoteStatus, TypeOK, WorkflowTypeOK, workflowVars, IsCall
<1>11. ASSUME Submit PROVE TypeOK'
  <2>1. worker \in [pc : {"claimed", "loaded", "answered"}, task : Tasks,
                    workflow : Workflows \cup {NoWorkflow}, ref : BOOLEAN,
                    result : RemoteStatus \cup {"none"}]
    BY <1>11, BusyWorkerHasTask DEF Submit
  <2>2. worker' \in [pc : {"claimed", "loaded", "answered"}, task : Tasks,
                     workflow : Workflows \cup {NoWorkflow}, ref : BOOLEAN,
                     result : RemoteStatus \cup {"none"}]
        /\ worker'.result \in RemoteStatus
    BY <1>11, <2>1 DEF Submit, Answer
  <2>3. sent' \in [Tasks -> Nat]
    BY <1>11, <2>1 DEF Submit, TypeOK
  <2>4. WorkflowTypeOK'
    BY <1>11 DEF Submit, TypeOK, WorkflowTypeOK, workflowVars, IsCall
  <2>5. QED
    BY <1>11, <2>2, <2>3, <2>4 DEF Submit, TypeOK
<1>12. ASSUME RecordOutcome PROVE TypeOK'
  <2> DEFINE t == worker.task
  <2>1. t \in Tasks /\ worker.workflow \in Workflows \cup {NoWorkflow}
        /\ worker.result \in RemoteStatus /\ worker.ref \in BOOLEAN
    BY <1>12, BusyWorkerHasTask DEF RecordOutcome, TypeOK
  <2>2. WorkflowTypeOK' /\ child' \in [Workflows -> Tasks \cup {NoTask}]
    BY <1>12, <2>1, SyncStageKeepsTypes, StageOfIsAStatus DEF RecordOutcome
  <2>3. task[t] \in TaskRow /\ worker.result \in TaskState
    BY <2>1 DEF TypeOK, RemoteStatus, TaskState
  <2>4. [task[t] EXCEPT !.state = worker.result, !.lease = "none",
                        !.ref = Written(worker.ref, worker.result = "accepted", @)] \in TaskRow
    BY <2>3 DEF TaskRow, Written
  <2>5. task' \in [Tasks -> TaskRow]
    BY <1>12, <2>1, <2>4 DEF RecordOutcome, TypeOK
  <2>6. worker' = IdleWorker /\ worker'.pc # "answered"
    BY <1>12 DEF RecordOutcome, IdleWorker
  <2>7. QED
    BY <1>12, <2>2, <2>5, <2>6 DEF RecordOutcome, TypeOK
<1>13. ASSUME Interrupted, UNCHANGED <<status, stage, task, child, requested, adopted>>,
              creator' \in {creator, IdleCreator},
              retrier' \in {retrier, [r \in Retriers |-> IdleRetrier]},
              session' \in {session, [s \in Sessions |-> NoCall]}
       PROVE  TypeOK'
  <2>1. sent' \in [Tasks -> Nat]
    <3>1. /\ worker.pc = "loaded" => worker.task \in Tasks
          /\ sent \in [Tasks -> Nat]
      BY BusyWorkerHasTask DEF TypeOK
    <3>2. CASE UNCHANGED sent
      BY <3>1, <3>2
    <3>3. CASE worker.pc = "loaded" /\ sent' = [sent EXCEPT ![worker.task] = @ + 1]
      BY <3>1, <3>3
    <3>4. QED
      BY <1>13, <3>2, <3>3 DEF Interrupted
  <2>2. WorkflowTypeOK'
    BY <1>13 DEF TypeOK, WorkflowTypeOK, IsCall
  <2>3. worker' = StoppedWorker /\ worker'.pc # "answered" /\ stops' \in 0..MaxStops
    BY <1>13 DEF Interrupted, StoppedWorker, IdleWorker, TypeOK
  <2>4. retrier' \in [Retriers -> [task : Tasks \cup {NoTask}, ref : BOOLEAN,
                                  workflow : Workflows \cup {NoWorkflow}]]
    <3>1. IdleRetrier \in [task : Tasks \cup {NoTask}, ref : BOOLEAN,
                           workflow : Workflows \cup {NoWorkflow}]
      BY DEF IdleRetrier
    <3>2. QED
      BY <1>13, <3>1 DEF TypeOK
  <2>5. leftover' = Nothing /\ DOMAIN Nothing = {} /\ Nothing \in [{} -> {}]
    BY <1>13 DEF Interrupted, Nothing
  <2>6. QED
    BY <1>13, <2>1, <2>2, <2>3, <2>4, <2>5 DEF TypeOK
<1>14. ASSUME NEW t \in Tasks, LeaseRunsOut(t) PROVE TypeOK'
  <2>1. task[t] \in TaskRow
    BY DEF TypeOK
  <2>2. [task[t] EXCEPT !.lease = "out"] \in TaskRow
    BY <2>1 DEF TaskRow
  <2>3. QED
    BY <1>14, <2>2 DEF LeaseRunsOut, TypeOK, WorkflowTypeOK, workflowVars, IsCall
<1>15. CASE UNCHANGED vars
  BY <1>15 DEF vars, taskVars, workflowVars, TypeOK, WorkflowTypeOK, IsCall
<1>16. QED
  BY <1>1, <1>2, <1>3, <1>4, <1>5, <1>6, <1>7, <1>8, <1>9, <1>10, <1>11, <1>12,
     <1>13, <1>14, <1>15, <1>7a
  DEF Next, WorkerStep, CancelWorker, StopProcess, workflowVars

\* Every variable keeps its type.
THEOREM TypeCorrect == Spec => []TypeOK
BY InitHasTypes, StepKeepsTypes, PTL DEF Spec

-----------------------------------------------------------------------------
(***************************************************************************)
(* Leases.                                                                 *)
(***************************************************************************)

\* A task with an outcome has no lease: an outcome is written together with
\* an empty lease, and only claims, of queued tasks, write a live one.
LEMMA StepKeepsLeases ==
  ASSUME TypeOK, SettledHasNoLease, [Next]_vars
  PROVE  SettledHasNoLease'
<1> USE DEF SettledHasNoLease, Retryable
<1>1. ASSUME UNCHANGED task PROVE SettledHasNoLease'
  BY <1>1
<1>2. ASSUME CreateInsert PROVE SettledHasNoLease'
  BY <1>2 DEF CreateInsert, TypeOK
<1>3. ASSUME LinkExisting PROVE SettledHasNoLease'
  BY <1>3, NoOtherCreator DEF LinkExisting, TypeOK
<1>4. ASSUME NEW r \in Retriers, RetryWrite(r) PROVE SettledHasNoLease'
  BY <1>4 DEF RetryWrite, TypeOK
<1>5. ASSUME RecoverExpired PROVE SettledHasNoLease'
  <2> DEFINE found == DOMAIN leftover
  <2>1. \A t \in Tasks : task'[t] = task[t] \/ task'[t].lease = "none"
    <3>1. PICK result : task' = [t \in Tasks |-> IF t \in found
                                    THEN Recovered(t, result[t]) ELSE task[t]]
      BY <1>5 DEF RecoverExpired
    <3>2. ASSUME NEW t \in found PROVE task'[t].lease = "none"
      <4>1. t \in Tasks /\ task[t] \in TaskRow
        BY DEF TypeOK
      <4>2. QED
        BY <3>1, <4>1 DEF Recovered, TaskRow
    <3>3. QED
      BY <3>1, <3>2
  <2>2. QED
    BY <2>1
<1>6. ASSUME ClaimOne PROVE SettledHasNoLease'
  BY <1>6 DEF ClaimOne, TypeOK
<1>7. ASSUME RecordOutcome PROVE SettledHasNoLease'
  BY <1>7, BusyWorkerHasTask DEF RecordOutcome, TypeOK
<1>8. ASSUME NEW t \in Tasks, LeaseRunsOut(t) PROVE SettledHasNoLease'
  BY <1>8 DEF LeaseRunsOut, TypeOK
<1>9. QED
  BY <1>1, <1>2, <1>3, <1>4, <1>5, <1>6, <1>7, <1>8
  DEF Next, WorkerStep, StartWorker, LoadTask, RefuseLocally, Submit, CancelWorker,
      StopProcess, CreateRead, RetryRead, vars, taskVars

\* The lease columns that retry() does not write are empty.
THEOREM SettledTasksAreUnleased == Spec => []SettledHasNoLease
<1>1. Init => SettledHasNoLease
  BY DEF Init, NoRow, SettledHasNoLease, Retryable
<1>2. QED
  BY <1>1, StepKeepsLeases, TypeCorrect, PTL DEF Spec

-----------------------------------------------------------------------------
(***************************************************************************)
(* Submissions.                                                            *)
(***************************************************************************)

\* A queued task is owed one submission, and so is a task that the worker
\* has claimed and not submitted.
Queued(t) == IF task[t].state = "queued" THEN 1 ELSE 0
InHand(t) == IF worker.task = t /\ worker.pc \in {"claimed", "loaded"} THEN 1 ELSE 0

SubmissionsAreOwed ==
  \A t \in Tasks : sent[t] + Queued(t) + InHand(t) <= requested[t]

AbsentIsUntouched ==
  \A t \in Tasks :
    task[t].state = "absent" =>
      /\ requested[t] = 0
      /\ \A r \in Retriers : retrier[r].task # t

SubmissionInv == SubmissionsAreOwed /\ AbsentIsUntouched

\* At the start nothing has been submitted.
LEMMA SubmissionInvInit == Init => SubmissionInv
BY TasksAssumption
DEF Init, SubmissionInv, SubmissionsAreOwed, AbsentIsUntouched, Queued, InHand, NoRow,
    StoppedWorker, IdleWorker, IdleRetrier, Tasks

\* A step that changes none of what the invariant counts.
LEMMA SubmissionInvFrame ==
  ASSUME SubmissionInv, worker'.task = worker.task, worker'.pc = worker.pc,
         \A t \in Tasks : task'[t].state = task[t].state,
         UNCHANGED <<sent, requested>>,
         \A r \in Retriers, t \in Tasks :
           retrier'[r].task = t =>
             retrier[r].task = t \/ task[t].state # "absent"
  PROVE  SubmissionInv'
BY DEF SubmissionInv, SubmissionsAreOwed, AbsentIsUntouched, Queued, InHand

\* The worker gives a task up without a submission.
LEMMA WorkerLetsGo ==
  ASSUME TypeOK, SubmissionInv,
         worker'.pc \notin {"claimed", "loaded"}, UNCHANGED <<sent, requested>>,
         \A t \in Tasks : task'[t] = task[t] \/ task'[t].state \notin {"queued", "absent"},
         \A r \in Retriers : retrier'[r].task \in {retrier[r].task, NoTask}
  PROVE  SubmissionInv'
<1>1. ASSUME NEW t \in Tasks PROVE (sent[t] + Queued(t) + InHand(t) <= requested[t])'
  <2>1. sent[t] + Queued(t) + InHand(t) <= requested[t]
    BY DEF SubmissionInv, SubmissionsAreOwed
  <2>2. sent[t] \in Nat /\ requested[t] \in Nat
    BY DEF TypeOK
  <2>3. Queued(t) \in {0, 1} /\ Queued(t)' \in {0, 1} /\ Queued(t)' <= Queued(t)
        /\ InHand(t) \in {0, 1} /\ InHand(t)' = 0
    BY DEF Queued, InHand
  <2>4. QED
    BY <2>1, <2>2, <2>3
<1>2. AbsentIsUntouched'
  BY TasksAssumption DEF SubmissionInv, AbsentIsUntouched, Tasks
<1>3. QED
  BY <1>1, <1>2 DEF SubmissionInv, SubmissionsAreOwed

\* The worker gives a task up with a submission.
LEMMA SubmissionIsOwed ==
  ASSUME TypeOK, SubmissionInv,
         worker.pc = "loaded", worker.task \in Tasks,
         worker'.pc \notin {"claimed", "loaded"},
         sent' = [sent EXCEPT ![worker.task] = @ + 1],
         UNCHANGED <<task, requested>>,
         \A r \in Retriers : retrier'[r].task \in {retrier[r].task, NoTask}
  PROVE  SubmissionInv'
<1>1. ASSUME NEW t \in Tasks PROVE (sent[t] + Queued(t) + InHand(t) <= requested[t])'
  <2>1. sent[t] + Queued(t) + InHand(t) <= requested[t]
    BY DEF SubmissionInv, SubmissionsAreOwed
  <2>2. sent[t] \in Nat /\ requested[t] \in Nat
    BY DEF TypeOK
  <2>3. Queued(t) \in {0, 1} /\ Queued(t)' = Queued(t) /\ InHand(t)' = 0
    BY DEF Queued, InHand
  <2>4. sent'[t] = sent[t] + InHand(t)
    BY <2>2 DEF TypeOK, InHand
  <2>5. InHand(t) \in {0, 1}
    BY DEF InHand
  <2>6. QED
    BY <2>1, <2>2, <2>3, <2>4, <2>5
<1>2. AbsentIsUntouched'
  BY TasksAssumption DEF SubmissionInv, AbsentIsUntouched, Tasks
<1>3. QED
  BY <1>1, <1>2 DEF SubmissionInv, SubmissionsAreOwed

\* Every step keeps what is known of submissions.
LEMMA StepKeepsSubmissions ==
  ASSUME TypeOK, SubmissionInv, [Next]_vars
  PROVE  SubmissionInv'
<1> USE TasksAssumption DEF Tasks
<1>t. /\ task \in [Tasks -> TaskRow] /\ sent \in [Tasks -> Nat]
      /\ requested \in [Tasks -> Nat]
  BY DEF TypeOK
<1>1. ASSUME UNCHANGED <<task, worker, sent, requested, retrier>> PROVE SubmissionInv'
  BY <1>1, SubmissionInvFrame
<1>2. ASSUME CreateInsert PROVE SubmissionInv'
  <2>1. PICK t \in Tasks :
          /\ \A u \in Tasks : task[u].state = "absent" <=> u >= t
          /\ task' = [task EXCEPT ![t] = [state |-> "queued", workflow |-> creator.workflow,
                                          lease |-> "none", ref |-> FALSE]]
          /\ requested' = [requested EXCEPT ![t] = 1]
    BY <1>2 DEF CreateInsert
  <2>2. task[t].state = "absent" /\ requested[t] = 0
    BY <2>1 DEF SubmissionInv, AbsentIsUntouched
  <2>3. sent[t] = 0 /\ InHand(t) = 0
    <3>1. sent[t] + Queued(t) + InHand(t) <= requested[t]
      BY DEF SubmissionInv, SubmissionsAreOwed
    <3>2. sent[t] \in Nat /\ Queued(t) \in {0, 1} /\ InHand(t) \in {0, 1}
      BY <1>t DEF Queued, InHand
    <3> QED BY <2>2, <3>1, <3>2
  <2>4. SubmissionsAreOwed'
    <3> SUFFICES ASSUME NEW u \in Tasks
                 PROVE  (sent[u] + Queued(u) + InHand(u) <= requested[u])'
      BY DEF SubmissionsAreOwed
    <3>1. UNCHANGED <<sent, worker>>
      BY <1>2, Zenon DEF CreateInsert
    <3>2. CASE u = t
      <4>1. requested'[t] = 1 /\ sent'[t] = 0 /\ InHand(t)' = 0 /\ Queued(t)' \in {0, 1}
        BY <1>t, <2>1, <2>3, <3>1 DEF InHand, Queued
      <4> QED BY <3>2, <4>1
    <3>3. CASE u # t
      <4>1. requested'[u] = requested[u] /\ task'[u] = task[u]
        BY <1>t, <2>1, <3>3
      <4>2. sent[u] + Queued(u) + InHand(u) <= requested[u]
        BY DEF SubmissionInv, SubmissionsAreOwed
      <4> QED BY <3>1, <4>1, <4>2 DEF Queued, InHand
    <3> QED BY <3>2, <3>3
  <2>5. AbsentIsUntouched'
    BY <1>2, <2>1 DEF CreateInsert, SubmissionInv, AbsentIsUntouched, TypeOK
  <2>6. QED
    BY <2>4, <2>5 DEF SubmissionInv
<1>3. ASSUME LinkExisting PROVE SubmissionInv'
  <2>1. \A t \in Tasks : task'[t].state = task[t].state
    <3>1. task' = [task EXCEPT ![creator.task].workflow = creator.workflow]
          /\ creator.task \in Tasks
      BY <1>3, NoOtherCreator DEF LinkExisting
    <3> QED BY <1>t, <3>1 DEF TaskRow
  <2>2. QED
    BY <1>3, <2>1, SubmissionInvFrame DEF LinkExisting
<1>4. ASSUME NEW r \in Retriers, NEW t \in Tasks, RetryRead(r, t) PROVE SubmissionInv'
  <2>1. task[t].state # "absent"
    BY <1>4 DEF RetryRead, Retryable
  <2>2. QED
    BY <1>4, <2>1, SubmissionInvFrame DEF RetryRead, TypeOK
<1>5. ASSUME NEW r \in Retriers, RetryWrite(r) PROVE SubmissionInv'
  <2> DEFINE t == retrier[r].task
  <2>1. t \in Tasks
    BY <1>5 DEF RetryWrite, TypeOK
  <2>2. SubmissionsAreOwed'
    <3>1. ASSUME NEW u \in Tasks PROVE (sent[u] + Queued(u) + InHand(u) <= requested[u])'
      <4>1. sent[u] + Queued(u) + InHand(u) <= requested[u]
        BY DEF SubmissionInv, SubmissionsAreOwed
      <4>2. requested[u] \in Nat /\ sent[u] \in Nat
        BY DEF TypeOK
      <4>3. CASE u = t
        <5>1. requested'[u] = requested[u] + 1 /\ sent'[u] = sent[u] /\ InHand(u)' = InHand(u)
          BY <1>5, <2>1, <4>3 DEF RetryWrite, TypeOK, InHand
        <5>2. Queued(u)' <= Queued(u) + 1
          BY DEF Queued
        <5>3. Queued(u) \in {0, 1} /\ Queued(u)' \in {0, 1} /\ InHand(u) \in {0, 1}
          BY DEF Queued, InHand
        <5>4. QED
          BY <4>1, <4>2, <5>1, <5>2, <5>3
      <4>4. CASE u # t
        <5>1. task'[u] = task[u] /\ requested'[u] = requested[u]
              /\ sent'[u] = sent[u] /\ worker' = worker
          BY <1>5, <2>1, <4>4 DEF RetryWrite, TypeOK
        <5>2. QED
          BY <4>1, <5>1 DEF Queued, InHand
      <4>5. QED
        BY <4>3, <4>4
    <3>2. QED
      BY <3>1 DEF SubmissionsAreOwed
  <2>3. AbsentIsUntouched'
    <3>1. task'[t].state = "queued" /\ \A u \in Tasks \ {t} : task'[u] = task[u]
      <4>1. task[t] \in TaskRow
        BY <2>1 DEF TypeOK
      <4>2. QED
        BY <1>5, <2>1, <4>1 DEF RetryWrite, TypeOK, TaskRow
    <3>2. \A q \in Retriers : retrier'[q].task \in {retrier[q].task, NoTask}
      BY <1>5 DEF RetryWrite, TypeOK, IdleRetrier
    <3>3. \A u \in Tasks \ {t} : requested'[u] = requested[u]
      BY <1>5, <2>1 DEF RetryWrite, TypeOK
    <3>4. QED
      BY <3>1, <3>2, <3>3 DEF SubmissionInv, AbsentIsUntouched
  <2>4. QED
    BY <2>2, <2>3 DEF SubmissionInv
<1>6. ASSUME RecoverExpired PROVE SubmissionInv'
  <2> DEFINE found == DOMAIN leftover
  <2>1. PICK result \in [found -> RemoteStatus] :
          task' = [t \in Tasks |-> IF t \in found
                                  THEN Recovered(t, result[t]) ELSE task[t]]
    BY <1>6 DEF RecoverExpired
  <2>2. ASSUME NEW t \in Tasks
        PROVE  task'[t] = task[t] \/ task'[t].state \notin {"queued", "absent"}
    <3>1. CASE t \in found
      <4>1. task'[t] = Recovered(t, result[t]) /\ result[t] \in RemoteStatus
        BY <2>1, <3>1
      <4>2. task[t] \in TaskRow
        BY DEF TypeOK
      <4>3. QED
        BY <4>1, <4>2 DEF Recovered, TaskRow, RemoteStatus
    <3>2. CASE t \notin found
      BY <2>1, <3>2
    <3>3. QED
      BY <3>1, <3>2
  <2>3. \A t \in Tasks : Queued(t)' <= Queued(t) /\ InHand(t)' = 0 /\ InHand(t) \in {0, 1}
    <3>1. worker'.pc = "idle"
      BY <1>6 DEF RecoverExpired, IdleWorker
    <3>2. QED
      BY <2>2, <3>1 DEF Queued, InHand
  <2>4. SubmissionsAreOwed'
    <3>1. ASSUME NEW t \in Tasks PROVE (sent[t] + Queued(t) + InHand(t) <= requested[t])'
      <4>1. sent[t] + Queued(t) + InHand(t) <= requested[t]
        BY DEF SubmissionInv, SubmissionsAreOwed
      <4>2. sent'[t] = sent[t] /\ requested'[t] = requested[t]
            /\ sent[t] \in Nat /\ requested[t] \in Nat
        BY <1>6 DEF RecoverExpired, TypeOK
      <4>3. Queued(t) \in {0, 1} /\ Queued(t)' \in {0, 1}
        BY DEF Queued
      <4>4. QED
        BY <2>3, <4>1, <4>2, <4>3
    <3>2. QED
      BY <3>1 DEF SubmissionsAreOwed
  <2>5. AbsentIsUntouched'
    BY <1>6, <2>2 DEF RecoverExpired, SubmissionInv, AbsentIsUntouched
  <2>6. QED
    BY <2>4, <2>5 DEF SubmissionInv
<1>6a. ASSUME StartWorker PROVE SubmissionInv'
  <2>1. worker'.pc = "recovering"
    BY <1>6a DEF StartWorker, RecoveringWorker, IdleWorker
  <2>2. QED
    BY <1>6a, <2>1, WorkerLetsGo DEF StartWorker
<1>7. ASSUME ClaimOne PROVE SubmissionInv'
  <2>1. PICK t \in Tasks :
          /\ task[t].state = "queued"
          /\ task' = [task EXCEPT ![t].state = "submitting", ![t].lease = "live"]
          /\ worker' = [IdleWorker EXCEPT !.pc = "claimed", !.task = t]
    BY <1>7 DEF ClaimOne, Waiting
  <2>2. task[t] \in TaskRow
    BY DEF TypeOK
  <2>3. task'[t].state = "submitting" /\ \A u \in Tasks \ {t} : task'[u] = task[u]
    BY <2>1, <2>2 DEF TypeOK, TaskRow
  <2>4. worker.pc = "idle" /\ worker'.pc = "claimed" /\ worker'.task = t
    BY <1>7, <2>1 DEF ClaimOne, IdleWorker
  <2>5. Queued(t) = 1 /\ InHand(t) = 0 /\ Queued(t)' = 0 /\ InHand(t)' = 1
    BY <2>1, <2>3, <2>4 DEF Queued, InHand
  <2>6. \A u \in Tasks \ {t} : Queued(u)' = Queued(u) /\ InHand(u)' = InHand(u)
    BY <2>3, <2>4 DEF Queued, InHand
  <2>7. SubmissionsAreOwed'
    <3>1. UNCHANGED <<sent, requested>> /\ sent[t] \in Nat /\ requested[t] \in Nat
      BY <1>7 DEF ClaimOne, TypeOK
    <3>2. \A u \in Tasks : sent[u] + Queued(u) + InHand(u) <= requested[u]
      BY DEF SubmissionInv, SubmissionsAreOwed
    <3>3. (sent[t] + Queued(t) + InHand(t) <= requested[t])'
      BY <2>5, <3>1, <3>2
    <3>4. \A u \in Tasks \ {t} : (sent[u] + Queued(u) + InHand(u) <= requested[u])'
      BY <2>6, <3>1, <3>2
    <3>5. QED
      BY <3>3, <3>4 DEF SubmissionsAreOwed
  <2>8. AbsentIsUntouched'
    BY <1>7, <2>3 DEF ClaimOne, SubmissionInv, AbsentIsUntouched
  <2>9. QED
    BY <2>7, <2>8 DEF SubmissionInv
<1>8. ASSUME LoadTask PROVE SubmissionInv'
  <2>1. worker'.task = worker.task /\ worker'.pc = "loaded" /\ worker.pc = "claimed"
    BY <1>8, BusyWorkerHasTask DEF LoadTask
  <2>2. \A t \in Tasks : InHand(t)' = InHand(t)
    BY <2>1 DEF InHand
  <2>3. QED
    BY <1>8, <2>2 DEF LoadTask, SubmissionInv, SubmissionsAreOwed, AbsentIsUntouched, Queued
<1>9. ASSUME RefuseLocally PROVE SubmissionInv'
  <2>1. worker'.pc = "answered"
    BY <1>9, BusyWorkerHasTask DEF RefuseLocally, Answer
  <2>2. QED
    BY <1>9, <2>1, WorkerLetsGo DEF RefuseLocally
<1>10. ASSUME Submit PROVE SubmissionInv'
  <2>1. worker.pc = "loaded" /\ worker.task \in Tasks /\ worker'.pc = "answered"
    BY <1>10, BusyWorkerHasTask DEF Submit, Answer
  <2>2. QED
    BY <1>10, <2>1, SubmissionIsOwed DEF Submit
<1>11. ASSUME RecordOutcome PROVE SubmissionInv'
  <2>1. worker.task \in Tasks /\ worker.result \in RemoteStatus
    BY <1>11, BusyWorkerHasTask DEF RecordOutcome, TypeOK
  <2>2. task[worker.task] \in TaskRow
    BY <2>1 DEF TypeOK
  <2>3. task'[worker.task].state = worker.result
        /\ \A t \in Tasks \ {worker.task} : task'[t] = task[t]
    BY <1>11, <2>1, <2>2 DEF RecordOutcome, TypeOK, TaskRow
  <2>4. \A t \in Tasks : task'[t] = task[t] \/ task'[t].state \notin {"queued", "absent"}
    BY <2>1, <2>3 DEF RemoteStatus
  <2>5. worker'.pc = "idle"
    BY <1>11 DEF RecordOutcome, IdleWorker
  <2>6. QED
    BY <1>11, <2>4, <2>5, WorkerLetsGo DEF RecordOutcome
<1>12. ASSUME Interrupted, UNCHANGED <<task, requested>>,
              retrier' \in {retrier, [r \in Retriers |-> IdleRetrier]}
       PROVE  SubmissionInv'
  <2>1. worker'.pc = "stopped"
    BY <1>12 DEF Interrupted, StoppedWorker, IdleWorker
  <2>2. \A r \in Retriers : retrier'[r].task \in {retrier[r].task, NoTask}
    BY <1>12 DEF IdleRetrier
  <2>3. CASE UNCHANGED sent
    BY <1>12, <2>1, <2>2, <2>3, WorkerLetsGo
  <2>4. CASE worker.pc = "loaded" /\ sent' = [sent EXCEPT ![worker.task] = @ + 1]
    BY <1>12, <2>1, <2>2, <2>4, BusyWorkerHasTask, SubmissionIsOwed
  <2>5. QED
    BY <1>12, <2>3, <2>4 DEF Interrupted
<1>13. ASSUME NEW t \in Tasks, LeaseRunsOut(t) PROVE SubmissionInv'
  <2>1. \A u \in Tasks : task'[u].state = task[u].state
    BY <1>13 DEF LeaseRunsOut, TypeOK
  <2>2. QED
    BY <1>13, <2>1, SubmissionInvFrame DEF LeaseRunsOut
<1>14. QED
  BY <1>1, <1>2, <1>3, <1>4, <1>5, <1>6, <1>7, <1>8, <1>9, <1>10, <1>11, <1>12, <1>13,
     <1>6a
  DEF Next, WorkerStep, CancelWorker, StopProcess, CreateRead, vars, taskVars

\* Every submission to 115 answers a create() or a retry() of its own,
\* however often the worker is interrupted, recovered and replaced and
\* however the retries interleave.
THEOREM NothingIsSentUnasked == Spec => []SubmissionsAreRequested
<1>1. TypeOK /\ SubmissionInv => SubmissionsAreRequested
  <2>1. ASSUME TypeOK, SubmissionInv, NEW t \in Tasks PROVE sent[t] <= requested[t]
    <3>1. sent[t] + Queued(t) + InHand(t) <= requested[t]
      BY <2>1 DEF SubmissionInv, SubmissionsAreOwed
    <3>2. sent[t] \in Nat /\ requested[t] \in Nat
      BY <2>1 DEF TypeOK
    <3>3. Queued(t) \in {0, 1} /\ InHand(t) \in {0, 1}
      BY DEF Queued, InHand
    <3>4. QED
      BY <3>1, <3>2, <3>3
  <2>2. QED
    BY <2>1 DEF SubmissionsAreRequested
<1>2. QED
  BY <1>1, SubmissionInvInit, StepKeepsSubmissions, TypeCorrect, PTL DEF Spec

-----------------------------------------------------------------------------
(***************************************************************************)
(* The PUSH stage.                                                         *)
(***************************************************************************)

\* A task exists and its row names w, or it was linked after its creation.
KnownAs(t, w) ==
  /\ task[t].state # "absent"
  /\ t \in adopted \/ task[t].workflow = w

\* A stage names a task of its workflow.
ChildIsKnown ==
  \A f \in Workflows : child[f] # NoTask => KnownAs(child[f], f)

\* Whoever will write a task's outcome has loaded the workflow of the task.
WritersKnow ==
  /\ creator.pc = "reusing" => task[creator.task].state # "absent"
  /\ \A r \in Retriers : retrier[r].task # NoTask =>
       KnownAs(retrier[r].task, retrier[r].workflow)
  /\ worker.pc = "claimed" => task[worker.task].state # "absent"
  /\ worker.pc \in {"loaded", "answered"} => KnownAs(worker.task, worker.workflow)
  /\ \A t \in DOMAIN leftover : KnownAs(t, leftover[t].workflow)

\* No client has asked to patch the stage.
PatchesSparePush ==
  \A s \in Sessions : session[s].kind = "patch" => "push" \notin DOMAIN session[s].seen

Follows(push, state) ==
  /\ push = "running" <=> state \in {"queued", "submitting"}
  /\ push = "succeeded" <=> state = "accepted"

PushInv == ChildIsKnown /\ WritersKnow /\ PatchesSparePush /\ StageFollowsTask

\* At the start nobody writes a task.
LEMMA PushInvInit == Init => PushInv
BY TasksAssumption
DEF Init, WorkflowInit, PushInv, ChildIsKnown, WritersKnow, PatchesSparePush,
    StageFollowsTask, StoppedWorker, IdleWorker, IdleRetrier, IdleCreator, NoCall,
    Nothing, Tasks

\* Rows are neither deleted nor given to another workflow, save by a link.
LEMMA StaysKnown ==
  ASSUME TypeOK, [Next]_vars, NEW t \in Tasks, task[t].state # "absent"
  PROVE  /\ task'[t].state # "absent"
         /\ \A w : KnownAs(t, w) => KnownAs(t, w)'
<1> DEFINE Kept == /\ task'[t].state # "absent"
                   /\ \A w : KnownAs(t, w) => KnownAs(t, w)'
<1>0. task[t] \in TaskRow
  BY DEF TypeOK
<1>1. ASSUME task'[t].state # "absent", task'[t].workflow = task[t].workflow,
             adopted \subseteq adopted'
      PROVE  Kept
  BY <1>1 DEF KnownAs
<1>2. ASSUME UNCHANGED <<task, adopted>> PROVE Kept
  BY <1>1, <1>2
<1>3. ASSUME CreateInsert PROVE Kept
  <2>1. task'[t] = task[t] /\ adopted' = adopted
    BY <1>3 DEF CreateInsert, TypeOK, Tasks
  <2>2. QED
    BY <1>1, <2>1
<1>4. ASSUME LinkExisting PROVE Kept
  <2>1. task'[t].state = task[t].state
        /\ (t # creator.task => task'[t] = task[t])
        /\ adopted' = adopted \cup {creator.task}
    BY <1>4, <1>0, NoOtherCreator DEF LinkExisting, TypeOK, TaskRow
  <2>2. QED
    BY <2>1 DEF KnownAs
<1>5. ASSUME NEW r \in Retriers, RetryWrite(r) PROVE Kept
  <2>1. task'[t].workflow = task[t].workflow /\ task'[t].state \in {task[t].state, "queued"}
    BY <1>5, <1>0 DEF RetryWrite, TypeOK, TaskRow
  <2>2. QED
    BY <1>1, <1>5, <2>1 DEF RetryWrite
<1>6. ASSUME RecoverExpired PROVE Kept
  <2>1. PICK result \in [DOMAIN leftover -> RemoteStatus] :
          task' = [u \in Tasks |-> IF u \in DOMAIN leftover
                                   THEN Recovered(u, result[u]) ELSE task[u]]
    BY <1>6 DEF RecoverExpired
  <2>2. task'[t].workflow = task[t].workflow /\ task'[t].state # "absent"
    <3>1. CASE t \in DOMAIN leftover
      <4>1. task'[t] = Recovered(t, result[t]) /\ result[t] \in RemoteStatus
        BY <2>1, <3>1
      <4>2. QED
        BY <4>1, <1>0 DEF Recovered, TaskRow, RemoteStatus
    <3>2. CASE t \notin DOMAIN leftover
      BY <2>1, <3>2
    <3>3. QED
      BY <3>1, <3>2
  <2>3. QED
    BY <1>1, <1>6, <2>2 DEF RecoverExpired
<1>7. ASSUME ClaimOne PROVE Kept
  <2>1. task'[t].workflow = task[t].workflow
        /\ task'[t].state \in {task[t].state, "submitting"}
    BY <1>7, <1>0 DEF ClaimOne, TypeOK, TaskRow
  <2>2. QED
    BY <1>1, <1>7, <2>1 DEF ClaimOne
<1>8. ASSUME RecordOutcome PROVE Kept
  <2>1. worker.task \in Tasks /\ worker.result \in RemoteStatus
    BY <1>8, BusyWorkerHasTask DEF RecordOutcome, TypeOK
  <2>2. task'[t].workflow = task[t].workflow /\ task'[t].state # "absent"
    BY <1>8, <1>0, <2>1 DEF RecordOutcome, TypeOK, TaskRow, RemoteStatus
  <2>3. QED
    BY <1>1, <1>8, <2>2 DEF RecordOutcome
<1>9. ASSUME NEW u \in Tasks, LeaseRunsOut(u) PROVE Kept
  <2>1. task'[t].workflow = task[t].workflow /\ task'[t].state = task[t].state
    BY <1>9, <1>0 DEF LeaseRunsOut, TypeOK, TaskRow
  <2>2. QED
    BY <1>1, <1>9, <2>1 DEF LeaseRunsOut
<1>10. QED
  BY <1>2, <1>3, <1>4, <1>5, <1>6, <1>7, <1>8, <1>9
  DEF Next, WorkerStep, StartWorker, LoadTask, RefuseLocally, Submit, CancelWorker,
      StopProcess, CreateRead, RetryRead, vars, taskVars

\* What a task records reaches its stage.
LEMMA SyncReachesTheStage ==
  ASSUME TypeOK, NEW w \in Workflows \cup {NoWorkflow}, NEW t \in Tasks, NEW value,
         SyncStage(w, t, value)
  PROVE  \A f \in Workflows :
           IF f = w THEN child'[f] = t /\ stage'[f]["push"] = value
                    ELSE child'[f] = child[f] /\ stage'[f]["push"] = stage[f]["push"]
<1>1. CASE w = NoWorkflow
  BY <1>1, TasksAssumption DEF SyncStage
<1>2. CASE w # NoWorkflow
  <2>1. w \in Workflows /\ RecordStage(w, "push", value)
        /\ child' = [child EXCEPT ![w] = t]
    BY <1>2 DEF SyncStage
  <2>2. stage' = [stage EXCEPT ![w] =
                    [g \in Stages |-> [stage[w] EXCEPT !["push"] = value][g]]]
    <3> DEFINE request == Loaded("sync", w, value, {})
    <3>1. request.workflow = w /\ DOMAIN request.seen = {}
      BY DEF Loaded
    <3>2. Save(request, [stage[w] EXCEPT !["push"] = value])
      BY <2>1 DEF RecordStage
    <3> HIDE DEF request
    <3>3. QED
      BY <3>1, <3>2 DEF Save
  <2>3. \A f \in Workflows :
          IF f = w THEN stage'[f]["push"] = value
                   ELSE stage'[f]["push"] = stage[f]["push"]
    BY <2>1, <2>2, StagesAssumption DEF TypeOK, WorkflowTypeOK
  <2>4. QED
    BY <2>1, <2>3 DEF TypeOK
<1>3. QED
  BY <1>1, <1>2

\* A writer that knows its task, and records what it writes of the task, keeps
\* all stages and their tasks together.
LEMMA SyncKeepsStages ==
  ASSUME TypeOK, PushInv, [Next]_vars,
         NEW w \in Workflows \cup {NoWorkflow}, NEW t \in Tasks, NEW value,
         SyncStage(w, t, value), KnownAs(t, w)',
         t \in adopted' \/ Follows(value, task'[t].state),
         \A u \in Tasks \ {t} : task'[u].state = task[u].state,
         adopted \subseteq adopted'
  PROVE  ChildIsKnown' /\ StageFollowsTask'
<1>1. \A f \in Workflows :
        IF f = w THEN child'[f] = t /\ stage'[f]["push"] = value
                 ELSE child'[f] = child[f] /\ stage'[f]["push"] = stage[f]["push"]
  BY SyncReachesTheStage
<1>2. ChildIsKnown'
  <2>1. ASSUME NEW f \in Workflows, child'[f] # NoTask PROVE KnownAs(child[f], f)'
    <3>1. CASE f = w
      BY <1>1, <3>1 DEF KnownAs
    <3>2. CASE f # w
      <4>1. child'[f] = child[f] /\ child[f] \in Tasks /\ KnownAs(child[f], f)
        BY <1>1, <2>1, <3>2 DEF PushInv, ChildIsKnown, TypeOK
      <4>2. task[child[f]].state # "absent"
        BY <4>1 DEF KnownAs
      <4>3. QED
        BY <4>1, <4>2, StaysKnown DEF KnownAs
    <3>3. QED
      BY <3>1, <3>2
  <2>2. QED
    BY <2>1 DEF ChildIsKnown
<1>3. StageFollowsTask'
  <2>1. ASSUME NEW f \in Workflows, child'[f] \in Tasks \ adopted',
               stage'[f]["push"] # "cancelled"
        PROVE  Follows(stage'[f]["push"], task'[child'[f]].state)
    <3>1. CASE f = w
      BY <1>1, <2>1, <3>1
    <3>2. CASE f # w
      <4>1. child'[f] = child[f] /\ stage'[f]["push"] = stage[f]["push"]
        BY <1>1, <3>2
      <4>2. child[f] # t
        BY <1>2, <2>1, <3>2, <4>1, TasksAssumption DEF ChildIsKnown, KnownAs, Tasks
      <4>3. QED
        BY <2>1, <4>1, <4>2 DEF PushInv, StageFollowsTask, Follows
    <3>3. QED
      BY <3>1, <3>2
  <2>2. QED
    BY <2>1 DEF StageFollowsTask, Follows
<1>4. QED
  BY <1>2, <1>3

\* A step that records no outcome: no stage and no child changes, and no task
\* that a stage names changes its side of the rule.
LEMMA QuietKeepsStages ==
  ASSUME TypeOK, PushInv, [Next]_vars, UNCHANGED child,
         adopted \subseteq adopted',
         \A f \in Workflows : stage'[f]["push"] \in {stage[f]["push"], "cancelled"},
         \A t \in Tasks :
           \/ task'[t].state = task[t].state
           \/ {task[t].state, task'[t].state} \subseteq {"queued", "submitting"}
  PROVE  ChildIsKnown' /\ StageFollowsTask'
<1>1. ChildIsKnown'
  <2>1. ASSUME NEW f \in Workflows, child[f] # NoTask PROVE KnownAs(child[f], f)'
    <3>1. child[f] \in Tasks /\ KnownAs(child[f], f)
      BY <2>1 DEF PushInv, ChildIsKnown, TypeOK
    <3>2. task[child[f]].state # "absent"
      BY <3>1 DEF KnownAs
    <3>3. QED
      BY <3>1, <3>2, StaysKnown DEF KnownAs
  <2>2. QED
    BY <2>1 DEF ChildIsKnown
<1>2. StageFollowsTask'
  <2>1. ASSUME NEW f \in Workflows, child[f] \in Tasks \ adopted',
               stage'[f]["push"] # "cancelled"
        PROVE  Follows(stage'[f]["push"], task'[child[f]].state)
    <3>1. stage'[f]["push"] = stage[f]["push"]
      BY <2>1
    <3>2. Follows(stage[f]["push"], task[child[f]].state)
      BY <2>1, <3>1 DEF PushInv, StageFollowsTask, Follows
    <3>3. QED
      BY <2>1, <3>1, <3>2 DEF Follows
  <2>2. QED
    BY <2>1 DEF StageFollowsTask, Follows
<1>3. QED
  BY <1>1, <1>2

\* Clients of the workflow can only call the stage off.
LEMMA ClientsOnlyCancel ==
  ASSUME TypeOK, PatchesSparePush, WorkflowStep
  PROVE  \A f \in Workflows : stage'[f]["push"] \in {stage[f]["push"], "cancelled"}
<1> DEFINE Spared == \A f \in Workflows :
                       stage'[f]["push"] \in {stage[f]["push"], "cancelled"}
<1>1. ASSUME UNCHANGED stage PROVE Spared
  BY <1>1
<1>2. ASSUME NEW s \in Sessions, NEW of, Commit(s, of), IsCall(session[s]),
             \/ "push" \notin DOMAIN session[s].seen
                  /\ of["push"] \in {stage[session[s].workflow]["push"], "cancelled"}
             \/ "push" \in DOMAIN session[s].seen
                  /\ of["push"] \in {stage[session[s].workflow]["push"],
                                    session[s].seen["push"], "cancelled"}
      PROVE  Spared
  <2> DEFINE w == session[s].workflow
             row == [g \in Stages |->
                       IF g \in DOMAIN session[s].seen
                       THEN Written(session[s].seen[g], of[g], stage[w][g])
                       ELSE of[g]]
  <2>1. stage' = [stage EXCEPT ![w] = row] /\ w \in Workflows
    BY <1>2 DEF Commit, Save, IsCall
  <2>2. row["push"] \in {stage[w]["push"], "cancelled"}
    BY <1>2, StagesAssumption DEF Written
  <2> HIDE DEF row
  <2>3. QED
    BY <2>1, <2>2 DEF TypeOK, WorkflowTypeOK
<1>3. ASSUME NEW s \in Sessions, PatchWrite(s) PROVE Spared
  <2>1. IsCall(session[s]) /\ "push" \notin DOMAIN session[s].seen
    BY <1>3, PendingIsACall DEF PatchWrite, PatchesSparePush, TypeOK
  <2> DEFINE of == [g \in Stages |-> IF g \in DOMAIN session[s].seen
                                     THEN session[s].value
                                     ELSE stage[session[s].workflow][g]]
  <2>2. of["push"] = stage[session[s].workflow]["push"] /\ Commit(s, of)
    BY <1>3, <2>1, StagesAssumption DEF PatchWrite
  <2>3. QED
    BY <1>2, <2>1, <2>2
<1>4. ASSUME NEW s \in Sessions, ApproveWrite(s) PROVE Spared
  <2>1. IsCall(session[s])
    BY <1>4, PendingIsACall DEF ApproveWrite, TypeOK
  <2> DEFINE of == [stage[session[s].workflow] EXCEPT !["approval"] = "succeeded"]
  <2>2. of["push"] = stage[session[s].workflow]["push"] /\ Commit(s, of)
    BY <1>4, <2>1, StagesAssumption DEF ApproveWrite, IsCall, TypeOK, WorkflowTypeOK
  <2>3. QED
    BY <1>2, <2>1, <2>2
<1>5. ASSUME NEW s \in Sessions, RejectWrite(s) PROVE Spared
  <2>1. IsCall(session[s])
    BY <1>5, PendingIsACall DEF RejectWrite, TypeOK
  <2> DEFINE of == RejectedView(stage[session[s].workflow])
  <2>2. of["push"] \in {stage[session[s].workflow]["push"], "cancelled"} /\ Commit(s, of)
    BY <1>5, StagesAssumption DEF RejectWrite, RejectedView
  <2>3. QED
    BY <1>2, <2>1, <2>2
<1>6. ASSUME NEW s \in Sessions, CancelWrite(s) PROVE Spared
  <2>1. IsCall(session[s]) /\ session[s].kind = "cancel"
    BY <1>6, PendingIsACall DEF CancelWrite, TypeOK
  <2>2. "push" \in DOMAIN session[s].seen
    BY <2>1, StagesAssumption DEF IsCall
  <2> DEFINE of == [g \in Stages |-> IF session[s].seen[g] \in NotStarted
                                     THEN "cancelled" ELSE session[s].seen[g]]
  <2>3. of["push"] \in {session[s].seen["push"], "cancelled"} /\ Commit(s, of)
    BY <1>6, StagesAssumption DEF CancelWrite
  <2>4. QED
    BY <1>2, <2>1, <2>2, <2>3
<1>7. QED
  BY <1>1, <1>3, <1>4, <1>5, <1>6
  DEF WorkflowStep, CreateWorkflow, PatchRead, DecideRead, CancelRead, Load

\* Where nobody patches the push stage, only the worker changes it.
LEMMA StepSparesPush ==
  ASSUME TypeOK, PatchesSparePush, [Next]_vars, "push" \notin Patched
  PROVE  PatchesSparePush'
<1>1. ASSUME UNCHANGED session PROVE PatchesSparePush'
  BY <1>1 DEF PatchesSparePush
<1>2. ASSUME NEW s \in Sessions, session' = [session EXCEPT ![s] = NoCall]
      PROVE  PatchesSparePush'
  BY <1>2 DEF PatchesSparePush, TypeOK, WorkflowTypeOK, NoCall
<1>3. ASSUME NEW s \in Sessions, NEW kind, NEW w, NEW value, NEW gs,
             kind = "patch" => "push" \notin gs, Load(s, kind, w, value, gs)
      PROVE  PatchesSparePush'
  <2>1. Loaded(kind, w, value, gs).kind = kind
        /\ DOMAIN Loaded(kind, w, value, gs).seen = gs
    BY DEF Loaded
  <2>2. session' = [session EXCEPT ![s] = Loaded(kind, w, value, gs)]
    BY <1>3 DEF Load
  <2>3. QED
    BY <1>3, <2>1, <2>2 DEF PatchesSparePush, TypeOK, WorkflowTypeOK
<1>4. ASSUME WorkflowStep PROVE PatchesSparePush'
  BY <1>1, <1>2, <1>3, <1>4
  DEF WorkflowStep, CreateWorkflow, PatchRead, DecideRead, CancelRead, PatchWrite,
      ApproveWrite, RejectWrite, CancelWrite, Commit
<1>5. ASSUME StopProcess PROVE PatchesSparePush'
  BY <1>5 DEF StopProcess, PatchesSparePush, NoCall
<1>6. ASSUME WorkerStep PROVE UNCHANGED session
  <2>1. ASSUME RecoverExpired PROVE session' = session
    BY <2>1, Zenon DEF RecoverExpired
  <2>2. QED
    BY <1>6, <2>1 DEF WorkerStep, ClaimOne, LoadTask, RefuseLocally, Submit,
                      RecordOutcome, workflowVars
<1>7. ASSUME NEW f, NEW force, NEW yesterday, CreateRead(f, force, yesterday)
      PROVE  UNCHANGED session
  BY <1>7 DEF CreateRead, workflowVars
<1>8. QED
  BY <1>1, <1>4, <1>5, <1>6, <1>7
  DEF Next, CreateInsert, LinkExisting, RetryWrite, StartWorker, CancelWorker,
      RetryRead, LeaseRunsOut, vars, workflowVars

\* What is held stays known, if a step changes the holders as it says.
LEMMA WritersStayKnown ==
  ASSUME TypeOK, WritersKnow, [Next]_vars,
         creator'.pc = "reusing" =>
           \/ creator' = creator
           \/ creator'.task \in Tasks /\ task[creator'.task].state # "absent",
         \A r \in Retriers :
           \/ retrier'[r] = retrier[r]
           \/ retrier'[r].task = NoTask
           \/ retrier'[r].task \in Tasks /\ KnownAs(retrier'[r].task, retrier'[r].workflow),
         worker'.pc = "claimed" =>
           \/ worker.pc = "claimed" /\ worker'.task = worker.task
           \/ worker'.task \in Tasks /\ task[worker'.task].state # "absent",
         worker'.pc \in {"loaded", "answered"} =>
           /\ worker'.task \in Tasks
           /\ KnownAs(worker'.task, worker'.workflow),
         \/ leftover' = leftover
         \/ \A t \in DOMAIN leftover' :
              t \in Tasks /\ KnownAs(t, leftover'[t].workflow)
  PROVE  WritersKnow'
<1>1. ASSUME NEW t \in Tasks, NEW w, KnownAs(t, w) PROVE KnownAs(t, w)'
  BY <1>1, StaysKnown DEF KnownAs
<1>2. ASSUME NEW t \in Tasks, task[t].state # "absent" PROVE task'[t].state # "absent"
  BY <1>2, StaysKnown
<1>3. creator'.pc = "reusing" => task'[creator'.task].state # "absent"
  BY <1>2, NoOtherCreator DEF WritersKnow
<1>4. ASSUME NEW r \in Retriers, retrier'[r].task # NoTask
      PROVE  KnownAs(retrier[r].task, retrier[r].workflow)'
  <2>1. retrier'[r].task \in Tasks /\ KnownAs(retrier'[r].task, retrier'[r].workflow)
    BY <1>4 DEF WritersKnow, TypeOK
  <2>2. QED
    BY <2>1, <1>1 DEF KnownAs
<1>5. worker'.pc = "claimed" => task'[worker'.task].state # "absent"
  BY <1>2, BusyWorkerHasTask DEF WritersKnow
<1>6. ASSUME worker'.pc \in {"loaded", "answered"}
      PROVE  KnownAs(worker.task, worker.workflow)'
  BY <1>1, <1>6 DEF KnownAs
<1>7. ASSUME NEW t \in DOMAIN leftover' PROVE KnownAs(t, leftover[t].workflow)'
  <2>1. t \in Tasks /\ KnownAs(t, leftover'[t].workflow)
    BY <1>7 DEF WritersKnow, TypeOK
  <2>2. QED
    BY <2>1, <1>1 DEF KnownAs
<1>8. QED
  BY <1>3, <1>4, <1>5, <1>6, <1>7 DEF WritersKnow, KnownAs

\* Every step keeps what the writers of a task know.
LEMMA StepKeepsWriters ==
  ASSUME TypeOK, PushInv, [Next]_vars
  PROVE  WritersKnow'
<1> USE DEF PushInv
<1>1. ASSUME UNCHANGED <<creator, retrier, worker, leftover>> PROVE WritersKnow'
  <2>1. worker.pc \in {"loaded", "answered"} =>
          worker.task \in Tasks /\ KnownAs(worker.task, worker.workflow)
    BY BusyWorkerHasTask DEF WritersKnow
  <2>2. QED
    BY <1>1, <2>1, WritersStayKnown
<1>2. ASSUME NEW f, NEW force, NEW yesterday, CreateRead(f, force, yesterday)
      PROVE  WritersKnow'
  <2>1. creator'.pc = "reusing" =>
          creator'.task \in Tasks /\ task[creator'.task].state # "absent"
    BY <1>2 DEF CreateRead, Reusable
  <2>2. worker.pc \in {"loaded", "answered"} =>
          worker.task \in Tasks /\ KnownAs(worker.task, worker.workflow)
    BY BusyWorkerHasTask DEF WritersKnow
  <2>3. UNCHANGED <<retrier, worker, leftover>>
    BY <1>2 DEF CreateRead
  <2>4. QED
    BY <2>1, <2>2, <2>3, WritersStayKnown
<1>3. ASSUME creator' = IdleCreator, UNCHANGED <<retrier, worker, leftover>>
      PROVE  WritersKnow'
  <2>1. worker.pc \in {"loaded", "answered"} =>
          worker.task \in Tasks /\ KnownAs(worker.task, worker.workflow)
    BY BusyWorkerHasTask DEF WritersKnow
  <2>2. creator'.pc # "reusing"
    BY <1>3 DEF IdleCreator
  <2>3. QED
    BY <1>3, <2>1, <2>2, WritersStayKnown
<1>4. ASSUME NEW r \in Retriers, NEW t \in Tasks, RetryRead(r, t) PROVE WritersKnow'
  <2>1. \A q \in Retriers :
          \/ retrier'[q] = retrier[q]
          \/ /\ retrier'[q].task \in Tasks
             /\ KnownAs(retrier'[q].task, retrier'[q].workflow)
    BY <1>4 DEF RetryRead, Retryable, KnownAs, TypeOK
  <2>2. worker.pc \in {"loaded", "answered"} =>
          worker.task \in Tasks /\ KnownAs(worker.task, worker.workflow)
    BY BusyWorkerHasTask DEF WritersKnow
  <2>3. UNCHANGED <<creator, worker, leftover>>
    BY <1>4 DEF RetryRead
  <2>4. QED
    BY <2>1, <2>2, <2>3, WritersStayKnown
<1>5. ASSUME NEW r \in Retriers, RetryWrite(r) PROVE WritersKnow'
  <2>1. \A q \in Retriers : retrier'[q] = retrier[q] \/ retrier'[q].task = NoTask
    BY <1>5 DEF RetryWrite, IdleRetrier, TypeOK
  <2>2. worker.pc \in {"loaded", "answered"} =>
          worker.task \in Tasks /\ KnownAs(worker.task, worker.workflow)
    BY BusyWorkerHasTask DEF WritersKnow
  <2>3. UNCHANGED <<creator, worker, leftover>>
    BY <1>5 DEF RetryWrite
  <2>4. QED
    BY <2>1, <2>2, <2>3, WritersStayKnown
<1>6. ASSUME StartWorker PROVE WritersKnow'
  <2>1. worker'.pc = "recovering" /\ UNCHANGED <<creator, retrier>>
    BY <1>6 DEF StartWorker, RecoveringWorker, IdleWorker
  <2>2. \A t \in DOMAIN leftover' : t \in Tasks /\ KnownAs(t, leftover'[t].workflow)
    BY <1>6 DEF StartWorker, Expired, KnownAs
  <2>3. QED
    BY <2>1, <2>2, WritersStayKnown
<1>7. ASSUME RecoverExpired PROVE WritersKnow'
  <2>1. UNCHANGED <<creator, retrier>> /\ leftover' = Nothing /\ worker' = IdleWorker
    BY <1>7, Zenon DEF RecoverExpired
  <2>2. worker'.pc = "idle" /\ DOMAIN leftover' = {}
    BY <2>1 DEF IdleWorker, Nothing
  <2>3. QED
    BY <2>1, <2>2, WritersStayKnown
<1>8. ASSUME ClaimOne PROVE WritersKnow'
  <2>1. PICK t \in Tasks :
          /\ task[t].state = "queued"
          /\ worker' = [IdleWorker EXCEPT !.pc = "claimed", !.task = t]
    BY <1>8 DEF ClaimOne, Waiting
  <2>2. worker'.pc = "claimed" /\ worker'.task = t
    BY <2>1 DEF IdleWorker
  <2>3. UNCHANGED <<creator, retrier, leftover>>
    BY <1>8 DEF ClaimOne
  <2>4. QED
    BY <2>1, <2>2, <2>3, WritersStayKnown
<1>9. ASSUME LoadTask PROVE WritersKnow'
  <2>1. worker.task \in Tasks /\ task[worker.task].state # "absent"
    BY <1>9, BusyWorkerHasTask DEF LoadTask, WritersKnow
  <2>2. worker'.pc = "loaded" /\ worker'.task = worker.task
        /\ worker'.workflow = task[worker.task].workflow
    BY <1>9, BusyWorkerHasTask DEF LoadTask
  <2>3. KnownAs(worker'.task, worker'.workflow)
    BY <2>1, <2>2 DEF KnownAs
  <2>4. UNCHANGED <<creator, retrier, leftover>>
    BY <1>9 DEF LoadTask
  <2>5. QED
    BY <2>1, <2>2, <2>3, <2>4, WritersStayKnown
<1>10. ASSUME NEW result, worker.pc = "loaded", Answer(result),
              UNCHANGED <<creator, retrier, leftover>>
       PROVE  WritersKnow'
  <2>1. worker.task \in Tasks /\ KnownAs(worker.task, worker.workflow)
    BY <1>10, BusyWorkerHasTask DEF WritersKnow
  <2>2. worker'.pc = "answered" /\ worker'.task = worker.task
        /\ worker'.workflow = worker.workflow
    BY <1>10, BusyWorkerHasTask DEF Answer
  <2>3. QED
    BY <1>10, <2>1, <2>2, WritersStayKnown
<1>11. ASSUME RecordOutcome PROVE WritersKnow'
  <2>1. worker'.pc = "idle" /\ UNCHANGED <<creator, retrier, leftover>>
    BY <1>11 DEF RecordOutcome, IdleWorker
  <2>2. QED
    BY <2>1, WritersStayKnown
<1>12. ASSUME Interrupted, creator' \in {creator, IdleCreator},
              retrier' \in {retrier, [r \in Retriers |-> IdleRetrier]}
       PROVE  WritersKnow'
  <2>1. worker'.pc = "stopped" /\ DOMAIN leftover' = {}
    BY <1>12 DEF Interrupted, StoppedWorker, IdleWorker, Nothing
  <2>2. creator'.pc = "reusing" => creator' = creator
    BY <1>12 DEF IdleCreator
  <2>3. \A r \in Retriers : retrier'[r] = retrier[r] \/ retrier'[r].task = NoTask
    BY <1>12 DEF IdleRetrier
  <2>4. QED
    BY <2>1, <2>2, <2>3, WritersStayKnown
<1>13. QED
  BY <1>1, <1>2, <1>3, <1>4, <1>5, <1>6, <1>7, <1>8, <1>9, <1>10, <1>11, <1>12
  DEF Next, WorkerStep, CreateInsert, LinkExisting, RefuseLocally, Submit,
      CancelWorker, StopProcess, LeaseRunsOut, vars, taskVars

\* The rule stays, for every step.
LEMMA StepKeepsStages ==
  ASSUME TypeOK, PushInv, [Next]_vars
  PROVE  ChildIsKnown' /\ StageFollowsTask'
<1> DEFINE Kept == ChildIsKnown' /\ StageFollowsTask'
<1>1. ASSUME UNCHANGED <<stage, child, task, adopted>> PROVE Kept
  BY <1>1, QuietKeepsStages
<1>2. ASSUME WorkflowStep, UNCHANGED taskVars PROVE Kept
  BY <1>2, ClientsOnlyCancel, QuietKeepsStages DEF PushInv, taskVars
<1>3. ASSUME CreateInsert PROVE Kept
  <2>1. PICK t \in Tasks, w \in Workflows \cup {NoWorkflow} :
          /\ task' = [task EXCEPT ![t] = [state |-> "queued", workflow |-> w,
                                          lease |-> "none", ref |-> FALSE]]
          /\ SyncStage(w, t, "running")
    <3>1. PICK w \in Workflows \cup {NoWorkflow} : creator.workflow = w
      BY DEF TypeOK, IdleCreator
    <3>2. QED
      BY <1>3, <3>1 DEF CreateInsert
  <2>2. task'[t].state = "queued" /\ task'[t].workflow = w
        /\ \A u \in Tasks \ {t} : task'[u] = task[u]
    BY <2>1 DEF TypeOK
  <2>3. KnownAs(t, w)' /\ Follows("running", task'[t].state)
    BY <2>2 DEF KnownAs, Follows
  <2>4. adopted' = adopted
    BY <1>3 DEF CreateInsert
  <2>5. QED
    BY <2>1, <2>2, <2>3, <2>4, SyncKeepsStages
<1>4. ASSUME LinkExisting PROVE Kept
  <2>1. PICK t \in Tasks, w \in Workflows : creator.task = t /\ creator.workflow = w
    BY <1>4, NoOtherCreator DEF LinkExisting
  <2>2. \A u \in Tasks : task'[u].state = task[u].state
    BY <1>4, <2>1 DEF LinkExisting, TypeOK
  <2>3. SyncStage(w, t, "running") /\ t \in adopted' /\ adopted \subseteq adopted'
    BY <1>4, <2>1 DEF LinkExisting
  <2>4. KnownAs(t, w)'
    BY <1>4, <2>1, <2>2, <2>3 DEF LinkExisting, PushInv, WritersKnow, KnownAs
  <2>5. QED
    BY <2>2, <2>3, <2>4, SyncKeepsStages
<1>5. ASSUME NEW r \in Retriers, RetryWrite(r) PROVE Kept
  <2>1. PICK t \in Tasks, w \in Workflows \cup {NoWorkflow} :
          retrier[r].task = t /\ retrier[r].workflow = w
    BY <1>5 DEF RetryWrite, TypeOK
  <2>2. KnownAs(t, w)
    BY <1>5, <2>1 DEF RetryWrite, PushInv, WritersKnow
  <2>3. KnownAs(t, w)'
    BY <2>2, StaysKnown DEF KnownAs
  <2>4. task'[t].state = "queued" /\ \A u \in Tasks \ {t} : task'[u] = task[u]
    <3>1. task[t] \in TaskRow
      BY DEF TypeOK
    <3>2. QED
      BY <1>5, <2>1, <3>1 DEF RetryWrite, TypeOK, TaskRow
  <2>5. SyncStage(w, t, "running") /\ adopted' = adopted
    BY <1>5, <2>1 DEF RetryWrite
  <2>6. Follows("running", task'[t].state)
    BY <2>4 DEF Follows
  <2>7. QED
    BY <2>3, <2>4, <2>5, <2>6, SyncKeepsStages
<1>6. ASSUME RecordOutcome PROVE Kept
  <2>1. PICK t \in Tasks, w \in Workflows \cup {NoWorkflow}, result \in RemoteStatus :
          worker.task = t /\ worker.workflow = w /\ worker.result = result
    BY <1>6, BusyWorkerHasTask DEF RecordOutcome, TypeOK
  <2>2. KnownAs(t, w)
    BY <1>6, <2>1 DEF RecordOutcome, PushInv, WritersKnow
  <2>3. KnownAs(t, w)'
    BY <2>2, StaysKnown DEF KnownAs
  <2>4. task'[t].state = result /\ \A u \in Tasks \ {t} : task'[u] = task[u]
    <3>1. task[t] \in TaskRow
      BY DEF TypeOK
    <3>2. QED
      BY <1>6, <2>1, <3>1 DEF RecordOutcome, TypeOK, TaskRow
  <2>5. SyncStage(w, t, StageOf(result)) /\ adopted' = adopted
    BY <1>6, <2>1 DEF RecordOutcome
  <2>6. Follows(StageOf(result), task'[t].state)
    BY <2>4 DEF Follows, StageOf, RemoteStatus
  <2>7. QED
    BY <2>3, <2>4, <2>5, <2>6, SyncKeepsStages
<1>7. ASSUME RecoverExpired PROVE Kept
  <2> DEFINE found == DOMAIN leftover
             linked == {f \in Workflows : \E t \in found : leftover[t].workflow = f}
  <2>1. PICK result \in [found -> RemoteStatus], last \in [linked -> found] :
          /\ \A t \in found : ~leftover[t].ref => result[t] = "uncertain"
          /\ \A f \in linked : leftover[last[f]].workflow = f
          /\ task' = [t \in Tasks |-> IF t \in found
                                      THEN Recovered(t, result[t]) ELSE task[t]]
          /\ stage' = [f \in Workflows |->
               IF f \in linked
               THEN [stage[f] EXCEPT !["push"] = StageOf(result[last[f]])]
               ELSE stage[f]]
          /\ status' = [f \in Workflows |->
               IF f \in linked THEN DeriveStatus(stage'[f]) ELSE status[f]]
          /\ child' = [f \in Workflows |-> IF f \in linked THEN last[f] ELSE child[f]]
    BY <1>7, Zenon DEF RecoverExpired
  <2>2. adopted' = adopted
    BY <1>7, Zenon DEF RecoverExpired
  <2>3. found \subseteq Tasks /\ \A t \in found : KnownAs(t, leftover[t].workflow)
    BY DEF TypeOK, PushInv, WritersKnow
  <2>4. \A t \in found : task'[t].state = result[t] /\ result[t] \in RemoteStatus
    <3>1. ASSUME NEW t \in found PROVE task'[t].state = result[t]
      <4>1. task'[t] = Recovered(t, result[t]) /\ task[t] \in TaskRow
        BY <2>1, <2>3 DEF TypeOK
      <4>2. QED
        BY <4>1 DEF Recovered, TaskRow
    <3>2. QED
      BY <2>1, <3>1
  <2> HIDE DEF found
  <2>5. ChildIsKnown'
    <3>1. ASSUME NEW f \in Workflows, child'[f] # NoTask PROVE KnownAs(child[f], f)'
      <4>1. child'[f] \in Tasks /\ KnownAs(child'[f], f)
        <5>1. CASE f \in linked
          BY <2>1, <2>3, <5>1
        <5>2. CASE f \notin linked
          BY <2>1, <3>1, <5>2 DEF TypeOK, PushInv, ChildIsKnown
        <5>3. QED
          BY <5>1, <5>2
      <4>2. QED
        BY <4>1, StaysKnown DEF KnownAs
    <3>2. QED
      BY <3>1 DEF ChildIsKnown
  <2>6. StageFollowsTask'
    <3>1. ASSUME NEW f \in Workflows, child'[f] \in Tasks \ adopted',
                 stage'[f]["push"] # "cancelled"
          PROVE  Follows(stage'[f]["push"], task'[child'[f]].state)
      <4>1. CASE f \in linked
        <5>1. child'[f] = last[f] /\ last[f] \in found
              /\ stage'[f] = [stage[f] EXCEPT !["push"] = StageOf(result[last[f]])]
          BY <2>1, <4>1
        <5>2. stage'[f]["push"] = StageOf(result[last[f]])
          BY <5>1, StagesAssumption DEF TypeOK, WorkflowTypeOK
        <5>3. QED
          BY <2>4, <5>1, <5>2 DEF Follows, StageOf, RemoteStatus
      <4>2. CASE f \notin linked
        <5>1. child'[f] = child[f] /\ stage'[f] = stage[f]
          BY <2>1, <4>2
        <5>2. child[f] \notin found
          <6>1. child[f] \in Tasks \ adopted /\ KnownAs(child[f], f)
            BY <2>2, <3>1, <5>1, TasksAssumption DEF PushInv, ChildIsKnown, Tasks
          <6>2. QED
            BY <2>3, <4>2, <6>1 DEF KnownAs
        <5>3. task'[child[f]] = task[child[f]]
          BY <2>1, <3>1, <5>1, <5>2
        <5>4. QED
          BY <2>2, <3>1, <5>1, <5>3 DEF PushInv, StageFollowsTask, Follows
      <4>3. QED
        BY <4>1, <4>2
    <3>2. QED
      BY <3>1 DEF StageFollowsTask, Follows
  <2>7. QED
    BY <2>5, <2>6
<1>8. ASSUME ClaimOne PROVE Kept
  <2>1. PICK t \in Tasks :
          /\ task[t].state = "queued"
          /\ task' = [task EXCEPT ![t].state = "submitting", ![t].lease = "live"]
    BY <1>8 DEF ClaimOne, Waiting
  <2>2. task[t] \in TaskRow
    BY DEF TypeOK
  <2>3. task'[t].state = "submitting" /\ \A u \in Tasks \ {t} : task'[u] = task[u]
    BY <2>1, <2>2 DEF TypeOK, TaskRow
  <2>4. UNCHANGED <<stage, child, adopted>>
    BY <1>8 DEF ClaimOne, workflowVars
  <2>5. QED
    BY <2>1, <2>3, <2>4, QuietKeepsStages
<1>9. ASSUME NEW t \in Tasks, LeaseRunsOut(t) PROVE Kept
  <2>1. \A u \in Tasks : task'[u].state = task[u].state
    BY <1>9 DEF LeaseRunsOut, TypeOK
  <2>2. UNCHANGED <<stage, child, adopted>>
    BY <1>9 DEF LeaseRunsOut, workflowVars
  <2>3. QED
    BY <2>1, <2>2, QuietKeepsStages
<1>10. QED
  BY <1>1, <1>2, <1>3, <1>4, <1>5, <1>6, <1>7, <1>8, <1>9
  DEF Next, WorkerStep, StartWorker, LoadTask, RefuseLocally, Submit, CancelWorker,
      StopProcess, CreateRead, RetryRead, vars, taskVars, workflowVars

\* REQ-009, 13: while no client patches the PUSH stage itself, the stage runs
\* exactly while its task is on its way and succeeds exactly if 115 accepted
\* it, through racing retries, recoveries and restarts, unless it was called
\* off or the task was linked after its creation.
THEOREM StagesFollowTheirTasks ==
  ASSUME "push" \notin Patched
  PROVE  Spec => []StageFollowsTask
<1>1. PushInv => StageFollowsTask
  BY DEF PushInv
<1>2. TypeOK /\ PushInv /\ [Next]_vars => PushInv'
  BY StepKeepsWriters, StepKeepsStages, StepSparesPush DEF PushInv
<1>3. QED
  BY <1>1, <1>2, PushInvInit, TypeCorrect, PTL DEF Spec

-----------------------------------------------------------------------------
\* A session that ends its call in a step is the one that commits in it, unless
\* the process stops, which writes nothing.
LEMMA OnlyItsOwnCommit ==
  ASSUME TypeOK, Next, NEW s \in Sessions,
         session[s].kind = "reject", session'[s] = NoCall
  PROVE  RejectWrite(s) \/ UNCHANGED stage
<1>1. session'[s] # session[s]
  BY DEF NoCall
<1>2. CASE WorkflowStep
  <2>1. ASSUME NEW x \in Sessions, NEW w \in Workflows, NEW kind, NEW value, NEW gs,
               Load(x, kind, w, value, gs)
        PROVE  UNCHANGED stage
    BY <2>1 DEF Load
  <2>2. ASSUME NEW x \in Sessions, NEW of, Commit(x, of) PROVE x = s
    BY <1>1, <2>2 DEF Commit, TypeOK, WorkflowTypeOK
  <2>3. ASSUME NEW x \in Sessions,
               PatchWrite(x) \/ ApproveWrite(x) \/ CancelWrite(x)
        PROVE  FALSE
    <3>1. x = s
      BY <2>2, <2>3 DEF PatchWrite, ApproveWrite, CancelWrite
    <3> QED BY <2>3, <3>1 DEF PatchWrite, ApproveWrite, CancelWrite
  <2>4. ASSUME NEW x \in Sessions, RejectWrite(x) PROVE RejectWrite(s)
    BY <2>2, <2>4 DEF RejectWrite
  <2>5. ASSUME NEW w \in Workflows, CreateWorkflow(w) PROVE UNCHANGED stage
    BY <2>5 DEF CreateWorkflow
  <2>6. ASSUME NEW x \in Sessions, NEW w \in Workflows,
               \/ \E g \in Patched, value \in PatchValues : PatchRead(x, w, g, value)
               \/ \E decision \in {"approve", "reject"} : DecideRead(x, w, decision)
               \/ CancelRead(x, w)
        PROVE  UNCHANGED stage
    BY <2>1, <2>6, Zenon DEF PatchRead, DecideRead, CancelRead
  <2> QED BY <1>2, <2>3, <2>4, <2>5, <2>6, Zenon DEF WorkflowStep
<1>3. CASE ~WorkflowStep
  BY <1>1, <1>3, Zenon DEF Next, CreateRead, CreateInsert, LinkExisting, RetryRead, RetryWrite,
     StartWorker, WorkerStep, RecoverExpired, ClaimOne, LoadTask, RefuseLocally, Submit,
     RecordOutcome, CancelWorker, StopProcess, LeaseRunsOut, workflowVars
<1> QED BY <1>2, <1>3

\* A rejection leaves the stages alone that run or whose outcome is uncertain
\* when it is written, also those that were started after it was read, for any
\* number of requests, workers and stops (decide_approval).
THEOREM RejectionsSpareTheRunning == Spec => RejectionKeepsRunning
<1>1. ASSUME TypeOK, [Next]_vars, NEW s \in Sessions, session[s].kind = "reject",
             session'[s] = NoCall, NEW g \in Stages \ {"approval"},
             stage[session[s].workflow][g] \in Unclear
      PROVE  stage'[session[s].workflow][g] = stage[session[s].workflow][g]
  <2>1. CASE UNCHANGED stage
    BY <2>1
  <2>2. CASE RejectWrite(s)
    <3>1. PICK w \in Workflows : session[s].workflow = w
      BY <1>1, PendingIsACall DEF TypeOK, IsCall
    <3>2. Save(session[s], RejectedView(stage[w]))
      BY <2>2, <3>1 DEF RejectWrite, Commit
    <3>3. stage'[w][g] \in {RejectedView(stage[w])[g], stage[w][g]}
      BY <3>1, <3>2 DEF Save, Written, TypeOK, WorkflowTypeOK
    <3>4. RejectedView(stage[w])[g] = stage[w][g]
      BY <1>1, <3>1 DEF RejectedView, Unclear, NotStarted
    <3> QED BY <3>1, <3>3, <3>4
  <2>3. UNCHANGED vars => UNCHANGED stage
    BY DEF vars, workflowVars
  <2> QED BY <1>1, <2>1, <2>2, <2>3, OnlyItsOwnCommit
<1>2. TypeOK /\ [Next]_vars =>
        [\A s \in Sessions :
           LET w == session[s].workflow
           IN session[s].kind = "reject" /\ session'[s] = NoCall =>
                \A g \in Stages \ {"approval"} :
                  stage[w][g] \in Unclear => stage'[w][g] = stage[w][g]]_workflowVars
  BY <1>1
<1> QED BY <1>2, TypeCorrect, PTL DEF Spec, RejectionKeepsRunning
================================================================================
