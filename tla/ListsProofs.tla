------------------------------ MODULE ListsProofs ------------------------------
(***************************************************************************)
(* Theorems about the components that keep lists: LibraryScan, EventLog    *)
(* and WebhookDeliveries.  They hold for directories of any size and any   *)
(* number of scans, keys and checks, for any number of lines, files and    *)
(* crashes, and for any number of endpoints, events and publishers.        *)
(***************************************************************************)
EXTENDS MCServices, FiniteSetTheorems, FunctionTheorems, SequenceTheorems,
        WellFoundedInduction, TLAPS

(***************************************************************************)
(* The scan of the library.  Nothing serializes two scans of one key: what *)
(* makes them safe is that a page is persisted only where none of its      *)
(* entries is there yet, that whoever is about to persist a page has seen  *)
(* all the pages in front of it persisted, and that a run is completed     *)
(* only at the total that 115 states.                                      *)
(***************************************************************************)

Total == Cardinality(Present)

\* The run of k was made of the directory as it is.
Steady(k) == k \in Keys \ edited

Held(k) == {o \in Objects : run[k].entries[o] # NotListed}

\* The first pages of the directory, up to page p, are persisted.
PagesHeld(k, p) == \A q \in 1..p : ListedAt(q) \subseteq Held(k)

\* What a run row says of the directory.
RunIsTrue(k) ==
  /\ \A o \in Held(k) : run[k].entries[o] = remote[o]
  /\ run[k].seen = Cardinality(Held(k))
  /\ run[k].total \in {NoTotal, Total}
  /\ PagesHeld(k, run[k].page)
  /\ run[k].state = "completed" => run[k].entries = remote

RunOk(k) ==
  /\ run[k].state = "absent" => run[k] = NoRun
  /\ Steady(k) => RunIsTrue(k)

RunsAreTrue == \A k \in Keys : RunOk(k)

\* What a scan holds in its variables.
Existing(k) == k \in Keys /\ run[k].state # "absent"

ScannerIsTrue(s) ==
  LET me == scanner[s] IN
  /\ me.total \in {NoTotal, Total}
  /\ me.pc \in {"list", "persist", "write"} =>
       me.next # 0 /\ PagesHeld(me.key, me.next - 1)
  /\ me.pc \in {"persist", "write"} => me.item = Items(me.next) /\ me.total = Total
  /\ me.pc = "write" =>
       me.item = {} \/ Holds(me.key, me.item) \/ me.seen = run[me.key].seen
  /\ me.pc = "complete" => run[me.key].total = Total
  /\ me.pc = "finish" => run[me.key].entries = remote

ScannerOk(s) ==
  /\ scanner[s].pc = "insert" => scanner[s].key \in Keys /\ scanner[s].total = NoTotal
  /\ scanner[s].pc \notin {"idle", "insert"} => Existing(scanner[s].key)
  /\ scanner[s].pc # "idle" /\ Steady(scanner[s].key) => ScannerIsTrue(s)

ScannersAreTrue == \A s \in Scanners : ScannerOk(s)

\* What a check holds in its variables.
GuardOk(g) ==
  /\ guard[g].pc = "entries" \/ guard[g].code = "inventory_not_found" =>
       Existing(guard[g].key)
  /\ guard[g].pc = "entries" /\ Steady(guard[g].key) =>
       run[guard[g].key].entries = remote

GuardsAreTrue == \A g \in Guards : GuardOk(g)

PagesAreFinite == \A s \in Scanners : IsFiniteSet(scanner[s].item)

ScanInv ==
  /\ ScanTypeOK /\ PagesAreFinite
  /\ RunsAreTrue /\ ScannersAreTrue /\ GuardsAreTrue /\ AllowedMeansAbsent

-----------------------------------------------------------------------------
(***************************************************************************)
(* Facts about sets.                                                       *)
(***************************************************************************)

\* A finite set of naturals has a maximum: of the sets that hold a bound of
\* every element, a smallest one has one element.
LEMMA FiniteSetsHaveMaximum ==
  ASSUME NEW S \in SUBSET Nat, IsFiniteSet(S), S # {}
  PROVE  Max(S) \in S /\ \A n \in S : n <= Max(S)
<1> DEFINE Bounds(U) == \A n \in S : \E m \in U : n <= m
           B == {U \in SUBSET S : Bounds(U)}
<1>1. B \subseteq FiniteSubsetsOf(S) /\ S \in B
  BY FS_FiniteSubsetsOfFinite
<1>2. IsWellFoundedOn(StrictSubsetOrdering(S), FiniteSubsetsOf(S))
  BY FS_StrictSubsetOrderingWellFounded
<1>3. PICK U \in B : \A V \in B : <<V, U>> \notin StrictSubsetOrdering(S)
  <2> HIDE DEF B
  <2> QED BY <1>1, <1>2, WFMin
<1>4. ASSUME NEW a \in U, NEW b \in U, a < b PROVE FALSE
  <2>1. U \ {a} \in SUBSET S /\ U \ {a} # U
    BY <1>4
  <2>2. ASSUME NEW n \in S PROVE \E m \in U \ {a} : n <= m
    <3>1. PICK m \in U : n <= m
      BY <1>3
    <3>2. m \in Nat /\ b \in Nat /\ a \in Nat
      BY <1>3
    <3>3. CASE m = a
      BY <1>4, <3>1, <3>2, <3>3
    <3> QED BY <3>1, <3>3
  <2>3. U \ {a} \in B
    BY <2>1, <2>2
  <2>4. <<U \ {a}, U>> \in StrictSubsetOrdering(S)
    BY <1>3, <2>1 DEF StrictSubsetOrdering
  <2> QED BY <1>3, <2>3, <2>4
<1>5. PICK m \in U : TRUE
  BY <1>3
<1>6. \A n \in U : n = m
  <2> SUFFICES ASSUME NEW n \in U, n # m PROVE FALSE
    OBVIOUS
  <2>1. n \in Nat /\ m \in Nat
    BY <1>3, <1>5
  <2> QED BY <1>4, <1>5, <2>1
<1>7. m \in S /\ \A n \in S : n <= m
  BY <1>3, <1>5, <1>6
<1> QED BY <1>7 DEF Max

\* There are finitely many objects.
LEMMA ObjectsAreFinite == IsFiniteSet(Objects)
<1>1. Len(Order) \in Nat /\ DOMAIN Order = 1..Len(Order)
  BY ScanAssumption
<1>2. IsFiniteSet(1..Len(Order))
  BY <1>1, FS_Interval
<1>3. Order \in Surjection(1..Len(Order), Objects)
  BY <1>1, ScanAssumption DEF Objects, Surjection
<1> QED BY <1>2, <1>3, FS_Surjection

\* What a listing of the directory returns.
LEMMA Listings ==
  ASSUME ScanTypeOK
  PROVE  /\ Present \subseteq Objects /\ IsFiniteSet(Present) /\ Total \in Nat
         /\ \A p : /\ ListedAt(p) \subseteq Present
                   /\ Items(p) \in SUBSET (Objects \X Versions)
                   /\ IsFiniteSet(ListedAt(p))
                   /\ Cardinality(Items(p)) = Cardinality(ListedAt(p))
                   /\ Cardinality(Items(p)) \in Nat
<1>1. Present \subseteq Objects
  BY DEF Present
<1>2. IsFiniteSet(Present) /\ Total \in Nat
  BY <1>1, ObjectsAreFinite, FS_Subset, FS_CardinalityType DEF Total
<1>3. ASSUME NEW p
      PROVE  /\ ListedAt(p) \subseteq Present
             /\ Items(p) \in SUBSET (Objects \X Versions)
             /\ IsFiniteSet(ListedAt(p))
             /\ Cardinality(Items(p)) = Cardinality(ListedAt(p))
             /\ Cardinality(Items(p)) \in Nat
  <2>1. ListedAt(p) \subseteq Present
    BY DEF ListedAt
  <2>2. Items(p) \in SUBSET (Objects \X Versions)
    BY <2>1 DEF Items, Present, ScanTypeOK, Shown
  <2>3. IsFiniteSet(ListedAt(p))
    BY <1>2, <2>1, FS_Subset
  <2> DEFINE f == [o \in ListedAt(p) |-> <<o, remote[o]>>]
  <2>4. f \in Bijection(ListedAt(p), Items(p))
    <3>1. f \in [ListedAt(p) -> Items(p)]
      BY DEF Items
    <3>2. \A a, b \in ListedAt(p) : f[a] = f[b] => a = b
      OBVIOUS
    <3>3. \A e \in Items(p) : \E o \in ListedAt(p) : f[o] = e
      BY DEF Items
    <3> HIDE DEF f
    <3> QED BY <3>1, <3>2, <3>3, Fun_IsBij
  <2>5. Cardinality(Items(p)) = Cardinality(ListedAt(p))
    BY <2>3, <2>4, FS_Bijection DEF ExistsBijection
  <2> QED BY <2>1, <2>2, <2>3, <2>5, FS_CardinalityType
<1> QED BY <1>1, <1>2, <1>3

\* While the directory stays, so do its listings.
LEMMA DirectoryStays ==
  ASSUME UNCHANGED remote
  PROVE  /\ Present' = Present /\ Total' = Total
         /\ \A p : ListedAt(p)' = ListedAt(p) /\ Items(p)' = Items(p)
BY DEF Present, Total, ListedAt, Items

-----------------------------------------------------------------------------
(***************************************************************************)
(* Types.                                                                  *)
(***************************************************************************)
LEMMA Rows ==
  /\ NoRun \in RunRow
  /\ IdleScanner \in ScannerState
  /\ \A k \in Keys : [IdleScanner EXCEPT !.pc = "result", !.key = k] \in ScannerState
  /\ \A k \in Keys, outcome \in {"failed", "cancelled"} :
       [IdleScanner EXCEPT !.pc = "abort", !.key = k, !.outcome = outcome]
         \in ScannerState
  /\ Order[1] \in Objects
<1>1. 1 \in DOMAIN Order
  BY ScanAssumption
<1> QED BY <1>1 DEF NoRun, RunRow, RunState, NoEntries, IdleScanner, ScannerState,
                    Shown, Objects

Counts == [edits : 0..MaxEdits, scans : 0..MaxScans,
           faults : 0..MaxFaults, checks : 0..MaxChecks]

\* A step of a scan that does not touch the ledger keeps the types if the two
\* records that it writes have theirs.
LEMMA ScanTypes ==
  ASSUME ScanTypeOK, PagesAreFinite, NEW s \in Scanners, NEW k, NEW row \in RunRow,
         NEW next \in ScannerState, IsFiniteSet(next.item),
         scanner' = [scanner EXCEPT ![s] = next],
         UNCHANGED run \/ run' = [run EXCEPT ![k] = row],
         UNCHANGED <<remote, ledger, events, guard, edited>>,
         counts' \in Counts
  PROVE  ScanTypeOK' /\ PagesAreFinite'
<1>1. run' \in [Keys -> RunRow] /\ scanner' \in [Scanners -> ScannerState]
  BY DEF ScanTypeOK
<1>2. PagesAreFinite'
  BY DEF ScanTypeOK, PagesAreFinite
<1> QED BY <1>1, <1>2 DEF ScanTypeOK, Counts

\* The counters that bound a behaviour stay in their range.
LEMMA CountsTypes ==
  ASSUME ScanTypeOK
  PROVE  /\ counts \in Counts
         /\ counts.edits < MaxEdits /\ Counted("edits") => counts' \in Counts
         /\ counts.scans < MaxScans /\ Counted("scans") => counts' \in Counts
         /\ counts.faults < MaxFaults /\ Counted("faults") => counts' \in Counts
         /\ counts.checks < MaxChecks /\ Counted("checks") => counts' \in Counts
<1>t. /\ counts \in Counts
      /\ MaxEdits \in Nat /\ MaxScans \in Nat /\ MaxFaults \in Nat /\ MaxChecks \in Nat
  BY ScanAssumption DEF ScanTypeOK, Counts
<1>1. ASSUME counts.edits < MaxEdits, Counted("edits") PROVE counts' \in Counts
  BY <1>1, <1>t DEF Counted, Counts
<1>2. ASSUME counts.scans < MaxScans, Counted("scans") PROVE counts' \in Counts
  BY <1>2, <1>t DEF Counted, Counts
<1>3. ASSUME counts.faults < MaxFaults, Counted("faults") PROVE counts' \in Counts
  BY <1>3, <1>t DEF Counted, Counts
<1>4. ASSUME counts.checks < MaxChecks, Counted("checks") PROVE counts' \in Counts
  BY <1>4, <1>t DEF Counted, Counts
<1> QED BY <1>t, <1>1, <1>2, <1>3, <1>4

\* The records that the steps of a scan write.
LEMMA ScanStepTypes ==
  ASSUME NEW me \in ScannerState, NEW row \in RunRow
  PROVE  /\ \A pc \in {"mark", "checkpoint", "complete"} :
              [me EXCEPT !.pc = pc] \in ScannerState
         /\ [me EXCEPT !.pc = "list", !.next = row.page + 1] \in ScannerState
         /\ [me EXCEPT !.pc = "list", !.next = me.next + 1] \in ScannerState
         /\ [me EXCEPT !.pc = "write", !.page = row.page, !.seen = row.seen]
              \in ScannerState
         /\ \A state \in RunState \ {"absent"}, complete \in BOOLEAN :
              [row EXCEPT !.state = state, !.complete = complete] \in RunRow
<1>1. row.page \in Nat /\ row.seen \in Nat /\ me.next \in Nat
  BY DEF RunRow, ScannerState
<1>2. row.page + 1 \in Nat /\ me.next + 1 \in Nat
  BY <1>1
<1>3. \A pc \in {"mark", "checkpoint", "complete"} :
        [me EXCEPT !.pc = pc] \in ScannerState
  BY DEF ScannerState
<1>4. [me EXCEPT !.pc = "list", !.next = row.page + 1] \in ScannerState
  BY <1>2 DEF ScannerState
<1>5. [me EXCEPT !.pc = "list", !.next = me.next + 1] \in ScannerState
  BY <1>2 DEF ScannerState
<1>6. [me EXCEPT !.pc = "write", !.page = row.page, !.seen = row.seen] \in ScannerState
  BY <1>1 DEF ScannerState
<1>7. \A state \in RunState \ {"absent"}, complete \in BOOLEAN :
        [row EXCEPT !.state = state, !.complete = complete] \in RunRow
  BY DEF RunRow
<1> QED BY <1>3, <1>4, <1>5, <1>6, <1>7

-----------------------------------------------------------------------------
(***************************************************************************)
(* What a step leaves as it is.                                            *)
(***************************************************************************)

\* A run only gets more entries, and keeps a total and a snapshot that are right.
Kept(k) ==
  /\ Existing(k) => Existing(k)'
  /\ Steady(k) =>
       /\ Held(k) \subseteq Held(k)'
       /\ run[k].total = Total => run'[k].total = Total
       /\ run[k].entries = remote => run'[k].entries = remote

\* The columns of a run that speak of the directory stay.
SameSnapshot(k) ==
  /\ run'[k].entries = run[k].entries /\ run'[k].seen = run[k].seen
  /\ run'[k].total = run[k].total /\ run'[k].page = run[k].page

\* A run that looks the same, unless it was removed, keeps what scanners know of it.
LEMMA SameIsKept ==
  ASSUME NEW k, SameSnapshot(k), Existing(k) => run'[k].state # "absent"
  PROVE  Kept(k)
BY DEF Kept, SameSnapshot, Existing, Held

\* A run keeps what is known of it while neither it nor the directory changes.
LEMMA SameRunStays ==
  ASSUME NEW k \in Keys, UNCHANGED <<remote, edited>>, SameSnapshot(k), RunOk(k),
         run'[k].state = "absent" => run'[k] = run[k],
         run'[k].state = "completed" /\ Steady(k) => run[k].entries = remote
  PROVE  RunOk(k)'
<1>1. Total' = Total /\ \A p : ListedAt(p)' = ListedAt(p)
  BY DirectoryStays
<1>2. Held(k)' = Held(k) /\ Steady(k)' = Steady(k)
  BY DEF Held, SameSnapshot, Steady
<1>3. ASSUME Steady(k) PROVE RunIsTrue(k)'
  <2>1. RunIsTrue(k)
    BY <1>3 DEF RunOk
  <2>2. PagesHeld(k, run[k].page)'
    BY <1>1, <1>2, <2>1 DEF PagesHeld, RunIsTrue, SameSnapshot
  <2> QED BY <1>1, <1>2, <1>3, <2>1, <2>2 DEF RunIsTrue, PagesHeld, SameSnapshot
<1> QED BY <1>2, <1>3 DEF RunOk

\* A scan that does not move stays true, when it is about to write a page only
\* if its page or its count still fit.
StillFits(s) ==
  LET me == scanner[s] IN
  \/ me.item = {}
  \/ \E e \in me.item : run'[me.key].entries[e[1]] # NotListed
  \/ me.seen = run'[me.key].seen

\* A scanner that does nothing keeps what it knows.
LEMMA ScannerStays ==
  ASSUME ScanTypeOK, UNCHANGED <<remote, edited>>, NEW s \in Scanners,
         scanner'[s] = scanner[s], ScannerOk(s),
         scanner[s].key \in Keys => Kept(scanner[s].key),
         scanner[s].pc = "write" /\ Steady(scanner[s].key) => StillFits(s)
  PROVE  ScannerOk(s)'
<1> DEFINE k == scanner[s].key
<1>1. Total' = Total /\ \A p : ListedAt(p)' = ListedAt(p) /\ Items(p)' = Items(p)
  BY DirectoryStays
<1>2. Steady(k)' <=> Steady(k)
  BY DEF Steady
<1>3. Existing(k) => Existing(k)'
  BY DEF Kept, Existing
<1>4. ASSUME scanner[s].pc # "idle", Steady(k) PROVE ScannerIsTrue(s)'
  <2>1. ScannerIsTrue(s) /\ Kept(k)
    BY <1>4 DEF ScannerOk, Steady
  <2>2. \A p : PagesHeld(k, p) => PagesHeld(k, p)'
    BY <1>1, <1>4, <2>1 DEF PagesHeld, Kept
  <2>3. PagesHeld(k, scanner[s].next - 1) => PagesHeld(k, scanner[s].next - 1)'
    BY <2>2
  <2>4. scanner[s].pc = "write" =>
          (scanner[s].item = {} \/ Holds(k, scanner[s].item)
             \/ scanner[s].seen = run[k].seen)'
    BY <1>4 DEF StillFits, Holds
  <2> QED BY <1>1, <1>4, <2>1, <2>3, <2>4 DEF ScannerIsTrue, Kept
<1> QED BY <1>2, <1>3, <1>4 DEF ScannerOk

\* A guard keeps what it has read while the runs keep it.
LEMMA GuardsStay ==
  ASSUME UNCHANGED <<remote, edited, guard>>, GuardsAreTrue, AllowedMeansAbsent,
         \A k \in Keys : Kept(k)
  PROVE  GuardsAreTrue' /\ AllowedMeansAbsent'
BY DEF GuardsAreTrue, GuardOk, AllowedMeansAbsent, Kept, Existing, Steady

\* A step of one scan that changes no more of a run than its state, its
\* completeness and its revision.
LEMMA LightStep ==
  ASSUME ScanInv, UNCHANGED <<remote, edited, guard>>,
         NEW s \in Scanners, \A t \in Scanners \ {s} : scanner'[t] = scanner[t],
         \A k \in Keys :
           /\ SameSnapshot(k)
           /\ run'[k].state = "absent" => run'[k] = run[k]
           /\ run'[k].state = "completed" /\ Steady(k) => run[k].entries = remote,
         ScannerOk(s)'
  PROVE  /\ RunsAreTrue' /\ ScannersAreTrue'
         /\ GuardsAreTrue' /\ AllowedMeansAbsent'
<1>1. \A k \in Keys : Kept(k)
  BY SameIsKept DEF Existing
<1>2. RunsAreTrue'
  BY SameRunStays DEF ScanInv, RunsAreTrue
<1>3. ASSUME NEW t \in Scanners \ {s} PROVE ScannerOk(t)'
  <2>1. scanner[t].pc = "write" /\ Steady(scanner[t].key) => StillFits(t)
    BY DEF ScanInv, ScannersAreTrue, ScannerOk, ScannerIsTrue, StillFits, Holds,
           Steady, SameSnapshot
  <2> QED BY <1>1, <2>1, ScannerStays DEF ScanInv, ScannersAreTrue
<1> QED BY <1>1, <1>2, <1>3, GuardsStay DEF ScanInv, ScannersAreTrue

-----------------------------------------------------------------------------
(***************************************************************************)
(* The steps of a scan.                                                    *)
(***************************************************************************)

\* A step that only moves the scan.
LEMMA QuietStep ==
  ASSUME ScanInv, NEW s \in Scanners,
         NEW next \in ScannerState, IsFiniteSet(next.item),
         scanner' = [scanner EXCEPT ![s] = next],
         UNCHANGED <<remote, run, ledger, events, guard, edited>>,
         counts' \in Counts, ScannerOk(s)'
  PROVE  ScanInv'
<1>1. ScanTypeOK' /\ PagesAreFinite'
  <2>1. run' \in [Keys -> RunRow] /\ scanner' \in [Scanners -> ScannerState]
    BY DEF ScanInv, ScanTypeOK
  <2>2. PagesAreFinite'
    BY DEF ScanInv, ScanTypeOK, PagesAreFinite
  <2> QED BY <2>1, <2>2 DEF ScanInv, ScanTypeOK, Counts
<1>2. \A t \in Scanners \ {s} : scanner'[t] = scanner[t]
  BY DEF ScanInv, ScanTypeOK
<1>3. \A k \in Keys :
        /\ SameSnapshot(k)
        /\ run'[k].state = "completed" /\ Steady(k) => run[k].entries = remote
  BY DEF SameSnapshot, ScanInv, RunsAreTrue, RunOk, RunIsTrue
<1> QED BY <1>1, <1>2, <1>3, LightStep DEF ScanInv

\* A step that changes no more of its run than LightStep allows.
SameColumns(row, old) ==
  /\ row.entries = old.entries /\ row.seen = old.seen
  /\ row.total = old.total /\ row.page = old.page

\* A scanner goes on and writes one row, without changing the row's entries.
LEMMA RowStep ==
  ASSUME ScanInv, NEW s \in Scanners,
         NEW next \in ScannerState, IsFiniteSet(next.item),
         scanner' = [scanner EXCEPT ![s] = next],
         NEW k \in Keys, NEW row \in RunRow, run' = [run EXCEPT ![k] = row],
         SameColumns(row, run[k]), row.state # "absent",
         row.state = "completed" /\ Steady(k) => run[k].entries = remote,
         UNCHANGED <<remote, guard, counts, edited>>,
         ledger' \in [Objects -> [status : {"unknown", "active", "missing"},
                                  version : Shown]],
         events' \subseteq
           Keys \X Objects \X {"added", "changed", "removed", "restored"},
         ScannerOk(s)'
  PROVE  ScanInv'
<1>1. ScanTypeOK' /\ PagesAreFinite'
  <2>1. run' \in [Keys -> RunRow] /\ scanner' \in [Scanners -> ScannerState]
    BY DEF ScanInv, ScanTypeOK
  <2>2. PagesAreFinite'
    BY DEF ScanInv, ScanTypeOK, PagesAreFinite
  <2> QED BY <2>1, <2>2 DEF ScanInv, ScanTypeOK
<1>2. \A t \in Scanners \ {s} : scanner'[t] = scanner[t]
  BY DEF ScanInv, ScanTypeOK
<1>3. ASSUME NEW j \in Keys
      PROVE  /\ SameSnapshot(j)
             /\ run'[j].state = "absent" => run'[j] = run[j]
             /\ run'[j].state = "completed" /\ Steady(j) => run[j].entries = remote
  <2>1. CASE j = k
    <3>1. run'[j] = row
      BY <2>1 DEF ScanInv, ScanTypeOK
    <3> QED BY <2>1, <3>1 DEF SameColumns, SameSnapshot
  <2>2. CASE j # k
    <3>1. run'[j] = run[j]
      BY <2>2 DEF ScanInv, ScanTypeOK
    <3> QED BY <3>1 DEF SameSnapshot, ScanInv, RunsAreTrue, RunOk, RunIsTrue
  <2> QED BY <2>1, <2>2
<1> QED BY <1>1, <1>2, <1>3, LightStep DEF ScanInv

\* A scan that gives up or gives its result knows nothing of the directory.
LEMMA Leaving ==
  ASSUME ScanInv, NEW s \in Scanners, NEW outcome \in {"failed", "cancelled"},
         NEW k \in Keys, k = scanner[s].key, Existing(k)',
         GiveResult(s) \/ FallBack(s, outcome)
  PROVE  \E next \in ScannerState :
           /\ IsFiniteSet(next.item) /\ scanner' = [scanner EXCEPT ![s] = next]
           /\ ScannerOk(s)'
<1> DEFINE result == [IdleScanner EXCEPT !.pc = "result", !.key = k]
           abort == [IdleScanner EXCEPT !.pc = "abort", !.key = k, !.outcome = outcome]
<1>2. /\ result \in ScannerState /\ result.item = {} /\ result.total = NoTotal
      /\ result.pc = "result" /\ result.key = k
  BY Rows DEF IdleScanner
<1>3. /\ abort \in ScannerState /\ abort.item = {} /\ abort.total = NoTotal
      /\ abort.pc = "abort" /\ abort.key = k
  BY Rows DEF IdleScanner
<1>4. PICK next \in {result, abort} : scanner' = [scanner EXCEPT ![s] = next]
  BY DEF GiveResult, FallBack, Continue
<1>5. /\ next \in ScannerState /\ IsFiniteSet(next.item) /\ next.total = NoTotal
      /\ next.pc \in {"result", "abort"} /\ next.key = k
  BY <1>2, <1>3, FS_EmptySet
<1>6. scanner'[s] = next
  BY <1>4 DEF ScanInv, ScanTypeOK
<1>7. ScannerOk(s)'
  BY <1>5, <1>6 DEF ScannerOk, ScannerIsTrue
<1> QED BY <1>4, <1>5, <1>7

\* A scanner looks for the run of its key.
LEMMA LookupKeeps ==
  ASSUME ScanInv, NEW s \in Scanners, NEW k \in Keys, Lookup(s, k)
  PROVE  ScanInv'
<1> DEFINE pc == IF run[k].state = "absent" THEN "insert"
                 ELSE IF run[k].complete /\ run[k].state = "completed" THEN "result"
                 ELSE "mark"
           next == [IdleScanner EXCEPT !.pc = pc, !.key = k, !.total = run[k].total]
<1>1. scanner' = [scanner EXCEPT ![s] = next]
  BY DEF Lookup, Continue
<1>2. UNCHANGED <<remote, run, ledger, events, guard, edited>> /\ counts' \in Counts
  BY CountsTypes DEF Lookup, ScanInv
<1>3. run[k].total \in Nat \cup {NoTotal}
  BY DEF ScanInv, ScanTypeOK, RunRow
<1>4. /\ next \in ScannerState /\ IsFiniteSet(next.item)
      /\ next.pc = pc /\ next.key = k /\ next.total = run[k].total
  <2>1. pc \in {"insert", "result", "mark"}
    OBVIOUS
  <2> HIDE DEF pc
  <2>2. /\ next \in ScannerState /\ next.item = {}
        /\ next.pc = pc /\ next.key = k /\ next.total = run[k].total
    BY <1>3, <2>1 DEF IdleScanner, ScannerState, NoRun
  <2> QED BY <2>2, FS_EmptySet
<1>5. pc \in {"insert", "result", "mark"} /\ (pc = "insert" <=> run[k].state = "absent")
  OBVIOUS
<1> HIDE DEF pc, next
<1>6. scanner'[s] = next
  BY <1>1 DEF ScanInv, ScanTypeOK
<1>7. RunOk(k)
  BY DEF ScanInv, RunsAreTrue
<1>8. pc = "insert" => next.total = NoTotal
  BY <1>4, <1>5, <1>7 DEF RunOk, NoRun
<1>9. Steady(k) => next.total \in {NoTotal, Total}
  BY <1>4, <1>7 DEF RunOk, RunIsTrue
<1>10. ScannerOk(s)'
  <2>1. Total' = Total /\ (Steady(k)' <=> Steady(k))
    BY <1>2, DirectoryStays DEF Steady
  <2>2. pc # "insert" => Existing(k)'
    BY <1>2, <1>5 DEF Existing
  <2> QED BY <1>4, <1>5, <1>6, <1>8, <1>9, <2>1, <2>2 DEF ScannerOk, ScannerIsTrue
<1> QED BY <1>1, <1>2, <1>4, <1>10, QuietStep

\* It inserts the run, or finds that another has.
LEMMA InsertKeeps ==
  ASSUME ScanInv, NEW s \in Scanners, Insert(s)
  PROVE  ScanInv'
<1>p. PICK k \in Keys : k = scanner[s].key
  BY DEF Insert, ScanInv, ScannersAreTrue, ScannerOk
<1> DEFINE created == 1 + Cardinality({j \in Keys : run[j].state # "absent"})
           row == [NoRun EXCEPT !.state = "queued", !.created = created]
           next == [scanner[s] EXCEPT !.pc = "mark"]
<1>1. /\ scanner[s].total = NoTotal
      /\ UNCHANGED <<remote, ledger, events, guard, counts, edited>>
  BY DEF Insert, OnlyRun, ScanInv, ScannersAreTrue, ScannerOk
<1>2. scanner[s] \in ScannerState /\ IsFiniteSet(scanner[s].item) /\ counts \in Counts
  BY DEF ScanInv, ScanTypeOK, PagesAreFinite, Counts
<1>3. CASE run[k].state = "absent"
  <2>1. scanner' = [scanner EXCEPT ![s] = next] /\ run' = [run EXCEPT ![k] = row]
    BY <1>p, <1>3, Zenon DEF Insert, MoveTo, Continue, Update
  <2>2. created \in Nat
    <3>1. {j \in Keys : run[j].state # "absent"} \in SUBSET Keys
      OBVIOUS
    <3> QED BY <3>1, FS_Subset, FS_CardinalityType, ScanAssumption
  <2>3. run[k] = NoRun
    <3>1. RunOk(k)
      BY DEF ScanInv, RunsAreTrue
    <3> QED BY <1>3, <3>1 DEF RunOk
  <2>4. row \in RunRow /\ SameColumns(row, run[k]) /\ row.state = "queued"
    BY <2>2, <2>3, Rows DEF RunRow, RunState, NoRun, SameColumns
  <2>5. /\ next \in ScannerState /\ IsFiniteSet(next.item)
        /\ next.pc = "mark" /\ next.key = k /\ next.total = NoTotal
    BY <1>p, <1>1, <1>2 DEF ScannerState
  <2> HIDE DEF next, row
  <2>6. scanner'[s] = next /\ run'[k] = row
    BY <1>1, <2>1 DEF ScanInv, ScanTypeOK
  <2>7. ScannerOk(s)'
    BY <1>1, <2>4, <2>5, <2>6 DEF ScannerOk, ScannerIsTrue, Existing
  <2>8. ledger' = ledger /\ events' = events
    BY <1>1
  <2> QED BY <1>1, <2>1, <2>4, <2>5, <2>7, RowStep DEF ScanInv, ScanTypeOK
<1>4. CASE run[k].state # "absent"
  <2>1. scanner' = [scanner EXCEPT ![s] = IdleScanner] /\ UNCHANGED run
    BY <1>p, <1>4 DEF Insert, Continue
  <2>2. IdleScanner \in ScannerState /\ IsFiniteSet(IdleScanner.item) /\ IdleScanner.pc = "idle"
    BY Rows, FS_EmptySet DEF IdleScanner
  <2>3. ScannerOk(s)'
    BY <2>1, <2>2 DEF ScannerOk, ScanInv, ScanTypeOK
  <2> QED BY <1>1, <1>2, <2>1, <2>2, <2>3, QuietStep
<1> QED BY <1>3, <1>4

\* It marks the run as running.
LEMMA MarkRunningKeeps ==
  ASSUME ScanInv, NEW s \in Scanners, MarkRunning(s)
  PROVE  ScanInv'
<1>p. PICK k \in Keys : k = scanner[s].key
  BY DEF MarkRunning, ScanInv, ScannersAreTrue, ScannerOk, Existing
<1> DEFINE row == [run[k] EXCEPT !.state = "running"]
           next == [scanner[s] EXCEPT !.pc = "checkpoint"]
<1>1. /\ scanner[s].pc = "mark"
      /\ UNCHANGED <<remote, ledger, events, guard, counts, edited>>
      /\ scanner' = [scanner EXCEPT ![s] = next] /\ run' = [run EXCEPT ![k] = row]
  BY <1>p DEF MarkRunning, OnlyRun, MoveTo, Continue, Update
<1>2. Existing(k)
  BY <1>p, <1>1 DEF ScanInv, ScannersAreTrue, ScannerOk, Existing
<1>3. /\ scanner[s] \in ScannerState /\ IsFiniteSet(scanner[s].item) /\ run[k] \in RunRow
  BY <1>2 DEF ScanInv, ScanTypeOK, PagesAreFinite
<1>4. row \in RunRow /\ SameColumns(row, run[k]) /\ row.state = "running"
  BY <1>3 DEF RunRow, RunState, SameColumns
<1>5. /\ next \in ScannerState /\ IsFiniteSet(next.item)
      /\ next.pc = "checkpoint" /\ next.key = k /\ next.total = scanner[s].total
  BY <1>p, <1>3 DEF ScannerState
<1> HIDE DEF next, row
<1>6. scanner'[s] = next /\ run'[k] = row
  BY <1>1, <1>2 DEF ScanInv, ScanTypeOK
<1>7. ScannerOk(s)'
  <2>1. Total' = Total /\ (Steady(k)' <=> Steady(k))
    BY <1>1, DirectoryStays DEF Steady
  <2>2. Steady(k) => scanner[s].total \in {NoTotal, Total}
    BY <1>p, <1>1 DEF ScanInv, ScannersAreTrue, ScannerOk, ScannerIsTrue
  <2> QED BY <1>2, <1>4, <1>5, <1>6, <2>1, <2>2 DEF ScannerOk, ScannerIsTrue, Existing
<1> QED BY <1>1, <1>2, <1>4, <1>5, <1>7, RowStep DEF ScanInv, ScanTypeOK

\* It reads how far the run has come.
LEMMA ReadCheckpointKeeps ==
  ASSUME ScanInv, NEW s \in Scanners, ReadCheckpoint(s)
  PROVE  ScanInv'
<1>p. PICK k \in Keys : k = scanner[s].key
  BY DEF ReadCheckpoint, ScanInv, ScannersAreTrue, ScannerOk, Existing
<1> DEFINE next == [scanner[s] EXCEPT !.pc = "list", !.next = run[k].page + 1]
<1>1. /\ scanner[s].pc = "checkpoint"
      /\ UNCHANGED <<remote, run, ledger, events, guard, counts, edited>>
      /\ scanner' = [scanner EXCEPT ![s] = next]
  BY <1>p DEF ReadCheckpoint, OnlyScanner, Continue
<1>2. Existing(k)
  BY <1>p, <1>1 DEF ScanInv, ScannersAreTrue, ScannerOk, Existing
<1>3. /\ scanner[s] \in ScannerState /\ IsFiniteSet(scanner[s].item)
      /\ run[k] \in RunRow /\ run[k].page \in Nat /\ counts \in Counts
  BY <1>2 DEF ScanInv, ScanTypeOK, PagesAreFinite, RunRow, Counts
<1>q. PICK p \in Nat : p = run[k].page /\ p + 1 \in Nat
  BY <1>3
<1>4. /\ next \in ScannerState /\ IsFiniteSet(next.item)
      /\ next.pc = "list" /\ next.key = k /\ next.total = scanner[s].total
      /\ next.next = p + 1
  BY <1>p, <1>q, <1>3 DEF ScannerState
<1> HIDE DEF next
<1>5. scanner'[s] = next
  BY <1>1 DEF ScanInv, ScanTypeOK
<1>6. ScannerOk(s)'
  <2>1. /\ Total' = Total /\ (Steady(k)' <=> Steady(k)) /\ Existing(k)'
        /\ \A q : PagesHeld(k, q)' <=> PagesHeld(k, q)
    BY <1>1, <1>2, DirectoryStays DEF Steady, Existing, PagesHeld, Held
  <2>2. ASSUME Steady(k)
        PROVE  scanner[s].total \in {NoTotal, Total} /\ PagesHeld(k, p)
    BY <1>p, <1>q, <1>1, <1>2, <2>2 DEF ScanInv, ScannersAreTrue, ScannerOk, ScannerIsTrue,
                            RunsAreTrue, RunOk, RunIsTrue
  <2>3. scanner'[s].next - 1 = p /\ scanner'[s].next # 0
    BY <1>4, <1>5
  <2> QED BY <1>4, <1>5, <2>1, <2>2, <2>3 DEF ScannerOk, ScannerIsTrue
<1> QED BY <1>1, <1>3, <1>4, <1>6, QuietStep

\* It lists a page.
LEMMA ScanListKeeps ==
  ASSUME ScanInv, NEW s \in Scanners, List(s)
  PROVE  ScanInv'
<1>p. PICK k \in Keys : k = scanner[s].key
  BY DEF List, ScanInv, ScannersAreTrue, ScannerOk, Existing
<1>q. PICK p \in Nat : p = scanner[s].next
  BY DEF ScanInv, ScanTypeOK, ScannerState
<1>1. /\ scanner[s].pc = "list"
      /\ UNCHANGED <<remote, run, ledger, events, guard, counts, edited>>
  BY DEF List, OnlyScanner
<1>2. Existing(k) /\ Existing(k)'
  BY <1>p, <1>1 DEF ScanInv, ScannersAreTrue, ScannerOk, Existing
<1>3. scanner[s] \in ScannerState /\ counts \in Counts
  BY DEF ScanInv, ScanTypeOK, Counts
<1>4. CASE FallBack(s, "failed")
  <2>1. PICK next \in ScannerState :
          /\ IsFiniteSet(next.item) /\ scanner' = [scanner EXCEPT ![s] = next]
          /\ ScannerOk(s)'
    BY <1>p, <1>2, <1>4, Leaving
  <2> QED BY <1>1, <1>3, <2>1, QuietStep
<1>5. CASE scanner' = [scanner EXCEPT ![s] =
             [scanner[s] EXCEPT !.pc = "persist", !.total = Page(p).total,
                !.item = Page(p).item, !.terminal = Page(p).terminal]]
  <2> DEFINE next == [scanner[s] EXCEPT !.pc = "persist", !.total = Page(p).total,
                        !.item = Page(p).item, !.terminal = Page(p).terminal]
  <2>1. /\ Page(p).total = Total /\ Page(p).item = Items(p)
        /\ Page(p).terminal \in BOOLEAN
    BY DEF Page, Total
  <2>2. Total \in Nat /\ Items(p) \in SUBSET (Objects \X Versions) /\ IsFiniteSet(Items(p))
    <3>1. Items(p) = {<<o, remote[o]>> : o \in ListedAt(p)} /\ IsFiniteSet(ListedAt(p))
      BY Listings DEF Items, ScanInv
    <3>2. [o \in ListedAt(p) |-> <<o, remote[o]>>] \in Surjection(ListedAt(p), Items(p))
      BY <3>1, Fun_IsSurj
    <3> QED BY <3>1, <3>2, Listings, FS_Surjection DEF ScanInv
  <2>3. /\ next \in ScannerState /\ IsFiniteSet(next.item)
        /\ next.pc = "persist" /\ next.key = k /\ next.next = p
        /\ next.total = Total /\ next.item = Items(p)
    <3>1. next = [scanner[s] EXCEPT !.pc = "persist", !.total = Total,
                    !.item = Items(p), !.terminal = Page(p).terminal]
      BY <2>1
    <3> HIDE DEF next
    <3>2. /\ next \in ScannerState /\ next.pc = "persist" /\ next.key = scanner[s].key
          /\ next.next = scanner[s].next /\ next.total = Total /\ next.item = Items(p)
      BY <1>3, <2>1, <2>2, <3>1 DEF ScannerState
    <3> QED BY <1>p, <1>q, <2>2, <3>2
  <2> HIDE DEF next
  <2>4. scanner' = [scanner EXCEPT ![s] = next] /\ scanner'[s] = next
    BY <1>5 DEF ScanInv, ScanTypeOK, next
  <2>5. /\ Total' = Total /\ (Steady(k)' <=> Steady(k)) /\ Items(p)' = Items(p)
        /\ PagesHeld(k, p - 1)' <=> PagesHeld(k, p - 1)
    BY <1>1, DirectoryStays DEF Steady, PagesHeld, Held
  <2>6. Steady(k) => p # 0 /\ PagesHeld(k, p - 1)
    BY <1>p, <1>q, <1>1 DEF ScanInv, ScannersAreTrue, ScannerOk, ScannerIsTrue
  <2>7. ScannerOk(s)'
    BY <1>2, <2>3, <2>4, <2>5, <2>6 DEF ScannerOk, ScannerIsTrue
  <2> QED BY <1>1, <1>3, <2>3, <2>4, <2>7, QuietStep
<1> QED BY <1>4, <1>5, <1>q DEF List, Continue

\* It reads the run before it writes the page.
LEMMA ReadRunKeeps ==
  ASSUME ScanInv, NEW s \in Scanners, ReadRun(s)
  PROVE  ScanInv'
<1>p. PICK k \in Keys : k = scanner[s].key
  BY DEF ReadRun, ScanInv, ScannersAreTrue, ScannerOk, Existing
<1>q. PICK p \in Nat : p = scanner[s].next
  BY DEF ScanInv, ScanTypeOK, ScannerState
<1>1. /\ scanner[s].pc = "persist"
      /\ UNCHANGED <<remote, run, ledger, events, guard, counts, edited>>
  BY DEF ReadRun, OnlyScanner
<1>2. Existing(k) /\ Existing(k)'
  BY <1>p, <1>1 DEF ScanInv, ScannersAreTrue, ScannerOk, Existing
<1>3. /\ scanner[s] \in ScannerState /\ counts \in Counts
      /\ run[k] \in RunRow /\ IsFiniteSet(scanner[s].item)
  BY DEF ScanInv, ScanTypeOK, Counts, PagesAreFinite
<1>4. CASE FallBack(s, "failed")
  <2>1. PICK next \in ScannerState :
          /\ IsFiniteSet(next.item) /\ scanner' = [scanner EXCEPT ![s] = next]
          /\ ScannerOk(s)'
    BY <1>p, <1>2, <1>4, Leaving
  <2> QED BY <1>1, <1>3, <2>1, QuietStep
<1>5. CASE scanner' = [scanner EXCEPT ![s] =
             [scanner[s] EXCEPT !.pc = "write", !.page = run[k].page, !.seen = run[k].seen]]
  <2> DEFINE next == [scanner[s] EXCEPT !.pc = "write", !.page = run[k].page,
                                        !.seen = run[k].seen]
  <2>1. run[k].page \in Nat /\ run[k].seen \in Nat
    BY <1>3 DEF RunRow
  <2>2. /\ next \in ScannerState /\ IsFiniteSet(next.item)
        /\ next.pc = "write" /\ next.key = k /\ next.next = p
        /\ next.total = scanner[s].total /\ next.item = scanner[s].item
        /\ next.seen = run[k].seen
    BY <1>p, <1>q, <1>3, <2>1 DEF ScannerState
  <2> HIDE DEF next
  <2>3. scanner' = [scanner EXCEPT ![s] = next] /\ scanner'[s] = next
    BY <1>5 DEF ScanInv, ScanTypeOK, next
  <2>4. /\ Total' = Total /\ (Steady(k)' <=> Steady(k)) /\ Items(p)' = Items(p)
        /\ PagesHeld(k, p - 1)' <=> PagesHeld(k, p - 1)
    BY <1>1, DirectoryStays DEF Steady, PagesHeld, Held
  <2>5. Steady(k) => /\ p # 0 /\ PagesHeld(k, p - 1)
                     /\ scanner[s].item = Items(p) /\ scanner[s].total = Total
    BY <1>p, <1>q, <1>1 DEF ScanInv, ScannersAreTrue, ScannerOk, ScannerIsTrue
  <2>6. scanner'[s].seen = run'[scanner'[s].key].seen
    BY <1>1, <2>2, <2>3
  <2>7. ScannerOk(s)'
    BY <1>2, <2>2, <2>3, <2>4, <2>5, <2>6 DEF ScannerOk, ScannerIsTrue
  <2> QED BY <1>1, <1>3, <2>2, <2>3, <2>7, QuietStep
<1> QED BY <1>4, <1>5, <1>p DEF ReadRun, Continue

\* A call fails, or the scan is cancelled or returns.
LEMMA FaultKeeps ==
  ASSUME ScanInv, NEW s \in Scanners, CallFails(s) \/ Cancel(s) \/ Return(s)
  PROVE  ScanInv'
<1>p. PICK k \in Keys : k = scanner[s].key /\ Existing(k)
  BY DEF Existing, CallFails, Cancel, Return, ScanInv, ScannersAreTrue, ScannerOk
<1>1. UNCHANGED <<remote, run, ledger, events, guard, edited>>
  BY DEF CallFails, Cancel, Return, OnlyScanner
<1>2. counts' \in Counts
  BY CountsTypes DEF CallFails, Cancel, Return, OnlyScanner, ScanInv
<1>3. CASE CallFails(s) \/ Cancel(s)
  <2>1. PICK outcome \in {"failed", "cancelled"} : FallBack(s, outcome)
    BY <1>3 DEF CallFails, Cancel
  <2>2. Existing(k)'
    BY <1>p, <1>1 DEF Existing
  <2>3. PICK next \in ScannerState :
          /\ IsFiniteSet(next.item) /\ scanner' = [scanner EXCEPT ![s] = next]
          /\ ScannerOk(s)'
    BY <1>p, <2>1, <2>2, Leaving
  <2> QED BY <1>1, <1>2, <2>3, QuietStep
<1>4. CASE Return(s)
  <2>1. scanner' = [scanner EXCEPT ![s] = IdleScanner]
    BY <1>4 DEF Return, Continue
  <2>2. IdleScanner \in ScannerState /\ IsFiniteSet(IdleScanner.item) /\ IdleScanner.pc = "idle"
    BY Rows, FS_EmptySet DEF IdleScanner
  <2>3. ScannerOk(s)'
    BY <2>1, <2>2 DEF ScannerOk, ScanInv, ScanTypeOK
  <2> QED BY <1>1, <1>2, <2>1, <2>2, <2>3, QuietStep
<1> QED BY <1>3, <1>4

\* Giving a run up, whatever it has become, keeps what it says of the directory.
LEMMA IncompleteKeeps ==
  ASSUME ScanInv, NEW s \in Scanners, NEW k \in Keys, k = scanner[s].key,
         Existing(k), NEW state \in {"failed", "cancelled"}, Incomplete(k, state),
         GiveResult(s), UNCHANGED <<remote, ledger, events, guard, counts, edited>>
  PROVE  ScanInv'
<1> DEFINE row == [run[k] EXCEPT !.state = state, !.complete = FALSE]
<1>1. run' = [run EXCEPT ![k] = row] /\ run[k] \in RunRow
  BY DEF Incomplete, Update, ScanInv, ScanTypeOK
<1>2. row \in RunRow /\ SameColumns(row, run[k]) /\ row.state = state
  BY <1>1 DEF RunRow, RunState, SameColumns
<1> HIDE DEF row
<1>3. Existing(k)'
  BY <1>1, <1>2 DEF Existing, ScanInv, ScanTypeOK
<1>4. PICK next \in ScannerState :
        /\ IsFiniteSet(next.item) /\ scanner' = [scanner EXCEPT ![s] = next]
        /\ ScannerOk(s)'
  BY <1>3, Leaving
<1> QED BY <1>1, <1>2, <1>4, RowStep DEF ScanInv, ScanTypeOK

\* It gives the run up.
LEMMA AbortKeeps ==
  ASSUME ScanInv, NEW s \in Scanners, Abort(s)
  PROVE  ScanInv'
<1>1. PICK k \in Keys : k = scanner[s].key /\ Existing(k)
  BY DEF Abort, Existing, ScanInv, ScannersAreTrue, ScannerOk
<1>2. scanner[s].outcome \in {"failed", "cancelled"}
  BY DEF ScanInv, ScanTypeOK, ScannerState
<1> QED BY <1>1, <1>2, IncompleteKeeps DEF Abort, OnlyRun

\* A run that has as many entries as the directory has them all.
LEMMA CountedIsWhole ==
  ASSUME ScanInv, NEW k \in Keys, Steady(k), run[k].seen = Total
  PROVE  run[k].entries = remote
<1>1. RunIsTrue(k)
  BY DEF ScanInv, RunsAreTrue, RunOk
<1>2. /\ run[k].entries \in [Objects -> Shown] /\ remote \in [Objects -> Shown]
  BY DEF ScanInv, ScanTypeOK, RunRow
<1>3. Held(k) \in SUBSET Present
  BY <1>1 DEF Held, RunIsTrue, Present
<1>4. Held(k) = Present
  BY <1>1, <1>3, Listings, FS_Subset DEF RunIsTrue, Total, ScanInv
<1>5. \A o \in Objects : run[k].entries[o] = remote[o]
  BY <1>1, <1>4 DEF Held, Present, RunIsTrue
<1> QED BY <1>2, <1>5

\* It finds the run to compare with, or gives up a run that has not seen everything.
LEMMA ReadPreviousKeeps ==
  ASSUME ScanInv, NEW s \in Scanners, ReadPrevious(s)
  PROVE  ScanInv'
<1>p. PICK k \in Keys : k = scanner[s].key /\ Existing(k)
  BY DEF ReadPrevious, Existing, ScanInv, ScannersAreTrue, ScannerOk
<1>1. /\ scanner[s].pc = "complete"
      /\ UNCHANGED <<remote, ledger, events, guard, counts, edited>>
  BY DEF ReadPrevious, OnlyRun
<1>2. CASE Incomplete(k, "failed") /\ GiveResult(s)
  BY <1>p, <1>1, <1>2, IncompleteKeeps
<1>3. ASSUME run[k].total = NoTotal \/ run[k].seen = run[k].total, UNCHANGED run,
             NEW previous \in Keys \cup {NoKey},
             scanner' = [scanner EXCEPT ![s] =
               [scanner[s] EXCEPT !.pc = "finish", !.was = run[k].complete,
                  !.previous = previous,
                  !.revision = 1 + Max({run[j].revision : j \in Keys})]]
      PROVE  ScanInv'
  <2> DEFINE next == [scanner[s] EXCEPT !.pc = "finish", !.was = run[k].complete,
                        !.previous = previous,
                        !.revision = 1 + Max({run[j].revision : j \in Keys})]
  <2>1. Max({run[j].revision : j \in Keys}) \in Nat
    <3> DEFINE revisions == {run[j].revision : j \in Keys}
               f == [j \in Keys |-> run[j].revision]
    <3>1. revisions \in SUBSET Nat /\ revisions # {}
      BY DEF ScanInv, ScanTypeOK, RunRow
    <3>2. f \in Surjection(Keys, revisions)
      BY Fun_IsSurj
    <3>3. IsFiniteSet(revisions)
      BY <3>2, FS_Surjection, ScanAssumption
    <3> HIDE DEF revisions
    <3>4. Max(revisions) \in revisions
      BY <3>1, <3>3, FiniteSetsHaveMaximum
    <3> QED BY <3>1, <3>4 DEF revisions
  <2>2. /\ scanner[s] \in ScannerState /\ IsFiniteSet(scanner[s].item)
        /\ run[k].complete \in BOOLEAN /\ counts \in Counts
    BY DEF ScanInv, ScanTypeOK, PagesAreFinite, RunRow, Counts
  <2>3. 1 + Max({run[j].revision : j \in Keys}) \in Nat
    BY <2>1
  <2>4. /\ next \in ScannerState /\ IsFiniteSet(next.item)
        /\ next.pc = "finish" /\ next.key = k /\ next.total = scanner[s].total
    BY <1>p, <2>2, <2>3 DEF ScannerState
  <2> HIDE DEF next
  <2>5. scanner' = [scanner EXCEPT ![s] = next] /\ scanner'[s] = next
    BY <1>3 DEF ScanInv, ScanTypeOK, next
  <2>6. Total' = Total /\ (Steady(k)' <=> Steady(k)) /\ Existing(k)'
    BY <1>p, <1>1, <1>3, DirectoryStays DEF Steady, Existing
  <2>7. ASSUME Steady(k)
        PROVE  scanner[s].total \in {NoTotal, Total} /\ run[k].entries = remote
    <3>1. ScannerIsTrue(s)
      BY <1>p, <1>1, <2>7 DEF ScanInv, ScannersAreTrue, ScannerOk
    <3>2. run[k].total = Total /\ Total # NoTotal
      BY <1>p, <1>1, <3>1, Listings, ScanAssumption DEF ScannerIsTrue, ScanInv
    <3> QED BY <1>3, <2>7, <3>1, <3>2, CountedIsWhole DEF ScannerIsTrue
  <2>8. ScannerOk(s)'
    BY <1>1, <1>3, <2>4, <2>5, <2>6, <2>7 DEF ScannerOk, ScannerIsTrue
  <2> QED BY <1>1, <1>3, <2>2, <2>4, <2>5, <2>8, QuietStep
<1> QED
  <2> DEFINE others == {j \in Keys \ {k} : Completed(j)}
             best == {i \in others : \A j \in others : run[j].revision <= run[i].revision}
  <2>1. CASE run[k].total # NoTotal /\ run[k].seen # run[k].total
    <3>1. Incomplete(k, "failed") /\ GiveResult(s)
      BY <1>p, <2>1, Zenon DEF ReadPrevious
    <3> QED BY <1>2, <3>1, Zenon
  <2>2. CASE ~(run[k].total # NoTotal /\ run[k].seen # run[k].total)
    <3>1. /\ UNCHANGED run
          /\ \E previous \in IF best = {} THEN {NoKey} ELSE best :
               scanner' = [scanner EXCEPT ![s] =
                 [scanner[s] EXCEPT !.pc = "finish", !.was = run[k].complete,
                    !.previous = previous,
                    !.revision = 1 + Max({run[j].revision : j \in Keys})]]
      BY <1>p, <2>2, Zenon DEF ReadPrevious, Continue
    <3> QED BY <1>3, <2>2, <3>1
  <2> QED BY <2>1, <2>2

\* It completes the run, and writes the ledger and the events.
LEMMA ScanFinishKeeps ==
  ASSUME ScanInv, NEW s \in Scanners, Finish(s)
  PROVE  ScanInv'
<1>p. PICK k \in Keys : k = scanner[s].key /\ Existing(k)
  BY DEF Finish, Existing, ScanInv, ScannersAreTrue, ScannerOk
<1> DEFINE me == scanner[s]
           old == IF me.previous = NoKey THEN NoEntries ELSE run[me.previous].entries
           change == [o \in Objects |-> Change(old[o], run[k].entries[o])]
           row == [run[k] EXCEPT !.state = "completed",
                     !.complete = Differs(me.was, TRUE, @), !.revision = me.revision]
<1>1. /\ me.pc = "finish" /\ GiveResult(s) /\ run' = [run EXCEPT ![k] = row]
      /\ UNCHANGED <<remote, guard, counts, edited>>
  BY <1>p DEF Finish, Update
<1>2. /\ ledger' = [o \in Objects |-> Recorded(ledger[o], change[o], run[k].entries[o])]
      /\ events' = events \cup
           UNION {{k} \X {o} \X EventOf(ledger[o], change[o]) : o \in Objects}
  BY <1>p DEF Finish
<1>3. /\ run[k] \in RunRow /\ me \in ScannerState
      /\ ledger \in [Objects -> [status : {"unknown", "active", "missing"},
                                 version : Shown]]
      /\ events \subseteq
           Keys \X Objects \X {"added", "changed", "removed", "restored"}
      /\ run[k].entries \in [Objects -> Shown]
  BY DEF ScanInv, ScanTypeOK, RunRow
<1>4. me.revision \in Nat /\ Differs(me.was, TRUE, run[k].complete) \in BOOLEAN
  BY <1>3 DEF ScannerState, RunRow, Differs
<1>5. row \in RunRow /\ SameColumns(row, run[k]) /\ row.state = "completed"
  BY <1>3, <1>4 DEF RunRow, RunState, SameColumns
<1>6. \A o \in Objects : change[o] \in {"none", "added", "removed", "changed"}
  BY DEF Change
<1> HIDE DEF change, row
<1>7. ledger' \in [Objects -> [status : {"unknown", "active", "missing"},
                               version : Shown]]
  BY <1>2, <1>3, <1>6 DEF Recorded
<1>8. events' \subseteq Keys \X Objects \X {"added", "changed", "removed", "restored"}
  <2>1. ASSUME NEW o \in Objects
        PROVE  EventOf(ledger[o], change[o])
                 \subseteq {"added", "changed", "removed", "restored"}
    BY <1>6 DEF EventOf
  <2>2. ASSUME NEW o \in Objects
        PROVE  {k} \X {o} \X EventOf(ledger[o], change[o])
                 \subseteq Keys \X Objects \X {"added", "changed", "removed", "restored"}
    BY <2>1
  <2> QED BY <1>2, <1>3, <2>2
<1>9. Steady(k) => run[k].entries = remote
  BY <1>p, <1>1 DEF ScanInv, ScannersAreTrue, ScannerOk, ScannerIsTrue
<1>10. Existing(k)'
  BY <1>1, <1>5 DEF Existing, ScanInv, ScanTypeOK
<1>11. PICK next \in ScannerState :
         /\ IsFiniteSet(next.item) /\ scanner' = [scanner EXCEPT ![s] = next]
         /\ ScannerOk(s)'
  BY <1>p, <1>1, <1>10, Leaving
<1> QED BY <1>1, <1>5, <1>7, <1>8, <1>9, <1>11, RowStep

\* The row that WritePage makes.
Entered(entries, listing) ==
  [o \in Objects |-> IF \E e \in listing : e[1] = o
                     THEN (CHOOSE e \in listing : e[1] = o)[2] ELSE entries[o]]

WrittenRow(me, row) ==
  [row EXCEPT !.total = me.total,
              !.page = Differs(me.page, me.next, @),
              !.seen = Differs(me.seen, me.seen + Cardinality(me.item), @),
              !.entries = Entered(@, me.item)]

\* Page p enters a run that holds none of it: the entries are those of the
\* directory, and they are counted.
LEMMA PageEnters ==
  ASSUME ScanInv, NEW k \in Keys, Steady(k), NEW p,
         ~Holds(k, Items(p)), NEW entries, entries = Entered(run[k].entries, Items(p))
  PROVE  /\ \A o \in Objects :
              entries[o] = IF o \in ListedAt(p) THEN remote[o] ELSE run[k].entries[o]
         /\ {o \in Objects : entries[o] # NotListed} = Held(k) \cup ListedAt(p)
         /\ Cardinality(Held(k) \cup ListedAt(p))
              = Cardinality(Held(k)) + Cardinality(Items(p))
         /\ run[k].entries = remote => entries = remote
<1>1. /\ \A e \in Items(p) : \E o \in ListedAt(p) : e = <<o, remote[o]>>
      /\ \A o \in ListedAt(p) : <<o, remote[o]>> \in Items(p)
  BY DEF Items
<1>2. \A o \in Objects :
        entries[o] = IF o \in ListedAt(p) THEN remote[o] ELSE run[k].entries[o]
  <2> SUFFICES ASSUME NEW o \in Objects
               PROVE  entries[o] = IF o \in ListedAt(p) THEN remote[o]
                                   ELSE run[k].entries[o]
    OBVIOUS
  <2>1. CASE o \in ListedAt(p)
    <3>1. \E e \in Items(p) : e[1] = o
      BY <1>1, <2>1
    <3>2. (CHOOSE e \in Items(p) : e[1] = o) = <<o, remote[o]>>
      BY <1>1, <3>1
    <3> QED BY <2>1, <3>1, <3>2 DEF Entered
  <2>2. CASE o \notin ListedAt(p)
    <3>1. ~\E e \in Items(p) : e[1] = o
      BY <1>1, <2>2
    <3> QED BY <2>2, <3>1 DEF Entered
  <2> QED BY <2>1, <2>2
<1>3. ListedAt(p) \subseteq Present /\ Present \subseteq Objects
  BY Listings DEF ScanInv
<1>4. {o \in Objects : entries[o] # NotListed} = Held(k) \cup ListedAt(p)
  BY <1>2, <1>3 DEF Held, Present
<1>5. Held(k) \cap ListedAt(p) = {}
  BY <1>1 DEF Held, Holds
<1>6. IsFiniteSet(Held(k)) /\ IsFiniteSet(ListedAt(p))
  BY <1>3, Listings, ObjectsAreFinite, FS_Subset DEF Held, ScanInv
<1>7. Cardinality(Held(k) \cup ListedAt(p))
        = Cardinality(Held(k)) + Cardinality(Items(p))
  <2>1. /\ Cardinality(Held(k)) \in Nat /\ Cardinality(ListedAt(p)) \in Nat
        /\ Cardinality({}) = 0
    BY <1>6, FS_CardinalityType, FS_EmptySet
  <2>2. Cardinality(Held(k) \cup ListedAt(p)) =
          Cardinality(Held(k)) + Cardinality(ListedAt(p))
            - Cardinality(Held(k) \cap ListedAt(p))
    BY <1>6, FS_Union
  <2>3. Cardinality(Items(p)) = Cardinality(ListedAt(p))
    BY Listings DEF ScanInv
  <2>4. Cardinality(Held(k) \cap ListedAt(p)) = 0
    BY <1>5, <2>1
  <2> QED BY <2>1, <2>2, <2>3, <2>4
<1>8. run[k].entries = remote => entries = remote
  <2>1. entries = [o \in Objects |-> entries[o]] /\ remote = [o \in Objects |-> remote[o]]
    BY DEF Entered, ScanInv, ScanTypeOK
  <2> QED BY <1>2, <2>1
<1> QED BY <1>2, <1>4, <1>7, <1>8

\* The step of WritePage that writes.
Writes(s, k) ==
  /\ scanner[s].pc = "write" /\ scanner[s].key = k /\ ~Holds(k, scanner[s].item)
  /\ run' = [run EXCEPT ![k] = WrittenRow(scanner[s], run[k])]
  /\ scanner' = [scanner EXCEPT ![s] =
       IF scanner[s].terminal THEN [scanner[s] EXCEPT !.pc = "complete"]
       ELSE [scanner[s] EXCEPT !.pc = "list", !.next = @ + 1]]
  /\ UNCHANGED <<remote, ledger, events, guard, counts, edited>>

\* The columns that writing a page leaves in the row.
LEMMA WrittenTypes ==
  ASSUME ScanInv, NEW s \in Scanners, NEW k \in Keys, Writes(s, k)
  PROVE  /\ WrittenRow(scanner[s], run[k]) \in RunRow
         /\ LET row == run'[k] me == scanner[s] IN
            /\ row.state = run[k].state
            /\ row.total = me.total
            /\ row.page = Differs(me.page, me.next, run[k].page)
            /\ row.seen = Differs(me.seen, me.seen + Cardinality(me.item), run[k].seen)
            /\ row.entries = Entered(run[k].entries, me.item)
         /\ \A j \in Keys \ {k} : run'[j] = run[j]
         /\ ScanTypeOK' /\ PagesAreFinite'
<1> DEFINE me == scanner[s]
           old == run[k]
           page == Differs(me.page, me.next, old.page)
           seen == Differs(me.seen, me.seen + Cardinality(me.item), old.seen)
           entries == Entered(old.entries, me.item)
           row == [old EXCEPT !.total = me.total, !.page = page, !.seen = seen,
                              !.entries = entries]
<1>1. me \in ScannerState /\ IsFiniteSet(me.item) /\ old \in RunRow
  BY DEF ScanInv, ScanTypeOK, PagesAreFinite
<1>2. WrittenRow(me, old) = row
  BY <1>1 DEF WrittenRow, RunRow
<1>3. Cardinality(me.item) \in Nat
  BY <1>1, FS_CardinalityType
<1>4. page \in Nat /\ seen \in Nat /\ me.total \in Nat \cup {NoTotal}
  BY <1>1, <1>3 DEF Differs, ScannerState, RunRow
<1>5. entries \in [Objects -> Shown]
  <2>1. me.item \subseteq Objects \X Versions /\ old.entries \in [Objects -> Shown]
    BY <1>1 DEF ScannerState, RunRow
  <2>2. ASSUME NEW o \in Objects, \E e \in me.item : e[1] = o
        PROVE  (CHOOSE e \in me.item : e[1] = o)[2] \in Shown
    <3>1. (CHOOSE e \in me.item : e[1] = o) \in me.item
      BY <2>2
    <3> QED BY <2>1, <3>1 DEF Shown
  <2> QED BY <2>1, <2>2 DEF Entered
<1> HIDE DEF page, seen, entries
<1>6. row \in RunRow
  BY <1>1, <1>4, <1>5 DEF RunRow
<1>7. run' = [run EXCEPT ![k] = row] /\ run'[k] = row
  BY <1>2 DEF Writes, ScanInv, ScanTypeOK
<1>8. /\ row.state = old.state /\ row.total = me.total /\ row.page = page
      /\ row.seen = seen /\ row.entries = entries
  BY <1>1 DEF RunRow
<1> HIDE DEF row
<1>9. /\ run'[k].state = old.state /\ run'[k].total = me.total /\ run'[k].page = page
      /\ run'[k].seen = seen /\ run'[k].entries = entries
  BY <1>7, <1>8
<1>10. PICK next \in ScannerState :
         IsFiniteSet(next.item) /\ scanner' = [scanner EXCEPT ![s] = next]
  <2> DEFINE complete == [me EXCEPT !.pc = "complete"]
             list == [me EXCEPT !.pc = "list", !.next = me.next + 1]
  <2>1. complete \in ScannerState /\ list \in ScannerState
    BY <1>1, <1>6, ScanStepTypes, Zenon
  <2>2. complete.item = me.item /\ list.item = me.item
    BY <1>1 DEF ScannerState
  <2>3. scanner' = [scanner EXCEPT ![s] = complete]
        \/ scanner' = [scanner EXCEPT ![s] = list]
    BY DEF Writes
  <2> QED BY <1>1, <2>1, <2>2, <2>3
<1>11. ScanTypeOK' /\ PagesAreFinite'
  <2>1. counts' \in Counts
    BY DEF Writes, ScanInv, ScanTypeOK, Counts
  <2>2. UNCHANGED <<remote, ledger, events, guard, edited>>
    BY DEF Writes
  <2> QED BY <1>6, <1>7, <1>10, <2>1, <2>2, ScanTypes DEF ScanInv
<1>12. \A j \in Keys \ {k} : run'[j] = run[j]
  BY <1>7 DEF ScanInv, ScanTypeOK
<1> QED BY <1>2, <1>6, <1>9, <1>11, <1>12 DEF page, seen, entries

\* What is written of an unchanged directory is so, and is counted right.
LEMMA WrittenIsTrue ==
  ASSUME ScanInv, NEW s \in Scanners, NEW k \in Keys, Writes(s, k),
         Steady(k), NEW p \in Nat, p = scanner[s].next
  PROVE  /\ RunIsTrue(k)' /\ Kept(k) /\ run'[k].total = Total
         /\ PagesHeld(k, p)' /\ ListedAt(p) \subseteq Held(k)'
         /\ scanner[s].item = {} => run'[k].seen = run[k].seen
<1> DEFINE me == scanner[s]
           old == run[k]
           c == Cardinality(Items(p))
<1>1. /\ me.item = Items(p) /\ me.total = Total /\ p # 0 /\ PagesHeld(k, p - 1)
      /\ me.item = {} \/ me.seen = old.seen
  BY DEF Writes, ScanInv, ScannersAreTrue, ScannerOk, ScannerIsTrue
<1>2. /\ run'[k].state = old.state /\ run'[k].total = Total
      /\ run'[k].page = Differs(me.page, p, old.page)
      /\ run'[k].seen = Differs(me.seen, me.seen + c, old.seen)
      /\ run'[k].entries = Entered(old.entries, Items(p))
  BY <1>1, WrittenTypes
<1>3. RunIsTrue(k) /\ RunOk(k)
  BY DEF ScanInv, RunsAreTrue, RunOk
<1>4. /\ c \in Nat /\ me.seen \in Nat /\ old.seen \in Nat
      /\ Items(p) = {} => c = 0
  BY Listings, FS_EmptySet DEF ScanInv, ScanTypeOK, ScannerState, RunRow
<1>5. ~Holds(k, Items(p))
  BY <1>1 DEF Writes
<1> DEFINE entries == run'[k].entries
<1>6. /\ \A o \in Objects :
           entries[o] = IF o \in ListedAt(p) THEN remote[o] ELSE old.entries[o]
      /\ {o \in Objects : entries[o] # NotListed} = Held(k) \cup ListedAt(p)
      /\ Cardinality(Held(k) \cup ListedAt(p)) = Cardinality(Held(k)) + c
      /\ old.entries = remote => entries = remote
  BY <1>2, <1>5, PageEnters
<1>7. Held(k)' = Held(k) \cup ListedAt(p)
  BY <1>6 DEF Held
<1>8. run'[k].seen = old.seen + c /\ (me.item = {} => run'[k].seen = old.seen)
  BY <1>1, <1>2, <1>4 DEF Differs
<1>9. /\ Total' = Total /\ \A q : ListedAt(q)' = ListedAt(q)
      /\ remote' = remote
  BY DirectoryStays DEF Writes
<1>10. \A q : PagesHeld(k, q) => PagesHeld(k, q)'
  BY <1>7, <1>9 DEF PagesHeld
<1>11. PagesHeld(k, p)'
  <2>1. \A q \in 1..(p - 1) : ListedAt(q) \subseteq Held(k)
    BY <1>1 DEF PagesHeld
  <2>2. \A q \in 1..p : q \in 1..(p - 1) \/ q = p
    OBVIOUS
  <2> QED BY <1>7, <1>9, <2>1, <2>2 DEF PagesHeld
<1>12. PagesHeld(k, run[k].page)'
  <2>1. PICK q \in {p, old.page} : q = run'[k].page
    BY <1>2 DEF Differs
  <2>2. PagesHeld(k, q)'
    BY <1>3, <1>10, <1>11, <2>1 DEF RunIsTrue
  <2> QED BY <2>1, <2>2 DEF PagesHeld
<1>13. \A o \in Held(k)' : entries[o] = remote[o]
  BY <1>3, <1>6, <1>7 DEF RunIsTrue, Held
<1>14. run'[k].seen = Cardinality(Held(k)')
  BY <1>3, <1>6, <1>7, <1>8 DEF RunIsTrue
<1>15. run'[k].state = "completed" => entries = remote
  BY <1>2, <1>3, <1>6 DEF RunIsTrue
<1>16. RunIsTrue(k)'
  BY <1>2, <1>9, <1>12, <1>13, <1>14, <1>15 DEF RunIsTrue
<1>17. Kept(k)
  BY <1>2, <1>6, <1>7 DEF Kept, Existing
<1> QED BY <1>2, <1>7, <1>8, <1>11, <1>16, <1>17

\* Another scan that is about to write has the same page in hand, or one that
\* was there before.
LEMMA OthersStillFit ==
  ASSUME ScanInv, NEW s \in Scanners, NEW k \in Keys, Writes(s, k),
         NEW t \in Scanners \ {s}, scanner[t].pc = "write", Steady(scanner[t].key)
  PROVE  StillFits(t)
<1>k. PICK j \in Keys : j = scanner[t].key
  BY DEF Steady
<1>i. /\ scanner[t].item = {} \/ Holds(j, scanner[t].item)
           \/ scanner[t].seen = run[j].seen
      /\ scanner[t].item = Items(scanner[t].next)
      /\ PagesHeld(j, scanner[t].next - 1) /\ scanner[t].next # 0
  BY <1>k DEF ScanInv, ScannersAreTrue, ScannerOk, ScannerIsTrue
<1>1. CASE j # k
  <2>1. run'[j] = run[j]
    BY <1>1, WrittenTypes
  <2> QED BY <1>i, <1>k, <2>1 DEF StillFits, Holds
<1>2. CASE j = k
  <2>p. PICK p, q \in Nat : p = scanner[s].next /\ q = scanner[t].next
    BY DEF ScanInv, ScanTypeOK, ScannerState
  <2>0. /\ scanner[t].item = Items(q) /\ q # 0 /\ PagesHeld(k, q - 1)
        /\ Steady(k)
    BY <1>2, <1>i, <1>k, <2>p
  <2>1. /\ scanner[s].item = Items(p) /\ p # 0 /\ PagesHeld(k, p - 1)
        /\ ~Holds(k, Items(p))
    BY <2>0, <2>p DEF Writes, ScanInv, ScannersAreTrue, ScannerOk, ScannerIsTrue
  <2>2. /\ Held(k) \subseteq Held(k)' /\ ListedAt(p) \subseteq Held(k)'
        /\ scanner[s].item = {} => run'[k].seen = run[k].seen
    BY <2>0, <2>p, WrittenIsTrue DEF Kept
  <2>3. ASSUME Items(q) # {}, ListedAt(q) \subseteq Held(k)' PROVE StillFits(t)
    <3>1. PICK o \in ListedAt(q) : <<o, remote[o]>> \in Items(q)
      BY <2>3 DEF Items
    <3>2. run'[k].entries[o] # NotListed
      BY <2>3, <3>1 DEF Held
    <3> QED BY <1>2, <1>k, <2>0, <3>1, <3>2 DEF StillFits
  <2>4. CASE Items(q) = {}
    BY <2>0, <2>4 DEF StillFits
  <2>5. CASE q < p /\ Items(q) # {}
    <3>1. q \in 1..(p - 1)
      BY <2>0, <2>5
    <3> QED BY <2>1, <2>2, <2>3, <2>5, <3>1 DEF PagesHeld
  <2>6. CASE p = q /\ Items(q) # {}
    BY <2>2, <2>3, <2>6
  <2>7. CASE p < q /\ Items(q) # {}
    <3>1. p \in 1..(q - 1)
      BY <2>1, <2>7
    <3>2. ListedAt(p) \subseteq Held(k)
      BY <2>0, <3>1 DEF PagesHeld
    <3>3. Items(p) = {}
      BY <2>1, <3>2 DEF Items, Held, Holds
    <3>4. run'[k].seen = run[k].seen
      BY <2>1, <2>2, <3>3
    <3>5. \A o \in Objects : run[k].entries[o] # NotListed => run'[k].entries[o] # NotListed
      BY <2>2 DEF Held
    <3>6. Items(q) \in SUBSET (Objects \X Versions)
      BY Listings DEF ScanInv
    <3>7. Holds(k, Items(q)) => \E e \in Items(q) : run'[k].entries[e[1]] # NotListed
      BY <3>5, <3>6 DEF Holds
    <3> QED BY <1>2, <1>i, <1>k, <2>0, <3>4, <3>7 DEF StillFits
  <2> QED BY <2>4, <2>5, <2>6, <2>7
<1> QED BY <1>1, <1>2

\* It writes the page, with the columns that differ from what it has loaded.
LEMMA WritePageKeeps ==
  ASSUME ScanInv, NEW s \in Scanners, WritePage(s)
  PROVE  ScanInv'
<1>p. PICK k \in Keys : k = scanner[s].key /\ Existing(k)
  BY DEF WritePage, Existing, ScanInv, ScannersAreTrue, ScannerOk
<1>q. PICK p \in Nat : p = scanner[s].next
  BY DEF ScanInv, ScanTypeOK, ScannerState
<1>1. CASE FallBack(s, "failed") /\ UNCHANGED run
  <2>1. UNCHANGED <<remote, run, ledger, events, guard, counts, edited>>
        /\ counts \in Counts
    BY <1>1 DEF WritePage, OnlyRun, ScanInv, ScanTypeOK, Counts
  <2>2. Existing(k)'
    BY <1>p, <2>1 DEF Existing
  <2>3. PICK next \in ScannerState :
          /\ IsFiniteSet(next.item) /\ scanner' = [scanner EXCEPT ![s] = next]
          /\ ScannerOk(s)'
    BY <1>p, <1>1, <2>2, Leaving
  <2> QED BY <2>1, <2>3, QuietStep
<1>2. CASE Writes(s, k)
  <2>0. UNCHANGED <<remote, edited, guard>> /\ scanner[s] \in ScannerState
    BY <1>2 DEF Writes, ScanInv, ScanTypeOK
  <2>1. /\ ScanTypeOK' /\ PagesAreFinite'
        /\ run'[k].state = run[k].state /\ \A j \in Keys \ {k} : run'[j] = run[j]
        /\ run'[k].total = scanner[s].total
    BY <1>2, WrittenTypes
  <2>2. Existing(k)'
    BY <1>p, <2>1 DEF Existing
  <2>3. \A j \in Keys : Kept(j)
    <3> SUFFICES ASSUME NEW j \in Keys PROVE Kept(j)
      OBVIOUS
    <3>1. CASE j # k
      <4>1. run'[j] = run[j]
        BY <2>1, <3>1
      <4> QED BY <4>1, SameIsKept DEF SameSnapshot, Existing
    <3>2. CASE j = k /\ Steady(k)
      BY <1>2, <1>q, <3>2, WrittenIsTrue
    <3>3. CASE j = k /\ ~Steady(k)
      BY <2>2, <3>3 DEF Kept
    <3> QED BY <3>1, <3>2, <3>3
  <2>4. RunsAreTrue'
    <3> SUFFICES ASSUME NEW j \in Keys PROVE RunOk(j)'
      BY DEF RunsAreTrue
    <3>1. CASE j # k
      <4>1. run'[j] = run[j]
        BY <2>1, <3>1
      <4>2. RunOk(j)
        BY DEF ScanInv, RunsAreTrue
      <4>3. SameSnapshot(j) /\ (run[j].state = "completed" /\ Steady(j)
                                  => run[j].entries = remote)
        BY <4>1, <4>2 DEF SameSnapshot, RunOk, RunIsTrue
      <4> QED BY <2>0, <4>1, <4>2, <4>3, SameRunStays
    <3>2. CASE j = k
      <4>1. run'[j].state # "absent"
        BY <2>2, <3>2 DEF Existing
      <4>2. Steady(k)' => RunIsTrue(k)'
        BY <1>2, <1>q, <2>0, WrittenIsTrue DEF Steady
      <4> QED BY <3>2, <4>1, <4>2 DEF RunOk
    <3> QED BY <3>1, <3>2
  <2>5. ASSUME NEW t \in Scanners \ {s} PROVE ScannerOk(t)'
    <3>1. scanner'[t] = scanner[t] /\ ScannerOk(t)
      BY <1>2 DEF Writes, ScanInv, ScanTypeOK, ScannersAreTrue
    <3>2. scanner[t].pc = "write" /\ Steady(scanner[t].key) => StillFits(t)
      BY <1>2, OthersStillFit
    <3> QED BY <2>0, <2>3, <3>1, <3>2, ScannerStays DEF ScanInv
  <2>6. ScannerOk(s)'
    <3>1. /\ scanner'[s].key = k /\ scanner'[s].total = scanner[s].total
          /\ \/ scanner'[s].pc = "complete"
             \/ scanner'[s].pc = "list" /\ scanner'[s].next = p + 1
      BY <1>2, <1>q, <2>0 DEF Writes, ScannerState, ScanInv, ScanTypeOK
    <3>2. Total' = Total /\ (Steady(k)' <=> Steady(k))
      BY <2>0, DirectoryStays DEF Steady
    <3>3. ASSUME Steady(k)
          PROVE  scanner[s].total = Total /\ run'[k].total = Total /\ PagesHeld(k, p)'
      BY <1>2, <1>q, <2>1, <3>3, WrittenIsTrue
    <3>4. scanner'[s].pc = "list" => scanner'[s].next - 1 = p /\ scanner'[s].next # 0
      BY <3>1
    <3> QED BY <2>2, <3>1, <3>2, <3>3, <3>4 DEF ScannerOk, ScannerIsTrue
  <2>7. GuardsAreTrue' /\ AllowedMeansAbsent'
    BY <2>0, <2>3, GuardsStay DEF ScanInv
  <2> QED BY <2>1, <2>4, <2>5, <2>6, <2>7 DEF ScanInv, ScannersAreTrue
<1>3. \/ FallBack(s, "failed") /\ UNCHANGED run
      \/ Writes(s, k)
  <2>1. CASE Holds(k, scanner[s].item)
    BY <1>p, <2>1 DEF WritePage
  <2>2. CASE ~Holds(k, scanner[s].item)
    <3>1. /\ run' = [run EXCEPT ![k] = WrittenRow(scanner[s], run[k])]
          /\ scanner[s].pc = "write"
          /\ UNCHANGED <<remote, ledger, events, guard, counts, edited>>
      BY <1>p, <2>2 DEF WritePage, Update, WrittenRow, Entered, OnlyRun
    <3>2. scanner' = [scanner EXCEPT ![s] =
            IF scanner[s].terminal THEN [scanner[s] EXCEPT !.pc = "complete"]
            ELSE [scanner[s] EXCEPT !.pc = "list", !.next = @ + 1]]
      BY <1>p, <2>2 DEF WritePage, Continue
    <3> QED BY <1>p, <2>2, <3>1, <3>2 DEF Writes
  <2> QED BY <2>1, <2>2
<1> QED BY <1>1, <1>2, <1>3

-----------------------------------------------------------------------------
(***************************************************************************)
(* The other steps.                                                        *)
(***************************************************************************)
GuardState == [pc : {"idle", "entries", "answered"}, object : Objects,
               key : Keys \cup {NoKey}, code : Code]

\* A step of a check that leaves its own record true.
LEMMA GuardStep ==
  ASSUME ScanInv, NEW g \in Guards, NEW next \in GuardState,
         guard' = [guard EXCEPT ![g] = next],
         UNCHANGED <<remote, run, ledger, events, scanner, edited>>,
         counts' \in Counts, GuardOk(g)',
         next.code = "inventory_not_found" /\ next.key \notin edited =>
           remote[next.object] = NotListed
  PROVE  ScanInv'
<1>1. guard' \in [Guards -> GuardState] /\ guard'[g] = next
      /\ \A h \in Guards \ {g} : guard'[h] = guard[h]
  BY DEF ScanInv, ScanTypeOK, GuardState
<1>2. ScanTypeOK' /\ PagesAreFinite'
  BY <1>1 DEF ScanInv, ScanTypeOK, PagesAreFinite, GuardState, Counts
<1>3. RunsAreTrue'
  <2> SUFFICES ASSUME NEW k \in Keys PROVE RunOk(k)'
    BY DEF RunsAreTrue
  <2> QED BY SameRunStays DEF SameSnapshot, ScanInv, RunsAreTrue, RunOk, RunIsTrue
<1>4. ScannersAreTrue'
  <2> SUFFICES ASSUME NEW s \in Scanners PROVE ScannerOk(s)'
    BY DEF ScannersAreTrue
  <2>1. \A k \in Keys : Kept(k)
    BY SameIsKept DEF SameSnapshot, Existing
  <2>2. scanner[s].pc = "write" /\ Steady(scanner[s].key) => StillFits(s)
    BY DEF ScanInv, ScannersAreTrue, ScannerOk, ScannerIsTrue, StillFits, Holds, Steady
  <2> QED BY <2>1, <2>2, ScannerStays DEF ScanInv, ScannersAreTrue
<1>5. GuardsAreTrue'
  <2> SUFFICES ASSUME NEW h \in Guards \ {g} PROVE GuardOk(h)'
    BY DEF GuardsAreTrue
  <2> QED BY <1>1 DEF ScanInv, GuardsAreTrue, GuardOk, Existing, Steady
<1>6. AllowedMeansAbsent'
  BY <1>1 DEF ScanInv, AllowedMeansAbsent
<1> QED BY <1>2, <1>3, <1>4, <1>5, <1>6 DEF ScanInv

\* A guard asks whether the newest run is complete.
LEMMA CheckKeeps ==
  ASSUME ScanInv, NEW g \in Guards, NEW o \in Objects, Check(g, o)
  PROVE  ScanInv'
<1>1. /\ UNCHANGED <<remote, run, ledger, events, scanner, edited>>
      /\ counts' \in Counts
  BY CountsTypes DEF Check, ScanInv
<1>2. NotAsking \in GuardState
  BY Rows DEF NotAsking, GuardState, Code
<1>3. CASE guard' = [guard EXCEPT ![g] = [NotAsking EXCEPT
             !.pc = "answered", !.object = o, !.code = "inventory_index_incomplete"]]
  <2> DEFINE next == [NotAsking EXCEPT
             !.pc = "answered", !.object = o, !.code = "inventory_index_incomplete"]
  <2>1. /\ next \in GuardState /\ next.pc = "answered"
        /\ next.code = "inventory_index_incomplete"
    BY <1>2 DEF NotAsking, GuardState, Code
  <2> HIDE DEF next
  <2>2. guard' = [guard EXCEPT ![g] = next] /\ guard'[g] = next
    BY <1>3 DEF ScanInv, ScanTypeOK, next
  <2>3. GuardOk(g)'
    BY <2>1, <2>2 DEF GuardOk
  <2> QED BY <1>1, <2>1, <2>2, <2>3, GuardStep
<1>4. ASSUME NEW k \in LatestRun, Completed(k),
             guard' = [guard EXCEPT ![g] = [NotAsking EXCEPT
               !.pc = "entries", !.object = o, !.key = k]]
      PROVE  ScanInv'
  <2> DEFINE next == [NotAsking EXCEPT !.pc = "entries", !.object = o, !.key = k]
  <2>1. k \in Keys /\ Existing(k)
    BY DEF LatestRun, Existing
  <2>2. /\ next \in GuardState /\ next.pc = "entries" /\ next.key = k
        /\ next.code = "none"
    BY <1>2, <2>1 DEF NotAsking, GuardState, Code
  <2> HIDE DEF next
  <2>3. guard' = [guard EXCEPT ![g] = next] /\ guard'[g] = next
    BY <1>4 DEF ScanInv, ScanTypeOK, next
  <2>4. Steady(k) => run[k].entries = remote
    BY <1>4, <2>1 DEF ScanInv, RunsAreTrue, RunOk, RunIsTrue, Completed
  <2>5. GuardOk(g)'
    BY <1>1, <2>1, <2>2, <2>3, <2>4 DEF GuardOk, Existing, Steady
  <2> QED BY <1>1, <2>2, <2>3, <2>5, GuardStep
<1> QED BY <1>3, <1>4 DEF Check

\* It looks for the object in the entries of that run.
LEMMA ReadEntriesKeeps ==
  ASSUME ScanInv, NEW g \in Guards, ReadEntries(g)
  PROVE  ScanInv'
<1>1. /\ guard[g].pc = "entries" /\ guard[g] \in GuardState /\ counts' \in Counts
      /\ UNCHANGED <<remote, run, ledger, events, scanner, counts, edited>>
  BY DEF ReadEntries, ScanInv, ScanTypeOK, GuardState, Counts
<1>2. PICK k \in Keys, o \in Objects :
        k = guard[g].key /\ o = guard[g].object /\ Existing(k)
  BY <1>1 DEF ScanInv, GuardsAreTrue, GuardOk, Existing, GuardState
<1>3. PICK code \in Code :
        /\ Reply(g, code)
        /\ code = "inventory_not_found" => run[k].entries[o] = NotListed
  BY <1>2 DEF ReadEntries, Code
<1> DEFINE next == [guard[g] EXCEPT !.pc = "answered", !.code = code]
<1>4. guard' = [guard EXCEPT ![g] = next]
  BY <1>3 DEF Reply
<1>5. /\ next \in GuardState /\ next.pc = "answered" /\ next.code = code
      /\ next.key = k /\ next.object = o
  BY <1>1, <1>2 DEF GuardState
<1> HIDE DEF next
<1>6. guard'[g] = next
  BY <1>4 DEF ScanInv, ScanTypeOK
<1>7. GuardOk(g)'
  BY <1>1, <1>2, <1>5, <1>6 DEF GuardOk, Existing
<1>8. k \notin edited => run[k].entries = remote
  BY <1>1, <1>2 DEF ScanInv, GuardsAreTrue, GuardOk, Steady
<1> QED BY <1>1, <1>3, <1>4, <1>5, <1>7, <1>8, GuardStep

\* The answer of the guard is used.
LEMMA PushKeeps ==
  ASSUME ScanInv, NEW g \in Guards, Push(g)
  PROVE  ScanInv'
<1>1. NotAsking \in GuardState /\ NotAsking.code = "none" /\ NotAsking.pc = "idle"
  BY Rows DEF NotAsking, GuardState, Code
<1>2. guard' = [guard EXCEPT ![g] = NotAsking] /\ guard'[g] = NotAsking
      /\ UNCHANGED <<remote, run, ledger, events, scanner, counts, edited>>
      /\ counts' \in Counts
  BY DEF Push, ScanInv, ScanTypeOK, Counts
<1>3. GuardOk(g)'
  BY <1>1, <1>2 DEF GuardOk
<1> QED BY <1>1, <1>2, <1>3, GuardStep

\* When the directory changes, nothing is steady but the runs that do not exist
\* yet, and those know nothing of it.
LEMMA EditKeeps ==
  ASSUME ScanInv, NEW o \in Objects, NEW version \in Shown,
         Edit(o, version)
  PROVE  ScanInv'
<1>1. /\ remote' = [remote EXCEPT ![o] = version]
      /\ UNCHANGED <<run, ledger, events, scanner, guard>>
      /\ counts' \in Counts
  BY CountsTypes DEF Edit, ScanInv
<1>2. edited' = edited \cup {k \in Keys : run[k].state # "absent"}
  BY DEF Edit
<1>3. ScanTypeOK' /\ PagesAreFinite'
  <2>1. remote' \in [Objects -> Shown] /\ edited' \subseteq Keys
    BY <1>1, <1>2 DEF ScanInv, ScanTypeOK
  <2> QED BY <1>1, <2>1 DEF ScanInv, ScanTypeOK, PagesAreFinite, Counts
<1>4. \A k \in Keys : Steady(k)' => run'[k].state = "absent"
  BY <1>1, <1>2 DEF Steady
<1>5. \A k \in Keys : Existing(k) => k \in edited'
  BY <1>2 DEF Existing
<1>6. RunsAreTrue'
  <2> SUFFICES ASSUME NEW k \in Keys PROVE RunOk(k)'
    BY DEF RunsAreTrue
  <2>1. RunOk(k)
    BY DEF ScanInv, RunsAreTrue
  <2>2. CASE run[k].state # "absent"
    BY <1>1, <1>4, <2>2 DEF RunOk
  <2>3. CASE run[k].state = "absent"
    <3>1. run'[k] = NoRun
      BY <1>1, <2>1, <2>3 DEF RunOk
    <3>2. /\ NoRun.state # "completed" /\ NoRun.seen = 0 /\ NoRun.page = 0
          /\ NoRun.total = NoTotal /\ \A x \in Objects : NoRun.entries[x] = NotListed
      BY DEF NoRun, NoEntries
    <3>3. Held(k)' = {}
      BY <3>1, <3>2 DEF Held
    <3>4. PagesHeld(k, run[k].page)'
      BY <1>1, <3>1, <3>2 DEF PagesHeld
    <3> QED BY <1>1, <3>1, <3>2, <3>3, <3>4, FS_EmptySet DEF RunOk, RunIsTrue
  <2> QED BY <2>2, <2>3
<1>7. ScannersAreTrue'
  <2> SUFFICES ASSUME NEW s \in Scanners PROVE ScannerOk(s)'
    BY DEF ScannersAreTrue
  <2>1. ScannerOk(s)
    BY DEF ScanInv, ScannersAreTrue
  <2> QED BY <1>1, <1>4, <1>5, <2>1 DEF ScannerOk, ScannerIsTrue, Existing, Steady
<1>8. GuardsAreTrue' /\ AllowedMeansAbsent'
  <2> SUFFICES ASSUME NEW g \in Guards
               PROVE  /\ GuardOk(g)'
                      /\ guard[g].code = "inventory_not_found" => guard[g].key \in edited'
    BY <1>1 DEF GuardsAreTrue, AllowedMeansAbsent
  <2>1. GuardOk(g)
    BY DEF ScanInv, GuardsAreTrue
  <2>2. Existing(guard[g].key) => guard[g].key \in edited'
    BY <1>5 DEF Existing
  <2> QED BY <1>1, <2>1, <2>2 DEF GuardOk, Existing, Steady
<1> QED BY <1>3, <1>6, <1>7, <1>8 DEF ScanInv

\* A process that dies takes its scans and checks with it; the rows stay.
LEMMA KillKeeps ==
  ASSUME ScanInv, KillScans
  PROVE  ScanInv'
<1>1. /\ UNCHANGED <<remote, run, ledger, events, edited>> /\ counts' \in Counts
      /\ scanner' = [s \in Scanners |-> IdleScanner]
      /\ guard' = [g \in Guards |-> NotAsking]
  BY CountsTypes DEF KillScans, ScanInv
<1>2. /\ IdleScanner \in ScannerState /\ IdleScanner.item = {} /\ IdleScanner.pc = "idle"
      /\ NotAsking \in GuardState /\ NotAsking.code = "none" /\ NotAsking.pc = "idle"
  BY Rows DEF IdleScanner, NotAsking, GuardState, Code
<1>3. ScanTypeOK' /\ PagesAreFinite'
  BY <1>1, <1>2, FS_EmptySet DEF ScanInv, ScanTypeOK, PagesAreFinite, GuardState, Counts
<1>4. RunsAreTrue'
  <2> SUFFICES ASSUME NEW k \in Keys PROVE RunOk(k)'
    BY DEF RunsAreTrue
  <2> QED BY <1>1, SameRunStays DEF SameSnapshot, ScanInv, RunsAreTrue, RunOk, RunIsTrue
<1>5. ScannersAreTrue'
  BY <1>1, <1>2 DEF ScannersAreTrue, ScannerOk
<1>6. GuardsAreTrue' /\ AllowedMeansAbsent'
  BY <1>1, <1>2 DEF GuardsAreTrue, GuardOk, AllowedMeansAbsent
<1> QED BY <1>3, <1>4, <1>5, <1>6 DEF ScanInv

\* At the start there is no run, and nobody scans or asks.
LEMMA Started == ASSUME ScanInit PROVE ScanInv
<1>1. /\ NoRun \in RunRow /\ IdleScanner \in ScannerState /\ NotAsking \in GuardState
      /\ IdleScanner.item = {} /\ IdleScanner.pc = "idle"
      /\ NotAsking.code = "none" /\ NotAsking.pc = "idle"
  BY Rows DEF IdleScanner, NotAsking, GuardState, Code
<1>2. ScanTypeOK /\ PagesAreFinite
  <2>1. counts \in Counts
    BY ScanAssumption DEF ScanInit, Counts
  <2>2. [status |-> "unknown", version |-> NotListed]
          \in [status : {"unknown", "active", "missing"}, version : Shown]
    BY DEF Shown
  <2> QED BY <1>1, <2>1, <2>2, FS_EmptySet
         DEF ScanInit, ScanTypeOK, PagesAreFinite, GuardState, Counts
<1>3. RunsAreTrue
  <2> SUFFICES ASSUME NEW k \in Keys PROVE RunOk(k)
    BY DEF RunsAreTrue
  <2>1. run[k] = NoRun
    BY DEF ScanInit
  <2>2. /\ NoRun.state # "completed" /\ NoRun.seen = 0 /\ NoRun.page = 0
        /\ NoRun.total = NoTotal /\ \A x \in Objects : NoRun.entries[x] = NotListed
    BY DEF NoRun, NoEntries
  <2>3. Held(k) = {} /\ PagesHeld(k, run[k].page)
    BY <2>1, <2>2 DEF Held, PagesHeld
  <2> QED BY <2>1, <2>2, <2>3, FS_EmptySet DEF RunOk, RunIsTrue
<1>4. ScannersAreTrue /\ GuardsAreTrue /\ AllowedMeansAbsent
  BY <1>1 DEF ScanInit, ScannersAreTrue, ScannerOk, GuardsAreTrue, GuardOk,
              AllowedMeansAbsent
<1> QED BY <1>2, <1>3, <1>4 DEF ScanInv

\* Every step keeps the invariant.
LEMMA EveryStep == ASSUME ScanInv, [ScanStep]_scanVars PROVE ScanInv'
<1>1. ASSUME NEW s \in Scanners, NEW k \in Keys, Lookup(s, k) PROVE ScanInv'
  BY <1>1, LookupKeeps
<1>2. ASSUME NEW s \in Scanners,
             \/ Insert(s) \/ MarkRunning(s) \/ ReadCheckpoint(s) \/ List(s)
             \/ ReadRun(s) \/ WritePage(s) \/ ReadPrevious(s) \/ Finish(s)
             \/ Abort(s) \/ Return(s) \/ CallFails(s) \/ Cancel(s)
      PROVE  ScanInv'
  BY <1>2, InsertKeeps, MarkRunningKeeps, ReadCheckpointKeeps, ScanListKeeps,
     ReadRunKeeps, WritePageKeeps, ReadPreviousKeeps, ScanFinishKeeps, AbortKeeps,
     FaultKeeps
<1>3. ASSUME NEW g \in Guards, NEW o \in Objects, Check(g, o) PROVE ScanInv'
  BY <1>3, CheckKeeps
<1>4. ASSUME NEW g \in Guards, ReadEntries(g) \/ Push(g) PROVE ScanInv'
  BY <1>4, ReadEntriesKeeps, PushKeeps
<1>5. ASSUME NEW o \in Objects, NEW version \in Shown, Edit(o, version) PROVE ScanInv'
  BY <1>5, EditKeeps
<1>6. CASE KillScans
  BY <1>6, KillKeeps
<1>7. CASE UNCHANGED scanVars
  <2>1. \A k \in Keys : RunOk(k)'
    BY <1>7, SameRunStays DEF scanVars, SameSnapshot, ScanInv, RunsAreTrue, RunOk, RunIsTrue
  <2>2. ASSUME NEW s \in Scanners PROVE ScannerOk(s)'
    <3>1. \A k \in Keys : Kept(k)
      BY <1>7, SameIsKept DEF scanVars, SameSnapshot, Existing
    <3>2. scanner[s].pc = "write" /\ Steady(scanner[s].key) => StillFits(s)
      BY <1>7 DEF scanVars, ScanInv, ScannersAreTrue, ScannerOk, ScannerIsTrue,
                  StillFits, Holds, Steady
    <3> QED BY <1>7, <3>1, <3>2, ScannerStays DEF scanVars, ScanInv, ScannersAreTrue
  <2>3. GuardsAreTrue' /\ AllowedMeansAbsent'
    BY <1>7 DEF scanVars, ScanInv, GuardsAreTrue, GuardOk, AllowedMeansAbsent,
                Existing, Steady
  <2>4. ScanTypeOK' /\ PagesAreFinite'
    BY <1>7 DEF scanVars, ScanInv, ScanTypeOK, PagesAreFinite
  <2> QED BY <2>1, <2>2, <2>3, <2>4 DEF ScanInv, RunsAreTrue, ScannersAreTrue
<1> QED BY <1>1, <1>2, <1>3, <1>4, <1>5, <1>6, <1>7 DEF ScanStep

-----------------------------------------------------------------------------
\* What every run, scan and check says of the directory is true as long as the
\* directory has not changed since the run was created, whatever scans of one
\* key do at once, and whenever one is interrupted (library_index.py,
\* inventory_push_guard.py).
THEOREM InvariantHolds == ScanSpec => []ScanInv
<1>1. ScanInit => ScanInv
  BY Started
<1>2. ScanInv /\ [ScanStep]_scanVars => ScanInv'
  BY EveryStep
<1> QED BY <1>1, <1>2, PTL DEF ScanSpec

\* The rows, the ledger, the events and the variables of the scans and checks
\* have their types.
THEOREM ScansAreTyped == ScanSpec => []ScanTypeOK
<1>1. ScanInv => ScanTypeOK
  BY DEF ScanInv
<1> QED BY <1>1, InvariantHolds, PTL

\* A run that is complete holds exactly what the directory holds, if nobody
\* changed the directory since the run was created (scan, _persist_page,
\* _complete_run).
THEOREM SnapshotsAreFaithful ==
  ScanSpec => []CompleteSnapshotIsFaithful
<1>1. ScanInv => CompleteSnapshotIsFaithful
  BY DEF ScanInv, RunsAreTrue, RunOk, RunIsTrue, CompleteSnapshotIsFaithful,
         Completed, Steady
<1> QED BY <1>1, InvariantHolds, PTL

\* A push that the guard lets through is of an object that is not in the
\* library, unless the directory changed since the run that the guard looked
\* at was created (InventoryPushGuard.check).
THEOREM GuardFailsClosed ==
  ScanSpec => []AllowedMeansAbsent
<1>1. ScanInv => AllowedMeansAbsent
  BY DEF ScanInv
<1> QED BY <1>1, InvariantHolds, PTL

(***************************************************************************)
(* Sequences.  An induction over a sequence is a statement about its length: *)
(* if it failed, it would fail for a least length.                         *)
(***************************************************************************)
\* The order of the numbers is well founded, as a relation.
LEMMA LessIsWellFounded ==
  \E R : /\ IsWellFoundedOn(R, Nat)
         /\ \A m, n \in Nat : <<m, n>> \in R => m < n
         /\ \A m, n \in Nat : m < n => <<m, n>> \in R
<1> DEFINE R == OpToRel(<, Nat)
<1>1. IsWellFoundedOn(R, Nat)
  BY NatLessThanWellFounded, Zenon
<1>2. \A m, n \in Nat : <<m, n>> \in R => m < n
  BY DEF OpToRel
<1>3. \A m, n \in Nat : m < n => <<m, n>> \in R
  BY DEF OpToRel
<1> HIDE DEF R
<1> QED BY <1>1, <1>2, <1>3, Zenon

\* Numbers have a least one: what fails for some number fails for a first one.  The
\* inductions over sequences below are on this.
LEMMA LeastIsThere ==
  ASSUME NEW T \in SUBSET Nat, T # {}
  PROVE  \E n \in T : \A m \in T : n <= m
<1>1. PICK R : /\ IsWellFoundedOn(R, Nat)
               /\ \A m, n \in Nat : <<m, n>> \in R => m < n
               /\ \A m, n \in Nat : m < n => <<m, n>> \in R
  BY LessIsWellFounded
<1>2. PICK n \in T : \A m \in T : ~(<<m, n>> \in R)
  <2>1. IsWellFoundedOn(R, Nat) /\ T \subseteq Nat /\ T # {}
    BY <1>1
  <2> QED BY <2>1, WFMin, Zenon
<1>3. ASSUME NEW m \in T PROVE n <= m
  <2>1. m \in Nat /\ n \in Nat
    OBVIOUS
  <2>2. ~(m < n)
    BY <2>1, <1>1, <1>2, Zenon
  <2> QED BY <2>1, <2>2
<1> QED BY <1>3

\* Bounded numbers have a greatest one.
LEMMA GreatestIsThere ==
  ASSUME NEW S \in SUBSET Nat, S # {}, NEW b \in Nat, \A n \in S : n <= b
  PROVE  \E n \in S : \A m \in S : m <= n
<1> DEFINE T == {k \in Nat : \E n \in S : n + k = b}
<1>1. T # {}
  <2>1. PICK n \in S : TRUE  OBVIOUS
  <2>2. b - n \in Nat /\ n + (b - n) = b
    BY <2>1
  <2> QED BY <2>2
<1>2. PICK k \in T : \A m \in T : k <= m
  BY <1>1, LeastIsThere
<1>3. PICK n \in S : n + k = b
  OBVIOUS
<1>4. ASSUME NEW m \in S PROVE m <= n
  <2>1. b - m \in Nat /\ m + (b - m) = b
    OBVIOUS
  <2>2. b - m \in T
    BY <2>1
  <2> QED BY <2>2, <1>2, <1>3
<1> QED BY <1>3, <1>4

\* The sequence from which FlattenSeq takes the last element.
Flattening(g, ss, n) == g = [i \in 1..n |-> IF i = 1 THEN ss[i] ELSE g[i - 1] \o ss[i]]

\* There is such a sequence, of every length.
LEMMA FlatteningExists ==
  ASSUME NEW ss, NEW n \in Nat
  PROVE  \E g : Flattening(g, ss, n)
<1> DEFINE Bad == {k \in Nat : ~\E g : Flattening(g, ss, k)}
<1> SUFFICES ASSUME Bad # {} PROVE FALSE
  OBVIOUS
<1>1. PICK k \in Bad : \A m \in Bad : k <= m
  BY LeastIsThere
<1>2. k # 0
  <2>1. Flattening([i \in 1..0 |-> ss], ss, 0)
    BY DEF Flattening
  <2> QED BY <2>1
<1>3. k - 1 \in Nat /\ k - 1 \notin Bad
  BY <1>1, <1>2
<1>4. PICK g : Flattening(g, ss, k - 1)
  BY <1>3
<1> DEFINE h == [i \in 1..k |-> IF i = 1 THEN ss[i] ELSE g[i - 1] \o ss[i]]
<1>5. \A i \in 1..k - 1 : h[i] = g[i]
  <2> TAKE i \in 1..k - 1
  <2>1. i \in 1..k
    BY <1>3
  <2>2. h[i] = IF i = 1 THEN ss[i] ELSE g[i - 1] \o ss[i]
    BY <2>1
  <2>3. g[i] = IF i = 1 THEN ss[i] ELSE g[i - 1] \o ss[i]
    BY <1>4 DEF Flattening
  <2> QED BY <2>2, <2>3
<1>6. \A i \in 1..k : i # 1 => h[i - 1] = g[i - 1]
  <2> HIDE DEF h
  <2> TAKE i \in 1..k
  <2> HAVE i # 1
  <2>1. i - 1 \in 1..k - 1
    BY <1>3
  <2> QED BY <2>1, <1>5
<1> DEFINE hh == [i \in 1..k |-> IF i = 1 THEN ss[i] ELSE h[i - 1] \o ss[i]]
<1>7. h = hh
  BY <1>6
<1>8. Flattening(h, ss, k)
  BY <1>7 DEF Flattening
<1> QED BY <1>8, <1>1

\* FlattenSeq is its last element.
LEMMA FlattenUnfolded ==
  ASSUME NEW S, NEW ss \in Seq(Seq(S)), ss # <<>>
  PROVE  \E g : Flattening(g, ss, Len(ss)) /\ FlattenSeq(ss) = g[Len(ss)]
<1>1. Len(ss) \in Nat /\ Len(ss) # 0
  OBVIOUS
<1> DEFINE g == CHOOSE f : Flattening(f, ss, Len(ss))
<1>2. Flattening(g, ss, Len(ss))
  BY <1>1, FlatteningExists
<1>3. FlattenSeq(ss) = g[Len(ss)]
  BY <1>1 DEF FlattenSeq, Flattening
<1> QED BY <1>2, <1>3

\* Its elements are sequences.
LEMMA FlatteningTyped ==
  ASSUME NEW S, NEW ss \in Seq(Seq(S)), NEW g, NEW n \in 0..Len(ss), Flattening(g, ss, n)
  PROVE  \A i \in 1..n : g[i] \in Seq(S)
<1> DEFINE Bad == {i \in 1..n : g[i] \notin Seq(S)}
<1> SUFFICES ASSUME Bad # {} PROVE FALSE
  OBVIOUS
<1>1. Bad \in SUBSET Nat /\ n \in Nat /\ n <= Len(ss)
  OBVIOUS
<1>2. PICK k \in Bad : \A m \in Bad : k <= m
  BY <1>1, LeastIsThere
<1>3. k \in 1..n /\ ss[k] \in Seq(S)
  BY <1>1, ElementOfSeq
<1>4. g[k] = IF k = 1 THEN ss[k] ELSE g[k - 1] \o ss[k]
  BY <1>3 DEF Flattening
<1>5. k # 1
  BY <1>3, <1>4
<1>6. g[k - 1] \in Seq(S)
  <2>1. k - 1 \in 1..n /\ ~(k <= k - 1)
    BY <1>3, <1>5
  <2> QED BY <2>1, <1>2
<1>7. g[k] \in Seq(S)
  BY <1>3, <1>4, <1>5, <1>6, ConcatProperties
<1> QED BY <1>7

\* It depends on the sequences up to an element only.
LEMMA FlatteningsAgree ==
  ASSUME NEW ss, NEW tt, NEW g, NEW h, NEW m \in Nat, NEW n \in Nat, m <= n,
         Flattening(g, ss, m), Flattening(h, tt, n), \A i \in 1..m : ss[i] = tt[i]
  PROVE  \A i \in 1..m : g[i] = h[i]
<1> DEFINE Bad == {i \in 1..m : g[i] # h[i]}
<1> SUFFICES ASSUME Bad # {} PROVE FALSE
  OBVIOUS
<1>1. Bad \in SUBSET Nat
  OBVIOUS
<1>2. PICK k \in Bad : \A j \in Bad : k <= j
  BY <1>1, LeastIsThere
<1>3. k \in 1..m /\ k \in 1..n /\ ss[k] = tt[k]
  OBVIOUS
<1>4. /\ g[k] = IF k = 1 THEN ss[k] ELSE g[k - 1] \o ss[k]
      /\ h[k] = IF k = 1 THEN tt[k] ELSE h[k - 1] \o tt[k]
  BY <1>3 DEF Flattening
<1>5. k # 1 => g[k - 1] = h[k - 1]
  <2>1. k # 1 => k - 1 \in 1..m /\ ~(k <= k - 1)
    BY <1>3
  <2> QED BY <2>1, <1>2
<1> QED BY <1>3, <1>4, <1>5

\* FlattenSeq of nothing.
LEMMA FlattenEmpty == FlattenSeq(<<>>) = <<>>
BY DEF FlattenSeq

\* Its type.
LEMMA FlattenTyped ==
  ASSUME NEW S, NEW ss \in Seq(Seq(S))
  PROVE  FlattenSeq(ss) \in Seq(S)
<1>1. CASE ss = <<>>
  <2>1. FlattenSeq(ss) = <<>>
    BY <1>1, FlattenEmpty, Zenon
  <2> QED BY <2>1, EmptySeq, Zenon
<1>2. CASE ss # <<>>
  <2>1. Len(ss) \in Nat /\ Len(ss) \in 1..Len(ss) /\ Len(ss) \in 0..Len(ss)
    BY <1>2
  <2>2. PICK g : Flattening(g, ss, Len(ss)) /\ FlattenSeq(ss) = g[Len(ss)]
    BY <1>2, FlattenUnfolded
  <2> QED BY <2>1, <2>2, FlatteningTyped
<1> QED BY <1>1, <1>2

\* Its value for one more sequence, which comes last.
LEMMA FlattenAppend ==
  ASSUME NEW S, NEW ss \in Seq(Seq(S)), NEW s \in Seq(S)
  PROVE  FlattenSeq(Append(ss, s)) = FlattenSeq(ss) \o s
<1> DEFINE tt == Append(ss, s)
           n == Len(ss)
<1>1. /\ n \in Nat /\ n + 1 \in Nat /\ n <= n + 1
      /\ tt \in Seq(Seq(S)) /\ tt # <<>> /\ Len(tt) = n + 1
      /\ \A i \in 1..n : ss[i] = tt[i]
      /\ tt[n + 1] = s
  BY AppendProperties
<1>2. PICK h : Flattening(h, tt, n + 1) /\ FlattenSeq(tt) = h[n + 1]
  <2>1. \E h : Flattening(h, tt, Len(tt)) /\ FlattenSeq(tt) = h[Len(tt)]
    BY <1>1, FlattenUnfolded
  <2> HIDE DEF tt, n
  <2> QED BY <1>1, <2>1
<1> HIDE DEF tt
<1>3. h[n + 1] = IF n + 1 = 1 THEN s ELSE h[n] \o s
  <2>1. n + 1 \in 1..n + 1 /\ (n + 1) - 1 = n
    BY <1>1
  <2>2. h[n + 1] = IF n + 1 = 1 THEN tt[n + 1] ELSE h[(n + 1) - 1] \o tt[n + 1]
    BY <1>2, <2>1 DEF Flattening
  <2> QED BY <1>1, <2>1, <2>2
<1>4. CASE ss = <<>>
  <2>1. n + 1 = 1
    BY <1>4
  <2>2. FlattenSeq(ss) \o s = s
    BY <1>4, FlattenEmpty, ConcatEmptySeq
  <2>3. FlattenSeq(tt) = s
    BY <1>2, <1>3, <2>1
  <2> QED BY <2>2, <2>3 DEF tt
<1>5. CASE ss # <<>>
  <2>1. n # 0 /\ n \in 1..n
    BY <1>5, EmptySeq
  <2>2. PICK g : Flattening(g, ss, n) /\ FlattenSeq(ss) = g[n]
    BY <1>5, FlattenUnfolded
  <2>3. g[n] = h[n]
    <3> HIDE DEF n
    <3>1. n \in Nat /\ n + 1 \in Nat /\ n <= n + 1 /\ \A i \in 1..n : ss[i] = tt[i]
      BY <1>1
    <3>2. Flattening(g, ss, n) /\ Flattening(h, tt, n + 1)
      BY <1>2, <2>2
    <3>3. \A i \in 1..n : g[i] = h[i]
      BY <3>1, <3>2, FlatteningsAgree
    <3> QED BY <2>1, <3>3
  <2>4. FlattenSeq(tt) = h[n] \o s
    BY <1>1, <1>2, <1>3, <2>1
  <2> QED BY <2>2, <2>3, <2>4 DEF tt
<1> QED BY <1>4, <1>5

\* Where the provers know more sequences than they need, associativity is used
\* under a name of its own.
Joined(a, b) == a \o b

LEMMA JoinedAssociative ==
  ASSUME NEW S, NEW a \in Seq(S), NEW b \in Seq(S), NEW c \in Seq(S)
  PROVE  Joined(Joined(a, b), c) = Joined(a, Joined(b, c))
BY ConcatAssociative DEF Joined

\* Its value for more sequences.
LEMMA FlattenConcat ==
  ASSUME NEW S, NEW ss \in Seq(Seq(S)), NEW tt \in Seq(Seq(S))
  PROVE  FlattenSeq(ss \o tt) = FlattenSeq(ss) \o FlattenSeq(tt)
<1> DEFINE Bad == {k \in Nat : \E uu \in Seq(Seq(S)) :
                     Len(uu) = k /\ FlattenSeq(ss \o uu) # FlattenSeq(ss) \o FlattenSeq(uu)}
<1> SUFFICES ASSUME Bad # {} PROVE FALSE
  <2>1. Len(tt) \in Nat
    OBVIOUS
  <2> QED BY <2>1
<1>1. PICK k \in Bad : \A m \in Bad : k <= m
  BY LeastIsThere
<1>2. PICK uu \in Seq(Seq(S)) :
         Len(uu) = k /\ FlattenSeq(ss \o uu) # FlattenSeq(ss) \o FlattenSeq(uu)
  OBVIOUS
<1>a. \A m \in Nat : m \notin Bad =>
        \A xx \in Seq(Seq(S)) :
          Len(xx) = m => FlattenSeq(ss \o xx) = FlattenSeq(ss) \o FlattenSeq(xx)
  OBVIOUS
<1>b. k \in Nat
  OBVIOUS
<1> HIDE DEF Bad
<1>3. FlattenSeq(ss) \in Seq(S)
  BY FlattenTyped
<1>4. uu # <<>>
  <2> SUFFICES ASSUME uu = <<>> PROVE FALSE
    OBVIOUS
  <2>1. ss \o uu = ss /\ FlattenSeq(uu) = <<>>
    BY FlattenEmpty, ConcatEmptySeq
  <2>2. FlattenSeq(ss) \o <<>> = FlattenSeq(ss)
    BY <1>3, ConcatEmptySeq
  <2> QED BY <1>2, <2>1, <2>2
<1>5. PICK vv \in Seq(Seq(S)), v \in Seq(S) : uu = Append(vv, v)
  BY <1>4, SequenceEmptyOrAppend
<1>6. Len(vv) \in Nat /\ k = Len(vv) + 1
  BY <1>2, <1>5, <1>b, AppendProperties
<1>7. FlattenSeq(ss \o vv) = FlattenSeq(ss) \o FlattenSeq(vv)
  <2>1. Len(vv) \notin Bad
    BY <1>1, <1>6
  <2> QED BY <1>6, <1>a, <2>1
<1>8. ss \o uu = Append(ss \o vv, v) /\ ss \o vv \in Seq(Seq(S))
  <2>1. ss \o vv \in Seq(Seq(S))
    BY ConcatProperties
  <2>2. Append(ss \o vv, v) = (ss \o vv) \o <<v>> /\ uu = vv \o <<v>>
    <3> DEFINE SS == Seq(S)
    <3>1. v \in SS /\ vv \in Seq(SS) /\ ss \o vv \in Seq(SS)
      BY <2>1
    <3> HIDE DEF SS
    <3> QED BY <3>1, <1>5, AppendIsConcat
  <2>3. (ss \o vv) \o <<v>> = ss \o (vv \o <<v>>)
    <3> DEFINE SS == Seq(S)
    <3>1. v \in SS /\ vv \in Seq(SS) /\ ss \in Seq(SS)
      OBVIOUS
    <3> HIDE DEF SS
    <3> DEFINE q == <<v>>
    <3>2. q \in Seq(SS)
      BY <3>1
    <3> HIDE DEF q
    <3>3. Joined(Joined(ss, vv), q) = Joined(ss, Joined(vv, q))
      BY <3>1, <3>2, JoinedAssociative
    <3> QED BY <3>3 DEF q, Joined
  <2> QED BY <2>1, <2>2, <2>3
<1>9. FlattenSeq(ss \o uu) = (FlattenSeq(ss) \o FlattenSeq(vv)) \o v
  BY <1>7, <1>8, FlattenAppend
<1>10. FlattenSeq(uu) = FlattenSeq(vv) \o v /\ FlattenSeq(vv) \in Seq(S)
  BY <1>5, FlattenAppend, FlattenTyped
<1>11. (FlattenSeq(ss) \o FlattenSeq(vv)) \o v = FlattenSeq(ss) \o (FlattenSeq(vv) \o v)
  <2> DEFINE a == FlattenSeq(ss)
             b == FlattenSeq(vv)
  <2>1. a \in Seq(S) /\ b \in Seq(S) /\ v \in Seq(S)
    BY <1>3, <1>10
  <2> HIDE DEF a, b
  <2>2. Joined(Joined(a, b), v) = Joined(a, Joined(b, v))
    BY <2>1, JoinedAssociative
  <2> QED BY <2>2 DEF a, b, Joined
<1> QED BY <1>2, <1>9, <1>10, <1>11

\* Nothing is chosen from nothing.
LEMMA ChosenEmpty == ASSUME NEW W PROVE Chosen(<<>>, W) = <<>>
<1>1. [i \in DOMAIN <<>> |-> IF <<>>[i] \in W THEN << <<>>[i] >> ELSE <<>>] = <<>>
  OBVIOUS
<1> QED BY <1>1, FlattenEmpty DEF Chosen

\* After one more element, that element may be chosen too.
LEMMA ChosenAppend ==
  ASSUME NEW S, NEW s \in Seq(S), NEW x \in S, NEW W
  PROVE  Chosen(Append(s, x), W) = Chosen(s, W) \o (IF x \in W THEN <<x>> ELSE <<>>)
<1> DEFINE Parts(t) == [i \in DOMAIN t |-> IF t[i] \in W THEN <<t[i]>> ELSE <<>>]
           last == IF x \in W THEN <<x>> ELSE <<>>
           n == Len(s)
           t == Append(s, x)
<1>1. n \in Nat /\ DOMAIN s = 1..n /\ t \in Seq(S) /\ Len(t) = n + 1 /\ DOMAIN t = 1..n + 1
      /\ (\A i \in 1..n : t[i] = s[i] /\ s[i] \in S) /\ t[n + 1] = x
  BY AppendProperties
<1>2. \A y \in S : <<y>> \in Seq(S) /\ <<>> \in Seq(S)
  OBVIOUS
<1>3. Parts(s) \in Seq(Seq(S)) /\ Len(Parts(s)) = n /\ last \in Seq(S)
  <2>1. \A i \in 1..n : (IF s[i] \in W THEN <<s[i]>> ELSE <<>>) \in Seq(S)
    BY <1>1, <1>2
  <2>2. Parts(s) \in [1..n -> Seq(S)]
    BY <1>1, <2>1
  <2>3. last \in Seq(S)
    BY <1>2
  <2> HIDE DEF Parts, last, n
  <2>4. Parts(s) \in Seq(Seq(S))
    BY <1>1, <2>2
  <2>5. Len(Parts(s)) = n
    BY <1>1, <2>2, <2>4, LenProperties
  <2> QED BY <2>3, <2>4, <2>5
<1>4. Parts(t) = Append(Parts(s), last)
  <2>1. Append(Parts(s), last) \in Seq(Seq(S)) /\ Len(Append(Parts(s), last)) = n + 1
        /\ (\A i \in 1..n : Append(Parts(s), last)[i] = Parts(s)[i])
        /\ Append(Parts(s), last)[n + 1] = last
    <3> HIDE DEF Parts, last, n
    <3> QED BY <1>3, AppendProperties
  <2>2. DOMAIN Append(Parts(s), last) = 1..n + 1
    <3> HIDE DEF Parts, last, n
    <3> QED BY <2>1, LenProperties
  <2>3. \A i \in 1..n : Parts(t)[i] = Parts(s)[i]
    BY <1>1
  <2>4. Parts(t)[n + 1] = last
    BY <1>1
  <2>5. Parts(t) = [i \in 1..n + 1 |-> Parts(t)[i]]
    BY <1>1
  <2>6. Append(Parts(s), last) = [i \in 1..n + 1 |-> Append(Parts(s), last)[i]]
    <3> HIDE DEF Parts, last, n
    <3>1. Append(Parts(s), last) \in [1..n + 1 -> Seq(S)]
      BY <2>1, LenProperties
    <3> QED BY <3>1
  <2>7. \A i \in 1..n + 1 : Parts(t)[i] = Append(Parts(s), last)[i]
    <3> TAKE i \in 1..n + 1
    <3>1. i \in 1..n \/ i = n + 1
      BY <1>1
    <3> HIDE DEF Parts, last, n, t
    <3> QED BY <3>1, <2>1, <2>3, <2>4
  <2> HIDE DEF Parts, last, n, t
  <2> QED BY <2>5, <2>6, <2>7
<1>5. Chosen(t, W) = FlattenSeq(Parts(t)) /\ Chosen(s, W) = FlattenSeq(Parts(s))
  BY DEF Chosen
<1> HIDE DEF Parts, last, n, t
<1>6. FlattenSeq(Append(Parts(s), last)) = FlattenSeq(Parts(s)) \o last
  BY <1>3, FlattenAppend
<1>7. Chosen(t, W) = Chosen(s, W) \o last
  BY <1>4, <1>5, <1>6
<1> QED BY <1>7 DEF last, t

\* c is what s has of W, in the same order: f says where.
Picks(f, c, s, W) ==
  /\ f \in [1..Len(c) -> 1..Len(s)]
  /\ \A i \in 1..Len(c) : c[i] = s[f[i]] /\ c[i] \in W
  /\ \A i, j \in 1..Len(c) : i < j => f[i] < f[j]
  /\ \A k \in 1..Len(s) : s[k] \in W => \E i \in 1..Len(c) : f[i] = k

\* Chosen picks what is wanted, in order, and nothing else.
LEMMA ChosenPicks ==
  ASSUME NEW S, NEW s \in Seq(S), NEW W
  PROVE  /\ Chosen(s, W) \in Seq(S)
         /\ \E f : Picks(f, Chosen(s, W), s, W)
<1> DEFINE Right(t) == Chosen(t, W) \in Seq(S) /\ \E f : Picks(f, Chosen(t, W), t, W)
           Bad == {k \in Nat : \E t \in Seq(S) : Len(t) = k /\ ~Right(t)}
<1> SUFFICES ASSUME Bad # {} PROVE FALSE
  <2>1. Len(s) \in Nat
    OBVIOUS
  <2> QED BY <2>1
<1>1. PICK k \in Bad : \A m \in Bad : k <= m
  BY LeastIsThere
<1>2. PICK t \in Seq(S) : Len(t) = k /\ ~Right(t)
  OBVIOUS
<1>3. \A m \in Nat : m \notin Bad => \A u \in Seq(S) : Len(u) = m => Right(u)
  OBVIOUS
<1>4. k \in Nat
  OBVIOUS
<1> HIDE DEF Bad
<1>5. t # <<>>
  <2> SUFFICES ASSUME t = <<>> PROVE FALSE
    OBVIOUS
  <2>1. Chosen(t, W) = <<>>
    BY ChosenEmpty
  <2>2. Picks(<<>>, <<>>, <<>>, W)
    BY DEF Picks
  <2>3. Right(t)
    BY <2>1, <2>2
  <2> QED BY <2>3, <1>2
<1>6. PICK u \in Seq(S), x \in S : t = Append(u, x)
  BY <1>5, SequenceEmptyOrAppend
<1> DEFINE n == Len(u)
           c == Chosen(u, W)
<1>7. /\ n \in Nat /\ k = n + 1 /\ Len(t) = n + 1 /\ t[n + 1] = x
      /\ \A i \in 1..n : t[i] = u[i]
  BY <1>2, <1>4, <1>6, AppendProperties
<1>8. Right(u)
  <2>1. n \notin Bad
    BY <1>1, <1>7
  <2> QED BY <1>3, <1>7, <2>1
<1>9. c \in Seq(S) /\ Chosen(t, W) = c \o (IF x \in W THEN <<x>> ELSE <<>>)
  BY <1>6, <1>8, ChosenAppend
<1>10. PICK f : Picks(f, c, u, W)
  BY <1>8
<1> HIDE DEF c, n
<1>11. CASE x \notin W
  <2>1. Chosen(t, W) = c
    BY <1>9, <1>11, ConcatEmptySeq
  <2>2. /\ f \in [1..Len(c) -> 1..n]
        /\ \A i \in 1..Len(c) : c[i] = u[f[i]] /\ c[i] \in W
        /\ \A i, j \in 1..Len(c) : i < j => f[i] < f[j]
        /\ \A l \in 1..n : u[l] \in W => \E i \in 1..Len(c) : f[i] = l
    BY <1>10 DEF Picks, n
  <2>3. f \in [1..Len(c) -> 1..n + 1]
    BY <1>7, <2>2
  <2>4. \A i \in 1..Len(c) : c[i] = t[f[i]] /\ c[i] \in W
    BY <1>7, <2>2
  <2>5. \A l \in 1..n + 1 : t[l] \in W => \E i \in 1..Len(c) : f[i] = l
    <3> TAKE l \in 1..n + 1
    <3> HAVE t[l] \in W
    <3>1. l # n + 1
      BY <1>7, <1>11
    <3>2. l \in 1..n /\ u[l] \in W
      BY <3>1, <1>7
    <3> QED BY <3>2, <2>2
  <2>6. Picks(f, c, t, W)
    BY <1>7, <2>2, <2>3, <2>4, <2>5 DEF Picks
  <2> QED BY <1>2, <1>9, <2>1, <2>6
<1>12. CASE x \in W
  <2> DEFINE d == Chosen(t, W)
             m == Len(c)
             g == [i \in 1..m + 1 |-> IF i <= m THEN f[i] ELSE n + 1]
  <2>1. m \in Nat /\ d = Append(c, x)
    BY <1>9, <1>12, AppendIsConcat
  <2>2. /\ d \in Seq(S) /\ Len(d) = m + 1 /\ d[m + 1] = x
        /\ \A i \in 1..m : d[i] = c[i]
    BY <1>9, <2>1, AppendProperties
  <2>3. /\ f \in [1..m -> 1..n]
        /\ \A i \in 1..m : c[i] = u[f[i]] /\ c[i] \in W
        /\ \A i, j \in 1..m : i < j => f[i] < f[j]
        /\ \A l \in 1..n : u[l] \in W => \E i \in 1..m : f[i] = l
    BY <1>10 DEF Picks, n
  <2> HIDE DEF d, m
  <2>4. g \in [1..m + 1 -> 1..n + 1]
    BY <1>7, <2>1, <2>3
  <2>5. \A i \in 1..m + 1 : d[i] = t[g[i]] /\ d[i] \in W
    <3> TAKE i \in 1..m + 1
    <3>1. CASE i = m + 1
      BY <3>1, <1>7, <1>12, <2>1, <2>2
    <3>2. CASE i # m + 1
      <4>1. i \in 1..m /\ g[i] = f[i] /\ f[i] \in 1..n
        BY <3>2, <2>1, <2>3
      <4>2. d[i] = c[i] /\ c[i] = u[f[i]] /\ c[i] \in W
        BY <4>1, <2>2, <2>3
      <4>3. t[f[i]] = u[f[i]]
        BY <4>1, <1>7
      <4> QED BY <4>1, <4>2, <4>3, Zenon
    <3> QED BY <3>1, <3>2
  <2>6. \A i, j \in 1..m + 1 : i < j => g[i] < g[j]
    BY <1>7, <2>1, <2>3
  <2>7. \A l \in 1..n + 1 : t[l] \in W => \E i \in 1..m + 1 : g[i] = l
    <3> TAKE l \in 1..n + 1
    <3> HAVE t[l] \in W
    <3>1. CASE l = n + 1
      <4>1. m + 1 \in 1..m + 1 /\ g[m + 1] = n + 1
        BY <2>1
      <4> QED BY <4>1, <3>1
    <3>2. CASE l # n + 1
      <4>1. l \in 1..n /\ u[l] \in W
        BY <3>2, <1>7
      <4>2. PICK i \in 1..m : f[i] = l
        BY <4>1, <2>3
      <4>3. i \in 1..m + 1 /\ g[i] = f[i]
        BY <2>1
      <4> QED BY <4>2, <4>3
    <3> QED BY <3>1, <3>2
  <2> HIDE DEF g
  <2>8. Picks(g, d, t, W)
    BY <1>7, <2>2, <2>4, <2>5, <2>6, <2>7 DEF Picks
  <2> QED BY <1>2, <2>2, <2>8 DEF d
<1> QED BY <1>11, <1>12

(***************************************************************************)
(* The log.  What a client has not been shown yet is in front of its cursor, *)
(* because the numbers of the lines that can be read rise through the files. *)
(***************************************************************************)
\* The bounds of the log are numbers, and a page has room for a record.
LEMMA LogNumbers ==
  /\ MaxRecords \in Nat /\ MaxCrashes \in Nat /\ Limits \subseteq Nat \ {0}
BY PartsAssumption

\* The log uses the operators of the library.
LEMMA LogOperators ==
  ASSUME NEW s
  PROVE  /\ Log!FlattenSeq(s) = FlattenSeq(s) /\ Log!ToSet(s) = ToSet(s)
         /\ Log!Last(s) = Last(s) /\ Log!Front(s) = Front(s)
         /\ Log!Reverse(s) = Reverse(s) /\ Log!Max(s) = Max(s)
BY DEF Log!FlattenSeq, FlattenSeq, Log!ToSet, ToSet, Log!Last, Last, Log!Front, Front,
       Log!Reverse, Reverse, Log!Max, Max

\* Its choice of lines is the one that the lemmas above are about.
LEMMA LogChoice ==
  ASSUME NEW s, NEW W PROVE Log!Chosen(s, W) = Chosen(s, W)
BY LogOperators DEF Log!Chosen, Chosen

\* Of the lines that can be read, later ones have larger numbers.
Rising(lines) ==
  \A i, j \in 1..Len(lines) :
    i < j /\ lines[i].readable /\ lines[j].readable => lines[i].id < lines[j].id
Below(lines, n) == \A i \in 1..Len(lines) : lines[i].readable => lines[i].id < n

LinesAreNumbered ==
  /\ Rising(Log!AllLines) /\ Below(Log!AllLines, appended + 1)
  /\ nextId # 0 => Below(Log!AllLines, nextId)

LogTypes ==
  /\ files \in Seq(Seq(Log!Lines)) /\ files # <<>>
  /\ nextId \in 0..appended + 1
  /\ appended \in 0..MaxRecords /\ crashes \in 0..MaxCrashes
  /\ reader \in [cursor : 0..MaxRecords + 1, shown : Seq(Nat),
                 expected : SUBSET (1..MaxRecords + 1), done : BOOLEAN]

Falling(ids) == \A i \in 1..Len(ids) - 1 : ids[i] > ids[i + 1]

\* What the client has not been shown is in front of its cursor.
ReaderFollows ==
  /\ Falling(reader.shown)
  /\ reader.cursor = 0 /\ ~reader.done => reader.shown = <<>> /\ reader.expected = {}
  /\ reader.cursor # 0 =>
       reader.shown # <<>> /\ reader.shown[Len(reader.shown)] = reader.cursor
  /\ reader.done => reader.expected \subseteq ToSet(reader.shown)
  /\ ~reader.done /\ reader.cursor # 0 =>
       \A x \in reader.expected :
         \/ x \in ToSet(reader.shown)
         \/ \E l \in ToSet(Log!AllLines) :
              l.readable /\ l.matches /\ l.id = x /\ x < reader.cursor

LogInv == LogTypes /\ LinesAreNumbered /\ ReaderFollows

\* All lines are lines.
LEMMA LinesTyped ==
  ASSUME LogTypes
  PROVE  Log!AllLines \in Seq(Log!Lines)
BY FlattenTyped, LogOperators DEF LogTypes, Log!AllLines

\* The number of a new record is above those of all the lines that can be read.
LEMMA NewIdIsNew ==
  ASSUME LogTypes, LinesAreNumbered
  PROVE  /\ Log!NewId \in 1..appended + 1
         /\ Below(Log!AllLines, Log!NewId)
<1>1. Log!AllLines \in Seq(Log!Lines) /\ Len(Log!AllLines) \in Nat
  BY LinesTyped
<1>t. nextId \in Nat /\ appended \in Nat /\ nextId <= appended + 1
  BY LogNumbers DEF LogTypes
<1>2. CASE nextId # 0
  BY <1>t, <1>2 DEF Log!NewId, LinesAreNumbered
<1>3. CASE nextId = 0
  <2> DEFINE Ids0 == {0} \cup {line.id : line \in {l \in ToSet(Log!AllLines) : l.readable}}
  <2>1. \A i \in 1..Len(Log!AllLines) : Log!AllLines[i] \in Log!Lines /\ Log!AllLines[i].id \in Nat
    <3> TAKE i \in 1..Len(Log!AllLines)
    <3>1. Log!AllLines[i] \in Log!Lines
      BY <1>1, ElementOfSeq
    <3> QED BY <3>1, LogNumbers DEF Log!Lines
  <2>2. \A x \in Ids0 : x \in Nat /\ x <= appended
    <3> TAKE x \in Ids0
    <3>1. CASE x = 0
      BY <3>1, <1>t
    <3>2. CASE x # 0
      <4>1. PICK l \in ToSet(Log!AllLines) : l.readable /\ x = l.id
        BY <3>2
      <4>2. PICK i \in 1..Len(Log!AllLines) : l = Log!AllLines[i]
        BY <1>1 DEF ToSet
      <4> QED BY <1>t, <2>1, <4>1, <4>2 DEF LinesAreNumbered, Below
    <3> QED BY <3>1, <3>2
  <2>3. \A i \in 1..Len(Log!AllLines) : Log!AllLines[i].readable => Log!AllLines[i].id \in Ids0
    BY <1>1 DEF ToSet
  <2>4. 0 \in Ids0
    OBVIOUS
  <2>5. Log!LatestId = Max(Ids0)
    BY LogOperators DEF Log!LatestId
  <2> HIDE DEF Ids0
  <2>6. \E x \in Ids0 : \A y \in Ids0 : x >= y
    <3>1. \E x \in Ids0 : \A y \in Ids0 : y <= x
      BY <1>t, <2>2, <2>4, GreatestIsThere
    <3> QED BY <3>1, <2>2
  <2>7. Log!LatestId \in Ids0 /\ \A y \in Ids0 : Log!LatestId >= y
    BY <2>5, <2>6 DEF Max
  <2>8. Log!NewId = Log!LatestId + 1
    BY <1>3 DEF Log!NewId
  <2>9. Log!NewId \in 1..appended + 1
    BY <1>t, <2>2, <2>7, <2>8
  <2>10. Below(Log!AllLines, Log!NewId)
    BY <2>1, <2>2, <2>3, <2>7, <2>8 DEF Below
  <2> QED BY <2>9, <2>10
<1> QED BY <1>2, <1>3

\* What was there, but for a line that has become unreadable, and a new line.
Grown(lines, more, line) ==
  \/ more = lines
  \/ more = Append(lines, line)
  \/ /\ lines # <<>> /\ Len(more) = Len(lines)
     /\ \A i \in 1..Len(lines) - 1 : more[i] = lines[i]
     /\ ~more[Len(lines)].readable

\* The lines are those of the rotated files, and then those of the current one.
LEMMA SplitFiles ==
  ASSUME LogTypes
  PROVE  /\ Front(files) \in Seq(Seq(Log!Lines)) /\ Log!Current \in Seq(Log!Lines)
         /\ files = Append(Front(files), Log!Current)
         /\ Log!AllLines = FlattenSeq(Front(files)) \o Log!Current
         /\ FlattenSeq(Front(files)) \in Seq(Log!Lines)
<1> DEFINE n == Len(files)
           F == Front(files)
           C == Log!Current
<1>1. files \in Seq(Seq(Log!Lines)) /\ n \in Nat \ {0}
  BY EmptySeq DEF LogTypes
<1>2. \A i \in 1..n : files[i] \in Seq(Log!Lines)
  BY <1>1, ElementOfSeq
<1>3. F \in Seq(Seq(Log!Lines)) /\ Len(F) = n - 1 /\ \A i \in 1..n - 1 : F[i] = files[i]
  <2>1. F = SubSeq(files, 1, n - 1)
    BY DEF Front
  <2> HIDE DEF F, n
  <2>2. /\ SubSeq(files, 1, n - 1) \in Seq(Seq(Log!Lines))
        /\ Len(SubSeq(files, 1, n - 1)) = IF 1 <= n - 1 THEN (n - 1) - 1 + 1 ELSE 0
        /\ \A i \in 1..(n - 1) - 1 + 1 : SubSeq(files, 1, n - 1)[i] = files[1 + i - 1]
    BY <1>1, <1>2, SubSeqProperties
  <2> QED BY <1>1, <2>1, <2>2
<1>4. C \in Seq(Log!Lines) /\ C = files[n]
  BY <1>1, <1>2, LogOperators DEF Log!Current, Last
<1> HIDE DEF F, C
<1>5. files = Append(F, C)
  <2>1. /\ Append(F, C) \in Seq(Seq(Log!Lines)) /\ Len(Append(F, C)) = n
        /\ \A i \in 1..n - 1 : Append(F, C)[i] = F[i]
        /\ Append(F, C)[n] = C
    <3> HIDE DEF n
    <3> QED BY <1>1, <1>3, <1>4, AppendProperties
  <2>2. \A i \in 1..n : files[i] = Append(F, C)[i]
    <3> HIDE DEF n
    <3> QED BY <1>1, <1>3, <1>4, <2>1
  <2> HIDE DEF n
  <2>3. Len(files) = n
    BY DEF n
  <2> QED BY <1>1, <2>1, <2>2, <2>3, SeqEqual
<1>6. FlattenSeq(files) = FlattenSeq(F) \o C
  BY <1>3, <1>4, <1>5, FlattenAppend
<1>7. FlattenSeq(F) \in Seq(Log!Lines)
  BY <1>3, FlattenTyped
<1> QED BY <1>3, <1>4, <1>5, <1>6, <1>7, LogOperators DEF F, C, Log!AllLines

\* A write behind what a file has adds a line, or loses it with the last one.
LEMMA WrittenGrows ==
  ASSUME NEW lines \in Seq(Log!Lines), NEW line \in Log!Lines, NEW before \in Seq(Log!Lines)
  PROVE  /\ Log!Written(lines, line) \in Seq(Log!Lines)
         /\ Grown(before \o lines, before \o Log!Written(lines, line), line)
<1>1. CASE lines # <<>> /\ ~Last(lines).ended
  <2> DEFINE n == Len(lines)
             x == [Last(lines) EXCEPT !.readable = FALSE, !.ended = line.ended]
             w == Append(Front(lines), x)
             m == Len(before)
  <2>1. n \in Nat \ {0} /\ Last(lines) = lines[n] /\ lines[n] \in Log!Lines /\ m \in Nat
    BY <1>1, EmptySeq, ElementOfSeq DEF Last
  <2>2. x \in Log!Lines /\ ~x.readable
    BY <2>1 DEF Log!Lines
  <2>3. /\ Front(lines) \in Seq(Log!Lines) /\ Len(Front(lines)) = n - 1
        /\ \A i \in 1..n - 1 : Front(lines)[i] = lines[i]
    <3>1. \A i \in 1..n - 1 : lines[i] \in Log!Lines
      BY <2>1, ElementOfSeq
    <3>2. /\ SubSeq(lines, 1, n - 1) \in Seq(Log!Lines)
          /\ Len(SubSeq(lines, 1, n - 1)) = IF 1 <= n - 1 THEN (n - 1) - 1 + 1 ELSE 0
          /\ \A i \in 1..(n - 1) - 1 + 1 : SubSeq(lines, 1, n - 1)[i] = lines[1 + i - 1]
      <4> HIDE DEF n
      <4> QED BY <2>1, <3>1, SubSeqProperties
    <3>3. Front(lines) = SubSeq(lines, 1, n - 1)
      BY DEF Front
    <3> HIDE DEF n
    <3> QED BY <2>1, <3>2, <3>3
  <2>4. Log!Written(lines, line) = w
    BY <1>1, LogOperators DEF Log!Written
  <2> HIDE DEF x
  <2>5. /\ w \in Seq(Log!Lines) /\ Len(w) = n
        /\ \A i \in 1..n - 1 : w[i] = lines[i]
        /\ w[n] = x
    <3> HIDE DEF n
    <3>1. /\ w \in Seq(Log!Lines) /\ Len(w) = n - 1 + 1
          /\ \A i \in 1..n - 1 : w[i] = Front(lines)[i]
          /\ w[n - 1 + 1] = x
      BY <2>2, <2>3, AppendProperties
    <3> QED BY <2>1, <2>3, <3>1
  <2> HIDE DEF w
  <2>6. /\ before \o lines \in Seq(Log!Lines) /\ Len(before \o lines) = m + n
        /\ \A i \in 1..m + n : (before \o lines)[i] = IF i <= m THEN before[i] ELSE lines[i - m]
    BY ConcatProperties
  <2>7. /\ before \o w \in Seq(Log!Lines) /\ Len(before \o w) = m + n
        /\ \A i \in 1..m + n : (before \o w)[i] = IF i <= m THEN before[i] ELSE w[i - m]
    <3>1. /\ before \o w \in Seq(Log!Lines) /\ Len(before \o w) = Len(before) + Len(w)
          /\ \A i \in 1..Len(before) + Len(w) :
               (before \o w)[i] = IF i <= Len(before) THEN before[i] ELSE w[i - Len(before)]
      BY <2>5, ConcatProperties
    <3> QED BY <2>5, <3>1
  <2> HIDE DEF m, n
  <2>8. before \o lines # <<>>
    BY <2>1, <2>6, EmptySeq
  <2>9. \A i \in 1..m + n - 1 : (before \o w)[i] = (before \o lines)[i]
    <3> TAKE i \in 1..m + n - 1
    <3>1. i \in 1..m + n /\ (~(i <= m) => i - m \in 1..n - 1)
      BY <2>1
    <3> QED BY <3>1, <2>5, <2>6, <2>7
  <2>10. ~(before \o w)[m + n].readable
    <3>1. m + n \in 1..m + n /\ ~(m + n <= m) /\ (m + n) - m = n
      BY <2>1
    <3>2. (before \o w)[m + n] = x
      BY <3>1, <2>5, <2>7
    <3> QED BY <3>2, <2>2
  <2>11. Grown(before \o lines, before \o w, line)
    <3> DEFINE P == before \o lines
               Q == before \o w
    <3>1. P # <<>> /\ Len(P) = m + n /\ Len(Q) = m + n /\ ~Q[m + n].readable
          /\ \A i \in 1..m + n - 1 : Q[i] = P[i]
      BY <2>6, <2>7, <2>8, <2>9, <2>10
    <3> HIDE DEF P, Q
    <3>2. Len(P) - 1 = m + (n - 1)
      <4>1. Len(P) = m + n
        BY <3>1, Zenon
      <4> QED BY <2>1, <4>1
    <3>3. \A i \in 1..Len(P) - 1 : Q[i] = P[i]
      BY <3>1, <3>2, Zenon
    <3>4. P # <<>> /\ Len(Q) = Len(P) /\ ~Q[Len(P)].readable
      BY <3>1, Zenon
    <3>5. Grown(P, Q, line)
      BY <3>3, <3>4, Zenon DEF Grown
    <3> QED BY <3>5 DEF P, Q
  <2> QED BY <2>4, <2>5, <2>11
<1>2. CASE ~(lines # <<>> /\ ~Last(lines).ended)
  <2>1. Log!Written(lines, line) = Append(lines, line)
    BY <1>2, LogOperators DEF Log!Written
  <2>2. Append(lines, line) \in Seq(Log!Lines)
    BY AppendProperties
  <2>3. Append(lines, line) = lines \o <<line>>
      /\ <<line>> \in Seq(Log!Lines)
    BY AppendIsConcat
  <2>4. before \o lines \in Seq(Log!Lines)
    BY ConcatProperties
  <2>5. Append(before \o lines, line) = (before \o lines) \o <<line>>
    BY <2>4, AppendIsConcat
  <2>6. (before \o lines) \o <<line>> = before \o (lines \o <<line>>)
    BY <2>3, ConcatAssociative
  <2> QED BY <2>1, <2>2, <2>3, <2>5, <2>6 DEF Grown
<1> QED BY <1>1, <1>2

\* So does a write to the current file, or to a new one.
LEMMA RecordGrows ==
  ASSUME LogTypes, NEW rotated \in BOOLEAN, NEW line \in Log!Lines
  PROVE  /\ Log!WithRecord(rotated, line) \in Seq(Seq(Log!Lines))
         /\ Log!WithRecord(rotated, line) # <<>>
         /\ Grown(Log!AllLines, FlattenSeq(Log!WithRecord(rotated, line)), line)
<1>1. files \in Seq(Seq(Log!Lines)) /\ Log!AllLines \in Seq(Log!Lines)
      /\ <<line>> \in Seq(Log!Lines)
  BY LinesTyped DEF LogTypes
<1>2. CASE rotated
  <2>1. Log!WithRecord(rotated, line) = Append(files, <<line>>)
    BY <1>2, LogOperators DEF Log!WithRecord
  <2>2. FlattenSeq(Append(files, <<line>>)) = Log!AllLines \o <<line>>
    BY <1>1, FlattenAppend, LogOperators DEF Log!AllLines
  <2>3. Log!AllLines \o <<line>> = Append(Log!AllLines, line)
    BY <1>1, AppendIsConcat
  <2>4. Append(files, <<line>>) \in Seq(Seq(Log!Lines)) /\ Append(files, <<line>>) # <<>>
    <3> DEFINE SS == Seq(Log!Lines)
               w == <<line>>
    <3>1. files \in Seq(SS) /\ w \in SS
      BY <1>1
    <3> HIDE DEF SS, w
    <3>2. Append(files, w) \in Seq(SS) /\ Append(files, w) # <<>>
      BY <3>1, AppendProperties
    <3> QED BY <3>2 DEF SS, w
  <2> QED BY <2>1, <2>2, <2>3, <2>4 DEF Grown
<1>3. CASE ~rotated
  <2> DEFINE F == Front(files)
             w == Log!Written(Log!Current, line)
  <2>1. Log!WithRecord(rotated, line) = Append(F, w)
    BY <1>3, LogOperators DEF Log!WithRecord
  <2>2. /\ F \in Seq(Seq(Log!Lines)) /\ Log!Current \in Seq(Log!Lines)
        /\ Log!AllLines = FlattenSeq(F) \o Log!Current
        /\ FlattenSeq(F) \in Seq(Log!Lines)
    BY SplitFiles
  <2>3. w \in Seq(Log!Lines) /\ Grown(FlattenSeq(F) \o Log!Current, FlattenSeq(F) \o w, line)
    BY <2>2, WrittenGrows
  <2> HIDE DEF F, w
  <2>4. FlattenSeq(Append(F, w)) = FlattenSeq(F) \o w
    BY <2>2, <2>3, FlattenAppend
  <2>5. Append(F, w) \in Seq(Seq(Log!Lines)) /\ Append(F, w) # <<>>
    <3> DEFINE SS == Seq(Log!Lines)
    <3>1. F \in Seq(SS) /\ w \in SS
      BY <2>2, <2>3
    <3> HIDE DEF SS
    <3>2. Append(F, w) \in Seq(SS) /\ Append(F, w) # <<>>
      BY <3>1, AppendProperties
    <3> QED BY <3>2 DEF SS
  <2> QED BY <2>1, <2>2, <2>3, <2>4, <2>5
<1> QED BY <1>2, <1>3

\* What is left of the lines at the end of a step: a line that can be read was there
\* before or is the new one.
Carried(lines, more, line) ==
  \A i \in 1..Len(more) : more[i].readable => more[i] \in ToSet(lines) \/ more[i] = line

\* Then the lines that can be read still rise, and are old or the new one.
LEMMA GrownIsCarried ==
  ASSUME NEW lines \in Seq(Log!Lines), NEW more \in Seq(Log!Lines), NEW line \in Log!Lines,
         Rising(lines), Below(lines, line.id), Grown(lines, more, line)
  PROVE  Rising(more) /\ Carried(lines, more, line)
<1> DEFINE n == Len(lines)
<1>1. n \in Nat /\ DOMAIN lines = 1..n /\ line.id \in Nat
  BY LogNumbers DEF Log!Lines
<1>2. \A i \in 1..n : lines[i] \in ToSet(lines)
  BY <1>1 DEF ToSet
<1>3. CASE more = lines
  BY <1>1, <1>2, <1>3 DEF Carried
<1>4. CASE more = Append(lines, line)
  <2>1. /\ Len(more) = n + 1 /\ more[n + 1] = line
        /\ \A i \in 1..n : more[i] = lines[i]
    BY <1>4, AppendProperties
  <2> HIDE DEF n
  <2>2. Rising(more)
    <3> SUFFICES ASSUME NEW i \in 1..n + 1, NEW j \in 1..n + 1, i < j,
                        more[i].readable, more[j].readable
                 PROVE  more[i].id < more[j].id
      BY <2>1 DEF Rising
    <3>1. i \in 1..n /\ more[i] = lines[i]
      BY <1>1, <2>1
    <3>2. CASE j = n + 1
      BY <2>1, <3>1, <3>2 DEF Below, n
    <3>3. CASE j # n + 1
      <4>1. j \in 1..n /\ more[j] = lines[j]
        BY <1>1, <2>1, <3>3
      <4> QED BY <3>1, <4>1 DEF Rising, n
    <3> QED BY <3>2, <3>3
  <2>3. Carried(lines, more, line)
    <3> SUFFICES ASSUME NEW i \in 1..n + 1, i # n + 1
                 PROVE  more[i] \in ToSet(lines)
      BY <2>1 DEF Carried
    <3>1. i \in 1..n
      BY <1>1
    <3> QED BY <3>1, <1>2, <2>1
  <2> QED BY <2>2, <2>3
<1>5. CASE /\ lines # <<>> /\ Len(more) = Len(lines)
           /\ \A i \in 1..Len(lines) - 1 : more[i] = lines[i]
           /\ ~more[Len(lines)].readable
  <2>1. n # 0 /\ Len(more) = n /\ ~more[n].readable /\ \A i \in 1..n - 1 : more[i] = lines[i]
    BY <1>5, EmptySeq
  <2> HIDE DEF n
  <2>2. \A i \in 1..n : more[i].readable => i \in 1..n - 1 /\ more[i] = lines[i]
    BY <1>1, <2>1
  <2>3. Rising(more)
    BY <1>1, <2>1, <2>2 DEF Rising, n
  <2>4. Carried(lines, more, line)
    BY <1>1, <1>2, <2>1, <2>2 DEF Carried
  <2> QED BY <2>3, <2>4
<1> QED BY <1>3, <1>4, <1>5 DEF Grown

\* Retention keeps an end of the lines.
LEMMA RetainedIsSuffix ==
  ASSUME NEW all \in Seq(Seq(Log!Lines)), NEW kept \in Log!Retained(all)
  PROVE  /\ kept \in Seq(Seq(Log!Lines)) /\ kept # <<>>
         /\ \E gone \in Seq(Log!Lines) : FlattenSeq(all) = gone \o FlattenSeq(kept)
<1> DEFINE k == Len(all)
           SS == Seq(Log!Lines)
<1>1. PICK n \in 1..k : kept = SubSeq(all, n, k)
  BY DEF Log!Retained
<1>2. k \in Nat /\ all \in Seq(SS)
  OBVIOUS
<1> HIDE DEF k, SS
<1>3. \A i \in 1..k : all[i] \in SS
  BY <1>2, ElementOfSeq DEF k
<1> DEFINE front == SubSeq(all, 1, n - 1)
<1>4. front \in Seq(SS) /\ kept \in Seq(SS) /\ kept # <<>>
  <2>1. front \in Seq(SS)
    BY <1>2, <1>3, SubSeqProperties
  <2>2. kept \in Seq(SS) /\ Len(kept) = k - n + 1
    BY <1>1, <1>2, <1>3, SubSeqProperties
  <2>3. kept # <<>>
    <3> SUFFICES ASSUME kept = <<>> PROVE FALSE
      OBVIOUS
    <3>1. Len(kept) = 0
      BY EmptySeq
    <3> QED BY <3>1, <2>2, <1>2
  <2> QED BY <2>1, <2>2, <2>3
<1>5. front \o kept = all
  <2>1. SubSeq(all, 1, n - 1) \o SubSeq(all, (n - 1) + 1, k) = SubSeq(all, 1, k)
    <3>1. 1 \in 1..Len(all) + 1 /\ n - 1 \in 1 - 1..Len(all) /\ k \in n - 1..Len(all)
      BY <1>2 DEF k
    <3> QED BY <1>2, <3>1, ConcatAdjacentSubSeq
  <2>2. SubSeq(all, 1, k) = all
    BY <1>2, SubSeqFull DEF k
  <2>3. (n - 1) + 1 = n
    BY <1>2
  <2> QED BY <1>1, <2>1, <2>2, <2>3
<1> HIDE DEF front
<1>6. FlattenSeq(all) = FlattenSeq(front) \o FlattenSeq(kept)
  BY <1>4, <1>5, FlattenConcat DEF SS
<1>7. FlattenSeq(front) \in Seq(Log!Lines)
  BY <1>4, FlattenTyped DEF SS
<1> QED BY <1>4, <1>6, <1>7 DEF SS

\* And so they do at the end of the lines.
LEMMA SuffixIsCarried ==
  ASSUME NEW lines \in Seq(Log!Lines), NEW more \in Seq(Log!Lines), NEW line,
         NEW gone \in Seq(Log!Lines), NEW rest \in Seq(Log!Lines), more = gone \o rest,
         Rising(more), Carried(lines, more, line)
  PROVE  Rising(rest) /\ Carried(lines, rest, line)
<1> DEFINE m == Len(gone)
           n == Len(rest)
<1>1. /\ m \in Nat /\ n \in Nat /\ Len(more) = m + n
      /\ \A i \in 1..m + n : more[i] = IF i <= m THEN gone[i] ELSE rest[i - m]
  BY ConcatProperties
<1> HIDE DEF m, n
<1>2. \A i \in 1..n : i + m \in 1..m + n /\ more[i + m] = rest[i]
  <2> TAKE i \in 1..n
  <2>1. i + m \in 1..m + n /\ ~(i + m <= m) /\ (i + m) - m = i
    BY <1>1
  <2> QED BY <1>1, <2>1
<1>3. Rising(rest)
  <2> SUFFICES ASSUME NEW i \in 1..n, NEW j \in 1..n, i < j,
                      rest[i].readable, rest[j].readable
               PROVE  rest[i].id < rest[j].id
    BY DEF Rising, n
  <2>1. i + m < j + m
    BY <1>1
  <2>2. /\ i + m \in 1..Len(more) /\ j + m \in 1..Len(more)
        /\ more[i + m].readable /\ more[j + m].readable
    BY <1>1, <1>2
  <2>3. more[i + m].id < more[j + m].id
    BY <2>1, <2>2 DEF Rising
  <2> QED BY <2>3, <1>2
<1>4. Carried(lines, rest, line)
  BY <1>1, <1>2 DEF Carried, n
<1> QED BY <1>3, <1>4

\* The log begins empty.
LEMMA LogInit == Log!Init => LogInv
<1> SUFFICES ASSUME Log!Init PROVE LogInv
  OBVIOUS
<1>1. files = << <<>> >> /\ nextId = 0 /\ appended = 0 /\ crashes = 0 /\ reader = Log!NoReader
  BY Zenon DEF Log!Init
<1>2. <<>> \in Seq(Log!Lines) /\ <<>> \in Seq(Seq(Log!Lines)) /\ <<>> \in Seq(Nat)
  BY EmptySeq
<1>3. files = Append(<<>>, <<>>) /\ files \in Seq(Seq(Log!Lines)) /\ files # <<>>
  BY <1>1, <1>2
<1>4. Log!AllLines = <<>>
  <2>1. FlattenSeq(Append(<<>>, <<>>)) = FlattenSeq(<<>>) \o <<>>
    BY <1>2, FlattenAppend
  <2>2. FlattenSeq(<<>>) \o <<>> = <<>>
    BY FlattenEmpty, ConcatEmptySeq
  <2> QED BY <1>3, <2>1, <2>2, LogOperators DEF Log!AllLines
<1>5. LogTypes
  BY <1>1, <1>2, <1>3, LogNumbers DEF LogTypes, Log!NoReader
<1>6. LinesAreNumbered
  BY <1>1, <1>4 DEF LinesAreNumbered, Rising, Below
<1>7. ReaderFollows
  BY <1>1 DEF ReaderFollows, Log!NoReader, Falling
<1> QED BY <1>5, <1>6, <1>7 DEF LogInv

\* Two readable lines with one number are one line.
LEMMA OneLine ==
  ASSUME NEW lines \in Seq(Log!Lines), Rising(lines),
         NEW l \in ToSet(lines), NEW m \in ToSet(lines),
         l.readable, m.readable, l.id = m.id
  PROVE  l = m
<1>1. PICK i \in 1..Len(lines) : l = lines[i]
  BY DEF ToSet
<1>2. PICK j \in 1..Len(lines) : m = lines[j]
  BY DEF ToSet
<1>3. i \in Nat /\ j \in Nat /\ lines[i] \in Log!Lines
  BY ElementOfSeq
<1>4. lines[i].id \in Nat
  BY <1>3, LogNumbers DEF Log!Lines
<1>5. ~(i < j) /\ ~(j < i)
  BY <1>1, <1>2, <1>4 DEF Rising
<1> QED BY <1>1, <1>2, <1>3, <1>5

\* What is kept of the lines keeps the client in step: a line with the number of an
\* earlier one is that line.
LEMMA KeepFollows ==
  ASSUME LogTypes, LinesAreNumbered, ReaderFollows,
         NEW line \in Log!Lines, line.id = Log!NewId,
         NEW kept \in Seq(Seq(Log!Lines)), Carried(Log!AllLines, FlattenSeq(kept), line),
         Log!Keep(kept)
  PROVE  /\ reader' \in [cursor : 0..MaxRecords + 1, shown : Seq(Nat),
                         expected : SUBSET (1..MaxRecords + 1), done : BOOLEAN]
         /\ ReaderFollows'
<1>1. /\ reader' = [reader EXCEPT !.expected = Log!StillThere(kept)]
      /\ Log!AllLines' = FlattenSeq(kept)
  BY LogOperators DEF Log!Keep, Log!AllLines
<1>2. reader \in [cursor : 0..MaxRecords + 1, shown : Seq(Nat),
                  expected : SUBSET (1..MaxRecords + 1), done : BOOLEAN]
  BY DEF LogTypes
<1>3. Log!StillThere(kept) \subseteq reader.expected
  BY LogOperators DEF Log!StillThere
<1>4. /\ reader'.cursor = reader.cursor /\ reader'.shown = reader.shown
      /\ reader'.done = reader.done /\ reader'.expected = Log!StillThere(kept)
  BY <1>1, <1>2
<1>5. Log!AllLines \in Seq(Log!Lines) /\ Log!AllLines' \in Seq(Log!Lines)
  BY <1>1, LinesTyped, FlattenTyped
<1>6. ASSUME ~reader.done, reader.cursor # 0, NEW x \in Log!StillThere(kept)
      PROVE  \/ x \in ToSet(reader.shown)
             \/ \E l \in ToSet(Log!AllLines') :
                  l.readable /\ l.matches /\ l.id = x /\ x < reader.cursor
  <2> SUFFICES ASSUME x \notin ToSet(reader.shown)
               PROVE  \E l \in ToSet(Log!AllLines') :
                        l.readable /\ l.matches /\ l.id = x /\ x < reader.cursor
    OBVIOUS
  <2>1. PICK l \in ToSet(Log!AllLines) : l.readable /\ l.matches /\ l.id = x /\ x < reader.cursor
    BY <1>3, <1>6 DEF ReaderFollows
  <2>2. PICK m \in ToSet(Log!AllLines') : m.readable /\ m.id = x
    BY <1>1, LogOperators DEF Log!StillThere
  <2>3. m \in ToSet(Log!AllLines) \/ m = line
    <3>1. PICK j \in 1..Len(Log!AllLines') : m = Log!AllLines'[j]
      BY <1>5 DEF ToSet
    <3> QED BY <1>1, <2>2, <3>1 DEF Carried
  <2>4. l.id < Log!NewId
    <3>1. PICK i \in 1..Len(Log!AllLines) : l = Log!AllLines[i]
      BY <1>5 DEF ToSet
    <3> QED BY <2>1, <3>1, NewIdIsNew DEF Below
  <2>5. m # line
    <3>1. Log!NewId \in Nat
      BY NewIdIsNew, LogNumbers DEF LogTypes
    <3> QED BY <2>1, <2>2, <2>4, <3>1
  <2>6. m = l
    BY <1>5, <2>1, <2>2, <2>3, <2>5, OneLine DEF LinesAreNumbered
  <2> QED BY <2>1, <2>2, <2>6
<1>7. reader' \in [cursor : 0..MaxRecords + 1, shown : Seq(Nat),
                   expected : SUBSET (1..MaxRecords + 1), done : BOOLEAN]
  BY <1>1, <1>2, <1>3
<1>8. ReaderFollows'
  <2>1. Falling(reader'.shown)
    BY <1>4 DEF ReaderFollows
  <2>2. reader'.cursor = 0 /\ ~reader'.done => reader'.shown = <<>> /\ reader'.expected = {}
    BY <1>3, <1>4 DEF ReaderFollows
  <2>3. reader'.cursor # 0 =>
          reader'.shown # <<>> /\ reader'.shown[Len(reader'.shown)] = reader'.cursor
    BY <1>4 DEF ReaderFollows
  <2>4. reader'.done => reader'.expected \subseteq ToSet(reader'.shown)
    BY <1>3, <1>4 DEF ReaderFollows
  <2>5. ~reader'.done /\ reader'.cursor # 0 =>
          \A x \in reader'.expected :
            \/ x \in ToSet(reader'.shown)
            \/ \E l \in ToSet(Log!AllLines') :
                 l.readable /\ l.matches /\ l.id = x /\ x < reader'.cursor
    BY <1>4, <1>6
  <2>6. Falling(reader.shown)' <=> Falling(reader'.shown)
    BY DEF Falling
  <2> QED BY <2>1, <2>2, <2>3, <2>4, <2>5, <2>6, Zenon DEF ReaderFollows
<1> QED BY <1>7, <1>8

\* A step that writes a line, or half of it, and keeps an end of the files.
LEMMA RecordStep ==
  ASSUME LogInv, NEW line \in Log!Lines, line.id = Log!NewId,
         NEW all \in Seq(Seq(Log!Lines)), Grown(Log!AllLines, FlattenSeq(all), line),
         NEW kept \in Seq(Seq(Log!Lines)), kept # <<>>,
         NEW gone \in Seq(Log!Lines), FlattenSeq(all) = gone \o FlattenSeq(kept),
         Log!Keep(kept)
  PROVE  /\ files' \in Seq(Seq(Log!Lines)) /\ files' # <<>>
         /\ reader' \in [cursor : 0..MaxRecords + 1, shown : Seq(Nat),
                         expected : SUBSET (1..MaxRecords + 1), done : BOOLEAN]
         /\ Rising(Log!AllLines)' /\ Below(Log!AllLines', Log!NewId + 1)
         /\ ReaderFollows'
<1>1. files' = kept /\ Log!AllLines' = FlattenSeq(kept)
  BY LogOperators DEF Log!Keep, Log!AllLines
<1>2. LogTypes /\ LinesAreNumbered /\ ReaderFollows
  BY DEF LogInv
<1>3. Log!AllLines \in Seq(Log!Lines) /\ FlattenSeq(all) \in Seq(Log!Lines)
      /\ FlattenSeq(kept) \in Seq(Log!Lines)
  BY <1>2, LinesTyped, FlattenTyped
<1>4. Rising(Log!AllLines) /\ Below(Log!AllLines, line.id)
  BY <1>2, NewIdIsNew DEF LinesAreNumbered
<1>5. Rising(FlattenSeq(all)) /\ Carried(Log!AllLines, FlattenSeq(all), line)
  BY <1>3, <1>4, GrownIsCarried
<1>6. Rising(FlattenSeq(kept)) /\ Carried(Log!AllLines, FlattenSeq(kept), line)
  BY <1>3, <1>5, SuffixIsCarried
<1>7. Below(FlattenSeq(kept), Log!NewId + 1)
  <2> SUFFICES ASSUME NEW i \in 1..Len(FlattenSeq(kept)), FlattenSeq(kept)[i].readable
               PROVE  FlattenSeq(kept)[i].id < Log!NewId + 1
    BY DEF Below
  <2> DEFINE l == FlattenSeq(kept)[i]
  <2>1. l \in ToSet(Log!AllLines) \/ l = line
    BY <1>6 DEF Carried
  <2>2. l \in Log!Lines
    BY <1>3, ElementOfSeq
  <2>3. Log!NewId \in Nat /\ l.id \in Nat
    <3>1. Log!NewId \in 1..appended + 1 /\ appended \in Nat
      BY <1>2, NewIdIsNew, LogNumbers DEF LogTypes
    <3> HIDE DEF l
    <3>2. l.id \in Nat
      BY <2>2, LogNumbers DEF Log!Lines
    <3> QED BY <3>1, <3>2
  <2>4. l = line => l.id < Log!NewId + 1
    BY <2>3
  <2>5. l.readable
    OBVIOUS
  <2> HIDE DEF l
  <2>6. l \in ToSet(Log!AllLines) => l.id < Log!NewId + 1
    <3> HAVE l \in ToSet(Log!AllLines)
    <3>1. PICK j \in 1..Len(Log!AllLines) : l = Log!AllLines[j]
      BY <1>3 DEF ToSet
    <3>2. l.id < Log!NewId
      BY <1>2, <2>5, <3>1, NewIdIsNew DEF Below
    <3> QED BY <2>3, <3>2
  <2>7. l.id < Log!NewId + 1
    BY <2>1, <2>4, <2>6
  <2> QED BY <2>7 DEF l
<1>8. /\ reader' \in [cursor : 0..MaxRecords + 1, shown : Seq(Nat),
                      expected : SUBSET (1..MaxRecords + 1), done : BOOLEAN]
      /\ ReaderFollows'
  BY <1>2, <1>6, KeepFollows
<1>9. Rising(Log!AllLines)' <=> Rising(Log!AllLines')
  BY DEF Rising
<1> QED BY <1>1, <1>6, <1>7, <1>8, <1>9

\* A new line is a line.
LEMMA NewLineTyped ==
  ASSUME LogInv, appended < MaxRecords, NEW matches \in BOOLEAN
  PROVE  Log!NewLine(matches) \in Log!Lines /\ Log!NewLine(matches).id = Log!NewId
<1>1. Log!NewId \in 1..appended + 1 /\ appended \in Nat
  BY NewIdIsNew, LogNumbers DEF LogInv, LogTypes
<1>2. Log!NewId \in 1..MaxRecords + 1
  BY <1>1, LogNumbers
<1> QED BY <1>2 DEF Log!NewLine, Log!Lines

\* The counters after a step that has used a number.
LEMMA NumbersAfter ==
  ASSUME LogInv, appended < MaxRecords, appended' = appended + 1, crashes' \in 0..MaxCrashes,
         nextId' = Log!NewId + 1 \/ nextId' = 0,
         files' \in Seq(Seq(Log!Lines)), files' # <<>>,
         reader' \in [cursor : 0..MaxRecords + 1, shown : Seq(Nat),
                      expected : SUBSET (1..MaxRecords + 1), done : BOOLEAN],
         Rising(Log!AllLines)', Below(Log!AllLines', Log!NewId + 1), ReaderFollows'
  PROVE  LogInv'
<1>1. Log!NewId \in 1..appended + 1 /\ appended \in Nat
  BY NewIdIsNew, LogNumbers DEF LogInv, LogTypes
<1>2. LogTypes'
  <2>1. appended' \in 0..MaxRecords /\ nextId' \in 0..appended' + 1
    BY <1>1, LogNumbers
  <2> QED BY <2>1 DEF LogTypes
<1>3. Log!AllLines' \in Seq(Log!Lines)
  BY FlattenTyped, LogOperators DEF Log!AllLines
<1>4. \A i \in 1..Len(Log!AllLines') : Log!AllLines'[i].id \in Nat
  <2> TAKE i \in 1..Len(Log!AllLines')
  <2>1. Log!AllLines'[i] \in Log!Lines
    BY <1>3, ElementOfSeq
  <2> QED BY <2>1, LogNumbers DEF Log!Lines
<1>5. \A n \in Nat : Log!NewId + 1 <= n => Below(Log!AllLines', n)
  BY <1>1, <1>4 DEF Below
<1>6. LinesAreNumbered'
  <2>1. Below(Log!AllLines', appended' + 1)
    BY <1>1, <1>5
  <2>2. nextId' # 0 => Below(Log!AllLines', nextId')
    BY <1>1, <1>5
  <2>3. (Below(Log!AllLines, appended + 1)' <=> Below(Log!AllLines', appended' + 1))
        /\ (Below(Log!AllLines, nextId)' <=> Below(Log!AllLines', nextId'))
    BY DEF Below
  <2> QED BY <2>1, <2>2, <2>3, Zenon DEF LinesAreNumbered
<1> QED BY <1>2, <1>6 DEF LogInv

\* A record is appended, to the current file or to a new one.
LEMMA AppendKeepsLog == LogInv /\ Log!AppendRecord => LogInv'
<1> SUFFICES ASSUME LogInv, Log!AppendRecord PROVE LogInv'
  OBVIOUS
<1>1. PICK rotated \in BOOLEAN, matches \in BOOLEAN :
        \E kept \in Log!Retained(Log!WithRecord(rotated, Log!NewLine(matches))) : Log!Keep(kept)
  BY Zenon DEF Log!AppendRecord
<1>2. appended < MaxRecords /\ appended' = appended + 1
      /\ nextId' = Log!NewId + 1 /\ crashes' = crashes
  BY DEF Log!AppendRecord
<1> DEFINE line == Log!NewLine(matches)
           all == Log!WithRecord(rotated, line)
<1>3. line \in Log!Lines /\ line.id = Log!NewId
  BY <1>2, NewLineTyped
<1>4. all \in Seq(Seq(Log!Lines)) /\ Grown(Log!AllLines, FlattenSeq(all), line)
  BY <1>3, RecordGrows DEF LogInv
<1>5. PICK kept \in Log!Retained(all) : Log!Keep(kept)
  BY <1>1
<1> HIDE DEF line, all
<1>6. kept \in Seq(Seq(Log!Lines)) /\ kept # <<>>
      /\ \E gone \in Seq(Log!Lines) : FlattenSeq(all) = gone \o FlattenSeq(kept)
  BY <1>4, RetainedIsSuffix
<1>7. PICK gone \in Seq(Log!Lines) : FlattenSeq(all) = gone \o FlattenSeq(kept)
  BY <1>6
<1>8. /\ files' \in Seq(Seq(Log!Lines)) /\ files' # <<>>
      /\ reader' \in [cursor : 0..MaxRecords + 1, shown : Seq(Nat),
                      expected : SUBSET (1..MaxRecords + 1), done : BOOLEAN]
      /\ Rising(Log!AllLines)' /\ Below(Log!AllLines', Log!NewId + 1)
      /\ ReaderFollows'
  BY <1>3, <1>4, <1>5, <1>6, <1>7, RecordStep
<1>9. crashes' \in 0..MaxCrashes
  BY <1>2 DEF LogInv, LogTypes
<1> QED BY <1>2, <1>8, <1>9, NumbersAfter

\* A record of which all is written, or some.
LEMMA CrashInWriteKeepsLog == LogInv /\ Log!CrashInWrite => LogInv'
<1> SUFFICES ASSUME LogInv, Log!CrashInWrite PROVE LogInv'
  OBVIOUS
<1>1. PICK rotated \in BOOLEAN, matches \in BOOLEAN, whole \in BOOLEAN :
        Log!Keep(Log!WithRecord(rotated, [Log!NewLine(matches) EXCEPT !.ended = FALSE,
                                                                      !.readable = whole]))
  BY Zenon DEF Log!CrashInWrite
<1>2. appended < MaxRecords /\ appended' = appended + 1 /\ nextId' = 0
      /\ crashes < MaxCrashes /\ crashes' = crashes + 1
  BY DEF Log!CrashInWrite, Log!Stopped
<1> DEFINE line == [Log!NewLine(matches) EXCEPT !.ended = FALSE, !.readable = whole]
           all == Log!WithRecord(rotated, line)
<1>3. line \in Log!Lines /\ line.id = Log!NewId
  <2>1. Log!NewLine(matches) \in Log!Lines /\ Log!NewLine(matches).id = Log!NewId
    BY <1>2, NewLineTyped
  <2> QED BY <2>1 DEF Log!Lines
<1> HIDE DEF line
<1>4. /\ all \in Seq(Seq(Log!Lines)) /\ all # <<>>
      /\ Grown(Log!AllLines, FlattenSeq(all), line)
  BY <1>3, RecordGrows DEF LogInv
<1>5. Log!Keep(all)
  BY <1>1 DEF line
<1> HIDE DEF all
<1>6. FlattenSeq(all) \in Seq(Log!Lines) /\ <<>> \in Seq(Log!Lines)
  BY <1>4, FlattenTyped
<1>7. FlattenSeq(all) = <<>> \o FlattenSeq(all)
  BY <1>6, ConcatEmptySeq
<1>8. /\ files' \in Seq(Seq(Log!Lines)) /\ files' # <<>>
      /\ reader' \in [cursor : 0..MaxRecords + 1, shown : Seq(Nat),
                      expected : SUBSET (1..MaxRecords + 1), done : BOOLEAN]
      /\ Rising(Log!AllLines)' /\ Below(Log!AllLines', Log!NewId + 1)
      /\ ReaderFollows'
  BY <1>3, <1>4, <1>5, <1>6, <1>7, RecordStep
<1>9. crashes' \in 0..MaxCrashes
  BY <1>2, LogNumbers DEF LogInv, LogTypes
<1> QED BY <1>2, <1>8, <1>9, NumbersAfter

\* A rotation without a record: the lines stay.
LEMMA CrashInRotationKeepsLog == LogInv /\ Log!CrashInRotation => LogInv'
<1> SUFFICES ASSUME LogInv, Log!CrashInRotation PROVE LogInv'
  OBVIOUS
<1>2. appended < MaxRecords /\ appended' = appended + 1 /\ nextId' = 0
      /\ crashes < MaxCrashes /\ crashes' = crashes + 1 /\ Log!Keep(Append(files, <<>>))
  BY DEF Log!CrashInRotation, Log!Stopped
<1> DEFINE line == Log!NewLine(TRUE)
           all == Append(files, <<>>)
<1>3. line \in Log!Lines /\ line.id = Log!NewId
  BY <1>2, NewLineTyped
<1> HIDE DEF line
<1>4. files \in Seq(Seq(Log!Lines)) /\ Log!AllLines \in Seq(Log!Lines) /\ <<>> \in Seq(Log!Lines)
  BY LinesTyped DEF LogInv, LogTypes
<1>5. FlattenSeq(all) = Log!AllLines
  <2>1. FlattenSeq(all) = Log!AllLines \o <<>>
    BY <1>4, FlattenAppend, LogOperators DEF Log!AllLines
  <2>2. Log!AllLines \o <<>> = Log!AllLines
    BY <1>4, ConcatEmptySeq
  <2> QED BY <2>1, <2>2
<1>6. all \in Seq(Seq(Log!Lines)) /\ all # <<>>
  BY <1>4, AppendProperties
<1>7. Log!Keep(all)
  BY <1>2
<1> HIDE DEF all
<1>a. Grown(Log!AllLines, FlattenSeq(all), line)
  BY <1>5 DEF Grown
<1>b. FlattenSeq(all) = <<>> \o FlattenSeq(all)
  BY <1>4, <1>5, ConcatEmptySeq
<1>8. /\ files' \in Seq(Seq(Log!Lines)) /\ files' # <<>>
      /\ reader' \in [cursor : 0..MaxRecords + 1, shown : Seq(Nat),
                      expected : SUBSET (1..MaxRecords + 1), done : BOOLEAN]
      /\ Rising(Log!AllLines)' /\ Below(Log!AllLines', Log!NewId + 1)
      /\ ReaderFollows'
  BY <1>3, <1>4, <1>6, <1>7, <1>a, <1>b, RecordStep
<1>9. crashes' \in 0..MaxCrashes
  BY <1>2, LogNumbers DEF LogInv, LogTypes
<1> QED BY <1>2, <1>8, <1>9, NumbersAfter

\* What a page is taken from: the lines in front of the cursor, newest first.
LEMMA FoundIsAll ==
  ASSUME LogInv, NEW cursor \in Nat
  PROVE  /\ Log!Matching(cursor) \in Seq(Log!Lines)
         /\ \A i, j \in 1..Len(Log!Matching(cursor)) :
              i < j => Log!Matching(cursor)[i].id > Log!Matching(cursor)[j].id
         /\ \A i \in 1..Len(Log!Matching(cursor)) :
              /\ Log!Matching(cursor)[i] \in ToSet(Log!AllLines)
              /\ Log!Matching(cursor)[i].readable /\ Log!Matching(cursor)[i].matches
              /\ Log!Before(Log!Matching(cursor)[i], cursor)
         /\ \A l \in ToSet(Log!AllLines) :
              l.readable /\ l.matches /\ Log!Before(l, cursor)
                => \E i \in 1..Len(Log!Matching(cursor)) : Log!Matching(cursor)[i] = l
<1> DEFINE W == {line \in Log!Lines : line.readable /\ line.matches /\ Log!Before(line, cursor)}
           c == Chosen(Log!AllLines, W)
           r == Reverse(c)
           n == Len(c)
<1>1. Log!AllLines \in Seq(Log!Lines) /\ Rising(Log!AllLines)
  BY LinesTyped DEF LogInv, LinesAreNumbered
<1>2. \A i \in 1..Len(Log!AllLines) : Log!AllLines[i] \in Log!Lines /\ Log!AllLines[i].id \in Nat
  <2> TAKE i \in 1..Len(Log!AllLines)
  <2>1. Log!AllLines[i] \in Log!Lines
    BY <1>1, ElementOfSeq
  <2> QED BY <2>1, LogNumbers DEF Log!Lines
<1>3. \A line \in W : line.readable /\ line.matches /\ Log!Before(line, cursor)
  OBVIOUS
<1>4. \A line \in Log!Lines : line.readable /\ line.matches /\ Log!Before(line, cursor)
                            => line \in W
  OBVIOUS
<1> HIDE DEF W
<1>5. c \in Seq(Log!Lines) /\ \E f : Picks(f, c, Log!AllLines, W)
  BY <1>1, ChosenPicks
<1>6. PICK f : Picks(f, c, Log!AllLines, W)
  BY <1>5
<1>7. Log!Matching(cursor) = r
  BY LogOperators, LogChoice, LogOperators DEF Log!Matching, W
<1> HIDE DEF c
<1>8. n \in Nat /\ Len(Log!AllLines) \in Nat
  BY <1>1, <1>5
<1>9. \A i \in 1..n : /\ f[i] \in 1..Len(Log!AllLines) /\ c[i] = Log!AllLines[f[i]]
                      /\ c[i] \in W /\ c[i].id \in Nat
  BY <1>2, <1>6 DEF Picks
<1>10. \A i, j \in 1..n : i < j => c[i].id < c[j].id
  <2> SUFFICES ASSUME NEW i \in 1..n, NEW j \in 1..n, i < j PROVE c[i].id < c[j].id
    OBVIOUS
  <2>1. f[i] < f[j]
    BY <1>6 DEF Picks
  <2>2. c[i].readable /\ c[j].readable
    BY <1>3, <1>9
  <2> QED BY <1>1, <1>9, <2>1, <2>2 DEF Rising
<1>11. \A l \in ToSet(Log!AllLines) :
         l.readable /\ l.matches /\ Log!Before(l, cursor) => \E i \in 1..n : c[i] = l
  <2> SUFFICES ASSUME NEW l \in ToSet(Log!AllLines), l.readable, l.matches, Log!Before(l, cursor)
               PROVE  \E i \in 1..n : c[i] = l
    OBVIOUS
  <2>1. PICK k \in 1..Len(Log!AllLines) : l = Log!AllLines[k]
    BY <1>1 DEF ToSet
  <2>2. l \in W
    BY <1>2, <1>4, <2>1
  <2>3. PICK i \in 1..n : f[i] = k
    BY <1>6, <2>1, <2>2 DEF Picks
  <2> QED BY <1>9, <2>1, <2>3
<1>12. /\ r \in Seq(Log!Lines) /\ Len(r) = n
       /\ \A i \in 1..n : (n - i) + 1 \in 1..n /\ r[i] = c[(n - i) + 1]
  <2>1. \A i \in 1..n : (n - i) + 1 \in 1..n
    BY <1>8
  <2>2. \A i \in 1..n : c[i] \in Log!Lines
    BY <1>5, ElementOfSeq
  <2>3. r = [i \in 1..n |-> c[(n - i) + 1]]
    BY DEF Reverse
  <2>4. r \in [1..n -> Log!Lines]
    BY <2>1, <2>2, <2>3
  <2> HIDE DEF r, n
  <2>5. r \in Seq(Log!Lines)
    BY <1>8, <2>4
  <2>6. Len(r) = n
    BY <1>8, <2>4, <2>5, LenProperties
  <2> QED BY <2>1, <2>3, <2>5, <2>6
<1> HIDE DEF r, n
<1>13. \A i, j \in 1..n : i < j => r[i].id > r[j].id
  <2> SUFFICES ASSUME NEW i \in 1..n, NEW j \in 1..n, i < j PROVE r[i].id > r[j].id
    OBVIOUS
  <2>1. (n - j) + 1 < (n - i) + 1
    BY <1>8
  <2>2. c[(n - j) + 1].id < c[(n - i) + 1].id
    BY <1>10, <1>12, <2>1
  <2> QED BY <1>9, <1>12, <2>2
<1>14. \A i \in 1..n : /\ r[i] \in ToSet(Log!AllLines)
                       /\ r[i].readable /\ r[i].matches /\ Log!Before(r[i], cursor)
  <2> TAKE i \in 1..n
  <2>1. r[i] \in W /\ \E k \in 1..Len(Log!AllLines) : r[i] = Log!AllLines[k]
    BY <1>9, <1>12
  <2>2. r[i] \in ToSet(Log!AllLines)
    BY <1>1, <2>1 DEF ToSet
  <2> QED BY <1>3, <2>1, <2>2
<1>15. \A l \in ToSet(Log!AllLines) :
         l.readable /\ l.matches /\ Log!Before(l, cursor) => \E i \in 1..n : r[i] = l
  <2> SUFFICES ASSUME NEW l \in ToSet(Log!AllLines), l.readable, l.matches, Log!Before(l, cursor)
               PROVE  \E i \in 1..n : r[i] = l
    OBVIOUS
  <2>1. PICK k \in 1..n : c[k] = l
    BY <1>11
  <2>2. (n - k) + 1 \in 1..n /\ (n - ((n - k) + 1)) + 1 = k
    BY <1>8
  <2>3. r[(n - k) + 1] = l
    BY <1>12, <2>1, <2>2
  <2> QED BY <2>2, <2>3
<1>16. Len(r) = n /\ r \in Seq(Log!Lines)
  BY <1>12
<1> QED BY <1>7, <1>13, <1>14, <1>15, <1>16

\* A page has the numbers of the first lines that were found.
LEMMA PageIs ==
  ASSUME NEW found \in Seq(Log!Lines), NEW p \in 0..Len(found)
  PROVE  /\ Log!Ids(SubSeq(found, 1, p)) \in Seq(Nat) /\ Len(Log!Ids(SubSeq(found, 1, p))) = p
         /\ \A i \in 1..p : Log!Ids(SubSeq(found, 1, p))[i] = found[i].id
<1> DEFINE s == SubSeq(found, 1, p)
           d == Log!Ids(s)
<1>1. Len(found) \in Nat /\ p \in Nat
  OBVIOUS
<1>2. \A i \in 1..Len(found) : found[i] \in Log!Lines /\ found[i].id \in Nat
  <2> TAKE i \in 1..Len(found)
  <2>1. found[i] \in Log!Lines
    BY ElementOfSeq
  <2> QED BY <2>1, LogNumbers DEF Log!Lines
<1>3. s \in Seq(Log!Lines) /\ Len(s) = p /\ \A i \in 1..p : s[i] = found[i]
  <2>1. \A i \in 1..p : found[i] \in Log!Lines
    BY <1>1, <1>2
  <2>2. /\ s \in Seq(Log!Lines)
        /\ Len(s) = IF 1 <= p THEN (p - 1) + 1 ELSE 0
        /\ \A i \in 1..(p - 1) + 1 : s[i] = found[(1 + i) - 1]
    BY <1>1, <2>1, SubSeqProperties
  <2> HIDE DEF s
  <2> QED BY <1>1, <2>2
<1> HIDE DEF s
<1>4. d = [i \in 1..p |-> s[i].id]
  BY <1>3, LenProperties DEF Log!Ids
<1> HIDE DEF d
<1>5. d \in [1..p -> Nat]
  BY <1>1, <1>2, <1>3, <1>4
<1>6. d \in Seq(Nat) /\ Len(d) = p
  BY <1>1, <1>5, LenProperties
<1>7. \A i \in 1..p : d[i] = found[i].id
  BY <1>3, <1>4
<1> QED BY <1>6, <1>7 DEF d, s

\* Falling numbers behind falling numbers.
LEMMA FallingOn ==
  ASSUME NEW a \in Seq(Nat), NEW b \in Seq(Nat), Falling(a), Falling(b),
         a # <<>> /\ b # <<>> => a[Len(a)] > b[1]
  PROVE  /\ a \o b \in Seq(Nat) /\ Falling(a \o b)
         /\ ToSet(a) \subseteq ToSet(a \o b) /\ ToSet(b) \subseteq ToSet(a \o b)
         /\ b # <<>> => a \o b # <<>> /\ (a \o b)[Len(a \o b)] = b[Len(b)]
<1> DEFINE m == Len(a)
           n == Len(b)
           s == a \o b
<1>1. m \in Nat /\ n \in Nat
  OBVIOUS
<1>2. /\ s \in Seq(Nat) /\ Len(s) = m + n
      /\ \A i \in 1..m + n : s[i] = IF i <= m THEN a[i] ELSE b[i - m]
  BY ConcatProperties
<1>e. (a # <<>> <=> m # 0) /\ (b # <<>> <=> n # 0)
  BY EmptySeq
<1>f. /\ \A i \in 1..m - 1 : a[i] > a[i + 1]
      /\ \A i \in 1..n - 1 : b[i] > b[i + 1]
      /\ m # 0 /\ n # 0 => a[m] > b[1]
  BY <1>e DEF Falling
<1>d. DOMAIN a = 1..m /\ DOMAIN b = 1..n /\ DOMAIN s = 1..m + n
  BY <1>2, LenProperties
<1> HIDE DEF m, n, s
<1>3. \A i \in 1..m : i \in 1..m + n /\ s[i] = a[i]
  BY <1>1, <1>2
<1>4. \A i \in 1..n : i + m \in 1..m + n /\ s[i + m] = b[i]
  <2> TAKE i \in 1..n
  <2>1. i + m \in 1..m + n /\ ~(i + m <= m) /\ (i + m) - m = i
    BY <1>1
  <2> QED BY <1>2, <2>1
<1>5. \A i \in 1..(m + n) - 1 : s[i] > s[i + 1]
  <2> TAKE i \in 1..(m + n) - 1
  <2>1. CASE i < m
    <3>1. i \in 1..m - 1 /\ i \in 1..m /\ i + 1 \in 1..m
      BY <1>1, <2>1
    <3> QED BY <1>3, <1>f, <3>1
  <2>2. CASE i = m
    <3>1. m # 0 /\ n # 0 /\ m \in 1..m /\ 1 \in 1..n /\ m + 1 = 1 + m
      BY <1>1, <2>2
    <3> QED BY <1>3, <1>4, <1>f, <2>2, <3>1
  <2>3. CASE i > m
    <3>1. /\ i - m \in 1..n - 1 /\ i - m \in 1..n /\ (i - m) + 1 \in 1..n
          /\ (i - m) + m = i /\ ((i - m) + 1) + m = i + 1
      BY <1>1, <2>3
    <3>2. b[i - m] > b[(i - m) + 1]
      BY <1>f, <3>1
    <3>3. s[i] = b[i - m]
      BY <1>4, <3>1
    <3>4. s[i + 1] = b[(i - m) + 1]
      BY <1>4, <3>1
    <3> QED BY <3>2, <3>3, <3>4
  <2> QED BY <1>1, <2>1, <2>2, <2>3
<1>6. Falling(s)
  BY <1>2, <1>5 DEF Falling
<1>7. ToSet(a) \subseteq ToSet(s) /\ ToSet(b) \subseteq ToSet(s)
  <2>1. ToSet(a) = {a[i] : i \in 1..m} /\ ToSet(b) = {b[i] : i \in 1..n}
        /\ ToSet(s) = {s[i] : i \in 1..m + n}
    BY <1>d DEF ToSet
  <2> QED BY <1>3, <1>4, <2>1
<1>8. b # <<>> => s # <<>> /\ s[Len(s)] = b[n]
  <2> HAVE b # <<>>
  <2>1. n \in 1..n /\ n + m = m + n /\ m + n # 0
    BY <1>1, <1>e
  <2>2. s[m + n] = b[n]
    BY <1>4, <2>1
  <2> QED BY <1>2, <2>1, <2>2, EmptySeq
<1>9. s \in Seq(Nat)
  BY <1>2
<1> QED BY <1>6, <1>7, <1>8, <1>9 DEF s, n

\* A restart forgets the next number.
LEMMA RestartKeepsLog == LogInv /\ Log!Restart => LogInv'
<1> SUFFICES ASSUME LogInv, Log!Restart PROVE LogInv'
  OBVIOUS
<1>1. /\ files' = files /\ appended' = appended /\ reader' = reader
      /\ nextId' = 0 /\ crashes' = crashes + 1 /\ crashes < MaxCrashes
  BY DEF Log!Restart, Log!Stopped
<1>2. Log!AllLines' = Log!AllLines
  BY <1>1, LogOperators DEF Log!AllLines
<1>3. LogTypes'
  BY <1>1, LogNumbers DEF LogInv, LogTypes
<1>4. LinesAreNumbered'
  BY <1>1, <1>2 DEF LogInv, LinesAreNumbered, Rising, Below
<1>5. ReaderFollows'
  BY <1>1, <1>2 DEF LogInv, ReaderFollows, Falling
<1> QED BY <1>3, <1>4, <1>5 DEF LogInv

\* A step of the client alone.
LEMMA ReaderStep ==
  ASSUME LogInv, UNCHANGED <<files, nextId, appended, crashes>>,
         reader' \in [cursor : 0..MaxRecords + 1, shown : Seq(Nat),
                      expected : SUBSET (1..MaxRecords + 1), done : BOOLEAN],
         ReaderFollows'
  PROVE  LogInv'
<1>1. Log!AllLines' = Log!AllLines
  BY LogOperators DEF Log!AllLines
<1>2. LogTypes'
  BY DEF LogInv, LogTypes
<1>3. LinesAreNumbered'
  BY <1>1 DEF LogInv, LinesAreNumbered, Rising, Below
<1> QED BY <1>2, <1>3 DEF LogInv

\* The client starts again.
LEMMA ReadAgainKeepsLog == LogInv /\ Log!ReadAgain => LogInv'
<1> SUFFICES ASSUME LogInv, Log!ReadAgain PROVE LogInv'
  OBVIOUS
<1>1. reader' = Log!NoReader /\ UNCHANGED <<files, nextId, appended, crashes>>
  BY DEF Log!ReadAgain
<1>2. reader' \in [cursor : 0..MaxRecords + 1, shown : Seq(Nat),
                   expected : SUBSET (1..MaxRecords + 1), done : BOOLEAN]
  BY <1>1, EmptySeq, LogNumbers DEF Log!NoReader
<1>3. ReaderFollows'
  BY <1>1 DEF ReaderFollows, Log!NoReader, Falling
<1> QED BY <1>1, <1>2, <1>3, ReaderStep

\* A page shows what is in front of the cursor, as far as the next cursor.
LEMMA ReadPageKeepsLog == LogInv /\ Log!ReadPage => LogInv'
<1> SUFFICES ASSUME LogInv, Log!ReadPage PROVE LogInv'
  OBVIOUS
<1> DEFINE found == Log!Matching(reader.cursor)
           n == Len(found)
<1>1. /\ ~reader.done
      /\ UNCHANGED <<files, nextId, appended, crashes>>
  BY LogOperators DEF Log!ReadPage
<1>2. PICK limit \in Limits :
        reader' = [cursor |-> Log!NextCursor(found, limit),
                   shown |-> reader.shown \o
                     Log!Ids(SubSeq(found, 1, IF n > limit THEN limit ELSE n)),
                   expected |-> IF reader.cursor = 0 THEN ToSet(Log!Ids(found))
                                ELSE reader.expected,
                   done |-> n <= limit]
  BY LogOperators DEF Log!ReadPage
<1> DEFINE p == IF n > limit THEN limit ELSE n
           page == Log!Ids(SubSeq(found, 1, p))
<1>3. /\ reader.cursor \in 0..MaxRecords + 1 /\ reader.shown \in Seq(Nat)
      /\ reader.expected \in SUBSET (1..MaxRecords + 1)
      /\ MaxRecords \in Nat /\ limit \in Nat /\ limit >= 1 /\ reader.cursor \in Nat
  BY LogNumbers DEF LogInv, LogTypes
<1>4. /\ found \in Seq(Log!Lines)
      /\ \A i, j \in 1..n : i < j => found[i].id > found[j].id
      /\ \A i \in 1..n : /\ found[i] \in ToSet(Log!AllLines)
                         /\ found[i].readable /\ found[i].matches
                         /\ Log!Before(found[i], reader.cursor)
      /\ \A l \in ToSet(Log!AllLines) :
           l.readable /\ l.matches /\ Log!Before(l, reader.cursor)
             => \E i \in 1..n : found[i] = l
  BY <1>3, FoundIsAll
<1>5. /\ reader'.cursor = Log!NextCursor(found, limit) /\ reader'.shown = reader.shown \o page
      /\ reader'.expected = IF reader.cursor = 0 THEN ToSet(Log!Ids(found)) ELSE reader.expected
      /\ reader'.done = (n <= limit)
      /\ reader' = [cursor |-> reader'.cursor, shown |-> reader'.shown,
                    expected |-> reader'.expected, done |-> reader'.done]
  BY <1>2
<1>6. Log!AllLines' = Log!AllLines
  BY <1>1, LogOperators DEF Log!AllLines
<1> HIDE DEF found
<1>7. n \in Nat /\ p \in 0..n /\ p \in Nat
      /\ (n > limit => p = limit) /\ (~(n > limit) => p = n)
  BY <1>3, <1>4
<1>8. \A i \in 1..n : found[i].id \in 1..MaxRecords + 1 /\ found[i].id \in Nat
  <2> TAKE i \in 1..n
  <2>1. found[i] \in Log!Lines
    BY <1>4, ElementOfSeq
  <2> QED BY <1>3, <2>1 DEF Log!Lines
<1>9. page \in Seq(Nat) /\ Len(page) = p /\ \A i \in 1..p : page[i] = found[i].id
  BY <1>4, <1>7, PageIs
<1> HIDE DEF page, p
<1>10. Falling(page)
  <2> SUFFICES ASSUME NEW i \in 1..p - 1 PROVE page[i] > page[i + 1]
    BY <1>9 DEF Falling
  <2>1. i \in 1..p /\ i + 1 \in 1..p /\ i \in 1..n /\ i + 1 \in 1..n /\ i < i + 1
    BY <1>7
  <2>2. found[i].id > found[i + 1].id
    BY <1>4, <2>1
  <2> QED BY <1>9, <2>1, <2>2
<1>11. reader.shown # <<>> /\ page # <<>> => reader.shown[Len(reader.shown)] > page[1]
  <2> HAVE reader.shown # <<>> /\ page # <<>>
  <2>1. reader.cursor # 0 /\ reader.shown[Len(reader.shown)] = reader.cursor
    BY <1>1 DEF LogInv, ReaderFollows
  <2>2. 1 \in 1..p /\ 1 \in 1..n
    <3>1. p # 0
      BY <1>9, EmptySeq
    <3> QED BY <3>1, <1>7
  <2>3. page[1] = found[1].id /\ found[1].id < reader.cursor
    BY <1>4, <1>9, <2>1, <2>2 DEF Log!Before
  <2> QED BY <1>3, <1>8, <2>1, <2>2, <2>3
<1>12. /\ reader'.shown \in Seq(Nat) /\ Falling(reader'.shown)
       /\ ToSet(reader.shown) \subseteq ToSet(reader'.shown)
       /\ ToSet(page) \subseteq ToSet(reader'.shown)
       /\ page # <<>> => /\ reader'.shown # <<>>
                         /\ reader'.shown[Len(reader'.shown)] = page[Len(page)]
  <2>1. Falling(reader.shown)
    BY DEF LogInv, ReaderFollows
  <2> QED BY <1>3, <1>5, <1>9, <1>10, <1>11, <2>1, FallingOn
<1>13. \A i \in 1..p : found[i].id \in ToSet(reader'.shown)
  <2> TAKE i \in 1..p
  <2>1. DOMAIN page = 1..p
    BY <1>9, LenProperties
  <2>2. page[i] \in ToSet(page)
    BY <2>1 DEF ToSet
  <2> QED BY <1>9, <1>12, <2>2
<1>14. ToSet(Log!Ids(found)) = {found[i].id : i \in 1..n}
  <2>1. DOMAIN found = 1..n
    BY <1>4, LenProperties
  <2> QED BY <2>1 DEF Log!Ids, ToSet
<1>15. reader'.expected \in SUBSET (1..MaxRecords + 1)
  BY <1>3, <1>5, <1>8, <1>14
<1>16. CASE n > limit
  <2>1. /\ reader'.cursor = found[limit].id /\ p = limit /\ ~reader'.done
        /\ limit \in 1..n /\ limit \in 1..p /\ reader'.done = FALSE
    <3>1. ~(n <= limit)
      BY <1>3, <1>7, <1>16
    <3>2. limit \in 1..n /\ p = limit /\ limit \in 1..p
      BY <1>3, <1>7, <1>16
    <3>3. reader'.cursor = found[limit].id
      BY <1>5, <1>16 DEF Log!NextCursor
    <3>4. (n <= limit) = FALSE
      BY <3>1
    <3>5. reader'.done = FALSE
      BY <1>5, <3>4, Zenon
    <3> QED BY <3>2, <3>3, <3>5
  <2>2. reader'.cursor \in 1..MaxRecords + 1 /\ reader'.cursor # 0
    BY <1>3, <1>8, <2>1
  <2>3. reader'.shown # <<>> /\ reader'.shown[Len(reader'.shown)] = reader'.cursor
    <3>1. page # <<>>
      BY <1>9, <2>1, EmptySeq
    <3> QED BY <1>9, <1>12, <2>1, <3>1
  <2>4. \A i \in 1..n : \/ found[i].id \in ToSet(reader'.shown)
                        \/ /\ found[i] \in ToSet(Log!AllLines') /\ found[i].readable
                           /\ found[i].matches /\ found[i].id < reader'.cursor
    <3> TAKE i \in 1..n
    <3>1. CASE i <= limit
      <4>1. i \in 1..p
        BY <2>1, <3>1
      <4> QED BY <1>13, <4>1
    <3>2. CASE ~(i <= limit)
      <4>1. limit < i
        BY <1>3, <3>2
      <4>2. found[limit].id > found[i].id
        BY <1>4, <2>1, <4>1
      <4>3. found[i].id < reader'.cursor
        BY <1>8, <2>1, <4>2
      <4> QED BY <1>4, <1>6, <4>3
    <3> QED BY <3>1, <3>2
  <2>5. ASSUME NEW x \in reader'.expected
        PROVE  \/ x \in ToSet(reader'.shown)
               \/ \E l \in ToSet(Log!AllLines') :
                    l.readable /\ l.matches /\ l.id = x /\ x < reader'.cursor
    <3>1. x \in ToSet(reader.shown) \/ \E i \in 1..n : x = found[i].id
      <4>1. CASE reader.cursor = 0
        BY <1>5, <1>14, <2>5, <4>1
      <4>2. CASE reader.cursor # 0
        <5>1. \/ x \in ToSet(reader.shown)
              \/ \E l \in ToSet(Log!AllLines) :
                   l.readable /\ l.matches /\ l.id = x /\ x < reader.cursor
          BY <1>1, <1>5, <2>5, <4>2 DEF LogInv, ReaderFollows
        <5> QED BY <1>4, <5>1 DEF Log!Before
      <4> QED BY <4>1, <4>2
    <3>2. CASE x \in ToSet(reader.shown)
      BY <1>12, <3>2
    <3>3. CASE \E i \in 1..n : x = found[i].id
      BY <2>4, <3>3
    <3> QED BY <3>1, <3>2, <3>3
  <2>6. reader' \in [cursor : 0..MaxRecords + 1, shown : Seq(Nat),
                     expected : SUBSET (1..MaxRecords + 1), done : BOOLEAN]
    <3>1. reader'.cursor \in 0..MaxRecords + 1
      BY <1>3, <2>2
    <3>2. reader'.done \in BOOLEAN
      BY <2>1, Zenon
    <3> QED BY <1>5, <1>12, <1>15, <3>1, <3>2
  <2>7. ReaderFollows'
    <3>1. Falling(reader.shown)' <=> Falling(reader'.shown)
      BY DEF Falling
    <3> QED BY <1>12, <2>1, <2>2, <2>3, <2>5, <3>1, Zenon DEF ReaderFollows
  <2> QED BY <1>1, <2>6, <2>7, ReaderStep
<1>17. CASE ~(n > limit)
  <2>1. reader'.cursor = 0 /\ p = n /\ reader'.done /\ reader'.done = TRUE
    <3>1. n <= limit
      BY <1>3, <1>7, <1>17
    <3>2. reader'.cursor = 0
      BY <1>5, <1>17 DEF Log!NextCursor
    <3> QED BY <1>5, <1>7, <1>17, <3>1, <3>2
  <2>2. ASSUME NEW x \in reader'.expected
        PROVE  x \in ToSet(reader'.shown)
    <3>1. x \in ToSet(reader.shown) \/ \E i \in 1..n : x = found[i].id
      <4>1. CASE reader.cursor = 0
        BY <1>5, <1>14, <2>2, <4>1
      <4>2. CASE reader.cursor # 0
        <5>1. \/ x \in ToSet(reader.shown)
              \/ \E l \in ToSet(Log!AllLines) :
                   l.readable /\ l.matches /\ l.id = x /\ x < reader.cursor
          BY <1>1, <1>5, <2>2, <4>2 DEF LogInv, ReaderFollows
        <5> QED BY <1>4, <5>1 DEF Log!Before
      <4> QED BY <4>1, <4>2
    <3> QED BY <1>12, <1>13, <2>1, <3>1
  <2>3. reader' \in [cursor : 0..MaxRecords + 1, shown : Seq(Nat),
                     expected : SUBSET (1..MaxRecords + 1), done : BOOLEAN]
    <3>1. reader'.cursor \in 0..MaxRecords + 1 /\ reader'.done \in BOOLEAN
      BY <1>3, <2>1
    <3> QED BY <1>5, <1>12, <1>15, <3>1
  <2>4. ReaderFollows'
    <3>1. Falling(reader.shown)' <=> Falling(reader'.shown)
      BY DEF Falling
    <3>2. reader'.expected \subseteq ToSet(reader'.shown)
      BY <2>2
    <3> QED BY <1>12, <2>1, <3>1, <3>2, Zenon DEF ReaderFollows
  <2> QED BY <1>1, <2>3, <2>4, ReaderStep
<1> QED BY <1>16, <1>17

\* No step breaks the invariant.
LEMMA LogStep == LogInv /\ [Log!Next]_(Log!logVars) => LogInv'
<1>1. CASE UNCHANGED Log!logVars
  <2>1. LogInv => LogInv'
    BY <1>1 DEF Log!logVars, LogInv, LogTypes, LinesAreNumbered, ReaderFollows, Rising, Below,
                Falling, Log!AllLines
  <2> QED BY <2>1
<1>2. CASE Log!Next
  BY <1>2, AppendKeepsLog, RestartKeepsLog, CrashInWriteKeepsLog, CrashInRotationKeepsLog,
     ReadPageKeepsLog, ReadAgainKeepsLog DEF Log!Next
<1> QED BY <1>1, <1>2

\* The invariant says what is asked.
LEMMA LogHolds == LogInv => Log!TypeOK /\ Log!PagesShowEverything
<1> SUFFICES ASSUME LogInv PROVE Log!TypeOK /\ Log!PagesShowEverything
  OBVIOUS
<1>1. Log!TypeOK
  BY LogNumbers DEF LogInv, LogTypes, Log!TypeOK
<1>2. Log!PagesShowEverything
  BY LogOperators DEF LogInv, ReaderFollows, Falling, Log!PagesShowEverything
<1> QED BY <1>1, <1>2

(***************************************************************************)
(* Webhooks.                                                               *)
(***************************************************************************)
\* Rows and publishers are records with these fields.
HookShapes ==
  /\ delivery = [d \in Deliveries |->
       [status |-> delivery[d].status, attempts |-> delivery[d].attempts]]
  /\ publisher = [p \in Publishers |->
       [pc |-> publisher[p].pc, rows |-> publisher[p].rows,
        attempt |-> publisher[p].attempt, ok |-> publisher[p].ok]]

\* A publisher that holds a 2xx answer has it from the endpoint of its row.
AnswersAreTrue ==
  \A p \in Publishers :
    publisher[p].pc = "record" /\ publisher[p].ok => Head(publisher[p].rows) \in accepted

HookInvariant == HookShapes /\ AnswersAreTrue /\ DeliveredWasAccepted

-----------------------------------------------------------------------------
\* A publisher is its four fields.
LEMMA PublisherShape ==
  ASSUME HookShapes, NEW p \in Publishers
  PROVE  /\ publisher[p] = [pc |-> publisher[p].pc, rows |-> publisher[p].rows,
                            attempt |-> publisher[p].attempt, ok |-> publisher[p].ok]
         /\ p \in DOMAIN publisher
BY DEF HookShapes

\* A delivery is its status and its attempts.
LEMMA DeliveryShape ==
  ASSUME HookShapes, NEW d \in Deliveries
  PROVE  delivery[d] = [status |-> delivery[d].status, attempts |-> delivery[d].attempts]
BY DEF HookShapes

\* Fields of the record of a publisher, and one of a row, are changed.
LEMMA ShapedExcept ==
  ASSUME NEW me, NEW x, NEW y,
         me = [pc |-> me.pc, rows |-> me.rows, attempt |-> me.attempt, ok |-> me.ok]
  PROVE  /\ [me EXCEPT !.pc = x, !.attempt = y] =
              [pc |-> x, rows |-> me.rows, attempt |-> y, ok |-> me.ok]
         /\ [me EXCEPT !.pc = x, !.rows = y] =
              [pc |-> x, rows |-> y, attempt |-> me.attempt, ok |-> me.ok]
<1>1. PICK a, b, c, d : me = [pc |-> a, rows |-> b, attempt |-> c, ok |-> d]
  OBVIOUS
<1>2. me.rows = b /\ me.attempt = c /\ me.ok = d
  BY <1>1
<1> DEFINE moved == [pc |-> x, rows |-> b, attempt |-> c, ok |-> d]
<1>3. [me EXCEPT !.pc = x] = moved
  BY <1>1
<1>4. /\ [moved EXCEPT !.attempt = y] = [pc |-> x, rows |-> b, attempt |-> y, ok |-> d]
      /\ [moved EXCEPT !.rows = y] = [pc |-> x, rows |-> y, attempt |-> c, ok |-> d]
  OBVIOUS
<1> HIDE DEF moved
<1>5. /\ [me EXCEPT !.pc = x, !.attempt = y] = [[me EXCEPT !.pc = x] EXCEPT !.attempt = y]
      /\ [me EXCEPT !.pc = x, !.rows = y] = [[me EXCEPT !.pc = x] EXCEPT !.rows = y]
  OBVIOUS
<1> QED BY <1>2, <1>3, <1>4, <1>5, Zenon

\* A delivery with another status.
LEMMA RowExcept ==
  ASSUME NEW a, NEW b, NEW x
  PROVE  [[status |-> a, attempts |-> b] EXCEPT !.status = x] = [status |-> x, attempts |-> b]
OBVIOUS

\* Where a publisher goes next it holds no answer.
LEMMA FollowingAnswersNothing ==
  ASSUME NEW rows
  PROVE  /\ Following(rows) = [pc |-> Following(rows).pc, rows |-> Following(rows).rows,
                               attempt |-> Following(rows).attempt, ok |-> Following(rows).ok]
         /\ Following(rows).pc # "record"
BY DEF Following, IdlePublisher

\* A publisher that goes on without an answer, while no row becomes delivered.
LEMMA MovesKeep ==
  ASSUME HookInvariant, NEW p \in Publishers, NEW next,
         next = [pc |-> next.pc, rows |-> next.rows, attempt |-> next.attempt,
                 ok |-> next.ok],
         next.pc # "record", Become(p, next), UNCHANGED <<delivery, accepted>>
  PROVE  HookInvariant'
<1> USE DEF HookInvariant
<1>1. publisher' = [publisher EXCEPT ![p] = next]
  BY DEF Become
<1>2. HookShapes'
  BY <1>1 DEF HookShapes
<1>3. AnswersAreTrue'
  BY <1>1 DEF HookShapes, AnswersAreTrue
<1>4. DeliveredWasAccepted'
  BY DEF DeliveredWasAccepted
<1> QED BY <1>2, <1>3, <1>4

\* Rows that are rewritten, or deleted, but are not newly delivered.
LEMMA RowsKeep ==
  ASSUME HookInvariant, UNCHANGED <<publisher, accepted>>,
         delivery' = [d \in Deliveries |->
           [status |-> delivery'[d].status, attempts |-> delivery'[d].attempts]],
         \A d \in Deliveries : delivery'[d].status = "delivered"
                                 => delivery[d].status = "delivered"
  PROVE  HookInvariant'
BY DEF HookInvariant, HookShapes, AnswersAreTrue, DeliveredWasAccepted

-----------------------------------------------------------------------------
\* A delivery to a disabled endpoint is given up.
LEMMA GiveUpKeeps ==
  ASSUME HookInvariant, NEW p \in Publishers, GiveUpDisabled(p)
  PROVE  HookInvariant'
<1> DEFINE d == Current(p)
<1> USE DEF HookInvariant
<1>1. /\ publisher' = [publisher EXCEPT ![p] = Following(publisher[p].rows)]
      /\ delivery' = [delivery EXCEPT ![d].status = "dead"]
      /\ accepted' = accepted
  BY DEF GiveUpDisabled, Become
<1>2. \A x \in Deliveries : delivery'[x] =
        IF x = d THEN [status |-> "dead", attempts |-> delivery[d].attempts]
        ELSE delivery[x]
  <2> SUFFICES ASSUME NEW x \in Deliveries
               PROVE  delivery'[x] =
                        IF x = d THEN [status |-> "dead", attempts |-> delivery[d].attempts]
                        ELSE delivery[x]
    OBVIOUS
  <2>1. CASE x # d
    BY <1>1, <2>1 DEF HookShapes
  <2>2. CASE x = d
    <3>1. delivery'[d] = [delivery[d] EXCEPT !.status = "dead"]
      BY <1>1, <2>2 DEF HookShapes
    <3>2. [[status |-> delivery[d].status, attempts |-> delivery[d].attempts]
             EXCEPT !.status = "dead"] =
            [status |-> "dead", attempts |-> delivery[d].attempts]
      BY RowExcept
    <3>3. delivery[d] = [status |-> delivery[d].status, attempts |-> delivery[d].attempts]
      BY <2>2, DeliveryShape
    <3>4. delivery'[d] = [status |-> "dead", attempts |-> delivery[d].attempts]
      BY <3>1, <3>2, <3>3, Zenon
    <3> QED BY <2>2, <3>4
  <2> QED BY <2>1, <2>2
<1>3. \A x \in Deliveries : delivery'[x] =
        [status |-> delivery'[x].status, attempts |-> delivery'[x].attempts]
  BY <1>2, DeliveryShape
<1>4. delivery' = [x \in Deliveries |-> delivery'[x]]
  BY <1>1 DEF HookShapes
<1>5. publisher' = [q \in Publishers |->
        [pc |-> publisher'[q].pc, rows |-> publisher'[q].rows,
         attempt |-> publisher'[q].attempt, ok |-> publisher'[q].ok]]
  BY <1>1, FollowingAnswersNothing DEF HookShapes
<1>6. HookShapes'
  BY <1>3, <1>4, <1>5 DEF HookShapes
<1>7. AnswersAreTrue'
  BY <1>1, FollowingAnswersNothing DEF HookShapes, AnswersAreTrue
<1>8. DeliveredWasAccepted'
  BY <1>1, <1>2 DEF DeliveredWasAccepted
<1> QED BY <1>6, <1>7, <1>8

\* The endpoint's answer is noted before the publisher reads it.
LEMMA PostKeeps ==
  ASSUME HookInvariant, NEW p \in Publishers, NEW good \in BOOLEAN, Post(p, good)
  PROVE  HookInvariant'
<1> USE DEF HookInvariant
<1>1. /\ publisher' = [publisher EXCEPT ![p] =
                         [publisher[p] EXCEPT !.pc = "record", !.ok = good]]
      /\ delivery' = delivery
      /\ accepted' = IF good THEN accepted \cup {Head(publisher[p].rows)} ELSE accepted
  BY DEF Post, Become, Current
<1>2. publisher'[p] = [pc |-> "record", rows |-> publisher[p].rows,
                       attempt |-> publisher[p].attempt, ok |-> good]
  <2> DEFINE me == publisher[p]
  <2>1. me = [pc |-> me.pc, rows |-> me.rows, attempt |-> me.attempt, ok |-> me.ok]
    BY PublisherShape
  <2>2. publisher'[p] = [me EXCEPT !.pc = "record", !.ok = good]
    BY <1>1, PublisherShape
  <2> HIDE DEF me
  <2>3. PICK y : y = good
    OBVIOUS
  <2>4. [me EXCEPT !.pc = "record", !.ok = y] =
          [pc |-> "record", rows |-> me.rows, attempt |-> me.attempt, ok |-> y]
    <3>1. PICK a, b, c, d : me = [pc |-> a, rows |-> b, attempt |-> c, ok |-> d]
      BY <2>1
    <3>2. me.rows = b /\ me.attempt = c
      BY <3>1
    <3>3. [me EXCEPT !.pc = "record"] = [pc |-> "record", rows |-> b, attempt |-> c, ok |-> d]
      BY <3>1
    <3>4. [[pc |-> "record", rows |-> b, attempt |-> c, ok |-> d] EXCEPT !.ok = y] =
            [pc |-> "record", rows |-> b, attempt |-> c, ok |-> y]
      OBVIOUS
    <3> QED BY <3>2, <3>3, <3>4, Zenon
  <2> QED BY <2>2, <2>3, <2>4, Zenon DEF me
<1>3. \A q \in Publishers \ {p} : publisher'[q] = publisher[q]
  BY <1>1 DEF HookShapes
<1>4. HookShapes'
  BY <1>1, <1>2, <1>3 DEF HookShapes
<1>5. AnswersAreTrue'
  BY <1>1, <1>2, <1>3 DEF AnswersAreTrue
<1>6. DeliveredWasAccepted'
  BY <1>1 DEF DeliveredWasAccepted
<1> QED BY <1>4, <1>5, <1>6

\* A failed attempt leaves the status that another publisher has written.
LEMMA RecordKeeps ==
  ASSUME HookInvariant, NEW p \in Publishers, Record(p)
  PROVE  HookInvariant'
<1> DEFINE d == Current(p)
           me == publisher[p]
<1> USE DEF HookInvariant
<1>1. publisher' = [publisher EXCEPT ![p] = Following(me.rows)] /\ accepted' = accepted
  BY DEF Record, Become
<1>2. CASE delivery' = delivery
  BY <1>1, <1>2, FollowingAnswersNothing
  DEF HookShapes, AnswersAreTrue, DeliveredWasAccepted
<1>3. CASE delivery' = [delivery EXCEPT ![d] = Outcome(d, me.attempt, me.ok)]
  <2>1. Outcome(d, me.attempt, me.ok).status = "delivered"
          => me.ok \/ delivery[d].status = "delivered"
    BY DEF Outcome
  <2>2. me.ok => d \in accepted
    BY DEF Record, AnswersAreTrue, Current
  <2>3. HookShapes'
    BY <1>1, <1>3, FollowingAnswersNothing DEF HookShapes, Outcome
  <2>4. AnswersAreTrue'
    BY <1>1, FollowingAnswersNothing DEF HookShapes, AnswersAreTrue
  <2>5. DeliveredWasAccepted'
    BY <1>1, <1>3, <2>1, <2>2 DEF HookShapes, DeliveredWasAccepted
  <2> QED BY <2>3, <2>4, <2>5
<1> QED BY <1>2, <1>3 DEF Record

\* The steps of a publisher.
LEMMA PublisherKeeps ==
  ASSUME HookInvariant, NEW p \in Publishers, PublishStep(p)
  PROVE  HookInvariant'
<1>1. CASE ListDue(p)
  <2>1. PICK rows : Become(p, [IdlePublisher EXCEPT !.pc = "take", !.rows = rows])
    BY <1>1 DEF ListDue
  <2>2. [IdlePublisher EXCEPT !.pc = "take", !.rows = rows] =
          [pc |-> "take", rows |-> rows, attempt |-> 0, ok |-> FALSE]
    <3> DEFINE me == IdlePublisher
    <3>1. me = [pc |-> "idle", rows |-> <<>>, attempt |-> 0, ok |-> FALSE]
      BY DEF IdlePublisher
    <3>2. /\ me = [pc |-> me.pc, rows |-> me.rows, attempt |-> me.attempt, ok |-> me.ok]
          /\ me.attempt = 0 /\ me.ok = FALSE
      BY <3>1
    <3> HIDE DEF me
    <3>3. [me EXCEPT !.pc = "take", !.rows = rows] =
            [pc |-> "take", rows |-> rows, attempt |-> me.attempt, ok |-> me.ok]
      BY <3>2, ShapedExcept
    <3>4. [me EXCEPT !.pc = "take", !.rows = rows] =
            [pc |-> "take", rows |-> rows, attempt |-> 0, ok |-> FALSE]
      BY <3>2, <3>3
    <3> QED BY <3>4, Zenon DEF me
  <2>3. Become(p, [pc |-> "take", rows |-> rows, attempt |-> 0, ok |-> FALSE])
    BY <2>1, <2>2, Zenon
  <2> QED BY <1>1, <2>3, MovesKeep DEF ListDue
<1>2. CASE Skip(p)
  BY <1>2, MovesKeep, FollowingAnswersNothing DEF Skip
<1>3. CASE GiveUpDisabled(p)
  BY <1>3, GiveUpKeeps
<1>4. CASE SecretUnreadable(p)
  BY <1>4, MovesKeep DEF SecretUnreadable, IdlePublisher
<1>5. CASE Prepare(p)
  <2>1. publisher[p] = [pc |-> publisher[p].pc, rows |-> publisher[p].rows,
                        attempt |-> publisher[p].attempt, ok |-> publisher[p].ok]
    BY DEF HookInvariant, HookShapes
  <2>2. Become(p, [pc |-> "post", rows |-> publisher[p].rows,
                   attempt |-> delivery[Current(p)].attempts + 1, ok |-> publisher[p].ok])
    <3> DEFINE me == publisher[p]
               n == delivery[Current(p)].attempts + 1
    <3>1. Become(p, [me EXCEPT !.pc = "post", !.attempt = n])
      BY <1>5 DEF Prepare
    <3>2. me = [pc |-> me.pc, rows |-> me.rows, attempt |-> me.attempt, ok |-> me.ok]
      BY <2>1
    <3> HIDE DEF me, n
    <3>3. [me EXCEPT !.pc = "post", !.attempt = n] =
            [pc |-> "post", rows |-> me.rows, attempt |-> n, ok |-> me.ok]
      BY <3>2, ShapedExcept
    <3>4. Become(p, [pc |-> "post", rows |-> me.rows, attempt |-> n, ok |-> me.ok])
      BY <3>1, <3>3, Zenon
    <3> QED BY <3>4 DEF me, n
  <2> QED BY <1>5, <2>2, MovesKeep DEF Prepare
<1>6. ASSUME NEW ok \in BOOLEAN, Post(p, ok) PROVE HookInvariant'
  BY <1>6, PostKeeps
<1>7. CASE Record(p)
  BY <1>7, RecordKeeps
<1> QED BY <1>1, <1>2, <1>3, <1>4, <1>5, <1>6, <1>7 DEF PublishStep

-----------------------------------------------------------------------------
\* What is shown as delivered was accepted by its endpoint, for any number of
\* publishers that post one row at the same time (_deliver).
THEOREM DeliveredIsAccepted == HookSpec => []DeliveredWasAccepted
<1>1. HookInit => HookInvariant
  BY DEF HookInit, HookInvariant, HookShapes, AnswersAreTrue, DeliveredWasAccepted,
         NoDeliveryRow, IdlePublisher
<1>2. HookInvariant /\ [HookStep]_hookVars => HookInvariant'
  <2> SUFFICES ASSUME HookInvariant, [HookStep]_hookVars PROVE HookInvariant'
    OBVIOUS
  <2>1. ASSUME NEW p \in Publishers, PublishStep(p) PROVE HookInvariant'
    BY <2>1, PublisherKeeps
  <2>2. ASSUME NEW wanting \in SUBSET Endpoints, Enqueue(wanting) PROVE HookInvariant'
    <3>1. PICK new : delivery' = [d \in Deliveries |->
            IF d \in new THEN [status |-> "pending", attempts |-> 0] ELSE delivery[d]]
      BY <2>2 DEF Enqueue
    <3> QED BY <2>2, <3>1, RowsKeep DEF Enqueue, HookInvariant, HookShapes
  <2>3. ASSUME NEW d \in Deliveries, BecomeDue(d) \/ RetryDead(d) PROVE HookInvariant'
    <3>1. CASE BecomeDue(d)
      BY <3>1, RowsKeep DEF BecomeDue, HookInvariant, HookShapes
    <3>2. CASE RetryDead(d)
      <4>1. delivery' = [delivery EXCEPT ![d] = [status |-> "pending", attempts |-> 0]]
        BY <3>2 DEF RetryDead
      <4>2. delivery' = [x \in Deliveries |->
              [status |-> delivery'[x].status, attempts |-> delivery'[x].attempts]]
        BY <4>1 DEF HookInvariant, HookShapes
      <4>3. \A x \in Deliveries : delivery'[x].status = "delivered"
                                     => delivery[x].status = "delivered"
        BY <4>1 DEF HookInvariant, HookShapes
      <4> QED BY <3>2, <4>2, <4>3, RowsKeep DEF RetryDead
    <3> QED BY <2>3, <3>1, <3>2
  <2>4. ASSUME NEW e \in Endpoints, NEW enabled \in BOOLEAN,
               Patch(e, enabled) \/ Rotate(e) PROVE HookInvariant'
    BY <2>4, RowsKeep DEF Patch, Rotate, HookInvariant, HookShapes
  <2>5. ASSUME NEW e \in Endpoints, Delete(e) PROVE HookInvariant'
    BY <2>5, RowsKeep DEF Delete, HookInvariant, HookShapes, NoDeliveryRow
  <2>6. ASSUME NEW newKey \in BOOLEAN, Restart(newKey) PROVE HookInvariant'
    BY <2>6 DEF Restart, HookInvariant, HookShapes, AnswersAreTrue, DeliveredWasAccepted,
                IdlePublisher
  <2>7. CASE UNCHANGED hookVars
    BY <2>7 DEF hookVars, HookInvariant, HookShapes, AnswersAreTrue, DeliveredWasAccepted
  <2> QED BY <2>1, <2>2, <2>3, <2>4, <2>5, <2>6, <2>7 DEF HookStep
<1>3. HookInvariant => DeliveredWasAccepted
  BY DEF HookInvariant
<1> QED BY <1>1, <1>2, <1>3, PTL DEF HookSpec

(***************************************************************************)
(* The types of the deliveries.                                            *)
(***************************************************************************)

\* The rows and the publishers have their types.
HookTypes ==
  /\ endpoint \in [Endpoints -> EndpointRow]
  /\ delivery \in [Deliveries -> DeliveryRow]
  /\ due \in Seq(Deliveries)
  /\ publisher \in [Publishers -> [pc : {"idle", "take", "post", "record"},
                                   rows : Seq(Deliveries), attempt : 0..MaxAttempts,
                                   ok : BOOLEAN]]
  /\ bounds \in [events : 0..MaxEvents, retries : Nat, changes : Nat, stops : Nat]
  /\ accepted \subseteq Deliveries

\* No row is due twice, and none is due, or there, before its event has happened.
RowsHaveHappened ==
  /\ IsInjective(due)
  /\ \A d \in Range(due) : d[2] <= bounds.events
  /\ \A d \in Deliveries : delivery[d].status # "absent" => d[2] <= bounds.events

\* A pending row has an attempt left, and a publisher that works has a row.
AttemptsAreLeft ==
  /\ \A d \in Deliveries :
       delivery[d].status = "pending" => delivery[d].attempts < MaxAttempts
  /\ \A p \in Publishers : publisher[p].pc # "idle" => publisher[p].rows # <<>>

HookTyped == HookTypes /\ RowsHaveHappened /\ AttemptsAreLeft

\* The bounds of the deliveries, and of their numbers.
LEMMA HookNumbers ==
  /\ IsFiniteSet(Endpoints) /\ MaxAttempts \in Nat \ {0} /\ MaxEvents \in Nat
  /\ \A d \in Deliveries : d[1] \in Endpoints /\ d[2] \in 1..MaxEvents /\ d[2] \in Nat
BY PartsAssumption DEF Deliveries

\* The elements of a sequence.
LEMMA RangeIs ==
  ASSUME NEW S, NEW s \in Seq(S)
  PROVE  Range(s) = {s[i] : i \in 1..Len(s)} /\ Range(s) \subseteq S /\ DOMAIN s = 1..Len(s)
<1>1. DOMAIN s = 1..Len(s)
  BY LenProperties
<1>2. \A i \in 1..Len(s) : s[i] \in S
  BY ElementOfSeq
<1> QED BY <1>1, <1>2 DEF Range

\* A choice of rows that are all different.
LEMMA ChosenDiffer ==
  ASSUME NEW S, NEW s \in Seq(S), IsInjective(s), NEW W
  PROVE  /\ Chosen(s, W) \in Seq(S) /\ IsInjective(Chosen(s, W))
         /\ Range(Chosen(s, W)) \subseteq Range(s) \cap W
<1> DEFINE c == Chosen(s, W)
<1>1. c \in Seq(S) /\ \E f : Picks(f, c, s, W)
  BY ChosenPicks
<1>2. PICK f : Picks(f, c, s, W)
  BY <1>1
<1> HIDE DEF c
<1>3. /\ Range(c) = {c[i] : i \in 1..Len(c)} /\ DOMAIN c = 1..Len(c)
      /\ Range(s) = {s[i] : i \in 1..Len(s)} /\ DOMAIN s = 1..Len(s)
      /\ Len(c) \in Nat /\ Len(s) \in Nat
  BY <1>1, RangeIs
<1>4. \A i \in 1..Len(c) : f[i] \in 1..Len(s) /\ c[i] = s[f[i]] /\ c[i] \in W
  BY <1>2 DEF Picks
<1>5. Range(c) \subseteq Range(s) \cap W
  BY <1>3, <1>4
<1>6. IsInjective(c)
  <2> SUFFICES ASSUME NEW i \in 1..Len(c), NEW j \in 1..Len(c), c[i] = c[j] PROVE i = j
    BY <1>3 DEF IsInjective
  <2>1. f[i] = f[j]
    BY <1>3, <1>4 DEF IsInjective
  <2>2. ~(i < j) /\ ~(j < i)
    <3>1. f[i] \in Nat /\ f[j] \in Nat
      BY <1>3, <1>4
    <3> QED BY <1>2, <2>1, <3>1 DEF Picks
  <2> QED BY <1>3, <2>2
<1> QED BY <1>1, <1>5, <1>6 DEF c

\* Different rows behind different rows.
LEMMA ConcatDiffer ==
  ASSUME NEW S, NEW a \in Seq(S), NEW b \in Seq(S), IsInjective(a), IsInjective(b),
         Range(a) \cap Range(b) = {}
  PROVE  /\ a \o b \in Seq(S) /\ IsInjective(a \o b)
         /\ Range(a \o b) \subseteq Range(a) \cup Range(b)
<1> DEFINE m == Len(a)
           n == Len(b)
           s == a \o b
<1>1. /\ m \in Nat /\ n \in Nat /\ DOMAIN a = 1..m /\ DOMAIN b = 1..n
      /\ Range(a) = {a[i] : i \in 1..m} /\ Range(b) = {b[i] : i \in 1..n}
  BY RangeIs
<1>2. /\ s \in Seq(S) /\ Len(s) = m + n
      /\ \A i \in 1..m + n : s[i] = IF i <= m THEN a[i] ELSE b[i - m]
  BY ConcatProperties
<1> HIDE DEF m, n, s
<1>3. DOMAIN s = 1..m + n /\ Range(s) = {s[i] : i \in 1..m + n}
  BY <1>2, RangeIs
<1>4. \A i \in 1..m + n : \/ i \in 1..m /\ s[i] = a[i] /\ s[i] \in Range(a)
                          \/ i - m \in 1..n /\ s[i] = b[i - m] /\ s[i] \in Range(b)
  <2> TAKE i \in 1..m + n
  <2>1. CASE i <= m
    <3>1. i \in 1..m
      BY <1>1, <2>1
    <3> QED BY <1>1, <1>2, <2>1, <3>1
  <2>2. CASE ~(i <= m)
    <3>1. i - m \in 1..n
      BY <1>1, <2>2
    <3> QED BY <1>1, <1>2, <2>2, <3>1
  <2> QED BY <2>1, <2>2
<1>5. Range(s) \subseteq Range(a) \cup Range(b)
  BY <1>3, <1>4
<1>6. IsInjective(s)
  <2> SUFFICES ASSUME NEW i \in 1..m + n, NEW j \in 1..m + n, s[i] = s[j] PROVE i = j
    BY <1>3 DEF IsInjective
  <2>1. CASE s[i] \in Range(a)
    <3>1. s[j] \notin Range(b)
      BY <2>1
    <3>2. i \in 1..m /\ s[i] = a[i] /\ j \in 1..m /\ s[j] = a[j]
      BY <1>4, <2>1, <3>1
    <3> QED BY <1>1, <3>2 DEF IsInjective
  <2>2. CASE s[i] \notin Range(a)
    <3>1. i - m \in 1..n /\ s[i] = b[i - m] /\ j - m \in 1..n /\ s[j] = b[j - m]
      BY <1>4, <2>2
    <3>2. i - m = j - m
      BY <1>1, <3>1 DEF IsInjective
    <3> QED BY <1>1, <3>2
  <2> QED BY <2>1, <2>2
<1> QED BY <1>2, <1>5, <1>6 DEF s

\* One more row.
LEMMA AppendDiffers ==
  ASSUME NEW S, NEW a \in Seq(S), IsInjective(a), NEW d \in S, d \notin Range(a)
  PROVE  /\ Append(a, d) \in Seq(S) /\ IsInjective(Append(a, d))
         /\ Range(Append(a, d)) \subseteq Range(a) \cup {d}
<1> DEFINE q == <<d>>
<1>1. q \in Seq(S) /\ Append(a, d) = a \o q
  BY AppendIsConcat
<1>2. Range(q) = {d} /\ IsInjective(q)
  BY DEF Range, IsInjective
<1> HIDE DEF q
<1>3. Range(a) \cap Range(q) = {}
  BY <1>2
<1>4. /\ a \o q \in Seq(S) /\ IsInjective(a \o q)
      /\ Range(a \o q) \subseteq Range(a) \cup Range(q)
  BY <1>1, <1>2, <1>3, ConcatDiffer
<1> QED BY <1>1, <1>2, <1>4

\* Rows that are all different are as many as there are of them.
LEMMA AsManyAsThereAre ==
  ASSUME NEW S, NEW s \in Seq(S), IsInjective(s)
  PROVE  Len(s) = Cardinality(Range(s))
<1>1. Len(s) \in Nat /\ DOMAIN s = 1..Len(s) /\ Range(s) = {s[i] : i \in 1..Len(s)}
  BY RangeIs
<1>2. IsFiniteSet(1..Len(s)) /\ Cardinality(1..Len(s)) = Len(s)
  BY <1>1, FS_Interval
<1>3. s \in Bijection(1..Len(s), Range(s))
  BY <1>1 DEF Bijection, Injection, Surjection, IsInjective
<1> QED BY <1>2, <1>3, FS_Bijection DEF ExistsBijection

-----------------------------------------------------------------------------
\* A publisher goes on to its next row, or stops.
LEMMA FollowingTyped ==
  ASSUME NEW rows \in Seq(Deliveries)
  PROVE  /\ Following(rows) \in [pc : {"idle", "take", "post", "record"},
                                rows : Seq(Deliveries), attempt : 0..MaxAttempts,
                                ok : BOOLEAN]
         /\ Following(rows).pc # "idle" => Following(rows).rows # <<>>
<1>1. 0 \in 0..MaxAttempts /\ <<>> \in Seq(Deliveries)
  BY HookNumbers
<1>2. CASE Len(rows) <= 1
  <2>1. Following(rows) = [pc |-> "idle", rows |-> <<>>, attempt |-> 0, ok |-> FALSE]
    BY <1>2 DEF Following, IdlePublisher
  <2> QED BY <1>1, <2>1
<1>3. CASE ~(Len(rows) <= 1)
  <2> DEFINE t == Tail(rows)
  <2>1. t \in Seq(Deliveries) /\ t # <<>>
    <3>1. rows # <<>> /\ Len(rows) \in Nat
      BY <1>3, EmptySeq
    <3>2. t \in Seq(Deliveries) /\ Len(t) = Len(rows) - 1
      BY <3>1, HeadTailProperties
    <3> HIDE DEF t
    <3>3. Len(t) # 0
      BY <1>3, <3>1, <3>2
    <3>4. t # <<>>
      BY <3>3, EmptySeq
    <3> QED BY <3>2, <3>4
  <2>2. Following(rows) = [pc |-> "take", rows |-> t, attempt |-> 0, ok |-> FALSE]
    BY <1>3 DEF Following
  <2> HIDE DEF t
  <2> QED BY <1>1, <2>1, <2>2
<1> QED BY <1>2, <1>3

\* The row that a working publisher has in hand.
LEMMA CurrentTyped ==
  ASSUME HookTyped, NEW p \in Publishers, publisher[p].pc # "idle"
  PROVE  /\ Current(p) \in Deliveries /\ publisher[p].rows \in Seq(Deliveries)
         /\ publisher[p].rows # <<>>
<1>1. publisher[p].rows \in Seq(Deliveries) /\ publisher[p].rows # <<>>
  BY DEF HookTyped, HookTypes, AttemptsAreLeft
<1> QED BY <1>1, HeadTailProperties DEF Current

\* A publisher moves, and nothing else changes but what was accepted.
LEMMA PublisherTyped ==
  ASSUME HookTyped, NEW p \in Publishers, NEW next,
         next \in [pc : {"idle", "take", "post", "record"}, rows : Seq(Deliveries),
                  attempt : 0..MaxAttempts, ok : BOOLEAN],
         next.pc # "idle" => next.rows # <<>>,
         Become(p, next)
  PROVE  /\ publisher' \in [Publishers ->
                            [pc : {"idle", "take", "post", "record"},
                             rows : Seq(Deliveries), attempt : 0..MaxAttempts,
                             ok : BOOLEAN]]
         /\ \A q \in Publishers : publisher'[q].pc # "idle" => publisher'[q].rows # <<>>
<1> DEFINE T == [pc : {"idle", "take", "post", "record"}, rows : Seq(Deliveries),
                 attempt : 0..MaxAttempts, ok : BOOLEAN]
<1>1. publisher \in [Publishers -> T] /\ next \in T
  BY DEF HookTyped, HookTypes
<1>2. \A q \in Publishers : publisher[q].pc # "idle" => publisher[q].rows # <<>>
  BY DEF HookTyped, AttemptsAreLeft
<1>3. publisher' = [publisher EXCEPT ![p] = next]
  BY DEF Become
<1> HIDE DEF T
<1>4. publisher' \in [Publishers -> T]
      /\ \A q \in Publishers : publisher'[q] = IF q = p THEN next ELSE publisher[q]
  BY <1>1, <1>3
<1> QED BY <1>2, <1>4 DEF T

\* A publisher moves and no row changes.
LEMMA PublisherMoves ==
  ASSUME HookTyped, NEW p \in Publishers, NEW next,
         next \in [pc : {"idle", "take", "post", "record"}, rows : Seq(Deliveries),
                  attempt : 0..MaxAttempts, ok : BOOLEAN],
         next.pc # "idle" => next.rows # <<>>,
         Become(p, next), UNCHANGED <<endpoint, delivery, due, bounds>>,
         accepted' = accepted \/ accepted' \subseteq Deliveries
  PROVE  HookTyped'
<1>1. /\ publisher' \in [Publishers ->
                            [pc : {"idle", "take", "post", "record"},
                             rows : Seq(Deliveries), attempt : 0..MaxAttempts,
                             ok : BOOLEAN]]
      /\ \A q \in Publishers : publisher'[q].pc # "idle" => publisher'[q].rows # <<>>
  BY PublisherTyped
<1>2. HookTypes'
  BY <1>1 DEF HookTyped, HookTypes
<1>3. RowsHaveHappened'
  BY DEF HookTyped, RowsHaveHappened, IsInjective, Range
<1>4. AttemptsAreLeft'
  BY <1>1 DEF HookTyped, AttemptsAreLeft
<1> QED BY <1>2, <1>3, <1>4 DEF HookTyped

\* Some rows are rewritten, and those that are due are chosen from those that were.
LEMMA RowsTyped ==
  ASSUME HookTyped, NEW W,
         delivery' \in [Deliveries -> DeliveryRow],
         \A d \in Deliveries : delivery'[d].status # "absent" => delivery[d].status # "absent",
         \A d \in Deliveries :
           delivery'[d].status = "pending" => delivery'[d].attempts < MaxAttempts,
         due' = due \/ due' = Chosen(due, W), bounds'.events = bounds.events
  PROVE  /\ due' \in Seq(Deliveries) /\ RowsHaveHappened'
<1>1. due \in Seq(Deliveries) /\ IsInjective(due)
      /\ (\A d \in Range(due) : d[2] <= bounds.events)
      /\ (\A d \in Deliveries : delivery[d].status # "absent" => d[2] <= bounds.events)
  BY DEF HookTyped, HookTypes, RowsHaveHappened
<1>2. /\ Chosen(due, W) \in Seq(Deliveries) /\ IsInjective(Chosen(due, W))
      /\ Range(Chosen(due, W)) \subseteq Range(due) \cap W
  BY <1>1, ChosenDiffer
<1>3. due' \in Seq(Deliveries) /\ IsInjective(due') /\ Range(due') \subseteq Range(due)
  BY <1>1, <1>2
<1>4. (IsInjective(due)' <=> IsInjective(due')) /\ Range(due)' = Range(due')
  BY DEF IsInjective, Range
<1>5. RowsHaveHappened'
  BY <1>1, <1>3, <1>4 DEF RowsHaveHappened
<1> QED BY <1>3, <1>5

-----------------------------------------------------------------------------
\* The rows that are due are listed.
LEMMA ListDueTyped ==
  ASSUME HookTyped, NEW p \in Publishers, ListDue(p) PROVE HookTyped'
<1> DEFINE rows == Chosen(due, {d \in Deliveries : Pending(d)})
           next == [pc |-> "take", rows |-> rows, attempt |-> 0, ok |-> FALSE]
<1>1. rows # <<>> /\ UNCHANGED <<endpoint, delivery, due, bounds, accepted>>
      /\ Become(p, [IdlePublisher EXCEPT !.pc = "take", !.rows = rows])
  BY DEF ListDue
<1>2. rows \in Seq(Deliveries)
  BY ChosenPicks DEF HookTyped, HookTypes
<1> HIDE DEF rows
<1>3. [IdlePublisher EXCEPT !.pc = "take", !.rows = rows] = next
  <2> DEFINE me == IdlePublisher
  <2>1. /\ me = [pc |-> me.pc, rows |-> me.rows, attempt |-> me.attempt, ok |-> me.ok]
        /\ me.attempt = 0 /\ me.ok = FALSE
    BY DEF IdlePublisher
  <2> HIDE DEF me
  <2>2. [me EXCEPT !.pc = "take", !.rows = rows] =
          [pc |-> "take", rows |-> rows, attempt |-> me.attempt, ok |-> me.ok]
    BY <2>1, ShapedExcept
  <2>3. [me EXCEPT !.pc = "take", !.rows = rows] = next
    BY <2>1, <2>2
  <2> QED BY <2>3, Zenon DEF me
<1>4. next \in [pc : {"idle", "take", "post", "record"}, rows : Seq(Deliveries),
               attempt : 0..MaxAttempts, ok : BOOLEAN]
      /\ next.rows # <<>>
  BY <1>1, <1>2, HookNumbers
<1>5. Become(p, next)
  BY <1>1, <1>3
<1> HIDE DEF next
<1> QED BY <1>1, <1>4, <1>5, PublisherMoves

\* A row that is not pending any more.
LEMMA SkipTyped ==
  ASSUME HookTyped, NEW p \in Publishers, Skip(p) PROVE HookTyped'
<1>1. publisher[p].pc # "idle" /\ Become(p, Following(publisher[p].rows))
      /\ UNCHANGED <<endpoint, delivery, due, bounds, accepted>>
  BY DEF Skip
<1>2. publisher[p].rows \in Seq(Deliveries)
  BY <1>1, CurrentTyped
<1> QED BY <1>1, <1>2, FollowingTyped, PublisherMoves

\* A secret that cannot be read.
LEMMA UnreadableTyped ==
  ASSUME HookTyped, NEW p \in Publishers, SecretUnreadable(p) PROVE HookTyped'
<1>1. Become(p, IdlePublisher) /\ UNCHANGED <<endpoint, delivery, due, bounds, accepted>>
  BY DEF SecretUnreadable
<1>2. IdlePublisher \in [pc : {"idle", "take", "post", "record"}, rows : Seq(Deliveries),
                        attempt : 0..MaxAttempts, ok : BOOLEAN]
      /\ IdlePublisher.pc = "idle"
  BY HookNumbers, EmptySeq DEF IdlePublisher
<1> QED BY <1>1, <1>2, PublisherMoves

\* A pending row has an attempt left.
LEMMA PrepareTyped ==
  ASSUME HookTyped, NEW p \in Publishers, Prepare(p) PROVE HookTyped'
<1> DEFINE d == Current(p)
           me == publisher[p]
           n == delivery[d].attempts + 1
           next == [me EXCEPT !.pc = "post", !.attempt = n]
<1>1. me.pc # "idle" /\ Pending(d) /\ Become(p, next)
      /\ UNCHANGED <<endpoint, delivery, due, bounds, accepted>>
  BY DEF Prepare
<1>2. d \in Deliveries /\ me.rows # <<>>
  BY <1>1, CurrentTyped
<1>3. n \in 0..MaxAttempts
  <2>1. delivery[d].attempts \in 0..MaxAttempts /\ delivery[d].attempts < MaxAttempts
    BY <1>1, <1>2 DEF HookTyped, HookTypes, AttemptsAreLeft, Pending, DeliveryRow
  <2> QED BY <2>1, HookNumbers
<1>4. me \in [pc : {"idle", "take", "post", "record"}, rows : Seq(Deliveries),
             attempt : 0..MaxAttempts, ok : BOOLEAN]
  BY DEF HookTyped, HookTypes
<1> HIDE DEF me, n, d
<1>5. next \in [pc : {"idle", "take", "post", "record"}, rows : Seq(Deliveries),
               attempt : 0..MaxAttempts, ok : BOOLEAN]
      /\ next.rows = me.rows
  BY <1>3, <1>4
<1> HIDE DEF next
<1> QED BY <1>1, <1>2, <1>5, PublisherMoves

\* The answer to an attempt.
LEMMA PostTyped ==
  ASSUME HookTyped, NEW p \in Publishers, NEW good \in BOOLEAN, Post(p, good)
  PROVE  HookTyped'
<1> DEFINE me == publisher[p]
           next == [me EXCEPT !.pc = "record", !.ok = good]
<1>1. me.pc # "idle" /\ Become(p, next) /\ UNCHANGED <<endpoint, delivery, due, bounds>>
      /\ accepted' = IF good THEN accepted \cup {Current(p)} ELSE accepted
  BY DEF Post
<1>2. Current(p) \in Deliveries /\ me.rows # <<>>
  BY <1>1, CurrentTyped
<1>3. me \in [pc : {"idle", "take", "post", "record"}, rows : Seq(Deliveries),
             attempt : 0..MaxAttempts, ok : BOOLEAN]
  BY DEF HookTyped, HookTypes
<1> HIDE DEF me
<1>4. next \in [pc : {"idle", "take", "post", "record"}, rows : Seq(Deliveries),
               attempt : 0..MaxAttempts, ok : BOOLEAN]
      /\ next.rows = me.rows
  BY <1>3
<1> HIDE DEF next
<1>5. accepted' \subseteq Deliveries
  BY <1>1, <1>2 DEF HookTyped, HookTypes
<1> QED BY <1>1, <1>2, <1>4, <1>5, PublisherMoves

\* The row of a publisher is rewritten and taken from those that are due.
LEMMA RewriteTyped ==
  ASSUME HookTyped, NEW p \in Publishers, publisher[p].pc # "idle",
         NEW row \in DeliveryRow,
         row.status # "absent" => delivery[Current(p)].status # "absent",
         row.status = "pending" => row.attempts < MaxAttempts,
         delivery' = [delivery EXCEPT ![Current(p)] = row],
         due' = Chosen(due, Deliveries \ {Current(p)}),
         Become(p, Following(publisher[p].rows)),
         UNCHANGED <<endpoint, bounds, accepted>>
  PROVE  HookTyped'
<1> DEFINE d == Current(p)
<1>1. d \in Deliveries /\ publisher[p].rows \in Seq(Deliveries)
  BY CurrentTyped
<1> HIDE DEF d
<1>2. delivery \in [Deliveries -> DeliveryRow] /\ delivery' = [delivery EXCEPT ![d] = row]
  BY DEF HookTyped, HookTypes, d
<1>3. delivery' \in [Deliveries -> DeliveryRow]
      /\ \A x \in Deliveries : delivery'[x] = IF x = d THEN row ELSE delivery[x]
  BY <1>1, <1>2
<1>4. row.status # "absent" => delivery[d].status # "absent"
  BY DEF d
<1>5. /\ \A x \in Deliveries : delivery'[x].status # "absent"
                                 => delivery[x].status # "absent"
      /\ \A x \in Deliveries :
           delivery'[x].status = "pending" => delivery'[x].attempts < MaxAttempts
  BY <1>3, <1>4 DEF HookTyped, AttemptsAreLeft
<1>6. due' \in Seq(Deliveries) /\ RowsHaveHappened'
  BY <1>3, <1>5, RowsTyped
<1>7. /\ publisher' \in [Publishers ->
                            [pc : {"idle", "take", "post", "record"},
                             rows : Seq(Deliveries), attempt : 0..MaxAttempts,
                             ok : BOOLEAN]]
      /\ \A q \in Publishers : publisher'[q].pc # "idle" => publisher'[q].rows # <<>>
  BY <1>1, FollowingTyped, PublisherTyped
<1>8. HookTypes'
  BY <1>3, <1>6, <1>7 DEF HookTyped, HookTypes
<1>9. AttemptsAreLeft'
  BY <1>5, <1>7 DEF AttemptsAreLeft
<1> QED BY <1>6, <1>8, <1>9 DEF HookTyped

\* A delivery that is given up.
LEMMA GiveUpTyped ==
  ASSUME HookTyped, NEW p \in Publishers, GiveUpDisabled(p) PROVE HookTyped'
<1> DEFINE d == Current(p)
           row == [delivery[d] EXCEPT !.status = "dead"]
<1>1. /\ publisher[p].pc # "idle" /\ Pending(d)
      /\ delivery' = [delivery EXCEPT ![d].status = "dead"]
      /\ due' = Chosen(due, Deliveries \ {d})
      /\ Become(p, Following(publisher[p].rows))
      /\ UNCHANGED <<endpoint, bounds, accepted>>
  BY DEF GiveUpDisabled
<1>2. d \in Deliveries
  BY <1>1, CurrentTyped
<1>3. delivery[d] \in DeliveryRow /\ delivery[d].status # "absent"
  BY <1>1, <1>2 DEF HookTyped, HookTypes, Pending
<1>4. row \in DeliveryRow /\ row.status = "dead"
  BY <1>3 DEF DeliveryRow
<1>5. delivery' = [delivery EXCEPT ![d] = row]
  BY <1>1
<1> HIDE DEF row
<1> QED BY <1>1, <1>3, <1>4, <1>5, RewriteTyped

\* An attempt that is written down: the last one leaves no pending row.
LEMMA RecordTyped ==
  ASSUME HookTyped, NEW p \in Publishers, Record(p) PROVE HookTyped'
<1> DEFINE d == Current(p)
           me == publisher[p]
           row == Outcome(d, me.attempt, me.ok)
<1>1. /\ me.pc # "idle" /\ Become(p, Following(me.rows))
      /\ UNCHANGED <<endpoint, bounds, accepted>>
  BY DEF Record
<1>2. d \in Deliveries /\ me.rows \in Seq(Deliveries)
  BY <1>1, CurrentTyped
<1>3. CASE delivery[d].status = "absent"
  <2>1. UNCHANGED <<delivery, due>>
    BY <1>3 DEF Record
  <2> QED BY <1>1, <1>2, <2>1, FollowingTyped, PublisherMoves
<1>4. CASE delivery[d].status # "absent"
  <2>1. delivery' = [delivery EXCEPT ![d] = row] /\ due' = Chosen(due, Deliveries \ {d})
    BY <1>4 DEF Record
  <2>2. me.attempt \in 0..MaxAttempts /\ delivery[d] \in DeliveryRow
    BY <1>2 DEF HookTyped, HookTypes
  <2>3. row \in DeliveryRow /\ (row.status = "pending" => row.attempts < MaxAttempts)
    BY <2>2, HookNumbers DEF Outcome, DeliveryRow
  <2> HIDE DEF row
  <2> QED BY <1>1, <1>4, <2>1, <2>3, RewriteTyped
<1> QED BY <1>3, <1>4

\* One more row is due.
LEMMA RowIsDue ==
  ASSUME HookTyped, NEW d \in Deliveries, delivery[d].status # "absent",
         NEW rest \in Seq(Deliveries), IsInjective(rest), Range(rest) \subseteq Range(due),
         d \notin Range(rest), due' = Append(rest, d), bounds'.events = bounds.events,
         \A x \in Deliveries : delivery'[x].status # "absent" => delivery[x].status # "absent"
  PROVE  due' \in Seq(Deliveries) /\ RowsHaveHappened'
<1>1. (\A x \in Range(due) : x[2] <= bounds.events)
      /\ (\A x \in Deliveries : delivery[x].status # "absent" => x[2] <= bounds.events)
  BY DEF HookTyped, RowsHaveHappened
<1>2. /\ due' \in Seq(Deliveries) /\ IsInjective(due')
      /\ Range(due') \subseteq Range(rest) \cup {d}
  BY AppendDiffers
<1>3. (IsInjective(due)' <=> IsInjective(due')) /\ Range(due)' = Range(due')
  BY DEF IsInjective, Range
<1>4. \A x \in Range(due') : x[2] <= bounds.events
  BY <1>1, <1>2
<1> QED BY <1>1, <1>2, <1>3, <1>4 DEF RowsHaveHappened

\* The time of a row comes.
LEMMA BecomeDueTyped ==
  ASSUME HookTyped, NEW d \in Deliveries, BecomeDue(d) PROVE HookTyped'
<1>1. /\ delivery[d].status # "absent" /\ d \notin Range(due) /\ due' = Append(due, d)
      /\ UNCHANGED <<endpoint, delivery, publisher, bounds, accepted>>
  BY DEF BecomeDue, Pending
<1>2. due \in Seq(Deliveries) /\ IsInjective(due)
  BY DEF HookTyped, HookTypes, RowsHaveHappened
<1>3. due' \in Seq(Deliveries) /\ RowsHaveHappened'
  BY <1>1, <1>2, RowIsDue
<1> QED BY <1>1, <1>3 DEF HookTyped, HookTypes, AttemptsAreLeft

\* A bound counts up, and it is not the number of events.
LEMMA BoundCounts ==
  ASSUME HookTyped, NEW what \in {"retries", "changes", "stops"}, NEW limit, Bound(what, limit)
  PROVE  /\ bounds' \in [events : 0..MaxEvents, retries : Nat, changes : Nat, stops : Nat]
         /\ bounds'.events = bounds.events
<1>1. PICK a \in 0..MaxEvents, b \in Nat, c \in Nat, d \in Nat :
        bounds = [events |-> a, retries |-> b, changes |-> c, stops |-> d]
  BY DEF HookTyped, HookTypes
<1>2. bounds' = [bounds EXCEPT ![what] = @ + 1]
  BY DEF Bound
<1>3. CASE what = "retries"
  <2>1. bounds' = [events |-> a, retries |-> b + 1, changes |-> c, stops |-> d]
    BY <1>1, <1>2, <1>3
  <2> QED BY <1>1, <2>1
<1>4. CASE what = "changes"
  <2>1. bounds' = [events |-> a, retries |-> b, changes |-> c + 1, stops |-> d]
    BY <1>1, <1>2, <1>4
  <2> QED BY <1>1, <2>1
<1>5. CASE what = "stops"
  <2>1. bounds' = [events |-> a, retries |-> b, changes |-> c, stops |-> d + 1]
    BY <1>1, <1>2, <1>5
  <2> QED BY <1>1, <2>1
<1> QED BY <1>3, <1>4, <1>5

\* A dead row becomes the last of those that are due.
LEMMA RetryTyped ==
  ASSUME HookTyped, NEW d \in Deliveries, RetryDead(d) PROVE HookTyped'
<1> DEFINE rest == Chosen(due, Deliveries \ {d})
           row == [status |-> "pending", attempts |-> 0]
<1>1. /\ delivery[d].status = "dead" /\ Bound("retries", MaxRetries)
      /\ delivery' = [delivery EXCEPT ![d] = row] /\ due' = Append(rest, d)
      /\ UNCHANGED <<endpoint, publisher, accepted>>
  BY DEF RetryDead
<1>2. due \in Seq(Deliveries) /\ IsInjective(due) /\ delivery \in [Deliveries -> DeliveryRow]
  BY DEF HookTyped, HookTypes, RowsHaveHappened
<1>3. rest \in Seq(Deliveries) /\ IsInjective(rest)
      /\ Range(rest) \subseteq Range(due) /\ d \notin Range(rest)
  BY <1>2, ChosenDiffer
<1> HIDE DEF rest
<1>4. row \in DeliveryRow /\ row.status = "pending" /\ row.attempts < MaxAttempts
  BY HookNumbers DEF DeliveryRow
<1> HIDE DEF row
<1>5. delivery' \in [Deliveries -> DeliveryRow]
      /\ \A x \in Deliveries : delivery'[x] = IF x = d THEN row ELSE delivery[x]
  BY <1>1, <1>2, <1>4
<1>6. \A x \in Deliveries : delivery'[x].status # "absent" => delivery[x].status # "absent"
  BY <1>1, <1>5
<1>7. \A x \in Deliveries :
        delivery'[x].status = "pending" => delivery'[x].attempts < MaxAttempts
  BY <1>4, <1>5 DEF HookTyped, AttemptsAreLeft
<1>8. /\ bounds' \in [events : 0..MaxEvents, retries : Nat, changes : Nat, stops : Nat]
      /\ bounds'.events = bounds.events
  BY <1>1, BoundCounts
<1>9. due' \in Seq(Deliveries) /\ RowsHaveHappened'
  BY <1>1, <1>3, <1>6, <1>8, RowIsDue
<1> QED BY <1>1, <1>5, <1>7, <1>8, <1>9 DEF HookTyped, HookTypes, AttemptsAreLeft

\* The rows of an event are new.
LEMMA EnqueueTyped ==
  ASSUME HookTyped, NEW wanting \in SUBSET Endpoints, Enqueue(wanting) PROVE HookTyped'
<1> DEFINE n == bounds.events + 1
           to == {x \in wanting : endpoint[x].present /\ endpoint[x].enabled}
           new == {<<e, n>> : e \in to}
           row == [status |-> "pending", attempts |-> 0]
<1>1. /\ Bound("events", MaxEvents)
      /\ delivery' = [d \in Deliveries |-> IF d \in new THEN row ELSE delivery[d]]
      /\ \E order \in SetToSeqs(new) : due' = due \o order
      /\ UNCHANGED <<endpoint, publisher, accepted>>
  BY DEF Enqueue
<1>2. /\ due \in Seq(Deliveries) /\ IsInjective(due)
      /\ delivery \in [Deliveries -> DeliveryRow]
      /\ bounds \in [events : 0..MaxEvents, retries : Nat, changes : Nat, stops : Nat]
      /\ \A d \in Range(due) : d[2] <= bounds.events
      /\ \A d \in Deliveries : delivery[d].status # "absent" => d[2] <= bounds.events
  BY DEF HookTyped, HookTypes, RowsHaveHappened
<1>3. /\ bounds' \in [events : 0..MaxEvents, retries : Nat, changes : Nat, stops : Nat]
      /\ bounds'.events = n /\ n \in 1..MaxEvents
  <2>1. PICK a \in 0..MaxEvents, b \in Nat, c \in Nat, d \in Nat :
          bounds = [events |-> a, retries |-> b, changes |-> c, stops |-> d]
    BY <1>2
  <2>2. bounds.events < MaxEvents /\ bounds' = [bounds EXCEPT !["events"] = @ + 1]
    BY <1>1 DEF Bound
  <2>3. a < MaxEvents /\ n = a + 1
    BY <2>1, <2>2
  <2>4. bounds' = [events |-> a + 1, retries |-> b, changes |-> c, stops |-> d]
    BY <2>1, <2>2
  <2> QED BY <2>3, <2>4, HookNumbers
<1>4. /\ new \subseteq Deliveries /\ IsFiniteSet(new) /\ Cardinality(new) \in Nat
      /\ \A d \in new : d[2] = n
  <2>1. new \subseteq Deliveries /\ \A d \in new : d[2] = n
    BY <1>3 DEF Deliveries
  <2>2. IsFiniteSet(to)
    <3>1. to \subseteq Endpoints
      OBVIOUS
    <3> QED BY <3>1, HookNumbers, FS_Subset
  <2> HIDE DEF to
  <2>3. IsFiniteSet(new)
    <3> DEFINE f == [e \in to |-> <<e, n>>]
    <3>1. f \in Surjection(to, new)
      BY DEF Surjection
    <3> HIDE DEF f, new
    <3> QED BY <2>2, <3>1, FS_Surjection
  <2> HIDE DEF new
  <2> QED BY <2>1, <2>3, FS_CardinalityType
<1>5. PICK order \in SetToSeqs(new) : due' = due \o order
  BY <1>1
<1> HIDE DEF new
<1>6. order \in Seq(Deliveries) /\ IsInjective(order) /\ Range(order) \subseteq new
  <2>1. /\ order \in [1..Cardinality(new) -> new]
        /\ \A i, j \in 1..Cardinality(new) : i # j => order[i] # order[j]
    BY DEF SetToSeqs
  <2> QED BY <1>4, <2>1 DEF IsInjective, Range
<1>7. Range(due) \cap Range(order) = {}
  <2> SUFFICES ASSUME NEW d \in Range(due), d \in Range(order) PROVE FALSE
    OBVIOUS
  <2>1. d[2] = n /\ d[2] <= bounds.events
    BY <1>2, <1>4, <1>6
  <2> QED BY <1>2, <2>1
<1>8. /\ due' \in Seq(Deliveries) /\ IsInjective(due')
      /\ Range(due') \subseteq Range(due) \cup Range(order)
  BY <1>2, <1>5, <1>6, <1>7, ConcatDiffer
<1>9. row \in DeliveryRow /\ row.status = "pending" /\ row.attempts < MaxAttempts
  BY HookNumbers DEF DeliveryRow
<1> HIDE DEF row, n
<1>10. delivery' \in [Deliveries -> DeliveryRow]
       /\ \A x \in Deliveries : delivery'[x] = IF x \in new THEN row ELSE delivery[x]
  BY <1>1, <1>2, <1>9
<1>11. n = bounds.events + 1 /\ bounds.events \in Nat
  BY <1>2 DEF n
<1>12. \A d \in Range(due') : d[2] <= n
  <2> TAKE d \in Range(due')
  <2>1. d \in Deliveries
    BY <1>8, RangeIs
  <2>2. d[2] = n \/ d[2] <= bounds.events
    BY <1>2, <1>4, <1>6, <1>8
  <2> QED BY <1>11, <2>1, <2>2, HookNumbers
<1>13. \A d \in Deliveries : delivery'[d].status # "absent" => d[2] <= n
  <2> TAKE d \in Deliveries
  <2> HAVE delivery'[d].status # "absent"
  <2>1. d[2] = n \/ d[2] <= bounds.events
    BY <1>2, <1>4, <1>10
  <2> QED BY <1>11, <2>1, HookNumbers
<1>14. RowsHaveHappened'
  <2>1. (IsInjective(due)' <=> IsInjective(due')) /\ Range(due)' = Range(due')
    BY DEF IsInjective, Range
  <2> QED BY <1>3, <1>8, <1>12, <1>13, <2>1 DEF RowsHaveHappened
<1>15. AttemptsAreLeft'
  BY <1>1, <1>9, <1>10 DEF HookTyped, AttemptsAreLeft
<1>16. HookTypes'
  BY <1>1, <1>3, <1>8, <1>10 DEF HookTyped, HookTypes
<1> QED BY <1>14, <1>15, <1>16 DEF HookTyped

\* An endpoint is patched or gets a new secret.
LEMMA EndpointsTyped ==
  ASSUME HookTyped, NEW e \in Endpoints, NEW enabled \in BOOLEAN,
         Patch(e, enabled) \/ Rotate(e)
  PROVE  HookTyped'
<1>1. Bound("changes", MaxChanges) /\ UNCHANGED <<delivery, due, publisher, accepted>>
  BY DEF Patch, Rotate
<1>2. endpoint \in [Endpoints -> EndpointRow]
  BY DEF HookTyped, HookTypes
<1>3. endpoint' \in [Endpoints -> EndpointRow]
  BY <1>2 DEF Patch, Rotate, EndpointRow
<1>4. /\ bounds' \in [events : 0..MaxEvents, retries : Nat, changes : Nat, stops : Nat]
      /\ bounds'.events = bounds.events
  BY <1>1, BoundCounts
<1>5. RowsHaveHappened'
  BY <1>1, <1>4 DEF HookTyped, RowsHaveHappened, IsInjective, Range
<1> QED BY <1>1, <1>3, <1>4, <1>5 DEF HookTyped, HookTypes, AttemptsAreLeft

\* An endpoint goes, and its rows with it.
LEMMA DeleteTyped ==
  ASSUME HookTyped, NEW e \in Endpoints, Delete(e) PROVE HookTyped'
<1> DEFINE W == {d \in Deliveries : EndpointOf(d) # e}
<1>1. /\ Bound("changes", MaxChanges) /\ UNCHANGED <<publisher, accepted>>
      /\ endpoint' = [endpoint EXCEPT ![e].present = FALSE, ![e].enabled = FALSE]
      /\ delivery' = [d \in Deliveries |->
                        IF EndpointOf(d) = e THEN NoDeliveryRow ELSE delivery[d]]
      /\ due' = Chosen(due, W)
  BY DEF Delete
<1> HIDE DEF W
<1>2. endpoint' \in [Endpoints -> EndpointRow]
  BY <1>1 DEF HookTyped, HookTypes, EndpointRow
<1>3. NoDeliveryRow \in DeliveryRow /\ NoDeliveryRow.status = "absent"
  BY HookNumbers DEF NoDeliveryRow, DeliveryRow
<1>4. delivery' \in [Deliveries -> DeliveryRow]
      /\ \A d \in Deliveries : delivery'[d] = NoDeliveryRow \/ delivery'[d] = delivery[d]
  BY <1>1, <1>3 DEF HookTyped, HookTypes
<1>5. /\ bounds' \in [events : 0..MaxEvents, retries : Nat, changes : Nat, stops : Nat]
      /\ bounds'.events = bounds.events
  BY <1>1, BoundCounts
<1>6. \A d \in Deliveries :
        /\ delivery'[d].status # "absent" => delivery[d].status # "absent"
        /\ delivery'[d].status = "pending" => delivery'[d].attempts < MaxAttempts
  BY <1>3, <1>4 DEF HookTyped, AttemptsAreLeft
<1>7. due' \in Seq(Deliveries) /\ RowsHaveHappened'
  BY <1>1, <1>4, <1>5, <1>6, RowsTyped
<1> QED BY <1>1, <1>2, <1>4, <1>5, <1>6, <1>7 DEF HookTyped, HookTypes, AttemptsAreLeft

\* The publishers start idle.
LEMMA RestartTyped ==
  ASSUME HookTyped, NEW newKey \in BOOLEAN, Restart(newKey) PROVE HookTyped'
<1>1. /\ Bound("stops", MaxRestarts) /\ UNCHANGED <<delivery, due, accepted>>
      /\ publisher' = [p \in Publishers |-> IdlePublisher]
      /\ endpoint' = [e \in Endpoints |-> [endpoint[e] EXCEPT !.readable = @ /\ ~newKey]]
  BY DEF Restart
<1>2. endpoint' \in [Endpoints -> EndpointRow]
  BY <1>1 DEF HookTyped, HookTypes, EndpointRow
<1>3. IdlePublisher \in [pc : {"idle", "take", "post", "record"}, rows : Seq(Deliveries),
                        attempt : 0..MaxAttempts, ok : BOOLEAN]
      /\ IdlePublisher.pc = "idle"
  BY HookNumbers, EmptySeq DEF IdlePublisher
<1>4. /\ bounds' \in [events : 0..MaxEvents, retries : Nat, changes : Nat, stops : Nat]
      /\ bounds'.events = bounds.events
  BY <1>1, BoundCounts
<1>5. RowsHaveHappened'
  BY <1>1, <1>4 DEF HookTyped, RowsHaveHappened, IsInjective, Range
<1>6. publisher' \in [Publishers -> [pc : {"idle", "take", "post", "record"},
                                    rows : Seq(Deliveries), attempt : 0..MaxAttempts,
                                    ok : BOOLEAN]]
      /\ \A p \in Publishers : publisher'[p].pc = "idle"
  BY <1>1, <1>3
<1> QED BY <1>1, <1>2, <1>4, <1>5, <1>6 DEF HookTyped, HookTypes, AttemptsAreLeft

\* The deliveries begin with their types.
LEMMA HooksBegin == HookInit => HookTyped
<1> SUFFICES ASSUME HookInit PROVE HookTyped
  OBVIOUS
<1>1. /\ due = <<>> /\ accepted = {}
      /\ bounds = [events |-> 0, retries |-> 0, changes |-> 0, stops |-> 0]
      /\ endpoint = [e \in Endpoints |->
                       [present |-> TRUE, enabled |-> TRUE, readable |-> TRUE]]
      /\ delivery = [d \in Deliveries |-> NoDeliveryRow]
      /\ publisher = [p \in Publishers |-> IdlePublisher]
  BY DEF HookInit
<1>2. IdlePublisher \in [pc : {"idle", "take", "post", "record"}, rows : Seq(Deliveries),
                        attempt : 0..MaxAttempts, ok : BOOLEAN]
      /\ IdlePublisher.pc = "idle"
  BY HookNumbers, EmptySeq DEF IdlePublisher
<1>3. NoDeliveryRow \in DeliveryRow /\ NoDeliveryRow.status = "absent"
  BY HookNumbers DEF NoDeliveryRow, DeliveryRow
<1>4. due \in Seq(Deliveries) /\ IsInjective(due) /\ Range(due) = {}
  BY <1>1, EmptySeq DEF IsInjective, Range
<1>5. bounds \in [events : 0..MaxEvents, retries : Nat, changes : Nat, stops : Nat]
  BY <1>1, HookNumbers
<1>6. HookTypes
  BY <1>1, <1>2, <1>3, <1>4, <1>5 DEF HookTypes, EndpointRow
<1>7. RowsHaveHappened /\ AttemptsAreLeft
  BY <1>1, <1>2, <1>3, <1>4 DEF RowsHaveHappened, AttemptsAreLeft
<1> QED BY <1>6, <1>7 DEF HookTyped

\* The invariant holds in every state.
LEMMA HooksTyped == HookSpec => []HookTyped
<1>1. HookTyped /\ [HookStep]_hookVars => HookTyped'
  <2> SUFFICES ASSUME HookTyped, [HookStep]_hookVars PROVE HookTyped'
    OBVIOUS
  <2>1. ASSUME NEW p \in Publishers, PublishStep(p) PROVE HookTyped'
    BY <2>1, ListDueTyped, SkipTyped, GiveUpTyped, UnreadableTyped, PrepareTyped, PostTyped,
       RecordTyped DEF PublishStep
  <2>2. CASE UNCHANGED hookVars
    BY <2>2 DEF hookVars, HookTyped, HookTypes, RowsHaveHappened, AttemptsAreLeft,
                IsInjective, Range
  <2> QED BY <2>1, <2>2, EnqueueTyped, BecomeDueTyped, RetryTyped, EndpointsTyped,
             DeleteTyped, RestartTyped DEF HookStep
<1> QED BY <1>1, HooksBegin, PTL DEF HookSpec

\* The rows that are due are as many as they are different.
LEMMA HooksAreTyped == HookSpec => []HookTypeOK
<1>1. HookTyped => HookTypeOK
  <2> SUFFICES ASSUME HookTyped PROVE HookTypeOK
    OBVIOUS
  <2>1. due \in Seq(Deliveries) /\ IsInjective(due)
    BY DEF HookTyped, HookTypes, RowsHaveHappened
  <2>2. Range(due) \subseteq Deliveries /\ Len(due) = Cardinality(Range(due))
    BY <2>1, RangeIs, AsManyAsThereAre
  <2>3. \A p \in Publishers : publisher[p].rows \in Seq(Deliveries)
    BY DEF HookTyped, HookTypes
  <2>4. \A p \in Publishers : Range(publisher[p].rows) \subseteq Deliveries
    BY <2>3, RangeIs
  <2> QED BY <2>2, <2>4 DEF HookTyped, HookTypes, HookTypeOK
<1> QED BY <1>1, HooksTyped, PTL
===============================================================================
