--------------------------- MODULE MCLibraryQuestions ---------------------------
(***************************************************************************)
(* Small libraries, reports and isolations: the questions about what the   *)
(* library holds that MCDecisions and MCReviewBlocks ask.                  *)
(***************************************************************************)
EXTENDS IsolationContract, Nullable

CONSTANT MaxSpan \* the longest range of episodes that one file may name

Library == INSTANCE LibraryReports

MCName ==
  [title |-> "t", year |-> 2001, type |-> "tv", season |-> 1, first |-> 1,
   last |-> Missing, version |-> "a"]

Unbound ==
  [object |-> Missing, parsed |-> MCName, tmdb |-> Missing, type |-> Missing,
   season |-> Missing, first |-> Missing, last |-> Missing, digest |-> Missing,
   infohash |-> Missing]

Bound ==
  [Unbound EXCEPT !.tmdb = 7, !.type = "tv", !.season = 1, !.first = 1]

Held ==
  {Unbound, Bound, [Bound EXCEPT !.last = 2], [Bound EXCEPT !.first = 3],
   [Bound EXCEPT !.last = 3], [Bound EXCEPT !.season = 2],
   [Bound EXCEPT !.season = Missing, !.first = Missing],
   [Bound EXCEPT !.type = "movie", !.season = Missing, !.first = Missing],
   [Bound EXCEPT !.tmdb = 8, !.infohash = "h"], [Unbound EXCEPT !.digest = "d"],
   [Bound EXCEPT !.digest = "d", !.parsed.version = "b"],
   [Bound EXCEPT !.season = 0], [Unbound EXCEPT !.parsed.title = Missing]}

FilesOf(shelf) == {[shelf[i] EXCEPT !.object = i] : i \in DOMAIN shelf}
LibraryOf(freshness, shelf) == [freshness |-> freshness, files |-> FilesOf(shelf)]

Probes ==
  {[Bound EXCEPT !.parsed = Missing, !.season = s, !.first = e,
                 !.last = IF more THEN e + 1 ELSE Missing] :
     s \in {Missing, 1}, e \in 1..3, more \in BOOLEAN}

IsInventoryQuestion(q) ==
  \E f \in {"fresh", "stale"}, shelf \in [1..3 -> Held], p \in Probes :
    q = [part |-> "inventory", library |-> LibraryOf(f, shelf), probe |-> p]

Aired(number) == [number |-> number, aired |-> TRUE, special |-> FALSE, ignored |-> FALSE]
InventoryReply(q) ==
  [check |-> Library!CheckInventory(q.library.files, q.probe),
   status |-> Library!Completeness({Aired(q.probe.first)}, q.library, 7, 1)]

Entry == [size : {1, 9}, directory : {FALSE}, digest : {Missing, "d"}, protected : BOOLEAN]
Shelved == Entry \cup {[size |-> Missing, directory |-> TRUE, digest |-> "d", protected |-> FALSE]}
Numbered(shelf) ==
  {[object |-> i, size |-> shelf[i].size, directory |-> shelf[i].directory,
    digest |-> shelf[i].digest, protected |-> shelf[i].protected] : i \in DOMAIN shelf}

IsCleanupQuestion(q) ==
  \E shelf \in [1..3 -> Shelved], c \in BOOLEAN :
    q = [part |-> "cleanup", entries |-> Numbered(shelf), complete |-> c]
CleanupReply(q) ==
  {selected \in SUBSET Library!Candidates(q.entries, 5) :
     Library!PlanCleanup(q.entries, q.complete, 5, selected) = "planned"}

Strm == [object : {1}, target : {Missing, 10, 11}, present : BOOLEAN, valid : BOOLEAN,
         managed : BOOLEAN]
IsRepairQuestion(q) ==
  \E item \in Strm, c, s, n \in BOOLEAN, t \in {"settled", "uncertain"} :
    q = [part |-> "repair", complete |-> c, inventory |-> {10}, strm |-> {item},
         subtitles |-> {[object |-> 2, required |-> TRUE, present |-> s]},
         naming |-> {[object |-> 3, compliant |-> n]},
         tasks |-> {[object |-> 4, state |-> t]}]
RepairReply(q) ==
  {selected \in SUBSET Library!HealthIssues(q) : Library!PlanRepairs(q, selected) = "planned"}

Place == Parents \X Names
FirstObject == CHOOSE o \in Objects : TRUE
FirstName == CHOOSE n \in Names : TRUE
IsIsolationQuestion(q) ==
  \E a \in {"isolate", "restore"}, p, i, g \in Place, t \in BOOLEAN,
     s, e \in Observation \cup {Malformed} :
    q = [part |-> "isolation", timedOut |-> t, seenSource |-> s, seenTarget |-> e,
         intent |-> [action |-> a, object |-> FirstObject, source |-> p, isolation |-> i,
                     target |-> g, managed |-> Parents]]

(***************************************************************************)
(* The groups of one plan step, and what was seen of their objects and     *)
(* places, entries that were never read included.                          *)
(***************************************************************************)
PartialMaps(keys) == UNION {[some -> Observation] : some \in SUBSET keys}

MCSteps == {e \in StepExpectation : e.sourceName # e.targetName}

\* Up to a renaming of the objects and the names, the first file is this one.
IsGroupQuestion(q) ==
  \E e, f \in MCSteps :
    /\ e.object = FirstObject /\ e.sourceName = FirstName
    /\ e.sourceParent = f.sourceParent
    /\ IsCompanionGroup(<<e, f>>)
    /\ \E s \in PartialMaps({e.object, f.object}),
          t \in PartialMaps({TargetPlace(e), TargetPlace(f)}) :
         q = [part |-> "group", group |-> GroupOf(<<e, f>>), sources |-> s, targets |-> t]
=============================================================================
