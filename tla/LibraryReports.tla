----------------------------- MODULE LibraryReports -----------------------------
(***************************************************************************)
(* What the program concludes from a scan of the library: the episodes of  *)
(* a season that are missing (api/seasons.py, episode_completeness.py),    *)
(* what a repair plan may repair (library_health.py) and what a cleanup    *)
(* plan may delete (storage_governance.py).                                *)
(*                                                                         *)
(* Files are those of InventoryDecisions.                                  *)
(***************************************************************************)
EXTENDS InventoryDecisions

CONSTANT MaxSpan \* the longest range of episodes that one file may name

Sum(f, S) == LET sum[T \in SUBSET S] ==
                   IF T = {} THEN 0
                   ELSE LET x == CHOOSE x \in T : TRUE IN f[x] + sum[T \ {x}]
             IN sum[S]

(***************************************************************************)
(* _episode_file_references: bound files of the season, with the episodes  *)
(* they are bound to; and files whose name alone speaks of the season,     *)
(* which are shown and never counted.                                      *)
(***************************************************************************)
EpisodesNamed(first, last) ==
  IF first = Missing \/ Given(last, first) < first \/ Given(last, first) - first > MaxSpan
  THEN {} ELSE first .. Given(last, first)

BoundTo(f, tmdb, season) == f.tmdb = tmdb /\ f.type = "tv" /\ f.season = season

FileReferences(files, tmdb, season) ==
  {[object |-> f.object, special |-> season = 0,
    episodes |-> EpisodesNamed(f.first, f.last),
    recognized |-> EpisodesNamed(f.first, f.last) # {}] :
      f \in {g \in files : BoundTo(g, tmdb, season)}}
  \cup
  {[object |-> f.object, special |-> season = 0,
    episodes |-> EpisodesNamed(f.parsed.first, f.parsed.last), recognized |-> FALSE] :
      f \in {g \in files : /\ ~BoundTo(g, tmdb, season)
                           /\ g.parsed.season = season /\ g.parsed.first # Missing}}

(***************************************************************************)
(* build_episode_matrix.  An episode of the baseline is [number, aired,    *)
(* special, ignored].                                                      *)
(***************************************************************************)
Counted(reference) == reference.recognized /\ ~reference.special

Owners(references, number) ==
  {r.object : r \in {s \in references : Counted(s) /\ number \in s.episodes}}

BugEpisodeStatus(episode, references, complete) ==
  LET owners == Cardinality(Owners(references, episode.number)) IN
  CASE episode.special -> "special"
    [] ~episode.special /\ episode.ignored -> "ignored"
    [] ~episode.special /\ ~episode.ignored /\ ~episode.aired -> "unaired"
    [] ~episode.special /\ ~episode.ignored /\ episode.aired ->
         CASE owners = 0 -> "missing"
           [] owners = 1 -> "owned"
           [] owners > 1 -> "multiple"

EpisodeStatus(episode, references, complete) ==
  LET owners == Cardinality(Owners(references, episode.number)) IN
  CASE episode.special -> "special"
    [] ~episode.special /\ episode.ignored -> "ignored"
    [] ~episode.special /\ ~episode.ignored /\ ~episode.aired -> "unaired"
    [] ~episode.special /\ ~episode.ignored /\ episode.aired ->
         CASE owners = 0 -> IF complete THEN "missing" ELSE "unknown"
           [] owners = 1 -> "owned"
           [] owners > 1 -> "multiple"

\* get_episode_completeness: only a fresh snapshot is complete.
Completeness(baseline, library, tmdb, season) ==
  [e \in baseline |->
     EpisodeStatus(e, FileReferences(library.files, tmdb, season),
                   library.freshness = "fresh")]

(***************************************************************************)
(* build_health_report.  A health snapshot is [complete, inventory, strm,  *)
(* subtitles, naming, tasks]; an issue names its evidence, how grave it is,*)
(* how it is repaired, and whether it rests on a complete inventory.       *)
(***************************************************************************)
Issue(check, object, severity, repair, rests) ==
  [check |-> check, object |-> object, severity |-> severity, repair |-> repair,
   rests |-> rests]

Managed(item) == IF item.managed THEN "auto" ELSE "confirm"

StrmIssues(s) ==
  {Issue("orphan", i.object, "error", Managed(i), TRUE) :
     i \in {j \in s.strm : j.target = Missing \/ ~j.present}}
  \cup {Issue("unknown_target", i.object, "warning", "none", TRUE) :
     i \in {j \in s.strm : j.target # Missing /\ j.present /\ j.target \notin s.inventory}}
  \cup {Issue("invalid", i.object, "error", Managed(i), FALSE) :
     i \in {j \in s.strm : ~j.valid}}

HealthIssues(s) ==
  StrmIssues(s)
  \cup {Issue("subtitle", i.object, "warning", "confirm", FALSE) :
     i \in {j \in s.subtitles : j.required /\ ~j.present}}
  \cup {Issue("naming", i.object, "warning", "confirm", TRUE) :
     i \in {j \in s.naming : ~j.compliant}}
  \cup {Issue("task", i.object, "error", "confirm", FALSE) :
     i \in {j \in s.tasks : j.state = "uncertain"}}
  \cup (IF s.complete THEN {} ELSE {Issue("inventory", Missing, "warning", "none", FALSE)})

Penalty == [critical |-> 40, error |-> 20, warning |-> 5, info |-> 1]
Health(s) == LET penalty == Sum([i \in HealthIssues(s) |-> Penalty[i.severity]], HealthIssues(s))
             IN IF penalty > 100 THEN 0 ELSE 100 - penalty

\* plan_repairs: the plan, or the reason there is none.
PlanRepairs(s, selected) ==
  IF ~(selected \subseteq HealthIssues(s)) THEN "issue_not_found"
  ELSE IF \E i \in selected : i.repair = "none" THEN "issue_not_repairable"
  ELSE IF ~s.complete /\ \E i \in selected : i.rests THEN "inventory_incomplete"
  ELSE IF \E i \in selected : i.repair # "auto" THEN "confirmation_required"
  ELSE "planned"

(***************************************************************************)
(* build_storage_report and plan_cleanup.  An entry is [object, size,      *)
(* directory, digest, protected].                                          *)
(***************************************************************************)
StoredFiles(entries) == {e \in entries : ~e.directory}
SizeOf(e) == Given(e.size, 0)

Duplicates(entries, digest) == {e \in StoredFiles(entries) : e.digest = digest}

Candidates(entries, threshold) ==
  {[kind |-> "exact_duplicate", of |-> d, entries |-> Duplicates(entries, d)] :
     d \in {c \in {e.digest : e \in StoredFiles(entries)} \ {Missing} :
              Cardinality(Duplicates(entries, c)) > 1}}
  \cup
  {[kind |-> "large_file", of |-> e.object, entries |-> {e}] :
     e \in {f \in StoredFiles(entries) : SizeOf(f) >= threshold}}

BugProtected(candidate) == \A e \in candidate.entries : e.protected
Protected(candidate) == \E e \in candidate.entries : e.protected

PlanCleanup(entries, complete, threshold, selected) ==
  IF ~complete THEN "scan_incomplete"
  ELSE IF ~(selected \subseteq Candidates(entries, threshold)) THEN "candidate_not_found"
  ELSE IF \E c \in selected : Protected(c) THEN "protected_candidate"
  ELSE "planned"

(***************************************************************************)
(* Two rules that were written apart agree: with a fresh snapshot whose    *)
(* files of the series are all bound to episodes, an aired episode is      *)
(* reported missing exactly when the check in front of a push would let it *)
(* be fetched (build_episode_matrix, check_inventory).                     *)
(***************************************************************************)
FullyBound(files, tmdb) ==
  \A f \in files : f.tmdb = tmdb =>
    f.type = "tv" /\ f.season # Missing /\ EpisodesNamed(f.first, f.last) # {}

MatrixAgrees(files, tmdb, season, number, status) ==
  LET probe == [object |-> Missing, parsed |-> Missing, tmdb |-> tmdb, type |-> "tv",
                season |-> season, first |-> number, last |-> Missing,
                digest |-> Missing, infohash |-> Missing]
  IN season > 0 /\ FullyBound(files, tmdb) =>
       (status = "missing" <=> CheckInventory(files, probe) = "not_found")

(***************************************************************************)
(* A scan that is stale or incomplete proves no absence: nothing is        *)
(* reported missing, and nothing that rests on the whole inventory is      *)
(* planned (api/seasons.py: "Stale, unknown, and incomplete scans all      *)
(* remain non-conclusive").  No plan deletes a protected file, be it the   *)
(* one that a group of duplicates would keep.                              *)
(***************************************************************************)
MissingIsProven(library, status) == status = "missing" => library.freshness = "fresh"

RepairsAreProven(s, planned) ==
  \A selected \in planned : \A i \in selected :
    /\ i.rests => s.complete
    /\ i.check = "orphan" => \E j \in s.strm : j.object = i.object /\ j.managed

CleanupIsProven(entries, complete, planned) ==
  \A selected \in planned :
    complete /\ \A c \in selected : \A e \in c.entries : ~e.protected
=============================================================================
