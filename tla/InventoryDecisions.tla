--------------------------- MODULE InventoryDecisions ---------------------------
(***************************************************************************)
(* Whether the library already holds what a push would fetch:              *)
(* library_inventory.py, and how inventory_push_guard.py combines its      *)
(* answers for all the enabled libraries.                                  *)
(*                                                                         *)
(* A file is [object, parsed, tmdb, type, season, first, last, digest,     *)
(* infohash].  parsed is what the parser reads from its name: [title,      *)
(* year, type, season, first, last, version]; the other fields come from   *)
(* the identity that a person has bound to the object, or are Missing.     *)
(***************************************************************************)
EXTENDS Nullable, Naturals, FiniteSets

Given(value, otherwise) == IF value # Missing THEN value ELSE otherwise

(***************************************************************************)
(* build_identity: the bound fields, completed by the parsed ones.         *)
(***************************************************************************)
TypeOf(f) == Given(f.type, f.parsed.type)
SeasonOf(f) == Given(f.season, f.parsed.season)
FirstOf(f) == Given(f.first, f.parsed.first)
LastOf(f) == Given(f.last, f.parsed.last)

Confidence(f) ==
  CASE f.tmdb # Missing -> "trusted"
    [] /\ f.tmdb = Missing /\ f.parsed.title # Missing
       /\ f.parsed.year # Missing /\ TypeOf(f) # "unknown" -> "candidate"
    [] /\ f.tmdb = Missing
       /\ \/ Missing \in {f.parsed.title, f.parsed.year}
          \/ TypeOf(f) = "unknown" -> "unknown"

\* _identity_key: what names one film, or one episode of one series.
EpisodeScope(f) ==
  IF TypeOf(f) # "tv" THEN <<>>
  ELSE IF FirstOf(f) = Missing THEN <<SeasonOf(f)>>
       ELSE <<SeasonOf(f), FirstOf(f), Given(LastOf(f), FirstOf(f))>>

IdentityKey(f) ==
  CASE f.tmdb # Missing -> <<"tmdb", TypeOf(f), f.tmdb, EpisodeScope(f)>>
    [] f.tmdb = Missing /\ f.parsed.title # Missing ->
         <<"candidate", TypeOf(f), f.parsed.title, f.parsed.year, EpisodeScope(f)>>
    [] f.tmdb = Missing /\ f.parsed.title = Missing -> <<"unknown">>

(***************************************************************************)
(* find_duplicate_groups: the files of a library that are one and the same.*)
(***************************************************************************)
ExactKey(f) ==
  CASE f.digest # Missing -> <<"digest", f.digest>>
    [] f.digest = Missing /\ f.infohash # Missing -> <<"infohash", f.infohash>>
    [] f.digest = Missing /\ f.infohash = Missing -> Missing

Grouped(files, kind, key) ==
  CASE kind = "exact_duplicate" -> {f \in files : ExactKey(f) = key}
    [] kind = "media_duplicate" ->
         {f \in files : f.tmdb # Missing /\ IdentityKey(f) = key}
    [] kind = "review_candidate" ->
         {f \in files : Confidence(f) = "candidate" /\ IdentityKey(f) = key}

DuplicateGroups(files) ==
  LET keys == ({ExactKey(f) : f \in files} \cup {IdentityKey(f) : f \in files})
              \ {Missing}
  IN {g \in {Grouped(files, kind, key) :
               kind \in {"exact_duplicate", "media_duplicate", "review_candidate"},
               key \in keys} : Cardinality(g) > 1}

(***************************************************************************)
(* _episode_scope_matches: the probed episodes overlap those of the file.  *)
(* Only the type that the probe itself gives makes it look at episodes.    *)
(***************************************************************************)
BugScopeMatches(f, probe) ==
  \/ probe.type # "tv"
  \/ /\ probe.season \in {Missing, SeasonOf(f)}
     /\ \/ probe.first = Missing
        \/ /\ FirstOf(f) # Missing
           /\ FirstOf(f) < Given(probe.last, probe.first)
           /\ Given(LastOf(f), FirstOf(f)) >= probe.first

ScopeMatches(f, probe) ==
  \/ probe.type # "tv"
  \/ /\ probe.season \in {Missing, SeasonOf(f)}
     /\ \/ probe.first = Missing
        \/ /\ FirstOf(f) # Missing
           /\ FirstOf(f) <= Given(probe.last, probe.first)
           /\ Given(LastOf(f), FirstOf(f)) >= probe.first

(***************************************************************************)
(* check_inventory on a complete snapshot.  A probe is a file whose parsed *)
(* name may be Missing: then nothing is looked up by name.                 *)
(***************************************************************************)
SameMedia(files, probe) ==
  {f \in files : /\ probe.tmdb # Missing /\ f.tmdb = probe.tmdb
                 /\ probe.type \in {Missing, TypeOf(f)}
                 /\ ScopeMatches(f, probe)}

\* The key of a file that has only the name and the type of the probe.
ProbeKey(probe) ==
  IdentityKey([probe EXCEPT !.tmdb = Missing, !.season = Missing,
                            !.first = Missing, !.last = Missing])

Exact(files, probe) ==
  \E f \in files :
    \/ probe.object # Missing /\ f.object = probe.object
    \/ probe.digest # Missing /\ f.digest = probe.digest
    \/ probe.infohash # Missing /\ f.infohash = probe.infohash

CheckInventory(files, probe) ==
  LET same == SameMedia(files, probe) IN
  IF Exact(files, probe) THEN "exact_duplicate"
  ELSE IF same # {} THEN
    IF /\ probe.parsed # Missing
       /\ \E f \in same : f.parsed.version = probe.parsed.version
    THEN "version_duplicate" ELSE "media_duplicate"
  ELSE IF probe.parsed # Missing /\ \E f \in files : IdentityKey(f) = ProbeKey(probe)
  THEN "needs_review"
  ELSE "not_found"

(***************************************************************************)
(* calculate_freshness.  age is Missing without a time of capture;         *)
(* threshold is the number of seconds for which a snapshot stays fresh.    *)
(***************************************************************************)
Freshness(complete, age, threshold) ==
  CASE ~complete -> "incomplete"
    [] complete /\ age = Missing -> "unknown"
    [] complete /\ age # Missing ->
         IF age <= threshold THEN "fresh" ELSE "stale"

(***************************************************************************)
(* InventoryPushGuard.check for a magnet: the first library that has no    *)
(* fresh snapshot or that holds the very file ends it; a weaker finding in *)
(* any of them needs a review.  libraries is a sequence of [freshness,     *)
(* files].                                                                 *)
(***************************************************************************)
Verdict(library, probe) ==
  IF library.freshness # "fresh" THEN library.freshness
  ELSE CheckInventory(library.files, probe)

Guard(libraries, probe) ==
  LET verdict(i) == Verdict(libraries[i], probe)
      ending == {i \in DOMAIN libraries :
                   verdict(i) \in {"incomplete", "unknown", "stale",
                                   "exact_duplicate"}}
  IN CASE libraries = <<>> -> "inventory_scope_unconfigured"
       [] ending # {} -> verdict(CHOOSE i \in ending : \A j \in ending : i <= j)
       [] libraries # <<>> /\ ending = {} ->
            IF \A i \in DOMAIN libraries : verdict(i) = "not_found"
            THEN "inventory_not_found" ELSE "inventory_review_required"

Allowed(code) == code = "inventory_not_found"

(***************************************************************************)
(* Two rules that were written apart agree: what the report of duplicates  *)
(* groups together, the check in front of a push finds.  Each file of a    *)
(* group, probed against the library without it, is found there.           *)
(***************************************************************************)
GroupsAreFound(files) ==
  \A g \in DuplicateGroups(files) : \A f \in g :
    CheckInventory(files \ {f}, [f EXCEPT !.object = Missing]) # "not_found"

(***************************************************************************)
(* An episode that the library holds is not fetched again, and one that it *)
(* does not hold is not taken for another: a probe for some episodes of a  *)
(* season finds a file of that season exactly when they share an episode.  *)
(***************************************************************************)
EpisodesMeet(f, probe) ==
  FirstOf(f) .. Given(LastOf(f), FirstOf(f))
    \cap probe.first .. Given(probe.last, probe.first) # {}

EpisodesAreExact(files, probe) ==
  (/\ probe.tmdb # Missing /\ probe.type = "tv" /\ probe.first # Missing
   /\ probe.parsed = Missing /\ ~Exact(files, probe))
    => (CheckInventory(files, probe) # "not_found"
          <=> \E f \in files :
                /\ f.tmdb = probe.tmdb /\ TypeOf(f) = "tv"
                /\ probe.season \in {Missing, SeasonOf(f)}
                /\ FirstOf(f) # Missing /\ EpisodesMeet(f, probe))

(***************************************************************************)
(* A file name is no proof: contracts/inventory-identity.md:17 says that a *)
(* candidate that only its name suggests "cannot automatically block a     *)
(* push".  With fresh snapshots of every library, a magnet of which only   *)
(* the name is known is let through.                                       *)
(***************************************************************************)
NamesDoNotBlock(libraries, probe) ==
  (/\ libraries # <<>>
   /\ \A i \in DOMAIN libraries : libraries[i].freshness = "fresh"
   /\ {probe.object, probe.tmdb, probe.digest, probe.infohash} = {Missing})
    => Allowed(Guard(libraries, probe))
=============================================================================
