------------------------------ MODULE NamingPlans ------------------------------
(***************************************************************************)
(* media_classification.py: where a matched file belongs in the library.   *)
(*                                                                         *)
(*   parsed:    [file, container, type, season, first, last, tags, year]   *)
(*   companion: [key, file, container, language]                           *)
(*   override:  Missing, or [classification, region], each possibly Missing*)
(*   rules:     [regions, anime, tags], the switches of NamingRuleConfig   *)
(*                                                                         *)
(* A path is a tuple of what its segments are rendered from: two paths are *)
(* equal when their tuples are.  The templates are the default ones, which *)
(* render whatever they are given.                                         *)
(***************************************************************************)
EXTENDS MediaMatch, Sequences

CONSTANTS
  Nameless,        \* titles of which _safe_segment leaves nothing
  CountryOrder,    \* the countries in alphabetical order
  Domestic, JapaneseKorean, Western, UnknownCountries

VideoContainers ==
  {"mkv", "mp4", "avi", "mov", "ts", "m2ts", "wmv", "flv", "webm"}

CompanionTypes ==
  {"subtitle", "nfo", "poster", "sample", "trailer", "extra", "featurette"}

\* What a person has settled, or Missing.
Settled(override, field) ==
  IF override = Missing THEN Missing ELSE override[field]

\* _classify: the classification and whether it was only guessed.
Class(kind, guessed) == [kind |-> kind, guessed |-> guessed]

Classification(decision, rules, override) ==
  LET c       == decision.selected
      settled == Settled(override, "classification")
  IN
  CASE settled # Missing -> Class(settled, FALSE)
    [] settled = Missing /\ c.kind = "unknown" -> Class(c.type, TRUE)
    [] settled = Missing /\ c.kind = "anime" ->
         IF decision.source = "manual" \/ rules.anime
         THEN Class("anime", FALSE) ELSE Class(c.type, FALSE)
    [] settled = Missing /\ c.kind \notin {"unknown", "anime"} ->
         IF c.kind \in {"movie", "tv"} /\ c.kind # c.type
         THEN Class(Missing, FALSE) ELSE Class(c.kind, FALSE)

(***************************************************************************)
(* _region: the alphabetically first country that has a region decides.    *)
(***************************************************************************)
FirstCountry(countries) ==
  LET position(c) == CHOOSE i \in DOMAIN CountryOrder : CountryOrder[i] = c
  IN CHOOSE c \in countries : \A d \in countries : position(c) <= position(d)

Region(countries, override) ==
  LET known   == countries \cap (Domestic \cup JapaneseKorean \cup Western)
      settled == Settled(override, "region")
  IN
  CASE settled # Missing -> settled
    [] settled = Missing /\ known # {} ->
         LET first == FirstCountry(known) IN
         IF first \in Domestic THEN "domestic"
         ELSE IF first \in JapaneseKorean THEN "japanese_korean" ELSE "western"
    [] settled = Missing /\ known = {} ->
         IF countries = {} \/ FirstCountry(countries) \in UnknownCountries
         THEN Missing ELSE "other"

\* plan_media: without an override the parsed and the matched type must agree.
TypeConflict(parsed, decision, override) ==
  /\ override = Missing
  /\ parsed.type \in {"movie", "tv"}
  /\ parsed.type # decision.selected.type

RequiresEpisode(parsed, decision) ==
  /\ decision.selected.type = "tv"
  /\ Missing \in {parsed.season, parsed.first, parsed.container}

(***************************************************************************)
(* _render_target: the directory and the name of the file.                 *)
(***************************************************************************)
Year(parsed, c) == IF c.year # Missing THEN c.year ELSE parsed.year

\* A range is written only when it ends at another episode.
EpisodeRange(parsed) ==
  IF parsed.last \in {Missing, parsed.first} THEN Missing ELSE parsed.last

Directory(parsed, decision, rules, override) ==
  LET c == decision.selected IN
  <<Classification(decision, rules, override).kind,
    IF rules.regions THEN Region(c.countries, override) ELSE Missing,
    <<c.title, Year(parsed, c), c.id>>,
    IF c.type = "tv" THEN parsed.season ELSE Missing>>

\* The name without its extension.
Stem(parsed, decision, rules) ==
  LET c == decision.selected
      tags == IF rules.tags THEN parsed.tags ELSE <<>>
  IN IF c.type = "movie"
     THEN <<c.title, Year(parsed, c), c.id, tags>>
     ELSE <<c.title, parsed.season, parsed.first, EpisodeRange(parsed), tags>>

Target(parsed, decision, rules, override) ==
  [directory |-> Directory(parsed, decision, rules, override),
   name |-> <<Stem(parsed, decision, rules), parsed.container>>]

(***************************************************************************)
(* _companion_mappings: the names of the companions beside the file.       *)
(***************************************************************************)
CompanionName(stem, companion) ==
  <<stem, companion.file, companion.language, companion.container>>

CompanionsAgree(companions) ==
  /\ \A i \in DOMAIN companions :
       companions[i].file \in CompanionTypes /\ companions[i].container # Missing
  /\ \A i, j \in DOMAIN companions :
       i # j => /\ companions[i].key # companions[j].key
                /\ CompanionName(<<>>, companions[i])
                     # CompanionName(<<>>, companions[j])

Plan(status, target) == [status |-> status, target |-> target]

\* plan_media.  A plan without a target has nothing else that matters here.
PlanMedia(parsed, decision, companions, rules, override, existing) ==
  LET class  == Classification(decision, rules, override)
      target == Target(parsed, decision, rules, override)
  IN IF \/ decision.status # "accepted"
        \/ decision.selected = Missing
        \/ decision.confidence # "high"
     THEN Plan("review_required", Missing)
     ELSE IF parsed.file # "video" \/ parsed.container \notin VideoContainers
     THEN Plan("unsupported", Missing)
     ELSE IF \/ class.kind = Missing
             \/ TypeConflict(parsed, decision, override)
             \/ Region(decision.selected.countries, override) = Missing
             \/ class.guessed
             \/ RequiresEpisode(parsed, decision)
     THEN Plan("review_required", Missing)
     ELSE IF decision.selected.title \in Nameless
     THEN Plan("unsupported", Missing)
     ELSE IF target \in existing \/ ~CompanionsAgree(companions)
     THEN Plan("conflict", target)
     ELSE Plan("planned", target)

(***************************************************************************)
(* plan_batch: every request of a batch is planned for itself; then all    *)
(* the plans that lead to one target become conflicts.                     *)
(***************************************************************************)
PlanAlone(request, rules) ==
  PlanMedia(request.parsed, request.decision, request.companions, rules,
            request.override, {})

SameTarget(plans, i, j) ==
  /\ plans[i].status = "planned" /\ plans[j].status = "planned"
  /\ plans[i].target = plans[j].target

BugPlanBatch(requests, rules) ==
  LET plans == [i \in DOMAIN requests |-> PlanAlone(requests[i], rules)] IN
  [i \in DOMAIN plans |->
     IF \E j \in 1 .. (i - 1) : SameTarget(plans, i, j)
     THEN Plan("conflict", plans[i].target) ELSE plans[i]]

PlanBatch(requests, rules) ==
  LET plans == [i \in DOMAIN requests |-> PlanAlone(requests[i], rules)] IN
  [i \in DOMAIN plans |->
     IF \E j \in DOMAIN plans \ {i} : SameTarget(plans, i, j)
     THEN Plan("conflict", plans[i].target) ELSE plans[i]]

(***************************************************************************)
(* Nobody wins a collision: when two files of a batch that could each be   *)
(* moved belong in the same place, neither of them is planned.             *)
(***************************************************************************)
NobodyWins(requests, rules, plans) ==
  LET alone == [i \in DOMAIN requests |-> PlanAlone(requests[i], rules)] IN
  \A i, j \in DOMAIN requests :
    i # j /\ SameTarget(alone, i, j)
      => "planned" \notin {plans[i].status, plans[j].status}
=============================================================================
