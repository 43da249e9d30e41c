------------------------------- MODULE MediaMatch -------------------------------
(***************************************************************************)
(* media_matcher.py: which TMDB title a parsed file name stands for.  The  *)
(* matcher scores what TMDB answers and accepts a candidate only when the  *)
(* evidence is complete and the runner-up is far enough behind.            *)
(*                                                                         *)
(* Titles and aliases are compared after normalisation: here they are      *)
(* values.  Missing is Python's None.                                      *)
(*                                                                         *)
(*   parsed, query: [title, year, years, type, kind, countries, season,    *)
(*               first, last, specials]                                    *)
(*   payload, candidate: [id, type, title, original, aliases, year,        *)
(*               countries, seasons, kind, special].  A payload lists its  *)
(*               seasons as [number, count, numbers]; a candidate maps the *)
(*               number of a season to [count, numbers].                   *)
(***************************************************************************)
EXTENDS Nullable, Integers, Sequences, FiniteSets

CONSTANTS
  AutoScore,      \* auto_accept_score
  MinimumMargin   \* minimum_margin

\* The score is one that can be reached, and the margin is wider than the
\* difference between a title and an original title or an alias (the defaults,
\* which the application keeps, are 85 and 8).
ASSUME MarginAssumption ==
  AutoScore \in 0..100 /\ MinimumMargin \in Nat /\ MinimumMargin > 5

Kinds == {"movie", "tv", "anime", "documentary", "variety"}
Specials == {"sp", "ova", "oad", "ona"}

\* build_match_input: hints that no rule knows are left out.
KindOf(word) == IF word \in Kinds THEN word ELSE "unknown"
BuildInput(parsed) ==
  [parsed EXCEPT !.kind = KindOf(@), !.specials = @ \cap (Specials \cup {"special"})]

\* A payload that cannot be read makes the whole answer malformed.  A season
\* may be listed twice, but not with two contents.
SeasonsAgree(seasons) ==
  \A i, j \in DOMAIN seasons :
    seasons[i].number = seasons[j].number => seasons[i] = seasons[j]
IsReadable(payload) ==
  /\ payload.id # Missing /\ payload.id > 0
  /\ payload.type \in {"movie", "tv"}
  /\ payload.title # Missing
  /\ \A i \in DOMAIN payload.seasons : payload.seasons[i].number >= 0
  /\ SeasonsAgree(payload.seasons)

\* TmdbCandidate.from_payload
SeasonsFrom(seasons) ==
  [n \in {seasons[i].number : i \in DOMAIN seasons} |->
     LET season == seasons[CHOOSE i \in DOMAIN seasons : seasons[i].number = n]
     IN [count |-> season.count, numbers |-> season.numbers]]
SpecialOf(word) == IF word \in Specials \cup {"standard"} THEN word ELSE "unknown"
FromPayload(payload) ==
  [payload EXCEPT !.seasons = SeasonsFrom(@), !.kind = KindOf(@), !.special = SpecialOf(@)]

\* _coerce_candidates: an answer is a set of candidates or a failure.
Failed(kind) == [kind |-> kind, candidates |-> {}]
CoerceCandidates(payloads) ==
  IF \E i \in DOMAIN payloads : ~IsReadable(payloads[i]) THEN Failed("malformed_response")
  ELSE [kind |-> "candidates",
        candidates |-> {FromPayload(payloads[i]) : i \in DOMAIN payloads}]

\* What one criterion says: points for the candidate and reasons against it.
Silent == [points |-> 0, reasons |-> {}]
Speaks(points) == [points |-> points, reasons |-> {}]
Against(reason) == [points |-> 0, reasons |-> {reason}]

BugTitleEvidence(q, c) ==
  CASE c.title = q.title -> Speaks(55)
    [] c.title # q.title /\ c.original = q.title -> Speaks(50)
    [] q.title \notin {c.title, c.original} /\ q.title \in c.aliases -> Speaks(45)
    [] q.title \notin {c.title, c.original} \cup c.aliases ->
         Against("title_mismatch")

TitleEvidence(q, c) ==
  CASE c.title = q.title -> Speaks(55)
    [] c.title # q.title /\ c.original = q.title -> Speaks(50)
    [] q.title \notin {c.title, c.original} /\ q.title \in c.aliases -> Speaks(50)
    [] q.title \notin {c.title, c.original} \cup c.aliases ->
         Against("title_mismatch")

ExpectedYears(q) == IF q.year # Missing THEN {q.year} ELSE q.years

YearEvidence(q, c) ==
  CASE ExpectedYears(q) = {} -> Silent
    [] ExpectedYears(q) # {} /\ c.year = Missing -> Against("year_unknown")
    [] ExpectedYears(q) # {} /\ c.year \notin ExpectedYears(q) \cup {Missing} ->
         Against("year_conflict")
    [] c.year # Missing /\ c.year \in ExpectedYears(q) -> Speaks(20)

TypeEvidence(q, c) ==
  CASE q.type \notin {"movie", "tv"} -> Against("media_type_unknown")
    [] q.type \in {"movie", "tv"} /\ c.type = q.type -> Speaks(15)
    [] q.type \in {"movie", "tv"} /\ c.type # q.type ->
         Against("media_type_conflict")

KindEvidence(q, c) ==
  CASE q.kind = "unknown" -> Silent
    [] q.kind # "unknown" /\ c.kind = "unknown" -> Against("kind_unknown")
    [] q.kind # "unknown" /\ c.kind = q.kind -> Speaks(5)
    [] q.kind # "unknown" /\ c.kind \notin {q.kind, "unknown"} ->
         Against("kind_conflict")

CountryEvidence(q, c) ==
  CASE q.countries = {} -> Silent
    [] q.countries # {} /\ c.countries = {} -> Against("origin_country_unknown")
    [] q.countries \cap c.countries # {} -> Speaks(5)
    [] q.countries # {} /\ c.countries # {} /\ q.countries \cap c.countries = {} ->
         Against("origin_country_conflict")

(***************************************************************************)
(* _score_season_episode: five points for the season and five for the      *)
(* episodes, which must all be in it.  An end of 0 counts as no end.       *)
(***************************************************************************)
SeasonEvidence(q, c) ==
  CASE q.season = Missing ->
         IF q.first # Missing THEN Against("season_unknown") ELSE Silent
    [] q.season # Missing /\ DOMAIN c.seasons = {} -> Against("season_unknown")
    [] q.season # Missing /\ DOMAIN c.seasons # {} /\ q.season \notin DOMAIN c.seasons ->
         Against("season_out_of_range")
    [] q.season # Missing /\ q.season \in DOMAIN c.seasons -> Speaks(5)

LastEpisode(q) == IF q.last \in {Missing, 0} THEN q.first ELSE q.last

EpisodesAgainst(q, season) ==
  CASE season.count = Missing -> {"episode_unknown"}
    [] season.count # Missing ->
         IF LastEpisode(q) > season.count THEN {"episode_out_of_range"}
         ELSE IF /\ season.numbers # {}
                 /\ ~(q.first .. LastEpisode(q) \subseteq season.numbers)
              THEN {"episode_range_not_covered"}
              ELSE {}

EpisodeEvidence(q, c) ==
  IF q.season = Missing \/ q.first = Missing \/ q.season \notin DOMAIN c.seasons
  THEN Silent
  ELSE IF EpisodesAgainst(q, c.seasons[q.season]) = {}
       THEN Speaks(5)
       ELSE [points |-> 0, reasons |-> EpisodesAgainst(q, c.seasons[q.season])]

\* _score_special: a special is matched with a special of its kind.
SpecialEvidence(q, c) ==
  CASE q.specials = {} ->
         IF c.special \in {"standard", "unknown"}
         THEN Silent ELSE Against("special_conflict")
    [] q.specials # {} /\ c.special = "unknown" ->
         Against("special_boundary_unknown")
    [] /\ q.specials # {}
       /\ c.special \notin {"unknown", "standard"}
       /\ ("special" \in q.specials \/ c.special \in q.specials) -> Speaks(5)
    [] /\ q.specials # {}
       /\ c.special # "unknown"
       /\ \/ c.special = "standard"
          \/ "special" \notin q.specials /\ c.special \notin q.specials ->
         Against("special_conflict")

\* _score_candidate
Score(q, c) ==
  LET sum == TitleEvidence(q, c).points + YearEvidence(q, c).points
             + TypeEvidence(q, c).points + KindEvidence(q, c).points
             + CountryEvidence(q, c).points + SeasonEvidence(q, c).points
             + EpisodeEvidence(q, c).points + SpecialEvidence(q, c).points
  IN IF sum > 100 THEN 100 ELSE sum

\* Every reason a criterion gives is a blocking one.
Reasons(q, c) ==
  TitleEvidence(q, c).reasons \cup YearEvidence(q, c).reasons
  \cup TypeEvidence(q, c).reasons \cup KindEvidence(q, c).reasons
  \cup CountryEvidence(q, c).reasons \cup SeasonEvidence(q, c).reasons
  \cup EpisodeEvidence(q, c).reasons \cup SpecialEvidence(q, c).reasons

Eligible(q, c) == Reasons(q, c) = {}

Identity(c) == <<c.id, c.type>>

(***************************************************************************)
(* _rank_key: the better score first, then the smaller identity ("movie"   *)
(* before "tv").  Candidates have different identities.                    *)
(***************************************************************************)
RankedBefore(q, c, d) ==
  \/ Score(q, c) > Score(q, d)
  \/ /\ Score(q, c) = Score(q, d)
     /\ \/ c.id < d.id
        \/ c.id = d.id /\ c.type = "movie" /\ d.type = "tv"

Best(q, candidates) ==
  CHOOSE c \in candidates : \A d \in candidates \ {c} : RankedBefore(q, c, d)

Margin(q, candidates) ==
  LET top == Best(q, candidates) IN
  IF candidates = {top} THEN Score(q, top)
  ELSE Score(q, top) - Score(q, Best(q, candidates \ {top}))

Decision(status, selected, confidence, reasons, source) ==
  [status |-> status, selected |-> selected, confidence |-> confidence,
   reasons |-> reasons, source |-> source]

Undecided(status, reason) ==
  Decision(status, Missing, Missing, {reason}, "none")

\* _locked_decision: what a person has confirmed stands.
Locked(lock) == Decision("accepted", lock, "high", {"manual_lock"}, "manual")

\* _decision_from_ranked
Decided(q, candidates) ==
  LET top == Best(q, candidates)
      review(confidence, more) ==
        Decision("needs_review", Missing, confidence,
                 Reasons(q, top) \cup more, "automatic")
  IN CASE ~Eligible(q, top) -> review("low", {})
       [] Eligible(q, top) /\ Score(q, top) < AutoScore ->
            review("medium", {"low_score"})
       [] /\ Eligible(q, top) /\ Score(q, top) >= AutoScore
          /\ Margin(q, candidates) < MinimumMargin ->
            review("medium", {"score_margin_insufficient"})
       [] /\ Eligible(q, top) /\ Score(q, top) >= AutoScore
          /\ Margin(q, candidates) >= MinimumMargin ->
            Decision("accepted", top, "high", {}, "automatic")

(***************************************************************************)
(* match().  answer.kind is "results", with the payloads that TMDB gave,   *)
(* or the failure of the request.  Two candidates that share an identity   *)
(* and still differ make the answer useless.                               *)
(***************************************************************************)
Answered(answer) ==
  IF answer.kind = "results" THEN CoerceCandidates(answer.payloads)
  ELSE Failed(answer.kind)

DecidedFrom(q, answer) ==
  IF answer.kind # "candidates" THEN Undecided(answer.kind, answer.kind)
  ELSE IF \E c, d \in answer.candidates : c # d /\ Identity(c) = Identity(d)
       THEN Undecided("needs_review", "conflicting_candidates")
  ELSE IF answer.candidates = {} THEN Undecided("no_candidates", "empty_candidates")
  ELSE Decided(q, answer.candidates)

Match(parsed, lock, answer) ==
  CASE lock # Missing -> Locked(lock)
    [] lock = Missing /\ parsed.title = Missing ->
         Undecided("needs_review", "title_missing")
    [] lock = Missing /\ parsed.title # Missing ->
         DecidedFrom(BuildInput(parsed), Answered(answer))

(***************************************************************************)
(* A candidate that is accepted without a person is the only one that the  *)
(* query does not speak against: of two remakes, a season of the wrong     *)
(* length or a special with the title of its series, none is ever taken    *)
(* while another still fits.  It holds because no two candidates that fit  *)
(* can be further apart than a title is from an alias, and the margin is   *)
(* wider.                                                                  *)
(***************************************************************************)
OnlyFit(q, candidates, decision) ==
  decision.status = "accepted" /\ decision.source = "automatic" =>
    /\ Eligible(q, decision.selected)
    /\ \A c \in candidates \ {decision.selected} : ~Eligible(q, c)
=============================================================================
