---------------------------- MODULE DecisionsProofs ----------------------------
(***************************************************************************)
(* Theorems about the pure decisions: the match of a title, the names of a *)
(* batch, the checks around a write, what the library holds and what is    *)
(* concluded from it.  The run of MCDecisions asks the questions of a      *)
(* small domain; the theorems are about any question, and the last ones    *)
(* about the specification that asks any.                                  *)
(***************************************************************************)
EXTENDS MCDecisions, OrganizationContractProofs, FiniteSetTheorems, FunctionTheorems,
        SequenceTheorems, WellFoundedInduction, TLAPS

(***************************************************************************)
(* Matching.                                                               *)
(***************************************************************************)
\* Candidates as from_payload makes them, after those were refused that share
\* an identity.
Rankable(candidates) ==
  /\ IsFiniteSet(candidates)
  /\ \A c \in candidates : c.id \in Int /\ c.type \in {"movie", "tv"}
  /\ \A c, d \in candidates : Identity(c) = Identity(d) => c = d

\* A criterion gives points or a reason, and always one of them.
LEMMA Evidence ==
  ASSUME NEW q, NEW c
  PROVE  /\ TitleEvidence(q, c) \in {Speaks(50), Speaks(55), Against("title_mismatch")}
         /\ YearEvidence(q, c) \in
              {Silent, Speaks(20), Against("year_unknown"), Against("year_conflict")}
         /\ TypeEvidence(q, c) \in
              {Speaks(15), Against("media_type_unknown"), Against("media_type_conflict")}
         /\ KindEvidence(q, c) \in
              {Silent, Speaks(5), Against("kind_unknown"), Against("kind_conflict")}
         /\ CountryEvidence(q, c) \in
              {Silent, Speaks(5), Against("origin_country_unknown"),
               Against("origin_country_conflict")}
         /\ SeasonEvidence(q, c) \in
              {Silent, Speaks(5), Against("season_unknown"), Against("season_out_of_range")}
         /\ EpisodeEvidence(q, c).points \in {0, 5}
         /\ SpecialEvidence(q, c) \in
              {Silent, Speaks(5), Against("special_conflict"),
               Against("special_boundary_unknown")}
<1>1. TitleEvidence(q, c) \in {Speaks(50), Speaks(55), Against("title_mismatch")}
  BY DEF TitleEvidence
<1>2. YearEvidence(q, c) \in
        {Silent, Speaks(20), Against("year_unknown"), Against("year_conflict")}
  BY DEF YearEvidence
<1>3. TypeEvidence(q, c) \in
        {Speaks(15), Against("media_type_unknown"), Against("media_type_conflict")}
  BY DEF TypeEvidence
<1>4. KindEvidence(q, c) \in
        {Silent, Speaks(5), Against("kind_unknown"), Against("kind_conflict")}
  BY DEF KindEvidence
<1>5. CountryEvidence(q, c) \in
        {Silent, Speaks(5), Against("origin_country_unknown"),
         Against("origin_country_conflict")}
  BY DEF CountryEvidence
<1>6. SeasonEvidence(q, c) \in
        {Silent, Speaks(5), Against("season_unknown"), Against("season_out_of_range")}
  BY DEF SeasonEvidence
<1>7. EpisodeEvidence(q, c).points \in {0, 5}
  BY DEF EpisodeEvidence, Silent, Speaks
<1>8. SpecialEvidence(q, c) \in
        {Silent, Speaks(5), Against("special_conflict"),
         Against("special_boundary_unknown")}
  BY DEF SpecialEvidence
<1> QED BY <1>1, <1>2, <1>3, <1>4, <1>5, <1>6, <1>7, <1>8

\* _score_candidate: a score is at most 100.
LEMMA ScoresAreNumbers == \A q, c : Score(q, c) \in 0..100
<1> SUFFICES ASSUME NEW q, NEW c PROVE Score(q, c) \in 0..100
  OBVIOUS
<1>1. /\ TitleEvidence(q, c).points \in {0, 50, 55}
      /\ YearEvidence(q, c).points \in {0, 20}
      /\ TypeEvidence(q, c).points \in {0, 15}
      /\ KindEvidence(q, c).points \in {0, 5}
      /\ CountryEvidence(q, c).points \in {0, 5}
      /\ SeasonEvidence(q, c).points \in {0, 5}
      /\ EpisodeEvidence(q, c).points \in {0, 5}
      /\ SpecialEvidence(q, c).points \in {0, 5}
  BY Evidence DEF Silent, Speaks, Against
<1> QED BY <1>1 DEF Score

\* Two candidates that nothing speaks against are at most as far apart as a
\* title and an alias.
LEMMA FitsAreClose ==
  ASSUME NEW q, NEW c, NEW d, Eligible(q, c), Eligible(q, d)
  PROVE  Score(q, c) - Score(q, d) <= 5
<1>1. ASSUME NEW e, Eligible(q, e)
      PROVE  /\ TitleEvidence(q, e).points \in {50, 55}
             /\ YearEvidence(q, e) = IF ExpectedYears(q) = {} THEN Silent ELSE Speaks(20)
             /\ TypeEvidence(q, e) = Speaks(15)
             /\ KindEvidence(q, e) = IF q.kind = "unknown" THEN Silent ELSE Speaks(5)
             /\ CountryEvidence(q, e) = IF q.countries = {} THEN Silent ELSE Speaks(5)
             /\ SeasonEvidence(q, e) = IF q.season = Missing THEN Silent ELSE Speaks(5)
             /\ EpisodeEvidence(q, e) =
                  IF q.season = Missing \/ q.first = Missing THEN Silent ELSE Speaks(5)
             /\ SpecialEvidence(q, e) = IF q.specials = {} THEN Silent ELSE Speaks(5)
  <2>1. /\ TitleEvidence(q, e).reasons = {} /\ YearEvidence(q, e).reasons = {}
        /\ TypeEvidence(q, e).reasons = {} /\ KindEvidence(q, e).reasons = {}
        /\ CountryEvidence(q, e).reasons = {} /\ SeasonEvidence(q, e).reasons = {}
        /\ EpisodeEvidence(q, e).reasons = {} /\ SpecialEvidence(q, e).reasons = {}
    BY <1>1 DEF Eligible, Reasons
  <2>2. \A reason : Against(reason).reasons # {}
    BY DEF Against
  <2>3. TitleEvidence(q, e).points \in {50, 55}
    BY <2>1, <2>2, Evidence DEF Speaks
  <2>4. YearEvidence(q, e) = IF ExpectedYears(q) = {} THEN Silent ELSE Speaks(20)
    BY <2>1, <2>2 DEF YearEvidence
  <2>5. TypeEvidence(q, e) = Speaks(15)
    BY <2>1, <2>2, Evidence
  <2>6. KindEvidence(q, e) = IF q.kind = "unknown" THEN Silent ELSE Speaks(5)
    BY <2>1, <2>2 DEF KindEvidence
  <2>7. CountryEvidence(q, e) = IF q.countries = {} THEN Silent ELSE Speaks(5)
    BY <2>1, <2>2 DEF CountryEvidence
  <2>8. /\ SeasonEvidence(q, e) = IF q.season = Missing THEN Silent ELSE Speaks(5)
        /\ q.season # Missing => q.season \in DOMAIN e.seasons
    BY <2>1, <2>2 DEF SeasonEvidence
  <2>9. EpisodeEvidence(q, e) =
          IF q.season = Missing \/ q.first = Missing THEN Silent ELSE Speaks(5)
    BY <2>1, <2>8 DEF EpisodeEvidence
  <2>10. SpecialEvidence(q, e) = IF q.specials = {} THEN Silent ELSE Speaks(5)
    BY <2>1, <2>2 DEF SpecialEvidence
  <2> QED BY <2>3, <2>4, <2>5, <2>6, <2>7, <2>8, <2>9, <2>10
<1> DEFINE rest(e) == YearEvidence(q, e).points + TypeEvidence(q, e).points
              + KindEvidence(q, e).points + CountryEvidence(q, e).points
              + SeasonEvidence(q, e).points + EpisodeEvidence(q, e).points
              + SpecialEvidence(q, e).points
<1>2. rest(c) = rest(d)
  BY <1>1
<1>3. ASSUME NEW e, Eligible(q, e)
      PROVE  /\ rest(e) \in Nat
             /\ Score(q, e) = IF TitleEvidence(q, e).points + rest(e) > 100 THEN 100
                              ELSE TitleEvidence(q, e).points + rest(e)
  <2>1. /\ TitleEvidence(q, e).points \in Nat
        /\ YearEvidence(q, e).points \in Nat
        /\ TypeEvidence(q, e).points \in Nat
        /\ KindEvidence(q, e).points \in Nat
        /\ CountryEvidence(q, e).points \in Nat
        /\ SeasonEvidence(q, e).points \in Nat
        /\ EpisodeEvidence(q, e).points \in Nat
        /\ SpecialEvidence(q, e).points \in Nat
    BY Evidence DEF Silent, Speaks, Against
  <2> QED BY <2>1 DEF Score
<1> HIDE DEF rest
<1>4. TitleEvidence(q, c).points \in {50, 55} /\ TitleEvidence(q, d).points \in {50, 55}
  BY <1>1
<1>5. rest(c) \in Nat /\ rest(d) \in Nat
  BY <1>3
<1>6. /\ Score(q, c) = IF TitleEvidence(q, c).points + rest(c) > 100 THEN 100
                       ELSE TitleEvidence(q, c).points + rest(c)
      /\ Score(q, d) = IF TitleEvidence(q, d).points + rest(d) > 100 THEN 100
                       ELSE TitleEvidence(q, d).points + rest(d)
  BY <1>3
<1> QED BY <1>2, <1>4, <1>5, <1>6

\* _rank_key puts candidates with different identities in one order.
LEMMA RankingIsAnOrder ==
  ASSUME NEW q, NEW candidates, Rankable(candidates)
  PROVE  \A a, b \in candidates :
           /\ a # b => RankedBefore(q, a, b) \/ RankedBefore(q, b, a)
           /\ \A c \in candidates :
                RankedBefore(q, a, b) /\ RankedBefore(q, b, c) => RankedBefore(q, a, c)
<1>1. \A a \in candidates :
        Score(q, a) \in Int /\ a.id \in Int /\ a.type \in {"movie", "tv"}
  BY ScoresAreNumbers DEF Rankable
<1>2. \A a, b \in candidates : a.id = b.id /\ a.type = b.type => a = b
  BY DEF Rankable, Identity
<1>3. ASSUME NEW a \in candidates, NEW b \in candidates, a # b
      PROVE  RankedBefore(q, a, b) \/ RankedBefore(q, b, a)
  BY <1>1, <1>2, <1>3 DEF RankedBefore
<1>4. ASSUME NEW a \in candidates, NEW b \in candidates, NEW c \in candidates,
             RankedBefore(q, a, b), RankedBefore(q, b, c)
      PROVE  RankedBefore(q, a, c)
  BY <1>1, <1>4 DEF RankedBefore
<1> QED BY <1>3, <1>4

\* The best one exists: of the sets of candidates that hold one at least as
\* good as any other, a smallest one has one element.
LEMMA BestIsBest ==
  ASSUME NEW q, NEW candidates, Rankable(candidates), candidates # {}
  PROVE  /\ Best(q, candidates) \in candidates
         /\ \A d \in candidates \ {Best(q, candidates)} :
              RankedBefore(q, Best(q, candidates), d)
<1> DEFINE Covers(U) == \A d \in candidates : \E c \in U : c = d \/ RankedBefore(q, c, d)
           B == {U \in SUBSET candidates : Covers(U)}
<1>1. B \subseteq FiniteSubsetsOf(candidates) /\ candidates \in B
  BY FS_FiniteSubsetsOfFinite DEF Rankable
<1>2. IsWellFoundedOn(StrictSubsetOrdering(candidates), FiniteSubsetsOf(candidates))
  BY FS_StrictSubsetOrderingWellFounded
<1>3. PICK U \in B : \A V \in B : <<V, U>> \notin StrictSubsetOrdering(candidates)
  <2> HIDE DEF B
  <2> QED BY <1>1, <1>2, WFMin
<1>4. ASSUME NEW a \in U, NEW b \in U, RankedBefore(q, a, b), a # b PROVE FALSE
  <2>1. U \ {b} \in SUBSET U /\ U \ {b} # U
    OBVIOUS
  <2>2. ASSUME NEW d \in candidates
        PROVE  \E c \in U \ {b} : c = d \/ RankedBefore(q, c, d)
    <3>1. PICK c \in U : c = d \/ RankedBefore(q, c, d)
      BY <1>3
    <3>2. CASE c = b
      BY <1>3, <1>4, <3>1, <3>2, RankingIsAnOrder
    <3> QED BY <3>1, <3>2
  <2>3. U \ {b} \in B
    BY <1>3, <2>1, <2>2
  <2>4. <<U \ {b}, U>> \in StrictSubsetOrdering(candidates)
    BY <1>3, <2>1 DEF StrictSubsetOrdering
  <2> QED BY <1>3, <2>3, <2>4
<1>5. PICK c \in U : TRUE
  BY <1>3
<1>6. \A d \in U : d = c
  BY <1>3, <1>4, <1>5, RankingIsAnOrder
<1>7. c \in candidates /\ \A d \in candidates \ {c} : RankedBefore(q, c, d)
  BY <1>3, <1>5, <1>6
<1> QED BY <1>7 DEF Best

\* _decision_from_ranked: of candidates that are ranked, the accepted one is the only
\* one that fits.
LEMMA OnlyOneFits ==
  ASSUME NEW q, NEW candidates, Rankable(candidates), candidates # {}
  PROVE  OnlyFit(q, candidates, Decided(q, candidates))
<1> DEFINE top == Best(q, candidates)
           second == Best(q, candidates \ {top})
<1>1. CASE ~(Eligible(q, top) /\ Score(q, top) >= AutoScore
             /\ Margin(q, candidates) >= MinimumMargin)
  <2>1. Score(q, top) \in Int /\ Margin(q, candidates) \in Int
    BY ScoresAreNumbers DEF Margin
  <2>2. \/ ~Eligible(q, top)
        \/ Eligible(q, top) /\ Score(q, top) < AutoScore
        \/ /\ Eligible(q, top) /\ Score(q, top) >= AutoScore
           /\ Margin(q, candidates) < MinimumMargin
    BY <1>1, <2>1, MarginAssumption
  <2>3. Decided(q, candidates).status # "accepted"
    BY <2>1, <2>2, MarginAssumption DEF Decided, Decision
  <2> QED BY <2>3 DEF OnlyFit
<1>2. CASE /\ Eligible(q, top) /\ Score(q, top) >= AutoScore
           /\ Margin(q, candidates) >= MinimumMargin
  <2>1. Decided(q, candidates).selected = top
    BY <1>2 DEF Decided, Decision
  <2>2. ASSUME NEW c \in candidates \ {top}, Eligible(q, c) PROVE FALSE
    <3>1. Rankable(candidates \ {top})
      <4>1. IsFiniteSet(candidates \ {top})
        BY FS_RemoveElement DEF Rankable
      <4> QED BY <4>1 DEF Rankable
    <3>2. candidates # {top}
      BY <2>2
    <3>3. Score(q, top) - Score(q, second) >= MinimumMargin
      BY <1>2, <3>2 DEF Margin
    <3>4. c = second \/ RankedBefore(q, second, c)
      BY <2>2, <3>1, BestIsBest
    <3>5. /\ Score(q, c) \in Int /\ Score(q, second) \in Int /\ Score(q, top) \in Int
      BY ScoresAreNumbers
    <3>6. Score(q, second) >= Score(q, c)
      <4>1. CASE c = second
        BY <3>5, <4>1
      <4>2. CASE RankedBefore(q, second, c)
        BY <3>5, <4>2 DEF RankedBefore
      <4> QED BY <3>4, <4>1, <4>2
    <3>7. Score(q, top) - Score(q, c) <= 5
      BY <1>2, <2>2, FitsAreClose
    <3> HIDE DEF top, second
    <3> QED BY <3>3, <3>5, <3>6, <3>7, MarginAssumption
  <2> QED BY <1>2, <2>1, <2>2 DEF OnlyFit
<1> QED BY <1>1, <1>2

\* A payload has the fields that are read from it, and its number is one.
IsPayload(payload) ==
  /\ payload = [f \in DOMAIN payload |-> payload[f]]
  /\ {"id", "type", "seasons", "kind", "special"} \subseteq DOMAIN payload
  /\ payload.id \in Int \cup {Missing}

IsAnswer(reply) ==
  reply.kind = "results" =>
    /\ IsFiniteSet(DOMAIN reply.payloads)
    /\ \A i \in DOMAIN reply.payloads : IsPayload(reply.payloads[i])

\* match(): of what TMDB answers, nothing is accepted by itself while another
\* candidate fits as well, whatever was parsed and however many candidates
\* there are, as long as the margin is wider than an alias is from a title.
THEOREM NothingIsGuessed ==
  ASSUME NEW parsed, NEW lock, NEW reply, IsAnswer(reply)
  PROVE  OnlyFit(BuildInput(parsed), Answered(reply).candidates,
                 Match(parsed, lock, reply))
<1> DEFINE q == BuildInput(parsed)
           given == Answered(reply)
<1>1. CASE lock # Missing \/ parsed.title = Missing
  <2>1. Match(parsed, lock, reply).source # "automatic"
    BY <1>1 DEF Match, Locked, Undecided, Decision
  <2> QED BY <2>1 DEF OnlyFit
<1>2. CASE lock = Missing /\ parsed.title # Missing
  <2>1. Match(parsed, lock, reply) = DecidedFrom(q, given)
    BY <1>2 DEF Match
  <2>2. CASE \/ given.kind # "candidates" \/ given.candidates = {}
             \/ \E c, d \in given.candidates : c # d /\ Identity(c) = Identity(d)
    <3>1. DecidedFrom(q, given).source # "automatic"
      BY <2>2 DEF DecidedFrom, Undecided, Decision
    <3> QED BY <2>1, <3>1 DEF OnlyFit
  <2>3. CASE /\ given.kind = "candidates" /\ given.candidates # {}
             /\ \A c, d \in given.candidates : Identity(c) = Identity(d) => c = d
    <3> DEFINE payloads == reply.payloads
    <3>1. /\ reply.kind = "results"
          /\ \A i \in DOMAIN payloads : IsReadable(payloads[i])
          /\ given.candidates = {FromPayload(payloads[i]) : i \in DOMAIN payloads}
      BY <2>3 DEF Answered, CoerceCandidates, Failed
    <3>2. ASSUME NEW i \in DOMAIN payloads
          PROVE  /\ FromPayload(payloads[i]).id \in Int
                 /\ FromPayload(payloads[i]).type \in {"movie", "tv"}
      <4>1. IsPayload(payloads[i]) /\ IsReadable(payloads[i])
        BY <3>1 DEF IsAnswer
      <4>2. payloads[i].id \in Int /\ payloads[i].type \in {"movie", "tv"}
        BY <4>1 DEF IsPayload, IsReadable
      <4>3. /\ FromPayload(payloads[i]).id = payloads[i].id
            /\ FromPayload(payloads[i]).type = payloads[i].type
        BY <4>1 DEF IsPayload, FromPayload
      <4> QED BY <4>2, <4>3
    <3>3. IsFiniteSet(given.candidates)
      <4> DEFINE f == [i \in DOMAIN payloads |-> FromPayload(payloads[i])]
      <4>1. f \in Surjection(DOMAIN payloads, given.candidates)
        <5>1. f \in [DOMAIN payloads -> given.candidates]
          BY <3>1
        <5>2. \A c \in given.candidates : \E i \in DOMAIN payloads : f[i] = c
          BY <3>1
        <5> QED BY <5>1, <5>2 DEF Surjection
      <4>2. IsFiniteSet(DOMAIN payloads)
        BY <3>1 DEF IsAnswer
      <4> HIDE DEF f, payloads, given
      <4> QED BY <4>1, <4>2, FS_Surjection
    <3>4. Rankable(given.candidates)
      BY <2>3, <3>1, <3>2, <3>3 DEF Rankable
    <3>5. DecidedFrom(q, given) = Decided(q, given.candidates)
      BY <2>3 DEF DecidedFrom
    <3> HIDE DEF q, given
    <3>6. OnlyFit(q, given.candidates, Decided(q, given.candidates))
      BY <2>3, <3>4, OnlyOneFits
    <3> QED BY <2>1, <3>5, <3>6 DEF q, given
  <2> QED BY <2>2, <2>3
<1> QED BY <1>1, <1>2

(***************************************************************************)
(* Naming.                                                                 *)
(***************************************************************************)
\* plan_batch: of a batch of any length, under any rules, two files that belong
\* in one place both stay where they are.
THEOREM NobodyIsOverwritten ==
  ASSUME NEW requests, NEW rules
  PROVE  NobodyWins(requests, rules, PlanBatch(requests, rules))
<1> DEFINE alone == [i \in DOMAIN requests |-> PlanAlone(requests[i], rules)]
           plans == PlanBatch(requests, rules)
<1> SUFFICES ASSUME NEW i \in DOMAIN requests, NEW j \in DOMAIN requests,
                    i # j, SameTarget(alone, i, j)
             PROVE  "planned" \notin {plans[i].status, plans[j].status}
  BY DEF NobodyWins
<1>1. SameTarget(alone, j, i)
  BY DEF SameTarget
<1>2. \A k \in DOMAIN requests :
        plans[k] = IF \E l \in DOMAIN alone \ {k} : SameTarget(alone, k, l)
                   THEN Plan("conflict", alone[k].target) ELSE alone[k]
  BY DEF PlanBatch
<1> HIDE DEF plans
<1>3. /\ plans[i] = Plan("conflict", alone[i].target)
      /\ plans[j] = Plan("conflict", alone[j].target)
  BY <1>1, <1>2
<1> QED BY <1>3 DEF Plan

(***************************************************************************)
(* Isolation.                                                              *)
(***************************************************************************)
Intents ==
  [action : {"isolate", "restore"}, object : Objects, source : Parents \X Names,
   isolation : Parents \X Names, target : Parents \X Names, managed : SUBSET Parents]

\* The checks of an isolation, for any intent and whatever is observed.
THEOREM IsolationIsStrict ==
  ASSUME NEW intent \in Intents,
         NEW source \in Observation \cup {Malformed},
         NEW target \in Observation \cup {Malformed}, NEW timedOut \in BOOLEAN
  PROVE  IsolationIsNoLaxer(intent, source, target, timedOut)
<1> DEFINE e == Expectation(intent)
           status == IsolateBefore(e, source, target, timedOut)
           back == Expectation([intent EXCEPT !.action = "restore"])
<1>1. e \in StepExpectation
  BY DEF Expectation, From, To, Intents, StepExpectation
<1>2. /\ SourceState(e) \in RemoteObjectState /\ TargetState(e) \in RemoteObjectState
      /\ SourceState(e) # Unobserved /\ TargetState(e) # Unobserved
  BY <1>1, UnobservedAssumption
  DEF StepExpectation, SourceState, TargetState, RemoteObjectState
<1>3. status = "ready" =>
        source = SourceState(e) /\ source # TargetState(e) /\ target = Unobserved
  BY <1>2 DEF IsolateBefore
<1>4. status = "already_applied" => source = TargetState(e)
  BY <1>2 DEF IsolateBefore
<1>5. status \in {"ready", "already_applied"} =>
        CheckBeforeWrite(e, source, target) = status
  <2> HIDE DEF e
  <2> QED BY <1>2, <1>3, <1>4 DEF CheckBeforeWrite
<1>6. ASSUME intent.action = "isolate"
      PROVE  IsolateAfter(e, source) = "already_applied" <=> source = SourceState(back)
  <2>1. SourceState(back) = TargetState(e)
    BY <1>6 DEF Expectation, From, To, Intents, SourceState, TargetState
  <2>2. TargetState(e) # Malformed
    BY <1>2, MalformedAssumption DEF Observation
  <2> QED BY <2>1, <2>2 DEF IsolateAfter, CheckAfterWrite
<1> QED BY <1>3, <1>5, <1>6 DEF IsolationIsNoLaxer

(***************************************************************************)
(* Reports.                                                                *)
(***************************************************************************)
Episodes == [number : Nat, aired : BOOLEAN, special : BOOLEAN, ignored : BOOLEAN]

\* The operator of the instance is that of FiniteSets.
LEMMA SameCardinality == \A S : Library!Cardinality(S) = Cardinality(S)
BY DEF Library!Cardinality, Cardinality

\* The files that count for an episode are counted.
LEMMA OwnersAreCounted ==
  ASSUME NEW files, IsFiniteSet(files), NEW tmdb, NEW season, NEW number
  PROVE  LET owners == Library!Owners(Library!FileReferences(files, tmdb, season), number)
         IN  /\ Cardinality(owners) \in Nat
             /\ Cardinality(owners) = 0 <=> owners = {}
<1> DEFINE owners == Library!Owners(Library!FileReferences(files, tmdb, season), number)
           objects == {f.object : f \in files}
<1>1. IsFiniteSet(objects)
  <2> DEFINE object == [f \in files |-> f.object]
  <2>1. object \in Surjection(files, objects)
    BY DEF Surjection
  <2> HIDE DEF object, objects
  <2> QED BY <2>1, FS_Surjection
<1>2. owners \subseteq objects
  BY DEF Library!Owners, Library!FileReferences
<1>3. IsFiniteSet(owners)
  BY <1>1, <1>2, FS_Subset
<1> QED BY <1>3, FS_CardinalityType, FS_EmptySet

\* get_episode_completeness: an episode is reported missing only of a library whose
\* snapshot is fresh.
THEOREM MissingNeedsAFreshScan ==
  ASSUME NEW library, IsFiniteSet(library.files), NEW tmdb, NEW season,
         NEW baseline \in SUBSET Episodes, NEW e \in baseline
  PROVE  Library!MissingIsProven(library,
           Library!Completeness(baseline, library, tmdb, season)[e])
<1> DEFINE references == Library!FileReferences(library.files, tmdb, season)
           owners == Cardinality(Library!Owners(references, e.number))
<1>1. owners \in Nat
  BY OwnersAreCounted
<1>2. /\ e.special \in BOOLEAN /\ e.ignored \in BOOLEAN /\ e.aired \in BOOLEAN
  BY DEF Episodes
<1>3. ASSUME Library!EpisodeStatus(e, references, FALSE) = "missing" PROVE FALSE
  <2>1. owners = 0 \/ owners = 1 \/ owners > 1
    BY <1>1
  <2> HIDE DEF references
  <2>2. CASE e.special \/ e.ignored \/ ~e.aired
    BY <1>2, <1>3, <2>2 DEF Library!EpisodeStatus
  <2>3. CASE ~e.special /\ ~e.ignored /\ e.aired
    <3>1. Library!EpisodeStatus(e, references, FALSE) \in {"unknown", "owned", "multiple"}
      BY <1>1, <2>1, <2>3, SameCardinality DEF Library!EpisodeStatus
    <3> QED BY <1>3, <3>1
  <2> QED BY <1>2, <2>2, <2>3
<1>4. Library!Completeness(baseline, library, tmdb, season)[e] =
        Library!EpisodeStatus(e, references, library.freshness = "fresh")
  BY DEF Library!Completeness
<1>5. CASE library.freshness # "fresh"
  <2>1. (library.freshness = "fresh") = FALSE
    BY <1>5
  <2> QED BY <1>3, <1>4, <2>1 DEF Library!MissingIsProven
<1>6. CASE library.freshness = "fresh"
  BY <1>6 DEF Library!MissingIsProven
<1> QED BY <1>5, <1>6

\* plan_repairs: whatever was found and whatever is selected.
THEOREM RepairsNeedEvidence ==
  ASSUME NEW s, NEW plans, \A selected \in plans : Library!PlanRepairs(s, selected) = "planned"
  PROVE  Library!RepairsAreProven(s, plans)
<1> SUFFICES ASSUME NEW selected \in plans, NEW i \in selected
             PROVE  /\ i.rests => s.complete
                    /\ i.check = "orphan" =>
                         \E j \in s.strm : j.object = i.object /\ j.managed
  BY DEF Library!RepairsAreProven
<1>1. i \in Library!HealthIssues(s) /\ i.repair = "auto" /\ (i.rests => s.complete)
  BY DEF Library!PlanRepairs
<1>2. ASSUME i.check = "orphan"
      PROVE  \E j \in s.strm : j.object = i.object /\ j.managed
  <2>1. \E j \in s.strm :
          i = Library!Issue("orphan", j.object, "error", Library!Managed(j), TRUE)
    BY <1>1, <1>2 DEF Library!HealthIssues, Library!StrmIssues, Library!Issue
  <2> QED BY <1>1, <2>1 DEF Library!Issue, Library!Managed
<1> QED BY <1>1, <1>2

\* plan_cleanup: whatever is stored and whatever is selected.
THEOREM CleanupsSpareTheProtected ==
  ASSUME NEW entries, NEW complete, NEW threshold, NEW plans,
         \A selected \in plans :
           Library!PlanCleanup(entries, complete, threshold, selected) = "planned"
  PROVE  Library!CleanupIsProven(entries, complete, plans)
BY DEF Library!PlanCleanup, Library!CleanupIsProven, Library!Protected

(***************************************************************************)
(* Inventory.                                                              *)
(***************************************************************************)
\* A file as build_identity takes it.  What a person binds names a title, with
\* episodes that are in order (InventoryIdentityPatch).
IsFile(f) ==
  /\ f = [object |-> f.object, parsed |-> f.parsed, tmdb |-> f.tmdb, type |-> f.type,
          season |-> f.season, first |-> f.first, last |-> f.last, digest |-> f.digest,
          infohash |-> f.infohash]
  /\ f.object # Missing /\ f.parsed # Missing
  /\ {f.season, f.first, f.last, f.parsed.season, f.parsed.first, f.parsed.last}
       \subseteq Nat \cup {Missing}
  /\ f.type \in {"movie", "tv", Missing} /\ f.parsed.type \in {"movie", "tv", "unknown"}
  /\ f.tmdb = Missing => f.season = Missing /\ f.first = Missing /\ f.last = Missing

\* The episodes of a file are in order, which the merge of the bound first with the
\* last that the name tells does not see to.
InOrder(f) ==
  Library!FirstOf(f) # Missing =>
    Library!FirstOf(f) <= Library!Given(Library!LastOf(f), Library!FirstOf(f))

\* Two files with one key of any kind: the first, probed without its place, finds the
\* second.
LEMMA SameKeyIsFound ==
  ASSUME NEW files, NEW f, NEW h \in files, IsFile(f), IsFile(h), InOrder(f),
         \/ Library!ExactKey(f) # Missing /\ Library!ExactKey(f) = Library!ExactKey(h)
         \/ /\ Library!IdentityKey(f) = Library!IdentityKey(h)
            /\ f.tmdb # Missing /\ h.tmdb # Missing
         \/ /\ Library!IdentityKey(f) = Library!IdentityKey(h)
            /\ f.tmdb = Missing /\ f.parsed.title # Missing
  PROVE  Library!CheckInventory(files, [f EXCEPT !.object = Missing]) # "not_found"
<1> DEFINE probe == [f EXCEPT !.object = Missing]
<1>1. probe = [object |-> Missing, parsed |-> f.parsed, tmdb |-> f.tmdb, type |-> f.type,
               season |-> f.season, first |-> f.first, last |-> f.last,
               digest |-> f.digest, infohash |-> f.infohash]
  BY DEF IsFile
<1>2. /\ probe.parsed = f.parsed /\ probe.tmdb = f.tmdb /\ probe.type = f.type
      /\ probe.season = f.season /\ probe.first = f.first /\ probe.last = f.last
      /\ probe.digest = f.digest /\ probe.infohash = f.infohash
  BY <1>1
<1>3. CASE Library!ExactKey(f) # Missing /\ Library!ExactKey(f) = Library!ExactKey(h)
  <2>1. \/ f.digest # Missing /\ h.digest = f.digest
        \/ f.infohash # Missing /\ h.infohash = f.infohash
    BY <1>3 DEF Library!ExactKey
  <2>2. Library!Exact(files, probe)
    BY <1>2, <2>1 DEF Library!Exact
  <2> QED BY <2>2 DEF Library!CheckInventory
<1>4. CASE /\ Library!IdentityKey(f) = Library!IdentityKey(h)
           /\ f.tmdb # Missing /\ h.tmdb # Missing
  <2>1. /\ Library!TypeOf(h) = Library!TypeOf(f) /\ h.tmdb = f.tmdb
        /\ Library!EpisodeScope(h) = Library!EpisodeScope(f)
    BY <1>4 DEF Library!IdentityKey
  <2>2. f.type \in {Missing, Library!TypeOf(h)}
    BY <2>1 DEF Library!TypeOf, Library!Given
  <2>3. ASSUME f.type = "tv"
        PROVE  /\ f.season \in {Missing, Library!SeasonOf(h)}
               /\ Library!FirstOf(h) = Library!FirstOf(f)
               /\ Library!FirstOf(f) # Missing =>
                    Library!Given(Library!LastOf(h), Library!FirstOf(h)) =
                    Library!Given(Library!LastOf(f), Library!FirstOf(f))
    <3>1. Library!TypeOf(f) = "tv" /\ Library!TypeOf(h) = "tv"
      BY <2>1, <2>3, MissingAssumption DEF Library!TypeOf, Library!Given
    <3>2. /\ Library!SeasonOf(h) = Library!SeasonOf(f)
          /\ Library!FirstOf(h) = Library!FirstOf(f)
          /\ Library!FirstOf(f) # Missing =>
               Library!Given(Library!LastOf(h), Library!FirstOf(h)) =
               Library!Given(Library!LastOf(f), Library!FirstOf(f))
      BY <2>1, <3>1 DEF Library!EpisodeScope
    <3> QED BY <3>2 DEF Library!SeasonOf, Library!Given
  <2>4. ASSUME f.type = "tv", f.first # Missing
        PROVE  /\ Library!FirstOf(h) # Missing
               /\ Library!FirstOf(h) <= Library!Given(f.last, f.first)
               /\ Library!Given(Library!LastOf(h), Library!FirstOf(h)) >= f.first
    <3>1. Library!FirstOf(f) = f.first /\ f.first \in Nat
      BY <2>4 DEF Library!FirstOf, Library!Given, IsFile
    <3>2. f.first <= Library!Given(Library!LastOf(f), f.first)
      BY <2>4, <3>1 DEF InOrder
    <3>3. f.first <= Library!Given(f.last, f.first)
      BY <3>1, <3>2, MissingAssumption DEF Library!LastOf, Library!Given
    <3>4. Library!Given(Library!LastOf(f), f.first) \in Nat
      BY <3>1 DEF Library!LastOf, Library!Given, IsFile
    <3> QED BY <2>3, <2>4, <3>1, <3>2, <3>3, <3>4
  <2>5. Library!ScopeMatches(h, probe)
    BY <1>2, <2>3, <2>4 DEF Library!ScopeMatches
  <2>6. h \in Library!SameMedia(files, probe)
    BY <1>2, <1>4, <2>1, <2>2, <2>5 DEF Library!SameMedia
  <2> QED BY <2>6 DEF Library!CheckInventory
<1>5. CASE /\ Library!IdentityKey(f) = Library!IdentityKey(h)
           /\ f.tmdb = Missing /\ f.parsed.title # Missing
  <2>1. [probe EXCEPT !.tmdb = Missing, !.season = Missing, !.first = Missing,
                      !.last = Missing] = probe
    <3>1. f.season = Missing /\ f.first = Missing /\ f.last = Missing
      BY <1>5 DEF IsFile
    <3> QED BY <1>1, <1>5, <3>1
  <2>2. Library!ProbeKey(probe) = Library!IdentityKey(probe)
    BY <2>1 DEF Library!ProbeKey
  <2>3. Library!IdentityKey(probe) = Library!IdentityKey(f)
    <3> HIDE DEF probe
    <3> QED BY <1>2 DEF Library!IdentityKey, Library!EpisodeScope, Library!TypeOf,
               Library!SeasonOf, Library!FirstOf, Library!LastOf
  <2>4. Library!IdentityKey(h) = Library!ProbeKey(probe)
    BY <1>5, <2>2, <2>3
  <2>5. probe.parsed # Missing
    BY <1>2 DEF IsFile
  <2> QED BY <2>4, <2>5 DEF Library!CheckInventory
<1> QED BY <1>3, <1>4, <1>5

\* find_duplicate_groups, check_inventory: in any library, the files that the report of
\* duplicates puts together find one another.
THEOREM GroupsAreSeen ==
  ASSUME NEW files, \A f \in files : IsFile(f) /\ InOrder(f)
  PROVE  Library!GroupsAreFound(files)
<1> SUFFICES ASSUME NEW g \in Library!DuplicateGroups(files), NEW f \in g
             PROVE  Library!CheckInventory(files \ {f}, [f EXCEPT !.object = Missing])
                      # "not_found"
  BY DEF Library!GroupsAreFound
<1>1. PICK kind \in {"exact_duplicate", "media_duplicate", "review_candidate"} :
        \E key : /\ g = Library!Grouped(files, kind, key) /\ key # Missing
                 /\ Cardinality(g) > 1
  BY SameCardinality DEF Library!DuplicateGroups
<1>2. PICK key : g = Library!Grouped(files, kind, key) /\ key # Missing /\ Cardinality(g) > 1
  BY <1>1
<1>3. g \subseteq files
  BY <1>2 DEF Library!Grouped
<1>4. PICK h \in g : h # f
  <2>1. g # {f}
    BY <1>2, FS_Singleton
  <2> QED BY <2>1
<1>5. \/ Library!ExactKey(f) # Missing /\ Library!ExactKey(f) = Library!ExactKey(h)
      \/ /\ Library!IdentityKey(f) = Library!IdentityKey(h)
         /\ f.tmdb # Missing /\ h.tmdb # Missing
      \/ /\ Library!IdentityKey(f) = Library!IdentityKey(h)
         /\ f.tmdb = Missing /\ f.parsed.title # Missing
  <2>1. CASE kind = "exact_duplicate"
    BY <1>2, <1>4, <2>1 DEF Library!Grouped
  <2>2. CASE kind = "media_duplicate"
    BY <1>2, <1>4, <2>2 DEF Library!Grouped
  <2>3. CASE kind = "review_candidate"
    <3>1. /\ Library!Confidence(f) = "candidate"
          /\ Library!IdentityKey(f) = Library!IdentityKey(h)
      BY <1>2, <1>4, <2>3 DEF Library!Grouped
    <3>2. f.tmdb = Missing /\ f.parsed.title # Missing
      BY <3>1 DEF Library!Confidence
    <3> QED BY <3>1, <3>2
  <2> QED BY <1>2, <2>1, <2>2, <2>3
<1>6. h \in files \ {f} /\ IsFile(f) /\ IsFile(h) /\ InOrder(f)
  BY <1>3, <1>4
<1> QED BY <1>5, <1>6, SameKeyIsFound

\* A probe for some episodes of a series.
IsProbe(probe) ==
  /\ probe.tmdb # Missing /\ probe.type = "tv" /\ probe.parsed = Missing
  /\ probe.season \in Nat \cup {Missing}
  /\ probe.first \in Nat /\ probe.last \in Nat \cup {Missing}
  /\ probe.first <= Library!Given(probe.last, probe.first)

\* check_inventory: of a series, exactly the files that share an episode with the probe
\* are found.
LEMMA FoundIsShared ==
  ASSUME NEW files, NEW probe, IsProbe(probe),
         NEW f \in files, IsFile(f), InOrder(f)
  PROVE  f \in Library!SameMedia(files, probe) <=>
           /\ f.tmdb = probe.tmdb /\ Library!TypeOf(f) = "tv"
           /\ probe.season \in {Missing, Library!SeasonOf(f)}
           /\ Library!FirstOf(f) # Missing /\ Library!EpisodesMeet(f, probe)
<1> DEFINE a == Library!FirstOf(f)
           b == Library!Given(Library!LastOf(f), a)
           c == probe.first
           d == Library!Given(probe.last, c)
<1>1. ASSUME a # Missing
      PROVE  a \in Nat /\ b \in Nat /\ a <= b
  BY <1>1 DEF IsFile, InOrder, Library!FirstOf, Library!LastOf, Library!Given
<1>2. c \in Nat /\ d \in Nat /\ c <= d
  BY DEF IsProbe, Library!Given
<1>3. a # Missing => (Library!EpisodesMeet(f, probe) <=> a <= d /\ b >= c)
  <2> SUFFICES ASSUME a # Missing
               PROVE  (a .. b) \cap (c .. d) # {} <=> a <= d /\ b >= c
    BY DEF Library!EpisodesMeet
  <2>1. a \in Nat /\ b \in Nat /\ a <= b
    BY <1>1
  <2> HIDE DEF a, b, c, d
  <2>2. ASSUME a <= d, b >= c PROVE (a .. b) \cap (c .. d) # {}
    <3>1. CASE a >= c
      <4>1. a \in a .. b /\ a \in c .. d
        BY <1>2, <2>1, <2>2, <3>1
      <4> QED BY <4>1
    <3>2. CASE a < c
      <4>1. c \in a .. b /\ c \in c .. d
        BY <1>2, <2>1, <2>2, <3>2
      <4> QED BY <4>1
    <3> QED BY <1>2, <2>1, <3>1, <3>2
  <2>3. ASSUME NEW n \in a .. b, n \in c .. d PROVE a <= d /\ b >= c
    BY <1>2, <2>1, <2>3
  <2> QED BY <2>2, <2>3
<1>4. Library!ScopeMatches(f, probe) <=>
        /\ probe.season \in {Missing, Library!SeasonOf(f)}
        /\ a # Missing /\ a <= d /\ b >= c
  <2>1. probe.type = "tv" /\ probe.first # Missing
    BY MissingAssumption DEF IsProbe
  <2> QED BY <2>1 DEF Library!ScopeMatches
<1>5. probe.tmdb # Missing /\ (probe.type \in {Missing, Library!TypeOf(f)}
                                <=> Library!TypeOf(f) = "tv")
  BY MissingAssumption DEF IsProbe
<1> QED BY <1>3, <1>4, <1>5 DEF Library!SameMedia

\* check_inventory: an episode that the library holds is found, and one that it does not
\* hold is not taken for another.
THEOREM EpisodesAreFound ==
  ASSUME NEW files, NEW probe, IsProbe(probe),
         \A f \in files : IsFile(f) /\ InOrder(f)
  PROVE  Library!EpisodesAreExact(files, probe)
<1> SUFFICES ASSUME ~Library!Exact(files, probe)
             PROVE  Library!CheckInventory(files, probe) # "not_found"
                      <=> Library!SameMedia(files, probe) # {}
  <2>1. Library!SameMedia(files, probe) \subseteq files
    BY DEF Library!SameMedia
  <2> QED BY <2>1, FoundIsShared DEF Library!EpisodesAreExact
<1> QED BY DEF Library!CheckInventory, IsProbe

\* The name of a file tells no other end than the one that was bound to it.
EndsAgree(f) == f.last = Missing => f.parsed.last \in {Missing, f.first}

\* The probe for one episode that MatrixAgrees compares with.
ProbeFor(tmdb, season, number) ==
  [object |-> Missing, parsed |-> Missing, tmdb |-> tmdb, type |-> "tv",
   season |-> season, first |-> number, last |-> Missing,
   digest |-> Missing, infohash |-> Missing]

\* That probe is one.
LEMMA ProbesAreProbes ==
  ASSUME NEW tmdb, tmdb # Missing, NEW season \in Nat, NEW number \in Nat
  PROVE  IsProbe(ProbeFor(tmdb, season, number))
BY MissingAssumption DEF IsProbe, ProbeFor, Library!Given

\* A file that is bound to episodes holds what it is bound to.
LEMMA BoundIsHeld ==
  ASSUME NEW f, IsFile(f), EndsAgree(f), f.type = "tv", f.season # Missing,
         Library!EpisodesNamed(f.first, f.last) # {}
  PROVE  /\ InOrder(f) /\ Library!TypeOf(f) = "tv" /\ Library!SeasonOf(f) = f.season
         /\ Library!FirstOf(f) # Missing
         /\ Library!FirstOf(f) .. Library!Given(Library!LastOf(f), Library!FirstOf(f)) =
              Library!EpisodesNamed(f.first, f.last)
<1>1. /\ f.first # Missing /\ ~(Library!Given(f.last, f.first) < f.first)
      /\ Library!EpisodesNamed(f.first, f.last) = f.first .. Library!Given(f.last, f.first)
  BY DEF Library!EpisodesNamed
<1>2. /\ Library!FirstOf(f) = f.first /\ Library!SeasonOf(f) = f.season
      /\ Library!TypeOf(f) = "tv"
  BY <1>1, MissingAssumption
  DEF Library!FirstOf, Library!SeasonOf, Library!TypeOf, Library!Given
<1>3. Library!Given(Library!LastOf(f), f.first) = Library!Given(f.last, f.first)
  BY DEF EndsAgree, Library!LastOf, Library!Given
<1>4. f.first \in Nat /\ Library!Given(f.last, f.first) \in Nat
  BY <1>1 DEF IsFile, Library!Given
<1>5. InOrder(f)
  BY <1>1, <1>2, <1>3, <1>4 DEF InOrder
<1> QED BY <1>1, <1>2, <1>3, <1>5

\* The owners of an episode are the files that are bound to it.
LEMMA OwnersAreBound ==
  ASSUME NEW files, NEW tmdb, NEW season, season # 0, NEW number
  PROVE  Library!Owners(Library!FileReferences(files, tmdb, season), number) # {} <=>
           \E f \in files : /\ Library!BoundTo(f, tmdb, season)
                            /\ number \in Library!EpisodesNamed(f.first, f.last)
<1> DEFINE references == Library!FileReferences(files, tmdb, season)
<1>1. ASSUME NEW r \in references, Library!Counted(r), number \in r.episodes
      PROVE  \E f \in files : /\ Library!BoundTo(f, tmdb, season)
                              /\ number \in Library!EpisodesNamed(f.first, f.last)
  BY <1>1 DEF Library!FileReferences, Library!Counted
<1>2. ASSUME NEW f \in files, Library!BoundTo(f, tmdb, season),
             number \in Library!EpisodesNamed(f.first, f.last)
      PROVE  \E r \in references : Library!Counted(r) /\ number \in r.episodes
  <2> DEFINE r == [object |-> f.object, special |-> season = 0,
                   episodes |-> Library!EpisodesNamed(f.first, f.last),
                   recognized |-> Library!EpisodesNamed(f.first, f.last) # {}]
  <2>1. r \in references
    BY <1>2 DEF Library!FileReferences
  <2>2. r.recognized = TRUE /\ r.special = FALSE
           /\ r.episodes = Library!EpisodesNamed(f.first, f.last)
    BY <1>2
  <2> HIDE DEF r
  <2> QED BY <1>2, <2>1, <2>2 DEF Library!Counted
<1> HIDE DEF references
<1>3. Library!Owners(references, number) # {} <=>
        \E r \in references : Library!Counted(r) /\ number \in r.episodes
  BY DEF Library!Owners
<1> QED BY <1>1, <1>2, <1>3 DEF references

\* episode_completeness.py, check_inventory: with a fresh snapshot whose files of the
\* series are all bound, an aired episode is reported missing exactly when the check in
\* front of a push finds nothing, in any library and for any length of a range.
THEOREM MatrixIsTheGuard ==
  ASSUME NEW files, IsFiniteSet(files),
         \A f \in files : IsFile(f) /\ EndsAgree(f),
         NEW tmdb, tmdb # Missing, NEW season \in Nat,
         NEW e \in Episodes, e.aired, ~e.special, ~e.ignored
  PROVE  Library!MatrixAgrees(files, tmdb, season, e.number,
           Library!EpisodeStatus(e, Library!FileReferences(files, tmdb, season), TRUE))
<1> DEFINE references == Library!FileReferences(files, tmdb, season)
           owners == Library!Owners(references, e.number)
           probe == ProbeFor(tmdb, season, e.number)
<1> SUFFICES ASSUME season > 0, Library!FullyBound(files, tmdb)
             PROVE  Library!EpisodeStatus(e, references, TRUE) = "missing"
                      <=> Library!CheckInventory(files, probe) = "not_found"
  BY DEF Library!MatrixAgrees, ProbeFor
<1>1. Library!EpisodeStatus(e, references, TRUE) = "missing" <=> owners = {}
  <2>1. Cardinality(owners) \in Nat /\ (Cardinality(owners) = 0 <=> owners = {})
    BY OwnersAreCounted
  <2>2. \/ Cardinality(owners) = 0 \/ Cardinality(owners) = 1 \/ Cardinality(owners) > 1
    BY <2>1
  <2> HIDE DEF references
  <2>3. Library!EpisodeStatus(e, references, TRUE) = "missing" <=> Cardinality(owners) = 0
    BY <2>1, <2>2, SameCardinality DEF Library!EpisodeStatus, Episodes
  <2> QED BY <2>1, <2>3
<1>2. Library!CheckInventory(files, probe) = "not_found"
        <=> Library!SameMedia(files, probe) = {}
  <2>1. ~Library!Exact(files, probe) /\ probe.parsed = Missing
    BY DEF ProbeFor, Library!Exact
  <2> HIDE DEF probe
  <2> QED BY <2>1 DEF Library!CheckInventory
<1>3. ASSUME NEW f \in files, f.tmdb = tmdb
      PROVE  f \in Library!SameMedia(files, probe) <=>
               /\ Library!BoundTo(f, tmdb, season)
               /\ e.number \in Library!EpisodesNamed(f.first, f.last)
  <2>1. /\ f.type = "tv" /\ f.season # Missing
        /\ Library!EpisodesNamed(f.first, f.last) # {}
    BY <1>3 DEF Library!FullyBound
  <2>2. /\ InOrder(f) /\ Library!TypeOf(f) = "tv" /\ Library!SeasonOf(f) = f.season
        /\ Library!FirstOf(f) # Missing
        /\ Library!FirstOf(f) .. Library!Given(Library!LastOf(f), Library!FirstOf(f)) =
             Library!EpisodesNamed(f.first, f.last)
    BY <2>1, BoundIsHeld
  <2>3. /\ probe.tmdb = tmdb /\ probe.season = season
        /\ probe.first = e.number /\ probe.last = Missing
    BY DEF ProbeFor
  <2>4. Library!EpisodesMeet(f, probe)
          <=> e.number \in Library!EpisodesNamed(f.first, f.last)
    <3>1. e.number \in Nat
      BY DEF Episodes
    <3>2. probe.first .. Library!Given(probe.last, probe.first) = {e.number}
      BY <2>3, <3>1 DEF Library!Given
    <3> HIDE DEF probe
    <3> QED BY <2>2, <3>2 DEF Library!EpisodesMeet
  <2>5. IsProbe(probe)
    BY ProbesAreProbes DEF Episodes
  <2>6. season # Missing
    BY MissingAssumption
  <2> HIDE DEF probe
  <2>7. f \in Library!SameMedia(files, probe) <=>
          /\ f.tmdb = probe.tmdb /\ Library!TypeOf(f) = "tv"
          /\ probe.season \in {Missing, Library!SeasonOf(f)}
          /\ Library!FirstOf(f) # Missing /\ Library!EpisodesMeet(f, probe)
    BY <2>2, <2>5, FoundIsShared
  <2> QED BY <1>3, <2>1, <2>2, <2>3, <2>4, <2>6, <2>7 DEF Library!BoundTo
<1>4. \A f \in Library!SameMedia(files, probe) : f \in files /\ f.tmdb = tmdb
  BY DEF Library!SameMedia, ProbeFor
<1>5. owners # {} <=> \E f \in files : /\ Library!BoundTo(f, tmdb, season)
                                       /\ e.number \in Library!EpisodesNamed(f.first, f.last)
  BY OwnersAreBound
<1>6. \A f \in files : Library!BoundTo(f, tmdb, season) => f.tmdb = tmdb
  BY DEF Library!BoundTo
<1> HIDE DEF owners, probe
<1>7. owners # {} <=> Library!SameMedia(files, probe) # {}
  BY <1>3, <1>4, <1>5, <1>6
<1> QED BY <1>1, <1>2, <1>7

\* Where the name tells an earlier end than the bound episode, the two rules part: the
\* season holds the episode, and the check in front of a push finds nothing
\* (library_inventory.py, build_identity: the last episode of the name completes the
\* first one that was bound).
THEOREM AnEarlierEndHidesTheEpisode ==
  ASSUME NEW f, IsFile(f), f.tmdb # Missing, f.type = "tv",
         f.season \in Nat \ {0}, f.first \in Nat, f.last = Missing,
         f.parsed.last \in Nat, f.parsed.last < f.first, MaxSpan \in Nat,
         NEW e \in Episodes, e.number = f.first, e.aired, ~e.special, ~e.ignored
  PROVE  /\ Library!EpisodeStatus(e, Library!FileReferences({f}, f.tmdb, f.season), TRUE)
              # "missing"
         /\ Library!CheckInventory({f}, ProbeFor(f.tmdb, f.season, f.first)) = "not_found"
<1> DEFINE references == Library!FileReferences({f}, f.tmdb, f.season)
           owners == Library!Owners(references, e.number)
           probe == ProbeFor(f.tmdb, f.season, f.first)
<1>1. f.first \in Library!EpisodesNamed(f.first, f.last)
  BY MissingAssumption DEF Library!EpisodesNamed, Library!Given
<1>2. owners # {}
  BY <1>1, OwnersAreBound DEF Library!BoundTo
<1>3. Library!EpisodeStatus(e, references, TRUE) # "missing"
  <2>1. Cardinality(owners) \in Nat /\ Cardinality(owners) # 0
    BY <1>2, OwnersAreCounted, FS_Singleton
  <2>2. Cardinality(owners) = 1 \/ Cardinality(owners) > 1
    BY <2>1
  <2> HIDE DEF references
  <2> QED BY <2>1, <2>2, SameCardinality DEF Library!EpisodeStatus, Episodes
<1>4. Library!FirstOf(f) = f.first /\ Library!LastOf(f) = f.parsed.last
  BY MissingAssumption DEF Library!FirstOf, Library!LastOf, Library!Given
<1>5. ~Library!ScopeMatches(f, probe)
  BY <1>4, MissingAssumption DEF Library!ScopeMatches, ProbeFor, Library!Given
<1>6. Library!SameMedia({f}, probe) = {}
  BY <1>5 DEF Library!SameMedia
<1>7. ~Library!Exact({f}, probe) /\ probe.parsed = Missing
  BY DEF ProbeFor, Library!Exact
<1> HIDE DEF probe
<1> QED BY <1>3, <1>6, <1>7 DEF Library!CheckInventory, probe

(***************************************************************************)
(* Listings.  What a walk over pages finds is an induction over its steps. *)
(* It is done by the least step at which a fact fails.                     *)
(***************************************************************************)
LEMMA LessIsWellFounded ==
  \E R : /\ IsWellFoundedOn(R, Nat)
         /\ \A m, n \in Nat : <<m, n>> \in R => m < n
         /\ \A m, n \in Nat : m < n => <<m, n>> \in R
<1> DEFINE R == OpToRel(<, Nat)
<1>1. IsWellFoundedOn(R, Nat)
  BY NatLessThanWellFounded, Zenon
<1>2. \A m, n \in Nat : <<m, n>> \in R => m < n
  BY DEF OpToRel
<1>3. \A m, n \in Nat : m < n => <<m, n>> \in R
  BY DEF OpToRel
<1> HIDE DEF R
<1> QED BY <1>1, <1>2, <1>3, Zenon

\* Numbers have a least one.
LEMMA LeastIsThere ==
  ASSUME NEW T \in SUBSET Nat, T # {}
  PROVE  \E n \in T : \A m \in T : n <= m
<1>1. PICK R : /\ IsWellFoundedOn(R, Nat)
               /\ \A m, n \in Nat : <<m, n>> \in R => m < n
               /\ \A m, n \in Nat : m < n => <<m, n>> \in R
  BY LessIsWellFounded
<1>2. PICK n \in T : \A m \in T : ~(<<m, n>> \in R)
  <2>1. IsWellFoundedOn(R, Nat) /\ T \subseteq Nat /\ T # {}
    BY <1>1
  <2> QED BY <2>1, WFMin, Zenon
<1>3. ASSUME NEW m \in T PROVE n <= m
  <2>1. m \in Nat /\ n \in Nat
    OBVIOUS
  <2>2. ~(m < n)
    BY <2>1, <1>1, <1>2, Zenon
  <2> QED BY <2>1, <2>2
<1> QED BY <1>3

\* Bounded numbers have a greatest one.
LEMMA GreatestIsThere ==
  ASSUME NEW T \in SUBSET Nat, T # {}, NEW b \in Nat, \A n \in T : n <= b
  PROVE  \E n \in T : \A m \in T : m <= n
<1> DEFINE Gaps == {k \in Nat : \E n \in T : n + k = b}
<1>1. Gaps # {}
  <2>1. PICK n \in T : TRUE  OBVIOUS
  <2>2. b - n \in Nat /\ n + (b - n) = b
    BY <2>1
  <2> QED BY <2>2
<1>2. PICK k \in Gaps : \A m \in Gaps : k <= m
  BY <1>1, LeastIsThere
<1>3. PICK n \in T : n + k = b
  OBVIOUS
<1>4. ASSUME NEW m \in T PROVE m <= n
  <2>1. b - m \in Nat /\ m + (b - m) = b
    OBVIOUS
  <2>2. b - m \in Gaps
    BY <2>1
  <2> QED BY <2>2, <1>2, <1>3
<1> QED BY <1>3, <1>4

\* The operators of the instance are those of the community modules.
LEMMA ListingOperators ==
  /\ \A f : Listing!IsInjective(f) = IsInjective(f)
  /\ \A f : Listing!Range(f) = Range(f)
BY DEF Listing!IsInjective, IsInjective, Listing!Range, Range

\* What a page adds to the entries gathered repeats none of them, and it is the
\* whole page unless that would repeat one.
LEMMA FreshIsFresh ==
  ASSUME NEW E, NEW items \in Seq(E), NEW list \in Seq(E), IsInjective(items)
  PROVE  LET new == Listing!Fresh(items, list) IN
         /\ new \in Seq(E) /\ Len(new) <= Len(list)
         /\ IsInjective(items \o new)
         /\ Len(new) = Len(list) => new = list
         /\ IsInjective(items \o list) => new = list
<1> DEFINE Cut(k) == SubSeq(list, 1, k)
           IsFresh(k) == IsInjective(items \o Cut(k))
           n == Len(list)
           c == CHOOSE k \in 0..n : IsFresh(k) /\ (k = n \/ ~IsFresh(k + 1))
           T == {k \in 0..n : IsFresh(k)}
<1>1. n \in Nat /\ Cut(n) = list /\ Cut(0) = <<>>
  OBVIOUS
<1>2. \A k \in 0..n : Cut(k) \in Seq(E) /\ Len(Cut(k)) = k
  OBVIOUS
<1>3. Listing!Fresh(items, list) = Cut(c)
  BY ListingOperators, Zenon DEF Listing!Fresh
<1>4. IsFresh(0)
  BY <1>1, ConcatEmptySeq
<1>5. ASSUME IsInjective(items \o list), NEW k \in 0..n PROVE IsFresh(k)
  <2> DEFINE d == Cut(k)
  <2>1. d \in Seq(E) /\ Len(d) = k /\ \A i \in 1..k : d[i] = list[i]
    OBVIOUS
  <2> HIDE DEF d
  <2>2. \A i \in 1..Len(items \o d) :
          i \in 1..Len(items \o list) /\ (items \o d)[i] = (items \o list)[i]
    BY <2>1
  <2>3. DOMAIN (items \o d) = 1..Len(items \o d) /\ DOMAIN (items \o list) = 1..Len(items \o list)
    BY <2>1
  <2>4. IsInjective(items \o d)
    BY <1>5, <2>2, <2>3 DEF IsInjective
  <2> QED BY <2>4 DEF d
<1>6. \A k : Cut(k) = SubSeq(list, 1, k) /\ (IsFresh(k) <=> IsInjective(items \o Cut(k)))
  OBVIOUS
<1>7. T \in SUBSET Nat /\ \A k : k \in T <=> k \in 0..n /\ IsFresh(k)
  OBVIOUS
<1> HIDE DEF IsFresh, Cut, n, T
<1>8. PICK k \in T : \A m \in T : m <= k
  <2>1. T # {} /\ \A m \in T : m <= n
    BY <1>1, <1>4, <1>7
  <2> QED BY <1>1, <1>7, <2>1, GreatestIsThere
<1>9. k = n \/ ~IsFresh(k + 1)
  <2> SUFFICES ASSUME k # n, IsFresh(k + 1) PROVE FALSE
    OBVIOUS
  <2>1. k + 1 \in 0..n
    BY <1>1, <1>7
  <2>2. k + 1 \in T /\ k \in Nat
    BY <1>7, <2>1
  <2> QED BY <1>8, <2>2
<1>10. c \in 0..n /\ IsFresh(c) /\ (c = n \/ ~IsFresh(c + 1))
  BY <1>7, <1>9
<1> HIDE DEF c
<1>11. IsInjective(items \o list) => c = n
  <2> SUFFICES ASSUME IsInjective(items \o list), c # n PROVE FALSE
    OBVIOUS
  <2>1. c + 1 \in 0..n
    BY <1>1, <1>10
  <2> QED BY <2>1, <1>5, <1>10
<1>12. Cut(c) \in Seq(E) /\ Len(Cut(c)) = c /\ c <= n /\ (c = n => Cut(c) = list)
  BY <1>1, <1>2, <1>10
<1>13. IsInjective(items \o Cut(c))
  BY <1>6, <1>10
<1> QED BY <1>3, <1>11, <1>12, <1>13 DEF n

\* What the gateway answers, and one round of scan_directory on what it has read.
PageAt(raws, n) == IF n \in 1..Len(raws) THEN Listing!Page(raws[n]) ELSE Missing
After(read, raws) ==
  IF Listing!Known(read.code) THEN read
  ELSE Listing!Round(read, PageAt(raws, read.number))
Reading(f, raws, m) ==
  f = [n \in 0..m |-> IF n = 0 THEN Listing!Start ELSE After(f[n - 1], raws)]

\* There is such a walk, of every length.
LEMMA ReadingExists ==
  ASSUME NEW raws, NEW m \in Nat
  PROVE  \E f : Reading(f, raws, m)
<1> DEFINE Bad == {k \in Nat : ~\E f : Reading(f, raws, k)}
<1> SUFFICES ASSUME Bad # {} PROVE FALSE
  OBVIOUS
<1>1. PICK k \in Bad : \A j \in Bad : k <= j
  BY LeastIsThere
<1>2. k # 0
  <2>1. Reading([n \in 0..0 |-> Listing!Start], raws, 0)
    BY DEF Reading
  <2> QED BY <2>1
<1>3. k - 1 \in Nat /\ k - 1 \notin Bad
  BY <1>1, <1>2
<1>4. PICK g : Reading(g, raws, k - 1)
  BY <1>3
<1> DEFINE h == [n \in 0..k |-> IF n = 0 THEN Listing!Start ELSE After(g[n - 1], raws)]
<1>5. \A n \in 0..k - 1 : h[n] = g[n]
  <2> TAKE n \in 0..k - 1
  <2>1. n \in 0..k
    BY <1>3
  <2>2. g[n] = IF n = 0 THEN Listing!Start ELSE After(g[n - 1], raws)
    BY <1>4 DEF Reading
  <2> QED BY <2>1, <2>2
<1>6. \A n \in 0..k : n # 0 => h[n - 1] = g[n - 1]
  <2> HIDE DEF h
  <2> TAKE n \in 0..k
  <2> HAVE n # 0
  <2>1. n - 1 \in 0..k - 1
    BY <1>3
  <2> QED BY <2>1, <1>5
<1> DEFINE hh == [n \in 0..k |-> IF n = 0 THEN Listing!Start ELSE After(h[n - 1], raws)]
<1>7. h = hh
  BY <1>6
<1>8. Reading(h, raws, k)
  BY <1>7 DEF Reading
<1> QED BY <1>8, <1>1

\* scan_directory is its last step.
LEMMA ScanUnfolded ==
  ASSUME NEW raws, Len(raws) \in Nat
  PROVE  \E f : Reading(f, raws, Len(raws) + 1)
                /\ Listing!ScanDirectory(raws) = f[Len(raws) + 1]
<1> DEFINE m == Len(raws) + 1
           g == CHOOSE f : Reading(f, raws, m)
<1>1. Reading(g, raws, m)
  BY ReadingExists
<1>2. Listing!ScanDirectory(raws) = g[m]
  BY Zenon DEF Listing!ScanDirectory, Reading, After, PageAt
<1> QED BY <1>1, <1>2

\* The pages up to k are what the first one told, each in its place, and what was
\* gathered is their entries, each once.
Fits(page, read, j) ==
  /\ Listing!Known(page) /\ page.page = j
  /\ page.page_count = read.count /\ page.total = read.total /\ page.state = "complete"
ListsAre(raws, E) ==
  \A j \in Nat : Listing!Known(PageAt(raws, j)) => PageAt(raws, j).list \in Seq(E)
Collected(raws, E, read, k) ==
  /\ read = [items |-> read.items, seen |-> read.seen, count |-> read.count,
             total |-> read.total, number |-> read.number, code |-> read.code]
  /\ \A j \in 1..k : Fits(PageAt(raws, j), read, j)
  /\ read.items \in Seq(E) /\ IsInjective(read.items)
  /\ Range(read.items) = UNION {Range(PageAt(raws, j).list) : j \in 1..k}

Open(raws, E, read, k) ==
  /\ Collected(raws, E, read, k)
  /\ read.code = Missing /\ read.number = k + 1 /\ (read.seen = {} <=> k = 0)
Closed(raws, E, read, k) ==
  LET page == PageAt(raws, k) IN
  /\ Collected(raws, E, read, k)
  /\ Listing!IsLast(page, read.count) \/ Listing!SaysEnd(page)
  /\ Listing!Known(read.total) => Len(read.items) = read.total

Codes == {"gateway_error", "repeated_page", "page_count_changed", "total_changed",
          "partial_page", "pagination_unverified", "empty_page", "repeated_entry",
          "total_mismatch"}
LEMMA CodesAreCodes == \A c \in Codes : Listing!Known(c) /\ c # "complete"
BY NoneAssumption DEF Codes, Listing!Known

\* What the pages before a page have told it has to repeat, and the first one tells.
Told1(read, page) ==
  IF read.seen = {}
  THEN [read EXCEPT !.count = page.page_count, !.total = page.total, !.seen = {page.page}]
  ELSE [read EXCEPT !.seen = @ \union {page.page}]

\* A round refuses the page, or gathers it.
LEMMA RoundUnfolded ==
  ASSUME NEW read, NEW page
  PROVE  LET told == Told1(read, page) IN
         Listing!Round(read, page) =
           IF ~Listing!Known(page) THEN Listing!Stop(read, "gateway_error")
           ELSE IF page.page # read.number THEN Listing!Stop(read, "repeated_page")
           ELSE IF page.page_count # told.count THEN Listing!Stop(told, "page_count_changed")
           ELSE IF page.total # told.total THEN Listing!Stop(told, "total_changed")
           ELSE IF page.state # "complete" THEN Listing!Stop(told, "partial_page")
           ELSE IF Listing!Conflicts(page, told.count) THEN Listing!Stop(told, "pagination_unverified")
           ELSE IF Listing!EmptyTooSoon(page, told.count) THEN Listing!Stop(told, "empty_page")
           ELSE Listing!Gathered(told, page)
BY Zenon DEF Listing!Round, Told1

LEMMA RoundRefusesOrGathers ==
  ASSUME NEW read, NEW page
  PROVE  LET told == Told1(read, page) IN
         \/ \E r \in {read, told}, c \in Codes :
              Listing!Round(read, page) = Listing!Stop(r, c)
         \/ /\ Listing!Round(read, page) = Listing!Gathered(told, page)
            /\ Listing!Known(page) /\ page.page = read.number /\ page.page_count = told.count
            /\ page.total = told.total /\ page.state = "complete"
            /\ ~Listing!Conflicts(page, told.count) /\ ~Listing!EmptyTooSoon(page, told.count)
<1> DEFINE told == Told1(read, page)
<1>1. Listing!Round(read, page) =
        IF ~Listing!Known(page) THEN Listing!Stop(read, "gateway_error")
        ELSE IF page.page # read.number THEN Listing!Stop(read, "repeated_page")
        ELSE IF page.page_count # told.count THEN Listing!Stop(told, "page_count_changed")
        ELSE IF page.total # told.total THEN Listing!Stop(told, "total_changed")
        ELSE IF page.state # "complete" THEN Listing!Stop(told, "partial_page")
        ELSE IF Listing!Conflicts(page, told.count) THEN Listing!Stop(told, "pagination_unverified")
        ELSE IF Listing!EmptyTooSoon(page, told.count) THEN Listing!Stop(told, "empty_page")
        ELSE Listing!Gathered(told, page)
  BY RoundUnfolded, Zenon
<1>2. {"gateway_error", "repeated_page", "page_count_changed", "total_changed",
       "partial_page", "pagination_unverified", "empty_page"} \subseteq Codes
  BY DEF Codes
<1> HIDE DEF told
<1> QED BY <1>1, <1>2 DEF told

\* What a page adds, what has been read then, and whether the walk ends there.
New(read, page) == Listing!Fresh(read.items, page.list)
Grown(read, page) == [read EXCEPT !.items = @ \o New(read, page)]
Short(read, page) == Len(New(read, page)) < Len(page.list)
Final(read, page) == Listing!IsLast(page, read.count) \/ Listing!SaysEnd(page)
AddsUp(read) == Listing!Known(read.total) => Len(read.items) = read.total

LEMMA GatheredUnfolded ==
  ASSUME NEW read, NEW page
  PROVE  LET after == Grown(read, page) IN
         Listing!Gathered(read, page) =
           IF Short(read, page) THEN Listing!Stop(after, "repeated_entry")
           ELSE IF Final(read, page) THEN Listing!Ended(after, page)
           ELSE IF ~Listing!Continues(page, read.count)
             THEN Listing!Stop(after, "pagination_unverified")
           ELSE [after EXCEPT !.number = page.page + 1]
BY Zenon DEF Listing!Gathered, Grown, New, Short, Final

\* Gathering a page refuses it, ends the walk or goes on to the next page.
LEMMA GatheringGoes ==
  ASSUME NEW read, NEW page
  PROVE  LET after == Grown(read, page) IN
         \/ \E c \in Codes : Listing!Gathered(read, page) = Listing!Stop(after, c)
         \/ /\ ~Short(read, page) /\ Final(read, page) /\ AddsUp(after)
            /\ Listing!Gathered(read, page) = Listing!Stop(after, "complete")
         \/ /\ ~Short(read, page) /\ ~Final(read, page) /\ Listing!Continues(page, read.count)
            /\ Listing!Gathered(read, page) = [after EXCEPT !.number = page.page + 1]
<1> DEFINE after == Grown(read, page)
<1>1. Listing!Gathered(read, page) =
        IF Short(read, page) THEN Listing!Stop(after, "repeated_entry")
        ELSE IF Final(read, page) THEN Listing!Ended(after, page)
        ELSE IF ~Listing!Continues(page, read.count)
          THEN Listing!Stop(after, "pagination_unverified")
        ELSE [after EXCEPT !.number = page.page + 1]
  BY GatheredUnfolded, Zenon
<1>2. {"repeated_entry", "total_mismatch", "pagination_unverified"} \subseteq Codes
  BY DEF Codes
<1>3. Listing!Ended(after, page) =
        IF AddsUp(after) THEN Listing!Stop(after, "complete")
        ELSE Listing!Stop(after, "total_mismatch")
  BY Zenon DEF Listing!Ended, AddsUp
<1> HIDE DEF after
<1> SUFFICES
         \/ \E c \in Codes : Listing!Gathered(read, page) = Listing!Stop(after, c)
         \/ /\ ~Short(read, page) /\ Final(read, page) /\ AddsUp(after)
            /\ Listing!Gathered(read, page) = Listing!Stop(after, "complete")
         \/ /\ ~Short(read, page) /\ ~Final(read, page) /\ Listing!Continues(page, read.count)
            /\ Listing!Gathered(read, page) = [after EXCEPT !.number = page.page + 1]
  BY DEF after
<1> QED BY <1>1, <1>2, <1>3

\* The fields of what has been read, after a change.
IsRead(r) ==
  r = [items |-> r.items, seen |-> r.seen, count |-> r.count,
       total |-> r.total, number |-> r.number, code |-> r.code]
LEMMA ReadsAreRecords ==
  ASSUME NEW r, IsRead(r)
  PROVE  /\ \A page : Grown(r, page) =
              [items |-> r.items \o New(r, page), seen |-> r.seen, count |-> r.count,
               total |-> r.total, number |-> r.number, code |-> r.code]
         /\ \A c : Listing!Stop(r, c) =
              [items |-> r.items, seen |-> r.seen, count |-> r.count,
               total |-> r.total, number |-> r.number, code |-> c]
         /\ \A n : [r EXCEPT !.number = n] =
              [items |-> r.items, seen |-> r.seen, count |-> r.count,
               total |-> r.total, number |-> n, code |-> r.code]
<1>1. \A x : [r EXCEPT !.items = x] =
        [items |-> x, seen |-> r.seen, count |-> r.count,
         total |-> r.total, number |-> r.number, code |-> r.code]
  BY DEF IsRead
<1>2. \A page : Grown(r, page) = [r EXCEPT !.items = r.items \o New(r, page)]
  BY Zenon DEF Grown
<1>3. \A n : [r EXCEPT !.number = n] =
        [items |-> r.items, seen |-> r.seen, count |-> r.count,
         total |-> r.total, number |-> n, code |-> r.code]
  BY DEF IsRead
<1>4. \A c : [r EXCEPT !.code = c] =
        [items |-> r.items, seen |-> r.seen, count |-> r.count,
         total |-> r.total, number |-> r.number, code |-> c]
  BY DEF IsRead
<1>5. \A c : Listing!Stop(r, c) = [r EXCEPT !.code = c]
  BY Zenon DEF Listing!Stop
<1> QED BY <1>1, <1>2, <1>3, <1>4, <1>5, Zenon

\* What has been told before a page is what the page repeats.
LEMMA ToldAgrees ==
  ASSUME NEW raws, NEW E, NEW read, NEW k \in Nat, Open(raws, E, read, k), NEW page
  PROVE  LET told == Told1(read, page) IN
         /\ told = [items |-> read.items, seen |-> told.seen, count |-> told.count,
                    total |-> told.total, number |-> k + 1, code |-> Missing]
         /\ told.seen # {}
         /\ k # 0 => told.count = read.count /\ told.total = read.total
         /\ k = 0 => told.count = page.page_count /\ told.total = page.total
<1> DEFINE r == [items |-> read.items, seen |-> read.seen, count |-> read.count,
                 total |-> read.total, number |-> k + 1, code |-> Missing]
<1>1. read = r /\ (read.seen = {} <=> k = 0)
  BY DEF Open, Collected
<1>2. CASE k = 0
  <2>1. Told1(read, page) = [r EXCEPT !.count = page.page_count, !.total = page.total,
                                      !.seen = {page.page}]
    BY <1>1, <1>2 DEF Told1
  <2> QED BY <2>1, <1>2
<1>3. CASE k # 0
  <2>1. Told1(read, page) = [r EXCEPT !.seen = @ \union {page.page}]
    BY <1>1, <1>3 DEF Told1
  <2> QED BY <2>1, <1>3
<1> QED BY <1>2, <1>3

\* A page that fits is taken.
LEMMA OneMoreIsTaken ==
  ASSUME NEW raws, NEW E, ListsAre(raws, E), NEW read, NEW k \in Nat, Open(raws, E, read, k),
         NEW next,
         next = [items |-> next.items, seen |-> next.seen, count |-> next.count,
                 total |-> next.total, number |-> next.number, code |-> next.code],
         Fits(PageAt(raws, k + 1), next, k + 1),
         k # 0 => next.count = read.count /\ next.total = read.total,
         next.items = read.items \o PageAt(raws, k + 1).list, IsInjective(next.items)
  PROVE  Collected(raws, E, next, k + 1)
<1> DEFINE page == PageAt(raws, k + 1)
<1>1. page.list \in Seq(E) /\ read.items \in Seq(E)
  BY DEF Fits, ListsAre, Open, Collected
<1>2. \A j \in 1..k + 1 : Fits(PageAt(raws, j), next, j)
  <2> TAKE j \in 1..k + 1
  <2>1. CASE j = k + 1
    BY <2>1
  <2>2. CASE j # k + 1
    <3>1. j \in 1..k /\ k # 0
      BY <2>2
    <3>2. Fits(PageAt(raws, j), read, j)
      BY <3>1 DEF Open, Collected
    <3> QED BY <3>1, <3>2 DEF Fits
  <2> QED BY <2>1, <2>2
<1>3. next.items \in Seq(E)
  BY <1>1, ConcatProperties
<1>4. Range(next.items) = Range(read.items) \cup Range(page.list)
  <2> DEFINE a == read.items
             b == page.list
  <2>1. a \in Seq(E) /\ b \in Seq(E) /\ next.items = a \o b
    BY <1>1
  <2> HIDE DEF a, b
  <2>2. Range(a \o b) = Range(a) \cup Range(b)
    BY <2>1, RangeConcatenation
  <2> QED BY <2>1, <2>2 DEF a, b
<1>5. Range(read.items) = UNION {Range(PageAt(raws, j).list) : j \in 1..k}
  BY DEF Open, Collected
<1>6. Range(next.items) = UNION {Range(PageAt(raws, j).list) : j \in 1..k + 1}
  <2>1. \A j : j \in 1..k + 1 <=> j \in 1..k \/ j = k + 1
    OBVIOUS
  <2> QED BY <2>1, <1>4, <1>5
<1> QED BY <1>2, <1>3, <1>6 DEF Collected

Stopped(raws, E, read, k) ==
  /\ Listing!Known(read.code)
  /\ read.code = "complete" => k > 0 /\ Closed(raws, E, read, k)

LEMMA HaltsAreStops ==
  ASSUME NEW raws, NEW E, NEW k, NEW r, NEW c \in Codes, IsRead(r)
  PROVE  Stopped(raws, E, Listing!Stop(r, c), k)
<1>1. Listing!Stop(r, c).code = c
  BY ReadsAreRecords
<1> QED BY <1>1, CodesAreCodes, Zenon DEF Stopped

\* One round of a walk that is open.
LEMMA RoundKeeps ==
  ASSUME NEW raws, NEW E, ListsAre(raws, E), NEW read, NEW k \in Nat, Open(raws, E, read, k)
  PROVE  LET next == Listing!Round(read, PageAt(raws, k + 1)) IN
         Open(raws, E, next, k + 1) \/ Stopped(raws, E, next, k + 1)
<1> DEFINE page == PageAt(raws, k + 1)
           told == Told1(read, page)
           next == Listing!Round(read, page)
           new == New(told, page)
           after == Grown(told, page)
<1>r. /\ IsRead(read) /\ read.number = k + 1
      /\ read.items \in Seq(E) /\ IsInjective(read.items)
  BY DEF Open, Collected, IsRead
<1>t. /\ told = [items |-> read.items, seen |-> told.seen, count |-> told.count,
                 total |-> told.total, number |-> k + 1, code |-> Missing]
      /\ told.seen # {}
      /\ k # 0 => told.count = read.count /\ told.total = read.total
  BY ToldAgrees
<1> HIDE DEF told
<1>u. IsRead(told) /\ told.items = read.items /\ told.number = k + 1 /\ told.code = Missing
  BY <1>t DEF IsRead
<1>1. \/ \E r \in {read, told}, c \in Codes : next = Listing!Stop(r, c)
      \/ /\ next = Listing!Gathered(told, page)
         /\ Listing!Known(page) /\ page.page = read.number /\ page.page_count = told.count
         /\ page.total = told.total /\ page.state = "complete"
  BY RoundRefusesOrGathers, Zenon DEF told
<1> HIDE DEF next
<1> SUFFICES Open(raws, E, next, k + 1) \/ Stopped(raws, E, next, k + 1)
  BY DEF next
<1>2. CASE \E r \in {read, told}, c \in Codes : next = Listing!Stop(r, c)
  <2>1. PICK r \in {read, told}, c \in Codes : next = Listing!Stop(r, c)
    BY <1>2
  <2>2. IsRead(r)
    BY <1>r, <1>u
  <2>3. Stopped(raws, E, Listing!Stop(r, c), k + 1)
    BY <2>2, HaltsAreStops
  <2> QED BY <2>1, <2>3, Zenon
<1>3. CASE /\ next = Listing!Gathered(told, page)
           /\ Listing!Known(page) /\ page.page = read.number /\ page.page_count = told.count
           /\ page.total = told.total /\ page.state = "complete"
  <2>1. page.list \in Seq(E) /\ page.page = k + 1
    BY <1>3, <1>r DEF ListsAre
  <2>2. /\ new \in Seq(E) /\ Len(new) <= Len(page.list)
        /\ IsInjective(read.items \o new)
        /\ Len(new) = Len(page.list) => new = page.list
    <3>1. told.items \in Seq(E) /\ IsInjective(told.items)
      BY <1>u, <1>r
    <3>2. /\ new \in Seq(E) /\ Len(new) <= Len(page.list)
          /\ IsInjective(told.items \o new)
          /\ Len(new) = Len(page.list) => new = page.list
      <4>1. new = Listing!Fresh(told.items, page.list)
        BY Zenon DEF New
      <4> DEFINE a == told.items
                 b == page.list
      <4>2. a \in Seq(E) /\ b \in Seq(E) /\ IsInjective(a)
        BY <2>1, <3>1
      <4> HIDE DEF a, b, new
      <4>3. LET f == Listing!Fresh(a, b) IN
            /\ f \in Seq(E) /\ Len(f) <= Len(b)
            /\ IsInjective(a \o f)
            /\ Len(f) = Len(b) => f = b
        BY <4>2, FreshIsFresh, Zenon
      <4> QED BY <4>1, <4>3, Zenon DEF a, b
    <3> HIDE DEF new
    <3> QED BY <3>2, <1>u
  <2>3. ~Short(told, page) => new = page.list
    BY <2>1, <2>2 DEF Short
  <2>4. after = [items |-> read.items \o new, seen |-> told.seen, count |-> told.count,
                 total |-> told.total, number |-> k + 1, code |-> Missing]
    BY <1>u, ReadsAreRecords, Zenon
  <2>5. \/ \E c \in Codes : next = Listing!Stop(after, c)
        \/ ~Short(told, page) /\ Final(told, page) /\ AddsUp(after)
           /\ next = Listing!Stop(after, "complete")
        \/ ~Short(told, page) /\ next = [after EXCEPT !.number = page.page + 1]
    BY <1>3, GatheringGoes, Zenon
  <2> HIDE DEF after, new
  <2>6. IsRead(after) /\ after.items = read.items \o new /\ after.seen = told.seen
        /\ after.count = told.count /\ after.total = told.total /\ after.code = Missing
    <3> DEFINE w == read.items \o new
    <3>1. after = [items |-> w, seen |-> told.seen, count |-> told.count,
                   total |-> told.total, number |-> k + 1, code |-> Missing]
      BY <2>4
    <3> HIDE DEF w
    <3>2. IsRead(after) /\ after.items = w /\ after.seen = told.seen
          /\ after.count = told.count /\ after.total = told.total /\ after.code = Missing
      BY <3>1 DEF IsRead
    <3> QED BY <3>2 DEF w
  <2>7. ASSUME NEW r, IsRead(r), r.items = read.items \o new, r.count = told.count,
               r.total = told.total, new = page.list
        PROVE  Collected(raws, E, r, k + 1)
    <3>1. Fits(page, r, k + 1)
      BY <1>3, <2>1, <2>7 DEF Fits
    <3>2. IsInjective(r.items) /\ r.items = read.items \o page.list
      BY <2>2, <2>7
    <3>3. k # 0 => r.count = read.count /\ r.total = read.total
      BY <2>7, <1>t
    <3> QED BY <2>7, <3>1, <3>2, <3>3, OneMoreIsTaken DEF IsRead
  <2>8. CASE \E c \in Codes : next = Listing!Stop(after, c)
    <3>1. PICK c \in Codes : next = Listing!Stop(after, c)
      BY <2>8
    <3>2. Stopped(raws, E, Listing!Stop(after, c), k + 1)
      BY <2>6, HaltsAreStops
    <3> QED BY <3>1, <3>2, Zenon
  <2>9. CASE /\ ~Short(told, page) /\ Final(told, page) /\ AddsUp(after)
             /\ next = Listing!Stop(after, "complete")
    <3>1. next = [items |-> after.items, seen |-> after.seen, count |-> after.count,
                  total |-> after.total, number |-> after.number, code |-> "complete"]
      BY <2>6, <2>9, ReadsAreRecords, Zenon
    <3>2. /\ IsRead(next) /\ next.items = after.items /\ next.count = after.count
          /\ next.total = after.total /\ next.code = "complete"
      BY <3>1 DEF IsRead
    <3>3. Collected(raws, E, next, k + 1)
      BY <2>3, <2>6, <2>7, <2>9, <3>2
    <3>4. Listing!IsLast(page, next.count) \/ Listing!SaysEnd(page)
      BY <2>6, <2>9, <3>2, Zenon DEF Final
    <3>5. Listing!Known(next.total) => Len(next.items) = next.total
      BY <2>9, <3>2, Zenon DEF AddsUp
    <3>6. Closed(raws, E, next, k + 1)
      BY <3>3, <3>4, <3>5, Zenon DEF Closed
    <3>7. Listing!Known(next.code) /\ k + 1 > 0
      BY <3>2, MissingAssumption DEF Listing!Known
    <3> QED BY <3>6, <3>7, Zenon DEF Stopped
  <2>10. CASE ~Short(told, page) /\ next = [after EXCEPT !.number = page.page + 1]
    <3>1. next = [items |-> after.items, seen |-> after.seen, count |-> after.count,
                  total |-> after.total, number |-> page.page + 1, code |-> after.code]
      BY <2>6, <2>10, ReadsAreRecords, Zenon
    <3>2. /\ IsRead(next) /\ next.items = after.items /\ next.count = after.count
          /\ next.total = after.total /\ next.code = Missing /\ next.seen # {}
          /\ next.number = (k + 1) + 1
      BY <3>1, <2>1, <2>6, <1>t DEF IsRead
    <3>3. Collected(raws, E, next, k + 1)
      BY <2>3, <2>6, <2>7, <2>10, <3>2
    <3>4. next.seen = {} <=> k + 1 = 0
      BY <3>2
    <3> QED BY <3>2, <3>3, <3>4, Zenon DEF Open
  <2> QED BY <2>5, <2>8, <2>9, <2>10, Zenon
<1> QED BY <1>1, <1>2, <1>3, Zenon

\* The walk, step by step.
LEMMA ReadingKeeps ==
  ASSUME NEW raws, NEW E, ListsAre(raws, E), NEW m \in Nat, NEW f, Reading(f, raws, m)
  PROVE  \A n \in 0..m : \/ Open(raws, E, f[n], n)
                         \/ \E k \in 0..m : Stopped(raws, E, f[n], k)
<1> DEFINE Fine(n) == \/ Open(raws, E, f[n], n)
                      \/ \E k \in 0..m : Stopped(raws, E, f[n], k)
           Bad == {n \in 0..m : ~Fine(n)}
<1> SUFFICES ASSUME Bad # {} PROVE FALSE
  OBVIOUS
<1>1. PICK n \in Bad : \A j \in Bad : n <= j
  <2>1. Bad \in SUBSET Nat
    OBVIOUS
  <2> QED BY <2>1, LeastIsThere
<1>2. n \in 0..m /\ ~Fine(n) /\ f[n] = IF n = 0 THEN Listing!Start ELSE After(f[n - 1], raws)
  BY DEF Reading
<1>3. n # 0
  <2>1. IsInjective(<<>>) /\ Range(<<>>) = {} /\ <<>> \in Seq(E)
    BY DEF IsInjective, Range
  <2>2. Open(raws, E, Listing!Start, 0)
    BY <2>1 DEF Open, Collected, Listing!Start
  <2> QED BY <1>2, <2>2
<1>4. n - 1 \in 0..m /\ ~(n <= n - 1)
  BY <1>2, <1>3
<1>5. Fine(n - 1)
  BY <1>1, <1>4
<1> DEFINE read == f[n - 1]
<1>6. CASE Open(raws, E, read, n - 1)
  <2>1. read.code = Missing /\ read.number = n
    BY <1>6, <1>4 DEF Open
  <2>2. f[n] = Listing!Round(read, PageAt(raws, n))
    BY <2>1, <1>2, <1>3 DEF After, Listing!Known
  <2>3. n - 1 \in Nat /\ (n - 1) + 1 = n
    BY <1>4
  <2>4. Open(raws, E, f[n], n) \/ Stopped(raws, E, f[n], n)
    BY <2>2, <2>3, <1>6, RoundKeeps
  <2> QED BY <2>4, <1>2
<1>7. ASSUME NEW k \in 0..m, Stopped(raws, E, read, k) PROVE FALSE
  <2>1. f[n] = read
    BY <1>7, <1>2, <1>3 DEF After, Stopped
  <2> QED BY <2>1, <1>7, <1>2
<1> QED BY <1>5, <1>6, <1>7

\* A read that is complete has taken the pages up to one that says it is the last.
LEMMA CompleteIsClosed ==
  ASSUME NEW raws, Len(raws) \in Nat, NEW E, ListsAre(raws, E),
         Listing!ScanDirectory(raws).code = "complete"
  PROVE  \E k \in 1..Len(raws) : Closed(raws, E, Listing!ScanDirectory(raws), k)
<1> DEFINE m == Len(raws) + 1
           read == Listing!ScanDirectory(raws)
<1>1. PICK f : Reading(f, raws, m) /\ read = f[m]
  BY ScanUnfolded
<1>2. \/ Open(raws, E, read, m)
      \/ \E k \in 0..m : Stopped(raws, E, read, k)
  <2>1. m \in Nat /\ m \in 0..m
    OBVIOUS
  <2> HIDE DEF m, read
  <2> QED BY <1>1, <2>1, ReadingKeeps
<1> HIDE DEF read
<1>3. ~Open(raws, E, read, m)
  BY MissingAssumption DEF Open, read
<1>4. PICK k \in 0..m : Stopped(raws, E, read, k)
  BY <1>2, <1>3
<1>5. k > 0 /\ Closed(raws, E, read, k)
  BY <1>4 DEF Stopped, read
<1>6. Fits(PageAt(raws, k), read, k)
  BY <1>5 DEF Closed, Collected
<1>7. k \in 1..Len(raws)
  BY <1>6 DEF Fits, PageAt, Listing!Known
<1> QED BY <1>5, <1>7 DEF read

\* The numbers of the entries of a page, and the page of an entry.
LEMMA PagesDivide ==
  ASSUME NEW n \in Nat, NEW size \in Nat \ {0}
  PROVE  /\ Pages(n, size) \in Nat \ {0}
         /\ \A p \in 1..Pages(n, size) :
              /\ (p - 1) * size \in Nat /\ p * size = (p - 1) * size + size
              /\ p < Pages(n, size) <=> p * size < n
              /\ n # 0 => (p - 1) * size < n
         /\ n = 0 => Pages(n, size) = 1
<1> DEFINE c == (n + size - 1) \div size
<1>1. CASE n = 0
  BY <1>1 DEF Pages
<1>2. CASE n # 0
  <2>1. c \in Nat /\ c * size <= n + size - 1 /\ n + size - 1 < (c + 1) * size
    BY <1>2
  <2>2. \A a, b \in Nat : a <= b => a * size <= b * size
    OBVIOUS
  <2>3. Pages(n, size) = c
    BY <1>2 DEF Pages
  <2>4. c # 0 /\ (c + 1) * size = c * size + size /\ (c - 1) * size = c * size - size
    BY <1>2, <2>1
  <2> HIDE DEF c
  <2>5. ASSUME NEW p \in 1..c
        PROVE  /\ (p - 1) * size \in Nat /\ p * size = (p - 1) * size + size
               /\ p < c <=> p * size < n
               /\ (p - 1) * size < n
    <3>1. (p - 1) * size \in Nat /\ p * size = (p - 1) * size + size /\ p * size \in Nat
      BY <2>1
    <3>2. CASE p < c
      <4>1. p * size <= (c - 1) * size
        BY <3>2, <2>1, <2>2
      <4> QED BY <4>1, <3>1, <3>2, <2>1, <2>4
    <3>3. CASE p = c
      BY <3>1, <3>3, <2>1, <2>4
    <3> QED BY <3>2, <3>3, <2>1
  <2> QED BY <1>2, <2>1, <2>3, <2>4, <2>5
<1> QED BY <1>1, <1>2

LEMMA EntriesHavePages ==
  ASSUME NEW n \in Nat, NEW size \in Nat \ {0}, NEW i \in 1..n
  PROVE  \E p \in 1..Pages(n, size) : (p - 1) * size < i /\ i <= p * size
<1> DEFINE q == (i - 1) \div size
<1>1. q \in Nat /\ q * size <= i - 1 /\ i - 1 < (q + 1) * size
  OBVIOUS
<1> HIDE DEF q
<1> DEFINE C == Pages(n, size)
<1>2. C \in Nat \ {0} /\ C * size >= n
  <2>1. C \in 1..C
    BY PagesDivide
  <2> QED BY <2>1, PagesDivide
<1>3. \A a, b \in Nat : a <= b => a * size <= b * size
  OBVIOUS
<1>4. q + 1 <= C
  <2> SUFFICES ASSUME C <= q PROVE FALSE
    BY <1>1, <1>2
  <2>1. C * size <= q * size
    BY <1>1, <1>2, <1>3
  <2> QED BY <2>1, <1>1, <1>2
<1> HIDE DEF C
<1>5. (q + 1) - 1 = q /\ q + 1 \in 1..C
  BY <1>1, <1>2, <1>4
<1>6. ((q + 1) - 1) * size < i /\ i <= (q + 1) * size
  BY <1>1, <1>5
<1> QED BY <1>5, <1>6 DEF C

(***************************************************************************)
(* The pages of a directory of n entries.                                  *)
(***************************************************************************)
EntryOf(i) == [directory |-> IF i = 2 THEN 2 ELSE Missing, file |-> i]
AnyEntry == [directory : Nat \cup {Missing}, file : Nat \cup {Missing}]

\* Raw lists of entries that have identifiers, and what is made of them.
RawList(list, n) == list \in Seq({RawEntry(i) : i \in 1..n})
Entered(list) == [i \in 1..Len(list) |-> Listing!Entry(list[i])]

LEMMA EntriesAreRead ==
  /\ \A i \in Nat : /\ Listing!Entry(RawEntry(i)) = EntryOf(i) /\ EntryOf(i) \in AnyEntry
                    /\ Listing!IsEntry(RawEntry(i))
  /\ \A n : Entries(n) = {EntryOf(i) : i \in 1..n}
  /\ \A i, j : EntryOf(i) = EntryOf(j) => i = j
<1>1. ASSUME NEW i \in Nat
      PROVE  /\ Listing!Entry(RawEntry(i)) = EntryOf(i) /\ EntryOf(i) \in AnyEntry
             /\ Listing!IsEntry(RawEntry(i))
  <2>1. RawEntry(i) = [is_directory |-> i = 2, directory_id |-> Missing, file_id |-> i]
    BY DEF RawEntry
  <2>2. i # Missing
    BY MissingAssumption
  <2> DEFINE raw == RawEntry(i)
  <2>3. raw.is_directory = (i = 2) /\ raw.directory_id = Missing /\ raw.file_id = i
    BY <2>1
  <2> HIDE DEF raw
  <2>4. Listing!Entry(raw) = EntryOf(i)
    BY <2>3 DEF Listing!Entry, EntryOf
  <2>5. Listing!IsEntry(raw)
    BY <2>2, <2>3 DEF Listing!IsEntry
  <2>6. EntryOf(i) \in AnyEntry
    BY DEF EntryOf, AnyEntry
  <2> QED BY <2>4, <2>5, <2>6 DEF raw
<1>2. \A n : Entries(n) = {EntryOf(i) : i \in 1..n}
  BY DEF Entries, EntryOf
<1>3. \A i, j : EntryOf(i) = EntryOf(j) => i = j
  BY DEF EntryOf
<1> QED BY <1>1, <1>2, <1>3

\* The list of a page that tells the truth.
LEMMA ListsOfPages ==
  ASSUME NEW n \in Nat, NEW size \in Nat \ {0}, NEW style, NEW p \in 1..Pages(n, size)
  PROVE  LET list == RawPage(n, size, style, p).list IN
         /\ RawList(list, n)
         /\ \A i \in 1..Len(list) : list[i] = RawEntry((p - 1) * size + i)
         /\ Len(list) = IF p * size <= n THEN size ELSE n - (p - 1) * size
         /\ \A i \in 1..Len(list) : (p - 1) * size + i \in 1..n
<1> DEFINE list == RawPage(n, size, style, p).list
           b == (p - 1) * size
           m == IF p * size <= n THEN size ELSE n - b
<1>1. b \in Nat /\ p * size = b + size /\ (n # 0 => b < n) /\ (n = 0 => p = 1)
  BY PagesDivide
<1>2. m \in Nat /\ (n # 0 => b + m <= n)
  BY <1>1
<1>3. n = 0 => m = 0
  BY <1>1
<1>4. On(n, size, p) = [i \in 1..m |-> b + i]
  BY DEF On
<1>5. list = [i \in DOMAIN On(n, size, p) |-> RawEntry(On(n, size, p)[i])]
  BY DEF RawPage
<1> HIDE DEF b, m, list
<1>6. list = [i \in 1..m |-> RawEntry(b + i)]
  BY <1>4, <1>5
<1>7. \A i \in 1..m : b + i \in 1..n
  BY <1>1, <1>2, <1>3
<1>8. Len(list) = m /\ RawList(list, n) /\ \A i \in 1..m : list[i] = RawEntry(b + i)
  <2> DEFINE S == {RawEntry(j) : j \in 1..n}
  <2>1. \A i \in 1..m : RawEntry(b + i) \in S
    BY <1>7
  <2> HIDE DEF S
  <2>2. Len(list) = m /\ list \in Seq(S) /\ \A i \in 1..m : list[i] = RawEntry(b + i)
    BY <1>2, <1>6, <2>1
  <2> QED BY <2>2 DEF RawList, S
<1> QED BY <1>7, <1>8 DEF b, m, list

\* An entry without an identifier.
Unidentified == [RawEntry(1) EXCEPT !.file_id = Missing]
LEMMA UnidentifiedIsNoEntry == ~Listing!IsEntry(Unidentified)
<1> DEFINE no == 1 = 2
<1>1. RawEntry(1) = [is_directory |-> no, directory_id |-> Missing, file_id |-> 1]
  BY Zenon DEF RawEntry
<1>2. ~no
  OBVIOUS
<1> HIDE DEF no
<1>3. Unidentified.is_directory = no /\ Unidentified.file_id = Missing
  BY <1>1 DEF Unidentified
<1> QED BY <1>2, <1>3 DEF Listing!IsEntry

\* What each fault leaves of a page.
IsRaw(raw) ==
  raw = [list |-> raw.list, page |-> raw.page, page_count |-> raw.page_count,
         total |-> raw.total, scan_complete |-> raw.scan_complete, state |-> raw.state,
         has_more |-> raw.has_more, next_page |-> raw.next_page, terminal |-> raw.terminal]
IsSpoiled(raw, list, n, style, count, p, fault) ==
  /\ IsRaw(raw)
  /\ raw.page = IF fault = "renumbered" THEN p + 1 ELSE p
  /\ raw.page_count = IF fault = "recounted" THEN 1 ELSE Told("count", style, count)
  /\ raw.total = IF fault = "retotalled" THEN 1 ELSE Told("total", style, n)
  /\ raw.scan_complete = IF fault = "incomplete" THEN FALSE ELSE Missing
  /\ raw.state = IF fault = "partial" THEN "partial" ELSE Missing
  /\ raw.has_more = IF fault = "cut" THEN FALSE ELSE Told("more", style, p < count)
  /\ raw.next_page = IF p < count THEN Told("next", style, p + 1) ELSE Missing
  /\ raw.terminal = IF fault = "ended" THEN TRUE ELSE Told("terminal", style, p = count)
  /\ fault = "failed" => raw.list = Missing
  /\ fault = "nameless" => raw.list = Append(list, Unidentified)
  /\ fault = "dropped" => raw.list = IF list = <<>> THEN list ELSE Tail(list)
  /\ fault = "repeated" => raw.list = Append(list, RawEntry(1))
  /\ fault \notin {"failed", "nameless", "dropped", "repeated"} => raw.list = list
LEMMA SpoiledPages ==
  ASSUME NEW n \in Nat, NEW size \in Nat \ {0}, NEW style, NEW p \in 1..Pages(n, size),
         NEW fault \in Faults
  PROVE  LET page == RawPage(n, size, style, p) IN
         IsSpoiled(Spoil(page, fault), page.list, n, style, Pages(n, size), p, fault)
<1> DEFINE page == RawPage(n, size, style, p)
           count == Pages(n, size)
           raw == Spoil(page, fault)
           l == page.list
<1>1. page = [list |-> l, page |-> p, page_count |-> Told("count", style, count),
              total |-> Told("total", style, n), scan_complete |-> Missing, state |-> Missing,
              has_more |-> Told("more", style, p < count),
              next_page |-> IF p < count THEN Told("next", style, p + 1) ELSE Missing,
              terminal |-> Told("terminal", style, p = count)]
  BY DEF RawPage
<1> HIDE DEF page, count, l
<1>a. fault = "none" => raw = page
  BY DEF Spoil
<1>b. fault = "failed" => raw = [page EXCEPT !.list = Missing]
  BY DEF Spoil
<1>c. fault = "nameless" =>
        raw = [page EXCEPT !.list = Append(l, Unidentified)]
  BY DEF Spoil, l, Unidentified
<1>d. fault = "partial" => raw = [page EXCEPT !.state = "partial"]
  BY DEF Spoil
<1>e. fault = "incomplete" => raw = [page EXCEPT !.scan_complete = FALSE]
  BY DEF Spoil
<1>f. fault = "renumbered" => raw = [page EXCEPT !.page = page.page + 1]
  BY DEF Spoil
<1>g. fault = "dropped" => raw = [page EXCEPT !.list = IF l = <<>> THEN l ELSE Tail(l)]
  BY DEF Spoil, l
<1>h. fault = "repeated" => raw = [page EXCEPT !.list = Append(l, RawEntry(1))]
  BY DEF Spoil, l
<1>i. fault = "recounted" => raw = [page EXCEPT !.page_count = 1]
  BY DEF Spoil
<1>j. fault = "retotalled" => raw = [page EXCEPT !.total = 1]
  BY DEF Spoil
<1>k. fault = "ended" => raw = [page EXCEPT !.terminal = TRUE]
  BY DEF Spoil
<1>l. fault = "cut" => raw = [page EXCEPT !.has_more = FALSE]
  BY DEF Spoil
<1> HIDE DEF raw
<1> SUFFICES IsSpoiled(raw, l, n, style, count, p, fault)
  BY DEF raw, page, count, l
<1>1a. CASE fault = "none"  BY <1>1, <1>1a, <1>a DEF IsSpoiled, IsRaw
<1>1b. CASE fault = "failed"  BY <1>1, <1>1b, <1>b DEF IsSpoiled, IsRaw
<1>1c. CASE fault = "nameless"  BY <1>1, <1>1c, <1>c DEF IsSpoiled, IsRaw
<1>1d. CASE fault = "partial"  BY <1>1, <1>1d, <1>d DEF IsSpoiled, IsRaw
<1>1e. CASE fault = "incomplete"  BY <1>1, <1>1e, <1>e DEF IsSpoiled, IsRaw
<1>1f. CASE fault = "renumbered"  BY <1>1, <1>1f, <1>f DEF IsSpoiled, IsRaw
<1>1g. CASE fault = "dropped"  BY <1>1, <1>1g, <1>g DEF IsSpoiled, IsRaw
<1>1h. CASE fault = "repeated"  BY <1>1, <1>1h, <1>h DEF IsSpoiled, IsRaw
<1>1i. CASE fault = "recounted"  BY <1>1, <1>1i, <1>i DEF IsSpoiled, IsRaw
<1>1j. CASE fault = "retotalled"  BY <1>1, <1>1j, <1>j DEF IsSpoiled, IsRaw
<1>1k. CASE fault = "ended"  BY <1>1, <1>1k, <1>k DEF IsSpoiled, IsRaw
<1>1l. CASE fault = "cut"  BY <1>1, <1>1l, <1>l DEF IsSpoiled, IsRaw
<1> QED BY <1>1a, <1>1b, <1>1c, <1>1d, <1>1e, <1>1f, <1>1g, <1>1h, <1>1i, <1>1j, <1>1k, <1>1l
        DEF Faults, Broken

\* What is made of a list of raw entries.
LEMMA ListsAreEntered ==
  ASSUME NEW n \in Nat, NEW list, RawList(list, n)
  PROVE  /\ Len(list) \in Nat /\ Len(Entered(list)) = Len(list)
         /\ Entered(list) \in Seq(AnyEntry) /\ Entered(list) \in Seq(Entries(n))
         /\ \A i \in 1..Len(list) : Listing!IsEntry(list[i])
         /\ \A i \in 1..Len(list), j \in Nat : list[i] = RawEntry(j) => Entered(list)[i] = EntryOf(j)
<1>1. Len(list) \in Nat
      /\ \A i \in 1..Len(list) : \E j \in 1..n : list[i] = RawEntry(j)
  BY DEF RawList
<1>2. \A i \in 1..Len(list) : Entered(list)[i] = Listing!Entry(list[i])
  BY <1>1 DEF Entered
<1>3. \A i \in 1..Len(list) :
        /\ Listing!Entry(list[i]) \in AnyEntry \cap Entries(n)
        /\ Listing!IsEntry(list[i])
  BY <1>1, EntriesAreRead
<1>4. \A S : (\A i \in 1..Len(list) : Listing!Entry(list[i]) \in S) =>
        Len(Entered(list)) = Len(list) /\ Entered(list) \in Seq(S)
  BY <1>1 DEF Entered
<1>5. \A i \in 1..Len(list), j \in Nat : list[i] = RawEntry(j) => Entered(list)[i] = EntryOf(j)
  BY <1>2, EntriesAreRead
<1> QED BY <1>1, <1>3, <1>4, <1>5

\* A page that is read has the fields of the raw one.
LEMMA PagesAreMade ==
  ASSUME NEW raw, IsRaw(raw)
  PROVE  LET page == Listing!Page(raw)
             made == [list |-> Entered(raw.list), page |-> raw.page,
                      page_count |-> raw.page_count, total |-> raw.total,
                      scan_complete |-> raw.scan_complete,
                      state |-> Listing!ScanStateOf(raw),
                      has_more |-> raw.has_more, next_page |-> raw.next_page,
                      terminal |-> raw.terminal]
         IN /\ Listing!IsPage(raw) => page = made
            /\ ~Listing!IsPage(raw) => page = Missing
            /\ Listing!Known(page) => Listing!IsPage(raw)
<1> DEFINE made == [raw EXCEPT !.list = Entered(raw.list), !.state = Listing!ScanStateOf(raw)]
<1>1. made = [list |-> Entered(raw.list), page |-> raw.page,
              page_count |-> raw.page_count, total |-> raw.total,
              scan_complete |-> raw.scan_complete, state |-> Listing!ScanStateOf(raw),
              has_more |-> raw.has_more, next_page |-> raw.next_page,
              terminal |-> raw.terminal]
  <2>1. \A e, st : [raw EXCEPT !.list = e, !.state = st] =
          [list |-> e, page |-> raw.page, page_count |-> raw.page_count, total |-> raw.total,
           scan_complete |-> raw.scan_complete, state |-> st, has_more |-> raw.has_more,
           next_page |-> raw.next_page, terminal |-> raw.terminal]
    <3> TAKE e, st
    <3> DEFINE other == [raw EXCEPT !.list = e]
    <3>1. other = [list |-> e, page |-> raw.page, page_count |-> raw.page_count,
                   total |-> raw.total, scan_complete |-> raw.scan_complete,
                   state |-> raw.state, has_more |-> raw.has_more,
                   next_page |-> raw.next_page, terminal |-> raw.terminal]
      BY DEF IsRaw
    <3>2. [raw EXCEPT !.list = e, !.state = st] = [other EXCEPT !.state = st]
      BY DEF IsRaw
    <3> HIDE DEF other
    <3> QED BY <3>1, <3>2
  <2> QED BY <2>1, Zenon
<1>2. Listing!Page(raw) = IF Listing!IsPage(raw) THEN made ELSE Missing
  BY Zenon DEF Listing!Page, Entered
<1> HIDE DEF made
<1> QED BY <1>1, <1>2, Zenon DEF Listing!Known

\* A page that failed, or says that it is not what was asked for, never fits.
LEMMA BrokenNeverFits ==
  ASSUME NEW n \in Nat, NEW size \in Nat \ {0}, NEW style, NEW p \in 1..Pages(n, size),
         NEW fault \in Broken, NEW read
  PROVE  ~Fits(Listing!Page(Spoil(RawPage(n, size, style, p), fault)), read, p)
<1> DEFINE l == RawPage(n, size, style, p).list
           raw == Spoil(RawPage(n, size, style, p), fault)
           page == Listing!Page(raw)
<1>1. /\ IsRaw(raw)
      /\ raw.page = IF fault = "renumbered" THEN p + 1 ELSE p
      /\ raw.scan_complete = IF fault = "incomplete" THEN FALSE ELSE Missing
      /\ raw.state = IF fault = "partial" THEN "partial" ELSE Missing
      /\ fault = "failed" => raw.list = Missing
      /\ fault = "nameless" => raw.list = Append(l, Unidentified)
  <2>1. fault \in Faults
    BY DEF Faults, Broken
  <2>2. IsSpoiled(raw, l, n, style, Pages(n, size), p, fault)
    BY <2>1, SpoiledPages
  <2> HIDE DEF raw, l
  <2> QED BY <2>2 DEF IsSpoiled
<1>2. RawList(l, n)
  BY ListsOfPages
<1> HIDE DEF l, raw
<1> SUFFICES ASSUME Fits(page, read, p) PROVE FALSE
  BY DEF raw
<1>3. /\ Listing!IsPage(raw) /\ page.page = raw.page /\ page.state = Listing!ScanStateOf(raw)
      /\ page.page = p /\ page.state = "complete"
  BY <1>1, PagesAreMade DEF Fits
<1>4. "partial" # Missing
  BY MissingAssumption
<1>5. CASE fault = "failed"
  BY <1>1, <1>3, <1>5 DEF Listing!IsPage, Listing!Known
<1>6. CASE fault = "nameless"
  <2>2. Len(raw.list) = Len(l) + 1 /\ raw.list[Len(l) + 1] = Unidentified /\ Len(l) \in Nat
    BY <1>1, <1>2, <1>6 DEF RawList
  <2>3. Listing!IsEntry(Unidentified)
    BY <1>3, <2>2 DEF Listing!IsPage
  <2> QED BY <2>3, UnidentifiedIsNoEntry
<1>7. CASE fault = "partial"
  BY <1>1, <1>3, <1>4, <1>7 DEF Listing!ScanStateOf
<1>8. CASE fault = "incomplete"
  BY <1>1, <1>3, <1>4, <1>8 DEF Listing!ScanStateOf
<1>9. CASE fault = "renumbered"
  BY <1>1, <1>3, <1>9
<1> QED BY <1>5, <1>6, <1>7, <1>8, <1>9 DEF Broken

\* A page that is read has entries of the directory only, unless it repeats one of none.
LEMMA ReadPagesList ==
  ASSUME NEW n \in Nat, NEW size \in Nat \ {0}, NEW style, NEW p \in 1..Pages(n, size),
         NEW fault \in Faults,
         Listing!Known(Listing!Page(Spoil(RawPage(n, size, style, p), fault)))
  PROVE  LET l == RawPage(n, size, style, p).list
             page == Listing!Page(Spoil(RawPage(n, size, style, p), fault))
         IN /\ page.list \in Seq(AnyEntry)
            /\ n # 0 => page.list \in Seq(Entries(n))
            /\ fault \notin {"dropped", "repeated"} => page.list = Entered(l)
<1> DEFINE l == RawPage(n, size, style, p).list
           raw == Spoil(RawPage(n, size, style, p), fault)
           page == Listing!Page(raw)
<1>1. /\ IsRaw(raw)
      /\ fault \notin {"failed", "nameless", "dropped", "repeated"} => raw.list = l
      /\ fault = "dropped" => raw.list = IF l = <<>> THEN l ELSE Tail(l)
      /\ fault = "repeated" => raw.list = Append(l, RawEntry(1))
      /\ fault = "failed" => raw.list = Missing
      /\ fault = "nameless" => raw.list = Append(l, Unidentified)
  <2>1. fault \in Faults
    BY DEF Faults, Broken
  <2>2. IsSpoiled(raw, l, n, style, Pages(n, size), p, fault)
    BY <2>1, SpoiledPages
  <2> HIDE DEF raw, l
  <2> QED BY <2>2 DEF IsSpoiled
<1>2. RawList(l, n)
  BY ListsOfPages
<1> HIDE DEF l, raw
<1> SUFFICES /\ page.list \in Seq(AnyEntry)
             /\ n # 0 => page.list \in Seq(Entries(n))
             /\ fault \notin {"dropped", "repeated"} => page.list = Entered(l)
  BY DEF l, raw
<1>3. Listing!IsPage(raw) /\ page.list = Entered(raw.list)
  BY <1>1, PagesAreMade DEF raw
<1>4. fault # "failed"
  BY <1>1, <1>3 DEF Listing!IsPage, Listing!Known
<1>5. fault # "nameless"
  <2> SUFFICES ASSUME fault = "nameless" PROVE FALSE
    OBVIOUS
  <2>2. Len(raw.list) = Len(l) + 1 /\ raw.list[Len(l) + 1] = Unidentified /\ Len(l) \in Nat
    BY <1>1, <1>2 DEF RawList
  <2>3. Listing!IsEntry(Unidentified)
    BY <1>3, <2>2 DEF Listing!IsPage
  <2> QED BY <2>3, UnidentifiedIsNoEntry
<1> HIDE DEF page
<1>6. CASE fault \notin {"dropped", "repeated"}
  <2>1. raw.list = l
    BY <1>1, <1>4, <1>5, <1>6
  <2> QED BY <2>1, <1>2, <1>3, ListsAreEntered
<1>7. CASE fault = "dropped"
  <2>1. RawList(raw.list, n)
    <3> DEFINE S == {RawEntry(j) : j \in 1..n}
    <3>1. l \in Seq(S) /\ raw.list = IF l = <<>> THEN l ELSE Tail(l)
      BY <1>1, <1>2, <1>7 DEF RawList
    <3> HIDE DEF S
    <3>2. raw.list \in Seq(S)
      BY <3>1
    <3> QED BY <3>2 DEF RawList, S
  <2> QED BY <2>1, <1>3, <1>7, ListsAreEntered
<1>8. CASE fault = "repeated"
  <2> DEFINE N == IF n = 0 THEN 1 ELSE n
  <2>1. RawList(raw.list, N)
    <3>1. {RawEntry(i) : i \in 1..n} \subseteq {RawEntry(i) : i \in 1..N}
      OBVIOUS
    <3>2. RawEntry(1) \in {RawEntry(i) : i \in 1..N}
      OBVIOUS
    <3> DEFINE S == {RawEntry(i) : i \in 1..N}
               r == RawEntry(1)
    <3>3. l \in Seq(S)
      BY <1>2, <3>1 DEF RawList
    <3>4. r \in S
      BY <3>2
    <3> HIDE DEF S, r
    <3>5. Append(l, r) \in Seq(S)
      BY <3>3, <3>4
    <3> QED BY <1>1, <1>8, <3>5 DEF RawList, S, r
  <2>2. N \in Nat /\ (n # 0 => N = n)
    OBVIOUS
  <2> QED BY <2>1, <2>2, <1>3, <1>8, ListsAreEntered
<1> QED BY <1>6, <1>7, <1>8

\* A directory question of any size.
IsDirectoryQuestion(q) ==
  q.n \in Nat /\ q.size \in Nat \ {0} /\ q.at \in Nat \ {0} /\ q.fault \in Faults

LEMMA PagesOfQuestions ==
  ASSUME NEW q, IsDirectoryQuestion(q)
  PROVE  /\ Len(RawPages(q)) = Pages(q.n, q.size)
         /\ Pages(q.n, q.size) \in Nat \ {0}
         /\ \A p \in 1..Pages(q.n, q.size) :
              PageAt(RawPages(q), p) =
                Listing!Page(Spoil(RawPage(q.n, q.size, q.style, p),
                                   IF p = q.at THEN q.fault ELSE "none"))
         /\ \A p : p \notin 1..Pages(q.n, q.size) => PageAt(RawPages(q), p) = Missing
<1> DEFINE C == Pages(q.n, q.size)
           page(p) == Spoil(RawPage(q.n, q.size, q.style, p),
                            IF p = q.at THEN q.fault ELSE "none")
<1>1. C \in Nat \ {0}
  BY PagesDivide DEF IsDirectoryQuestion
<1>2. RawPages(q) = [p \in 1..C |-> page(p)]
  BY DEF RawPages
<1> HIDE DEF C, page
<1>3. Len(RawPages(q)) = C /\ \A p \in 1..C : RawPages(q)[p] = page(p)
  BY <1>1, <1>2
<1>4. \A p : PageAt(RawPages(q), p) = IF p \in 1..C THEN Listing!Page(RawPages(q)[p]) ELSE Missing
  BY <1>3, Zenon DEF PageAt
<1>5. \A p \in 1..C : PageAt(RawPages(q), p) = Listing!Page(page(p))
  BY <1>3, <1>4, Zenon
<1> QED BY <1>1, <1>3, <1>4, <1>5, Zenon DEF C, page

LEMMA QuestionsAreLists ==
  ASSUME NEW q, IsDirectoryQuestion(q)
  PROVE  /\ ListsAre(RawPages(q), AnyEntry)
         /\ q.n # 0 => ListsAre(RawPages(q), Entries(q.n))
<1> DEFINE C == Pages(q.n, q.size)
<1> SUFFICES ASSUME NEW p \in Nat, Listing!Known(PageAt(RawPages(q), p))
             PROVE  /\ PageAt(RawPages(q), p).list \in Seq(AnyEntry)
                    /\ q.n # 0 => PageAt(RawPages(q), p).list \in Seq(Entries(q.n))
  BY Zenon DEF ListsAre
<1>1. p \in 1..C
  BY PagesOfQuestions DEF Listing!Known
<1> DEFINE f == IF p = q.at THEN q.fault ELSE "none"
<1>2. f \in Faults /\ q.n \in Nat /\ q.size \in Nat \ {0}
  BY DEF IsDirectoryQuestion, Faults
<1>3. PageAt(RawPages(q), p) = Listing!Page(Spoil(RawPage(q.n, q.size, q.style, p), f))
  BY <1>1, PagesOfQuestions, Zenon
<1> HIDE DEF f
<1> QED BY <1>1, <1>2, <1>3, ReadPagesList

\* Only the last page ends a read, when what it says of that is the truth.
LEMMA OnlyTheLastEnds ==
  ASSUME NEW n \in Nat, NEW size \in Nat \ {0}, NEW style, NEW p \in 1..Pages(n, size),
         NEW fault \in Faults \ {"recounted", "ended", "cut"}, NEW read,
         Fits(Listing!Page(Spoil(RawPage(n, size, style, p), fault)), read, p),
         LET page == Listing!Page(Spoil(RawPage(n, size, style, p), fault)) IN
         Listing!IsLast(page, read.count) \/ Listing!SaysEnd(page)
  PROVE  p = Pages(n, size)
<1> DEFINE C == Pages(n, size)
           l == RawPage(n, size, style, p).list
           raw == Spoil(RawPage(n, size, style, p), fault)
           page == Listing!Page(raw)
<1>1. IsSpoiled(raw, l, n, style, C, p, fault)
  BY SpoiledPages
<1>2. Fits(page, read, p) /\ (Listing!IsLast(page, read.count) \/ Listing!SaysEnd(page))
  OBVIOUS
<1>3. C \in Nat
  BY PagesDivide
<1> HIDE DEF raw, l, C
<1>4. IsRaw(raw) /\ Listing!Known(page)
  BY <1>1, <1>2 DEF IsSpoiled, Fits
<1>5. /\ page.page_count = raw.page_count /\ page.terminal = raw.terminal
      /\ page.has_more = raw.has_more
  BY <1>4, PagesAreMade
<1> HIDE DEF page
<1>6. /\ page.page_count = Told("count", style, C)
      /\ page.terminal = Told("terminal", style, p = C)
      /\ page.has_more = Told("more", style, p < C)
      /\ page.page = p /\ page.page_count = read.count
  BY <1>1, <1>2, <1>5 DEF IsSpoiled, Fits
<1>7. CASE Listing!IsLast(page, read.count)
  BY <1>6, <1>7 DEF Listing!IsLast, Listing!Known, Told, C
<1>8. CASE page.terminal = TRUE
  BY <1>6, <1>8, MissingAssumption DEF Told, C
<1>9. CASE page.has_more = FALSE
  <2>1. (p < C) = FALSE
    BY <1>6, <1>9, MissingAssumption DEF Told
  <2> QED BY <2>1, <1>3 DEF C
<1> QED BY <1>2, <1>7, <1>8, <1>9 DEF Listing!SaysEnd

\* The pages of a directory have all its entries.
LEMMA AllPagesAllEntries ==
  ASSUME NEW n \in Nat, NEW size \in Nat \ {0}, NEW style
  PROVE  UNION {Range(Entered(RawPage(n, size, style, j).list)) : j \in 1..Pages(n, size)}
           = Entries(n)
<1> DEFINE C == Pages(n, size)
           List(j) == RawPage(n, size, style, j).list
<1>1. \A j \in 1..C : Entered(List(j)) \in Seq(Entries(n))
  BY ListsOfPages, ListsAreEntered
<1>2. \A j \in 1..C : Range(Entered(List(j))) \subseteq Entries(n)
  BY <1>1 DEF Range
<1>3. ASSUME NEW i \in 1..n PROVE \E j \in 1..C : EntryOf(i) \in Range(Entered(List(j)))
  <2>1. PICK p \in 1..C : (p - 1) * size < i /\ i <= p * size
    BY EntriesHavePages
  <2> DEFINE b == (p - 1) * size
             l == List(p)
  <2>2. b \in Nat /\ p * size = b + size
    BY PagesDivide
  <2>3. /\ RawList(l, n) /\ \A x \in 1..Len(l) : l[x] = RawEntry(b + x)
        /\ Len(l) = IF p * size <= n THEN size ELSE n - b
    BY ListsOfPages
  <2>4. Len(Entered(l)) = Len(l) /\ Entered(l) \in Seq(Entries(n))
        /\ \A x \in 1..Len(l), y \in Nat : l[x] = RawEntry(y) => Entered(l)[x] = EntryOf(y)
    BY <2>3, ListsAreEntered
  <2>5. b < i /\ i <= p * size
    BY <2>1
  <2> HIDE DEF b, l
  <2> DEFINE x == i - b
  <2>6. x \in 1..Len(l) /\ b + x = i
    BY <2>2, <2>3, <2>5
  <2>7. Entered(l)[x] = EntryOf(i)
    BY <2>3, <2>4, <2>6
  <2>8. EntryOf(i) \in Range(Entered(l))
    BY <2>4, <2>6, <2>7 DEF Range
  <2> QED BY <2>8 DEF l
<1>4. Entries(n) = {EntryOf(i) : i \in 1..n}
  BY EntriesAreRead
<1> HIDE DEF C, List
<1>5. UNION {Range(Entered(List(j))) : j \in 1..C} = Entries(n)
  BY <1>2, <1>3, <1>4
<1> QED BY <1>5 DEF C, List

\* A sequence that repeats nothing has all entries exactly if it is as long.
LEMMA CountsFill ==
  ASSUME NEW n \in Nat, NEW items \in Seq(Entries(n)), IsInjective(items)
  PROVE  Range(items) = Entries(n) <=> Len(items) = n
<1> DEFINE m == Len(items)
           e == [i \in 1..n |-> EntryOf(i)]
<1>1. m \in Nat /\ items \in [1..m -> Entries(n)]
  OBVIOUS
<1>2. e \in Bijection(1..n, Entries(n))
  <2>1. e \in [1..n -> Entries(n)]
    BY EntriesAreRead
  <2>2. \A i, j \in 1..n : e[i] = e[j] => i = j
    BY EntriesAreRead
  <2>3. \A x \in Entries(n) : \E i \in 1..n : e[i] = x
    BY EntriesAreRead
  <2> HIDE DEF e
  <2> QED BY <2>1, <2>2, <2>3 DEF Bijection, Injection, Surjection, IsInjective
<1>3. IsFiniteSet(Entries(n)) /\ Cardinality(Entries(n)) = n
  <2>1. IsFiniteSet(1..n) /\ Cardinality(1..n) = n
    BY FS_Interval
  <2>2. ExistsBijection(1..n, Entries(n))
    BY <1>2 DEF ExistsBijection
  <2> QED BY <2>1, <2>2, FS_Bijection
<1>4. Cardinality(1..m) = m
  <2>1. m \in Nat
    BY <1>1
  <2> HIDE DEF m
  <2> QED BY <2>1, FS_Interval
<1>5. items \in Injection(1..m, Entries(n))
  BY <1>1 DEF Injection, IsInjective
<1>6. m = n <=> items \in Surjection(1..m, Entries(n))
  BY <1>3, <1>4, <1>5, FS_Injection
<1>7. items \in Surjection(1..m, Entries(n)) <=> Range(items) = Entries(n)
  BY <1>1 DEF Surjection, Range
<1> QED BY <1>6, <1>7

\* A directory is read whole, or its read is not complete.
LEMMA DirectoriesAreSound ==
  ASSUME NEW q, IsDirectoryQuestion(q), Listing!ScanDirectory(RawPages(q)).code = "complete"
  PROVE  LET read == Listing!ScanDirectory(RawPages(q)) IN
         /\ ~(q.fault \in Broken /\ q.at <= Pages(q.n, q.size))
         /\ Listing!IsInjective(read.items)
         /\ q.fault = "none" \/ "total" \in q.style => Listing!Range(read.items) = Entries(q.n)
<1> DEFINE raws == RawPages(q)
           read == Listing!ScanDirectory(raws)
           n == q.n
           C == Pages(n, q.size)
           raw(p) == RawPage(n, q.size, q.style, p)
           f(p) == IF p = q.at THEN q.fault ELSE "none"
           page(p) == Listing!Page(Spoil(raw(p), f(p)))
<1>1. /\ n \in Nat /\ q.size \in Nat \ {0} /\ q.at \in Nat \ {0}
      /\ C \in Nat \ {0} /\ Len(raws) = C
      /\ \A p : f(p) \in Faults
  BY PagesOfQuestions DEF IsDirectoryQuestion, Faults
<1>2. \A p \in 1..C : PageAt(raws, p) = page(p)
  BY PagesOfQuestions, Zenon
<1>3. /\ ListsAre(raws, AnyEntry)
      /\ n # 0 => ListsAre(raws, Entries(n))
  BY QuestionsAreLists
<1>4. PICK k \in 1..C : Closed(raws, AnyEntry, read, k)
  <2>1. Len(raws) \in Nat /\ read.code = "complete" /\ ListsAre(raws, AnyEntry)
    BY <1>1, <1>3
  <2> HIDE DEF raws
  <2>2. \E k \in 1..Len(raws) : Closed(raws, AnyEntry, read, k)
    BY <2>1, CompleteIsClosed
  <2> QED BY <1>1, <2>2
<1> HIDE DEF read, raws
<1>5. /\ Collected(raws, AnyEntry, read, k)
      /\ Listing!IsLast(page(k), read.count) \/ Listing!SaysEnd(page(k))
      /\ Listing!Known(read.total) => Len(read.items) = read.total
  BY <1>2, <1>4, Zenon DEF Closed
<1>6. /\ \A j \in 1..k : Fits(PageAt(raws, j), read, j)
      /\ read.items \in Seq(AnyEntry) /\ IsInjective(read.items)
      /\ Range(read.items) = UNION {Range(PageAt(raws, j).list) : j \in 1..k}
  BY <1>5, Zenon DEF Collected
<1>7. k \in 1..C /\ 1..k \subseteq 1..C
  BY <1>1
<1>8. \A j \in 1..k : Fits(page(j), read, j)
  BY <1>2, <1>6, <1>7
<1>9. f(k) \notin {"recounted", "ended", "cut"} => k = C
  <2> SUFFICES ASSUME f(k) \notin {"recounted", "ended", "cut"} PROVE k = C
    OBVIOUS
  <2>1. Fits(page(k), read, k)
    BY <1>7, <1>8
  <2> DEFINE g == f(k)
  <2>2. g \in Faults \ {"recounted", "ended", "cut"}
    BY <1>1
  <2>3. Fits(Listing!Page(Spoil(raw(k), g)), read, k)
        /\ (Listing!IsLast(Listing!Page(Spoil(raw(k), g)), read.count)
            \/ Listing!SaysEnd(Listing!Page(Spoil(raw(k), g))))
    BY <2>1, <1>5, Zenon
  <2> HIDE DEF g
  <2> QED BY <1>1, <1>7, <2>2, <2>3, OnlyTheLastEnds
<1>10. ~(q.fault \in Broken /\ q.at <= C)
  <2> SUFFICES ASSUME q.fault \in Broken, q.at <= C PROVE FALSE
    OBVIOUS
  <2>1. q.at \in 1..C /\ f(q.at) = q.fault
    BY <1>1
  <2>2. ~Fits(page(q.at), read, q.at)
    BY <1>1, <2>1, BrokenNeverFits
  <2>3. k < q.at
    BY <1>1, <1>8, <2>1, <2>2
  <2>4. f(k) = "none"
    BY <2>3, <1>1, <1>7
  <2> QED BY <2>3, <2>4, <1>1, <1>7, <1>9
<1>11. ASSUME q.fault \in {"none", "retotalled"} PROVE Range(read.items) = Entries(n)
  <2>1. k = C
    BY <1>9, <1>11
  <2>2. ASSUME NEW j \in 1..C
        PROVE  PageAt(raws, j).list = Entered(raw(j).list)
    <3> DEFINE g == f(j)
    <3>1. g \in Faults /\ g \notin {"dropped", "repeated"}
      BY <1>1, <1>11
    <3>2. PageAt(raws, j) = Listing!Page(Spoil(raw(j), g))
      BY <1>2, Zenon
    <3>3. Listing!Known(PageAt(raws, j))
      BY <2>1, <1>6 DEF Fits
    <3> HIDE DEF g
    <3> QED BY <1>1, <3>1, <3>2, <3>3, ReadPagesList
  <2>3. Range(read.items) = UNION {Range(Entered(raw(j).list)) : j \in 1..C}
    BY <2>1, <2>2, <1>6
  <2> QED BY <1>1, <2>3, AllPagesAllEntries
<1>12. ASSUME q.fault # "retotalled", "total" \in q.style PROVE Range(read.items) = Entries(n)
  <2>1. read.total = n
    <3> DEFINE g == f(1)
    <3>1. g \in Faults /\ g # "retotalled"
      BY <1>1, <1>12
    <3>2. 1 \in 1..k /\ 1 \in 1..C
      BY <1>1, <1>7
    <3>3. Fits(Listing!Page(Spoil(raw(1), g)), read, 1)
      BY <1>8, <3>2, Zenon
    <3> DEFINE r == Spoil(raw(1), g)
               l == raw(1).list
    <3> HIDE DEF g
    <3>4. IsSpoiled(r, l, n, q.style, C, 1, g)
      BY <1>1, <3>1, <3>2, SpoiledPages
    <3>5. IsRaw(r) /\ r.total = n
      BY <3>1, <3>4, <1>12 DEF IsSpoiled, Told
    <3>6. Fits(Listing!Page(r), read, 1)
      BY <3>3
    <3> HIDE DEF r
    <3>7. Listing!Page(r).total = n
      BY <3>5, <3>6, PagesAreMade DEF Fits
    <3> QED BY <3>6, <3>7 DEF Fits
  <2>2. Len(read.items) = n
    BY <2>1, <1>1, <1>5, MissingAssumption DEF Listing!Known
  <2>3. read.items \in Seq(Entries(n))
    <3>1. CASE n = 0
      <4>1. read.items = <<>>
        BY <2>2, <1>6, <3>1
      <4> QED BY <4>1
    <3>2. CASE n # 0
      <4>1. ASSUME NEW j \in 1..k PROVE Range(PageAt(raws, j).list) \subseteq Entries(n)
        <5>1. Listing!Known(PageAt(raws, j)) /\ j \in Nat
          BY <1>6 DEF Fits
        <5>2. PageAt(raws, j).list \in Seq(Entries(n))
          BY <5>1, <3>2, <1>3 DEF ListsAre
        <5> QED BY <5>2 DEF Range
      <4>2. Range(read.items) \subseteq Entries(n)
        BY <4>1, <1>6
      <4> QED BY <4>2, <1>6 DEF Range
    <3> QED BY <3>1, <3>2
  <2> QED BY <2>2, <2>3, <1>1, <1>6, CountsFill
<1>13. Listing!IsInjective(read.items)
       /\ (q.fault = "none" \/ "total" \in q.style => Listing!Range(read.items) = Entries(n))
  BY <1>6, <1>11, <1>12, ListingOperators
<1> QED BY <1>10, <1>13 DEF read, raws

\* Sequences that share nothing are injective together.
LEMMA ConcatenationIsInjective ==
  ASSUME NEW E, NEW a \in Seq(E), NEW b \in Seq(E), IsInjective(a), IsInjective(b),
         \A i \in 1..Len(a), j \in 1..Len(b) : a[i] # b[j]
  PROVE  IsInjective(a \o b)
<1>1. /\ DOMAIN (a \o b) = 1..Len(a) + Len(b)
      /\ \A i \in 1..Len(a) : (a \o b)[i] = a[i]
      /\ \A i \in Len(a) + 1..Len(a) + Len(b) :
           i - Len(a) \in 1..Len(b) /\ (a \o b)[i] = b[i - Len(a)]
  OBVIOUS
<1>2. /\ \A i, j \in 1..Len(a) : a[i] = a[j] => i = j
      /\ \A i, j \in 1..Len(b) : b[i] = b[j] => i = j
      /\ Len(a) \in Nat /\ Len(b) \in Nat
  BY DEF IsInjective
<1>3. \A i : i \in 1..Len(a) + Len(b) <=> i \in 1..Len(a) \/ i \in Len(a) + 1..Len(a) + Len(b)
  BY <1>2
<1> DEFINE c == a \o b
<1>4. \A i, j \in 1..Len(a) + Len(b) : c[i] = c[j] => i = j
  <2> TAKE i, j \in 1..Len(a) + Len(b)
  <2> HAVE c[i] = c[j]
  <2>1. CASE i \in 1..Len(a) /\ j \in 1..Len(a)
    BY <2>1, <1>1, <1>2
  <2>2. CASE i \in 1..Len(a) /\ j \in Len(a) + 1..Len(a) + Len(b)
    BY <2>2, <1>1, <1>2
  <2>3. CASE j \in 1..Len(a) /\ i \in Len(a) + 1..Len(a) + Len(b)
    BY <2>3, <1>1, <1>2
  <2>4. CASE i \in Len(a) + 1..Len(a) + Len(b) /\ j \in Len(a) + 1..Len(a) + Len(b)
    <3>1. i - Len(a) = j - Len(a)
      BY <2>4, <1>1, <1>2
    <3> QED BY <3>1, <2>4, <1>2
  <2> QED BY <2>1, <2>2, <2>3, <2>4, <1>3
<1> QED BY <1>1, <1>4 DEF IsInjective

\* What a page says that tells the truth.
LEMMA HonestPages ==
  ASSUME NEW n \in Nat, NEW size \in Nat \ {0}, NEW style, NEW p \in 1..Pages(n, size)
  PROVE  LET l == RawPage(n, size, style, p).list
             C == Pages(n, size)
             page == Listing!Page(Spoil(RawPage(n, size, style, p), "none"))
         IN /\ Listing!Known(page) /\ page.list = Entered(l) /\ page.page = p
            /\ page.page_count = Told("count", style, C) /\ page.total = Told("total", style, n)
            /\ page.state = "complete" /\ page.has_more = Told("more", style, p < C)
            /\ page.next_page = IF p < C THEN Told("next", style, p + 1) ELSE Missing
            /\ page.terminal = Told("terminal", style, p = C)
<1> DEFINE C == Pages(n, size)
           l == RawPage(n, size, style, p).list
           raw == Spoil(RawPage(n, size, style, p), "none")
           page == Listing!Page(raw)
<1>1. IsSpoiled(raw, l, n, style, C, p, "none")
  BY SpoiledPages DEF Faults
<1>2. C \in Nat \ {0} /\ p \in 1..C
  BY PagesDivide
<1>3. RawList(l, n)
  BY ListsOfPages
<1>4. Len(l) \in Nat /\ Entered(l) \in Seq(AnyEntry) /\ \A i \in 1..Len(l) : Listing!IsEntry(l[i])
  BY <1>3, ListsAreEntered
<1> HIDE DEF raw, l, C
<1>5. /\ IsRaw(raw) /\ raw.list = l /\ raw.page = p
      /\ raw.page_count = Told("count", style, C) /\ raw.total = Told("total", style, n)
      /\ raw.scan_complete = Missing /\ raw.state = Missing
      /\ raw.has_more = Told("more", style, p < C)
      /\ raw.next_page = IF p < C THEN Told("next", style, p + 1) ELSE Missing
      /\ raw.terminal = Told("terminal", style, p = C)
  BY <1>1 DEF IsSpoiled
<1>6. /\ raw.page_count \in {Missing, C} /\ raw.total \in {Missing, n}
      /\ raw.next_page \in {Missing, p + 1}
      /\ raw.has_more \in BOOLEAN \cup {Missing} /\ raw.terminal \in BOOLEAN \cup {Missing}
  BY <1>5 DEF Told
<1>7. Listing!ScanStateOf(raw) = "complete"
  BY <1>5, MissingAssumption DEF Listing!ScanStateOf
<1>8. l # Missing /\ p # Missing
  <2>1. {RawEntry(i) : i \in 1..n} \subseteq RawEntries
    <3>1. ASSUME NEW i \in Nat PROVE RawEntry(i) \in RawEntries
      <4> DEFINE second == i = 2
      <4>1. RawEntry(i) = [is_directory |-> second, directory_id |-> Missing, file_id |-> i]
        BY Zenon DEF RawEntry
      <4>2. second \in BOOLEAN
        OBVIOUS
      <4> HIDE DEF second
      <4> QED BY <4>1, <4>2 DEF RawEntries
    <3> QED BY <3>1
  <2> DEFINE S == {RawEntry(i) : i \in 1..n}
  <2>2. l \in Seq(S) /\ S \subseteq RawEntries
    BY <1>3, <2>1 DEF RawList
  <2> HIDE DEF S
  <2>3. l \in Seq(RawEntries)
    BY <2>2
  <2>4. Missing \notin Seq(RawEntries)
    BY NoneAssumption
  <2> QED BY <2>3, <2>4, MissingAssumption
<1>9. Listing!IsPage(raw)
  <2>1. Listing!Known(raw.list) /\ Listing!Known(raw.page)
    BY <1>5, <1>8 DEF Listing!Known
  <2>2. \A i \in 1..Len(raw.list) : Listing!IsEntry(raw.list[i])
    BY <1>4, <1>5
  <2>3. /\ raw.page >= 1
        /\ Listing!Known(raw.page_count) => raw.page_count >= 1
        /\ Listing!Known(raw.total) => raw.total >= 0
        /\ Listing!Known(raw.next_page) => raw.next_page >= 1
    BY <1>2, <1>5, <1>6 DEF Listing!Known
  <2>4. ~Listing!Known(raw.scan_complete)
    BY <1>5 DEF Listing!Known
  <2> QED BY <2>1, <2>2, <2>3, <2>4, Zenon DEF Listing!IsPage
<1>10. page = [list |-> Entered(l), page |-> p, page_count |-> raw.page_count,
               total |-> raw.total, scan_complete |-> Missing, state |-> "complete",
               has_more |-> raw.has_more, next_page |-> raw.next_page,
               terminal |-> raw.terminal]
  BY <1>5, <1>7, <1>9, PagesAreMade
<1> HIDE DEF page
<1>11. Listing!Known(page)
  <2>1. page \in [list : Seq(AnyEntry), page : Nat, page_count : Nat \cup {Missing},
                  total : Nat \cup {Missing}, scan_complete : BOOLEAN \cup {Missing},
                  state : {"complete"}, has_more : BOOLEAN \cup {Missing},
                  next_page : Nat \cup {Missing}, terminal : BOOLEAN \cup {Missing}]
    BY <1>2, <1>4, <1>6, <1>10
  <2> QED BY <2>1, NoneAssumption, Zenon DEF Listing!Known, AnyEntry
<1>12. /\ page.list = Entered(l) /\ page.page = p /\ page.page_count = raw.page_count
       /\ page.total = raw.total /\ page.state = "complete" /\ page.has_more = raw.has_more
       /\ page.next_page = raw.next_page /\ page.terminal = raw.terminal
  BY <1>10
<1> QED BY <1>5, <1>11, <1>12, Zenon DEF page, raw, l, C

\* The entries of a page that tells the truth, by their numbers.
LEMMA HonestLists ==
  ASSUME NEW n \in Nat, NEW size \in Nat \ {0}, NEW style, NEW p \in 1..Pages(n, size)
  PROVE  LET list == Entered(RawPage(n, size, style, p).list) IN
         /\ list \in Seq(AnyEntry) /\ IsInjective(list)
         /\ \A i \in 1..Len(list) : (p - 1) * size + i \in 1..n /\ i <= size
                                    /\ list[i] = EntryOf((p - 1) * size + i)
         /\ n # 0 => list # <<>>
<1> DEFINE l == RawPage(n, size, style, p).list
           list == Entered(l)
           b == (p - 1) * size
<1>1. /\ RawList(l, n) /\ \A i \in 1..Len(l) : l[i] = RawEntry(b + i) /\ b + i \in 1..n
      /\ Len(l) = IF p * size <= n THEN size ELSE n - b
  BY ListsOfPages
<1>2. b \in Nat /\ p * size = b + size /\ (n # 0 => b < n)
  BY PagesDivide
<1> HIDE DEF b, l
<1>3. /\ Len(l) \in Nat /\ Len(list) = Len(l) /\ list \in Seq(AnyEntry)
      /\ \A i \in 1..Len(l), j \in Nat : l[i] = RawEntry(j) => list[i] = EntryOf(j)
  BY <1>1, ListsAreEntered
<1> HIDE DEF list
<1>4. \A i \in 1..Len(list) : b + i \in 1..n /\ i <= size /\ list[i] = EntryOf(b + i)
  BY <1>1, <1>2, <1>3
<1>5. IsInjective(list)
  <2>1. ASSUME NEW i \in 1..Len(list), NEW j \in 1..Len(list), list[i] = list[j] PROVE i = j
    <3>1. EntryOf(b + i) = EntryOf(b + j)
      BY <1>4, <2>1
    <3>2. b + i = b + j
      BY <3>1, EntriesAreRead
    <3> QED BY <3>2, <1>2
  <2>2. DOMAIN list = 1..Len(list)
    BY <1>3
  <2> QED BY <2>1, <2>2 DEF IsInjective
<1>6. n # 0 => list # <<>>
  <2>1. n # 0 => Len(list) # 0
    BY <1>1, <1>2, <1>3
  <2> QED BY <2>1
<1> QED BY <1>3, <1>4, <1>5, <1>6 DEF list, l, b

\* Pages that tell where they end.
TellsEnd(n, size, style) ==
  \/ "count" \in style \/ "more" \in style
  \/ "terminal" \in style /\ ("next" \in style \/ Pages(n, size) = 1)

\* They contradict themselves nowhere, and end exactly at the last.
LEMMA HonestPagesAgree ==
  ASSUME NEW n \in Nat, NEW size \in Nat \ {0}, NEW style, NEW p \in 1..Pages(n, size),
         TellsEnd(n, size, style)
  PROVE  LET C == Pages(n, size)
             page == Listing!Page(Spoil(RawPage(n, size, style, p), "none"))
             count == page.page_count
         IN /\ ~Listing!Conflicts(page, count) /\ ~Listing!EmptyTooSoon(page, count)
            /\ p < C => ~(Listing!IsLast(page, count) \/ Listing!SaysEnd(page))
                        /\ Listing!Continues(page, count)
            /\ p = C => Listing!IsLast(page, count) \/ Listing!SaysEnd(page)
<1> DEFINE C == Pages(n, size)
           list == Entered(RawPage(n, size, style, p).list)
           page == Listing!Page(Spoil(RawPage(n, size, style, p), "none"))
           count == page.page_count
<1>1. /\ page.list = list /\ page.page = p
      /\ count = Told("count", style, C) /\ page.total = Told("total", style, n)
      /\ page.has_more = Told("more", style, p < C)
      /\ page.next_page = IF p < C THEN Told("next", style, p + 1) ELSE Missing
      /\ page.terminal = Told("terminal", style, p = C)
  BY HonestPages
<1>2. C \in Nat \ {0} /\ p \in 1..C /\ (n = 0 => C = 1)
  BY PagesDivide
<1>3. n # 0 => list # <<>>
  BY HonestLists
<1>4. Missing \notin Nat /\ Missing \notin BOOLEAN
  BY MissingAssumption
<1>e. \/ "count" \in style \/ "more" \in style
      \/ "terminal" \in style /\ ("next" \in style \/ C = 1)
  BY DEF TellsEnd
<1> HIDE DEF page, C, list
<1>5. /\ count = C \/ count = Missing
      /\ page.terminal = TRUE => p = C
      /\ page.terminal = FALSE => p < C
      /\ page.has_more = TRUE => p < C
      /\ page.has_more = FALSE => p = C
      /\ Listing!Known(page.next_page) => p < C /\ page.next_page = p + 1
  <2>1. count = C \/ count = Missing
    BY <1>1 DEF Told
  <2>2. page.terminal = TRUE => p = C
    BY <1>1, <1>4 DEF Told
  <2>3. page.terminal = FALSE => p < C
    <3> SUFFICES ASSUME page.terminal = FALSE PROVE p < C  OBVIOUS
    <3>1. (p = C) = FALSE
      BY <1>1, <1>4 DEF Told
    <3> QED BY <3>1, <1>2
  <2>4. page.has_more = TRUE => p < C
    <3> SUFFICES ASSUME page.has_more = TRUE PROVE p < C  OBVIOUS
    <3>1. (p < C) = TRUE
      BY <1>1, <1>4 DEF Told
    <3> QED BY <3>1
  <2>5. page.has_more = FALSE => p = C
    <3> SUFFICES ASSUME page.has_more = FALSE PROVE p = C  OBVIOUS
    <3>1. (p < C) = FALSE
      BY <1>1, <1>4 DEF Told
    <3> QED BY <3>1, <1>2
  <2>6. Listing!Known(page.next_page) => p < C /\ page.next_page = p + 1
    BY <1>1 DEF Told, Listing!Known
  <2> QED BY <2>1, <2>2, <2>3, <2>4, <2>5, <2>6
<1>6. /\ Listing!IsLast(page, count) => p = C
      /\ Listing!IsBefore(page, count) => p < C
      /\ Listing!Known(count) => count = C
  BY <1>1, <1>5 DEF Listing!IsLast, Listing!IsBefore, Listing!Known
<1>7. ~Listing!Conflicts(page, count)
  <2>1. ~(page.terminal = TRUE /\ (page.has_more = TRUE \/ Listing!Known(page.next_page)))
    BY <1>2, <1>5
  <2>2. ~(page.has_more = FALSE /\ (page.terminal = FALSE \/ Listing!Known(page.next_page)))
    BY <1>2, <1>5
  <2>3. ~(Listing!Known(page.next_page) /\ page.next_page # page.page + 1)
    BY <1>1, <1>5
  <2>4. ~(/\ Listing!IsLast(page, count)
          /\ page.terminal = FALSE \/ page.has_more = TRUE \/ Listing!Known(page.next_page))
    BY <1>2, <1>5, <1>6
  <2>5. ~(Listing!IsBefore(page, count) /\ Listing!SaysEnd(page))
    BY <1>2, <1>5, <1>6 DEF Listing!SaysEnd
  <2>6. ~(Listing!Known(count) /\ page.page > count)
    BY <1>1, <1>2, <1>6
  <2> QED BY <2>1, <2>2, <2>3, <2>4, <2>5, <2>6, Zenon DEF Listing!Conflicts
<1>8. p = C => Listing!IsLast(page, count) \/ Listing!SaysEnd(page)
  <2> SUFFICES ASSUME p = C PROVE Listing!IsLast(page, count) \/ Listing!SaysEnd(page)
    OBVIOUS
  <2>1. CASE "count" \in style
    BY <2>1, <1>1, <1>2, <1>4 DEF Told, Listing!IsLast, Listing!Known
  <2>2. CASE "more" \in style
    <3>1. (p < C) = FALSE
      BY <1>2
    <3>2. page.has_more = FALSE
      BY <2>2, <3>1, <1>1 DEF Told
    <3> QED BY <3>2 DEF Listing!SaysEnd
  <2>3. CASE "terminal" \in style
    <3>1. page.terminal = TRUE
      BY <2>3, <1>1 DEF Told
    <3> QED BY <3>1 DEF Listing!SaysEnd
  <2> QED BY <2>1, <2>2, <2>3, <1>e
<1>9. p < C => ~(Listing!IsLast(page, count) \/ Listing!SaysEnd(page))
  BY <1>2, <1>5, <1>6 DEF Listing!SaysEnd
<1>10. p < C => Listing!Continues(page, count)
  <2> SUFFICES ASSUME p < C PROVE Listing!Continues(page, count)
    OBVIOUS
  <2>1. CASE "count" \in style
    <3>1. count = C
      BY <2>1, <1>1 DEF Told
    <3> QED BY <3>1, <1>1, <1>2, <1>4 DEF Listing!Continues, Listing!IsBefore, Listing!Known
  <2>2. CASE "more" \in style
    <3>1. page.has_more = (p < C)
      BY <2>2, <1>1 DEF Told
    <3>2. page.has_more = TRUE
      BY <3>1
    <3> QED BY <3>2 DEF Listing!Continues
  <2>3. CASE "next" \in style
    <3>1. page.next_page = p + 1
      BY <2>3, <1>1 DEF Told
    <3>2. p + 1 \in Nat
      BY <1>2
    <3>3. Listing!Known(page.next_page)
      BY <3>1, <3>2, <1>4 DEF Listing!Known
    <3> QED BY <3>3 DEF Listing!Continues
  <2> QED BY <2>1, <2>2, <2>3, <1>2, <1>e
<1>11. ~Listing!EmptyTooSoon(page, count)
  <2> SUFFICES ASSUME page.list = <<>>, ~Listing!SaysEnd(page),
                      ~Listing!Known(count) \/ p < count \/ page.total \notin {Missing, 0}
               PROVE  FALSE
    BY <1>1 DEF Listing!EmptyTooSoon
  <2>1. n = 0 /\ C = 1 /\ p = C
    BY <1>1, <1>2, <1>3
  <2>2. page.total \in {Missing, 0}
    BY <2>1, <1>1 DEF Told
  <2>3. ~Listing!Known(count)
    BY <2>1, <2>2, <1>2, <1>6
  <2>4. Listing!SaysEnd(page)
    BY <1>8, <2>1, <2>3 DEF Listing!IsLast
  <2> QED BY <2>4
<1> QED BY <1>7, <1>8, <1>9, <1>10, <1>11 DEF page, C

\* Pages that tell the truth.
AreHonest(raws, n, size, style) ==
  \A p \in 1..Pages(n, size) :
    PageAt(raws, p) = Listing!Page(Spoil(RawPage(n, size, style, p), "none"))

\* What has been read of them repeats nothing of the next one, and all of them are all
\* entries.
Reaped(raws, k) == UNION {Range(PageAt(raws, j).list) : j \in 1..k}
LEMMA HonestPagesAreNew ==
  ASSUME NEW n \in Nat, NEW size \in Nat \ {0}, NEW style, NEW raws,
         AreHonest(raws, n, size, style), NEW k \in Nat, k + 1 \in 1..Pages(n, size),
         NEW items \in Seq(AnyEntry), IsInjective(items), Range(items) = Reaped(raws, k)
  PROVE  LET all == items \o PageAt(raws, k + 1).list IN
         /\ IsInjective(all)
         /\ k + 1 = Pages(n, size) => Len(all) = n
<1> DEFINE C == Pages(n, size)
           Made(p) == Entered(RawPage(n, size, style, p).list)
           list == Made(k + 1)
           b == ((k + 1) - 1) * size
           all == items \o list
<1>1. \A p \in 1..C : PageAt(raws, p).list = Made(p)
  BY HonestPages DEF AreHonest
<1>2. C \in Nat /\ 1..k \subseteq 1..C /\ 1..k + 1 \subseteq 1..C
  <2>1. C \in Nat
    BY PagesDivide
  <2> QED BY <2>1
<1>3. /\ list \in Seq(AnyEntry) /\ IsInjective(list)
      /\ \A i \in 1..Len(list) : b + i \in 1..n /\ list[i] = EntryOf(b + i)
  <2> DEFINE p == k + 1
  <2>1. p \in 1..C
    OBVIOUS
  <2> HIDE DEF p
  <2>2. LET made == Made(p) IN
        /\ made \in Seq(AnyEntry) /\ IsInjective(made)
        /\ \A i \in 1..Len(made) : (p - 1) * size + i \in 1..n
                                   /\ made[i] = EntryOf((p - 1) * size + i)
    BY <2>1, HonestLists
  <2> QED BY <2>2, Zenon DEF p
<1>4. b \in Nat
  BY PagesDivide
<1>5. ASSUME NEW p \in 1..k, NEW x \in Range(Made(p))
      PROVE  \E i \in 1..n : i <= b /\ x = EntryOf(i)
  <2>1. p \in 1..C
    BY <1>2
  <2> DEFINE a == (p - 1) * size
             m == Made(p)
  <2>2. /\ m \in Seq(AnyEntry)
        /\ \A i \in 1..Len(m) : a + i \in 1..n /\ i <= size /\ m[i] = EntryOf(a + i)
    BY <2>1, HonestLists
  <2>3. a \in Nat /\ p * size = a + size /\ p * size \in Nat
    BY <2>1, PagesDivide
  <2>4. p * size <= b
    <3>1. \A c, d \in Nat : c <= d => c * size <= d * size
      OBVIOUS
    <3>2. p \in Nat /\ (k + 1) - 1 \in Nat /\ p <= (k + 1) - 1
      OBVIOUS
    <3> QED BY <3>1, <3>2
  <2>5. PICK i \in 1..Len(m) : x = m[i]
    <3>1. m \in Seq(AnyEntry) /\ x \in Range(m)
      BY <2>2
    <3> HIDE DEF m
    <3> QED BY <3>1 DEF Range
  <2> HIDE DEF a, b, m
  <2>6. a + i \in 1..n /\ a + i <= b /\ x = EntryOf(a + i)
    BY <2>2, <2>3, <2>4, <2>5, <1>4
  <2> QED BY <2>6 DEF b
<1>6. Range(items) = UNION {Range(Made(j)) : j \in 1..k}
  BY <1>1, <1>2 DEF Reaped
<1> HIDE DEF b, list, Made
<1>7. \A i \in 1..Len(items), j \in 1..Len(list) : items[i] # list[j]
  <2> SUFFICES ASSUME NEW i \in 1..Len(items), NEW j \in 1..Len(list), items[i] = list[j]
               PROVE  FALSE
    OBVIOUS
  <2>1. items[i] \in Range(items)
    BY DEF Range
  <2>2. PICK p \in 1..k : items[i] \in Range(Made(p))
    BY <2>1, <1>6
  <2>3. PICK x \in 1..n : x <= b /\ items[i] = EntryOf(x)
    BY <2>2, <1>5
  <2>4. EntryOf(x) = EntryOf(b + j)
    BY <2>3, <1>3
  <2>5. x = b + j
    BY <2>4, EntriesAreRead
  <2> QED BY <2>3, <2>5, <1>4
<1>8. IsInjective(all)
  BY <1>3, <1>7, ConcatenationIsInjective
<1>9. ASSUME k + 1 = C PROVE Len(all) = n
  <2>1. Range(all) = Range(items) \cup Range(list)
    BY <1>3, RangeConcatenation
  <2>2. Range(all) = UNION {Range(Made(j)) : j \in 1..C}
    <3>1. \A j : j \in 1..C <=> j \in 1..k \/ j = k + 1
      BY <1>9
    <3> QED BY <3>1, <2>1, <1>6 DEF list
  <2>3. Range(all) = Entries(n)
    BY <2>2, AllPagesAllEntries DEF Made
  <2>4. all \in Seq(AnyEntry)
    BY <1>3
  <2> HIDE DEF all
  <2>5. all \in Seq(Entries(n))
    BY <2>3, <2>4 DEF Range
  <2> QED BY <2>3, <2>5, <1>8, CountsFill DEF all
<1>10. PageAt(raws, k + 1).list = list
  BY <1>1 DEF list
<1> QED BY <1>8, <1>9, <1>10

\* One round of a walk over them.
LEMMA HonestRounds ==
  ASSUME NEW n \in Nat, NEW size \in Nat \ {0}, NEW style, NEW raws,
         AreHonest(raws, n, size, style), TellsEnd(n, size, style), ListsAre(raws, AnyEntry),
         NEW k \in Nat, k + 1 \in 1..Pages(n, size), NEW read, Open(raws, AnyEntry, read, k)
  PROVE  LET next == Listing!Round(read, PageAt(raws, k + 1)) IN
         /\ k + 1 < Pages(n, size) => Open(raws, AnyEntry, next, k + 1)
         /\ k + 1 = Pages(n, size) => next.code = "complete"
<1> DEFINE C == Pages(n, size)
           page == PageAt(raws, k + 1)
           told == Told1(read, page)
           next == Listing!Round(read, page)
           after == Grown(told, page)
<1>1. /\ IsRead(read) /\ read.number = k + 1 /\ read.items \in Seq(AnyEntry)
      /\ IsInjective(read.items)
      /\ Range(read.items) = UNION {Range(PageAt(raws, j).list) : j \in 1..k}
      /\ \A j \in 1..k : Fits(PageAt(raws, j), read, j)
  BY DEF Open, Collected, IsRead
<1>2. /\ told = [items |-> read.items, seen |-> told.seen, count |-> told.count,
                 total |-> told.total, number |-> k + 1, code |-> Missing]
      /\ told.seen # {}
      /\ k # 0 => told.count = read.count /\ told.total = read.total
      /\ k = 0 => told.count = page.page_count /\ told.total = page.total
  BY ToldAgrees
<1> HIDE DEF told
<1>3. IsRead(told) /\ told.items = read.items /\ told.number = k + 1 /\ told.code = Missing
  BY <1>2 DEF IsRead
<1>4. C \in Nat \ {0} /\ 1..k \subseteq 1..C
  BY PagesDivide
<1>5. \A p \in 1..C :
        /\ Listing!Known(PageAt(raws, p)) /\ PageAt(raws, p).page = p
        /\ PageAt(raws, p).page_count = Told("count", style, C)
        /\ PageAt(raws, p).total = Told("total", style, n)
        /\ PageAt(raws, p).state = "complete"
  <2> SUFFICES ASSUME NEW p \in 1..C
               PROVE  /\ Listing!Known(PageAt(raws, p)) /\ PageAt(raws, p).page = p
                      /\ PageAt(raws, p).page_count = Told("count", style, C)
                      /\ PageAt(raws, p).total = Told("total", style, n)
                      /\ PageAt(raws, p).state = "complete"
    OBVIOUS
  <2>1. PageAt(raws, p) = Listing!Page(Spoil(RawPage(n, size, style, p), "none"))
    BY DEF AreHonest
  <2> QED BY <2>1, HonestPages
<1>6. told.count = Told("count", style, C) /\ told.total = Told("total", style, n)
  <2>1. CASE k = 0
    BY <2>1, <1>2, <1>5
  <2>2. CASE k # 0
    <3>1. 1 \in 1..k /\ 1 \in 1..C
      BY <2>2, <1>4
    <3> QED BY <2>2, <3>1, <1>1, <1>2, <1>5 DEF Fits
  <2> QED BY <2>1, <2>2
<1>7. /\ Listing!Known(page) /\ page.page = k + 1 /\ page.page_count = told.count
      /\ page.total = told.total /\ page.state = "complete"
  BY <1>5, <1>6
<1>8. /\ ~Listing!Conflicts(page, told.count) /\ ~Listing!EmptyTooSoon(page, told.count)
      /\ k + 1 < C => ~Final(told, page) /\ Listing!Continues(page, told.count)
      /\ k + 1 = C => Final(told, page)
  <2>1. page = Listing!Page(Spoil(RawPage(n, size, style, k + 1), "none"))
    BY DEF AreHonest
  <2> DEFINE p == k + 1
  <2>2. p \in 1..C /\ page = Listing!Page(Spoil(RawPage(n, size, style, p), "none"))
    BY <2>1
  <2> HIDE DEF p, page
  <2>3. LET count == page.page_count IN
        /\ ~Listing!Conflicts(page, count) /\ ~Listing!EmptyTooSoon(page, count)
        /\ p < C => ~(Listing!IsLast(page, count) \/ Listing!SaysEnd(page))
                    /\ Listing!Continues(page, count)
        /\ p = C => Listing!IsLast(page, count) \/ Listing!SaysEnd(page)
    BY <2>2, HonestPagesAgree
  <2> QED BY <2>3, <1>7, Zenon DEF Final, p
<1>9. next = Listing!Gathered(told, page)
  <2>1. next = IF ~Listing!Known(page) THEN Listing!Stop(read, "gateway_error")
               ELSE IF page.page # read.number THEN Listing!Stop(read, "repeated_page")
               ELSE IF page.page_count # told.count THEN Listing!Stop(told, "page_count_changed")
               ELSE IF page.total # told.total THEN Listing!Stop(told, "total_changed")
               ELSE IF page.state # "complete" THEN Listing!Stop(told, "partial_page")
               ELSE IF Listing!Conflicts(page, told.count) THEN Listing!Stop(told, "pagination_unverified")
               ELSE IF Listing!EmptyTooSoon(page, told.count) THEN Listing!Stop(told, "empty_page")
               ELSE Listing!Gathered(told, page)
    BY RoundUnfolded, Zenon DEF told
  <2> HIDE DEF next, page
  <2> QED BY <2>1, <1>1, <1>7, <1>8
<1>10. IsInjective(read.items \o page.list) /\ (k + 1 = C => Len(read.items \o page.list) = n)
  <2> DEFINE its == read.items
  <2>1. its \in Seq(AnyEntry) /\ IsInjective(its) /\ Range(its) = Reaped(raws, k)
    BY <1>1 DEF Reaped
  <2> HIDE DEF its
  <2>2. LET all == its \o PageAt(raws, k + 1).list IN
        IsInjective(all) /\ (k + 1 = C => Len(all) = n)
    BY <2>1, HonestPagesAreNew
  <2> QED BY <2>2 DEF its
<1>11. page.list \in Seq(AnyEntry)
  BY <1>7 DEF ListsAre
<1>o. Open(raws, AnyEntry, next, k + 1) \/ Stopped(raws, AnyEntry, next, k + 1)
  BY RoundKeeps
<1> HIDE DEF page, next
<1>12. New(told, page) = page.list
  <2> DEFINE a == told.items
             c == page.list
  <2>1. a \in Seq(AnyEntry) /\ c \in Seq(AnyEntry) /\ IsInjective(a) /\ IsInjective(a \o c)
    BY <1>1, <1>3, <1>10, <1>11
  <2>2. New(told, page) = Listing!Fresh(a, c)
    BY Zenon DEF New
  <2> HIDE DEF a, c
  <2>3. Listing!Fresh(a, c) = c
    BY <2>1, FreshIsFresh
  <2> QED BY <2>2, <2>3 DEF c
<1>13. ~Short(told, page)
  BY <1>11, <1>12 DEF Short
<1>14. after = [items |-> read.items \o page.list, seen |-> told.seen, count |-> told.count,
                total |-> told.total, number |-> k + 1, code |-> Missing]
  <2> DEFINE v == told.items \o New(told, page)
             w == read.items \o page.list
  <2>1. after = [items |-> v, seen |-> told.seen, count |-> told.count,
                 total |-> told.total, number |-> told.number, code |-> told.code]
    BY <1>3, ReadsAreRecords, Zenon
  <2>2. v = w
    BY <1>3, <1>12
  <2> HIDE DEF v, w
  <2>3. after = [items |-> w, seen |-> told.seen, count |-> told.count,
                 total |-> told.total, number |-> k + 1, code |-> Missing]
    BY <2>1, <2>2, <1>3
  <2> QED BY <2>3 DEF w
<1> HIDE DEF after
<1>15. IsRead(after) /\ after.items = read.items \o page.list /\ after.total = told.total
       /\ after.code = Missing
  <2> DEFINE w == read.items \o page.list
  <2>1. after = [items |-> w, seen |-> told.seen, count |-> told.count,
                 total |-> told.total, number |-> k + 1, code |-> Missing]
    BY <1>14
  <2> HIDE DEF w
  <2>2. IsRead(after) /\ after.items = w /\ after.total = told.total /\ after.code = Missing
    BY <2>1 DEF IsRead
  <2> QED BY <2>2 DEF w
<1>16. next = IF Final(told, page) THEN Listing!Ended(after, page)
              ELSE IF ~Listing!Continues(page, told.count)
                THEN Listing!Stop(after, "pagination_unverified")
              ELSE [after EXCEPT !.number = page.page + 1]
  BY <1>9, <1>13, GatheredUnfolded, Zenon DEF after
<1>17. ASSUME k + 1 < C PROVE Open(raws, AnyEntry, next, k + 1)
  <2>1. next = [after EXCEPT !.number = page.page + 1]
    BY <1>8, <1>16, <1>17
  <2>2. next.code = Missing
    BY <2>1, <1>15, ReadsAreRecords
  <2> QED BY <2>2, <1>o DEF Stopped, Listing!Known
<1>18. ASSUME k + 1 = C PROVE next.code = "complete"
  <2>1. next = Listing!Ended(after, page)
    BY <1>8, <1>16, <1>18
  <2>2. ~(Listing!Known(after.total) /\ Len(after.items) # after.total)
    BY <1>6, <1>10, <1>15, <1>18 DEF Told, Listing!Known
  <2>3. next = Listing!Stop(after, "complete")
    BY <2>1, <2>2, Zenon DEF Listing!Ended
  <2> QED BY <2>3, <1>15, ReadsAreRecords
<1> QED BY <1>17, <1>18 DEF next, page

\* An honest listing that tells where it ends is read completely.
LEMMA HonestListingsAreRead ==
  ASSUME NEW q, IsDirectoryQuestion(q), q.fault = "none", TellsEnd(q.n, q.size, q.style)
  PROVE  Listing!ScanDirectory(RawPages(q)).code = "complete"
<1> DEFINE raws == RawPages(q)
           n == q.n
           size == q.size
           style == q.style
           C == Pages(n, size)
<1>1. /\ n \in Nat /\ size \in Nat \ {0} /\ C \in Nat \ {0} /\ Len(raws) = C
      /\ ListsAre(raws, AnyEntry) /\ TellsEnd(n, size, style)
  BY PagesOfQuestions, QuestionsAreLists DEF IsDirectoryQuestion
<1>2. AreHonest(raws, n, size, style)
  <2> SUFFICES ASSUME NEW p \in 1..C
               PROVE  PageAt(raws, p) = Listing!Page(Spoil(RawPage(n, size, style, p), "none"))
    BY DEF AreHonest
  <2>1. (IF p = q.at THEN q.fault ELSE "none") = "none"
    OBVIOUS
  <2>2. PageAt(raws, p) = Listing!Page(Spoil(RawPage(n, size, style, p),
                                             IF p = q.at THEN q.fault ELSE "none"))
    BY PagesOfQuestions, Zenon
  <2> QED BY <2>1, <2>2
<1> SUFFICES Listing!ScanDirectory(raws).code = "complete"
  OBVIOUS
<1> HIDE DEF raws, n, size, style
<1>3. PICK f : Reading(f, raws, C + 1) /\ Listing!ScanDirectory(raws) = f[C + 1]
  BY <1>1, ScanUnfolded
<1> HIDE DEF C
<1>4. \A j \in 0..C + 1 : f[j] = IF j = 0 THEN Listing!Start ELSE After(f[j - 1], raws)
  BY <1>3 DEF Reading
<1>5. \A j \in 0..C - 1 : Open(raws, AnyEntry, f[j], j)
  <2> DEFINE Bad == {j \in 0..C - 1 : ~Open(raws, AnyEntry, f[j], j)}
  <2> SUFFICES ASSUME Bad # {} PROVE FALSE
    OBVIOUS
  <2>1. PICK j \in Bad : \A i \in Bad : j <= i
    <3>1. Bad \in SUBSET Nat
      OBVIOUS
    <3> QED BY <3>1, LeastIsThere
  <2>2. j \in 0..C - 1 /\ ~Open(raws, AnyEntry, f[j], j)
    OBVIOUS
  <2>3. j # 0
    <3>1. f[0] = Listing!Start
      BY <1>1, <1>4
    <3>2. IsInjective(<<>>) /\ Range(<<>>) = {} /\ <<>> \in Seq(AnyEntry)
      BY DEF IsInjective, Range
    <3>3. Open(raws, AnyEntry, Listing!Start, 0)
      BY <3>2 DEF Open, Collected, Listing!Start
    <3> QED BY <2>2, <3>1, <3>3
  <2>4. j - 1 \in 0..C - 1 /\ ~(j <= j - 1) /\ j - 1 \in Nat /\ (j - 1) + 1 = j
    BY <2>2, <2>3, <1>1
  <2>5. Open(raws, AnyEntry, f[j - 1], j - 1)
    BY <2>1, <2>4
  <2>6. f[j] = Listing!Round(f[j - 1], PageAt(raws, j))
    <3>1. f[j - 1].code = Missing /\ f[j - 1].number = j
      BY <2>4, <2>5 DEF Open
    <3>2. f[j] = After(f[j - 1], raws)
      BY <2>2, <2>3, <1>1, <1>4
    <3> QED BY <3>1, <3>2 DEF After, Listing!Known
  <2> DEFINE k == j - 1
  <2>7. k \in Nat /\ k + 1 \in 1..C /\ k + 1 < C /\ k + 1 = j
    BY <2>2, <2>3, <1>1
  <2>8. Open(raws, AnyEntry, f[k], k)
    BY <2>5
  <2> HIDE DEF k
  <2>9. Open(raws, AnyEntry, Listing!Round(f[k], PageAt(raws, k + 1)), k + 1)
    BY <2>7, <2>8, <1>1, <1>2, HonestRounds DEF C
  <2> QED BY <2>2, <2>6, <2>7, <2>9 DEF k
<1> DEFINE k == C - 1
<1>6. k \in Nat /\ k + 1 = C /\ C \in 0..C + 1 /\ C + 1 \in 0..C + 1 /\ C # 0 /\ C + 1 # 0
      /\ (C + 1) - 1 = C
  BY <1>1
<1>7. Open(raws, AnyEntry, f[k], k)
  BY <1>1, <1>5
<1>8. f[C] = Listing!Round(f[k], PageAt(raws, k + 1))
  <2>1. f[C] = After(f[k], raws)
    BY <1>4, <1>6
  <2>2. f[k].code = Missing /\ f[k].number = k + 1
    BY <1>7 DEF Open
  <2> HIDE DEF k
  <2> QED BY <2>1, <2>2 DEF After, Listing!Known
<1> HIDE DEF k
<1>9. f[C].code = "complete"
  <2>1. k + 1 \in 1..C
    BY <1>1, <1>6
  <2>2. Listing!Round(f[k], PageAt(raws, k + 1)).code = "complete"
    BY <2>1, <1>1, <1>2, <1>6, <1>7, HonestRounds DEF C
  <2> QED BY <2>2, <1>8
<1>10. f[C + 1] = f[C]
  <2>1. f[C + 1] = After(f[C], raws)
    BY <1>4, <1>6
  <2>2. Listing!Known(f[C].code)
    BY <1>9, MissingAssumption DEF Listing!Known
  <2> QED BY <2>1, <2>2 DEF After
<1> QED BY <1>3, <1>9, <1>10

\* What scan_directory makes of any directory question.
LEMMA DirectoriesAreWhole ==
  ASSUME NEW q, IsDirectoryQuestion(q)
  PROVE  Listing!ReadIsWhole(Entries(q.n), Listing!ScanDirectory(RawPages(q)),
           q.fault \in Broken /\ q.at <= Pages(q.n, q.size), q.fault = "none",
           "total" \in q.style, TellsEnd(q.n, q.size, q.style))
BY DirectoriesAreSound, HonestListingsAreRead DEF Listing!ReadIsWhole

(***************************************************************************)
(* Shares.                                                                 *)
(***************************************************************************)
ShareFaults == {"none", "refused", "login", "unreadable", "empty", "twofold"}
\* A share question of any size.
IsShareQuestion(q) ==
  /\ q.n \in Nat /\ q.size \in Nat \ {0} /\ q.at \in Nat /\ q.fault \in ShareFaults
  /\ q.style \in SUBSET {"total", "more", "next"} /\ q.receipt \in Receipts

LEMMA ShareOperators ==
  /\ \A S : Share!Cardinality(S) = Cardinality(S)
  /\ \A s : Share!ToSet(s) = Range(s)
BY DEF Share!Cardinality, Cardinality, Share!ToSet, Range

ShareCodes == {"needs_auth", "share_listing_failed", "share_too_large",
               "malformed_share_listing"}
LEMMA FailuresAreKnown == \A c \in ShareCodes : Share!Failure(c) # Missing
<1>1. ASSUME NEW c \in ShareCodes
      PROVE  Share!Failure(c) \in [kind : {"failure"},
                code : {"needs_auth", "share_listing_failed", "share_too_large",
                        "malformed_share_listing"}]
  BY DEF Share!Failure, ShareCodes
<1> QED BY <1>1, NoneAssumption, Zenon

\* How many files a page shows from an offset on.
Shows(n, size, offset) == IF offset + size <= n THEN size ELSE n - offset

\* What such a page says.
LEMMA SharePages ==
  ASSUME NEW n \in Nat, NEW size \in Nat \ {0}, NEW style, NEW fault \in ShareFaults,
         NEW at, NEW offset \in Nat, offset <= n
  PROVE  LET page == SharePage(n, size, style, fault, at, offset)
             hit == offset = at
             more == offset + size < n
         IN /\ page.items =
                 IF hit /\ fault = "unreadable" THEN Missing
                 ELSE IF hit /\ fault = "empty" THEN <<>>
                 ELSE [i \in 1..Shows(n, size, offset) |-> offset + i]
            /\ page.auth <=> hit /\ fault = "login"
            /\ page.ok <=> ~(hit /\ fault = "refused")
            /\ page.totals = IF hit /\ fault = "twofold" THEN {n, n + 1}
                             ELSE IF "total" \in style THEN {n} ELSE {}
            /\ page.mores = IF "more" \in style THEN {more} ELSE {}
            /\ page.nexts = IF "next" \in style /\ more THEN {offset + size} ELSE {}
<1> DEFINE shown == 1..n \cap (offset + 1)..(offset + size)
           hit == offset = at
           more == offset + size < n
           T == IF "total" \in style THEN {n} ELSE {}
           M == IF "more" \in style THEN {more} ELSE {}
           N == IF "next" \in style /\ more THEN {offset + size} ELSE {}
           c == Shows(n, size, offset)
           items == [i \in 1..c |-> offset + i]
           page == [items |-> items, auth |-> FALSE, ok |-> TRUE, totals |-> T,
                    mores |-> M, nexts |-> N]
           said == SharePage(n, size, style, fault, at, offset)
<1>1. Cardinality(shown) = c
  <2>1. CASE offset + size <= n
    <3>1. shown = (offset + 1)..(offset + size)
      BY <2>1
    <3>2. Cardinality((offset + 1)..(offset + size)) = size
      BY FS_Interval
    <3> QED BY <2>1, <3>1, <3>2 DEF Shows
  <2>2. CASE ~(offset + size <= n)
    <3>1. shown = (offset + 1)..n
      BY <2>2
    <3>2. Cardinality((offset + 1)..n) = IF offset + 1 > n THEN 0 ELSE n - (offset + 1) + 1
      BY FS_Interval
    <3>3. Cardinality((offset + 1)..n) = n - offset
      BY <3>2
    <3> QED BY <2>2, <3>1, <3>3 DEF Shows
  <2> QED BY <2>1, <2>2
<1>2. said =
        CASE offset # at \/ fault = "none" -> page
          [] offset = at /\ fault = "refused" -> [page EXCEPT !.ok = FALSE]
          [] offset = at /\ fault = "login" -> [page EXCEPT !.auth = TRUE]
          [] offset = at /\ fault = "unreadable" -> [page EXCEPT !.items = Missing]
          [] offset = at /\ fault = "empty" -> [page EXCEPT !.items = <<>>]
          [] offset = at /\ fault = "twofold" -> [page EXCEPT !.totals = {n, n + 1}]
  BY <1>1 DEF SharePage
<1> HIDE DEF shown, T, M, N, items, said
<1> SUFFICES
      /\ said.items = IF hit /\ fault = "unreadable" THEN Missing
                        ELSE IF hit /\ fault = "empty" THEN <<>> ELSE items
      /\ said.auth <=> hit /\ fault = "login"
      /\ said.ok <=> ~(hit /\ fault = "refused")
      /\ said.totals = IF hit /\ fault = "twofold" THEN {n, n + 1} ELSE T
      /\ said.mores = M /\ said.nexts = N
  BY DEF said, items, T, M, N
<1>a. CASE ~hit \/ fault = "none"
  BY <1>2, <1>a
<1>b. CASE hit /\ fault = "refused"
  BY <1>2, <1>b
<1>c. CASE hit /\ fault = "login"
  BY <1>2, <1>c
<1>d. CASE hit /\ fault = "unreadable"
  BY <1>2, <1>d
<1>e. CASE hit /\ fault = "empty"
  BY <1>2, <1>e
<1>f. CASE hit /\ fault = "twofold"
  BY <1>2, <1>f
<1> QED BY <1>a, <1>b, <1>c, <1>d, <1>e, <1>f DEF ShareFaults

\* The walk of _share_file_ids.
ShareStart == [offset |-> 0, ids |-> {}, more |-> FALSE]
ShareAfter(walk, pages) ==
  IF "kind" \in DOMAIN walk THEN walk
  ELSE IF walk.offset > MaxShareItems THEN Share!Failure("share_too_large")
  ELSE Share!Round(walk, pages[walk.offset])
Walking(f, pages, m) ==
  f = [n \in 0..m |-> IF n = 0 THEN ShareStart ELSE ShareAfter(f[n - 1], pages)]

LEMMA WalkingExists ==
  ASSUME NEW pages, NEW m \in Nat
  PROVE  \E f : Walking(f, pages, m)
<1> DEFINE Bad == {k \in Nat : ~\E f : Walking(f, pages, k)}
<1> SUFFICES ASSUME Bad # {} PROVE FALSE
  OBVIOUS
<1>1. PICK k \in Bad : \A j \in Bad : k <= j
  BY LeastIsThere
<1>2. k # 0
  <2>1. Walking([n \in 0..0 |-> ShareStart], pages, 0)
    BY DEF Walking
  <2> QED BY <2>1
<1>3. k - 1 \in Nat /\ k - 1 \notin Bad
  BY <1>1, <1>2
<1>4. PICK g : Walking(g, pages, k - 1)
  BY <1>3
<1> DEFINE h == [n \in 0..k |-> IF n = 0 THEN ShareStart ELSE ShareAfter(g[n - 1], pages)]
<1>5. \A n \in 0..k - 1 : h[n] = g[n]
  <2> TAKE n \in 0..k - 1
  <2>1. n \in 0..k
    BY <1>3
  <2>2. g[n] = IF n = 0 THEN ShareStart ELSE ShareAfter(g[n - 1], pages)
    BY <1>4 DEF Walking
  <2> QED BY <2>1, <2>2
<1>6. \A n \in 0..k : n # 0 => h[n - 1] = g[n - 1]
  <2> HIDE DEF h
  <2> TAKE n \in 0..k
  <2> HAVE n # 0
  <2>1. n - 1 \in 0..k - 1
    BY <1>3
  <2> QED BY <2>1, <1>5
<1> DEFINE hh == [n \in 0..k |-> IF n = 0 THEN ShareStart ELSE ShareAfter(h[n - 1], pages)]
<1>7. h = hh
  BY <1>6
<1>8. Walking(h, pages, k)
  BY <1>7 DEF Walking
<1> QED BY <1>8, <1>1

LEMMA ShareUnfolded ==
  ASSUME NEW pages
  PROVE  \E f : /\ \A n \in 0..MaxShareItems + 2 :
                     f[n] = IF n = 0 THEN ShareStart ELSE ShareAfter(f[n - 1], pages)
                /\ Share!ShareFiles(pages) = f[MaxShareItems + 2]
<1> DEFINE m == MaxShareItems + 2
           g == CHOOSE f : Walking(f, pages, m)
<1>1. m \in Nat
  BY LimitsAssumption
<1>2. Walking(g, pages, m)
  BY <1>1, WalkingExists
<1>3. Share!ShareFiles(pages) = g[m]
  BY Zenon DEF Share!ShareFiles, Walking, ShareAfter, ShareStart
<1>4. \A n \in 0..m : g[n] = IF n = 0 THEN ShareStart ELSE ShareAfter(g[n - 1], pages)
  BY <1>2 DEF Walking
<1> QED BY <1>3, <1>4

\* What is held while the walk goes on, and what it ends with.
WalkIs(walk, n, style, j) ==
  /\ walk = [offset |-> walk.offset, ids |-> 1..walk.offset, more |-> walk.more]
  /\ walk.offset \in Nat /\ j <= walk.offset
  /\ walk.offset <= n /\ walk.offset <= MaxShareItems
  /\ (0 < walk.offset /\ walk.offset < n /\ style # {}) => walk.more
  /\ {"total", "more"} \subseteq style => walk.offset = 0 \/ walk.offset < n
Readable(n, style, fault) ==
  fault = "none" /\ n <= MaxShareItems /\ {"total", "more"} \subseteq style
Ends(said, n, style, fault) ==
  \/ (\E c \in ShareCodes : said = Share!Failure(c)) /\ ~Readable(n, style, fault)
  \/ \E ids : /\ said = Share!Files(ids)
              /\ ids = 1..n \/ (fault = "empty" /\ (ids = {} \/ style = {}))

\* The failure that a page is by itself.
FailsAs(page, n, size, style, fault, offset) ==
  LET failure == Share!PageFailure(page) IN
  /\ failure # Missing =>
       /\ \E c \in ShareCodes : failure = Share!Failure(c)
       /\ fault = "none" => n > MaxShareItems
       /\ page.items = Missing /\ page.totals = {0} => n = 0
  /\ failure = Missing =>
       /\ page.totals = IF "total" \in style THEN {n} ELSE {}
       /\ page.items = [i \in 1..Shows(n, size, offset) |-> offset + i]
          \/ (page.items = <<>> /\ fault = "empty")
LEMMA PagesFail ==
  ASSUME NEW n \in Nat, NEW size \in Nat \ {0}, NEW style \in SUBSET {"total", "more", "next"},
         NEW fault \in ShareFaults, NEW at, NEW offset \in Nat, offset <= n
  PROVE  FailsAs(SharePage(n, size, style, fault, at, offset), n, size, style, fault, offset)
<1> DEFINE page == SharePage(n, size, style, fault, at, offset)
           hit == offset = at
           more == offset + size < n
           c == Shows(n, size, offset)
           items == [i \in 1..c |-> offset + i]
           failure == Share!PageFailure(page)
<1>1. /\ page.items = IF hit /\ fault = "unreadable" THEN Missing
                      ELSE IF hit /\ fault = "empty" THEN <<>> ELSE items
      /\ page.auth <=> hit /\ fault = "login"
      /\ page.ok <=> ~(hit /\ fault = "refused")
      /\ page.totals = IF hit /\ fault = "twofold" THEN {n, n + 1}
                       ELSE IF "total" \in style THEN {n} ELSE {}
      /\ page.mores = IF "more" \in style THEN {more} ELSE {}
      /\ page.nexts = IF "next" \in style /\ more THEN {offset + size} ELSE {}
  BY SharePages
<1> HIDE DEF page, hit, more
<1>2. failure = IF page.auth THEN Share!Failure("needs_auth")
                ELSE IF ~page.ok THEN Share!Failure("share_listing_failed")
                ELSE IF \E t \in page.totals : t > MaxShareItems
                  THEN Share!Failure("share_too_large")
                ELSE IF Share!Contradictory(page) \/ page.items = Missing
                  THEN Share!Failure("malformed_share_listing")
                ELSE Missing
  BY Zenon DEF Share!PageFailure
<1>3. Share!Contradictory(page) <=> hit /\ fault = "twofold"
  <2>1. \A x : Cardinality({x}) = 1 /\ Cardinality({}) = 0
    BY FS_Singleton, FS_EmptySet
  <2>2. Cardinality({n, n + 1}) = 2
    <3>1. IsFiniteSet({n}) /\ Cardinality({n}) = 1
      BY FS_Singleton
    <3>2. n + 1 \notin {n}
      OBVIOUS
    <3>3. Cardinality({n} \cup {n + 1}) = Cardinality({n}) + 1
      BY <3>1, <3>2, FS_AddElement
    <3>4. {n, n + 1} = {n} \cup {n + 1}
      OBVIOUS
    <3> QED BY <3>1, <3>3, <3>4
  <2>3. Share!Contradictory(page) <=> \/ Cardinality(page.totals) > 1
                                      \/ Cardinality(page.mores) > 1
                                      \/ Cardinality(page.nexts) > 1
    BY ShareOperators DEF Share!Contradictory
  <2>4. ~(Cardinality(page.mores) > 1) /\ ~(Cardinality(page.nexts) > 1)
    <3> DEFINE after == offset + size
    <3>1. (page.mores = {more} \/ page.mores = {}) /\ (page.nexts = {after} \/ page.nexts = {})
      BY <1>1
    <3> HIDE DEF after
    <3>2. Cardinality(page.mores) \in {0, 1} /\ Cardinality(page.nexts) \in {0, 1}
      BY <2>1, <3>1
    <3> QED BY <3>2
  <2>5. Cardinality(page.totals) > 1 <=> hit /\ fault = "twofold"
    <3>1. CASE hit /\ fault = "twofold"
      <4>1. page.totals = {n, n + 1}
        BY <1>1, <3>1
      <4>2. Cardinality(page.totals) = 2
        BY <2>2, <4>1
      <4> QED BY <3>1, <4>2
    <3>2. CASE ~(hit /\ fault = "twofold")
      <4>1. page.totals = {n} \/ page.totals = {}
        BY <1>1, <3>2
      <4>2. Cardinality(page.totals) \in {0, 1}
        BY <2>1, <4>1
      <4> QED BY <3>2, <4>2
    <3> QED BY <3>1, <3>2
  <2> QED BY <2>3, <2>4, <2>5
<1>4. items # Missing /\ <<>> # Missing
  <2>1. items \in Seq(Nat) /\ <<>> \in Seq(Nat)
    BY DEF Shows
  <2> QED BY <2>1, NoneAssumption
<1> HIDE DEF items, failure
<1>5. failure # Missing => \E x \in ShareCodes : failure = Share!Failure(x)
  BY <1>2 DEF ShareCodes
<1>6. (failure # Missing /\ fault = "none") => n > MaxShareItems
  <2> SUFFICES ASSUME failure # Missing, fault = "none" PROVE n > MaxShareItems
    OBVIOUS
  <2>1. ~page.auth /\ page.ok /\ ~Share!Contradictory(page) /\ page.items # Missing
    BY <1>1, <1>3, <1>4
  <2>2. PICK t \in page.totals : t > MaxShareItems
    BY <1>2, <2>1
  <2> QED BY <1>1, <2>2
<1>7. page.totals = {0} => n = 0
  BY <1>1
<1>8. ASSUME failure = Missing
      PROVE  /\ page.totals = IF "total" \in style THEN {n} ELSE {}
             /\ page.items = items \/ (page.items = <<>> /\ fault = "empty")
  <2>1. \A x \in ShareCodes : Share!Failure(x) # failure
    BY <1>8, FailuresAreKnown
  <2>2. ~Share!Contradictory(page) /\ page.items # Missing
    BY <1>2, <2>1 DEF ShareCodes
  <2>3. ~(hit /\ fault = "twofold") /\ ~(hit /\ fault = "unreadable")
    BY <1>1, <1>3, <2>2
  <2>4. page.totals = IF "total" \in style THEN {n} ELSE {}
    BY <1>1, <2>3
  <2>5. page.items = items \/ (page.items = <<>> /\ fault = "empty")
    BY <1>1, <2>3
  <2> QED BY <2>4, <2>5
<1> QED BY <1>5, <1>6, <1>7, <1>8 DEF FailsAs, page, items, failure

LEMMA RoundsOfShares ==
  ASSUME NEW walk, NEW page
  PROVE  LET ids == walk.ids \cup Range(page.items)
             after == walk.offset + Len(page.items)
             cursor == IF page.nexts = {} THEN after ELSE Share!Given(page.nexts)
             next == [offset |-> cursor, ids |-> ids,
                      more |-> walk.more \/ Share!SaysMore(page, after)]
         IN Share!Round(walk, page) =
            IF Share!PageFailure(page) # Missing THEN
              IF page.items = Missing /\ page.totals = {0} /\ ~Share!Contradictory(page)
                   /\ page.ok /\ ~page.auth
              THEN Share!Files({}) ELSE Share!PageFailure(page)
            ELSE IF page.items = <<>> THEN
              IF walk.offset = 0 THEN Share!Files({})
              ELSE IF walk.more THEN Share!Failure("malformed_share_listing")
              ELSE Share!Files(walk.ids)
            ELSE IF Cardinality(ids) > MaxShareItems THEN Share!Failure("share_too_large")
            ELSE IF (\E t \in page.totals : after > t) \/ cursor <= walk.offset
              THEN Share!Failure("malformed_share_listing")
            ELSE IF \E n \in page.nexts : n > MaxShareItems THEN Share!Failure("share_too_large")
            ELSE IF Cardinality(ids) = MaxShareItems THEN
              IF Share!SaysMore(page, after) THEN Share!Failure("share_too_large")
              ELSE IF page.totals # {} \/ page.mores # {} THEN Share!Files(ids)
              ELSE [next EXCEPT !.offset = after]
            ELSE IF Share!MayContinue(page, after) THEN next
            ELSE Share!Files(ids)
<1>1. Share!ToSet(page.items) = Range(page.items)
  BY ShareOperators
<1>2. \A S : Share!Cardinality(S) = Cardinality(S)
  BY ShareOperators
<1> QED BY <1>1, <1>2, Zenon DEF Share!Round

\* One round of the walk.
LEMMA ShareRounds ==
  ASSUME NEW n \in Nat, NEW size \in Nat \ {0}, NEW style \in SUBSET {"total", "more", "next"},
         NEW fault \in ShareFaults, NEW at, NEW j \in Nat, NEW walk, WalkIs(walk, n, style, j)
  PROVE  LET said == Share!Round(walk, SharePage(n, size, style, fault, at, walk.offset)) IN
         WalkIs(said, n, style, j + 1) \/ Ends(said, n, style, fault)
<1> DEFINE o == walk.offset
           page == SharePage(n, size, style, fault, at, o)
           said == Share!Round(walk, page)
           ids == walk.ids \cup Range(page.items)
           after == o + Len(page.items)
           cursor == IF page.nexts = {} THEN after ELSE Share!Given(page.nexts)
           next == [offset |-> cursor, ids |-> ids,
                    more |-> walk.more \/ Share!SaysMore(page, after)]
           honest == Readable(n, style, fault)
           c == Shows(n, size, o)
           more == o + size < n
           big == MaxShareItems
<1>1. /\ o \in Nat /\ j <= o /\ o <= n /\ o <= big /\ big \in Nat /\ walk.ids = 1..o
      /\ (0 < o /\ o < n /\ style # {}) => walk.more
      /\ {"total", "more"} \subseteq style => o = 0 \/ o < n
  BY LimitsAssumption DEF WalkIs
<1>2. /\ Share!PageFailure(page) # Missing =>
           /\ \E x \in ShareCodes : Share!PageFailure(page) = Share!Failure(x)
           /\ fault = "none" => n > big
           /\ page.items = Missing /\ page.totals = {0} => n = 0
      /\ Share!PageFailure(page) = Missing =>
           /\ page.totals = IF "total" \in style THEN {n} ELSE {}
           /\ page.items = [i \in 1..c |-> o + i] \/ (page.items = <<>> /\ fault = "empty")
  <2>1. o \in Nat /\ o <= n
    BY <1>1
  <2> HIDE DEF o, big
  <2>2. FailsAs(SharePage(n, size, style, fault, at, o), n, size, style, fault, o)
    BY <2>1, PagesFail
  <2> QED BY <2>2, Zenon DEF FailsAs, big
<1>3. /\ page.mores = IF "more" \in style THEN {more} ELSE {}
      /\ page.nexts = IF "next" \in style /\ more THEN {o + size} ELSE {}
  <2>1. o \in Nat /\ o <= n
    BY <1>1
  <2> HIDE DEF o
  <2> QED BY <2>1, SharePages
<1>4. said =
        IF Share!PageFailure(page) # Missing THEN
          IF page.items = Missing /\ page.totals = {0} /\ ~Share!Contradictory(page)
               /\ page.ok /\ ~page.auth
          THEN Share!Files({}) ELSE Share!PageFailure(page)
        ELSE IF page.items = <<>> THEN
          IF o = 0 THEN Share!Files({})
          ELSE IF walk.more THEN Share!Failure("malformed_share_listing")
          ELSE Share!Files(walk.ids)
        ELSE IF Cardinality(ids) > big THEN Share!Failure("share_too_large")
        ELSE IF (\E t \in page.totals : after > t) \/ cursor <= o
          THEN Share!Failure("malformed_share_listing")
        ELSE IF \E x \in page.nexts : x > big THEN Share!Failure("share_too_large")
        ELSE IF Cardinality(ids) = big THEN
          IF Share!SaysMore(page, after) THEN Share!Failure("share_too_large")
          ELSE IF page.totals # {} \/ page.mores # {} THEN Share!Files(ids)
          ELSE [next EXCEPT !.offset = after]
        ELSE IF Share!MayContinue(page, after) THEN next
        ELSE Share!Files(ids)
  BY RoundsOfShares, Zenon
<1>5. c \in Nat /\ (c = 0 <=> o = n) /\ o + c <= n /\ (o + c < n <=> more) /\ (more => c = size)
  BY <1>1 DEF Shows
<1> HIDE DEF page, said, honest, c, more, big
<1> SUFFICES WalkIs(said, n, style, j + 1) \/ Ends(said, n, style, fault)
  BY DEF said, page
<1>f. ASSUME NEW S, said = Share!Files(S), S = 1..n \/ (fault = "empty" /\ (S = {} \/ style = {}))
      PROVE  Ends(said, n, style, fault)
  BY <1>f DEF Ends
<1>g. ASSUME NEW x \in ShareCodes, said = Share!Failure(x), ~honest
      PROVE  Ends(said, n, style, fault)
  BY <1>g, Zenon DEF Ends, honest
<1>6. CASE Share!PageFailure(page) # Missing
  <2>1. ~honest
    BY <1>2, <1>6, <1>1 DEF honest, Readable, big
  <2>2. CASE said = Share!Files({})
             /\ page.items = Missing /\ page.totals = {0}
    <3>1. 1..n = {}
      BY <1>2, <1>6, <2>2
    <3> QED BY <1>f, <2>2, <3>1
  <2>3. CASE said = Share!PageFailure(page)
    BY <1>2, <1>6, <1>g, <2>1, <2>3
  <2> HIDE DEF ids, after, cursor, next
  <2> QED BY <1>4, <1>6, <2>2, <2>3
<1>7. CASE Share!PageFailure(page) = Missing /\ page.items = <<>>
  <2>1. fault = "empty" \/ o = n
    <3>1. CASE page.items = [i \in 1..c |-> o + i]
      <4>1. Len([i \in 1..c |-> o + i]) = c /\ Len(<<>>) = 0
        BY <1>5
      <4>2. c = 0
        BY <1>7, <3>1, <4>1
      <4> QED BY <4>2, <1>5
    <3> QED BY <3>1, <1>2, <1>7
  <2> HIDE DEF ids, after, cursor, next
  <2>2. said = IF o = 0 THEN Share!Files({})
               ELSE IF walk.more THEN Share!Failure("malformed_share_listing")
               ELSE Share!Files(walk.ids)
    BY <1>4, <1>7
  <2>3. CASE o = 0
    <3>1. {} = 1..n \/ fault = "empty"
      BY <2>1, <2>3
    <3> QED BY <1>f, <2>2, <2>3, <3>1
  <2>4. CASE o # 0 /\ walk.more
    <3>1. ~honest
      BY <2>1, <2>4, <1>1 DEF honest, Readable
    <3> QED BY <1>g, <2>2, <2>4, <3>1 DEF ShareCodes
  <2>5. CASE o # 0 /\ ~walk.more
    <3>1. walk.ids = 1..n \/ (fault = "empty" /\ style = {})
      BY <2>1, <2>5, <1>1
    <3> QED BY <1>f, <2>2, <2>5, <3>1
  <2> QED BY <2>3, <2>4, <2>5
<1>8. CASE Share!PageFailure(page) = Missing /\ page.items # <<>>
  <2>1. page.items = [i \in 1..c |-> o + i] /\ page.totals = IF "total" \in style THEN {n} ELSE {}
    BY <1>2, <1>8
  <2>2. Len(page.items) = c /\ Range(page.items) = o + 1..o + c /\ c # 0
    <3>1. Len(page.items) = c /\ page.items \in Seq(Nat)
      BY <2>1, <1>1, <1>5
    <3>2. Range(page.items) = {o + i : i \in 1..c}
      BY <2>1, <1>5 DEF Range
    <3>3. {o + i : i \in 1..c} = o + 1..o + c
      <4>1. \A x \in o + 1..o + c : x - o \in 1..c /\ x = o + (x - o)
        BY <1>1, <1>5
      <4> QED BY <4>1, <1>1, <1>5
    <3> QED BY <3>1, <3>2, <3>3, <1>8
  <2> DEFINE a == o + c
  <2>3. a \in Nat /\ o < a /\ a <= n /\ j + 1 <= a /\ (a < n <=> more)
    BY <1>1, <1>5, <2>2
  <2>4. ids = 1..a /\ after = a
    BY <1>1, <1>5, <2>2
  <2>5. Cardinality(1..a) = a
    <3> HIDE DEF a
    <3> QED BY <2>3, FS_Interval
  <2>6. cursor = a
    <3>1. CASE page.nexts = {}
      BY <2>4, <3>1
    <3>2. CASE page.nexts # {}
      <4>1. page.nexts = {o + size} /\ more
        BY <1>3, <3>2
      <4>2. Share!Given(page.nexts) = o + size
        BY <4>1, <3>2 DEF Share!Given
      <4> QED BY <3>2, <4>1, <4>2, <1>5
    <3> QED BY <3>1, <3>2
  <2> HIDE DEF a, ids, after, cursor
  <2> DEFINE says == Share!SaysMore(page, a)
  <2>7. /\ says => a < n
        /\ a < n /\ style # {} => says
    <3>1. says <=> \/ TRUE \in page.mores \/ page.nexts # {}
                   \/ \E t \in page.totals : a < t
      BY DEF Share!SaysMore
    <3>2. says => a < n
      <4>1. TRUE \in page.mores => more
        BY <1>3 DEF more
      <4>2. page.nexts # {} => more
        BY <1>3
      <4>3. \A t \in page.totals : t = n
        BY <2>1
      <4> HIDE DEF more, page, says
      <4> QED BY <3>1, <4>1, <4>2, <4>3, <2>3
    <3>3. ASSUME a < n, style # {} PROVE says
      <4>1. CASE "total" \in style
        BY <3>1, <3>3, <4>1, <2>1
      <4>2. CASE "more" \in style
        <5>1. page.mores = {more} /\ more = TRUE
          BY <1>3, <2>3, <3>3, <4>2 DEF more
        <5> QED BY <3>1, <5>1
      <4>3. CASE "next" \in style
        BY <3>1, <1>3, <2>3, <3>3, <4>3
      <4> QED BY <3>3, <4>1, <4>2, <4>3
    <3> QED BY <3>2, <3>3
  <2> HIDE DEF says
  <2>8. (~says /\ (page.totals # {} \/ page.mores # {})) => a = n
    BY <2>1, <2>3, <2>7, <1>3
  <2>m. Share!MayContinue(page, a) <=> says \/ (page.mores = {} /\ page.totals = {})
    BY Zenon DEF Share!MayContinue, says
  <2>9. ASSUME says \/ (page.mores = {} /\ page.totals = {}), a <= big
        PROVE  WalkIs([offset |-> a, ids |-> 1..a, more |-> walk.more \/ says], n, style, j + 1)
    <3> DEFINE w == walk.more \/ says
               r == [offset |-> a, ids |-> 1..a, more |-> w]
    <3>1. r = [offset |-> r.offset, ids |-> 1..r.offset, more |-> r.more] /\ r.offset = a
          /\ r.more = w
      OBVIOUS
    <3>2. (0 < a /\ a < n /\ style # {}) => w
      BY <2>7
    <3>3. {"total", "more"} \subseteq style => a = 0 \/ a < n
      <4>1. page.mores = {} /\ page.totals = {} => ~({"total", "more"} \subseteq style)
        BY <1>3
      <4> QED BY <4>1, <2>7, <2>9
    <3> HIDE DEF r, w
    <3> QED BY <3>1, <3>2, <3>3, <2>3, <2>9 DEF WalkIs, big, r, w
  <2>10. next = [offset |-> a, ids |-> 1..a, more |-> walk.more \/ says]
         /\ [next EXCEPT !.offset = a] = next
    <3> DEFINE w == walk.more \/ says
    <3>1. next = [offset |-> a, ids |-> 1..a, more |-> w]
      BY <2>4, <2>6 DEF says
    <3> HIDE DEF w, next
    <3>2. [next EXCEPT !.offset = a] = next
      BY <3>1
    <3> QED BY <3>1, <3>2 DEF w
  <2> HIDE DEF next
  <2>11. said = IF a > big THEN Share!Failure("share_too_large")
                ELSE IF (\E t \in page.totals : a > t) \/ a <= o
                  THEN Share!Failure("malformed_share_listing")
                ELSE IF \E x \in page.nexts : x > big THEN Share!Failure("share_too_large")
                ELSE IF a = big THEN
                  IF says THEN Share!Failure("share_too_large")
                  ELSE IF page.totals # {} \/ page.mores # {} THEN Share!Files(1..a)
                  ELSE next
                ELSE IF says \/ (page.mores = {} /\ page.totals = {}) THEN next
                ELSE Share!Files(1..a)
    BY <1>4, <1>8, <2>4, <2>5, <2>6, <2>10, <2>m DEF says
  <2>12. ~((\E t \in page.totals : a > t) \/ a <= o)
    BY <1>1, <2>1, <2>3
  <2>13. (\E x \in page.nexts : x > big) => a > big
    BY <1>1, <1>3, <1>5, <2>3 DEF a
  <2>14. CASE a > big
    <3>1. ~honest
      BY <2>3, <2>14, <1>1 DEF honest, Readable, big
    <3>2. said = Share!Failure("share_too_large")
      BY <2>11, <2>14
    <3> QED BY <1>g, <3>1, <3>2 DEF ShareCodes
  <2>15. CASE a <= big /\ (a = big /\ says)
    <3>1. ~honest
      BY <2>3, <2>7, <2>15, <1>1 DEF honest, Readable, big
    <3>2. said = Share!Failure("share_too_large")
      BY <1>1, <2>3, <2>11, <2>12, <2>13, <2>15
    <3> QED BY <1>g, <3>1, <3>2 DEF ShareCodes
  <2>16. CASE a <= big /\ ~says /\ (page.totals # {} \/ page.mores # {})
    <3>1. said = Share!Files(1..a)
      BY <1>1, <2>3, <2>11, <2>12, <2>13, <2>16
    <3>2. a = n
      BY <2>8, <2>16
    <3> QED BY <1>f, <3>1, <3>2
  <2>17. CASE a <= big /\ (says \/ (page.mores = {} /\ page.totals = {})) /\ ~(a = big /\ says)
    <3>1. said = next
      BY <1>1, <2>3, <2>11, <2>12, <2>13, <2>17
    <3>2. WalkIs(next, n, style, j + 1)
      BY <2>9, <2>10, <2>17
    <3> QED BY <3>1, <3>2
  <2> QED BY <1>1, <2>3, <2>14, <2>15, <2>16, <2>17
<1> QED BY <1>6, <1>7, <1>8

\* A walk has no kind, and what it ends with has one.
LEMMA KindsOfWalks ==
  ASSUME NEW n, NEW style, NEW fault, NEW j, NEW said
  PROVE  /\ WalkIs(said, n, style, j) => "kind" \notin DOMAIN said
         /\ Ends(said, n, style, fault) => "kind" \in DOMAIN said
<1>1. ASSUME WalkIs(said, n, style, j) PROVE "kind" \notin DOMAIN said
  <2> DEFINE a == said.offset
             b == 1..said.offset
             c == said.more
  <2>1. said = [offset |-> a, ids |-> b, more |-> c]
    BY <1>1 DEF WalkIs
  <2> HIDE DEF a, b, c
  <2> QED BY <2>1
<1>2. \A c : DOMAIN Share!Failure(c) = {"kind", "code"}
  BY DEF Share!Failure
<1>3. \A S : DOMAIN Share!Files(S) = {"kind", "ids"}
  BY DEF Share!Files
<1>4. ASSUME Ends(said, n, style, fault) PROVE "kind" \in DOMAIN said
  BY <1>2, <1>3, <1>4 DEF Ends
<1> QED BY <1>1, <1>4

SharePagesOf(q) ==
  [offset \in 0..MaxShareItems |-> SharePage(q.n, q.size, q.style, q.fault, q.at, offset)]

\* _share_file_ids ends, and with all the files or a failure.
LEMMA SharesEnd ==
  ASSUME NEW q, IsShareQuestion(q)
  PROVE  Ends(Share!ShareFiles(SharePagesOf(q)), q.n, q.style, q.fault)
<1> DEFINE pages == SharePagesOf(q)
           M == MaxShareItems
           Fine(x, j) == WalkIs(x, q.n, q.style, j) \/ Ends(x, q.n, q.style, q.fault)
<1>1. PICK f : /\ \A j \in 0..M + 2 : f[j] = IF j = 0 THEN ShareStart ELSE ShareAfter(f[j - 1], pages)
               /\ Share!ShareFiles(pages) = f[M + 2]
  BY ShareUnfolded
<1>2. M \in Nat \ {0}
  BY LimitsAssumption
<1>q. /\ q.n \in Nat /\ q.size \in Nat \ {0} /\ q.style \in SUBSET {"total", "more", "next"}
      /\ q.fault \in ShareFaults
  BY DEF IsShareQuestion
<1>3. \A j \in 0..M + 2 : Fine(f[j], j)
  <2> DEFINE Bad == {j \in 0..M + 2 : ~Fine(f[j], j)}
  <2> SUFFICES ASSUME Bad # {} PROVE FALSE
    OBVIOUS
  <2>1. PICK j \in Bad : \A i \in Bad : j <= i
    <3>1. Bad \in SUBSET Nat
      OBVIOUS
    <3> QED BY <3>1, LeastIsThere
  <2>2. j \in 0..M + 2 /\ ~Fine(f[j], j)
    OBVIOUS
  <2>3. j # 0
    <3>1. f[0] = ShareStart
      BY <1>1, <1>2
    <3>2. WalkIs(ShareStart, q.n, q.style, 0)
      <4>1. ShareStart.offset = 0 /\ ShareStart.ids = 1..0 /\ ShareStart.more = FALSE
            /\ ShareStart = [offset |-> 0, ids |-> 1..0, more |-> FALSE]
        BY DEF ShareStart
      <4> QED BY <4>1, <1>2, <1>q DEF WalkIs
    <3> QED BY <2>2, <3>1, <3>2
  <2> DEFINE k == j - 1
  <2>4. k \in 0..M + 2 /\ ~(j <= k) /\ k \in Nat /\ k + 1 = j
    BY <2>2, <2>3, <1>2
  <2>5. Fine(f[k], k)
    BY <2>1, <2>4
  <2>6. f[j] = ShareAfter(f[k], pages)
    BY <2>2, <2>3, <1>1
  <2> HIDE DEF k
  <2>7. CASE Ends(f[k], q.n, q.style, q.fault)
    <3>1. f[j] = f[k]
      BY <2>6, <2>7, KindsOfWalks DEF ShareAfter
    <3> QED BY <2>2, <2>7, <3>1
  <2>8. CASE WalkIs(f[k], q.n, q.style, k)
    <3> DEFINE walk == f[k]
    <3>1. "kind" \notin DOMAIN walk
      BY <2>8, KindsOfWalks
    <3>2. walk.offset \in 0..M /\ ~(walk.offset > M)
      BY <2>8, <1>2 DEF WalkIs
    <3>3. pages[walk.offset] = SharePage(q.n, q.size, q.style, q.fault, q.at, walk.offset)
      BY <3>2 DEF SharePagesOf
    <3>4. f[j] = Share!Round(walk, SharePage(q.n, q.size, q.style, q.fault, q.at, walk.offset))
      BY <2>6, <3>1, <3>2, <3>3 DEF ShareAfter
    <3>5. WalkIs(walk, q.n, q.style, k)
      BY <2>8
    <3> HIDE DEF walk
    <3>6. WalkIs(f[j], q.n, q.style, k + 1) \/ Ends(f[j], q.n, q.style, q.fault)
      <4> DEFINE n == q.n
                 size == q.size
                 style == q.style
                 fault == q.fault
                 at == q.at
                 said == Share!Round(walk, SharePage(n, size, style, fault, at, walk.offset))
      <4>1. /\ n \in Nat /\ size \in Nat \ {0} /\ style \in SUBSET {"total", "more", "next"}
            /\ fault \in ShareFaults /\ k \in Nat /\ WalkIs(walk, n, style, k)
        BY <2>4, <3>5, <1>q
      <4>2. f[j] = said
        BY <3>4
      <4> HIDE DEF n, size, style, fault, at
      <4>3. WalkIs(said, n, style, k + 1) \/ Ends(said, n, style, fault)
        BY <4>1, ShareRounds
      <4> HIDE DEF said
      <4>4. WalkIs(f[j], n, style, k + 1) \/ Ends(f[j], n, style, fault)
        BY <4>2, <4>3
      <4> QED BY <4>4, Zenon DEF n, style, fault
    <3> QED BY <2>2, <2>4, <3>6
  <2> QED BY <2>5, <2>7, <2>8
<1>4. ~WalkIs(f[M + 2], q.n, q.style, M + 2)
  BY <1>2 DEF WalkIs
<1> QED BY <1>1, <1>2, <1>3, <1>4

\* What _share_file_ids and save_share make of any share question.
LEMMA SharesAreWhole ==
  ASSUME NEW q, IsShareQuestion(q)
  PROVE  LET listed == Share!ShareFiles(SharePagesOf(q))
             saved == Share!SaveShare(SharePagesOf(q), q.receipt).status
         IN
         /\ listed.kind = "files" =>
              \/ listed.ids = 1..q.n
              \/ q.fault = "empty" /\ (listed.ids = {} \/ q.style = {})
         /\ (q.fault = "none" /\ q.n <= MaxShareItems /\ {"total", "more"} \subseteq q.style) =>
              listed.kind = "files"
         /\ saved = "accepted" => listed.kind = "files" /\ listed.ids # {}
         /\ (listed.kind = "files" /\ listed.ids # {} /\ q.receipt.kind # "mapping") =>
              saved \in {"uncertain", "needs_auth"}
<1> DEFINE listed == Share!ShareFiles(SharePagesOf(q))
           receipt == q.receipt
           status == Share!SaveShare(SharePagesOf(q), receipt).status
<1>1. Ends(listed, q.n, q.style, q.fault)
  BY SharesEnd
<1>2. Share!SaveShare(SharePagesOf(q), receipt) =
        IF listed.kind = "failure" THEN
          Share!Result(IF listed.code = "needs_auth" THEN "needs_auth" ELSE "failed", Missing)
        ELSE IF listed.ids = {} THEN Share!Result("failed", Missing)
        ELSE Share!Submission(receipt, Missing, FALSE)
  BY Zenon DEF Share!SaveShare
<1>3. status = IF listed.kind = "failure" THEN
                 IF listed.code = "needs_auth" THEN "needs_auth" ELSE "failed"
               ELSE IF listed.ids = {} THEN "failed"
               ELSE Share!Submission(receipt, Missing, FALSE).status
  <2>1. \A a, b : Share!Result(a, b).status = a
    BY DEF Share!Result
  <2> DEFINE final == Share!Submission(receipt, Missing, FALSE)
             saved == Share!SaveShare(SharePagesOf(q), receipt)
  <2>2. saved =
          IF listed.kind = "failure" THEN
            Share!Result(IF listed.code = "needs_auth" THEN "needs_auth" ELSE "failed", Missing)
          ELSE IF listed.ids = {} THEN Share!Result("failed", Missing)
          ELSE final
    BY <1>2, Zenon
  <2> HIDE DEF listed, receipt, final, saved
  <2>3. saved.status = IF listed.kind = "failure" THEN
                         IF listed.code = "needs_auth" THEN "needs_auth" ELSE "failed"
                       ELSE IF listed.ids = {} THEN "failed"
                       ELSE final.status
    <3>1. CASE listed.kind = "failure"
      BY <2>1, <2>2, <3>1
    <3>2. CASE listed.kind # "failure" /\ listed.ids = {}
      BY <2>1, <2>2, <3>2
    <3>3. CASE listed.kind # "failure" /\ listed.ids # {}
      BY <2>2, <3>3
    <3> QED BY <3>1, <3>2, <3>3
  <2> QED BY <2>3, Zenon DEF final, saved
<1>4. receipt.kind \in {"raised", "unreadable", "mapping"}
  BY DEF IsShareQuestion, Receipts
<1>5. receipt.kind # "mapping" =>
        Share!Submission(receipt, Missing, FALSE).status \in {"uncertain", "needs_auth"}
  <2> HIDE DEF receipt
  <2>1. receipt.kind = "raised" =>
          Share!Submission(receipt, Missing, FALSE) =
            Share!Result(IF receipt.auth THEN "needs_auth" ELSE "uncertain", Missing)
    BY DEF Share!Submission
  <2>2. receipt.kind = "unreadable" =>
          Share!Submission(receipt, Missing, FALSE) = Share!Result("uncertain", Missing)
    BY DEF Share!Submission
  <2>3. \A a, b : Share!Result(a, b).status = a
    BY DEF Share!Result
  <2> QED BY <1>4, <2>1, <2>2, <2>3
<1> HIDE DEF listed, status, receipt
<1> SUFFICES
     /\ listed.kind = "files" =>
          \/ listed.ids = 1..q.n
          \/ q.fault = "empty" /\ (listed.ids = {} \/ q.style = {})
     /\ Readable(q.n, q.style, q.fault) => listed.kind = "files"
     /\ status = "accepted" => listed.kind = "files" /\ listed.ids # {}
     /\ (listed.kind = "files" /\ listed.ids # {} /\ receipt.kind # "mapping") =>
          status \in {"uncertain", "needs_auth"}
  BY Zenon DEF listed, status, receipt, Readable
<1>6. CASE \E c \in ShareCodes : listed = Share!Failure(c) /\ ~Readable(q.n, q.style, q.fault)
  <2>1. listed.kind = "failure"
    BY <1>6 DEF Share!Failure
  <2> QED BY <2>1, <1>3, <1>6
<1>7. CASE \E ids : /\ listed = Share!Files(ids)
                    /\ ids = 1..q.n \/ (q.fault = "empty" /\ (ids = {} \/ q.style = {}))
  <2>1. PICK ids : /\ listed = Share!Files(ids)
                   /\ ids = 1..q.n \/ (q.fault = "empty" /\ (ids = {} \/ q.style = {}))
    BY <1>7
  <2>2. listed.kind = "files" /\ listed.ids = ids
    BY <2>1 DEF Share!Files
  <2> QED BY <2>1, <2>2, <1>3, <1>5
<1> QED BY <1>1, <1>6, <1>7 DEF Ends

(***************************************************************************)
(* Tasks.                                                                  *)
(***************************************************************************)
IsTaskQuestion(q) ==
  /\ q.tasks \in Seq([ref : {"mine", "other"}, auth : BOOLEAN, failed : BOOLEAN])
  /\ q.failing \in Nat

TaskPagesOf(q) == [p \in 1..MaxTaskPages |-> TaskPage(q, p)]

\* A number that is the least of a set of numbers.
LEMMA LeastIsMin ==
  ASSUME NEW S \in SUBSET Nat, NEW m \in S, \A x \in S : m <= x
  PROVE  Share!Min(S) = m /\ (CHOOSE x \in S : \A y \in S : x <= y) = m
<1>1. \A x \in S : (\A y \in S : x <= y) => x = m
  OBVIOUS
<1>2. (CHOOSE x \in S : \A y \in S : x <= y) = m
  BY <1>1
<1> QED BY <1>2 DEF Share!Min

\* What get_status makes of any task question.
LEMMA TasksAreFound ==
  ASSUME NEW q, IsTaskQuestion(q)
  PROVE  LET mine == {i \in DOMAIN q.tasks \cap 1..MaxTaskPages :
                        q.tasks[i].ref = "mine" /\ ~(q.failing \in 1..i)}
         IN Share!Status(TaskPagesOf(q), "mine") =
              IF mine = {} THEN Missing
              ELSE Share!TaskStatus(q.tasks[CHOOSE i \in mine : \A j \in mine : i <= j])
<1> DEFINE n == Len(q.tasks)
           M == MaxTaskPages
           pages == TaskPagesOf(q)
           mine == {i \in DOMAIN q.tasks \cap 1..M :
                      q.tasks[i].ref = "mine" /\ ~(q.failing \in 1..i)}
           ending == {p \in 1..M : Share!Ends(pages[p], p, "mine")}
           said == Share!Status(pages, "mine")
<1>1. n \in Nat /\ M \in Nat /\ DOMAIN q.tasks = 1..n /\ q.failing \in Nat
  BY LimitsAssumption DEF IsTaskQuestion
<1>2. ASSUME NEW p \in 1..M
      PROVE  /\ ~pages[p].auth /\ (pages[p].ok <=> p # q.failing)
             /\ pages[p].tasks = IF p <= n THEN <<q.tasks[p]>> ELSE <<>>
             /\ pages[p].count = n
  BY DEF TaskPagesOf, TaskPage
<1>3. ASSUME NEW p \in 1..M
      PROVE  /\ p <= n /\ q.tasks[p].ref = "mine" => Share!Tasks(pages[p], "mine") = {1}
             /\ ~(p <= n /\ q.tasks[p].ref = "mine") => Share!Tasks(pages[p], "mine") = {}
  <2> DEFINE t == q.tasks[p]
  <2>1. DOMAIN <<t>> = {1} /\ <<t>>[1] = t /\ DOMAIN <<>> = {}
    OBVIOUS
  <2> HIDE DEF t
  <2>2. Share!Tasks(pages[p], "mine") = {i \in DOMAIN pages[p].tasks : pages[p].tasks[i].ref = "mine"}
    BY DEF Share!Tasks
  <2>3. pages[p].tasks = IF p <= n THEN <<t>> ELSE <<>>
    BY <1>2 DEF t
  <2> HIDE DEF pages, n
  <2>4. CASE p <= n
    BY <2>1, <2>2, <2>3, <2>4 DEF t
  <2>5. CASE ~(p <= n)
    BY <2>1, <2>2, <2>3, <2>5
  <2> QED BY <2>4, <2>5
<1> HIDE DEF pages, said, n
<1>4. ASSUME NEW p \in 1..M
      PROVE  p \in ending <=> p = q.failing \/ (p <= n /\ q.tasks[p].ref = "mine") \/ n <= p
  <2>1. Share!LastPage(pages[p], p) <=> pages[p].tasks = <<>> \/ n <= p
    BY <1>2 DEF Share!LastPage
  <2>2. pages[p].tasks = <<>> <=> ~(p <= n)
    <3> DEFINE t == q.tasks[p]
    <3>1. <<t>> # <<>>
      OBVIOUS
    <3> HIDE DEF t
    <3>2. pages[p].tasks = IF p <= n THEN <<t>> ELSE <<>>
      BY <1>2 DEF t
    <3> QED BY <3>1, <3>2
  <2>3. Share!Ends(pages[p], p, "mine") <=>
          p = q.failing \/ Share!Tasks(pages[p], "mine") # {} \/ Share!LastPage(pages[p], p)
    BY <1>2 DEF Share!Ends
  <2>4. Share!Tasks(pages[p], "mine") # {} <=> p <= n /\ q.tasks[p].ref = "mine"
    <3> DEFINE t == Share!Tasks(pages[p], "mine")
               own == q.tasks[p].ref = "mine"
    <3>1. (p <= n /\ own => t = {1}) /\ (~(p <= n /\ own) => t = {})
      BY <1>3, Zenon
    <3> HIDE DEF t, own
    <3>2. t # {} <=> p <= n /\ own
      BY <3>1
    <3> QED BY <3>2, Zenon DEF t, own
  <2>5. p \in ending <=> Share!Ends(pages[p], p, "mine")
    OBVIOUS
  <2>6. ~(p <= n) => n <= p
    BY <1>1
  <2> HIDE DEF ending
  <2> QED BY <2>1, <2>2, <2>3, <2>4, <2>5, <2>6, Zenon
<1>5. ending \in SUBSET Nat /\ mine \in SUBSET Nat
  BY <1>1
<1>6. said = IF ending = {} THEN Missing ELSE Share!StatusOn(pages[Share!Min(ending)], "mine")
  BY Zenon DEF Share!Status, said
<1>7. \A i : i \in mine <=> i \in 1..n /\ i \in 1..M /\ q.tasks[i].ref = "mine"
                           /\ ~(q.failing \in 1..i)
  BY <1>1
<1>e. ending \subseteq 1..M
  OBVIOUS
<1> HIDE DEF mine, ending
<1> SUFFICES said = IF mine = {} THEN Missing
                    ELSE Share!TaskStatus(q.tasks[CHOOSE i \in mine : \A j \in mine : i <= j])
  BY Zenon DEF said, pages, mine
<1>8. ASSUME NEW p \in ending, \A x \in ending : p <= x
      PROVE  said = IF p \in mine THEN Share!TaskStatus(q.tasks[p]) ELSE Missing
  <2>1. said = Share!StatusOn(pages[p], "mine") /\ p \in 1..M
    BY <1>5, <1>6, <1>8, <1>e, LeastIsMin
  <2>2. q.failing \in 1..p => q.failing = p
    <3> SUFFICES ASSUME q.failing \in 1..p, q.failing # p PROVE FALSE
      OBVIOUS
    <3>1. q.failing \in 1..M
      BY <1>1, <2>1
    <3>2. q.failing \in ending
      BY <3>1, <1>4
    <3> QED BY <3>2, <1>1, <1>8, <2>1
  <2>3. p \in mine <=> p # q.failing /\ p <= n /\ q.tasks[p].ref = "mine"
    BY <1>1, <1>7, <2>1, <2>2
  <2>4. Share!StatusOn(pages[p], "mine") =
          IF pages[p].ok /\ Share!Tasks(pages[p], "mine") # {}
          THEN Share!TaskStatus(pages[p].tasks[Share!Min(Share!Tasks(pages[p], "mine"))])
          ELSE Missing
    BY <1>2, <2>1 DEF Share!StatusOn
  <2>5. CASE p \in mine
    <3>1. Share!Tasks(pages[p], "mine") = {1} /\ pages[p].ok
      BY <1>2, <1>3, <2>1, <2>3, <2>5
    <3>2. Share!Min({1}) = 1
      BY LeastIsMin
    <3>3. pages[p].tasks[1] = q.tasks[p]
      <4> DEFINE t == q.tasks[p]
      <4>1. <<t>>[1] = t
        OBVIOUS
      <4>2. pages[p].tasks = <<t>>
        BY <1>2, <2>1, <2>3, <2>5
      <4> HIDE DEF t
      <4> QED BY <4>1, <4>2 DEF t
    <3> QED BY <2>1, <2>4, <2>5, <3>1, <3>2, <3>3
  <2>6. CASE p \notin mine
    <3>1. ~(pages[p].ok /\ Share!Tasks(pages[p], "mine") # {})
      BY <1>2, <1>3, <2>1, <2>3, <2>6
    <3> QED BY <2>1, <2>4, <2>6, <3>1
  <2> QED BY <2>5, <2>6
<1>9. mine \subseteq ending
  BY <1>1, <1>4, <1>7
<1>10. CASE mine = {}
  <2>1. CASE ending = {}
    BY <1>6, <1>10, <2>1
  <2>2. CASE ending # {}
    <3>1. PICK p \in ending : \A x \in ending : p <= x
      BY <1>5, <2>2, LeastIsThere
    <3> QED BY <1>8, <1>10, <3>1
  <2> QED BY <2>1, <2>2
<1>11. CASE mine # {}
  <2>1. PICK m \in mine : \A x \in mine : m <= x
    BY <1>5, <1>11, LeastIsThere
  <2>2. (CHOOSE i \in mine : \A j \in mine : i <= j) = m
    BY <1>5, <2>1, LeastIsMin
  <2>3. PICK p \in ending : \A x \in ending : p <= x
    BY <1>5, <1>9, <1>11, LeastIsThere
  <2>4. p = m
    <3> SUFFICES ASSUME p # m PROVE FALSE
      OBVIOUS
    <3>1. p \in 1..M /\ m \in 1..M /\ m \in 1..n /\ p < m /\ ~(q.failing \in 1..m)
      BY <1>7, <1>9, <1>e, <2>1, <2>3
    <3>2. p # q.failing /\ ~(n <= p) /\ ~(q.failing \in 1..p)
      BY <1>1, <3>1
    <3>3. p <= n /\ q.tasks[p].ref = "mine"
      BY <1>4, <2>3, <3>1, <3>2
    <3>4. p \in mine
      BY <1>1, <1>7, <3>1, <3>2, <3>3
    <3> QED BY <2>1, <3>1, <3>4
  <2>5. p \in mine
    BY <2>1, <2>4
  <2> QED BY <1>8, <1>11, <2>2, <2>3, <2>4, <2>5
<1> QED BY <1>10, <1>11

(***************************************************************************)
(* Any question.  The specification of MCDecisions, asked whatever the     *)
(* program may be asked and not only what TLC enumerates.                  *)
(***************************************************************************)
Observes(map) == \A k \in DOMAIN map : map[k] \in Observation

IsAsked(q) ==
  /\ q.part = "match" => IsAnswer(q.answer)
  /\ q.part = "group" =>
       q.group \in SUBSET StepExpectation /\ Observes(q.sources) /\ Observes(q.targets)
  /\ q.part = "isolation" =>
       /\ q.intent \in Intents /\ q.timedOut \in BOOLEAN
       /\ {q.seenSource, q.seenTarget} \subseteq Observation \cup {Malformed}
  /\ q.part = "inventory" =>
       /\ IsFiniteSet(q.library.files) /\ IsProbe(q.probe)
       /\ \A f \in q.library.files : IsFile(f) /\ InOrder(f) /\ EndsAgree(f)
  /\ q.part = "directory" => IsDirectoryQuestion(q)
  /\ q.part = "share" => IsShareQuestion(q)
  /\ q.part = "tasks" => IsTaskQuestion(q)

AnySpec == (answer = <<>> /\ IsAsked(question)) /\ [][Answer]_<<question, answer>>

\* A question is asked once, and the answer is the reply to it.
AnswerIsReply == IsAsked(question) /\ answer \in {<<>>, <<Reply>>}

\* It is an invariant.
LEMMA RepliesAreGiven == AnySpec => []AnswerIsReply
<1>1. answer = <<>> /\ IsAsked(question) => AnswerIsReply
  BY DEF AnswerIsReply
<1>2. AnswerIsReply /\ [Answer]_<<question, answer>> => AnswerIsReply'
  <2> SUFFICES ASSUME AnswerIsReply, [Answer]_<<question, answer>> PROVE AnswerIsReply'
    OBVIOUS
  <2>1. question' = question /\ answer' \in {answer, <<Reply>>}
    BY DEF Answer
  <2>2. Reply' = Reply
    BY <2>1 DEF Reply
  <2> QED BY <2>1, <2>2 DEF AnswerIsReply, IsAsked, IsAnswer
<1> QED BY <1>1, <1>2, PTL DEF AnySpec

\* The reply to a question of each part.
LEMMA RepliesByPart ==
  /\ question.part = "match" =>
       Reply = Match(question.query, question.lock, question.answer)
  /\ question.part = "naming" => Reply = PlanBatch(question.requests, question.rules)
  /\ question.part = "inventory" => Reply = InventoryReply(question)
  /\ question.part = "cleanup" => Reply = CleanupReply(question)
  /\ question.part = "repair" => Reply = RepairReply(question)
  /\ question.part = "directory" => Reply = Listing!ScanDirectory(RawPages(question))
  /\ question.part = "share" =>
       Reply = [listed |-> Share!ShareFiles(SharePagesOf(question)),
                saved |-> Share!SaveShare(SharePagesOf(question), question.receipt)]
  /\ question.part = "tasks" => Reply = Share!Status(TaskPagesOf(question), "mine")
<1>1. ASSUME question.part = "match"
      PROVE  Reply = Match(question.query, question.lock, question.answer)
  BY <1>1 DEF Reply
<1>2. ASSUME question.part = "naming"
      PROVE  Reply = PlanBatch(question.requests, question.rules)
  BY <1>2 DEF Reply
<1>3. ASSUME question.part = "inventory" PROVE Reply = InventoryReply(question)
  BY <1>3 DEF Reply
<1>4. ASSUME question.part = "cleanup" PROVE Reply = CleanupReply(question)
  BY <1>4 DEF Reply
<1>5. ASSUME question.part = "repair" PROVE Reply = RepairReply(question)
  BY <1>5 DEF Reply
<1>6. ASSUME question.part = "directory"
      PROVE  Reply = Listing!ScanDirectory(RawPages(question))
  BY <1>6 DEF Reply
<1>7. ASSUME question.part = "share"
      PROVE  Reply = [listed |-> Share!ShareFiles(SharePagesOf(question)),
                      saved |-> Share!SaveShare(SharePagesOf(question), question.receipt)]
  BY <1>7 DEF Reply, SharePagesOf
<1>8. ASSUME question.part = "tasks"
      PROVE  Reply = Share!Status(TaskPagesOf(question), "mine")
  BY <1>8 DEF Reply, TaskPagesOf
<1> QED BY <1>1, <1>2, <1>3, <1>4, <1>5, <1>6, <1>7, <1>8

\* What was answered is the reply.
LEMMA TheReply ==
  ASSUME AnswerIsReply, NEW part, Has(part)
  PROVE  answer[1] = Reply /\ question.part = part
BY DEF AnswerIsReply, Has

\* For any query, lock and answer of TMDB, a title is accepted without a question only
\* if no other candidate fits (media_matcher.py).
THEOREM OnlyFitsAreAccepted == AnySpec => []AcceptedIsTheOnlyFit
<1>1. ASSUME AnswerIsReply PROVE AcceptedIsTheOnlyFit
  <2> SUFFICES ASSUME Has("match")
               PROVE  OnlyFit(BuildInput(question.query),
                              Answered(question.answer).candidates, answer[1])
    BY DEF AcceptedIsTheOnlyFit
  <2>1. answer[1] = Match(question.query, question.lock, question.answer)
    BY <1>1, TheReply, RepliesByPart
  <2>2. IsAnswer(question.answer)
    BY <1>1, TheReply DEF AnswerIsReply, IsAsked
  <2> QED BY <2>1, <2>2, NothingIsGuessed
<1> QED BY <1>1, RepliesAreGiven, PTL

\* For batches of any length, two files that would get one name both stay
\* (media_classification.py, plan_batch).
THEOREM CollisionsStay == AnySpec => []CollidingFilesStay
<1>1. ASSUME AnswerIsReply PROVE CollidingFilesStay
  <2>1. ASSUME Has("naming") PROVE answer[1] = PlanBatch(question.requests, question.rules)
    BY <1>1, <2>1, TheReply, RepliesByPart
  <2> QED BY <2>1, NobodyIsOverwritten DEF CollidingFilesStay
<1> QED BY <1>1, RepliesAreGiven, PTL

\* For groups of any size, any intents and any observations, the checks around a write
\* are sound (organization_companion_contract.py, organization_isolation_contract.py).
THEOREM WritesAreChecked == AnySpec => []WriteChecksAreSound
<1>1. ASSUME AnswerIsReply PROVE WriteChecksAreSound
  <2>1. ASSUME Has("group")
        PROVE  /\ ReadyIsSafe(question.group, question.sources, question.targets)
               /\ AppliedIsExact(question.group, question.sources, question.targets)
               /\ TimeoutStaysOpen(question.group, question.sources)
    <3>1. /\ question.group \in SUBSET StepExpectation
          /\ Observes(question.sources) /\ Observes(question.targets)
      BY <1>1, <2>1, TheReply DEF AnswerIsReply, IsAsked
    <3> QED BY <3>1, ReadyImpliesSafe, AppliedImpliesExact, TimeoutLeavesOpen DEF Observes
  <2>2. ASSUME Has("isolation")
        PROVE  IsolationIsNoLaxer(question.intent, question.seenSource,
                                  question.seenTarget, question.timedOut)
    <3>1. /\ question.intent \in Intents /\ question.timedOut \in BOOLEAN
          /\ question.seenSource \in Observation \cup {Malformed}
          /\ question.seenTarget \in Observation \cup {Malformed}
      BY <1>1, <2>2, TheReply DEF AnswerIsReply, IsAsked
    <3> QED BY <3>1, IsolationIsStrict
  <2> QED BY <2>1, <2>2 DEF WriteChecksAreSound
<1> QED BY <1>1, RepliesAreGiven, PTL

\* For directories, shares and lists of tasks of any length, pages of any size and any
\* fault: a directory that claims to be complete has read over no failed page, repeats
\* nothing and has every entry if the total is told or nothing is wrong, and an honest
\* one that tells its end is read; a share is read whole but for an empty answer; the
\* status of a task is that of its first answer (p115_library.py, p115.py).
THEOREM ListingsAreRead == AnySpec => []ListingsAreWhole
<1>1. ASSUME AnswerIsReply PROVE ListingsAreWhole
  <2> DEFINE q == question
  <2>1. ASSUME Has("directory")
        PROVE  Listing!ReadIsWhole(Entries(q.n), answer[1],
                 q.fault \in Broken /\ q.at <= Pages(q.n, q.size), q.fault = "none",
                 "total" \in q.style, TellsEnd(q.n, q.size, q.style))
    <3>1. IsDirectoryQuestion(q) /\ answer[1] = Listing!ScanDirectory(RawPages(q))
      BY <1>1, <2>1, TheReply, RepliesByPart DEF AnswerIsReply, IsAsked
    <3> QED BY <3>1, DirectoriesAreWhole
  <2>2. ASSUME Has("share")
        PROVE  LET listed == answer[1].listed
                   saved == answer[1].saved.status
               IN
               /\ listed.kind = "files" =>
                    \/ listed.ids = 1..q.n
                    \/ q.fault = "empty" /\ (listed.ids = {} \/ q.style = {})
               /\ (q.fault = "none" /\ q.n <= MaxShareItems /\ {"total", "more"} \subseteq q.style)
                    => listed.kind = "files"
               /\ saved = "accepted" => listed.kind = "files" /\ listed.ids # {}
               /\ (listed.kind = "files" /\ listed.ids # {} /\ q.receipt.kind # "mapping") =>
                    saved \in {"uncertain", "needs_auth"}
    <3> DEFINE found == Share!ShareFiles(SharePagesOf(q))
               done == Share!SaveShare(SharePagesOf(q), q.receipt)
    <3>1. IsShareQuestion(q) /\ answer[1] = [listed |-> found, saved |-> done]
      BY <1>1, <2>2, TheReply, RepliesByPart DEF AnswerIsReply, IsAsked
    <3>2. answer[1].listed = found /\ answer[1].saved = done
      <4> HIDE DEF found, done
      <4> QED BY <3>1
    <3> QED BY <3>1, <3>2, SharesAreWhole
  <2>3. ASSUME Has("tasks")
        PROVE  LET mine == {i \in DOMAIN q.tasks \cap 1..MaxTaskPages :
                              q.tasks[i].ref = "mine" /\ ~(q.failing \in 1..i)}
               IN answer[1] =
                    IF mine = {} THEN Missing
                    ELSE Share!TaskStatus(q.tasks[CHOOSE i \in mine : \A j \in mine : i <= j])
    <3>1. IsTaskQuestion(q) /\ answer[1] = Share!Status(TaskPagesOf(q), "mine")
      BY <1>1, <2>3, TheReply, RepliesByPart DEF AnswerIsReply, IsAsked
    <3> QED BY <3>1, TasksAreFound
  <2> HIDE DEF q
  <2> QED BY <2>1, <2>2, <2>3, Zenon DEF ListingsAreWhole, TellsEnd, q
<1> QED BY <1>1, RepliesAreGiven, PTL

\* The one episode that an inventory question asks about.
LEMMA TheStatus ==
  ASSUME AnswerIsReply, Has("inventory"), NEW e \in DOMAIN answer[1].status
  PROVE  /\ e = Aired(question.probe.first) /\ e \in Episodes
         /\ answer[1].status =
              Library!Completeness({Aired(question.probe.first)}, question.library, 7, 1)
<1>1. answer[1].status =
        Library!Completeness({Aired(question.probe.first)}, question.library, 7, 1)
  BY TheReply, RepliesByPart DEF InventoryReply
<1>2. e = Aired(question.probe.first)
  BY <1>1 DEF Library!Completeness
<1>3. IsProbe(question.probe)
  BY TheReply DEF AnswerIsReply, IsAsked
<1>4. e \in Episodes
  BY <1>2, <1>3 DEF IsProbe, Aired, Episodes
<1> QED BY <1>1, <1>2, <1>4

\* For any library, the check in front of a push agrees with the reports
\* (library_inventory.py, episode_completeness.py).
THEOREM GuardAgrees == AnySpec => []GuardIsExact
<1>1. ASSUME AnswerIsReply PROVE GuardIsExact
  <2> SUFFICES ASSUME Has("inventory")
               PROVE  /\ Library!GroupsAreFound(question.library.files)
                      /\ Library!EpisodesAreExact(question.library.files, question.probe)
                      /\ question.library.freshness = "fresh" =>
                           \A e \in DOMAIN answer[1].status :
                             Library!MatrixAgrees(question.library.files, 7, 1, e.number,
                                                  answer[1].status[e])
    BY DEF GuardIsExact
  <2>1. /\ IsFiniteSet(question.library.files) /\ IsProbe(question.probe)
        /\ \A f \in question.library.files : IsFile(f) /\ InOrder(f) /\ EndsAgree(f)
    BY <1>1, TheReply DEF AnswerIsReply, IsAsked
  <2>2. ASSUME question.library.freshness = "fresh", NEW e \in DOMAIN answer[1].status
        PROVE  Library!MatrixAgrees(question.library.files, 7, 1, e.number,
                                    answer[1].status[e])
    <3>1. /\ e \in Episodes /\ e.aired /\ ~e.special /\ ~e.ignored
          /\ answer[1].status =
               Library!Completeness({Aired(question.probe.first)}, question.library, 7, 1)
          /\ e = Aired(question.probe.first)
      <4>1. /\ e = Aired(question.probe.first) /\ e \in Episodes
            /\ answer[1].status =
                 Library!Completeness({Aired(question.probe.first)}, question.library, 7, 1)
        BY <1>1, <2>2, TheStatus
      <4>2. e.aired /\ ~e.special /\ ~e.ignored
        BY <4>1 DEF Aired
      <4> QED BY <4>1, <4>2
    <3>2. answer[1].status[e] =
            Library!EpisodeStatus(e,
              Library!FileReferences(question.library.files, 7, 1), TRUE)
      <4>1. (question.library.freshness = "fresh") = TRUE
        BY <2>2
      <4> QED BY <3>1, <4>1 DEF Library!Completeness
    <3>3. 7 # Missing /\ 1 \in Nat
      BY MissingAssumption
    <3> QED BY <2>1, <3>1, <3>2, <3>3, MatrixIsTheGuard
  <2> QED BY <2>1, <2>2, GroupsAreSeen, EpisodesAreFound
<1> QED BY <1>1, RepliesAreGiven, PTL

\* For any library, any evidence and any selection, nothing is concluded from a scan
\* that is stale or incomplete, and nothing protected is deleted (api/seasons.py,
\* library_health.py, storage_governance.py).
THEOREM ConclusionsRestOnScans == AnySpec => []ConclusionsAreProven
<1>1. ASSUME AnswerIsReply PROVE ConclusionsAreProven
  <2>1. ASSUME Has("inventory"), NEW e \in DOMAIN answer[1].status
        PROVE  Library!MissingIsProven(question.library, answer[1].status[e])
    <3>1. IsFiniteSet(question.library.files)
      BY <1>1, <2>1, TheReply DEF AnswerIsReply, IsAsked
    <3>2. /\ e \in {Aired(question.probe.first)}
          /\ {Aired(question.probe.first)} \in SUBSET Episodes
          /\ answer[1].status =
               Library!Completeness({Aired(question.probe.first)}, question.library, 7, 1)
      BY <1>1, <2>1, TheStatus
    <3> QED BY <3>1, <3>2, MissingNeedsAFreshScan
  <2>2. ASSUME Has("cleanup")
        PROVE  Library!CleanupIsProven(question.entries, question.complete, answer[1])
    <3>1. answer[1] = CleanupReply(question)
      BY <1>1, <2>2, TheReply, RepliesByPart
    <3> QED BY <3>1, CleanupsSpareTheProtected DEF CleanupReply
  <2>3. ASSUME Has("repair") PROVE Library!RepairsAreProven(question, answer[1])
    <3>1. answer[1] = RepairReply(question)
      BY <1>1, <2>3, TheReply, RepliesByPart
    <3> QED BY <3>1, RepairsNeedEvidence DEF RepairReply
  <2> QED BY <2>1, <2>2, <2>3 DEF ConclusionsAreProven
<1> QED BY <1>1, RepliesAreGiven, PTL

(***************************************************************************)
(* Plans.                                                                  *)
(***************************************************************************)
\* A target is a directory and a name, and the root of the library is not an entry
\* of its scan.
AreTargets(items) ==
  \A i \in DOMAIN items :
    items[i].target = Missing \/
    items[i].target = [directory |-> items[i].target.directory, name |-> items[i].target.name]

\* What create_plan puts into an action.
LEMMA ActionsOfMoves ==
  ASSUME NEW items, NEW rows, NEW conflicts, NEW i \in DOMAIN items,
         ActionOf(items, i, rows, conflicts).kind = "move"
  PROVE  LET action == ActionOf(items, i, rows, conflicts) IN
         /\ ~action.conflict /\ ~Taken(items, i, conflicts) /\ items[i].accepted
         /\ action.members # Missing
         /\ action.members = MembersOf(items[i])
         /\ action.target = items[i].target /\ action.target # Missing
         /\ action.object = items[i].object
BY DEF ActionOf, ExecutionPayload

\* The steps of a plan as create_plan has built it are safe to carry out one after the
\* other, whatever entries they are checked against.
LEMMA LoadedMovesAreSafe ==
  ASSUME NEW items, AreTargets(items), NEW rows, NEW conflicts, NEW later,
         Root \notin DOMAIN later, NEW current
  PROVE  LoadedAreSafe(LoadSteps(BuildPayload(items, rows, conflicts), later, current), later)
<1> DEFINE plan == BuildPayload(items, rows, conflicts)
           steps == LoadSteps(plan, later, current)
           members == [i \in DOMAIN items |-> ActionOf(items, i, rows, conflicts).members]
<1> SUFFICES ASSUME steps # Missing PROVE LoadedAreSafe(steps, later)
  BY DEF LoadedAreSafe
<1>1. /\ plan.actions = [i \in DOMAIN items |-> ActionOf(items, i, rows, conflicts)]
      /\ DOMAIN plan.actions = DOMAIN items
  BY DEF BuildPayload
<1>2. ParsedSteps(plan) # Missing /\ steps = ParsedSteps(plan)
  BY DEF LoadSteps
<1>3. /\ steps = members
      /\ \A i \in DOMAIN items : ActionOf(items, i, rows, conflicts).kind = "move"
      /\ \A a, b \in Occurrences(members) :
           a # b => members[a[1]][a[2]].object # members[b[1]][b[2]].object
  <2> DEFINE parsed == [i \in DOMAIN plan.actions |-> plan.actions[i].members]
  <2>1. /\ ParsedSteps(plan) = parsed
        /\ \A i \in DOMAIN plan.actions : plan.actions[i].kind = "move"
        /\ \A a, b \in Occurrences(parsed) :
             a # b => parsed[a[1]][a[2]].object # parsed[b[1]][b[2]].object
    BY <1>2, Zenon DEF ParsedSteps
  <2>2. \A i \in DOMAIN items : plan.actions[i] = ActionOf(items, i, rows, conflicts)
    BY <1>1
  <2> HIDE DEF plan
  <2>3. parsed = members
    BY <1>1, <2>2
  <2> HIDE DEF parsed, members, steps
  <2> QED BY <1>1, <1>2, <2>1, <2>2, <2>3
<1>4. \A i \in DOMAIN items :
        StepIsValid(ActionOf(items, i, rows, conflicts), members[i], later)
  <2>1. \A i \in DOMAIN plan.actions :
          StepIsValid(plan.actions[i], ParsedSteps(plan)[i], later)
    BY DEF LoadSteps
  <2> QED BY <1>1, <1>2, <1>3, <2>1
<1> HIDE DEF steps, plan
<1>5. ASSUME NEW a \in Occurrences(members)
      PROVE  /\ later[members[a[1]][a[2]].object]
                  = [parent |-> members[a[1]][a[2]].parent,
                     label |-> members[a[1]][a[2]].label, directory |-> FALSE]
             /\ members[a[1]][a[2]].targetParent = members[a[1]][1].targetParent
  <2>1. a[1] \in DOMAIN items /\ a[2] \in DOMAIN members[a[1]]
    BY DEF Occurrences
  <2> HIDE DEF members
  <2> QED BY <1>4, <2>1 DEF StepIsValid, IsCurrent
<1>6. ASSUME NEW i \in DOMAIN items, NEW j \in DOMAIN items, i # j,
             members[i][1].targetParent = members[j][1].targetParent,
             members[i][1].targetName = members[j][1].targetName
      PROVE  FALSE
  <2> DEFINE s == items[i].target
             t == items[j].target
  <2>1. /\ s # Missing /\ t # Missing /\ s # t
        /\ ActionOf(items, i, rows, conflicts).target = s
        /\ ActionOf(items, j, rows, conflicts).target = t
    <3>1. /\ ActionOf(items, i, rows, conflicts).target = s /\ s # Missing
          /\ ~Taken(items, i, conflicts)
      BY <1>3, ActionsOfMoves
    <3>2. ActionOf(items, j, rows, conflicts).target = t /\ t # Missing
      BY <1>3, ActionsOfMoves
    <3> QED BY <1>6, <3>1, <3>2 DEF Taken
  <2>2. /\ members[i][1].targetName = s.name /\ members[j][1].targetName = t.name
        /\ TargetMatches([target |-> s, targetParent |-> members[i][1].targetParent], later)
        /\ TargetMatches([target |-> t, targetParent |-> members[j][1].targetParent], later)
    <3> HIDE DEF members
    <3> QED BY <1>4, <2>1 DEF StepIsValid
  <2>3. s.directory = t.directory
    <3> HIDE DEF members, s, t
    <3> QED BY <1>6, <2>2 DEF TargetMatches
  <2>4. s.name = t.name
    BY <1>6, <2>2
  <2> QED BY <2>1, <2>3, <2>4 DEF AreTargets
<1> HIDE DEF members
<1>7. \A i, j \in DOMAIN members :
        i # j => <<members[i][1].targetParent, members[i][1].targetName>>
                   # <<members[j][1].targetParent, members[j][1].targetName>>
  <2>1. DOMAIN members = DOMAIN items
    BY DEF members
  <2> QED BY <1>6, <2>1
<1>8. LoadedAreSafe(members, later)
  BY <1>3, <1>5, <1>7 DEF LoadedAreSafe
<1> QED BY <1>3, <1>8

\* None is no record and no sequence.
NoneIsNoFunction == \A f : f = [x \in DOMAIN f |-> f[x]] => f # Missing

\* What create_plan stores: only the basis passes through JSON as something else.
LEMMA StoredPlan ==
  ASSUME NEW items, NEW rows, NEW conflicts, NEW created,
         CreatePlan(items, rows, conflicts, created) # Missing
  PROVE  LET plan == CreatePlan(items, rows, conflicts, created)
             built == BuildPayload(items, rows, conflicts)
         IN  plan.status = built.status /\ plan.actions = built.actions
BY DEF CreatePlan, BuildPayload

\* refresh_plan leaves a plan as it is or takes it out of use.
LEMMA RefreshedPlan ==
  ASSUME NEW plan, NEW outdated, NEW given, NEW rows, NEW more
  PROVE  /\ RefreshPlan(plan, outdated, given, rows, more) \in {plan, Invalidated(plan)}
         /\ plan = Missing => RefreshPlan(plan, outdated, given, rows, more) = Missing
BY DEF RefreshPlan

\* A plan that was taken out of use is not planned.
LEMMA InvalidatedPlan ==
  ASSUME NEW items, NEW rows, NEW conflicts, NEW created, NEW later, NEW current,
         CreatePlan(items, rows, conflicts, created) # Missing
  PROVE  LET gone == Invalidated(CreatePlan(items, rows, conflicts, created))
         IN  gone.status = "invalidated" /\ LoadSteps(gone, later, current) = Missing
<1> DEFINE gone == Invalidated(CreatePlan(items, rows, conflicts, created))
<1>1. gone.status = "invalidated"
  BY DEF Invalidated, CreatePlan, BuildPayload
<1> HIDE DEF gone
<1>2. LoadSteps(gone, later, current) = Missing
  BY <1>1 DEF LoadSteps
<1> QED BY <1>1, <1>2 DEF gone

\* What is loaded depends on the status and the actions of the plan alone.
LEMMA SameSteps ==
  ASSUME NEW plan, NEW built, NEW later, NEW current, plan # Missing, built # Missing,
         plan.status = built.status, plan.actions = built.actions
  PROVE  LoadSteps(plan, later, current) = LoadSteps(built, later, current)
<1>1. ParsedSteps(plan) = ParsedSteps(built)
  BY DEF ParsedSteps
<1> QED BY <1>1 DEF LoadSteps

\* load_executable_steps: the steps of a plan that create_plan has made, and of what any
\* refresh leaves of it, are safe to carry out one after the other, whatever the scan
\* holds by then.
THEOREM StoredMovesAreSafe ==
  ASSUME NoneIsNoFunction, NEW items, AreTargets(items), NEW rows, NEW conflicts,
         NEW created, NEW outdated, NEW given, NEW more,
         NEW later, Root \notin DOMAIN later, NEW current
  PROVE  LET plan == CreatePlan(items, rows, conflicts, created)
             kept == RefreshPlan(plan, outdated, given, later, more)
         IN  /\ LoadedAreSafe(LoadSteps(plan, later, current), later)
             /\ LoadedAreSafe(LoadSteps(kept, later, current), later)
<1> DEFINE built == BuildPayload(items, rows, conflicts)
           plan == CreatePlan(items, rows, conflicts, created)
           kept == RefreshPlan(plan, outdated, given, later, more)
<1>1. LoadSteps(Missing, later, current) = Missing /\ LoadedAreSafe(Missing, later)
  BY DEF LoadSteps, LoadedAreSafe
<1>2. plan # Missing => LoadSteps(plan, later, current) = LoadSteps(built, later, current)
  <2>1. built # Missing
    BY DEF BuildPayload, NoneIsNoFunction
  <2>2. plan # Missing => plan.status = built.status /\ plan.actions = built.actions
    BY StoredPlan
  <2> HIDE DEF plan, built
  <2> QED BY <2>1, <2>2, SameSteps
<1>3. LoadedAreSafe(LoadSteps(built, later, current), later)
  BY LoadedMovesAreSafe
<1>4. kept \in {plan, Invalidated(plan)} /\ (plan = Missing => kept = Missing)
  BY RefreshedPlan
<1>5. plan # Missing => LoadSteps(Invalidated(plan), later, current) = Missing
  BY InvalidatedPlan
<1> HIDE DEF built, plan, kept
<1> QED BY <1>1, <1>2, <1>3, <1>4, <1>5 DEF plan, kept

\* The members of an item are a sequence that begins with its file.
LEMMA MembersOfAnItem ==
  ASSUME NEW item, NEW S, item.companions \in Seq(S)
  PROVE  /\ MembersOf(item) = [k \in DOMAIN MembersOf(item) |-> MembersOf(item)[k]]
         /\ 1 \in DOMAIN MembersOf(item)
         /\ MembersOf(item)[1] =
              [object |-> item.object, parent |-> item.parent, label |-> item.label,
               targetParent |-> item.targetParent, targetName |-> item.targetName]
<1> DEFINE member(s) == [object |-> s.object, parent |-> s.parent, label |-> s.label,
                         targetParent |-> s.targetParent, targetName |-> s.targetName]
           rest == [i \in DOMAIN item.companions |-> member(item.companions[i])]
           first == member(item)
<1>1. MembersOf(item) = <<first>> \o rest
  BY DEF MembersOf
<1>2. rest \in Seq({member(item.companions[i]) : i \in DOMAIN item.companions})
  OBVIOUS
<1>3. first = [object |-> item.object, parent |-> item.parent, label |-> item.label,
               targetParent |-> item.targetParent, targetName |-> item.targetName]
  OBVIOUS
<1> HIDE DEF rest, first
<1> QED BY <1>1, <1>2, <1>3

\* An entry of a scan stays as it is, and so does what was found of it.
LEMMA EntriesStay ==
  ASSUME NEW rows, NEW later, \A o \in DOMAIN rows : o \in DOMAIN later /\ later[o] = rows[o]
  PROVE  /\ \A member : IsCurrent(member, rows) => IsCurrent(member, later)
         /\ \A directory : IsManaged(directory, rows) => IsManaged(directory, later)
         /\ \A item : TargetMatches(item, rows) => TargetMatches(item, later)
BY DEF IsCurrent, IsManaged, TargetMatches

\* What _build_payload takes for a move, _validate_persisted_step takes for one.
LEMMA MovesStayValid ==
  ASSUME NEW S, NEW items, NEW rows, NEW conflicts, NEW later,
         \A o \in DOMAIN rows : o \in DOMAIN later /\ later[o] = rows[o],
         NEW i \in DOMAIN items, items[i].companions \in Seq(S),
         ActionOf(items, i, rows, conflicts).kind = "move"
  PROVE  StepIsValid(ActionOf(items, i, rows, conflicts), MembersOf(items[i]), later)
<1> DEFINE item == items[i]
           action == ActionOf(items, i, rows, conflicts)
           members == MembersOf(item)
<1>1. /\ ~action.conflict /\ action.members # Missing
      /\ action.target = item.target /\ action.object = item.object
  BY ActionsOfMoves
<1>2. action.members = ExecutionPayload(item, rows)
  BY DEF ActionOf
<1>3. /\ item.targetName = item.target.name /\ TargetMatches(item, rows)
      /\ \A k \in DOMAIN members :
           /\ IsCurrent(members[k], rows) /\ IsManaged(members[k].parent, rows)
           /\ members[k].targetParent = item.targetParent
  <2>1. ExecutionPayload(item, rows) # Missing
    BY <1>1, <1>2
  <2> QED BY <2>1 DEF ExecutionPayload
<1>4. /\ TargetMatches(item, later)
      /\ \A k \in DOMAIN members :
           IsCurrent(members[k], later) /\ IsManaged(members[k].parent, later)
  <2> HIDE DEF members, item
  <2> QED BY <1>3, EntriesStay
<1>5. /\ 1 \in DOMAIN members
      /\ members[1].object = item.object /\ members[1].targetName = item.targetName
      /\ members[1].targetParent = item.targetParent
  <2>1. item.companions \in Seq(S)
    OBVIOUS
  <2> HIDE DEF item
  <2>2. /\ 1 \in DOMAIN MembersOf(item)
        /\ MembersOf(item)[1] =
             [object |-> item.object, parent |-> item.parent, label |-> item.label,
              targetParent |-> item.targetParent, targetName |-> item.targetName]
    BY <2>1, MembersOfAnItem, Zenon
  <2> QED BY <2>2
<1>6. IsManaged(item.targetParent, later)
  BY <1>4 DEF TargetMatches, IsManaged
<1>7. TargetMatches([target |-> item.target, targetParent |-> members[1].targetParent], later)
  BY <1>4, <1>5 DEF TargetMatches
<1>8. StepIsValid(action, members, later)
  <2> HIDE DEF action, members, item
  <2> QED BY <1>1, <1>3, <1>4, <1>5, <1>6, <1>7 DEF StepIsValid
<1> QED BY <1>8

\* No two moves of the items name one file.
NamedOnce(items) ==
  \A a, b \in Occurrences([i \in DOMAIN items |-> MembersOf(items[i])]) :
    a # b => MembersOf(items[a[1]])[a[2]].object # MembersOf(items[b[1]])[b[2]].object

\* A built plan that is planned is parsed into the members of its items.
LEMMA PlannedIsParsed ==
  ASSUME NoneIsNoFunction, NEW items, NEW rows, NEW conflicts,
         BuildPayload(items, rows, conflicts).status = "planned", NamedOnce(items)
  PROVE  LET built == BuildPayload(items, rows, conflicts) IN
         /\ DOMAIN built.actions = DOMAIN items
         /\ \A i \in DOMAIN items : /\ built.actions[i] = ActionOf(items, i, rows, conflicts)
                                    /\ built.actions[i].kind = "move"
         /\ ParsedSteps(built) = [i \in DOMAIN items |-> MembersOf(items[i])]
         /\ ParsedSteps(built) # Missing
<1> DEFINE built == BuildPayload(items, rows, conflicts)
           all == [i \in DOMAIN items |-> MembersOf(items[i])]
           parsed == [i \in DOMAIN built.actions |-> built.actions[i].members]
<1>1. /\ built.actions = [i \in DOMAIN items |-> ActionOf(items, i, rows, conflicts)]
      /\ \A i \in DOMAIN built.actions : built.actions[i].kind = "move"
  BY DEF BuildPayload
<1>2. ASSUME NEW i \in DOMAIN items
      PROVE  /\ built.actions[i] = ActionOf(items, i, rows, conflicts)
             /\ built.actions[i].kind = "move"
             /\ built.actions[i].members = MembersOf(items[i])
  <2>1. built.actions[i] = ActionOf(items, i, rows, conflicts)
    BY <1>1
  <2>2. ActionOf(items, i, rows, conflicts).kind = "move"
    BY <1>1, <2>1
  <2>3. ActionOf(items, i, rows, conflicts).members = MembersOf(items[i])
    BY <2>2, ActionsOfMoves
  <2> HIDE DEF built
  <2> QED BY <2>1, <2>2, <2>3
<1>3. DOMAIN built.actions = DOMAIN items
  BY <1>1
<1>4. \A a, b \in Occurrences(all) :
        a # b => all[a[1]][a[2]].object # all[b[1]][b[2]].object
  <2>1. \A a \in Occurrences(all) : all[a[1]] = MembersOf(items[a[1]])
    BY DEF Occurrences
  <2>2. \A a, b \in Occurrences(all) :
          a # b => MembersOf(items[a[1]])[a[2]].object # MembersOf(items[b[1]])[b[2]].object
    BY DEF NamedOnce
  <2> HIDE DEF all
  <2> QED BY <2>1, <2>2
<1> HIDE DEF built
<1>5. parsed = all
  BY <1>2, <1>3
<1>6. all # Missing
  BY DEF NoneIsNoFunction
<1> HIDE DEF all
<1>7. \A a, b \in Occurrences(parsed) :
        a # b => parsed[a[1]][a[2]].object # parsed[b[1]][b[2]].object
  <2> HIDE DEF parsed
  <2> QED BY <1>4, <1>5
<1>8. \A i \in DOMAIN built.actions : built.actions[i].kind = "move"
  BY <1>2, <1>3
<1>9. ParsedSteps(built) = parsed
  BY <1>7, <1>8 DEF ParsedSteps
<1> HIDE DEF parsed
<1> QED BY <1>2, <1>3, <1>5, <1>6, <1>9 DEF built, all

\* load_executable_steps: a plan that create_plan has made, and that any refresh has left
\* as planned, loads while its scan is the latest, whatever entries were added to the
\* scan, unless two of its moves name one file.
THEOREM PlannedPlansLoad ==
  ASSUME NoneIsNoFunction, NEW S,
         NEW items, \A i \in DOMAIN items : items[i].companions \in Seq(S),
         NEW rows, NEW conflicts, NEW created, NEW outdated, NEW given, NEW more,
         NEW later, \A o \in DOMAIN rows : o \in DOMAIN later /\ later[o] = rows[o]
  PROVE  LET plan == CreatePlan(items, rows, conflicts, created)
             kept == RefreshPlan(plan, outdated, given, later, more)
         IN  /\ PlannedLoads(items, plan, LoadSteps(plan, later, TRUE))
             /\ PlannedLoads(items, kept, LoadSteps(kept, later, TRUE))
<1> DEFINE built == BuildPayload(items, rows, conflicts)
           plan == CreatePlan(items, rows, conflicts, created)
           kept == RefreshPlan(plan, outdated, given, later, more)
           all == [i \in DOMAIN items |-> MembersOf(items[i])]
<1>1. PlannedLoads(items, plan, LoadSteps(plan, later, TRUE))
  <2> SUFFICES ASSUME plan # Missing, plan.status = "planned",
                      \A a, b \in Occurrences(all) :
                        a # b => all[a[1]][a[2]].object # all[b[1]][b[2]].object
               PROVE  LoadSteps(plan, later, TRUE) # Missing
    BY DEF PlannedLoads
  <2>1. built # Missing
    BY DEF BuildPayload, NoneIsNoFunction
  <2>2. plan.status = built.status /\ plan.actions = built.actions
    BY StoredPlan
  <2>3. built.status = "planned"
    BY <2>2
  <2>4. LoadSteps(plan, later, TRUE) = LoadSteps(built, later, TRUE)
    <3>1. \A current : LoadSteps(plan, later, current) = LoadSteps(built, later, current)
      <4> HIDE DEF plan, built
      <4> QED BY <2>1, <2>2, SameSteps
    <3> HIDE DEF plan, built
    <3> QED BY <3>1, Zenon
  <2>5. NamedOnce(items)
    <3>1. \A a \in Occurrences(all) : all[a[1]] = MembersOf(items[a[1]])
      BY DEF Occurrences
    <3>2. \A a, b \in Occurrences(all) :
            a # b => MembersOf(items[a[1]])[a[2]].object # MembersOf(items[b[1]])[b[2]].object
      <4> HIDE DEF all, plan
      <4> QED BY <3>1
    <3> QED BY <3>2 DEF NamedOnce
  <2>6. /\ DOMAIN built.actions = DOMAIN items
        /\ \A i \in DOMAIN items : /\ built.actions[i] = ActionOf(items, i, rows, conflicts)
                                   /\ built.actions[i].kind = "move"
        /\ ParsedSteps(built) = all /\ ParsedSteps(built) # Missing
    <3> HIDE DEF plan
    <3> QED BY <2>3, <2>5, PlannedIsParsed
  <2>7. \A i \in DOMAIN items : StepIsValid(built.actions[i], ParsedSteps(built)[i], later)
    <3> SUFFICES ASSUME NEW i \in DOMAIN items
                 PROVE  StepIsValid(built.actions[i], ParsedSteps(built)[i], later)
      OBVIOUS
    <3> HIDE DEF built, plan
    <3>1. ParsedSteps(built)[i] = MembersOf(items[i])
      BY <2>6
    <3>2. ActionOf(items, i, rows, conflicts).kind = "move"
      BY <2>6
    <3>3. StepIsValid(ActionOf(items, i, rows, conflicts), MembersOf(items[i]), later)
      BY <3>2, MovesStayValid
    <3> QED BY <2>6, <3>1, <3>3
  <2> HIDE DEF built, plan, all
  <2> QED BY <2>1, <2>3, <2>4, <2>6, <2>7 DEF LoadSteps
<1>2. kept \in {plan, Invalidated(plan)} /\ (plan = Missing => kept = Missing)
  BY RefreshedPlan
<1>3. plan # Missing => Invalidated(plan).status = "invalidated"
  BY InvalidatedPlan
<1> HIDE DEF plan, kept
<1>4. PlannedLoads(items, kept, LoadSteps(kept, later, TRUE))
  <2>1. CASE kept = plan
    BY <1>1, <2>1
  <2>2. CASE kept = Missing
    BY <2>2 DEF PlannedLoads
  <2>3. CASE plan # Missing /\ kept = Invalidated(plan)
    BY <1>3, <2>3 DEF PlannedLoads
  <2> QED BY <1>2, <2>1, <2>2, <2>3
<1> QED BY <1>1, <1>4 DEF plan, kept
=============================================================================
