------------------------------- MODULE MCDecisions -------------------------------
(***************************************************************************)
(* The pure decisions of the program, each asked every question of a small *)
(* domain.  A behaviour is one question and its answer.                    *)
(***************************************************************************)
EXTENDS MCLibraryQuestions, NamingPlans, PlanPayload, TLC

\* How many files of a share, and how many pages of tasks, the adapter reads.
CONSTANTS MaxShareItems, MaxTaskPages

ASSUME LimitsAssumption == MaxShareItems \in Nat \ {0} /\ MaxTaskPages \in Nat

\* None is no list, no page of a directory, no code and no failure of an answer.
RawEntries == [is_directory : BOOLEAN, directory_id : Nat \cup {Missing},
               file_id : Nat \cup {Missing}]
ASSUME NoneAssumption ==
  /\ Missing \notin Seq(Nat) /\ Missing \notin Seq(RawEntries)
  /\ Missing \notin [list : Seq([directory : Nat \cup {Missing}, file : Nat \cup {Missing}]),
                     page : Nat, page_count : Nat \cup {Missing}, total : Nat \cup {Missing},
                     scan_complete : BOOLEAN \cup {Missing}, state : {"complete"},
                     has_more : BOOLEAN \cup {Missing}, next_page : Nat \cup {Missing},
                     terminal : BOOLEAN \cup {Missing}]
  /\ Missing \notin {"gateway_error", "repeated_page", "page_count_changed", "total_changed",
                    "partial_page", "pagination_unverified", "empty_page",
                    "repeated_entry", "total_mismatch"}
  /\ Missing \notin [kind : {"failure"},
                     code : {"needs_auth", "share_listing_failed", "share_too_large",
                             "malformed_share_listing"}]

VARIABLES question, answer

Listing == INSTANCE DirectoryRead
Schema == INSTANCE SchemaUpgrade
Share == INSTANCE P115Submission

MCCountryOrder == <<"CN", "JP", "US", "XX", "ZZ">>

(***************************************************************************)
(* Matching: one query, and answers whose payloads differ from what the    *)
(* query asks for in up to two respects.                                   *)
(***************************************************************************)
MCQuery ==
  [title |-> "t", year |-> 2001, years |-> {}, type |-> "tv", kind |-> "anime",
   countries |-> {"JP"}, season |-> 1, first |-> 1, last |-> 2, specials |-> {}]

Queries ==
  {MCQuery,
   [MCQuery EXCEPT !.year = Missing, !.years = {2001, 2002}, !.last = Missing],
   [MCQuery EXCEPT !.year = Missing, !.season = Missing, !.first = Missing],
   [MCQuery EXCEPT !.kind = "unknown", !.countries = {}, !.specials = {"ova", "made for tv"}],
   [MCQuery EXCEPT !.kind = "unknown", !.countries = {}, !.season = Missing,
                   !.first = Missing],
   [MCQuery EXCEPT !.type = "unknown", !.season = Missing]}

Perfect ==
  [id |-> 1, type |-> "tv", title |-> "t", original |-> Missing, aliases |-> {},
   year |-> 2001, countries |-> {"JP"},
   seasons |-> <<[number |-> 1, count |-> 2, numbers |-> {1, 2}]>>,
   kind |-> "anime", special |-> "standard"]

Deviations ==
  {[Perfect EXCEPT !.title = "u", !.original = "t"],
   [Perfect EXCEPT !.title = "u", !.aliases = {"t"}],
   [Perfect EXCEPT !.title = "u"],
   [Perfect EXCEPT !.type = "movie"],
   [Perfect EXCEPT !.year = 2002], [Perfect EXCEPT !.year = Missing],
   [Perfect EXCEPT !.countries = {}], [Perfect EXCEPT !.countries = {"US"}],
   [Perfect EXCEPT !.seasons = <<>>],
   [Perfect EXCEPT !.seasons[1].number = 2, !.seasons[1].numbers = {}],
   [Perfect EXCEPT !.seasons[1].count = 1, !.seasons[1].numbers = {}],
   [Perfect EXCEPT !.seasons[1].count = Missing, !.seasons[1].numbers = {}],
   [Perfect EXCEPT !.seasons[1].numbers = {1}],
   [Perfect EXCEPT !.seasons = @ \o @],
   [Perfect EXCEPT !.seasons = @ \o <<[number |-> 1, count |-> 3, numbers |-> {}]>>],
   [Perfect EXCEPT !.kind = "short"], [Perfect EXCEPT !.kind = "tv"],
   [Perfect EXCEPT !.special = "ova"], [Perfect EXCEPT !.special = "special"],
   [Perfect EXCEPT !.title = Missing]}

\* The fields in which a or b deviates from the perfect payload.
Merge(a, b) == [f \in DOMAIN Perfect |-> IF a[f] # Perfect[f] THEN a[f] ELSE b[f]]
Twice == {Merge(a, b) : a, b \in Deviations \cup {Perfect}}
Once == Deviations \cup {Perfect}
Payloads == Once \cup {[c EXCEPT !.id = 2] : c \in Once}

IsMatchQuestion(q) ==
  \/ \E query \in Queries, a \in Twice, b \in Payloads :
       q = [part |-> "match", query |-> query, lock |-> Missing,
            answer |-> [kind |-> "results", payloads |-> <<a, b>>]]
  \/ \E query \in {MCQuery, [MCQuery EXCEPT !.title = Missing]},
        lock \in {Missing, FromPayload(Perfect)},
        k \in {"results", "rate_limited", "timeout", "malformed_response",
               "unavailable"} :
       q = [part |-> "match", query |-> query, lock |-> lock,
            answer |-> [kind |-> k, payloads |-> <<>>]]

(***************************************************************************)
(* Naming: batches of two files.                                           *)
(***************************************************************************)
MCParsed ==
  [file |-> "video", container |-> "mkv", type |-> "tv", season |-> 1, first |-> 1,
   last |-> Missing, tags |-> <<"1080p">>, year |-> 2001]

Parses ==
  {MCParsed, [MCParsed EXCEPT !.container = "mp4"],
   [MCParsed EXCEPT !.file = "subtitle"], [MCParsed EXCEPT !.container = "iso"],
   [MCParsed EXCEPT !.last = 1], [MCParsed EXCEPT !.last = 2],
   [MCParsed EXCEPT !.first = Missing], [MCParsed EXCEPT !.tags = <<"2160p">>],
   [MCParsed EXCEPT !.type = "movie"], [MCParsed EXCEPT !.type = "unknown"]}

Titles ==
  {Perfect, [Perfect EXCEPT !.kind = "unknown"], [Perfect EXCEPT !.kind = "movie"],
   [Perfect EXCEPT !.type = "movie"], [Perfect EXCEPT !.countries = {"JP", "US"}],
   [Perfect EXCEPT !.countries = {"XX", "ZZ"}], [Perfect EXCEPT !.countries = {}],
   [Perfect EXCEPT !.countries = {"CN"}], [Perfect EXCEPT !.title = "..."],
   [Perfect EXCEPT !.year = Missing, !.kind = "variety"]}

Overrides ==
  {Missing, [classification |-> "anime", region |-> Missing],
   [classification |-> Missing, region |-> "western"]}

Companions ==
  {<<>>, <<[key |-> 1, file |-> "subtitle", container |-> "srt", language |-> "zh"],
           [key |-> 2, file |-> "subtitle", container |-> "srt", language |-> "zh"]>>}

Requests ==
  {[parsed |-> p, decision |-> d, companions |-> cs, override |-> o] :
     p \in Parses,
     d \in {Decision("accepted", t, "high", {}, "automatic") : t \in Titles}
           \cup {Locked([Perfect EXCEPT !.type = "movie"]),
                 Undecided("needs_review", "title_missing")},
     cs \in Companions, o \in Overrides}

Plain == {r \in Requests : r.companions = <<>> /\ r.override = Missing}

IsNamingQuestion(q) ==
  \E a \in Requests, b \in Plain, r \in BOOLEAN :
    q = [part |-> "naming", requests |-> <<a, b>>,
         rules |-> [regions |-> r, anime |-> r, tags |-> ~r]]

(***************************************************************************)
(* Plans: two files, one companion and two directories beside the root;    *)
(* what the scan may have by the time the plan is read; and a refresh with *)
(* or without the items.                                                   *)
(***************************************************************************)
File(parent, label) == [parent |-> parent, label |-> label, directory |-> FALSE]
Folder(label) == [parent |-> Root, label |-> label, directory |-> TRUE]

MCRows ==
  "video" :> File("inbox", "v") @@ "other" :> File("inbox", "o")
  @@ "sub" :> File("inbox", "s") @@ "inbox" :> Folder("in")
  @@ "shelf" :> Folder("tv")

AddedTo ==
  {MCRows, MCRows @@ "new" :> File("shelf", "n"), MCRows @@ "more" :> Folder("more")}

With(object, directory, name) ==
  [object |-> object, parent |-> "inbox", label |-> MCRows[object].label,
   targetParent |-> directory, targetName |-> name]

ItemsOf(object) ==
  {[object |-> object, parent |-> "inbox", label |-> label, target |-> target,
    targetParent |-> directory, targetName |-> name, accepted |-> accepted,
    companions |-> companions] :
     label \in {MCRows[object].label, "was"},
     target \in {Missing, [directory |-> "tv", name |-> "n1"],
                 [directory |-> "tv", name |-> "n2"],
                 [directory |-> Top, name |-> "n1"]},
     directory \in {"shelf", "inbox", Root}, name \in {"n1", "n2"},
     accepted \in BOOLEAN,
     companions \in {<<>>, <<With("sub", "shelf", "n3")>>,
                     <<With("other", "shelf", "n3")>>,
                     <<With("sub", Root, "n3"), With("sub", Root, "n4")>>}}

Sound(item) == item.label # "was" /\ item.accepted

SoundItemsOf(object) == {i \in ItemsOf(object) : Sound(i)}

IsPayloadQuestion(q) ==
  \/ \E a \in ItemsOf("other"), r \in BOOLEAN :
       q = [part |-> "payload", items |-> <<a>>, conflicts |-> {}, later |-> MCRows,
            again |-> r]
  \/ \E a \in SoundItemsOf("other"),
        b \in {i \in SoundItemsOf("video") : Len(i.companions) < 2},
        c \in {{}, {[directory |-> "tv", name |-> "n2"]}}, rows \in AddedTo, r \in BOOLEAN :
       q = [part |-> "payload", items |-> <<a, b>>, conflicts |-> c, later |-> rows,
            again |-> r]

(***************************************************************************)
(* Listings of 115: up to three entries on pages of one or two, the facts  *)
(* that the pages tell of themselves, and a fault of one page.             *)
(***************************************************************************)
Pages(n, size) == IF n = 0 THEN 1 ELSE (n + size - 1) \div size
On(n, size, p) ==
  [i \in 1..(IF p * size <= n THEN size ELSE n - (p - 1) * size) |-> (p - 1) * size + i]
Told(fact, style, value) == IF fact \in style THEN value ELSE Missing

RawEntry(i) ==
  [is_directory |-> i = 2, directory_id |-> Missing, file_id |-> i]
Entries(n) == {[directory |-> IF i = 2 THEN 2 ELSE Missing, file |-> i] : i \in 1..n}

RawPage(n, size, style, p) ==
  LET count == Pages(n, size) IN
  [list |-> [i \in DOMAIN On(n, size, p) |-> RawEntry(On(n, size, p)[i])],
   page |-> p, page_count |-> Told("count", style, count),
   total |-> Told("total", style, n), scan_complete |-> Missing, state |-> Missing,
   has_more |-> Told("more", style, p < count),
   next_page |-> IF p < count THEN Told("next", style, p + 1) ELSE Missing,
   terminal |-> Told("terminal", style, p = count)]

Broken == {"failed", "nameless", "partial", "incomplete", "renumbered"}
Spoil(raw, fault) ==
  CASE fault = "none" -> raw
    [] fault = "failed" -> [raw EXCEPT !.list = Missing]
    [] fault = "nameless" ->
         [raw EXCEPT !.list = Append(@, [RawEntry(1) EXCEPT !.file_id = Missing])]
    [] fault = "partial" -> [raw EXCEPT !.state = "partial"]
    [] fault = "incomplete" -> [raw EXCEPT !.scan_complete = FALSE]
    [] fault = "renumbered" -> [raw EXCEPT !.page = @ + 1]
    [] fault = "dropped" -> [raw EXCEPT !.list = IF @ = <<>> THEN @ ELSE Tail(@)]
    [] fault = "repeated" -> [raw EXCEPT !.list = Append(@, RawEntry(1))]
    [] fault = "recounted" -> [raw EXCEPT !.page_count = 1]
    [] fault = "retotalled" -> [raw EXCEPT !.total = 1]
    [] fault = "ended" -> [raw EXCEPT !.terminal = TRUE]
    [] fault = "cut" -> [raw EXCEPT !.has_more = FALSE]
Faults == Broken \cup {"none", "dropped", "repeated", "recounted", "retotalled",
                       "ended", "cut"}

DirectoryQuestions ==
  {[part |-> "directory", n |-> n, size |-> size, style |-> style, fault |-> fault,
    at |-> at] :
     n \in 0..3, size \in 1..2, at \in 1..2, fault \in Faults,
     style \in SUBSET {"count", "total", "more", "next", "terminal"}}

RawPages(q) ==
  [p \in 1..Pages(q.n, q.size) |->
     Spoil(RawPage(q.n, q.size, q.style, p), IF p = q.at THEN q.fault ELSE "none")]

\* A share of as many files as the adapter reads, and of one more; a page has
\* the files from an offset on.
SharePage(n, size, style, fault, at, offset) ==
  LET shown == 1..n \cap (offset + 1)..(offset + size)
      page == [items |-> [i \in 1..Cardinality(shown) |-> offset + i],
               auth |-> FALSE, ok |-> TRUE,
               totals |-> IF "total" \in style THEN {n} ELSE {},
               mores |-> IF "more" \in style THEN {offset + size < n} ELSE {},
               nexts |-> IF "next" \in style /\ offset + size < n
                         THEN {offset + size} ELSE {}]
  IN CASE offset # at \/ fault = "none" -> page
       [] offset = at /\ fault = "refused" -> [page EXCEPT !.ok = FALSE]
       [] offset = at /\ fault = "login" -> [page EXCEPT !.auth = TRUE]
       [] offset = at /\ fault = "unreadable" -> [page EXCEPT !.items = Missing]
       [] offset = at /\ fault = "empty" -> [page EXCEPT !.items = <<>>]
       [] offset = at /\ fault = "twofold" -> [page EXCEPT !.totals = {n, n + 1}]

\* What 115 makes of the order to receive the files.
Receipts ==
  [kind : {"raised"}, auth : BOOLEAN] \cup [kind : {"unreadable"}] \cup
  [kind : {"mapping"}, auth : BOOLEAN, idempotent : BOOLEAN, ok : BOOLEAN, ref : {Missing, "mine"}]

ShareQuestions ==
  {[part |-> "share", n |-> n, size |-> size, style |-> style, fault |-> fault,
    at |-> at, receipt |-> receipt] :
     n \in 0..MaxShareItems + 1, size \in 1..2, at \in 0..MaxShareItems, receipt \in Receipts,
     fault \in {"none", "refused", "login", "unreadable", "empty", "twofold"},
     style \in SUBSET {"total", "more", "next"}}

\* The tasks of 115, one a page, and the page that fails.
TaskQuestions ==
  {[part |-> "tasks", tasks |-> tasks, failing |-> failing] :
     tasks \in UNION {[1..k -> [ref : {"mine", "other"}, auth : BOOLEAN, failed : BOOLEAN]] :
                        k \in 0..MaxTaskPages + 1},
     failing \in 0..MaxTaskPages}
TaskPage(q, p) ==
  [tasks |-> IF p <= Len(q.tasks) THEN <<q.tasks[p]>> ELSE <<>>,
   count |-> Len(q.tasks), auth |-> FALSE, ok |-> p # q.failing]

\* The database of an earlier release, and after how many steps the first start of
\* this release is killed.
IsSchemaQuestion(q) ==
  \E db \in Schema!Databases, n \in 0..Len(Schema!Steps) :
    q = [part |-> "schema", database |-> db, killed |-> n]

Reply ==
  CASE question.part = "match" ->
         Match(question.query, question.lock, question.answer)
    [] question.part = "naming" -> PlanBatch(question.requests, question.rules)
    [] question.part = "payload" ->
         LET plan == CreatePlan(question.items, MCRows, question.conflicts, TRUE)
             kept == RefreshPlan(plan, FALSE, IF question.again THEN question.items
                                              ELSE Missing,
                                 question.later, question.conflicts)
         IN [plan |-> plan, steps |-> LoadSteps(plan, question.later, TRUE),
             kept |-> kept, keptSteps |-> LoadSteps(kept, question.later, TRUE)]
    [] question.part = "directory" -> Listing!ScanDirectory(RawPages(question))
    [] question.part = "share" ->
         LET pages == [offset \in 0..MaxShareItems |->
                         SharePage(question.n, question.size, question.style,
                                   question.fault, question.at, offset)]
         IN [listed |-> Share!ShareFiles(pages),
             saved |-> Share!SaveShare(pages, question.receipt)]
    [] question.part = "tasks" ->
         Share!Status([p \in 1..MaxTaskPages |-> TaskPage(question, p)], "mine")
    [] question.part = "schema" ->
         Schema!Upgraded(Schema!LeftBehind(question.database, question.killed))
    [] question.part = "group" ->
         [before |-> CheckGroupBeforeWrite(question.group, question.sources, question.targets),
          late |-> CheckGroupAfterTimeout(question.group, question.sources)]
    [] question.part = "inventory" -> InventoryReply(question)
    [] question.part = "cleanup" -> CleanupReply(question)
    [] question.part = "repair" -> RepairReply(question)
    [] question.part = "isolation" ->
         IsolateBefore(Expectation(question.intent), question.seenSource,
                       question.seenTarget, question.timedOut)

MCInit ==
  /\ answer = <<>>
  /\ \/ IsMatchQuestion(question)
     \/ IsNamingQuestion(question)
     \/ IsPayloadQuestion(question)
     \/ question \in DirectoryQuestions
     \/ question \in ShareQuestions
     \/ question \in TaskQuestions
     \/ IsSchemaQuestion(question)
     \/ IsGroupQuestion(question)
     \/ IsInventoryQuestion(question)
     \/ IsCleanupQuestion(question) \/ IsRepairQuestion(question)
     \/ IsIsolationQuestion(question)

Answer == answer = <<>> /\ answer' = <<Reply>> /\ UNCHANGED question

MCSpec == MCInit /\ [][Answer]_<<question, answer>>

Has(part) == answer # <<>> /\ question.part = part

\* A title is accepted without a question only if no other candidate fits
\* what the names of the files say (media_matcher.py).
AcceptedIsTheOnlyFit ==
  Has("match") =>
    OnlyFit(BuildInput(question.query), Answered(question.answer).candidates, answer[1])

\* Two files that would get one name both stay where they are, companions
\* included (media_classification.py, plan_batch).
CollidingFilesStay ==
  Has("naming") => NobodyWins(question.requests, question.rules, answer[1])

\* What was stored earlier is read right.  The steps that the executor loads from a
\* persisted plan are safe to carry out, and a plan that is planned, and that a refresh
\* has left so, does load (organization_plan.py).  The database of an earlier release is upgraded
\* without a loss, wherever the process is killed meanwhile (migrations.py).
StoredIsReadRight ==
  /\ Has("payload") =>
       /\ LoadedAreSafe(answer[1].steps, question.later)
       /\ PlannedLoads(question.items, answer[1].plan, answer[1].steps)
       /\ PlannedLoads(question.items, answer[1].kept, answer[1].keptSteps)
  /\ Has("schema") => Schema!UpgradeIsWhole(question.database, answer[1])

\* What the code takes for a whole listing is one.  A complete read of a
\* directory (scan_directory) has every entry once; the files of a share
\* (_share_file_ids) are all of its files or a failure (or none, which save_share
\* refuses, unless pages that tell nothing of what follows stop early), and a share
\* within the limit whose pages tell a total and whether more follows is read.  An
\* order to receive a share that may have been carried out is never reported as
\* failed, for the user would repeat it.  The status of a task (get_status) is that
\* of the first task with its reference on the pages before one that fails.
ListingsAreWhole ==
  /\ Has("directory") =>
       LET q == question IN
       Listing!ReadIsWhole(Entries(q.n), answer[1],
         q.fault \in Broken /\ q.at <= Pages(q.n, q.size), q.fault = "none",
         "total" \in q.style,
         \/ "count" \in q.style \/ "more" \in q.style
         \/ "terminal" \in q.style /\ ("next" \in q.style \/ Pages(q.n, q.size) = 1))
  /\ Has("share") =>
       LET q == question
           listed == answer[1].listed
           saved == answer[1].saved.status
       IN
       /\ listed.kind = "files" =>
            \/ listed.ids = 1..q.n
            \/ q.fault = "empty" /\ (listed.ids = {} \/ q.style = {})
       /\ (q.fault = "none" /\ q.n <= MaxShareItems /\ {"total", "more"} \subseteq q.style) =>
            listed.kind = "files"
       /\ saved = "accepted" => listed.kind = "files" /\ listed.ids # {}
       /\ (listed.kind = "files" /\ listed.ids # {} /\ q.receipt.kind # "mapping") =>
            saved \in {"uncertain", "needs_auth"}
  /\ Has("tasks") =>
       LET q == question
           mine == {i \in DOMAIN q.tasks \cap 1..MaxTaskPages :
                      q.tasks[i].ref = "mine" /\ ~(q.failing \in 1..i)}
       IN answer[1] = IF mine = {} THEN Missing
                      ELSE Share!TaskStatus(q.tasks[CHOOSE i \in mine : \A j \in mine : i <= j])

\* A group of files is written only when each was seen untouched at its source
\* and every target was seen empty, is skipped only when each was seen at its
\* target, and stays open after a timeout unless that is so
\* (organization_companion_contract.py).  The checks of an isolation allow nothing
\* that those of a plan refuse, and a restore takes an object up where the
\* isolation put it down (organization_isolation_contract.py).
WriteChecksAreSound ==
  /\ Has("group") =>
       /\ ReadyIsSafe(question.group, question.sources, question.targets)
       /\ AppliedIsExact(question.group, question.sources, question.targets)
       /\ TimeoutStaysOpen(question.group, question.sources)
  /\ Has("isolation") =>
       IsolationIsNoLaxer(question.intent, question.seenSource, question.seenTarget,
                          question.timedOut)

\* The check in front of a push finds what the report of duplicates groups,
\* finds an episode exactly when the library holds it, and calls an episode
\* absent exactly when the report of the season calls it missing
\* (library_inventory.py, inventory_push_guard.py, episode_completeness.py).
GuardIsExact ==
  Has("inventory") =>
    LET files == question.library.files IN
    /\ Library!GroupsAreFound(files)
    /\ Library!EpisodesAreExact(files, question.probe)
    /\ (question.library.freshness = "fresh" /\ question.probe.last = Missing
        /\ question.probe.season = 1) =>
          \A e \in DOMAIN answer[1].status :
            Library!MatrixAgrees(files, 7, 1, e.number, answer[1].status[e])

\* A scan that is stale or incomplete proves no absence and supports no repair,
\* and no cleanup deletes a protected file (api/seasons.py, library_health.py,
\* storage_governance.py).
ConclusionsAreProven ==
  /\ Has("inventory") =>
       \A e \in DOMAIN answer[1].status :
         Library!MissingIsProven(question.library, answer[1].status[e])
  /\ Has("cleanup") =>
       Library!CleanupIsProven(question.entries, question.complete, answer[1])
  /\ Has("repair") => Library!RepairsAreProven(question, answer[1])
=============================================================================
