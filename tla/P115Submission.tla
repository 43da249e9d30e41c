----------------------------- MODULE P115Submission -----------------------------
(***************************************************************************)
(* What P115Adapter (adapters/p115.py) makes of the answers of 115: the    *)
(* files of a share, gathered page by page, the outcome of a submission,   *)
(* and the status of a task, looked for page by page.                      *)
(*                                                                         *)
(* An answer is a record of what the code reads in it.  totals, mores and  *)
(* nexts hold the values that the several keys for one fact give; task     *)
(* references and file identifiers are values of their own.                *)
(***************************************************************************)
EXTENDS Nullable, Naturals, Sequences, FiniteSets, SequencesExt

CONSTANTS
  MaxShareItems,   \* MAX_SHARE_ITEMS
  MaxTaskPages     \* how many pages of tasks get_status reads

Failure(code) == [kind |-> "failure", code |-> code]
Files(ids) == [kind |-> "files", ids |-> ids]

-----------------------------------------------------------------------------
\* _share_page_info: keys that contradict each other make an answer malformed.
Contradictory(page) ==
  \/ Cardinality(page.totals) > 1
  \/ Cardinality(page.mores) > 1
  \/ Cardinality(page.nexts) > 1
Given(values) == IF values = {} THEN Missing ELSE CHOOSE v \in values : TRUE

\* The failure that an answer is by itself, or Missing.
PageFailure(page) ==
  IF page.auth THEN Failure("needs_auth")
  ELSE IF ~page.ok THEN Failure("share_listing_failed")
  ELSE IF \E t \in page.totals : t > MaxShareItems THEN Failure("share_too_large")
  ELSE IF Contradictory(page) \/ page.items = Missing THEN Failure("malformed_share_listing")
  ELSE Missing

\* Whether the answer says that there is more, and whether it may be so: an
\* answer without a total and without has_more promises no end.
SaysMore(page, after) ==
  \/ TRUE \in page.mores
  \/ page.nexts # {}
  \/ \E t \in page.totals : after < t
BugMayContinue(page, after) == SaysMore(page, after)
MayContinue(page, after) ==
  SaysMore(page, after) \/ (page.mores = {} /\ page.totals = {})

\* One round of _share_file_ids, or what it returns.  walk holds the offset,
\* the identifiers gathered so far and whether more was announced.
Round(walk, page) ==
  LET ids == walk.ids \cup ToSet(page.items)
      after == walk.offset + Len(page.items)
      cursor == IF page.nexts = {} THEN after ELSE Given(page.nexts)
      next == [offset |-> cursor, ids |-> ids,
               more |-> walk.more \/ SaysMore(page, after)]
  IN IF PageFailure(page) # Missing THEN
       IF page.items = Missing /\ page.totals = {0} /\ ~Contradictory(page)
            /\ page.ok /\ ~page.auth
       THEN Files({}) ELSE PageFailure(page)
     ELSE IF page.items = <<>> THEN
       IF walk.offset = 0 THEN Files({})
       ELSE IF walk.more THEN Failure("malformed_share_listing")
       ELSE Files(walk.ids)
     ELSE IF Cardinality(ids) > MaxShareItems THEN Failure("share_too_large")
     ELSE IF (\E t \in page.totals : after > t) \/ cursor <= walk.offset
       THEN Failure("malformed_share_listing")
     ELSE IF \E n \in page.nexts : n > MaxShareItems THEN Failure("share_too_large")
     ELSE IF Cardinality(ids) = MaxShareItems THEN
       IF SaysMore(page, after) THEN Failure("share_too_large")
       ELSE IF page.totals # {} \/ page.mores # {} THEN Files(ids)
       ELSE [next EXCEPT !.offset = after]
     ELSE IF MayContinue(page, after) THEN next
     ELSE Files(ids)

\* The walk over pages, what 115 answers at every offset.
ShareFiles(pages) ==
  LET Walk[n \in 0..(MaxShareItems + 2)] ==
        IF n = 0 THEN [offset |-> 0, ids |-> {}, more |-> FALSE]
        ELSE LET walk == Walk[n - 1]
             IN IF "kind" \in DOMAIN walk THEN walk
                ELSE IF walk.offset > MaxShareItems THEN Failure("share_too_large")
                ELSE Round(walk, pages[walk.offset])
  IN Walk[MaxShareItems + 2]

-----------------------------------------------------------------------------
Result(status, ref) == [status |-> status, ref |-> ref]

\* A call that raises may have been carried out all the same.
Submission(response, fallback, needsRef) ==
  CASE response.kind = "raised" ->
         Result(IF response.auth THEN "needs_auth" ELSE "uncertain", Missing)
    [] response.kind = "unreadable" -> Result("uncertain", Missing)
    [] response.kind = "mapping" ->
         LET ref == IF response.ref # Missing THEN response.ref ELSE fallback
         IN IF response.auth THEN Result("needs_auth", Missing)
            ELSE IF response.idempotent THEN Result("accepted", ref)
            ELSE IF ~response.ok THEN Result("failed", Missing)
            ELSE IF ref = Missing /\ needsRef THEN Result("uncertain", Missing)
            ELSE Result("accepted", ref)

SubmitMagnet(response, infohash) == Submission(response, infohash, TRUE)

\* A share is received whole, and only when its listing has succeeded.
SaveShare(pages, response) ==
  LET listed == ShareFiles(pages)
  IN IF listed.kind = "failure" THEN
       Result(IF listed.code = "needs_auth" THEN "needs_auth" ELSE "failed", Missing)
     ELSE IF listed.ids = {} THEN Result("failed", Missing)
     ELSE Submission(response, Missing, FALSE)

-----------------------------------------------------------------------------
\* _task_status: a task that has neither failed nor lost its login is accepted.
TaskStatus(task) ==
  IF task.auth THEN "needs_auth" ELSE IF task.failed THEN "failed" ELSE "accepted"

BugLastPage(answer, page) == answer.tasks = <<>> \/ answer.count <= page + 1
LastPage(answer, page) == answer.tasks = <<>> \/ answer.count <= page

Tasks(answer, ref) == {i \in DOMAIN answer.tasks : answer.tasks[i].ref = ref}

\* What one page says of the task, and whether the next one is read.
StatusOn(answer, ref) ==
  IF answer.auth THEN "needs_auth"
  ELSE IF answer.ok /\ Tasks(answer, ref) # {}
    THEN TaskStatus(answer.tasks[Min(Tasks(answer, ref))])
  ELSE Missing

Ends(answer, page, ref) ==
  answer.auth \/ ~answer.ok \/ Tasks(answer, ref) # {} \/ LastPage(answer, page)

\* The pages, numbered from 1, are read in order until one ends the search.
Status(pages, ref) ==
  LET ending == {p \in 1..MaxTaskPages : Ends(pages[p], p, ref)}
  IN IF ending = {} THEN Missing ELSE StatusOn(pages[Min(ending)], ref)
=============================================================================
