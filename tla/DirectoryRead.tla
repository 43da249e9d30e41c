--------------------------- MODULE DirectoryRead ---------------------------
(***************************************************************************)
(* scan_directory (adapters/p115_library.py): the pages of a 115 directory *)
(* are read until one of them is the last, and the result is complete only *)
(* when nothing the pages say of themselves contradicts that.              *)
(*                                                                         *)
(* A raw page is a record whose fields may be Missing: list (a sequence of *)
(* raw entries), page, page_count, total, scan_complete, state, has_more,  *)
(* next_page, terminal.  Names, sizes, times and pickcodes of the entries  *)
(* are left out.                                                           *)
(***************************************************************************)
EXTENDS Integers, Sequences, Functions, Nullable

Known(value) == value # Missing

\* parse_library_entry: a directory without an id of its own takes the file
\* id; a file has to have one.
Entry(raw) ==
    [directory |-> IF raw.is_directory /\ raw.directory_id = Missing
                   THEN raw.file_id ELSE raw.directory_id,
     file |-> raw.file_id]

IsEntry(raw) == raw.is_directory \/ raw.file_id # Missing

ScanStateOf(raw) ==
    IF raw.state # Missing THEN raw.state
    ELSE IF raw.scan_complete = FALSE THEN "partial" ELSE "complete"

\* parse_directory_page, with the checks DirectoryPage makes of itself; a page
\* that raises LibraryContractError is Missing.
IsPage(raw) ==
    /\ Known(raw.list) /\ Known(raw.page)
    /\ \A i \in 1..Len(raw.list) : IsEntry(raw.list[i])
    /\ raw.page >= 1
    /\ Known(raw.page_count) => raw.page_count >= 1
    /\ Known(raw.total) => raw.total >= 0
    /\ Known(raw.next_page) => raw.next_page >= 1
    /\ Known(raw.scan_complete) =>
          raw.scan_complete = (ScanStateOf(raw) = "complete")

Page(raw) ==
    IF IsPage(raw)
    THEN [raw EXCEPT !.list = [i \in 1..Len(@) |-> Entry(@[i])],
                     !.state = ScanStateOf(raw)]
    ELSE Missing

-----------------------------------------------------------------------------
(* One round of the loop.  read holds the entries gathered, the pages seen,*)
(* what the first page told of all pages, the page to ask for next, and    *)
(* the code of the result once there is one.                               *)

Start == [items |-> <<>>, seen |-> {}, count |-> Missing, total |-> Missing,
          number |-> 1, code |-> Missing]

Stop(read, code) == [read EXCEPT !.code = code]

IsLast(page, count) == Known(count) /\ page.page = count
IsBefore(page, count) == Known(count) /\ page.page < count
SaysEnd(page) == page.terminal = TRUE \/ page.has_more = FALSE

\* pagination_signal_conflict
Conflicts(page, count) ==
    \/ page.terminal = TRUE /\ (page.has_more = TRUE \/ Known(page.next_page))
    \/ page.has_more = FALSE /\ (page.terminal = FALSE \/ Known(page.next_page))
    \/ Known(page.next_page) /\ page.next_page # page.page + 1
    \/ /\ IsLast(page, count)
       /\ page.terminal = FALSE \/ page.has_more = TRUE \/ Known(page.next_page)
    \/ IsBefore(page, count) /\ SaysEnd(page)
    \/ Known(count) /\ page.page > count

\* A page without entries where more were to come.
EmptyTooSoon(page, count) ==
    /\ page.list = <<>>
    /\ ~Known(count) \/ page.page < count \/ page.total \notin {Missing, 0}
    /\ ~SaysEnd(page)

\* The longest beginning of a page that repeats no entry.
Fresh(items, list) ==
    LET IsFresh(k) == IsInjective(items \o SubSeq(list, 1, k))
    IN  SubSeq(list, 1, CHOOSE k \in 0..Len(list) :
            IsFresh(k) /\ (k = Len(list) \/ ~IsFresh(k + 1)))

Continues(page, count) ==
    IsBefore(page, count) \/ page.has_more = TRUE \/ Known(page.next_page)

BugEnded(read, page) == Stop(read, "complete")

\* The last page has been read: what was gathered has to add up.
Ended(read, page) ==
    IF Known(read.total) /\ Len(read.items) # read.total
    THEN Stop(read, "total_mismatch")
    ELSE Stop(read, "complete")

Gathered(read, page) ==
    LET new == Fresh(read.items, page.list)
        after == [read EXCEPT !.items = @ \o new]
    IN  IF Len(new) < Len(page.list) THEN Stop(after, "repeated_entry")
        ELSE IF IsLast(page, read.count) \/ SaysEnd(page) THEN Ended(after, page)
        ELSE IF ~Continues(page, read.count) THEN Stop(after, "pagination_unverified")
        ELSE [after EXCEPT !.number = page.page + 1]

Round(read, page) ==
    LET first == read.seen = {}
        told == IF first
                THEN [read EXCEPT !.count = page.page_count, !.total = page.total,
                                  !.seen = {page.page}]
                ELSE [read EXCEPT !.seen = @ \union {page.page}]
    IN  IF ~Known(page) THEN Stop(read, "gateway_error")
        ELSE IF page.page # read.number THEN Stop(read, "repeated_page")
        ELSE IF page.page_count # told.count THEN Stop(told, "page_count_changed")
        ELSE IF page.total # told.total THEN Stop(told, "total_changed")
        ELSE IF page.state # "complete" THEN Stop(told, "partial_page")
        ELSE IF Conflicts(page, told.count) THEN Stop(told, "pagination_unverified")
        ELSE IF EmptyTooSoon(page, told.count) THEN Stop(told, "empty_page")
        ELSE Gathered(told, page)

\* scan_directory against a gateway that answers the pages of raws: what it
\* has found after at most one page more than there are.
ScanDirectory(raws) ==
    LET Answer(n) == IF n \in 1..Len(raws) THEN Page(raws[n]) ELSE Missing
        After[n \in 0..Len(raws) + 1] ==
            IF n = 0 THEN Start
            ELSE LET read == After[n - 1]
                 IN  IF Known(read.code) THEN read ELSE Round(read, Answer(read.number))
    IN  After[Len(raws) + 1]

-----------------------------------------------------------------------------
(* Property.                                                               *)

\* What scan_directory found in a directory of the given entries.  A complete
\* read repeats no entry and met no page that failed or called itself partial;
\* it has every entry whenever the pages told a total, and when nothing was
\* wrong with them.  Honest pages that tell where they end are read completely.
ReadIsWhole(entries, read, broken, honest, tellsTotal, tellsEnd) ==
    /\ read.code = "complete" =>
          /\ ~broken
          /\ IsInjective(read.items)
          /\ honest \/ tellsTotal => Range(read.items) = entries
    /\ honest /\ tellsEnd => read.code = "complete"
=============================================================================
