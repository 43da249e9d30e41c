-------------------------------- MODULE EventLog --------------------------------
(***************************************************************************)
(* LogStore (services/settings.py): numbered records appended to a file    *)
(* that is rotated by size and forgotten by age, and read newest first, a  *)
(* page at a time, by clients that come back with a cursor.                *)
(*                                                                         *)
(* Appends and pages hold one lock, so each is one step; a crash may leave *)
(* half a record, or a rotated file and no current one. A page is read     *)
(* with whatever was appended, rotated and deleted since the page before.  *)
(***************************************************************************)
EXTENDS Naturals, SequencesExt

CONSTANTS
  MaxRecords, \* bound: append calls
  MaxStops,   \* bound: crashes and restarts
  Limits      \* the page sizes that clients ask for

VARIABLES
  files,    \* the log files, oldest first: the last is the current one
  nextId,   \* LogStore._next_id; 0: not known yet (None)
  appended, \* append calls so far
  stops,    \* crashes so far
  reader    \* a client: its cursor (0: none), the ids shown, what it may expect

logVars == <<files, nextId, appended, stops, reader>>

\* A line: a record that matches the client's filters or not. A write that was
\* cut short leaves it without its end, and readable or not.
Lines == [id : 1..MaxRecords + 1, matches : BOOLEAN, ended : BOOLEAN, readable : BOOLEAN]
Current == Last(files)
AllLines == FlattenSeq(files)

TypeOK ==
  /\ files \in Seq(Seq(Lines)) /\ files # <<>>
  /\ nextId \in 0..MaxRecords + 2
  /\ appended \in 0..MaxRecords /\ stops \in 0..MaxStops
  /\ reader.cursor \in 0..MaxRecords + 1
  /\ reader.expected \subseteq 1..MaxRecords + 1

NoReader == [cursor |-> 0, shown |-> <<>>, expected |-> {}, done |-> FALSE]

Init ==
  /\ files = << <<>> >> /\ nextId = 0
  /\ appended = 0 /\ stops = 0
  /\ reader = NoReader

\* _latest_id_sync: over the records that can still be parsed.
LatestId == Max({0} \cup {line.id : line \in {l \in ToSet(AllLines) : l.readable}})
NewId == IF nextId = 0 THEN LatestId + 1 ELSE nextId

\* A record written behind a line that has no end is lost with it.
Written(file, line) ==
  IF file # <<>> /\ ~Last(file).ended
  THEN Append(Front(file), [Last(file) EXCEPT !.readable = FALSE, !.ended = line.ended])
  ELSE Append(file, line)

\* Rotation by size: os.replace, then a new file with the record.
WithRecord(rotated, line) ==
  IF rotated THEN Append(files, <<line>>)
  ELSE Append(Front(files), Written(Current, line))

\* Retention: rotated files are deleted by the time of their last write.
Retained(kept) == {SubSeq(kept, n, Len(kept)) : n \in 1..Len(kept)}

NewLine(matches) == [id |-> NewId, matches |-> matches, ended |-> TRUE, readable |-> TRUE]

\* The client can still expect only what can still be read.
StillThere(kept) ==
  reader.expected \intersect {line.id : line \in {l \in ToSet(FlattenSeq(kept)) : l.readable}}

Keep(kept) ==
  /\ files' = kept
  /\ reader' = [reader EXCEPT !.expected = StillThere(kept)]

AppendRecord ==
  /\ appended < MaxRecords /\ appended' = appended + 1
  /\ \E rotated, matches \in BOOLEAN :
       /\ rotated => Current # <<>>
       /\ nextId' = NewId + 1
       /\ \E kept \in Retained(WithRecord(rotated, NewLine(matches))) : Keep(kept)
  /\ UNCHANGED stops

Stopped == stops < MaxStops /\ stops' = stops + 1 /\ nextId' = 0

Restart ==
  /\ Stopped
  /\ UNCHANGED <<files, appended, reader>>

\* The process dies in the write of a record, with all of it or some on disk.
CrashInWrite ==
  /\ Stopped
  /\ appended < MaxRecords /\ appended' = appended + 1
  /\ \E rotated, matches, whole \in BOOLEAN :
       /\ rotated => Current # <<>>
       /\ Keep(WithRecord(rotated, [NewLine(matches) EXCEPT !.ended = FALSE, !.readable = whole]))

\* The process dies between the rotation and the write.
CrashInRotation ==
  /\ Stopped
  /\ appended < MaxRecords /\ appended' = appended + 1
  /\ Current # <<>>
  /\ Keep(Append(files, <<>>))

\* Those of the lines that are wanted, in their order.
Chosen(lines, wanted) ==
  FlattenSeq([i \in DOMAIN lines |-> IF lines[i] \in wanted THEN <<lines[i]>> ELSE <<>>])

BugBefore(line, cursor) == cursor = 0 \/ line.id <= cursor

\* _list_sync: the records before the cursor that pass the filters.
Before(line, cursor) == cursor = 0 \/ line.id < cursor
Matching(cursor) ==
  Reverse(Chosen(AllLines, {line \in Lines : line.readable /\ line.matches
                                               /\ Before(line, cursor)}))

BugNextCursor(found, limit) == IF Len(found) > limit THEN found[limit + 1].id ELSE 0

\* The page, and the cursor of the next one: the last record shown.
NextCursor(found, limit) == IF Len(found) > limit THEN found[limit].id ELSE 0

Ids(lines) == [i \in DOMAIN lines |-> lines[i].id]

ReadPage ==
  /\ ~reader.done
  /\ \E limit \in Limits :
       LET found == Matching(reader.cursor)
           page == Ids(SubSeq(found, 1, IF Len(found) > limit THEN limit ELSE Len(found)))
       IN reader' = [cursor |-> NextCursor(found, limit),
                     shown |-> reader.shown \o page,
                     expected |-> IF reader.cursor = 0 THEN ToSet(Ids(found)) ELSE reader.expected,
                     done |-> Len(found) <= limit]
  /\ UNCHANGED <<files, nextId, appended, stops>>

\* The client starts again from the newest record.
ReadAgain ==
  /\ reader.done
  /\ reader' = NoReader
  /\ UNCHANGED <<files, nextId, appended, stops>>

Next == AppendRecord \/ Restart \/ CrashInWrite \/ CrashInRotation \/ ReadPage \/ ReadAgain
Spec == Init /\ [][Next]_logVars

\* PagesShowEverything: a client that follows the cursors to the end is shown
\* every record it could read when it began and can still read, once, newest
\* first, whatever is appended, rotated, deleted or lost in a crash meanwhile
\* (LogStore.list, and the export that follows the cursors itself).
PagesShowEverything ==
  /\ \A i \in 1..Len(reader.shown) - 1 : reader.shown[i] > reader.shown[i + 1]
  /\ reader.done => reader.expected \subseteq ToSet(reader.shown)
=================================================================================
