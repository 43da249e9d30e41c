----------------------------- MODULE MetadataFetch -----------------------------
(***************************************************************************)
(* QbittorrentClient.inspect (adapters/qbittorrent.py): the file list of a *)
(* magnet is read by adding it to qBittorrent with a stop condition, under *)
(* a tag and a category made for this call, and by removing it again.      *)
(*                                                                         *)
(* Calls run at the same time, at most Concurrency of them in qBittorrent  *)
(* and one for each infohash.  A call may be cancelled at every await, the *)
(* process may be killed, and an answer may be lost: the request was then  *)
(* carried out, will be carried out late, or never arrived.  The user adds *)
(* and removes torrents of their own, and leaves those of a call alone.    *)
(***************************************************************************)
EXTENDS Naturals, FiniteSets

CONSTANTS
  Calls,         \* calls of inspect; a call is named by its batch marker
  Hashes,        \* infohashes
  Concurrency,   \* calls in qBittorrent at the same time
  MaxKills       \* bound: how often the process is killed

VARIABLES
  torrents,  \* torrents[h]: who added the torrent of h, and how far it is
  marks,     \* markers that exist as a tag and a category
  delayed,   \* requests that were given up and may still be carried out
  call,      \* call[c]: a call of inspect
  kills      \* how often the process has been killed

fetchVars == <<torrents, marks, delayed, call, kills>>

Free == "free"       \* no torrent
User == "user"       \* a torrent of the user
Absent == [owner |-> Free, phase |-> "none"]
Added(who) == [owner |-> who, phase |-> "fetching"]

Guarded == {"look", "existing", "read existing", "add", "poll", "files",
            "cleanup", "delete"}
Admitted == Guarded \cup {"guard", "marker", "tags"}
Ended == {"done", "dead"}
Results == {"none", "verified", "timeout", "failed", "unsupported"}

NewCall(h) == [pc |-> "login", hash |-> h, result |-> "none", marked |-> FALSE,
               cancelled |-> FALSE, unclean |-> FALSE, lost |-> FALSE]

TypeOK ==
  /\ torrents \in [Hashes -> [owner : Calls \cup {Free, User},
                              phase : {"none", "fetching", "stopped", "downloading"}]]
  /\ marks \subseteq Calls
  /\ delayed \subseteq Calls \X {"add", "delete"}
  /\ call \in [Calls -> [pc : {"new", "login", "queue", "marker queue"} \cup Admitted \cup Ended,
                         hash : Hashes, result : Results \cup {"cleanup_failed", "cancelled"},
                         marked : BOOLEAN, cancelled : BOOLEAN, unclean : BOOLEAN,
                         lost : BOOLEAN]]
  /\ kills \in 0..MaxKills

Init ==
  /\ torrents = [h \in Hashes |-> Absent]
  /\ marks = {} /\ delayed = {}
  /\ call \in {[c \in Calls |-> [NewCall(h) EXCEPT !.pc = "new"]] : h \in Hashes}
  /\ kills = 0

At(c, place) == call[c].pc = place
Torrent(c) == torrents[call[c].hash]
Goto(c, place) == call' = [call EXCEPT ![c].pc = place]
With(c, result, place) == call' = [call EXCEPT ![c].pc = place, ![c].result = result]

\* What the caller is told when everything has been cleaned up, or has not.
Told(x) == IF x.cancelled THEN "cancelled"
           ELSE IF x.unclean THEN "cleanup_failed" ELSE x.result
Finish(c, x) == call' = [call EXCEPT ![c] = [x EXCEPT !.pc = "done", !.result = Told(x)]]

-----------------------------------------------------------------------------
Start(c, h) ==
  /\ At(c, "new")
  /\ call' = [call EXCEPT ![c] = NewCall(h)]
  /\ UNCHANGED <<torrents, marks, delayed, kills>>

Login(c) ==
  /\ At(c, "login")
  /\ \/ Goto(c, "queue")
     \/ \E r \in {"failed", "unsupported"} : Finish(c, [call[c] EXCEPT !.result = r])
  /\ UNCHANGED <<torrents, marks, delayed, kills>>

\* The semaphore, taken once for the inspection and once for the last cleanup.
Enter(c) ==
  /\ Cardinality({d \in Calls : call[d].pc \in Admitted}) < Concurrency
  /\ \/ At(c, "queue") /\ Goto(c, "guard")
     \/ At(c, "marker queue") /\ Goto(c, "marker")
  /\ UNCHANGED <<torrents, marks, delayed, kills>>

\* The lock of the infohash.
Guard(c) ==
  /\ At(c, "guard")
  /\ \A d \in Calls : call[d].hash = call[c].hash => call[d].pc \notin Guarded
  /\ Goto(c, "look")
  /\ UNCHANGED <<torrents, marks, delayed, kills>>

Look(c) ==
  /\ At(c, "look")
  /\ \/ Finish(c, [call[c] EXCEPT !.result = "failed"])
     \/ /\ Torrent(c) # Absent
        /\ Goto(c, "existing")
     \/ /\ Torrent(c) = Absent
        /\ call' = [call EXCEPT ![c].pc = "add", ![c].marked = TRUE]
  /\ UNCHANGED <<torrents, marks, delayed, kills>>

\* A torrent that was there before is only read.
PollExisting(c) ==
  /\ At(c, "existing")
  /\ \/ /\ Torrent(c).phase \notin {"none", "fetching"}
        /\ Goto(c, "read existing")
     \/ Finish(c, [call[c] EXCEPT !.result = "failed"])
     \/ /\ Torrent(c).phase = "fetching"
        /\ Finish(c, [call[c] EXCEPT !.result = "timeout"])
  /\ UNCHANGED <<torrents, marks, delayed, kills>>

ReadExisting(c) ==
  /\ At(c, "read existing")
  /\ \E r \in {"verified", "failed"} : Finish(c, [call[c] EXCEPT !.result = r])
  /\ UNCHANGED <<torrents, marks, delayed, kills>>

\* qBittorrent carries out the request to add: a torrent it has stays as it is.
CarryOutAdd(c) ==
  /\ marks' = marks \cup {c}
  /\ torrents' = IF Torrent(c) = Absent
                 THEN [torrents EXCEPT ![call[c].hash] = Added(c)] ELSE torrents

\* A call that was cancelled meanwhile waits for the answer, then cleans up.
Add(c) ==
  /\ At(c, "add")
  /\ \/ /\ CarryOutAdd(c)
        /\ Goto(c, IF call[c].cancelled THEN "cleanup" ELSE "poll")
        /\ UNCHANGED delayed
     \/ /\ With(c, "unsupported", "cleanup")
        /\ UNCHANGED <<torrents, marks, delayed>>
     \/ /\ call' = [call EXCEPT ![c].pc = "cleanup", ![c].result = "failed", ![c].lost = TRUE]
        /\ delayed' = delayed \cup {<<c, "add">>}
        /\ UNCHANGED <<torrents, marks>>
  /\ UNCHANGED kills

\* Without a result the loop sleeps and asks again until the deadline.
Poll(c) ==
  /\ At(c, "poll")
  /\ \/ /\ Torrent(c) = [owner |-> c, phase |-> "stopped"]
        /\ Goto(c, "files")
     \/ /\ \/ Torrent(c).owner \notin {Free, c}            \* ownership_conflict
           \/ Torrent(c).phase = "downloading"             \* metadata_stop_failed
           \/ TRUE                                         \* api_unavailable
        /\ With(c, "failed", "cleanup")
     \/ /\ Torrent(c) = Absent \/ Torrent(c).phase = "fetching"
        /\ With(c, "timeout", "cleanup")
  /\ UNCHANGED <<torrents, marks, delayed, kills>>

\* A file list that arrives after the deadline is thrown away.
ReadFiles(c) ==
  /\ At(c, "files")
  /\ \E r \in {"verified", "timeout", "failed"} : With(c, r, "cleanup")
  /\ UNCHANGED <<torrents, marks, delayed, kills>>

-----------------------------------------------------------------------------
\* The torrent that cleanup finds under the marker of the call.
BugOurs(c) == Torrent(c) # Absent
Ours(c) == Torrent(c).owner = c

Unclean(c, place) == call' = [call EXCEPT ![c].pc = place, ![c].unclean = TRUE]

Cleanup(c) ==
  /\ At(c, "cleanup")
  /\ \/ Ours(c) /\ Goto(c, "delete")
     \/ ~Ours(c) /\ Goto(c, "marker queue")
     \/ Unclean(c, "marker queue")
  /\ UNCHANGED <<torrents, marks, delayed, kills>>

\* The request names the infohash: whatever torrent has it is removed.
DeleteTorrent(c) ==
  /\ At(c, "delete")
  /\ \/ /\ torrents' = [torrents EXCEPT ![call[c].hash] = Absent]
        /\ Goto(c, "marker queue")
        /\ UNCHANGED delayed
     \/ /\ delayed' = delayed \cup {<<c, "delete">>}
        /\ Unclean(c, "marker queue")
        /\ UNCHANGED torrents
  /\ UNCHANGED <<marks, kills>>

\* _cleanup_marker asks for torrents under the marker before it is removed.
ListMarked(c) ==
  /\ At(c, "marker")
  /\ \/ /\ \A h \in Hashes : torrents[h].owner # c
        /\ Goto(c, "tags")
     \/ Finish(c, [call[c] EXCEPT !.unclean = TRUE])
  /\ UNCHANGED <<torrents, marks, delayed, kills>>

RemoveMarks(c) ==
  /\ At(c, "tags")
  /\ \/ /\ marks' = marks \ {c}
        /\ Finish(c, call[c])
     \/ /\ marks' \in {marks, marks \ {c}}
        /\ Finish(c, [call[c] EXCEPT !.unclean = TRUE])
  /\ UNCHANGED <<torrents, delayed, kills>>

BugInterrupted(x) ==
  IF x.pc \in {"poll", "files"} THEN [x EXCEPT !.cancelled = TRUE, !.pc = "cleanup"]
  ELSE IF x.pc \in {"add", "cleanup", "delete"} THEN [x EXCEPT !.cancelled = TRUE]
  ELSE [x EXCEPT !.cancelled = TRUE, !.pc = "done", !.result = "cancelled"]

\* Where a cancelled call goes on: adding and cleaning up are shielded.
Interrupted(x) ==
  IF x.pc \in {"poll", "files"} THEN [x EXCEPT !.cancelled = TRUE, !.pc = "cleanup"]
  ELSE IF x.pc \in {"add", "cleanup", "delete"} THEN [x EXCEPT !.cancelled = TRUE]
  ELSE IF x.pc \in {"marker queue", "marker", "tags"} THEN x
  ELSE [x EXCEPT !.cancelled = TRUE, !.pc = "done", !.result = "cancelled"]

Cancel(c) ==
  /\ call[c].pc \notin {"new"} \cup Ended
  /\ ~call[c].cancelled
  /\ call' = [call EXCEPT ![c] = Interrupted(call[c])]
  /\ UNCHANGED <<torrents, marks, delayed, kills>>

-----------------------------------------------------------------------------
CarryOutLate(c) ==
  \/ /\ <<c, "add">> \in delayed
     /\ CarryOutAdd(c)
     /\ delayed' = delayed \ {<<c, "add">>}
     /\ UNCHANGED <<call, kills>>
  \/ /\ <<c, "delete">> \in delayed
     /\ torrents' = [torrents EXCEPT ![call[c].hash] = Absent]
     /\ delayed' = delayed \ {<<c, "delete">>}
     /\ UNCHANGED <<marks, call, kills>>

Progress(h) ==
  /\ torrents[h].phase = "fetching"
  /\ \E p \in {"stopped", "downloading"} : torrents' = [torrents EXCEPT ![h].phase = p]
  /\ UNCHANGED <<marks, delayed, call, kills>>

UserActs(h) ==
  /\ \/ torrents[h] = Absent /\ torrents' = [torrents EXCEPT ![h] = Added(User)]
     \/ torrents[h].owner = User /\ torrents' = [torrents EXCEPT ![h] = Absent]
  /\ UNCHANGED <<marks, delayed, call, kills>>

Kill ==
  /\ kills < MaxKills
  /\ kills' = kills + 1
  /\ call' = [c \in Calls |-> IF call[c].pc \in {"new"} \cup Ended THEN call[c]
                              ELSE [call[c] EXCEPT !.pc = "dead"]]
  /\ UNCHANGED <<torrents, marks, delayed>>

Next ==
  \/ \E c \in Calls, h \in Hashes : Start(c, h)
  \/ \E c \in Calls :
       \/ Login(c) \/ Enter(c) \/ Guard(c) \/ Look(c) \/ PollExisting(c) \/ ReadExisting(c)
       \/ Add(c) \/ Poll(c) \/ ReadFiles(c) \/ Cleanup(c) \/ DeleteTorrent(c)
       \/ ListMarked(c) \/ RemoveMarks(c) \/ Cancel(c) \/ CarryOutLate(c)
  \/ \E h \in Hashes : Progress(h) \/ UserActs(h)
  \/ Kill

Spec == Init /\ [][Next]_fetchVars

-----------------------------------------------------------------------------
\* A call that ends, cancelled or not, with every cleanup request answered
\* has left neither a torrent nor a tag behind, unless the answer to its add
\* was lost (then the torrent may arrive after the cleanup).
NothingIsLeftBehind ==
  \A c \in Calls :
    (At(c, "done") /\ ~call[c].unclean /\ ~call[c].lost) =>
      c \notin marks /\ \A h \in Hashes : torrents[h].owner # c

\* A torrent of the user goes only by the user's own hand: neither a cleanup,
\* which removes by infohash, nor a removal that is carried out late hits it.
ForeignTorrentsStay ==
  \A h \in Hashes :
    (torrents[h].owner = User /\ torrents'[h].owner # User) =>
      call' = call /\ delayed' = delayed
=============================================================================
