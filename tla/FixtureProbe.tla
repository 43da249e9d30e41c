---------------------------- MODULE FixtureProbe ----------------------------
(***************************************************************************)
(* The 115 fixture probe (adapters/p115_c03_fixture_probe.py): it makes a  *)
(* disposable tree of directories in the user's drive, renames and moves   *)
(* one of them there and back, lists after every write, and recycles the   *)
(* tree when every directory of it holds exactly what the probe put there. *)
(* Any doubt ends the run with everything left in place.                   *)
(*                                                                         *)
(* The user works in the same drive: guests are put into the tree, and     *)
(* parts of it are thrown away.  A write may take effect at once, after    *)
(* its answer or never, whatever the answer says.  The reports of single   *)
(* steps, the fingerprint and the environment gates, which block a run     *)
(* before its first call, are left out.                                    *)
(***************************************************************************)
EXTENDS Integers, Sequences

CONSTANTS
    Guests,     \* what the user puts into the tree
    PageCalls   \* the numbers of page requests a listing may take

VARIABLES
    remote,     \* what is where: [parent, name], or Gone
    late,       \* steps whose write has not taken effect and still may
    position,   \* [step, phase, dir, good, code] of the run
    writes, lists, reads,   \* the calls counted against the budget
    pages,      \* the page requests each listing of this run takes
    sent,       \* the recycling has been asked for
    early,      \* guests that were there before the cleanup began
    report      \* [status, cleanup, code], or Running

probeVars == <<remote, late, position, writes, lists, reads, pages, sent,
               early, report>>

-----------------------------------------------------------------------------
(* The fixture and the steps of the run.                                   *)

Manifest == [root       |-> [parent |-> "base", name |-> "root"],
             source     |-> [parent |-> "root", name |-> "source"],
             quarantine |-> [parent |-> "root", name |-> "quarantine"],
             artifact   |-> [parent |-> "root", name |-> "artifact"]]

Managed == <<"root", "source", "quarantine", "artifact">>

Write(op, file, parent, name) ==
    [op |-> op, file |-> file, parent |-> parent, name |-> name]

ProbeSteps == <<Write("mkdir", "root", "base", "root"),
           Write("mkdir", "source", "root", "source"),
           Write("mkdir", "quarantine", "root", "quarantine"),
           Write("mkdir", "artifact", "root", "artifact"),
           Write("rename", "source", "root", "source-isolated"),
           Write("move", "source", "quarantine", "source-isolated"),
           Write("rename", "source", "quarantine", "source-quarantined"),
           Write("move", "source", "root", "source-quarantined"),
           Write("rename", "source", "root", "source"),
           Write("recycle", "root", "base", "root")>>

Recycling == Len(ProbeSteps)
Step == ProbeSteps[position.step]

MaxWriteCalls == 10
BugMaxListCalls == 14
MaxListCalls == 15
MaxListPageCalls == 4
MaxReadCalls == MaxListCalls * MaxListPageCalls
MaxTotalCalls == MaxWriteCalls + MaxReadCalls

MayWrite == writes < MaxWriteCalls /\ writes + reads < MaxTotalCalls

MayList ==
    /\ lists < MaxListCalls
    /\ reads + MaxListPageCalls <= MaxReadCalls
    /\ writes + reads + MaxListPageCalls <= MaxTotalCalls

-----------------------------------------------------------------------------
(* The drive.                                                              *)

Gone == [parent |-> "nowhere", name |-> "nothing"]
Fixture == DOMAIN Manifest
FixtureObjects == Fixture \union Guests

Children(where, of) == {o \in FixtureObjects : where[o].parent \in of}

\* The tree is at most three deep: root, quarantine, source, a guest.
Inside(where, o) ==
    LET first == Children(where, {o})
        second == Children(where, first)
    IN  first \union second \union Children(where, second)

Without(where, o) ==
    [x \in FixtureObjects |-> IF x = o \/ x \in Inside(where, o) THEN Gone ELSE where[x]]

Exists(where, o) == o = "base" \/ where[o] # Gone

Effect(where, write) ==
    CASE write.op = "recycle" -> Without(where, write.file)
      [] write.op = "mkdir" ->
           IF Exists(where, write.parent)
           THEN [where EXCEPT ![write.file] = [parent |-> write.parent, name |-> write.name]]
           ELSE where
      [] write.op = "rename" ->
           IF Exists(where, write.file)
           THEN [where EXCEPT ![write.file].name = write.name]
           ELSE where
      [] write.op = "move" ->
           IF Exists(where, write.file) /\ Exists(where, write.parent)
           THEN [where EXCEPT ![write.file].parent = write.parent]
           ELSE where

Listing(dir) == {<<o, remote[o].name>> : o \in Children(remote, {dir})}
Expected(dir) ==
    {<<o, Manifest[o].name>> : o \in {x \in Fixture : Manifest[x].parent = dir}}

Lies(file, dir, name) == <<file, name>> \in Listing(dir)

BugScopeHolds(dir) == Expected(dir) \subseteq Listing(dir)
ScopeHolds(dir) == Listing(dir) = Expected(dir)

-----------------------------------------------------------------------------
(* The run.                                                                *)

Running == [status |-> "running", cleanup |-> "not_attempted", code |-> "none"]
At(step, phase) ==
    [step |-> step, phase |-> phase, dir |-> 1, good |-> TRUE, code |-> "none"]

Init ==
    /\ remote = [o \in FixtureObjects |-> Gone]
    /\ late = {} /\ early = {}
    /\ position = At(1, "write")
    /\ writes = 0 /\ lists = 0 /\ reads = 0
    /\ pages \in PageCalls
    /\ sent = FALSE
    /\ report = Running

\* _ProbeHalt or CancelledError: nothing more is done; the cleanup counts as
\* not attempted unless the recycling has been asked for.
Halt(code, asked) ==
    report' = [status |-> "uncertain", code |-> code,
               cleanup |-> IF asked THEN "uncertain" ELSE "not_attempted_uncertain"]

Is(phase) == report = Running /\ position.phase = phase

Codes == {"other", "cancelled"}
Settle(when) ==
    /\ remote' = IF when = "now" THEN Effect(remote, Step) ELSE remote
    /\ late' = IF when = "late" THEN late \union {position.step} ELSE late

\* The limits of _write, and a deadline that has passed: no call is made.
WriteRefused ==
    /\ Is("write")
    /\ \/ ~MayWrite /\ Halt("limit", sent) /\ UNCHANGED writes
       \/ MayWrite /\ Halt("other", sent) /\ writes' = writes + 1
    /\ UNCHANGED <<remote, late, position, lists, reads, pages, sent, early>>

\* The transport raises, runs out of time or is cancelled: a rename and a move
\* are looked up once for the report, and the run ends either way.
WriteFails ==
    /\ Is("write") /\ MayWrite
    /\ writes' = writes + 1
    /\ sent' = (position.step = Recycling)
    /\ \E when \in {"now", "late", "never"} : Settle(when)
    /\ \E code \in Codes :
          IF Step.op \in {"rename", "move"}
          THEN /\ position' = [position EXCEPT !.phase = "best_effort", !.code = code]
               /\ UNCHANGED report
          ELSE Halt(code, sent') /\ UNCHANGED position
    /\ UNCHANGED <<lists, reads, pages, early>>

\* A receipt; a directory without a usable id, and a recycling that is not a
\* success, end the run.
WriteAnswered ==
    /\ Is("write") /\ MayWrite
    /\ writes' = writes + 1
    /\ sent' = (position.step = Recycling)
    /\ \E when \in {"now", "late", "never"} : Settle(when)
    /\ \E good, usable \in BOOLEAN :
          IF (Step.op = "mkdir" /\ ~usable) \/ (Step.op = "recycle" /\ ~good)
          THEN Halt("other", sent') /\ UNCHANGED position
          ELSE /\ position' = [position EXCEPT !.good = good,
                                 !.phase = IF Step.op = "recycle" THEN "confirm" ELSE "verify"]
               /\ UNCHANGED report
    /\ UNCHANGED <<lists, reads, pages, early>>

Listed == {"verify", "best_effort", "find", "scope", "confirm"}
ListedPlace ==
    CASE position.phase \in {"verify", "best_effort"} -> Step.parent
      [] position.phase \in {"find", "confirm"} -> "base"
      [] position.phase = "scope" -> Managed[position.dir]
      [] position.phase = "write" -> "none"

HaltedCode(code) == IF position.phase = "best_effort" THEN position.code ELSE code

\* _list_children does not get a whole listing: a limit, an error, a timeout or
\* a cancel, or pages that do not add up to the directory.
ListFails ==
    /\ report = Running /\ position.phase \in Listed
    /\ \/ /\ ~MayList
          /\ Halt(HaltedCode("limit"), sent)
          /\ UNCHANGED <<lists, reads>>
       \/ /\ MayList
          /\ lists' = lists + 1
          /\ \E taken \in {pages, MaxListPageCalls} : reads' = reads + taken
          /\ \E code \in Codes : Halt(HaltedCode(code), sent)
    /\ UNCHANGED <<remote, late, position, writes, pages, sent, early>>

Lists(next) ==
    /\ report = Running
    /\ MayList
    /\ lists' = lists + 1
    /\ reads' = reads + pages
    /\ \/ next # position /\ position' = next /\ UNCHANGED report
       \/ next = position /\ Halt(HaltedCode("other"), sent) /\ UNCHANGED position
    /\ UNCHANGED <<remote, late, writes, pages, sent>>

Following ==
    At(position.step + 1, IF position.step + 1 = Recycling THEN "find" ELSE "write")

\* _verify: the entry lies where the write should have put it.
Verify ==
    /\ Is("verify")
    /\ Lists(IF Lies(Step.file, Step.parent, Step.name) /\ position.good
             THEN Following ELSE position)
    /\ early' = IF position'.phase = "find"
                THEN {g \in Guests : remote[g] # Gone} ELSE early

BestEffort == Is("best_effort") /\ Lists(position) /\ UNCHANGED early

\* _cleanup: the root is where it was made,
Find ==
    /\ Is("find")
    /\ Lists(IF Lies("root", "base", "root") THEN At(Recycling, "scope") ELSE position)
    /\ UNCHANGED early

\* and every directory of the tree holds what the manifest says,
Scope ==
    /\ Is("scope")
    /\ Lists(IF ~ScopeHolds(Managed[position.dir]) THEN position
             ELSE IF position.dir < Len(Managed)
                  THEN [position EXCEPT !.dir = position.dir + 1]
                  ELSE At(Recycling, "write"))
    /\ UNCHANGED early

\* and after the recycling the root is not there any more.
Confirm ==
    /\ Is("confirm") /\ MayList
    /\ lists' = lists + 1
    /\ reads' = reads + pages
    /\ IF \E entry \in Listing("base") : entry[1] = "root"
       THEN Halt("other", sent)
       ELSE report' = [status |-> "success", cleanup |-> "complete", code |-> "none"]
    /\ UNCHANGED <<remote, late, position, writes, pages, sent, early>>

-----------------------------------------------------------------------------
(* The drive and its user.                                                 *)

Land ==
    /\ \E k \in late :
          /\ remote' = Effect(remote, ProbeSteps[k])
          /\ late' = late \ {k}
    /\ UNCHANGED <<position, writes, lists, reads, pages, sent, early, report>>

PutGuest ==
    /\ \E g \in Guests, dir \in Fixture :
          /\ remote[g] = Gone /\ remote[dir] # Gone
          /\ remote' = [remote EXCEPT ![g] = [parent |-> dir, name |-> "guest"]]
    /\ UNCHANGED <<late, position, writes, lists, reads, pages, sent, early, report>>

ThrowAway ==
    /\ \E o \in Fixture :
          /\ remote[o] # Gone
          /\ Inside(remote, o) \intersect Guests = {}
          /\ remote' = Without(remote, o)
    /\ UNCHANGED <<late, position, writes, lists, reads, pages, sent, early, report>>

ProbeStep ==
    \/ WriteRefused \/ WriteFails \/ WriteAnswered
    \/ ListFails \/ Verify \/ BestEffort \/ Find \/ Scope \/ Confirm

Next == ProbeStep \/ Land \/ PutGuest \/ ThrowAway

Spec == Init /\ [][Next]_probeVars

-----------------------------------------------------------------------------
(* Properties.                                                             *)

Places == {"base", "nowhere"} \union Fixture

TypeOK ==
    /\ remote \in [FixtureObjects ->
                     [parent : Places,
                      name : {"nothing", "guest"} \union
                             {ProbeSteps[i].name : i \in 1..Len(ProbeSteps)}]]
    /\ late \subseteq 1..Len(ProbeSteps)
    /\ position.step \in 1..Len(ProbeSteps) /\ position.dir \in 1..Len(Managed)
    /\ position.phase \in Listed \union {"write"}
    /\ writes \in 0..MaxWriteCalls /\ lists \in 0..MaxListCalls
    /\ reads \in 0..MaxReadCalls
    /\ report.status \in {"running", "uncertain", "success"}

\* A run that reports success has left nothing behind: no directory of the
\* fixture is there and no write that could make one is still under way; and a run that
\* reports its cleanup as not attempted has recycled nothing.
FixtureIsGone ==
    /\ report.status = "success" =>
          /\ \A o \in Fixture : remote[o] = Gone
          /\ late \subseteq {Recycling}
    /\ report.cleanup = "not_attempted_uncertain" => ~sent

\* What the user put into the tree before the cleanup began is never recycled
\* with it, however the run ends.
GuestsSurvive == \A g \in early : remote[g] # Gone

\* The limits on calls, which a run with every listing at its largest meets
\* exactly, end no run.
LimitsSuffice == report.code # "limit"

\* The probe cleans up after itself and nothing else.
ProbeIsTidy == FixtureIsGone /\ GuestsSurvive /\ LimitsSuffice
=============================================================================
