---------------------------- MODULE CredentialRuntime ----------------------------
(***************************************************************************)
(* The settings row and what runs on it: CredentialService                 *)
(* (services/credentials.py), the other writers of the row                 *)
(* (services/settings.py) and the runtime of the push worker               *)
(* (apply_p115_runtime in app.py), with 115 enabled.                       *)
(*                                                                         *)
(* A change of the 115 cookie checks the revision, asks 115, checks the    *)
(* revision again and commits; then it makes the running process follow.   *)
(* From the commit on, a cancelled request is carried to its end.          *)
(***************************************************************************)
EXTENDS Naturals, FiniteSets

CONSTANTS
  Admins,     \* concurrent requests
  Cookies,    \* what a person may enter
  FileCookie, \* what the file of TgtoDrive holds, if it is there
  NoCookie,
  MaxChanges, \* bound: the revision of the row
  MaxStops    \* bound: how often the process stops

VARIABLES
  row,      \* the settings: [revision, cookie, readable, other]; readable: the
            \* process that runs has the key of the stored cookie
  file,     \* whether the file of TgtoDrive can be read
  managed,  \* the cookie in CompositeCookieProvider
  ready,    \* app.state.p115_ready
  worker,   \* whether a TaskWorker runs
  admin,    \* admin[a]: a request
  lock,     \* who holds _operation_lock
  refused,  \* the cookies that 115 rejects
  lives     \* how often the process was started

credentialVars == <<row, file, managed, ready, worker, admin, lock, refused, lives>>

Idle == [pc |-> "idle", value |-> NoCookie, seen |-> [revision |-> 0], ready |-> FALSE]
Nobody == "nobody"

TypeOK ==
  /\ row.revision \in 0..MaxChanges
  /\ row.cookie \in Cookies \cup {NoCookie} /\ row.readable \in BOOLEAN
  /\ row.other \in Nat
  /\ {file, ready, worker} \subseteq BOOLEAN
  /\ managed \in Cookies \cup {NoCookie}
  /\ \A a \in Admins :
       /\ admin[a].pc \in {"idle", "lock", "assert", "validate", "commit", "apply",
                           "fallback", "available", "runtime"}
       /\ admin[a].value \in Cookies \cup {NoCookie}
  /\ lock \in Admins \cup {Nobody}
  /\ refused \subseteq Cookies \cup {FileCookie}
  /\ lives \in 1..MaxStops + 1

\* What a request uses: CompositeCookieProvider.load.
Active == IF managed # NoCookie THEN managed ELSE IF file THEN FileCookie ELSE NoCookie

\* ensure_available builds the client without a remote call; that may fail.
Available == IF Active = NoCookie THEN {FALSE} ELSE BOOLEAN

\* lifespan: load_managed, then readiness, then the worker.
Start(cookie) ==
  /\ managed' = cookie
  /\ ready' \in IF cookie = NoCookie /\ ~file THEN {FALSE} ELSE BOOLEAN
  /\ worker' = ready'

Init ==
  /\ row = [revision |-> 0, cookie |-> NoCookie, readable |-> TRUE, other |-> 0]
  /\ file \in BOOLEAN
  /\ managed = NoCookie
  /\ ready \in Available
  /\ worker = ready
  /\ admin = [a \in Admins |-> Idle]
  /\ lock = Nobody
  /\ refused \in SUBSET (Cookies \cup {FileCookie})
  /\ lives = 1

Goto(a, label) == admin' = [admin EXCEPT ![a].pc = label]
Finish(a) == admin' = [admin EXCEPT ![a] = Idle] /\ lock' = Nobody

(***************************************************************************)
(* A request to store the value, or to reset if there is none.  The        *)
(* revision is the one of the snapshot that the person looks at.           *)
(***************************************************************************)
Request(a, value) ==
  /\ admin[a] = Idle
  /\ row.revision < MaxChanges
  /\ admin' = [admin EXCEPT ![a] = [Idle EXCEPT !.pc = "lock", !.value = value, !.seen = row]]
  /\ UNCHANGED <<row, file, managed, ready, worker, lock, refused, lives>>

Acquire(a) ==
  /\ admin[a].pc = "lock"
  /\ lock = Nobody
  /\ lock' = a
  /\ Goto(a, IF admin[a].value = NoCookie THEN "commit" ELSE "assert")
  /\ UNCHANGED <<row, file, managed, ready, worker, refused, lives>>

AssertRevision(a) ==
  /\ admin[a].pc = "assert"
  /\ IF row.revision # admin[a].seen.revision
     THEN Finish(a)
     ELSE Goto(a, "validate") /\ UNCHANGED lock
  /\ UNCHANGED <<row, file, managed, ready, worker, refused, lives>>

\* 115 accepts the value, rejects it, or does not answer in time.
Validate(a) ==
  /\ admin[a].pc = "validate"
  /\ \/ admin[a].value \notin refused /\ Goto(a, "commit") /\ UNCHANGED lock
     \/ Finish(a)
  /\ UNCHANGED <<row, file, managed, ready, worker, refused, lives>>

\* Without the second check, the row may have changed during the validation.
BugCurrent(a) == admin[a].value # NoCookie \/ row.revision = admin[a].seen.revision
Current(a) == row.revision = admin[a].seen.revision

Commit(a) ==
  /\ admin[a].pc = "commit"
  /\ IF Current(a)
     THEN /\ row.revision < MaxChanges
          /\ row' = [row EXCEPT !.cookie = admin[a].value, !.readable = TRUE,
                                !.revision = @ + 1]
          /\ Goto(a, "apply") /\ UNCHANGED lock
     ELSE Finish(a) /\ UNCHANGED row
  /\ UNCHANGED <<file, managed, ready, worker, refused, lives>>

\* _apply_p115_runtime.  After a reset, the file has to pass the validation.
ApplyCookie(a) ==
  /\ admin[a].pc = "apply"
  /\ managed' = admin[a].value
  /\ Goto(a, IF admin[a].value # NoCookie THEN "available"
             ELSE IF file THEN "fallback" ELSE "runtime")
  /\ UNCHANGED <<row, file, ready, worker, lock, refused, lives>>

ValidateFallback(a) ==
  /\ admin[a].pc = "fallback"
  /\ \/ FileCookie \notin refused /\ Goto(a, "available")
     \/ Goto(a, "runtime")
  /\ UNCHANGED <<row, file, managed, ready, worker, lock, refused, lives>>

EnsureAvailable(a) ==
  /\ admin[a].pc = "available"
  /\ \E found \in Available :
       admin' = [admin EXCEPT ![a].pc = "runtime", ![a].ready = found]
  /\ UNCHANGED <<row, file, managed, ready, worker, lock, refused, lives>>

\* _set_p115_runtime and the callback of the application: the worker stops,
\* or starts after its recovery, which may fail.
SetRuntime(a) ==
  /\ admin[a].pc = "runtime"
  /\ \/ ready' = admin[a].ready
     \/ admin[a].ready /\ ~worker /\ ready' = FALSE
  /\ worker' = ready'
  /\ Finish(a)
  /\ UNCHANGED <<row, file, managed, refused, lives>>

(***************************************************************************)
(* The client goes away.  _commit_uncancellable and _finish_after_commit   *)
(* shield what begins with the commit.                                     *)
(***************************************************************************)
BugCancellable(a) == admin[a].pc # "idle"
Cancellable(a) == admin[a].pc \in {"lock", "assert", "validate", "commit"}

CancelRequest(a) ==
  /\ Cancellable(a)
  /\ admin' = [admin EXCEPT ![a] = Idle]
  /\ lock' = IF lock = a THEN Nobody ELSE lock
  /\ UNCHANGED <<row, file, managed, ready, worker, refused, lives>>

\* update_logging, update_content_policy and update_inspection share the row
\* and its revision; they check and commit under _mutation_lock alone.
UpdateSettings ==
  /\ row.revision < MaxChanges
  /\ row' = [row EXCEPT !.other = @ + 1, !.revision = @ + 1]
  /\ UNCHANGED <<file, managed, ready, worker, admin, lock, refused, lives>>

FileChanges ==
  /\ file' = ~file
  /\ UNCHANGED <<row, managed, ready, worker, admin, lock, refused, lives>>

\* _decrypt: a secret that the key of this process does not open counts as none.
Decrypted(settings) == IF settings.readable THEN settings.cookie ELSE NoCookie

\* The process comes back with the key of the stored cookie or with another one.
Restart ==
  /\ lives <= MaxStops
  /\ lives' = lives + 1
  /\ \E readable \in BOOLEAN : row' = [row EXCEPT !.readable = readable]
  /\ Start(Decrypted(row'))
  /\ admin' = [a \in Admins |-> Idle]
  /\ lock' = Nobody
  /\ UNCHANGED <<file, refused>>

Next ==
  \/ \E a \in Admins :
       \/ \E value \in Cookies \cup {NoCookie} : Request(a, value)
       \/ Acquire(a) \/ AssertRevision(a) \/ Validate(a) \/ Commit(a)
       \/ ApplyCookie(a) \/ ValidateFallback(a) \/ EnsureAvailable(a)
       \/ SetRuntime(a) \/ CancelRequest(a)
  \/ UpdateSettings \/ FileChanges \/ Restart

Spec == Init /\ [][Next]_credentialVars

(***************************************************************************)
(* Whatever is cancelled, refused or restarted, when no change is under    *)
(* way the process uses the cookie that is stored, if it has the key to    *)
(* it, and the push worker runs exactly when the application says that 115 *)
(* is ready.                                                               *)
(***************************************************************************)
RuntimeFollowsStore ==
  lock = Nobody => managed = Decrypted(row) /\ worker = ready

(***************************************************************************)
(* A change is committed only onto the very settings that its author saw,  *)
(* although 115 is asked in between and other settings of the same row are *)
(* changed without the lock of the credentials.                            *)
(***************************************************************************)
ChangeSawTheSettings ==
  \A a \in Admins : admin[a].pc = "commit" /\ admin'[a].pc = "apply"
                       => row = admin[a].seen
=============================================================================
