------------------------------- MODULE AgentTokens -------------------------------
(***************************************************************************)
(* AgentTokenService (services/agent_tokens.py): create, pause, resume,    *)
(* revoke and rotate, and the audit records that each of them adds in the  *)
(* same transaction.                                                       *)
(*                                                                         *)
(* A request loads the row, changes the object, gives its audit record the *)
(* time of now and commits later; others may do so between.  The UPDATE    *)
(* writes the columns whose value differs from the loaded one.  The        *)
(* records are listed by their time (api/audit.py), and not in the order   *)
(* in which they were committed.                                           *)
(***************************************************************************)
EXTENDS Naturals, Sequences

CONSTANTS
  Owners,    \* concurrent requests
  MaxTokens, \* bound: tokens, numbered as they are created
  MaxStamps  \* bound: the records that are given a time

ASSUME MaxTokensAssumption == MaxTokens \in Nat \ {0}

VARIABLES
  token,  \* token[t]: the columns paused_at and revoked_at, as Booleans
  audit,  \* audit[t]: the records of its changes, in the order of their commits
  clock,  \* the latest time that a record was given
  caller, \* caller[c]: a request, the row it has loaded, the time of its record
  made    \* the number of tokens

tokenVars == <<token, audit, clock, caller, made>>

Tokens == 1..MaxTokens
Changes == {"paused", "resumed", "revoked", "rotated"}
TokenRows == [paused : BOOLEAN, revoked : BOOLEAN]
AuditRecords == [change : Changes, at : Nat]
Fresh == [paused |-> FALSE, revoked |-> FALSE]
Unstamped == 0
NoChange == [change |-> "none", token |-> 1, loaded |-> Fresh, at |-> Unstamped]

TokenTypeOK ==
  /\ token \in [Tokens -> TokenRows]
  /\ audit \in [Tokens -> Seq(AuditRecords)]
  /\ clock \in Nat
  /\ caller \in [Owners -> [change : Changes \cup {"none"}, token : Tokens,
                             loaded : TokenRows, at : Nat]]
  /\ made \in 0..MaxTokens

TokenInit ==
  /\ token = [t \in Tokens |-> Fresh]
  /\ audit = [t \in Tokens |-> <<>>]
  /\ clock = 0
  /\ caller = [c \in Owners |-> NoChange]
  /\ made = 0

\* The record that a token was created tells nothing of its columns and is left out.
CreateToken ==
  /\ made < MaxTokens
  /\ made' = made + 1
  /\ UNCHANGED <<token, audit, clock, caller>>

(***************************************************************************)
(* change_state and rotate refuse what the loaded row does not allow: only *)
(* a revocation may be repeated.                                           *)
(***************************************************************************)
Allowed(change, loaded) ==
  CASE change = "paused" -> ~loaded.revoked /\ ~loaded.paused
    [] change = "resumed" -> ~loaded.revoked /\ loaded.paused
    [] change = "revoked" -> TRUE
    [] change = "rotated" -> ~loaded.revoked

\* The object after the change.
After(change, row) ==
  CASE change = "paused" -> [row EXCEPT !.paused = TRUE]
    [] change = "resumed" -> [row EXCEPT !.paused = FALSE]
    [] change \in {"revoked", "rotated"} -> [row EXCEPT !.revoked = TRUE]

\* The database reads the row.
LoadToken(c, t, change) ==
  /\ caller[c] = NoChange
  /\ t <= made
  /\ Allowed(change, token[t])
  /\ caller' = [caller EXCEPT ![c] = [change |-> change, token |-> t, loaded |-> token[t],
                                      at |-> Unstamped]]
  /\ UNCHANGED <<token, audit, clock, made>>

\* The request goes on with it: _add_audit takes the time.
StampChange(c) ==
  /\ caller[c].change # "none"
  /\ caller[c].at = Unstamped
  /\ clock < MaxStamps
  /\ clock' = clock + 1
  /\ caller' = [caller EXCEPT ![c].at = clock']
  /\ UNCHANGED <<token, audit, made>>

\* A save of the whole object would undo what was committed meanwhile.
BugColumns(row, loaded, object) == object
Columns(row, loaded, object) ==
  [column \in DOMAIN row |->
     IF object[column] # loaded[column] THEN object[column] ELSE row[column]]

\* rotate: the successor is inserted in the transaction that revokes the token.
Replace(change) ==
  IF change = "rotated" THEN made < MaxTokens /\ made' = made + 1 ELSE UNCHANGED made

CommitChange(c) ==
  LET change == caller[c].change
      t == caller[c].token
      loaded == caller[c].loaded
  IN
  /\ change # "none" /\ caller[c].at # Unstamped
  /\ token' = [token EXCEPT ![t] = Columns(@, loaded, After(change, loaded))]
  /\ audit' = [audit EXCEPT ![t] = Append(@, [change |-> change, at |-> caller[c].at])]
  /\ Replace(change)
  /\ caller' = [caller EXCEPT ![c] = NoChange]
  /\ UNCHANGED clock

TokenStep ==
  \/ CreateToken
  \/ \E c \in Owners :
       \/ \E t \in Tokens, change \in Changes : LoadToken(c, t, change)
       \/ StampChange(c)
       \/ CommitChange(c)

TokenSpec == TokenInit /\ [][TokenStep]_tokenVars

-----------------------------------------------------------------------------
\* The records of some changes.
Of(records, changes) == {i \in DOMAIN records : records[i].change \in changes}

\* list_audit orders by time: a pause with no resumption after it.
ListedAsPaused(records) ==
  \E i \in Of(records, {"paused"}) :
    \A j \in Of(records, {"resumed"}) : records[j].at < records[i].at

\* Pauses and resumptions were committed in the order of their times.
InOrder(records) ==
  \A i, j \in Of(records, {"paused", "resumed"}) : i < j => records[i].at < records[j].at

(***************************************************************************)
(* The audit trail is what an owner has to trust, however the requests     *)
(* about a token interleave.  A token is revoked exactly when a record     *)
(* tells so: no request that has loaded it before takes that back.  Its    *)
(* records, as they are listed, tell whether it is paused, unless a        *)
(* request that was given its time earlier was committed later: then the   *)
(* trail may end with a resumption although the token is paused.           *)
(***************************************************************************)
AuditTellsTheState ==
  \A t \in Tokens :
    /\ token[t].revoked <=> Of(audit[t], {"revoked", "rotated"}) # {}
    /\ InOrder(audit[t]) => (token[t].paused <=> ListedAsPaused(audit[t]))
=============================================================================
