----------------------------- MODULE ServicesProofs -----------------------------
(***************************************************************************)
(* Theorems about the smaller services: AgentTokens, the review of plans   *)
(* in OrganizationPlanReview without refresh_plan, Backups,                *)
(* CredentialRuntime and SharedRecords.  They hold for any number of       *)
(* requests, callers, plans and backups.  The last part is about           *)
(* ServicesSpec, which runs each of the components of MCServices as its    *)
(* own specification does.                                                 *)
(***************************************************************************)
EXTENDS MCServices, ListsProofs, ResourcesProofs,
        FiniteSetTheorems, WellFoundedInduction, TLAPS

(***************************************************************************)
(* Agent tokens.                                                           *)
(***************************************************************************)
\* What a request has loaded allows its change.
LoadedAllows ==
  \A c \in Owners :
    caller[c].change # "none" => Allowed(caller[c].change, caller[c].loaded)

\* A revocation that a request has seen has not been taken back.
RevocationsStay ==
  \A c \in Owners : caller[c].loaded.revoked => token[caller[c].token].revoked

\* The last pause or resumption that was committed.
CommittedAsPaused(records) ==
  \E i \in Of(records, {"paused"}) : \A j \in Of(records, {"resumed"}) : j < i

\* In the order of their commits the records tell the columns of the token.
CommitsTellTheState ==
  \A t \in Tokens :
    /\ token[t].revoked <=> Of(audit[t], {"revoked", "rotated"}) # {}
    /\ token[t].paused <=> CommittedAsPaused(audit[t])

TokenInvariant ==
  TokenTypeOK /\ LoadedAllows /\ RevocationsStay /\ CommitsTellTheState

-----------------------------------------------------------------------------
\* The object after a change is a row.
LEMMA AfterIsRow ==
  ASSUME NEW change \in Changes, NEW row \in TokenRows
  PROVE  After(change, row) \in TokenRows
BY DEF After, Changes, TokenRows

\* The UPDATE writes a row.
LEMMA ColumnsIsRow ==
  ASSUME NEW row \in TokenRows, NEW loaded \in TokenRows, NEW object \in TokenRows
  PROVE  Columns(row, loaded, object) \in TokenRows
<1>1. Columns(row, loaded, object) =
        [column \in {"paused", "revoked"} |->
           IF object[column] # loaded[column] THEN object[column] ELSE row[column]]
  BY DEF Columns, TokenRows
<1> QED BY <1>1 DEF TokenRows

\* An allowed change has, on a row that has kept the revocation that was loaded,
\* the effect that it has on the loaded one.
LEMMA ChangeHasItsEffect ==
  ASSUME NEW change \in Changes, NEW row \in TokenRows, NEW loaded \in TokenRows,
         Allowed(change, loaded), loaded.revoked => row.revoked
  PROVE  /\ Columns(row, loaded, After(change, loaded)) = After(change, row)
         /\ row.revoked => After(change, row).revoked
<1> DEFINE object == After(change, loaded)
           written == Columns(row, loaded, object)
<1>1. /\ written \in TokenRows /\ After(change, row) \in TokenRows /\ object \in TokenRows
  BY AfterIsRow, ColumnsIsRow
<1>2. /\ written.paused = (IF object.paused # loaded.paused THEN object.paused ELSE row.paused)
      /\ written.revoked =
           (IF object.revoked # loaded.revoked THEN object.revoked ELSE row.revoked)
  BY <1>1 DEF Columns, TokenRows
<1>3. /\ written.paused = After(change, row).paused
      /\ written.revoked = After(change, row).revoked
  <2>1. CASE change = "paused"
    BY <2>1, <1>2 DEF Allowed, After, TokenRows
  <2>2. CASE change = "resumed"
    BY <2>2, <1>2 DEF Allowed, After, TokenRows
  <2>3. CASE change \in {"revoked", "rotated"}
    BY <2>3, <1>2 DEF Allowed, After, TokenRows
  <2> QED BY <2>1, <2>2, <2>3 DEF Changes
<1>4. written = After(change, row)
  BY <1>1, <1>3 DEF TokenRows
<1>5. row.revoked => After(change, row).revoked
  BY DEF After, Changes, TokenRows
<1> QED BY <1>4, <1>5

-----------------------------------------------------------------------------
\* One more entry.
LEMMA OneMoreRecord ==
  ASSUME NEW records \in Seq(AuditRecords), NEW entry \in AuditRecords, NEW changes
  PROVE  /\ Append(records, entry) \in Seq(AuditRecords)
         /\ Len(records) \in Nat /\ Of(records, changes) \subseteq 1..Len(records)
         /\ Of(Append(records, entry), changes)
              = Of(records, changes) \cup
                  (IF entry.change \in changes THEN {Len(records) + 1} ELSE {})
<1> DEFINE more == Append(records, entry)
<1>1. /\ more \in Seq(AuditRecords) /\ Len(more) = Len(records) + 1 /\ Len(records) \in Nat
      /\ DOMAIN records = 1..Len(records) /\ DOMAIN more = 1..Len(records) + 1
      /\ \A i \in 1..Len(records) : more[i] = records[i]
      /\ more[Len(records) + 1] = entry
  OBVIOUS
<1> HIDE DEF more
<1>2. Of(records, changes) \subseteq 1..Len(records)
  BY <1>1 DEF Of
<1>3. Of(more, changes)
        = Of(records, changes) \cup
            (IF entry.change \in changes THEN {Len(records) + 1} ELSE {})
  BY <1>1 DEF Of
<1> QED BY <1>1, <1>2, <1>3 DEF more

\* The entry of a change tells what the change does to the columns.
LEMMA RecordTellsTheChange ==
  ASSUME NEW records \in Seq(AuditRecords), NEW entry \in AuditRecords, NEW row \in TokenRows,
         row.revoked <=> Of(records, {"revoked", "rotated"}) # {},
         row.paused <=> CommittedAsPaused(records)
  PROVE  LET now == After(entry.change, row)
             more == Append(records, entry)
         IN  /\ now.revoked <=> Of(more, {"revoked", "rotated"}) # {}
             /\ now.paused <=> CommittedAsPaused(more)
<1> DEFINE now == After(entry.change, row)
           more == Append(records, entry)
           n == Len(records)
<1>1. /\ n \in Nat
      /\ Of(records, {"paused"}) \subseteq 1..n /\ Of(records, {"resumed"}) \subseteq 1..n
      /\ Of(more, {"paused"}) =
           Of(records, {"paused"}) \cup (IF entry.change = "paused" THEN {n + 1} ELSE {})
      /\ Of(more, {"resumed"}) =
           Of(records, {"resumed"}) \cup (IF entry.change = "resumed" THEN {n + 1} ELSE {})
      /\ Of(more, {"revoked", "rotated"}) =
           Of(records, {"revoked", "rotated"}) \cup
             (IF entry.change \in {"revoked", "rotated"} THEN {n + 1} ELSE {})
  BY OneMoreRecord
<1> HIDE DEF more, n
<1>2. entry.change \in Changes
  BY DEF AuditRecords
<1>3. CASE entry.change = "paused"
  <2>1. now.paused /\ now.revoked = row.revoked
    BY <1>3 DEF After, TokenRows
  <2>2. CommittedAsPaused(more)
    <3>1. n + 1 \in Of(more, {"paused"})
      BY <1>1, <1>3
    <3>2. \A j \in Of(more, {"resumed"}) : j < n + 1
      <4>1. \A j \in 1..n : j < n + 1
        BY <1>1
      <4>2. Of(more, {"resumed"}) \subseteq 1..n
        BY <1>1, <1>3
      <4> QED BY <4>1, <4>2
    <3> QED BY <3>1, <3>2 DEF CommittedAsPaused
  <2> QED BY <1>1, <1>3, <2>1, <2>2 DEF more
<1>4. CASE entry.change = "resumed"
  <2>1. ~now.paused /\ now.revoked = row.revoked
    BY <1>4 DEF After, TokenRows
  <2>2. ~CommittedAsPaused(more)
    <3>1. n + 1 \in Of(more, {"resumed"})
      BY <1>1, <1>4
    <3>2. \A i \in Of(more, {"paused"}) : ~(n + 1 < i)
      <4>1. \A i \in 1..n : ~(n + 1 < i)
        BY <1>1
      <4>2. Of(more, {"paused"}) \subseteq 1..n
        BY <1>1, <1>4
      <4> QED BY <4>1, <4>2
    <3> QED BY <3>1, <3>2 DEF CommittedAsPaused
  <2> QED BY <1>1, <1>4, <2>1, <2>2 DEF more
<1>5. CASE entry.change \in {"revoked", "rotated"}
  <2>1. now.revoked /\ now.paused = row.paused
    BY <1>5 DEF After, TokenRows
  <2>2. CommittedAsPaused(more) <=> CommittedAsPaused(records)
    BY <1>1, <1>5 DEF CommittedAsPaused
  <2> QED BY <1>1, <1>5, <2>1, <2>2 DEF more
<1> QED BY <1>2, <1>3, <1>4, <1>5 DEF Changes, more

\* Records that were committed in the order of their times are listed as committed.
LEMMA ListedAsCommitted ==
  ASSUME NEW records \in Seq(AuditRecords), InOrder(records)
  PROVE  CommittedAsPaused(records) <=> ListedAsPaused(records)
<1>1. ASSUME NEW i \in Of(records, {"paused"}), NEW j \in Of(records, {"resumed"})
      PROVE  j < i <=> records[j].at < records[i].at
  <2>1. /\ i \in Nat /\ j \in Nat /\ i # j
        /\ records[i].at \in Nat /\ records[j].at \in Nat
    <3>1. DOMAIN records \subseteq Nat /\ \A k \in DOMAIN records : records[k] \in AuditRecords
      OBVIOUS
    <3>2. /\ i \in DOMAIN records /\ j \in DOMAIN records
          /\ records[i].change = "paused" /\ records[j].change = "resumed"
      BY DEF Of
    <3> QED BY <3>1, <3>2 DEF AuditRecords
  <2>2. /\ i < j => records[i].at < records[j].at
        /\ j < i => records[j].at < records[i].at
    BY DEF InOrder, Of
  <2> QED BY <2>1, <2>2
<1> QED BY <1>1 DEF CommittedAsPaused, ListedAsPaused

-----------------------------------------------------------------------------
\* At the start every token is in use, and no request has loaded one.
LEMMA TokensBegin == TokenInit => TokenInvariant
<1>1. /\ 1 \in Tokens /\ NoChange.change = "none" /\ ~NoChange.loaded.revoked
      /\ NoChange.loaded \in TokenRows /\ NoChange.at \in Nat /\ NoChange.token \in Tokens
  BY MaxTokensAssumption DEF Tokens, NoChange, Fresh, TokenRows, Unstamped
<1>2. TokenInit => TokenTypeOK
  BY <1>1, MaxTokensAssumption DEF TokenInit, TokenTypeOK, Fresh, TokenRows, NoChange
<1>3. TokenInit => CommitsTellTheState
  BY DEF TokenInit, CommitsTellTheState, CommittedAsPaused, Of, Fresh
<1> QED
  BY <1>1, <1>2, <1>3 DEF TokenInit, TokenInvariant, LoadedAllows, RevocationsStay

\* Creating a token touches no row that a request may have loaded.
LEMMA CreateKeepsTokens ==
  ASSUME TokenInvariant, CreateToken
  PROVE  TokenInvariant'
<1>1. /\ UNCHANGED <<token, audit, clock, caller>> /\ made' \in 0..MaxTokens
  BY MaxTokensAssumption DEF CreateToken, TokenInvariant, TokenTypeOK
<1> QED
  BY <1>1 DEF TokenInvariant, TokenTypeOK, LoadedAllows, RevocationsStay,
              CommitsTellTheState, Allowed

\* A request that loads a row sees it as it is.
LEMMA LoadKeepsTokens ==
  ASSUME TokenInvariant, NEW c \in Owners, NEW t \in Tokens, NEW change \in Changes,
         LoadToken(c, t, change)
  PROVE  TokenInvariant'
<1> USE DEF TokenInvariant, LoadToken
<1>1. TokenTypeOK'
  BY DEF TokenTypeOK, Unstamped
<1>2. LoadedAllows'
  BY DEF TokenTypeOK, LoadedAllows, Allowed
<1>3. RevocationsStay'
  BY DEF TokenTypeOK, RevocationsStay
<1>4. CommitsTellTheState'
  BY DEF CommitsTellTheState
<1> QED BY <1>1, <1>2, <1>3, <1>4

\* The time of a entry is only that of its request.
LEMMA StampKeepsTokens ==
  ASSUME TokenInvariant, NEW c \in Owners, StampChange(c)
  PROVE  TokenInvariant'
<1>1. /\ clock' \in Nat /\ caller' = [caller EXCEPT ![c].at = clock']
      /\ UNCHANGED <<token, audit, made>>
  BY DEF StampChange, TokenInvariant, TokenTypeOK
<1>2. \A d \in Owners : /\ caller'[d].change = caller[d].change
                        /\ caller'[d].token = caller[d].token
                        /\ caller'[d].loaded = caller[d].loaded
  BY <1>1 DEF TokenInvariant, TokenTypeOK
<1>3. TokenTypeOK'
  BY <1>1 DEF TokenInvariant, TokenTypeOK
<1>4. LoadedAllows' /\ RevocationsStay' /\ CommitsTellTheState'
  BY <1>1, <1>2 DEF TokenInvariant, LoadedAllows, RevocationsStay, CommitsTellTheState,
                    Allowed
<1> QED BY <1>3, <1>4 DEF TokenInvariant

\* The commit is where a request that has seen less than is true might undo it.
LEMMA CommitKeepsTokens ==
  ASSUME TokenInvariant, NEW c \in Owners, CommitChange(c)
  PROVE  TokenInvariant'
<1> DEFINE change == caller[c].change
           t == caller[c].token
           loaded == caller[c].loaded
           entry == [change |-> change, at |-> caller[c].at]
<1>1. /\ change \in Changes /\ t \in Tokens /\ loaded \in TokenRows
      /\ token[t] \in TokenRows /\ audit[t] \in Seq(AuditRecords) /\ entry \in AuditRecords
      /\ entry.change = change
  BY DEF CommitChange, TokenInvariant, TokenTypeOK, AuditRecords
<1>2. /\ Allowed(change, loaded) /\ (loaded.revoked => token[t].revoked)
      /\ token[t].revoked <=> Of(audit[t], {"revoked", "rotated"}) # {}
      /\ token[t].paused <=> CommittedAsPaused(audit[t])
  BY <1>1 DEF CommitChange, TokenInvariant, LoadedAllows, RevocationsStay,
              CommitsTellTheState
<1>3. /\ Columns(token[t], loaded, After(change, loaded)) = After(change, token[t])
      /\ token[t].revoked => After(change, token[t]).revoked
      /\ After(change, token[t]) \in TokenRows
  BY <1>1, <1>2, ChangeHasItsEffect, AfterIsRow
<1>4. /\ token' = [token EXCEPT ![t] = After(change, token[t])]
      /\ audit' = [audit EXCEPT ![t] = Append(audit[t], entry)]
      /\ caller' = [caller EXCEPT ![c] = NoChange]
      /\ made' = made \/ (made < MaxTokens /\ made' = made + 1)
      /\ UNCHANGED clock
  BY <1>1, <1>3 DEF CommitChange, Replace
<1>5. Append(audit[t], entry) \in Seq(AuditRecords)
  BY <1>1
<1> HIDE DEF change, t, loaded, entry
<1>6. TokenTypeOK'
  BY <1>1, <1>3, <1>4, <1>5, MaxTokensAssumption
  DEF TokenInvariant, TokenTypeOK, Tokens, NoChange, Fresh, TokenRows, Unstamped
<1>7. LoadedAllows'
  BY <1>4 DEF TokenInvariant, TokenTypeOK, LoadedAllows, NoChange, Allowed
<1>8. RevocationsStay'
  BY <1>1, <1>3, <1>4 DEF TokenInvariant, TokenTypeOK, RevocationsStay, NoChange, Fresh
<1>9. CommitsTellTheState'
  <2>1. /\ After(change, token[t]).revoked
             <=> Of(Append(audit[t], entry), {"revoked", "rotated"}) # {}
        /\ After(change, token[t]).paused <=> CommittedAsPaused(Append(audit[t], entry))
    BY <1>1, <1>2, RecordTellsTheChange
  <2>2. \A u \in Tokens :
          /\ token'[u] = IF u = t THEN After(change, token[t]) ELSE token[u]
          /\ audit'[u] = IF u = t THEN Append(audit[t], entry) ELSE audit[u]
    BY <1>4 DEF TokenInvariant, TokenTypeOK
  <2> QED BY <2>1, <2>2 DEF TokenInvariant, CommitsTellTheState
<1> QED BY <1>6, <1>7, <1>8, <1>9 DEF TokenInvariant

-----------------------------------------------------------------------------
\* The invariant holds in every state.
LEMMA TokensHold == TokenSpec => []TokenInvariant
<1>1. TokenInvariant /\ [TokenStep]_tokenVars => TokenInvariant'
  <2> SUFFICES ASSUME TokenInvariant, [TokenStep]_tokenVars PROVE TokenInvariant'
    OBVIOUS
  <2>1. CASE CreateToken
    BY <2>1, CreateKeepsTokens
  <2>2. ASSUME NEW c \in Owners, NEW t \in Tokens, NEW change \in Changes,
               LoadToken(c, t, change)
        PROVE  TokenInvariant'
    BY <2>2, LoadKeepsTokens
  <2>3. ASSUME NEW c \in Owners, StampChange(c) PROVE TokenInvariant'
    BY <2>3, StampKeepsTokens
  <2>4. ASSUME NEW c \in Owners, CommitChange(c) PROVE TokenInvariant'
    BY <2>4, CommitKeepsTokens
  <2>5. CASE UNCHANGED tokenVars
    BY <2>5 DEF tokenVars, TokenInvariant, TokenTypeOK, LoadedAllows, RevocationsStay,
                CommitsTellTheState
  <2> QED BY <2>1, <2>2, <2>3, <2>4, <2>5 DEF TokenStep
<1> QED BY TokensBegin, <1>1, PTL DEF TokenSpec

\* However the requests about a token interleave, its audit records tell whether it is
\* revoked, and, if pauses and resumptions were committed in the order of their times,
\* their list tells whether it is paused (change_state, rotate, list_audit).
THEOREM AuditTrailIsTrue == TokenSpec => []AuditTellsTheState
<1>1. TokenInvariant => AuditTellsTheState
  BY ListedAsCommitted
  DEF TokenInvariant, TokenTypeOK, CommitsTellTheState, AuditTellsTheState
<1> QED BY TokensHold, <1>1, PTL

(***************************************************************************)
(* The review of plans.                                                    *)
(***************************************************************************)
\* Nobody reviews a plan that does not exist.
ReviewedPlansExist ==
  \A c \in Callers :
    call[c].kind = "confirm" => plan[call[c].plan].status # "absent"

ReviewInvariant ==
  ReviewTypeOK /\ NoReviewerIsRevived /\ InvalidatorsCameLater /\ ReviewedPlansExist

\* The rows and requests that the actions write have their types.
LEMMA ReviewTypes ==
  /\ NoPlan \in PlanRow /\ NoRequest \in Request
  /\ \A label \in PlanStatus : FreshPlan(label) \in PlanRow
  /\ \A row \in PlanRow :
       /\ Voided(row) \in PlanRow
       /\ Voided(row).status = row.status /\ Voided(row).revision = row.revision
<1>1. NoRequest \in Request
  BY BoundsAssumption DEF NoRequest, Request, Contents
<1> QED BY <1>1 DEF NoPlan, FreshPlan, Voided, PlanRow, PlanStatus

\* What a review makes of the row of a plan.
LEMMA ReviewedTypes ==
  ASSUME NEW row \in PlanRow, NEW kind \in {"confirm", "ignore", "alias"}
  PROVE  /\ ReviewedRow(kind, row) \in PlanRow
         /\ ReviewedRow(kind, row).revision = row.revision + 1
         /\ ReviewedRow(kind, row).status \in {"planned", "ignored", row.status}
         /\ ReviewedRow(kind, row).status = "planned"
              => kind = "confirm" \/ (kind = "alias" /\ row.status = "planned")
         /\ kind = "confirm" => ReviewedRow(kind, row).status = "planned"
         /\ kind = "ignore" => ReviewedRow(kind, row).status = "ignored"
         /\ kind = "alias" => ReviewedRow(kind, row).status = row.status
<1>1. row.revision + 1 \in Nat
  BY DEF PlanRow
<1>2. CASE kind = "confirm"
  BY <1>1, <1>2 DEF ReviewedRow, PlanRow, PlanStatus
<1>3. CASE kind = "ignore"
  BY <1>1, <1>3 DEF ReviewedRow, PlanRow, PlanStatus
<1>4. CASE kind = "alias"
  BY <1>1, <1>4 DEF ReviewedRow, PlanRow, PlanStatus
<1> QED BY <1>2, <1>3, <1>4

\* A request reads the plan that it is about.
LEMMA Begins ==
  ASSUME ReviewTypeOK, NEW c \in Callers, NEW i \in Contents,
         NEW kind \in {"create", "confirm", "ignore", "alias", "invalidate"},
         Begin(c, kind, i)
  PROVE  /\ call' \in [Callers -> Request]
         /\ call'[c].kind = kind /\ call'[c].plan = i
         /\ call'[c].revision = plan[i].revision
         /\ \A d \in Callers \ {c} : call'[d] = call[d]
<1>1. plan[i].revision \in Nat
  BY DEF ReviewTypeOK, PlanRow
<1>2. [kind |-> kind, plan |-> i, revision |-> plan[i].revision] \in Request
  BY <1>1 DEF Request
<1> QED BY <1>2 DEF Begin, ReviewTypeOK

\* At the start there is no plan and no request.
LEMMA ReviewBegins == ReviewInit => ReviewInvariant
<1> SUFFICES ASSUME ReviewInit PROVE ReviewInvariant
  OBVIOUS
<1>1. ReviewTypeOK
  BY ReviewTypes, BoundsAssumption DEF ReviewInit, ReviewTypeOK, Contents
<1>2. \A c \in Callers : call[c].kind = "none"
  BY DEF ReviewInit, NoRequest
<1> QED
  BY <1>1, <1>2
  DEF ReviewInvariant, NoReviewerIsRevived, InvalidatorsCameLater, ReviewedPlansExist

\* Every step keeps the invariant.
LEMMA ReviewGoesOn == ReviewInvariant /\ [ReviewStep]_reviewVars => ReviewInvariant'
<1> SUFFICES ASSUME ReviewInvariant, [ReviewStep]_reviewVars PROVE ReviewInvariant'
  OBVIOUS
<1>t. /\ ReviewTypeOK /\ NoReviewerIsRevived /\ InvalidatorsCameLater /\ ReviewedPlansExist
      /\ content \in Contents
      /\ plan \in [Contents -> PlanRow]
      /\ call \in [Callers -> Request]
  BY DEF ReviewInvariant, ReviewTypeOK
<1>r. /\ \A c \in Callers : call[c].plan \in Contents /\ call[c].revision \in Nat
      /\ \A i \in Contents : plan[i].revision \in Nat
  BY <1>t DEF Request, PlanRow
<1> USE DEF ReviewInvariant, NoReviewerIsRevived, InvalidatorsCameLater, ReviewedPlansExist
<1>1. ASSUME NEW c \in Callers, CreatePlanRead(c) PROVE ReviewInvariant'
  BY <1>1, <1>t, Begins DEF ReviewTypeOK, CreatePlanRead
<1>2. ASSUME NEW c \in Callers, CreatePlanInsert(c) PROVE ReviewInvariant'
  <2>1. call' = [call EXCEPT ![c] = NoRequest] /\ content' = content
    BY <1>2 DEF CreatePlanInsert
  <2>2. /\ call' \in [Callers -> Request] /\ call'[c].kind = "none"
        /\ \A d \in Callers \ {c} : call'[d] = call[d]
    BY <2>1, <1>t, ReviewTypes DEF NoRequest
  <2> DEFINE i == call[c].plan
  <2>3. plan' \in [Contents -> PlanRow]
    BY <1>2, <1>t, <1>r, ReviewTypes DEF CreatePlanInsert, PlanStatus, KnownPlan
  <2>4. plan' = plan \/ /\ plan[i].status = "absent"
                        /\ \A j \in Contents \ {i} : plan'[j] = plan[j]
    BY <1>2, <1>t DEF CreatePlanInsert, KnownPlan
  <2>5. plan[i].status = "absent" =>
          \A d \in Callers :
            call[d].plan = i => call[d].kind \notin {"invalidate", "confirm"}
    BY <1>t
  <2>6. ReviewTypeOK'
    BY <2>1, <2>2, <2>3, <1>t DEF ReviewTypeOK
  <2>7. \A d \in Callers :
          call'[d].kind \in {"confirm", "invalidate"} =>
            /\ d # c /\ call'[d] = call[d]
            /\ plan'[call[d].plan] = plan[call[d].plan]
    BY <2>2, <2>4, <2>5, <1>r
  <2> QED BY <2>6, <2>7, <1>t
<1>3. ASSUME NEW c \in Callers, NEW i \in Contents, ReviewRead(c, i) PROVE ReviewInvariant'
  <2>1. UNCHANGED <<content, plan>>
    BY <1>3 DEF ReviewRead
  <2>2. CASE Confirmable(plan[i]) /\ Begin(c, "confirm", i)
    <3>1. ReviewTypeOK'
      BY <2>1, <2>2, <1>t, Begins DEF ReviewTypeOK
    <3>2. \A d \in Callers : call[d].kind = "invalidate" => call[d].plan # i
      BY <2>2, <1>t DEF Confirmable
    <3>3. /\ call'[c].kind = "confirm" /\ call'[c].plan = i
          /\ call'[c].revision = plan[i].revision
          /\ \A d \in Callers \ {c} : call'[d] = call[d]
          /\ plan[i].status = "needs_review" /\ plan' = plan
      BY <2>1, <2>2, Begins, <1>t DEF Confirmable
    <3>4. NoReviewerIsRevived'
      BY <3>3, <1>t, <1>r
    <3>5. InvalidatorsCameLater'
      BY <3>2, <3>3, <1>t
    <3>6. ReviewedPlansExist'
      BY <3>3, <1>t
    <3> QED BY <3>1, <3>4, <3>5, <3>6
  <2>3. CASE \E kind \in {"ignore", "alias"} : Begin(c, kind, i)
    <3>1. ReviewTypeOK'
      BY <2>1, <2>3, <1>t, Begins DEF ReviewTypeOK
    <3> QED BY <2>1, <2>3, <3>1, <1>t, Begins
  <2> QED BY <1>3, <2>2, <2>3 DEF ReviewRead
<1>4. ASSUME NEW c \in Callers, ReviewWrite(c) PROVE ReviewInvariant'
  <2> DEFINE i == call[c].plan
             kind == call[c].kind
  <2>1. kind \in {"confirm", "ignore", "alias"} /\ i \in Contents
    BY <1>4, <1>r DEF ReviewWrite
  <2>2. UNCHANGED content /\ call' = [call EXCEPT ![c] = NoRequest]
    BY <1>4 DEF ReviewWrite
  <2>3. /\ call' \in [Callers -> Request] /\ call'[c].kind = "none"
        /\ \A d \in Callers \ {c} : call'[d] = call[d]
    BY <2>2, <1>t, ReviewTypes DEF NoRequest
  <2>4. \/ plan' = plan
        \/ /\ plan' = [plan EXCEPT ![i] = ReviewedRow(kind, @)]
           /\ plan[i].revision = call[c].revision
           /\ kind = "alias" => plan[i].status \in {"needs_review", "planned"}
    BY <1>4 DEF ReviewWrite, Unchanged, Reviewable
  <2>5. CASE plan' = plan
    <3>1. ReviewTypeOK'
      BY <2>2, <2>3, <2>5, <1>t DEF ReviewTypeOK
    <3> QED BY <2>3, <2>5, <3>1, <1>t
  <2>6. CASE /\ plan' = [plan EXCEPT ![i] = ReviewedRow(kind, @)]
             /\ plan[i].revision = call[c].revision
             /\ kind = "alias" => plan[i].status \in {"needs_review", "planned"}
    <3>1. /\ plan' \in [Contents -> PlanRow]
          /\ plan'[i] = ReviewedRow(kind, plan[i])
          /\ plan'[i].revision = plan[i].revision + 1
          /\ \A j \in Contents \ {i} : plan'[j] = plan[j]
      BY <2>1, <2>6, <1>t, ReviewedTypes
    <3>2. ReviewTypeOK'
      BY <2>2, <2>3, <3>1, <1>t DEF ReviewTypeOK
    <3>3. \A d \in Callers :
            call'[d].kind \in {"confirm", "invalidate"} => d # c /\ call'[d] = call[d]
      BY <2>3
    <3>4. NoReviewerIsRevived'
      <4> SUFFICES ASSUME NEW d \in Callers, call'[d].kind = "confirm"
                   PROVE  LET row == plan'[call'[d].plan]
                          IN /\ row.revision >= call'[d].revision
                             /\ row.revision = call'[d].revision
                                  => row.status = "needs_review"
        OBVIOUS
      <4>1. call'[d] = call[d] /\ call[d].kind = "confirm"
        BY <3>3
      <4>2. CASE call[d].plan # i
        BY <4>1, <4>2, <3>1, <1>r, <1>t
      <4>3. CASE call[d].plan = i
        <5>1. plan[i].revision >= call[d].revision
          BY <4>1, <4>3, <1>t
        <5>2. plan'[i].revision > call[d].revision
          BY <5>1, <3>1, <2>1, <1>r
        <5> QED BY <5>2, <4>1, <4>3, <3>1, <2>1, <1>r
      <4> QED BY <4>2, <4>3
    <3>5. plan[i].status \notin {"absent", "needs_review"}
            => plan'[i].status \notin {"absent", "needs_review"}
      BY <3>1, <2>1, <1>t, ReviewedTypes
    <3>6. InvalidatorsCameLater'
      BY <3>1, <3>3, <3>5, <1>t, <1>r
    <3>7. plan[i].status # "absent" => plan'[i].status # "absent"
      BY <3>1, <2>1, <1>t, ReviewedTypes
    <3>8. ReviewedPlansExist'
      BY <3>1, <3>3, <3>7, <1>t, <1>r
    <3> QED BY <3>2, <3>4, <3>6, <3>8
  <2> QED BY <2>4, <2>5, <2>6
<1>5. ASSUME NEW c \in Callers, NEW i \in Contents, CheckRead(c, i) PROVE ReviewInvariant'
  <2>1. UNCHANGED <<content, plan>> /\ Begin(c, "invalidate", i)
        /\ plan[i].status = "planned"
    BY <1>5 DEF CheckRead, PlannedButVoid
  <2>2. ReviewTypeOK'
    BY <2>1, <1>t, Begins DEF ReviewTypeOK
  <2>3. \A d \in Callers :
          call[d].kind = "confirm" /\ call[d].plan = i
          => call[d].revision < plan[i].revision
    BY <2>1, <1>t, <1>r
  <2> QED BY <2>1, <2>2, <2>3, <1>t, Begins
<1>6. ASSUME NEW c \in Callers, InvalidateWrite(c) PROVE ReviewInvariant'
  <2> DEFINE i == call[c].plan
  <2>1. /\ UNCHANGED content /\ call[c].kind = "invalidate"
        /\ call' = [call EXCEPT ![c] = NoRequest]
        /\ plan' = [plan EXCEPT ![i].status = "invalidated",
                                ![i].revision = call[c].revision + 1]
    BY <1>6 DEF InvalidateWrite
  <2>2. /\ call' \in [Callers -> Request] /\ call'[c].kind = "none"
        /\ \A d \in Callers \ {c} : call'[d] = call[d]
    BY <2>1, <1>t, ReviewTypes DEF NoRequest
  <2>3. /\ plan' \in [Contents -> PlanRow]
        /\ plan'[i].status = "invalidated"
        /\ plan'[i].revision = call[c].revision + 1
        /\ \A j \in Contents \ {i} : plan'[j] = plan[j]
    BY <2>1, <1>t, <1>r DEF PlanRow, PlanStatus
  <2>4. ReviewTypeOK'
    BY <2>1, <2>2, <2>3, <1>t DEF ReviewTypeOK
  <2>5. \A d \in Callers :
          call'[d].kind \in {"confirm", "invalidate"} => d # c /\ call'[d] = call[d]
    BY <2>2
  <2>6. \A d \in Callers :
          call[d].kind = "confirm" /\ call[d].plan = i
          => call[d].revision < plan'[i].revision
    <3> SUFFICES ASSUME NEW d \in Callers, call[d].kind = "confirm", call[d].plan = i
                 PROVE  call[d].revision < plan'[i].revision
      OBVIOUS
    <3>1. call[d].revision <= call[c].revision
      BY <2>1, <1>t, <1>r DEF InvalidatorsCameLater
    <3> QED BY <3>1, <2>3, <1>r
  <2>7. NoReviewerIsRevived'
    <3> SUFFICES ASSUME NEW d \in Callers, call'[d].kind = "confirm"
                 PROVE  LET row == plan'[call'[d].plan]
                        IN /\ row.revision >= call'[d].revision
                           /\ row.revision = call'[d].revision
                                => row.status = "needs_review"
      OBVIOUS
    <3>1. call'[d] = call[d] /\ call[d].kind = "confirm"
      BY <2>5
    <3>2. CASE call[d].plan # i
      BY <3>1, <3>2, <2>3, <1>r, <1>t
    <3>3. CASE call[d].plan = i
      BY <3>1, <3>3, <2>3, <2>6, <1>r
    <3> QED BY <3>2, <3>3
  <2>8. InvalidatorsCameLater' /\ ReviewedPlansExist'
    BY <2>3, <2>5, <1>t, <1>r
  <2> QED BY <2>4, <2>7, <2>8
<1>7. ASSUME plan' \in [Contents -> PlanRow],
             \A i \in Contents : /\ plan'[i].status = plan[i].status
                                 /\ plan'[i].revision = plan[i].revision,
             content' \in Contents, UNCHANGED call
      PROVE  ReviewInvariant'
  <2>1. ReviewTypeOK'
    BY <1>7, <1>t DEF ReviewTypeOK
  <2> QED BY <1>7, <2>1, <1>t, <1>r
<1>8. ASSUME NEW i \in Contents, Expire(i) PROVE ReviewInvariant'
  BY <1>7, <1>8, <1>t, ReviewTypes DEF Expire
<1>9. CASE NewContent
  <2>1. content' \in Contents
    BY <1>9, <1>t, BoundsAssumption DEF NewContent, Contents
  <2> QED BY <1>7, <1>9, <2>1, <1>t, ReviewTypes DEF NewContent
<1>10. CASE UNCHANGED reviewVars
  BY <1>7, <1>10, <1>t DEF reviewVars
<1> QED BY <1>1, <1>2, <1>3, <1>4, <1>5, <1>6, <1>8, <1>9, <1>10 DEF ReviewStep

\* The invariant holds in every state.
LEMMA ReviewKeeps == ReviewSpec => []ReviewInvariant
BY ReviewBegins, ReviewGoesOn, PTL DEF ReviewSpec

\* A reviewer's UPDATE by revision never takes a plan that has left review
\* meanwhile, although the prerequisite check writes revisions that it read
\* long before.
THEOREM ReviewersStayStale == ReviewSpec => []NoReviewerIsRevived
BY ReviewKeeps, PTL DEF ReviewInvariant

\* Without refresh_plan an invalidated plan never becomes executable again:
\* confirm_plan's UPDATE does not name the status, but no reviewer is left
\* whose revision it could match.
THEOREM InvalidatedIsFinal == ReviewSpec => InvalidatedStaysOut
<1>1. ASSUME ReviewInvariant, [ReviewStep]_reviewVars,
             NEW i \in Contents, plan[i].status = "invalidated"
      PROVE  plan'[i].status \in {"invalidated", "ignored"}
  <2>t. /\ plan \in [Contents -> PlanRow]
        /\ call \in [Callers -> Request]
        /\ NoReviewerIsRevived
    BY <1>1 DEF ReviewInvariant, ReviewTypeOK
  <2>1. ASSUME NEW c \in Callers, ReviewWrite(c)
        PROVE  plan'[i].status \in {"invalidated", "ignored"}
    <3>1. CASE plan' = plan
      BY <1>1, <3>1
    <3>2. CASE /\ plan' = [plan EXCEPT ![call[c].plan] = ReviewedRow(call[c].kind, @)]
               /\ Unchanged(call[c])
               /\ call[c].kind = "alias" => Reviewable(plan[call[c].plan])
      <4>1. CASE call[c].plan # i
        BY <1>1, <3>2, <4>1, <2>t
      <4>2. CASE call[c].plan = i
        <5>1. call[c].kind = "ignore"
          BY <1>1, <2>1, <3>2, <4>2, <2>t
             DEF ReviewWrite, Unchanged, Reviewable, NoReviewerIsRevived
        <5>2. plan'[i].status = "ignored"
          BY <5>1, <3>2, <4>2, <2>t, ReviewedTypes
        <5> QED BY <5>2
      <4> QED BY <4>1, <4>2
    <3> QED BY <2>1, <3>1, <3>2 DEF ReviewWrite
  <2>2. ASSUME NEW c \in Callers, CreatePlanInsert(c) PROVE plan'[i] = plan[i]
    BY <1>1, <2>2, <2>t DEF CreatePlanInsert
  <2>3. ASSUME NEW c \in Callers, InvalidateWrite(c)
        PROVE  plan'[i].status = "invalidated"
    BY <1>1, <2>3, <2>t DEF InvalidateWrite, PlanRow
  <2>4. ASSUME NEW j \in Contents, Expire(j) PROVE plan'[i].status = plan[i].status
    BY <2>4, <2>t, ReviewTypes DEF Expire
  <2>5. CASE NewContent
    BY <1>1, <2>5, <2>t, ReviewTypes DEF NewContent
  <2>6. ASSUME NEW c \in Callers,
               \/ CreatePlanRead(c)
               \/ \E j \in Contents : ReviewRead(c, j) \/ CheckRead(c, j)
        PROVE  plan' = plan
    BY <2>6 DEF CreatePlanRead, ReviewRead, CheckRead
  <2>7. CASE UNCHANGED reviewVars
    BY <1>1, <2>7 DEF reviewVars
  <2> QED BY <1>1, <2>1, <2>2, <2>3, <2>4, <2>5, <2>6, <2>7 DEF ReviewStep
<1>2. ReviewInvariant /\ [ReviewStep]_reviewVars =>
        [\A i \in Contents :
           plan[i].status = "invalidated"
           => plan'[i].status \in {"invalidated", "ignored"}]_reviewVars
  BY <1>1
<1> QED BY <1>2, ReviewKeeps, PTL DEF ReviewSpec, InvalidatedStaysOut

(***************************************************************************)
(* Backups.  Retention goes by manifests, and a manifest may have lost its *)
(* copy.  What counts is how many of the newest manifests, those that      *)
(* retention spares, still have theirs: each one without is paid for by a  *)
(* create that failed while it removed older backups.                      *)
(***************************************************************************)
\* The manifests that retention spares.
Newest == manifests \ Beyond(manifests)

\* Those of whole backups, without the one that is being undone.
Good == IF maker.pc = "undo" THEN (Newest \cap databases) \ {maker.id}
        ELSE Newest \cap databases

\* The new backup has been written and is not reported yet.
Finishing == maker.pc \in {"retain", "drop copy", "drop manifest"}

\* The backups are numbered, and the new one is written before its manifest.
Numbered ==
  /\ manifests \subseteq 1..maker.id
  /\ maker.pc \in {"copy", "replace", "manifest"} => maker.id \notin manifests
  /\ maker.pc = "manifest" => maker.id \in databases

\* Retention removes none of the newest.
OldIsBeyond ==
  /\ maker.pc \in {"drop copy", "drop manifest"} => maker.old \subseteq Beyond(manifests)
  /\ maker.pc = "drop manifest" => maker.old # {}

\* A create is reported or spoilt once.
Tally ==
  /\ done + spoilt <= maker.id
  /\ maker.pc \in Making \ {"undo"} => done + spoilt < maker.id

\* How many creates have written their backup.
Reached == IF Finishing THEN done + 1 ELSE done

\* Enough of the newest are whole.
GoodOnesRemain ==
  /\ Cardinality(Good) + spoilt >= Cardinality(Newest)
  /\ \/ Cardinality(Good) + spoilt >= Retention
     \/ Cardinality(Good) + spoilt >= Reached

RetentionInv == BackupTypeOK /\ Numbered /\ OldIsBeyond /\ Tally /\ GoodOnesRemain

-----------------------------------------------------------------------------
(***************************************************************************)
(* Sets of numbers.                                                        *)
(***************************************************************************)
Newer(b, M) == {c \in M : c > b}
Spared(M) == M \ Beyond(M)

\* Sets of numbered manifests are finite, and so are those of the newer ones.
LEMMA NumberedAreFinite ==
  ASSUME NEW n \in Nat, NEW M \in SUBSET (1..n)
  PROVE  /\ IsFiniteSet(M) /\ Cardinality(M) \in Nat /\ M \subseteq Nat
         /\ \A b : /\ IsFiniteSet(Newer(b, M)) /\ Cardinality(Newer(b, M)) \in Nat
                   /\ Newer(b, M) \subseteq M
<1>1. IsFiniteSet(M)
  <2>1. IsFiniteSet(1..n)
    BY FS_Interval
  <2> QED BY <2>1, FS_Subset
<1>2. ASSUME NEW b
      PROVE IsFiniteSet(Newer(b, M)) /\ Cardinality(Newer(b, M)) \in Nat
            /\ Newer(b, M) \subseteq M
  <2>1. Newer(b, M) \subseteq M
    BY DEF Newer
  <2> QED BY <1>1, <2>1, FS_Subset, FS_CardinalityType
<1> QED BY <1>1, <1>2, FS_CardinalityType

\* What is spared has few newer ones.
LEMMA SparedOnes ==
  ASSUME NEW n \in Nat, NEW M \in SUBSET (1..n)
  PROVE  /\ \A b \in M : b \in Spared(M) <=> Cardinality(Newer(b, M)) < Retention
         /\ IsFiniteSet(Spared(M)) /\ Cardinality(Spared(M)) \in Nat
         /\ Spared(M) \subseteq M
<1>1. Spared(M) = {b \in M : ~(Cardinality(Newer(b, M)) >= Retention)}
  BY DEF Spared, Beyond, Newer
<1>2. Spared(M) \subseteq M
  BY DEF Spared
<1>3. \A b : Cardinality(Newer(b, M)) \in Nat
  BY NumberedAreFinite
<1>4. IsFiniteSet(Spared(M)) /\ Cardinality(Spared(M)) \in Nat
  BY <1>2, NumberedAreFinite, FS_Subset, FS_CardinalityType
<1> QED BY <1>1, <1>2, <1>3, <1>4, RetentionAssumption

\* What is newer than a manifest is newer than every older one.
LEMMA NewerOnes ==
  ASSUME NEW n \in Nat, NEW M \in SUBSET (1..n), NEW b \in M
  PROVE  /\ b \notin Newer(b, M)
         /\ \A c \in M : b < c => c \in Newer(b, M) /\ Newer(c, M) \subseteq Newer(b, M)
<1>1. \A x \in M : x \in Nat
  OBVIOUS
<1>2. \A x \in M : x \in Newer(b, M) <=> b < x
  BY <1>1 DEF Newer
<1>3. ASSUME NEW c \in M, b < c, NEW x \in Newer(c, M) PROVE x \in Newer(b, M)
  <2>1. x \in M /\ c < x
    BY <1>1 DEF Newer
  <2>2. b < x
    BY <1>1, <1>3, <2>1
  <2> QED BY <1>2, <2>1, <2>2
<1>4. ~(b < b)
  BY <1>1
<1> QED BY <1>2, <1>3, <1>4

\* An older one has more that are newer.
LEMMA OlderHasMore ==
  ASSUME NEW n \in Nat, NEW M \in SUBSET (1..n), NEW b \in M, NEW c \in M, b < c
  PROVE  Cardinality(Newer(c, M)) < Cardinality(Newer(b, M))
<1>2. Newer(c, M) \cup {c} \subseteq Newer(b, M) /\ c \notin Newer(c, M)
  BY NewerOnes
<1>3. /\ IsFiniteSet(Newer(c, M)) /\ Cardinality(Newer(c, M)) \in Nat
      /\ IsFiniteSet(Newer(b, M)) /\ Cardinality(Newer(b, M)) \in Nat
  BY NumberedAreFinite
<1>4. Cardinality(Newer(c, M) \cup {c}) = Cardinality(Newer(c, M)) + 1
  BY <1>2, <1>3, FS_AddElement
<1>5. Cardinality(Newer(c, M) \cup {c}) <= Cardinality(Newer(b, M))
  BY <1>2, <1>3, FS_Subset
<1> QED BY <1>3, <1>4, <1>5

\* No two manifests have the same number of newer ones.
LEMMA SameCountIsSame ==
  ASSUME NEW n \in Nat, NEW M \in SUBSET (1..n), NEW b \in M, NEW c \in M,
         Cardinality(Newer(c, M)) = Cardinality(Newer(b, M))
  PROVE  b = c
<1>1. b \in Nat /\ c \in Nat
  OBVIOUS
<1>2. Cardinality(Newer(c, M)) \in Nat
  BY NumberedAreFinite
<1>3. ~(b < c)
  <2> SUFFICES ASSUME b < c PROVE FALSE
    OBVIOUS
  <2>1. Cardinality(Newer(c, M)) < Cardinality(Newer(b, M))
    BY OlderHasMore
  <2> QED BY <1>2, <2>1
<1>4. ~(c < b)
  <2> SUFFICES ASSUME c < b PROVE FALSE
    OBVIOUS
  <2>1. Cardinality(Newer(b, M)) < Cardinality(Newer(c, M))
    BY OlderHasMore
  <2> QED BY <1>2, <2>1
<1> QED BY <1>1, <1>3, <1>4

\* There is a newest manifest: descending to fewer newer ones comes to an end.
LEMMA Maximum ==
  ASSUME NEW n \in Nat, NEW M \in SUBSET (1..n), M # {}
  PROVE  Max(M) \in M
<1>1. \A b : Newer(b, M) \in FiniteSubsetsOf(M)
  BY NumberedAreFinite, FS_FiniteSubsetsOfFinite
<1> DEFINE T == {Newer(b, M) : b \in M}
<1>2. T \subseteq FiniteSubsetsOf(M) /\ T # {}
  BY <1>1
<1>3. PICK x \in T : \A y \in T : ~ (<<y, x>> \in StrictSubsetOrdering(M))
  <2> HIDE DEF T
  <2> QED BY <1>2, FS_StrictSubsetOrderingWellFounded, WFMin
<1>4. PICK b \in M : x = Newer(b, M)
  BY <1>3
<1>5. \A c \in M : b >= c
  <2> SUFFICES ASSUME NEW c \in M, ~(b >= c) PROVE FALSE
    OBVIOUS
  <2>1. b \in Nat /\ c \in Nat /\ b < c
    OBVIOUS
  <2>2. Newer(c, M) \subseteq Newer(b, M) /\ c \in Newer(b, M) /\ c \notin Newer(c, M)
    BY <2>1, NewerOnes
  <2>3. <<Newer(c, M), x>> \in StrictSubsetOrdering(M)
    BY <1>4, <2>2, NumberedAreFinite DEF StrictSubsetOrdering
  <2> QED BY <1>3, <2>3
<1> QED BY <1>5 DEF Max

\* Writing the newest manifest: it is spared, and at most one other is not any
\* more, which then is the last of Retention.
LEMMA AddNewest ==
  ASSUME NEW n \in Nat, NEW M \in SUBSET (1..n),
         NEW id \in 1..n, \A b \in M : b < id
  PROVE  \/ Spared(M \cup {id}) = Spared(M) \cup {id}
         \/ \E e \in Spared(M) : /\ Spared(M \cup {id}) = (Spared(M) \ {e}) \cup {id}
                                 /\ Cardinality(Spared(M)) >= Retention
<1> DEFINE N == M \cup {id}
<1>2. id \in Nat /\ \A b \in M : b \in Nat /\ b < id /\ ~(b > id)
  OBVIOUS
<1>1. N \in SUBSET (1..n) /\ id \notin M /\ Retention \in Nat /\ Retention > 0
  BY <1>2, RetentionAssumption
<1>3. ASSUME NEW b \in M PROVE Cardinality(Newer(b, N)) = Cardinality(Newer(b, M)) + 1
  <2>1. id > b
    BY <1>2
  <2>2. Newer(b, N) = Newer(b, M) \cup {id} /\ id \notin Newer(b, M)
    BY <1>1, <2>1 DEF Newer
  <2> QED BY <2>2, NumberedAreFinite, FS_AddElement
<1>4. Newer(id, N) = {}
  <2>1. ~(id > id)
    BY <1>2
  <2> QED BY <1>2, <2>1 DEF Newer
<1>5. id \in Spared(N)
  BY <1>1, <1>4, FS_EmptySet, SparedOnes
<1>6. \A b \in M : b \in Spared(N) <=> Cardinality(Newer(b, M)) + 1 < Retention
  BY <1>1, <1>3, SparedOnes
<1>7. /\ \A b \in M : b \in Spared(M) <=> Cardinality(Newer(b, M)) < Retention
      /\ \A b \in M : Cardinality(Newer(b, M)) \in Nat
      /\ Spared(M) \subseteq M /\ Spared(N) \subseteq N
  BY <1>1, SparedOnes, NumberedAreFinite
<1>8. CASE \A b \in M : Cardinality(Newer(b, M)) + 1 # Retention
  <2>1. \A b \in M : b \in Spared(N) <=> b \in Spared(M)
    BY <1>1, <1>6, <1>7, <1>8
  <2> QED BY <1>1, <1>5, <1>7, <2>1
<1>9. ASSUME NEW e \in M, Cardinality(Newer(e, M)) + 1 = Retention
      PROVE  \E x \in Spared(M) : /\ Spared(N) = (Spared(M) \ {x}) \cup {id}
                                  /\ Cardinality(Spared(M)) >= Retention
  <2>1. e \in Spared(M) /\ e \notin Spared(N)
    BY <1>1, <1>6, <1>7, <1>9
  <2>2. ASSUME NEW b \in M \ {e} PROVE b \in Spared(N) <=> b \in Spared(M)
    <3>1. Cardinality(Newer(b, M)) # Cardinality(Newer(e, M))
      BY SameCountIsSame
    <3> QED BY <1>1, <1>6, <1>7, <1>9, <3>1
  <2>3. Spared(N) = (Spared(M) \ {e}) \cup {id}
    BY <1>1, <1>5, <1>7, <2>1, <2>2
  <2>4. Newer(e, M) \cup {e} \subseteq Spared(M)
    <3>1. ASSUME NEW c \in Newer(e, M) PROVE c \in Spared(M)
      <4>1. c \in M /\ e < c
        BY <1>2 DEF Newer
      <4>2. Cardinality(Newer(c, M)) < Cardinality(Newer(e, M))
        BY <4>1, OlderHasMore
      <4> QED BY <1>1, <1>7, <1>9, <4>1, <4>2
    <3> QED BY <2>1, <3>1
  <2>5. Cardinality(Newer(e, M) \cup {e}) = Retention
    <3>1. e \notin Newer(e, M)
      BY <1>2 DEF Newer
    <3> QED BY <1>9, <3>1, NumberedAreFinite, FS_AddElement
  <2>6. Cardinality(Spared(M)) >= Retention
    BY <1>1, <2>4, <2>5, SparedOnes, FS_Subset
  <2> QED BY <2>1, <2>3, <2>6
<1> QED BY <1>8, <1>9

\* Removing a manifest that is not spared changes nothing for the others.
LEMMA RemoveBeyond ==
  ASSUME NEW n \in Nat, NEW M \in SUBSET (1..n), NEW b \in Beyond(M)
  PROVE  Spared(M \ {b}) = Spared(M) /\ Beyond(M \ {b}) = Beyond(M) \ {b}
<1> DEFINE N == M \ {b}
<1>1. /\ N \in SUBSET (1..n) /\ b \in M /\ Retention \in Nat
      /\ Cardinality(Newer(b, M)) >= Retention
  BY RetentionAssumption DEF Beyond, Newer
<1>2. /\ \A c : IsFiniteSet(Newer(c, M)) /\ Cardinality(Newer(c, M)) \in Nat
      /\ \A c : IsFiniteSet(Newer(c, N)) /\ Cardinality(Newer(c, N)) \in Nat
  BY <1>1, NumberedAreFinite
<1>3. ASSUME NEW c \in N
      PROVE Cardinality(Newer(c, N)) >= Retention <=> Cardinality(Newer(c, M)) >= Retention
  <2>1. Newer(c, N) \subseteq Newer(c, M)
    BY DEF Newer
  <2>2. Cardinality(Newer(c, N)) <= Cardinality(Newer(c, M))
    BY <1>2, <2>1, FS_Subset
  <2>3. b \in Nat /\ c \in Nat /\ b # c /\ \A x \in M : x \in Nat
    BY <1>1
  <2>4. CASE b < c
    <3>1. Newer(c, N) = Newer(c, M)
      BY <2>3, <2>4 DEF Newer
    <3> QED BY <3>1
  <2>5. CASE c < b
    <3>1. Newer(b, M) \subseteq Newer(c, N)
      <4>1. Newer(b, M) \subseteq Newer(c, M) /\ b \notin Newer(b, M)
        BY <1>1, <2>3, <2>5, NewerOnes
      <4> QED BY <4>1 DEF Newer
    <3>2. Cardinality(Newer(b, M)) <= Cardinality(Newer(c, N))
      BY <1>2, <3>1, FS_Subset
    <3> QED BY <1>1, <1>2, <2>2, <3>2
  <2> QED BY <2>3, <2>4, <2>5
<1>4. Beyond(N) = Beyond(M) \ {b}
  BY <1>3 DEF Beyond, Newer
<1> QED BY <1>1, <1>4 DEF Spared

\* Removing any manifest spares at least the others that were spared, and at
\* most one more.
LEMMA RemoveAny ==
  ASSUME NEW n \in Nat, NEW M \in SUBSET (1..n), NEW id \in M,
         \A b \in M : b <= id
  PROVE  /\ Spared(M) \ {id} \subseteq Spared(M \ {id})
         /\ Cardinality(Spared(M \ {id})) <= Cardinality(Spared(M))
<1> DEFINE N == M \ {id}
<1>1. N \in SUBSET (1..n) /\ Retention \in Nat /\ Retention > 0
  BY RetentionAssumption
<1>2. \A b \in M : b \in Nat
  OBVIOUS
<1>3. ASSUME NEW b \in N PROVE Cardinality(Newer(b, M)) = Cardinality(Newer(b, N)) + 1
  <2>1. id > b
    BY <1>2
  <2>2. Newer(b, M) = Newer(b, N) \cup {id} /\ id \notin Newer(b, N)
    BY <2>1 DEF Newer
  <2> QED BY <1>1, <2>2, NumberedAreFinite, FS_AddElement
<1>4. /\ \A b \in M : b \in Spared(M) <=> Cardinality(Newer(b, M)) < Retention
      /\ \A b \in N : b \in Spared(N) <=> Cardinality(Newer(b, N)) < Retention
      /\ \A b \in N : Cardinality(Newer(b, N)) \in Nat
      /\ Spared(M) \subseteq M /\ Spared(N) \subseteq N
      /\ IsFiniteSet(Spared(M)) /\ Cardinality(Spared(M)) \in Nat
      /\ IsFiniteSet(Spared(N)) /\ Cardinality(Spared(N)) \in Nat
  BY <1>1, SparedOnes, NumberedAreFinite
<1>5. Spared(M) \ {id} \subseteq Spared(N)
  <2> SUFFICES ASSUME NEW b \in Spared(M) \ {id} PROVE b \in Spared(N)
    OBVIOUS
  <2>1. b \in N /\ Cardinality(Newer(b, M)) < Retention
    BY <1>4
  <2>2. Cardinality(Newer(b, M)) = Cardinality(Newer(b, N)) + 1
    BY <1>3, <2>1
  <2>3. Cardinality(Newer(b, N)) \in Nat
    BY <1>4, <2>1
  <2>4. Cardinality(Newer(b, N)) < Retention
    BY <1>1, <2>1, <2>2, <2>3
  <2> QED BY <1>4, <2>1, <2>4
<1>6. id \in Spared(M)
  <2>1. Newer(id, M) = {}
    <3>1. \A b \in M : ~(b > id)
      BY <1>2
    <3> QED BY <3>1 DEF Newer
  <2> QED BY <1>1, <1>4, <2>1, FS_EmptySet
<1> HIDE DEF N
<1>7. /\ IsFiniteSet(Spared(M) \ {id})
      /\ Cardinality(Spared(M) \ {id}) = Cardinality(Spared(M)) - 1
  BY <1>4, <1>6, FS_RemoveElement
<1>8. CASE Spared(N) \subseteq Spared(M) \ {id}
  <2>1. Cardinality(Spared(N)) <= Cardinality(Spared(M) \ {id})
    BY <1>7, <1>8, FS_Subset
  <2>2. Cardinality(Spared(N)) <= Cardinality(Spared(M))
    BY <1>4, <1>7, <2>1
  <2> QED BY <1>5, <2>2 DEF N
<1>9. ASSUME NEW e \in Spared(N) \ (Spared(M) \ {id})
      PROVE  Cardinality(Spared(N)) <= Cardinality(Spared(M))
  <2>1. ASSUME NEW x \in Spared(N) \ (Spared(M) \ {id})
        PROVE  x \in N /\ Cardinality(Newer(x, N)) + 1 = Retention
    <3>1. x \in N /\ x \notin Spared(M) /\ x \in M
      BY <1>4 DEF N
    <3>2. /\ ~(Cardinality(Newer(x, M)) < Retention)
          /\ Cardinality(Newer(x, N)) < Retention
      BY <1>4, <3>1
    <3>3. Cardinality(Newer(x, M)) = Cardinality(Newer(x, N)) + 1
      BY <1>3, <3>1
    <3> QED BY <1>1, <1>4, <3>1, <3>2, <3>3
  <2>2. ASSUME NEW x \in Spared(N) \ (Spared(M) \ {id}) PROVE x = e
    <3>1. Cardinality(Newer(x, N)) = Cardinality(Newer(e, N))
      BY <1>4, <2>1
    <3> QED BY <1>1, <2>1, <3>1, SameCountIsSame
  <2>3. Spared(N) = (Spared(M) \ {id}) \cup {e}
    BY <1>5, <2>2
  <2>4. Cardinality(Spared(N)) <= Cardinality(Spared(M) \ {id}) + 1
    BY <1>4, <1>7, <2>3, FS_AddElement
  <2> QED BY <1>4, <1>7, <2>4 DEF N
<1> QED BY <1>5, <1>8, <1>9 DEF N

-----------------------------------------------------------------------------
(***************************************************************************)
(* The steps.                                                              *)
(***************************************************************************)
LEMMA GoodSets ==
  ASSUME BackupTypeOK
  PROVE  /\ manifests \in SUBSET (1..MaxBackups) /\ MaxBackups \in Nat
         /\ Newest = Spared(manifests)
         /\ IsFiniteSet(Newest) /\ Cardinality(Newest) \in Nat
         /\ IsFiniteSet(Good) /\ Cardinality(Good) \in Nat
         /\ Good \subseteq Newest \cap databases /\ Newest \subseteq manifests
<1>1. manifests \in SUBSET (1..MaxBackups) /\ MaxBackups \in Nat
  BY RetentionAssumption DEF BackupTypeOK, All
<1>2. Newest = Spared(manifests)
  BY DEF Newest, Spared
<1>3. IsFiniteSet(Newest) /\ Cardinality(Newest) \in Nat /\ Newest \subseteq manifests
  BY <1>1, <1>2, SparedOnes
<1>4. Good \subseteq Newest \cap databases
  BY DEF Good
<1>5. IsFiniteSet(Good) /\ Cardinality(Good) \in Nat
  BY <1>3, <1>4, FS_Subset, FS_CardinalityType
<1> QED BY <1>1, <1>2, <1>3, <1>4, <1>5

\* Every step keeps the types.
LEMMA StepTypes ==
  ASSUME BackupTypeOK, OldIsBeyond, Tally, [BackupStep]_backupVars
  PROVE  BackupTypeOK'
<1>n. /\ MaxBackups \in Nat /\ MaxKills \in Nat
      /\ maker.id \in 0..MaxBackups /\ done \in 0..MaxBackups /\ spoilt \in 0..MaxBackups
      /\ maker.pc \in {"idle"} \cup Making /\ maker.old \subseteq All
  BY RetentionAssumption DEF BackupTypeOK
<1>m. \A id \in 0..MaxBackups : Resting(id) \in
        [pc : {"idle"} \cup Making, id : 0..MaxBackups, old : SUBSET All]
  BY DEF Resting
<1>g. \A pc \in Making : [maker EXCEPT !.pc = pc] \in
        [pc : {"idle"} \cup Making, id : 0..MaxBackups, old : SUBSET All]
  BY DEF BackupTypeOK
<1>t. ASSUME maker.pc \in Making \ {"undo"}
      PROVE  /\ maker.id \in All
             /\ done + 1 \in 0..MaxBackups /\ spoilt + 1 \in 0..MaxBackups
  <2>1. done + spoilt < maker.id
    BY <1>t DEF Tally
  <2> QED BY <1>n, <2>1 DEF All
<1>1. CASE BeginBackup
  <2>1. maker.id + 1 \in 0..MaxBackups
    BY <1>1, <1>n DEF BeginBackup
  <2> QED BY <1>1, <2>1 DEF BeginBackup, BackupTypeOK, Making
<1>2. CASE Copy \/ ReplaceCopy \/ WriteManifest
  <2>1. maker.id \in All
    BY <1>2, <1>t DEF Copy, ReplaceCopy, WriteManifest, Making
  <2>2. maker' \in [pc : {"idle"} \cup Making, id : 0..MaxBackups, old : SUBSET All]
    BY <1>2, <1>g DEF Copy, ReplaceCopy, WriteManifest, Goto, Making
  <2> QED BY <1>2, <2>1, <2>2 DEF Copy, ReplaceCopy, WriteManifest, BackupTypeOK
<1>3. CASE ListOld
  <2>1. Beyond(manifests) \subseteq All
    BY DEF Beyond, BackupTypeOK
  <2> QED BY <1>3, <2>1 DEF ListOld, BackupTypeOK, Making
<1>4. CASE Created
  <2>1. done + 1 \in 0..MaxBackups
    BY <1>4, <1>t DEF Created, Making
  <2> QED BY <1>4, <1>n, <1>m, <2>1 DEF Created, BackupTypeOK
<1>5. CASE DropCopy
  <2>1. maker' \in [pc : {"idle"} \cup Making, id : 0..MaxBackups, old : SUBSET All]
    BY <1>5, <1>g DEF DropCopy, Goto, Making
  <2> QED BY <1>5, <2>1 DEF DropCopy, BackupTypeOK
<1>6. CASE DropManifest
  BY <1>6 DEF DropManifest, BackupTypeOK, Making
<1>7. CASE Fail
  <2>1. spoilt' \in 0..MaxBackups
    BY <1>7, <1>n, <1>t DEF Fail, Making
  <2> QED BY <1>7, <1>g, <2>1 DEF Fail, Goto, BackupTypeOK, Making
<1>8. CASE Undo
  BY <1>8, <1>n, <1>m DEF Undo, BackupTypeOK
<1>9. CASE FindManifest \/ ReadManifest \/ VerifyCopy
  <2>1. viewer' \in [pc : {"idle", "read", "verify"}, id : 0..MaxBackups, status : Statuses]
    <3>1. \A label \in Statuses : [viewer EXCEPT !.pc = "idle", !.status = label] \in
            [pc : {"idle", "read", "verify"}, id : 0..MaxBackups, status : Statuses]
      BY DEF BackupTypeOK
    <3>2. CASE FindManifest
      <4>1. \A b \in All : b \in 0..MaxBackups
        BY <1>n DEF All
      <4> QED BY <3>2, <4>1 DEF FindManifest, Statuses
    <3>3. CASE ReadManifest
      <4>1. [viewer EXCEPT !.pc = "verify"] \in
              [pc : {"idle", "read", "verify"}, id : 0..MaxBackups, status : Statuses]
        BY DEF BackupTypeOK
      <4>2. {"manifest_invalid", "database_missing"} \subseteq Statuses
        BY DEF Statuses
      <4> QED BY <3>1, <3>3, <4>1, <4>2 DEF ReadManifest, Show
    <3>4. CASE VerifyCopy
      BY <3>1, <3>4 DEF VerifyCopy, Show, Statuses
    <3> QED BY <1>9, <3>2, <3>3, <3>4
  <2> QED BY <1>9, <2>1 DEF FindManifest, ReadManifest, VerifyCopy, BackupTypeOK
<1>10. CASE KillBackup
  <2>1. kills' \in 0..MaxKills
    BY <1>10, <1>n DEF KillBackup, BackupTypeOK
  <2>2. NoViewer \in [pc : {"idle", "read", "verify"}, id : 0..MaxBackups, status : Statuses]
    BY <1>n DEF NoViewer, Statuses
  <2> QED BY <1>10, <1>n, <1>m, <2>1, <2>2 DEF KillBackup, BackupTypeOK
<1>11. CASE UNCHANGED backupVars
  BY <1>11 DEF backupVars, BackupTypeOK
<1> QED BY <1>1, <1>2, <1>3, <1>4, <1>5, <1>6, <1>7, <1>8, <1>9, <1>10, <1>11 DEF BackupStep

\* A step after which no fewer of the newest are whole, and none more is promised.
LEMMA NoneIsLost ==
  ASSUME BackupTypeOK, BackupTypeOK', GoodOnesRemain,
         Good \subseteq Good', Cardinality(Newest)' <= Cardinality(Newest),
         spoilt' = spoilt, Reached' <= Reached
  PROVE  GoodOnesRemain'
<1>1. /\ Cardinality(Good) \in Nat /\ Cardinality(Newest) \in Nat
  BY GoodSets
<1>2. /\ IsFiniteSet(Good)' /\ (Cardinality(Good) \in Nat)'
      /\ (Cardinality(Newest) \in Nat)'
  BY GoodSets, PTL
<1>3. Cardinality(Good) <= Cardinality(Good')
  BY <1>2, FS_Subset
<1>4. /\ spoilt \in Nat /\ done \in Nat /\ done' \in Nat /\ Retention \in Nat
      /\ Reached \in {done, done + 1} /\ Reached' \in {done', done' + 1}
  <2>1. /\ spoilt \in 0..MaxBackups /\ done \in 0..MaxBackups
        /\ done' \in 0..MaxBackups /\ MaxBackups \in Nat
    BY RetentionAssumption DEF BackupTypeOK
  <2>2. Reached \in {done, done + 1} /\ Reached' \in {done', done' + 1}
    BY DEF Reached
  <2>3. spoilt \in Nat /\ done \in Nat /\ done' \in Nat /\ Retention \in Nat
    BY <2>1, RetentionAssumption
  <2> QED BY <2>2, <2>3
<1> QED BY <1>1, <1>2, <1>3, <1>4 DEF GoodOnesRemain

\* The numbers, what retention may remove, and the tally.
LEMMA StepBooks ==
  ASSUME BackupTypeOK, Numbered, OldIsBeyond, Tally, [BackupStep]_backupVars
  PROVE  Numbered' /\ OldIsBeyond' /\ Tally'
<1>n. /\ MaxBackups \in Nat /\ manifests \in SUBSET (1..MaxBackups)
      /\ maker.id \in Nat /\ done \in Nat /\ spoilt \in Nat
      /\ maker \in [pc : {"idle"} \cup Making, id : 0..MaxBackups, old : SUBSET All]
  <2>1. /\ maker.id \in 0..MaxBackups /\ done \in 0..MaxBackups
        /\ spoilt \in 0..MaxBackups
    BY DEF BackupTypeOK
  <2> QED BY <2>1, GoodSets, RetentionAssumption DEF BackupTypeOK
<1>1. CASE BeginBackup
  <2>1. /\ maker' = [pc |-> "copy", id |-> maker.id + 1, old |-> {}]
        /\ UNCHANGED <<manifests, databases, done, spoilt>>
    BY <1>1 DEF BeginBackup
  <2>2. maker.id + 1 \notin manifests /\ manifests \subseteq 1..(maker.id + 1)
    BY <1>n DEF Numbered
  <2>3. done + spoilt < maker.id + 1
    BY <1>n DEF Tally
  <2>4. Numbered' /\ OldIsBeyond'
    BY <2>1, <2>2 DEF Numbered, OldIsBeyond
  <2>5. Tally'
    BY <1>n, <2>1, <2>3 DEF Tally
  <2> QED BY <2>4, <2>5
<1>2. CASE Copy
  <2>1. /\ maker' = [maker EXCEPT !.pc = "replace"] /\ maker.pc = "copy"
        /\ UNCHANGED <<manifests, databases, done, spoilt>>
    BY <1>2 DEF Copy, Goto
  <2> QED BY <1>n, <2>1 DEF Numbered, OldIsBeyond, Tally, Making
<1>3. CASE ReplaceCopy
  <2>1. /\ maker' = [maker EXCEPT !.pc = "manifest"] /\ maker.pc = "replace"
        /\ databases' = databases \cup {maker.id} /\ UNCHANGED <<manifests, done, spoilt>>
    BY <1>3 DEF ReplaceCopy, Goto
  <2> QED BY <1>n, <2>1 DEF Numbered, OldIsBeyond, Tally, Making
<1>4. CASE WriteManifest
  <2>1. /\ maker' = [maker EXCEPT !.pc = "retain"] /\ maker.pc = "manifest"
        /\ manifests' = manifests \cup {maker.id} /\ UNCHANGED <<databases, done, spoilt>>
    BY <1>4 DEF WriteManifest, Goto
  <2>2. done + spoilt < maker.id
    BY <2>1 DEF Tally, Making
  <2>3. maker.id \in 1..maker.id
    BY <1>n, <2>2
  <2> QED BY <1>n, <2>1, <2>2, <2>3 DEF Numbered, OldIsBeyond, Tally
<1>5. CASE ListOld
  <2>1. /\ maker' = [maker EXCEPT !.pc = "drop copy", !.old = Beyond(manifests)]
        /\ maker.pc = "retain" /\ UNCHANGED <<manifests, databases, done, spoilt>>
    BY <1>5 DEF ListOld
  <2> QED BY <1>n, <2>1 DEF Numbered, OldIsBeyond, Tally, Making
<1>6. CASE Created
  <2>1. /\ maker'.pc = "idle" /\ maker'.id = maker.id /\ maker.pc = "drop copy"
        /\ done' = done + 1 /\ UNCHANGED <<manifests, databases, spoilt>>
    BY <1>6 DEF Created, Resting
  <2>2. done + spoilt < maker.id
    BY <2>1 DEF Tally, Making
  <2>3. done + 1 + spoilt <= maker.id
    BY <1>n, <2>2
  <2> QED BY <2>1, <2>3 DEF Numbered, OldIsBeyond, Tally, Making
<1>7. CASE DropCopy
  <2>1. /\ maker' = [maker EXCEPT !.pc = "drop manifest"] /\ maker.pc = "drop copy"
        /\ maker.old # {} /\ UNCHANGED <<manifests, done, spoilt>>
    BY <1>7 DEF DropCopy, Goto
  <2> QED BY <1>n, <2>1 DEF Numbered, OldIsBeyond, Tally, Making
<1>8. CASE DropManifest
  <2> DEFINE b == Max(maker.old)
  <2>1. /\ maker' = [maker EXCEPT !.pc = "drop copy", !.old = maker.old \ {b}]
        /\ manifests' = manifests \ {b}
        /\ maker.pc = "drop manifest" /\ UNCHANGED <<databases, done, spoilt>>
    BY <1>8 DEF DropManifest
  <2>2. maker.old \subseteq Beyond(manifests) /\ b \in maker.old
    <3>1. maker.old \in SUBSET (1..MaxBackups) /\ maker.old # {}
      BY <1>n, <2>1 DEF OldIsBeyond, All
    <3> QED BY <1>n, <2>1, <3>1, Maximum DEF OldIsBeyond
  <2>3. Beyond(manifests \ {b}) = Beyond(manifests) \ {b}
    BY <1>n, <2>2, RemoveBeyond
  <2> HIDE DEF b
  <2>4. maker'.pc = "drop copy" /\ maker'.id = maker.id /\ maker'.old = maker.old \ {b}
    BY <1>n, <2>1
  <2> QED BY <2>1, <2>2, <2>3, <2>4 DEF Numbered, OldIsBeyond, Tally, Making
<1>9. CASE Fail
  <2>1. /\ maker' = [maker EXCEPT !.pc = "undo"] /\ maker.pc \in Making \ {"undo"}
        /\ spoilt' \in {spoilt, spoilt + 1} /\ UNCHANGED <<manifests, databases, done>>
    BY <1>9 DEF Fail, Goto
  <2>2. done + spoilt < maker.id
    BY <2>1 DEF Tally
  <2>3. done + spoilt + 1 <= maker.id /\ done + spoilt <= maker.id
    BY <1>n, <2>2
  <2>4. maker'.pc = "undo" /\ maker'.id = maker.id
    BY <1>n, <2>1
  <2>5. done' + spoilt' <= maker'.id
    BY <1>n, <2>1, <2>3, <2>4
  <2> QED BY <2>1, <2>4, <2>5 DEF Numbered, OldIsBeyond, Tally, Making
<1>10. CASE Undo
  <2>1. /\ maker.pc = "undo"
        /\ manifests' \in {manifests, manifests \ {maker.id}} /\ UNCHANGED <<done, spoilt>>
    BY <1>10 DEF Undo
  <2>2. maker'.id = maker.id /\ maker'.pc \in {"idle", "undo"}
    BY <1>10 DEF Undo, Resting
  <2> QED BY <2>1, <2>2 DEF Numbered, OldIsBeyond, Tally, Making
<1>11. CASE UNCHANGED <<manifests, databases, maker, done, spoilt>>
  BY <1>11 DEF Numbered, OldIsBeyond, Tally
<1>12. CASE KillBackup
  <2>1. /\ maker'.id = maker.id /\ maker'.pc = "idle"
        /\ UNCHANGED <<manifests, databases, done, spoilt>>
    BY <1>12 DEF KillBackup, Resting
  <2> QED BY <2>1 DEF Numbered, OldIsBeyond, Tally, Making
<1> QED BY <1>1, <1>2, <1>3, <1>4, <1>5, <1>6, <1>7, <1>8, <1>9, <1>10, <1>11, <1>12
       DEF BackupStep, backupVars, FindManifest, ReadManifest, VerifyCopy

\* Every step keeps the count of the newest manifests that still have their copy.
LEMMA StepKeepsGood ==
  ASSUME RetentionInv, [BackupStep]_backupVars
  PROVE  GoodOnesRemain'
<1>t. BackupTypeOK /\ BackupTypeOK'
  BY StepTypes DEF RetentionInv
<1>n. /\ MaxBackups \in Nat /\ manifests \in SUBSET (1..MaxBackups)
      /\ Newest = Spared(manifests) /\ Newest' = Spared(manifests')
      /\ Newest \subseteq manifests
      /\ maker \in [pc : {"idle"} \cup Making, id : 0..MaxBackups, old : SUBSET All]
      /\ done \in Nat /\ maker.id \in Nat
  <2>1. done \in 0..MaxBackups /\ maker.id \in 0..MaxBackups
    BY <1>t DEF BackupTypeOK
  <2> QED BY <1>t, <2>1, GoodSets DEF BackupTypeOK, Newest, Spared
<1>c. /\ IsFiniteSet(Newest) /\ Cardinality(Newest) \in Nat
      /\ IsFiniteSet(Good) /\ Cardinality(Good) \in Nat
      /\ IsFiniteSet(Newest') /\ Cardinality(Newest') \in Nat
      /\ IsFiniteSet(Good') /\ Cardinality(Good') \in Nat
  <2>1. /\ IsFiniteSet(Newest) /\ Cardinality(Newest) \in Nat
        /\ IsFiniteSet(Good) /\ Cardinality(Good) \in Nat
    BY <1>t, GoodSets
  <2>2. /\ IsFiniteSet(Newest)' /\ (Cardinality(Newest) \in Nat)'
        /\ IsFiniteSet(Good)' /\ (Cardinality(Good) \in Nat)'
    BY <1>t, GoodSets, PTL
  <2> QED BY <2>1, <2>2
<1>s. spoilt \in Nat /\ spoilt' \in Nat /\ Retention \in Nat
  <2>1. spoilt \in 0..MaxBackups /\ spoilt' \in 0..MaxBackups
    BY <1>t DEF BackupTypeOK
  <2> QED BY <1>n, <2>1, RetentionAssumption
<1>e. ASSUME done' = done, Finishing' => Finishing
      PROVE  Reached' <= Reached
  <2>1. Reached' = IF Finishing' THEN done' + 1 ELSE done'
    BY DEF Reached
  <2>2. Reached = IF Finishing THEN done + 1 ELSE done
    BY DEF Reached
  <2> QED BY <1>n, <1>e, <2>1, <2>2
<1>r. RetentionInv /\ GoodOnesRemain /\ Numbered /\ OldIsBeyond
  BY DEF RetentionInv
\* Steps that touch no manifest and no copy of a newest one.
<1>q. ASSUME manifests' = manifests, Newest \cap databases \subseteq databases',
             maker.pc # "undo" \/ maker'.pc = "idle" \/ maker' = maker,
             maker'.pc # "undo" \/ maker' = maker,
             spoilt' = spoilt, Reached' <= Reached
      PROVE  GoodOnesRemain'
  <2>1. Newest' = Newest
    BY <1>n, <1>q
  <2>2. Good \subseteq Good'
    BY <1>q, <2>1 DEF Good
  <2>3. Cardinality(Newest)' <= Cardinality(Newest)
    BY <1>c, <2>1
  <2> QED BY <1>q, <1>r, <1>t, <2>2, <2>3, NoneIsLost
<1>1. CASE BeginBackup \/ Copy \/ ReplaceCopy \/ KillBackup
  <2>1. /\ UNCHANGED <<manifests, spoilt, done>> /\ databases \subseteq databases'
        /\ maker'.pc \in {"idle", "copy", "replace", "manifest"}
        /\ maker.pc # "undo" \/ maker'.pc = "idle"
    BY <1>1, <1>n DEF BeginBackup, Copy, ReplaceCopy, KillBackup, Goto, Resting
  <2>2. Reached' <= Reached
    BY <1>e, <2>1 DEF Finishing
  <2> QED BY <1>q, <2>1, <2>2
<1>2. CASE WriteManifest
  <2>1. /\ manifests' = manifests \cup {maker.id} /\ maker.pc = "manifest"
        /\ maker'.pc = "retain" /\ UNCHANGED <<databases, done, spoilt>>
    BY <1>2, <1>n DEF WriteManifest, Goto
  <2>2. /\ maker.id \notin manifests /\ maker.id \in databases
        /\ manifests \subseteq 1..maker.id
    BY <1>r, <2>1 DEF Numbered
  <2>3. maker.id \in 1..MaxBackups /\ \A b \in manifests : b < maker.id
    <3>1. done + spoilt < maker.id
      BY <2>1 DEF RetentionInv, Tally, Making
    <3>2. maker.id \in 0..MaxBackups /\ maker.id # 0
      BY <1>n, <1>s, <3>1
    <3> QED BY <1>n, <2>2, <3>2
  <2>4. Good = Newest \cap databases /\ Good' = Newest' \cap databases
        /\ Reached = done /\ Reached' = done + 1
    BY <2>1 DEF Good, Reached, Finishing
  <2>5. maker.id \notin Newest /\ maker.id \notin Good
    BY <1>n, <2>2, <2>4
  <2>6. CASE Newest' = Newest \cup {maker.id}
    <3>1. Good' = Good \cup {maker.id}
      BY <2>2, <2>4, <2>6
    <3>2. /\ Cardinality(Good') = Cardinality(Good) + 1
          /\ Cardinality(Newest') = Cardinality(Newest) + 1
      BY <1>c, <2>5, <2>6, <3>1, FS_AddElement
    <3>3. /\ Cardinality(Good) + spoilt >= Cardinality(Newest)
          /\ \/ Cardinality(Good) + spoilt >= Retention
             \/ Cardinality(Good) + spoilt >= done
      BY <1>r, <2>4 DEF GoodOnesRemain
    <3>4. /\ Cardinality(Good') + spoilt >= Cardinality(Newest')
          /\ \/ Cardinality(Good') + spoilt >= Retention
             \/ Cardinality(Good') + spoilt >= done + 1
      BY <1>c, <1>n, <1>s, <3>2, <3>3
    <3> QED BY <2>1, <2>4, <3>4 DEF GoodOnesRemain
  <2>7. ASSUME NEW e \in Newest, Newest' = (Newest \ {e}) \cup {maker.id},
               Cardinality(Newest) >= Retention
        PROVE  GoodOnesRemain'
    <3>1. Good' = (Good \ {e}) \cup {maker.id}
      BY <2>2, <2>4, <2>7
    <3>2. /\ IsFiniteSet(Good \ {e}) /\ IsFiniteSet(Newest \ {e})
          /\ Cardinality(Good \ {e}) \in {Cardinality(Good), Cardinality(Good) - 1}
          /\ Cardinality(Newest \ {e}) = Cardinality(Newest) - 1
      BY <1>c, FS_RemoveElement
    <3>3. /\ Cardinality(Good') = Cardinality(Good \ {e}) + 1
          /\ Cardinality(Newest') = Cardinality(Newest \ {e}) + 1
      BY <2>5, <2>7, <3>1, <3>2, FS_AddElement
    <3>4. Cardinality(Good') >= Cardinality(Good) /\ Cardinality(Newest') = Cardinality(Newest)
      BY <1>c, <3>2, <3>3
    <3>5. Cardinality(Good) + spoilt >= Cardinality(Newest)
      BY <1>r DEF GoodOnesRemain
    <3>6. /\ Cardinality(Good') + spoilt >= Cardinality(Newest')
          /\ Cardinality(Good') + spoilt >= Retention
      BY <1>c, <1>s, <2>7, <3>4, <3>5
    <3> QED BY <2>1, <3>6 DEF GoodOnesRemain
  <2> QED BY <1>n, <2>1, <2>3, <2>6, <2>7, AddNewest
<1>3. CASE ListOld
  <2>1. /\ UNCHANGED <<manifests, databases, done, spoilt>>
        /\ maker.pc = "retain" /\ maker'.pc = "drop copy"
    BY <1>3, <1>n DEF ListOld
  <2>2. Reached' <= Reached
    BY <1>e, <2>1 DEF Finishing
  <2> QED BY <1>q, <2>1, <2>2
<1>4. CASE Created
  <2>1. /\ UNCHANGED <<manifests, databases, spoilt>> /\ done' = done + 1
        /\ maker.pc = "drop copy" /\ maker'.pc = "idle"
    BY <1>4 DEF Created, Resting
  <2>2. Reached' <= Reached
    <3>1. Reached' = done' /\ Reached = done + 1
      BY <2>1 DEF Reached, Finishing
    <3>2. done \in Nat /\ done' = done + 1
      BY <1>n, <2>1
    <3>3. Reached' = Reached
      BY <3>1, <3>2
    <3>4. Reached \in Nat
      BY <3>1, <3>2
    <3> QED BY <3>3, <3>4
  <2> QED BY <1>q, <2>1, <2>2
<1>5. CASE DropCopy
  <2>1. /\ UNCHANGED <<manifests, done, spoilt>>
        /\ databases' = databases \ {Max(maker.old)}
        /\ maker.old # {} /\ maker.pc = "drop copy" /\ maker'.pc = "drop manifest"
    BY <1>5, <1>n DEF DropCopy, Goto
  <2>2. Max(maker.old) \in Beyond(manifests)
    <3>1. maker.old \in SUBSET (1..MaxBackups)
      BY <1>n DEF All
    <3> QED BY <1>n, <1>r, <2>1, <3>1, Maximum DEF OldIsBeyond
  <2>3. Newest \cap databases \subseteq databases'
    BY <2>1, <2>2 DEF Newest
  <2>4. Reached' <= Reached
    BY <1>e, <2>1 DEF Finishing
  <2> QED BY <1>q, <2>1, <2>3, <2>4
<1>6. CASE DropManifest
  <2>1. /\ UNCHANGED <<databases, done, spoilt>>
        /\ manifests' = manifests \ {Max(maker.old)}
        /\ maker.pc = "drop manifest" /\ maker'.pc = "drop copy"
    BY <1>6, <1>n DEF DropManifest
  <2>2. Max(maker.old) \in Beyond(manifests)
    <3>1. maker.old \in SUBSET (1..MaxBackups)
      BY <1>n DEF All
    <3> QED BY <1>n, <1>r, <2>1, <3>1, Maximum DEF OldIsBeyond
  <2>3. Newest' = Newest
    BY <1>n, <2>1, <2>2, RemoveBeyond
  <2>4. Good' = Good
    BY <2>1, <2>3 DEF Good
  <2>5. Reached' <= Reached
    BY <1>e, <2>1 DEF Finishing
  <2>6. Good \subseteq Good' /\ Cardinality(Newest)' <= Cardinality(Newest)
    BY <1>c, <2>3, <2>4
  <2> QED BY <1>r, <1>t, <2>1, <2>5, <2>6, NoneIsLost
<1>7. CASE Fail
  <2>1. /\ UNCHANGED <<manifests, databases, done>>
        /\ maker.pc \in Making \ {"undo", "retain"}
        /\ maker'.pc = "undo" /\ maker'.id = maker.id
        /\ spoilt' = IF maker.pc \in {"drop copy", "drop manifest"}
                     THEN spoilt + 1 ELSE spoilt
    BY <1>7, <1>n DEF Fail, Goto
  <2>2. Newest' = Newest /\ Good = Newest \cap databases /\ Good' = Good \ {maker.id}
        /\ Reached' = done
    BY <1>n, <2>1 DEF Good, Reached, Finishing
  <2>3. CASE maker.pc \in {"drop copy", "drop manifest"}
    <3>1. Cardinality(Good') \in {Cardinality(Good), Cardinality(Good) - 1}
      BY <1>c, <2>2, FS_RemoveElement
    <3>2. Reached = done + 1 /\ spoilt' = spoilt + 1
      BY <2>1, <2>3 DEF Reached, Finishing
    <3> QED BY <1>c, <1>n, <1>r, <1>s, <2>2, <3>1, <3>2 DEF GoodOnesRemain
  <2>4. CASE maker.pc \notin {"drop copy", "drop manifest"}
    <3>1. maker.pc \in {"copy", "replace", "manifest"} /\ spoilt' = spoilt
      BY <2>1, <2>4 DEF Making
    <3>2. maker.id \notin Newest
      BY <1>n, <1>r, <3>1 DEF Numbered
    <3>3. Good' = Good /\ Reached = done
      BY <2>2, <3>1, <3>2 DEF Reached, Finishing
    <3> QED BY <1>r, <2>2, <3>1, <3>3 DEF GoodOnesRemain
  <2> QED BY <2>3, <2>4
<1>8. CASE Undo
  <2>1. maker.pc = "undo" /\ UNCHANGED <<done, spoilt>>
    BY <1>8 DEF Undo
  <2>2. CASE /\ databases' = databases \ {maker.id}
             /\ UNCHANGED <<manifests, maker>>
    <3>1. Newest' = Newest
      BY <1>n, <2>2
    <3>2. Good' = Good
      BY <2>1, <2>2, <3>1 DEF Good
    <3>3. Reached' = Reached
      BY <2>1, <2>2 DEF Reached, Finishing
    <3> QED BY <1>r, <2>1, <3>1, <3>2, <3>3 DEF GoodOnesRemain
  <2>3. CASE /\ maker.id \notin databases
             /\ manifests' = manifests \ {maker.id}
             /\ maker' = Resting(maker.id) /\ UNCHANGED databases
    <3>1. Newest \ {maker.id} \subseteq Newest' /\ Cardinality(Newest') <= Cardinality(Newest)
      <4>1. CASE maker.id \in manifests
        <5>1. \A b \in manifests : b <= maker.id
          BY <1>n, <1>r DEF Numbered
        <5> QED BY <1>n, <2>3, <4>1, <5>1, RemoveAny
      <4>2. CASE maker.id \notin manifests
        BY <1>c, <1>n, <2>3, <4>2
      <4> QED BY <4>1, <4>2
    <3>2. maker'.pc = "idle"
      BY <2>3 DEF Resting
    <3>3. Good \subseteq Good'
      BY <2>1, <2>3, <3>1, <3>2 DEF Good
    <3>4. Reached' = done /\ Reached = done
      BY <2>1, <3>2 DEF Reached, Finishing
    <3> QED BY <1>n, <1>r, <1>t, <2>1, <3>1, <3>3, <3>4, NoneIsLost
  <2> QED BY <1>8, <2>2, <2>3 DEF Undo
<1>9. CASE UNCHANGED <<manifests, databases, maker, done, spoilt>>
  <2>1. Reached' = Reached /\ Good' = Good /\ Newest' = Newest
    BY <1>9, <1>n DEF Reached, Finishing, Good
  <2> QED BY <1>9, <1>r, <2>1 DEF GoodOnesRemain
<1> QED BY <1>1, <1>2, <1>3, <1>4, <1>5, <1>6, <1>7, <1>8, <1>9
       DEF BackupStep, backupVars, FindManifest, ReadManifest, VerifyCopy

\* At the start there is no backup.
LEMMA Start == ASSUME BackupInit PROVE RetentionInv
<1>1. BackupTypeOK
  BY RetentionAssumption DEF BackupInit, BackupTypeOK, Resting, NoViewer, Statuses
<1>2. Numbered /\ OldIsBeyond /\ Tally
  BY DEF BackupInit, Numbered, OldIsBeyond, Tally, Resting, Making
<1>3. Newest = {} /\ Good = {} /\ Reached = 0 /\ spoilt = 0
  BY DEF BackupInit, Newest, Good, Reached, Finishing, Resting
<1>4. GoodOnesRemain
  BY <1>3, FS_EmptySet DEF GoodOnesRemain
<1> QED BY <1>1, <1>2, <1>4 DEF RetentionInv

-----------------------------------------------------------------------------
\* Copies, manifests, the create under way and the counters fit together:
\* retention goes by manifests, and of the newest ones as many have their copy
\* as spoilt creates do not account for (create, _apply_retention).
THEOREM RetentionIsExact == BackupSpec => []RetentionInv
<1>1. BackupInit => RetentionInv
  BY Start
<1>2. RetentionInv /\ [BackupStep]_backupVars => RetentionInv'
  BY StepTypes, StepBooks, StepKeepsGood DEF RetentionInv
<1> QED BY <1>1, <1>2, PTL DEF BackupSpec

\* As many whole backups remain as retention promises, or as were ever made,
\* whatever creates fail and whenever the process is killed, except for those
\* that fail while they remove older backups (create, _apply_retention).
THEOREM BackupsRemain == BackupSpec => []EnoughRemain
<1>1. RetentionInv => EnoughRemain
  <2> SUFFICES ASSUME RetentionInv PROVE EnoughRemain
    OBVIOUS
  <2>1. done \in Nat /\ spoilt \in Nat /\ Retention \in Nat
    <3>1. done \in 0..MaxBackups /\ spoilt \in 0..MaxBackups
      BY DEF RetentionInv, BackupTypeOK
    <3> QED BY <3>1, RetentionAssumption
  <2>2. /\ Good \subseteq Whole /\ IsFiniteSet(Whole)
        /\ Cardinality(Good) \in Nat /\ Cardinality(Whole) \in Nat
    <3>1. /\ Good \subseteq Whole /\ Whole \subseteq manifests
          /\ manifests \in SUBSET (1..MaxBackups) /\ MaxBackups \in Nat /\ Cardinality(Good) \in Nat
      BY GoodSets DEF RetentionInv, Whole
    <3>2. IsFiniteSet(Whole)
      BY <3>1, NumberedAreFinite, FS_Subset
    <3> QED BY <3>1, <3>2, FS_CardinalityType
  <2>3. Cardinality(Good) <= Cardinality(Whole)
    BY <2>2, FS_Subset
  <2>4. /\ Min({Retention, done}) \in {Retention, done}
        /\ Min({Retention, done}) <= Retention /\ Min({Retention, done}) <= done
    <3>1. \E x \in {Retention, done} : \A y \in {Retention, done} : x =< y
      BY <2>1
    <3> QED BY <2>1, <3>1 DEF Min
  <2>5. Reached \in {done, done + 1}
    BY DEF Reached
  <2>6. \/ Cardinality(Good) + spoilt >= Retention
        \/ Cardinality(Good) + spoilt >= done
    BY <2>1, <2>2, <2>5 DEF RetentionInv, GoodOnesRemain
  <2> QED BY <2>1, <2>2, <2>3, <2>4, <2>6 DEF EnoughRemain
<1> QED BY <1>1, RetentionIsExact, PTL

(***************************************************************************)
(* The 115 cookie and the runtime that follows it.                         *)
(***************************************************************************)
\* Between taking the lock and giving it back a request is the only one.
Locked == {"assert", "validate", "commit", "apply", "fallback", "available", "runtime"}
SettingsRow ==
  [revision : Nat, cookie : Cookies \cup {NoCookie}, readable : BOOLEAN, other : Nat]
AdminRecord ==
  [pc : Locked \cup {"idle", "lock"}, value : Cookies \cup {NoCookie},
   seen : SettingsRow \cup {[revision |-> 0]}, ready : BOOLEAN]

AdminTypes ==
  /\ settings \in SettingsRow
  /\ admin \in [Admins -> AdminRecord]
  /\ settingsLock \in Admins \cup {"nobody"}

LockIsHeld == \A a \in Admins : admin[a].pc \in Locked <=> settingsLock = a

\* What is stored is what is used, if it can be decrypted, except between the commit
\* and what follows it.
CookieFollows ==
  /\ pushWorker = ready
  /\ IF settingsLock \in Admins /\ admin[settingsLock].pc = "apply"
     THEN admin[settingsLock].value = Credentials!Decrypted(settings)
     ELSE managed = Credentials!Decrypted(settings)

\* Settings that a request has seen are the current ones or have an earlier revision.
SeenIsPast ==
  \A a \in Admins : admin[a].pc # "idle" =>
    /\ admin[a].seen \in SettingsRow
    /\ admin[a].seen.revision <= settings.revision
    /\ admin[a].seen.revision = settings.revision => admin[a].seen = settings

CredentialInv == AdminTypes /\ LockIsHeld /\ CookieFollows /\ SeenIsPast

-----------------------------------------------------------------------------
\* The program starts with what is stored, and nobody has the lock.
LEMMA CredentialsBegin ==
  ASSUME "nobody" \notin Admins, Credentials!Init PROVE CredentialInv
<1>1. /\ settings \in SettingsRow /\ Credentials!Decrypted(settings) = NoCookie
      /\ \A a \in Admins : admin[a] = Credentials!Idle /\ admin[a].pc = "idle"
      /\ admin \in [Admins -> AdminRecord] /\ settingsLock = "nobody"
  BY DEF Credentials!Init, SettingsRow, AdminRecord, Credentials!Idle, Credentials!Nobody,
         Credentials!Decrypted
<1> QED
  BY <1>1 DEF CredentialInv, AdminTypes, LockIsHeld, CookieFollows, SeenIsPast,
              Credentials!Init, Locked

\* A request that takes a step of its own, and nobody else does.
LEMMA AdminSteps ==
  ASSUME CredentialInv, NEW a \in Admins, NEW next \in AdminRecord,
         admin' = [admin EXCEPT ![a] = next],
         settings' \in SettingsRow, settingsLock' \in Admins \cup {"nobody"},
         settings'.revision > settings.revision \/ UNCHANGED settings,
         next.pc # "idle" => /\ next.seen \in SettingsRow
                             /\ next.seen.revision <= settings'.revision
                             /\ next.seen.revision = settings'.revision => next.seen = settings',
         next.pc \in Locked <=> settingsLock' = a,
         \A b \in Admins \ {a} : settingsLock' = b <=> settingsLock = b,
         CookieFollows'
  PROVE  CredentialInv'
<1>1. AdminTypes'
  BY DEF CredentialInv, AdminTypes
<1>2. admin'[a] = next /\ \A b \in Admins \ {a} : admin'[b] = admin[b]
  BY DEF CredentialInv, AdminTypes
<1>3. LockIsHeld'
  BY <1>2 DEF CredentialInv, LockIsHeld
<1>4. SeenIsPast'
  <2> SUFFICES ASSUME NEW b \in Admins, admin'[b].pc # "idle"
               PROVE  /\ admin'[b].seen \in SettingsRow
                      /\ admin'[b].seen.revision <= settings'.revision
                      /\ admin'[b].seen.revision = settings'.revision
                           => admin'[b].seen = settings'
    BY DEF SeenIsPast
  <2>1. CASE b = a
    BY <1>2, <2>1
  <2>2. CASE b # a
    <3>1. /\ admin[b].seen \in SettingsRow
          /\ admin[b].seen.revision <= settings.revision
          /\ admin[b].seen.revision = settings.revision => admin[b].seen = settings
      BY <1>2, <2>2 DEF CredentialInv, SeenIsPast
    <3>2. /\ admin[b].seen.revision \in Nat /\ settings.revision \in Nat
          /\ settings'.revision \in Nat
      BY <3>1 DEF CredentialInv, AdminTypes, SettingsRow
    <3>3. CASE settings'.revision > settings.revision
      BY <1>2, <2>2, <3>1, <3>2, <3>3
    <3>4. CASE UNCHANGED settings
      BY <1>2, <2>2, <3>1, <3>4
    <3> QED BY <3>3, <3>4
  <2> QED BY <2>1, <2>2
<1> QED BY <1>1, <1>3, <1>4 DEF CredentialInv

\* A request reads the settings before it waits for the lock.
LEMMA RequestKeeps ==
  ASSUME "nobody" \notin Admins, CredentialInv, NEW a \in Admins,
         NEW value \in Cookies \cup {NoCookie}, Credentials!Request(a, value)
  PROVE  CredentialInv'
<1> DEFINE next == [Credentials!Idle EXCEPT !.pc = "lock", !.value = value,
                                            !.seen = settings]
<1>1. /\ next \in AdminRecord /\ next.pc = "lock" /\ next.seen = settings
      /\ admin' = [admin EXCEPT ![a] = next]
      /\ UNCHANGED <<settings, managed, ready, pushWorker, settingsLock>>
      /\ settings \in SettingsRow /\ settings.revision \in Nat
  BY DEF Credentials!Request, Credentials!Idle, AdminRecord, CredentialInv, AdminTypes,
         SettingsRow
<1> HIDE DEF next
<1>2. settingsLock # a
  BY DEF Credentials!Request, Credentials!Idle, CredentialInv, LockIsHeld, Locked
<1>3. CookieFollows'
  BY <1>1, <1>2 DEF CookieFollows, CredentialInv, AdminTypes
<1>4. next.pc \notin Locked /\ settingsLock' # a /\ settingsLock' \in Admins \cup {"nobody"}
  BY <1>1, <1>2 DEF Locked, CredentialInv, AdminTypes
<1>5. /\ settings' \in SettingsRow /\ next.seen \in SettingsRow /\ next.seen = settings'
      /\ next.seen.revision <= settings'.revision
      /\ \A b \in Admins \ {a} : settingsLock' = b <=> settingsLock = b
  BY <1>1
<1> QED BY <1>1, <1>3, <1>4, <1>5, AdminSteps

\* A request moves on with the lock, without writing the settings.
LEMMA HolderSteps ==
  ASSUME "nobody" \notin Admins, CredentialInv, NEW a \in Admins, NEW next \in AdminRecord,
         admin' = [admin EXCEPT ![a] = next],
         admin[a].pc \in Locked \cup {"lock"}, settingsLock \in {a, "nobody"},
         next.pc \in Locked => settingsLock' = a /\ next.seen = admin[a].seen,
         next.pc \notin Locked => next.pc = "idle" /\ settingsLock' = "nobody",
         UNCHANGED settings, CookieFollows'
  PROVE  CredentialInv'
<1>1. /\ admin[a].seen \in SettingsRow
      /\ admin[a].seen.revision <= settings.revision
      /\ admin[a].seen.revision = settings.revision => admin[a].seen = settings
  BY DEF CredentialInv, SeenIsPast, Locked
<1>2. \A b \in Admins \ {a} : settingsLock' = b <=> settingsLock = b
  OBVIOUS
<1>3. settings \in SettingsRow
  BY DEF CredentialInv, AdminTypes
<1> QED BY <1>1, <1>2, <1>3, AdminSteps DEF Locked

\* Where a request goes next.
LEMMA Moves ==
  ASSUME CredentialInv, NEW a \in Admins, NEW label \in Locked
  PROVE  LET next == [admin[a] EXCEPT !.pc = label]
         IN  /\ next \in AdminRecord /\ next.pc = label /\ next.seen = admin[a].seen
             /\ next.value = admin[a].value
             /\ [admin EXCEPT ![a].pc = label] = [admin EXCEPT ![a] = next]
BY DEF CredentialInv, AdminTypes, AdminRecord, Locked

\* A request that is over.
LEMMA Rests ==
  Credentials!Idle \in AdminRecord /\ Credentials!Idle.pc = "idle" /\ "idle" \notin Locked
BY DEF Credentials!Idle, AdminRecord, Locked

\* A request with the lock is the only one that is not waiting for it.
LEMMA HoldsTheLock ==
  ASSUME "nobody" \notin Admins, CredentialInv, NEW a \in Admins, admin[a].pc \in Locked
  PROVE  settingsLock = a
BY DEF CredentialInv, LockIsHeld

\* A request gets the lock, which nobody has.
LEMMA AcquireKeeps ==
  ASSUME "nobody" \notin Admins, CredentialInv, NEW a \in Admins, Credentials!Acquire(a)
  PROVE  CredentialInv'
<1>1. PICK label \in {"commit", "assert"} : admin' = [admin EXCEPT ![a].pc = label]
  BY DEF Credentials!Acquire, Credentials!Goto
<1>2. label \in Locked /\ label # "apply"
  BY DEF Locked
<1>3. /\ admin[a].pc = "lock" /\ settingsLock = "nobody" /\ settingsLock' = a
      /\ UNCHANGED <<settings, managed, ready, pushWorker>>
  BY DEF Credentials!Acquire, Credentials!Nobody
<1>4. admin'[a].pc = label
  BY <1>1 DEF CredentialInv, AdminTypes
<1>5. CookieFollows'
  BY <1>2, <1>3, <1>4 DEF CookieFollows, CredentialInv
<1> QED BY <1>1, <1>2, <1>3, <1>5, Moves, HolderSteps

\* A request that has not committed gives up.
LEMMA EndKeeps ==
  ASSUME "nobody" \notin Admins, CredentialInv, NEW a \in Admins,
         admin[a].pc \in {"assert", "validate", "commit"},
         Credentials!Finish(a), UNCHANGED <<settings, managed, ready, pushWorker>>
  PROVE  CredentialInv'
<1>1. settingsLock = a /\ settingsLock' = "nobody"
      /\ admin' = [admin EXCEPT ![a] = Credentials!Idle]
  BY HoldsTheLock DEF Credentials!Finish, Credentials!Nobody, Locked
<1>2. CookieFollows'
  BY <1>1 DEF CookieFollows, CredentialInv
<1> QED BY <1>1, <1>2, Rests, HolderSteps DEF Locked

\* It goes on with the lock.
LEMMA GoOnKeeps ==
  ASSUME "nobody" \notin Admins, CredentialInv, NEW a \in Admins, NEW label \in Locked,
         admin[a].pc \in Locked, label # "apply",
         admin' = [admin EXCEPT ![a].pc = label],
         UNCHANGED <<settings, settingsLock, ready, pushWorker>>,
         IF admin[a].pc = "apply" THEN managed' = admin[a].value ELSE UNCHANGED managed
  PROVE  CredentialInv'
<1>1. settingsLock = a /\ settingsLock' = a /\ admin'[a].pc = label
  BY HoldsTheLock DEF CredentialInv, AdminTypes
<1>2. CookieFollows'
  BY <1>1 DEF CookieFollows, CredentialInv
<1> QED BY <1>1, <1>2, Moves, HolderSteps

\* The checks before the commit, and what follows it up to the probe of 115.
LEMMA HolderKeeps ==
  ASSUME "nobody" \notin Admins, CredentialInv, NEW a \in Admins,
         \/ Credentials!AssertRevision(a) \/ Credentials!Validate(a)
         \/ Credentials!ApplyCookie(a) \/ Credentials!ValidateFallback(a)
  PROVE  CredentialInv'
<1> USE DEF Credentials!Goto
<1>1. CASE Credentials!AssertRevision(a)
  BY <1>1, EndKeeps, GoOnKeeps DEF Credentials!AssertRevision, Locked
<1>2. CASE Credentials!Validate(a)
  BY <1>2, EndKeeps, GoOnKeeps DEF Credentials!Validate, Locked
<1>3. CASE Credentials!ApplyCookie(a)
  <2>1. PICK label \in {"available", "fallback", "runtime"} :
          admin' = [admin EXCEPT ![a].pc = label]
    BY <1>3 DEF Credentials!ApplyCookie
  <2> QED BY <1>3, <2>1, GoOnKeeps DEF Credentials!ApplyCookie, Locked
<1>4. CASE Credentials!ValidateFallback(a)
  BY <1>4, GoOnKeeps DEF Credentials!ValidateFallback, Locked
<1> QED BY <1>1, <1>2, <1>3, <1>4

\* Whether 115 answers decides what the worker is told, which it learns later.
LEMMA EnsureKeeps ==
  ASSUME "nobody" \notin Admins, CredentialInv, NEW a \in Admins,
         Credentials!EnsureAvailable(a)
  PROVE  CredentialInv'
<1>1. PICK found \in BOOLEAN :
        admin' = [admin EXCEPT ![a].pc = "runtime", ![a].ready = found]
  BY DEF Credentials!EnsureAvailable, Credentials!Available
<1> DEFINE next == [admin[a] EXCEPT !.pc = "runtime", !.ready = found]
<1>2. /\ next \in AdminRecord /\ next.pc = "runtime" /\ next.seen = admin[a].seen
      /\ admin' = [admin EXCEPT ![a] = next]
  BY <1>1 DEF CredentialInv, AdminTypes, AdminRecord, Locked
<1> HIDE DEF next
<1>3. /\ admin[a].pc = "available" /\ admin'[a].pc = "runtime"
      /\ UNCHANGED <<settings, managed, ready, pushWorker, settingsLock>>
  BY <1>2 DEF Credentials!EnsureAvailable, CredentialInv, AdminTypes
<1>4. settingsLock = a
  BY <1>3, HoldsTheLock DEF Locked
<1>5. CookieFollows'
  BY <1>3, <1>4 DEF CookieFollows, CredentialInv
<1> QED BY <1>2, <1>3, <1>4, <1>5, HolderSteps DEF Locked

\* The worker is told, and the lock is given back.
LEMMA SetRuntimeKeeps ==
  ASSUME "nobody" \notin Admins, CredentialInv, NEW a \in Admins, Credentials!SetRuntime(a)
  PROVE  CredentialInv'
<1>1. /\ admin[a].pc = "runtime" /\ pushWorker' = ready'
      /\ UNCHANGED <<settings, managed>>
      /\ admin' = [admin EXCEPT ![a] = Credentials!Idle] /\ settingsLock' = "nobody"
  BY DEF Credentials!SetRuntime, Credentials!Finish, Credentials!Nobody
<1>2. settingsLock = a
  BY <1>1, HoldsTheLock DEF Locked
<1>3. CookieFollows'
  BY <1>1, <1>2 DEF CookieFollows, CredentialInv
<1> QED BY <1>1, <1>2, <1>3, Rests, HolderSteps DEF Locked

\* The commit, at the revision that the request has seen.
LEMMA CommitKeepsSettings ==
  ASSUME "nobody" \notin Admins, CredentialInv, NEW a \in Admins, Credentials!Commit(a)
  PROVE  CredentialInv'
<1>1. CASE Credentials!Finish(a) /\ UNCHANGED settings
  BY <1>1, EndKeeps DEF Credentials!Commit
<1>2. CASE settings' = [settings EXCEPT !.cookie = admin[a].value, !.readable = TRUE,
                                        !.revision = @ + 1]
           /\ admin' = [admin EXCEPT ![a].pc = "apply"] /\ UNCHANGED settingsLock
  <2>1. /\ settings \in SettingsRow /\ settings' \in SettingsRow
        /\ settings'.revision > settings.revision
        /\ Credentials!Decrypted(settings') = admin[a].value
        /\ settings.revision \in Nat /\ settings'.revision = settings.revision + 1
    <3>1. settings \in SettingsRow /\ admin[a].value \in Cookies \cup {NoCookie}
      BY DEF CredentialInv, AdminTypes, AdminRecord
    <3>2. settings.revision \in Nat /\ settings.revision + 1 \in Nat
      BY <3>1 DEF SettingsRow
    <3>3. /\ settings' \in SettingsRow /\ settings'.cookie = admin[a].value
          /\ settings'.readable
          /\ settings'.revision = settings.revision + 1
      BY <1>2, <3>1, <3>2 DEF SettingsRow
    <3> QED BY <3>1, <3>2, <3>3 DEF Credentials!Decrypted
  <2>2. settingsLock = a
    BY HoldsTheLock DEF Credentials!Commit, Locked
  <2>3. /\ admin'[a].pc = "apply" /\ admin'[a].value = admin[a].value
        /\ admin[a].pc = "commit" /\ UNCHANGED <<ready, pushWorker>>
    BY <1>2 DEF CredentialInv, AdminTypes, Credentials!Commit, AdminRecord
  <2>4. CookieFollows'
    BY <1>2, <2>1, <2>2, <2>3 DEF CookieFollows, CredentialInv
  <2>5. /\ admin[a].seen \in SettingsRow /\ admin[a].seen.revision <= settings.revision
        /\ admin[a].seen.revision \in Nat
    BY <2>3 DEF CredentialInv, SeenIsPast, SettingsRow
  <2>6. /\ admin[a].seen.revision <= settings'.revision
        /\ admin[a].seen.revision # settings'.revision
    BY <2>1, <2>5
  <2>7. "apply" \in Locked /\ settingsLock' \in Admins \cup {"nobody"}
    BY <1>2, <2>2 DEF Locked
  <2> QED BY <1>2, <2>1, <2>2, <2>4, <2>5, <2>6, <2>7, Moves, AdminSteps
<1> QED BY <1>1, <1>2 DEF Credentials!Commit, Credentials!Goto

\* A request that is cancelled has not committed, and gives back a lock that it has.
LEMMA CancelKeeps ==
  ASSUME "nobody" \notin Admins, CredentialInv, NEW a \in Admins,
         Credentials!CancelRequest(a)
  PROVE  CredentialInv'
<1>1. /\ admin[a].pc \in {"lock", "assert", "validate", "commit"}
      /\ admin' = [admin EXCEPT ![a] = Credentials!Idle]
      /\ UNCHANGED <<settings, managed, ready, pushWorker>>
      /\ settingsLock' = IF settingsLock = a THEN "nobody" ELSE settingsLock
  BY DEF Credentials!CancelRequest, Credentials!Cancellable, Credentials!Nobody
<1>2. /\ settingsLock' # a /\ settingsLock' \in Admins \cup {"nobody"}
      /\ \A b \in Admins \ {a} : settingsLock' = b <=> settingsLock = b
      /\ settings \in SettingsRow
  BY <1>1 DEF CredentialInv, AdminTypes
<1>3. CookieFollows'
  <2>1. settingsLock' \in Admins => settingsLock' = settingsLock /\ settingsLock # a
    BY <1>1, <1>2
  <2>2. \A b \in Admins \ {a} : admin'[b] = admin[b]
    BY <1>1 DEF CredentialInv, AdminTypes
  <2> QED BY <1>1, <1>2, <2>1, <2>2 DEF CookieFollows, CredentialInv, AdminTypes
<1> QED BY <1>1, <1>2, <1>3, Rests, AdminSteps

\* Other settings of the row, the file, and a start.
LEMMA OthersKeepCredentials ==
  ASSUME "nobody" \notin Admins, CredentialInv,
         \/ Credentials!UpdateSettings \/ Credentials!FileChanges
         \/ UNCHANGED <<settings, admin, settingsLock, managed, ready, pushWorker>>
  PROVE  CredentialInv'
<1>1. /\ settings \in SettingsRow /\ settings' \in SettingsRow
      /\ settings.revision \in Nat /\ settings'.revision \in Nat
      /\ UNCHANGED settings \/ settings'.revision > settings.revision
      /\ Credentials!Decrypted(settings') = Credentials!Decrypted(settings)
      /\ UNCHANGED <<admin, settingsLock, managed, ready, pushWorker>>
  <2>1. settings \in SettingsRow /\ settings.revision \in Nat
    BY DEF CredentialInv, AdminTypes, SettingsRow
  <2>2. CASE Credentials!UpdateSettings
    <3>1. settings' = [settings EXCEPT !.other = @ + 1, !.revision = @ + 1]
      BY <2>2 DEF Credentials!UpdateSettings
    <3>2. settings.revision + 1 \in Nat /\ settings.other + 1 \in Nat
      BY <2>1 DEF SettingsRow
    <3>3. /\ settings'.revision = settings.revision + 1
          /\ settings'.cookie = settings.cookie
          /\ settings'.readable = settings.readable
          /\ settings'.other = settings.other + 1
      BY <2>1, <3>1 DEF SettingsRow
    <3>4. settings' \in SettingsRow
      BY <2>1, <3>1, <3>2 DEF SettingsRow
    <3>5. Credentials!Decrypted(settings') = Credentials!Decrypted(settings)
      BY <3>3 DEF Credentials!Decrypted
    <3> QED BY <2>1, <2>2, <3>3, <3>4, <3>5 DEF Credentials!UpdateSettings
  <2>3. CASE UNCHANGED <<settings, admin, settingsLock, managed, ready, pushWorker>>
    BY <2>1, <2>3
  <2> QED BY <2>2, <2>3 DEF Credentials!FileChanges
<1>2. AdminTypes' /\ LockIsHeld' /\ CookieFollows'
  BY <1>1 DEF CredentialInv, AdminTypes, LockIsHeld, CookieFollows
<1>3. SeenIsPast'
  <2>1. \A a \in Admins : admin[a].seen \in SettingsRow => admin[a].seen.revision \in Nat
    BY DEF SettingsRow
  <2> QED BY <1>1, <2>1 DEF CredentialInv, SeenIsPast
<1> QED BY <1>2, <1>3 DEF CredentialInv

\* A start reads what is stored, if it has the key.
LEMMA RestartKeeps ==
  ASSUME "nobody" \notin Admins, CredentialInv, Credentials!Restart
  PROVE  CredentialInv'
<1>1. /\ admin' = [a \in Admins |-> Credentials!Idle] /\ settingsLock' = "nobody"
      /\ managed' = Credentials!Decrypted(settings') /\ pushWorker' = ready'
  BY DEF Credentials!Restart, Credentials!Start, Credentials!Nobody
<1>2. settings' \in SettingsRow
  BY DEF Credentials!Restart, CredentialInv, AdminTypes, SettingsRow
<1> QED
  BY <1>1, <1>2, Rests DEF CredentialInv, AdminTypes, LockIsHeld, CookieFollows, SeenIsPast

\* Every step keeps the invariant.
LEMMA CredentialsKeep ==
  ASSUME "nobody" \notin Admins, CredentialInv,
         [Credentials!Next]_(Credentials!credentialVars)
  PROVE  CredentialInv'
<1>1. CASE Credentials!Next
  BY <1>1, RequestKeeps, AcquireKeeps, HolderKeeps, EnsureKeeps, SetRuntimeKeeps,
     CommitKeepsSettings, CancelKeeps, OthersKeepCredentials, RestartKeeps
  DEF Credentials!Next
<1>2. CASE UNCHANGED Credentials!credentialVars
  BY <1>2, OthersKeepCredentials DEF Credentials!credentialVars
<1> QED BY <1>1, <1>2

\* The invariant holds in every state.
LEMMA CredentialsHold ==
  ASSUME "nobody" \notin Admins PROVE Credentials!Spec => []CredentialInv
BY CredentialsBegin, CredentialsKeep, PTL DEF Credentials!Spec

\* Whenever nobody is changing the settings, the runtime uses the cookie that is
\* stored, if it has the key to it, and the push worker knows whether 115 is available (services/settings.py).
THEOREM RuntimeUsesTheStore ==
  ASSUME "nobody" \notin Admins
  PROVE  Credentials!Spec => []Credentials!RuntimeFollowsStore
<1>1. CredentialInv => Credentials!RuntimeFollowsStore
  BY DEF CredentialInv, CookieFollows, Credentials!RuntimeFollowsStore, Credentials!Nobody
<1> QED BY <1>1, CredentialsHold, PTL

\* A cookie is stored only by a request that has seen the settings as they are at its
\* commit: the lock and the revision leave no gap (services/settings.py).
THEOREM ChangesSawTheSettings ==
  ASSUME "nobody" \notin Admins
  PROVE  Credentials!Spec =>
           [][Credentials!ChangeSawTheSettings]_(Credentials!credentialVars)
<1>1. ASSUME CredentialInv, Credentials!Next PROVE Credentials!ChangeSawTheSettings
  <2> SUFFICES ASSUME NEW a \in Admins, admin[a].pc = "commit", admin'[a].pc = "apply"
               PROVE  settings = admin[a].seen
    BY DEF Credentials!ChangeSawTheSettings
  <2>t. admin \in [Admins -> AdminRecord] /\ Credentials!Idle.pc = "idle"
    BY <1>1, Rests DEF CredentialInv, AdminTypes
  <2>1. ASSUME NEW b \in Admins, NEW next, admin' = [admin EXCEPT ![b] = next]
        PROVE  b = a /\ next.pc = "apply"
    BY <2>1, <2>t
  <2>2. ASSUME NEW b \in Admins, NEW label, admin' = [admin EXCEPT ![b].pc = label]
        PROVE  b = a /\ label = "apply"
    BY <2>2, <2>t DEF AdminRecord
  <2>3. ASSUME NEW b \in Admins, Credentials!Finish(b) PROVE FALSE
    BY <2>1, <2>3, <2>t DEF Credentials!Finish
  <2>4. ASSUME NEW b \in Admins, Credentials!Commit(b)
        PROVE  admin[a].seen.revision = settings.revision
    BY <2>2, <2>3, <2>4 DEF Credentials!Commit, Credentials!Goto, Credentials!Current
  <2>5. ASSUME NEW b \in Admins, NEW value \in Cookies \cup {NoCookie},
               Credentials!Request(b, value)
        PROVE  FALSE
    <3>1. [Credentials!Idle EXCEPT !.pc = "lock", !.value = value,
                                   !.seen = settings].pc = "lock"
      BY DEF Credentials!Idle
    <3> QED BY <2>1, <2>5, <3>1 DEF Credentials!Request
  <2>6. ASSUME NEW b \in Admins,
               \/ Credentials!Acquire(b) \/ Credentials!AssertRevision(b)
               \/ Credentials!Validate(b) \/ Credentials!ApplyCookie(b)
               \/ Credentials!ValidateFallback(b)
        PROVE  FALSE
    <3>1. CASE Credentials!Acquire(b)
      BY <2>2, <3>1 DEF Credentials!Acquire, Credentials!Goto
    <3>2. CASE Credentials!AssertRevision(b)
      BY <2>2, <2>3, <3>2 DEF Credentials!AssertRevision, Credentials!Goto
    <3>3. CASE Credentials!Validate(b)
      BY <2>2, <2>3, <3>3 DEF Credentials!Validate, Credentials!Goto
    <3>4. CASE Credentials!ApplyCookie(b)
      BY <2>2, <3>4 DEF Credentials!ApplyCookie, Credentials!Goto
    <3>5. CASE Credentials!ValidateFallback(b)
      BY <2>2, <3>5 DEF Credentials!ValidateFallback, Credentials!Goto
    <3> QED BY <2>6, <3>1, <3>2, <3>3, <3>4, <3>5
  <2>7. ASSUME NEW b \in Admins, Credentials!EnsureAvailable(b) PROVE FALSE
    <3>1. PICK found : admin' = [admin EXCEPT ![b].pc = "runtime", ![b].ready = found]
      BY <2>7 DEF Credentials!EnsureAvailable
    <3> QED BY <2>t, <3>1 DEF AdminRecord
  <2>8. ASSUME NEW b \in Admins, Credentials!SetRuntime(b) \/ Credentials!CancelRequest(b)
        PROVE  FALSE
    BY <2>1, <2>3, <2>8, <2>t DEF Credentials!SetRuntime, Credentials!CancelRequest
  <2>9. ~UNCHANGED admin /\ ~Credentials!Restart
    BY <2>t DEF Credentials!Restart
  <2>10. admin[a].seen.revision = settings.revision
    BY <1>1, <2>4, <2>5, <2>6, <2>7, <2>8, <2>9
    DEF Credentials!Next, Credentials!UpdateSettings, Credentials!FileChanges
  <2> QED BY <1>1, <2>10 DEF CredentialInv, SeenIsPast
<1>2. ASSUME CredentialInv PROVE [Credentials!Next]_(Credentials!credentialVars)
          => [Credentials!ChangeSawTheSettings]_(Credentials!credentialVars)
  BY <1>1, <1>2
<1> QED BY <1>2, CredentialsHold, PTL DEF Credentials!Spec

(***************************************************************************)
(* The records that people edit: what counts as verified.                  *)
(***************************************************************************)
\* A row of the library, or what an editor has loaded of it.
LibraryRow == [revision : Nat, root : Roots \cup {NoRoot}, verified : BOOLEAN,
               enabled : BOOLEAN]

RecordTypes ==
  /\ library \in LibraryRow /\ target \in Roots
  /\ editor = [e \in Editors |-> editor[e]]
  /\ \A e \in Editors : editor[e].loaded \in LibraryRow

\* A person who is listing the root, or has listed it, lists the root that the
\* library still has, for it is the target and cannot be changed to another.
ListersSeeTheRoot ==
  \A e \in Editors : editor[e].pc \in {"list", "verified"} =>
    /\ editor[e].loaded.root = target /\ library.root = target
    /\ editor[e].pc = "verified" => target \in roots

\* A person who declares the root may have loaded the row before it was verified,
\* but then it was the target that was verified.
DeclarersMeanTheTarget ==
  \A e \in Editors : editor[e].pc = "configure" =>
    /\ editor[e].edit = target
    /\ editor[e].loaded.root = target => library.root = target
    /\ library.verified /\ ~editor[e].loaded.verified => target \in roots

RootInv ==
  RecordTypes /\ ListersSeeTheRoot /\ DeclarersMeanTheTarget /\ Records!VerifiedWasListed

-----------------------------------------------------------------------------
\* Who is idle has loaded nothing.
LEMMA IdleEditor ==
  Records!Idle.loaded \in LibraryRow /\ Records!Idle.pc = "idle"
BY DEF Records!Idle, Records!NoLibrary, LibraryRow

\* One person moves on; the library, the target and what was listed stay.
LEMMA EditorMoves ==
  ASSUME RootInv, NEW e \in Editors, NEW next, editor' = [editor EXCEPT ![e] = next],
         UNCHANGED <<library, target>>, roots \subseteq roots',
         next.loaded \in LibraryRow,
         next.pc \in {"list", "verified"} =>
           /\ next.loaded.root = target /\ library.root = target
           /\ next.pc = "verified" => target \in roots',
         next.pc = "configure" =>
           /\ next.edit = target
           /\ next.loaded.root = target => library.root = target
           /\ library.verified /\ ~next.loaded.verified => target \in roots'
  PROVE  RootInv'
<1>1. editor'[e] = next /\ \A d \in Editors \ {e} : editor'[d] = editor[d]
  BY DEF RootInv, RecordTypes
<1>2. RecordTypes'
  BY <1>1 DEF RootInv, RecordTypes
<1>3. ListersSeeTheRoot'
  BY <1>1 DEF RootInv, ListersSeeTheRoot
<1>4. DeclarersMeanTheTarget'
  BY <1>1 DEF RootInv, DeclarersMeanTheTarget
<1>5. Records!VerifiedWasListed'
  BY DEF RootInv, Records!VerifiedWasListed
<1> QED BY <1>2, <1>3, <1>4, <1>5 DEF RootInv

\* One person writes the library and is answered.
LEMMA EditorWrites ==
  ASSUME RootInv, NEW e \in Editors, editor' = [editor EXCEPT ![e] = Records!Idle],
         UNCHANGED <<target, roots>>, library' \in LibraryRow,
         library'.root \in {library.root, target},
         library'.verified => \/ library.verified /\ library'.root = library.root
                              \/ library'.root = target /\ target \in roots,
         library'.verified /\ ~library.verified => target \in roots
  PROVE  RootInv'
<1>1. editor'[e].pc = "idle" /\ editor'[e].loaded \in LibraryRow
      /\ \A d \in Editors \ {e} : editor'[d] = editor[d]
  BY IdleEditor DEF RootInv, RecordTypes
<1>2. RecordTypes'
  BY <1>1 DEF RootInv, RecordTypes
<1>3. ListersSeeTheRoot'
  BY <1>1 DEF RootInv, ListersSeeTheRoot
<1>4. DeclarersMeanTheTarget'
  <2> SUFFICES ASSUME NEW d \in Editors, editor'[d].pc = "configure"
               PROVE  /\ editor[d].edit = target
                      /\ editor[d].loaded.root = target => library'.root = target
                      /\ library'.verified /\ ~editor[d].loaded.verified => target \in roots
    BY <1>1 DEF DeclarersMeanTheTarget
  <2>1. d # e /\ editor[d].pc = "configure"
    BY <1>1
  <2> QED BY <2>1 DEF RootInv, DeclarersMeanTheTarget
<1>5. Records!VerifiedWasListed'
  BY DEF RootInv, Records!VerifiedWasListed
<1> QED BY <1>2, <1>3, <1>4, <1>5 DEF RootInv

\* A request loads what it will edit: the library row is not in question.
LEMMA LoadsKeep ==
  ASSUME RootInv, NEW e \in Editors, NEW k, Records!Load(e, k) PROVE RootInv'
<1> DEFINE next == [Records!Idle EXCEPT !.pc = "save", !.kind = k,
                      !.seen = record[k].revision, !.edit = record[k].edit]
<1>1. next.pc = "save" /\ next.loaded = Records!Idle.loaded
  BY DEF Records!Idle
<1>2. editor' = [editor EXCEPT ![e] = next] /\ UNCHANGED <<library, target, roots>>
  BY DEF Records!Load, Records!Serve
<1> HIDE DEF next
<1> QED BY <1>1, <1>2, IdleEditor, EditorMoves

\* Who only answers changes nothing of this.
LEMMA AnswersKeep ==
  ASSUME RootInv, NEW e \in Editors, Records!Answer(e), UNCHANGED <<library, target, roots>>
  PROVE  RootInv'
BY IdleEditor, EditorMoves DEF Records!Answer

\* Declaring the root loads the row as it is.
LEMMA ConfigureLoadKeeps ==
  ASSUME RootInv, NEW e \in Editors, NEW root \in Roots, Records!ConfigureLoad(e, root)
  PROVE  RootInv'
<1> DEFINE next == [Records!Idle EXCEPT !.pc = "configure", !.seen = library.revision,
                      !.loaded = library, !.edit = root]
<1>1. next.pc = "configure" /\ next.loaded = library /\ next.edit = root /\ root = target
  BY DEF Records!Idle, Records!ConfigureLoad, Records!Declarable
<1>2. editor' = [editor EXCEPT ![e] = next] /\ UNCHANGED <<library, target, roots>>
  BY DEF Records!ConfigureLoad, Records!Serve
<1> HIDE DEF next
<1> QED BY <1>1, <1>2, EditorMoves DEF RootInv, RecordTypes

\* The commit of a declaration writes the columns that differ from the loaded row:
\* a root that has changed is never left verified by another one's listing.
LEMMA ConfigureCommitKeeps ==
  ASSUME RootInv, NEW e \in Editors, Records!ConfigureCommit(e) PROVE RootInv'
<1> DEFINE loaded == editor[e].loaded
           changed == loaded.root # editor[e].edit
           written == [revision |-> loaded.revision + 1,
                       root |-> IF changed THEN editor[e].edit ELSE library.root,
                       verified |-> library.verified /\ ~(changed /\ loaded.verified),
                       enabled |-> library.enabled /\ ~(changed /\ loaded.enabled)]
<1>1. /\ editor' = [editor EXCEPT ![e] = Records!Idle] /\ UNCHANGED <<target, roots>>
      /\ library' = written \/ UNCHANGED library
  BY DEF Records!ConfigureCommit, Records!Answer
<1>2. CASE UNCHANGED library
  BY <1>1, <1>2, IdleEditor, EditorMoves
<1>3. CASE library' = written
  <2>1. /\ editor[e].edit = target /\ target \in Roots
        /\ loaded.root = target => library.root = target
        /\ library.verified /\ ~loaded.verified => target \in roots
        /\ library \in LibraryRow /\ loaded \in LibraryRow
    BY DEF RootInv, RecordTypes, DeclarersMeanTheTarget, Records!ConfigureCommit
  <2>2. loaded.revision + 1 \in Nat /\ library.root \in Roots \cup {NoRoot}
    BY <2>1 DEF LibraryRow
  <2>3. written \in LibraryRow
    BY <2>1, <2>2 DEF LibraryRow
  <2>4. /\ written.root = IF changed THEN target ELSE library.root
        /\ written.verified = (library.verified /\ ~(changed /\ loaded.verified))
    BY <2>1
  <2>5. /\ written.root \in {library.root, target}
        /\ written.verified => library.verified
        /\ written.verified => \/ library.verified /\ written.root = library.root
                               \/ written.root = target /\ target \in roots
    <3>1. CASE changed
      BY <2>1, <2>4, <3>1
    <3>2. CASE ~changed
      BY <2>4, <3>2
    <3> QED BY <3>1, <3>2
  <2> HIDE DEF written, loaded, changed
  <2> QED BY <1>1, <1>3, <2>3, <2>5, EditorWrites
<1> QED BY <1>1, <1>2, <1>3

\* The three steps of a verification.
LEMMA RootVerifyKeeps ==
  ASSUME RootInv, NEW e \in Editors,
         Records!VerifyLoad(e) \/ Records!ListRoot(e) \/ Records!VerifyCommit(e)
  PROVE  RootInv'
<1>1. CASE Records!VerifyLoad(e)
  <2> DEFINE next == [Records!Idle EXCEPT !.pc = "list", !.loaded = library]
  <2>1. next.pc = "list" /\ next.loaded = library /\ library.root = target
    BY <1>1 DEF Records!Idle, Records!VerifyLoad
  <2>2. editor' = [editor EXCEPT ![e] = next] /\ UNCHANGED <<library, target, roots>>
    BY <1>1 DEF Records!VerifyLoad, Records!Serve
  <2> HIDE DEF next
  <2> QED BY <2>1, <2>2, EditorMoves DEF RootInv, RecordTypes
<1>2. CASE Records!ListRoot(e)
  <2>1. CASE Records!Answer(e) /\ UNCHANGED roots
    BY <1>2, <2>1, AnswersKeep DEF Records!ListRoot
  <2>2. CASE /\ editor' = [editor EXCEPT ![e].pc = "verified"]
             /\ roots' = roots \cup {editor[e].loaded.root}
    <3> DEFINE next == [editor[e] EXCEPT !.pc = "verified"]
    <3>1. /\ editor[e].loaded \in LibraryRow /\ editor[e].pc = "list"
          /\ editor[e].loaded.root = target /\ library.root = target
      BY <1>2 DEF RootInv, RecordTypes, ListersSeeTheRoot, Records!ListRoot
    <3>2. editor' = [editor EXCEPT ![e] = next]
      BY <2>2
    <3>3. next.pc = "verified" /\ next.loaded = editor[e].loaded
      BY <3>1
    <3> HIDE DEF next
    <3> QED BY <1>2, <2>2, <3>1, <3>2, <3>3, EditorMoves DEF Records!ListRoot
  <2> QED BY <1>2, <2>1, <2>2 DEF Records!ListRoot
<1>3. CASE Records!VerifyCommit(e)
  <2>1. /\ editor[e].loaded \in LibraryRow /\ library \in LibraryRow
        /\ library.root = target /\ target \in roots
    BY <1>3 DEF RootInv, RecordTypes, ListersSeeTheRoot, Records!VerifyCommit
  <2>2. editor[e].loaded.revision + 1 \in Nat /\ library.root \in Roots \cup {NoRoot}
    BY <2>1 DEF LibraryRow
  <2>3. library' \in LibraryRow /\ library'.root = library.root
    BY <1>3, <2>1, <2>2 DEF LibraryRow, Records!VerifyCommit
  <2> QED BY <1>3, <2>1, <2>3, EditorWrites DEF Records!VerifyCommit, Records!Answer
<1> QED BY <1>1, <1>2, <1>3

\* A start may bring another target; nobody is at work then.
LEMMA TargetMayChange ==
  ASSUME RootInv, Records!Restart PROVE RootInv'
<1>1. /\ editor' = [e \in Editors |-> Records!Idle] /\ target' \in Roots
      /\ UNCHANGED <<library, roots>>
  BY DEF Records!Restart
<1> QED
  BY <1>1, IdleEditor DEF RootInv, RecordTypes, ListersSeeTheRoot, DeclarersMeanTheTarget,
                          Records!VerifiedWasListed

\* Every step of the records keeps the invariant.
LEMMA RecordsKeep ==
  ASSUME RootInv, [Records!Next]_(Records!recordVars) PROVE RootInv'
<1>1. ASSUME NEW e \in Editors, NEW k, Records!Save(e, k) PROVE RootInv'
  BY <1>1, AnswersKeep DEF Records!Save
<1>2. ASSUME NEW e \in Editors, Records!IdentityTaken(e) PROVE RootInv'
  BY <1>2, AnswersKeep DEF Records!IdentityTaken
<1>3. CASE UNCHANGED Records!recordVars
  BY <1>3 DEF Records!recordVars, RootInv, RecordTypes, ListersSeeTheRoot,
              DeclarersMeanTheTarget, Records!VerifiedWasListed
<1>4. ASSUME NEW e \in Editors,
             \/ Records!LoadIdentity(e) \/ Records!LoadProfile(e)
             \/ Records!LoadPreferences(e) \/ Records!SaveIdentity(e)
             \/ Records!SaveProfile(e) \/ Records!SavePreferences(e)
      PROVE  RootInv'
  BY <1>1, <1>4, LoadsKeep
  DEF Records!LoadIdentity, Records!LoadProfile, Records!LoadPreferences,
      Records!SaveIdentity, Records!SaveProfile, Records!SavePreferences
<1> QED
  BY <1>2, <1>3, <1>4, ConfigureLoadKeeps, ConfigureCommitKeeps, RootVerifyKeeps,
     TargetMayChange DEF Records!Next

\* The invariant holds in every state.
LEMMA RootsHold == Records!Spec => []RootInv
<1>1. Records!Init => RootInv
  <2> SUFFICES ASSUME Records!Init PROVE RootInv
    OBVIOUS
  <2>1. /\ library = Records!NoLibrary /\ library.verified = FALSE /\ library \in LibraryRow
        /\ editor = [e \in Editors |-> Records!Idle] /\ target \in Roots
    BY DEF Records!Init, Records!NoLibrary, LibraryRow
  <2> QED
    BY <2>1, IdleEditor DEF RootInv, RecordTypes, ListersSeeTheRoot,
                            DeclarersMeanTheTarget, Records!VerifiedWasListed
<1> QED BY <1>1, RecordsKeep, PTL DEF Records!Spec

\* A library root counts as verified only if 115 has listed that very root
\* (verify_library_scope), however the listing interleaves with declarations of the
\* root (configure_library), whose UPDATE has no condition on the revision.
THEOREM VerifiedRootsWereListed ==
  Records!Spec => []Records!VerifiedWasListed
<1>1. RootInv => Records!VerifiedWasListed
  BY DEF RootInv
<1> QED BY <1>1, RootsHold, PTL

(***************************************************************************)
(* The parts side by side: whatever holds of a component holds of it in    *)
(* ServicesSpec, and the assumptions that its theorems make of the         *)
(* constants are those that MCServices makes.                              *)
(***************************************************************************)
\* A step of the whole is a step of one part, which the others sit out.
LEMMA OneMoves ==
  ASSUME [ServicesNext]_servicesVars
  PROVE  /\ UNCHANGED part
         /\ [Next]_vars /\ [ReviewStep]_reviewVars /\ [TokenStep]_tokenVars
         /\ [ScanStep]_scanVars /\ [HookStep]_hookVars /\ [BackupStep]_backupVars
         /\ [Searches!Next]_searchVars /\ [Credentials!Next]_credentialVars
         /\ [Records!Next]_recordVars /\ [Log!Next]_logVars
         /\ [Fetches!Next]_fetchVars /\ [Inspections!Next]_inspectVars
<1>1. CASE UNCHANGED servicesVars
  BY <1>1 DEF servicesVars
<1>2. CASE ServicesNext
  BY <1>2 DEF ServicesNext, Keep
<1> QED BY <1>1, <1>2

\* Every part runs by its own specification: no step of another one is a step of it.
THEOREM PartsRun ==
  ServicesSpec =>
    /\ Spec /\ ReviewSpec /\ TokenSpec /\ ScanSpec /\ HookSpec /\ BackupSpec
    /\ Searches!Spec /\ Credentials!Spec /\ Records!Spec /\ Log!Spec
    /\ Fetches!Spec /\ Inspections!Spec
<1>1. [ServicesNext]_servicesVars =>
        /\ [Next]_vars /\ [ReviewStep]_reviewVars /\ [TokenStep]_tokenVars
        /\ [ScanStep]_scanVars /\ [HookStep]_hookVars /\ [BackupStep]_backupVars
        /\ [Searches!Next]_(Searches!searchVars)
        /\ [Credentials!Next]_(Credentials!credentialVars)
        /\ [Records!Next]_(Records!recordVars) /\ [Log!Next]_(Log!logVars)
        /\ [Fetches!Next]_(Fetches!fetchVars)
        /\ [Inspections!Next]_(Inspections!inspectVars)
  BY OneMoves
  DEF searchVars, Searches!searchVars, credentialVars, Credentials!credentialVars,
      recordVars, Records!recordVars, logVars, Log!logVars, fetchVars, Fetches!fetchVars,
      inspectVars, Inspections!inspectVars
<1>2. ServicesInit =>
        /\ Init /\ ReviewInit /\ TokenInit /\ ScanInit /\ HookInit /\ BackupInit
        /\ Searches!Init /\ Credentials!Init /\ Records!Init /\ Log!Init
        /\ Fetches!Init /\ Inspections!Init
  BY DEF ServicesInit
<1> QED
  BY <1>1, <1>2, PTL
  DEF ServicesSpec, Spec, ReviewSpec, TokenSpec, ScanSpec, HookSpec, BackupSpec,
      Searches!Spec, Credentials!Spec, Records!Spec, Log!Spec, Fetches!Spec,
      Inspections!Spec

\* A search that was answered only in part never costs a resource that an earlier
\* search has put into a usable snapshot, whoever has made that (_search_locked).
THEOREM PartialAnswersCostNothing == ServicesSpec => PartialLosesNothing
<1>1. WholeTitle \in Scopes /\ Shares \subseteq Findable /\ NoSearch \notin Searches!All
  BY PartsAssumption DEF Searches!All
<1>2. Searches!Spec => Searches!PartialLosesNothing
  BY <1>1, PartialAnswersAddOnly
<1> QED BY <1>2, PartsRun, PTL DEF PartialLosesNothing

\* What a batch that has ended says follows from its items, and what was verified stays
\* known (_batch_status, _finalize_batch, _store_cache).
THEOREM BatchesStayTrue == ServicesSpec => BatchesAreTrue
<1>1. [Inspections!VerifiedIsKept]_(Inspections!inspectVars) => Inspections!VerifiedIsKept
  BY DEF Inspections!VerifiedIsKept, Inspections!inspectVars
<1> QED BY <1>1, PartsRun, BatchesFollowTheirItems, VerifiedStays, PTL DEF BatchesAreTrue

\* When nobody changes the settings the process uses the cookie that is stored, a change
\* is committed only onto the settings that its author saw (CredentialService), and a
\* root that counts as verified was listed by 115 (verify_library_scope).
THEOREM SettingsStayTrue == ServicesSpec => SettingsAreTrue
<1>1. "nobody" \notin Admins
  BY PartsAssumption
<1>2. Credentials!Spec => []Credentials!RuntimeFollowsStore
  BY <1>1, RuntimeUsesTheStore
<1>3. Credentials!Spec =>
        [][Credentials!ChangeSawTheSettings]_(Credentials!credentialVars)
  BY <1>1, ChangesSawTheSettings
<1>4. [Credentials!ChangeSawTheSettings]_(Credentials!credentialVars)
        => Credentials!ChangeSawTheSettings
  BY DEF Credentials!ChangeSawTheSettings, Credentials!credentialVars
<1> QED BY <1>2, <1>3, <1>4, PartsRun, VerifiedRootsWereListed, PTL DEF SettingsAreTrue

\* A metadata call that ends with every request answered has left nothing behind, and
\* no removal takes a torrent of the user (QbittorrentClient.inspect).
THEOREM ForeignTorrentsAreSpared == ServicesSpec => OnlyOwnTorrentsGo
<1>1. {"free", "user"} \cap Fetchers = {}
  BY PartsAssumption
<1>2. Fetches!Spec => []Fetches!NothingIsLeftBehind
  BY <1>1, CallsLeaveNothing
<1>3. Fetches!Spec => [][Fetches!ForeignTorrentsStay]_(Fetches!fetchVars)
  BY <1>1, TorrentsOfUsersStay
<1>4. [Fetches!ForeignTorrentsStay]_(Fetches!fetchVars) => Fetches!ForeignTorrentsStay
  BY DEF Fetches!ForeignTorrentsStay, Fetches!fetchVars
<1> QED BY <1>2, <1>3, <1>4, PartsRun, PTL DEF OnlyOwnTorrentsGo

-----------------------------------------------------------------------------
\* The types of the searches: what their invariant does not say is the watch, the
\* lock and the number of searches.
LEMMA SearchesAreTyped == ServicesSpec => []Searches!TypeOK
<1> USE PartsAssumption
<1> DEFINE Rest == /\ watch \in {"none", "active", "found"}
                   /\ titleLock \in Searches!All \cup {NoSearch}
                   /\ begun \in 0..MaxBegun
<1>1. Searches!Init => Rest
  BY DEF Searches!Init
<1>2. ASSUME Rest, [Searches!Next]_(Searches!searchVars) PROVE Rest'
  <2> USE <1>2
  <2>1. ASSUME NEW s \in Searches!All, NEW q \in Scopes, NEW refresh \in BOOLEAN,
               Searches!Begin(s, q, refresh)
        PROVE  Rest'
    BY <2>1 DEF Searches!Begin
  <2>2. ASSUME NEW s \in Searches!All, Searches!Enter(s) PROVE Rest'
    BY <2>2 DEF Searches!Enter
  <2>3. ASSUME NEW s \in Searches!All,
               \/ Searches!AllQueriesFail(s) \/ Searches!PersistPartial(s)
               \/ Searches!PersistComplete(s) \/ Searches!Abandon(s)
        PROVE  Rest'
    BY <2>3 DEF Searches!AllQueriesFail, Searches!PersistPartial,
                Searches!PersistComplete, Searches!Abandon, Searches!Unlock
  <2>4. ASSUME NEW s \in Searches!All,
               \/ \E found \in SUBSET Findable, complete \in BOOLEAN :
                    Searches!QueriesEnd(s, found, complete)
               \/ \E good, unclear \in SUBSET Shares : Searches!Verify(s, good, unclear)
               \/ Searches!VerifyFails(s) \/ Searches!Return(s)
        PROVE  Rest'
    BY <2>4 DEF Searches!QueriesEnd, Searches!Verify, Searches!VerifyFails,
                Searches!Return
  <2>5. ASSUME \/ Searches!SkipWarm
               \/ \E forgotten \in SUBSET Findable : Searches!Clean(forgotten)
               \/ \E q \in Scopes : Searches!TimePasses(q)
               \/ UNCHANGED Searches!searchVars
        PROVE  Rest'
    BY <2>5 DEF Searches!SkipWarm, Searches!Clean, Searches!TimePasses,
                Searches!searchVars
  <2> QED BY <2>1, <2>2, <2>3, <2>4, <2>5 DEF Searches!Next
<1>3. SearchInv /\ Rest => Searches!TypeOK
  BY DEF SearchInv, SearchTypes, Searches!TypeOK, SnapshotRow, SearchRecord, Inside
<1>4. Searches!Spec => []SearchInv
  BY SearchesHold DEF Searches!All
<1> HIDE DEF Rest
<1> QED BY <1>1, <1>2, <1>3, <1>4, PartsRun, PTL DEF Searches!Spec

\* The types of the inspections: the resources and the number of stops are missing.
LEMMA InspectionsAreTyped == ServicesSpec => []Inspections!TypeOK
<1> USE PartsAssumption
<1> DEFINE Rest == /\ resource \in [Magnets -> {"live", "expired", "gone"}]
                   /\ halts \in 0..MaxHalts
<1>1. Inspections!Init => Rest
  BY DEF Inspections!Init
<1>2. ASSUME Rest, [Inspections!Next]_(Inspections!inspectVars) PROVE Rest'
  <2> USE <1>2
  <2>1. ASSUME \/ \E b \in Inspections!Batches, magnets \in SUBSET Magnets,
                     force \in BOOLEAN : Inspections!Create(b, magnets, force)
               \/ UNCHANGED Inspections!inspectVars
        PROVE  Rest'
    BY <2>1 DEF Inspections!Create, Inspections!inspectVars
  <2>2. CASE Inspections!WorkerStep
    BY <2>2
    DEF Inspections!WorkerStep, Inspections!Recover, Inspections!ClaimBatch,
        Inspections!Depend, Inspections!ListItems, Inspections!ClaimItem,
        Inspections!Inspect, Inspections!StoreResult, Inspections!FinalizeBatch
  <2>3. CASE Inspections!Stop
    BY <2>3 DEF Inspections!Stop
  <2>4. CASE Inspections!TimePasses
    BY <2>4 DEF Inspections!TimePasses
  <2>5. CASE Inspections!Cleanup
    BY <2>5 DEF Inspections!Cleanup
  <2> QED BY <2>1, <2>2, <2>3, <2>4, <2>5 DEF Inspections!Next
<1>3. InspectionInv /\ Rest => Inspections!TypeOK
  BY DEF InspectionInv, InspectionTypes, Inspections!TypeOK
<1> HIDE DEF Rest
<1> QED BY <1>1, <1>2, <1>3, InspectionsHold, PartsRun, PTL DEF Inspections!Spec

\* The types of the metadata calls: tags, requests that were given up, and deaths.
LEMMA FetchesAreTyped == ServicesSpec => []Fetches!TypeOK
<1> USE PartsAssumption
<1> DEFINE Rest == /\ marks \subseteq Fetchers
                   /\ delayed \subseteq Fetchers \X {"add", "delete"}
                   /\ deaths \in 0..MaxDeaths
<1>1. Fetches!Init => Rest
  BY DEF Fetches!Init
<1>2. ASSUME Rest, [Fetches!Next]_(Fetches!fetchVars) PROVE Rest'
  <2> USE <1>2
  <2>1. ASSUME NEW c \in Fetchers,
               \/ \E h \in Hashes : Fetches!Start(c, h)
               \/ Fetches!Login(c) \/ Fetches!Enter(c) \/ Fetches!Guard(c)
               \/ Fetches!Look(c) \/ Fetches!PollExisting(c) \/ Fetches!ReadExisting(c)
               \/ Fetches!Poll(c) \/ Fetches!ReadFiles(c) \/ Fetches!Cleanup(c)
               \/ Fetches!ListMarked(c) \/ Fetches!Cancel(c)
        PROVE  Rest'
    BY <2>1 DEF Fetches!Start, Fetches!Login, Fetches!Enter, Fetches!Guard, Fetches!Look,
                Fetches!PollExisting, Fetches!ReadExisting, Fetches!Poll,
                Fetches!ReadFiles, Fetches!Cleanup, Fetches!ListMarked, Fetches!Cancel
  <2>2. ASSUME NEW c \in Fetchers, Fetches!Add(c) PROVE Rest'
    BY <2>2 DEF Fetches!Add, Fetches!CarryOutAdd
  <2>3. ASSUME NEW c \in Fetchers, Fetches!DeleteTorrent(c) PROVE Rest'
    <3>1. marks' = marks /\ deaths' = deaths
      BY <2>3, Zenon DEF Fetches!DeleteTorrent
    <3>2. delayed' = delayed \/ delayed' = delayed \cup {<<c, "delete">>}
      BY <2>3, Zenon DEF Fetches!DeleteTorrent
    <3> QED BY <3>1, <3>2
  <2>4. ASSUME NEW c \in Fetchers, Fetches!RemoveMarks(c) PROVE Rest'
    BY <2>4 DEF Fetches!RemoveMarks
  <2>5. ASSUME NEW c \in Fetchers, Fetches!CarryOutLate(c) PROVE Rest'
    BY <2>5 DEF Fetches!CarryOutLate, Fetches!CarryOutAdd
  <2>6. ASSUME \/ \E h \in Hashes : Fetches!Progress(h) \/ Fetches!UserActs(h)
               \/ UNCHANGED Fetches!fetchVars
        PROVE  Rest'
    BY <2>6 DEF Fetches!Progress, Fetches!UserActs, Fetches!fetchVars
  <2>7. CASE Fetches!Kill
    BY <2>7 DEF Fetches!Kill
  <2> QED BY <2>1, <2>2, <2>3, <2>4, <2>5, <2>6, <2>7 DEF Fetches!Next
<1>3. FetchInv /\ Rest => Fetches!TypeOK
  BY DEF FetchInv, FetchTypes, Fetches!TypeOK, Torrents, Fetching, Places, Untried, Behind,
         Fetches!Admitted, Fetches!Guarded, Fetches!Ended, Fetches!Free, Fetches!User
<1>4. Fetches!Spec => []FetchInv
  BY FetchesHold
<1> HIDE DEF Rest
<1> QED BY <1>1, <1>2, <1>3, <1>4, PartsRun, PTL DEF Fetches!Spec

\* The types of the settings and of what runs on them: a restart and the steps after a
\* commit use what is stored, which is a cookie or none.
LEMMA CredentialsAreTyped == ServicesSpec => []Credentials!TypeOK
<1> USE PartsAssumption
<1> DEFINE Rest == /\ settings.revision <= MaxSettings
                   /\ managed \in Cookies \cup {NoCookie}
                   /\ file \in BOOLEAN /\ ready \in BOOLEAN /\ pushWorker \in BOOLEAN
                   /\ refused \subseteq Cookies \cup {FileCookie}
                   /\ lives \in 1..MaxLives + 1
<1>1. Credentials!Init => Rest
  <2> SUFFICES ASSUME Credentials!Init PROVE Rest
    OBVIOUS
  <2>1. /\ settings.revision = 0 /\ managed = NoCookie /\ lives = 1
        /\ refused \in SUBSET (Cookies \cup {FileCookie})
    BY DEF Credentials!Init
  <2>2. file \in BOOLEAN /\ ready \in BOOLEAN /\ pushWorker \in BOOLEAN
    BY Zenon DEF Credentials!Init, Credentials!Available
  <2> QED BY <2>1, <2>2
<1>2. ASSUME CredentialInv, Rest, [Credentials!Next]_(Credentials!credentialVars)
      PROVE  Rest'
  <2> USE <1>2
  <2>t. /\ settings.revision \in Nat
        /\ settings.cookie \in Cookies \cup {NoCookie}
        /\ \A a \in Admins : /\ admin[a].value \in Cookies \cup {NoCookie}
                             /\ admin[a].ready \in BOOLEAN
    BY DEF CredentialInv, AdminTypes, SettingsRow, AdminRecord
  <2>1. ASSUME NEW a \in Admins,
               \/ \E value \in Cookies \cup {NoCookie} : Credentials!Request(a, value)
               \/ Credentials!Acquire(a) \/ Credentials!AssertRevision(a)
               \/ Credentials!Validate(a) \/ Credentials!ValidateFallback(a)
               \/ Credentials!EnsureAvailable(a) \/ Credentials!CancelRequest(a)
               \/ UNCHANGED Credentials!credentialVars
        PROVE  Rest'
    BY <2>1 DEF Credentials!Request, Credentials!Acquire, Credentials!AssertRevision,
                Credentials!Validate, Credentials!ValidateFallback,
                Credentials!EnsureAvailable, Credentials!CancelRequest,
                Credentials!credentialVars
  <2>2. ASSUME NEW a \in Admins, Credentials!Commit(a) PROVE Rest'
    <3>1. CASE UNCHANGED settings
      BY <2>2, <3>1 DEF Credentials!Commit
    <3>2. CASE /\ settings.revision < MaxSettings
               /\ settings' = [settings EXCEPT !.cookie = admin[a].value, !.readable = TRUE,
                                               !.revision = @ + 1]
      <4>1. settings'.revision = settings.revision + 1
        BY <3>2 DEF CredentialInv, AdminTypes, SettingsRow
      <4> QED BY <2>2, <2>t, <3>2, <4>1 DEF Credentials!Commit
    <3> QED BY <2>2, <3>1, <3>2 DEF Credentials!Commit
  <2>3. ASSUME NEW a \in Admins, Credentials!ApplyCookie(a) PROVE Rest'
    BY <2>3, <2>t DEF Credentials!ApplyCookie
  <2>4. ASSUME NEW a \in Admins, Credentials!SetRuntime(a) PROVE Rest'
    BY <2>4, <2>t DEF Credentials!SetRuntime
  <2>5. CASE Credentials!UpdateSettings
    <3>1. settings'.revision = settings.revision + 1
      BY <2>5 DEF CredentialInv, AdminTypes, SettingsRow, Credentials!UpdateSettings
    <3> QED BY <2>5, <2>t, <3>1 DEF Credentials!UpdateSettings
  <2>6. CASE Credentials!FileChanges
    BY <2>6 DEF Credentials!FileChanges
  <2>7. CASE Credentials!Restart
    <3>1. /\ UNCHANGED <<file, refused>> /\ managed' = Credentials!Decrypted(settings')
          /\ lives <= MaxLives /\ lives' = lives + 1
      BY <2>7, Zenon DEF Credentials!Restart, Credentials!Start
    <3>3. /\ settings'.revision = settings.revision
          /\ Credentials!Decrypted(settings') \in Cookies \cup {NoCookie}
      BY <2>7 DEF Credentials!Restart, Credentials!Decrypted, CredentialInv, AdminTypes,
                  SettingsRow
    <3>2. ready' \in BOOLEAN /\ pushWorker' \in BOOLEAN
      BY <2>7, Zenon DEF Credentials!Restart, Credentials!Start
    <3> QED BY <2>t, <3>1, <3>2, <3>3
  <2>8. CASE UNCHANGED Credentials!credentialVars
    BY <2>8 DEF Credentials!credentialVars
  <2> QED BY <2>1, <2>2, <2>3, <2>4, <2>5, <2>6, <2>7, <2>8 DEF Credentials!Next
<1>3. CredentialInv /\ Rest => Credentials!TypeOK
  BY DEF CredentialInv, AdminTypes, SettingsRow, AdminRecord, Locked, Credentials!TypeOK,
         Credentials!Nobody
<1>4. Credentials!Spec => []CredentialInv
  BY CredentialsHold
<1> HIDE DEF Rest
<1> QED BY <1>1, <1>2, <1>3, <1>4, PartsRun, PTL DEF Credentials!Spec

\* A revision is never ahead of the accepted requests: the revision that is written
\* is one more than a revision that was there when the row was loaded.
RevisionsAreCounted ==
  /\ edits \in 0..MaxRecordEdits /\ starts \in 1..MaxStarts + 1 /\ roots \subseteq Roots
  /\ record = [k \in Kinds |-> record[k]]
  /\ \A k \in Kinds : record[k].revision \in 0..edits + 1 /\ record[k].edit \in 0..edits
  /\ library.revision \in 0..edits
  /\ \A e \in Editors :
       /\ editor[e].pc \in {"idle", "save", "configure", "list", "verified"}
       /\ editor[e].loaded.revision \in 0..edits
       /\ editor[e].pc = "save" => editor[e].seen \in 0..edits + 1

\* One editor takes a step, after at most one more request was accepted.
LEMMA EditorCounts ==
  ASSUME RootInv, RevisionsAreCounted, NEW e \in Editors, NEW next,
         editor' = [editor EXCEPT ![e] = next],
         next.pc \in {"idle", "save", "configure", "list", "verified"},
         next.loaded.revision \in 0..edits,
         next.pc = "save" => next.seen \in 0..edits + 1,
         edits' \in {edits, edits + 1}, edits' \in 0..MaxRecordEdits,
         starts' = starts, roots' \subseteq Roots,
         library'.revision \in 0..edits',
         record' = [k \in Kinds |-> record'[k]],
         \A k \in Kinds :
           record'[k].revision \in 0..edits' + 1 /\ record'[k].edit \in 0..edits'
  PROVE  RevisionsAreCounted'
<1> USE PartsAssumption
<1>t. edits \in Nat /\ edits' \in Nat /\ edits <= edits'
  BY DEF RevisionsAreCounted
<1>1. editor'[e] = next /\ \A d \in Editors \ {e} : editor'[d] = editor[d]
  BY DEF RootInv, RecordTypes
<1>2. \A n : (n \in 0..edits => n \in 0..edits') /\ (n \in 0..edits + 1 => n \in 0..edits' + 1)
  BY <1>t
<1>3. ASSUME NEW d \in Editors
      PROVE  /\ editor'[d].pc \in {"idle", "save", "configure", "list", "verified"}
             /\ editor'[d].loaded.revision \in 0..edits'
             /\ editor'[d].pc = "save" => editor'[d].seen \in 0..edits' + 1
  <2>1. CASE d = e
    BY <1>1, <1>2, <2>1
  <2>2. CASE d # e
    <3>1. /\ editor[d].pc \in {"idle", "save", "configure", "list", "verified"}
          /\ editor[d].loaded.revision \in 0..edits
          /\ editor[d].pc = "save" => editor[d].seen \in 0..edits + 1
      BY DEF RevisionsAreCounted
    <3> QED BY <1>1, <1>2, <2>2, <3>1
  <2> QED BY <2>1, <2>2
<1> QED BY <1>3 DEF RevisionsAreCounted

\* The rows of the records are not written.
LEMMA RowsCount ==
  ASSUME RevisionsAreCounted, record' = record, edits' \in {edits, edits + 1}
  PROVE  /\ record' = [k \in Kinds |-> record'[k]]
         /\ \A k \in Kinds :
              record'[k].revision \in 0..edits' + 1 /\ record'[k].edit \in 0..edits'
<1>1. edits \in Nat
  BY PartsAssumption DEF RevisionsAreCounted
<1>2. \A n : (n \in 0..edits => n \in 0..edits') /\ (n \in 0..edits + 1 => n \in 0..edits' + 1)
  BY <1>1
<1> QED BY <1>2 DEF RevisionsAreCounted

\* Who is idle has loaded no row.
LEMMA IdleCounts ==
  ASSUME RevisionsAreCounted
  PROVE  /\ Records!Idle.pc = "idle" /\ Records!Idle.loaded.revision \in 0..edits
         /\ edits \in Nat /\ edits \in 0..MaxRecordEdits /\ MaxRecordEdits \in Nat
<1>1. edits \in 0..MaxRecordEdits /\ MaxRecordEdits \in Nat
  BY PartsAssumption DEF RevisionsAreCounted
<1> QED BY <1>1 DEF Records!Idle, Records!NoLibrary

\* The requests about the records.
LEMMA RecordRequestsCount ==
  ASSUME RootInv, RevisionsAreCounted, NEW e \in Editors, NEW k,
         \/ k \in Kinds /\ Records!Load(e, k)
         \/ Records!Save(e, k) \/ Records!IdentityTaken(e)
  PROVE  RevisionsAreCounted'
<1>i. /\ Records!Idle.pc = "idle" /\ Records!Idle.loaded.revision \in 0..edits
      /\ edits \in Nat /\ edits \in 0..MaxRecordEdits /\ MaxRecordEdits \in Nat
  BY IdleCounts
<1>c. /\ library.revision \in 0..edits /\ roots \subseteq Roots
      /\ k \in Kinds => record[k].revision \in 0..edits + 1
  BY DEF RevisionsAreCounted
<1>1. CASE k \in Kinds /\ Records!Load(e, k)
  <2> DEFINE next == [Records!Idle EXCEPT !.pc = "save", !.kind = k,
                        !.seen = record[k].revision, !.edit = record[k].edit]
  <2>1. /\ next.pc = "save" /\ next.loaded = Records!Idle.loaded
        /\ next.seen = record[k].revision
    BY DEF Records!Idle
  <2>2. /\ editor' = [editor EXCEPT ![e] = next]
        /\ UNCHANGED <<record, library, roots, edits, starts>>
    BY <1>1 DEF Records!Load, Records!Serve
  <2>3. next.seen \in 0..edits + 1
    BY <1>1, <1>c, <2>1
  <2> HIDE DEF next
  <2> QED BY <1>i, <1>c, <2>1, <2>2, <2>3, RowsCount, EditorCounts
<1>2. CASE Records!Save(e, k)
  <2>1. /\ editor[e].pc = "save" /\ edits < MaxRecordEdits /\ edits' = edits + 1
        /\ record' = [record EXCEPT ![k] = [revision |-> editor[e].seen + 1,
                                            edit |-> edits']]
        /\ editor' = [editor EXCEPT ![e] = Records!Idle]
        /\ UNCHANGED <<library, roots, starts>>
    BY <1>2 DEF Records!Save, Records!Accept, Records!Answer
  <2>2. editor[e].seen \in 0..edits + 1
    BY <2>1 DEF RevisionsAreCounted
  <2>3. editor[e].seen + 1 \in 0..edits' + 1 /\ edits' \in 0..edits'
        /\ edits' \in 0..MaxRecordEdits
    BY <1>i, <2>1, <2>2
  <2>4. \A n : (n \in 0..edits => n \in 0..edits')
               /\ (n \in 0..edits + 1 => n \in 0..edits' + 1)
    BY <1>i, <2>1
  <2>5. record = [j \in Kinds |-> record[j]]
        /\ \A j \in Kinds : record[j].revision \in 0..edits + 1 /\ record[j].edit \in 0..edits
    BY DEF RevisionsAreCounted
  <2>6. /\ record' = [j \in Kinds |-> record'[j]]
        /\ \A j \in Kinds :
             \/ record'[j] = record[j]
             \/ record'[j].revision = editor[e].seen + 1 /\ record'[j].edit = edits'
    <3> DEFINE row == [revision |-> editor[e].seen + 1, edit |-> edits']
    <3>1. row.revision = editor[e].seen + 1 /\ row.edit = edits'
      OBVIOUS
    <3>2. record' = [record EXCEPT ![k] = row]
      BY <2>1
    <3> HIDE DEF row
    <3>3. /\ record' = [j \in Kinds |-> record'[j]]
          /\ \A j \in Kinds : record'[j] \in {record[j], row}
      BY <2>5, <3>2
    <3> QED BY <3>1, <3>3
  <2>7. \A j \in Kinds : record'[j].revision \in 0..edits' + 1 /\ record'[j].edit \in 0..edits'
    BY <2>3, <2>4, <2>5, <2>6
  <2>8. library'.revision \in 0..edits'
    BY <1>c, <2>1, <2>4
  <2> QED BY <1>i, <1>c, <2>1, <2>3, <2>6, <2>7, <2>8, EditorCounts
<1>3. CASE Records!IdentityTaken(e)
  <2>1. /\ editor' = [editor EXCEPT ![e] = Records!Idle]
        /\ UNCHANGED <<record, library, roots, edits, starts>>
    BY <1>3 DEF Records!IdentityTaken, Records!Answer
  <2> QED BY <1>i, <1>c, <2>1, RowsCount, EditorCounts
<1> QED BY <1>1, <1>2, <1>3

\* The requests about the root of the library.
LEMMA RootRequestsCount ==
  ASSUME RootInv, RevisionsAreCounted, NEW e \in Editors,
         \/ \E root \in Roots : Records!ConfigureLoad(e, root)
         \/ Records!ConfigureCommit(e) \/ Records!VerifyLoad(e)
         \/ Records!ListRoot(e) \/ Records!VerifyCommit(e)
  PROVE  RevisionsAreCounted'
<1>i. /\ Records!Idle.pc = "idle" /\ Records!Idle.loaded.revision \in 0..edits
      /\ edits \in Nat /\ edits \in 0..MaxRecordEdits /\ MaxRecordEdits \in Nat
  BY IdleCounts
<1>c. /\ library.revision \in 0..edits /\ roots \subseteq Roots
      /\ editor[e].loaded.revision \in 0..edits
  BY DEF RevisionsAreCounted
<1>1. ASSUME NEW root \in Roots, Records!ConfigureLoad(e, root)
      PROVE  RevisionsAreCounted'
  <2> DEFINE next == [Records!Idle EXCEPT !.pc = "configure", !.seen = library.revision,
                        !.loaded = library, !.edit = root]
  <2>1. next.pc = "configure" /\ next.loaded = library
    BY DEF Records!Idle
  <2>2. /\ editor' = [editor EXCEPT ![e] = next]
        /\ UNCHANGED <<record, library, roots, edits, starts>>
    BY <1>1 DEF Records!ConfigureLoad, Records!Serve
  <2> HIDE DEF next
  <2> QED BY <1>i, <1>c, <2>1, <2>2, RowsCount, EditorCounts
<1>2. CASE Records!VerifyLoad(e)
  <2> DEFINE next == [Records!Idle EXCEPT !.pc = "list", !.loaded = library]
  <2>1. next.pc = "list" /\ next.loaded = library
    BY DEF Records!Idle
  <2>2. /\ editor' = [editor EXCEPT ![e] = next]
        /\ UNCHANGED <<record, library, roots, edits, starts>>
    BY <1>2 DEF Records!VerifyLoad, Records!Serve
  <2> HIDE DEF next
  <2> QED BY <1>i, <1>c, <2>1, <2>2, RowsCount, EditorCounts
<1>3. CASE Records!ListRoot(e)
  <2>t. /\ editor[e].pc = "list" /\ editor[e].loaded.root \in Roots
        /\ UNCHANGED <<record, library, edits, starts>>
    BY <1>3 DEF Records!ListRoot, RootInv, RecordTypes, ListersSeeTheRoot
  <2>1. CASE editor' = [editor EXCEPT ![e].pc = "verified"]
             /\ roots' = roots \cup {editor[e].loaded.root}
    <3> DEFINE next == [editor[e] EXCEPT !.pc = "verified"]
    <3>1. editor' = [editor EXCEPT ![e] = next]
      BY <2>1
    <3>2. next.loaded = editor[e].loaded /\ next.pc \in {"verified", "list"}
      OBVIOUS
    <3> HIDE DEF next
    <3> QED BY <1>i, <1>c, <2>t, <2>1, <3>1, <3>2, RowsCount, EditorCounts
  <2>2. CASE editor' = [editor EXCEPT ![e] = Records!Idle] /\ roots' = roots
    BY <1>i, <1>c, <2>t, <2>2, RowsCount, EditorCounts
  <2> QED BY <1>3, <2>1, <2>2 DEF Records!ListRoot, Records!Answer
<1>4. CASE Records!ConfigureCommit(e) \/ Records!VerifyCommit(e)
  <2>1. /\ editor' = [editor EXCEPT ![e] = Records!Idle]
        /\ UNCHANGED <<record, roots, starts>>
        /\ \/ library' = library /\ edits' = edits
           \/ /\ library'.revision = editor[e].loaded.revision + 1
              /\ edits < MaxRecordEdits /\ edits' = edits + 1
    <3>1. CASE Records!ConfigureCommit(e)
      BY <3>1 DEF Records!ConfigureCommit, Records!Answer, Records!Accept
    <3>2. CASE Records!VerifyCommit(e)
      <4>1. library'.revision = editor[e].loaded.revision + 1
        BY <3>2 DEF Records!VerifyCommit, RootInv, RecordTypes, LibraryRow
      <4> QED BY <3>2, <4>1 DEF Records!VerifyCommit, Records!Answer, Records!Accept
    <3> QED BY <1>4, <3>1, <3>2
  <2>2. edits' \in {edits, edits + 1} /\ edits' \in 0..MaxRecordEdits
        /\ library'.revision \in 0..edits'
    BY <1>i, <1>c, <2>1
  <2> QED BY <1>i, <1>c, <2>1, <2>2, RowsCount, EditorCounts
<1> QED BY <1>1, <1>2, <1>3, <1>4

\* The types of the records, the library and the editors.
LEMMA RecordsAreTyped == ServicesSpec => []Records!TypeOK
<1> USE PartsAssumption
<1>1. Records!Init => RevisionsAreCounted
  <2> SUFFICES ASSUME Records!Init PROVE RevisionsAreCounted
    OBVIOUS
  <2>1. /\ edits = 0 /\ starts = 1 /\ roots = {} /\ library.revision = 0
        /\ record = [k \in Kinds |-> record[k]]
        /\ \A k \in Kinds : record[k].revision \in {0, 1} /\ record[k].edit = 0
        /\ \A e \in Editors : editor[e].pc = "idle" /\ editor[e].loaded.revision = 0
    BY DEF Records!Init, Records!Idle, Records!NoLibrary
  <2> QED BY <2>1 DEF RevisionsAreCounted
<1>2. ASSUME RootInv, RevisionsAreCounted, [Records!Next]_(Records!recordVars)
      PROVE  RevisionsAreCounted'
  <2> USE <1>2
  <2>1. ASSUME NEW e \in Editors,
               \/ Records!LoadIdentity(e) \/ Records!LoadProfile(e)
               \/ Records!LoadPreferences(e)
        PROVE  RevisionsAreCounted'
    BY <2>1, RecordRequestsCount
    DEF Records!LoadIdentity, Records!LoadProfile, Records!LoadPreferences
  <2>2. ASSUME NEW e \in Editors,
               \/ Records!SaveIdentity(e) \/ Records!SaveProfile(e)
               \/ Records!SavePreferences(e) \/ Records!IdentityTaken(e)
        PROVE  RevisionsAreCounted'
    BY <2>2, RecordRequestsCount
    DEF Records!SaveIdentity, Records!SaveProfile, Records!SavePreferences
  <2>3. CASE Records!Restart
    <3>1. /\ UNCHANGED <<record, library, roots, edits>> /\ starts' = starts + 1
          /\ starts <= MaxStarts /\ \A e \in Editors : editor'[e] = Records!Idle
      BY <2>3 DEF Records!Restart
    <3>2. Records!Idle.pc = "idle" /\ Records!Idle.loaded.revision \in 0..edits
      BY IdleCounts
    <3>3. /\ starts' \in 1..MaxStarts + 1
          /\ edits \in 0..MaxRecordEdits /\ roots \subseteq Roots
          /\ record = [k \in Kinds |-> record[k]]
          /\ \A k \in Kinds : record[k].revision \in 0..edits + 1 /\ record[k].edit \in 0..edits
          /\ library.revision \in 0..edits
      <4>1. starts \in 1..MaxStarts + 1
        BY DEF RevisionsAreCounted
      <4> QED BY <3>1, <4>1 DEF RevisionsAreCounted
    <3> QED BY <3>1, <3>2, <3>3 DEF RevisionsAreCounted
  <2>4. CASE UNCHANGED Records!recordVars
    BY <2>4 DEF Records!recordVars, RevisionsAreCounted
  <2> QED BY <2>1, <2>2, <2>3, <2>4, RootRequestsCount DEF Records!Next
<1>3. RootInv /\ RevisionsAreCounted => Records!TypeOK
  <2> SUFFICES ASSUME RootInv, RevisionsAreCounted PROVE Records!TypeOK
    OBVIOUS
  <2>1. /\ library.root \in Roots \cup {NoRoot} /\ target \in Roots
        /\ edits \in 0..MaxRecordEdits
    BY DEF RootInv, RecordTypes, LibraryRow, RevisionsAreCounted
  <2>2. \A n : /\ n \in 0..edits => n \in 0..MaxRecordEdits
               /\ n \in 0..edits + 1 => n \in 0..MaxRecordEdits + 1
    BY <2>1
  <2> QED BY <2>1, <2>2 DEF RevisionsAreCounted, Records!TypeOK
<1>4. Records!Spec => []RevisionsAreCounted
  BY <1>1, <1>2, RootsHold, PTL DEF Records!Spec
<1> QED BY <1>3, <1>4, RootsHold, PartsRun, PTL

-----------------------------------------------------------------------------
\* A client that follows the cursors of the log to the end is shown every record that it
\* could read when it began and can still read, once and newest first (LogStore.list),
\* whatever is appended, rotated, deleted or lost in a crash between two pages.
THEOREM PagesStayWhole == ServicesSpec => []PagesShowEverything
<1>1. Log!Spec => []LogInv
  BY LogInit, LogStep, PTL DEF Log!Spec
<1> QED BY <1>1, LogHolds, PartsRun, PTL DEF PagesShowEverything

\* Every variable of the part that moves keeps its type.
THEOREM ServicesAreTyped == ServicesSpec => []ServicesTypeOK
<1>1. /\ ReviewInvariant => ReviewTypeOK
      /\ TokenInvariant => TokenTypeOK
      /\ RetentionInv => BackupTypeOK
  BY DEF ReviewInvariant, TokenInvariant, RetentionInv
<1> DEFINE Parts == {"push", "review", "tokens", "scan", "search", "credentials", "records",
                     "metadata", "backups", "inspection", "log", "hooks"}
<1>2. part \in Parts
        /\ TypeOK /\ ReviewTypeOK /\ TokenTypeOK /\ ScanTypeOK /\ HookTypeOK
        /\ Searches!TypeOK /\ Credentials!TypeOK /\ Records!TypeOK /\ Log!TypeOK
        /\ Fetches!TypeOK /\ BackupTypeOK /\ Inspections!TypeOK
        => ServicesTypeOK
  BY DEF ServicesTypeOK
<1>3. ServicesInit => part \in Parts
  BY DEF ServicesInit
<1>4. part \in Parts /\ [ServicesNext]_servicesVars => (part \in Parts)'
  BY OneMoves
<1> HIDE DEF Parts
<1>5. ServicesSpec => [](part \in Parts)
  BY <1>3, <1>4, PTL DEF ServicesSpec
<1>6. Log!Spec => []Log!TypeOK
  BY LogInit, LogStep, LogHolds, PTL DEF Log!Spec
<1> QED
  BY <1>1, <1>2, <1>5, <1>6, PartsRun, TypeCorrect, ReviewKeeps, TokensHold, ScansAreTyped,
     HooksAreTyped, SearchesAreTyped, CredentialsAreTyped, RecordsAreTyped, FetchesAreTyped,
     RetentionIsExact, InspectionsAreTyped, PTL
===============================================================================
