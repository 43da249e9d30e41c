------------------------------- MODULE MCServices -------------------------------
(***************************************************************************)
(* TLC instance of the components that the organization of files does not  *)
(* go through.  They share no state that any of them writes for another,   *)
(* apart from what each module models itself, so one run checks them side  *)
(* by side: the first state chooses the component that moves (part), and   *)
(* the others stay as they were started.                                   *)
(***************************************************************************)
EXTENDS PushTasks, OrganizationPlanReview, AgentTokens, LibraryScan,
        WebhookDeliveries, Backups

CONSTANTS
  \* ResourceSearch
  Scopes, WholeTitle, Findable, Shares, Searchers, Warmer, MaxBegun, NoSearch,
  \* CredentialRuntime
  Admins, Cookies, FileCookie, NoCookie, MaxSettings, MaxLives,
  \* SharedRecords
  Editors, Kinds, Roots, MaxRecordEdits, MaxStarts, NoRoot,
  \* EventLog
  MaxRecords, MaxCrashes, Limits,
  \* MetadataFetch
  Fetchers, Hashes, Concurrency, MaxDeaths,
  \* Inspection
  Magnets, MaxBatches, MaxHalts, NoBatch

\* Whoever can hold a lock or own a torrent is told apart from nobody and the user; a
\* delivery is attempted at least once, and a page of the log has at least one record.
ASSUME PartsAssumption ==
  /\ WholeTitle \in Scopes /\ Shares \subseteq Findable
  /\ NoSearch \notin Searchers \cup {Warmer}
  /\ "nobody" \notin Admins
  /\ {"free", "user"} \cap Fetchers = {}
  /\ IsFiniteSet(Endpoints)
  /\ {MaxAttempts} \cup Limits \subseteq Nat \ {0}
  /\ {MaxBegun, MaxSettings, MaxLives, MaxRecordEdits, MaxStarts, MaxRecords, MaxCrashes,
      MaxDeaths, MaxBatches, MaxHalts, MaxEvents} \subseteq Nat

MCOrder == <<"a", "b">>
FirstRoot == CHOOSE r \in Roots : TRUE

VARIABLES
  part,
  \* ResourceSearch
  snapshot, age, stored, watch, titleLock, search, begun,
  \* CredentialRuntime
  settings, file, managed, ready, pushWorker, admin, settingsLock, refused, lives,
  \* SharedRecords
  record, library, target, editor, roots, edits, starts,
  \* EventLog
  files, nextId, appended, crashes, reader,
  \* MetadataFetch
  torrents, marks, delayed, fetch, deaths,
  \* Inspection
  batch, item, cache, resource, inspector, inspect, halts

Searches == INSTANCE ResourceSearch WITH
  lock <- titleLock,
  Whole <- WholeTitle, Resources <- Findable, MaxSearches <- MaxBegun, Nobody <- NoSearch

Inspections == INSTANCE Inspection WITH
  worker <- inspector, MaxStops <- MaxHalts

Credentials == INSTANCE CredentialRuntime WITH
  row <- settings, worker <- pushWorker, lock <- settingsLock,
  MaxChanges <- MaxSettings, MaxStops <- MaxLives

Records == INSTANCE SharedRecords WITH
  listed <- roots, lives <- starts, MaxEdits <- MaxRecordEdits, MaxStops <- MaxStarts

Log == INSTANCE EventLog WITH
  stops <- crashes, MaxStops <- MaxCrashes

Fetches == INSTANCE MetadataFetch WITH
  call <- fetch, kills <- deaths, Calls <- Fetchers, MaxKills <- MaxDeaths

-----------------------------------------------------------------------------
searchVars == <<snapshot, age, stored, watch, titleLock, search, begun>>
inspectVars == <<batch, item, cache, resource, inspector, inspect, halts>>
credentialVars ==
  <<settings, file, managed, ready, pushWorker, admin, settingsLock, refused, lives>>
recordVars == <<record, library, target, editor, roots, edits, starts>>
logVars == <<files, nextId, appended, crashes, reader>>
fetchVars == <<torrents, marks, delayed, fetch, deaths>>

ServicesInit ==
  /\ part \in {"push", "review", "tokens", "scan", "hooks", "search",
               "credentials", "records", "log", "metadata", "backups",
               "inspection"}
  /\ Init /\ ReviewInit /\ TokenInit /\ ScanInit /\ HookInit /\ BackupInit
  /\ Searches!Init /\ Credentials!Init /\ Records!Init /\ Log!Init /\ Fetches!Init
  /\ Inspections!Init
  \* The scanned directory holds at least one object at first.
  /\ remote[Order[1]] # NotListed
  \* One initial state of each component that does not move.
  /\ part # "scan" => remote[Order[2]] = NotListed
  /\ part # "credentials" => file /\ ready /\ refused = {}
  /\ part # "records" => target = FirstRoot

Keep(p) ==
  /\ UNCHANGED part
  /\ IF p = "push" THEN TRUE ELSE UNCHANGED vars
  /\ IF p = "review" THEN TRUE ELSE UNCHANGED reviewVars
  /\ IF p = "tokens" THEN TRUE ELSE UNCHANGED tokenVars
  /\ IF p = "scan" THEN TRUE ELSE UNCHANGED scanVars
  /\ IF p = "hooks" THEN TRUE ELSE UNCHANGED hookVars
  /\ IF p = "search" THEN TRUE ELSE UNCHANGED searchVars
  /\ IF p = "credentials" THEN TRUE ELSE UNCHANGED credentialVars
  /\ IF p = "records" THEN TRUE ELSE UNCHANGED recordVars
  /\ IF p = "log" THEN TRUE ELSE UNCHANGED logVars
  /\ IF p = "metadata" THEN TRUE ELSE UNCHANGED fetchVars
  /\ IF p = "backups" THEN TRUE ELSE UNCHANGED backupVars
  /\ IF p = "inspection" THEN TRUE ELSE UNCHANGED inspectVars

ServicesNext ==
  \/ part = "push" /\ Next /\ Keep("push")
  \/ part = "review" /\ ReviewStep /\ Keep("review")
  \/ part = "tokens" /\ TokenStep /\ Keep("tokens")
  \/ part = "scan" /\ ScanStep /\ Keep("scan")
  \/ part = "hooks" /\ HookStep /\ Keep("hooks")
  \/ part = "search" /\ Searches!Next /\ Keep("search")
  \/ part = "credentials" /\ Credentials!Next /\ Keep("credentials")
  \/ part = "records" /\ Records!Next /\ Keep("records")
  \/ part = "log" /\ Log!Next /\ Keep("log")
  \/ part = "metadata" /\ Fetches!Next /\ Keep("metadata")
  \/ part = "backups" /\ BackupStep /\ Keep("backups")
  \/ part = "inspection" /\ Inspections!Next /\ Keep("inspection")

servicesVars ==
  <<part, vars, reviewVars, tokenVars, scanVars, hookVars, searchVars, credentialVars,
    recordVars, logVars, fetchVars, backupVars, inspectVars>>

ServicesSpec == ServicesInit /\ [][ServicesNext]_servicesVars

-----------------------------------------------------------------------------
(***************************************************************************)
(* The properties of the components.                                       *)
(***************************************************************************)

\* Every variable of every component keeps its type.
ServicesTypeOK ==
  CASE part = "push" -> TypeOK
    [] part = "review" -> ReviewTypeOK
    [] part = "tokens" -> TokenTypeOK
    [] part = "scan" -> ScanTypeOK
    [] part = "hooks" -> HookTypeOK
    [] part = "search" -> Searches!TypeOK
    [] part = "credentials" -> Credentials!TypeOK
    [] part = "records" -> Records!TypeOK
    [] part = "log" -> Log!TypeOK
    [] part = "metadata" -> Fetches!TypeOK
    [] part = "backups" -> BackupTypeOK
    [] part = "inspection" -> Inspections!TypeOK

\* A search with partial answers costs no resource of a usable snapshot.
PartialLosesNothing == Searches!PartialLosesNothing

\* A batch that has ended says what its items say, and what was verified stays
\* known.
BatchesAreTrue ==
  [][part = "inspection" => /\ Inspections!BatchFollowsItems'
                            /\ Inspections!VerifiedIsKept]_servicesVars

\* The process uses the cookie that is stored, a change is committed only onto
\* the settings that its author saw, and a library root that counts as verified
\* was listed by 115.
SettingsAreTrue ==
  [][/\ part = "credentials" => /\ Credentials!RuntimeFollowsStore'
                                /\ Credentials!ChangeSawTheSettings
     /\ part = "records" => Records!VerifiedWasListed']_servicesVars

\* A client that follows the cursors of the log is shown every record, once.
PagesShowEverything == part = "log" => Log!PagesShowEverything

\* A metadata call takes away its own torrent and tag, and no other.
OnlyOwnTorrentsGo ==
  [][part = "metadata" => /\ Fetches!NothingIsLeftBehind'
                          /\ Fetches!ForeignTorrentsStay]_servicesVars
=============================================================================
