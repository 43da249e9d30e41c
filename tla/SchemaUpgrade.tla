------------------------------ MODULE SchemaUpgrade ------------------------------
(***************************************************************************)
(* initialize_database (db.py) at the start of the application: in one     *)
(* transaction the tables that are missing are created as they are now,    *)
(* and the migrations (migrations.py) that the database has not recorded   *)
(* are applied in order and recorded.  The process may be killed anywhere, *)
(* and starts again on what the file then holds.                           *)
(*                                                                         *)
(* A database is [tables, applied].  It maps each table it has to          *)
(* [columns, strict, rows]: of its columns those that the migrations are   *)
(* about, the NOT NULL ones among them that this release does not write    *)
(* any more, and its rows as functions of the columns.  "other" stands for *)
(* the tables that no migration changes.                                   *)
(***************************************************************************)
EXTENDS Nullable, Naturals, Sequences

\* The columns of the tables of this release.
CurrentColumns ==
  [settings |-> {"auto start", "policy"}, scans |-> {"removed"}, plans |-> {"alias"},
   cache |-> {"kind"}, items |-> {"source"}, tasks |-> {"workflow"},
   workflows |-> {"media"},
   stages |-> {"stage", "status", "child", "completed", "reason"},
   audit |-> {"timestamp", "event", "title", "status", "context"}, other |-> {}]
Tables == DOMAIN CurrentColumns
NewTable(t) == [columns |-> CurrentColumns[t], strict |-> {}, rows |-> {}]

\* MIGRATIONS: the tables a migration creates when they are missing, and the
\* columns it adds.  Those that create nothing but other tables are left out, but one.
Migration(id, creates, adds) == [id |-> id, creates |-> creates, adds |-> adds]
Migrations ==
  <<Migration("001", {}, [settings |-> {"auto start", "policy"}]),
    Migration("002", {"scans", "other"}, <<>>),
    Migration("003", {"plans"}, <<>>),
    Migration("004", {}, [plans |-> {"alias"}]),
    Migration("007", {"audit"}, <<>>),
    Migration("008", {}, [cache |-> {"kind"}]),
    Migration("009", {}, [items |-> {"source"}]),
    Migration("012", {"workflows", "stages"}, [tasks |-> {"workflow"}]),
    Migration("031", {}, [workflows |-> {"media"}, stages |-> {"stage", "child", "completed"}]),
    Migration("036", {"other"}, [scans |-> {"removed"}]),
    Migration("037", {}, [audit |-> {"timestamp", "title", "status", "context"}]),
    Migration("038", {}, <<>>)>>

\* What is done one after the other: create_all and the migrations, the last of
\* which copies a table, drops it and fills it anew.
Steps == <<"create_all">> \o [i \in 1..Len(Migrations) - 1 |-> Migrations[i].id]
           \o <<"038 copy", "038 drop", "038 fill">>
MigrationOf(name) == CHOOSE m \in {Migrations[i] : i \in DOMAIN Migrations} : m.id = name

-----------------------------------------------------------------------------
With(tables, t, table) ==
  [u \in DOMAIN tables \cup {t} |-> IF u = t THEN table ELSE tables[u]]
Created(tables, missing) ==
  [t \in DOMAIN tables \cup missing |->
     IF t \in DOMAIN tables THEN tables[t] ELSE NewTable(t)]

\* ALTER TABLE ... ADD COLUMN, for the columns that are not there.
Default(column) == CASE column = "context" -> "{}"
                     [] column = "policy" -> "{}"
                     [] column = "auto start" -> TRUE
                     [] column = "kind" -> "positive"
                     [] column = "removed" -> 0
                     [] OTHER -> Missing
WithColumns(table, columns) ==
  [table EXCEPT
     !.columns = @ \cup columns,
     !.rows = {[c \in table.columns \cup columns |->
                  IF c \in table.columns THEN r[c] ELSE Default(c)] : r \in @}]
Extended(tables, adds) ==
  [t \in DOMAIN tables |->
     IF t \in DOMAIN adds THEN WithColumns(tables[t], adds[t]) ELSE tables[t]]

Coalesce(value, other) == IF value = Missing THEN other ELSE value

\* _upgrade_legacy_workflow_schema: the rows get the names of this release, as
\* far as the table had the columns before.
StageName(key) == IF key = "search" THEN "discovery" ELSE key
BugStatusName(status) == IF status = "completed" THEN "succeeded" ELSE status
StatusName(status) ==
  CASE status = "completed" -> "succeeded"
    [] status = "queued" -> "pending"
    [] status = "needs_auth" -> "waiting_confirmation"
    [] OTHER -> status
StageCarried(row, had) ==
  [row EXCEPT
     !.stage = IF "stage_key" \in had THEN Coalesce(@, StageName(row["stage_key"])) ELSE @,
     !.status = StatusName(@),
     !.child = IF "task_id" \in had THEN Coalesce(@, row["task_id"]) ELSE @,
     !.completed = IF "finished_at" \in had THEN Coalesce(@, row["finished_at"]) ELSE @]

\* _upgrade_audit_records_schema
AuditCarried(row, had) ==
  [row EXCEPT !.timestamp = IF "created_at" \in had THEN Coalesce(@, row["created_at"])
                            ELSE @]

\* _rebuild_legacy_audit_records: a table that wants what is not written any more.
MustRebuild(table) ==
  /\ {"action", "outcome"} \subseteq table.columns
  /\ table.strict \cap {"action", "outcome"} # {}
AuditRebuilt(row) ==
  [timestamp |-> Coalesce(row.timestamp, Coalesce(row["created_at"], "now")),
   event |-> row.event, title |-> Coalesce(row["action"], "history"),
   status |-> row["outcome"], context |-> Coalesce(row["details_json"], "{}")]

Migrated(tables, name) ==
  LET m == MigrationOf(name)
      extended == Extended(Created(tables, m.creates), m.adds)
  IN CASE name = "031" ->
            [extended EXCEPT !["stages"].rows =
               {StageCarried(r, tables["stages"].columns) : r \in @}]
       [] name = "037" ->
            [extended EXCEPT !["audit"].rows =
               {AuditCarried(r, tables["audit"].columns) : r \in @}]
       [] OTHER -> extended

Rebuilding(tables, name) ==
  CASE name = "038 copy" ->
         IF MustRebuild(tables["audit"]) /\ "audit_legacy" \notin DOMAIN tables
         THEN With(tables, "audit_legacy", tables["audit"]) ELSE tables
    [] name = "038 drop" ->
         IF MustRebuild(tables["audit"])
         THEN [t \in DOMAIN tables \ {"audit"} |-> tables[t]] ELSE tables
    [] name = "038 fill" ->
         IF "audit" \in DOMAIN tables THEN tables
         ELSE With(tables, "audit",
                [NewTable("audit") EXCEPT
                   !.rows = {AuditRebuilt(r) : r \in tables["audit_legacy"].rows}])

-----------------------------------------------------------------------------
IsRebuild(name) == name \in {"038 copy", "038 drop", "038 fill"}
IdOf(name) == IF IsRebuild(name) THEN "038" ELSE name

\* run_migrations: a migration that is recorded is passed over.
Apply(db, name) ==
  CASE name = "create_all" -> [db EXCEPT !.tables = Created(@, Tables)]
    [] name # "create_all" /\ IdOf(name) \in db.applied -> db
    [] OTHER ->
         [tables |-> IF IsRebuild(name) THEN Rebuilding(db.tables, name)
                     ELSE Migrated(db.tables, name),
          applied |-> IF name \in {"038 copy", "038 drop"} THEN db.applied
                      ELSE db.applied \cup {IdOf(name)}]

\* What the connection sees after the first n steps.
After(db, n) ==
  LET seen[i \in 0..n] == IF i = 0 THEN db ELSE Apply(seen[i - 1], Steps[i]) IN seen[n]

Upgraded(db) == After(db, Len(Steps))

BugLeftBehind(db, n) == After(db, n)
\* What the file holds when the process is killed after n steps: everything runs
\* in one transaction that begins before the first (BEGIN IMMEDIATE).
LeftBehind(db, n) == db

-----------------------------------------------------------------------------
(***************************************************************************)
(* The databases that earlier releases have left, as the tests of the      *)
(* migrations build them: settings with fewer columns, the workflow tables *)
(* of before the timeline, and audit tables with other columns; tables     *)
(* that were not there yet, and ones that are as they are now.             *)
(***************************************************************************)
Plain(columns) ==
  [columns |-> columns \cup {"id"}, strict |-> {},
   rows |-> {[c \in columns \cup {"id"} |-> "kept"]}]

OldStages(status, key, end) ==
  LET row == [stage_key |-> key, status |-> status, task_id |-> "task",
              finished_at |-> end]
  IN [columns |-> DOMAIN row, strict |-> {"stage_key"}, rows |-> {row}]

OldAudit(strict, words) ==
  LET row == [event |-> "event", action |-> words, outcome |-> words,
              details_json |-> Missing, created_at |-> "then"]
  IN [columns |-> DOMAIN row, strict |-> strict, rows |-> {row}]

Forms(t) ==
  CASE t = "settings" -> {Plain({}), Plain({"auto start"}), Plain(CurrentColumns[t])}
    [] t = "stages" ->
         {NewTable(t), OldStages("completed", "search", "then")} \cup
         {OldStages(status, "push", Missing) : status \in {"queued", "needs_auth", "failed"}}
    [] t = "audit" -> {NewTable(t), OldAudit({}, Missing), OldAudit({"action"}, "words")}
    [] OTHER -> {Plain({}), Plain(CurrentColumns[t])}

\* A migration that is recorded has had its effect.
Effective(m, tables) ==
  /\ m.creates \cup DOMAIN m.adds \subseteq DOMAIN tables
  /\ \A t \in DOMAIN m.adds : m.adds[t] \subseteq tables[t].columns
  /\ m.id = "038" => ~MustRebuild(tables["audit"])

\* Apart from settings, stages and audit the tables are all of one age.
TableSets ==
  LET Form(t, settings, stages, audit, current) ==
        CASE t = "settings" -> settings
          [] t = "stages" -> stages
          [] t = "audit" -> audit
          [] OTHER -> Plain(IF current THEN CurrentColumns[t] ELSE {})
  IN {[t \in there |-> Form(t, settings, stages, audit, current)] :
        there \in {Tables, {"settings"}, {"settings", "stages"}, Tables \ {"audit"}, {}},
        settings \in Forms("settings"), stages \in Forms("stages"),
        audit \in Forms("audit"), current \in BOOLEAN}

Databases ==
  {db \in {[tables |-> tables, applied |-> {Migrations[i].id : i \in 1..n}] :
             tables \in TableSets, n \in 0..Len(Migrations)} :
     \A i \in DOMAIN Migrations :
       Migrations[i].id \in db.applied => Effective(Migrations[i], db.tables)}

-----------------------------------------------------------------------------
\* Every migration is recorded and every table has what it is read by, but for
\* the columns of a stage that no migration adds.
UpToDate(db) ==
  /\ db.applied = {Migrations[i].id : i \in DOMAIN Migrations}
  /\ \A t \in Tables : /\ t \in DOMAIN db.tables
                       /\ CurrentColumns[t] \ {"reason"} \subseteq db.tables[t].columns
  /\ db.tables["audit"].strict = {}

\* A row says the same, in the words of this release.
SaysTheSame(t, old, new) ==
  CASE t = "stages" /\ "stage_key" \in DOMAIN old ->
         /\ new.stage = IF old["stage_key"] = "search" THEN "discovery" ELSE "push"
         /\ new.child = old["task_id"] /\ new.completed = old["finished_at"]
         /\ new.status \notin {"completed", "queued", "needs_auth"}
    [] t = "audit" ->
         /\ new.event = old.event /\ new.timestamp = old["created_at"]
         /\ "words" \in {old["action"], old["outcome"]} => "words" \in {new.title, new.status}
    [] OTHER -> \A c \in DOMAIN old : new[c] = old[c]

(***************************************************************************)
(* UpgradeIsWhole: wherever the process was killed before it started       *)
(* again, the application serves an upgraded database in which every row   *)
(* of the earlier release is still there and says what it said (the        *)
(* rebuild of the audit table drops it before it is filled anew, and       *)
(* create_all would make an empty one in its place), and another start     *)
(* changes nothing (initialize_database, run_migrations).                  *)
(***************************************************************************)
UpgradeIsWhole(db, served) ==
  /\ UpToDate(served) /\ Upgraded(served) = served
  /\ \A t \in DOMAIN db.tables : \A old \in db.tables[t].rows :
       \E new \in served.tables[t].rows : SaysTheSame(t, old, new)
=============================================================================
