-------------------------------- MODULE Backups --------------------------------
(***************************************************************************)
(* BackupService (services/backups.py): online copies of the database,     *)
(* each with a manifest, in one directory.  One backup is made at a time,  *)
(* file by file; lists and previews run in other threads meanwhile.  A     *)
(* file operation may fail and the process may be killed between two of    *)
(* them.  Backups are numbered as they are begun: their names, times of    *)
(* creation and of the manifests follow that order (the clock is not set   *)
(* back), and a copy differs from every other one.                         *)
(***************************************************************************)
EXTENDS Naturals, FiniteSets, FiniteSetsExt

CONSTANTS
  MaxBackups,   \* bound: backups that are begun
  MaxKills,     \* bound: how often the process is killed
  Retention     \* retention_count

ASSUME RetentionAssumption ==
  /\ MaxBackups \in Nat /\ MaxKills \in Nat
  /\ Retention \in Nat \ {0}

VARIABLES
  partial,    \* backups with a temporary file
  databases,  \* backups whose copy is in the directory
  manifests,  \* backups whose manifest is in the directory
  maker,      \* create
  viewer,     \* preview_restore
  done,       \* how many backups have been reported as created
  spoilt,     \* how many creates failed while they removed older backups
  kills       \* how often the process has been killed

backupVars == <<partial, databases, manifests, maker, viewer, done, spoilt, kills>>

All == 1..MaxBackups
Whole == databases \cap manifests
Making == {"copy", "replace", "manifest", "retain", "drop copy", "drop manifest", "undo"}
Statuses == {"none", "not_found", "manifest_invalid", "database_missing", "ready", "invalid"}

BackupTypeOK ==
  /\ partial \subseteq All /\ databases \subseteq All /\ manifests \subseteq All
  /\ maker \in [pc : {"idle"} \cup Making, id : 0..MaxBackups, old : SUBSET All]
  /\ viewer \in [pc : {"idle", "read", "verify"}, id : 0..MaxBackups, status : Statuses]
  /\ done \in 0..MaxBackups /\ spoilt \in 0..MaxBackups /\ kills \in 0..MaxKills

Resting(id) == [pc |-> "idle", id |-> id, old |-> {}]
NoViewer == [pc |-> "idle", id |-> 0, status |-> "none"]

BackupInit ==
  /\ partial = {} /\ databases = {} /\ manifests = {}
  /\ maker = Resting(0)
  /\ viewer = NoViewer
  /\ done = 0 /\ spoilt = 0 /\ kills = 0

Goto(place) == maker' = [maker EXCEPT !.pc = place]

-----------------------------------------------------------------------------
BeginBackup ==
  /\ maker.pc = "idle" /\ maker.id < MaxBackups
  /\ maker' = [pc |-> "copy", id |-> maker.id + 1, old |-> {}]
  /\ UNCHANGED <<partial, databases, manifests, viewer, done, spoilt, kills>>

Copy ==
  /\ maker.pc = "copy"
  /\ partial' = partial \cup {maker.id}
  /\ Goto("replace")
  /\ UNCHANGED <<databases, manifests, viewer, done, spoilt, kills>>

ReplaceCopy ==
  /\ maker.pc = "replace"
  /\ partial' = partial \ {maker.id}
  /\ databases' = databases \cup {maker.id}
  /\ Goto("manifest")
  /\ UNCHANGED <<manifests, viewer, done, spoilt, kills>>

\* The manifest holds the digest of the copy, and appears in one step.
WriteManifest ==
  /\ maker.pc = "manifest"
  /\ manifests' = manifests \cup {maker.id}
  /\ Goto("retain")
  /\ UNCHANGED <<partial, databases, viewer, done, spoilt, kills>>

\* What retention removes: every manifest but the newest ones, of a whole
\* backup or not.
BugBeyond(found) == {b \in found : Cardinality({c \in found : c > b}) >= Retention - 1}
Beyond(found) == {b \in found : Cardinality({c \in found : c > b}) >= Retention}

ListOld ==
  /\ maker.pc = "retain"
  /\ maker' = [maker EXCEPT !.pc = "drop copy", !.old = Beyond(manifests)]
  /\ UNCHANGED <<partial, databases, manifests, viewer, done, spoilt, kills>>

Created ==
  /\ maker.pc = "drop copy" /\ maker.old = {}
  /\ maker' = Resting(maker.id)
  /\ done' = done + 1
  /\ UNCHANGED <<partial, databases, manifests, viewer, spoilt, kills>>

\* Newest first: the copy, then its manifest.
DropCopy ==
  /\ maker.pc = "drop copy" /\ maker.old # {}
  /\ databases' = databases \ {Max(maker.old)}
  /\ Goto("drop manifest")
  /\ UNCHANGED <<partial, manifests, viewer, done, spoilt, kills>>

DropManifest ==
  /\ maker.pc = "drop manifest"
  /\ manifests' = manifests \ {Max(maker.old)}
  /\ maker' = [maker EXCEPT !.pc = "drop copy", !.old = maker.old \ {Max(maker.old)}]
  /\ UNCHANGED <<partial, databases, viewer, done, spoilt, kills>>

\* Retention runs inside the handler of create: when a removal of an old file
\* fails, the new backup is removed as well.
Fail ==
  /\ maker.pc \in Making \ {"undo", "retain"} /\ (maker.pc = "drop copy" => maker.old # {})
  /\ spoilt' = IF maker.pc \in {"drop copy", "drop manifest"} THEN spoilt + 1 ELSE spoilt
  /\ Goto("undo")
  /\ UNCHANGED <<partial, databases, manifests, viewer, done, kills>>

Undo ==
  /\ maker.pc = "undo"
  /\ \/ /\ maker.id \in partial \cup databases
        /\ partial' = partial \ {maker.id}
        /\ databases' = databases \ {maker.id}
        /\ UNCHANGED <<manifests, maker>>
     \/ /\ maker.id \notin partial \cup databases
        /\ manifests' = manifests \ {maker.id}
        /\ maker' = Resting(maker.id)
        /\ UNCHANGED <<partial, databases>>
  /\ UNCHANGED <<viewer, done, spoilt, kills>>

-----------------------------------------------------------------------------
Show(status) == viewer' = [viewer EXCEPT !.pc = "idle", !.status = status]

FindManifest ==
  /\ viewer.pc = "idle"
  /\ \E b \in All :
       viewer' = IF b \in manifests THEN [pc |-> "read", id |-> b, status |-> "none"]
                 ELSE [pc |-> "idle", id |-> b, status |-> "not_found"]
  /\ UNCHANGED <<partial, databases, manifests, maker, done, spoilt, kills>>

ReadManifest ==
  /\ viewer.pc = "read"
  /\ IF viewer.id \notin manifests THEN Show("manifest_invalid")
     ELSE IF viewer.id \notin databases THEN Show("database_missing")
     ELSE viewer' = [viewer EXCEPT !.pc = "verify"]
  /\ UNCHANGED <<partial, databases, manifests, maker, done, spoilt, kills>>

\* The digest and the integrity check: a copy that has gone is not valid.
VerifyCopy ==
  /\ viewer.pc = "verify"
  /\ Show(IF viewer.id \in databases THEN "ready" ELSE "invalid")
  /\ UNCHANGED <<partial, databases, manifests, maker, done, spoilt, kills>>

KillBackup ==
  /\ kills < MaxKills
  /\ kills' = kills + 1
  /\ maker' = Resting(maker.id)
  /\ viewer' = NoViewer
  /\ UNCHANGED <<partial, databases, manifests, done, spoilt>>

BackupStep ==
  \/ BeginBackup \/ Copy \/ ReplaceCopy \/ WriteManifest \/ ListOld \/ DropCopy \/ DropManifest
  \/ Created \/ Fail \/ Undo
  \/ FindManifest \/ ReadManifest \/ VerifyCopy
  \/ KillBackup

BackupSpec == BackupInit /\ [][BackupStep]_backupVars

-----------------------------------------------------------------------------
\* As many whole backups remain as retention promises, or as were ever made:
\* a create that fails half way, or a process that dies in the middle of one,
\* costs none of them.  Only a create that fails while it removes old backups
\* may cost one, since it then removes the new one as well.
EnoughRemain == Cardinality(Whole) + spoilt >= Min({Retention, done})
=============================================================================
