------------------------------ MODULE SharedRecords ------------------------------
(***************************************************************************)
(* The records that several people edit, each with a revision: the media   *)
(* library and the identities bound to its files (api/library.py), the     *)
(* quality profiles (services/quality_profiles.py) and the preferences of  *)
(* the notifications (services/notifications.py).                          *)
(*                                                                         *)
(* A request loads the row, compares the revision, changes the object and  *)
(* commits.  The UPDATE has no condition on the revision, and it writes    *)
(* only the columns whose value differs from the loaded one.               *)
(***************************************************************************)
EXTENDS Naturals, FiniteSets

CONSTANTS
  Editors,    \* concurrent requests
  Kinds,      \* which of "identity", "profile" and "preferences" there are
  Roots,      \* directories of 115
  MaxEdits,   \* bound: accepted requests
  MaxStops,   \* bound: how often the process stops
  NoRoot

VARIABLES
  record,   \* record[k]: [revision, edit], edit being who wrote the value
  library,  \* the row of the media library
  target,   \* organization_target_root_id, fixed while the process runs
  editor,   \* editor[e]: a request and the row it has loaded
  listed,   \* the directories that 115 has listed
  edits,    \* the number of accepted requests
  lives     \* how often the process was started

recordVars == <<record, library, target, editor, listed, edits, lives>>

NoLibrary == [revision |-> 0, root |-> NoRoot, verified |-> FALSE, enabled |-> FALSE]
Idle == [pc |-> "idle", kind |-> "library", seen |-> 0, edit |-> 0, loaded |-> NoLibrary]

TypeOK ==
  /\ \A k \in Kinds : record[k].revision \in 0..MaxEdits + 1 /\ record[k].edit \in 0..MaxEdits
  /\ library.revision \in 0..MaxEdits /\ library.root \in Roots \cup {NoRoot}
  /\ target \in Roots
  /\ \A e \in Editors : editor[e].pc \in {"idle", "save", "configure", "list", "verified"}
  /\ listed \subseteq Roots
  /\ edits \in 0..MaxEdits
  /\ lives \in 1..MaxStops + 1

Init ==
  /\ record = [k \in Kinds |-> [revision |-> IF k = "identity" THEN 0 ELSE 1, edit |-> 0]]
  /\ library = NoLibrary
  /\ target \in Roots
  /\ editor = [e \in Editors |-> Idle]
  /\ listed = {}
  /\ edits = 0
  /\ lives = 1

Serve(e, next) == editor[e] = Idle /\ editor' = [editor EXCEPT ![e] = next]
Answer(e) == editor' = [editor EXCEPT ![e] = Idle]
Accept == edits < MaxEdits /\ edits' = edits + 1

(***************************************************************************)
(* bind_library_identity, QualityProfileService.update and                 *)
(* update_preferences: a request that read the current revision loads it   *)
(* again; a request with another revision is refused and changes nothing.  *)
(***************************************************************************)
Load(e, k) ==
  /\ Serve(e, [Idle EXCEPT !.pc = "save", !.kind = k, !.seen = record[k].revision,
                           !.edit = record[k].edit])
  /\ UNCHANGED <<record, library, target, listed, edits, lives>>

LoadIdentity(e) == "identity" \in Kinds /\ Load(e, "identity")
LoadProfile(e) == "profile" \in Kinds /\ Load(e, "profile")
LoadPreferences(e) == "preferences" \in Kinds /\ Load(e, "preferences")

Save(e, k) ==
  /\ editor[e].pc = "save" /\ editor[e].kind = k
  /\ Accept
  /\ record' = [record EXCEPT ![k] = [revision |-> editor[e].seen + 1, edit |-> edits']]
  /\ Answer(e)
  /\ UNCHANGED <<library, target, listed, lives>>

\* The first identity is an INSERT, whose key may be taken by now.
SaveIdentity(e) == (editor[e].seen = 0 => record["identity"].revision = 0) /\ Save(e, "identity")
SaveProfile(e) == Save(e, "profile")
SavePreferences(e) == Save(e, "preferences")

IdentityTaken(e) ==
  /\ editor[e].pc = "save" /\ editor[e].kind = "identity"
  /\ editor[e].seen = 0 /\ record["identity"].revision > 0
  /\ Answer(e)
  /\ UNCHANGED <<record, library, target, listed, edits, lives>>

(***************************************************************************)
(* configure_library: only the root that the deployment writes to can be   *)
(* declared.  Another root has to be verified before it is used.           *)
(***************************************************************************)
BugDeclarable(root) == root \in Roots
Declarable(root) == root = target

ConfigureLoad(e, root) ==
  /\ Declarable(root)
  /\ Serve(e, [Idle EXCEPT !.pc = "configure", !.seen = library.revision, !.loaded = library,
                           !.edit = root])
  /\ UNCHANGED <<record, library, target, listed, edits, lives>>

\* The columns that differ from the loaded row; a taken key is refused.
ConfigureCommit(e) ==
  LET loaded == editor[e].loaded
      changed == loaded.root # editor[e].edit
  IN
  /\ editor[e].pc = "configure"
  /\ \/ /\ loaded # NoLibrary \/ library = NoLibrary
        /\ Accept
        /\ library' =
             [revision |-> loaded.revision + 1,
              root |-> IF changed THEN editor[e].edit ELSE library.root,
              verified |-> library.verified /\ ~(changed /\ loaded.verified),
              enabled |-> library.enabled /\ ~(changed /\ loaded.enabled)]
     \/ /\ loaded = NoLibrary /\ library # NoLibrary
        /\ UNCHANGED <<library, edits>>
  /\ Answer(e)
  /\ UNCHANGED <<record, target, listed, lives>>

(***************************************************************************)
(* verify_library_scope loads the row, lists one page of the root and then *)
(* marks the row, whatever it holds by then.                               *)
(***************************************************************************)
VerifyLoad(e) ==
  /\ library.root = target /\ ~library.verified
  /\ Serve(e, [Idle EXCEPT !.pc = "list", !.loaded = library])
  /\ UNCHANGED <<record, library, target, listed, edits, lives>>

ListRoot(e) ==
  /\ editor[e].pc = "list"
  /\ \/ /\ editor' = [editor EXCEPT ![e].pc = "verified"]
        /\ listed' = listed \cup {editor[e].loaded.root}
     \/ Answer(e) /\ UNCHANGED listed
  /\ UNCHANGED <<record, library, target, edits, lives>>

VerifyCommit(e) ==
  /\ editor[e].pc = "verified"
  /\ Accept
  /\ library' = [library EXCEPT !.verified = TRUE,
                                !.enabled = @ \/ ~editor[e].loaded.enabled,
                                !.revision = editor[e].loaded.revision + 1]
  /\ Answer(e)
  /\ UNCHANGED <<record, target, listed, lives>>

\* The deployment may name another root when it starts again.
Restart ==
  /\ lives <= MaxStops
  /\ lives' = lives + 1
  /\ target' \in Roots
  /\ editor' = [e \in Editors |-> Idle]
  /\ UNCHANGED <<record, library, listed, edits>>

Next ==
  \/ \E e \in Editors :
       \/ LoadIdentity(e) \/ LoadProfile(e) \/ LoadPreferences(e)
       \/ SaveIdentity(e) \/ SaveProfile(e) \/ SavePreferences(e) \/ IdentityTaken(e)
       \/ \E root \in Roots : ConfigureLoad(e, root)
       \/ ConfigureCommit(e) \/ VerifyLoad(e) \/ ListRoot(e) \/ VerifyCommit(e)
  \/ Restart

Spec == Init /\ [][Next]_recordVars

(***************************************************************************)
(* A root counts as verified only if 115 has listed that very root, though *)
(* the row may be configured anew while a listing is under way.            *)
(***************************************************************************)
VerifiedWasListed == library.verified => library.root \in listed

(***************************************************************************)
(* "The revision prevents overwriting other confirmations"                 *)
(* (contracts/inventory-identity.md:20): whoever writes a record has seen  *)
(* the value that is replaced.                                             *)
(***************************************************************************)
ConfirmationsAreKept ==
  [][\A k \in Kinds : record'[k] # record[k] =>
       \E e \in Editors : editor[e].pc = "save" /\ editor'[e].pc = "idle"
                          /\ editor[e].kind = k /\ editor[e].edit = record[k].edit]_recordVars
=============================================================================
