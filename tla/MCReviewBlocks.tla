----------------------------- MODULE MCReviewBlocks -----------------------------
(***************************************************************************)
(* A magnet of which only the name is known, put to the check in front of  *)
(* a push with one library whose snapshot is fresh.                        *)
(***************************************************************************)
EXTENDS MCLibraryQuestions

VARIABLES files, code

MCInit == files \in [1..2 -> Held] /\ code = "none"

Probe == Unbound

MCCheck ==
  /\ code = "none"
  /\ code' = Library!Guard(<<LibraryOf("fresh", files)>>, Probe)
  /\ UNCHANGED files

MCSpec == MCInit /\ [][MCCheck]_<<files, code>>

\* A file name is no proof: contracts/inventory-identity.md:16 says that a
\* candidate that only its name suggests cannot block a push by itself.  The
\* guard (inventory_push_guard.py) refuses it like any other finding.
NamesDoNotBlock ==
  code # "none" => Library!NamesDoNotBlock(<<LibraryOf("fresh", files)>>, Probe)
=============================================================================
