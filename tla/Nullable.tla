-------------------------------- MODULE Nullable --------------------------------
(***************************************************************************)
(* Python's None, for the fields that may have no value.  It is neither a  *)
(* number nor a truth value nor a word that the code puts in its place.    *)
(***************************************************************************)
EXTENDS Naturals

CONSTANT Missing

ASSUME MissingAssumption ==
  Missing \notin Nat \cup BOOLEAN \cup {"movie", "tv", "unknown", "complete", "partial"}
=============================================================================
