----------------------- MODULE MCOrganizationOperations -----------------------
(***************************************************************************)
(* TLC instance of OrganizationOperations and of its refinement.           *)
(***************************************************************************)
EXTENDS OrganizationOperations, TLC

ClientSymmetry == Permutations(Clients)
=============================================================================
