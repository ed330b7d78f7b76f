---------------------------- MODULE MCPublicRead ----------------------------
(***************************************************************************)
(* PublicRead on small instances, for TLC.                                 *)
(***************************************************************************)
EXTENDS PublicRead, TLC

\* Identifiers are only compared for equality.
Symmetry == Permutations(ContentId) \cup Permutations(Slug)
=============================================================================
