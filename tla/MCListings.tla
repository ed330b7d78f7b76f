----------------------------- MODULE MCListings -----------------------------
(***************************************************************************)
(* A client walking lists while others write, for TLC.                     *)
(***************************************************************************)
EXTENDS Listings, TLC

\* Document ids are ordered, so only slugs are symmetric.
Symmetry == Permutations(Slug)
=============================================================================
