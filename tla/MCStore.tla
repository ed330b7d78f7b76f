------------------------------ MODULE MCStore ------------------------------
(***************************************************************************)
(* Store and its refinement of Publication on small tables, for TLC.       *)
(***************************************************************************)
EXTENDS StoreRefinement, TLC

\* Identifiers are only compared for equality, payloads only copied.
Symmetry == Permutations(ContentId) \cup Permutations(ScheduleId)
              \cup Permutations(Worker) \cup Permutations(Slug)
              \cup Permutations(Fields)
=============================================================================
