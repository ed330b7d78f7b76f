---------------------------- MODULE MCScheduler ----------------------------
(***************************************************************************)
(* Scheduler on small instances, for TLC.                                  *)
(***************************************************************************)
EXTENDS Scheduler, TLC

\* Identifiers are only compared for equality.
Symmetry == Permutations(ContentId) \cup Permutations(ScheduleId)
              \cup Permutations(Worker) \cup Permutations(Slug)

WorkerSymmetry == Permutations(Worker)
=============================================================================
