------------------------------- MODULE MCApi -------------------------------
(***************************************************************************)
(* Api on small instances, for TLC.                                        *)
(***************************************************************************)
EXTENDS Api, TLC

\* Identifiers and payloads are only compared for equality.
Symmetry == Permutations(ContentId) \cup Permutations(Editor)
              \cup Permutations(Slug) \cup Permutations(Fields)
              \cup Permutations(Worker) \cup Permutations(ScheduleId)

\* A bound: nothing is looked at after an answer with a view has arrived.  All a
\* view is good for is the tag of a PUT, and a PUT with "*" does what one with
\* the current tag does; an editor whose answer got lost goes on as one whose
\* answer arrived.
NoneRemembered == \A e \in Editor, c \in ContentId : seen[e][c] = NULL
=============================================================================
