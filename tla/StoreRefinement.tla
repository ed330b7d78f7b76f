-------------------------- MODULE StoreRefinement --------------------------
(***************************************************************************)
(* The tables of module Store as an implementation of module Publication:  *)
(* rowids become edition numbers, current_version the length of a history, *)
(* and the two active states of a schedule one open promise.  Claims,      *)
(* releases, failures and steals are invisible.                            *)
(***************************************************************************)
EXTENDS Store

\* NULL is the absence of a promise, never a promise.
ASSUME RefinementAssumption ==
    NULL \notin [doc : ContentId, edition : Nat, state : {"open", "kept", "off"}]

historyBar ==
    [c \in ContentId |->
        IF c \in DOMAIN contents
        THEN [n \in 1 .. contents[c].current_version |->
                 content_versions[RowOf(c, n)].fields]
        ELSE << >>]

publicBar ==
    [c \in ContentId |->
        IF c \in DOMAIN contents /\ contents[c].published_version_id # NULL
        THEN content_versions[contents[c].published_version_id].version
        ELSE 0]

PromiseState(status) ==
    CASE status = "done" -> "kept"
      [] status = "cancelled" -> "off"
      [] OTHER -> "open"

promisesBar ==
    [s \in ScheduleId |->
        IF s \in DOMAIN publish_schedules
        THEN [doc     |-> publish_schedules[s].content_id,
              edition |-> content_versions[publish_schedules[s].version_id].version,
              state   |-> PromiseState(publish_schedules[s].status)]
        ELSE NULL]

P == INSTANCE Publication WITH
        Document <- ContentId, Payload <- Fields, Promise <- ScheduleId,
        Nobody <- NULL,
        history <- historyBar, public <- publicBar, promises <- promisesBar

\* The database, used by anybody in any order and under any clock, is an
\* implementation of Publication: an accepted edit becomes the next edition of
\* its document and of no other, a document's public edition changes only when
\* somebody releases or withdraws it or a promise about it is kept, and a
\* promise is kept at most once and never after it was called off.
ImplementsPublication == P!PubSpec

=============================================================================
