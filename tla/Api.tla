-------------------------------- MODULE Api --------------------------------
(***************************************************************************)
(* The admin API of internal/httpapi and internal/content: editors with    *)
(* one request each in flight, and the handlers that serve them.           *)
(*                                                                         *)
(* A handler is a chain of database calls, each on its own connection and  *)
(* snapshot.  What it read in one call (the version behind "*", the rowid  *)
(* of a version number) it uses in the next one, when other handlers and   *)
(* workers may have committed in between.  Any call may fail and the       *)
(* answer may get lost, also after the transaction committed; the editor   *)
(* then knows nothing new and may send the request again.                  *)
(*                                                                         *)
(* A handler that touches the database for the first time in its           *)
(* transaction is not seen before it; its clock read is an arbitrary       *)
(* instant of Time.  Left out: bodies that do not decode, slugs and fields *)
(* that do not validate, and an If-Match that is missing (428) or          *)
(* malformed (400), which are refused before any database call; and the    *)
(* timestamps of a view.                                                   *)
(*                                                                         *)
(* The list asks for one page that holds everything; module Listings has   *)
(* pages, totals and the history.                                          *)
(***************************************************************************)
EXTENDS Store

CONSTANT Editor

ASSUME ApiAssumption == NULL \notin Fields

VARIABLES
    req,        \* editor -> its request in flight: program point and what it read
    seen,       \* editor -> content -> the last admin view it was given
    calledOff   \* the schedules whose cancellation was answered 204

apiVars == <<req, seen, calledOff>>
allVars == <<storeVars, apiVars>>

ApiInit ==
    /\ StoreInit
    /\ req = [e \in Editor |-> NULL]
    /\ seen = [e \in Editor |-> [c \in ContentId |-> NULL]]
    /\ calledOff = {}

-----------------------------------------------------------------------------
(* Reading. *)

\* contentStatus: derived from the pointer.
ContentStatus(published, current) ==
    CASE published = NULL -> "draft"
      [] published \notin {NULL, current} -> "published_with_draft"
      [] OTHER -> "published"

\* toContentDTO.  The version is also the entity tag (formatETag).
View(version, draft, published) ==
    [version           |-> version,
     draft             |-> draft,
     status            |-> ContentStatus(published, version),
     published_version |-> published]

\* Seeded fault: no pointer gives the zero of the number's type.
PublishedVersionNumber_Zero(c) ==
    LET v == contents[c].published_version_id
    IN  IF v = NULL THEN 0 ELSE content_versions[v].version

\* publishedVersionNumber: the rowid behind the pointer as a version number.
PublishedVersionNumber(c) ==
    LET v == contents[c].published_version_id
    IN  IF v = NULL THEN NULL ELSE content_versions[v].version

\* Seeded fault: the draft is the newest row of the table.
ContentView_NewestRow(c) ==
    View(contents[c].current_version,
         content_versions[Len(content_versions)].fields,
         PublishedVersionNumber(c))

\* GetContentWithCurrentVersion.  One join reads the row and its draft; the
\* version behind the pointer comes from a second query, on a row that never
\* changes.
ContentView(c) ==
    View(contents[c].current_version,
         content_versions[RowOf(c, contents[c].current_version)].fields,
         PublishedVersionNumber(c))

-----------------------------------------------------------------------------
(* The life of a request. *)

Free(e) == req[e] = NULL

At(e, point) == ~Free(e) /\ req[e].pc = point

Continue(e, r) == req' = [req EXCEPT ![e] = r]

\* The answer is complete, with the views it shows.
Rendered(views) == [pc |-> "render", views |-> views]

\* The answer arrives, and e keeps the views it carries.
Deliver(e) ==
    /\ At(e, "render")
    /\ seen' = [seen EXCEPT ![e] = [c \in ContentId |->
            IF c \in DOMAIN req[e].views THEN req[e].views[c] ELSE seen[e][c]]]
    /\ Continue(e, NULL)
    /\ UNCHANGED <<storeVars, calledOff>>

\* The request ends with an answer that shows no view (an error of
\* writeDomainError, the 201 of a schedule), or with none that arrives.
End(e) ==
    /\ ~Free(e)
    /\ Continue(e, NULL)
    /\ UNCHANGED <<storeVars, seen, calledOff>>

\* Content.Get, for a GET and after a publish or an unpublish
\* (writeContentState): what everybody has committed by now.
ReadState(e) ==
    /\ At(e, "state") /\ req[e].id \in DOMAIN contents
    /\ Continue(e, Rendered([c \in {req[e].id} |-> ContentView(c)]))
    /\ UNCHANGED <<storeVars, seen, calledOff>>

-----------------------------------------------------------------------------
(* Contents (admin.go). *)

HandleCreateContent(e) ==
    /\ Free(e)
    /\ \E id \in ContentId, slug \in Slug, f \in Fields, t \in Time :
          /\ CreateContent(id, slug, f, t)
          /\ Continue(e, Rendered([c \in {id} |-> View(1, f, NULL)]))
    /\ UNCHANGED <<seen, calledOff>>

HandleGetContent(e) ==
    /\ Free(e)
    /\ \E c \in ContentId : Continue(e, [pc |-> "state", id |-> c])
    /\ UNCHANGED <<storeVars, seen, calledOff>>

\* The page is one query; its total is another, which module Listings looks at.
HandleListContents(e) ==
    /\ Free(e)
    /\ Continue(e, Rendered([c \in DOMAIN contents |-> ContentView(c)]))
    /\ UNCHANGED <<storeVars, seen, calledOff>>

\* A PUT carries the tag of the view the editor has edited, or "*".
HandleUpdateContent(e) ==
    /\ Free(e)
    /\ \E c \in ContentId, f \in Fields :
          \/ Continue(e, [pc |-> "wildcard", id |-> c, fields |-> f])
          \/ /\ seen[e][c] # NULL
             /\ Continue(e, [pc |-> "update", id |-> c, fields |-> f,
                             base |-> seen[e][c]])
    /\ UNCHANGED <<storeVars, seen, calledOff>>

\* "*" stands for the version that is current now.
ResolveWildcard(e) ==
    /\ At(e, "wildcard") /\ req[e].id \in DOMAIN contents
    /\ Continue(e, [pc |-> "update", id |-> req[e].id, fields |-> req[e].fields,
                    base |-> ContentView(req[e].id)])
    /\ UNCHANGED <<storeVars, seen, calledOff>>

\* Seeded fault: the token is read again right before the write.
UpdateCommit_Blind(e) ==
    /\ At(e, "update")
    /\ \E t \in Time :
          UpdateContent(req[e].id, contents[req[e].id].current_version, req[e].fields, t)
    /\ Continue(e, Rendered([c \in {req[e].id} |->
            View(contents[c].current_version + 1, req[e].fields,
                 PublishedVersionNumber(c))]))
    /\ UNCHANGED <<seen, calledOff>>

\* Content.Update.  The answer shows the row as the transaction left it.
UpdateCommit(e) ==
    /\ At(e, "update")
    /\ \E t \in Time : UpdateContent(req[e].id, req[e].base.version, req[e].fields, t)
    /\ Continue(e, Rendered([c \in {req[e].id} |->
            View(req[e].base.version + 1, req[e].fields,
                 PublishedVersionNumber(c))]))
    /\ UNCHANGED <<seen, calledOff>>

\* A stale token: writeDomainError reads the row again for its details.
UpdateConflict(e) ==
    /\ At(e, "update")
    /\ UpdateContentResult(req[e].id, req[e].base.version) = "ErrVersionConflict"
    /\ Continue(e, [pc |-> "conflict", id |-> req[e].id, base |-> req[e].base])
    /\ UNCHANGED <<storeVars, seen, calledOff>>

\* The details name the version that is current now and its tag, and an editor
\* may send that tag at once instead of reading again ("rebase without a
\* second round trip").
Rebase(e) ==
    /\ At(e, "conflict")
    /\ \E f \in Fields :
          Continue(e, [pc |-> "update", id |-> req[e].id, fields |-> f,
                       base |-> ContentView(req[e].id)])
    /\ UNCHANGED <<storeVars, seen, calledOff>>

-----------------------------------------------------------------------------
(* Publishing and scheduling (publish.go). *)

HandlePublish(e) ==
    /\ Free(e)
    /\ \E c \in ContentId, n \in VersionId :
          Continue(e, [pc |-> "resolve", op |-> "publish", id |-> c, asked |-> n,
                       runAt |-> NULL])
    /\ UNCHANGED <<storeVars, seen, calledOff>>

\* Content.Schedule reads the clock first and wants a run_at after it.
HandleCreateSchedule(e) ==
    /\ Free(e)
    /\ \E c \in ContentId, n \in VersionId, t, runAt \in Time :
          /\ runAt > t
          /\ Continue(e, [pc |-> "resolve", op |-> "schedule", id |-> c, asked |-> n,
                          runAt |-> runAt])
    /\ UNCHANGED <<storeVars, seen, calledOff>>

\* GetVersion turns the version number into a rowid, outside the transaction.
Resolve(e) ==
    /\ At(e, "resolve") /\ ~VersionFree(req[e].id, req[e].asked)
    /\ Continue(e, [pc |-> req[e].op, id |-> req[e].id, asked |-> req[e].asked,
                    runAt |-> req[e].runAt, row |-> RowOf(req[e].id, req[e].asked)])
    /\ UNCHANGED <<storeVars, seen, calledOff>>

\* Seeded fault: nothing is written once the audit trail has a publish of this
\* version, whatever became of the document since.
PublishCommit_EverDone(e) ==
    /\ At(e, "publish")
    /\ \/ \E t \in Time : Publish(req[e].id, req[e].row, t)
       \/ /\ \E i \in DOMAIN publish_events :
                /\ publish_events[i].action = "publish"
                /\ publish_events[i].version_id = req[e].row
          /\ UNCHANGED storeVars
    /\ Continue(e, [pc |-> "state", id |-> req[e].id])
    /\ UNCHANGED <<seen, calledOff>>

\* Content.Publish: written, or public already.
PublishCommit(e) ==
    /\ At(e, "publish")
    /\ \/ \E t \in Time : Publish(req[e].id, req[e].row, t)
       \/ PublishResult(req[e].id, req[e].row) = "noop" /\ UNCHANGED storeVars
    /\ Continue(e, [pc |-> "state", id |-> req[e].id])
    /\ UNCHANGED <<seen, calledOff>>

\* Content.Schedule.
ScheduleCommit(e) ==
    /\ At(e, "schedule")
    /\ \E s \in ScheduleId :
          /\ CreateSchedule(s, req[e].id, req[e].row, req[e].runAt)
          /\ Continue(e, [pc |-> "scheduled"])
    /\ UNCHANGED <<seen, calledOff>>

\* Seeded fault: the pointer is cleared in a transaction without an audit row.
HandleUnpublish_Silent(e) ==
    /\ Free(e)
    /\ \E c \in DOMAIN contents, t \in Time :
          /\ SetPublished(c, NULL, NULL, t)
          /\ UNCHANGED <<content_versions, publish_schedules, publish_events>>
          /\ Continue(e, [pc |-> "state", id |-> c])
    /\ UNCHANGED <<seen, calledOff>>

\* Written, or withdrawn already.
HandleUnpublish(e) ==
    /\ Free(e)
    /\ \E c \in ContentId :
          /\ \/ \E t \in Time : Unpublish(c, t)
             \/ UnpublishResult(c) = "noop" /\ UNCHANGED storeVars
          /\ Continue(e, [pc |-> "state", id |-> c])
    /\ UNCHANGED <<seen, calledOff>>

\* Seeded fault: a schedule that cannot be cancelled is answered 204 too.
HandleCancelSchedule_Always ==
    /\ \E s \in DOMAIN publish_schedules :
          /\ CancelSchedule(s) \/ (CancelScheduleResult(s) # "ok" /\ UNCHANGED storeVars)
          /\ calledOff' = calledOff \cup {s}
    /\ UNCHANGED <<req, seen>>

\* Only pending schedules; for the others the caller gets a 409.
HandleCancelSchedule ==
    /\ \E s \in DOMAIN publish_schedules :
          /\ CancelSchedule(s)
          /\ calledOff' = calledOff \cup {s}
    /\ UNCHANGED <<req, seen>>

-----------------------------------------------------------------------------
\* The transactions of the scheduler processes, at any time.
Scheduled ==
    /\ \E w \in Worker :
          \/ \E t, x \in Time, B \in SUBSET ScheduleId : ClaimDueSchedules(w, t, x, B)
          \/ \E s \in DOMAIN publish_schedules, t \in Time :
                CompleteScheduledPublish(JobOf(s), w, t)
          \/ \E s \in ScheduleId : FailSchedule(s, w)
          \/ ReleaseClaims(w)
    /\ UNCHANGED apiVars

ApiNext ==
    \/ \E e \in Editor :
          \/ HandleCreateContent(e) \/ HandleGetContent(e) \/ HandleListContents(e)
          \/ HandleUpdateContent(e) \/ HandlePublish(e) \/ HandleCreateSchedule(e)
          \/ HandleUnpublish(e)
          \/ ReadState(e) \/ ResolveWildcard(e) \/ Resolve(e)
          \/ UpdateCommit(e) \/ UpdateConflict(e) \/ Rebase(e)
          \/ PublishCommit(e) \/ ScheduleCommit(e)
          \/ Deliver(e) \/ End(e)
    \/ HandleCancelSchedule
    \/ Scheduled

ApiSpec == ApiInit /\ [][ApiNext]_allVars

-----------------------------------------------------------------------------
(* Properties. *)

ViewRow == [version           : Nat \ {0},
            draft             : Fields,
            status            : {"draft", "published", "published_with_draft"},
            published_version : (Nat \ {0}) \cup {NULL}]

ApiTypeOK ==
    /\ TypeOK
    /\ DOMAIN req = Editor
    /\ \A e \in Editor : ~Free(e) =>
          req[e].pc \in {"render", "state", "wildcard", "update", "conflict",
                         "resolve", "publish", "schedule", "scheduled"}
    /\ seen \in [Editor -> [ContentId -> ViewRow \cup {NULL}]]
    /\ calledOff \subseteq ScheduleId

\* A step that writes a new version of a document is the PUT of an editor that
\* had in its hands exactly the draft being replaced.
EditsWhatItSaw ==
    \A c \in DOMAIN contents :
        contents'[c].current_version # contents[c].current_version =>
            \E e \in Editor :
                /\ At(e, "update") /\ req[e].id = c
                /\ req[e].base.version = contents[c].current_version
                /\ req[e].base.draft = ContentView(c).draft
                /\ req'[e] # req[e]

\* No editor ever overwrites text it has not seen: not with a tag from an old
\* view or list, not by repeating a PUT whose answer got lost, and with "*" or
\* the tag of a 412 only what the handler read for it (handleUpdateContent's
\* comment): whoever commits after that read is safe.
NoBlindOverwrite == [][EditsWhatItSaw]_allVars

\* The tag names the draft: whoever holds a view tagged n of a document has the
\* draft that was written as its version n, however the view was obtained.
TagIdentifiesDraft ==
    \A e \in Editor, c \in ContentId :
        LET view == seen[e][c] IN
        view # NULL =>
            /\ c \in DOMAIN contents /\ view.version <= contents[c].current_version
            /\ view.draft = content_versions[RowOf(c, view.version)].fields

\* A 412 always has news: the version in its details, read after the failed
\* transaction, is newer than the one the editor sent, so reading again and
\* retrying can succeed.
ConflictTellsNewer ==
    \A e \in Editor : At(e, "conflict") =>
        contents[req[e].id].current_version > req[e].base.version

\* When the publish of e commits, its document shows the version whose number
\* e asked for and every other document is as it was.  The audit trail gets one
\* row more, and none if the document showed that version already.
PublishesAsAsked(e) ==
    LET c  == req[e].id
        v  == contents'[c].published_version_id
        at == contents'[c].published_at
    IN  At(e, "publish") /\ At(e, "state")' =>
            /\ OwnedBy(v, c) /\ content_versions[v].version = req[e].asked
            /\ \A d \in DOMAIN contents : d # c => contents'[d] = contents[d]
            /\ publish_events' =
                  IF contents[c].published_version_id = v
                  THEN publish_events
                  ELSE Append(publish_events,
                          [content_id |-> c, version_id |-> v, action |-> "publish",
                           source |-> "manual", schedule_id |-> NULL,
                           occurred_at |-> at])

\* When the schedule of e commits, the queue has one row more: pending, for the
\* document, the version number and the time e asked for.
SchedulesAsAsked(e) ==
    At(e, "schedule") /\ At(e, "scheduled")' =>
        \E s \in DOMAIN publish_schedules' \ DOMAIN publish_schedules :
            LET row == publish_schedules'[s] IN
            /\ publish_schedules' = Insert(publish_schedules, s, row)
            /\ row.status = "pending" /\ row.run_at = req[e].runAt
            /\ row.content_id = req[e].id /\ OwnedBy(row.version_id, req[e].id)
            /\ content_versions[row.version_id].version = req[e].asked

\* A publish and a schedule do what was asked, at the instant they commit: the
\* rowid the handler looked up before its transaction is still that of the
\* version number the editor sent, whatever others have committed since, and a
\* publish that writes nothing has nothing to do then (an earlier publish of
\* that version is not enough).  A repeated publish leaves no second audit row.
DoneAsAsked ==
    [][\A e \in Editor : PublishesAsAsked(e) /\ SchedulesAsAsked(e)]_allVars

\* A cancellation that was answered 204 holds: the schedule stays cancelled and
\* nothing is ever published on its behalf, whatever a worker does meanwhile.
CalledOffStaysOff ==
    \A s \in calledOff :
        publish_schedules[s].status = "cancelled" /\ ~EventRecorded(s)

\* The handlers use the database only in ways module Store covers.
ApiImplementsStore == StoreSpec

\* What etag.go says of the admin tag: two responses with the same tag are
\* identical.  TagIdentifiesDraft is the part of it that holds.
SameTagSameView ==
    \A d, e \in Editor, c \in ContentId :
        /\ seen[d][c] # NULL /\ seen[e][c] # NULL
        /\ seen[d][c].version = seen[e][c].version
        => seen[d][c] = seen[e][c]

=============================================================================
