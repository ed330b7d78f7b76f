------------------------------- MODULE Store -------------------------------
(***************************************************************************)
(* The SQLite database behind the content management service: the four     *)
(* tables of migrations/00001_init.sql and the write transactions of       *)
(* internal/store.                                                         *)
(*                                                                         *)
(* Every write goes through DB.Tx on a pool of one connection that begins  *)
(* with BEGIN IMMEDIATE (db.go, tx.go), so a transaction is one atomic     *)
(* step: each action below is a transaction that commits.  A transaction   *)
(* that returns an error is rolled back and leaves every table alone; it   *)
(* is a stuttering step here, and the modules that extend this one use the *)
(* ...Result operators to see which error the caller gets.                 *)
(*                                                                         *)
(* StoreSpec lets any caller run any transaction with any arguments and    *)
(* any timestamp at any moment.  Whatever holds of it holds under every    *)
(* interleaving of handlers and workers and under every clock.             *)
(*                                                                         *)
(* Left out as data no transaction reads: titles, bodies and SEO columns   *)
(* (one value of Fields stands for a payload), actors, attempts,           *)
(* last_error, created_at, and updated_at of schedules.                    *)
(***************************************************************************)
EXTENDS Integers, Sequences, FiniteSets

CONSTANTS
    ContentId,    \* uuids of contents rows
    Slug,         \* slugs that passed validateSlug
    Fields,       \* payloads of a version (store.VersionFields)
    ScheduleId,   \* uuids of publish_schedules rows
    Worker,       \* instance ids: one fresh uuid per process (cmd/server)
    Time,         \* instants, in milliseconds
    NULL,         \* SQL NULL
    BatchSize,    \* LIMIT of a claim (SCHEDULER_BATCH_SIZE)
    MaxVersions,  \* bound: rows of content_versions
    MaxEvents     \* bound: audit rows after which no manual operation starts

ASSUME StoreAssumption ==
    /\ Time \subseteq Int
    /\ NULL \notin Int /\ NULL \notin Worker /\ NULL \notin ScheduleId
    /\ BatchSize \in Nat \ {0}    \* config.validate refuses a batch below 1
    /\ MaxVersions \in Nat /\ MaxEvents \in Nat

VARIABLES
    contents,           \* contents, by id
    content_versions,   \* content_versions; the rowid is the position
    publish_schedules,  \* publish_schedules, by id
    publish_events      \* publish_events; the rowid is the position

storeVars == <<contents, content_versions, publish_schedules, publish_events>>

-----------------------------------------------------------------------------
(* Rows. *)

VersionId == 1 .. MaxVersions

ContentRow == [slug                 : Slug,
               current_version      : Nat,
               published_version_id : VersionId \cup {NULL},
               published_at         : Time \cup {NULL},
               updated_at           : Time]

VersionRow == [content_id : ContentId, version : Nat, fields : Fields]

\* The CHECK constraint also admits "failed", which no transaction writes.
ScheduleRow == [content_id      : ContentId,
                version_id      : VersionId,
                run_at          : Time,
                status          : {"pending", "claimed", "done", "cancelled"},
                locked_by       : Worker \cup {NULL},
                lock_expires_at : Time \cup {NULL}]

EventRow == [content_id  : ContentId,
             version_id  : VersionId,
             action      : {"publish", "unpublish"},
             source      : {"manual", "scheduled"},
             schedule_id : ScheduleId \cup {NULL},
             occurred_at : Time]

\* What a claim returns to the worker (store.ClaimedJob).
JobOf(s) == [ScheduleID |-> s,
             ContentID  |-> publish_schedules[s].content_id,
             VersionID  |-> publish_schedules[s].version_id]

\* The tables right after the migration has run.
StoreInit ==
    /\ contents = [c \in {} |-> NULL]
    /\ content_versions = << >>
    /\ publish_schedules = [s \in {} |-> NULL]
    /\ publish_events = << >>

-----------------------------------------------------------------------------
(* Statements shared by several transactions. *)

\* INSERT of a row whose primary key id is not yet in the table.
Insert(table, id, row) ==
    [k \in DOMAIN table \cup {id} |-> IF k = id THEN row ELSE table[k]]

\* Seeded fault: the row exists, whoever owns it.
OwnedBy_AnyOwner(v, c) == v \in DOMAIN content_versions

\* SELECT content_id FROM content_versions WHERE id = v: the row exists and
\* belongs to content c.
OwnedBy(v, c) ==
    v \in DOMAIN content_versions /\ content_versions[v].content_id = c

\* UNIQUE (content_id, version) lets version n of content c in.
VersionFree(c, n) ==
    \A v \in DOMAIN content_versions :
        ~(content_versions[v].content_id = c /\ content_versions[v].version = n)

\* The row of version n of content c (GetVersion; unique, see VersionFree).
RowOf(c, n) ==
    CHOOSE v \in DOMAIN content_versions :
        content_versions[v].content_id = c /\ content_versions[v].version = n

\* insertVersion: append an immutable row.
InsertVersion(c, n, f) ==
    /\ Len(content_versions) < MaxVersions
    /\ VersionFree(c, n)
    /\ content_versions' = Append(content_versions,
            [content_id |-> c, version |-> n, fields |-> f])

\* Seeded fault: a missing version is written as 0 instead of NULL.
SetPublished_ZeroForNull(c, v, at, now) ==
    contents' = [contents EXCEPT ![c].published_version_id = IF v = NULL THEN 0 ELSE v,
                                 ![c].published_at = at,
                                 ![c].updated_at = now]

\* UPDATE contents SET published_version_id, published_at, updated_at.
SetPublished(c, v, at, now) ==
    contents' = [contents EXCEPT ![c].published_version_id = v,
                                 ![c].published_at = at,
                                 ![c].updated_at = now]

\* ux_event_per_schedule already holds an event of schedule s.
EventRecorded(s) ==
    \E e \in DOMAIN publish_events : publish_events[e].schedule_id = s

\* Seeded fault: an upsert that keeps one audit row for a document in a row.
InsertEvent_Upsert(c, v, action, source, s, now) ==
    LET n == Len(publish_events)
        row == [content_id |-> c, version_id |-> v, action |-> action,
                source |-> source, schedule_id |-> s, occurred_at |-> now]
    IN  publish_events' =
            IF n > 0 /\ publish_events[n].content_id = c
            THEN [publish_events EXCEPT ![n] = row]
            ELSE Append(publish_events, row)

\* insertEventTx: append an audit row.
InsertEvent(c, v, action, source, s, now) ==
    publish_events' = Append(publish_events,
        [content_id |-> c, version_id |-> v, action |-> action,
         source |-> source, schedule_id |-> s, occurred_at |-> now])

Active(s) == publish_schedules[s].status \in {"pending", "claimed"}

\* WHERE status = 'claimed' AND locked_by = w.
HoldsLease(s, w) ==
    /\ s \in DOMAIN publish_schedules
    /\ publish_schedules[s].status = "claimed"
    /\ publish_schedules[s].locked_by = w

\* Seeded fault: the deadline is not cleared.
Unlock_KeepsDeadline(S, st) ==
    publish_schedules' = [s \in DOMAIN publish_schedules |->
        IF s \in S
        THEN [publish_schedules[s] EXCEPT !.status = st, !.locked_by = NULL]
        ELSE publish_schedules[s]]

\* SET status = st, locked_by = NULL, lock_expires_at = NULL on the rows of S.
Unlock(S, st) ==
    publish_schedules' = [s \in DOMAIN publish_schedules |->
        IF s \in S
        THEN [publish_schedules[s] EXCEPT !.status = st,
                                          !.locked_by = NULL,
                                          !.lock_expires_at = NULL]
        ELSE publish_schedules[s]]

-----------------------------------------------------------------------------
(* Transactions on contents (contents.go, publish.go). *)

CreateContentResult(slug) ==
    IF \E c \in DOMAIN contents : contents[c].slug = slug
    THEN "ErrSlugTaken" ELSE "ok"

\* The contents row and its first version land together.
CreateContent(id, slug, f, now) ==
    /\ id \notin DOMAIN contents
    /\ CreateContentResult(slug) = "ok"
    /\ InsertVersion(id, 1, f)
    /\ contents' = Insert(contents, id,
            [slug |-> slug, current_version |-> 1,
             published_version_id |-> NULL, published_at |-> NULL,
             updated_at |-> now])
    /\ UNCHANGED <<publish_schedules, publish_events>>

\* Seeded fault: the WHERE clause does not compare the version.
UpdateContentResult_NoCompare(c, expectedVersion) ==
    IF c \notin DOMAIN contents THEN "ErrNotFound" ELSE "ok"

\* Seeded fault: the token is compared with the number of the new version.
UpdateContentResult_OffByOne(c, expectedVersion) ==
    IF c \notin DOMAIN contents THEN "ErrNotFound"
    ELSE IF contents[c].current_version # expectedVersion + 1
         THEN "ErrVersionConflict" ELSE "ok"

\* The compare-and-swap in the WHERE clause of UpdateContent, and the SELECT
\* that tells an unknown id from a stale token.
UpdateContentResult(c, expectedVersion) ==
    IF c \notin DOMAIN contents THEN "ErrNotFound"
    ELSE IF contents[c].current_version # expectedVersion
         THEN "ErrVersionConflict" ELSE "ok"

\* The row is bumped from its own value, the new version is numbered from the
\* caller's token.
UpdateContent(c, expectedVersion, f, now) ==
    /\ UpdateContentResult(c, expectedVersion) = "ok"
    /\ InsertVersion(c, expectedVersion + 1, f)
    /\ contents' = [contents EXCEPT ![c].current_version = @ + 1,
                                    ![c].updated_at = now]
    /\ UNCHANGED <<publish_schedules, publish_events>>

PublishResult(c, v) ==
    IF c \notin DOMAIN contents \/ ~OwnedBy(v, c) THEN "ErrNotFound"
    ELSE IF contents[c].published_version_id = v THEN "noop" ELSE "ok"

\* A manual publish.  Publishing what is already public writes nothing.  The
\* ScheduleID parameter is not modelled: no caller of store.Publish sets it.
Publish(c, v, now) ==
    /\ Len(publish_events) < MaxEvents
    /\ PublishResult(c, v) = "ok"
    /\ SetPublished(c, v, now, now)
    /\ InsertEvent(c, v, "publish", "manual", NULL, now)
    /\ UNCHANGED <<content_versions, publish_schedules>>

UnpublishResult(c) ==
    IF c \notin DOMAIN contents THEN "ErrNotFound"
    ELSE IF contents[c].published_version_id = NULL THEN "noop" ELSE "ok"

\* Seeded fault: published_at is not cleared.
Unpublish_KeepsPublishedAt(c, now) ==
    /\ Len(publish_events) < MaxEvents
    /\ UnpublishResult(c) = "ok"
    /\ SetPublished(c, NULL, contents[c].published_at, now)
    /\ InsertEvent(c, contents[c].published_version_id,
                   "unpublish", "manual", NULL, now)
    /\ UNCHANGED <<content_versions, publish_schedules>>

\* The audit row names the version that was withdrawn.
Unpublish(c, now) ==
    /\ Len(publish_events) < MaxEvents
    /\ UnpublishResult(c) = "ok"
    /\ SetPublished(c, NULL, NULL, now)
    /\ InsertEvent(c, contents[c].published_version_id,
                   "unpublish", "manual", NULL, now)
    /\ UNCHANGED <<content_versions, publish_schedules>>

-----------------------------------------------------------------------------
(* Transactions on schedules (schedules.go). *)

\* Seeded fault: the partial index covers pending rows only.
CreateScheduleResult_PendingOnly(c, v) ==
    IF ~OwnedBy(v, c) THEN "ErrNotFound"
    ELSE IF \E s \in DOMAIN publish_schedules :
                /\ publish_schedules[s].status = "pending"
                /\ publish_schedules[s].content_id = c
         THEN "ErrScheduleExists" ELSE "ok"

\* ux_schedule_active_per_content turns a second active schedule into
\* ErrScheduleExists.
CreateScheduleResult(c, v) ==
    IF ~OwnedBy(v, c) THEN "ErrNotFound"
    ELSE IF \E s \in DOMAIN publish_schedules :
                Active(s) /\ publish_schedules[s].content_id = c
         THEN "ErrScheduleExists" ELSE "ok"

CreateSchedule(id, c, v, runAt) ==
    /\ id \notin DOMAIN publish_schedules
    /\ CreateScheduleResult(c, v) = "ok"
    /\ publish_schedules' = Insert(publish_schedules, id,
            [content_id |-> c, version_id |-> v, run_at |-> runAt,
             status |-> "pending", locked_by |-> NULL,
             lock_expires_at |-> NULL])
    /\ UNCHANGED <<contents, content_versions, publish_events>>

CancelScheduleResult(s) ==
    IF s \notin DOMAIN publish_schedules THEN "ErrNotFound"
    ELSE IF publish_schedules[s].status # "pending"
         THEN "ErrNotCancellable" ELSE "ok"

CancelSchedule(s) ==
    /\ CancelScheduleResult(s) = "ok"
    /\ Unlock({s}, "cancelled")
    /\ UNCHANGED <<contents, content_versions, publish_events>>

\* Seeded faults: a claim that does not look at run_at, one that does not look
\* at the deadline, and one that never takes back an expired lease.
Claimable_AnyTime(now) ==
    {s \in DOMAIN publish_schedules : publish_schedules[s].status = "pending"}

Claimable_NoDeadline(now) ==
    {s \in DOMAIN publish_schedules : Active(s) /\ publish_schedules[s].run_at <= now}

Claimable_NoReclaim(now) ==
    {s \in DOMAIN publish_schedules :
        publish_schedules[s].status = "pending" /\ publish_schedules[s].run_at <= now}

\* The WHERE clause of the claim: pending and due, or claimed under a lease
\* that has run out.  A NULL deadline never compares as expired.
Claimable(now) ==
    {s \in DOMAIN publish_schedules :
        LET r == publish_schedules[s]
        IN  \/ r.status = "pending" /\ r.run_at <= now
            \/ /\ r.status = "claimed"
               /\ r.lock_expires_at # NULL
               /\ r.lock_expires_at <= now}

\* ORDER BY run_at LIMIT BatchSize; SQLite may break ties either way.
IsBatch(B, now) ==
    /\ B \subseteq Claimable(now)
    /\ \/ B = Claimable(now) /\ Cardinality(B) <= BatchSize
       \/ Cardinality(B) = BatchSize
    /\ \A s \in B, d \in Claimable(now) \ B :
            publish_schedules[s].run_at <= publish_schedules[d].run_at

ClaimDueSchedules(w, now, leaseExpiry, B) ==
    /\ IsBatch(B, now)
    /\ publish_schedules' = [s \in DOMAIN publish_schedules |->
            IF s \in B
            THEN [publish_schedules[s] EXCEPT !.status = "claimed",
                                              !.locked_by = w,
                                              !.lock_expires_at = leaseExpiry]
            ELSE publish_schedules[s]]
    /\ UNCHANGED <<contents, content_versions, publish_events>>

\* Seeded fault: completion does not require the lease.
CompleteResult_NoLease(job, w) ==
    IF EventRecorded(job.ScheduleID) THEN "error" ELSE "ok"

\* The event insert comes before the lease check, so a job that is already
\* done fails on ux_event_per_schedule and never reports a lost lease.
CompleteResult(job, w) ==
    IF EventRecorded(job.ScheduleID) THEN "error"
    ELSE IF ~HoldsLease(job.ScheduleID, w) THEN "errLeaseLost" ELSE "ok"

\* Seeded fault: the audit event does not carry the schedule's id.
Complete_Anonymous(job, w, now) ==
    /\ CompleteResult(job, w) = "ok"
    /\ SetPublished(job.ContentID, job.VersionID, now, now)
    /\ InsertEvent(job.ContentID, job.VersionID, "publish", "scheduled", NULL, now)
    /\ Unlock({job.ScheduleID}, "done")
    /\ UNCHANGED content_versions

\* Pointer, audit event and job status commit together.
CompleteScheduledPublish(job, w, now) ==
    /\ CompleteResult(job, w) = "ok"
    /\ SetPublished(job.ContentID, job.VersionID, now, now)
    /\ InsertEvent(job.ContentID, job.VersionID,
                   "publish", "scheduled", job.ScheduleID, now)
    /\ Unlock({job.ScheduleID}, "done")
    /\ UNCHANGED content_versions

\* Give the job back for a retry, if the lease is still ours.
FailSchedule(s, w) ==
    /\ HoldsLease(s, w)
    /\ Unlock({s}, "pending")
    /\ UNCHANGED <<contents, content_versions, publish_events>>

\* Give back everything w holds (graceful shutdown).
ReleaseClaims(w) ==
    /\ Unlock({s \in DOMAIN publish_schedules : HoldsLease(s, w)}, "pending")
    /\ UNCHANGED <<contents, content_versions, publish_events>>

-----------------------------------------------------------------------------
StoreNext ==
    \/ \E id \in ContentId, slug \in Slug, f \in Fields, t \in Time :
            CreateContent(id, slug, f, t)
    \/ \E c \in ContentId, n \in VersionId, f \in Fields, t \in Time :
            UpdateContent(c, n, f, t)
    \/ \E c \in ContentId, v \in VersionId, t \in Time : Publish(c, v, t)
    \/ \E c \in ContentId, t \in Time : Unpublish(c, t)
    \/ \E s \in ScheduleId, c \in ContentId, v \in VersionId, t \in Time :
            CreateSchedule(s, c, v, t)
    \/ \E s \in ScheduleId : CancelSchedule(s)
    \/ \E w \in Worker, t, e \in Time, B \in SUBSET ScheduleId :
            ClaimDueSchedules(w, t, e, B)
    \/ \E s \in DOMAIN publish_schedules, w \in Worker, t \in Time :
            CompleteScheduledPublish(JobOf(s), w, t)
    \/ \E s \in ScheduleId, w \in Worker : FailSchedule(s, w)
    \/ \E w \in Worker : ReleaseClaims(w)

StoreSpec == StoreInit /\ [][StoreNext]_storeVars

-----------------------------------------------------------------------------
(* Properties. *)

TypeOK ==
    /\ DOMAIN contents \subseteq ContentId
    /\ contents \in [DOMAIN contents -> ContentRow]
    /\ content_versions \in Seq(VersionRow)
    /\ Len(content_versions) <= MaxVersions
    /\ DOMAIN publish_schedules \subseteq ScheduleId
    /\ publish_schedules \in [DOMAIN publish_schedules -> ScheduleRow]
    /\ publish_events \in Seq(EventRow)

\* No lost update: the versions of a document are numbered 1, 2, ... up to
\* current_version in the order they were written, none missing and none
\* twice, so an accepted PUT never takes the number of another one and the
\* draft view (JOIN ... ON v.version = c.current_version) finds its row.
VersionHistory ==
    /\ \A v \in DOMAIN content_versions :
          LET r == content_versions[v]
          IN  /\ r.content_id \in DOMAIN contents
              /\ r.version \in 1 .. contents[r.content_id].current_version
    /\ \A c \in DOMAIN contents :
          \A n \in 1 .. contents[c].current_version :
             \E v \in DOMAIN content_versions :
                /\ content_versions[v].content_id = c
                /\ content_versions[v].version = n
    /\ \A v, u \in DOMAIN content_versions :
          /\ v < u
          /\ content_versions[v].content_id = content_versions[u].content_id
          => content_versions[v].version < content_versions[u].version

\* Whatever the public pointer, a schedule or an audit row points at is an
\* existing version of the same document: no document ever serves another
\* one's text, and resolving a rowid to a version number
\* (publishedVersionNumber, toScheduleDTO) cannot fail.
PointersOwned ==
    /\ \A c \in DOMAIN contents :
          contents[c].published_version_id # NULL =>
              OwnedBy(contents[c].published_version_id, c)
    /\ \A s \in DOMAIN publish_schedules :
          /\ OwnedBy(publish_schedules[s].version_id,
                     publish_schedules[s].content_id)
          /\ publish_schedules[s].content_id \in DOMAIN contents
    /\ \A e \in DOMAIN publish_events :
          /\ OwnedBy(publish_events[e].version_id, publish_events[e].content_id)
          /\ publish_events[e].content_id \in DOMAIN contents

\* A document has at most one schedule that can still fire, through every
\* retry, steal and release (ux_schedule_active_per_content would turn a
\* second one into an error in the middle of a worker's UPDATE).
OneActiveSchedule ==
    \A s, u \in DOMAIN publish_schedules :
        /\ Active(s) /\ Active(u)
        /\ publish_schedules[s].content_id = publish_schedules[u].content_id
        => s = u

\* Exactly-once: a schedule is done exactly when the audit trail has an event
\* of it, that event is the only one, and it published the version that was
\* scheduled.  In particular a cancelled schedule never published.
ExactlyOnce ==
    /\ \A s \in DOMAIN publish_schedules :
          publish_schedules[s].status = "done" <=> EventRecorded(s)
    /\ \A e \in DOMAIN publish_events :
          LET ev == publish_events[e] IN
          ev.schedule_id # NULL =>
             /\ ev.schedule_id \in DOMAIN publish_schedules
             /\ ev.action = "publish" /\ ev.source = "scheduled"
             /\ ev.content_id = publish_schedules[ev.schedule_id].content_id
             /\ ev.version_id = publish_schedules[ev.schedule_id].version_id
    /\ \A e, g \in DOMAIN publish_events :
          /\ publish_events[e].schedule_id = publish_events[g].schedule_id
          /\ publish_events[e].schedule_id # NULL
          => e = g

\* Event e is the last one of content c.
LastEventOf(e, c) ==
    /\ e \in DOMAIN publish_events /\ publish_events[e].content_id = c
    /\ \A g \in DOMAIN publish_events :
          publish_events[g].content_id = c => g <= e

\* The audit trail explains what the public sees: a document is public exactly
\* when its last event is a publish, with that event's version and time; a
\* document without events was never public.  No path moves the pointer
\* silently and none records a move it did not make.
AuditExplainsPointer ==
    \A c \in DOMAIN contents :
        LET row == contents[c] IN
        /\ (\A e \in DOMAIN publish_events : publish_events[e].content_id # c)
           => row.published_version_id = NULL /\ row.published_at = NULL
        /\ \A e \in DOMAIN publish_events : LastEventOf(e, c) =>
             IF publish_events[e].action = "publish"
             THEN /\ row.published_version_id = publish_events[e].version_id
                  /\ row.published_at = publish_events[e].occurred_at
             ELSE row.published_version_id = NULL /\ row.published_at = NULL

\* A claimed row always carries an owner and a deadline, and no other row
\* does.  A claimed row with a NULL deadline would match neither branch of
\* the claim query and would block its document for ever.
ClaimHasLease ==
    \A s \in DOMAIN publish_schedules :
        LET r == publish_schedules[s] IN
        IF r.status = "claimed" THEN r.locked_by # NULL /\ r.lock_expires_at # NULL
                                ELSE r.locked_by = NULL /\ r.lock_expires_at = NULL

\* A step rewrites and removes no version and no audit row, moves no document
\* to another slug and never lowers a version counter.
HistoryKept ==
    /\ Len(content_versions) <= Len(content_versions')
    /\ \A v \in DOMAIN content_versions :
          content_versions'[v] = content_versions[v]
    /\ Len(publish_events) <= Len(publish_events')
    /\ \A e \in DOMAIN publish_events : publish_events'[e] = publish_events[e]
    /\ \A c \in DOMAIN contents :
          /\ c \in DOMAIN contents'
          /\ contents'[c].slug = contents[c].slug
          /\ contents'[c].current_version >= contents[c].current_version

\* History is append-only: an accepted edit or an audit row is there for ever,
\* whatever other handlers and workers commit afterwards.
AppendOnly == [][HistoryKept]_storeVars

\* A step leaves a done or cancelled schedule alone, and lets every schedule
\* keep the document, the version and the time it was created with.
SettledKept ==
    \A s \in DOMAIN publish_schedules :
        /\ s \in DOMAIN publish_schedules'
        /\ ~Active(s) => publish_schedules'[s] = publish_schedules[s]
        /\ publish_schedules'[s].content_id = publish_schedules[s].content_id
        /\ publish_schedules'[s].version_id = publish_schedules[s].version_id
        /\ publish_schedules'[s].run_at = publish_schedules[s].run_at

\* done and cancelled are final: no late worker, retry, release or steal ever
\* revives a settled schedule or redirects a pending one.
SettledForever == [][SettledKept]_storeVars

=============================================================================
