---------------------------- MODULE StoreProofs ----------------------------
(***************************************************************************)
(* Proofs about the database of module Store, for every set of documents,  *)
(* workers and schedules, every clock and every batch size.                *)
(*                                                                         *)
(* Inv, the conjunction of the state properties the runs check, is         *)
(* inductive; every invariance theorem follows from it.  The proofs are    *)
(* laid out by action: first what each shared statement does to its table, *)
(* then one lemma per transaction, then the theorems.                      *)
(***************************************************************************)
EXTENDS Store, WellFoundedInduction, TLAPS

Inv ==
    /\ TypeOK
    /\ VersionHistory
    /\ PointersOwned
    /\ OneActiveSchedule
    /\ ExactlyOnce
    /\ AuditExplainsPointer
    /\ ClaimHasLease

-----------------------------------------------------------------------------
(* What the shared statements do. *)

\* insertVersion adds one row at the end of content_versions and leaves every
\* other row where it was.
LEMMA InsertVersionFacts ==
    ASSUME TypeOK, NEW c \in ContentId, NEW n \in Nat, NEW f \in Fields,
           InsertVersion(c, n, f)
    PROVE  /\ content_versions' \in Seq(VersionRow)
           /\ Len(content_versions') = Len(content_versions) + 1
           /\ Len(content_versions') <= MaxVersions
           /\ DOMAIN content_versions = 1 .. Len(content_versions)
           /\ DOMAIN content_versions' = 1 .. (Len(content_versions) + 1)
           /\ \A v \in DOMAIN content_versions :
                 /\ v \in DOMAIN content_versions'
                 /\ content_versions'[v] = content_versions[v]
           /\ content_versions'[Len(content_versions) + 1] =
                 [content_id |-> c, version |-> n, fields |-> f]
<1> DEFINE row == [content_id |-> c, version |-> n, fields |-> f]
<1>1. row \in VersionRow
  BY DEF VersionRow
<1>2. content_versions \in Seq(VersionRow) /\ Len(content_versions) \in Nat
  BY DEF TypeOK
<1>3. content_versions' = Append(content_versions, row)
  BY DEF InsertVersion
<1>4. Len(content_versions) < MaxVersions
  BY DEF InsertVersion
<1> QED
  BY <1>1, <1>2, <1>3, <1>4, StoreAssumption

\* insertEventTx adds one row at the end of publish_events and leaves every
\* other row where it was.
LEMMA InsertEventFacts ==
    ASSUME TypeOK, NEW c \in ContentId, NEW v \in VersionId,
           NEW action \in {"publish", "unpublish"},
           NEW source \in {"manual", "scheduled"},
           NEW s \in ScheduleId \cup {NULL}, NEW now \in Time,
           InsertEvent(c, v, action, source, s, now)
    PROVE  /\ publish_events' \in Seq(EventRow)
           /\ Len(publish_events) \in Nat
           /\ Len(publish_events') = Len(publish_events) + 1
           /\ DOMAIN publish_events = 1 .. Len(publish_events)
           /\ DOMAIN publish_events' = 1 .. (Len(publish_events) + 1)
           /\ \A e \in DOMAIN publish_events :
                 /\ e \in DOMAIN publish_events'
                 /\ publish_events'[e] = publish_events[e]
           /\ publish_events'[Len(publish_events) + 1] =
                 [content_id |-> c, version_id |-> v, action |-> action,
                  source |-> source, schedule_id |-> s, occurred_at |-> now]
<1> DEFINE row == [content_id |-> c, version_id |-> v, action |-> action,
                   source |-> source, schedule_id |-> s, occurred_at |-> now]
<1>1. row \in EventRow
  BY DEF EventRow
<1>2. publish_events \in Seq(EventRow) /\ Len(publish_events) \in Nat
  BY DEF TypeOK
<1>3. publish_events' = Append(publish_events, row)
  BY DEF InsertEvent
<1> QED
  BY <1>1, <1>2, <1>3

\* Moving the public pointer of c changes three columns of its row and no
\* other row.
LEMMA SetPublishedFacts ==
    ASSUME TypeOK, NEW c \in DOMAIN contents,
           NEW v \in VersionId \cup {NULL}, NEW at \in Time \cup {NULL},
           NEW now \in Time, SetPublished(c, v, at, now)
    PROVE  /\ DOMAIN contents' = DOMAIN contents
           /\ contents' \in [DOMAIN contents -> ContentRow]
           /\ \A d \in DOMAIN contents :
                 /\ contents'[d].slug = contents[d].slug
                 /\ contents'[d].current_version = contents[d].current_version
           /\ \A d \in DOMAIN contents \ {c} : contents'[d] = contents[d]
           /\ contents'[c].published_version_id = v
           /\ contents'[c].published_at = at
<1>1. contents \in [DOMAIN contents -> ContentRow]
  BY DEF TypeOK
<1>2. contents' = [contents EXCEPT ![c] =
        [contents[c] EXCEPT !.published_version_id = v, !.published_at = at,
                            !.updated_at = now]]
  BY <1>1 DEF SetPublished, ContentRow
<1> QED
  BY <1>1, <1>2 DEF ContentRow

\* Unlock sets the status of the rows in S, clears their lease, and changes
\* nothing else of the table.
LEMMA UnlockFacts ==
    ASSUME TypeOK, NEW S,
           NEW st \in {"pending", "claimed", "done", "cancelled"}, Unlock(S, st)
    PROVE  /\ DOMAIN publish_schedules' = DOMAIN publish_schedules
           /\ publish_schedules' \in [DOMAIN publish_schedules -> ScheduleRow]
           /\ \A s \in DOMAIN publish_schedules :
                 /\ publish_schedules'[s].content_id = publish_schedules[s].content_id
                 /\ publish_schedules'[s].version_id = publish_schedules[s].version_id
                 /\ publish_schedules'[s].run_at = publish_schedules[s].run_at
                 /\ s \notin S => publish_schedules'[s] = publish_schedules[s]
                 /\ s \in S => /\ publish_schedules'[s].status = st
                               /\ publish_schedules'[s].locked_by = NULL
                               /\ publish_schedules'[s].lock_expires_at = NULL
<1>1. publish_schedules \in [DOMAIN publish_schedules -> ScheduleRow]
  BY DEF TypeOK
<1> QED
  BY <1>1 DEF Unlock, ScheduleRow

\* A claim leases the rows of the batch, which were active, and changes
\* nothing else of the table.
LEMMA ClaimFacts ==
    ASSUME TypeOK, NEW w \in Worker, NEW now \in Time, NEW exp \in Time, NEW B,
           ClaimDueSchedules(w, now, exp, B)
    PROVE  /\ DOMAIN publish_schedules' = DOMAIN publish_schedules
           /\ publish_schedules' \in [DOMAIN publish_schedules -> ScheduleRow]
           /\ \A s \in DOMAIN publish_schedules :
                 /\ publish_schedules'[s].content_id = publish_schedules[s].content_id
                 /\ publish_schedules'[s].version_id = publish_schedules[s].version_id
                 /\ publish_schedules'[s].run_at = publish_schedules[s].run_at
                 /\ s \notin B => publish_schedules'[s] = publish_schedules[s]
                 /\ s \in B => /\ Active(s)
                               /\ publish_schedules'[s].status = "claimed"
                               /\ publish_schedules'[s].locked_by = w
                               /\ publish_schedules'[s].lock_expires_at = exp
<1>1. publish_schedules \in [DOMAIN publish_schedules -> ScheduleRow]
  BY DEF TypeOK
<1>2. \A s \in B : Active(s)
  BY DEF ClaimDueSchedules, IsBatch, Claimable, Active
<1> QED
  BY <1>1, <1>2 DEF ClaimDueSchedules, ScheduleRow

-----------------------------------------------------------------------------
(* Transactions on contents. *)

\* POST /contents: the new document brings its first version and nothing
\* refers to it yet.
LEMMA CreateContentInv ==
    ASSUME Inv, NEW id \in ContentId, NEW slug \in Slug, NEW f \in Fields,
           NEW now \in Time, CreateContent(id, slug, f, now)
    PROVE  Inv'
<1> DEFINE row == [slug |-> slug, current_version |-> 1,
                   published_version_id |-> NULL, published_at |-> NULL,
                   updated_at |-> now]
<1>0. InsertVersion(id, 1, f) /\ id \notin DOMAIN contents
      /\ UNCHANGED <<publish_schedules, publish_events>>
  BY DEF CreateContent
<1>1. TypeOK
  BY DEF Inv
<1>2. /\ content_versions' \in Seq(VersionRow)
      /\ Len(content_versions') = Len(content_versions) + 1
      /\ Len(content_versions') <= MaxVersions
      /\ DOMAIN content_versions = 1 .. Len(content_versions)
      /\ DOMAIN content_versions' = 1 .. (Len(content_versions) + 1)
      /\ \A v \in DOMAIN content_versions :
            /\ v \in DOMAIN content_versions'
            /\ content_versions'[v] = content_versions[v]
      /\ content_versions'[Len(content_versions) + 1] =
            [content_id |-> id, version |-> 1, fields |-> f]
  BY <1>0, <1>1, InsertVersionFacts
<1>3. row \in ContentRow
  BY DEF ContentRow
<1>4. /\ DOMAIN contents' = DOMAIN contents \cup {id}
      /\ contents' \in [DOMAIN contents' -> ContentRow]
      /\ contents'[id] = row
      /\ \A c \in DOMAIN contents : contents'[c] = contents[c]
  BY <1>0, <1>1, <1>3 DEF CreateContent, Insert, TypeOK
<1>5. TypeOK'
  BY <1>0, <1>1, <1>2, <1>4 DEF TypeOK
<1>6. VersionHistory'
  <2>1. \A v \in DOMAIN content_versions :
           content_versions[v].content_id \in DOMAIN contents
    BY DEF Inv, VersionHistory
  <2>2. \A v \in DOMAIN content_versions' :
           \/ v \in DOMAIN content_versions
           \/ v = Len(content_versions) + 1
    BY <1>2
  <2>3. Len(content_versions) \in Nat
    BY <1>1 DEF TypeOK
  <2>4. \A v \in DOMAIN content_versions' :
          LET r == content_versions'[v]
          IN  /\ r.content_id \in DOMAIN contents'
              /\ r.version \in 1 .. contents'[r.content_id].current_version
    BY <2>1, <2>2, <1>0, <1>2, <1>4 DEF Inv, VersionHistory
  <2>5. \A c \in DOMAIN contents' :
          \A n \in 1 .. contents'[c].current_version :
             \E v \in DOMAIN content_versions' :
                /\ content_versions'[v].content_id = c
                /\ content_versions'[v].version = n
    <3> SUFFICES ASSUME NEW c \in DOMAIN contents',
                        NEW n \in 1 .. contents'[c].current_version
                 PROVE  \E v \in DOMAIN content_versions' :
                           /\ content_versions'[v].content_id = c
                           /\ content_versions'[v].version = n
      OBVIOUS
    <3>1. CASE c = id
      <4>1. n = 1
        BY <3>1, <1>4
      <4> QED
        BY <3>1, <4>1, <1>2, <2>3
    <3>2. CASE c \in DOMAIN contents
      <4>1. PICK v \in DOMAIN content_versions :
                /\ content_versions[v].content_id = c
                /\ content_versions[v].version = n
        BY <3>2, <1>4 DEF Inv, VersionHistory
      <4> QED
        BY <4>1, <1>2
    <3> QED
      BY <3>1, <3>2, <1>4
  <2>6. \A v, u \in DOMAIN content_versions' :
          /\ v < u
          /\ content_versions'[v].content_id = content_versions'[u].content_id
          => content_versions'[v].version < content_versions'[u].version
    <3> SUFFICES ASSUME NEW v \in DOMAIN content_versions',
                        NEW u \in DOMAIN content_versions', v < u,
                        content_versions'[v].content_id = content_versions'[u].content_id
                 PROVE  content_versions'[v].version < content_versions'[u].version
      OBVIOUS
    <3>1. v \in DOMAIN content_versions
      BY <1>2, <2>3
    <3>2. u \in DOMAIN content_versions
      BY <3>1, <2>1, <2>2, <1>0, <1>2
    <3> QED
      BY <3>1, <3>2, <1>2 DEF Inv, VersionHistory
  <2> QED
    BY <2>4, <2>5, <2>6 DEF VersionHistory
<1>7. PointersOwned'
  BY <1>0, <1>2, <1>4 DEF Inv, PointersOwned, OwnedBy
<1>8. OneActiveSchedule' /\ ExactlyOnce' /\ ClaimHasLease'
  BY <1>0 DEF Inv, OneActiveSchedule, ExactlyOnce, ClaimHasLease, Active,
              EventRecorded
<1>9. AuditExplainsPointer'
  BY <1>0, <1>4 DEF Inv, AuditExplainsPointer, PointersOwned, LastEventOf
<1> QED
  BY <1>5, <1>6, <1>7, <1>8, <1>9 DEF Inv

\* PUT /contents/{id}: the token equals current_version, so the new row takes
\* the next number of its document.
LEMMA UpdateContentInv ==
    ASSUME Inv, NEW c \in ContentId, NEW k \in VersionId, NEW f \in Fields,
           NEW now \in Time, UpdateContent(c, k, f, now)
    PROVE  Inv'
<1>0. /\ InsertVersion(c, k + 1, f)
      /\ c \in DOMAIN contents /\ contents[c].current_version = k
      /\ UNCHANGED <<publish_schedules, publish_events>>
  BY DEF UpdateContent, UpdateContentResult
<1>1. TypeOK /\ k \in Nat
  BY StoreAssumption DEF Inv, VersionId
<1>2. /\ content_versions' \in Seq(VersionRow)
      /\ Len(content_versions') = Len(content_versions) + 1
      /\ Len(content_versions') <= MaxVersions
      /\ DOMAIN content_versions = 1 .. Len(content_versions)
      /\ DOMAIN content_versions' = 1 .. (Len(content_versions) + 1)
      /\ \A v \in DOMAIN content_versions :
            /\ v \in DOMAIN content_versions'
            /\ content_versions'[v] = content_versions[v]
      /\ content_versions'[Len(content_versions) + 1] =
            [content_id |-> c, version |-> k + 1, fields |-> f]
  BY <1>0, <1>1, InsertVersionFacts
<1>3. contents \in [DOMAIN contents -> ContentRow]
  BY <1>1 DEF TypeOK
<1>4. /\ DOMAIN contents' = DOMAIN contents
      /\ contents' \in [DOMAIN contents' -> ContentRow]
      /\ contents'[c].current_version = k + 1
      /\ contents'[c].published_version_id = contents[c].published_version_id
      /\ contents'[c].published_at = contents[c].published_at
      /\ \A d \in DOMAIN contents \ {c} : contents'[d] = contents[d]
  <2>1. contents' = [contents EXCEPT ![c] =
            [contents[c] EXCEPT !.current_version = contents[c].current_version + 1,
                                !.updated_at = now]]
    BY <1>0, <1>3 DEF UpdateContent, ContentRow
  <2>2. /\ contents[c] \in ContentRow
        /\ contents[c].current_version + 1 \in Nat
    BY <1>0, <1>1, <1>3
  <2>3. [contents[c] EXCEPT !.current_version = contents[c].current_version + 1,
                            !.updated_at = now] \in ContentRow
    BY <2>2 DEF ContentRow
  <2>4. contents' \in [DOMAIN contents -> ContentRow]
    BY <2>1, <2>3, <1>0, <1>3
  <2>5. /\ DOMAIN contents' = DOMAIN contents
        /\ \A d \in DOMAIN contents \ {c} : contents'[d] = contents[d]
    BY <2>1, <1>3
  <2>6. contents'[c] =
            [contents[c] EXCEPT !.current_version = contents[c].current_version + 1,
                                !.updated_at = now]
    BY <2>1, <1>0, <1>3
  <2> QED
    BY <2>2, <2>4, <2>5, <2>6, <1>0 DEF ContentRow
<1>5. TypeOK'
  BY <1>0, <1>1, <1>2, <1>4 DEF TypeOK
<1>6. VersionHistory'
  <2>1. \A d \in DOMAIN contents : contents[d].current_version \in Nat
    BY <1>3 DEF ContentRow
  <2>2. \A v \in DOMAIN content_versions' :
           \/ v \in DOMAIN content_versions
           \/ v = Len(content_versions) + 1
    BY <1>2
  <2>3. Len(content_versions) \in Nat
    BY <1>1 DEF TypeOK
  <2>4. \A v \in DOMAIN content_versions' :
          LET r == content_versions'[v]
          IN  /\ r.content_id \in DOMAIN contents'
              /\ r.version \in 1 .. contents'[r.content_id].current_version
    <3> SUFFICES ASSUME NEW v \in DOMAIN content_versions'
                 PROVE  LET r == content_versions'[v]
                        IN  /\ r.content_id \in DOMAIN contents'
                            /\ r.version \in 1 .. contents'[r.content_id].current_version
      OBVIOUS
    <3>1. CASE v = Len(content_versions) + 1
      BY <3>1, <1>0, <1>1, <1>2, <1>4
    <3>2. CASE v \in DOMAIN content_versions
      <4>1. /\ content_versions'[v] = content_versions[v]
            /\ content_versions[v].content_id \in DOMAIN contents
            /\ content_versions[v].version
                  \in 1 .. contents[content_versions[v].content_id].current_version
        BY <3>2, <1>2 DEF Inv, VersionHistory
      <4>2. CASE content_versions[v].content_id = c
        BY <4>1, <4>2, <1>0, <1>1, <1>4
      <4>3. CASE content_versions[v].content_id # c
        BY <4>1, <4>3, <1>4
      <4> QED
        BY <4>2, <4>3
    <3> QED
      BY <3>1, <3>2, <2>2
  <2>5. \A d \in DOMAIN contents' :
          \A n \in 1 .. contents'[d].current_version :
             \E v \in DOMAIN content_versions' :
                /\ content_versions'[v].content_id = d
                /\ content_versions'[v].version = n
    <3> SUFFICES ASSUME NEW d \in DOMAIN contents',
                        NEW n \in 1 .. contents'[d].current_version
                 PROVE  \E v \in DOMAIN content_versions' :
                           /\ content_versions'[v].content_id = d
                           /\ content_versions'[v].version = n
      OBVIOUS
    <3>1. CASE d = c /\ n = k + 1
      BY <3>1, <1>2, <2>3
    <3>2. CASE ~(d = c /\ n = k + 1)
      <4>1. n \in 1 .. contents[d].current_version
        BY <3>2, <1>0, <1>1, <1>4, <2>1
      <4>2. PICK v \in DOMAIN content_versions :
                /\ content_versions[v].content_id = d
                /\ content_versions[v].version = n
        BY <4>1, <1>4 DEF Inv, VersionHistory
      <4> QED
        BY <4>2, <1>2
    <3> QED
      BY <3>1, <3>2
  <2>6. \A v, u \in DOMAIN content_versions' :
          /\ v < u
          /\ content_versions'[v].content_id = content_versions'[u].content_id
          => content_versions'[v].version < content_versions'[u].version
    <3> SUFFICES ASSUME NEW v \in DOMAIN content_versions',
                        NEW u \in DOMAIN content_versions', v < u,
                        content_versions'[v].content_id = content_versions'[u].content_id
                 PROVE  content_versions'[v].version < content_versions'[u].version
      OBVIOUS
    <3>1. v \in DOMAIN content_versions
      BY <1>2, <2>3
    <3>2. CASE u \in DOMAIN content_versions
      BY <3>1, <3>2, <1>2 DEF Inv, VersionHistory
    <3>3. CASE u = Len(content_versions) + 1
      <4>1. content_versions[v].content_id = c
        BY <3>1, <3>3, <1>2
      <4>2. content_versions[v].version \in 1 .. k
        BY <3>1, <4>1, <1>0 DEF Inv, VersionHistory
      <4> QED
        BY <4>2, <3>1, <3>3, <1>1, <1>2
    <3> QED
      BY <3>2, <3>3, <2>2
  <2> QED
    BY <2>4, <2>5, <2>6 DEF VersionHistory
<1>7. PointersOwned'
  BY <1>0, <1>2, <1>4 DEF Inv, PointersOwned, OwnedBy
<1>8. OneActiveSchedule' /\ ExactlyOnce' /\ ClaimHasLease'
  BY <1>0 DEF Inv, OneActiveSchedule, ExactlyOnce, ClaimHasLease, Active,
              EventRecorded
<1>9. AuditExplainsPointer'
  BY <1>0, <1>4 DEF Inv, AuditExplainsPointer, LastEventOf
<1> QED
  BY <1>5, <1>6, <1>7, <1>8, <1>9 DEF Inv

\* Every transaction that moves the public pointer of c writes one audit event
\* about it in the same step: the pointer stays on a version of c and the
\* trail keeps explaining it.
LEMMA MovePointer ==
    ASSUME TypeOK, VersionHistory, PointersOwned, AuditExplainsPointer,
           NEW c \in DOMAIN contents, NEW v \in VersionId, OwnedBy(v, c),
           NEW action \in {"publish", "unpublish"},
           NEW source \in {"manual", "scheduled"},
           NEW s \in ScheduleId \cup {NULL}, NEW now \in Time,
           IF action = "publish" THEN SetPublished(c, v, now, now)
                                 ELSE SetPublished(c, NULL, NULL, now),
           InsertEvent(c, v, action, source, s, now),
           UNCHANGED content_versions,
           DOMAIN publish_schedules' = DOMAIN publish_schedules,
           publish_schedules' \in [DOMAIN publish_schedules -> ScheduleRow],
           \A u \in DOMAIN publish_schedules :
              /\ publish_schedules'[u].content_id = publish_schedules[u].content_id
              /\ publish_schedules'[u].version_id = publish_schedules[u].version_id
    PROVE  TypeOK' /\ VersionHistory' /\ PointersOwned' /\ AuditExplainsPointer'
<1> DEFINE ptr == IF action = "publish" THEN v ELSE NULL
           at == IF action = "publish" THEN now ELSE NULL
           last == Len(publish_events) + 1
<1>1. c \in ContentId
  BY DEF TypeOK
<1>2. SetPublished(c, ptr, at, now) /\ ptr \in VersionId \cup {NULL}
      /\ at \in Time \cup {NULL}
  OBVIOUS
<1>3. /\ DOMAIN contents' = DOMAIN contents
      /\ contents' \in [DOMAIN contents -> ContentRow]
      /\ \A d \in DOMAIN contents :
            contents'[d].current_version = contents[d].current_version
      /\ \A d \in DOMAIN contents \ {c} : contents'[d] = contents[d]
      /\ contents'[c].published_version_id = ptr
      /\ contents'[c].published_at = at
  BY <1>2, SetPublishedFacts
<1>4. /\ publish_events' \in Seq(EventRow)
      /\ Len(publish_events) \in Nat
      /\ DOMAIN publish_events = 1 .. Len(publish_events)
      /\ DOMAIN publish_events' = 1 .. last
      /\ \A e \in DOMAIN publish_events :
            /\ e \in DOMAIN publish_events'
            /\ publish_events'[e] = publish_events[e]
      /\ publish_events'[last] =
            [content_id |-> c, version_id |-> v, action |-> action,
             source |-> source, schedule_id |-> s, occurred_at |-> now]
  BY <1>1, InsertEventFacts
<1> HIDE DEF ptr, at
<1>5. TypeOK'
  BY <1>3, <1>4 DEF TypeOK
<1>6. VersionHistory'
  BY <1>3 DEF VersionHistory
<1>7. PointersOwned'
  <2>1. \A d \in DOMAIN contents' :
          contents'[d].published_version_id # NULL =>
              OwnedBy(contents'[d].published_version_id, d)
    BY <1>3 DEF PointersOwned, OwnedBy, ptr
  <2>2. \A u \in DOMAIN publish_schedules' :
          /\ OwnedBy(publish_schedules'[u].version_id,
                     publish_schedules'[u].content_id)
          /\ publish_schedules'[u].content_id \in DOMAIN contents'
    BY <1>3 DEF PointersOwned, OwnedBy
  <2>3. \A e \in DOMAIN publish_events' :
          /\ OwnedBy(publish_events'[e].version_id, publish_events'[e].content_id)
          /\ publish_events'[e].content_id \in DOMAIN contents'
    <3> SUFFICES ASSUME NEW e \in DOMAIN publish_events'
                 PROVE  /\ OwnedBy(publish_events'[e].version_id,
                                   publish_events'[e].content_id)
                        /\ publish_events'[e].content_id \in DOMAIN contents'
      OBVIOUS
    <3>1. CASE e = last
      BY <3>1, <1>3, <1>4 DEF OwnedBy
    <3>2. CASE e \in DOMAIN publish_events
      BY <3>2, <1>3, <1>4 DEF PointersOwned, OwnedBy
    <3> QED
      BY <3>1, <3>2, <1>4
  <2> QED
    BY <2>1, <2>2, <2>3 DEF PointersOwned, OwnedBy
<1>8. AuditExplainsPointer'
  <2> SUFFICES ASSUME NEW d \in DOMAIN contents'
               PROVE
        /\ (\A e \in DOMAIN publish_events' : publish_events'[e].content_id # d)
           => /\ contents'[d].published_version_id = NULL
              /\ contents'[d].published_at = NULL
        /\ \A e \in DOMAIN publish_events' : LastEventOf(e, d)' =>
             IF publish_events'[e].action = "publish"
             THEN /\ contents'[d].published_version_id = publish_events'[e].version_id
                  /\ contents'[d].published_at = publish_events'[e].occurred_at
             ELSE /\ contents'[d].published_version_id = NULL
                  /\ contents'[d].published_at = NULL
    BY DEF AuditExplainsPointer
  <2>1. CASE d = c
    <3>1. last \in DOMAIN publish_events' /\ publish_events'[last].content_id = c
      BY <1>4
    <3>2. \A e \in DOMAIN publish_events' : LastEventOf(e, c)' => e = last
      BY <3>1, <1>4 DEF LastEventOf
    <3> QED
      BY <2>1, <3>1, <3>2, <1>3, <1>4 DEF ptr, at
  <2>2. CASE d # c
    <3>1. \A e \in DOMAIN publish_events' : publish_events'[e].content_id = d
                                               => e \in DOMAIN publish_events
      BY <2>2, <1>4
    <3>2. \A e \in DOMAIN publish_events' : LastEventOf(e, d)' =>
                e \in DOMAIN publish_events /\ LastEventOf(e, d)
      BY <3>1, <1>4 DEF LastEventOf
    <3>3. contents'[d] = contents[d] /\ d \in DOMAIN contents
      BY <2>2, <1>3
    <3> QED
      BY <3>2, <3>3, <1>4 DEF AuditExplainsPointer
  <2> QED
    BY <2>1, <2>2
<1> QED
  BY <1>5, <1>6, <1>7, <1>8

\* A manual event carries no schedule id, so it neither settles a schedule nor
\* unsettles one.
LEMMA ManualEvent ==
    ASSUME TypeOK, ExactlyOnce, NEW c \in ContentId, NEW v \in VersionId,
           NEW action \in {"publish", "unpublish"}, NEW now \in Time,
           InsertEvent(c, v, action, "manual", NULL, now),
           UNCHANGED publish_schedules
    PROVE  ExactlyOnce'
<1> DEFINE last == Len(publish_events) + 1
<1>1. /\ DOMAIN publish_events = 1 .. Len(publish_events)
      /\ Len(publish_events) \in Nat
      /\ DOMAIN publish_events' = 1 .. last
      /\ \A e \in DOMAIN publish_events :
            /\ e \in DOMAIN publish_events'
            /\ publish_events'[e] = publish_events[e]
      /\ publish_events'[last].schedule_id = NULL
  <2>1. "manual" \in {"manual", "scheduled"} /\ NULL \in ScheduleId \cup {NULL}
    OBVIOUS
  <2>2. publish_events'[last] =
            [content_id |-> c, version_id |-> v, action |-> action,
             source |-> "manual", schedule_id |-> NULL, occurred_at |-> now]
    BY <2>1, InsertEventFacts
  <2>3. publish_events'[last].schedule_id = NULL
    BY <2>2
  <2> QED
    BY <2>1, <2>3, InsertEventFacts
<1>2. \A e \in DOMAIN publish_events' :
         publish_events'[e].schedule_id # NULL => e \in DOMAIN publish_events
  BY <1>1
<1>3. \A s \in DOMAIN publish_schedules : EventRecorded(s)' <=> EventRecorded(s)
  <2>1. \A s \in DOMAIN publish_schedules : s # NULL
    BY StoreAssumption DEF TypeOK
  <2> QED
    BY <1>1, <1>2, <2>1 DEF EventRecorded
<1> QED
  BY <1>1, <1>2, <1>3 DEF ExactlyOnce

\* POST /contents/{id}/publish.
LEMMA PublishInv ==
    ASSUME Inv, NEW c \in ContentId, NEW v \in VersionId, NEW now \in Time,
           Publish(c, v, now)
    PROVE  Inv'
<1>0. /\ c \in DOMAIN contents /\ OwnedBy(v, c)
      /\ SetPublished(c, v, now, now)
      /\ InsertEvent(c, v, "publish", "manual", NULL, now)
      /\ UNCHANGED <<content_versions, publish_schedules>>
  BY DEF Publish, PublishResult
<1>1. TypeOK /\ VersionHistory /\ PointersOwned /\ AuditExplainsPointer /\ ExactlyOnce
  BY DEF Inv
<1>2. /\ "publish" \in {"publish", "unpublish"}
      /\ "manual" \in {"manual", "scheduled"}
      /\ NULL \in ScheduleId \cup {NULL}
      /\ IF "publish" = "publish" THEN SetPublished(c, v, now, now)
                                  ELSE SetPublished(c, NULL, NULL, now)
  BY <1>0
<1>3. publish_schedules' \in [DOMAIN publish_schedules -> ScheduleRow]
  BY <1>0, <1>1 DEF TypeOK
<1>4. TypeOK' /\ VersionHistory' /\ PointersOwned' /\ AuditExplainsPointer'
  BY <1>0, <1>1, <1>2, <1>3, MovePointer
<1>5. ExactlyOnce'
  BY <1>0, <1>1, <1>2, ManualEvent
<1>6. OneActiveSchedule' /\ ClaimHasLease'
  BY <1>0 DEF Inv, OneActiveSchedule, ClaimHasLease, Active
<1> QED
  BY <1>4, <1>5, <1>6 DEF Inv

\* POST /contents/{id}/unpublish.
LEMMA UnpublishInv ==
    ASSUME Inv, NEW c \in ContentId, NEW now \in Time, Unpublish(c, now)
    PROVE  Inv'
<1> DEFINE v == contents[c].published_version_id
<1>0. /\ c \in DOMAIN contents /\ v # NULL
      /\ SetPublished(c, NULL, NULL, now)
      /\ InsertEvent(c, v, "unpublish", "manual", NULL, now)
      /\ UNCHANGED <<content_versions, publish_schedules>>
  BY DEF Unpublish, UnpublishResult
<1>1. TypeOK /\ VersionHistory /\ PointersOwned /\ AuditExplainsPointer /\ ExactlyOnce
  BY DEF Inv
<1>2. v \in VersionId /\ OwnedBy(v, c)
  BY <1>0, <1>1 DEF TypeOK, ContentRow, PointersOwned
<1> HIDE DEF v
<1>3. /\ "unpublish" \in {"publish", "unpublish"}
      /\ "manual" \in {"manual", "scheduled"}
      /\ NULL \in ScheduleId \cup {NULL}
      /\ IF "unpublish" = "publish" THEN SetPublished(c, v, now, now)
                                    ELSE SetPublished(c, NULL, NULL, now)
  BY <1>0
<1>4. publish_schedules' \in [DOMAIN publish_schedules -> ScheduleRow]
  BY <1>0, <1>1 DEF TypeOK
<1>5. TypeOK' /\ VersionHistory' /\ PointersOwned' /\ AuditExplainsPointer'
  BY <1>0, <1>1, <1>2, <1>3, <1>4, MovePointer
<1>6. ExactlyOnce'
  BY <1>0, <1>1, <1>2, <1>3, ManualEvent
<1>7. OneActiveSchedule' /\ ClaimHasLease'
  BY <1>0 DEF Inv, OneActiveSchedule, ClaimHasLease, Active
<1> QED
  BY <1>5, <1>6, <1>7 DEF Inv

-----------------------------------------------------------------------------
(* Transactions on schedules. *)

\* POST /contents/{id}/schedules: the id is fresh, so no audit row can name
\* it, and the document has no other active schedule.
LEMMA CreateScheduleInv ==
    ASSUME Inv, NEW id \in ScheduleId, NEW c \in ContentId, NEW v \in VersionId,
           NEW runAt \in Time, CreateSchedule(id, c, v, runAt)
    PROVE  Inv'
<1> DEFINE row == [content_id |-> c, version_id |-> v, run_at |-> runAt,
                   status |-> "pending", locked_by |-> NULL,
                   lock_expires_at |-> NULL]
<1>0. /\ id \notin DOMAIN publish_schedules
      /\ OwnedBy(v, c)
      /\ \A s \in DOMAIN publish_schedules :
            Active(s) => publish_schedules[s].content_id # c
      /\ UNCHANGED <<contents, content_versions, publish_events>>
  BY DEF CreateSchedule, CreateScheduleResult
<1>1. TypeOK
  BY DEF Inv
<1>2. row \in ScheduleRow
  BY DEF ScheduleRow
<1>3. /\ DOMAIN publish_schedules' = DOMAIN publish_schedules \cup {id}
      /\ publish_schedules' \in [DOMAIN publish_schedules' -> ScheduleRow]
      /\ publish_schedules'[id] = row
      /\ \A s \in DOMAIN publish_schedules :
            publish_schedules'[s] = publish_schedules[s]
  BY <1>0, <1>1, <1>2 DEF CreateSchedule, Insert, TypeOK
<1>4. TypeOK'
  BY <1>0, <1>1, <1>3 DEF TypeOK
<1>5. VersionHistory' /\ AuditExplainsPointer'
  BY <1>0 DEF Inv, VersionHistory, AuditExplainsPointer, LastEventOf
<1>6. PointersOwned'
  <2>1. c \in DOMAIN contents
    BY <1>0 DEF Inv, VersionHistory, OwnedBy
  <2> QED
    BY <2>1, <1>0, <1>3 DEF Inv, PointersOwned, OwnedBy
<1>7. OneActiveSchedule'
  BY <1>0, <1>3 DEF Inv, OneActiveSchedule, Active
<1>8. ExactlyOnce'
  <2>1. ~EventRecorded(id)
    BY <1>0, <1>1, StoreAssumption DEF Inv, ExactlyOnce, EventRecorded, TypeOK
  <2> QED
    BY <2>1, <1>0, <1>3 DEF Inv, ExactlyOnce, EventRecorded
<1>9. ClaimHasLease'
  BY <1>0, <1>3 DEF Inv, ClaimHasLease
<1> QED
  BY <1>4, <1>5, <1>6, <1>7, <1>8, <1>9 DEF Inv

\* A step that only moves active schedules between pending, claimed and
\* cancelled, keeping status and lease in agreement, preserves everything.
LEMMA QueueStep ==
    ASSUME Inv,
           UNCHANGED <<contents, content_versions, publish_events>>,
           DOMAIN publish_schedules' = DOMAIN publish_schedules,
           publish_schedules' \in [DOMAIN publish_schedules -> ScheduleRow],
           \A s \in DOMAIN publish_schedules :
              /\ publish_schedules'[s].content_id = publish_schedules[s].content_id
              /\ publish_schedules'[s].version_id = publish_schedules[s].version_id
              /\ publish_schedules'[s].run_at = publish_schedules[s].run_at
              /\ \/ publish_schedules'[s] = publish_schedules[s]
                 \/ Active(s) /\ publish_schedules'[s].status # "done",
           ClaimHasLease'
    PROVE  Inv'
<1>1. TypeOK'
  BY DEF Inv, TypeOK
<1>2. VersionHistory' /\ AuditExplainsPointer'
  BY DEF Inv, VersionHistory, AuditExplainsPointer, LastEventOf
<1>3. PointersOwned'
  BY DEF Inv, PointersOwned, OwnedBy
<1>4. OneActiveSchedule'
  BY DEF Inv, OneActiveSchedule, Active
<1>5. ExactlyOnce'
  BY DEF Inv, ExactlyOnce, EventRecorded, Active
<1> QED
  BY <1>1, <1>2, <1>3, <1>4, <1>5 DEF Inv

\* Taking the lease off active rows, by cancelling or by giving them back, is
\* such a step.
LEMMA UnlockInv ==
    ASSUME Inv, NEW S, NEW st \in {"pending", "cancelled"}, Unlock(S, st),
           \A s \in S : Active(s),
           UNCHANGED <<contents, content_versions, publish_events>>
    PROVE  Inv'
<1>1. TypeOK /\ st \in {"pending", "claimed", "done", "cancelled"}
      /\ st # "done" /\ st # "claimed"
  BY DEF Inv
<1>2. /\ DOMAIN publish_schedules' = DOMAIN publish_schedules
      /\ publish_schedules' \in [DOMAIN publish_schedules -> ScheduleRow]
      /\ \A s \in DOMAIN publish_schedules :
            /\ publish_schedules'[s].content_id = publish_schedules[s].content_id
            /\ publish_schedules'[s].version_id = publish_schedules[s].version_id
            /\ publish_schedules'[s].run_at = publish_schedules[s].run_at
            /\ s \notin S => publish_schedules'[s] = publish_schedules[s]
            /\ s \in S => /\ publish_schedules'[s].status = st
                          /\ publish_schedules'[s].locked_by = NULL
                          /\ publish_schedules'[s].lock_expires_at = NULL
  BY <1>1, UnlockFacts
<1>3. ClaimHasLease'
  BY <1>1, <1>2 DEF Inv, ClaimHasLease
<1> QED
  BY <1>1, <1>2, <1>3, QueueStep

\* So is a claim.
LEMMA ClaimInv ==
    ASSUME Inv, NEW w \in Worker, NEW now \in Time, NEW exp \in Time, NEW B,
           ClaimDueSchedules(w, now, exp, B)
    PROVE  Inv'
<1>1. TypeOK /\ UNCHANGED <<contents, content_versions, publish_events>>
  BY DEF Inv, ClaimDueSchedules
<1>2. /\ DOMAIN publish_schedules' = DOMAIN publish_schedules
      /\ publish_schedules' \in [DOMAIN publish_schedules -> ScheduleRow]
      /\ \A s \in DOMAIN publish_schedules :
            /\ publish_schedules'[s].content_id = publish_schedules[s].content_id
            /\ publish_schedules'[s].version_id = publish_schedules[s].version_id
            /\ publish_schedules'[s].run_at = publish_schedules[s].run_at
            /\ s \notin B => publish_schedules'[s] = publish_schedules[s]
            /\ s \in B => /\ Active(s)
                          /\ publish_schedules'[s].status = "claimed"
                          /\ publish_schedules'[s].locked_by = w
                          /\ publish_schedules'[s].lock_expires_at = exp
  BY <1>1, ClaimFacts
<1>3. w # NULL /\ exp # NULL
  BY StoreAssumption
<1>4. ClaimHasLease'
  BY <1>2, <1>3 DEF Inv, ClaimHasLease
<1> QED
  BY <1>1, <1>2, <1>4, QueueStep

\* A worker completes a job whose lease it holds: the schedule had no event
\* and gets its only one, in the step that makes it done.
LEMMA CompleteInv ==
    ASSUME Inv, NEW s \in DOMAIN publish_schedules, NEW w \in Worker,
           NEW now \in Time, CompleteScheduledPublish(JobOf(s), w, now)
    PROVE  Inv'
<1> DEFINE c == publish_schedules[s].content_id
           v == publish_schedules[s].version_id
           last == Len(publish_events) + 1
<1>0. /\ ~EventRecorded(s) /\ HoldsLease(s, w)
      /\ SetPublished(c, v, now, now)
      /\ InsertEvent(c, v, "publish", "scheduled", s, now)
      /\ Unlock({s}, "done")
      /\ UNCHANGED content_versions
  BY DEF CompleteScheduledPublish, CompleteResult, JobOf
<1>1. TypeOK /\ VersionHistory /\ PointersOwned /\ AuditExplainsPointer
  BY DEF Inv
<1>2. /\ c \in DOMAIN contents /\ v \in VersionId /\ OwnedBy(v, c)
      /\ c \in ContentId /\ s \in ScheduleId
  BY <1>1 DEF TypeOK, ScheduleRow, PointersOwned
<1> HIDE DEF c, v
<1>3. /\ DOMAIN publish_schedules' = DOMAIN publish_schedules
      /\ publish_schedules' \in [DOMAIN publish_schedules -> ScheduleRow]
      /\ \A u \in DOMAIN publish_schedules :
            /\ publish_schedules'[u].content_id = publish_schedules[u].content_id
            /\ publish_schedules'[u].version_id = publish_schedules[u].version_id
            /\ u # s => publish_schedules'[u] = publish_schedules[u]
      /\ publish_schedules'[s].status = "done"
      /\ publish_schedules'[s].locked_by = NULL
      /\ publish_schedules'[s].lock_expires_at = NULL
  <2>1. "done" \in {"pending", "claimed", "done", "cancelled"}
    OBVIOUS
  <2> QED
    BY <2>1, <1>0, <1>1, UnlockFacts
<1>4. /\ "publish" \in {"publish", "unpublish"}
      /\ "scheduled" \in {"manual", "scheduled"}
      /\ s \in ScheduleId \cup {NULL}
      /\ IF "publish" = "publish" THEN SetPublished(c, v, now, now)
                                  ELSE SetPublished(c, NULL, NULL, now)
  BY <1>0, <1>2
<1>5. TypeOK' /\ VersionHistory' /\ PointersOwned' /\ AuditExplainsPointer'
  BY <1>0, <1>1, <1>2, <1>3, <1>4, MovePointer
<1>6. OneActiveSchedule'
  BY <1>3 DEF Inv, OneActiveSchedule, Active
<1>7. ClaimHasLease'
  BY <1>3 DEF Inv, ClaimHasLease
<1>8. ExactlyOnce'
  <2>1. /\ DOMAIN publish_events = 1 .. Len(publish_events)
        /\ Len(publish_events) \in Nat
        /\ DOMAIN publish_events' = 1 .. last
        /\ \A e \in DOMAIN publish_events :
              /\ e \in DOMAIN publish_events'
              /\ publish_events'[e] = publish_events[e]
        /\ publish_events'[last] =
              [content_id |-> c, version_id |-> v, action |-> "publish",
               source |-> "scheduled", schedule_id |-> s, occurred_at |-> now]
    BY <1>0, <1>1, <1>2, <1>4, InsertEventFacts
  <2>2. \A e \in DOMAIN publish_events' :
           e \in DOMAIN publish_events \/ e = last
    BY <2>1
  <2>3. \A e \in DOMAIN publish_events : publish_events[e].schedule_id # s
    BY <1>0 DEF EventRecorded
  <2>4. \A u \in DOMAIN publish_schedules' :
           publish_schedules'[u].status = "done" <=> EventRecorded(u)'
    <3> SUFFICES ASSUME NEW u \in DOMAIN publish_schedules
                 PROVE  publish_schedules'[u].status = "done" <=> EventRecorded(u)'
      BY <1>3
    <3>1. CASE u = s
      <4>1. last \in DOMAIN publish_events' /\ publish_events'[last].schedule_id = s
        BY <2>1
      <4> QED
        BY <3>1, <4>1, <1>3 DEF EventRecorded
    <3>2. CASE u # s
      <4>1. EventRecorded(u)' <=> EventRecorded(u)
        BY <3>2, <2>1, <2>2 DEF EventRecorded
      <4>2. publish_schedules[u].status = "done" <=> EventRecorded(u)
        BY DEF Inv, ExactlyOnce
      <4> QED
        BY <3>2, <4>1, <4>2, <1>3
    <3> QED
      BY <3>1, <3>2
  <2>5. \A e \in DOMAIN publish_events' :
           LET ev == publish_events'[e] IN
           ev.schedule_id # NULL =>
             /\ ev.schedule_id \in DOMAIN publish_schedules'
             /\ ev.action = "publish" /\ ev.source = "scheduled"
             /\ ev.content_id = publish_schedules'[ev.schedule_id].content_id
             /\ ev.version_id = publish_schedules'[ev.schedule_id].version_id
    <3>1. \A e \in DOMAIN publish_events :
           LET ev == publish_events[e] IN
           ev.schedule_id # NULL =>
             /\ ev.schedule_id \in DOMAIN publish_schedules
             /\ ev.action = "publish" /\ ev.source = "scheduled"
             /\ ev.content_id = publish_schedules[ev.schedule_id].content_id
             /\ ev.version_id = publish_schedules[ev.schedule_id].version_id
      BY DEF Inv, ExactlyOnce
    <3> QED
      BY <3>1, <2>1, <2>2, <1>3 DEF c, v
  <2>6. \A e, g \in DOMAIN publish_events' :
           /\ publish_events'[e].schedule_id = publish_events'[g].schedule_id
           /\ publish_events'[e].schedule_id # NULL
           => e = g
    BY <2>1, <2>2, <2>3 DEF Inv, ExactlyOnce
  <2> QED
    BY <2>4, <2>5, <2>6 DEF ExactlyOnce
<1> QED
  BY <1>5, <1>6, <1>7, <1>8 DEF Inv

-----------------------------------------------------------------------------
(* The theorems. *)

\* The migrated, empty database satisfies the invariant.
LEMMA InitInv == StoreInit => Inv
<1> SUFFICES ASSUME StoreInit PROVE Inv
  OBVIOUS
<1>1. /\ DOMAIN contents = {} /\ contents \in [{} -> ContentRow]
      /\ DOMAIN publish_schedules = {} /\ publish_schedules \in [{} -> ScheduleRow]
  BY DEF StoreInit
<1>2. /\ content_versions \in Seq(VersionRow) /\ Len(content_versions) = 0
      /\ DOMAIN content_versions = {}
      /\ publish_events \in Seq(EventRow) /\ DOMAIN publish_events = {}
  BY DEF StoreInit
<1>3. TypeOK
  BY <1>1, <1>2, StoreAssumption DEF TypeOK
<1>4. VersionHistory /\ PointersOwned /\ OneActiveSchedule /\ ExactlyOnce
      /\ AuditExplainsPointer /\ ClaimHasLease
  BY <1>1, <1>2 DEF VersionHistory, PointersOwned, OneActiveSchedule,
                    ExactlyOnce, AuditExplainsPointer, ClaimHasLease
<1> QED
  BY <1>3, <1>4 DEF Inv

\* Every transaction preserves the invariant.
LEMMA NextInv == Inv /\ [StoreNext]_storeVars => Inv'
<1> SUFFICES ASSUME Inv, [StoreNext]_storeVars PROVE Inv'
  OBVIOUS
<1>1. CASE \E id \in ContentId, slug \in Slug, f \in Fields, t \in Time :
              CreateContent(id, slug, f, t)
  BY <1>1, CreateContentInv
<1>2. CASE \E c \in ContentId, n \in VersionId, f \in Fields, t \in Time :
              UpdateContent(c, n, f, t)
  BY <1>2, UpdateContentInv
<1>3. CASE \E c \in ContentId, v \in VersionId, t \in Time : Publish(c, v, t)
  BY <1>3, PublishInv
<1>4. CASE \E c \in ContentId, t \in Time : Unpublish(c, t)
  BY <1>4, UnpublishInv
<1>5. CASE \E s \in ScheduleId, c \in ContentId, v \in VersionId, t \in Time :
              CreateSchedule(s, c, v, t)
  BY <1>5, CreateScheduleInv
<1>6. CASE \E s \in ScheduleId : CancelSchedule(s)
  <2>1. PICK s \in ScheduleId : CancelSchedule(s)
    BY <1>6
  <2>2. Unlock({s}, "cancelled") /\ \A u \in {s} : Active(u)
    BY <2>1 DEF CancelSchedule, CancelScheduleResult, Active
  <2> QED
    BY <2>1, <2>2, UnlockInv DEF CancelSchedule
<1>7. CASE \E w \in Worker, t, e \in Time, B \in SUBSET ScheduleId :
              ClaimDueSchedules(w, t, e, B)
  BY <1>7, ClaimInv
<1>8. CASE \E s \in DOMAIN publish_schedules, w \in Worker, t \in Time :
              CompleteScheduledPublish(JobOf(s), w, t)
  BY <1>8, CompleteInv
<1>9. CASE \E s \in ScheduleId, w \in Worker : FailSchedule(s, w)
  <2>1. PICK s \in ScheduleId, w \in Worker : FailSchedule(s, w)
    BY <1>9
  <2>2. Unlock({s}, "pending") /\ \A u \in {s} : Active(u)
    BY <2>1 DEF FailSchedule, HoldsLease, Active
  <2> QED
    BY <2>1, <2>2, UnlockInv DEF FailSchedule
<1>10. CASE \E w \in Worker : ReleaseClaims(w)
  <2>1. PICK w \in Worker : ReleaseClaims(w)
    BY <1>10
  <2> DEFINE S == {s \in DOMAIN publish_schedules : HoldsLease(s, w)}
  <2>2. Unlock(S, "pending") /\ \A u \in S : Active(u)
    BY <2>1 DEF ReleaseClaims, HoldsLease, Active
  <2> QED
    BY <2>1, <2>2, UnlockInv DEF ReleaseClaims
<1>11. CASE UNCHANGED storeVars
  BY <1>11 DEF Inv, storeVars, TypeOK, VersionHistory, PointersOwned,
               OneActiveSchedule, ExactlyOnce, AuditExplainsPointer,
               ClaimHasLease, OwnedBy, Active, EventRecorded, LastEventOf
<1> QED
  BY <1>1, <1>2, <1>3, <1>4, <1>5, <1>6, <1>7, <1>8, <1>9, <1>10, <1>11
     DEF StoreNext

\* The inductive invariant holds in every reachable state of the database.
THEOREM Invariance == StoreSpec => []Inv
<1>1. StoreInit => Inv
  BY InitInv
<1>2. Inv /\ [StoreNext]_storeVars => Inv'
  BY NextInv
<1> QED
  BY <1>1, <1>2, PTL DEF StoreSpec

\* Every table keeps its type: each column its domain, each key its set.
THEOREM TypeCorrect == StoreSpec => []TypeOK
<1>1. Inv => TypeOK
  BY DEF Inv
<1> QED
  BY <1>1, Invariance, PTL

\* No update is ever lost: version numbers of a document are consecutive,
\* unique and in commit order, whatever editors race.
THEOREM NoLostUpdate == StoreSpec => []VersionHistory
<1>1. Inv => VersionHistory
  BY DEF Inv
<1> QED
  BY <1>1, Invariance, PTL

\* No document ever publishes, schedules or records another one's version.
THEOREM NoForeignVersion == StoreSpec => []PointersOwned
<1>1. Inv => PointersOwned
  BY DEF Inv
<1> QED
  BY <1>1, Invariance, PTL

\* The partial unique index never has to refuse a worker's update.
THEOREM AtMostOneActive == StoreSpec => []OneActiveSchedule
<1>1. Inv => OneActiveSchedule
  BY DEF Inv
<1> QED
  BY <1>1, Invariance, PTL

\* A schedule publishes exactly once or never, for any number of workers, any
\* clock and any lease: CompleteScheduledPublish is the only writer of its
\* event and of its done status, and a cancelled schedule has neither.
THEOREM PublishedExactlyOnce == StoreSpec => []ExactlyOnce
<1>1. Inv => ExactlyOnce
  BY DEF Inv
<1> QED
  BY <1>1, Invariance, PTL

\* The audit trail determines the public pointer.
THEOREM AuditTrail == StoreSpec => []AuditExplainsPointer
<1>1. Inv => AuditExplainsPointer
  BY DEF Inv
<1> QED
  BY <1>1, Invariance, PTL

\* No claimed row is without a deadline, so every one can be reclaimed.
THEOREM EveryClaimExpires == StoreSpec => []ClaimHasLease
<1>1. Inv => ClaimHasLease
  BY DEF Inv
<1> QED
  BY <1>1, Invariance, PTL

\* No transaction rewrites history.
LEMMA HistoryStep == Inv /\ StoreNext => HistoryKept
<1> SUFFICES ASSUME Inv, StoreNext PROVE HistoryKept
  OBVIOUS
<1>0. /\ TypeOK
      /\ contents \in [DOMAIN contents -> ContentRow]
      /\ \A c \in DOMAIN contents : contents[c].current_version \in Nat
      /\ Len(content_versions) \in Nat /\ Len(publish_events) \in Nat
  BY DEF Inv, TypeOK, ContentRow
<1>1. ASSUME NEW id \in ContentId, NEW slug \in Slug, NEW f \in Fields,
             NEW t \in Time, CreateContent(id, slug, f, t)
      PROVE  HistoryKept
  <2>1. /\ Len(content_versions') = Len(content_versions) + 1
        /\ \A v \in DOMAIN content_versions :
              content_versions'[v] = content_versions[v]
    BY <1>0, <1>1, InsertVersionFacts DEF CreateContent
  <2>2. \A c \in DOMAIN contents : c \in DOMAIN contents' /\ contents'[c] = contents[c]
    BY <1>1 DEF CreateContent, Insert
  <2> QED
    BY <1>0, <1>1, <2>1, <2>2 DEF CreateContent, HistoryKept
<1>2. ASSUME NEW c \in ContentId, NEW n \in VersionId, NEW f \in Fields,
             NEW t \in Time, UpdateContent(c, n, f, t)
      PROVE  HistoryKept
  <2>1. n + 1 \in Nat
    BY StoreAssumption DEF VersionId
  <2>2. /\ Len(content_versions') = Len(content_versions) + 1
        /\ \A v \in DOMAIN content_versions :
              content_versions'[v] = content_versions[v]
    BY <2>1, <1>0, <1>2, InsertVersionFacts DEF UpdateContent
  <2>3. \A d \in DOMAIN contents :
           /\ d \in DOMAIN contents'
           /\ contents'[d].slug = contents[d].slug
           /\ contents'[d].current_version >= contents[d].current_version
    BY <1>0, <1>2 DEF UpdateContent, ContentRow
  <2> QED
    BY <1>0, <1>2, <2>2, <2>3 DEF UpdateContent, HistoryKept
<1>3. ASSUME NEW c \in DOMAIN contents, NEW v \in VersionId \cup {NULL},
             NEW at \in Time \cup {NULL}, NEW t \in Time,
             SetPublished(c, v, at, t)
      PROVE  \A d \in DOMAIN contents :
                /\ d \in DOMAIN contents'
                /\ contents'[d].slug = contents[d].slug
                /\ contents'[d].current_version >= contents[d].current_version
  <2>1. /\ DOMAIN contents' = DOMAIN contents
        /\ \A d \in DOMAIN contents :
              /\ contents'[d].slug = contents[d].slug
              /\ contents'[d].current_version = contents[d].current_version
    BY <1>0, <1>3, SetPublishedFacts
  <2> QED
    BY <1>0, <2>1
<1>4. ASSUME NEW c, NEW v, NEW action, NEW source, NEW s, NEW t,
             InsertEvent(c, v, action, source, s, t)
      PROVE  /\ Len(publish_events) <= Len(publish_events')
             /\ \A e \in DOMAIN publish_events :
                   publish_events'[e] = publish_events[e]
  BY <1>4, <1>0 DEF InsertEvent, TypeOK
<1>5. ASSUME NEW c \in ContentId, NEW v \in VersionId, NEW t \in Time,
             Publish(c, v, t)
      PROVE  HistoryKept
  <2>1. /\ c \in DOMAIN contents /\ SetPublished(c, v, t, t)
        /\ InsertEvent(c, v, "publish", "manual", NULL, t)
        /\ UNCHANGED content_versions
    BY <1>5 DEF Publish, PublishResult
  <2> QED
    BY <1>0, <1>3, <1>4, <2>1 DEF HistoryKept
<1>6. ASSUME NEW c \in ContentId, NEW t \in Time, Unpublish(c, t)
      PROVE  HistoryKept
  <2>1. /\ c \in DOMAIN contents /\ SetPublished(c, NULL, NULL, t)
        /\ InsertEvent(c, contents[c].published_version_id, "unpublish",
                       "manual", NULL, t)
        /\ UNCHANGED content_versions
    BY <1>6 DEF Unpublish, UnpublishResult
  <2>2. NULL \in VersionId \cup {NULL} /\ NULL \in Time \cup {NULL}
    OBVIOUS
  <2>3. \A d \in DOMAIN contents :
           /\ d \in DOMAIN contents'
           /\ contents'[d].slug = contents[d].slug
           /\ contents'[d].current_version >= contents[d].current_version
    BY <1>3, <2>1, <2>2
  <2>4. /\ Len(publish_events) <= Len(publish_events')
        /\ \A e \in DOMAIN publish_events :
              publish_events'[e] = publish_events[e]
    BY <1>4, <2>1
  <2> QED
    BY <1>0, <2>1, <2>3, <2>4 DEF HistoryKept
<1>7. ASSUME NEW s \in DOMAIN publish_schedules, NEW w \in Worker,
             NEW t \in Time, CompleteScheduledPublish(JobOf(s), w, t)
      PROVE  HistoryKept
  <2> DEFINE c == publish_schedules[s].content_id
             v == publish_schedules[s].version_id
  <2>1. /\ SetPublished(c, v, t, t)
        /\ InsertEvent(c, v, "publish", "scheduled", s, t)
        /\ UNCHANGED content_versions
    BY <1>7 DEF CompleteScheduledPublish, JobOf
  <2>2. c \in DOMAIN contents /\ v \in VersionId
    BY <1>0 DEF TypeOK, ScheduleRow, Inv, PointersOwned
  <2> QED
    BY <1>0, <1>3, <1>4, <2>1, <2>2 DEF HistoryKept
<1>8. ASSUME UNCHANGED <<contents, content_versions, publish_events>>
      PROVE  HistoryKept
  BY <1>0, <1>8 DEF HistoryKept
<1> QED
  BY <1>1, <1>2, <1>5, <1>6, <1>7, <1>8
     DEF StoreNext, CreateSchedule, CancelSchedule, ClaimDueSchedules,
         FailSchedule, ReleaseClaims

\* History is append-only under every interleaving of transactions.
THEOREM HistoryAppendOnly == StoreSpec => AppendOnly
<1>1. Inv /\ [StoreNext]_storeVars => [HistoryKept]_storeVars
  BY HistoryStep
<1> QED
  BY <1>1, Invariance, PTL DEF StoreSpec, AppendOnly

\* No transaction touches a settled schedule or redirects an active one.
LEMMA SettledStep == Inv /\ StoreNext => SettledKept
<1> SUFFICES ASSUME Inv, StoreNext PROVE SettledKept
  OBVIOUS
<1>0. TypeOK
  BY DEF Inv
<1>1. ASSUME NEW S, NEW st \in {"pending", "claimed", "done", "cancelled"},
             Unlock(S, st), \A s \in S : Active(s)
      PROVE  SettledKept
  BY <1>0, <1>1, UnlockFacts DEF SettledKept
<1>2. ASSUME NEW w \in Worker, NEW t \in Time, NEW e \in Time, NEW B,
             ClaimDueSchedules(w, t, e, B)
      PROVE  SettledKept
  BY <1>0, <1>2, ClaimFacts DEF SettledKept
<1>3. ASSUME NEW id, NEW c, NEW v, NEW t, CreateSchedule(id, c, v, t)
      PROVE  SettledKept
  BY <1>3 DEF CreateSchedule, Insert, SettledKept
<1>4. ASSUME UNCHANGED publish_schedules
      PROVE  SettledKept
  BY <1>4 DEF SettledKept
<1>5. ASSUME NEW s, CancelSchedule(s)
      PROVE  SettledKept
  <2>1. Unlock({s}, "cancelled") /\ \A u \in {s} : Active(u)
    BY <1>5 DEF CancelSchedule, CancelScheduleResult, Active
  <2> QED
    BY <2>1, <1>1
<1>6. ASSUME NEW s \in DOMAIN publish_schedules, NEW w, NEW t,
             CompleteScheduledPublish(JobOf(s), w, t)
      PROVE  SettledKept
  <2>1. Unlock({s}, "done") /\ \A u \in {s} : Active(u)
    BY <1>6 DEF CompleteScheduledPublish, CompleteResult, HoldsLease, JobOf,
                Active
  <2> QED
    BY <2>1, <1>1
<1>7. ASSUME NEW s, NEW w, FailSchedule(s, w)
      PROVE  SettledKept
  <2>1. Unlock({s}, "pending") /\ \A u \in {s} : Active(u)
    BY <1>7 DEF FailSchedule, HoldsLease, Active
  <2> QED
    BY <2>1, <1>1
<1>8. ASSUME NEW w, ReleaseClaims(w)
      PROVE  SettledKept
  <2> DEFINE S == {s \in DOMAIN publish_schedules : HoldsLease(s, w)}
  <2>1. Unlock(S, "pending") /\ \A u \in S : Active(u)
    BY <1>8 DEF ReleaseClaims, HoldsLease, Active
  <2> QED
    BY <2>1, <1>1
<1> QED
  BY <1>2, <1>3, <1>4, <1>5, <1>6, <1>7, <1>8
     DEF StoreNext, CreateContent, UpdateContent, Publish, Unpublish

\* done and cancelled are final under every interleaving of workers and
\* editors, crashed or not.
THEOREM SettledIsFinal == StoreSpec => SettledForever
<1>1. Inv /\ [StoreNext]_storeVars => [SettledKept]_storeVars
  BY SettledStep
<1> QED
  BY <1>1, Invariance, PTL DEF StoreSpec, SettledForever

-----------------------------------------------------------------------------
(* The last event of a document. *)

\* A non-empty set of positions has a last one.
LEMMA LastPosition ==
    ASSUME NEW n \in Nat, NEW T, T \subseteq 1 .. n, T # {}
    PROVE  \E x \in T : \A y \in T : y <= x
<1> DEFINE D == {n - x : x \in T}
<1>1. D \subseteq Nat /\ D # {}
  <2>1. \A x \in T : n - x \in Nat
    OBVIOUS
  <2>2. PICK x \in T : TRUE
    OBVIOUS
  <2>3. n - x \in D
    OBVIOUS
  <2> QED
    BY <2>1, <2>3
<1>2. \E d \in D : \A g \in D : ~(<<g, d>> \in OpToRel(<, Nat))
  BY <1>1, WFMin, NatLessThanWellFounded, Zenon
<1>3. PICK d \in D : \A g \in D : ~(<<g, d>> \in OpToRel(<, Nat))
  BY <1>2
<1>4. \A g \in D : ~(g < d)
  BY <1>1, <1>3 DEF OpToRel
<1>5. PICK x \in T : d = n - x
  OBVIOUS
<1>6. \A y \in T : ~(n - y < n - x)
  BY <1>4, <1>5
<1> QED
  BY <1>6

\* A document with events has a last one.
LEMMA LastEventExists ==
    ASSUME TypeOK, NEW c, NEW e \in DOMAIN publish_events,
           publish_events[e].content_id = c
    PROVE  \E g \in DOMAIN publish_events : LastEventOf(g, c)
<1> DEFINE T == {g \in DOMAIN publish_events : publish_events[g].content_id = c}
<1>1. /\ Len(publish_events) \in Nat
      /\ DOMAIN publish_events = 1 .. Len(publish_events)
  BY DEF TypeOK
<1>2. PICK g \in T : \A y \in T : y <= g
  BY <1>1, LastPosition
<1> QED
  BY <1>2 DEF LastEventOf

-----------------------------------------------------------------------------
(* Rows under their numbers. *)

\* A version number names one row of its document.
RowsFound ==
    /\ \A c \in DOMAIN contents :
          \A n \in 1 .. contents[c].current_version :
             /\ RowOf(c, n) \in DOMAIN content_versions
             /\ content_versions[RowOf(c, n)].content_id = c
             /\ content_versions[RowOf(c, n)].version = n
    /\ \A c \in ContentId, n \in Nat : \A v \in DOMAIN content_versions :
          content_versions[v].content_id = c /\ content_versions[v].version = n
          => RowOf(c, n) = v

\* GetVersion finds the row, and there is only one.
LEMMA RowOfFacts == Inv => RowsFound
<1> SUFFICES ASSUME Inv PROVE RowsFound
  OBVIOUS
<1>1. /\ DOMAIN content_versions \subseteq Nat
      /\ \A v \in DOMAIN content_versions : content_versions[v].version \in Nat
  <2>1. content_versions \in Seq(VersionRow)
    BY DEF Inv, TypeOK
  <2>2. DOMAIN content_versions = 1 .. Len(content_versions) /\ Len(content_versions) \in Nat
    BY <2>1
  <2>3. \A v \in DOMAIN content_versions : content_versions[v] \in VersionRow
    BY <2>1, <2>2
  <2> QED  BY <2>2, <2>3 DEF VersionRow
<1>2. \A v, u \in DOMAIN content_versions :
          /\ content_versions[v].content_id = content_versions[u].content_id
          /\ content_versions[v].version = content_versions[u].version
          => v = u
  BY <1>1 DEF Inv, VersionHistory
<1>3. ASSUME NEW c, NEW n,
             \E v \in DOMAIN content_versions :
                content_versions[v].content_id = c /\ content_versions[v].version = n
      PROVE  /\ RowOf(c, n) \in DOMAIN content_versions
             /\ content_versions[RowOf(c, n)].content_id = c
             /\ content_versions[RowOf(c, n)].version = n
  BY <1>3 DEF RowOf
<1>4. ASSUME NEW c \in DOMAIN contents, NEW n \in 1 .. contents[c].current_version
      PROVE  \E v \in DOMAIN content_versions :
                content_versions[v].content_id = c /\ content_versions[v].version = n
  BY DEF Inv, VersionHistory
<1>5. ASSUME NEW c \in ContentId, NEW n \in Nat, NEW v \in DOMAIN content_versions,
             content_versions[v].content_id = c /\ content_versions[v].version = n
      PROVE  RowOf(c, n) = v
  BY <1>2, <1>3, <1>5
<1> QED  BY <1>3, <1>4, <1>5 DEF RowsFound

\* A row is found again under its number.
LEMMA RowKept ==
    ASSUME Inv, Inv', HistoryKept, NEW c \in DOMAIN contents,
           NEW n \in 1 .. contents[c].current_version
    PROVE  /\ RowOf(c, n)' = RowOf(c, n)
           /\ RowOf(c, n) \in DOMAIN content_versions
           /\ content_versions'[RowOf(c, n)] = content_versions[RowOf(c, n)]
<1>1. RowsFound /\ RowsFound'
  BY RowOfFacts, PTL
<1>2. /\ RowOf(c, n) \in DOMAIN content_versions
      /\ content_versions[RowOf(c, n)].content_id = c
      /\ content_versions[RowOf(c, n)].version = n
  BY <1>1 DEF RowsFound
<1>3. /\ RowOf(c, n) \in DOMAIN content_versions'
      /\ content_versions'[RowOf(c, n)] = content_versions[RowOf(c, n)]
  <2>1. /\ content_versions \in Seq(VersionRow) /\ content_versions' \in Seq(VersionRow)
        /\ Len(content_versions) <= Len(content_versions')
    BY DEF HistoryKept, Inv, TypeOK
  <2> QED  BY <1>2, <2>1 DEF HistoryKept
<1>4. c \in ContentId /\ n \in Nat
  BY DEF Inv, TypeOK, ContentRow
<1>5. RowOf(c, n)' = RowOf(c, n)
  <2>1. \A v \in DOMAIN content_versions' :
           content_versions'[v].content_id = c /\ content_versions'[v].version = n
           => RowOf(c, n)' = v
    BY <1>1, <1>4 DEF RowsFound
  <2> QED  BY <1>2, <1>3, <2>1
<1> QED  BY <1>2, <1>3, <1>5

\* A transaction adds at most one document, and removes none.
LEMMA OneNewDocument ==
    ASSUME StoreNext
    PROVE  \E id : DOMAIN contents' \subseteq DOMAIN contents \cup {id}
<1>1. ASSUME NEW id, NEW slug, NEW f, NEW t, CreateContent(id, slug, f, t)
      PROVE  DOMAIN contents' \subseteq DOMAIN contents \cup {id}
  BY <1>1 DEF CreateContent, Insert
<1>2. ASSUME NEW c, NEW n, NEW f, NEW t, UpdateContent(c, n, f, t)
      PROVE  DOMAIN contents' = DOMAIN contents
  BY <1>2 DEF UpdateContent
<1>3. ASSUME NEW c, NEW v, NEW at, NEW t, SetPublished(c, v, at, t)
      PROVE  DOMAIN contents' = DOMAIN contents
  BY <1>3 DEF SetPublished
<1>4. \/ \E id, slug, f, t : CreateContent(id, slug, f, t)
      \/ \E c, n, f, t : UpdateContent(c, n, f, t)
      \/ \E c, v, at, t : SetPublished(c, v, at, t)
      \/ contents' = contents
  <2>1. \A c, v, t : Publish(c, v, t) => SetPublished(c, v, t, t)
    BY DEF Publish
  <2>2. \A c, t : Unpublish(c, t) => SetPublished(c, NULL, NULL, t)
    BY DEF Unpublish
  <2>3. \A j, w, t : CompleteScheduledPublish(j, w, t)
                        => SetPublished(j.ContentID, j.VersionID, t, t)
    BY DEF CompleteScheduledPublish
  <2>4. /\ \A s, c, v, t : CreateSchedule(s, c, v, t) => contents' = contents
        /\ \A s : CancelSchedule(s) => contents' = contents
        /\ \A w, t, e, B : ClaimDueSchedules(w, t, e, B) => contents' = contents
        /\ \A s, w : FailSchedule(s, w) => contents' = contents
        /\ \A w : ReleaseClaims(w) => contents' = contents
    BY DEF CreateSchedule, CancelSchedule, ClaimDueSchedules, FailSchedule, ReleaseClaims
  <2> QED  BY <2>1, <2>2, <2>3, <2>4, Zenon DEF StoreNext
<1> QED  BY <1>1, <1>2, <1>3, <1>4

\* Versions and audit rows stay where they are, and so do documents.
LEMMA RowsStay ==
    ASSUME Inv, Inv', HistoryKept
    PROVE  /\ \A v \in DOMAIN content_versions :
                 v \in DOMAIN content_versions' /\ content_versions'[v] = content_versions[v]
           /\ \A i \in DOMAIN publish_events :
                 i \in DOMAIN publish_events' /\ publish_events'[i] = publish_events[i]
           /\ \A c \in DOMAIN contents :
                 /\ c \in DOMAIN contents'
                 /\ contents[c].current_version \in Nat
                 /\ contents'[c].current_version \in Nat
                 /\ contents'[c].current_version >= contents[c].current_version
<1>1. /\ content_versions \in Seq(VersionRow) /\ content_versions' \in Seq(VersionRow)
      /\ publish_events \in Seq(EventRow) /\ publish_events' \in Seq(EventRow)
  BY DEF Inv, TypeOK
<1>2. \A v \in DOMAIN content_versions :
          v \in DOMAIN content_versions' /\ content_versions'[v] = content_versions[v]
  BY <1>1 DEF HistoryKept
<1>3. \A i \in DOMAIN publish_events :
          i \in DOMAIN publish_events' /\ publish_events'[i] = publish_events[i]
  BY <1>1 DEF HistoryKept
<1>4. \A c \in DOMAIN contents :
          /\ c \in DOMAIN contents'
          /\ contents[c].current_version \in Nat
          /\ contents'[c].current_version \in Nat
          /\ contents'[c].current_version >= contents[c].current_version
  BY DEF HistoryKept, Inv, TypeOK, ContentRow
<1> QED  BY <1>2, <1>3, <1>4

=============================================================================
