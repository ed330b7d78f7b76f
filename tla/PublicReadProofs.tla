-------------------------- MODULE PublicReadProofs --------------------------
(***************************************************************************)
(* Proofs about the public side of module PublicRead, for every set of     *)
(* documents, slugs and instants and any mix of writers.                   *)
(*                                                                         *)
(* Two arguments.  What a reader was served stays explained by the audit   *)
(* trail, since no transaction rewrites history (TruePages only grows).    *)
(* And a cached page whose tag is the current one is the current page,     *)
(* since a write that touches a document stamps it: PagesOK relates the    *)
(* client's cache to the rows.  The one exception is a write that gives    *)
(* the row the very millisecond of the cached tag once more, after which   *)
(* the page counts as doubtful.                                            *)
(***************************************************************************)
EXTENDS PublicRead, RefinementProofs

\* The pages that were public at some time, as the audit trail has them.
TruePages ==
    {p \in [slug : Slug, fields : Fields, published_at : Time, updated_at : Time] :
        WasPublished(p.slug, p.fields, p.published_at)}

\* The request being served holds pages that were public.
StepOK ==
    /\ step = [pc |-> step.pc, items |-> step.items, total |-> step.total]
    /\ step.pc \in {"idle", "total", "latest", "sitemap"}
    /\ step.pc \in {"total", "latest"} => step.items \subseteq TruePages

\* The client holds pages that were public.
CacheOK ==
    /\ DOMAIN cache = Resource
    /\ \A slug \in Slug : cache[slug] # NULL =>
          cache[slug].body \in TruePages /\ cache[slug].body.slug = slug
    /\ cache["list"] # NULL => cache["list"].body.items \subseteq TruePages

\* A slug names one document.
OneRowPerSlug ==
    \A c, d \in DOMAIN contents : contents[c].slug = contents[d].slug => c = d

PublicInv ==
    /\ Inv /\ OneRowPerSlug /\ StepOK /\ CacheOK
    /\ answer # NULL => answer.status \in {200, 304, 404, 500}
    /\ doubtful \subseteq Resource

\* A cached page whose tag is the current one is the current page, if it is not
\* doubtful.
PagesOK ==
    \A slug \in Slug \ doubtful : cache[slug] # NULL =>
        \A c \in Published :
            /\ contents[c].slug = slug
            /\ contents[c].updated_at = cache[slug].etag
            => cache[slug].body = PublicRow(c)

-----------------------------------------------------------------------------
(* Writers. *)

\* The clock has a first reading once there is a version.
LEMMA FirstInstant ==
    ASSUME Inv, DOMAIN content_versions # {}
    PROVE  Min(Time) \in Time
<1>1. Time # {}
  <2>1. PICK v \in DOMAIN content_versions : TRUE
    OBVIOUS
  <2>2. content_versions[v].content_id \in DOMAIN contents
    BY <2>1 DEF Inv, VersionHistory
  <2>3. \A c \in DOMAIN contents : contents[c].updated_at \in Time
    BY DEF Inv, TypeOK, ContentRow
  <2> QED  BY <2>2, <2>3
<1>2. Time \subseteq Nat
  BY PublicReadAssumption
<1>3. \E t \in Time : \A u \in Time : ~(<<u, t>> \in OpToRel(<, Nat))
  BY <1>1, <1>2, WFMin, NatLessThanWellFounded, Zenon
<1>4. PICK t \in Time : \A u \in Time : ~(<<u, t>> \in OpToRel(<, Nat))
  BY <1>3
<1>5. \A u \in Time : ~(u < t)
  BY <1>2, <1>4 DEF OpToRel
<1>6. \A u \in Time : t <= u
  BY <1>2, <1>5
<1> QED  BY <1>6 DEF Min

\* A write of the queue is a transaction of the store that readers cannot see.
LEMMA QueueFacts ==
    ASSUME Inv, QueueWrite
    PROVE  StoreNext /\ UNCHANGED <<contents, content_versions, publish_events>>
<1> DEFINE t == Min(Time)
<1>1. CASE \E s \in ScheduleId, c \in ContentId, v \in VersionId :
               CreateSchedule(s, c, v, t)
  <2>1. PICK s \in ScheduleId, c \in ContentId, v \in VersionId :
               CreateSchedule(s, c, v, t)
    BY <1>1
  <2>2. v \in DOMAIN content_versions
    BY <2>1 DEF CreateSchedule, CreateScheduleResult, OwnedBy
  <2>3. t \in Time
    BY <2>2, FirstInstant
  <2> QED  BY <2>1, <2>3 DEF StoreNext, CreateSchedule
<1>2. CASE \E w \in Worker, B \in (SUBSET ScheduleId) \ {{}} :
               ClaimDueSchedules(w, t, t, B)
  <2>1. PICK w \in Worker, B \in (SUBSET ScheduleId) \ {{}} :
               ClaimDueSchedules(w, t, t, B)
    BY <1>2
  <2>2. PICK s \in B : s \in DOMAIN publish_schedules
    BY <2>1 DEF ClaimDueSchedules, IsBatch, Claimable
  <2>3. publish_schedules[s].version_id \in DOMAIN content_versions
    BY <2>2 DEF Inv, PointersOwned, OwnedBy
  <2>4. t \in Time
    BY <2>3, FirstInstant
  <2> QED  BY <2>1, <2>4 DEF StoreNext, ClaimDueSchedules
<1> QED  BY <1>1, <1>2 DEF QueueWrite

\* A stamped write is a transaction of the store.
LEMMA StampedStore ==
    ASSUME NEW t \in Time, StampedWrite(t)
    PROVE  StoreNext
  BY DEF StampedWrite, StoreNext

\* A stamped write puts its stamp on every row it changes and takes no slug of
\* another document.
LEMMA StampedRows ==
    ASSUME Inv, OneRowPerSlug, NEW t \in Time, StampedWrite(t)
    PROVE  /\ \A d \in DOMAIN contents' :
                 \/ d \in DOMAIN contents /\ contents'[d] = contents[d]
                 \/ contents'[d].updated_at = t
           /\ OneRowPerSlug'
<1> DEFINE Goal == /\ \A d \in DOMAIN contents' :
                         \/ d \in DOMAIN contents /\ contents'[d] = contents[d]
                         \/ contents'[d].updated_at = t
                   /\ OneRowPerSlug'
<1>0. /\ TypeOK /\ contents \in [DOMAIN contents -> ContentRow]
      /\ \A c, d \in DOMAIN contents : contents[c].slug = contents[d].slug => c = d
  BY DEF Inv, TypeOK, OneRowPerSlug
<1>1. ASSUME NEW id \in ContentId, NEW slug \in Slug, NEW f \in Fields,
             CreateContent(id, slug, f, t)
      PROVE  Goal
  <2>1. /\ id \notin DOMAIN contents
        /\ \A c \in DOMAIN contents : contents[c].slug # slug
    BY <1>1 DEF CreateContent, CreateContentResult
  <2>2. /\ DOMAIN contents' = DOMAIN contents \cup {id}
        /\ contents'[id].slug = slug /\ contents'[id].updated_at = t
        /\ \A c \in DOMAIN contents : contents'[c] = contents[c]
    BY <1>1, <2>1 DEF CreateContent, Insert
  <2> QED  BY <1>0, <2>1, <2>2 DEF OneRowPerSlug
<1>2. ASSUME NEW c, DOMAIN contents' = DOMAIN contents,
             \A d \in DOMAIN contents : contents'[d].slug = contents[d].slug,
             \A d \in DOMAIN contents \ {c} : contents'[d] = contents[d],
             c \in DOMAIN contents => contents'[c].updated_at = t
      PROVE  Goal
  BY <1>0, <1>2 DEF OneRowPerSlug
<1>3. ASSUME NEW c \in ContentId, NEW n \in VersionId, NEW f \in Fields,
             UpdateContent(c, n, f, t)
      PROVE  Goal
  <2>1. /\ DOMAIN contents' = DOMAIN contents
        /\ \A d \in DOMAIN contents : contents'[d].slug = contents[d].slug
        /\ \A d \in DOMAIN contents \ {c} : contents'[d] = contents[d]
        /\ c \in DOMAIN contents => contents'[c].updated_at = t
    BY <1>0, <1>3 DEF UpdateContent, ContentRow
  <2> QED  BY <1>2, <2>1
<1>4. ASSUME NEW c, NEW v, NEW at, SetPublished(c, v, at, t)
      PROVE  Goal
  <2>1. /\ DOMAIN contents' = DOMAIN contents
        /\ \A d \in DOMAIN contents : contents'[d].slug = contents[d].slug
        /\ \A d \in DOMAIN contents \ {c} : contents'[d] = contents[d]
        /\ c \in DOMAIN contents => contents'[c].updated_at = t
    BY <1>0, <1>4 DEF SetPublished, ContentRow
  <2> QED  BY <1>2, <2>1
<1> HIDE DEF Goal
<1>5. Goal
  BY <1>1, <1>3, <1>4
  DEF StampedWrite, Publish, Unpublish, CompleteScheduledPublish
<1> QED  BY <1>5 DEF Goal

-----------------------------------------------------------------------------
(* What was public stays explained. *)

\* No transaction takes a page out of the audit trail.
LEMMA PagesKept ==
    ASSUME Inv, Inv', HistoryKept
    PROVE  TruePages \subseteq TruePages'
<1> SUFFICES ASSUME NEW p \in TruePages PROVE p \in TruePages'
  OBVIOUS
<1>1. PICK e \in DOMAIN publish_events :
         /\ publish_events[e].action = "publish"
         /\ publish_events[e].occurred_at = p.published_at
         /\ contents[publish_events[e].content_id].slug = p.slug
         /\ content_versions[publish_events[e].version_id].fields = p.fields
  BY DEF TruePages, WasPublished
<1>2. e \in DOMAIN publish_events' /\ publish_events'[e] = publish_events[e]
  BY RowsStay
<1>3. /\ publish_events[e].content_id \in DOMAIN contents
      /\ publish_events[e].version_id \in DOMAIN content_versions
  BY DEF Inv, PointersOwned, OwnedBy
<1>4. contents'[publish_events[e].content_id].slug = p.slug
  BY <1>1, <1>3 DEF HistoryKept
<1>5. content_versions'[publish_events[e].version_id].fields = p.fields
  BY <1>1, <1>3, RowsStay
<1>6. p \in [slug : Slug, fields : Fields, published_at : Time, updated_at : Time]
  BY DEF TruePages
<1>7. \E i \in DOMAIN publish_events' :
         /\ publish_events'[i].action = "publish"
         /\ publish_events'[i].occurred_at = p.published_at
         /\ contents'[publish_events'[i].content_id].slug = p.slug
         /\ content_versions'[publish_events'[i].version_id].fields = p.fields
  BY <1>1, <1>2, <1>4, <1>5
<1> QED  BY <1>6, <1>7 DEF TruePages, WasPublished

\* publicSelect joins with the published version only: the row it returns is
\* the one the last event of the document announced.
LEMMA RowWasPublished ==
    ASSUME Inv, NEW c \in Published
    PROVE  PublicRow(c) \in TruePages /\ PublicRow(c).slug = contents[c].slug
<1>1. /\ c \in DOMAIN contents /\ contents[c].published_version_id # NULL
      /\ contents[c] \in ContentRow /\ TypeOK
  BY DEF Published, Inv, TypeOK
<1>2. PICK g \in DOMAIN publish_events : publish_events[g].content_id = c
  BY <1>1 DEF Inv, AuditExplainsPointer
<1>3. PICK e \in DOMAIN publish_events : LastEventOf(e, c)
  BY <1>1, <1>2, LastEventExists
<1>4. /\ publish_events[e].action = "publish"
      /\ publish_events[e].content_id = c
      /\ contents[c].published_version_id = publish_events[e].version_id
      /\ contents[c].published_at = publish_events[e].occurred_at
  BY <1>1, <1>3 DEF Inv, AuditExplainsPointer, LastEventOf
<1>5. publish_events[e].occurred_at \in Time
      /\ publish_events[e].version_id \in DOMAIN content_versions
  <2>1. publish_events \in Seq(EventRow)
    BY <1>1 DEF TypeOK
  <2>2. publish_events[e] \in EventRow
    BY <2>1
  <2> QED  BY <2>2 DEF EventRow, Inv, PointersOwned, OwnedBy
<1>6. content_versions[publish_events[e].version_id].fields \in Fields
  <2>1. content_versions \in Seq(VersionRow)
    BY <1>1 DEF TypeOK
  <2>2. content_versions[publish_events[e].version_id] \in VersionRow
    BY <2>1, <1>5
  <2> QED  BY <2>2 DEF VersionRow
<1> DEFINE p == PublicRow(c)
<1>7. /\ p.slug = contents[c].slug
      /\ p.fields = content_versions[contents[c].published_version_id].fields
      /\ p.published_at = contents[c].published_at
  BY DEF PublicRow
<1>8. p \in [slug : Slug, fields : Fields, published_at : Time, updated_at : Time]
  BY <1>1, <1>4, <1>5, <1>6 DEF PublicRow, ContentRow
<1>9. /\ publish_events[e].occurred_at = p.published_at
      /\ contents[publish_events[e].content_id].slug = p.slug
      /\ content_versions[publish_events[e].version_id].fields = p.fields
  BY <1>4, <1>7
<1> HIDE DEF p
<1>10. p \in TruePages
  BY <1>4, <1>8, <1>9 DEF TruePages, WasPublished
<1> QED  BY <1>7, <1>10 DEF p

-----------------------------------------------------------------------------
(* The invariant. *)

LEMMA PublicInitInv == PublicInit => PublicInv /\ PagesOK
<1> SUFFICES ASSUME PublicInit PROVE PublicInv /\ PagesOK
  OBVIOUS
<1>1. Inv /\ DOMAIN contents = {}
  BY InitInv DEF PublicInit, StoreInit
<1>2. OneRowPerSlug
  BY <1>1 DEF OneRowPerSlug
<1>3. StepOK
  BY DEF StepOK, PublicInit, Idle
<1>4. CacheOK /\ PagesOK
  BY DEF CacheOK, PagesOK, PublicInit, Resource
<1> QED  BY <1>1, <1>2, <1>3, <1>4 DEF PublicInv, PublicInit

\* A request reads the tables and writes none of them.
LEMMA ReadsOnly == Read => UNCHANGED storeVars
  BY DEF Read, GetPage, GetPageNotFound, ListItems, ListTotal, ListLatest,
         SitemapEntries, SitemapLatest, ReadError

\* What TruePages, OneRowPerSlug and Published say depends on the tables only.
LEMMA TablesSame ==
    ASSUME UNCHANGED storeVars, Inv, OneRowPerSlug
    PROVE  /\ Inv' /\ OneRowPerSlug' /\ TruePages' = TruePages /\ Published' = Published
           /\ \A c : PublicRow(c)' = PublicRow(c)
<1>1. Inv'
  BY NextInv
<1>2. OneRowPerSlug'
  BY DEF OneRowPerSlug, storeVars
<1>3. TruePages' = TruePages /\ Published' = Published
  BY DEF TruePages, WasPublished, Published, storeVars
<1>4. \A c : PublicRow(c)' = PublicRow(c)
  BY DEF PublicRow, storeVars
<1> QED  BY <1>1, <1>2, <1>3, <1>4

\* The list and the sitemap are resources of their own.
LEMMA Resources ==
    /\ "list" \in Resource /\ "sitemap" \in Resource
    /\ \A slug \in Slug : slug \in Resource /\ slug \notin {"list", "sitemap"}
<1> QED  BY PublicReadAssumption DEF Resource

\* Respond leaves the other resources alone; it answers 304 only if the tags
\* agree, and otherwise the client takes the body with the tag.
LEMMA RespondIs ==
    ASSUME DOMAIN cache = Resource, doubtful \subseteq Resource, NEW res \in Resource,
           NEW etag, NEW body, NEW current, Respond(res, etag, body, current)
    PROVE  /\ answer'.resource = res /\ answer'.status \in {200, 304}
           /\ DOMAIN cache' = Resource /\ doubtful' \subseteq Resource
           /\ \A r \in Resource \ {res} :
                 cache'[r] = cache[r] /\ (r \in doubtful' <=> r \in doubtful)
           /\ \/ /\ cache[res] # NULL /\ cache[res].etag = etag
                 /\ answer'.status = 304 /\ (cache[res].body = body => answer'.truthful)
                 /\ cache' = cache /\ doubtful' = doubtful
              \/ /\ answer'.status = 200 /\ answer'.truthful
                 /\ cache'[res].etag = etag /\ cache'[res].body = body
                 /\ res \notin doubtful' => body = current
<1>1. CASE /\ cache[res] # NULL /\ cache[res].etag = etag
           /\ Answer(res, 304, cache[res].body = body)
           /\ UNCHANGED <<cache, doubtful>>
  <2> DEFINE fresh == cache[res].body = body
  <2>1. answer' = [resource |-> res, status |-> 304, truthful |-> fresh]
    BY <1>1, Zenon DEF Answer
  <2>2. cache[res].body = body => fresh = TRUE
    OBVIOUS
  <2> HIDE DEF fresh
  <2>3. answer'.resource = res /\ answer'.status = 304
    BY <2>1
  <2>4. fresh = TRUE => answer' = [resource |-> res, status |-> 304, truthful |-> TRUE]
    BY <2>1, Zenon
  <2>5. cache[res].body = body => answer'.truthful
    BY <2>2, <2>4
  <2> QED  BY <1>1, <2>3, <2>5
<1>2. CASE /\ cache' = [cache EXCEPT ![res] = [etag |-> etag, body |-> body]]
           /\ Answer(res, 200, TRUE)
           /\ doubtful' = IF body = current THEN doubtful \ {res} ELSE doubtful \cup {res}
  BY <1>2 DEF Answer
<1> QED  BY <1>1, <1>2 DEF Respond

\* Serving one request at a time: what each step reads was public, what it
\* answers has a status, and what it leaves in the cache was public.
LEMMA ReadStep ==
    ASSUME PublicInv, Read
    PROVE  PublicInv'
<1>0. UNCHANGED storeVars
  BY ReadsOnly
<1>1. Inv' /\ OneRowPerSlug' /\ TruePages' = TruePages
  BY <1>0, TablesSame DEF PublicInv
<1>2. DOMAIN cache = Resource /\ doubtful \subseteq Resource
  BY DEF PublicInv, CacheOK
<1>3. ASSUME NEW slug \in Slug, GetPage(slug)
      PROVE  PublicInv'
  <2>1. PICK c \in Published : contents[c].slug = slug
                /\ Respond(slug, contents[c].updated_at, PublicRow(c), PublicRow(c))
    BY <1>3 DEF GetPage
  <2>2. PublicRow(c) \in TruePages' /\ PublicRow(c).slug = slug
    BY <1>1, <2>1, RowWasPublished DEF PublicInv
  <2>3. StepOK'
    BY <1>1, <1>3 DEF GetPage, StepOK, PublicInv
  <2> DEFINE b == PublicRow(c)
             t == contents[c].updated_at
  <2>4. Respond(slug, t, b, b) /\ b \in TruePages' /\ b.slug = slug
    BY <2>1, <2>2
  <2> HIDE DEF b, t
  <2>5. /\ answer'.status \in {200, 304} /\ doubtful' \subseteq Resource
        /\ DOMAIN cache' = Resource /\ slug \in Resource
        /\ \A r \in Resource \ {slug} : cache'[r] = cache[r]
        /\ cache'[slug] = cache[slug] \/ cache'[slug].body = b
    BY <1>2, <2>4, RespondIs, Resources
  <2>6. CacheOK'
    BY <1>1, <2>4, <2>5, Resources DEF CacheOK, PublicInv
  <2> QED  BY <1>1, <2>3, <2>5, <2>6 DEF PublicInv
<1>4. ASSUME UNCHANGED <<cache, doubtful>>, StepOK',
             answer' = NULL \/ answer'.status \in {200, 304, 404, 500}
      PROVE  PublicInv'
  BY <1>1, <1>4 DEF PublicInv, CacheOK
<1>5. ASSUME NEW slug \in Slug, GetPageNotFound(slug)
      PROVE  PublicInv'
  <2>1. StepOK'
    BY <1>1, <1>5 DEF GetPageNotFound, StepOK, PublicInv
  <2> QED  BY <1>4, <1>5, <2>1 DEF GetPageNotFound, Answer
<1>6. CASE ListItems
  <2>1. ListPublic \subseteq TruePages
    BY RowWasPublished DEF ListPublic, PublicInv
  <2>2. StepOK'
    BY <1>1, <1>6, <2>1 DEF ListItems, StepOK
  <2> QED  BY <1>4, <1>6, <2>2 DEF ListItems
<1>7. CASE ListTotal
  <2> DEFINE n == Cardinality(Published)
  <2>1. step' = [step EXCEPT !.pc = "latest", !.total = n] /\ step.pc = "total"
    BY <1>7 DEF ListTotal
  <2> HIDE DEF n
  <2>2. step' = [pc |-> "latest", items |-> step.items, total |-> n]
    BY <2>1 DEF PublicInv, StepOK
  <2>3. step.items \subseteq TruePages'
    BY <1>1, <2>1 DEF PublicInv, StepOK
  <2> DEFINE S == step.items
  <2>4. step' = [pc |-> "latest", items |-> S, total |-> n] /\ S \subseteq TruePages'
    BY <2>2, <2>3
  <2> HIDE DEF S
  <2>5. StepOK'
    BY <2>4 DEF StepOK
  <2> QED  BY <1>4, <1>7, <2>5 DEF ListTotal
<1>8. CASE SitemapEntries
  <2> DEFINE S == ListSitemapEntries
  <2>1. step' = [pc |-> "sitemap", items |-> S, total |-> 0]
    BY <1>8 DEF SitemapEntries
  <2> HIDE DEF S
  <2>2. StepOK'
    BY <2>1 DEF StepOK
  <2> QED  BY <1>4, <1>8, <2>2 DEF SitemapEntries
<1>9. CASE ListLatest
  <2> DEFINE b == [items |-> step.items, total |-> step.total]
             n == [items |-> ListPublic, total |-> Cardinality(Published)]
             t == LatestPublishedAt
  <2>1. Respond("list", t, b, n) /\ b.items \subseteq TruePages'
    BY <1>1, <1>9 DEF ListLatest, PublicInv, StepOK
  <2>2. StepOK'
    BY <1>9 DEF ListLatest, StepOK, Idle
  <2> HIDE DEF b, n, t
  <2>3. /\ answer'.status \in {200, 304} /\ doubtful' \subseteq Resource
        /\ DOMAIN cache' = Resource
        /\ \A r \in Resource \ {"list"} : cache'[r] = cache[r]
        /\ cache'["list"] = cache["list"] \/ cache'["list"].body = b
    BY <1>2, <2>1, RespondIs, Resources
  <2>4. CacheOK'
    BY <1>1, <2>1, <2>3, Resources DEF CacheOK, PublicInv
  <2> QED  BY <1>1, <2>2, <2>3, <2>4 DEF PublicInv
<1>10. CASE SitemapLatest
  <2> DEFINE t == LatestPublishedAt
             b == step.items
             n == ListSitemapEntries
  <2>1. Respond("sitemap", t, b, n) /\ StepOK'
    BY <1>10 DEF SitemapLatest, StepOK, Idle
  <2> HIDE DEF t, b, n
  <2>2. /\ answer'.status \in {200, 304} /\ doubtful' \subseteq Resource
        /\ DOMAIN cache' = Resource
        /\ \A r \in Resource \ {"sitemap"} : cache'[r] = cache[r]
    BY <1>2, <2>1, RespondIs, Resources
  <2>3. CacheOK'
    BY <1>1, <2>2, Resources DEF CacheOK, PublicInv
  <2> QED  BY <1>1, <2>1, <2>2, <2>3 DEF PublicInv
<1>11. CASE ReadError
  <2>1. StepOK'
    BY <1>11 DEF ReadError, StepOK, Idle
  <2> QED  BY <1>4, <1>11, <2>1 DEF ReadError, Answer
<1> QED
  BY <1>3, <1>5, <1>6, <1>7, <1>8, <1>9, <1>10, <1>11 DEF Read

\* Writers touch neither the request in progress nor the cache; what these
\* hold was public and stays so in the audit trail.
LEMMA WriteStep ==
    ASSUME PublicInv, Write
    PROVE  PublicInv'
<1>1. StoreNext /\ UNCHANGED <<step, cache>> /\ answer' = NULL
  BY StampedStore, QueueFacts DEF Write, PublicInv
<1>2. Inv' /\ HistoryKept
  BY <1>1, NextInv, HistoryStep DEF PublicInv
<1>3. TruePages \subseteq TruePages'
  BY <1>2, PagesKept DEF PublicInv
<1>4. StepOK' /\ CacheOK' /\ doubtful' \subseteq Resource
  BY <1>1, <1>3 DEF PublicInv, StepOK, CacheOK, Write
<1>5. OneRowPerSlug'
  <2>1. ASSUME NEW t \in Time, StampedWrite(t)
        PROVE  OneRowPerSlug'
    BY <2>1, StampedRows DEF PublicInv
  <2>2. ASSUME QueueWrite
        PROVE  OneRowPerSlug'
    BY <2>2, QueueFacts DEF OneRowPerSlug, PublicInv
  <2> QED  BY <2>1, <2>2 DEF Write
<1> QED  BY <1>1, <1>2, <1>4, <1>5 DEF PublicInv

LEMMA PublicNextInv == PublicInv /\ [PublicNext]_publicVars => PublicInv'
<1> SUFFICES ASSUME PublicInv, [PublicNext]_publicVars PROVE PublicInv'
  OBVIOUS
<1>1. CASE UNCHANGED publicVars
  <2>1. UNCHANGED storeVars /\ UNCHANGED <<step, cache, answer, doubtful>>
    BY <1>1 DEF publicVars
  <2>2. Inv' /\ OneRowPerSlug' /\ TruePages' = TruePages
    BY <2>1, TablesSame DEF PublicInv
  <2> QED  BY <2>1, <2>2 DEF PublicInv, StepOK, CacheOK
<1> QED  BY <1>1, ReadStep, WriteStep DEF PublicNext

-----------------------------------------------------------------------------
(* A tag names one rendering of its page. *)

\* Requests: a page enters the cache with the tag of the row it was rendered
\* from, and a slug has one row.
LEMMA PagesRead ==
    ASSUME PublicInv, PagesOK, Read
    PROVE  PagesOK'
<1>0. UNCHANGED storeVars
  BY ReadsOnly
<1>1. /\ Published' = Published /\ contents' = contents
      /\ \A c : PublicRow(c)' = PublicRow(c)
  BY <1>0, TablesSame DEF PublicInv, storeVars
<1>2. DOMAIN cache = Resource /\ doubtful \subseteq Resource
  BY DEF PublicInv, CacheOK
<1>3. ASSUME NEW res \in Resource,
             \A r \in Resource \ {res} :
                cache'[r] = cache[r] /\ (r \in doubtful' <=> r \in doubtful),
             res \in Slug /\ res \notin doubtful' /\ cache'[res] # NULL =>
                \A c \in Published :
                    /\ contents[c].slug = res
                    /\ contents[c].updated_at = cache'[res].etag
                    => cache'[res].body = PublicRow(c)
      PROVE  PagesOK'
  <2> SUFFICES ASSUME NEW slug \in Slug, slug \notin doubtful', cache'[slug] # NULL,
                      NEW c \in Published, contents[c].slug = slug,
                      contents[c].updated_at = cache'[slug].etag
               PROVE  cache'[slug].body = PublicRow(c)
    BY <1>1 DEF PagesOK
  <2>1. CASE slug = res
    BY <1>3, <2>1
  <2>2. CASE slug # res
    BY <1>3, <2>2, Resources DEF PagesOK
  <2> QED  BY <2>1, <2>2
<1>4. ASSUME NEW slug \in Slug, GetPage(slug)
      PROVE  PagesOK'
  <2>1. PICK c \in Published : contents[c].slug = slug
                /\ Respond(slug, contents[c].updated_at, PublicRow(c), PublicRow(c))
    BY <1>4 DEF GetPage
  <2>2. \A d \in Published : contents[d].slug = slug => d = c
    BY <2>1 DEF PublicInv, OneRowPerSlug, Published
  <2> DEFINE b == PublicRow(c)
             t == contents[c].updated_at
  <2>3. Respond(slug, t, b, b) /\ slug \in Resource
    BY <2>1, Resources
  <2> HIDE DEF b, t
  <2>4. /\ \A r \in Resource \ {slug} :
              cache'[r] = cache[r] /\ (r \in doubtful' <=> r \in doubtful)
        /\ \/ cache' = cache /\ doubtful' = doubtful
           \/ cache'[slug].body = b
    BY <1>2, <2>3, RespondIs
  <2>5. CASE cache' = cache /\ doubtful' = doubtful
    BY <1>3, <2>3, <2>5 DEF PagesOK
  <2>6. CASE cache'[slug].body = b
    BY <1>3, <2>2, <2>3, <2>4, <2>6 DEF b
  <2> QED  BY <2>4, <2>5, <2>6
<1>5. CASE ListLatest
  <2> DEFINE b == [items |-> step.items, total |-> step.total]
             n == [items |-> ListPublic, total |-> Cardinality(Published)]
             t == LatestPublishedAt
  <2>1. Respond("list", t, b, n)
    BY <1>5 DEF ListLatest
  <2> HIDE DEF b, n, t
  <2>2. \A r \in Resource \ {"list"} :
           cache'[r] = cache[r] /\ (r \in doubtful' <=> r \in doubtful)
    BY <1>2, <2>1, RespondIs, Resources
  <2> QED  BY <1>3, <2>2, Resources
<1>6. CASE SitemapLatest
  <2> DEFINE t == LatestPublishedAt
             n == ListSitemapEntries
  <2>1. Respond("sitemap", t, step.items, n)
    BY <1>6 DEF SitemapLatest
  <2> HIDE DEF n, t
  <2>2. \A r \in Resource \ {"sitemap"} :
           cache'[r] = cache[r] /\ (r \in doubtful' <=> r \in doubtful)
    BY <1>2, <2>1, RespondIs, Resources
  <2> QED  BY <1>3, <2>2, Resources
<1>7. CASE UNCHANGED <<cache, doubtful>>
  BY <1>1, <1>7 DEF PagesOK
<1> QED
  BY <1>4, <1>5, <1>6, <1>7
  DEF Read, GetPageNotFound, ListItems, ListTotal, SitemapEntries, ReadError

\* A document whose row is not written keeps its public page.
LEMMA RowUnmoved ==
    ASSUME Inv, HistoryKept,
           NEW c \in DOMAIN contents, c \in Published', contents'[c] = contents[c]
    PROVE  c \in Published /\ PublicRow(c)' = PublicRow(c)
<1>1. c \in Published
  BY DEF Published
<1>2. contents[c].published_version_id \in DOMAIN content_versions
  BY <1>1 DEF Inv, PointersOwned, OwnedBy, Published
<1>3. content_versions'[contents[c].published_version_id]
         = content_versions[contents[c].published_version_id]
  BY <1>2 DEF HistoryKept
<1> QED  BY <1>1, <1>3 DEF PublicRow

\* Writes: a row that changes gets a stamp other than the tag of its page, or the
\* page is doubtful from then on.
LEMMA PagesWrite ==
    ASSUME PublicInv, PagesOK, Write
    PROVE  PagesOK'
<1>1. StoreNext /\ Inv /\ UNCHANGED cache
  BY StampedStore, QueueFacts DEF Write, PublicInv
<1>2. HistoryKept
  BY <1>1, HistoryStep
<1> SUFFICES ASSUME NEW slug \in Slug, slug \notin doubtful', cache[slug] # NULL,
                    NEW c \in Published', contents'[c].slug = slug,
                    contents'[c].updated_at = cache[slug].etag
             PROVE  cache[slug].body = PublicRow(c)'
  BY <1>1 DEF PagesOK
<1>3. slug \notin doubtful /\ ~TagBlind(slug)
  BY Resources DEF Write
<1>4. c \in Shown(slug)'
  BY DEF Shown
<1>5. c \notin Moved
  BY <1>3, <1>4 DEF TagBlind
<1>6. c \in DOMAIN contents /\ contents'[c] = contents[c]
  BY <1>5 DEF Moved, Published
<1>7. c \in Published /\ PublicRow(c)' = PublicRow(c)
  BY <1>1, <1>2, <1>6, RowUnmoved
<1>8. cache[slug].body = PublicRow(c)
  BY <1>3, <1>6, <1>7 DEF PagesOK
<1> QED  BY <1>7, <1>8

\* A 304 for a page compares the tag the client holds with the row's.
LEMMA FreshRead ==
    ASSUME PublicInv, PagesOK, Read
    PROVE  PageFresh'
<1> SUFFICES ASSUME answer' # NULL, answer'.resource \in Slug \ doubtful'
             PROVE  answer'.truthful
  BY DEF PageFresh, Fresh
<1>0. DOMAIN cache = Resource /\ doubtful \subseteq Resource
  BY DEF PublicInv, CacheOK
<1>1. ASSUME NEW slug \in Slug, GetPage(slug)
      PROVE  answer'.truthful
  <2>1. PICK c \in Published : contents[c].slug = slug
                /\ Respond(slug, contents[c].updated_at, PublicRow(c), PublicRow(c))
    BY <1>1 DEF GetPage
  <2>2. slug \notin doubtful /\ cache[slug] # NULL
           /\ cache[slug].etag = contents[c].updated_at
           => cache[slug].body = PublicRow(c)
    BY <2>1 DEF PagesOK
  <2> DEFINE b == PublicRow(c)
             t == contents[c].updated_at
  <2>3. Respond(slug, t, b, b) /\ slug \in Resource
    BY <2>1, Resources
  <2>4. slug \notin doubtful /\ cache[slug] # NULL /\ cache[slug].etag = t
           => cache[slug].body = b
    BY <2>2
  <2> HIDE DEF b, t
  <2>5. /\ answer'.resource = slug
        /\ \/ /\ cache[slug] # NULL /\ cache[slug].etag = t
              /\ (cache[slug].body = b => answer'.truthful) /\ doubtful' = doubtful
           \/ answer'.truthful
    BY <1>0, <2>3, RespondIs
  <2> QED  BY <2>4, <2>5
<1>2. ASSUME ListLatest \/ SitemapLatest
      PROVE  FALSE
  <2>1. answer'.resource \in {"list", "sitemap"}
    BY <1>2 DEF ListLatest, SitemapLatest, Respond, Answer
  <2> QED  BY <2>1, Resources
<1> QED
  BY <1>1, <1>2
  DEF Read, GetPageNotFound, ListItems, ListTotal, SitemapEntries, ReadError, Answer

-----------------------------------------------------------------------------
(* The theorems. *)

\* The inductive invariant holds whatever readers and writers do.
THEOREM PublicInvariance == PublicSpec => []PublicInv
<1>1. PublicInit => PublicInv
  BY PublicInitInv
<1> QED  BY <1>1, PublicNextInv, PTL DEF PublicSpec

\* Readers use the database through queries only, and writers through its
\* transactions: everything proved of the store holds with the public side on.
THEOREM ReadersImplementStore == PublicSpec => StoreSpec
<1>1. PublicInit => StoreInit
  BY DEF PublicInit
<1>2. PublicInv /\ [PublicNext]_publicVars => [StoreNext]_storeVars
  <2> SUFFICES ASSUME PublicInv, [PublicNext]_publicVars
               PROVE  StoreNext \/ UNCHANGED storeVars
    OBVIOUS
  <2>1. CASE Write
    BY <2>1, StampedStore, QueueFacts DEF Write, PublicInv
  <2>2. CASE Read
    BY <2>2, ReadsOnly
  <2>3. CASE UNCHANGED publicVars
    BY <2>3 DEF publicVars
  <2> QED  BY <2>1, <2>2, <2>3 DEF PublicNext
<1> QED  BY <1>1, <1>2, PublicInvariance, PTL DEF PublicSpec, StoreSpec

\* Hence the promises of module Publication are kept with the public side on,
\* whatever time stamps the writers carry.
THEOREM PublicKeepsPromises == PublicSpec => ImplementsPublication
<1> QED  BY ReadersImplementStore, StoreImplementsPublication, PTL

\* Drafts never leak: a page or a list of handlePublicGet, handleHTMLPage or
\* handlePublicList holds payloads the audit trail says were published under
\* that slug at that time, however the queries of a request and the writes
\* interleave.
THEOREM DraftsNeverLeak == PublicSpec => []ServedWasPublished
<1>1. PublicInv => ServedWasPublished
  <2> SUFFICES ASSUME PublicInv PROVE ServedWasPublished
    OBVIOUS
  <2>1. \A p \in TruePages : WasPublished(p.slug, p.fields, p.published_at)
    BY DEF TruePages
  <2> QED  BY <2>1 DEF PublicInv, CacheOK, ServedWasPublished
<1> QED  BY <1>1, PublicInvariance, PTL

\* A page answered 304 is unchanged, in whatever order the writers read the clock
\* and commit: contentETag is made of updated_at and of nothing else, and that is
\* enough until a write repeats the very millisecond of the client's tag.
THEOREM PagesRevalidate == PublicSpec => []PageFresh
<1> DEFINE I == PublicInv /\ PagesOK /\ PageFresh
<1>1. PublicInit => I
  BY PublicInitInv DEF PublicInit, PageFresh, Fresh
<1>2. I /\ [PublicNext]_publicVars => I'
  <2> SUFFICES ASSUME PublicInv, PagesOK, PageFresh, [PublicNext]_publicVars
               PROVE  PublicInv' /\ PagesOK' /\ PageFresh'
    OBVIOUS
  <2>1. PublicInv'
    BY PublicNextInv
  <2>2. CASE Read
    BY <2>1, <2>2, PagesRead, FreshRead
  <2>3. CASE Write
    <3>1. PageFresh'
      BY <2>3 DEF Write, PageFresh, Fresh
    <3> QED  BY <2>1, <2>3, <3>1, PagesWrite
  <2>4. CASE UNCHANGED publicVars
    <3>1. UNCHANGED storeVars /\ UNCHANGED <<cache, answer, doubtful>>
      BY <2>4 DEF publicVars
    <3>2. /\ Published' = Published /\ contents' = contents
          /\ \A c : PublicRow(c)' = PublicRow(c)
      BY <3>1, TablesSame DEF PublicInv, storeVars
    <3>3. PagesOK' /\ PageFresh'
      BY <3>1, <3>2 DEF PagesOK, PageFresh, Fresh
    <3> QED  BY <2>1, <3>3
  <2> QED  BY <2>2, <2>3, <2>4 DEF PublicNext
<1> QED  BY <1>1, <1>2, PTL DEF PublicSpec

=============================================================================
