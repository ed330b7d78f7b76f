----------------------------- MODULE PublicRead -----------------------------
(***************************************************************************)
(* The public side of the service: pages, the published list and the       *)
(* sitemap, read by a client that caches what it gets and revalidates it   *)
(* with If-None-Match, while editors and workers write to the store.       *)
(*                                                                         *)
(* A page is one query.  The list is three queries and the sitemap two,    *)
(* each on a connection of the read pool with its own snapshot, so writes  *)
(* may commit in between.                                                  *)
(*                                                                         *)
(* contentETag renders a number of milliseconds injectively, so that the   *)
(* number stands for the tag here.  Lists are sets: their order is a       *)
(* function of the rows, and the page asked for holds them all.            *)
(*                                                                         *)
(* The clock ticks in milliseconds and is read before the wait for the     *)
(* write connection: stamps repeat and need not come in commit order.  A   *)
(* history variable, doubtful, records for whose sake that matters: which  *)
(* cached copies have a tag that cannot tell what was written since.       *)
(***************************************************************************)
EXTENDS Store, FiniteSetsExt

CONSTANT NoIndex    \* the payloads whose noindex flag is set

ASSUME PublicReadAssumption ==
    /\ NoIndex \subseteq Fields
    /\ Time \subseteq Nat
    /\ Slug \cap {"list", "sitemap"} = {}    \* their urls differ from any page's

VARIABLES
    step,     \* the request being served: its program point and what it read
    cache,    \* the client's cache: resource -> [etag, body], NULL if empty
    answer,   \* the answer given by the last step, if it gave one
    doubtful  \* history: the resources whose cached tag cannot tell all news

publicVars == <<storeVars, step, cache, answer, doubtful>>

Resource == Slug \cup {"list", "sitemap"}

Idle == [pc |-> "idle", items |-> {}, total |-> 0]

PublicInit ==
    /\ StoreInit
    /\ step = Idle
    /\ cache = [r \in Resource |-> NULL]
    /\ answer = NULL
    /\ doubtful = {}

-----------------------------------------------------------------------------
(* Queries (store/public.go). *)

\* JOIN content_versions v ON v.id = c.published_version_id.
Published == {c \in DOMAIN contents : contents[c].published_version_id # NULL}

\* Seeded fault: the join follows current_version, the draft.
PublicRow_Draft(c) ==
    LET v == CHOOSE u \in DOMAIN content_versions :
                /\ content_versions[u].content_id = c
                /\ content_versions[u].version = contents[c].current_version
    IN  [slug         |-> contents[c].slug,
         fields       |-> content_versions[v].fields,
         published_at |-> contents[c].published_at,
         updated_at   |-> contents[c].updated_at]

\* One row of publicSelect.
PublicRow(c) ==
    [slug         |-> contents[c].slug,
     fields       |-> content_versions[contents[c].published_version_id].fields,
     published_at |-> contents[c].published_at,
     updated_at   |-> contents[c].updated_at]

ListPublic == {PublicRow(c) : c \in Published}

ListSitemapEntries ==
    {[slug |-> PublicRow(c).slug, lastmod |-> PublicRow(c).published_at] :
        c \in {d \in Published : PublicRow(d).fields \notin NoIndex}}

\* Seeded fault: the time of publication does not move with an edit.
LatestPublishedAt_PublishTime ==
    IF Published = {} THEN 0 ELSE Max({contents[c].published_at : c \in Published})

\* Seeded fault: MAX over no row is NULL.
LatestPublishedAt_Null ==
    IF Published = {} THEN NULL ELSE Max({contents[c].updated_at : c \in Published})

\* MAX(c.updated_at) over the published rows; 0 when there is none.
LatestPublishedAt ==
    IF Published = {} THEN 0 ELSE Max({contents[c].updated_at : c \in Published})

-----------------------------------------------------------------------------
(* Handlers. *)

\* The step answers: truthful says that what the client now holds for the
\* resource is the body the handler has read.
Answer(res, status, truthful) ==
    answer' = [resource |-> res, status |-> status, truthful |-> truthful]

\* serveConditional, then the full response.  The client sends the tag it has
\* cached, or no tag.  What it takes with a 200 is doubtful from the start if it
\* is not what the tag was computed from (current).
Respond(res, etag, body, current) ==
    \/ /\ cache[res] # NULL /\ cache[res].etag = etag
       /\ Answer(res, 304, cache[res].body = body)
       /\ UNCHANGED <<cache, doubtful>>
    \/ /\ cache' = [cache EXCEPT ![res] = [etag |-> etag, body |-> body]]
       /\ Answer(res, 200, TRUE)
       /\ doubtful' = IF body = current THEN doubtful \ {res} ELSE doubtful \cup {res}

\* Seeded fault: the tag is the publish time, the body carries updated_at.
GetPage_PublishTimeTag(slug) ==
    /\ step = Idle
    /\ \E c \in Published :
          /\ contents[c].slug = slug
          /\ Respond(slug, contents[c].published_at, PublicRow(c), PublicRow(c))
    /\ UNCHANGED <<storeVars, step>>

\* handlePublicGet and handleHTMLPage: one query.
GetPage(slug) ==
    /\ step = Idle
    /\ \E c \in Published :
          /\ contents[c].slug = slug
          /\ Respond(slug, contents[c].updated_at, PublicRow(c), PublicRow(c))
    /\ UNCHANGED <<storeVars, step>>

\* An unknown slug and an unpublished document get the same 404.
GetPageNotFound(slug) ==
    /\ step = Idle
    /\ \A c \in Published : contents[c].slug # slug
    /\ Answer(slug, 404, TRUE)
    /\ UNCHANGED <<storeVars, step, cache, doubtful>>

\* handlePublicList: items, then the count, then the validator.
ListItems ==
    /\ step = Idle
    /\ step' = [pc |-> "total", items |-> ListPublic, total |-> 0]
    /\ answer' = NULL
    /\ UNCHANGED <<storeVars, cache, doubtful>>

ListTotal ==
    /\ step.pc = "total"
    /\ step' = [step EXCEPT !.pc = "latest", !.total = Cardinality(Published)]
    /\ answer' = NULL
    /\ UNCHANGED <<storeVars, cache, doubtful>>

ListLatest ==
    /\ step.pc = "latest"
    /\ Respond("list", LatestPublishedAt,
               [items |-> step.items, total |-> step.total],
               [items |-> ListPublic, total |-> Cardinality(Published)])
    /\ step' = Idle
    /\ UNCHANGED storeVars

\* handleSitemap: entries, then the validator.
SitemapEntries ==
    /\ step = Idle
    /\ step' = [pc |-> "sitemap", items |-> ListSitemapEntries, total |-> 0]
    /\ answer' = NULL
    /\ UNCHANGED <<storeVars, cache, doubtful>>

SitemapLatest ==
    /\ step.pc = "sitemap"
    /\ Respond("sitemap", LatestPublishedAt, step.items, ListSitemapEntries)
    /\ step' = Idle
    /\ UNCHANGED storeVars

\* A later query of a request fails: 500, nothing cached.
ReadError ==
    /\ step # Idle
    /\ step' = Idle
    /\ Answer(NULL, 500, TRUE)
    /\ UNCHANGED <<storeVars, cache, doubtful>>

Read ==
    \/ \E slug \in Slug : GetPage(slug) \/ GetPageNotFound(slug)
    \/ ListItems \/ ListTotal \/ ListLatest
    \/ SitemapEntries \/ SitemapLatest
    \/ ReadError

-----------------------------------------------------------------------------
(* Writers.  A stamp is the clock as read before the wait for the write      *)
(* connection, so stamps need not come in commit order.                      *)

StampedWrite(t) ==
    \/ \E id \in ContentId, slug \in Slug, f \in Fields : CreateContent(id, slug, f, t)
    \/ \E c \in ContentId, n \in VersionId, f \in Fields : UpdateContent(c, n, f, t)
    \/ \E c \in ContentId, v \in VersionId : Publish(c, v, t)
    \/ \E c \in ContentId : Unpublish(c, t)
    \/ \E s \in DOMAIN publish_schedules, w \in Worker :
            CompleteScheduledPublish(JobOf(s), w, t)

\* Schedules come and are claimed, at times that do not matter here; readers
\* see nothing of it.
QueueWrite ==
    LET t == Min(Time) IN
        \/ \E s \in ScheduleId, c \in ContentId, v \in VersionId :
                CreateSchedule(s, c, v, t)
        \/ \E w \in Worker, B \in (SUBSET ScheduleId) \ {{}} :
                ClaimDueSchedules(w, t, t, B)

\* The documents a resource shows.
Shown(res) == {c \in Published : res \in Slug => contents[c].slug = res}

\* The documents whose row the step writes.
Moved == {c \in DOMAIN contents' : c \notin DOMAIN contents \/ contents'[c] # contents[c]}

\* The step writes a document that the resource then shows, with a stamp that
\* leaves the cached tag valid: the very millisecond of a page's tag, or one that
\* is not after the maximum that is a list's.
TagBlind(res) ==
    /\ cache[res] # NULL
    /\ \E c \in Shown(res)' \cap Moved :
          IF res \in Slug THEN contents'[c].updated_at = cache[res].etag
                          ELSE contents'[c].updated_at <= cache[res].etag

Write ==
    /\ (\E t \in Time : StampedWrite(t)) \/ QueueWrite
    /\ doubtful' = doubtful \cup {res \in Resource : TagBlind(res)}
    /\ answer' = NULL
    /\ UNCHANGED <<step, cache>>

PublicNext == Read \/ Write

PublicSpec == PublicInit /\ [][PublicNext]_publicVars

\* The quietest case: no write commits inside a request, and stamps grow from
\* write to write.
QuietWrite ==
    /\ step = Idle
    /\ Write
    /\ \A c \in DOMAIN contents, d \in Moved :
          contents[c].updated_at < contents'[d].updated_at

QuietSpec == PublicInit /\ [][Read \/ QuietWrite]_publicVars

-----------------------------------------------------------------------------
(* Properties. *)

\* A tag is a number of milliseconds, also that of an empty list.
PublicTypeOK ==
    /\ TypeOK
    /\ step.pc \in {"idle", "total", "latest", "sitemap"}
    /\ DOMAIN cache = Resource
    /\ \A r \in Resource : cache[r] # NULL => cache[r].etag \in Time \cup {0}
    /\ answer # NULL => answer.status \in {200, 304, 404, 500}
    /\ doubtful \subseteq Resource

\* The step has answered 304 for the resource.
Revalidated(res) == answer # NULL /\ answer.resource = res /\ answer.status = 304

\* 304 for a resource of R is the truth: what the client has cached is what
\* the handler has just read.
Fresh(R) == answer # NULL /\ answer.resource \in R => answer.truthful

\* A page answered 304 is unchanged, unless a write has given its document once
\* more the very millisecond of the client's tag.  Stamps that run backwards, and
\* repeats of any other millisecond, do no harm.
PageFresh == Fresh(Slug \ doubtful)

\* A list answered 304 is unchanged: same documents, same total.
ListFresh == Fresh({"list"})

\* A sitemap answered 304 is unchanged.
SitemapFresh == Fresh({"sitemap"})

\* Some publish event put payload f under this slug at this time.
WasPublished(slug, f, at) ==
    \E e \in DOMAIN publish_events :
        LET ev == publish_events[e] IN
        /\ ev.action = "publish" /\ ev.occurred_at = at
        /\ contents[ev.content_id].slug = slug
        /\ content_versions[ev.version_id].fields = f

\* Drafts never leak: every document in the client's cache, fetched alone or in
\* a list, is one the audit trail says was published under that slug at the
\* time it claims, whatever edits, schedules and unpublishes it races with.
ServedWasPublished ==
    /\ \A slug \in Slug : cache[slug] # NULL =>
          LET b == cache[slug].body IN WasPublished(slug, b.fields, b.published_at)
    /\ cache["list"] # NULL =>
          \A b \in cache["list"].body.items :
              WasPublished(b.slug, b.fields, b.published_at)

\* What a 304 for the list does say.  The client's copy misses nothing and shows
\* nothing outdated: all that can be wrong with it is that documents withdrawn
\* since are still in it, and then its total is no longer the current one.
ListShowsAllNews ==
    Revalidated("list") /\ "list" \notin doubtful =>
        LET b == cache["list"].body IN
        /\ ListPublic \subseteq b.items
        /\ \A p \in b.items \ ListPublic, c \in Published : contents[c].slug # p.slug
        /\ b.total = Cardinality(Published) => b.items = ListPublic

\* What a 304 for the sitemap does say: the client's copy has every document,
\* with the time of its last publication.
SitemapShowsAllNews ==
    Revalidated("sitemap") /\ "sitemap" \notin doubtful =>
        ListSitemapEntries \subseteq cache["sitemap"].body

\* Whatever queries and writes interleave, and in whatever order stamps come, a
\* 304 for a list hides nothing that was published or edited.  Two things may
\* spoil that, and no other: the copy was torn when it was taken, its items older
\* than its tag; or a document was written with a stamp not after the tag.
NothingMissed == ListShowsAllNews /\ SitemapShowsAllNews

=============================================================================
