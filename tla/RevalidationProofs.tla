------------------------- MODULE RevalidationProofs -------------------------
(***************************************************************************)
(* What a 304 for the list or for the sitemap does say.                    *)
(*                                                                         *)
(* It does not say that the list is unchanged (ListFresh is false).  But   *)
(* nothing that is public is missing or outdated in what the client holds, *)
(* and a stale list betrays itself by its total, in every interleaving of  *)
(* queries and writes and in whatever order stamps come (PublicSpec),      *)
(* unless the copy is doubtful: torn when it was taken, or followed by a   *)
(* write to a public document with a stamp not above its tag.              *)
(*                                                                         *)
(* The argument: a public row that has changed since the client's copy was *)
(* made carries a stamp above the client's tag, and the tag the handler    *)
(* computes is at least as high (ListBehind).  So if the tags agree, every *)
(* public row is one that has not moved, and it is in the copy.  Rows have *)
(* different slugs, so that the copy has more documents than the list only *)
(* if its total is greater.                                                *)
(***************************************************************************)
EXTENDS PublicReadProofs, FiniteSetTheorems

\* A list has every document at most once, and its total counts it.
Tallied(items, total) ==
    /\ IsFiniteSet(items) /\ total = Cardinality(items)
    /\ \A p, q \in items : p.slug = q.slug => p = q

\* The client's list has every public row that is not newer than its tag.
ListBehind ==
    cache["list"] # NULL /\ "list" \notin doubtful =>
        /\ Tallied(cache["list"].body.items, cache["list"].body.total)
        /\ \A c \in Published :
              contents[c].updated_at <= cache["list"].etag
                => PublicRow(c) \in cache["list"].body.items

\* The entry of a page in the sitemap.
EntryOf(p) == [slug |-> p.slug, lastmod |-> p.published_at]

\* So has the client's sitemap.
SitemapBehind ==
    cache["sitemap"] # NULL /\ "sitemap" \notin doubtful =>
        \A c \in Published :
            /\ contents[c].updated_at <= cache["sitemap"].etag
            /\ PublicRow(c).fields \notin NoIndex
            => EntryOf(PublicRow(c)) \in cache["sitemap"].body

\* A tag is a stamp some row has had, or 0.
TagsAreTimes == \A r \in Resource : cache[r] # NULL => cache[r].etag \in Time \cup {0}

\* A 304 has compared the client's tag with the current one.
TagsCompared ==
    \A res \in {"list", "sitemap"} :
        Revalidated(res) => cache[res] # NULL /\ cache[res].etag = LatestPublishedAt

\* There are finitely many documents, and so one that changed last.
Finitely ==
    /\ IsFiniteSet(DOMAIN contents)
    /\ \E m \in Nat : \A c \in DOMAIN contents : contents[c].updated_at <= m

ListsInv ==
    PublicInv /\ Finitely /\ TagsAreTimes /\ ListBehind /\ SitemapBehind /\ TagsCompared

-----------------------------------------------------------------------------
(* The queries, in a state of the database. *)

\* A bounded set of numbers has a greatest one.
LEMMA MaxIs ==
    ASSUME NEW S \in SUBSET Nat, S # {}, NEW m \in Nat, \A s \in S : s <= m
    PROVE  Max(S) \in S /\ \A s \in S : s <= Max(S)
<1> DEFINE U == {n \in Nat : \A s \in S : s <= n}
<1>1. U # {} /\ U \subseteq Nat
  BY DEF U
<1>2. \E n \in U : \A k \in U : ~(<<k, n>> \in OpToRel(<, Nat))
  <2> HIDE DEF U
  <2> QED  BY <1>1, WFMin, NatLessThanWellFounded, Zenon
<1>3. PICK n \in U : \A k \in U : ~(<<k, n>> \in OpToRel(<, Nat))
  BY <1>2
<1>4. \A k \in U : ~(k < n)
  BY <1>1, <1>3 DEF OpToRel
<1>5. n \in S
  <2> SUFFICES ASSUME n \notin S PROVE FALSE
    OBVIOUS
  <2>1. n \in Nat /\ \A s \in S : s \in Nat /\ s <= n /\ s # n
    OBVIOUS
  <2>2. PICK s \in S : TRUE
    OBVIOUS
  <2>3. n - 1 \in Nat /\ \A r \in S : r <= n - 1
    BY <2>1, <2>2
  <2>4. n - 1 \in U
    BY <2>3
  <2> QED  BY <1>4, <2>1, <2>4
<1>6. \E x \in S : \A s \in S : x >= s
  BY <1>5
<1>7. Max(S) \in S /\ \A s \in S : Max(S) >= s
  BY <1>6 DEF Max
<1> QED  BY <1>7

\* LatestPublishedAt is a stamp, or 0, and no public row is newer.
LEMMA LatestIs ==
    ASSUME Inv, Finitely
    PROVE  /\ LatestPublishedAt \in Time \cup {0}
           /\ \A c \in Published : contents[c].updated_at <= LatestPublishedAt
<1> DEFINE S == {contents[c].updated_at : c \in Published}
<1>1. CASE Published = {}
  BY <1>1 DEF LatestPublishedAt
<1>2. CASE Published # {}
  <2>1. S \subseteq Time /\ S # {}
    BY <1>2 DEF Inv, TypeOK, ContentRow, Published
  <2>2. S \in SUBSET Nat
    BY <2>1, PublicReadAssumption
  <2>3. PICK m \in Nat : \A s \in S : s <= m
    BY DEF Finitely, Published
  <2> HIDE DEF S
  <2>4. Max(S) \in S /\ \A s \in S : s <= Max(S)
    BY <2>1, <2>2, <2>3, MaxIs
  <2>5. LatestPublishedAt = Max(S)
    BY <1>2 DEF LatestPublishedAt, S
  <2> QED  BY <2>1, <2>4, <2>5 DEF S
<1> QED  BY <1>1, <1>2

\* ListPublic has a row per public document, under a slug of its own.
LEMMA ListTallied ==
    ASSUME Inv, OneRowPerSlug, Finitely
    PROVE  Tallied(ListPublic, Cardinality(Published)) /\ IsFiniteSet(Published)
<1>1. IsFiniteSet(Published)
  <2>1. Published \in SUBSET DOMAIN contents
    BY DEF Published
  <2> QED  BY <2>1, FS_Subset DEF Finitely
<1>2. \A c \in Published : PublicRow(c).slug = contents[c].slug
  BY DEF PublicRow
<1>3. \A c, d \in Published : PublicRow(c).slug = PublicRow(d).slug => c = d
  BY <1>2 DEF OneRowPerSlug, Published
<1> DEFINE f == [c \in Published |-> PublicRow(c)]
<1>4. f \in Bijection(Published, ListPublic)
  <2>1. f \in [Published -> ListPublic]
    BY DEF ListPublic
  <2>2. \A c, d \in Published : f[c] = f[d] => c = d
    <3>1. \A c \in Published : f[c] = PublicRow(c)
      OBVIOUS
    <3> HIDE DEF f
    <3> QED  BY <1>3, <3>1
  <2>3. \A p \in ListPublic : \E c \in Published : f[c] = p
    BY DEF ListPublic
  <2> HIDE DEF f
  <2> QED  BY <2>1, <2>2, <2>3 DEF Bijection, Injection, Surjection, IsInjective
<1>5. IsFiniteSet(ListPublic) /\ Cardinality(ListPublic) = Cardinality(Published)
  BY <1>1, <1>4, FS_Bijection DEF ExistsBijection
<1>6. \A p, q \in ListPublic : p.slug = q.slug => p = q
  BY <1>3 DEF ListPublic
<1> QED  BY <1>1, <1>5, <1>6 DEF Tallied

\* The queries read nothing but the tables.
LEMMA QueriesSame ==
    ASSUME Inv, OneRowPerSlug, Finitely, UNCHANGED storeVars
    PROVE  /\ Published' = Published /\ contents' = contents /\ Finitely'
           /\ LatestPublishedAt' = LatestPublishedAt
           /\ \A c : PublicRow(c)' = PublicRow(c)
<1>1. /\ Published' = Published /\ contents' = contents
      /\ \A c : PublicRow(c)' = PublicRow(c)
  BY TablesSame DEF storeVars
<1>2. LatestPublishedAt' = LatestPublishedAt
  BY <1>1 DEF LatestPublishedAt
<1>3. Finitely'
  BY <1>1 DEF Finitely
<1> QED  BY <1>1, <1>2, <1>3

-----------------------------------------------------------------------------
(* Requests. *)

\* What the client has stays as good as it was while no table changes.
LEMMA CopiesStay ==
    ASSUME ListsInv, UNCHANGED storeVars
    PROVE  /\ /\ cache'["list"] = cache["list"]
              /\ "list" \in doubtful' <=> "list" \in doubtful
              => ListBehind'
           /\ /\ cache'["sitemap"] = cache["sitemap"]
              /\ "sitemap" \in doubtful' <=> "sitemap" \in doubtful
              => SitemapBehind'
<1>1. /\ Published' = Published /\ contents' = contents
      /\ \A c : PublicRow(c)' = PublicRow(c)
  BY QueriesSame DEF ListsInv, PublicInv
<1>2. ASSUME cache'["list"] = cache["list"], "list" \in doubtful' <=> "list" \in doubtful
      PROVE  ListBehind'
  <2>1. ListBehind
    BY DEF ListsInv
  <2> QED  BY <1>1, <1>2, <2>1 DEF ListBehind, Tallied
<1>3. ASSUME cache'["sitemap"] = cache["sitemap"],
             "sitemap" \in doubtful' <=> "sitemap" \in doubtful
      PROVE  SitemapBehind'
  <2>1. SitemapBehind
    BY DEF ListsInv
  <2> QED  BY <1>1, <1>3, <2>1 DEF SitemapBehind, EntryOf
<1> QED  BY <1>2, <1>3

\* The last query of a list request.
LEMMA ListLatestStep ==
    ASSUME ListsInv, ListLatest
    PROVE  TagsAreTimes' /\ ListBehind' /\ SitemapBehind' /\ TagsCompared'
<1>1. UNCHANGED storeVars /\ DOMAIN cache = Resource /\ doubtful \subseteq Resource
  BY DEF ListLatest, ListsInv, PublicInv, CacheOK
<1>2. /\ Published' = Published /\ contents' = contents
      /\ LatestPublishedAt' = LatestPublishedAt
      /\ \A c : PublicRow(c)' = PublicRow(c)
  BY <1>1, QueriesSame DEF ListsInv, PublicInv
<1> DEFINE e == LatestPublishedAt
           b == [items |-> step.items, total |-> step.total]
           n == [items |-> ListPublic, total |-> Cardinality(Published)]
<1>3. Respond("list", e, b, n)
  BY DEF ListLatest
<1>4. /\ e \in Time \cup {0} /\ e = LatestPublishedAt'
      /\ Tallied(n.items, n.total)
      /\ \A c \in Published : PublicRow(c) \in n.items
  BY <1>2, LatestIs, ListTallied DEF ListsInv, PublicInv, ListPublic
<1> HIDE DEF e, b, n
<1>5. /\ answer'.resource = "list"
      /\ \A r \in Resource \ {"list"} :
            cache'[r] = cache[r] /\ (r \in doubtful' <=> r \in doubtful)
      /\ \/ /\ cache["list"] # NULL /\ cache["list"].etag = e
            /\ cache' = cache /\ doubtful' = doubtful
         \/ /\ answer'.status = 200
            /\ cache'["list"].etag = e /\ cache'["list"].body = b
            /\ "list" \notin doubtful' => b = n
  BY <1>1, <1>3, RespondIs, Resources
<1>6. TagsAreTimes'
  BY <1>4, <1>5, Resources DEF TagsAreTimes, ListsInv
<1>7. SitemapBehind'
  BY <1>1, <1>5, CopiesStay, Resources
<1>8. ListBehind'
  <2>1. CASE cache' = cache /\ doubtful' = doubtful
    BY <1>1, <2>1, CopiesStay
  <2>2. CASE cache'["list"].body = b /\ ("list" \notin doubtful' => b = n)
    BY <1>2, <1>4, <2>2 DEF ListBehind, Tallied
  <2> QED  BY <1>5, <2>1, <2>2
<1>9. TagsCompared'
  BY <1>4, <1>5 DEF TagsCompared, Revalidated
<1> QED  BY <1>6, <1>7, <1>8, <1>9

\* The last query of a sitemap request.
LEMMA SitemapLatestStep ==
    ASSUME ListsInv, SitemapLatest
    PROVE  TagsAreTimes' /\ ListBehind' /\ SitemapBehind' /\ TagsCompared'
<1>1. UNCHANGED storeVars /\ DOMAIN cache = Resource /\ doubtful \subseteq Resource
  BY DEF SitemapLatest, ListsInv, PublicInv, CacheOK
<1>2. /\ Published' = Published /\ contents' = contents
      /\ LatestPublishedAt' = LatestPublishedAt
      /\ \A c : PublicRow(c)' = PublicRow(c)
  BY <1>1, QueriesSame DEF ListsInv, PublicInv
<1> DEFINE e == LatestPublishedAt
           b == step.items
           n == ListSitemapEntries
<1>3. Respond("sitemap", e, b, n)
  BY DEF SitemapLatest
<1>4. /\ e \in Time \cup {0} /\ e = LatestPublishedAt'
      /\ \A c \in Published : PublicRow(c).fields \notin NoIndex
                                 => EntryOf(PublicRow(c)) \in n
  BY <1>2, LatestIs DEF ListsInv, PublicInv, ListSitemapEntries, EntryOf
<1> HIDE DEF e, b, n
<1>5. /\ answer'.resource = "sitemap"
      /\ \A r \in Resource \ {"sitemap"} :
            cache'[r] = cache[r] /\ (r \in doubtful' <=> r \in doubtful)
      /\ \/ /\ cache["sitemap"] # NULL /\ cache["sitemap"].etag = e
            /\ cache' = cache /\ doubtful' = doubtful
         \/ /\ answer'.status = 200
            /\ cache'["sitemap"].etag = e /\ cache'["sitemap"].body = b
            /\ "sitemap" \notin doubtful' => b = n
  BY <1>1, <1>3, RespondIs, Resources
<1>6. TagsAreTimes'
  BY <1>4, <1>5, Resources DEF TagsAreTimes, ListsInv
<1>7. ListBehind'
  BY <1>1, <1>5, CopiesStay, Resources
<1>8. SitemapBehind'
  <2>1. CASE cache' = cache /\ doubtful' = doubtful
    BY <1>1, <2>1, CopiesStay
  <2>2. CASE cache'["sitemap"].body = b /\ ("sitemap" \notin doubtful' => b = n)
    BY <1>2, <1>4, <2>2 DEF SitemapBehind, EntryOf
  <2> QED  BY <1>5, <2>1, <2>2
<1>9. TagsCompared'
  BY <1>4, <1>5 DEF TagsCompared, Revalidated
<1> QED  BY <1>6, <1>7, <1>8, <1>9

\* The other queries, and the pages.
LEMMA OtherReads ==
    ASSUME ListsInv, Read, ~ListLatest, ~SitemapLatest
    PROVE  TagsAreTimes' /\ ListBehind' /\ SitemapBehind' /\ TagsCompared'
<1>1. UNCHANGED storeVars /\ DOMAIN cache = Resource /\ doubtful \subseteq Resource
  BY ReadsOnly DEF ListsInv, PublicInv, CacheOK
<1>2. CASE \E slug \in Slug : GetPage(slug)
  <2>1. PICK slug \in Slug : GetPage(slug)
    BY <1>2
  <2>2. PICK c \in Published :
            Respond(slug, contents[c].updated_at, PublicRow(c), PublicRow(c))
    BY <2>1 DEF GetPage
  <2> DEFINE t == contents[c].updated_at
             b == PublicRow(c)
  <2>3. Respond(slug, t, b, b) /\ t \in Time
    BY <2>2 DEF ListsInv, PublicInv, Inv, TypeOK, ContentRow, Published
  <2> HIDE DEF t, b
  <2>4. /\ answer'.resource = slug
        /\ \A r \in Resource \ {slug} :
              cache'[r] = cache[r] /\ (r \in doubtful' <=> r \in doubtful)
        /\ cache' = cache \/ cache'[slug].etag = t
    BY <1>1, <2>3, RespondIs, Resources
  <2>5. TagsAreTimes'
    BY <2>3, <2>4 DEF TagsAreTimes, ListsInv
  <2>6. TagsCompared'
    BY <2>4, Resources DEF TagsCompared, Revalidated
  <2> QED  BY <1>1, <2>4, <2>5, <2>6, CopiesStay, Resources
<1>3. ASSUME UNCHANGED <<cache, doubtful>>, answer' = NULL \/ answer'.status # 304
      PROVE  TagsAreTimes' /\ ListBehind' /\ SitemapBehind' /\ TagsCompared'
  BY <1>1, <1>3, CopiesStay DEF ListsInv, TagsAreTimes, TagsCompared, Revalidated
<1> QED
  BY <1>2, <1>3
  DEF Read, GetPageNotFound, ListItems, ListTotal, SitemapEntries, ReadError, Answer

-----------------------------------------------------------------------------
(* Writes. *)

\* A public row that moves carries a stamp above the tag of a list that is not
\* doubtful: those at or below the tag have not moved, and keep their page.
LEMMA RowsBehind ==
    ASSUME PublicInv, Write, NEW res \in {"list", "sitemap"}, res \notin doubtful',
           cache[res] # NULL,
           NEW c \in Published', contents'[c].updated_at <= cache[res].etag
    PROVE  /\ res \notin doubtful
           /\ c \in Published /\ contents'[c] = contents[c]
           /\ PublicRow(c)' = PublicRow(c)
<1>1. StoreNext /\ Inv
  BY StampedStore, QueueFacts DEF Write, PublicInv
<1>2. HistoryKept
  BY <1>1, HistoryStep
<1>3. res \notin doubtful /\ ~TagBlind(res) /\ res \notin Slug
  BY Resources DEF Write
<1>4. c \in Shown(res)'
  BY <1>3 DEF Shown
<1>5. c \notin Moved
  BY <1>3, <1>4 DEF TagBlind
<1>6. c \in DOMAIN contents /\ contents'[c] = contents[c]
  BY <1>5 DEF Moved, Published
<1> QED  BY <1>1, <1>2, <1>3, <1>6, RowUnmoved

\* There is one document more at most, and one reading of the clock.
LEMMA FinitelyStays ==
    ASSUME PublicInv, Finitely, Write
    PROVE  Finitely'
<1>1. StoreNext /\ Inv
  BY StampedStore, QueueFacts DEF Write, PublicInv
<1>2. IsFiniteSet(DOMAIN contents')
  <2>1. PICK id : DOMAIN contents' \subseteq DOMAIN contents \cup {id}
    BY <1>1, OneNewDocument
  <2>2. IsFiniteSet(DOMAIN contents \cup {id})
    BY FS_AddElement DEF Finitely
  <2> QED  BY <2>1, <2>2, FS_Subset
<1>3. PICK m \in Nat : \A c \in DOMAIN contents : contents[c].updated_at <= m
  BY DEF Finitely
<1>4. CASE QueueWrite
  BY <1>2, <1>3, <1>4, QueueFacts DEF Finitely, PublicInv
<1>5. ASSUME NEW t \in Time, StampedWrite(t)
      PROVE  Finitely'
  <2>1. t \in Nat /\ m + t \in Nat /\ m <= m + t /\ t <= m + t
    BY PublicReadAssumption
  <2>2. \A c \in DOMAIN contents : contents[c].updated_at \in Nat
    BY <1>1, PublicReadAssumption DEF Inv, TypeOK, ContentRow
  <2>3. \A c \in DOMAIN contents' :
           \/ c \in DOMAIN contents /\ contents'[c] = contents[c]
           \/ contents'[c].updated_at = t
    BY <1>5, StampedRows DEF PublicInv
  <2>4. \A c \in DOMAIN contents' : contents'[c].updated_at <= m + t
    BY <1>3, <2>1, <2>2, <2>3
  <2> QED  BY <1>2, <2>1, <2>4 DEF Finitely
<1> QED  BY <1>4, <1>5 DEF Write

\* Writers leave the invariant true.
LEMMA ListsWrite ==
    ASSUME ListsInv, Write
    PROVE  ListsInv'
<1>1. PublicInv' /\ Finitely' /\ UNCHANGED cache /\ answer' = NULL
  BY WriteStep, FinitelyStays DEF ListsInv, Write
<1>2. ListBehind'
  <2> SUFFICES ASSUME cache["list"] # NULL, "list" \notin doubtful'
               PROVE  /\ Tallied(cache["list"].body.items, cache["list"].body.total)
                      /\ \A c \in Published' :
                            contents'[c].updated_at <= cache["list"].etag
                              => PublicRow(c)' \in cache["list"].body.items
    BY <1>1 DEF ListBehind, Tallied
  <2>1. "list" \notin doubtful
    BY DEF Write
  <2>2. /\ Tallied(cache["list"].body.items, cache["list"].body.total)
        /\ \A c \in Published :
              contents[c].updated_at <= cache["list"].etag
                => PublicRow(c) \in cache["list"].body.items
    BY <2>1 DEF ListsInv, ListBehind
  <2>3. ASSUME NEW c \in Published', contents'[c].updated_at <= cache["list"].etag
        PROVE  PublicRow(c)' \in cache["list"].body.items
    BY <2>2, <2>3, RowsBehind DEF ListsInv
  <2> QED  BY <2>2, <2>3
<1>3. SitemapBehind'
  <2> SUFFICES ASSUME cache["sitemap"] # NULL, "sitemap" \notin doubtful',
                      NEW c \in Published',
                      contents'[c].updated_at <= cache["sitemap"].etag,
                      PublicRow(c)'.fields \notin NoIndex
               PROVE  EntryOf(PublicRow(c)') \in cache["sitemap"].body
    BY <1>1 DEF SitemapBehind, EntryOf
  <2>1. /\ "sitemap" \notin doubtful /\ c \in Published
        /\ contents'[c] = contents[c] /\ PublicRow(c)' = PublicRow(c)
    BY RowsBehind DEF ListsInv
  <2> QED  BY <2>1 DEF ListsInv, SitemapBehind
<1>4. TagsAreTimes' /\ TagsCompared'
  BY <1>1 DEF ListsInv, TagsAreTimes, TagsCompared, Revalidated
<1> QED  BY <1>1, <1>2, <1>3, <1>4 DEF ListsInv

-----------------------------------------------------------------------------
(* The theorems. *)

LEMMA ListsInitInv == PublicInit => ListsInv
<1> SUFFICES ASSUME PublicInit PROVE ListsInv
  OBVIOUS
<1>1. PublicInv
  BY PublicInitInv
<1>2. answer = NULL /\ DOMAIN contents = {}
  BY InitInv DEF PublicInit, StoreInit
<1>3. \A r \in Resource : cache[r] = NULL
  BY DEF PublicInit
<1>4. Finitely
  <2>1. 0 \in Nat
    OBVIOUS
  <2> QED  BY <1>2, <2>1, FS_EmptySet DEF Finitely
<1> QED
  BY <1>1, <1>2, <1>3, <1>4, Resources
  DEF ListsInv, TagsAreTimes, ListBehind, SitemapBehind, TagsCompared, Revalidated

LEMMA ListsNextInv == ListsInv /\ [PublicNext]_publicVars => ListsInv'
<1> SUFFICES ASSUME ListsInv, [PublicNext]_publicVars PROVE ListsInv'
  OBVIOUS
<1>1. PublicInv'
  BY PublicNextInv DEF ListsInv
<1>2. CASE Read
  <2>1. Finitely'
    BY <1>2, ReadsOnly, QueriesSame DEF ListsInv, PublicInv
  <2>2. TagsAreTimes' /\ ListBehind' /\ SitemapBehind' /\ TagsCompared'
    BY <1>2, ListLatestStep, SitemapLatestStep, OtherReads
  <2> QED  BY <1>1, <2>1, <2>2 DEF ListsInv
<1>3. CASE UNCHANGED publicVars
  <2>1. UNCHANGED storeVars /\ UNCHANGED <<step, cache, answer, doubtful>>
    BY <1>3 DEF publicVars
  <2>2. Finitely' /\ LatestPublishedAt' = LatestPublishedAt
    BY <2>1, QueriesSame DEF ListsInv, PublicInv
  <2>3. ListBehind' /\ SitemapBehind'
    BY <2>1, CopiesStay
  <2>4. TagsAreTimes' /\ TagsCompared'
    BY <2>1, <2>2 DEF ListsInv, TagsAreTimes, TagsCompared, Revalidated
  <2> QED  BY <1>1, <2>2, <2>3, <2>4 DEF ListsInv
<1> QED  BY <1>2, <1>3, ListsWrite DEF PublicNext

\* The inductive invariant holds whatever readers and writers do.
THEOREM ListsInvariance == PublicSpec => []ListsInv
<1> QED  BY ListsInitInv, ListsNextInv, PTL DEF PublicSpec

\* The public handlers keep their types, answer 200, 304, 404 or 500, and their
\* tags are numbers of milliseconds, also the tag of an empty list.
THEOREM PublicTypeCorrect == PublicSpec => []PublicTypeOK
<1>1. ListsInv => PublicTypeOK
  BY DEF ListsInv, PublicInv, Inv, StepOK, CacheOK, TagsAreTimes, PublicTypeOK
<1> QED  BY <1>1, ListsInvariance, PTL

\* What a 304 of handlePublicList or handleSitemap is worth: the client's copy has
\* every public document as it is now (ListShowsAllNews), with the time of its last
\* publication (SitemapShowsAllNews).  The list may have withdrawn documents too,
\* and exactly then its total is not the current one: a tag made of MAX(updated_at)
\* and the count would be a validator.
THEOREM NewsTold == PublicSpec => []NothingMissed
<1>1. ListsInv => ListShowsAllNews
  <2> SUFFICES ASSUME ListsInv, Revalidated("list"), "list" \notin doubtful
               PROVE  LET b == cache["list"].body IN
                      /\ ListPublic \subseteq b.items
                      /\ \A p \in b.items \ ListPublic, c \in Published :
                            contents[c].slug # p.slug
                      /\ b.total = Cardinality(Published) => b.items = ListPublic
    BY DEF ListShowsAllNews
  <2> DEFINE b == cache["list"].body
  <2>1. /\ cache["list"] # NULL /\ cache["list"].etag = LatestPublishedAt
        /\ OneRowPerSlug /\ Finitely /\ Inv
    BY DEF ListsInv, TagsCompared, PublicInv
  <2>2. \A c \in Published : contents[c].updated_at <= cache["list"].etag
    BY <2>1, LatestIs
  <2>3. /\ \A c \in Published : PublicRow(c) \in b.items
        /\ Tallied(b.items, b.total)
    BY <2>1, <2>2 DEF ListsInv, ListBehind
  <2> HIDE DEF b
  <2>4. ListPublic \subseteq b.items
    BY <2>3 DEF ListPublic
  <2>5. ASSUME NEW p \in b.items \ ListPublic, NEW c \in Published, contents[c].slug = p.slug
        PROVE  FALSE
    <3>1. PublicRow(c) \in b.items /\ PublicRow(c) \in ListPublic
          /\ PublicRow(c).slug = contents[c].slug
      BY <2>3 DEF PublicRow, ListPublic
    <3> DEFINE q == PublicRow(c)
    <3> HIDE DEF q
    <3>2. q \in b.items /\ q \in ListPublic /\ q.slug = p.slug
      BY <2>5, <3>1 DEF q
    <3> QED  BY <2>3, <2>5, <3>2 DEF Tallied
  <2>6. ASSUME b.total = Cardinality(Published)
        PROVE  b.items = ListPublic
    <3>1. Cardinality(ListPublic) = Cardinality(b.items)
      BY <2>1, <2>3, <2>6, ListTallied DEF Tallied
    <3>2. IsFiniteSet(b.items) /\ ListPublic \in SUBSET b.items
      BY <2>3, <2>4 DEF Tallied
    <3> QED  BY <3>1, <3>2, FS_Subset
  <2> QED  BY <2>4, <2>5, <2>6 DEF b
<1>2. ListsInv => SitemapShowsAllNews
  <2> SUFFICES ASSUME ListsInv, Revalidated("sitemap"), "sitemap" \notin doubtful,
                      NEW x \in ListSitemapEntries
               PROVE  x \in cache["sitemap"].body
    BY DEF SitemapShowsAllNews
  <2>1. /\ cache["sitemap"] # NULL /\ cache["sitemap"].etag = LatestPublishedAt
        /\ Inv /\ Finitely
    BY DEF ListsInv, TagsCompared, PublicInv
  <2>2. PICK c \in Published : PublicRow(c).fields \notin NoIndex
                             /\ x = EntryOf(PublicRow(c))
    BY DEF ListSitemapEntries, EntryOf
  <2>3. contents[c].updated_at <= cache["sitemap"].etag
    BY <2>1, LatestIs
  <2> QED  BY <2>1, <2>2, <2>3 DEF ListsInv, SitemapBehind
<1>3. ListsInv => NothingMissed
  BY <1>1, <1>2 DEF NothingMissed
<1> QED  BY <1>3, ListsInvariance, PTL

=============================================================================
