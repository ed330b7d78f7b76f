------------------------------ MODULE Listings ------------------------------
(***************************************************************************)
(* The paged lists: GET /api/v1/contents, /contents/{id}/versions and      *)
(* /public/v1/contents (admin.go, public.go), and a client that walks one  *)
(* of them page by page while everybody else keeps writing.                *)
(*                                                                         *)
(* A page is a query of its own with LIMIT and OFFSET, so rows that appear *)
(* in front of the offset push others along, and rows that disappear pull  *)
(* them back.  The total is another query.  The client asks for the next   *)
(* offset until it has reached the total; the history reports the length   *)
(* of the page as its total, so there it asks until a page is not full.    *)
(*                                                                         *)
(* What a page holds matters here, not how it is ordered: a page is the    *)
(* set of rows whose place under ORDER BY falls into it.                   *)
(*                                                                         *)
(* Time stamps of writers are arbitrary: a document may be committed with  *)
(* a created_at older than that of documents listed before.                *)
(***************************************************************************)
EXTENDS Store

CONSTANTS
    DefaultLimit,   \* defaultLimit
    MaxLimit        \* maxLimit

ASSUME ListingsAssumption ==
    /\ MaxLimit \in Nat /\ DefaultLimit \in 1 .. MaxLimit
    /\ ContentId \subseteq Int    \* ids are compared, as text, by ORDER BY

VARIABLES
    created_at,   \* contents.created_at, by id
    walk          \* the walk of the client, NULL before it starts

listVars == <<created_at, walk>>
listingVars == <<storeVars, listVars>>

ListingsInit ==
    /\ StoreInit
    /\ created_at = [c \in {} |-> NULL]
    /\ walk = NULL

-----------------------------------------------------------------------------
(* Queries. *)

\* parsePagination of the raw limit and offset, NULL where a parameter is
\* missing; NULL as a result is the 400.
ParsePagination(limit, offset) ==
    IF /\ limit \in 1 .. MaxLimit \cup {NULL}
       /\ offset \in Nat \cup {NULL}
    THEN [limit  |-> IF limit = NULL THEN DefaultLimit ELSE limit,
          offset |-> IF offset = NULL THEN 0 ELSE offset]
    ELSE NULL

\* Seeded fault: one row too many.
Page_OneMore(ahead, limit, offset) ==
    {r \in DOMAIN ahead : Cardinality(ahead[r]) \in offset .. (offset + limit)}

\* LIMIT limit OFFSET offset: ahead[r] are the rows that ORDER BY puts in front
\* of row r, so their number is the place of r, counted from 0.
Page(ahead, limit, offset) ==
    {r \in DOMAIN ahead : Cardinality(ahead[r]) \in offset .. (offset + limit - 1)}

\* a comes before b under ORDER BY stamp DESC, id DESC.
Before(stamp, a, b) == stamp[a] > stamp[b] \/ (stamp[a] = stamp[b] /\ a > b)

\* The rows, which have the stamps, in that order.
NewestFirst(stamp) ==
    [r \in DOMAIN stamp |-> {q \in DOMAIN stamp : Before(stamp, q, r)}]

\* Seeded fault: the most recently edited first.
ListContents_ByUpdate(limit, offset) ==
    Page(NewestFirst([c \in DOMAIN contents |-> contents[c].updated_at]), limit, offset)

\* ORDER BY created_at DESC, id DESC.
ListContents(limit, offset) == Page(NewestFirst(created_at), limit, offset)

\* Seeded fault: the count of the public list.
CountContents_Public ==
    Cardinality({c \in DOMAIN contents : contents[c].published_version_id # NULL})

CountContents == Cardinality(DOMAIN contents)

Public == {c \in DOMAIN contents : contents[c].published_version_id # NULL}

PublishedAt == [c \in Public |-> contents[c].published_at]

\* ORDER BY published_at DESC, id DESC.
ListPublic(limit, offset) == Page(NewestFirst(PublishedAt), limit, offset)

CountPublic == Cardinality(Public)

\* toVersionDTO.
VersionDTO(v) == [version |-> content_versions[v].version, fields |-> content_versions[v].fields]

\* The history of c, as a set.
History(c) == {VersionDTO(v) : v \in {u \in DOMAIN content_versions : OwnedBy(u, c)}}

\* ORDER BY version DESC, for a document that exists.
ListVersions(c, limit, offset) ==
    Page([v \in History(c) |-> {u \in History(c) : u.version > v.version}], limit, offset)

-----------------------------------------------------------------------------
(* The walk. *)

\* What a walk has to show: what was there when it started.
Listed(kind, c) ==
    CASE kind = "contents" -> DOMAIN contents
      [] kind = "public"   -> Public
      [] kind = "versions" -> History(c)

\* The client picks a list and a page size and starts at the front.
StartWalk(kind, c, limit) ==
    /\ walk = NULL
    /\ kind = "versions" => c \in DOMAIN contents
    /\ ParsePagination(limit, NULL) # NULL
    /\ walk' = [pc |-> "items", kind |-> kind,
                id |-> IF kind = "versions" THEN c ELSE NULL,
                limit  |-> ParsePagination(limit, NULL).limit,
                offset |-> ParsePagination(limit, NULL).offset,
                items |-> {}, shown |-> {}, total |-> NULL,
                must |-> Listed(kind, c), reordered |-> FALSE]
    /\ UNCHANGED <<storeVars, created_at>>

At(point) == walk # NULL /\ walk.pc = point

\* The page has been answered: on to the next offset, or done.
Advance(items, total, last) ==
    walk' = [walk EXCEPT !.pc = IF last THEN "done" ELSE "items",
                         !.items = {},
                         !.shown = @ \cup items,
                         !.total = total,
                         !.offset = IF last THEN @ ELSE @ + walk.limit]

\* handleListContents and handlePublicList: the items of a page first.
FetchItems ==
    /\ At("items") /\ walk.kind # "versions"
    /\ walk' = [walk EXCEPT !.pc = "count",
                            !.items = IF walk.kind = "contents"
                                      THEN ListContents(walk.limit, walk.offset)
                                      ELSE ListPublic(walk.limit, walk.offset)]
    /\ UNCHANGED <<storeVars, created_at>>

\* Then the total.
FetchTotal ==
    /\ At("count")
    /\ LET total == IF walk.kind = "contents" THEN CountContents ELSE CountPublic
       IN  Advance(walk.items, total, walk.offset + walk.limit >= total)
    /\ UNCHANGED <<storeVars, created_at>>

\* handleListVersions: one page, whose length it also gives as the total.
FetchVersions ==
    /\ At("items") /\ walk.kind = "versions"
    /\ LET page == ListVersions(walk.id, walk.limit, walk.offset)
       IN  Advance(page, Cardinality(page), Cardinality(page) < walk.limit)
    /\ UNCHANGED <<storeVars, created_at>>

\* The client is through and may walk again.
EndWalk ==
    /\ At("done")
    /\ walk' = NULL
    /\ UNCHANGED <<storeVars, created_at>>

\* A row leaves the public list or moves in it.
Reordered ==
    \E c \in Public : contents'[c].published_at # contents[c].published_at

\* Any transaction of anybody.  A new row is stamped with the time its handler
\* read before it waited for the connection.  Nothing is written between the
\* end of a walk and the next one: nobody is looking.
Write ==
    /\ ~At("done")
    /\ StoreNext
    /\ created_at' = [c \in DOMAIN contents' |->
            IF c \in DOMAIN contents THEN created_at[c] ELSE contents'[c].updated_at]
    /\ walk' = IF walk = NULL \/ ~Reordered THEN walk ELSE [walk EXCEPT !.reordered = TRUE]

ListingsNext ==
    \/ Write
    \/ \E kind \in {"contents", "public", "versions"}, c \in ContentId,
          limit \in 0 .. (MaxLimit + 1) \cup {NULL} : StartWalk(kind, c, limit)
    \/ FetchItems \/ FetchTotal \/ FetchVersions \/ EndWalk

ListingsSpec == ListingsInit /\ [][ListingsNext]_listingVars

-----------------------------------------------------------------------------
(* Properties. *)

ListingsTypeOK ==
    /\ created_at \in [DOMAIN contents -> Time]
    /\ walk # NULL =>
          /\ walk.pc \in {"items", "count", "done"}
          /\ walk.kind \in {"contents", "public", "versions"}
          /\ walk.limit \in 1 .. MaxLimit /\ walk.offset \in Nat
          /\ Cardinality(walk.items) <= walk.limit
          /\ walk.total \in Nat \cup {NULL}

\* A client that walks a list to its end has been shown everything that was
\* there when it began, however many documents and versions others added
\* meanwhile and whatever stamps they carry: pages overlap, they leave no
\* gaps.  Every version is shown with its own text.  Of the public list this
\* holds only if nothing in it was withdrawn or published anew meanwhile.
WalkMissesNothing ==
    At("done") /\ (walk.kind = "public" => ~walk.reordered) => walk.must \subseteq walk.shown

\* The total of the admin list, counted after the items, is never below the
\* number of documents the client has already been shown, so that a client
\* that stops there has not been turned away too early.
TotalCoversItems ==
    walk # NULL /\ walk.kind = "contents" /\ walk.total # NULL
        => Cardinality(walk.shown) <= walk.total

=============================================================================
