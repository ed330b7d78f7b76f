--------------------------- MODULE ListingsProofs ---------------------------
(***************************************************************************)
(* Proofs about the paged lists of module Listings, for any number of      *)
(* documents and versions, any page size and any writers.                  *)
(*                                                                         *)
(* The argument is about places.  Writers add rows and never move one, so  *)
(* the place of a row (the number of rows ORDER BY puts in front of it)    *)
(* only grows.  A row of the list that the client has not been shown is    *)
(* therefore never in front of the offset the client asks for next, and a  *)
(* place below the total is below the end of the last page.                *)
(***************************************************************************)
EXTENDS Listings, StoreProofs, FiniteSetTheorems

-----------------------------------------------------------------------------
(* Places under ORDER BY stamp DESC, id DESC. *)

\* A row is behind fewer rows than there are.
LEMMA PlaceBelowCount ==
    ASSUME NEW D, D \subseteq Int, IsFiniteSet(D), NEW stamp \in [D -> Int], NEW r \in D
    PROVE  /\ DOMAIN NewestFirst(stamp) = D
           /\ NewestFirst(stamp)[r] \subseteq D
           /\ IsFiniteSet(NewestFirst(stamp)[r])
           /\ Cardinality(NewestFirst(stamp)[r]) \in Nat
           /\ Cardinality(D) \in Nat
           /\ Cardinality(NewestFirst(stamp)[r]) < Cardinality(D)
<1> DEFINE A == NewestFirst(stamp)[r]
<1>1. DOMAIN NewestFirst(stamp) = D /\ A \subseteq D \ {r}
  BY DEF NewestFirst, Before
<1> HIDE DEF A
<1>2. /\ IsFiniteSet(D \ {r}) /\ Cardinality(D \ {r}) = Cardinality(D) - 1
  BY FS_RemoveElement
<1>3. IsFiniteSet(A) /\ Cardinality(A) <= Cardinality(D \ {r})
  BY <1>1, <1>2, FS_Subset
<1>4. Cardinality(A) \in Nat /\ Cardinality(D) \in Nat
  BY <1>3, FS_CardinalityType
<1>5. Cardinality(A) < Cardinality(D)
  BY <1>2, <1>3, <1>4
<1> QED  BY <1>1, <1>3, <1>4, <1>5 DEF A

\* The order is total: of two rows one is in front of the other, and so are
\* the rows in front of it.
LEMMA FrontOfFront ==
    ASSUME NEW D, D \subseteq Int, IsFiniteSet(D), NEW stamp \in [D -> Int],
           NEW a \in D, NEW b \in D, Before(stamp, a, b)
    PROVE  Cardinality(NewestFirst(stamp)[a]) < Cardinality(NewestFirst(stamp)[b])
<1> DEFINE A == NewestFirst(stamp)[a]
           B == NewestFirst(stamp)[b]
<1>0. /\ A = {q \in D : Before(stamp, q, a)}
      /\ B = {q \in D : Before(stamp, q, b)}
  BY DEF NewestFirst
<1>1. a \notin A /\ A \cup {a} \subseteq B
  <2>1. a \notin A
    BY <1>0 DEF Before
  <2>2. ASSUME NEW q \in D, Before(stamp, q, a) PROVE Before(stamp, q, b)
    BY <2>2 DEF Before
  <2> QED  BY <1>0, <2>1, <2>2
<1>2. IsFiniteSet(A) /\ IsFiniteSet(B) /\ Cardinality(A) \in Nat /\ Cardinality(B) \in Nat
  BY PlaceBelowCount
<1> HIDE DEF A, B
<1>3. Cardinality(A \cup {a}) = Cardinality(A) + 1
  BY <1>1, <1>2, FS_AddElement
<1>4. Cardinality(A \cup {a}) <= Cardinality(B)
  BY <1>1, <1>2, FS_Subset
<1>5. Cardinality(A) < Cardinality(B)
  BY <1>2, <1>3, <1>4
<1> QED  BY <1>5 DEF A, B

LEMMA PlacesDiffer ==
    ASSUME NEW D, D \subseteq Int, IsFiniteSet(D), NEW stamp \in [D -> Int],
           NEW a \in D, NEW b \in D, a # b
    PROVE  Cardinality(NewestFirst(stamp)[a]) # Cardinality(NewestFirst(stamp)[b])
<1>1. Before(stamp, a, b) \/ Before(stamp, b, a)
  BY DEF Before
<1>2. /\ Cardinality(NewestFirst(stamp)[a]) \in Nat
      /\ Cardinality(NewestFirst(stamp)[b]) \in Nat
  BY PlaceBelowCount
<1>3. \/ Cardinality(NewestFirst(stamp)[a]) < Cardinality(NewestFirst(stamp)[b])
      \/ Cardinality(NewestFirst(stamp)[b]) < Cardinality(NewestFirst(stamp)[a])
  BY <1>1, FrontOfFront
<1> QED  BY <1>2, <1>3

\* LIMIT is respected: no two rows have the same place.
LEMMA PageSize ==
    ASSUME NEW D, D \subseteq Int, IsFiniteSet(D), NEW stamp \in [D -> Int],
           NEW limit \in Nat \ {0}, NEW offset \in Nat
    PROVE  /\ Page(NewestFirst(stamp), limit, offset) \subseteq D
           /\ IsFiniteSet(Page(NewestFirst(stamp), limit, offset))
           /\ Cardinality(Page(NewestFirst(stamp), limit, offset)) <= limit
<1> DEFINE pg == Page(NewestFirst(stamp), limit, offset)
           places == offset .. (offset + limit - 1)
           f == [r \in pg |-> Cardinality(NewestFirst(stamp)[r])]
<1>1. /\ pg \subseteq D
      /\ \A r \in pg : Cardinality(NewestFirst(stamp)[r]) \in places
  BY DEF Page, NewestFirst
<1>2. \A a, b \in pg : Cardinality(NewestFirst(stamp)[a]) = Cardinality(NewestFirst(stamp)[b])
                          => a = b
  BY <1>1, PlacesDiffer
<1> HIDE DEF pg
<1>3. f \in Injection(pg, places)
  BY <1>1, <1>2 DEF Injection, IsInjective
<1>4. IsFiniteSet(places) /\ Cardinality(places) = limit
  <2>1. offset \in Int /\ offset + limit - 1 \in Int /\ ~(offset > offset + limit - 1)
    OBVIOUS
  <2>2. Cardinality(places) = (offset + limit - 1) - offset + 1 /\ IsFiniteSet(places)
    BY <2>1, FS_Interval
  <2> QED  BY <2>2
<1> HIDE DEF f, places
<1>5. IsFiniteSet(pg) /\ Cardinality(pg) <= Cardinality(places)
  BY <1>3, <1>4, FS_Injection
<1> QED  BY <1>1, <1>4, <1>5 DEF pg

\* Rows that are added push the others back or leave them where they are.
LEMMA PlacesGrow ==
    ASSUME NEW D, NEW E, D \subseteq E, E \subseteq Int, IsFiniteSet(E),
           NEW stamp \in [D -> Int], NEW later \in [E -> Int],
           \A d \in D : later[d] = stamp[d], NEW r \in D
    PROVE  /\ Cardinality(NewestFirst(stamp)[r]) \in Nat
           /\ Cardinality(NewestFirst(later)[r]) \in Nat
           /\ Cardinality(NewestFirst(stamp)[r]) <= Cardinality(NewestFirst(later)[r])
<1> DEFINE A == NewestFirst(stamp)[r]
           B == NewestFirst(later)[r]
<1>1. A \subseteq B
  BY DEF NewestFirst, Before
<1>2. IsFiniteSet(B) /\ Cardinality(B) \in Nat
  BY PlaceBelowCount
<1> HIDE DEF A, B
<1>3. IsFiniteSet(A) /\ Cardinality(A) <= Cardinality(B)
  BY <1>1, <1>2, FS_Subset
<1>4. Cardinality(A) \in Nat
  BY <1>3, FS_CardinalityType
<1> QED  BY <1>2, <1>3, <1>4 DEF A, B

-----------------------------------------------------------------------------
(* Places in a history. *)

\* Version m of document c, as the history shows it.
Shown(c, m) == VersionDTO(RowOf(c, m))

\* The history of a document has one entry for every number.
LEMMA HistoryNumbers ==
    ASSUME Inv, NEW c \in DOMAIN contents
    PROVE  /\ contents[c].current_version \in Nat
           /\ \A m \in 1 .. contents[c].current_version :
                 Shown(c, m) \in History(c) /\ Shown(c, m).version = m
           /\ \A v \in History(c) : /\ v.version \in 1 .. contents[c].current_version
                                    /\ v = Shown(c, v.version)
                                    /\ v \in [version : Nat, fields : Fields]
<1>1. c \in ContentId /\ contents[c].current_version \in Nat
  BY DEF Inv, TypeOK, ContentRow
<1>2. RowsFound
  BY RowOfFacts
<1>3. \A m \in 1 .. contents[c].current_version :
         Shown(c, m) \in History(c) /\ Shown(c, m).version = m
  BY <1>2 DEF RowsFound, Shown, VersionDTO, History, OwnedBy
<1>4. ASSUME NEW v \in History(c)
      PROVE  /\ v.version \in 1 .. contents[c].current_version
             /\ v = Shown(c, v.version)
             /\ v \in [version : Nat, fields : Fields]
  <2>1. PICK u \in DOMAIN content_versions :
           content_versions[u].content_id = c /\ v = VersionDTO(u)
    BY DEF History, OwnedBy
  <2>2. v.version = content_versions[u].version
    BY <2>1 DEF VersionDTO
  <2>3. content_versions[u].version \in 1 .. contents[c].current_version
    BY <2>1 DEF Inv, VersionHistory
  <2>4. content_versions[u].version \in Nat
    BY <1>1, <2>3
  <2>5. RowOf(c, content_versions[u].version) = u
    BY <1>1, <1>2, <2>1, <2>4 DEF RowsFound
  <2>6. content_versions[u].fields \in Fields
    <3>1. content_versions \in Seq(VersionRow)
      BY DEF Inv, TypeOK
    <3>2. content_versions[u] \in VersionRow
      BY <2>1, <3>1
    <3> QED  BY <3>2 DEF VersionRow
  <2>7. v \in [version : Nat, fields : Fields]
    BY <2>1, <2>4, <2>6 DEF VersionDTO
  <2> QED  BY <2>1, <2>2, <2>3, <2>5, <2>7 DEF Shown
<1> QED  BY <1>1, <1>3, <1>4

\* A run of consecutive numbers is that many entries of the history.
LEMMA HistoryRun ==
    ASSUME Inv, NEW c \in DOMAIN contents, NEW lo \in Nat \ {0}, NEW hi \in Int,
           hi <= contents[c].current_version
    PROVE  LET T == {v \in History(c) : v.version \in lo .. hi}
           IN  /\ IsFiniteSet(T)
               /\ Cardinality(T) = IF lo > hi THEN 0 ELSE hi - lo + 1
<1> DEFINE T == {v \in History(c) : v.version \in lo .. hi}
           n == contents[c].current_version
           f == [m \in lo .. hi |-> Shown(c, m)]
<1>1. /\ n \in Nat
      /\ \A m \in 1 .. n : Shown(c, m) \in History(c) /\ Shown(c, m).version = m
      /\ \A v \in History(c) : v.version \in 1 .. n /\ v = Shown(c, v.version)
  BY HistoryNumbers
<1>2. \A m \in lo .. hi : m \in 1 .. n
  BY <1>1
<1>3. \A m \in lo .. hi : Shown(c, m) \in T /\ Shown(c, m).version = m
  BY <1>1, <1>2
<1>4. \A v \in T : v.version \in lo .. hi /\ Shown(c, v.version) = v
  BY <1>1
<1> HIDE DEF T
<1>5. f \in [lo .. hi -> T]
  BY <1>3
<1>6. \A a, b \in lo .. hi : f[a] = f[b] => a = b
  BY <1>3
<1>7. \A v \in T : \E m \in lo .. hi : f[m] = v
  BY <1>4
<1>8. f \in Bijection(lo .. hi, T)
  BY <1>5, <1>6, <1>7 DEF Bijection, Injection, Surjection, IsInjective
<1>9. IsFiniteSet(lo .. hi) /\ Cardinality(lo .. hi) = IF lo > hi THEN 0 ELSE hi - lo + 1
  BY FS_Interval
<1>10. IsFiniteSet(T) /\ Cardinality(T) = Cardinality(lo .. hi)
  BY <1>8, <1>9, FS_Bijection DEF ExistsBijection
<1> QED  BY <1>9, <1>10 DEF T

\* Version k of n is behind n - k others.
LEMMA VersionPlace ==
    ASSUME Inv, NEW c \in DOMAIN contents, NEW v \in History(c)
    PROVE  Cardinality({u \in History(c) : u.version > v.version})
             = contents[c].current_version - v.version
<1> DEFINE n == contents[c].current_version
           k == v.version
<1>1. n \in Nat /\ k \in 1 .. n /\ \A u \in History(c) : u.version \in 1 .. n
  BY HistoryNumbers
<1>2. {u \in History(c) : u.version > k} = {u \in History(c) : u.version \in (k + 1) .. n}
  BY <1>1
<1>3. Cardinality({u \in History(c) : u.version \in (k + 1) .. n})
         = IF k + 1 > n THEN 0 ELSE n - (k + 1) + 1
  <2>1. k + 1 \in Nat \ {0} /\ n \in Int /\ n <= contents[c].current_version
    BY <1>1
  <2> HIDE DEF n, k
  <2> QED  BY <2>1, HistoryRun
<1> HIDE DEF n, k
<1>4. (IF k + 1 > n THEN 0 ELSE n - (k + 1) + 1) = n - k
  BY <1>1
<1>5. Cardinality({u \in History(c) : u.version > k}) = n - k
  BY <1>2, <1>3, <1>4
<1> QED  BY <1>5 DEF n, k

\* A page of a history has at most limit entries, and it has limit entries as
\* long as there are more behind it.
LEMMA VersionPage ==
    ASSUME Inv, NEW c \in DOMAIN contents, NEW limit \in Nat \ {0}, NEW offset \in Nat
    PROVE  LET pg == ListVersions(c, limit, offset)
           IN  /\ pg = {v \in History(c) : contents[c].current_version - v.version
                                             \in offset .. (offset + limit - 1)}
               /\ IsFiniteSet(pg) /\ Cardinality(pg) \in Nat
               /\ Cardinality(pg) <= limit
               /\ Cardinality(pg) < limit =>
                     \A v \in History(c) :
                        contents[c].current_version - v.version < offset + limit
<1> DEFINE pg == ListVersions(c, limit, offset)
           n == contents[c].current_version
           hi == n - offset
           lo == IF n - offset - limit + 1 >= 1 THEN n - offset - limit + 1 ELSE 1
<1>1. n \in Nat /\ \A u \in History(c) : u.version \in 1 .. n
  BY HistoryNumbers
<1>2. pg = {v \in History(c) : n - v.version \in offset .. (offset + limit - 1)}
  BY VersionPlace DEF ListVersions, Page
<1>3. pg = {v \in History(c) : v.version \in lo .. hi}
  BY <1>1, <1>2
<1>4. lo \in Nat \ {0} /\ hi \in Int /\ hi <= n
  BY <1>1
<1> HIDE DEF pg, lo, hi
<1>5. IsFiniteSet(pg) /\ Cardinality(pg) = IF lo > hi THEN 0 ELSE hi - lo + 1
  BY <1>3, <1>4, HistoryRun
<1>6. Cardinality(pg) \in Nat /\ Cardinality(pg) <= limit
  BY <1>1, <1>4, <1>5 DEF lo, hi
<1>7. ASSUME Cardinality(pg) < limit, NEW v \in History(c)
      PROVE  n - v.version < offset + limit
  BY <1>1, <1>5, <1>7 DEF lo, hi
<1> QED  BY <1>2, <1>5, <1>6, <1>7 DEF pg

-----------------------------------------------------------------------------
(* The invariant. *)

Entry == ContentId \cup [version : Nat, fields : Fields]

WalkRow == [pc : {"items", "count", "done"}, kind : {"contents", "public", "versions"},
            id : ContentId \cup {NULL}, limit : 1 .. MaxLimit, offset : Nat,
            items : SUBSET Entry, shown : SUBSET Entry, total : Nat \cup {NULL},
            must : SUBSET Entry, reordered : BOOLEAN]

WalkTyped ==
    walk # NULL =>
        /\ walk \in WalkRow
        /\ IsFiniteSet(walk.items) /\ Cardinality(walk.items) <= walk.limit
        /\ walk.pc = "count" => walk.kind # "versions"

\* The places of the documents in the admin list and in the public list.
ContentsPlace == [c \in DOMAIN contents |-> Cardinality(NewestFirst(created_at)[c])]

PublicPlace == [c \in Public |-> Cardinality(NewestFirst(PublishedAt)[c])]

\* The admin list: what is still to be shown is not in front of the offset, or
\* is in the page just read or behind it; and only documents are shown.
ContentsWalk ==
    walk # NULL /\ walk.kind = "contents" =>
        /\ walk.must \cup walk.shown \cup walk.items \subseteq DOMAIN contents
        /\ walk.total # NULL => Cardinality(walk.shown) <= walk.total
        /\ \A c \in walk.must \ walk.shown :
              \/ walk.pc = "items" /\ ContentsPlace[c] >= walk.offset
              \/ /\ walk.pc = "count"
                 /\ c \in walk.items \/ ContentsPlace[c] >= walk.offset + walk.limit

\* The public list, as long as no row of it moved or left.
PublicWalk ==
    walk # NULL /\ walk.kind = "public" /\ ~walk.reordered =>
        /\ walk.must \subseteq Public
        /\ \A c \in walk.must \ walk.shown :
              \/ walk.pc = "items" /\ PublicPlace[c] >= walk.offset
              \/ /\ walk.pc = "count"
                 /\ c \in walk.items \/ PublicPlace[c] >= walk.offset + walk.limit

\* The history of a document.
VersionsWalk ==
    walk # NULL /\ walk.kind = "versions" =>
        \E c \in DOMAIN contents :
            /\ walk.id = c
            /\ walk.must \subseteq History(c)
            /\ \A v \in walk.must \ walk.shown :
                  /\ walk.pc = "items"
                  /\ contents[c].current_version - v.version >= walk.offset

TablesOK ==
    /\ Inv
    /\ IsFiniteSet(DOMAIN contents)
    /\ created_at \in [DOMAIN contents -> Time]

ListingsInv == TablesOK /\ WalkTyped /\ ContentsWalk /\ PublicWalk /\ VersionsWalk

-----------------------------------------------------------------------------
(* The lists in a state of the database. *)

\* A document has a time of publication exactly if it is public.
PublicTimes ==
    /\ \A c \in Public : contents[c].published_at \in Time
    /\ \A c \in DOMAIN contents \ Public : contents[c].published_at = NULL

LEMMA PublicStamped == Inv => PublicTimes
<1> SUFFICES ASSUME Inv, NEW c \in DOMAIN contents
             PROVE  /\ contents[c].published_version_id # NULL =>
                          contents[c].published_at \in Time
                    /\ contents[c].published_version_id = NULL =>
                          contents[c].published_at = NULL
  BY DEF PublicTimes, Public
<1>0. TypeOK
  BY DEF Inv
<1>1. CASE \A e \in DOMAIN publish_events : publish_events[e].content_id # c
  BY <1>1 DEF Inv, AuditExplainsPointer
<1>2. CASE \E e \in DOMAIN publish_events : publish_events[e].content_id = c
  <2>1. PICK e \in DOMAIN publish_events : LastEventOf(e, c)
    BY <1>0, <1>2, LastEventExists
  <2>2. IF publish_events[e].action = "publish"
        THEN /\ contents[c].published_version_id = publish_events[e].version_id
             /\ contents[c].published_at = publish_events[e].occurred_at
        ELSE contents[c].published_version_id = NULL /\ contents[c].published_at = NULL
    BY <2>1 DEF Inv, AuditExplainsPointer
  <2>3. publish_events[e].occurred_at \in Time /\ publish_events[e].version_id # NULL
    <3>1. publish_events \in Seq(EventRow)
      BY <1>0 DEF TypeOK
    <3>2. publish_events[e] \in EventRow
      BY <3>1
    <3> QED  BY <3>2, StoreAssumption DEF EventRow, VersionId
  <2> QED  BY <2>2, <2>3
<1> QED  BY <1>1, <1>2

\* The two lists of documents are ordered by stamps.
LEMMA ListsStamped ==
    ASSUME TablesOK
    PROVE  /\ DOMAIN contents \subseteq Int /\ IsFiniteSet(DOMAIN contents)
           /\ created_at \in [DOMAIN contents -> Int]
           /\ Public \subseteq DOMAIN contents
           /\ Public \subseteq Int /\ IsFiniteSet(Public)
           /\ PublishedAt \in [Public -> Int]
<1>1. DOMAIN contents \subseteq Int /\ Time \subseteq Int
  BY StoreAssumption, ListingsAssumption DEF TablesOK, Inv, TypeOK
<1>2. Public \subseteq DOMAIN contents
  BY DEF Public
<1>3. IsFiniteSet(Public)
  BY <1>2, FS_Subset DEF TablesOK
<1>4. created_at \in [DOMAIN contents -> Int]
  BY <1>1 DEF TablesOK
<1>5. PublishedAt \in [Public -> Int]
  BY <1>1, PublicStamped DEF PublicTimes, PublishedAt, TablesOK
<1> QED  BY <1>1, <1>2, <1>3, <1>4, <1>5 DEF TablesOK

\* A page of the admin list is the run of places it asks for.
LEMMA ContentsPage ==
    ASSUME TablesOK
    PROVE  /\ ContentsPlace \in [DOMAIN contents -> Nat]
           /\ CountContents \in Nat
           /\ \A c \in DOMAIN contents : ContentsPlace[c] < CountContents
           /\ \A limit \in Nat \ {0}, offset \in Nat :
                 /\ ListContents(limit, offset) =
                       {c \in DOMAIN contents :
                           ContentsPlace[c] \in offset .. (offset + limit - 1)}
                 /\ IsFiniteSet(ListContents(limit, offset))
                 /\ Cardinality(ListContents(limit, offset)) <= limit
<1>1. /\ DOMAIN contents \subseteq Int /\ IsFiniteSet(DOMAIN contents)
      /\ created_at \in [DOMAIN contents -> Int]
  BY ListsStamped
<1>2. /\ DOMAIN NewestFirst(created_at) = DOMAIN contents
      /\ Cardinality(DOMAIN contents) \in Nat
      /\ \A c \in DOMAIN contents :
            /\ Cardinality(NewestFirst(created_at)[c]) \in Nat
            /\ Cardinality(NewestFirst(created_at)[c]) < Cardinality(DOMAIN contents)
  <2>1. DOMAIN NewestFirst(created_at) = DOMAIN contents
    BY <1>1 DEF NewestFirst
  <2> QED  BY <1>1, <2>1, PlaceBelowCount, FS_CardinalityType
<1>3. ASSUME NEW limit \in Nat \ {0}, NEW offset \in Nat
      PROVE  /\ ListContents(limit, offset) =
                   {c \in DOMAIN contents :
                       ContentsPlace[c] \in offset .. (offset + limit - 1)}
             /\ IsFiniteSet(ListContents(limit, offset))
             /\ Cardinality(ListContents(limit, offset)) <= limit
  <2>1. ListContents(limit, offset) =
           {c \in DOMAIN contents : ContentsPlace[c] \in offset .. (offset + limit - 1)}
    BY <1>2 DEF ListContents, Page, ContentsPlace
  <2>2. /\ IsFiniteSet(ListContents(limit, offset))
        /\ Cardinality(ListContents(limit, offset)) <= limit
    BY <1>1, PageSize DEF ListContents
  <2> QED  BY <2>1, <2>2
<1> QED  BY <1>2, <1>3 DEF ContentsPlace, CountContents

\* So is a page of the public list.
LEMMA PublicPage ==
    ASSUME TablesOK
    PROVE  /\ PublicPlace \in [Public -> Nat]
           /\ CountPublic \in Nat
           /\ \A c \in Public : PublicPlace[c] < CountPublic
           /\ \A limit \in Nat \ {0}, offset \in Nat :
                 /\ ListPublic(limit, offset) =
                       {c \in Public : PublicPlace[c] \in offset .. (offset + limit - 1)}
                 /\ IsFiniteSet(ListPublic(limit, offset))
                 /\ Cardinality(ListPublic(limit, offset)) <= limit
<1>1. /\ Public \subseteq Int /\ IsFiniteSet(Public) /\ PublishedAt \in [Public -> Int]
  BY ListsStamped
<1>2. /\ DOMAIN NewestFirst(PublishedAt) = Public
      /\ Cardinality(Public) \in Nat
      /\ \A c \in Public :
            /\ Cardinality(NewestFirst(PublishedAt)[c]) \in Nat
            /\ Cardinality(NewestFirst(PublishedAt)[c]) < Cardinality(Public)
  <2>1. DOMAIN NewestFirst(PublishedAt) = Public
    BY <1>1 DEF NewestFirst
  <2> QED  BY <1>1, <2>1, PlaceBelowCount, FS_CardinalityType
<1>3. ASSUME NEW limit \in Nat \ {0}, NEW offset \in Nat
      PROVE  /\ ListPublic(limit, offset) =
                   {c \in Public : PublicPlace[c] \in offset .. (offset + limit - 1)}
             /\ IsFiniteSet(ListPublic(limit, offset))
             /\ Cardinality(ListPublic(limit, offset)) <= limit
  <2>1. ListPublic(limit, offset) =
           {c \in Public : PublicPlace[c] \in offset .. (offset + limit - 1)}
    BY <1>2 DEF ListPublic, Page, PublicPlace
  <2>2. /\ IsFiniteSet(ListPublic(limit, offset))
        /\ Cardinality(ListPublic(limit, offset)) <= limit
    BY <1>1, PageSize DEF ListPublic
  <2> QED  BY <2>1, <2>2
<1> QED  BY <1>2, <1>3 DEF PublicPlace, CountPublic

\* Requests change no list.
LEMMA TablesQuiet ==
    ASSUME TablesOK, UNCHANGED <<storeVars, created_at>>
    PROVE  /\ TablesOK' /\ contents' = contents
           /\ ContentsPlace' = ContentsPlace
           /\ Public' = Public /\ PublicPlace' = PublicPlace
           /\ \A c : History(c)' = History(c)
<1>1. Inv'
  BY NextInv DEF TablesOK
<1>2. TablesOK'
  BY <1>1 DEF TablesOK, storeVars
<1>3. ContentsPlace' = ContentsPlace
  BY DEF ContentsPlace, NewestFirst, Before, storeVars
<1>4. Public' = Public
  BY DEF Public, storeVars
<1>5. PublishedAt' = PublishedAt
  BY <1>4 DEF PublishedAt, storeVars
<1>6. PublicPlace' = PublicPlace
  BY <1>4, <1>5 DEF PublicPlace, NewestFirst, Before
<1>7. \A c : History(c)' = History(c)
  BY DEF History, VersionDTO, OwnedBy, storeVars
<1> QED  BY <1>2, <1>3, <1>4, <1>6, <1>7 DEF storeVars

-----------------------------------------------------------------------------
(* The client's steps. *)

LEMMA ListingsInitInv == ListingsInit => ListingsInv
<1> SUFFICES ASSUME ListingsInit PROVE ListingsInv
  OBVIOUS
<1>1. Inv /\ DOMAIN contents = {}
  BY InitInv DEF ListingsInit, StoreInit
<1>2. TablesOK
  BY <1>1, FS_EmptySet DEF TablesOK, ListingsInit
<1> QED  BY <1>2 DEF ListingsInv, ListingsInit, WalkTyped, ContentsWalk, PublicWalk,
                     VersionsWalk

\* What there is to show are entries.
LEMMA ListedEntries ==
    ASSUME Inv
    PROVE  /\ DOMAIN contents \subseteq Entry /\ Public \subseteq Entry
           /\ \A c \in DOMAIN contents : History(c) \subseteq Entry
<1>1. DOMAIN contents \subseteq ContentId
  BY DEF Inv, TypeOK
<1>2. \A c \in DOMAIN contents : History(c) \subseteq [version : Nat, fields : Fields]
  BY HistoryNumbers
<1> QED  BY <1>1, <1>2 DEF Entry, Public

\* A walk starts at the front with nothing shown.
LEMMA StartStep ==
    ASSUME ListingsInv, NEW kind \in {"contents", "public", "versions"},
           NEW c \in ContentId, NEW limit, StartWalk(kind, c, limit)
    PROVE  ListingsInv'
<1> DEFINE lim == ParsePagination(limit, NULL).limit
           id == IF kind = "versions" THEN c ELSE NULL
           must == Listed(kind, c)
<1>0. /\ TablesOK /\ Inv
      /\ UNCHANGED <<storeVars, created_at>>
      /\ kind = "versions" => c \in DOMAIN contents
  BY DEF ListingsInv, TablesOK, StartWalk
<1>1. lim \in 1 .. MaxLimit /\ ParsePagination(limit, NULL).offset = 0
  BY ListingsAssumption DEF StartWalk, ParsePagination
<1>2. walk' = [pc |-> "items", kind |-> kind, id |-> id, limit |-> lim, offset |-> 0,
               items |-> {}, shown |-> {}, total |-> NULL, must |-> must,
               reordered |-> FALSE]
  BY <1>1 DEF StartWalk
<1>3. /\ kind = "contents" => must = DOMAIN contents
      /\ kind = "public" => must = Public
      /\ kind = "versions" => must = History(c)
  BY DEF Listed
<1> HIDE DEF lim, id, must
<1>4. must \subseteq Entry
  BY <1>0, <1>3, ListedEntries
<1>5. walk' \in WalkRow
  <2>1. id \in ContentId \cup {NULL}
    BY DEF id
  <2> QED  BY <1>1, <1>2, <1>4, <2>1 DEF WalkRow
<1>6. TablesOK' /\ contents' = contents /\ Public' = Public
      /\ ContentsPlace' = ContentsPlace /\ PublicPlace' = PublicPlace
  BY <1>0, TablesQuiet
<1>7. WalkTyped'
  <2>1. walk'.items = {} /\ walk'.pc = "items" /\ walk'.limit = lim
    BY <1>2
  <2> QED  BY <1>1, <1>5, <2>1, FS_EmptySet, ListingsAssumption DEF WalkTyped
<1>8. ContentsWalk'
  <2> SUFFICES ASSUME kind = "contents" PROVE ContentsWalk'
    BY <1>2 DEF ContentsWalk
  <2>1. ContentsPlace \in [DOMAIN contents -> Nat] /\ must = DOMAIN contents
    BY <1>0, <1>3, ContentsPage
  <2> QED  BY <1>2, <1>6, <2>1 DEF ContentsWalk
<1>9. PublicWalk'
  <2> SUFFICES ASSUME kind = "public" PROVE PublicWalk'
    BY <1>2 DEF PublicWalk
  <2>1. PublicPlace \in [Public -> Nat] /\ must = Public
    BY <1>0, <1>3, PublicPage
  <2> QED  BY <1>2, <1>6, <2>1 DEF PublicWalk
<1>10. VersionsWalk'
  <2> SUFFICES ASSUME kind = "versions" PROVE VersionsWalk'
    BY <1>2 DEF VersionsWalk
  <2>1. c \in DOMAIN contents /\ must = History(c) /\ id = c /\ History(c)' = History(c)
    BY <1>0, <1>3, TablesQuiet DEF id
  <2>2. /\ contents[c].current_version \in Nat
        /\ \A v \in History(c) : v.version \in 1 .. contents[c].current_version
    BY <2>1, <1>0, HistoryNumbers
  <2>3. /\ walk'.id = c /\ walk'.must = History(c) /\ walk'.pc = "items"
        /\ walk'.offset = 0
    BY <1>2, <2>1
  <2>4. \A v \in History(c) : contents[c].current_version - v.version >= 0
    BY <2>2
  <2> QED  BY <1>6, <2>1, <2>3, <2>4 DEF VersionsWalk
<1> QED  BY <1>6, <1>7, <1>8, <1>9, <1>10 DEF ListingsInv

\* The items of a page: everything up to the end of the page is now shown or
\* in the client's hands.
LEMMA ItemsStep ==
    ASSUME ListingsInv, FetchItems
    PROVE  ListingsInv'
<1> DEFINE page == IF walk.kind = "contents" THEN ListContents(walk.limit, walk.offset)
                                             ELSE ListPublic(walk.limit, walk.offset)
<1>0. /\ TablesOK /\ Inv /\ UNCHANGED <<storeVars, created_at>>
      /\ walk # NULL /\ walk.pc = "items" /\ walk.kind # "versions"
      /\ walk \in WalkRow
  BY DEF ListingsInv, TablesOK, FetchItems, At, WalkTyped
<1>1. walk' = [walk EXCEPT !.pc = "count", !.items = page]
  BY DEF FetchItems
<1>2. walk.limit \in Nat \ {0} /\ walk.offset \in Nat
      /\ walk.kind \in {"contents", "public", "versions"}
  BY <1>0, ListingsAssumption DEF WalkRow
<1>3. /\ walk.kind = "contents" =>
            page = {c \in DOMAIN contents :
                ContentsPlace[c] \in walk.offset .. (walk.offset + walk.limit - 1)}
      /\ walk.kind = "public" =>
            page = {c \in Public :
                PublicPlace[c] \in walk.offset .. (walk.offset + walk.limit - 1)}
      /\ IsFiniteSet(page) /\ Cardinality(page) <= walk.limit
  BY <1>0, <1>2, ContentsPage, PublicPage
<1>4. page \subseteq Entry
  BY <1>0, <1>2, <1>3, ListedEntries
<1> HIDE DEF page
<1>5. /\ walk' \in WalkRow
      /\ walk'.pc = "count" /\ walk'.items = page
      /\ walk'.kind = walk.kind /\ walk'.limit = walk.limit /\ walk'.offset = walk.offset
      /\ walk'.shown = walk.shown /\ walk'.total = walk.total /\ walk'.must = walk.must
      /\ walk'.reordered = walk.reordered
  BY <1>0, <1>1, <1>4 DEF WalkRow
<1>6. TablesOK' /\ contents' = contents /\ Public' = Public
      /\ ContentsPlace' = ContentsPlace /\ PublicPlace' = PublicPlace
  BY <1>0, TablesQuiet
<1>7. WalkTyped'
  BY <1>0, <1>3, <1>5 DEF WalkTyped
<1>8. ContentsWalk'
  <2> SUFFICES ASSUME walk.kind = "contents" PROVE ContentsWalk'
    BY <1>5 DEF ContentsWalk
  <2>1. ContentsPlace \in [DOMAIN contents -> Nat]
    BY <1>0, ContentsPage
  <2>2. /\ walk.must \cup walk.shown \subseteq DOMAIN contents
        /\ walk.total # NULL => Cardinality(walk.shown) <= walk.total
        /\ \A c \in walk.must \ walk.shown : ContentsPlace[c] >= walk.offset
    BY <1>0 DEF ListingsInv, ContentsWalk
  <2>3. \A c \in walk.must \ walk.shown :
           c \in page \/ ContentsPlace[c] >= walk.offset + walk.limit
    BY <1>2, <1>3, <2>1, <2>2
  <2>4. page \subseteq DOMAIN contents
    BY <1>3
  <2> QED  BY <1>5, <1>6, <2>2, <2>3, <2>4 DEF ContentsWalk
<1>9. PublicWalk'
  <2> SUFFICES ASSUME walk.kind = "public", ~walk.reordered PROVE PublicWalk'
    BY <1>5 DEF PublicWalk
  <2>1. PublicPlace \in [Public -> Nat]
    BY <1>0, PublicPage
  <2>2. /\ walk.must \subseteq Public
        /\ \A c \in walk.must \ walk.shown : PublicPlace[c] >= walk.offset
    BY <1>0 DEF ListingsInv, PublicWalk
  <2>3. \A c \in walk.must \ walk.shown :
           c \in page \/ PublicPlace[c] >= walk.offset + walk.limit
    BY <1>2, <1>3, <2>1, <2>2
  <2> QED  BY <1>5, <1>6, <2>2, <2>3 DEF PublicWalk
<1>10. VersionsWalk'
  BY <1>0, <1>5 DEF VersionsWalk
<1> QED  BY <1>6, <1>7, <1>8, <1>9, <1>10 DEF ListingsInv

\* What a page that has been answered leaves of the walk.
LEMMA AdvanceFacts ==
    ASSUME walk \in WalkRow, NEW items \in SUBSET Entry, NEW total \in Nat,
           NEW last \in BOOLEAN, Advance(items, total, last)
    PROVE  /\ walk' \in WalkRow
           /\ walk'.pc = IF last THEN "done" ELSE "items"
           /\ walk'.items = {} /\ walk'.shown = walk.shown \cup items
           /\ walk'.total = total
           /\ walk'.offset = IF last THEN walk.offset ELSE walk.offset + walk.limit
           /\ walk'.kind = walk.kind /\ walk'.id = walk.id /\ walk'.limit = walk.limit
           /\ walk'.must = walk.must /\ walk'.reordered = walk.reordered
<1> DEFINE pc == IF last THEN "done" ELSE "items"
           offset == IF last THEN walk.offset ELSE walk.offset + walk.limit
           shown == walk.shown \cup items
<1>1. walk' = [walk EXCEPT !.pc = pc, !.items = {}, !.shown = shown, !.total = total,
                           !.offset = offset]
  BY DEF Advance
<1>2. walk.offset \in Nat /\ walk.limit \in 1 .. MaxLimit /\ walk.shown \subseteq Entry
  BY DEF WalkRow
<1>3. pc \in {"items", "done"} /\ offset \in Nat /\ shown \subseteq Entry
  BY <1>2, ListingsAssumption
<1> HIDE DEF pc, offset, shown
<1>4. /\ walk' \in WalkRow /\ walk'.pc = pc /\ walk'.items = {} /\ walk'.shown = shown
      /\ walk'.total = total /\ walk'.offset = offset
      /\ walk'.kind = walk.kind /\ walk'.id = walk.id /\ walk'.limit = walk.limit
      /\ walk'.must = walk.must /\ walk'.reordered = walk.reordered
  BY <1>1, <1>3 DEF WalkRow
<1> QED  BY <1>4 DEF pc, offset, shown

\* The total: a row behind the page has a place below the total, so that the
\* client goes on; when it stops there is no such row.
LEMMA TotalStep ==
    ASSUME ListingsInv, FetchTotal
    PROVE  ListingsInv'
<1> DEFINE total == IF walk.kind = "contents" THEN CountContents ELSE CountPublic
           last == walk.offset + walk.limit >= total
<1>0. /\ TablesOK /\ Inv /\ UNCHANGED <<storeVars, created_at>>
      /\ walk # NULL /\ walk.pc = "count" /\ walk \in WalkRow /\ walk.kind # "versions"
  BY DEF ListingsInv, TablesOK, FetchTotal, At, WalkTyped
<1>1. Advance(walk.items, total, last)
  BY DEF FetchTotal
<1>2. /\ walk.limit \in 1 .. MaxLimit /\ walk.limit \in Nat /\ walk.offset \in Nat
      /\ walk.items \subseteq Entry
  BY <1>0, ListingsAssumption DEF WalkRow
<1>3. total \in Nat
  BY <1>0, ContentsPage, PublicPage
<1>4. last \in BOOLEAN
  OBVIOUS
<1> HIDE DEF total, last
<1>5. /\ walk' \in WalkRow
      /\ walk'.pc = IF last THEN "done" ELSE "items"
      /\ walk'.items = {} /\ walk'.shown = walk.shown \cup walk.items
      /\ walk'.total = total
      /\ walk'.offset = IF last THEN walk.offset ELSE walk.offset + walk.limit
      /\ walk'.kind = walk.kind /\ walk'.limit = walk.limit
      /\ walk'.must = walk.must /\ walk'.reordered = walk.reordered
  BY <1>0, <1>1, <1>2, <1>3, <1>4, AdvanceFacts
<1>6. TablesOK' /\ contents' = contents /\ Public' = Public
      /\ ContentsPlace' = ContentsPlace /\ PublicPlace' = PublicPlace
  BY <1>0, TablesQuiet
<1>7. WalkTyped'
  <2>1. Cardinality({}) = 0 /\ IsFiniteSet({})
    BY FS_EmptySet
  <2>2. 0 <= walk'.limit /\ walk'.pc # "count"
    BY <1>2, <1>5
  <2> QED  BY <1>5, <2>1, <2>2 DEF WalkTyped
<1>8. ContentsWalk'
  <2> SUFFICES ASSUME walk.kind = "contents" PROVE ContentsWalk'
    BY <1>5 DEF ContentsWalk
  <2>1. /\ ContentsPlace \in [DOMAIN contents -> Nat] /\ total = CountContents
        /\ \A c \in DOMAIN contents : ContentsPlace[c] < CountContents
    BY <1>0, ContentsPage DEF total
  <2>2. /\ walk.must \cup walk.shown \cup walk.items \subseteq DOMAIN contents
        /\ \A c \in walk.must \ walk.shown :
              c \in walk.items \/ ContentsPlace[c] >= walk.offset + walk.limit
    BY <1>0 DEF ListingsInv, ContentsWalk
  <2>3. Cardinality(walk.shown \cup walk.items) <= total
    <3>1. walk.shown \cup walk.items \in SUBSET DOMAIN contents
      BY <2>2
    <3>2. IsFiniteSet(DOMAIN contents)
      BY <1>0 DEF TablesOK
    <3> QED  BY <2>1, <3>1, <3>2, FS_Subset DEF CountContents
  <2>4. \A c \in walk.must \ walk'.shown :
           /\ ContentsPlace[c] \in Nat /\ ContentsPlace[c] < total
           /\ ContentsPlace[c] >= walk.offset + walk.limit
    BY <1>5, <2>1, <2>2
  <2>5. \A c \in walk.must \ walk'.shown : ~last
    BY <1>2, <1>3, <2>4 DEF last
  <2>6. \A c \in walk'.must \ walk'.shown :
           walk'.pc = "items" /\ ContentsPlace[c] >= walk'.offset
    BY <1>5, <2>4, <2>5
  <2>7. /\ walk'.must \cup walk'.shown \cup walk'.items \subseteq DOMAIN contents
        /\ Cardinality(walk'.shown) <= walk'.total
    BY <1>5, <2>2, <2>3
  <2> QED  BY <1>6, <2>6, <2>7 DEF ContentsWalk
<1>9. PublicWalk'
  <2> SUFFICES ASSUME walk.kind = "public", ~walk.reordered PROVE PublicWalk'
    BY <1>5 DEF PublicWalk
  <2>1. /\ PublicPlace \in [Public -> Nat] /\ total = CountPublic
        /\ \A c \in Public : PublicPlace[c] < CountPublic
    BY <1>0, PublicPage DEF total
  <2>2. /\ walk.must \subseteq Public
        /\ \A c \in walk.must \ walk.shown :
              c \in walk.items \/ PublicPlace[c] >= walk.offset + walk.limit
    BY <1>0 DEF ListingsInv, PublicWalk
  <2>3. \A c \in walk.must \ walk'.shown :
           /\ PublicPlace[c] \in Nat /\ PublicPlace[c] < total
           /\ PublicPlace[c] >= walk.offset + walk.limit
    BY <1>5, <2>1, <2>2
  <2>4. \A c \in walk.must \ walk'.shown : ~last
    BY <1>2, <1>3, <2>3 DEF last
  <2>5. \A c \in walk'.must \ walk'.shown :
           walk'.pc = "items" /\ PublicPlace[c] >= walk'.offset
    BY <1>5, <2>3, <2>4
  <2> QED  BY <1>5, <1>6, <2>2, <2>5 DEF PublicWalk
<1>10. VersionsWalk'
  BY <1>0, <1>5 DEF VersionsWalk
<1> QED  BY <1>6, <1>7, <1>8, <1>9, <1>10 DEF ListingsInv

\* A page of a history: a page that is not full is the last one.
LEMMA VersionsStep ==
    ASSUME ListingsInv, FetchVersions
    PROVE  ListingsInv'
<1> DEFINE page == ListVersions(walk.id, walk.limit, walk.offset)
           last == Cardinality(page) < walk.limit
<1>0. /\ TablesOK /\ Inv /\ UNCHANGED <<storeVars, created_at>>
      /\ walk # NULL /\ walk.pc = "items" /\ walk \in WalkRow /\ walk.kind = "versions"
  BY DEF ListingsInv, TablesOK, FetchVersions, At, WalkTyped
<1>1. PICK c \in DOMAIN contents :
         /\ walk.id = c
         /\ walk.must \subseteq History(c)
         /\ \A v \in walk.must \ walk.shown :
               contents[c].current_version - v.version >= walk.offset
  BY <1>0 DEF ListingsInv, VersionsWalk
<1>2. Advance(page, Cardinality(page), last)
  BY DEF FetchVersions
<1>3. walk.limit \in 1 .. MaxLimit /\ walk.limit \in Nat \ {0} /\ walk.offset \in Nat
  BY <1>0, ListingsAssumption DEF WalkRow
<1>4. /\ page = {v \in History(c) : contents[c].current_version - v.version
                                      \in walk.offset .. (walk.offset + walk.limit - 1)}
      /\ Cardinality(page) \in Nat
      /\ last => \A v \in History(c) :
                    contents[c].current_version - v.version < walk.offset + walk.limit
  BY <1>0, <1>1, <1>3, VersionPage
<1>5. last \in BOOLEAN
  OBVIOUS
<1> HIDE DEF page, last
<1>6. page \subseteq Entry
  <2>1. History(c) \subseteq Entry
    BY <1>0, ListedEntries
  <2> QED  BY <1>4, <2>1
<1>7. /\ walk' \in WalkRow
      /\ walk'.pc = IF last THEN "done" ELSE "items"
      /\ walk'.items = {} /\ walk'.shown = walk.shown \cup page
      /\ walk'.offset = IF last THEN walk.offset ELSE walk.offset + walk.limit
      /\ walk'.kind = walk.kind /\ walk'.id = walk.id /\ walk'.limit = walk.limit
      /\ walk'.must = walk.must
  <2> DEFINE total == Cardinality(page)
  <2>1. walk \in WalkRow /\ page \in SUBSET Entry /\ total \in Nat
    BY <1>0, <1>4, <1>6
  <2>2. Advance(page, total, last)
    BY <1>2
  <2> HIDE DEF total
  <2> QED  BY <1>5, <2>1, <2>2, AdvanceFacts
<1>8. TablesOK' /\ contents' = contents /\ History(c)' = History(c)
  BY <1>0, TablesQuiet
<1>9. WalkTyped'
  <2>1. Cardinality({}) = 0 /\ IsFiniteSet({})
    BY FS_EmptySet
  <2>2. 0 <= walk'.limit /\ walk'.pc # "count"
    BY <1>3, <1>7
  <2> QED  BY <1>7, <2>1, <2>2 DEF WalkTyped
<1>10. VersionsWalk'
  <2>1. /\ contents[c].current_version \in Nat
        /\ \A v \in History(c) : v.version \in 1 .. contents[c].current_version
    BY <1>0, HistoryNumbers
  <2>2. \A v \in walk.must \ walk'.shown :
           contents[c].current_version - v.version >= walk.offset + walk.limit
    BY <1>1, <1>3, <1>4, <1>7, <2>1
  <2>3. \A v \in walk.must \ walk'.shown : ~last
    BY <1>1, <1>3, <1>4, <2>1, <2>2
  <2>4. \A v \in walk'.must \ walk'.shown :
           walk'.pc = "items" /\ contents[c].current_version - v.version >= walk'.offset
    BY <1>7, <2>2, <2>3
  <2> QED  BY <1>1, <1>7, <1>8, <2>4 DEF VersionsWalk
<1>11. ContentsWalk' /\ PublicWalk'
  BY <1>0, <1>7 DEF ContentsWalk, PublicWalk
<1> QED  BY <1>8, <1>9, <1>10, <1>11 DEF ListingsInv

\* The end of a walk.
LEMMA EndStep ==
    ASSUME ListingsInv, EndWalk
    PROVE  ListingsInv'
<1>1. TablesOK'
  BY TablesQuiet DEF EndWalk, ListingsInv
<1>2. walk' = NULL
  BY DEF EndWalk
<1> QED  BY <1>1, <1>2 DEF ListingsInv, WalkTyped, ContentsWalk, PublicWalk, VersionsWalk

-----------------------------------------------------------------------------
(* Everybody else's transactions. *)

\* A transaction adds at most one document, stamps it with a time, and keeps
\* the others with their stamps.
LEMMA TablesGrow ==
    ASSUME TablesOK, Write
    PROVE  /\ TablesOK' /\ HistoryKept
           /\ DOMAIN contents \subseteq DOMAIN contents'
           /\ \A c \in DOMAIN contents : created_at'[c] = created_at[c]
<1>0. Inv /\ StoreNext
  BY DEF TablesOK, Write
<1>1. Inv'
  BY <1>0, NextInv
<1>2. HistoryKept
  BY <1>0, HistoryStep
<1>3. DOMAIN contents \subseteq DOMAIN contents'
  BY <1>2 DEF HistoryKept
<1>4. \E id : DOMAIN contents' \subseteq DOMAIN contents \cup {id}
  BY <1>0, OneNewDocument
<1>5. IsFiniteSet(DOMAIN contents')
  <2>1. PICK id : DOMAIN contents' \subseteq DOMAIN contents \cup {id}
    BY <1>4
  <2>2. IsFiniteSet(DOMAIN contents \cup {id})
    BY FS_AddElement DEF TablesOK
  <2> QED  BY <2>1, <2>2, FS_Subset
<1>6. created_at' = [c \in DOMAIN contents' |->
          IF c \in DOMAIN contents THEN created_at[c] ELSE contents'[c].updated_at]
  BY DEF Write
<1>7. \A c \in DOMAIN contents' : contents'[c].updated_at \in Time
  BY <1>1 DEF Inv, TypeOK, ContentRow
<1>8. \A c \in DOMAIN contents : created_at[c] \in Time
  BY DEF TablesOK
<1>9. created_at' \in [DOMAIN contents' -> Time]
  BY <1>6, <1>7, <1>8
<1>10. \A c \in DOMAIN contents : created_at'[c] = created_at[c]
  BY <1>3, <1>6
<1>11. TablesOK'
  BY <1>1, <1>5, <1>9 DEF TablesOK
<1> QED  BY <1>2, <1>3, <1>10, <1>11

\* A document of the admin list does not move to the front.
LEMMA ContentsPlaceGrows ==
    ASSUME TablesOK, Write, NEW c \in DOMAIN contents
    PROVE  /\ ContentsPlace[c] \in Nat /\ ContentsPlace'[c] \in Nat
           /\ ContentsPlace[c] <= ContentsPlace'[c]
<1> DEFINE D == DOMAIN contents
           E == DOMAIN contents'
           stamp == created_at
           later == created_at'
<1>1. TablesOK' /\ D \subseteq E /\ \A d \in D : later[d] = stamp[d]
  BY TablesGrow
<1>2. stamp \in [D -> Int]
  BY ListsStamped
<1>3. E \subseteq Int /\ IsFiniteSet(E) /\ later \in [E -> Int]
  BY <1>1, StoreAssumption, ListingsAssumption DEF TablesOK, Inv, TypeOK
<1>4. ContentsPlace[c] = Cardinality(NewestFirst(stamp)[c])
  BY DEF ContentsPlace
<1>5. ContentsPlace'[c] = Cardinality(NewestFirst(later)[c])
  <2>1. ContentsPlace' = [d \in DOMAIN contents' |-> Cardinality(NewestFirst(created_at)'[d])]
    BY DEF ContentsPlace
  <2>2. NewestFirst(created_at)' = NewestFirst(created_at')
    BY DEF NewestFirst, Before
  <2>3. c \in DOMAIN contents'
    BY <1>1
  <2> QED  BY <2>1, <2>2, <2>3
<1> HIDE DEF D, E, stamp, later
<1>6. c \in D
  BY DEF D
<1>7. /\ Cardinality(NewestFirst(stamp)[c]) \in Nat
      /\ Cardinality(NewestFirst(later)[c]) \in Nat
      /\ Cardinality(NewestFirst(stamp)[c]) <= Cardinality(NewestFirst(later)[c])
  BY <1>1, <1>2, <1>3, <1>6, PlacesGrow
<1> QED  BY <1>4, <1>5, <1>7

\* Nor does one of the public list, unless a row moved or left.
LEMMA PublicPlaceGrows ==
    ASSUME TablesOK, Write, ~Reordered, NEW c \in Public
    PROVE  /\ c \in Public'
           /\ PublicPlace[c] \in Nat /\ PublicPlace'[c] \in Nat
           /\ PublicPlace[c] <= PublicPlace'[c]
<1>1. TablesOK' /\ DOMAIN contents \subseteq DOMAIN contents'
  BY TablesGrow
<1>2. PublicTimes /\ PublicTimes'
  <2>1. Inv /\ Inv'
    BY <1>1 DEF TablesOK
  <2> QED  BY <2>1, PublicStamped, PTL
<1>3. \A d \in Public : contents'[d].published_at = contents[d].published_at
  BY DEF Reordered
<1>4. Public \subseteq Public'
  <2> SUFFICES ASSUME NEW d \in Public PROVE d \in Public'
    OBVIOUS
  <2>1. d \in DOMAIN contents'
    BY <1>1 DEF Public
  <2>2. contents'[d].published_at # NULL
    BY <1>2, <1>3, StoreAssumption DEF PublicTimes
  <2> QED  BY <1>2, <2>1, <2>2 DEF PublicTimes
<1> DEFINE D == Public
           E == Public'
           stamp == PublishedAt
           later == PublishedAt'
<1>5. D \subseteq E
  BY <1>4
<1>6. stamp \in [D -> Int]
  BY ListsStamped
<1>7. E \subseteq Int /\ IsFiniteSet(E) /\ later \in [E -> Int]
  <2>1. Public' \subseteq DOMAIN contents'
    BY DEF Public
  <2>2. DOMAIN contents' \subseteq Int /\ IsFiniteSet(DOMAIN contents')
    BY <1>1, ListingsAssumption DEF TablesOK, Inv, TypeOK
  <2>3. IsFiniteSet(Public')
    BY <2>1, <2>2, FS_Subset
  <2>4. PublishedAt' = [d \in Public' |-> contents'[d].published_at]
    BY DEF PublishedAt
  <2>5. \A d \in Public' : contents'[d].published_at \in Int
    BY <1>2, StoreAssumption DEF PublicTimes
  <2>6. PublishedAt' \in [Public' -> Int]
    BY <2>4, <2>5
  <2> QED  BY <2>1, <2>2, <2>3, <2>6
<1>8. \A d \in D : later[d] = stamp[d]
  BY <1>3, <1>4 DEF PublishedAt
<1>9. PublicPlace[c] = Cardinality(NewestFirst(stamp)[c])
  BY DEF PublicPlace
<1>10. PublicPlace'[c] = Cardinality(NewestFirst(later)[c])
  <2>1. PublicPlace' = [d \in Public' |-> Cardinality(NewestFirst(PublishedAt)'[d])]
    BY DEF PublicPlace
  <2>2. NewestFirst(PublishedAt)' = NewestFirst(PublishedAt')
    BY DEF NewestFirst, Before
  <2> QED  BY <1>4, <2>1, <2>2
<1> HIDE DEF D, E, stamp, later
<1>11. c \in D
  BY DEF D
<1>12. /\ Cardinality(NewestFirst(stamp)[c]) \in Nat
       /\ Cardinality(NewestFirst(later)[c]) \in Nat
       /\ Cardinality(NewestFirst(stamp)[c]) <= Cardinality(NewestFirst(later)[c])
  BY <1>5, <1>6, <1>7, <1>8, <1>11, PlacesGrow
<1> QED  BY <1>4, <1>9, <1>10, <1>12

\* A history keeps its entries, and its versions move to the back only.
LEMMA HistoryGrows ==
    ASSUME TablesOK, Write, NEW c \in DOMAIN contents
    PROVE  /\ c \in DOMAIN contents' /\ History(c) \subseteq History(c)'
           /\ \A v \in History(c) : v.version \in Nat
           /\ contents[c].current_version \in Nat /\ contents'[c].current_version \in Nat
           /\ contents[c].current_version <= contents'[c].current_version
<1>1. Inv /\ Inv' /\ HistoryKept
  BY TablesGrow DEF TablesOK
<1>2. /\ \A v \in DOMAIN content_versions :
            v \in DOMAIN content_versions' /\ content_versions'[v] = content_versions[v]
      /\ c \in DOMAIN contents'
      /\ contents[c].current_version \in Nat /\ contents'[c].current_version \in Nat
      /\ contents[c].current_version <= contents'[c].current_version
  BY <1>1, RowsStay
<1>3. History(c) \subseteq History(c)'
  BY <1>2 DEF History, VersionDTO, OwnedBy
<1>4. \A v \in History(c) : v.version \in Nat
  BY <1>1, HistoryNumbers
<1> QED  BY <1>2, <1>3, <1>4

\* So the walk is as it was: what it has not shown has not come any closer to
\* the front.
LEMMA WriteStep ==
    ASSUME ListingsInv, Write
    PROVE  ListingsInv'
<1>0. TablesOK /\ TablesOK'
  BY TablesGrow DEF ListingsInv
<1>1. CASE walk = NULL
  <2>1. walk' = NULL
    BY <1>1 DEF Write
  <2> QED  BY <1>0, <2>1 DEF ListingsInv, WalkTyped, ContentsWalk, PublicWalk, VersionsWalk
<1>2. CASE walk # NULL
  <2>0. walk \in WalkRow
    BY <1>2 DEF ListingsInv, WalkTyped
  <2>1. /\ walk' \in WalkRow /\ walk'.pc = walk.pc /\ walk'.kind = walk.kind
        /\ walk'.id = walk.id /\ walk'.limit = walk.limit /\ walk'.offset = walk.offset
        /\ walk'.items = walk.items /\ walk'.shown = walk.shown
        /\ walk'.total = walk.total /\ walk'.must = walk.must
        /\ ~walk'.reordered => ~walk.reordered /\ ~Reordered
    <3>1. CASE Reordered
      <4>1. walk' = [walk EXCEPT !.reordered = TRUE]
        BY <1>2, <3>1 DEF Write
      <4> QED  BY <2>0, <4>1 DEF WalkRow
    <3>2. CASE ~Reordered
      <4>1. walk' = walk
        BY <3>2 DEF Write
      <4> QED  BY <2>0, <3>2, <4>1
    <3> QED  BY <3>1, <3>2
  <2>2. walk.limit \in Nat /\ walk.offset \in Nat
    BY <2>0, ListingsAssumption DEF WalkRow
  <2>3. WalkTyped'
    BY <1>2, <2>1 DEF ListingsInv, WalkTyped
  <2>4. ContentsWalk'
    <3> SUFFICES ASSUME walk.kind = "contents" PROVE ContentsWalk'
      BY <2>1 DEF ContentsWalk
    <3>1. /\ walk.must \cup walk.shown \cup walk.items \subseteq DOMAIN contents
          /\ walk.total # NULL => Cardinality(walk.shown) <= walk.total
          /\ \A c \in walk.must \ walk.shown :
                \/ walk.pc = "items" /\ ContentsPlace[c] >= walk.offset
                \/ /\ walk.pc = "count"
                   /\ c \in walk.items \/ ContentsPlace[c] >= walk.offset + walk.limit
      BY <1>2 DEF ListingsInv, ContentsWalk
    <3>2. \A c \in DOMAIN contents :
             /\ c \in DOMAIN contents'
             /\ ContentsPlace[c] \in Nat /\ ContentsPlace'[c] \in Nat
             /\ ContentsPlace[c] <= ContentsPlace'[c]
      BY <1>0, TablesGrow, ContentsPlaceGrows
    <3>3. \A c \in walk.must \ walk.shown :
             \/ walk.pc = "items" /\ ContentsPlace'[c] >= walk.offset
             \/ /\ walk.pc = "count"
                /\ c \in walk.items \/ ContentsPlace'[c] >= walk.offset + walk.limit
      BY <2>2, <3>1, <3>2
    <3>4. walk.must \cup walk.shown \cup walk.items \subseteq DOMAIN contents'
      BY <3>1, <3>2
    <3> QED  BY <2>1, <3>1, <3>3, <3>4 DEF ContentsWalk
  <2>5. PublicWalk'
    <3> SUFFICES ASSUME walk.kind = "public", ~walk.reordered, ~Reordered
                 PROVE  PublicWalk'
      BY <2>1 DEF PublicWalk
    <3>1. /\ walk.must \subseteq Public
          /\ \A c \in walk.must \ walk.shown :
                \/ walk.pc = "items" /\ PublicPlace[c] >= walk.offset
                \/ /\ walk.pc = "count"
                   /\ c \in walk.items \/ PublicPlace[c] >= walk.offset + walk.limit
      BY <1>2 DEF ListingsInv, PublicWalk
    <3>2. \A c \in Public :
             /\ c \in Public'
             /\ PublicPlace[c] \in Nat /\ PublicPlace'[c] \in Nat
             /\ PublicPlace[c] <= PublicPlace'[c]
      BY <1>0, PublicPlaceGrows
    <3>3. \A c \in walk.must \ walk.shown :
             \/ walk.pc = "items" /\ PublicPlace'[c] >= walk.offset
             \/ /\ walk.pc = "count"
                /\ c \in walk.items \/ PublicPlace'[c] >= walk.offset + walk.limit
      BY <2>2, <3>1, <3>2
    <3>4. walk.must \subseteq Public'
      BY <3>1, <3>2
    <3> QED  BY <2>1, <3>3, <3>4 DEF PublicWalk
  <2>6. VersionsWalk'
    <3> SUFFICES ASSUME walk.kind = "versions" PROVE VersionsWalk'
      BY <2>1 DEF VersionsWalk
    <3>1. PICK c \in DOMAIN contents :
             /\ walk.id = c
             /\ walk.must \subseteq History(c)
             /\ \A v \in walk.must \ walk.shown :
                   /\ walk.pc = "items"
                   /\ contents[c].current_version - v.version >= walk.offset
      BY <1>2 DEF ListingsInv, VersionsWalk
    <3>2. /\ c \in DOMAIN contents' /\ History(c) \subseteq History(c)'
          /\ \A v \in History(c) : v.version \in Nat
          /\ contents[c].current_version \in Nat
          /\ contents'[c].current_version \in Nat
          /\ contents[c].current_version <= contents'[c].current_version
      BY <1>0, HistoryGrows
    <3>3. \A v \in walk.must \ walk.shown :
             /\ walk.pc = "items"
             /\ contents'[c].current_version - v.version >= walk.offset
      BY <2>2, <3>1, <3>2
    <3>4. walk.must \subseteq History(c)'
      BY <3>1, <3>2
    <3> QED  BY <2>1, <3>1, <3>2, <3>3, <3>4 DEF VersionsWalk
  <2> QED  BY <1>0, <2>3, <2>4, <2>5, <2>6 DEF ListingsInv
<1> QED  BY <1>1, <1>2

-----------------------------------------------------------------------------
(* The theorems. *)

LEMMA ListingsNextInv == ListingsInv /\ [ListingsNext]_listingVars => ListingsInv'
<1> SUFFICES ASSUME ListingsInv, [ListingsNext]_listingVars PROVE ListingsInv'
  OBVIOUS
<1>1. CASE Write
  BY <1>1, WriteStep
<1>2. ASSUME NEW kind \in {"contents", "public", "versions"}, NEW c \in ContentId,
             NEW limit \in 0 .. (MaxLimit + 1) \cup {NULL}, StartWalk(kind, c, limit)
      PROVE  ListingsInv'
  BY <1>2, StartStep
<1>3. CASE FetchItems
  BY <1>3, ItemsStep
<1>4. CASE FetchTotal
  BY <1>4, TotalStep
<1>5. CASE FetchVersions
  BY <1>5, VersionsStep
<1>6. CASE EndWalk
  BY <1>6, EndStep
<1>7. CASE UNCHANGED listingVars
  <2>1. UNCHANGED <<storeVars, created_at>> /\ walk' = walk
    BY <1>7 DEF listingVars, listVars
  <2>2. /\ TablesOK' /\ contents' = contents /\ ContentsPlace' = ContentsPlace
        /\ Public' = Public /\ PublicPlace' = PublicPlace
        /\ \A c : History(c)' = History(c)
    BY <2>1, TablesQuiet DEF ListingsInv
  <2>3. WalkTyped' /\ ContentsWalk' /\ PublicWalk'
    BY <2>1, <2>2 DEF ListingsInv, WalkTyped, ContentsWalk, PublicWalk
  <2>4. VersionsWalk'
    BY <2>1, <2>2 DEF ListingsInv, VersionsWalk
  <2> QED  BY <2>2, <2>3, <2>4 DEF ListingsInv
<1> QED  BY <1>1, <1>2, <1>3, <1>4, <1>5, <1>6, <1>7 DEF ListingsNext

\* The invariant holds in every state of the lists and their client.
THEOREM ListingsInvariance == ListingsSpec => []ListingsInv
<1>1. ListingsInit => ListingsInv
  BY ListingsInitInv
<1>2. ListingsInv /\ [ListingsNext]_listingVars => ListingsInv'
  BY ListingsNextInv
<1> QED  BY <1>1, <1>2, PTL DEF ListingsSpec

\* Offsets and limits stay in range, and no page is longer than its limit.
THEOREM ListingsTypeCorrect == ListingsSpec => []ListingsTypeOK
<1>1. ListingsInv => ListingsTypeOK
  BY DEF ListingsInv, TablesOK, WalkTyped, WalkRow, ListingsTypeOK
<1> QED  BY <1>1, ListingsInvariance, PTL

\* A walk of a list of any length, with pages of any size and any number of
\* transactions between them, ends having shown everything that was in the list
\* when it began (handleListContents, handleListVersions and, as long as no row
\* of it is withdrawn or published anew, handlePublicList).
THEOREM WalksAreComplete == ListingsSpec => []WalkMissesNothing
<1>1. ListingsInv => WalkMissesNothing
  <2> SUFFICES ASSUME ListingsInv, walk # NULL, walk.pc = "done",
                      walk.kind = "public" => ~walk.reordered
               PROVE  walk.must \subseteq walk.shown
    BY DEF WalkMissesNothing, At
  <2>1. walk.kind \in {"contents", "public", "versions"}
    BY DEF ListingsInv, WalkTyped, WalkRow
  <2>2. CASE walk.kind = "contents"
    BY <2>2 DEF ListingsInv, ContentsWalk
  <2>3. CASE walk.kind = "public"
    BY <2>3 DEF ListingsInv, PublicWalk
  <2>4. CASE walk.kind = "versions"
    BY <2>4 DEF ListingsInv, VersionsWalk
  <2> QED  BY <2>1, <2>2, <2>3, <2>4
<1> QED  BY <1>1, ListingsInvariance, PTL

\* The total of the admin list is never below the number of documents already
\* shown (CountContents after ListContents, with writers in between).
THEOREM TotalsCover == ListingsSpec => []TotalCoversItems
<1>1. ListingsInv => TotalCoversItems
  BY DEF ListingsInv, ContentsWalk, TotalCoversItems
<1> QED  BY <1>1, ListingsInvariance, PTL

=============================================================================
