----------------------------- MODULE ApiProofs -----------------------------
(***************************************************************************)
(* Proofs about the admin handlers of module Api, for any number of        *)
(* editors, documents and versions, with the scheduler processes running.  *)
(*                                                                         *)
(* A handler carries what it read in one database call into the next.  The *)
(* invariant therefore says, for each point of each handler, why what it   *)
(* carries is still good after anything the others may have committed: a   *)
(* version row never changes (HistoryKept), a settled schedule stays       *)
(* settled (SettledKept), and a version number names one row of its        *)
(* document.  NumbersBelowRows is what keeps a token within the range that *)
(* module Store lets callers use.                                          *)
(***************************************************************************)
EXTENDS Api, RefinementProofs

\* The n-th row of the table has a number of at most n, and a document has a
\* version from the start.
NumbersBelowRows ==
    /\ \A v \in DOMAIN content_versions : content_versions[v].version <= v
    /\ \A c \in DOMAIN contents : contents[c].current_version # 0

\* The documents with the views an editor may have of them: the tag is one of
\* the document's versions and the draft is what was written under it.
TrueViews ==
    {cv \in ContentId \X ViewRow :
        /\ cv[1] \in DOMAIN contents
        /\ cv[2].version <= contents[cv[1]].current_version
        /\ cv[2].draft = content_versions[RowOf(cv[1], cv[2].version)].fields}

\* What the handler of e knows at each of its points.
ReqOK(e) ==
    /\ ~Free(e) =>
          req[e].pc \in {"render", "state", "wildcard", "update", "conflict",
                         "resolve", "publish", "schedule", "scheduled"}
    /\ At(e, "render") =>
          \A c \in DOMAIN req[e].views : <<c, req[e].views[c]>> \in TrueViews
    /\ At(e, "wildcard") => req[e].id \in ContentId /\ req[e].fields \in Fields
    /\ At(e, "update") =>
          <<req[e].id, req[e].base>> \in TrueViews /\ req[e].fields \in Fields
    /\ At(e, "conflict") =>
          /\ <<req[e].id, req[e].base>> \in TrueViews
          /\ contents[req[e].id].current_version > req[e].base.version
    /\ At(e, "resolve") =>
          /\ req[e].id \in ContentId /\ req[e].asked \in VersionId
          /\ req[e].op \in {"publish", "schedule"}
          /\ req[e].op = "schedule" => req[e].runAt \in Time
    /\ At(e, "publish") \/ At(e, "schedule") =>
          /\ req[e].id \in ContentId /\ OwnedBy(req[e].row, req[e].id)
          /\ content_versions[req[e].row].version = req[e].asked
          /\ At(e, "schedule") => req[e].runAt \in Time

\* What e remembers of the answers it was given.
SeenOK(e) ==
    \A c \in ContentId : seen[e][c] # NULL => <<c, seen[e][c]>> \in TrueViews

TablesInv == Inv /\ NumbersBelowRows

EditorsInv ==
    /\ DOMAIN req = Editor
    /\ seen \in [Editor -> [ContentId -> ViewRow \cup {NULL}]]
    /\ \A e \in Editor : ReqOK(e)
    /\ \A e \in Editor : SeenOK(e)

CancelInv == calledOff \subseteq DOMAIN publish_schedules /\ CalledOffStaysOff

ApiInv == TablesInv /\ EditorsInv /\ CancelInv

-----------------------------------------------------------------------------
(* What every transaction keeps. *)

\* A version number never exceeds the number of rows.
LEMMA NumbersStep == TablesInv /\ [StoreNext]_storeVars => NumbersBelowRows'
<1> SUFFICES ASSUME TablesInv, [StoreNext]_storeVars PROVE NumbersBelowRows'
  OBVIOUS
<1>1. /\ TypeOK /\ VersionHistory /\ NumbersBelowRows /\ MaxVersions \in Nat
      /\ Len(content_versions) \in Nat /\ contents \in [DOMAIN contents -> ContentRow]
      /\ \A c \in DOMAIN contents : contents[c].current_version \in Nat
  BY StoreAssumption DEF TablesInv, Inv, TypeOK, ContentRow
<1>2. ASSUME NEW c \in ContentId, NEW n \in Nat, NEW f \in Fields, InsertVersion(c, n, f),
             n <= Len(content_versions) + 1
      PROVE  \A v \in DOMAIN content_versions' : content_versions'[v].version <= v
  <2>1. content_versions'[Len(content_versions) + 1] =
            [content_id |-> c, version |-> n, fields |-> f]
    BY <1>1, <1>2, InsertVersionFacts
  <2>2. /\ DOMAIN content_versions = 1 .. Len(content_versions)
        /\ DOMAIN content_versions' = 1 .. (Len(content_versions) + 1)
        /\ \A v \in DOMAIN content_versions : content_versions'[v] = content_versions[v]
    BY <1>1, <1>2, InsertVersionFacts
  <2> QED  BY <1>1, <1>2, <2>1, <2>2 DEF NumbersBelowRows
<1>3. ASSUME NEW id \in ContentId, NEW slug \in Slug, NEW f \in Fields, NEW t \in Time,
             CreateContent(id, slug, f, t)
      PROVE  NumbersBelowRows'
  <2>1. InsertVersion(id, 1, f) /\ 1 <= Len(content_versions) + 1
    BY <1>1, <1>3 DEF CreateContent
  <2>2. \A c \in DOMAIN contents' : contents'[c].current_version # 0
    BY <1>1, <1>3 DEF CreateContent, Insert, NumbersBelowRows
  <2> QED  BY <1>2, <2>1, <2>2 DEF NumbersBelowRows
<1>4. ASSUME NEW c \in ContentId, NEW n \in VersionId, NEW f \in Fields, NEW t \in Time,
             UpdateContent(c, n, f, t)
      PROVE  NumbersBelowRows'
  <2>1. /\ InsertVersion(c, n + 1, f) /\ c \in DOMAIN contents
        /\ contents[c].current_version = n /\ n \in 1 .. n /\ n + 1 \in Nat
    BY <1>1, <1>4 DEF UpdateContent, UpdateContentResult, VersionId
  <2>2. PICK v \in DOMAIN content_versions : content_versions[v].version = n
    BY <1>1, <2>1 DEF VersionHistory
  <2>3. n <= v /\ v <= Len(content_versions) /\ v \in Nat
    BY <1>1, <2>2 DEF NumbersBelowRows, TypeOK
  <2>4. n + 1 <= Len(content_versions) + 1
    BY <1>1, <2>3 DEF VersionId
  <2>5. \A d \in DOMAIN contents' : contents'[d].current_version # 0
    BY <1>1, <1>4 DEF UpdateContent, NumbersBelowRows, ContentRow
  <2> QED  BY <1>2, <2>1, <2>4, <2>5 DEF NumbersBelowRows
<1>5. ASSUME UNCHANGED content_versions,
             DOMAIN contents' = DOMAIN contents,
             \A c \in DOMAIN contents :
                contents'[c].current_version = contents[c].current_version
      PROVE  NumbersBelowRows'
  BY <1>1, <1>5 DEF NumbersBelowRows
<1>6. ASSUME NEW c, NEW v, NEW at, NEW now, SetPublished(c, v, at, now),
             UNCHANGED content_versions
      PROVE  NumbersBelowRows'
  <2>1. DOMAIN contents' = DOMAIN contents
    BY <1>6 DEF SetPublished
  <2>2. \A d \in DOMAIN contents :
           contents'[d].current_version = contents[d].current_version
    BY <1>1, <1>6 DEF SetPublished, ContentRow
  <2> QED  BY <1>5, <1>6, <2>1, <2>2
<1>7. ASSUME UNCHANGED <<contents, content_versions>> PROVE NumbersBelowRows'
  BY <1>5, <1>7
<1> QED
  BY <1>3, <1>4, <1>6, <1>7
  DEF StoreNext, storeVars, Publish, Unpublish, CreateSchedule, CancelSchedule,
      ClaimDueSchedules, CompleteScheduledPublish, FailSchedule, ReleaseClaims

\* What a transaction, or none, does to the tables, as far as handlers care.
LEMMA StoreStep ==
    ASSUME TablesInv, [StoreNext]_storeVars
    PROVE  TablesInv' /\ HistoryKept /\ SettledKept
<1>1. TablesInv'
  BY NextInv, NumbersStep DEF TablesInv
<1>2. CASE StoreNext
  BY <1>1, <1>2, HistoryStep, SettledStep DEF TablesInv
<1>3. CASE UNCHANGED storeVars
  <2>1. /\ Len(content_versions) \in Nat /\ Len(publish_events) \in Nat
        /\ \A c \in DOMAIN contents : contents[c].current_version \in Nat
    BY DEF TablesInv, Inv, TypeOK, ContentRow
  <2> QED  BY <1>1, <1>3, <2>1 DEF storeVars, HistoryKept, SettledKept
<1> QED  BY <1>2, <1>3

\* A view that was true stays true, whatever is committed.
LEMMA ViewsKept ==
    ASSUME TablesInv, TablesInv', HistoryKept
    PROVE  TrueViews \subseteq TrueViews'
<1> SUFFICES ASSUME NEW cv \in TrueViews PROVE cv \in TrueViews'
  OBVIOUS
<1> DEFINE c == cv[1]
           n == cv[2].version
<1>1. /\ cv \in ContentId \X ViewRow /\ c \in DOMAIN contents
      /\ n \in Nat \ {0} /\ n <= contents[c].current_version
      /\ cv[2].draft = content_versions[RowOf(c, n)].fields
  BY DEF TrueViews, ViewRow
<1>2. /\ c \in DOMAIN contents' /\ contents[c].current_version \in Nat
      /\ contents'[c].current_version \in Nat
      /\ contents'[c].current_version >= contents[c].current_version
  BY <1>1 DEF HistoryKept, TablesInv, Inv, TypeOK, ContentRow
<1>3. n \in 1 .. contents[c].current_version
  BY <1>1, <1>2
<1>4. RowOf(c, n)' = RowOf(c, n)
      /\ content_versions'[RowOf(c, n)] = content_versions[RowOf(c, n)]
  BY <1>1, <1>3, RowKept DEF TablesInv
<1>5. cv[2].draft = content_versions'[RowOf(c, n)'].fields
  BY <1>1, <1>4
<1>6. n <= contents'[c].current_version
  BY <1>1, <1>2
<1> QED  BY <1>1, <1>2, <1>5, <1>6 DEF TrueViews

-----------------------------------------------------------------------------
(* What the handlers keep. *)

\* What a handler carries from one database call to the next stays good,
\* whatever the others commit in between.
LEMMA ReqKept ==
    ASSUME TablesInv, TablesInv', HistoryKept, SettledKept,
           NEW e \in Editor, ReqOK(e), req'[e] = req[e]
    PROVE  ReqOK(e)'
<1>1. TrueViews \subseteq TrueViews'
  BY ViewsKept
<1>2. \A v \in DOMAIN content_versions :
          v \in DOMAIN content_versions' /\ content_versions'[v] = content_versions[v]
  BY RowsStay DEF TablesInv
<1>3. \A p : At(e, p)' <=> At(e, p)
  BY DEF At, Free
<1>4. ~Free(e)' => req'[e].pc \in {"render", "state", "wildcard", "update", "conflict",
                         "resolve", "publish", "schedule", "scheduled"}
  BY DEF ReqOK, Free
<1>5. At(e, "render") =>
          \A c \in DOMAIN req'[e].views : <<c, req'[e].views[c]>> \in TrueViews'
  BY <1>1 DEF ReqOK
<1>6. At(e, "wildcard") => req'[e].id \in ContentId /\ req'[e].fields \in Fields
  BY DEF ReqOK
<1>7. At(e, "update") =>
          <<req'[e].id, req'[e].base>> \in TrueViews' /\ req'[e].fields \in Fields
  BY <1>1 DEF ReqOK
<1>8. At(e, "conflict") =>
          /\ <<req'[e].id, req'[e].base>> \in TrueViews'
          /\ contents'[req'[e].id].current_version > req'[e].base.version
  <2> SUFFICES ASSUME At(e, "conflict")
               PROVE  /\ <<req[e].id, req[e].base>> \in TrueViews'
                      /\ contents'[req[e].id].current_version > req[e].base.version
    OBVIOUS
  <2>1. <<req[e].id, req[e].base>> \in TrueViews
        /\ contents[req[e].id].current_version > req[e].base.version
    BY DEF ReqOK
  <2>2. req[e].id \in DOMAIN contents /\ req[e].base.version \in Nat
    BY <2>1 DEF TrueViews, ViewRow
  <2>3. /\ contents[req[e].id].current_version \in Nat
        /\ contents'[req[e].id].current_version \in Nat
        /\ contents'[req[e].id].current_version >= contents[req[e].id].current_version
    BY <2>2, RowsStay DEF TablesInv
  <2> QED  BY <1>1, <2>1, <2>2, <2>3
<1>9. At(e, "resolve") =>
          /\ req'[e].id \in ContentId /\ req'[e].asked \in VersionId
          /\ req'[e].op \in {"publish", "schedule"}
          /\ req'[e].op = "schedule" => req'[e].runAt \in Time
  BY DEF ReqOK
<1>10. At(e, "publish") \/ At(e, "schedule") =>
          /\ req'[e].id \in ContentId
          /\ req'[e].row \in DOMAIN content_versions'
          /\ content_versions'[req'[e].row].content_id = req'[e].id
          /\ content_versions'[req'[e].row].version = req'[e].asked
          /\ At(e, "schedule") => req'[e].runAt \in Time
  BY <1>2 DEF ReqOK, OwnedBy
<1> QED
  BY <1>3, <1>4, <1>5, <1>6, <1>7, <1>8, <1>9, <1>10
  DEF ReqOK, OwnedBy

\* What an editor was shown stays true.
LEMMA SeenKept ==
    ASSUME TablesInv, TablesInv', HistoryKept, NEW e \in Editor, SeenOK(e),
           seen'[e] = seen[e]
    PROVE  SeenOK(e)'
<1> QED  BY ViewsKept DEF SeenOK

\* A called-off schedule is settled, and stays so.
LEMMA CancelKept ==
    ASSUME TablesInv, TablesInv', CancelInv, SettledKept, UNCHANGED calledOff
    PROVE  CancelInv'
<1> SUFFICES ASSUME NEW s \in calledOff
             PROVE  /\ s \in DOMAIN publish_schedules'
                    /\ publish_schedules'[s].status = "cancelled" /\ ~EventRecorded(s)'
  BY DEF CancelInv, CalledOffStaysOff
<1>1. s \in DOMAIN publish_schedules /\ publish_schedules[s].status = "cancelled"
  BY DEF CancelInv, CalledOffStaysOff
<1>2. s \in DOMAIN publish_schedules' /\ publish_schedules'[s] = publish_schedules[s]
  BY <1>1 DEF SettledKept, Active
<1>3. publish_schedules'[s].status = "done" <=> EventRecorded(s)'
  BY <1>2 DEF TablesInv, Inv, ExactlyOnce
<1> QED  BY <1>1, <1>2, <1>3

\* A handler of e takes a step, with a transaction or without: it is enough to
\* look at what e knows afterwards.
LEMMA HandlerStep ==
    ASSUME ApiInv, [StoreNext]_storeVars, NEW e \in Editor, NEW r, Continue(e, r),
           UNCHANGED <<seen, calledOff>>, ReqOK(e)'
    PROVE  ApiInv'
<1>1. TablesInv' /\ HistoryKept /\ SettledKept
  BY StoreStep DEF ApiInv
<1>2. DOMAIN req' = Editor /\ (\A d \in Editor : d # e => req'[d] = req[d])
  BY DEF Continue, ApiInv, EditorsInv
<1>3. \A d \in Editor : ReqOK(d)'
  BY <1>1, <1>2, ReqKept DEF ApiInv, EditorsInv
<1>4. \A d \in Editor : SeenOK(d)'
  BY <1>1, SeenKept DEF ApiInv, EditorsInv
<1>5. CancelInv'
  BY <1>1, CancelKept DEF ApiInv
<1> QED  BY <1>1, <1>2, <1>3, <1>4, <1>5 DEF ApiInv, EditorsInv

-----------------------------------------------------------------------------
(* Views. *)

\* What publishedVersionNumber may give.
NumberOrNull == (Nat \ {0}) \cup {NULL}

\* toContentDTO makes a view.
LEMMA ViewType ==
    ASSUME NEW n \in Nat \ {0}, NEW f \in Fields,
           NEW pub \in NumberOrNull
    PROVE  /\ View(n, f, pub) \in ViewRow
           /\ View(n, f, pub).version = n /\ View(n, f, pub).draft = f
<1>1. ContentStatus(pub, n) \in {"draft", "published", "published_with_draft"}
  BY DEF ContentStatus
<1> QED  BY <1>1 DEF View, ViewRow, NumberOrNull

\* publishedVersionNumber gives the number of a version, or NULL for a
\* draft.
LEMMA PublishedVersionNumberType ==
    ASSUME TablesInv, NEW c \in DOMAIN contents
    PROVE  PublishedVersionNumber(c) \in NumberOrNull
<1> DEFINE v == contents[c].published_version_id
<1>1. v # NULL => v \in DOMAIN content_versions
  BY DEF TablesInv, Inv, PointersOwned, OwnedBy
<1>2. \A u \in DOMAIN content_versions : content_versions[u].version \in Nat \ {0}
  <2> TAKE u \in DOMAIN content_versions
  <2> DEFINE r == content_versions[u]
  <2>1. r.content_id \in DOMAIN contents
        /\ r.version \in 1 .. contents[r.content_id].current_version
    BY DEF TablesInv, Inv, VersionHistory
  <2>2. contents[r.content_id].current_version \in Nat
    BY <2>1 DEF TablesInv, Inv, TypeOK, ContentRow
  <2> QED  BY <2>1, <2>2
<1> QED  BY <1>1, <1>2 DEF PublishedVersionNumber, NumberOrNull

\* What a handler reads of a document is true when it reads it.
LEMMA CurrentView ==
    ASSUME TablesInv, NEW c \in DOMAIN contents
    PROVE  <<c, ContentView(c)>> \in TrueViews
<1> DEFINE n == contents[c].current_version
           f == content_versions[RowOf(c, n)].fields
<1>1. n \in Nat \ {0} /\ c \in ContentId
  BY DEF TablesInv, Inv, TypeOK, ContentRow, NumbersBelowRows
<1>2. RowOf(c, n) \in DOMAIN content_versions
  BY <1>1, RowOfFacts DEF RowsFound, TablesInv
<1>3. f \in Fields
  <2>1. content_versions \in Seq(VersionRow)
    BY DEF TablesInv, Inv, TypeOK
  <2>2. content_versions[RowOf(c, n)] \in VersionRow
    BY <1>2, <2>1
  <2> QED  BY <2>2 DEF VersionRow
<1>4. /\ ContentView(c) \in ViewRow
      /\ ContentView(c).version = n /\ ContentView(c).draft = f
  BY <1>1, <1>3, ViewType, PublishedVersionNumberType DEF ContentView
<1> QED  BY <1>1, <1>4 DEF TrueViews

\* What a handler answers after its own write is true.
LEMMA FreshView ==
    ASSUME TablesInv, TablesInv', NEW c \in ContentId, NEW n \in Nat \ {0},
           NEW f \in Fields, NEW pub \in NumberOrNull, InsertVersion(c, n, f),
           c \in DOMAIN contents', n <= contents'[c].current_version
    PROVE  <<c, View(n, f, pub)>> \in TrueViews'
<1>1. /\ Len(content_versions) + 1 \in DOMAIN content_versions'
      /\ content_versions'[Len(content_versions) + 1] =
            [content_id |-> c, version |-> n, fields |-> f]
  <2>1. TypeOK /\ Len(content_versions) \in Nat
    BY DEF TablesInv, Inv, TypeOK
  <2> QED  BY <2>1, InsertVersionFacts
<1>2. RowOf(c, n)' = Len(content_versions) + 1
  <2>1. RowsFound'
    BY RowOfFacts, PTL DEF TablesInv
  <2>2. \A v \in DOMAIN content_versions' :
           content_versions'[v].content_id = c /\ content_versions'[v].version = n
           => RowOf(c, n)' = v
    BY <2>1 DEF RowsFound
  <2> QED  BY <1>1, <2>2
<1>3. View(n, f, pub) \in ViewRow /\ View(n, f, pub).version = n /\ View(n, f, pub).draft = f
  BY ViewType
<1> QED  BY <1>1, <1>2, <1>3 DEF TrueViews

-----------------------------------------------------------------------------
(* The points of a handler. *)

\* The answer shows true views.
LEMMA AtRender ==
    ASSUME NEW e \in Editor, NEW views, req'[e] = Rendered(views),
           \A c \in DOMAIN views : <<c, views[c]>> \in TrueViews'
    PROVE  ReqOK(e)'
<1>1. req'[e].pc = "render" /\ req'[e].views = views
  BY DEF Rendered
<1> QED  BY <1>1 DEF ReqOK, At, Free

\* A PUT has the view its tag came from.
LEMMA AtUpdate ==
    ASSUME NEW e \in Editor, NEW c, NEW f \in Fields, NEW base,
           req'[e] = [pc |-> "update", id |-> c, fields |-> f, base |-> base],
           <<c, base>> \in TrueViews'
    PROVE  ReqOK(e)'
<1>1. /\ req'[e].pc = "update" /\ req'[e].id = c
      /\ req'[e].fields = f /\ req'[e].base = base
  OBVIOUS
<1> QED  BY <1>1 DEF ReqOK, At, Free

\* Nothing is remembered of what was done but the document to read.
LEMMA AtState ==
    ASSUME NEW e \in Editor, NEW c, req'[e] = [pc |-> "state", id |-> c]
    PROVE  ReqOK(e)'
<1>1. req'[e].pc = "state"
  OBVIOUS
<1> QED  BY <1>1 DEF ReqOK, At, Free

\* A publish or a schedule has a version number to look up.
LEMMA AtResolve ==
    ASSUME NEW e \in Editor, NEW c \in ContentId, NEW n \in VersionId, NEW t,
           NEW op \in {"publish", "schedule"}, op = "schedule" => t \in Time,
           req'[e] = [pc |-> "resolve", op |-> op, id |-> c, asked |-> n, runAt |-> t]
    PROVE  ReqOK(e)'
<1>1. /\ req'[e].pc = "resolve" /\ req'[e].id = c /\ req'[e].asked = n
      /\ req'[e].op = op /\ req'[e].runAt = t
  OBVIOUS
<1> QED  BY <1>1 DEF ReqOK, At, Free

\* An answer without a view ends the request.
LEMMA AtEnd ==
    ASSUME NEW e \in Editor, req'[e] = NULL
    PROVE  ReqOK(e)'
<1> QED  BY DEF ReqOK, At, Free

-----------------------------------------------------------------------------
(* Handlers outside a transaction. *)

\* What Continue does.
LEMMA ContinueFacts ==
    ASSUME ApiInv, NEW e \in Editor, NEW r, Continue(e, r)
    PROVE  req'[e] = r
<1> QED  BY DEF ApiInv, EditorsInv, Continue

\* Reads and waits: what a handler takes along is true now.
LEMMA QuietStep ==
    ASSUME ApiInv, NEW e \in Editor,
           \/ HandleGetContent(e) \/ HandleListContents(e) \/ HandleUpdateContent(e)
           \/ HandlePublish(e) \/ HandleCreateSchedule(e)
           \/ ReadState(e) \/ ResolveWildcard(e) \/ Resolve(e)
           \/ UpdateConflict(e) \/ Rebase(e) \/ End(e)
    PROVE  ApiInv' /\ [StoreNext]_storeVars
<1>1. UNCHANGED <<storeVars, seen, calledOff>>
  BY DEF HandleGetContent, HandleListContents, HandleUpdateContent, HandlePublish,
         HandleCreateSchedule, ReadState, ResolveWildcard, Resolve, UpdateConflict,
         Rebase, End
<1>2. [StoreNext]_storeVars /\ TablesInv
  BY <1>1 DEF ApiInv
<1>3. TrueViews \subseteq TrueViews'
  BY <1>2, StoreStep, ViewsKept
<1>4. \A c \in DOMAIN contents : <<c, ContentView(c)>> \in TrueViews'
  BY <1>2, <1>3, CurrentView
<1>5. ReqOK(e) /\ SeenOK(e)
  BY DEF ApiInv, EditorsInv
<1>6. UNCHANGED <<contents, content_versions, publish_schedules, publish_events>>
  BY <1>1 DEF storeVars
<1>7. CASE HandleGetContent(e)
  BY <1>1, <1>2, <1>7, ContinueFacts, AtState, HandlerStep DEF HandleGetContent
<1>8. CASE HandleListContents(e)
  <2> DEFINE views == [c \in DOMAIN contents |-> ContentView(c)]
  <2>1. Continue(e, Rendered(views))
    BY <1>8 DEF HandleListContents
  <2>2. ReqOK(e)'
    BY <1>4, <2>1, ContinueFacts, AtRender
  <2> QED  BY <1>1, <1>2, <2>1, <2>2, HandlerStep
<1>9. CASE HandleUpdateContent(e)
  <2>1. PICK c \in ContentId, f \in Fields :
          \/ Continue(e, [pc |-> "wildcard", id |-> c, fields |-> f])
          \/ /\ seen[e][c] # NULL
             /\ Continue(e, [pc |-> "update", id |-> c, fields |-> f,
                             base |-> seen[e][c]])
    BY <1>9 DEF HandleUpdateContent
  <2>2. CASE Continue(e, [pc |-> "wildcard", id |-> c, fields |-> f])
    <3>1. req'[e].pc = "wildcard" /\ req'[e].id = c /\ req'[e].fields = f
      BY <2>2, ContinueFacts
    <3>2. ReqOK(e)'
      BY <3>1 DEF ReqOK, At, Free
    <3> QED  BY <1>1, <1>2, <2>2, <3>2, HandlerStep
  <2>3. CASE seen[e][c] # NULL /\ Continue(e, [pc |-> "update", id |-> c, fields |-> f,
                                                base |-> seen[e][c]])
    <3>1. <<c, seen[e][c]>> \in TrueViews'
      BY <1>3, <1>5, <2>3 DEF SeenOK
    <3>2. ReqOK(e)'
      BY <2>3, <3>1, ContinueFacts, AtUpdate
    <3> QED  BY <1>1, <1>2, <2>3, <3>2, HandlerStep
  <2> QED  BY <2>1, <2>2, <2>3
<1>10. CASE HandlePublish(e)
  <2>1. PICK c \in ContentId, n \in VersionId :
          Continue(e, [pc |-> "resolve", op |-> "publish", id |-> c, asked |-> n,
                       runAt |-> NULL])
    BY <1>10 DEF HandlePublish
  <2>2. ReqOK(e)'
    BY <2>1, ContinueFacts, AtResolve
  <2> QED  BY <1>1, <1>2, <2>1, <2>2, HandlerStep
<1>11. CASE HandleCreateSchedule(e)
  <2>1. PICK c \in ContentId, n \in VersionId, runAt \in Time :
          Continue(e, [pc |-> "resolve", op |-> "schedule", id |-> c, asked |-> n,
                       runAt |-> runAt])
    BY <1>11 DEF HandleCreateSchedule
  <2>2. ReqOK(e)'
    BY <2>1, ContinueFacts, AtResolve
  <2> QED  BY <1>1, <1>2, <2>1, <2>2, HandlerStep
<1>12. CASE ReadState(e)
  <2> DEFINE views == [c \in {req[e].id} |-> ContentView(c)]
  <2>1. Continue(e, Rendered(views)) /\ req[e].id \in DOMAIN contents
    BY <1>12 DEF ReadState
  <2>2. ReqOK(e)'
    BY <1>4, <2>1, ContinueFacts, AtRender
  <2> QED  BY <1>1, <1>2, <2>1, <2>2, HandlerStep
<1>13. CASE ResolveWildcard(e)
  <2>1. /\ Continue(e, [pc |-> "update", id |-> req[e].id, fields |-> req[e].fields,
                        base |-> ContentView(req[e].id)])
        /\ req[e].id \in DOMAIN contents /\ req[e].fields \in Fields
    BY <1>5, <1>13 DEF ResolveWildcard, ReqOK
  <2>2. ReqOK(e)'
    BY <1>4, <2>1, ContinueFacts, AtUpdate
  <2> QED  BY <1>1, <1>2, <2>1, <2>2, HandlerStep
<1>14. CASE Resolve(e)
  <2> DEFINE c == req[e].id
             n == req[e].asked
             r == [pc |-> req[e].op, id |-> req[e].id, asked |-> req[e].asked,
                    runAt |-> req[e].runAt, row |-> RowOf(req[e].id, req[e].asked)]
  <2>1. /\ Continue(e, r) /\ ~VersionFree(c, n)
        /\ c \in ContentId /\ req[e].op \in {"publish", "schedule"}
        /\ req[e].op = "schedule" => req[e].runAt \in Time
        /\ n \in VersionId
    BY <1>5, <1>14 DEF Resolve, ReqOK
  <2>2. OwnedBy(RowOf(c, n), c) /\ content_versions[RowOf(c, n)].version = n
    BY <2>1 DEF VersionFree, RowOf, OwnedBy
  <2>3. /\ req'[e].pc = req[e].op /\ req'[e].id = c /\ req'[e].asked = n
        /\ req'[e].runAt = req[e].runAt /\ req'[e].row = RowOf(c, n)
    BY <2>1, ContinueFacts
  <2>4. ReqOK(e)'
    BY <1>6, <2>1, <2>2, <2>3 DEF ReqOK, At, Free, OwnedBy
  <2> QED  BY <1>1, <1>2, <2>1, <2>4, HandlerStep
<1>15. CASE UpdateConflict(e)
  <2>1. /\ Continue(e, [pc |-> "conflict", id |-> req[e].id, base |-> req[e].base])
        /\ req[e].id \in DOMAIN contents
        /\ contents[req[e].id].current_version # req[e].base.version
        /\ <<req[e].id, req[e].base>> \in TrueViews
    BY <1>5, <1>15 DEF UpdateConflict, UpdateContentResult, ReqOK
  <2>2. /\ req[e].base.version \in Nat /\ contents[req[e].id].current_version \in Nat
        /\ req[e].base.version <= contents[req[e].id].current_version
    BY <1>2, <2>1 DEF TrueViews, ViewRow, TablesInv, Inv, TypeOK, ContentRow
  <2>3. contents'[req[e].id].current_version > req[e].base.version
    BY <1>6, <2>1, <2>2
  <2>4. req'[e].pc = "conflict" /\ req'[e].id = req[e].id /\ req'[e].base = req[e].base
    BY <2>1, ContinueFacts
  <2>5. ReqOK(e)'
    BY <1>3, <2>1, <2>3, <2>4 DEF ReqOK, At, Free
  <2> QED  BY <1>1, <1>2, <2>1, <2>5, HandlerStep
<1>16. CASE Rebase(e)
  <2>1. PICK f \in Fields :
          Continue(e, [pc |-> "update", id |-> req[e].id, fields |-> f,
                       base |-> ContentView(req[e].id)])
    BY <1>16 DEF Rebase
  <2>2. req[e].id \in DOMAIN contents
    BY <1>5, <1>16 DEF Rebase, ReqOK, TrueViews
  <2>3. ReqOK(e)'
    BY <1>4, <2>1, <2>2, ContinueFacts, AtUpdate
  <2> QED  BY <1>1, <1>2, <2>1, <2>3, HandlerStep
<1>17. CASE End(e)
  BY <1>1, <1>2, <1>17, ContinueFacts, AtEnd, HandlerStep DEF End
<1> QED
  BY <1>7, <1>8, <1>9, <1>10, <1>11, <1>12, <1>13, <1>14, <1>15, <1>16, <1>17

\* The answer arrives: what it shows becomes what the editor has seen.
LEMMA DeliverStep ==
    ASSUME ApiInv, NEW e \in Editor, Deliver(e)
    PROVE  ApiInv' /\ [StoreNext]_storeVars
<1>1. [StoreNext]_storeVars /\ UNCHANGED calledOff
  BY DEF Deliver
<1>2. TablesInv /\ TablesInv' /\ HistoryKept /\ SettledKept
  BY <1>1, StoreStep DEF ApiInv
<1>3. /\ DOMAIN req' = Editor /\ (\A d \in Editor : d # e => req'[d] = req[d])
      /\ req'[e] = NULL
  BY DEF Deliver, Continue, ApiInv, EditorsInv
<1>4. \A d \in Editor : ReqOK(d)'
  BY <1>2, <1>3, ReqKept, AtEnd DEF ApiInv, EditorsInv
<1>5. /\ \A d \in Editor : d # e => seen'[d] = seen[d]
      /\ seen'[e] = [c \in ContentId |->
            IF c \in DOMAIN req[e].views THEN req[e].views[c] ELSE seen[e][c]]
  BY DEF Deliver, ApiInv, EditorsInv
<1>6. \A c \in DOMAIN req[e].views : <<c, req[e].views[c]>> \in TrueViews
  BY DEF Deliver, ApiInv, EditorsInv, ReqOK
<1>7. SeenOK(e)'
  BY <1>2, <1>5, <1>6, ViewsKept DEF SeenOK, ApiInv, EditorsInv
<1>8. \A d \in Editor : SeenOK(d)'
  BY <1>2, <1>5, <1>7, SeenKept DEF ApiInv, EditorsInv
<1>9. seen' \in [Editor -> [ContentId -> ViewRow \cup {NULL}]]
  <2>1. \A c \in DOMAIN req[e].views : req[e].views[c] \in ViewRow
    BY <1>6 DEF TrueViews
  <2>2. seen'[e] \in [ContentId -> ViewRow \cup {NULL}]
    BY <1>5, <2>1 DEF ApiInv, EditorsInv
  <2>3. DOMAIN seen' = Editor /\ seen' = [d \in Editor |-> seen'[d]]
    BY DEF Deliver, ApiInv, EditorsInv
  <2> QED  BY <1>5, <2>2, <2>3 DEF ApiInv, EditorsInv
<1>10. CancelInv'
  BY <1>1, <1>2, CancelKept DEF ApiInv
<1> QED  BY <1>1, <1>2, <1>3, <1>4, <1>8, <1>9, <1>10 DEF ApiInv, EditorsInv

-----------------------------------------------------------------------------
(* Handlers in a transaction. *)

\* A new document is answered with its first version.
LEMMA CreateStep ==
    ASSUME ApiInv, NEW e \in Editor, HandleCreateContent(e)
    PROVE  ApiInv' /\ [StoreNext]_storeVars
<1>1. PICK id \in ContentId, slug \in Slug, f \in Fields, t \in Time :
          /\ CreateContent(id, slug, f, t)
          /\ Continue(e, Rendered([c \in {id} |-> View(1, f, NULL)]))
  BY DEF HandleCreateContent
<1>2. [StoreNext]_storeVars /\ UNCHANGED <<seen, calledOff>>
  BY <1>1 DEF StoreNext, HandleCreateContent
<1>3. TablesInv /\ TablesInv'
  BY <1>2, StoreStep DEF ApiInv
<1>4. InsertVersion(id, 1, f) /\ id \in DOMAIN contents' /\ 1 <= contents'[id].current_version
  BY <1>1 DEF CreateContent, Insert
<1>5. <<id, View(1, f, NULL)>> \in TrueViews'
  <2>1. NULL \in NumberOrNull
    BY DEF NumberOrNull
  <2> QED  BY <1>3, <1>4, <2>1, FreshView
<1>6. ReqOK(e)'
  <2> DEFINE views == [c \in {id} |-> View(1, f, NULL)]
  <2>1. \A c \in DOMAIN views : <<c, views[c]>> \in TrueViews'
    BY <1>5
  <2>2. req'[e] = Rendered(views)
    BY <1>1, ContinueFacts
  <2> QED  BY <2>1, <2>2, AtRender
<1> QED  BY <1>1, <1>2, <1>6, HandlerStep

\* The token of a PUT that wins is the number of an existing version, so that
\* the transaction is one of module Store's.
LEMMA WinningToken ==
    ASSUME TablesInv, NEW c \in DOMAIN contents,
           Len(content_versions) < MaxVersions
    PROVE  contents[c].current_version \in VersionId
<1> DEFINE n == contents[c].current_version
<1>1. n \in Nat \ {0} /\ Len(content_versions) \in Nat /\ MaxVersions \in Nat
  BY StoreAssumption DEF TablesInv, Inv, TypeOK, ContentRow, NumbersBelowRows
<1>2. PICK v \in DOMAIN content_versions : content_versions[v].version = n
  BY <1>1 DEF TablesInv, Inv, VersionHistory
<1>3. n <= v /\ v <= Len(content_versions) /\ v \in Nat
  BY <1>2 DEF TablesInv, NumbersBelowRows, Inv, TypeOK
<1> QED  BY <1>1, <1>3 DEF VersionId

\* A PUT that wins writes the next version and answers with it.
LEMMA UpdateStep ==
    ASSUME ApiInv, NEW e \in Editor, UpdateCommit(e)
    PROVE  ApiInv' /\ [StoreNext]_storeVars
<1> DEFINE c == req[e].id
           n == req[e].base.version
           f == req[e].fields
           views == [d \in {c} |-> View(n + 1, f, PublishedVersionNumber(d))]
<1>1. PICK t \in Time : UpdateContent(c, n, f, t)
  BY DEF UpdateCommit
<1>2. Continue(e, Rendered(views)) /\ UNCHANGED <<seen, calledOff>>
  BY DEF UpdateCommit
<1>3. TablesInv /\ f \in Fields
  BY DEF UpdateCommit, ApiInv, EditorsInv, ReqOK
<1>4. /\ c \in DOMAIN contents /\ contents[c].current_version = n
      /\ InsertVersion(c, n + 1, f)
      /\ contents' = [contents EXCEPT ![c].current_version = @ + 1, ![c].updated_at = t]
  BY <1>1 DEF UpdateContent, UpdateContentResult
<1>5. n \in VersionId /\ c \in ContentId
  BY <1>3, <1>4, WinningToken DEF InsertVersion, TablesInv, Inv, TypeOK
<1>6. [StoreNext]_storeVars
  BY <1>1, <1>3, <1>5 DEF StoreNext
<1>7. TablesInv'
  BY <1>3, <1>6, StoreStep
<1>8. c \in DOMAIN contents' /\ contents'[c].current_version = n + 1
  BY <1>3, <1>4 DEF TablesInv, Inv, TypeOK, ContentRow
<1>9. n + 1 \in Nat \ {0} /\ n + 1 <= contents'[c].current_version
  BY <1>5, <1>8 DEF VersionId
<1>10. PublishedVersionNumber(c) \in NumberOrNull
  BY <1>3, <1>4, PublishedVersionNumberType
<1>11. <<c, View(n + 1, f, PublishedVersionNumber(c))>> \in TrueViews'
  BY <1>3, <1>4, <1>5, <1>7, <1>8, <1>9, <1>10, FreshView
<1>12. ReqOK(e)'
  <2>1. \A d \in DOMAIN views : <<d, views[d]>> \in TrueViews'
    BY <1>11
  <2>2. req'[e] = Rendered(views)
    BY <1>2, ContinueFacts
  <2> QED  BY <2>1, <2>2, AtRender
<1> QED  BY <1>2, <1>6, <1>12, HandlerStep

\* The row of a version is in the range of the table.
LEMMA OwnedRow ==
    ASSUME TablesInv, NEW v, NEW c, OwnedBy(v, c)
    PROVE  v \in VersionId
<1>1. content_versions \in Seq(VersionRow) /\ Len(content_versions) <= MaxVersions
  BY DEF TablesInv, Inv, TypeOK
<1>2. v \in 1 .. Len(content_versions) /\ Len(content_versions) \in Nat
  BY <1>1 DEF OwnedBy
<1> QED  BY <1>1, <1>2, StoreAssumption DEF VersionId

\* A publish, written or not.
LEMMA PublishStep ==
    ASSUME ApiInv, NEW e \in Editor, PublishCommit(e)
    PROVE  ApiInv' /\ [StoreNext]_storeVars
<1> DEFINE c == req[e].id
           v == req[e].row
<1>1. /\ Continue(e, [pc |-> "state", id |-> c])
      /\ UNCHANGED <<seen, calledOff>>
  BY DEF PublishCommit
<1>2. TablesInv /\ c \in ContentId /\ OwnedBy(v, c)
  BY DEF PublishCommit, ApiInv, EditorsInv, ReqOK
<1>3. v \in VersionId
  BY <1>2, OwnedRow
<1>4. [StoreNext]_storeVars
  BY <1>2, <1>3 DEF PublishCommit, StoreNext
<1>5. ReqOK(e)'
  BY <1>1, ContinueFacts, AtState
<1> QED  BY <1>1, <1>4, <1>5, HandlerStep

\* A schedule that is created.
LEMMA ScheduleStep ==
    ASSUME ApiInv, NEW e \in Editor, ScheduleCommit(e)
    PROVE  ApiInv' /\ [StoreNext]_storeVars
<1>1. PICK s \in ScheduleId :
          /\ CreateSchedule(s, req[e].id, req[e].row, req[e].runAt)
          /\ Continue(e, [pc |-> "scheduled"])
  BY DEF ScheduleCommit
<1>2. /\ TablesInv /\ req[e].id \in ContentId /\ OwnedBy(req[e].row, req[e].id)
      /\ req[e].runAt \in Time /\ UNCHANGED <<seen, calledOff>>
  BY DEF ScheduleCommit, ApiInv, EditorsInv, ReqOK
<1>3. req[e].row \in VersionId
  BY <1>2, OwnedRow
<1>4. [StoreNext]_storeVars
  BY <1>1, <1>2, <1>3 DEF StoreNext
<1>5. req'[e].pc = "scheduled"
  BY <1>1, ContinueFacts
<1>6. ReqOK(e)'
  BY <1>5 DEF ReqOK, At, Free
<1> QED  BY <1>1, <1>2, <1>4, <1>6, HandlerStep

\* An unpublish, written or not.
LEMMA UnpublishStep ==
    ASSUME ApiInv, NEW e \in Editor, HandleUnpublish(e)
    PROVE  ApiInv' /\ [StoreNext]_storeVars
<1>1. PICK c \in ContentId :
          /\ \/ \E t \in Time : Unpublish(c, t)
             \/ UnpublishResult(c) = "noop" /\ UNCHANGED storeVars
          /\ Continue(e, [pc |-> "state", id |-> c])
  BY DEF HandleUnpublish
<1>2. [StoreNext]_storeVars /\ UNCHANGED <<seen, calledOff>>
  BY <1>1 DEF StoreNext, HandleUnpublish
<1>3. ReqOK(e)'
  BY <1>1, ContinueFacts, AtState
<1> QED  BY <1>1, <1>2, <1>3, HandlerStep

\* A cancellation settles its schedule, which had published nothing.
LEMMA CancelStep ==
    ASSUME ApiInv, HandleCancelSchedule
    PROVE  ApiInv' /\ [StoreNext]_storeVars
<1>1. PICK s \in DOMAIN publish_schedules :
          CancelSchedule(s) /\ calledOff' = calledOff \cup {s}
  BY DEF HandleCancelSchedule
<1>2. TablesInv /\ s \in ScheduleId /\ TypeOK
  BY DEF ApiInv, TablesInv, Inv, TypeOK
<1>3. [StoreNext]_storeVars /\ UNCHANGED <<req, seen>>
  BY <1>1, <1>2 DEF StoreNext, HandleCancelSchedule
<1>4. TablesInv' /\ HistoryKept /\ SettledKept
  BY <1>2, <1>3, StoreStep
<1>5. EditorsInv'
  BY <1>2, <1>3, <1>4, ReqKept, SeenKept DEF ApiInv, EditorsInv
<1>6. s \in DOMAIN publish_schedules' /\ publish_schedules'[s].status = "cancelled"
  BY <1>1, <1>2, UnlockFacts DEF CancelSchedule
<1>7. ASSUME NEW u \in calledOff'
      PROVE  u \in DOMAIN publish_schedules' /\ publish_schedules'[u].status = "cancelled"
  BY <1>1, <1>4, <1>6 DEF ApiInv, CancelInv, CalledOffStaysOff, SettledKept, Active
<1>8. \A u \in DOMAIN publish_schedules' :
          publish_schedules'[u].status = "done" <=> EventRecorded(u)'
  BY <1>4 DEF TablesInv, Inv, ExactlyOnce
<1>9. CancelInv'
  BY <1>7, <1>8 DEF CancelInv, CalledOffStaysOff
<1> QED  BY <1>3, <1>4, <1>5, <1>9 DEF ApiInv

\* The transactions of the workers, and a step of somebody else.
LEMMA ElsewhereStep ==
    ASSUME ApiInv, Scheduled \/ UNCHANGED allVars
    PROVE  ApiInv' /\ [StoreNext]_storeVars
<1>1. [StoreNext]_storeVars
  BY DEF Scheduled, StoreNext, allVars
<1>2. UNCHANGED <<req, seen, calledOff>>
  BY DEF Scheduled, allVars, apiVars
<1>3. TablesInv /\ TablesInv' /\ HistoryKept /\ SettledKept
  BY <1>1, StoreStep DEF ApiInv
<1>4. EditorsInv'
  BY <1>2, <1>3, ReqKept, SeenKept DEF ApiInv, EditorsInv
<1>5. CancelInv'
  BY <1>2, <1>3, CancelKept DEF ApiInv
<1> QED  BY <1>1, <1>3, <1>4, <1>5 DEF ApiInv

-----------------------------------------------------------------------------
(* Theorems. *)

\* Nobody has asked for anything yet.
LEMMA InitApiInv == ApiInit => ApiInv
<1> SUFFICES ASSUME ApiInit PROVE ApiInv
  OBVIOUS
<1>1. Inv
  BY InitInv DEF ApiInit
<1>2. NumbersBelowRows
  BY DEF ApiInit, StoreInit, NumbersBelowRows
<1>3. EditorsInv
  BY DEF ApiInit, EditorsInv, ReqOK, SeenOK, At, Free
<1>4. CancelInv
  BY DEF ApiInit, CancelInv, CalledOffStaysOff
<1> QED  BY <1>1, <1>2, <1>3, <1>4 DEF ApiInv, TablesInv

\* The invariant is inductive, and every step is one of module Store's or
\* touches no table.
LEMMA NextApiInv ==
    ApiInv /\ [ApiNext]_allVars => ApiInv' /\ [StoreNext]_storeVars
<1> SUFFICES ASSUME ApiInv, [ApiNext]_allVars
             PROVE  ApiInv' /\ [StoreNext]_storeVars
  OBVIOUS
<1>1. ASSUME NEW e \in Editor,
             \/ HandleGetContent(e) \/ HandleListContents(e) \/ HandleUpdateContent(e)
             \/ HandlePublish(e) \/ HandleCreateSchedule(e)
             \/ ReadState(e) \/ ResolveWildcard(e) \/ Resolve(e)
             \/ UpdateConflict(e) \/ Rebase(e) \/ End(e)
      PROVE  ApiInv' /\ [StoreNext]_storeVars
  BY <1>1, QuietStep
<1>2. ASSUME NEW e \in Editor,
             \/ HandleCreateContent(e) \/ UpdateCommit(e) \/ PublishCommit(e)
             \/ ScheduleCommit(e) \/ HandleUnpublish(e) \/ Deliver(e)
      PROVE  ApiInv' /\ [StoreNext]_storeVars
  BY <1>2, CreateStep, UpdateStep, PublishStep, ScheduleStep, UnpublishStep, DeliverStep
<1>3. CASE HandleCancelSchedule
  BY <1>3, CancelStep
<1>4. CASE Scheduled \/ UNCHANGED allVars
  BY <1>4, ElsewhereStep
<1> QED  BY <1>1, <1>2, <1>3, <1>4 DEF ApiNext

\* ApiInv holds in every reachable state.
THEOREM ApiInvariance == ApiSpec => []ApiInv
<1> QED  BY InitApiInv, NextApiInv, PTL DEF ApiSpec

\* The handlers and the workers together are an implementation of module
\* Store: every step of theirs is one of its transactions, with arguments it
\* admits, or touches no table.  So all its theorems hold of the whole API.
THEOREM HandlersImplementStore == ApiSpec => ApiImplementsStore
<1>1. ApiInit => StoreInit
  BY DEF ApiInit
<1> QED  BY <1>1, ApiInvariance, NextApiInv, PTL DEF ApiSpec, ApiImplementsStore, StoreSpec

\* Hence the admin API keeps what the service promises (module Publication),
\* although its handlers resolve versions and read drafts several database calls
\* before they commit.
THEOREM ApiKeepsPromises == ApiSpec => ImplementsPublication
<1> QED
  BY HandlersImplementStore, StoreImplementsPublication, PTL DEF ApiImplementsStore

\* Requests and views keep their types.
THEOREM ApiTypeCorrect == ApiSpec => []ApiTypeOK
<1>1. ApiInv => ApiTypeOK
  BY DEF ApiInv, TablesInv, Inv, TypeOK, EditorsInv, ReqOK, CancelInv, ApiTypeOK
<1> QED  BY <1>1, ApiInvariance, PTL

\* An entity tag identifies the draft an editor has in its hands.
THEOREM TagsIdentifyDrafts == ApiSpec => []TagIdentifiesDraft
<1>1. ApiInv => TagIdentifiesDraft
  BY DEF ApiInv, EditorsInv, SeenOK, TrueViews, TagIdentifiesDraft
<1> QED  BY <1>1, ApiInvariance, PTL

\* A 412 names a newer version than the one that was refused.
THEOREM ConflictsAreNews == ApiSpec => []ConflictTellsNewer
<1>1. ApiInv => ConflictTellsNewer
  BY DEF ApiInv, EditorsInv, ReqOK, ConflictTellsNewer
<1> QED  BY <1>1, ApiInvariance, PTL

\* A 204 for a cancellation is final.
THEOREM CancellationIsFinal == ApiSpec => []CalledOffStaysOff
<1>1. ApiInv => CalledOffStaysOff
  BY DEF ApiInv, CancelInv
<1> QED  BY <1>1, ApiInvariance, PTL

\* A PUT that wins replaces the draft its editor had in its hands.
LEMMA UpdateSaw ==
    ASSUME ApiInv, NEW e \in Editor, UpdateCommit(e)
    PROVE  EditsWhatItSaw
<1>1. PICK t \in Time : UpdateContent(req[e].id, req[e].base.version, req[e].fields, t)
  BY DEF UpdateCommit
<1>2. <<req[e].id, req[e].base>> \in TrueViews /\ TablesInv /\ At(e, "update")
  BY DEF UpdateCommit, ApiInv, EditorsInv, ReqOK
<1>3. /\ req[e].id \in DOMAIN contents
      /\ contents[req[e].id].current_version = req[e].base.version
      /\ contents' = [contents EXCEPT ![req[e].id].current_version = @ + 1,
                                      ![req[e].id].updated_at = t]
  BY <1>1 DEF UpdateContent, UpdateContentResult
<1>4. \A c \in DOMAIN contents : c # req[e].id => contents'[c] = contents[c]
  BY <1>3
<1>5. req[e].base.draft = ContentView(req[e].id).draft
  BY <1>2, <1>3 DEF TrueViews, ContentView, View
<1>6. req'[e] # req[e]
  <2>1. req[e].pc = "update"
    BY <1>2 DEF At
  <2>2. req'[e].pc = "render"
    BY ContinueFacts DEF UpdateCommit, Rendered
  <2> QED  BY <2>1, <2>2
<1> QED  BY <1>2, <1>3, <1>4, <1>5, <1>6 DEF EditsWhatItSaw

\* Nothing but a PUT changes a version counter.
LEMMA OnlyUpdatesCount ==
    ASSUME ApiInv, ApiNext, ~(\E e \in Editor : UpdateCommit(e))
    PROVE  EditsWhatItSaw
<1> SUFFICES \A c \in DOMAIN contents :
                contents'[c].current_version = contents[c].current_version
  BY DEF EditsWhatItSaw
<1>1. contents \in [DOMAIN contents -> ContentRow]
  BY DEF ApiInv, TablesInv, Inv, TypeOK
<1>2. ASSUME UNCHANGED contents
      PROVE  \A c \in DOMAIN contents :
                contents'[c].current_version = contents[c].current_version
  BY <1>2
<1>3. ASSUME NEW d, NEW v, NEW at, NEW now, SetPublished(d, v, at, now)
      PROVE  \A c \in DOMAIN contents :
                contents'[c].current_version = contents[c].current_version
  BY <1>1, <1>3 DEF SetPublished, ContentRow
<1>4. ASSUME NEW id, NEW slug, NEW f, NEW t, CreateContent(id, slug, f, t)
      PROVE  \A c \in DOMAIN contents :
                contents'[c].current_version = contents[c].current_version
  BY <1>4 DEF CreateContent, Insert
<1>5. ASSUME NEW e \in Editor,
             \/ HandleGetContent(e) \/ HandleListContents(e) \/ HandleUpdateContent(e)
             \/ HandlePublish(e) \/ HandleCreateSchedule(e)
             \/ ReadState(e) \/ ResolveWildcard(e) \/ Resolve(e)
             \/ UpdateConflict(e) \/ Rebase(e) \/ End(e) \/ Deliver(e) \/ ScheduleCommit(e)
      PROVE  UNCHANGED contents
  BY <1>5 DEF HandleGetContent, HandleListContents, HandleUpdateContent, HandlePublish,
         HandleCreateSchedule, ReadState, ResolveWildcard, Resolve, UpdateConflict,
         Rebase, End, Deliver, ScheduleCommit, CreateSchedule, storeVars
<1>6. ASSUME NEW e \in Editor, HandleCreateContent(e)
      PROVE  \A c \in DOMAIN contents :
                contents'[c].current_version = contents[c].current_version
  BY <1>4, <1>6 DEF HandleCreateContent
<1>7. ASSUME NEW e \in Editor, PublishCommit(e) \/ HandleUnpublish(e)
      PROVE  \A c \in DOMAIN contents :
                contents'[c].current_version = contents[c].current_version
  BY <1>2, <1>3, <1>7
  DEF PublishCommit, HandleUnpublish, Publish, Unpublish, storeVars
<1>8. ASSUME HandleCancelSchedule
      PROVE  UNCHANGED contents
  BY <1>8 DEF HandleCancelSchedule, CancelSchedule
<1>9. ASSUME Scheduled
      PROVE  \A c \in DOMAIN contents :
                contents'[c].current_version = contents[c].current_version
  BY <1>2, <1>3, <1>9
  DEF Scheduled, ClaimDueSchedules, CompleteScheduledPublish, FailSchedule, ReleaseClaims
<1> QED  BY <1>2, <1>5, <1>6, <1>7, <1>8, <1>9 DEF ApiNext

\* No editor ever overwrites a draft that it, or the handler on its behalf, has
\* not read.
THEOREM NoBlindOverwrites == ApiSpec => NoBlindOverwrite
<1>1. ApiInv /\ [ApiNext]_allVars => [EditsWhatItSaw]_allVars
  BY UpdateSaw, OnlyUpdatesCount
<1> QED  BY <1>1, ApiInvariance, PTL DEF ApiSpec, NoBlindOverwrite

\* Nothing but its transaction takes a publish to the answer, and a schedule.
LEMMA OnlyCommits ==
    ASSUME ApiInv, ApiNext, NEW e \in Editor
    PROVE  /\ At(e, "publish") /\ At(e, "state")' => PublishCommit(e)
           /\ At(e, "schedule") /\ At(e, "scheduled")' => ScheduleCommit(e)
<1> SUFFICES ASSUME \/ At(e, "publish") /\ At(e, "state")'
                    \/ At(e, "schedule") /\ At(e, "scheduled")'
             PROVE  \/ At(e, "publish") /\ PublishCommit(e)
                    \/ At(e, "schedule") /\ ScheduleCommit(e)
  BY DEF At
<1>1. /\ ~Free(e) /\ req[e].pc \in {"publish", "schedule"}
      /\ ~Free(e)' /\ req'[e].pc \in {"state", "scheduled"}
  BY DEF At
<1>2. req'[e] # req[e]
  BY <1>1
<1>3. ASSUME NEW d \in Editor, NEW r, Continue(d, r)
      PROVE  d = e /\ r # NULL /\ r.pc \in {"state", "scheduled"}
  <2>1. d # e => req'[e] = req[e]
    BY <1>3 DEF Continue, ApiInv, EditorsInv
  <2>2. req'[d] = r
    BY <1>3, ContinueFacts
  <2> QED  BY <1>1, <1>2, <2>1, <2>2 DEF Free
<1>4. ASSUME NEW d \in Editor,
             \/ HandleCreateContent(d) \/ HandleGetContent(d) \/ HandleListContents(d)
             \/ HandleUpdateContent(d) \/ HandlePublish(d) \/ HandleCreateSchedule(d)
             \/ HandleUnpublish(d)
      PROVE  FALSE
  <2>1. Free(d) /\ (\E r : Continue(d, r))
    BY <1>4 DEF HandleCreateContent, HandleGetContent, HandleListContents,
           HandleUpdateContent, HandlePublish, HandleCreateSchedule, HandleUnpublish
  <2> QED  BY <1>1, <1>3, <2>1
<1>5. ASSUME NEW d \in Editor,
             \/ ReadState(d) \/ ResolveWildcard(d) \/ Resolve(d) \/ UpdateCommit(d)
             \/ UpdateConflict(d) \/ Rebase(d) \/ Deliver(d)
      PROVE  FALSE
  <2>1. /\ ~Free(d) /\ (\E r : Continue(d, r))
        /\ req[d].pc \in {"state", "wildcard", "resolve", "update", "conflict", "render"}
    BY <1>5 DEF ReadState, ResolveWildcard, Resolve, UpdateCommit, UpdateConflict,
           Rebase, Deliver, At
  <2> QED  BY <1>1, <1>3, <2>1
<1>6. ASSUME NEW d \in Editor, End(d) PROVE FALSE
  BY <1>3, <1>6 DEF End
<1>7. ASSUME NEW d \in Editor, PublishCommit(d) \/ ScheduleCommit(d)
      PROVE  d = e
  BY <1>3, <1>7 DEF PublishCommit, ScheduleCommit
<1>8. ASSUME HandleCancelSchedule \/ Scheduled PROVE FALSE
  BY <1>2, <1>8 DEF HandleCancelSchedule, Scheduled, apiVars
<1>9. PublishCommit(e) \/ ScheduleCommit(e)
  BY <1>4, <1>5, <1>6, <1>7, <1>8 DEF ApiNext
<1> QED  BY <1>9 DEF PublishCommit, ScheduleCommit

\* At the commit, the row looked up before is the version that was asked for.
LEMMA PublishAsked ==
    ASSUME ApiInv, NEW e \in Editor, PublishCommit(e)
    PROVE  PublishesAsAsked(e)
<1> DEFINE c == req[e].id
           v == req[e].row
<1>1. /\ TablesInv /\ c \in ContentId /\ OwnedBy(v, c)
      /\ content_versions[v].version = req[e].asked
  BY DEF PublishCommit, ApiInv, EditorsInv, ReqOK
<1>2. CASE \E t \in Time : Publish(c, v, t)
  <2>1. PICK t \in Time : Publish(c, v, t)
    BY <1>2
  <2>2. /\ c \in DOMAIN contents /\ contents[c].published_version_id # v
        /\ SetPublished(c, v, t, t)
        /\ InsertEvent(c, v, "publish", "manual", NULL, t)
    BY <2>1 DEF Publish, PublishResult
  <2>3. contents'[c].published_version_id = v /\ contents'[c].published_at = t
    BY <1>1, <2>2 DEF SetPublished, TablesInv, Inv, TypeOK, ContentRow
  <2>4. \A d \in DOMAIN contents : d # c => contents'[d] = contents[d]
    BY <2>2 DEF SetPublished
  <2> QED  BY <1>1, <2>2, <2>3, <2>4 DEF PublishesAsAsked, InsertEvent
<1>3. CASE PublishResult(c, v) = "noop" /\ UNCHANGED storeVars
  <2>1. contents[c].published_version_id = v
    BY <1>3 DEF PublishResult
  <2> QED  BY <1>1, <1>3, <2>1 DEF PublishesAsAsked, storeVars
<1> QED  BY <1>2, <1>3 DEF PublishCommit

\* The same of a schedule.
LEMMA ScheduleAsked ==
    ASSUME ApiInv, NEW e \in Editor, ScheduleCommit(e)
    PROVE  SchedulesAsAsked(e)
<1> DEFINE c == req[e].id
           v == req[e].row
<1>1. PICK s \in ScheduleId : CreateSchedule(s, c, v, req[e].runAt)
  BY DEF ScheduleCommit
<1>2. OwnedBy(v, c) /\ content_versions[v].version = req[e].asked
  BY DEF ScheduleCommit, ApiInv, EditorsInv, ReqOK
<1> DEFINE row == publish_schedules'[s]
<1>3. /\ s \in DOMAIN publish_schedules' \ DOMAIN publish_schedules
      /\ publish_schedules' = Insert(publish_schedules, s, row)
      /\ row.status = "pending" /\ row.run_at = req[e].runAt
      /\ row.content_id = c /\ row.version_id = v
  BY <1>1 DEF CreateSchedule, Insert
<1> QED  BY <1>2, <1>3 DEF SchedulesAsAsked

\* A publish and a schedule do, when they commit, what was asked for, and nothing
\* else: with any number of editors and workers, whatever they commit between
\* the lookup of the version and the transaction.
THEOREM AnsweredAsAsked == ApiSpec => DoneAsAsked
<1> DEFINE Asked == \A e \in Editor : PublishesAsAsked(e) /\ SchedulesAsAsked(e)
<1>1. ASSUME ApiInv, ApiNext, NEW e \in Editor
      PROVE  PublishesAsAsked(e) /\ SchedulesAsAsked(e)
  <2>1. CASE At(e, "publish") /\ At(e, "state")'
    <3>1. PublishesAsAsked(e)
      BY <1>1, <2>1, OnlyCommits, PublishAsked
    <3>2. ~At(e, "schedule")
      BY <2>1 DEF At
    <3> QED  BY <3>1, <3>2 DEF SchedulesAsAsked
  <2>2. CASE At(e, "schedule") /\ At(e, "scheduled")'
    <3>1. SchedulesAsAsked(e)
      BY <1>1, <2>2, OnlyCommits, ScheduleAsked
    <3>2. ~At(e, "publish")
      BY <2>2 DEF At
    <3> QED  BY <3>1, <3>2 DEF PublishesAsAsked
  <2>3. CASE /\ ~(At(e, "publish") /\ At(e, "state")')
             /\ ~(At(e, "schedule") /\ At(e, "scheduled")')
    BY <2>3 DEF PublishesAsAsked, SchedulesAsAsked
  <2> QED  BY <2>1, <2>2, <2>3
<1>2. ApiInv /\ [ApiNext]_allVars => [Asked]_allVars
  BY <1>1
<1> QED  BY <1>2, ApiInvariance, PTL DEF ApiSpec, DoneAsAsked

=============================================================================
