-------------------------- MODULE RefinementProofs --------------------------
(***************************************************************************)
(* Proof that the database implements module Publication, for every set of *)
(* documents, workers and schedules and every clock.                       *)
(*                                                                         *)
(* Step by step: an insert into content_versions is a Write, a manual      *)
(* publish a Release, an unpublish a Withdraw, a new schedule a            *)
(* MakePromise, a cancellation a CallOff and a completion a Keep; a claim, *)
(* a failure and a release of leases are invisible.  The invariant Inv of  *)
(* StoreProofs is what makes the mapping total: every number of a document *)
(* has one row, and every pointer lands on a version of its own document.  *)
(***************************************************************************)
EXTENDS StoreRefinement, StoreProofs

-----------------------------------------------------------------------------
(* Reading the mapping. *)

\* Append as a function of positions.
LEMMA AppendIs ==
    ASSUME NEW S, NEW s \in Seq(S), NEW e \in S
    PROVE  Append(s, e) = [i \in 1 .. (Len(s) + 1) |-> IF i <= Len(s) THEN s[i] ELSE e]
<1> DEFINE t == Append(s, e)
<1>1. /\ Len(s) \in Nat /\ t \in Seq(S) /\ Len(t) = Len(s) + 1
      /\ \A i \in 1 .. Len(s) : t[i] = s[i]
      /\ t[Len(s) + 1] = e
  OBVIOUS
<1> HIDE DEF t
<1>2. t = [i \in 1 .. Len(t) |-> t[i]]
  BY <1>1
<1>3. \A i \in 1 .. (Len(s) + 1) : t[i] = IF i <= Len(s) THEN s[i] ELSE e
  BY <1>1
<1>4. t = [i \in 1 .. (Len(s) + 1) |-> IF i <= Len(s) THEN s[i] ELSE e]
  BY <1>1, <1>2, <1>3
<1> QED  BY <1>4 DEF t

\* The editions of a document are the payloads of its versions, in order.
LEMMA HistoryOf ==
    ASSUME Inv, NEW c \in DOMAIN contents
    PROVE  /\ contents[c].current_version \in Nat
           /\ historyBar[c] \in Seq(Fields)
           /\ Len(historyBar[c]) = contents[c].current_version
           /\ \A n \in 1 .. contents[c].current_version :
                 historyBar[c][n] = content_versions[RowOf(c, n)].fields
<1>1. c \in ContentId /\ contents[c].current_version \in Nat
  BY DEF Inv, TypeOK, ContentRow
<1>2. historyBar[c] = [n \in 1 .. contents[c].current_version |->
                          content_versions[RowOf(c, n)].fields]
  BY <1>1 DEF historyBar
<1>3. \A n \in 1 .. contents[c].current_version :
          content_versions[RowOf(c, n)].fields \in Fields
  <2>1. \A n \in 1 .. contents[c].current_version :
            RowOf(c, n) \in DOMAIN content_versions
    BY RowOfFacts DEF RowsFound
  <2>2. \A v \in DOMAIN content_versions : content_versions[v].fields \in Fields
    <3>1. content_versions \in Seq(VersionRow)  BY DEF Inv, TypeOK
    <3>2. \A v \in DOMAIN content_versions : content_versions[v] \in VersionRow  BY <3>1
    <3> QED  BY <3>2 DEF VersionRow
  <2> QED  BY <2>1, <2>2
<1> QED  BY <1>1, <1>2, <1>3

\* The history of a document stays when its counter does.
LEMMA SameEditions ==
    ASSUME Inv, Inv', HistoryKept, NEW c \in DOMAIN contents,
           contents'[c].current_version = contents[c].current_version
    PROVE  historyBar'[c] = historyBar[c]
<1>1. c \in ContentId /\ c \in DOMAIN contents'
  BY DEF HistoryKept, Inv, TypeOK
<1>2. historyBar[c] = [n \in 1 .. contents[c].current_version |->
                          content_versions[RowOf(c, n)].fields]
  BY <1>1 DEF historyBar
<1>3. historyBar'[c] = [n \in 1 .. contents'[c].current_version |->
                          content_versions'[RowOf(c, n)'].fields]
  BY <1>1 DEF historyBar
<1>4. \A n \in 1 .. contents[c].current_version :
          content_versions'[RowOf(c, n)'].fields = content_versions[RowOf(c, n)].fields
  BY RowKept
<1> QED  BY <1>2, <1>3, <1>4

\* A transaction that inserts no version leaves all histories alone.
LEMMA SameHistory ==
    ASSUME Inv, Inv', HistoryKept, DOMAIN contents' = DOMAIN contents,
           \A c \in DOMAIN contents :
              contents'[c].current_version = contents[c].current_version
    PROVE  historyBar' = historyBar
<1>1. \A c \in DOMAIN contents : historyBar'[c] = historyBar[c]
  BY SameEditions
<1>2. \A c \in ContentId \ DOMAIN contents : historyBar'[c] = << >> /\ historyBar[c] = << >>
  BY DEF historyBar
<1>3. /\ historyBar = [c \in ContentId |-> historyBar[c]]
      /\ historyBar' = [c \in ContentId |-> historyBar'[c]]
  BY DEF historyBar
<1> QED  BY <1>1, <1>2, <1>3

\* A version inserted under the next number of c is the next edition of c and
\* of no other document.
LEMMA NextEdition ==
    ASSUME Inv, Inv', HistoryKept, NEW c \in ContentId, NEW f \in Fields, NEW k \in Nat,
           IF c \in DOMAIN contents THEN contents[c].current_version = k ELSE k = 0,
           DOMAIN contents' = DOMAIN contents \cup {c},
           contents'[c].current_version = k + 1,
           \A d \in DOMAIN contents \ {c} :
              contents'[d].current_version = contents[d].current_version,
           \E v \in DOMAIN content_versions' :
              content_versions'[v] = [content_id |-> c, version |-> k + 1, fields |-> f]
    PROVE  historyBar' = [historyBar EXCEPT ![c] = Append(historyBar[c], f)]
<1>1. \A d \in DOMAIN contents \ {c} : historyBar'[d] = historyBar[d]
  BY SameEditions
<1>2. \A d \in ContentId \ (DOMAIN contents \cup {c}) : historyBar'[d] = historyBar[d]
  BY DEF historyBar
<1>3. historyBar'[c] = Append(historyBar[c], f)
  <2>1. /\ historyBar[c] \in Seq(Fields) /\ Len(historyBar[c]) = k
        /\ \A n \in 1 .. k : historyBar[c][n] = content_versions[RowOf(c, n)].fields
    <3>1. CASE c \in DOMAIN contents  BY <3>1, HistoryOf
    <3>2. CASE c \notin DOMAIN contents
      <4>1. historyBar[c] = << >>  BY <3>2 DEF historyBar
      <4> QED  BY <3>2, <4>1
    <3> QED  BY <3>1, <3>2
  <2>2. historyBar'[c] = [n \in 1 .. (k + 1) |-> content_versions'[RowOf(c, n)'].fields]
    BY DEF historyBar
  <2>3. content_versions'[RowOf(c, k + 1)'].fields = f
    <3> DEFINE m == k + 1
    <3>1. m \in Nat  OBVIOUS
    <3>2. PICK v \in DOMAIN content_versions' :
              content_versions'[v] = [content_id |-> c, version |-> m, fields |-> f]
      OBVIOUS
    <3> HIDE DEF m
    <3>3. RowsFound'  BY RowOfFacts, PTL
    <3>4. RowOf(c, m)' = v  BY <3>1, <3>2, <3>3 DEF RowsFound
    <3>5. content_versions'[RowOf(c, m)'].fields = f  BY <3>2, <3>4
    <3> QED  BY <3>5 DEF m
  <2>4. \A n \in 1 .. k : content_versions'[RowOf(c, n)'].fields
                            = content_versions[RowOf(c, n)].fields
    BY RowKept
  <2>5. Append(historyBar[c], f) =
          [i \in 1 .. (k + 1) |-> IF i <= k THEN historyBar[c][i] ELSE f]
    BY <2>1, AppendIs
  <2>6. \A i \in 1 .. (k + 1) :
           content_versions'[RowOf(c, i)'].fields = IF i <= k THEN historyBar[c][i] ELSE f
    <3> SUFFICES ASSUME NEW i \in 1 .. (k + 1)
                 PROVE  content_versions'[RowOf(c, i)'].fields
                          = IF i <= k THEN historyBar[c][i] ELSE f
      OBVIOUS
    <3>1. CASE i <= k
      <4>1. i \in 1 .. k  BY <3>1
      <4> QED  BY <4>1, <3>1, <2>1, <2>4
    <3>2. CASE i = k + 1
      <4>1. ~(i <= k) BY <3>2
      <4> QED  BY <3>2, <4>1, <2>3
    <3> QED  BY <3>1, <3>2
  <2> QED  BY <2>2, <2>5, <2>6
<1>4. /\ historyBar = [d \in ContentId |-> historyBar[d]]
      /\ historyBar' = [d \in ContentId |-> historyBar'[d]]
  BY DEF historyBar
<1> QED  BY <1>1, <1>2, <1>3, <1>4

\* A document whose pointer does not move keeps its public edition.
LEMMA SamePublic ==
    ASSUME Inv, Inv', HistoryKept,
           \A c \in DOMAIN contents :
              contents'[c].published_version_id = contents[c].published_version_id,
           \A c \in DOMAIN contents' \ DOMAIN contents :
              contents'[c].published_version_id = NULL
    PROVE  publicBar' = publicBar
<1> SUFFICES ASSUME NEW c \in ContentId
             PROVE  publicBar'[c] = publicBar[c]
  BY DEF publicBar
<1>1. CASE c \in DOMAIN contents /\ contents[c].published_version_id # NULL
  <2>1. c \in DOMAIN contents'
    BY <1>1 DEF HistoryKept
  <2>2. contents[c].published_version_id \in DOMAIN content_versions
    BY <1>1 DEF Inv, PointersOwned, OwnedBy
  <2>3. content_versions'[contents[c].published_version_id]
            = content_versions[contents[c].published_version_id]
    BY <2>2 DEF HistoryKept
  <2> QED  BY <1>1, <2>1, <2>3 DEF publicBar
<1>2. CASE ~(c \in DOMAIN contents /\ contents[c].published_version_id # NULL)
  BY <1>2 DEF publicBar
<1> QED  BY <1>1, <1>2

\* A pointer that moves to a version makes the number of that version public.
LEMMA MovedPublic ==
    ASSUME Inv, Inv', UNCHANGED content_versions, DOMAIN contents' = DOMAIN contents,
           NEW c \in DOMAIN contents, NEW n,
           \A d \in DOMAIN contents \ {c} : contents'[d] = contents[d],
           IF contents'[c].published_version_id = NULL THEN n = 0
           ELSE content_versions[contents'[c].published_version_id].version = n
    PROVE  publicBar' = [publicBar EXCEPT ![c] = n]
<1>1. c \in ContentId
  BY DEF Inv, TypeOK
<1>2. \A d \in ContentId \ {c} : publicBar'[d] = publicBar[d]
  BY DEF publicBar
<1>3. publicBar'[c] = n
  BY <1>1 DEF publicBar
<1>4. /\ publicBar = [d \in ContentId |-> publicBar[d]]
      /\ publicBar' = [d \in ContentId |-> publicBar'[d]]
  BY DEF publicBar
<1> QED  BY <1>1, <1>2, <1>3, <1>4

\* What a schedule promises.
LEMMA PromiseOf ==
    ASSUME Inv, NEW s \in DOMAIN publish_schedules
    PROVE  /\ s \in ScheduleId
           /\ promisesBar[s] =
                [doc     |-> publish_schedules[s].content_id,
                 edition |-> content_versions[publish_schedules[s].version_id].version,
                 state   |-> PromiseState(publish_schedules[s].status)]
           /\ promisesBar[s].doc = publish_schedules[s].content_id
           /\ promisesBar[s].edition
                = content_versions[publish_schedules[s].version_id].version
           /\ promisesBar[s] # NULL
           /\ P!Open(s) <=> Active(s)
<1>1. s \in ScheduleId
      /\ publish_schedules[s].content_id \in ContentId
      /\ publish_schedules[s].status \in {"pending", "claimed", "done", "cancelled"}
  BY DEF Inv, TypeOK, ScheduleRow
<1>2. promisesBar[s] =
                [doc     |-> publish_schedules[s].content_id,
                 edition |-> content_versions[publish_schedules[s].version_id].version,
                 state   |-> PromiseState(publish_schedules[s].status)]
  BY <1>1 DEF promisesBar
<1>3. content_versions[publish_schedules[s].version_id].version \in Nat
  <2>1. publish_schedules[s].version_id \in DOMAIN content_versions
    BY DEF Inv, PointersOwned, OwnedBy
  <2>2. content_versions \in Seq(VersionRow)
    BY DEF Inv, TypeOK
  <2>3. content_versions[publish_schedules[s].version_id] \in VersionRow
    BY <2>1, <2>2
  <2> QED  BY <2>3 DEF VersionRow
<1>4. /\ PromiseState(publish_schedules[s].status) \in {"open", "kept", "off"}
      /\ PromiseState(publish_schedules[s].status) = "open" <=> Active(s)
  BY <1>1 DEF PromiseState, Active
<1>5. promisesBar[s] # NULL
  BY <1>1, <1>2, <1>3, <1>4, RefinementAssumption
<1>6. P!Open(s) <=> Active(s)
  BY <1>2, <1>4, <1>5 DEF P!Open
<1>7. /\ promisesBar[s].doc = publish_schedules[s].content_id
      /\ promisesBar[s].edition
           = content_versions[publish_schedules[s].version_id].version
  <2> DEFINE a == publish_schedules[s].content_id
             b == content_versions[publish_schedules[s].version_id].version
             st == PromiseState(publish_schedules[s].status)
  <2>1. promisesBar[s] = [doc |-> a, edition |-> b, state |-> st]
    BY <1>2
  <2> HIDE DEF a, b, st
  <2>2. promisesBar[s].doc = a /\ promisesBar[s].edition = b
    BY <2>1
  <2> QED  BY <2>2 DEF a, b
<1> QED  BY <1>1, <1>2, <1>5, <1>6, <1>7

\* A schedule keeps its document and version; its promise moves with its
\* status only.
LEMMA PromiseStep ==
    ASSUME Inv, Inv', HistoryKept, SettledKept, NEW s \in DOMAIN publish_schedules
    PROVE  promisesBar'[s] = [promisesBar[s] EXCEPT
                                 !.state = PromiseState(publish_schedules'[s].status)]
<1>1. s \in ScheduleId /\ publish_schedules[s].version_id \in DOMAIN content_versions
  BY DEF Inv, TypeOK, PointersOwned, OwnedBy
<1>2. /\ s \in DOMAIN publish_schedules'
      /\ publish_schedules'[s].content_id = publish_schedules[s].content_id
      /\ publish_schedules'[s].version_id = publish_schedules[s].version_id
  BY DEF SettledKept
<1>3. content_versions'[publish_schedules[s].version_id]
         = content_versions[publish_schedules[s].version_id]
  BY <1>1 DEF HistoryKept
<1>4. promisesBar'[s] =
         [doc     |-> publish_schedules[s].content_id,
          edition |-> content_versions[publish_schedules[s].version_id].version,
          state   |-> PromiseState(publish_schedules'[s].status)]
  BY <1>1, <1>2, <1>3 DEF promisesBar
<1>5. promisesBar[s] =
         [doc     |-> publish_schedules[s].content_id,
          edition |-> content_versions[publish_schedules[s].version_id].version,
          state   |-> PromiseState(publish_schedules[s].status)]
  BY PromiseOf
<1> QED  BY <1>4, <1>5

\* A schedule that keeps its status, or its being active, is the same promise.
LEMMA SamePromise ==
    ASSUME Inv, Inv', HistoryKept, SettledKept, NEW s \in DOMAIN publish_schedules,
           PromiseState(publish_schedules'[s].status)
              = PromiseState(publish_schedules[s].status)
    PROVE  promisesBar'[s] = promisesBar[s]
<1> DEFINE a == publish_schedules[s].content_id
           b == content_versions[publish_schedules[s].version_id].version
           st == PromiseState(publish_schedules[s].status)
<1>1. promisesBar[s] = [doc |-> a, edition |-> b, state |-> st]
  BY PromiseOf
<1>2. promisesBar'[s] = [promisesBar[s] EXCEPT !.state = st]
  BY PromiseStep
<1> HIDE DEF a, b, st
<1> QED  BY <1>1, <1>2

\* Rows that stay active, or stay as they are, are the same promises.
LEMMA SamePromises ==
    ASSUME Inv, Inv', HistoryKept, SettledKept,
           DOMAIN publish_schedules' = DOMAIN publish_schedules,
           \A s \in DOMAIN publish_schedules :
              \/ publish_schedules'[s].status = publish_schedules[s].status
              \/ Active(s) /\ publish_schedules'[s].status \in {"pending", "claimed"}
    PROVE  promisesBar' = promisesBar
<1> SUFFICES ASSUME NEW s \in ScheduleId
             PROVE  promisesBar'[s] = promisesBar[s]
  BY DEF promisesBar
<1>1. CASE s \in DOMAIN publish_schedules
  <2>1. PromiseState(publish_schedules'[s].status)
           = PromiseState(publish_schedules[s].status)
    BY <1>1 DEF PromiseState, Active
  <2> QED  BY <1>1, <2>1, SamePromise
<1>2. CASE s \notin DOMAIN publish_schedules
  BY <1>2 DEF promisesBar
<1> QED  BY <1>1, <1>2

\* One row is settled: one promise is kept or called off.
LEMMA MovedPromise ==
    ASSUME Inv, Inv', HistoryKept, SettledKept,
           DOMAIN publish_schedules' = DOMAIN publish_schedules,
           NEW s \in DOMAIN publish_schedules,
           \A u \in DOMAIN publish_schedules \ {s} :
              publish_schedules'[u] = publish_schedules[u]
    PROVE  promisesBar' = [promisesBar EXCEPT
              ![s].state = PromiseState(publish_schedules'[s].status)]
<1> DEFINE st == PromiseState(publish_schedules'[s].status)
<1>1. s \in ScheduleId /\ promisesBar'[s] = [promisesBar[s] EXCEPT !.state = st]
  BY PromiseOf, PromiseStep
<1>2. \A u \in ScheduleId \ {s} : promisesBar'[u] = promisesBar[u]
  <2> SUFFICES ASSUME NEW u \in ScheduleId \ {s}
               PROVE  promisesBar'[u] = promisesBar[u]
    OBVIOUS
  <2>1. CASE u \in DOMAIN publish_schedules
    BY <2>1, SamePromise
  <2>2. CASE u \notin DOMAIN publish_schedules
    BY <2>2 DEF promisesBar
  <2> QED  BY <2>1, <2>2
<1>3. /\ promisesBar = [u \in ScheduleId |-> promisesBar[u]]
      /\ promisesBar' = [u \in ScheduleId |-> promisesBar'[u]]
  BY DEF promisesBar
<1> HIDE DEF st
<1>4. promisesBar' = [promisesBar EXCEPT ![s].state = st]
  BY <1>1, <1>2, <1>3
<1> QED  BY <1>4 DEF st

-----------------------------------------------------------------------------
(* Every transaction is a step of Publication, or none. *)

\* What each of the following lemmas may assume of a transaction.
LEMMA Transaction ==
    ASSUME Inv, StoreNext
    PROVE  Inv' /\ HistoryKept /\ SettledKept
  BY NextInv, HistoryStep, SettledStep

LEMMA CreateContentMaps ==
    ASSUME Inv, StoreNext, NEW id \in ContentId, NEW slug \in Slug, NEW f \in Fields,
           NEW t \in Time, CreateContent(id, slug, f, t)
    PROVE  P!Write(id, f)
<1>0. Inv' /\ HistoryKept /\ SettledKept /\ TypeOK
  BY Transaction DEF Inv
<1>1. id \notin DOMAIN contents /\ InsertVersion(id, 1, f)
      /\ UNCHANGED publish_schedules
  BY DEF CreateContent
<1>2. /\ DOMAIN contents' = DOMAIN contents \cup {id}
      /\ contents'[id].current_version = 1
      /\ contents'[id].published_version_id = NULL
      /\ \A c \in DOMAIN contents : contents'[c] = contents[c]
  BY <1>1 DEF CreateContent, Insert
<1>3. \E v \in DOMAIN content_versions' :
         content_versions'[v] = [content_id |-> id, version |-> 0 + 1, fields |-> f]
  <2>1. /\ DOMAIN content_versions' = 1 .. (Len(content_versions) + 1)
        /\ content_versions'[Len(content_versions) + 1] =
             [content_id |-> id, version |-> 1, fields |-> f]
    BY <1>0, <1>1, InsertVersionFacts
  <2>2. Len(content_versions) \in Nat
    BY <1>0 DEF TypeOK
  <2> QED  BY <2>1, <2>2
<1>4. historyBar' = [historyBar EXCEPT ![id] = Append(historyBar[id], f)]
  <2>1. 0 \in Nat /\ 1 = 0 + 1
    OBVIOUS
  <2> QED  BY <1>0, <1>1, <1>2, <1>3, <2>1, NextEdition
<1>5. publicBar' = publicBar
  BY <1>0, <1>2, SamePublic
<1>6. promisesBar' = promisesBar
  BY <1>0, <1>1, SamePromises
<1> QED  BY <1>4, <1>5, <1>6 DEF P!Write

LEMMA UpdateContentMaps ==
    ASSUME Inv, StoreNext, NEW c \in ContentId, NEW k \in VersionId, NEW f \in Fields,
           NEW t \in Time, UpdateContent(c, k, f, t)
    PROVE  P!Write(c, f)
<1>0. Inv' /\ HistoryKept /\ SettledKept /\ TypeOK /\ k \in Nat
  BY Transaction DEF Inv, VersionId
<1>1. /\ c \in DOMAIN contents /\ contents[c].current_version = k
      /\ InsertVersion(c, k + 1, f) /\ UNCHANGED publish_schedules
  BY DEF UpdateContent, UpdateContentResult
<1>2. /\ DOMAIN contents' = DOMAIN contents
      /\ contents'[c].current_version = k + 1
      /\ \A d \in DOMAIN contents :
            contents'[d].published_version_id = contents[d].published_version_id
      /\ \A d \in DOMAIN contents \ {c} : contents'[d] = contents[d]
  BY <1>0, <1>1 DEF UpdateContent, TypeOK, ContentRow
<1>3. \E v \in DOMAIN content_versions' :
         content_versions'[v] = [content_id |-> c, version |-> k + 1, fields |-> f]
  <2>1. /\ DOMAIN content_versions' = 1 .. (Len(content_versions) + 1)
        /\ content_versions'[Len(content_versions) + 1] =
             [content_id |-> c, version |-> k + 1, fields |-> f]
    BY <1>0, <1>1, InsertVersionFacts
  <2>2. Len(content_versions) \in Nat
    BY <1>0 DEF TypeOK
  <2> QED  BY <2>1, <2>2
<1>4. historyBar' = [historyBar EXCEPT ![c] = Append(historyBar[c], f)]
  BY <1>0, <1>1, <1>2, <1>3, NextEdition
<1>5. publicBar' = publicBar
  BY <1>0, <1>2, SamePublic
<1>6. promisesBar' = promisesBar
  BY <1>0, <1>1, SamePromises
<1> QED  BY <1>4, <1>5, <1>6 DEF P!Write

\* A version of a document is one of its editions.
LEMMA EditionOf ==
    ASSUME Inv, NEW c \in DOMAIN contents, NEW v, OwnedBy(v, c)
    PROVE  content_versions[v].version \in P!Editions(c)
<1>1. content_versions[v].version \in 1 .. contents[c].current_version
  BY DEF OwnedBy, Inv, VersionHistory
<1>2. historyBar[c] \in Seq(Fields) /\ Len(historyBar[c]) = contents[c].current_version
  BY HistoryOf
<1> QED  BY <1>1, <1>2 DEF P!Editions

LEMMA PublishMaps ==
    ASSUME Inv, StoreNext, NEW c \in ContentId, NEW v \in VersionId, NEW t \in Time,
           Publish(c, v, t)
    PROVE  \E n \in P!Editions(c) : P!Release(c, n)
<1>0. Inv' /\ HistoryKept /\ SettledKept /\ TypeOK
  BY Transaction DEF Inv
<1>1. /\ c \in DOMAIN contents /\ OwnedBy(v, c) /\ SetPublished(c, v, t, t)
      /\ UNCHANGED <<content_versions, publish_schedules>>
  BY DEF Publish, PublishResult
<1>2. /\ DOMAIN contents' = DOMAIN contents
      /\ \A d \in DOMAIN contents :
            contents'[d].current_version = contents[d].current_version
      /\ \A d \in DOMAIN contents \ {c} : contents'[d] = contents[d]
      /\ contents'[c].published_version_id = v
  BY <1>0, <1>1, SetPublishedFacts
<1> DEFINE n == content_versions[v].version
<1>3. n \in P!Editions(c)
  BY <1>1, EditionOf
<1>4. historyBar' = historyBar
  BY <1>0, <1>2, SameHistory
<1>5. publicBar' = [publicBar EXCEPT ![c] = n]
  <2>1. v # NULL
    BY StoreAssumption DEF VersionId
  <2> QED  BY <1>0, <1>1, <1>2, <2>1, MovedPublic
<1>6. promisesBar' = promisesBar
  BY <1>0, <1>1, SamePromises
<1> HIDE DEF n
<1> QED  BY <1>3, <1>4, <1>5, <1>6 DEF P!Release

LEMMA UnpublishMaps ==
    ASSUME Inv, StoreNext, NEW c \in ContentId, NEW t \in Time, Unpublish(c, t)
    PROVE  P!Withdraw(c)
<1>0. Inv' /\ HistoryKept /\ SettledKept /\ TypeOK
  BY Transaction DEF Inv
<1>1. /\ c \in DOMAIN contents /\ contents[c].published_version_id # NULL
      /\ SetPublished(c, NULL, NULL, t)
      /\ UNCHANGED <<content_versions, publish_schedules>>
  BY DEF Unpublish, UnpublishResult
<1>2. NULL \in VersionId \cup {NULL} /\ NULL \in Time \cup {NULL}
  OBVIOUS
<1>3. /\ DOMAIN contents' = DOMAIN contents
      /\ \A d \in DOMAIN contents :
            contents'[d].current_version = contents[d].current_version
      /\ \A d \in DOMAIN contents \ {c} : contents'[d] = contents[d]
      /\ contents'[c].published_version_id = NULL
  BY <1>0, <1>1, <1>2, SetPublishedFacts
<1>4. publicBar[c] # 0
  <2>1. OwnedBy(contents[c].published_version_id, c)
    BY <1>1 DEF Inv, PointersOwned
  <2>2. content_versions[contents[c].published_version_id].version
          \in 1 .. contents[c].current_version
    BY <2>1 DEF Inv, VersionHistory, OwnedBy
  <2>3. publicBar[c] = content_versions[contents[c].published_version_id].version
    BY <1>1 DEF publicBar
  <2> QED  BY <2>2, <2>3
<1>5. historyBar' = historyBar
  BY <1>0, <1>3, SameHistory
<1>6. publicBar' = [publicBar EXCEPT ![c] = 0]
  BY <1>0, <1>1, <1>3, MovedPublic
<1>7. promisesBar' = promisesBar
  BY <1>0, <1>1, SamePromises
<1> QED  BY <1>4, <1>5, <1>6, <1>7 DEF P!Withdraw

\* A transaction that leaves contents and content_versions alone.
LEMMA QueueMaps ==
    ASSUME Inv, Inv', HistoryKept, UNCHANGED <<contents, content_versions>>
    PROVE  historyBar' = historyBar /\ publicBar' = publicBar
  BY SameHistory, SamePublic

LEMMA CreateScheduleMaps ==
    ASSUME Inv, StoreNext, NEW s \in ScheduleId, NEW c \in ContentId, NEW v \in VersionId,
           NEW t \in Time, CreateSchedule(s, c, v, t)
    PROVE  \E n \in P!Editions(c) : P!MakePromise(s, c, n)
<1>0. Inv' /\ HistoryKept /\ SettledKept
  BY Transaction
<1>1. /\ s \notin DOMAIN publish_schedules /\ OwnedBy(v, c)
      /\ \A u \in DOMAIN publish_schedules :
            ~(Active(u) /\ publish_schedules[u].content_id = c)
      /\ UNCHANGED <<contents, content_versions>>
  BY DEF CreateSchedule, CreateScheduleResult
<1>2. /\ DOMAIN publish_schedules' = DOMAIN publish_schedules \cup {s}
      /\ publish_schedules'[s].content_id = c
      /\ publish_schedules'[s].version_id = v
      /\ publish_schedules'[s].status = "pending"
      /\ \A u \in DOMAIN publish_schedules : publish_schedules'[u] = publish_schedules[u]
  BY <1>1 DEF CreateSchedule, Insert
<1> DEFINE n == content_versions[v].version
<1>3. c \in DOMAIN contents
  BY <1>1 DEF OwnedBy, Inv, VersionHistory
<1>4. n \in P!Editions(c)
  BY <1>1, <1>3, EditionOf
<1>5. promisesBar[s] = NULL
  BY <1>1 DEF promisesBar
<1>6. \A q \in ScheduleId : P!Open(q) => promisesBar[q].doc # c
  <2> SUFFICES ASSUME NEW q \in ScheduleId, P!Open(q) PROVE promisesBar[q].doc # c
    OBVIOUS
  <2>1. q \in DOMAIN publish_schedules
    BY DEF P!Open, promisesBar
  <2>2. Active(q) /\ promisesBar[q].doc = publish_schedules[q].content_id
    BY <2>1, PromiseOf
  <2> QED  BY <1>1, <2>1, <2>2
<1>7. promisesBar' = [promisesBar EXCEPT ![s] =
                        [doc |-> c, edition |-> n, state |-> "open"]]
  <2>1. \A u \in DOMAIN publish_schedules : promisesBar'[u] = promisesBar[u]
    BY <1>0, <1>2, SamePromise
  <2>2. \A u \in ScheduleId \ (DOMAIN publish_schedules \cup {s}) :
           promisesBar'[u] = promisesBar[u]
    BY <1>2 DEF promisesBar
  <2>3. promisesBar'[s] = [doc |-> c, edition |-> n, state |-> "open"]
    <3>1. PromiseState("pending") = "open"
      BY DEF PromiseState
    <3>2. promisesBar'[s] = [doc |-> c, edition |-> content_versions'[v].version,
                             state |-> PromiseState("pending")]
      BY <1>2 DEF promisesBar
    <3> QED  BY <3>1, <3>2, <1>1
  <2>4. /\ promisesBar = [u \in ScheduleId |-> promisesBar[u]]
        /\ promisesBar' = [u \in ScheduleId |-> promisesBar'[u]]
    BY DEF promisesBar
  <2> HIDE DEF n
  <2> QED  BY <1>1, <2>1, <2>2, <2>3, <2>4
<1>8. historyBar' = historyBar /\ publicBar' = publicBar
  BY <1>0, <1>1, QueueMaps
<1> HIDE DEF n
<1> QED  BY <1>4, <1>5, <1>6, <1>7, <1>8 DEF P!MakePromise

LEMMA CancelScheduleMaps ==
    ASSUME Inv, StoreNext, NEW s \in ScheduleId, CancelSchedule(s)
    PROVE  P!CallOff(s)
<1>0. Inv' /\ HistoryKept /\ SettledKept /\ TypeOK
  BY Transaction DEF Inv
<1>1. /\ s \in DOMAIN publish_schedules /\ Active(s) /\ Unlock({s}, "cancelled")
      /\ UNCHANGED <<contents, content_versions>>
  BY DEF CancelSchedule, CancelScheduleResult, Active
<1>2. /\ DOMAIN publish_schedules' = DOMAIN publish_schedules
      /\ publish_schedules'[s].status = "cancelled"
      /\ \A u \in DOMAIN publish_schedules \ {s} :
            publish_schedules'[u] = publish_schedules[u]
  BY <1>0, <1>1, UnlockFacts
<1>3. PromiseState(publish_schedules'[s].status) = "off"
  BY <1>2 DEF PromiseState
<1>4. promisesBar' = [promisesBar EXCEPT ![s].state = "off"]
  BY <1>0, <1>1, <1>2, <1>3, MovedPromise
<1>5. historyBar' = historyBar /\ publicBar' = publicBar
  BY <1>0, <1>1, QueueMaps
<1>6. P!Open(s)
  BY <1>1, PromiseOf
<1> QED  BY <1>4, <1>5, <1>6 DEF P!CallOff

LEMMA CompleteMaps ==
    ASSUME Inv, StoreNext, NEW s \in DOMAIN publish_schedules, NEW w \in Worker,
           NEW t \in Time, CompleteScheduledPublish(JobOf(s), w, t)
    PROVE  P!Keep(s)
<1> DEFINE c == publish_schedules[s].content_id
           v == publish_schedules[s].version_id
<1>0. Inv' /\ HistoryKept /\ SettledKept /\ TypeOK
  BY Transaction DEF Inv
<1>1. /\ SetPublished(c, v, t, t) /\ Unlock({s}, "done") /\ Active(s)
      /\ UNCHANGED content_versions
  BY DEF CompleteScheduledPublish, CompleteResult, HoldsLease, JobOf, Active
<1>2. c \in DOMAIN contents /\ v \in VersionId
  BY <1>0 DEF Inv, PointersOwned, TypeOK, ScheduleRow
<1>3. /\ DOMAIN contents' = DOMAIN contents
      /\ \A d \in DOMAIN contents :
            contents'[d].current_version = contents[d].current_version
      /\ \A d \in DOMAIN contents \ {c} : contents'[d] = contents[d]
      /\ contents'[c].published_version_id = v
  BY <1>0, <1>1, <1>2, SetPublishedFacts
<1>4. /\ DOMAIN publish_schedules' = DOMAIN publish_schedules
      /\ publish_schedules'[s].status = "done"
      /\ \A u \in DOMAIN publish_schedules \ {s} :
            publish_schedules'[u] = publish_schedules[u]
  BY <1>0, <1>1, UnlockFacts
<1>5. PromiseState(publish_schedules'[s].status) = "kept"
  BY <1>4 DEF PromiseState
<1>6. promisesBar' = [promisesBar EXCEPT ![s].state = "kept"]
  BY <1>0, <1>4, <1>5, MovedPromise
<1>7. promisesBar[s].doc = c /\ promisesBar[s].edition = content_versions[v].version
  BY PromiseOf
<1>8. v # NULL
  BY <1>2, StoreAssumption DEF VersionId
<1>9. P!Open(s)
  BY <1>1, PromiseOf
<1> HIDE DEF c, v
<1>10. publicBar' = [publicBar EXCEPT ![c] = content_versions[v].version]
  BY <1>0, <1>1, <1>2, <1>3, <1>8, MovedPublic
<1>11. historyBar' = historyBar
  BY <1>0, <1>3, SameHistory
<1> QED  BY <1>6, <1>7, <1>9, <1>10, <1>11 DEF P!Keep

\* Claims, failures and releases are invisible.
LEMMA LeaseMaps ==
    ASSUME Inv, StoreNext,
           \/ \E w \in Worker, t, e \in Time, B \in SUBSET ScheduleId :
                 ClaimDueSchedules(w, t, e, B)
           \/ \E s \in ScheduleId, w \in Worker : FailSchedule(s, w)
           \/ \E w \in Worker : ReleaseClaims(w)
    PROVE  UNCHANGED <<historyBar, publicBar, promisesBar>>
<1>0. Inv' /\ HistoryKept /\ SettledKept /\ TypeOK
  BY Transaction DEF Inv
<1>1. UNCHANGED <<contents, content_versions>>
  BY DEF ClaimDueSchedules, FailSchedule, ReleaseClaims
<1>2. historyBar' = historyBar /\ publicBar' = publicBar
  BY <1>0, <1>1, QueueMaps
<1>3. ASSUME NEW S, Unlock(S, "pending"), \A s \in S : Active(s)
      PROVE  promisesBar' = promisesBar
  <2>1. /\ DOMAIN publish_schedules' = DOMAIN publish_schedules
        /\ \A s \in DOMAIN publish_schedules :
              /\ s \notin S => publish_schedules'[s] = publish_schedules[s]
              /\ s \in S => publish_schedules'[s].status = "pending"
    BY <1>0, <1>3, UnlockFacts
  <2> QED  BY <1>0, <1>3, <2>1, SamePromises
<1>4. ASSUME NEW w \in Worker, NEW t \in Time, NEW e \in Time, NEW B,
             ClaimDueSchedules(w, t, e, B)
      PROVE  promisesBar' = promisesBar
  <2>1. /\ DOMAIN publish_schedules' = DOMAIN publish_schedules
        /\ \A s \in DOMAIN publish_schedules :
              /\ s \notin B => publish_schedules'[s] = publish_schedules[s]
              /\ s \in B => Active(s) /\ publish_schedules'[s].status = "claimed"
    BY <1>0, <1>4, ClaimFacts
  <2> QED  BY <1>0, <2>1, SamePromises
<1>5. ASSUME NEW s, NEW w, FailSchedule(s, w)
      PROVE  promisesBar' = promisesBar
  <2>1. Unlock({s}, "pending") /\ \A u \in {s} : Active(u)
    BY <1>5 DEF FailSchedule, HoldsLease, Active
  <2> QED  BY <2>1, <1>3
<1>6. ASSUME NEW w, ReleaseClaims(w)
      PROVE  promisesBar' = promisesBar
  <2> DEFINE S == {s \in DOMAIN publish_schedules : HoldsLease(s, w)}
  <2>1. Unlock(S, "pending") /\ \A u \in S : Active(u)
    BY <1>6 DEF ReleaseClaims, HoldsLease, Active
  <2> QED  BY <2>1, <1>3
<1>7. promisesBar' = promisesBar
  BY <1>4, <1>5, <1>6
<1> QED  BY <1>2, <1>7

-----------------------------------------------------------------------------
(* The refinement. *)

\* The migrated, empty database is a service without documents and promises.
LEMMA InitMaps == StoreInit => P!PubInit
<1> SUFFICES ASSUME StoreInit PROVE P!PubInit
  OBVIOUS
<1>1. DOMAIN contents = {} /\ DOMAIN publish_schedules = {}
  BY DEF StoreInit
<1> QED  BY <1>1 DEF P!PubInit, historyBar, publicBar, promisesBar

\* A transaction is a step of Publication or leaves what it speaks of alone.
LEMMA StepMaps == Inv /\ [StoreNext]_storeVars => [P!PubNext]_(P!pubVars)
<1> SUFFICES ASSUME Inv, StoreNext
             PROVE  P!PubNext \/ UNCHANGED <<historyBar, publicBar, promisesBar>>
  <2>1. UNCHANGED storeVars => UNCHANGED <<historyBar, publicBar, promisesBar>>
    BY DEF storeVars, historyBar, publicBar, promisesBar, RowOf
  <2> QED  BY <2>1 DEF P!pubVars
<1>1. CASE \E id \in ContentId, slug \in Slug, f \in Fields, t \in Time :
              CreateContent(id, slug, f, t)
  BY <1>1, CreateContentMaps DEF P!PubNext
<1>2. CASE \E c \in ContentId, n \in VersionId, f \in Fields, t \in Time :
              UpdateContent(c, n, f, t)
  BY <1>2, UpdateContentMaps DEF P!PubNext
<1>3. CASE \E c \in ContentId, v \in VersionId, t \in Time : Publish(c, v, t)
  BY <1>3, PublishMaps DEF P!PubNext
<1>4. CASE \E c \in ContentId, t \in Time : Unpublish(c, t)
  BY <1>4, UnpublishMaps DEF P!PubNext
<1>5. CASE \E s \in ScheduleId, c \in ContentId, v \in VersionId, t \in Time :
              CreateSchedule(s, c, v, t)
  BY <1>5, CreateScheduleMaps DEF P!PubNext
<1>6. CASE \E s \in ScheduleId : CancelSchedule(s)
  BY <1>6, CancelScheduleMaps DEF P!PubNext
<1>7. CASE \E s \in DOMAIN publish_schedules, w \in Worker, t \in Time :
              CompleteScheduledPublish(JobOf(s), w, t)
  <2>1. DOMAIN publish_schedules \subseteq ScheduleId
    BY DEF Inv, TypeOK
  <2> QED  BY <1>7, <2>1, CompleteMaps DEF P!PubNext
<1>8. CASE \/ \E w \in Worker, t, e \in Time, B \in SUBSET ScheduleId :
                 ClaimDueSchedules(w, t, e, B)
           \/ \E s \in ScheduleId, w \in Worker : FailSchedule(s, w)
           \/ \E w \in Worker : ReleaseClaims(w)
  BY <1>8, LeaseMaps
<1> QED
  BY <1>1, <1>2, <1>3, <1>4, <1>5, <1>6, <1>7, <1>8 DEF StoreNext

\* The database, used by anybody in any order and under any clock, implements
\* Publication: what the tables, the constraints and the compare-and-swap of
\* internal/store do is what the service promises editors and readers.
THEOREM StoreImplementsPublication == StoreSpec => ImplementsPublication
<1>1. StoreInit => P!PubInit
  BY InitMaps
<1>2. Inv /\ [StoreNext]_storeVars => [P!PubNext]_(P!pubVars)
  BY StepMaps
<1> QED
  BY <1>1, <1>2, Invariance, PTL DEF StoreSpec, ImplementsPublication, P!PubSpec

=============================================================================
