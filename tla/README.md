# A verification project for the content management service

The repository is a small headless CMS in Go on one SQLite file: editors keep
versioned documents, publish a version now or at a scheduled time, and the
public reads what is published. This directory holds TLA+ models of the parts
where that can go wrong, TLC configurations that check them on small instances,
and TLAPS proofs of the main results for every size.

Run `tlc -config MCStore.cfg MCStore` (and so on, see *Runs*) to check a model,
`tlapm StoreProofs.tla` (and so on for the modules named `...Proofs`) to check the
proofs.

## 1. The system

| Part | State | Operations |
|---|---|---|
| Schema (`migrations/`) | four tables, their unique and partial unique indexes | - |
| Store (`internal/store`) | the tables; one write connection, a pool of readers | create, update, publish, unpublish, schedule, cancel, claim, complete, fail, release; queries |
| Scheduler (`internal/scheduler`) | per process: the claimed batch, the job in hand, clock readings | poll, claim, execute, record failure, shut down |
| Content service and admin handlers (`internal/content`, `internal/httpapi`) | nothing that outlives a request; the client keeps tags | chains of reads and transactions per request |
| Public handlers (`internal/httpapi`) | nothing; the client keeps a cache | page, list, sitemap with conditional answers |
| Pools and transactions (`internal/store/db.go`, `tx.go`) | per process one write connection, readers; the file, its lock and its WAL | begin, commit, roll back, close |
| Process (`cmd/server`) | context, worker goroutine, listener | boot, migrate, serve, stop, exit |
| Clock, configuration, authentication, rendering | - | - |

How they interact. Handlers and workers share only the database. Every write is
a transaction of `DB.Tx`, begun with BEGIN IMMEDIATE on a pool of one connection,
so a transaction is atomic and transactions are totally ordered, also across
processes. Reads run on other connections, one snapshot per query. Hence the
interesting interleavings are *between* the database calls of a handler or
worker, never inside a transaction. A timestamp is read before the wait for the
write connection and may be old when the transaction commits.

What is hard: two editors of one document; a PUT repeated after a lost answer;
`If-Match: *`, which reads and then swaps; a cancellation against a claim; a
worker that finishes after its lease was stolen; a batch executed under one
lease; a crash between claim and completion; a failure to record a failure; a
shutdown in the middle of a batch; validators computed from what is left, in a
separate snapshot, with millisecond resolution; a panic, a crash or a power
failure inside a transaction; two processes that migrate a new file at once; a
shutdown in which main, handlers and worker wait for each other, for one
connection and for the lock of the file; a client that pages through a list
others are changing. The full list, with lines, is
`hazards` in `PROJECT.json`.

What makes the parts correct:

* store - no lost update, immutable history, at most one active schedule per
  document, exactly-once scheduled publishing, an audit trail that explains the
  public state;
* scheduler - due work is done, once, not early, although processes crash; a
  lease protects a job; a stopped process leaves nothing behind;
* admin API - no editor overwrites what it has not seen; answers mean what they
  say;
* public API - drafts do not leak; 304 is true;
* lists - a client that walks a list to its end has been shown what was there
  when it began;
* transactions - all or nothing, answered truthfully, the writer's connection and
  lock always given back;
* processes - nobody serves without a schema; a process told to stop finishes its
  work in the right order and ends.

## 2. Modules

| Module | Models |
|---|---|
| `Store` | the tables and every write transaction, used by anybody at any time |
| `Publication` | the abstract specification: histories, public editions, promises |
| `StoreRefinement` | the mapping from the tables to `Publication` |
| `Scheduler` | the worker processes, the clock, crashes, on top of `Store` |
| `Api` | the admin handlers and their editors, on top of `Store` |
| `PublicRead` | the public handlers and a caching client, on top of `Store` |
| `Listings` | the paged lists and a client that walks one of them, on top of `Store` |
| `Transactions` | `DB.Tx` on the pools of several processes, the lock of the file, the WAL |
| `Server` | the life of the processes, on top of `Transactions` |
| `Ledger` | the abstract specification of the file: whole transactions, one after the other |
| `StoreProofs` | theorems about `Store` |
| `RefinementProofs` | the tables implement `Publication`, on top of `StoreProofs` |
| `SchedulerProofs`, `ApiProofs`, `PublicReadProofs` | theorems about the module of that name, on top of `RefinementProofs` |
| `RevalidationProofs` | what a 304 of the list or the sitemap is worth, on top of `PublicReadProofs` |
| `ListingsProofs` | theorems about `Listings`, on top of `StoreProofs` |
| `ServerProofs` | theorems about `Transactions` and `Server` |
| `MCStore`, `MCScheduler`, `MCApi`, `MCListings`, `MCPublicRead`, `MCServer` | what TLC checks, with the symmetry sets |

**Store.** `contents` and `publish_schedules` are functions from ids to rows,
`content_versions` and `publish_events` sequences whose positions are the rowids.
An action is a committed transaction; `...Result` operators give the error a
caller would see, and a transaction that fails is a stuttering step. Column
names are those of the schema. A payload is one value of `Fields`; actors,
attempts, error texts, `created_at` and a schedule's `updated_at` are left out
because no transaction reads them. `Publish` has no `ScheduleID` parameter: no
caller sets it (scheduled publishing goes through `CompleteScheduledPublish`).
Timestamps are arbitrary members of `Time` in every action, so the results do
not depend on clocks.

Three details of the code that the model keeps: `UpdateContent` bumps the row
from its own value but numbers the new version from the caller's token;
`CompleteScheduledPublish` inserts the audit event *before* it checks the lease,
so that a job somebody else finished ends in the error path, not in the
lost-lease path; `ORDER BY run_at LIMIT n` may break ties either way.

**Scheduler.** `pc[w]` is where the worker's goroutine is: `idle` (in `select`),
`claiming` (clock read, claim not committed), `batch` (jobs in hand), `executing`
(clock read, job transaction not committed), `failing` (about to call
`FailSchedule`), `stopped`, `dead`. `tickNow`, `jobs`, `job` and `execNow` are the
goroutine's memory. Each database call can fail; `Crash` can happen anywhere and
also stands for the early return of `run` when the listener fails. A worker id
is a fresh uuid of a process, so a restart is another member of `Worker`.
`Request` is an editor's transaction with a stamp from the past. The clock does
not go backwards here; all processes share a host and its clock.

**Api.** `req[e]` is the request editor `e` has in flight: a program point and
what the handler has read so far. `seen[e][c]` is the last view the editor
received. `Deliver` hands over an answer; `End` is an error answer or an answer
that never arrives, before or after the commit. Editors send tags they were
given, or `*`; `Rebase` is the editor that sends the tag in the details of a 412
back at once. Like `*` this replaces a text the editor has not read, by its own
choice; the property is that it replaces only the text that was current when the
server named the tag. Between `Resolve`, which looks the rowid of a version up, and
`PublishCommit` or `ScheduleCommit` anybody may commit. What these two steps do is a
property of the step (`DoneAsAsked`): the pointer at that instant decides whether a
publish had something to do, not an event of the past. Refusals before any database call (428, malformed headers,
validation) are left out. A 404 of a read is `End`.

**Listings.** `walk` is a client that asks for one page after the other: which
list, the page size, the offset, what it has been shown (`shown`) and what was in
the list when it began (`must`). Items and total are two queries. The client
stops when the offset has reached the total; in a version history, where
`handleListVersions` gives the length of the page as the total, it stops at a page
that is not full. A page is the set of the rows whose place, the number of rows
that `ORDER BY` puts in front of them, lies between the offset and the end of the
page: what a page holds matters, not how it is printed. `Write` is any transaction of `Store`, with the `created_at` of
the rows kept beside it. Document ids are numbers because the queries break ties
by id. The public list is ordered by `published_at`, which a publish changes, so
its walk is only promised to be complete if nothing that was listed is published
anew or withdrawn meanwhile (`reordered`); without that exclusion TLC finds a walk
that skips a document.

**PublicRead.** A page is one query; the list is three and the sitemap two, with
writes in between. `cache` is what a client has stored per resource, `answer`
what the last step answered, with a flag that says whether the client now holds
what the handler read. Stamps are readings of a clock in milliseconds taken before
the wait for the write connection, so they repeat and run backwards. `doubtful` is a
history variable, of the properties and not of the code: the resources whose cached
copy was torn when it was taken (its items older than its tag) or whose tag cannot
tell what was written since (`TagBlind`: a page's document has been given the very
millisecond of the tag once more; a listed document has been given a stamp not above
the tag). JSON page and HTML page are the same query with the same
validator. `contentETag` is injective on milliseconds, so the number stands for
the tag. `Last-Modified` is sent but never compared by the code.

**Transactions.** Below the level at which `Store` sees a transaction as one step.
`at[x]` is where a call of `DB.Tx` is: waiting for the connection (`queued`),
waiting for the lock of the file (`begin`), inside with no or one statement done
(`open`, `half`), returned (`ok`, `error`, `closed`), or ended by the death of its
process (`cut`), or committed and lost again (`undone`). A call is named by its
process and its purpose, and leaves its name in two tables, so that half a
transaction would show. `work[p]` is what the open transaction of `p` sees. Any
call can fail at any point; a panic of a handler is such a failure, because the
deferred rollback runs before the recoverer answers. `unsynced` are the commits
since the last checkpoint: `synchronous=NORMAL` leaves them in the WAL, the death of
a process does not touch them, a power failure (`LoseTail`) keeps a prefix.

**Ledger.** What `Store` assumes of all this: `Record` enters a transaction that is
not there yet, `Cut` makes the first k of the unsynced ones durable and drops the
others. A checkpoint cuts at the end (`Sync`). `ImplementsLedger` in `Server` maps `durable` to
the committed names that are not in `unsynced` and `tail` to `unsynced`; everything a
call does before its commit, and every failure and death, is invisible.

**Server.** `phase[p]` follows `run`: `migrating`, `serving`, `draining`
(`srv.Shutdown`), `waiting` (`workerDone.Wait`), `closing` (the deferred `DB.Close`),
`failing` (an early return), `stopped`, `dead`. `wpc[p]` is the worker goroutine,
reduced to the transactions it needs. At most one request of a process is in
flight, and one write of each kind succeeds; a restarted process is another
member of `Process`. goose is external: it reads the version of the schema, then
applies the migration in a transaction without looking again.

Operators named `X_Fault` before a definition `X` and marked *Seeded fault* are
deliberately wrong variants of it: replacing `X` by one of them makes a property
fail. They show that each property depends on the code it is about. No
specification uses them.

## 3. Runs

| Run | Question | Bounds |
|---|---|---|
| `store` | do the invariants hold under every order of transactions, and do the tables keep the promises of `Publication`? | 2 documents, 2 schedules, 2 workers, 2 versions, 2 payloads, 3 manual audit rows, 2 instants, batch 1 |
| `scheduler_batches` | are workers safe with batches, stale clocks and crashes, and do they use the tables as `Store` allows? | 2 workers, 2 documents and schedules, batch 2, lease 1, clock up to 2 |
| `scheduler_recovery` | is due work done, and do processes stop, also while editors publish and withdraw by hand? | 2 workers, 1 document and schedule, 2 manual audit rows, clock up to 2, fairness |
| `scheduler_queue` | does a failing job starve the one behind it? | 1 worker, 2 schedules, batch 1, fairness |
| `api_editors` | can an editor overwrite text it has not seen, and do answers mean what they say? | 2 editors, 2 documents, 3 versions, 2 payloads, 1 manual audit row |
| `api_schedule` | does a publish, schedule or cancellation do what was asked, whatever others commit meanwhile? | 2 editors, 2 documents, 2 workers, 1 schedule, 2 versions, 3 manual audit rows, 2 instants; editors remember no view |
| `public_read` | do drafts leak, what is a 304 worth? | 2 documents, 2 payloads (one not indexed), 2 versions, 2 manual audit rows, 2 instants, 1 schedule |
| `listings` | does a client that pages through a changing list miss anything? | 3 documents, 3 versions, 3 manual audit rows, 2 instants, pages of 1 |
| `server` | are transactions what `Store` takes them for (is the file a `Ledger`?), and do processes start and stop in order? | 2 processes, 1 with a scheduler, 2 commits between checkpoints, fairness |
| `public_list_unpublish`, `public_sitemap_torn`, `api_tag` | findings, below | |

Why the bounds are enough to be interesting: two workers are needed for a steal
and two schedules for a batch and for the partial index; with two documents, or
two versions of one, a rowid differs from a version number, so that a wrong owner
or a wrong number shows, and two payloads make a wrong text show; with a lease of one and a clock up to two or three, leases run out while
jobs are in hand and are taken over; three documents let a page shift by one in
the middle of a walk of two; two processes are enough to race for the migration
and the lock, and one that boots after the other has died is a restart; two unsynced
commits let a power failure keep one and lose the other; two instants suffice where times are only
compared. In `api_schedule` the constraint `NoneRemembered` stops at an answer whose view an
editor would remember. Nothing of that run's properties is lost: a view serves only for
the tag of a later PUT, a PUT with `*` does what one with the current tag does, and the
editor whose answer was lost goes on in its place; what tags are good for is the
question of `api_editors`. `MaxEvents` bounds manual publishes only, so scheduled ones always fit.
Deadlock is checked where the system cannot come to rest (`Store`, `Api`: a
released or empty claim is always possible; `PublicRead`: a reader can always ask);
`Scheduler` may end with all processes stopped, `Server` with all processes gone.

**Fairness** (`FairSpec` of `Scheduler`). Weak fairness of the clock and of every
point of a running goroutine: each database call has a deadline and the ticker
keeps firing. Strong fairness of a successful claim and of the completion of a
given job: failures are transient. Without it a job that fails every time is
retried for ever; the code has no limit on attempts and never writes the status
`failed`. Strong fairness of the shutdown case: `select` picks at random among
ready cases. Nothing is assumed of crashes, stops, or of any particular worker
staying up; `EventuallySettled` assumes that *some* worker does. Because the
clock of the model stops, a row whose lease ends beyond `MaxNow` and whose holder
is gone is excused (`BeyondHorizon`); with two workers, a lease of one and
`MaxNow = 2` recovery within the horizon happens.

`Fairness` of `Server` is weak: of every call of `DB.Tx` (it has a deadline, so it ends
somehow; that it succeeds is not assumed), of main's steps after the signal, of
`Shutdown` returning (the grace period), and of the worker's way to its end. The
choice of `select` between tick and cancelled context is not restricted: a tick
under a cancelled context fails its claim at once and is not a step here.

**Findings.**

* `public_list_unpublish`: the list's validator is `MAX(updated_at)` of what is
  still published. Withdrawing a document that is not the latest leaves it
  unchanged, and a revalidating client keeps the withdrawn document. This needs
  no race: the run uses `QuietSpec`, in which no write commits inside a request and
  every stamp is above those before it. What a 304 of the list is worth all the same
  is `NothingMissed`, in the run `public_read` and under `PublicSpec`.
* `public_sitemap_torn`: entries and validator are two queries; a publish in
  between stores old entries under the new tag. The list has the same shape.
* `api_tag`: `etag.go` calls two responses with the same tag byte-identical; a
  publish changes `status` and `published_version` and not the tag. What the
  optimistic lock needs is weaker and holds: the tag identifies the draft
  (`TagIdentifiesDraft`).

Observations that need no run of their own:

* Two writes of a document in one millisecond share a tag (`public.go:48` calls it
  exact), so a page fetched between them stays stale. `PageFresh` excepts exactly
  these pages (`doubtful`); without the exception TLC refutes it in six steps.
* Of two processes that migrate a new file at once one may fail and exit
  (`migrate.go:36` says they serialise rather than collide). It serialises, and the
  loser's migration then finds the tables there. Nothing is damaged.
* `ShutdownGrace` bounds the HTTP part only. Afterwards `main` waits for the worker,
  which may have a whole batch in hand, with ten seconds for each job and five
  for the release.
* A power failure can undo acknowledged writes, the last ones first. A version
  number, and with it a tag, may then be given again to another text.
* The `total` of a version history is the length of the page.

## 4. Proofs

`StoreProofs` shows `StoreSpec => []Inv` where `Inv` is the conjunction of the seven
invariants of the run `store`. They are inductive together and not alone:
`VersionHistory` needs the types; `PointersOwned` needs it that versions are only
appended and belong to existing documents; `ExactlyOnce` needs `ClaimHasLease` (a row that is claimed
is not done, so no event of it exists) and `PointersOwned`;
`AuditExplainsPointer` needs that the event just appended is the last one of its
document. There is one lemma per transaction, with a step per conjunct it can
disturb; `NextInv` puts them together. The action properties `AppendOnly` and
`SettledForever` follow from one step under `Inv`.

`SchedulerProofs` shows that `Spec` of `Scheduler` implements `StoreSpec`, for any
set of workers and any clock bound, so that everything proved of the store holds
of the running system, and then the properties of the processes themselves. The
invariant `SchedulerInv` adds to the types and to `Inv` that a job in memory agrees
with its row, that a held or claimed schedule was due (`DueWhenHeld`, which gives
`NeverEarly` its induction), and that a cleanly stopped worker holds nothing.

`RefinementProofs` shows `StoreSpec => ImplementsPublication`: the mapping takes the
empty tables to the initial state of `Publication`, and every transaction to one of
its steps or to a stutter. An insert into `content_versions` is a `Write`, a manual
publish a `Release`, an unpublish a `Withdraw`, a new schedule a `MakePromise`, a
cancellation a `CallOff`, a completion a `Keep`; claims, failures and releases of
leases cannot be seen. `Inv` is needed throughout: without it a version number need
not have a row, nor a pointer a version of its own document, and the mapping would
choose among none. Scheduler, admin API and public side each implement
`StoreSpec`, so that each of them implements `Publication`: `SchedulerKeepsPromises`,
`ApiKeepsPromises`, `PublicKeepsPromises`. These say of the running system, whatever
its number of workers, editors and crashes, that a promise is kept once and never
after it was called off, and that nothing becomes public unasked.

`ApiProofs` shows that the handlers implement the store, and from the invariant
`ApiInv` the properties of the answers. The invariant says for each point of each
handler why what it read in an earlier database call is still good whatever the
others have committed since: views are views of rows that never change
(`TrueViews`), a row looked up for a version number belongs to the document and has
that number, a schedule just created still asks for what was asked, a conflict is
still a conflict. `AnsweredAsAsked` is proved of the step that commits: `OnlyCommits` shows
that no other step moves a request past its commit, `PublishAsked` and `ScheduleAsked` that
the row looked up is the row acted on. It rests on `HistoryKept` and `SettledKept` of the store.
`NumbersBelowRows` (version n of a document is at least the n-th row of the table)
keeps the tokens of clients in the range that `Store` quantifies over, which the
refinement needs.

`PublicReadProofs` shows from `PublicInv` that drafts never leak. What a request has
read and what the client has stored are pages the audit trail accounts for
(`TruePages`), a set that only grows. That a 304 of a page is true (`PagesRevalidate`)
needs `PagesOK`, which relates the cache to the rows: a cached page whose tag is the
row's `updated_at` is the row, unless it is doubtful. A write that changes the page
either stamps it with another millisecond, so that the tags differ, or makes it
doubtful. The theorem is about `PublicSpec`, with no hypothesis on the stamps. The
corresponding claims about list and sitemap are false (findings).

`RevalidationProofs` shows what remains true of them (`NewsTold`), also under
`PublicSpec`: queries and writes interleave as they like and stamps come in any
order. A 304 of the list means that every public document is in the client's copy as
it is now; the copy may still have withdrawn documents, and then its total differs
from the current count (`ListShowsAllNews`). So `MAX(updated_at)` together with the count
would be a validator of a list read in one snapshot. A 304 of the sitemap means that no
entry is missing or outdated (`SitemapShowsAllNews`). Both except a doubtful copy: one
that was torn, which is the sitemap finding, or one after which a public document was
written with a stamp not above its tag. The invariant `ListsInv` says of the other copies that they
have every public row not newer than their tag (`ListBehind`, `SitemapBehind`): a row
that has moved since carries a stamp above the tag, and then `LatestPublishedAt` is above
it too. That a row too many shows in the total needs finite sets and that a slug has
one row (`Tallied`). `PublicTypeCorrect` is here because a tag is a stamp or 0 only if the
maximum exists (`LatestIs`).

`ListingsProofs` is about places. A transaction adds at most one document and
restamps none, so the place of a row only grows, and the place of a version is
`current_version` minus its number. Hence the invariant `ListingsInv`: what the client
must see and has not seen is at or behind its offset, or, between the two queries
of a page, in the page or behind it. At the end of a walk, a place below the total
would be below the end of the last page. That a page respects its limit needs the
order to be total, which is why ties are broken by id (`PlacesDiffer`). Finite sets
and their cardinalities come from `FiniteSetTheorems`.

`ServerProofs` shows the safety properties of `Transactions` and `Server` for any number
of processes and unsynced commits. A commit makes the private copy of a process
the file, so the invariant has to say what the copy is: the file and what the
transaction itself has written (`FileInv`). This holds because whoever is inside
has connection and lock (`LockInv`), and because a power failure, which shortens
the file, leaves no process with an open transaction; `LifeOf` ties the calls in
flight to the phases of main and worker and gives the order of the shutdown.
`FileIsLedger` is why `Store` may take a transaction for one step: the processes
implement `Ledger`. It needs, besides `ServerInv`, that the unsynced commits are in the
file and each of them once (`TailOfFile`), so that what a power failure removes is a
suffix and nothing else (`TailCut`).

The inductive invariants were checked with TLC on the bounds of the runs before
they were proved.

Assumptions, all evaluated by TLC in the runs: `StoreAssumption` and
`SchedulerAssumption` (NULL is no value, times are integers, batch and lease positive,
the bounds natural numbers); `ApiAssumption` (NULL is no payload);
`RefinementAssumption` (NULL is no promise); `PublicReadAssumption` (times are
not negative, the urls of list and sitemap are not pages, the payloads that are not
indexed are payloads); `ListingsAssumption` (ids are
ordered, the default page size is between 1 and the largest); `TransactionsAssumption` and
`ServerAssumption` (NULL is neither a process nor a call, at least one commit
between checkpoints, the processes with a scheduler are processes). They are what the
code has: uuids, NULL and payloads are different things, and configuration refuses
the rest.

Only model-checked: liveness (`EventuallySettled`, `StopsWhenTold`, `ToldToStopStops`),
which is out of the prover's reach. Every invariant, action property and
refinement of a passing run is a theorem. The properties of the three runs that end in a
violation (`SameTagSameView`, `ListFresh`, `SitemapFresh`) are false.

## 5. Not modelled

Rendering (HTML, XML, JSON-LD), robots.txt, logging, authentication and error
envelopes: functions of one request. Validation and normalisation of input and
the syntax of headers: predicates on strings that refuse a request before any
database call. The reads of one version and of a document's schedules: one
query, or a query and look-ups of rows that never change. The health check: it
takes the write connection and gives it back. The sitemap's limit and cache
lifetimes. Reading the environment. What goose does beyond one migration;
rolling back a migration, which only tests do. A clock that is set back (as far
as `Scheduler` goes; `Store` allows any timestamps). The test harness.

## 6. Plan

Done: `Store`, `Publication` with its refinement, `Scheduler`, `Api`, `PublicRead`,
`Listings`, `Transactions` and `Server` with `Ledger`; the proofs of all their safety properties
and refinements, and of the part of `ListFresh` and `SitemapFresh` that holds.

Next:

1. model - a clock that is set back under the workers.
