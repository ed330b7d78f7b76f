------------------------------- MODULE Server -------------------------------
(***************************************************************************)
(* The life of the server processes (cmd/server/main.go) on one database   *)
(* file: boot and migration, the listener and its requests, the scheduler  *)
(* goroutine, the stop signal, the grace period and the exit.  What they   *)
(* do to the file goes through DB.Tx (module Transactions).                *)
(*                                                                         *)
(* A process is main, one handler at a time, and the worker.  Main waits   *)
(* for the listener first, then for the worker, then closes the database;  *)
(* each of them can be late, fail, or die.  A process id is one process: a *)
(* restart is another member of Process.                                   *)
(***************************************************************************)
EXTENDS Transactions

CONSTANT
    Scheduling   \* the processes started with SCHEDULER_ENABLED

ASSUME ServerAssumption == Scheduling \subseteq Process

VARIABLES
    phase,       \* where main is in run
    signalled,   \* whether SIGINT or SIGTERM has cancelled its context
    forced,      \* whether the grace period ended with requests in flight
    wpc          \* where the worker goroutine is

lifeVars == <<phase, signalled, forced, wpc>>
serverVars == <<txVars, lifeVars>>

Up == {"migrating", "serving", "draining", "waiting", "closing", "failing"}
Gone == {"stopped", "dead"}

Init ==
    /\ TxInit
    /\ phase = [p \in Process |-> "off"]
    /\ signalled = [p \in Process |-> FALSE]
    /\ forced = [p \in Process |-> FALSE]
    /\ wpc = [p \in Process |-> "off"]

Enter(p, ph) == phase' = [phase EXCEPT ![p] = ph]

WorkerAt(p, where) == wpc' = [wpc EXCEPT ![p] = where]

\* A request of p is being handled.
Handling(p) == at[<<p, "put">>] \in InFlight

-----------------------------------------------------------------------------
(* Boot. *)

\* config.Load and store.Open succeed.
Boot(p) ==
    /\ phase[p] = "off"
    /\ Enter(p, "migrating")
    /\ UNCHANGED <<txVars, signalled, forced, wpc>>

\* The configuration is refused or the file cannot be opened.
BootError(p) ==
    /\ phase[p] = "off"
    /\ Enter(p, "dead")
    /\ UNCHANGED <<txVars, signalled, forced, wpc>>

\* Migrate: goose reads the version of the schema and applies what is missing
\* in a transaction, without looking again inside it.
Migrate(p) ==
    /\ phase[p] = "migrating" /\ at[<<p, "migrate">>] = "none"
    /\ ~Migrated(file)
    /\ Call(<<p, "migrate">>)
    /\ UNCHANGED lifeVars

\* Seeded fault: the error of Migrate is logged and forgotten.
Serve_AnyMigration(p) ==
    /\ phase[p] = "migrating" /\ at[<<p, "migrate">>] \in {"none"} \cup Returned
    /\ Enter(p, "serving")
    /\ WorkerAt(p, IF p \in Scheduling THEN "select" ELSE "off")
    /\ UNCHANGED <<txVars, signalled, forced>>

\* Seeded fault: the flag is not looked at.
Serve_AlwaysSchedules(p) ==
    /\ phase[p] = "migrating"
    /\ \/ at[<<p, "migrate">>] = "ok"
       \/ at[<<p, "migrate">>] = "none" /\ Migrated(file)
    /\ Enter(p, "serving")
    /\ WorkerAt(p, "select")
    /\ UNCHANGED <<txVars, signalled, forced>>

\* The schema is there: the signal handler, the worker and the listener start.
Serve(p) ==
    /\ phase[p] = "migrating"
    /\ \/ at[<<p, "migrate">>] = "ok"
       \/ at[<<p, "migrate">>] = "none" /\ Migrated(file)
    /\ Enter(p, "serving")
    /\ WorkerAt(p, IF p \in Scheduling THEN "select" ELSE "off")
    /\ UNCHANGED <<txVars, signalled, forced>>

\* The deferred DB.Close runs as run returns.
CloseDB(p) == closed' = [closed EXCEPT ![p] = TRUE]

\* run returns an error: the migration failed, another process may have won.
MigrateError(p) ==
    /\ phase[p] = "migrating" /\ at[<<p, "migrate">>] = "error"
    /\ Enter(p, "failing")
    /\ CloseDB(p)
    /\ UNCHANGED <<pool, wlock, work, at, fileVars, signalled, forced, wpc>>

-----------------------------------------------------------------------------
(* Requests.  At most one write of a process gets an ok in the model. *)

\* The listener accepts a request that writes.
Accept(p) ==
    /\ phase[p] = "serving" /\ ~Handling(p)
    /\ Call(<<p, "put">>)
    /\ UNCHANGED lifeVars

-----------------------------------------------------------------------------
(* The worker goroutine (module Scheduler has it in detail). *)

\* tick claims and executes, a transaction each time.  With the context
\* cancelled the claim fails at once.
Tick(p) ==
    /\ phase[p] \in Up /\ wpc[p] = "select" /\ ~signalled[p]
    /\ Call(<<p, "work">>)
    /\ WorkerAt(p, "tick")
    /\ UNCHANGED <<phase, signalled, forced>>

\* tick returns: back to select.
TickOver(p) ==
    /\ phase[p] \in Up /\ wpc[p] = "tick" /\ at[<<p, "work">>] \in Returned
    /\ WorkerAt(p, "select")
    /\ UNCHANGED <<txVars, phase, signalled, forced>>

\* select sees the cancelled context: shutdown releases the claims.
Release(p) ==
    /\ phase[p] \in Up /\ wpc[p] = "select" /\ signalled[p]
    /\ Call(<<p, "release">>)
    /\ WorkerAt(p, "release")
    /\ UNCHANGED <<phase, signalled, forced>>

\* Seeded fault: workerDone counts down only after a successful release.
WorkerDone_IfReleased(p) ==
    /\ phase[p] \in Up /\ wpc[p] = "release" /\ at[<<p, "release">>] = "ok"
    /\ WorkerAt(p, "off")
    /\ UNCHANGED <<txVars, phase, signalled, forced>>

\* The release succeeded or failed; Run returns and workerDone counts down.
WorkerDone(p) ==
    /\ phase[p] \in Up /\ wpc[p] = "release" /\ at[<<p, "release">>] \in Returned
    /\ WorkerAt(p, "off")
    /\ UNCHANGED <<txVars, phase, signalled, forced>>

-----------------------------------------------------------------------------
(* The way out. *)

\* SIGINT or SIGTERM, once the handler is installed.
Signal(p) ==
    /\ phase[p] = "serving" /\ ~signalled[p]
    /\ signalled' = [signalled EXCEPT ![p] = TRUE]
    /\ UNCHANGED <<txVars, phase, forced, wpc>>

\* The listener fails: run returns at once and does not wait for the worker.
ListenerError(p) ==
    /\ phase[p] = "serving"
    /\ Enter(p, "failing")
    /\ CloseDB(p)
    /\ UNCHANGED <<pool, wlock, work, at, fileVars, signalled, forced, wpc>>

\* srv.Shutdown stops accepting.
Drain(p) ==
    /\ phase[p] = "serving" /\ signalled[p]
    /\ Enter(p, "draining")
    /\ UNCHANGED <<txVars, signalled, forced, wpc>>

\* No request is left: Shutdown returns nil.
Drained(p) ==
    /\ phase[p] = "draining" /\ ~Handling(p)
    /\ Enter(p, "waiting")
    /\ UNCHANGED <<txVars, signalled, forced, wpc>>

\* ShutdownGrace is over first: srv.Close drops the connections, but not the
\* goroutines that serve them.
GraceOver(p) ==
    /\ phase[p] = "draining" /\ Handling(p)
    /\ Enter(p, "waiting")
    /\ forced' = [forced EXCEPT ![p] = TRUE]
    /\ UNCHANGED <<txVars, signalled, wpc>>

\* Seeded fault: main does not wait for the worker.
Close_NoWait(p) ==
    /\ phase[p] = "waiting"
    /\ Enter(p, "closing")
    /\ CloseDB(p)
    /\ UNCHANGED <<pool, wlock, work, at, fileVars, signalled, forced, wpc>>

\* workerDone.Wait returns, run returns, and the deferred DB.Close runs.
Close(p) ==
    /\ phase[p] = "waiting" /\ wpc[p] = "off"
    /\ Enter(p, "closing")
    /\ CloseDB(p)
    /\ UNCHANGED <<pool, wlock, work, at, fileVars, signalled, forced, wpc>>

\* What main and the worker kept in memory is gone.
Forget(P) ==
    /\ signalled' = [p \in Process |-> signalled[p] /\ p \notin P]
    /\ forced' = [p \in Process |-> forced[p] /\ p \notin P]
    /\ wpc' = [p \in Process |-> IF p \in P THEN "off" ELSE wpc[p]]

\* main returns; what goroutines are left go with the process.
Exit(p) ==
    /\ phase[p] \in {"closing", "failing"}
    /\ Enter(p, IF phase[p] = "closing" THEN "stopped" ELSE "dead")
    /\ Die({p}, {}) /\ Forget({p})
    /\ UNCHANGED fileVars

\* The process is killed, or a panic nobody recovers ends it.
Crash(p) ==
    /\ phase[p] \in Up
    /\ Enter(p, "dead")
    /\ Die({p}, {}) /\ Forget({p})
    /\ UNCHANGED fileVars

\* The machine loses power, and every running process with it.
PowerLoss ==
    LET up == {p \in Process : phase[p] \in Up} IN
    /\ unsynced # << >>
    /\ LoseTail(up) /\ Forget(up)
    /\ phase' = [p \in Process |-> IF p \in up THEN "dead" ELSE phase[p]]

-----------------------------------------------------------------------------
InTransaction == \E x \in Id : TxStep(x) /\ UNCHANGED lifeVars

Next ==
    \/ InTransaction
    \/ Checkpoint /\ UNCHANGED lifeVars
    \/ PowerLoss
    \/ \E p \in Process :
          \/ Boot(p) \/ BootError(p) \/ Migrate(p) \/ Serve(p) \/ MigrateError(p)
          \/ Accept(p)
          \/ Tick(p) \/ TickOver(p) \/ Release(p) \/ WorkerDone(p)
          \/ Signal(p) \/ ListenerError(p) \/ Drain(p) \/ Drained(p) \/ GraceOver(p)
          \/ Close(p) \/ Exit(p) \/ Crash(p)

\* Every call of DB.Tx has a deadline, so it goes on to its end.  Main and the
\* worker go on when they can.  Nothing is assumed of signals, requests,
\* crashes or the medium.
Fairness ==
    /\ \A x \in Id : WF_serverVars(TxStep(x) /\ UNCHANGED lifeVars)
    /\ \A p \in Process :
          /\ WF_serverVars(Drain(p))
          /\ WF_serverVars(Drained(p) \/ GraceOver(p))
          /\ WF_serverVars(TickOver(p) \/ WorkerDone(p))
          /\ WF_serverVars(Release(p))
          /\ WF_serverVars(Close(p))
          /\ WF_serverVars(Exit(p))

ServerSpec == Init /\ [][Next]_serverVars /\ Fairness

-----------------------------------------------------------------------------
(* Properties. *)

\* Only a process started with the scheduler on has a worker goroutine.
ServerTypeOK ==
    /\ TxTypeOK
    /\ phase \in [Process -> Up \cup Gone \cup {"off"}]
    /\ signalled \in [Process -> BOOLEAN]
    /\ forced \in [Process -> BOOLEAN]
    /\ wpc \in [Process -> {"off", "select", "tick", "release"}]
    /\ \A p \in Process \ Scheduling : wpc[p] = "off"

\* No process accepts requests or runs its worker on a file without its
\* tables, although several may boot at once, one of them may die in the
\* middle of the migration, and a power failure may take a migration back;
\* and the migration is in the file at most once.
ServesMigrated ==
    /\ \A p \in Process : phase[p] \in {"serving", "draining", "waiting"} => Migrated(file)
    /\ \A p, q \in Process :
          {<<p, "migrate">>, <<q, "migrate">>} \subseteq file["contents"] => p = q

\* On the way out main closes the database only when nobody needs it: unless
\* the listener failed, the worker never meets a closed pool and has had its
\* chance to release its claims, so that a failover need not wait out a lease;
\* a handler meets a closed pool only if the grace period was over.
NobodyMeetsClosedPool ==
    \A p \in Process : phase[p] = "closing" =>
        /\ at[<<p, "work">>] \notin InFlight \cup {"closed"}
        /\ p \in Scheduling => at[<<p, "release">>] \in {"ok", "error"}
        /\ at[<<p, "put">>] \in InFlight \cup {"closed"} => forced[p]

L == INSTANCE Ledger WITH
        Tx <- Id,
        durable <- file["contents"] \ ToSet(unsynced), tail <- unsynced

\* Module Store may take a transaction for one step: however calls of several
\* processes overlap, fail, retry and die, the file is a ledger that whole
\* transactions enter one after the other, none of them twice, none over another
\* one's commit; and a power failure leaves what some earlier moment after the
\* last checkpoint had.
ImplementsLedger == L!LedgerSpec

\* A process told to stop ends, whatever its requests and its worker are doing
\* and however long another process keeps the file locked.
ToldToStopStops == \A p \in Process : signalled[p] ~> phase[p] \in Gone

=============================================================================
