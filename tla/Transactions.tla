---------------------------- MODULE Transactions ----------------------------
(***************************************************************************)
(* How a write reaches the file: DB.Tx of internal/store/tx.go on the      *)
(* write pool of db.go, for several server processes on one SQLite file.   *)
(*                                                                         *)
(* A call waits for the single connection of its process, then for the     *)
(* write lock of the file (BEGIN IMMEDIATE, busy_timeout), runs its        *)
(* statements on a copy only it can see, and commits or rolls back.  It    *)
(* can fail at every point, its process can die at every point, and the    *)
(* machine can lose power.  Module Store takes a transaction for one step; *)
(* the properties here are why it may.                                     *)
(*                                                                         *)
(* A transaction is named by its process and its purpose.  Its effect on   *)
(* the file is that its name appears in the two tables it writes, one      *)
(* statement each, as UpdateContent writes contents and content_versions.  *)
(* Who calls what and when is module Server's.                             *)
(***************************************************************************)
EXTENDS Naturals, Sequences, SequencesExt

CONSTANTS
    Process,      \* server processes on one database file
    NULL,         \* nobody
    MaxUnsynced   \* bound: commits between two checkpoints (wal_autocheckpoint)

Purpose == {"migrate", "put", "work", "release"}

Id == Process \X Purpose

ASSUME TransactionsAssumption ==
    /\ NULL \notin Process /\ NULL \notin Id
    /\ MaxUnsynced \in Nat \ {0}

Table == {"contents", "content_versions"}

VARIABLES
    pool,       \* per process: who has the connection of the write pool
    closed,     \* per process: whether DB.Close has run
    wlock,      \* the process that has the write lock of the file
    at,         \* where each call of DB.Tx is
    work,       \* per process: the tables as its open transaction sees them
    file,       \* the committed tables
    unsynced    \* commits that are in the WAL but not yet on the medium

connVars == <<pool, closed, wlock, work>>
fileVars == <<file, unsynced>>
txVars == <<connVars, at, fileVars>>

Inside == {"open", "half"}              \* between BEGIN and COMMIT
InTx == {"begin"} \cup Inside                    \* has the connection
InFlight == {"queued"} \cup InTx
Returned == {"ok", "error", "closed"}

Empty == [t \in Table |-> {}]

\* The file before any process has run: no tables, no commits.
TxInit ==
    /\ pool = [p \in Process |-> NULL]
    /\ closed = [p \in Process |-> FALSE]
    /\ wlock = NULL
    /\ at = [x \in Id |-> "none"]
    /\ work = [p \in Process |-> Empty]
    /\ file = Empty
    /\ unsynced = << >>

GoTo(x, where) == at' = [at EXCEPT ![x] = where]

\* The open transaction of p is over and its copy of the tables is gone.
EndWork(p) ==
    /\ wlock' = NULL
    /\ work' = [work EXCEPT ![p] = Empty]

\* The goose version table says that the migration has been applied.
Migrated(tables) == \E p \in Process : <<p, "migrate">> \in tables["contents"]

-----------------------------------------------------------------------------
(* DB.Tx. *)

\* BeginTx is called: the call joins the queue of its process's pool.
Call(x) ==
    /\ at[x] \in {"none", "error"}
    /\ GoTo(x, "queued")
    /\ UNCHANGED <<connVars, fileVars>>

\* The pool hands its only connection over (SetMaxOpenConns(1)).
Acquire(x) ==
    /\ at[x] = "queued" /\ pool[x[1]] = NULL /\ ~closed[x[1]]
    /\ pool' = [pool EXCEPT ![x[1]] = x]
    /\ GoTo(x, "begin")
    /\ UNCHANGED <<closed, wlock, work, fileVars>>

\* Seeded fault: without _txlock=immediate BEGIN takes no lock.
Begin_Deferred(x) ==
    /\ at[x] = "begin"
    /\ wlock' = IF wlock = NULL THEN x[1] ELSE wlock
    /\ work' = [work EXCEPT ![x[1]] = file]
    /\ GoTo(x, "open")
    /\ UNCHANGED <<pool, closed, fileVars>>

\* BEGIN IMMEDIATE gets the write lock of the file, within busy_timeout.
Begin(x) ==
    /\ at[x] = "begin" /\ wlock = NULL
    /\ wlock' = x[1]
    /\ work' = [work EXCEPT ![x[1]] = file]
    /\ GoTo(x, "open")
    /\ UNCHANGED <<pool, closed, fileVars>>

\* fn writes the first table.  The migration creates the tables and fails if
\* they are there already; everybody else needs them.
FirstStatement(x) ==
    /\ at[x] = "open"
    /\ Migrated(work[x[1]]) = (x[2] # "migrate")
    /\ work' = [work EXCEPT ![x[1]]["contents"] = @ \cup {x}]
    /\ GoTo(x, "half")
    /\ UNCHANGED <<pool, closed, wlock, fileVars>>

\* fn writes the second table and returns nil, and tx.Commit makes the copy the
\* file: lock and connection are free and Tx returns nil.  The commit is in
\* the WAL; synchronous=NORMAL does not sync it.
Commit(x) ==
    /\ at[x] = "half" /\ Len(unsynced) < MaxUnsynced
    /\ file' = [work[x[1]] EXCEPT !["content_versions"] = @ \cup {x}]
    /\ unsynced' = Append(unsynced, x)
    /\ EndWork(x[1])
    /\ pool' = [pool EXCEPT ![x[1]] = NULL]
    /\ GoTo(x, "ok")
    /\ UNCHANGED closed

\* Seeded fault: an error out of fn commits what was done so far.
Abort_Commits(x) ==
    /\ at[x] \in Inside
    /\ file' = work[x[1]]
    /\ unsynced' = Append(unsynced, x)
    /\ EndWork(x[1])
    /\ pool' = [pool EXCEPT ![x[1]] = NULL]
    /\ GoTo(x, "error")
    /\ UNCHANGED closed

\* Seeded fault: no deferred rollback, so a panic leaves the connection and
\* the lock behind when the recoverer answers.
Abort_NoRollback(x) ==
    /\ at[x] \in Inside
    /\ GoTo(x, "error")
    /\ UNCHANGED <<connVars, fileVars>>

\* fn returns an error or panics, the context ends, or COMMIT fails: the
\* deferred rollback discards the copy and gives lock and connection back.
\* The recoverer turns the panic of a handler into an error answer.
Abort(x) ==
    /\ at[x] \in Inside
    /\ EndWork(x[1])
    /\ pool' = [pool EXCEPT ![x[1]] = NULL]
    /\ GoTo(x, "error")
    /\ UNCHANGED <<closed, fileVars>>

\* BeginTx fails: the context ended in the queue, or the file stayed locked
\* for longer than busy_timeout.
BeginError(x) ==
    /\ at[x] \in {"queued", "begin"}
    /\ pool' = [pool EXCEPT ![x[1]] = IF @ = x THEN NULL ELSE @]
    /\ GoTo(x, "error")
    /\ UNCHANGED <<closed, wlock, work, fileVars>>

\* BeginTx finds the pool closed (sql: database is closed).
PoolClosed(x) ==
    /\ at[x] = "queued" /\ closed[x[1]]
    /\ GoTo(x, "closed")
    /\ UNCHANGED <<connVars, fileVars>>

TxStep(x) ==
    \/ Acquire(x) \/ Begin(x) \/ FirstStatement(x) \/ Commit(x)
    \/ Abort(x) \/ BeginError(x) \/ PoolClosed(x)

-----------------------------------------------------------------------------
(* The end of processes, the medium. *)

\* The processes of P are gone with everything they had in memory, whatever
\* their calls were doing.  Locks go with them, uncommitted frames are ignored.
\* What a call had told its caller stays told, unless a power failure has
\* taken the commit back.
Die(P, gone) ==
    /\ at' = [x \in Id |-> IF at[x] = "ok" THEN IF x \in gone THEN "undone" ELSE "ok"
                          ELSE IF x[1] \in P THEN "cut" ELSE at[x]]
    /\ pool' = [p \in Process |-> IF p \in P THEN NULL ELSE pool[p]]
    /\ closed' = [p \in Process |-> closed[p] /\ p \notin P]
    /\ work' = [p \in Process |-> IF p \in P THEN Empty ELSE work[p]]
    /\ wlock' = IF wlock \in P THEN NULL ELSE wlock

\* A checkpoint syncs the WAL.
Checkpoint ==
    /\ unsynced # << >>
    /\ unsynced' = << >>
    /\ UNCHANGED <<connVars, at, file>>

\* The power fails under the processes P that are up: the WAL ends after some
\* commit k at or behind the last sync.
LoseTail(P) ==
    \E k \in 0 .. Len(unsynced) :
        LET gone == ToSet(SubSeq(unsynced, k + 1, Len(unsynced))) IN
        /\ file' = [t \in Table |-> file[t] \ gone]
        /\ unsynced' = << >>
        /\ Die(P, gone)

-----------------------------------------------------------------------------
(* Properties. *)

TxTypeOK ==
    /\ pool \in [Process -> Id \cup {NULL}]
    /\ closed \in [Process -> BOOLEAN]
    /\ wlock \in Process \cup {NULL}
    /\ at \in [Id -> InFlight \cup Returned \cup {"none", "cut", "undone"}]
    /\ work \in [Process -> [Table -> SUBSET Id]]
    /\ file \in [Table -> SUBSET Id]
    /\ unsynced \in Seq(Id)

\* Both statements of a transaction are in the file or neither, whatever
\* failed, panicked or died in between and whoever else was writing.
NothingTorn == \A s, t \in Table : file[s] = file[t]

\* DB.Tx tells the truth: after nil the transaction is in the file, and stays
\* there through the death of every process; only a power failure before the
\* next checkpoint can take it back.  After an error it is not in the file,
\* so that a caller may simply repeat it.
AnswersTrue ==
    \A x \in Id :
        /\ at[x] = "ok" => x \in file["contents"]
        /\ at[x] \in {"none", "error", "closed", "undone"} => x \notin file["contents"]

\* The only SQLITE_BUSY is at BEGIN: whoever is inside a transaction has the
\* lock of the file for its process, so that no statement or commit waits,
\* and no two transactions are open at once, in one process or in two.  And
\* nobody keeps the only connection or the lock after Tx has returned, however
\* it ended: the next writer is never shut out.
LockedExactlyInside ==
    /\ \A x \in Id : at[x] \in Inside => wlock = x[1] /\ pool[x[1]] = x
    /\ \A p \in Process : pool[p] # NULL => at[pool[p]] \in InTx
    /\ wlock # NULL => \E x \in Id : x[1] = wlock /\ at[x] \in Inside

=============================================================================
