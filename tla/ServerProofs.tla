---------------------------- MODULE ServerProofs ----------------------------
(***************************************************************************)
(* Proofs about modules Transactions and Server, for any set of processes, *)
(* any of them with a scheduler, and any number of commits between two     *)
(* checkpoints.                                                            *)
(*                                                                         *)
(* None of the safety properties is inductive alone.  A commit makes the   *)
(* private copy of a process the file, so that one has to know what the    *)
(* copy is: the file and what the transaction itself has written.  This    *)
(* holds because nobody else commits in between (LockInv), and because a   *)
(* power failure, which shortens the file, ends every open transaction     *)
(* with it: only running processes have any (LifeOf).                      *)
(***************************************************************************)
EXTENDS Server, TLAPS

\* Who has the connection of a process and who has the lock of the file.
LockInv ==
    /\ \A p \in Process : pool[p] # NULL => pool[p][1] = p /\ at[pool[p]] \in InTx
    /\ \A x \in Id : at[x] \in InTx => pool[x[1]] = x
    /\ \A x \in Id : at[x] \in Inside => wlock = x[1]
    /\ wlock # NULL => pool[wlock] # NULL /\ at[pool[wlock]] \in Inside

\* The file holds exactly what was answered ok and not undone, and an open
\* transaction sees the file and its own first statement.
FileInv ==
    /\ file["contents"] = file["content_versions"]
    /\ \A x \in Id : x \in file["contents"] <=> at[x] = "ok"
    /\ \A x \in Id : at[x] = "open" => work[x[1]] = file
    /\ \A x \in Id : at[x] = "half" =>
          work[x[1]] = [file EXCEPT !["contents"] = @ \cup {x}]
    /\ \A p \in Process : at[<<p, "migrate">>] = "half" => ~Migrated(file)

\* Only running processes have calls in flight and each call belongs to a point
\* of main or of the worker; the pool is closed only on the way out, when the
\* worker is over.
LifeOf(p) ==
    /\ \A u \in Purpose :
          /\ at[<<p, u>>] \in InFlight => phase[p] \in Up
          /\ at[<<p, u>>] = "closed" => phase[p] \in {"closing", "failing"}
    /\ closed[p] => phase[p] \in {"closing", "failing"}
    /\ at[<<p, "work">>] \in InFlight => wpc[p] = "tick"
    /\ at[<<p, "release">>] \in InFlight => wpc[p] = "release"
    /\ phase[p] \in {"off", "migrating", "closing"} => wpc[p] = "off"
    /\ /\ p \in Scheduling /\ wpc[p] = "off"
       /\ phase[p] \in {"serving", "draining", "waiting"}
       => at[<<p, "release">>] \in Returned
    /\ phase[p] = "waiting" /\ at[<<p, "put">>] \in InFlight => forced[p]
    /\ phase[p] = "closing" =>
          /\ at[<<p, "work">>] \notin InFlight \cup {"closed"}
          /\ p \in Scheduling => at[<<p, "release">>] \in {"ok", "error"}
          /\ at[<<p, "put">>] \in InFlight \cup {"closed"} => forced[p]

MainTypeOK ==
    /\ phase \in [Process -> Up \cup Gone \cup {"off"}]
    /\ signalled \in [Process -> BOOLEAN]
    /\ forced \in [Process -> BOOLEAN]
    /\ wpc \in [Process -> {"off", "select", "tick", "release"}]
    /\ \A p \in Process \ Scheduling : wpc[p] = "off"

\* The part of the invariant that is about the file and its lock.
TxInv == TxTypeOK /\ LockInv /\ FileInv

\* The part that is about main and its goroutines.
MainInv == MainTypeOK /\ (\A p \in Process : LifeOf(p)) /\ ServesMigrated

ServerInv == TxInv /\ MainInv

-----------------------------------------------------------------------------
(* Preliminaries. *)

\* A call is named by its process and its purpose.
LEMMA IdFacts ==
    /\ \A x \in Id : x[1] \in Process /\ x[2] \in Purpose /\ x = <<x[1], x[2]>>
    /\ \A p \in Process, u \in Purpose :
          <<p, u>> \in Id /\ <<p, u>>[1] = p /\ <<p, u>>[2] = u
<1> QED  BY DEF Id

\* Calls of one process are told apart by their purpose.
LEMMA TwoCalls ==
    ASSUME NEW x \in Id, NEW y \in Id, Call(x), Call(y), TxTypeOK
    PROVE  x = y
<1>1. at'[x] = "queued" /\ at'[y] = "queued" /\ at[y] # "queued"
  BY DEF Call, GoTo, TxTypeOK
<1>2. x # y => at'[y] = at[y]
  BY DEF Call, GoTo, TxTypeOK
<1> QED  BY <1>1, <1>2

\* Two transactions are never open at once.
LEMMA OneInside ==
    ASSUME LockInv, NEW x \in Id, NEW y \in Id,
           at[x] \in Inside, at[y] \in Inside
    PROVE  x = y
<1> QED  BY DEF LockInv, InTx

\* What GoTo does: one call moves.
LEMMA GoToFacts ==
    ASSUME TxTypeOK, NEW x \in Id, NEW w, GoTo(x, w)
    PROVE  /\ at'[x] = w
           /\ \A y \in Id : y # x => at'[y] = at[y]
<1> QED  BY DEF TxTypeOK, GoTo

\* What GoTo keeps of the type of at.
LEMMA GoToType ==
    ASSUME TxTypeOK, NEW x \in Id,
           NEW w \in InFlight \cup Returned \cup {"none", "cut", "undone"}, GoTo(x, w)
    PROVE  at' \in [Id -> InFlight \cup Returned \cup {"none", "cut", "undone"}]
<1> QED  BY DEF TxTypeOK, GoTo

-----------------------------------------------------------------------------
(* DB.Tx: what its steps do to the lock, the connection and the file. *)

\* A step that leaves the file, the copies and the calls inside a transaction
\* alone keeps FileInv.
LEMMA FileUntouched ==
    ASSUME TxInv, UNCHANGED <<file, work>>,
           \A y \in Id : at'[y] \in Inside => at'[y] = at[y],
           \A y \in Id : at'[y] = "ok" <=> at[y] = "ok"
    PROVE  FileInv'
<1>1. \A y \in Id : /\ at'[y] = "open" => at[y] = "open"
                    /\ at'[y] = "half" => at[y] = "half"
  BY DEF Inside
<1>2. \A p \in Process : <<p, "migrate">> \in Id
  BY IdFacts DEF Purpose
<1>3. Migrated(file)' = Migrated(file)
  BY DEF Migrated
<1> QED  BY <1>1, <1>2, <1>3 DEF TxInv, FileInv

\* The connection goes to a call of the process that was waiting for it.
LEMMA AcquireInv ==
    ASSUME TxInv, NEW x \in Id, Acquire(x)
    PROVE  TxInv'
<1>1. /\ at'[x] = "begin" /\ at[x] = "queued"
      /\ \A y \in Id : y # x => at'[y] = at[y]
  BY GoToFacts DEF TxInv, Acquire
<1>2. TxTypeOK'
  BY GoToType, IdFacts DEF TxInv, TxTypeOK, Acquire, fileVars, InFlight, InTx
<1>3. /\ pool'[x[1]] = x /\ pool[x[1]] = NULL
      /\ \A p \in Process : p # x[1] => pool'[p] = pool[p]
      /\ UNCHANGED wlock
  BY IdFacts DEF TxInv, TxTypeOK, Acquire
<1>4. LockInv'
  <2>1. \A p \in Process : pool'[p] # NULL => pool'[p][1] = p /\ at'[pool'[p]] \in InTx
    <3> SUFFICES ASSUME NEW p \in Process, pool'[p] # NULL
                 PROVE  pool'[p][1] = p /\ at'[pool'[p]] \in InTx
      OBVIOUS
    <3>1. CASE p = x[1]
      <4>1. pool'[p] = x /\ at'[x] \in InTx
        BY <1>1, <1>3, <3>1 DEF InTx
      <4> QED  BY <3>1, <4>1
    <3>2. CASE p # x[1]
      <4>1. pool'[p] = pool[p] /\ pool[p] # NULL
        BY <1>3, <3>2
      <4>2. pool[p] \in Id /\ pool[p][1] = p /\ at[pool[p]] \in InTx
        BY <4>1 DEF TxInv, TxTypeOK, LockInv
      <4>3. at'[pool[p]] = at[pool[p]]
        BY <1>1, <3>2, <4>2
      <4> QED  BY <4>1, <4>2, <4>3
    <3> QED  BY <3>1, <3>2
  <2>2. \A y \in Id : at'[y] \in InTx => pool'[y[1]] = y
    <3>1. \A y \in Id : at[y] \in InTx => pool[y[1]] = y /\ y # NULL
      BY TransactionsAssumption DEF TxInv, LockInv
    <3> QED  BY <1>1, <1>3, <3>1, IdFacts
  <2>3. \A y \in Id : at'[y] \in Inside => wlock' = y[1]
    BY <1>1, <1>3 DEF TxInv, LockInv, Inside
  <2>4. wlock' # NULL => pool'[wlock'] # NULL /\ at'[pool'[wlock']] \in Inside
    BY <1>1, <1>3, IdFacts DEF TxInv, TxTypeOK, LockInv, Inside
  <2> QED  BY <2>1, <2>2, <2>3, <2>4 DEF LockInv
<1>5. FileInv'
  BY <1>1, FileUntouched DEF Acquire, fileVars, Inside
<1> QED  BY <1>2, <1>4, <1>5 DEF TxInv

\* BEGIN IMMEDIATE takes the lock only when it is free, and copies the file.
LEMMA BeginInv ==
    ASSUME TxInv, NEW x \in Id, Begin(x)
    PROVE  TxInv'
<1>1. /\ at'[x] = "open" /\ at[x] = "begin"
      /\ \A y \in Id : y # x => at'[y] = at[y]
  BY GoToFacts DEF TxInv, Begin
<1>2. TxTypeOK'
  BY GoToType, IdFacts DEF TxInv, TxTypeOK, Begin, fileVars, InFlight, InTx, Inside
<1>3. /\ wlock = NULL /\ wlock' = x[1] /\ UNCHANGED <<pool, file>>
      /\ work'[x[1]] = file
  BY IdFacts DEF TxInv, TxTypeOK, Begin, fileVars
<1>4. \A y \in Id : y # x => at'[y] \notin Inside
  BY <1>1, <1>3, IdFacts, TransactionsAssumption DEF TxInv, LockInv
<1>5. pool[x[1]] = x
  BY <1>1 DEF TxInv, LockInv, InTx
<1>6. LockInv'
  <2>1. \A p \in Process : pool'[p] # NULL => pool'[p][1] = p /\ at'[pool'[p]] \in InTx
    BY <1>1, <1>3 DEF TxInv, TxTypeOK, LockInv, InTx, Inside
  <2>2. \A y \in Id : at'[y] \in InTx => pool'[y[1]] = y
    BY <1>1, <1>3, <1>5 DEF TxInv, LockInv
  <2>3. \A y \in Id : at'[y] \in Inside => wlock' = y[1]
    BY <1>3, <1>4
  <2>4. wlock' # NULL => pool'[wlock'] # NULL /\ at'[pool'[wlock']] \in Inside
    BY <1>1, <1>3, <1>5, TransactionsAssumption DEF Inside
  <2> QED  BY <2>1, <2>2, <2>3, <2>4 DEF LockInv
<1>7. FileInv'
  <2>1. \A y \in Id : at'[y] = "ok" <=> at[y] = "ok"
    BY <1>1
  <2>2. \A y \in Id : /\ at'[y] = "open" => y = x
                      /\ at'[y] # "half"
    BY <1>1, <1>4 DEF Inside
  <2>3. \A p \in Process : <<p, "migrate">> \in Id
    BY IdFacts DEF Purpose
  <2> QED  BY <1>3, <2>1, <2>2, <2>3 DEF TxInv, FileInv
<1> QED  BY <1>2, <1>6, <1>7 DEF TxInv

\* The first statement changes only the copy of the process that has the lock.
LEMMA FirstStatementInv ==
    ASSUME TxInv, NEW x \in Id, FirstStatement(x)
    PROVE  TxInv'
<1>1. /\ at'[x] = "half" /\ at[x] = "open"
      /\ \A y \in Id : y # x => at'[y] = at[y]
  BY GoToFacts DEF TxInv, FirstStatement
<1>2. TxTypeOK'
  BY GoToType, IdFacts
  DEF TxInv, TxTypeOK, FirstStatement, fileVars, InFlight, InTx, Inside, Table
<1>3. /\ work[x[1]] = file /\ UNCHANGED <<pool, wlock, file>>
      /\ work'[x[1]] = [file EXCEPT !["contents"] = @ \cup {x}]
      /\ Migrated(file) = (x[2] # "migrate")
  <2>1. work[x[1]] = file
    BY <1>1 DEF TxInv, FileInv
  <2> QED  BY <2>1, IdFacts DEF TxInv, TxTypeOK, FirstStatement, fileVars, Table
<1>4. \A y \in Id : y # x => at'[y] \notin Inside
  BY <1>1, OneInside DEF TxInv, Inside
<1>5. LockInv'
  <2>1. \A y \in Id : /\ at'[y] \in InTx <=> at[y] \in InTx
                      /\ at'[y] \in Inside <=> at[y] \in Inside
    BY <1>1 DEF InTx, Inside
  <2>2. \A p \in Process : pool[p] # NULL => pool[p] \in Id
    BY DEF TxInv, TxTypeOK
  <2>3. wlock # NULL => wlock \in Process
    BY DEF TxInv, TxTypeOK
  <2> QED  BY <1>3, <2>1, <2>2, <2>3 DEF TxInv, LockInv
<1>6. FileInv'
  <2>1. \A y \in Id : at'[y] = "ok" <=> at[y] = "ok"
    BY <1>1
  <2>2. \A y \in Id : /\ at'[y] # "open"
                      /\ at'[y] = "half" => y = x
    BY <1>1, <1>4 DEF Inside
  <2>3. \A y \in Id : at'[y] = "half" =>
            work'[y[1]] = [file' EXCEPT !["contents"] = @ \cup {y}]
    BY <1>3, <2>2
  <2>4. \A p \in Process : at'[<<p, "migrate">>] = "half" => ~Migrated(file')
    <3> SUFFICES ASSUME NEW p \in Process, at'[<<p, "migrate">>] = "half"
                 PROVE  ~Migrated(file')
      OBVIOUS
    <3>1. <<p, "migrate">> \in Id /\ <<p, "migrate">>[2] = "migrate"
      BY IdFacts DEF Purpose
    <3>2. x[2] = "migrate"
      BY <2>2, <3>1
    <3> QED  BY <1>3, <3>2
  <2>5. Migrated(file)' = Migrated(file')
    BY DEF Migrated
  <2> QED  BY <1>3, <2>1, <2>2, <2>3, <2>4, <2>5 DEF TxInv, FileInv
<1> QED  BY <1>2, <1>5, <1>6 DEF TxInv

\* A transaction inside the lock that ends gives the lock and the connection
\* back, and nobody else is inside.
LEMMA EndFacts ==
    ASSUME TxInv, NEW x \in Id, NEW w, at[x] \in Inside, w \notin InTx,
           EndWork(x[1]), pool' = [pool EXCEPT ![x[1]] = NULL], GoTo(x, w)
    PROVE  /\ LockInv'
           /\ work' \in [Process -> [Table -> SUBSET Id]]
           /\ pool' \in [Process -> Id \cup {NULL}]
           /\ wlock' = NULL
           /\ at'[x] = w
           /\ \A y \in Id : y # x => at'[y] = at[y] /\ at'[y] \notin Inside
           /\ \A y \in Id : at'[y] \notin Inside
<1>1. /\ at'[x] = w
      /\ \A y \in Id : y # x => at'[y] = at[y]
  BY GoToFacts DEF TxInv
<1>2. \A y \in Id : y # x => at'[y] \notin Inside
  BY <1>1, OneInside DEF TxInv
<1>3. \A y \in Id : at'[y] \notin Inside
  BY <1>1, <1>2 DEF InTx
<1>4. /\ pool'[x[1]] = NULL /\ pool[x[1]] = x
      /\ \A p \in Process : p # x[1] => pool'[p] = pool[p]
      /\ wlock' = NULL
  BY IdFacts DEF TxInv, TxTypeOK, LockInv, InTx, EndWork
<1>5. LockInv'
  <2>1. \A p \in Process : pool'[p] # NULL => pool'[p][1] = p /\ at'[pool'[p]] \in InTx
    BY <1>1, <1>4, IdFacts DEF TxInv, TxTypeOK, LockInv
  <2>2. \A y \in Id : at'[y] \in InTx => pool'[y[1]] = y
    BY <1>1, <1>4, IdFacts DEF TxInv, LockInv
  <2> QED  BY <1>3, <1>4, <2>1, <2>2 DEF LockInv
<1>6. work' \in [Process -> [Table -> SUBSET Id]]
  BY IdFacts DEF EndWork, Empty, TxInv, TxTypeOK
<1>7. pool' \in [Process -> Id \cup {NULL}]
  BY DEF TxInv, TxTypeOK
<1> QED  BY <1>1, <1>2, <1>3, <1>4, <1>5, <1>6, <1>7

\* A commit adds the transaction to both tables and to nothing else: the copy
\* it installs was the file with its own writes.
LEMMA CommitFacts ==
    ASSUME TxInv, NEW x \in Id, Commit(x)
    PROVE  file' = [t \in Table |-> file[t] \cup {x}]
<1>1. work[x[1]] = [file EXCEPT !["contents"] = @ \cup {x}]
  BY DEF TxInv, FileInv, Commit
<1> QED  BY <1>1 DEF TxInv, TxTypeOK, Commit, Table

\* A commit keeps the file whole.
LEMMA CommitInv ==
    ASSUME TxInv, NEW x \in Id, Commit(x)
    PROVE  TxInv'
<1>1. /\ LockInv'
      /\ work' \in [Process -> [Table -> SUBSET Id]]
      /\ pool' \in [Process -> Id \cup {NULL}]
      /\ wlock' = NULL
      /\ at'[x] = "ok"
      /\ \A y \in Id : y # x => at'[y] = at[y]
      /\ \A y \in Id : at'[y] \notin Inside
  <2>1. at[x] \in Inside /\ EndWork(x[1])
    BY DEF Commit, Inside
  <2>2. "ok" \notin InTx
    BY DEF InTx, Inside
  <2> QED  BY <2>1, <2>2, EndFacts DEF Commit
<1>2. file' = [t \in Table |-> file[t] \cup {x}]
  BY CommitFacts
<1>3. TxTypeOK'
  <2>1. at' \in [Id -> InFlight \cup Returned \cup {"none", "cut", "undone"}]
    BY GoToType DEF TxInv, Commit, Returned
  <2>2. unsynced' \in Seq(Id) /\ closed' = closed
    BY DEF TxInv, TxTypeOK, Commit
  <2> QED  BY <1>1, <1>2, <2>1, <2>2 DEF TxInv, TxTypeOK
<1>4. FileInv'
  <2>1. \A y \in Id : y \in file'["contents"] <=> at'[y] = "ok"
    BY <1>1, <1>2 DEF TxInv, FileInv, Table
  <2>2. file'["contents"] = file'["content_versions"]
    BY <1>2 DEF TxInv, FileInv, Table
  <2>3. \A p \in Process : <<p, "migrate">> \in Id
    BY IdFacts DEF Purpose
  <2>4. \A y \in Id : at'[y] # "open" /\ at'[y] # "half"
    BY <1>1 DEF Inside
  <2> QED  BY <2>1, <2>2, <2>3, <2>4 DEF FileInv
<1> QED  BY <1>1, <1>3, <1>4 DEF TxInv

\* The deferred rollback.
LEMMA AbortInv ==
    ASSUME TxInv, NEW x \in Id, Abort(x)
    PROVE  TxInv'
<1>1. /\ LockInv'
      /\ work' \in [Process -> [Table -> SUBSET Id]]
      /\ pool' \in [Process -> Id \cup {NULL}]
      /\ wlock' = NULL
      /\ at'[x] = "error"
      /\ \A y \in Id : y # x => at'[y] = at[y]
      /\ \A y \in Id : at'[y] \notin Inside
  <2>1. at[x] \in Inside /\ EndWork(x[1])
    BY DEF Abort, Inside
  <2>2. "error" \notin InTx
    BY DEF InTx, Inside
  <2> QED  BY <2>1, <2>2, EndFacts DEF Abort
<1>2. UNCHANGED <<file, unsynced, closed>> /\ at[x] # "ok"
  BY DEF Abort, fileVars, Inside
<1>3. TxTypeOK'
  <2>1. at' \in [Id -> InFlight \cup Returned \cup {"none", "cut", "undone"}]
    BY GoToType DEF TxInv, Abort, Returned
  <2> QED  BY <1>1, <1>2, <2>1 DEF TxInv, TxTypeOK
<1>4. FileInv'
  <2>1. \A y \in Id : at'[y] = "ok" <=> at[y] = "ok"
    BY <1>1, <1>2
  <2>3. \A p \in Process : <<p, "migrate">> \in Id
    BY IdFacts DEF Purpose
  <2>4. \A y \in Id : at'[y] # "open" /\ at'[y] # "half"
    BY <1>1 DEF Inside
  <2> QED  BY <1>2, <2>1, <2>3, <2>4 DEF TxInv, FileInv
<1> QED  BY <1>1, <1>3, <1>4 DEF TxInv

\* BeginTx gives up before it has the lock.
LEMMA BeginErrorInv ==
    ASSUME TxInv, NEW x \in Id, BeginError(x)
    PROVE  TxInv'
<1>1. /\ at'[x] = "error" /\ at[x] \in {"queued", "begin"}
      /\ \A y \in Id : y # x => at'[y] = at[y]
  BY GoToFacts DEF TxInv, BeginError
<1>2. TxTypeOK'
  BY GoToType, IdFacts DEF TxInv, TxTypeOK, BeginError, fileVars, Returned
<1>3. /\ pool'[x[1]] = IF pool[x[1]] = x THEN NULL ELSE pool[x[1]]
      /\ \A p \in Process : p # x[1] => pool'[p] = pool[p]
      /\ UNCHANGED <<wlock, file, work>>
  BY IdFacts DEF TxInv, TxTypeOK, BeginError, fileVars
<1>4. \A p \in Process : pool'[p] # NULL => pool'[p] = pool[p] /\ pool[p] # x /\ pool[p] \in Id
  BY <1>3, IdFacts DEF TxInv, TxTypeOK, LockInv
<1>5. LockInv'
  <2>1. \A p \in Process : pool'[p] # NULL => pool'[p][1] = p /\ at'[pool'[p]] \in InTx
    BY <1>1, <1>4 DEF TxInv, LockInv
  <2>2. \A y \in Id : at'[y] \in InTx => pool'[y[1]] = y
    <3> SUFFICES ASSUME NEW y \in Id, at'[y] \in InTx PROVE pool'[y[1]] = y
      OBVIOUS
    <3>1. y # x
      BY <1>1 DEF InTx, Inside
    <3>2. pool[y[1]] = y /\ y[1] \in Process
      BY <1>1, <3>1, IdFacts DEF TxInv, LockInv
    <3> QED  BY <1>3, <3>1, <3>2
  <2>3. \A y \in Id : at'[y] \in Inside => wlock' = y[1]
    BY <1>1, <1>3 DEF TxInv, LockInv, Inside
  <2>4. wlock' # NULL => pool'[wlock'] # NULL /\ at'[pool'[wlock']] \in Inside
    <3> SUFFICES ASSUME wlock # NULL
                 PROVE  pool'[wlock] # NULL /\ at'[pool'[wlock]] \in Inside
      BY <1>3
    <3>1. /\ wlock \in Process /\ pool[wlock] # NULL
          /\ pool[wlock] \in Id /\ at[pool[wlock]] \in Inside
      BY DEF TxInv, TxTypeOK, LockInv
    <3>2. pool[wlock] # x
      BY <1>1, <3>1 DEF Inside
    <3> QED  BY <1>1, <1>3, <3>1, <3>2
  <2> QED  BY <2>1, <2>2, <2>3, <2>4 DEF LockInv
<1>6. FileInv'
  BY <1>1, <1>3, FileUntouched DEF Inside
<1> QED  BY <1>2, <1>5, <1>6 DEF TxInv

\* A call that joins the queue, or finds the pool closed, has no connection.
LEMMA QueueInv ==
    ASSUME TxInv, NEW x \in Id, Call(x) \/ PoolClosed(x)
    PROVE  TxInv'
<1>1. PICK w \in {"queued", "closed"} : GoTo(x, w)
  BY DEF Call, PoolClosed
<1>2. /\ at'[x] = w /\ at[x] \in {"none", "error", "queued"}
      /\ \A y \in Id : y # x => at'[y] = at[y]
  BY <1>1, GoToFacts DEF TxInv, Call, PoolClosed
<1>3. UNCHANGED <<pool, closed, wlock, work, file, unsynced>>
  BY DEF Call, PoolClosed, connVars, fileVars
<1>4. TxTypeOK'
  BY <1>1, <1>3, GoToType DEF TxInv, TxTypeOK, InFlight, Returned
<1>5. \A y \in Id : /\ at'[y] \in InTx <=> at[y] \in InTx
                    /\ at'[y] \in Inside <=> at[y] \in Inside
                    /\ at'[y] = "ok" <=> at[y] = "ok"
                    /\ at'[y] \in Inside => at'[y] = at[y]
  BY <1>2 DEF InTx, Inside
<1>6. LockInv'
  <2>1. \A p \in Process : pool[p] # NULL => pool[p] \in Id
    BY DEF TxInv, TxTypeOK
  <2>2. wlock # NULL => wlock \in Process
    BY DEF TxInv, TxTypeOK
  <2> QED  BY <1>3, <1>5, <2>1, <2>2 DEF TxInv, LockInv
<1>7. FileInv'
  BY <1>3, <1>5, FileUntouched
<1> QED  BY <1>4, <1>6, <1>7 DEF TxInv

\* Processes die, with a suffix of the commits or without.  The copies that are
\* left were made from a file that has not changed: a power failure, the only
\* death that changes it, leaves nobody inside a transaction.
LEMMA DieInv ==
    ASSUME TxInv, NEW P \in SUBSET Process, NEW gone, Die(P, gone),
           unsynced' \in Seq(Id),
           file' = [t \in Table |-> file[t] \ gone],
           gone = {} \/ \A x \in Id : at[x] \in Inside => x[1] \in P
    PROVE  TxInv'
<1>1. \A x \in Id : at'[x] = IF at[x] = "ok" THEN IF x \in gone THEN "undone" ELSE "ok"
                             ELSE IF x[1] \in P THEN "cut" ELSE at[x]
  BY DEF Die
<1>2. TxTypeOK'
  <2>1. at' \in [Id -> InFlight \cup Returned \cup {"none", "cut", "undone"}]
    BY DEF TxInv, TxTypeOK, Die
  <2>2. pool' \in [Process -> Id \cup {NULL}] /\ closed' \in [Process -> BOOLEAN]
    BY DEF TxInv, TxTypeOK, Die
  <2>3. work' \in [Process -> [Table -> SUBSET Id]] /\ wlock' \in Process \cup {NULL}
    BY DEF TxInv, TxTypeOK, Die, Empty
  <2>4. file' \in [Table -> SUBSET Id]
    BY DEF TxInv, TxTypeOK
  <2> QED  BY <2>1, <2>2, <2>3, <2>4 DEF TxTypeOK
<1>3. \A x \in Id : at'[x] \in InTx => at'[x] = at[x] /\ x[1] \notin P
  BY <1>1 DEF InTx, Inside
<1>4. \A x \in Id : at[x] \in InTx /\ x[1] \notin P => at'[x] = at[x]
  BY <1>1 DEF InTx, Inside
<1>5. \A p \in Process : /\ p \in P => pool'[p] = NULL
                         /\ p \notin P => pool'[p] = pool[p] /\ work'[p] = work[p]
  BY DEF Die
<1>6. wlock' = IF wlock \in P THEN NULL ELSE wlock
  BY DEF Die
<1>7. LockInv'
  <2>1. \A p \in Process : pool'[p] # NULL => pool'[p][1] = p /\ at'[pool'[p]] \in InTx
    BY <1>4, <1>5 DEF TxInv, TxTypeOK, LockInv
  <2>2. \A y \in Id : at'[y] \in InTx => pool'[y[1]] = y
    BY <1>3, <1>5, IdFacts DEF TxInv, LockInv
  <2>3. \A y \in Id : at'[y] \in Inside => wlock' = y[1]
    BY <1>3, <1>6 DEF TxInv, LockInv, InTx
  <2>4. wlock' # NULL => pool'[wlock'] # NULL /\ at'[pool'[wlock']] \in Inside
    BY <1>4, <1>5, <1>6 DEF TxInv, TxTypeOK, LockInv, InTx
  <2> QED  BY <2>1, <2>2, <2>3, <2>4 DEF LockInv
<1>8. FileInv'
  <2>1. file'["contents"] = file'["content_versions"]
    BY DEF TxInv, FileInv, Table
  <2>2. \A x \in Id : x \in file'["contents"] <=> at'[x] = "ok"
    <3> SUFFICES ASSUME NEW x \in Id PROVE x \in file'["contents"] <=> at'[x] = "ok"
      OBVIOUS
    <3>1. x \in file["contents"] <=> at[x] = "ok"
      BY DEF TxInv, FileInv
    <3>2. x \in file'["contents"] <=> x \in file["contents"] /\ x \notin gone
      BY DEF Table
    <3> QED  BY <1>1, <3>1, <3>2
  <2>3. (\E x \in Id : at'[x] \in Inside) => file' = file
    BY <1>3 DEF TxInv, TxTypeOK, InTx
  <2>4. \A x \in Id : at'[x] \in Inside =>
           at'[x] = at[x] /\ work'[x[1]] = work[x[1]] /\ file' = file
    BY <1>3, <1>5, <2>3, IdFacts DEF InTx
  <2>5. \A x \in Id : at'[x] = "open" => work'[x[1]] = file'
    BY <2>4 DEF TxInv, FileInv, Inside
  <2>6. \A x \in Id : at'[x] = "half" =>
           work'[x[1]] = [file' EXCEPT !["contents"] = @ \cup {x}]
    BY <2>4 DEF TxInv, FileInv, Inside
  <2>7. \A p \in Process : at'[<<p, "migrate">>] = "half" => ~Migrated(file)'
    <3>1. \A p \in Process : <<p, "migrate">> \in Id
      BY IdFacts DEF Purpose
    <3> QED  BY <2>4, <3>1 DEF TxInv, FileInv, Inside, Migrated
  <2> QED  BY <2>1, <2>2, <2>5, <2>6, <2>7 DEF FileInv
<1> QED  BY <1>2, <1>7, <1>8 DEF TxInv

-----------------------------------------------------------------------------
(* The life of a process. *)

\* A step leaves the calls, main and the worker of every process but p alone.
OthersKept(p) ==
    \A q \in Process : q # p =>
        /\ \A u \in Purpose : at'[<<q, u>>] = at[<<q, u>>]
        /\ closed'[q] = closed[q] /\ phase'[q] = phase[q]
        /\ forced'[q] = forced[q] /\ wpc'[q] = wpc[q]

\* For a step of one process it is enough to look at that process.
LEMMA LivesKept ==
    ASSUME MainInv, NEW p \in Process, OthersKept(p), LifeOf(p)'
    PROVE  \A q \in Process : LifeOf(q)'
<1>1. \A q \in Process : LifeOf(q)
  BY DEF MainInv
<1>2. ASSUME NEW q \in Process, q # p PROVE LifeOf(q)'
  <2>1. \A u \in Purpose : at'[<<q, u>>] = at[<<q, u>>]
    BY <1>2 DEF OthersKept
  <2>2. /\ at'[<<q, "work">>] = at[<<q, "work">>]
        /\ at'[<<q, "release">>] = at[<<q, "release">>]
        /\ at'[<<q, "put">>] = at[<<q, "put">>]
    BY <2>1 DEF Purpose
  <2>3. /\ closed'[q] = closed[q] /\ phase'[q] = phase[q]
        /\ forced'[q] = forced[q] /\ wpc'[q] = wpc[q]
    BY <1>2 DEF OthersKept
  <2> QED  BY <1>1, <2>1, <2>2, <2>3 DEF LifeOf
<1> QED  BY <1>2

\* The same for a step that keeps the file.
LEMMA LifeStep ==
    ASSUME MainInv, NEW p \in Process, UNCHANGED file,
           OthersKept(p), MainTypeOK', LifeOf(p)',
           phase'[p] \in {"serving", "draining", "waiting"} => Migrated(file)
    PROVE  MainInv'
<1>1. \A q \in Process : LifeOf(q)'
  BY LivesKept
<1>2. ServesMigrated'
  <2>1. Migrated(file)' = Migrated(file)
    BY DEF Migrated
  <2> QED  BY <2>1 DEF MainInv, ServesMigrated, OthersKept
<1> QED  BY <1>1, <1>2 DEF MainInv

\* A call that has returned, or has not been made, is not in flight.
LEMMA NotInFlight ==
    /\ \A w \in Returned : w \notin InFlight
    /\ \A w \in {"none", "cut", "undone"} : w \notin InFlight /\ w \notin Returned
    /\ "queued" \in InFlight
<1> QED  BY DEF Returned, InFlight, InTx, Inside

\* The steps of main and of the worker outside DB.Tx, up to the closing of the
\* database.
LEMMA OutsideTx ==
    ASSUME TxInv, MainInv, NEW p \in Process,
           \/ Boot(p) \/ BootError(p) \/ Serve(p) \/ TickOver(p) \/ WorkerDone(p)
           \/ Signal(p) \/ Drain(p) \/ Drained(p) \/ GraceOver(p)
    PROVE  TxInv' /\ MainInv'
<1>1. UNCHANGED <<pool, closed, wlock, work, at, file, unsynced>>
  BY DEF Boot, BootError, Serve, TickOver, WorkerDone, Signal, Drain, Drained,
         GraceOver, txVars, connVars, fileVars
<1>2. TxInv'
  BY <1>1 DEF TxInv, TxTypeOK, LockInv, FileInv, Migrated
<1>3. LifeOf(p) /\ MainTypeOK
  BY DEF MainInv
<1>4. phase[p] \in {"serving", "draining", "waiting"} => Migrated(file)
  BY DEF MainInv, ServesMigrated
<1>5. CASE Boot(p)
  <2>1. OthersKept(p)
    BY <1>1, <1>3, <1>5 DEF OthersKept, MainTypeOK, Boot, Enter
  <2>2. MainTypeOK'
    BY <1>3, <1>5 DEF MainTypeOK, Boot, Enter, Up, Gone
  <2>3. LifeOf(p)'
    BY <1>1, <1>3, <1>5, NotInFlight DEF MainTypeOK, LifeOf, Purpose, Boot, Enter, Up
  <2>4. phase'[p] \in {"serving", "draining", "waiting"} => Migrated(file)
    BY <1>3, <1>4, <1>5 DEF MainTypeOK, Boot, Enter
  <2> QED  BY <1>1, <1>2, <2>1, <2>2, <2>3, <2>4, LifeStep
<1>6. CASE BootError(p)
  <2>1. OthersKept(p)
    BY <1>1, <1>3, <1>6 DEF OthersKept, MainTypeOK, BootError, Enter
  <2>2. MainTypeOK'
    BY <1>3, <1>6 DEF MainTypeOK, BootError, Enter, Up, Gone
  <2>3. LifeOf(p)'
    BY <1>1, <1>3, <1>6, NotInFlight DEF MainTypeOK, LifeOf, Purpose, BootError, Enter, Up
  <2>4. phase'[p] \in {"serving", "draining", "waiting"} => Migrated(file)
    BY <1>3, <1>4, <1>6 DEF MainTypeOK, BootError, Enter
  <2> QED  BY <1>1, <1>2, <2>1, <2>2, <2>3, <2>4, LifeStep
<1>7. CASE Serve(p)
  <2>1. OthersKept(p)
    BY <1>1, <1>3, <1>7 DEF OthersKept, MainTypeOK, Serve, Enter, WorkerAt
  <2>2. MainTypeOK'
    BY <1>3, <1>7 DEF MainTypeOK, Serve, Enter, WorkerAt, Up, Gone
  <2>3. LifeOf(p)'
    BY <1>1, <1>3, <1>7, NotInFlight DEF MainTypeOK, LifeOf, Purpose, Serve, Enter, WorkerAt, Up
  <2>4. Migrated(file)
    <3>1. <<p, "migrate">> \in Id
      BY IdFacts DEF Purpose
    <3> QED  BY <1>7, <3>1 DEF TxInv, FileInv, Migrated, Serve
  <2> QED  BY <1>1, <1>2, <2>1, <2>2, <2>3, <2>4, LifeStep
<1>8. CASE TickOver(p)
  <2>1. OthersKept(p)
    BY <1>1, <1>3, <1>8 DEF OthersKept, MainTypeOK, TickOver, WorkerAt
  <2>2. MainTypeOK'
    BY <1>3, <1>8 DEF MainTypeOK, TickOver, WorkerAt, Up, Gone
  <2>3. LifeOf(p)'
    BY <1>1, <1>3, <1>8, NotInFlight DEF MainTypeOK, LifeOf, Purpose, TickOver, WorkerAt
  <2>4. phase'[p] \in {"serving", "draining", "waiting"} => Migrated(file)
    BY <1>3, <1>4, <1>8 DEF MainTypeOK, TickOver, WorkerAt
  <2> QED  BY <1>1, <1>2, <2>1, <2>2, <2>3, <2>4, LifeStep
<1>9. CASE WorkerDone(p)
  <2>1. OthersKept(p)
    BY <1>1, <1>3, <1>9 DEF OthersKept, MainTypeOK, WorkerDone, WorkerAt
  <2>2. MainTypeOK'
    BY <1>3, <1>9 DEF MainTypeOK, WorkerDone, WorkerAt, Up, Gone
  <2>3. LifeOf(p)'
    BY <1>1, <1>3, <1>9, NotInFlight DEF MainTypeOK, LifeOf, Purpose, WorkerDone, WorkerAt
  <2>4. phase'[p] \in {"serving", "draining", "waiting"} => Migrated(file)
    BY <1>3, <1>4, <1>9 DEF MainTypeOK, WorkerDone, WorkerAt
  <2> QED  BY <1>1, <1>2, <2>1, <2>2, <2>3, <2>4, LifeStep
<1>10. CASE Signal(p)
  <2>1. OthersKept(p)
    BY <1>1, <1>3, <1>10 DEF OthersKept, MainTypeOK, Signal
  <2>2. MainTypeOK'
    BY <1>3, <1>10 DEF MainTypeOK, Signal, Up, Gone
  <2>3. LifeOf(p)'
    BY <1>1, <1>3, <1>10, NotInFlight DEF MainTypeOK, LifeOf, Purpose, Signal
  <2>4. phase'[p] \in {"serving", "draining", "waiting"} => Migrated(file)
    BY <1>3, <1>4, <1>10 DEF MainTypeOK, Signal
  <2> QED  BY <1>1, <1>2, <2>1, <2>2, <2>3, <2>4, LifeStep
<1>11. CASE Drain(p)
  <2>1. OthersKept(p)
    BY <1>1, <1>3, <1>11 DEF OthersKept, MainTypeOK, Drain, Enter
  <2>2. MainTypeOK'
    BY <1>3, <1>11 DEF MainTypeOK, Drain, Enter, Up, Gone
  <2>3. LifeOf(p)'
    BY <1>1, <1>3, <1>11, NotInFlight DEF MainTypeOK, LifeOf, Purpose, Drain, Enter, Up
  <2>4. phase'[p] \in {"serving", "draining", "waiting"} => Migrated(file)
    BY <1>3, <1>4, <1>11 DEF MainTypeOK, Drain, Enter
  <2> QED  BY <1>1, <1>2, <2>1, <2>2, <2>3, <2>4, LifeStep
<1>12. CASE Drained(p)
  <2>1. OthersKept(p)
    BY <1>1, <1>3, <1>12 DEF OthersKept, MainTypeOK, Drained, Enter
  <2>2. MainTypeOK'
    BY <1>3, <1>12 DEF MainTypeOK, Drained, Enter, Up, Gone
  <2>3. LifeOf(p)'
    BY <1>1, <1>3, <1>12, NotInFlight DEF MainTypeOK, LifeOf, Purpose, Drained, Enter, Up, Handling
  <2>4. phase'[p] \in {"serving", "draining", "waiting"} => Migrated(file)
    BY <1>3, <1>4, <1>12 DEF MainTypeOK, Drained, Enter
  <2> QED  BY <1>1, <1>2, <2>1, <2>2, <2>3, <2>4, LifeStep
<1>13. CASE GraceOver(p)
  <2>1. OthersKept(p)
    BY <1>1, <1>3, <1>13 DEF OthersKept, MainTypeOK, GraceOver, Enter
  <2>2. MainTypeOK'
    BY <1>3, <1>13 DEF MainTypeOK, GraceOver, Enter, Up, Gone
  <2>3. LifeOf(p)'
    BY <1>1, <1>3, <1>13, NotInFlight
    DEF MainTypeOK, LifeOf, Purpose, GraceOver, Enter, Up, Handling
  <2>4. phase'[p] \in {"serving", "draining", "waiting"} => Migrated(file)
    BY <1>3, <1>4, <1>13 DEF MainTypeOK, GraceOver, Enter
  <2> QED  BY <1>1, <1>2, <2>1, <2>2, <2>3, <2>4, LifeStep
<1> QED  BY <1>5, <1>6, <1>7, <1>8, <1>9, <1>10, <1>11, <1>12, <1>13

\* run returns with or without an error and the deferred DB.Close runs.
LEMMA Closing ==
    ASSUME TxInv, MainInv, NEW p \in Process,
           MigrateError(p) \/ ListenerError(p) \/ Close(p)
    PROVE  TxInv' /\ MainInv'
<1>1. /\ UNCHANGED <<pool, wlock, work, at, file, unsynced, signalled, forced, wpc>>
      /\ closed' = [closed EXCEPT ![p] = TRUE]
  BY DEF MigrateError, ListenerError, Close, CloseDB, fileVars
<1>2. TxInv'
  BY <1>1 DEF TxInv, TxTypeOK, LockInv, FileInv, Migrated
<1>3. LifeOf(p) /\ MainTypeOK /\ closed \in [Process -> BOOLEAN]
  BY DEF TxInv, TxTypeOK, MainInv
<1>4. PICK ph \in {"failing", "closing"} : Enter(p, ph)
  BY DEF MigrateError, ListenerError, Close
<1>5. OthersKept(p)
  BY <1>1, <1>3, <1>4 DEF OthersKept, MainTypeOK, Enter
<1>6. MainTypeOK' /\ phase'[p] = ph /\ closed'[p]
  BY <1>1, <1>3, <1>4 DEF MainTypeOK, Enter, Up
<1>7. LifeOf(p)'
  <2>1. CASE MigrateError(p) \/ ListenerError(p)
    <3>1. phase'[p] = "failing"
      BY <1>3, <2>1 DEF MigrateError, ListenerError, MainTypeOK, Enter
    <3> QED  BY <1>1, <1>3, <3>1 DEF LifeOf, Up
  <2>2. CASE Close(p)
    <3>1. phase'[p] = "closing" /\ phase[p] = "waiting" /\ wpc[p] = "off"
      BY <1>3, <2>2 DEF Close, MainTypeOK, Enter
    <3> QED  BY <1>1, <1>3, <3>1 DEF LifeOf, Up, Purpose, Returned
  <2> QED  BY <2>1, <2>2
<1> QED  BY <1>1, <1>2, <1>5, <1>6, <1>7, LifeStep

\* DB.Tx is called: by main, a handler or the worker.
LEMMA Calling ==
    ASSUME TxInv, MainInv, NEW p \in Process,
           Migrate(p) \/ Accept(p) \/ Tick(p) \/ Release(p)
    PROVE  TxInv' /\ MainInv'
<1>1. PICK u \in Purpose : Call(<<p, u>>)
  BY DEF Migrate, Accept, Tick, Release, Purpose
<1>2. <<p, u>> \in Id /\ (\A q \in Process, v \in Purpose : <<q, v>> \in Id)
  BY IdFacts
<1>3. TxInv'
  BY <1>1, <1>2, QueueInv
<1>4. /\ at'[<<p, u>>] = "queued"
      /\ \A y \in Id : y # <<p, u>> => at'[y] = at[y]
      /\ UNCHANGED <<closed, file>>
  BY <1>1, <1>2, GoToFacts DEF TxInv, Call, connVars, fileVars
<1>5. LifeOf(p) /\ MainTypeOK
  BY DEF MainInv
<1>6. UNCHANGED <<phase, signalled, forced>>
  BY DEF Migrate, Accept, Tick, Release, lifeVars
<1>7. OthersKept(p)
  <2>1. \A q \in Process, v \in Purpose : q # p => at'[<<q, v>>] = at[<<q, v>>]
    BY <1>2, <1>4
  <2>2. \A q \in Process : q # p => wpc'[q] = wpc[q]
    BY <1>5 DEF MainTypeOK, Migrate, Accept, Tick, Release, WorkerAt, lifeVars
  <2> QED  BY <1>4, <1>6, <2>1, <2>2 DEF OthersKept
<1>8. MainTypeOK'
  BY <1>5, <1>6 DEF MainTypeOK, Migrate, Accept, Tick, Release, WorkerAt, lifeVars
<1>9. phase'[p] \in {"serving", "draining", "waiting"} => Migrated(file)
  BY <1>6 DEF MainInv, ServesMigrated
<1>10. LifeOf(p)'
  <2>1. \A v \in Purpose : v # u => at'[<<p, v>>] = at[<<p, v>>]
    BY <1>2, <1>4
  <2>2. CASE Migrate(p)
    <3>1. u = "migrate"
      BY <1>1, <1>4, <2>2, <1>2, TwoCalls DEF TxInv, Migrate, Purpose
    <3> QED  BY <1>4, <1>5, <1>6, <2>1, <2>2, <3>1, NotInFlight
             DEF LifeOf, Purpose, Migrate, lifeVars, Up
  <2>3. CASE Accept(p)
    <3>1. u = "put"
      BY <1>1, <1>4, <2>3, <1>2, TwoCalls DEF TxInv, Accept, Purpose
    <3> QED  BY <1>4, <1>5, <1>6, <2>1, <2>3, <3>1, NotInFlight
             DEF LifeOf, Purpose, Accept, lifeVars, Up
  <2>4. CASE Tick(p)
    <3>1. u = "work" /\ wpc'[p] = "tick"
      BY <1>1, <1>4, <1>5, <2>4, <1>2, TwoCalls DEF TxInv, Tick, Purpose, WorkerAt, MainTypeOK
    <3> QED  BY <1>4, <1>5, <1>6, <2>1, <2>4, <3>1, NotInFlight
             DEF LifeOf, Purpose, Tick, Up
  <2>5. CASE Release(p)
    <3>1. u = "release" /\ wpc'[p] = "release"
      BY <1>1, <1>4, <1>5, <2>5, <1>2, TwoCalls DEF TxInv, Release, Purpose, WorkerAt, MainTypeOK
    <3> QED  BY <1>4, <1>5, <1>6, <2>1, <2>5, <3>1, NotInFlight
             DEF LifeOf, Purpose, Release, Up
  <2> QED  BY <2>2, <2>3, <2>4, <2>5
<1> QED  BY <1>3, <1>4, <1>7, <1>8, <1>9, <1>10, LifeStep

\* A process ends, by itself or not, and takes its transaction with it.
LEMMA Ending ==
    ASSUME TxInv, MainInv, NEW p \in Process, Exit(p) \/ Crash(p)
    PROVE  TxInv' /\ MainInv'
<1>1. /\ Die({p}, {}) /\ Forget({p}) /\ UNCHANGED <<file, unsynced>>
      /\ \E ph \in Gone : Enter(p, ph)
  BY DEF Exit, Crash, fileVars, Gone
<1>2. TxInv'
  <2>1. file' = [t \in Table |-> file[t] \ {}] /\ unsynced' \in Seq(Id)
    BY <1>1 DEF TxInv, TxTypeOK
  <2> QED  BY <1>1, <2>1, DieInv
<1>3. MainTypeOK
  BY DEF MainInv
<1>4. \A x \in Id : at'[x] = IF at[x] = "ok" THEN "ok"
                             ELSE IF x[1] = p THEN "cut" ELSE at[x]
  BY <1>1 DEF Die
<1>5. OthersKept(p)
  <2>1. \A q \in Process, u \in Purpose : q # p => at'[<<q, u>>] = at[<<q, u>>]
    BY <1>4, IdFacts
  <2>2. \A q \in Process : q # p => closed'[q] = closed[q] /\ forced'[q] = forced[q]
    BY <1>1, <1>3 DEF Die, Forget, MainTypeOK, TxInv, TxTypeOK
  <2>3. \A q \in Process : q # p => phase'[q] = phase[q] /\ wpc'[q] = wpc[q]
    BY <1>1, <1>3 DEF Forget, MainTypeOK, Enter
  <2> QED  BY <2>1, <2>2, <2>3 DEF OthersKept
<1>6. MainTypeOK'
  BY <1>1, <1>3 DEF MainTypeOK, Forget, Enter
<1>7. phase'[p] \in Gone /\ wpc'[p] = "off" /\ ~closed'[p]
  BY <1>1, <1>3 DEF MainTypeOK, Forget, Enter, Die
<1>8. \A u \in Purpose : at'[<<p, u>>] \in {"ok", "cut"}
  BY <1>4, IdFacts
<1>9. LifeOf(p)'
  BY <1>7, <1>8, NotInFlight DEF LifeOf, Purpose, Gone, Returned
<1>10. phase'[p] \in {"serving", "draining", "waiting"} => Migrated(file)
  BY <1>7 DEF Gone
<1> QED  BY <1>1, <1>2, <1>5, <1>6, <1>9, <1>10, LifeStep

\* The power fails under everybody at once.
LEMMA PowerFails ==
    ASSUME TxInv, MainInv, PowerLoss
    PROVE  TxInv' /\ MainInv'
<1> DEFINE up == {p \in Process : phase[p] \in Up}
<1>1. PICK k \in 0 .. Len(unsynced) :
          LET gone == ToSet(SubSeq(unsynced, k + 1, Len(unsynced))) IN
          /\ file' = [t \in Table |-> file[t] \ gone]
          /\ unsynced' = << >>
          /\ Die(up, gone)
  BY DEF PowerLoss, LoseTail
<1> DEFINE gone == ToSet(SubSeq(unsynced, k + 1, Len(unsynced)))
<1>2. /\ Forget(up)
      /\ phase' = [p \in Process |-> IF p \in up THEN "dead" ELSE phase[p]]
  BY DEF PowerLoss
<1>3. file' = [t \in Table |-> file[t] \ gone] /\ unsynced' = << >> /\ Die(up, gone)
  BY <1>1
<1> HIDE DEF gone
<1>4. \A x \in Id : at[x] \in InFlight => x[1] \in up
  <2>1. \A p \in Process, u \in Purpose : at[<<p, u>>] \in InFlight => phase[p] \in Up
    BY DEF MainInv, LifeOf
  <2> QED  BY <2>1, IdFacts
<1>5. TxInv'
  BY <1>3, <1>4, DieInv DEF InFlight, InTx
<1>6. \A x \in Id : at'[x] = IF at[x] = "ok" THEN IF x \in gone THEN "undone" ELSE "ok"
                             ELSE IF x[1] \in up THEN "cut" ELSE at[x]
  BY <1>3 DEF Die
<1>7. \A x \in Id : at'[x] \notin InFlight
  BY <1>4, <1>6, NotInFlight DEF Returned
<1>8. ASSUME NEW p \in Process
      PROVE  /\ phase'[p] \in Gone \cup {"off"} /\ wpc'[p] \in {"off", wpc[p]}
             /\ phase'[p] = "off" => phase[p] = "off" /\ wpc'[p] = wpc[p]
             /\ phase'[p] = phase[p] \/ phase'[p] = "dead"
  <2>1. phase'[p] = (IF p \in up THEN "dead" ELSE phase[p])
    BY <1>2
  <2>2. wpc'[p] = (IF p \in up THEN "off" ELSE wpc[p])
    BY <1>2 DEF Forget
  <2>3. phase[p] \in Up \cup Gone \cup {"off"}
    BY DEF MainInv, MainTypeOK
  <2> QED  BY <2>1, <2>2, <2>3 DEF Gone
<1>9. ASSUME NEW p \in Process
      PROVE  LifeOf(p)'
  <2>1. \A u \in Purpose : <<p, u>> \in Id
    BY IdFacts
  <2>2. LifeOf(p)
    BY DEF MainInv
  <2>3. ~closed'[p]
    BY <1>3, <2>2 DEF Die, LifeOf, Up
  <2>4. \A u \in Purpose : at'[<<p, u>>] # "closed"
    <3>1. \A u \in Purpose : at[<<p, u>>] = "closed" => p \in up
      BY <2>2 DEF LifeOf, Up
    <3> QED  BY <1>6, <2>1, <3>1, IdFacts
  <2> QED  BY <1>7, <1>8, <2>1, <2>2, <2>3, <2>4 DEF LifeOf, Purpose, Gone
<1>10. MainTypeOK'
  BY <1>2 DEF MainInv, MainTypeOK, Forget, Gone
<1>11. ServesMigrated'
  <2>1. \A p \in Process : phase'[p] \notin {"serving", "draining", "waiting"}
    BY <1>8 DEF Gone
  <2>2. file'["contents"] \subseteq file["contents"]
    BY <1>3 DEF Table
  <2> QED  BY <2>1, <2>2 DEF MainInv, ServesMigrated
<1> QED  BY <1>5, <1>9, <1>10, <1>11 DEF MainInv

-----------------------------------------------------------------------------
(* Every step keeps the invariant. *)

\* A call in flight that goes on or returns disturbs nothing of the life of
\* its process, provided that it finds the pool closed only if it is.
LEMMA CallMoves ==
    ASSUME TxInv, MainInv, NEW x \in Id, NEW w \in InFlight \cup Returned,
           GoTo(x, w), at[x] \in InFlight, w = "closed" => closed[x[1]],
           UNCHANGED <<closed, lifeVars>>
    PROVE  (\A q \in Process : LifeOf(q)') /\ MainTypeOK'
<1>1. /\ at'[x] = w
      /\ \A y \in Id : y # x => at'[y] = at[y]
  BY GoToFacts DEF TxInv
<1>2. UNCHANGED <<closed, phase, signalled, forced, wpc>>
  BY DEF lifeVars
<1>3. PICK p \in Process, u \in Purpose : x = <<p, u>>
  BY IdFacts
<1>4. LifeOf(p) /\ x[1] = p
  BY <1>3 DEF MainInv
<1>5. \A v \in Purpose : v # u => at'[<<p, v>>] = at[<<p, v>>]
  BY <1>1, <1>3, IdFacts
<1>6. OthersKept(p)
  <2>1. \A q \in Process, v \in Purpose : q # p => at'[<<q, v>>] = at[<<q, v>>]
    BY <1>1, <1>3, IdFacts
  <2> QED  BY <1>2, <2>1 DEF OthersKept
<1>7. at'[<<p, u>>] = w /\ at[<<p, u>>] \in InFlight
  BY <1>1, <1>3
<1>8. LifeOf(p)'
  <2>1. phase[p] \in Up /\ (w = "closed" => phase[p] \in {"closing", "failing"})
    BY <1>4, <1>7 DEF LifeOf
  <2>2. CASE u \in {"work", "release"}
    <3>1. wpc[p] # "off" /\ phase[p] # "closing"
      BY <1>4, <1>7, <2>2 DEF LifeOf
    <3> QED  BY <1>2, <1>4, <1>5, <1>7, <2>1, <2>2, <3>1 DEF LifeOf, Purpose
  <2>3. CASE u \in {"migrate", "put"}
    BY <1>2, <1>4, <1>5, <1>7, <2>1, <2>3 DEF LifeOf, Purpose
  <2> QED  BY <2>2, <2>3 DEF Purpose
<1> QED  BY <1>2, <1>6, <1>8, LivesKept DEF MainInv, MainTypeOK

\* A commit never brings a second migration into the file: the migration fails
\* in its first statement if another process has been quicker.
LEMMA CommitServes ==
    ASSUME TxInv, MainInv, NEW x \in Id, Commit(x), UNCHANGED lifeVars
    PROVE  ServesMigrated'
<1>1. file'["contents"] = file["contents"] \cup {x} /\ UNCHANGED phase
  BY CommitFacts DEF Table, lifeVars
<1>2. Migrated(file) => Migrated(file)'
  BY <1>1 DEF Migrated
<1>3. ASSUME NEW p \in Process, NEW q \in Process,
             {<<p, "migrate">>, <<q, "migrate">>} \subseteq file'["contents"]
      PROVE  p = q
  <2>1. CASE x[2] = "migrate"
    <3>1. ~Migrated(file)
      BY <2>1, IdFacts DEF Commit, TxInv, FileInv
    <3>2. <<p, "migrate">> = x /\ <<q, "migrate">> = x
      BY <1>1, <1>3, <3>1 DEF Migrated
    <3> QED  BY <3>2, IdFacts DEF Purpose
  <2>2. CASE x[2] # "migrate"
    <3>1. <<p, "migrate">> # x /\ <<q, "migrate">> # x
      BY <2>2, IdFacts DEF Purpose
    <3> QED  BY <1>1, <1>3, <3>1 DEF MainInv, ServesMigrated
  <2> QED  BY <2>1, <2>2
<1> QED  BY <1>1, <1>2, <1>3 DEF MainInv, ServesMigrated

\* The steps of DB.Tx.
LEMMA TxStepInv ==
    ASSUME TxInv, MainInv, NEW x \in Id, TxStep(x), UNCHANGED lifeVars
    PROVE  TxInv' /\ MainInv'
<1>1. TxInv'
  BY AcquireInv, BeginInv, FirstStatementInv, CommitInv, AbortInv, BeginErrorInv,
     QueueInv DEF TxStep
<1>2. /\ at[x] \in InFlight /\ UNCHANGED closed
      /\ \E w \in InFlight \cup Returned : GoTo(x, w) /\ (w = "closed" => closed[x[1]])
  BY DEF TxStep, Acquire, Begin, FirstStatement, Commit, Abort, BeginError, PoolClosed,
         connVars, InFlight, InTx, Inside, Returned
<1>3. (\A q \in Process : LifeOf(q)') /\ MainTypeOK'
  BY <1>2, CallMoves
<1>4. ServesMigrated'
  <2>1. CASE Commit(x)
    BY <2>1, CommitServes
  <2>2. CASE ~Commit(x)
    <3>1. UNCHANGED <<file, phase>>
      BY <2>2 DEF TxStep, Acquire, Begin, FirstStatement, Abort, BeginError, PoolClosed,
                  fileVars, lifeVars
    <3> QED  BY <3>1 DEF MainInv, ServesMigrated, Migrated
  <2> QED  BY <2>1, <2>2
<1> QED  BY <1>1, <1>3, <1>4 DEF MainInv

\* A checkpoint and a stuttering step.
LEMMA NothingMoves ==
    ASSUME TxInv, MainInv, (Checkpoint /\ UNCHANGED lifeVars) \/ UNCHANGED serverVars
    PROVE  TxInv' /\ MainInv'
<1>1. /\ UNCHANGED <<pool, closed, wlock, work, at, file>>
      /\ UNCHANGED <<phase, signalled, forced, wpc>>
      /\ unsynced' \in Seq(Id)
  <2>1. unsynced \in Seq(Id) /\ << >> \in Seq(Id)
    BY DEF TxInv, TxTypeOK
  <2>2. CASE Checkpoint /\ UNCHANGED lifeVars
    BY <2>1, <2>2 DEF Checkpoint, connVars, lifeVars
  <2>3. CASE UNCHANGED serverVars
    BY <2>1, <2>3 DEF serverVars, txVars, connVars, fileVars, lifeVars
  <2> QED  BY <2>2, <2>3
<1>2. TxTypeOK'
  BY <1>1 DEF TxInv, TxTypeOK
<1>3. LockInv'
  BY <1>1 DEF TxInv, LockInv
<1>4. Migrated(file)' = Migrated(file)
  BY <1>1 DEF Migrated
<1>5. FileInv'
  BY <1>1, <1>4 DEF TxInv, FileInv
<1>6. MainInv'
  BY <1>1, <1>4 DEF MainInv, MainTypeOK, LifeOf, ServesMigrated
<1> QED  BY <1>2, <1>3, <1>5, <1>6 DEF TxInv

\* Nothing has happened yet.
LEMMA InitServerInv == Init => ServerInv
<1> SUFFICES ASSUME Init PROVE ServerInv
  OBVIOUS
<1>1. TxTypeOK /\ MainTypeOK
  BY DEF Init, TxInit, TxTypeOK, MainTypeOK, Empty
<1>2. LockInv
  BY IdFacts, TransactionsAssumption
  DEF Init, TxInit, LockInv, InTx, Inside
<1>3. FileInv
  <2>1. \A p \in Process : <<p, "migrate">> \in Id
    BY IdFacts DEF Purpose
  <2> QED  BY <2>1 DEF Init, TxInit, FileInv, Empty, Table
<1>4. \A p \in Process : LifeOf(p)
  <2>1. \A p \in Process, u \in Purpose : at[<<p, u>>] = "none"
    BY IdFacts DEF Init, TxInit
  <2> QED  BY <2>1, NotInFlight DEF Init, TxInit, LifeOf, Purpose
<1>5. ServesMigrated
  BY DEF Init, TxInit, ServesMigrated, Empty, Table
<1> QED  BY <1>1, <1>2, <1>3, <1>4, <1>5 DEF ServerInv, TxInv, MainInv

\* The invariant is inductive.
LEMMA NextServerInv == ServerInv /\ [Next]_serverVars => ServerInv'
<1> SUFFICES ASSUME TxInv, MainInv, [Next]_serverVars PROVE TxInv' /\ MainInv'
  BY DEF ServerInv
<1>1. CASE InTransaction
  BY <1>1, TxStepInv DEF InTransaction
<1>2. CASE (Checkpoint /\ UNCHANGED lifeVars) \/ UNCHANGED serverVars
  BY <1>2, NothingMoves
<1>3. CASE PowerLoss
  BY <1>3, PowerFails
<1>4. ASSUME NEW p \in Process,
             \/ Boot(p) \/ BootError(p) \/ Serve(p) \/ TickOver(p) \/ WorkerDone(p)
             \/ Signal(p) \/ Drain(p) \/ Drained(p) \/ GraceOver(p)
      PROVE  TxInv' /\ MainInv'
  BY <1>4, OutsideTx
<1>5. ASSUME NEW p \in Process, MigrateError(p) \/ ListenerError(p) \/ Close(p)
      PROVE  TxInv' /\ MainInv'
  BY <1>5, Closing
<1>6. ASSUME NEW p \in Process, Migrate(p) \/ Accept(p) \/ Tick(p) \/ Release(p)
      PROVE  TxInv' /\ MainInv'
  BY <1>6, Calling
<1>7. ASSUME NEW p \in Process, Exit(p) \/ Crash(p)
      PROVE  TxInv' /\ MainInv'
  BY <1>7, Ending
<1> QED  BY <1>1, <1>2, <1>3, <1>4, <1>5, <1>6, <1>7 DEF Next

-----------------------------------------------------------------------------
(* Theorems. *)

\* ServerInv holds in every reachable state.
THEOREM ServerInvariance == ServerSpec => []ServerInv
<1> QED  BY InitServerInv, NextServerInv, PTL DEF ServerSpec

\* Every variable of the processes and of DB.Tx keeps its type.
THEOREM ServerTypeCorrect == ServerSpec => []ServerTypeOK
<1>1. ServerInv => ServerTypeOK
  BY DEF ServerInv, TxInv, MainInv, MainTypeOK, ServerTypeOK
<1> QED  BY <1>1, ServerInvariance, PTL

\* A transaction is in the file whole or not at all, whatever failed, died or
\* lost power in the middle of it.
THEOREM TransactionsWhole == ServerSpec => []NothingTorn
<1>1. ServerInv => NothingTorn
  BY DEF ServerInv, TxInv, FileInv, NothingTorn, Table
<1> QED  BY <1>1, ServerInvariance, PTL

\* DB.Tx returns nil exactly for what is in the file, also after other
\* processes have committed or died.
THEOREM TxTellsTruth == ServerSpec => []AnswersTrue
<1>1. ServerInv => AnswersTrue
  BY DEF ServerInv, TxInv, FileInv, AnswersTrue
<1> QED  BY <1>1, ServerInvariance, PTL

\* The lock of the file and the connection of a process are held exactly by
\* whoever is inside a transaction.
THEOREM LockDiscipline == ServerSpec => []LockedExactlyInside
<1>1. ServerInv => LockedExactlyInside
  <2> SUFFICES ASSUME ServerInv PROVE LockedExactlyInside
    OBVIOUS
  <2>1. \A x \in Id : at[x] \in Inside => wlock = x[1] /\ pool[x[1]] = x
    BY DEF ServerInv, TxInv, LockInv, InTx
  <2>2. \A p \in Process : pool[p] # NULL => at[pool[p]] \in InTx
    BY DEF ServerInv, TxInv, LockInv
  <2>3. ASSUME wlock # NULL PROVE \E x \in Id : x[1] = wlock /\ at[x] \in Inside
    BY <2>3 DEF ServerInv, TxInv, TxTypeOK, LockInv
  <2> QED  BY <2>1, <2>2, <2>3 DEF LockedExactlyInside
<1> QED  BY <1>1, ServerInvariance, PTL

\* Nobody serves requests or runs a worker on a file without tables, and no
\* race of booting processes applies the migration twice.
THEOREM MigratedBeforeServing == ServerSpec => []ServesMigrated
<1>1. ServerInv => ServesMigrated
  BY DEF ServerInv, MainInv
<1> QED  BY <1>1, ServerInvariance, PTL

\* main closes the database only after the worker has released its claims and
\* the requests are over, or the grace period is.
THEOREM CloseComesLast == ServerSpec => []NobodyMeetsClosedPool
<1>1. ServerInv => NobodyMeetsClosedPool
  BY DEF ServerInv, MainInv, LifeOf, NobodyMeetsClosedPool
<1> QED  BY <1>1, ServerInvariance, PTL

-----------------------------------------------------------------------------
(* The file is a ledger (module Ledger). *)

\* The commits that are not yet on the medium are in the file, each once.
TailOfFile ==
    /\ ToSet(unsynced) \subseteq file["contents"]
    /\ \A i, j \in DOMAIN unsynced : unsynced[i] = unsynced[j] => i = j

\* What a piece of a sequence holds.
LEMMA PieceHolds ==
    ASSUME NEW S, NEW s \in Seq(S), NEW a \in Nat \ {0}, NEW b \in 0 .. Len(s)
    PROVE  ToSet(SubSeq(s, a, b)) = {s[i] : i \in a .. b}
<1> DEFINE t == SubSeq(s, a, b)
<1>1. /\ Len(s) \in Nat /\ t \in Seq(S)
      /\ Len(t) = IF a <= b THEN b - a + 1 ELSE 0
      /\ DOMAIN t = 1 .. Len(t)
      /\ \A i \in 1 .. Len(t) : t[i] = s[a + i - 1]
  OBVIOUS
<1> HIDE DEF t
<1>2. ASSUME NEW i \in 1 .. Len(t) PROVE \E j \in a .. b : t[i] = s[j]
  <2>1. CASE a <= b
    <3>1. a + i - 1 \in a .. b
      BY <1>1, <2>1
    <3> QED  BY <1>1, <3>1
  <2>2. CASE ~(a <= b)
    BY <1>1, <2>2
  <2> QED  BY <2>1, <2>2
<1>3. ASSUME NEW j \in a .. b PROVE \E i \in 1 .. Len(t) : t[i] = s[j]
  <2>1. j - a + 1 \in 1 .. Len(t) /\ a + (j - a + 1) - 1 = j
    BY <1>1
  <2> QED  BY <1>1, <2>1
<1>4. ToSet(t) = {t[i] : i \in 1 .. Len(t)}
  BY <1>1 DEF ToSet
<1>5. /\ \A x \in ToSet(t) : \E i \in 1 .. Len(t) : x = t[i]
      /\ \A i \in 1 .. Len(t) : t[i] \in ToSet(t)
  BY <1>4
<1>6. \A x \in ToSet(t) : x \in {s[i] : i \in a .. b}
  BY <1>2, <1>5
<1>7. \A x \in {s[i] : i \in a .. b} : x \in ToSet(t)
  BY <1>3, <1>5
<1>8. ToSet(t) = {s[i] : i \in a .. b}
  BY <1>6, <1>7
<1> QED  BY <1>8 DEF t

\* The two pieces a cut leaves, and what each holds.
LEMMA BothPieces ==
    ASSUME NEW S, NEW s \in Seq(S), NEW k \in 0 .. Len(s)
    PROVE  /\ ToSet(SubSeq(s, 1, k)) = {s[i] : i \in 1 .. k}
           /\ ToSet(SubSeq(s, k + 1, Len(s))) = {s[i] : i \in (k + 1) .. Len(s)}
<1>1. Len(s) \in Nat
  OBVIOUS
<1>2. \A a \in Nat \ {0}, b \in 0 .. Len(s) :
         ToSet(SubSeq(s, a, b)) = {s[i] : i \in a .. b}
  BY PieceHolds
<1>3. 1 \in Nat \ {0} /\ k + 1 \in Nat \ {0} /\ Len(s) \in 0 .. Len(s)
  BY <1>1
<1>4. ToSet(SubSeq(s, 1, k)) = {s[i] : i \in 1 .. k}
  BY <1>2, <1>3, Zenon
<1>5. ToSet(SubSeq(s, k + 1, Len(s))) = {s[i] : i \in (k + 1) .. Len(s)}
  BY <1>2, <1>3, Zenon
<1> QED  BY <1>4, <1>5

\* Both modules take ToSet from the same library.
LEMMA SameToSet == \A s : L!ToSet(s) = ToSet(s)
<1> QED  BY DEF L!ToSet, ToSet

\* A file without the end of its tail is the file without the tail, and the
\* rest of the tail.
LEMMA TailCut ==
    ASSUME NEW S, NEW s \in Seq(S), NEW k \in 0 .. Len(s), NEW F,
           \A i, j \in DOMAIN s : s[i] = s[j] => i = j,
           ToSet(s) \subseteq F
    PROVE  F \ ToSet(SubSeq(s, k + 1, Len(s))) = (F \ ToSet(s)) \cup ToSet(SubSeq(s, 1, k))
<1>1. Len(s) \in Nat /\ DOMAIN s = 1 .. Len(s) /\ ToSet(s) = {s[i] : i \in 1 .. Len(s)}
  BY DEF ToSet
<1>2. ToSet(SubSeq(s, k + 1, Len(s))) = {s[i] : i \in (k + 1) .. Len(s)}
  BY BothPieces
<1>3. ToSet(SubSeq(s, 1, k)) = {s[i] : i \in 1 .. k}
  BY BothPieces
<1>4. \A i \in 1 .. k, j \in (k + 1) .. Len(s) : s[i] # s[j]
  <2>1. ASSUME NEW i \in 1 .. k, NEW j \in (k + 1) .. Len(s) PROVE s[i] # s[j]
    <3>1. i \in DOMAIN s /\ j \in DOMAIN s /\ i # j
      BY <1>1
    <3> QED  BY <3>1
  <2> QED  BY <2>1
<1>5. \A i \in 1 .. Len(s) : i \in 1 .. k \/ i \in (k + 1) .. Len(s)
  BY <1>1
<1>6. /\ 1 .. k \subseteq 1 .. Len(s)
      /\ (k + 1) .. Len(s) \subseteq 1 .. Len(s)
  BY <1>1
<1> QED  BY <1>1, <1>2, <1>3, <1>4, <1>5, <1>6

\* A commit is a new entry at the end.
LEMMA CommitRecords ==
    ASSUME TxInv, TailOfFile, NEW x \in Id, Commit(x)
    PROVE  TailOfFile' /\ L!Record(x)
<1>1. /\ unsynced \in Seq(Id) /\ Len(unsynced) \in Nat
      /\ DOMAIN unsynced = 1 .. Len(unsynced)
  BY DEF TxInv, TxTypeOK
<1>2. /\ unsynced' = Append(unsynced, x)
      /\ DOMAIN unsynced' = 1 .. (Len(unsynced) + 1)
      /\ \A i \in 1 .. Len(unsynced) : unsynced'[i] = unsynced[i]
      /\ unsynced'[Len(unsynced) + 1] = x
  BY <1>1 DEF Commit
<1>3. file'["contents"] = file["contents"] \cup {x}
  BY CommitFacts DEF Table
<1>4. x \notin file["contents"]
  BY DEF TxInv, FileInv, Commit
<1>5. ToSet(unsynced)' = ToSet(unsynced) \cup {x}
  BY <1>1, <1>2 DEF ToSet
<1>6. x \notin ToSet(unsynced)
  BY <1>4 DEF TailOfFile
<1>7. \A i \in DOMAIN unsynced : unsynced[i] # x
  BY <1>6 DEF ToSet
<1>8. ASSUME NEW i \in DOMAIN unsynced', NEW j \in DOMAIN unsynced', unsynced'[i] = unsynced'[j]
      PROVE  i = j
  <2>1. /\ i \in 1 .. Len(unsynced) \/ i = Len(unsynced) + 1
        /\ j \in 1 .. Len(unsynced) \/ j = Len(unsynced) + 1
    BY <1>1, <1>2, <1>8
  <2> QED  BY <1>1, <1>2, <1>7, <1>8, <2>1 DEF TailOfFile
<1>9. TailOfFile'
  BY <1>3, <1>5, <1>8 DEF TailOfFile
<1>10. file'["contents"] \ ToSet(unsynced)' = file["contents"] \ ToSet(unsynced)
  BY <1>3, <1>4, <1>5
<1>11. L!Record(x)
  BY <1>2, <1>4, <1>6, <1>10, SameToSet DEF L!Record
<1> QED  BY <1>9, <1>11

\* A checkpoint syncs the whole tail.
LEMMA CheckpointSyncs ==
    ASSUME TxInv, TailOfFile, Checkpoint
    PROVE  TailOfFile' /\ L!Sync
<1>1. unsynced \in Seq(Id) /\ Len(unsynced) \in Nat
  BY DEF TxInv, TxTypeOK
<1>2. unsynced' = << >> /\ file' = file
  BY DEF Checkpoint
<1>3. ToSet(<< >>) = {} /\ DOMAIN << >> = {}
  BY DEF ToSet
<1>4. ToSet(SubSeq(unsynced, 1, Len(unsynced))) = ToSet(unsynced)
  <2>1. Len(unsynced) \in 0 .. Len(unsynced) /\ DOMAIN unsynced = 1 .. Len(unsynced)
    BY <1>1
  <2>2. ToSet(SubSeq(unsynced, 1, Len(unsynced))) = {unsynced[i] : i \in 1 .. Len(unsynced)}
    BY <1>1, <2>1, PieceHolds
  <2> QED  BY <2>1, <2>2 DEF ToSet
<1>5. TailOfFile'
  BY <1>2, <1>3 DEF TailOfFile
<1>6. file'["contents"] \ ToSet(unsynced)'
         = (file["contents"] \ ToSet(unsynced)) \cup ToSet(unsynced)
  BY <1>2, <1>3 DEF TailOfFile
<1>7. L!Sync
  BY <1>2, <1>4, <1>6, SameToSet DEF L!Sync, L!Cut
<1> QED  BY <1>5, <1>7

\* A power failure cuts the tail.
LEMMA PowerLossCuts ==
    ASSUME TxInv, TailOfFile, PowerLoss
    PROVE  TailOfFile' /\ L!PowerFailure
<1>1. PICK k \in 0 .. Len(unsynced) :
         /\ file' = [t \in Table |->
                       file[t] \ ToSet(SubSeq(unsynced, k + 1, Len(unsynced)))]
         /\ unsynced' = << >>
  BY DEF PowerLoss, LoseTail
<1>2. ToSet(<< >>) = {} /\ DOMAIN << >> = {}
  BY DEF ToSet
<1>3. file'["contents"]
         = file["contents"] \ ToSet(SubSeq(unsynced, k + 1, Len(unsynced)))
  BY <1>1 DEF Table
<1>4. file'["contents"]
         = (file["contents"] \ ToSet(unsynced)) \cup ToSet(SubSeq(unsynced, 1, k))
  BY <1>3, TailCut DEF TailOfFile, TxInv, TxTypeOK
<1>5. TailOfFile'
  BY <1>1, <1>2 DEF TailOfFile
<1>6. file'["contents"] \ ToSet(unsynced)' = file'["contents"]
  BY <1>1, <1>2
<1>7. L!PowerFailure
  BY <1>1, <1>4, <1>6, SameToSet DEF L!PowerFailure, L!Cut
<1> QED  BY <1>5, <1>7

\* Everything else leaves the ledger alone.
LEMMA LedgerStep == TxInv /\ TailOfFile /\ [Next]_serverVars
                       => TailOfFile' /\ [L!LedgerNext]_(L!ledgerVars)
<1> SUFFICES ASSUME TxInv, TailOfFile, [Next]_serverVars
             PROVE  TailOfFile' /\ [L!LedgerNext]_(L!ledgerVars)
  OBVIOUS
<1>1. ASSUME UNCHANGED fileVars
      PROVE  TailOfFile' /\ UNCHANGED L!ledgerVars
  <2>1. file' = file /\ unsynced' = unsynced
    BY <1>1 DEF fileVars
  <2> QED  BY <2>1 DEF TailOfFile, L!ledgerVars
<1>2. ASSUME NEW x \in Id, Commit(x)
      PROVE  TailOfFile' /\ L!LedgerNext
  BY <1>2, CommitRecords DEF L!LedgerNext
<1>3. ASSUME NEW x \in Id, TxStep(x), ~Commit(x)
      PROVE  UNCHANGED fileVars
  BY <1>3 DEF TxStep, Acquire, Begin, FirstStatement, Abort, BeginError, PoolClosed, fileVars
<1>4. CASE Checkpoint
  BY <1>4, CheckpointSyncs DEF L!LedgerNext
<1>5. CASE PowerLoss
  BY <1>5, PowerLossCuts DEF L!LedgerNext
<1>6. ASSUME NEW p \in Process,
             \/ Boot(p) \/ BootError(p) \/ Serve(p) \/ TickOver(p) \/ WorkerDone(p)
             \/ Signal(p) \/ Drain(p) \/ Drained(p) \/ GraceOver(p)
      PROVE  UNCHANGED fileVars
  BY <1>6 DEF Boot, BootError, Serve, TickOver, WorkerDone, Signal, Drain, Drained,
              GraceOver, txVars
<1>7. ASSUME NEW p \in Process,
             \/ MigrateError(p) \/ ListenerError(p) \/ Close(p)
             \/ Migrate(p) \/ Accept(p) \/ Tick(p) \/ Release(p)
             \/ Exit(p) \/ Crash(p)
      PROVE  UNCHANGED fileVars
  BY <1>7 DEF MigrateError, ListenerError, Close, Migrate, Accept, Tick, Release, Exit,
              Crash, Call
<1>8. CASE UNCHANGED serverVars
  BY <1>8, <1>1 DEF serverVars, txVars
<1> QED  BY <1>1, <1>2, <1>3, <1>4, <1>5, <1>6, <1>7, <1>8 DEF Next, InTransaction

\* However calls of DB.Tx overlap, fail, are repeated and die, the file is a
\* ledger of whole transactions in some order, none of them twice, and a power
\* failure cuts it no further back than the last checkpoint.  This is why
\* module Store may take a transaction for one step.
THEOREM FileIsLedger == ServerSpec => ImplementsLedger
<1>1. Init => TailOfFile /\ L!LedgerInit
  BY DEF Init, TxInit, Empty, Table, TailOfFile, ToSet, L!LedgerInit
<1>2. ServerInv => TxInv
  BY DEF ServerInv
<1> QED
  BY <1>1, <1>2, ServerInvariance, LedgerStep, PTL
  DEF ServerSpec, ImplementsLedger, L!LedgerSpec

=============================================================================
