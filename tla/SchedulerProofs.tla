-------------------------- MODULE SchedulerProofs --------------------------
(***************************************************************************)
(* Proofs about module Scheduler, for any number of workers, documents and *)
(* schedules, any lease and any batch size.                                *)
(*                                                                         *)
(* The main theorem is SchedulerImplementsStore: the workers and handlers  *)
(* use the database only through steps of Store, so that everything proved *)
(* of StoreSpec holds of the running system.  It needs an invariant, since *)
(* a worker acts on jobs and clock readings it took several steps earlier. *)
(***************************************************************************)
EXTENDS Scheduler, RefinementProofs

\* A job in a worker's memory, or claimed in the table, was due when it was
\* taken, and clock readings lie in the past.
DueWhenHeld ==
    /\ \A s \in DOMAIN publish_schedules :
          publish_schedules[s].status = "claimed" =>
              publish_schedules[s].run_at <= now
    /\ \A w \in Worker :
          /\ \A j \in jobs[w] : publish_schedules[j.ScheduleID].run_at <= now
          /\ pc[w] = "claiming" => tickNow[w] \in 0 .. now
          /\ pc[w] \in {"executing", "failing"} =>
                /\ job[w] \in jobs[w]
                /\ execNow[w] \in 0 .. now
                /\ publish_schedules[job[w].ScheduleID].run_at <= execNow[w]

SchedulerInv ==
    /\ Inv
    /\ SchedulerTypeOK
    /\ MemoryMatchesRow
    /\ DueWhenHeld
    /\ NeverEarly
    /\ CleanShutdown

-----------------------------------------------------------------------------
(* Every step is a step of the store. *)

\* Clock readings and the lease deadlines computed from them are instants the
\* tables can hold.
LEMMA Instants ==
    /\ \A t \in 0 .. MaxNow : t \in Time /\ t + LeaseTTL \in Time
  BY SchedulerAssumption

\* What an editor's request does is a transaction of the store.
LEMMA RequestStore ==
    ASSUME SchedulerInv, Request
    PROVE  StoreNext
<1>1. now \in 0 .. MaxNow /\ MaxNow \in Nat
  BY SchedulerAssumption DEF SchedulerInv, SchedulerTypeOK
<1>2. CASE \E t \in 0 .. now : EditContent(t) \/ PublishByHand(t) \/ Schedule(t)
  <2>1. PICK t \in 0 .. now : EditContent(t) \/ PublishByHand(t) \/ Schedule(t)
    BY <1>2
  <2>2. t \in Time /\ t \in Nat
    BY <1>1, Instants
  <2>3. CASE EditContent(t)
    BY <2>2, <2>3 DEF EditContent, StoreNext
  <2>4. CASE PublishByHand(t)
    BY <2>2, <2>4 DEF PublishByHand, StoreNext
  <2>5. CASE Schedule(t)
    <3>1. \A r \in (t + 1) .. MaxNow : r \in Time
      BY <1>1, <2>2, Instants
    <3> QED
      BY <2>5, <3>1 DEF Schedule, StoreNext
  <2> QED
    BY <2>1, <2>3, <2>4, <2>5
<1>3. CASE \E s \in ScheduleId : CancelSchedule(s)
  BY <1>3 DEF StoreNext
<1> QED
  BY <1>2, <1>3 DEF Request

\* A claim, a completion, a failure report and a release are transactions of
\* the store: their times are instants, and the job in memory is what the row
\* says.
LEMMA WorkerStore ==
    ASSUME SchedulerInv, NEW w \in Worker,
           Claim(w) \/ Complete(w) \/ RecordFailure(w) \/ Shutdown(w)
    PROVE  StoreNext \/ UNCHANGED storeVars
<1>1. CASE Claim(w)
  <2>1. pc[w] = "claiming"
    BY <1>1 DEF Claim
  <2>2. PICK B \in SUBSET DOMAIN publish_schedules, read \in tickNow[w] .. now :
            ClaimDueSchedules(w, tickNow[w], read + LeaseTTL, B)
    BY <1>1 DEF Claim
  <2>3. tickNow[w] \in 0 .. now /\ now \in 0 .. MaxNow /\ MaxNow \in Nat
    BY <2>1, SchedulerAssumption DEF SchedulerInv, DueWhenHeld, SchedulerTypeOK
  <2>4. tickNow[w] \in Time /\ read + LeaseTTL \in Time
    BY <2>3, Instants
  <2>5. B \in SUBSET ScheduleId
    BY DEF SchedulerInv, SchedulerTypeOK, TypeOK
  <2> QED
    BY <2>2, <2>4, <2>5 DEF StoreNext
<1>2. CASE Complete(w)
  <2>1. /\ pc[w] = "executing"
        /\ CompleteScheduledPublish(job[w], w, execNow[w])
    BY <1>2 DEF Complete
  <2>2. /\ job[w] \in jobs[w] /\ execNow[w] \in 0 .. now
        /\ now \in 0 .. MaxNow /\ MaxNow \in Nat
    BY <2>1, SchedulerAssumption DEF SchedulerInv, DueWhenHeld, SchedulerTypeOK
  <2>3. /\ job[w].ScheduleID \in DOMAIN publish_schedules
        /\ job[w] = JobOf(job[w].ScheduleID)
    BY <2>2 DEF SchedulerInv, MemoryMatchesRow
  <2>4. execNow[w] \in Time
    BY <2>2, Instants
  <2>5. CompleteScheduledPublish(JobOf(job[w].ScheduleID), w, execNow[w])
    BY <2>1, <2>3
  <2> QED
    BY <2>3, <2>4, <2>5 DEF StoreNext
<1>3. CASE RecordFailure(w)
  <2>1. pc[w] = "failing"
    BY <1>3 DEF RecordFailure
  <2>2. job[w] \in jobs[w]
    BY <2>1 DEF SchedulerInv, DueWhenHeld
  <2>3. job[w].ScheduleID \in ScheduleId
    BY <2>2 DEF SchedulerInv, MemoryMatchesRow, SchedulerTypeOK, TypeOK
  <2> QED
    BY <1>3, <2>3 DEF RecordFailure, StoreNext
<1>4. CASE Shutdown(w)
  BY <1>4 DEF Shutdown, StoreNext
<1> QED
  BY <1>1, <1>2, <1>3, <1>4

\* Every step of the system is a transaction of the store or leaves the tables
\* alone.
LEMMA StoreStep == SchedulerInv /\ [Next]_vars => [StoreNext]_storeVars
<1> SUFFICES ASSUME SchedulerInv, [Next]_vars
             PROVE  StoreNext \/ UNCHANGED storeVars
  OBVIOUS
<1>1. CASE Request
  BY <1>1, RequestStore
<1>2. CASE Tick \/ UNCHANGED vars
  BY <1>2 DEF Tick, vars
<1>3. ASSUME NEW w \in Worker,
             Claim(w) \/ Complete(w) \/ RecordFailure(w) \/ Shutdown(w)
      PROVE  StoreNext \/ UNCHANGED storeVars
  BY <1>3, WorkerStore
<1>4. ASSUME NEW w \in Worker,
             \/ Start(w) \/ Poll(w) \/ ClaimError(w) \/ ExecStart(w)
             \/ LeaseLost(w) \/ CompleteError(w) \/ RecordFailureError(w)
             \/ Stop(w) \/ ShutdownError(w) \/ Crash(w)
      PROVE  UNCHANGED storeVars
  BY <1>4 DEF Start, Poll, ClaimError, ExecStart, LeaseLost, CompleteError,
              RecordFailureError, Stop, ShutdownError, Crash
<1> QED
  BY <1>1, <1>2, <1>3, <1>4 DEF Next

-----------------------------------------------------------------------------
(* The invariant is inductive. *)

\* Whatever the step, rows keep their document, version and due time, and the
\* clock does not go back.
LEMMA RowsKept ==
    ASSUME SchedulerInv, [Next]_vars
    PROVE  /\ Inv'
           /\ now \in Nat /\ now' \in Nat /\ now <= now'
           /\ \A s \in DOMAIN publish_schedules :
                 /\ s \in DOMAIN publish_schedules'
                 /\ JobOf(s)' = JobOf(s)
                 /\ publish_schedules'[s].run_at = publish_schedules[s].run_at
                 /\ publish_schedules[s].run_at \in Int
<1>1. Inv /\ [StoreNext]_storeVars
  BY StoreStep DEF SchedulerInv
<1>2. Inv'
  BY <1>1, NextInv
<1>3. SettledKept
  <2>1. CASE StoreNext
    BY <1>1, <2>1, SettledStep
  <2>2. CASE UNCHANGED storeVars
    BY <2>2 DEF storeVars, SettledKept
  <2> QED
    BY <1>1, <2>1, <2>2
<1>4. now \in 0 .. MaxNow /\ MaxNow \in Nat
  BY SchedulerAssumption DEF SchedulerInv, SchedulerTypeOK
<1>5. now' = now \/ now' = now + 1
  BY DEF Next, Tick, Request, Start, Poll, Claim, ClaimError, ExecStart,
         Complete, LeaseLost, CompleteError, RecordFailure, RecordFailureError,
         JobOver, Stop, Shutdown, ShutdownError, Crash, vars
<1>6. \A s \in DOMAIN publish_schedules : publish_schedules[s].run_at \in Int
  BY StoreAssumption DEF SchedulerInv, Inv, TypeOK, ScheduleRow
<1> QED
  BY <1>2, <1>3, <1>4, <1>5, <1>6 DEF SettledKept, JobOf

\* Every variable keeps its type.
LEMMA TypeStep ==
    ASSUME SchedulerInv, [Next]_vars
    PROVE  SchedulerTypeOK'
<1>1. TypeOK'
  BY RowsKept DEF Inv
<1>2. SchedulerTypeOK /\ now \in Nat /\ MaxNow \in Nat
  BY RowsKept, SchedulerAssumption DEF SchedulerInv
<1>3. CASE Tick
  BY <1>1, <1>2, <1>3 DEF Tick, SchedulerTypeOK, workerVars
<1>4. CASE Request \/ UNCHANGED vars
  BY <1>1, <1>2, <1>4 DEF Request, SchedulerTypeOK, vars, workerVars
<1>5. ASSUME NEW w \in Worker, Claim(w)
      PROVE  SchedulerTypeOK'
  <2>1. PICK B \in SUBSET DOMAIN publish_schedules :
            /\ jobs' = [jobs EXCEPT ![w] = {JobOf(s) : s \in B}]
            /\ GoTo(w, IF B = {} THEN "idle" ELSE "batch")
    BY <1>5 DEF Claim
  <2>2. \A s \in DOMAIN publish_schedules : JobOf(s) \in Job
    BY <1>2 DEF SchedulerTypeOK, TypeOK, ScheduleRow, JobOf, Job
  <2>3. {JobOf(s) : s \in B} \in SUBSET Job
    BY <2>2
  <2> QED
    BY <1>1, <1>2, <1>5, <2>1, <2>3 DEF Claim, SchedulerTypeOK, GoTo, Running
<1>6. ASSUME NEW w \in Worker, JobOver(w)
      PROVE  SchedulerTypeOK'
  BY <1>1, <1>2, <1>6 DEF JobOver, SchedulerTypeOK, GoTo, Running
<1>7. ASSUME NEW w \in Worker,
             \/ Start(w) \/ Poll(w) \/ ClaimError(w) \/ CompleteError(w)
             \/ Stop(w) \/ Shutdown(w) \/ ShutdownError(w)
      PROVE  SchedulerTypeOK'
  <2>1. CASE Start(w) \/ CompleteError(w)
    BY <1>1, <1>2, <2>1 DEF Start, CompleteError, SchedulerTypeOK, GoTo, Running
  <2>2. CASE Poll(w) \/ ClaimError(w)
    BY <1>1, <1>2, <2>2 DEF Poll, ClaimError, SchedulerTypeOK, GoTo, Running
  <2>3. CASE Stop(w)
    BY <1>1, <1>2, <2>3 DEF Stop, SchedulerTypeOK
  <2>4. CASE Shutdown(w) \/ ShutdownError(w)
    BY <1>1, <1>2, <2>4 DEF Shutdown, ShutdownError, SchedulerTypeOK, GoTo
  <2> QED  BY <1>7, <2>1, <2>2, <2>3, <2>4
<1>8. ASSUME NEW w \in Worker, ExecStart(w)
      PROVE  SchedulerTypeOK'
  BY <1>1, <1>2, <1>8 DEF ExecStart, SchedulerTypeOK, GoTo, Running
<1>9. ASSUME NEW w \in Worker, Crash(w)
      PROVE  SchedulerTypeOK'
  BY <1>1, <1>2, <1>9 DEF Crash, SchedulerTypeOK, GoTo, Running
<1> QED
  BY <1>3, <1>4, <1>5, <1>6, <1>7, <1>8, <1>9
     DEF Next, Complete, LeaseLost, RecordFailure, RecordFailureError

\* A step gives a worker new jobs only by a claim, which reads them off the
\* rows it has just leased.
LEMMA JobsStep ==
    ASSUME SchedulerInv, [Next]_vars, NEW w \in Worker
    PROVE  \/ jobs'[w] \subseteq jobs[w]
           \/ /\ Claim(w)
              /\ \E B \in SUBSET DOMAIN publish_schedules :
                    jobs'[w] = {JobOf(s) : s \in B} /\ IsBatch(B, tickNow[w])
<1>1. jobs \in [Worker -> SUBSET Job]
  BY DEF SchedulerInv, SchedulerTypeOK
<1>2. CASE Tick \/ Request \/ UNCHANGED vars
  BY <1>2 DEF Tick, Request, vars, workerVars
<1>3. ASSUME NEW u \in Worker,
             \/ Start(u) \/ Poll(u) \/ ClaimError(u) \/ CompleteError(u)
             \/ Stop(u) \/ Shutdown(u) \/ ShutdownError(u) \/ ExecStart(u)
      PROVE  jobs'[w] \subseteq jobs[w]
  BY <1>3 DEF Start, Poll, ClaimError, CompleteError, Stop, Shutdown,
              ShutdownError, ExecStart
<1>4. ASSUME NEW u \in Worker, JobOver(u) \/ Crash(u)
      PROVE  jobs'[w] \subseteq jobs[w]
  BY <1>1, <1>4 DEF JobOver, Crash
<1>5. ASSUME NEW u \in Worker, Claim(u)
      PROVE  \/ jobs'[w] \subseteq jobs[w]
             \/ /\ Claim(w)
                /\ \E B \in SUBSET DOMAIN publish_schedules :
                      jobs'[w] = {JobOf(s) : s \in B} /\ IsBatch(B, tickNow[w])
  <2>1. PICK B \in SUBSET DOMAIN publish_schedules :
            /\ jobs' = [jobs EXCEPT ![u] = {JobOf(s) : s \in B}]
            /\ IsBatch(B, tickNow[u])
    BY <1>5 DEF Claim, ClaimDueSchedules
  <2>2. CASE u = w
    BY <1>1, <1>5, <2>1, <2>2
  <2>3. CASE u # w
    BY <1>1, <2>1, <2>3
  <2> QED
    BY <2>2, <2>3
<1> QED
  BY <1>2, <1>3, <1>4, <1>5
     DEF Next, Complete, LeaseLost, RecordFailure, RecordFailureError

\* Jobs in memory go on matching their rows.
LEMMA MemoryStep ==
    ASSUME SchedulerInv, [Next]_vars
    PROVE  MemoryMatchesRow'
<1> SUFFICES ASSUME NEW w \in Worker, NEW j \in jobs'[w]
             PROVE  /\ j.ScheduleID \in DOMAIN publish_schedules'
                    /\ j = JobOf(j.ScheduleID)'
  BY DEF MemoryMatchesRow, JobOf
<1>1. j.ScheduleID \in DOMAIN publish_schedules /\ j = JobOf(j.ScheduleID)
  <2>1. CASE jobs'[w] \subseteq jobs[w]
    BY <2>1 DEF SchedulerInv, MemoryMatchesRow
  <2>2. CASE \E B \in SUBSET DOMAIN publish_schedules :
                jobs'[w] = {JobOf(s) : s \in B}
    <3>1. PICK s \in DOMAIN publish_schedules : j = JobOf(s)
      BY <2>2
    <3>2. j.ScheduleID = s
      BY <3>1 DEF JobOf
    <3> QED
      BY <3>1, <3>2
  <2> QED
    BY <2>1, <2>2, JobsStep
<1> QED
  BY <1>1, RowsKept DEF JobOf

\* The only ways a step changes a row of the queue: an editor cancels it while
\* it is pending, a worker claims it, or the worker holding it lets go of it,
\* leaving the program point it was at.  A new row is pending.
LEMMA RowStep ==
    ASSUME SchedulerInv, [Next]_vars, NEW s \in DOMAIN publish_schedules'
    PROVE  \/ /\ s \in DOMAIN publish_schedules
              /\ publish_schedules'[s] = publish_schedules[s]
           \/ /\ s \in DOMAIN publish_schedules => publish_schedules[s].status = "pending"
              /\ publish_schedules'[s].status # "claimed"
              /\ publish_schedules'[s].locked_by = NULL
           \/ /\ s \in DOMAIN publish_schedules
              /\ \E w \in Worker :
                    /\ Claim(w) /\ s \in Claimable(tickNow[w])
                    /\ publish_schedules'[s].locked_by = w
           \/ /\ s \in DOMAIN publish_schedules
              /\ publish_schedules'[s].status # "claimed"
              /\ publish_schedules'[s].locked_by = NULL
              /\ \E w \in Worker : HoldsLease(s, w) /\ pc'[w] # pc[w]
<1> DEFINE Goal ==
           \/ /\ s \in DOMAIN publish_schedules
              /\ publish_schedules'[s] = publish_schedules[s]
           \/ /\ s \in DOMAIN publish_schedules => publish_schedules[s].status = "pending"
              /\ publish_schedules'[s].status # "claimed"
              /\ publish_schedules'[s].locked_by = NULL
           \/ /\ s \in DOMAIN publish_schedules
              /\ \E w \in Worker :
                    /\ Claim(w) /\ s \in Claimable(tickNow[w])
                    /\ publish_schedules'[s].locked_by = w
           \/ /\ s \in DOMAIN publish_schedules
              /\ publish_schedules'[s].status # "claimed"
              /\ publish_schedules'[s].locked_by = NULL
              /\ \E w \in Worker : HoldsLease(s, w) /\ pc'[w] # pc[w]
<1>0. TypeOK /\ SchedulerTypeOK /\ pc \in [Worker -> Running \cup {"new", "stopped", "dead"}]
  BY DEF SchedulerInv, SchedulerTypeOK
<1>1. CASE UNCHANGED publish_schedules
  BY <1>1
<1>2. ASSUME NEW id, NEW c, NEW v, NEW t, CreateSchedule(id, c, v, t)
      PROVE  Goal
  BY <1>2 DEF CreateSchedule, Insert
<1>3. ASSUME NEW id, CancelSchedule(id)
      PROVE  Goal
  <2>1. Unlock({id}, "cancelled") /\ publish_schedules[id].status = "pending"
    BY <1>3 DEF CancelSchedule, CancelScheduleResult
  <2>2. "cancelled" \in {"pending", "claimed", "done", "cancelled"}
    OBVIOUS
  <2> QED
    BY <1>0, <2>1, <2>2, UnlockFacts
<1>4. ASSUME NEW w \in Worker, Claim(w)
      PROVE  Goal
  <2>1. PICK B \in SUBSET DOMAIN publish_schedules, read \in tickNow[w] .. now :
            ClaimDueSchedules(w, tickNow[w], read + LeaseTTL, B)
    BY <1>4 DEF Claim
  <2>2. /\ DOMAIN publish_schedules' = DOMAIN publish_schedules
        /\ s \notin B => publish_schedules'[s] = publish_schedules[s]
        /\ s \in B => publish_schedules'[s].locked_by = w
    BY <1>0, <2>1 DEF ClaimDueSchedules, TypeOK, ScheduleRow
  <2>3. B \subseteq Claimable(tickNow[w])
    BY <2>1 DEF ClaimDueSchedules, IsBatch
  <2> QED
    BY <1>4, <2>2, <2>3
<1>5. ASSUME NEW w \in Worker, NEW S, NEW st \in {"pending", "done"},
             Unlock(S, st), \A u \in S : HoldsLease(u, w), pc'[w] # pc[w]
      PROVE  Goal
  <2>1. st \in {"pending", "claimed", "done", "cancelled"} /\ st # "claimed"
    OBVIOUS
  <2>2. /\ DOMAIN publish_schedules' = DOMAIN publish_schedules
        /\ s \notin S => publish_schedules'[s] = publish_schedules[s]
        /\ s \in S => /\ publish_schedules'[s].status = st
                      /\ publish_schedules'[s].locked_by = NULL
    BY <1>0, <1>5, <2>1, UnlockFacts
  <2> QED
    BY <1>5, <2>1, <2>2
<1>6. ASSUME NEW w \in Worker, JobOver(w), pc[w] \in {"executing", "failing"}
      PROVE  pc'[w] # pc[w]
  BY <1>0, <1>6 DEF JobOver, GoTo
<1>7. ASSUME NEW w \in Worker, Complete(w)
      PROVE  Goal
  <2> DEFINE S == {job[w].ScheduleID}
  <2>1. Unlock(S, "done") /\ \A u \in S : HoldsLease(u, w)
    BY <1>7 DEF Complete, CompleteScheduledPublish, CompleteResult
  <2>2. pc'[w] # pc[w]
    BY <1>6, <1>7 DEF Complete
  <2> QED
    BY <1>5, <2>1, <2>2
<1>8. ASSUME NEW w \in Worker, RecordFailure(w)
      PROVE  Goal
  <2>1. CASE UNCHANGED storeVars
    BY <1>1, <2>1 DEF storeVars
  <2>2. CASE FailSchedule(job[w].ScheduleID, w)
    <3> DEFINE S == {job[w].ScheduleID}
    <3>1. Unlock(S, "pending") /\ \A u \in S : HoldsLease(u, w)
      BY <2>2 DEF FailSchedule
    <3>2. pc'[w] # pc[w]
      BY <1>6, <1>8 DEF RecordFailure
    <3> QED
      BY <1>5, <3>1, <3>2
  <2> QED
    BY <1>8, <2>1, <2>2 DEF RecordFailure
<1>9. ASSUME NEW w \in Worker, Shutdown(w)
      PROVE  Goal
  <2> DEFINE S == {u \in DOMAIN publish_schedules : HoldsLease(u, w)}
  <2>1. Unlock(S, "pending") /\ \A u \in S : HoldsLease(u, w)
    BY <1>9 DEF Shutdown, ReleaseClaims
  <2>2. pc'[w] # pc[w]
    BY <1>0, <1>9 DEF Shutdown, GoTo
  <2> QED
    BY <1>5, <2>1, <2>2
<1>10. CASE Request
  <2>1. CASE \E u \in ScheduleId : CancelSchedule(u)
    BY <1>3, <2>1
  <2>2. CASE \E t \in 0 .. now : Schedule(t)
    BY <1>2, <2>2 DEF Schedule
  <2>3. CASE \E t \in 0 .. now : EditContent(t) \/ PublishByHand(t)
    BY <1>1, <2>3 DEF EditContent, PublishByHand, CreateContent, UpdateContent,
                      Publish, Unpublish
  <2> QED
    BY <1>10, <2>1, <2>2, <2>3 DEF Request
<1>11. ASSUME NEW w \in Worker,
             \/ Start(w) \/ Poll(w) \/ ClaimError(w) \/ ExecStart(w)
             \/ LeaseLost(w) \/ CompleteError(w) \/ RecordFailureError(w)
             \/ Stop(w) \/ ShutdownError(w) \/ Crash(w)
      PROVE  UNCHANGED publish_schedules
  BY <1>11 DEF Start, Poll, ClaimError, ExecStart, LeaseLost, CompleteError,
               RecordFailureError, Stop, ShutdownError, Crash, storeVars
<1>12. CASE Tick \/ UNCHANGED vars
  BY <1>1, <1>12 DEF Tick, vars, storeVars
<1> QED
  BY <1>1, <1>4, <1>7, <1>8, <1>9, <1>10, <1>11, <1>12 DEF Next

\* Only due jobs are claimed and executed.
LEMMA DueStep ==
    ASSUME SchedulerInv, [Next]_vars
    PROVE  DueWhenHeld'
<1>0. /\ SchedulerTypeOK /\ DueWhenHeld /\ MemoryMatchesRow
      /\ now \in Nat /\ now' \in Nat /\ now <= now'
      /\ \A w \in Worker : pc[w] = "claiming" => tickNow[w] \in 0 .. now
  BY RowsKept DEF SchedulerInv, DueWhenHeld
<1>1. ASSUME NEW w \in Worker, Claim(w), NEW s \in Claimable(tickNow[w])
      PROVE  /\ s \in DOMAIN publish_schedules
             /\ publish_schedules[s].run_at <= now
  <2>1. tickNow[w] \in 0 .. now
    BY <1>0, <1>1 DEF Claim
  <2>2. s \in DOMAIN publish_schedules /\ publish_schedules[s].run_at \in Int
    BY RowsKept DEF Claimable
  <2> QED
    BY <1>0, <2>1, <2>2 DEF Claimable, DueWhenHeld
<1>2. ASSUME NEW s \in DOMAIN publish_schedules',
             publish_schedules'[s].status = "claimed"
      PROVE  publish_schedules'[s].run_at <= now'
  <2>1. s \in DOMAIN publish_schedules /\ publish_schedules[s].run_at <= now
    BY <1>0, <1>1, <1>2, RowStep DEF DueWhenHeld
  <2> QED
    BY <1>0, <2>1, RowsKept
<1>3. ASSUME NEW w \in Worker, NEW j \in jobs'[w]
      PROVE  publish_schedules'[j.ScheduleID].run_at <= now'
  <2>1. /\ j.ScheduleID \in DOMAIN publish_schedules
        /\ publish_schedules[j.ScheduleID].run_at <= now
    <3>1. CASE jobs'[w] \subseteq jobs[w]
      BY <1>0, <3>1 DEF DueWhenHeld, MemoryMatchesRow
    <3>2. CASE /\ Claim(w)
               /\ \E B \in SUBSET DOMAIN publish_schedules :
                     jobs'[w] = {JobOf(s) : s \in B} /\ IsBatch(B, tickNow[w])
      <4>1. PICK s \in Claimable(tickNow[w]) : j = JobOf(s)
        BY <3>2 DEF IsBatch
      <4>2. j.ScheduleID = s
        BY <4>1 DEF JobOf
      <4> QED
        BY <1>1, <3>2, <4>1, <4>2
    <3> QED
      BY <3>1, <3>2, JobsStep
  <2> QED
    BY <1>0, <2>1, RowsKept
<1>4. ASSUME NEW w \in Worker, pc'[w] = "claiming"
      PROVE  tickNow'[w] \in 0 .. now'
  <2>1. \/ pc[w] = "claiming" /\ tickNow'[w] = tickNow[w]
        \/ tickNow'[w] = now
    BY <1>0, <1>4 DEF SchedulerTypeOK, Next, Tick, Request, Start, Poll, Claim,
         ClaimError, ExecStart, Complete, LeaseLost, CompleteError,
         RecordFailure, RecordFailureError, JobOver, Stop, Shutdown,
         ShutdownError, Crash, vars, workerVars, GoTo
  <2> QED
    BY <1>0, <2>1
<1>5. ASSUME NEW w \in Worker, pc'[w] \in {"executing", "failing"}
      PROVE  /\ job'[w] \in jobs'[w]
             /\ execNow'[w] \in 0 .. now'
             /\ publish_schedules'[job'[w].ScheduleID].run_at <= execNow'[w]
  <2>1. \/ /\ pc[w] \in {"executing", "failing"}
           /\ job'[w] = job[w] /\ jobs'[w] = jobs[w] /\ execNow'[w] = execNow[w]
        \/ job'[w] \in jobs[w] /\ jobs'[w] = jobs[w] /\ execNow'[w] = now
    BY <1>0, <1>5 DEF SchedulerTypeOK, Next, Tick, Request, Start, Poll, Claim,
         ClaimError, ExecStart, Complete, LeaseLost, CompleteError,
         RecordFailure, RecordFailureError, JobOver, Stop, Shutdown,
         ShutdownError, Crash, vars, workerVars, GoTo
  <2>2. /\ job'[w] \in jobs[w] /\ jobs'[w] = jobs[w]
        /\ execNow'[w] \in 0 .. now
        /\ publish_schedules[job'[w].ScheduleID].run_at <= execNow'[w]
    BY <1>0, <2>1 DEF DueWhenHeld
  <2>3. job'[w].ScheduleID \in DOMAIN publish_schedules
    BY <1>0, <2>2 DEF MemoryMatchesRow
  <2> QED
    BY <1>0, <2>2, <2>3, RowsKept
<1> QED
  BY <1>2, <1>3, <1>4, <1>5 DEF DueWhenHeld

\* Only the completion of a job writes an event with a schedule id, and it
\* stamps it with the clock reading taken after the job was claimed.
LEMMA EarlyStep ==
    ASSUME SchedulerInv, [Next]_vars
    PROVE  NeverEarly'
<1> DEFINE NewEvent(row) == publish_events' = Append(publish_events, row)
<1>0. /\ TypeOK /\ NeverEarly /\ DueWhenHeld
      /\ publish_events \in Seq(EventRow) /\ Len(publish_events) \in Nat
      /\ now \in Nat /\ now' \in Nat /\ now <= now'
      /\ \A e \in DOMAIN publish_events : publish_events[e].occurred_at \in Int
  <2>1. TypeOK /\ NeverEarly /\ DueWhenHeld
    BY DEF SchedulerInv, Inv
  <2>2. publish_events \in Seq(EventRow) /\ Len(publish_events) \in Nat
    BY <2>1 DEF TypeOK
  <2>3. \A e \in DOMAIN publish_events : publish_events[e].occurred_at \in Time
    <3>1. \A e \in DOMAIN publish_events : publish_events[e] \in EventRow
      BY <2>2
    <3> QED
      BY <3>1 DEF EventRow
  <2>4. \A e \in DOMAIN publish_events : publish_events[e].occurred_at \in Int
    BY <2>3, StoreAssumption
  <2> QED
    BY <2>1, <2>2, <2>4, RowsKept
<1>1. \A e \in DOMAIN publish_events : publish_events[e].schedule_id # NULL =>
         publish_events[e].schedule_id \in DOMAIN publish_schedules
  BY DEF SchedulerInv, Inv, ExactlyOnce
<1>2. ASSUME NEW e \in DOMAIN publish_events,
             publish_events[e].schedule_id # NULL
      PROVE  /\ publish_schedules'[publish_events[e].schedule_id].run_at
                   <= publish_events[e].occurred_at
             /\ publish_events[e].occurred_at <= now'
  BY <1>0, <1>1, <1>2, RowsKept DEF NeverEarly
<1>3. CASE UNCHANGED publish_events
  BY <1>2, <1>3 DEF NeverEarly
<1>4. ASSUME NEW row, NewEvent(row),
             row.schedule_id = NULL \/
               /\ publish_schedules'[row.schedule_id].run_at <= row.occurred_at
               /\ row.occurred_at <= now'
      PROVE  NeverEarly'
  <2>1. /\ DOMAIN publish_events' = DOMAIN publish_events \cup {Len(publish_events) + 1}
        /\ publish_events'[Len(publish_events) + 1] = row
        /\ \A e \in DOMAIN publish_events : publish_events'[e] = publish_events[e]
    BY <1>0, <1>4
  <2> QED
    BY <1>2, <1>4, <2>1 DEF NeverEarly
<1>5. ASSUME NEW w \in Worker, Complete(w)
      PROVE  NeverEarly'
  <2> DEFINE row == [content_id |-> job[w].ContentID,
                     version_id |-> job[w].VersionID,
                     action |-> "publish", source |-> "scheduled",
                     schedule_id |-> job[w].ScheduleID,
                     occurred_at |-> execNow[w]]
  <2>1. /\ job[w] \in jobs[w] /\ execNow[w] \in 0 .. now
        /\ publish_schedules[job[w].ScheduleID].run_at <= execNow[w]
    BY <1>0, <1>5 DEF Complete, DueWhenHeld
  <2>2. job[w].ScheduleID \in DOMAIN publish_schedules
    BY <2>1 DEF SchedulerInv, MemoryMatchesRow
  <2>3. NewEvent(row)
    BY <1>5 DEF Complete, CompleteScheduledPublish, InsertEvent
  <2>4. /\ publish_schedules'[job[w].ScheduleID].run_at <= execNow[w]
        /\ execNow[w] <= now'
    BY <1>0, <2>1, <2>2, RowsKept
  <2> QED
    BY <1>4, <2>3, <2>4
<1>6. ASSUME NEW c, NEW v, NEW t, Publish(c, v, t)
      PROVE  NeverEarly'
  <2> DEFINE row == [content_id |-> c, version_id |-> v, action |-> "publish",
                     source |-> "manual", schedule_id |-> NULL, occurred_at |-> t]
  <2>1. NewEvent(row) /\ row.schedule_id = NULL
    BY <1>6 DEF Publish, InsertEvent
  <2> QED
    BY <1>4, <2>1
<1>7. ASSUME NEW c, NEW t, Unpublish(c, t)
      PROVE  NeverEarly'
  <2> DEFINE row == [content_id |-> c,
                     version_id |-> contents[c].published_version_id,
                     action |-> "unpublish", source |-> "manual",
                     schedule_id |-> NULL, occurred_at |-> t]
  <2>1. NewEvent(row) /\ row.schedule_id = NULL
    BY <1>7 DEF Unpublish, InsertEvent
  <2> QED
    BY <1>4, <2>1
<1>8. CASE Request
  <2>1. CASE \E t \in 0 .. now : PublishByHand(t)
    BY <1>6, <1>7, <2>1 DEF PublishByHand
  <2>2. CASE \/ \E s \in ScheduleId : CancelSchedule(s)
             \/ \E t \in 0 .. now : EditContent(t) \/ Schedule(t)
    BY <1>3, <2>2 DEF CancelSchedule, EditContent, Schedule, CreateContent,
                      UpdateContent, CreateSchedule
  <2> QED
    BY <1>8, <2>1, <2>2 DEF Request
<1>9. ASSUME NEW w \in Worker,
             \/ Start(w) \/ Poll(w) \/ Claim(w) \/ ClaimError(w) \/ ExecStart(w)
             \/ LeaseLost(w) \/ CompleteError(w) \/ RecordFailure(w)
             \/ RecordFailureError(w) \/ Stop(w) \/ Shutdown(w)
             \/ ShutdownError(w) \/ Crash(w)
      PROVE  UNCHANGED publish_events
  <2>1. CASE Claim(w) \/ RecordFailure(w) \/ Shutdown(w)
    BY <2>1 DEF Claim, RecordFailure, Shutdown, ClaimDueSchedules,
                FailSchedule, ReleaseClaims, storeVars
  <2>2. CASE \/ Start(w) \/ Poll(w) \/ ClaimError(w) \/ ExecStart(w)
             \/ LeaseLost(w) \/ CompleteError(w) \/ RecordFailureError(w)
             \/ Stop(w) \/ ShutdownError(w) \/ Crash(w)
    BY <2>2 DEF Start, Poll, ClaimError, ExecStart, LeaseLost, CompleteError,
                RecordFailureError, Stop, ShutdownError, Crash, storeVars
  <2> QED
    BY <1>9, <2>1, <2>2
<1>10. CASE Tick \/ UNCHANGED vars
  BY <1>3, <1>10 DEF Tick, vars, storeVars
<1> QED
  BY <1>3, <1>5, <1>8, <1>9, <1>10 DEF Next

\* A worker that has stopped cannot claim again, and nobody claims for it.
LEMMA CleanStep ==
    ASSUME SchedulerInv, [Next]_vars
    PROVE  CleanShutdown'
<1>0. TypeOK /\ SchedulerTypeOK /\ CleanShutdown /\ ClaimHasLease
  BY DEF SchedulerInv, Inv
<1> SUFFICES ASSUME NEW w \in Worker, pc'[w] = "stopped",
                    NEW s \in DOMAIN publish_schedules',
                    publish_schedules'[s].locked_by = w
             PROVE  FALSE
  BY DEF CleanShutdown
<1>1. w # NULL
  BY StoreAssumption
<1>2. \/ pc[w] = "stopped"
      \/ Shutdown(w)
  BY <1>0 DEF SchedulerTypeOK, Next, Tick, Request, Start, Poll, Claim,
       ClaimError, ExecStart, Complete, LeaseLost, CompleteError, RecordFailure,
       RecordFailureError, JobOver, Stop, Shutdown, ShutdownError, Crash, vars,
       workerVars, GoTo
<1>3. CASE pc[w] = "stopped"
  <2>1. ~Claim(w)
    BY <1>3 DEF Claim
  <2>2. /\ s \in DOMAIN publish_schedules
        /\ publish_schedules[s].locked_by = w
    BY <1>1, <2>1, RowStep
  <2> QED
    BY <1>0, <1>3, <2>2 DEF CleanShutdown
<1>4. CASE Shutdown(w)
  <2> DEFINE S == {u \in DOMAIN publish_schedules : HoldsLease(u, w)}
  <2>1. Unlock(S, "pending") /\ "pending" \in {"pending", "claimed", "done", "cancelled"}
    BY <1>4 DEF Shutdown, ReleaseClaims
  <2>2. /\ s \in DOMAIN publish_schedules
        /\ s \notin S => publish_schedules'[s] = publish_schedules[s]
        /\ s \in S => publish_schedules'[s].locked_by = NULL
    BY <1>0, <2>1, UnlockFacts
  <2>3. s \notin S /\ publish_schedules[s].locked_by = w
    BY <1>1, <2>2
  <2> QED
    BY <1>0, <1>1, <2>2, <2>3 DEF ClaimHasLease, HoldsLease
<1> QED
  BY <1>2, <1>3, <1>4

-----------------------------------------------------------------------------
(* The theorems. *)

\* The empty database and processes not yet started satisfy the invariant.
LEMMA SchedulerInit == Init => SchedulerInv
<1> SUFFICES ASSUME Init PROVE SchedulerInv
  OBVIOUS
<1>1. Inv
  BY InitInv DEF Init
<1>2. DOMAIN publish_schedules = {} /\ DOMAIN publish_events = {}
  BY DEF Init, StoreInit
<1>3. SchedulerTypeOK
  BY <1>1, SchedulerAssumption DEF Init, Inv, SchedulerTypeOK
<1>4. MemoryMatchesRow /\ DueWhenHeld /\ NeverEarly /\ CleanShutdown
  BY <1>2 DEF Init, MemoryMatchesRow, DueWhenHeld, NeverEarly, CleanShutdown
<1> QED
  BY <1>1, <1>3, <1>4 DEF SchedulerInv

\* The scheduler's invariant holds in every reachable state.
THEOREM SchedulerInvariance == Spec => []SchedulerInv
<1>1. Init => SchedulerInv
  BY SchedulerInit
<1>2. SchedulerInv /\ [Next]_vars => SchedulerInv'
  BY RowsKept, TypeStep, MemoryStep, DueStep, EarlyStep, CleanStep
     DEF SchedulerInv
<1> QED
  BY <1>1, <1>2, PTL DEF Spec

\* Workers keep their types: a clock reading is an instant or none, and what a
\* worker holds are jobs.
THEOREM SchedulerTypeCorrect == Spec => []SchedulerTypeOK
<1>1. SchedulerInv => SchedulerTypeOK
  BY DEF SchedulerInv
<1> QED
  BY <1>1, SchedulerInvariance, PTL

\* The running system implements the store: whatever workers, crashes, stale
\* clocks and racing editors do, the tables only ever take steps of StoreSpec.
THEOREM SchedulerImplementsStore == Spec => ImplementsStore
<1>1. Init => StoreInit
  BY DEF Init
<1>2. SchedulerInv /\ [Next]_vars => [StoreNext]_storeVars
  BY StoreStep
<1> QED
  BY <1>1, <1>2, SchedulerInvariance, PTL DEF Spec, ImplementsStore, StoreSpec

\* Hence the running system keeps what the service promises its editors and
\* readers (module Publication): workers that crash, steal each other's jobs,
\* retry and shut down never publish a promise twice, never publish one that was
\* called off, and never change what is public in any other way than an editor
\* or a promise asked for.
THEOREM SchedulerKeepsPromises == Spec => ImplementsPublication
<1> QED
  BY SchedulerImplementsStore, StoreImplementsPublication, PTL DEF ImplementsStore

\* Hence exactly-once publication of the running system, crashes and steals
\* included.
THEOREM SchedulerExactlyOnce == Spec => []ExactlyOnce
<1>1. SchedulerInv => ExactlyOnce
  BY DEF SchedulerInv, Inv
<1> QED
  BY <1>1, SchedulerInvariance, PTL

\* A worker always publishes what the schedule asked for.
THEOREM WorkersRemember == Spec => []MemoryMatchesRow
<1>1. SchedulerInv => MemoryMatchesRow
  BY DEF SchedulerInv
<1> QED
  BY <1>1, SchedulerInvariance, PTL

\* Nothing is published on schedule before its time.
THEOREM NothingEarly == Spec => []NeverEarly
<1>1. SchedulerInv => NeverEarly
  BY DEF SchedulerInv
<1> QED
  BY <1>1, SchedulerInvariance, PTL

\* A clean shutdown leaves no lease behind.
THEOREM ShutdownIsClean == Spec => []CleanShutdown
<1>1. SchedulerInv => CleanShutdown
  BY DEF SchedulerInv
<1> QED
  BY <1>1, SchedulerInvariance, PTL

\* A running lease protects its row from every other worker.
THEOREM LeasesProtect == Spec => LeaseRespected
<1>1. SchedulerInv /\ [Next]_vars => [LeaseKept]_vars
  <2> SUFFICES ASSUME SchedulerInv, [Next]_vars PROVE LeaseKept
    OBVIOUS
  <2> SUFFICES ASSUME NEW s \in DOMAIN publish_schedules,
                      publish_schedules[s].status = "claimed",
                      publish_schedules[s].lock_expires_at > now,
                      publish_schedules'[s] # publish_schedules[s]
               PROVE  /\ publish_schedules'[s].locked_by = NULL
                      /\ pc'[publish_schedules[s].locked_by]
                            # pc[publish_schedules[s].locked_by]
    BY DEF LeaseKept
  <2>1. s \in DOMAIN publish_schedules'
    BY RowsKept
  <2>2. ASSUME NEW w \in Worker, Claim(w), s \in Claimable(tickNow[w])
        PROVE  FALSE
    <3>1. tickNow[w] \in 0 .. now /\ now \in Nat
      BY <2>2, RowsKept DEF Claim, SchedulerInv, DueWhenHeld
    <3>2. /\ publish_schedules[s].lock_expires_at \in Int
          /\ publish_schedules[s].lock_expires_at <= tickNow[w]
      BY <2>2, StoreAssumption
         DEF Claimable, SchedulerInv, Inv, TypeOK, ScheduleRow
    <3> QED
      BY <3>1, <3>2
  <2> QED
    BY <2>1, <2>2, RowStep DEF HoldsLease
<1> QED
  BY <1>1, SchedulerInvariance, PTL DEF Spec, LeaseRespected

=============================================================================
