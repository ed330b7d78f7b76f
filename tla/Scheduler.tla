----------------------------- MODULE Scheduler -----------------------------
(***************************************************************************)
(* The scheduler processes of internal/scheduler on one database, with the *)
(* wall clock, the editors' requests and the faults the code prepares for. *)
(*                                                                         *)
(* A worker is a single goroutine (Worker.Run): it polls, claims a batch   *)
(* of due schedules under a lease, and executes the jobs one by one.  What *)
(* it read before a transaction (the clock, the claimed jobs) is kept in   *)
(* per-worker variables and may be stale when the transaction finally gets *)
(* the one write connection.  Any transaction may fail and change nothing; *)
(* a process may crash at any step.  A worker id is a fresh uuid of one    *)
(* process, so a crashed id never comes back: a restart is another id.     *)
(*                                                                         *)
(* The clock never goes backwards here; module Store shows what does not   *)
(* depend on that.  All processes of a database file share one host and    *)
(* hence one clock.                                                        *)
(***************************************************************************)
EXTENDS Store

CONSTANTS
    LeaseTTL,   \* SCHEDULER_LEASE_TTL, in clock units
    MaxNow      \* bound: where the clock stops

ASSUME SchedulerAssumption ==
    /\ LeaseTTL \in Nat \ {0}    \* config.validate: longer than a poll
    /\ MaxNow \in Nat
    /\ 0 .. (MaxNow + LeaseTTL) \subseteq Time

VARIABLES
    now,        \* the wall clock (clock.Real)
    pc,         \* where each worker's goroutine is
    stopping,   \* whether its context is cancelled
    tickNow,    \* tick: the clock read before the claim
    jobs,       \* tick: the claimed jobs not finished yet, current one included
    job,        \* execute: the current job
    execNow     \* execute: the clock read before the job's transaction

workerVars == <<pc, stopping, tickNow, jobs, job, execNow>>
vars == <<storeVars, now, workerVars>>

Job == [ScheduleID : ScheduleId, ContentID : ContentId, VersionID : VersionId]

Running == {"idle", "claiming", "batch", "executing", "failing"}

Init ==
    /\ StoreInit
    /\ now = 0
    /\ pc = [w \in Worker |-> "new"]
    /\ stopping = [w \in Worker |-> FALSE]
    /\ tickNow = [w \in Worker |-> NULL]
    /\ jobs = [w \in Worker |-> {}]
    /\ job = [w \in Worker |-> NULL]
    /\ execNow = [w \in Worker |-> NULL]

Tick ==
    /\ now < MaxNow
    /\ now' = now + 1
    /\ UNCHANGED <<storeVars, workerVars>>

-----------------------------------------------------------------------------
(* The worker's loop. *)

GoTo(w, p) == pc' = [pc EXCEPT ![w] = p]

\* A process boots and starts its scheduler goroutine.
Start(w) ==
    /\ pc[w] = "new"
    /\ GoTo(w, "idle")
    /\ UNCHANGED <<storeVars, now, stopping, tickNow, jobs, job, execNow>>

\* The ticker fires and tick reads the clock.  When the context is cancelled
\* at the same time, select may still pick the ticker.
Poll(w) ==
    /\ pc[w] = "idle"
    /\ GoTo(w, "claiming")
    /\ tickNow' = [tickNow EXCEPT ![w] = now]
    /\ UNCHANGED <<storeVars, now, stopping, jobs, job, execNow>>

\* The claim commits.  The lease starts at the second clock read of tick, some
\* instant between the first one and this commit.  BeginTx refuses a cancelled
\* context.  RETURNING has no order, so the jobs are a set.
Claim(w) ==
    /\ pc[w] = "claiming" /\ ~stopping[w]
    /\ \E B \in SUBSET DOMAIN publish_schedules, read \in tickNow[w] .. now :
          /\ ClaimDueSchedules(w, tickNow[w], read + LeaseTTL, B)
          /\ jobs' = [jobs EXCEPT ![w] = {JobOf(s) : s \in B}]
          /\ GoTo(w, IF B = {} THEN "idle" ELSE "batch")
    /\ tickNow' = [tickNow EXCEPT ![w] = NULL]
    /\ UNCHANGED <<now, stopping, job, execNow>>

\* The claim fails (cancelled context, busy or broken database).
ClaimError(w) ==
    /\ pc[w] = "claiming"
    /\ GoTo(w, "idle")
    /\ tickNow' = [tickNow EXCEPT ![w] = NULL]
    /\ UNCHANGED <<storeVars, now, stopping, jobs, job, execNow>>

\* Seeded fault: the clock is read in microseconds.
ExecStart_Micros(w) ==
    /\ pc[w] = "batch"
    /\ GoTo(w, "executing")
    /\ \E j \in jobs[w] : job' = [job EXCEPT ![w] = j]
    /\ execNow' = [execNow EXCEPT ![w] = now * 1000]
    /\ UNCHANGED <<storeVars, now, stopping, tickNow, jobs>>

\* execute takes the next job and reads the clock.
ExecStart(w) ==
    /\ pc[w] = "batch"
    /\ GoTo(w, "executing")
    /\ \E j \in jobs[w] : job' = [job EXCEPT ![w] = j]
    /\ execNow' = [execNow EXCEPT ![w] = now]
    /\ UNCHANGED <<storeVars, now, stopping, tickNow, jobs>>

\* Seeded fault: the loop waits for a job that never comes.
JobOver_Stuck(w) ==
    /\ jobs' = [jobs EXCEPT ![w] = @ \ {job[w]}]
    /\ GoTo(w, "batch")
    /\ job' = [job EXCEPT ![w] = NULL]
    /\ execNow' = [execNow EXCEPT ![w] = NULL]
    /\ UNCHANGED <<now, stopping, tickNow>>

\* execute returns and the loop of tick goes on.
JobOver(w) ==
    /\ jobs' = [jobs EXCEPT ![w] = @ \ {job[w]}]
    /\ GoTo(w, IF jobs[w] = {job[w]} THEN "idle" ELSE "batch")
    /\ job' = [job EXCEPT ![w] = NULL]
    /\ execNow' = [execNow EXCEPT ![w] = NULL]
    /\ UNCHANGED <<now, stopping, tickNow>>

\* Seeded fault: the publish commits before, and without, the job's status.
Complete_StatusLater(w) ==
    /\ pc[w] = "executing"
    /\ CompleteResult(job[w], w) = "ok"
    /\ SetPublished(job[w].ContentID, job[w].VersionID, execNow[w], execNow[w])
    /\ InsertEvent(job[w].ContentID, job[w].VersionID, "publish", "scheduled",
                   job[w].ScheduleID, execNow[w])
    /\ UNCHANGED <<content_versions, publish_schedules>>
    /\ JobOver(w)

\* The job's transaction commits.  Its context is detached from the shutdown
\* signal, so this happens to a stopping worker too.
Complete(w) ==
    /\ pc[w] = "executing"
    /\ CompleteScheduledPublish(job[w], w, execNow[w])
    /\ JobOver(w)

\* The lease was lost: rolled back, and the job is somebody else's.
LeaseLost(w) ==
    /\ pc[w] = "executing"
    /\ CompleteResult(job[w], w) = "errLeaseLost"
    /\ JobOver(w)
    /\ UNCHANGED storeVars

\* The transaction fails: the schedule's event is already there, or the
\* database is busy, broken or slower than the ten seconds of the context.
CompleteError(w) ==
    /\ pc[w] = "executing"
    /\ GoTo(w, "failing")
    /\ UNCHANGED <<storeVars, now, stopping, tickNow, jobs, job, execNow>>

\* FailSchedule commits: the job goes back to pending if it is still ours.
RecordFailure(w) ==
    /\ pc[w] = "failing"
    /\ \/ FailSchedule(job[w].ScheduleID, w)
       \/ ~HoldsLease(job[w].ScheduleID, w) /\ UNCHANGED storeVars
    /\ JobOver(w)

\* FailSchedule fails too (it shares the expired context): the row stays
\* claimed until its lease runs out.
RecordFailureError(w) ==
    /\ pc[w] = "failing"
    /\ JobOver(w)
    /\ UNCHANGED storeVars

-----------------------------------------------------------------------------
(* Stopping and crashing. *)

\* SIGTERM cancels the context the worker runs under.
Stop(w) ==
    /\ pc[w] \in Running /\ ~stopping[w]
    /\ stopping' = [stopping EXCEPT ![w] = TRUE]
    /\ UNCHANGED <<storeVars, now, pc, tickNow, jobs, job, execNow>>

\* Seeded fault: nothing is released.
Shutdown_KeepsClaims(w) ==
    /\ pc[w] = "idle" /\ stopping[w]
    /\ GoTo(w, "stopped")
    /\ UNCHANGED <<storeVars, now, stopping, tickNow, jobs, job, execNow>>

\* Back in select with the context cancelled: shutdown releases the claims and
\* Run returns.
Shutdown(w) ==
    /\ pc[w] = "idle" /\ stopping[w]
    /\ ReleaseClaims(w)
    /\ GoTo(w, "stopped")
    /\ UNCHANGED <<now, stopping, tickNow, jobs, job, execNow>>

\* Releasing fails; the process exits all the same.
ShutdownError(w) ==
    /\ pc[w] = "idle" /\ stopping[w]
    /\ GoTo(w, "dead")
    /\ UNCHANGED <<storeVars, now, stopping, tickNow, jobs, job, execNow>>

\* The process dies: killed, or run returns because the listener failed.
\* What the goroutine held in memory is gone.
Crash(w) ==
    /\ pc[w] \in Running
    /\ GoTo(w, "dead")
    /\ tickNow' = [tickNow EXCEPT ![w] = NULL]
    /\ jobs' = [jobs EXCEPT ![w] = {}]
    /\ job' = [job EXCEPT ![w] = NULL]
    /\ execNow' = [execNow EXCEPT ![w] = NULL]
    /\ UNCHANGED <<storeVars, now, stopping>>

-----------------------------------------------------------------------------
(* The editors' requests.  Each handler reads the clock before it waits for *)
(* the write connection, so its stamp t may lie behind the commit.          *)

EditContent(t) ==
    \/ \E id \in ContentId, slug \in Slug, f \in Fields : CreateContent(id, slug, f, t)
    \/ \E c \in ContentId, n \in VersionId, f \in Fields : UpdateContent(c, n, f, t)

PublishByHand(t) ==
    \/ \E c \in ContentId, v \in VersionId : Publish(c, v, t)
    \/ \E c \in ContentId : Unpublish(c, t)

\* content.Service.Schedule refuses a run_at that is not after its stamp.
Schedule(t) ==
    \E s \in ScheduleId, c \in ContentId, v \in VersionId, runAt \in (t + 1) .. MaxNow :
        CreateSchedule(s, c, v, runAt)

Request ==
    /\ \/ \E t \in 0 .. now : EditContent(t) \/ PublishByHand(t) \/ Schedule(t)
       \/ \E s \in ScheduleId : CancelSchedule(s)
    /\ UNCHANGED <<now, workerVars>>

-----------------------------------------------------------------------------
Next ==
    \/ Tick
    \/ Request
    \/ \E w \in Worker :
          \/ Start(w) \/ Poll(w) \/ Claim(w) \/ ClaimError(w)
          \/ ExecStart(w) \/ Complete(w) \/ LeaseLost(w) \/ CompleteError(w)
          \/ RecordFailure(w) \/ RecordFailureError(w)
          \/ Stop(w) \/ Shutdown(w) \/ ShutdownError(w) \/ Crash(w)

Spec == Init /\ [][Next]_vars

\* The clock advances, and a running goroutine keeps running: every database
\* call returns (each has a deadline), the ticker keeps firing.  Failures are
\* transient: a claim, or the completion of a given job, that can succeed
\* again and again eventually does.  Go's select picks among ready cases at
\* random, so a cancelled context is eventually noticed.
Fairness ==
    /\ WF_vars(Tick)
    /\ \A w \in Worker :
          /\ WF_vars(Poll(w))
          /\ WF_vars(Claim(w) \/ ClaimError(w))
          /\ WF_vars(ExecStart(w))
          /\ WF_vars(Complete(w) \/ LeaseLost(w) \/ CompleteError(w))
          /\ WF_vars(RecordFailure(w) \/ RecordFailureError(w))
          /\ SF_vars(Claim(w))
          /\ \A s \in ScheduleId :
                SF_vars(job[w] # NULL /\ job[w].ScheduleID = s /\ Complete(w))
          /\ SF_vars(Shutdown(w) \/ ShutdownError(w))

FairSpec == Spec /\ Fairness

-----------------------------------------------------------------------------
(* Properties. *)

SchedulerTypeOK ==
    /\ TypeOK
    /\ now \in 0 .. MaxNow
    /\ pc \in [Worker -> Running \cup {"new", "stopped", "dead"}]
    /\ stopping \in [Worker -> BOOLEAN]
    /\ tickNow \in [Worker -> (0 .. MaxNow) \cup {NULL}]
    /\ jobs \in [Worker -> SUBSET Job]
    /\ job \in [Worker -> Job \cup {NULL}]
    /\ execNow \in [Worker -> (0 .. MaxNow) \cup {NULL}]

\* However long a worker sits on a claimed job, what it would publish is still
\* what the schedule says: the row it came from exists and has not been
\* redirected, whoever else has claimed, cancelled or finished it meanwhile.
MemoryMatchesRow ==
    \A w \in Worker : \A j \in jobs[w] :
        j.ScheduleID \in DOMAIN publish_schedules /\ j = JobOf(j.ScheduleID)

\* No document goes public before its time: a scheduled event is stamped at or
\* after run_at and not in the future, through steals, retries and stale
\* clocks.
NeverEarly ==
    \A e \in DOMAIN publish_events :
        LET ev == publish_events[e] IN
        ev.schedule_id # NULL =>
            /\ publish_schedules[ev.schedule_id].run_at <= ev.occurred_at
            /\ ev.occurred_at <= now

\* A worker that shut down cleanly left nothing claimed, so a failover never
\* waits out a lease nobody holds (Worker.Run's comment).
CleanShutdown ==
    \A w \in Worker : pc[w] = "stopped" =>
        \A s \in DOMAIN publish_schedules : publish_schedules[s].locked_by # w

\* A step changes a row under a running lease only if the holder of the lease
\* moved, and then the row is nobody's.
LeaseKept ==
    \A s \in DOMAIN publish_schedules :
        LET r == publish_schedules[s] IN
        /\ r.status = "claimed" /\ r.lock_expires_at > now
        /\ publish_schedules'[s] # r
        => /\ publish_schedules'[s].locked_by = NULL
           /\ pc'[r.locked_by] # pc[r.locked_by]

\* While a lease is running nobody but its holder touches the row: no other
\* worker's claim, failure report or release takes it over, however stale the
\* clock it read.
LeaseRespected == [][LeaseKept]_vars

\* Every step is a transaction of the store or leaves the tables alone: the
\* workers use the database only in ways module Store covers.
ImplementsStore == StoreSpec

Due(s) ==
    s \in DOMAIN publish_schedules /\ Active(s) /\ publish_schedules[s].run_at <= now

Settled(s) == s \in DOMAIN publish_schedules /\ ~Active(s)

\* The owner of s has lost it from memory and the clock of the model stops
\* before the lease does: only the bound MaxNow keeps s from being reclaimed.
BeyondHorizon(s) ==
    /\ s \in DOMAIN publish_schedules
    /\ publish_schedules[s].status = "claimed"
    /\ publish_schedules[s].lock_expires_at > MaxNow
    /\ \A j \in jobs[publish_schedules[s].locked_by] : j.ScheduleID # s

\* A due schedule is eventually published or cancelled as long as some process
\* stays up, however many others crash with it in their hands and however
\* often transactions fail in between.
EventuallySettled ==
    (\E w \in Worker : <>[](pc[w] \in Running /\ ~stopping[w]))
      => \A s \in ScheduleId : Due(s) ~> (Settled(s) \/ BeyondHorizon(s))

\* A process told to stop stops, whatever batch it is in.
StopsWhenTold ==
    \A w \in Worker : stopping[w] ~> pc[w] \in {"stopped", "dead"}

=============================================================================
