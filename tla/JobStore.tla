------------------------------ MODULE JobStore ------------------------------
(***************************************************************************)
(* The supervisor ledger (agents/supervisor.py over the PgJobStore of      *)
(* db/repositories/agent_job.py or the InMemoryJobStore of                 *)
(* agents/job_store.py) and the workers that drain it.                     *)
(*                                                                         *)
(* Every store call is one transaction, hence one action.  The time a call *)
(* is judged by is read by the caller before its transaction begins        *)
(* (Supervisor._now) and may be old when it commits: an action picks it    *)
(* between the end of the caller's previous call and the present.  A       *)
(* worker remembers only the snapshot its lease gave it; it may stall past *)
(* its expiry and go on calling, be refused, or die at any point, and      *)
(* several workers may share one lease owner name, as counsel drains do.   *)
(* The transition assertions of contracts/agents.py are not guards here:   *)
(* ContractHonoured shows that no step would trip one.  Payloads, the type *)
(* of a failure and the optional reason of a cancellation are left out.    *)
(***************************************************************************)
EXTENDS Integers, FiniteSets

CONSTANTS
    Job,             \* job ids, naturals: str(job_id) orders them
    Scope,           \* (tenant_id, worker_kind) pairs
    Worker,          \* executions of a runner's run_next
    Owner,           \* lease_owner strings
    NoOwner,         \* lease_owner is None
    NoWorker,        \* nobody has written the job yet
    ScopeOf,         \* ScopeOf[j]: the tenant and kind of a job
    PriorityOf,      \* PriorityOf[j]: 0 batch, 1 standard, 2 interactive
    SweepScope,      \* SweepScope[w]: the tenant and kind a worker drains
    OwnerOf,         \* OwnerOf[w]: the name the worker leases under
    MaxRecovery,     \* max_recovery_attempts
    LeaseDuration,   \* Supervisor._lease_duration
    AgingInterval,   \* Supervisor._priority_aging_interval
    SkipLocked,      \* TRUE: PgJobStore (SKIP LOCKED); FALSE: InMemoryJobStore
    MaxTime,         \* bound: the clock stops here
    MaxPauses        \* bound: pauses of one job

ASSUME ConstantsAssumption ==
    /\ Job \subseteq Nat \ {0}
    /\ ScopeOf \in [Job -> Scope]
    /\ PriorityOf \in [Job -> 0..2]
    /\ SweepScope \in [Worker -> Scope]
    /\ OwnerOf \in [Worker -> Owner]
    /\ NoOwner \notin Owner
    /\ NoWorker \notin Worker
    /\ MaxRecovery \in Nat \ {0}
    /\ LeaseDuration \in Nat \ {0}
    /\ AgingInterval \in Nat \ {0}
    /\ SkipLocked \in BOOLEAN
    /\ MaxTime \in Nat
    /\ MaxPauses \in Nat

VARIABLES
    clock,     \* the present
    jobs,      \* the ledger: one WorkerJob row per job
    worker,    \* what each execution remembers
    author,    \* history: the worker that last wrote the row under a lease
    pauses     \* history: how often the job was paused

vars == <<clock, jobs, worker, author, pauses>>

NoTime == 0
NoJob == 0
Active == {"leased", "running"}
Terminal == {"succeeded", "failed", "cancelled"}
\* "absent": the ledger has no row for the job yet.
Phase == {"absent", "queued", "paused"} \cup Active \cup Terminal
NoError == "none"
WorkerError == "worker_error"
Exhausted == "worker_recovery_exhausted"

Row == [phase: Phase, dispatch: Nat, generation: Nat, recovery: 0..MaxRecovery,
        owner: Owner \cup {NoOwner}, acquired: Nat, expires: Nat,
        checkpoint: BOOLEAN, result: BOOLEAN,
        error: {NoError, WorkerError, Exhausted},
        queued: Nat, started: Nat, finished: Nat]

AbsentRow == [phase |-> "absent", dispatch |-> 0, generation |-> 0, recovery |-> 0,
              owner |-> NoOwner, acquired |-> NoTime, expires |-> NoTime,
              checkpoint |-> FALSE, result |-> FALSE, error |-> NoError,
              queued |-> NoTime, started |-> NoTime, finished |-> NoTime]

\* "swept" is between the two transactions of Supervisor.lease_next; "holding"
\* has the snapshot of a leased job.  read: the time the call in flight is judged
\* by while swept, the end of the last call while holding.
WorkerState == [pc: {"idle", "swept", "holding"}, read: Nat,
                job: Job \cup {NoJob}, generation: Nat, expires: Nat]
Idle == [pc |-> "idle", read |-> NoTime,
         job |-> NoJob, generation |-> 0, expires |-> NoTime]

TypeOK ==
    /\ clock \in 1..(MaxTime + 1)
    /\ jobs \in [Job -> Row]
    /\ worker \in [Worker -> WorkerState]
    /\ author \in [Job -> Worker \cup {NoWorker}]
    /\ pauses \in [Job -> 0..MaxPauses]
-----------------------------------------------------------------------------
(* What a row may be: WorkerJob.validate_job runs on every new snapshot,   *)
(* and a call whose snapshot it refuses writes nothing.                    *)

ValidLease(b) ==
    IF b.phase \in Active
      THEN /\ b.owner # NoOwner /\ b.acquired # NoTime /\ b.expires # NoTime
           /\ b.generation > 0
           /\ b.expires > b.acquired
      ELSE b.owner = NoOwner /\ b.acquired = NoTime /\ b.expires = NoTime

ValidPhase(b) ==
    /\ b.phase = "queued" /\ b.dispatch = 0 => b.started = NoTime /\ ~b.checkpoint
    /\ b.phase \in {"running", "paused"} => b.started # NoTime /\ b.checkpoint
    /\ b.phase \in Terminal <=> b.finished # NoTime
    /\ b.phase = "succeeded" => b.result /\ b.started # NoTime
    /\ b.phase = "failed" => b.error # NoError
    /\ b.phase \notin Terminal => ~b.result
    /\ b.phase \notin {"failed", "cancelled"} => b.error = NoError

ValidTimes(b) ==
    /\ b.started # NoTime => b.started >= b.queued
    /\ b.finished # NoTime => b.finished >= b.queued /\ b.finished >= b.started
    /\ b.acquired # NoTime => b.acquired >= b.queued

ValidJob(b) ==
    /\ b.recovery <= MaxRecovery
    /\ ValidLease(b)
    /\ ValidPhase(b)
    /\ ValidTimes(b)
-----------------------------------------------------------------------------
(* The row each operation makes of the row it found.  t is the caller's    *)
(* time.                                                                   *)

Unleased(b) == [b EXCEPT !.owner = NoOwner, !.acquired = NoTime, !.expires = NoTime]

\* Mutant of Leased: the fencing token counts recoveries, not leases.
LeasedByRecovery(b, o, t) ==
    [b EXCEPT !.phase = "leased", !.dispatch = @ + 1, !.generation = b.recovery + 1,
              !.owner = o, !.acquired = t, !.expires = t + LeaseDuration]

Leased(b, o, t) ==
    [b EXCEPT !.phase = "leased", !.dispatch = @ + 1, !.generation = @ + 1,
              !.owner = o, !.acquired = t, !.expires = t + LeaseDuration]

\* Mutant of Running: a second start overwrites the first.
RunningRestamped(b, t) ==
    [b EXCEPT !.phase = "running", !.checkpoint = TRUE, !.started = t]

Running(b, t) ==
    [b EXCEPT !.phase = "running", !.checkpoint = TRUE,
              !.started = IF @ = NoTime THEN t ELSE @]

Renewed(b, t) == [b EXCEPT !.expires = t + LeaseDuration]

Paused(b) == [Unleased(b) EXCEPT !.phase = "paused", !.checkpoint = TRUE]

\* Mutant of Resumed: a resume gives one recovery attempt back.
ResumedRefunding(b) == [b EXCEPT !.phase = "queued", !.recovery = @ - 1]

Resumed(b) == [b EXCEPT !.phase = "queued"]

\* Mutant of Finished: stamped with the time of the lease, as pack results are.
FinishedAtLease(b, phase, error, t) ==
    [Unleased(b) EXCEPT !.phase = phase, !.result = (phase = "succeeded"),
                        !.error = error, !.finished = b.acquired]

Finished(b, phase, error, t) ==
    [Unleased(b) EXCEPT !.phase = phase, !.result = (phase = "succeeded"),
                        !.error = error, !.finished = t]

\* Mutants of Recovered: one retry too many; the lease fields left in place.
RecoveredOnceMore(b, t) ==
    IF b.recovery + 1 > MaxRecovery
      THEN [Unleased(b) EXCEPT !.phase = "failed", !.recovery = @ + 1,
                               !.error = Exhausted, !.finished = t]
      ELSE [Unleased(b) EXCEPT !.phase = "queued", !.recovery = @ + 1]

RecoveredLeased(b, t) ==
    IF b.recovery + 1 >= MaxRecovery
      THEN [Unleased(b) EXCEPT !.phase = "failed", !.recovery = @ + 1,
                               !.error = Exhausted, !.finished = t]
      ELSE [b EXCEPT !.phase = "queued", !.recovery = @ + 1]

Recovered(b, t) ==
    IF b.recovery + 1 >= MaxRecovery
      THEN [Unleased(b) EXCEPT !.phase = "failed", !.recovery = @ + 1,
                               !.error = Exhausted, !.finished = t]
      ELSE [Unleased(b) EXCEPT !.phase = "queued", !.recovery = @ + 1]
-----------------------------------------------------------------------------
(* Selection.                                                              *)

\* Mutant of EffectivePriority: no aging.
EffectivePriorityUnaged(j, t) == PriorityOf[j]

\* effective_priority_level: one level per waited interval, capped at interactive.
EffectivePriority(j, t) ==
    LET waited == IF t > jobs[j].queued THEN t - jobs[j].queued ELSE 0
        level == PriorityOf[j] + (waited \div AgingInterval)
    IN  IF level > 2 THEN 2 ELSE level

\* job_order_key: higher effective priority, then older, then smaller id.
Before(i, j, t) ==
    LET p == EffectivePriority(i, t)
        q == EffectivePriority(j, t)
    IN  \/ p > q
        \/ p = q /\ jobs[i].queued < jobs[j].queued
        \/ p = q /\ jobs[i].queued = jobs[j].queued /\ i < j

Queued(s) == {j \in Job : ScopeOf[j] = s /\ jobs[j].phase = "queued"}

\* Mutant of Expired: the expiry is recomputed from the grant, renewals ignored.
ExpiredUnrenewed(s, t) == {j \in Job : /\ ScopeOf[j] = s
                                       /\ jobs[j].phase \in Active
                                       /\ jobs[j].acquired + LeaseDuration <= t}

Expired(s, t) == {j \in Job : /\ ScopeOf[j] = s
                              /\ jobs[j].phase \in Active
                              /\ jobs[j].expires <= t}

\* The rows of S a SELECT ... FOR UPDATE SKIP LOCKED returns: some may be locked
\* by other transactions in flight.  The in-memory store has no such gap.
Lockable(S) == IF SkipLocked THEN SUBSET S ELSE {S}
-----------------------------------------------------------------------------
Init ==
    /\ clock = 1
    /\ jobs = [j \in Job |-> AbsentRow]
    /\ worker = [w \in Worker |-> Idle]
    /\ author = [j \in Job |-> NoWorker]
    /\ pauses = [j \in Job |-> 0]

Tick ==
    /\ clock <= MaxTime
    /\ clock' = clock + 1
    /\ UNCHANGED <<jobs, worker, author, pauses>>

\* One row is rewritten, if the new snapshot is valid.
Put(j, b) ==
    /\ ValidJob(b)
    /\ jobs' = [jobs EXCEPT ![j] = b]

\* Supervisor.enqueue: the client stamped queued_at when it built the job.
Enqueue(j) ==
    /\ jobs[j].phase = "absent"
    /\ \E t \in 1..clock :
        Put(j, [AbsentRow EXCEPT !.phase = "queued", !.queued = t])
    /\ UNCHANGED <<clock, worker, author, pauses>>

\* Supervisor.lease_next, first transaction: recover what had expired at t.
RecoverExpired(w) ==
    /\ worker[w].pc = "idle"
    /\ \E t \in 1..clock :
        \E S \in Lockable(Expired(SweepScope[w], t)) :
            /\ \A j \in S : ValidJob(Recovered(jobs[j], t))
            /\ jobs' = [j \in Job |-> IF j \in S THEN Recovered(jobs[j], t) ELSE jobs[j]]
            /\ worker' = [worker EXCEPT ![w].pc = "swept", ![w].read = t]
    /\ UNCHANGED <<clock, author, pauses>>

\* Second transaction, judged by the same time: take the first queued job.
LeaseNext(w) ==
    /\ worker[w].pc = "swept"
    /\ \E S \in Lockable(Queued(SweepScope[w])) : \E j \in S :
        LET t == worker[w].read
            b == Leased(jobs[j], OwnerOf[w], t)
        IN  /\ \A i \in S \ {j} : Before(j, i, t)
            /\ Put(j, b)
            /\ worker' = [worker EXCEPT ![w] =
                    [pc |-> "holding", read |-> clock, job |-> j,
                     generation |-> b.generation, expires |-> b.expires]]
            /\ author' = [author EXCEPT ![j] = w]
    /\ UNCHANGED <<clock, pauses>>

\* The second transaction found nothing to lease, or the worker gives up: it was
\* refused, its task was cancelled, or its process died.  The ledger is not told.
Abandon(w) ==
    /\ worker[w].pc # "idle"
    /\ worker' = [worker EXCEPT ![w] = Idle]
    /\ UNCHANGED <<clock, jobs, author, pauses>>
-----------------------------------------------------------------------------
(* Calls under a lease.                                                    *)

\* Mutant of Owns: the owner's name is taken for the lease.
OwnsByName(w, t) ==
    LET b == jobs[worker[w].job]
    IN  b.phase \in Active /\ b.owner = OwnerOf[w] /\ b.expires > t

\* _require_owned_lease: the row still has the caller's lease, live at time t.
Owns(w, t) ==
    LET b == jobs[worker[w].job]
    IN  /\ b.phase \in Active
        /\ b.owner = OwnerOf[w] /\ b.generation = worker[w].generation
        /\ b.expires > t

\* The caller writes b over the row it leased and keeps the snapshot returned.
OwnerPut(w, b) ==
    /\ Put(worker[w].job, b)
    /\ worker' = [worker EXCEPT ![w].read = clock, ![w].expires = b.expires]
    /\ author' = [author EXCEPT ![worker[w].job] = w]
    /\ UNCHANGED clock

\* Supervisor.start
MarkRunning(w) ==
    /\ worker[w].pc = "holding"
    /\ \E t \in worker[w].read..clock :
        /\ Owns(w, t) /\ jobs[worker[w].job].phase = "leased"
        /\ OwnerPut(w, Running(jobs[worker[w].job], t))
    /\ UNCHANGED pauses

\* Supervisor.heartbeat: only ever moves the expiry forward.
RenewLease(w) ==
    /\ worker[w].pc = "holding"
    /\ \E t \in worker[w].read..clock :
        /\ Owns(w, t) /\ t + LeaseDuration > jobs[worker[w].job].expires
        /\ OwnerPut(w, Renewed(jobs[worker[w].job], t))
    /\ UNCHANGED pauses

Pause(w) ==
    /\ worker[w].pc = "holding"
    /\ pauses[worker[w].job] < MaxPauses
    /\ \E t \in worker[w].read..clock :
        /\ Owns(w, t) /\ jobs[worker[w].job].phase = "running"
        /\ OwnerPut(w, Paused(jobs[worker[w].job]))
    /\ pauses' = [pauses EXCEPT ![worker[w].job] = @ + 1]

Succeed(w) ==
    /\ worker[w].pc = "holding"
    /\ \E t \in worker[w].read..clock :
        /\ Owns(w, t) /\ jobs[worker[w].job].phase = "running"
        /\ OwnerPut(w, Finished(jobs[worker[w].job], "succeeded", NoError, t))
    /\ UNCHANGED pauses

\* A leased job may fail without ever having started.
Fail(w) ==
    /\ worker[w].pc = "holding"
    /\ \E t \in worker[w].read..clock :
        /\ Owns(w, t)
        /\ OwnerPut(w, Finished(jobs[worker[w].job], "failed", WorkerError, t))
    /\ UNCHANGED pauses

\* cancel_owned: a running job must bring a checkpoint, a leased one may.
CancelOwned(w) ==
    /\ worker[w].pc = "holding"
    /\ \E t \in worker[w].read..clock, checkpoint \in BOOLEAN :
        LET b == jobs[worker[w].job]
        IN  /\ Owns(w, t)
            /\ b.phase = "running" => checkpoint
            /\ OwnerPut(w, Finished([b EXCEPT !.checkpoint = @ \/ checkpoint],
                                    "cancelled", NoError, t))
    /\ UNCHANGED pauses
-----------------------------------------------------------------------------
(* Calls of clients, who hold no lease.                                    *)

Resume(j) ==
    /\ jobs[j].phase = "paused"
    /\ Put(j, Resumed(jobs[j]))
    /\ UNCHANGED <<clock, worker, author, pauses>>

CancelWaiting(j) ==
    /\ jobs[j].phase \in {"queued", "paused"}
    /\ \E t \in 1..clock : Put(j, Finished(jobs[j], "cancelled", NoError, t))
    /\ UNCHANGED <<clock, worker, author, pauses>>

OwnerCall(w) ==
    \/ MarkRunning(w) \/ RenewLease(w) \/ Pause(w)
    \/ Succeed(w) \/ Fail(w) \/ CancelOwned(w)

Next ==
    \/ Tick
    \/ \E j \in Job : Enqueue(j) \/ Resume(j) \/ CancelWaiting(j)
    \/ \E w \in Worker : RecoverExpired(w) \/ LeaseNext(w) \/ Abandon(w) \/ OwnerCall(w)

Spec == Init /\ [][Next]_vars
-----------------------------------------------------------------------------
(* Properties.                                                             *)

\* Every lease the ledger ever granted is accounted for exactly once: it was
\* paused, or recovered, or is live, or is the one the job ended under.  A lost or
\* doubled recovery would let a job be retried for ever, or die too early.
LeaseAccounting ==
    \A j \in Job :
        LET b == jobs[j]
            closed == b.recovery + pauses[j]
        IN  /\ b.dispatch = b.generation
            /\ b.phase \in {"absent", "queued", "paused"} => b.generation = closed
            /\ b.phase \in Active \cup {"succeeded"} => b.generation = closed + 1
            /\ b.phase = "failed" =>
                    b.generation = IF b.error = Exhausted THEN closed ELSE closed + 1
            /\ b.phase = "cancelled" => b.generation \in {closed, closed + 1}
            /\ b.error = Exhausted <=> b.recovery = MaxRecovery

\* A generation is given to one worker only, even when workers share an owner
\* name: nobody else can pass Owns with a snapshot of the same lease.
TokenUnique ==
    \A v, w \in Worker :
        /\ worker[v].pc = "holding" /\ worker[w].pc = "holding"
        /\ worker[v].job = worker[w].job
        /\ worker[v].generation = worker[w].generation
        => v = w

\* Until the expiry its snapshot shows, a worker's job is not taken away: neither a
\* sweep with an old reading of the clock nor a client can end a live lease.
NoStealBeforeExpiry ==
    \A w \in Worker :
        worker[w].pc = "holding" /\ clock < worker[w].expires =>
            LET b == jobs[worker[w].job]
            IN  /\ b.phase \in Active
                /\ b.generation = worker[w].generation
                /\ b.owner = OwnerOf[w]

\* No row can wedge its scope: validate_job accepts the recovery of every expired
\* lease and the lease of every queued job at the present time.  One refusal would
\* roll back the whole sweep of the tenant, again on every retry.
LedgerNeverWedged ==
    \A j \in Job :
        /\ jobs[j].phase \in Active /\ jobs[j].expires <= clock =>
                ValidJob(Recovered(jobs[j], clock))
        /\ jobs[j].phase = "queued" =>
                \A o \in Owner : ValidJob(Leased(jobs[j], o, clock))

\* A worker whose lease is live is never refused by validate_job, at any time it
\* may have read: the fencing checks are the only way to lose a finished result.
OwnerNeverRefused ==
    \A w \in Worker :
        worker[w].pc = "holding" =>
            \A t \in worker[w].read..clock :
                Owns(w, t) =>
                    LET b == jobs[worker[w].job]
                    IN  /\ ValidJob(Finished(b, "failed", WorkerError, t))
                        /\ b.phase = "leased" => ValidJob(Running(b, t))
                        /\ b.phase = "running" =>
                                /\ ValidJob(Paused(b))
                                /\ ValidJob(Finished(b, "succeeded", NoError, t))

\* Fencing: between two leases of a job every write made under a lease is by the
\* same worker.  A worker that lost its lease never writes over its successor.
FencedWrites ==
    [][\A j \in Job : author'[j] # author[j] =>
            jobs'[j].generation = jobs[j].generation + 1]_vars

\* Aging: a job that has waited two intervals is overtaken only by older ones.
AgedFirst ==
    [][\A i, j \in Job :
        /\ ScopeOf[i] = ScopeOf[j]
        /\ jobs[j].phase = "queued" /\ jobs'[j].phase = "leased"
        /\ jobs[i].phase = "queued"
        /\ jobs'[j].acquired - jobs[i].queued >= 2 * AgingInterval
        => jobs[j].queued <= jobs[i].queued]_vars

\* The store honours the transition rules of contracts/agents.py on every step:
\* the assertions its transactions run on old and new snapshot never fail.
ContractEntry ==
    [j \in Job |-> [phase |-> jobs[j].phase,
                    dispatch |-> jobs[j].dispatch,
                    generation |-> jobs[j].generation,
                    recovery |-> jobs[j].recovery,
                    started |-> jobs[j].started,
                    checkpoint |-> jobs[j].checkpoint,
                    error |-> jobs[j].error]]
Contract == INSTANCE JobContract WITH entry <- ContractEntry
ContractHonoured == Contract!Spec
=============================================================================
