--------------------------- MODULE ProblemService ---------------------------
(***************************************************************************)
(* The service around problem_generation jobs: POST and GET /v1/problems   *)
(* (api/routers/problem.py), and the drain of each process                 *)
(* (problem_generation/application/drain.py), which leases jobs of one     *)
(* tenant after the other.                                                 *)
(*                                                                         *)
(* A process is one event loop: what a handler or the drain does between   *)
(* two awaits is one action.  Requests and jobs are in PostgreSQL unless   *)
(* DiscoverLimit is 0, the in-memory backend, whose rows end with the      *)
(* process.  A process is stopped with a grace period, or killed, and      *)
(* started again.  What an execution does inside its lease is ProblemJob's *)
(* matter: here a job is held until it ends or is cut off.                 *)
(*                                                                         *)
(* The idempotency rows are left out.  A POST that finds one answers it    *)
(* and changes nothing; one that finds none, too old a one or an           *)
(* unreadable one makes a job, and every POST may be such a one.           *)
(***************************************************************************)
EXTENDS Integers, Sequences, FiniteSets

CONSTANTS
    Process,        \* application workers
    Tenants,        \* how many tenants, numbered in the order of their ids
    MaxJobs,        \* bound: jobs ever enqueued
    MaxPerCycle,    \* drain_max_jobs_per_cycle
    DiscoverLimit,  \* drain_tenants_per_sweep; 0 for the in-memory backend
    MaxRecovery,    \* max_recovery_attempts of a job
    MaxRaises,      \* bound: how often run_next raises and no job ends
    MaxStops        \* bound: how often a process is stopped or killed

ASSUME ServiceAssumption ==
    /\ Tenants \in Nat \ {0} /\ MaxJobs \in Nat /\ MaxPerCycle \in Nat \ {0}
    /\ DiscoverLimit \in Nat /\ MaxRecovery \in Nat \ {0}
    /\ MaxRaises \in Nat /\ MaxStops \in Nat
    \* The tables of the in-memory backend are one process's.
    /\ DiscoverLimit = 0 => \A p, q \in Process : p = q

VARIABLES
    jobs,      \* AGENT_RUN rows
    post,      \* the POST handler that enqueued a job
    views,     \* the _views of each process: the jobs it has an entry for
    drain,     \* the ProblemDrainLoop of each process
    raises,    \* failures so far, for the bound
    stops      \* stops so far, for the bound

vars == <<jobs, post, views, drain, raises, stops>>

Tenant == 1..Tenants
Job == 1..MaxJobs
Terminal == {"succeeded", "failed"}
Persistent == DiscoverLimit > 0

\* A job's row; holder is the process that has its lease, "lost" as long as the lease
\* of an execution that is gone lasts.
Row == [phase: {"absent", "queued", "leased"} \cup Terminal, tenant: Tenant,
        holder: Process \cup {"lost", "none"}, recovery: 0..MaxRecovery]
Absent == [phase |-> "absent", tenant |-> 1, holder |-> "none", recovery |-> 0]

\* at is the process the handler runs in.
Handler == [pc: {"none", "enqueued", "notified", "over"}, at: Process \cup {"none"}]
NoHandler == [pc |-> "none", at |-> "none"]
Over == [NoHandler EXCEPT !.pc = "over"]

InCycle == {"running", "job", "pause"}
Drain == [pc: {"down", "next", "discovering", "waiting"} \cup InCycle, queue: Seq(Tenant),
          scheduled: SUBSET Tenant, tenant: Tenant, processed: 0..MaxPerCycle,
          job: 0..MaxJobs, stop: BOOLEAN]
Down == [pc |-> "down", queue |-> <<>>, scheduled |-> {}, tenant |-> 1,
         processed |-> 0, job |-> 0, stop |-> FALSE]

TypeOK ==
    /\ jobs \in [Job -> Row]
    /\ post \in [Job -> Handler]
    /\ views \in [Process -> SUBSET Job]
    /\ drain \in [Process -> Drain]
    /\ raises \in 0..MaxRaises /\ stops \in 0..MaxStops

Init ==
    /\ jobs = [j \in Job |-> Absent]
    /\ post = [j \in Job |-> NoHandler]
    /\ views = [p \in Process |-> {}]
    /\ drain = [p \in Process |-> Down]
    /\ raises = 0 /\ stops = 0

Up(p) == drain[p].pc # "down"
-----------------------------------------------------------------------------
(* ProblemDrainLoop: its queue.                                            *)

\* notify_tenant: ignored when the drain is being stopped, or the tenant scheduled.
Notified(d, t) ==
    IF d.stop \/ t \in d.scheduled THEN d
    ELSE [d EXCEPT !.queue = Append(@, t), !.scheduled = @ \cup {t}]

\* Mutant of Taken: the tenant stays scheduled until its cycle ends.
TakenScheduled(d) ==
    [d EXCEPT !.pc = "running", !.tenant = Head(d.queue), !.queue = Tail(@),
              !.processed = 0]

\* _take_scheduled_tenant, and the clearing of cycle_done that follows it.
Taken(d) ==
    [d EXCEPT !.pc = "running", !.tenant = Head(d.queue), !.queue = Tail(@),
              !.scheduled = @ \ {Head(d.queue)}, !.processed = 0]

\* A cycle is over: the tenant may be scheduled anew, then the drain waits.
CycleEnds(d, again) ==
    [(IF again THEN Notified(d, d.tenant) ELSE d) EXCEPT !.pc = "pause", !.tenant = 1,
                                                         !.processed = 0, !.job = 0]

Expired(j) == jobs[j].phase = "leased" /\ jobs[j].holder = "none"

\* Mutant of Pending: jobs of dead executions are not looked for.
PendingQueued == {jobs[j].tenant : j \in {i \in Job : jobs[i].phase = "queued"}}

\* build_pending_problem_tenants_query: the first tenants with a job queued or whose
\* lease has expired.
Pending == {jobs[j].tenant : j \in {i \in Job : jobs[i].phase = "queued" \/ Expired(i)}}
Discovered == {t \in Pending : Cardinality({u \in Pending : u < t}) < DiscoverLimit}

\* The one way to line tenants up in the order of their ids.
Ordered(ts) ==
    {q \in [1..Cardinality(ts) -> ts] : \A i, j \in DOMAIN q : i < j => q[i] < q[j]}

\* The drain is notified of tenants, one after the other in the order of their ids.
NotifiedAll(d, ts) ==
    LET new == IF d.stop THEN {} ELSE ts \ d.scheduled
    IN  {[d EXCEPT !.queue = @ \o q, !.scheduled = @ \cup new] : q \in Ordered(new)}
-----------------------------------------------------------------------------
(* ProblemDrainLoop: _run.                                                 *)

Set(p, d) == drain' = [drain EXCEPT ![p] = d]
DrainOnly == UNCHANGED <<jobs, post, views, raises, stops>>

\* The startup of a process; it has no registration yet, so start runs once.
Startup(p) ==
    /\ drain[p].pc = "down"
    /\ Set(p, [Down EXCEPT !.pc = "next"])
    /\ DrainOnly

\* _run asks for the next tenant, or leaves its loop after a stop.
NextTenant(p) ==
    LET d == drain[p]
    IN  /\ d.pc = "next" /\ ~d.stop
        /\ Set(p, IF d.queue # <<>> THEN Taken(d)
                  ELSE [d EXCEPT !.pc = IF Persistent THEN "discovering" ELSE "waiting"])
        /\ DrainOnly

\* discover_tenants answers; an error is only logged.
Discover(p) ==
    LET d == drain[p]
    IN  /\ d.pc = "discovering"
        /\ \E found \in {Discovered, {}} : \E told \in NotifiedAll(d, found) :
            /\ found = {} => Discovered = {} \/ raises < MaxRaises
            /\ raises' = IF found = Discovered THEN raises ELSE raises + 1
            /\ Set(p, IF told.queue # <<>> THEN Taken(told) ELSE [told EXCEPT !.pc = "waiting"])
        /\ UNCHANGED <<jobs, post, views, stops>>

\* queue.get returns before the idle interval is over.
Woken(p) ==
    /\ drain[p].pc = "waiting" /\ drain[p].queue # <<>>
    /\ Set(p, Taken(drain[p]))
    /\ DrainOnly

\* The idle interval is over: the tenants are looked for again.
WaitTimesOut(p) ==
    /\ drain[p].pc = "waiting"
    /\ Set(p, [drain[p] EXCEPT !.pc = "next"])
    /\ DrainOnly

\* What lease_next makes of a tenant's jobs: those with an expired lease are queued
\* again or fail.
Swept(t) ==
    [j \in Job |->
        IF jobs[j].tenant = t /\ Expired(j)
          THEN [jobs[j] EXCEPT !.recovery = @ + 1,
                               !.phase = IF jobs[j].recovery + 1 >= MaxRecovery
                                           THEN "failed" ELSE "queued"]
          ELSE jobs[j]]

QueuedOf(rows, t) == {j \in Job : rows[j].tenant = t /\ rows[j].phase = "queued"}

\* Mutant of LeaseJob: the share of a cycle is exceeded by one.
LeaseJobOnceMore(p) ==
    LET d == drain[p]
        swept == Swept(d.tenant)
    IN  /\ d.pc = "running" /\ d.processed <= MaxPerCycle
        /\ \E j \in QueuedOf(swept, d.tenant) :
            /\ jobs' = [swept EXCEPT ![j] = [@ EXCEPT !.phase = "leased", !.holder = p]]
            /\ Set(p, [d EXCEPT !.pc = "job", !.job = j])
        /\ UNCHANGED <<post, views, raises, stops>>

\* drain_cycle calls run_next, which leases a job of the tenant.
LeaseJob(p) ==
    LET d == drain[p]
        swept == Swept(d.tenant)
    IN  /\ d.pc = "running" /\ d.processed < MaxPerCycle
        /\ \E j \in QueuedOf(swept, d.tenant) :
            /\ jobs' = [swept EXCEPT ![j] = [@ EXCEPT !.phase = "leased", !.holder = p]]
            /\ Set(p, [d EXCEPT !.pc = "job", !.job = j])
        /\ UNCHANGED <<post, views, raises, stops>>

\* drain_cycle returns: no job was left, or the cycle has had its share.
CycleDone(p) ==
    LET d == drain[p]
        swept == Swept(d.tenant)
    IN  /\ d.pc = "running"
        /\ \/ d.processed = MaxPerCycle /\ jobs' = jobs
           \/ d.processed < MaxPerCycle /\ QueuedOf(swept, d.tenant) = {} /\ jobs' = swept
        /\ Set(p, CycleEnds(d, d.processed = MaxPerCycle))
        /\ UNCHANGED <<post, views, raises, stops>>

\* run_next raises before it leases a job: a service is not wired, a store is down.
RunNextRaises(p) ==
    /\ drain[p].pc = "running" /\ drain[p].processed < MaxPerCycle /\ raises < MaxRaises
    /\ raises' = raises + 1
    /\ Set(p, CycleEnds(drain[p], TRUE))
    /\ UNCHANGED <<jobs, post, views, stops>>

\* The execution succeeds and the cycle goes on.
JobSucceeds(p) ==
    LET d == drain[p]
    IN  /\ d.pc = "job"
        /\ jobs' = [jobs EXCEPT ![d.job] = [@ EXCEPT !.phase = "succeeded", !.holder = "none"]]
        /\ Set(p, [d EXCEPT !.pc = "running", !.processed = @ + 1, !.job = 0])
        /\ UNCHANGED <<post, views, raises, stops>>

\* The execution raises: _run_guarded reports the failure, or is refused because the
\* lease is lost, and the exception ends the cycle.
JobFails(p) ==
    LET d == drain[p]
    IN  /\ d.pc = "job"
        /\ \/ /\ jobs' = [jobs EXCEPT ![d.job] = [@ EXCEPT !.phase = "failed", !.holder = "none"]]
              /\ UNCHANGED raises
           \/ /\ raises < MaxRaises
              /\ jobs' = [jobs EXCEPT ![d.job].holder = "lost"]
              /\ raises' = raises + 1
        /\ Set(p, CycleEnds(d, TRUE))
        /\ UNCHANGED <<post, views, stops>>

\* The lease of an execution that is gone runs out.
LeaseExpires(j) ==
    /\ jobs[j].holder = "lost"
    /\ jobs' = [jobs EXCEPT ![j].holder = "none"]
    /\ UNCHANGED <<post, views, drain, raises, stops>>

\* The interval between cycles, or the backoff, is over or cut short by a stop.
PauseEnds(p) ==
    /\ drain[p].pc = "pause"
    /\ Set(p, [drain[p] EXCEPT !.pc = "next"])
    /\ DrainOnly
-----------------------------------------------------------------------------
(* The end of a process.                                                   *)

\* What is left of the tables: the in-memory backend keeps nothing.
Survives(p) ==
    IF Persistent
      THEN jobs' = [j \in Job |-> IF jobs[j].holder = p THEN [jobs[j] EXCEPT !.holder = "lost"]
                                  ELSE jobs[j]]
      ELSE jobs' = [j \in Job |-> Absent]

Gone(p) ==
    /\ Survives(p)
    /\ Set(p, Down)
    /\ views' = [views EXCEPT ![p] = {}]
    /\ post' = [j \in Job |-> IF post[j].at = p THEN Over ELSE post[j]]
    /\ UNCHANGED raises

\* The process is killed.
Kill(p) ==
    /\ Up(p) /\ stops < MaxStops
    /\ stops' = stops + 1
    /\ Gone(p)

\* shutdown: the registration is dropped and the stop event set.
Shutdown(p) ==
    /\ Up(p) /\ ~drain[p].stop /\ stops < MaxStops
    /\ stops' = stops + 1
    /\ Set(p, [drain[p] EXCEPT !.stop = TRUE])
    /\ UNCHANGED <<jobs, post, views, raises>>

\* stop: outside of a cycle the task is cancelled at once, inside it when the cycle is
\* done or the grace period is over.
Stop(p) ==
    /\ drain[p].stop
    /\ Gone(p)
    /\ UNCHANGED stops
-----------------------------------------------------------------------------
(* POST and GET /v1/problems.                                              *)

\* post_problem, without a fresh idempotency row: the request is stored and a job inserted
\* under a new id.
Enqueue(p, t) ==
    LET new == {j \in Job : jobs[j].phase = "absent"}
    IN  /\ Up(p)
        /\ \E j \in new :
            /\ \A i \in new : j <= i
            /\ jobs' = [jobs EXCEPT ![j] = [Absent EXCEPT !.phase = "queued", !.tenant = t]]
            /\ post' = [post EXCEPT ![j] = [pc |-> "enqueued", at |-> p]]
        /\ UNCHANGED <<views, drain, raises, stops>>

\* Mutant of NotifyDrain: the drain finds the job when it next looks.
NotifyDrainLater(j) ==
    /\ post[j].pc = "enqueued"
    /\ views' = [views EXCEPT ![post[j].at] = @ \cup {j}]
    /\ post' = [post EXCEPT ![j].pc = "notified"]
    /\ UNCHANGED <<jobs, drain, raises, stops>>

\* enqueue returned: the drain is notified and the view kept.
NotifyDrain(j) ==
    /\ post[j].pc = "enqueued"
    /\ Set(post[j].at, Notified(drain[post[j].at], jobs[j].tenant))
    /\ views' = [views EXCEPT ![post[j].at] = @ \cup {j}]
    /\ post' = [post EXCEPT ![j].pc = "notified"]
    /\ UNCHANGED <<jobs, raises, stops>>

\* The row is stored, or lost, and the answer given all the same.
PutIdempotency(j) ==
    /\ post[j].pc = "notified"
    /\ post' = [post EXCEPT ![j] = Over]
    /\ UNCHANGED <<jobs, views, drain, raises, stops>>

\* get_problem: the job's row is read; without an entry in _views only the result of a
\* succeeded job is restored, from PostgreSQL.  Anything else is 404.
Found(p, j) == j \in views[p] \/ (Persistent /\ jobs[j].phase = "succeeded")

GetProblem(p, j) ==
    /\ Up(p) /\ post[j].pc = "over" /\ Found(p, j)
    /\ views' = [views EXCEPT ![p] = @ \cup {j}]
    /\ UNCHANGED <<jobs, post, drain, raises, stops>>
-----------------------------------------------------------------------------
Loop(p) ==
    \/ NextTenant(p) \/ Discover(p) \/ Woken(p) \/ WaitTimesOut(p) \/ LeaseJob(p)
    \/ CycleDone(p) \/ JobSucceeds(p) \/ JobFails(p) \/ PauseEnds(p)

Api(p) == (\E t \in Tenant : Enqueue(p, t)) \/ (\E j \in Job : GetProblem(p, j))

Post(j) == NotifyDrain(j) \/ PutIdempotency(j)

Next ==
    \/ \E p \in Process :
        Startup(p) \/ Loop(p) \/ RunNextRaises(p) \/ Kill(p) \/ Shutdown(p) \/ Stop(p) \/ Api(p)
    \/ \E j \in Job : Post(j) \/ LeaseExpires(j)

Spec == Init /\ [][Next]_vars

\* The containers are restarted unless stopped, a drain that is not killed goes on, its
\* calls being bounded by timeouts, and an execution does not run for ever.
Fairness ==
    /\ \A p \in Process : WF_vars(Startup(p)) /\ WF_vars(Loop(p)) /\ WF_vars(Stop(p))
    /\ \A j \in Job : WF_vars(LeaseExpires(j))

FairSpec == Spec /\ Fairness
-----------------------------------------------------------------------------
(* Properties.                                                             *)

\* The queue of a drain holds each scheduled tenant once, whatever interleaving of
\* notifications, discovery and cycles filled and emptied it: a tenant that was
\* scheduled but not queued would never be notified again.
QueueAgrees ==
    \A p \in Process :
        LET q == drain[p].queue
        IN  {q[i] : i \in DOMAIN q} = drain[p].scheduled /\ Len(q) = Cardinality(drain[p].scheduled)

\* A queued job its process was told of is not forgotten: its tenant is scheduled, or
\* its turn has not ended.  No discovery is needed for it, so this is what keeps the
\* in-memory backend going.  Only a job that another process's sweep queued again, after
\* its lease expired, is left for a discovery to find.
NoneForgotten ==
    \A p \in Process, j \in Job :
        /\ Up(p) /\ ~drain[p].stop
        /\ j \in views[p] /\ jobs[j].phase = "queued"
        /\ jobs[j].recovery = 0 \/ Process = {p}
        => \/ jobs[j].tenant \in drain[p].scheduled
           \/ drain[p].pc \in {"running", "job"} /\ drain[p].tenant = jobs[j].tenant

\* Every job ends, whatever is killed, stopped or raised in between, although only a
\* bounded number of tenants is discovered at a time and no later POST wakes the drain.
Settles == \A j \in Job : (jobs[j].phase = "queued") ~> (jobs[j].phase \in Terminal)
=============================================================================
