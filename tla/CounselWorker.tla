--------------------------- MODULE CounselWorker ---------------------------
(***************************************************************************)
(* One counsel_pack job and the executions that run it                     *)
(* (composition/counsel/worker.py over the graph of graph.py): lease, the  *)
(* start of the job and of its run, a LangGraph thread resumed from its    *)
(* last checkpoint, one draft per student, the steps, the pack, succeed.   *)
(*                                                                         *)
(* Each call into a store is one action.  The ledger refuses stale         *)
(* executions (the fencing JobStore models in full); the draft, step, pack *)
(* and checkpoint stores do not look at the lease.  An execution may crash *)
(* between any two calls, and does not renew its lease: it may outlive it  *)
(* while another execution resumes the same thread.  Students are numbered *)
(* in the order sorted(bundle.contexts) gives them.                        *)
(***************************************************************************)
EXTENDS Integers, Sequences, FiniteSets

CONSTANTS
    Worker,        \* executions: drain slots and inline requests
    Students,      \* how many students the bundle names
    MaxRecovery,   \* max_recovery_attempts of the job
    Circuit,       \* counsel_llm_failure_circuit
    Outlives,      \* whether a lease may expire under a live execution
    MaxResumes     \* bound: how often an operator resumes the job

ASSUME WorkerAssumption ==
    /\ Students \in Nat \ {0}
    /\ MaxRecovery \in Nat \ {0}
    /\ Circuit \in Nat \ {0, 1}
    /\ Outlives \in BOOLEAN
    /\ MaxResumes \in Nat

VARIABLES
    job,          \* the ledger's row
    live,         \* the lease in the row has not expired
    bundle,       \* the context bundle resolves
    run,          \* the AI_RUN row exists
    checkpoint,   \* the latest checkpoint of the thread, keyed by job_id
    drafts,       \* DRAFT rows of the job in insertion order: the student of each
    steps,        \* steps[n]: outcomes of the AGENT_STEP rows with seq n - 1
    pack,         \* the set of the COUNSEL_PACK_RESULT row, empty or one
    exec,         \* what each execution holds in memory
    resumes       \* how often an operator resumed the job

vars == <<job, live, bundle, run, checkpoint, drafts, steps, pack, exec, resumes>>
stores == <<bundle, run, checkpoint, drafts, steps, pack>>

Active == {"leased", "running"}
Terminal == {"succeeded", "failed"}
Status == {"generated", "failed"}
NoDraft == 0
\* A student's result points to its draft row, if one was generated.
Result == [status: Status, draft: Nat]

\* plan: the execution whose planner call chose the emphasis, 0 for no emphasis.
Thread == [plan: Nat, results: Seq(Result), summary: BOOLEAN]
NewThread == [plan |-> 0, results |-> <<>>, summary |-> FALSE]

\* created: _store_pack stamps started_at, or queued_at if its snapshot has none.
Pack == [created: {"queued_at", "started_at"}, plan: Nat, results: Seq(Result)]

InGraph == {"planning", "student", "summarizing"}
Executing == {"leased", "started", "begun", "listing", "recording", "packing",
           "succeeding"} \cup InGraph
PC == {"idle", "failing", "pausing"} \cup Executing
Cause == {"none", "refused", "store", "conflict", "missing", "fail_refused"}
Error == {"none", "worker_internal_error", "counsel_context_bundle_missing",
          "worker_recovery_exhausted"}

\* generation and started are of the snapshot lease_next returned; state, done and
\* saved are the thread as the graph has it, its super-steps run and checkpointed;
\* streak is the closure's consecutive["llm_failed"]; seen the recorded seqs.
Exec == [pc: PC, generation: Nat, started: BOOLEAN, state: Thread, done: Nat,
         saved: Nat, streak: Nat, seen: SUBSET (1..Students), seq: Nat, cause: Cause]
Idle == [pc |-> "idle", generation |-> 0, started |-> FALSE, state |-> NewThread,
         done |-> 0, saved |-> 0, streak |-> 0, seen |-> {}, seq |-> 1,
         cause |-> "none"]

TypeOK ==
    /\ job \in [phase: {"queued", "paused"} \cup Active \cup Terminal, generation: Nat,
                recovery: 0..MaxRecovery, started: BOOLEAN, error: Error]
    /\ live \in BOOLEAN /\ bundle \in BOOLEAN /\ run \in BOOLEAN
    /\ checkpoint \in Thread
    /\ drafts \in Seq(1..Students)
    /\ steps \in [1..Students -> Seq(Status)]
    /\ pack \in SUBSET Pack
    /\ exec \in [Worker -> Exec]
    /\ resumes \in 0..MaxResumes
-----------------------------------------------------------------------------
Init ==
    /\ job = [phase |-> "queued", generation |-> 0, recovery |-> 0,
              started |-> FALSE, error |-> "none"]
    /\ live = FALSE
    /\ bundle \in BOOLEAN
    /\ run = FALSE
    /\ checkpoint = NewThread
    /\ drafts = <<>>
    /\ steps = [n \in 1..Students |-> <<>>]
    /\ pack = {}
    /\ exec = [w \in Worker |-> Idle]
    /\ resumes = 0

\* The ledger accepts a call of w.
Owns(w) == job.phase \in Active /\ live /\ job.generation = exec[w].generation

Goto(w, pc) == exec' = [exec EXCEPT ![w].pc = pc]

\* _run_guarded catches the exception; _fail reports it to the ledger.
Raise(w, cause) ==
    /\ exec' = [exec EXCEPT ![w].pc = "failing", ![w].cause = cause]
    /\ UNCHANGED <<job, live, stores, resumes>>

\* run_next returns, or raises cause into the drain's sweep.
Leave(w, cause) == exec' = [exec EXCEPT ![w] = [Idle EXCEPT !.cause = cause]]
-----------------------------------------------------------------------------
(* The ledger around the executions.                                       *)

\* Time passes the lease's expiry.  Without Outlives it does so only when the
\* execution that took the lease is gone.
Expire ==
    /\ job.phase \in Active /\ live
    /\ Outlives \/ \A w \in Worker :
            exec[w].pc = "idle" \/ exec[w].generation # job.generation
    /\ live' = FALSE
    /\ UNCHANGED <<job, stores, exec, resumes>>

\* Mutants of RecoverExpired: one retry too many; running jobs forgotten.
RecoverOnceMore(w) ==
    /\ exec[w].pc = "idle"
    /\ job.phase \in Active /\ ~live
    /\ job' = [job EXCEPT !.phase = IF job.recovery + 1 > MaxRecovery THEN "failed" ELSE "queued",
                          !.recovery = @ + 1]
    /\ UNCHANGED <<live, stores, exec, resumes>>

RecoverLeasedOnly(w) ==
    /\ exec[w].pc = "idle"
    /\ job.phase = "leased" /\ ~live
    /\ job' = [job EXCEPT !.phase = IF job.recovery + 1 >= MaxRecovery THEN "failed" ELSE "queued",
                          !.recovery = @ + 1]
    /\ UNCHANGED <<live, stores, exec, resumes>>

\* recover_expired, which every lease_next of a drain runs first.
RecoverExpired(w) ==
    /\ exec[w].pc = "idle"
    /\ job.phase \in Active /\ ~live
    /\ job' = IF job.recovery + 1 >= MaxRecovery
                THEN [job EXCEPT !.phase = "failed", !.recovery = @ + 1,
                                 !.error = "worker_recovery_exhausted"]
                ELSE [job EXCEPT !.phase = "queued", !.recovery = @ + 1]
    /\ UNCHANGED <<live, stores, exec, resumes>>

LeaseNext(w) ==
    /\ exec[w].pc = "idle"
    /\ job.phase = "queued"
    /\ job' = [job EXCEPT !.phase = "leased", !.generation = @ + 1]
    /\ live' = TRUE
    /\ exec' = [exec EXCEPT ![w] = [Idle EXCEPT !.pc = "leased",
                                                !.generation = job.generation + 1,
                                                !.started = job.started]]
    /\ UNCHANGED <<stores, resumes>>

\* Supervisor.resume, by an operator: drains leave paused jobs alone.
Resume ==
    /\ job.phase = "paused" /\ resumes < MaxResumes
    /\ job' = [job EXCEPT !.phase = "queued"]
    /\ resumes' = resumes + 1
    /\ UNCHANGED <<live, stores, exec>>
-----------------------------------------------------------------------------
(* One execution, call by call.                                            *)

\* contexts.get and Supervisor.start.  What start returns is dropped: the snapshot
\* of the lease is kept for the whole execution.
Start(w) ==
    /\ exec[w].pc = "leased"
    /\ bundle /\ Owns(w)
    /\ job' = [job EXCEPT !.phase = "running", !.started = TRUE]
    /\ Goto(w, "started")
    /\ UNCHANGED <<live, stores, resumes>>

BundleMissing(w) == exec[w].pc = "leased" /\ ~bundle /\ Raise(w, "missing")

StartRefused(w) == exec[w].pc = "leased" /\ bundle /\ ~Owns(w) /\ Raise(w, "refused")

\* begin_run: an upsert of the row the drafts refer to.
BeginRun(w) ==
    /\ exec[w].pc = "started"
    /\ run' = TRUE
    /\ Goto(w, "begun")
    /\ UNCHANGED <<job, live, bundle, checkpoint, drafts, steps, pack, resumes>>

\* Mutant of NextNode: the pack is stored before the steps.
NextNodePackFirst(s) ==
    CASE s.summary -> "packing"
      [] ~s.summary /\ Len(s.results) = Students -> "summarizing"
      [] OTHER -> "student"

\* Where a thread stands: the node that runs next, and the super-steps behind it.
NextNode(s) ==
    CASE s.summary -> "listing"
      [] ~s.summary /\ Len(s.results) = Students -> "summarizing"
      [] OTHER -> "student"

\* Mutant of LoadThread: the initial state is put in although a checkpoint exists.
LoadThreadAfresh(w) ==
    /\ exec[w].pc = "begun"
    /\ exec' = [exec EXCEPT ![w].pc = "planning"]
    /\ UNCHANGED <<job, live, stores, resumes>>

\* _resume_input: a checkpoint whose cursor moved is resumed behind it.  Otherwise
\* the initial state is put in and the plan node runs over what the thread holds.
LoadThread(w) ==
    /\ exec[w].pc = "begun"
    /\ LET n == Len(checkpoint.results)
           k == IF n = 0 THEN 0 ELSE n + 1 + (IF checkpoint.summary THEN 1 ELSE 0)
       IN  exec' = [exec EXCEPT ![w].pc = IF n = 0 THEN "planning" ELSE NextNode(checkpoint),
                                ![w].state = checkpoint, ![w].done = k, ![w].saved = k]
    /\ UNCHANGED <<job, live, stores, resumes>>

\* A super-step ends with state s and the given count of consecutive LLM failures;
\* its checkpoint is written afterwards.
SuperStep(w, s, streak) ==
    /\ exec' = [exec EXCEPT ![w].pc = NextNode(s), ![w].state = s,
                            ![w].done = @ + 1, ![w].streak = streak]
    /\ UNCHANGED <<job, live, resumes>>

\* plan: emphasis that is already there is kept; a failed call leaves none.
Plan(w) ==
    /\ exec[w].pc = "planning"
    /\ LET old == exec[w].state
       IN  \E p \in IF old.plan = 0 THEN {0, exec[w].generation} ELSE {old.plan} :
               SuperStep(w, [old EXCEPT !.plan = p], 0)
    /\ UNCHANGED stores

\* _record: the cursor and the results move together.
Recorded(s, status, draft) ==
    [s EXCEPT !.results = Append(@, [status |-> status, draft |-> draft])]

\* Mutant of StudentGenerated: the node returns an id whose row was not put.
StudentGeneratedUnput(w) ==
    /\ exec[w].pc = "student"
    /\ SuperStep(w, Recorded(exec[w].state, "generated", Len(drafts) + 1), 0)
    /\ UNCHANGED stores

\* student, the draft passed its gate: the row is put under a new id inside the
\* node, before the super-step's checkpoint.
StudentGenerated(w) ==
    /\ exec[w].pc = "student"
    /\ drafts' = Append(drafts, Len(exec[w].state.results) + 1)
    /\ SuperStep(w, Recorded(exec[w].state, "generated", Len(drafts')), 0)
    /\ UNCHANGED <<bundle, run, checkpoint, steps, pack>>

\* No draft: the gate refused every attempt, redaction blocked the first prompt, or
\* the LLM failed.  An answer of the LLM resets the count of failures.
StudentFailed(w) ==
    /\ exec[w].pc = "student"
    /\ \E streak \in {0, 1, exec[w].streak, exec[w].streak + 1} :
        /\ streak < Circuit
        /\ SuperStep(w, Recorded(exec[w].state, "failed", NoDraft), streak)
    /\ UNCHANGED stores

\* Too many students in a row lost to the LLM: LlmCircuitOpenError.
CircuitOpens(w) ==
    /\ exec[w].pc = "student"
    /\ exec[w].streak + 1 >= Circuit
    /\ Goto(w, "pausing")
    /\ UNCHANGED <<job, live, stores, resumes>>

Summarize(w) ==
    /\ exec[w].pc = "summarizing"
    /\ SuperStep(w, [exec[w].state EXCEPT !.summary = TRUE], exec[w].streak)
    /\ UNCHANGED stores

\* The checkpointer writes super-steps in order, in the background; ainvoke does
\* not return, or raise, before the last one is written.
Snapshot(s, k) ==
    [plan |-> s.plan, summary |-> k = Students + 2,
     results |-> SubSeq(s.results, 1, IF k = Students + 2 THEN Students ELSE k - 1)]
SaveCheckpoint(w) ==
    /\ exec[w].saved < exec[w].done
    /\ checkpoint' = Snapshot(exec[w].state, exec[w].saved + 1)
    /\ exec' = [exec EXCEPT ![w].saved = @ + 1]
    /\ UNCHANGED <<job, live, bundle, run, drafts, steps, pack, resumes>>
Flushed(w) == exec[w].saved = exec[w].done

\* Mutant of ListSteps: a resumed execution does not look what is recorded.
ListStepsNone(w) ==
    /\ exec[w].pc = "listing" /\ Flushed(w)
    /\ exec' = [exec EXCEPT ![w].pc = "recording", ![w].seq = 1]
    /\ UNCHANGED <<job, live, stores, resumes>>

\* The ledger of steps: the seqs recorded so far are read once, then the missing
\* ones are inserted; no index refuses a second row of a seq.
ListSteps(w) ==
    /\ exec[w].pc = "listing" /\ Flushed(w)
    /\ exec' = [exec EXCEPT ![w].pc = "recording", ![w].seq = 1,
                            ![w].seen = {n \in 1..Students : steps[n] # <<>>}]
    /\ UNCHANGED <<job, live, stores, resumes>>

\* Mutant of RecordStep: succeed comes before the pack.
RecordStepNoPack(w) ==
    LET n == exec[w].seq
    IN  /\ exec[w].pc = "recording"
        /\ steps' = IF n \in exec[w].seen THEN steps
                    ELSE [steps EXCEPT ![n] = Append(@, exec[w].state.results[n].status)]
        /\ exec' = [exec EXCEPT ![w].seq = @ + 1,
                                ![w].pc = IF n = Students THEN "succeeding" ELSE @]
        /\ UNCHANGED <<job, live, bundle, run, checkpoint, drafts, pack, resumes>>

RecordStep(w) ==
    LET n == exec[w].seq
    IN  /\ exec[w].pc = "recording"
        /\ steps' = IF n \in exec[w].seen THEN steps
                    ELSE [steps EXCEPT ![n] = Append(@, exec[w].state.results[n].status)]
        /\ exec' = [exec EXCEPT ![w].seq = @ + 1,
                                ![w].pc = IF n = Students THEN "packing" ELSE @]
        /\ UNCHANGED <<job, live, bundle, run, checkpoint, drafts, pack, resumes>>

\* _store_pack: the record this execution makes of the thread.
PackOf(w) == [created |-> IF exec[w].started THEN "started_at" ELSE "queued_at",
              plan |-> exec[w].state.plan, results |-> exec[w].state.results]

\* Mutant of StorePack: an upsert.
StorePackUpsert(w) ==
    /\ exec[w].pc = "packing"
    /\ pack' = {PackOf(w)}
    /\ Goto(w, "succeeding")
    /\ UNCHANGED <<job, live, bundle, run, checkpoint, drafts, steps, resumes>>

StorePack(w) ==
    /\ exec[w].pc = "packing"
    /\ pack \subseteq {PackOf(w)}
    /\ pack' = {PackOf(w)}
    /\ Goto(w, "succeeding")
    /\ UNCHANGED <<job, live, bundle, run, checkpoint, drafts, steps, resumes>>

\* PackResultConflict: the row of this job holds another record.
PackConflict(w) ==
    exec[w].pc = "packing" /\ ~(pack \subseteq {PackOf(w)}) /\ Raise(w, "conflict")

Succeed(w) ==
    /\ exec[w].pc = "succeeding" /\ Owns(w)
    /\ job' = [job EXCEPT !.phase = "succeeded"]
    /\ Leave(w, "none")
    /\ UNCHANGED <<live, stores, resumes>>

SucceedRefused(w) == exec[w].pc = "succeeding" /\ ~Owns(w) /\ Raise(w, "refused")

\* Any call of an execution may raise: a store is down, a session is lost.
StoreFails(w) == exec[w].pc \in Executing /\ Raise(w, "store")

\* _fail: the job ends, unless the ledger refuses that too.  The inner handler's
\* bare raise then lets the refusal out, not the exception that led here.
Fail(w) ==
    /\ exec[w].pc = "failing" /\ Flushed(w) /\ Owns(w)
    /\ job' = [job EXCEPT !.phase = "failed",
                          !.error = IF exec[w].cause = "missing"
                                      THEN "counsel_context_bundle_missing"
                                      ELSE "worker_internal_error"]
    /\ Leave(w, "none")
    /\ UNCHANGED <<live, stores, resumes>>

FailRefused(w) ==
    /\ exec[w].pc = "failing" /\ Flushed(w) /\ ~Owns(w)
    /\ Leave(w, "fail_refused")
    /\ UNCHANGED <<job, live, stores, resumes>>

\* An open circuit pauses the job; a refusal goes straight to the sweep.
Pause(w) ==
    /\ exec[w].pc = "pausing" /\ Flushed(w) /\ Owns(w)
    /\ job' = [job EXCEPT !.phase = "paused"]
    /\ Leave(w, "none")
    /\ UNCHANGED <<live, stores, resumes>>

PauseRefused(w) ==
    /\ exec[w].pc = "pausing" /\ Flushed(w) /\ ~Owns(w)
    /\ Leave(w, "refused")
    /\ UNCHANGED <<job, live, stores, resumes>>

\* The process dies, or its task is cancelled: nothing is caught.
Crash(w) ==
    /\ exec[w].pc # "idle"
    /\ exec' = [exec EXCEPT ![w] = Idle]
    /\ UNCHANGED <<job, live, stores, resumes>>
-----------------------------------------------------------------------------
Graph(w) ==
    \/ LoadThread(w) \/ Plan(w) \/ StudentGenerated(w) \/ StudentFailed(w)
    \/ CircuitOpens(w) \/ Summarize(w) \/ SaveCheckpoint(w)

\* What an execution does when nothing breaks.
Step(w) ==
    \/ Start(w) \/ BundleMissing(w) \/ StartRefused(w) \/ BeginRun(w) \/ Graph(w)
    \/ ListSteps(w) \/ RecordStep(w) \/ StorePack(w) \/ PackConflict(w)
    \/ Succeed(w) \/ SucceedRefused(w)
    \/ Fail(w) \/ FailRefused(w) \/ Pause(w) \/ PauseRefused(w)

Drain(w) == RecoverExpired(w) \/ LeaseNext(w)

Next ==
    \/ Expire \/ Resume
    \/ \E w \in Worker : Drain(w) \/ Step(w) \/ StoreFails(w) \/ Crash(w)

Spec == Init /\ [][Next]_vars

\* Time passes, an execution that is not killed goes on, and the drain keeps
\* sweeping; nothing makes an operator resume a job.
Fairness ==
    /\ WF_vars(Expire)
    /\ WF_vars(\E w \in Worker : Drain(w))
    /\ \A w \in Worker : WF_vars(Step(w))

FairSpec == Spec /\ Fairness
-----------------------------------------------------------------------------
(* Properties.                                                             *)

\* The drafts results point to are rows of their students.
Resolves(results) ==
    \A n \in 1..Len(results) :
        results[n].status = "generated" =>
            results[n].draft \in 1..Len(drafts) /\ drafts[results[n].draft] = n

\* A succeeded job has its pack, with a result for every student, every draft the pack
\* points to exists, and the steps of all students are there before it is published:
\* result_ref never leads a reader to less than the whole.
ResultReadable ==
    /\ job.phase = "succeeded" =>
        \E p \in pack : Len(p.results) = Students /\ Resolves(p.results)
    /\ pack # {} => \A n \in 1..Students : steps[n] # <<>>

\* Drafts are put before the checkpoint that names them and after their run's row:
\* whatever point a crash picks, a resumed thread and a pack name existing drafts.
NoDanglingDraft ==
    /\ Resolves(checkpoint.results) /\ \A p \in pack : Resolves(p.results)
    /\ drafts # <<>> => run

\* A published pack is never replaced, whichever execution retries it.
PackImmutable == [][pack # {} => pack' = pack]_vars

\* While no lease outlives its execution, each student has at most one step row,
\* and it tells the outcome the pack publishes.
StepsTellPack ==
    \A n \in 1..Students :
        /\ Len(steps[n]) <= 1
        /\ \A p \in pack : steps[n] = <<p.results[n].status>>

\* Resuming regenerates no student behind the checkpoint's cursor.
KeptWork ==
    [][drafts' # drafts => drafts'[Len(drafts')] > Len(checkpoint.results)]_vars

\* A job the drain can lease ends, or is left paused for an operator.
Settles == job.phase = "queued" ~> job.phase \in Terminal \cup {"paused"}

\* What the sources claim and the code does not do: see the findings.

\* worker.py: a retry of step 5 after a crash makes the same pack record.
RetrySameRecord ==
    \A w \in Worker :
        exec[w].pc = "packing" /\ exec[w].cause = "none" =>
            \A p \in pack : p.results = exec[w].state.results => p = PackOf(w)
=============================================================================
