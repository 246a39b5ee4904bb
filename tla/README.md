# Check-On AI: the job ledger and its workers in TLA+

Check-On AI is a service (Python, FastAPI, SQLAlchemy, LangGraph) that drafts
counselling texts, generates exam problems, detects and diagnoses learning
signals and writes reports. Most of it is pure: a request, a computation over a
snapshot, one row. What is concurrent, long-running and has to survive crashes is
the **supervisor ledger**, the **workers** that run its jobs and the **requests**
that share rows with each other: polls and refines of a draft, revisions of an
exam item, the classification of an inquiry and its review. This directory
specifies those in TLA+, model-checks them with TLC on small instances and proves
their safety properties with TLAPS for every instance. Paths below are
relative to `src/src/ai/`.

## 1. Inventory

| Component | State | Operations | Interacts with | Module |
|---|---|---|---|---|
| Job contract (`contracts/agents.py`) | none: the rules of a `WorkerJob` | `validate_job`, `assert_job_transition`, `assert_expired_recovery`, `assert_paused_resume` | called by both stores on every write | `JobContract`, `JobStore` |
| Supervisor (`agents/supervisor.py`) | none; reads the clock | enqueue, lease_next (sweep, then lease), start, heartbeat, pause, resume, succeed, fail, cancel_waiting, cancel_owned | stores; called by routers, drains, runners | `JobStore` |
| Ledger stores (`db/repositories/agent_job.py`, `agents/job_store.py`) | one row per job: phase, lease, generation, recovery count, times, refs | one transaction per operation; `SKIP LOCKED` in PostgreSQL | supervisor | `JobStore` |
| Counsel worker (`composition/counsel/worker.py`) | per execution: the lease snapshot, the graph state, the recorded seqs | run_next: lease, start, begin_run, graph, steps, pack, succeed; `_fail`, pause | ledger, checkpointer, four stores | `CounselWorker` |
| Counsel graph (`composition/counsel/graph.py`, `state.py`) | LangGraph thread: emphasis, cursor, results, summary; a circuit counter per execution | plan, student (once per student), summarize | planner and writer (LLM), draft store, checkpointer | `CounselWorker` |
| Counsel stores (`db/repositories/pack_store.py`, `counsel_draft_store.py`, `counsel_step_store.py`, `agent_step_store.py`) | DRAFT, AGENT_STEP, COUNSEL_PACK_RESULT rows | insert, conflict check, reads by ref | graph, worker, API | `CounselWorker` |
| Counsel API (`api/routers/counsel.py`, `enqueue.py`, `identity.py`, `db/counsel_read_model.py`) | idempotency rows, job ids derived from the key, two stored snapshots and two caches per draft | POST, GET, refine | ledger, stores, LLM | `CounselDraft` |
| Counsel drain (`composition/counsel/drain.py`) | heartbeat counters | pending_tenants, sweep_once, drain_forever | counsel worker, ledger | as fairness |
| Problem drain (`problem_generation/application/drain.py`, `db/repositories/problem_job_queue.py`) | queue of tenants, scheduled set, stop event | start, notify_tenant, drain_cycle, discover, stop | problem runner, ledger, API | `ProblemService` |
| Problem API (`api/routers/problem.py`) | idempotency rows, the views of a process | POST and GET of a job; page and revisions of an item | enqueuer, drain, stores | `ProblemService`, `ProblemRevision` |
| Problem runner (`problem_generation/assembly.py`, `lease_heartbeat.py`) | an operation task and a heartbeat task | run_next, renew, produce, fail, succeed | ledger, workflow, result store | `ProblemJob` |
| Problem workflow (`problem_generation/application/workflow.py`) | LangGraph thread: slot cursor, attempts, fallback, difficulty regeneration | procure, begin_attempt, begin_difficulty_regen, run_attempt | generator, verifier (LLM), candidate, item and set stores | `ProblemJob` |
| Problem revisions (`refiner.py`, `db/repositories/problem_revision_store.py`) | item_revision rows, an advisory lock of the item | reserve, refine, append | API, LLM, execution ledger | `ProblemRevision` |
| Classification (`composition/classify/classifier.py`, `api/routers/classify.py`, `confirmations.py`, `db/repositories/inquiry_class_store.py`) | one INQUIRY_CLASS row per inquiry, an advisory lock of its key | lookup, classify, insert_prediction, apply_confirmation | LLM, execution ledger | `InquiryClass` |
| Idempotency (`db/repositories/idempotency.py`) | response per (tenant, endpoint, key), time to live | get, put; both fail open | routers | `CounselDraft`, `ProblemRevision` |
| Execution ledger (`db/repositories/run_store.py`) | AI_RUN, LLM_CALL rows; a bounded in-process collector | begin_run, finalize_run, record_run, take | workers, routers, gateway | as a step of its callers |
| Detection, diagnosis, labels, reports, evidence | rows written once | pure functions and single writes | routers | none |
| LLM gateway, redaction (`llm/`, `runtime/`) | none across calls | one call, at most one transport retry | all workers | as an outcome |

What is hard here:

* **Interleaving.** Several drain processes lease from one queue under one owner
  name; only `lease_generation` tells them apart. Handlers of one event loop meet
  at every await; handlers of several meet in PostgreSQL, minutes of LLM apart.
* **Stale time.** A command is judged by a clock reading taken before its
  transactions begin; `lease_next` uses one reading for two transactions.
* **Crash and recovery.** A worker may die between any two of its writes; the
  next one resumes the thread from its last checkpoint (counsel), or starts it
  again from the first slot (problems). The writes of an execution are separate
  transactions, and only the ledger is fenced.
* **Outlived leases.** Counsel executions never call `heartbeat`: one that lasts
  longer than its lease runs on beside its successor, on the same thread.
* **Two copies.** The view and the draft of a counsel job live in rows and in
  caches, written one after the other, by GETs as well as by refines.
* **Fail-open retries.** A lost idempotency row, an expired one or a lost answer
  must not make a retried request take effect twice.
* **Refusals.** `validate_job` runs inside each transaction; a refused row rolls
  the sweep of a whole tenant back. `_fail` and `pause` may be refused too.
* **Liveness.** Recovery happens only when some drain sweeps the tenant, and the
  problem drain looks for tenants only when its queue is empty; paused jobs wait
  for an operator.

What makes each part correct:

* ledger: fencing, exact accounting of leases and recoveries, no live lease
  taken away, no row that wedges a sweep, no rightful owner refused, aging, the
  transition rules on every step;
* counsel worker: the published result is complete and readable, nothing is named
  before it exists, steps and pack agree, packs never change, finished students
  are not generated again, every job settles;
* counsel API: one key, one job; no poll takes back what one has shown; nothing
  is shown that a restart would lose; a polling client gets the result;
* problem job: what is published agrees with every store, a released item is the
  candidate it names and was reviewed if it is off its band, a recovered job pays for
  no stored slot again, the graph stays within its recursion limit;
* problem service: no tenant falls between queue and scheduled set, every job
  ends;
* revisions: the history is one chain, no ask is applied twice or to a text its
  author had not seen;
* classification: a reviewed prediction stands, corrections are real, the label
  is the one last accepted.

## 2. Modules

| Module | What it specifies |
|---|---|
| `JobContract` | abstract: what the ledger promises of a job, whatever keeps it |
| `JobStore` | the ledger, the supervisor's commands and the workers that call them |
| `CounselWorker` | a counsel_pack job and the executions that run it |
| `CounselDraft` | POST, GET and refine of one counselling draft, its rows and caches |
| `ProblemJob` | a problem_generation job, its executions, graph and stores |
| `ProblemService` | requests, jobs and drains of problem generation |
| `ProblemRevision` | the revisions of one stored item and the page they are asked on |
| `InquiryClass` | the classification of one inquiry and its review |
| `MC...` | instances of each for TLC |
| `JobStoreProofs` | theorems about `JobStore` |
| `JobStoreRefinement` | the proof that `JobStore` implements `JobContract` |
| `CounselWorkerProofs` | theorems about `CounselWorker`, for any leases and for leases that do not outlive their execution, and that its row is a job of `JobContract` |
| `ProblemJobProofs` | theorems about `ProblemJob`, and that its row is a job of `JobContract` |
| `CounselDraftProofs`, `ProblemServiceProofs`, `ProblemRevisionProofs`, `InquiryClassProofs` | theorems about these modules |

How they fit together: `JobStore` is the ledger in full. `CounselWorker` and
`ProblemJob` look at one job of it and keep what its executions see of it: phase,
generation, recovery count, whether the lease is live. `ProblemService` keeps
several jobs and their tenants and nothing of what an execution does;
`CounselDraft` keeps the phase of one job, and that a succeeded job has its draft,
which is `ResultReadable` of `CounselWorker`. `JobContract` holds the three
views of the ledger together: `JobStore` implements it, and the row that
`CounselWorker` and `ProblemJob` keep moves only as it lets a job move.

**JobContract.** `JobStep` is the disjunction of the three assertion functions of
`contracts/agents.py` and of `add`. The code uses them as assertions before a
write; here they are the next-state relation, and `JobStore!ContractHonoured`
states that the ledger implements it under the mapping that forgets time, owners
and workers. None of them is a guard of `JobStore`, so the refinement is not true
by construction.

**JobStore.** `jobs` is the table, with the fields of `WorkerJob` that control
depends on. Each store operation is one action, because it is one transaction
holding the row's lock (or one section under the in-memory lock). `Put` and the
quantified guard of `RecoverExpired` are `validate_job`: a refused snapshot leaves
everything unchanged. `Owns` is `_require_owned_lease`. A worker has no more than
the snapshot its lease gave it (`worker[w]`), may stall for any time, call
anything in any order, be refused, or vanish (`Abandon`). The time of a call is
chosen between the end of the worker's previous call and the present; a sweep, an
enqueue or a cancellation by a client may be as old as it likes. `SkipLocked`
selects the store: with it a sweep and a selection see any subset of their rows,
without it all of them. `author` and `pauses` are history variables: they guard
nothing but the bound on pauses.

**CounselWorker.** One job and all executions of it. `exec[w].pc` is the position
in `_execute`; every call into a store or a graph node is one action. The graph's
super-steps and the writing of their checkpoints are separate actions
(`SuperStep`, `SaveCheckpoint`): LangGraph writes checkpoints in the background,
in order, and `ainvoke` returns only when they are written (`Flushed`). The
ledger here is reduced to what an execution sees of it: phase, generation,
recovery count, whether `started_at` is set, whether the lease is live. The
draft, step, pack and checkpoint stores take no part in fencing, as in the code.
`Outlives` says whether a lease may expire under a living execution.

**CounselDraft.** The handlers of one process; what a handler does between two
awaits is one action, named by `req[h].pc`. `job` is the AGENT_RUN row of the id
that `identity.py` derives from the key, so that all POSTs under one key meet in
`Look` and `Add`; `SameContext` is the comparison of payload hashes. `stored` is
the COUNSEL_DRAFT_VIEW row with its two snapshots, `cache` the `_view_cache` and
`_drafts` of the process; `SaveDraft`/`KeepDraft` and `SaveView`/`KeepView` are
`_remember_draft` and `_remember_view`, which write the row first and the cache
after an await. A text is the set of turns it has taken. `told` (what clients were
answered) and `was` (what the stores have held) are history variables. The inline
drain, off by default (`counsel_inline_drain_max = 0`), is left out.

**ProblemJob.** Execution `e` is the one that holds lease generation `e`. `exec[e].pc` is
the node of the graph or the step of `_produce_result`; each node return goes through
`Advance`, which raises where `_checked_update` does (`ValidState`,
`AllowedTransition`) and writes a checkpoint that may be lost. Each other store is
written by an action of its own. The result of an attempt is a choice of
`Fault` or of the distance from the requested band. `Interrupted` is every way
`run_with_lease_heartbeat` cancels the operation. `Invoke` starts the graph with the
initial state on the thread of the predecessor; what LangGraph keeps for a field the
input leaves unset is its affair, so both outcomes are allowed.

**ProblemService.** `drain[p]` is the `ProblemDrainLoop` of a process: queue, scheduled
set, stop event and the await it is at. `Notified` is `notify_tenant`, `Taken`
`_take_scheduled_tenant`, `Discovered` the SQL query with its order and limit, and
`NotifiedAll` the loop that notifies the drain of what the query found, in the order of
the tenants' ids (`Ordered`).
`Shutdown`/`Stop` is `stop` with its grace period, `Kill` is SIGKILL, after which the
container is started again. `DiscoverLimit = 0` is the in-memory backend, whose tables
belong to one process; `ServiceAssumption` says so. The idempotency rows of this endpoint
are left out: a POST that finds a row changes nothing, one that does not makes a job
under a random id, and nothing else reads them; `Enqueue` is any POST of the second kind.

**ProblemRevision.** A turn runs in a transaction that holds the item's advisory lock
while the LLM answers: `TryLock`, `ReadRow`, `Refine`, `RecordRun` (a transaction of its
own), `Commit`. The page of the instructor is read in three steps, as
`get_problem_item` reads it, without a transaction. `Disconnect` breaks the
connection under a reservation: the database lets go of the lock and the handler
learns of it when it commits. `Insertable` is what the primary and foreign keys demand.

**InquiryClass.** `Lookup`, `Classify`, `RecordRun`, `LockStore`, `Insert` are the awaits of
`post_classify`, `LockConfirm` and `Confirm` those of `post_confirmations`. A handler
remembers the row it read under the lock (`read`) and writes from it, as the code
does. `meant` is a history variable: the last value accepted on each axis.

Abstractions, and why they are sound for what is checked:

* payloads, hashes, references, prompts and texts are left out; a student is a
  number in the order of `sorted(bundle.contexts)`, a draft is its row's index, an
  item its distance from the requested band, a refined text the turns it took;
* a student's regeneration loop, gate and redaction are one choice of outcome
  with the effect on the circuit counter each outcome has; so are the generator,
  the rules and the cross-solver of an attempt;
* optional `cancellation_reason` and `result_ref` of a failure are left out;
* bundles are immutable, so the `context_hash` and tenant checks of a resumed
  thread never fail and are left out; a bundle is there or not from the start;
* `finalize_run` changes no row that control reads; its fail-closed refusal on
  the success path is one of the failures `StoreFails` and `Interrupted` stand for;
* all hosts share one clock. A host whose clock runs ahead of the others could
  end a live lease; the code relies on synchronised clocks and so does the model;
* memory and PostgreSQL backends of the counsel stores are not distinguished,
  except that `StorePack` is the insert-only PostgreSQL store and the read model of
  `CounselDraft` the one in PostgreSQL;
* every row of `InquiryClass` names its call. `llm_call_id` may be NULL in the code when
  the collector lost the calls (`classify.py:255`); no property is about such a row;
* in `InquiryClass` the commit of a review is its answer. A client whose answer is
  lost after the commit may not know that its value was accepted.

## 3. Runs

`tlc -workers 2 -config <cfg> <module>`

| Run | Instance | Checks | States |
|---|---|---|---|
| `ledger_pg` | `JobStorePg.cfg`: 1 job, 2 workers, 1 owner name, lease of 2 ticks, 2 recoveries, 1 pause, 6 instants | `TypeOK`, `LeaseAccounting`, `TokenUnique`, `NoStealBeforeExpiry`, `LedgerNeverWedged`, `OwnerNeverRefused`, `FencedWrites`, `ContractHonoured` | 439 000 |
| `ledger_memory` | `JobStoreMemory.cfg`: 2 jobs (batch, interactive), 1 worker, aging of 1 tick | `AgedFirst` | 652 000 |
| `counsel_crash` | `CounselCrash.cfg`: 3 students, 2 executions, 3 recoveries, circuit of 2, 1 resume, no outlived lease | `TypeOK`, `StepsTellPack`, `KeptWork` | 358 000 |
| `counsel_outlived` | `CounselOutlived.cfg`: 2 students, 2 executions, 2 recoveries, leases expire under live executions | `ResultReadable`, `NoDanglingDraft`, `PackImmutable` | 2 702 000 |
| `counsel_live` | `CounselLive.cfg`: 1 student, 2 executions, fairness | `Settles` | 360 000 |
| `counsel_draft` | `CounselDraft.cfg`: 2 handlers, 2 bodies under one key, 1 turn, 1 fault, fairness | `TypeOK`, `OwnJob`, `PollsAgree`, `ShownWasStored`, `ResultShown` | 288 000 |
| `problem_job` | `ProblemJob.cfg`: 2 slots, 3 attempts, 2 executions, regeneration and a procured source, distances 0 to 2 | `TypeOK`, `StateTellsStore`, `NotDrawnAgain`, `CandidateStands`, `ResultStands`, `StepsBounded`, `SetSettles` | 2 179 000 |
| `problem_service` | `ProblemService.cfg`: 1 process, 2 tenants, 2 jobs, 1 discovered tenant at a time, 1 raise, 2 stops, fairness | `TypeOK`, `QueueAgrees`, `NoneForgotten`, `Settles` | 194 000 |
| `problem_revision` | `ProblemRevision.cfg`: 2 handlers, 2 keys, 3 asks sent 4 times, 1 fault | `TypeOK`, `HistoryWhole`, `AppliedOnce`, `BasedOnShown` | 1 814 000 |
| `inquiry_class` | `InquiryClass.cfg`: 3 handlers, 2 axes of 2 values, 3 calls, 2 reviews, 1 fault | `TypeOK`, `CorrectionsReal`, `LabelAsTold`, `ReviewStands` | 400 000 |
| `counsel_retry` | `CounselRetry.cfg` | `RetrySameRecord`, violated | |
| `counsel_refined` | `CounselRefined.cfg` | `RefinedShown`, violated | |

Bounds. One job suffices for everything in `ledger_pg`: those properties relate a
job to its leases, and jobs meet only in selection, which `ledger_memory` checks
with two. Two workers make a stale one and its successor; two recoveries make one
that requeues and one that exhausts; six instants let a lease be granted, renewed,
expire and be granted again with a stale sweep in between. In `counsel_crash`
three students and a circuit of two put a pause before, between and behind
generated students; in `counsel_outlived` two students let two executions of one
thread be at different ones. `counsel_draft` needs two handlers, one that has read
and one that writes meanwhile, and two bodies of different context. In `problem_job`
two slots and three attempts make a stored slot before the current one, a fallback,
its regeneration and an attempt after it; two executions make a predecessor and
the one that recovers from it, also from an item stored by a later attempt than the one
the successor has come to. `problem_service` discovers one of two tenants, so that one
is always beyond the limit, and its cycles take one job, so that a tenant is scheduled
anew; two stops let what a killed process left be cut off once more. In
`problem_revision` a third ask follows a turn that crossed a second one, and a fourth
request retries any of them. `inquiry_class` has a classification that stores late, one
that was stored before and a review between them.

`MaxTime`, `MaxPauses`, `MaxResumes`, `MaxSends`, `MaxFaults`, `MaxJobs`, `MaxRaises`,
`MaxStops`, `MaxAsks`, `MaxCalls`, `MaxReviews` and `MaxDistance` are bounds that the
code does not have; a guard names each of them. Interchangeable workers, handlers, keys
and values are symmetric in the safety runs; the runs with liveness use no
symmetry. Deadlock checking is off: when all jobs are done, or all requests of the
bound are sent, nothing is left to do.

Fairness. Every call of a loop, an execution or a handler is bounded by a timeout, so
one that is not cut off goes on. Failures, kills, stops and new requests are never fair.

* `counsel_live`. `WF(Expire)`: time passes. `WF(\E w : Drain(w))`: the drain process goes
  on sweeping (`drain_forever` catches every exception and sleeps a fixed interval).
  `WF(Step(w))` for each execution: a task that is not killed goes on. `StoreFails`,
  `Crash` and `Resume` have no fairness. Under it a queued job ends or is paused. A
  paused job is not resumed by anything in the sources, so the property stops there.
* `problem_service`. Each process is started again (`restart: unless-stopped` in
  `docker-compose.deploy.yml`), its loop and its `stop` go on, leases expire. Neither
  requests nor notifications are fair: every queued job ends although no later POST
  wakes the drain. `MaxRaises` bounds how often `run_next` raises without ending a job;
  a tenant whose `run_next` raises for ever is discussed below.
* `counsel_draft`. The drain runs the job, handlers go on, and the client polls, as
  `Retry-After` asks it to. A client that knows its job is shown the result, unless
  the job is paused.

What the violated runs show:

* `counsel_retry`. `_store_pack` stamps the pack with `started_at or queued_at`
  of the snapshot its lease gave it. On the first execution that snapshot was
  taken before `start`, so the stamp is `queued_at`; after a crash between the
  pack and `succeed` the retry's snapshot has `started_at`. The records differ,
  the insert-only store raises `PackResultConflict` and the job fails although
  its pack is there. The comment above the line says the retry makes the same
  value. `PackImmutable` holds: the conflict does protect the stored pack.
* `counsel_refined`. A GET that restores a result writes the text of the pack over
  the draft a refine has stored in the meantime, and any GET writes back the view
  it read before its awaits. The GET after an answered refine then shows the text
  without the turn, and the next refine builds on that; `counsel.py` and a test
  say it shows the refined text. What does hold is `PollsAgree` and
  `ShownWasStored`.

Every property of a passing run has a mutant in `PROJECT.json`: a definition of
the model changed as a plausible bug would change the code, under which the run
finds the property violated. The mutated operators stand next to the originals.

Met while modelling, and not the subject of a run:

* a crash between a counsel draft row and its checkpoint leaves an orphan row,
  because draft ids are random (`graph.py:337`); the docstring of
  `counsel_draft_store.py` says they are deterministic. Packs are not affected
  (`ResultReadable`, `NoDanglingDraft`);
* a counsel execution that lost its lease goes on writing drafts, checkpoints,
  steps and possibly the pack (`worker.py:351`); `docs/policies/langgraph_state.md`
  says fencing refuses them. `counsel_outlived` checks what holds nevertheless;
* the bare `raise` in `_fail` (`worker.py:248-256`) raises the refusal of
  `supervisor.fail`, not the exception that led there;
* a paused counsel job may be resumed and pause again without end: its circuit starts
  from zero each time (`counsel/graph.py:293`), and neither a pause nor a resume counts
  as a recovery. `Settles` takes a paused job as settled and says nothing of it;
* the counsel sweep takes the first tenants in the order of their ids
  (`counsel/drain.py:142`): as many tenants as the limit with pending jobs starve
  those after them. A problem tenant whose `run_next` keeps raising notifies its own
  drain again, so that the queue is never empty and no tenant is discovered
  (`problem_generation/application/drain.py:170-190`);
* after a restart the view of a problem job that has not succeeded is 404
  (`api/routers/problem.py:639-651`): `GetProblem` has `Found` as its guard;
* a recovered problem job generates a slot anew whose candidate was stored before the
  crash; the drafts differ, the candidate store conflicts and the job fails. It also
  counts the attempts of such a slot from zero, so that the slot may see more than three
  generator calls in all: the limit is one of an execution, not of the job. What holds
  across recoveries is `NotDrawnAgain`, for slots whose item is stored. After
  `RejectedInsufficient` the set's row stays GENERATING;
* two concurrent POSTs of problems with one key enqueue two jobs, since the id of
  the job is random, and each client is answered its own. An idempotency row past its
  time to live is never found and never replaced (`idempotency.py:146-203`), so that
  from then on every POST with its key makes another job. Counsel jobs do not depend on
  the rows, since their id is derived from the key (`OwnJob`);
* two refines of one counsel draft that run at once lose one of their turns, and
  one sent twice under one key while it runs is run twice;
* a revision whose answer was lost and whose idempotency row is gone is refused on
  retry as stale although it was applied; `AppliedOnce` is what holds;
* two first classifications of one inquiry that run at once may answer
  differently, and a confirmation may review a prediction that was not the one
  shown.

## 4. Proofs

`tlapm JobStoreProofs.tla` proves, for all constants that satisfy
`ConstantsAssumption` (any sets of jobs, workers, owners and scopes, any positive
lease duration, aging interval and recovery limit, either store, any bounds):

| Theorem | Statement |
|---|---|
| `Invariance` | `Spec => []IInv` |
| `TypeCorrect` | `Spec => []TypeOK` |
| `LeasesAccounted` | `Spec => []LeaseAccounting` |
| `TokensUnique` | `Spec => []TokenUnique` |
| `LiveLeasesKept` | `Spec => []NoStealBeforeExpiry` |
| `WritesFenced` | `Spec => FencedWrites` |

and `tlapm JobStoreRefinement.tla`, under the same assumption and on top of
`Invariance`:

| Theorem | Statement |
|---|---|
| `ContractImplemented` | `Spec => ContractHonoured`, that is `JobStore` implements `JobContract` |
| `RulesSuffice` | `Contract!Spec` implies `EndsOnce`, `FenceMoves` and `[]Counted` of `JobContract` |
| `LedgerKeepsRules` | `Spec` implies the same, by the two theorems above it |

The inductive invariant is

    IInv == TypeOK /\ RowInv /\ HolderInv /\ TokenUnique /\ LeaseAccounting

`RowInv` says every row passed `validate_job`; the bound on the recovery count,
hence type correctness of a sweep, comes from it. `HolderInv` is what makes the
lease properties inductive. It ties the snapshot of each worker to the row: its
generation was granted; while the row still has it, the worker is the row's last
author, and an active row has the worker's owner name and expiry; and as long as
the snapshot's expiry lies ahead, the row is active under that generation. A sweep
keeps it because it takes only rows that expired at a time not after the present;
a lease keeps it because it raises the generation above every snapshot; a renewal
because it moves row and snapshot together. `TokenUnique` follows from the author
being one worker. `FencedWrites` is an action property: an owner's call writes
under its own generation, whose author it already is.

The proof has one lemma per action (`TickIInv`, `EnqueueIInv`, `ResumeIInv`,
`CancelWaitingIInv`, `RecoverExpiredIInv`, `LeaseNextIInv`, `AbandonIInv`, and
`OwnerCallIInv` for the six calls under a lease, which share the form `Writes`),
and below it one step per conjunct of `IInv`.

The refinement proof first shows each row operation (`Leased`, `Running`, `Paused`,
`Finished`, `Resumed`, `Recovered`) lawful under the contract on any row in the phase
it starts from, then that one lawful write is a step of the contract (`WriteStep`),
and then each action: a renewal and the steps of a worker alone are stutters, a sweep
is the contract's step of many jobs. It uses `IInv` where the guard of an action is
not enough: that an absent job has the absent row, that a worker's snapshot names a
job, that rows are well typed. `RulesSuffice` is about the contract alone: each rule
speaks of one step of one job, and what they guarantee together (a job that ended stays
as it ended, the fence moves with a lease only, recoveries stay within their limit)
holds of every ledger that implements them, without another look at its operations.

The same module, for the properties about times:

| Theorem | Statement |
|---|---|
| `NeverWedged` | `Spec => []LedgerNeverWedged` |
| `OwnersNeverRefused` | `Spec => []OwnerNeverRefused` |
| `AgedGoFirst` | `~SkipLocked` implies `Spec => AgedFirst` |

`IInv` says too little of them: `validate_job` compares stamps that different
processes read at different times. `TimeInv` adds that no stamp lies in the future
(`PastInv`), that a holder's next reading is no earlier than the stamps of its row
(`FreshInv`; this is where a call is judged by a reading taken after the previous call
of its worker ended), and that a worker between the two transactions of `lease_next` has
a reading of the past (`SweptInv`). `AgedFirst` needs no more than that a job that has
waited two intervals has the highest priority there is (`AgedPriority`), and that the
selection looks at every queued row of its scope. With `SKIP LOCKED` it may not, a row
another transaction has locked is passed over, and the theorem does not claim it.

`tlapm CounselWorkerProofs.tla`, for any number of students and executions, any limits,
and whether or not leases outlive their executions:

| Theorem | Statement |
|---|---|
| `TypeCorrect` | `Spec => []TypeOK` |
| `DraftsExist` | `Spec => []NoDanglingDraft` |
| `ResultsReadable` | `Spec => []ResultReadable` |
| `PacksImmutable` | `Spec => PackImmutable` |

The invariant speaks of rows that never go away (`Grows`): the drafts that results
name exist, a pack is whole and every student has a step behind it (`StoresInv`), the
thread of an execution is where its program counter says (`Placed`), and what it has
behind it is in the stores (`Written`). That is why it survives a second execution on
the same thread: whatever the other one writes, nothing an execution relies on is
taken away.

and, in the same module, with `ASSUME ~Outlives`:

| Theorem | Statement |
|---|---|
| `StepsAreTold` | `~Outlives` implies `Spec => []StepsTellPack` |
| `WorkIsKept` | `~Outlives` implies `Spec => KeptWork` |

`Sole` says that one execution at most is not idle and that it owns the lease, that the
checkpoint is a first part of its thread and whole only with it (`Synced`), that it
records each unseen seq once (`Listed`), and that steps and pack say what the whole
checkpoint says (`Told`). The assumption is needed: with outlived leases two
executions that list the steps before either records insert each of them twice.

The last theorem of the module is a refinement again, without the assumption:

| Theorem | Statement |
|---|---|
| `ContractObeyed` | `Spec => ContractKept`: the row starts as a job that was added to `JobContract`, and each step of the model is a step of it or leaves its entry alone |

`start`, `succeed` and `pause` look at the lease only; that the row is in the phase
`assert_job_transition` asks for is not one of their guards. It follows from `Fenced`:
each execution has a generation of its own, none beyond the row's, and the one that
has the row's generation stands before `start` exactly as long as the row says leased.
That is why a call that is accepted never trips an assertion, whoever else still runs.

`tlapm ProblemJobProofs.tla`, for any number of slots, attempts, recoveries, any ratios
and distances, and whether or not leases outlive their executions:

| Theorem | Statement |
|---|---|
| `TypesKept` | `Spec => []TypeOK` |
| `StateTold` | `Spec => []StateTellsStore` |
| `NoneDrawnAgain` | `Spec => []NotDrawnAgain`, a property that says nothing if `Outlives` |
| `CandidatesStand` | `Spec => []CandidateStands` |
| `ResultsStand` | `Spec => []ResultStands` |
| `StepsAreBounded` | `Spec => []StepsBounded` |
| `SetsSettle` | `Spec => SetSettles` |
| `ContractObeyed` | `Spec => ContractKept`, as for `CounselWorker` |

The invariant is about stores that only grow (`StoreGrows`). The results an execution
holds are a first part of the stored items (`Told`, `Prefix`); no slot is stored behind
a point where the set is full or stopped (`ItemsInv`). So there is one length at which a
set can be over (`FinalUnique`), and every execution that gets that far finishes the set
with the same items and the same status, however many there are and whoever stored
them: this is `SetSettles` and the heart of `ResultStands`. `Placed` ties the program
counter of an execution to what it has behind it, with the state of the graph valid at
each node; `Counted` bounds the nodes run so far by twice the attempts of the slots behind
and of the current one, from which the recursion limit follows.

`NotDrawnAgain` needs an invariant of its own beside that one. Without `Outlives` a live
execution is the one that holds the unexpired lease (`AloneInv`), so nobody else stores an
item between its look at the item store and its draws (`UndrawnInv`). With outlived
leases two executions may draw one slot; the stores refuse the second draft unless it is the same.

`tlapm ProblemServiceProofs.tla`, for any number of processes, tenants and jobs, any limits
and either backend:

| Theorem | Statement |
|---|---|
| `TypesKept` | `Spec => []TypeOK` |
| `QueuesAgree` | `Spec => []QueueAgrees` |
| `NothingForgotten` | `Spec => []NoneForgotten` |

`Lined` says that the queue of a drain lines up its scheduled tenants, each once; one
lemma for each operation of the loop (`NotifiedOK`, `TakenOK`, `CycleEndsOK`,
`NotifiedAllOK`) shows that it stays so and which tenants are remembered after it. A
process that is down knows no job (`ViewInv`), a handler runs in a process that is up
(`HandlerInv`), a swept job has recoveries left (`RowInv`). `NoneForgotten` is inductive
with these. It names the one way in which a drain may not know of a job it has a view
of: another process's sweep queued the job again. The conjunct for it, and the
assumption that the in-memory tables belong to one process, were found by the proof.

`tlapm CounselDraftProofs.tla`, for any handlers, bodies, turns and bounds:

| Theorem | Statement |
|---|---|
| `TypeCorrect` | `Spec => []TypeOK` |
| `JobIsOwn` | `Spec => []OwnJob` |
| `PollsDoAgree` | `Spec => []PollsAgree` |
| `ShownIsStored` | `Spec => []ShownWasStored` |

What a request holds (`Fit`) and what the copies hold (`Stores`) speak only of what never
goes away again: the job that was added, the phase it ended in, the texts that were
stored, the row of the view. A step of one request therefore leaves what is known of
the others as it was, whatever it overwrites.

`tlapm ProblemRevisionProofs.tla`, for any handlers, keys and bounds:

| Theorem | Statement |
|---|---|
| `TypeCorrect` | `Spec => []TypeOK` |
| `HistoryIsWhole` | `Spec => []HistoryWhole` |
| `IsBasedOnShown` | `Spec => []BasedOnShown` |
| `IsAppliedOnce` | `Spec => []AppliedOnce` |

The base number carries the proof: the turn of an ask is the one after its base
(`TurnOfBase`), whoever holds a number that is still current has its text (`Seen`,
`Current`), and a handler whose transaction still has the lock has the base and the
text of the item (`Fitting`). A handler that lost the lock cannot commit.

`tlapm InquiryClassProofs.tla`, for any handlers, axes, values and bounds:

| Theorem | Statement |
|---|---|
| `TypeCorrect` | `Spec => []TypeOK` |
| `CorrectionsAreReal` | `Spec => []CorrectionsReal` |
| `LabelIsTold` | `Spec => []LabelAsTold` |
| `ReviewIsKept` | `Spec => ReviewStands` |

The advisory lock gives a handler that the row it read is the row when it writes
(`Held`), and the order of writes that what it stores has its call in the ledger
(`Backed`); a value that was accepted was accepted of a row, now reviewed (`Told`).

Each module proves its inductive invariant in a theorem or lemma of its own
(`Invariance` or `Invariant`, `TimeInvariance`, `SoleInvariance`), with one lemma per
action under it.

With these, every safety property that a passing run checks is also a theorem, some of
them under a named condition (`~Outlives`, `~SkipLocked`). Only model-checked are the
liveness properties, `Settles` of `CounselWorker` and of `ProblemService` and
`ResultShown`: they rest on fairness, which is out of the prover's reach. What the
theorems say of sequences and sets they say through first parts of a sequence and
through bijections, not by folds or recursion: what those yield for every input is proved
by induction over data, which the provers do not handle. `Ordered` defines the order of
notifications as the increasing sequence for that reason.

## 5. Plan

What would come next, in this order:

1. **ProblemService and the contract**: its rows keep no generation, so that they cannot
   be mapped to `JobContract` as the rows of the other two are.
2. **CounselDraft and the worker**: the job of `CounselDraft` ends with a draft as if by
   itself; that an execution of `CounselWorker` is what does it (`ResultReadable`) is
   argued above and not proved.
3. **RunStore and collector**: merge of usage, identity, eviction at 256 runs and
   128 calls. Properties: `created_at` and known usage are never erased, a call is
   stored once.
4. **CounselDrain**: `pending_tenants` with its order and limit, and a fair
   alternative it could be refined to.
5. **Detection lifecycle** (`detection/lifecycle.py`): the transitions of a signal
   between snapshots.

## 6. Not modelled

Detection, diagnosis, labels, reports, evidence and the texts of counsel and
problem generation are functions of their input, tested as such by the
repository's golden files; they have no interleaving to check. The LLM gateway is a
bounded call whose outcome is a choice in the workers. Schema, settings,
migrations and the evaluation tools are not behaviour of the service. The list in
`PROJECT.json` names every component with its reason.

These parts are most of the repository's lines: contracts and schemas that declare
fields, prompts, parsers and rules over Korean text, offline evaluation. A model of
them would repeat the code. The modules therefore stand for a small share of
the lines and for most of the control: every job, every row that two actors
write, every retry.

Left out of the modelled parts: the inline drain of the counsel API and the requests
that make no job (`CounselDraft`); the merging of token usage and the bounded
collector of the execution ledger; the choice of tenants by the counsel sweep, which is
one query whose starvation is described above; clocks of different hosts that
disagree; versions of the program that change between an execution and its recovery.
