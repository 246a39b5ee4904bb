----------------------------- MODULE ProblemJob -----------------------------
(***************************************************************************)
(* One problem_generation job and the executions that run it: the runner   *)
(* of problem_generation/assembly.py around the graph of                   *)
(* application/workflow.py, over the immutable candidate, item and result  *)
(* stores.  Execution e is the one that holds lease generation e.          *)
(*                                                                         *)
(* A recovered job runs under the same execution_id, hence on the same     *)
(* set and the same graph thread, from the first slot: the slots already   *)
(* stored are taken from the item store.  A lease is renewed while its     *)
(* execution runs, but a stalled process may wake after its expiry and     *)
(* write on until its heartbeat is refused.  Only the ledger is fenced.    *)
(*                                                                         *)
(* Texts are left out: two drafts of an attempt that agree in all the      *)
(* model keeps may still differ, and the stores then refuse the second.    *)
(***************************************************************************)
EXTENDS Integers, Sequences, FiniteSets

CONSTANTS
    Count,          \* ProblemRequest.count, the slots of the set
    Limit,          \* PROBLEM_GENERATION_ITEM_ATTEMPT_LIMIT
    MaxRecovery,    \* max_recovery_attempts of the job
    RegenEnabled,   \* difficulty_regen_enabled, with difficulty_regen_max = 1
    Automatic,      \* target_source is weakness_auto
    Procures,       \* the request asks for a source text
    DropSample,     \* slots processed before the drop ratio is looked at
    DropNum,        \* set_drop_ratio_max = DropNum / DropDen
    DropDen,
    OutageStreak,   \* verify_outage_streak_max
    MaxDistance,    \* bound: how far an item may be off its band
    Outlives        \* whether a lease may expire under a live execution

ASSUME ProblemAssumption ==
    /\ Count \in Nat \ {0} /\ Limit \in Nat \ {0} /\ MaxRecovery \in Nat \ {0}
    /\ RegenEnabled \in BOOLEAN /\ Automatic \in BOOLEAN
    /\ Procures \in BOOLEAN /\ Outlives \in BOOLEAN
    /\ DropSample \in Nat \ {0} /\ OutageStreak \in Nat \ {0}
    /\ DropNum \in Nat /\ DropDen \in Nat \ {0} /\ MaxDistance \in Nat

VARIABLES
    job,         \* the ledger's row
    live,        \* the lease in the row has not expired
    run,         \* the AI_RUN row: "none", "begun" or "finalized"
    set,         \* the PROBLEM_SET row: "none" or its status
    candidates,  \* ITEM_CANDIDATE: the distance of slot s, attempt a
    items,       \* PROBLEM_ITEM: the result stored for slot s
    thread,      \* what the last checkpoint of the thread holds in fields that
                 \* a fresh input leaves unset
    result,      \* the row problem-result:{job_id}
    exec         \* what each execution holds in memory

stores == <<run, set, candidates, items, thread, result>>
vars == <<job, live, stores, exec>>

Execution == 1..MaxRecovery
Slot == 0..Count - 1
Attempt == 1..Limit
Active == {"leased", "running"}
Terminal == {"succeeded", "failed"}
NoAttempt == 0

\* How far an item's difficulty is from the requested band: within its tolerance,
\* off, far off.
Distance == 0..MaxDistance
NoDistance == MaxDistance + 1

Success == {"verified", "needs_review"}
ItemStatus == Success \cup {"dropped", "verification_unavailable"}
ItemResult == [status: ItemStatus, attempt: Attempt, distance: Distance \cup {NoDistance}]
NoItem == [status |-> "none", attempt |-> NoAttempt, distance |-> NoDistance]

StopReason == {"none", "drop_ratio_exceeded", "verifier_outage"}
SetStatus == {"generated", "partial_success", "failed"}

\* fallback: the attempt whose candidate fallback_ref names; source: a passage or
\* source material draft is set.
State == [cursor: 0..Count, items: Seq(ItemResult), attempt: 0..Limit,
          stop: StopReason, fallback: 0..Limit, regen: BOOLEAN, source: BOOLEAN]
FreshState == [cursor |-> 0, items |-> <<>>, attempt |-> 0, stop |-> "none",
               fallback |-> NoAttempt, regen |-> FALSE, source |-> FALSE]
Unset == [stop |-> "none", fallback |-> NoAttempt, source |-> FALSE]

Rejected == [kind |-> "rejected_insufficient", items |-> <<>>]
NoResult == [kind |-> "none", items |-> <<>>]

InGraph == {"procure_source", "begin_attempt", "begin_difficulty_regen",
            "run_attempt", "calling", "drawn", "saving"}
Executing == {"leased", "started", "begun", "created", "finalizing_set",
              "finalizing_run", "publishing", "published"} \cup InGraph
PC == {"idle", "failing", "gone"} \cup Executing
Cause == {"none", "conflict", "other"}

\* held: the result being saved; drawn: the distance of the item just generated.
Exec == [pc: PC, st: State, held: ItemResult \cup {NoItem}, drawn: Distance,
         outcome: {"set", "rejected"}, steps: Nat, cause: Cause]
Idle == [pc |-> "idle", st |-> FreshState, held |-> NoItem, drawn |-> 0,
         outcome |-> "set", steps |-> 0, cause |-> "none"]
Gone == [Idle EXCEPT !.pc = "gone"]
-----------------------------------------------------------------------------
(* The state of the graph (ProblemGenerationState).                        *)

Succeeded(results) == {i \in DOMAIN results : results[i].status \in Success}
Dropped(results) == {i \in DOMAIN results : results[i].status = "dropped"}

IsTerminal(st) == st.stop # "none" \/ st.cursor = Count

\* validate_checkpoint: every construction of the model runs it.
ValidState(st) ==
    /\ st.cursor = Len(st.items)
    /\ IsTerminal(st) => st.attempt = 0
    /\ st.attempt = 0 => st.fallback = NoAttempt /\ ~st.regen
    /\ st.regen => st.fallback # NoAttempt
    /\ st.stop # "none" /\ st.cursor = Count =>
            Cardinality(Succeeded(st.items)) < Count

\* assert_problem_generation_state_transition.
AllowedTransition(p, c) ==
    \/ p = c
    \/ /\ ~IsTerminal(p)
       /\ p.source => c.source
       /\ ~p.source /\ c.source =>
            p.cursor = 0 /\ p.attempt = 0 /\ c.cursor = 0 /\ c.attempt = 0
       /\ \/ /\ c.cursor = p.cursor /\ c.items = p.items
             /\ \/ c.stop # "none" /\ p.attempt = 0
                \/ /\ c.stop = "none"
                   /\ c.attempt \in {p.attempt, p.attempt + 1}
                   /\ p.fallback # NoAttempt => c.fallback = p.fallback
                   /\ p.regen => c.regen
                   /\ ~p.regen /\ c.regen => c.attempt = p.attempt + 1
          \/ /\ c.cursor = p.cursor + 1
             /\ SubSeq(c.items, 1, Len(c.items) - 1) = p.items
             /\ c.attempt = 0 /\ p.attempt # 0
             /\ LET done == c.items[Len(c.items)].attempt
                IN done = p.attempt \/ (p.fallback # NoAttempt /\ p.regen /\ done < p.attempt)

\* _stop_reason.
StopReasonOf(results) ==
    IF /\ Len(results) >= DropSample
       /\ Cardinality(Dropped(results)) * DropDen > DropNum * Len(results)
      THEN "drop_ratio_exceeded"
    ELSE IF /\ Len(results) >= OutageStreak
            /\ \A i \in Len(results) - OutageStreak + 1..Len(results) :
                    results[i].status = "verification_unavailable"
      THEN "verifier_outage"
    ELSE "none"

\* Mutant of StatusOf: a set without any success is left open.
StatusOfUndecided(results) ==
    IF Cardinality(Succeeded(results)) = Count THEN "generated"
    ELSE IF Succeeded(results) # {} THEN "partial_success"
    ELSE "generating"

\* to_result.
StatusOf(results) ==
    IF Cardinality(Succeeded(results)) = Count THEN "generated"
    ELSE IF Succeeded(results) # {} THEN "partial_success"
    ELSE "failed"

\* route_after_attempt.
RouteAfterAttempt(st) ==
    IF IsTerminal(st) THEN "finalizing_set"
    ELSE IF st.attempt # 0 /\ st.fallback # NoAttempt /\ ~st.regen
      THEN "begin_difficulty_regen"
    ELSE "begin_attempt"

\* Mutant of GraphRecursionLimit: one node for each attempt.
GraphRecursionLimitHalved == Count * Limit + 3

\* graph_recursion_limit: nodes of an attempt, entry and margin included.
GraphRecursionLimit == Count * (Limit + 1) * 2 + 3
-----------------------------------------------------------------------------
TypeOK ==
    /\ job \in [phase: {"queued"} \cup Active \cup Terminal,
                generation: 0..MaxRecovery, recovery: 0..MaxRecovery]
    /\ live \in BOOLEAN
    /\ run \in {"none", "begun", "finalized"}
    /\ set \in {"none", "generating"} \cup SetStatus
    /\ candidates \in [Slot -> [Attempt -> Distance \cup {NoDistance}]]
    /\ items \in [Slot -> ItemResult \cup {NoItem}]
    /\ thread \in [stop: StopReason, fallback: 0..Limit, source: BOOLEAN]
    /\ result \in [kind: {"none", "rejected_insufficient"} \cup SetStatus,
                   items: Seq(ItemResult)]
    /\ exec \in [Execution -> Exec]

Init ==
    /\ job = [phase |-> "queued", generation |-> 0, recovery |-> 0]
    /\ live = FALSE
    /\ run = "none"
    /\ set = "none"
    /\ candidates = [s \in Slot |-> [a \in Attempt |-> NoDistance]]
    /\ items = [s \in Slot |-> NoItem]
    /\ thread = Unset
    /\ result = NoResult
    /\ exec = [e \in Execution |-> Idle]

\* The ledger accepts a call of e.
Owns(e) == job.phase \in Active /\ live /\ job.generation = e

Goto(e, pc) == exec' = [exec EXCEPT ![e].pc = pc]
Raise(e, cause) == exec' = [exec EXCEPT ![e].pc = "failing", ![e].cause = cause]
Leave(e) == exec' = [exec EXCEPT ![e] = Gone]
-----------------------------------------------------------------------------
(* The ledger around the executions.                                       *)

\* Time passes the lease's expiry: without Outlives only when the execution is gone.
Expire ==
    /\ job.phase \in Active /\ live
    /\ Outlives \/ exec[job.generation].pc = "gone"
    /\ live' = FALSE
    /\ UNCHANGED <<job, stores, exec>>

\* recover_expired, which every lease_next runs first.
RecoverExpired ==
    /\ job.phase \in Active /\ ~live
    /\ job' = [job EXCEPT !.recovery = @ + 1,
                          !.phase = IF job.recovery + 1 >= MaxRecovery
                                      THEN "failed" ELSE "queued"]
    /\ UNCHANGED <<live, stores, exec>>

\* run_next: lease_next.
Lease(e) ==
    /\ job.phase = "queued" /\ job.generation + 1 = e
    /\ job' = [job EXCEPT !.phase = "leased", !.generation = e]
    /\ live' = TRUE
    /\ Goto(e, "leased")
    /\ UNCHANGED stores

\* The process dies, or a shutdown cancels the execution: neither is reported.
Crash(e) ==
    /\ exec[e].pc \in Executing \cup {"failing"}
    /\ exec' = [exec EXCEPT ![e] = Gone]
    /\ UNCHANGED <<job, live, stores>>

\* A store call fails, the heartbeat is refused or fails, or the maximal duration
\* passes: run_with_lease_heartbeat cancels the operation, even one just finished.
Interrupted(e) ==
    /\ exec[e].pc \in Executing
    /\ Raise(e, "other")
    /\ UNCHANGED <<job, live, stores>>

\* The handler of _run_guarded; a refused report is only logged.
Fail(e) ==
    /\ exec[e].pc = "failing"
    /\ job' = IF Owns(e) THEN [job EXCEPT !.phase = "failed"] ELSE job
    /\ Leave(e)
    /\ UNCHANGED <<live, stores>>
-----------------------------------------------------------------------------
(* _produce_result: the steps before and after the graph.                  *)

\* requests.get and supervisor.start.
Start(e) ==
    /\ exec[e].pc = "leased"
    /\ \/ /\ Owns(e)
          /\ job' = [job EXCEPT !.phase = "running"]
          /\ Goto(e, "started")
       \/ /\ ~Owns(e)
          /\ Raise(e, "other")
          /\ UNCHANGED job
    /\ UNCHANGED <<live, stores>>

\* begin_run: the first execution of the execution_id inserts, later ones agree.
BeginRun(e) ==
    /\ exec[e].pc = "started"
    /\ run' = IF run = "none" THEN "begun" ELSE run
    /\ Goto(e, "begun")
    /\ UNCHANGED <<job, live, set, candidates, items, thread, result>>

\* Mutant of Prepare: the row of a recovered set is created anew.
PrepareAnew(e) ==
    /\ exec[e].pc = "begun"
    /\ set' = "generating"
    /\ Goto(e, "created")
    /\ UNCHANGED <<job, live, run, candidates, items, thread, result>>

\* _prepare_targets, then set_store.create, which leaves an existing row alone.
Prepare(e) ==
    /\ exec[e].pc = "begun"
    /\ \/ /\ set' = IF set = "none" THEN "generating" ELSE set
          /\ Goto(e, "created")
       \/ /\ Automatic
          /\ exec' = [exec EXCEPT ![e].pc = "finalizing_run", ![e].outcome = "rejected"]
          /\ UNCHANGED set
    /\ UNCHANGED <<job, live, run, candidates, items, thread, result>>

\* ainvoke(initial) on the thread of the set.  Whether the graph library keeps what
\* the thread holds for a field the input leaves unset is its affair: both happen.
Invoke(e) ==
    /\ exec[e].pc = "created"
    /\ \E kept \in {thread, Unset} :
        exec' = [exec EXCEPT ![e].pc = "procure_source",
                             ![e].st = [FreshState EXCEPT !.stop = kept.stop,
                                                          !.fallback = kept.fallback,
                                                          !.source = kept.source]]
    /\ UNCHANGED <<job, live, stores>>

\* set_store.finalize overwrites the status of the set.
FinalizeSet(e) ==
    /\ exec[e].pc = "finalizing_set"
    /\ set' = StatusOf(exec[e].st.items)
    /\ Goto(e, "finalizing_run")
    /\ UNCHANGED <<job, live, run, candidates, items, thread, result>>

\* Mutant of FinalizeRun: the job succeeds before its result is put.
FinalizeRunUnput(e) ==
    /\ exec[e].pc = "finalizing_run"
    /\ run' = "finalized"
    /\ Goto(e, "published")
    /\ UNCHANGED <<job, live, set, candidates, items, thread, result>>

\* _finalize_execution, on the path without an exception.
FinalizeRun(e) ==
    /\ exec[e].pc = "finalizing_run"
    /\ run' = "finalized"
    /\ Goto(e, "publishing")
    /\ UNCHANGED <<job, live, set, candidates, items, thread, result>>

Published(e) ==
    IF exec[e].outcome = "rejected" THEN Rejected
    ELSE [kind |-> StatusOf(exec[e].st.items), items |-> exec[e].st.items]

\* PgProblemResultStore.put: insert, or find the same result.
PutResult(e) ==
    /\ exec[e].pc = "publishing"
    /\ \/ /\ result = NoResult
          /\ result' = Published(e)
          /\ Goto(e, "published")
       \/ /\ result = Published(e)
          /\ Goto(e, "published")
          /\ UNCHANGED result
       \/ /\ result # NoResult
          /\ Raise(e, "conflict")
          /\ UNCHANGED result
    /\ UNCHANGED <<job, live, run, set, candidates, items, thread>>

\* supervisor.succeed, once the heartbeat is stopped.
Succeed(e) ==
    /\ exec[e].pc = "published"
    /\ \/ /\ Owns(e)
          /\ job' = [job EXCEPT !.phase = "succeeded"]
          /\ Leave(e)
       \/ /\ ~Owns(e)
          /\ Raise(e, "other")
          /\ UNCHANGED job
    /\ UNCHANGED <<live, stores>>
-----------------------------------------------------------------------------
(* The nodes of the graph.                                                 *)

\* A node returns st and the next one is entered: _checked_update raises unless the
\* transition is legal, and the checkpoint may be lost with the process.
Advance(e, st, pc) ==
    IF ValidState(st) /\ AllowedTransition(exec[e].st, st)
      THEN /\ exec' = [exec EXCEPT ![e].pc = pc, ![e].st = st, ![e].held = NoItem,
                                   ![e].drawn = 0, ![e].steps = @ + 1]
           /\ thread' \in {thread, [stop |-> st.stop, fallback |-> st.fallback,
                                    source |-> st.source]}
      ELSE /\ Raise(e, "other")
           /\ UNCHANGED thread

\* run returns RejectedInsufficientOutcome; the set stays as it is.
Reject(e) == exec' = [exec EXCEPT ![e].pc = "finalizing_run", ![e].outcome = "rejected"]

\* procure_source: a source once drafted is kept; none found ends the run.
ProcureSource(e) ==
    LET st == exec[e].st
    IN  /\ exec[e].pc = "procure_source"
        /\ \/ /\ ~ValidState(st)
              /\ Raise(e, "other")
              /\ UNCHANGED thread
           \/ /\ ValidState(st)
              /\ Procures => st.source
              /\ Advance(e, st, "begin_attempt")
           \/ /\ ValidState(st)
              /\ Procures /\ ~st.source
              /\ \/ Advance(e, [st EXCEPT !.source = TRUE], "begin_attempt")
                 \/ Reject(e) /\ UNCHANGED thread
        /\ UNCHANGED <<job, live, run, set, candidates, items, result>>

BeginAttempt(e) ==
    LET st == exec[e].st
    IN  /\ exec[e].pc = "begin_attempt"
        /\ IF st.attempt >= Limit
             THEN Raise(e, "other") /\ UNCHANGED thread
             ELSE Advance(e, [st EXCEPT !.attempt = @ + 1], "run_attempt")
        /\ UNCHANGED <<job, live, run, set, candidates, items, result>>

BeginDifficultyRegen(e) ==
    LET st == exec[e].st
    IN  /\ exec[e].pc = "begin_difficulty_regen"
        /\ IF st.fallback = NoAttempt \/ st.regen \/ st.attempt >= Limit
             THEN Raise(e, "other") /\ UNCHANGED thread
             ELSE Advance(e, [st EXCEPT !.attempt = @ + 1, !.regen = TRUE], "run_attempt")
        /\ UNCHANGED <<job, live, run, set, candidates, items, result>>

\* _complete_slot.
Completed(st, item) ==
    LET results == Append(st.items, item)
    IN  [st EXCEPT !.cursor = @ + 1, !.items = results, !.attempt = 0, !.fallback = NoAttempt,
                   !.regen = FALSE, !.stop = StopReasonOf(results)]

CompleteSlot(e, item) ==
    LET next == Completed(exec[e].st, item)
    IN  Advance(e, next, RouteAfterAttempt(next))

\* run_attempt returns {}: the slot is tried again.
Retry(e) == Advance(e, exec[e].st, RouteAfterAttempt(exec[e].st))

\* _existing_result: the item stored for the slot.
ExistingResult(st) == items[st.cursor]

\* Mutant of RunAttempt: only an item of this attempt or an earlier one counts as stored.
RunAttemptHasty(e) ==
    LET stored == ExistingResult(exec[e].st)
    IN  /\ exec[e].pc = "run_attempt"
        /\ \/ /\ stored = NoItem \/ stored.attempt > exec[e].st.attempt
              /\ Goto(e, "calling")
              /\ UNCHANGED thread
           \/ /\ stored # NoItem /\ stored.attempt <= exec[e].st.attempt
              /\ CompleteSlot(e, stored)
        /\ UNCHANGED <<job, live, run, set, candidates, items, result>>

\* run_attempt looks for the slot in the item store first.  A slot stored by a later
\* attempt is reached by counting up to it.
RunAttempt(e) ==
    LET st == exec[e].st
        stored == ExistingResult(st)
    IN  /\ exec[e].pc = "run_attempt"
        /\ \/ /\ stored = NoItem
              /\ Goto(e, "calling")
              /\ UNCHANGED thread
           \/ /\ stored # NoItem /\ stored.attempt > st.attempt
              /\ Retry(e)
           \/ /\ stored # NoItem /\ stored.attempt <= st.attempt
              /\ CompleteSlot(e, stored)
        /\ UNCHANGED <<job, live, run, set, candidates, items, result>>

\* What may go wrong with an attempt: no context; no reference data; a rule that cannot
\* be verified or a solver that is down; a banned topic; a draft that is no item, breaks
\* a rule or is solved otherwise; a solution that cannot be parsed or sent.
Fault == {"unresolved", "unreferenced", "unverifiable", "banned", "rejected", "unsolved"}
AtOnce == {"unresolved", "unreferenced", "unverifiable", "banned"}
FaultStatus(f) == IF f \in {"banned", "rejected"} THEN "dropped" ELSE "verification_unavailable"

Hold(e, item) == exec' = [exec EXCEPT ![e].pc = "saving", ![e].held = item]

\* _restore_fallback: the candidate fallback_ref names, marked for review.
RestoreFallback(e) ==
    LET st == exec[e].st
    IN  Hold(e, [status |-> "needs_review", attempt |-> st.fallback,
                 distance |-> candidates[st.cursor][st.fallback]])

\* An attempt fails: its slot goes back to the fallback, is given up, or is retried.
AttemptFails(e, f) ==
    LET st == exec[e].st
    IN  /\ exec[e].pc = "calling"
        /\ \/ /\ st.fallback # NoAttempt
              /\ RestoreFallback(e)
              /\ UNCHANGED thread
           \/ /\ st.fallback = NoAttempt
              /\ f = "unreferenced" /\ Automatic /\ st.cursor = 0
              /\ Reject(e)
              /\ UNCHANGED thread
           \/ /\ st.fallback = NoAttempt
              /\ ~(f = "unreferenced" /\ Automatic /\ st.cursor = 0)
              /\ f \in AtOnce \/ st.attempt = Limit
              /\ Hold(e, [status |-> FaultStatus(f), attempt |-> st.attempt,
                          distance |-> NoDistance])
              /\ UNCHANGED thread
           \/ /\ st.fallback = NoAttempt
              /\ f \notin AtOnce /\ st.attempt < Limit
              /\ Retry(e)
        /\ UNCHANGED <<job, live, run, set, candidates, items, result>>

\* An item passes the rules and is solved.
AttemptPasses(e, d) ==
    /\ exec[e].pc = "calling"
    /\ exec' = [exec EXCEPT ![e].pc = "drawn", ![e].drawn = d]
    /\ UNCHANGED <<job, live, stores>>

\* Mutant of Closer: the attempt that was drawn last goes with the nearer distance.
CloserMislaid(slot, a, b) == [b EXCEPT !.distance = IF candidates[slot][a] <= @
                                                      THEN candidates[slot][a] ELSE @]

\* _choose_closer: the nearer candidate, the earlier of two as near.
Closer(slot, a, b) == IF candidates[slot][a] <= b.distance
                        THEN [attempt |-> a, distance |-> candidates[slot][a]] ELSE b

\* Mutant of ReviewStatus: only the other reasons are looked at.
ReviewStatusBandless(mismatch) == Success

\* _review_reason: a mismatch asks for a review; low confidence, literature, a
\* diagnostic target or the first manual item may.
ReviewStatus(mismatch) == IF mismatch THEN {"needs_review"} ELSE Success

\* _release_candidate, once the candidate of the attempt is stored.
ReleaseCandidate(e) ==
    LET st == exec[e].st
        drawn == [attempt |-> st.attempt, distance |-> exec[e].drawn]
        mismatch == RegenEnabled /\ exec[e].drawn > 0
        chosen == IF mismatch /\ st.fallback # NoAttempt
                    THEN Closer(st.cursor, st.fallback, drawn) ELSE drawn
    IN  IF mismatch /\ ~st.regen /\ st.attempt < Limit
          THEN LET next == [st EXCEPT !.fallback = st.attempt]
               IN  Advance(e, next, RouteAfterAttempt(next))
          ELSE /\ \E status \in ReviewStatus(mismatch) :
                    Hold(e, [status |-> status, attempt |-> chosen.attempt,
                             distance |-> chosen.distance])
               /\ UNCHANGED thread

\* candidate_store.put: insert, or find the same snapshot; another one conflicts.
PutCandidate(e) ==
    LET slot == exec[e].st.cursor
        attempt == exec[e].st.attempt
        stored == candidates[slot][attempt]
    IN  /\ exec[e].pc = "drawn"
        /\ \/ /\ stored \in {NoDistance, exec[e].drawn}
              /\ candidates' = [candidates EXCEPT ![slot][attempt] = exec[e].drawn]
              /\ ReleaseCandidate(e)
           \/ /\ stored # NoDistance
              /\ Raise(e, "conflict")
              /\ UNCHANGED <<candidates, thread>>
        /\ UNCHANGED <<job, live, run, set, items, result>>

\* Mutant of SaveItem: the cursor moves on before the item is stored.
SaveItemLater(e) ==
    /\ exec[e].pc = "saving"
    /\ CompleteSlot(e, exec[e].held)
    /\ UNCHANGED <<job, live, run, set, candidates, items, result>>

\* item_store.save, then _complete_slot: insert, or find the same record.
SaveItem(e) ==
    LET slot == exec[e].st.cursor
        held == exec[e].held
    IN  /\ exec[e].pc = "saving"
        /\ \/ /\ items[slot] \in {NoItem, held}
              /\ items' = [items EXCEPT ![slot] = held]
              /\ CompleteSlot(e, held)
           \/ /\ items[slot] # NoItem
              /\ Raise(e, "conflict")
              /\ UNCHANGED <<items, thread>>
        /\ UNCHANGED <<job, live, run, set, candidates, result>>
-----------------------------------------------------------------------------
Attempts(e) ==
    \/ ProcureSource(e) \/ BeginAttempt(e) \/ BeginDifficultyRegen(e) \/ RunAttempt(e)
    \/ \E f \in Fault : AttemptFails(e, f)
    \/ \E d \in Distance : AttemptPasses(e, d)
    \/ PutCandidate(e) \/ SaveItem(e)

Step(e) ==
    \/ Start(e) \/ BeginRun(e) \/ Prepare(e) \/ Invoke(e) \/ Attempts(e)
    \/ FinalizeSet(e) \/ FinalizeRun(e) \/ PutResult(e) \/ Succeed(e) \/ Fail(e)

Next ==
    \/ Expire \/ RecoverExpired
    \/ \E e \in Execution : Lease(e) \/ Step(e) \/ Interrupted(e) \/ Crash(e)

Spec == Init /\ [][Next]_vars
-----------------------------------------------------------------------------
(* Properties.                                                             *)

\* What an execution counts as done is what the item store holds, slot by slot,
\* whichever execution stored it: no recovery publishes an item it only remembers.
StateTellsStore ==
    \A e \in Execution : exec[e].pc \in Executing =>
        \A i \in DOMAIN exec[e].st.items : exec[e].st.items[i] = items[i - 1]

\* No slot is drawn again once its item is stored, by whichever attempt of whichever
\* execution: a recovered job that begins with the first slot and the first attempt
\* counts up to what its predecessor left and pays for nothing twice.  Only a lease
\* that expires under a live execution lets two of them draw one slot.
NotDrawnAgain ==
    ~Outlives => \A e \in Execution :
        exec[e].pc \in {"calling", "drawn", "saving"} => items[exec[e].st.cursor] = NoItem

\* A released item is the stored candidate of the attempt it names, after fallbacks,
\* the choice of the closer candidate, crashes and recoveries; and with the
\* regeneration for difficulty on, an item off its band is never released without a
\* review, even when both of its candidates are off or an attempt failed.
CandidateStands ==
    \A s \in Slot : items[s].status \in Success =>
        /\ items[s].distance = candidates[s][items[s].attempt]
        /\ RegenEnabled /\ items[s].status = "verified" => items[s].distance = 0

\* A succeeded job has its result, the result came after the run was finalized, and
\* it agrees with the set's row and with the items, although they are written one by
\* one by executions of which any may die.
ResultStands ==
    /\ job.phase = "succeeded" => result # NoResult
    /\ result # NoResult => run = "finalized"
    /\ result.kind \in SetStatus =>
        /\ set = result.kind
        /\ \A s \in Slot : items[s] = IF s < Len(result.items) THEN result.items[s + 1] ELSE NoItem

\* No legal path through the graph meets LangGraph's recursion limit, which would
\* fail the job.
StepsBounded == \A e \in Execution : exec[e].steps <= GraphRecursionLimit

\* Once a set has its final status no recovery changes it.
SetSettles == [][(set \in SetStatus) => set' = set]_vars
=============================================================================
