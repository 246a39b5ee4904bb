---------------------------- MODULE JobContract ----------------------------
(***************************************************************************)
(* What the supervisor ledger promises of a job, whatever store keeps it:  *)
(* the transition rules of contracts/agents.py.  The code states them as   *)
(* assertions (assert_job_transition, assert_expired_recovery,             *)
(* assert_paused_resume) that every store calls on the old and the new     *)
(* snapshot just before it writes; here they are the next-state relation   *)
(* of an abstract specification that JobStore is shown to implement, so    *)
(* that no step of a store ever trips one of them.  Time, lease owners and *)
(* the identity of the caller are left to JobStore.                        *)
(***************************************************************************)
EXTENDS Integers, FiniteSets

CONSTANTS
    Job,           \* the job ids of the ledger
    MaxRecovery    \* WorkerJob.max_recovery_attempts, a positive natural

VARIABLE entry     \* entry[j]: what the ledger says of job j

Active == {"leased", "running"}
Terminal == {"succeeded", "failed", "cancelled"}
Waiting == {"queued", "paused"}
\* "absent": the ledger has no row for the job yet.
Phase == {"absent"} \cup Waiting \cup Active \cup Terminal

Exhausted == "worker_recovery_exhausted"
NoError == "none"
ErrorCode == {NoError, "worker_error", Exhausted}

\* NORMAL_TRANSITIONS: the moves of a job that is neither recovered nor resumed.
NormalTransitions ==
    [p \in Phase |->
        CASE p = "queued"  -> {"leased", "cancelled"}
          [] p = "leased"  -> {"running", "failed", "cancelled"}
          [] p = "running" -> {"paused", "succeeded", "failed", "cancelled"}
          [] p = "paused"  -> {"cancelled"}
          [] OTHER         -> {}]

Entry == [phase: Phase, dispatch: Nat, generation: Nat,
          recovery: 0..MaxRecovery, started: Nat,
          checkpoint: BOOLEAN, error: ErrorCode]

\* No row, and the row a job starts as.
AbsentEntry == [phase |-> "absent", dispatch |-> 0, generation |-> 0,
                recovery |-> 0, started |-> 0,
                checkpoint |-> FALSE, error |-> NoError]
QueuedEntry == [AbsentEntry EXCEPT !.phase = "queued"]

TypeOK == entry \in [Job -> Entry]
-----------------------------------------------------------------------------
\* _assert_generation_delta: the fencing generation and the dispatch attempt
\* move together, by n.
GenerationDelta(old, new, n) ==
    /\ new.generation = old.generation + n
    /\ new.dispatch = old.dispatch + n

\* _assert_preserved_started_at: the first start is never overwritten.
StartedPreserved(old, new) == old.started # 0 => new.started = old.started

\* assert_job_transition.
NormalStep(old, new) ==
    /\ new.phase \in NormalTransitions[old.phase]
    /\ GenerationDelta(old, new, IF new.phase = "leased" THEN 1 ELSE 0)
    /\ new.recovery = old.recovery
    /\ StartedPreserved(old, new)

\* assert_expired_recovery, without its comparison of times.
RecoveryStep(old, new) ==
    /\ old.phase \in Active
    /\ new.phase = IF new.recovery >= MaxRecovery THEN "failed" ELSE "queued"
    /\ GenerationDelta(old, new, 0)
    /\ new.recovery = old.recovery + 1
    /\ StartedPreserved(old, new)
    /\ new.checkpoint = old.checkpoint
    /\ new.phase = "failed" => new.error = Exhausted

\* assert_paused_resume.
ResumeStep(old, new) ==
    /\ old.phase = "paused" /\ new.phase = "queued"
    /\ GenerationDelta(old, new, 0)
    /\ StartedPreserved(old, new)
    /\ new.recovery = old.recovery
    /\ new.checkpoint = old.checkpoint

\* JobStore.add: the only way into the ledger.
AddStep(old, new) == old.phase = "absent" /\ new = QueuedEntry

JobStep(old, new) ==
    \/ AddStep(old, new)
    \/ NormalStep(old, new)
    \/ RecoveryStep(old, new)
    \/ ResumeStep(old, new)
-----------------------------------------------------------------------------
Init == entry = [j \in Job |-> AbsentEntry]

\* One transaction moves one job, except that a recovery sweep moves many.
Next ==
    \/ \E j \in Job :
        /\ JobStep(entry[j], entry'[j])
        /\ entry' = [entry EXCEPT ![j] = entry'[j]]
    \/ /\ entry' = [j \in Job |-> entry'[j]]
       /\ \A j \in Job : entry'[j] = entry[j] \/ RecoveryStep(entry[j], entry'[j])
       /\ entry' # entry

Spec == Init /\ [][Next]_entry
-----------------------------------------------------------------------------
(* What the rules promise together, whoever keeps the ledger.              *)

\* A job that ended stays as it ended: no late report and no sweep revives it.
Ends == \A j \in Job : entry[j].phase \in Terminal => entry'[j].phase = entry[j].phase
EndsOnce == [][Ends]_entry

\* The fence moves only with the lease of a queued job, by one: whoever holds the latest
\* generation is the only one that was ever given it.
Fences ==
    \A j \in Job : entry'[j].generation # entry[j].generation =>
        /\ entry[j].phase = "queued" /\ entry'[j].phase = "leased"
        /\ entry'[j].generation = entry[j].generation + 1
FenceMoves == [][Fences]_entry

\* Recoveries are counted towards their limit as long as a job may be run again, and
\* every dispatch has its generation.
Counted ==
    \A j \in Job :
        /\ entry[j].recovery <= MaxRecovery
        /\ entry[j].phase \notin Terminal => entry[j].recovery < MaxRecovery
        /\ entry[j].dispatch = entry[j].generation
=============================================================================
