------------------------- MODULE JobStoreRefinement -------------------------
(***************************************************************************)
(* JobStore implements JobContract: whatever the constants are, no step of *)
(* the ledger would trip one of the assertions of contracts/agents.py.     *)
(***************************************************************************)
EXTENDS JobStoreProofs

USE DEF NoTime, NoJob, Active, Terminal, Phase, NoError, WorkerError, Exhausted

\* What the contract sees of one row.
EntryOf(b) == [phase |-> b.phase, dispatch |-> b.dispatch, generation |-> b.generation,
               recovery |-> b.recovery, started |-> b.started,
               checkpoint |-> b.checkpoint, error |-> b.error]

\* A step of one row is a step of the contract.
Lawful(a, b) == Contract!JobStep(EntryOf(a), EntryOf(b))

\* The mapping, row by row.
LEMMA EntryRow == ASSUME NEW j \in Job
                  PROVE  ContractEntry[j] = EntryOf(jobs[j]) /\ ContractEntry'[j] = EntryOf(jobs'[j])
  BY DEF ContractEntry, EntryOf
-----------------------------------------------------------------------------
(* Each operation on a row is lawful.                                      *)

\* The phases that assert_job_transition allows after each phase.
LEMMA Transitions ==
  /\ Contract!NormalTransitions["queued"] = {"leased", "cancelled"}
  /\ Contract!NormalTransitions["leased"] = {"running", "failed", "cancelled"}
  /\ Contract!NormalTransitions["running"] = {"paused", "succeeded", "failed", "cancelled"}
  /\ Contract!NormalTransitions["paused"] = {"cancelled"}
  BY DEF Contract!NormalTransitions, Contract!Phase, Contract!Waiting, Contract!Active,
         Contract!Terminal

\* A move of the table that is not a lease, with counters and first start kept.
LEMMA NormalLawful ==
  ASSUME NEW a \in Row, NEW b \in Row,
         b.phase \in Contract!NormalTransitions[a.phase], b.phase # "leased",
         b.generation = a.generation, b.dispatch = a.dispatch, b.recovery = a.recovery,
         a.started # NoTime => b.started = a.started
  PROVE  Lawful(a, b)
<1>1. Contract!NormalStep(EntryOf(a), EntryOf(b))
  BY DEF Contract!NormalStep, Contract!GenerationDelta, Contract!StartedPreserved,
         EntryOf, Row, NoTime
<1> QED BY <1>1 DEF Lawful, Contract!JobStep

\* enqueue
LEMMA AddLawful ==
  ASSUME NEW t \in Nat
  PROVE  Lawful(AbsentRow, [AbsentRow EXCEPT !.phase = "queued", !.queued = t])
<1> DEFINE b == [AbsentRow EXCEPT !.phase = "queued", !.queued = t]
<1>1. /\ b.phase = "queued" /\ b.dispatch = 0 /\ b.generation = 0 /\ b.recovery = 0
      /\ b.started = 0 /\ b.checkpoint = FALSE /\ b.error = NoError
  BY DEF AbsentRow
<1> DEFINE q == Contract!QueuedEntry
<1>2. q \in Contract!Entry
  <2>1. Contract!AbsentEntry \in Contract!Entry
    BY ConstantsAssumption
       DEF Contract!AbsentEntry, Contract!Entry, Contract!NoError, Contract!Phase,
           Contract!ErrorCode
  <2>2. "queued" \in Contract!Phase
    BY DEF Contract!Phase, Contract!Waiting
  <2> QED BY <2>1, <2>2 DEF Contract!QueuedEntry, Contract!Entry
<1>3. /\ q.phase = "queued" /\ q.dispatch = 0 /\ q.generation = 0 /\ q.recovery = 0
      /\ q.started = 0 /\ q.error = NoError
  BY DEF Contract!QueuedEntry, Contract!AbsentEntry, Contract!NoError
<1>4. q.checkpoint = FALSE
  BY DEF Contract!QueuedEntry, Contract!AbsentEntry
<1> HIDE DEF b, q
<1>5. EntryOf(b) = q
  BY <1>1, <1>2, <1>3, <1>4 DEF EntryOf, Contract!Entry
<1>6. EntryOf(AbsentRow).phase = "absent"
  BY DEF EntryOf, AbsentRow
<1> QED BY <1>5, <1>6 DEF Lawful, Contract!JobStep, Contract!AddStep, b, q

\* lease_next
LEMMA LeasedLawful ==
  ASSUME NEW a \in Row, a.phase = "queued", NEW o, NEW t
  PROVE  Lawful(a, Leased(a, o, t))
<1> DEFINE b == Leased(a, o, t)
<1>1. /\ b.phase = "leased" /\ b.generation = a.generation + 1
      /\ b.dispatch = a.dispatch + 1 /\ b.recovery = a.recovery /\ b.started = a.started
  BY DEF Leased, Row
<1> HIDE DEF b
<1>2. Contract!NormalStep(EntryOf(a), EntryOf(b))
  BY <1>1, Transitions
     DEF Contract!NormalStep, Contract!GenerationDelta, Contract!StartedPreserved, EntryOf
<1> QED BY <1>2 DEF Lawful, Contract!JobStep, b

\* mark_running
LEMMA RunningLawful ==
  ASSUME NEW a \in Row, a.phase = "leased", NEW t \in Nat
  PROVE  Lawful(a, Running(a, t))
<1> DEFINE b == Running(a, t)
<1>1. /\ b \in Row /\ b.phase = "running" /\ b.generation = a.generation
      /\ b.dispatch = a.dispatch /\ b.recovery = a.recovery
      /\ a.started # NoTime => b.started = a.started
  BY RunningType DEF Running, Row
<1> HIDE DEF b
<1> QED BY <1>1, Transitions, NormalLawful DEF b

\* renew_lease changes nothing the contract sees.
LEMMA RenewedUnseen ==
  ASSUME NEW a \in Row, NEW t \in Nat PROVE EntryOf(Renewed(a, t)) = EntryOf(a)
  BY DEF Renewed, EntryOf, Row

\* pause
LEMMA PausedLawful ==
  ASSUME NEW a \in Row, a.phase = "running"
  PROVE  Lawful(a, Paused(a))
<1> DEFINE b == Paused(a)
<1>1. /\ b \in Row /\ b.phase = "paused" /\ b.generation = a.generation
      /\ b.dispatch = a.dispatch /\ b.recovery = a.recovery /\ b.started = a.started
  BY PausedType, UnleasedType DEF Paused, Unleased, Row
<1> HIDE DEF b
<1> QED BY <1>1, Transitions, NormalLawful DEF b

\* succeed, fail, cancel: the end of a job is lawful where the table has it.
LEMMA FinishedLawful ==
  ASSUME NEW a \in Row, NEW p \in Terminal, NEW e \in {NoError, WorkerError}, NEW t \in Nat,
         p \in Contract!NormalTransitions[a.phase]
  PROVE  Lawful(a, Finished(a, p, e, t))
<1> DEFINE b == Finished(a, p, e, t)
<1>1. /\ b \in Row /\ b.phase = p /\ b.generation = a.generation
      /\ b.dispatch = a.dispatch /\ b.recovery = a.recovery /\ b.started = a.started
  <2>1. b \in Row
    BY FinishedType
  <2>2. /\ b.phase = p /\ b.generation = a.generation
        /\ b.dispatch = a.dispatch /\ b.recovery = a.recovery /\ b.started = a.started
    BY DEF Finished, Unleased, Row
  <2> QED BY <2>1, <2>2
<1>2. p # "leased"
  BY DEF Terminal
<1> HIDE DEF b
<1> QED BY <1>1, <1>2, NormalLawful DEF b

\* resume
LEMMA ResumedLawful ==
  ASSUME NEW a \in Row, a.phase = "paused"
  PROVE  Lawful(a, Resumed(a))
<1>1. Contract!ResumeStep(EntryOf(a), EntryOf(Resumed(a)))
  BY DEF Contract!ResumeStep, Contract!GenerationDelta, Contract!StartedPreserved,
         EntryOf, Resumed, Row
<1> QED BY <1>1 DEF Lawful, Contract!JobStep

\* recover_expired, for one row of the sweep.
LEMMA RecoveredLawful ==
  ASSUME NEW a \in Row, a.phase \in Active, NEW t \in Nat
  PROVE  Contract!RecoveryStep(EntryOf(a), EntryOf(Recovered(a, t)))
<1> DEFINE b == Recovered(a, t)
<1>1. /\ b.generation = a.generation /\ b.dispatch = a.dispatch
      /\ b.recovery = a.recovery + 1 /\ b.started = a.started
      /\ b.checkpoint = a.checkpoint
      /\ b.phase = IF a.recovery + 1 >= MaxRecovery THEN "failed" ELSE "queued"
      /\ b.phase = "failed" => b.error = Exhausted
  BY UnleasedType DEF Recovered, Unleased, Row
<1>2. a.phase \in Contract!Active
  BY DEF Contract!Active, Active
<1> HIDE DEF b
<1> QED BY <1>1, <1>2
       DEF Contract!RecoveryStep, Contract!GenerationDelta, Contract!StartedPreserved,
           Contract!Exhausted, Exhausted, EntryOf, Row, b
-----------------------------------------------------------------------------
(* Each action of JobStore is a step of the contract, or none.             *)

\* One lawful write to one row is a step of the contract.
LEMMA WriteStep ==
  ASSUME TypeOK, NEW j \in Job, NEW b \in Row, Put(j, b), Lawful(jobs[j], b)
  PROVE  Contract!Next
<1>1. jobs'[j] = b /\ \A i \in Job : i # j => jobs'[i] = jobs[i]
  BY PutRow
<1>2. Contract!JobStep(ContractEntry[j], ContractEntry'[j])
  BY <1>1, EntryRow DEF Lawful
<1>3. \A i \in Job : i # j => ContractEntry'[i] = ContractEntry[i]
  BY <1>1, EntryRow
<1>4. ContractEntry' = [ContractEntry EXCEPT ![j] = ContractEntry'[j]]
  BY <1>3 DEF ContractEntry
<1> QED BY <1>2, <1>4 DEF Contract!Next

\* Rows the contract sees no difference in are a stutter of the contract.
LEMMA UnseenStep ==
  ASSUME \A j \in Job : EntryOf(jobs'[j]) = EntryOf(jobs[j])
  PROVE  UNCHANGED ContractEntry
  BY DEF ContractEntry, EntryOf

\* The calls of clients: enqueue, resume, cancel.
LEMMA ClientStep ==
  ASSUME IInv, NEW j \in Job, Enqueue(j) \/ Resume(j) \/ CancelWaiting(j)
  PROVE  Contract!Next
<1>1. TypeOK /\ jobs[j] \in Row /\ \A t \in 1..clock : t \in Nat
  BY DEF IInv, TypeOK
<1>2. CASE Enqueue(j)
  <2>1. PICK t \in Nat : Put(j, [AbsentRow EXCEPT !.phase = "queued", !.queued = t])
    BY <1>1, <1>2 DEF Enqueue
  <2>2. jobs[j] = AbsentRow
    BY <1>2 DEF Enqueue, IInv, RowInv
  <2>3. [AbsentRow EXCEPT !.phase = "queued", !.queued = t] \in Row
    BY AbsentRowType DEF Row
  <2> QED BY <1>1, <2>1, <2>2, <2>3, AddLawful, WriteStep
<1>3. CASE Resume(j)
  BY <1>1, <1>3, ResumedType, ResumedLawful, WriteStep DEF Resume
<1>4. CASE CancelWaiting(j)
  <2>1. PICK t \in Nat : Put(j, Finished(jobs[j], "cancelled", NoError, t))
    BY <1>1, <1>4 DEF CancelWaiting
  <2>2. "cancelled" \in Contract!NormalTransitions[jobs[j].phase]
    BY <1>4, Transitions DEF CancelWaiting
  <2>3. "cancelled" \in Terminal /\ NoError \in {NoError, WorkerError}
    OBVIOUS
  <2>4. Finished(jobs[j], "cancelled", NoError, t) \in Row
    BY <1>1, <2>3, FinishedType
  <2>5. Lawful(jobs[j], Finished(jobs[j], "cancelled", NoError, t))
    BY <1>1, <2>2, <2>3, FinishedLawful
  <2> QED BY <1>1, <2>1, <2>4, <2>5, WriteStep
<1> QED BY <1>2, <1>3, <1>4

\* The second transaction of lease_next.
LEMMA LeaseNextStep == ASSUME IInv, NEW w \in Worker, LeaseNext(w) PROVE Contract!Next
<1> DEFINE o == OwnerOf[w]
           t == worker[w].read
<1>1. PICK j \in Queued(SweepScope[w]) : Put(j, Leased(jobs[j], o, t))
  BY DEF LeaseNext, Lockable
<1>2. /\ j \in Job /\ jobs[j] \in Row /\ jobs[j].phase = "queued"
      /\ t \in Nat /\ o \in Owner /\ TypeOK
  BY <1>1, ConstantsAssumption DEF Queued, IInv, TypeOK, WorkerState
<1> HIDE DEF o, t
<1>3. Leased(jobs[j], o, t) \in Row
  BY <1>2, LeasedType
<1>4. Lawful(jobs[j], Leased(jobs[j], o, t))
  BY <1>2, LeasedLawful
<1> QED BY <1>1, <1>2, <1>3, <1>4, WriteStep

\* The first: a sweep recovers its rows in one step, or finds none.
LEMMA RecoverExpiredStep ==
  ASSUME IInv, NEW w \in Worker, RecoverExpired(w)
  PROVE  Contract!Next \/ UNCHANGED ContractEntry
<1>1. PICK t \in 1..clock : \E S \in Lockable(Expired(SweepScope[w], t)) :
        jobs' = [j \in Job |-> IF j \in S THEN Recovered(jobs[j], t) ELSE jobs[j]]
  BY DEF RecoverExpired
<1>2. PICK S \in Lockable(Expired(SweepScope[w], t)) :
        jobs' = [j \in Job |-> IF j \in S THEN Recovered(jobs[j], t) ELSE jobs[j]]
  BY <1>1
<1>3. t \in Nat /\ S \subseteq Expired(SweepScope[w], t) /\ jobs \in [Job -> Row]
  BY DEF IInv, TypeOK, Lockable
<1>4. ASSUME NEW j \in Job
      PROVE  \/ ContractEntry'[j] = ContractEntry[j]
             \/ Contract!RecoveryStep(ContractEntry[j], ContractEntry'[j])
  <2>1. CASE j \in S
    <3>1. jobs'[j] = Recovered(jobs[j], t) /\ jobs[j].phase \in Active
      BY <1>2, <1>3, <2>1 DEF Expired
    <3> QED BY <1>3, <3>1, EntryRow, RecoveredLawful
  <2>2. CASE j \notin S
    BY <1>2, <2>2, EntryRow
  <2> QED BY <2>1, <2>2
<1> QED BY <1>4 DEF Contract!Next, ContractEntry

\* A call under a lease.
LEMMA OwnerCallStep ==
  ASSUME IInv, NEW w \in Worker, OwnerCall(w)
  PROVE  Contract!Next \/ UNCHANGED ContractEntry
<1> DEFINE j == worker[w].job
           a == jobs[j]
<1>1. worker[w].pc = "holding"
  BY DEF OwnerCall, MarkRunning, RenewLease, Pause, Succeed, Fail, CancelOwned
<1>2. TypeOK /\ j \in Job /\ a \in Row /\ \A t \in worker[w].read..clock : t \in Nat
  <2>1. TypeOK /\ j \in Job
    BY <1>1 DEF IInv, HolderInv, Holder
  <2>2. \A t \in worker[w].read..clock : t \in Nat
    BY <2>1, ConstantsAssumption DEF TypeOK, WorkerState
  <2> QED BY <2>1, <2>2 DEF TypeOK
<1>3. \A t : Owns(w, t) => a.phase \in Active
  BY DEF Owns
<1>4. ASSUME NEW b \in Row, OwnerPut(w, b), Lawful(a, b) PROVE Contract!Next
  BY <1>2, <1>4, WriteStep DEF OwnerPut
<1>5. CASE MarkRunning(w)
  <2>1. PICK t \in worker[w].read..clock : OwnerPut(w, Running(a, t))
    BY <1>5 DEF MarkRunning
  <2>2. a.phase = "leased" /\ t \in Nat
    BY <1>2, <1>5 DEF MarkRunning
  <2> HIDE DEF a, j
  <2>3. Running(a, t) \in Row /\ Lawful(a, Running(a, t))
    BY <1>2, <2>2, RunningType, RunningLawful
  <2> QED BY <1>4, <2>1, <2>3
<1>6. CASE RenewLease(w)
  <2>1. PICK t \in worker[w].read..clock : OwnerPut(w, Renewed(a, t))
    BY <1>6 DEF RenewLease
  <2>2. Renewed(a, t) \in Row /\ EntryOf(Renewed(a, t)) = EntryOf(a)
    <3> HIDE DEF a, j
    <3> QED BY <1>2, RenewedType, RenewedUnseen
  <2>3. jobs'[j] = Renewed(a, t) /\ \A i \in Job : i # j => jobs'[i] = jobs[i]
    BY <1>2, <2>1, <2>2, PutRow DEF OwnerPut
  <2> QED BY <2>2, <2>3, UnseenStep
<1>7. CASE Pause(w)
  <2>1. OwnerPut(w, Paused(a)) /\ a.phase = "running"
    BY <1>7 DEF Pause
  <2> HIDE DEF a, j
  <2>2. Paused(a) \in Row /\ Lawful(a, Paused(a))
    BY <1>2, <2>1, PausedType, PausedLawful
  <2> QED BY <1>4, <2>1, <2>2
<1>8. CASE Succeed(w) \/ Fail(w)
  <2>1. PICK t \in worker[w].read..clock, p \in Terminal, e \in {NoError, WorkerError} :
            /\ OwnerPut(w, Finished(a, p, e, t))
            /\ p \in Contract!NormalTransitions[a.phase]
    <3>1. CASE Succeed(w)
      BY <3>1, Transitions DEF Succeed
    <3>2. CASE Fail(w)
      BY <1>3, <3>2, Transitions DEF Fail
    <3> QED BY <1>8, <3>1, <3>2
  <2> HIDE DEF a, j
  <2>2. t \in Nat
    BY <1>2
  <2>3. Finished(a, p, e, t) \in Row /\ Lawful(a, Finished(a, p, e, t))
    BY <1>2, <2>1, <2>2, FinishedType, FinishedLawful
  <2> QED BY <1>4, <2>1, <2>3
<1>9. CASE CancelOwned(w)
  <2>1. PICK t \in worker[w].read..clock, k \in BOOLEAN :
            /\ Owns(w, t)
            /\ OwnerPut(w, Finished([a EXCEPT !.checkpoint = @ \/ k],
                                    "cancelled", NoError, t))
    BY <1>9 DEF CancelOwned
  <2>2. t \in Nat /\ a.phase \in Active
    BY <1>2, <1>3, <2>1
  <2> DEFINE c == [a EXCEPT !.checkpoint = @ \/ k]
             b == Finished(c, "cancelled", NoError, t)
  <2> HIDE DEF a, j
  <2>3. /\ c \in Row /\ c.phase = a.phase /\ c.generation = a.generation
        /\ c.dispatch = a.dispatch /\ c.recovery = a.recovery /\ c.started = a.started
    BY <1>2 DEF Row
  <2>4. OwnerPut(w, b)
    BY <2>1
  <2> HIDE DEF c
  <2>5. /\ b \in Row /\ b.phase = "cancelled" /\ b.generation = c.generation
        /\ b.dispatch = c.dispatch /\ b.recovery = c.recovery /\ b.started = c.started
    <3>1. "cancelled" \in Terminal /\ NoError \in {NoError, WorkerError}
      OBVIOUS
    <3>2. b \in Row
      BY <2>2, <2>3, <3>1, FinishedType
    <3> QED BY <2>3, <3>2, UnleasedType DEF Finished, Unleased, Row
  <2> HIDE DEF b
  <2>6. Lawful(a, b)
    BY <1>2, <2>2, <2>3, <2>5, Transitions, NormalLawful
  <2> QED BY <1>4, <2>4, <2>5, <2>6
<1> QED BY <1>5, <1>6, <1>7, <1>8, <1>9 DEF OwnerCall
-----------------------------------------------------------------------------
(* The refinement.                                                         *)

\* An empty ledger is an empty ledger of the contract.
LEMMA InitContract == Init => Contract!Init
  BY DEF Init, Contract!Init, ContractEntry, AbsentRow, Contract!AbsentEntry,
         Contract!NoError

\* Every step is a step of the contract or invisible to it.
LEMMA NextContract ==
  ASSUME IInv, [Next]_vars PROVE Contract!Next \/ UNCHANGED ContractEntry
<1>1. CASE Tick
  BY <1>1 DEF Tick, ContractEntry
<1>2. ASSUME NEW j \in Job, Enqueue(j) \/ Resume(j) \/ CancelWaiting(j)
      PROVE  Contract!Next
  BY <1>2, ClientStep
<1>3. ASSUME NEW w \in Worker,
             RecoverExpired(w) \/ LeaseNext(w) \/ Abandon(w) \/ OwnerCall(w)
      PROVE  Contract!Next \/ UNCHANGED ContractEntry
  <2>1. CASE Abandon(w)
    BY <2>1 DEF Abandon, ContractEntry
  <2> QED BY <1>3, <2>1, RecoverExpiredStep, LeaseNextStep, OwnerCallStep
<1>4. CASE UNCHANGED vars
  BY <1>4 DEF vars, ContractEntry
<1> QED BY <1>1, <1>2, <1>3, <1>4 DEF Next

\* JobStore implements the contract of contracts/agents.py for every ledger, every
\* set of workers and every use of owner names: assert_job_transition,
\* assert_expired_recovery and assert_paused_resume never fail.
THEOREM ContractImplemented == Spec => ContractHonoured
<1>1. IInv /\ [Next]_vars => [Contract!Next]_ContractEntry
  BY NextContract
<1> QED BY <1>1, InitContract, Invariance, PTL DEF Spec, ContractHonoured, Contract!Spec
-----------------------------------------------------------------------------
(* What the contract promises, and with it every store that implements it. *)

\* The invariant of the contract: a row that is not there has no history.
ContractInv ==
    /\ ContractEntry = [j \in Job |-> ContractEntry[j]]
    /\ \A j \in Job :
        /\ ContractEntry[j].phase \in Phase
        /\ ContractEntry[j].generation \in Nat /\ ContractEntry[j].recovery \in Nat
        /\ ContractEntry[j].phase = "absent" => ContractEntry[j] = Contract!AbsentEntry
    /\ Contract!Counted

\* One job of the contract, before and after a step.
LEMMA ContractJob ==
  ASSUME NEW a, NEW b, Contract!JobStep(a, b), a.phase \in Phase,
         a.generation \in Nat, a.recovery \in Nat, a.dispatch = a.generation,
         a.phase = "absent" => a = Contract!AbsentEntry,
         a.phase \notin Terminal => a.recovery < MaxRecovery
  PROVE  /\ b.phase \in Phase \ {"absent"} /\ a.phase \notin Terminal
         /\ b.generation \in Nat /\ b.recovery \in Nat /\ b.dispatch = b.generation
         /\ b.recovery <= MaxRecovery
         /\ b.phase \notin Terminal => b.recovery < MaxRecovery
         /\ b.generation # a.generation =>
                /\ a.phase = "queued" /\ b.phase = "leased"
                /\ b.generation = a.generation + 1
<1>0. MaxRecovery \in Nat \ {0}
  BY ConstantsAssumption
<1>1. CASE Contract!AddStep(a, b)
  <2>1. /\ b.phase = "queued" /\ b.generation = 0 /\ b.recovery = 0 /\ b.dispatch = 0
        /\ a.phase = "absent"
    BY <1>1 DEF Contract!AddStep, Contract!QueuedEntry, Contract!AbsentEntry
  <2>2. a.generation = 0
    BY <2>1 DEF Contract!AbsentEntry
  <2> QED BY <1>0, <2>1, <2>2
<1>2. CASE Contract!NormalStep(a, b)
  <2>1. /\ a.phase = "queued" => b.phase \in {"leased", "cancelled"}
        /\ a.phase = "leased" => b.phase \in {"running", "failed", "cancelled"}
        /\ a.phase = "running" => b.phase \in {"paused", "succeeded", "failed", "cancelled"}
        /\ a.phase = "paused" => b.phase = "cancelled"
    BY <1>2, Transitions DEF Contract!NormalStep
  <2>2. \A p \in Terminal \cup {"absent"} : Contract!NormalTransitions[p] = {}
    BY DEF Contract!NormalTransitions, Contract!Phase, Contract!Waiting, Contract!Active,
           Contract!Terminal
  <2>3. a.phase \in {"queued", "leased", "running", "paused"}
    BY <1>2, <2>2 DEF Contract!NormalStep
  <2>4. /\ b.generation = a.generation + (IF b.phase = "leased" THEN 1 ELSE 0)
        /\ b.dispatch = a.dispatch + (IF b.phase = "leased" THEN 1 ELSE 0)
        /\ b.recovery = a.recovery
    BY <1>2 DEF Contract!NormalStep, Contract!GenerationDelta
  <2>5. b.phase = "leased" => a.phase = "queued"
    BY <2>1, <2>3
  <2>6. b.phase \in Phase \ {"absent"} /\ a.phase \notin Terminal
    BY <2>1, <2>3
  <2>7. b.generation \in Nat /\ b.dispatch = b.generation
    BY <2>4
  <2>8. b.recovery \in Nat /\ b.recovery < MaxRecovery
    BY <2>4, <2>6
  <2>9. b.generation # a.generation => b.phase = "leased"
    BY <2>4
  <2> QED BY <1>0, <2>4, <2>5, <2>6, <2>7, <2>8, <2>9
<1>3. CASE Contract!RecoveryStep(a, b)
  <2>1. /\ a.phase \in Active /\ b.recovery = a.recovery + 1
        /\ b.generation = a.generation /\ b.dispatch = a.dispatch
        /\ b.phase = IF b.recovery >= MaxRecovery THEN "failed" ELSE "queued"
    BY <1>3 DEF Contract!RecoveryStep, Contract!GenerationDelta, Contract!Active
  <2> QED BY <1>0, <2>1
<1>4. CASE Contract!ResumeStep(a, b)
  <2>1. /\ a.phase = "paused" /\ b.phase = "queued" /\ b.recovery = a.recovery
        /\ b.generation = a.generation /\ b.dispatch = a.dispatch
    BY <1>4 DEF Contract!ResumeStep, Contract!GenerationDelta
  <2> QED BY <1>0, <2>1
<1> QED BY <1>1, <1>2, <1>3, <1>4 DEF Contract!JobStep

\* Every job of the contract, before and after a step.
LEMMA ContractJobs ==
  ASSUME ContractInv, Contract!Next
  PROVE  /\ ContractEntry' = [j \in Job |-> ContractEntry'[j]]
         /\ \A j \in Job : \/ ContractEntry'[j] = ContractEntry[j]
                           \/ Contract!JobStep(ContractEntry[j], ContractEntry'[j])
<1>1. ASSUME NEW i \in Job, Contract!JobStep(ContractEntry[i], ContractEntry'[i]),
             ContractEntry' = [ContractEntry EXCEPT ![i] = ContractEntry'[i]]
      PROVE  /\ ContractEntry' = [j \in Job |-> ContractEntry'[j]]
             /\ \A j \in Job : \/ ContractEntry'[j] = ContractEntry[j]
                               \/ Contract!JobStep(ContractEntry[j], ContractEntry'[j])
  <2>1. PICK x : x = ContractEntry'[i]
    OBVIOUS
  <2>2. ContractEntry' = [j \in Job |-> IF j = i THEN x ELSE ContractEntry[j]]
    BY <1>1, <2>1 DEF ContractInv
  <2> QED BY <1>1, <2>1, <2>2
<1>2. ASSUME ContractEntry' = [j \in Job |-> ContractEntry'[j]],
             \A j \in Job : \/ ContractEntry'[j] = ContractEntry[j]
                            \/ Contract!RecoveryStep(ContractEntry[j], ContractEntry'[j])
      PROVE  \A j \in Job : \/ ContractEntry'[j] = ContractEntry[j]
                            \/ Contract!JobStep(ContractEntry[j], ContractEntry'[j])
  BY <1>2 DEF Contract!JobStep
<1> QED BY <1>1, <1>2 DEF Contract!Next

\* A step of the contract keeps its invariant, its ends and its fences.
LEMMA ContractStep ==
  ASSUME ContractInv, Contract!Next \/ UNCHANGED ContractEntry
  PROVE  ContractInv' /\ Contract!Ends /\ Contract!Fences
<1>1. CASE UNCHANGED ContractEntry
  BY <1>1 DEF ContractInv, Contract!Counted, Contract!Ends, Contract!Fences
<1>2. CASE Contract!Next
  <2>1. Contract!Terminal = Terminal
    BY DEF Contract!Terminal
  <2>2. ASSUME NEW j \in Job
        PROVE  LET a == ContractEntry[j]
                   b == ContractEntry'[j]
               IN  /\ b.phase \in Phase /\ b.generation \in Nat /\ b.recovery \in Nat
                   /\ b.phase = "absent" => b = Contract!AbsentEntry
                   /\ b.recovery <= MaxRecovery /\ b.dispatch = b.generation
                   /\ b.phase \notin Terminal => b.recovery < MaxRecovery
                   /\ a.phase \in Terminal => b.phase = a.phase
                   /\ b.generation # a.generation =>
                          /\ a.phase = "queued" /\ b.phase = "leased"
                          /\ b.generation = a.generation + 1
    <3>1. PICK a : a = ContractEntry[j]
      OBVIOUS
    <3>2. PICK b : b = ContractEntry'[j]
      OBVIOUS
    <3>3. /\ a.phase \in Phase /\ a.generation \in Nat /\ a.recovery \in Nat
          /\ a.phase = "absent" => a = Contract!AbsentEntry
          /\ a.recovery <= MaxRecovery /\ a.dispatch = a.generation
          /\ a.phase \notin Terminal => a.recovery < MaxRecovery
      BY <2>1, <3>1 DEF ContractInv, Contract!Counted
    <3>4. b = a \/ Contract!JobStep(a, b)
      BY <1>2, <3>1, <3>2, ContractJobs
    <3>5. CASE b = a
      BY <3>1, <3>2, <3>3, <3>5
    <3>6. CASE Contract!JobStep(a, b)
      <4>1. /\ b.phase \in Phase \ {"absent"} /\ a.phase \notin Terminal
            /\ b.generation \in Nat /\ b.recovery \in Nat /\ b.dispatch = b.generation
            /\ b.recovery <= MaxRecovery
            /\ b.phase \notin Terminal => b.recovery < MaxRecovery
            /\ b.generation # a.generation =>
                   /\ a.phase = "queued" /\ b.phase = "leased"
                   /\ b.generation = a.generation + 1
        BY <3>3, <3>6, ContractJob
      <4> QED BY <3>1, <3>2, <4>1
    <3> QED BY <3>4, <3>5, <3>6
  <2>3. ContractEntry' = [j \in Job |-> ContractEntry'[j]]
    BY <1>2, ContractJobs
  <2>4. ContractInv'
    BY <2>1, <2>2, <2>3 DEF ContractInv, Contract!Counted
  <2> QED BY <2>1, <2>2, <2>4 DEF Contract!Ends, Contract!Fences
<1> QED BY <1>1, <1>2

\* The rules of contracts/agents.py taken together: a job that ended stays as it ended,
\* its fence moves by one with each lease and with nothing else, and its recoveries stay
\* within their limit.  No rule says so by itself.
THEOREM RulesSuffice ==
  Contract!Spec => Contract!EndsOnce /\ Contract!FenceMoves /\ []Contract!Counted
<1>1. Contract!Init => ContractInv
  <2> SUFFICES ASSUME Contract!Init PROVE ContractInv
    OBVIOUS
  <2>1. ContractEntry = [j \in Job |-> Contract!AbsentEntry]
    BY DEF Contract!Init
  <2>2. \A j \in Job : ContractEntry[j] = Contract!AbsentEntry
    BY <2>1
  <2>3. /\ Contract!AbsentEntry.phase = "absent" /\ Contract!AbsentEntry.generation = 0
        /\ Contract!AbsentEntry.dispatch = 0 /\ Contract!AbsentEntry.recovery = 0
    BY DEF Contract!AbsentEntry
  <2> QED BY <2>1, <2>2, <2>3, ConstantsAssumption DEF ContractInv, Contract!Counted
<1>2. ContractInv => Contract!Counted
  BY DEF ContractInv
<1>3. ContractInv /\ [Contract!Next]_ContractEntry =>
        /\ ContractInv'
        /\ [Contract!Ends]_ContractEntry /\ [Contract!Fences]_ContractEntry
  BY ContractStep
<1> QED BY <1>1, <1>2, <1>3, PTL DEF Contract!Spec, Contract!EndsOnce, Contract!FenceMoves

\* So does the ledger, whichever store keeps it: through the contract alone.
THEOREM LedgerKeepsRules ==
  Spec => Contract!EndsOnce /\ Contract!FenceMoves /\ []Contract!Counted
  BY ContractImplemented, RulesSuffice, PTL DEF ContractHonoured
=============================================================================
