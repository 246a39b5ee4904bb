--------------------------- MODULE JobStoreProofs ---------------------------
(***************************************************************************)
(* What JobStore guarantees for every ledger, every set of workers and     *)
(* every way lease owner names are shared: rows stay well-typed, leases    *)
(* are accounted for, a generation has one holder, a write under a lease   *)
(* is by its holder, and nobody's live lease is taken away.                *)
(***************************************************************************)
EXTENDS JobStore, TLAPS

USE DEF NoTime, NoJob, Active, Terminal, Phase, NoError, WorkerError, Exhausted
-----------------------------------------------------------------------------
(* Rows: every operation makes a row of a row.                             *)

\* The row of a job that was never enqueued is well-typed.
LEMMA AbsentRowType == AbsentRow \in Row
  BY ConstantsAssumption DEF AbsentRow, Row

\* Dropping the lease fields keeps a row a row.
LEMMA UnleasedType == ASSUME NEW b \in Row PROVE Unleased(b) \in Row
  BY ConstantsAssumption DEF Row, Unleased

\* Granting a lease keeps a row a row.
LEMMA LeasedType ==
  ASSUME NEW b \in Row, NEW o \in Owner, NEW t \in Nat
  PROVE  Leased(b, o, t) \in Row
<1> DEFINE d == b.dispatch + 1
           g == b.generation + 1
           x == t + LeaseDuration
<1>1. d \in Nat /\ g \in Nat /\ x \in Nat
  BY ConstantsAssumption DEF Row
<1>2. Leased(b, o, t) = [b EXCEPT !.phase = "leased", !.dispatch = d, !.generation = g,
                                  !.owner = o, !.acquired = t, !.expires = x]
  BY DEF Leased
<1> HIDE DEF d, g, x
<1> QED BY <1>1, <1>2 DEF Row

\* So do the operations of the lease's holder.
LEMMA RunningType == ASSUME NEW b \in Row, NEW t \in Nat PROVE Running(b, t) \in Row
  BY DEF Row, Running

\* A renewal moves the expiry only.
LEMMA RenewedType == ASSUME NEW b \in Row, NEW t \in Nat PROVE Renewed(b, t) \in Row
  BY ConstantsAssumption DEF Row, Renewed

\* A pause keeps a row a row.
LEMMA PausedType == ASSUME NEW b \in Row PROVE Paused(b) \in Row
  BY UnleasedType DEF Row, Paused

\* A resume keeps a row a row.
LEMMA ResumedType == ASSUME NEW b \in Row PROVE Resumed(b) \in Row
  BY DEF Row, Resumed

\* Ending a job keeps a row a row, as whatever it ends.
LEMMA FinishedType ==
  ASSUME NEW b \in Row, NEW p \in Terminal, NEW e \in {NoError, WorkerError},
         NEW t \in Nat
  PROVE  Finished(b, p, e, t) \in Row
<1> DEFINE u == Unleased(b)
           r == p = "succeeded"
<1>1. u \in Row /\ r \in BOOLEAN
  BY UnleasedType
<1>2. Finished(b, p, e, t) = [u EXCEPT !.phase = p, !.result = r,
                                       !.error = e, !.finished = t]
  BY DEF Finished
<1> HIDE DEF u, r
<1> QED BY <1>1, <1>2 DEF Row

\* A recovery keeps a row a row as long as validate_job accepts its count.
LEMMA RecoveredType ==
  ASSUME NEW b \in Row, NEW t \in Nat, ValidJob(Recovered(b, t))
  PROVE  Recovered(b, t) \in Row
<1> DEFINE u == Unleased(b)
           n == b.recovery + 1
<1>1. u \in Row /\ b.recovery \in Nat
  BY UnleasedType, ConstantsAssumption DEF Row
<1>2. u.recovery = b.recovery
  BY DEF Unleased, Row
<1>3. CASE n >= MaxRecovery
  <2>1. Recovered(b, t) = [u EXCEPT !.phase = "failed", !.recovery = n,
                                    !.error = Exhausted, !.finished = t]
    BY <1>2, <1>3 DEF Recovered
  <2>2. n \in 0..MaxRecovery
    <3>1. Recovered(b, t).recovery = n
      BY <1>1, <2>1 DEF Row
    <3> QED BY <1>1, <3>1, ConstantsAssumption DEF ValidJob
  <2> HIDE DEF u, n
  <2> QED BY <1>1, <2>1, <2>2 DEF Row
<1>4. CASE ~(n >= MaxRecovery)
  <2>1. Recovered(b, t) = [u EXCEPT !.phase = "queued", !.recovery = n]
    BY <1>2, <1>4 DEF Recovered
  <2>2. n \in 0..MaxRecovery
    BY <1>1, <1>4, ConstantsAssumption
  <2> HIDE DEF u, n
  <2> QED BY <1>1, <2>1, <2>2 DEF Row
<1> QED BY <1>3, <1>4
-----------------------------------------------------------------------------
(* The inductive invariant.                                                *)

\* Every row passed validate_job, and nothing is known of a job without a row.
RowInv ==
    \A j \in Job :
        /\ ValidJob(jobs[j])
        /\ jobs[j].phase = "absent" => jobs[j] = AbsentRow /\ pauses[j] = 0

\* What the snapshot of worker w still says of the row.
Holder(w) ==
    LET j == worker[w].job
        b == jobs[j]
    IN  /\ j \in Job
        /\ worker[w].generation \in 1..b.generation
        /\ b.generation = worker[w].generation =>
                /\ author[j] = w
                /\ b.phase \in Active => b.expires = worker[w].expires /\ b.owner = OwnerOf[w]
        /\ clock < worker[w].expires =>
                b.phase \in Active /\ b.generation = worker[w].generation

HolderInv == \A w \in Worker : worker[w].pc = "holding" => Holder(w)

IInv == TypeOK /\ RowInv /\ HolderInv /\ TokenUnique /\ LeaseAccounting

\* The invariant holds of an empty ledger.
LEMMA InitIInv == Init => IInv
<1> SUFFICES ASSUME Init PROVE IInv
  OBVIOUS
<1>1. TypeOK
  BY AbsentRowType, ConstantsAssumption DEF Init, TypeOK, WorkerState, Idle
<1>2. RowInv
  BY ConstantsAssumption
     DEF Init, RowInv, AbsentRow, ValidJob, ValidLease, ValidPhase, ValidTimes
<1>3. HolderInv
  BY DEF Init, HolderInv, Idle
<1>4. LeaseAccounting
  BY ConstantsAssumption DEF Init, LeaseAccounting, AbsentRow
<1>5. TokenUnique
  BY DEF Init, TokenUnique, Idle
<1> QED BY <1>1, <1>2, <1>3, <1>4, <1>5 DEF IInv
-----------------------------------------------------------------------------
(* One row is written.                                                     *)

\* Put changes one row, and only to a row validate_job accepts.
LEMMA PutRow ==
  ASSUME TypeOK, NEW j \in Job, NEW b \in Row, Put(j, b)
  PROVE  /\ jobs' \in [Job -> Row]
         /\ jobs'[j] = b
         /\ \A i \in Job : i # j => jobs'[i] = jobs[i]
         /\ ValidJob(b)
  BY DEF Put, TypeOK

\* What a write under a lease makes of row a: the lease is the same, or over.
WrittenBy(a, b) ==
    /\ b.dispatch = a.dispatch /\ b.generation = a.generation
    /\ b.recovery = a.recovery
    /\ b.phase \in Active \cup Terminal \cup {"paused"}
    /\ b.error # Exhausted
    /\ IF b.phase \in Active THEN b.owner = a.owner ELSE b.expires = NoTime

\* Starting, renewing and pausing write such rows.
LEMMA RunningWrites ==
  ASSUME NEW a \in Row, NEW t \in Nat, a.phase \in Active, a.error = NoError
  PROVE  WrittenBy(a, Running(a, t))
  BY DEF WrittenBy, Running, Row

\* A renewal leaves the lease with its owner.
LEMMA RenewedWrites ==
  ASSUME NEW a \in Row, NEW t \in Nat, a.phase \in Active, a.error = NoError
  PROVE  WrittenBy(a, Renewed(a, t))
  BY DEF WrittenBy, Renewed, Row

\* A pause gives the lease up and keeps the generation.
LEMMA PausedWrites ==
  ASSUME NEW a \in Row, a.error = NoError
  PROVE  WrittenBy(a, Paused(a)) /\ Paused(a).phase = "paused"
  BY UnleasedType DEF WrittenBy, Paused, Unleased, Row

\* So does ending the job, whatever it ends as.
LEMMA FinishedWrites ==
  ASSUME NEW a \in Row, NEW p \in Terminal, NEW e \in {NoError, WorkerError},
         NEW t \in Nat
  PROVE  WrittenBy(a, Finished(a, p, e, t)) /\ Finished(a, p, e, t).phase = p
  BY DEF WrittenBy, Finished, Unleased, Row
-----------------------------------------------------------------------------
(* Every call under a lease is one write of its holder.                    *)

\* The row w writes over is j; it writes b, judged by time t.
Writes(w, j, b, t) ==
    /\ j = worker[w].job
    /\ worker[w].pc = "holding"
    /\ Owns(w, t)
    /\ WrittenBy(jobs[j], b)
    /\ OwnerPut(w, b)
    /\ pauses' = IF b.phase = "paused" THEN [pauses EXCEPT ![j] = @ + 1] ELSE pauses
    /\ b.phase = "paused" => pauses[j] < MaxPauses

\* Every call under a lease is one owner write of such a row.
LEMMA OwnerWrites ==
  ASSUME IInv, NEW w \in Worker, OwnerCall(w)
  PROVE  \E j \in Job, b \in Row, t \in Nat : Writes(w, j, b, t)
<1> DEFINE j == worker[w].job
           a == jobs[j]
           Goal == \E i \in Job, b \in Row, t \in Nat : Writes(w, i, b, t)
<1>1. worker[w].pc = "holding"
  BY DEF OwnerCall, MarkRunning, RenewLease, Pause, Succeed, Fail, CancelOwned
<1>2. j \in Job /\ a \in Row /\ ValidJob(a)
  BY <1>1 DEF IInv, HolderInv, Holder, RowInv, TypeOK
<1>3. \A t \in worker[w].read..clock : t \in Nat
  BY ConstantsAssumption DEF IInv, TypeOK, WorkerState
<1>4. \A t : Owns(w, t) => a.phase \in Active /\ a.error = NoError
  BY <1>2 DEF Owns, ValidJob, ValidPhase
<1> SUFFICES Goal
  OBVIOUS
<1> HIDE DEF Goal, a, j
<1>5. ASSUME NEW b \in Row, NEW t \in Nat, Owns(w, t), WrittenBy(a, b), OwnerPut(w, b),
             b.phase # "paused", UNCHANGED pauses
      PROVE  Goal
  <2>1. Writes(w, j, b, t)
    BY <1>1, <1>5 DEF Writes, a, j
  <2> QED BY <1>2, <2>1 DEF Goal
<1>6. CASE MarkRunning(w)
  <2>1. PICK t \in worker[w].read..clock : Owns(w, t) /\ OwnerPut(w, Running(a, t))
    BY <1>6 DEF MarkRunning, a, j
  <2>2. t \in Nat /\ a.phase \in Active /\ a.error = NoError
    BY <1>3, <1>4, <2>1
  <2>3. Running(a, t) \in Row
    BY <1>2, <2>2, RunningType
  <2>6. Running(a, t).phase # "paused"
    BY <1>2, <2>2 DEF Running, Row
  <2>4. WrittenBy(a, Running(a, t))
    BY <1>2, <2>2, RunningWrites
  <2>5. UNCHANGED pauses
    BY <1>6 DEF MarkRunning
  <2> QED BY <1>5, <2>1, <2>2, <2>3, <2>4, <2>5, <2>6
<1>7. CASE RenewLease(w)
  <2>1. PICK t \in worker[w].read..clock : Owns(w, t) /\ OwnerPut(w, Renewed(a, t))
    BY <1>7 DEF RenewLease, a, j
  <2>2. t \in Nat /\ a.phase \in Active /\ a.error = NoError
    BY <1>3, <1>4, <2>1
  <2>3. Renewed(a, t) \in Row /\ Renewed(a, t).phase # "paused"
    BY <1>2, <2>2, RenewedType DEF Renewed, Row
  <2>4. WrittenBy(a, Renewed(a, t))
    BY <1>2, <2>2, RenewedWrites
  <2>5. UNCHANGED pauses
    BY <1>7 DEF RenewLease
  <2> QED BY <1>5, <2>1, <2>2, <2>3, <2>4, <2>5
<1>8. CASE Pause(w)
  <2>1. PICK t \in worker[w].read..clock : Owns(w, t) /\ OwnerPut(w, Paused(a))
    BY <1>8 DEF Pause, a, j
  <2>2. t \in Nat /\ a.error = NoError
    BY <1>3, <1>4, <2>1
  <2>3. Paused(a) \in Row
    BY <1>2, PausedType
  <2>4. WrittenBy(a, Paused(a)) /\ Paused(a).phase = "paused"
    BY <1>2, <2>2, PausedWrites
  <2>5. Writes(w, j, Paused(a), t)
    BY <1>1, <1>8, <2>1, <2>4 DEF Writes, Pause, a, j
  <2> QED BY <1>2, <2>2, <2>3, <2>5 DEF Goal
<1>9. ASSUME NEW c \in Row, WrittenBy(a, c) /\ c.dispatch = a.dispatch,
             NEW t \in worker[w].read..clock, Owns(w, t),
             NEW p \in Terminal, NEW e \in {NoError, WorkerError},
             c.generation = a.generation, c.recovery = a.recovery,
             OwnerPut(w, Finished(c, p, e, t)), UNCHANGED pauses
      PROVE  Goal
  <2>1. t \in Nat
    BY <1>3
  <2>2. Finished(c, p, e, t) \in Row
    BY <2>1, FinishedType
  <2>3. /\ WrittenBy(c, Finished(c, p, e, t))
        /\ Finished(c, p, e, t).phase = p
    BY <2>1, FinishedWrites
  <2>4. WrittenBy(a, Finished(c, p, e, t)) /\ p \notin Active /\ p # "paused"
    BY <1>9, <2>3 DEF WrittenBy
  <2> QED BY <1>5, <1>9, <2>1, <2>2, <2>3, <2>4
<1>10. ASSUME a.phase \in Active, a.error = NoError PROVE WrittenBy(a, a)
  BY <1>10 DEF WrittenBy
<1>11. CASE Succeed(w) \/ Fail(w)
  <2>1. PICK t \in worker[w].read..clock, p \in Terminal, e \in {NoError, WorkerError} :
            Owns(w, t) /\ OwnerPut(w, Finished(a, p, e, t))
    BY <1>11 DEF Succeed, Fail, a, j
  <2>2. WrittenBy(a, a)
    BY <1>4, <1>10, <2>1
  <2>3. UNCHANGED pauses
    BY <1>11 DEF Succeed, Fail
  <2> QED BY <1>2, <1>9, <2>1, <2>2, <2>3
<1>12. CASE CancelOwned(w)
  <2>1. PICK t \in worker[w].read..clock, k \in BOOLEAN :
            /\ Owns(w, t)
            /\ OwnerPut(w, Finished([a EXCEPT !.checkpoint = @ \/ k],
                                    "cancelled", NoError, t))
    BY <1>12 DEF CancelOwned, a, j
  <2> DEFINE c == [a EXCEPT !.checkpoint = @ \/ k]
  <2>2. c \in Row /\ c.generation = a.generation /\ c.recovery = a.recovery
    BY <1>2 DEF Row
  <2>3. WrittenBy(a, c) /\ c.dispatch = a.dispatch
    BY <1>2, <1>4, <2>1 DEF WrittenBy, Row
  <2>4. UNCHANGED pauses
    BY <1>12 DEF CancelOwned
  <2>5. "cancelled" \in Terminal /\ OwnerPut(w, Finished(c, "cancelled", NoError, t))
    BY <2>1
  <2> HIDE DEF c
  <2> QED BY <1>9, <2>1, <2>2, <2>3, <2>4, <2>5
<1> QED BY <1>6, <1>7, <1>8, <1>11, <1>12 DEF OwnerCall
-----------------------------------------------------------------------------
(* Every step preserves the invariant.                                     *)

\* What LeaseAccounting says of a row and the number of its pauses.
Accounted(b, n) ==
    /\ b.dispatch = b.generation
    /\ b.phase \in {"absent", "queued", "paused"} => b.generation = b.recovery + n
    /\ b.phase \in Active \cup {"succeeded"} => b.generation = b.recovery + n + 1
    /\ b.phase = "failed" =>
            b.generation = IF b.error = Exhausted THEN b.recovery + n
                                                  ELSE b.recovery + n + 1
    /\ b.phase = "cancelled" => b.generation \in {b.recovery + n, b.recovery + n + 1}
    /\ b.error = Exhausted <=> b.recovery = MaxRecovery

\* LeaseAccounting, row by row.
LEMMA Accounts == LeaseAccounting <=> \A j \in Job : Accounted(jobs[j], pauses[j])
  BY DEF LeaseAccounting, Accounted

\* The same of the next state.
LEMMA AccountsNext ==
  LeaseAccounting' <=> \A j \in Job : Accounted(jobs'[j], pauses'[j])
  BY DEF LeaseAccounting, Accounted

\* The clock only makes fewer leases live.
LEMMA TickIInv == ASSUME IInv, Tick PROVE IInv'
<1>1. TypeOK'
  BY ConstantsAssumption DEF IInv, Tick, TypeOK
<1>2. RowInv'
  BY DEF IInv, Tick, RowInv
<1>3. HolderInv'
  <2> SUFFICES ASSUME NEW w \in Worker, worker[w].pc = "holding"
               PROVE  Holder(w)'
    BY DEF HolderInv, Tick
  <2>1. Holder(w) /\ worker[w].expires \in Nat
    BY DEF IInv, HolderInv, TypeOK, WorkerState
  <2>2. clock' < worker[w].expires => clock < worker[w].expires
    BY <2>1 DEF Tick, IInv, TypeOK
  <2> QED BY <2>1, <2>2 DEF Holder, Tick
<1>4. LeaseAccounting'
  BY Accounts DEF IInv, Tick, LeaseAccounting
<1>5. TokenUnique'
  BY DEF IInv, TokenUnique, Tick
<1> QED BY <1>1, <1>2, <1>3, <1>4, <1>5 DEF IInv

\* A call of a client writes one row nobody holds, and keeps its accounts.
LEMMA ClientIInv ==
  ASSUME IInv, NEW j \in Job, NEW b \in Row, Put(j, b),
         jobs[j].phase \notin Active, b.phase # "absent", b.phase \notin Active,
         b.generation = jobs[j].generation, Accounted(b, pauses[j]),
         UNCHANGED <<clock, worker, author, pauses>>
  PROVE  IInv'
<1>1. /\ jobs' \in [Job -> Row] /\ jobs'[j] = b /\ ValidJob(b)
      /\ \A i \in Job : i # j => jobs'[i] = jobs[i]
  BY PutRow DEF IInv
<1>2. TypeOK'
  BY <1>1 DEF IInv, TypeOK
<1>3. RowInv'
  BY <1>1 DEF IInv, RowInv
<1>4. HolderInv'
  <2> SUFFICES ASSUME NEW w \in Worker, worker[w].pc = "holding"
               PROVE  Holder(w)'
    BY DEF HolderInv
  <2>1. Holder(w)
    BY DEF IInv, HolderInv
  <2>2. CASE worker[w].job = j
    BY <1>1, <2>1, <2>2 DEF Holder
  <2>3. CASE worker[w].job # j
    BY <1>1, <2>1, <2>3 DEF Holder
  <2> QED BY <2>2, <2>3
<1>5. LeaseAccounting'
  <2>1. \A i \in Job : Accounted(jobs'[i], pauses[i])
    BY <1>1, Accounts DEF IInv
  <2> QED BY <2>1, AccountsNext
<1>6. TokenUnique'
  BY DEF IInv, TokenUnique
<1> QED BY <1>2, <1>3, <1>4, <1>5, <1>6 DEF IInv

\* Enqueueing, resuming and cancelling a waiting job are such calls.
LEMMA EnqueueIInv == ASSUME IInv, NEW j \in Job, Enqueue(j) PROVE IInv'
<1>1. PICK t \in 1..clock : Put(j, [AbsentRow EXCEPT !.phase = "queued", !.queued = t])
  BY DEF Enqueue
<1> DEFINE b == [AbsentRow EXCEPT !.phase = "queued", !.queued = t]
<1>2. t \in Nat
  BY DEF IInv, TypeOK
<1>3. /\ b \in Row /\ b.phase = "queued"
      /\ b.generation = AbsentRow.generation /\ AbsentRow.generation = 0
  <2>1. AbsentRow.generation = 0
    BY DEF AbsentRow
  <2> QED BY <1>2, <2>1, AbsentRowType DEF Row
<1>4. jobs[j].phase = "absent" /\ jobs[j].generation = 0 /\ pauses[j] = 0
  BY DEF Enqueue, IInv, RowInv, AbsentRow
<1>5. Accounted(b, pauses[j])
  BY <1>4, ConstantsAssumption DEF Accounted, AbsentRow
<1>6. UNCHANGED <<clock, worker, author, pauses>>
  BY DEF Enqueue
<1> HIDE DEF b
<1> QED BY <1>1, <1>3, <1>4, <1>5, <1>6, ClientIInv DEF b

\* A resumed row had been paused: its accounts are those of a queued row.
LEMMA ResumeIInv == ASSUME IInv, NEW j \in Job, Resume(j) PROVE IInv'
<1> DEFINE a == jobs[j]
           b == Resumed(a)
<1>1. a \in Row /\ a.phase = "paused" /\ Put(j, b)
  BY DEF Resume, IInv, TypeOK
<1>2. b \in Row /\ b.phase = "queued" /\ b.generation = a.generation
  BY <1>1, ResumedType DEF Resumed, Row
<1>3. Accounted(a, pauses[j])
  BY Accounts DEF IInv
<1>4. Accounted(b, pauses[j])
  BY <1>1, <1>3 DEF Accounted, Resumed, Row
<1>5. UNCHANGED <<clock, worker, author, pauses>>
  BY DEF Resume
<1> HIDE DEF b
<1> QED BY <1>1, <1>2, <1>4, <1>5, ClientIInv

\* A row cancelled while it waits had no lease to account for.
LEMMA CancelWaitingIInv == ASSUME IInv, NEW j \in Job, CancelWaiting(j) PROVE IInv'
<1> DEFINE a == jobs[j]
<1>1. PICK t \in 1..clock : Put(j, Finished(a, "cancelled", NoError, t))
  BY DEF CancelWaiting
<1> DEFINE b == Finished(a, "cancelled", NoError, t)
<1>2. /\ a \in Row /\ t \in Nat /\ "cancelled" \in Terminal
      /\ a.phase \in {"queued", "paused"}
  BY DEF CancelWaiting, IInv, TypeOK
<1>3. b \in Row /\ WrittenBy(a, b) /\ b.phase = "cancelled"
  BY <1>2, FinishedType, FinishedWrites
<1>4. Accounted(a, pauses[j]) /\ ValidJob(a)
  BY Accounts DEF IInv, RowInv
<1>5. Accounted(b, pauses[j])
  BY <1>2, <1>3, <1>4 DEF Accounted, WrittenBy, ValidJob, ValidPhase
<1>6. UNCHANGED <<clock, worker, author, pauses>>
  BY DEF CancelWaiting
<1>7. b.generation = a.generation
  BY <1>3 DEF WrittenBy
<1> HIDE DEF b
<1> QED BY <1>1, <1>2, <1>3, <1>5, <1>6, <1>7, ClientIInv DEF b

\* A worker that forgets its snapshot changes nothing else.
LEMMA AbandonIInv == ASSUME IInv, NEW w \in Worker, Abandon(w) PROVE IInv'
<1>1. TypeOK'
  BY DEF IInv, TypeOK, Abandon, Idle, WorkerState
<1>2. RowInv'
  BY DEF IInv, RowInv, Abandon
<1>3. \A v \in Worker : worker'[v] = worker[v] \/ worker'[v].pc = "idle"
  BY DEF IInv, TypeOK, Abandon, Idle
<1>4. HolderInv'
  <2> SUFFICES ASSUME NEW v \in Worker, worker'[v].pc = "holding"
               PROVE  Holder(v)'
    BY DEF HolderInv
  <2>1. worker'[v] = worker[v] /\ Holder(v)
    BY <1>3 DEF IInv, HolderInv
  <2> QED BY <2>1 DEF Holder, Abandon
<1>5. LeaseAccounting'
  BY Accounts, AccountsNext DEF IInv, Abandon
<1>6. TokenUnique'
  BY <1>3 DEF IInv, TokenUnique
<1> QED BY <1>1, <1>2, <1>4, <1>5, <1>6 DEF IInv

\* A sweep rewrites expired rows only: no live lease of a holder is among them.
LEMMA RecoveredFields ==
  ASSUME NEW b \in Row, NEW t \in Nat, NEW n \in Nat, ValidJob(b), b.phase \in Active,
         Accounted(b, n), ValidJob(Recovered(b, t))
  PROVE  /\ Recovered(b, t).phase \in {"queued", "failed"}
         /\ Recovered(b, t).generation = b.generation
         /\ Accounted(Recovered(b, t), n)
<1> DEFINE u == Unleased(b)
           r == Recovered(b, t)
<1>1. /\ u \in Row /\ u.recovery = b.recovery /\ u.generation = b.generation
      /\ u.dispatch = b.dispatch /\ u.error = b.error
  BY UnleasedType DEF Unleased, Row
<1>2. b.error = NoError /\ b.recovery # MaxRecovery /\ b.recovery \in 0..MaxRecovery
  BY DEF ValidJob, ValidPhase, Accounted, Row
<1>3. CASE b.recovery + 1 >= MaxRecovery
  <2>1. r = [u EXCEPT !.phase = "failed", !.recovery = @ + 1,
                      !.error = Exhausted, !.finished = t]
    BY <1>1, <1>3 DEF Recovered
  <2> HIDE DEF u, r
  <2>2. /\ r.phase = "failed" /\ r.error = Exhausted
        /\ r.recovery = b.recovery + 1 /\ r.generation = b.generation
        /\ r.dispatch = b.dispatch
    BY <1>1, <2>1 DEF Row
  <2> QED BY <1>2, <1>3, <2>2, ConstantsAssumption DEF Accounted, r, Row
<1>4. CASE ~(b.recovery + 1 >= MaxRecovery)
  <2>1. r = [u EXCEPT !.phase = "queued", !.recovery = @ + 1]
    BY <1>1, <1>4 DEF Recovered
  <2> HIDE DEF u, r
  <2>2. /\ r.phase = "queued" /\ r.error = NoError
        /\ r.recovery = b.recovery + 1 /\ r.generation = b.generation
        /\ r.dispatch = b.dispatch
    BY <1>1, <1>2, <2>1 DEF Row
  <2> QED BY <1>2, <1>4, <2>2, ConstantsAssumption DEF Accounted, r, Row
<1> QED BY <1>3, <1>4

\* A sweep accounts for each lease it ends as one recovery.
LEMMA RecoverExpiredIInv == ASSUME IInv, NEW w \in Worker, RecoverExpired(w) PROVE IInv'
<1> DEFINE Sweeps(t, S) ==
        /\ \A j \in S : ValidJob(Recovered(jobs[j], t))
        /\ jobs' = [j \in Job |-> IF j \in S THEN Recovered(jobs[j], t) ELSE jobs[j]]
        /\ worker' = [worker EXCEPT ![w].pc = "swept", ![w].read = t]
<1>1. PICK t \in 1..clock : \E S \in SUBSET Expired(SweepScope[w], t) : Sweeps(t, S)
  BY DEF RecoverExpired, Lockable
<1>2. PICK S \in SUBSET Expired(SweepScope[w], t) : Sweeps(t, S)
  BY <1>1
<1>3. UNCHANGED <<clock, author, pauses>>
  BY DEF RecoverExpired
<1>4. t \in Nat /\ t <= clock /\ clock \in Nat
  BY DEF IInv, TypeOK
<1>5. ASSUME NEW j \in Job, j \in S
      PROVE  /\ jobs[j].phase \in Active /\ jobs[j].expires <= clock
             /\ jobs'[j] \in Row /\ ValidJob(jobs'[j])
             /\ jobs'[j].phase \in {"queued", "failed"}
             /\ jobs'[j].generation = jobs[j].generation
             /\ Accounted(jobs'[j], pauses[j])
  <2> DEFINE b == jobs[j]
  <2>1. jobs'[j] = Recovered(b, t) /\ ValidJob(Recovered(b, t))
    BY <1>2, <1>5
  <2>2. b \in Row /\ ValidJob(b) /\ Accounted(b, pauses[j]) /\ pauses[j] \in Nat
    BY Accounts, ConstantsAssumption DEF IInv, RowInv, TypeOK
  <2>3. b.phase \in Active /\ b.expires <= t /\ b.expires \in Nat
    BY <1>2, <1>5, <2>2 DEF Expired, Row
  <2>4. Recovered(b, t) \in Row
    BY <1>4, <2>1, <2>2, RecoveredType
  <2>5. /\ Recovered(b, t).phase \in {"queued", "failed"}
        /\ Recovered(b, t).generation = b.generation
        /\ Accounted(Recovered(b, t), pauses[j])
    BY <1>4, <2>1, <2>2, <2>3, RecoveredFields
  <2> HIDE DEF b
  <2> QED BY <1>4, <2>1, <2>3, <2>4, <2>5 DEF b
<1>6. \A j \in Job : j \notin S => jobs'[j] = jobs[j]
  BY <1>2
<1>7. TypeOK'
  <2>1. jobs' \in [Job -> Row]
    BY <1>2, <1>5, <1>6 DEF IInv, TypeOK
  <2>2. worker' \in [Worker -> WorkerState]
    BY <1>2, <1>4 DEF IInv, TypeOK, WorkerState
  <2> QED BY <1>3, <2>1, <2>2 DEF IInv, TypeOK
<1>8. RowInv'
  BY <1>3, <1>5, <1>6 DEF IInv, RowInv
<1>9. HolderInv'
  <2> SUFFICES ASSUME NEW v \in Worker, worker'[v].pc = "holding"
               PROVE  Holder(v)'
    BY DEF HolderInv
  <2>1. worker'[v] = worker[v] /\ Holder(v)
    BY <1>2 DEF IInv, HolderInv, TypeOK, WorkerState
  <2> DEFINE j == worker[v].job
  <2>2. j \in Job /\ worker[v].expires \in Nat
    BY <2>1 DEF Holder, IInv, TypeOK, WorkerState
  <2>3. CASE j \in S
    <3>1. /\ jobs[j].phase \in Active /\ jobs[j].expires <= clock
          /\ jobs'[j].phase \notin Active
          /\ jobs'[j].generation = jobs[j].generation
      BY <1>5, <2>2, <2>3
    <3>2. ~(clock < worker[v].expires)
      BY <1>4, <2>1, <2>2, <3>1 DEF Holder
    <3> QED BY <1>3, <2>1, <3>1, <3>2 DEF Holder
  <2>4. CASE j \notin S
    BY <1>3, <1>6, <2>1, <2>2, <2>4 DEF Holder
  <2> QED BY <2>3, <2>4
<1>10. LeaseAccounting'
  BY <1>3, <1>5, <1>6, Accounts, AccountsNext DEF IInv
<1>11. TokenUnique'
  <2>1. \A v \in Worker :
            worker'[v].pc = "holding" => worker'[v] = worker[v]
    BY <1>2 DEF IInv, TypeOK, WorkerState
  <2> QED BY <2>1 DEF IInv, TokenUnique
<1> QED BY <1>7, <1>8, <1>9, <1>10, <1>11 DEF IInv

\* A lease raises the generation above every snapshot of the job.
LEMMA LeasedFields ==
  ASSUME NEW b \in Row, NEW o \in Owner, NEW t \in Nat
  PROVE  /\ Leased(b, o, t).phase = "leased"
         /\ Leased(b, o, t).dispatch = b.dispatch + 1
         /\ Leased(b, o, t).generation = b.generation + 1
         /\ Leased(b, o, t).recovery = b.recovery
         /\ Leased(b, o, t).error = b.error
         /\ Leased(b, o, t).owner = o
         /\ Leased(b, o, t).expires = t + LeaseDuration
  BY DEF Leased, Row

\* A new lease has a generation no snapshot has.
LEMMA LeaseNextIInv == ASSUME IInv, NEW w \in Worker, LeaseNext(w) PROVE IInv'
<1> DEFINE t == worker[w].read
           o == OwnerOf[w]
<1>1. PICK j \in Queued(SweepScope[w]) :
        LET b == Leased(jobs[j], o, t)
        IN  /\ Put(j, b)
            /\ worker' = [worker EXCEPT ![w] =
                    [pc |-> "holding", read |-> clock, job |-> j,
                     generation |-> b.generation, expires |-> b.expires]]
            /\ author' = [author EXCEPT ![j] = w]
  BY DEF LeaseNext, Lockable
<1> DEFINE a == jobs[j]
           b == Leased(a, o, t)
<1>2. UNCHANGED <<clock, pauses>>
  BY DEF LeaseNext
<1>3. j \in Job /\ a.phase = "queued" /\ a \in Row /\ t \in Nat /\ o \in Owner
  BY <1>1, ConstantsAssumption DEF Queued, IInv, TypeOK, WorkerState
<1>4. /\ b \in Row /\ b.phase = "leased" /\ b.generation = a.generation + 1
      /\ b.dispatch = a.dispatch + 1 /\ b.recovery = a.recovery /\ b.error = a.error
      /\ b.owner = o /\ b.expires \in Nat
  <2>1. t + LeaseDuration \in Nat
    BY <1>3, ConstantsAssumption
  <2> HIDE DEF a, o, t
  <2>2. b \in Row
    BY <1>3, LeasedType
  <2> QED BY <1>3, <2>1, <2>2, LeasedFields
<1>5. Accounted(a, pauses[j]) /\ a.generation \in Nat /\ a.recovery \in Nat /\ pauses[j] \in Nat
  BY <1>3, Accounts, ConstantsAssumption DEF IInv, TypeOK, Row
<1> HIDE DEF b, a, o, t
<1>6. /\ jobs' \in [Job -> Row] /\ jobs'[j] = b /\ ValidJob(b)
      /\ \A i \in Job : i # j => jobs'[i] = jobs[i]
  BY <1>1, <1>3, <1>4, PutRow DEF IInv, a, b
<1>7. worker' = [worker EXCEPT ![w] =
                    [pc |-> "holding", read |-> clock, job |-> j,
                     generation |-> b.generation, expires |-> b.expires]]
  BY <1>1 DEF a, b
<1>8. TypeOK'
  <2>1. worker' \in [Worker -> WorkerState]
    BY <1>3, <1>4, <1>5, <1>7 DEF IInv, TypeOK, WorkerState
  <2>2. author' \in [Job -> Worker \cup {NoWorker}]
    BY <1>1 DEF IInv, TypeOK
  <2> QED BY <1>2, <1>6, <2>1, <2>2 DEF IInv, TypeOK
<1>9. RowInv'
  BY <1>2, <1>4, <1>6 DEF IInv, RowInv
<1>10. HolderInv'
  <2> SUFFICES ASSUME NEW v \in Worker, worker'[v].pc = "holding"
               PROVE  Holder(v)'
    BY DEF HolderInv
  <2>1. author'[j] = w /\ \A i \in Job : i # j => author'[i] = author[i]
    BY <1>1, <1>3 DEF IInv, TypeOK
  <2>2. CASE v = w
    <3>1. /\ worker'[w].job = j /\ worker'[w].generation = b.generation
          /\ worker'[w].expires = b.expires
      BY <1>7 DEF IInv, TypeOK
    <3> QED BY <1>3, <1>4, <1>5, <1>6, <2>1, <2>2, <3>1 DEF Holder, o
  <2>3. CASE v # w
    <3>1. worker'[v] = worker[v] /\ Holder(v)
      BY <1>7, <2>3 DEF IInv, HolderInv, TypeOK
    <3>2. CASE worker[v].job = j
      <4>1. worker[v].generation \in 1..a.generation
        BY <3>1, <3>2 DEF Holder, a
      <4>2. ~(clock < worker[v].expires)
        BY <1>3, <3>1, <3>2 DEF Holder, a
      <4> QED BY <1>2, <1>3, <1>4, <1>5, <1>6, <3>1, <3>2, <4>1, <4>2 DEF Holder
    <3>3. CASE worker[v].job # j
      BY <1>2, <1>6, <2>1, <3>1, <3>3 DEF Holder
    <3> QED BY <3>2, <3>3
  <2> QED BY <2>2, <2>3
<1>11. LeaseAccounting'
  <2>1. Accounted(b, pauses[j])
    BY <1>3, <1>4, <1>5 DEF Accounted
  <2> QED BY <1>2, <1>6, <2>1, Accounts, AccountsNext DEF IInv
<1>12. TokenUnique'
  <2>1. \A v \in Worker : v # w => worker'[v] = worker[v]
    BY <1>7 DEF IInv, TypeOK
  <2>2. worker'[w].job = j /\ worker'[w].generation = b.generation
    BY <1>7 DEF IInv, TypeOK
  <2>3. ASSUME NEW v \in Worker, worker[v].pc = "holding", worker[v].job = j
        PROVE  worker[v].generation # b.generation
    <3>1. worker[v].generation \in 1..a.generation
      BY <2>3 DEF IInv, HolderInv, Holder, a
    <3> QED BY <1>4, <1>5, <3>1
  <2> QED BY <2>1, <2>2, <2>3 DEF IInv, TokenUnique
<1> QED BY <1>8, <1>9, <1>10, <1>11, <1>12 DEF IInv

\* A call under a lease writes the row of the worker that makes it, and no other.
LEMMA OwnerCallIInv == ASSUME IInv, NEW w \in Worker, OwnerCall(w) PROVE IInv'
<1>1. PICK j \in Job, b \in Row, t \in Nat : Writes(w, j, b, t)
  BY OwnerWrites
<1> DEFINE a == jobs[j]
<1>2. /\ j = worker[w].job /\ worker[w].pc = "holding" /\ WrittenBy(a, b)
      /\ Put(j, b) /\ UNCHANGED clock
      /\ worker' = [worker EXCEPT ![w].read = clock, ![w].expires = b.expires]
      /\ author' = [author EXCEPT ![j] = w]
  BY <1>1 DEF Writes, OwnerPut
<1>3. /\ a.phase \in Active /\ a.generation = worker[w].generation
      /\ a.owner = OwnerOf[w]
  BY <1>1, <1>2 DEF Writes, Owns
<1>4. /\ a \in Row /\ ValidJob(a) /\ Accounted(a, pauses[j])
      /\ pauses \in [Job -> 0..MaxPauses] /\ pauses[j] \in Nat
  BY Accounts, ConstantsAssumption DEF IInv, RowInv, TypeOK
<1>5. /\ jobs' \in [Job -> Row] /\ jobs'[j] = b /\ ValidJob(b)
      /\ \A i \in Job : i # j => jobs'[i] = jobs[i]
  BY <1>2, PutRow DEF IInv
<1>6. /\ author'[j] = w /\ author[j] = w
      /\ \A i \in Job : author'[i] = author[i]
  <2>1. Holder(w)
    BY <1>2 DEF IInv, HolderInv
  <2> QED BY <1>2, <1>3, <2>1 DEF Holder, IInv, TypeOK
<1>7. /\ pauses' \in [Job -> 0..MaxPauses]
      /\ pauses'[j] = IF b.phase = "paused" THEN pauses[j] + 1 ELSE pauses[j]
      /\ \A i \in Job : i # j => pauses'[i] = pauses[i]
  <2>1. CASE b.phase = "paused"
    <3>1. pauses' = [pauses EXCEPT ![j] = @ + 1] /\ pauses[j] < MaxPauses
      BY <1>1, <2>1 DEF Writes
    <3>2. pauses[j] + 1 \in 0..MaxPauses
      BY <1>4, <3>1, ConstantsAssumption
    <3> QED BY <1>4, <2>1, <3>1, <3>2
  <2>2. CASE b.phase # "paused"
    BY <1>1, <1>4, <2>2 DEF Writes
  <2> QED BY <2>1, <2>2
<1>8. TypeOK'
  <2>1. worker' \in [Worker -> WorkerState]
    <3>1. b.expires \in Nat /\ clock \in Nat
      BY DEF Row, IInv, TypeOK
    <3>2. /\ worker \in [Worker -> WorkerState]
          /\ worker' = [worker EXCEPT ![w].read = clock, ![w].expires = b.expires]
      BY <1>2 DEF IInv, TypeOK
    <3> QED BY <3>1, <3>2 DEF WorkerState
  <2>2. author' \in [Job -> Worker \cup {NoWorker}]
    BY <1>2 DEF IInv, TypeOK
  <2> QED BY <1>2, <1>5, <1>7, <2>1, <2>2 DEF IInv, TypeOK
<1>9. RowInv'
  <2>1. b.phase # "absent"
    BY <1>2 DEF WrittenBy
  <2> QED BY <1>5, <1>7, <2>1 DEF IInv, RowInv
<1>10. HolderInv'
  <2> SUFFICES ASSUME NEW v \in Worker, worker'[v].pc = "holding"
               PROVE  Holder(v)'
    BY DEF HolderInv
  <2>1. CASE v = w
    <3>1. /\ worker'[w].job = j /\ worker'[w].generation = a.generation
          /\ worker'[w].expires = b.expires /\ Holder(w)
      BY <1>2, <1>3 DEF IInv, HolderInv, TypeOK, WorkerState
    <3>2. b.phase \notin Active => ~(clock < b.expires)
      BY <1>2 DEF WrittenBy, IInv, TypeOK
    <3> QED BY <1>2, <1>3, <1>5, <1>6, <2>1, <3>1, <3>2 DEF Holder, WrittenBy
  <2>2. CASE v # w
    <3>1. worker'[v] = worker[v] /\ worker[v].pc = "holding" /\ Holder(v)
      BY <1>2, <2>2 DEF IInv, HolderInv, TypeOK
    <3>2. CASE worker[v].job = j
      <4>1. a.generation # worker[v].generation
        BY <1>6, <2>2, <3>1, <3>2 DEF Holder
      <4>2. b.generation = a.generation
        BY <1>2 DEF WrittenBy
      <4> QED BY <1>2, <1>5, <3>1, <3>2, <4>1, <4>2 DEF Holder
    <3>3. CASE worker[v].job # j
      BY <1>2, <1>5, <1>6, <3>1, <3>3 DEF Holder
    <3> QED BY <3>2, <3>3
  <2> QED BY <2>1, <2>2
<1>11. LeaseAccounting'
  <2>1. a.error = NoError /\ a.recovery # MaxRecovery
    BY <1>3, <1>4 DEF ValidJob, ValidPhase, Accounted
  <2>2. Accounted(b, pauses'[j])
    BY <1>2, <1>3, <1>4, <1>7, <2>1, ConstantsAssumption DEF Accounted, WrittenBy, Row
  <2> QED BY <1>5, <1>7, <2>2, Accounts, AccountsNext DEF IInv
<1>12. TokenUnique'
  <2>1. \A v \in Worker : /\ worker'[v].pc = worker[v].pc
                           /\ worker'[v].job = worker[v].job
                           /\ worker'[v].generation = worker[v].generation
    BY <1>2 DEF IInv, TypeOK, WorkerState
  <2> QED BY <2>1 DEF IInv, TokenUnique
<1> QED BY <1>8, <1>9, <1>10, <1>11, <1>12 DEF IInv

\* Every step keeps the inductive invariant.
LEMMA NextIInv == ASSUME IInv, [Next]_vars PROVE IInv'
<1>1. CASE Tick
  BY <1>1, TickIInv
<1>2. ASSUME NEW j \in Job, Enqueue(j) \/ Resume(j) \/ CancelWaiting(j)
      PROVE  IInv'
  BY <1>2, EnqueueIInv, ResumeIInv, CancelWaitingIInv
<1>3. ASSUME NEW w \in Worker,
             RecoverExpired(w) \/ LeaseNext(w) \/ Abandon(w) \/ OwnerCall(w)
      PROVE  IInv'
  BY <1>3, RecoverExpiredIInv, LeaseNextIInv, AbandonIInv, OwnerCallIInv
<1>4. CASE UNCHANGED vars
  <2>1. RowInv' /\ TypeOK'
    BY <1>4 DEF IInv, RowInv, TypeOK, vars
  <2>2. HolderInv'
    BY <1>4 DEF IInv, HolderInv, Holder, vars
  <2>3. LeaseAccounting'
    BY <1>4, Accounts, AccountsNext DEF IInv, vars
  <2>4. TokenUnique'
    BY <1>4 DEF IInv, TokenUnique, vars
  <2> QED BY <2>1, <2>2, <2>3, <2>4 DEF IInv
<1> QED BY <1>1, <1>2, <1>3, <1>4 DEF Next

\* The inductive invariant is an invariant.
THEOREM Invariance == Spec => []IInv
  BY InitIInv, NextIInv, PTL DEF Spec
-----------------------------------------------------------------------------
(* What follows from it.                                                   *)

\* Every row the stores write is a well-formed WorkerJob, and every worker's
\* snapshot names a job or none.
THEOREM TypeCorrect == Spec => []TypeOK
<1>1. IInv => TypeOK
  BY DEF IInv
<1> QED BY <1>1, Invariance, PTL

\* Every lease ever granted is paused, recovered, live, or the job's last one: no
\* recovery is lost or counted twice, and a job fails by exhaustion exactly when
\* its recoveries reach max_recovery_attempts.
THEOREM LeasesAccounted == Spec => []LeaseAccounting
<1>1. IInv => LeaseAccounting
  BY DEF IInv
<1> QED BY <1>1, Invariance, PTL

\* The lease generation of a job identifies one worker, whatever owner names the
\* workers share.
THEOREM TokensUnique == Spec => []TokenUnique
<1>1. IInv => TokenUnique
  BY DEF IInv
<1> QED BY <1>1, Invariance, PTL

\* Until the expiry a worker was last told, its job stays leased to it: no sweep,
\* however old its clock reading, and no client ends a live lease.
THEOREM LiveLeasesKept == Spec => []NoStealBeforeExpiry
<1>1. ASSUME IInv PROVE NoStealBeforeExpiry
  <2> SUFFICES ASSUME NEW w \in Worker, worker[w].pc = "holding",
                      clock < worker[w].expires
               PROVE  LET b == jobs[worker[w].job]
                      IN  /\ b.phase \in Active
                          /\ b.generation = worker[w].generation
                          /\ b.owner = OwnerOf[w]
    BY DEF NoStealBeforeExpiry
  <2> QED BY <1>1 DEF IInv, HolderInv, Holder
<1> QED BY <1>1, Invariance, PTL

\* Between two leases of a job, every write made under a lease is by the worker
\* that took the first: a worker that lost its lease never writes again.
THEOREM WritesFenced == Spec => FencedWrites
<1> DEFINE Fenced == \A j \in Job : author'[j] # author[j] =>
                         jobs'[j].generation = jobs[j].generation + 1
<1>1. ASSUME IInv, [Next]_vars PROVE Fenced
  <2>1. CASE UNCHANGED author
    BY <2>1
  <2>2. ASSUME NEW w \in Worker, LeaseNext(w) PROVE Fenced
    <3> DEFINE o == OwnerOf[w]
               t == worker[w].read
    <3>1. PICK j \in Queued(SweepScope[w]) :
            /\ Put(j, Leased(jobs[j], o, t))
            /\ author' = [author EXCEPT ![j] = w]
      BY <2>2 DEF LeaseNext, Lockable
    <3>2. j \in Job /\ jobs[j] \in Row /\ t \in Nat /\ o \in Owner
      BY <1>1, <3>1, ConstantsAssumption DEF Queued, IInv, TypeOK, WorkerState
    <3> HIDE DEF o, t
    <3>3. jobs'[j].generation = jobs[j].generation + 1
      BY <1>1, <3>1, <3>2, LeasedType, LeasedFields, PutRow DEF IInv
    <3>4. \A i \in Job : i # j => author'[i] = author[i]
      BY <1>1, <3>1 DEF IInv, TypeOK
    <3> QED BY <3>3, <3>4
  <2>3. ASSUME NEW w \in Worker, OwnerCall(w) PROVE Fenced
    <3>1. PICK j \in Job, b \in Row, t \in Nat : Writes(w, j, b, t)
      BY <1>1, <2>3, OwnerWrites
    <3>2. /\ j = worker[w].job /\ worker[w].pc = "holding"
          /\ jobs[j].generation = worker[w].generation
          /\ author' = [author EXCEPT ![j] = w]
      BY <3>1 DEF Writes, OwnerPut, Owns
    <3>3. author[j] = w
      BY <1>1, <3>2 DEF IInv, HolderInv, Holder
    <3> QED BY <1>1, <3>2, <3>3 DEF IInv, TypeOK
  <2>4. ASSUME NEW j \in Job, Enqueue(j) \/ Resume(j) \/ CancelWaiting(j)
        PROVE  UNCHANGED author
    BY <2>4 DEF Enqueue, Resume, CancelWaiting
  <2>5. ASSUME NEW w \in Worker, RecoverExpired(w) \/ Abandon(w)
        PROVE  UNCHANGED author
    BY <2>5 DEF RecoverExpired, Abandon
  <2> HIDE DEF Fenced
  <2> QED BY <1>1, <2>1, <2>2, <2>3, <2>4, <2>5 DEF Next, Tick, vars
<1>2. IInv /\ [Next]_vars => [Fenced]_vars
  BY <1>1
<1>3. [][Fenced]_vars => FencedWrites
  BY PTL DEF FencedWrites
<1> QED BY <1>2, <1>3, Invariance, PTL DEF Spec
-----------------------------------------------------------------------------
(* validate_job compares times that different processes read at different  *)
(* moments: queued_at, started_at, lease_acquired_at and finished_at.  It  *)
(* never refuses a recovery, a lease or the last write of a live lease,    *)
(* for any ledger and any interleaving, as long as the clocks agree.       *)

\* Nothing is stamped with a time that has not come.
StampedBy(b, t) == b.queued <= t /\ b.started <= t

PastInv == \A j \in Job : StampedBy(jobs[j], clock)

\* The next time a holder reads is no earlier than any stamp of its row.
Fresh(w) ==
    LET b == jobs[worker[w].job]
    IN  /\ worker[w].read >= 1
        /\ b.phase \in Active /\ b.generation = worker[w].generation =>
                StampedBy(b, worker[w].read)

FreshInv == \A w \in Worker : worker[w].pc = "holding" => Fresh(w)

\* A worker between the two transactions of lease_next has read a time.
SweptInv == \A w \in Worker : worker[w].pc = "swept" => worker[w].read \in 1..clock

TimeInv == IInv /\ PastInv /\ FreshInv /\ SweptInv

\* Before anything is enqueued nothing is stamped.
LEMMA InitTimeInv == Init => TimeInv
<1> SUFFICES ASSUME Init PROVE TimeInv
  OBVIOUS
<1>1. IInv
  BY InitIInv
<1>2. PastInv
  BY DEF Init, PastInv, StampedBy, AbsentRow
<1>3. FreshInv /\ SweptInv
  BY DEF Init, FreshInv, SweptInv, Idle
<1> QED BY <1>1, <1>2, <1>3 DEF TimeInv
-----------------------------------------------------------------------------
(* The stamps each operation leaves.                                       *)

\* A lease, a renewal, a pause, a resume and an end leave both stamps alone.
LEMMA StampsKept ==
  ASSUME NEW b \in Row, NEW o \in Owner, NEW t \in Nat,
         NEW p \in Terminal, NEW e \in {NoError, WorkerError}
  PROVE  \A c \in {Leased(b, o, t), Renewed(b, t), Paused(b), Resumed(b),
                   Finished(b, p, e, t)} :
            c.queued = b.queued /\ c.started = b.started
  BY DEF Leased, Renewed, Paused, Resumed, Finished, Unleased, Row

\* So does a recovery, whatever it makes of the job.
LEMMA RecoveredStamps ==
  ASSUME NEW b \in Row, NEW t \in Nat
  PROVE  Recovered(b, t).queued = b.queued /\ Recovered(b, t).started = b.started
<1> DEFINE u == Unleased(b)
<1>1. u \in Row /\ u.queued = b.queued /\ u.started = b.started
  BY UnleasedType DEF Unleased, Row
<1>2. CASE b.recovery + 1 >= MaxRecovery
  <2>1. Recovered(b, t) = [u EXCEPT !.phase = "failed", !.recovery = @ + 1,
                                    !.error = Exhausted, !.finished = t]
    BY <1>2 DEF Recovered
  <2> HIDE DEF u
  <2> QED BY <1>1, <2>1 DEF Row
<1>3. CASE ~(b.recovery + 1 >= MaxRecovery)
  <2>1. Recovered(b, t) = [u EXCEPT !.phase = "queued", !.recovery = @ + 1]
    BY <1>3 DEF Recovered
  <2> HIDE DEF u
  <2> QED BY <1>1, <2>1 DEF Row
<1> QED BY <1>2, <1>3

\* A start stamps the time it is judged by, if nothing did before.
LEMMA RunningStamps ==
  ASSUME NEW b \in Row, NEW t \in Nat
  PROVE  /\ Running(b, t).queued = b.queued
         /\ Running(b, t).started \in {b.started, t}
  BY DEF Running, Row

\* Every call under a lease leaves stamps of the past.
LEMMA OwnerStamps ==
  ASSUME TimeInv, NEW w \in Worker, OwnerCall(w)
  PROVE  worker[w].job \in Job /\ StampedBy(jobs'[worker[w].job], clock)
<1> DEFINE j == worker[w].job
           a == jobs[j]
<1>1. worker[w].pc = "holding"
  BY DEF OwnerCall, MarkRunning, RenewLease, Pause, Succeed, Fail, CancelOwned
<1>2. j \in Job /\ a \in Row /\ StampedBy(a, clock) /\ clock \in Nat
  BY <1>1 DEF TimeInv, PastInv, IInv, HolderInv, Holder, TypeOK
<1>3. \A t \in worker[w].read..clock : t \in Nat /\ t <= clock
  BY DEF TimeInv, IInv, TypeOK, WorkerState
<1>4. \A b : OwnerPut(w, b) => jobs'[j] = b
  BY <1>2 DEF OwnerPut, Put, TimeInv, IInv, TypeOK
<1> SUFFICES StampedBy(jobs'[j], clock)
  BY <1>2
<1> HIDE DEF a, j
<1>5. ASSUME NEW b, OwnerPut(w, b), b.queued = a.queued,
             NEW t \in worker[w].read..clock, b.started \in {a.started, t}
      PROVE  StampedBy(jobs'[j], clock)
  BY <1>2, <1>3, <1>4, <1>5 DEF StampedBy
<1>6. CASE MarkRunning(w)
  <2>1. PICK t \in worker[w].read..clock : OwnerPut(w, Running(a, t))
    BY <1>6 DEF MarkRunning, a, j
  <2> QED BY <1>2, <1>3, <1>5, <2>1, RunningStamps
<1>7. CASE RenewLease(w)
  <2>1. PICK t \in worker[w].read..clock : OwnerPut(w, Renewed(a, t))
    BY <1>7 DEF RenewLease, a, j
  <2>2. Renewed(a, t).queued = a.queued /\ Renewed(a, t).started = a.started
    BY <1>2 DEF Renewed, Row
  <2> QED BY <1>5, <2>1, <2>2
<1>8. CASE Pause(w)
  <2>1. PICK t \in worker[w].read..clock : OwnerPut(w, Paused(a))
    BY <1>8 DEF Pause, a, j
  <2>2. Paused(a).queued = a.queued /\ Paused(a).started = a.started
    BY <1>2 DEF Paused, Unleased, Row
  <2> QED BY <1>5, <2>1, <2>2
<1>9. ASSUME NEW c \in Row, c.queued = a.queued, c.started = a.started,
             NEW t \in worker[w].read..clock, NEW p, NEW e,
             OwnerPut(w, Finished(c, p, e, t))
      PROVE  StampedBy(jobs'[j], clock)
  <2>1. /\ Finished(c, p, e, t).queued = c.queued
        /\ Finished(c, p, e, t).started = c.started
    BY DEF Finished, Unleased, Row
  <2> QED BY <1>5, <1>9, <2>1
<1>10. CASE Succeed(w) \/ Fail(w)
  <2>1. PICK t \in worker[w].read..clock, p \in Terminal, e \in {NoError, WorkerError} :
            OwnerPut(w, Finished(a, p, e, t))
    BY <1>10 DEF Succeed, Fail, a, j
  <2> QED BY <1>2, <1>9, <2>1
<1>11. CASE CancelOwned(w)
  <2>1. PICK t \in worker[w].read..clock, k \in BOOLEAN :
            OwnerPut(w, Finished([a EXCEPT !.checkpoint = @ \/ k],
                                 "cancelled", NoError, t))
    BY <1>11 DEF CancelOwned, a, j
  <2> DEFINE c == [a EXCEPT !.checkpoint = @ \/ k]
  <2>2. c \in Row /\ c.queued = a.queued /\ c.started = a.started
    BY <1>2 DEF Row
  <2>3. OwnerPut(w, Finished(c, "cancelled", NoError, t))
    BY <2>1
  <2> HIDE DEF c
  <2> QED BY <1>9, <2>2, <2>3
<1> QED BY <1>6, <1>7, <1>8, <1>10, <1>11 DEF OwnerCall
-----------------------------------------------------------------------------
(* Every step preserves the invariant.                                     *)

\* A holder stays fresh when its row and its snapshot are as they were, when it
\* has just called, and when the row is no longer its lease.
Carried(v) ==
    \/ worker'[v] = worker[v] /\ jobs'[worker[v].job] = jobs[worker[v].job]
    \/ worker'[v].read = clock'
    \/ /\ worker'[v].read = worker[v].read /\ worker[v].pc = "holding"
       /\ LET b == jobs'[worker'[v].job]
          IN  b.phase \notin Active \/ b.generation # worker'[v].generation

\* What is to be shown of a step: stamps of the past, and holders carried.
LEMMA StepTimeInv ==
  ASSUME TimeInv, [Next]_vars, PastInv', SweptInv',
         \A v \in Worker : worker'[v].pc = "holding" => Carried(v)
  PROVE  TimeInv'
<1>1. IInv'
  BY NextIInv DEF TimeInv
<1>2. FreshInv'
  <2> SUFFICES ASSUME NEW v \in Worker, worker'[v].pc = "holding"
               PROVE  Fresh(v)'
    BY DEF FreshInv
  <2>1. worker'[v].job \in Job /\ clock' >= 1
    BY <1>1 DEF IInv, HolderInv, Holder, TypeOK
  <2>2. CASE worker'[v] = worker[v] /\ jobs'[worker[v].job] = jobs[worker[v].job]
    BY <2>2 DEF TimeInv, FreshInv, Fresh
  <2>3. CASE worker'[v].read = clock'
    BY <2>1, <2>3 DEF PastInv, Fresh
  <2>4. CASE /\ worker'[v].read = worker[v].read /\ worker[v].pc = "holding"
             /\ LET b == jobs'[worker'[v].job]
                IN  b.phase \notin Active \/ b.generation # worker'[v].generation
    BY <2>4 DEF TimeInv, FreshInv, Fresh
  <2> QED BY <2>2, <2>3, <2>4 DEF Carried
<1> QED BY <1>1, <1>2 DEF TimeInv

\* The clock moves on.
LEMMA TickTimeInv == ASSUME TimeInv, Tick PROVE TimeInv'
<1>1. clock \in Nat /\ clock' = clock + 1 /\ UNCHANGED <<jobs, worker>>
  BY DEF TimeInv, IInv, TypeOK, Tick
<1>2. PastInv'
  <2> SUFFICES ASSUME NEW j \in Job PROVE StampedBy(jobs'[j], clock')
    BY DEF PastInv
  <2>1. StampedBy(jobs[j], clock) /\ jobs[j].queued \in Nat /\ jobs[j].started \in Nat
    BY DEF TimeInv, PastInv, IInv, TypeOK, Row
  <2> QED BY <1>1, <2>1 DEF StampedBy
<1>3. SweptInv'
  BY <1>1 DEF TimeInv, SweptInv
<1>4. [Next]_vars
  BY DEF Next
<1> QED BY <1>1, <1>2, <1>3, <1>4, StepTimeInv DEF Carried

\* A call of a client makes a row nobody holds of a row nobody held.
LEMMA ClientTimeInv ==
  ASSUME TimeInv, NEW j \in Job, Enqueue(j) \/ Resume(j) \/ CancelWaiting(j)
  PROVE  TimeInv'
<1> DEFINE a == jobs[j]
<1>1. a \in Row /\ StampedBy(a, clock) /\ clock \in Nat
  BY DEF TimeInv, PastInv, IInv, TypeOK
<1>2. /\ UNCHANGED <<clock, worker>>
      /\ \A i \in Job : i # j => jobs'[i] = jobs[i]
  BY DEF Enqueue, Resume, CancelWaiting, Put, TimeInv, IInv, TypeOK
<1>3. \A b : Put(j, b) => jobs'[j] = b
  BY DEF Put, TimeInv, IInv, TypeOK
<1>4. StampedBy(jobs'[j], clock) /\ jobs'[j].phase \notin Active
  <2>1. CASE Enqueue(j)
    <3>1. PICK t \in 1..clock : Put(j, [AbsentRow EXCEPT !.phase = "queued", !.queued = t])
      BY <2>1 DEF Enqueue
    <3> DEFINE b == [AbsentRow EXCEPT !.phase = "queued", !.queued = t]
    <3>2. b.phase = "queued" /\ b.queued = t /\ b.started = 0
      BY DEF AbsentRow
    <3>3. jobs'[j] = b
      BY <1>3, <3>1
    <3> HIDE DEF b
    <3> QED BY <1>1, <3>2, <3>3 DEF StampedBy
  <2>2. CASE Resume(j)
    <3>1. jobs'[j] = Resumed(a)
      BY <1>3, <2>2 DEF Resume
    <3> QED BY <1>1, <3>1 DEF Resumed, Row, StampedBy
  <2>3. CASE CancelWaiting(j)
    <3>1. PICK t \in 1..clock : jobs'[j] = Finished(a, "cancelled", NoError, t)
      BY <1>3, <2>3 DEF CancelWaiting
    <3> QED BY <1>1, <3>1 DEF Finished, Unleased, Row, StampedBy
  <2> QED BY <2>1, <2>2, <2>3
<1>5. PastInv'
  BY <1>2, <1>4 DEF TimeInv, PastInv
<1>6. SweptInv'
  BY <1>2 DEF TimeInv, SweptInv
<1>7. ASSUME NEW v \in Worker, worker'[v].pc = "holding" PROVE Carried(v)
  <2>1. worker[v].job \in Job
    BY <1>2, <1>7 DEF TimeInv, IInv, HolderInv, Holder
  <2> QED BY <1>2, <1>4, <1>7, <2>1 DEF Carried
<1>8. [Next]_vars
  BY DEF Next
<1> QED BY <1>5, <1>6, <1>7, <1>8, StepTimeInv

\* A sweep ends leases and stamps no start; its worker has read a time.
LEMMA RecoverTimeInv == ASSUME TimeInv, NEW w \in Worker, RecoverExpired(w) PROVE TimeInv'
<1>1. PICK t \in 1..clock : \E S \in SUBSET Expired(SweepScope[w], t) :
        /\ \A j \in S : ValidJob(Recovered(jobs[j], t))
        /\ jobs' = [j \in Job |-> IF j \in S THEN Recovered(jobs[j], t) ELSE jobs[j]]
        /\ worker' = [worker EXCEPT ![w].pc = "swept", ![w].read = t]
  BY DEF RecoverExpired, Lockable
<1>2. PICK S \in SUBSET Expired(SweepScope[w], t) :
        /\ \A j \in S : ValidJob(Recovered(jobs[j], t))
        /\ jobs' = [j \in Job |-> IF j \in S THEN Recovered(jobs[j], t) ELSE jobs[j]]
        /\ worker' = [worker EXCEPT ![w].pc = "swept", ![w].read = t]
  BY <1>1
<1>3. clock' = clock /\ clock \in Nat /\ t \in Nat /\ UNCHANGED pauses
  BY DEF RecoverExpired, TimeInv, IInv, TypeOK
<1>4. ASSUME NEW j \in Job, j \in S
      PROVE  StampedBy(jobs'[j], clock) /\ jobs'[j].phase \notin Active
  <2> DEFINE b == jobs[j]
  <2>1. /\ b \in Row /\ ValidJob(b) /\ StampedBy(b, clock)
        /\ Accounted(b, pauses[j]) /\ pauses[j] \in Nat
    BY Accounts, ConstantsAssumption DEF TimeInv, PastInv, IInv, RowInv, TypeOK
  <2>2. b.phase \in Active
    BY <1>4 DEF Expired
  <2>3. ValidJob(Recovered(b, t)) /\ jobs'[j] = Recovered(b, t)
    BY <1>2, <1>4
  <2> HIDE DEF b
  <2>4. Recovered(b, t).phase \in {"queued", "failed"}
    BY <1>3, <2>1, <2>2, <2>3, RecoveredFields
  <2>5. Recovered(b, t).queued = b.queued /\ Recovered(b, t).started = b.started
    BY <1>3, <2>1, RecoveredStamps
  <2> QED BY <2>1, <2>3, <2>4, <2>5 DEF StampedBy
<1>5. \A j \in Job : j \notin S => jobs'[j] = jobs[j]
  BY <1>2
<1>6. PastInv'
  BY <1>3, <1>4, <1>5 DEF TimeInv, PastInv
<1>7. SweptInv'
  BY <1>2, <1>3 DEF TimeInv, SweptInv, IInv, TypeOK, WorkerState
<1>8. ASSUME NEW v \in Worker, worker'[v].pc = "holding" PROVE Carried(v)
  <2>1. worker'[v] = worker[v] /\ worker[v].pc = "holding"
    BY <1>2, <1>8 DEF TimeInv, IInv, TypeOK, WorkerState
  <2>2. worker[v].job \in Job
    BY <2>1 DEF TimeInv, IInv, HolderInv, Holder
  <2> QED BY <1>4, <1>5, <2>1, <2>2 DEF Carried
<1>9. [Next]_vars
  BY DEF Next
<1> QED BY <1>6, <1>7, <1>8, <1>9, StepTimeInv

\* A lease goes to a generation nobody holds, and its holder has just called.
LEMMA LeaseTimeInv == ASSUME TimeInv, NEW w \in Worker, LeaseNext(w) PROVE TimeInv'
<1> DEFINE t == worker[w].read
           o == OwnerOf[w]
<1>1. PICK j \in Queued(SweepScope[w]) :
        LET b == Leased(jobs[j], o, t)
        IN  /\ Put(j, b)
            /\ worker' = [worker EXCEPT ![w] =
                    [pc |-> "holding", read |-> clock, job |-> j,
                     generation |-> b.generation, expires |-> b.expires]]
  BY DEF LeaseNext, Lockable
<1> DEFINE a == jobs[j]
<1>2. /\ j \in Job /\ a \in Row /\ t \in Nat /\ o \in Owner
      /\ StampedBy(a, clock) /\ clock \in Nat /\ clock' = clock
  <2>1. j \in Job /\ o \in Owner
    BY <1>1, ConstantsAssumption DEF Queued
  <2>2. a \in Row /\ t \in Nat /\ clock \in Nat
    BY <2>1 DEF TimeInv, IInv, TypeOK, WorkerState
  <2>3. StampedBy(a, clock)
    BY <2>1 DEF TimeInv, PastInv
  <2>4. clock' = clock
    BY DEF LeaseNext
  <2> QED BY <2>1, <2>2, <2>3, <2>4
<1>3. /\ jobs'[j] = Leased(a, o, t)
      /\ \A i \in Job : i # j => jobs'[i] = jobs[i]
  BY <1>1, <1>2 DEF Put, TimeInv, IInv, TypeOK
<1>4. worker'[w].read = clock' /\ \A v \in Worker : v # w => worker'[v] = worker[v]
  BY <1>1, <1>2 DEF TimeInv, IInv, TypeOK
<1>5. worker'[w].pc = "holding"
  BY <1>1 DEF TimeInv, IInv, TypeOK
<1> HIDE DEF a, o, t
<1>6. /\ jobs'[j].queued = a.queued /\ jobs'[j].started = a.started
      /\ jobs'[j].generation = a.generation + 1
  BY <1>2, <1>3 DEF Leased, Row
<1>7. PastInv'
  BY <1>2, <1>3, <1>6 DEF TimeInv, PastInv, StampedBy
<1>8. SweptInv'
  BY <1>2, <1>4, <1>5 DEF TimeInv, SweptInv
<1>9. ASSUME NEW v \in Worker, worker'[v].pc = "holding" PROVE Carried(v)
  <2>1. CASE v = w
    BY <1>4, <2>1 DEF Carried
  <2>2. CASE v # w
    <3>1. worker'[v] = worker[v] /\ Holder(v)
      BY <1>4, <1>9, <2>2 DEF TimeInv, IInv, HolderInv
    <3>2. CASE worker[v].job = j
      <4>1. worker[v].generation <= a.generation /\ a.generation \in Nat
        BY <1>2, <3>1, <3>2 DEF Holder, a, Row
      <4>2. worker[v].generation \in Nat
        BY DEF TimeInv, IInv, TypeOK, WorkerState
      <4>3. jobs'[j].generation # worker[v].generation
        BY <1>6, <4>1, <4>2
      <4> QED BY <1>9, <3>1, <3>2, <4>3 DEF Carried
    <3>3. CASE worker[v].job # j
      BY <1>3, <3>1, <3>3 DEF Carried, Holder
    <3> QED BY <3>2, <3>3
  <2> QED BY <2>1, <2>2
<1>10. [Next]_vars
  BY DEF Next
<1> QED BY <1>7, <1>8, <1>9, <1>10, StepTimeInv

\* A worker that gives up changes no row.
LEMMA AbandonTimeInv == ASSUME TimeInv, NEW w \in Worker, Abandon(w) PROVE TimeInv'
<1>1. UNCHANGED <<clock, jobs>>
  BY DEF Abandon
<1>2. \A v \in Worker : worker'[v] = worker[v] \/ worker'[v].pc = "idle"
  BY DEF TimeInv, IInv, TypeOK, Abandon, Idle
<1>3. PastInv' /\ SweptInv'
  BY <1>1, <1>2 DEF TimeInv, PastInv, SweptInv
<1>4. [Next]_vars
  BY DEF Next
<1> QED BY <1>1, <1>2, <1>3, <1>4, StepTimeInv DEF Carried

\* A call under a lease stamps the past, and nobody else holds that generation.
LEMMA OwnerTimeInv == ASSUME TimeInv, NEW w \in Worker, OwnerCall(w) PROVE TimeInv'
<1>1. PICK j \in Job, b \in Row, t \in Nat : Writes(w, j, b, t)
  BY OwnerWrites DEF TimeInv
<1>2. /\ j = worker[w].job /\ worker[w].pc = "holding"
      /\ jobs[j].generation = worker[w].generation
      /\ b.generation = jobs[j].generation /\ clock' = clock
  BY <1>1 DEF Writes, Owns, WrittenBy, OwnerPut
<1>3. jobs'[j] = b /\ \A i \in Job : i # j => jobs'[i] = jobs[i]
  BY <1>1 DEF Writes, OwnerPut, Put, TimeInv, IInv, TypeOK
<1>4. /\ worker'[w].read = clock' /\ worker'[w].pc = "holding"
      /\ \A v \in Worker : v # w => worker'[v] = worker[v]
  <2>1. /\ worker \in [Worker -> WorkerState]
        /\ worker' = [worker EXCEPT ![w].read = clock, ![w].expires = b.expires]
    BY <1>1 DEF Writes, OwnerPut, TimeInv, IInv, TypeOK
  <2> QED BY <1>2, <2>1 DEF WorkerState
<1>5. PastInv'
  BY <1>2, <1>3, OwnerStamps DEF TimeInv, PastInv
<1>6. SweptInv'
  BY <1>2, <1>4 DEF TimeInv, SweptInv
<1>7. ASSUME NEW v \in Worker, worker'[v].pc = "holding" PROVE Carried(v)
  <2>1. CASE v = w
    BY <1>4, <2>1 DEF Carried
  <2>2. CASE v # w
    <3>1. worker'[v] = worker[v] /\ Holder(v)
      BY <1>4, <1>7, <2>2 DEF TimeInv, IInv, HolderInv
    <3>2. CASE worker[v].job = j
      <4>1. worker[v].generation # worker[w].generation
        BY <1>2, <1>7, <2>2, <3>1, <3>2 DEF TimeInv, IInv, TokenUnique
      <4> QED BY <1>2, <1>3, <1>7, <3>1, <3>2, <4>1 DEF Carried
    <3>3. CASE worker[v].job # j
      BY <1>3, <3>1, <3>3 DEF Carried, Holder
    <3> QED BY <3>2, <3>3
  <2> QED BY <2>1, <2>2
<1>8. [Next]_vars
  BY DEF Next
<1> QED BY <1>5, <1>6, <1>7, <1>8, StepTimeInv

\* Every step keeps the inductive invariant.
LEMMA NextTimeInv == ASSUME TimeInv, [Next]_vars PROVE TimeInv'
<1>1. CASE UNCHANGED vars
  <2>1. PastInv' /\ SweptInv'
    BY <1>1 DEF TimeInv, PastInv, SweptInv, vars
  <2> QED BY <1>1, <2>1, StepTimeInv DEF Carried, vars
<1> QED BY <1>1, TickTimeInv, ClientTimeInv, RecoverTimeInv, LeaseTimeInv,
           AbandonTimeInv, OwnerTimeInv DEF Next

\* Times are ordered along every behaviour of the ledger.
THEOREM TimeInvariance == Spec => []TimeInv
  BY InitTimeInv, NextTimeInv, PTL DEF Spec
-----------------------------------------------------------------------------
(* What follows from it.                                                   *)

\* A row that validate_job accepts can be recovered once its lease expired.
LEMMA RecoveredValid ==
  ASSUME NEW b \in Row, NEW t \in Nat, NEW n \in Nat, t >= 1, ValidJob(b),
         b.phase \in Active, Accounted(b, n), StampedBy(b, t)
  PROVE  ValidJob(Recovered(b, t))
<1> DEFINE u == Unleased(b)
           r == Recovered(b, t)
<1>1. /\ u = [b EXCEPT !.owner = NoOwner, !.acquired = NoTime, !.expires = NoTime]
      /\ u \in Row
  BY UnleasedType DEF Unleased
<1>2. /\ b.error = NoError /\ ~b.result /\ b.generation > 0 /\ b.dispatch = b.generation
      /\ b.recovery \in Nat /\ b.recovery < MaxRecovery
      /\ b.started # NoTime => b.started >= b.queued
  BY ConstantsAssumption
     DEF ValidJob, ValidLease, ValidPhase, ValidTimes, Accounted, Row
<1>3. CASE b.recovery + 1 >= MaxRecovery
  <2>1. r = [u EXCEPT !.phase = "failed", !.recovery = @ + 1,
                      !.error = Exhausted, !.finished = t]
    BY <1>1, <1>3 DEF Recovered, Row
  <2>2. /\ r.phase = "failed" /\ r.recovery = b.recovery + 1 /\ r.error = Exhausted
        /\ r.finished = t /\ r.owner = NoOwner /\ r.acquired = NoTime
        /\ r.expires = NoTime /\ r.result = b.result /\ r.queued = b.queued
        /\ r.started = b.started
    BY <1>1, <2>1 DEF Row
  <2>3. r.finished # NoTime /\ r.queued <= t /\ r.started <= t
    BY <2>2 DEF StampedBy
  <2> HIDE DEF r, u
  <2>4. r.recovery <= MaxRecovery
    BY <1>2, <2>2, ConstantsAssumption
  <2>5. ValidLease(r) /\ ValidPhase(r)
    BY <1>2, <2>2, <2>3 DEF ValidLease, ValidPhase
  <2>6. ValidTimes(r)
    BY <1>2, <2>2, <2>3 DEF ValidTimes, Row
  <2> QED BY <2>4, <2>5, <2>6 DEF ValidJob, r
<1>4. CASE ~(b.recovery + 1 >= MaxRecovery)
  <2>1. r = [u EXCEPT !.phase = "queued", !.recovery = @ + 1]
    BY <1>1, <1>4 DEF Recovered, Row
  <2>2. /\ r.phase = "queued" /\ r.recovery = b.recovery + 1 /\ r.error = NoError
        /\ r.finished = b.finished /\ r.owner = NoOwner /\ r.acquired = NoTime
        /\ r.expires = NoTime /\ r.result = b.result /\ r.queued = b.queued
        /\ r.started = b.started /\ r.dispatch = b.dispatch
    BY <1>1, <1>2, <2>1 DEF Row
  <2>3. b.finished = NoTime /\ r.dispatch # 0
    BY <1>2, <2>2 DEF ValidJob, ValidPhase, Row
  <2> HIDE DEF r, u
  <2>4. r.recovery <= MaxRecovery
    BY <1>2, <1>4, <2>2, ConstantsAssumption
  <2>5. ValidLease(r) /\ ValidPhase(r)
    BY <1>2, <2>2, <2>3 DEF ValidLease, ValidPhase
  <2>6. ValidTimes(r)
    BY <1>2, <2>2, <2>3 DEF ValidTimes
  <2> QED BY <2>4, <2>5, <2>6 DEF ValidJob, r
<1> QED BY <1>3, <1>4

\* A queued row can be leased at any time from when it was queued.
LEMMA LeasedValid ==
  ASSUME NEW b \in Row, NEW t \in Nat, NEW o \in Owner, t >= 1, ValidJob(b),
         b.phase = "queued", StampedBy(b, t)
  PROVE  ValidJob(Leased(b, o, t))
<1> DEFINE r == Leased(b, o, t)
           x == t + LeaseDuration
           g == b.generation + 1
<1>1. x \in Nat /\ x > t /\ g \in Nat /\ g > 0 /\ o # NoOwner
  BY ConstantsAssumption DEF Row
<1>2. /\ r.phase = "leased" /\ r.owner = o /\ r.acquired = t /\ r.expires = x
      /\ r.generation = g /\ r.recovery = b.recovery /\ r.error = b.error
      /\ r.finished = b.finished /\ r.result = b.result
      /\ r.queued = b.queued /\ r.started = b.started
  BY DEF Leased, Row
<1> HIDE DEF r, x, g
<1>3. ValidLease(r)
  BY <1>1, <1>2 DEF ValidLease
<1>4. ValidPhase(r)
  BY <1>2 DEF ValidJob, ValidPhase
<1>5. ValidTimes(r)
  BY <1>2 DEF ValidJob, ValidPhase, ValidTimes, StampedBy
<1>6. r.recovery <= MaxRecovery
  BY <1>2 DEF ValidJob
<1> QED BY <1>3, <1>4, <1>5, <1>6 DEF ValidJob, r

\* A live row can be ended at any time from its last stamp, as a success too
\* once it has started.
LEMMA FinishedValid ==
  ASSUME NEW b \in Row, NEW t \in Nat, t >= 1, ValidJob(b), b.phase \in Active,
         StampedBy(b, t),
         NEW p \in {"failed", "succeeded"}, NEW e \in {NoError, WorkerError},
         p = "failed" <=> e = WorkerError, p = "succeeded" => b.phase = "running"
  PROVE  ValidJob(Finished(b, p, e, t))
<1> DEFINE r == Finished(b, p, e, t)
           s == p = "succeeded"
<1>1. /\ r.phase = p /\ r.owner = NoOwner /\ r.acquired = NoTime /\ r.expires = NoTime
      /\ r.recovery = b.recovery /\ r.error = e /\ r.finished = t /\ r.result = s
      /\ r.queued = b.queued /\ r.started = b.started
  BY DEF Finished, Unleased, Row
<1> HIDE DEF r
<1>2. ValidLease(r)
  BY <1>1 DEF ValidLease
<1>3. ValidPhase(r)
  <2>1. p = "succeeded" => b.started # NoTime
    BY DEF ValidJob, ValidPhase
  <2>2. r.phase \in {"failed", "succeeded"} /\ r.finished # NoTime
    BY <1>1
  <2>3. r.phase = "failed" => r.error # NoError
    BY <1>1
  <2>4. r.phase = "succeeded" => r.result /\ r.started # NoTime /\ r.error = NoError
    BY <1>1, <2>1
  <2> QED BY <2>2, <2>3, <2>4 DEF ValidPhase
<1>4. ValidTimes(r)
  BY <1>1 DEF ValidJob, ValidTimes, StampedBy
<1>5. r.recovery <= MaxRecovery
  BY <1>1 DEF ValidJob
<1> QED BY <1>2, <1>3, <1>4, <1>5 DEF ValidJob, r

\* A leased row can be started at any time from when it was queued.
LEMMA RunningValid ==
  ASSUME NEW b \in Row, NEW t \in Nat, t >= 1, ValidJob(b), b.phase = "leased",
         StampedBy(b, t)
  PROVE  ValidJob(Running(b, t))
<1> DEFINE r == Running(b, t)
<1>1. /\ r.phase = "running" /\ r.checkpoint
      /\ r.started = IF b.started = NoTime THEN t ELSE b.started
      /\ r.owner = b.owner /\ r.acquired = b.acquired /\ r.expires = b.expires
      /\ r.generation = b.generation /\ r.recovery = b.recovery /\ r.error = b.error
      /\ r.finished = b.finished /\ r.result = b.result /\ r.queued = b.queued
  BY DEF Running, Row
<1> HIDE DEF r
<1>2. ValidLease(r)
  BY <1>1 DEF ValidJob, ValidLease
<1>3. ValidPhase(r)
  BY <1>1 DEF ValidJob, ValidPhase
<1>4. b.finished = NoTime
  BY DEF ValidJob, ValidPhase
<1>5. ValidTimes(r)
  BY <1>1, <1>4 DEF ValidJob, ValidTimes, StampedBy
<1>6. r.recovery <= MaxRecovery
  BY <1>1 DEF ValidJob
<1> QED BY <1>2, <1>3, <1>5, <1>6 DEF ValidJob, r

\* A running row can be paused.
LEMMA PausedValid ==
  ASSUME NEW b \in Row, ValidJob(b), b.phase = "running"
  PROVE  ValidJob(Paused(b))
<1> DEFINE r == Paused(b)
<1>1. /\ r.phase = "paused" /\ r.checkpoint
      /\ r.owner = NoOwner /\ r.acquired = NoTime /\ r.expires = NoTime
      /\ r.recovery = b.recovery /\ r.error = b.error /\ r.started = b.started
      /\ r.finished = b.finished /\ r.result = b.result /\ r.queued = b.queued
  BY DEF Paused, Unleased, Row
<1> HIDE DEF r
<1>2. ValidLease(r) /\ ValidPhase(r) /\ ValidTimes(r)
  BY <1>1 DEF ValidJob, ValidLease, ValidPhase, ValidTimes
<1> QED BY <1>1, <1>2 DEF ValidJob, r

\* No row can wedge its scope: validate_job accepts the recovery of every expired
\* lease and the lease of every queued job, so that one row never rolls back the
\* sweep of its tenant on every retry.
THEOREM NeverWedged == Spec => []LedgerNeverWedged
<1>1. ASSUME TimeInv PROVE LedgerNeverWedged
  <2> SUFFICES ASSUME NEW j \in Job
               PROVE  LET b == jobs[j]
                      IN  /\ b.phase \in Active => ValidJob(Recovered(b, clock))
                          /\ b.phase = "queued" =>
                                \A o \in Owner : ValidJob(Leased(b, o, clock))
    BY DEF LedgerNeverWedged
  <2>1. /\ jobs[j] \in Row /\ clock \in Nat /\ clock >= 1 /\ ValidJob(jobs[j])
        /\ StampedBy(jobs[j], clock)
        /\ Accounted(jobs[j], pauses[j]) /\ pauses[j] \in Nat
    BY <1>1, Accounts, ConstantsAssumption DEF TimeInv, PastInv, IInv, RowInv, TypeOK
  <2> QED BY <2>1, RecoveredValid, LeasedValid
<1> QED BY <1>1, TimeInvariance, PTL

\* validate_job never refuses what a worker with a live lease writes, at any time
\* it may have read: a finished result is lost to the fencing checks only.
THEOREM OwnersNeverRefused == Spec => []OwnerNeverRefused
<1>1. ASSUME TimeInv PROVE OwnerNeverRefused
  <2> SUFFICES ASSUME NEW w \in Worker, worker[w].pc = "holding",
                      NEW t \in worker[w].read..clock, Owns(w, t)
               PROVE  LET b == jobs[worker[w].job]
                      IN  /\ ValidJob(Finished(b, "failed", WorkerError, t))
                          /\ b.phase = "leased" => ValidJob(Running(b, t))
                          /\ b.phase = "running" =>
                                /\ ValidJob(Paused(b))
                                /\ ValidJob(Finished(b, "succeeded", NoError, t))
    BY DEF OwnerNeverRefused
  <2> DEFINE b == jobs[worker[w].job]
  <2>1. b \in Row /\ ValidJob(b)
    BY <1>1 DEF TimeInv, IInv, HolderInv, Holder, RowInv, TypeOK
  <2>2. Fresh(w) /\ b.phase \in Active /\ b.generation = worker[w].generation
    BY <1>1 DEF TimeInv, FreshInv, Owns
  <2>3. t \in Nat /\ t >= 1 /\ t >= worker[w].read /\ worker[w].read \in Nat
    BY <1>1, <2>2 DEF Fresh, TimeInv, IInv, TypeOK, WorkerState
  <2>4. StampedBy(b, t)
    BY <2>1, <2>2, <2>3 DEF Fresh, StampedBy, Row
  <2> HIDE DEF b
  <2> QED BY <2>1, <2>2, <2>3, <2>4, FinishedValid, RunningValid, PausedValid DEF b
<1> QED BY <1>1, TimeInvariance, PTL
-----------------------------------------------------------------------------
(* Aging.                                                                  *)

\* A job that has waited two intervals is as urgent as a job can be, and no job is
\* more.
LEMMA AgedPriority ==
  ASSUME NEW j \in Job, NEW t \in Nat, jobs[j] \in Row
  PROVE  /\ EffectivePriority(j, t) \in 0..2
         /\ t - jobs[j].queued >= 2 * AgingInterval => EffectivePriority(j, t) = 2
<1>1. PICK q \in Nat : q = jobs[j].queued
  BY DEF Row
<1>2. PICK p \in 0..2 : p = PriorityOf[j]
  BY ConstantsAssumption
<1>3. PICK a \in Nat \ {0} : a = AgingInterval
  BY ConstantsAssumption
<1>4. PICK waited \in Nat : waited = IF t > q THEN t - q ELSE 0
  BY <1>1
<1>5. PICK n \in Int : n = waited \div a /\ a * n <= waited /\ waited < a * n + a
  BY <1>3, <1>4
<1>6. n >= 0
  <2>1. ASSUME n <= -1 PROVE FALSE
    <3>1. a * n <= -a
      BY <1>3, <1>5, <2>1
    <3>. QED
      BY <1>3, <1>4, <1>5, <3>1
  <2>. QED
    BY <1>5, <2>1
<1>7. waited >= 2 * a => n >= 2
  <2>1. ASSUME waited >= 2 * a, n <= 1 PROVE FALSE
    <3>1. a * n <= a
      BY <1>3, <1>5, <2>1
    <3>. QED
      BY <1>3, <1>4, <1>5, <2>1, <3>1
  <2>. QED
    BY <1>5, <2>1
<1>8. EffectivePriority(j, t) = IF p + n > 2 THEN 2 ELSE p + n
  BY <1>1, <1>2, <1>3, <1>4, <1>5 DEF EffectivePriority
<1>9. t - q >= 2 * a => waited >= 2 * a
  BY <1>1, <1>3, <1>4
<1>10. /\ (IF p + n > 2 THEN 2 ELSE p + n) \in 0..2
       /\ t - q >= 2 * a => (IF p + n > 2 THEN 2 ELSE p + n) = 2
  BY <1>2, <1>5, <1>6, <1>7, <1>9
<1>. QED
  BY <1>1, <1>3, <1>8, <1>10

\* With the in-memory store, whose sweep sees every queued row, a job that has waited
\* two intervals is passed over for older jobs only, whatever their priorities are:
\* interactive jobs cannot starve a batch job.
THEOREM AgedGoFirst == ASSUME ~SkipLocked PROVE Spec => AgedFirst
<1> DEFINE Older == \A i, j \in Job :
                      /\ ScopeOf[i] = ScopeOf[j]
                      /\ jobs[j].phase = "queued" /\ jobs'[j].phase = "leased"
                      /\ jobs[i].phase = "queued"
                      /\ jobs'[j].acquired - jobs[i].queued >= 2 * AgingInterval
                      => jobs[j].queued <= jobs[i].queued
           Still == \A j \in Job : jobs[j].phase = "queued" => jobs'[j].phase # "leased"
<1>1. ASSUME IInv, [Next]_vars PROVE Older
  <2>0. jobs \in [Job -> Row]
    BY <1>1 DEF IInv, TypeOK
  <2>1. ASSUME NEW w \in Worker, LeaseNext(w) PROVE Older
    <3>1. PICK t \in Nat : t = worker[w].read
      BY <1>1 DEF IInv, TypeOK, WorkerState
    <3>2. PICK k \in Queued(SweepScope[w]) :
            /\ \A i \in Queued(SweepScope[w]) \ {k} : Before(k, i, t)
            /\ Put(k, Leased(jobs[k], OwnerOf[w], t))
      BY <2>1, <3>1 DEF LeaseNext, Lockable
    <3>3. k \in Job /\ jobs[k] \in Row /\ OwnerOf[w] \in Owner
      BY <2>0, <3>2, ConstantsAssumption DEF Queued
    <3>4. PICK b \in Row : b = Leased(jobs[k], OwnerOf[w], t) /\ b.acquired = t
      <4>1. Leased(jobs[k], OwnerOf[w], t) \in Row
        BY <3>1, <3>3, LeasedType
      <4>2. Leased(jobs[k], OwnerOf[w], t).acquired = t
        BY <3>3 DEF Leased, Row
      <4>. QED
        BY <4>1, <4>2
    <3>5. jobs' = [jobs EXCEPT ![k] = b]
      BY <3>2, <3>4 DEF Put
    <3>6. SUFFICES ASSUME NEW i \in Job, NEW j \in Job, ScopeOf[i] = ScopeOf[j],
                          jobs[j].phase = "queued", jobs'[j].phase = "leased",
                          jobs[i].phase = "queued",
                          jobs'[j].acquired - jobs[i].queued >= 2 * AgingInterval
                   PROVE  jobs[j].queued <= jobs[i].queued
      OBVIOUS
    <3>7. j = k /\ jobs'[j].acquired = t
      BY <2>0, <3>3, <3>4, <3>5, <3>6
    <3>8. jobs[i] \in Row /\ jobs[i].queued \in Nat /\ jobs[j].queued \in Nat
      BY <2>0 DEF Row
    <3>9. CASE i = j
      BY <3>8, <3>9
    <3>10. CASE i # j
      <4>1. Before(j, i, t)
        BY <3>2, <3>6, <3>7, <3>10 DEF Queued
      <4>2. EffectivePriority(i, t) = 2 /\ EffectivePriority(j, t) \in 0..2
        BY <2>0, <3>6, <3>7, AgedPriority
      <4>3. PICK e \in 0..2 : e = EffectivePriority(j, t)
        BY <4>2
      <4>4. ~(e > 2)
        BY <4>3
      <4>. QED
        BY <3>8, <4>1, <4>2, <4>3, <4>4 DEF Before
    <3>. QED
      BY <3>9, <3>10
  <2>2. ASSUME NEW w \in Worker, OwnerCall(w) PROVE Still
    <3>1. PICK j \in Job, b \in Row, t \in Nat : Writes(w, j, b, t)
      BY <1>1, <2>2, OwnerWrites
    <3>2. jobs' = [jobs EXCEPT ![j] = b] /\ jobs[j].phase # "queued"
      BY <3>1 DEF Writes, OwnerPut, Owns, Put
    <3>. QED
      BY <2>0, <3>1, <3>2
  <2>3. ASSUME NEW j \in Job, Enqueue(j) \/ Resume(j) \/ CancelWaiting(j) PROVE Still
    <3>1. CASE Enqueue(j)
      BY <2>0, <3>1 DEF Enqueue, Put
    <3>2. CASE Resume(j)
      BY <2>0, <3>2 DEF Resume, Put
    <3>3. CASE CancelWaiting(j)
      <4>1. PICK t \in 1..clock : Put(j, Finished(jobs[j], "cancelled", NoError, t))
        BY <3>3 DEF CancelWaiting
      <4>2. Finished(jobs[j], "cancelled", NoError, t).phase = "cancelled"
        BY <2>0 DEF Finished, Unleased, Row
      <4>. QED
        BY <2>0, <4>1, <4>2 DEF Put
    <3>. QED
      BY <2>3, <3>1, <3>2, <3>3
  <2>4. ASSUME NEW w \in Worker, RecoverExpired(w) PROVE Still
    <3>1. PICK t \in 1..clock : \E S \in Lockable(Expired(SweepScope[w], t)) :
            jobs' = [j \in Job |-> IF j \in S THEN Recovered(jobs[j], t) ELSE jobs[j]]
      BY <2>4 DEF RecoverExpired
    <3>2. PICK S \in SUBSET Expired(SweepScope[w], t) :
            jobs' = [j \in Job |-> IF j \in S THEN Recovered(jobs[j], t) ELSE jobs[j]]
      BY <3>1 DEF Lockable
    <3>3. \A j \in S : jobs[j].phase # "queued"
      BY DEF Expired
    <3>. QED
      BY <3>2, <3>3
  <2>5. ASSUME UNCHANGED jobs PROVE Still
    BY <2>5
  <2>6. Still => Older
    OBVIOUS
  <2> HIDE DEF Older, Still
  <2>7. ASSUME NEW w \in Worker, Abandon(w) PROVE UNCHANGED jobs
    BY <2>7 DEF Abandon
  <2> QED BY <1>1, <2>1, <2>2, <2>3, <2>4, <2>5, <2>6, <2>7 DEF Next, Tick, vars
<1>2. IInv /\ [Next]_vars => [Older]_vars
  BY <1>1
<1>3. [][Older]_vars => AgedFirst
  BY PTL DEF AgedFirst
<1> QED BY <1>2, <1>3, Invariance, PTL DEF Spec
=============================================================================
