------------------------ MODULE CounselWorkerProofs ------------------------
(***************************************************************************)
(* What CounselWorker guarantees for any number of executions, students,   *)
(* recoveries and resumes, wherever they crash: a pack is whole, points to *)
(* drafts that exist and is never replaced, also when a lease expires      *)
(* under a live execution; and, when none does, a student has one step     *)
(* that tells what the pack says, and no work behind a checkpoint is done  *)
(* again.                                                                  *)
(***************************************************************************)
EXTENDS CounselWorker, TLAPS

USE DEF Active, Terminal, Status, NoDraft, InGraph, Executing, Cause, Error
-----------------------------------------------------------------------------
(* The inductive invariant, whether or not leases outlive executions.      *)

\* The nodes and calls that follow the graph.
Late == {"listing", "recording", "packing", "succeeding"}

\* The super-steps a thread has behind it once its plan node ran.
Behind(s) == 1 + Len(s.results) + (IF s.summary THEN 1 ELSE 0)

\* The results of a thread, whole once it has a summary, name existing drafts.
ThreadOK(s) ==
    /\ Len(s.results) <= Students
    /\ s.summary => Len(s.results) = Students
    /\ Resolves(s.results)

\* An execution's thread is where its program counter says.
Placed(x) ==
    /\ x.saved <= x.done
    /\ IF x.done = 0 THEN x.state.results = <<>> ELSE x.done = Behind(x.state)
    /\ x.pc \in {"idle", "planning"} => x.done = 0
    /\ x.pc \in {"student", "summarizing"} \cup Late => x.done # 0
    /\ x.pc = "student" => Len(x.state.results) < Students
    /\ x.pc = "summarizing" => Len(x.state.results) = Students /\ ~x.state.summary
    /\ x.pc \in Late => x.state.summary
    /\ x.pc = "recording" => x.seq \in 1..Students

\* What an execution has behind it is in the stores.
Written(x) ==
    /\ x.pc \in {"begun"} \cup InGraph \cup Late => run
    /\ x.pc = "recording" =>
            \A n \in 1..Students : n < x.seq \/ n \in x.seen => steps[n] # <<>>
    /\ x.pc \in {"packing", "succeeding"} => \A n \in 1..Students : steps[n] # <<>>
    /\ x.pc = "succeeding" => pack # {}

ExecInv == \A w \in Worker : /\ ThreadOK(exec[w].state)
                             /\ Placed(exec[w])
                             /\ Written(exec[w])

StoresInv ==
    /\ ThreadOK(checkpoint)
    /\ \A p \in pack : Len(p.results) = Students /\ Resolves(p.results)
    /\ pack # {} => \A n \in 1..Students : steps[n] # <<>>
    /\ drafts # <<>> => run

LedgerInv ==
    /\ job.phase # "failed" => job.recovery < MaxRecovery
    /\ job.phase = "succeeded" => pack # {}

IInv == TypeOK /\ LedgerInv /\ StoresInv /\ ExecInv

\* No store takes back what a property relies on.
Grows ==
    /\ Len(drafts) <= Len(drafts')
    /\ \A i \in 1..Len(drafts) : drafts'[i] = drafts[i]
    /\ \A n \in 1..Students : steps[n] # <<>> => steps'[n] # <<>>
    /\ pack # {} => pack' # {}
    /\ run => run'

\* A thread nobody touched.
LEMMA NewThreadOK == NewThread \in Thread /\ ThreadOK(NewThread) /\ ThreadOK(NewThread)'
  BY WorkerAssumption DEF NewThread, Thread, ThreadOK, Resolves, Result

\* An execution that holds nothing.
LEMMA IdleOK ==
  ASSUME NEW c \in Cause
  PROVE  LET x == [Idle EXCEPT !.cause = c]
         IN  /\ x \in Exec /\ x.pc = "idle" /\ x.state = NewThread
             /\ Placed(x) /\ Written(x)' /\ Written(x)
<1> DEFINE x == [Idle EXCEPT !.cause = c]
<1>1. /\ x.pc = "idle" /\ x.state = NewThread /\ x.done = 0 /\ x.saved = 0
      /\ x.state.results = <<>>
  BY DEF Idle, NewThread
<1>2. x \in Exec
  BY NewThreadOK DEF Idle, Exec, PC
<1> HIDE DEF x
<1>3. Placed(x) /\ Written(x) /\ Written(x)'
  BY <1>1 DEF Placed, Written, Late
<1> QED BY <1>1, <1>2, <1>3 DEF x

\* The invariant holds of a job nobody ran.
LEMMA InitIInv == Init => IInv
<1> SUFFICES ASSUME Init PROVE IInv
  OBVIOUS
<1>1. /\ Idle \in Exec /\ Idle.state = NewThread /\ Placed(Idle) /\ Written(Idle)
  <2>1. /\ Idle.pc = "idle" /\ Idle.state = NewThread /\ Idle.done = 0
        /\ Idle.saved = 0 /\ Idle.state.results = <<>>
    BY DEF Idle, NewThread
  <2>2. Idle \in Exec
    BY NewThreadOK DEF Idle, Exec, PC
  <2> QED BY <2>1, <2>2 DEF Placed, Written, Late
<1>2. TypeOK
  <2>1. /\ <<>> \in Seq(1..Students) /\ <<>> \in Seq(Status)
        /\ {} \in SUBSET Pack /\ 0 \in 0..MaxRecovery /\ 0 \in 0..MaxResumes
    BY WorkerAssumption
  <2> QED BY <1>1, <2>1, NewThreadOK DEF Init, TypeOK
<1>3. LedgerInv
  BY WorkerAssumption DEF Init, LedgerInv
<1>4. StoresInv
  BY NewThreadOK DEF Init, StoresInv
<1>5. ExecInv
  BY <1>1, NewThreadOK DEF Init, ExecInv
<1> QED BY <1>2, <1>3, <1>4, <1>5 DEF IInv
-----------------------------------------------------------------------------
(* What growing stores keep.                                               *)

\* Results that resolve go on resolving.
LEMMA ResolvesKept ==
  ASSUME Grows, NEW r, Resolves(r), drafts \in Seq(1..Students),
         drafts' \in Seq(1..Students), r \in Seq(Result)
  PROVE  Resolves(r)'
<1> SUFFICES ASSUME NEW n \in 1..Len(r), r[n].status = "generated"
             PROVE  r[n].draft \in 1..Len(drafts') /\ drafts'[r[n].draft] = n
  BY DEF Resolves
<1>1. r[n].draft \in 1..Len(drafts) /\ drafts[r[n].draft] = n
  BY DEF Resolves
<1>2. Len(drafts) \in Nat /\ Len(drafts') \in Nat /\ Len(drafts) <= Len(drafts')
  BY DEF Grows
<1>3. drafts'[r[n].draft] = drafts[r[n].draft]
  BY <1>1 DEF Grows
<1> QED BY <1>1, <1>2, <1>3

\* An execution that is left alone keeps its place.
LEMMA OthersKept ==
  ASSUME TypeOK, TypeOK', Grows, NEW x \in Exec, ThreadOK(x.state), Placed(x), Written(x)
  PROVE  ThreadOK(x.state)' /\ Placed(x) /\ Written(x)'
<1>1. x.state.results \in Seq(Result)
  BY DEF Exec, Thread
<1>2. ThreadOK(x.state)'
  BY <1>1, ResolvesKept DEF ThreadOK, TypeOK
<1>3. Written(x)'
  BY DEF Written, Grows, Late
<1> QED BY <1>2, <1>3

\* One execution becomes x, and x is in its place.
LEMMA OneExec ==
  ASSUME IInv, TypeOK', Grows, NEW w \in Worker, NEW x \in Exec,
         exec' = [exec EXCEPT ![w] = x],
         ThreadOK(x.state)', Placed(x), Written(x)'
  PROVE  ExecInv'
<1> SUFFICES ASSUME NEW v \in Worker
             PROVE  ThreadOK(exec[v].state)' /\ Placed(exec[v])' /\ Written(exec[v])'
  BY DEF ExecInv
<1>1. CASE v = w
  <2>1. exec'[v] = x
    BY <1>1 DEF IInv, TypeOK
  <2> QED BY <2>1 DEF Placed, Written, ThreadOK
<1>2. CASE v # w
  <2>1. exec'[v] = exec[v] /\ exec[v] \in Exec
    BY <1>2 DEF IInv, TypeOK
  <2>2. PICK y \in Exec : y = exec[v]
    BY <2>1
  <2>3. ThreadOK(y.state) /\ Placed(y) /\ Written(y)
    BY <2>2 DEF IInv, ExecInv
  <2>4. ThreadOK(y.state)' /\ Placed(y) /\ Written(y)'
    BY <2>3, OthersKept DEF IInv
  <2>5. exec'[v] = y
    BY <2>1, <2>2
  <2> QED BY <2>4, <2>5 DEF Placed, Written, ThreadOK
<1> QED BY <1>1, <1>2

\* All executions are left alone.
LEMMA NoExec == ASSUME IInv, TypeOK', Grows, UNCHANGED exec PROVE ExecInv'
<1> SUFFICES ASSUME NEW v \in Worker
             PROVE  ThreadOK(exec[v].state)' /\ Placed(exec[v])' /\ Written(exec[v])'
  BY DEF ExecInv
<1>1. PICK y \in Exec : y = exec[v]
  BY DEF IInv, TypeOK
<1>2. ThreadOK(y.state)' /\ Placed(y) /\ Written(y)'
  BY <1>1, OthersKept DEF IInv, ExecInv
<1> QED BY <1>1, <1>2 DEF Placed, Written, ThreadOK

\* Stores that are left alone keep what they have, and have grown.
LEMMA StoresKept ==
  ASSUME IInv, UNCHANGED stores
  PROVE  StoresInv' /\ Grows
<1>1. UNCHANGED <<bundle, run, checkpoint, drafts, steps, pack>>
  BY DEF stores
<1>2. StoresInv'
  BY <1>1 DEF IInv, StoresInv, ThreadOK, Resolves
<1>3. Grows
  BY <1>1 DEF Grows, IInv, TypeOK
<1> QED BY <1>2, <1>3
-----------------------------------------------------------------------------
(* The ways an execution moves.                                            *)

\* The type of the ledger's row.
JobType == [phase: {"queued", "paused"} \cup Active \cup Terminal, generation: Nat,
            recovery: 0..MaxRecovery, started: BOOLEAN, error: Error]

\* x holds the thread y holds.
SameThread(x, y) ==
    /\ x.state = y.state /\ x.done = y.done /\ x.saved = y.saved
    /\ x.seen = y.seen /\ x.seq = y.seq

\* Only the program counter moves.
LEMMA GotoExec ==
  ASSUME TypeOK, NEW w \in Worker, NEW pc \in PC, Goto(w, pc)
  PROVE  \E x \in Exec : /\ exec' = [exec EXCEPT ![w] = x]
                         /\ x.pc = pc /\ SameThread(x, exec[w])
                         /\ x.generation = exec[w].generation
<1> DEFINE x == [exec[w] EXCEPT !.pc = pc]
<1>1. exec[w] \in Exec
  BY DEF TypeOK
<1>2. x \in Exec /\ x.pc = pc /\ SameThread(x, exec[w])
      /\ x.generation = exec[w].generation
  BY <1>1 DEF Exec, SameThread
<1>3. exec' = [exec EXCEPT ![w] = x]
  BY DEF Goto, TypeOK
<1> HIDE DEF x
<1> QED BY <1>2, <1>3

\* An exception is caught and remembered.
LEMMA RaiseExec ==
  ASSUME TypeOK, NEW w \in Worker, NEW c \in Cause, Raise(w, c)
  PROVE  \E x \in Exec : /\ exec' = [exec EXCEPT ![w] = x]
                         /\ x.pc = "failing" /\ SameThread(x, exec[w])
                         /\ x.generation = exec[w].generation
<1> DEFINE x == [exec[w] EXCEPT !.pc = "failing", !.cause = c]
<1>1. exec[w] \in Exec
  BY DEF TypeOK
<1>2. x \in Exec /\ x.pc = "failing" /\ SameThread(x, exec[w])
      /\ x.generation = exec[w].generation
  BY <1>1 DEF Exec, SameThread, PC
<1>3. exec' = [exec EXCEPT ![w] = x]
  BY DEF Raise, TypeOK
<1> HIDE DEF x
<1> QED BY <1>2, <1>3

\* A thread that moved to another execution record is as whole as it was.
LEMMA SameThreadOK ==
  ASSUME NEW x \in Exec, NEW y \in Exec, SameThread(x, y), ThreadOK(y.state)'
  PROVE  ThreadOK(x.state)'
  BY DEF SameThread, ThreadOK

\* What is to be shown of a step that leaves the stores alone.
LEMMA MemoryIInv ==
  ASSUME IInv, UNCHANGED <<stores, live, resumes>>, job' \in JobType, LedgerInv',
         NEW w \in Worker, NEW x \in Exec, exec' = [exec EXCEPT ![w] = x],
         ThreadOK(x.state), Placed(x), Written(x)
  PROVE  IInv'
<1>1. TypeOK'
  BY DEF IInv, TypeOK, JobType, stores
<1>2. StoresInv' /\ Grows
  BY StoresKept
<1>3. ThreadOK(x.state)' /\ Placed(x) /\ Written(x)'
  BY <1>1, <1>2, OthersKept DEF IInv
<1> QED BY <1>1, <1>2, <1>3, OneExec DEF IInv

\* Raising, whatever the cause and the call.
LEMMA RaiseIInv == ASSUME IInv, NEW w \in Worker, NEW c \in Cause, Raise(w, c) PROVE IInv'
<1>1. PICK x \in Exec : /\ exec' = [exec EXCEPT ![w] = x]
                        /\ x.pc = "failing" /\ SameThread(x, exec[w])
  BY RaiseExec DEF IInv
<1>2. UNCHANGED <<stores, live, resumes>> /\ UNCHANGED job
  BY DEF Raise
<1>3. job' \in JobType /\ LedgerInv'
  BY <1>2 DEF IInv, TypeOK, JobType, LedgerInv, stores
<1>4. ThreadOK(x.state) /\ Placed(x) /\ Written(x)
  BY <1>1 DEF IInv, ExecInv, SameThread, ThreadOK, Placed, Written, Late
<1> QED BY <1>1, <1>2, <1>3, <1>4, MemoryIInv

\* Leaving, with the ledger's row in order.
LEMMA LeaveIInv ==
  ASSUME IInv, NEW w \in Worker, NEW c \in Cause, Leave(w, c),
         UNCHANGED <<stores, live, resumes>>, job' \in JobType, LedgerInv'
  PROVE  IInv'
<1> DEFINE x == [Idle EXCEPT !.cause = c]
<1>1. x \in Exec /\ ThreadOK(x.state) /\ Placed(x) /\ Written(x)
  BY IdleOK, NewThreadOK
<1>2. exec' = [exec EXCEPT ![w] = x]
  BY DEF Leave
<1> HIDE DEF x
<1> QED BY <1>1, <1>2, MemoryIInv
-----------------------------------------------------------------------------
(* The ledger around the executions.                                       *)

\* Time, a sweep and an operator write the ledger only.
LEMMA LedgerIInv ==
  ASSUME IInv, Expire \/ Resume \/ \E w \in Worker : RecoverExpired(w)
  PROVE  IInv'
<1>1. UNCHANGED <<stores, exec>>
  BY DEF Expire, Resume, RecoverExpired
<1>2. job \in JobType /\ MaxRecovery \in Nat /\ job.recovery \in 0..MaxRecovery
  BY WorkerAssumption DEF IInv, TypeOK, JobType
<1>3. UNCHANGED pack
  BY <1>1 DEF stores
<1>4. job' \in JobType /\ LedgerInv' /\ live' \in BOOLEAN /\ resumes' \in 0..MaxResumes
  <2>1. CASE Expire
    BY <1>2, <1>3, <2>1 DEF Expire, IInv, TypeOK, LedgerInv
  <2>2. CASE Resume
    <3>1. job' = [job EXCEPT !.phase = "queued"] /\ job.phase = "paused"
          /\ resumes < MaxResumes /\ resumes' = resumes + 1 /\ live' = live
      BY <2>2 DEF Resume
    <3>2. job' \in JobType /\ job'.phase = "queued" /\ job'.recovery = job.recovery
      BY <1>2, <3>1 DEF JobType
    <3> QED BY <3>1, <3>2, WorkerAssumption DEF IInv, TypeOK, LedgerInv
  <2>3. ASSUME NEW w \in Worker, RecoverExpired(w) PROVE
            /\ job' \in JobType /\ LedgerInv' /\ live' \in BOOLEAN
            /\ resumes' \in 0..MaxResumes
    <3> DEFINE n == job.recovery + 1
    <3>1. job.recovery < MaxRecovery /\ n \in 0..MaxRecovery
      BY <1>2, <2>3 DEF RecoverExpired, IInv, LedgerInv
    <3>2. live' = live /\ resumes' = resumes
      BY <2>3 DEF RecoverExpired
    <3>3. CASE n >= MaxRecovery
      <4>1. job' = [job EXCEPT !.phase = "failed", !.recovery = n,
                               !.error = "worker_recovery_exhausted"]
        BY <2>3, <3>3 DEF RecoverExpired
      <4> HIDE DEF n
      <4>2. job' \in JobType /\ job'.phase = "failed"
        BY <1>2, <3>1, <4>1 DEF JobType
      <4> QED BY <3>2, <4>2 DEF IInv, TypeOK, LedgerInv
    <3>4. CASE ~(n >= MaxRecovery)
      <4>1. job' = [job EXCEPT !.phase = "queued", !.recovery = n]
        BY <2>3, <3>4 DEF RecoverExpired
      <4>2. n < MaxRecovery
        BY <1>2, <3>1, <3>4
      <4> HIDE DEF n
      <4>3. job' \in JobType /\ job'.phase = "queued" /\ job'.recovery = n
        BY <1>2, <3>1, <4>1 DEF JobType
      <4> QED BY <3>2, <4>2, <4>3 DEF IInv, TypeOK, LedgerInv
    <3> QED BY <3>3, <3>4
  <2> QED BY <2>1, <2>2, <2>3
<1>5. TypeOK'
  BY <1>1, <1>4 DEF IInv, TypeOK, JobType, stores
<1>6. StoresInv' /\ Grows
  BY <1>1, StoresKept
<1> QED BY <1>1, <1>4, <1>5, <1>6, NoExec DEF IInv

\* A lease starts an execution without a thread.
LEMMA LeaseNextIInv == ASSUME IInv, NEW w \in Worker, LeaseNext(w) PROVE IInv'
<1>1. job \in JobType /\ job.generation \in Nat /\ job.started \in BOOLEAN
  BY DEF IInv, TypeOK, JobType
<1>2. PICK x \in Exec : /\ exec' = [exec EXCEPT ![w] = x]
                        /\ x.pc = "leased" /\ x.state = NewThread
                        /\ x.done = 0 /\ x.saved = 0
  <2> DEFINE y == [Idle EXCEPT !.pc = "leased", !.generation = job.generation + 1,
                               !.started = job.started]
             g == job.generation + 1
  <2>1. g \in Nat /\ y = [Idle EXCEPT !.pc = "leased", !.generation = g,
                                      !.started = job.started]
    BY <1>1
  <2>2. Idle \in Exec /\ Idle.state = NewThread /\ Idle.done = 0 /\ Idle.saved = 0
    BY NewThreadOK DEF Idle, Exec, PC
  <2>3. exec' = [exec EXCEPT ![w] = y]
    BY DEF LeaseNext
  <2> HIDE DEF g
  <2>4. /\ y \in Exec /\ y.pc = "leased" /\ y.state = NewThread
        /\ y.done = 0 /\ y.saved = 0
    BY <1>1, <2>1, <2>2 DEF Exec, PC
  <2> HIDE DEF y
  <2> QED BY <2>3, <2>4
<1>3. x.state.results = <<>>
  BY <1>2 DEF NewThread
<1>5. UNCHANGED <<stores, resumes>> /\ live' = TRUE
  BY DEF LeaseNext
<1>6. /\ job' \in JobType /\ job'.phase = "leased" /\ job'.recovery = job.recovery
      /\ job.phase = "queued"
  <2> DEFINE g == job.generation + 1
  <2>1. g \in Nat /\ job' = [job EXCEPT !.phase = "leased", !.generation = g]
    BY <1>1 DEF LeaseNext
  <2>2. job.phase = "queued"
    BY DEF LeaseNext
  <2> HIDE DEF g
  <2> QED BY <1>1, <2>1, <2>2 DEF JobType
<1>7. LedgerInv'
  BY <1>6 DEF IInv, LedgerInv
<1>8. TypeOK'
  BY <1>2, <1>5, <1>6 DEF IInv, TypeOK, JobType, stores
<1>9. StoresInv' /\ Grows
  BY <1>5, StoresKept
<1>10. ThreadOK(x.state)' /\ Placed(x) /\ Written(x)'
  <2>1. ThreadOK(x.state)'
    BY <1>2, NewThreadOK DEF ThreadOK
  <2> QED BY <1>2, <1>3, <2>1 DEF Placed, Written, Late
<1> QED BY <1>2, <1>7, <1>8, <1>9, <1>10, OneExec DEF IInv
-----------------------------------------------------------------------------
(* One execution, call by call.                                            *)

\* start and begin_run.
LEMMA StartIInv == ASSUME IInv, NEW w \in Worker, Start(w) PROVE IInv'
<1>1. PICK x \in Exec : /\ exec' = [exec EXCEPT ![w] = x]
                        /\ x.pc = "started" /\ SameThread(x, exec[w])
  <2>1. Goto(w, "started") /\ "started" \in PC
    BY DEF Start, PC
  <2> QED BY <2>1, GotoExec DEF IInv
<1>2. UNCHANGED <<stores, live, resumes>>
  BY DEF Start
<1>3. job' \in JobType /\ LedgerInv'
  <2>1. job \in JobType /\ job.phase \in Active
        /\ job' = [job EXCEPT !.phase = "running", !.started = TRUE]
    BY DEF Start, Owns, IInv, TypeOK, JobType
  <2>2. job' \in JobType /\ job'.phase = "running" /\ job'.recovery = job.recovery
    BY <2>1 DEF JobType
  <2> QED BY <2>1, <2>2 DEF IInv, LedgerInv
<1>4. ThreadOK(x.state) /\ Placed(x) /\ Written(x)
  BY <1>1 DEF IInv, ExecInv, SameThread, ThreadOK, Placed, Written, Late
<1> QED BY <1>1, <1>2, <1>3, <1>4, MemoryIInv

\* The row the drafts will refer to is there before the graph runs.
LEMMA BeginRunIInv == ASSUME IInv, NEW w \in Worker, BeginRun(w) PROVE IInv'
<1>1. PICK x \in Exec : /\ exec' = [exec EXCEPT ![w] = x]
                        /\ x.pc = "begun" /\ SameThread(x, exec[w])
  <2>1. Goto(w, "begun") /\ "begun" \in PC
    BY DEF BeginRun, PC
  <2> QED BY <2>1, GotoExec DEF IInv
<1>2. /\ run' = TRUE
      /\ UNCHANGED <<job, live, bundle, checkpoint, drafts, steps, pack, resumes>>
  BY DEF BeginRun
<1>3. TypeOK'
  BY <1>1, <1>2 DEF IInv, TypeOK
<1>4. Grows /\ StoresInv' /\ LedgerInv'
  BY <1>2 DEF Grows, IInv, StoresInv, LedgerInv, ThreadOK, Resolves, TypeOK
<1>5. ThreadOK(x.state)' /\ Placed(x) /\ Written(x)'
  <2>1. PICK y \in Exec : y = exec[w]
    BY DEF IInv, TypeOK
  <2>2. ThreadOK(y.state) /\ Placed(y) /\ Written(y) /\ SameThread(x, y)
    BY <1>1, <2>1 DEF IInv, ExecInv
  <2>3. ThreadOK(y.state)'
    BY <1>3, <1>4, <2>2, OthersKept DEF IInv
  <2>4. ThreadOK(x.state)'
    BY <2>2, <2>3, SameThreadOK
  <2>5. Placed(x)
    BY <1>1, <2>2 DEF Placed, SameThread, Late
  <2>6. Written(x)'
    BY <1>1, <1>2 DEF Written, Late
  <2> QED BY <2>4, <2>5, <2>6
<1> QED BY <1>1, <1>3, <1>4, <1>5, OneExec DEF IInv

\* The next node fits the thread it is the next node of.
LEMMA NextNodePlace ==
  ASSUME NEW s \in Thread, Len(s.results) <= Students,
         s.summary => Len(s.results) = Students
  PROVE  /\ NextNode(s) \in {"listing", "summarizing", "student"}
         /\ NextNode(s) = "listing" <=> s.summary
         /\ NextNode(s) = "student" => Len(s.results) < Students
         /\ NextNode(s) = "summarizing" => Len(s.results) = Students /\ ~s.summary
  BY WorkerAssumption DEF NextNode, Thread

\* A thread resumed behind its cursor, or from the plan node.
LEMMA LoadThreadIInv == ASSUME IInv, NEW w \in Worker, LoadThread(w) PROVE IInv'
<1>1. PICK c \in Thread : c = checkpoint
  BY DEF IInv, TypeOK
<1> DEFINE n == Len(c.results)
           k == IF n = 0 THEN 0 ELSE n + 1 + (IF c.summary THEN 1 ELSE 0)
           pc == IF n = 0 THEN "planning" ELSE NextNode(c)
<1>2. n \in Nat /\ k \in Nat /\ ThreadOK(c) /\ c.results \in Seq(Result)
  BY <1>1 DEF IInv, StoresInv, Thread
<1>3. /\ NextNode(c) \in {"listing", "summarizing", "student"}
      /\ NextNode(c) = "listing" <=> c.summary
      /\ NextNode(c) = "student" => n < Students
      /\ NextNode(c) = "summarizing" => n = Students /\ ~c.summary
  BY <1>2, NextNodePlace DEF ThreadOK
<1>4. pc \in PC
  BY <1>3 DEF PC
<1>5. exec[w] \in Exec /\ exec[w].pc = "begun" /\ run
  BY DEF LoadThread, IInv, TypeOK, ExecInv, Written
<1>6. PICK x \in Exec : /\ exec' = [exec EXCEPT ![w] = x]
                        /\ x.pc = pc /\ x.state = c /\ x.done = k /\ x.saved = k
  <2> DEFINE x == [exec[w] EXCEPT !.pc = pc, !.state = c, !.done = k, !.saved = k]
  <2>1. exec' = [exec EXCEPT ![w] = x]
    BY <1>1 DEF LoadThread, IInv, TypeOK
  <2> HIDE DEF pc, k
  <2>2. x \in Exec /\ x.pc = pc /\ x.state = c /\ x.done = k /\ x.saved = k
    BY <1>2, <1>4, <1>5 DEF Exec
  <2> HIDE DEF x
  <2> QED BY <2>1, <2>2
<1>7. UNCHANGED <<stores, live, resumes>> /\ UNCHANGED job
  BY DEF LoadThread
<1>8. job' \in JobType /\ LedgerInv'
  BY <1>7 DEF IInv, TypeOK, JobType, LedgerInv, stores
<1>9. Placed(x)
  <2>1. CASE n = 0
    <3>1. x.pc = "planning" /\ x.done = 0 /\ x.saved = 0 /\ x.state.results = <<>>
      BY <1>2, <1>6, <2>1
    <3> QED BY <3>1 DEF Placed, Late
  <2>2. CASE n # 0
    <3>1. k = Behind(c) /\ k # 0 /\ pc = NextNode(c)
      <4>1. CASE c.summary
        BY <1>2, <2>2, <4>1 DEF Behind
      <4>2. CASE ~c.summary
        BY <1>2, <2>2, <4>2 DEF Behind
      <4> QED BY <4>1, <4>2
    <3> HIDE DEF k, pc
    <3> QED BY <1>2, <1>3, <1>6, <3>1 DEF Placed, Late
  <2> QED BY <2>1, <2>2
<1>10. Written(x)
  <2>1. x.pc \in {"planning", "listing", "summarizing", "student"}
    BY <1>3, <1>6
  <2> QED BY <1>5, <2>1 DEF Written
<1>11. ThreadOK(x.state)
  BY <1>2, <1>6
<1> QED BY <1>6, <1>7, <1>8, <1>9, <1>10, <1>11, MemoryIInv

\* Every super-step puts one more behind it and goes to the next node.
LEMMA SuperStepIInv ==
  ASSUME IInv, NEW w \in Worker, NEW s \in Thread, NEW streak \in Nat,
         SuperStep(w, s, streak), exec[w].pc \in InGraph,
         UNCHANGED <<bundle, run, checkpoint, steps, pack>>,
         drafts' \in Seq(1..Students), Grows,
         ThreadOK(s)', Behind(s) = exec[w].done + 1
  PROVE  IInv'
<1> DEFINE d == exec[w].done + 1
<1>1. exec[w] \in Exec /\ d \in Nat /\ exec[w].saved \in Nat /\ exec[w].done \in Nat
  BY DEF IInv, TypeOK, Exec
<1>2. Len(s.results) <= Students /\ (s.summary => Len(s.results) = Students)
  BY DEF ThreadOK
<1>3. /\ NextNode(s) \in {"listing", "summarizing", "student"}
      /\ NextNode(s) = "listing" <=> s.summary
      /\ NextNode(s) = "student" => Len(s.results) < Students
      /\ NextNode(s) = "summarizing" => Len(s.results) = Students /\ ~s.summary
  BY <1>2, NextNodePlace
<1>4. PICK x \in Exec : /\ exec' = [exec EXCEPT ![w] = x]
                        /\ x.pc = NextNode(s) /\ x.state = s /\ x.done = d
                        /\ x.saved = exec[w].saved
  <2> DEFINE x == [exec[w] EXCEPT !.pc = NextNode(s), !.state = s,
                                  !.done = d, !.streak = streak]
  <2>1. exec' = [exec EXCEPT ![w] = x]
    BY DEF SuperStep, IInv, TypeOK
  <2> HIDE DEF d
  <2>2. /\ x \in Exec /\ x.pc = NextNode(s) /\ x.state = s /\ x.done = d
        /\ x.saved = exec[w].saved
    BY <1>1, <1>3 DEF Exec, PC
  <2> HIDE DEF x
  <2> QED BY <2>1, <2>2
<1>5. UNCHANGED <<job, live, resumes>>
  BY DEF SuperStep
<1>6. x.state.results = s.results /\ x.state.summary = s.summary /\ x.done = Behind(s)
  BY <1>4
<1>7. TypeOK'
  BY <1>4, <1>5, <1>6 DEF IInv, TypeOK
<1>8. StoresInv'
  <2>1. ThreadOK(checkpoint)'
    <3>1. PICK c \in Thread : c = checkpoint
      BY DEF IInv, TypeOK
    <3>2. Resolves(c.results)'
      BY <3>1, ResolvesKept DEF IInv, TypeOK, StoresInv, ThreadOK, Thread
    <3> QED BY <3>1, <3>2 DEF IInv, StoresInv, ThreadOK, Resolves
  <2>2. \A p \in pack' : Len(p.results) = Students /\ Resolves(p.results)'
    <3> SUFFICES ASSUME NEW p \in pack
                 PROVE  Len(p.results) = Students /\ Resolves(p.results)'
      OBVIOUS
    <3>1. p.results \in Seq(Result) /\ Resolves(p.results) /\ Len(p.results) = Students
      BY DEF IInv, TypeOK, StoresInv, Pack
    <3> QED BY <3>1, ResolvesKept DEF IInv, TypeOK
  <2>3. run
    BY DEF IInv, ExecInv, Written
  <2> QED BY <2>1, <2>2, <2>3 DEF IInv, StoresInv
<1>9. LedgerInv'
  BY <1>5 DEF IInv, LedgerInv
<1>10. Placed(x)
  <2>1. exec[w].saved <= exec[w].done
    BY DEF IInv, ExecInv, Placed
  <2>2. x.saved <= x.done /\ x.done # 0 /\ x.done = Behind(x.state)
    <3>1. Behind(x.state) = Behind(s)
      BY <1>6 DEF Behind
    <3> QED BY <1>1, <1>4, <1>6, <2>1, <3>1
  <2> QED BY <1>3, <1>4, <1>6, <2>2 DEF Placed, Late
<1>11. Written(x)'
  <2>1. run /\ x.pc \in {"listing", "summarizing", "student"}
    BY <1>3, <1>4 DEF Written, IInv, ExecInv
  <2> QED BY <2>1 DEF Written
<1>12. ThreadOK(x.state)'
  BY <1>6 DEF ThreadOK
<1> QED BY <1>4, <1>6, <1>7, <1>8, <1>9, <1>10, <1>11, <1>12, OneExec DEF IInv

\* The plan node leaves the results, of which there are none yet, alone.
LEMMA PlanIInv == ASSUME IInv, NEW w \in Worker, Plan(w) PROVE IInv'
<1> DEFINE old == exec[w].state
<1>1. PICK p \in Nat : SuperStep(w, [old EXCEPT !.plan = p], 0)
  <2>1. old.plan \in Nat /\ exec[w].generation \in Nat
    BY DEF IInv, TypeOK, Exec, Thread
  <2> QED BY <2>1 DEF Plan
<1>2. PICK s \in Thread : s = [old EXCEPT !.plan = p]
  BY DEF IInv, TypeOK, Exec, Thread
<1>3. old \in Thread /\ s.results = old.results /\ s.summary = old.summary
  BY <1>2 DEF IInv, TypeOK, Exec, Thread
<1>4. exec[w].pc = "planning" /\ UNCHANGED stores
  BY DEF Plan
<1>5. exec[w].done = 0 /\ old.results = <<>> /\ ThreadOK(old)
  BY <1>4 DEF IInv, ExecInv, Placed
<1>6. Len(s.results) = 0 /\ ~s.summary
  BY <1>3, <1>5, WorkerAssumption DEF ThreadOK
<1>7. Behind(s) = exec[w].done + 1
  BY <1>5, <1>6 DEF Behind
<1>8. UNCHANGED <<bundle, run, checkpoint, steps, pack, drafts>>
  BY <1>4 DEF stores
<1>9. Grows /\ drafts' \in Seq(1..Students)
  BY <1>4, <1>8, StoresKept DEF IInv, TypeOK
<1>10. ThreadOK(s)'
  BY <1>6, WorkerAssumption DEF ThreadOK, Resolves
<1>11. SuperStep(w, s, 0)
  BY <1>1, <1>2
<1> QED BY <1>4, <1>7, <1>8, <1>9, <1>10, <1>11, SuperStepIInv

\* One more result, behind those there are.
LEMMA RecordedFields ==
  ASSUME NEW s \in Thread, NEW status \in Status, NEW d \in Nat
  PROVE  LET r == Recorded(s, status, d)
         IN  /\ r \in Thread /\ r.summary = s.summary /\ r.plan = s.plan
             /\ Len(r.results) = Len(s.results) + 1
             /\ \A n \in 1..Len(s.results) : r.results[n] = s.results[n]
             /\ r.results[Len(s.results) + 1] = [status |-> status, draft |-> d]
<1> DEFINE one == [status |-> status, draft |-> d]
           more == Append(s.results, one)
<1>1. s.results \in Seq(Result) /\ one \in Result
  BY DEF Thread, Result
<1>2. /\ more \in Seq(Result) /\ Len(more) = Len(s.results) + 1
      /\ \A n \in 1..Len(s.results) : more[n] = s.results[n]
      /\ more[Len(s.results) + 1] = one
  BY <1>1
<1>3. Recorded(s, status, d) = [s EXCEPT !.results = more]
  BY DEF Recorded
<1> HIDE DEF more, one
<1>4. LET r == Recorded(s, status, d)
      IN  r \in Thread /\ r.summary = s.summary /\ r.plan = s.plan /\ r.results = more
  BY <1>2, <1>3 DEF Thread
<1> QED BY <1>2, <1>4 DEF one

\* A student's outcome: the drafts grow by at most the one it names.
LEMMA StudentIInv ==
  ASSUME IInv, NEW w \in Worker, NEW status \in Status, NEW d \in Nat, NEW streak \in Nat,
         exec[w].pc = "student",
         SuperStep(w, Recorded(exec[w].state, status, d), streak),
         UNCHANGED <<bundle, run, checkpoint, steps, pack>>,
         drafts' \in Seq(1..Students), Grows,
         status = "generated" =>
            d \in 1..Len(drafts') /\ drafts'[d] = Len(exec[w].state.results) + 1
  PROVE  IInv'
<1>1. PICK old \in Thread : old = exec[w].state
  BY DEF IInv, TypeOK, Exec
<1>2. PICK s \in Thread :
        /\ s = Recorded(old, status, d)
        /\ s.summary = old.summary
        /\ Len(s.results) = Len(old.results) + 1
        /\ \A n \in 1..Len(old.results) : s.results[n] = old.results[n]
        /\ s.results[Len(old.results) + 1] = [status |-> status, draft |-> d]
  BY RecordedFields
<1>3. /\ old.results \in Seq(Result) /\ Len(old.results) \in Nat
      /\ Len(old.results) < Students /\ ThreadOK(old)
      /\ exec[w].done = Behind(old)
  BY <1>1 DEF Thread, IInv, ExecInv, Placed
<1>4. ~old.summary /\ ~s.summary
  BY <1>2, <1>3, WorkerAssumption DEF ThreadOK
<1>5. Behind(s) = exec[w].done + 1
  BY <1>2, <1>3, <1>4 DEF Behind
<1>6. Resolves(old.results)'
  BY <1>3, ResolvesKept DEF ThreadOK, IInv, TypeOK
<1>7. Resolves(s.results)'
  <2> SUFFICES ASSUME NEW n \in 1..Len(s.results), s.results[n].status = "generated"
               PROVE  /\ s.results[n].draft \in 1..Len(drafts')
                      /\ drafts'[s.results[n].draft] = n
    BY DEF Resolves
  <2>1. CASE n \in 1..Len(old.results)
    BY <1>2, <1>6, <2>1 DEF Resolves
  <2>2. CASE n = Len(old.results) + 1
    <3>1. s.results[n] = [status |-> status, draft |-> d]
      BY <1>2, <2>2
    <3>2. s.results[n].status = status /\ s.results[n].draft = d
      BY <3>1
    <3>3. d \in 1..Len(drafts') /\ drafts'[d] = Len(old.results) + 1
      BY <1>1, <3>2
    <3> QED BY <2>2, <3>2, <3>3
  <2> QED BY <1>2, <1>3, <2>1, <2>2
<1>8. ThreadOK(s)'
  BY <1>2, <1>3, <1>4, <1>7, WorkerAssumption DEF ThreadOK
<1>9. SuperStep(w, s, streak)
  BY <1>1, <1>2
<1> QED BY <1>5, <1>8, <1>9, SuperStepIInv

\* The draft is put before the result that names it.
LEMMA StudentGeneratedIInv ==
  ASSUME IInv, NEW w \in Worker, StudentGenerated(w) PROVE IInv'
<1> DEFINE n == Len(exec[w].state.results) + 1
<1>1. /\ exec[w].pc = "student" /\ drafts' = Append(drafts, n)
      /\ SuperStep(w, Recorded(exec[w].state, "generated", Len(drafts')), 0)
      /\ UNCHANGED <<bundle, run, checkpoint, steps, pack>>
  BY DEF StudentGenerated
<1>2. n \in 1..Students /\ drafts \in Seq(1..Students)
  <2>1. exec[w].state.results \in Seq(Result)
    BY DEF IInv, TypeOK, Exec, Thread
  <2>2. Len(exec[w].state.results) < Students
    BY <1>1 DEF IInv, ExecInv, Placed
  <2> QED BY <2>1, <2>2, WorkerAssumption DEF IInv, TypeOK
<1> HIDE DEF n
<1>3. /\ drafts' \in Seq(1..Students) /\ Len(drafts') = Len(drafts) + 1
      /\ drafts'[Len(drafts')] = n
      /\ \A i \in 1..Len(drafts) : drafts'[i] = drafts[i]
  BY <1>1, <1>2
<1>4. Grows
  BY <1>1, <1>2, <1>3 DEF Grows
<1>5. Len(drafts') \in Nat /\ Len(drafts') \in 1..Len(drafts') /\ "generated" \in Status
  BY <1>2, <1>3
<1>6. drafts'[Len(drafts')] = Len(exec[w].state.results) + 1
  BY <1>3 DEF n
<1> QED BY <1>1, <1>3, <1>4, <1>5, <1>6, StudentIInv

\* A failure names no draft.
LEMMA StudentFailedIInv == ASSUME IInv, NEW w \in Worker, StudentFailed(w) PROVE IInv'
<1>1. exec[w].streak \in Nat
  BY DEF IInv, TypeOK, Exec
<1>2. PICK streak \in Nat : SuperStep(w, Recorded(exec[w].state, "failed", 0), streak)
  BY <1>1 DEF StudentFailed
<1>3. exec[w].pc = "student" /\ UNCHANGED stores
  BY DEF StudentFailed
<1>4. UNCHANGED <<bundle, run, checkpoint, steps, pack, drafts>>
  BY <1>3 DEF stores
<1>5. Grows /\ drafts' \in Seq(1..Students)
  BY <1>3, <1>4, StoresKept DEF IInv, TypeOK
<1>6. "failed" \in Status /\ 0 \in Nat
  OBVIOUS
<1> QED BY <1>2, <1>3, <1>4, <1>5, <1>6, StudentIInv

\* The summary comes last.
LEMMA SummarizeIInv == ASSUME IInv, NEW w \in Worker, Summarize(w) PROVE IInv'
<1> DEFINE old == exec[w].state
<1>1. PICK s \in Thread : s = [old EXCEPT !.summary = TRUE]
  BY DEF IInv, TypeOK, Exec, Thread
<1>2. old \in Thread /\ s.results = old.results /\ s.summary = TRUE
  BY <1>1 DEF IInv, TypeOK, Exec, Thread
<1>3. /\ exec[w].pc = "summarizing" /\ SuperStep(w, s, exec[w].streak) /\ UNCHANGED stores
  BY <1>1 DEF Summarize
<1>4. exec[w].done = Behind(old) /\ ThreadOK(old) /\ ~old.summary
      /\ Len(old.results) = Students
  BY <1>3 DEF IInv, ExecInv, Placed
<1>5. Behind(s) = exec[w].done + 1
  BY <1>2, <1>4, WorkerAssumption DEF Behind
<1>6. UNCHANGED <<bundle, run, checkpoint, steps, pack, drafts>>
  BY <1>3 DEF stores
<1>7. Grows /\ drafts' \in Seq(1..Students) /\ exec[w].streak \in Nat
  BY <1>3, <1>6, StoresKept DEF IInv, TypeOK, Exec
<1>8. ThreadOK(s)'
  <2>1. Resolves(s.results)
    BY <1>2, <1>4 DEF ThreadOK
  <2>2. s.results \in Seq(Result)
    BY DEF Thread
  <2>3. Resolves(s.results)'
    BY <1>7, <2>1, <2>2, ResolvesKept DEF IInv, TypeOK
  <2> QED BY <1>2, <1>4, <2>3, WorkerAssumption DEF ThreadOK
<1> QED BY <1>3, <1>5, <1>6, <1>7, <1>8, SuperStepIInv

\* A snapshot of a super-step behind a thread is the thread as it was then: its
\* results are the first of the thread's, and all of them at the last super-step.
LEMMA SnapshotFields ==
  ASSUME NEW s \in Thread, Len(s.results) <= Students,
         s.summary => Len(s.results) = Students, NEW k \in 1..Behind(s)
  PROVE  LET c == Snapshot(s, k)
         IN  /\ c \in Thread
             /\ (c.summary <=> k = Students + 2)
             /\ (c.summary => s.summary)
             /\ Len(c.results) <= Len(s.results)
             /\ \A n \in 1..Len(c.results) : c.results[n] = s.results[n]
             /\ Len(c.results) = IF k = Students + 2 THEN Students ELSE k - 1
<1> DEFINE m == IF k = Students + 2 THEN Students ELSE k - 1
           r == SubSeq(s.results, 1, m)
           c == Snapshot(s, k)
<1>1. s.results \in Seq(Result) /\ Len(s.results) \in Nat /\ s.summary \in BOOLEAN
      /\ Students \in Nat
  BY WorkerAssumption DEF Thread
<1>2. k = Students + 2 => s.summary
  <2> SUFFICES ASSUME ~s.summary PROVE k # Students + 2
    OBVIOUS
  <2>1. Behind(s) = 1 + Len(s.results)
    BY DEF Behind
  <2> QED BY <1>1, <2>1
<1>3. m \in 0..Len(s.results)
  <2>1. CASE s.summary
    BY <1>1, <2>1 DEF Behind
  <2>2. CASE ~s.summary
    BY <1>1, <1>2, <2>2 DEF Behind
  <2> QED BY <2>1, <2>2
<1> HIDE DEF m
<1>4. r \in Seq(Result) /\ Len(r) = m /\ \A n \in 1..m : r[n] = s.results[n]
  BY <1>1, <1>3
<1>5. c = [plan |-> s.plan, summary |-> k = Students + 2, results |-> r]
  BY DEF Snapshot, m
<1> HIDE DEF r, c
<1>6. c.results = r /\ (c.summary <=> k = Students + 2)
  BY <1>5
<1>7. c \in Thread
  BY <1>4, <1>5 DEF Thread
<1>8. c.summary => s.summary
  BY <1>2, <1>6
<1>9. Len(c.results) <= Len(s.results)
  BY <1>1, <1>3, <1>4, <1>6
<1> QED BY <1>4, <1>6, <1>7, <1>8, <1>9 DEF c, m

\* A checkpoint is written behind the thread.
LEMMA SaveCheckpointIInv == ASSUME IInv, NEW w \in Worker, SaveCheckpoint(w) PROVE IInv'
<1> DEFINE k == exec[w].saved + 1
<1>1. PICK s \in Thread : s = exec[w].state
  BY DEF IInv, TypeOK, Exec
<1>2. /\ k \in Nat /\ exec[w].done \in Nat /\ k >= 1 /\ k <= exec[w].done
      /\ exec[w] \in Exec /\ exec[w].saved \in Nat
  BY DEF SaveCheckpoint, IInv, TypeOK, Exec
<1>3. ThreadOK(s) /\ exec[w].done = Behind(s)
  BY <1>1, <1>2 DEF IInv, ExecInv, Placed
<1>4. /\ checkpoint' = Snapshot(s, k)
      /\ UNCHANGED <<job, live, bundle, run, drafts, steps, pack, resumes>>
  BY <1>1 DEF SaveCheckpoint
<1>5. PICK x \in Exec : /\ exec' = [exec EXCEPT ![w] = x] /\ x.saved = k
                        /\ x.pc = exec[w].pc /\ x.state = s /\ x.done = exec[w].done
                        /\ x.seen = exec[w].seen /\ x.seq = exec[w].seq
  <2> DEFINE x == [exec[w] EXCEPT !.saved = k]
  <2>1. exec' = [exec EXCEPT ![w] = x]
    BY DEF SaveCheckpoint, IInv, TypeOK
  <2> HIDE DEF k
  <2>2. /\ x \in Exec /\ x.saved = k
        /\ x.pc = exec[w].pc /\ x.state = s /\ x.done = exec[w].done
        /\ x.seen = exec[w].seen /\ x.seq = exec[w].seq
    BY <1>1, <1>2 DEF Exec
  <2> HIDE DEF x
  <2> QED BY <2>1, <2>2
<1> HIDE DEF k
<1>6. PICK j \in 1..Behind(s) : j = k
  BY <1>2, <1>3
<1>7. /\ checkpoint' \in Thread /\ (checkpoint'.summary <=> k = Students + 2)
      /\ (checkpoint'.summary => s.summary)
      /\ Len(checkpoint'.results) <= Len(s.results)
      /\ \A n \in 1..Len(checkpoint'.results) : checkpoint'.results[n] = s.results[n]
      /\ Len(checkpoint'.results) = IF k = Students + 2 THEN Students ELSE k - 1
  BY <1>3, <1>4, <1>6, SnapshotFields DEF ThreadOK
<1>8. TypeOK'
  BY <1>4, <1>5, <1>7 DEF IInv, TypeOK
<1>9. Grows /\ LedgerInv'
  BY <1>4 DEF Grows, IInv, LedgerInv, TypeOK
<1>10. ThreadOK(checkpoint)'
  <2>1. Len(checkpoint'.results) \in Nat /\ Len(s.results) \in Nat
    BY <1>7 DEF Thread
  <2>2. Len(checkpoint'.results) <= Students
    BY <1>3, <1>7, <2>1, WorkerAssumption DEF ThreadOK
  <2>3. Resolves(s.results) /\ drafts' = drafts
    BY <1>3, <1>4 DEF ThreadOK
  <2>4. Resolves(checkpoint.results)'
    <3> DEFINE r == checkpoint'.results
    <3>1. \A n \in 1..Len(r) : n \in 1..Len(s.results) /\ r[n] = s.results[n]
      BY <1>7, <2>1
    <3> QED BY <2>3, <3>1 DEF Resolves
  <2> QED BY <1>7, <2>2, <2>4 DEF ThreadOK
<1>11. StoresInv'
  BY <1>4, <1>10 DEF IInv, StoresInv, Resolves
<1>12. Placed(x)
  BY <1>1, <1>2, <1>5 DEF IInv, ExecInv, Placed
<1>13. Written(x)'
  BY <1>4, <1>5 DEF IInv, ExecInv, Written
<1>14. ThreadOK(x.state)'
  BY <1>3, <1>4, <1>5 DEF ThreadOK, Resolves
<1> QED BY <1>5, <1>8, <1>9, <1>11, <1>12, <1>13, <1>14, OneExec DEF IInv

\* The seqs seen at the start are recorded, and stay so.
LEMMA ListStepsIInv == ASSUME IInv, NEW w \in Worker, ListSteps(w) PROVE IInv'
<1> DEFINE seen == {n \in 1..Students : steps[n] # <<>>}
<1>1. PICK x \in Exec : /\ exec' = [exec EXCEPT ![w] = x]
                        /\ x.pc = "recording" /\ x.seq = 1 /\ x.seen = seen
                        /\ x.state = exec[w].state /\ x.done = exec[w].done
                        /\ x.saved = exec[w].saved
  <2> DEFINE x == [exec[w] EXCEPT !.pc = "recording", !.seq = 1, !.seen = seen]
  <2>1. exec' = [exec EXCEPT ![w] = x]
    BY DEF ListSteps, IInv, TypeOK
  <2>2. exec[w] \in Exec /\ seen \in SUBSET (1..Students)
    BY DEF IInv, TypeOK
  <2> HIDE DEF seen
  <2>3. /\ x \in Exec /\ x.pc = "recording" /\ x.seq = 1 /\ x.seen = seen
        /\ x.state = exec[w].state /\ x.done = exec[w].done /\ x.saved = exec[w].saved
    BY <2>2 DEF Exec, PC
  <2> HIDE DEF x
  <2> QED BY <2>1, <2>3
<1>2. UNCHANGED <<stores, live, resumes>> /\ UNCHANGED job /\ exec[w].pc = "listing"
  BY DEF ListSteps
<1>3. job' \in JobType /\ LedgerInv'
  BY <1>2 DEF IInv, TypeOK, JobType, LedgerInv, stores
<1>4. run /\ Placed(exec[w]) /\ ThreadOK(exec[w].state)
  BY <1>2 DEF IInv, ExecInv, Written, Late
<1>5. Placed(x)
  BY <1>1, <1>2, <1>4, WorkerAssumption DEF Placed, Late
<1>6. Written(x)
  BY <1>1, <1>4 DEF Written
<1>7. ThreadOK(x.state)
  BY <1>1, <1>4
<1> QED BY <1>1, <1>2, <1>3, <1>5, <1>6, <1>7, MemoryIInv

\* Recording adds the row of the next seq, unless it was seen.
LEMMA RecordStepIInv == ASSUME IInv, NEW w \in Worker, RecordStep(w) PROVE IInv'
<1>1. PICK y \in Exec : y = exec[w]
  BY DEF IInv, TypeOK
<1> DEFINE n == y.seq
           row == y.state.results[n].status
           pc == IF n = Students THEN "packing" ELSE "recording"
<1>2. /\ y.pc = "recording"
      /\ steps' = IF n \in y.seen THEN steps ELSE [steps EXCEPT ![n] = Append(@, row)]
      /\ exec' = [exec EXCEPT ![w].seq = n + 1, ![w].pc = pc]
      /\ UNCHANGED <<job, live, bundle, run, checkpoint, drafts, pack, resumes>>
  BY <1>1 DEF RecordStep, IInv, TypeOK
<1>3. ThreadOK(y.state) /\ Placed(y) /\ Written(y)
  BY <1>1 DEF IInv, ExecInv
<1>4. /\ n \in 1..Students /\ y.state.summary /\ Len(y.state.results) = Students
      /\ y.state.results \in Seq(Result) /\ run
  BY <1>2, <1>3 DEF Placed, Written, ThreadOK, Late, Exec, Thread
<1>5. row \in Status
  <2>1. y.state.results[n] \in Result
    BY <1>4
  <2> QED BY <2>1 DEF Result
<1>6. PICK x \in Exec : /\ exec' = [exec EXCEPT ![w] = x]
                        /\ x.pc = pc /\ x.seq = n + 1 /\ x.seen = y.seen
                        /\ x.state = y.state /\ x.done = y.done /\ x.saved = y.saved
  <2> DEFINE x == [y EXCEPT !.seq = n + 1, !.pc = pc]
  <2>1. exec' = [exec EXCEPT ![w] = x]
    BY <1>1, <1>2 DEF IInv, TypeOK
  <2>2. pc \in PC /\ n + 1 \in Nat
    BY <1>4 DEF PC
  <2> HIDE DEF n, pc
  <2>3. /\ x \in Exec /\ x.pc = pc /\ x.seq = n + 1 /\ x.seen = y.seen
        /\ x.state = y.state /\ x.done = y.done /\ x.saved = y.saved
    BY <2>2 DEF Exec
  <2> HIDE DEF x
  <2> QED BY <2>1, <2>3
<1> HIDE DEF row, n
<1>7. /\ steps' \in [1..Students -> Seq(Status)]
      /\ \A i \in 1..Students : steps[i] # <<>> => steps'[i] # <<>>
      /\ n \notin y.seen => steps'[n] # <<>>
  <2>1. steps \in [1..Students -> Seq(Status)]
    BY DEF IInv, TypeOK
  <2>2. CASE n \in y.seen
    BY <1>2, <2>1, <2>2
  <2>3. CASE n \notin y.seen
    <3>1. steps' = [steps EXCEPT ![n] = Append(@, row)]
      BY <1>2, <2>3
    <3>2. Append(steps[n], row) \in Seq(Status) /\ Append(steps[n], row) # <<>>
      BY <1>4, <1>5, <2>1
    <3> QED BY <1>4, <2>1, <3>1, <3>2
  <2> QED BY <2>2, <2>3
<1>8. TypeOK'
  <2>1. exec' \in [Worker -> Exec]
    BY <1>6 DEF IInv, TypeOK
  <2>2. steps' \in [1..Students -> Seq(Status)]
    BY <1>7
  <2>3. UNCHANGED <<job, live, bundle, run, checkpoint, drafts, pack, resumes>>
    BY <1>2
  <2> QED BY <2>1, <2>2, <2>3 DEF IInv, TypeOK
<1>9. Grows /\ LedgerInv'
  BY <1>2, <1>7 DEF Grows, IInv, LedgerInv, TypeOK
<1>10. StoresInv'
  BY <1>2, <1>7 DEF IInv, StoresInv, ThreadOK, Resolves
<1>11. \A i \in 1..Students : i < n + 1 \/ i \in y.seen => steps'[i] # <<>>
  <2> SUFFICES ASSUME NEW i \in 1..Students, i < n + 1 \/ i \in y.seen
               PROVE  steps'[i] # <<>>
    OBVIOUS
  <2>1. n < Students + 1 /\ n \in Nat
    BY <1>4, WorkerAssumption
  <2>2. i < n \/ i \in y.seen => steps[i] # <<>>
    BY <1>2, <1>3 DEF Written, n
  <2>3. CASE i = n
    BY <1>7, <2>2, <2>3
  <2>4. CASE i # n
    BY <1>7, <2>1, <2>2, <2>4
  <2> QED BY <2>3, <2>4
<1>12. Placed(x)
  <2>1. n # Students => n + 1 \in 1..Students
    BY <1>4, WorkerAssumption
  <2> QED BY <1>2, <1>3, <1>4, <1>6, <2>1 DEF Placed, Late
<1>13. Written(x)'
  <2>1. x.pc = "recording" =>
            \A i \in 1..Students : i < x.seq \/ i \in x.seen => steps'[i] # <<>>
    BY <1>6, <1>11
  <2>2. x.pc = "packing" => \A i \in 1..Students : steps'[i] # <<>>
    <3>1. x.pc = "packing" => n = Students
      BY <1>6
    <3>2. n = Students => \A i \in 1..Students : i < n + 1
      BY WorkerAssumption
    <3> QED BY <1>11, <3>1, <3>2
  <2>3. x.pc \in {"recording", "packing"}
    BY <1>6
  <2> QED BY <1>2, <1>4, <2>1, <2>2, <2>3 DEF Written
<1>14. ThreadOK(x.state)'
  BY <1>2, <1>3, <1>6 DEF ThreadOK, Resolves
<1> QED BY <1>6, <1>8, <1>9, <1>10, <1>12, <1>13, <1>14, OneExec DEF IInv

\* The pack is the whole thread, put behind all the steps, once.
LEMMA StorePackIInv == ASSUME IInv, NEW w \in Worker, StorePack(w) PROVE IInv'
<1>1. PICK x \in Exec : /\ exec' = [exec EXCEPT ![w] = x]
                        /\ x.pc = "succeeding" /\ SameThread(x, exec[w])
  <2>1. Goto(w, "succeeding") /\ "succeeding" \in PC
    BY DEF StorePack, PC
  <2> QED BY <2>1, GotoExec DEF IInv
<1>2. /\ pack' = {PackOf(w)} /\ exec[w].pc = "packing"
      /\ UNCHANGED <<job, live, bundle, run, checkpoint, drafts, steps, resumes>>
  BY DEF StorePack
<1>3. PICK y \in Exec : y = exec[w]
  BY DEF IInv, TypeOK
<1>4. ThreadOK(y.state) /\ Placed(y) /\ Written(y)
  BY <1>3 DEF IInv, ExecInv
<1>5. /\ y.state.summary /\ Len(y.state.results) = Students /\ run
      /\ \A n \in 1..Students : steps[n] # <<>>
      /\ Resolves(y.state.results)
  BY <1>2, <1>3, <1>4 DEF Placed, Written, ThreadOK, Late
<1>6. PackOf(w) \in Pack /\ PackOf(w).results = y.state.results
  BY <1>3 DEF PackOf, Pack, Exec, Thread
<1>7. TypeOK'
  BY <1>1, <1>2, <1>6 DEF IInv, TypeOK
<1>8. Grows /\ LedgerInv'
  BY <1>2 DEF Grows, IInv, LedgerInv, TypeOK
<1>9. StoresInv'
  BY <1>2, <1>5, <1>6 DEF IInv, StoresInv, ThreadOK, Resolves
<1>10. Placed(x)
  BY <1>1, <1>2, <1>3, <1>4 DEF Placed, SameThread, Late
<1>11. Written(x)'
  BY <1>1, <1>2, <1>5 DEF Written
<1>12. ThreadOK(x.state)'
  BY <1>1, <1>2, <1>3, <1>4 DEF ThreadOK, Resolves, SameThread
<1> QED BY <1>1, <1>7, <1>8, <1>9, <1>10, <1>11, <1>12, OneExec DEF IInv

\* The last call of an execution writes the ledger and forgets the thread.
LEMMA LastCallIInv ==
  ASSUME IInv, NEW w \in Worker,
         Succeed(w) \/ Fail(w) \/ FailRefused(w) \/ Pause(w) \/ PauseRefused(w) \/ Crash(w)
  PROVE  IInv'
<1>1. UNCHANGED <<stores, live, resumes>>
  BY DEF Succeed, Fail, FailRefused, Pause, PauseRefused, Crash
<1>2. PICK c \in Cause : Leave(w, c)
  <2>1. Crash(w) => Leave(w, "none")
    BY DEF Crash, Leave, Idle
  <2> QED BY <2>1 DEF Succeed, Fail, FailRefused, Pause, PauseRefused
<1>3. /\ job \in JobType
      /\ job.phase # "failed" => job.recovery < MaxRecovery
      /\ job.phase = "succeeded" => pack # {}
  BY DEF IInv, TypeOK, JobType, LedgerInv
<1>4. UNCHANGED pack
  BY <1>1 DEF stores
<1>5. job' \in JobType /\ LedgerInv'
  <2>1. CASE UNCHANGED job
    BY <1>3, <1>4, <2>1 DEF LedgerInv
  <2>2. CASE Succeed(w)
    <3>1. job' = [job EXCEPT !.phase = "succeeded"] /\ job.phase \in Active
      BY <2>2 DEF Succeed, Owns
    <3>2. pack # {}
      BY <2>2 DEF Succeed, IInv, ExecInv, Written
    <3>3. job' \in JobType /\ job'.phase = "succeeded" /\ job'.recovery = job.recovery
      BY <1>3, <3>1 DEF JobType
    <3> QED BY <1>3, <1>4, <3>1, <3>2, <3>3 DEF LedgerInv
  <2>3. CASE Fail(w)
    <3>1. PICK e \in Error : job' = [job EXCEPT !.phase = "failed", !.error = e]
      BY <2>3 DEF Fail
    <3>2. job' \in JobType /\ job'.phase = "failed"
      BY <1>3, <3>1 DEF JobType
    <3> QED BY <3>2 DEF LedgerInv
  <2>4. CASE Pause(w)
    <3>1. job' = [job EXCEPT !.phase = "paused"] /\ job.phase \in Active
      BY <2>4 DEF Pause, Owns
    <3>2. job' \in JobType /\ job'.phase = "paused" /\ job'.recovery = job.recovery
      BY <1>3, <3>1 DEF JobType
    <3> QED BY <1>3, <3>1, <3>2 DEF LedgerInv
  <2> QED BY <2>1, <2>2, <2>3, <2>4 DEF FailRefused, PauseRefused, Crash
<1> QED BY <1>1, <1>2, <1>5, LeaveIInv

\* An open circuit goes on to pause the job.
LEMMA CircuitOpensIInv == ASSUME IInv, NEW w \in Worker, CircuitOpens(w) PROVE IInv'
<1>1. PICK x \in Exec : /\ exec' = [exec EXCEPT ![w] = x]
                        /\ x.pc = "pausing" /\ SameThread(x, exec[w])
  <2>1. Goto(w, "pausing") /\ "pausing" \in PC
    BY DEF CircuitOpens, PC
  <2> QED BY <2>1, GotoExec DEF IInv
<1>2. UNCHANGED <<stores, live, resumes>> /\ UNCHANGED job
  BY DEF CircuitOpens
<1>3. job' \in JobType /\ LedgerInv'
  BY <1>2 DEF IInv, TypeOK, JobType, LedgerInv, stores
<1>4. ThreadOK(x.state) /\ Placed(x) /\ Written(x)
  BY <1>1 DEF IInv, ExecInv, SameThread, ThreadOK, Placed, Written, Late
<1> QED BY <1>1, <1>2, <1>3, <1>4, MemoryIInv

\* Whatever raises, raises with a cause.
LEMMA RaisesIInv ==
  ASSUME IInv, NEW w \in Worker,
         BundleMissing(w) \/ StartRefused(w) \/ PackConflict(w) \/ SucceedRefused(w)
            \/ StoreFails(w)
  PROVE  IInv'
<1>1. PICK c \in Cause : Raise(w, c)
  BY DEF BundleMissing, StartRefused, PackConflict, SucceedRefused, StoreFails
<1> QED BY <1>1, RaiseIInv

\* Nothing moves.
LEMMA StutterIInv == ASSUME IInv, UNCHANGED vars PROVE IInv'
<1>1. UNCHANGED <<stores, live, resumes, job, exec>>
  BY DEF vars, stores
<1>2. TypeOK' /\ LedgerInv'
  BY <1>1 DEF IInv, TypeOK, LedgerInv, stores
<1>3. StoresInv' /\ Grows
  BY <1>1, StoresKept
<1> QED BY <1>1, <1>2, <1>3, NoExec DEF IInv

\* Every step keeps the inductive invariant.
LEMMA NextIInv == ASSUME IInv, [Next]_vars PROVE IInv'
<1>1. ASSUME NEW w \in Worker, Step(w) PROVE IInv'
  BY <1>1, StartIInv, BeginRunIInv, LoadThreadIInv, PlanIInv, StudentGeneratedIInv,
     StudentFailedIInv, CircuitOpensIInv, SummarizeIInv, SaveCheckpointIInv, ListStepsIInv,
     RecordStepIInv, StorePackIInv, LastCallIInv, RaisesIInv DEF Step, Graph
<1>2. ASSUME NEW w \in Worker, Drain(w) \/ StoreFails(w) \/ Crash(w) PROVE IInv'
  BY <1>2, LedgerIInv, LeaseNextIInv, RaisesIInv, LastCallIInv DEF Drain
<1> QED BY <1>1, <1>2, LedgerIInv, StutterIInv DEF Next

\* The inductive invariant is an invariant.
THEOREM Invariance == Spec => []IInv
  BY InitIInv, NextIInv, PTL DEF Spec
-----------------------------------------------------------------------------
(* What follows from it.                                                   *)

\* Rows, checkpoints, packs and executions are what their types say, at any number
\* of recoveries: the count of a row never passes max_recovery_attempts.
THEOREM TypeCorrect == Spec => []TypeOK
<1>1. IInv => TypeOK
  BY DEF IInv
<1> QED BY <1>1, Invariance, PTL

\* Whatever point a crash picks, also when two executions share a thread, what a
\* checkpoint or a pack names is a stored draft of that student, under a run.
THEOREM DraftsExist == Spec => []NoDanglingDraft
<1>1. IInv => NoDanglingDraft
  BY DEF IInv, StoresInv, ThreadOK, NoDanglingDraft
<1> QED BY <1>1, Invariance, PTL

\* A succeeded job always has a whole pack, and a pack all its steps.
THEOREM ResultsReadable == Spec => []ResultReadable
<1>1. ASSUME IInv PROVE ResultReadable
  <2>1. pack # {} => \E p \in pack : Len(p.results) = Students /\ Resolves(p.results)
    BY <1>1 DEF IInv, StoresInv
  <2> QED BY <1>1, <2>1 DEF IInv, StoresInv, LedgerInv, ResultReadable
<1> QED BY <1>1, Invariance, PTL

\* A published pack is never replaced: the second execution of a thread finds its
\* own record there or conflicts.
THEOREM PacksImmutable == Spec => PackImmutable
<1> DEFINE Kept == pack # {} => pack' = pack
<1>1. [Next]_vars => Kept
  <2> SUFFICES ASSUME [Next]_vars, pack # {} PROVE pack' = pack
    OBVIOUS
  <2>1. CASE UNCHANGED pack
    BY <2>1
  <2>2. ASSUME NEW w \in Worker, StorePack(w) PROVE pack' = pack
    BY <2>2 DEF StorePack
  <2>3. ASSUME NEW w \in Worker, Step(w), ~StorePack(w) PROVE UNCHANGED pack
    BY <2>3 DEF Step, Graph, Start, BundleMissing, StartRefused, BeginRun, LoadThread,
       Plan, StudentGenerated, StudentFailed, CircuitOpens, Summarize, SaveCheckpoint,
       ListSteps, RecordStep, PackConflict, Succeed, SucceedRefused, Fail, FailRefused,
       Pause, PauseRefused, Raise, stores
  <2>4. ASSUME NEW w \in Worker, Drain(w) \/ StoreFails(w) \/ Crash(w) PROVE UNCHANGED pack
    BY <2>4 DEF Drain, RecoverExpired, LeaseNext, StoreFails, Crash, Raise, stores
  <2>5. Expire \/ Resume => UNCHANGED pack
    BY DEF Expire, Resume, stores
  <2> QED BY <2>1, <2>2, <2>3, <2>4, <2>5 DEF Next, vars
<1>2. [Next]_vars => [Kept]_vars
  BY <1>1
<1>3. [][Kept]_vars => PackImmutable
  BY PTL DEF PackImmutable
<1> QED BY <1>2, <1>3, PTL DEF Spec
-----------------------------------------------------------------------------
(* While no lease outlives its execution, one execution at most runs the   *)
(* job, its thread is ahead of the checkpoint, and what the steps and the  *)
(* pack say is what the checkpoint says.                                   *)

\* The execution has its thread, loaded or new.
Loaded(x) == x.done # 0 \/ x.pc = "planning"

\* The checkpoint is a first part of the thread, and whole only when it is.
Synced(x) ==
    LET c == checkpoint.results
        r == x.state.results
    IN  Loaded(x) =>
            /\ Len(c) <= Len(r)
            /\ \A n \in 1..Len(c) : c[n] = r[n]
            /\ checkpoint.summary => x.state.summary /\ x.saved = x.done
            /\ x.state.summary /\ x.saved = x.done => checkpoint.summary

\* Steps are recorded from a saved thread, each seq that was not seen once.
Listed(x) ==
    /\ x.pc \in {"recording", "packing", "succeeding"} => x.saved = x.done
    /\ x.pc = "recording" =>
            \A n \in 1..Students : n >= x.seq /\ n \notin x.seen => steps[n] = <<>>

\* What is recorded and published is what the whole checkpoint says.
Told ==
    /\ \A n \in 1..Students :
            steps[n] # <<>> => /\ checkpoint.summary
                               /\ steps[n] = <<checkpoint.results[n].status>>
    /\ \A p \in pack : /\ checkpoint.summary
                       /\ \A n \in 1..Students : p.results[n] = checkpoint.results[n]

Sole ==
    /\ \A v, w \in Worker : exec[v].pc # "idle" /\ exec[w].pc # "idle" => v = w
    /\ \A w \in Worker : exec[w].pc # "idle" => /\ Owns(w)
                                                /\ Synced(exec[w])
                                                /\ Listed(exec[w])
    /\ Told

SoleInv == IInv /\ Sole

\* Nobody runs the job yet.
LEMMA InitSole == Init => SoleInv
<1> SUFFICES ASSUME Init PROVE SoleInv
  OBVIOUS
<1>1. Sole
  BY DEF Init, Sole, Idle, Told
<1> QED BY <1>1, InitIInv DEF SoleInv
-----------------------------------------------------------------------------
(* The one execution moves.                                                *)

\* The execution that runs the job becomes x, and the others stay idle.
LEMMA OneSole ==
  ASSUME SoleInv, NEW w \in Worker, NEW x \in Exec, exec' = [exec EXCEPT ![w] = x],
         exec[w].pc # "idle" \/ \A v \in Worker : exec[v].pc = "idle",
         x.pc # "idle" => /\ job'.phase \in Active /\ live' /\ job'.generation = x.generation
                          /\ Synced(x)' /\ Listed(x)',
         Told'
  PROVE  Sole'
<1>1. exec \in [Worker -> Exec]
  BY DEF SoleInv, IInv, TypeOK
<1>2. \A v \in Worker : v # w => exec'[v].pc = "idle"
  BY <1>1 DEF SoleInv, Sole
<1>3. exec'[w] = x
  BY <1>1
<1>4. ASSUME NEW v \in Worker, exec'[v].pc # "idle"
      PROVE  Owns(v)' /\ Synced(exec[v])' /\ Listed(exec[v])'
  <2>1. v = w
    BY <1>2, <1>4
  <2>2. exec'[v] = x /\ x.pc # "idle"
    BY <1>3, <1>4, <2>1
  <2>3. Owns(v)'
    BY <2>2 DEF Owns
  <2>4. Synced(exec[v])' /\ Listed(exec[v])'
    BY <2>2 DEF Synced, Loaded, Listed
  <2> QED BY <2>3, <2>4
<1> QED BY <1>2, <1>4 DEF Sole

\* What the one execution knows when it moves.
LEMMA TheOne ==
  ASSUME SoleInv, NEW w \in Worker, exec[w].pc # "idle"
  PROVE  \E y \in Exec : /\ y = exec[w]
                         /\ job.phase \in Active /\ live /\ job.generation = y.generation
                         /\ ThreadOK(y.state) /\ Placed(y) /\ Written(y)
                         /\ Synced(y) /\ Listed(y)
                         /\ y.done \in Nat /\ y.saved \in Nat
                         /\ y.state.results \in Seq(Result)
                         /\ y.state.summary \in BOOLEAN
<1>1. PICK y \in Exec : y = exec[w]
  BY DEF SoleInv, IInv, TypeOK
<1>2. job.phase \in Active /\ live /\ job.generation = y.generation
  BY <1>1 DEF SoleInv, Sole, Owns
<1>3. ThreadOK(y.state) /\ Placed(y) /\ Written(y)
  BY <1>1 DEF SoleInv, IInv, ExecInv
<1>4. Synced(y) /\ Listed(y)
  BY <1>1 DEF SoleInv, Sole
<1>5. /\ y.done \in Nat /\ y.saved \in Nat /\ y.state.results \in Seq(Result)
      /\ y.state.summary \in BOOLEAN
  BY DEF Exec, Thread
<1> QED BY <1>1, <1>2, <1>3, <1>4, <1>5

\* A call that keeps the thread, the checkpoint and the steps.
LEMMA KeepSole ==
  ASSUME SoleInv, NEW w \in Worker, exec[w].pc # "idle",
         NEW x \in Exec, exec' = [exec EXCEPT ![w] = x],
         SameThread(x, exec[w]), x.generation = exec[w].generation,
         job'.phase \in Active, job'.generation = job.generation,
         UNCHANGED <<live, checkpoint, steps>>,
         \/ x.pc \in {"started", "begun", "pausing", "failing"}
         \/ x.pc = "succeeding" /\ exec[w].pc = "packing",
         Told'
  PROVE  Sole'
<1>1. PICK y \in Exec :
        /\ y = exec[w] /\ live /\ job.generation = y.generation /\ Synced(y) /\ Listed(y)
  BY TheOne
<1>2. Synced(x)'
  <2>1. Loaded(x) => Loaded(y)
    BY <1>1 DEF Loaded, SameThread
  <2>2. x.state = y.state /\ x.saved = y.saved /\ x.done = y.done
    BY <1>1 DEF SameThread
  <2> QED BY <1>1, <2>1, <2>2 DEF Synced, Loaded
<1>3. Listed(x)'
  BY <1>1 DEF Listed, SameThread
<1>4. job'.generation = x.generation /\ live'
  BY <1>1
<1> QED BY <1>2, <1>3, <1>4, OneSole

\* The one execution is gone.
LEMMA LeaveSole ==
  ASSUME SoleInv, NEW w \in Worker, exec[w].pc # "idle", NEW c \in Cause, Leave(w, c),
         UNCHANGED stores
  PROVE  Sole'
<1>1. PICK x \in Exec : x = [Idle EXCEPT !.cause = c] /\ x.pc = "idle"
  BY IdleOK
<1>2. exec' = [exec EXCEPT ![w] = x]
  BY <1>1 DEF Leave
<1>3. Told'
  BY DEF stores, Told, SoleInv, Sole
<1> QED BY <1>1, <1>2, <1>3, OneSole
-----------------------------------------------------------------------------
(* The ledger around the executions.                                       *)

\* A lease that does not outlive its execution expires when nobody runs the job; a
\* job that is queued, paused or expired is run by nobody.
LEMMA LedgerSole ==
  ASSUME ~Outlives, SoleInv,
         Expire \/ Resume \/ \E w \in Worker : RecoverExpired(w)
  PROVE  Sole'
<1>1. UNCHANGED <<stores, exec>>
  BY DEF Expire, Resume, RecoverExpired
<1>2. \A w \in Worker : exec[w].pc = "idle"
  BY DEF Expire, Resume, RecoverExpired, SoleInv, Sole, Owns
<1>3. Told'
  BY <1>1 DEF stores, Told, SoleInv, Sole
<1> QED BY <1>1, <1>2, <1>3 DEF Sole

\* The execution of a new lease has no thread.
LEMMA LeaseNextSole == ASSUME SoleInv, NEW w \in Worker, LeaseNext(w) PROVE Sole'
<1>1. job \in JobType /\ job.generation \in Nat /\ job.started \in BOOLEAN
  BY DEF SoleInv, IInv, TypeOK, JobType
<1> DEFINE g == job.generation + 1
<1>2. PICK x \in Exec : /\ exec' = [exec EXCEPT ![w] = x]
                        /\ x.pc = "leased" /\ x.done = 0 /\ x.generation = g
  <2> DEFINE x == [Idle EXCEPT !.pc = "leased", !.generation = g, !.started = job.started]
  <2>1. Idle \in Exec /\ Idle.done = 0 /\ g \in Nat
    BY <1>1, NewThreadOK DEF Idle, Exec, PC
  <2>2. exec' = [exec EXCEPT ![w] = x]
    BY DEF LeaseNext
  <2> HIDE DEF g
  <2>3. x \in Exec /\ x.pc = "leased" /\ x.done = 0 /\ x.generation = g
    BY <1>1, <2>1 DEF Exec, PC
  <2> HIDE DEF x
  <2> QED BY <2>2, <2>3
<1>3. /\ job.phase = "queued" /\ job' = [job EXCEPT !.phase = "leased", !.generation = g]
      /\ live' = TRUE /\ UNCHANGED stores
  BY DEF LeaseNext
<1> HIDE DEF g
<1>4. job'.phase = "leased" /\ job'.generation = g
  BY <1>1, <1>3 DEF JobType
<1>5. \A v \in Worker : exec[v].pc = "idle"
  BY <1>3 DEF SoleInv, Sole, Owns
<1>6. Told'
  BY <1>3 DEF stores, Told, SoleInv, Sole
<1>7. Synced(x)' /\ Listed(x)'
  BY <1>2 DEF Synced, Loaded, Listed
<1> QED BY <1>2, <1>3, <1>4, <1>5, <1>6, <1>7, OneSole
-----------------------------------------------------------------------------
(* The one execution, call by call.                                        *)

\* Told says nothing of the rows a call leaves alone.
LEMMA ToldKept == ASSUME SoleInv, UNCHANGED <<checkpoint, steps, pack>> PROVE Told'
  BY DEF SoleInv, Sole, Told

\* start, begin_run, an open circuit, and whatever raises.
LEMMA KeepsSole ==
  ASSUME SoleInv, NEW w \in Worker,
         \/ Start(w) \/ BeginRun(w) \/ CircuitOpens(w)
         \/ BundleMissing(w) \/ StartRefused(w) \/ PackConflict(w) \/ SucceedRefused(w)
         \/ StoreFails(w)
  PROVE  Sole'
<1>1. exec[w].pc # "idle"
  BY DEF Start, BeginRun, CircuitOpens, BundleMissing, StartRefused, PackConflict,
         SucceedRefused, StoreFails
<1>2. PICK x \in Exec : /\ exec' = [exec EXCEPT ![w] = x] /\ SameThread(x, exec[w])
                        /\ x.generation = exec[w].generation
                        /\ x.pc \in {"started", "begun", "pausing", "failing"}
  <2>1. TypeOK
    BY DEF SoleInv, IInv
  <2>2. CASE Start(w) \/ BeginRun(w) \/ CircuitOpens(w)
    <3>1. PICK pc \in {"started", "begun", "pausing"} : Goto(w, pc)
      BY <2>2 DEF Start, BeginRun, CircuitOpens
    <3>2. pc \in PC
      BY DEF PC
    <3> QED BY <2>1, <3>1, <3>2, GotoExec
  <2>3. CASE BundleMissing(w) \/ StartRefused(w) \/ PackConflict(w) \/ SucceedRefused(w)
                \/ StoreFails(w)
    <3>1. PICK c \in Cause : Raise(w, c)
      BY <2>3 DEF BundleMissing, StartRefused, PackConflict, SucceedRefused, StoreFails
    <3> QED BY <2>1, <3>1, RaiseExec
  <2> QED BY <2>2, <2>3
<1>3. UNCHANGED <<live, checkpoint, steps, pack>>
  BY DEF Start, BeginRun, CircuitOpens, BundleMissing, StartRefused, PackConflict,
         SucceedRefused, StoreFails, Raise, stores
<1>4. job'.phase \in Active /\ job'.generation = job.generation
  <2>1. job.phase \in Active /\ job \in JobType
    BY <1>1 DEF SoleInv, Sole, Owns, IInv, TypeOK, JobType
  <2>2. UNCHANGED job \/ job' = [job EXCEPT !.phase = "running", !.started = TRUE]
    BY DEF Start, BeginRun, CircuitOpens, BundleMissing, StartRefused, PackConflict,
           SucceedRefused, StoreFails, Raise
  <2> QED BY <2>1, <2>2 DEF JobType
<1>5. Told'
  BY <1>3, ToldKept
<1> QED BY <1>1, <1>2, <1>3, <1>4, <1>5, KeepSole

\* A thread just loaded is the checkpoint.
LEMMA LoadThreadSole == ASSUME SoleInv, NEW w \in Worker, LoadThread(w) PROVE Sole'
<1>1. PICK c \in Thread : c = checkpoint
  BY DEF SoleInv, IInv, TypeOK
<1> DEFINE n == Len(c.results)
           k == IF n = 0 THEN 0 ELSE n + 1 + (IF c.summary THEN 1 ELSE 0)
           pc == IF n = 0 THEN "planning" ELSE NextNode(c)
<1>2. exec[w].pc = "begun" /\ UNCHANGED <<job, live>> /\ UNCHANGED stores
  BY DEF LoadThread
<1>3. /\ exec[w] \in Exec /\ job.phase \in Active /\ live
      /\ job.generation = exec[w].generation
  BY <1>2, TheOne
<1>4. n \in Nat /\ k \in Nat /\ pc \in {"planning", "listing", "summarizing", "student"}
  BY DEF Thread, NextNode
<1>5. PICK x \in Exec : /\ exec' = [exec EXCEPT ![w] = x] /\ x.state = c
                        /\ x.done = k /\ x.saved = k
                        /\ x.pc \in {"planning", "listing", "summarizing", "student"}
                        /\ x.generation = exec[w].generation
  <2> DEFINE x == [exec[w] EXCEPT !.pc = pc, !.state = c, !.done = k, !.saved = k]
  <2>1. exec' = [exec EXCEPT ![w] = x]
    BY <1>1 DEF LoadThread, SoleInv, IInv, TypeOK
  <2> HIDE DEF pc, k
  <2>2. /\ x \in Exec /\ x.state = c /\ x.done = k /\ x.saved = k
        /\ x.pc \in {"planning", "listing", "summarizing", "student"}
        /\ x.generation = exec[w].generation
    BY <1>3, <1>4 DEF Exec, PC
  <2> HIDE DEF x
  <2> QED BY <2>1, <2>2
<1>6. UNCHANGED <<checkpoint, steps, pack>>
  BY <1>2 DEF stores
<1>7. Synced(x)'
  BY <1>1, <1>5, <1>6 DEF Synced, Thread
<1>8. Listed(x)'
  BY <1>5 DEF Listed
<1>9. Told'
  BY <1>6, ToldKept
<1> QED BY <1>2, <1>3, <1>5, <1>7, <1>8, <1>9, OneSole

\* A super-step only adds to the thread, and is behind no whole checkpoint.
LEMMA SuperStepSole ==
  ASSUME SoleInv, NEW w \in Worker, NEW s \in Thread, NEW streak \in Nat,
         SuperStep(w, s, streak), exec[w].pc \in InGraph,
         UNCHANGED <<checkpoint, steps, pack>>,
         Len(exec[w].state.results) <= Len(s.results),
         \A n \in 1..Len(exec[w].state.results) : s.results[n] = exec[w].state.results[n]
  PROVE  Sole'
<1>1. PICK y \in Exec :
        /\ y = exec[w] /\ job.phase \in Active /\ live /\ job.generation = y.generation
        /\ ThreadOK(y.state) /\ Placed(y) /\ Synced(y)
        /\ y.done \in Nat /\ y.saved \in Nat
        /\ y.state.results \in Seq(Result) /\ y.state.summary \in BOOLEAN
  BY TheOne
<1> DEFINE d == y.done + 1
<1>2. NextNode(s) \in {"listing", "summarizing", "student"}
  BY DEF NextNode
<1>3. PICK x \in Exec : /\ exec' = [exec EXCEPT ![w] = x]
                        /\ x.pc = NextNode(s) /\ x.state = s /\ x.done = d
                        /\ x.saved = y.saved /\ x.generation = y.generation
  <2> DEFINE x == [y EXCEPT !.pc = NextNode(s), !.state = s, !.done = d, !.streak = streak]
  <2>1. exec' = [exec EXCEPT ![w] = x]
    BY <1>1 DEF SuperStep, SoleInv, IInv, TypeOK
  <2>2. d \in Nat
    BY <1>1
  <2> HIDE DEF d
  <2>3. /\ x \in Exec /\ x.pc = NextNode(s) /\ x.state = s /\ x.done = d
        /\ x.saved = y.saved /\ x.generation = y.generation
    BY <1>2, <2>2 DEF Exec, PC
  <2> HIDE DEF x
  <2> QED BY <2>1, <2>3
<1>4. ~y.state.summary
  BY <1>1, WorkerAssumption DEF Placed, ThreadOK
<1>5. Loaded(y)
  BY <1>1 DEF Placed, Loaded
<1>6. /\ Len(checkpoint.results) <= Len(y.state.results)
      /\ \A n \in 1..Len(checkpoint.results) : checkpoint.results[n] = y.state.results[n]
      /\ ~checkpoint.summary
  BY <1>1, <1>4, <1>5 DEF Synced
<1>7. x.saved # x.done
  BY <1>1, <1>3 DEF Placed
<1>8. Synced(x)'
  <2>1. /\ Len(checkpoint.results) \in Nat /\ Len(y.state.results) \in Nat
        /\ Len(s.results) \in Nat
    BY <1>1 DEF SoleInv, IInv, TypeOK, Thread
  <2>2. Len(checkpoint.results) <= Len(s.results)
    BY <1>1, <1>6, <2>1
  <2>3. \A n \in 1..Len(checkpoint.results) : checkpoint.results[n] = s.results[n]
    BY <1>1, <1>6, <2>1
  <2>4. x.state.results = s.results /\ checkpoint' = checkpoint
    BY <1>3
  <2> QED BY <1>6, <1>7, <2>2, <2>3, <2>4 DEF Synced
<1>9. Listed(x)'
  BY <1>2, <1>3 DEF Listed
<1>10. Told'
  BY ToldKept
<1>11. job' = job /\ live'
  BY <1>1 DEF SuperStep
<1>12. exec[w].pc # "idle"
  OBVIOUS
<1> QED BY <1>1, <1>3, <1>8, <1>9, <1>10, <1>11, <1>12, OneSole

\* The plan node, a student and the summary are such steps.
LEMMA GraphSole ==
  ASSUME SoleInv, NEW w \in Worker,
         Plan(w) \/ StudentGenerated(w) \/ StudentFailed(w) \/ Summarize(w)
  PROVE  Sole'
<1>1. PICK old \in Thread : old = exec[w].state
  BY DEF SoleInv, IInv, TypeOK, Exec
<1>2. exec[w].pc \in InGraph
  BY DEF Plan, StudentGenerated, StudentFailed, Summarize
<1>3. UNCHANGED <<checkpoint, steps, pack>>
  BY DEF Plan, StudentGenerated, StudentFailed, Summarize, stores
<1>4. old.results \in Seq(Result) /\ exec[w].streak \in Nat /\ exec[w].generation \in Nat
      /\ old.plan \in Nat
  BY DEF Thread, SoleInv, IInv, TypeOK, Exec
<1>5. ASSUME NEW status \in Status, NEW d \in Nat, NEW streak \in Nat,
             SuperStep(w, Recorded(old, status, d), streak)
      PROVE  Sole'
  <2>1. PICK s \in Thread :
        /\ s = Recorded(old, status, d)
        /\ Len(s.results) = Len(old.results) + 1
        /\ \A n \in 1..Len(old.results) : s.results[n] = old.results[n]
    BY RecordedFields
  <2>2. Len(old.results) <= Len(s.results)
    BY <1>4, <2>1
  <2>3. SuperStep(w, s, streak)
    BY <1>5, <2>1
  <2> QED BY <1>1, <1>2, <1>3, <2>1, <2>2, <2>3, SuperStepSole
<1>6. ASSUME NEW s \in Thread, NEW streak \in Nat, SuperStep(w, s, streak),
             s.results = old.results
      PROVE  Sole'
  BY <1>1, <1>2, <1>3, <1>4, <1>6, SuperStepSole
<1>7. CASE Plan(w)
  <2>1. PICK p \in Nat : SuperStep(w, [old EXCEPT !.plan = p], 0)
    BY <1>1, <1>4, <1>7 DEF Plan
  <2>2. [old EXCEPT !.plan = p] \in Thread /\ [old EXCEPT !.plan = p].results = old.results
    BY DEF Thread
  <2> QED BY <1>6, <2>1, <2>2
<1>8. CASE StudentGenerated(w)
  <2>1. SuperStep(w, Recorded(old, "generated", Len(drafts')), 0)
        /\ drafts' = Append(drafts, Len(exec[w].state.results) + 1)
    BY <1>1, <1>8 DEF StudentGenerated
  <2>2. drafts \in Seq(1..Students) /\ Len(exec[w].state.results) \in Nat
    BY <1>1, <1>4 DEF SoleInv, IInv, TypeOK
  <2>3. Len(drafts') \in Nat
    BY <2>1, <2>2
  <2> QED BY <1>5, <2>1, <2>3
<1>9. CASE StudentFailed(w)
  <2>1. PICK streak \in Nat : SuperStep(w, Recorded(old, "failed", 0), streak)
    BY <1>1, <1>4, <1>9 DEF StudentFailed
  <2> QED BY <1>5, <2>1
<1>10. CASE Summarize(w)
  <2>1. SuperStep(w, [old EXCEPT !.summary = TRUE], exec[w].streak)
    BY <1>1, <1>10 DEF Summarize
  <2>2. /\ [old EXCEPT !.summary = TRUE] \in Thread
        /\ [old EXCEPT !.summary = TRUE].results = old.results
    BY DEF Thread
  <2> QED BY <1>4, <1>6, <2>1, <2>2
<1> QED BY <1>7, <1>8, <1>9, <1>10

\* A checkpoint follows the thread; it becomes whole with its last super-step, and
\* before that nothing is recorded.
LEMMA SaveCheckpointSole ==
  ASSUME SoleInv, NEW w \in Worker, SaveCheckpoint(w) PROVE Sole'
<1>1. exec[w].pc # "idle"
  <2>1. exec[w].saved < exec[w].done /\ exec[w].saved \in Nat
    BY DEF SaveCheckpoint, SoleInv, IInv, TypeOK, Exec
  <2> QED BY <2>1 DEF SoleInv, IInv, ExecInv, Placed
<1>2. PICK y \in Exec :
        /\ y = exec[w] /\ job.phase \in Active /\ live /\ job.generation = y.generation
        /\ ThreadOK(y.state) /\ Placed(y) /\ Synced(y) /\ Listed(y)
        /\ y.done \in Nat /\ y.saved \in Nat
        /\ y.state.results \in Seq(Result) /\ y.state.summary \in BOOLEAN
  BY <1>1, TheOne
<1> DEFINE k == y.saved + 1
<1>3. PICK s \in Thread : s = y.state
  BY DEF Exec
<1>4. y.saved < y.done /\ y.done = Behind(s) /\ k \in 1..Behind(s)
  BY <1>2, <1>3 DEF SaveCheckpoint, Placed
<1>5. /\ checkpoint' = Snapshot(s, k) /\ UNCHANGED <<job, live, steps, pack>>
  BY <1>2, <1>3 DEF SaveCheckpoint
<1>6. PICK x \in Exec : /\ exec' = [exec EXCEPT ![w] = x] /\ x.saved = k
                        /\ x.pc = y.pc /\ x.state = s /\ x.done = y.done
                        /\ x.generation = y.generation
  <2> DEFINE x == [y EXCEPT !.saved = k]
  <2>1. exec' = [exec EXCEPT ![w] = x]
    BY <1>2 DEF SaveCheckpoint, SoleInv, IInv, TypeOK
  <2>2. k \in Nat
    BY <1>2
  <2> HIDE DEF k
  <2>3. /\ x \in Exec /\ x.saved = k /\ x.pc = y.pc /\ x.state = s /\ x.done = y.done
        /\ x.generation = y.generation
    BY <1>3, <2>2 DEF Exec
  <2> HIDE DEF x
  <2> QED BY <2>1, <2>3
<1>7. PICK j \in 1..Behind(s) : j = k
  BY <1>4
<1> HIDE DEF k
<1>8. /\ (checkpoint'.summary <=> k = Students + 2)
      /\ (checkpoint'.summary => s.summary)
      /\ Len(checkpoint'.results) <= Len(s.results)
      /\ \A n \in 1..Len(checkpoint'.results) : checkpoint'.results[n] = s.results[n]
  BY <1>2, <1>3, <1>5, <1>7, SnapshotFields DEF ThreadOK
<1>9. ~checkpoint.summary /\ (\A n \in 1..Students : steps[n] = <<>>) /\ pack = {}
  <2>1. ~checkpoint.summary
    BY <1>2, <1>4 DEF Synced, Loaded
  <2> QED BY <2>1 DEF SoleInv, Sole, Told
<1>10. Told'
  BY <1>5, <1>9 DEF Told
<1>11. Synced(x)'
  <2>1. Len(s.results) \in Nat /\ Len(s.results) <= Students
    BY <1>2, <1>3 DEF ThreadOK
  <2>2. s.summary => Behind(s) = Students + 2
    BY <1>2, <1>3, <2>1, WorkerAssumption DEF Behind, ThreadOK
  <2>3. ~s.summary => Behind(s) \in Nat /\ Behind(s) <= Students + 1
    BY <2>1, WorkerAssumption DEF Behind
  <2>4. k \in Nat /\ k <= y.done
    BY <1>2, <1>4, <1>7, <2>2, <2>3, WorkerAssumption
  <2>5. k = Students + 2 => s.summary /\ k = y.done
    <3>1. CASE s.summary
      BY <1>4, <2>2, <3>1
    <3>2. CASE ~s.summary
      BY <1>4, <2>3, <2>4, <3>2, WorkerAssumption
    <3> QED BY <3>1, <3>2
  <2>6. s.summary /\ k = y.done => k = Students + 2
    BY <1>4, <2>2
  <2>7. checkpoint'.summary => x.state.summary /\ x.saved = x.done
    BY <1>6, <1>8, <2>5
  <2>8. x.state.summary /\ x.saved = x.done => checkpoint'.summary
    BY <1>6, <1>8, <2>6
  <2> QED BY <1>6, <1>8, <2>7, <2>8 DEF Synced
<1>12. Listed(x)'
  BY <1>2, <1>4, <1>5, <1>6 DEF Listed
<1>13. job'.phase \in Active /\ live' /\ job'.generation = x.generation
  BY <1>2, <1>5, <1>6
<1> QED BY <1>1, <1>6, <1>10, <1>11, <1>12, <1>13, OneSole

\* The seqs that are not seen are not recorded.
LEMMA ListStepsSole == ASSUME SoleInv, NEW w \in Worker, ListSteps(w) PROVE Sole'
<1> DEFINE seen == {n \in 1..Students : steps[n] # <<>>}
<1>1. PICK y \in Exec :
        /\ y = exec[w] /\ job.phase \in Active /\ live /\ job.generation = y.generation
        /\ Placed(y) /\ Synced(y)
  BY TheOne DEF ListSteps
<1>2. PICK x \in Exec : /\ exec' = [exec EXCEPT ![w] = x]
                        /\ x.pc = "recording" /\ x.seq = 1 /\ x.seen = seen
                        /\ x.state = y.state /\ x.done = y.done
                        /\ x.saved = y.saved /\ x.generation = y.generation
  <2> DEFINE x == [y EXCEPT !.pc = "recording", !.seq = 1, !.seen = seen]
  <2>1. exec' = [exec EXCEPT ![w] = x]
    BY <1>1 DEF ListSteps, SoleInv, IInv, TypeOK
  <2>2. seen \in SUBSET (1..Students)
    OBVIOUS
  <2> HIDE DEF seen
  <2>3. /\ x \in Exec /\ x.pc = "recording" /\ x.seq = 1 /\ x.seen = seen
        /\ x.state = y.state /\ x.done = y.done /\ x.saved = y.saved
        /\ x.generation = y.generation
    BY <2>2 DEF Exec, PC
  <2> HIDE DEF x
  <2> QED BY <2>1, <2>3
<1>3. /\ UNCHANGED <<job, live>> /\ UNCHANGED stores
      /\ exec[w].pc = "listing" /\ y.saved = y.done
  BY <1>1 DEF ListSteps, Flushed
<1>4. UNCHANGED <<checkpoint, steps, pack>>
  BY <1>3 DEF stores
<1>5. Synced(x)'
  <2>1. Loaded(y)
    BY <1>1, <1>3 DEF Placed, Loaded, Late
  <2> QED BY <1>1, <1>2, <1>4, <2>1 DEF Synced
<1>6. Listed(x)'
  BY <1>2, <1>3, <1>4 DEF Listed
<1>7. Told'
  BY <1>4, ToldKept
<1> QED BY <1>1, <1>2, <1>3, <1>5, <1>6, <1>7, OneSole

\* A row that is recorded says what the checkpoint says, and is the only one.
LEMMA RecordStepSole == ASSUME SoleInv, NEW w \in Worker, RecordStep(w) PROVE Sole'
<1>1. PICK y \in Exec :
        /\ y = exec[w] /\ job.phase \in Active /\ live /\ job.generation = y.generation
        /\ ThreadOK(y.state) /\ Placed(y) /\ Synced(y) /\ Listed(y)
        /\ y.state.results \in Seq(Result)
  BY TheOne DEF RecordStep
<1> DEFINE n == y.seq
           row == y.state.results[n].status
           pc == IF n = Students THEN "packing" ELSE "recording"
<1>2. /\ y.pc = "recording"
      /\ steps' = IF n \in y.seen THEN steps ELSE [steps EXCEPT ![n] = Append(@, row)]
      /\ exec' = [exec EXCEPT ![w].seq = n + 1, ![w].pc = pc]
      /\ UNCHANGED <<job, live, checkpoint, pack>>
  BY <1>1 DEF RecordStep, SoleInv, IInv, TypeOK
<1>3. /\ n \in 1..Students /\ Loaded(y) /\ y.saved = y.done /\ y.state.summary
      /\ Len(y.state.results) = Students
  BY <1>1, <1>2 DEF Placed, Loaded, Listed, ThreadOK, Late
<1>4. /\ checkpoint.summary
      /\ \A i \in 1..Students : checkpoint.results[i] = y.state.results[i]
  <2>1. checkpoint.summary
    BY <1>1, <1>3 DEF Synced
  <2>2. Len(checkpoint.results) = Students
    BY <2>1 DEF SoleInv, IInv, StoresInv, ThreadOK
  <2> QED BY <1>1, <1>3, <2>1, <2>2 DEF Synced
<1>5. PICK x \in Exec : /\ exec' = [exec EXCEPT ![w] = x]
                        /\ x.pc = pc /\ x.seq = n + 1 /\ x.seen = y.seen
                        /\ x.state = y.state /\ x.done = y.done /\ x.saved = y.saved
                        /\ x.generation = y.generation
  <2> DEFINE x == [y EXCEPT !.seq = n + 1, !.pc = pc]
  <2>1. exec' = [exec EXCEPT ![w] = x]
    BY <1>1, <1>2 DEF SoleInv, IInv, TypeOK
  <2>2. pc \in PC /\ n + 1 \in Nat
    BY <1>3 DEF PC
  <2> HIDE DEF n, pc
  <2>3. /\ x \in Exec /\ x.pc = pc /\ x.seq = n + 1 /\ x.seen = y.seen
        /\ x.state = y.state /\ x.done = y.done /\ x.saved = y.saved
        /\ x.generation = y.generation
    BY <2>2 DEF Exec
  <2> HIDE DEF x
  <2> QED BY <2>1, <2>3
<1> HIDE DEF row, n
<1>6. steps \in [1..Students -> Seq(Status)]
  BY DEF SoleInv, IInv, TypeOK
<1>7. /\ \A i \in 1..Students : i # n => steps'[i] = steps[i]
      /\ n \notin y.seen => steps[n] = <<>> /\ steps'[n] = <<row>>
      /\ n \in y.seen => steps'[n] = steps[n]
  <2>1. n \notin y.seen => steps[n] = <<>>
    BY <1>1, <1>2, <1>3 DEF Listed, n
  <2>2. CASE n \in y.seen
    BY <1>2, <2>2
  <2>3. CASE n \notin y.seen
    <3>1. steps' = [steps EXCEPT ![n] = Append(@, row)]
      BY <1>2, <2>3
    <3>2. Append(<<>>, row) = <<row>>
      OBVIOUS
    <3> QED BY <1>3, <1>6, <2>1, <2>3, <3>1, <3>2
  <2> QED BY <2>2, <2>3
<1>8. Told'
  <2>1. row = checkpoint.results[n].status
    BY <1>3, <1>4 DEF row
  <2>2. checkpoint' = checkpoint /\ pack' = pack
    BY <1>2
  <2>3. ASSUME NEW i \in 1..Students, steps'[i] # <<>>
        PROVE  steps'[i] = <<checkpoint.results[i].status>>
    BY <1>3, <1>7, <2>1, <2>3 DEF SoleInv, Sole, Told
  <2>4. \A p \in pack : \A i \in 1..Students : p.results[i] = checkpoint.results[i]
    BY DEF SoleInv, Sole, Told
  <2> QED BY <1>4, <2>2, <2>3, <2>4 DEF Told
<1>9. Synced(x)'
  BY <1>1, <1>2, <1>3, <1>5 DEF Synced
<1>10. Listed(x)'
  <2>1. ASSUME NEW i \in 1..Students, i >= n + 1, i \notin y.seen PROVE steps'[i] = <<>>
    <3>1. i # n /\ i >= n
      BY <1>3, <2>1
    <3>2. steps[i] = <<>>
      BY <1>1, <1>2, <2>1, <3>1 DEF Listed, n
    <3> QED BY <1>7, <3>1, <3>2
  <2> QED BY <1>3, <1>5, <2>1 DEF Listed
<1>11. exec[w].pc # "idle" /\ job' = job /\ live'
  BY <1>1, <1>2
<1> QED BY <1>1, <1>5, <1>8, <1>9, <1>10, <1>11, OneSole

\* The pack is what the whole checkpoint says.
LEMMA StorePackSole == ASSUME SoleInv, NEW w \in Worker, StorePack(w) PROVE Sole'
<1>1. PICK y \in Exec :
        /\ y = exec[w] /\ job.phase \in Active
        /\ ThreadOK(y.state) /\ Placed(y) /\ Synced(y) /\ Listed(y)
  BY TheOne DEF StorePack
<1>2. /\ pack' = {PackOf(w)} /\ exec[w].pc = "packing"
      /\ UNCHANGED <<job, live, checkpoint, steps>>
  BY DEF StorePack
<1>3. PICK x \in Exec : /\ exec' = [exec EXCEPT ![w] = x] /\ x.pc = "succeeding"
                        /\ SameThread(x, exec[w]) /\ x.generation = exec[w].generation
  <2>1. Goto(w, "succeeding") /\ "succeeding" \in PC
    BY DEF StorePack, PC
  <2> QED BY <2>1, GotoExec DEF SoleInv, IInv
<1>4. Loaded(y) /\ y.saved = y.done /\ y.state.summary /\ Len(y.state.results) = Students
  BY <1>1, <1>2 DEF Placed, Loaded, Listed, ThreadOK, Late
<1>5. checkpoint.summary
  BY <1>1, <1>4 DEF Synced
<1>6. \A i \in 1..Students : checkpoint.results[i] = y.state.results[i]
  <2>1. Len(checkpoint.results) = Students
    BY <1>5 DEF SoleInv, IInv, StoresInv, ThreadOK
  <2> QED BY <1>1, <1>4, <2>1 DEF Synced
<1>7. PackOf(w).results = y.state.results
  BY <1>1 DEF PackOf
<1>8. Told'
  <2>1. \A n \in 1..Students :
            steps[n] # <<>> => steps[n] = <<checkpoint.results[n].status>>
    BY DEF SoleInv, Sole, Told
  <2> QED BY <1>2, <1>5, <1>6, <1>7, <2>1 DEF Told
<1> QED BY <1>1, <1>2, <1>3, <1>8, KeepSole

\* The last call leaves nobody running.
LEMMA LastCallSole ==
  ASSUME SoleInv, NEW w \in Worker,
         Succeed(w) \/ Fail(w) \/ FailRefused(w) \/ Pause(w) \/ PauseRefused(w) \/ Crash(w)
  PROVE  Sole'
<1>1. UNCHANGED stores /\ exec[w].pc # "idle"
  BY DEF Succeed, Fail, FailRefused, Pause, PauseRefused, Crash
<1>2. PICK c \in Cause : Leave(w, c)
  <2>1. Crash(w) => Leave(w, "none")
    BY DEF Crash, Leave, Idle
  <2> QED BY <2>1 DEF Succeed, Fail, FailRefused, Pause, PauseRefused
<1> QED BY <1>1, <1>2, LeaveSole

\* Every step keeps the invariant, when no lease outlives its execution.
LEMMA NextSole == ASSUME ~Outlives, SoleInv, [Next]_vars PROVE SoleInv'
<1>1. IInv'
  BY NextIInv DEF SoleInv
<1>2. ASSUME NEW w \in Worker, Step(w) PROVE Sole'
  BY <1>2, KeepsSole, LoadThreadSole, GraphSole, SaveCheckpointSole, ListStepsSole,
     RecordStepSole, StorePackSole, LastCallSole DEF Step, Graph
<1>3. ASSUME NEW w \in Worker, Drain(w) \/ StoreFails(w) \/ Crash(w) PROVE Sole'
  BY <1>3, LedgerSole, LeaseNextSole, KeepsSole, LastCallSole DEF Drain
<1>4. ASSUME UNCHANGED vars PROVE Sole'
  <2>1. UNCHANGED <<job, live, checkpoint, steps, pack, exec>>
    BY <1>4 DEF vars
  <2>2. Told'
    BY <2>1, ToldKept
  <2>3. ASSUME NEW v \in Worker, exec'[v].pc # "idle"
        PROVE  Owns(v)' /\ Synced(exec[v])' /\ Listed(exec[v])'
    <3>1. Owns(v) /\ Synced(exec[v]) /\ Listed(exec[v])
      BY <2>1, <2>3 DEF SoleInv, Sole
    <3>2. Owns(v)'
      BY <2>1, <3>1 DEF Owns
    <3>3. Synced(exec[v])'
      BY <2>1, <3>1 DEF Synced, Loaded
    <3>4. Listed(exec[v])'
      BY <2>1, <3>1 DEF Listed
    <3> QED BY <3>2, <3>3, <3>4
  <2>4. \A v, w \in Worker : exec'[v].pc # "idle" /\ exec'[w].pc # "idle" => v = w
    BY <2>1 DEF SoleInv, Sole
  <2> QED BY <2>2, <2>3, <2>4 DEF Sole
<1>5. ASSUME Expire \/ Resume PROVE Sole'
  BY <1>5, LedgerSole
<1>6. Sole'
  <2>1. CASE Next
    BY <1>2, <1>3, <1>5, <2>1 DEF Next
  <2> QED BY <1>4, <2>1
<1> QED BY <1>1, <1>6 DEF SoleInv

\* One execution at most runs the job, wherever executions crash.
THEOREM SoleInvariance == ASSUME ~Outlives PROVE Spec => []SoleInv
<1>1. SoleInv /\ [Next]_vars => SoleInv'
  BY NextSole
<1> QED BY <1>1, InitSole, PTL DEF Spec
-----------------------------------------------------------------------------
(* What follows from it.                                                   *)

\* Each student has at most one step row, and it tells the outcome the pack
\* publishes, however often the job is recovered or resumed.
THEOREM StepsAreTold == ASSUME ~Outlives PROVE Spec => []StepsTellPack
<1>1. ASSUME SoleInv PROVE StepsTellPack
  <2> SUFFICES ASSUME NEW n \in 1..Students
               PROVE  /\ Len(steps[n]) <= 1
                      /\ \A p \in pack : steps[n] = <<p.results[n].status>>
    BY DEF StepsTellPack
  <2>1. steps[n] # <<>> => steps[n] = <<checkpoint.results[n].status>>
    BY <1>1 DEF SoleInv, Sole, Told
  <2>2. Len(steps[n]) <= 1
    <3>1. CASE steps[n] = <<>>
      BY <3>1
    <3>2. CASE steps[n] # <<>>
      <4>1. PICK o : o = checkpoint.results[n].status
        OBVIOUS
      <4>2. steps[n] = <<o>> /\ Len(<<o>>) = 1
        BY <2>1, <3>2, <4>1
      <4> QED BY <4>2
    <3> QED BY <3>1, <3>2
  <2>3. ASSUME NEW p \in pack PROVE steps[n] = <<p.results[n].status>>
    <3>1. steps[n] # <<>>
      BY <1>1 DEF SoleInv, IInv, StoresInv
    <3>2. p.results[n] = checkpoint.results[n]
      BY <1>1 DEF SoleInv, Sole, Told
    <3> QED BY <2>1, <3>1, <3>2
  <2> QED BY <2>2, <2>3
<1> QED BY <1>1, SoleInvariance, PTL

\* A draft is only ever generated for a student the checkpoint does not cover: no
\* crash, recovery or resume makes the LLM do again what was checkpointed.
THEOREM WorkIsKept == ASSUME ~Outlives PROVE Spec => KeptWork
<1> DEFINE Kept == drafts' # drafts => drafts'[Len(drafts')] > Len(checkpoint.results)
<1>1. ASSUME SoleInv, [Next]_vars PROVE Kept
  <2>1. CASE UNCHANGED drafts
    BY <2>1
  <2>2. ASSUME NEW w \in Worker, StudentGenerated(w) PROVE Kept
    <3>1. PICK y \in Exec : /\ y = exec[w] /\ Placed(y) /\ Synced(y)
                            /\ y.state.results \in Seq(Result)
      BY <1>1, <2>2, TheOne DEF StudentGenerated
    <3> DEFINE n == Len(y.state.results) + 1
    <3>2. drafts' = Append(drafts, n) /\ y.pc = "student"
      BY <2>2, <3>1 DEF StudentGenerated
    <3>3. n \in 1..Students /\ drafts \in Seq(1..Students)
      BY <1>1, <3>1, <3>2, WorkerAssumption DEF Placed, SoleInv, IInv, TypeOK
    <3>4. Len(checkpoint.results) <= Len(y.state.results)
      BY <3>1, <3>2 DEF Placed, Loaded, Synced
    <3>5. Len(checkpoint.results) \in Nat /\ Len(y.state.results) \in Nat
      BY <1>1, <3>1 DEF SoleInv, IInv, TypeOK, Thread
    <3>6. n > Len(checkpoint.results)
      BY <3>4, <3>5
    <3> HIDE DEF n
    <3>7. drafts'[Len(drafts')] = n
      BY <3>2, <3>3
    <3> QED BY <3>6, <3>7
  <2>3. ASSUME NEW w \in Worker, Step(w), ~StudentGenerated(w) PROVE UNCHANGED drafts
    BY <2>3 DEF Step, Graph, Start, BundleMissing, StartRefused, BeginRun, LoadThread,
       Plan, StudentFailed, CircuitOpens, Summarize, SaveCheckpoint, ListSteps,
       RecordStep, StorePack, PackConflict, Succeed, SucceedRefused, Fail, FailRefused,
       Pause, PauseRefused, Raise, stores
  <2>4. ASSUME NEW w \in Worker, Drain(w) \/ StoreFails(w) \/ Crash(w)
        PROVE  UNCHANGED drafts
    BY <2>4 DEF Drain, RecoverExpired, LeaseNext, StoreFails, Crash, Raise, stores
  <2>5. Expire \/ Resume => UNCHANGED drafts
    BY DEF Expire, Resume, stores
  <2> HIDE DEF Kept
  <2> QED BY <1>1, <2>1, <2>2, <2>3, <2>4, <2>5 DEF Next, vars
<1>2. SoleInv /\ [Next]_vars => [Kept]_vars
  BY <1>1
<1>3. [][Kept]_vars => KeptWork
  BY PTL DEF KeptWork
<1> QED BY <1>2, <1>3, SoleInvariance, PTL DEF Spec
-----------------------------------------------------------------------------
(* The row of this model is a job of the supervisor ledger: it moves as    *)
(* JobContract, which JobStore implements, lets a job move.  Start,        *)
(* succeed and pause test the lease only; that the row is in the phase     *)
(* assert_job_transition asks for follows from where the execution that    *)
(* holds the live lease stands.                                            *)

\* What the contract sees of the row.  A lease is one dispatch, and the first start
\* leaves its stamp and a checkpoint reference.
EntryOf(b) ==
    [phase |-> b.phase, dispatch |-> b.generation, generation |-> b.generation,
     recovery |-> b.recovery, started |-> IF b.started THEN 1 ELSE 0,
     checkpoint |-> b.started,
     error |-> IF b.error \in {"none", "worker_recovery_exhausted"} THEN b.error
               ELSE "worker_error"]
Ledger == [j \in {1} |-> EntryOf(job)]
Contract == INSTANCE JobContract WITH Job <- {1}, entry <- Ledger

Holding == {"pausing"} \cup (Executing \ {"leased"})

\* Each execution has a lease of its own, and the one that has the latest has started
\* the job, or not, as the row says.
Fenced ==
    \A w \in Worker : exec[w].pc # "idle" =>
        /\ exec[w].generation \in 1..job.generation
        /\ \A v \in Worker :
                exec[v].pc # "idle" /\ exec[v].generation = exec[w].generation => v = w
        /\ exec[w].generation = job.generation /\ job.phase \in Active =>
                /\ exec[w].pc = "leased" => job.phase = "leased"
                /\ exec[w].pc \in Holding => job.phase = "running"

\* A step of w alone that leaves the row as it is: w ends, fails, or goes on.
Moves(w) ==
    /\ UNCHANGED job
    /\ \A v \in Worker \ {w} : exec'[v] = exec[v]
    /\ \/ exec'[w].pc = "idle"
       \/ /\ exec[w].pc # "idle" /\ exec'[w].generation = exec[w].generation
          /\ \/ exec'[w].pc \in {exec[w].pc, "failing"}
             \/ exec[w].pc \in Executing \ {"leased"} /\ exec'[w].pc # "leased"

\* The fields of the row.
LEMMA JobFields ==
  ASSUME TypeOK
  PROVE  /\ job.phase \in {"queued", "paused", "leased", "running", "succeeded", "failed"}
         /\ job.generation \in Nat /\ job.recovery \in Nat /\ job.started \in BOOLEAN
  BY WorkerAssumption DEF TypeOK

\* Such a step keeps every lease with its execution.
LEMMA MovesFenced ==
  ASSUME Fenced, NEW w \in Worker, Moves(w) PROVE Fenced'
<1>1. ASSUME NEW v \in Worker, exec'[v].pc # "idle"
      PROVE  /\ exec[v].pc # "idle" /\ exec'[v].generation = exec[v].generation
             /\ exec'[v].pc = "leased" => exec[v].pc = "leased"
             /\ exec'[v].pc \in Holding => exec[v].pc \in Holding
  <2>1. CASE v = w
    BY <1>1, <2>1 DEF Moves, Holding
  <2>2. CASE v # w
    BY <1>1, <2>2 DEF Moves
  <2> QED BY <2>1, <2>2
<1>2. UNCHANGED job
  BY DEF Moves
<1> QED BY <1>1, <1>2 DEF Fenced

\* The graph, the stores, a failure and a crash do not touch the ledger.
LEMMA GraphMoves ==
  ASSUME IInv, NEW w \in Worker, Graph(w) PROVE Moves(w)
<1>1. exec \in [Worker -> Exec] /\ exec[w] \in Exec
  BY DEF IInv, TypeOK
<1>2. CASE LoadThread(w)
  <2>1. NextNode(checkpoint) # "leased"
    BY DEF NextNode
  <2> QED BY <1>1, <1>2, <2>1 DEF LoadThread, Moves, Exec
<1>3. ASSUME NEW s, NEW k, SuperStep(w, s, k), exec[w].pc \in InGraph PROVE Moves(w)
  <2>1. NextNode(s) # "leased"
    BY DEF NextNode
  <2> QED BY <1>1, <1>3, <2>1 DEF SuperStep, Moves, Exec
<1>4. CASE Plan(w) \/ StudentGenerated(w) \/ StudentFailed(w) \/ Summarize(w)
  BY <1>3, <1>4 DEF Plan, StudentGenerated, StudentFailed, Summarize
<1>5. CASE CircuitOpens(w)
  BY <1>1, <1>5 DEF CircuitOpens, Goto, Moves, Exec
<1>6. CASE SaveCheckpoint(w)
  <2>1. exec[w].pc # "idle"
    <3>1. Placed(exec[w]) /\ exec[w].saved < exec[w].done /\ exec[w].saved \in Nat
      BY <1>1, <1>6 DEF SaveCheckpoint, IInv, ExecInv, Exec
    <3> QED BY <3>1 DEF Placed
  <2> QED BY <1>1, <1>6, <2>1 DEF SaveCheckpoint, Moves, Exec
<1> QED BY <1>2, <1>4, <1>5, <1>6 DEF Graph

\* An exception, whatever the call.
LEMMA RaiseMoves ==
  ASSUME TypeOK, NEW w \in Worker, NEW c, Raise(w, c), exec[w].pc # "idle" PROVE Moves(w)
<1>1. exec \in [Worker -> Exec] /\ exec[w] \in Exec
  BY DEF TypeOK
<1> QED BY <1>1 DEF Raise, Moves, Exec

\* An execution leaves.
LEMMA LeaveMoves ==
  ASSUME TypeOK, NEW w \in Worker, NEW c, Leave(w, c)
  PROVE  /\ exec'[w].pc = "idle" /\ \A v \in Worker \ {w} : exec'[v] = exec[v]
         /\ UNCHANGED job => Moves(w)
<1>1. exec \in [Worker -> Exec]
  BY DEF TypeOK
<1>2. exec'[w].pc = "idle" /\ \A v \in Worker \ {w} : exec'[v] = exec[v]
  BY <1>1 DEF Leave, Idle
<1> QED BY <1>2 DEF Moves

\* The steps of an execution that are no call of the ledger, or a refused one.
LEMMA StepMoves ==
  ASSUME IInv, NEW w \in Worker, Step(w) \/ StoreFails(w) \/ Crash(w),
         ~Start(w), ~Succeed(w), ~Fail(w), ~Pause(w)
  PROVE  Moves(w)
<1>1. TypeOK /\ exec \in [Worker -> Exec] /\ exec[w] \in Exec
  BY DEF IInv, TypeOK
<1>2. CASE Graph(w)
  BY <1>2, GraphMoves
<1>3. CASE BundleMissing(w) \/ StartRefused(w) \/ PackConflict(w) \/ SucceedRefused(w)
           \/ StoreFails(w)
  BY <1>1, <1>3, RaiseMoves
     DEF BundleMissing, StartRefused, PackConflict, SucceedRefused, StoreFails
<1>4. CASE BeginRun(w) \/ StorePack(w)
  BY <1>1, <1>4 DEF BeginRun, StorePack, Goto, Moves, Exec
<1>5. CASE ListSteps(w)
  BY <1>1, <1>5 DEF ListSteps, Moves, Exec
<1>6. CASE RecordStep(w)
  BY <1>1, <1>6 DEF RecordStep, Moves, Exec
<1>7. CASE FailRefused(w) \/ PauseRefused(w)
  BY <1>1, <1>7, LeaveMoves DEF FailRefused, PauseRefused
<1>8. CASE Crash(w)
  BY <1>1, <1>8 DEF Crash, Idle, Moves
<1> QED BY <1>2, <1>3, <1>4, <1>5, <1>6, <1>7, <1>8 DEF Step
-----------------------------------------------------------------------------
(* The writes of the ledger.                                               *)

\* The phases that assert_job_transition allows after each phase.
LEMMA Transitions ==
  /\ "leased" \in Contract!NormalTransitions["queued"]
  /\ {"running", "failed"} \subseteq Contract!NormalTransitions["leased"]
  /\ {"paused", "succeeded", "failed"} \subseteq Contract!NormalTransitions["running"]
  BY DEF Contract!NormalTransitions, Contract!Phase, Contract!Waiting, Contract!Active,
         Contract!Terminal

\* What the contract sees, field by field.
LEMMA EntryFields ==
  ASSUME NEW b
  PROVE  /\ EntryOf(b).phase = b.phase
         /\ EntryOf(b).started = (IF b.started THEN 1 ELSE 0)
         /\ EntryOf(b).dispatch = b.generation /\ EntryOf(b).generation = b.generation
         /\ EntryOf(b).recovery = b.recovery /\ EntryOf(b).checkpoint = b.started
         /\ b.error = "worker_recovery_exhausted" =>
                EntryOf(b).error = Contract!Exhausted
  BY DEF EntryOf, Contract!Exhausted

\* A step of the row that the contract allows.
Lawful == Contract!JobStep(EntryOf(job), EntryOf(job'))

\* A move of the table: a lease is counted, and the first start stays.
LEMMA NormalLawful ==
  ASSUME TypeOK, NEW p, p \in Contract!NormalTransitions[job.phase], job'.phase = p,
         job'.generation = job.generation + (IF p = "leased" THEN 1 ELSE 0),
         job'.recovery = job.recovery, job.started => job'.started
  PROVE  Lawful
<1> DEFINE a == EntryOf(job)
           b == EntryOf(job')
<1>1. /\ a.phase = job.phase /\ b.phase = p
      /\ a.started # 0 => b.started = a.started
      /\ b.generation = a.generation + (IF p = "leased" THEN 1 ELSE 0)
      /\ b.dispatch = a.dispatch + (IF p = "leased" THEN 1 ELSE 0)
      /\ b.recovery = a.recovery
  <2>1. a.started # 0 => b.started = a.started
    BY EntryFields
  <2> QED BY <2>1, EntryFields
<1> HIDE DEF a, b
<1>2. /\ Contract!GenerationDelta(a, b, IF p = "leased" THEN 1 ELSE 0)
      /\ Contract!StartedPreserved(a, b)
  BY <1>1 DEF Contract!GenerationDelta, Contract!StartedPreserved
<1>3. Contract!NormalStep(a, b)
  BY <1>1, <1>2 DEF Contract!NormalStep
<1> QED BY <1>3 DEF Lawful, Contract!JobStep, a, b

\* A write that takes the row out of its lease.
LEMMA WaitingFenced ==
  ASSUME Fenced, job'.phase \notin Active, job'.generation = job.generation,
         \A v \in Worker : exec'[v] = exec[v] \/ exec'[v].pc = "idle"
  PROVE  Fenced'
<1>1. ASSUME NEW v \in Worker, exec'[v].pc # "idle"
      PROVE  exec[v].pc # "idle" /\ exec'[v].generation = exec[v].generation
  BY <1>1
<1> QED BY <1>1 DEF Fenced

\* recover_expired, which the attempts left decide.
LEMMA RecoverLawful ==
  ASSUME IInv, Fenced, NEW w \in Worker, RecoverExpired(w) PROVE Fenced' /\ Lawful
<1>1. /\ TypeOK /\ job.phase \in Active /\ job.recovery < MaxRecovery /\ UNCHANGED exec
  BY DEF RecoverExpired, IInv, LedgerInv
<1>2. /\ job'.phase = IF job.recovery + 1 >= MaxRecovery THEN "failed" ELSE "queued"
      /\ job'.generation = job.generation /\ job'.recovery = job.recovery + 1
      /\ job'.started = job.started
      /\ job'.phase = "failed" => job'.error = "worker_recovery_exhausted"
  BY <1>1 DEF RecoverExpired, TypeOK
<1>3. Fenced'
  BY <1>1, <1>2, WaitingFenced
<1> DEFINE a == EntryOf(job)
           b == EntryOf(job')
<1>4. job.generation \in Nat /\ job.recovery \in Nat /\ MaxRecovery \in Nat
  BY <1>1, JobFields, WorkerAssumption
<1>5. /\ a.phase \in Contract!Active /\ b.started = a.started
      /\ b.phase = IF b.recovery >= MaxRecovery THEN "failed" ELSE "queued"
      /\ b.generation = a.generation /\ b.dispatch = a.dispatch
      /\ a.generation \in Nat /\ a.dispatch \in Nat
      /\ b.recovery = a.recovery + 1
      /\ b.phase = "failed" => b.error = Contract!Exhausted
  BY <1>1, <1>2, <1>4, EntryFields DEF Contract!Active
<1>6. b.checkpoint = a.checkpoint
  BY <1>2, EntryFields
<1> HIDE DEF a, b
<1>7. Contract!GenerationDelta(a, b, 0) /\ Contract!StartedPreserved(a, b)
  BY <1>5 DEF Contract!GenerationDelta, Contract!StartedPreserved
<1>8. Contract!RecoveryStep(a, b)
  BY <1>5, <1>6, <1>7 DEF Contract!RecoveryStep
<1>9. Lawful
  BY <1>8 DEF Lawful, Contract!JobStep, a, b
<1> QED BY <1>3, <1>9

\* resume
LEMMA ResumeLawful ==
  ASSUME TypeOK, Fenced, Resume PROVE Fenced' /\ Lawful
<1>1. job.phase = "paused" /\ UNCHANGED exec
  BY DEF Resume
<1>2. /\ job'.phase = "queued" /\ job'.generation = job.generation
      /\ job'.recovery = job.recovery /\ job'.started = job.started
  BY DEF Resume, TypeOK
<1>3. Fenced'
  BY <1>1, <1>2, WaitingFenced
<1> DEFINE a == EntryOf(job)
           b == EntryOf(job')
<1>4. /\ a.phase = "paused" /\ b.phase = "queued" /\ b.started = a.started
      /\ b.generation = a.generation /\ b.dispatch = a.dispatch
      /\ b.recovery = a.recovery /\ a.generation \in Nat /\ a.dispatch \in Nat
  BY <1>1, <1>2, JobFields, EntryFields
<1>5. b.checkpoint = a.checkpoint
  BY <1>2, EntryFields
<1> HIDE DEF a, b
<1>6. Contract!GenerationDelta(a, b, 0) /\ Contract!StartedPreserved(a, b)
  BY <1>4 DEF Contract!GenerationDelta, Contract!StartedPreserved
<1>7. Contract!ResumeStep(a, b)
  BY <1>4, <1>5, <1>6 DEF Contract!ResumeStep
<1>8. Lawful
  BY <1>7 DEF Lawful, Contract!JobStep, a, b
<1> QED BY <1>3, <1>8

\* lease_next: the new generation is nobody else's.
LEMMA LeaseNextLawful ==
  ASSUME TypeOK, Fenced, NEW w \in Worker, LeaseNext(w) PROVE Fenced' /\ Lawful
<1>1. job.phase = "queued" /\ job.generation \in Nat /\ exec \in [Worker -> Exec]
  BY DEF LeaseNext, TypeOK
<1>2. /\ job'.phase = "leased" /\ job'.generation = job.generation + 1
      /\ job'.recovery = job.recovery /\ job'.started = job.started
  BY DEF LeaseNext, TypeOK
<1>3. /\ exec'[w].pc = "leased" /\ exec'[w].generation = job.generation + 1
      /\ \A v \in Worker \ {w} : exec'[v] = exec[v]
  BY <1>1 DEF LeaseNext, Idle
<1>4. ASSUME NEW v \in Worker, v # w, exec'[v].pc # "idle"
      PROVE  exec'[v].generation \in 1..job.generation /\ exec'[v] = exec[v]
  BY <1>3, <1>4 DEF Fenced
<1>5. ASSUME NEW v \in Worker, exec'[v].pc # "idle"
      PROVE  /\ exec'[v].generation \in 1..job.generation + 1
             /\ exec'[v].generation = job.generation + 1 <=> v = w
  <2>1. CASE v = w
    BY <1>1, <1>3, <2>1
  <2>2. CASE v # w
    BY <1>1, <1>4, <1>5, <2>2
  <2> QED BY <2>1, <2>2
<1>6. Fenced'
  <2> SUFFICES ASSUME NEW v \in Worker, exec'[v].pc # "idle"
               PROVE  /\ exec'[v].generation \in 1..job'.generation
                      /\ \A u \in Worker :
                            exec'[u].pc # "idle" /\ exec'[u].generation = exec'[v].generation
                            => u = v
                      /\ exec'[v].generation = job'.generation /\ job'.phase \in Active =>
                            /\ exec'[v].pc = "leased" => job'.phase = "leased"
                            /\ exec'[v].pc \in Holding => job'.phase = "running"
    BY DEF Fenced
  <2>1. CASE v = w
    BY <1>2, <1>3, <1>5, <2>1 DEF Holding
  <2>2. CASE v # w
    <3>1. exec'[v].generation \in 1..job'.generation /\ exec'[v].generation # job'.generation
      BY <1>2, <1>5, <2>2
    <3>2. ASSUME NEW u \in Worker, exec'[u].pc # "idle",
                 exec'[u].generation = exec'[v].generation
          PROVE  u = v
      <4>1. u # w
        BY <1>5, <2>2, <3>2
      <4> QED BY <1>4, <2>2, <3>2, <4>1 DEF Fenced
    <3> QED BY <3>1, <3>2
  <2> QED BY <2>1, <2>2
<1>7. Lawful
  BY <1>1, <1>2, NormalLawful, Transitions
<1> QED BY <1>6, <1>7

\* start, under a lease whose execution has not started.
LEMMA StartLawful ==
  ASSUME TypeOK, Fenced, NEW w \in Worker, Start(w) PROVE Fenced' /\ Lawful
<1>1. /\ exec \in [Worker -> Exec] /\ exec[w] \in Exec /\ exec[w].pc = "leased"
      /\ job.phase \in Active /\ job.generation = exec[w].generation
  BY DEF TypeOK, Start, Owns
<1>2. job.phase = "leased"
  BY <1>1 DEF Fenced
<1>3. /\ job'.phase = "running" /\ job'.generation = job.generation
      /\ job'.recovery = job.recovery /\ job'.started = TRUE
  BY DEF Start, TypeOK
<1>4. /\ exec'[w].pc = "started" /\ exec'[w].generation = exec[w].generation
      /\ \A v \in Worker \ {w} : exec'[v] = exec[v]
  BY <1>1 DEF Start, Goto, Exec
<1>5. Fenced'
  <2>1. ASSUME NEW v \in Worker, exec'[v].pc # "idle"
        PROVE  /\ exec[v].pc # "idle" /\ exec'[v].generation = exec[v].generation
               /\ exec'[v].generation = job.generation => v = w
    <3>1. CASE v = w
      BY <1>1, <1>4, <3>1
    <3>2. CASE v # w
      BY <1>1, <1>4, <2>1, <3>2 DEF Fenced
    <3> QED BY <3>1, <3>2
  <2> QED BY <1>3, <1>4, <2>1 DEF Fenced
<1>6. job.generation \in Nat
  BY JobFields
<1>7. Lawful
  BY <1>2, <1>3, <1>6, NormalLawful, Transitions
<1> QED BY <1>5, <1>7

\* succeed, fail and pause: the lease is given back.
LEMMA ReportLawful ==
  ASSUME TypeOK, Fenced, NEW w \in Worker, Succeed(w) \/ Fail(w) \/ Pause(w)
  PROVE  Fenced' /\ Lawful
<1>1. /\ exec[w].pc # "idle" /\ exec[w].generation = job.generation
      /\ job.phase \in Active
  BY DEF Succeed, Fail, Pause, Owns
<1>2. PICK p \in {"succeeded", "failed", "paused"} :
        /\ job'.phase = p /\ p \in Contract!NormalTransitions[job.phase]
        /\ job'.generation = job.generation /\ job'.recovery = job.recovery
        /\ job'.started = job.started
  <2>1. CASE Succeed(w)
    <3>1. job.phase = "running"
      BY <1>1, <2>1 DEF Succeed, Fenced, Holding
    <3>2. job' = [job EXCEPT !.phase = "succeeded"]
      BY <2>1 DEF Succeed
    <3> QED BY <3>1, <3>2, Transitions DEF TypeOK
  <2>2. CASE Pause(w)
    <3>1. job.phase = "running"
      BY <1>1, <2>2 DEF Pause, Fenced, Holding
    <3>2. job' = [job EXCEPT !.phase = "paused"]
      BY <2>2 DEF Pause
    <3> QED BY <3>1, <3>2, Transitions DEF TypeOK
  <2>3. CASE Fail(w)
    <3>1. "failed" \in Contract!NormalTransitions[job.phase]
      BY <1>1, Transitions
    <3> QED BY <2>3, <3>1 DEF Fail, TypeOK
  <2> QED BY <2>1, <2>2, <2>3
<1>3. \E c : Leave(w, c)
  BY DEF Succeed, Fail, Pause
<1>4. \A v \in Worker : exec'[v] = exec[v] \/ exec'[v].pc = "idle"
  BY <1>3, LeaveMoves
<1>5. Fenced'
  BY <1>2, <1>4, WaitingFenced
<1>6. job.generation \in Nat
  BY JobFields
<1>7. Lawful
  BY <1>2, <1>6, NormalLawful
<1> QED BY <1>5, <1>7
-----------------------------------------------------------------------------
(* The refinement.                                                         *)

\* Every step of the model is lawful, or the contract does not see it.
LEMMA NextLawful ==
  ASSUME IInv, Fenced, [Next]_vars PROVE Fenced' /\ (Lawful \/ UNCHANGED job)
<1>1. TypeOK
  BY DEF IInv
<1>2. CASE Expire \/ UNCHANGED vars
  <2>1. UNCHANGED <<job, exec>>
    BY <1>2 DEF Expire, vars
  <2> QED BY <2>1 DEF Fenced
<1>3. CASE Resume
  BY <1>1, <1>3, ResumeLawful
<1>4. ASSUME NEW w \in Worker, Drain(w) PROVE Fenced' /\ Lawful
  BY <1>1, <1>4, RecoverLawful, LeaseNextLawful DEF Drain
<1>5. ASSUME NEW w \in Worker, Step(w) \/ StoreFails(w) \/ Crash(w)
      PROVE  Fenced' /\ (Lawful \/ UNCHANGED job)
  <2>1. CASE Start(w)
    BY <1>1, <2>1, StartLawful
  <2>2. CASE Succeed(w) \/ Fail(w) \/ Pause(w)
    BY <1>1, <2>2, ReportLawful
  <2>3. CASE ~(Start(w) \/ Succeed(w) \/ Fail(w) \/ Pause(w))
    <3>1. Moves(w)
      BY <1>5, <2>3, StepMoves
    <3> QED BY <3>1, MovesFenced DEF Moves
  <2> QED BY <2>1, <2>2, <2>3
<1> QED BY <1>2, <1>3, <1>4, <1>5 DEF Next

\* A lawful step of the row is a step of the contract on its ledger of one job.
LEMMA LawfulNext == ASSUME Lawful PROVE Contract!Next
<1>1. Ledger[1] = EntryOf(job) /\ Ledger'[1] = EntryOf(job')
  BY DEF Ledger
<1>2. Ledger' = [Ledger EXCEPT ![1] = Ledger'[1]]
  BY DEF Ledger
<1> QED BY <1>1, <1>2 DEF Lawful, Contract!Next

\* The job starts as the contract lets a job be added.
LEMMA InitLawful ==
  ASSUME Init PROVE Fenced /\ Ledger = [j \in {1} |-> Contract!QueuedEntry]
<1>1. job = [phase |-> "queued", generation |-> 0, recovery |-> 0,
             started |-> FALSE, error |-> "none"]
  BY DEF Init
<1>2. Fenced
  BY DEF Init, Fenced, Idle
<1>3. /\ EntryOf(job).phase = "queued" /\ EntryOf(job).generation = 0
      /\ EntryOf(job).dispatch = 0 /\ EntryOf(job).recovery = 0
      /\ EntryOf(job).started = 0 /\ EntryOf(job).error = "none"
  BY <1>1 DEF EntryOf
<1>4. EntryOf(job).checkpoint = FALSE
  BY <1>1 DEF EntryOf
<1> DEFINE q == Contract!QueuedEntry
<1>5. q \in Contract!Entry
  <2>1. Contract!AbsentEntry \in Contract!Entry
    BY WorkerAssumption
       DEF Contract!AbsentEntry, Contract!Entry, Contract!NoError, Contract!Phase,
           Contract!ErrorCode
  <2>2. "queued" \in Contract!Phase
    BY DEF Contract!Phase, Contract!Waiting
  <2> QED BY <2>1, <2>2 DEF Contract!QueuedEntry, Contract!Entry
<1>6. /\ q.phase = "queued" /\ q.dispatch = 0 /\ q.generation = 0 /\ q.recovery = 0
      /\ q.started = 0 /\ q.error = "none"
  BY DEF Contract!QueuedEntry, Contract!AbsentEntry, Contract!NoError
<1>7. q.checkpoint = FALSE
  BY DEF Contract!QueuedEntry, Contract!AbsentEntry
<1> HIDE DEF q
<1>8. EntryOf(job) = q
  BY <1>3, <1>4, <1>5, <1>6, <1>7 DEF EntryOf, Contract!Entry
<1> QED BY <1>2, <1>8 DEF Ledger, q

\* The job starts as the contract lets a job be added, and every later step of the
\* model is a step of the contract or one it does not see.
ContractKept == Ledger = [j \in {1} |-> Contract!QueuedEntry] /\ [][Contract!Next]_Ledger

\* The executions of a counsel_pack job, the sweep and an operator never trip
\* assert_job_transition, assert_expired_recovery or assert_paused_resume, also when an
\* execution reports after its lease.
THEOREM ContractObeyed == Spec => ContractKept
<1>1. Init => Fenced /\ Ledger = [j \in {1} |-> Contract!QueuedEntry]
  BY InitLawful
<1>2. IInv /\ Fenced /\ [Next]_vars => Fenced' /\ [Contract!Next]_Ledger
  <2> SUFFICES ASSUME IInv, Fenced, [Next]_vars
               PROVE  Fenced' /\ [Contract!Next]_Ledger
    OBVIOUS
  <2>1. Fenced' /\ (Lawful \/ UNCHANGED job)
    BY NextLawful
  <2>2. UNCHANGED job => UNCHANGED Ledger
    BY DEF Ledger
  <2> QED BY <2>1, <2>2, LawfulNext
<1> QED BY <1>1, <1>2, Invariance, PTL DEF Spec, ContractKept
=============================================================================
