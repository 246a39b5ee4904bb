-------------------------- MODULE ProblemJobProofs --------------------------
(***************************************************************************)
(* What ProblemJob guarantees for every size of a set, every limit, every  *)
(* number of recoveries and wherever an execution dies, also when a lease  *)
(* expires under a live execution.  The argument is that the stores only   *)
(* grow and that nothing is stored behind a point where a set is over, so  *)
(* whatever execution brings a set to its end brings it to the same end.   *)
(***************************************************************************)
EXTENDS ProblemJob, TLAPS

USE DEF Active, Terminal, NoAttempt, InGraph, Executing, Cause
-----------------------------------------------------------------------------
(* The inductive invariant.                                                *)

\* The results of the first k slots, as stored.
Prefix(k) == [i \in 1..k |-> items[i - 1]]

\* The set is over with n slots: all are stored, and it is full or stopped there.
Final(n) ==
    /\ n \in 1..Count
    /\ \A i \in 1..n : items[i - 1] # NoItem
    /\ n = Count \/ StopReasonOf(Prefix(n)) # "none"

\* The ledger: a row that is not final may be recovered, a lease starts anew.
LedgerInv ==
    /\ job.phase \notin Terminal => job.recovery < MaxRecovery
    /\ \A e \in Execution : e > job.generation => exec[e] = Idle
    /\ job.phase = "succeeded" => result # NoResult

\* The item store: no slot is stored unless those before it are and do not end the set.
ItemsInv ==
    \A s \in Slot : items[s] # NoItem =>
        \A k \in 1..s : items[k - 1] # NoItem /\ StopReasonOf(Prefix(k)) = "none"

\* An item that may be released for slot s is a stored candidate, in its band unless
\* it is marked for review.
Releasable(s, item) ==
    /\ item.distance # NoDistance
    /\ item.distance = candidates[s][item.attempt]
    /\ RegenEnabled /\ item.status = "verified" => item.distance = 0

CandidateInv == \A s \in Slot : items[s].status \in Success => Releasable(s, items[s])

\* The row of the set is final, and says what the stored items do.
Settled(n) == Final(n) /\ set = StatusOf(Prefix(n))

SetInv == set \in SetStatus => \E n \in 1..Count : Settled(n)

ResultInv ==
    /\ result # NoResult => run = "finalized"
    /\ result.kind \in SetStatus =>
        \E n \in 1..Count : Settled(n) /\ result.kind = set /\ result.items = Prefix(n)

\* What an execution knows of the set is what the item store says.
Told(x) ==
    /\ x.st.cursor = Len(x.st.items)
    /\ \A i \in 1..Len(x.st.items) : x.st.items[i] = items[i - 1]
    /\ x.st.items # <<>> => x.st.stop = StopReasonOf(x.st.items)

\* Nodes that come after the source, and those of an attempt that has begun.
Attempting == {"run_attempt", "calling", "drawn", "saving"}
Looping == {"begin_attempt", "begin_difficulty_regen"} \cup Attempting
Finishing == {"finalizing_run", "publishing", "published"}

\* An execution is where its state says.
Placed(x) ==
    /\ x.pc = "procure_source" => x.st.items = <<>> /\ x.st.attempt = 0
    /\ x.pc \in Looping => ValidState(x.st)
    /\ x.pc \in Attempting => ~IsTerminal(x.st) /\ x.st.attempt # 0
    /\ x.pc \in Looping /\ x.st.fallback # NoAttempt =>
            candidates[x.st.cursor][x.st.fallback] # NoDistance
    /\ x.pc = "saving" =>
            /\ x.held \in ItemResult
            /\ x.held.status \in Success => Releasable(x.st.cursor, x.held)
    /\ x.pc = "finalizing_set" => Final(x.st.cursor)
    /\ x.pc \in Finishing /\ x.outcome = "set" => Settled(x.st.cursor)
    /\ x.pc \in {"publishing", "published"} => run = "finalized"
    /\ x.pc = "published" => result # NoResult

\* The nodes an execution has run: two for each attempt, one for the source.
Counted(x) ==
    /\ x.pc \in {"idle", "leased", "started", "begun", "created", "procure_source"} => x.steps = 0
    /\ x.pc \in Looping \ Attempting =>
            x.steps <= 1 + 2 * (Limit * x.st.cursor) + 2 * x.st.attempt
    /\ x.pc \in Attempting =>
            x.steps <= 2 * (Limit * x.st.cursor) + 2 * x.st.attempt
    /\ x.steps <= GraphRecursionLimit

ExecInv == \A e \in Execution : Told(exec[e]) /\ Placed(exec[e]) /\ Counted(exec[e])

StoreInv == ItemsInv /\ CandidateInv /\ SetInv /\ ResultInv

IInv == TypeOK /\ LedgerInv /\ StoreInv /\ ExecInv
-----------------------------------------------------------------------------
(* The operators of the model.                                             *)

\* A set is given a status, whatever its results are.
LEMMA StatusOfType == ASSUME NEW r PROVE StatusOf(r) \in SetStatus
  BY DEF StatusOf, SetStatus

\* A set is stopped for one of the reasons, or for none.
LEMMA StopReasonType == ASSUME NEW r PROVE StopReasonOf(r) \in StopReason
  BY DEF StopReasonOf, StopReason

\* An absent item is no result.
LEMMA NoItemApart == NoItem \notin ItemResult
  BY DEF NoItem, ItemResult, ItemStatus, Success

\* What a new execution, and one that is gone, holds is well-typed.
LEMMA IdleType == Idle \in Exec /\ Gone \in Exec
<1>1. FreshState \in State
  BY ProblemAssumption DEF FreshState, State, StopReason
<1>2. NoItem \in ItemResult \cup {NoItem} /\ 0 \in Distance
  BY ProblemAssumption DEF Distance
<1>3. Idle \in Exec
  BY <1>1, <1>2 DEF Idle, Exec, PC
<1>4. Gone \in Exec
  BY <1>1, <1>2 DEF Gone, Idle, Exec, PC
<1>. QED
  BY <1>3, <1>4

\* The fields of a state of the graph.
LEMMA StateFields ==
  ASSUME NEW st \in State
  PROVE  /\ st.cursor \in 0..Count /\ st.attempt \in 0..Limit /\ st.fallback \in 0..Limit
         /\ st.items \in Seq(ItemResult) /\ st.stop \in StopReason
  BY DEF State

\* The limit of the graph is a number, large enough for the attempts of all slots.
LEMMA LimitBounds ==
  /\ GraphRecursionLimit \in Nat
  /\ \A c \in 0..Count : Limit * c \in Nat /\ Limit * c <= Limit * Count
  /\ \A c \in 0..Count - 1 : Limit * (c + 1) = Limit * c + Limit
  /\ \A c \in 0..Count - 1 : Limit * c + Limit <= Limit * Count
  /\ 2 * (Limit * Count) + 3 <= GraphRecursionLimit
<1>1. Limit \in Nat /\ Count \in Nat
  BY ProblemAssumption
<1>2. ASSUME NEW c \in Nat PROVE Limit * c \in Nat /\ Limit * (c + 1) = Limit * c + Limit
  BY <1>1
<1>3. ASSUME NEW c \in 0..Count PROVE Limit * c \in Nat /\ Limit * c <= Limit * Count
  <2>1. PICK d \in Nat : Count = c + d
    <3>1. Count - c \in Nat /\ Count = c + (Count - c)
      BY <1>1
    <3>. QED
      BY <3>1
  <2>2. Limit * Count = Limit * c + Limit * d
    BY <1>1, <2>1
  <2>. QED
    BY <1>1, <1>2, <2>2
<1>4. ASSUME NEW c \in 0..Count - 1 PROVE Limit * c + Limit <= Limit * Count
  <2>1. c + 1 \in 0..Count /\ c \in Nat
    BY <1>1
  <2>. QED
    BY <1>2, <1>3, <2>1
<1>5. Count * (Limit + 1) * 2 = 2 * (Limit * Count) + 2 * Count
  BY <1>1
<1>6. GraphRecursionLimit = 2 * (Limit * Count) + 2 * Count + 3
  BY <1>5 DEF GraphRecursionLimit
<1>. QED
  BY <1>1, <1>2, <1>3, <1>4, <1>6
-----------------------------------------------------------------------------
(* What an insert-only store keeps.                                        *)

\* No row of a store is replaced, and neither the end of the run nor a final status
\* of the set is taken back.
StoreGrows ==
    /\ \A s \in Slot, a \in Attempt :
            candidates[s][a] # NoDistance => candidates'[s][a] = candidates[s][a]
    /\ \A s \in Slot : items[s] # NoItem => items'[s] = items[s]
    /\ run = "finalized" => run' = "finalized"
    /\ set \in SetStatus => set' = set
    /\ result # NoResult => result' = result

\* The slots an execution has behind it are stored, in the order of its results.
LEMMA ToldPrefix ==
  ASSUME TypeOK, NEW x \in Exec, Told(x)
  PROVE  /\ x.st.items = Prefix(x.st.cursor)
         /\ x.st.cursor \in 0..Count
         /\ \A i \in 1..x.st.cursor : i - 1 \in Slot /\ items[i - 1] # NoItem
<1>1. x.st \in State
  BY DEF Exec
<1>2. x.st.cursor \in 0..Count /\ x.st.items \in Seq(ItemResult)
  BY <1>1 DEF State
<1>3. x.st.items = [i \in 1..Len(x.st.items) |-> x.st.items[i]]
  BY <1>2
<1>4. x.st.items = Prefix(x.st.cursor)
  BY <1>2, <1>3 DEF Told, Prefix
<1>5. ASSUME NEW i \in 1..x.st.cursor PROVE i - 1 \in Slot /\ items[i - 1] # NoItem
  <2>1. x.st.items[i] \in ItemResult /\ x.st.items[i] = items[i - 1]
    BY <1>2 DEF Told
  <2>2. i - 1 \in Slot
    BY <1>2, ProblemAssumption DEF Slot
  <2>. QED
    BY <2>1, <2>2, NoItemApart
<1>. QED
  BY <1>2, <1>4, <1>5

\* Slots that are stored are read the same after any step.
LEMMA PrefixKept ==
  ASSUME TypeOK, StoreGrows, NEW n \in 0..Count, \A i \in 1..n : items[i - 1] # NoItem
  PROVE  /\ Prefix(n)' = Prefix(n)
         /\ \A i \in 1..n : items'[i - 1] = items[i - 1]
<1>1. ASSUME NEW i \in 1..n PROVE items'[i - 1] = items[i - 1]
  <2>1. i - 1 \in Slot
    BY ProblemAssumption DEF Slot
  <2>. QED
    BY <2>1 DEF StoreGrows
<1>. QED
  BY <1>1 DEF Prefix

\* A set that is over stays over, with the same status.
LEMMA SettledKept ==
  ASSUME TypeOK, StoreGrows, NEW n, Final(n)
  PROVE  Final(n)' /\ Prefix(n)' = Prefix(n) /\ (Settled(n) => Settled(n)')
<1>1. n \in 0..Count /\ n \in 1..Count
  BY ProblemAssumption DEF Final
<1>2. Prefix(n)' = Prefix(n) /\ \A i \in 1..n : items'[i - 1] = items[i - 1]
  BY <1>1, PrefixKept DEF Final
<1>3. Final(n)'
  BY <1>2 DEF Final
<1>4. ASSUME Settled(n) PROVE Settled(n)'
  <2>1. set \in SetStatus
    BY <1>4, StatusOfType DEF Settled
  <2>2. set' = set
    BY <2>1 DEF StoreGrows
  <2>. QED
    BY <1>2, <1>3, <1>4, <2>2 DEF Settled
<1>. QED
  BY <1>2, <1>3, <1>4

\* A set can be over at one length only.
LEMMA FinalUnique ==
  ASSUME TypeOK, ItemsInv, NEW n, NEW m, Final(n), Final(m)
  PROVE  n = m
<1>1. ASSUME NEW a \in 1..Count, NEW b \in 1..Count, Final(a), Final(b), a < b PROVE FALSE
  <2>1. b - 1 \in Slot /\ items[b - 1] # NoItem /\ a \in 1..(b - 1)
    BY <1>1, ProblemAssumption DEF Final, Slot
  <2>2. StopReasonOf(Prefix(a)) = "none"
    BY <2>1 DEF ItemsInv
  <2>. QED
    BY <1>1, <2>2, ProblemAssumption DEF Final
<1>2. n \in 1..Count /\ m \in 1..Count
  BY DEF Final
<1>. QED
  BY <1>1, <1>2, ProblemAssumption

\* Behind the end of a set nothing is stored.
LEMMA FinalBlank ==
  ASSUME TypeOK, ItemsInv, NEW n, Final(n), NEW s \in Slot, s >= n
  PROVE  items[s] = NoItem
<1>1. n \in 1..s /\ n # Count
  BY ProblemAssumption DEF Final, Slot
<1>. QED
  BY <1>1 DEF Final, ItemsInv
-----------------------------------------------------------------------------
(* What a step of one execution leaves of the others.                      *)

\* What an execution knows of the set stays true.
LEMMA ToldKept ==
  ASSUME TypeOK, StoreGrows, NEW x \in Exec, Told(x)
  PROVE  Told(x)'
<1>1. x.st.cursor \in 0..Count /\ \A i \in 1..x.st.cursor : items[i - 1] # NoItem
  BY ToldPrefix
<1>2. \A i \in 1..x.st.cursor : items'[i - 1] = items[i - 1]
  BY <1>1, PrefixKept
<1>. QED
  BY <1>2 DEF Told

\* An item that may be released may still be released after a step.
LEMMA ReleasableKept ==
  ASSUME TypeOK, StoreGrows, NEW s \in Slot, NEW item \in ItemResult, Releasable(s, item)
  PROVE  Releasable(s, item)'
<1>1. item.attempt \in Attempt
  BY DEF ItemResult
<1>2. candidates'[s][item.attempt] = candidates[s][item.attempt]
  BY <1>1 DEF Releasable, StoreGrows
<1>. QED
  BY <1>2 DEF Releasable

\* A state whose attempt has begun, or that has a fallback, is in the middle of a slot.
LEMMA InSlot ==
  ASSUME NEW st \in State, ValidState(st), st.attempt # 0 \/ st.fallback # NoAttempt
  PROVE  st.cursor \in Slot /\ st.attempt \in Attempt /\ st.stop = "none"
<1>1. st.attempt # 0
  BY DEF ValidState
<1>2. st.cursor # Count /\ st.stop = "none"
  BY <1>1 DEF ValidState, IsTerminal
<1>3. st.cursor \in 0..Count /\ st.attempt \in 0..Limit
  BY DEF State
<1>. QED
  BY <1>1, <1>2, <1>3, ProblemAssumption DEF Slot, Attempt

\* An execution that does nothing is where its state says after any step.
LEMMA PlacedKept ==
  ASSUME TypeOK, StoreGrows, NEW x \in Exec, Told(x), Placed(x)
  PROVE  Placed(x)'
<1>1. x.st \in State
  BY DEF Exec
<1>2. x.pc \in Looping /\ x.st.fallback # NoAttempt =>
        candidates'[x.st.cursor][x.st.fallback] # NoDistance
  <2>. HAVE x.pc \in Looping /\ x.st.fallback # NoAttempt
  <2>1. x.st.cursor \in Slot
    BY <1>1, InSlot DEF Placed
  <2>2. x.st.fallback \in Attempt
    BY <1>1, ProblemAssumption DEF State, Attempt
  <2>. QED
    BY <2>1, <2>2 DEF Placed, StoreGrows
<1>3. x.pc = "saving" /\ x.held.status \in Success => Releasable(x.st.cursor, x.held)'
  <2>. HAVE x.pc = "saving" /\ x.held.status \in Success
  <2>1. x.pc \in Looping /\ x.pc \in Attempting
    BY DEF Looping, Attempting
  <2>2. x.st.cursor \in Slot
    BY <1>1, <2>1, InSlot DEF Placed
  <2>3. x.held \in ItemResult /\ Releasable(x.st.cursor, x.held)
    BY DEF Placed
  <2>. QED
    BY <2>2, <2>3, ReleasableKept
<1>4. x.pc = "finalizing_set" => Final(x.st.cursor)'
  BY SettledKept DEF Placed
<1>5. x.pc \in Finishing /\ x.outcome = "set" => Settled(x.st.cursor)'
  BY SettledKept DEF Placed, Settled
<1>6. /\ x.pc \in {"publishing", "published"} => run' = "finalized"
      /\ x.pc = "published" => result' # NoResult
  BY DEF Placed, StoreGrows
<1>7. /\ x.pc = "procure_source" => x.st.items = <<>> /\ x.st.attempt = 0
      /\ x.pc \in Looping => ValidState(x.st)
      /\ x.pc \in Attempting => ~IsTerminal(x.st) /\ x.st.attempt # 0
      /\ x.pc = "saving" => x.held \in ItemResult
  BY DEF Placed
<1>. QED
  BY <1>2, <1>3, <1>4, <1>5, <1>6, <1>7 DEF Placed

\* A step that stores no item, keeps the row of the set and the result keeps what the
\* stores say.
LEMMA StoresKept ==
  ASSUME TypeOK, StoreInv, StoreGrows, items' = items, set' = set, result' = result
  PROVE  StoreInv'
<1>1. \A n : Prefix(n)' = Prefix(n) /\ (Final(n)' <=> Final(n)) /\ (Settled(n)' <=> Settled(n))
  BY DEF Prefix, Final, Settled
<1>2. ItemsInv'
  BY <1>1 DEF StoreInv, ItemsInv
<1>3. CandidateInv'
  <2>. SUFFICES ASSUME NEW s \in Slot, items[s].status \in Success
                PROVE  Releasable(s, items[s])'
    BY DEF CandidateInv
  <2>1. items[s] \in ItemResult
    BY DEF TypeOK, NoItem, Success
  <2>2. Releasable(s, items[s])
    BY DEF StoreInv, CandidateInv
  <2>3. PICK i : i = items[s]
    OBVIOUS
  <2>4. Releasable(s, i)'
    BY <2>1, <2>2, <2>3, ReleasableKept
  <2>. QED
    BY <2>3, <2>4
<1>4. SetInv'
  BY <1>1 DEF StoreInv, SetInv
<1>5. ResultInv'
  BY <1>1 DEF StoreInv, ResultInv, StoreGrows
<1>. QED
  BY <1>2, <1>3, <1>4, <1>5 DEF StoreInv

\* The types of what is in the stores.
StoreTypes ==
    /\ run \in {"none", "begun", "finalized"}
    /\ set \in {"none", "generating"} \cup SetStatus
    /\ candidates \in [Slot -> [Attempt -> Distance \cup {NoDistance}]]
    /\ items \in [Slot -> ItemResult \cup {NoItem}]
    /\ thread \in [stop: StopReason, fallback: 0..Limit, source: BOOLEAN]
    /\ result \in [kind: {"none", "rejected_insufficient"} \cup SetStatus,
                   items: Seq(ItemResult)]

\* A step of one execution keeps the invariant if it does for that execution, the
\* stores and the ledger.
LEMMA OneSteps ==
  ASSUME IInv, NEW e \in Execution, NEW x \in Exec,
         exec' = [exec EXCEPT ![e] = x], Told(x)', Placed(x)', Counted(x),
         StoreGrows, StoreTypes', StoreInv',
         job' \in [phase: {"queued"} \cup Active \cup Terminal,
                   generation: 0..MaxRecovery, recovery: 0..MaxRecovery],
         live' \in BOOLEAN, LedgerInv'
  PROVE  IInv'
<1>1. TypeOK'
  BY DEF IInv, TypeOK, StoreTypes
<1>2. ASSUME NEW v \in Execution
      PROVE  Told(exec[v])' /\ Placed(exec[v])' /\ Counted(exec[v])'
  <2>1. exec[v] \in Exec /\ Told(exec[v]) /\ Placed(exec[v]) /\ Counted(exec[v])
    BY DEF IInv, TypeOK, ExecInv
  <2>2. PICK y \in Exec : y = exec'[v]
    BY <1>1 DEF TypeOK
  <2>3. CASE v = e
    <3>1. y = x
      BY <2>2, <2>3 DEF IInv, TypeOK
    <3>. QED
      BY <3>1, <2>2 DEF Counted
  <2>4. CASE v # e
    <3>1. y = exec[v]
      BY <2>2, <2>4 DEF IInv, TypeOK
    <3>2. Told(y) /\ Placed(y) /\ Counted(y)
      BY <2>1, <3>1
    <3>3. Told(y)' /\ Placed(y)' /\ Counted(y)'
      BY <3>2, ToldKept, PlacedKept DEF IInv, Counted
    <3>. QED
      BY <3>3, <2>2
  <2>. QED
    BY <2>3, <2>4
<1>3. ExecInv'
  BY <1>2 DEF ExecInv
<1>. QED
  BY <1>1, <1>3 DEF IInv

\* The ledger's part, for a step of an execution that leaves the row alone.
LEMMA LedgerKept ==
  ASSUME IInv, NEW e \in Execution, NEW x, exec[e].pc # "idle",
         exec' = [exec EXCEPT ![e] = x], job' = job, StoreGrows
  PROVE  LedgerInv'
<1>1. exec[e] # Idle
  BY DEF Idle
<1>2. ~(e > job.generation)
  BY <1>1 DEF IInv, LedgerInv
<1>3. \A v \in Execution : v > job.generation => exec'[v] = Idle
  BY <1>2 DEF IInv, LedgerInv, TypeOK
<1>. QED
  BY <1>3 DEF IInv, LedgerInv, StoreGrows
-----------------------------------------------------------------------------
(* What an execution holds after a step.                                   *)

\* It enters another node or call.
LEMMA GotoExec ==
  ASSUME TypeOK, NEW e \in Execution, NEW pc \in PC, Goto(e, pc)
  PROVE  \E x \in Exec :
            /\ exec' = [exec EXCEPT ![e] = x]
            /\ x.pc = pc /\ x.st = exec[e].st /\ x.steps = exec[e].steps
            /\ x.outcome = exec[e].outcome
<1> DEFINE x == [exec[e] EXCEPT !.pc = pc]
<1>1. exec[e] \in Exec
  BY DEF TypeOK
<1>2. x \in Exec /\ x.pc = pc /\ x.st = exec[e].st /\ x.steps = exec[e].steps
      /\ x.outcome = exec[e].outcome
  BY <1>1 DEF Exec
<1>3. exec' = [exec EXCEPT ![e] = x]
  BY DEF Goto
<1>. QED
  BY <1>2, <1>3

\* It raises.
LEMMA RaiseExec ==
  ASSUME TypeOK, NEW e \in Execution, NEW c \in Cause, Raise(e, c)
  PROVE  \E x \in Exec :
            /\ exec' = [exec EXCEPT ![e] = x]
            /\ x.pc = "failing" /\ x.st = exec[e].st /\ x.steps = exec[e].steps
<1> DEFINE x == [exec[e] EXCEPT !.pc = "failing", !.cause = c]
<1>1. exec[e] \in Exec
  BY DEF TypeOK
<1>2. x \in Exec /\ x.pc = "failing" /\ x.st = exec[e].st /\ x.steps = exec[e].steps
  BY <1>1 DEF Exec, PC
<1>3. exec' = [exec EXCEPT ![e] = x]
  BY DEF Raise
<1>. QED
  BY <1>2, <1>3

\* It gives the set up for want of a source.
LEMMA RejectExec ==
  ASSUME TypeOK, NEW e \in Execution, Reject(e)
  PROVE  \E x \in Exec :
            /\ exec' = [exec EXCEPT ![e] = x]
            /\ x.pc = "finalizing_run" /\ x.st = exec[e].st /\ x.steps = exec[e].steps
            /\ x.outcome = "rejected"
<1> DEFINE x == [exec[e] EXCEPT !.pc = "finalizing_run", !.outcome = "rejected"]
<1>1. exec[e] \in Exec
  BY DEF TypeOK
<1>2. x \in Exec /\ x.pc = "finalizing_run" /\ x.st = exec[e].st
      /\ x.steps = exec[e].steps /\ x.outcome = "rejected"
  BY <1>1 DEF Exec, PC
<1>3. exec' = [exec EXCEPT ![e] = x]
  BY DEF Reject
<1>. QED
  BY <1>2, <1>3

\* It has an item to save.
LEMMA HoldExec ==
  ASSUME TypeOK, NEW e \in Execution, NEW item \in ItemResult, Hold(e, item)
  PROVE  \E x \in Exec :
            /\ exec' = [exec EXCEPT ![e] = x]
            /\ x.pc = "saving" /\ x.st = exec[e].st /\ x.steps = exec[e].steps
            /\ x.held = item
<1> DEFINE x == [exec[e] EXCEPT !.pc = "saving", !.held = item]
<1>1. exec[e] \in Exec
  BY DEF TypeOK
<1>2. x \in Exec /\ x.pc = "saving" /\ x.st = exec[e].st
      /\ x.steps = exec[e].steps /\ x.held = item
  BY <1>1 DEF Exec, PC
<1>3. exec' = [exec EXCEPT ![e] = x]
  BY DEF Hold
<1>. QED
  BY <1>2, <1>3

\* Its node returns a state, which is checked.
LEMMA AdvanceExec ==
  ASSUME TypeOK, NEW e \in Execution, NEW st \in State, NEW pc \in PC, Advance(e, st, pc)
  PROVE  /\ thread' \in [stop: StopReason, fallback: 0..Limit, source: BOOLEAN]
         /\ \/ \E c \in Cause : Raise(e, c)
            \/ \E x \in Exec :
                /\ exec' = [exec EXCEPT ![e] = x]
                /\ x.pc = pc /\ x.st = st /\ x.steps = exec[e].steps + 1
                /\ ValidState(st)
<1>1. thread \in [stop: StopReason, fallback: 0..Limit, source: BOOLEAN]
  BY DEF TypeOK
<1>2. [stop |-> st.stop, fallback |-> st.fallback, source |-> st.source] \in
        [stop: StopReason, fallback: 0..Limit, source: BOOLEAN]
  BY DEF State
<1>3. exec[e] \in Exec
  BY DEF TypeOK
<1>4. CASE ValidState(st) /\ AllowedTransition(exec[e].st, st)
  <2> DEFINE x == [exec[e] EXCEPT !.pc = pc, !.st = st, !.held = NoItem,
                                  !.drawn = 0, !.steps = @ + 1]
  <2>1. exec' = [exec EXCEPT ![e] = x]
    BY <1>4 DEF Advance
  <2>5. thread' \in {thread, [stop |-> st.stop, fallback |-> st.fallback,
                               source |-> st.source]}
    BY <1>4 DEF Advance
  <2>2. 0 \in Distance /\ exec[e].steps + 1 \in Nat
    BY <1>3, ProblemAssumption DEF Distance, Exec
  <2>3. x \in Exec
    BY <1>3, <2>2 DEF Exec
  <2>4. x.pc = pc /\ x.st = st /\ x.steps = exec[e].steps + 1
    BY <1>3 DEF Exec
  <2>. QED
    BY <1>1, <1>2, <1>4, <2>1, <2>3, <2>4, <2>5
<1>5. CASE ~(ValidState(st) /\ AllowedTransition(exec[e].st, st))
  BY <1>1, <1>5 DEF Advance
<1>. QED
  BY <1>4, <1>5
-----------------------------------------------------------------------------
(* Steps that store nothing.                                               *)

\* Without a change in the rows the stores are as they were.
LEMMA RowsSame ==
  ASSUME IInv, UNCHANGED <<run, set, candidates, items, result>>,
         thread' \in [stop: StopReason, fallback: 0..Limit, source: BOOLEAN]
  PROVE  StoreGrows /\ StoreTypes' /\ StoreInv'
<1>1. StoreGrows
  BY DEF StoreGrows
<1>2. StoreTypes'
  BY DEF IInv, TypeOK, StoreTypes
<1>. QED
  BY <1>1, <1>2, StoresKept DEF IInv

\* The thread is as it was.
LEMMA StoresSame ==
  ASSUME IInv, UNCHANGED stores
  PROVE  StoreGrows /\ StoreTypes' /\ StoreInv'
<1>1. thread' \in [stop: StopReason, fallback: 0..Limit, source: BOOLEAN]
  BY DEF stores, IInv, TypeOK
<1>. QED
  BY <1>1, RowsSame DEF stores

\* A step of one execution that leaves the ledger alone.
LEMMA ExecSteps ==
  ASSUME IInv, NEW e \in Execution, exec[e].pc # "idle", NEW x \in Exec,
         exec' = [exec EXCEPT ![e] = x], UNCHANGED <<job, live>>,
         StoreGrows, StoreTypes', StoreInv', Told(x)', Placed(x)', Counted(x)
  PROVE  IInv'
<1>1. LedgerInv'
  BY LedgerKept
<1>2. /\ job' \in [phase: {"queued"} \cup Active \cup Terminal,
                   generation: 0..MaxRecovery, recovery: 0..MaxRecovery]
      /\ live' \in BOOLEAN
  BY DEF IInv, TypeOK
<1>. QED
  BY <1>1, <1>2, OneSteps

\* An execution that keeps its state knows no less of the set.
LEMMA SameTold ==
  ASSUME IInv, NEW e \in Execution, StoreGrows, NEW x \in Exec, x.st = exec[e].st
  PROVE  Told(x)'
<1>1. Told(exec[e])
  BY DEF IInv, ExecInv
<1>2. Told(x)
  BY <1>1 DEF Told
<1>. QED
  BY <1>2, ToldKept DEF IInv

\* An execution that has raised claims nothing but its steps.
LEMMA FailingPlaced ==
  ASSUME IInv, NEW e \in Execution, NEW x \in Exec,
         x.pc = "failing", x.steps = exec[e].steps
  PROVE  Placed(x)' /\ Counted(x)
<1>1. Placed(x)'
  BY DEF Placed, Looping, Attempting, Finishing
<1>2. Counted(exec[e])
  BY DEF IInv, ExecInv
<1>3. Counted(x)
  BY <1>2 DEF Counted, Looping, Attempting
<1>. QED
  BY <1>1, <1>3

\* An execution raises, whatever its call stored before.
LEMMA RaiseSteps ==
  ASSUME IInv, NEW e \in Execution, exec[e].pc # "idle", NEW c \in Cause, Raise(e, c),
         UNCHANGED <<job, live>>, StoreGrows, StoreTypes', StoreInv'
  PROVE  IInv'
<1>1. PICK x \in Exec : /\ exec' = [exec EXCEPT ![e] = x]
                        /\ x.pc = "failing" /\ x.st = exec[e].st /\ x.steps = exec[e].steps
  BY RaiseExec DEF IInv
<1>2. Told(x)' /\ Placed(x)' /\ Counted(x)
  BY <1>1, SameTold, FailingPlaced
<1>. QED
  BY <1>1, <1>2, ExecSteps

\* A node returns a state: what is to be shown is that the new state is told and placed.
LEMMA AdvanceSteps ==
  ASSUME IInv, NEW e \in Execution, exec[e].pc # "idle", NEW st \in State, NEW pc \in PC,
         Advance(e, st, pc), UNCHANGED <<job, live>>,
         StoreGrows, StoreTypes', StoreInv',
         \A x \in Exec :
            x.pc = pc /\ x.st = st /\ x.steps = exec[e].steps + 1 /\ ValidState(st) =>
                Told(x)' /\ Placed(x)' /\ Counted(x)
  PROVE  IInv'
<1>1. CASE \E c \in Cause : Raise(e, c)
  BY <1>1, RaiseSteps
<1>2. CASE \E x \in Exec : /\ exec' = [exec EXCEPT ![e] = x]
                           /\ x.pc = pc /\ x.st = st /\ x.steps = exec[e].steps + 1
                           /\ ValidState(st)
  <2>1. PICK x \in Exec : /\ exec' = [exec EXCEPT ![e] = x]
                          /\ x.pc = pc /\ x.st = st /\ x.steps = exec[e].steps + 1
                          /\ ValidState(st)
    BY <1>2
  <2>2. Told(x)' /\ Placed(x)' /\ Counted(x)
    BY <2>1
  <2>. QED
    BY <2>1, <2>2, ExecSteps
<1>. QED
  BY <1>1, <1>2, AdvanceExec DEF IInv
-----------------------------------------------------------------------------
(* The ledger around the executions, and the steps before the graph.       *)

\* Before anything runs nothing is claimed.
LEMMA InitIInv == Init => IInv
<1> SUFFICES ASSUME Init PROVE IInv
  OBVIOUS
<1>1. TypeOK
  <2>1. exec \in [Execution -> Exec]
    BY IdleType DEF Init
  <2>2. candidates \in [Slot -> [Attempt -> Distance \cup {NoDistance}]]
    BY DEF Init
  <2>3. result \in [kind: {"none", "rejected_insufficient"} \cup SetStatus,
                    items: Seq(ItemResult)]
    BY DEF Init, NoResult
  <2>4. thread \in [stop: StopReason, fallback: 0..Limit, source: BOOLEAN]
    BY ProblemAssumption DEF Init, Unset, StopReason
  <2>5. job \in [phase: {"queued"} \cup Active \cup Terminal,
                 generation: 0..MaxRecovery, recovery: 0..MaxRecovery]
    BY ProblemAssumption DEF Init
  <2>6. items \in [Slot -> ItemResult \cup {NoItem}] /\ live \in BOOLEAN
    BY DEF Init
  <2>. QED
    BY <2>1, <2>2, <2>3, <2>4, <2>5, <2>6 DEF Init, TypeOK
<1>2. LedgerInv
  BY ProblemAssumption DEF Init, LedgerInv
<1>3. StoreInv
  <2>1. \A s \in Slot : items[s] = NoItem /\ items[s].status \notin Success
    BY DEF Init, NoItem, Success
  <2>2. set \notin SetStatus /\ result = NoResult /\ result.kind \notin SetStatus
    BY DEF Init, SetStatus, NoResult
  <2>. QED
    BY <2>1, <2>2 DEF StoreInv, ItemsInv, CandidateInv, SetInv, ResultInv
<1>4. ASSUME NEW e \in Execution PROVE Told(exec[e]) /\ Placed(exec[e]) /\ Counted(exec[e])
  <2>1. exec[e] = Idle
    BY <1>1 DEF Init
  <2>2. Idle.pc = "idle" /\ Idle.st.items = <<>> /\ Idle.st.cursor = 0 /\ Idle.steps = 0
    BY DEF Idle, FreshState
  <2>3. Told(Idle)
    BY <2>2 DEF Told
  <2>4. Placed(Idle)
    BY <2>2 DEF Placed, Looping, Attempting, Finishing
  <2>5. Counted(Idle)
    BY <2>2, LimitBounds DEF Counted, Looping, Attempting
  <2>. QED
    BY <2>1, <2>3, <2>4, <2>5
<1>. QED
  BY <1>1, <1>2, <1>3, <1>4 DEF IInv, ExecInv

\* A lease expires.
LEMMA ExpireKeeps == ASSUME IInv, Expire PROVE IInv'
<1>1. UNCHANGED <<job, stores, exec>> /\ live' \in BOOLEAN
  BY DEF Expire
<1>2. StoreGrows /\ StoreTypes' /\ StoreInv'
  BY <1>1, StoresSame
<1>3. TypeOK'
  BY <1>1, <1>2 DEF IInv, TypeOK, StoreTypes
<1>4. LedgerInv'
  BY <1>1 DEF IInv, LedgerInv, stores
<1>5. ExecInv'
  BY <1>1 DEF IInv, ExecInv, stores, Told, Placed, Counted, Releasable, Settled, Final, Prefix
<1>. QED
  BY <1>2, <1>3, <1>4, <1>5 DEF IInv

\* The row of the ledger changes, nothing else does.
LEMMA JobChanges ==
  ASSUME IInv, UNCHANGED <<live, stores, exec>>,
         job' \in [phase: {"queued"} \cup Active \cup Terminal,
                   generation: 0..MaxRecovery, recovery: 0..MaxRecovery],
         LedgerInv'
  PROVE  IInv'
<1>1. StoreGrows /\ StoreTypes' /\ StoreInv'
  BY StoresSame
<1>2. TypeOK'
  BY <1>1 DEF IInv, TypeOK, StoreTypes
<1>3. ExecInv'
  BY DEF IInv, ExecInv, stores, Told, Placed, Counted, Releasable, Settled, Final, Prefix
<1>. QED
  BY <1>1, <1>2, <1>3 DEF IInv

\* The sweep queues an expired job again, or fails it.
LEMMA RecoverKeeps == ASSUME IInv, RecoverExpired PROVE IInv'
<1>1. /\ job' = [job EXCEPT !.recovery = @ + 1,
                            !.phase = IF job.recovery + 1 >= MaxRecovery
                                        THEN "failed" ELSE "queued"]
      /\ UNCHANGED <<live, stores, exec>> /\ job.phase \in Active
  BY DEF RecoverExpired
<1>2. /\ job.phase \notin Terminal /\ job.recovery \in 0..MaxRecovery
      /\ job.generation \in 0..MaxRecovery
  BY <1>1 DEF IInv, TypeOK
<1>3. job.recovery < MaxRecovery
  BY <1>2 DEF IInv, LedgerInv
<1>4. PICK f \in {"failed", "queued"} :
        /\ f = IF job.recovery + 1 >= MaxRecovery THEN "failed" ELSE "queued"
        /\ f = "queued" => job.recovery + 1 < MaxRecovery
  BY <1>2, ProblemAssumption
<1>5. /\ job' = [job EXCEPT !.recovery = @ + 1, !.phase = f]
      /\ job.recovery + 1 \in 0..MaxRecovery
  BY <1>1, <1>2, <1>3, <1>4, ProblemAssumption
<1>6. /\ job' \in [phase: {"queued"} \cup Active \cup Terminal,
                   generation: 0..MaxRecovery, recovery: 0..MaxRecovery]
      /\ job'.phase = f /\ job'.recovery = job.recovery + 1
      /\ job'.generation = job.generation
  BY <1>5 DEF IInv, TypeOK
<1>7. LedgerInv'
  BY <1>1, <1>4, <1>6 DEF IInv, LedgerInv, stores
<1>. QED
  BY <1>1, <1>6, <1>7, JobChanges

\* A lease starts from an execution that has done nothing.
LEMMA LeaseKeeps == ASSUME IInv, NEW e \in Execution, Lease(e) PROVE IInv'
<1>1. /\ job.phase = "queued" /\ job.generation + 1 = e
      /\ job' = [job EXCEPT !.phase = "leased", !.generation = e]
      /\ live' = TRUE /\ Goto(e, "leased") /\ UNCHANGED stores
  BY DEF Lease
<1>2. job.generation \in 0..MaxRecovery /\ exec[e] = Idle
  BY <1>1, ProblemAssumption DEF IInv, TypeOK, LedgerInv, Execution
<1>3. PICK x \in Exec :
        /\ exec' = [exec EXCEPT ![e] = x]
        /\ x.pc = "leased" /\ x.st = exec[e].st /\ x.steps = exec[e].steps
  <2>1. "leased" \in PC
    BY DEF PC
  <2>. QED
    BY <1>1, <2>1, GotoExec DEF IInv
<1>4. StoreGrows /\ StoreTypes' /\ StoreInv'
  BY <1>1, StoresSame
<1>5. Told(x)'
  BY <1>3, <1>4, SameTold
<1>6. Placed(x)' /\ Counted(x)
  BY <1>2, <1>3, LimitBounds DEF Placed, Counted, Looping, Attempting, Finishing, Idle
<1>7. /\ job' \in [phase: {"queued"} \cup Active \cup Terminal,
                   generation: 0..MaxRecovery, recovery: 0..MaxRecovery]
      /\ job'.phase = "leased" /\ job'.recovery = job.recovery /\ job'.generation = e
  <2>1. job \in [phase: {"queued"} \cup Active \cup Terminal,
                 generation: 0..MaxRecovery, recovery: 0..MaxRecovery]
    BY DEF IInv, TypeOK
  <2>2. e \in 0..MaxRecovery
    BY ProblemAssumption DEF Execution
  <2>. QED
    BY <1>1, <2>1, <2>2
<1>8. LedgerInv'
  <2>1. job'.recovery < MaxRecovery
    BY <1>1, <1>7 DEF IInv, LedgerInv
  <2>2. ASSUME NEW v \in Execution, v > e PROVE exec'[v] = Idle
    <3>1. v > job.generation /\ v # e
      BY <1>1, <1>2, <2>2, ProblemAssumption DEF Execution
    <3>. QED
      BY <1>3, <3>1 DEF IInv, LedgerInv, TypeOK
  <2>. QED
    BY <1>7, <2>1, <2>2 DEF LedgerInv
<1>9. live' \in BOOLEAN
  BY <1>1
<1>. QED
  BY <1>3, <1>4, <1>5, <1>6, <1>7, <1>8, <1>9, OneSteps

\* An execution that is gone claims nothing.
LEMMA GonePlaced ==
  ASSUME IInv
  PROVE  Told(Gone)' /\ Placed(Gone)' /\ Counted(Gone) /\ Gone \in Exec
<1>1. Gone.pc = "gone" /\ Gone.st.items = <<>> /\ Gone.st.cursor = 0 /\ Gone.steps = 0
  BY DEF Gone, Idle, FreshState
<1>2. Told(Gone)'
  BY <1>1 DEF Told
<1>3. Placed(Gone)'
  BY <1>1 DEF Placed, Looping, Attempting, Finishing
<1>4. Counted(Gone)
  BY <1>1, LimitBounds DEF Counted, Looping, Attempting
<1>. QED
  BY <1>2, <1>3, <1>4, IdleType

\* An execution dies.
LEMMA CrashKeeps == ASSUME IInv, NEW e \in Execution, Crash(e) PROVE IInv'
<1>1. /\ exec[e].pc # "idle" /\ exec' = [exec EXCEPT ![e] = Gone]
      /\ UNCHANGED <<job, live>> /\ UNCHANGED stores
  BY DEF Crash, PC
<1>2. StoreGrows /\ StoreTypes' /\ StoreInv'
  BY <1>1, StoresSame
<1>. QED
  BY <1>1, <1>2, GonePlaced, ExecSteps

\* A call or the heartbeat fails.
LEMMA InterruptedKeeps == ASSUME IInv, NEW e \in Execution, Interrupted(e) PROVE IInv'
<1>1. /\ exec[e].pc # "idle" /\ Raise(e, "other")
      /\ UNCHANGED <<job, live>> /\ UNCHANGED stores
  BY DEF Interrupted
<1>2. StoreGrows /\ StoreTypes' /\ StoreInv'
  BY <1>1, StoresSame
<1>. QED
  BY <1>1, <1>2, RaiseSteps

\* An execution reports a phase for its job, and enters x.
LEMMA ReportKeeps ==
  ASSUME IInv, NEW e \in Execution, exec[e].pc # "idle", NEW x \in Exec,
         exec' = [exec EXCEPT ![e] = x], UNCHANGED live, UNCHANGED stores,
         NEW f \in {"running", "succeeded", "failed"},
         job' = [job EXCEPT !.phase = f], job.phase \in Active,
         f = "succeeded" => result # NoResult,
         Told(x)', Placed(x)', Counted(x)
  PROVE  IInv'
<1>1. StoreGrows /\ StoreTypes' /\ StoreInv'
  BY StoresSame
<1>2. /\ job' \in [phase: {"queued"} \cup Active \cup Terminal,
                   generation: 0..MaxRecovery, recovery: 0..MaxRecovery]
      /\ job'.phase = f /\ job'.recovery = job.recovery
      /\ job'.generation = job.generation
  BY DEF IInv, TypeOK
<1>3. exec[e] # Idle
  BY DEF Idle
<1>4. ~(e > job.generation)
  BY <1>3 DEF IInv, LedgerInv
<1>5. \A v \in Execution : v > job.generation => exec'[v] = Idle
  BY <1>4 DEF IInv, LedgerInv, TypeOK
<1>6. result' = result /\ job.recovery < MaxRecovery
  BY DEF stores, IInv, LedgerInv
<1>7. LedgerInv'
  BY <1>2, <1>5, <1>6 DEF LedgerInv
<1>8. live' \in BOOLEAN
  BY DEF IInv, TypeOK
<1>. QED
  BY <1>1, <1>2, <1>7, <1>8, OneSteps

\* A failure is reported, or the report is refused.
LEMMA FailKeeps == ASSUME IInv, NEW e \in Execution, Fail(e) PROVE IInv'
<1>1. /\ exec[e].pc # "idle" /\ exec' = [exec EXCEPT ![e] = Gone]
      /\ UNCHANGED live /\ UNCHANGED stores
  BY DEF Fail, Leave
<1>2. CASE Owns(e)
  <2>1. job' = [job EXCEPT !.phase = "failed"] /\ job.phase \in Active
    BY <1>2 DEF Fail, Owns
  <2>. QED
    BY <1>1, <2>1, GonePlaced, ReportKeeps
<1>3. CASE ~Owns(e)
  <2>1. UNCHANGED <<job, live>>
    BY <1>1, <1>3 DEF Fail
  <2>2. StoreGrows /\ StoreTypes' /\ StoreInv'
    BY <1>1, StoresSame
  <2>. QED
    BY <1>1, <2>1, <2>2, GonePlaced, ExecSteps
<1>. QED
  BY <1>2, <1>3

\* supervisor.start is accepted or refused.
LEMMA StartKeeps == ASSUME IInv, NEW e \in Execution, Start(e) PROVE IInv'
<1>1. /\ exec[e].pc = "leased" /\ exec[e].pc # "idle"
      /\ UNCHANGED live /\ UNCHANGED stores
  BY DEF Start
<1>2. StoreGrows /\ StoreTypes' /\ StoreInv'
  BY <1>1, StoresSame
<1>3. CASE Owns(e) /\ job' = [job EXCEPT !.phase = "running"] /\ Goto(e, "started")
  <2>1. "started" \in PC
    BY DEF PC
  <2>2. PICK x \in Exec :
          /\ exec' = [exec EXCEPT ![e] = x]
          /\ x.pc = "started" /\ x.st = exec[e].st /\ x.steps = exec[e].steps
    BY <1>3, <2>1, GotoExec DEF IInv
  <2>3. Told(x)'
    BY <1>2, <2>2, SameTold
  <2>4. Placed(x)'
    BY <2>2 DEF Placed, Looping, Attempting, Finishing
  <2>5. Counted(exec[e])
    BY DEF IInv, ExecInv
  <2>6. Counted(x)
    BY <1>1, <2>2, <2>5 DEF Counted, Looping, Attempting
  <2>7. job.phase \in Active
    BY <1>3 DEF Owns
  <2>. QED
    BY <1>1, <1>3, <2>2, <2>3, <2>4, <2>6, <2>7, ReportKeeps
<1>4. CASE Raise(e, "other") /\ UNCHANGED job
  BY <1>1, <1>2, <1>4, RaiseSteps
<1>. QED
  BY <1>3, <1>4 DEF Start

\* begin_run inserts the run, or finds it.
LEMMA BeginRunKeeps == ASSUME IInv, NEW e \in Execution, BeginRun(e) PROVE IInv'
<1>1. /\ exec[e].pc = "started" /\ run' = IF run = "none" THEN "begun" ELSE run
      /\ Goto(e, "begun") /\ UNCHANGED <<job, live>>
      /\ UNCHANGED <<set, candidates, items, thread, result>>
  BY DEF BeginRun
<1>2. StoreGrows
  BY <1>1 DEF StoreGrows
<1>3. StoreTypes'
  BY <1>1 DEF IInv, TypeOK, StoreTypes
<1>4. StoreInv'
  BY <1>1, <1>2, StoresKept DEF IInv
<1>5. "begun" \in PC
  BY DEF PC
<1>6. PICK x \in Exec :
        /\ exec' = [exec EXCEPT ![e] = x]
        /\ x.pc = "begun" /\ x.st = exec[e].st /\ x.steps = exec[e].steps
  BY <1>1, <1>5, GotoExec DEF IInv
<1>7. Told(x)'
  BY <1>2, <1>6, SameTold
<1>8. Placed(x)'
  BY <1>6 DEF Placed, Looping, Attempting, Finishing
<1>9. Counted(exec[e])
  BY DEF IInv, ExecInv
<1>10. Counted(x)
  BY <1>1, <1>6, <1>9 DEF Counted, Looping, Attempting
<1>. QED
  BY <1>1, <1>2, <1>3, <1>4, <1>6, <1>7, <1>8, <1>10, ExecSteps

\* The row of the set is created, or left alone; or no target was found.
LEMMA PrepareKeeps == ASSUME IInv, NEW e \in Execution, Prepare(e) PROVE IInv'
<1>1. /\ exec[e].pc = "begun" /\ exec[e].pc # "idle" /\ UNCHANGED <<job, live>>
      /\ UNCHANGED <<run, candidates, items, thread, result>>
  BY DEF Prepare
<1>2. Counted(exec[e]) /\ Placed(exec[e])
  BY DEF IInv, ExecInv
<1>3. CASE set' = (IF set = "none" THEN "generating" ELSE set) /\ Goto(e, "created")
  <2>1. StoreGrows
    BY <1>1, <1>3 DEF StoreGrows, SetStatus
  <2>2. StoreTypes'
    BY <1>1, <1>3 DEF IInv, TypeOK, StoreTypes
  <2>3. StoreInv'
    <3>1. CASE set' = set
      BY <1>1, <2>1, <3>1, StoresKept DEF IInv
    <3>2. CASE set' # set
      <4>1. set = "none" /\ set' = "generating" /\ set \notin SetStatus /\ set' \notin SetStatus
        BY <1>3, <3>2 DEF SetStatus
      <4>2. result.kind \notin SetStatus
        BY <4>1, StatusOfType DEF IInv, StoreInv, ResultInv, Settled
      <4>3. ItemsInv' /\ CandidateInv'
        BY <1>1 DEF IInv, StoreInv, ItemsInv, CandidateInv, Prefix, Releasable
      <4>4. SetInv' /\ ResultInv'
        BY <1>1, <4>1, <4>2 DEF IInv, StoreInv, SetInv, ResultInv
      <4>. QED
        BY <4>3, <4>4 DEF StoreInv
    <3>. QED
      BY <3>1, <3>2
  <2>4. "created" \in PC
    BY DEF PC
  <2>5. PICK x \in Exec :
          /\ exec' = [exec EXCEPT ![e] = x]
          /\ x.pc = "created" /\ x.st = exec[e].st /\ x.steps = exec[e].steps
    BY <1>3, <2>4, GotoExec DEF IInv
  <2>6. Told(x)'
    BY <2>1, <2>5, SameTold
  <2>7. Placed(x)'
    BY <2>5 DEF Placed, Looping, Attempting, Finishing
  <2>8. Counted(x)
    BY <1>1, <1>2, <2>5 DEF Counted, Looping, Attempting
  <2>. QED
    BY <1>1, <2>1, <2>2, <2>3, <2>5, <2>6, <2>7, <2>8, ExecSteps
<1>4. CASE /\ exec' = [exec EXCEPT ![e].pc = "finalizing_run", ![e].outcome = "rejected"]
           /\ UNCHANGED set
  <2>1. PICK x \in Exec :
          /\ exec' = [exec EXCEPT ![e] = x]
          /\ x.pc = "finalizing_run" /\ x.st = exec[e].st /\ x.steps = exec[e].steps
          /\ x.outcome = "rejected"
    BY <1>4, RejectExec DEF IInv, Reject
  <2>2. StoreGrows /\ StoreTypes' /\ StoreInv'
    BY <1>1, <1>4, StoresSame DEF stores
  <2>3. Told(x)'
    BY <2>1, <2>2, SameTold
  <2>4. Placed(x)'
    BY <2>1 DEF Placed, Looping, Attempting, Finishing
  <2>5. Counted(x)
    BY <1>2, <2>1 DEF Counted, Looping, Attempting
  <2>. QED
    BY <1>1, <2>1, <2>2, <2>3, <2>4, <2>5, ExecSteps
<1>. QED
  BY <1>3, <1>4 DEF Prepare

\* The graph starts from a fresh state, but for what the thread may hold.
LEMMA InvokeKeeps == ASSUME IInv, NEW e \in Execution, Invoke(e) PROVE IInv'
<1>1. /\ exec[e].pc = "created" /\ exec[e].pc # "idle" /\ UNCHANGED <<job, live>>
      /\ UNCHANGED stores
  BY DEF Invoke
<1>2. PICK kept \in {thread, Unset} :
        exec' = [exec EXCEPT ![e].pc = "procure_source",
                             ![e].st = [FreshState EXCEPT !.stop = kept.stop,
                                                          !.fallback = kept.fallback,
                                                          !.source = kept.source]]
  BY DEF Invoke
<1>3. kept \in [stop: StopReason, fallback: 0..Limit, source: BOOLEAN]
  <2>1. Unset \in [stop: StopReason, fallback: 0..Limit, source: BOOLEAN]
    BY ProblemAssumption DEF Unset, StopReason
  <2>. QED
    BY <2>1 DEF IInv, TypeOK
<1>4. PICK st : st = [FreshState EXCEPT !.stop = kept.stop, !.fallback = kept.fallback,
                                        !.source = kept.source]
  OBVIOUS
<1>5. /\ st \in State /\ st.items = <<>> /\ st.cursor = 0 /\ st.attempt = 0
  <2>1. st = [cursor |-> 0, items |-> <<>>, attempt |-> 0, stop |-> kept.stop,
              fallback |-> kept.fallback, regen |-> FALSE, source |-> kept.source]
    BY <1>4 DEF FreshState
  <2>2. kept.stop \in StopReason /\ kept.fallback \in 0..Limit /\ kept.source \in BOOLEAN
    BY <1>3
  <2>3. 0 \in 0..Count /\ 0 \in 0..Limit /\ <<>> \in Seq(ItemResult) /\ FALSE \in BOOLEAN
    BY ProblemAssumption
  <2>4. st \in State
    BY <2>1, <2>2, <2>3 DEF State
  <2>. QED
    BY <2>1, <2>4
<1>6. exec[e] \in Exec
  BY DEF IInv, TypeOK
<1>7. PICK x : x = [exec[e] EXCEPT !.pc = "procure_source", !.st = st]
  OBVIOUS
<1>8. x \in Exec /\ x.pc = "procure_source" /\ x.st = st /\ x.steps = exec[e].steps
  BY <1>5, <1>6, <1>7 DEF Exec, PC
<1>9. exec' = [exec EXCEPT ![e] = x]
  BY <1>2, <1>4, <1>7
<1>10. StoreGrows /\ StoreTypes' /\ StoreInv'
  BY <1>1, StoresSame
<1>11. Told(x)'
  BY <1>5, <1>8 DEF Told
<1>12. Placed(x)'
  BY <1>5, <1>8 DEF Placed, Looping, Attempting, Finishing
<1>13. Counted(exec[e])
  BY DEF IInv, ExecInv
<1>14. Counted(x)
  BY <1>1, <1>8, <1>13 DEF Counted, Looping, Attempting
<1>. QED
  BY <1>1, <1>8, <1>9, <1>10, <1>11, <1>12, <1>14, ExecSteps
-----------------------------------------------------------------------------
(* The steps after the graph.                                              *)

\* The status a set is given by one more execution is the one it has.
LEMMA SettlesAlike ==
  ASSUME TypeOK, ItemsInv, SetInv, NEW n, Final(n), set \in SetStatus
  PROVE  set = StatusOf(Prefix(n))
<1>1. PICK m \in 1..Count : Settled(m)
  BY DEF SetInv
<1>2. m = n
  BY <1>1, FinalUnique DEF Settled
<1>. QED
  BY <1>1, <1>2 DEF Settled

\* set_store.finalize overwrites a final status with the same one.
LEMMA FinalizeSetKeeps == ASSUME IInv, NEW e \in Execution, FinalizeSet(e) PROVE IInv'
<1>1. /\ exec[e].pc = "finalizing_set" /\ exec[e].pc # "idle" /\ UNCHANGED <<job, live>>
      /\ set' = StatusOf(exec[e].st.items) /\ Goto(e, "finalizing_run")
      /\ UNCHANGED <<run, candidates, items, thread, result>>
  BY DEF FinalizeSet
<1>2. PICK n : n = exec[e].st.cursor
  OBVIOUS
<1>3. exec[e] \in Exec /\ Told(exec[e]) /\ Placed(exec[e]) /\ Counted(exec[e]) /\ TypeOK
  BY DEF IInv, TypeOK, ExecInv
<1>4. Final(n) /\ exec[e].st.items = Prefix(n) /\ n \in 1..Count
  BY <1>1, <1>2, <1>3, ToldPrefix DEF Placed, Final
<1>5. set' = StatusOf(Prefix(n)) /\ set' \in SetStatus
  BY <1>1, <1>4, StatusOfType
<1>6. set \in SetStatus => set' = set
  BY <1>3, <1>4, <1>5, SettlesAlike DEF IInv, StoreInv
<1>7. StoreGrows
  BY <1>1, <1>6 DEF StoreGrows
<1>8. StoreTypes'
  BY <1>1, <1>5 DEF IInv, TypeOK, StoreTypes
<1>9. \A m : Prefix(m)' = Prefix(m) /\ (Final(m)' <=> Final(m))
  BY <1>1 DEF Prefix, Final
<1>10. Settled(n)'
  BY <1>4, <1>5, <1>9 DEF Settled
<1>11. StoreInv'
  <2>1. ItemsInv' /\ CandidateInv'
    BY <1>1 DEF IInv, StoreInv, ItemsInv, CandidateInv, Prefix, Releasable
  <2>2. SetInv'
    BY <1>4, <1>10 DEF SetInv
  <2>3. ResultInv'
    <3>1. result' # NoResult => run' = "finalized"
      BY <1>1 DEF IInv, StoreInv, ResultInv
    <3>2. ASSUME result.kind \in SetStatus
          PROVE  \E m \in 1..Count : Settled(m)' /\ result.kind = set' /\ result.items = Prefix(m)'
      <4>1. PICK m \in 1..Count : Settled(m) /\ result.kind = set /\ result.items = Prefix(m)
        BY <3>2 DEF IInv, StoreInv, ResultInv
      <4>2. set' = set
        BY <1>6, <3>2, <4>1
      <4>3. Settled(m)'
        BY <1>3, <1>7, <4>1, SettledKept DEF Settled
      <4>. QED
        BY <1>9, <4>1, <4>2, <4>3
    <3>. QED
      BY <1>1, <3>1, <3>2 DEF ResultInv
  <2>. QED
    BY <2>1, <2>2, <2>3 DEF StoreInv
<1>12. "finalizing_run" \in PC
  BY DEF PC
<1>13. PICK x \in Exec :
        /\ exec' = [exec EXCEPT ![e] = x]
        /\ x.pc = "finalizing_run" /\ x.st = exec[e].st /\ x.steps = exec[e].steps
  BY <1>1, <1>3, <1>12, GotoExec
<1>14. Told(x)'
  BY <1>7, <1>13, SameTold
<1>15. Placed(x)'
  BY <1>2, <1>10, <1>13 DEF Placed, Looping, Attempting, Finishing
<1>16. Counted(x)
  BY <1>3, <1>13 DEF Counted, Looping, Attempting
<1>. QED
  BY <1>1, <1>7, <1>8, <1>11, <1>13, <1>14, <1>15, <1>16, ExecSteps

\* The run is finalized before the result is put.
LEMMA FinalizeRunKeeps == ASSUME IInv, NEW e \in Execution, FinalizeRun(e) PROVE IInv'
<1>1. /\ exec[e].pc = "finalizing_run" /\ exec[e].pc # "idle" /\ UNCHANGED <<job, live>>
      /\ run' = "finalized" /\ Goto(e, "publishing")
      /\ UNCHANGED <<set, candidates, items, thread, result>>
  BY DEF FinalizeRun
<1>2. exec[e] \in Exec /\ Told(exec[e]) /\ Placed(exec[e]) /\ Counted(exec[e]) /\ TypeOK
  BY DEF IInv, TypeOK, ExecInv
<1>3. StoreGrows
  BY <1>1 DEF StoreGrows
<1>4. StoreTypes'
  BY <1>1 DEF IInv, TypeOK, StoreTypes
<1>5. StoreInv'
  BY <1>1, <1>3, StoresKept DEF IInv
<1>6. "publishing" \in PC
  BY DEF PC
<1>7. PICK x \in Exec :
        /\ exec' = [exec EXCEPT ![e] = x]
        /\ x.pc = "publishing" /\ x.st = exec[e].st /\ x.steps = exec[e].steps
        /\ x.outcome = exec[e].outcome
  BY <1>1, <1>2, <1>6, GotoExec
<1>8. Told(x)'
  BY <1>3, <1>7, SameTold
<1>9. x.outcome = "set" => Settled(x.st.cursor)'
  <2>1. exec[e].outcome = "set" => Settled(exec[e].st.cursor)
    BY <1>1, <1>2 DEF Placed, Finishing
  <2>. QED
    BY <1>2, <1>3, <1>7, <2>1, SettledKept DEF Settled
<1>10. Placed(x)'
  BY <1>1, <1>7, <1>9 DEF Placed, Looping, Attempting, Finishing
<1>11. Counted(x)
  BY <1>2, <1>7 DEF Counted, Looping, Attempting
<1>. QED
  BY <1>1, <1>3, <1>4, <1>5, <1>7, <1>8, <1>10, <1>11, ExecSteps

\* What an execution publishes is a result, and tells the stored items.
LEMMA PublishedOK ==
  ASSUME IInv, NEW e \in Execution, exec[e].pc \in Finishing
  PROVE  /\ Published(e) \in [kind: {"none", "rejected_insufficient"} \cup SetStatus,
                              items: Seq(ItemResult)]
         /\ Published(e) # NoResult
         /\ Published(e).kind \in SetStatus =>
                \E n \in 1..Count : /\ Settled(n) /\ Published(e).kind = set
                                    /\ Published(e).items = Prefix(n)
<1>1. exec[e] \in Exec /\ Told(exec[e]) /\ Placed(exec[e]) /\ TypeOK
  BY DEF IInv, TypeOK, ExecInv
<1>2. CASE exec[e].outcome = "rejected"
  <2>1. Published(e) = Rejected
    BY <1>2 DEF Published
  <2>2. Rejected.kind = "rejected_insufficient" /\ Rejected.items = <<>>
        /\ NoResult.kind = "none"
    BY DEF Rejected, NoResult
  <2>3. Rejected \in [kind: {"none", "rejected_insufficient"} \cup SetStatus,
                      items: Seq(ItemResult)]
    BY DEF Rejected
  <2>. QED
    BY <2>1, <2>2, <2>3 DEF SetStatus
<1>3. CASE exec[e].outcome # "rejected"
  <2>1. exec[e].outcome = "set"
    BY <1>1, <1>3 DEF Exec
  <2>2. PICK n : n = exec[e].st.cursor /\ Settled(n)
    BY <1>1, <2>1 DEF Placed
  <2>3. n \in 1..Count /\ exec[e].st.items = Prefix(n)
    BY <1>1, <2>2, ToldPrefix DEF Settled, Final
  <2>4. Published(e) = [kind |-> StatusOf(exec[e].st.items), items |-> exec[e].st.items]
    BY <1>3 DEF Published
  <2>5. StatusOf(exec[e].st.items) \in SetStatus
    BY StatusOfType
  <2>6. exec[e].st.items \in Seq(ItemResult)
    BY <1>1 DEF Exec, State
  <2>7. Published(e).kind = set /\ Published(e).items = Prefix(n)
    BY <2>2, <2>3, <2>4 DEF Settled
  <2>8. Published(e).kind # NoResult.kind
    BY <2>4, <2>5 DEF SetStatus, NoResult
  <2>. QED
    BY <2>2, <2>3, <2>4, <2>5, <2>6, <2>7, <2>8
<1>. QED
  BY <1>2, <1>3

\* The result is put, found, or found to be another one.
LEMMA PutResultKeeps == ASSUME IInv, NEW e \in Execution, PutResult(e) PROVE IInv'
<1>1. /\ exec[e].pc = "publishing" /\ exec[e].pc # "idle" /\ UNCHANGED <<job, live>>
      /\ UNCHANGED <<run, set, candidates, items, thread>>
  BY DEF PutResult
<1>2. exec[e] \in Exec /\ Told(exec[e]) /\ Placed(exec[e]) /\ Counted(exec[e]) /\ TypeOK
  BY DEF IInv, TypeOK, ExecInv
<1>3. /\ Published(e) \in [kind: {"none", "rejected_insufficient"} \cup SetStatus,
                           items: Seq(ItemResult)]
      /\ Published(e) # NoResult
      /\ Published(e).kind \in SetStatus =>
            \E n \in 1..Count : /\ Settled(n) /\ Published(e).kind = set
                                /\ Published(e).items = Prefix(n)
  BY <1>1, PublishedOK DEF Finishing
<1>4. run = "finalized"
  BY <1>1, <1>2 DEF Placed
<1>5. CASE result' = Published(e) /\ Goto(e, "published") /\ result \in {NoResult, Published(e)}
  <2>1. StoreGrows
    BY <1>1, <1>5 DEF StoreGrows
  <2>2. StoreTypes'
    BY <1>1, <1>3, <1>5 DEF IInv, TypeOK, StoreTypes
  <2>3. \A n : Prefix(n)' = Prefix(n) /\ (Settled(n)' <=> Settled(n))
    BY <1>1 DEF Prefix, Final, Settled
  <2>4. ItemsInv' /\ CandidateInv' /\ SetInv'
    BY <1>1, <2>3 DEF IInv, StoreInv, ItemsInv, CandidateInv, SetInv, Releasable
  <2>5. ResultInv'
    BY <1>1, <1>3, <1>4, <1>5, <2>3 DEF ResultInv
  <2>6. "published" \in PC
    BY DEF PC
  <2>7. PICK x \in Exec :
          /\ exec' = [exec EXCEPT ![e] = x]
          /\ x.pc = "published" /\ x.st = exec[e].st /\ x.steps = exec[e].steps
          /\ x.outcome = exec[e].outcome
    BY <1>2, <1>5, <2>6, GotoExec
  <2>8. Told(x)'
    BY <2>1, <2>7, SameTold
  <2>9. x.outcome = "set" => Settled(x.st.cursor)'
    <3>1. exec[e].outcome = "set" => Settled(exec[e].st.cursor)
      BY <1>1, <1>2 DEF Placed, Finishing
    <3>. QED
      BY <2>3, <2>7, <3>1
  <2>10. Placed(x)'
    BY <1>1, <1>3, <1>4, <1>5, <2>7, <2>9 DEF Placed, Looping, Attempting, Finishing
  <2>11. Counted(x)
    BY <1>2, <2>7 DEF Counted, Looping, Attempting
  <2>12. StoreInv'
    BY <2>4, <2>5 DEF StoreInv
  <2>. QED
    BY <1>1, <2>1, <2>2, <2>7, <2>8, <2>10, <2>11, <2>12, ExecSteps
<1>6. CASE Raise(e, "conflict") /\ UNCHANGED result
  <2>1. StoreGrows /\ StoreTypes' /\ StoreInv'
    BY <1>1, <1>6, StoresSame DEF stores
  <2>. QED
    BY <1>1, <1>6, <2>1, RaiseSteps
<1>. QED
  BY <1>5, <1>6 DEF PutResult

\* supervisor.succeed is accepted or refused.
LEMMA SucceedKeeps == ASSUME IInv, NEW e \in Execution, Succeed(e) PROVE IInv'
<1>1. /\ exec[e].pc = "published" /\ exec[e].pc # "idle"
      /\ UNCHANGED live /\ UNCHANGED stores
  BY DEF Succeed
<1>2. result # NoResult
  BY <1>1 DEF IInv, ExecInv, Placed
<1>3. CASE Owns(e) /\ job' = [job EXCEPT !.phase = "succeeded"] /\ Leave(e)
  <2>1. job.phase \in Active /\ exec' = [exec EXCEPT ![e] = Gone]
    BY <1>3 DEF Owns, Leave
  <2>. QED
    BY <1>1, <1>2, <1>3, <2>1, GonePlaced, ReportKeeps
<1>4. CASE Raise(e, "other") /\ UNCHANGED job
  <2>1. StoreGrows /\ StoreTypes' /\ StoreInv'
    BY <1>1, StoresSame
  <2>. QED
    BY <1>1, <1>4, <2>1, RaiseSteps
<1>. QED
  BY <1>3, <1>4 DEF Succeed
-----------------------------------------------------------------------------
(* The nodes of the graph.                                                 *)

\* The node that procures the source does not touch the slots.
LEMMA ProcureSourceKeeps == ASSUME IInv, NEW e \in Execution, ProcureSource(e) PROVE IInv'
<1>1. /\ exec[e].pc = "procure_source" /\ exec[e].pc # "idle" /\ UNCHANGED <<job, live>>
      /\ UNCHANGED <<run, set, candidates, items, result>>
  BY DEF ProcureSource
<1>2. exec[e] \in Exec /\ Told(exec[e]) /\ Placed(exec[e]) /\ Counted(exec[e]) /\ TypeOK
  BY DEF IInv, TypeOK, ExecInv
<1>3. exec[e].st \in State /\ exec[e].st.items = <<>> /\ exec[e].st.attempt = 0
      /\ exec[e].st.cursor = 0 /\ exec[e].steps = 0
  BY <1>1, <1>2 DEF Exec, Placed, Told, Counted
<1>4. ASSUME NEW st \in State, Advance(e, st, "begin_attempt"),
             st.items = <<>>, st.attempt = 0, st.cursor = 0
      PROVE  IInv'
  <2>1. "begin_attempt" \in PC
    BY DEF PC
  <2>2. thread' \in [stop: StopReason, fallback: 0..Limit, source: BOOLEAN]
    BY <1>2, <1>4, <2>1, AdvanceExec
  <2>3. StoreGrows /\ StoreTypes' /\ StoreInv'
    BY <1>1, <2>2, RowsSame
  <2>4. ASSUME NEW x \in Exec, x.pc = "begin_attempt", x.st = st,
               x.steps = exec[e].steps + 1, ValidState(st)
        PROVE  Told(x)' /\ Placed(x)' /\ Counted(x)
    <3>1. Told(x)'
      BY <1>4, <2>4 DEF Told
    <3>2. st.fallback = NoAttempt
      BY <1>4, <2>4 DEF ValidState
    <3>3. Placed(x)'
      BY <2>4, <3>2 DEF Placed, Looping, Attempting, Finishing
    <3>4. x.steps = 1 /\ 1 <= GraphRecursionLimit
      BY <1>3, <2>4, LimitBounds, ProblemAssumption
    <3>5. Limit * x.st.cursor = 0
      BY <1>4, <2>4, ProblemAssumption
    <3>6. Counted(x)
      BY <1>4, <2>4, <3>4, <3>5 DEF Counted, Attempting
    <3>. QED
      BY <3>1, <3>3, <3>6
  <2>. QED
    BY <1>1, <1>4, <2>1, <2>3, <2>4, AdvanceSteps
<1>5. CASE Raise(e, "other") /\ UNCHANGED thread
  <2>1. StoreGrows /\ StoreTypes' /\ StoreInv'
    BY <1>1, <1>5, StoresSame DEF stores
  <2>. QED
    BY <1>1, <1>5, <2>1, RaiseSteps
<1>6. CASE Advance(e, exec[e].st, "begin_attempt")
  BY <1>3, <1>4, <1>6
<1>7. CASE Advance(e, [exec[e].st EXCEPT !.source = TRUE], "begin_attempt")
  <2>1. PICK st : st = [exec[e].st EXCEPT !.source = TRUE]
    OBVIOUS
  <2>2. st \in State /\ st.items = <<>> /\ st.attempt = 0 /\ st.cursor = 0
    BY <1>3, <2>1 DEF State
  <2>. QED
    BY <1>4, <1>7, <2>1, <2>2
<1>8. CASE Reject(e) /\ UNCHANGED thread
  <2>1. PICK x \in Exec :
          /\ exec' = [exec EXCEPT ![e] = x]
          /\ x.pc = "finalizing_run" /\ x.st = exec[e].st /\ x.steps = exec[e].steps
          /\ x.outcome = "rejected"
    BY <1>2, <1>8, RejectExec
  <2>2. StoreGrows /\ StoreTypes' /\ StoreInv'
    BY <1>1, <1>8, StoresSame DEF stores
  <2>3. Told(x)'
    BY <2>1, <2>2, SameTold
  <2>4. Placed(x)'
    BY <2>1 DEF Placed, Looping, Attempting, Finishing
  <2>5. Counted(x)
    BY <1>2, <2>1 DEF Counted, Looping, Attempting
  <2>. QED
    BY <1>1, <2>1, <2>2, <2>3, <2>4, <2>5, ExecSteps
<1>. QED
  BY <1>5, <1>6, <1>7, <1>8 DEF ProcureSource

\* A state with the same slots knows no less of the set.
LEMMA AlikeTold ==
  ASSUME IInv, NEW e \in Execution, StoreGrows, NEW x \in Exec,
         x.st.cursor = exec[e].st.cursor, x.st.items = exec[e].st.items,
         x.st.stop = exec[e].st.stop
  PROVE  Told(x)'
<1>1. Told(exec[e])
  BY DEF IInv, ExecInv
<1>2. Told(x)
  BY <1>1 DEF Told
<1>. QED
  BY <1>2, ToldKept DEF IInv

\* An attempt begins: one more node, one more attempt.
LEMMA Begins ==
  ASSUME IInv, NEW e \in Execution, exec[e].pc \in Looping \ Attempting, NEW st \in State,
         st.cursor = exec[e].st.cursor, st.items = exec[e].st.items,
         st.stop = exec[e].st.stop, st.fallback = exec[e].st.fallback,
         st.attempt = exec[e].st.attempt + 1,
         Advance(e, st, "run_attempt"), UNCHANGED <<job, live>>,
         UNCHANGED <<run, set, candidates, items, result>>
  PROVE  IInv'
<1>1. exec[e].pc # "idle" /\ "run_attempt" \in PC
  BY DEF Looping, PC
<1>2. exec[e] \in Exec /\ Told(exec[e]) /\ Placed(exec[e]) /\ Counted(exec[e]) /\ TypeOK
  BY DEF IInv, TypeOK, ExecInv
<1>3. thread' \in [stop: StopReason, fallback: 0..Limit, source: BOOLEAN]
  BY <1>1, <1>2, AdvanceExec
<1>4. StoreGrows /\ StoreTypes' /\ StoreInv'
  BY <1>3, RowsSame
<1>5. exec[e].st \in State
  BY <1>2 DEF Exec
<1>6. ASSUME NEW x \in Exec, x.pc = "run_attempt", x.st = st,
             x.steps = exec[e].steps + 1, ValidState(st)
      PROVE  Told(x)' /\ Placed(x)' /\ Counted(x)
  <2>1. Told(x)'
    BY <1>4, <1>6, AlikeTold
  <2>2. exec[e].st.attempt \in Nat /\ st.attempt # 0
    <3>1. exec[e].st.attempt \in 0..Limit
      BY <1>5, StateFields
    <3>. QED
      BY <3>1, ProblemAssumption
  <2>3. st.cursor \in Slot /\ st.attempt \in Attempt /\ ~IsTerminal(st)
    BY <1>6, <2>2, InSlot DEF ValidState
  <2>4. st.fallback # NoAttempt => candidates[st.cursor][st.fallback] # NoDistance
    BY <1>2 DEF Placed
  <2>5. Placed(x)'
    BY <1>6, <2>2, <2>3, <2>4 DEF Placed, Looping, Attempting, Finishing
  <2>6. exec[e].steps <= 1 + 2 * (Limit * st.cursor) + 2 * exec[e].st.attempt
    BY <1>2 DEF Counted
  <2>7. Limit * st.cursor \in Nat /\ 2 * (Limit * st.cursor) + 2 * Limit <= GraphRecursionLimit
    BY <2>3, LimitBounds, ProblemAssumption DEF Slot
  <2>8. exec[e].steps \in Nat
    BY <1>2 DEF Exec
  <2>9. x.steps <= 2 * (Limit * st.cursor) + 2 * st.attempt
    BY <1>6, <2>2, <2>6, <2>7, <2>8
  <2>10. x.steps <= GraphRecursionLimit
    BY <1>6, <2>3, <2>7, <2>8, <2>9, LimitBounds, ProblemAssumption DEF Attempt
  <2>11. Counted(x)
    BY <1>6, <2>9, <2>10 DEF Counted, Looping, Attempting
  <2>. QED
    BY <2>1, <2>5, <2>11
<1>. QED
  BY <1>1, <1>4, <1>6, AdvanceSteps

\* A node of the graph raises without a store call.
LEMMA NodeRaises ==
  ASSUME IInv, NEW e \in Execution, exec[e].pc # "idle", NEW c \in Cause, Raise(e, c),
         UNCHANGED <<job, live>>, UNCHANGED stores
  PROVE  IInv'
<1>1. StoreGrows /\ StoreTypes' /\ StoreInv'
  BY StoresSame
<1>. QED
  BY <1>1, RaiseSteps

\* begin_attempt.
LEMMA BeginAttemptKeeps == ASSUME IInv, NEW e \in Execution, BeginAttempt(e) PROVE IInv'
<1>1. /\ exec[e].pc = "begin_attempt" /\ UNCHANGED <<job, live>>
      /\ UNCHANGED <<run, set, candidates, items, result>>
  BY DEF BeginAttempt
<1>2. exec[e].pc # "idle" /\ exec[e].pc \in Looping \ Attempting
  BY <1>1 DEF Looping, Attempting
<1>3. CASE Raise(e, "other") /\ UNCHANGED thread
  <2>1. UNCHANGED stores /\ "other" \in Cause
    BY <1>1, <1>3 DEF stores
  <2>. QED
    BY <1>1, <1>2, <1>3, <2>1, NodeRaises
<1>4. CASE /\ exec[e].st.attempt < Limit
           /\ Advance(e, [exec[e].st EXCEPT !.attempt = @ + 1], "run_attempt")
  <2>1. exec[e].st \in State
    BY DEF IInv, TypeOK, Exec
  <2>2. PICK st : st = [exec[e].st EXCEPT !.attempt = @ + 1]
    OBVIOUS
  <2>3. exec[e].st.attempt + 1 \in 0..Limit
    <3>1. exec[e].st.attempt \in 0..Limit
      BY <2>1, StateFields
    <3>. QED
      BY <1>4, <3>1, ProblemAssumption
  <2>4. /\ st \in State
        /\ st.cursor = exec[e].st.cursor /\ st.items = exec[e].st.items
        /\ st.stop = exec[e].st.stop /\ st.fallback = exec[e].st.fallback
        /\ st.attempt = exec[e].st.attempt + 1
    BY <2>1, <2>2, <2>3 DEF State
  <2>. QED
    BY <1>1, <1>2, <1>4, <2>2, <2>4, Begins
<1>5. exec[e].st.attempt \in Int /\ Limit \in Int
  BY ProblemAssumption DEF IInv, TypeOK, Exec, State
<1>. QED
  BY <1>3, <1>4, <1>5 DEF BeginAttempt

\* begin_difficulty_regen.
LEMMA BeginRegenKeeps == ASSUME IInv, NEW e \in Execution, BeginDifficultyRegen(e) PROVE IInv'
<1>1. /\ exec[e].pc = "begin_difficulty_regen" /\ UNCHANGED <<job, live>>
      /\ UNCHANGED <<run, set, candidates, items, result>>
  BY DEF BeginDifficultyRegen
<1>2. exec[e].pc # "idle" /\ exec[e].pc \in Looping \ Attempting
  BY <1>1 DEF Looping, Attempting
<1>3. CASE Raise(e, "other") /\ UNCHANGED thread
  <2>1. UNCHANGED stores /\ "other" \in Cause
    BY <1>1, <1>3 DEF stores
  <2>. QED
    BY <1>1, <1>2, <1>3, <2>1, NodeRaises
<1>4. CASE /\ exec[e].st.attempt < Limit
           /\ Advance(e, [exec[e].st EXCEPT !.attempt = @ + 1, !.regen = TRUE], "run_attempt")
  <2>1. exec[e].st \in State
    BY DEF IInv, TypeOK, Exec
  <2>2. PICK st : st = [exec[e].st EXCEPT !.attempt = @ + 1, !.regen = TRUE]
    OBVIOUS
  <2>3. exec[e].st.attempt + 1 \in 0..Limit
    <3>1. exec[e].st.attempt \in 0..Limit
      BY <2>1, StateFields
    <3>. QED
      BY <1>4, <3>1, ProblemAssumption
  <2>4. /\ st \in State
        /\ st.cursor = exec[e].st.cursor /\ st.items = exec[e].st.items
        /\ st.stop = exec[e].st.stop /\ st.fallback = exec[e].st.fallback
        /\ st.attempt = exec[e].st.attempt + 1
    BY <2>1, <2>2, <2>3 DEF State
  <2>. QED
    BY <1>1, <1>2, <1>4, <2>2, <2>4, Begins
<1>5. exec[e].st.attempt \in Int /\ Limit \in Int
  BY ProblemAssumption DEF IInv, TypeOK, Exec, State
<1>. QED
  BY <1>3, <1>4, <1>5 DEF BeginDifficultyRegen

\* Where an execution is that works on an attempt.
LEMMA AttemptFacts ==
  ASSUME IInv, NEW e \in Execution, exec[e].pc \in Attempting
  PROVE  /\ exec[e] \in Exec /\ exec[e].st \in State /\ exec[e].pc # "idle"
         /\ Told(exec[e]) /\ Placed(exec[e]) /\ TypeOK
         /\ exec[e].st.cursor \in Slot /\ exec[e].st.attempt \in Attempt
         /\ ~IsTerminal(exec[e].st) /\ exec[e].steps \in Nat
         /\ exec[e].steps <= 2 * (Limit * exec[e].st.cursor) + 2 * exec[e].st.attempt
<1>1. /\ exec[e] \in Exec /\ Told(exec[e]) /\ Placed(exec[e]) /\ Counted(exec[e]) /\ TypeOK
      /\ exec[e].pc # "idle"
  BY DEF IInv, TypeOK, ExecInv, Attempting
<1>2. exec[e].st \in State /\ exec[e].steps \in Nat
  BY <1>1 DEF Exec
<1>3. exec[e].pc \in Looping
  BY DEF Looping
<1>4. ValidState(exec[e].st) /\ exec[e].st.attempt # 0 /\ ~IsTerminal(exec[e].st)
  BY <1>1, <1>3 DEF Placed
<1>5. exec[e].st.cursor \in Slot /\ exec[e].st.attempt \in Attempt
  BY <1>2, <1>4, InSlot
<1>6. exec[e].steps <= 2 * (Limit * exec[e].st.cursor) + 2 * exec[e].st.attempt
  BY <1>1 DEF Counted
<1>. QED
  BY <1>1, <1>2, <1>4, <1>5, <1>6

\* An attempt ends and its slot goes on, with or without a fallback.
LEMMA Continues ==
  ASSUME IInv, NEW e \in Execution, exec[e].pc \in Attempting, NEW st \in State,
         st.cursor = exec[e].st.cursor, st.items = exec[e].st.items,
         st.stop = exec[e].st.stop, st.attempt = exec[e].st.attempt,
         st.fallback # NoAttempt => candidates'[st.cursor][st.fallback] # NoDistance,
         Advance(e, st, RouteAfterAttempt(st)), UNCHANGED <<job, live>>,
         StoreGrows, StoreTypes', StoreInv'
  PROVE  IInv'
<1>1. /\ exec[e] \in Exec /\ exec[e].st \in State /\ exec[e].pc # "idle"
      /\ exec[e].st.cursor \in Slot /\ exec[e].st.attempt \in Attempt
      /\ ~IsTerminal(exec[e].st) /\ exec[e].steps \in Nat
      /\ exec[e].steps <= 2 * (Limit * exec[e].st.cursor) + 2 * exec[e].st.attempt
  BY AttemptFacts
<1>2. ~IsTerminal(st)
  BY <1>1 DEF IsTerminal
<1>3. PICK pc \in Looping \ Attempting : pc = RouteAfterAttempt(st)
  BY <1>2 DEF RouteAfterAttempt, Looping, Attempting
<1>4. pc \in PC
  BY DEF PC, Looping, Attempting
<1>5. ASSUME NEW x \in Exec, x.pc = pc, x.st = st,
             x.steps = exec[e].steps + 1, ValidState(st)
      PROVE  Told(x)' /\ Placed(x)' /\ Counted(x)
  <2>1. Told(x)'
    BY <1>5, AlikeTold
  <2>2. Placed(x)'
    BY <1>3, <1>5 DEF Placed, Looping, Attempting, Finishing
  <2>3. Limit * st.cursor \in Nat /\ 2 * (Limit * st.cursor) + 2 * Limit + 3 <= GraphRecursionLimit
    BY <1>1, LimitBounds, ProblemAssumption DEF Slot
  <2>4. x.steps <= 1 + 2 * (Limit * st.cursor) + 2 * st.attempt
    BY <1>1, <1>5, <2>3, ProblemAssumption DEF Attempt
  <2>5. x.steps <= GraphRecursionLimit
    BY <1>1, <1>5, <2>3, <2>4, LimitBounds, ProblemAssumption DEF Attempt
  <2>6. Counted(x)
    BY <1>3, <1>5, <2>4, <2>5 DEF Counted, Looping, Attempting
  <2>. QED
    BY <2>1, <2>2, <2>6
<1>. QED
  BY <1>1, <1>3, <1>4, <1>5, AdvanceSteps

\* The state after a slot is complete.
LEMMA CompletedFacts ==
  ASSUME NEW st \in State, st.cursor \in Slot, NEW item \in ItemResult
  PROVE  LET next == Completed(st, item)
         IN  /\ next \in State
             /\ next.cursor = st.cursor + 1 /\ next.items = Append(st.items, item)
             /\ next.attempt = 0 /\ next.fallback = NoAttempt
             /\ next.stop = StopReasonOf(next.items)
<1> DEFINE results == Append(st.items, item)
           next == [st EXCEPT !.cursor = @ + 1, !.items = results, !.attempt = 0,
                              !.fallback = NoAttempt, !.regen = FALSE,
                              !.stop = StopReasonOf(results)]
<1>1. st.items \in Seq(ItemResult)
  BY StateFields
<1>2. results \in Seq(ItemResult)
  BY <1>1
<1>3. st.cursor + 1 \in 0..Count /\ 0 \in 0..Limit
  BY ProblemAssumption DEF Slot
<1>4. StopReasonOf(results) \in StopReason
  BY StopReasonType
<1>5. Completed(st, item) = next
  BY DEF Completed
<1>. HIDE DEF results
<1>6. next \in State
  BY <1>2, <1>3, <1>4 DEF State
<1>7. /\ next.cursor = st.cursor + 1 /\ next.items = results
      /\ next.attempt = 0 /\ next.fallback = NoAttempt
      /\ next.stop = StopReasonOf(results)
  BY DEF State
<1>8. results = Append(st.items, item)
  BY DEF results
<1>. QED
  BY <1>5, <1>6, <1>7, <1>8

\* A count that is within twice the attempts made is within twice the attempts allowed.
LEMMA TwiceBound ==
  ASSUME NEW k \in Nat, NEW m \in Nat, NEW a \in Nat, NEW l \in Nat,
         k <= 2 * m + 2 * a, a <= l
  PROVE  k <= 2 * m + 2 * l
  OBVIOUS

\* A slot is complete: its item is in the store.
LEMMA Completes ==
  ASSUME IInv, NEW e \in Execution, exec[e].pc \in Attempting, NEW item \in ItemResult,
         CompleteSlot(e, item), UNCHANGED <<job, live>>,
         StoreGrows, StoreTypes', StoreInv', items'[exec[e].st.cursor] = item
  PROVE  IInv'
<1>1. /\ exec[e] \in Exec /\ exec[e].st \in State /\ exec[e].pc # "idle"
      /\ Told(exec[e]) /\ TypeOK
      /\ exec[e].st.cursor \in Slot /\ exec[e].st.attempt \in Attempt
      /\ ~IsTerminal(exec[e].st) /\ exec[e].steps \in Nat
      /\ exec[e].steps <= 2 * (Limit * exec[e].st.cursor) + 2 * exec[e].st.attempt
  BY AttemptFacts
<1>2. PICK c \in Slot : c = exec[e].st.cursor
  BY <1>1
<1>3. PICK r \in Seq(ItemResult) : r = exec[e].st.items
  BY <1>1, StateFields
<1>4. PICK next : next = Completed(exec[e].st, item)
  OBVIOUS
<1>5. /\ next \in State
      /\ next.cursor = c + 1 /\ next.items = Append(r, item)
      /\ next.attempt = 0 /\ next.fallback = NoAttempt
      /\ next.stop = StopReasonOf(next.items)
  BY <1>1, <1>2, <1>3, <1>4, CompletedFacts
<1>6. Len(r) = c /\ \A i \in 1..c : r[i] = items'[i - 1]
  <2>1. PICK y \in Exec : y = exec[e]
    BY <1>1
  <2>2. Told(y)'
    BY <1>1, <2>1, ToldKept
  <2>. QED
    BY <1>2, <1>3, <2>1, <2>2 DEF Told
<1>7. c \in 0..Count - 1 /\ Limit \in Nat /\ Count \in Nat
  BY ProblemAssumption DEF Slot
<1>8. /\ Len(next.items) = c + 1 /\ next.items \in Seq(ItemResult)
      /\ \A i \in 1..c + 1 : next.items[i] \in ItemResult /\ next.items[i] = items'[i - 1]
  <2>1. Len(next.items) = c + 1 /\ next.items \in Seq(ItemResult)
    BY <1>5, <1>6
  <2>2. ASSUME NEW i \in 1..c + 1
        PROVE  next.items[i] \in ItemResult /\ next.items[i] = items'[i - 1]
    <3>1. CASE i = c + 1
      <4>1. next.items[i] = item
        BY <1>3, <1>5, <1>6, <3>1
      <4>. QED
        BY <1>2, <1>7, <3>1, <4>1
    <3>2. CASE i # c + 1
      <4>1. i \in 1..c
        BY <1>7, <3>2
      <4>2. next.items[i] = r[i]
        BY <1>3, <1>5, <1>6, <4>1
      <4>. QED
        BY <1>3, <1>6, <4>1, <4>2
    <3>. QED
      BY <3>1, <3>2
  <2>. QED
    BY <2>1, <2>2
<1>9. IsTerminal(next) => Final(c + 1)'
  <2>. HAVE IsTerminal(next)
  <2>1. next.items = [i \in 1..c + 1 |-> next.items[i]]
    BY <1>8
  <2>2. next.items = Prefix(c + 1)'
    BY <1>8, <2>1 DEF Prefix
  <2>3. \A i \in 1..c + 1 : items'[i - 1] # NoItem
    BY <1>8, NoItemApart
  <2>4. c + 1 = Count \/ StopReasonOf(next.items) # "none"
    BY <1>5 DEF IsTerminal
  <2>5. c + 1 \in 1..Count
    BY <1>7
  <2>. QED
    BY <2>2, <2>3, <2>4, <2>5 DEF Final
<1>10. PICK pc \in {"finalizing_set", "begin_attempt"} :
        pc = RouteAfterAttempt(next) /\ (pc = "finalizing_set" => IsTerminal(next))
  BY <1>5 DEF RouteAfterAttempt
<1>11. pc \in PC /\ Advance(e, next, pc)
  BY <1>4, <1>10 DEF PC, CompleteSlot
<1>12. ASSUME NEW x \in Exec, x.pc = pc, x.st = next,
              x.steps = exec[e].steps + 1, ValidState(next)
       PROVE  Told(x)' /\ Placed(x)' /\ Counted(x)
  <2>1. Told(x)'
    BY <1>5, <1>8, <1>12 DEF Told
  <2>2. Placed(x)'
    BY <1>5, <1>9, <1>10, <1>12 DEF Placed, Looping, Attempting, Finishing
  <2>3. PICK m \in Nat : m = Limit * c
    BY <1>7, LimitBounds
  <2>4. exec[e].st.attempt <= Limit /\ exec[e].st.attempt \in Nat
    BY <1>1, <1>7 DEF Attempt
  <2>5. exec[e].steps <= 2 * m + 2 * Limit
    <3>1. PICK a \in Nat : a = exec[e].st.attempt /\ a <= Limit
      BY <2>4
    <3>2. PICK k \in Nat : k = exec[e].steps
      BY <1>1
    <3>3. k <= 2 * m + 2 * a
      BY <1>1, <1>2, <2>3, <3>1, <3>2
    <3>. QED
      BY <1>7, <3>1, <3>2, <3>3, TwiceBound
  <2>6. Limit * next.cursor = m + Limit /\ 2 * m + 2 * Limit + 3 <= GraphRecursionLimit
    <3>1. Limit * (c + 1) = Limit * c + Limit /\ Limit * c + Limit <= Limit * Count
      BY <1>7, LimitBounds
    <3>2. PICK n \in Nat : n = Limit * Count
      BY <1>7
    <3>3. m + Limit <= n /\ Limit * next.cursor = m + Limit
      BY <1>5, <2>3, <3>1, <3>2
    <3>4. 2 * n + 3 <= GraphRecursionLimit /\ GraphRecursionLimit \in Nat
      BY <3>2, LimitBounds
    <3>5. 2 * m + 2 * Limit + 3 <= GraphRecursionLimit
      BY <1>7, <3>2, <3>3, <3>4
    <3>. QED
      BY <3>3, <3>5
  <2>7. x.steps <= 1 + 2 * (Limit * next.cursor) + 2 * next.attempt
    BY <1>1, <1>5, <1>7, <1>12, <2>5, <2>6
  <2>8. x.steps <= GraphRecursionLimit
    BY <1>1, <1>7, <1>12, <2>5, <2>6, LimitBounds
  <2>9. Counted(x)
    BY <1>10, <1>12, <2>7, <2>8 DEF Counted, Looping, Attempting
  <2>. QED
    BY <2>1, <2>2, <2>9
<1>. QED
  BY <1>1, <1>5, <1>11, <1>12, AdvanceSteps

\* run_attempt looks for the slot in the item store.
LEMMA RunAttemptKeeps == ASSUME IInv, NEW e \in Execution, RunAttempt(e) PROVE IInv'
<1>1. /\ exec[e].pc = "run_attempt" /\ UNCHANGED <<job, live>>
      /\ UNCHANGED <<run, set, candidates, items, result>>
  BY DEF RunAttempt
<1>2. exec[e].pc \in Attempting
  BY <1>1 DEF Attempting
<1>3. /\ exec[e] \in Exec /\ exec[e].st \in State /\ exec[e].pc # "idle"
      /\ Placed(exec[e]) /\ TypeOK /\ exec[e].st.cursor \in Slot
      /\ ~IsTerminal(exec[e].st) /\ exec[e].st.attempt \in Attempt
  BY <1>2, AttemptFacts
<1>4. PICK stored : stored = ExistingResult(exec[e].st)
  OBVIOUS
<1>5. stored = items[exec[e].st.cursor] /\ (stored # NoItem => stored \in ItemResult)
  BY <1>3, <1>4 DEF ExistingResult, TypeOK
<1>6. CASE Goto(e, "calling") /\ UNCHANGED thread
  <2>1. "calling" \in PC
    BY DEF PC
  <2>2. PICK x \in Exec :
          /\ exec' = [exec EXCEPT ![e] = x]
          /\ x.pc = "calling" /\ x.st = exec[e].st /\ x.steps = exec[e].steps
    BY <1>3, <1>6, <2>1, GotoExec
  <2>3. StoreGrows /\ StoreTypes' /\ StoreInv'
    BY <1>1, <1>6, StoresSame DEF stores
  <2>4. Told(x)'
    BY <2>2, <2>3, SameTold
  <2>5. Placed(x)'
    BY <1>1, <1>3, <2>2 DEF Placed, Looping, Attempting, Finishing
  <2>6. Counted(exec[e])
    BY DEF IInv, ExecInv
  <2>7. Counted(x)
    BY <1>1, <2>2, <2>6 DEF Counted, Looping, Attempting
  <2>. QED
    BY <1>1, <1>3, <2>2, <2>3, <2>4, <2>5, <2>7, ExecSteps
<1>7. CASE Retry(e)
  <2>1. Advance(e, exec[e].st, RouteAfterAttempt(exec[e].st))
    BY <1>7 DEF Retry
  <2>2. RouteAfterAttempt(exec[e].st) \in PC
    BY DEF RouteAfterAttempt, PC
  <2>3. thread' \in [stop: StopReason, fallback: 0..Limit, source: BOOLEAN]
    BY <1>3, <2>1, <2>2, AdvanceExec
  <2>4. StoreGrows /\ StoreTypes' /\ StoreInv'
    BY <1>1, <2>3, RowsSame
  <2>5. exec[e].st.fallback # NoAttempt =>
            candidates'[exec[e].st.cursor][exec[e].st.fallback] # NoDistance
    BY <1>1, <1>3 DEF Placed, Looping, Attempting
  <2>. QED
    BY <1>1, <1>2, <1>3, <2>1, <2>4, <2>5, Continues
<1>8. CASE stored # NoItem /\ CompleteSlot(e, stored)
  <2>1. PICK st : st = Completed(exec[e].st, stored)
    OBVIOUS
  <2>2. st \in State /\ Advance(e, st, RouteAfterAttempt(st))
    BY <1>3, <1>5, <1>8, <2>1, CompletedFacts DEF CompleteSlot
  <2>3. RouteAfterAttempt(st) \in PC
    BY DEF RouteAfterAttempt, PC
  <2>4. thread' \in [stop: StopReason, fallback: 0..Limit, source: BOOLEAN]
    BY <1>3, <2>2, <2>3, AdvanceExec
  <2>5. StoreGrows /\ StoreTypes' /\ StoreInv'
    BY <1>1, <2>4, RowsSame
  <2>6. items'[exec[e].st.cursor] = stored
    BY <1>1, <1>5
  <2>. QED
    BY <1>1, <1>2, <1>5, <1>8, <2>5, <2>6, Completes
<1>. QED
  BY <1>4, <1>6, <1>7, <1>8 DEF RunAttempt

\* An attempt has an item to save.
LEMMA Holds ==
  ASSUME IInv, NEW e \in Execution, exec[e].pc \in Attempting, NEW item \in ItemResult,
         Hold(e, item), UNCHANGED <<job, live>>,
         StoreGrows, StoreTypes', StoreInv',
         NEW c \in Slot, c = exec[e].st.cursor,
         item.status \in Success => Releasable(c, item)',
         exec[e].st.fallback # NoAttempt => candidates'[c][exec[e].st.fallback] # NoDistance
  PROVE  IInv'
<1>1. /\ exec[e].pc # "idle" /\ Placed(exec[e]) /\ TypeOK
      /\ ~IsTerminal(exec[e].st) /\ exec[e].st.attempt \in Attempt
  BY AttemptFacts
<1>2. PICK x \in Exec :
        /\ exec' = [exec EXCEPT ![e] = x]
        /\ x.pc = "saving" /\ x.st = exec[e].st /\ x.steps = exec[e].steps /\ x.held = item
  BY <1>1, HoldExec
<1>3. Told(x)'
  BY <1>2, SameTold
<1>4. exec[e].st.attempt # 0 /\ ValidState(exec[e].st)
  BY <1>1 DEF Placed, Looping, Attempting
<1>5. item.status \in Success => Releasable(x.st.cursor, x.held)'
  BY <1>2
<1>6. Placed(x)'
  BY <1>1, <1>2, <1>4, <1>5 DEF Placed, Looping, Attempting, Finishing
<1>7. Counted(exec[e])
  BY DEF IInv, ExecInv
<1>8. Counted(x)
  BY <1>2, <1>7 DEF Counted, Looping, Attempting
<1>. QED
  BY <1>1, <1>2, <1>3, <1>6, <1>8, ExecSteps

\* An attempt fails.
LEMMA AttemptFailsKeeps ==
  ASSUME IInv, NEW e \in Execution, NEW f \in Fault, AttemptFails(e, f)
  PROVE  IInv'
<1>1. /\ exec[e].pc = "calling" /\ UNCHANGED <<job, live>>
      /\ UNCHANGED <<run, set, candidates, items, result>>
  BY DEF AttemptFails
<1>2. exec[e].pc \in Attempting
  BY <1>1 DEF Attempting
<1>3. /\ exec[e] \in Exec /\ exec[e].st \in State /\ exec[e].pc # "idle"
      /\ Placed(exec[e]) /\ TypeOK /\ exec[e].st.cursor \in Slot
      /\ exec[e].st.attempt \in Attempt
  BY <1>2, AttemptFacts
<1>. PICK c \in Slot : c = exec[e].st.cursor
  BY <1>3
<1>4. exec[e].st.fallback # NoAttempt => candidates[c][exec[e].st.fallback] # NoDistance
  BY <1>1, <1>3 DEF Placed, Looping, Attempting
<1>5. CASE exec[e].st.fallback # NoAttempt /\ RestoreFallback(e) /\ UNCHANGED thread
  <2>1. StoreGrows /\ StoreTypes' /\ StoreInv'
    BY <1>1, <1>5, StoresSame DEF stores
  <2>2. PICK b : b = exec[e].st.fallback
    OBVIOUS
  <2>3. b \in Attempt
    <3>1. b \in 0..Limit
      BY <1>3, <2>2, StateFields
    <3>. QED
      BY <1>5, <2>2, <3>1, ProblemAssumption DEF Attempt
  <2>4. PICK d : d = candidates[c][b] /\ d \in Distance /\ d # NoDistance
    BY <1>3, <1>4, <1>5, <2>2, <2>3 DEF TypeOK
  <2>5. PICK item : item = [status |-> "needs_review", attempt |-> b, distance |-> d]
    OBVIOUS
  <2>6. item \in ItemResult /\ Hold(e, item)
    BY <1>5, <2>2, <2>3, <2>4, <2>5 DEF RestoreFallback, ItemResult, ItemStatus, Success
  <2>7. Releasable(c, item)'
    <3>1. item.distance = d /\ item.attempt = b /\ item.status # "verified"
      BY <2>5
    <3>. QED
      BY <1>1, <2>4, <3>1 DEF Releasable
  <2>. QED
    BY <1>1, <1>2, <1>4, <2>1, <2>6, <2>7, Holds
<1>6. CASE Reject(e) /\ UNCHANGED thread
  <2>1. PICK x \in Exec :
          /\ exec' = [exec EXCEPT ![e] = x]
          /\ x.pc = "finalizing_run" /\ x.st = exec[e].st /\ x.steps = exec[e].steps
          /\ x.outcome = "rejected"
    BY <1>3, <1>6, RejectExec
  <2>2. StoreGrows /\ StoreTypes' /\ StoreInv'
    BY <1>1, <1>6, StoresSame DEF stores
  <2>3. Told(x)'
    BY <2>1, <2>2, SameTold
  <2>4. Placed(x)'
    BY <2>1 DEF Placed, Looping, Attempting, Finishing
  <2>5. Counted(exec[e])
    BY DEF IInv, ExecInv
  <2>6. Counted(x)
    BY <2>1, <2>5 DEF Counted, Looping, Attempting
  <2>. QED
    BY <1>1, <1>3, <2>1, <2>2, <2>3, <2>4, <2>6, ExecSteps
<1>7. CASE /\ Hold(e, [status |-> FaultStatus(f), attempt |-> exec[e].st.attempt,
                        distance |-> NoDistance])
           /\ UNCHANGED thread
  <2>1. StoreGrows /\ StoreTypes' /\ StoreInv'
    BY <1>1, <1>7, StoresSame DEF stores
  <2>2. PICK item : item = [status |-> FaultStatus(f), attempt |-> exec[e].st.attempt,
                            distance |-> NoDistance]
    OBVIOUS
  <2>3. FaultStatus(f) \in ItemStatus \ Success
    BY DEF FaultStatus, ItemStatus, Success
  <2>4. item \in ItemResult /\ item.status \notin Success /\ Hold(e, item)
    BY <1>3, <1>7, <2>2, <2>3 DEF ItemResult
  <2>. QED
    BY <1>1, <1>2, <1>4, <2>1, <2>4, Holds
<1>8. CASE Retry(e)
  <2>1. Advance(e, exec[e].st, RouteAfterAttempt(exec[e].st))
    BY <1>8 DEF Retry
  <2>2. RouteAfterAttempt(exec[e].st) \in PC
    BY DEF RouteAfterAttempt, PC
  <2>3. thread' \in [stop: StopReason, fallback: 0..Limit, source: BOOLEAN]
    BY <1>3, <2>1, <2>2, AdvanceExec
  <2>4. StoreGrows /\ StoreTypes' /\ StoreInv'
    BY <1>1, <2>3, RowsSame
  <2>. QED
    BY <1>1, <1>2, <1>3, <1>4, <2>1, <2>4, Continues
<1>. QED
  BY <1>5, <1>6, <1>7, <1>8 DEF AttemptFails

\* An item passes.
LEMMA AttemptPassesKeeps ==
  ASSUME IInv, NEW e \in Execution, NEW d \in Distance, AttemptPasses(e, d)
  PROVE  IInv'
<1>1. /\ exec[e].pc = "calling" /\ UNCHANGED <<job, live>> /\ UNCHANGED stores
      /\ exec' = [exec EXCEPT ![e].pc = "drawn", ![e].drawn = d]
  BY DEF AttemptPasses
<1>2. exec[e].pc \in Attempting
  BY <1>1 DEF Attempting
<1>3. exec[e] \in Exec /\ exec[e].pc # "idle" /\ Placed(exec[e]) /\ TypeOK
  BY <1>2, AttemptFacts
<1>4. PICK x : x = [exec[e] EXCEPT !.pc = "drawn", !.drawn = d]
  OBVIOUS
<1>5. x \in Exec /\ x.pc = "drawn" /\ x.st = exec[e].st /\ x.steps = exec[e].steps
  BY <1>3, <1>4 DEF Exec, PC
<1>6. exec' = [exec EXCEPT ![e] = x]
  BY <1>1, <1>4
<1>7. StoreGrows /\ StoreTypes' /\ StoreInv'
  BY <1>1, StoresSame
<1>8. Told(x)'
  BY <1>5, <1>7, SameTold
<1>9. Placed(x)'
  BY <1>1, <1>3, <1>5 DEF Placed, Looping, Attempting, Finishing, stores
<1>10. Counted(exec[e])
  BY DEF IInv, ExecInv
<1>11. Counted(x)
  BY <1>1, <1>5, <1>10 DEF Counted, Looping, Attempting
<1>. QED
  BY <1>1, <1>3, <1>5, <1>6, <1>7, <1>8, <1>9, <1>11, ExecSteps

\* The candidate of an attempt is stored, and released, kept as the fallback, or lost
\* to a nearer one.
LEMMA PutCandidateKeeps == ASSUME IInv, NEW e \in Execution, PutCandidate(e) PROVE IInv'
<1>. PICK c, a, d, b :
        /\ c = exec[e].st.cursor /\ a = exec[e].st.attempt
        /\ d = exec[e].drawn /\ b = exec[e].st.fallback
  OBVIOUS
<1>1. /\ exec[e].pc = "drawn" /\ UNCHANGED <<job, live>>
      /\ UNCHANGED <<run, set, items, result>>
  BY DEF PutCandidate
<1>2. exec[e].pc \in Attempting
  BY <1>1 DEF Attempting
<1>3. /\ exec[e] \in Exec /\ exec[e].st \in State /\ exec[e].pc # "idle"
      /\ Placed(exec[e]) /\ TypeOK /\ c \in Slot /\ a \in Attempt
  BY <1>2, AttemptFacts
<1>4. d \in Distance /\ d # NoDistance /\ d \in Nat
  <2>1. d \in Distance
    BY <1>3 DEF Exec
  <2>. QED
    BY <2>1, ProblemAssumption DEF Distance, NoDistance
<1>5. b # NoAttempt => b \in Attempt /\ candidates[c][b] # NoDistance
                       /\ candidates[c][b] \in Distance
  <2>. HAVE b # NoAttempt
  <2>1. b \in 0..Limit
    BY <1>3, StateFields
  <2>2. b \in Attempt
    BY <2>1, ProblemAssumption DEF Attempt
  <2>3. candidates[c][b] # NoDistance
    BY <1>1, <1>3 DEF Placed, Looping, Attempting
  <2>. QED
    BY <1>3, <2>2, <2>3 DEF TypeOK
<1>6. CASE Raise(e, "conflict") /\ UNCHANGED <<candidates, thread>>
  <2>1. UNCHANGED stores /\ "conflict" \in Cause
    BY <1>1, <1>6 DEF stores
  <2>. QED
    BY <1>1, <1>3, <1>6, <2>1, NodeRaises
<1>7. CASE /\ candidates[c][a] \in {NoDistance, d}
           /\ candidates' = [candidates EXCEPT ![c][a] = d]
           /\ ReleaseCandidate(e)
  <2>1. candidates \in [Slot -> [Attempt -> Distance \cup {NoDistance}]]
    BY <1>3 DEF TypeOK
  <2>2. /\ candidates' \in [Slot -> [Attempt -> Distance \cup {NoDistance}]]
        /\ candidates'[c][a] = d
        /\ \A s \in Slot, m \in Attempt :
                candidates[s][m] # NoDistance => candidates'[s][m] = candidates[s][m]
    BY <1>3, <1>4, <1>7, <2>1
  <2>3. StoreGrows
    BY <1>1, <2>2 DEF StoreGrows
  <2>4. StoreInv'
    BY <1>1, <2>3, StoresKept DEF IInv
  <2>5. b # NoAttempt => candidates'[c][b] # NoDistance /\ candidates'[c][b] = candidates[c][b]
    BY <1>3, <1>5, <2>2
  <2> DEFINE mismatch == RegenEnabled /\ d > 0
             drawn == [attempt |-> a, distance |-> d]
             chosen == IF mismatch /\ b # NoAttempt THEN Closer(c, b, drawn) ELSE drawn
  <2>6. CASE /\ mismatch /\ ~exec[e].st.regen /\ a < Limit
             /\ Advance(e, [exec[e].st EXCEPT !.fallback = a],
                        RouteAfterAttempt([exec[e].st EXCEPT !.fallback = a]))
    <3>1. PICK st : st = [exec[e].st EXCEPT !.fallback = a]
      OBVIOUS
    <3>2. a \in 0..Limit
      BY <1>3, StateFields
    <3>3. /\ st \in State
          /\ st.cursor = c /\ st.items = exec[e].st.items /\ st.stop = exec[e].st.stop
          /\ st.attempt = a /\ st.fallback = a
      BY <1>3, <3>1, <3>2 DEF State
    <3>4. Advance(e, st, RouteAfterAttempt(st)) /\ RouteAfterAttempt(st) \in PC
      BY <2>6, <3>1 DEF RouteAfterAttempt, PC
    <3>5. thread' \in [stop: StopReason, fallback: 0..Limit, source: BOOLEAN]
      BY <1>3, <3>3, <3>4, AdvanceExec
    <3>6. StoreTypes'
      BY <1>1, <1>3, <2>2, <3>5 DEF TypeOK, StoreTypes
    <3>7. candidates'[st.cursor][st.fallback] # NoDistance
      BY <1>4, <2>2, <3>3
    <3>. QED
      BY <1>1, <1>2, <2>3, <2>4, <3>3, <3>4, <3>6, <3>7, Continues
  <2>7. CASE /\ \E status \in ReviewStatus(mismatch) :
                    Hold(e, [status |-> status, attempt |-> chosen.attempt,
                             distance |-> chosen.distance])
             /\ UNCHANGED thread
    <3>1. StoreTypes'
      BY <1>1, <1>3, <2>2, <2>7 DEF TypeOK, StoreTypes
    <3>2. PICK status \in ReviewStatus(mismatch) :
            Hold(e, [status |-> status, attempt |-> chosen.attempt,
                     distance |-> chosen.distance])
      BY <2>7
    <3>3. /\ chosen.attempt \in Attempt /\ chosen.distance \in Distance
          /\ chosen.distance # NoDistance
          /\ candidates'[c][chosen.attempt] = chosen.distance
          /\ ~mismatch => chosen.distance = d
      <4>1. CASE mismatch /\ b # NoAttempt /\ candidates[c][b] <= d
        <5>1. chosen = [attempt |-> b, distance |-> candidates[c][b]]
          BY <4>1 DEF Closer
        <5>. QED
          BY <1>5, <2>5, <4>1, <5>1
      <4>2. CASE ~(mismatch /\ b # NoAttempt /\ candidates[c][b] <= d)
        <5>1. chosen = drawn
          BY <4>2 DEF Closer
        <5>. QED
          BY <1>3, <1>4, <2>2, <5>1
      <4>. QED
        BY <4>1, <4>2
    <3>4. status \in Success /\ (mismatch => status # "verified")
      BY <3>2 DEF ReviewStatus, Success
    <3>5. PICK item : item = [status |-> status, attempt |-> chosen.attempt,
                              distance |-> chosen.distance]
      OBVIOUS
    <3>6. item \in ItemResult
      BY <3>3, <3>4, <3>5 DEF ItemResult, ItemStatus
    <3>7. RegenEnabled /\ status = "verified" => chosen.distance = 0
      <4>. HAVE RegenEnabled /\ status = "verified"
      <4>1. ~(d > 0)
        BY <3>4
      <4>2. chosen.distance = d
        BY <3>3, <4>1
      <4>. QED
        BY <1>4, <4>1, <4>2
    <3>8. Releasable(c, item)'
      BY <3>3, <3>5, <3>7 DEF Releasable
    <3>9. b # NoAttempt => candidates'[c][b] # NoDistance
      BY <2>5
    <3>10. Hold(e, item) /\ c \in Slot
      BY <1>3, <3>2, <3>5
    <3>11. exec[e].st.fallback # NoAttempt => candidates'[c][exec[e].st.fallback] # NoDistance
      BY <3>9
    <3>. QED
      BY <1>1, <1>2, <2>3, <2>4, <3>1, <3>6, <3>8, <3>10, <3>11, Holds
  <2>. QED
    BY <1>7, <2>6, <2>7 DEF ReleaseCandidate
<1>. QED
  BY <1>6, <1>7 DEF PutCandidate

\* An item is stored for the next slot of a set that is not over.
LEMMA SaveStores ==
  ASSUME IInv, NEW e \in Execution, exec[e].pc = "saving",
         items[exec[e].st.cursor] \in {NoItem, exec[e].held},
         items' = [items EXCEPT ![exec[e].st.cursor] = exec[e].held],
         UNCHANGED <<run, set, candidates, result>>
  PROVE  /\ StoreGrows /\ StoreInv' /\ exec[e].held \in ItemResult
         /\ items' \in [Slot -> ItemResult \cup {NoItem}]
         /\ items'[exec[e].st.cursor] = exec[e].held
<1>1. exec[e].pc \in Attempting
  BY DEF Attempting
<1>2. /\ exec[e] \in Exec /\ exec[e].st \in State /\ Told(exec[e]) /\ Placed(exec[e])
      /\ TypeOK /\ exec[e].st.cursor \in Slot /\ ~IsTerminal(exec[e].st)
  BY <1>1, AttemptFacts
<1>3. PICK c \in Slot : c = exec[e].st.cursor
  BY <1>2
<1>4. PICK held \in ItemResult : held = exec[e].held /\ (held.status \in Success => Releasable(c, held))
  BY <1>2, <1>3 DEF Placed
<1>5. /\ items \in [Slot -> ItemResult \cup {NoItem}] /\ items[c] \in {NoItem, held}
      /\ items' = [items EXCEPT ![c] = held] /\ held # NoItem
  BY <1>2, <1>3, <1>4, NoItemApart DEF TypeOK
<1>6. /\ items' \in [Slot -> ItemResult \cup {NoItem}] /\ items'[c] = held
      /\ \A s \in Slot : s # c => items'[s] = items[s]
  BY <1>5
<1>7. StoreGrows
  BY <1>5, <1>6 DEF StoreGrows
<1>8. CASE items[c] = held
  <2>1. items' = items
    BY <1>5, <1>8
  <2>2. StoreInv'
    BY <1>7, <2>1, StoresKept DEF IInv
  <2>. QED
    BY <1>3, <1>4, <1>6, <1>7, <2>2
<1>9. CASE items[c] = NoItem
  <2>1. c \in 0..Count - 1 /\ Count \in Nat
    BY ProblemAssumption DEF Slot
  <2>2. exec[e].st.items = Prefix(c) /\ \A i \in 1..c : i - 1 \in Slot /\ items[i - 1] # NoItem
    BY <1>2, <1>3, ToldPrefix
  <2>3. ASSUME NEW k \in 1..c PROVE StopReasonOf(Prefix(k)) = "none"
    <3>1. CASE k = c
      <4>1. exec[e].st.cursor = Len(exec[e].st.items) /\ c # 0
        BY <1>2, <2>1, <3>1 DEF Told
      <4>2. exec[e].st.items # <<>>
        BY <1>3, <4>1
      <4>. QED
        BY <1>2, <2>2, <3>1, <4>2 DEF Told, IsTerminal
    <3>2. CASE k # c
      <4>1. c - 1 \in Slot /\ items[c - 1] # NoItem /\ k \in 1..(c - 1)
        BY <2>1, <2>2, <3>2
      <4>. QED
        BY <4>1 DEF IInv, StoreInv, ItemsInv
    <3>. QED
      BY <3>1, <3>2
  <2>4. ItemsInv'
    <3>. SUFFICES ASSUME NEW s \in Slot, items'[s] # NoItem, NEW k \in 1..s
                  PROVE  items'[k - 1] # NoItem /\ StopReasonOf(Prefix(k)') = "none"
      BY DEF ItemsInv
    <3>1. \A i \in 1..s : items[i - 1] # NoItem
      <4>1. CASE s = c
        BY <2>2, <4>1
      <4>2. CASE s # c
        BY <1>6, <4>2 DEF IInv, StoreInv, ItemsInv
      <4>. QED
        BY <4>1, <4>2
    <3>2. StopReasonOf(Prefix(k)) = "none"
      <4>1. CASE s = c
        BY <2>3, <4>1
      <4>2. CASE s # c
        BY <1>6, <4>2 DEF IInv, StoreInv, ItemsInv
      <4>. QED
        BY <4>1, <4>2
    <3>3. k \in 0..Count /\ \A i \in 1..k : items[i - 1] # NoItem
      BY <2>1, <3>1, ProblemAssumption DEF Slot
    <3>4. Prefix(k)' = Prefix(k) /\ items'[k - 1] = items[k - 1]
      BY <1>2, <1>7, <3>3, PrefixKept
    <3>. QED
      BY <3>1, <3>2, <3>4
  <2>5. CandidateInv'
    <3>. SUFFICES ASSUME NEW s \in Slot, items'[s].status \in Success
                  PROVE  Releasable(s, items[s])'
      BY DEF CandidateInv
    <3>1. CASE s = c
      BY <1>4, <1>6, <3>1 DEF Releasable
    <3>2. CASE s # c
      BY <1>6, <3>2 DEF IInv, StoreInv, CandidateInv, Releasable
    <3>. QED
      BY <3>1, <3>2
  <2>6. SetInv'
    <3>. SUFFICES ASSUME set \in SetStatus PROVE \E n \in 1..Count : Settled(n)'
      BY DEF SetInv
    <3>1. PICK n \in 1..Count : Settled(n)
      BY DEF IInv, StoreInv, SetInv
    <3>2. Settled(n)'
      BY <1>2, <1>7, <3>1, SettledKept DEF Settled
    <3>. QED
      BY <3>2
  <2>7. ResultInv'
    <3>1. ASSUME result.kind \in SetStatus
          PROVE  \E n \in 1..Count : Settled(n)' /\ result.kind = set /\ result.items = Prefix(n)'
      <4>1. PICK n \in 1..Count : Settled(n) /\ result.kind = set /\ result.items = Prefix(n)
        BY <3>1 DEF IInv, StoreInv, ResultInv
      <4>2. Settled(n)' /\ Prefix(n)' = Prefix(n)
        BY <1>2, <1>7, <4>1, SettledKept DEF Settled
      <4>. QED
        BY <4>1, <4>2
    <3>2. result # NoResult => run = "finalized"
      BY DEF IInv, StoreInv, ResultInv
    <3>. QED
      BY <3>1, <3>2 DEF ResultInv
  <2>8. StoreInv'
    BY <2>4, <2>5, <2>6, <2>7 DEF StoreInv
  <2>. QED
    BY <1>3, <1>4, <1>6, <1>7, <2>8
<1>. QED
  BY <1>5, <1>8, <1>9

\* item_store.save, then the slot is complete.
LEMMA SaveItemKeeps == ASSUME IInv, NEW e \in Execution, SaveItem(e) PROVE IInv'
<1>1. /\ exec[e].pc = "saving" /\ UNCHANGED <<job, live>>
      /\ UNCHANGED <<run, set, candidates, result>>
  BY DEF SaveItem
<1>2. exec[e].pc \in Attempting
  BY <1>1 DEF Attempting
<1>3. /\ exec[e] \in Exec /\ exec[e].st \in State /\ exec[e].pc # "idle" /\ TypeOK
      /\ exec[e].st.cursor \in Slot
  BY <1>2, AttemptFacts
<1>4. CASE Raise(e, "conflict") /\ UNCHANGED <<items, thread>>
  <2>1. UNCHANGED stores /\ "conflict" \in Cause
    BY <1>1, <1>4 DEF stores
  <2>. QED
    BY <1>1, <1>3, <1>4, <2>1, NodeRaises
<1>5. CASE /\ items[exec[e].st.cursor] \in {NoItem, exec[e].held}
           /\ items' = [items EXCEPT ![exec[e].st.cursor] = exec[e].held]
           /\ CompleteSlot(e, exec[e].held)
  <2>1. /\ StoreGrows /\ StoreInv' /\ exec[e].held \in ItemResult
        /\ items' \in [Slot -> ItemResult \cup {NoItem}]
        /\ items'[exec[e].st.cursor] = exec[e].held
    BY <1>1, <1>5, SaveStores
  <2>2. PICK st : st = Completed(exec[e].st, exec[e].held)
    OBVIOUS
  <2>3. st \in State /\ Advance(e, st, RouteAfterAttempt(st))
    BY <1>3, <1>5, <2>1, <2>2, CompletedFacts DEF CompleteSlot
  <2>4. RouteAfterAttempt(st) \in PC
    BY DEF RouteAfterAttempt, PC
  <2>5. thread' \in [stop: StopReason, fallback: 0..Limit, source: BOOLEAN]
    BY <1>3, <2>3, <2>4, AdvanceExec
  <2>6. StoreTypes'
    BY <1>1, <1>3, <2>1, <2>5 DEF TypeOK, StoreTypes
  <2>. QED
    BY <1>1, <1>2, <1>5, <2>1, <2>6, Completes
<1>. QED
  BY <1>4, <1>5 DEF SaveItem
-----------------------------------------------------------------------------
(* The invariant, and what follows from it.                                *)

\* Every step keeps the invariant.
LEMMA StepIInv == ASSUME IInv, [Next]_vars PROVE IInv'
<1>1. CASE Expire
  BY <1>1, ExpireKeeps
<1>2. CASE RecoverExpired
  BY <1>2, RecoverKeeps
<1>3. ASSUME NEW e \in Execution, Lease(e) \/ Interrupted(e) \/ Crash(e) PROVE IInv'
  BY <1>3, LeaseKeeps, InterruptedKeeps, CrashKeeps
<1>4. ASSUME NEW e \in Execution, Attempts(e) PROVE IInv'
  <2>1. CASE ProcureSource(e)
    BY <2>1, ProcureSourceKeeps
  <2>2. CASE BeginAttempt(e) \/ BeginDifficultyRegen(e)
    BY <2>2, BeginAttemptKeeps, BeginRegenKeeps
  <2>3. CASE RunAttempt(e)
    BY <2>3, RunAttemptKeeps
  <2>4. CASE \E f \in Fault : AttemptFails(e, f)
    BY <2>4, AttemptFailsKeeps
  <2>5. CASE \E d \in Distance : AttemptPasses(e, d)
    BY <2>5, AttemptPassesKeeps
  <2>6. CASE PutCandidate(e)
    BY <2>6, PutCandidateKeeps
  <2>7. CASE SaveItem(e)
    BY <2>7, SaveItemKeeps
  <2>. QED
    BY <1>4, <2>1, <2>2, <2>3, <2>4, <2>5, <2>6, <2>7 DEF Attempts
<1>5. ASSUME NEW e \in Execution, Step(e) PROVE IInv'
  <2>1. CASE Start(e) \/ BeginRun(e) \/ Prepare(e) \/ Invoke(e)
    BY <2>1, StartKeeps, BeginRunKeeps, PrepareKeeps, InvokeKeeps
  <2>2. CASE Attempts(e)
    BY <1>4, <2>2
  <2>3. CASE FinalizeSet(e) \/ FinalizeRun(e) \/ PutResult(e) \/ Succeed(e) \/ Fail(e)
    BY <2>3, FinalizeSetKeeps, FinalizeRunKeeps, PutResultKeeps, SucceedKeeps, FailKeeps
  <2>. QED
    BY <1>5, <2>1, <2>2, <2>3 DEF Step
<1>6. CASE UNCHANGED vars
  <2>1. UNCHANGED <<job, live, stores, exec>>
    BY <1>6 DEF vars
  <2>2. job' \in [phase: {"queued"} \cup Active \cup Terminal,
                  generation: 0..MaxRecovery, recovery: 0..MaxRecovery]
    BY <2>1 DEF IInv, TypeOK
  <2>3. LedgerInv'
    BY <2>1 DEF IInv, LedgerInv, stores
  <2>. QED
    BY <2>1, <2>2, <2>3, JobChanges
<1>. QED
  BY <1>1, <1>2, <1>3, <1>5, <1>6 DEF Next

\* The invariant holds in every reachable state.
LEMMA Invariant == Spec => []IInv
  BY InitIInv, StepIInv, PTL DEF Spec

\* The rows of the ledger and of the stores, and what the executions hold, keep their
\* types: no cursor, attempt or recovery leaves its bounds.
THEOREM TypesKept == Spec => []TypeOK
<1>1. IInv => TypeOK
  BY DEF IInv
<1>. QED
  BY <1>1, Invariant, PTL

\* What an execution counts as done is what the item store holds.
THEOREM StateTold == Spec => []StateTellsStore
<1>1. ASSUME IInv PROVE StateTellsStore
  <2>. SUFFICES ASSUME NEW e \in Execution, NEW i \in DOMAIN exec[e].st.items
                PROVE  exec[e].st.items[i] = items[i - 1]
    BY DEF StateTellsStore
  <2>1. exec[e].st \in State /\ Told(exec[e])
    BY <1>1 DEF IInv, TypeOK, ExecInv, Exec
  <2>2. exec[e].st.items \in Seq(ItemResult)
    BY <2>1, StateFields
  <2>3. i \in 1..Len(exec[e].st.items)
    BY <2>2
  <2>. QED
    BY <2>1, <2>3 DEF Told
<1>. QED
  BY <1>1, Invariant, PTL

\* A released item is the stored candidate of its attempt, and off its band only if it
\* is marked for review.
THEOREM CandidatesStand == Spec => []CandidateStands
<1>1. IInv => CandidateStands
  BY DEF IInv, StoreInv, CandidateInv, Releasable, CandidateStands
<1>. QED
  BY <1>1, Invariant, PTL

\* A succeeded job has a result, published after the end of the run, that agrees with
\* the row of the set and the stored items.
THEOREM ResultsStand == Spec => []ResultStands
<1>1. ASSUME IInv PROVE ResultStands
  <2>1. job.phase = "succeeded" => result # NoResult
    BY <1>1 DEF IInv, LedgerInv
  <2>2. result # NoResult => run = "finalized"
    BY <1>1 DEF IInv, StoreInv, ResultInv
  <2>3. ASSUME result.kind \in SetStatus
        PROVE  /\ set = result.kind
               /\ \A s \in Slot : items[s] = IF s < Len(result.items)
                                            THEN result.items[s + 1] ELSE NoItem
    <3>1. PICK n \in 1..Count : Settled(n) /\ result.kind = set /\ result.items = Prefix(n)
      BY <1>1, <2>3 DEF IInv, StoreInv, ResultInv
    <3>2. n \in Nat /\ Count \in Nat
      BY ProblemAssumption
    <3>3. result.items \in Seq(ItemResult)
      BY <1>1 DEF IInv, TypeOK
    <3>4. Len(result.items) = n
      BY <3>1, <3>2, <3>3 DEF Prefix
    <3>5. ASSUME NEW s \in Slot, s < n PROVE items[s] = result.items[s + 1]
      <4>1. s + 1 \in 1..n /\ (s + 1) - 1 = s
        BY <3>2, <3>5 DEF Slot
      <4>. QED
        BY <3>1, <4>1 DEF Prefix
    <3>6. ASSUME NEW s \in Slot, s >= n PROVE items[s] = NoItem
      BY <1>1, <3>1, <3>6, FinalBlank DEF IInv, StoreInv, Settled
    <3>. QED
      BY <3>1, <3>2, <3>4, <3>5, <3>6 DEF Slot
  <2>. QED
    BY <2>1, <2>2, <2>3 DEF ResultStands
<1>. QED
  BY <1>1, Invariant, PTL

\* No path through the graph meets the recursion limit.
THEOREM StepsAreBounded == Spec => []StepsBounded
<1>1. IInv => StepsBounded
  BY DEF IInv, ExecInv, Counted, StepsBounded
<1>. QED
  BY <1>1, Invariant, PTL

\* Only the start and the end of an execution write the row of the set, and the end of
\* any later execution writes what is there.
LEMMA StepSettles ==
  ASSUME IInv, [Next]_vars, set \in SetStatus
  PROVE  set' = set
<1>1. ASSUME NEW e \in Execution, FinalizeSet(e) PROVE set' = set
  <2>1. /\ exec[e].pc = "finalizing_set" /\ set' = StatusOf(exec[e].st.items)
    BY <1>1 DEF FinalizeSet
  <2>2. exec[e] \in Exec /\ Told(exec[e]) /\ Placed(exec[e]) /\ TypeOK
    BY DEF IInv, TypeOK, ExecInv
  <2>3. Final(exec[e].st.cursor) /\ exec[e].st.items = Prefix(exec[e].st.cursor)
    BY <2>1, <2>2, ToldPrefix DEF Placed
  <2>. QED
    BY <2>1, <2>2, <2>3, SettlesAlike DEF IInv, StoreInv
<1>2. ASSUME NEW e \in Execution, Prepare(e) PROVE set' = set
  BY <1>2 DEF Prepare, SetStatus
<1>3. ASSUME NEW e \in Execution, Attempts(e) PROVE set' = set
  BY <1>3 DEF Attempts, ProcureSource, BeginAttempt, BeginDifficultyRegen, RunAttempt,
      AttemptFails, AttemptPasses, PutCandidate, SaveItem, stores
<1>4. ASSUME NEW e \in Execution,
             Start(e) \/ BeginRun(e) \/ Invoke(e) \/ FinalizeRun(e) \/ PutResult(e)
               \/ Succeed(e) \/ Fail(e) \/ Lease(e) \/ Interrupted(e) \/ Crash(e)
      PROVE  set' = set
  BY <1>4 DEF Start, BeginRun, Invoke, FinalizeRun, PutResult, Succeed, Fail, Lease,
      Interrupted, Crash, stores
<1>5. CASE Expire \/ RecoverExpired \/ UNCHANGED vars
  BY <1>5 DEF Expire, RecoverExpired, stores, vars
<1>. QED
  BY <1>1, <1>2, <1>3, <1>4, <1>5 DEF Next, Step

\* Once a set has its final status no recovery changes it.
THEOREM SetsSettle == Spec => SetSettles
<1>1. IInv /\ [Next]_vars => [(set \in SetStatus) => set' = set]_vars
  BY StepSettles
<1>. QED
  BY <1>1, Invariant, PTL DEF Spec, SetSettles
-----------------------------------------------------------------------------
(* The row of this model is a job of the supervisor ledger: it moves as    *)
(* JobContract, which JobStore implements, lets a job move.  Start and     *)
(* succeed test the lease only; that the row is in the phase assert_job_   *)
(* transition asks for follows from where the execution stands.            *)

\* What the contract sees of the row.  The stamp of the first start, the checkpoint and
\* the dispatch attempts, one for each lease, are not rows of their own here.
EntryOf(b) ==
    [phase |-> b.phase, dispatch |-> b.generation, generation |-> b.generation,
     recovery |-> b.recovery, started |-> 0, checkpoint |-> FALSE,
     error |-> IF b.phase # "failed" THEN "none"
               ELSE IF b.recovery = MaxRecovery THEN "worker_recovery_exhausted"
               ELSE "worker_error"]
Ledger == [j \in {1} |-> EntryOf(job)]
Contract == INSTANCE JobContract WITH Job <- {1}, entry <- Ledger

\* An execution that has the live lease has started the job, or not, as the row says.
PhaseInv ==
    \A e \in Execution : job.generation = e /\ job.phase \in Active =>
        /\ exec[e].pc = "leased" => job.phase = "leased"
        /\ exec[e].pc \in Executing \ {"leased"} => job.phase = "running"

\* A step of e alone, which does not lead to a lease.
Moves(e) ==
    /\ exec[e].pc \in Executing \ {"leased"} \/ exec'[e].pc \in {"failing", "gone"}
    /\ exec'[e].pc # "leased"
    /\ \A f \in Execution \ {e} : exec'[f] = exec[f]

\* A node moves its execution on, or fails it.
LEMMA AdvanceMoves ==
  ASSUME TypeOK, NEW e \in Execution, NEW st, NEW pc, pc # "leased", Advance(e, st, pc),
         exec[e].pc \in Executing \ {"leased"}
  PROVE  Moves(e)
<1>1. exec \in [Execution -> Exec] /\ exec[e] \in Exec
  BY DEF TypeOK
<1>2. CASE ValidState(st) /\ AllowedTransition(exec[e].st, st)
  <2>1. exec' = [exec EXCEPT ![e].pc = pc, ![e].st = st, ![e].held = NoItem,
                             ![e].drawn = 0, ![e].steps = @ + 1]
    BY <1>2 DEF Advance
  <2>2. exec'[e].pc = pc
    BY <1>1, <2>1 DEF Exec
  <2>. QED
    BY <1>1, <2>1, <2>2 DEF Moves
<1>3. CASE ~(ValidState(st) /\ AllowedTransition(exec[e].st, st))
  BY <1>1, <1>3 DEF Advance, Raise, Moves, Exec
<1>. QED
  BY <1>2, <1>3

\* The other moves of an execution that has started.
LEMMA PlainMoves ==
  ASSUME TypeOK, NEW e \in Execution, exec[e].pc \in Executing \ {"leased"}
  PROVE  /\ \A pc : pc # "leased" /\ Goto(e, pc) => Moves(e)
         /\ \A c : Raise(e, c) => Moves(e)
         /\ \A i : Hold(e, i) => Moves(e)
         /\ Reject(e) => Moves(e)
<1>1. exec \in [Execution -> Exec] /\ exec[e] \in Exec
  BY DEF TypeOK
<1>. QED
  BY <1>1 DEF Goto, Raise, Hold, Reject, Moves, Exec

\* After an attempt the graph goes on or is over.
LEMMA RouteMoves == ASSUME NEW st PROVE RouteAfterAttempt(st) # "leased"
  BY DEF RouteAfterAttempt

\* The graph does not touch the ledger.
LEMMA AttemptsMoves ==
  ASSUME TypeOK, NEW e \in Execution, Attempts(e)
  PROVE  Moves(e) /\ UNCHANGED job
<1>1. CASE ProcureSource(e)
  BY <1>1, AdvanceMoves, PlainMoves DEF ProcureSource
<1>2. CASE BeginAttempt(e)
  BY <1>2, AdvanceMoves, PlainMoves DEF BeginAttempt
<1>3. CASE BeginDifficultyRegen(e)
  BY <1>3, AdvanceMoves, PlainMoves DEF BeginDifficultyRegen
<1>4. CASE RunAttempt(e)
  BY <1>4, AdvanceMoves, PlainMoves, RouteMoves DEF RunAttempt, Retry, CompleteSlot
<1>5. ASSUME NEW f \in Fault, AttemptFails(e, f) PROVE Moves(e) /\ UNCHANGED job
  BY <1>5, AdvanceMoves, PlainMoves, RouteMoves DEF AttemptFails, RestoreFallback, Retry
<1>6. ASSUME NEW d \in Distance, AttemptPasses(e, d) PROVE Moves(e) /\ UNCHANGED job
  <2>1. exec \in [Execution -> Exec] /\ exec[e] \in Exec
    BY DEF TypeOK
  <2>. QED
    BY <1>6, <2>1 DEF AttemptPasses, Moves, Exec
<1>7. CASE PutCandidate(e)
  <2>1. exec[e].pc = "drawn" /\ UNCHANGED job
    BY <1>7 DEF PutCandidate
  <2>2. (\E c : Raise(e, c)) \/ ReleaseCandidate(e)
    BY <1>7 DEF PutCandidate
  <2>3. ASSUME ReleaseCandidate(e) PROVE Moves(e)
    BY <2>1, <2>3, AdvanceMoves, PlainMoves, RouteMoves DEF ReleaseCandidate
  <2>. QED
    BY <2>1, <2>2, <2>3, PlainMoves
<1>8. CASE SaveItem(e)
  BY <1>8, AdvanceMoves, PlainMoves, RouteMoves DEF SaveItem, CompleteSlot
<1>. QED
  BY <1>1, <1>2, <1>3, <1>4, <1>5, <1>6, <1>7, <1>8 DEF Attempts

\* A step that leaves the row alone keeps the phase where the executions know it.
LEMMA MovesPhase ==
  ASSUME PhaseInv, NEW e \in Execution, Moves(e), UNCHANGED job
  PROVE  PhaseInv'
<1>. SUFFICES ASSUME NEW f \in Execution, job.generation = f, job.phase \in Active
              PROVE  /\ exec'[f].pc = "leased" => job.phase = "leased"
                     /\ exec'[f].pc \in Executing \ {"leased"} => job.phase = "running"
  BY DEF PhaseInv
<1>1. CASE f = e
  BY <1>1 DEF PhaseInv, Moves
<1>2. CASE f # e
  BY <1>2 DEF PhaseInv, Moves
<1>. QED
  BY <1>1, <1>2

\* Nobody holds an ended or a waiting job.
LEMMA WaitingPhase == ASSUME job'.phase \notin Active PROVE PhaseInv'
  BY DEF PhaseInv

\* The phases that assert_job_transition allows after each phase.
LEMMA Transitions ==
  /\ "leased" \in Contract!NormalTransitions["queued"]
  /\ {"running", "failed"} \subseteq Contract!NormalTransitions["leased"]
  /\ {"succeeded", "failed"} \subseteq Contract!NormalTransitions["running"]
  BY DEF Contract!NormalTransitions, Contract!Phase, Contract!Waiting, Contract!Active,
         Contract!Terminal

\* The fields of the row.
LEMMA JobFields ==
  ASSUME TypeOK
  PROVE  /\ job.phase \in {"queued", "leased", "running", "succeeded", "failed"}
         /\ job.generation \in Nat /\ job.recovery \in Nat
         /\ job.recovery <= MaxRecovery /\ MaxRecovery \in Nat
  BY ProblemAssumption DEF TypeOK

\* What the contract sees, field by field.
LEMMA EntryFields ==
  ASSUME NEW b
  PROVE  /\ EntryOf(b).phase = b.phase /\ EntryOf(b).started = 0
         /\ EntryOf(b).dispatch = b.generation /\ EntryOf(b).generation = b.generation
         /\ EntryOf(b).recovery = b.recovery /\ EntryOf(b).checkpoint = FALSE
         /\ b.phase = "failed" /\ b.recovery = MaxRecovery =>
                EntryOf(b).error = Contract!Exhausted
  BY DEF EntryOf, Contract!Exhausted

\* A move of the table that is not a lease.
LEMMA NormalLawful ==
  ASSUME TypeOK, NEW p, p \in Contract!NormalTransitions[job.phase], p # "leased",
         job' = [job EXCEPT !.phase = p]
  PROVE  Contract!NormalStep(EntryOf(job), EntryOf(job'))
<1>1. job'.phase = p /\ job'.generation = job.generation /\ job'.recovery = job.recovery
  BY DEF TypeOK
<1>2. job.generation \in Nat
  BY JobFields
<1> DEFINE a == EntryOf(job)
           b == EntryOf(job')
<1>3. /\ a.phase = job.phase /\ b.phase = p /\ a.started = 0 /\ b.started = 0
      /\ b.generation = a.generation /\ b.dispatch = a.dispatch /\ b.recovery = a.recovery
      /\ a.generation \in Nat /\ a.dispatch \in Nat
  BY <1>1, <1>2, EntryFields
<1>. HIDE DEF a, b
<1>4. Contract!GenerationDelta(a, b, 0) /\ Contract!StartedPreserved(a, b)
  BY <1>3 DEF Contract!GenerationDelta, Contract!StartedPreserved
<1>5. Contract!NormalStep(a, b)
  BY <1>3, <1>4 DEF Contract!NormalStep
<1>. QED
  BY <1>5 DEF a, b

\* A step of the row that the contract allows.
Lawful == Contract!NormalStep(EntryOf(job), EntryOf(job'))
          \/ Contract!RecoveryStep(EntryOf(job), EntryOf(job'))

\* recover_expired, which the attempts left decide.
LEMMA RecoverLawful ==
  ASSUME IInv, RecoverExpired PROVE Lawful /\ PhaseInv'
<1>1. TypeOK /\ job.phase \in Active /\ job.recovery < MaxRecovery
  BY DEF RecoverExpired, IInv, LedgerInv
<1>2. /\ job'.phase = IF job.recovery + 1 >= MaxRecovery THEN "failed" ELSE "queued"
      /\ job'.generation = job.generation /\ job'.recovery = job.recovery + 1
  BY <1>1 DEF RecoverExpired, TypeOK
<1>3. job'.phase \notin Active
  BY <1>2
<1>4. job'.phase = "failed" => job'.recovery = MaxRecovery
  BY <1>1, <1>2, JobFields
<1>5. job.generation \in Nat /\ job.recovery \in Nat
  BY <1>1, JobFields
<1> DEFINE a == EntryOf(job)
           b == EntryOf(job')
<1>6. /\ a.phase \in Contract!Active /\ a.started = 0 /\ b.started = 0
      /\ b.phase = IF b.recovery >= MaxRecovery THEN "failed" ELSE "queued"
      /\ b.generation = a.generation /\ b.dispatch = a.dispatch
      /\ b.recovery = a.recovery + 1 /\ a.checkpoint = FALSE /\ b.checkpoint = FALSE
      /\ b.phase = "failed" => b.error = Contract!Exhausted
      /\ a.generation \in Nat /\ a.dispatch \in Nat
  BY <1>1, <1>2, <1>4, <1>5, EntryFields DEF Contract!Active
<1>. HIDE DEF a, b
<1>7. Contract!GenerationDelta(a, b, 0) /\ Contract!StartedPreserved(a, b)
  BY <1>6 DEF Contract!GenerationDelta, Contract!StartedPreserved
<1>8. Contract!RecoveryStep(a, b)
  BY <1>6, <1>7 DEF Contract!RecoveryStep
<1>9. Lawful
  BY <1>8 DEF Lawful, a, b
<1>. QED
  BY <1>3, <1>9, WaitingPhase

\* lease_next: the execution of the new generation stands at its start.
LEMMA LeaseLawful ==
  ASSUME TypeOK, NEW e \in Execution, Lease(e) PROVE Lawful /\ PhaseInv'
<1>1. job.phase = "queued" /\ job.generation + 1 = e /\ exec \in [Execution -> Exec]
  BY DEF Lease, TypeOK
<1>2. job'.phase = "leased" /\ job'.generation = e /\ job'.recovery = job.recovery
  BY DEF Lease, TypeOK
<1>3. exec'[e].pc = "leased"
  BY <1>1 DEF Lease, Goto, Exec
<1>4. PhaseInv'
  BY <1>2, <1>3 DEF PhaseInv
<1>5. job.generation \in Nat
  BY JobFields
<1>6. Contract!NormalStep(EntryOf(job), EntryOf(job'))
  BY <1>1, <1>2, <1>5, EntryFields, Transitions
     DEF Contract!NormalStep, Contract!GenerationDelta, Contract!StartedPreserved
<1>. QED
  BY <1>4, <1>6 DEF Lawful

\* start, under a lease that was not started before.
LEMMA StartLawful ==
  ASSUME TypeOK, PhaseInv, NEW e \in Execution, Start(e)
  PROVE  PhaseInv' /\ (Lawful \/ UNCHANGED job)
<1>1. exec \in [Execution -> Exec] /\ exec[e] \in Exec /\ exec[e].pc = "leased"
  BY DEF TypeOK, Start
<1>2. CASE Owns(e) /\ job' = [job EXCEPT !.phase = "running"] /\ Goto(e, "started")
  <2>1. job.phase = "leased" /\ job.generation = e
    BY <1>1, <1>2 DEF Owns, PhaseInv
  <2>2. job'.phase = "running" /\ job'.generation = e
    BY <1>2, <2>1 DEF TypeOK
  <2>3. exec'[e].pc = "started"
    BY <1>1, <1>2 DEF Goto, Exec
  <2>4. PhaseInv'
    BY <2>2, <2>3 DEF PhaseInv
  <2>. QED
    BY <1>2, <2>1, <2>4, NormalLawful, Transitions DEF Lawful
<1>3. CASE Raise(e, "other") /\ UNCHANGED job
  <2>1. Moves(e)
    BY <1>1, <1>3 DEF Raise, Moves, Exec
  <2>. QED
    BY <1>3, <2>1, MovesPhase
<1>. QED
  BY <1>2, <1>3 DEF Start

\* succeed and fail: the job is over, or the call is refused.
LEMMA ReportLawful ==
  ASSUME TypeOK, PhaseInv, NEW e \in Execution, Succeed(e) \/ Fail(e)
  PROVE  PhaseInv' /\ (Lawful \/ UNCHANGED job)
<1>1. exec \in [Execution -> Exec] /\ exec[e] \in Exec
  BY DEF TypeOK
<1>2. ASSUME NEW p \in {"succeeded", "failed"}, job' = [job EXCEPT !.phase = p],
             p \in Contract!NormalTransitions[job.phase]
      PROVE  PhaseInv' /\ (Lawful \/ UNCHANGED job)
  <2>1. job'.phase \notin Active
    BY <1>2 DEF TypeOK
  <2>. QED
    BY <1>2, <2>1, NormalLawful, WaitingPhase DEF Lawful
<1>3. CASE Owns(e) /\ Succeed(e)
  <2>1. exec[e].pc = "published" /\ job' = [job EXCEPT !.phase = "succeeded"]
    BY <1>3 DEF Succeed
  <2>2. job.phase = "running"
    BY <1>3, <2>1 DEF Owns, PhaseInv
  <2>. QED
    BY <1>2, <2>1, <2>2, Transitions
<1>4. CASE Owns(e) /\ Fail(e)
  <2>1. job' = [job EXCEPT !.phase = "failed"] /\ job.phase \in Active
    BY <1>4 DEF Fail, Owns
  <2>. QED
    BY <1>2, <2>1, Transitions
<1>5. CASE ~Owns(e)
  <2>1. UNCHANGED job /\ exec'[e].pc \in {"failing", "gone"}
        /\ \A f \in Execution \ {e} : exec'[f] = exec[f]
    BY <1>1, <1>5 DEF Succeed, Fail, Raise, Leave, Gone, Idle, Exec
  <2>2. Moves(e)
    BY <2>1 DEF Moves
  <2>. QED
    BY <2>1, <2>2, MovesPhase
<1>. QED
  BY <1>3, <1>4, <1>5

\* The runner's own steps before and after the graph leave the ledger alone.
LEMMA RunnerMoves ==
  ASSUME TypeOK, NEW e \in Execution,
         \/ BeginRun(e) \/ Prepare(e) \/ Invoke(e) \/ FinalizeSet(e) \/ FinalizeRun(e)
         \/ PutResult(e) \/ Interrupted(e) \/ Crash(e)
  PROVE  Moves(e) /\ UNCHANGED job
<1>1. exec \in [Execution -> Exec] /\ exec[e] \in Exec
  BY DEF TypeOK
<1>2. CASE BeginRun(e)
  BY <1>2, PlainMoves DEF BeginRun
<1>3. CASE Prepare(e)
  BY <1>1, <1>3, PlainMoves DEF Prepare, Moves, Exec
<1>4. CASE Invoke(e)
  BY <1>1, <1>4 DEF Invoke, Moves, Exec
<1>5. CASE FinalizeSet(e) \/ FinalizeRun(e)
  BY <1>5, PlainMoves DEF FinalizeSet, FinalizeRun
<1>6. CASE PutResult(e)
  BY <1>6, PlainMoves DEF PutResult
<1>7. CASE Interrupted(e)
  BY <1>1, <1>7 DEF Interrupted, Raise, Moves, Exec
<1>8. CASE Crash(e)
  BY <1>1, <1>8 DEF Crash, Gone, Idle, Moves, Exec
<1>. QED
  BY <1>2, <1>3, <1>4, <1>5, <1>6, <1>7, <1>8

\* Every step of the model is lawful, or the contract does not see it.
LEMMA StepLawful ==
  ASSUME IInv, PhaseInv, [Next]_vars
  PROVE  PhaseInv' /\ (Lawful \/ UNCHANGED job)
<1>1. TypeOK
  BY DEF IInv
<1>2. CASE Expire \/ UNCHANGED vars
  <2>1. UNCHANGED <<job, exec>>
    BY <1>2 DEF Expire, vars
  <2>. QED
    BY <2>1 DEF PhaseInv
<1>3. CASE RecoverExpired
  BY <1>3, RecoverLawful
<1>4. ASSUME NEW e \in Execution, Lease(e) PROVE PhaseInv' /\ Lawful
  BY <1>1, <1>4, LeaseLawful
<1>5. ASSUME NEW e \in Execution, Step(e) \/ Interrupted(e) \/ Crash(e)
      PROVE  PhaseInv' /\ (Lawful \/ UNCHANGED job)
  <2>1. CASE Start(e)
    BY <1>1, <2>1, StartLawful
  <2>2. CASE Succeed(e) \/ Fail(e)
    BY <1>1, <2>2, ReportLawful
  <2>3. ASSUME ~Start(e), ~Succeed(e), ~Fail(e) PROVE Moves(e) /\ UNCHANGED job
    <3>1. CASE Attempts(e)
      BY <1>1, <3>1, AttemptsMoves
    <3>2. CASE ~Attempts(e)
      BY <1>1, <1>5, <2>3, <3>2, RunnerMoves DEF Step
    <3>. QED
      BY <3>1, <3>2
  <2>. QED
    BY <2>1, <2>2, <2>3, MovesPhase
<1>. QED
  BY <1>2, <1>3, <1>4, <1>5 DEF Next

\* A lawful step of the row is a step of the contract on its ledger of one job.
LEMMA LawfulNext == ASSUME Lawful PROVE Contract!Next
<1>1. Ledger[1] = EntryOf(job) /\ Ledger'[1] = EntryOf(job')
  BY DEF Ledger
<1>2. Ledger' = [Ledger EXCEPT ![1] = Ledger'[1]]
  BY DEF Ledger
<1>3. Contract!JobStep(Ledger[1], Ledger'[1])
  BY <1>1 DEF Lawful, Contract!JobStep
<1>. QED
  BY <1>2, <1>3 DEF Contract!Next

\* The job starts as the contract lets a job be added, and every later step of the
\* model is a step of the contract or one it does not see.
ContractKept == Ledger = [j \in {1} |-> Contract!QueuedEntry] /\ [][Contract!Next]_Ledger

\* The executions of a problem_generation job never trip assert_job_transition or
\* assert_expired_recovery, also when a stalled execution reports after its lease.
THEOREM ContractObeyed == Spec => ContractKept
<1>1. Init => PhaseInv /\ Ledger = [j \in {1} |-> Contract!QueuedEntry]
  <2>. SUFFICES ASSUME Init
                PROVE  PhaseInv /\ Ledger = [j \in {1} |-> Contract!QueuedEntry]
    OBVIOUS
  <2>1. job = [phase |-> "queued", generation |-> 0, recovery |-> 0]
    BY DEF Init
  <2>2. PhaseInv
    BY <2>1 DEF PhaseInv
  <2>3. EntryOf(job) = Contract!QueuedEntry
    <3>1. /\ EntryOf(job).phase = "queued" /\ EntryOf(job).generation = 0
          /\ EntryOf(job).dispatch = 0 /\ EntryOf(job).recovery = 0
          /\ EntryOf(job).started = 0 /\ EntryOf(job).error = "none"
      BY <2>1 DEF EntryOf
    <3>2. EntryOf(job).checkpoint = FALSE
      BY DEF EntryOf
    <3> DEFINE q == Contract!QueuedEntry
    <3>3. q \in Contract!Entry
      <4>1. Contract!AbsentEntry \in Contract!Entry
        BY ProblemAssumption
           DEF Contract!AbsentEntry, Contract!Entry, Contract!NoError, Contract!Phase,
               Contract!ErrorCode
      <4>2. "queued" \in Contract!Phase
        BY DEF Contract!Phase, Contract!Waiting
      <4>. QED
        BY <4>1, <4>2 DEF Contract!QueuedEntry, Contract!Entry
    <3>4. /\ q.phase = "queued" /\ q.dispatch = 0 /\ q.generation = 0 /\ q.recovery = 0
          /\ q.started = 0 /\ q.error = "none"
      BY DEF Contract!QueuedEntry, Contract!AbsentEntry, Contract!NoError
    <3>5. q.checkpoint = FALSE
      BY DEF Contract!QueuedEntry, Contract!AbsentEntry
    <3>. HIDE DEF q
    <3>6. EntryOf(job) = q
      BY <3>1, <3>2, <3>3, <3>4, <3>5 DEF EntryOf, Contract!Entry
    <3>. QED
      BY <3>6 DEF q
  <2>. QED
    BY <2>2, <2>3 DEF Ledger
<1>2. IInv /\ PhaseInv /\ [Next]_vars => PhaseInv' /\ [Contract!Next]_Ledger
  <2>. SUFFICES ASSUME IInv, PhaseInv, [Next]_vars
                PROVE  PhaseInv' /\ [Contract!Next]_Ledger
    OBVIOUS
  <2>1. PhaseInv' /\ (Lawful \/ UNCHANGED job)
    BY StepLawful
  <2>2. UNCHANGED job => UNCHANGED Ledger
    BY DEF Ledger
  <2>. QED
    BY <2>1, <2>2, LawfulNext
<1>. QED
  BY <1>1, <1>2, Invariant, PTL DEF Spec, ContractKept
-----------------------------------------------------------------------------
(* As long as no lease expires under a live execution there is one live    *)
(* execution at a time, so nothing is stored between its look at the item  *)
(* store and its draws.                                                    *)

Live(x) == x.pc \in Executing \cup {"failing"}
Drawing == {"calling", "drawn", "saving"}

\* A live execution is the one the lease, which has not expired, was given to.
AloneInv ==
    \A e \in Execution : Live(exec[e]) => job.generation = e /\ job.phase \in Active /\ live

UndrawnInv ==
    \A e \in Execution : exec[e].pc \in Drawing => items[exec[e].st.cursor] = NoItem

\* A step of the live execution e that leaves its lease alone, unless e is gone after it.
Acts(e) ==
    /\ Live(exec[e])
    /\ \A f \in Execution \ {e} : exec'[f] = exec[f]
    /\ exec'[e].pc # "gone" =>
            live' = live /\ job'.generation = job.generation /\ job'.phase \in Active \cup {job.phase}

\* An execution that draws has drawn before for the slot, or found it free.
Draws(e) ==
    exec'[e].pc \in Drawing =>
        /\ exec'[e].st.cursor = exec[e].st.cursor /\ UNCHANGED items
        /\ exec[e].pc \in Drawing \/ items[exec[e].st.cursor] = NoItem

\* A node that moves on to another one does not draw there.
LEMMA AdvanceDraws ==
  ASSUME TypeOK, NEW e \in Execution, NEW st, NEW pc, pc \notin Drawing, Advance(e, st, pc)
  PROVE  exec'[e].pc \notin Drawing
<1>1. exec \in [Execution -> Exec] /\ exec[e] \in Exec
  BY DEF TypeOK
<1>2. CASE ValidState(st) /\ AllowedTransition(exec[e].st, st)
  <2>1. exec' = [exec EXCEPT ![e].pc = pc, ![e].st = st, ![e].held = NoItem,
                             ![e].drawn = 0, ![e].steps = @ + 1]
    BY <1>2 DEF Advance
  <2>. QED
    BY <1>1, <2>1 DEF Exec
<1>3. CASE ~(ValidState(st) /\ AllowedTransition(exec[e].st, st))
  BY <1>1, <1>3 DEF Advance, Raise, Exec, Drawing
<1>. QED
  BY <1>2, <1>3

\* The other moves keep the slot, and but for two of them do not draw.
LEMMA PlainDraws ==
  ASSUME TypeOK, NEW e \in Execution
  PROVE  /\ \A pc : Goto(e, pc) => exec'[e].pc = pc /\ exec'[e].st = exec[e].st
         /\ \A c : Raise(e, c) => exec'[e].pc \notin Drawing
         /\ \A i : Hold(e, i) => exec'[e].st = exec[e].st
         /\ Reject(e) => exec'[e].pc \notin Drawing
         /\ Leave(e) => exec'[e].pc \notin Drawing
<1>1. exec \in [Execution -> Exec] /\ exec[e] \in Exec
  BY DEF TypeOK
<1>. QED
  BY <1>1 DEF Goto, Raise, Hold, Reject, Leave, Gone, Idle, Drawing, Exec

\* After an attempt the graph is not in the middle of one.
LEMMA RouteDraws == ASSUME NEW st PROVE RouteAfterAttempt(st) \notin Drawing
  BY DEF RouteAfterAttempt, Drawing

\* The nodes of the graph draw for a slot they found free.
LEMMA AttemptsDraw ==
  ASSUME TypeOK, NEW e \in Execution, Attempts(e)
  PROVE  Draws(e)
<1>1. CASE ProcureSource(e) \/ BeginAttempt(e) \/ BeginDifficultyRegen(e)
  <2>1. "begin_attempt" \notin Drawing /\ "run_attempt" \notin Drawing
    BY DEF Drawing
  <2>2. exec'[e].pc \notin Drawing
    BY <1>1, <2>1, AdvanceDraws, PlainDraws DEF ProcureSource, BeginAttempt, BeginDifficultyRegen
  <2>. QED
    BY <2>2 DEF Draws
<1>2. CASE RunAttempt(e)
  <2>1. UNCHANGED items
    BY <1>2 DEF RunAttempt
  <2>2. CASE items[exec[e].st.cursor] = NoItem /\ Goto(e, "calling")
    BY <2>1, <2>2, PlainDraws DEF Draws
  <2>3. CASE ~(items[exec[e].st.cursor] = NoItem /\ Goto(e, "calling"))
    <3>1. exec'[e].pc \notin Drawing
      BY <1>2, <2>3, AdvanceDraws, RouteDraws
         DEF RunAttempt, ExistingResult, Retry, CompleteSlot
    <3>. QED
      BY <3>1 DEF Draws
  <2>. QED
    BY <2>2, <2>3
<1>3. ASSUME NEW f \in Fault, AttemptFails(e, f) PROVE Draws(e)
  <2>1. UNCHANGED items /\ exec[e].pc \in Drawing
    BY <1>3 DEF AttemptFails, Drawing
  <2>2. (\E i : Hold(e, i)) \/ Reject(e) \/ Retry(e)
    BY <1>3 DEF AttemptFails, RestoreFallback
  <2>3. exec'[e].st = exec[e].st \/ exec'[e].pc \notin Drawing
    BY <2>2, PlainDraws, AdvanceDraws, RouteDraws DEF Retry
  <2>. QED
    BY <2>1, <2>3 DEF Draws
<1>4. ASSUME NEW d \in Distance, AttemptPasses(e, d) PROVE Draws(e)
  <2>1. exec \in [Execution -> Exec] /\ exec[e] \in Exec
    BY DEF TypeOK
  <2>2. UNCHANGED items /\ exec[e].pc \in Drawing
    BY <1>4 DEF AttemptPasses, Drawing, stores
  <2>3. exec'[e].st = exec[e].st
    BY <1>4, <2>1 DEF AttemptPasses, Exec
  <2>. QED
    BY <2>2, <2>3 DEF Draws
<1>5. CASE PutCandidate(e)
  <2>1. UNCHANGED items /\ exec[e].pc \in Drawing
    BY <1>5 DEF PutCandidate, Drawing
  <2>2. (\E c : Raise(e, c)) \/ ReleaseCandidate(e)
    BY <1>5 DEF PutCandidate
  <2>3. ASSUME ReleaseCandidate(e) PROVE exec'[e].st = exec[e].st \/ exec'[e].pc \notin Drawing
    BY <2>3, PlainDraws, AdvanceDraws, RouteDraws DEF ReleaseCandidate
  <2>. QED
    BY <2>1, <2>2, <2>3, PlainDraws DEF Draws
<1>6. CASE SaveItem(e)
  <2>1. exec'[e].pc \notin Drawing
    BY <1>6, PlainDraws, AdvanceDraws, RouteDraws DEF SaveItem, CompleteSlot
  <2>. QED
    BY <2>1 DEF Draws
<1>. QED
  BY <1>1, <1>2, <1>3, <1>4, <1>5, <1>6 DEF Attempts

\* The steps outside the graph do not draw.
LEMMA RunnerDraws ==
  ASSUME TypeOK, NEW e \in Execution, ~Attempts(e), Step(e) \/ Interrupted(e) \/ Crash(e)
  PROVE  exec'[e].pc \notin Drawing
<1>1. exec \in [Execution -> Exec] /\ exec[e] \in Exec
  BY DEF TypeOK
<1>2. CASE Start(e) \/ BeginRun(e) \/ FinalizeSet(e) \/ FinalizeRun(e) \/ PutResult(e)
  BY <1>2, PlainDraws DEF Start, BeginRun, FinalizeSet, FinalizeRun, PutResult, Drawing
<1>3. CASE Prepare(e)
  BY <1>1, <1>3, PlainDraws DEF Prepare, Drawing, Exec
<1>4. CASE Invoke(e)
  BY <1>1, <1>4 DEF Invoke, Drawing, Exec
<1>5. CASE Succeed(e) \/ Fail(e)
  BY <1>5, PlainDraws DEF Succeed, Fail
<1>6. CASE Interrupted(e) \/ Crash(e)
  BY <1>1, <1>6, PlainDraws DEF Interrupted, Crash, Gone, Idle, Drawing, Exec
<1>. QED
  BY <1>2, <1>3, <1>4, <1>5, <1>6 DEF Step

\* Every step of an execution is its own.
LEMMA StepActs ==
  ASSUME TypeOK, NEW e \in Execution, Step(e) \/ Interrupted(e) \/ Crash(e)
  PROVE  Acts(e)
<1>1. exec \in [Execution -> Exec] /\ exec[e] \in Exec
  BY DEF TypeOK
<1>2. CASE Start(e)
  <2>1. exec[e].pc = "leased" /\ UNCHANGED live
    BY <1>2 DEF Start
  <2>2. \A f \in Execution \ {e} : exec'[f] = exec[f]
    BY <1>1, <1>2 DEF Start, Goto, Raise
  <2>3. job'.generation = job.generation /\ job'.phase \in Active \cup {job.phase}
    BY <1>2 DEF Start, TypeOK
  <2>. QED
    BY <2>1, <2>2, <2>3 DEF Acts, Live
<1>3. CASE Succeed(e) \/ Fail(e)
  <2>1. Live(exec[e]) /\ UNCHANGED live
    BY <1>3 DEF Succeed, Fail, Live
  <2>2. \A f \in Execution \ {e} : exec'[f] = exec[f]
    BY <1>1, <1>3 DEF Succeed, Fail, Raise, Leave
  <2>3. exec'[e].pc = "gone" \/ UNCHANGED job
    BY <1>1, <1>3 DEF Succeed, Fail, Raise, Leave, Gone, Idle
  <2>. QED
    BY <2>1, <2>2, <2>3 DEF Acts
<1>4. ASSUME ~Start(e), ~Succeed(e), ~Fail(e) PROVE Acts(e)
  <2>1. Moves(e) /\ UNCHANGED job
    <3>1. CASE Attempts(e)
      BY <3>1, AttemptsMoves
    <3>2. CASE ~Attempts(e)
      BY <1>4, <3>2, RunnerMoves DEF Step
    <3>. QED
      BY <3>1, <3>2
  <2>2. Live(exec[e]) /\ UNCHANGED live
    <3>1. CASE Attempts(e)
      BY <3>1 DEF Attempts, ProcureSource, BeginAttempt, BeginDifficultyRegen, RunAttempt,
                  AttemptFails, AttemptPasses, PutCandidate, SaveItem, Live
    <3>2. CASE ~Attempts(e)
      BY <1>4, <3>2 DEF Step, BeginRun, Prepare, Invoke, FinalizeSet, FinalizeRun, PutResult,
                        Interrupted, Crash, Live
    <3>. QED
      BY <3>1, <3>2
  <2>. QED
    BY <2>1, <2>2 DEF Acts, Moves
<1>. QED
  BY <1>2, <1>3, <1>4

\* One execution is live at a time, and draws only for a slot that is free.
LEMMA StepUndrawn ==
  ASSUME ~Outlives, TypeOK, AloneInv, UndrawnInv, [Next]_vars
  PROVE  AloneInv' /\ UndrawnInv'
<1>1. CASE Expire \/ RecoverExpired
  <2>1. UNCHANGED <<exec, items>>
    BY <1>1 DEF Expire, RecoverExpired, stores
  <2>2. ASSUME NEW e \in Execution PROVE ~Live(exec[e])
    BY <1>1, <2>2 DEF Expire, RecoverExpired, AloneInv, Live
  <2>. QED
    BY <2>1, <2>2 DEF AloneInv, UndrawnInv, Live, Drawing
<1>2. ASSUME NEW e \in Execution, Lease(e) PROVE AloneInv' /\ UndrawnInv'
  <2>1. \A f \in Execution : ~Live(exec[f])
    BY <1>2 DEF Lease, AloneInv
  <2>2. exec \in [Execution -> Exec] /\ exec[e] \in Exec
    BY DEF TypeOK
  <2>3. exec'[e].pc = "leased" /\ \A f \in Execution \ {e} : exec'[f] = exec[f]
    BY <1>2, <2>2 DEF Lease, Goto, Exec
  <2>4. job'.generation = e /\ job'.phase \in Active /\ live'
    BY <1>2 DEF Lease, TypeOK
  <2>. QED
    BY <2>1, <2>3, <2>4 DEF AloneInv, UndrawnInv, Live, Drawing
<1>3. ASSUME NEW e \in Execution, Step(e) \/ Interrupted(e) \/ Crash(e)
      PROVE  AloneInv' /\ UndrawnInv'
  <2>1. Acts(e)
    BY <1>3, StepActs
  <2>2. Draws(e)
    BY <1>3, AttemptsDraw, RunnerDraws DEF Draws
  <2>3. ASSUME NEW f \in Execution, f # e PROVE ~Live(exec[f]) /\ exec'[f] = exec[f]
    BY <2>1, <2>3 DEF Acts, AloneInv
  <2>4. AloneInv'
    BY <2>1, <2>3 DEF Acts, AloneInv, Live
  <2>5. UndrawnInv'
    BY <2>2, <2>3 DEF Draws, UndrawnInv, Live, Drawing
  <2>. QED
    BY <2>4, <2>5
<1>4. CASE UNCHANGED vars
  BY <1>4 DEF vars, stores, AloneInv, UndrawnInv, Live
<1>. QED
  BY <1>1, <1>2, <1>3, <1>4 DEF Next

\* A recovered job draws no slot again whose item is stored, as long as no lease expires
\* under a live execution.
THEOREM NoneDrawnAgain == Spec => []NotDrawnAgain
<1>1. Init => AloneInv /\ UndrawnInv
  BY DEF Init, AloneInv, UndrawnInv, Live, Drawing, Idle
<1>2. CASE ~Outlives
  <2>1. TypeOK /\ AloneInv /\ UndrawnInv /\ [Next]_vars => AloneInv' /\ UndrawnInv'
    BY <1>2, StepUndrawn
  <2>2. UndrawnInv => NotDrawnAgain
    BY DEF UndrawnInv, NotDrawnAgain, Drawing
  <2>. QED
    BY <1>1, <2>1, <2>2, TypesKept, PTL DEF Spec
<1>3. CASE Outlives
  <2>1. NotDrawnAgain
    BY <1>3 DEF NotDrawnAgain
  <2>. QED
    BY <2>1, PTL
<1>. QED
  BY <1>2, <1>3
=============================================================================
