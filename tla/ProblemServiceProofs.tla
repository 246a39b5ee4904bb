------------------------ MODULE ProblemServiceProofs ------------------------
(***************************************************************************)
(* What ProblemService guarantees for any number of processes, tenants and *)
(* jobs, whatever is killed, stopped or raised: the queue of a drain       *)
(* agrees with its set of scheduled tenants, so that a queued job its      *)
(* process knows is not forgotten.                                         *)
(***************************************************************************)
EXTENDS ProblemService, FiniteSetTheorems, SequenceTheorems, TLAPS

USE DEF Terminal
-----------------------------------------------------------------------------
(* The inductive invariant.                                                *)

\* The queue lines up the scheduled tenants, each once.
Lined(d) ==
    /\ \A i \in 1..Len(d.queue) : d.queue[i] \in d.scheduled
    /\ \A t \in d.scheduled : \E i \in 1..Len(d.queue) : d.queue[i] = t
    /\ \A i, j \in 1..Len(d.queue) : d.queue[i] = d.queue[j] => i = j

\* A cycle runs one of the jobs, within its share.
InShare(d) == d.pc = "job" => d.job \in Job /\ d.processed < MaxPerCycle

DrainInv == \A p \in Process : Lined(drain[p]) /\ InShare(drain[p])

\* A job that may be swept again has recoveries left.
RowInv == \A j \in Job : jobs[j].phase \in {"queued", "leased"} => jobs[j].recovery < MaxRecovery

\* A process that is down knows nothing, the others know jobs that were enqueued.
ViewInv ==
    \A p \in Process :
        /\ ~Up(p) => views[p] = {}
        /\ \A j \in views[p] : jobs[j].phase # "absent"

\* A handler that goes on runs in a process that is up, and has enqueued its job.
HandlerInv ==
    \A j \in Job : post[j].pc \in {"enqueued", "notified"} =>
        /\ post[j].at \in Process
        /\ Up(post[j].at)
        /\ jobs[j].phase # "absent"

\* The drain has the tenant in its queue, or its turn is not over.
Remembers(d, t) == t \in d.scheduled \/ (d.pc \in {"running", "job"} /\ d.tenant = t)

IInv == TypeOK /\ DrainInv /\ RowInv /\ ViewInv /\ HandlerInv /\ NoneForgotten
-----------------------------------------------------------------------------
(* The queue of a drain.                                                   *)

\* A drain that is down is well-typed, its queue is empty.
LEMMA DownType == Down \in Drain /\ Lined(Down) /\ Down.pc = "down" /\ ~Down.stop
<1>1. 0 \in 0..MaxPerCycle /\ 0 \in 0..MaxJobs /\ 1 \in Tenant
  BY ServiceAssumption DEF Tenant
<1>2. Down \in Drain
  BY <1>1 DEF Down, Drain
<1>3. Lined(Down)
  BY DEF Down, Lined
<1>. QED
  BY <1>2, <1>3 DEF Down

\* The fields of a drain.
LEMMA DrainFields ==
  ASSUME NEW d \in Drain
  PROVE  /\ d.queue \in Seq(Tenant) /\ d.scheduled \in SUBSET Tenant /\ d.tenant \in Tenant
         /\ d.processed \in 0..MaxPerCycle /\ d.job \in 0..MaxJobs /\ d.stop \in BOOLEAN
         /\ d.pc \in {"down", "next", "discovering", "waiting"} \cup InCycle
  BY DEF Drain

\* A queue that lines up the scheduled tenants is as long as they are many.
LEMMA LinedAgrees ==
  ASSUME NEW d \in Drain, Lined(d)
  PROVE  /\ {d.queue[i] : i \in DOMAIN d.queue} = d.scheduled
         /\ Len(d.queue) = Cardinality(d.scheduled)
<1>1. PICK q \in Seq(Tenant) : q = d.queue
  BY DrainFields
<1>2. PICK s \in SUBSET Tenant : s = d.scheduled
  BY DrainFields
<1>3. /\ \A i \in 1..Len(q) : q[i] \in s
      /\ \A t \in s : \E i \in 1..Len(q) : q[i] = t
      /\ \A i, j \in 1..Len(q) : q[i] = q[j] => i = j
  BY <1>1, <1>2 DEF Lined
<1>4. DOMAIN q = 1..Len(q) /\ Len(q) \in Nat
  BY <1>1
<1>5. q \in [1..Len(q) -> s]
  BY <1>1, <1>3
<1>6. q \in Bijection(1..Len(q), s)
  BY <1>3, <1>5 DEF Bijection, Injection, Surjection, IsInjective
<1>7. ExistsBijection(1..Len(q), s)
  BY <1>6 DEF ExistsBijection
<1>8. IsFiniteSet(1..Len(q)) /\ Cardinality(1..Len(q)) = Len(q)
  BY <1>4, FS_Interval
<1>9. Cardinality(s) = Len(q)
  BY <1>7, <1>8, FS_Bijection
<1>10. {q[i] : i \in DOMAIN q} = s
  BY <1>3, <1>4
<1>. QED
  BY <1>1, <1>2, <1>9, <1>10


\* A tenant is queued when it is scheduled.
LEMMA NotifiedOK ==
  ASSUME NEW d \in Drain, Lined(d), NEW t \in Tenant
  PROVE  LET y == Notified(d, t)
         IN  /\ y \in Drain /\ Lined(y)
             /\ y.pc = d.pc /\ y.tenant = d.tenant /\ y.processed = d.processed
             /\ y.job = d.job /\ y.stop = d.stop
             /\ d.scheduled \subseteq y.scheduled
             /\ ~y.stop => t \in y.scheduled
<1>1. CASE d.stop \/ t \in d.scheduled
  BY <1>1 DEF Notified
<1>2. CASE ~(d.stop \/ t \in d.scheduled)
  <2>1. PICK q \in Seq(Tenant) : q = d.queue
    BY DrainFields
  <2>2. PICK s \in SUBSET Tenant : s = d.scheduled
    BY DrainFields
  <2>3. PICK r : r = Append(q, t)
    OBVIOUS
  <2>4. /\ r \in Seq(Tenant) /\ Len(q) \in Nat /\ Len(r) = Len(q) + 1 /\ r[Len(q) + 1] = t
        /\ \A i \in 1..Len(q) : r[i] = q[i]
    BY <2>1, <2>3
  <2>5. /\ \A i \in 1..Len(q) : q[i] \in s
        /\ \A u \in s : \E i \in 1..Len(q) : q[i] = u
        /\ \A i, j \in 1..Len(q) : q[i] = q[j] => i = j
    BY <2>1, <2>2 DEF Lined
  <2>6. PICK y : y = [d EXCEPT !.queue = r, !.scheduled = s \cup {t}]
    OBVIOUS
  <2>7. Notified(d, t) = y
    BY <1>2, <2>1, <2>2, <2>3, <2>6 DEF Notified
  <2>8. /\ y \in Drain /\ y.queue = r /\ y.scheduled = s \cup {t}
        /\ y.pc = d.pc /\ y.tenant = d.tenant /\ y.processed = d.processed
        /\ y.job = d.job /\ y.stop = d.stop
    BY <2>2, <2>4, <2>6 DEF Drain
  <2>9. \A i \in 1..Len(r) : i = Len(q) + 1 \/ i \in 1..Len(q)
    BY <2>4
  <2>10. \A i \in 1..Len(r) : r[i] \in s \cup {t}
    BY <2>4, <2>5, <2>9
  <2>11. \A u \in s \cup {t} : \E i \in 1..Len(r) : r[i] = u
    <3>. TAKE u \in s \cup {t}
    <3>1. CASE u = t
      BY <2>4, <3>1
    <3>2. CASE u \in s
      <4>1. PICK i \in 1..Len(q) : q[i] = u
        BY <2>5, <3>2
      <4>. QED
        BY <2>4, <4>1
    <3>. QED
      BY <3>1, <3>2
  <2>12. \A i, j \in 1..Len(r) : r[i] = r[j] => i = j
    BY <1>2, <2>2, <2>4, <2>5, <2>9
  <2>13. Lined(y)
    BY <2>4, <2>8, <2>10, <2>11, <2>12 DEF Lined
  <2>. QED
    BY <2>2, <2>7, <2>8, <2>13
<1>. QED
  BY <1>1, <1>2

\* A tenant is no longer scheduled when its turn begins.
LEMMA TakenOK ==
  ASSUME NEW d \in Drain, Lined(d), d.queue # <<>>
  PROVE  LET y == Taken(d)
         IN  /\ y \in Drain /\ Lined(y) /\ y.pc = "running" /\ y.stop = d.stop
             /\ \A t \in d.scheduled : Remembers(y, t)
<1>1. PICK q \in Seq(Tenant) : q = d.queue /\ q # <<>>
  BY DrainFields
<1>2. PICK s \in SUBSET Tenant : s = d.scheduled
  BY DrainFields
<1>3. PICK h \in Tenant : h = Head(q) /\ h = q[1]
  BY <1>1
<1>4. PICK r \in Seq(Tenant) :
        /\ r = Tail(q) /\ Len(r) = Len(q) - 1
        /\ \A i \in 1..Len(r) : r[i] = q[i + 1]
  BY <1>1, HeadTailProperties, Zenon
<1>a. Len(q) \in Nat \ {0}
  BY <1>1, EmptySeq
<1>5. /\ \A i \in 1..Len(q) : q[i] \in s
      /\ \A u \in s : \E i \in 1..Len(q) : q[i] = u
      /\ \A i, j \in 1..Len(q) : q[i] = q[j] => i = j
  BY <1>1, <1>2 DEF Lined
<1>6. PICK y : y = [d EXCEPT !.pc = "running", !.tenant = h, !.queue = r,
                             !.scheduled = s \ {h}, !.processed = 0]
  OBVIOUS
<1>7. Taken(d) = y
  BY <1>1, <1>2, <1>3, <1>4, <1>6 DEF Taken
<1>8. 0 \in 0..MaxPerCycle
  BY ServiceAssumption
<1>9. /\ y \in Drain /\ y.queue = r /\ y.scheduled = s \ {h} /\ y.tenant = h
      /\ y.pc = "running" /\ y.stop = d.stop
  BY <1>2, <1>3, <1>4, <1>6, <1>8 DEF Drain, InCycle
<1>10. \A i \in 1..Len(r) : r[i] \in s \ {h}
  BY <1>a, <1>3, <1>4, <1>5
<1>11. \A u \in s \ {h} : \E i \in 1..Len(r) : r[i] = u
  <2>. TAKE u \in s \ {h}
  <2>1. PICK i \in 1..Len(q) : q[i] = u
    BY <1>5
  <2>2. i # 1
    BY <1>3, <2>1
  <2>3. i - 1 \in 1..Len(r) /\ r[i - 1] = q[(i - 1) + 1] /\ (i - 1) + 1 = i
    BY <1>a, <1>4, <2>1, <2>2
  <2>. QED
    BY <2>1, <2>3
<1>12. \A i, j \in 1..Len(r) : r[i] = r[j] => i = j
  <2>. SUFFICES ASSUME NEW i \in 1..Len(r), NEW j \in 1..Len(r), r[i] = r[j] PROVE i = j
    OBVIOUS
  <2>1. q[i + 1] = q[j + 1] /\ i + 1 \in 1..Len(q) /\ j + 1 \in 1..Len(q)
    BY <1>a, <1>4
  <2>2. i + 1 = j + 1
    BY <1>5, <2>1
  <2>. QED
    BY <2>2
<1>13. Lined(y)
  BY <1>9, <1>10, <1>11, <1>12 DEF Lined
<1>14. \A t \in s : Remembers(y, t)
  BY <1>9 DEF Remembers
<1>. QED
  BY <1>2, <1>7, <1>9, <1>13, <1>14

\* At the end of a cycle the tenant is scheduled anew or given up.
LEMMA CycleEndsOK ==
  ASSUME NEW d \in Drain, Lined(d), NEW again \in BOOLEAN
  PROVE  LET y == CycleEnds(d, again)
         IN  /\ y \in Drain /\ Lined(y) /\ y.pc = "pause" /\ y.stop = d.stop
             /\ d.scheduled \subseteq y.scheduled
             /\ again /\ ~y.stop => d.tenant \in y.scheduled
<1>1. PICK b \in Drain : b = IF again THEN Notified(d, d.tenant) ELSE d
  BY NotifiedOK, DrainFields
<1>2. /\ Lined(b) /\ b.stop = d.stop /\ d.scheduled \subseteq b.scheduled
      /\ again /\ ~b.stop => d.tenant \in b.scheduled
  BY <1>1, NotifiedOK, DrainFields
<1>3. PICK y : y = [b EXCEPT !.pc = "pause", !.tenant = 1, !.processed = 0, !.job = 0]
  OBVIOUS
<1>4. CycleEnds(d, again) = y
  BY <1>1, <1>3 DEF CycleEnds
<1>5. 0 \in 0..MaxPerCycle /\ 0 \in 0..MaxJobs /\ 1 \in Tenant
  BY ServiceAssumption DEF Tenant
<1>6. /\ y \in Drain /\ y.queue = b.queue /\ y.scheduled = b.scheduled
      /\ y.pc = "pause" /\ y.stop = b.stop
  BY <1>1, <1>3, <1>5 DEF Drain, InCycle
<1>7. Lined(y)
  BY <1>2, <1>6 DEF Lined
<1>. QED
  BY <1>2, <1>4, <1>6, <1>7

\* The order of the ids lines tenants up, each once.
LEMMA OrderedOK ==
  ASSUME NEW ts \in SUBSET Tenant, NEW q \in Ordered(ts)
  PROVE  /\ q \in Seq(ts)
         /\ \A u \in ts : \E i \in 1..Len(q) : q[i] = u
         /\ \A i, j \in 1..Len(q) : q[i] = q[j] => i = j
<1>1. IsFiniteSet(Tenant)
  BY FS_Interval, ServiceAssumption DEF Tenant
<1>2. IsFiniteSet(ts) /\ Cardinality(ts) \in Nat
  BY <1>1, FS_Subset, FS_CardinalityType
<1>3. PICK n \in Nat : n = Cardinality(ts)
  BY <1>2
<1>4. q \in [1..n -> ts] /\ \A i, j \in 1..n : i < j => q[i] < q[j]
  BY <1>3 DEF Ordered
<1>5. q \in Seq(ts) /\ Len(q) = n
  BY <1>4
<1>6. \A i \in 1..n : q[i] \in Nat
  <2>1. \A t \in ts : t \in Nat
    BY ServiceAssumption DEF Tenant
  <2>. QED
    BY <1>4, <2>1
<1>7. ASSUME NEW i \in 1..n, NEW j \in 1..n, q[i] = q[j] PROVE i = j
  <2>1. ~(i < j) /\ ~(j < i)
    BY <1>4, <1>6, <1>7
  <2>. QED
    BY <2>1
<1>8. q \in Injection(1..n, ts)
  BY <1>4, <1>7 DEF Injection, IsInjective
<1>9. IsFiniteSet(1..n) /\ Cardinality(1..n) = n
  BY <1>3, FS_Interval
<1>10. q \in Surjection(1..n, ts)
  BY <1>2, <1>3, <1>8, <1>9, FS_Injection
<1>11. \A u \in ts : \E i \in 1..n : q[i] = u
  BY <1>10 DEF Surjection
<1>. QED
  BY <1>5, <1>7, <1>11

\* All tenants that were found are queued when they are scheduled.
LEMMA NotifiedAllOK ==
  ASSUME NEW d \in Drain, Lined(d), NEW ts \in SUBSET Tenant, NEW y \in NotifiedAll(d, ts)
  PROVE  /\ y \in Drain /\ Lined(y) /\ y.pc = d.pc /\ y.stop = d.stop
         /\ d.scheduled \subseteq y.scheduled
<1>1. PICK q \in Seq(Tenant) : q = d.queue
  BY DrainFields
<1>2. PICK s \in SUBSET Tenant : s = d.scheduled
  BY DrainFields
<1>3. PICK new : new = IF d.stop THEN {} ELSE ts \ d.scheduled
  OBVIOUS
<1>a. new \in SUBSET Tenant /\ new \cap s = {}
  BY <1>2, <1>3
<1>4. PICK l \in Ordered(new) : y = [d EXCEPT !.queue = q \o l, !.scheduled = s \cup new]
  BY <1>1, <1>2, <1>3 DEF NotifiedAll
<1>5. /\ l \in Seq(new)
      /\ \A u \in new : \E i \in 1..Len(l) : l[i] = u
      /\ \A i, j \in 1..Len(l) : l[i] = l[j] => i = j
  BY <1>a, OrderedOK
<1>6. l \in Seq(Tenant) /\ Len(l) \in Nat /\ Len(q) \in Nat /\ \A i \in 1..Len(l) : l[i] \in new
  BY <1>1, <1>a, <1>5, SeqMonotonic
<1>b. PICK r : r = q \o l
  OBVIOUS
<1>c. /\ r \in Seq(Tenant) /\ Len(r) = Len(q) + Len(l)
      /\ \A i \in 1..Len(q) + Len(l) : r[i] = IF i <= Len(q) THEN q[i] ELSE l[i - Len(q)]
  <2>1. l \in Seq(Tenant)
    BY <1>6
  <2>. QED
    BY <1>1, <1>b, <2>1, ConcatProperties, Zenon
<1>7. /\ r \in Seq(Tenant) /\ Len(r) = Len(q) + Len(l)
      /\ \A i \in 1..Len(r) : r[i] = IF i <= Len(q) THEN q[i] ELSE l[i - Len(q)]
  BY <1>c
<1>8. /\ \A i \in 1..Len(q) : q[i] \in s
      /\ \A u \in s : \E i \in 1..Len(q) : q[i] = u
      /\ \A i, j \in 1..Len(q) : q[i] = q[j] => i = j
  BY <1>1, <1>2 DEF Lined
<1>9. /\ y \in Drain /\ y.queue = r /\ y.scheduled = s \cup new
      /\ y.pc = d.pc /\ y.stop = d.stop
  BY <1>a, <1>2, <1>4, <1>b, <1>7 DEF Drain
<1>10. ASSUME NEW i \in 1..Len(r)
       PROVE  \/ i \in 1..Len(q) /\ r[i] = q[i] /\ r[i] \in s
              \/ /\ ~(i <= Len(q)) /\ i - Len(q) \in 1..Len(l)
                 /\ r[i] = l[i - Len(q)] /\ r[i] \in new
  BY <1>6, <1>7, <1>8
<1>11. \A i \in 1..Len(r) : r[i] \in s \cup new
  BY <1>10
<1>12. \A u \in s \cup new : \E i \in 1..Len(r) : r[i] = u
  <2>. TAKE u \in s \cup new
  <2>1. CASE u \in s
    <3>1. PICK i \in 1..Len(q) : q[i] = u
      BY <1>8, <2>1
    <3>2. i \in 1..Len(r) /\ r[i] = u
      BY <1>6, <1>7, <3>1
    <3>. QED
      BY <3>2
  <2>2. CASE u \in new
    <3>1. PICK i \in 1..Len(l) : l[i] = u
      BY <1>5, <2>2
    <3>2. Len(q) + i \in 1..Len(r) /\ ~(Len(q) + i <= Len(q)) /\ (Len(q) + i) - Len(q) = i
      BY <1>6, <1>7, <3>1
    <3>3. r[Len(q) + i] = u
      BY <1>7, <3>1, <3>2
    <3>. QED
      BY <3>2, <3>3
  <2>. QED
    BY <2>1, <2>2
<1>13. ASSUME NEW i \in 1..Len(r), NEW j \in 1..Len(r), r[i] = r[j] PROVE i = j
  <2>1. CASE r[i] \in s
    <3>1. i \in 1..Len(q) /\ j \in 1..Len(q) /\ q[i] = q[j]
      BY <1>a, <1>10, <1>13, <2>1
    <3>. QED
      BY <1>8, <3>1
  <2>2. CASE r[i] \notin s
    <3>1. /\ i - Len(q) \in 1..Len(l) /\ j - Len(q) \in 1..Len(l)
          /\ l[i - Len(q)] = l[j - Len(q)]
      BY <1>10, <1>13, <2>2
    <3>2. i - Len(q) = j - Len(q)
      BY <1>5, <3>1
    <3>. QED
      BY <1>6, <3>2
  <2>. QED
    BY <2>1, <2>2
<1>14. Lined(y)
  BY <1>9, <1>11, <1>12, <1>13 DEF Lined
<1>. QED
  BY <1>2, <1>9, <1>14
-----------------------------------------------------------------------------
(* The steps of a drain.                                                   *)

\* The fields of a row.
LEMMA RowFields ==
  ASSUME NEW r \in Row
  PROVE  /\ r.phase \in {"absent", "queued", "leased"} \cup Terminal /\ r.tenant \in Tenant
         /\ r.holder \in Process \cup {"lost", "none"} /\ r.recovery \in 0..MaxRecovery
  BY DEF Row

\* The job was queued before, and the drain that remembered it still does.
StillQueued(j, r, d, y) ==
    /\ jobs[j].phase = "queued" /\ r.recovery = jobs[j].recovery
    /\ d.pc # "down" /\ Remembers(d, r.tenant) => y.stop \/ Remembers(y, r.tenant)

\* The job is queued anew by the sweep of a drain that is at its tenant.
Requeued(r, y) == r.recovery # 0 /\ (y.stop \/ Remembers(y, r.tenant))

\* What the step of a drain that goes from d to y may make of the rows.
RowMoves(j, r, d, y) ==
    /\ r.phase \in {"queued", "leased"} => r.recovery < MaxRecovery
    /\ jobs[j].phase # "absent" => r.phase # "absent"
    /\ r.phase = "queued" => StillQueued(j, r, d, y) \/ Requeued(r, y)

\* A step of one drain that forgets no queued job keeps the invariant: what another
\* process's sweep queues again has a recovery, and is not that process's to know.
LEMMA DrainMoves ==
  ASSUME IInv, NEW p \in Process, NEW y \in Drain, Lined(y), InShare(y), y.pc # "down",
         drain' = [drain EXCEPT ![p] = y], UNCHANGED <<post, views>>,
         drain[p].pc # "down" /\ ~y.stop => ~drain[p].stop,
         raises' \in 0..MaxRaises, stops' \in 0..MaxStops, jobs' \in [Job -> Row],
         \A j \in Job : jobs'[j].tenant = jobs[j].tenant /\ RowMoves(j, jobs'[j], drain[p], y)
  PROVE  IInv'
<1>1. TypeOK /\ DrainInv /\ RowInv /\ ViewInv /\ HandlerInv /\ NoneForgotten
  BY DEF IInv
<1>2. drain \in [Process -> Drain]
  BY <1>1 DEF TypeOK
<1>3. drain' \in [Process -> Drain] /\ drain'[p] = y /\ \A q \in Process \ {p} : drain'[q] = drain[q]
  BY <1>2
<1>4. TypeOK'
  BY <1>1, <1>3 DEF TypeOK
<1>5. DrainInv'
  BY <1>1, <1>3 DEF DrainInv, Lined, InShare
<1>6. RowInv'
  BY DEF RowInv, RowMoves
<1>7. \A q \in Process : Up(q) => Up(q)'
  BY <1>3 DEF Up
<1>8. \A j \in Job : jobs[j].phase # "absent" => jobs'[j].phase # "absent"
  BY DEF RowMoves
<1>9. ViewInv'
  <2>1. \A q \in Process : views[q] \in SUBSET Job
    BY <1>1 DEF TypeOK
  <2>. QED
    BY <1>1, <1>7, <1>8, <2>1 DEF ViewInv
<1>10. HandlerInv'
  BY <1>1, <1>7, <1>8 DEF HandlerInv
<1>11. NoneForgotten'
  <2>. SUFFICES ASSUME NEW q \in Process, NEW j \in Job,
                       drain'[q].pc # "down", ~drain'[q].stop, j \in views[q],
                       jobs'[j].phase = "queued", jobs'[j].recovery = 0 \/ Process = {q}
                PROVE  Remembers(drain'[q], jobs'[j].tenant)
    BY DEF NoneForgotten, Remembers, Up
  <2>1. drain[q].pc # "down" /\ jobs[j].phase # "absent"
    BY <1>1 DEF ViewInv, Up
  <2>2. StillQueued(j, jobs'[j], drain[p], y) \/ Requeued(jobs'[j], y)
    BY DEF RowMoves
  <2>3. ASSUME jobs[j].phase = "queued", jobs[j].recovery = jobs'[j].recovery, ~drain[q].stop
        PROVE  Remembers(drain[q], jobs[j].tenant)
    BY <1>1, <2>1, <2>3 DEF NoneForgotten, Remembers, Up
  <2>4. CASE q = p
    <3>1. drain'[q] = y /\ ~y.stop /\ ~drain[q].stop
      BY <1>3, <2>1, <2>4
    <3>2. CASE StillQueued(j, jobs'[j], drain[p], y)
      BY <2>1, <2>3, <2>4, <3>1, <3>2 DEF StillQueued
    <3>3. CASE Requeued(jobs'[j], y)
      BY <3>1, <3>3 DEF Requeued
    <3>. QED
      BY <2>2, <3>2, <3>3
  <2>5. CASE q # p
    <3>1. drain'[q] = drain[q] /\ jobs'[j].recovery = 0
      BY <1>3, <2>5
    <3>2. StillQueued(j, jobs'[j], drain[p], y)
      BY <2>2, <3>1 DEF Requeued
    <3>. QED
      BY <2>3, <3>1, <3>2 DEF StillQueued
  <2>. QED
    BY <2>4, <2>5
<1>. QED
  BY <1>4, <1>5, <1>6, <1>9, <1>10, <1>11 DEF IInv

\* Such a step where no row changes.
LEMMA OnlyDrainMoves ==
  ASSUME IInv, NEW p \in Process, NEW y \in Drain, Lined(y), InShare(y), y.pc # "down",
         drain' = [drain EXCEPT ![p] = y], UNCHANGED <<jobs, post, views>>,
         drain[p].pc # "down" /\ ~y.stop => ~drain[p].stop,
         raises' \in 0..MaxRaises, stops' \in 0..MaxStops,
         \A t \in Tenant : drain[p].pc # "down" /\ Remembers(drain[p], t) => y.stop \/ Remembers(y, t)
  PROVE  IInv'
<1>1. TypeOK /\ RowInv
  BY DEF IInv
<1>2. jobs' \in [Job -> Row] /\ \A j \in Job : jobs[j].tenant \in Tenant
  BY <1>1, RowFields DEF TypeOK
<1>3. \A j \in Job : jobs'[j].tenant = jobs[j].tenant /\ RowMoves(j, jobs'[j], drain[p], y)
  BY <1>1, <1>2 DEF RowInv, RowMoves, StillQueued
<1>. QED
  BY <1>2, <1>3, DrainMoves

\* A job whose lease has expired is counted a recovery and queued, or fails; the others
\* keep their rows.
LEMMA SweptOK ==
  ASSUME TypeOK, RowInv, NEW t \in Tenant
  PROVE  /\ Swept(t) \in [Job -> Row]
         /\ \A j \in Job :
              /\ Swept(t)[j].tenant = jobs[j].tenant
              /\ \/ Swept(t)[j] = jobs[j]
                 \/ /\ jobs[j].phase = "leased" /\ jobs[j].tenant = t
                    /\ Swept(t)[j].recovery \in 1..MaxRecovery
                    /\ \/ Swept(t)[j].phase = "failed"
                       \/ Swept(t)[j].phase = "queued" /\ Swept(t)[j].recovery < MaxRecovery
<1>1. jobs \in [Job -> Row]
  BY DEF TypeOK
<1>2. ASSUME NEW j \in Job
      PROVE  /\ Swept(t)[j] \in Row /\ Swept(t)[j].tenant = jobs[j].tenant
             /\ \/ Swept(t)[j] = jobs[j]
                \/ /\ jobs[j].phase = "leased" /\ jobs[j].tenant = t
                   /\ Swept(t)[j].recovery \in 1..MaxRecovery
                   /\ \/ Swept(t)[j].phase = "failed"
                      \/ Swept(t)[j].phase = "queued" /\ Swept(t)[j].recovery < MaxRecovery
  <2>1. CASE jobs[j].tenant = t /\ Expired(j)
    <3>1. PICK c \in 0..MaxRecovery : c = jobs[j].recovery /\ c < MaxRecovery
      BY <1>1, <2>1, RowFields DEF RowInv, Expired
    <3>2. PICK r : r = [jobs[j] EXCEPT !.recovery = c + 1,
                                       !.phase = IF c + 1 >= MaxRecovery THEN "failed" ELSE "queued"]
      OBVIOUS
    <3>3. Swept(t)[j] = r
      BY <2>1, <3>1, <3>2 DEF Swept
    <3>4. c + 1 \in 0..MaxRecovery /\ c + 1 \in 1..MaxRecovery
      BY <3>1, ServiceAssumption
    <3>5. /\ r \in Row /\ r.recovery = c + 1 /\ r.tenant = jobs[j].tenant
          /\ r.phase = IF c + 1 >= MaxRecovery THEN "failed" ELSE "queued"
      BY <1>1, <3>2, <3>4 DEF Row
    <3>6. r.phase = "failed" \/ (r.phase = "queued" /\ r.recovery < MaxRecovery)
      BY <3>1, <3>5, ServiceAssumption
    <3>. QED
      BY <2>1, <3>3, <3>4, <3>5, <3>6 DEF Expired
  <2>2. CASE ~(jobs[j].tenant = t /\ Expired(j))
    BY <1>1, <2>2 DEF Swept
  <2>. QED
    BY <2>1, <2>2
<1>3. Swept(t) = [j \in Job |-> Swept(t)[j]]
  BY DEF Swept
<1>. QED
  BY <1>2, <1>3

\* The parts of the invariant that a step of a drain needs.
LEMMA DrainNow ==
  ASSUME IInv, NEW p \in Process
  PROVE  /\ TypeOK /\ RowInv
         /\ drain[p] \in Drain /\ Lined(drain[p]) /\ InShare(drain[p])
         /\ raises \in 0..MaxRaises /\ stops \in 0..MaxStops
         /\ \A j \in Job : jobs[j] \in Row
  BY DEF IInv, TypeOK, DrainInv

\* A drain whose queue is left alone: only its place in the loop, and the stop.
LEMMA Stays ==
  ASSUME NEW d \in Drain, Lined(d), NEW pc \in {"next", "discovering", "waiting"},
         NEW y, y = [d EXCEPT !.pc = pc]
  PROVE  /\ y \in Drain /\ Lined(y) /\ InShare(y) /\ y.pc = pc /\ y.stop = d.stop
         /\ y.scheduled = d.scheduled
<1>1. y \in Drain
  BY DEF Drain
<1>2. y.queue = d.queue /\ y.scheduled = d.scheduled /\ y.pc = pc /\ y.stop = d.stop
  BY DEF Drain
<1>3. Lined(y) /\ InShare(y)
  BY <1>2 DEF Lined, InShare
<1>. QED
  BY <1>1, <1>2, <1>3

\* A process starts with an empty queue and no view.
LEMMA StartupStep == ASSUME IInv, NEW p \in Process, Startup(p) PROVE IInv'
<1>1. PICK y : y = [Down EXCEPT !.pc = "next"]
  OBVIOUS
<1>2. y \in Drain /\ y.pc = "next" /\ Lined(y) /\ InShare(y)
  BY <1>1, DownType, Stays
<1>. QED
  BY <1>1, <1>2, DrainNow, OnlyDrainMoves DEF Startup, Set, DrainOnly

\* The next tenant's turn begins, or the drain looks for tenants.
LEMMA NextTenantStep == ASSUME IInv, NEW p \in Process, NextTenant(p) PROVE IInv'
<1>1. PICK d \in Drain : d = drain[p] /\ Lined(d) /\ d.pc = "next"
  BY DrainNow DEF NextTenant
<1>2. \A t : Remembers(d, t) => t \in d.scheduled
  BY <1>1 DEF Remembers
<1>3. CASE d.queue # <<>>
  <2>1. PICK y \in Drain : /\ y = Taken(d) /\ Lined(y) /\ y.pc = "running" /\ y.stop = d.stop
                           /\ \A t \in d.scheduled : Remembers(y, t)
    BY <1>1, <1>3, TakenOK
  <2>2. InShare(y)
    BY <2>1 DEF InShare
  <2>. QED
    BY <1>1, <1>2, <1>3, <2>1, <2>2, DrainNow, OnlyDrainMoves DEF NextTenant, Set, DrainOnly
<1>4. CASE d.queue = <<>>
  <2>1. PICK pc \in {"discovering", "waiting"} : pc = IF Persistent THEN "discovering" ELSE "waiting"
    OBVIOUS
  <2>2. PICK y : y = [d EXCEPT !.pc = pc]
    OBVIOUS
  <2>3. /\ y \in Drain /\ Lined(y) /\ InShare(y) /\ y.pc = pc
        /\ y.stop = d.stop /\ y.scheduled = d.scheduled
    BY <1>1, <2>1, <2>2, Stays
  <2>. QED
    BY <1>1, <1>2, <1>4, <2>1, <2>2, <2>3, DrainNow, OnlyDrainMoves
    DEF NextTenant, Set, DrainOnly, Remembers
<1>. QED
  BY <1>3, <1>4

\* The tenants that were found are scheduled, and the first one's turn begins.
LEMMA DiscoverStep == ASSUME IInv, NEW p \in Process, Discover(p) PROVE IInv'
<1>1. PICK d \in Drain : d = drain[p] /\ Lined(d) /\ d.pc = "discovering"
  BY DrainNow DEF Discover
<1>2. \A t : Remembers(d, t) => t \in d.scheduled
  BY <1>1 DEF Remembers
<1>3. Discovered \in SUBSET Tenant
  BY DrainNow, RowFields DEF Discovered, Pending
<1>4. PICK found \in {Discovered, {}} : \E told \in NotifiedAll(d, found) :
        /\ found = {} => Discovered = {} \/ raises < MaxRaises
        /\ raises' = IF found = Discovered THEN raises ELSE raises + 1
        /\ Set(p, IF told.queue # <<>> THEN Taken(told) ELSE [told EXCEPT !.pc = "waiting"])
  BY <1>1 DEF Discover
<1>5. PICK told \in NotifiedAll(d, found) :
        /\ found = {} => Discovered = {} \/ raises < MaxRaises
        /\ raises' = IF found = Discovered THEN raises ELSE raises + 1
        /\ Set(p, IF told.queue # <<>> THEN Taken(told) ELSE [told EXCEPT !.pc = "waiting"])
  BY <1>4
<1>6. raises' \in 0..MaxRaises
  <2>1. CASE found = Discovered
    BY <1>5, <2>1, DrainNow
  <2>2. CASE found # Discovered
    <3>1. raises < MaxRaises /\ raises' = raises + 1
      BY <1>5, <2>2
    <3>. QED
      BY <3>1, DrainNow, ServiceAssumption
  <2>. QED
    BY <2>1, <2>2
<1>7. /\ told \in Drain /\ Lined(told) /\ told.pc = d.pc /\ told.stop = d.stop
      /\ d.scheduled \subseteq told.scheduled
  BY <1>1, <1>3, NotifiedAllOK
<1>8. UNCHANGED <<jobs, post, views, stops>>
  BY DEF Discover
<1>9. CASE told.queue # <<>>
  <2>1. PICK y \in Drain : /\ y = Taken(told) /\ Lined(y) /\ y.pc = "running" /\ y.stop = d.stop
                           /\ \A t \in d.scheduled : Remembers(y, t)
    BY <1>7, <1>9, TakenOK
  <2>2. InShare(y)
    BY <2>1 DEF InShare
  <2>. QED
    BY <1>1, <1>2, <1>5, <1>6, <1>8, <1>9, <2>1, <2>2, DrainNow, OnlyDrainMoves DEF Set
<1>10. CASE told.queue = <<>>
  <2>1. PICK y : y = [told EXCEPT !.pc = "waiting"]
    OBVIOUS
  <2>2. /\ y \in Drain /\ Lined(y) /\ InShare(y) /\ y.pc = "waiting"
        /\ y.stop = d.stop /\ y.scheduled = told.scheduled
    BY <1>7, <2>1, Stays
  <2>. QED
    BY <1>1, <1>2, <1>5, <1>6, <1>7, <1>8, <1>10, <2>1, <2>2, DrainNow, OnlyDrainMoves
    DEF Set, Remembers
<1>. QED
  BY <1>9, <1>10

\* A tenant was scheduled in time.
LEMMA WokenStep == ASSUME IInv, NEW p \in Process, Woken(p) PROVE IInv'
<1>1. PICK d \in Drain : d = drain[p] /\ Lined(d) /\ d.pc = "waiting" /\ d.queue # <<>>
  BY DrainNow DEF Woken
<1>2. \A t : Remembers(d, t) => t \in d.scheduled
  BY <1>1 DEF Remembers
<1>3. PICK y \in Drain : /\ y = Taken(d) /\ Lined(y) /\ y.pc = "running" /\ y.stop = d.stop
                         /\ \A t \in d.scheduled : Remembers(y, t)
  BY <1>1, TakenOK
<1>4. InShare(y)
  BY <1>3 DEF InShare
<1>. QED
  BY <1>1, <1>2, <1>3, <1>4, DrainNow, OnlyDrainMoves DEF Woken, Set, DrainOnly

\* Back to the head of the loop, after the idle interval or the pause.
LEMMA BackStep ==
  ASSUME IInv, NEW p \in Process, WaitTimesOut(p) \/ PauseEnds(p) PROVE IInv'
<1>1. PICK d \in Drain : d = drain[p] /\ Lined(d) /\ d.pc \in {"waiting", "pause"}
  BY DrainNow DEF WaitTimesOut, PauseEnds
<1>2. PICK y : y = [d EXCEPT !.pc = "next"]
  OBVIOUS
<1>3. /\ y \in Drain /\ Lined(y) /\ InShare(y) /\ y.pc = "next"
      /\ y.stop = d.stop /\ y.scheduled = d.scheduled
  BY <1>1, <1>2, Stays
<1>. QED
  BY <1>1, <1>2, <1>3, DrainNow, OnlyDrainMoves
  DEF WaitTimesOut, PauseEnds, Set, DrainOnly, Remembers

\* The drain is told to stop: from here on it may forget.
LEMMA ShutdownStep == ASSUME IInv, NEW p \in Process, Shutdown(p) PROVE IInv'
<1>1. PICK d \in Drain : d = drain[p] /\ Lined(d) /\ InShare(d) /\ d.pc # "down"
  BY DrainNow DEF Shutdown, Up
<1>2. PICK y : y = [d EXCEPT !.stop = TRUE]
  OBVIOUS
<1>3. y \in Drain
  BY <1>2 DEF Drain
<1>4. /\ y.queue = d.queue /\ y.scheduled = d.scheduled /\ y.pc = d.pc /\ y.stop
      /\ y.job = d.job /\ y.processed = d.processed
  BY <1>2 DEF Drain
<1>5. Lined(y) /\ InShare(y)
  BY <1>1, <1>4 DEF Lined, InShare
<1>6. stops' \in 0..MaxStops /\ raises' \in 0..MaxRaises
  BY DrainNow, ServiceAssumption DEF Shutdown
<1>7. drain' = [drain EXCEPT ![p] = y] /\ UNCHANGED <<jobs, post, views>>
  BY <1>1, <1>2 DEF Shutdown, Set
<1>. QED
  BY <1>1, <1>3, <1>4, <1>5, <1>6, <1>7, OnlyDrainMoves
-----------------------------------------------------------------------------
(* The steps of a cycle.                                                   *)

\* A row the sweep of the tenant leaves, as a step of a drain that still remembers the
\* tenant may leave it.
LEMMA SweptMoves ==
  ASSUME IInv, NEW t \in Tenant, NEW d, NEW y, y.stop \/ Remembers(y, t),
         \A u \in Tenant : Remembers(d, u) => y.stop \/ Remembers(y, u), NEW j \in Job
  PROVE  RowMoves(j, Swept(t)[j], d, y)
<1>1. TypeOK /\ RowInv
  BY DEF IInv
<1>2. jobs[j] \in Row /\ jobs[j].tenant \in Tenant
  BY <1>1, RowFields DEF TypeOK
<1>3. CASE Swept(t)[j] = jobs[j]
  BY <1>1, <1>2, <1>3 DEF RowInv, RowMoves, StillQueued
<1>4. CASE /\ jobs[j].phase = "leased" /\ jobs[j].tenant = t /\ Swept(t)[j].tenant = jobs[j].tenant
           /\ Swept(t)[j].recovery \in 1..MaxRecovery
           /\ \/ Swept(t)[j].phase = "failed"
              \/ Swept(t)[j].phase = "queued" /\ Swept(t)[j].recovery < MaxRecovery
  <2>1. Swept(t)[j].recovery # 0
    BY <1>4
  <2>. QED
    BY <1>4, <2>1 DEF RowMoves, Requeued
<1>. QED
  BY <1>1, <1>3, <1>4, SweptOK

\* A job of the tenant is leased.
LEMMA LeaseJobStep == ASSUME IInv, NEW p \in Process, LeaseJob(p) PROVE IInv'
<1>1. PICK d \in Drain : /\ d = drain[p] /\ Lined(d) /\ d.pc = "running" /\ d.processed < MaxPerCycle
                         /\ d.tenant \in Tenant
  BY DrainNow, DrainFields DEF LeaseJob
<1>2. PICK rows \in [Job -> Row] : rows = Swept(d.tenant)
  BY <1>1, DrainNow, SweptOK
<1>3. PICK j \in QueuedOf(rows, d.tenant) :
        /\ jobs' = [rows EXCEPT ![j] = [rows[j] EXCEPT !.phase = "leased", !.holder = p]]
        /\ Set(p, [d EXCEPT !.pc = "job", !.job = j])
  BY <1>1, <1>2 DEF LeaseJob
<1>4. j \in Job /\ rows[j].phase = "queued"
  BY <1>3 DEF QueuedOf
<1>5. PICK y : y = [d EXCEPT !.pc = "job", !.job = j]
  OBVIOUS
<1>6. 1..MaxJobs \subseteq 0..MaxJobs
  BY ServiceAssumption
<1>7. y \in Drain
  BY <1>4, <1>5, <1>6 DEF Drain, InCycle, Job
<1>8. /\ y.queue = d.queue /\ y.scheduled = d.scheduled /\ y.pc = "job" /\ y.stop = d.stop
      /\ y.tenant = d.tenant /\ y.processed = d.processed /\ y.job = j
  BY <1>5 DEF Drain
<1>9. Lined(y) /\ InShare(y)
  BY <1>1, <1>4, <1>8 DEF Lined, InShare
<1>10. Remembers(y, d.tenant) /\ \A u : Remembers(d, u) => Remembers(y, u)
  BY <1>8 DEF Remembers
<1>11. \A i \in Job : RowMoves(i, rows[i], d, y) /\ rows[i].tenant = jobs[i].tenant
  BY <1>1, <1>2, <1>10, SweptMoves, SweptOK, DrainNow
<1>12. PICK r : r = [rows[j] EXCEPT !.phase = "leased", !.holder = p]
  OBVIOUS
<1>13. r \in Row /\ r.phase = "leased" /\ r.tenant = rows[j].tenant /\ r.recovery = rows[j].recovery
  BY <1>4, <1>12 DEF Row
<1>14. RowMoves(j, r, d, y)
  BY <1>4, <1>11, <1>13 DEF RowMoves
<1>15. jobs' = [rows EXCEPT ![j] = r]
  BY <1>3, <1>12
<1>16. jobs' \in [Job -> Row]
  BY <1>13, <1>15
<1>17. \A i \in Job : RowMoves(i, jobs'[i], d, y) /\ jobs'[i].tenant = jobs[i].tenant
  BY <1>4, <1>11, <1>13, <1>14, <1>15
<1>18. drain' = [drain EXCEPT ![p] = y] /\ UNCHANGED <<post, views, raises, stops>>
  BY <1>3, <1>5 DEF LeaseJob, Set
<1>. QED
  BY <1>1, <1>7, <1>8, <1>9, <1>16, <1>17, <1>18, DrainNow, DrainMoves

\* The end of a cycle, when the tenant is scheduled anew.
LEMMA Again ==
  ASSUME NEW d \in Drain, Lined(d), NEW y, y = CycleEnds(d, TRUE)
  PROVE  /\ y \in Drain /\ Lined(y) /\ InShare(y) /\ y.pc = "pause" /\ y.stop = d.stop
         /\ \A u \in Tenant : Remembers(d, u) => y.stop \/ Remembers(y, u)
<1>1. /\ y \in Drain /\ Lined(y) /\ y.pc = "pause" /\ y.stop = d.stop
      /\ d.scheduled \subseteq y.scheduled /\ (~y.stop => d.tenant \in y.scheduled)
  BY CycleEndsOK
<1>2. InShare(y)
  BY <1>1 DEF InShare
<1>3. \A u \in Tenant : Remembers(d, u) => y.stop \/ Remembers(y, u)
  BY <1>1 DEF Remembers
<1>. QED
  BY <1>1, <1>2, <1>3

\* The cycle has had its share, or no job of the tenant is left.
LEMMA CycleDoneStep == ASSUME IInv, NEW p \in Process, CycleDone(p) PROVE IInv'
<1>1. PICK d \in Drain : d = drain[p] /\ Lined(d) /\ d.pc = "running" /\ d.tenant \in Tenant
  BY DrainNow, DrainFields DEF CycleDone
<1>2. CASE d.processed = MaxPerCycle /\ jobs' = jobs
  <2>1. PICK y : y = CycleEnds(d, TRUE)
    OBVIOUS
  <2>2. drain' = [drain EXCEPT ![p] = y] /\ UNCHANGED <<jobs, post, views, raises, stops>>
    BY <1>1, <1>2, <2>1 DEF CycleDone, Set
  <2>3. /\ y \in Drain /\ Lined(y) /\ InShare(y) /\ y.pc = "pause" /\ y.stop = d.stop
        /\ \A u \in Tenant : Remembers(d, u) => y.stop \/ Remembers(y, u)
    BY <1>1, <2>1, Again
  <2>. QED
    BY <1>1, <2>2, <2>3, DrainNow, OnlyDrainMoves
<1>3. CASE /\ d.processed < MaxPerCycle /\ d.processed # MaxPerCycle
           /\ QueuedOf(Swept(d.tenant), d.tenant) = {} /\ jobs' = Swept(d.tenant)
  <2>1. PICK y : y = CycleEnds(d, FALSE)
    OBVIOUS
  <2>2. drain' = [drain EXCEPT ![p] = y] /\ UNCHANGED <<post, views, raises, stops>>
    BY <1>1, <1>3, <2>1 DEF CycleDone, Set
  <2>3. /\ y \in Drain /\ Lined(y) /\ y.pc = "pause" /\ y.stop = d.stop
        /\ d.scheduled \subseteq y.scheduled
    BY <1>1, <2>1, CycleEndsOK
  <2>4. InShare(y)
    BY <2>3 DEF InShare
  <2>5. /\ jobs' \in [Job -> Row]
        /\ \A j \in Job :
             /\ jobs'[j].tenant = jobs[j].tenant
             /\ \/ jobs'[j] = jobs[j]
                \/ /\ jobs[j].phase = "leased" /\ jobs[j].tenant = d.tenant
                   /\ \/ jobs'[j].phase = "failed"
                      \/ jobs'[j].phase = "queued" /\ jobs'[j].recovery < MaxRecovery
    BY <1>1, <1>3, DrainNow, SweptOK
  <2>6. \A j \in Job : jobs'[j].phase = "queued" => jobs'[j].tenant # d.tenant
    BY <1>3 DEF QueuedOf
  <2>7. ASSUME NEW j \in Job PROVE RowMoves(j, jobs'[j], d, y)
    <3>1. CASE jobs'[j] = jobs[j]
      <4>1. jobs[j].phase \in {"queued", "leased"} => jobs[j].recovery < MaxRecovery
        BY DrainNow DEF RowInv
      <4>2. jobs[j].phase = "queued" /\ Remembers(d, jobs[j].tenant) => Remembers(y, jobs[j].tenant)
        BY <2>3, <2>6, <3>1 DEF Remembers
      <4>. QED
        BY <3>1, <4>1, <4>2 DEF RowMoves, StillQueued
    <3>2. CASE jobs[j].phase = "leased" /\ jobs[j].tenant = d.tenant /\ jobs'[j].phase = "failed"
      BY <3>2 DEF RowMoves
    <3>. QED
      BY <2>5, <2>6, <3>1, <3>2
  <2>. QED
    BY <1>1, <2>2, <2>3, <2>4, <2>5, <2>7, DrainNow, DrainMoves
<1>4. \A n \in 0..MaxPerCycle : n < MaxPerCycle => n # MaxPerCycle
  BY ServiceAssumption
<1>5. d.processed \in 0..MaxPerCycle
  BY DrainFields
<1>. QED
  BY <1>1, <1>2, <1>3, <1>4, <1>5 DEF CycleDone

\* The runner raises without a job: the tenant is scheduled anew.
LEMMA RaisesStep == ASSUME IInv, NEW p \in Process, RunNextRaises(p) PROVE IInv'
<1>1. PICK d \in Drain : d = drain[p] /\ Lined(d) /\ d.pc = "running"
  BY DrainNow DEF RunNextRaises
<1>2. PICK y : y = CycleEnds(d, TRUE)
  OBVIOUS
<1>3. raises' \in 0..MaxRaises
  BY DrainNow, ServiceAssumption DEF RunNextRaises
<1>4. drain' = [drain EXCEPT ![p] = y] /\ UNCHANGED <<jobs, post, views, stops>>
  BY <1>1, <1>2 DEF RunNextRaises, Set
<1>5. /\ y \in Drain /\ Lined(y) /\ InShare(y) /\ y.pc = "pause" /\ y.stop = d.stop
      /\ \A u \in Tenant : Remembers(d, u) => y.stop \/ Remembers(y, u)
  BY <1>1, <1>2, Again
<1>. QED
  BY <1>1, <1>3, <1>4, <1>5, DrainNow, OnlyDrainMoves

\* One row changes and its job is not queued.
LEMMA OneRow ==
  ASSUME IInv, NEW k \in Job, NEW r \in Row, jobs' = [jobs EXCEPT ![k] = r],
         r.tenant = jobs[k].tenant, r.phase \notin {"absent", "queued"},
         r.phase = "leased" => r.recovery = jobs[k].recovery /\ jobs[k].phase = "leased",
         NEW d, NEW y, \A u \in Tenant : Remembers(d, u) => y.stop \/ Remembers(y, u)
  PROVE  /\ jobs' \in [Job -> Row]
         /\ \A j \in Job : jobs'[j].tenant = jobs[j].tenant /\ RowMoves(j, jobs'[j], d, y)
<1>1. RowInv /\ jobs \in [Job -> Row] /\ \A j \in Job : jobs[j].tenant \in Tenant
  BY DrainNow, RowFields DEF IInv, TypeOK
<1>2. jobs' \in [Job -> Row] /\ jobs'[k] = r /\ \A j \in Job \ {k} : jobs'[j] = jobs[j]
  BY <1>1
<1>3. RowMoves(k, r, d, y)
  BY <1>1 DEF RowMoves, RowInv
<1>4. \A j \in Job \ {k} : RowMoves(j, jobs[j], d, y)
  BY <1>1 DEF RowMoves, RowInv, StillQueued
<1>. QED
  BY <1>2, <1>3, <1>4

\* A job is done and its cycle goes on, one job further in its share.
LEMMA SucceedsStep == ASSUME IInv, NEW p \in Process, JobSucceeds(p) PROVE IInv'
<1>1. PICK d \in Drain : /\ d = drain[p] /\ Lined(d) /\ d.pc = "job" /\ d.job \in Job
                         /\ d.processed < MaxPerCycle /\ d.processed \in 0..MaxPerCycle
  BY DrainNow, DrainFields DEF JobSucceeds, InShare
<1>2. PICK y : y = [d EXCEPT !.pc = "running", !.processed = d.processed + 1, !.job = 0]
  OBVIOUS
<1>3. d.processed + 1 \in 0..MaxPerCycle /\ 0 \in 0..MaxJobs
  BY <1>1, ServiceAssumption
<1>4. y \in Drain
  BY <1>2, <1>3 DEF Drain, InCycle
<1>5. /\ y.queue = d.queue /\ y.scheduled = d.scheduled /\ y.pc = "running" /\ y.stop = d.stop
      /\ y.tenant = d.tenant
  BY <1>2 DEF Drain
<1>6. Lined(y) /\ InShare(y) /\ \A u : Remembers(d, u) => Remembers(y, u)
  <2>1. Lined(y)
    BY <1>1, <1>5 DEF Lined
  <2>2. InShare(y)
    BY <1>5 DEF InShare
  <2>3. ASSUME NEW u, Remembers(d, u) PROVE Remembers(y, u)
    BY <1>5, <2>3 DEF Remembers
  <2>. QED
    BY <2>1, <2>2, <2>3
<1>7. PICK r : r = [jobs[d.job] EXCEPT !.phase = "succeeded", !.holder = "none"]
  OBVIOUS
<1>8. r \in Row /\ r.phase = "succeeded" /\ r.tenant = jobs[d.job].tenant
  BY <1>1, <1>7, DrainNow DEF Row
<1>9. /\ jobs' = [jobs EXCEPT ![d.job] = r] /\ drain' = [drain EXCEPT ![p] = y]
      /\ UNCHANGED <<post, views, raises, stops>>
  BY <1>1, <1>2, <1>7 DEF JobSucceeds, Set
<1>10. /\ jobs' \in [Job -> Row]
       /\ \A j \in Job : jobs'[j].tenant = jobs[j].tenant /\ RowMoves(j, jobs'[j], d, y)
  BY <1>1, <1>6, <1>8, <1>9, OneRow
<1>. QED
  BY <1>1, <1>4, <1>5, <1>6, <1>9, <1>10, DrainNow, DrainMoves

\* A job fails, or its execution has lost it: the tenant is scheduled anew.
LEMMA FailsStep == ASSUME IInv, NEW p \in Process, JobFails(p) PROVE IInv'
<1>1. PICK d \in Drain : /\ d = drain[p] /\ Lined(d) /\ d.pc = "job" /\ d.job \in Job
  BY DrainNow DEF JobFails, InShare
<1>2. PICK y : y = CycleEnds(d, TRUE)
  OBVIOUS
<1>3. /\ y \in Drain /\ Lined(y) /\ InShare(y) /\ y.pc = "pause" /\ y.stop = d.stop
      /\ \A u \in Tenant : Remembers(d, u) => y.stop \/ Remembers(y, u)
  BY <1>1, <1>2, Again
<1>4. drain' = [drain EXCEPT ![p] = y] /\ UNCHANGED <<post, views, stops>>
  BY <1>1, <1>2 DEF JobFails, Set
<1>5. CASE /\ jobs' = [jobs EXCEPT ![d.job] = [jobs[d.job] EXCEPT !.phase = "failed", !.holder = "none"]]
           /\ UNCHANGED raises
  <2>1. PICK r : r = [jobs[d.job] EXCEPT !.phase = "failed", !.holder = "none"]
    OBVIOUS
  <2>2. r \in Row /\ r.phase = "failed" /\ r.tenant = jobs[d.job].tenant
    BY <1>1, <2>1, DrainNow DEF Row
  <2>3. /\ jobs' \in [Job -> Row]
        /\ \A j \in Job : jobs'[j].tenant = jobs[j].tenant /\ RowMoves(j, jobs'[j], d, y)
    BY <1>1, <1>3, <1>5, <2>1, <2>2, OneRow
  <2>. QED
    BY <1>1, <1>3, <1>4, <1>5, <2>3, DrainNow, DrainMoves
<1>6. CASE /\ raises < MaxRaises /\ jobs' = [jobs EXCEPT ![d.job].holder = "lost"]
           /\ raises' = raises + 1
  <2>1. raises' \in 0..MaxRaises
    BY <1>6, DrainNow, ServiceAssumption
  <2>2. RowInv /\ jobs \in [Job -> Row] /\ \A j \in Job : jobs[j].tenant \in Tenant
    BY DrainNow, RowFields DEF TypeOK
  <2>3. PICK r : r = [jobs[d.job] EXCEPT !.holder = "lost"]
    OBVIOUS
  <2>4. /\ r \in Row /\ r.phase = jobs[d.job].phase /\ r.tenant = jobs[d.job].tenant
        /\ r.recovery = jobs[d.job].recovery
    BY <1>1, <2>2, <2>3 DEF Row
  <2>5. jobs' = [jobs EXCEPT ![d.job] = r]
    BY <1>6, <2>3
  <2>6. jobs' \in [Job -> Row]
    BY <2>2, <2>4, <2>5
  <2>7. ASSUME NEW j \in Job
        PROVE  /\ jobs'[j].tenant = jobs[j].tenant /\ jobs'[j].phase = jobs[j].phase
               /\ jobs'[j].recovery = jobs[j].recovery
    BY <1>1, <2>2, <2>4, <2>5
  <2>8. \A j \in Job : jobs'[j].tenant = jobs[j].tenant /\ RowMoves(j, jobs'[j], d, y)
    BY <1>3, <2>2, <2>7 DEF RowMoves, RowInv, StillQueued
  <2>. QED
    BY <1>1, <1>3, <1>4, <2>1, <2>6, <2>8, DrainNow, DrainMoves
<1>. QED
  BY <1>1, <1>5, <1>6 DEF JobFails
-----------------------------------------------------------------------------
(* The other steps.                                                        *)

\* A lease runs out: the row stays what it was otherwise.
LEMMA LeaseExpiresStep == ASSUME IInv, NEW k \in Job, LeaseExpires(k) PROVE IInv'
<1>1. TypeOK /\ DrainInv /\ RowInv /\ ViewInv /\ HandlerInv /\ NoneForgotten
  BY DEF IInv
<1>2. UNCHANGED <<post, views, drain, raises, stops>>
  BY DEF LeaseExpires
<1>3. PICK r : r = [jobs[k] EXCEPT !.holder = "none"]
  OBVIOUS
<1>4. jobs[k] \in Row /\ jobs \in [Job -> Row]
  BY <1>1 DEF TypeOK
<1>5. /\ r \in Row /\ r.phase = jobs[k].phase /\ r.tenant = jobs[k].tenant
      /\ r.recovery = jobs[k].recovery
  BY <1>3, <1>4 DEF Row
<1>6. jobs' = [jobs EXCEPT ![k] = r]
  BY <1>3 DEF LeaseExpires
<1>7. jobs' \in [Job -> Row]
  BY <1>4, <1>5, <1>6
<1>8. \A j \in Job : /\ jobs'[j].tenant = jobs[j].tenant /\ jobs'[j].phase = jobs[j].phase
                     /\ jobs'[j].recovery = jobs[j].recovery
  BY <1>4, <1>5, <1>6
<1>9. TypeOK'
  BY <1>1, <1>2, <1>7 DEF TypeOK
<1>10. DrainInv' /\ RowInv'
  BY <1>1, <1>2, <1>8 DEF DrainInv, RowInv
<1>11. ViewInv' /\ HandlerInv'
  <2>1. \A q \in Process : views[q] \in SUBSET Job
    BY <1>1 DEF TypeOK
  <2>. QED
    BY <1>1, <1>2, <1>8, <2>1 DEF ViewInv, HandlerInv, Up
<1>12. NoneForgotten'
  BY <1>1, <1>2, <1>8 DEF NoneForgotten, Up
<1>. QED
  BY <1>9, <1>10, <1>11, <1>12 DEF IInv

\* A process ends, and with it its handlers, its view and its queue; in PostgreSQL the
\* rows stay, in memory all of them end, and no other process has a view of them.
LEMMA GoneStep ==
  ASSUME IInv, NEW p \in Process, Gone(p), stops' \in 0..MaxStops PROVE IInv'
<1>1. TypeOK /\ DrainInv /\ RowInv /\ ViewInv /\ HandlerInv /\ NoneForgotten
  BY DEF IInv
<1>2. /\ drain' \in [Process -> Drain] /\ drain'[p] = Down
      /\ \A q \in Process \ {p} : drain'[q] = drain[q]
  BY <1>1, DownType DEF TypeOK, Gone, Set
<1>3. /\ views' \in [Process -> SUBSET Job] /\ views'[p] = {}
      /\ \A q \in Process \ {p} : views'[q] = views[q]
  BY <1>1 DEF TypeOK, Gone
<1>4. Over \in Handler /\ Over.pc = "over"
  BY DEF Over, NoHandler, Handler
<1>5. /\ post' \in [Job -> Handler]
      /\ \A j \in Job : /\ post[j].at = p => post'[j].pc = "over"
                        /\ post[j].at # p => post'[j] = post[j]
  BY <1>1, <1>4 DEF TypeOK, Gone
<1>6. raises' \in 0..MaxRaises
  BY <1>1 DEF TypeOK, Gone
<1>7. DrainInv'
  <2>1. Lined(Down) /\ InShare(Down)
    BY DownType DEF InShare
  <2>. QED
    BY <1>1, <1>2, <2>1 DEF DrainInv
<1>8. Down.pc = "down"
  BY DownType
<1>9. CASE Persistent
  <2>1. /\ jobs' \in [Job -> Row]
        /\ \A j \in Job : /\ jobs'[j].phase = jobs[j].phase /\ jobs'[j].tenant = jobs[j].tenant
                          /\ jobs'[j].recovery = jobs[j].recovery
    <3>1. jobs' = [j \in Job |-> IF jobs[j].holder = p THEN [jobs[j] EXCEPT !.holder = "lost"]
                                 ELSE jobs[j]]
      BY <1>9 DEF Gone, Survives
    <3>2. ASSUME NEW j \in Job
          PROVE  LET r == [jobs[j] EXCEPT !.holder = "lost"]
                 IN  /\ r \in Row /\ r.phase = jobs[j].phase /\ r.tenant = jobs[j].tenant
                     /\ r.recovery = jobs[j].recovery /\ jobs[j] \in Row
      BY <1>1 DEF TypeOK, Row
    <3>. QED
      BY <3>1, <3>2
  <2>2. TypeOK'
    BY <1>1, <1>2, <1>3, <1>5, <1>6, <2>1 DEF TypeOK
  <2>3. RowInv'
    BY <1>1, <2>1 DEF RowInv
  <2>4. ViewInv'
    <3>1. \A q \in Process : views[q] \in SUBSET Job
      BY <1>1 DEF TypeOK
    <3>. QED
      BY <1>1, <1>2, <1>3, <2>1, <3>1 DEF ViewInv, Up
  <2>5. HandlerInv'
    BY <1>1, <1>2, <1>5, <2>1 DEF HandlerInv, Up
  <2>6. NoneForgotten'
    BY <1>1, <1>2, <1>3, <1>8, <2>1 DEF NoneForgotten, Up
  <2>. QED
    BY <1>7, <2>2, <2>3, <2>4, <2>5, <2>6 DEF IInv
<1>10. CASE ~Persistent
  <2>1. \A q \in Process : q = p
    <3>1. DiscoverLimit = 0
      BY <1>10, ServiceAssumption DEF Persistent
    <3>. QED
      BY <3>1, ServiceAssumption
  <2>2. 1 \in Tenant /\ 0 \in 0..MaxRecovery /\ 0 \in 0..MaxJobs
    BY ServiceAssumption DEF Tenant
  <2>3. Absent \in Row /\ Absent.phase = "absent"
    BY <2>2 DEF Absent, Row
  <2>4. jobs' = [j \in Job |-> Absent]
    BY <1>10 DEF Gone, Survives
  <2>5. TypeOK'
    BY <1>2, <1>3, <1>5, <1>6, <2>2, <2>3, <2>4 DEF TypeOK
  <2>6. RowInv' /\ NoneForgotten'
    BY <2>3, <2>4 DEF RowInv, NoneForgotten
  <2>7. ViewInv'
    BY <1>3, <2>1 DEF ViewInv
  <2>8. HandlerInv'
    BY <1>1, <1>5, <2>1 DEF HandlerInv
  <2>. QED
    BY <1>7, <2>5, <2>6, <2>7, <2>8 DEF IInv
<1>. QED
  BY <1>9, <1>10

\* A kill, and the end of a stop.
LEMMA EndStep == ASSUME IInv, NEW p \in Process, Kill(p) \/ Stop(p) PROVE IInv'
<1>1. stops' \in 0..MaxStops
  BY DrainNow, ServiceAssumption DEF Kill, Stop
<1>. QED
  BY <1>1, GoneStep DEF Kill, Stop

\* A new job is queued, and no view has it yet.
LEMMA EnqueueStep ==
  ASSUME IInv, NEW p \in Process, NEW t \in Tenant, Enqueue(p, t) PROVE IInv'
<1>1. TypeOK /\ DrainInv /\ RowInv /\ ViewInv /\ HandlerInv /\ NoneForgotten
  BY DEF IInv
<1>2. UNCHANGED <<views, drain, raises, stops>> /\ Up(p)
  BY DEF Enqueue
<1>3. PICK j \in Job :
        /\ jobs[j].phase = "absent"
        /\ jobs' = [jobs EXCEPT ![j] = [Absent EXCEPT !.phase = "queued", !.tenant = t]]
        /\ post' = [post EXCEPT ![j] = [pc |-> "enqueued", at |-> p]]
  BY DEF Enqueue
<1>4. PICK r : r = [Absent EXCEPT !.phase = "queued", !.tenant = t]
  OBVIOUS
<1>5. 0 \in 0..MaxRecovery /\ 0 < MaxRecovery
  BY ServiceAssumption
<1>6. r \in Row /\ r.phase = "queued" /\ r.recovery = 0
  BY <1>4, <1>5 DEF Absent, Row
<1>7. /\ jobs' \in [Job -> Row] /\ jobs'[j] = r /\ \A i \in Job \ {j} : jobs'[i] = jobs[i]
  BY <1>1, <1>3, <1>4, <1>6 DEF TypeOK
<1>8. PICK h : h = [pc |-> "enqueued", at |-> p]
  OBVIOUS
<1>9. h \in Handler /\ h.pc = "enqueued" /\ h.at = p
  BY <1>8 DEF Handler
<1>10. /\ post' \in [Job -> Handler] /\ post'[j] = h /\ \A i \in Job \ {j} : post'[i] = post[i]
  BY <1>1, <1>3, <1>8, <1>9 DEF TypeOK
<1>11. TypeOK'
  BY <1>1, <1>2, <1>7, <1>10 DEF TypeOK
<1>12. DrainInv'
  BY <1>1, <1>2 DEF DrainInv
<1>13. RowInv'
  BY <1>1, <1>5, <1>6, <1>7 DEF RowInv
<1>14. \A q \in Process : views[q] \in SUBSET Job /\ j \notin views[q]
  BY <1>1, <1>3 DEF ViewInv, TypeOK
<1>15. ViewInv'
  BY <1>1, <1>2, <1>7, <1>14 DEF ViewInv, Up
<1>16. HandlerInv'
  BY <1>1, <1>2, <1>6, <1>7, <1>9, <1>10 DEF HandlerInv, Up
<1>17. NoneForgotten'
  BY <1>1, <1>2, <1>7, <1>14 DEF NoneForgotten, Up
<1>. QED
  BY <1>11, <1>12, <1>13, <1>15, <1>16, <1>17 DEF IInv

\* The view gains the job in the step that schedules its tenant.
LEMMA NotifyDrainStep == ASSUME IInv, NEW j \in Job, NotifyDrain(j) PROVE IInv'
<1>1. TypeOK /\ DrainInv /\ RowInv /\ ViewInv /\ HandlerInv /\ NoneForgotten
  BY DEF IInv
<1>2. PICK p \in Process : p = post[j].at /\ Up(p) /\ jobs[j].phase # "absent"
  BY <1>1 DEF HandlerInv, NotifyDrain
<1>3. PICK d \in Drain : d = drain[p] /\ Lined(d) /\ InShare(d)
  BY DrainNow
<1>4. jobs[j].tenant \in Tenant
  BY DrainNow, RowFields
<1>5. PICK y : y = Notified(d, jobs[j].tenant)
  OBVIOUS
<1>6. /\ y \in Drain /\ Lined(y) /\ y.pc = d.pc /\ y.tenant = d.tenant /\ y.processed = d.processed
      /\ y.job = d.job /\ y.stop = d.stop /\ d.scheduled \subseteq y.scheduled
      /\ ~y.stop => jobs[j].tenant \in y.scheduled
  BY <1>3, <1>4, <1>5, NotifiedOK
<1>7. InShare(y)
  BY <1>3, <1>6 DEF InShare
<1>8. UNCHANGED <<jobs, raises, stops>> /\ post' = [post EXCEPT ![j].pc = "notified"]
  BY DEF NotifyDrain
<1>9. drain' = [drain EXCEPT ![p] = y] /\ views' = [views EXCEPT ![p] = views[p] \cup {j}]
  BY <1>2, <1>3, <1>5 DEF NotifyDrain, Set
<1>10. /\ drain' \in [Process -> Drain] /\ drain'[p] = y
       /\ \A q \in Process \ {p} : drain'[q] = drain[q]
  BY <1>1, <1>6, <1>9 DEF TypeOK
<1>11. /\ views' \in [Process -> SUBSET Job] /\ views'[p] = views[p] \cup {j}
       /\ \A q \in Process \ {p} : views'[q] = views[q]
  BY <1>1, <1>9 DEF TypeOK
<1>12. PICK h : h = [post[j] EXCEPT !.pc = "notified"]
  OBVIOUS
<1>13. h \in Handler /\ h.pc = "notified" /\ h.at = p
  BY <1>1, <1>2, <1>12 DEF TypeOK, Handler
<1>14. post' = [post EXCEPT ![j] = h]
  BY <1>8, <1>12
<1>15. post' \in [Job -> Handler] /\ post'[j] = h /\ \A i \in Job \ {j} : post'[i] = post[i]
  BY <1>1, <1>13, <1>14 DEF TypeOK
<1>16. TypeOK'
  BY <1>1, <1>8, <1>10, <1>11, <1>15 DEF TypeOK
<1>17. DrainInv'
  BY <1>1, <1>6, <1>7, <1>10 DEF DrainInv
<1>18. RowInv'
  BY <1>1, <1>8 DEF RowInv
<1>19. \A q \in Process : Up(q)' <=> Up(q)
  BY <1>3, <1>6, <1>10 DEF Up
<1>20. ViewInv'
  BY <1>1, <1>2, <1>8, <1>11, <1>19 DEF ViewInv
<1>21. HandlerInv'
  BY <1>1, <1>2, <1>8, <1>13, <1>15, <1>19 DEF HandlerInv
<1>22. NoneForgotten'
  <2>. SUFFICES ASSUME NEW q \in Process, NEW i \in Job, Up(q), ~drain'[q].stop, i \in views'[q],
                       jobs[i].phase = "queued", jobs[i].recovery = 0 \/ Process = {q}
                PROVE  Remembers(drain'[q], jobs[i].tenant)
    BY <1>8, <1>19 DEF NoneForgotten, Remembers
  <2>1. CASE q = p
    <3>1. CASE i \in views[p]
      <4>1. Remembers(d, jobs[i].tenant)
        BY <1>1, <1>3, <1>6, <1>10, <2>1, <3>1 DEF NoneForgotten, Remembers
      <4>. QED
        BY <1>6, <1>10, <2>1, <4>1 DEF Remembers
    <3>2. CASE i = j
      BY <1>6, <1>10, <2>1, <3>2 DEF Remembers
    <3>. QED
      BY <1>11, <2>1, <3>1, <3>2
  <2>2. CASE q # p
    BY <1>1, <1>10, <1>11, <2>2 DEF NoneForgotten, Remembers
  <2>. QED
    BY <2>1, <2>2
<1>. QED
  BY <1>16, <1>17, <1>18, <1>20, <1>21, <1>22 DEF IInv

\* The handler ends.
LEMMA PutStep == ASSUME IInv, NEW j \in Job, PutIdempotency(j) PROVE IInv'
<1>1. TypeOK /\ DrainInv /\ RowInv /\ ViewInv /\ HandlerInv /\ NoneForgotten
  BY DEF IInv
<1>2. UNCHANGED <<jobs, views, drain, raises, stops>> /\ post' = [post EXCEPT ![j] = Over]
  BY DEF PutIdempotency
<1>3. Over \in Handler /\ Over.pc = "over"
  BY DEF Over, NoHandler, Handler
<1>4. /\ post' \in [Job -> Handler] /\ post'[j].pc = "over" /\ \A i \in Job \ {j} : post'[i] = post[i]
  BY <1>1, <1>2, <1>3 DEF TypeOK
<1>5. TypeOK'
  BY <1>1, <1>2, <1>4 DEF TypeOK
<1>6. DrainInv' /\ RowInv' /\ ViewInv' /\ NoneForgotten'
  BY <1>1, <1>2 DEF DrainInv, RowInv, ViewInv, NoneForgotten, Up
<1>7. HandlerInv'
  BY <1>1, <1>2, <1>4 DEF HandlerInv, Up
<1>. QED
  BY <1>5, <1>6, <1>7 DEF IInv

\* A view may gain a job that another process enqueued, but only once it has succeeded.
LEMMA GetProblemStep ==
  ASSUME IInv, NEW p \in Process, NEW j \in Job, GetProblem(p, j) PROVE IInv'
<1>1. TypeOK /\ DrainInv /\ RowInv /\ ViewInv /\ HandlerInv /\ NoneForgotten
  BY DEF IInv
<1>2. /\ UNCHANGED <<jobs, post, drain, raises, stops>> /\ Up(p)
      /\ j \in views[p] \/ jobs[j].phase = "succeeded"
  BY DEF GetProblem, Found
<1>3. /\ views' \in [Process -> SUBSET Job] /\ views'[p] = views[p] \cup {j}
      /\ \A q \in Process \ {p} : views'[q] = views[q]
  BY <1>1 DEF TypeOK, GetProblem
<1>4. TypeOK'
  BY <1>1, <1>2, <1>3 DEF TypeOK
<1>5. DrainInv' /\ RowInv' /\ HandlerInv'
  BY <1>1, <1>2 DEF DrainInv, RowInv, HandlerInv, Up
<1>6. ViewInv'
  BY <1>1, <1>2, <1>3 DEF ViewInv, Up
<1>7. \A q \in Process, i \in Job : i \in views'[q] => i \in views[q] \/ jobs[i].phase = "succeeded"
  BY <1>2, <1>3
<1>8. NoneForgotten'
  BY <1>1, <1>2, <1>7 DEF NoneForgotten, Up
<1>. QED
  BY <1>4, <1>5, <1>6, <1>8 DEF IInv
-----------------------------------------------------------------------------
(* The theorems.                                                           *)

\* No process is up and no job exists.
LEMMA InitIInv == Init => IInv
<1>. SUFFICES ASSUME Init PROVE IInv
  OBVIOUS
<1>1. 1 \in Tenant /\ 0 \in 0..MaxRecovery /\ 0 \in 0..MaxJobs /\ 0 \in 0..MaxRaises /\ 0 \in 0..MaxStops
  BY ServiceAssumption DEF Tenant
<1>2. Absent \in Row /\ Absent.phase = "absent"
  BY <1>1 DEF Absent, Row
<1>3. NoHandler \in Handler /\ NoHandler.pc = "none"
  BY DEF NoHandler, Handler
<1>4. TypeOK
  BY <1>1, <1>2, <1>3, DownType DEF Init, TypeOK
<1>5. DrainInv
  <2>1. InShare(Down)
    BY DownType DEF InShare
  <2>. QED
    BY <2>1, DownType DEF Init, DrainInv
<1>6. RowInv /\ HandlerInv
  BY <1>2, <1>3 DEF Init, RowInv, HandlerInv
<1>7. ViewInv /\ NoneForgotten
  BY DEF Init, ViewInv, NoneForgotten
<1>. QED
  BY <1>4, <1>5, <1>6, <1>7 DEF IInv

\* Every step keeps the invariant.
LEMMA StepIInv == IInv /\ [Next]_vars => IInv'
<1>. SUFFICES ASSUME IInv, [Next]_vars PROVE IInv'
  OBVIOUS
<1>1. ASSUME NEW p \in Process,
             \/ Startup(p) \/ Loop(p) \/ RunNextRaises(p) \/ Kill(p) \/ Shutdown(p)
             \/ Stop(p) \/ Api(p)
      PROVE  IInv'
  <2>1. CASE Startup(p) \/ Shutdown(p) \/ Kill(p) \/ Stop(p) \/ RunNextRaises(p)
    BY <2>1, StartupStep, ShutdownStep, EndStep, RaisesStep
  <2>2. CASE Loop(p)
    BY <2>2, NextTenantStep, DiscoverStep, WokenStep, BackStep, LeaseJobStep, CycleDoneStep,
       SucceedsStep, FailsStep DEF Loop
  <2>3. CASE Api(p)
    BY <2>3, EnqueueStep, GetProblemStep DEF Api
  <2>. QED
    BY <1>1, <2>1, <2>2, <2>3
<1>2. ASSUME NEW j \in Job, Post(j) \/ LeaseExpires(j) PROVE IInv'
  BY <1>2, NotifyDrainStep, PutStep, LeaseExpiresStep DEF Post
<1>3. CASE UNCHANGED vars
  BY <1>3 DEF vars, IInv, TypeOK, DrainInv, RowInv, ViewInv, HandlerInv, NoneForgotten, Up
<1>. QED
  BY <1>1, <1>2, <1>3 DEF Next

\* The inductive invariant holds in every state.
LEMMA Invariant == Spec => []IInv
<1>. QED
  BY InitIInv, StepIInv, PTL DEF Spec

\* The state of the service stays in the types of the model: no cycle exceeds its share
\* and no job is recovered more often than it may be.
THEOREM TypesKept == Spec => []TypeOK
<1>1. IInv => TypeOK
  BY DEF IInv
<1>. QED
  BY <1>1, Invariant, PTL

\* The queue of a drain and its set of scheduled tenants never come apart, so that no
\* tenant is taken for scheduled that is not queued: notify_tenant ignores it for ever.
THEOREM QueuesAgree == Spec => []QueueAgrees
<1>1. IInv => QueueAgrees
  BY DrainNow, LinedAgrees DEF QueueAgrees
<1>. QED
  BY <1>1, Invariant, PTL

\* A queued job that its process knows is in the mind of the process's drain: its tenant
\* is scheduled, or the tenant's turn has not ended.
THEOREM NothingForgotten == Spec => []NoneForgotten
<1>1. IInv => NoneForgotten
  BY DEF IInv
<1>. QED
  BY <1>1, Invariant, PTL
=============================================================================
