-------------------------- MODULE InquiryClassProofs --------------------------
(***************************************************************************)
(* Proofs about InquiryClass.  CorrectionsReal and LabelAsTold are made    *)
(* inductive by what the advisory lock gives a handler between its read    *)
(* and its write: the row it read is the row (Held), and what it is about  *)
(* to store is a prediction whose call is in the ledger (Backed).          *)
(***************************************************************************)
EXTENDS InquiryClass, TLAPS

\* The row a handler read under the lock is the row.
Held == \A h \in Handler : handler[h].pc \in Storing => handler[h].read = row

\* What a handler does has the request, the prediction and the execution it needs.
Fit(w, ledger) ==
    /\ w.pc \in {"asked", "classifying", "recording", "storing", "writing"} => w.call \in Call
    /\ w.pc = "asked" => w.says = Nothing
    /\ w.pc = "recording" => w.says \in Prediction \cup {Nothing}
    /\ w.pc \in {"storing", "writing"} => w.says \in Prediction /\ w.call \in ledger

Backed == \A h \in Handler : Fit(handler[h], recorded)

\* What was accepted was accepted of a row, which it made a reviewed one.
Told == \A a \in Axis : meant[a] # None => row.reviewed

\* The inductive invariant.
Inv == TypeOK /\ Held /\ Backed /\ Told /\ CorrectionsReal /\ LabelAsTold

-----------------------------------------------------------------------------
\* A row is never taken for its absence: it has a call.
LEMMA RowPresent == \A r \in Row : r # Absent
  BY ClassAssumption DEF Row, Absent, Call

\* A correction of every axis is one of some axes, and so is none.
LEMMA Corrections == Prediction \subseteq Correction /\ Nothing \in Correction
  BY DEF Prediction, Correction, Nothing

\* An idle handler is well typed.
LEMMA IdleTyped == Idle \in Work /\ Idle.pc = "idle" /\ \A ledger : Fit(Idle, ledger)
  BY Corrections DEF Idle, Work, Fit

\* The invariant holds of an inquiry nobody classified.
LEMMA InitInv == Init => Inv
<1> SUFFICES ASSUME Init PROVE Inv
  OBVIOUS
<1> USE DEF Init
<1>1. TypeOK
  BY IdleTyped, ClassAssumption DEF TypeOK, Uncorrected, Idle, Storing
<1>2. Held /\ Backed
  BY IdleTyped DEF Held, Backed, Storing
<1>3. CorrectionsReal /\ LabelAsTold /\ Told
  BY DEF CorrectionsReal, LabelAsTold, Told, Uncorrected
<1> QED  BY <1>1, <1>2, <1>3 DEF Inv

\* Steps that leave row, ledger and review alone keep what is said of them.
LEMMA QuietRow ==
  ASSUME CorrectionsReal, LabelAsTold, Told, UNCHANGED <<row, meant>>, recorded \subseteq recorded'
  PROVE  CorrectionsReal' /\ LabelAsTold' /\ Told'
<1>1. CorrectionsReal'
  BY DEF CorrectionsReal
<1>2. LabelAsTold' /\ Told'
  BY DEF LabelAsTold, Label, Told
<1> QED  BY <1>1, <1>2

\* A step of one handler that neither holds nor takes the lock.
LEMMA QuietStep ==
  ASSUME Inv, NEW h \in Handler, NEW w \in Work,
         handler' = [handler EXCEPT ![h] = w], handler[h].pc \notin Storing, w.pc \notin Storing,
         UNCHANGED <<row, lock, meant>>,
         recorded \subseteq recorded', recorded' \in SUBSET Call,
         calls' \in 0..MaxCalls, reviews' \in 0..MaxReviews, faults' \in 0..MaxFaults,
         Fit(w, recorded')
  PROVE  Inv'
<1>1. TypeOK'
  <2>1. \A g \in Handler : handler'[g].pc \in Storing <=> lock' = g
    BY DEF Inv, TypeOK
  <2> QED  BY <2>1 DEF Inv, TypeOK
<1>2. Held'
  BY DEF Inv, Held, TypeOK
<1>3. Backed'
  BY DEF Inv, Backed, Fit, TypeOK
<1> QED  BY <1>1, <1>2, <1>3, QuietRow DEF Inv

\* The same, when the handler ends.
LEMMA QuietEnd ==
  ASSUME Inv, NEW h \in Handler, End(h), handler[h].pc \notin Storing,
         UNCHANGED <<row, lock, meant, calls, reviews>>,
         recorded \subseteq recorded', recorded' \in SUBSET Call, faults' \in 0..MaxFaults
  PROVE  Inv'
  BY IdleTyped, QuietStep DEF End, Set, Inv, TypeOK, Storing
-----------------------------------------------------------------------------
(* The steps that leave the row alone.                                     *)

\* A fault is one within the bound.
LEMMA FaultTyped == ASSUME Inv, Fault PROVE faults' \in 0..MaxFaults
  BY ClassAssumption DEF Inv, TypeOK, Fault

\* A request for a classification arrives.
LEMMA ClassifyArrivesInv == ASSUME Inv, NEW h \in Handler, ClassifyArrives(h) PROVE Inv'
<1> DEFINE w == [Idle EXCEPT !.pc = "asked", !.call = calls + 1]
<1>1. w \in Work /\ w.pc = "asked" /\ w.says = Nothing /\ w.call \in Call
  <2>1. calls + 1 \in Call
    BY ClassAssumption DEF Inv, TypeOK, ClassifyArrives, Call
  <2> QED  BY <2>1, Corrections DEF Work, Idle
<1>2. handler' = [handler EXCEPT ![h] = w]
  BY DEF ClassifyArrives, Set
<1>3. calls' \in 0..MaxCalls
  BY ClassAssumption DEF Inv, TypeOK, ClassifyArrives
<1> HIDE DEF w
<1> QED
  BY <1>1, <1>2, <1>3, QuietStep
     DEF Inv, TypeOK, ClassifyArrives, At, Stored, Sound, Storing, Fit

\* The lookup leads to the call, or to the ledger.
LEMMA LookupInv == ASSUME Inv, NEW h \in Handler, Lookup(h) PROVE Inv'
<1> DEFINE pc == IF row = Absent THEN "classifying" ELSE "recording"
           w == [handler[h] EXCEPT !.pc = pc]
<1>1. handler[h] \in Work /\ handler[h].says = Nothing /\ handler[h].call \in Call
  BY DEF Inv, TypeOK, Backed, Fit, Lookup, At
<1>2. w \in Work /\ w.pc \in {"classifying", "recording"} /\ w.says = Nothing /\ w.call \in Call
  BY <1>1 DEF Work
<1>3. handler' = [handler EXCEPT ![h] = w]
  BY DEF Lookup, Goto, Set
<1> HIDE DEF w
<1> QED
  BY <1>2, <1>3, QuietStep DEF Inv, TypeOK, Lookup, At, Stored, Sound, Storing, Fit

\* The LLM answers a prediction, or falls back.
LEMMA ClassifyInv == ASSUME Inv, NEW h \in Handler, Classify(h) PROVE Inv'
<1>1. PICK says \in Prediction \cup {Nothing} :
        handler' = [handler EXCEPT ![h] = [handler[h] EXCEPT !.pc = "recording", !.says = says]]
  BY DEF Classify, Set
<1> DEFINE w == [handler[h] EXCEPT !.pc = "recording", !.says = says]
<1>2. handler[h] \in Work /\ says \in Prediction \cup Correction /\ handler[h].call \in Call
  BY Corrections DEF Inv, TypeOK, Backed, Fit, Classify, At
<1>3. w \in Work /\ w.pc = "recording" /\ w.says = says /\ w.call \in Call
  BY <1>2 DEF Work
<1>4. handler' = [handler EXCEPT ![h] = w]
  BY <1>1
<1> HIDE DEF w
<1> QED
  BY <1>3, <1>4, QuietStep DEF Inv, TypeOK, Classify, At, Stored, Sound, Storing, Fit

\* A lookup or a call fails.
LEMMA ClassifyFailsInv == ASSUME Inv, NEW h \in Handler, ClassifyFails(h) PROVE Inv'
<1>1. handler[h].call \in Call /\ handler[h].pc \notin Storing
  BY DEF Inv, Backed, Fit, ClassifyFails, Storing
<1>2. recorded \subseteq recorded' /\ recorded' \in SUBSET Call
  BY <1>1 DEF Inv, TypeOK, ClassifyFails
<1> QED
  BY <1>1, <1>2, FaultTyped, QuietEnd DEF ClassifyFails, Stored

\* The execution is recorded, and a new prediction goes on to be stored.
LEMMA RecordRunInv == ASSUME Inv, NEW h \in Handler, RecordRun(h) PROVE Inv'
<1>1. /\ handler[h] \in Work /\ handler[h].pc = "recording"
      /\ handler[h].call \in Call /\ handler[h].says \in Prediction \cup {Nothing}
  BY DEF Inv, TypeOK, Backed, Fit, RecordRun, At
<1>2. recorded \subseteq recorded' /\ recorded' \in SUBSET Call
  BY <1>1 DEF Inv, TypeOK, RecordRun
<1>3. faults' \in 0..MaxFaults
  BY FaultTyped DEF Inv, TypeOK, RecordRun, Sound
<1>4. CASE End(h)
  BY <1>1, <1>2, <1>3, <1>4, QuietEnd DEF RecordRun, Stored, Storing
<1>5. CASE handler[h].says # Nothing /\ Goto(h, "storing") /\ recorded' = recorded \cup {handler[h].call}
  <2> DEFINE w == [handler[h] EXCEPT !.pc = "storing"]
  <2>1. /\ w \in Work /\ w.pc = "storing" /\ w.call \in Call
        /\ w.call \in recorded' /\ w.says \in Prediction
    BY <1>1, <1>5 DEF Work
  <2>2. handler' = [handler EXCEPT ![h] = w]
    BY <1>5 DEF Goto, Set
  <2> HIDE DEF w
  <2> QED
    BY <1>1, <1>2, <1>3, <2>1, <2>2, QuietStep DEF Inv, TypeOK, RecordRun, Stored, Storing, Fit
<1> QED  BY <1>4, <1>5 DEF RecordRun

\* A confirmation arrives.
LEMMA ConfirmArrivesInv == ASSUME Inv, NEW h \in Handler, ConfirmArrives(h) PROVE Inv'
<1>1. PICK says \in Correction :
        handler' = [handler EXCEPT ![h] = [Idle EXCEPT !.pc = "confirming", !.says = says]]
  BY DEF ConfirmArrives, Set
<1> DEFINE w == [Idle EXCEPT !.pc = "confirming", !.says = says]
<1>2. w \in Work /\ w.pc = "confirming"
  BY IdleTyped DEF Work, Idle
<1>3. handler' = [handler EXCEPT ![h] = w]
  BY <1>1
<1>4. reviews' \in 0..MaxReviews
  BY ClassAssumption DEF Inv, TypeOK, ConfirmArrives
<1> HIDE DEF w
<1> QED
  BY <1>2, <1>3, <1>4, QuietStep
     DEF Inv, TypeOK, ConfirmArrives, At, Stored, Sound, Storing, Fit
-----------------------------------------------------------------------------
(* The lock.                                                               *)

\* Taking the lock, a handler reads the row.
LEMMA LockInv ==
  ASSUME Inv, NEW h \in Handler, NEW pc \in Storing, lock = None, lock' = h,
         Set(h, [handler[h] EXCEPT !.pc = pc, !.read = row]),
         pc = "writing" => handler[h].pc = "storing",
         UNCHANGED <<row, meant, recorded, calls, reviews, faults>>
  PROVE  Inv'
<1> DEFINE w == [handler[h] EXCEPT !.pc = pc, !.read = row]
<1>1. handler[h] \in Work /\ row \in Row \cup {Absent}
  BY DEF Inv, TypeOK
<1>2. /\ w \in Work /\ w.pc = pc /\ w.read = row
      /\ w.says = handler[h].says /\ w.call = handler[h].call
  BY <1>1 DEF Work, Storing
<1>3. handler' = [handler EXCEPT ![h] = w]
  BY DEF Set
<1> HIDE DEF w
<1>4. TypeOK'
  <2>1. \A g \in Handler : handler'[g].pc \in Storing <=> lock' = g
    BY <1>2, <1>3, ClassAssumption DEF Inv, TypeOK
  <2> QED  BY <2>1, <1>2, <1>3 DEF Inv, TypeOK
<1>5. Held'
  BY <1>2, <1>3 DEF Inv, TypeOK, Held
<1>6. Backed'
  BY <1>2, <1>3 DEF Inv, TypeOK, Backed, Fit, Storing
<1> QED  BY <1>4, <1>5, <1>6, QuietRow DEF Inv

\* A handler leaves the lock when it ends.
LEMMA UnlockInv ==
  ASSUME Inv, NEW h \in Handler, End(h), lock' = IF lock = h THEN None ELSE lock,
         UNCHANGED <<calls, reviews, recorded>>, faults' \in 0..MaxFaults,
         row' \in Row \cup {Absent}, meant' \in [Axis -> Value \cup {None}],
         \A g \in Handler \ {h} : handler[g].pc \in Storing => row' = row
  PROVE  TypeOK' /\ Held' /\ Backed'
<1>1. handler' = [handler EXCEPT ![h] = Idle]
  BY DEF End, Set
<1>2. TypeOK'
  <2>1. \A g \in Handler : handler'[g].pc \in Storing <=> lock' = g
    BY <1>1, IdleTyped, ClassAssumption DEF Inv, TypeOK, Storing
  <2> QED  BY <2>1, <1>1, IdleTyped DEF Inv, TypeOK
<1>3. Held'
  BY <1>1, IdleTyped DEF Inv, TypeOK, Held, Storing
<1>4. Backed'
  BY <1>1, IdleTyped DEF Inv, TypeOK, Backed
<1> QED  BY <1>2, <1>3, <1>4

\* A handler that holds the lock read the row, and no other one writes.
LEMMA Alone ==
  ASSUME Inv, NEW h \in Handler, handler[h].pc \in Storing
  PROVE  /\ handler[h].read = row /\ lock = h
         /\ \A g \in Handler \ {h} : handler[g].pc \notin Storing
  BY DEF Inv, TypeOK, Held

\* A classification takes it.
LEMMA LockStoreInv == ASSUME Inv, NEW h \in Handler, LockStore(h) PROVE Inv'
  BY LockInv DEF LockStore, At, Sound, Storing

\* So does a confirmation.
LEMMA LockConfirmInv == ASSUME Inv, NEW h \in Handler, LockConfirm(h) PROVE Inv'
  BY LockInv DEF LockConfirm, At, Sound, Storing

\* A transaction is rolled back.
LEMMA StoreFailsInv == ASSUME Inv, NEW h \in Handler, StoreFails(h) PROVE Inv'
<1>1. TypeOK' /\ Held' /\ Backed'
  BY FaultTyped, UnlockInv DEF StoreFails, Inv, TypeOK
<1> QED  BY <1>1, QuietRow DEF Inv, StoreFails

\* The process is killed.
LEMMA KillInv == ASSUME Inv, Kill PROVE Inv'
<1>1. handler' = [h \in Handler |-> Idle] /\ lock' = None
  BY DEF Kill
<1>2. TypeOK'
  <2>1. \A h \in Handler : handler'[h].pc \in Storing <=> lock' = h
    BY <1>1, IdleTyped, ClassAssumption DEF Storing
  <2> QED  BY <1>1, <2>1, IdleTyped, FaultTyped DEF Inv, TypeOK, Kill
<1>3. Held' /\ Backed'
  BY <1>1, IdleTyped DEF Held, Backed, Storing
<1> QED  BY <1>2, <1>3, QuietRow DEF Inv, Kill
-----------------------------------------------------------------------------
(* The steps that write the row.                                           *)

\* A prediction is stored, unless a reviewed one is there.
LEMMA InsertInv == ASSUME Inv, NEW h \in Handler, Insert(h) PROVE Inv'
<1> DEFINE w == handler[h]
           new == [prediction |-> w.says, corrected |-> Uncorrected, reviewed |-> FALSE, call |-> w.call]
<1>1. w.pc \in Storing /\ w.says \in Prediction /\ w.call \in recorded /\ w.call \in Call
  BY DEF Inv, TypeOK, Backed, Fit, Insert, At, Storing
<1>2. w.read = row /\ lock = h /\ \A g \in Handler \ {h} : handler[g].pc \notin Storing
  BY <1>1, Alone
<1>3. row' = IF row.reviewed THEN row ELSE new
  BY <1>2 DEF Insert, Inserted
<1>4. new \in Row /\ new # Absent
  BY <1>1, RowPresent DEF Row, Uncorrected
<1>5. /\ new.prediction = w.says /\ new.call = w.call
      /\ \A a \in Axis : new.corrected[a] = None
  BY DEF Uncorrected
<1> HIDE DEF w, new
<1>6. TypeOK' /\ Held' /\ Backed'
  BY <1>2, <1>3, <1>4, UnlockInv DEF Insert, Inv, TypeOK, Sound
<1>7. CorrectionsReal'
  BY <1>1, <1>3, <1>5 DEF Insert, Inv, CorrectionsReal
<1>8. LabelAsTold' /\ Told'
  BY <1>3, <1>4, <1>5 DEF Insert, Inv, LabelAsTold, Label, Told
<1> QED  BY <1>6, <1>7, <1>8 DEF Inv

\* What a review makes of the row and of what was accepted.
LEMMA ConfirmInv == ASSUME Inv, NEW h \in Handler, Confirm(h) PROVE Inv'
<1> DEFINE w == handler[h]
           plan == Planned(w.read, w.says)
           both == [a \in Axis |-> IF plan[a] = w.read.corrected[a] THEN row.corrected[a] ELSE plan[a]]
<1>1. w.pc \in Storing /\ w.says \in Prediction \cup Correction
  BY DEF Inv, TypeOK, Work, Confirm, At, Storing
<1>2. w.read = row /\ lock = h /\ \A g \in Handler \ {h} : handler[g].pc \notin Storing
  BY <1>1, Alone
<1>3. CASE row = Absent
  <2>1. TypeOK' /\ Held' /\ Backed'
    BY <1>2, <1>3, UnlockInv DEF Confirm, Inv, TypeOK, Sound
  <2> QED  BY <1>2, <1>3, <2>1, QuietRow DEF Inv, Confirm
<1>4. CASE row # Absent
  <2>1. row \in Row
    BY <1>4 DEF Inv, TypeOK
  <2>2. /\ row' = [row EXCEPT !.reviewed = TRUE, !.corrected = both]
        /\ meant' = [a \in Axis |-> IF a \in DOMAIN w.says THEN w.says[a] ELSE meant[a]]
    BY <1>2, <1>4 DEF Confirm
  <2>3. \A a \in Axis : both[a] = plan[a]
    BY <1>2
  <2>4. \A a \in Axis : a \in DOMAIN w.says => w.says[a] \in Value
    BY <1>1 DEF Prediction, Correction
  <2>5. \A a \in Axis : plan[a] = IF a \notin DOMAIN w.says THEN row.corrected[a]
                                  ELSE IF w.says[a] = row.prediction[a] THEN None ELSE w.says[a]
    BY <1>2 DEF Planned
  <2>6. both \in [Axis -> Value \cup {None}]
    BY <2>1, <2>3, <2>4, <2>5 DEF Row
  <2> HIDE DEF w, plan, both
  <2>7. /\ row' \in Row /\ row' # Absent /\ row'.reviewed /\ row'.corrected = both
        /\ row'.prediction = row.prediction /\ row'.call = row.call
    BY <2>1, <2>2, <2>6, RowPresent DEF Row
  <2>8. meant' \in [Axis -> Value \cup {None}]
    BY <2>2, <2>4 DEF Inv, TypeOK
  <2>9. TypeOK' /\ Held' /\ Backed'
    BY <1>2, <2>7, <2>8, UnlockInv DEF Confirm, Inv, TypeOK, Sound
  <2>10. CorrectionsReal'
    BY <1>4, <2>3, <2>5, <2>7 DEF Inv, CorrectionsReal, Confirm
  <2>11. LabelAsTold' /\ Told'
    <3> SUFFICES ASSUME NEW a \in Axis
                 PROVE  /\ meant'[a] # None => Label(a)' = meant'[a]
                        /\ meant'[a] = None => row'.corrected[a] = None
      BY <2>7 DEF LabelAsTold, Told
    <3>1. CASE a \in DOMAIN w.says
      BY <3>1, <2>2, <2>3, <2>4, <2>5, <2>7, ClassAssumption DEF Label
    <3>2. CASE a \notin DOMAIN w.says
      BY <3>2, <1>4, <2>2, <2>3, <2>5, <2>7 DEF Inv, LabelAsTold, Label
    <3> QED  BY <3>1, <3>2
  <2> QED  BY <2>9, <2>10, <2>11 DEF Inv
<1> QED  BY <1>3, <1>4
-----------------------------------------------------------------------------
(* The invariant, and the theorems.                                        *)

\* Every step keeps the invariant.
LEMMA NextInv == ASSUME Inv, [Next]_vars PROVE Inv'
<1>1. CASE UNCHANGED vars
  BY <1>1 DEF vars, Inv, TypeOK, Held, Backed, Fit, CorrectionsReal, LabelAsTold, Label, Told
<1>2. CASE Next
  BY <1>2, ClassifyArrivesInv, LookupInv, ClassifyInv, ClassifyFailsInv, RecordRunInv, LockStoreInv,
     InsertInv, ConfirmArrivesInv, LockConfirmInv, ConfirmInv, StoreFailsInv, KillInv DEF Next
<1> QED  BY <1>1, <1>2

\* The invariant holds for every number of handlers, requests and faults.
THEOREM Invariance == Spec => []Inv
  BY InitInv, NextInv, PTL DEF Spec

\* Every row, request and reading of the row is of its type, and the lock is held exactly
\* between a read of the row and the write that goes with it.
THEOREM TypeCorrect == Spec => []TypeOK
  BY Invariance, PTL DEF Inv

\* For every number of handlers, requests and faults: corrections are real ones, of
\* reviewed rows, and no row names a call the ledger lacks.
THEOREM CorrectionsAreReal == Spec => []CorrectionsReal
  BY Invariance, PTL DEF Inv

\* The row keeps saying what the instructor was told is accepted.
THEOREM LabelIsTold == Spec => []LabelAsTold
  BY Invariance, PTL DEF Inv

\* A step that leaves the row, or writes it as Insert or Confirm do, keeps a review.
LEMMA StepKeepsReview ==
  ASSUME Inv, [Next]_vars, row.reviewed
  PROVE  row'.reviewed /\ row'.prediction = row.prediction /\ row'.call = row.call
<1>1. CASE row' = row
  BY <1>1
<1>2. ASSUME NEW h \in Handler, Insert(h) PROVE row' = row
  <2>1. handler[h].read = row
    BY <1>2, Alone DEF Insert, At, Storing
  <2> QED  BY <1>2, <2>1 DEF Insert, Inserted
<1>3. ASSUME NEW h \in Handler, Confirm(h), row' # row
      PROVE  row'.reviewed /\ row'.prediction = row.prediction /\ row'.call = row.call
  <2>1. row \in Row
    BY RowPresent DEF Inv, TypeOK, Absent
  <2> QED  BY <1>3, <2>1 DEF Confirm, Row
<1>4. row' = row \/ \E h \in Handler : Insert(h) \/ Confirm(h)
  BY DEF Next, vars, ClassifyArrives, Lookup, Classify, ClassifyFails, RecordRun, LockStore,
         ConfirmArrives, LockConfirm, StoreFails, Kill, Stored
<1> QED  BY <1>1, <1>2, <1>3, <1>4

\* A reviewed prediction is never replaced, however late a classification stores its own.
THEOREM ReviewIsKept == Spec => ReviewStands
<1>1. Inv /\ [Next]_vars =>
        [row.reviewed => /\ row'.reviewed
                         /\ row'.prediction = row.prediction /\ row'.call = row.call]_vars
  BY StepKeepsReview DEF vars
<1> QED  BY <1>1, Invariance, PTL DEF Spec, ReviewStands
=============================================================================
