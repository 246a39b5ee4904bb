----------------------------- MODULE InquiryClass -----------------------------
(***************************************************************************)
(* The classification of one inquiry and its review: POST /v1/classify     *)
(* (api/routers/classify.py) answers the stored prediction or asks the LLM *)
(* and stores what it says; POST /v1/confirmations (confirmations.py)      *)
(* stores what the instructor says of it.  Both write the one row          *)
(* INQUIRY_CLASS has for the inquiry (db/repositories/                     *)
(* inquiry_class_store.py), each under the advisory lock of its key.       *)
(*                                                                         *)
(* Requests are served at the same time, a store call may fail, and the    *)
(* process may be killed between any two steps.                            *)
(***************************************************************************)
EXTENDS Integers, FiniteSets

CONSTANTS
    Handler,    \* requests served at the same time
    Axis,       \* topic, sentiment, urgency
    Value,      \* the values of an axis
    None,       \* no value, no handler
    MaxCalls,   \* bound: requests that classify
    MaxReviews, \* bound: requests that confirm
    MaxFaults   \* bound: failing calls and kills

ASSUME ClassAssumption ==
    /\ None \notin Handler \cup Value /\ Axis # {}
    /\ MaxCalls \in Nat /\ MaxReviews \in Nat /\ MaxFaults \in Nat

VARIABLES
    row,       \* the INQUIRY_CLASS row of the inquiry
    lock,      \* the handler whose transaction holds the advisory lock of the key
    recorded,  \* the executions in the ledger, by the number of their request
    handler,   \* what each handler is doing
    meant,     \* the last accepted correction of each axis
    calls,     \* requests to classify so far
    reviews,   \* requests to confirm so far
    faults     \* faults so far, for the bound

vars == <<row, lock, recorded, handler, meant, calls, reviews, faults>>

Call == 1..MaxCalls
Prediction == [Axis -> Value]
Correction == UNION {[S -> Value] : S \in SUBSET Axis}
Nothing == [a \in {} |-> None]
Uncorrected == [a \in Axis |-> None]

\* call is the execution whose last successful call made the prediction.
Row == [prediction: Prediction, corrected: [Axis -> Value \cup {None}], reviewed: BOOLEAN, call: Call]
Absent == [prediction |-> Nothing, corrected |-> Nothing, reviewed |-> FALSE, call |-> 0]

\* What a handler that classifies holds: its request, the prediction it will store, if
\* any, and the row it read under the lock.
Storing == {"writing", "applying"}
Work == [pc: {"idle", "asked", "classifying", "recording", "storing", "confirming"} \cup Storing,
         call: {0} \cup Call, says: Prediction \cup Correction, read: Row \cup {Absent}]
Idle == [pc |-> "idle", call |-> 0, says |-> Nothing, read |-> Absent]

\* The type of the state.  The lock is held by a handler between its read and its write.
TypeOK ==
    /\ row \in Row \cup {Absent}
    /\ lock \in Handler \cup {None}
    /\ recorded \in SUBSET Call
    /\ handler \in [Handler -> Work]
    /\ meant \in [Axis -> Value \cup {None}]
    /\ calls \in 0..MaxCalls /\ reviews \in 0..MaxReviews /\ faults \in 0..MaxFaults
    /\ \A h \in Handler : handler[h].pc \in Storing <=> lock = h

Init ==
    /\ row = Absent /\ lock = None /\ recorded = {}
    /\ handler = [h \in Handler |-> Idle]
    /\ meant = Uncorrected
    /\ calls = 0 /\ reviews = 0 /\ faults = 0
-----------------------------------------------------------------------------
At(h, pc) == handler[h].pc = pc
Set(h, w) == handler' = [handler EXCEPT ![h] = w]
Goto(h, pc) == Set(h, [handler[h] EXCEPT !.pc = pc])
End(h) == Set(h, Idle)
Stored == UNCHANGED <<row, lock, meant>>
Fault == faults < MaxFaults /\ faults' = faults + 1
Sound == UNCHANGED faults
-----------------------------------------------------------------------------
(* post_classify.                                                          *)

ClassifyArrives(h) ==
    /\ At(h, "idle") /\ calls < MaxCalls
    /\ calls' = calls + 1
    /\ Set(h, [Idle EXCEPT !.pc = "asked", !.call = calls + 1])
    /\ Stored /\ Sound /\ UNCHANGED <<recorded, reviews>>

\* The stored prediction answers without a call; the execution is recorded even so.
Lookup(h) ==
    /\ At(h, "asked")
    /\ Goto(h, IF row = Absent THEN "classifying" ELSE "recording")
    /\ Stored /\ Sound /\ UNCHANGED <<recorded, calls, reviews>>

\* classify: a prediction, or an honest fallback that is answered but never stored.
Classify(h) ==
    /\ At(h, "classifying")
    /\ \E says \in Prediction \cup {Nothing} :
        Set(h, [handler[h] EXCEPT !.pc = "recording", !.says = says])
    /\ Stored /\ Sound /\ UNCHANGED <<recorded, calls, reviews>>

\* The lookup or the LLM fails: the execution is recorded if it can be, the error raised.
ClassifyFails(h) ==
    /\ handler[h].pc \in {"asked", "classifying"} /\ Fault
    /\ End(h)
    /\ \/ recorded' = recorded \cup {handler[h].call}
       \/ UNCHANGED recorded
    /\ Stored /\ UNCHANGED <<calls, reviews>>

\* record_run commits the execution with its calls; its failure is the answer's.  Only a
\* new prediction is stored.
RecordRun(h) ==
    /\ At(h, "recording")
    /\ \/ /\ recorded' = recorded \cup {handler[h].call}
          /\ IF handler[h].says = Nothing THEN End(h) ELSE Goto(h, "storing")
          /\ Sound
       \/ Fault /\ End(h) /\ UNCHANGED recorded
    /\ Stored /\ UNCHANGED <<calls, reviews>>

\* insert_prediction: the lock of the key, then the row.
LockStore(h) ==
    /\ At(h, "storing") /\ lock = None
    /\ lock' = h
    /\ Set(h, [handler[h] EXCEPT !.pc = "writing", !.read = row])
    /\ Sound /\ UNCHANGED <<row, meant, recorded, calls, reviews>>

\* Mutant of Inserted: a late prediction replaces a reviewed one.
InsertedOver(w) ==
    [prediction |-> w.says, corrected |-> Uncorrected, reviewed |-> FALSE, call |-> w.call]

\* A reviewed prediction is left alone, any other replaced by the record of the request.
Inserted(w) ==
    IF w.read.reviewed THEN w.read
    ELSE [prediction |-> w.says, corrected |-> Uncorrected, reviewed |-> FALSE, call |-> w.call]

\* The database demands that the call be one of the ledger.
Insert(h) ==
    /\ At(h, "writing") /\ handler[h].call \in recorded
    /\ row' = Inserted(handler[h])
    /\ lock' = None /\ End(h)
    /\ Sound /\ UNCHANGED <<meant, recorded, calls, reviews>>
-----------------------------------------------------------------------------
(* post_confirmations, kind classification.                                *)

\* action confirmed has no corrections, action corrected has some.
ConfirmArrives(h) ==
    /\ At(h, "idle") /\ reviews < MaxReviews
    /\ reviews' = reviews + 1
    /\ \E says \in Correction : Set(h, [Idle EXCEPT !.pc = "confirming", !.says = says])
    /\ Stored /\ Sound /\ UNCHANGED <<recorded, calls>>

\* Mutant of LockConfirm: the row is read without waiting for the lock.
LockConfirmUnheld(h) ==
    /\ At(h, "confirming")
    /\ lock' = h
    /\ Set(h, [handler[h] EXCEPT !.pc = "applying", !.read = row])
    /\ Sound /\ UNCHANGED <<row, meant, recorded, calls, reviews>>

\* apply_confirmation: the lock of the key, then the row.
LockConfirm(h) ==
    /\ At(h, "confirming") /\ lock = None
    /\ lock' = h
    /\ Set(h, [handler[h] EXCEPT !.pc = "applying", !.read = row])
    /\ Sound /\ UNCHANGED <<row, meant, recorded, calls, reviews>>

\* Mutant of Planned: the predicted value is never a correction, not even of one.
PlannedIgnoring(r, says) ==
    [a \in Axis |-> IF a \in DOMAIN says /\ says[a] # r.prediction[a] THEN says[a]
                    ELSE r.corrected[a]]

\* _plan_corrections: another value corrects an axis, the predicted one undoes that.
Planned(r, says) ==
    [a \in Axis |-> IF a \notin DOMAIN says THEN r.corrected[a]
                    ELSE IF says[a] = r.prediction[a] THEN None ELSE says[a]]

\* The row becomes reviewed and the confirmation accepted; without a row it is refused.
\* Of the corrections only those that change are written.
Confirm(h) ==
    LET w == handler[h]
        plan == Planned(w.read, w.says)
    IN  /\ At(h, "applying")
        /\ IF w.read = Absent THEN UNCHANGED <<row, meant>>
           ELSE /\ row' = [row EXCEPT !.reviewed = TRUE, !.corrected =
                    [a \in Axis |-> IF plan[a] = w.read.corrected[a] THEN @[a] ELSE plan[a]]]
                /\ meant' = [a \in Axis |-> IF a \in DOMAIN w.says THEN w.says[a] ELSE meant[a]]
        /\ lock' = None /\ End(h)
        /\ Sound /\ UNCHANGED <<recorded, calls, reviews>>
-----------------------------------------------------------------------------
(* Faults.                                                                 *)

\* Mutant of StoreFails: the lock outlives the transaction.
StoreFailsHeld(h) ==
    /\ handler[h].pc \in {"storing", "confirming"} \cup Storing /\ Fault
    /\ End(h)
    /\ UNCHANGED <<row, lock, meant, recorded, calls, reviews>>

\* A store call fails: the transaction is rolled back, the answer is an error.
StoreFails(h) ==
    /\ handler[h].pc \in {"storing", "confirming"} \cup Storing /\ Fault
    /\ End(h)
    /\ lock' = IF lock = h THEN None ELSE lock
    /\ UNCHANGED <<row, meant, recorded, calls, reviews>>

\* The process is killed.
Kill ==
    /\ Fault
    /\ handler' = [h \in Handler |-> Idle] /\ lock' = None
    /\ UNCHANGED <<row, meant, recorded, calls, reviews>>
-----------------------------------------------------------------------------
Next ==
    \/ \E h \in Handler :
        \/ ClassifyArrives(h) \/ Lookup(h) \/ Classify(h) \/ ClassifyFails(h)
        \/ RecordRun(h) \/ LockStore(h) \/ Insert(h)
        \/ ConfirmArrives(h) \/ LockConfirm(h) \/ Confirm(h)
        \/ StoreFails(h)
    \/ Kill

Spec == Init /\ [][Next]_vars
-----------------------------------------------------------------------------
(* Properties.                                                             *)

\* A prediction that was reviewed, and the call that made it, never change, and it stays
\* reviewed: the pairs of prediction and label are what the classifier is evaluated with
\* (inquiry_class_store.py, rule 1; a slow classification may store its answer after the
\* review).
ReviewStands ==
    [][row.reviewed => /\ row'.reviewed
                       /\ row'.prediction = row.prediction /\ row'.call = row.call]_vars

\* The rate of corrections counts real ones: a correction is never the predicted value
\* and exists only on a reviewed row (rule 2), and the call of a row is in the ledger.
CorrectionsReal ==
    row # Absent =>
        /\ row.call \in recorded
        /\ \A a \in Axis : row.corrected[a] # None =>
            row.reviewed /\ row.corrected[a] # row.prediction[a]

\* The row says what the instructor was last told is accepted: on every axis that was
\* ever corrected the label, the correction or else the prediction, is the last value
\* accepted for it, whatever classifications and confirmations crossed it.
Label(a) == IF row.corrected[a] = None THEN row.prediction[a] ELSE row.corrected[a]
LabelAsTold ==
    \A a \in Axis : IF meant[a] = None THEN row # Absent => row.corrected[a] = None
                    ELSE row # Absent /\ Label(a) = meant[a]
=============================================================================
