--------------------------- MODULE ProblemRevision ---------------------------
(***************************************************************************)
(* The revisions of one stored item: an instructor reads its page          *)
(* (GET /v1/problems/{set}/items/{slot}) and asks for changes of it        *)
(* (POST .../revisions, api/routers/problem.py), each a turn of the LLM    *)
(* whose outcome db/repositories/problem_revision_store.py appends to the  *)
(* history of the item.                                                    *)
(*                                                                         *)
(* A turn runs in a transaction that holds an advisory lock of the item    *)
(* while the LLM answers.  Several handlers run at once, an ask is sent    *)
(* again when its answer is late or lost, a store may fail, a connection   *)
(* may break under its transaction and the process may be killed.          *)
(***************************************************************************)
EXTENDS Integers, Sequences, FiniteSets

CONSTANTS
    Handler,    \* requests served at the same time
    Key,        \* idempotency keys
    None,       \* no key, no handler
    MaxAsks,    \* bound: changes the instructor asks for
    MaxSends,   \* bound: requests sent for them, again or for the first time
    MaxFaults   \* bound: failing calls, broken connections and kills

ASSUME RevisionAssumption ==
    /\ None \notin Key \cup Handler
    /\ MaxAsks \in Nat /\ MaxSends \in Nat /\ MaxFaults \in Nat

VARIABLES
    turns,     \* item_revision rows of the item, by their turn_no
    current,   \* problem_item.current_revision_no
    lock,      \* the handler whose transaction holds the advisory lock
    recorded,  \* the executions in the ledger, by the send that ran them
    idem,      \* idempotency rows of the endpoint
    handler,   \* what each handler is doing
    page,      \* the page of the instructor
    asks,      \* the changes asked for, with the page they were asked on
    told,      \* the revision number each ask was told, 0 for none
    sends,     \* requests so far
    faults     \* faults so far, for the bound

vars == <<turns, current, lock, recorded, idem, handler, page, asks, told, sends, faults>>

Send == 1..MaxSends
Ask == 1..MaxAsks
Number == 0..MaxAsks

\* A text of the item: the original, or what the turn of a send made of it.
Original == 0
Text == {Original} \cup Send

\* A turn of the history.  before is the text it started from (the diff has it), item
\* the text it verified or NoItem when it was blocked, call the execution whose call
\* it names, 0 when it was blocked before one.
NoItem == -1
Turn == [ask: Ask, before: Text, item: Text \cup {NoItem}, call: {0} \cup Send]

Verified(ts) == {i \in DOMAIN ts : ts[i].item # NoItem}
Last(S) == CHOOSE i \in S : \A j \in S : j <= i

\* Mutant of CurrentItem: the snapshot of the item, whatever its history.
CurrentOriginal(ts) == Original

\* _current_item: the latest verified text, else the original.
CurrentItem(ts) == IF Verified(ts) = {} THEN Original ELSE ts[Last(Verified(ts))].item

\* A row of the idempotency store: the body that was answered, and the answer.
Rows == [body: Ask, no: Number] \cup {[body |-> 0, no |-> 0]}
NoRow == [body |-> 0, no |-> 0]

Reserved == {"locked", "refining", "recording", "appending"}
Work == [pc: {"idle", "asked", "missed", "committed"} \cup Reserved, ask: {0} \cup Ask,
         send: {0} \cup Send, base: Number, before: Text, item: Text \cup {NoItem},
         call: {0} \cup Send]
Idle == [pc |-> "idle", ask |-> 0, send |-> 0, base |-> 0, before |-> Original,
         item |-> NoItem, call |-> 0]

\* no, item and listed are the fields of an item's page: current_revision_no, item and
\* how many revisions it lists.
Page == [pc: {"closed", "numbered", "filled", "shown"}, no: Number, item: Text, listed: Number]
Closed == [pc |-> "closed", no |-> 0, item |-> Original, listed |-> 0]

\* The type of the state.  The transaction that holds the lock is one of a handler
\* inside its reservation, and only a broken connection parts such a handler from it.
TypeOK ==
    /\ turns \in Seq(Turn) /\ current \in Number
    /\ lock \in Handler \cup {None}
    /\ recorded \in SUBSET Send
    /\ idem \in [Key -> Rows]
    /\ handler \in [Handler -> Work]
    /\ page \in Page
    /\ asks \in Seq([key: Key, base: Number, seen: Text]) /\ Len(asks) <= MaxAsks
    /\ told \in [Ask -> Number]
    /\ sends \in 0..MaxSends /\ faults \in 0..MaxFaults
    /\ lock # None => handler[lock].pc \in Reserved

Init ==
    /\ turns = <<>> /\ current = 0 /\ lock = None /\ recorded = {}
    /\ idem = [k \in Key |-> NoRow]
    /\ handler = [h \in Handler |-> Idle]
    /\ page = Closed
    /\ asks = <<>>
    /\ told = [a \in Ask |-> 0]
    /\ sends = 0 /\ faults = 0
-----------------------------------------------------------------------------
(* The page of the instructor: get_problem_item.                           *)

PageOnly == UNCHANGED <<turns, current, lock, recorded, idem, handler, asks, told, sends, faults>>

\* current_revision_no of the item.
ReadNumber ==
    /\ page.pc \in {"closed", "shown"}
    /\ page' = [Closed EXCEPT !.pc = "numbered", !.no = current]
    /\ PageOnly

\* Its history is read only when the number says there is one.
ReadHistory ==
    /\ page.pc = "numbered"
    /\ page' = [page EXCEPT !.pc = "filled",
                            !.item = IF page.no = 0 THEN Original ELSE CurrentItem(turns)]
    /\ PageOnly

\* Mutant of Show: the page numbers the item with the revisions it lists.
ShowListed ==
    /\ page.pc = "filled"
    /\ page' = [page EXCEPT !.pc = "shown", !.listed = Len(turns), !.no = Len(turns)]
    /\ PageOnly

\* The revisions of the page are read once more, and it is shown.
Show ==
    /\ page.pc = "filled"
    /\ page' = [page EXCEPT !.pc = "shown", !.listed = IF page.no = 0 THEN 0 ELSE Len(turns)]
    /\ PageOnly
-----------------------------------------------------------------------------
(* Asking: the requests of the instructor.                                 *)

Free(h) == handler[h].pc = "idle"

\* A request for ask a arrives at a handler.
Arrive(h, a) ==
    /\ sends < MaxSends
    /\ sends' = sends + 1
    /\ handler' = [handler EXCEPT ![h] = [Idle EXCEPT !.pc = "asked", !.ask = a, !.send = sends + 1]]
    /\ UNCHANGED <<turns, current, lock, recorded, idem, page, told, faults>>

\* A new change, for the item the page shows; its key may have been used before.
AskNew(h, k) ==
    /\ Free(h) /\ page.pc = "shown" /\ Len(asks) < MaxAsks
    /\ asks' = Append(asks, [key |-> k, base |-> page.no, seen |-> page.item])
    /\ Arrive(h, Len(asks) + 1)

\* The same request again: key and body are those of the first one.
AskAgain(h, a) ==
    /\ Free(h) /\ a \in DOMAIN asks
    /\ UNCHANGED asks
    /\ Arrive(h, a)
-----------------------------------------------------------------------------
(* post_problem_item_revision.                                             *)

At(h, pc) == handler[h].pc = pc
My(h) == asks[handler[h].ask]
Set(h, w) == handler' = [handler EXCEPT ![h] = w]
Goto(h, pc) == Set(h, [handler[h] EXCEPT !.pc = pc])
Client == UNCHANGED <<page, asks, sends>>
Item == UNCHANGED <<turns, current>>

Fault == faults < MaxFaults /\ faults' = faults + 1
Sound == UNCHANGED faults

\* The transaction of the handler ends, and with it the lock.
Unlock(h) == lock' = IF lock = h THEN None ELSE lock

\* The answer is an error.
Refuse(h) == Set(h, Idle) /\ UNCHANGED told

\* The answer is a revision.
Answer(h, no) == Set(h, Idle) /\ told' = [told EXCEPT ![handler[h].ask] = no]

\* Mutant of Replayed: a row answers whatever body it was stored for.
ReplayedAny(h) == idem[My(h).key] # NoRow

\* The row of the key answers the same body.
Replayed(h) == idem[My(h).key].body = handler[h].ask

\* The idempotency row of the key; a failing read counts as none.
AskIdempotency(h) ==
    /\ At(h, "asked")
    /\ \/ /\ Replayed(h) /\ Answer(h, idem[My(h).key].no) /\ Sound
       \/ /\ idem[My(h).key] # NoRow /\ ~Replayed(h) /\ Refuse(h) /\ Sound
       \/ /\ idem[My(h).key] = NoRow /\ Goto(h, "missed") /\ UNCHANGED told /\ Sound
       \/ /\ Fault /\ Goto(h, "missed") /\ UNCHANGED told
    /\ Item /\ Client /\ UNCHANGED <<lock, recorded, idem>>

\* reserve: the lock is tried, and an item in its turn is refused.
TryLock(h) ==
    /\ At(h, "missed")
    /\ \/ /\ lock = None /\ lock' = h /\ Goto(h, "locked") /\ UNCHANGED told
       \/ /\ lock # None /\ Refuse(h) /\ UNCHANGED lock
    /\ Item /\ Client /\ Sound /\ UNCHANGED <<recorded, idem>>

\* Mutant of UpToDate: only a base of the future is refused.
UpToDateLater(h) == My(h).base <= current

UpToDate(h) == My(h).base = current

\* reserve: under the lock the row is read, and a base that is not its number refused.
ReadRow(h) ==
    /\ At(h, "locked")
    /\ \/ /\ ~UpToDate(h) /\ Refuse(h) /\ Unlock(h)
       \/ /\ UpToDate(h)
          /\ Set(h, [handler[h] EXCEPT !.pc = "refining", !.base = current, !.before = CurrentItem(turns)])
          /\ UNCHANGED <<told, lock>>
    /\ Item /\ Client /\ Sound /\ UNCHANGED <<recorded, idem>>

\* ProblemItemRefiner.refine: a verified text, or a normal refusal, before or after the
\* call that made the text.
Refined(h) ==
    LET w == handler[h]
    IN  \/ Set(h, [w EXCEPT !.pc = "recording", !.item = w.send, !.call = w.send])
        \/ \E c \in {0, w.send} : Set(h, [w EXCEPT !.pc = "recording", !.call = c])

\* Mutant of RefineFails: the reservation outlives the error.
RefineFailsReserved(h) ==
    /\ At(h, "refining") /\ Fault
    /\ Refuse(h) /\ UNCHANGED lock
    /\ \/ recorded' = recorded \cup {handler[h].send}
       \/ UNCHANGED recorded
    /\ Item /\ Client /\ UNCHANGED idem

\* An LlmError ends the turn; its execution is recorded if it can be.
RefineFails(h) ==
    /\ At(h, "refining") /\ Fault
    /\ Refuse(h) /\ Unlock(h)
    /\ \/ recorded' = recorded \cup {handler[h].send}
       \/ UNCHANGED recorded
    /\ Item /\ Client /\ UNCHANGED idem

Refine(h) ==
    /\ At(h, "refining")
    /\ Refined(h)
    /\ Item /\ Client /\ Sound /\ UNCHANGED <<lock, recorded, idem, told>>

\* _record_revision_run: a transaction of its own; its failure ends the turn.
RecordRun(h) ==
    /\ At(h, "recording")
    /\ \/ /\ recorded' = recorded \cup {handler[h].send}
          /\ Goto(h, "appending") /\ Sound /\ UNCHANGED <<told, lock>>
       \/ /\ Fault /\ Refuse(h) /\ Unlock(h) /\ UNCHANGED recorded
    /\ Item /\ Client /\ UNCHANGED idem

\* What the database demands of the rows: the id of a revision is derived from its
\* number, and its call is one of the ledger.
Insertable(h) ==
    LET w == handler[h]
    IN  w.base + 1 > Len(turns) /\ w.call \in {0} \cup recorded

\* append and the commit of the transaction.
Commit(h) ==
    LET w == handler[h]
    IN  /\ At(h, "appending") /\ lock = h /\ Insertable(h)
        /\ turns' = Append(turns, [ask |-> w.ask, before |-> w.before, item |-> w.item, call |-> w.call])
        /\ current' = w.base + 1
        /\ Goto(h, "committed") /\ Unlock(h)
        /\ Client /\ Sound /\ UNCHANGED <<told, recorded, idem>>

\* The commit fails, as it must on a broken connection.
CommitFails(h) ==
    /\ At(h, "appending")
    /\ \/ (lock # h \/ ~Insertable(h)) /\ Sound
       \/ Fault
    /\ Refuse(h) /\ Unlock(h)
    /\ Item /\ Client /\ UNCHANGED <<recorded, idem>>

\* The answer is stored unless the key has a row or the store fails, and given.
PutIdempotency(h) ==
    LET k == My(h).key
        no == handler[h].base + 1
    IN  /\ At(h, "committed")
        /\ \/ /\ idem' = IF idem[k] = NoRow THEN [idem EXCEPT ![k] = [body |-> handler[h].ask, no |-> no]]
                         ELSE idem
              /\ Sound
           \/ Fault /\ UNCHANGED idem
        /\ Answer(h, no)
        /\ Item /\ Client /\ UNCHANGED <<lock, recorded>>
-----------------------------------------------------------------------------
(* Faults.                                                                 *)

\* The connection under a reservation breaks: the database ends its transaction, the
\* handler learns of it when it commits.
Disconnect(h) ==
    /\ Fault /\ lock = h /\ handler[h].pc \in {"refining", "recording", "appending"}
    /\ lock' = None
    /\ Item /\ Client /\ UNCHANGED <<told, recorded, idem, handler>>

\* The process is killed.
Kill ==
    /\ Fault
    /\ handler' = [h \in Handler |-> Idle] /\ lock' = None
    /\ Item /\ Client /\ UNCHANGED <<told, recorded, idem>>
-----------------------------------------------------------------------------
Step(h) ==
    \/ AskIdempotency(h) \/ TryLock(h) \/ ReadRow(h) \/ Refine(h) \/ RefineFails(h)
    \/ RecordRun(h) \/ Commit(h) \/ CommitFails(h) \/ PutIdempotency(h)

Next ==
    \/ ReadNumber \/ ReadHistory \/ Show
    \/ \E h \in Handler :
        \/ \E k \in Key : AskNew(h, k)
        \/ \E a \in Ask : AskAgain(h, a)
        \/ Step(h) \/ Disconnect(h)
    \/ Kill

Spec == Init /\ [][Next]_vars
-----------------------------------------------------------------------------
(* Properties.                                                             *)

\* The history accounts for the item: its numbers run to the current one, each turn
\* started from the text the turn before it left, verified or not, and the call a turn
\* names is in the ledger (problem_revision_store.py reads and writes under one lock, and
\* the ledger is written by a transaction that commits before the turn's).
Left(t) == IF t.item = NoItem THEN t.before ELSE t.item
HistoryWhole ==
    /\ current = Len(turns)
    /\ \A i \in DOMAIN turns :
        /\ turns[i].before = IF i = 1 THEN Original ELSE Left(turns[i - 1])
        /\ turns[i].call \in {0} \cup recorded

\* An ask is applied at most once however often it is sent, its idempotency row lost or
\* its answer never received; and an ask that was told a revision number was that turn
\* of the history (the base number fences what the fail-open idempotency store misses).
AppliedOnce ==
    /\ \A i, j \in DOMAIN turns : turns[i].ask = turns[j].ask => i = j
    /\ \A a \in Ask : told[a] # 0 => told[a] \in DOMAIN turns /\ turns[told[a]].ask = a

\* No turn changes a text its instructor had not seen: the page reads the number of the
\* item before its history, so a number that is still current is the one of the text
\* shown with it (get_problem_item reads both without a transaction).
BasedOnShown == \A i \in DOMAIN turns : turns[i].before = asks[turns[i].ask].seen
=============================================================================
