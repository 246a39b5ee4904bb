------------------------ MODULE ProblemRevisionProofs ------------------------
(***************************************************************************)
(* Proofs about ProblemRevision.  AppliedOnce and BasedOnShown are made    *)
(* inductive by the base number: a turn is the one after the base of its   *)
(* ask (TurnOfBase), so that an ask has one turn only, and whoever has a   *)
(* page or an ask whose number is still current has its text (Current).    *)
(***************************************************************************)
EXTENDS ProblemRevision, SequenceTheorems, TLAPS

\* The verified turns, when there are any, have a last one.
HasLast(ts) == Verified(ts) # {} => \E m \in Verified(ts) : \A j \in Verified(ts) : j <= m

\* The text of the item is what its last turn left.
Current ==
    /\ HasLast(turns)
    /\ turns # <<>> => CurrentItem(turns) = Left(turns[Len(turns)])

\* The turn of an ask is the one after its base.
TurnOfBase ==
    \A i \in DOMAIN turns : turns[i].ask \in DOMAIN asks /\ asks[turns[i].ask].base = i - 1

\* A number that is still current is that of the text read with it.
Fresh(no, item) == no <= Len(turns) /\ (no = Len(turns) => item = CurrentItem(turns))

Seen ==
    /\ page.no <= Len(turns)
    /\ page.pc \in {"filled", "shown"} => Fresh(page.no, page.item)
    /\ \A a \in DOMAIN asks : asks[a].base < a /\ Fresh(asks[a].base, asks[a].seen)
    /\ Len(turns) <= Len(asks)

\* A revision number that was stored or told is that of the turn of its ask.
IsTurn(no, a) == no \in DOMAIN turns /\ turns[no].ask = a
Answered ==
    /\ \A k \in Key : idem[k] # NoRow => IsTurn(idem[k].no, idem[k].body)
    /\ \A a \in Ask : told[a] # 0 => IsTurn(told[a], a)

\* What a handler knows of its ask, of the item it has locked and of the turn it committed.
Turning == {"refining", "recording", "appending"}
Fit(w, holds) ==
    /\ w.pc # "idle" => w.ask \in DOMAIN asks /\ w.send \in Send
    /\ w.pc \in Turning \cup {"committed"} => w.base = asks[w.ask].base
    /\ holds /\ w.pc \in Turning => w.base = current /\ w.before = CurrentItem(turns)
    /\ w.pc = "committed" => IsTurn(w.base + 1, w.ask)

Fitting == \A h \in Handler : Fit(handler[h], lock = h)

\* The inductive invariant.
Inv ==
    /\ TypeOK /\ HistoryWhole /\ Current /\ TurnOfBase /\ Seen /\ Answered /\ Fitting
    /\ BasedOnShown
-----------------------------------------------------------------------------
(* The history.                                                            *)

\* A turn that is appended leaves its own text, or the text there was.
LEMMA AppendCurrent ==
  ASSUME NEW ts \in Seq(Turn), NEW t \in Turn, HasLast(ts)
  PROVE  /\ HasLast(Append(ts, t))
         /\ CurrentItem(Append(ts, t)) = IF t.item = NoItem THEN CurrentItem(ts) ELSE t.item
<1> DEFINE new == Append(ts, t)
           n == Len(ts) + 1
<1>1. /\ Len(ts) \in Nat /\ DOMAIN ts = 1..Len(ts) /\ DOMAIN new = 1..n
      /\ \A i \in DOMAIN ts : new[i] = ts[i]
      /\ new[n] = t /\ n \in DOMAIN new
  BY AppendProperties
<1> HIDE DEF new, n
<1>2. CASE t.item = NoItem
  <2>1. Verified(new) = Verified(ts)
    BY <1>1, <1>2 DEF Verified, n
  <2>2. CASE Verified(ts) = {}
    BY <1>2, <2>1, <2>2 DEF HasLast, CurrentItem, new
  <2>3. CASE Verified(ts) # {}
    <3>1. Last(Verified(ts)) \in Verified(ts)
      BY <2>3 DEF HasLast, Last
    <3>2. Last(Verified(ts)) \in DOMAIN ts
      BY <3>1 DEF Verified
    <3>3. CurrentItem(new) = CurrentItem(ts)
      BY <2>1, <2>3, <3>2, <1>1 DEF CurrentItem
    <3> QED  BY <1>2, <2>1, <3>3 DEF HasLast, new
  <2> QED  BY <2>2, <2>3
<1>3. CASE t.item # NoItem
  <2>1. n \in Verified(new) /\ \A j \in Verified(new) : j <= n
    BY <1>1, <1>3 DEF Verified, n
  <2>2. HasLast(new)
    BY <2>1 DEF HasLast
  <2>3. \A i \in Verified(new) : (\A j \in Verified(new) : j <= i) => i = n
    BY <2>1, <1>1 DEF Verified, n
  <2>4. Last(Verified(new)) = n
    BY <2>1, <2>3 DEF Last
  <2> QED  BY <1>1, <1>3, <2>1, <2>2, <2>4 DEF CurrentItem, new
<1> QED  BY <1>2, <1>3

\* The text of the item is a text.
LEMMA CurrentItemType == ASSUME NEW ts \in Seq(Turn), HasLast(ts) PROVE CurrentItem(ts) \in Text
<1>1. CASE Verified(ts) = {}
  BY <1>1 DEF CurrentItem, Text
<1>2. CASE Verified(ts) # {}
  <2>1. Last(Verified(ts)) \in Verified(ts)
    BY <1>2 DEF HasLast, Last
  <2>2. ts[Last(Verified(ts))] \in Turn /\ ts[Last(Verified(ts))].item # NoItem
    BY <2>1 DEF Verified
  <2> QED  BY <1>2, <2>2 DEF CurrentItem, Turn
<1> QED  BY <1>1, <1>2

\* Without a turn it is the original.
LEMMA CurrentItemEmpty == CurrentItem(<<>>) = Original /\ HasLast(<<>>)
  BY DEF CurrentItem, Verified, HasLast

\* An idle handler is well typed, and knows nothing.
LEMMA IdleTyped ==
  /\ Idle \in Work /\ Idle.pc = "idle"
  /\ \A holds \in BOOLEAN : Fit(Idle, holds)
  BY RevisionAssumption DEF Idle, Work, Fit, Turning, Number, Text, Reserved

\* The invariant holds of an item without revisions.
LEMMA InitInv == Init => Inv
<1> SUFFICES ASSUME Init PROVE Inv
  OBVIOUS
<1> USE DEF Init
<1>1. TypeOK
  BY IdleTyped, RevisionAssumption
     DEF TypeOK, Rows, NoRow, Number, Page, Closed, Text
<1>2. HistoryWhole /\ TurnOfBase /\ BasedOnShown
  BY DEF HistoryWhole, TurnOfBase, BasedOnShown
<1>3. Current /\ Seen /\ Answered
  BY CurrentItemEmpty DEF Current, Seen, Answered, Closed
<1>4. Fitting
  BY IdleTyped DEF Fitting
<1> QED  BY <1>1, <1>2, <1>3, <1>4 DEF Inv
-----------------------------------------------------------------------------
(* The shapes of the steps.                                                *)

\* A fault is one within the bound.
LEMMA FaultTyped == ASSUME Inv, Fault \/ Sound PROVE faults' \in 0..MaxFaults
  BY RevisionAssumption DEF Inv, TypeOK, Fault, Sound

\* The asks, and the rows that answer them.
LEMMA AskTyped ==
  ASSUME Inv
  PROVE  /\ Len(asks) \in Nat /\ DOMAIN asks = 1..Len(asks) /\ DOMAIN asks \subseteq Ask
         /\ \A a \in DOMAIN asks : asks[a] \in [key: Key, base: Number, seen: Text]
<1> DEFINE S == [key: Key, base: Number, seen: Text]
<1>1. asks \in Seq(S) /\ Len(asks) <= MaxAsks
  BY DEF Inv, TypeOK
<1> HIDE DEF S
<1>2. Len(asks) \in Nat /\ DOMAIN asks = 1..Len(asks) /\ \A a \in DOMAIN asks : asks[a] \in S
  BY <1>1
<1>3. DOMAIN asks \subseteq Ask
  BY <1>1, <1>2, RevisionAssumption DEF Ask
<1> QED  BY <1>2, <1>3 DEF S

\* A handler at work has a request for an ask, and the lock only inside a reservation.
LEMMA Pending ==
  ASSUME Inv, NEW h \in Handler
  PROVE  /\ handler[h] \in Work
         /\ lock = h => handler[h].pc \in Reserved
         /\ handler[h].pc # "idle" =>
                /\ handler[h].ask \in DOMAIN asks /\ handler[h].ask \in Ask /\ handler[h].send \in Send
                /\ My(h).key \in Key /\ My(h).base \in Number
<1>1. handler[h] \in Work /\ (lock = h => handler[h].pc \in Reserved)
  BY RevisionAssumption DEF Inv, TypeOK
<1>2. handler[h].pc # "idle" => handler[h].ask \in DOMAIN asks /\ handler[h].send \in Send
  BY DEF Inv, Fitting, Fit
<1> QED  BY <1>1, <1>2, AskTyped DEF My

\* A step of one handler that leaves the item and the instructor alone.
LEMMA HandlerStep ==
  ASSUME Inv, NEW h \in Handler, NEW w \in Work, Set(h, w),
         Item, Client, recorded \subseteq recorded', recorded' \in SUBSET Send,
         \/ lock' = lock
         \/ lock' = None
         \/ lock = None /\ lock' = h,
         lock' = h => w.pc \in Reserved,
         Fit(w, lock' = h),
         idem' \in [Key -> Rows], told' \in [Ask -> Number], Answered',
         faults' \in 0..MaxFaults
  PROVE  Inv'
<1>1. handler' = [handler EXCEPT ![h] = w] /\ handler \in [Handler -> Work]
  BY DEF Set, Inv, TypeOK
<1>2. UNCHANGED <<turns, current, page, asks, sends>>
  BY DEF Item, Client
<1>3. TypeOK'
  <2>1. lock' # None => handler'[lock'].pc \in Reserved
    BY <1>1 DEF Inv, TypeOK
  <2>2. lock' \in Handler \cup {None}
    BY DEF Inv, TypeOK
  <2>3. handler' \in [Handler -> Work]
    BY <1>1
  <2> QED  BY <2>1, <2>2, <2>3, <1>2 DEF Inv, TypeOK
<1>4. HistoryWhole' /\ Current' /\ TurnOfBase' /\ Seen' /\ BasedOnShown'
  <2>1. HistoryWhole'
    BY <1>2 DEF Inv, HistoryWhole
  <2>2. Current' /\ TurnOfBase' /\ Seen' /\ BasedOnShown'
    BY <1>2 DEF Inv, Current, TurnOfBase, Seen, Fresh, BasedOnShown
  <2> QED  BY <2>1, <2>2
<1>5. Fitting'
  <2> SUFFICES ASSUME NEW g \in Handler PROVE Fit(handler[g], lock = g)'
    BY DEF Fitting
  <2>1. CASE g = h
    BY <2>1, <1>1, <1>2 DEF Fit, IsTurn
  <2>2. CASE g # h
    <3>1. handler'[g] = handler[g] /\ (lock' = g => lock = g)
      BY <2>2, <1>1, RevisionAssumption
    <3> QED  BY <3>1, <1>2 DEF Inv, Fitting, Fit, IsTurn
  <2> QED  BY <2>1, <2>2
<1> QED  BY <1>3, <1>4, <1>5 DEF Inv

\* What was answered stays so while the history, the rows and the answers do.
LEMMA AnsweredKept ==
  ASSUME Answered, UNCHANGED <<turns, idem, told>> PROVE Answered'
  BY DEF Answered, IsTurn

\* The handler refuses, with the lock or without.
LEMMA RefuseInv ==
  ASSUME Inv, NEW h \in Handler, Refuse(h), Unlock(h), Item, Client,
         recorded \subseteq recorded', recorded' \in SUBSET Send,
         UNCHANGED idem, Fault \/ Sound
  PROVE  Inv'
<1>1. lock' # h
  BY RevisionAssumption DEF Unlock
<1>2. UNCHANGED told /\ Set(h, Idle) /\ Answered'
  BY AnsweredKept DEF Refuse, Item, Inv
<1> QED  BY <1>1, <1>2, IdleTyped, FaultTyped, HandlerStep DEF Unlock, Inv, TypeOK

\* The handler goes on with a new state, its lock kept.
LEMMA GoOnInv ==
  ASSUME Inv, NEW h \in Handler, NEW w \in Work, Set(h, w), Item, Client,
         UNCHANGED <<lock, idem, told>>, Fault \/ Sound,
         recorded \subseteq recorded', recorded' \in SUBSET Send,
         lock = h => w.pc \in Reserved, Fit(w, lock = h)
  PROVE  Inv'
  BY AnsweredKept, FaultTyped, HandlerStep DEF Item, Inv, TypeOK

\* The answer of the handler is the turn of its ask.
LEMMA AnswerInv ==
  ASSUME Inv, NEW h \in Handler, NEW no \in Number, Answer(h, no), handler[h].pc # "idle", lock # h,
         IsTurn(no, handler[h].ask), Item, Client, UNCHANGED <<lock, recorded>>, Fault \/ Sound,
         idem' \in [Key -> Rows],
         \A k \in Key : idem'[k] # NoRow => IsTurn(idem'[k].no, idem'[k].body)
  PROVE  Inv'
<1>1. handler[h].ask \in Ask
  BY Pending
<1>2. told' \in [Ask -> Number] /\ told' = [told EXCEPT ![handler[h].ask] = no] /\ Set(h, Idle)
  BY DEF Answer, Inv, TypeOK
<1>3. Answered'
  BY <1>1, <1>2 DEF Answered, Inv, TypeOK, Item, IsTurn
<1> QED  BY <1>2, <1>3, IdleTyped, FaultTyped, HandlerStep DEF Inv, TypeOK
-----------------------------------------------------------------------------
(* The handler's steps before the lock.                                    *)

\* The idempotency row answers the request of its body, and no other.
LEMMA AskIdempotencyInv == ASSUME Inv, NEW h \in Handler, AskIdempotency(h) PROVE Inv'
<1> DEFINE w == [handler[h] EXCEPT !.pc = "missed"]
<1>1. /\ handler[h] \in Work /\ handler[h].pc = "asked" /\ lock # h
      /\ handler[h].ask \in DOMAIN asks /\ handler[h].ask \in Ask /\ handler[h].send \in Send
      /\ My(h).key \in Key
  BY Pending DEF AskIdempotency, At, Reserved
<1>2. CASE Replayed(h) /\ Answer(h, idem[My(h).key].no) /\ Sound
  <2>1. idem[My(h).key] # NoRow /\ idem[My(h).key] \in Rows
    BY <1>1, <1>2 DEF Replayed, NoRow, Ask, Inv, TypeOK
  <2>2. /\ idem[My(h).key].no \in Number
        /\ IsTurn(idem[My(h).key].no, handler[h].ask)
    BY <1>1, <1>2, <2>1 DEF Replayed, Inv, Answered, Rows, NoRow
  <2> QED
    BY <1>1, <1>2, <2>2, AnswerInv DEF AskIdempotency, Inv, TypeOK, Answered
<1>3. CASE Refuse(h) /\ Sound
  BY <1>1, <1>3, RefuseInv DEF AskIdempotency, Unlock, Inv, TypeOK
<1>4. CASE Goto(h, "missed") /\ UNCHANGED told /\ (Sound \/ Fault)
  <2>1. w \in Work /\ w.pc = "missed" /\ w.ask = handler[h].ask /\ w.send = handler[h].send
    BY <1>1 DEF Work
  <2>2. Set(h, w)
    BY <1>4 DEF Goto
  <2> HIDE DEF w
  <2>3. Fit(w, lock = h)
    BY <1>1, <2>1 DEF Fit, Turning
  <2> QED  BY <1>1, <1>4, <2>1, <2>2, <2>3, GoOnInv DEF AskIdempotency, Inv, TypeOK
<1> QED  BY <1>2, <1>3, <1>4 DEF AskIdempotency

\* The lock is taken when it is free.
LEMMA TryLockInv == ASSUME Inv, NEW h \in Handler, TryLock(h) PROVE Inv'
<1> DEFINE w == [handler[h] EXCEPT !.pc = "locked"]
<1>1. /\ handler[h] \in Work /\ handler[h].pc = "missed" /\ lock # h
      /\ handler[h].ask \in DOMAIN asks /\ handler[h].send \in Send
  BY Pending DEF TryLock, At, Reserved
<1>2. CASE lock = None /\ lock' = h /\ Goto(h, "locked") /\ UNCHANGED told
  <2>1. w \in Work /\ w.pc = "locked" /\ w.ask = handler[h].ask /\ w.send = handler[h].send
    BY <1>1 DEF Work, Reserved
  <2>2. Set(h, w)
    BY <1>2 DEF Goto
  <2> HIDE DEF w
  <2>3. Fit(w, TRUE) /\ w.pc \in Reserved
    BY <1>1, <2>1 DEF Fit, Turning, Reserved
  <2>4. Answered' /\ idem' \in [Key -> Rows] /\ told' \in [Ask -> Number]
    BY <1>2, AnsweredKept DEF TryLock, Item, Inv, TypeOK
  <2> QED
    BY <1>2, <2>1, <2>2, <2>3, <2>4, FaultTyped, HandlerStep DEF TryLock, Inv, TypeOK
<1>3. CASE Refuse(h) /\ UNCHANGED lock
  BY <1>1, <1>3, RefuseInv DEF TryLock, Unlock, Inv, TypeOK
<1> QED  BY <1>2, <1>3 DEF TryLock
-----------------------------------------------------------------------------
(* The turn.                                                               *)

\* What a handler carries on through its turn.
LEMMA TurnGoesOn ==
  ASSUME Inv, NEW h \in Handler, handler[h].pc \in Turning, NEW w \in Work,
         w.pc \in Turning, w.ask = handler[h].ask, w.send = handler[h].send,
         w.base = handler[h].base, w.before = handler[h].before
  PROVE  Fit(w, lock = h) /\ w.pc \in Reserved
  BY DEF Inv, Fitting, Fit, Turning, Reserved

\* The item is read under the lock, and only for an ask that is up to date.
LEMMA ReadRowInv == ASSUME Inv, NEW h \in Handler, ReadRow(h) PROVE Inv'
<1>1. CASE Refuse(h) /\ Unlock(h)
  BY <1>1, RefuseInv DEF ReadRow, Inv, TypeOK
<1>2. CASE UpToDate(h) /\ UNCHANGED <<told, lock>> /\
           Set(h, [handler[h] EXCEPT !.pc = "refining", !.base = current, !.before = CurrentItem(turns)])
  <2> DEFINE w == [handler[h] EXCEPT !.pc = "refining", !.base = current, !.before = CurrentItem(turns)]
  <2>1. /\ handler[h] \in Work /\ handler[h].ask \in DOMAIN asks /\ handler[h].send \in Send
    BY Pending DEF ReadRow, At
  <2>2. CurrentItem(turns) \in Text /\ current \in Number
    BY CurrentItemType DEF Inv, TypeOK, Current
  <2>3. /\ w \in Work /\ w.pc = "refining" /\ w.ask = handler[h].ask /\ w.send = handler[h].send
        /\ w.base = current /\ w.before = CurrentItem(turns)
    BY <2>1, <2>2 DEF Work, Reserved
  <2>4. Set(h, w)
    BY <1>2
  <2> HIDE DEF w
  <2>5. Fit(w, lock = h) /\ w.pc \in Reserved
    BY <1>2, <2>1, <2>3 DEF Fit, UpToDate, My, Reserved
  <2> QED  BY <1>2, <2>3, <2>4, <2>5, GoOnInv DEF ReadRow, Inv, TypeOK
<1> QED  BY <1>1, <1>2 DEF ReadRow

\* The LLM answers.
LEMMA RefineInv == ASSUME Inv, NEW h \in Handler, Refine(h) PROVE Inv'
<1>1. /\ handler[h] \in Work /\ handler[h].pc = "refining" /\ handler[h].send \in Send
  BY Pending DEF Refine, At
<1>2. ASSUME NEW w \in Work, Set(h, w), w.pc = "recording", w.ask = handler[h].ask,
             w.send = handler[h].send, w.base = handler[h].base, w.before = handler[h].before
      PROVE  Inv'
  <2>1. Fit(w, lock = h) /\ w.pc \in Reserved
    BY <1>1, <1>2, TurnGoesOn DEF Turning
  <2> QED  BY <1>2, <2>1, GoOnInv DEF Refine, Inv, TypeOK
<1>3. CASE Set(h, [handler[h] EXCEPT !.pc = "recording", !.item = handler[h].send, !.call = handler[h].send])
  <2> DEFINE w == [handler[h] EXCEPT !.pc = "recording", !.item = handler[h].send, !.call = handler[h].send]
  <2>1. /\ w \in Work /\ w.pc = "recording" /\ w.ask = handler[h].ask
        /\ w.send = handler[h].send /\ w.base = handler[h].base /\ w.before = handler[h].before
    BY <1>1 DEF Work, Text, Reserved
  <2> HIDE DEF w
  <2> QED  BY <1>2, <1>3, <2>1 DEF w
<1>4. CASE \E c \in {0, handler[h].send} : Set(h, [handler[h] EXCEPT !.pc = "recording", !.call = c])
  <2>1. PICK c \in {0, handler[h].send} : Set(h, [handler[h] EXCEPT !.pc = "recording", !.call = c])
    BY <1>4
  <2> DEFINE w == [handler[h] EXCEPT !.pc = "recording", !.call = c]
  <2>2. /\ w \in Work /\ w.pc = "recording" /\ w.ask = handler[h].ask
        /\ w.send = handler[h].send /\ w.base = handler[h].base /\ w.before = handler[h].before
    BY <1>1 DEF Work, Reserved
  <2> HIDE DEF w
  <2> QED  BY <1>2, <2>1, <2>2 DEF w
<1> QED  BY <1>3, <1>4 DEF Refine, Refined

\* The LLM fails.
LEMMA RefineFailsInv == ASSUME Inv, NEW h \in Handler, RefineFails(h) PROVE Inv'
<1>1. handler[h].send \in Send
  BY Pending DEF RefineFails, At
<1> QED  BY <1>1, RefuseInv DEF RefineFails, Inv, TypeOK

\* The execution is recorded by a transaction of its own.
LEMMA RecordRunInv == ASSUME Inv, NEW h \in Handler, RecordRun(h) PROVE Inv'
<1> DEFINE w == [handler[h] EXCEPT !.pc = "appending"]
<1>1. handler[h] \in Work /\ handler[h].pc = "recording" /\ handler[h].send \in Send
  BY Pending DEF RecordRun, At
<1>2. CASE Refuse(h) /\ Unlock(h) /\ Fault /\ UNCHANGED recorded
  BY <1>2, RefuseInv DEF RecordRun, Inv, TypeOK
<1>3. CASE /\ Goto(h, "appending") /\ Sound /\ UNCHANGED <<told, lock>>
           /\ recorded' = recorded \cup {handler[h].send}
  <2>1. /\ w \in Work /\ w.pc = "appending" /\ w.ask = handler[h].ask
        /\ w.send = handler[h].send /\ w.base = handler[h].base /\ w.before = handler[h].before
    BY <1>1 DEF Work, Reserved
  <2>2. Set(h, w)
    BY <1>3 DEF Goto
  <2> HIDE DEF w
  <2>3. Fit(w, lock = h) /\ w.pc \in Reserved
    BY <1>1, <2>1, TurnGoesOn DEF Turning
  <2> QED  BY <1>1, <1>3, <2>1, <2>2, <2>3, GoOnInv DEF RecordRun, Inv, TypeOK
<1> QED  BY <1>2, <1>3 DEF RecordRun

\* The commit fails.
LEMMA CommitFailsInv == ASSUME Inv, NEW h \in Handler, CommitFails(h) PROVE Inv'
  BY RefuseInv DEF CommitFails, Inv, TypeOK

\* The committed turn is stored for the key, and answered.
LEMMA PutIdempotencyInv == ASSUME Inv, NEW h \in Handler, PutIdempotency(h) PROVE Inv'
<1> DEFINE k == My(h).key
           no == handler[h].base + 1
<1>1. /\ handler[h].pc = "committed" /\ lock # h /\ handler[h].ask \in Ask /\ k \in Key
  BY Pending DEF PutIdempotency, At, Reserved
<1>2. IsTurn(no, handler[h].ask)
  BY <1>1 DEF Inv, Fitting, Fit
<1>3. no \in Number
  <2>1. turns \in Seq(Turn) /\ Len(turns) <= Len(asks) /\ Len(asks) <= MaxAsks
    BY DEF Inv, TypeOK, Seen
  <2>2. Len(turns) \in Nat /\ DOMAIN turns = 1..Len(turns)
    BY <2>1
  <2> QED  BY <1>2, <2>1, <2>2, AskTyped, RevisionAssumption DEF IsTurn, Number
<1>4. /\ idem' \in [Key -> Rows]
      /\ \A i \in Key : idem'[i] # NoRow => IsTurn(idem'[i].no, idem'[i].body)
  <2>1. CASE UNCHANGED idem
    BY <2>1 DEF Inv, TypeOK, Answered
  <2>2. CASE idem' = [idem EXCEPT ![k] = [body |-> handler[h].ask, no |-> no]]
    <3>1. [body |-> handler[h].ask, no |-> no] \in Rows
      BY <1>1, <1>3 DEF Rows
    <3> HIDE DEF k, no
    <3>2. idem' \in [Key -> Rows]
      BY <1>1, <2>2, <3>1 DEF Inv, TypeOK
    <3> QED  BY <1>1, <1>2, <2>2, <3>2 DEF Inv, TypeOK, Answered
  <2> QED  BY <2>1, <2>2 DEF PutIdempotency
<1>5. Answer(h, no) /\ Item /\ Client /\ UNCHANGED <<lock, recorded>> /\ (Fault \/ Sound)
  BY DEF PutIdempotency
<1> HIDE DEF k, no
<1> QED  BY <1>1, <1>2, <1>3, <1>4, <1>5, AnswerInv
-----------------------------------------------------------------------------
(* The commit of a turn.                                                   *)

\* The turn is the next one, of the text the instructor saw.
LEMMA CommitInv == ASSUME Inv, NEW h \in Handler, Commit(h) PROVE Inv'
<1> DEFINE w == handler[h]
           t == [ask |-> w.ask, before |-> w.before, item |-> w.item, call |-> w.call]
           n == Len(turns) + 1
<1>1. /\ w \in Work /\ w.pc = "appending" /\ lock = h /\ w.ask \in DOMAIN asks /\ w.ask \in Ask
      /\ w.base = asks[w.ask].base /\ w.base = current /\ w.before = CurrentItem(turns)
      /\ w.call \in {0} \cup recorded
  BY Pending DEF Commit, At, Insertable, Inv, Fitting, Fit, Turning
<1>2. t \in Turn /\ t.ask = w.ask /\ t.before = w.before /\ t.item = w.item /\ t.call = w.call
  BY <1>1 DEF Work, Turn
<1>3. /\ turns' = Append(turns, t) /\ current' = w.base + 1 /\ lock' = None
      /\ handler' = [handler EXCEPT ![h] = [w EXCEPT !.pc = "committed"]]
      /\ UNCHANGED <<page, asks, sends, faults, told, recorded, idem>>
  BY <1>1 DEF Commit, Goto, Set, Unlock, Client, Sound
<1>4. /\ turns \in Seq(Turn) /\ Len(turns) \in Nat /\ DOMAIN turns = 1..Len(turns)
      /\ current = Len(turns)
  BY DEF Inv, TypeOK, HistoryWhole
<1> HIDE DEF t
<1>5. /\ turns' \in Seq(Turn) /\ Len(turns') = n /\ DOMAIN turns' = 1..n /\ turns'[n] = t
      /\ \A i \in DOMAIN turns : i \in DOMAIN turns' /\ turns'[i] = turns[i]
      /\ turns' # <<>>
  BY <1>2, <1>3, <1>4, AppendProperties
<1>6. /\ asks[w.ask].seen = w.before /\ n <= Len(asks) /\ n \in Number /\ n = w.base + 1
  <2>1. w.base < w.ask /\ w.ask \in 1..Len(asks) /\ Len(asks) \in Nat
    BY <1>1, AskTyped DEF Inv, Seen
  <2>2. Len(asks) <= MaxAsks
    BY DEF Inv, TypeOK
  <2>3. asks[w.ask].seen = w.before
    BY <1>1, <1>4 DEF Inv, Seen, Fresh
  <2> QED  BY <1>1, <1>4, <2>1, <2>2, <2>3, RevisionAssumption DEF Number
<1>7. HasLast(turns') /\ CurrentItem(turns') = Left(t)
  BY <1>1, <1>2, <1>3, <1>4, AppendCurrent DEF Inv, Current, Left
<1>8. w.before = IF n = 1 THEN Original ELSE Left(turns[Len(turns)])
  BY <1>1, <1>4, CurrentItemEmpty DEF Inv, Current
<1>9. \A no, a : IsTurn(no, a) => IsTurn(no, a)'
  BY <1>5 DEF IsTurn
<1> DEFINE v == [w EXCEPT !.pc = "committed"]
<1>10. v \in Work /\ v.pc = "committed" /\ v.ask = w.ask /\ v.send = w.send /\ v.base = w.base
  BY <1>1 DEF Work
<1>11. handler' = [handler EXCEPT ![h] = v] /\ handler \in [Handler -> Work]
  BY <1>3 DEF Inv, TypeOK
<1> HIDE DEF v
<1>12. w.send \in Send
  BY <1>1, Pending
<1> HIDE DEF w, n
<1>13. TypeOK'
  <2>1. handler' \in [Handler -> Work]
    BY <1>10, <1>11
  <2> QED  BY <2>1, <1>3, <1>5, <1>6 DEF Inv, TypeOK
<1>14. HistoryWhole'
  <2>1. current' = Len(turns')
    BY <1>3, <1>5, <1>6
  <2>2. ASSUME NEW i \in DOMAIN turns
        PROVE  /\ turns'[i].before = IF i = 1 THEN Original ELSE Left(turns'[i - 1])
               /\ turns'[i].call \in {0} \cup recorded'
    <3>1. i # 1 => i - 1 \in DOMAIN turns
      BY <1>4
    <3> QED  BY <1>3, <1>5, <3>1 DEF Inv, HistoryWhole
  <2>3. /\ turns'[n].before = IF n = 1 THEN Original ELSE Left(turns'[n - 1])
        /\ turns'[n].call \in {0} \cup recorded'
    <3>1. n # 1 => n - 1 \in DOMAIN turns /\ n - 1 = Len(turns)
      BY <1>4 DEF n
    <3> QED  BY <1>1, <1>2, <1>3, <1>5, <1>8, <3>1
  <2>4. \A i \in DOMAIN turns' : i \in DOMAIN turns \/ i = n
    BY <1>4, <1>5 DEF n
  <2> QED  BY <2>1, <2>2, <2>3, <2>4 DEF HistoryWhole
<1>15. Current'
  BY <1>5, <1>7 DEF Current
<1>16. TurnOfBase' /\ BasedOnShown'
  <2>1. \A i \in DOMAIN turns' : i \in DOMAIN turns \/ i = n
    BY <1>4, <1>5 DEF n
  <2>2. w.base = n - 1
    BY <1>1, <1>4, <1>6
  <2>3. ASSUME NEW i \in DOMAIN turns'
        PROVE  /\ turns'[i].ask \in DOMAIN asks /\ asks[turns'[i].ask].base = i - 1
               /\ turns'[i].before = asks[turns'[i].ask].seen
    BY <1>1, <1>2, <1>5, <1>6, <2>1, <2>2, <2>3 DEF Inv, TurnOfBase, BasedOnShown
  <2> QED  BY <1>3, <2>3 DEF TurnOfBase, BasedOnShown
<1>17. Seen'
  <2>1. \A no \in Number : no <= Len(turns) => no <= Len(turns') /\ no # Len(turns')
    BY <1>4, <1>5, RevisionAssumption DEF n, Number
  <2>2. page.no \in Number /\ page'.no <= Len(turns')
    BY <1>3, <1>4, <1>5 DEF Inv, TypeOK, Page, Seen, n, Number
  <2>3. \A a \in DOMAIN asks : asks[a].base \in Number
    BY AskTyped
  <2> QED  BY <1>3, <1>5, <1>6, <2>1, <2>2, <2>3 DEF Inv, Seen, Fresh
<1>18. Answered'
  BY <1>3, <1>9 DEF Inv, Answered
<1>19. Fitting'
  <2> SUFFICES ASSUME NEW g \in Handler PROVE Fit(handler[g], lock = g)'
    BY DEF Fitting
  <2>1. lock' # g
    BY <1>3, RevisionAssumption
  <2>2. CASE g = h
    <3>1. handler'[g] = v /\ asks' = asks
      BY <2>2, <1>3, <1>11
    <3>2. v.base + 1 = n /\ n \in DOMAIN turns' /\ turns'[n].ask = v.ask
      BY <1>1, <1>2, <1>4, <1>5, <1>6, <1>10 DEF n
    <3> QED  BY <2>1, <3>1, <3>2, <1>1, <1>10, <1>12 DEF Fit, IsTurn
  <2>3. CASE g # h
    BY <2>1, <2>3, <1>3, <1>9, <1>11 DEF Inv, Fitting, Fit
  <2> QED  BY <2>2, <2>3
<1> QED  BY <1>13, <1>14, <1>15, <1>16, <1>17, <1>18, <1>19 DEF Inv
-----------------------------------------------------------------------------
(* Faults.                                                                 *)

\* A connection breaks.
LEMMA DisconnectInv == ASSUME Inv, NEW h \in Handler, Disconnect(h) PROVE Inv'
<1>1. Set(h, handler[h]) /\ handler[h] \in Work
  BY DEF Disconnect, Set, Inv, TypeOK
<1>2. Fit(handler[h], FALSE) /\ lock' = None /\ None # h
  BY RevisionAssumption DEF Disconnect, Inv, Fitting, Fit
<1>3. Answered' /\ idem' \in [Key -> Rows] /\ told' \in [Ask -> Number]
  BY AnsweredKept DEF Disconnect, Item, Inv, TypeOK
<1> QED  BY <1>1, <1>2, <1>3, FaultTyped, HandlerStep DEF Disconnect, Inv, TypeOK

\* The process is killed.
LEMMA KillInv == ASSUME Inv, Kill PROVE Inv'
<1>1. /\ handler' = [h \in Handler |-> Idle] /\ lock' = None
      /\ UNCHANGED <<turns, current, page, asks, sends, told, recorded, idem>>
      /\ faults' \in 0..MaxFaults
  BY FaultTyped DEF Kill, Item, Client
<1>2. TypeOK'
  BY <1>1, IdleTyped DEF Inv, TypeOK
<1>3. Fitting'
  <2>1. \A h \in Handler : lock' # h
    BY <1>1, RevisionAssumption
  <2> QED  BY <1>1, <2>1, IdleTyped DEF Fitting, Fit, Turning
<1>4. HistoryWhole' /\ Current' /\ TurnOfBase' /\ Seen' /\ Answered' /\ BasedOnShown'
  BY <1>1 DEF Inv, HistoryWhole, Current, TurnOfBase, Seen, Fresh, Answered, IsTurn, BasedOnShown
<1> QED  BY <1>2, <1>3, <1>4 DEF Inv
-----------------------------------------------------------------------------
(* The instructor.                                                         *)

\* A step of the page leaves the rest of the invariant alone.
LEMMA PageStep ==
  ASSUME Inv, PageOnly, page' \in Page, page'.no <= Len(turns),
         page'.pc \in {"filled", "shown"} => Fresh(page'.no, page'.item)
  PROVE  Inv'
<1>1. TypeOK' /\ HistoryWhole'
  BY DEF PageOnly, Inv, TypeOK, HistoryWhole
<1>2. Current' /\ TurnOfBase' /\ Answered' /\ BasedOnShown'
  BY DEF PageOnly, Inv, Current, TurnOfBase, Answered, IsTurn, BasedOnShown
<1>3. Seen' /\ Fitting'
  BY DEF PageOnly, Inv, Seen, Fresh, Fitting, Fit, IsTurn
<1> QED  BY <1>1, <1>2, <1>3 DEF Inv

\* The number of the item.
LEMMA ReadNumberInv == ASSUME Inv, ReadNumber PROVE Inv'
<1> DEFINE p == [Closed EXCEPT !.pc = "numbered", !.no = current]
<1>1. current \in Number /\ current = Len(turns) /\ Len(turns) \in Nat /\ page' = p
  BY DEF Inv, TypeOK, HistoryWhole, ReadNumber
<1>2. p \in Page /\ p.pc = "numbered" /\ p.no = current
  <2>1. Closed \in Page
    BY RevisionAssumption DEF Page, Closed, Number, Text
  <2> QED  BY <1>1, <2>1 DEF Page
<1> HIDE DEF p
<1> QED  BY <1>1, <1>2, PageStep DEF ReadNumber

\* Its history, read later: when the number is still current the text is too.
LEMMA ReadHistoryInv == ASSUME Inv, ReadHistory PROVE Inv'
<1> DEFINE i == IF page.no = 0 THEN Original ELSE CurrentItem(turns)
           p == [page EXCEPT !.pc = "filled", !.item = i]
<1>1. page \in Page /\ page' = p /\ turns \in Seq(Turn)
  BY DEF Inv, TypeOK, ReadHistory
<1>2. i \in Text
  BY CurrentItemType DEF Inv, TypeOK, Current, Text
<1>3. Fresh(page.no, i)
  BY <1>1, CurrentItemEmpty DEF Inv, Seen, Fresh
<1> HIDE DEF i
<1>4. p \in Page /\ p.pc = "filled" /\ p.no = page.no /\ p.item = i
  BY <1>1, <1>2 DEF Page
<1> HIDE DEF p
<1> QED  BY <1>1, <1>3, <1>4, PageStep DEF ReadHistory, Inv, Seen

\* The page as it is shown.
LEMMA ShowInv == ASSUME Inv, Show PROVE Inv'
<1> DEFINE n == IF page.no = 0 THEN 0 ELSE Len(turns)
           p == [page EXCEPT !.pc = "shown", !.listed = n]
<1>1. page \in Page /\ page' = p /\ turns \in Seq(Turn) /\ current \in Number /\ current = Len(turns)
  BY DEF Inv, TypeOK, HistoryWhole, Show
<1>2. n \in Number
  BY <1>1, RevisionAssumption DEF Number
<1> HIDE DEF n
<1>3. p \in Page /\ p.pc = "shown" /\ p.no = page.no /\ p.item = page.item
  BY <1>1, <1>2 DEF Page
<1> HIDE DEF p
<1> QED  BY <1>1, <1>3, PageStep DEF Show, Inv, Seen

\* A handler takes a request for an ask.
LEMMA Arrives ==
  ASSUME Inv, NEW h \in Handler, NEW a \in Ask, Free(h), Arrive(h, a)
  PROVE  /\ lock # h /\ sends' \in 0..MaxSends
         /\ UNCHANGED <<turns, current, lock, recorded, idem, page, told, faults>>
         /\ \E w \in Work : /\ handler' = [handler EXCEPT ![h] = w]
                            /\ w.pc = "asked" /\ w.ask = a /\ w.send \in Send
<1> DEFINE w == [Idle EXCEPT !.pc = "asked", !.ask = a, !.send = sends + 1]
<1>1. sends + 1 \in Send /\ sends' \in 0..MaxSends
  BY RevisionAssumption DEF Arrive, Inv, TypeOK, Send
<1>2. w \in Work /\ w.pc = "asked" /\ w.ask = a /\ w.send \in Send
  BY <1>1, IdleTyped DEF Work
<1>3. lock # h
  BY Pending DEF Free, Reserved
<1> QED  BY <1>1, <1>2, <1>3 DEF Arrive

\* An ask is sent again.
LEMMA AskAgainInv == ASSUME Inv, NEW h \in Handler, NEW a \in Ask, AskAgain(h, a) PROVE Inv'
<1>1. /\ lock # h /\ sends' \in 0..MaxSends /\ a \in DOMAIN asks
      /\ UNCHANGED <<turns, current, lock, recorded, idem, page, told, faults, asks>>
  BY Arrives DEF AskAgain
<1>2. PICK w \in Work : /\ handler' = [handler EXCEPT ![h] = w]
                        /\ w.pc = "asked" /\ w.ask = a /\ w.send \in Send
  BY Arrives DEF AskAgain
<1>3. TypeOK'
  <2>1. handler \in [Handler -> Work] /\ handler' \in [Handler -> Work]
    BY <1>2 DEF Inv, TypeOK
  <2>2. lock' # None => handler'[lock'].pc \in Reserved
    BY <1>1, <1>2, <2>1 DEF Inv, TypeOK
  <2> QED  BY <1>1, <2>1, <2>2 DEF Inv, TypeOK
<1>4. HistoryWhole' /\ Current' /\ TurnOfBase' /\ Seen' /\ Answered' /\ BasedOnShown'
  BY <1>1 DEF Inv, HistoryWhole, Current, TurnOfBase, Seen, Fresh, Answered, IsTurn, BasedOnShown
<1>5. Fitting'
  BY <1>1, <1>2 DEF Inv, TypeOK, Fitting, Fit, IsTurn, Turning
<1> QED  BY <1>3, <1>4, <1>5 DEF Inv

\* A new ask has the number and the text of the page.
LEMMA AskNewInv == ASSUME Inv, NEW h \in Handler, NEW k \in Key, AskNew(h, k) PROVE Inv'
<1> DEFINE n == Len(asks) + 1
           S == [key: Key, base: Number, seen: Text]
           r == [key |-> k, base |-> page.no, seen |-> page.item]
<1>1. /\ asks \in Seq(S) /\ Len(asks) \in Nat /\ DOMAIN asks = 1..Len(asks) /\ n \in Ask
      /\ n <= MaxAsks /\ page \in Page
  BY AskTyped, RevisionAssumption DEF AskNew, Inv, TypeOK, Ask
<1>2. r \in S /\ r.base = page.no /\ r.seen = page.item
  BY <1>1 DEF Page
<1>3. asks' = Append(asks, r)
  BY DEF AskNew
<1> HIDE DEF S, r
<1>4. /\ asks' \in Seq(S) /\ Len(asks') = n /\ DOMAIN asks' = 1..n /\ asks'[n] = r
      /\ \A a \in DOMAIN asks : a \in DOMAIN asks' /\ asks'[a] = asks[a]
      /\ \A a \in DOMAIN asks' : a \in DOMAIN asks \/ a = n
  BY <1>1, <1>2, <1>3, AppendProperties
<1>5. /\ lock # h /\ sends' \in 0..MaxSends
      /\ UNCHANGED <<turns, current, lock, recorded, idem, page, told, faults>>
  BY <1>1, Arrives DEF AskNew
<1>6. PICK w \in Work : /\ handler' = [handler EXCEPT ![h] = w]
                        /\ w.pc = "asked" /\ w.ask = n /\ w.send \in Send
  BY <1>1, Arrives DEF AskNew
<1>7. n \in DOMAIN asks' /\ Len(asks) < n /\ n \in Nat
  BY <1>1, <1>4
<1> HIDE DEF n
<1>8. TypeOK'
  <2>1. handler \in [Handler -> Work] /\ handler' \in [Handler -> Work]
    BY <1>6 DEF Inv, TypeOK
  <2>2. lock' # None => handler'[lock'].pc \in Reserved
    BY <1>5, <1>6, <2>1 DEF Inv, TypeOK
  <2> QED  BY <1>1, <1>4, <1>5, <2>1, <2>2 DEF Inv, TypeOK, S
<1>9. HistoryWhole' /\ Current' /\ Answered'
  BY <1>5 DEF Inv, HistoryWhole, Current, Answered, IsTurn
<1>10. TurnOfBase' /\ BasedOnShown'
  BY <1>4, <1>5 DEF Inv, TurnOfBase, BasedOnShown
<1>11. Seen'
  <2>1. page.no < n /\ Len(turns) <= n
    <3>1. Len(turns) \in Nat /\ page.no \in Nat
      BY <1>1, RevisionAssumption DEF Inv, TypeOK, Page, Number
    <3> QED  BY <3>1, <1>1, <1>7 DEF Inv, Seen
  <2>2. Fresh(page.no, page.item)
    BY DEF AskNew, Inv, Seen
  <2> QED  BY <1>2, <1>4, <1>5, <2>1, <2>2 DEF Inv, Seen, Fresh
<1>12. Fitting'
  <2> SUFFICES ASSUME NEW g \in Handler PROVE Fit(handler[g], lock = g)'
    BY DEF Fitting
  <2>1. CASE g = h
    BY <2>1, <1>5, <1>6, <1>7 DEF Inv, TypeOK, Fit, Turning
  <2>2. CASE g # h
    BY <2>2, <1>4, <1>5, <1>6 DEF Inv, TypeOK, Fitting, Fit, IsTurn, Turning
  <2> QED  BY <2>1, <2>2
<1> QED  BY <1>8, <1>9, <1>10, <1>11, <1>12 DEF Inv
-----------------------------------------------------------------------------
(* The invariant, and the theorems.                                        *)

\* Every step keeps the invariant.
LEMMA NextInv == ASSUME Inv, [Next]_vars PROVE Inv'
<1>1. CASE UNCHANGED vars
  <2>1. TypeOK' /\ HistoryWhole' /\ BasedOnShown' /\ Current' /\ TurnOfBase' /\ Seen'
    BY <1>1 DEF vars, Inv, TypeOK, HistoryWhole, BasedOnShown, Current, TurnOfBase, Seen, Fresh
  <2>2. Answered' /\ Fitting'
    BY <1>1 DEF vars, Inv, Answered, Fitting, Fit, IsTurn
  <2> QED  BY <2>1, <2>2 DEF Inv
<1>2. ASSUME NEW h \in Handler, Step(h) PROVE Inv'
  BY <1>2, AskIdempotencyInv, TryLockInv, ReadRowInv, RefineInv, RefineFailsInv, RecordRunInv,
     CommitInv, CommitFailsInv, PutIdempotencyInv DEF Step
<1>3. CASE Next
  BY <1>2, <1>3, ReadNumberInv, ReadHistoryInv, ShowInv, AskNewInv, AskAgainInv, DisconnectInv,
     KillInv DEF Next
<1> QED  BY <1>1, <1>3

\* The invariant holds for every number of handlers, keys, requests and faults.
THEOREM Invariance == Spec => []Inv
  BY InitInv, NextInv, PTL DEF Spec

\* Rows, requests and pages are of their types; in particular no more revisions exist
\* than changes were asked for, however often they were sent.
THEOREM TypeCorrect == Spec => []TypeOK
  BY Invariance, PTL DEF Inv

\* The history runs to the current number and every turn starts where the last one left.
THEOREM HistoryIsWhole == Spec => []HistoryWhole
  BY Invariance, PTL DEF Inv

\* No text is changed that its instructor had not seen.
THEOREM IsBasedOnShown == Spec => []BasedOnShown
  BY Invariance, PTL DEF Inv

\* The turns of one ask are the one after its base, so there is one at most; and what was
\* told is a turn of that ask.
LEMMA InvAppliedOnce == Inv => AppliedOnce
<1> SUFFICES ASSUME Inv PROVE AppliedOnce
  OBVIOUS
<1>1. ASSUME NEW i \in DOMAIN turns, NEW j \in DOMAIN turns, turns[i].ask = turns[j].ask PROVE i = j
  <2>1. i - 1 = j - 1
    BY <1>1 DEF Inv, TurnOfBase
  <2>2. i \in Int /\ j \in Int
    BY DEF Inv, TypeOK
  <2> QED  BY <2>1, <2>2
<1>2. \A a \in Ask : told[a] # 0 => told[a] \in DOMAIN turns /\ turns[told[a]].ask = a
  BY DEF Inv, Answered, IsTurn
<1> QED  BY <1>1, <1>2 DEF AppliedOnce

\* An ask is applied once at most, whatever the idempotency store lost.
THEOREM IsAppliedOnce == Spec => []AppliedOnce
  BY Invariance, InvAppliedOnce, PTL
=============================================================================
