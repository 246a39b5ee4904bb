-------------------------- MODULE CounselDraftProofs --------------------------
(***************************************************************************)
(* Proofs about CounselDraft.  What a request holds (Fit) and what the     *)
(* copies hold (Stores) speak only of things that never go away again: the *)
(* job that was added, the phase it ended in, the texts that were stored   *)
(* and the row of the view.  A step of one request so leaves what is known *)
(* of the others as it was (FitGrows).                                     *)
(***************************************************************************)
EXTENDS CounselDraft, TLAPS

\* Where the requests of a kind can be; none is ever told that its job is missing.
PCOf(kind) ==
    CASE kind = "post" -> {"asking", "looking", "adding", "reading", "drafting", "drafted",
                           "viewing", "viewed", "putting"}
      [] kind = "get" -> {"loading", "loaded", "refreshing", "drafting", "drafted", "viewing",
                          "viewed"}
      [] kind = "refine" -> {"reloading", "deriving", "redrawn", "asking", "writing", "drafting",
                             "drafted", "loading", "loaded", "viewing", "viewed", "putting"}
      [] OTHER -> {"idle"}

\* A view has a text the stores held, and a result only when the job has ended.
Real(v) == v.text \in was /\ (v.result # "none" => job.phase \in Reportable)

Wiring == {"drafting", "drafted"}
Viewing == {"viewing", "viewed"}

\* What a request holds.
Fit(r) ==
    /\ r.pc \in PCOf(r.kind)
    /\ r.kind = "post" => \E body \in Body : r.key = {body}
    /\ r.kind = "refine" => \E turn \in Turn : r.key = {turn}
    /\ r.pc \in {"loaded", "refreshing"} \cup Viewing => r.view # {}
    /\ r.kind # "refine" /\ r.pc \in Wiring => r.view # {}
    /\ \A v \in r.view : Real(v)
    /\ r.kind # "refine" => r.text = Original
    /\ r.pc \in {"redrawn", "drafted", "loading", "loaded"} => r.text \in was
    /\ r.kind = "post" /\ r.pc \in {"reading", "putting"} \cup Wiring \cup Viewing =>
            job.phase # "absent" /\ job.context = {body.context : body \in r.key}
    /\ r.kind = "post" /\ r.pc \in {"viewed", "putting"} => stored.view # {}
    /\ r.kind \in {"get", "refine"} => stored.view # {}
    /\ r.known.result => job.phase \in Reportable
    /\ r.kind = "get" /\ r.pc \in Wiring \cup Viewing /\ r.known.result =>
            \A v \in r.view : v.result # "none"

\* What the copies hold, and what was told of them.
Stores ==
    /\ \A v \in stored.view \cup cache.view : Real(v)
    /\ stored.draft \cup cache.draft \subseteq was /\ Original \in was
    /\ told.posted => stored.view # {}
    /\ stored.view # {} => job.phase # "absent"
    /\ told.result => job.phase \in Reportable
    /\ \A body \in rows["post"].row : job.phase # "absent" /\ job.context = {body.context}

\* The inductive invariant.
Inv == TypeOK /\ Stores /\ \A h \in Handler : Fit(req[h])

\* What never goes away again.
Grows ==
    /\ job.phase # "absent" => job'.phase # "absent" /\ job'.context = job.context
    /\ job.phase \in Reportable => job'.phase \in Reportable
    /\ was \subseteq was'
    /\ stored.view # {} => stored'.view # {}

\* Everything but the requests is of its type.
Typed ==
    /\ job \in [phase: {"absent"} \cup Phase, context: Optional(Context), draft: BOOLEAN]
    /\ rows \in [Scope -> Rows]
    /\ stored \in [view: Optional(View), draft: Optional(Text)]
    /\ cache \in [view: Optional(View), draft: Optional(Text)]
    /\ told \in Told /\ was \subseteq Text
    /\ sends \in 0..MaxSends /\ faults \in 0..MaxFaults
-----------------------------------------------------------------------------
\* An option holds one thing or none.
LEMMA Options ==
  ASSUME NEW S, NEW o \in Optional(S)
  PROVE  o \subseteq S /\ (o # {} => Only(o) \in o /\ o = {Only(o)})
  BY DEF Optional, Only

\* One thing is an option.
LEMMA OneOption == ASSUME NEW S, NEW x \in S PROVE {x} \in Optional(S) /\ Only({x}) = x
  BY DEF Optional, Only

\* None is one.
LEMMA NoOption == \A S : {} \in Optional(S)
  BY DEF Optional

\* The handler that waits for a request knows nothing.
LEMMA IdleTyped == Idle \in Req /\ Fit(Idle) /\ Fit(Idle)'
<1>1. Idle \in Req
  BY NoOption DEF Idle, Req, PC, Text, Original, Nothing, Told
<1>2. Fit(Idle) /\ Fit(Idle)'
  BY DEF Idle, Fit, PCOf, Nothing, Wiring, Viewing
<1> QED  BY <1>1, <1>2

\* What a request holds it keeps.
LEMMA FitGrows == ASSUME NEW r \in Req, Fit(r), Grows PROVE Fit(r)'
<1>1. \A v : Real(v) => Real(v)'
  BY DEF Real, Grows
<1> QED  BY <1>1 DEF Fit, Grows

\* A request is what it is.
LEMMA FitOf ==
  ASSUME NEW g \in Handler, NEW r
  PROVE  /\ req[g] = r => (Fit(req[g]) <=> Fit(r))
         /\ req'[g] = r => (Fit(req[g])' <=> Fit(r)')
  BY DEF Fit

\* A step of one request.
LEMMA RequestStep ==
  ASSUME Inv, NEW h \in Handler, NEW r \in Req, req' = [req EXCEPT ![h] = r],
         Fit(r)', Grows, Stores', Typed'
  PROVE  Inv'
<1>1. req \in [Handler -> Req]
  BY DEF Inv, TypeOK
<1>2. TypeOK'
  BY <1>1 DEF TypeOK, Typed
<1>3. \A g \in Handler : Fit(req[g])'
  <2>1. TAKE g \in Handler
  <2>2. CASE g = h
    BY <1>1, <2>2, FitOf
  <2>3. CASE g # h
    <3>1. PICK q \in Req : q = req[g]
      BY <1>1
    <3>2. Fit(q)
      BY <3>1, FitOf DEF Inv
    <3> QED  BY <1>1, <2>3, <3>1, <3>2, FitGrows, FitOf
  <2> QED  BY <2>2, <2>3
<1> QED  BY <1>2, <1>3 DEF Inv

\* A step that leaves the requests alone.
LEMMA WorldStep == ASSUME Inv, UNCHANGED req, Grows, Stores', Typed' PROVE Inv'
<1>1. req \in [Handler -> Req]
  BY DEF Inv, TypeOK
<1>2. TypeOK'
  BY <1>1 DEF TypeOK, Typed
<1>3. \A g \in Handler : Fit(req[g])'
  <2>1. TAKE g \in Handler
  <2>2. PICK q \in Req : q = req[g]
    BY <1>1
  <2>3. Fit(q)
    BY <2>2, FitOf DEF Inv
  <2> QED  BY <2>2, <2>3, FitGrows, FitOf
<1> QED  BY <1>2, <1>3 DEF Inv

\* Nothing but a request and its bounds moves.
LEMMA QuietStep ==
  ASSUME Inv, NEW h \in Handler, NEW r \in Req, req' = [req EXCEPT ![h] = r], Fit(r),
         UNCHANGED <<job, rows, stored, cache, told, was>>,
         sends' \in 0..MaxSends, faults' \in 0..MaxFaults
  PROVE  Inv'
<1>1. Grows /\ Fit(r)'
  BY FitGrows DEF Grows
<1>2. Stores'
  BY DEF Inv, Stores, Real
<1>3. Typed'
  BY DEF Inv, TypeOK, Typed
<1> QED  BY <1>1, <1>2, <1>3, RequestStep

\* A fault is one within the bound.
LEMMA FaultTyped == ASSUME Inv, Fault \/ UNCHANGED faults PROVE faults' \in 0..MaxFaults
  BY DraftAssumption DEF Inv, TypeOK, Fault

\* The request ends.
LEMMA ReturnInv ==
  ASSUME Inv, NEW h \in Handler, Return(h), Fault \/ UNCHANGED faults,
         UNCHANGED <<rows, stored, cache, told>>, Ledger
  PROVE  Inv'
  BY IdleTyped, FaultTyped, QuietStep DEF Return, Ledger, Inv, TypeOK

\* The request goes on with what it has.
LEMMA GoOnInv ==
  ASSUME Inv, NEW h \in Handler, NEW r \in Req, req' = [req EXCEPT ![h] = r], Fit(r),
         Fault \/ UNCHANGED faults, UNCHANGED <<rows, stored, cache, told>>, Ledger
  PROVE  Inv'
  BY FaultTyped, QuietStep DEF Ledger, Inv, TypeOK

\* A handler has a request.
LEMMA Has == ASSUME Inv, NEW h \in Handler PROVE req[h] \in Req /\ Fit(req[h])
  BY DEF Inv, TypeOK

\* Goto and With change the request in place.
LEMMA GotoReq ==
  ASSUME Inv, NEW h \in Handler, NEW pc \in PC, Goto(h, pc)
  PROVE  \E r \in Req : /\ req' = [req EXCEPT ![h] = r] /\ r.pc = pc
                        /\ r.kind = req[h].kind /\ r.key = req[h].key /\ r.view = req[h].view
                        /\ r.text = req[h].text /\ r.known = req[h].known
<1> DEFINE r == [req[h] EXCEPT !.pc = pc]
<1>1. req[h] \in Req /\ req \in [Handler -> Req]
  BY DEF Inv, TypeOK
<1>2. /\ r \in Req /\ r.pc = pc
      /\ r.kind = req[h].kind /\ r.key = req[h].key /\ r.view = req[h].view
      /\ r.text = req[h].text /\ r.known = req[h].known
  BY <1>1 DEF Req
<1>3. req' = [req EXCEPT ![h] = r]
  BY <1>1 DEF Goto
<1> HIDE DEF r
<1> QED  BY <1>2, <1>3

\* A step that leaves a handler at pc with the one view v.
LEMMA WithReq ==
  ASSUME Inv, NEW h \in Handler, NEW pc \in PC, NEW v \in View, With(h, pc, v)
  PROVE  \E r \in Req : /\ req' = [req EXCEPT ![h] = r] /\ r.pc = pc /\ r.view = {v}
                        /\ r.kind = req[h].kind /\ r.key = req[h].key
                        /\ r.text = req[h].text /\ r.known = req[h].known
<1> DEFINE r == [req[h] EXCEPT !.pc = pc, !.view = {v}]
<1>1. req[h] \in Req /\ req \in [Handler -> Req] /\ {v} \in Optional(View)
  BY OneOption DEF Inv, TypeOK
<1>2. /\ r \in Req /\ r.pc = pc /\ r.view = {v}
      /\ r.kind = req[h].kind /\ r.key = req[h].key
      /\ r.text = req[h].text /\ r.known = req[h].known
  BY <1>1 DEF Req
<1>3. req' = [req EXCEPT ![h] = r]
  BY <1>1 DEF With
<1> HIDE DEF r
<1> QED  BY <1>2, <1>3
-----------------------------------------------------------------------------
(* The job.                                                                *)

\* What was said of a view stays said of it.
LEMMA RealGrows == ASSUME Grows PROVE \A v : Real(v) => Real(v)'
  BY DEF Real, Grows

\* A job that moves on neither goes away nor back from its end.
LEMMA JobMoves ==
  ASSUME Inv, UNCHANGED <<rows, stored, cache, req, told, was, sends>>, faults' \in 0..MaxFaults,
         job.phase \notin Reportable \cup {"absent"}, job'.context = job.context,
         job' \in [phase: Phase, context: Optional(Context), draft: BOOLEAN]
  PROVE  Inv'
<1>1. job'.phase # "absent" /\ job.phase # "absent"
  BY DEF Phase, Reportable
<1>2. Grows
  BY <1>1 DEF Grows
<1>3. Stores'
  BY <1>1, <1>2, RealGrows DEF Inv, Stores, Grows
<1>4. Typed'
  BY DEF Inv, TypeOK, Typed
<1> QED  BY <1>2, <1>3, <1>4, WorldStep

\* The worker's part.
LEMMA WorkerInv == ASSUME Inv, Worker \/ JobRecovered PROVE Inv'
<1>1. /\ UNCHANGED <<rows, stored, cache, req, told, was, sends>>
      /\ job.phase \notin Reportable \cup {"absent"} /\ job'.context = job.context
      /\ job' \in [phase: Phase, context: Optional(Context), draft: BOOLEAN]
  BY DEF Worker, JobStarts, JobEnds, JobRecovered, JobOnly, Inv, TypeOK, Phase, Reportable
<1>2. faults' \in 0..MaxFaults
  BY FaultTyped DEF Worker, JobStarts, JobEnds, JobRecovered
<1> QED  BY <1>1, <1>2, JobMoves
-----------------------------------------------------------------------------
(* Requests arrive.                                                        *)

\* A POST, with its body.
LEMMA SendPostInv == ASSUME Inv, NEW h \in Handler, NEW body \in Body, SendPost(h, body) PROVE Inv'
<1> DEFINE r == [Idle EXCEPT !.pc = "asking", !.kind = "post", !.key = {body}]
<1>1. {body} \in Optional(Body \cup Turn)
  BY OneOption
<1>2. /\ r \in Req /\ r.pc = "asking" /\ r.kind = "post" /\ r.key = {body} /\ r.view = {}
      /\ r.text = Original /\ ~r.known.result
  BY <1>1, NoOption DEF Idle, Req, PC, Text, Original, Nothing, Told
<1>3. sends' \in 0..MaxSends /\ faults' \in 0..MaxFaults
  BY DraftAssumption DEF SendPost, Arrive, Inv, TypeOK
<1>4. req' = [req EXCEPT ![h] = r]
  BY DEF SendPost, Arrive
<1> HIDE DEF r
<1>5. Fit(r)
  BY <1>2 DEF Fit, PCOf, Wiring, Viewing
<1> QED  BY <1>2, <1>3, <1>4, <1>5, QuietStep DEF SendPost, Arrive

\* A GET, of a job it was told of.
LEMMA SendGetInv == ASSUME Inv, NEW h \in Handler, SendGet(h) PROVE Inv'
<1> DEFINE pc == IF cache.view = {} THEN "loading" ELSE "refreshing"
           r == [Idle EXCEPT !.pc = pc, !.kind = "get", !.view = cache.view, !.known = told]
<1>1. cache.view \in Optional(View) /\ told \in Told
  BY DEF Inv, TypeOK
<1>2. /\ r \in Req /\ r.pc = pc /\ r.kind = "get" /\ r.view = cache.view
      /\ r.text = Original /\ r.known = told
  BY <1>1, NoOption DEF Idle, Req, PC, Text, Original
<1>3. sends' \in 0..MaxSends /\ faults' \in 0..MaxFaults
  BY DEF SendGet, Arrive, Inv, TypeOK
<1>4. req' = [req EXCEPT ![h] = r]
  BY DEF SendGet, Arrive
<1> HIDE DEF r
<1>5. Fit(r)
  BY <1>2 DEF Fit, PCOf, Wiring, Viewing, SendGet, Inv, Stores
<1> QED  BY <1>2, <1>3, <1>4, <1>5, QuietStep DEF SendGet, Arrive

\* A refine, of the cached draft if there is one.
LEMMA SendRefineInv == ASSUME Inv, NEW h \in Handler, NEW turn \in Turn, SendRefine(h, turn) PROVE Inv'
<1> DEFINE request == [Idle EXCEPT !.kind = "refine", !.key = {turn}]
           r == IF cache.draft = {} THEN [request EXCEPT !.pc = "reloading"]
                ELSE [request EXCEPT !.pc = "asking", !.text = Only(cache.draft)]
<1>1. {turn} \in Optional(Body \cup Turn) /\ (cache.draft # {} => Only(cache.draft) \in Text)
  BY OneOption, Options DEF Inv, TypeOK
<1>2. /\ request \in Req /\ request.kind = "refine" /\ request.key = {turn} /\ request.view = {}
      /\ ~request.known.result
  BY <1>1, NoOption DEF Idle, Req, PC, Text, Original, Nothing, Told
<1> HIDE DEF request
<1>3. /\ r \in Req /\ r.pc \in {"reloading", "asking"} /\ r.kind = "refine" /\ r.key = {turn}
      /\ r.view = {} /\ ~r.known.result
  BY <1>1, <1>2 DEF Req, PC
<1>4. sends' \in 0..MaxSends /\ faults' \in 0..MaxFaults
  BY DraftAssumption DEF SendRefine, Arrive, Inv, TypeOK
<1>5. req' = [req EXCEPT ![h] = r]
  BY DEF SendRefine, Arrive, request
<1> HIDE DEF r
<1>6. Fit(r)
  BY <1>3 DEF Fit, PCOf, Wiring, Viewing, SendRefine, Inv, Stores
<1> QED  BY <1>3, <1>4, <1>5, <1>6, QuietStep DEF SendRefine, Arrive
-----------------------------------------------------------------------------
(* Idempotency.                                                            *)

\* The rows of a key.
LEMMA RowsStep ==
  ASSUME Inv, UNCHANGED <<job, stored, cache, was>>, rows' \in [Scope -> Rows],
         \A body \in rows'["post"].row : job.phase # "absent" /\ job.context = {body.context},
         told'.posted => stored.view # {}, told'.result = told.result
  PROVE  Grows /\ Stores'
<1>1. Grows
  BY DEF Grows
<1> QED  BY <1>1, RealGrows DEF Inv, Stores

\* An old row is not found, but stays.
LEMMA RowExpiresInv == ASSUME Inv, NEW s \in Scope, RowExpires(s) PROVE Inv'
<1>1. rows' \in [Scope -> Rows] /\ rows'["post"].row = rows["post"].row
  BY DEF RowExpires, Inv, TypeOK, Rows, Scope
<1>2. Grows /\ Stores'
  BY <1>1, RowsStep DEF RowExpires, Inv, Stores
<1>3. Typed'
  BY <1>1, FaultTyped DEF RowExpires, Inv, TypeOK, Typed
<1> QED  BY <1>2, <1>3, WorldStep DEF RowExpires

\* The row answers, or the request goes on.
LEMMA AskIdempotencyInv == ASSUME Inv, NEW h \in Handler, AskIdempotency(h) PROVE Inv'
<1>1. CASE Return(h)
  BY <1>1, ReturnInv DEF AskIdempotency
<1>2. CASE \E pc \in PC : Goto(h, pc) /\ pc = IF req[h].kind = "post" THEN "looking" ELSE "writing"
  <2>1. PICK pc \in PC : Goto(h, pc) /\ pc = IF req[h].kind = "post" THEN "looking" ELSE "writing"
    BY <1>2
  <2>2. PICK r \in Req : /\ req' = [req EXCEPT ![h] = r] /\ r.pc = pc
                         /\ r.kind = req[h].kind /\ r.key = req[h].key /\ r.view = req[h].view
                         /\ r.text = req[h].text /\ r.known = req[h].known
    BY <2>1, GotoReq
  <2>3. Fit(r)
    BY <2>1, <2>2, Has DEF Fit, PCOf, Wiring, Viewing, AskIdempotency, At
  <2> QED  BY <2>2, <2>3, GoOnInv DEF AskIdempotency
<1> QED  BY <1>1, <1>2 DEF AskIdempotency, PC

\* The answer is stored under the key of the request.
LEMMA PutIdempotencyInv == ASSUME Inv, NEW h \in Handler, PutIdempotency(h) PROVE Inv'
<1> DEFINE s == ScopeOf(h)
<1>1. /\ req[h] \in Req /\ Fit(req[h]) /\ req[h].pc = "putting"
      /\ req[h].kind \in {"post", "refine"}
  BY Has DEF PutIdempotency, At, Fit, PCOf, Req
<1>2. req[h].kind = "refine" => Only(req[h].key) \in Turn /\ req[h].key \subseteq Turn
  BY <1>1, OneOption DEF Fit
<1>3. s \in Scope /\ (s = "post" => req[h].kind = "post")
  BY <1>1, <1>2, DraftAssumption DEF ScopeOf, Scope
<1>4. rows \in [Scope -> Rows] /\ told \in Told /\ req[h].key \in Optional(Body \cup Turn)
  BY <1>1 DEF Inv, TypeOK, Req
<1> HIDE DEF s
<1>5. /\ rows' \in [Scope -> Rows]
      /\ rows'["post"].row \in {rows["post"].row} \cup {req[h].key}
      /\ rows'["post"].row # rows["post"].row => req[h].kind = "post"
  <2>1. CASE UNCHANGED rows
    BY <2>1, <1>4
  <2>2. CASE rows' = [rows EXCEPT ![s].row = IF @ = {} THEN req[h].key ELSE @]
    <3> DEFINE row == [rows[s] EXCEPT !.row = IF @ = {} THEN req[h].key ELSE @]
    <3>1. row \in Rows /\ row.row \in {rows[s].row, req[h].key}
      BY <1>3, <1>4 DEF Rows
    <3>2. rows' = [rows EXCEPT ![s] = row]
      BY <1>3, <1>4, <2>2
    <3> HIDE DEF row
    <3> QED  BY <1>3, <1>4, <3>1, <3>2 DEF Scope
  <2> QED  BY <2>1, <2>2 DEF PutIdempotency, s
<1>6. /\ told' \in Told /\ told'.result = told.result
      /\ told'.posted => told.posted \/ req[h].kind = "post"
  BY <1>1, <1>2, <1>4 DEF PutIdempotency, Told
<1>7. \A body \in rows'["post"].row : job.phase # "absent" /\ job.context = {body.context}
  <2>1. CASE rows'["post"].row = rows["post"].row
    BY <2>1 DEF Inv, Stores
  <2>2. CASE rows'["post"].row = req[h].key /\ req[h].kind = "post"
    <3>1. PICK body \in Body : req[h].key = {body}
      BY <1>1, <2>2 DEF Fit
    <3>2. job.phase # "absent" /\ job.context = {b.context : b \in {body}}
      BY <1>1, <2>2, <3>1 DEF Fit
    <3> QED  BY <2>2, <3>1, <3>2
  <2> QED  BY <1>5, <2>1, <2>2
<1>8. told'.posted => stored.view # {}
  BY <1>1, <1>6 DEF Fit, Inv, Stores
<1>9. Grows /\ Stores'
  BY <1>5, <1>6, <1>7, <1>8, RowsStep DEF PutIdempotency, Ledger
<1>10. Typed'
  BY <1>5, <1>6, FaultTyped DEF PutIdempotency, Ledger, Inv, TypeOK, Typed
<1> QED  BY <1>9, <1>10, IdleTyped, RequestStep DEF PutIdempotency, Return
-----------------------------------------------------------------------------
(* A POST finds or adds its job.                                           *)

\* The job is looked up.
LEMMA LookInv == ASSUME Inv, NEW h \in Handler, Look(h) PROVE Inv'
<1>1. CASE Return(h)
  BY <1>1, ReturnInv DEF Look
<1>2. ASSUME NEW pc \in PC, Goto(h, pc),
             \/ pc = "adding"
             \/ pc = "reading" /\ job.phase # "absent" /\ SameContext(h)
      PROVE  Inv'
  <2>1. PICK r \in Req : /\ req' = [req EXCEPT ![h] = r] /\ r.pc = pc
                         /\ r.kind = req[h].kind /\ r.key = req[h].key /\ r.view = req[h].view
                         /\ r.text = req[h].text /\ r.known = req[h].known
    BY <1>2, GotoReq
  <2>2. Fit(r)
    BY <1>2, <2>1, Has DEF Fit, PCOf, Wiring, Viewing, Look, At, SameContext, ContextOf
  <2> QED  BY <2>1, <2>2, GoOnInv DEF Look
<1> QED  BY <1>1, <1>2 DEF Look, PC

\* It is added, or was by another request.
LEMMA AddInv == ASSUME Inv, NEW h \in Handler, Add(h) PROVE Inv'
<1>1. CASE Return(h) /\ UNCHANGED job
  BY <1>1, ReturnInv DEF Add, Ledger
<1>2. CASE Goto(h, "reading")
  <2>1. PICK r \in Req : /\ req' = [req EXCEPT ![h] = r] /\ r.pc = "reading"
                         /\ r.kind = req[h].kind /\ r.key = req[h].key /\ r.view = req[h].view
                         /\ r.text = req[h].text /\ r.known = req[h].known
    BY <1>2, GotoReq DEF PC
  <2>2. Fit(req[h]) /\ req[h].pc = "adding" /\ req[h].kind = "post"
    BY Has DEF Add, At, Fit, PCOf, Req
  <2>3. PICK body \in Body : req[h].key = {body}
    BY <2>2 DEF Fit
  <2>4. ContextOf(h) = {body.context} /\ ContextOf(h) \in Optional(Context)
    <3>1. ContextOf(h) = {body.context}
      BY <2>3 DEF ContextOf
    <3> QED  BY <3>1, OneOption DEF Body
  <2>5. /\ job' \in [phase: {"absent"} \cup Phase, context: Optional(Context), draft: BOOLEAN]
        /\ job'.phase # "absent" /\ job'.context = ContextOf(h)
        /\ job.phase # "absent" => job' = job
    <3>1. job \in [phase: {"absent"} \cup Phase, context: Optional(Context), draft: BOOLEAN]
      BY DEF Inv, TypeOK
    <3>2. CASE job.phase = "absent"
      <4>1. job' = [job EXCEPT !.phase = "queued", !.context = ContextOf(h)]
        BY <3>2 DEF Add
      <4> HIDE DEF ContextOf
      <4> QED  BY <2>4, <3>1, <3>2, <4>1 DEF Phase
    <3>3. CASE job.phase # "absent"
      <4>1. job' = job
        BY <3>3 DEF Add
      <4>2. job.context = ContextOf(h)
        BY <2>1, <3>3, Has, IdleTyped DEF Add, SameContext, Return, Idle, Inv, TypeOK
      <4> QED  BY <3>1, <3>3, <4>1, <4>2
    <3> QED  BY <3>2, <3>3
  <2>6. Grows
    <3>1. was' = was /\ stored' = stored
      BY DEF Add
    <3> QED  BY <2>5, <3>1 DEF Grows, Reportable
  <2>7. Fit(r)'
    <3>1. \A v : Real(v) => Real(v)'
      BY <2>6, RealGrows
    <3>2. {b.context : b \in r.key} = ContextOf(h)
      BY <2>1 DEF ContextOf
    <3> QED
      BY <2>1, <2>2, <2>3, <2>5, <2>6, <3>1, <3>2 DEF Fit, PCOf, Wiring, Viewing, Grows, Add
  <2>8. Stores'
    BY <2>6, RealGrows DEF Inv, Stores, Add, Grows
  <2>9. Typed'
    BY <2>5 DEF Inv, TypeOK, Typed, Add
  <2> QED  BY <2>1, <2>6, <2>7, <2>8, <2>9, RequestStep
<1> QED  BY <1>1, <1>2 DEF Add

\* The result of an ended job, as it is wired.
LEMMA WireInv ==
  ASSUME Inv, NEW h \in Handler, Wire(h), job.phase \in Reportable,
         req[h].pc \in {"reading", "refreshing"},
         UNCHANGED <<rows, stored, cache, told, faults>>, Ledger
  PROVE  Inv'
<1>1. Wired \in View /\ Wired.text = Original /\ Wired.result # "none"
  BY DEF Wired, View, WireResult, Reportable, Phase, Text, Original
<1>2. Real(Wired)
  BY <1>1 DEF Real, Inv, Stores
<1>3. PICK pc \in {"drafting", "viewing"} : With(h, pc, Wired)
  BY DEF Wire
<1>4. PICK r \in Req : /\ req' = [req EXCEPT ![h] = r] /\ r.pc = pc /\ r.view = {Wired}
                       /\ r.kind = req[h].kind /\ r.key = req[h].key
                       /\ r.text = req[h].text /\ r.known = req[h].known
  BY <1>1, <1>3, WithReq DEF PC
<1> HIDE DEF Wired
<1>5. Fit(r)
  BY <1>1, <1>2, <1>4, Has DEF Fit, PCOf, Wiring, Viewing
<1> QED  BY <1>4, <1>5, GoOnInv

\* A view of a job that has not ended.
LEMMA UnfinishedInv ==
  ASSUME Inv, NEW h \in Handler, With(h, "viewing", Unfinished(job.phase)),
         job.phase \notin Reportable \cup {"absent"},
         req[h].pc \in {"reading", "refreshing"},
         UNCHANGED <<rows, stored, cache, told, faults>>, Ledger
  PROVE  Inv'
<1> DEFINE v == Unfinished(job.phase)
<1>1. v \in View /\ v.text = Original /\ v.result = "none"
  BY DEF Unfinished, View, WireResult, Phase, Text, Original, Inv, TypeOK
<1>2. Real(v)
  BY <1>1 DEF Real, Inv, Stores
<1> HIDE DEF v
<1>3. PICK r \in Req : /\ req' = [req EXCEPT ![h] = r] /\ r.pc = "viewing" /\ r.view = {v}
                       /\ r.kind = req[h].kind /\ r.key = req[h].key
                       /\ r.text = req[h].text /\ r.known = req[h].known
  BY <1>1, WithReq DEF PC, v
<1>4. Fit(r)
  BY <1>1, <1>2, <1>3, Has DEF Fit, PCOf, Wiring, Viewing
<1> QED  BY <1>3, <1>4, GoOnInv

\* The job is read again.
LEMMA ReadJobInv == ASSUME Inv, NEW h \in Handler, ReadJob(h) PROVE Inv'
<1>1. req[h].pc = "reading" /\ job.phase # "absent"
  BY Has DEF ReadJob, At, Fit, PCOf, Req
<1> QED  BY <1>1, WireInv, UnfinishedInv DEF ReadJob
-----------------------------------------------------------------------------
(* The copies.                                                             *)

\* A store call fails.
LEMMA StoreFailsInv == ASSUME Inv, NEW h \in Handler, StoreFails(h) PROVE Inv'
  BY ReturnInv DEF StoreFails

\* Copies, and what is told of them, that are as good as those there were.
LEMMA CopyStep ==
  ASSUME Inv, UNCHANGED <<job, rows, sends, faults>>,
         cache' \in [view: Optional(View), draft: Optional(Text)],
         stored' \in [view: Optional(View), draft: Optional(Text)],
         was' \subseteq Text, was \subseteq was', stored.view # {} => stored'.view # {},
         \A v \in stored'.view \cup cache'.view : Real(v)',
         stored'.draft \cup cache'.draft \subseteq was',
         stored'.view # {} => job.phase # "absent",
         told' \in Told, told'.posted => stored'.view # {},
         told'.result => job.phase \in Reportable
  PROVE  Grows /\ Stores' /\ Typed'
  BY DEF Grows, Inv, TypeOK, Stores, Typed

\* The draft is stored.
LEMMA SaveDraftInv == ASSUME Inv, NEW h \in Handler, SaveDraft(h) PROVE Inv'
<1>1. PICK r \in Req : /\ req' = [req EXCEPT ![h] = r] /\ r.pc = "drafted"
                       /\ r.kind = req[h].kind /\ r.key = req[h].key /\ r.view = req[h].view
                       /\ r.text = req[h].text /\ r.known = req[h].known
  BY GotoReq DEF SaveDraft, PC
<1>2. Fit(req[h]) /\ req[h].pc = "drafting" /\ req[h].text \in Text /\ {req[h].text} \in Optional(Text)
  BY Has, OneOption DEF SaveDraft, At, Req
<1>3. /\ stored' = [stored EXCEPT !.draft = {req[h].text}] /\ was' = was \cup {req[h].text}
      /\ stored \in [view: Optional(View), draft: Optional(Text)]
  BY DEF SaveDraft, Inv, TypeOK
<1>4. /\ stored' \in [view: Optional(View), draft: Optional(Text)]
      /\ stored'.view = stored.view /\ stored'.draft = {req[h].text}
  BY <1>2, <1>3
<1>5. \A v : Real(v) => Real(v)'
  BY <1>3 DEF Real, SaveDraft
<1>6. Grows /\ Stores' /\ Typed'
  BY <1>2, <1>3, <1>4, <1>5, CopyStep DEF SaveDraft, Inv, TypeOK, Stores
<1>7. Fit(r)'
  BY <1>1, <1>2, <1>3, <1>4, <1>5 DEF Fit, PCOf, Wiring, Viewing, SaveDraft
<1> QED  BY <1>1, <1>6, <1>7, RequestStep

\* Refine puts its text into the view, a GET goes on to the ledger.
LEMMA UseFits ==
  ASSUME Inv, NEW h \in Handler, NEW v \in View, Real(v), Use(h, v),
         req[h].kind \in {"get", "refine"}, req[h].kind = "get" => req[h].pc = "loaded",
         req[h].pc \in {"drafted", "loaded"}
  PROVE  \E r \in Req : req' = [req EXCEPT ![h] = r] /\ Fit(r)
<1>1. req[h] \in Req /\ Fit(req[h]) /\ req[h].text \in was /\ req[h].text \in Text
  BY Has DEF Fit, Req
<1>2. CASE req[h].kind = "get"
  <2>1. PICK r \in Req : /\ req' = [req EXCEPT ![h] = r] /\ r.pc = "refreshing" /\ r.view = {v}
                         /\ r.kind = req[h].kind /\ r.key = req[h].key
                         /\ r.text = req[h].text /\ r.known = req[h].known
    BY <1>2, WithReq DEF Use, PC
  <2>2. Fit(r)
    BY <1>1, <1>2, <2>1 DEF Fit, PCOf, Wiring, Viewing
  <2> QED  BY <2>1, <2>2
<1>3. CASE req[h].kind = "refine" /\ v.result = "none"
  <2>1. PICK r \in Req : /\ req' = [req EXCEPT ![h] = r] /\ r.pc = "putting"
                         /\ r.kind = req[h].kind /\ r.key = req[h].key /\ r.view = req[h].view
                         /\ r.text = req[h].text /\ r.known = req[h].known
    BY <1>3, GotoReq DEF Use, PC
  <2>2. Fit(r)
    BY <1>1, <1>3, <2>1 DEF Fit, PCOf, Wiring, Viewing
  <2> QED  BY <2>1, <2>2
<1>4. CASE req[h].kind = "refine" /\ v.result # "none"
  <2> DEFINE u == [v EXCEPT !.text = req[h].text]
  <2>1. u \in View /\ u.text = req[h].text /\ u.result = v.result
    BY <1>1 DEF View
  <2>2. Real(u) /\ With(h, "viewing", u)
    BY <1>1, <1>4, <2>1 DEF Real, Use
  <2> HIDE DEF u
  <2>3. PICK r \in Req : /\ req' = [req EXCEPT ![h] = r] /\ r.pc = "viewing" /\ r.view = {u}
                         /\ r.kind = req[h].kind /\ r.key = req[h].key
                         /\ r.text = req[h].text /\ r.known = req[h].known
    BY <2>1, <2>2, WithReq DEF PC
  <2>4. Fit(r)
    BY <1>1, <1>4, <2>2, <2>3 DEF Fit, PCOf, Wiring, Viewing
  <2> QED  BY <2>3, <2>4
<1> QED  BY <1>2, <1>3, <1>4

\* The cache follows with a text or a view the stores have had.
LEMMA CacheStep ==
  ASSUME Inv, NEW h \in Handler, NEW r \in Req, req' = [req EXCEPT ![h] = r], Fit(r),
         NEW view \in Optional(View), NEW draft \in Optional(Text),
         cache' = [view |-> view, draft |-> draft],
         \A v \in view : Real(v), draft \subseteq was,
         UNCHANGED <<rows, stored, told, faults>>, Ledger
  PROVE  Inv'
<1>1. \A v : Real(v) => Real(v)'
  BY DEF Real, Ledger
<1>2. Grows /\ Stores' /\ Typed'
  BY <1>1, CopyStep DEF Inv, TypeOK, Stores, Ledger
<1>3. Fit(r)'
  BY <1>2, FitGrows
<1> QED  BY <1>2, <1>3, RequestStep

\* What the copies hold now.
LEMMA Copies ==
  ASSUME Inv
  PROVE  /\ cache.view \in Optional(View) /\ cache.draft \in Optional(Text)
         /\ stored.view \in Optional(View) /\ stored.draft \in Optional(Text)
         /\ cache = [view |-> cache.view, draft |-> cache.draft]
         /\ \A v \in cache.view \cup stored.view : Real(v) /\ v \in View
         /\ cache.draft \cup stored.draft \subseteq was
<1>1. /\ cache \in [view: Optional(View), draft: Optional(Text)]
      /\ stored \in [view: Optional(View), draft: Optional(Text)]
  BY DEF Inv, TypeOK
<1> QED  BY <1>1, Options DEF Inv, Stores

\* The draft is cached.
LEMMA KeepDraftInv == ASSUME Inv, NEW h \in Handler, KeepDraft(h) PROVE Inv'
<1>1. /\ req[h] \in Req /\ Fit(req[h]) /\ req[h].pc = "drafted"
      /\ req[h].text \in was /\ req[h].text \in Text
  BY Has DEF KeepDraft, At, Fit, Req
<1>2. \E r \in Req : req' = [req EXCEPT ![h] = r] /\ Fit(r)
  <2>1. ASSUME NEW pc \in PC, Goto(h, pc),
               \/ pc = "viewing" /\ req[h].kind # "refine"
               \/ pc = "loading" /\ req[h].kind = "refine"
        PROVE  \E r \in Req : req' = [req EXCEPT ![h] = r] /\ Fit(r)
    <3>1. PICK r \in Req : /\ req' = [req EXCEPT ![h] = r] /\ r.pc = pc
                           /\ r.kind = req[h].kind /\ r.key = req[h].key /\ r.view = req[h].view
                           /\ r.text = req[h].text /\ r.known = req[h].known
      BY <2>1, GotoReq
    <3>2. Fit(r)
      BY <1>1, <2>1, <3>1 DEF Fit, PCOf, Wiring, Viewing
    <3> QED  BY <3>1, <3>2
  <2>2. CASE req[h].kind = "refine" /\ cache.view # {} /\ Use(h, Only(cache.view))
    <3>1. Only(cache.view) \in cache.view
      BY <2>2, Copies, Options
    <3>2. Only(cache.view) \in View /\ Real(Only(cache.view))
      BY <3>1, Copies
    <3> QED  BY <1>1, <2>2, <3>2, UseFits
  <2> QED  BY <2>1, <2>2 DEF KeepDraft, PC
<1>3. PICK r \in Req : req' = [req EXCEPT ![h] = r] /\ Fit(r)
  BY <1>2
<1>4. cache' = [view |-> cache.view, draft |-> {req[h].text}]
  <2>1. cache' = [cache EXCEPT !.draft = {req[h].text}]
    BY DEF KeepDraft
  <2>2. cache = [view |-> cache.view, draft |-> cache.draft]
    BY Copies
  <2> QED  BY <2>1, <2>2
<1>5. {req[h].text} \in Optional(Text)
  BY <1>1, OneOption
<1>6. /\ cache.view \in Optional(View) /\ \A v \in cache.view : Real(v)
      /\ {req[h].text} \subseteq was
  BY <1>1, Copies
<1>7. UNCHANGED <<rows, stored, told, faults>> /\ Ledger
  BY DEF KeepDraft
<1> QED  BY <1>3, <1>4, <1>5, <1>6, <1>7, CacheStep

\* The view is stored.
LEMMA SaveViewInv == ASSUME Inv, NEW h \in Handler, SaveView(h) PROVE Inv'
<1>1. PICK r \in Req : /\ req' = [req EXCEPT ![h] = r] /\ r.pc = "viewed"
                       /\ r.kind = req[h].kind /\ r.key = req[h].key /\ r.view = req[h].view
                       /\ r.text = req[h].text /\ r.known = req[h].known
  BY GotoReq DEF SaveView, PC
<1>2. /\ req[h] \in Req /\ Fit(req[h]) /\ req[h].pc = "viewing" /\ req[h].view # {}
      /\ req[h].view \in Optional(View) /\ \A v \in req[h].view : Real(v)
  BY Has DEF SaveView, At, Fit, Viewing, Req
<1>3. stored' = [view |-> req[h].view, draft |-> stored.draft]
  <2>1. stored' = [stored EXCEPT !.view = req[h].view]
    BY DEF SaveView
  <2>2. stored \in [view: Optional(View), draft: Optional(Text)]
    BY DEF Inv, TypeOK
  <2> QED  BY <2>1, <2>2
<1>4. UNCHANGED <<job, rows, cache, told, was, sends, faults>>
  BY DEF SaveView, Ledger
<1>5. \A v : Real(v) => Real(v)'
  BY <1>4 DEF Real
<1>6. Grows /\ Stores' /\ Typed'
  <2>1. job.phase # "absent"
    BY <1>2 DEF Fit, PCOf, Viewing, Req, Inv, Stores
  <2> QED  BY <1>2, <1>3, <1>4, <1>5, <2>1, Copies, CopyStep DEF Inv, TypeOK, Stores
<1>7. Fit(r)'
  BY <1>1, <1>2, <1>3, <1>4, <1>5 DEF Fit, PCOf, Wiring, Viewing
<1> QED  BY <1>1, <1>6, <1>7, RequestStep

\* It is cached, and shown by a GET.
LEMMA KeepViewInv == ASSUME Inv, NEW h \in Handler, KeepView(h) PROVE Inv'
<1>1. /\ req[h] \in Req /\ Fit(req[h]) /\ req[h].pc = "viewed" /\ req[h].view # {}
      /\ req[h].view \in Optional(View) /\ \A v \in req[h].view : Real(v)
      /\ Only(req[h].view) \in req[h].view
  <2>1. /\ req[h] \in Req /\ Fit(req[h]) /\ req[h].pc = "viewed" /\ req[h].view # {}
        /\ req[h].view \in Optional(View) /\ \A v \in req[h].view : Real(v)
    BY Has DEF KeepView, At, Fit, Viewing, Req
  <2> QED  BY <2>1, Options
<1>2. cache' = [view |-> req[h].view, draft |-> cache.draft]
  <2>1. cache' = [cache EXCEPT !.view = req[h].view]
    BY DEF KeepView
  <2>2. cache = [view |-> cache.view, draft |-> cache.draft]
    BY Copies
  <2> QED  BY <2>1, <2>2
<1>3. UNCHANGED <<job, rows, stored, was, sends, faults>>
  BY DEF KeepView, Ledger
<1>4. told' \in Told /\ told'.posted = told.posted /\ (told'.result => job.phase \in Reportable)
  <2>1. told \in Told /\ (told.result => job.phase \in Reportable)
    BY DEF Inv, TypeOK, Stores
  <2>2. Only(req[h].view).result # "none" => job.phase \in Reportable
    BY <1>1 DEF Real
  <2> QED  BY <2>1, <2>2 DEF KeepView, Told
<1>5. \A v : Real(v) => Real(v)'
  BY <1>3 DEF Real
<1>6. Grows /\ Stores' /\ Typed'
  BY <1>1, <1>2, <1>3, <1>4, <1>5, Copies, CopyStep DEF Inv, TypeOK, Stores
<1>7. CASE Return(h)
  BY <1>6, <1>7, IdleTyped, RequestStep DEF Return
<1>8. CASE Goto(h, "putting") /\ req[h].kind # "get"
  <2>1. PICK r \in Req : /\ req' = [req EXCEPT ![h] = r] /\ r.pc = "putting"
                         /\ r.kind = req[h].kind /\ r.key = req[h].key /\ r.view = req[h].view
                         /\ r.text = req[h].text /\ r.known = req[h].known
    BY <1>8, GotoReq DEF PC
  <2>2. Fit(r)
    BY <1>1, <1>8, <2>1 DEF Fit, PCOf, Wiring, Viewing
  <2> QED  BY <1>6, <2>1, <2>2, FitGrows, RequestStep
<1> QED  BY <1>7, <1>8 DEF KeepView

\* The view is read from the store: for a GET it is there.
LEMMA LoadViewInv == ASSUME Inv, NEW h \in Handler, LoadView(h) PROVE Inv'
<1>1. req[h] \in Req /\ Fit(req[h]) /\ req[h].pc = "loading"
  BY Has DEF LoadView, At
<1>2. CASE \E v \in stored.view : With(h, "loaded", v)
  <2>1. PICK v \in View : Real(v) /\ With(h, "loaded", v)
    BY <1>2, Copies
  <2>2. PICK r \in Req : /\ req' = [req EXCEPT ![h] = r] /\ r.pc = "loaded" /\ r.view = {v}
                         /\ r.kind = req[h].kind /\ r.key = req[h].key
                         /\ r.text = req[h].text /\ r.known = req[h].known
    BY <2>1, WithReq DEF PC
  <2>3. Fit(r)
    BY <1>1, <2>1, <2>2 DEF Fit, PCOf, Wiring, Viewing
  <2> QED  BY <2>2, <2>3, GoOnInv DEF LoadView
<1>3. CASE stored.view = {} /\ Goto(h, IF req[h].kind = "get" THEN "missing" ELSE "putting")
  <2>1. req[h].kind = "refine" /\ Goto(h, "putting")
    BY <1>1, <1>3 DEF Fit, PCOf, Req
  <2>2. PICK r \in Req : /\ req' = [req EXCEPT ![h] = r] /\ r.pc = "putting"
                         /\ r.kind = req[h].kind /\ r.key = req[h].key /\ r.view = req[h].view
                         /\ r.text = req[h].text /\ r.known = req[h].known
    BY <2>1, GotoReq DEF PC
  <2>3. Fit(r)
    BY <1>1, <2>1, <2>2 DEF Fit, PCOf, Wiring, Viewing
  <2> QED  BY <2>2, <2>3, GoOnInv DEF LoadView
<1> QED  BY <1>2, <1>3 DEF LoadView

\* What was read is cached.
LEMMA KeepLoadedInv == ASSUME Inv, NEW h \in Handler, KeepLoaded(h) PROVE Inv'
<1>1. /\ req[h] \in Req /\ Fit(req[h]) /\ req[h].pc = "loaded" /\ req[h].kind \in {"get", "refine"}
      /\ req[h].view \in Optional(View) /\ \A v \in req[h].view : Real(v)
  BY Has DEF KeepLoaded, At, Fit, PCOf, Req
<1>2. PICK v \in req[h].view : Use(h, v)
  BY DEF KeepLoaded
<1>3. v \in View /\ Real(v)
  BY <1>1, Options
<1>4. PICK r \in Req : req' = [req EXCEPT ![h] = r] /\ Fit(r)
  BY <1>1, <1>2, <1>3, UseFits
<1>5. cache' = [view |-> req[h].view, draft |-> cache.draft]
  <2>1. cache' = [cache EXCEPT !.view = req[h].view]
    BY DEF KeepLoaded
  <2>2. cache = [view |-> cache.view, draft |-> cache.draft]
    BY Copies
  <2> QED  BY <2>1, <2>2
<1>6. cache.draft \in Optional(Text) /\ cache.draft \subseteq was
  BY Copies
<1>7. UNCHANGED <<rows, stored, told, faults>> /\ Ledger
  BY DEF KeepLoaded
<1> QED  BY <1>1, <1>4, <1>5, <1>6, <1>7, CacheStep

\* A GET reads the ledger: once a result was told, it has one.
LEMMA RefreshViewInv == ASSUME Inv, NEW h \in Handler, RefreshView(h) PROVE Inv'
<1>1. /\ req[h] \in Req /\ Fit(req[h]) /\ req[h].pc = "refreshing" /\ req[h].kind = "get"
      /\ req[h].view \in Optional(View) /\ \A v \in req[h].view : Real(v)
  BY Has DEF RefreshView, At, Fit, PCOf, Req
<1>2. UNCHANGED <<rows, stored, cache, told, faults>> /\ Ledger
  BY DEF RefreshView
<1>3. PICK v \in req[h].view :
        IF UpToDate(v) THEN With(h, "viewing", v)
        ELSE IF job.phase \notin Reportable THEN With(h, "viewing", Unfinished(job.phase))
        ELSE IF v.result = "none" THEN Wire(h)
        ELSE With(h, "viewing", [v EXCEPT !.phase = job.phase])
  BY DEF RefreshView
<1>4. v \in View /\ Real(v)
  BY <1>1, Options
<1>5. ASSUME NEW u \in View, Real(u), With(h, "viewing", u),
             job.phase \in Reportable => u.result # "none"
      PROVE  Inv'
  <2>1. PICK r \in Req : /\ req' = [req EXCEPT ![h] = r] /\ r.pc = "viewing" /\ r.view = {u}
                         /\ r.kind = req[h].kind /\ r.key = req[h].key
                         /\ r.text = req[h].text /\ r.known = req[h].known
    BY <1>5, WithReq DEF PC
  <2>2. Fit(r)
    BY <1>1, <1>5, <2>1 DEF Fit, PCOf, Wiring, Viewing
  <2> QED  BY <1>2, <2>1, <2>2, GoOnInv
<1>6. CASE UpToDate(v)
  BY <1>3, <1>4, <1>5, <1>6 DEF UpToDate
<1>7. CASE ~UpToDate(v) /\ job.phase \notin Reportable
  <2>1. job.phase # "absent"
    BY <1>1 DEF Fit, Inv, Stores
  <2> QED  BY <1>1, <1>2, <1>3, <1>7, <2>1, UnfinishedInv
<1>8. CASE ~UpToDate(v) /\ job.phase \in Reportable /\ v.result = "none"
  BY <1>1, <1>2, <1>3, <1>8, WireInv
<1>9. CASE ~UpToDate(v) /\ job.phase \in Reportable /\ v.result # "none"
  <2> DEFINE u == [v EXCEPT !.phase = job.phase]
  <2>1. u \in View /\ u.text = v.text /\ u.result = v.result
    BY <1>4, <1>9 DEF View, Phase
  <2>2. Real(u) /\ With(h, "viewing", u)
    BY <1>3, <1>4, <1>9, <2>1 DEF Real
  <2> HIDE DEF u
  <2> QED  BY <1>5, <1>9, <2>1, <2>2
<1> QED  BY <1>6, <1>7, <1>8, <1>9
-----------------------------------------------------------------------------
(* Refine.                                                                 *)

\* A request of refine goes on, maybe with another text.
LEMMA RefineGoesOn ==
  ASSUME Inv, NEW h \in Handler, NEW pc \in {"redrawn", "deriving", "asking", "drafting", "putting"},
         NEW text \in Text, req[h].kind = "refine", pc = "redrawn" => text \in was,
         req' = [req EXCEPT ![h].pc = pc, ![h].text = text]
  PROVE  \E r \in Req : req' = [req EXCEPT ![h] = r] /\ Fit(r)
<1> DEFINE r == [req[h] EXCEPT !.pc = pc, !.text = text]
<1>1. req[h] \in Req /\ Fit(req[h]) /\ req \in [Handler -> Req]
  BY Has DEF Inv, TypeOK
<1>2. /\ r \in Req /\ r.pc = pc /\ r.text = text /\ r.view = req[h].view
      /\ r.kind = req[h].kind /\ r.key = req[h].key /\ r.known = req[h].known
  BY <1>1 DEF Req, PC
<1>3. req' = [req EXCEPT ![h] = r]
  BY <1>1
<1> HIDE DEF r
<1>4. Fit(r)
  BY <1>1, <1>2 DEF Fit, PCOf, Wiring, Viewing
<1> QED  BY <1>2, <1>3, <1>4

\* The draft is read from the store, or has to be derived.
LEMMA LoadDraftInv == ASSUME Inv, NEW h \in Handler, LoadDraft(h) PROVE Inv'
<1>1. /\ req[h] \in Req /\ req[h].kind = "refine" /\ Fit(req[h]) /\ req[h].pc = "reloading"
  BY Has DEF LoadDraft, At, Fit, PCOf, Req
<1>2. CASE \E text \in stored.draft : req' = [req EXCEPT ![h].pc = "redrawn", ![h].text = text]
  <2>1. PICK text \in stored.draft : req' = [req EXCEPT ![h].pc = "redrawn", ![h].text = text]
    BY <1>2
  <2>2. text \in Text /\ text \in was
    BY Copies, Options
  <2> QED  BY <1>1, <2>1, <2>2, RefineGoesOn, GoOnInv DEF LoadDraft
<1>3. CASE Goto(h, "deriving")
  <2>1. PICK r \in Req : /\ req' = [req EXCEPT ![h] = r] /\ r.pc = "deriving"
                         /\ r.kind = req[h].kind /\ r.key = req[h].key /\ r.view = req[h].view
                         /\ r.text = req[h].text /\ r.known = req[h].known
    BY <1>3, GotoReq DEF PC
  <2>2. Fit(r)
    BY <1>1, <2>1 DEF Fit, PCOf, Wiring, Viewing
  <2> QED  BY <2>1, <2>2, GoOnInv DEF LoadDraft
<1> QED  BY <1>2, <1>3 DEF LoadDraft

\* The draft of the job.
LEMMA DeriveDraftInv == ASSUME Inv, NEW h \in Handler, DeriveDraft(h) PROVE Inv'
<1>1. req[h].kind = "refine"
  BY Has DEF DeriveDraft, At, Fit, PCOf, Req
<1>2. Original \in Text /\ Original \in was
  BY DEF Text, Original, Inv, Stores
<1>3. CASE Return(h)
  BY <1>3, ReturnInv DEF DeriveDraft
<1>4. CASE req' = [req EXCEPT ![h].pc = "redrawn", ![h].text = Original]
  BY <1>1, <1>2, <1>4, RefineGoesOn, GoOnInv DEF DeriveDraft
<1> QED  BY <1>3, <1>4 DEF DeriveDraft

\* The draft is cached, and asked for.
LEMMA KeepDrawnInv == ASSUME Inv, NEW h \in Handler, KeepDrawn(h) PROVE Inv'
<1>1. /\ req[h] \in Req /\ Fit(req[h]) /\ req[h].pc = "redrawn" /\ req[h].kind = "refine"
      /\ req[h].text \in was /\ req[h].text \in Text
  BY Has DEF KeepDrawn, At, Fit, PCOf, Req
<1>2. PICK r \in Req : /\ req' = [req EXCEPT ![h] = r] /\ r.pc = "asking"
                       /\ r.kind = req[h].kind /\ r.key = req[h].key /\ r.view = req[h].view
                       /\ r.text = req[h].text /\ r.known = req[h].known
  BY GotoReq DEF KeepDrawn, PC
<1>3. Fit(r)
  BY <1>1, <1>2 DEF Fit, PCOf, Wiring, Viewing
<1>4. cache' = [view |-> cache.view, draft |-> {req[h].text}]
  <2>1. cache' = [cache EXCEPT !.draft = {req[h].text}]
    BY DEF KeepDrawn
  <2>2. cache = [view |-> cache.view, draft |-> cache.draft]
    BY Copies
  <2> QED  BY <2>1, <2>2
<1>5. /\ cache.view \in Optional(View) /\ \A v \in cache.view : Real(v)
      /\ {req[h].text} \in Optional(Text) /\ {req[h].text} \subseteq was
  BY <1>1, Copies, OneOption
<1>6. UNCHANGED <<rows, stored, told, faults>> /\ Ledger
  BY DEF KeepDrawn
<1> QED  BY <1>2, <1>3, <1>4, <1>5, <1>6, CacheStep

\* The turn is taken, blocked, or lost.
LEMMA RefineInv == ASSUME Inv, NEW h \in Handler, Refine(h) PROVE Inv'
<1>1. /\ req[h] \in Req /\ req[h].kind = "refine" /\ Fit(req[h])
  BY Has DEF Refine, At, Fit, PCOf, Req
<1>2. req[h].key \subseteq Turn /\ req[h].text \in Text /\ Original \in Text
  BY <1>1 DEF Fit, Req, Text, Original
<1>3. \A base \in {req[h].text, Original} : base \cup req[h].key \in Text
  BY <1>2 DEF Text
<1>4. UNCHANGED <<rows, stored, cache, told>> /\ Ledger /\ (Fault \/ UNCHANGED faults)
  BY DEF Refine
<1>5. CASE \E base \in {req[h].text, Original} :
            req' = [req EXCEPT ![h].pc = "drafting", ![h].text = base \cup req[h].key]
  <2>1. PICK text \in Text : req' = [req EXCEPT ![h].pc = "drafting", ![h].text = text]
    BY <1>3, <1>5
  <2> QED  BY <1>1, <1>4, <2>1, RefineGoesOn, GoOnInv
<1>6. CASE req' = [req EXCEPT ![h].pc = "putting", ![h].text = Original]
  BY <1>1, <1>2, <1>4, <1>6, RefineGoesOn, GoOnInv
<1>7. CASE Return(h)
  BY <1>4, <1>7, ReturnInv
<1> QED  BY <1>5, <1>6, <1>7 DEF Refine
-----------------------------------------------------------------------------
(* The process.                                                            *)

\* What is left in the caches was in them.
LEMMA FewerCopies ==
  ASSUME Inv, cache' \in [view: {cache.view, {}}, draft: {cache.draft, {}}],
         UNCHANGED <<job, rows, stored, told, was, sends>>, Fault
  PROVE  Grows /\ Stores' /\ Typed'
<1>1. cache' \in [view: Optional(View), draft: Optional(Text)]
  BY Copies, NoOption
<1>2. \A v : Real(v) => Real(v)'
  BY DEF Real
<1>3. Grows
  BY DEF Grows
<1>4. Stores'
  BY <1>2 DEF Inv, Stores
<1>5. Typed'
  BY <1>1, FaultTyped DEF Inv, TypeOK, Typed
<1> QED  BY <1>3, <1>4, <1>5

\* An entry is dropped.
LEMMA EvictInv == ASSUME Inv, Evict PROVE Inv'
<1>1. cache' \in [view: {cache.view, {}}, draft: {cache.draft, {}}]
  BY DEF Evict, Inv, TypeOK
<1> QED  BY <1>1, FewerCopies, WorldStep DEF Evict

\* The process starts again.
LEMMA RestartInv == ASSUME Inv, Restart PROVE Inv'
<1>1. cache' \in [view: {cache.view, {}}, draft: {cache.draft, {}}]
  BY DEF Restart, Empty
<1>2. Stores' /\ Typed'
  BY <1>1, FewerCopies DEF Restart
<1>3. \A h \in Handler : Fit(req[h])'
  <2>1. TAKE h \in Handler
  <2>2. req'[h] = Idle
    BY DEF Restart
  <2>3. Fit(Idle)'
    BY IdleTyped
  <2> QED  BY <2>2, <2>3 DEF Fit, Idle
<1>4. TypeOK'
  BY <1>2, IdleTyped DEF Restart, Typed, TypeOK
<1> QED  BY <1>2, <1>3, <1>4 DEF Inv
-----------------------------------------------------------------------------
(* The invariant, and the theorems.                                        *)

\* The invariant holds before the first request.
LEMMA InitInv == Init => Inv
<1> SUFFICES ASSUME Init PROVE Inv
  OBVIOUS
<1>1. TypeOK
  BY IdleTyped, NoOption, DraftAssumption
     DEF Init, TypeOK, Empty, Nothing, Told, Rows, Original, Text
<1>2. Stores
  BY DEF Init, Stores, Empty, Nothing, Scope
<1>3. \A h \in Handler : Fit(req[h])
  <2>1. TAKE h \in Handler
  <2>2. req[h] = Idle /\ Fit(Idle)
    BY IdleTyped DEF Init
  <2> QED  BY <2>2 DEF Fit, Idle
<1> QED  BY <1>1, <1>2, <1>3 DEF Inv

\* Every step keeps it.
LEMMA NextInv == ASSUME Inv, [Next]_vars PROVE Inv'
<1>1. CASE UNCHANGED vars
  <2>1. Grows /\ Stores' /\ Typed'
    BY <1>1 DEF vars, Grows, Inv, TypeOK, Stores, Typed, Real
  <2> QED  BY <1>1, <2>1, WorldStep DEF vars
<1>2. ASSUME NEW h \in Handler, Step(h) PROVE Inv'
  BY <1>2, AskIdempotencyInv, PutIdempotencyInv, LookInv, AddInv, ReadJobInv, SaveDraftInv,
     KeepDraftInv, SaveViewInv, KeepViewInv, LoadViewInv, KeepLoadedInv, RefreshViewInv,
     LoadDraftInv, DeriveDraftInv, KeepDrawnInv, RefineInv DEF Step
<1>3. CASE Next
  BY <1>2, <1>3, WorkerInv, StoreFailsInv, SendGetInv, SendPostInv, SendRefineInv,
     RowExpiresInv, EvictInv, RestartInv DEF Next
<1> QED  BY <1>1, <1>3

\* The invariant holds for every number of handlers, requests and faults.
THEOREM Invariance == Spec => []Inv
  BY InitInv, NextInv, PTL DEF Spec

\* Jobs, rows, copies and requests are of their types.
THEOREM TypeCorrect == Spec => []TypeOK
  BY Invariance, PTL DEF Inv

\* A POST that is accepted has the job of its own body.
THEOREM JobIsOwn == Spec => []OwnJob
<1>1. Inv => OwnJob
  <2> SUFFICES ASSUME Inv PROVE OwnJob
    OBVIOUS
  <2>1. ASSUME NEW h \in Handler, req[h].kind = "post", req[h].pc \in {"reading", "viewing", "putting"}
        PROVE  job.context = ContextOf(h)
    BY <2>1, Has DEF Fit, Viewing, ContextOf
  <2> QED  BY <2>1 DEF OwnJob, Inv, Stores
<1> QED  BY <1>1, Invariance, PTL

\* A known job is never missing, and a result that was shown is shown again.
THEOREM PollsDoAgree == Spec => []PollsAgree
<1>1. Inv => PollsAgree
  <2> SUFFICES ASSUME Inv, NEW h \in Handler
               PROVE  /\ ~At(h, "missing")
                      /\ \A v \in Shows(h) : req[h].known.result => v.result # "none"
    BY DEF PollsAgree
  <2>1. Fit(req[h]) /\ req[h] \in Req
    BY Has
  <2>2. ~At(h, "missing")
    BY <2>1 DEF Fit, PCOf, At
  <2>3. \A v \in Shows(h) : req[h].known.result => v.result # "none"
    BY <2>1 DEF Fit, Shows, At, Viewing
  <2> QED  BY <2>2, <2>3
<1> QED  BY <1>1, Invariance, PTL

\* Nothing is shown that the stores never held.
THEOREM ShownIsStored == Spec => []ShownWasStored
<1>1. Inv => ShownWasStored
  <2> SUFFICES ASSUME Inv PROVE ShownWasStored
    OBVIOUS
  <2>1. ASSUME NEW h \in Handler, NEW v \in Shows(h) PROVE v.text \in was
    BY Has DEF Fit, Shows, Real
  <2> QED  BY <2>1, Copies DEF ShownWasStored
<1> QED  BY <1>1, Invariance, PTL
=============================================================================
