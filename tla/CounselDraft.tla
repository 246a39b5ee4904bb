---------------------------- MODULE CounselDraft ----------------------------
(***************************************************************************)
(* One counselling draft behind /v1/counsel/drafts (api/routers/counsel.py)*)
(* POST, which enqueues a counsel_pack job under an id derived from the    *)
(* Idempotency-Key, GET, which a client polls, and refine, which changes   *)
(* the draft by one turn.                                                  *)
(*                                                                         *)
(* The handlers run in one event loop: what a handler does between two     *)
(* awaits is one action.  The view GET answers and the draft refine works  *)
(* on live twice: in PostgreSQL (db/counsel_read_model.py) and in two      *)
(* bounded caches of the process.  The job is run by another process, see  *)
(* CounselWorker; the inline drain is off (counsel_inline_drain_max = 0).  *)
(* Requests without a citable fact or about schedules have no job, no      *)
(* draft and no refine, and are left out.                                  *)
(***************************************************************************)
EXTENDS Integers, FiniteSets

CONSTANTS
    Handler,   \* requests in flight at a time
    Context,   \* contexts of requests: what content_hash covers
    Rest,      \* the rest of a body: what only the idempotency row compares
    Turn,      \* refine requests, each under a key of its own
    MaxSends,  \* bound: POSTs and refines ever sent
    MaxFaults  \* bound: failing store and LLM calls, recoveries of the job, rows that
               \* expire, dropped cache entries, and restarts of the process, together

ASSUME DraftAssumption == MaxSends \in Nat /\ MaxFaults \in Nat /\ "post" \notin Turn

VARIABLES
    job,     \* the AGENT_RUN row of the derived job id, and what its pack says
    rows,    \* idempotency rows of the POST and of each turn
    stored,  \* the COUNSEL_DRAFT_VIEW row: view_snapshot and draft_snapshot
    cache,   \* _view_cache and _drafts
    req,     \* the handlers
    told,    \* history: what clients were answered so far
    was,     \* history: the texts the stores have held
    sends, faults

vars == <<job, rows, stored, cache, req, told, was, sends, faults>>

Optional(S) == {{}} \cup {{x} : x \in S}
Only(S) == CHOOSE x \in S : TRUE

Reportable == {"succeeded", "failed"}
Phase == {"queued", "running", "paused"} \cup Reportable
Body == [context: Context, rest: Rest]

\* A text is known by the turns it has taken up since the draft the worker wrote.
Text == SUBSET Turn
Original == {}

WireResult == {"none", "llm_failed", "refused", "generated"}
\* A view has a result once the job has ended.
View == {view \in [phase: Phase, result: WireResult, text: Text] :
            view.result # "none" <=> view.phase \in Reportable}
Unfinished(phase) == [phase |-> phase, result |-> "none", text |-> Original]

\* row is the snapshot_hash a key was stored with, fresh whether it is younger than the
\* time to live.
Scope == {"post"} \cup Turn
Rows == [row: Optional(Body \cup Turn), fresh: BOOLEAN]

Told == [posted: BOOLEAN, result: BOOLEAN, turns: SUBSET Turn]
Nothing == [posted |-> FALSE, result |-> FALSE, turns |-> {}]

PC == {"idle", "asking", "looking", "adding", "reading", "reloading", "deriving",
       "redrawn", "writing", "drafting", "drafted", "loading", "loaded", "refreshing",
       "viewing", "viewed", "putting", "missing"}

\* known is what clients had been told when the request was sent.
Req == [pc: PC, kind: {"none", "post", "get", "refine"}, key: Optional(Body \cup Turn),
        view: Optional(View), text: Text, known: Told]
Idle == [pc |-> "idle", kind |-> "none", key |-> {}, view |-> {}, text |-> Original,
         known |-> Nothing]

TypeOK ==
    /\ job \in [phase: {"absent"} \cup Phase, context: Optional(Context),
                draft: BOOLEAN]
    /\ rows \in [Scope -> Rows]
    /\ stored \in [view: Optional(View), draft: Optional(Text)]
    /\ cache \in [view: Optional(View), draft: Optional(Text)]
    /\ req \in [Handler -> Req]
    /\ told \in Told
    /\ was \subseteq Text
    /\ sends \in 0..MaxSends /\ faults \in 0..MaxFaults

Empty == [view |-> {}, draft |-> {}]

Init ==
    /\ job = [phase |-> "absent", context |-> {}, draft |-> FALSE]
    /\ rows = [s \in Scope |-> [row |-> {}, fresh |-> TRUE]]
    /\ stored = Empty
    /\ cache = Empty
    /\ req = [h \in Handler |-> Idle]
    /\ told = Nothing
    /\ was = {Original}
    /\ sends = 0 /\ faults = 0

At(h, pc) == req[h].pc = pc
Goto(h, pc) == req' = [req EXCEPT ![h].pc = pc]
With(h, pc, view) == req' = [req EXCEPT ![h].pc = pc, ![h].view = {view}]
Free(h) == req[h].pc \in {"idle", "missing"}

\* The handler returns: accepted, shown, refined, refused or in error.
Return(h) == req' = [req EXCEPT ![h] = Idle]

Ledger == UNCHANGED <<job, was, sends>>
Fault == faults < MaxFaults /\ faults' = faults + 1
-----------------------------------------------------------------------------
(* The job, run by the drain (composition/counsel/drain.py).               *)

JobOnly == UNCHANGED <<rows, stored, cache, req, told, was, sends>>

JobStarts ==
    /\ job.phase = "queued"
    /\ job' = [job EXCEPT !.phase = "running"]
    /\ UNCHANGED faults /\ JobOnly

\* draft tells whether the pack has a draft, or the gates were exhausted.  CounselWorker
\* shows that the row of such a draft is there.
JobEnds ==
    /\ job.phase = "running"
    /\ \/ \E draft \in BOOLEAN : job' = [job EXCEPT !.phase = "succeeded", !.draft = draft]
       \/ \E phase \in {"failed", "paused"} : job' = [job EXCEPT !.phase = phase]
    /\ UNCHANGED faults /\ JobOnly

\* The execution died and its lease expired.
JobRecovered ==
    /\ job.phase = "running" /\ Fault
    /\ job' = [job EXCEPT !.phase = "queued"]
    /\ JobOnly
-----------------------------------------------------------------------------
(* Requests.                                                               *)

Arrive(h, request) ==
    /\ Free(h)
    /\ req' = [req EXCEPT ![h] = request]
    /\ UNCHANGED <<job, rows, stored, cache, told, was, faults>>

SendPost(h, body) ==
    /\ sends < MaxSends /\ sends' = sends + 1
    /\ Arrive(h, [Idle EXCEPT !.pc = "asking", !.kind = "post", !.key = {body}])

\* A client knows the id of the job from the answer to its POST.  GET looks for the view
\* in the cache, _cached_view_of.
SendGet(h) ==
    /\ told.posted
    /\ Arrive(h, [Idle EXCEPT !.pc = IF cache.view = {} THEN "loading" ELSE "refreshing",
                              !.kind = "get", !.view = cache.view, !.known = told])
    /\ UNCHANGED sends

\* refine looks for the draft in the cache, _draft_state_of.
SendRefine(h, turn) ==
    /\ told.posted
    /\ sends < MaxSends /\ sends' = sends + 1
    /\ LET request == [Idle EXCEPT !.kind = "refine", !.key = {turn}]
       IN  Arrive(h, IF cache.draft = {} THEN [request EXCEPT !.pc = "reloading"]
                     ELSE [request EXCEPT !.pc = "asking", !.text = Only(cache.draft)])
-----------------------------------------------------------------------------
(* Idempotency rows (db/repositories/idempotency.py).                      *)

ScopeOf(h) == IF req[h].kind = "post" THEN "post" ELSE Only(req[h].key)

\* A row past its time to live is never found again, and never replaced.
RowExpires(s) ==
    /\ rows[s].row # {} /\ rows[s].fresh
    /\ Fault
    /\ rows' = [rows EXCEPT ![s].fresh = FALSE]
    /\ UNCHANGED <<job, stored, cache, req, told, was, sends>>

\* A request whose row is there is answered from it, one with another body is refused;
\* a failing read is a miss.
AskIdempotency(h) ==
    LET found == rows[ScopeOf(h)]
        hit == found.row # {} /\ found.fresh
        missed == IF req[h].kind = "post" THEN "looking" ELSE "writing"
    IN  /\ At(h, "asking")
        /\ \/ /\ hit
              /\ Return(h)
              /\ UNCHANGED faults
           \/ ~hit /\ Goto(h, missed) /\ UNCHANGED faults
           \/ hit /\ Fault /\ Goto(h, missed)
        /\ UNCHANGED <<rows, stored, cache, told>> /\ Ledger

\* The first writer of a key wins; a failing write loses the row.  The answer is given
\* all the same.
PutIdempotency(h) ==
    LET s == ScopeOf(h)
    IN  /\ At(h, "putting")
        /\ \/ /\ rows' = [rows EXCEPT ![s].row = IF @ = {} THEN req[h].key ELSE @]
              /\ UNCHANGED faults
           \/ Fault /\ UNCHANGED rows
        /\ Return(h)
        /\ told' = IF req[h].kind = "post" THEN [told EXCEPT !.posted = TRUE]
                   ELSE IF req[h].text # Original THEN [told EXCEPT !.turns = @ \cup req[h].key]
                   ELSE told
        /\ UNCHANGED <<stored, cache>> /\ Ledger
-----------------------------------------------------------------------------
(* POST /v1/counsel/drafts: _generate.                                     *)

ContextOf(h) == {b.context : b \in req[h].key}

\* Mutant of SameContext: only the request that found the job at once is compared.
SameContextLooking(h) == At(h, "looking") => job.context = ContextOf(h)

\* The payload_hash of the job is what remains to compare a body with.
SameContext(h) == job.context = ContextOf(h)

\* supervisor.get finds the job, or it has to be added.
Look(h) ==
    /\ At(h, "looking")
    /\ IF job.phase = "absent" THEN Goto(h, "adding")
       ELSE IF SameContext(h) THEN Goto(h, "reading")
       ELSE Return(h)
    /\ UNCHANGED <<rows, stored, cache, told, faults>> /\ Ledger

\* enqueue; JobAlreadyExistsError says that another request was faster.
Add(h) ==
    /\ At(h, "adding")
    /\ \/ /\ job.phase = "absent"
          /\ job' = [job EXCEPT !.phase = "queued", !.context = ContextOf(h)]
          /\ Goto(h, "reading")
       \/ /\ job.phase # "absent"
          /\ IF SameContext(h) THEN Goto(h, "reading") ELSE Return(h)
          /\ UNCHANGED job
    /\ UNCHANGED <<rows, stored, cache, told, was, sends, faults>>

\* _wire_result, for a job that has ended.
Wired ==
    [phase |-> job.phase, text |-> Original,
     result |-> IF job.phase = "failed" THEN "llm_failed"
                ELSE IF job.draft THEN "generated" ELSE "refused"]

\* A draft that is wired becomes the draft refine works on, before it is shown.
Wire(h) == With(h, IF Wired.result = "generated" THEN "drafting" ELSE "viewing", Wired)

\* Mutant of ReadJob: whatever the job has is taken for its result.
ReadJobEarly(h) ==
    /\ At(h, "reading")
    /\ job.phase # "absent" /\ Wire(h)
    /\ UNCHANGED <<rows, stored, cache, told, faults>> /\ Ledger

\* The job is read again, and its result assembled if it has one.
ReadJob(h) ==
    /\ At(h, "reading")
    /\ IF job.phase \in Reportable THEN Wire(h)
       ELSE With(h, "viewing", Unfinished(job.phase))
    /\ UNCHANGED <<rows, stored, cache, told, faults>> /\ Ledger
-----------------------------------------------------------------------------
(* The two copies of view and draft.                                       *)

\* A store call fails: the request ends in an error and nothing was changed.
StoreFails(h) ==
    /\ req[h].pc \in {"looking", "adding", "reading", "reloading", "deriving", "drafting",
                      "loading", "refreshing", "viewing"}
    /\ Fault
    /\ Return(h)
    /\ UNCHANGED <<rows, stored, cache, told>> /\ Ledger

\* _remember_draft: the row first.  The snapshot of the view stays as it is.
SaveDraft(h) ==
    /\ At(h, "drafting")
    /\ stored' = [stored EXCEPT !.draft = {req[h].text}]
    /\ was' = was \cup {req[h].text}
    /\ Goto(h, "drafted")
    /\ UNCHANGED <<job, rows, cache, told, sends, faults>>

\* What is done with the view: a GET reads the ledger, refine writes its text into a view
\* that has a result.
Use(h, view) ==
    IF req[h].kind = "get" THEN With(h, "refreshing", view)
    ELSE IF view.result = "none" THEN Goto(h, "putting")
    ELSE With(h, "viewing", [view EXCEPT !.text = req[h].text])

\* The cache follows; refine goes on to the view.
KeepDraft(h) ==
    /\ At(h, "drafted")
    /\ cache' = [cache EXCEPT !.draft = {req[h].text}]
    /\ IF req[h].kind # "refine" THEN Goto(h, "viewing")
       ELSE IF cache.view = {} THEN Goto(h, "loading")
       ELSE Use(h, Only(cache.view))
    /\ UNCHANGED <<rows, stored, told, faults>> /\ Ledger

\* Mutant of SaveView: a view without a result is only cached.
SaveViewOfResult(h) ==
    /\ At(h, "viewing")
    /\ stored' = [stored EXCEPT !.view = IF Only(req[h].view).result = "none" THEN @
                                         ELSE req[h].view]
    /\ Goto(h, "viewed")
    /\ UNCHANGED <<rows, cache, told, faults>> /\ Ledger

\* _remember_view.
SaveView(h) ==
    /\ At(h, "viewing")
    /\ stored' = [stored EXCEPT !.view = req[h].view]
    /\ Goto(h, "viewed")
    /\ UNCHANGED <<rows, cache, told, faults>> /\ Ledger

KeepView(h) ==
    LET shown == Only(req[h].view)
    IN  /\ At(h, "viewed")
        /\ cache' = [cache EXCEPT !.view = req[h].view]
        /\ IF req[h].kind = "get"
             THEN /\ Return(h)
                  /\ told' = [told EXCEPT !.result = @ \/ shown.result # "none"]
             ELSE Goto(h, "putting") /\ UNCHANGED told
        /\ UNCHANGED <<rows, stored, faults>> /\ Ledger

\* The view is not in the cache: _cached_view_of reads the store, and keeps what it found.
LoadView(h) ==
    /\ At(h, "loading")
    /\ \/ \E view \in stored.view : With(h, "loaded", view)
       \/ /\ stored.view = {}
          /\ Goto(h, IF req[h].kind = "get" THEN "missing" ELSE "putting")
    /\ UNCHANGED <<rows, stored, cache, told, faults>> /\ Ledger

KeepLoaded(h) ==
    /\ At(h, "loaded")
    /\ cache' = [cache EXCEPT !.view = req[h].view]
    /\ \E view \in req[h].view : Use(h, view)
    /\ UNCHANGED <<rows, stored, told, faults>> /\ Ledger
-----------------------------------------------------------------------------
(* GET /v1/counsel/drafts/{job_id}: _refresh_view.                         *)

\* Mutant of UpToDate: the view that was found is shown as it is.
UpToDateAsFound(view) == job.phase # "absent"

\* Nothing to refresh: the phase is the ledger's, and a result is there if one is due.
UpToDate(view) ==
    /\ job.phase = view.phase
    /\ view.result # "none" \/ job.phase \notin Reportable

\* The phase is read from the ledger; the result of a job that ended is restored from
\* its bundle, its pack and its draft.
RefreshView(h) ==
    /\ At(h, "refreshing")
    /\ \E view \in req[h].view :
        IF UpToDate(view) THEN With(h, "viewing", view)
        ELSE IF job.phase \notin Reportable THEN With(h, "viewing", Unfinished(job.phase))
        ELSE IF view.result = "none" THEN Wire(h)
        ELSE With(h, "viewing", [view EXCEPT !.phase = job.phase])
    /\ UNCHANGED <<rows, stored, cache, told, faults>> /\ Ledger
-----------------------------------------------------------------------------
(* POST /v1/counsel/drafts/{job_id}/refine.                                *)

\* _draft_state_of: a draft that is not in the cache is read from the store,
LoadDraft(h) ==
    /\ At(h, "reloading")
    /\ \/ \E text \in stored.draft : req' = [req EXCEPT ![h].pc = "redrawn", ![h].text = text]
       \/ stored.draft = {} /\ Goto(h, "deriving")
    /\ UNCHANGED <<rows, stored, cache, told, faults>> /\ Ledger

\* or derived from the result of the job.
DeriveDraft(h) ==
    /\ At(h, "deriving")
    /\ IF job.phase = "succeeded" /\ job.draft
         THEN req' = [req EXCEPT ![h].pc = "redrawn", ![h].text = Original]
         ELSE Return(h)
    /\ UNCHANGED <<rows, stored, cache, told, faults>> /\ Ledger

KeepDrawn(h) ==
    /\ At(h, "redrawn")
    /\ cache' = [cache EXCEPT !.draft = {req[h].text}]
    /\ Goto(h, "asking")
    /\ UNCHANGED <<rows, stored, told, faults>> /\ Ledger

\* Mutant of Refine: the refined text is cached before it is stored.
RefineCaching(h) ==
    /\ At(h, "writing")
    /\ \E base \in {req[h].text, Original} :
        /\ req' = [req EXCEPT ![h].pc = "drafting", ![h].text = base \cup req[h].key]
        /\ cache' = [cache EXCEPT !.draft = {base \cup req[h].key}]
    /\ UNCHANGED <<rows, stored, told, faults>> /\ Ledger

\* refine_draft and _record_refine_run: the turn is applied to the draft, or to the
\* context alone when the draft cannot be sent; is blocked, and changes nothing; or the
\* LLM, or the execution ledger, fails.
Refine(h) ==
    /\ At(h, "writing")
    /\ \/ /\ \E base \in {req[h].text, Original} :
                req' = [req EXCEPT ![h].pc = "drafting", ![h].text = base \cup req[h].key]
          /\ UNCHANGED faults
       \/ /\ req' = [req EXCEPT ![h].pc = "putting", ![h].text = Original]
          /\ UNCHANGED faults
       \/ Fault /\ Return(h)
    /\ UNCHANGED <<rows, stored, cache, told>> /\ Ledger
-----------------------------------------------------------------------------
(* The process.                                                            *)

\* The caches are bounded: an entry may be dropped at any time.
Evict ==
    /\ cache' \in {[cache EXCEPT !.view = {}], [cache EXCEPT !.draft = {}]} \ {cache}
    /\ Fault
    /\ UNCHANGED <<job, rows, stored, req, told, was, sends>>

Restart ==
    /\ Fault
    /\ cache' = Empty
    /\ req' = [h \in Handler |-> Idle]
    /\ UNCHANGED <<job, rows, stored, told, was, sends>>
-----------------------------------------------------------------------------
Step(h) ==
    \/ AskIdempotency(h) \/ PutIdempotency(h)
    \/ Look(h) \/ Add(h) \/ ReadJob(h)
    \/ SaveDraft(h) \/ KeepDraft(h) \/ SaveView(h) \/ KeepView(h)
    \/ LoadView(h) \/ KeepLoaded(h) \/ RefreshView(h)
    \/ LoadDraft(h) \/ DeriveDraft(h) \/ KeepDrawn(h) \/ Refine(h)

Worker == JobStarts \/ JobEnds

Next ==
    \/ Worker \/ JobRecovered
    \/ \E h \in Handler :
        \/ Step(h) \/ StoreFails(h) \/ SendGet(h)
        \/ \E body \in Body : SendPost(h, body)
        \/ \E turn \in Turn : SendRefine(h, turn)
    \/ \E s \in Scope : RowExpires(s)
    \/ Evict \/ Restart

Spec == Init /\ [][Next]_vars

\* The drain and a handler that is not cut off go on, their calls being bounded by
\* timeouts, and a client polls, as the answers ask it to (Retry-After).
Fairness ==
    /\ WF_vars(Worker)
    /\ \A h \in Handler : WF_vars(Step(h))
    /\ WF_vars(\E h \in Handler : SendGet(h))

FairSpec == Spec /\ Fairness
-----------------------------------------------------------------------------
(* Properties.                                                             *)

\* The view a GET is about to answer with.
Shows(h) == IF req[h].kind = "get" /\ At(h, "viewed") THEN req[h].view ELSE {}

\* A POST that is accepted gets the job of its own body: requests under one key find
\* one job, and one with other contexts is refused, whether it is answered from the row,
\* finds the job, or loses the race to add it.
OwnJob ==
    /\ \A h \in Handler : req[h].kind = "post" /\ req[h].pc \in {"reading", "viewing", "putting"} =>
            job.context = ContextOf(h)
    /\ \A body \in rows["post"].row : job.context = {body.context}

\* A client that knows the job is never told that it does not exist, and once a result
\* was shown, every later GET shows one: whatever is evicted, restarted, or written by
\* handlers that have read the ledger before.
PollsAgree ==
    \A h \in Handler :
        /\ ~At(h, "missing")
        /\ \A view \in Shows(h) : req[h].known.result => view.result # "none"

\* Nothing is shown, and no turn builds on anything, that the stores never held and a
\* restart would have lost.
ShownWasStored ==
    /\ cache.draft \subseteq was
    /\ \A h \in Handler : \A view \in Shows(h) : view.text \in was

\* A client that polls is shown the result, unless the job is left paused.
ResultShown == (told.posted /\ job.phase = "queued") ~> (told.result \/ job.phase = "paused")

\* What the sources claim and the code does not do: see the findings.

\* counsel.py: a GET after refine has answered shows the refined text.
RefinedShown ==
    \A h \in Handler : \A view \in Shows(h) : req[h].known.turns \subseteq view.text
=============================================================================
