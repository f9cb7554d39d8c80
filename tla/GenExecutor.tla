---------------------------- MODULE GenExecutor ----------------------------
(***************************************************************************)
(* The generation side of the KV-cache transfer on one rank: the executor  *)
(* loop of py_executor.py (_executor_loop), the generation half of         *)
(* CacheTransceiver and the request thread of CacheReceiver::Impl.  The    *)
(* context server, which answers a request info with a ready signal and    *)
(* then sends the data, is the environment.                                *)
(***************************************************************************)
EXTENDS Integers, FiniteSets

CONSTANTS
    Requests,       \* generation-only requests
    Timeouts,       \* whether kv_transfer_timeout_ms is set
    LinkFails,      \* whether connections may throw
    ForwardFails,   \* whether the forward step may throw
    NoRequest

ASSUME GenAssumption ==
    /\ {Timeouts, LinkFails, ForwardFails} \subseteq BOOLEAN
    /\ NoRequest \notin Requests

VARIABLES
    \* the executor
    at,                 \* position in the loop
    atLeast,            \* the transfers the status check under way waits for
    active,             \* active_requests
    state,              \* LlmRequest state
    timedOut,           \* py_kv_transfer_timed_out
    canceled,           \* canceled_req_ids
    batch,              \* the scheduled batch
    fitted,             \* whether this iteration started a transfer
    blocks,             \* requests that own KV blocks
    answer,             \* the final response
    aborted,            \* history: requests that a failed forward step ended
    \* CacheTransceiver and CacheReceiver::Impl
    mRequesterFutures,
    mRequestsQueue,     \* the requests in the queue
    ahead,              \* the requests queued when this one was
    future,
    job, step,          \* the request thread
    \* the context server
    asked,              \* request infos that were sent
    signal,             \* its ready signal
    received            \* requests whose data has arrived

executor == <<at, atLeast, active, timedOut, canceled, batch, fitted, blocks,
              answer, aborted>>
receiver == <<mRequesterFutures, mRequestsQueue, ahead, future, job, step>>
context == <<asked, signal, received>>
vars == <<executor, state, receiver, context>>

Settled(q) == future[q] \in {"value", "exception"}
InState(S) == {q \in active : state[q] \in S}

Init ==
    /\ at = "fetch" /\ atLeast = 0
    /\ active = {} /\ batch = {} /\ fitted = FALSE
    /\ state = [q \in Requests |-> "new"]
    /\ timedOut = {} /\ canceled = {} /\ blocks = {} /\ aborted = {}
    /\ answer = [q \in Requests |-> "none"]
    /\ mRequesterFutures = {} /\ mRequestsQueue = {}
    /\ ahead = [q \in Requests |-> {}]
    /\ future = [q \in Requests |-> "none"]
    /\ job = NoRequest /\ step = "idle"
    /\ asked = {} /\ received = {}
    /\ signal = [q \in Requests |-> "none"]

-----------------------------------------------------------------------------
(* The executor loop, one action per call that matters here.               *)

\* _fetch_and_activate_new_requests waits for a request when none is active;
\* cancellations by the user arrive through the same queue.
FetchNewRequests ==
    /\ at = "fetch"
    /\ \E N \in SUBSET {q \in Requests : state[q] = "new"} :
          /\ active = {} => N # {}
          /\ active' = active \cup N
          /\ state' = [q \in Requests |-> IF q \in N THEN "init" ELSE state[q]]
    /\ \E C \in SUBSET active' : canceled' = canceled \cup C
    /\ at' = "status"
    /\ UNCHANGED <<atLeast, timedOut, batch, fitted, blocks, answer, receiver,
                   aborted, context>>

\* Mutant: failed requests stay in active_requests.
HandleErrorsKeeps(E, s) ==
    /\ state' = [q \in Requests |-> IF q \in E THEN "done" ELSE s[q]]
    /\ answer' = [q \in Requests |-> IF q \in E THEN "error" ELSE answer[q]]
    /\ blocks' = blocks \ E
    /\ UNCHANGED active

\* _handle_errors for given requests E, in states s.
HandleErrors(E, s) ==
    /\ state' = [q \in Requests |-> IF q \in E THEN "done" ELSE s[q]]
    /\ answer' = [q \in Requests |-> IF q \in E THEN "error" ELSE answer[q]]
    /\ active' = active \ E
    /\ blocks' = blocks \ E

\* Mutant: the outcome of the future is not looked at.
OutcomeBlind(q) == "complete"

\* The state checkGenTransferStatus gives a request whose future it takes.
Outcome(q) == IF future[q] = "value" THEN "complete" ELSE "error"

AtLeast == IF InState({"in_progress"}) = active THEN 1 ELSE 0

\* _check_disagg_gen_transfer_status looks at the states before the check.
CheckStatus ==
    /\ at = "status"
    /\ IF InState({"in_progress"}) # {}
       THEN at' = "checking" /\ atLeast' = AtLeast
       ELSE at' = "timeout" /\ UNCHANGED atLeast
    /\ UNCHANGED <<active, state, timedOut, canceled, batch, fitted, blocks,
                   answer, receiver, aborted, context>>

\* checkGenTransferStatus(atLeast), then _check_cache_transfer_errors; both
\* for _check_disagg_gen_transfer_status and for _recv_disagg_gen_cache.  With
\* atLeast = 1 and nothing settled it blocks on the oldest future; the request
\* thread settles them oldest first.
CheckGenTransferStatus ==
    LET done == {q \in mRequesterFutures : Settled(q)}
        taken == [q \in Requests |->
                    IF q \in done THEN Outcome(q) ELSE state[q]]
    IN  /\ at \in {"checking", "receiving"}
        /\ atLeast = 1 => done # {}
        /\ mRequesterFutures' = mRequesterFutures \ done
        /\ HandleErrors({q \in active : taken[q] = "error"}, taken)
        /\ at' = IF at = "checking" THEN "timeout" ELSE "batch"
        /\ atLeast' = 0
        /\ UNCHANGED <<timedOut, canceled, batch, fitted, mRequestsQueue, ahead,
                       future, job, step, aborted, context>>

\* _check_kv_transfer_timeout finds the transfers F too slow.
CheckKvTransferTimeout(F) ==
    /\ at = "timeout"
    /\ timedOut' = timedOut \cup F
    /\ at' = "schedule"
    /\ UNCHANGED <<atLeast, active, state, canceled, batch, fitted, blocks,
                   answer, receiver, aborted, context>>

\* _schedule; all requests fit.
Schedule ==
    /\ at = "schedule"
    /\ batch' = InState({"complete", "generating"})
    /\ fitted' = FALSE
    /\ at' = "init"
    /\ UNCHANGED <<atLeast, active, state, timedOut, canceled, blocks, answer,
                   receiver, aborted, context>>

\* Mutant: the request is not queued.
EnqueuedNot(q) == mRequestsQueue

\* The queue of the request thread after receiveAsync.
Enqueued(q) == mRequestsQueue \cup {q}

\* _prepare_disagg_gen_init and requestAndReceiveAsync for one request.
RecvDisaggGenCache(q) ==
    /\ at = "init"
    /\ q \in InState({"init"})
    /\ blocks' = blocks \cup {q}
    /\ mRequestsQueue' = Enqueued(q)
    /\ ahead' = [ahead EXCEPT ![q] = mRequestsQueue]
    /\ mRequesterFutures' = mRequesterFutures \cup {q}
    /\ future' = [future EXCEPT ![q] = "pending"]
    /\ state' = [state EXCEPT ![q] = "in_progress"]
    /\ fitted' = TRUE
    /\ UNCHANGED <<at, atLeast, active, timedOut, canceled, batch, answer, job,
                   step, aborted, context>>

\* The transfers were started, and a status check follows; or, when nothing
\* could be scheduled, the check for errors.
InitDone ==
    /\ at = "init" /\ InState({"init"}) = {}
    /\ IF fitted
       THEN at' = "receiving" /\ atLeast' = AtLeast
       ELSE at' = "batch" /\ UNCHANGED atLeast
    /\ IF ~fitted /\ batch = {}
       THEN HandleErrors(InState({"error"}), state)
       ELSE UNCHANGED <<state, answer, active, blocks>>
    /\ UNCHANGED <<timedOut, canceled, batch, fitted, receiver, aborted, context>>

\* _prepare_disagg_gen_transmission_complete, the forward step and the
\* sampler, after which the requests D are finished; nothing of this, nor
\* the handling of responses, happens for an empty batch.
ForwardStep(D) ==
    /\ at = "batch" /\ batch # {}
    /\ state' = [q \in Requests |-> IF q \in D THEN "done"
                                    ELSE IF q \in batch THEN "generating"
                                    ELSE state[q]]
    /\ at' = "cancel"
    /\ UNCHANGED <<atLeast, active, timedOut, canceled, batch, fitted, blocks,
                   answer, receiver, aborted, context>>

SkipStep ==
    /\ at = "batch" /\ batch = {}
    /\ at' = "fetch"
    /\ UNCHANGED <<atLeast, active, state, timedOut, canceled, batch, fitted,
                   blocks, answer, receiver, aborted, context>>

\* An exception in the forward step: _handle_errors without given requests
\* answers all of active_requests and clears the list.  The loop that should
\* terminate them then runs over that same list, so their blocks stay taken.
ForwardError ==
    /\ at = "batch" /\ batch # {} /\ ForwardFails
    /\ state' = [q \in Requests |-> IF q \in active THEN "done" ELSE state[q]]
    /\ answer' = [q \in Requests |-> IF q \in active THEN "error"
                                     ELSE answer[q]]
    /\ active' = {}
    /\ at' = "cancel"
    /\ aborted' = aborted \cup active
    /\ UNCHANGED <<atLeast, timedOut, canceled, batch, fitted, blocks, receiver,
                   context>>

\* CacheReceiver::cancelRequest succeeds for C: the promises are destroyed.
EraseQueued(C) ==
    /\ mRequestsQueue' = mRequestsQueue \ C
    /\ future' = [q \in Requests |-> IF q \in C THEN "exception" ELSE future[q]]

\* Mutant: a transfer in progress counts as cancelled at once.
TryCancelAlways(q) == TRUE

\* _try_cancel_request.
TryCancelRequest(q) ==
    state[q] # "in_progress" \/ q \in mRequestsQueue

\* _handle_canceled_requests.
HandleCanceledRequests ==
    /\ at = "cancel"
    /\ LET C == {q \in canceled \cap active : TryCancelRequest(q)}
       IN  /\ EraseQueued({q \in C : state[q] = "in_progress"})
           /\ state' = [q \in Requests |-> IF q \in C THEN "done" ELSE state[q]]
           /\ canceled' = (canceled \cap active) \ C
    /\ at' = "respond"
    /\ UNCHANGED <<atLeast, active, timedOut, batch, fitted, blocks, answer,
                   mRequesterFutures, ahead, job, step, aborted, context>>

\* Mutant: a transfer that is still queued is not cancelled.
CutNone(late) == {}

\* The timed-out requests that cancel_request takes off the queue.
Cut(late) == late \cap mRequestsQueue

\* _handle_responses: a timed-out request leaves active_requests, with an
\* error response when its transfer could be cancelled; a finished one is
\* answered and terminated.
HandleResponses ==
    /\ at = "respond"
    /\ LET late == active \cap timedOut
           cut == Cut(late)
           finished == InState({"done"}) \ late
       IN  /\ EraseQueued(cut)
           /\ active' = active \ (late \cup finished)
           /\ state' = [q \in Requests |-> IF q \in cut THEN "done" ELSE state[q]]
           /\ answer' = [q \in Requests |-> IF q \in cut THEN "error"
                                            ELSE IF q \in finished THEN "ok"
                                            ELSE answer[q]]
           /\ blocks' = blocks \ (cut \cup finished)
    /\ at' = "fetch"
    /\ UNCHANGED <<atLeast, timedOut, canceled, batch, fitted,
                   mRequesterFutures, ahead, job, step, aborted, context>>

Executor ==
    \/ FetchNewRequests \/ CheckStatus \/ CheckGenTransferStatus
    \/ Schedule \/ InitDone
    \/ SkipStep \/ ForwardError \/ HandleCanceledRequests \/ HandleResponses
    \/ \E q \in Requests : RecvDisaggGenCache(q)
    \/ \E F \in SUBSET (IF Timeouts THEN InState({"in_progress"}) ELSE {}) :
          CheckKvTransferTimeout(F)
    \/ \E D \in SUBSET batch : ForwardStep(D)

-----------------------------------------------------------------------------
(* The request thread: request() and requestSync.                          *)

\* The front of the queue; a request is queued once in its life.
Front(q) == q \in mRequestsQueue /\ ahead[q] \cap mRequestsQueue = {}

PopRequest ==
    /\ step = "idle"
    /\ \E q \in Requests :
          /\ Front(q)
          /\ job' = q
          /\ mRequestsQueue' = mRequestsQueue \ {q}
    /\ step' = "info"
    /\ UNCHANGED <<executor, state, mRequesterFutures, ahead, future, context>>

SendRequestInfo ==
    /\ step = "info"
    /\ asked' = asked \cup {job}
    /\ step' = "signal"
    /\ UNCHANGED <<executor, state, mRequesterFutures, mRequestsQueue, ahead,
                   future, job, signal, received>>

Refused == signal[job] = "cancelled"

\* receiveReadySignal; a cancelled request is put in the error state.
ReceiveReadySignal ==
    /\ step = "signal" /\ signal[job] # "none"
    /\ step' = IF Refused THEN "set" ELSE "data"
    /\ state' = IF Refused THEN [state EXCEPT ![job] = "error"] ELSE state
    /\ UNCHANGED <<executor, mRequesterFutures, mRequestsQueue, ahead, future,
                   job, context>>

\* receiveSync, once the context server sends the data.
ReceiveSync ==
    /\ step = "data" /\ signal[job] = "ready"
    /\ received' = received \cup {job}
    /\ step' = "set"
    /\ UNCHANGED <<executor, state, mRequesterFutures, mRequestsQueue, ahead,
                   future, job, asked, signal>>

\* Mutant: the finished job is kept.
SetValueKeepsJob ==
    /\ step = "set"
    /\ future' = [future EXCEPT ![job] = "value"]
    /\ step' = "idle"
    /\ UNCHANGED <<executor, state, mRequesterFutures, mRequestsQueue, ahead,
                   job, context>>

SetValue ==
    /\ step = "set"
    /\ future' = [future EXCEPT ![job] = "value"]
    /\ job' = NoRequest /\ step' = "idle"
    /\ UNCHANGED <<executor, state, mRequesterFutures, mRequestsQueue, ahead,
                   context>>

SetException ==
    /\ step \in {"info", "signal", "data"} /\ LinkFails
    /\ future' = [future EXCEPT ![job] = "exception"]
    /\ job' = NoRequest /\ step' = "idle"
    /\ UNCHANGED <<executor, state, mRequesterFutures, mRequestsQueue, ahead,
                   context>>

RequestThread ==
    \/ PopRequest \/ SendRequestInfo \/ ReceiveReadySignal \/ ReceiveSync
    \/ SetValue \/ SetException

\* The context server has the request ready, or has cancelled it.
Answer(q) ==
    /\ q \in asked /\ signal[q] = "none"
    /\ \E s \in {"ready", "cancelled"} : signal' = [signal EXCEPT ![q] = s]
    /\ UNCHANGED <<executor, state, receiver, asked, received>>

Next == Executor \/ RequestThread \/ \E q \in Requests : Answer(q)

(* Both threads run, and the loop may rest while no request is active; the *)
(* context server answers every request info; a request that is scheduled  *)
(* again and again finishes, since its length is bounded.                  *)
Spec ==
    /\ Init /\ [][Next]_vars
    /\ WF_vars(active # {} /\ Executor)
    /\ WF_vars(RequestThread)
    /\ \A q \in Requests :
         /\ WF_vars(Answer(q))
         /\ SF_vars(\E D \in SUBSET batch : q \in D /\ ForwardStep(D))

-----------------------------------------------------------------------------
(* Types; in particular the request thread holds a request exactly while   *)
(* it works on one.                                                        *)
TypeOK ==
    /\ at \in {"fetch", "status", "checking", "timeout", "schedule", "init",
               "receiving", "batch", "cancel", "respond"}
    /\ atLeast \in {0, 1}
    /\ state \in [Requests -> {"new", "init", "in_progress", "complete",
                               "error", "generating", "done"}]
    /\ active \subseteq Requests /\ timedOut \subseteq Requests
    /\ canceled \subseteq Requests /\ batch \subseteq Requests
    /\ blocks \subseteq Requests /\ aborted \subseteq Requests
    /\ asked \subseteq Requests /\ received \subseteq Requests
    /\ fitted \in BOOLEAN
    /\ answer \in [Requests -> {"none", "ok", "error"}]
    /\ mRequesterFutures \subseteq Requests /\ mRequestsQueue \subseteq Requests
    /\ ahead \in [Requests -> SUBSET Requests]
    /\ future \in [Requests -> {"none", "pending", "value", "exception"}]
    /\ job \in Requests \cup {NoRequest}
    /\ step \in {"idle", "info", "signal", "data", "set"}
    /\ (step = "idle") = (job = NoRequest)
    /\ signal \in [Requests -> {"none", "ready", "cancelled"}]

(* The request thread receives only into blocks that the executor has not  *)
(* freed: a transfer that is under way is neither cancelled nor timed out  *)
(* from under it, nor does a failed forward step take its blocks.          *)
ReceiveOnlyIntoOwned ==
    step \in {"info", "signal", "data"} => job \in blocks

(* A request whose transfer failed on the link is answered with an error,  *)
(* never decoded.                                                          *)
FailedNotDecoded ==
    \A q \in active : state[q] \in {"complete", "generating"}
                         => future[q] = "value"

(* An answered request has given its blocks back, unless a failed forward  *)
(* step ended it, and is active no more; its answer never changes.         *)
AnsweredOnce ==
    [][\A q \in Requests : answer[q] # "none" =>
          /\ answer'[q] = answer[q]
          /\ q \notin active'
          /\ q \in blocks' => q \in aborted]_vars

(* While the context server answers, every active request gets its final   *)
(* response, through failing links and forward steps and cancellation,     *)
(* unless its transfer times out.                                          *)
EventuallyAnswered ==
    \A q \in Requests :
        q \in active ~> (answer[q] # "none" \/ q \in timedOut)

(* "Reuse the error state for the cancelled request": a request whose      *)
(* context server has cancelled the transfer is not decoded.               *)
CancelledNotDecoded ==
    \A q \in active : state[q] \in {"complete", "generating"}
                         => q \in received

(* A request that is active no more has been answered and owns no blocks,  *)
(* except one that timed out in the middle of its transfer (_handle_       *)
(* responses drops it though cancel_request has failed) and the blocks of  *)
(* those that a failed forward step ended.                                 *)
LeavesClean ==
    \A q \in Requests : state[q] # "new" /\ q \notin active =>
        \/ answer[q] # "none" /\ (q \in blocks => q \in aborted)
        \/ q \in timedOut /\ q \notin mRequestsQueue
=============================================================================
