---------------------------- MODULE CacheSender ----------------------------
(***************************************************************************)
(* The context side of the KV-cache transfer: CacheSender::Impl of         *)
(* dataTransceiver.cpp with the calls CacheTransceiver makes on it.  Its   *)
(* threads are the executor (sendAsync, cancelRequest, status checks), the *)
(* response thread and the threads that send data.  The generation ranks   *)
(* that ask for the cache are the environment.                             *)
(***************************************************************************)
EXTENDS Integers, Sequences, FiniteSets

CONSTANTS
    Requests,     \* context-only requests
    Peers,        \* generation ranks
    Counterparts, \* those that need a part of the cache of a request
    SendThreads,  \* threads of handleAsyncSend
    LinkFails,    \* whether connections may throw
    None          \* std::nullopt

ASSUME SenderAssumption ==
    /\ IsFiniteSet(Peers)
    /\ Counterparts \in [Requests -> (SUBSET Peers) \ {{}}]
    /\ LinkFails \in BOOLEAN
    /\ None \notin Requests

VARIABLES
    agent,           \* whether mManager is an AgentConnectionManager
    \* shared members of CacheSender::Impl
    mReadyResponses, mCancelledRequests, mCurrentRequest, mAnyReady,
    mTerminate, mSendQueue,
    \* members and locals of the response thread
    pc, info, isReady, mRemainSendCount,
    sending,         \* sending[t]: the response thread t has popped
    session,         \* mRequestToSession: peers whose connection is set
    future,          \* the promise made by sendAsync
    \* the executor thread
    calling,         \* the request whose sendAsync has not set mAnyReady yet
    ctxState,        \* LlmRequest state
    mSenderFutures,  \* requests CacheTransceiver still waits for
    held,            \* requests whose KV blocks the executor still holds
    \* the generation ranks
    asked,           \* pairs that have been sent
    wire,            \* request infos in flight
    signal,          \* the ready signal each peer received
    copied           \* peers that have the data

responder == <<pc, info, isReady, mRemainSendCount>>
executor == <<calling, ctxState, mSenderFutures, held>>
peers == <<asked, wire, signal, copied>>
vars == <<agent, mReadyResponses, mCancelledRequests, mCurrentRequest,
          mAnyReady, mTerminate, mSendQueue, responder, sending, session, future,
          executor, peers>>

Settled(q) == future[q] \in {"value", "exception"}

Init ==
    /\ agent \in BOOLEAN
    /\ mReadyResponses = {} /\ mCancelledRequests = {}
    /\ mCurrentRequest = None
    /\ mAnyReady = FALSE /\ mTerminate = FALSE
    /\ mSendQueue = << >>
    /\ pc = "top" /\ info = None /\ isReady = FALSE
    /\ mRemainSendCount = [q \in Requests |-> 0]
    /\ sending = [t \in SendThreads |-> None]
    /\ session = [q \in Requests |-> {}]
    /\ future = [q \in Requests |-> "none"]
    /\ calling = None
    /\ ctxState = [q \in Requests |-> "computing"]
    /\ mSenderFutures = {}
    /\ held = Requests
    /\ asked = {} /\ wire = {}
    /\ signal = [q \in Requests |-> [p \in Peers |-> "none"]]
    /\ copied = [q \in Requests |-> {}]

-----------------------------------------------------------------------------
(* The executor thread.                                                    *)

\* respondAndSendAsync, up to the insertion of the response by sendAsync.
SendAsync(q) ==
    /\ calling = None /\ ~mTerminate
    /\ ctxState[q] = "computing"
    /\ ctxState' = [ctxState EXCEPT ![q] = "trans"]
    /\ mReadyResponses' = mReadyResponses \cup {q}
    /\ future' = [future EXCEPT ![q] = "pending"]
    /\ calling' = q
    /\ UNCHANGED <<agent, mCancelledRequests, mCurrentRequest, mAnyReady,
                   mTerminate, mSendQueue, responder, sending, session,
                   mSenderFutures, held, peers>>

\* The rest of sendAsync, under mCondMutex, and the record of the future.
SendAsyncNotify ==
    /\ calling # None
    /\ mAnyReady' = TRUE
    /\ mSenderFutures' = mSenderFutures \cup {calling}
    /\ calling' = None
    /\ UNCHANGED <<agent, mReadyResponses, mCancelledRequests, mCurrentRequest,
                   mTerminate, mSendQueue, responder, sending, session, future,
                   ctxState, held, peers>>

\* Mutant: the request being answered may be cancelled too.
CancellableAlways(q) == q \in mReadyResponses

\* cancelRequest returns true.
Cancellable(q) == q \in mReadyResponses /\ mCurrentRequest # q

\* The executor gives up on a transfer (timeout, or cancelled by the user):
\* when cancelRequest succeeds it frees the blocks, otherwise it retries.
CancelRequest(q) ==
    /\ calling = None /\ ~mTerminate
    /\ q \in held /\ ctxState[q] \in {"trans", "error"}
    /\ Cancellable(q)
    /\ mCancelledRequests' = mCancelledRequests \cup {q}
    /\ ctxState' = [ctxState EXCEPT ![q] = "complete"]
    /\ held' = held \ {q}
    /\ UNCHANGED <<agent, mReadyResponses, mCurrentRequest, mAnyReady,
                   mTerminate, mSendQueue, responder, sending, session, future,
                   calling, mSenderFutures, peers>>

\* checkContextTransferStatus takes the settled future of a request that
\* every rank reports and sets the state; a future that is not settled makes
\* the wait time out and is left for the next call.
CheckContextTransferStatus(q) ==
    /\ calling = None /\ ~mTerminate
    /\ q \in mSenderFutures /\ Settled(q)
    /\ ctxState' = [ctxState EXCEPT ![q] =
                      IF future[q] = "value" THEN "complete" ELSE "error"]
    /\ mSenderFutures' = mSenderFutures \ {q}
    /\ UNCHANGED <<agent, mReadyResponses, mCancelledRequests, mCurrentRequest,
                   mAnyReady, mTerminate, mSendQueue, responder, sending,
                   session, future, calling, held, peers>>

\* _terminate_disagg_ctx_finished_requests frees the blocks of a request
\* whose transfer is complete.
TerminateFinished(q) ==
    /\ calling = None /\ ~mTerminate
    /\ q \in held /\ ctxState[q] = "complete"
    /\ held' = held \ {q}
    /\ UNCHANGED <<agent, mReadyResponses, mCancelledRequests, mCurrentRequest,
                   mAnyReady, mTerminate, mSendQueue, responder, sending,
                   session, future, calling, ctxState, mSenderFutures, peers>>

\* terminate, called by the destructor.
Terminate ==
    /\ calling = None /\ ~mTerminate
    /\ mTerminate' = TRUE
    /\ UNCHANGED <<agent, mReadyResponses, mCancelledRequests, mCurrentRequest,
                   mAnyReady, mSendQueue, responder, sending, session, future,
                   executor, peers>>

-----------------------------------------------------------------------------
(* The response thread.                                                    *)

\* The loop waits for mAnyReady or mTerminate; mTerminate ends it.
ResponseTop ==
    /\ pc = "top" /\ ~mTerminate /\ mAnyReady
    /\ mReadyResponses # {}
    /\ pc' = "recv"
    /\ UNCHANGED <<agent, mReadyResponses, mCancelledRequests, mCurrentRequest,
                   mAnyReady, mTerminate, mSendQueue, info, isReady,
                   mRemainSendCount, sending, session, future, executor,
                   peers>>

\* The handler of response(): an exception ends the thread and goes to the
\* promises that are left.  With no response left mCurrentRequest.value()
\* throws; connections throw while receiving an info or sending a signal.
ResponseThrows ==
    /\ \/ pc = "top" /\ ~mTerminate /\ mAnyReady /\ mReadyResponses = {}
       \/ pc \in {"recv", "signal"} /\ LinkFails
    /\ pc' = "exit"
    /\ future' = [q \in Requests |->
                     IF q \in mReadyResponses THEN "exception" ELSE future[q]]
    /\ UNCHANGED <<agent, mReadyResponses, mCancelledRequests, mCurrentRequest,
                   mAnyReady, mTerminate, mSendQueue, info, isReady,
                   mRemainSendCount, sending, session, executor, peers>>

\* The places where the thread notices mTerminate and returns.
ResponseExit ==
    /\ pc \in {"top", "recv", "current"} /\ mTerminate
    /\ pc' = "exit"
    /\ UNCHANGED <<agent, mReadyResponses, mCancelledRequests, mCurrentRequest,
                   mAnyReady, mTerminate, mSendQueue, info, isReady,
                   mRemainSendCount, sending, session, future, executor,
                   peers>>

\* recvRequestInfo: any peer's info, for any request.
RecvRequestInfo ==
    /\ pc = "recv" /\ ~mTerminate
    /\ \E q \in Requests, p \in Peers :
          /\ <<q, p>> \in wire
          /\ wire' = wire \ {<<q, p>>}
          /\ session' = [session EXCEPT ![q] = @ \cup {p}]
          /\ info' = q
    /\ pc' = "current"
    /\ UNCHANGED <<agent, mReadyResponses, mCancelledRequests, mCurrentRequest,
                   mAnyReady, mTerminate, mSendQueue, isReady,
                   mRemainSendCount, sending, future, executor, asked, signal,
                   copied>>

\* Mutant: one counterpart fewer is waited for.
CountFewer(q) == IF mRemainSendCount[q] = 0
                 THEN Cardinality(Counterparts[q]) - 1
                 ELSE mRemainSendCount[q]

\* Peers still to ask for q, getCounterpartsCount of them at the first.
Count(q) == IF mRemainSendCount[q] = 0
            THEN Cardinality(Counterparts[q]) ELSE mRemainSendCount[q]

\* Mutant: the count of a new request is not initialised.
SetCurrentUncounted ==
    /\ pc = "current"
    /\ mCurrentRequest' = info
    /\ pc' = "lookup"
    /\ UNCHANGED <<agent, mReadyResponses, mCancelledRequests, mAnyReady,
                   mTerminate, mSendQueue, info, isReady, mRemainSendCount,
                   sending, session, future, executor, peers>>

SetCurrent ==
    /\ pc = "current"
    /\ mCurrentRequest' = info
    /\ mRemainSendCount' = [mRemainSendCount EXCEPT ![info] = Count(info)]
    /\ pc' = "lookup"
    /\ UNCHANGED <<agent, mReadyResponses, mCancelledRequests, mAnyReady,
                   mTerminate, mSendQueue, info, isReady, sending, session,
                   future, executor, peers>>

\* getCurrentResponse; when the request is not there yet the thread waits.
Lookup ==
    /\ pc = "lookup"
    /\ pc' = IF mCurrentRequest \in mReadyResponses THEN "respond" ELSE "await"
    /\ UNCHANGED <<agent, mReadyResponses, mCancelledRequests, mCurrentRequest,
                   mAnyReady, mTerminate, mSendQueue, info, isReady,
                   mRemainSendCount, sending, session, future, executor,
                   peers>>

\* The wait also ends at mTerminate, with the response still missing.
Await ==
    /\ pc = "await"
    /\ mTerminate \/ (mAnyReady /\ mCurrentRequest \in mReadyResponses)
    /\ pc' = "respond"
    /\ UNCHANGED <<agent, mReadyResponses, mCancelledRequests, mCurrentRequest,
                   mAnyReady, mTerminate, mSendQueue, info, isReady,
                   mRemainSendCount, sending, session, future, executor,
                   peers>>

\* sendResponse: not the last counterpart.
RespondEarlier ==
    /\ pc = "respond" /\ mRemainSendCount[mCurrentRequest] > 1
    /\ mRemainSendCount' = [mRemainSendCount EXCEPT ![mCurrentRequest] = @ - 1]
    /\ mCurrentRequest' = None
    /\ pc' = "top"
    /\ UNCHANGED <<agent, mReadyResponses, mCancelledRequests, mAnyReady,
                   mTerminate, mSendQueue, info, isReady, sending, session,
                   future, executor, peers>>

\* Mutant: a cancelled request is promised all the same.
RespondLastUnasked ==
    /\ pc = "respond" /\ mRemainSendCount[mCurrentRequest] <= 1
    /\ mRemainSendCount' = [mRemainSendCount EXCEPT ![mCurrentRequest] = @ - 1]
    /\ isReady' = TRUE
    /\ pc' = "signal"
    /\ UNCHANGED <<agent, mReadyResponses, mCancelledRequests, mCurrentRequest,
                   mAnyReady, mTerminate, mSendQueue, info, sending, session,
                   future, executor, peers>>

\* sendResponse: the last counterpart; is the request cancelled?
RespondLast ==
    /\ pc = "respond" /\ mRemainSendCount[mCurrentRequest] <= 1
    /\ mRemainSendCount' = [mRemainSendCount EXCEPT ![mCurrentRequest] = @ - 1]
    /\ isReady' = (mCurrentRequest \notin mCancelledRequests)
    /\ pc' = "signal"
    /\ UNCHANGED <<agent, mReadyResponses, mCancelledRequests, mCurrentRequest,
                   mAnyReady, mTerminate, mSendQueue, info, sending, session,
                   future, executor, peers>>

\* sendReadySignal, one connection at a time; the thread may throw in between.
SendReadySignal ==
    /\ pc = "signal"
    /\ \E p \in Peers :
          /\ p \in session[mCurrentRequest] /\ signal[mCurrentRequest][p] = "none"
          /\ signal' = [signal EXCEPT ![mCurrentRequest] =
                          [@ EXCEPT ![p] =
                             IF isReady THEN "ready" ELSE "cancelled"]]
    /\ UNCHANGED <<agent, mReadyResponses, mCancelledRequests, mCurrentRequest,
                   mAnyReady, mTerminate, mSendQueue, responder, sending,
                   session, future, executor, asked, wire, copied>>

\* Every connection has its signal.
SignalsSent ==
    /\ pc = "signal"
    /\ \A p \in session[mCurrentRequest] : signal[mCurrentRequest][p] # "none"
    /\ pc' = IF isReady THEN "send" ELSE "drop"
    /\ UNCHANGED <<agent, mReadyResponses, mCancelledRequests, mCurrentRequest,
                   mAnyReady, mTerminate, mSendQueue, info, isReady,
                   mRemainSendCount, sending, session, future, executor, peers>>

\* sendSync: format sends over the connections one by one or some of them at
\* a time.
SendSync(q) ==
    /\ \E p \in Peers :
          /\ p \in session[q] \ copied[q]
          /\ copied' = [copied EXCEPT ![q] = @ \cup {p}]
    /\ UNCHANGED <<session, future>>

\* The rest of sendAndRemoveResponse: release and set_value once every
\* connection has the data, or an exception, after any number of them.
SendEnds(q) ==
    /\ \/ /\ session[q] \subseteq copied[q]
          /\ session' = [session EXCEPT ![q] = {}]
          /\ future' = [future EXCEPT ![q] = "value"]
       \/ /\ LinkFails
          /\ future' = [future EXCEPT ![q] = "exception"]
          /\ UNCHANGED session
    /\ UNCHANGED copied

\* The agent sends in this thread, before the response is removed.
SendHere ==
    /\ pc = "send" /\ agent /\ mCurrentRequest \in mReadyResponses
    /\ \/ SendSync(mCurrentRequest) /\ UNCHANGED pc
       \/ SendEnds(mCurrentRequest) /\ pc' = "erase"
    /\ UNCHANGED <<agent, mReadyResponses, mCancelledRequests, mCurrentRequest,
                   mAnyReady, mTerminate, mSendQueue, info, isReady,
                   mRemainSendCount, sending, executor, asked, wire, signal>>

\* Other connections hand the response to a sending thread.
SendLater ==
    /\ pc = "send" /\ ~agent /\ mCurrentRequest \in mReadyResponses
    /\ mSendQueue' = Append(mSendQueue, mCurrentRequest)
    /\ pc' = "erase"
    /\ UNCHANGED <<agent, mReadyResponses, mCancelledRequests, mCurrentRequest,
                   mAnyReady, mTerminate, info, isReady, mRemainSendCount,
                   sending, session, future, executor, peers>>

\* Sending the missing response that Await gave up on at shutdown reads
\* through mReadyResponses.end(), which is undefined: the thread is lost.
SendUndefined ==
    /\ pc = "send" /\ mCurrentRequest \notin mReadyResponses
    /\ pc' = "exit"
    /\ UNCHANGED <<agent, mReadyResponses, mCancelledRequests, mCurrentRequest,
                   mAnyReady, mTerminate, mSendQueue, info, isReady,
                   mRemainSendCount, sending, session, future, executor,
                   peers>>

\* removeResponse, under mSenderMutex.
RemoveResponse ==
    /\ pc = "erase"
    /\ mReadyResponses' = mReadyResponses \ {mCurrentRequest}
    /\ pc' = "check"
    /\ UNCHANGED <<agent, mCancelledRequests, mCurrentRequest, mAnyReady,
                   mTerminate, mSendQueue, info, isReady, mRemainSendCount,
                   sending, session, future, executor, peers>>

\* Mutant: the cancelled response is kept alive elsewhere.
BrokenPromiseKept(q) == future

\* A promise destroyed before it is set leaves an exception in its future.
BrokenPromise(q) == [future EXCEPT ![q] = "exception"]

\* A cancelled request is erased, its promise with it.
DropCancelled ==
    /\ pc = "drop"
    /\ mReadyResponses' = mReadyResponses \ {mCurrentRequest}
    /\ mCancelledRequests' = mCancelledRequests \ {mCurrentRequest}
    /\ future' = BrokenPromise(mCurrentRequest)
    /\ mCurrentRequest' = None
    /\ pc' = "check"
    /\ UNCHANGED <<agent, mAnyReady, mTerminate, mSendQueue, info, isReady,
                   mRemainSendCount, sending, session, executor, peers>>

\* mReadyResponses.empty(), read without mSenderMutex.
CheckEmpty ==
    /\ pc = "check"
    /\ IF mReadyResponses = {}
       THEN pc' = "clear" /\ UNCHANGED mCurrentRequest
       ELSE pc' = "top" /\ mCurrentRequest' = None
    /\ UNCHANGED <<agent, mReadyResponses, mCancelledRequests, mAnyReady,
                   mTerminate, mSendQueue, info, isReady, mRemainSendCount,
                   sending, session, future, executor, peers>>

ClearAnyReady ==
    /\ pc = "clear"
    /\ mAnyReady' = FALSE
    /\ mCurrentRequest' = None
    /\ pc' = "top"
    /\ UNCHANGED <<agent, mReadyResponses, mCancelledRequests, mTerminate,
                   mSendQueue, info, isReady, mRemainSendCount, sending,
                   session, future, executor, peers>>

Response ==
    \/ ResponseTop \/ ResponseThrows \/ ResponseExit \/ RecvRequestInfo
    \/ SetCurrent \/ Lookup \/ Await \/ RespondEarlier \/ RespondLast
    \/ SendReadySignal \/ SignalsSent \/ SendHere \/ SendLater \/ SendUndefined
    \/ RemoveResponse \/ DropCancelled \/ CheckEmpty \/ ClearAnyReady

-----------------------------------------------------------------------------
(* handleAsyncSend in thread t.                                            *)
PopResponse(t) ==
    /\ sending[t] = None /\ ~mTerminate
    /\ mSendQueue # << >>
    /\ sending' = [sending EXCEPT ![t] = Head(mSendQueue)]
    /\ mSendQueue' = Tail(mSendQueue)
    /\ UNCHANGED <<agent, mReadyResponses, mCancelledRequests, mCurrentRequest,
                   mAnyReady, mTerminate, responder, session, future, executor,
                   peers>>

SendAndRemoveResponse(t) ==
    /\ sending[t] # None
    /\ \/ SendSync(sending[t]) /\ UNCHANGED sending
       \/ SendEnds(sending[t]) /\ sending' = [sending EXCEPT ![t] = None]
    /\ UNCHANGED <<agent, mReadyResponses, mCancelledRequests, mCurrentRequest,
                   mAnyReady, mTerminate, mSendQueue, responder, executor,
                   asked, wire, signal>>

HandleAsyncSend(t) == PopResponse(t) \/ SendAndRemoveResponse(t)

-----------------------------------------------------------------------------
(* A generation rank asks for a request.  It may do so before this rank    *)
(* calls sendAsync, since another context rank may have answered the       *)
(* client already.                                                         *)
Ask(q, p) ==
    /\ p \in Counterparts[q] /\ <<q, p>> \notin asked
    /\ asked' = asked \cup {<<q, p>>}
    /\ wire' = wire \cup {<<q, p>>}
    /\ UNCHANGED <<agent, mReadyResponses, mCancelledRequests, mCurrentRequest,
                   mAnyReady, mTerminate, mSendQueue, responder, sending,
                   session, future, executor, signal, copied>>

Next ==
    \/ \E q \in Requests : \/ SendAsync(q) \/ CancelRequest(q)
                           \/ CheckContextTransferStatus(q)
                           \/ TerminateFinished(q)
                           \/ \E p \in Peers : Ask(q, p)
    \/ SendAsyncNotify \/ Terminate
    \/ Response
    \/ \E t \in SendThreads : HandleAsyncSend(t)

(* Every thread that can move does.  The executor calls sendAsync for each *)
(* request it computes; nothing obliges it to cancel or to terminate.      *)
Spec ==
    /\ Init /\ [][Next]_vars
    /\ WF_vars(Response)
    /\ \A t \in SendThreads : WF_vars(HandleAsyncSend(t))
    /\ \A q \in Requests : WF_vars(SendAsync(q))
    /\ WF_vars(SendAsyncNotify)

-----------------------------------------------------------------------------
(* Types; in particular the countdown mRemainSendCount never falls below 0 *)
(* or exceeds the number of generation ranks.                              *)
TypeOK ==
    /\ agent \in BOOLEAN
    /\ mReadyResponses \subseteq Requests
    /\ mCancelledRequests \subseteq Requests
    /\ mCurrentRequest \in Requests \cup {None}
    /\ mAnyReady \in BOOLEAN /\ mTerminate \in BOOLEAN
    /\ mSendQueue \in Seq(Requests)
    /\ pc \in {"top", "recv", "current", "lookup", "await", "respond",
               "signal", "send", "erase", "drop", "check", "clear", "exit"}
    /\ info \in Requests \cup {None} /\ isReady \in BOOLEAN
    /\ mRemainSendCount \in [Requests -> 0 .. Cardinality(Peers)]
    /\ sending \in [SendThreads -> Requests \cup {None}]
    /\ session \in [Requests -> SUBSET Peers]
    /\ future \in [Requests -> {"none", "pending", "value", "exception"}]
    /\ calling \in Requests \cup {None}
    /\ ctxState \in [Requests -> {"computing", "trans", "complete", "error"}]
    /\ mSenderFutures \subseteq Requests
    /\ held \subseteq Requests
    /\ asked \subseteq Requests \X Peers /\ wire \subseteq asked
    /\ signal \in [Requests -> [Peers -> {"none", "ready", "cancelled"}]]
    /\ copied \in [Requests -> SUBSET Peers]

\* The requests whose blocks a thread is about to read or reading.
InTransfer ==
    {q \in Requests : \/ /\ pc = "send" /\ mCurrentRequest = q
                         /\ q \in mReadyResponses
                      \/ \E i \in 1 .. Len(mSendQueue) : mSendQueue[i] = q
                      \/ \E t \in SendThreads : sending[t] = q}

(* The executor frees the KV blocks of a request (after a successful       *)
(* cancelRequest or a completed transfer) only when no thread of the       *)
(* sender will read them any more.                                         *)
ReadOnlyWhileHeld == InTransfer \subseteq held

(* When a request is signalled or sent, every counterpart has connected:   *)
(* sendReadySignal and format find no null connection in the session.      *)
FullSession ==
    /\ pc \in {"signal", "send"} => session[mCurrentRequest]
                                    = Counterparts[mCurrentRequest]
    /\ \A q \in InTransfer : session[q] = Counterparts[q]

Handover ==
    INSTANCE CacheHandover
    WITH owned <- held, result <- future, verdict <- signal,
         delivered <- copied, closed <- mTerminate

(* The threads implement what the interface promises of each request:      *)
(* whatever the order of sendAsync, cancelRequest, infos, sends, failures  *)
(* and shutdown, no two of its counterparts get different answers (one of  *)
(* them may get none, when the response thread throws between two          *)
(* signals), data is sent only once all of them were promised it, while    *)
(* its blocks are held and its future is pending, the future gets its      *)
(* value only when all have the data, and a cancelled request is refused,  *)
(* never promised.                                                         *)
ImplementsHandover == Handover!Spec

(* A request that the peers got an answer for is settled: its future       *)
(* becomes ready unless the server shuts down.                             *)
AnsweredIsSettled ==
    \A q \in Requests :
        (\E p \in Peers : signal[q][p] # "none") ~> (Settled(q) \/ mTerminate)

(* "Once the data is fully sent, the future object will become valid": a   *)
(* request given to sendAsync that every counterpart has asked for does    *)
(* not stay unanswered, unless it is cancelled.                            *)
AskedIsSettled ==
    \A q \in Requests :
        (future[q] = "pending" /\ \A p \in Counterparts[q] : <<q, p>> \in asked)
            ~> (Settled(q) \/ q \in mCancelledRequests \/ mTerminate)
=============================================================================
