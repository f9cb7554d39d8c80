------------------------- MODULE GenExecutorProofs -------------------------
(* Proofs about GenExecutor, for any set of requests and any failures.     *)
EXTENDS GenExecutor, TLAPS

\* The request thread is still to receive into the blocks of q.
Receiving(q) ==
    \/ q \in mRequestsQueue
    \/ q = job /\ step \in {"info", "signal", "data"}

\* What the state of a request says about its future.
FutureInv ==
    \A q \in Requests :
        /\ state[q] \in {"new", "init"} =>
              future[q] = "none" /\ q \notin mRequesterFutures
        /\ state[q] \in {"complete", "generating"} =>
              future[q] = "value" /\ q \notin mRequesterFutures
        /\ state[q] = "new" => q \notin active

\* The promise of a request that is queued or worked on is unsettled, and its
\* blocks are owned; it is in progress unless a failed forward step ended it.
TransferInv ==
    \A q \in Requests :
        /\ q \in mRequestsQueue => q # job
        /\ q \in mRequestsQueue \/ q = job => future[q] = "pending"
        /\ Receiving(q) =>
              q \in blocks /\ (q \in aborted \/ state[q] = "in_progress")

\* Until the forward step, the batch consists of requests to be decoded.
BatchInv ==
    at \in {"init", "receiving", "batch"} =>
        \A q \in batch : state[q] \in {"complete", "generating"}

\* An answered request is out of the loop, and owns blocks only after a failed
\* forward step; such a step answers.
AnswerInv ==
    \A q \in Requests :
        /\ answer[q] # "none" =>
              /\ state[q] # "new" /\ q \notin active
              /\ q \in blocks => q \in aborted
        /\ q \in aborted => answer[q] # "none"

GenInv ==
    TypeOK /\ FutureInv /\ TransferInv /\ BatchInv /\ AnswerInv /\ LeavesClean

-----------------------------------------------------------------------------
\* The variables that a status check leaves alone.
Aside == <<timedOut, batch, mRequestsQueue, ahead, future, job, step, aborted,
           canceled, fitted, context>>

\* What _handle_errors and the status check change is well typed.
TouchedOK ==
    /\ active \subseteq Requests /\ blocks \subseteq Requests
    /\ mRequesterFutures \subseteq Requests
    /\ state \in [Requests -> {"new", "init", "in_progress", "complete",
                               "error", "generating", "done"}]
    /\ answer \in [Requests -> {"none", "ok", "error"}]

\* _handle_errors for requests that the request thread will not write for,
\* with states s that agree with their futures.
LEMMA ErrorsHandled ==
    ASSUME GenInv, NEW E \in SUBSET active,
           NEW s \in [Requests -> {"new", "init", "in_progress", "complete",
                                  "error", "generating", "done"}],
           HandleErrors(E, s), UNCHANGED Aside,
           mRequesterFutures' \subseteq mRequesterFutures,
           \A q \in E : ~Receiving(q),
           \A q \in Requests :
             \/ s[q] = state[q]
             \/ /\ future[q] \in {"value", "exception"}
                /\ q \notin mRequesterFutures'
                /\ state[q] \notin {"new", "init", "complete", "generating"}
                /\ s[q] \in {"complete", "error"}
                /\ s[q] = "complete" => future[q] = "value"
    PROVE  /\ TouchedOK'
           /\ FutureInv' /\ TransferInv' /\ AnswerInv' /\ LeavesClean'
PROOF
<1> USE DEF GenInv, HandleErrors, Aside, context
<1>1. TouchedOK'
  BY DEF TypeOK, TouchedOK
<1>2. FutureInv'
  BY DEF TypeOK, FutureInv
<1>3. TransferInv'
  BY DEF TypeOK, TransferInv, Receiving
<1>4. AnswerInv'
  BY DEF TypeOK, AnswerInv, FutureInv
<1>5. LeavesClean'
  BY DEF TypeOK, LeavesClean, FutureInv
<1>6. QED
  BY <1>1, <1>2, <1>3, <1>4, <1>5

\* The status check: the futures it takes belong to no request in transfer.
LEMMA StatusChecked ==
    ASSUME GenInv, CheckGenTransferStatus
    PROVE  /\ TouchedOK'
           /\ FutureInv' /\ TransferInv' /\ AnswerInv' /\ LeavesClean'
           /\ \A q \in Requests :
                 state[q] \in {"complete", "generating"} =>
                    state'[q] = state[q]
PROOF
<1> DEFINE done == {q \in mRequesterFutures : Settled(q)}
           taken == [q \in Requests |->
                       IF q \in done THEN Outcome(q) ELSE state[q]]
           E == {q \in active : taken[q] = "error"}
<1>1. taken \in [Requests -> {"new", "init", "in_progress", "complete",
                             "error", "generating", "done"}]
  BY DEF GenInv, TypeOK, Outcome
<1>2. /\ HandleErrors(E, taken)
      /\ mRequesterFutures' = mRequesterFutures \ done
  BY DEF CheckGenTransferStatus
<1>3. \A q \in Requests :
        \/ taken[q] = state[q]
        \/ /\ future[q] \in {"value", "exception"}
           /\ q \notin mRequesterFutures'
           /\ state[q] \notin {"new", "init", "complete", "generating"}
           /\ taken[q] \in {"complete", "error"}
           /\ taken[q] = "complete" => future[q] = "value"
  BY <1>2 DEF GenInv, TypeOK, FutureInv, Outcome, Settled
<1>4. \A q \in E : ~Receiving(q)
  BY <1>3 DEF GenInv, TypeOK, TransferInv, Receiving, AnswerInv
<1>5. /\ TouchedOK'
      /\ FutureInv' /\ TransferInv' /\ AnswerInv' /\ LeavesClean'
  <2>1. UNCHANGED Aside
    BY DEF CheckGenTransferStatus, Aside
  <2> HIDE DEF E, taken
  <2>2. E \in SUBSET active
    BY DEF E
  <2> QED
    BY <1>1, <1>2, <1>3, <1>4, <2>1, <2>2, ErrorsHandled
<1>6. \A q \in Requests :
         state[q] \in {"complete", "generating"} => state'[q] = state[q]
  BY <1>2, <1>3 DEF HandleErrors
<1>7. QED
  BY <1>5, <1>6

-----------------------------------------------------------------------------
(* The executor.                                                           *)

\* New requests have no future yet; they become active.
LEMMA FetchStep == GenInv /\ FetchNewRequests => GenInv'
PROOF
<1> SUFFICES ASSUME GenInv, FetchNewRequests PROVE GenInv'
  OBVIOUS
<1> USE DEF GenInv, FetchNewRequests, receiver, context
<1>1. TypeOK'
  BY DEF TypeOK
<1>2. FutureInv'
  BY DEF TypeOK, FutureInv
<1>3. TransferInv'
  BY DEF TypeOK, TransferInv, Receiving
<1>4. BatchInv'
  BY DEF BatchInv
<1>5. AnswerInv'
  BY DEF TypeOK, AnswerInv
<1>6. LeavesClean'
  BY DEF TypeOK, LeavesClean
<1>7. QED
  BY <1>1, <1>2, <1>3, <1>4, <1>5, <1>6

\* Whether to check the transfers, and for how many to wait.
LEMMA CheckStatusStep ==
    ASSUME GenInv, CheckStatus PROVE GenInv'
PROOF
<1> USE DEF GenInv, CheckStatus, AtLeast, receiver, context
<1>1. TypeOK'
  BY DEF TypeOK
<1>2. FutureInv'
  BY DEF TypeOK, FutureInv
<1>3. TransferInv'
  BY DEF TypeOK, TransferInv, Receiving
<1>4. BatchInv'
  BY DEF TypeOK, BatchInv
<1>5. AnswerInv'
  BY DEF TypeOK, AnswerInv
<1>6. LeavesClean'
  BY DEF TypeOK, LeavesClean
<1>7. QED
  BY <1>1, <1>2, <1>3, <1>4, <1>5, <1>6

\* A status check changes neither the batch nor the states in it.
LEMMA CheckTransferStep ==
    ASSUME GenInv, CheckGenTransferStatus PROVE GenInv'
PROOF
<1>1. /\ TouchedOK'
      /\ FutureInv' /\ TransferInv' /\ AnswerInv' /\ LeavesClean'
      /\ \A q \in Requests : state[q] \in {"complete", "generating"} =>
                             state'[q] = state[q]
  BY StatusChecked
<1>2. TypeOK'
  BY <1>1 DEF CheckGenTransferStatus, context, GenInv, TypeOK, TouchedOK
<1>3. BatchInv'
  BY <1>1 DEF CheckGenTransferStatus, GenInv, TypeOK, BatchInv
<1>4. QED
  BY <1>1, <1>2, <1>3 DEF GenInv

\* Finding a transfer too slow only marks it.
LEMMA TimeoutStep ==
    ASSUME GenInv, NEW F \in SUBSET Requests, CheckKvTransferTimeout(F) PROVE GenInv'
PROOF
<1> USE DEF GenInv, CheckKvTransferTimeout, receiver, context
<1>1. TypeOK'
  BY DEF TypeOK
<1>2. FutureInv'
  BY DEF TypeOK, FutureInv
<1>3. TransferInv'
  BY DEF TypeOK, TransferInv, Receiving
<1>4. BatchInv'
  BY DEF TypeOK, BatchInv
<1>5. AnswerInv'
  BY DEF TypeOK, AnswerInv
<1>6. LeavesClean'
  BY DEF TypeOK, LeavesClean
<1>7. QED
  BY <1>1, <1>2, <1>3, <1>4, <1>5, <1>6

\* The new batch holds requests to be decoded.
LEMMA ScheduleStep ==
    ASSUME GenInv, Schedule PROVE GenInv'
PROOF
<1> USE DEF GenInv, Schedule, InState, receiver, context
<1>1. TypeOK'
  BY ZenonT(60) DEF TypeOK
<1>2. FutureInv'
  BY DEF TypeOK, FutureInv
<1>3. TransferInv'
  BY DEF TypeOK, TransferInv, Receiving
<1>4. BatchInv'
  BY DEF TypeOK, BatchInv
<1>5. AnswerInv'
  BY DEF TypeOK, AnswerInv
<1>6. LeavesClean'
  BY DEF TypeOK, LeavesClean
<1>7. QED
  BY <1>1, <1>2, <1>3, <1>4, <1>5, <1>6

\* A transfer starts with new blocks and a promise that is unsettled.
LEMMA RecvStep ==
    ASSUME GenInv, NEW q \in Requests, RecvDisaggGenCache(q) PROVE GenInv'
PROOF
<1> USE DEF GenInv, RecvDisaggGenCache, Enqueued, InState, context
<1>1. TypeOK'
  BY DEF TypeOK
<1>2. FutureInv'
  BY DEF TypeOK, FutureInv, BatchInv
<1>3. TransferInv'
  BY DEF TypeOK, TransferInv, Receiving, FutureInv, AnswerInv
<1>4. BatchInv'
  BY DEF TypeOK, BatchInv
<1>5. AnswerInv'
  BY DEF TypeOK, AnswerInv
<1>6. LeavesClean'
  BY DEF TypeOK, LeavesClean
<1>7. QED
  BY <1>1, <1>2, <1>3, <1>4, <1>5, <1>6

\* Requests in error are failed when there is nothing to schedule.
LEMMA InitDoneStep ==
    ASSUME GenInv, InitDone PROVE GenInv'
PROOF
<1>1. UNCHANGED Aside /\ mRequesterFutures' = mRequesterFutures
  BY DEF InitDone, Aside, receiver
<1>2. /\ TouchedOK'
      /\ FutureInv' /\ TransferInv' /\ AnswerInv' /\ LeavesClean'
  <2>1. CASE ~fitted /\ batch = {}
    <3>1. \A q \in InState({"error"}) : ~Receiving(q)
      BY DEF GenInv, TypeOK, TransferInv, AnswerInv, InState
    <3>2. HandleErrors(InState({"error"}), state)
      BY <2>1 DEF InitDone
    <3>3. /\ InState({"error"}) \in SUBSET active
          /\ state \in [Requests -> {"new", "init", "in_progress", "complete",
                                     "error", "generating", "done"}]
      BY DEF InState, GenInv, TypeOK
    <3>4. QED
      BY <3>1, <3>2, <3>3, <1>1, ErrorsHandled
  <2>2. CASE ~(~fitted /\ batch = {})
    BY <2>2, <1>1 DEF InitDone, Aside, GenInv, TypeOK, TouchedOK, FutureInv,
       TransferInv, Receiving, AnswerInv, LeavesClean
  <2>3. QED
    BY <2>1, <2>2
<1>3. TypeOK'
  BY <1>1, <1>2 DEF InitDone, AtLeast, Aside, receiver, context, GenInv, TypeOK,
     TouchedOK
<1>4. BatchInv'
  BY <1>1 DEF InitDone, Aside, GenInv, TypeOK, BatchInv
<1>5. QED
  BY <1>2, <1>3, <1>4 DEF GenInv

\* Decoding touches only the batch, whose transfers are over.
LEMMA BatchStep ==
    ASSUME GenInv, NEW D \in SUBSET batch, ForwardStep(D) PROVE GenInv'
PROOF
<1> USE DEF GenInv, ForwardStep, receiver, context
<1>1. TypeOK'
  BY DEF TypeOK
<1>2. FutureInv'
  BY DEF TypeOK, FutureInv, BatchInv
<1>3. TransferInv'
  BY DEF TypeOK, TransferInv, Receiving, FutureInv, BatchInv
<1>4. BatchInv'
  BY DEF TypeOK, BatchInv
<1>5. AnswerInv'
  BY DEF TypeOK, AnswerInv, BatchInv
<1>6. LeavesClean'
  BY DEF TypeOK, LeavesClean, BatchInv
<1>7. QED
  BY <1>1, <1>2, <1>3, <1>4, <1>5, <1>6

\* Nothing happens for an empty batch.
LEMMA SkippedStep ==
    ASSUME GenInv, SkipStep PROVE GenInv'
PROOF
<1> USE DEF GenInv, SkipStep, receiver, context
<1>1. TypeOK'
  BY DEF TypeOK
<1>2. FutureInv'
  BY DEF TypeOK, FutureInv
<1>3. TransferInv'
  BY DEF TypeOK, TransferInv, Receiving
<1>4. BatchInv'
  BY DEF TypeOK, BatchInv
<1>5. AnswerInv'
  BY DEF TypeOK, AnswerInv
<1>6. LeavesClean'
  BY DEF TypeOK, LeavesClean
<1>7. QED
  BY <1>1, <1>2, <1>3, <1>4, <1>5, <1>6

\* A failed forward step answers everything active and frees nothing.
LEMMA ForwardErrorStep ==
    ASSUME GenInv, ForwardError PROVE GenInv'
PROOF
<1> USE DEF GenInv, ForwardError, receiver, context
<1>1. TypeOK'
  BY DEF TypeOK
<1>2. FutureInv'
  BY DEF TypeOK, FutureInv
<1>3. TransferInv'
  BY DEF TypeOK, TransferInv, Receiving
<1>4. BatchInv'
  BY DEF TypeOK, BatchInv
<1>5. AnswerInv'
  BY DEF TypeOK, AnswerInv, FutureInv
<1>6. LeavesClean'
  BY DEF TypeOK, LeavesClean, FutureInv
<1>7. QED
  BY <1>1, <1>2, <1>3, <1>4, <1>5, <1>6

\* A cancelled transfer is one the request thread has not taken.
LEMMA CancelStep ==
    ASSUME GenInv, HandleCanceledRequests PROVE GenInv'
PROOF
<1> USE DEF GenInv, HandleCanceledRequests, EraseQueued, TryCancelRequest, context
<1>1. TypeOK'
  BY DEF TypeOK
<1>2. FutureInv'
  BY DEF TypeOK, FutureInv, TransferInv
<1>3. TransferInv'
  BY DEF TypeOK, TransferInv, Receiving
<1>4. BatchInv'
  BY DEF TypeOK, BatchInv
<1>5. AnswerInv'
  BY DEF TypeOK, AnswerInv, FutureInv
<1>6. LeavesClean'
  BY DEF TypeOK, LeavesClean, FutureInv
<1>7. QED
  BY <1>1, <1>2, <1>3, <1>4, <1>5, <1>6

\* A timed-out transfer loses its blocks only if it is still queued.
LEMMA RespondStep ==
    ASSUME GenInv, HandleResponses PROVE GenInv'
PROOF
<1> USE DEF GenInv, HandleResponses, EraseQueued, Cut, InState, context
<1>1. TypeOK'
  BY DEF TypeOK
<1>2. FutureInv'
  BY DEF TypeOK, FutureInv, TransferInv
<1>3. TransferInv'
  BY DEF TypeOK, TransferInv, Receiving, AnswerInv
<1>4. BatchInv'
  BY DEF TypeOK, BatchInv
<1>5. AnswerInv'
  BY DEF TypeOK, AnswerInv, FutureInv
<1>6. LeavesClean'
  BY DEF TypeOK, LeavesClean, FutureInv
<1>7. QED
  BY <1>1, <1>2, <1>3, <1>4, <1>5, <1>6

-----------------------------------------------------------------------------
(* The request thread and the context server.                              *)

\* The request thread takes over a queued transfer.
LEMMA PopStep ==
    ASSUME GenInv, PopRequest PROVE GenInv'
PROOF
<1> USE DEF GenInv, PopRequest, Front, executor, context
<1>1. TypeOK'
  BY GenAssumption DEF TypeOK
<1>2. FutureInv'
  BY DEF TypeOK, FutureInv
<1>3. TransferInv'
  BY DEF TypeOK, TransferInv, Receiving
<1>4. BatchInv'
  BY DEF TypeOK, BatchInv
<1>5. AnswerInv'
  BY DEF TypeOK, AnswerInv
<1>6. LeavesClean'
  BY DEF TypeOK, LeavesClean
<1>7. QED
  BY <1>1, <1>2, <1>3, <1>4, <1>5, <1>6

\* Asking the context server changes nothing else.
LEMMA InfoStep ==
    ASSUME GenInv, SendRequestInfo PROVE GenInv'
PROOF
<1> USE DEF GenInv, SendRequestInfo, executor
<1>1. TypeOK'
  BY DEF TypeOK
<1>2. FutureInv'
  BY DEF TypeOK, FutureInv
<1>3. TransferInv'
  BY DEF TypeOK, TransferInv, Receiving
<1>4. BatchInv'
  BY DEF TypeOK, BatchInv
<1>5. AnswerInv'
  BY DEF TypeOK, AnswerInv
<1>6. LeavesClean'
  BY DEF TypeOK, LeavesClean
<1>7. QED
  BY <1>1, <1>2, <1>3, <1>4, <1>5, <1>6

\* A refused transfer is in error, and nothing is received for it.
LEMMA SignalStep ==
    ASSUME GenInv, ReceiveReadySignal PROVE GenInv'
PROOF
<1> USE DEF GenInv, ReceiveReadySignal, Refused, executor, context
<1>1. TypeOK'
  BY DEF TypeOK
<1>2. FutureInv'
  BY DEF TypeOK, FutureInv, TransferInv
<1>3. TransferInv'
  BY DEF TypeOK, TransferInv, Receiving
<1>4. BatchInv'
  BY DEF TypeOK, BatchInv, FutureInv, TransferInv
<1>5. AnswerInv'
  BY DEF TypeOK, AnswerInv, FutureInv, TransferInv
<1>6. LeavesClean'
  BY DEF TypeOK, LeavesClean, FutureInv, TransferInv
<1>7. QED
  BY <1>1, <1>2, <1>3, <1>4, <1>5, <1>6

\* Receiving the data changes nothing else.
LEMMA SyncStep ==
    ASSUME GenInv, ReceiveSync PROVE GenInv'
PROOF
<1> USE DEF GenInv, ReceiveSync, executor
<1>1. TypeOK'
  BY DEF TypeOK
<1>2. FutureInv'
  BY DEF TypeOK, FutureInv
<1>3. TransferInv'
  BY DEF TypeOK, TransferInv, Receiving
<1>4. BatchInv'
  BY DEF TypeOK, BatchInv
<1>5. AnswerInv'
  BY DEF TypeOK, AnswerInv
<1>6. LeavesClean'
  BY DEF TypeOK, LeavesClean
<1>7. QED
  BY <1>1, <1>2, <1>3, <1>4, <1>5, <1>6

\* The promise of the job is settled, and the thread forgets it.
LEMMA ValueStep ==
    ASSUME GenInv, SetValue PROVE GenInv'
PROOF
<1> USE DEF GenInv, SetValue, executor, context
<1>1. TypeOK'
  BY DEF TypeOK
<1>2. FutureInv'
  BY DEF TypeOK, FutureInv, TransferInv
<1>3. TransferInv'
  BY GenAssumption DEF TypeOK, TransferInv, Receiving
<1>4. BatchInv'
  BY DEF TypeOK, BatchInv
<1>5. AnswerInv'
  BY DEF TypeOK, AnswerInv
<1>6. LeavesClean'
  BY DEF TypeOK, LeavesClean
<1>7. QED
  BY <1>1, <1>2, <1>3, <1>4, <1>5, <1>6

\* The same when the link fails.
LEMMA ExceptionStep ==
    ASSUME GenInv, SetException PROVE GenInv'
PROOF
<1> USE DEF GenInv, SetException, executor, context
<1>1. TypeOK'
  BY DEF TypeOK
<1>2. FutureInv'
  BY DEF TypeOK, FutureInv, TransferInv
<1>3. TransferInv'
  BY GenAssumption DEF TypeOK, TransferInv, Receiving
<1>4. BatchInv'
  BY DEF TypeOK, BatchInv
<1>5. AnswerInv'
  BY DEF TypeOK, AnswerInv
<1>6. LeavesClean'
  BY DEF TypeOK, LeavesClean
<1>7. QED
  BY <1>1, <1>2, <1>3, <1>4, <1>5, <1>6

\* What the context server answers is looked at later.
LEMMA AnswerStep ==
    ASSUME GenInv, NEW q \in Requests, Answer(q) PROVE GenInv'
PROOF
<1> USE DEF GenInv, Answer, executor, receiver
<1>1. TypeOK'
  BY DEF TypeOK
<1>2. FutureInv'
  BY DEF TypeOK, FutureInv
<1>3. TransferInv'
  BY DEF TypeOK, TransferInv, Receiving
<1>4. BatchInv'
  BY DEF TypeOK, BatchInv
<1>5. AnswerInv'
  BY DEF TypeOK, AnswerInv
<1>6. LeavesClean'
  BY DEF TypeOK, LeavesClean
<1>7. QED
  BY <1>1, <1>2, <1>3, <1>4, <1>5, <1>6

-----------------------------------------------------------------------------
\* Every step keeps the invariant.
LEMMA GenStep == GenInv /\ [Next]_vars => GenInv'
PROOF
<1> SUFFICES ASSUME GenInv, [Next]_vars PROVE GenInv'
  OBVIOUS
<1>1. CASE Executor
  <2>1. CASE \E F \in SUBSET (IF Timeouts THEN InState({"in_progress"}) ELSE {}) :
               CheckKvTransferTimeout(F)
    <3>1. PICK F \in SUBSET (IF Timeouts THEN InState({"in_progress"}) ELSE {}) :
                 CheckKvTransferTimeout(F)
      BY <2>1
    <3>2. F \in SUBSET Requests
      BY <3>1 DEF InState, GenInv, TypeOK
    <3>3. QED
      BY <3>1, <3>2, TimeoutStep
  <2>2. CASE \E D \in SUBSET batch : ForwardStep(D)
    BY <2>2, BatchStep
  <2>3. QED
    BY <1>1, <2>1, <2>2, FetchStep, CheckStatusStep, CheckTransferStep,
       ScheduleStep, InitDoneStep, SkippedStep, ForwardErrorStep, CancelStep,
       RespondStep, RecvStep
       DEF Executor
<1>2. CASE RequestThread
  BY <1>2, PopStep, InfoStep, SignalStep, SyncStep, ValueStep, ExceptionStep
     DEF RequestThread
<1>3. CASE \E q \in Requests : Answer(q)
  BY <1>3, AnswerStep
<1>4. CASE UNCHANGED vars
  BY <1>4 DEF vars, executor, receiver, context, GenInv, TypeOK, FutureInv,
     TransferInv, Receiving, BatchInv, AnswerInv, LeavesClean
<1>5. QED
  BY <1>1, <1>2, <1>3, <1>4 DEF Next

\* The invariant holds throughout.
LEMMA GenInvariant == Spec => []GenInv
PROOF
<1>1. Init => GenInv
  BY ZenonT(60),
     GenAssumption DEF Init, GenInv, TypeOK, FutureInv, TransferInv, Receiving,
     BatchInv, AnswerInv, LeavesClean
<1>2. QED
  BY <1>1, GenStep, PTL DEF Spec

(* The variables of executor and receiver keep their types; the request    *)
(* thread holds a request exactly while it works on one.                   *)
THEOREM GenTypes == Spec => []TypeOK
PROOF
<1>1. GenInv => TypeOK
  BY DEF GenInv
<1>2. QED
  BY <1>1, GenInvariant, PTL

(* The request thread receives only into blocks that the executor has not  *)
(* freed: neither cancelRequest of the receiver, nor the timeout, nor a    *)
(* failed forward step frees the blocks of a transfer under way.           *)
THEOREM ReceivesIntoOwned == Spec => []ReceiveOnlyIntoOwned
PROOF
<1>1. GenInv => ReceiveOnlyIntoOwned
  BY GenAssumption DEF GenInv, TypeOK, TransferInv, Receiving,
     ReceiveOnlyIntoOwned
<1>2. QED
  BY <1>1, GenInvariant, PTL

(* A request whose transfer failed on the link never reaches the batch:    *)
(* checkGenTransferStatus looks at the outcome of each future.             *)
THEOREM FailuresNotDecoded == Spec => []FailedNotDecoded
PROOF
<1>1. GenInv => FailedNotDecoded
  BY DEF GenInv, TypeOK, FutureInv, FailedNotDecoded
<1>2. QED
  BY <1>1, GenInvariant, PTL

(* A request that has left active_requests was answered and freed, except  *)
(* one that timed out in the middle of its transfer, and except for the    *)
(* blocks of those that a failed forward step ended.                       *)
THEOREM CleanExit == Spec => []LeavesClean
PROOF
<1>1. GenInv => LeavesClean
  BY DEF GenInv
<1>2. QED
  BY <1>1, GenInvariant, PTL

(* _handle_errors and _handle_responses answer a request once, and nothing *)
(* activates it afterwards; only one that a failed forward step ended      *)
(* still has blocks.                                                       *)
THEOREM OneAnswer == Spec => AnsweredOnce
PROOF
<1> DEFINE Kept == \A q \in Requests : answer[q] # "none" =>
                      /\ answer'[q] = answer[q]
                      /\ q \notin active'
                      /\ q \in blocks' => q \in aborted
<1>1. GenInv /\ GenInv' /\ [Next]_vars => [Kept]_vars
  <2> SUFFICES ASSUME GenInv, GenInv', [Next]_vars,
                      NEW q \in Requests, answer[q] # "none"
               PROVE  /\ answer'[q] = answer[q]
                      /\ q \notin active'
                      /\ q \in blocks' => q \in aborted
    OBVIOUS
  <2>1. q \notin active /\ q \in Requests
    BY DEF GenInv, AnswerInv
  <2>2. answer'[q] = answer[q]
    BY ZenonT(60),
       <2>1 DEF Next, Executor, RequestThread, vars, executor, receiver, context,
       FetchNewRequests, CheckStatus, CheckGenTransferStatus, HandleErrors,
       CheckKvTransferTimeout, Schedule, RecvDisaggGenCache, InitDone,
       ForwardStep, SkipStep, ForwardError, HandleCanceledRequests,
       HandleResponses, Cut, InState, PopRequest, SendRequestInfo,
       ReceiveReadySignal, ReceiveSync, SetValue, SetException, Answer
  <2>3. q \notin active' /\ (q \in blocks' => q \in aborted')
    BY <2>2 DEF GenInv, AnswerInv
  <2>4. q \in aborted' => q \in aborted
    BY ZenonT(60),
       <2>1 DEF Next, Executor, RequestThread, vars, executor, receiver, context,
       FetchNewRequests, CheckStatus, CheckGenTransferStatus,
       CheckKvTransferTimeout, Schedule, RecvDisaggGenCache, InitDone,
       ForwardStep, SkipStep, ForwardError, HandleCanceledRequests,
       HandleResponses, PopRequest, SendRequestInfo,
       ReceiveReadySignal, ReceiveSync, SetValue, SetException, Answer
  <2>5. QED
    BY <2>2, <2>3, <2>4
<1>2. QED
  BY <1>1, GenInvariant, PTL DEF Spec, AnsweredOnce
=============================================================================
