------------------------- MODULE CacheSenderProofs -------------------------
(***************************************************************************)
(* Proofs about CacheSender, for any number of requests, counterparts and  *)
(* sending threads, with and without failing links and for both kinds of   *)
(* connection.  IInv is the invariant behind its types and behind the KV   *)
(* blocks being read only while the executor holds them.  HInv adds a      *)
(* count of the infos received, the countdown of a request being the       *)
(* number of counterparts that are missing, and what the answer of a       *)
(* request says of the threads' work on it; by the two every step of the   *)
(* threads is a step of CacheHandover or leaves it alone.                  *)
(***************************************************************************)
EXTENDS CacheSender, TLAPS

-----------------------------------------------------------------------------
(* The first invariant.                                                    *)

Queued(q) == \E i \in 1 .. Len(mSendQueue) : mSendQueue[i] = q

\* Responses that have left the response thread.
HandedOver(q) == Queued(q) \/ \E t \in SendThreads : sending[t] = q

\* The response thread is past the copy but has not erased q yet.
Erasing(q) == pc = "erase" /\ mCurrentRequest = q

\* Where the thread stands determines what it knows of mCurrentRequest.
ResponderInv ==
    /\ pc = "current" => info \in Requests
    /\ pc \in {"lookup", "await", "respond", "signal", "send", "erase", "drop"}
         => mCurrentRequest \in Requests
    /\ pc \in {"lookup", "await", "respond"}
         => mRemainSendCount[mCurrentRequest] > 0
    /\ (pc = "signal" /\ isReady) \/ pc \in {"send", "erase"}
         => mCurrentRequest \notin mCancelledRequests
    /\ (pc = "signal" /\ ~isReady) \/ pc = "drop"
         => mCurrentRequest \in mCancelledRequests

\* The executor's view of a request.
ExecutorInv ==
    /\ calling # None => calling \in Requests
    /\ \A q \in Requests :
         /\ ctxState[q] = "computing" <=> future[q] = "none"
         /\ ctxState[q] = "computing" => q \in held /\ q \notin mReadyResponses
         /\ q \notin held => Settled(q) \/ q \in mCancelledRequests
         /\ q \in held /\ ctxState[q] = "complete" => Settled(q)

\* A response is owned by mReadyResponses or by the sending threads.
OwnerInv ==
    /\ mCancelledRequests \subseteq mReadyResponses
    /\ pc # "exit" => \A q \in mReadyResponses :
                         future[q] = "pending" \/ Erasing(q)
    /\ \A q \in Requests : HandedOver(q) =>
         /\ future[q] = "pending"
         /\ q \notin mCancelledRequests
         /\ q \in mReadyResponses => Erasing(q)

\* No response is handed over twice.
UniqueInv ==
    /\ \A i, j \in 1 .. Len(mSendQueue) :
         mSendQueue[i] = mSendQueue[j] => i = j
    /\ \A t \in SendThreads : sending[t] # None =>
         /\ ~Queued(sending[t])
         /\ \A u \in SendThreads : sending[u] = sending[t] => u = t

IInv == TypeOK /\ ResponderInv /\ ExecutorInv /\ OwnerInv /\ UniqueInv

(* The inductive invariant gives the property.                             *)
LEMMA InvImplies == IInv => ReadOnlyWhileHeld
  <1>. SUFFICES ASSUME IInv, NEW q \in Requests, q \in InTransfer
                PROVE  q \in held
    BY Zenon DEF ReadOnlyWhileHeld, InTransfer
  <1>1. future[q] = "pending" /\ q \notin mCancelledRequests
    <2>1. CASE pc = "send" /\ mCurrentRequest = q /\ q \in mReadyResponses
      BY Zenon, <2>1 DEF IInv, ResponderInv, OwnerInv, Erasing
    <2>2. CASE HandedOver(q)
      BY Zenon, <2>2 DEF IInv, OwnerInv
    <2>. QED
      BY Zenon, <2>1, <2>2 DEF InTransfer, HandedOver, Queued
  <1>. QED
    BY Zenon, <1>1 DEF IInv, ExecutorInv, Settled

(* IsFiniteSet and Cardinality, spelled out: tlapm tells those of an       *)
(* extended FiniteSets from those of the library that the last section     *)
(* instantiates.                                                           *)
Finite(S) == \E seq \in Seq(S) : \A s \in S : \E n \in 1 .. Len(seq) : seq[n] = s

Size(S) ==
    LET CS[T \in SUBSET S] == IF T = {} THEN 0 ELSE 1 + CS[T \ {CHOOSE x : x \in T}]
    IN  CS[S]

\* The laws of finite sets of peers that the proofs rest on; they are proved
\* in the last section.
CountingLaws ==
    /\ Size(Peers) \in Nat
    /\ \A S \in SUBSET Peers :
         /\ Size(S) \in Nat /\ Size(S) <= Size(Peers)
         /\ Size(S) = 0 <=> S = {}
         /\ \A p \in S : Size(S \ {p}) = Size(S) - 1

(* The peers are finitely many.                                            *)
LEMMA SizesSpelledOut == Finite(Peers) /\ \A S : Cardinality(S) = Size(S)
  <1>1. Finite(Peers)
    BY Zenon, SenderAssumption DEF Finite, IsFiniteSet
  <1>2. \A S : Cardinality(S) = Size(S)
    BY Zenon DEF Cardinality, Size
  <1>. QED
    BY Zenon, <1>1, <1>2

(* Sets of counterparts are finite, and a request has a counterpart.       *)
LEMMA PeerCount ==
  ASSUME CountingLaws
  PROVE  /\ Cardinality(Peers) \in Nat
         /\ \A S \in SUBSET Peers :
              /\ Cardinality(S) \in 0 .. Cardinality(Peers)
              /\ Cardinality(S) = 0 <=> S = {}
              /\ \A p \in S : Cardinality(S \ {p}) = Cardinality(S) - 1
         /\ \A q \in Requests : Cardinality(Counterparts[q]) \in 1 .. Cardinality(Peers)
  <1>1. /\ Cardinality(Peers) \in Nat
        /\ \A S \in SUBSET Peers :
             /\ Cardinality(S) \in Nat /\ Cardinality(S) <= Cardinality(Peers)
             /\ Cardinality(S) = 0 <=> S = {}
             /\ \A p \in S : Cardinality(S \ {p}) = Cardinality(S) - 1
    BY Zenon, SizesSpelledOut DEF CountingLaws
  <1>2. \A q \in Requests : Counterparts[q] \in SUBSET Peers /\ Counterparts[q] # {}
    BY Zenon, SenderAssumption
  <1>. QED
    BY <1>1, <1>2

(* Init establishes the invariant.                                         *)
LEMMA InitInv ==
  ASSUME CountingLaws, Init
  PROVE  IInv
  <1>1. TypeOK
    <2>1. mSendQueue \in Seq(Requests)
      BY DEF Init
    <2>2. mRemainSendCount \in [Requests -> 0 .. Cardinality(Peers)]
      BY Zenon, PeerCount DEF Init
    <2>3. /\ session \in [Requests -> SUBSET Peers]
          /\ copied \in [Requests -> SUBSET Peers]
          /\ signal \in [Requests -> [Peers -> {"none", "ready", "cancelled"}]]
      BY Zenon DEF Init
    <2>. QED
      BY Zenon, <2>1, <2>2 DEF TypeOK, Init
  <1>2. ResponderInv /\ ExecutorInv
    BY Zenon DEF ResponderInv, ExecutorInv, Init
  <1>3. ~ \E q \in Requests : HandedOver(q)
    BY SenderAssumption DEF HandedOver, Queued, Init
  <1>4. OwnerInv
    BY Zenon, <1>3 DEF OwnerInv, Init
  <1>5. UniqueInv
    BY DEF UniqueInv, Init
  <1>. QED
    BY Zenon, <1>1, <1>2, <1>4, <1>5 DEF IInv
(* What concerns the sending threads is preserved when they do not move.   *)
LEMMA HandedOverSame ==
  ASSUME UNCHANGED <<mSendQueue, sending>>
  PROVE  /\ \A q \in Requests : HandedOver(q)' <=> HandedOver(q)
         /\ UniqueInv => UniqueInv'
  BY Zenon DEF HandedOver, Queued, UniqueInv

(* The executor and the peers keep the invariant.                          *)
LEMMA ExecutorInvStep ==
  ASSUME IInv
  PROVE  /\ \A q \in Requests : SendAsync(q) => IInv'
         /\ (SendAsyncNotify => IInv')
         /\ \A q \in Requests : CancelRequest(q) => IInv'
         /\ \A q \in Requests : CheckContextTransferStatus(q) => IInv'
         /\ \A q \in Requests : TerminateFinished(q) => IInv'
         /\ (Terminate => IInv')
         /\ \A q \in Requests, p \in Peers : Ask(q, p) => IInv'
  \* sendAsync adds a request that was still computing.
  <1>1. ASSUME NEW q \in Requests, SendAsync(q) PROVE IInv'
    <2>. USE <1>1
    <2>1. TypeOK'
      BY ZenonT(30) DEF TypeOK, IInv, SendAsync, responder, peers
    <2>2. ResponderInv'
      BY Zenon DEF ResponderInv, IInv, SendAsync, responder
    <2>3. ExecutorInv'
      BY Zenon DEF TypeOK, ExecutorInv, Settled, IInv, SendAsync
    <2>4. OwnerInv'
      BY HandedOverSame
         DEF TypeOK, ExecutorInv, OwnerInv, Erasing, IInv, SendAsync, responder
    <2>. QED
      BY Zenon, <2>1, <2>2, <2>3, <2>4, HandedOverSame DEF IInv, SendAsync
  \* sendAsync raises mAnyReady.
  <1>2. ASSUME SendAsyncNotify PROVE IInv'
    <2>. USE <1>2
    <2>1. TypeOK'
      BY ZenonT(30) DEF TypeOK, IInv, SendAsyncNotify, responder, peers
    <2>2. ResponderInv'
      BY Zenon DEF ResponderInv, IInv, SendAsyncNotify, responder
    <2>3. ExecutorInv'
      BY Zenon DEF ExecutorInv, Settled, IInv, SendAsyncNotify
    <2>4. OwnerInv'
      BY Zenon, HandedOverSame DEF OwnerInv, Erasing, IInv, SendAsyncNotify, responder
    <2>. QED
      BY Zenon, <2>1, <2>2, <2>3, <2>4, HandedOverSame DEF IInv, SendAsyncNotify
  \* cancelRequest succeeds only for a response the response thread is not on.
  <1>3. ASSUME NEW q \in Requests, CancelRequest(q) PROVE IInv'
    <2>. USE <1>3
    <2>1. TypeOK'
      BY ZenonT(30) DEF TypeOK, ResponderInv, ExecutorInv, IInv, CancelRequest, responder,
             peers
    <2>2. ResponderInv'
      BY Zenon DEF ResponderInv, IInv, CancelRequest, Cancellable, responder
    <2>3. ExecutorInv'
      BY DEF ExecutorInv, Settled, IInv, CancelRequest
    <2>4. OwnerInv'
      BY Zenon, HandedOverSame
         DEF OwnerInv, Erasing, IInv, CancelRequest, Cancellable, responder
    <2>. QED
      BY Zenon, <2>1, <2>2, <2>3, <2>4, HandedOverSame DEF IInv, CancelRequest
  \* A status check takes a settled future.
  <1>4. ASSUME NEW q \in Requests, CheckContextTransferStatus(q) PROVE IInv'
    <2>. USE <1>4
    <2>1. TypeOK'
      BY DEF TypeOK, IInv, CheckContextTransferStatus, responder, peers
    <2>2. ResponderInv'
      BY Zenon DEF ResponderInv, IInv, CheckContextTransferStatus, responder
    <2>3. ExecutorInv'
      BY DEF ExecutorInv, Settled, IInv, CheckContextTransferStatus
    <2>4. OwnerInv'
      BY Zenon, HandedOverSame
         DEF OwnerInv, Erasing, IInv, CheckContextTransferStatus, responder
    <2>. QED
      BY Zenon, <2>1, <2>2, <2>3, <2>4, HandedOverSame
         DEF IInv, CheckContextTransferStatus
  \* A completed request was settled before it is freed.
  <1>5. ASSUME NEW q \in Requests, TerminateFinished(q) PROVE IInv'
    <2>. USE <1>5
    <2>1. TypeOK'
      BY DEF TypeOK, IInv, TerminateFinished, responder, peers
    <2>2. ResponderInv'
      BY Zenon DEF ResponderInv, IInv, TerminateFinished, responder
    <2>3. ExecutorInv'
      BY Zenon DEF ExecutorInv, Settled, IInv, TerminateFinished
    <2>4. OwnerInv'
      BY Zenon, HandedOverSame DEF OwnerInv, Erasing, IInv, TerminateFinished, responder
    <2>. QED
      BY Zenon, <2>1, <2>2, <2>3, <2>4, HandedOverSame DEF IInv, TerminateFinished
  \* terminate only raises its flag.
  <1>6. ASSUME Terminate PROVE IInv'
    <2>. USE <1>6
    <2>1. TypeOK'
      BY ZenonT(30) DEF TypeOK, IInv, Terminate, responder, executor, peers
    <2>2. ResponderInv'
      BY Zenon DEF ResponderInv, IInv, Terminate, responder
    <2>3. ExecutorInv'
      BY Zenon DEF ExecutorInv, Settled, IInv, Terminate, executor
    <2>4. OwnerInv'
      BY Zenon, HandedOverSame DEF OwnerInv, Erasing, IInv, Terminate, responder
    <2>. QED
      BY Zenon, <2>1, <2>2, <2>3, <2>4, HandedOverSame DEF IInv, Terminate
  \* A generation rank asks.
  <1>7. ASSUME NEW q \in Requests, NEW p \in Peers, Ask(q, p) PROVE IInv'
    <2>. USE <1>7
    <2>1. TypeOK'
      BY DEF TypeOK, IInv, Ask, responder, executor
    <2>2. ResponderInv' /\ ExecutorInv'
      BY Zenon DEF ResponderInv, ExecutorInv, Settled, IInv, Ask, responder, executor
    <2>3. OwnerInv'
      BY Zenon, HandedOverSame DEF OwnerInv, Erasing, IInv, Ask, responder
    <2>. QED
      BY Zenon, <2>1, <2>2, <2>3, HandedOverSame DEF IInv, Ask
  <1>. QED
    BY Zenon, <1>1, <1>2, <1>3, <1>4, <1>5, <1>6, <1>7

(* The response thread keeps it up to the answer.                          *)
LEMMA ReceiveInv ==
  ASSUME CountingLaws, IInv
  PROVE  /\ (ResponseTop => IInv')
         /\ (ResponseThrows => IInv')
         /\ (ResponseExit => IInv')
         /\ (RecvRequestInfo => IInv')
         /\ (SetCurrent => IInv')
         /\ (Lookup => IInv')
         /\ (Await => IInv')
         /\ (RespondEarlier => IInv')
         /\ (RespondLast => IInv')
  \* The response thread starts to receive.
  <1>1. ASSUME ResponseTop PROVE IInv'
    <2>. USE <1>1
    <2>1. TypeOK'
      BY Zenon DEF TypeOK, IInv, ResponseTop, executor, peers
    <2>2. ResponderInv'
      BY Zenon DEF ResponderInv, ResponseTop
    <2>3. ExecutorInv'
      BY Zenon DEF ExecutorInv, Settled, IInv, ResponseTop, executor
    <2>4. OwnerInv'
      BY Zenon, HandedOverSame DEF OwnerInv, Erasing, IInv, ResponseTop
    <2>. QED
      BY Zenon, <2>1, <2>2, <2>3, <2>4, HandedOverSame DEF IInv, ResponseTop
  \* The exception handler settles what is left.
  <1>2. ASSUME ResponseThrows PROVE IInv'
    <2>. USE <1>2
    <2>1. TypeOK'
      BY ZenonT(30) DEF TypeOK, IInv, ResponseThrows, executor, peers
    <2>2. ResponderInv'
      BY Zenon DEF ResponderInv, ResponseThrows
    <2>3. ExecutorInv'
      BY Zenon DEF ExecutorInv, Settled, IInv, ResponseThrows, executor
    <2>4. OwnerInv'
      BY Zenon, HandedOverSame DEF OwnerInv, Erasing, IInv, ResponseThrows
    <2>. QED
      BY Zenon, <2>1, <2>2, <2>3, <2>4, HandedOverSame DEF IInv, ResponseThrows
  \* The response thread returns.
  <1>3. ASSUME ResponseExit PROVE IInv'
    <2>. USE <1>3
    <2>1. TypeOK'
      BY Zenon DEF TypeOK, IInv, ResponseExit, executor, peers
    <2>2. ResponderInv'
      BY Zenon DEF ResponderInv, ResponseExit
    <2>3. ExecutorInv'
      BY Zenon DEF ExecutorInv, Settled, IInv, ResponseExit, executor
    <2>4. OwnerInv'
      BY Zenon, HandedOverSame DEF OwnerInv, Erasing, IInv, ResponseExit
    <2>. QED
      BY Zenon, <2>1, <2>2, <2>3, <2>4, HandedOverSame DEF IInv, ResponseExit
  \* An info names a request.
  <1>4. ASSUME RecvRequestInfo PROVE IInv'
    <2>. USE <1>4
    <2>1. TypeOK'
      BY DEF TypeOK, ResponderInv, IInv, RecvRequestInfo, executor
    <2>2. ResponderInv'
      BY Zenon DEF ResponderInv, RecvRequestInfo
    <2>3. ExecutorInv'
      BY Zenon DEF ExecutorInv, Settled, IInv, RecvRequestInfo, executor
    <2>4. OwnerInv'
      BY Zenon, HandedOverSame DEF OwnerInv, Erasing, IInv, RecvRequestInfo
    <2>. QED
      BY Zenon, <2>1, <2>2, <2>3, <2>4, HandedOverSame DEF IInv, RecvRequestInfo
  \* A new current request has counterparts to wait for.
  <1>5. ASSUME SetCurrent PROVE IInv'
    <2>. USE <1>5
    <2>1. TypeOK'
      BY PeerCount
         DEF TypeOK, ResponderInv, ExecutorInv, IInv, SetCurrent, executor,
             peers, Count
    <2>2. ResponderInv'
      BY PeerCount DEF TypeOK, ResponderInv, IInv, SetCurrent, Count
    <2>3. ExecutorInv'
      BY Zenon DEF ExecutorInv, Settled, IInv, SetCurrent, executor
    <2>4. OwnerInv'
      BY Zenon, HandedOverSame DEF OwnerInv, Erasing, IInv, SetCurrent
    <2>. QED
      BY Zenon, <2>1, <2>2, <2>3, <2>4, HandedOverSame DEF IInv, SetCurrent
  \* getCurrentResponse decides where to go.
  <1>6. ASSUME Lookup PROVE IInv'
    <2>. USE <1>6
    <2>1. TypeOK'
      BY ZenonT(30) DEF TypeOK, IInv, Lookup, executor, peers
    <2>2. ResponderInv'
      BY Zenon DEF ResponderInv, IInv, Lookup
    <2>3. ExecutorInv'
      BY Zenon DEF ExecutorInv, Settled, IInv, Lookup, executor
    <2>4. OwnerInv'
      BY Zenon, HandedOverSame DEF OwnerInv, Erasing, IInv, Lookup
    <2>. QED
      BY Zenon, <2>1, <2>2, <2>3, <2>4, HandedOverSame DEF IInv, Lookup
  \* The wait for a missing response ends.
  <1>7. ASSUME Await PROVE IInv'
    <2>. USE <1>7
    <2>1. TypeOK'
      BY Zenon DEF TypeOK, IInv, Await, executor, peers
    <2>2. ResponderInv'
      BY Zenon DEF ResponderInv, IInv, Await
    <2>3. ExecutorInv'
      BY Zenon DEF ExecutorInv, Settled, IInv, Await, executor
    <2>4. OwnerInv'
      BY Zenon, HandedOverSame DEF OwnerInv, Erasing, IInv, Await
    <2>. QED
      BY Zenon, <2>1, <2>2, <2>3, <2>4, HandedOverSame DEF IInv, Await
  \* Counterparts remain.
  <1>8. ASSUME RespondEarlier PROVE IInv'
    <2>. USE <1>8
    <2>0. mRemainSendCount' \in [Requests -> 0 .. Cardinality(Peers)]
      BY PeerCount DEF TypeOK, ResponderInv, IInv, RespondEarlier
    <2>1. TypeOK'
      BY Zenon, <2>0 DEF TypeOK, IInv, RespondEarlier, executor, peers
    <2>2. ResponderInv'
      BY Zenon DEF ResponderInv, RespondEarlier
    <2>3. ExecutorInv'
      BY Zenon DEF ExecutorInv, Settled, IInv, RespondEarlier, executor
    <2>4. OwnerInv'
      BY Zenon, HandedOverSame DEF OwnerInv, Erasing, IInv, RespondEarlier
    <2>. QED
      BY Zenon, <2>1, <2>2, <2>3, <2>4, HandedOverSame DEF IInv, RespondEarlier
  \* The last counterpart: the cancelled set decides.
  <1>9. ASSUME RespondLast PROVE IInv'
    <2>. USE <1>9
    <2>0. mRemainSendCount' \in [Requests -> 0 .. Cardinality(Peers)]
      BY PeerCount DEF TypeOK, ResponderInv, IInv, RespondLast
    <2>1. TypeOK'
      BY Zenon, <2>0 DEF TypeOK, IInv, RespondLast, executor, peers
    <2>2. ResponderInv'
      BY Zenon DEF ResponderInv, IInv, RespondLast
    <2>3. ExecutorInv'
      BY Zenon DEF ExecutorInv, Settled, IInv, RespondLast, executor
    <2>4. OwnerInv'
      BY Zenon, HandedOverSame DEF OwnerInv, Erasing, IInv, RespondLast
    <2>. QED
      BY Zenon, <2>1, <2>2, <2>3, <2>4, HandedOverSame DEF IInv, RespondLast
  <1>. QED
    BY Zenon, <1>1, <1>2, <1>3, <1>4, <1>5, <1>6, <1>7, <1>8, <1>9

(* A send copies to one more connection, or ends and settles the future.   *)
LEMMA SendTypes ==
  ASSUME TypeOK, NEW q \in Requests, SendSync(q) \/ SendEnds(q)
  PROVE  /\ future' \in [Requests -> {"none", "pending", "value", "exception"}]
         /\ session' \in [Requests -> SUBSET Peers]
         /\ copied' \in [Requests -> SUBSET Peers]
         /\ \A r \in Requests : r # q => future'[r] = future[r]
         /\ SendSync(q) => future' = future
         /\ SendEnds(q) => future'[q] \in {"value", "exception"}
  <1>1. CASE SendSync(q)
    <2>1. copied' \in [Requests -> SUBSET Peers]
      <3>1. PICK p \in Peers : copied' = [copied EXCEPT ![q] = @ \cup {p}]
        BY Zenon, <1>1 DEF SendSync
      <3>. QED
        BY <3>1 DEF TypeOK
    <2>2. ~SendEnds(q) \/ future'[q] \in {"value", "exception"}
      BY Zenon DEF SendEnds, TypeOK
    <2>. QED
      BY Zenon, <1>1, <2>1, <2>2 DEF SendSync, TypeOK
  <1>2. CASE SendEnds(q)
    <2>1. SendSync(q) => future' = future
      BY Zenon DEF SendSync
    <2>. QED
      BY Zenon, <1>2, <2>1 DEF SendEnds, TypeOK
  <1>. QED
    BY Zenon, <1>1, <1>2

(* The response thread keeps it from the answer on.                        *)
LEMMA AnswerInv ==
  ASSUME IInv
  PROVE  /\ (SendReadySignal => IInv')
         /\ (SignalsSent => IInv')
         /\ (SendHere => IInv')
         /\ (SendUndefined => IInv')
         /\ (RemoveResponse => IInv')
         /\ (DropCancelled => IInv')
         /\ (CheckEmpty => IInv')
         /\ (ClearAnyReady => IInv')
  \* One connection gets the signal.
  <1>1. ASSUME SendReadySignal PROVE IInv'
    <2>. USE <1>1
    <2>1. TypeOK'
      <3>1. signal' \in [Requests -> [Peers -> {"none", "ready", "cancelled"}]]
        <4>1. PICK p \in Peers, v \in {"ready", "cancelled"} :
                signal' = [signal EXCEPT ![mCurrentRequest] = [@ EXCEPT ![p] = v]]
          BY Zenon DEF SendReadySignal
        <4>2. [signal[mCurrentRequest] EXCEPT ![p] = v]
                \in [Peers -> {"none", "ready", "cancelled"}]
          BY <4>1 DEF TypeOK, ResponderInv, IInv, SendReadySignal
        <4>. QED
          BY <4>1, <4>2 DEF TypeOK, IInv
      <3>. QED
        BY ZenonT(30), <3>1 DEF TypeOK, IInv, SendReadySignal, responder, executor
    <2>2. ResponderInv'
      BY Zenon DEF ResponderInv, IInv, SendReadySignal, responder
    <2>3. ExecutorInv'
      BY Zenon DEF ExecutorInv, Settled, IInv, SendReadySignal, executor
    <2>4. OwnerInv'
      BY Zenon, HandedOverSame DEF OwnerInv, Erasing, IInv, SendReadySignal, responder
    <2>. QED
      BY Zenon, <2>1, <2>2, <2>3, <2>4, HandedOverSame DEF IInv, SendReadySignal
  \* Every connection has the signal.
  <1>8. ASSUME SignalsSent PROVE IInv'
    <2>. USE <1>8
    <2>1. TypeOK'
      BY ZenonT(30) DEF TypeOK, IInv, SignalsSent, executor, peers
    <2>2. ResponderInv'
      BY Zenon DEF ResponderInv, IInv, SignalsSent
    <2>3. ExecutorInv'
      BY Zenon DEF ExecutorInv, Settled, IInv, SignalsSent, executor
    <2>4. OwnerInv'
      BY Zenon, HandedOverSame DEF OwnerInv, Erasing, IInv, SignalsSent
    <2>. QED
      BY Zenon, <2>1, <2>2, <2>3, <2>4, HandedOverSame DEF IInv, SignalsSent
  \* The agent path sends in the response thread.
  <1>2. ASSUME SendHere PROVE IInv'
    <2>. USE <1>2
    <2>. DEFINE c == mCurrentRequest
    <2>0. /\ c \in Requests /\ c \in mReadyResponses /\ pc = "send"
          /\ future[c] = "pending" /\ ~HandedOver(c)
      BY Zenon DEF ResponderInv, OwnerInv, Erasing, IInv, SendHere
    <2>a. /\ future' \in [Requests -> {"none", "pending", "value", "exception"}]
          /\ session' \in [Requests -> SUBSET Peers]
          /\ copied' \in [Requests -> SUBSET Peers]
          /\ \A q \in Requests : q # c => future'[q] = future[q]
          /\ \/ pc' = "send" /\ future' = future
             \/ pc' = "erase" /\ future'[c] \in {"value", "exception"}
      BY Zenon, <2>0, SendTypes DEF IInv, SendHere
    <2>1. TypeOK'
      BY ZenonT(30), <2>a DEF TypeOK, IInv, SendHere, executor
    <2>2. ResponderInv'
      BY Zenon, <2>0, <2>a DEF ResponderInv, IInv, SendHere
    <2>3. ExecutorInv'
      BY ZenonT(30), <2>0, <2>a DEF ExecutorInv, Settled, IInv, SendHere, executor
    <2>4. OwnerInv'
      <3>1. UNCHANGED <<mReadyResponses, mCancelledRequests, mCurrentRequest,
                        mSendQueue, sending>>
        BY Zenon DEF SendHere
      <3>2. ASSUME NEW q \in mReadyResponses, pc' # "exit"
            PROVE  future'[q] = "pending" \/ Erasing(q)'
        <4>1. q \in Requests /\ future[q] = "pending"
          BY Zenon, <2>0, <3>2 DEF IInv, TypeOK, OwnerInv, Erasing
        <4>. QED
          BY Zenon, <2>a, <3>1, <4>1 DEF Erasing
      <3>3. ASSUME NEW q \in Requests, HandedOver(q)
            PROVE  /\ future'[q] = "pending" /\ q \notin mCancelledRequests
                   /\ q \notin mReadyResponses
        BY Zenon, <2>0, <2>a, <3>3 DEF IInv, OwnerInv, Erasing
      <3>. QED
        BY Zenon, <3>1, <3>2, <3>3, HandedOverSame DEF OwnerInv, IInv
    <2>. QED
      BY Zenon, <2>1, <2>2, <2>3, <2>4, HandedOverSame DEF IInv, SendHere
  \* The response thread is lost.
  <1>3. ASSUME SendUndefined PROVE IInv'
    <2>. USE <1>3
    <2>1. TypeOK'
      BY ZenonT(40) DEF TypeOK, IInv, SendUndefined, executor, peers
    <2>2. ResponderInv'
      BY Zenon DEF ResponderInv, SendUndefined
    <2>3. ExecutorInv'
      BY Zenon DEF ExecutorInv, Settled, IInv, SendUndefined, executor
    <2>4. OwnerInv'
      BY Zenon, HandedOverSame DEF OwnerInv, Erasing, IInv, SendUndefined
    <2>. QED
      BY Zenon, <2>1, <2>2, <2>3, <2>4, HandedOverSame DEF IInv, SendUndefined
  \* The sent response is erased.
  <1>4. ASSUME RemoveResponse PROVE IInv'
    <2>. USE <1>4
    <2>1. TypeOK'
      BY ZenonT(30) DEF TypeOK, IInv, RemoveResponse, executor, peers
    <2>2. ResponderInv'
      BY Zenon DEF ResponderInv, RemoveResponse
    <2>3. ExecutorInv'
      BY Zenon DEF ExecutorInv, Settled, IInv, RemoveResponse, executor
    <2>4. OwnerInv'
      BY Zenon, HandedOverSame DEF ResponderInv, OwnerInv, Erasing, IInv, RemoveResponse
    <2>. QED
      BY Zenon, <2>1, <2>2, <2>3, <2>4, HandedOverSame DEF IInv, RemoveResponse
  \* The cancelled response is erased and settled.
  <1>5. ASSUME DropCancelled PROVE IInv'
    <2>. USE <1>5
    <2>1. TypeOK'
      BY ZenonT(30)
      DEF TypeOK, IInv, DropCancelled, executor, peers, BrokenPromise
    <2>2. ResponderInv'
      BY Zenon DEF ResponderInv, DropCancelled
    <2>3. ExecutorInv'
      BY Zenon DEF TypeOK, ResponderInv, ExecutorInv, OwnerInv, Settled, IInv,
             DropCancelled, executor, BrokenPromise
    <2>4. OwnerInv'
      BY HandedOverSame
         DEF ResponderInv, OwnerInv, Erasing, IInv, DropCancelled, BrokenPromise
    <2>. QED
      BY Zenon, <2>1, <2>2, <2>3, <2>4, HandedOverSame DEF IInv, DropCancelled
  \* The unlocked check changes no ownership.
  <1>6. ASSUME CheckEmpty PROVE IInv'
    <2>. USE <1>6
    <2>1. TypeOK'
      BY ZenonT(30) DEF TypeOK, IInv, CheckEmpty, executor, peers
    <2>2. ResponderInv'
      BY Zenon DEF ResponderInv, CheckEmpty
    <2>3. ExecutorInv'
      BY Zenon DEF ExecutorInv, Settled, IInv, CheckEmpty, executor
    <2>4. OwnerInv'
      BY Zenon, HandedOverSame DEF OwnerInv, Erasing, IInv, CheckEmpty
    <2>. QED
      BY Zenon, <2>1, <2>2, <2>3, <2>4, HandedOverSame DEF IInv, CheckEmpty
  \* mAnyReady is cleared.
  <1>7. ASSUME ClearAnyReady PROVE IInv'
    <2>. USE <1>7
    <2>1. TypeOK'
      BY Zenon DEF TypeOK, IInv, ClearAnyReady, executor, peers
    <2>2. ResponderInv'
      BY Zenon DEF ResponderInv, ClearAnyReady
    <2>3. ExecutorInv'
      BY Zenon DEF ExecutorInv, Settled, IInv, ClearAnyReady, executor
    <2>4. OwnerInv'
      BY Zenon, HandedOverSame DEF OwnerInv, Erasing, IInv, ClearAnyReady
    <2>. QED
      BY Zenon, <2>1, <2>2, <2>3, <2>4, HandedOverSame DEF IInv, ClearAnyReady
  <1>. QED
    BY Zenon, <1>1, <1>2, <1>3, <1>4, <1>5, <1>6, <1>7, <1>8

(* Responses handed to the sending threads.                                *)
LEMMA HandOverInv ==
  ASSUME IInv
  PROVE  /\ (SendLater => IInv')
         /\ \A t \in SendThreads : PopResponse(t) => IInv'
         /\ \A t \in SendThreads : SendAndRemoveResponse(t) => IInv'
  \* The response thread hands the current response over: it is in mReadyResponses, so it has not been handed over before.
  <1>1. ASSUME SendLater PROVE IInv'
    <2>. USE <1>1
    <2>. DEFINE c == mCurrentRequest
    <2>0. /\ c \in Requests /\ c \in mReadyResponses
          /\ future[c] = "pending" /\ c \notin mCancelledRequests
          /\ ~HandedOver(c)
      BY Zenon DEF ResponderInv, OwnerInv, Erasing, IInv, SendLater
    <2>1. TypeOK'
      BY DEF TypeOK, IInv, SendLater, executor, peers
    <2>2. ResponderInv' /\ ExecutorInv'
      BY Zenon DEF ResponderInv, ExecutorInv, Settled, IInv, SendLater, executor
    <2>3. \A q \in Requests : Queued(q)' => Queued(q) \/ q = c
      BY DEF Queued, SendLater, executor
    <2>4. OwnerInv'
      <3>1. ASSUME NEW q \in Requests, HandedOver(q)'
            PROVE  /\ future'[q] = "pending" /\ q \notin mCancelledRequests'
                   /\ q \in mReadyResponses' => Erasing(q)'
        <4>1. HandedOver(q) \/ q = c
          BY Zenon, <2>3, <3>1 DEF HandedOver, SendLater
        <4>. QED
          BY Zenon, <4>1, <2>0 DEF OwnerInv, Erasing, IInv, SendLater
      <3>. QED
        BY Zenon, <3>1 DEF OwnerInv, Erasing, IInv, SendLater
    <2>5. UniqueInv'
      <3>1. \A i, j \in 1 .. Len(mSendQueue') :
               mSendQueue'[i] = mSendQueue'[j] => i = j
        BY <2>0 DEF UniqueInv, HandedOver, Queued, IInv, SendLater
      <3>2. ASSUME NEW t \in SendThreads, sending[t] # None
            PROVE  ~Queued(sending[t])'
        <4>1. sending[t] \in Requests /\ sending[t] # c /\ ~Queued(sending[t])
          BY Zenon, <2>0, <3>2 DEF UniqueInv, HandedOver, TypeOK, IInv
        <4>. QED
          BY Zenon, <4>1, <2>3 DEF SendLater
      <3>. QED
        BY Zenon, <3>1, <3>2 DEF UniqueInv, IInv, SendLater
    <2>. QED
      BY Zenon, <2>1, <2>2, <2>4, <2>5 DEF IInv
  \* A sending thread takes the head of the queue.
  <1>2. ASSUME NEW t \in SendThreads, PopResponse(t) PROVE IInv'
    <2>. USE <1>2
    <2>0. PICK h \in Requests : h = mSendQueue[1] /\ 1 \in 1 .. Len(mSendQueue)
      BY DEF TypeOK, IInv, PopResponse
    <2>1. TypeOK'
      <3>1. mSendQueue' \in Seq(Requests)
        BY DEF TypeOK, IInv, PopResponse
      <3>2. sending' \in [SendThreads -> Requests \cup {None}]
        BY <2>0 DEF TypeOK, IInv, PopResponse
      <3>. QED
        BY ZenonT(30), <3>1, <3>2
           DEF TypeOK, IInv, PopResponse, responder, executor, peers
    <2>2. ResponderInv' /\ ExecutorInv'
      BY Zenon DEF ResponderInv, ExecutorInv, Settled, IInv, PopResponse, responder,
             executor
    <2>3. /\ Len(mSendQueue') = Len(mSendQueue) - 1
          /\ \A i \in 1 .. Len(mSendQueue') :
                i + 1 \in 1 .. Len(mSendQueue) /\ mSendQueue'[i] = mSendQueue[i + 1]
          /\ sending' = [sending EXCEPT ![t] = h]
      BY <2>0 DEF PopResponse
    <2>4. \A q \in Requests : HandedOver(q)' => HandedOver(q)
      BY <2>0, <2>3 DEF HandedOver, Queued
    <2>5. OwnerInv'
      BY Zenon, <2>4 DEF OwnerInv, Erasing, IInv, PopResponse, responder
    <2>6. UniqueInv'
      <3>1. \A i, j \in 1 .. Len(mSendQueue') :
               mSendQueue'[i] = mSendQueue'[j] => i = j
        BY DEF UniqueInv, IInv, PopResponse
      <3>2. \A i \in 1 .. Len(mSendQueue') : mSendQueue'[i] # h
        BY <2>0 DEF UniqueInv, IInv, PopResponse
      <3>3. \A u \in SendThreads : sending[u] # h
        BY Zenon, <2>0, SenderAssumption DEF UniqueInv, Queued, IInv
      <3>4. \A u \in SendThreads : sending[u] # None =>
               \A i \in 1 .. Len(mSendQueue') : mSendQueue'[i] # sending[u]
        BY <2>3 DEF UniqueInv, Queued, IInv
      <3>. QED
        BY ZenonT(40), <2>0, <2>3, <3>1, <3>2, <3>3, <3>4
           DEF UniqueInv, Queued, TypeOK, IInv
    <2>. QED
      BY Zenon, <2>1, <2>2, <2>5, <2>6 DEF IInv
  \* A sending thread sends the response it took, or settles its future.
  <1>3. ASSUME NEW t \in SendThreads, SendAndRemoveResponse(t) PROVE IInv'
    <2>. USE <1>3
    <2>0. PICK h \in Requests : h = sending[t] /\ HandedOver(h) /\ ~Queued(h)
      BY Zenon DEF TypeOK, HandedOver, UniqueInv, IInv, SendAndRemoveResponse
    <2>a. \A u \in SendThreads : sending[u] = h => u = t
      BY Zenon, <2>0, SenderAssumption DEF UniqueInv, IInv
    <2>b. /\ future' \in [Requests -> {"none", "pending", "value", "exception"}]
          /\ session' \in [Requests -> SUBSET Peers]
          /\ copied' \in [Requests -> SUBSET Peers]
          /\ \A q \in Requests : q # h => future'[q] = future[q]
          /\ \/ sending' = sending /\ future' = future
             \/ /\ sending' = [sending EXCEPT ![t] = None]
                /\ future'[h] \in {"value", "exception"}
      BY Zenon, <2>0, SendTypes DEF IInv, SendAndRemoveResponse
    <2>1. TypeOK'
      <3>1. sending' \in [SendThreads -> Requests \cup {None}]
        BY Zenon, <2>b DEF TypeOK, IInv
      <3>. QED
        BY ZenonT(30), <2>b, <3>1
           DEF TypeOK, IInv, SendAndRemoveResponse, responder, executor
    <2>2. ResponderInv'
      BY Zenon DEF ResponderInv, IInv, SendAndRemoveResponse, responder
    <2>3. ExecutorInv'
      BY ZenonT(30), <2>0, <2>b
         DEF ExecutorInv, OwnerInv, Settled, IInv, SendAndRemoveResponse,
             executor
    <2>c. UNCHANGED <<mSendQueue, pc, mCurrentRequest, mReadyResponses,
                      mCancelledRequests>>
      BY Zenon DEF SendAndRemoveResponse, responder
    <2>4. CASE sending' = sending /\ future' = future
      <3>1. OwnerInv'
        BY Zenon, <2>4, <2>c, HandedOverSame DEF OwnerInv, Erasing, IInv
      <3>. QED
        BY Zenon, <2>1, <2>2, <2>3, <2>4, <2>c, <3>1, HandedOverSame DEF IInv
    <2>5. CASE /\ sending' = [sending EXCEPT ![t] = None]
               /\ future'[h] \in {"value", "exception"}
      <3>1. \A q \in Requests : HandedOver(q)' => HandedOver(q) /\ q # h
        BY Zenon, <2>0, <2>a, <2>c, <2>5, SenderAssumption
           DEF HandedOver, Queued, TypeOK, IInv
      <3>2. OwnerInv'
        BY <2>0, <2>b, <2>c, <3>1 DEF OwnerInv, Erasing, TypeOK, IInv
      <3>3. UniqueInv'
        BY ZenonT(30), <2>c, <2>5 DEF UniqueInv, Queued, TypeOK, IInv
      <3>. QED
        BY Zenon, <2>1, <2>2, <2>3, <3>2, <3>3 DEF IInv
    <2>. QED
      BY Zenon, <2>b, <2>4, <2>5
  <1>. QED
    BY Zenon, <1>1, <1>2, <1>3

(* Nothing changes.                                                        *)
LEMMA StutterInv == ASSUME IInv, UNCHANGED vars PROVE IInv'
  <1>1. TypeOK' /\ ResponderInv' /\ ExecutorInv'
    BY DEF TypeOK, ResponderInv, ExecutorInv, Settled, IInv, vars, responder,
           executor, peers
  <1>2. OwnerInv'
    BY Zenon, HandedOverSame DEF OwnerInv, Erasing, IInv, vars, responder
  <1>. QED
    BY Zenon, <1>1, <1>2, HandedOverSame DEF IInv, vars

(* IInv is inductive.                                                      *)
LEMMA NextInv ==
  ASSUME CountingLaws, IInv, [Next]_vars
  PROVE  IInv'
  BY Zenon, ExecutorInvStep, ReceiveInv, AnswerInv, HandOverInv, StutterInv
     DEF Next, Response, HandleAsyncSend

-----------------------------------------------------------------------------
(* The second invariant.                                                   *)

\* The peers whose info for q has been received.
Received(q) == {p \in Peers : <<q, p>> \in asked /\ <<q, p>> \notin wire}

Missing(q) == Counterparts[q] \ Received(q)

\* The last info for q has been received and is not counted yet.
Uncounted(q) ==
    \/ pc = "current" /\ info = q
    \/ pc \in {"lookup", "await", "respond"} /\ mCurrentRequest = q

At(q, labels) == pc \in labels /\ mCurrentRequest = q

\* The counterparts that have been answered were all told v.
AnsweredAs(q, v) == \A p \in Counterparts[q] : signal[q][p] \in {"none", v}

Unanswered(q) == Handover!Unanswered(q)

Promised(q) == Handover!Promised(q)

\* mRemainSendCount counts the missing counterparts.
CountInv ==
    /\ \A q \in Requests : Received(q) \subseteq Counterparts[q]
    /\ \A q \in Requests, p \in Peers : <<q, p>> \in asked => p \in Counterparts[q]
    /\ pc # "exit" => \A q \in Requests :
         /\ pc = "current" /\ info = q
              => Count(q) = Cardinality(Missing(q)) + 1
         /\ At(q, {"lookup", "await", "respond"})
              => mRemainSendCount[q] = Cardinality(Missing(q)) + 1
         /\ ~Uncounted(q) => \/ mRemainSendCount[q] = Cardinality(Missing(q))
                             \/ mRemainSendCount[q] = 0 /\ Received(q) = {}

\* How the answer of a request relates to the threads' work on it.
Verdict(q) ==
    /\ ~Unanswered(q) => Missing(q) = {} /\ (mTerminate \/ future[q] # "none")
    /\ Uncounted(q) => Unanswered(q)
    /\ At(q, {"signal"}) /\ isReady => AnsweredAs(q, "ready")
    /\ At(q, {"signal"}) /\ ~isReady => AnsweredAs(q, "cancelled")
    /\ At(q, {"signal"}) => q \in mReadyResponses \/ future[q] = "none"
    /\ At(q, {"signal", "send", "erase", "drop"}) => Missing(q) = {}
    /\ At(q, {"send"}) \/ HandedOver(q) \/ future[q] = "value" => Promised(q)
    /\ At(q, {"signal", "send"}) => future[q] # "value" /\ ~HandedOver(q)
    /\ At(q, {"respond", "signal", "send"}) => q \in mReadyResponses \/ mTerminate
    /\ q \in mReadyResponses /\ ~Unanswered(q)
         => At(q, {"signal", "send", "drop", "erase", "exit"})
    /\ At(q, {"erase", "drop"}) => ~Unanswered(q)
    /\ Unanswered(q) => q \in mReadyResponses \/ future[q] = "none"
    /\ future[q] # "value" => session[q] = Received(q)
    /\ copied[q] \subseteq Counterparts[q]
    /\ q \in mCancelledRequests => q \notin held

VerdictInv == \A q \in Requests : Verdict(q)

HInv == CountInv /\ VerdictInv

(* A request that is promised has been answered, since it has a            *)
(* counterpart.                                                            *)
LEMMA PromisedIsAnswered ==
  ASSUME NEW q \in Requests
  PROVE  ~(Promised(q) /\ Unanswered(q))
  <1>1. PICK p \in Peers : p \in Counterparts[q]
    BY Zenon, SenderAssumption
  <1>. QED
    BY <1>1 DEF Promised, Unanswered, Handover!Promised, Handover!Unanswered

(* Nobody was told anything, so nobody anything else.                      *)
LEMMA UnansweredIsAlike ==
  ASSUME NEW q \in Requests, Unanswered(q)
  PROVE  AnsweredAs(q, "ready") /\ AnsweredAs(q, "cancelled")
  BY Zenon DEF Unanswered, AnsweredAs, Handover!Unanswered

(* The answers stay when no signal is sent.                                *)
LEMMA SignalSame ==
  ASSUME UNCHANGED signal
  PROVE  \A q \in Requests :
            /\ Unanswered(q)' <=> Unanswered(q)
            /\ Promised(q)' <=> Promised(q)
            /\ AnsweredAs(q, "ready")' <=> AnsweredAs(q, "ready")
            /\ AnsweredAs(q, "cancelled")' <=> AnsweredAs(q, "cancelled")
  BY Zenon DEF Unanswered, Promised, AnsweredAs, Handover!Promised,
         Handover!Unanswered

(* What the peers sent and the thread received stays when neither moves.   *)
LEMMA ReceivedSame ==
  ASSUME UNCHANGED <<asked, wire>>
  PROVE  \A q \in Requests : Received(q)' = Received(q) /\ Missing(q)' = Missing(q)
  BY Zenon DEF Received, Missing

(* No counterpart is missing exactly when their number is 0, and it drops  *)
(* by one with each that is received.                                      *)
LEMMA MissingCount ==
  ASSUME CountingLaws, NEW q \in Requests
  PROVE  /\ Cardinality(Missing(q)) \in Nat
         /\ Cardinality(Missing(q)) = 0 <=> Missing(q) = {}
         /\ \A p \in Missing(q) :
              Cardinality(Missing(q) \ {p}) = Cardinality(Missing(q)) - 1
  <1>1. Missing(q) \in SUBSET Peers
    BY Zenon, SenderAssumption DEF Missing
  <1>. QED
    BY <1>1, PeerCount

(* With no counterpart missing and the data not sent, the session has the  *)
(* connections of exactly the counterparts.                                *)
LEMMA SessionFull ==
  ASSUME HInv, NEW q \in Requests, Missing(q) = {}, future[q] # "value"
  PROVE  session[q] = Counterparts[q]
  <1>1. Received(q) \subseteq Counterparts[q] /\ session[q] = Received(q)
    BY Zenon DEF HInv, CountInv, VerdictInv, Verdict
  <1>. QED
    BY Zenon, <1>1 DEF Missing

(* Nothing has been asked or answered at first.                            *)
LEMMA InitHInv == Init => HInv
  <1>. SUFFICES ASSUME Init PROVE HInv
    OBVIOUS
  <1>1. \A q \in Requests : Received(q) = {}
    BY Zenon DEF Init, Received
  <1>2. CountInv
    BY Zenon, <1>1 DEF Init, CountInv, At
  <1>3. \A q \in Requests : Unanswered(q)
    BY Zenon, SenderAssumption DEF Init, Unanswered, Handover!Unanswered
  <1>4. ~ \E q \in Requests : HandedOver(q)
    BY SenderAssumption DEF Init, HandedOver, Queued
  <1>5. VerdictInv
    BY Zenon, <1>1, <1>3, <1>4 DEF Init, VerdictInv, Verdict, At
  <1>. QED
    BY Zenon, <1>2, <1>5 DEF HInv

(* The executor and the peers keep HInv.                                   *)
LEMMA ExecutorHInv ==
  ASSUME IInv, HInv
  PROVE  /\ \A q \in Requests : SendAsync(q) => HInv'
         /\ (SendAsyncNotify => HInv')
         /\ \A q \in Requests : CancelRequest(q) => HInv'
         /\ \A q \in Requests : CheckContextTransferStatus(q) => HInv'
         /\ \A q \in Requests : TerminateFinished(q) => HInv'
         /\ (Terminate => HInv')
         /\ \A q \in Requests, p \in Peers : Ask(q, p) => HInv'
  \* A request is offered that was not answered before.
  <1>1. ASSUME NEW q \in Requests, SendAsync(q) PROVE HInv'
    <2>. USE <1>1
    <2>1. CountInv'
      BY ZenonT(40), ReceivedSame
         DEF CountInv, At, Uncounted, Count, HInv, SendAsync, responder, peers
    <2>2. VerdictInv'
      BY ReceivedSame, HandedOverSame, SignalSame
         DEF ExecutorInv, VerdictInv, Verdict, At, Uncounted, IInv, HInv,
             SendAsync, responder, peers
    <2>. QED
      BY Zenon, <2>1, <2>2 DEF HInv
  \* sendAsync raises mAnyReady.
  <1>2. ASSUME SendAsyncNotify PROVE HInv'
    <2>. USE <1>2
    <2>1. CountInv'
      BY Zenon, ReceivedSame
         DEF CountInv, At, Uncounted, Count, HInv, SendAsyncNotify, responder,
             peers
    <2>2. VerdictInv'
      BY ZenonT(30), ReceivedSame, HandedOverSame, SignalSame
         DEF Settled, VerdictInv, Verdict, At, Uncounted, IInv, HInv,
             SendAsyncNotify, responder, peers
    <2>. QED
      BY Zenon, <2>1, <2>2 DEF HInv
  \* The request cancelled is not being answered.
  <1>3. ASSUME NEW q \in Requests, CancelRequest(q) PROVE HInv'
    <2>. USE <1>3
    <2>1. CountInv'
      BY Zenon, ReceivedSame
         DEF CountInv, At, Uncounted, Count, HInv, CancelRequest, responder,
             peers, Cancellable
    <2>2. VerdictInv'
      BY ZenonT(30), ReceivedSame, HandedOverSame, SignalSame
         DEF VerdictInv, Verdict, At, Uncounted, HInv, CancelRequest,
             responder, peers, Cancellable
    <2>. QED
      BY Zenon, <2>1, <2>2 DEF HInv
  \* A status check changes nothing the peers see.
  <1>4. ASSUME NEW q \in Requests, CheckContextTransferStatus(q) PROVE HInv'
    <2>. USE <1>4
    <2>1. CountInv'
      BY ZenonT(30), ReceivedSame
         DEF CountInv, At, Uncounted, Count, HInv, CheckContextTransferStatus,
             responder, peers
    <2>2. VerdictInv'
      BY ZenonT(30), ReceivedSame, HandedOverSame, SignalSame
         DEF VerdictInv, Verdict, At, Uncounted, HInv,
             CheckContextTransferStatus, responder, peers
    <2>. QED
      BY Zenon, <2>1, <2>2 DEF HInv
  \* Blocks of a settled request are freed.
  <1>5. ASSUME NEW q \in Requests, TerminateFinished(q) PROVE HInv'
    <2>. USE <1>5
    <2>1. CountInv'
      BY Zenon, ReceivedSame
         DEF CountInv, At, Uncounted, Count, HInv, TerminateFinished, responder,
             peers
    <2>2. VerdictInv'
      BY ZenonT(30), ReceivedSame, HandedOverSame, SignalSame
         DEF VerdictInv, Verdict, At, Uncounted, HInv, TerminateFinished,
             responder, peers
    <2>. QED
      BY Zenon, <2>1, <2>2 DEF HInv
  \* terminate only raises its flag.
  <1>6. ASSUME Terminate PROVE HInv'
    <2>. USE <1>6
    <2>1. CountInv'
      BY Zenon, ReceivedSame
         DEF CountInv, At, Uncounted, Count, HInv, Terminate, responder, peers
    <2>2. VerdictInv'
      BY ZenonT(30), ReceivedSame, HandedOverSame, SignalSame
         DEF VerdictInv, Verdict, At, Uncounted, HInv, Terminate, responder,
             executor, peers
    <2>. QED
      BY Zenon, <2>1, <2>2 DEF HInv
  \* A generation rank asks; its info is still to be received.
  <1>7. ASSUME NEW q \in Requests, NEW p \in Peers, Ask(q, p) PROVE HInv'
    <2>. USE <1>7
    <2>0. \A r \in Requests : Received(r)' = Received(r) /\ Missing(r)' = Missing(r)
      BY Zenon DEF Received, Missing, Ask
    <2>1. CountInv'
      BY Zenon, <2>0 DEF CountInv, At, Uncounted, Count, HInv, Ask, responder
    <2>2. VerdictInv'
      BY ZenonT(30), <2>0, HandedOverSame, SignalSame
         DEF VerdictInv, Verdict, At, Uncounted, HInv, Ask, responder,
             executor
    <2>. QED
      BY Zenon, <2>1, <2>2 DEF HInv
  <1>. QED
    BY Zenon, <1>1, <1>2, <1>3, <1>4, <1>5, <1>6, <1>7

(* The response thread keeps HInv up to the answer.                        *)
LEMMA ReceiveHInv ==
  ASSUME CountingLaws, IInv, HInv
  PROVE  /\ (ResponseTop => HInv')
         /\ (ResponseThrows => HInv')
         /\ (ResponseExit => HInv')
         /\ (RecvRequestInfo => HInv')
         /\ (SetCurrent => HInv')
         /\ (Lookup => HInv')
         /\ (Await => HInv')
         /\ (RespondEarlier => HInv')
         /\ (RespondLast => HInv')
  \* The response thread starts to receive.
  <1>1. ASSUME ResponseTop PROVE HInv'
    <2>. USE <1>1
    <2>1. CountInv'
      BY Zenon, ReceivedSame DEF CountInv, At, Uncounted, HInv, ResponseTop, peers
    <2>2. VerdictInv'
      BY ZenonT(30), ReceivedSame, HandedOverSame, SignalSame
         DEF VerdictInv, Verdict, At, Uncounted, HInv, ResponseTop, executor,
             peers
    <2>. QED
      BY Zenon, <2>1, <2>2 DEF HInv
  \* The exception handler settles what is left.
  <1>2. ASSUME ResponseThrows PROVE HInv'
    <2>. USE <1>2
    <2>1. CountInv'
      BY Zenon, ReceivedSame DEF CountInv, HInv, ResponseThrows, peers
    <2>2. VerdictInv'
      BY ReceivedSame, HandedOverSame, SignalSame, PromisedIsAnswered
         DEF VerdictInv, Verdict, At, Uncounted, HInv, ResponseThrows,
             executor, peers
    <2>. QED
      BY Zenon, <2>1, <2>2 DEF HInv
  \* The response thread returns.
  <1>3. ASSUME ResponseExit PROVE HInv'
    <2>. USE <1>3
    <2>1. CountInv'
      BY Zenon, ReceivedSame DEF CountInv, HInv, ResponseExit, peers
    <2>2. VerdictInv'
      BY ZenonT(30), ReceivedSame, HandedOverSame, SignalSame
         DEF VerdictInv, Verdict, At, Uncounted, HInv, ResponseExit, executor,
             peers
    <2>. QED
      BY Zenon, <2>1, <2>2 DEF HInv
  \* The info of a counterpart that was missing is received, so the request has not been answered.
  <1>4. ASSUME RecvRequestInfo PROVE HInv'
    <2>. USE <1>4
    <2>0. PICK q \in Requests, p \in Peers :
            /\ <<q, p>> \in wire /\ wire' = wire \ {<<q, p>>}
            /\ session' = [session EXCEPT ![q] = @ \cup {p}]
            /\ info' = q
      BY Zenon DEF RecvRequestInfo
    <2>1. p \in Missing(q)
      BY Zenon, <2>0 DEF Missing, Received, CountInv, TypeOK, IInv, HInv
    <2>2. /\ Received(q)' = Received(q) \cup {p}
          /\ Missing(q)' = Missing(q) \ {p}
          /\ \A r \in Requests :
               r # q => Received(r)' = Received(r) /\ Missing(r)' = Missing(r)
      <3>1. <<q, p>> \in asked
        BY Zenon, <2>0 DEF TypeOK, IInv
      <3>2. Received(q)' = Received(q) \cup {p}
        BY Zenon, <2>0, <3>1 DEF Received, RecvRequestInfo
      <3>3. \A r \in Requests : r # q => Received(r)' = Received(r)
        BY Zenon, <2>0 DEF Received, RecvRequestInfo
      <3>. QED
        BY Zenon, <3>2, <3>3 DEF Missing
    <2>3. Cardinality(Missing(q)') = Cardinality(Missing(q)) - 1
      BY Zenon, <2>1, <2>2, MissingCount DEF HInv
    <2>4. Count(q) = Cardinality(Missing(q))
      <3>1. \/ mRemainSendCount[q] = Cardinality(Missing(q))
            \/ mRemainSendCount[q] = 0 /\ Received(q) = {}
        BY Zenon DEF CountInv, Uncounted, HInv, RecvRequestInfo
      <3>2. Cardinality(Missing(q)) # 0
        BY Zenon, <2>1, MissingCount
      <3>3. Received(q) = {} => Missing(q) = Counterparts[q]
        BY Zenon DEF Missing
      <3>. QED
        BY Zenon, <3>1, <3>2, <3>3 DEF Count
    <2>5. CountInv'
      <3>1. /\ \A r \in Requests : Received(r)' \subseteq Counterparts[r]
            /\ \A r \in Requests, s \in Peers :
                  <<r, s>> \in asked' => s \in Counterparts[r]
        BY ZenonT(40), <2>1, <2>2 DEF CountInv, Missing, HInv, RecvRequestInfo
      <3>2. Count(q)' = Cardinality(Missing(q)') + 1
        BY <2>3, <2>4, MissingCount DEF Count, RecvRequestInfo
      <3>3. ASSUME NEW r \in Requests, r # q
            PROVE  \/ mRemainSendCount'[r] = Cardinality(Missing(r)')
                   \/ mRemainSendCount'[r] = 0 /\ Received(r)' = {}
        BY Zenon, <2>2, <3>3 DEF CountInv, Uncounted, HInv, RecvRequestInfo
      <3>. QED
        BY Zenon, <2>0, <3>1, <3>2, <3>3 DEF CountInv, At, Uncounted, RecvRequestInfo
    <2>6. Unanswered(q)
      BY ZenonT(40), <2>1 DEF VerdictInv, Verdict, HInv
    <2>7. VerdictInv'
      BY <2>0, <2>2, <2>6, HandedOverSame, SignalSame
         DEF TypeOK, ResponderInv, ExecutorInv, Erasing, Settled, CountInv,
             VerdictInv, Verdict, At, Uncounted, IInv, HInv, RecvRequestInfo,
             executor
    <2>. QED
      BY Zenon, <2>5, <2>7 DEF HInv
  \* The info received becomes the current request.
  <1>5. ASSUME SetCurrent PROVE HInv'
    <2>. USE <1>5
    <2>1. CountInv'
      BY ZenonT(30), ReceivedSame
         DEF TypeOK, CountInv, At, Uncounted, IInv, HInv, SetCurrent, peers
    <2>2. VerdictInv'
      BY ZenonT(30), ReceivedSame, HandedOverSame, SignalSame
         DEF VerdictInv, Verdict, At, Uncounted, HInv, SetCurrent, executor,
             peers, Count
    <2>. QED
      BY Zenon, <2>1, <2>2 DEF HInv
  \* getCurrentResponse decides where to go.
  <1>6. ASSUME Lookup PROVE HInv'
    <2>. USE <1>6
    <2>1. CountInv'
      BY Zenon, ReceivedSame DEF CountInv, At, Uncounted, HInv, Lookup, peers
    <2>2. VerdictInv'
      BY ZenonT(30), ReceivedSame, HandedOverSame, SignalSame
         DEF CountInv, VerdictInv, Verdict, At, Uncounted, HInv, Lookup,
             executor, peers
    <2>. QED
      BY Zenon, <2>1, <2>2 DEF HInv
  \* The wait for a missing response ends.
  <1>7. ASSUME Await PROVE HInv'
    <2>. USE <1>7
    <2>1. CountInv'
      BY Zenon, ReceivedSame DEF CountInv, At, Uncounted, HInv, Await, peers
    <2>2. VerdictInv'
      BY ZenonT(30), ReceivedSame, HandedOverSame, SignalSame
         DEF VerdictInv, Verdict, At, Uncounted, HInv, Await, executor, peers
    <2>. QED
      BY Zenon, <2>1, <2>2 DEF HInv
  \* The info is counted; counterparts are missing.
  <1>8. ASSUME RespondEarlier PROVE HInv'
    <2>. USE <1>8
    <2>1. CountInv'
      BY ReceivedSame, MissingCount
         DEF TypeOK, CountInv, At, Uncounted, IInv, HInv, RespondEarlier,
             executor, peers
    <2>2. VerdictInv'
      BY ZenonT(30), ReceivedSame, HandedOverSame, SignalSame
         DEF VerdictInv, Verdict, At, Uncounted, HInv, RespondEarlier,
             executor, peers
    <2>. QED
      BY Zenon, <2>1, <2>2 DEF HInv
  \* The info is counted; no counterpart is missing.
  <1>9. ASSUME RespondLast PROVE HInv'
    <2>. USE <1>9
    <2>0. Missing(mCurrentRequest) = {}
      BY MissingCount DEF ResponderInv, CountInv, At, IInv, HInv, RespondLast
    <2>1. CountInv'
      BY ReceivedSame, MissingCount, PeerCount, SenderAssumption
         DEF TypeOK, CountInv, At, Uncounted, IInv, HInv, RespondLast, peers
    <2>2. UNCHANGED <<asked, wire, signal, session, future, mSendQueue, sending,
                      copied, mReadyResponses, mCancelledRequests,
                      mCurrentRequest, mTerminate, held>>
      BY Zenon DEF RespondLast, executor, peers
    <2>3. pc = "respond" /\ pc' = "signal"
      BY Zenon DEF RespondLast
    <2>4. VerdictInv'
      <3>1. ASSUME NEW r \in Requests, r # mCurrentRequest PROVE Verdict(r)'
        <4>1. Verdict(r)
          BY Zenon DEF HInv, VerdictInv
        <4>. QED
          BY ZenonT(30), <2>2, <2>3, <3>1, <4>1, ReceivedSame, HandedOverSame, SignalSame
             DEF Verdict, At, Uncounted
      <3>2. ASSUME NEW r \in Requests, r = mCurrentRequest PROVE Verdict(r)'
        <4>1. Verdict(r) /\ Unanswered(r)
          BY Zenon, <2>3, <3>2 DEF HInv, VerdictInv, Verdict, Uncounted
        <4>2. AnsweredAs(r, "ready") /\ AnsweredAs(r, "cancelled") /\ ~Promised(r)
          BY Zenon, <4>1, UnansweredIsAlike, PromisedIsAnswered
        <4>. QED
          BY ZenonT(30), <2>0, <2>2, <2>3, <3>2, <4>1, <4>2, ReceivedSame,
             HandedOverSame, SignalSame
             DEF Verdict, At, Uncounted
      <3>. QED
        BY Zenon, <3>1, <3>2 DEF VerdictInv
    <2>. QED
      BY Zenon, <2>1, <2>4 DEF HInv
  <1>. QED
    BY Zenon, <1>1, <1>2, <1>3, <1>4, <1>5, <1>6, <1>7, <1>8, <1>9

(* One more counterpart of the current request is told what the others    *)
(* were.                                                                   *)
LEMMA SignalOne ==
  ASSUME IInv, HInv, SendReadySignal
  PROVE  /\ mCurrentRequest \in Requests
         /\ \E p \in Counterparts[mCurrentRequest],
              v \in {"ready", "cancelled"} :
              /\ v = IF isReady THEN "ready" ELSE "cancelled"
              /\ p \in Peers /\ signal[mCurrentRequest][p] = "none"
              /\ AnsweredAs(mCurrentRequest, v)
              /\ signal' = [signal EXCEPT ![mCurrentRequest] = [@ EXCEPT ![p] = v]]
              /\ AnsweredAs(mCurrentRequest, v)'
         /\ ~Unanswered(mCurrentRequest)'
         /\ \A r \in Requests : r # mCurrentRequest => signal'[r] = signal[r]
  <1>. DEFINE c == mCurrentRequest
  <1>0. PICK v \in {"ready", "cancelled"} : v = IF isReady THEN "ready" ELSE "cancelled"
    BY Zenon
  <1>1. c \in Requests /\ At(c, {"signal"})
    BY Zenon DEF ResponderInv, IInv, SendReadySignal, At
  <1>2. Missing(c) = {} /\ AnsweredAs(c, v) /\ future[c] # "value"
    BY Zenon, <1>0, <1>1 DEF VerdictInv, Verdict, HInv, At
  <1>3. session[c] = Counterparts[c]
    BY Zenon, <1>1, <1>2, SessionFull
  <1>4. PICK p \in Peers : /\ p \in Counterparts[c] /\ signal[c][p] = "none"
                           /\ signal' = [signal EXCEPT ![c] = [@ EXCEPT ![p] = v]]
    BY Zenon, <1>0, <1>3 DEF SendReadySignal
  <1>5. /\ signal'[c] = [signal[c] EXCEPT ![p] = v]
        /\ \A r \in Requests : r # c => signal'[r] = signal[r]
    BY Zenon, <1>1, <1>4 DEF IInv, TypeOK
  <1>6. signal'[c][p] = v /\ \A s \in Peers : s # p => signal'[c][s] = signal[c][s]
    BY Zenon, <1>1, <1>5 DEF IInv, TypeOK
  <1>7. UNCHANGED mCurrentRequest
    BY Zenon DEF SendReadySignal
  <1>8. Counterparts[c] \subseteq Peers
    BY Zenon, <1>1, SenderAssumption
  <1>9. \A s \in Counterparts[c] : signal'[c][s] \in {"none", v}
    BY Zenon, <1>2, <1>6, <1>8 DEF AnsweredAs
  <1>10. AnsweredAs(c, v)'
    BY Zenon, <1>7, <1>9 DEF AnsweredAs
  <1>11. v # "none"
    BY <1>0
  <1>12. ~Unanswered(c)'
    BY Zenon, <1>4, <1>6, <1>7, <1>11 DEF Unanswered, Handover!Unanswered
  <1>. QED
    BY Zenon, <1>0, <1>1, <1>2, <1>4, <1>5, <1>10, <1>12

(* A request that is promised and not settled has a full session.          *)
LEMMA PromisedSession ==
  ASSUME HInv, NEW q \in Requests, future[q] = "pending", Promised(q)
  PROVE  session[q] = Counterparts[q]
  <1>1. Missing(q) = {}
    BY Zenon, PromisedIsAnswered DEF HInv, VerdictInv, Verdict
  <1>. QED
    BY Zenon, <1>1, SessionFull

(* What a send of q does to the session, the copies and the future of q    *)
(* and of the others.                                                      *)
LEMMA SendEffect ==
  ASSUME IInv, HInv, NEW q \in Requests, SendSync(q) \/ SendEnds(q),
         future[q] = "pending", Promised(q)
  PROVE  /\ \A r \in Requests : r # q => /\ future'[r] = future[r]
                                         /\ session'[r] = session[r]
                                         /\ copied'[r] = copied[r]
         /\ copied'[q] \subseteq Counterparts[q]
         /\ SendSync(q) => future' = future /\ session' = session
         /\ SendEnds(q) => \/ future'[q] = "value"
                           \/ future'[q] = "exception" /\ session' = session
  <1>1. session[q] = Counterparts[q] /\ copied[q] \subseteq Counterparts[q]
    BY Zenon, PromisedSession DEF HInv, VerdictInv, Verdict
  <1>2. /\ SendSync(q) => future' = future /\ session' = session
        /\ SendEnds(q) => \/ future'[q] = "value"
                          \/ future'[q] = "exception" /\ session' = session
    BY Zenon DEF SendSync, SendEnds, IInv, TypeOK
  <1>3. CASE SendSync(q)
    <2>1. PICK p \in Peers : /\ p \in session[q]
                             /\ copied' = [copied EXCEPT ![q] = @ \cup {p}]
      BY Zenon, <1>3 DEF SendSync
    <2>2. /\ copied'[q] = copied[q] \cup {p}
          /\ \A r \in Requests : r # q => copied'[r] = copied[r]
      BY Zenon, <2>1 DEF IInv, TypeOK
    <2>. QED
      BY Zenon, <1>1, <1>2, <1>3, <2>1, <2>2
  <1>4. CASE SendEnds(q)
    <2>1. UNCHANGED copied
      BY Zenon, <1>4 DEF SendEnds
    <2>2. \A r \in Requests : r # q => future'[r] = future[r] /\ session'[r] = session[r]
      BY Zenon, <1>4 DEF SendEnds, IInv, TypeOK
    <2>. QED
      BY Zenon, <1>1, <1>2, <2>1, <2>2
  <1>. QED
    BY Zenon, <1>3, <1>4

(* The response thread keeps HInv from the answer on, and so do the sending *)
(* threads.                                                                *)
LEMMA AnswerHInv ==
  ASSUME IInv, HInv
  PROVE  /\ (SendReadySignal => HInv')
         /\ (SignalsSent => HInv')
         /\ (SendHere => HInv')
         /\ (SendUndefined => HInv')
         /\ (RemoveResponse => HInv')
         /\ (DropCancelled => HInv')
         /\ (CheckEmpty => HInv')
         /\ (ClearAnyReady => HInv')
         /\ (SendLater => HInv')
         /\ \A t \in SendThreads : PopResponse(t) => HInv'
         /\ \A t \in SendThreads : SendAndRemoveResponse(t) => HInv'
  \* One counterpart is answered.
  <1>1. ASSUME SendReadySignal PROVE HInv'
    <2>. USE <1>1
    <2>. DEFINE c == mCurrentRequest
    <2>1. UNCHANGED <<asked, wire, session, future, mSendQueue, sending, copied,
                      mReadyResponses, mCancelledRequests, mCurrentRequest,
                      mTerminate, held, pc, info, isReady, mRemainSendCount>>
          /\ pc = "signal"
      BY Zenon DEF SendReadySignal, executor, responder
    <2>2. CountInv'
      BY Zenon, <2>1, ReceivedSame DEF CountInv, At, Uncounted, HInv
    <2>3. /\ c \in Requests /\ ~Unanswered(c)'
          /\ isReady => AnsweredAs(c, "ready")'
          /\ ~isReady => AnsweredAs(c, "cancelled")'
          /\ \A r \in Requests : r # c => signal'[r] = signal[r]
      BY Zenon, SignalOne
    <2>4. ASSUME NEW r \in Requests, r # c PROVE Verdict(r)'
      <3>1. Verdict(r)
        BY Zenon DEF HInv, VerdictInv
      <3>2. /\ Unanswered(r)' <=> Unanswered(r)
            /\ Promised(r)' <=> Promised(r)
        BY Zenon, <2>3, <2>4
           DEF Unanswered, Promised, Handover!Unanswered, Handover!Promised
      <3>. QED
        BY ZenonT(30), <2>1, <2>4, <3>1, <3>2, ReceivedSame, HandedOverSame
           DEF Verdict, At, Uncounted
    <2>5. Verdict(c)'
      <3>1. Verdict(c) /\ At(c, {"signal"})
        BY Zenon, <2>1, <2>3 DEF HInv, VerdictInv, At
      <3>2. mTerminate \/ future[c] # "none"
        BY Zenon, <2>3, <3>1 DEF IInv, ExecutorInv, Verdict, At
      <3>3. /\ Missing(c) = {} /\ ~HandedOver(c) /\ future[c] # "value"
            /\ c \in mReadyResponses \/ mTerminate
            /\ c \in mReadyResponses \/ future[c] = "none"
            /\ session[c] = Received(c) /\ copied[c] \subseteq Counterparts[c]
            /\ c \in mCancelledRequests => c \notin held
        BY Zenon, <2>1, <3>1 DEF Verdict, At
      <3>. QED
        BY ZenonT(30), <2>1, <2>3, <3>2, <3>3, ReceivedSame, HandedOverSame
           DEF Verdict, At, Uncounted
    <2>6. VerdictInv'
      BY Zenon, <2>1, <2>4, <2>5 DEF VerdictInv
    <2>. QED
      BY Zenon, <2>2, <2>6 DEF HInv
  \* All of them are.
  <1>11. ASSUME SignalsSent PROVE HInv'
    <2>. USE <1>11
    <2>. DEFINE c == mCurrentRequest
    <2>1. UNCHANGED <<asked, wire, session, future, mSendQueue, sending, copied,
                      mReadyResponses, mCancelledRequests, mCurrentRequest,
                      mTerminate, held, info, isReady, mRemainSendCount, signal>>
          /\ pc = "signal" /\ pc' = IF isReady THEN "send" ELSE "drop"
      BY Zenon DEF SignalsSent, executor, peers
    <2>2. CountInv'
      BY Zenon, <2>1, ReceivedSame DEF CountInv, At, Uncounted, HInv
    <2>3. c \in Requests
      BY Zenon, <2>1 DEF ResponderInv, IInv
    <2>4. ASSUME NEW r \in Requests, r # c PROVE Verdict(r)'
      <3>1. Verdict(r)
        BY Zenon DEF HInv, VerdictInv
      <3>. QED
        BY ZenonT(30), <2>1, <2>4, <3>1, ReceivedSame, HandedOverSame, SignalSame
           DEF Verdict, At, Uncounted
    <2>5. Verdict(c)'
      <3>1. Verdict(c) /\ At(c, {"signal"})
        BY Zenon, <2>1, <2>3 DEF HInv, VerdictInv, At
      <3>2. /\ Missing(c) = {} /\ ~HandedOver(c) /\ future[c] # "value"
            /\ c \in mReadyResponses \/ mTerminate
            /\ c \in mReadyResponses \/ future[c] = "none"
            /\ session[c] = Received(c) /\ copied[c] \subseteq Counterparts[c]
            /\ c \in mCancelledRequests => c \notin held
            /\ isReady => AnsweredAs(c, "ready")
            /\ ~Unanswered(c) => mTerminate \/ future[c] # "none"
        BY Zenon, <2>1, <3>1 DEF Verdict, At
      <3>3. session[c] = Counterparts[c]
        BY Zenon, <2>3, <3>2, SessionFull
      <3>4. \A p \in Counterparts[c] : signal[c][p] # "none"
        BY Zenon, <3>3 DEF SignalsSent
      <3>5. ~Unanswered(c)
        BY Zenon, <2>3, <3>4, SenderAssumption DEF Unanswered, Handover!Unanswered
      <3>6. isReady => Promised(c)
        BY Zenon, <3>2, <3>4 DEF AnsweredAs, Promised, Handover!Promised
      <3>. QED
        BY ZenonT(30), <2>1, <2>3, <3>2, <3>5, <3>6, ReceivedSame, HandedOverSame,
           SignalSame
           DEF Verdict, At, Uncounted
    <2>6. VerdictInv'
      BY Zenon, <2>1, <2>4, <2>5 DEF VerdictInv
    <2>. QED
      BY Zenon, <2>2, <2>6 DEF HInv
  \* The agent sends in the response thread.
  <1>2. ASSUME SendHere PROVE HInv'
    <2>. USE <1>2
    <2>. DEFINE c == mCurrentRequest
    <2>1. /\ UNCHANGED <<asked, wire, mSendQueue, sending, mReadyResponses,
                         mCancelledRequests, mCurrentRequest, mTerminate, held,
                         info, isReady, mRemainSendCount, signal>>
          /\ pc = "send" /\ c \in Requests /\ c \in mReadyResponses
          /\ future[c] = "pending"
      BY Zenon DEF SendHere, executor, ResponderInv, OwnerInv, Erasing, IInv
    <2>2. CountInv'
      BY Zenon, <2>1, ReceivedSame DEF CountInv, At, Uncounted, HInv, SendHere
    <2>3. Verdict(c) /\ Promised(c)
      BY Zenon, <2>1 DEF HInv, VerdictInv, Verdict, At
    <2>4. /\ \A r \in Requests : r # c => /\ future'[r] = future[r]
                                           /\ session'[r] = session[r]
                                           /\ copied'[r] = copied[r]
          /\ copied'[c] \subseteq Counterparts[c]
          /\ \/ pc' = "send" /\ future' = future /\ session' = session
             \/ pc' = "erase" /\ future'[c] = "value"
             \/ pc' = "erase" /\ future'[c] = "exception" /\ session' = session
      BY Zenon, <2>1, <2>3, SendEffect DEF SendHere
    <2>5. ASSUME NEW r \in Requests, r # c PROVE Verdict(r)'
      <3>1. Verdict(r)
        BY Zenon DEF HInv, VerdictInv
      <3>. QED
        BY ZenonT(30), <2>1, <2>4, <2>5, <3>1, ReceivedSame, HandedOverSame, SignalSame
           DEF Verdict, At, Uncounted
    <2>6. Verdict(c)'
      BY ZenonT(30), <2>1, <2>3, <2>4, ReceivedSame, HandedOverSame, SignalSame,
         PromisedIsAnswered
         DEF Verdict, At, Uncounted
    <2>7. VerdictInv'
      BY Zenon, <2>1, <2>5, <2>6 DEF VerdictInv
    <2>. QED
      BY Zenon, <2>2, <2>7 DEF HInv
  \* The response thread is lost.
  <1>3. ASSUME SendUndefined PROVE HInv'
    <2>. USE <1>3
    <2>1. CountInv'
      BY Zenon, ReceivedSame DEF CountInv, HInv, SendUndefined, peers
    <2>2. VerdictInv'
      BY ZenonT(30), ReceivedSame, HandedOverSame, SignalSame
         DEF VerdictInv, Verdict, At, Uncounted, HInv, SendUndefined,
             executor, peers
    <2>. QED
      BY Zenon, <2>1, <2>2 DEF HInv
  \* The sent response is erased.
  <1>4. ASSUME RemoveResponse PROVE HInv'
    <2>. USE <1>4
    <2>1. CountInv'
      BY Zenon, ReceivedSame DEF CountInv, At, Uncounted, HInv, RemoveResponse, peers
    <2>2. VerdictInv'
      BY ZenonT(30), ReceivedSame, HandedOverSame, SignalSame
         DEF VerdictInv, Verdict, At, Uncounted, HInv, RemoveResponse,
             executor, peers
    <2>. QED
      BY Zenon, <2>1, <2>2 DEF HInv
  \* The cancelled response is erased.
  <1>5. ASSUME DropCancelled PROVE HInv'
    <2>. USE <1>5
    <2>1. CountInv'
      BY Zenon, ReceivedSame DEF CountInv, At, Uncounted, HInv, DropCancelled, peers
    <2>2. /\ pc = "drop" /\ pc' = "check"
          /\ mReadyResponses' = mReadyResponses \ {mCurrentRequest}
          /\ mCancelledRequests' = mCancelledRequests \ {mCurrentRequest}
          /\ UNCHANGED <<asked, wire, signal, session, copied, mSendQueue,
                         sending, mTerminate, held>>
      BY Zenon DEF DropCancelled, executor, peers
    <2>3. /\ future'[mCurrentRequest] = "exception"
          /\ \A r \in Requests : r # mCurrentRequest => future'[r] = future[r]
      BY Zenon DEF DropCancelled, BrokenPromise, IInv, TypeOK, ResponderInv
    <2>4. ASSUME NEW r \in Requests PROVE Verdict(r)'
      <3>1. Verdict(r)
        BY Zenon DEF HInv, VerdictInv
      <3>2. CASE r # mCurrentRequest
        BY Zenon, <2>2, <2>3, <3>1, <3>2, ReceivedSame, HandedOverSame, SignalSame
           DEF Verdict, At, Uncounted
      <3>3. CASE r = mCurrentRequest
        <4>1. /\ ~Unanswered(r) /\ ~HandedOver(r) /\ Missing(r) = {}
              /\ future[r] # "value"
          BY Zenon, <2>2, <3>1, <3>3
             DEF IInv, ResponderInv, OwnerInv, Erasing, At, Verdict
        <4>. QED
          BY Zenon, <2>2, <2>3, <3>1, <3>3, <4>1, ReceivedSame, HandedOverSame, SignalSame
             DEF Verdict, At, Uncounted
      <3>. QED
        BY Zenon, <3>2, <3>3
    <2>5. VerdictInv'
      BY Zenon, <2>4 DEF VerdictInv
    <2>. QED
      BY Zenon, <2>1, <2>5 DEF HInv
  \* The unlocked check.
  <1>6. ASSUME CheckEmpty PROVE HInv'
    <2>. USE <1>6
    <2>1. CountInv'
      BY Zenon, ReceivedSame DEF CountInv, At, Uncounted, HInv, CheckEmpty, peers
    <2>2. VerdictInv'
      BY ZenonT(40), ReceivedSame, HandedOverSame, SignalSame
         DEF VerdictInv, Verdict, At, Uncounted, HInv, CheckEmpty, executor,
             peers
    <2>. QED
      BY Zenon, <2>1, <2>2 DEF HInv
  \* mAnyReady is cleared.
  <1>7. ASSUME ClearAnyReady PROVE HInv'
    <2>. USE <1>7
    <2>1. CountInv'
      BY Zenon, ReceivedSame DEF CountInv, At, Uncounted, HInv, ClearAnyReady, peers
    <2>2. VerdictInv'
      BY ZenonT(30), ReceivedSame, HandedOverSame, SignalSame
         DEF VerdictInv, Verdict, At, Uncounted, HInv, ClearAnyReady,
             executor, peers
    <2>. QED
      BY Zenon, <2>1, <2>2 DEF HInv
  \* The response is handed over.
  <1>8. ASSUME SendLater PROVE HInv'
    <2>. USE <1>8
    <2>0. \A q \in Requests : HandedOver(q)' => HandedOver(q) \/ q = mCurrentRequest
      BY DEF HandedOver, Queued, SendLater, executor
    <2>1. CountInv'
      BY Zenon, ReceivedSame DEF CountInv, At, Uncounted, HInv, SendLater, peers
    <2>2. VerdictInv'
      BY ZenonT(30), <2>0, ReceivedSame, SignalSame, PromisedIsAnswered
         DEF VerdictInv, Verdict, At, Uncounted, HInv, SendLater, executor,
             peers
    <2>. QED
      BY Zenon, <2>1, <2>2 DEF HInv
  \* A sending thread takes a response.
  <1>9. ASSUME NEW t \in SendThreads, PopResponse(t) PROVE HInv'
    <2>. USE <1>9
    <2>0. \A q \in Requests : HandedOver(q)' => HandedOver(q)
      BY DEF HandedOver, Queued, PopResponse
    <2>1. CountInv'
      BY Zenon, ReceivedSame
         DEF CountInv, At, Uncounted, Count, HInv, PopResponse, responder,
             executor, peers
    <2>2. VerdictInv'
      BY ZenonT(30), <2>0, ReceivedSame, SignalSame
         DEF VerdictInv, Verdict, At, Uncounted, HInv, PopResponse, responder,
             executor, peers
    <2>. QED
      BY Zenon, <2>1, <2>2 DEF HInv
  \* A sending thread sends a response.
  <1>10. ASSUME NEW t \in SendThreads, SendAndRemoveResponse(t) PROVE HInv'
    <2>. USE <1>10
    <2>0. PICK h \in Requests : h = sending[t] /\ HandedOver(h)
      BY Zenon DEF TypeOK, HandedOver, IInv, SendAndRemoveResponse
    <2>1. \A q \in Requests : HandedOver(q)' => HandedOver(q)
      <3>1. UNCHANGED mSendQueue
            /\ (sending' = sending \/ sending' = [sending EXCEPT ![t] = None])
        BY Zenon DEF SendAndRemoveResponse
      <3>2. \A u \in SendThreads : sending'[u] = sending[u] \/ sending'[u] = None
        BY Zenon, <3>1 DEF TypeOK, IInv
      <3>. QED
        BY Zenon, <3>1, <3>2, SenderAssumption DEF HandedOver, Queued
    <2>2. CountInv'
      BY Zenon, ReceivedSame
         DEF CountInv, At, Uncounted, Count, HInv, SendAndRemoveResponse,
             responder, executor
    <2>3. Verdict(h) /\ Promised(h) /\ future[h] = "pending" /\ ~At(h, {"signal", "send"})
      BY Zenon, <2>0 DEF IInv, OwnerInv, HInv, VerdictInv, Verdict
    <2>4. /\ \A r \in Requests : r # h => /\ future'[r] = future[r]
                                           /\ session'[r] = session[r]
                                           /\ copied'[r] = copied[r]
          /\ copied'[h] \subseteq Counterparts[h]
          /\ \/ future' = future /\ session' = session
             \/ future'[h] = "value"
             \/ future'[h] = "exception" /\ session' = session
      BY Zenon, <2>0, <2>3, SendEffect DEF SendAndRemoveResponse
    <2>5. UNCHANGED <<pc, info, isReady, mCurrentRequest, mReadyResponses,
                      mCancelledRequests, mTerminate, held, asked, wire, signal>>
      BY Zenon DEF SendAndRemoveResponse, responder, executor
    <2>6. ASSUME NEW r \in Requests, r # h PROVE Verdict(r)'
      <3>1. Verdict(r)
        BY Zenon DEF HInv, VerdictInv
      <3>. QED
        BY ZenonT(40), <2>1, <2>4, <2>5, <2>6, <3>1, ReceivedSame, SignalSame
           DEF Verdict, At, Uncounted
    <2>7. Verdict(h)'
      BY ZenonT(40), <2>1, <2>3, <2>4, <2>5, ReceivedSame, SignalSame,
         PromisedIsAnswered
         DEF Verdict, At, Uncounted
    <2>8. VerdictInv'
      BY Zenon, <2>6, <2>7 DEF VerdictInv
    <2>. QED
      BY Zenon, <2>2, <2>8 DEF HInv
  <1>. QED
    BY Zenon, <1>1, <1>2, <1>3, <1>4, <1>5, <1>6, <1>7, <1>8, <1>9, <1>10, <1>11

(* Nothing changes.                                                        *)
LEMMA StutterHInv == ASSUME IInv, HInv, UNCHANGED vars PROVE HInv'
  <1>1. CountInv'
    BY Zenon, ReceivedSame
       DEF CountInv, At, Uncounted, Count, HInv, vars, responder, peers
  <1>2. VerdictInv'
    BY ZenonT(30), ReceivedSame, HandedOverSame, SignalSame
       DEF VerdictInv, Verdict, At, Uncounted, HInv, vars, responder,
           executor, peers
  <1>. QED
    BY Zenon, <1>1, <1>2 DEF HInv

(* HInv is inductive relative to IInv.                                     *)
LEMMA NextHInv ==
  ASSUME CountingLaws, IInv, HInv, [Next]_vars
  PROVE  HInv'
  BY Zenon, ExecutorHInv, ReceiveHInv, AnswerHInv, StutterHInv
     DEF Next, Response, HandleAsyncSend

(* Sessions are complete when their request is signalled or sent.          *)
LEMMA InvFull == ASSUME IInv, HInv PROVE FullSession
  <1>. USE DEF IInv, HInv
  <1>2. pc \in {"signal", "send"} => session[mCurrentRequest]
                                      = Counterparts[mCurrentRequest]
    BY ZenonT(30), SessionFull DEF ResponderInv, VerdictInv, Verdict, At
  <1>3. ASSUME NEW q \in Requests, HandedOver(q)
        PROVE  session[q] = Counterparts[q]
    BY Zenon, <1>3, PromisedSession DEF OwnerInv, VerdictInv, Verdict
  <1>. QED
    BY Zenon, <1>2, <1>3 DEF FullSession, InTransfer, HandedOver, Queued

(* The steps that the interface does not see.                              *)
LEMMA HiddenStep ==
  ASSUME \/ SendAsyncNotify
         \/ \E q \in Requests : \/ CheckContextTransferStatus(q)
                                \/ \E p \in Peers : Ask(q, p)
         \/ ResponseTop \/ ResponseExit \/ RecvRequestInfo \/ SetCurrent
         \/ Lookup \/ Await \/ RespondEarlier \/ RespondLast \/ SignalsSent
         \/ SendLater
         \/ SendUndefined \/ RemoveResponse \/ CheckEmpty \/ ClearAnyReady
         \/ \E t \in SendThreads : PopResponse(t)
         \/ UNCHANGED vars
  PROVE  UNCHANGED Handover!handover
  BY Zenon
     DEF Handover!handover, SendAsyncNotify, CheckContextTransferStatus, Ask,
         ResponseTop, ResponseExit, RecvRequestInfo, SetCurrent, Lookup, Await,
         RespondEarlier, RespondLast, SignalsSent, SendLater, SendUndefined,
         RemoveResponse, CheckEmpty, ClearAnyReady, PopResponse, vars, executor, peers

(* sendAsync offers the request.                                           *)
LEMMA OfferStep ==
  ASSUME NEW q \in Requests, IInv, SendAsync(q) PROVE Handover!Offer(q)
  BY Zenon DEF IInv, ExecutorInv, SendAsync, peers, Handover!Offer

(* cancelRequest succeeds before the counterparts are answered, or when    *)
(* the response thread has failed.                                         *)
LEMMA CancelStep ==
  ASSUME NEW q \in Requests, IInv, HInv, CancelRequest(q)
  PROVE  Handover!Release(q)
  <1>1. Unanswered(q)
    BY Zenon DEF VerdictInv, Verdict, At, HInv, CancelRequest, Cancellable
  <1>2. future[q] # "none"
    BY Zenon DEF ExecutorInv, IInv, CancelRequest
  <1>3. future[q] \in {"pending", "value", "exception"}
    BY Zenon, <1>2 DEF TypeOK, IInv
  <1>. QED
    BY Zenon, <1>1, <1>3 DEF Unanswered, Handover!Release, CancelRequest, peers

(* Only a settled request is freed after its transfer.                     *)
LEMMA FinishStep ==
  ASSUME NEW q \in Requests, IInv, TerminateFinished(q)
  PROVE  Handover!Release(q)
  BY Zenon DEF IInv, ExecutorInv, Settled, TerminateFinished, peers, Handover!Release

(* terminate closes the sender.                                            *)
LEMMA CloseStep == ASSUME Terminate PROVE Handover!Close
  BY Zenon DEF Terminate, executor, peers, Handover!Close

(* The exception handler reaches pending promises only.                    *)
LEMMA ThrowStep ==
  ASSUME IInv, ResponseThrows PROVE Handover!Fail(mReadyResponses)
  BY Zenon DEF IInv, OwnerInv, Erasing, ResponseThrows, executor, peers,
         Handover!Fail

(* A signal answers a counterpart as the others were, by whether the       *)
(* blocks are still held.                                                  *)
LEMMA AnswerStep ==
  ASSUME IInv, HInv, SendReadySignal
  PROVE  \E p \in Peers : Handover!Answer(mCurrentRequest, p)
  <1>. DEFINE c == mCurrentRequest
  <1>1. PICK p \in Counterparts[c], v \in {"ready", "cancelled"} :
          /\ c \in Requests /\ p \in Peers /\ signal[c][p] = "none"
          /\ v = IF isReady THEN "ready" ELSE "cancelled"
          /\ AnsweredAs(c, v)
          /\ signal' = [signal EXCEPT ![c] = [@ EXCEPT ![p] = v]]
    BY Zenon, SignalOne
  <1>2. /\ pc = "signal"
        /\ UNCHANGED <<held, future, copied, mTerminate>>
    BY Zenon DEF SendReadySignal, executor
  <1>3. isReady => /\ c \in held
                   /\ future[c] = "pending" \/ (mTerminate /\ future[c] = "none")
    <2>1. isReady => c \notin mCancelledRequests
      BY Zenon, <1>2 DEF IInv, ResponderInv
    <2>2. /\ c \in mReadyResponses \/ mTerminate
          /\ c \in mReadyResponses \/ future[c] = "none"
      BY Zenon, <1>1, <1>2 DEF HInv, VerdictInv, Verdict, At
    <2>3. c \in mReadyResponses => future[c] = "pending"
      BY Zenon, <1>2 DEF IInv, OwnerInv, Erasing
    <2>4. isReady => c \in held \/ Settled(c)
      BY Zenon, <1>1, <2>1 DEF IInv, ExecutorInv
    <2>. QED
      BY Zenon, <2>2, <2>3, <2>4 DEF Settled
  <1>4. ~isReady => c \notin held
    BY Zenon, <1>1, <1>2 DEF IInv, ResponderInv, HInv, VerdictInv, Verdict
  <1>5. Handover!MayAnswer(c, v)
    BY Zenon, <1>1, <1>3, <1>4 DEF Handover!MayAnswer
  <1>6. \A s \in Counterparts[c] : signal[c][s] \in {"none", v}
    BY Zenon, <1>1 DEF AnsweredAs
  <1>7. Handover!Answer(c, p)
    BY Zenon, <1>1, <1>2, <1>5, <1>6 DEF Handover!Answer
  <1>. QED
    BY Zenon, <1>1, <1>7

(* A send of a request that is promised and held delivers to one more      *)
(* counterpart, completes the request or fails.                            *)
LEMMA SendStep ==
  ASSUME IInv, HInv, NEW q \in Requests, SendSync(q) \/ SendEnds(q),
         future[q] = "pending", Promised(q), q \in held,
         UNCHANGED <<held, signal, mTerminate>>
  PROVE  (\E p \in Peers : Handover!Deliver(q, p)) \/ Handover!Complete(q)
         \/ Handover!Fail({q})
  <1>1. session[q] = Counterparts[q] /\ copied[q] \subseteq Counterparts[q]
    BY Zenon, PromisedSession DEF HInv, VerdictInv, Verdict
  <1>2. CASE SendSync(q)
    <2>1. PICK p \in Peers : /\ p \in session[q] \ copied[q]
                             /\ copied' = [copied EXCEPT ![q] = @ \cup {p}]
                             /\ future' = future
      BY Zenon, <1>2 DEF SendSync
    <2>2. Handover!Deliver(q, p)
      BY Zenon, <1>1, <2>1 DEF Handover!Deliver, Promised
    <2>. QED
      BY Zenon, <2>2
  <1>3. CASE SendEnds(q)
    <2>1. UNCHANGED copied
      BY Zenon, <1>3 DEF SendEnds
    <2>2. CASE /\ session[q] \subseteq copied[q]
               /\ future' = [future EXCEPT ![q] = "value"]
      <3>1. copied[q] = Counterparts[q]
        BY Zenon, <1>1, <2>2
      <3>. QED
        BY Zenon, <2>1, <2>2, <3>1 DEF Handover!Complete
    <2>3. CASE future' = [future EXCEPT ![q] = "exception"]
      BY Zenon, <2>1, <2>3 DEF IInv, TypeOK, Handover!Fail
    <2>. QED
      BY Zenon, <1>3, <2>2, <2>3 DEF SendEnds
  <1>. QED
    BY Zenon, <1>2, <1>3

(* The response thread sends a request that is promised and held.          *)
LEMMA SendHereStep ==
  ASSUME IInv, HInv, SendHere
  PROVE  \E q \in Requests : \/ \E p \in Peers : Handover!Deliver(q, p)
                             \/ Handover!Complete(q) \/ Handover!Fail({q})
  <1>. DEFINE c == mCurrentRequest
  <1>1. /\ c \in Requests /\ pc = "send" /\ c \in mReadyResponses
        /\ SendSync(c) \/ SendEnds(c)
        /\ UNCHANGED <<held, signal, mTerminate>>
    BY Zenon DEF IInv, ResponderInv, SendHere, executor
  <1>2. future[c] = "pending" /\ c \in InTransfer
    BY Zenon, <1>1 DEF IInv, OwnerInv, Erasing, InTransfer
  <1>3. Promised(c)
    BY Zenon, <1>1 DEF HInv, VerdictInv, Verdict, At
  <1>4. c \in held
    BY Zenon, <1>2, InvImplies DEF ReadOnlyWhileHeld
  <1>. QED
    BY Zenon, <1>1, <1>2, <1>3, <1>4, SendStep

(* A sending thread sends a request that is promised and held.             *)
LEMMA SendThereStep ==
  ASSUME IInv, HInv, NEW t \in SendThreads, SendAndRemoveResponse(t)
  PROVE  \E q \in Requests : \/ \E p \in Peers : Handover!Deliver(q, p)
                             \/ Handover!Complete(q) \/ Handover!Fail({q})
  <1>. DEFINE h == sending[t]
  <1>1. /\ h \in Requests
        /\ SendSync(h) \/ SendEnds(h)
        /\ UNCHANGED <<held, signal, mTerminate>>
        /\ HandedOver(h) /\ h \in InTransfer
    BY Zenon DEF IInv, TypeOK, SendAndRemoveResponse, executor, HandedOver,
           InTransfer
  <1>2. future[h] = "pending" /\ Promised(h)
    BY Zenon, <1>1 DEF IInv, OwnerInv, HInv, VerdictInv, Verdict
  <1>3. h \in held
    BY Zenon, <1>1, InvImplies DEF ReadOnlyWhileHeld
  <1>. QED
    BY Zenon, <1>1, <1>2, <1>3, SendStep

(* Erasing a cancelled response breaks its promise.                        *)
LEMMA DropStep ==
  ASSUME IInv, DropCancelled PROVE Handover!Fail({mCurrentRequest})
  <1>1. mCurrentRequest \in Requests /\ future[mCurrentRequest] = "pending"
    BY Zenon DEF IInv, ResponderInv, OwnerInv, Erasing, DropCancelled
  <1>. QED
    BY Zenon, <1>1
       DEF IInv, TypeOK, DropCancelled, BrokenPromise, executor, peers,
           Handover!Fail

(* The initial states map to initial states.                               *)
LEMMA InitHandover == Init => Handover!Init
  BY DEF Init, Handover!Init

(* Every step maps to a step of the interface or to none.                  *)
LEMMA StepHandover ==
  ASSUME IInv, HInv, [Next]_vars
  PROVE  [Handover!Next]_Handover!handover
  <1>1. CASE \E q \in Requests : \/ SendAsync(q) \/ CancelRequest(q)
                                 \/ TerminateFinished(q)
    BY Zenon, <1>1, OfferStep, CancelStep, FinishStep DEF Handover!Next
  <1>2. CASE Terminate
    BY Zenon, <1>2, CloseStep DEF Handover!Next
  <1>3. CASE ResponseThrows \/ DropCancelled
    <2>1. mReadyResponses \in SUBSET Requests
      BY Zenon DEF IInv, TypeOK
    <2>2. DropCancelled => {mCurrentRequest} \in SUBSET Requests
      BY Zenon DEF DropCancelled, IInv, ResponderInv
    <2>. QED
      BY Zenon, <1>3, <2>1, <2>2, ThrowStep, DropStep DEF Handover!Next
  <1>4. CASE SendReadySignal
    BY Zenon, <1>4, AnswerStep, SignalOne DEF Handover!Next
  <1>5. CASE SendHere \/ \E t \in SendThreads : SendAndRemoveResponse(t)
    <2>1. PICK q \in Requests : \/ \E p \in Peers : Handover!Deliver(q, p)
                               \/ Handover!Complete(q) \/ Handover!Fail({q})
      BY Zenon, <1>5, SendHereStep, SendThereStep
    <2>2. {q} \in SUBSET Requests
      OBVIOUS
    <2>. QED
      BY Zenon, <2>1 DEF Handover!Next
  <1>. QED
    BY Zenon, <1>1, <1>2, <1>3, <1>4, <1>5, HiddenStep
       DEF Next, Response, HandleAsyncSend

-----------------------------------------------------------------------------
(* The laws of finite sets, and the theorems.                              *)
LOCAL INSTANCE FiniteSetTheorems

(* Finite and Size in terms of the library.                                *)
LEMMA LibrarySizes ==
  (\A S : IsFiniteSet(S) <=> Finite(S)) /\ (\A S : Cardinality(S) = Size(S))
  <1>1. \A S : IsFiniteSet(S) <=> Finite(S)
    BY Zenon DEF IsFiniteSet, Finite
  <1>2. \A S : Cardinality(S) = Size(S)
    BY Zenon DEF Cardinality, Size
  <1>. QED
    BY Zenon, <1>1, <1>2

(* The laws hold, because there are finitely many peers.                   *)
LEMMA LawsHold == CountingLaws
  <1>1. IsFiniteSet(Peers)
    BY Zenon, SizesSpelledOut, LibrarySizes
  <1>2. Cardinality(Peers) \in Nat
    BY Zenon, <1>1, FS_CardinalityType
  <1>3. ASSUME NEW S \in SUBSET Peers
        PROVE  /\ Cardinality(S) \in Nat /\ Cardinality(S) <= Cardinality(Peers)
               /\ Cardinality(S) = 0 <=> S = {}
               /\ \A p \in S : Cardinality(S \ {p}) = Cardinality(S) - 1
    <2>1. IsFiniteSet(S) /\ Cardinality(S) <= Cardinality(Peers)
      BY Zenon, <1>1, FS_Subset
    <2>. QED
      BY Zenon, <2>1, FS_CardinalityType, FS_EmptySet, FS_RemoveElement
  <1>. QED
    BY Zenon, <1>2, <1>3, LibrarySizes DEF CountingLaws

(* IInv is an inductive invariant of CacheSender.                          *)
THEOREM Inductive == Spec => []IInv
  <1>1. Init => IInv
    BY Zenon, LawsHold, InitInv
  <1>2. IInv /\ [Next]_vars => IInv'
    BY Zenon, LawsHold, NextInv
  <1>. QED
    BY <1>1, <1>2, PTL DEF Spec

(* The members and locals of the sender keep their types; the count of     *)
(* remaining counterparts never becomes negative (the TLLM_CHECK of        *)
(* sendResponse).                                                          *)
THEOREM SenderTypes == Spec => []TypeOK
  <1>1. IInv => TypeOK
    BY Zenon DEF IInv
  <1>. QED
    BY <1>1, Inductive, PTL

(* The executor never frees KV blocks that a thread of the sender is       *)
(* reading or will read.                                                   *)
THEOREM NoReadAfterFree == Spec => []ReadOnlyWhileHeld
  BY Inductive, InvImplies, PTL

(* HInv holds with IInv in every reachable state.                          *)
THEOREM HandoverInductive == Spec => [](IInv /\ HInv)
  <1>1. IInv /\ HInv /\ [Next]_vars => HInv'
    BY Zenon, LawsHold, NextHInv
  <1>. QED
    BY <1>1, InitHInv, Inductive, PTL DEF Spec

(* A session is complete when its request is signalled or sent: format and *)
(* sendReadySignal never meet a connection that is not set.                *)
THEOREM SessionsComplete == Spec => []FullSession
  <1>1. IInv /\ HInv => FullSession
    BY Zenon, InvFull
  <1>. QED
    BY <1>1, HandoverInductive, PTL

(* The sender with its threads implements its interface: the counterparts  *)
(* of a request are answered once and never differently, get the data only *)
(* after all were promised it, while its blocks are held and its future is *)
(* pending, which gets its value only when all have the data, and are      *)
(* refused exactly when it was cancelled before the answer.  A connection  *)
(* that throws may end the answers or the sends after any number of them.  *)
THEOREM SenderImplementsHandover == Spec => ImplementsHandover
  <1>1. IInv /\ HInv /\ [Next]_vars => [Handover!Next]_Handover!handover
    BY Zenon, StepHandover
  <1>. QED
    BY <1>1, InitHandover, HandoverInductive, PTL
       DEF Spec, ImplementsHandover, Handover!Spec
=============================================================================
