--------------------------- MODULE RankAgreement ---------------------------
(***************************************************************************)
(* A generation server on several tensor-parallel ranks that receives from *)
(* a context server.  Each rank runs its own executor loop and its own     *)
(* request thread; the ranks meet in collective calls only: the broadcast  *)
(* of new requests, the gathering of request ids in checkGenTransferStatus *)
(* and checkContextTransferStatus, and the forward step.  A rank enters a  *)
(* collective by what it knows itself, so the ranks must decide alike.     *)
(*                                                                         *)
(* The context side is the interface CacheHandover, which CacheSender      *)
(* implements.                                                             *)
(***************************************************************************)
EXTENDS Integers, Sequences, FiniteSets, Functions

CONSTANTS
    Requests,     \* generation-only requests
    Ranks,        \* the ranks of the group (mGroupComm)
    Rank0,        \* the one with the request queue
    Cancels,      \* whether the user cancels requests
    NoRequest

ASSUME RankAssumption ==
    /\ IsFiniteSet(Ranks) /\ Rank0 \in Ranks
    /\ IsFiniteSet(Requests)
    /\ Cancels \in BOOLEAN
    /\ NoRequest \notin Requests

VARIABLES
    owned, result, verdict, delivered, closed,  \* the context server
    \* of each rank: the executor loop
    at,         \* where it is
    active,     \* active_requests
    state,      \* LlmRequest states
    canceled,   \* canceled_req_ids
    batch,      \* the scheduled batch
    ready,      \* ids given to gatherRequestIds
    atLeast,    \* atLeastRequestNum
    take,       \* toCompleteIdSet
    next,       \* where to go after the status check
    mRequesterFutures,
    \* of each rank: the request thread
    mRequestsQueue, job, asked, future,
    withdrawn   \* history: requests the user has cancelled

context == <<owned, result, verdict, delivered, closed>>
status == <<ready, atLeast, take, next>>
thread == <<mRequestsQueue, job, asked, future>>
vars == <<context, at, active, state, canceled, batch, status,
          mRequesterFutures, thread, withdrawn>>

Context == INSTANCE CacheHandover
           WITH Peers <- Ranks, Counterparts <- [q \in Requests |-> Ranks]

OnEach(v) == [r \in Ranks |-> v]

Init ==
    /\ Context!Init
    /\ at = OnEach("fetch")
    /\ active = OnEach(<< >>)
    /\ state = OnEach([q \in Requests |-> "new"])
    /\ canceled = OnEach({}) /\ batch = OnEach({})
    /\ ready = OnEach({}) /\ atLeast = OnEach(0)
    /\ take = OnEach({}) /\ next = OnEach("start")
    /\ mRequesterFutures = OnEach(<< >>) /\ mRequestsQueue = OnEach(<< >>)
    /\ job = OnEach(NoRequest)
    /\ asked = OnEach({})
    /\ future = OnEach([q \in Requests |-> "none"])
    /\ withdrawn = {}

-----------------------------------------------------------------------------
(* Steps of one rank's executor loop, and the collectives.                 *)

AllAt(label) == \A r \in Ranks : at[r] = label

\* The elements of the list s that are in S, in the order of s.
Kept(s, S) ==
    LET kept == {i \in DOMAIN s : s[i] \in S}
        Nth(n) == CHOOSE i \in kept : Cardinality({j \in kept : j <= i}) = n
    IN  [n \in 1 .. Cardinality(kept) |-> s[Nth(n)]]

In(r, S) == {q \in Range(active[r]) : state[r][q] \in S}

\* _fetch_and_activate_new_requests: rank 0 takes new requests and
\* cancellations from its queue, waiting while it has nothing active, and
\* broadcasts them.
Fetch ==
    /\ AllAt("fetch")
    /\ \E N \in SUBSET {q \in Requests : state[Rank0][q] = "new"},
          C \in SUBSET (IF Cancels THEN Range(active[Rank0]) ELSE {}) :
          /\ active[Rank0] = << >> => N # {}
          /\ \E new \in Bijection(1 .. Cardinality(N), N) :
                active' = [r \in Ranks |-> active[r] \o new]
          /\ state' = [r \in Ranks |-> [q \in Requests |->
                         IF q \in N THEN "init" ELSE state[r][q]]]
          /\ canceled' = [r \in Ranks |-> canceled[r] \cup C]
          /\ withdrawn' = withdrawn \cup C
    /\ at' = OnEach("status")
    /\ UNCHANGED <<context, batch, status, mRequesterFutures, thread>>

Settled(r) == {q \in Range(mRequesterFutures[r]) :
                  future[r][q] \in {"value", "exception"}}

\* checkGenTransferStatus up to gatherRequestIds; futures is the rank's list.
EnterStatus(r, futures, inProgress, then) ==
    /\ ready' = [ready EXCEPT ![r] = Settled(r)]
    /\ atLeast' = [atLeast EXCEPT ![r] = IF inProgress THEN 1 ELSE 0]
    /\ mRequesterFutures' = [mRequesterFutures EXCEPT ![r] = futures]
    /\ next' = [next EXCEPT ![r] = then]
    /\ at' = [at EXCEPT ![r] = "gather"]
    /\ UNCHANGED take

\* _check_disagg_gen_transfer_status
CheckStatus(r) ==
    /\ at[r] = "status"
    /\ IF In(r, {"in_progress"}) # {}
       THEN EnterStatus(r, mRequesterFutures[r],
                        In(r, {"in_progress"}) = Range(active[r]), "start")
       ELSE /\ at' = [at EXCEPT ![r] = "start"]
            /\ UNCHANGED <<status, mRequesterFutures>>
    /\ UNCHANGED <<context, active, state, canceled, batch, thread, withdrawn>>

\* frequencyMap
Frequency(q) == Cardinality({r \in Ranks : q \in ready[r]})

\* Candidates for the head of freqVec; ranks that gathered the same ids sort
\* them alike.
MostFrequent ==
    {q \in UNION {ready[r] : r \in Ranks} :
        \A p \in UNION {ready[r] : r \in Ranks} : Frequency(p) <= Frequency(q)}

\* Mutant: each rank goes by its own futures.
CompleteLocal(r, first) ==
    ready[r] \cup (IF atLeast[r] = 1 /\ ready[r] = {}
                   THEN {mRequesterFutures[r][1]} ELSE {})

\* toCompleteIdSet: what every rank has, and at least one request; first is
\* the head of freqVec, or NoRequest when it is empty.
Complete(r, first) ==
    {q \in Requests : Frequency(q) = Cardinality(Ranks)}
    \cup (IF atLeast[r] = 0 THEN {}
          ELSE IF first # NoRequest THEN {first}
          ELSE IF mRequesterFutures[r] # << >> THEN {mRequesterFutures[r][1]}
          ELSE {})

\* gatherRequestIds returns on every rank: in checkGenTransferStatus, or in
\* checkContextTransferStatus ("idle"), where a generation server has nothing
\* to complete.
GatherRequestIds ==
    /\ \E call \in {"gather", "idle"},
          first \in IF MostFrequent = {} THEN {NoRequest} ELSE MostFrequent :
          /\ AllAt(call)
          /\ take' = [r \in Ranks |->
                        {q \in Complete(r, first) : call = "gather"}
                        \cap Range(mRequesterFutures[r])]
    /\ at' = OnEach("take")
    /\ UNCHANGED <<context, active, state, canceled, batch, ready, atLeast,
                   next, mRequesterFutures, thread, withdrawn>>

\* _check_cache_transfer_errors and _handle_errors of rank r, whose states
\* are st.
Errors(r, st) == {q \in Range(active[r]) : st[q] = "error"}

AfterErrors(r, st) ==
    [q \in Requests |-> IF q \in Errors(r, st) THEN "done" ELSE st[q]]

Without(s, S) == Kept(s, Requests \ S)

\* The rest of the status check blocks on the chosen futures.
TakeFutures(r) ==
    /\ at[r] = "take" /\ take[r] \subseteq Settled(r)
    /\ LET st == [q \in Requests |->
                     IF q \notin take[r] THEN state[r][q]
                     ELSE IF future[r][q] = "value" THEN "complete" ELSE "error"]
       IN  /\ state' = [state EXCEPT ![r] = AfterErrors(r, st)]
           /\ active' = [active EXCEPT ![r] = Without(@, Errors(r, st))]
    /\ mRequesterFutures' = [mRequesterFutures EXCEPT ![r] =
                               Without(@, take[r])]
    /\ at' = [at EXCEPT ![r] = next[r]]
    /\ UNCHANGED <<context, canceled, batch, status, thread, withdrawn>>

\* Mutant: a rank starts the transfers in an order of its own.
StartOrders(r) ==
    Bijection(1 .. Cardinality(In(r, {"init"})), In(r, {"init"}))

\* The order in which a rank starts its transfers.
StartOrder(r) == {Kept(active[r], In(r, {"init"}))}

\* _schedule (all requests fit), _prepare_disagg_gen_init and
\* _recv_disagg_gen_cache with its status check; with nothing to do at all
\* the rank goes to checkContextTransferStatus.
Schedule(r) ==
    /\ at[r] = "start"
    /\ batch' = [batch EXCEPT ![r] = In(r, {"complete", "generating"})]
    /\ \E new \in StartOrder(r) :
          /\ state' = [state EXCEPT ![r] = [q \in Requests |->
                         IF q \in Range(new) THEN "in_progress" ELSE @[q]]]
          /\ mRequestsQueue' = [mRequestsQueue EXCEPT ![r] = @ \o new]
          /\ future' = [future EXCEPT ![r] = [q \in Requests |->
                          IF q \in Range(new) THEN "pending" ELSE @[q]]]
          /\ IF new # << >>
             THEN EnterStatus(r, mRequesterFutures[r] \o new,
                              \A q \in Range(active[r]) :
                                  state'[r][q] = "in_progress", "forward")
             ELSE /\ at' = [at EXCEPT ![r] =
                              IF batch'[r] = {} THEN "idle" ELSE "forward"]
                  /\ next' = [next EXCEPT ![r] = "forward"]
                  /\ UNCHANGED <<ready, atLeast, take, mRequesterFutures>>
    /\ UNCHANGED <<context, active, canceled, job, asked, withdrawn>>

\* An empty batch: the rest of the iteration is skipped.
SkipStep(r) ==
    /\ at[r] = "forward" /\ batch[r] = {}
    /\ at' = [at EXCEPT ![r] = "fetch"]
    /\ UNCHANGED <<context, active, state, canceled, batch, status,
                   mRequesterFutures, thread, withdrawn>>

\* The forward step; the ranks sample the same tokens, which finish D.
ForwardStep(D) ==
    /\ AllAt("forward") /\ \A r \in Ranks : batch[r] # {}
    /\ state' = [r \in Ranks |-> [q \in Requests |->
                   IF q \notin batch[r] THEN state[r][q]
                   ELSE IF q \in D THEN "done" ELSE "generating"]]
    /\ at' = OnEach("respond")
    /\ UNCHANGED <<context, active, canceled, batch, status,
                   mRequesterFutures, thread, withdrawn>>

\* _handle_canceled_requests and _handle_responses: a transfer is cancelled
\* only while it is queued on this rank.
HandleResponses(r) ==
    /\ at[r] = "respond"
    /\ LET here == canceled[r] \cap Range(active[r])
           queued == In(r, {"in_progress"}) \cap Range(mRequestsQueue[r])
           C == {q \in here : state[r][q] # "in_progress" \/ q \in queued}
       IN  /\ mRequestsQueue' = [mRequestsQueue EXCEPT ![r] =
                                   Without(@, C)]
           /\ future' = [future EXCEPT ![r] = [q \in Requests |->
                           IF q \in C \cap queued THEN "exception" ELSE @[q]]]
           /\ state' = [state EXCEPT ![r] = [q \in Requests |->
                          IF q \in C THEN "done" ELSE @[q]]]
           /\ active' = [active EXCEPT ![r] =
                           Without(@, C \cup In(r, {"done"}))]
           /\ canceled' = [canceled EXCEPT ![r] = here \ C]
    /\ at' = [at EXCEPT ![r] = "fetch"]
    /\ UNCHANGED <<context, batch, status, mRequesterFutures, job, asked,
                   withdrawn>>

-----------------------------------------------------------------------------
(* A rank's request thread.                                                *)

\* It takes a request and sends the request info.
PopRequest(r) ==
    /\ job[r] = NoRequest /\ mRequestsQueue[r] # << >>
    /\ job' = [job EXCEPT ![r] = Head(mRequestsQueue[r])]
    /\ asked' = [asked EXCEPT ![r] = @ \cup {Head(mRequestsQueue[r])}]
    /\ mRequestsQueue' = [mRequestsQueue EXCEPT ![r] = Tail(@)]
    /\ UNCHANGED <<context, at, active, state, canceled, batch, status,
                   mRequesterFutures, future, withdrawn>>

\* The ready signal and the data have arrived, or the request is refused,
\* which puts it in the error state; the promise is set in both cases.
Received(r) ==
    /\ job[r] # NoRequest
    /\ r \in delivered[job[r]] \/ verdict[job[r]][r] = "cancelled"
    /\ state' = [state EXCEPT ![r][job[r]] =
                   IF verdict[job[r]][r] = "cancelled" THEN "error" ELSE @]
    /\ future' = [future EXCEPT ![r][job[r]] = "value"]
    /\ job' = [job EXCEPT ![r] = NoRequest]
    /\ UNCHANGED <<context, at, active, canceled, batch, status,
                   mRequesterFutures, mRequestsQueue, asked, withdrawn>>

-----------------------------------------------------------------------------
\* The context server answers a request when all the ranks have asked, and
\* releases it when it has been sent or the user has cancelled it.
ContextServes(q) ==
    /\ \/ Context!Offer(q)
       \/ (\A r \in Ranks : q \in asked[r])
          /\ \E r \in Ranks : Context!Answer(q, r)
       \/ \E r \in Ranks : Context!Deliver(q, r)
       \/ Context!Complete(q)
       \/ (result[q] = "value" \/ q \in withdrawn) /\ Context!Release(q)
    /\ UNCHANGED <<at, active, state, canceled, batch, status,
                   mRequesterFutures, thread, withdrawn>>

Forward == \E D \in SUBSET batch[Rank0] : ForwardStep(D)

Meet == GatherRequestIds \/ Forward

Loop(r) == CheckStatus(r) \/ TakeFutures(r) \/ Schedule(r) \/ SkipStep(r)
           \/ HandleResponses(r)

RequestThread(r) == PopRequest(r) \/ Received(r)

Next ==
    \/ Fetch \/ Meet
    \/ \E r \in Ranks : Loop(r) \/ RequestThread(r)
    \/ \E q \in Requests : ContextServes(q)

(* Collectives return once all the ranks are in them, the threads and the  *)
(* context server make progress, and a request that is decoded again and   *)
(* again finishes.                                                         *)
Fairness ==
    /\ WF_vars(active[Rank0] # << >> /\ Fetch) /\ WF_vars(Meet)
    /\ \A r \in Ranks : WF_vars(Loop(r)) /\ WF_vars(RequestThread(r))
    /\ \A q \in Requests :
         /\ WF_vars(ContextServes(q))
         /\ SF_vars(\E D \in SUBSET batch[Rank0] : q \in D /\ ForwardStep(D))

Spec == Init /\ [][Next]_vars /\ Fairness

-----------------------------------------------------------------------------
(* Whenever the ranks meet at the top of the loop they agree on what is    *)
(* active, in which state, and on the order of the transfers they wait     *)
(* for, though each transfer ends at another time on each rank: a rank     *)
(* that saw a transfer end earlier waits for the others.                   *)
LockStep ==
    AllAt("fetch") => \A r, s \in Ranks :
        /\ active[r] = active[s] /\ state[r] = state[s]
        /\ mRequesterFutures[r] = mRequesterFutures[s]

\* r is in a collective: the broadcast, gatherRequestIds or the forward step.
Waiting(r) ==
    at[r] \in {"fetch", "gather", "idle"} \/ (at[r] = "forward" /\ batch[r] # {})

(* Ranks that wait in a collective wait in the same one, so that it can    *)
(* return, and ask the same of it: for gatherRequestIds the same number of *)
(* requests to complete and the same way on, for the forward step the same *)
(* batch, without which the collectives inside the model would not match.  *)
SameCollective ==
    \A r, s \in Ranks : Waiting(r) /\ Waiting(s) =>
        /\ at[r] = at[s]
        /\ at[r] = "gather" => next[r] = next[s] /\ atLeast[r] = atLeast[s]
        /\ at[r] = "forward" => batch[r] = batch[s]

(* No two request threads wait for each other: the context server answers  *)
(* only a request that every rank has asked for, so when two ranks wait    *)
(* for different requests, one of them has asked for the other's already.  *)
NoCrossWait ==
    \A r, s \in Ranks :
        job[r] # NoRequest /\ job[s] # NoRequest
            => job[r] \in asked[s] \/ job[s] \in asked[r]

Answered(q) == \A r \in Ranks : state[r][q] = "done" /\ q \notin Range(active[r])

(* Every request that rank 0 takes from its queue is finished on all the   *)
(* ranks: no rank is left alone in a collective.                           *)
EveryoneAnswered ==
    \A q \in Requests : q \in Range(active[Rank0]) ~> Answered(q)

(* "Verify server is still healthy after stress test by sending a normal   *)
(* request": whatever requests are cancelled, the others are answered.     *)
StillHealthy ==
    \A q \in Requests :
        q \in Range(active[Rank0]) ~> (Answered(q) \/ q \in withdrawn)
=============================================================================
