--------------------------- MODULE CacheHandover ---------------------------
(***************************************************************************)
(* What CacheSender promises of each request, as its interface in          *)
(* dataTransceiver.h puts it: the data of a request handed over stays      *)
(* valid until its future is synchronized, the future becomes valid once   *)
(* the data is fully sent, and a request that is cancelled is not sent.    *)
(* There are no threads, queues or sessions here; CacheSender implements   *)
(* this specification.                                                     *)
(***************************************************************************)
CONSTANTS
    Requests,
    Peers,
    Counterparts  \* the generation ranks a request goes to

VARIABLES
    owned,        \* requests whose KV blocks the executor holds
    result,       \* the future of a request
    verdict,      \* what each rank was told
    delivered,    \* the ranks that have the data
    closed        \* the sender shuts down

handover == <<owned, result, verdict, delivered, closed>>

\* No counterpart of q has been told anything yet.
Unanswered(q) == \A p \in Counterparts[q] : verdict[q][p] = "none"

\* Every counterpart of q has been told that it gets the data.
Promised(q) == \A p \in Counterparts[q] : verdict[q][p] = "ready"

Init ==
    /\ owned = Requests
    /\ result = [q \in Requests |-> "none"]
    /\ verdict = [q \in Requests |-> [p \in Peers |-> "none"]]
    /\ delivered = [q \in Requests |-> {}]
    /\ closed = FALSE

\* sendAsync
Offer(q) ==
    /\ ~closed /\ result[q] = "none"
    /\ result' = [result EXCEPT ![q] = "pending"]
    /\ UNCHANGED <<owned, verdict, delivered, closed>>

\* What may be answered for q: the data is promised only of a request that
\* was offered and is owned (at shutdown also of one that is still
\* computing), and refused only of one whose blocks are gone.
MayAnswer(q, v) ==
    \/ /\ v = "ready" /\ q \in owned
       /\ result[q] = "pending" \/ (closed /\ result[q] = "none")
    \/ v = "cancelled" /\ q \notin owned

\* sendReadySignal: a counterpart is answered, once and as the others were.
Answer(q, p) ==
    /\ p \in Counterparts[q] /\ verdict[q][p] = "none"
    /\ \E v \in {"ready", "cancelled"} :
          /\ MayAnswer(q, v)
          /\ \A s \in Counterparts[q] : verdict[q][s] \in {"none", v}
          /\ verdict' = [verdict EXCEPT ![q] = [@ EXCEPT ![p] = v]]
    /\ UNCHANGED <<owned, result, delivered, closed>>

\* sendSync: a counterpart gets the data, after all were promised it and
\* while the blocks are owned.
Deliver(q, p) ==
    /\ p \in Counterparts[q] \ delivered[q]
    /\ Promised(q) /\ q \in owned /\ result[q] = "pending"
    /\ delivered' = [delivered EXCEPT ![q] = @ \cup {p}]
    /\ UNCHANGED <<owned, result, verdict, closed>>

\* The data is fully sent.
Complete(q) ==
    /\ result[q] = "pending" /\ delivered[q] = Counterparts[q]
    /\ result' = [result EXCEPT ![q] = "value"]
    /\ UNCHANGED <<owned, verdict, delivered, closed>>

\* The requests of S end with an exception.
Fail(S) ==
    /\ \A q \in S : result[q] = "pending"
    /\ result' = [q \in Requests |->
                     IF q \in S THEN "exception" ELSE result[q]]
    /\ UNCHANGED <<owned, verdict, delivered, closed>>

\* The blocks are freed after the future is settled, or (cancelRequest)
\* before any counterpart was answered.
Release(q) ==
    /\ q \in owned
    /\ \/ result[q] \in {"value", "exception"}
       \/ result[q] = "pending" /\ Unanswered(q)
    /\ owned' = owned \ {q}
    /\ UNCHANGED <<result, verdict, delivered, closed>>

Close ==
    /\ closed' = TRUE
    /\ UNCHANGED <<owned, result, verdict, delivered>>

Next ==
    \/ \E q \in Requests :
          \/ Offer(q) \/ Complete(q) \/ Release(q)
          \/ \E p \in Peers : Answer(q, p) \/ Deliver(q, p)
    \/ \E S \in SUBSET Requests : Fail(S)
    \/ Close

Spec == Init /\ [][Next]_handover
=============================================================================
