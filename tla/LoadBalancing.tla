--------------------------- MODULE LoadBalancing ---------------------------
(***************************************************************************)
(* One role of the disaggregated server's request path: the HTTP client    *)
(* with its retries (OpenAIHttpClient) on top of LoadBalancingRouter,      *)
(* while servers join and leave.  Nothing waits while it holds the         *)
(* router's lock, so each router call is one step of the event loop.       *)
(***************************************************************************)
EXTENDS Integers, FiniteSets

CONSTANTS
    Requests,
    Streams,        \* the requests with stream = True
    Servers,        \* addresses
    MaxRetries,     \* _max_retries
    MaxChanges,     \* bound: changes of the server list
    NoServer

ASSUME BalancingAssumption ==
    /\ Streams \subseteq Requests
    /\ IsFiniteSet(Requests)
    /\ MaxRetries \in Nat /\ MaxChanges \in Nat
    /\ NoServer \notin Servers

VARIABLES
    servers,    \* _servers, the keys of _server_state
    load,       \* _num_active_requests of their states
    heap,       \* _server_load_heap: how often it has <<load, server>>
    table,      \* _req_routing_table
    departed,   \* history: servers that have left at some time
    phase,      \* where a request is in the client
    attempt,    \* the attempt of _post_with_retry
    changes

router == <<servers, load, heap, table, departed>>
vars == <<router, phase, attempt, changes>>

Init ==
    /\ servers \in (SUBSET Servers) \ {{}}
    /\ load = [s \in Servers |-> 0]
    /\ heap = [e \in {<<0, s>> : s \in servers} |-> 1]
    /\ table = [q \in Requests |-> NoServer]
    /\ departed = {}
    /\ phase = [q \in Requests |-> "new"]
    /\ attempt = [q \in Requests |-> 0]
    /\ changes = 0

Goto(q, p) == phase' = [phase EXCEPT ![q] = p]

-----------------------------------------------------------------------------
(* LoadBalancingRouter.                                                    *)

\* heapq.heappush: one more entry x on the heap h
Push(h, x) ==
    [e \in DOMAIN h \cup {x} |-> IF e \notin DOMAIN h THEN 1
                                 ELSE IF e = x THEN h[e] + 1 ELSE h[e]]

\* heapq.heappop of the entry x: one less of them
Pop(h, x) ==
    [e \in {f \in DOMAIN h : f # x \/ h[f] > 1} |->
        IF e = x THEN h[e] - 1 ELSE h[e]]

\* The entries heappop may return; servers with equal loads are told apart
\* by their names only.
Least == {e \in DOMAIN heap : \A f \in DOMAIN heap : e[1] <= f[1]}

\* Mutant: the server is not put back on the heap.
HeapAfterGetLost(e) == Pop(heap, e)

\* The heap after get_next_server popped e.
HeapAfterGet(e) == Push(Pop(heap, e), <<load[e[2]] + 1, e[2]>>)

\* get_next_server, called by _send_request
GetNextServer(q) ==
    /\ phase[q] = "new" /\ servers # {}
    /\ \E e \in Least :
         /\ heap' = HeapAfterGet(e)
         /\ load' = [load EXCEPT ![e[2]] = @ + 1]
         /\ table' = [table EXCEPT ![q] = e[2]]
    /\ Goto(q, "post")
    /\ UNCHANGED <<servers, departed, attempt, changes>>

\* get_next_server raises, outside the try of _send_request.
NoServerAvailable(q) ==
    /\ phase[q] = "new" /\ servers = {}
    /\ Goto(q, "failed")
    /\ UNCHANGED <<router, attempt, changes>>

\* finish_request raises KeyError for a request that is not in the table, or
\* whose server has left.
CanFinish(q) == table[q] # NoServer /\ table[q] \in servers

\* Mutant: the load is left as it is.
FinishUnaccounted(q) ==
    /\ table' = [table EXCEPT ![q] = NoServer]
    /\ UNCHANGED <<servers, load, heap, departed>>

\* finish_request; the entry of the new load joins the older ones.
Finish(q) ==
    LET s == table[q]
    IN  /\ load' = [load EXCEPT ![s] = @ - 1]
        /\ heap' = Push(heap, <<load[s] - 1, s>>)
        /\ table' = [table EXCEPT ![q] = NoServer]
        /\ UNCHANGED <<servers, departed>>

\* _finish_request goes on to p, unless it raises.
FinishTo(q, p) ==
    IF CanFinish(q)
    THEN Finish(q) /\ Goto(q, p)
    ELSE UNCHANGED router /\ Goto(q, "failed")

\* _on_servers_updated: servers that stay keep their state.
OnServersUpdated(new) ==
    /\ servers' = new
    /\ load' = [s \in Servers |-> IF s \in new \cap servers THEN load[s] ELSE 0]
    /\ heap' = [e \in {<<load'[s], s>> : s \in new} |-> 1]

\* add_server
AddServer(s) ==
    /\ changes < MaxChanges /\ s \notin servers
    /\ OnServersUpdated(servers \cup {s})
    /\ changes' = changes + 1
    /\ UNCHANGED <<table, departed, phase, attempt>>

\* remove_server
RemoveServer(s) ==
    /\ changes < MaxChanges /\ s \in servers
    /\ OnServersUpdated(servers \ {s})
    /\ departed' = departed \cup {s}
    /\ changes' = changes + 1
    /\ UNCHANGED <<table, phase, attempt>>

-----------------------------------------------------------------------------
(* OpenAIHttpClient._post_with_retry and _response_generator.              *)

\* Mutant: an error is passed on without finishing the request.
RaisedUnfinished(q) == UNCHANGED router /\ Goto(q, "failed")

\* An exception leaves _post_with_retry.  _send_request finishes the request
\* in its except clause; of a streaming request it has already returned the
\* generator.
Raised(q) ==
    IF q \in Streams
    THEN UNCHANGED router /\ Goto(q, "failed")
    ELSE FinishTo(q, "failed")

\* Mutant: one attempt too many.
RetryOnceMore(q) ==
    /\ attempt[q] <= MaxRetries
    /\ attempt' = [attempt EXCEPT ![q] = @ + 1]

Retry(q) ==
    /\ attempt[q] < MaxRetries
    /\ attempt' = [attempt EXCEPT ![q] = @ + 1]

\* aiohttp.ClientError or OSError before a response, or an error status of
\* a response that is not streamed
ClientError(q) ==
    /\ phase[q] = "post"
    /\ \/ Retry(q) /\ UNCHANGED <<router, phase>>
       \/ attempt[q] = MaxRetries /\ Raised(q) /\ UNCHANGED attempt
    /\ UNCHANGED changes

\* Any other exception: a timeout, or a response that is not an event stream
\* when one was asked for (or the reverse).
UnexpectedError(q) ==
    /\ phase[q] = "post"
    /\ Raised(q)
    /\ UNCHANGED <<attempt, changes>>

\* The response of a request that is not streamed; when _finish_request
\* raises, so does the second call in _send_request.
Response(q) ==
    /\ phase[q] = "post" /\ q \notin Streams
    /\ FinishTo(q, "done")
    /\ UNCHANGED <<attempt, changes>>

\* The event stream begins; "lines" is reached when one was yielded.
StreamStarts(q) ==
    /\ phase[q] = "post" /\ q \in Streams
    /\ Goto(q, "stream")
    /\ UNCHANGED <<router, attempt, changes>>

StreamYields(q) ==
    /\ phase[q] = "stream"
    /\ Goto(q, "lines")
    /\ UNCHANGED <<router, attempt, changes>>

\* The stream is exhausted or its consumer goes away; finally.
StreamEnds(q) ==
    /\ phase[q] \in {"stream", "lines"}
    /\ FinishTo(q, "done")
    /\ UNCHANGED <<attempt, changes>>

\* The stream breaks; finally, and a retry if the error is one to retry and
\* no line was yielded.
StreamBreaks(q) ==
    /\ phase[q] \in {"stream", "lines"}
    /\ \/ phase[q] = "stream" /\ CanFinish(q) /\ Retry(q) /\ FinishTo(q, "post")
       \/ FinishTo(q, "failed") /\ UNCHANGED attempt
    /\ UNCHANGED changes

-----------------------------------------------------------------------------
Next ==
    \/ \E s \in Servers : AddServer(s) \/ RemoveServer(s)
    \/ \E q \in Requests :
         \/ GetNextServer(q) \/ NoServerAvailable(q)
         \/ ClientError(q) \/ UnexpectedError(q) \/ Response(q)
         \/ StreamStarts(q) \/ StreamYields(q) \/ StreamEnds(q)
         \/ StreamBreaks(q)

Spec == Init /\ [][Next]_vars

-----------------------------------------------------------------------------
\* Every entry of a heap is there at least once.
IsHeap(B) == B \in [DOMAIN B -> Nat \ {0}]

(* Types; in particular no request makes more than _max_retries retries.   *)
TypeOK ==
    /\ servers \subseteq Servers
    /\ load \in [Servers -> Int]
    /\ IsHeap(heap) /\ DOMAIN heap \subseteq Int \X Servers
    /\ table \in [Requests -> Servers \cup {NoServer}]
    /\ departed \subseteq Servers
    /\ phase \in [Requests -> {"new", "post", "stream", "lines", "done",
                               "failed"}]
    /\ attempt \in [Requests -> 0..MaxRetries]
    /\ changes \in 0..MaxChanges

Terminated(q) == phase[q] \in {"done", "failed"}

(* Whatever the order of calls and of changes to the server list, each     *)
(* server can be found on the heap under its present load, and no entry    *)
(* names a server without a state: get_next_server neither loses a server  *)
(* nor raises KeyError.                                                    *)
HeapCovers ==
    /\ \A s \in servers : <<load[s], s>> \in DOMAIN heap
    /\ \A e \in DOMAIN heap : e[2] \in servers

(* The load of a server is the number of requests routed to it, through    *)
(* retries, broken streams, repeated calls of finish_request and changes   *)
(* of the server list, as long as the server itself has not left: one that *)
(* comes back is charged with the ends of requests from before.            *)
LoadIsRouted ==
    \A s \in servers \ departed :
        load[s] = Cardinality({q \in Requests : table[q] = s})

(* A request is finished in the router by the time the client is done with *)
(* it, with or without an error, unless its server has left, or it is a    *)
(* streamed one that failed: _send_request has returned its generator, so  *)
(* an error before the stream begins finishes nothing.                     *)
FinishedInRouter ==
    \A q \in Requests :
        Terminated(q) /\ (q \in Streams => phase[q] = "done")
            => table[q] \in departed \cup {NoServer}
=============================================================================
