------------------------ MODULE LoadBalancingProofs ------------------------
(***************************************************************************)
(* Proofs about LoadBalancing, for any number of requests, servers and     *)
(* retries: its types, that the heap covers the servers whatever happens   *)
(* to the server list, that the loads of the servers that never left are   *)
(* the numbers of routed requests, and that requests that are not streamed *)
(* are finished in the router.                                             *)
(***************************************************************************)
EXTENDS LoadBalancing, TLAPS, FiniteSetTheorems

(* One more entry on the heap.                                             *)
LEMMA AddedEntry ==
  ASSUME NEW B, IsHeap(B), NEW x
  PROVE  IsHeap(Push(B, x)) /\ DOMAIN Push(B, x) = DOMAIN B \cup {x}
  <1>1. \A e \in DOMAIN B : B[e] \in Nat \ {0}
    BY DEF IsHeap
  <1>2. DOMAIN Push(B, x) = DOMAIN B \cup {x}
    BY DEF Push
  <1>3. \A e \in DOMAIN B \cup {x} : Push(B, x)[e] \in Nat \ {0}
    BY <1>1 DEF Push
  <1>4. Push(B, x) \in [DOMAIN B \cup {x} -> Nat \ {0}]
    BY ZenonT(60), <1>3 DEF Push
  <1>. QED
    BY <1>2, <1>4 DEF IsHeap

(* One entry less leaves all the others.                                   *)
LEMMA RemovedEntry ==
  ASSUME NEW B, IsHeap(B), NEW x
  PROVE  /\ IsHeap(Pop(B, x))
         /\ DOMAIN Pop(B, x) \subseteq DOMAIN B
         /\ DOMAIN B \ {x} \subseteq DOMAIN Pop(B, x)
  <1>1. \A e \in DOMAIN B : B[e] \in Nat \ {0}
    BY DEF IsHeap
  <1>2. DOMAIN Pop(B, x) = {f \in DOMAIN B : f # x \/ B[f] > 1}
    BY DEF Pop
  <1>3. \A e \in DOMAIN Pop(B, x) : Pop(B, x)[e] \in Nat \ {0}
    BY <1>1, <1>2 DEF Pop
  <1>4. Pop(B, x) \in [DOMAIN Pop(B, x) -> Nat \ {0}]
    BY ZenonT(60), <1>3 DEF Pop
  <1>. QED
    BY <1>2, <1>4 DEF IsHeap

HeapInv == TypeOK /\ HeapCovers

(* The heap after the server list was replaced.                            *)
LEMMA Rebuilt ==
  ASSUME TypeOK, NEW new \in SUBSET Servers, OnServersUpdated(new)
  PROVE  /\ servers' \subseteq Servers /\ load' \in [Servers -> Int]
         /\ IsHeap(heap') /\ DOMAIN heap' = {<<load'[s], s>> : s \in new}
  <1>1. load' \in [Servers -> Int] /\ servers' = new
    BY DEF OnServersUpdated, TypeOK
  <1>2. PICK E : E = {<<load'[s], s>> : s \in new}
    BY ZenonT(60)
  <1>3. heap' = [e \in E |-> 1]
    BY <1>2 DEF OnServersUpdated
  <1>. QED
    BY <1>1, <1>2, <1>3 DEF IsHeap

(* finish_request keeps the types and the cover.                           *)
LEMMA FinishKeeps ==
  ASSUME HeapInv, NEW q \in Requests, CanFinish(q), Finish(q)
  PROVE  /\ servers' \subseteq Servers /\ load' \in [Servers -> Int]
         /\ IsHeap(heap') /\ DOMAIN heap' \subseteq Int \X Servers
         /\ table' \in [Requests -> Servers \cup {NoServer}]
         /\ departed' = departed /\ HeapCovers'
  <1>1. PICK s \in servers : s = table[q]
    BY DEF CanFinish
  <1>2. /\ load' = [load EXCEPT ![s] = load[s] - 1]
        /\ heap' = Push(heap, <<load[s] - 1, s>>)
        /\ table' = [table EXCEPT ![q] = NoServer]
        /\ servers' = servers /\ departed' = departed
    BY <1>1 DEF Finish
  <1>3. s \in Servers /\ load[s] \in Int /\ IsHeap(heap)
    BY <1>1 DEF HeapInv, TypeOK
  <1>4. IsHeap(heap') /\ DOMAIN heap' = DOMAIN heap \cup {<<load[s] - 1, s>>}
    BY <1>2, <1>3, AddedEntry
  <1>5. HeapCovers'
    BY <1>1, <1>2, <1>3, <1>4 DEF HeapInv, HeapCovers, TypeOK
  <1>. QED
    BY <1>2, <1>3, <1>4, <1>5 DEF HeapInv, TypeOK

(* get_next_server does so too.                                            *)
LEMMA GetKeeps ==
  ASSUME HeapInv, NEW q \in Requests, GetNextServer(q)
  PROVE  /\ servers' \subseteq Servers /\ load' \in [Servers -> Int]
         /\ IsHeap(heap') /\ DOMAIN heap' \subseteq Int \X Servers
         /\ table' \in [Requests -> Servers \cup {NoServer}]
         /\ departed' = departed /\ HeapCovers'
  <1>1. PICK e \in Least :
          /\ heap' = HeapAfterGet(e)
          /\ load' = [load EXCEPT ![e[2]] = @ + 1]
          /\ table' = [table EXCEPT ![q] = e[2]]
    BY ZenonT(60) DEF GetNextServer
  <1>2. e \in DOMAIN heap /\ e \in Int \X Servers /\ e[2] \in servers
    BY DEF Least, HeapInv, TypeOK, HeapCovers
  <1>3. PICK s \in servers : s = e[2]
    BY <1>2
  <1>4. /\ s \in Servers /\ load[s] \in Int /\ IsHeap(heap)
        /\ load' = [load EXCEPT ![s] = load[s] + 1]
        /\ servers' = servers /\ departed' = departed
    BY ZenonT(60), <1>1, <1>3 DEF HeapInv, TypeOK, GetNextServer
  <1>5. PICK rest : rest = Pop(heap, e)
    OBVIOUS
  <1>6. /\ IsHeap(rest) /\ DOMAIN rest \subseteq DOMAIN heap
        /\ DOMAIN heap \ {e} \subseteq DOMAIN rest
    BY <1>4, <1>5, RemovedEntry
  <1>7. /\ heap' = Push(rest, <<load[s] + 1, s>>)
        /\ IsHeap(heap') /\ DOMAIN heap' = DOMAIN rest \cup {<<load[s] + 1, s>>}
    BY <1>1, <1>3, <1>5, <1>6, AddedEntry DEF HeapAfterGet
  <1>8. HeapCovers'
    <2>1. ASSUME NEW t \in servers PROVE <<load'[t], t>> \in DOMAIN heap'
      <3>1. CASE t = s
        BY <1>4, <1>7, <3>1 DEF HeapInv, TypeOK
      <3>2. CASE t # s
        <4>1. load'[t] = load[t] /\ <<load[t], t>> \in DOMAIN heap
          BY <1>4, <3>2 DEF HeapInv, TypeOK, HeapCovers
        <4>2. <<load[t], t>> # e
          BY <1>3, <3>2
        <4>. QED
          BY <1>6, <1>7, <4>1, <4>2
      <3>. QED
        BY <3>1, <3>2
    <2>2. \A f \in DOMAIN heap' : f[2] \in servers
      BY <1>3, <1>6, <1>7 DEF HeapInv, HeapCovers
    <2>. QED
      BY <1>4, <2>1, <2>2 DEF HeapCovers
  <1>9. table' \in [Requests -> Servers \cup {NoServer}]
    BY <1>1, <1>2 DEF HeapInv, TypeOK
  <1>. QED
    BY <1>4, <1>6, <1>7, <1>8, <1>9 DEF HeapInv, TypeOK

(* An exception leaves the client: finish_request, or nothing.             *)
LEMMA FinishToKeeps ==
  ASSUME HeapInv, NEW q \in Requests, NEW p, FinishTo(q, p)
  PROVE  /\ servers' \subseteq Servers /\ load' \in [Servers -> Int]
         /\ IsHeap(heap') /\ DOMAIN heap' \subseteq Int \X Servers
         /\ table' \in [Requests -> Servers \cup {NoServer}]
         /\ departed' = departed /\ HeapCovers'
         /\ phase' = [phase EXCEPT ![q] = p] \/ phase' = [phase EXCEPT ![q] = "failed"]
  <1>1. CASE CanFinish(q)
    BY <1>1, FinishKeeps DEF FinishTo, Goto
  <1>2. CASE ~CanFinish(q)
    BY <1>2 DEF FinishTo, Goto, router, HeapInv, TypeOK, HeapCovers
  <1>. QED
    BY <1>1, <1>2

(* The heap's part of the invariant and the rest of the types, step by     *)
(* step.                                                                   *)
LEMMA RequestStep ==
  ASSUME HeapInv, NEW q \in Requests,
         \/ GetNextServer(q) \/ NoServerAvailable(q)
         \/ ClientError(q) \/ UnexpectedError(q) \/ Response(q)
         \/ StreamStarts(q) \/ StreamYields(q) \/ StreamEnds(q)
         \/ StreamBreaks(q)
  PROVE  HeapInv'
  <1>. USE BalancingAssumption
  <1>. DEFINE Kept == /\ servers' \subseteq Servers /\ load' \in [Servers -> Int]
                      /\ IsHeap(heap') /\ DOMAIN heap' \subseteq Int \X Servers
                      /\ table' \in [Requests -> Servers \cup {NoServer}]
                      /\ departed' = departed /\ HeapCovers'
              Phases == {"new", "post", "stream", "lines", "done", "failed"}
  <1>1. UNCHANGED router => Kept
    BY DEF router, HeapInv, TypeOK, HeapCovers
  <1>2. /\ phase \in [Requests -> Phases]
        /\ attempt \in [Requests -> 0..MaxRetries]
        /\ changes \in 0..MaxChanges
    BY DEF HeapInv, TypeOK
  <1>3. \A p \in Phases : Goto(q, p) => phase' \in [Requests -> Phases]
    BY <1>2 DEF Goto
  <1>4. \A p \in Phases : FinishTo(q, p) => Kept /\ phase' \in [Requests -> Phases]
    BY <1>2, FinishToKeeps
  <1>5. Raised(q) => Kept /\ phase' \in [Requests -> Phases]
    BY <1>1, <1>3, <1>4 DEF Raised
  <1>6. Retry(q) => attempt' \in [Requests -> 0..MaxRetries]
    BY <1>2 DEF Retry
  <1>. SUFFICES /\ Kept
                /\ phase' \in [Requests -> Phases]
                /\ attempt' \in [Requests -> 0..MaxRetries]
                /\ changes' = changes
    BY <1>2 DEF HeapInv, TypeOK
  <1>7. CASE GetNextServer(q)
    <2>1. Kept
      BY <1>7, GetKeeps
    <2>. QED
      BY <1>2, <1>3, <1>7, <2>1 DEF GetNextServer
  <1>8. CASE NoServerAvailable(q)
    BY <1>1, <1>2, <1>3, <1>8 DEF NoServerAvailable
  <1>9. CASE ClientError(q)
    BY <1>1, <1>2, <1>5, <1>6, <1>9 DEF ClientError
  <1>10. CASE UnexpectedError(q)
    BY <1>2, <1>5, <1>10 DEF UnexpectedError
  <1>11. CASE Response(q)
    BY <1>2, <1>4, <1>11 DEF Response
  <1>12. CASE StreamStarts(q) \/ StreamYields(q)
    BY <1>1, <1>2, <1>3, <1>12 DEF StreamStarts, StreamYields
  <1>13. CASE StreamEnds(q)
    BY <1>2, <1>4, <1>13 DEF StreamEnds
  <1>14. CASE StreamBreaks(q)
    BY <1>2, <1>4, <1>6, <1>14 DEF StreamBreaks
  <1>. QED
    BY <1>7, <1>8, <1>9, <1>10, <1>11, <1>12, <1>13, <1>14

LEMMA ServerStep ==
  ASSUME HeapInv, NEW s \in Servers, AddServer(s) \/ RemoveServer(s)
  PROVE  HeapInv'
  <1>1. PICK new \in SUBSET Servers :
          /\ OnServersUpdated(new)
          /\ changes < MaxChanges /\ changes' = changes + 1
          /\ departed' \subseteq Servers
          /\ UNCHANGED <<table, phase, attempt>>
    BY DEF AddServer, RemoveServer, HeapInv, TypeOK
  <1>2. /\ servers' \subseteq Servers /\ load' \in [Servers -> Int]
        /\ IsHeap(heap') /\ DOMAIN heap' = {<<load'[t], t>> : t \in new}
    BY ZenonT(60), <1>1, Rebuilt DEF HeapInv
  <1>3. servers' = new
    BY <1>1 DEF OnServersUpdated
  <1>4. TypeOK'
    BY <1>1, <1>2, <1>3, BalancingAssumption DEF HeapInv, TypeOK
  <1>5. HeapCovers'
    BY <1>2, <1>3 DEF HeapCovers
  <1>. QED
    BY <1>4, <1>5 DEF HeapInv

(* TypeOK and HeapCovers are inductive together.                           *)
THEOREM HeapInductive == Spec => []HeapInv
  <1>1. Init => HeapInv
    <2>1. SUFFICES ASSUME Init PROVE HeapInv
      OBVIOUS
    <2>2. PICK E : E = {<<0, s>> : s \in servers}
      BY ZenonT(60)
    <2>3. heap = [e \in E |-> 1]
      BY <2>1, <2>2 DEF Init
    <2>4. IsHeap(heap) /\ DOMAIN heap = E
      BY <2>3 DEF IsHeap
    <2>5. servers \subseteq Servers /\ E \subseteq Int \X Servers
      BY <2>1, <2>2 DEF Init
    <2>6. TypeOK
      BY <2>1, <2>4, <2>5, BalancingAssumption DEF Init, TypeOK
    <2>7. HeapCovers
      BY <2>1, <2>2, <2>4, <2>5 DEF Init, HeapCovers
    <2>. QED
      BY <2>6, <2>7 DEF HeapInv
  <1>2. HeapInv /\ [Next]_vars => HeapInv'
    <2>1. SUFFICES ASSUME HeapInv, [Next]_vars PROVE HeapInv'
      OBVIOUS
    <2>2. CASE Next
      BY <2>1, <2>2, RequestStep, ServerStep DEF Next
    <2>3. CASE UNCHANGED vars
      BY <2>1, <2>3 DEF vars, router, HeapInv, TypeOK, HeapCovers
    <2>. QED
      BY <2>1, <2>2, <2>3
  <1>. QED
    BY <1>1, <1>2, PTL DEF Spec

(* The router's and the client's state keep their types: loads are         *)
(* integers and no request is retried more than _max_retries times.        *)
THEOREM BalancingTypes == Spec => []TypeOK
  BY HeapInductive, PTL DEF HeapInv

(* Whatever the order of get_next_server, finish_request and changes of    *)
(* the server list, the heap holds each server under its present load and  *)
(* no other server.                                                        *)
THEOREM EveryServerOnHeap == Spec => []HeapCovers
  BY HeapInductive, PTL DEF HeapInv

-----------------------------------------------------------------------------
(* The loads, and the end of requests that are not streamed.               *)

Routed(s) == {q \in Requests : table[q] = s}

\* A request is routed only once, so get_next_server meets no older entry.
NewUnrouted == \A q \in Requests : phase[q] = "new" => table[q] = NoServer

\* Requests are routed to servers that are or were listed.
RoutedKnown == \A q \in Requests : table[q] \in servers \cup departed \cup {NoServer}

RoutedInv == NewUnrouted /\ RoutedKnown /\ LoadIsRouted /\ FinishedInRouter

LEMMA RoutedFinite ==
  ASSUME NEW s
  PROVE  IsFiniteSet(Routed(s))
  <1>1. Routed(s) \in SUBSET Requests /\ IsFiniteSet(Requests)
    BY BalancingAssumption DEF Routed
  <1>. QED
    BY <1>1, FS_Subset

(* get_next_server counts the new request.                                 *)
LEMMA GetCounts ==
  ASSUME HeapInv, RoutedInv, NEW q \in Requests, GetNextServer(q)
  PROVE  RoutedInv'
  <1>1. PICK e \in Least :
          /\ load' = [load EXCEPT ![e[2]] = @ + 1]
          /\ table' = [table EXCEPT ![q] = e[2]]
    BY ZenonT(60) DEF GetNextServer
  <1>2. PICK s \in servers : s = e[2]
    BY DEF Least, HeapInv, HeapCovers
  <1>3. /\ s \in Servers /\ servers \subseteq Servers
        /\ servers' = servers /\ departed' = departed
        /\ load' = [load EXCEPT ![s] = load[s] + 1]
        /\ table' = [table EXCEPT ![q] = s]
        /\ load \in [Servers -> Int]
        /\ table \in [Requests -> Servers \cup {NoServer}]
        /\ phase' = [phase EXCEPT ![q] = "post"]
    BY ZenonT(60), <1>1, <1>2 DEF HeapInv, TypeOK, GetNextServer, Goto
  <1>4. table[q] = NoServer /\ q \notin Routed(s)
    BY <1>3, BalancingAssumption DEF GetNextServer, RoutedInv, NewUnrouted, Routed
  <1>5. NewUnrouted' /\ RoutedKnown'
    BY <1>3 DEF HeapInv, TypeOK, RoutedInv, NewUnrouted, RoutedKnown
  <1>6. ASSUME NEW t \in servers \ departed
        PROVE  load'[t] = Cardinality({r \in Requests : table'[r] = t})
    <2>1. load[t] = Cardinality(Routed(t))
      BY DEF RoutedInv, LoadIsRouted, Routed
    <2>2. CASE t = s
      <3>1. {r \in Requests : table'[r] = t} = Routed(s) \cup {q}
        BY <1>3, <2>2 DEF Routed
      <3>2. Cardinality(Routed(s) \cup {q}) = Cardinality(Routed(s)) + 1
        BY ZenonT(60), <1>4, RoutedFinite, FS_AddElement
      <3>. QED
        BY ZenonT(60), <1>3, <2>1, <2>2, <3>1, <3>2
    <2>3. CASE t # s
      <3>1. {r \in Requests : table'[r] = t} = Routed(t)
        BY <1>3, <1>4, <2>3, BalancingAssumption DEF Routed
      <3>. QED
        BY ZenonT(60), <1>3, <2>1, <2>3, <3>1
    <2>. QED
      BY <2>2, <2>3
  <1>7. FinishedInRouter'
    BY <1>3 DEF HeapInv, TypeOK, RoutedInv, FinishedInRouter, Terminated
  <1>. QED
    BY <1>3, <1>5, <1>6, <1>7 DEF RoutedInv, LoadIsRouted

(* finish_request discounts the request.                                   *)
LEMMA FinishCounts ==
  ASSUME HeapInv, RoutedInv, NEW q \in Requests, CanFinish(q), Finish(q)
  PROVE  LoadIsRouted' /\ table' = [table EXCEPT ![q] = NoServer]
  <1>1. PICK s \in servers : s = table[q]
    BY DEF CanFinish
  <1>2. /\ s \in Servers /\ servers \subseteq Servers
        /\ servers' = servers /\ departed' = departed
        /\ load' = [load EXCEPT ![s] = load[s] - 1]
        /\ table' = [table EXCEPT ![q] = NoServer]
        /\ load \in [Servers -> Int]
        /\ table \in [Requests -> Servers \cup {NoServer}]
    BY <1>1 DEF HeapInv, TypeOK, Finish
  <1>3. ASSUME NEW t \in servers \ departed
        PROVE  load'[t] = Cardinality({r \in Requests : table'[r] = t})
    <2>1. load[t] = Cardinality(Routed(t))
      BY DEF RoutedInv, LoadIsRouted, Routed
    <2>2. CASE t = s
      <3>1. {r \in Requests : table'[r] = t} = Routed(s) \ {q}
        BY <1>2, <2>2, BalancingAssumption DEF Routed
      <3>2. q \in Routed(s)
        BY <1>1 DEF Routed
      <3>3. Cardinality(Routed(s) \ {q}) = Cardinality(Routed(s)) - 1
        BY ZenonT(60), <3>2, RoutedFinite, FS_RemoveElement
      <3>. QED
        BY <1>2, <2>1, <2>2, <3>1, <3>3
    <2>3. CASE t # s
      <3>1. {r \in Requests : table'[r] = t} = Routed(t)
        BY <1>1, <1>2, <2>3, BalancingAssumption DEF Routed
      <3>. QED
        BY ZenonT(60), <1>2, <2>1, <2>3, <3>1
    <2>. QED
      BY <2>2, <2>3
  <1>. QED
    BY <1>2, <1>3 DEF LoadIsRouted

(* _finish_request, going on to p: the request is out of the table, or its *)
(* server has left.                                                        *)
LEMMA FinishToCounts ==
  ASSUME HeapInv, RoutedInv, NEW q \in Requests, NEW p, p # "new",
         FinishTo(q, p)
  PROVE  RoutedInv'
  <1>1. PICK o : o # "new" /\ phase' = [phase EXCEPT ![q] = o]
    BY DEF FinishTo, Goto
  <1>2. servers' = servers /\ departed' = departed
    BY DEF FinishTo, Finish, router
  <1>3. /\ LoadIsRouted'
        /\ \A r \in Requests : table'[r] \in {table[r], NoServer}
        /\ table'[q] \in departed \cup {NoServer}
    <2>1. CASE CanFinish(q)
      BY <2>1, FinishCounts DEF FinishTo, HeapInv, TypeOK
    <2>2. CASE ~CanFinish(q)
      BY <2>2 DEF FinishTo, CanFinish, router, RoutedInv, RoutedKnown, LoadIsRouted
    <2>. QED
      BY <2>1, <2>2
  <1>4. NewUnrouted' /\ RoutedKnown' /\ FinishedInRouter'
    BY <1>1, <1>2, <1>3 DEF HeapInv, TypeOK, RoutedInv, NewUnrouted, RoutedKnown,
                            FinishedInRouter, Terminated
  <1>. QED
    BY <1>3, <1>4 DEF RoutedInv

(* The steps that leave the router alone: they end no request, except a    *)
(* streamed one that fails and one that was never routed.                  *)
LEMMA GotoCounts ==
  ASSUME HeapInv, RoutedInv, NEW q \in Requests, NEW p, p # "new",
         UNCHANGED router, Goto(q, p),
         \/ q \in Streams /\ p # "done"
         \/ phase[q] = "new" \/ p \notin {"done", "failed"}
  PROVE  RoutedInv'
  <1>1. /\ phase' = [phase EXCEPT ![q] = p]
        /\ table' = table /\ servers' = servers /\ departed' = departed
    BY DEF Goto, router
  <1>2. LoadIsRouted'
    BY DEF router, RoutedInv, LoadIsRouted
  <1>3. NewUnrouted' /\ RoutedKnown'
    BY <1>1 DEF HeapInv, TypeOK, RoutedInv, NewUnrouted, RoutedKnown
  <1>4. FinishedInRouter'
    BY <1>1 DEF HeapInv, TypeOK, RoutedInv, NewUnrouted, FinishedInRouter, Terminated
  <1>. QED
    BY <1>2, <1>3, <1>4 DEF RoutedInv

(* A change of the server list keeps the loads of the servers that stay; a *)
(* server that is new and never left has none.                             *)
LEMMA ServerCounts ==
  ASSUME HeapInv, RoutedInv, NEW s \in Servers, AddServer(s) \/ RemoveServer(s)
  PROVE  RoutedInv'
  <1>1. /\ table' = table /\ phase' = phase
        /\ departed \subseteq departed'
        /\ servers \subseteq servers' \cup departed'
        /\ load' = [t \in Servers |-> IF t \in servers' \cap servers
                                      THEN load[t] ELSE 0]
        /\ servers' \subseteq Servers
    BY DEF AddServer, RemoveServer, OnServersUpdated, HeapInv, TypeOK
  <1>2. NewUnrouted' /\ RoutedKnown' /\ FinishedInRouter'
    BY <1>1 DEF RoutedInv, NewUnrouted, RoutedKnown, FinishedInRouter, Terminated
  <1>3. ASSUME NEW t \in servers' \ departed'
        PROVE  load'[t] = Cardinality({r \in Requests : table'[r] = t})
    <2>1. {r \in Requests : table'[r] = t} = Routed(t)
      BY <1>1 DEF Routed
    <2>2. CASE t \in servers
      BY <1>1, <2>1, <2>2 DEF RoutedInv, LoadIsRouted, Routed
    <2>3. CASE t \notin servers
      <3>1. Routed(t) = {}
        BY <1>1, <2>3, BalancingAssumption DEF RoutedInv, RoutedKnown, Routed
      <3>. QED
        BY ZenonT(60), <1>1, <2>1, <2>3, <3>1, FS_EmptySet
    <2>. QED
      BY <2>2, <2>3
  <1>. QED
    BY <1>2, <1>3 DEF RoutedInv, LoadIsRouted

(* Step by step.                                                           *)
LEMMA RoutedStep ==
  ASSUME HeapInv, RoutedInv, NEW q \in Requests,
         \/ NoServerAvailable(q) \/ ClientError(q) \/ UnexpectedError(q)
         \/ Response(q) \/ StreamStarts(q) \/ StreamYields(q)
         \/ StreamEnds(q) \/ StreamBreaks(q)
  PROVE  RoutedInv'
  <1>1. Raised(q) => RoutedInv'
    BY FinishToCounts, GotoCounts DEF Raised
  <1>2. CASE NoServerAvailable(q)
    BY <1>2, GotoCounts DEF NoServerAvailable
  <1>3. CASE ClientError(q) \/ UnexpectedError(q)
    <2>1. CASE UNCHANGED <<router, phase>>
      BY <2>1 DEF router, RoutedInv, NewUnrouted, RoutedKnown, LoadIsRouted,
                  FinishedInRouter, Terminated
    <2>. QED
      BY <1>1, <1>3, <2>1 DEF ClientError, UnexpectedError
  <1>4. CASE StreamStarts(q) \/ StreamYields(q)
    BY <1>4, GotoCounts DEF StreamStarts, StreamYields
  <1>5. CASE Response(q) \/ StreamEnds(q) \/ StreamBreaks(q)
    BY <1>5, FinishToCounts DEF Response, StreamEnds, StreamBreaks
  <1>. QED
    BY <1>2, <1>3, <1>4, <1>5

(* RoutedInv holds always, given the types and the cover of the heap.      *)
THEOREM RoutedInductive == Spec => []RoutedInv
  <1>1. Init => RoutedInv
    <2>1. SUFFICES ASSUME Init, NEW s \in servers
                   PROVE  load[s] = Cardinality({q \in Requests : table[q] = s})
      BY DEF Init, RoutedInv, NewUnrouted, RoutedKnown, LoadIsRouted,
             FinishedInRouter, Terminated
    <2>2. {q \in Requests : table[q] = s} = {} /\ load[s] = 0
      BY <2>1, BalancingAssumption DEF Init
    <2>. QED
      BY <2>2, FS_EmptySet
  <1>2. HeapInv /\ RoutedInv /\ [Next]_vars => RoutedInv'
    <2>1. SUFFICES ASSUME HeapInv, RoutedInv, [Next]_vars PROVE RoutedInv'
      OBVIOUS
    <2>2. CASE UNCHANGED vars
      BY <2>1, <2>2 DEF vars, router, RoutedInv, NewUnrouted, RoutedKnown,
                        LoadIsRouted, FinishedInRouter, Terminated
    <2>3. CASE Next
      BY <2>1, <2>3, GetCounts, RoutedStep, ServerCounts DEF Next
    <2>. QED
      BY <2>1, <2>2, <2>3
  <1>. QED
    BY <1>1, <1>2, HeapInductive, PTL DEF Spec

(* The load of a server that has never left is the number of requests      *)
(* routed to it, through retries, broken streams, repeated calls of        *)
(* finish_request and changes of the rest of the list.                     *)
THEOREM LoadsAreExact == Spec => []LoadIsRouted
  BY RoutedInductive, PTL DEF RoutedInv

(* A request is finished in the router when the client is done with it,    *)
(* unless its server has left or it is a streamed one that failed.         *)
THEOREM RequestsFinish == Spec => []FinishedInRouter
  BY RoutedInductive, PTL DEF RoutedInv
=============================================================================
