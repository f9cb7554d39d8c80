--------------------------- MODULE PPTermination ---------------------------
(***************************************************************************)
(* Ring protocol by which the pipeline-parallel ranks of a disaggregated   *)
(* server agree to free a request (class DisaggPPTerminationHandler of     *)
(* py_executor.py).  A request that a rank has finished with waits in      *)
(* _pending_termination.  A message travels round the ranks: rank 0        *)
(* proposes what it has pending, each later rank adds its vote, the last   *)
(* rank turns the requests with a vote of every rank into the termination  *)
(* list, and that list travels round the ring in the next lap.             *)
(***************************************************************************)
EXTENDS Integers, Sequences

CONSTANTS
    PPSize,   \* dist.pp_size; the handler exists only when it exceeds 1
    Requests  \* request ids

ASSUME PPSizeAssumption == PPSize \in Nat /\ PPSize > 1

Ranks == 0 .. PPSize - 1

VARIABLES
    pending,  \* pending[r]: the keys of rank r's _pending_termination
    freeing,  \* freeing[r]: rank r's reqs_to_terminate still to be passed on
    freed,    \* freed[r]: requests rank r passed to _terminator_func
    started,  \* started[r]: rank r's _terminating_iteration is positive
    chan      \* chan[r]: messages rank r sent that the next rank has not received

vars == <<pending, freeing, freed, started, chan>>

\* What rank r took out of _pending_termination to free it.
Taken(r) == freeing[r] \cup freed[r]

\* Rank r is not inside the last loop of terminate_pending_requests.
Idle(r) == freeing[r] = {}

IsFirst(r) == r = 0

IsLast(r) == r = PPSize - 1

PrevRank(r) == IF IsFirst(r) THEN PPSize - 1 ELSE r - 1

\* The state a rank works from when it has received nothing.
NoState == [ready |-> [q \in {} |-> 0], term |-> {}]

States == [ready : UNION {[S -> 0 .. PPSize] : S \in SUBSET Requests},
           term  : SUBSET Requests]

Init ==
    /\ pending = [r \in Ranks |-> {}]
    /\ freeing = [r \in Ranks |-> {}]
    /\ freed = [r \in Ranks |-> {}]
    /\ started = [r \in Ranks |-> FALSE]
    /\ chan = [r \in Ranks |-> << >>]

-----------------------------------------------------------------------------
(* terminate(request): the executor loop of rank r has finished with q.    *)
Terminate(r, q) ==
    /\ Idle(r)
    /\ q \notin pending[r] \cup freed[r]
    /\ pending' = [pending EXCEPT ![r] = @ \cup {q}]
    /\ UNCHANGED <<freeing, freed, started, chan>>

\* Mutant: the last rank frees what it has just decided on.
AgreedAtOnce(r, st) ==
    IF IsLast(r)
    THEN {q \in pending[r] \cap DOMAIN st.ready : st.ready[q] = PPSize - 1}
    ELSE st.term \cap pending[r]

\* The requests rank r frees on seeing the state st.
Agreed(r, st) == st.term \cap pending[r]

\* What stays in _pending_termination of rank r.
Left(r, st) == pending[r] \ Agreed(r, st)

\* Mutant: a rank votes for a request it has not finished with.
ReadyUnasked(r, st) ==
    IF IsFirst(r)
    THEN [q \in Left(r, st) |-> 1]
    ELSE [q \in DOMAIN st.ready |-> st.ready[q] + 1]

\* Mutant: rank 0 starts the count at the number of ranks.
ReadyPrefilled(r, st) ==
    IF IsFirst(r)
    THEN [q \in Left(r, st) |-> PPSize]
    ELSE [q \in DOMAIN st.ready |->
            IF q \in Left(r, st) THEN st.ready[q] + 1 ELSE st.ready[q]]

\* The ready map after rank r: rank 0 proposes afresh, the others vote.
Ready(r, st) ==
    IF IsFirst(r)
    THEN [q \in Left(r, st) |-> 1]
    ELSE [q \in DOMAIN st.ready |->
            IF q \in Left(r, st) THEN st.ready[q] + 1 ELSE st.ready[q]]

\* Mutant: the ranks between drop the termination list.
NewStateDropped(r, st) ==
    IF IsLast(r)
    THEN [ready |-> [q \in {} |-> 0],
          term  |-> {q \in DOMAIN Ready(r, st) : Ready(r, st)[q] = PPSize}]
    ELSE [ready |-> Ready(r, st), term |-> {}]

\* new_term_state: the last rank decides, the others pass the list on.
NewState(r, st) ==
    IF IsLast(r)
    THEN [ready |-> [q \in {} |-> 0],
          term  |-> {q \in DOMAIN Ready(r, st) : Ready(r, st)[q] = PPSize}]
    ELSE [ready |-> Ready(r, st), term |-> st.term]

\* What terminate_pending_requests does up to the send, but for the input
\* channel: the requests to free leave _pending_termination.
Lap(r, st) ==
    /\ pending' = [pending EXCEPT ![r] = Left(r, st)]
    /\ freeing' = [freeing EXCEPT ![r] = Agreed(r, st)]
    /\ started' = [started EXCEPT ![r] = TRUE]
    /\ UNCHANGED freed

\* Mutant: rank 0 never waits for the message of the last rank.
FirstLapAlways(r) ==
    /\ Idle(r) /\ IsFirst(r)
    /\ Lap(r, NoState)
    /\ chan' = [chan EXCEPT ![r] = Append(@, NewState(r, NoState))]

\* Rank 0 in its first iteration receives nothing.
FirstLap(r) ==
    /\ Idle(r) /\ IsFirst(r) /\ ~started[r]
    /\ Lap(r, NoState)
    /\ chan' = [chan EXCEPT ![r] = Append(@, NewState(r, NoState))]

\* Every other call blocks until the previous rank's message is there.  The
\* wait on the handle of the rank's own last send never blocks (SingleToken).
NextLap(r) ==
    /\ Idle(r) /\ ~(IsFirst(r) /\ ~started[r])
    /\ chan[PrevRank(r)] # << >>
    /\ LET st == Head(chan[PrevRank(r)])
       IN  /\ Lap(r, st)
           /\ chan' = [chan EXCEPT ![PrevRank(r)] = Tail(@),
                                   ![r] = Append(@, NewState(r, st))]

TerminatePendingRequests(r) == FirstLap(r) \/ NextLap(r)

\* The loop after the send passes one request to _terminator_func; the next
\* rank may have the message by now.
Free(r, q) ==
    /\ q \in freeing[r]
    /\ freeing' = [freeing EXCEPT ![r] = @ \ {q}]
    /\ freed' = [freed EXCEPT ![r] = @ \cup {q}]
    /\ UNCHANGED <<pending, started, chan>>

Next ==
    \E r \in Ranks : \/ \E q \in Requests : Terminate(r, q) \/ Free(r, q)
                     \/ FirstLap(r)
                     \/ NextLap(r)

(* Ranks after the first run the call in every iteration of their loop and *)
(* only wait for the rank before them.  Rank 0 iterates when there is work *)
(* and sleeps on its request queue when there is none, so no fairness is   *)
(* assumed of it: EventuallyFreed asks for its iterations explicitly.  A   *)
(* call that has begun to free its requests goes on, on every rank.        *)
Spec ==
    /\ Init /\ [][Next]_vars
    /\ \A r \in Ranks \ {0} : WF_vars(TerminatePendingRequests(r))
    /\ \A r \in Ranks : WF_vars(\E q \in Requests : Free(r, q))

-----------------------------------------------------------------------------
(* Types; in particular no request collects more votes than there are     *)
(* ranks.                                                                  *)
TypeOK ==
    /\ pending \in [Ranks -> SUBSET Requests]
    /\ freeing \in [Ranks -> SUBSET Requests]
    /\ freed \in [Ranks -> SUBSET Requests]
    /\ started \in [Ranks -> BOOLEAN]
    /\ chan \in [Ranks -> Seq(States)]

(* At most one message is in the ring, so that a rank never waits for its  *)
(* previous isend to complete and no two laps overtake each other.         *)
SingleToken ==
    \A r, s \in Ranks :
        /\ Len(chan[r]) <= 1
        /\ chan[r] # << >> /\ chan[s] # << >> => r = s

(* "All PP ranks need to reach consensus before freeing resources": a rank *)
(* takes a request out to free it only when every rank has finished with   *)
(* it and still waits for the decision or has taken it out as well.        *)
ConsensusBeforeFree ==
    \A r, s \in Ranks : Taken(r) \subseteq pending[s] \cup Taken(s)

(* The decision is carried out in the order of the ranks: none takes out a *)
(* request that the rank before it has not taken out.  The frees keep no   *)
(* such order, whatever the docstring of terminate_pending_requests says:  *)
(* the message goes out before the loop that frees, and the next rank may  *)
(* be through with its own loop first.                                     *)
TakenInRankOrder ==
    \A r \in Ranks : ~IsFirst(r) => Taken(r) \subseteq Taken(PrevRank(r))

(* A request that every rank has finished with is freed by every rank, as  *)
(* long as rank 0's loop keeps iterating.                                  *)
EventuallyFreed ==
    []<><<TerminatePendingRequests(0)>>_vars =>
        \A q \in Requests :
            (\A r \in Ranks : q \in pending[r]) ~> (\A r \in Ranks : q \in freed[r])
=============================================================================
