---------------------------- MODULE CapacityLoop ----------------------------
(***************************************************************************)
(* The loop of MaxUtilizationScheduler as the code runs it, to compare     *)
(* with what CapacityScheduling says of its result.                        *)
(***************************************************************************)
EXTENDS CapacityScheduling, SequencesExt

\* Mutant: the first started request is paused.
FirstStarted(s, i) == {j \in 1 .. Len(s) : /\ s[j] \in Running
                                           /\ \A k \in 1 .. j - 1 : s[k] \notin Running}

\* lastStartedReqIt: the last running request from the i-th on, if any
LastStarted(s, i) == {j \in i .. Len(s) : /\ s[j] \in Running
                                          /\ \A k \in j + 1 .. Len(s) : s[k] \notin Running}

RECURSIVE Loop(_, _, _, _)

\* At the i-th request of s, with S scheduled and P paused so far; the
\* request that is paused becomes the end of the list.
Loop(s, i, S, P) ==
    IF i > Len(s) THEN [scheduled |-> S, paused |-> P]
    ELSE IF s[i] \notin Schedulable THEN Loop(s, i + 1, S, P)
    ELSE IF /\ Cardinality(S) < MaxNumRequests
            /\ Total(Needed, S \cup {s[i]}) <= Free + Total(Held, P)
    THEN Loop(s, i + 1, S \cup {s[i]}, P)
    ELSE IF LastStarted(s, i) = {} THEN [scheduled |-> S, paused |-> P]
    ELSE LET last == CHOOSE j \in LastStarted(s, i) : TRUE
         IN  Loop(SubSeq(s, 1, last - 1), i, S, P \cup {s[last]})

(* The loop of MaxUtilizationScheduler, which retries a request each time  *)
(* it pauses another one, schedules and pauses what MaxUtilization says:   *)
(* it pauses no request that it need not pause.                            *)
LoopPausesFewest ==
    \E s \in {SetToSortSeq(Active, LAMBDA q, r : turn[q] < turn[r])} :
        Loop(s, 1, {}, {}) = MaxUtilization
=============================================================================
