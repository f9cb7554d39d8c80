------------------------ MODULE PPTerminationProofs ------------------------
(***************************************************************************)
(* Proofs, for every number of ranks and every set of requests, of the     *)
(* type invariant and of the safety invariants of PPTermination.           *)
(***************************************************************************)
EXTENDS PPTermination, TLAPS

Holds(c) == chan[c] # << >>

(* Taken, as a function: the requests each rank has freed or is freeing.   *)
taken == [r \in Ranks |-> Taken(r)]

(* What is known of the ranks when the message m is on its way out of rank *)
(* c: the list m.term has been obeyed by the ranks up to c and still waits *)
(* at the others (at all of them when the last rank has just made it up),  *)
(* and a full score in m.ready means that the ranks up to c have finished  *)
(* with the request.                                                       *)
MessageInv(c, m) ==
    /\ \A q \in m.term : \A r \in Ranks :
          IF ~IsLast(c) /\ r <= c THEN q \in taken[r] ELSE q \in pending[r]
    /\ \A q \in DOMAIN m.ready :
          /\ m.ready[q] <= c + 1
          /\ m.ready[q] = c + 1 => \A r \in Ranks : r <= c => q \in pending[r]

(* A request is taken out everywhere, nowhere, or by the list in the       *)
(* message.                                                                *)
Settled ==
    \A q \in Requests :
        \/ \A r \in Ranks : q \notin taken[r]
        \/ \A r \in Ranks : q \in taken[r]
        \/ \E c \in Ranks : ~IsLast(c) /\ Holds(c) /\ q \in Head(chan[c]).term

IInv ==
    /\ TypeOK
    /\ SingleToken
    /\ \A r \in Ranks : pending[r] \cap taken[r] = {}
    /\ ~started[0] => \A r \in Ranks : chan[r] = << >> /\ taken[r] = {}
    /\ \A c \in Ranks : Holds(c) => MessageInv(c, Head(chan[c]))
    /\ Settled

-----------------------------------------------------------------------------
(* The rank before r is another rank.                                      *)
LEMMA PrevRankFacts ==
    ASSUME NEW r \in Ranks
    PROVE  /\ PrevRank(r) \in Ranks
           /\ PrevRank(r) # r
           /\ ~IsFirst(r) => PrevRank(r) = r - 1 /\ ~IsLast(PrevRank(r))
           /\ IsFirst(r) => IsLast(PrevRank(r))
BY PPSizeAssumption DEF PrevRank, IsFirst, IsLast, Ranks

(* The message a rank sends is a message.                                  *)
LEMMA NewStateType ==
    ASSUME TypeOK, NEW r \in Ranks, NEW st \in States,
           \A q \in DOMAIN st.ready : st.ready[q] < PPSize \/ IsFirst(r)
    PROVE  NewState(r, st) \in States
<1> DEFINE votes == Ready(r, st)
<1>1. PICK S \in SUBSET Requests : st.ready \in [S -> 0 .. PPSize]
  BY DEF States
<1>2. \E D \in SUBSET Requests : votes \in [D -> 0 .. PPSize]
  <2>1. CASE IsFirst(r)
    <3>1. Left(r, st) \in SUBSET Requests
      BY DEF TypeOK, Left
    <3>2. votes \in [Left(r, st) -> 0 .. PPSize]
      BY <2>1, PPSizeAssumption DEF Ready
    <3>. QED  BY <3>1, <3>2
  <2>2. CASE ~IsFirst(r)
    <3>1. votes \in [S -> 0 .. PPSize]
      BY <2>2, <1>1, PPSizeAssumption DEF Ready
    <3>. QED  BY <3>1
  <2>. QED  BY <2>1, <2>2
<1>3. [q \in {} |-> 0] \in [{} -> 0 .. PPSize]
  OBVIOUS
<1>4. {q \in DOMAIN votes : votes[q] = PPSize} \in SUBSET Requests
  BY <1>2
<1>5. st.term \in SUBSET Requests
  BY DEF States
<1>6. CASE IsLast(r)
  BY <1>6, <1>3, <1>4 DEF NewState, States
<1>7. CASE ~IsLast(r)
  BY <1>7, <1>2, <1>5 DEF NewState, States
<1>. QED  BY <1>6, <1>7

(* What rank r knows when it receives st: MessageInv seen from the         *)
(* receiver, and true of NoState as well.                                  *)
Incoming(r, st) ==
    /\ st \in States
    /\ \A q \in st.term : \A s \in Ranks :
          IF s < r THEN q \in taken[s] ELSE q \in pending[s]
    /\ ~IsFirst(r) =>
          \A q \in DOMAIN st.ready :
             /\ st.ready[q] <= r
             /\ st.ready[q] = r => \A s \in Ranks : s < r => q \in pending[s]
    /\ \A q \in Requests :
          \/ \A s \in Ranks : q \notin taken[s]
          \/ \A s \in Ranks : q \in taken[s]
          \/ q \in st.term

(* A call of terminate_pending_requests that leaves the ring with only the *)
(* message it sends preserves the invariant.                               *)
LEMMA LapPreserves ==
    ASSUME TypeOK, \A s \in Ranks : pending[s] \cap taken[s] = {},
           NEW r \in Ranks, NEW st, Incoming(r, st), Idle(r), Lap(r, st),
           chan' = [c \in Ranks |-> IF c = r THEN <<NewState(r, st)>> ELSE << >>],
           IsFirst(r) \/ started[0]
    PROVE  IInv'
<1>0. PICK m : m = NewState(r, st)
  OBVIOUS
<1>1. m \in States
  <2>1. \A q \in DOMAIN st.ready : st.ready[q] < PPSize \/ IsFirst(r)
    <3>1. CASE IsFirst(r)
      BY <3>1
    <3>2. CASE ~IsFirst(r)
      <4> SUFFICES ASSUME NEW q \in DOMAIN st.ready
                   PROVE  st.ready[q] < PPSize
        OBVIOUS
      <4>1. PICK S \in SUBSET Requests : st.ready \in [S -> 0 .. PPSize]
        BY DEF Incoming, States
      <4>2. st.ready[q] \in 0 .. PPSize /\ st.ready[q] <= r
        BY <4>1, <3>2 DEF Incoming
      <4>. QED  BY <4>2, PPSizeAssumption DEF Ranks
    <3>. QED  BY <3>1, <3>2
  <2>. QED  BY <2>1, <1>0, NewStateType DEF Incoming
<1>2. TypeOK'
  <2>1. pending' \in [Ranks -> SUBSET Requests]
    BY DEF TypeOK, Lap, Left
  <2>2. /\ freeing' \in [Ranks -> SUBSET Requests]
        /\ freed' \in [Ranks -> SUBSET Requests]
    BY DEF TypeOK, Lap, Agreed
  <2>3. started' \in [Ranks -> BOOLEAN]
    BY DEF TypeOK, Lap
  <2>4. <<m>> \in Seq(States) /\ << >> \in Seq(States)
    BY <1>1
  <2>5. chan' \in [Ranks -> Seq(States)]
    BY <2>4, <1>0
  <2>. QED  BY <2>1, <2>2, <2>3, <2>5 DEF TypeOK
<1>3. SingleToken'
  BY DEF SingleToken
<1>4. started'[0]
  BY PPSizeAssumption DEF Lap, TypeOK, IsFirst, Ranks
<1>5. /\ \A c \in Ranks : Holds(c)' => c = r
      /\ Holds(r)' /\ Head(chan'[r]) = m
  BY <1>0 DEF Holds
<1>6. /\ \A s \in Ranks : s # r => pending'[s] = pending[s] /\ taken'[s] = taken[s]
      /\ pending'[r] = pending[r] \ (st.term \cap pending[r])
      /\ taken'[r] = taken[r] \cup (st.term \cap pending[r])
  BY DEF TypeOK, Lap, Left, Agreed, taken, Taken, Idle
<1>7. \A q \in st.term : q \in taken'[r] /\ q \notin pending'[r]
  BY <1>6 DEF Incoming, Ranks
<1>8. MessageInv(r, m)'
  <2>1. CASE ~IsLast(r)
    <3>1. m.term = st.term /\ m.ready = Ready(r, st)
      BY <1>0, <2>1 DEF NewState
    <3>2. ASSUME NEW q \in m.term, NEW s \in Ranks
          PROVE  IF s <= r THEN q \in taken'[s] ELSE q \in pending'[s]
      <4>1. CASE s = r
        BY <4>1, <3>1, <1>7 DEF Ranks
      <4>2. CASE s < r
        BY <4>2, <3>1, <1>6 DEF Incoming, Ranks
      <4>3. CASE s > r
        BY <4>3, <3>1, <1>6 DEF Incoming, Ranks
      <4>. QED  BY <4>1, <4>2, <4>3 DEF Ranks
    <3>3. ASSUME NEW q \in DOMAIN m.ready
          PROVE  /\ m.ready[q] <= r + 1
                 /\ m.ready[q] = r + 1 =>
                       \A s \in Ranks : s <= r => q \in pending'[s]
      <4>1. CASE IsFirst(r)
        <5>1. m.ready[q] = 1 /\ q \in Left(r, st)
          BY <4>1, <3>1, <3>3 DEF Ready
        <5>2. q \in pending'[r]
          BY <5>1 DEF Lap, TypeOK
        <5>. QED  BY <4>1, <5>1, <5>2 DEF IsFirst, Ranks
      <4>2. CASE ~IsFirst(r)
        <5>1. q \in DOMAIN st.ready
          BY <4>2, <3>1, <3>3 DEF Ready
        <5>2. m.ready[q] = IF q \in Left(r, st) THEN st.ready[q] + 1
                                               ELSE st.ready[q]
          BY <4>2, <3>1, <5>1 DEF Ready
        <5>3. st.ready[q] \in Nat /\ st.ready[q] <= r
          <6>1. PICK S \in SUBSET Requests : st.ready \in [S -> 0 .. PPSize]
            BY DEF Incoming, States
          <6>. QED  BY <6>1, <5>1, <4>2, PPSizeAssumption DEF Incoming
        <5>4. m.ready[q] <= r + 1
          BY <5>2, <5>3 DEF Ranks
        <5>5. ASSUME m.ready[q] = r + 1
              PROVE  \A s \in Ranks : s <= r => q \in pending'[s]
          <6>1. q \in Left(r, st) /\ st.ready[q] = r
            BY <5>2, <5>3, <5>5 DEF Ranks
          <6>2. q \in pending'[r]
            BY <6>1 DEF Lap, TypeOK
          <6>3. \A s \in Ranks : s < r => q \in pending[s]
            BY <6>1, <5>1, <4>2 DEF Incoming
          <6>. QED  BY <6>2, <6>3, <1>6 DEF Ranks
        <5>. QED  BY <5>4, <5>5
      <4>. QED  BY <4>1, <4>2
    <3>. QED  BY <2>1, <3>2, <3>3 DEF MessageInv
  <2>2. CASE IsLast(r)
    <3>1. ~IsFirst(r)
      BY <2>2, PPSizeAssumption DEF IsFirst, IsLast
    <3>2. /\ m.term = {q \in DOMAIN Ready(r, st) : Ready(r, st)[q] = PPSize}
          /\ DOMAIN m.ready = {}
      BY <1>0, <2>2 DEF NewState
    <3>3. ASSUME NEW q \in m.term, NEW s \in Ranks
          PROVE  q \in pending'[s]
      <4>1. q \in DOMAIN st.ready /\ Ready(r, st)[q] = PPSize
        BY <3>2, <3>1, <3>3 DEF Ready
      <4>2. Ready(r, st)[q] = IF q \in Left(r, st) THEN st.ready[q] + 1
                                                  ELSE st.ready[q]
        BY <4>1, <3>1 DEF Ready
      <4>3. st.ready[q] \in Nat /\ st.ready[q] <= r
        <5>1. PICK S \in SUBSET Requests : st.ready \in [S -> 0 .. PPSize]
          BY DEF Incoming, States
        <5>. QED  BY <5>1, <4>1, <3>1, PPSizeAssumption DEF Incoming
      <4>4. q \in Left(r, st) /\ st.ready[q] = r
        BY <4>1, <4>2, <4>3, <2>2, PPSizeAssumption DEF IsLast
      <4>5. q \in pending'[r]
        BY <4>4 DEF Lap, TypeOK
      <4>6. \A t \in Ranks : t < r => q \in pending[t]
        BY <4>4, <4>1, <3>1 DEF Incoming
      <4>. QED  BY <4>5, <4>6, <1>6, <2>2, PPSizeAssumption DEF IsLast, Ranks
    <3>. QED  BY <2>2, <3>2, <3>3 DEF MessageInv
  <2>. QED  BY <2>1, <2>2
<1>9. Settled'
  <2> SUFFICES ASSUME NEW q \in Requests
               PROVE  \/ \A s \in Ranks : q \notin taken'[s]
                      \/ \A s \in Ranks : q \in taken'[s]
                      \/ ~IsLast(r) /\ q \in m.term
    BY <1>5 DEF Settled
  <2>1. CASE q \notin st.term
    BY <2>1, <1>6 DEF Incoming
  <2>2. CASE q \in st.term /\ ~IsLast(r)
    BY <1>0, <2>2 DEF NewState
  <2>3. CASE q \in st.term /\ IsLast(r)
    <3>1. \A s \in Ranks : s # r => s < r
      BY <2>3, PPSizeAssumption DEF IsLast, Ranks
    <3>. QED  BY <3>1, <2>3, <1>6, <1>7 DEF Incoming
  <2>. QED  BY <2>1, <2>2, <2>3
<1>10. \A s \in Ranks : pending'[s] \cap taken'[s] = {}
  BY <1>6
<1>. QED  BY <1>2, <1>3, <1>4, <1>5, <1>8, <1>9, <1>10 DEF IInv

(* The first call of rank 0 receives nothing and finds the ring empty.     *)
LEMMA FirstLapPreserves ==
    ASSUME IInv, NEW r \in Ranks, FirstLap(r)
    PROVE  IInv'
<1>1. r = 0 /\ 0 \in Ranks /\ \A s \in Ranks : chan[s] = << >> /\ taken[s] = {}
  BY PPSizeAssumption DEF FirstLap, IsFirst, IInv, Ranks
<1>2. PICK st : st = NoState
  OBVIOUS
<1>3. st \in States
  <2>1. [q \in {} |-> 0] \in [{} -> 0 .. PPSize]
    OBVIOUS
  <2>. QED  BY <2>1, <1>2 DEF NoState, States
<1>4. st.term = {} /\ DOMAIN st.ready = {}
  BY <1>2 DEF NoState
<1>5. Incoming(r, st)
  BY <1>1, <1>3, <1>4 DEF Incoming
<1>6. chan' = [c \in Ranks |-> IF c = r THEN <<NewState(r, st)>> ELSE << >>]
  <2>1. Append(<< >>, NewState(r, st)) = <<NewState(r, st)>>
    OBVIOUS
  <2>. QED  BY <2>1, <1>1, <1>2 DEF FirstLap, IInv, TypeOK
<1>. QED  BY <1>1, <1>2, <1>5, <1>6, LapPreserves DEF FirstLap, IInv, IsFirst

(* A later call takes the only message out of the ring and puts one back.  *)
LEMMA NextLapPreserves ==
    ASSUME IInv, NEW r \in Ranks, NextLap(r)
    PROVE  IInv'
<1>1. PICK p : p = PrevRank(r)
  OBVIOUS
<1>2. /\ p \in Ranks /\ p # r
      /\ ~IsFirst(r) => p = r - 1 /\ ~IsLast(p)
      /\ IsFirst(r) => IsLast(p)
  BY <1>1, PrevRankFacts
<1>3. PICK st : st = Head(chan[p])
  OBVIOUS
<1>4. /\ chan[p] \in Seq(States) /\ chan[p] # << >> /\ Len(chan[p]) <= 1
      /\ \A s \in Ranks : s # p => chan[s] = << >>
  BY <1>1, <1>2 DEF NextLap, IInv, TypeOK, SingleToken
<1>5. st \in States /\ Tail(chan[p]) = << >>
  BY <1>3, <1>4
<1>6. chan' = [c \in Ranks |-> IF c = r THEN <<NewState(r, st)>> ELSE << >>]
  <2>1. Append(<< >>, NewState(r, st)) = <<NewState(r, st)>>
    OBVIOUS
  <2>2. chan' = [chan EXCEPT ![p] = Tail(@), ![r] = Append(@, NewState(r, st))]
    BY <1>1, <1>3 DEF NextLap
  <2>. QED  BY <2>1, <2>2, <1>2, <1>4, <1>5 DEF IInv, TypeOK
<1>7. MessageInv(p, st)
  BY <1>2, <1>3, <1>4 DEF IInv, Holds
<1>8. Incoming(r, st)
  <2>1. \A q \in st.term : \A s \in Ranks :
           IF s < r THEN q \in taken[s] ELSE q \in pending[s]
    <3>1. CASE IsFirst(r)
      BY <3>1, <1>2, <1>7 DEF MessageInv, IsFirst, Ranks
    <3>2. CASE ~IsFirst(r)
      BY <3>2, <1>2, <1>7 DEF MessageInv, Ranks
    <3>. QED  BY <3>1, <3>2
  <2>2. ASSUME ~IsFirst(r), NEW q \in DOMAIN st.ready
        PROVE  /\ st.ready[q] <= r
               /\ st.ready[q] = r => \A s \in Ranks : s < r => q \in pending[s]
    BY <2>2, <1>2, <1>7 DEF MessageInv, Ranks
  <2>3. ASSUME NEW q \in Requests
        PROVE  \/ \A s \in Ranks : q \notin taken[s]
               \/ \A s \in Ranks : q \in taken[s]
               \/ q \in st.term
    <3>1. \/ \A s \in Ranks : q \notin taken[s]
          \/ \A s \in Ranks : q \in taken[s]
          \/ \E c \in Ranks : ~IsLast(c) /\ Holds(c) /\ q \in Head(chan[c]).term
      BY <2>3 DEF IInv, Settled
    <3>. QED  BY <3>1, <1>3, <1>4 DEF Holds
  <2>. QED  BY <1>5, <2>1, <2>2, <2>3 DEF Incoming
<1>9. IsFirst(r) \/ started[0]
  BY <1>2, <1>4 DEF IInv
<1>10. Idle(r) /\ Lap(r, st)
  BY <1>1, <1>3 DEF NextLap
<1>. QED  BY <1>6, <1>8, <1>9, <1>10, LapPreserves DEF IInv

(* A rank that finishes with one more request disturbs nothing.            *)
LEMMA TerminatePreserves ==
    ASSUME IInv, NEW r \in Ranks, NEW q \in Requests, Terminate(r, q)
    PROVE  IInv'
<1>1. /\ taken' = taken /\ started' = started /\ chan' = chan
      /\ \A s \in Ranks : pending[s] \subseteq pending'[s]
  BY DEF Terminate, IInv, TypeOK, taken, Taken
<1>2. TypeOK'
  BY <1>1 DEF IInv, TypeOK, Terminate
<1>3. ASSUME NEW c \in Ranks, Holds(c)
      PROVE  MessageInv(c, Head(chan[c]))'
  <2>1. PICK m : m = Head(chan[c])
    OBVIOUS
  <2>2. MessageInv(c, m)
    BY <1>3, <2>1 DEF IInv
  <2>. QED  BY <2>1, <2>2, <1>1 DEF MessageInv
<1>4. \A s \in Ranks : pending'[s] \cap taken'[s] = {}
  BY <1>1 DEF Terminate, IInv, TypeOK, taken, Taken, Idle
<1>. QED  BY <1>1, <1>2, <1>3, <1>4 DEF IInv, SingleToken, Settled, Holds

(* Passing a request to _terminator_func changes nothing that other ranks  *)
(* rely on: it was taken out before.                                       *)
LEMMA FreePreserves ==
    ASSUME IInv, NEW r \in Ranks, NEW q \in Requests, Free(r, q)
    PROVE  IInv'
<1>1. taken' = taken /\ pending' = pending /\ started' = started /\ chan' = chan
  BY DEF Free, IInv, TypeOK, taken, Taken
<1>2. TypeOK'
  BY DEF IInv, TypeOK, Free
<1>. QED
  BY <1>1, <1>2 DEF IInv, SingleToken, Holds, MessageInv, Settled

-----------------------------------------------------------------------------
(* The inductive invariant holds initially and is preserved by every step. *)
THEOREM Inductive == Spec => []IInv
<1>1. Init => IInv
  <2> SUFFICES ASSUME Init PROVE IInv
    OBVIOUS
  <2>1. TypeOK
    BY DEF Init, TypeOK
  <2>2. SingleToken
    BY DEF Init, SingleToken
  <2>3. \A r \in Ranks : taken[r] = {}
    BY DEF Init, taken, Taken
  <2>. QED  BY <2>1, <2>2, <2>3 DEF Init, IInv, Holds, Settled
<1>2. IInv /\ [Next]_vars => IInv'
  <2> SUFFICES ASSUME IInv, [Next]_vars PROVE IInv'
    OBVIOUS
  <2>1. CASE UNCHANGED vars
    BY <2>1 DEF vars, IInv, TypeOK, SingleToken, Holds, MessageInv, Settled,
                taken, Taken
  <2>2. ASSUME NEW r \in Ranks, NEW q \in Requests, Terminate(r, q) PROVE IInv'
    BY <2>2, TerminatePreserves
  <2>3. ASSUME NEW r \in Ranks, FirstLap(r) PROVE IInv'
    BY <2>3, FirstLapPreserves
  <2>4. ASSUME NEW r \in Ranks, NextLap(r) PROVE IInv'
    BY <2>4, NextLapPreserves
  <2>5. ASSUME NEW r \in Ranks, NEW q \in Requests, Free(r, q) PROVE IInv'
    BY <2>5, FreePreserves
  <2>. QED  BY <2>1, <2>2, <2>3, <2>4, <2>5 DEF Next
<1>. QED  BY <1>1, <1>2, PTL DEF Spec

(* The state of every rank and every message is well formed.               *)
THEOREM TypeCorrect == Spec => []TypeOK
<1>1. IInv => TypeOK
  BY DEF IInv
<1>. QED  BY <1>1, Inductive, PTL

(* One message at most is in the ring, for any number of ranks.            *)
THEOREM OneToken == Spec => []SingleToken
<1>1. IInv => SingleToken
  BY DEF IInv
<1>. QED  BY <1>1, Inductive, PTL

(* No rank takes out a request that some rank has not finished with.       *)
THEOREM Consensus == Spec => []ConsensusBeforeFree
<1>1. IInv => ConsensusBeforeFree
  <2> SUFFICES ASSUME IInv, NEW r \in Ranks, NEW s \in Ranks,
                      NEW q \in taken[r]
               PROVE  q \in pending[s] \cup taken[s]
    BY DEF ConsensusBeforeFree, taken
  <2>1. q \in Requests
    BY DEF IInv, TypeOK, taken, Taken
  <2>2. CASE \A t \in Ranks : q \in taken[t]
    BY <2>2
  <2>3. CASE \E c \in Ranks : ~IsLast(c) /\ Holds(c) /\ q \in Head(chan[c]).term
    BY <2>3 DEF IInv, MessageInv
  <2>. QED  BY <2>1, <2>2, <2>3 DEF IInv, Settled
<1>. QED  BY <1>1, Inductive, PTL

(* Every rank takes out a request after the rank before it.                *)
THEOREM RankOrder == Spec => []TakenInRankOrder
<1>1. IInv => TakenInRankOrder
  <2> SUFFICES ASSUME IInv, NEW r \in Ranks, ~IsFirst(r), NEW q \in taken[r]
               PROVE  q \in taken[PrevRank(r)]
    BY PrevRankFacts DEF TakenInRankOrder, taken
  <2>1. q \in Requests
    BY DEF IInv, TypeOK, taken, Taken
  <2>2. PrevRank(r) \in Ranks /\ PrevRank(r) = r - 1
    BY PrevRankFacts
  <2>3. CASE \A t \in Ranks : q \in taken[t]
    BY <2>2, <2>3
  <2>4. CASE \E c \in Ranks : ~IsLast(c) /\ Holds(c) /\ q \in Head(chan[c]).term
    <3>1. PICK c \in Ranks : ~IsLast(c) /\ Holds(c) /\ q \in Head(chan[c]).term
      BY <2>4
    <3>2. \A t \in Ranks : IF t <= c THEN q \in taken[t] ELSE q \in pending[t]
      BY <3>1 DEF IInv, MessageInv
    <3>3. q \notin pending[r]
      BY DEF IInv
    <3>. QED  BY <3>2, <3>3, <2>2 DEF Ranks
  <2>. QED  BY <2>1, <2>3, <2>4 DEF IInv, Settled
<1>. QED  BY <1>1, Inductive, PTL
=============================================================================
