------------------------ MODULE RankAgreementProofs ------------------------
(***************************************************************************)
(* Proofs about RankAgreement, for any number of ranks and requests, on a  *)
(* server whose requests are not cancelled.                                *)
(*                                                                         *)
(* A rank between two collectives runs by itself, and another may be ahead *)
(* of it or behind.  What it will bring to the next collective is settled  *)
(* all the same: Ahead(r) computes it from what r knows now.  The steps of *)
(* a rank leave its Ahead alone, and a collective changes that of all      *)
(* ranks alike, so that all the ranks have the same Ahead at all times.    *)
(***************************************************************************)
EXTENDS RankAgreement, TLAPS

-----------------------------------------------------------------------------
(* Types, and what the lack of cancellations rules out.                    *)

Labels == {"fetch", "status", "gather", "idle", "take", "start", "forward", "respond"}

States == {"new", "init", "in_progress", "complete", "generating", "done"}

LoopTypes ==
    /\ at \in [Ranks -> Labels] /\ next \in [Ranks -> {"start", "forward"}]
    /\ active \in [Ranks -> Seq(Requests)] /\ mRequesterFutures \in [Ranks -> Seq(Requests)]
    /\ state \in [Ranks -> [Requests -> States]]
    /\ batch \in [Ranks -> SUBSET Requests] /\ ready \in [Ranks -> SUBSET Requests]
    /\ take \in [Ranks -> SUBSET Requests] /\ atLeast \in [Ranks -> {0, 1}]

ThreadTypes ==
    /\ mRequestsQueue \in [Ranks -> Seq(Requests)] /\ asked \in [Ranks -> SUBSET Requests]
    /\ job \in [Ranks -> Requests \cup {NoRequest}]
    /\ future \in [Ranks -> [Requests -> {"none", "pending", "value"}]]

\* No request is withdrawn, so the context server refuses none.
ServedInv ==
    /\ withdrawn = {} /\ canceled = OnEach({}) /\ ~closed
    /\ verdict \in [Requests -> [Ranks -> {"none", "ready"}]]
    /\ result \in [Requests -> {"none", "pending", "value"}]
    /\ delivered \in [Requests -> SUBSET Ranks]
    /\ \A q \in Requests : q \notin owned => result[q] = "value"
    /\ \A q \in Requests : result[q] = "value" => delivered[q] = Ranks
    /\ \A q \in Requests : \A r \in delivered[q] : verdict[q][r] = "ready"

-----------------------------------------------------------------------------
(* What a rank brings to the next collective: the call, the way on from it *)
(* and atLeastRequestNum, and its lists, states and batch.                 *)

Chosen(a, st, S) == {q \in Range(a) : st[q] \in S}

AllPending(a, st) == IF Chosen(a, st, {"in_progress"}) = Range(a) THEN 1 ELSE 0

\* From the forward step, which an empty batch skips.
FromForward(a, st, F, b) ==
    <<IF b = {} THEN "fetch" ELSE "forward", "none", 0, a, st, F, b>>

Begun(a, st) ==
    [q \in Requests |-> IF q \in Range(Kept(a, Chosen(a, st, {"init"}))) THEN "in_progress" ELSE st[q]]

\* From Schedule.
FromStart(a, st, F) ==
    LET new == Kept(a, Chosen(a, st, {"init"}))
        b == Chosen(a, st, {"complete", "generating"})
    IN  IF new # << >>
        THEN <<"gather", "forward", AllPending(a, Begun(a, st)), a, Begun(a, st), F \o new, b>>
        ELSE IF b = {} THEN <<"idle", "forward", 0, a, Begun(a, st), F, b>>
        ELSE FromForward(a, Begun(a, st), F, b)

\* From CheckStatus.
FromStatus(a, st, F, b) ==
    IF Chosen(a, st, {"in_progress"}) # {}
    THEN <<"gather", "start", AllPending(a, st), a, st, F, b>>
    ELSE FromStart(a, st, F)

Ended(st, T) == [q \in Requests |-> IF q \in T THEN "complete" ELSE st[q]]

\* From TakeFutures of the requests of T.
FromTake(a, st, F, b, n, T) ==
    IF n = "start" THEN FromStart(a, Ended(st, T), Without(F, T))
                   ELSE FromForward(a, Ended(st, T), Without(F, T), b)

\* From HandleResponses.
FromRespond(a, st, F, b) ==
    <<"fetch", "none", 0, Without(a, Chosen(a, st, {"done"})), st, F, b>>

AheadOf(l, n, k, a, st, F, b, T) ==
    CASE l = "status" -> FromStatus(a, st, F, b)
      [] l = "start" -> FromStart(a, st, F)
      [] l = "take" -> FromTake(a, st, F, b, n, T)
      [] l = "forward" -> FromForward(a, st, F, b)
      [] l = "respond" -> FromRespond(a, st, F, b)
      [] l = "gather" -> <<l, n, k, a, st, F, b>>
      [] l = "idle" -> <<l, n, 0, a, st, F, b>>
      [] l = "fetch" -> <<l, "none", 0, a, st, F, b>>

Ahead(r) ==
    AheadOf(at[r], next[r], atLeast[r], active[r], state[r], mRequesterFutures[r], batch[r], take[r])

AgreeInv == \A r, s \in Ranks : Ahead(r) = Ahead(s)

\* At idle the way on is to the forward step.
IdleInv == \A r \in Ranks : at[r] = "idle" => next[r] = "forward"

-----------------------------------------------------------------------------
(* The order of transfers.                                                 *)

\* The transfers that r will start before the next collective.
Coming(l, n, a, st, T) ==
    CASE l = "status" -> IF Chosen(a, st, {"in_progress"}) # {} THEN << >>
                         ELSE Kept(a, Chosen(a, st, {"init"}))
      [] l = "start" -> Kept(a, Chosen(a, st, {"init"}))
      [] l = "take" -> IF n = "start" THEN Kept(a, Chosen(a, Ended(st, T), {"init"})) ELSE << >>
      [] OTHER -> << >>

\* Those, after the ones that wait in its queue.
ToAsk(r) == mRequestsQueue[r] \o Coming(at[r], next[r], active[r], state[r], take[r])

\* The request thread of r asks in the same order as that of s, which is
\* ahead of it.
Follows(r, s) ==
    \E X \in Seq(Requests) : ToAsk(r) = X \o ToAsk(s) /\ asked[s] = asked[r] \cup Range(X)

OrderInv == \A r, s \in Ranks : Follows(r, s) \/ Follows(s, r)

\* What the request thread works on, it has asked for.
JobInv == \A r \in Ranks : job[r] # NoRequest => job[r] \in asked[r]

IInv ==
    /\ LoopTypes /\ ThreadTypes /\ ServedInv /\ AgreeInv /\ IdleInv
    /\ OrderInv /\ JobInv

-----------------------------------------------------------------------------
(* Laws of lists and sizes, proved in the last section.                    *)

ListLaws ==
    /\ \A s \in Seq(Requests) : \A S : Kept(s, S) \in Seq(Requests)
    /\ \A s \in Seq(Requests) : Without(s, {}) = s
    /\ \A N \in SUBSET Requests : Cardinality(N) \in Nat

\* Where a rank is says how it goes on, and which transfers it starts.
AheadBy(r) ==
    /\ at[r] = "status" => Ahead(r) =
         FromStatus(active[r], state[r], mRequesterFutures[r], batch[r])
    /\ at[r] = "start" => Ahead(r) =
         FromStart(active[r], state[r], mRequesterFutures[r])
    /\ at[r] = "take" => Ahead(r) =
         FromTake(active[r], state[r], mRequesterFutures[r], batch[r], next[r], take[r])
    /\ at[r] = "forward" => Ahead(r) =
         FromForward(active[r], state[r], mRequesterFutures[r], batch[r])
    /\ at[r] = "respond" => Ahead(r) =
         FromRespond(active[r], state[r], mRequesterFutures[r], batch[r])
    /\ at[r] = "gather" => Ahead(r) =
         <<"gather", next[r], atLeast[r], active[r], state[r], mRequesterFutures[r], batch[r]>>
    /\ at[r] = "idle" => Ahead(r) =
         <<"idle", next[r], 0, active[r], state[r], mRequesterFutures[r], batch[r]>>
    /\ at[r] = "fetch" => Ahead(r) =
         <<"fetch", "none", 0, active[r], state[r], mRequesterFutures[r], batch[r]>>

ComingBy(r) ==
    LET coming == Coming(at[r], next[r], active[r], state[r], take[r])
        init == Kept(active[r], Chosen(active[r], state[r], {"init"}))
    IN  /\ at[r] = "status" => coming =
              IF Chosen(active[r], state[r], {"in_progress"}) # {} THEN << >> ELSE init
        /\ at[r] = "start" => coming = init
        /\ at[r] = "take" => coming =
              IF next[r] = "start"
              THEN Kept(active[r], Chosen(active[r], Ended(state[r], take[r]), {"init"}))
              ELSE << >>
        /\ at[r] \in {"fetch", "gather", "idle", "forward", "respond"} => coming = << >>

LEMMA AheadLaws ==
    ASSUME NEW r \in Ranks
    PROVE  AheadBy(r)
BY DEF AheadBy, Ahead, AheadOf

LEMMA AheadLawsNext ==
    ASSUME NEW r \in Ranks
    PROVE  AheadBy(r)'
BY AheadLaws, PTL

LEMMA ComingLaws ==
    ASSUME NEW r \in Ranks
    PROVE  ComingBy(r)
BY DEF ComingBy, Coming

LEMMA ComingLawsNext ==
    ASSUME NEW r \in Ranks
    PROVE  ComingBy(r)'
BY ComingLaws, PTL

\* A list of transfers is one.
LEMMA ComingType ==
    ASSUME ListLaws, NEW a \in Seq(Requests), NEW l, NEW n, NEW st, NEW T
    PROVE  Coming(l, n, a, st, T) \in Seq(Requests)
<1>1. \A S : Kept(a, S) \in Seq(Requests)
  BY Zenon DEF ListLaws
<1>2. << >> \in Seq(Requests)
  OBVIOUS
<1>. QED  BY Zenon, <1>1, <1>2 DEF Coming

\* The variables of a rank that Ahead and ToAsk depend on.
Same(r) ==
    /\ at'[r] = at[r] /\ next'[r] = next[r] /\ atLeast'[r] = atLeast[r]
    /\ active'[r] = active[r] /\ state'[r] = state[r] /\ batch'[r] = batch[r]
    /\ mRequesterFutures'[r] = mRequesterFutures[r] /\ take'[r] = take[r]

\* No rank but r moves.
Alone(r) == \A s \in Ranks \ {r} : Same(s) /\ mRequestsQueue'[s] = mRequestsQueue[s]

\* A step of r alone that does not change what it brings.
LEMMA AloneStep ==
    ASSUME IInv, NEW r \in Ranks, Alone(r), Ahead(r)' = Ahead(r), ToAsk(r)' = ToAsk(r),
           asked' = asked
    PROVE  AgreeInv' /\ OrderInv'
<1>1. \A s \in Ranks : Ahead(s)' = Ahead(s)
  BY Zenon DEF Alone, Same, Ahead
<1>2. \A s \in Ranks : ToAsk(s)' = ToAsk(s)
  BY Zenon DEF Alone, Same, ToAsk
<1>3. AgreeInv'
  BY Zenon, <1>1 DEF IInv, AgreeInv
<1>4. \A s, t \in Ranks : Follows(s, t) => Follows(s, t)'
  BY Zenon, <1>2 DEF Follows
<1>. QED  BY Zenon, <1>3, <1>4 DEF IInv, OrderInv

LEMMA Associates ==
    ASSUME NEW X \in Seq(Requests), NEW Y \in Seq(Requests), NEW Z \in Seq(Requests)
    PROVE  (X \o Y) \o Z = X \o (Y \o Z)
OBVIOUS

\* A collective, after which all the ranks bring the same, and start the same.
LEMMA TogetherStep ==
    ASSUME IInv, NEW A, \A r \in Ranks : Ahead(r)' = A,
           NEW P \in Seq(Requests), \A r \in Ranks : ToAsk(r)' = ToAsk(r) \o P,
           \A r \in Ranks : ToAsk(r) \in Seq(Requests), asked' = asked
    PROVE  AgreeInv' /\ OrderInv'
<1>1. AgreeInv'
  BY Zenon DEF AgreeInv
<1>2. ASSUME NEW r \in Ranks, NEW s \in Ranks, Follows(r, s) PROVE Follows(r, s)'
  <2>1. PICK X \in Seq(Requests) : ToAsk(r) = X \o ToAsk(s) /\ asked[s] = asked[r] \cup Range(X)
    BY Zenon, <1>2 DEF Follows
  <2>2. (X \o ToAsk(s)) \o P = X \o (ToAsk(s) \o P)
    <3>1. PICK T \in Seq(Requests) : T = ToAsk(s)
      BY Zenon
    <3>2. (X \o T) \o P = X \o (T \o P)
      BY Zenon, <2>1, <3>1, Associates
    <3>. QED  BY Zenon, <3>1, <3>2
  <2>3. ToAsk(r)' = X \o ToAsk(s)'
    BY Zenon, <2>1, <2>2
  <2>4. asked'[s] = asked'[r] \cup Range(X)
    BY Zenon, <2>1
  <2>. QED  BY Zenon, <2>3, <2>4 DEF Follows
<1>. QED  BY Zenon, <1>1, <1>2 DEF IInv, OrderInv

-----------------------------------------------------------------------------
(* The steps of one rank's executor loop.                                  *)

\* Steps that leave the context server alone.
LEMMA ServedKept ==
    ASSUME ServedInv, UNCHANGED <<context, canceled, withdrawn>>
    PROVE  ServedInv'
BY Zenon DEF ServedInv, context

LEMMA JobKept ==
    ASSUME JobInv, UNCHANGED <<job, asked>>
    PROVE  JobInv'
BY Zenon DEF JobInv

LEMMA StatusStep ==
    ASSUME ListLaws, IInv, NEW r \in Ranks, CheckStatus(r)
    PROVE  IInv'
<1>1. LoopTypes /\ ThreadTypes /\ ServedInv /\ IdleInv /\ JobInv
  BY Zenon DEF IInv
<1>2. at[r] = "status"
  BY Zenon DEF CheckStatus
<1>3. UNCHANGED <<context, active, state, canceled, batch, thread, withdrawn>>
  BY Zenon DEF CheckStatus
<1>4. ThreadTypes' /\ ServedInv' /\ JobInv'
  BY Zenon, <1>1, <1>3, ServedKept, JobKept DEF ThreadTypes, thread
<1>5. In(r, {"in_progress"}) = Chosen(active[r], state[r], {"in_progress"})
  BY Zenon DEF In, Chosen
<1>6. mRequestsQueue' = mRequestsQueue /\ asked' = asked
  BY Zenon, <1>3 DEF thread
<1>7. CASE In(r, {"in_progress"}) # {}
  <2>1. EnterStatus(r, mRequesterFutures[r], In(r, {"in_progress"}) = Range(active[r]), "start")
    BY Zenon, <1>7 DEF CheckStatus
  <2>2. /\ ready' = [ready EXCEPT ![r] = Settled(r)]
        /\ atLeast' = [atLeast EXCEPT ![r] = AllPending(active[r], state[r])]
        /\ mRequesterFutures' = [mRequesterFutures EXCEPT ![r] = mRequesterFutures[r]]
        /\ next' = [next EXCEPT ![r] = "start"]
        /\ at' = [at EXCEPT ![r] = "gather"] /\ take' = take
    BY Zenon, <2>1, <1>5 DEF EnterStatus, AllPending
  <2>3. Settled(r) \in SUBSET Requests /\ AllPending(active[r], state[r]) \in {0, 1}
    BY <1>1 DEF Settled, LoopTypes, Range, AllPending
  <2>4. LoopTypes' /\ IdleInv'
    BY <1>1, <1>3, <2>2, <2>3 DEF LoopTypes, IdleInv, Labels
  <2>5. Alone(r)
    BY <1>1, <1>3, <1>6, <2>2 DEF LoopTypes, Alone, Same
  <2>6. /\ at'[r] = "gather" /\ next'[r] = "start"
        /\ atLeast'[r] = AllPending(active[r], state[r])
        /\ mRequesterFutures'[r] = mRequesterFutures[r]
    BY <1>1, <2>2 DEF LoopTypes
  <2>7. Ahead(r)' = Ahead(r)
    <3>1. Ahead(r) = FromStatus(active[r], state[r], mRequesterFutures[r], batch[r])
      BY Zenon, <1>2, AheadLaws DEF AheadBy
    <3>2. Ahead(r) = <<"gather", "start", AllPending(active[r], state[r]), active[r], state[r],
                       mRequesterFutures[r], batch[r]>>
      BY Zenon, <3>1, <1>5, <1>7 DEF FromStatus
    <3>3. Ahead(r)' = <<"gather", next'[r], atLeast'[r], active'[r], state'[r],
                        mRequesterFutures'[r], batch'[r]>>
      BY Zenon, <2>6, AheadLawsNext DEF AheadBy
    <3>. QED  BY Zenon, <3>2, <3>3, <1>3, <2>6
  <2>8. ToAsk(r)' = ToAsk(r)
    <3>1. Coming(at[r], next[r], active[r], state[r], take[r]) = << >>
      BY Zenon, <1>2, <1>5, <1>7, ComingLaws, ComingLawsNext DEF ComingBy
    <3>2. Coming(at'[r], next'[r], active'[r], state'[r], take'[r]) = << >>
      BY Zenon, <2>6, ComingLaws, ComingLawsNext DEF ComingBy
    <3>. QED  BY Zenon, <3>1, <3>2, <1>6 DEF ToAsk
  <2>. QED  BY Zenon, <1>4, <1>6, <2>4, <2>5, <2>7, <2>8, AloneStep DEF IInv
<1>8. CASE In(r, {"in_progress"}) = {}
  <2>1. at' = [at EXCEPT ![r] = "start"] /\ UNCHANGED <<status, mRequesterFutures>>
    BY Zenon, <1>8 DEF CheckStatus
  <2>2. next' = next /\ atLeast' = atLeast /\ take' = take /\ ready' = ready
    BY Zenon, <2>1 DEF status
  <2>4. LoopTypes' /\ IdleInv'
    BY <1>1, <1>3, <2>1, <2>2 DEF LoopTypes, IdleInv, Labels
  <2>5. Alone(r)
    BY <1>1, <1>3, <1>6, <2>1, <2>2 DEF LoopTypes, Alone, Same
  <2>6. at'[r] = "start"
    BY <1>1, <2>1 DEF LoopTypes
  <2>7. Ahead(r)' = Ahead(r)
    BY Zenon, <1>2, <1>3, <1>5, <1>8, <2>1, <2>2, <2>6, AheadLaws, AheadLawsNext DEF AheadBy, FromStatus
  <2>8. ToAsk(r)' = ToAsk(r)
    BY Zenon, <1>2, <1>3, <1>5, <1>6, <1>8, <2>2, <2>6, ComingLaws, ComingLawsNext DEF ToAsk, ComingBy
  <2>. QED  BY Zenon, <1>4, <1>6, <2>4, <2>5, <2>7, <2>8, AloneStep DEF IInv
<1>. QED  BY Zenon, <1>7, <1>8

LEMMA SkipStepStep ==
    ASSUME ListLaws, IInv, NEW r \in Ranks, SkipStep(r)
    PROVE  IInv'
<1>1. LoopTypes /\ ThreadTypes /\ ServedInv /\ IdleInv /\ JobInv
  BY Zenon DEF IInv
<1>2. at[r] = "forward" /\ batch[r] = {}
  BY Zenon DEF SkipStep
<1>3. /\ UNCHANGED <<context, active, state, canceled, batch, mRequesterFutures, thread, withdrawn>>
      /\ next' = next /\ atLeast' = atLeast /\ take' = take /\ ready' = ready
      /\ at' = [at EXCEPT ![r] = "fetch"]
  BY Zenon DEF SkipStep, status
<1>4. ThreadTypes' /\ ServedInv' /\ JobInv'
  BY Zenon, <1>1, <1>3, ServedKept, JobKept DEF ThreadTypes, thread
<1>5. mRequestsQueue' = mRequestsQueue /\ asked' = asked
  BY Zenon, <1>3 DEF thread
<1>6. LoopTypes' /\ IdleInv'
  BY <1>1, <1>3 DEF LoopTypes, IdleInv, Labels
<1>7. Alone(r)
  BY <1>1, <1>3, <1>5 DEF LoopTypes, Alone, Same
<1>8. at'[r] = "fetch"
  BY <1>1, <1>3 DEF LoopTypes
<1>9. Ahead(r)' = Ahead(r)
  BY Zenon, <1>2, <1>3, <1>8, AheadLaws, AheadLawsNext DEF AheadBy, FromForward
<1>10. ToAsk(r)' = ToAsk(r)
  <2>1. Coming(at[r], next[r], active[r], state[r], take[r]) = << >>
    BY Zenon, <1>2, ComingLaws, ComingLawsNext DEF ComingBy
  <2>2. Coming(at'[r], next'[r], active'[r], state'[r], take'[r]) = << >>
    BY Zenon, <1>8, ComingLaws, ComingLawsNext DEF ComingBy
  <2>. QED  BY Zenon, <2>1, <2>2, <1>5 DEF ToAsk
<1>. QED  BY Zenon, <1>4, <1>5, <1>6, <1>7, <1>9, <1>10, AloneStep DEF IInv

LEMMA TakeStep ==
    ASSUME ListLaws, IInv, NEW r \in Ranks, TakeFutures(r)
    PROVE  IInv'
<1>. DEFINE st == [q \in Requests |->
                     IF q \notin take[r] THEN state[r][q]
                     ELSE IF future[r][q] = "value" THEN "complete" ELSE "error"]
<1>1. LoopTypes /\ ThreadTypes /\ ServedInv /\ IdleInv /\ JobInv
  BY Zenon DEF IInv
<1>2. at[r] = "take" /\ take[r] \subseteq Settled(r)
  BY Zenon DEF TakeFutures
<1>3. /\ UNCHANGED <<context, canceled, batch, thread, withdrawn>>
      /\ next' = next /\ atLeast' = atLeast /\ take' = take /\ ready' = ready
      /\ at' = [at EXCEPT ![r] = next[r]]
      /\ mRequesterFutures' = [mRequesterFutures EXCEPT ![r] = Without(mRequesterFutures[r], take[r])]
      /\ state' = [state EXCEPT ![r] = AfterErrors(r, st)]
      /\ active' = [active EXCEPT ![r] = Without(active[r], Errors(r, st))]
  BY Zenon DEF TakeFutures, status
<1>4. ThreadTypes' /\ ServedInv' /\ JobInv'
  BY Zenon, <1>1, <1>3, ServedKept, JobKept DEF ThreadTypes, thread
<1>5. mRequestsQueue' = mRequestsQueue /\ asked' = asked
  BY Zenon, <1>3 DEF thread
<1>6. \A q \in take[r] : q \in Requests => future[r][q] = "value"
  <2>1. \A q \in Requests : future[r][q] # "exception"
    <3>1. future[r] \in [Requests -> {"none", "pending", "value"}]
      BY Zenon, <1>1 DEF ThreadTypes
    <3>. QED  BY <3>1
  <2>. QED  BY Zenon, <1>2, <2>1 DEF Settled
<1>7. st = Ended(state[r], take[r])
  BY Zenon, <1>6 DEF Ended
<1>8. st \in [Requests -> States]
  BY <1>1, <1>7 DEF LoopTypes, Ended, States
<1>. HIDE DEF st
<1>9. Errors(r, st) = {}
  <2>1. active[r] \in Seq(Requests)
    BY <1>1 DEF LoopTypes
  <2>2. Range(active[r]) \subseteq Requests
    BY <2>1 DEF Range
  <2>3. \A q \in Requests : st[q] # "error"
    BY <1>8 DEF States
  <2>. QED  BY Zenon, <2>2, <2>3 DEF Errors
<1>10. AfterErrors(r, st) = st
  BY <1>8, <1>9 DEF AfterErrors
<1>11. active[r] \in Seq(Requests) /\ mRequesterFutures[r] \in Seq(Requests)
  BY <1>1 DEF LoopTypes
<1>12. /\ Without(active[r], {}) = active[r]
       /\ Without(mRequesterFutures[r], take[r]) \in Seq(Requests)
  BY Zenon, <1>11 DEF ListLaws, Without
<1>13. active' = active
  BY <1>1, <1>3, <1>9, <1>12 DEF LoopTypes
<1>14. state' = [state EXCEPT ![r] = Ended(state[r], take[r])]
  BY Zenon, <1>3, <1>10, <1>7
<1>15. Ended(state[r], take[r]) \in [Requests -> States]
  BY Zenon, <1>7, <1>8
<1>16. LoopTypes' /\ IdleInv'
  <2>1. at' \in [Ranks -> Labels] /\ IdleInv'
    BY <1>1, <1>3 DEF LoopTypes, IdleInv, Labels
  <2>2. state' \in [Ranks -> [Requests -> States]]
    BY Zenon, <1>1, <1>14, <1>15 DEF LoopTypes
  <2>3. mRequesterFutures' \in [Ranks -> Seq(Requests)]
    BY Zenon, <1>1, <1>3, <1>12 DEF LoopTypes
  <2>. QED  BY Zenon, <1>1, <1>3, <1>13, <2>1, <2>2, <2>3 DEF LoopTypes
<1>17. Alone(r)
  BY <1>1, <1>3, <1>5, <1>13, <1>14 DEF LoopTypes, Alone, Same
<1>18. /\ at'[r] = next[r] /\ state'[r] = Ended(state[r], take[r])
       /\ mRequesterFutures'[r] = Without(mRequesterFutures[r], take[r])
  BY <1>1, <1>3, <1>14 DEF LoopTypes
<1>19. next[r] \in {"start", "forward"}
  BY <1>1 DEF LoopTypes
<1>20. Ahead(r)' = Ahead(r)
  <2>. DEFINE F == Without(mRequesterFutures[r], take[r])
              sr == Ended(state[r], take[r])
  <2>3. Ahead(r) = FromTake(active[r], state[r], mRequesterFutures[r], batch[r], next[r], take[r])
    BY Zenon, <1>2, AheadLaws DEF AheadBy
  <2>. HIDE DEF F, sr
  <2>1. CASE next[r] = "start"
    <3>1. Ahead(r) = FromStart(active[r], sr, F)
      BY Zenon, <2>3, <2>1 DEF FromTake, F, sr
    <3>2. Ahead(r)' = FromStart(active'[r], state'[r], mRequesterFutures'[r])
      BY Zenon, <1>18, <2>1, AheadLawsNext DEF AheadBy
    <3>. QED  BY Zenon, <3>1, <3>2, <1>3, <1>13, <1>18 DEF F, sr
  <2>2. CASE next[r] = "forward"
    <3>1. Ahead(r) = FromForward(active[r], sr, F, batch[r])
      BY Zenon, <2>3, <2>2 DEF FromTake, F, sr
    <3>2. Ahead(r)' = FromForward(active'[r], state'[r], mRequesterFutures'[r], batch'[r])
      BY Zenon, <1>18, <2>2, AheadLawsNext DEF AheadBy
    <3>. QED  BY Zenon, <3>1, <3>2, <1>3, <1>13, <1>18 DEF F, sr
  <2>. QED  BY Zenon, <1>19, <2>1, <2>2
<1>21. ToAsk(r)' = ToAsk(r)
  <2>1. CASE next[r] = "start"
    BY Zenon, <1>2, <1>3, <1>5, <1>13, <1>18, <2>1, ComingLaws, ComingLawsNext DEF ToAsk, ComingBy
  <2>2. CASE next[r] = "forward"
    <3>1. Coming(at[r], next[r], active[r], state[r], take[r]) = << >>
      BY Zenon, <1>2, <2>2, ComingLaws, ComingLawsNext DEF ComingBy
    <3>2. Coming(at'[r], next'[r], active'[r], state'[r], take'[r]) = << >>
      BY Zenon, <1>18, <2>2, ComingLaws, ComingLawsNext DEF ComingBy
    <3>. QED  BY Zenon, <3>1, <3>2, <1>5 DEF ToAsk
  <2>. QED  BY Zenon, <1>19, <2>1, <2>2
<1>. QED  BY Zenon, <1>4, <1>5, <1>16, <1>17, <1>20, <1>21, AloneStep DEF IInv

LEMMA ScheduleStep ==
    ASSUME ListLaws, IInv, NEW r \in Ranks, Schedule(r)
    PROVE  IInv'
<1>. DEFINE new == Kept(active[r], Chosen(active[r], state[r], {"init"}))
            b == Chosen(active[r], state[r], {"complete", "generating"})
            st == Begun(active[r], state[r])
            fut == [q \in Requests |-> IF q \in Range(new) THEN "pending" ELSE future[r][q]]
            pending == \A q \in Range(active[r]) : state'[r][q] = "in_progress"
<1>1. LoopTypes /\ ThreadTypes /\ ServedInv /\ IdleInv /\ JobInv
  BY Zenon DEF IInv
<1>2. /\ In(r, {"init"}) = Chosen(active[r], state[r], {"init"})
      /\ In(r, {"complete", "generating"}) = b
  BY Zenon DEF In, Chosen
<1>3. /\ at[r] = "start" /\ UNCHANGED <<context, active, canceled, job, asked, withdrawn>>
      /\ batch' = [batch EXCEPT ![r] = b]
      /\ state' = [state EXCEPT ![r] = [q \in Requests |->
                      IF q \in Range(new) THEN "in_progress" ELSE state[r][q]]]
      /\ mRequestsQueue' = [mRequestsQueue EXCEPT ![r] = mRequestsQueue[r] \o new]
      /\ future' = [future EXCEPT ![r] = fut]
      /\ new # << >> => EnterStatus(r, mRequesterFutures[r] \o new, pending, "forward")
      /\ new = << >> =>
            /\ at' = [at EXCEPT ![r] = IF batch'[r] = {} THEN "idle" ELSE "forward"]
            /\ next' = [next EXCEPT ![r] = "forward"]
            /\ UNCHANGED <<ready, atLeast, take, mRequesterFutures>>
  <2>1. PICK n \in StartOrder(r) :
          /\ state' = [state EXCEPT ![r] = [q \in Requests |->
                          IF q \in Range(n) THEN "in_progress" ELSE state[r][q]]]
          /\ mRequestsQueue' = [mRequestsQueue EXCEPT ![r] = mRequestsQueue[r] \o n]
          /\ future' = [future EXCEPT ![r] =
                           [q \in Requests |-> IF q \in Range(n) THEN "pending" ELSE future[r][q]]]
          /\ n # << >> => EnterStatus(r, mRequesterFutures[r] \o n, pending, "forward")
          /\ n = << >> =>
               /\ at' = [at EXCEPT ![r] = IF batch'[r] = {} THEN "idle" ELSE "forward"]
               /\ next' = [next EXCEPT ![r] = "forward"]
               /\ UNCHANGED <<ready, atLeast, take, mRequesterFutures>>
    BY Zenon DEF Schedule
  <2>2. n = new
    BY Zenon, <2>1, <1>2 DEF StartOrder
  <2>3. /\ at[r] = "start" /\ UNCHANGED <<context, active, canceled, job, asked, withdrawn>>
        /\ batch' = [batch EXCEPT ![r] = b]
    BY Zenon, <1>2 DEF Schedule
  <2>. HIDE DEF new, pending
  <2>. QED  BY Zenon, <2>1, <2>2, <2>3
<1>4. /\ active[r] \in Seq(Requests) /\ mRequesterFutures[r] \in Seq(Requests)
      /\ mRequestsQueue[r] \in Seq(Requests) /\ state[r] \in [Requests -> States]
      /\ future[r] \in [Requests -> {"none", "pending", "value"}]
  BY Zenon, <1>1 DEF LoopTypes, ThreadTypes
<1>5. new \in Seq(Requests)
  BY Zenon, <1>4 DEF ListLaws
<1>6. b \in SUBSET Requests
  BY <1>4 DEF Chosen, Range
<1>7. state' = [state EXCEPT ![r] = st]
  BY Zenon, <1>3 DEF Begun
<1>8. st \in [Requests -> States]
  <2>1. st = [q \in Requests |-> IF q \in Range(new) THEN "in_progress" ELSE state[r][q]]
    BY Zenon DEF Begun
  <2>. HIDE DEF st, new
  <2>. QED  BY <2>1, <1>4 DEF States
<1>9. fut \in [Requests -> {"none", "pending", "value"}]
  BY <1>4
<1>. HIDE DEF new, b, st, fut
<1>10. ServedInv' /\ JobInv'
  BY Zenon, <1>1, <1>3, ServedKept, JobKept
<1>11. mRequestsQueue[r] \o new \in Seq(Requests) /\ mRequesterFutures[r] \o new \in Seq(Requests)
  BY <1>4, <1>5
<1>12. ThreadTypes'
  <2>1. mRequestsQueue' \in [Ranks -> Seq(Requests)]
    BY Zenon, <1>1, <1>3, <1>11 DEF ThreadTypes
  <2>2. future' \in [Ranks -> [Requests -> {"none", "pending", "value"}]]
    BY Zenon, <1>1, <1>3, <1>9 DEF ThreadTypes
  <2>. QED  BY Zenon, <1>1, <1>3, <2>1, <2>2 DEF ThreadTypes
<1>13. batch' \in [Ranks -> SUBSET Requests] /\ state' \in [Ranks -> [Requests -> States]]
  <2>1. batch' \in [Ranks -> SUBSET Requests]
    BY Zenon, <1>1, <1>3, <1>6 DEF LoopTypes
  <2>2. state' \in [Ranks -> [Requests -> States]]
    BY Zenon, <1>1, <1>7, <1>8 DEF LoopTypes
  <2>. QED  BY Zenon, <2>1, <2>2
<1>14. batch'[r] = b /\ state'[r] = st /\ mRequestsQueue'[r] = mRequestsQueue[r] \o new
  BY Zenon, <1>1, <1>3, <1>7 DEF LoopTypes, ThreadTypes
<1>15. \A s \in Ranks \ {r} : /\ batch'[s] = batch[s] /\ state'[s] = state[s]
                              /\ mRequestsQueue'[s] = mRequestsQueue[s]
  BY Zenon, <1>1, <1>3, <1>7 DEF LoopTypes, ThreadTypes
<1>16. Ahead(r) = FromStart(active[r], state[r], mRequesterFutures[r])
  BY Zenon, <1>3, AheadLaws DEF AheadBy
<1>17. ASSUME at'[r] \in {"gather", "idle", "forward"}
       PROVE  ToAsk(r)' = ToAsk(r)
  <2>1. Coming(at[r], next[r], active[r], state[r], take[r]) = new
    BY Zenon, <1>3, ComingLaws DEF ComingBy, new
  <2>2. Coming(at'[r], next'[r], active'[r], state'[r], take'[r]) = << >>
    BY Zenon, <1>17, ComingLawsNext DEF ComingBy
  <2>3. (mRequestsQueue[r] \o new) \o << >> = mRequestsQueue[r] \o new
    BY <1>11
  <2>. QED  BY Zenon, <2>1, <2>2, <2>3, <1>14 DEF ToAsk
<1>18. CASE new # << >>
  <2>1. (IF pending THEN 1 ELSE 0) = AllPending(active[r], st)
    <3>1. pending <=> Chosen(active[r], st, {"in_progress"}) = Range(active[r])
      BY Zenon, <1>14 DEF Chosen
    <3>. HIDE DEF pending
    <3>. QED  BY Zenon, <3>1 DEF AllPending
  <2>2. /\ ready' = [ready EXCEPT ![r] = Settled(r)]
        /\ atLeast' = [atLeast EXCEPT ![r] = AllPending(active[r], st)]
        /\ mRequesterFutures' = [mRequesterFutures EXCEPT ![r] = mRequesterFutures[r] \o new]
        /\ next' = [next EXCEPT ![r] = "forward"]
        /\ at' = [at EXCEPT ![r] = "gather"] /\ take' = take
    <3>. HIDE DEF pending
    <3>. QED  BY Zenon, <1>3, <1>18, <2>1 DEF EnterStatus
  <2>3. Settled(r) \in SUBSET Requests /\ AllPending(active[r], st) \in {0, 1}
    BY <1>4 DEF Settled, Range, AllPending
  <2>4. LoopTypes' /\ IdleInv'
    <3>1. mRequesterFutures' \in [Ranks -> Seq(Requests)]
      BY Zenon, <1>1, <1>11, <2>2 DEF LoopTypes
    <3>2. /\ at' \in [Ranks -> Labels] /\ next' \in [Ranks -> {"start", "forward"}]
          /\ ready' \in [Ranks -> SUBSET Requests] /\ atLeast' \in [Ranks -> {0, 1}] /\ IdleInv'
      BY <1>1, <2>2, <2>3 DEF LoopTypes, Labels, IdleInv
    <3>. QED  BY Zenon, <1>1, <1>3, <1>13, <2>2, <3>1, <3>2 DEF LoopTypes
  <2>5. Alone(r)
    <3>1. \A s \in Ranks \ {r} :
            /\ at'[s] = at[s] /\ next'[s] = next[s] /\ atLeast'[s] = atLeast[s]
            /\ mRequesterFutures'[s] = mRequesterFutures[s]
      BY <1>1, <2>2 DEF LoopTypes
    <3>. QED  BY Zenon, <1>3, <1>15, <2>2, <3>1 DEF Alone, Same
  <2>6. /\ at'[r] = "gather" /\ next'[r] = "forward"
        /\ atLeast'[r] = AllPending(active[r], st)
        /\ mRequesterFutures'[r] = mRequesterFutures[r] \o new
    BY <1>1, <2>2 DEF LoopTypes
  <2>7. Ahead(r)' = Ahead(r)
    <3>1. Ahead(r) = <<"gather", "forward", AllPending(active[r], st), active[r], st,
                       mRequesterFutures[r] \o new, b>>
      BY Zenon, <1>16, <1>18 DEF FromStart, new, st, b
    <3>2. Ahead(r)' = <<"gather", next'[r], atLeast'[r], active'[r], state'[r],
                        mRequesterFutures'[r], batch'[r]>>
      BY Zenon, <2>6, AheadLawsNext DEF AheadBy
    <3>. QED  BY Zenon, <3>1, <3>2, <1>3, <1>14, <2>6
  <2>8. ToAsk(r)' = ToAsk(r)
    BY Zenon, <1>17, <2>6
  <2>. QED  BY Zenon, <1>3, <1>10, <1>12, <2>4, <2>5, <2>7, <2>8, AloneStep DEF IInv
<1>19. CASE new = << >>
  <2>1. /\ at' = [at EXCEPT ![r] = IF b = {} THEN "idle" ELSE "forward"]
        /\ next' = [next EXCEPT ![r] = "forward"]
        /\ ready' = ready /\ atLeast' = atLeast /\ take' = take
        /\ mRequesterFutures' = mRequesterFutures
    BY Zenon, <1>3, <1>14, <1>19
  <2>2. LoopTypes' /\ IdleInv'
    <3>1. /\ at' \in [Ranks -> Labels] /\ next' \in [Ranks -> {"start", "forward"}] /\ IdleInv'
      BY <1>1, <2>1 DEF LoopTypes, Labels, IdleInv
    <3>. QED  BY Zenon, <1>1, <1>3, <1>13, <2>1, <3>1 DEF LoopTypes
  <2>3. Alone(r)
    <3>1. \A s \in Ranks \ {r} : at'[s] = at[s] /\ next'[s] = next[s]
      BY <1>1, <2>1 DEF LoopTypes
    <3>. QED  BY Zenon, <1>3, <1>15, <2>1, <3>1 DEF Alone, Same
  <2>4. at'[r] = (IF b = {} THEN "idle" ELSE "forward") /\ next'[r] = "forward"
    BY <1>1, <2>1 DEF LoopTypes
  <2>5. Ahead(r)' = Ahead(r)
    <3>1. CASE b = {}
      <4>1. Ahead(r) = <<"idle", "forward", 0, active[r], st, mRequesterFutures[r], b>>
        BY Zenon, <1>16, <1>19, <3>1 DEF FromStart, new, st, b
      <4>2. Ahead(r)' = <<"idle", next'[r], 0, active'[r], state'[r],
                          mRequesterFutures'[r], batch'[r]>>
        BY Zenon, <2>4, <3>1, AheadLawsNext DEF AheadBy
      <4>. QED  BY Zenon, <4>1, <4>2, <1>3, <1>14, <2>1, <2>4
    <3>2. CASE b # {}
      <4>1. Ahead(r) = FromForward(active[r], st, mRequesterFutures[r], b)
        BY Zenon, <1>16, <1>19, <3>2 DEF FromStart, new, st, b
      <4>2. Ahead(r)' = FromForward(active'[r], state'[r], mRequesterFutures'[r], batch'[r])
        BY Zenon, <2>4, <3>2, AheadLawsNext DEF AheadBy
      <4>. QED  BY Zenon, <4>1, <4>2, <1>3, <1>14, <2>1
    <3>. QED  BY Zenon, <3>1, <3>2
  <2>6. ToAsk(r)' = ToAsk(r)
    BY Zenon, <1>17, <2>4
  <2>. QED  BY Zenon, <1>3, <1>10, <1>12, <2>2, <2>3, <2>5, <2>6, AloneStep DEF IInv
<1>. QED  BY Zenon, <1>18, <1>19

LEMMA RespondStep ==
    ASSUME ListLaws, IInv, NEW r \in Ranks, HandleResponses(r)
    PROVE  IInv'
<1>. DEFINE done == Chosen(active[r], state[r], {"done"})
<1>1. LoopTypes /\ ThreadTypes /\ ServedInv /\ IdleInv /\ JobInv
  BY Zenon DEF IInv
<1>2. canceled[r] = {}
  BY <1>1 DEF ServedInv, OnEach
<1>3. In(r, {"done"}) = done
  BY Zenon DEF In, Chosen
<1>4. /\ at[r] = "respond" /\ at' = [at EXCEPT ![r] = "fetch"]
      /\ UNCHANGED <<context, batch, mRequesterFutures, job, asked, withdrawn>>
      /\ next' = next /\ atLeast' = atLeast /\ take' = take /\ ready' = ready
  BY Zenon DEF HandleResponses, status
<1>5. PICK C, Q :
      /\ C = {q \in canceled[r] \cap Range(active[r]) : state[r][q] # "in_progress" \/ q \in Q}
      /\ mRequestsQueue' = [mRequestsQueue EXCEPT ![r] = Without(mRequestsQueue[r], C)]
      /\ future' = [future EXCEPT ![r] = [q \in Requests |->
                       IF q \in C \cap Q THEN "exception" ELSE future[r][q]]]
      /\ state' = [state EXCEPT ![r] = [q \in Requests |-> IF q \in C THEN "done" ELSE state[r][q]]]
      /\ active' = [active EXCEPT ![r] = Without(active[r], C \cup In(r, {"done"}))]
      /\ canceled' = [canceled EXCEPT ![r] = (canceled[r] \cap Range(active[r])) \ C]
  BY Zenon DEF HandleResponses
<1>6. C = {}
  BY Zenon, <1>2, <1>5
<1>7. /\ active[r] \in Seq(Requests) /\ mRequestsQueue[r] \in Seq(Requests)
      /\ state[r] \in [Requests -> States]
      /\ future[r] \in [Requests -> {"none", "pending", "value"}]
  BY Zenon, <1>1 DEF LoopTypes, ThreadTypes
<1>8. /\ Without(mRequestsQueue[r], {}) = mRequestsQueue[r]
      /\ Without(active[r], done) \in Seq(Requests)
  BY Zenon, <1>7 DEF ListLaws, Without
<1>9. mRequestsQueue' = mRequestsQueue
  BY <1>1, <1>5, <1>6, <1>8 DEF ThreadTypes
<1>10. future' = future
  <2>1. [q \in Requests |-> IF q \in C \cap Q THEN "exception" ELSE future[r][q]] = future[r]
    BY <1>6, <1>7
  <2>. QED  BY <1>1, <1>5, <2>1 DEF ThreadTypes
<1>11. state' = state
  <2>1. [q \in Requests |-> IF q \in C THEN "done" ELSE state[r][q]] = state[r]
    BY <1>6, <1>7
  <2>. QED  BY <1>1, <1>5, <2>1 DEF LoopTypes
<1>12. canceled' = canceled
  BY Zenon, <1>1, <1>2, <1>5 DEF ServedInv, OnEach
<1>13. active' = [active EXCEPT ![r] = Without(active[r], done)]
  <2>1. C \cup In(r, {"done"}) = done
    BY Zenon, <1>3, <1>6
  <2>. QED  BY Zenon, <2>1, <1>5
<1>. HIDE DEF done
<1>14. ThreadTypes' /\ ServedInv' /\ JobInv'
  BY Zenon, <1>1, <1>4, <1>9, <1>10, <1>12, ServedKept, JobKept DEF ThreadTypes
<1>15. LoopTypes' /\ IdleInv'
  <2>1. at' \in [Ranks -> Labels] /\ IdleInv'
    BY <1>1, <1>4 DEF LoopTypes, IdleInv, Labels
  <2>2. active' \in [Ranks -> Seq(Requests)]
    BY Zenon, <1>1, <1>8, <1>13 DEF LoopTypes
  <2>. QED  BY Zenon, <1>1, <1>4, <1>11, <2>1, <2>2 DEF LoopTypes
<1>16. Alone(r)
  BY <1>1, <1>4, <1>9, <1>11, <1>13 DEF LoopTypes, Alone, Same
<1>17. at'[r] = "fetch" /\ active'[r] = Without(active[r], done)
  BY <1>1, <1>4, <1>13 DEF LoopTypes
<1>18. Ahead(r)' = Ahead(r)
  <2>1. Ahead(r) = FromRespond(active[r], state[r], mRequesterFutures[r], batch[r])
    BY Zenon, <1>4, AheadLaws DEF AheadBy
  <2>2. Ahead(r) = <<"fetch", "none", 0, Without(active[r], done), state[r],
                     mRequesterFutures[r], batch[r]>>
    BY Zenon, <2>1 DEF FromRespond, done
  <2>3. Ahead(r)' = <<"fetch", "none", 0, active'[r], state'[r], mRequesterFutures'[r], batch'[r]>>
    BY Zenon, <1>17, AheadLawsNext DEF AheadBy
  <2>. QED  BY Zenon, <2>2, <2>3, <1>4, <1>11, <1>17
<1>19. ToAsk(r)' = ToAsk(r)
  <2>1. Coming(at[r], next[r], active[r], state[r], take[r]) = << >>
    BY Zenon, <1>4, ComingLaws DEF ComingBy
  <2>2. Coming(at'[r], next'[r], active'[r], state'[r], take'[r]) = << >>
    BY Zenon, <1>17, ComingLawsNext DEF ComingBy
  <2>. QED  BY Zenon, <2>1, <2>2, <1>9 DEF ToAsk
<1>. QED  BY Zenon, <1>4, <1>14, <1>15, <1>16, <1>18, <1>19, AloneStep DEF IInv

-----------------------------------------------------------------------------
(* The collectives.                                                        *)

\* The ranks go into a collective with nothing left to start, and come out
\* of it alike.
LEMMA MeetStep ==
    ASSUME ListLaws, IInv, LoopTypes', mRequestsQueue' = mRequestsQueue, asked' = asked,
           \A r \in Ranks : at[r] \in {"fetch", "gather", "idle", "forward"},
           NEW A, \A r \in Ranks : Ahead(r)' = A,
           NEW P, \A r \in Ranks : Coming(at'[r], next'[r], active'[r], state'[r], take'[r]) = P
    PROVE  AgreeInv' /\ OrderInv'
<1>1. ThreadTypes /\ Rank0 \in Ranks
  BY Zenon, RankAssumption DEF IInv
<1>2. P \in Seq(Requests)
  <2>1. active'[Rank0] \in Seq(Requests)
    BY <1>1 DEF LoopTypes
  <2>. QED  BY Zenon, <1>1, <2>1, ComingType
<1>3. ASSUME NEW r \in Ranks
      PROVE  ToAsk(r) = mRequestsQueue[r] \o << >> /\ ToAsk(r)' = mRequestsQueue[r] \o P
  <2>1. Coming(at[r], next[r], active[r], state[r], take[r]) = << >>
    BY Zenon, ComingLaws DEF ComingBy
  <2>. QED  BY Zenon, <2>1 DEF ToAsk
<1>4. ASSUME NEW r \in Ranks
      PROVE  ToAsk(r) \in Seq(Requests) /\ ToAsk(r)' = ToAsk(r) \o P
  <2>1. mRequestsQueue[r] \in Seq(Requests)
    BY <1>1 DEF ThreadTypes
  <2>2. mRequestsQueue[r] \o << >> = mRequestsQueue[r]
    BY <2>1
  <2>. QED  BY Zenon, <1>3, <2>1, <2>2
<1>. QED  BY Zenon, <1>2, <1>4, TogetherStep

\* Ranks in the same collective have come to it alike.
LEMMA CameAlike ==
    ASSUME IInv, NEW r \in Ranks, NEW s \in Ranks, at[r] = at[s],
           at[r] \in {"fetch", "gather", "idle", "forward"}
    PROVE  /\ active[r] = active[s] /\ state[r] = state[s]
           /\ mRequesterFutures[r] = mRequesterFutures[s] /\ batch[r] = batch[s]
           /\ at[r] = "gather" => next[r] = next[s] /\ atLeast[r] = atLeast[s]
<1>1. Ahead(r) = Ahead(s)
  BY Zenon DEF IInv, AgreeInv
<1>2. AheadBy(r) /\ AheadBy(s)
  BY Zenon, AheadLaws
<1>3. CASE at[r] = "fetch"
  <2>1. /\ Ahead(r) = <<"fetch", "none", 0, active[r], state[r], mRequesterFutures[r], batch[r]>>
        /\ Ahead(s) = <<"fetch", "none", 0, active[s], state[s], mRequesterFutures[s], batch[s]>>
    BY Zenon, <1>2, <1>3 DEF AheadBy
  <2>2. <<"fetch", "none", 0, active[r], state[r],
          mRequesterFutures[r], batch[r]>>
        = <<"fetch", "none", 0, active[s], state[s],
          mRequesterFutures[s], batch[s]>>
    BY Zenon, <1>1, <2>1
  <2>. QED  BY <2>2, <1>3
<1>4. CASE at[r] = "gather"
  <2>1. /\ Ahead(r) = <<"gather", next[r], atLeast[r], active[r], state[r],
                        mRequesterFutures[r], batch[r]>>
        /\ Ahead(s) = <<"gather", next[s], atLeast[s], active[s], state[s],
                        mRequesterFutures[s], batch[s]>>
    BY Zenon, <1>2, <1>4 DEF AheadBy
  <2>2. <<"gather", next[r], atLeast[r], active[r], state[r],
          mRequesterFutures[r], batch[r]>>
        = <<"gather", next[s], atLeast[s], active[s], state[s],
          mRequesterFutures[s], batch[s]>>
    BY Zenon, <1>1, <2>1
  <2>. QED  BY <2>2, <1>4
<1>5. CASE at[r] = "idle"
  <2>1. /\ Ahead(r) = <<"idle", next[r], 0, active[r], state[r], mRequesterFutures[r], batch[r]>>
        /\ Ahead(s) = <<"idle", next[s], 0, active[s], state[s], mRequesterFutures[s], batch[s]>>
    BY Zenon, <1>2, <1>5 DEF AheadBy
  <2>2. <<"idle", next[r], 0, active[r], state[r],
          mRequesterFutures[r], batch[r]>>
        = <<"idle", next[s], 0, active[s], state[s],
          mRequesterFutures[s], batch[s]>>
    BY Zenon, <1>1, <2>1
  <2>. QED  BY <2>2, <1>5
<1>6. CASE at[r] = "forward"
  <2>1. /\ Ahead(r) = FromForward(active[r], state[r], mRequesterFutures[r], batch[r])
        /\ Ahead(s) = FromForward(active[s], state[s], mRequesterFutures[s], batch[s])
    BY Zenon, <1>2, <1>6 DEF AheadBy
  <2>2. <<IF batch[r] = {} THEN "fetch" ELSE "forward", "none", 0, active[r], state[r],
          mRequesterFutures[r], batch[r]>>
        = <<IF batch[s] = {} THEN "fetch" ELSE "forward", "none", 0, active[s], state[s],
          mRequesterFutures[s], batch[s]>>
    BY Zenon, <1>1, <2>1 DEF FromForward
  <2>. QED  BY <2>2, <1>6
<1>. QED  BY Zenon, <1>3, <1>4, <1>5, <1>6

LEMMA FetchStep ==
    ASSUME ListLaws, IInv, ~Cancels, Fetch
    PROVE  IInv'
<1>1. LoopTypes /\ ThreadTypes /\ ServedInv /\ IdleInv /\ JobInv /\ Rank0 \in Ranks
  BY Zenon, RankAssumption DEF IInv
<1>2. /\ \A r \in Ranks : at[r] = "fetch"
      /\ at' = [r \in Ranks |-> "status"]
      /\ UNCHANGED <<context, batch, mRequesterFutures, thread>>
      /\ next' = next /\ atLeast' = atLeast /\ take' = take /\ ready' = ready
  BY Zenon DEF Fetch, AllAt, OnEach, status
<1>3. PICK N \in SUBSET {q \in Requests : state[Rank0][q] = "new"},
           C \in SUBSET {} :
        /\ \E new \in Bijection(1 .. Cardinality(N), N) :
              active' = [r \in Ranks |-> active[r] \o new]
        /\ state' = [r \in Ranks |-> [q \in Requests |-> IF q \in N THEN "init" ELSE state[r][q]]]
        /\ canceled' = [r \in Ranks |-> canceled[r] \cup C]
        /\ withdrawn' = withdrawn \cup C
  BY Zenon DEF Fetch
<1>4. canceled' = canceled /\ withdrawn' = withdrawn
  BY <1>1, <1>3 DEF ServedInv, OnEach
<1>5. ThreadTypes' /\ ServedInv' /\ JobInv' /\ mRequestsQueue' = mRequestsQueue /\ asked' = asked
  BY Zenon, <1>1, <1>2, <1>4, ServedKept, JobKept DEF ThreadTypes, thread
<1>6. PICK new \in Bijection(1 .. Cardinality(N), N) : active' = [r \in Ranks |-> active[r] \o new]
  BY Zenon, <1>3
<1>7. new \in Seq(Requests)
  <2>1. Cardinality(N) \in Nat
    BY Zenon, <1>3 DEF ListLaws
  <2>2. new \in [1 .. Cardinality(N) -> N]
    BY Zenon, <1>6 DEF Bijection, Injection
  <2>. QED  BY <2>1, <2>2, <1>3
<1>8. LoopTypes'
  <2>1. active' \in [Ranks -> Seq(Requests)]
    BY <1>1, <1>6, <1>7 DEF LoopTypes
  <2>2. state' \in [Ranks -> [Requests -> States]]
    BY <1>1, <1>3 DEF LoopTypes, States
  <2>3. at' \in [Ranks -> Labels]
    BY <1>2 DEF Labels
  <2>. QED  BY Zenon, <1>1, <1>2, <2>1, <2>2, <2>3 DEF LoopTypes
<1>9. IdleInv'
  BY <1>2 DEF IdleInv
<1>10. ASSUME NEW r \in Ranks
       PROVE  /\ active'[r] = active'[Rank0] /\ state'[r] = state'[Rank0]
              /\ mRequesterFutures'[r] = mRequesterFutures'[Rank0] /\ batch'[r] = batch'[Rank0]
  <2>1. /\ active[r] = active[Rank0] /\ state[r] = state[Rank0]
        /\ mRequesterFutures[r] = mRequesterFutures[Rank0] /\ batch[r] = batch[Rank0]
    <3>1. at[r] = "fetch" /\ at[Rank0] = "fetch"
      BY Zenon, <1>1, <1>2
    <3>. QED  BY ZenonT(40), <3>1, <1>1, CameAlike
  <2>2. active'[r] = active'[Rank0]
    BY Zenon, <2>1, <1>1, <1>6
  <2>3. state'[r] = state'[Rank0]
    BY Zenon, <2>1, <1>1, <1>3
  <2>. QED  BY Zenon, <2>1, <2>2, <2>3, <1>2
<1>11. \A r \in Ranks : at'[r] = "status"
  BY Zenon, <1>2
<1>12. \A r \in Ranks : Ahead(r)' =
          FromStatus(active'[Rank0], state'[Rank0], mRequesterFutures'[Rank0], batch'[Rank0])
  BY Zenon, <1>10, <1>11, AheadLawsNext DEF AheadBy
<1>13. ASSUME NEW r \in Ranks
       PROVE  Coming(at'[r], next'[r], active'[r], state'[r], take'[r]) =
                IF Chosen(active'[Rank0], state'[Rank0], {"in_progress"}) # {} THEN << >>
                ELSE Kept(active'[Rank0], Chosen(active'[Rank0], state'[Rank0], {"init"}))
  BY Zenon, <1>10, <1>11, ComingLawsNext DEF ComingBy
<1>14. \A r \in Ranks : at[r] \in {"fetch", "gather", "idle", "forward"}
  BY Zenon, <1>2
<1>15. AgreeInv' /\ OrderInv'
  BY Zenon, <1>5, <1>8, <1>12, <1>13, <1>14, MeetStep
<1>. QED  BY Zenon, <1>5, <1>8, <1>9, <1>15 DEF IInv

LEMMA GatherStep ==
    ASSUME ListLaws, IInv, GatherRequestIds
    PROVE  IInv'
<1>1. LoopTypes /\ ThreadTypes /\ ServedInv /\ IdleInv /\ JobInv /\ Rank0 \in Ranks
  BY Zenon, RankAssumption DEF IInv
<1>2. /\ at' = [r \in Ranks |-> "take"]
      /\ UNCHANGED <<context, active, state, canceled, batch, ready, atLeast,
                     next, mRequesterFutures, thread, withdrawn>>
  BY Zenon DEF GatherRequestIds, OnEach
<1>3. PICK call, first :
        /\ call \in {"gather", "idle"}
        /\ \A r \in Ranks : at[r] = call
        /\ take' = [r \in Ranks |-> {q \in Complete(r, first) : call = "gather"}
                                    \cap Range(mRequesterFutures[r])]
  <2>1. PICK call \in {"gather", "idle"},
             first \in IF MostFrequent = {} THEN {NoRequest} ELSE MostFrequent :
          /\ AllAt(call)
          /\ take' = [r \in Ranks |-> {q \in Complete(r, first) : call = "gather"}
                                      \cap Range(mRequesterFutures[r])]
    BY Zenon DEF GatherRequestIds
  <2>2. \A r \in Ranks : at[r] = call
    BY Zenon, <2>1 DEF AllAt
  <2>3. call \in {"gather", "idle"}
    BY Zenon, <2>1
  <2>. QED  BY <2>1, <2>2, <2>3
<1>4. ThreadTypes' /\ ServedInv' /\ JobInv' /\ mRequestsQueue' = mRequestsQueue /\ asked' = asked
  BY Zenon, <1>1, <1>2, ServedKept, JobKept DEF ThreadTypes, thread
<1>5. LoopTypes' /\ IdleInv'
  <2>1. \A r \in Ranks : Range(mRequesterFutures[r]) \subseteq Requests
    BY <1>1 DEF LoopTypes, Range
  <2>2. take' \in [Ranks -> SUBSET Requests]
    BY Zenon, <2>1, <1>3
  <2>3. at' \in [Ranks -> Labels] /\ IdleInv'
    BY <1>2 DEF Labels, IdleInv
  <2>. QED  BY Zenon, <1>1, <1>2, <2>2, <2>3 DEF LoopTypes
<1>6. ASSUME NEW r \in Ranks
      PROVE  /\ active'[r] = active'[Rank0] /\ state'[r] = state'[Rank0]
             /\ mRequesterFutures'[r] = mRequesterFutures'[Rank0] /\ batch'[r] = batch'[Rank0]
             /\ next'[r] = next'[Rank0] /\ take'[r] = take'[Rank0]
  <2>1. /\ at[r] = at[Rank0] /\ at[r] = call /\ at[Rank0] = call
    BY Zenon, <1>1, <1>3
  <2>2. at[r] \in {"fetch", "gather", "idle", "forward"}
    BY Zenon, <1>3, <2>1
  <2>3. /\ active[r] = active[Rank0] /\ state[r] = state[Rank0]
        /\ mRequesterFutures[r] = mRequesterFutures[Rank0] /\ batch[r] = batch[Rank0]
        /\ at[r] = "gather" => next[r] = next[Rank0] /\ atLeast[r] = atLeast[Rank0]
    BY Zenon, <1>1, <2>1, <2>2, CameAlike
  <2>4. next[r] = next[Rank0]
    BY Zenon, <1>1, <1>3, <2>1, <2>3 DEF IdleInv
  <2>5. take'[r] = take'[Rank0]
    <3>1. /\ take'[r] = {q \in Complete(r, first) : call = "gather"}
                        \cap Range(mRequesterFutures[r])
          /\ take'[Rank0] = {q \in Complete(Rank0, first) : call = "gather"}
                            \cap Range(mRequesterFutures[Rank0])
      BY Zenon, <1>1, <1>3
    <3>2. CASE call = "gather"
      <4>1. Complete(r, first) = Complete(Rank0, first)
        BY Zenon, <2>1, <2>3, <3>2 DEF Complete
      <4>. QED  BY Zenon, <3>1, <4>1, <2>3
    <3>3. CASE call # "gather"
      <4>1. take'[r] = {} /\ take'[Rank0] = {}
        BY Zenon, <3>1, <3>3
      <4>. QED  BY Zenon, <4>1
    <3>. QED  BY Zenon, <3>2, <3>3
  <2>. QED  BY Zenon, <2>3, <2>4, <2>5, <1>2
<1>7. \A r \in Ranks : at'[r] = "take"
  BY Zenon, <1>2
<1>8. \A r \in Ranks : Ahead(r)' =
          FromTake(active'[Rank0], state'[Rank0], mRequesterFutures'[Rank0], batch'[Rank0],
                   next'[Rank0], take'[Rank0])
  BY Zenon, <1>6, <1>7, AheadLawsNext DEF AheadBy
<1>9. ASSUME NEW r \in Ranks
      PROVE  Coming(at'[r], next'[r], active'[r], state'[r], take'[r]) =
               Coming("take", next'[Rank0], active'[Rank0], state'[Rank0], take'[Rank0])
  BY Zenon, <1>6, <1>7
<1>10. \A r \in Ranks : at[r] \in {"fetch", "gather", "idle", "forward"}
  BY Zenon, <1>3
<1>11. AgreeInv' /\ OrderInv'
  BY Zenon, <1>4, <1>5, <1>8, <1>9, <1>10, MeetStep
<1>. QED  BY Zenon, <1>4, <1>5, <1>11 DEF IInv

LEMMA ForwardStepStep ==
    ASSUME ListLaws, IInv, NEW D, ForwardStep(D)
    PROVE  IInv'
<1>1. LoopTypes /\ ThreadTypes /\ ServedInv /\ IdleInv /\ JobInv /\ Rank0 \in Ranks
  BY Zenon, RankAssumption DEF IInv
<1>2. /\ \A r \in Ranks : at[r] = "forward"
      /\ at' = [r \in Ranks |-> "respond"]
      /\ state' = [r \in Ranks |-> [q \in Requests |->
                     IF q \notin batch[r] THEN state[r][q]
                     ELSE IF q \in D THEN "done" ELSE "generating"]]
      /\ UNCHANGED <<context, active, canceled, batch, mRequesterFutures, thread, withdrawn>>
      /\ next' = next /\ atLeast' = atLeast /\ take' = take /\ ready' = ready
  BY Zenon DEF ForwardStep, AllAt, OnEach, status
<1>3. ThreadTypes' /\ ServedInv' /\ JobInv' /\ mRequestsQueue' = mRequestsQueue /\ asked' = asked
  BY Zenon, <1>1, <1>2, ServedKept, JobKept DEF ThreadTypes, thread
<1>4. LoopTypes' /\ IdleInv'
  <2>1. state' \in [Ranks -> [Requests -> States]]
    BY <1>1, <1>2 DEF LoopTypes, States
  <2>2. at' \in [Ranks -> Labels] /\ IdleInv'
    BY <1>2 DEF Labels, IdleInv
  <2>. QED  BY Zenon, <1>1, <1>2, <2>1, <2>2 DEF LoopTypes
<1>5. ASSUME NEW r \in Ranks
      PROVE  /\ active'[r] = active'[Rank0] /\ state'[r] = state'[Rank0]
             /\ mRequesterFutures'[r] = mRequesterFutures'[Rank0] /\ batch'[r] = batch'[Rank0]
  <2>1. /\ active[r] = active[Rank0] /\ state[r] = state[Rank0]
        /\ mRequesterFutures[r] = mRequesterFutures[Rank0] /\ batch[r] = batch[Rank0]
    BY Zenon, <1>1, <1>2, CameAlike
  <2>2. state'[r] = state'[Rank0]
    BY Zenon, <2>1, <1>1, <1>2
  <2>. QED  BY Zenon, <2>1, <2>2, <1>2
<1>6. \A r \in Ranks : at'[r] = "respond"
  BY Zenon, <1>2
<1>7. \A r \in Ranks : Ahead(r)' =
          FromRespond(active'[Rank0], state'[Rank0], mRequesterFutures'[Rank0], batch'[Rank0])
  BY Zenon, <1>5, <1>6, AheadLawsNext DEF AheadBy
<1>8. \A r \in Ranks : Coming(at'[r], next'[r], active'[r], state'[r], take'[r]) = << >>
  BY Zenon, <1>6, ComingLawsNext DEF ComingBy
<1>9. \A r \in Ranks : at[r] \in {"fetch", "gather", "idle", "forward"}
  BY Zenon, <1>2
<1>10. AgreeInv' /\ OrderInv'
  BY Zenon, <1>3, <1>4, <1>7, <1>8, <1>9, MeetStep
<1>. QED  BY Zenon, <1>3, <1>4, <1>10 DEF IInv

-----------------------------------------------------------------------------
(* A rank's request thread, and the context server.                        *)

\* The elements of lists put together.
LEMMA RangeLaws ==
    ASSUME NEW h \in Requests, NEW X \in Seq(Requests)
    PROVE  /\ Range(<< >>) = {} /\ Range(<<h>>) = {h}
           /\ Range(<<h>> \o X) = {h} \cup Range(X)
           /\ Range(X \o <<h>>) = Range(X) \cup {h}
<1>1. Range(<< >>) = {} /\ Range(<<h>>) = {h}
  BY DEF Range
<1>2. Range(<<h>> \o X) = {h} \cup Range(X)
  <2>1. /\ DOMAIN (<<h>> \o X) = 1 .. Len(X) + 1 /\ (<<h>> \o X)[1] = h
        /\ \A i \in 1 .. Len(X) : (<<h>> \o X)[i + 1] = X[i]
        /\ \A i \in 1 .. Len(X) + 1 : i = 1 \/ (i - 1 \in 1 .. Len(X) /\ (<<h>> \o X)[i] = X[i - 1])
        /\ DOMAIN X = 1 .. Len(X) /\ Len(X) \in Nat
    OBVIOUS
  <2>2. ASSUME NEW y \in Range(<<h>> \o X) PROVE y \in {h} \cup Range(X)
    BY <2>1, <2>2 DEF Range
  <2>3. h \in Range(<<h>> \o X)
    BY <2>1 DEF Range
  <2>4. ASSUME NEW i \in 1 .. Len(X) PROVE X[i] \in Range(<<h>> \o X)
    <3>1. i + 1 \in DOMAIN (<<h>> \o X)
      BY <2>1
    <3>. QED  BY Zenon, <3>1, <2>1 DEF Range
  <2>. QED  BY Zenon, <2>1, <2>2, <2>3, <2>4 DEF Range
<1>3. Range(X \o <<h>>) = Range(X) \cup {h}
  <2>1. /\ DOMAIN (X \o <<h>>) = 1 .. Len(X) + 1 /\ (X \o <<h>>)[Len(X) + 1] = h
        /\ \A i \in 1 .. Len(X) : (X \o <<h>>)[i] = X[i]
        /\ DOMAIN X = 1 .. Len(X) /\ Len(X) \in Nat
    OBVIOUS
  <2>2. ASSUME NEW i \in 1 .. Len(X) + 1 PROVE (X \o <<h>>)[i] \in Range(X) \cup {h}
    <3>1. i \in 1 .. Len(X) \/ i = Len(X) + 1
      BY <2>1
    <3>. QED  BY Zenon, <3>1, <2>1 DEF Range
  <2>3. h \in Range(X \o <<h>>)
    BY <2>1 DEF Range
  <2>4. ASSUME NEW i \in 1 .. Len(X) PROVE X[i] \in Range(X \o <<h>>)
    <3>1. i \in DOMAIN (X \o <<h>>)
      BY <2>1
    <3>. QED  BY Zenon, <3>1, <2>1 DEF Range
  <2>. QED  BY Zenon, <2>1, <2>2, <2>3, <2>4 DEF Range
<1>. QED  BY Zenon, <1>1, <1>2, <1>3

\* A common head.
Headed(h, T, X, U) == <<h>> \o T = X \o U

Beheaded(h, T, X, U) ==
    Tail(X) \in Seq(Requests) /\ X = <<h>> \o Tail(X) /\ T = Tail(X) \o U

LEMMA SameHead ==
    ASSUME NEW h \in Requests, NEW T \in Seq(Requests), NEW X \in Seq(Requests),
           NEW U \in Seq(Requests), Headed(h, T, X, U), X # << >>
    PROVE  Beheaded(h, T, X, U)
<1>. DEFINE Y == Tail(X)
<1>1. Y \in Seq(Requests) /\ Head(X) \in Requests /\ X = <<Head(X)>> \o Y
  OBVIOUS
<1>. HIDE DEF Y
<1>2. <<h>> \o T = <<Head(X)>> \o (Y \o U)
  <2>1. <<Head(X)>> \in Seq(Requests)
    BY <1>1
  <2>2. (<<Head(X)>> \o Y) \o U = <<Head(X)>> \o (Y \o U)
    <3>1. PICK G \in Seq(Requests) : G = <<Head(X)>>
      BY Zenon, <2>1
    <3>2. (G \o Y) \o U = G \o (Y \o U)
      BY Zenon, <1>1, <3>1, Associates
    <3>. QED  BY Zenon, <3>1, <3>2
  <2>. QED  BY Zenon, <1>1, <2>2 DEF Headed
<1>3. Y \o U \in Seq(Requests)
  BY <1>1
<1>4. ASSUME NEW g \in Requests, NEW V \in Seq(Requests), <<h>> \o T = <<g>> \o V
      PROVE  h = g /\ T = V
  <2>1. h = g /\ Len(T) = Len(V)
    <3>1. (<<h>> \o T)[1] = h /\ (<<g>> \o V)[1] = g
      OBVIOUS
    <3>2. Len(<<h>> \o T) = Len(T) + 1 /\ Len(<<g>> \o V) = Len(V) + 1
      OBVIOUS
    <3>. QED  BY <1>4, <3>1, <3>2
  <2>2. ASSUME NEW i \in 1 .. Len(T) PROVE T[i] = V[i]
    <3>1. (<<h>> \o T)[i + 1] = T[i]
      OBVIOUS
    <3>2. (<<g>> \o V)[i + 1] = V[i]
      BY <2>1
    <3>. QED  BY <1>4, <3>1, <3>2
  <2>. QED  BY <2>1, <2>2
<1>5. h = Head(X) /\ T = Y \o U
  BY Zenon, <1>1, <1>2, <1>3, <1>4
<1>. QED  BY Zenon, <1>1, <1>5 DEF Y, Beheaded

LEMMA PopStep ==
    ASSUME ListLaws, IInv, NEW r \in Ranks, PopRequest(r)
    PROVE  IInv'
<1>. DEFINE h == Head(mRequestsQueue[r])
            T == Tail(mRequestsQueue[r])
<1>1. LoopTypes /\ ThreadTypes /\ ServedInv /\ AgreeInv /\ IdleInv /\ OrderInv /\ JobInv
  BY Zenon DEF IInv
<1>2. /\ job[r] = NoRequest /\ mRequestsQueue[r] # << >>
      /\ job' = [job EXCEPT ![r] = h]
      /\ asked' = [asked EXCEPT ![r] = asked[r] \cup {h}]
      /\ mRequestsQueue' = [mRequestsQueue EXCEPT ![r] = T]
      /\ UNCHANGED <<context, at, active, state, canceled, batch,
                     mRequesterFutures, future, withdrawn>>
      /\ next' = next /\ atLeast' = atLeast /\ take' = take /\ ready' = ready
  BY Zenon DEF PopRequest, status
<1>3. mRequestsQueue[r] \in Seq(Requests) /\ asked[r] \in SUBSET Requests
  BY Zenon, <1>1 DEF ThreadTypes
<1>4. h \in Requests /\ T \in Seq(Requests) /\ mRequestsQueue[r] = <<h>> \o T
  BY <1>2, <1>3
<1>. HIDE DEF h, T
<1>5. LoopTypes' /\ ServedInv' /\ IdleInv' /\ AgreeInv'
  BY Zenon, <1>1, <1>2, ServedKept DEF LoopTypes, IdleInv, AgreeInv, Ahead
<1>6. ThreadTypes'
  <2>1. mRequestsQueue' \in [Ranks -> Seq(Requests)]
    BY Zenon, <1>1, <1>2, <1>4 DEF ThreadTypes
  <2>2. asked' \in [Ranks -> SUBSET Requests] /\ job' \in [Ranks -> Requests \cup {NoRequest}]
    BY <1>1, <1>2, <1>4 DEF ThreadTypes
  <2>. QED  BY Zenon, <1>1, <1>2, <2>1, <2>2 DEF ThreadTypes
<1>7. /\ asked'[r] = asked[r] \cup {h} /\ job'[r] = h /\ mRequestsQueue'[r] = T
      /\ \A s \in Ranks \ {r} : /\ asked'[s] = asked[s] /\ job'[s] = job[s]
                               /\ mRequestsQueue'[s] = mRequestsQueue[s]
  BY <1>1, <1>2 DEF ThreadTypes
<1>8. JobInv'
  BY Zenon, <1>1, <1>7 DEF JobInv
<1>9. \A s \in Ranks : ToAsk(s) \in Seq(Requests)
  <2>1. ASSUME NEW s \in Ranks PROVE ToAsk(s) \in Seq(Requests)
    <3>1. active[s] \in Seq(Requests) /\ mRequestsQueue[s] \in Seq(Requests)
      BY Zenon, <1>1 DEF LoopTypes, ThreadTypes
    <3>2. Coming(at[s], next[s], active[s], state[s], take[s]) \in Seq(Requests)
      BY Zenon, <3>1, ComingType
    <3>. QED  BY <3>1, <3>2 DEF ToAsk
  <2>. QED  BY Zenon, <2>1
<1>10. ToAsk(r)' \in Seq(Requests) /\ ToAsk(r) = <<h>> \o ToAsk(r)'
  <2>1. active[r] \in Seq(Requests)
    BY Zenon, <1>1 DEF LoopTypes
  <2>2. PICK P \in Seq(Requests) : P = Coming(at[r], next[r], active[r], state[r], take[r])
    BY Zenon, <2>1, ComingType
  <2>3. ToAsk(r) = (<<h>> \o T) \o P /\ ToAsk(r)' = T \o P
    BY Zenon, <2>2, <1>2, <1>4, <1>7 DEF ToAsk
  <2>4. T \o P \in Seq(Requests) /\ <<h>> \in Seq(Requests)
    BY <1>4, <2>2
  <2>5. (<<h>> \o T) \o P = <<h>> \o (T \o P)
    BY <1>4, <2>2, <2>4, Associates
  <2>. QED  BY Zenon, <2>3, <2>4, <2>5
<1>11. ASSUME NEW s \in Ranks, s # r PROVE Follows(r, s)' \/ Follows(s, r)'
  <2>1. ToAsk(s)' = ToAsk(s) /\ asked'[s] = asked[s]
    BY Zenon, <1>2, <1>7, <1>11 DEF ToAsk
  <2>2. ToAsk(s) \in Seq(Requests) /\ ToAsk(r) \in Seq(Requests)
    BY Zenon, <1>9
  <2>3. ASSUME NEW X \in Seq(Requests), ToAsk(r) = X \o ToAsk(s), asked[s] = asked[r] \cup Range(X)
        PROVE  Follows(r, s)' \/ Follows(s, r)'
    <3>1. CASE X = << >>
      <4>1. ToAsk(s) = <<h>> \o ToAsk(r)'
        <5>1. << >> \o ToAsk(s) = ToAsk(s)
          BY <2>2
        <5>. QED  BY Zenon, <5>1, <2>3, <3>1, <1>10
      <4>2. asked'[r] = asked'[s] \cup Range(<<h>>)
        <5>1. Range(<< >>) = {} /\ Range(<<h>>) = {h}
          BY Zenon, <1>4, RangeLaws
        <5>. QED  BY Zenon, <5>1, <1>7, <2>1, <2>3, <3>1
      <4>3. <<h>> \in Seq(Requests)
        BY <1>4
      <4>. QED  BY Zenon, <4>1, <4>2, <4>3, <2>1 DEF Follows
    <3>2. CASE X # << >>
      <4>1. Tail(X) \in Seq(Requests) /\ X = <<h>> \o Tail(X) /\ ToAsk(r)' = Tail(X) \o ToAsk(s)
        <5>1. Headed(h, ToAsk(r)', X, ToAsk(s))
          BY Zenon, <1>10, <2>3 DEF Headed
        <5>2. ToAsk(r)' \in Seq(Requests)
          BY Zenon, <1>10
        <5>3. Beheaded(h, ToAsk(r)', X, ToAsk(s))
          BY Zenon, <5>1, <5>2, <1>4, <2>2, <3>2, SameHead
        <5>. QED  BY Zenon, <5>3 DEF Beheaded
      <4>2. Range(X) = {h} \cup Range(Tail(X))
        BY Zenon, <4>1, <1>4, RangeLaws
      <4>3. asked'[s] = asked'[r] \cup Range(Tail(X))
        BY Zenon, <4>2, <1>7, <2>1, <2>3
      <4>. QED  BY Zenon, <4>1, <4>3, <2>1 DEF Follows
    <3>. QED  BY Zenon, <3>1, <3>2
  <2>4. ASSUME NEW X \in Seq(Requests), ToAsk(s) = X \o ToAsk(r), asked[r] = asked[s] \cup Range(X)
        PROVE  Follows(s, r)'
    <3>1. <<h>> \in Seq(Requests)
      BY <1>4
    <3>2. X \o <<h>> \in Seq(Requests)
      BY <3>1
    <3>3. (X \o <<h>>) \o ToAsk(r)' = X \o (<<h>> \o ToAsk(r)')
      BY Zenon, <1>10, <3>1, Associates
    <3>4. ToAsk(s)' = (X \o <<h>>) \o ToAsk(r)'
      BY Zenon, <3>3, <1>10, <2>1, <2>4
    <3>5. asked'[r] = asked'[s] \cup Range(X \o <<h>>)
      <4>1. Range(X \o <<h>>) = Range(X) \cup {h}
        BY Zenon, <1>4, RangeLaws
      <4>. QED  BY Zenon, <4>1, <1>7, <2>1, <2>4
    <3>. QED  BY Zenon, <3>2, <3>4, <3>5 DEF Follows
  <2>5. Follows(r, s) \/ Follows(s, r)
    BY Zenon, <1>1 DEF OrderInv
  <2>. QED  BY Zenon, <2>3, <2>4, <2>5 DEF Follows
<1>12. ASSUME NEW s \in Ranks PROVE Follows(s, s)'
  <2>1. ToAsk(s)' \in Seq(Requests)
    <3>1. CASE s = r
      BY Zenon, <3>1, <1>10
    <3>2. CASE s # r
      <4>1. ToAsk(s)' = ToAsk(s)
        BY Zenon, <1>2, <1>7, <3>2 DEF ToAsk
      <4>. QED  BY Zenon, <4>1, <1>9
    <3>. QED  BY Zenon, <3>1, <3>2
  <2>2. ToAsk(s)' = << >> \o ToAsk(s)'
    BY <2>1
  <2>3. asked'[s] = asked'[s] \cup Range(<< >>)
    BY Zenon, <1>4, RangeLaws
  <2>4. << >> \in Seq(Requests)
    OBVIOUS
  <2>. QED  BY Zenon, <2>2, <2>3, <2>4 DEF Follows
<1>13. ASSUME NEW s \in Ranks, NEW t \in Ranks, s # r, t # r
       PROVE  Follows(s, t)' \/ Follows(t, s)'
  <2>1. /\ ToAsk(s)' = ToAsk(s) /\ asked'[s] = asked[s]
        /\ ToAsk(t)' = ToAsk(t) /\ asked'[t] = asked[t]
    BY Zenon, <1>2, <1>7, <1>13 DEF ToAsk
  <2>2. Follows(s, t) \/ Follows(t, s)
    BY Zenon, <1>1 DEF OrderInv
  <2>. QED  BY Zenon, <2>1, <2>2 DEF Follows
<1>14. OrderInv'
  BY Zenon, <1>11, <1>12, <1>13 DEF OrderInv
<1>. QED  BY Zenon, <1>5, <1>6, <1>8, <1>14 DEF IInv

LEMMA ReceivedStep ==
    ASSUME IInv, NEW r \in Ranks, Received(r)
    PROVE  IInv'
<1>1. LoopTypes /\ ThreadTypes /\ ServedInv /\ AgreeInv /\ IdleInv /\ OrderInv /\ JobInv
  BY Zenon DEF IInv
<1>2. /\ job[r] # NoRequest
      /\ state' = [state EXCEPT ![r][job[r]] =
                     IF verdict[job[r]][r] = "cancelled" THEN "error" ELSE state[r][job[r]]]
      /\ future' = [future EXCEPT ![r][job[r]] = "value"]
      /\ job' = [job EXCEPT ![r] = NoRequest]
      /\ UNCHANGED <<context, at, active, canceled, batch,
                     mRequesterFutures, mRequestsQueue, asked, withdrawn>>
      /\ next' = next /\ atLeast' = atLeast /\ take' = take /\ ready' = ready
  BY Zenon DEF Received, status
<1>3. job[r] \in Requests
  BY Zenon, <1>1, <1>2 DEF ThreadTypes
<1>4. verdict[job[r]][r] # "cancelled"
  BY <1>1, <1>3 DEF ServedInv
<1>5. state' = state
  BY <1>1, <1>2, <1>3, <1>4 DEF LoopTypes
<1>6. future' \in [Ranks -> [Requests -> {"none", "pending", "value"}]]
  BY <1>1, <1>2, <1>3 DEF ThreadTypes
<1>7. job' \in [Ranks -> Requests \cup {NoRequest}] /\ JobInv'
  BY <1>1, <1>2 DEF ThreadTypes, JobInv
<1>8. LoopTypes' /\ ServedInv' /\ IdleInv' /\ AgreeInv'
  BY Zenon, <1>1, <1>2, <1>5, ServedKept DEF LoopTypes, IdleInv, AgreeInv, Ahead
<1>9. ThreadTypes'
  BY Zenon, <1>1, <1>2, <1>6, <1>7 DEF ThreadTypes
<1>10. OrderInv'
  <2>1. \A s \in Ranks : ToAsk(s)' = ToAsk(s)
    BY Zenon, <1>2, <1>5 DEF ToAsk
  <2>2. \A s, t \in Ranks : Follows(s, t) => Follows(s, t)'
    BY Zenon, <2>1, <1>2 DEF Follows
  <2>. QED  BY Zenon, <1>1, <2>2 DEF OrderInv
<1>. QED  BY Zenon, <1>7, <1>8, <1>9, <1>10 DEF IInv

LEMMA ContextStep ==
    ASSUME IInv, NEW q \in Requests, ContextServes(q)
    PROVE  IInv'
<1>1. ServedInv /\ Rank0 \in Ranks
  BY Zenon, RankAssumption DEF IInv
<1>2. UNCHANGED <<at, active, state, canceled, batch, status, mRequesterFutures, thread, withdrawn>>
  BY Zenon DEF ContextServes
<1>3. q \in Requests /\ [p \in Requests |-> Ranks][q] = Ranks
  OBVIOUS
<1>4. /\ verdict \in [Requests -> [Ranks -> {"none", "ready"}]]
      /\ result \in [Requests -> {"none", "pending", "value"}]
      /\ delivered \in [Requests -> SUBSET Ranks]
      /\ \A p \in Requests : p \notin owned => result[p] = "value"
      /\ \A p \in Requests : result[p] = "value" => delivered[p] = Ranks
      /\ \A p \in Requests : \A r \in delivered[p] : verdict[p][r] = "ready"
      /\ withdrawn = {} /\ canceled = OnEach({}) /\ ~closed
  BY Zenon, <1>1 DEF ServedInv
<1>5. canceled' = canceled /\ withdrawn' = withdrawn
  BY Zenon, <1>2
\* A request is offered.
<1>6. ASSUME Context!Offer(q) PROVE ServedInv'
  <2>1. result[q] = "none" /\ result' = [result EXCEPT ![q] = "pending"]
        /\ owned' = owned /\ verdict' = verdict /\ delivered' = delivered /\ closed' = closed
    BY Zenon, <1>6 DEF Context!Offer
  <2>2. /\ verdict' \in [Requests -> [Ranks -> {"none", "ready"}]]
        /\ result' \in [Requests -> {"none", "pending", "value"}]
        /\ delivered' \in [Requests -> SUBSET Ranks]
        /\ \A p \in Requests : p \notin owned' => result'[p] = "value"
        /\ \A p \in Requests : result'[p] = "value" => delivered'[p] = Ranks
        /\ \A p \in Requests : \A r \in delivered'[p] : verdict'[p][r] = "ready"
    BY <1>4, <2>1
  <2>. QED  BY Zenon, <1>4, <1>5, <2>1, <2>2 DEF ServedInv
\* A rank that has no answer has no data, so the request is not complete and is owned.
<1>7. ASSUME NEW r \in Ranks, Context!Answer(q, r) PROVE ServedInv'
  <2>1. /\ verdict[q][r] = "none"
        /\ q \notin owned \/ verdict' = [verdict EXCEPT ![q] = [@ EXCEPT ![r] = "ready"]]
        /\ owned' = owned /\ result' = result /\ delivered' = delivered /\ closed' = closed
    BY Zenon, <1>3, <1>7 DEF Context!Answer, Context!MayAnswer
  <2>2. q \in owned
    <3>1. r \notin delivered[q]
      BY <1>4, <2>1
    <3>. QED  BY Zenon, <1>4, <3>1
  <2>3. PICK w \in [Ranks -> {"none", "ready"}] :
          /\ w = [verdict[q] EXCEPT ![r] = "ready"]
          /\ \A s \in Ranks : verdict[q][s] = "ready" => w[s] = "ready"
    <3>1. verdict[q] \in [Ranks -> {"none", "ready"}]
      BY Zenon, <1>4
    <3>2. [verdict[q] EXCEPT ![r] = "ready"] \in [Ranks -> {"none", "ready"}]
      BY Zenon, <3>1
    <3>3. \A s \in Ranks : verdict[q][s] = "ready" => [verdict[q] EXCEPT ![r] = "ready"][s] = "ready"
      BY Zenon, <3>1
    <3>. QED  BY Zenon, <3>2, <3>3
  <2>4. verdict' = [verdict EXCEPT ![q] = w]
    BY Zenon, <2>1, <2>2, <2>3
  <2>5. /\ verdict' \in [Requests -> [Ranks -> {"none", "ready"}]]
        /\ result' \in [Requests -> {"none", "pending", "value"}]
        /\ delivered' \in [Requests -> SUBSET Ranks]
        /\ \A p \in Requests : p \notin owned' => result'[p] = "value"
        /\ \A p \in Requests : result'[p] = "value" => delivered'[p] = Ranks
        /\ \A p \in Requests : \A s \in delivered'[p] : verdict'[p][s] = "ready"
    BY <1>4, <2>1, <2>3, <2>4
  <2>. QED  BY Zenon, <1>4, <1>5, <2>1, <2>5 DEF ServedInv
\* Data goes to a rank that was promised it.
<1>8. ASSUME NEW r \in Ranks, Context!Deliver(q, r) PROVE ServedInv'
  <2>1. /\ verdict[q][r] = "ready" /\ delivered' = [delivered EXCEPT ![q] = @ \cup {r}]
        /\ owned' = owned /\ result' = result /\ verdict' = verdict /\ closed' = closed
    BY Zenon, <1>3, <1>8 DEF Context!Deliver, Context!Promised
  <2>2. /\ verdict' \in [Requests -> [Ranks -> {"none", "ready"}]]
        /\ result' \in [Requests -> {"none", "pending", "value"}]
        /\ delivered' \in [Requests -> SUBSET Ranks]
        /\ \A p \in Requests : p \notin owned' => result'[p] = "value"
        /\ \A p \in Requests : result'[p] = "value" => delivered'[p] = Ranks
        /\ \A p \in Requests : \A s \in delivered'[p] : verdict'[p][s] = "ready"
    BY <1>4, <2>1
  <2>. QED  BY Zenon, <1>4, <1>5, <2>1, <2>2 DEF ServedInv
\* All the ranks have the data.
<1>13. ASSUME Context!Complete(q) PROVE ServedInv'
  <2>1. /\ delivered[q] = Ranks /\ result' = [result EXCEPT ![q] = "value"]
        /\ owned' = owned /\ verdict' = verdict /\ delivered' = delivered /\ closed' = closed
    BY Zenon, <1>3, <1>13 DEF Context!Complete
  <2>2. /\ verdict' \in [Requests -> [Ranks -> {"none", "ready"}]]
        /\ result' \in [Requests -> {"none", "pending", "value"}]
        /\ delivered' \in [Requests -> SUBSET Ranks]
        /\ \A p \in Requests : p \notin owned' => result'[p] = "value"
        /\ \A p \in Requests : result'[p] = "value" => delivered'[p] = Ranks
        /\ \A p \in Requests : \A r \in delivered'[p] : verdict'[p][r] = "ready"
    BY <1>4, <2>1
  <2>. QED  BY Zenon, <1>4, <1>5, <2>1, <2>2 DEF ServedInv
\* The blocks are freed; nothing was withdrawn.
<1>9. ASSUME (result[q] = "value" \/ q \in withdrawn) /\ Context!Release(q)
      PROVE  ServedInv'
  <2>1. /\ owned' = owned \ {q} /\ result' = result /\ verdict' = verdict
        /\ delivered' = delivered /\ closed' = closed
    BY Zenon, <1>9 DEF Context!Release
  <2>2. /\ verdict' \in [Requests -> [Ranks -> {"none", "ready"}]]
        /\ result' \in [Requests -> {"none", "pending", "value"}]
        /\ delivered' \in [Requests -> SUBSET Ranks]
        /\ \A p \in Requests : p \notin owned' => result'[p] = "value"
        /\ \A p \in Requests : result'[p] = "value" => delivered'[p] = Ranks
        /\ \A p \in Requests : \A r \in delivered'[p] : verdict'[p][r] = "ready"
    BY <1>4, <1>9, <2>1
  <2>. QED  BY Zenon, <1>4, <1>5, <2>1, <2>2 DEF ServedInv
<1>10. ServedInv'
  BY Zenon, <1>6, <1>7, <1>8, <1>9, <1>13 DEF ContextServes
<1>11. LoopTypes' /\ ThreadTypes' /\ IdleInv' /\ JobInv'
  BY Zenon, <1>2 DEF IInv, LoopTypes, ThreadTypes, IdleInv, JobInv, status, thread
<1>12. AgreeInv' /\ OrderInv'
  BY Zenon, <1>2 DEF IInv, AgreeInv, OrderInv, Ahead, Follows, ToAsk, status, thread
<1>. QED  BY Zenon, <1>10, <1>11, <1>12 DEF IInv

-----------------------------------------------------------------------------
(* Kept, from laws of sizes that the last section proves.                  *)

SizeLaws ==
    /\ Cardinality({}) = 0
    /\ \A n \in Nat : Cardinality(1 .. n) = n
    /\ \A n \in Nat : \A K \in SUBSET (1 .. n) : Cardinality(K) \in Nat
    /\ \A n \in Nat : \A K \in SUBSET (1 .. n) : \A i \in (1 .. n) \ K :
          Cardinality(K \cup {i}) = Cardinality(K) + 1
    /\ \A K \in SUBSET Nat : K # {} => \E m \in K : \A i \in K : m <= i
    /\ \A N \in SUBSET Requests : Cardinality(N) \in Nat

UpTo(K, i) == {j \in K : j <= i}

\* An increasing list of the numbers of K has each of its places filled.
LEMMA NthExists ==
    ASSUME SizeLaws, NEW L \in Nat, NEW K \in SUBSET (1 .. L), NEW n \in 1 .. Cardinality(K)
    PROVE  \E i \in K : Cardinality(UpTo(K, i)) = n
<1>. DEFINE W == {i \in 0 .. L : n <= Cardinality(UpTo(K, i))}
<1>1. \A i : UpTo(K, i) \in SUBSET (1 .. L)
  BY Zenon DEF UpTo
<1>2. \A i : Cardinality(UpTo(K, i)) \in Nat
  BY Zenon, <1>1 DEF SizeLaws
<1>3. L \in W
  <2>1. UpTo(K, L) = K
    <3>1. \A j \in K : j <= L
      OBVIOUS
    <3>. QED  BY Zenon, <3>1 DEF UpTo
  <2>2. Cardinality(K) \in Nat
    BY Zenon DEF SizeLaws
  <2>3. n <= Cardinality(K)
    BY <2>2
  <2>4. L \in 0 .. L
    OBVIOUS
  <2>. QED  BY Zenon, <2>1, <2>3, <2>4
<1>4. PICK i \in W : \A j \in W : i <= j
  <2>1. W \in SUBSET Nat /\ W # {}
    BY <1>3
  <2>. HIDE DEF W
  <2>. QED  BY Zenon, <2>1 DEF SizeLaws
<1>5. i \in 0 .. L /\ n <= Cardinality(UpTo(K, i)) /\ n \in Nat /\ n >= 1
  <2>1. n \in Nat /\ n >= 1
    <3>1. Cardinality(K) \in Nat
      BY Zenon DEF SizeLaws
    <3>. QED  BY <3>1
  <2>. QED  BY Zenon, <1>4, <2>1
<1>6. i # 0
  <2>1. UpTo(K, 0) = {}
    <3>1. \A j \in K : ~(j <= 0)
      OBVIOUS
    <3>. QED  BY Zenon, <3>1 DEF UpTo
  <2>2. Cardinality(UpTo(K, 0)) = 0
    BY Zenon, <2>1 DEF SizeLaws
  <2>3. ASSUME i = 0 PROVE FALSE
    <3>1. n <= 0
      BY Zenon, <1>5, <2>2, <2>3
    <3>. QED  BY <3>1, <1>5
  <2>. QED  BY Zenon, <2>3
<1>7. i - 1 \in 0 .. L /\ i \in 1 .. L /\ ~(i <= i - 1)
  BY <1>5, <1>6
<1>8. ~(n <= Cardinality(UpTo(K, i - 1)))
  BY Zenon, <1>4, <1>7
<1>9. \A j \in K : j <= i <=> (j <= i - 1 \/ j = i)
  <2>1. \A j \in 1 .. L : j <= i <=> (j <= i - 1 \/ j = i)
    BY <1>7
  <2>. QED  BY Zenon, <2>1
<1>10. i <= i
  BY <1>7
<1>11. i \in K
  <2>1. ASSUME i \notin K PROVE UpTo(K, i) = UpTo(K, i - 1)
    BY Zenon, <1>9, <2>1 DEF UpTo
  <2>. QED  BY Zenon, <2>1, <1>5, <1>8
<1>12. UpTo(K, i) = UpTo(K, i - 1) \cup {i}
  BY Zenon, <1>9, <1>10, <1>11 DEF UpTo
<1>13. i \notin UpTo(K, i - 1)
  BY Zenon, <1>7 DEF UpTo
<1>14. Cardinality(UpTo(K, i)) = Cardinality(UpTo(K, i - 1)) + 1
  <2>1. i \in (1 .. L) \ UpTo(K, i - 1)
    BY Zenon, <1>7, <1>13
  <2>2. Cardinality(UpTo(K, i - 1) \cup {i}) = Cardinality(UpTo(K, i - 1)) + 1
    <3>1. PICK M \in SUBSET (1 .. L) : M = UpTo(K, i - 1)
      BY Zenon, <1>1
    <3>2. \A k \in (1 .. L) \ M : Cardinality(M \cup {k}) = Cardinality(M) + 1
      BY Zenon DEF SizeLaws
    <3>. QED  BY Zenon, <2>1, <3>1, <3>2
  <2>. QED  BY Zenon, <2>2, <1>12
<1>15. Cardinality(UpTo(K, i)) = n
  <2>. DEFINE c == Cardinality(UpTo(K, i))
              d == Cardinality(UpTo(K, i - 1))
  <2>1. c \in Nat /\ d \in Nat /\ c = d + 1 /\ n <= c /\ ~(n <= d)
    BY Zenon, <1>2, <1>5, <1>8, <1>14
  <2>. HIDE DEF c, d
  <2>2. c = n
    BY <2>1, <1>5
  <2>. QED  BY Zenon, <2>2 DEF c
<1>. QED  BY Zenon, <1>11, <1>15

\* What Kept computes: from each place of it, a place of s with an element of S.
LEMMA KeptType ==
    ASSUME SizeLaws, NEW s \in Seq(Requests), NEW S
    PROVE  Kept(s, S) \in Seq(Requests)
<1>. DEFINE K == {i \in DOMAIN s : s[i] \in S}
            Nth(n) == CHOOSE i \in K : Cardinality({j \in K : j <= i}) = n
<1>1. K \in SUBSET (1 .. Len(s)) /\ Len(s) \in Nat
  OBVIOUS
<1>2. Cardinality(K) \in Nat
  <2>. HIDE DEF K
  <2>. QED  BY Zenon, <1>1 DEF SizeLaws
<1>3. ASSUME NEW n \in 1 .. Cardinality(K) PROVE Nth(n) \in K
  <2>. HIDE DEF K
  <2>1. \E i \in K : Cardinality({j \in K : j <= i}) = n
    BY Zenon, <1>1, NthExists DEF UpTo
  <2>. QED  BY Zenon, <2>1
<1>4. \A i \in K : s[i] \in Requests
  OBVIOUS
<1>5. Kept(s, S) = [n \in 1 .. Cardinality(K) |-> s[Nth(n)]]
  BY Zenon DEF Kept
<1>. HIDE DEF K, Nth
<1>6. \A n \in 1 .. Cardinality(K) : s[Nth(n)] \in Requests
  BY Zenon, <1>3, <1>4
<1>. QED  BY <1>2, <1>5, <1>6

\* Nothing taken out of a list leaves it as it is.
LEMMA WithoutNone ==
    ASSUME SizeLaws, NEW s \in Seq(Requests)
    PROVE  Without(s, {}) = s
<1>. DEFINE K == {i \in DOMAIN s : s[i] \in Requests \ {}}
            Nth(n) == CHOOSE i \in K : Cardinality({j \in K : j <= i}) = n
<1>1. K = 1 .. Len(s) /\ Len(s) \in Nat
  OBVIOUS
<1>2. Without(s, {}) = [n \in 1 .. Cardinality(K) |-> s[Nth(n)]]
  BY Zenon DEF Without, Kept
<1>. HIDE DEF K
<1>3. Cardinality(K) = Len(s)
  BY Zenon, <1>1 DEF SizeLaws
<1>4. ASSUME NEW i \in K PROVE Cardinality({j \in K : j <= i}) = i
  <2>1. {j \in K : j <= i} = 1 .. i /\ i \in Nat
    BY <1>1
  <2>. QED  BY Zenon, <2>1 DEF SizeLaws
<1>5. ASSUME NEW n \in 1 .. Len(s) PROVE Nth(n) = n
  <2>1. n \in K
    BY Zenon, <1>1
  <2>2. Cardinality({j \in K : j <= n}) = n
    BY Zenon, <1>4, <2>1
  <2>3. Nth(n) \in K /\ Cardinality({j \in K : j <= Nth(n)}) = n
    BY Zenon, <2>1, <2>2
  <2>. QED  BY Zenon, <2>3, <1>4
<1>. HIDE DEF Nth
<1>6. Without(s, {}) = [n \in 1 .. Len(s) |-> s[n]]
  BY Zenon, <1>2, <1>3, <1>5
<1>7. s = [n \in 1 .. Len(s) |-> s[n]]
  OBVIOUS
<1>. QED  BY Zenon, <1>6, <1>7

LEMMA ListsFromSizes ==
    ASSUME SizeLaws
    PROVE  ListLaws
BY Zenon, KeptType, WithoutNone DEF ListLaws, SizeLaws

-----------------------------------------------------------------------------
(* The invariant is inductive.                                             *)

\* All the lists are empty, and the ranks at the broadcast.
LEMMA InitInv ==
    ASSUME Init
    PROVE  IInv
<1>1. LoopTypes /\ ThreadTypes /\ IdleInv /\ JobInv
  BY DEF Init, OnEach, LoopTypes, ThreadTypes, Labels, States, IdleInv, JobInv
<1>2. ServedInv
  <2>3. /\ owned = Requests /\ result = [q \in Requests |-> "none"] /\ closed = FALSE
        /\ verdict = [q \in Requests |-> [r \in Ranks |-> "none"]]
        /\ delivered = [q \in Requests |-> {}]
    BY Zenon DEF Init, Context!Init
  <2>4. /\ verdict \in [Requests -> [Ranks -> {"none", "ready"}]]
        /\ result \in [Requests -> {"none", "pending", "value"}]
        /\ delivered \in [Requests -> SUBSET Ranks]
        /\ \A p \in Requests : result[p] # "value" /\ delivered[p] = {}
    BY <2>3
  <2>. QED  BY Zenon, <2>3, <2>4 DEF ServedInv, Init
<1>3. ASSUME NEW r \in Ranks
      PROVE  /\ at[r] = "fetch" /\ active[r] = << >> /\ batch[r] = {}
             /\ state[r] = [q \in Requests |-> "new"]
             /\ mRequesterFutures[r] = << >> /\ mRequestsQueue[r] = << >> /\ asked[r] = {}
  BY Zenon DEF Init, OnEach
<1>4. AgreeInv
  <2>1. \A r \in Ranks : Ahead(r) =
          <<"fetch", "none", 0, << >>, [q \in Requests |-> "new"], << >>, {}>>
    BY Zenon, <1>3, AheadLaws DEF AheadBy
  <2>. QED  BY Zenon, <2>1 DEF AgreeInv
<1>5. OrderInv
  <2>1. \A r \in Ranks : ToAsk(r) = << >> \o << >>
    BY Zenon, <1>3, ComingLaws DEF ComingBy, ToAsk
  <2>2. << >> \in Seq(Requests) /\ << >> \o << >> = << >> /\ Range(<< >>) = {}
    BY DEF Range
  <2>3. \A r, s \in Ranks : ToAsk(r) = << >> \o ToAsk(s) /\ asked[s] = asked[r] \cup Range(<< >>)
    BY Zenon, <1>3, <2>1, <2>2
  <2>. QED  BY Zenon, <2>2, <2>3 DEF OrderInv, Follows
<1>. QED  BY Zenon, <1>1, <1>2, <1>4, <1>5 DEF IInv

LEMMA NextInv ==
    ASSUME ListLaws, IInv, ~Cancels, [Next]_vars
    PROVE  IInv'
<1>1. CASE Fetch
  BY Zenon, <1>1, FetchStep
<1>2. CASE GatherRequestIds
  BY Zenon, <1>2, GatherStep
<1>3. CASE Forward
  BY Zenon, <1>3, ForwardStepStep DEF Forward
<1>4. ASSUME NEW r \in Ranks, Loop(r) PROVE IInv'
  BY Zenon, <1>4, StatusStep, TakeStep, ScheduleStep, SkipStepStep, RespondStep DEF Loop
<1>5. ASSUME NEW r \in Ranks, RequestThread(r) PROVE IInv'
  BY Zenon, <1>5, PopStep, ReceivedStep DEF RequestThread
<1>6. ASSUME NEW q \in Requests, ContextServes(q) PROVE IInv'
  BY Zenon, <1>6, ContextStep
<1>7. CASE UNCHANGED vars
  <2>1. LoopTypes' /\ ThreadTypes' /\ ServedInv' /\ IdleInv' /\ JobInv'
    BY Zenon, <1>7, ServedKept
      DEF IInv, LoopTypes, ThreadTypes, IdleInv, JobInv, vars, status, thread
  <2>2. AgreeInv' /\ OrderInv'
    BY ZenonT(40), <1>7 DEF IInv, AgreeInv, OrderInv, Ahead, Follows, ToAsk, vars, status, thread
  <2>. QED  BY Zenon, <2>1, <2>2 DEF IInv
<1>. QED  BY Zenon, <1>1, <1>2, <1>3, <1>4, <1>5, <1>6, <1>7 DEF Next, Meet

\* Ranks in a collective bring what they have.
LEMMA AgreeGives ==
    ASSUME IInv
    PROVE  LockStep /\ SameCollective
<1>1. LockStep
  <2>1. ASSUME AllAt("fetch"), NEW r \in Ranks, NEW s \in Ranks
        PROVE  /\ active[r] = active[s] /\ state[r] = state[s]
               /\ mRequesterFutures[r] = mRequesterFutures[s]
    <3>1. at[r] = "fetch" /\ at[s] = "fetch"
      BY Zenon, <2>1 DEF AllAt
    <3>. QED  BY Zenon, <3>1, CameAlike
  <2>. QED  BY Zenon, <2>1 DEF LockStep
<1>2. ASSUME NEW r \in Ranks, Waiting(r) PROVE Ahead(r)[1] = at[r]
  <2>1. AheadBy(r)
    BY Zenon, AheadLaws
  <2>2. CASE at[r] = "fetch"
    <3>1. Ahead(r) = <<"fetch", "none", 0, active[r], state[r], mRequesterFutures[r], batch[r]>>
      BY Zenon, <2>1, <2>2 DEF AheadBy
    <3>. QED  BY <3>1, <2>2
  <2>3. CASE at[r] = "gather"
    <3>1. Ahead(r) = <<"gather", next[r], atLeast[r], active[r], state[r],
                       mRequesterFutures[r], batch[r]>>
      BY Zenon, <2>1, <2>3 DEF AheadBy
    <3>. QED  BY <3>1, <2>3
  <2>4. CASE at[r] = "idle"
    <3>1. Ahead(r) = <<"idle", next[r], 0, active[r], state[r], mRequesterFutures[r], batch[r]>>
      BY Zenon, <2>1, <2>4 DEF AheadBy
    <3>. QED  BY <3>1, <2>4
  <2>5. CASE at[r] = "forward" /\ batch[r] # {}
    <3>1. Ahead(r) = <<"forward", "none", 0, active[r], state[r], mRequesterFutures[r], batch[r]>>
      BY Zenon, <2>1, <2>5 DEF AheadBy, FromForward
    <3>. QED  BY <3>1, <2>5
  <2>. QED  BY Zenon, <1>2, <2>2, <2>3, <2>4, <2>5 DEF Waiting
<1>3. ASSUME NEW r \in Ranks, NEW s \in Ranks, Waiting(r), Waiting(s)
      PROVE  /\ at[r] = at[s]
             /\ at[r] = "gather" => next[r] = next[s] /\ atLeast[r] = atLeast[s]
             /\ at[r] = "forward" => batch[r] = batch[s]
  <2>1. at[r] = at[s]
    BY Zenon, <1>2, <1>3 DEF IInv, AgreeInv
  <2>2. at[r] \in {"fetch", "gather", "idle", "forward"}
    BY Zenon, <1>3 DEF Waiting
  <2>. QED  BY Zenon, <2>1, <2>2, CameAlike
<1>. QED  BY Zenon, <1>1, <1>3 DEF SameCollective

\* Of two request threads, the one ahead has asked for all that the other has.
LEMMA OrderGives ==
    ASSUME IInv
    PROVE  NoCrossWait
<1>1. \A r, s \in Ranks : Follows(r, s) => asked[r] \subseteq asked[s]
  BY Zenon DEF Follows
<1>. QED  BY Zenon, <1>1 DEF IInv, OrderInv, JobInv, NoCrossWait

\* IsFiniteSet and Cardinality, spelled out: tlapm tells those of an extended
\* FiniteSets from those of the library that the last section instantiates.
Finite(S) == \E seq \in Seq(S) : \A s \in S : \E n \in 1 .. Len(seq) : seq[n] = s

Size(S) ==
    LET CS[T \in SUBSET S] == IF T = {} THEN 0 ELSE 1 + CS[T \ {CHOOSE x : x \in T}]
    IN  CS[S]

\* There are finitely many requests.
LEMMA SizesSpelledOut == Finite(Requests) /\ \A S : Cardinality(S) = Size(S)
<1>1. Finite(Requests)
  BY Zenon, RankAssumption DEF Finite, IsFiniteSet
<1>2. \A S : Cardinality(S) = Size(S)
  BY Zenon DEF Cardinality, Size
<1>. QED  BY Zenon, <1>1, <1>2

\* The laws in terms of Size.
LEMMA LawsSpelledOut ==
    ASSUME Size({}) = 0,
           \A n \in Nat : Size(1 .. n) = n,
           \A n \in Nat : \A K \in SUBSET (1 .. n) : Size(K) \in Nat,
           \A n \in Nat : \A K \in SUBSET (1 .. n) : \A i \in (1 .. n) \ K :
              Size(K \cup {i}) = Size(K) + 1,
           \A K \in SUBSET Nat : K # {} => \E m \in K : \A i \in K : m <= i,
           \A N \in SUBSET Requests : Size(N) \in Nat
    PROVE  SizeLaws
BY ZenonT(40), SizesSpelledOut DEF SizeLaws

-----------------------------------------------------------------------------
(* The laws of sizes, from the library's facts on finite sets.             *)
LOCAL INSTANCE FiniteSetTheorems

\* Finite and Size in terms of the library.
LEMMA LibrarySizes ==
    (\A S : IsFiniteSet(S) <=> Finite(S)) /\ (\A S : Cardinality(S) = Size(S))
<1>1. \A S : IsFiniteSet(S) <=> Finite(S)
  BY Zenon DEF IsFiniteSet, Finite
<1>2. \A S : Cardinality(S) = Size(S)
  BY Zenon DEF Cardinality, Size
<1>. QED  BY Zenon, <1>1, <1>2

\* A set of numbers has a least one.
LEMMA HasLeast ==
    ASSUME NEW K \in SUBSET Nat, K # {}
    PROVE  \E m \in K : \A i \in K : m <= i
<1>1. PICK x \in K : \A y \in K : ~(<<y, x>> \in OpToRel(<, Nat))
  BY Zenon, WFMin, NatLessThanWellFounded
<1>2. ASSUME NEW y \in K PROVE x <= y
  <2>1. x \in Nat /\ y \in Nat
    OBVIOUS
  <2>2. y < x => <<y, x>> \in OpToRel(<, Nat)
    BY <2>1 DEF OpToRel
  <2>3. ~(y < x)
    BY Zenon, <1>1, <2>2
  <2>. QED  BY <2>1, <2>3
<1>. QED  BY Zenon, <1>2

LEMMA LawsHold == SizeLaws
<1>1. \A n \in Nat : IsFiniteSet(1 .. n) /\ Cardinality(1 .. n) = n
  <2>1. ASSUME NEW n \in Nat PROVE IsFiniteSet(1 .. n) /\ Cardinality(1 .. n) = n
    <3>1. 1 \in Int /\ n \in Int
      OBVIOUS
    <3>2. /\ IsFiniteSet(1 .. n)
          /\ Cardinality(1 .. n) = IF 1 > n THEN 0 ELSE n - 1 + 1
      BY Zenon, <3>1, FS_Interval
    <3>. DEFINE c == Cardinality(1 .. n)
    <3>3. c = IF 1 > n THEN 0 ELSE n - 1 + 1
      BY Zenon, <3>2
    <3>. HIDE DEF c
    <3>4. c = n
      BY <3>3
    <3>. QED  BY Zenon, <3>2, <3>4 DEF c
  <2>. QED  BY Zenon, <2>1
<1>2. \A n \in Nat : \A K \in SUBSET (1 .. n) : IsFiniteSet(K) /\ Cardinality(K) \in Nat
  BY Zenon, <1>1, FS_Subset, FS_CardinalityType
<1>3. ASSUME NEW n \in Nat, NEW K \in SUBSET (1 .. n), NEW i \in (1 .. n) \ K
      PROVE  Size(K \cup {i}) = Size(K) + 1
  <2>1. Cardinality(K \cup {i}) = Cardinality(K) + 1
    BY Zenon, <1>2, FS_AddElement
  <2>. QED  BY Zenon, <2>1, LibrarySizes
<1>4. \A N \in SUBSET Requests : Size(N) \in Nat
  <2>1. \A N \in SUBSET Requests : IsFiniteSet(N)
    BY Zenon, SizesSpelledOut, LibrarySizes, FS_Subset
  <2>. QED  BY Zenon, <2>1, LibrarySizes, FS_CardinalityType
<1>5. Size({}) = 0
  BY Zenon, LibrarySizes, FS_EmptySet
<1>6. \A n \in Nat : Size(1 .. n) = n
  BY Zenon, <1>1, LibrarySizes
<1>7. \A n \in Nat : \A K \in SUBSET (1 .. n) : Size(K) \in Nat
  BY Zenon, <1>2, LibrarySizes
<1>8. \A K \in SUBSET Nat : K # {} => \E m \in K : \A i \in K : m <= i
  BY Zenon, HasLeast
<1>. QED  BY Zenon, <1>3, <1>4, <1>5, <1>6, <1>7, <1>8, LawsSpelledOut

-----------------------------------------------------------------------------
(* The invariant holds in every reachable state of a server without        *)
(* cancellations: however the transfers and the request threads of the     *)
(* ranks interleave, all the ranks bring the same to their next collective *)
(* and ask the context server in the same order.                           *)
THEOREM Inductive == Spec /\ ~Cancels => []IInv
<1>1. Init => IInv
  BY InitInv
<1>2. ~Cancels /\ IInv /\ [Next]_vars => IInv'
  BY NextInv, LawsHold, ListsFromSizes
<1>3. ~Cancels => (~Cancels)'
  OBVIOUS
<1>. QED  BY <1>1, <1>2, <1>3, PTL DEF Spec

(* At the top of executor_loop the ranks agree on the active requests,     *)
(* their states and the order of mRequesterFutures, though each rank sees  *)
(* its transfers end at other times.                                       *)
THEOREM RanksInLockStep == Spec /\ ~Cancels => []LockStep
<1>1. IInv => LockStep
  BY AgreeGives
<1>. QED  BY <1>1, Inductive, PTL

(* Ranks that wait in the broadcast, in gatherRequestIds or in the forward *)
(* step wait in the same call of it, with the same arguments.              *)
THEOREM RanksMeet == Spec /\ ~Cancels => []SameCollective
<1>1. IInv => SameCollective
  BY AgreeGives
<1>. QED  BY <1>1, Inductive, PTL

(* No two request threads wait for each other's request.                   *)
THEOREM ThreadsDoNotCross == Spec /\ ~Cancels => []NoCrossWait
<1>1. IInv => NoCrossWait
  BY OrderGives
<1>. QED  BY <1>1, Inductive, PTL
=============================================================================
