---------------------- MODULE CapacitySchedulingProofs ----------------------
(***************************************************************************)
(* Proofs about CapacityScheduling, for any requests, lengths, block size, *)
(* pool and limits.  Sums of blocks are sizes of disjoint unions, so that  *)
(* the laws of sums follow from those of finite sets.                      *)
(***************************************************************************)
EXTENDS CapacityScheduling, Sequences, TLAPS

\* What a state says of a sequence and of its place.
StateInv ==
    \A r \in Requests :
        /\ turn[r] = 0 <=> state[r] = "new"
        /\ turn[r] <= Cardinality(Requests \ In({"new"}))
        /\ state[r] \in {"new", "GENERATION_INIT", "CONTEXT_INIT", "done"} => cached[r] = 0
        /\ state[r] \in {"TRANS_IN_PROGRESS", "TRANS_COMPLETE"} => cached[r] = prompt[r]
        /\ state[r] = "GENERATION_IN_PROGRESS" => cached[r] + 1 < MaxSeqLen(r)
        /\ state[r] \in {"GENERATION_INIT", "TRANS_IN_PROGRESS", "TRANS_COMPLETE"} => r \in remote

\* Under MAX_UTILIZATION no request has overtaken one without blocks, so that
\* none is paused when blocks are given to a new generation-only request.
OrderInv ==
    policy = "MAX_UTILIZATION" =>
        \A r, q \in Requests : state[r] = "GENERATION_INIT" /\ turn[r] < turn[q]
                                 => state[q] \in {"GENERATION_INIT", "CONTEXT_INIT"}

\* The blocks in use are blocks of the pool.
PoolInv == Total(Held, Requests) <= TotalBlocks /\ Cardinality(Active) <= MaxNumRequests

IInv == TypeOK /\ StateInv /\ OrderInv /\ PoolInv /\ AllocationSucceeds /\ RunToCompletion

\* A number of blocks, or of tokens, for every request.
Counts == [Requests -> Nat]

\* IsFiniteSet and Cardinality, spelled out: tlapm tells those of an extended
\* FiniteSets from those of the library that the last section instantiates.
Finite(S) == \E seq \in Seq(S) : \A s \in S : \E n \in 1 .. Len(seq) : seq[n] = s

Size(S) ==
    LET CS[T \in SUBSET S] == IF T = {} THEN 0 ELSE 1 + CS[T \ {CHOOSE x : x \in T}]
    IN  CS[S]

\* The disjoint union whose size is Total(f, S).
Units(f, S) == UNION {{r} \X (1 .. f[r]) : r \in S}

\* The laws of sums and of sizes that the proofs rest on; they are proved, for
\* any finite set of requests, in the last section.
CountingLaws ==
    /\ \A f \in Counts, S \in SUBSET Requests : Total(f, S) \in Nat
    /\ \A f, g \in Counts, S, T \in SUBSET Requests :
          S \subseteq T /\ (\A r \in S : f[r] <= g[r]) => Total(f, S) <= Total(g, T)
    /\ \A f \in Counts, S, T \in SUBSET Requests :
          S \cap T = {} => Total(f, S \cup T) = Total(f, S) + Total(f, T)
    /\ \A f, g, h \in Counts, S \in SUBSET Requests :
          (\A r \in S : h[r] = f[r] + g[r]) => Total(h, S) = Total(f, S) + Total(g, S)
    /\ \A f \in Counts, S \in SUBSET Requests : (\A r \in S : f[r] = 0) => Total(f, S) = 0
    /\ \A S \in SUBSET Requests : Size(S) \in Nat
    /\ \A S, T \in SUBSET Requests : S \subseteq T => Size(S) <= Size(T)
    /\ \A S \in SUBSET Requests, r \in Requests : r \notin S => Size(S \cup {r}) = Size(S) + 1
    /\ Size({}) = 0
    /\ \A N \in Nat : \A K \in SUBSET (0 .. N) : K # {} => \E m \in K : \A n \in K : n <= m

(* The requests are finitely many, and totals are sizes.                   *)
LEMMA SizesSpelledOut ==
  /\ Finite(Requests)
  /\ \A S : Cardinality(S) = Size(S)
  /\ \A f, S : Total(f, S) = Size(Units(f, S))
  <1>1. Finite(Requests)
    BY Zenon, CapacityAssumption DEF Finite, IsFiniteSet
  <1>2. \A S : Cardinality(S) = Size(S)
    BY Zenon DEF Cardinality, Size
  <1>. QED
    BY Zenon, <1>1, <1>2 DEF Total, Units

(* A total is a natural number.                                            *)
LEMMA TotalNat ==
  ASSUME CountingLaws, NEW f \in Counts, NEW S \in SUBSET Requests
  PROVE  Total(f, S) \in Nat
  BY Zenon DEF CountingLaws

(* A total of smaller numbers over fewer requests is smaller.              *)
LEMMA TotalMono ==
  ASSUME CountingLaws, NEW f \in Counts, NEW g \in Counts,
         NEW S \in SUBSET Requests, NEW T \in SUBSET Requests,
         S \subseteq T, \A r \in S : f[r] <= g[r]
  PROVE  Total(f, S) <= Total(g, T)
  BY Zenon DEF CountingLaws

(* The total over two disjoint sets.                                       *)
LEMMA TotalUnion ==
  ASSUME CountingLaws, NEW f \in Counts,
         NEW S \in SUBSET Requests, NEW T \in SUBSET Requests, S \cap T = {}
  PROVE  Total(f, S \cup T) = Total(f, S) + Total(f, T)
  BY Zenon DEF CountingLaws

(* The total of sums is the sum of the totals.                             *)
LEMMA TotalPlus ==
  ASSUME CountingLaws, NEW f \in Counts, NEW g \in Counts, NEW h \in Counts,
         NEW S \in SUBSET Requests, \A r \in S : h[r] = f[r] + g[r]
  PROVE  Total(h, S) = Total(f, S) + Total(g, S)
  BY Zenon DEF CountingLaws

(* A sum of zeros.                                                         *)
LEMMA TotalZero ==
  ASSUME CountingLaws, NEW f \in Counts, NEW S \in SUBSET Requests, \A r \in S : f[r] = 0
  PROVE  Total(f, S) = 0
  BY Zenon DEF CountingLaws

(* The number of requests of a set.                                        *)
LEMMA Sizes ==
  ASSUME CountingLaws
  PROVE  /\ Cardinality(Requests) \in Nat
         /\ \A S \in SUBSET Requests : Cardinality(S) \in Nat
         /\ \A S, T \in SUBSET Requests : S \subseteq T => Cardinality(S) <= Cardinality(T)
         /\ \A S \in SUBSET Requests, r \in Requests :
               r \notin S => Cardinality(S \cup {r}) = Cardinality(S) + 1
         /\ Cardinality({}) = 0
  <1>1. Requests \in SUBSET Requests
    OBVIOUS
  <1>. QED
    BY Zenon, <1>1, SizesSpelledOut DEF CountingLaws

(* A set of bounded numbers has a greatest one.                            *)
LEMMA HasGreatest ==
  ASSUME CountingLaws, NEW N \in Nat, NEW K \in SUBSET (0 .. N), K # {}
  PROVE  \E m \in K : \A n \in K : n <= m
  BY Zenon DEF CountingLaws

(* What is needed in the end is what is held and what is still to come.    *)
LEMMA TotalReserve ==
  ASSUME CountingLaws, NEW held \in Counts, NEW rest \in Counts, NEW full \in Counts, NEW S \in SUBSET Requests,
         \A r \in S : full[r] = held[r] + rest[r], \A r \in Requests \ S : held[r] = 0
  PROVE  Total(full, S) = Total(rest, S) + Total(held, Requests)
  <1>1. Total(full, S) = Total(held, S) + Total(rest, S)
    BY TotalPlus
  <1>2. Total(held, S \cup (Requests \ S)) = Total(held, S) + Total(held, Requests \ S)
    BY TotalUnion
  <1>3. Total(held, Requests \ S) = 0
    BY TotalZero
  <1>4. S \cup (Requests \ S) = Requests
    OBVIOUS
  <1>5. Total(held, S) \in Nat /\ Total(rest, S) \in Nat
    BY TotalNat
  <1>6. Total(held, Requests) = Total(held, S) + Total(held, Requests \ S)
    BY Zenon, <1>2, <1>4
  <1>. QED
    BY <1>1, <1>3, <1>5, <1>6

(* What is held after some requests lost what they held and others took   *)
(* more.                                                                   *)
LEMMA TotalMoves ==
  ASSUME CountingLaws, NEW held \in Counts, NEW taken \in Counts, NEW after \in Counts,
         NEW paused \in SUBSET Requests, NEW inits \in SUBSET Requests, NEW batch \in SUBSET Requests,
         inits \cap batch = {}, paused \cap (inits \cup batch) = {},
         \A r \in paused : after[r] = 0,
         \A r \in inits \cup batch : after[r] <= held[r] + taken[r],
         \A r \in Requests \ (paused \cup inits \cup batch) : after[r] <= held[r]
  PROVE  Total(after, Requests) + Total(held, paused)
           <= Total(held, Requests) + Total(taken, inits) + Total(taken, batch)
  <1>. DEFINE new == inits \cup batch
              old == Requests \ paused
              g == [r \in Requests |-> IF r \in new THEN taken[r] ELSE 0]
              h == [r \in Requests |-> held[r] + g[r]]
  <1>1. g \in Counts /\ h \in Counts
    BY DEF Counts
  <1>2. \A r \in Requests : g[r] = (IF r \in new THEN taken[r] ELSE 0) /\ h[r] = held[r] + g[r]
    OBVIOUS
  <1>. HIDE DEF g, h
  <1>3. \A r \in old : after[r] <= h[r]
    BY <1>2 DEF Counts
  <1>4. Requests = old \cup paused /\ old \cap paused = {} /\ old \in SUBSET Requests
    OBVIOUS
  <1>5. ASSUME NEW f \in Counts PROVE Total(f, Requests) = Total(f, old) + Total(f, paused)
    <2>1. Total(f, old \cup paused) = Total(f, old) + Total(f, paused)
      BY TotalUnion
    <2>. QED
      BY Zenon, <1>4, <2>1
  <1>6. Total(after, paused) = 0
    BY TotalZero
  <1>7. Total(after, old) <= Total(h, old)
    BY Zenon, <1>1, <1>3, <1>4, TotalMono
  <1>8. Total(h, old) = Total(held, old) + Total(g, old)
    BY <1>1, <1>2, <1>4, TotalPlus
  <1>9. Total(g, old) = Total(taken, inits) + Total(taken, batch)
    <2>1. old = new \cup (old \ new) /\ new \cap (old \ new) = {} /\ new \in SUBSET Requests
      OBVIOUS
    <2>2. Total(g, new \cup (old \ new)) = Total(g, new) + Total(g, old \ new)
      BY <1>1, TotalUnion
    <2>3. Total(g, old \ new) = 0
      BY <1>1, <1>2, TotalZero
    <2>4. Total(g, new) = Total(taken, new)
      <3>1. \A r \in new : g[r] <= taken[r] /\ taken[r] <= g[r]
        BY <1>2 DEF Counts
      <3>2. Total(g, new) <= Total(taken, new) /\ Total(taken, new) <= Total(g, new)
        BY Zenon, <1>1, <2>1, <3>1, TotalMono
      <3>3. Total(g, new) \in Nat /\ Total(taken, new) \in Nat
        BY Zenon, <1>1, <2>1, TotalNat
      <3>. QED
        BY <3>2, <3>3
    <2>5. Total(taken, new) = Total(taken, inits) + Total(taken, batch)
      BY TotalUnion
    <2>6. Total(taken, inits) \in Nat /\ Total(taken, batch) \in Nat
      BY Zenon, TotalNat
    <2>7. Total(g, old) = Total(g, new) + Total(g, old \ new)
      BY Zenon, <2>1, <2>2
    <2>. QED
      BY <2>3, <2>4, <2>5, <2>6, <2>7
  <1>10. /\ Total(after, Requests) = Total(after, old) + Total(after, paused)
         /\ Total(held, Requests) = Total(held, old) + Total(held, paused)
    BY <1>5
  <1>11. /\ Total(after, old) \in Nat /\ Total(h, old) \in Nat /\ Total(held, old) \in Nat
         /\ Total(g, old) \in Nat /\ Total(held, paused) \in Nat
    BY Zenon, <1>1, <1>4, TotalNat
  <1>12. Total(taken, inits) \in Nat /\ Total(taken, batch) \in Nat
    BY Zenon, TotalNat
  <1>. QED
    BY <1>6, <1>7, <1>8, <1>9, <1>10, <1>11, <1>12

(* What is held and what is reserved do not grow together, when no one has *)
(* blocks or a reservation but the requests for which there was room.      *)
LEMMA ReserveKept ==
  ASSUME CountingLaws, NEW full \in Counts, NEW held \in Counts, NEW rest \in Counts,
         NEW heldAfter \in Counts, NEW restAfter \in Counts,
         NEW S \in SUBSET Requests, NEW T \in SUBSET S,
         \A r \in Requests : full[r] = held[r] + rest[r],
         \A r \in Requests : full[r] = heldAfter[r] + restAfter[r],
         \A r \in Requests \ S : held[r] = 0,
         \A r \in Requests \ T : heldAfter[r] = 0
  PROVE  Total(restAfter, T) + Total(heldAfter, Requests) <= Total(rest, S) + Total(held, Requests)
  <1>1. Total(full, S) = Total(rest, S) + Total(held, Requests)
    BY TotalReserve
  <1>2. Total(full, T) = Total(restAfter, T) + Total(heldAfter, Requests)
    BY TotalReserve
  <1>3. \A r \in T : full[r] <= full[r]
    BY DEF Counts
  <1>4. Total(full, T) <= Total(full, S)
    BY <1>3, TotalMono
  <1>. QED
    BY <1>1, <1>2, <1>4

(* The limits of the configuration are numbers.                            *)
LEMMA Limits == TotalBlocks \in Nat /\ MaxNumRequests \in Nat
  BY CapacityAssumption

(* Some request of a set is the last of it.                                *)
LEMMA LastOne ==
  ASSUME CountingLaws, TypeOK, NEW S \in SUBSET Requests, S # {}
  PROVE  \E l \in S : \A r \in S : turn[r] <= turn[l]
  <1>1. {turn[r] : r \in S} \in SUBSET (0 .. Cardinality(Requests))
    BY DEF TypeOK
  <1>2. PICK m \in {turn[r] : r \in S} : \A n \in {turn[r] : r \in S} : n <= m
    <2>1. {turn[r] : r \in S} # {} /\ Cardinality(Requests) \in Nat
      BY Sizes
    <2>. QED
      BY Zenon, <1>1, <2>1, HasGreatest
  <1>. QED
    BY <1>2

(* ceilDiv: the blocks of n tokens, and of one more.                       *)
LEMMA Blocks ==
  /\ NumBlocks(0) = 0
  /\ \A n \in Nat : NumBlocks(n) \in Nat
  /\ \A m, n \in Nat : m <= n => NumBlocks(m) <= NumBlocks(n)
  /\ \A n \in Nat : NumBlocks(n + 1)
                      = NumBlocks(n) + (IF n % TokensPerBlock = 0 THEN 1 ELSE 0)
  <1>. DEFINE T == TokensPerBlock
  <1>0. T \in Nat \ {0}
    BY CapacityAssumption
  <1>. HIDE DEF T
  <1>1. (T - 1) \div T = 0
    BY <1>0
  <1>2. \A n \in Nat : (n + T - 1) \div T \in Nat
    BY <1>0
  <1>3. ASSUME NEW m \in Nat, NEW n \in Nat, m <= n
        PROVE  (m + T - 1) \div T <= (n + T - 1) \div T
    BY <1>0, <1>3
  <1>4. ASSUME NEW n \in Nat
        PROVE  (n + 1 + T - 1) \div T = (n + T - 1) \div T + (IF n % T = 0 THEN 1 ELSE 0)
    <2>1. (n + T) \div T = n \div T + 1
      BY <1>0
    <2>2. n % T = 0 => (n + T - 1) \div T = n \div T
      BY <1>0
    <2>3. n % T # 0 => (n + T - 1) \div T = n \div T + 1
      BY <1>0
    <2>4. n + 1 + T - 1 = n + T
      BY <1>0
    <2>5. n \div T \in Nat
      BY <1>0
    <2>. QED
      BY <2>1, <2>2, <2>3, <2>4, <2>5
  <1>5. 0 + T - 1 = T - 1
    BY <1>0
  <1>. QED
    BY <1>1, <1>2, <1>3, <1>4, <1>5 DEF NumBlocks, T

(* No tokens need no blocks.                                               *)
LEMMA NoBlocks == NumBlocks(0) = 0
  BY Blocks

\* The blocks of a request at its end.
Full == [r \in Requests |-> NumBlocks(MaxSeqLen(r))]

(* The counts of the schedulers, and how they relate: what a request takes *)
(* is what the schedulers say that it needs, and no more than it may hold. *)
LEMMA CountTypes ==
  ASSUME TypeOK, StateInv
  PROVE  /\ Held \in Counts /\ Remaining \in Counts /\ Needed \in Counts
         /\ Taken \in Counts /\ Full \in Counts
         /\ \A r \in Requests : Full[r] = Held[r] + Remaining[r]
         /\ \A r \in Requests : Taken[r] = Needed[r]
         /\ \A r \in Schedulable : Taken[r] <= Remaining[r]
  <1>1. ASSUME NEW r \in Requests
        PROVE  /\ MaxSeqLen(r) \in Nat /\ cached[r] \in Nat /\ prompt[r] \in Nat
               /\ cached[r] + 1 <= MaxSeqLen(r) /\ prompt[r] <= MaxSeqLen(r)
    BY CapacityAssumption DEF TypeOK, MaxSeqLen
  <1>2. ASSUME NEW r \in Requests
        PROVE  /\ NumBlocks(cached[r]) \in Nat /\ NumBlocks(prompt[r]) \in Nat
               /\ NumBlocks(MaxSeqLen(r)) \in Nat
               /\ NumBlocks(cached[r]) <= NumBlocks(MaxSeqLen(r))
               /\ NumBlocks(cached[r] + 1) <= NumBlocks(MaxSeqLen(r))
               /\ NumBlocks(prompt[r]) <= NumBlocks(MaxSeqLen(r))
               /\ NumBlocks(cached[r] + 1) = NumBlocks(cached[r])
                    + (IF cached[r] % TokensPerBlock = 0 THEN 1 ELSE 0)
    <2>1. cached[r] \in Nat /\ cached[r] + 1 \in Nat /\ cached[r] <= MaxSeqLen(r)
      BY <1>1
    <2>. QED
      BY <1>1, <2>1, Blocks
  <1>3. ASSUME NEW r \in Requests
        PROVE  /\ Held[r] \in Nat /\ Remaining[r] \in Nat /\ Needed[r] \in Nat
               /\ Taken[r] \in Nat /\ Full[r] \in Nat
               /\ Full[r] = Held[r] + Remaining[r]
               /\ Taken[r] = Needed[r]
    BY <1>1, <1>2 DEF Held, Remaining, Needed, Taken, Full
  <1>4. ASSUME NEW r \in Schedulable PROVE Taken[r] <= Remaining[r]
    <2>0. r \in Requests
      BY DEF Schedulable, Running, In
    <2>1. CASE GenerationInProgress(r)
      BY <1>2, <2>0, <2>1 DEF Remaining, Taken
    <2>2. CASE ~GenerationInProgress(r)
      <3>1. cached[r] = 0
        BY Zenon, <2>0, <2>2 DEF StateInv, Schedulable, Running, In
      <3>. QED
        BY <1>2, <2>0, <2>2, <3>1, NoBlocks DEF Remaining, Taken
    <2>. QED
      BY <2>1, <2>2
  <1>5. /\ Held \in Counts /\ Remaining \in Counts /\ Needed \in Counts
        /\ Taken \in Counts /\ Full \in Counts
    <2>1. /\ Held = [r \in Requests |-> Held[r]]
          /\ Remaining = [r \in Requests |-> Remaining[r]]
          /\ Needed = [r \in Requests |-> Needed[r]]
          /\ Taken = [r \in Requests |-> Taken[r]]
          /\ Full = [r \in Requests |-> Full[r]]
      BY Zenon DEF Held, Remaining, Needed, Taken, Full
    <2>. QED
      BY <1>3, <2>1 DEF Counts
  <1>. QED
    BY <1>3, <1>4, <1>5

(* What has room together with all before it has room as a whole.          *)
LEMMA AdmittedFits ==
  ASSUME CountingLaws, TypeOK, StateInv, NEW S \in SUBSET Requests, NEW pending \in SUBSET Requests,
         Total(Remaining, S) <= Free
  PROVE  /\ Admitted(S, pending) \in SUBSET (S \cup pending) /\ S \subseteq Admitted(S, pending)
         /\ Total(Remaining, Admitted(S, pending)) <= Free
  <1>. DEFINE A == Admitted(S, pending) \ S
  <1>1. /\ Admitted(S, pending) \in SUBSET (S \cup pending)
        /\ S \subseteq Admitted(S, pending) /\ A \in SUBSET Requests
    BY DEF Admitted
  <1>2. CASE A = {}
    <2>1. Admitted(S, pending) = S
      BY <1>1, <1>2
    <2>. QED
      BY Zenon, <1>1, <2>1
  <1>3. CASE A # {}
    <2>1. PICK l \in A : \A r \in A : turn[r] <= turn[l]
      BY Zenon, <1>1, <1>3, LastOne
    <2>2. Admitted(S, pending) \subseteq S \cup UpTo(pending, l)
      BY <1>1, <2>1 DEF UpTo
    <2>3. Total(Remaining, S \cup UpTo(pending, l)) <= Free
      BY DEF Admitted
    <2>4. /\ Remaining \in Counts /\ \A r \in Requests : Remaining[r] \in Nat
          /\ S \cup UpTo(pending, l) \in SUBSET Requests
          /\ Admitted(S, pending) \in SUBSET Requests
      BY <1>1, CountTypes DEF UpTo, Counts
    <2>5. Total(Remaining, Admitted(S, pending)) <= Total(Remaining, S \cup UpTo(pending, l))
      BY <2>2, <2>4, TotalMono
    <2>6. /\ Total(Remaining, Admitted(S, pending)) \in Nat
          /\ Total(Remaining, S \cup UpTo(pending, l)) \in Nat
          /\ Total(Held, Requests) \in Nat
      BY <2>4, TotalNat, CountTypes
    <2>7. Free \in Int
      BY <2>6, Limits DEF Free
    <2>. QED
      BY <1>1, <2>3, <2>5, <2>6, <2>7
  <1>. QED
    BY <1>2, <1>3

(* MaxUtilizationScheduler ends its list somewhere.                        *)
LEMMA MaxUtilizationPlan ==
  ASSUME CountingLaws, TypeOK, StateInv
  PROVE  \E e \in 0 .. Cardinality(Requests) :
            MaxUtilization = [scheduled |-> Scheduled(e), paused |-> Paused(e)]
  <1>. DEFINE Places == 0 .. Cardinality(Requests)
              Enough(e) == Running \ Paused(e) \subseteq Scheduled(e)
              K == {e \in Places : Enough(e)}
  <1>1. Enough(0)
    BY DEF StateInv, TypeOK, Running, GenerationInProgress, Paused
  <1>2. \E e \in Places : Enough(e) /\ \A n \in Places : Enough(n) => n <= e
    <2>1. K \in SUBSET Places /\ K # {} /\ Cardinality(Requests) \in Nat
      BY <1>1, Sizes
    <2>2. \E m \in K : \A n \in K : n <= m
      BY Zenon, <2>1, HasGreatest
    <2>. QED
      BY Zenon, <2>2
  <1>. DEFINE end == CHOOSE e \in Places : Enough(e) /\ \A n \in Places : Enough(n) => n <= e
  <1>3. end \in Places
    BY Zenon, <1>2
  <1>4. MaxUtilization
          = [e \in Places |-> [scheduled |-> Scheduled(e), paused |-> Paused(e)]][end]
    BY Zenon DEF MaxUtilization
  <1>. QED
    BY Zenon, <1>3, <1>4

(* The sums that the schedulers compare are integers.                      *)
LEMMA FreeType ==
  ASSUME CountingLaws, TypeOK, StateInv, PoolInv
  PROVE  Free \in Nat /\ Free + Total(Held, Requests) = TotalBlocks
  <1>1. Total(Held, Requests) \in Nat
    BY CountTypes, TotalNat
  <1>. QED
    BY <1>1, Limits DEF Free, PoolInv

(* Under MAX_UTILIZATION the scheduled requests fit together, when those   *)
(* that are paused, all of them later, have lost their blocks; and nothing *)
(* is scheduled before what came earlier.                                  *)
LEMMA MaxUtilizationFits ==
  ASSUME CountingLaws, TypeOK, StateInv, PoolInv
  PROVE  LET p == MaxUtilization
         IN  /\ p.scheduled \in SUBSET Schedulable /\ p.paused \in SUBSET Running
             /\ Total(Needed, p.scheduled) <= Free + Total(Held, p.paused)
             /\ \A q \in p.scheduled, r \in p.paused : turn[q] < turn[r]
             /\ \A q \in p.scheduled, r \in Schedulable : turn[r] < turn[q] => r \in p.scheduled
  <1>1. PICK e \in 0 .. Cardinality(Requests) :
          MaxUtilization = [scheduled |-> Scheduled(e), paused |-> Paused(e)]
    BY MaxUtilizationPlan
  <1>. DEFINE S == Scheduled(e)
              P == Paused(e)
              before == {r \in Schedulable : turn[r] <= e}
  <1>2. MaxUtilization.scheduled = S /\ MaxUtilization.paused = P
    BY Zenon, <1>1
  <1>3. /\ S \in SUBSET Schedulable /\ S \in SUBSET before /\ P \in SUBSET Running
        /\ Schedulable \in SUBSET Requests /\ Running \in SUBSET Requests
    BY DEF Scheduled, Paused, Schedulable, Running, In
  <1>4. Free \in Nat /\ Needed \in Counts /\ Held \in Counts
    BY FreeType, CountTypes
  <1>5. Total(Held, P) \in Nat /\ Total(Needed, S) \in Nat
    BY Zenon, <1>3, <1>4, TotalNat
  <1>6. Total(Needed, S) <= Free + Total(Held, P)
    <2>1. CASE S = {}
      <3>1. \A r \in {} : Needed[r] = 0
        OBVIOUS
      <3>2. Total(Needed, {}) = 0
        BY Zenon, <1>4, <3>1, TotalZero
      <3>3. Total(Needed, S) = 0
        BY Zenon, <2>1, <3>2
      <3>. QED
        BY <1>4, <1>5, <3>3
    <2>2. CASE S # {}
      <3>1. PICK l \in S : \A r \in S : turn[r] <= turn[l]
        BY Zenon, <1>3, <2>2, LastOne
      <3>2. S \subseteq UpTo(before, l) /\ UpTo(before, l) \in SUBSET Requests
        BY <1>3, <3>1 DEF UpTo
      <3>3. Total(Needed, UpTo(before, l)) <= Free + Total(Held, P)
        BY Zenon DEF Scheduled
      <3>4. Total(Needed, UpTo(before, l)) \in Nat
        BY Zenon, <1>4, <3>2, TotalNat
      <3>5. \A r \in S : Needed[r] <= Needed[r]
        BY <1>3, <1>4 DEF Counts
      <3>6. Total(Needed, S) <= Total(Needed, UpTo(before, l))
        BY Zenon, <1>3, <1>4, <3>2, <3>5, TotalMono
      <3>. QED
        BY <1>4, <1>5, <3>3, <3>4, <3>6
    <2>. QED
      BY <2>1, <2>2
  <1>7. \A q \in S, r \in P : turn[q] < turn[r]
    BY <1>3 DEF Scheduled, Paused, TypeOK
  <1>8. ASSUME NEW q \in S, NEW r \in Schedulable, turn[r] < turn[q] PROVE r \in S
    <2>1. r \in before /\ UpTo(before, r) \subseteq UpTo(before, q)
      BY <1>3, <1>8 DEF UpTo, TypeOK
    <2>2. UpTo(before, r) \in SUBSET Requests /\ UpTo(before, q) \in SUBSET Requests
      BY <1>3 DEF UpTo
    <2>3. Cardinality(UpTo(before, q)) <= MaxNumRequests
      BY Zenon DEF Scheduled
    <2>4. Cardinality(UpTo(before, r)) <= MaxNumRequests
      <3>1. Cardinality(UpTo(before, r)) <= Cardinality(UpTo(before, q))
        BY Zenon, <2>1, <2>2, Sizes
      <3>2. Cardinality(UpTo(before, r)) \in Nat /\ Cardinality(UpTo(before, q)) \in Nat
        BY Zenon, <2>2, Sizes
      <3>. QED
        BY <2>3, <3>1, <3>2, Limits
    <2>5. Total(Needed, UpTo(before, q)) <= Free + Total(Held, P)
      BY Zenon DEF Scheduled
    <2>6. Total(Needed, UpTo(before, r)) <= Free + Total(Held, P)
      <3>1. \A x \in UpTo(before, r) : Needed[x] <= Needed[x]
        BY <1>4, <2>2 DEF Counts
      <3>2. Total(Needed, UpTo(before, r)) <= Total(Needed, UpTo(before, q))
        BY Zenon, <1>4, <2>1, <2>2, <3>1, TotalMono
      <3>3. Total(Needed, UpTo(before, r)) \in Nat /\ Total(Needed, UpTo(before, q)) \in Nat
        BY Zenon, <1>4, <2>2, TotalNat
      <3>. QED
        BY <1>4, <1>5, <2>5, <3>2, <3>3
    <2>. QED
      BY Zenon, <2>1, <2>4, <2>6 DEF Scheduled
  <1>. QED
    BY Zenon, <1>2, <1>3, <1>6, <1>7, <1>8

(* Without generation-only requests, the no-evict policies schedule all    *)
(* running requests and reserve what all the scheduled ones may still take.*)
LEMMA NoEvictFits ==
  ASSUME CountingLaws, TypeOK, StateInv, PoolInv
  PROVE  /\ NoEvict.scheduled \in SUBSET Schedulable /\ NoEvict.paused = {}
         /\ remote = {} /\ Total(Remaining, Running) <= Free =>
              /\ Running \subseteq NoEvict.scheduled
              /\ Total(Remaining, NoEvict.scheduled) <= Free
  <1>. DEFINE inits == In({"GENERATION_INIT"})
              contexts == In({"CONTEXT_INIT"})
              all == Admitted(Admitted(Going, inits), contexts)
  <1>1. /\ NoEvict.scheduled = IF policy = "STATIC_BATCH" /\ Going # {} THEN Going ELSE all
        /\ NoEvict.paused = {}
    BY Zenon DEF NoEvict
  <1>2. /\ Going \in SUBSET Running /\ all \in SUBSET (Going \cup inits \cup contexts)
        /\ Schedulable = Running \cup In({"GENERATION_INIT", "CONTEXT_INIT"})
    BY DEF Going, Admitted, Schedulable
  <1>3. NoEvict.scheduled \in SUBSET Schedulable
    BY <1>1, <1>2 DEF In
  <1>4. ASSUME remote = {}, Total(Remaining, Running) <= Free
        PROVE  /\ Running \subseteq NoEvict.scheduled
               /\ Total(Remaining, NoEvict.scheduled) <= Free
    <2>1. Running \in SUBSET Requests /\ contexts \in SUBSET Requests /\ Active \in SUBSET Requests
      BY DEF Running, In, Active
    <2>2. inits = {}
      BY Zenon, <1>4 DEF StateInv, In
    <2>3. Going = Running
      <3>1. ASSUME NEW r \in Running PROVE Cardinality(UpTo(Running, r)) <= MaxNumRequests
        <4>1. UpTo(Running, r) \in SUBSET Active
          BY DEF UpTo, Running, GenerationInProgress, Active, In
        <4>2. Cardinality(UpTo(Running, r)) <= Cardinality(Active)
          BY Zenon, <2>1, <4>1, Sizes
        <4>3. Cardinality(UpTo(Running, r)) \in Nat /\ Cardinality(Active) \in Nat
          BY <2>1, <4>1, Sizes
        <4>. QED
          BY <4>2, <4>3, Limits DEF PoolInv
      <3>. QED
        BY <3>1 DEF Going
    <2>4. Admitted(Going, inits) = Going
      BY <2>2 DEF Admitted
    <2>5. all = Admitted(Running, contexts)
      BY Zenon, <2>3, <2>4
    <2>6. Running \subseteq all /\ Total(Remaining, all) <= Free
      BY Zenon, <1>4, <2>1, <2>5, AdmittedFits
    <2>. QED
      BY Zenon, <1>1, <1>4, <2>3, <2>6
  <1>. QED
    BY <1>1, <1>3, <1>4

(* Init establishes the invariant.                                         *)
LEMMA InitInv == CountingLaws /\ Init => IInv
  <1>. SUFFICES ASSUME CountingLaws, Init PROVE IInv
    OBVIOUS
  <1>1. TypeOK
    <2>1. \A r \in Requests : /\ PromptLen[r] \in 1 .. MaxSeqLen(r) - 1
                              /\ PromptLen[r] \in Nat /\ 0 < MaxSeqLen(r)
      BY CapacityAssumption DEF MaxSeqLen
    <2>2. 0 \in 0 .. Cardinality(Requests)
      BY Sizes
    <2>3. PromptLen \in [Requests -> Nat]
      BY CapacityAssumption
    <2>4. policy \in Policies /\ remote \subseteq Requests /\ failed \in BOOLEAN
      BY ZenonT(60) DEF Init
    <2>5. /\ turn \in [Requests -> 0 .. Cardinality(Requests)]
          /\ \A r, q \in Requests : turn[r] = turn[q] => r = q \/ turn[r] = 0
      BY <2>2 DEF Init
    <2>6. /\ prompt \in [Requests -> Nat] /\ cached \in [Requests -> Nat]
          /\ \A r \in Requests : prompt[r] \in 1 .. MaxSeqLen(r) - 1 /\ cached[r] < MaxSeqLen(r)
      BY <2>1, <2>3 DEF Init
    <2>. QED
      BY <2>4, <2>5, <2>6 DEF Init, TypeOK
  <1>2. StateInv
    BY Sizes DEF Init, StateInv
  <1>3. OrderInv
    BY DEF Init, OrderInv
  <1>4. \A r \in Requests : Held[r] = 0
    BY NoBlocks DEF Init, Held
  <1>5. Total(Held, Requests) = 0
    BY Zenon, <1>1, <1>2, <1>4, CountTypes, TotalZero
  <1>6. Active = {} /\ Running = {}
    BY DEF Init, Active, In, Running, GenerationInProgress
  <1>7. PoolInv
    <2>1. Cardinality(Active) = 0
      BY Zenon, <1>6, Sizes
    <2>. QED
      BY <1>5, <2>1, Limits DEF PoolInv
  <1>8. RunToCompletion
    <2>1. Total(Remaining, {}) = 0
      <3>1. \A r \in {} : Remaining[r] = 0
        OBVIOUS
      <3>. QED
        BY Zenon, <1>1, <1>2, <3>1, CountTypes, TotalZero
    <2>2. Total(Remaining, Running) = 0
      BY Zenon, <1>6, <2>1
    <2>. QED
      BY <1>5, <2>2, Limits DEF RunToCompletion, Free
  <1>. QED
    BY <1>1, <1>2, <1>3, <1>7, <1>8 DEF IInv, Init, AllocationSucceeds

(* A request joins the end of active_requests.                             *)
LEMMA FetchInv ==
  ASSUME CountingLaws, IInv, NEW r \in Requests, Fetch(r)
  PROVE  IInv'
  <1>. DEFINE old == Requests \ In({"new"})
              n == Cardinality(old) + 1
  <1>0. TypeOK /\ StateInv /\ OrderInv /\ PoolInv
    BY DEF IInv
  <1>1. /\ old \in SUBSET Requests /\ r \notin old /\ (Requests \ In({"new"}))' = old \cup {r}
        /\ Active \in SUBSET Requests /\ r \notin Active /\ Active' = Active \cup {r}
    BY <1>0 DEF Fetch, In, Active, TypeOK
  <1>2. /\ Cardinality(old) \in Nat /\ Cardinality(old \cup {r}) = n
        /\ Cardinality(Active) \in Nat /\ Cardinality(Active \cup {r}) = Cardinality(Active) + 1
    BY Zenon, <1>1, Sizes
  <1>3. n \in 1 .. Cardinality(Requests)
    <2>1. Cardinality(old \cup {r}) <= Cardinality(Requests)
      BY Zenon, <1>1, Sizes
    <2>. QED
      BY <1>2, <2>1, Sizes
  <1>4. /\ turn' = [turn EXCEPT ![r] = n] /\ turn[r] = 0
        /\ \A q \in Requests : turn[q] \in Nat /\ turn[q] < n
    <2>1. turn' = [turn EXCEPT ![r] = n] /\ turn[r] = 0
      BY <1>0 DEF Fetch, StateInv
    <2>2. \A q \in Requests : turn[q] \in Nat /\ turn[q] <= Cardinality(old)
      BY <1>0, Sizes DEF StateInv, TypeOK
    <2>3. \A t \in Nat : t <= Cardinality(old) => t < n
      BY <1>2
    <2>. QED
      BY Zenon, <2>1, <2>2, <2>3
  <1>5. /\ UNCHANGED <<policy, remote, prompt, cached, failed>> /\ state[r] = "new" /\ ~failed
        /\ state' = [state EXCEPT ![r] = state'[r]]
        /\ state'[r] \in {"GENERATION_INIT", "CONTEXT_INIT"}
        /\ state'[r] = "GENERATION_INIT" => r \in remote
    BY <1>0 DEF Fetch, TypeOK
  <1>. HIDE DEF n
  <1>6. TypeOK'
    <2>1. turn' \in [Requests -> 0 .. Cardinality(Requests)]
      BY <1>0, <1>3, <1>4, Sizes DEF TypeOK
    <2>2. \A p, q \in Requests : turn'[p] = turn'[q] => p = q \/ turn'[p] = 0
      BY <1>0, <1>3, <1>4 DEF TypeOK
    <2>. QED
      BY ZenonT(60), <1>0, <1>5, <2>1, <2>2 DEF TypeOK
  <1>7. Cardinality((Requests \ In({"new"}))') = n
    BY Zenon, <1>1, <1>2
  <1>8. StateInv'
    <2>1. ASSUME NEW q \in Requests
          PROVE  (turn'[q] = 0 <=> state'[q] = "new") /\ turn'[q] <= n
      BY <1>0, <1>3, <1>4, <1>5 DEF StateInv, TypeOK
    <2>. QED
      BY <1>0, <1>5, <1>7, <2>1 DEF StateInv, TypeOK
  <1>9. OrderInv'
    <2>1. ASSUME NEW p \in Requests, NEW q \in Requests, turn'[p] < turn'[q], q # r
          PROVE  p # r /\ turn[p] < turn[q]
      BY <1>0, <1>3, <1>4, <2>1 DEF TypeOK
    <2>. QED
      BY <1>0, <1>5, <2>1 DEF OrderInv, TypeOK
  <1>10. Held' = Held /\ Remaining' = Remaining /\ Running' = Running /\ Free' = Free
    BY <1>0, <1>5 DEF Held, Remaining, Running, GenerationInProgress, Free, TypeOK
  <1>11. PoolInv'
    <2>1. Cardinality(Active') = Cardinality(Active) + 1
      BY Zenon, <1>1, <1>2
    <2>. QED
      BY <1>0, <1>2, <1>10, <2>1, Limits DEF PoolInv, Fetch
  <1>12. RunToCompletion'
    BY <1>5, <1>10 DEF IInv, RunToCompletion
  <1>. QED
    BY <1>5, <1>6, <1>8, <1>9, <1>11, <1>12 DEF IInv, AllocationSucceeds

(* The prompt has arrived, or the request ends and frees its blocks.       *)
LEMMA TransferEndsInv ==
  ASSUME CountingLaws, IInv, NEW r \in Requests, TransferEnds(r)
  PROVE  IInv'
  <1>0. TypeOK /\ StateInv /\ OrderInv /\ PoolInv
    BY DEF IInv
  <1>1. /\ UNCHANGED <<policy, remote, turn, prompt, failed>> /\ ~failed
        /\ state[r] = "TRANS_IN_PROGRESS" /\ r \in remote
        /\ state' = [state EXCEPT ![r] = state'[r]]
        /\ \/ state'[r] = "TRANS_COMPLETE" /\ cached' = cached
           \/ state'[r] = "done" /\ cached' = [cached EXCEPT ![r] = 0]
    BY <1>0 DEF TransferEnds, TypeOK, StateInv
  <1>2. /\ \A q \in Requests : cached'[q] \in Nat /\ cached'[q] <= cached[q]
        /\ cached' \in [Requests -> Nat]
    BY <1>0, <1>1 DEF TypeOK
  <1>3. TypeOK'
    <2>1. \A q \in Requests : MaxSeqLen(q) \in Nat /\ cached[q] \in Nat
      BY <1>0, CapacityAssumption DEF TypeOK, MaxSeqLen
    <2>2. \A q \in Requests : cached'[q] < MaxSeqLen(q)
      BY <1>0, <1>2, <2>1 DEF TypeOK
    <2>. QED
      BY ZenonT(60), <1>0, <1>1, <1>2, <2>2 DEF TypeOK
  <1>4. (Requests \ In({"new"}))' = Requests \ In({"new"}) /\ Active' \in SUBSET Active
    BY <1>0, <1>1 DEF In, Active, TypeOK
  <1>5. StateInv'
    <2>1. Cardinality((Requests \ In({"new"}))') = Cardinality(Requests \ In({"new"}))
      BY Zenon, <1>4
    <2>. QED
      BY <1>0, <1>1, <2>1 DEF StateInv, TypeOK
  <1>6. OrderInv'
    BY <1>0, <1>1 DEF OrderInv, TypeOK
  <1>7. PoolInv'
    <2>1. Held' \in Counts /\ Held \in Counts
      <3>1. Held' = [q \in Requests |-> NumBlocks(cached'[q])]
        BY DEF Held
      <3>. QED
        BY Zenon, <1>0, <1>2, <3>1, Blocks, CountTypes DEF Counts
    <2>2. \A q \in Requests : Held'[q] <= Held[q]
      BY <1>0, <1>2, Blocks DEF Held, TypeOK
    <2>3. Total(Held', Requests) <= Total(Held, Requests)
      BY Zenon, <2>1, <2>2, TotalMono
    <2>4. Total(Held', Requests) \in Nat /\ Total(Held, Requests) \in Nat
      BY Zenon, <2>1, TotalNat
    <2>5. Active \in SUBSET Requests
      BY DEF Active
    <2>6. /\ Cardinality(Active') <= Cardinality(Active)
          /\ Cardinality(Active') \in Nat /\ Cardinality(Active) \in Nat
      BY <1>4, <2>5, Sizes
    <2>. QED
      BY <1>0, <2>3, <2>4, <2>6, Limits DEF PoolInv
  <1>8. RunToCompletion'
    BY <1>1 DEF RunToCompletion
  <1>. QED
    BY <1>1, <1>3, <1>5, <1>6, <1>7, <1>8 DEF IInv, AllocationSucceeds

\* What is needed in the end is what is held and what remains.
CountInv ==
    /\ Held \in Counts /\ Remaining \in Counts
    /\ \A r \in Requests : Full[r] = Held[r] + Remaining[r]

(* The counts of the state after a step.                                   *)
LEMMA CountTypesNext == TypeOK' /\ StateInv' => CountInv'
  <1>1. TypeOK /\ StateInv => CountInv
    BY CountTypes DEF CountInv
  <1>. QED
    BY <1>1, PTL

\* What the end of an iteration does to each request.
Moved(inits, paused, batch, ended) ==
    /\ ended \subseteq batch /\ batch \cap paused = {}
    /\ inits \subseteq In({"GENERATION_INIT"}) /\ paused \subseteq Running
    /\ batch \subseteq Running \cup In({"CONTEXT_INIT"})
    /\ \A r \in ended : state'[r] = "done" /\ cached'[r] = 0 /\ prompt'[r] = prompt[r]
    /\ \A r \in paused : state'[r] = "CONTEXT_INIT" /\ cached'[r] = 0
    /\ \A r \in inits : /\ state'[r] = "TRANS_IN_PROGRESS"
                        /\ cached'[r] = prompt[r] /\ prompt'[r] = prompt[r]
    /\ \A r \in batch \ ended :
          /\ state'[r] = "GENERATION_IN_PROGRESS" /\ prompt'[r] = prompt[r]
          /\ cached'[r] = IF GenerationInProgress(r) THEN cached[r] + 1 ELSE prompt[r]
          /\ cached'[r] + 1 < MaxSeqLen(r)
    /\ \A r \in Requests \ (inits \cup paused \cup batch) :
          state'[r] = state[r] /\ cached'[r] = cached[r] /\ prompt'[r] = prompt[r]

(* The end of an iteration, request by request; the last token of a        *)
(* sequence is not cached, and a paused prompt has the tokens generated.   *)
LEMMA AdvanceMoves ==
  ASSUME TypeOK, StateInv, UNCHANGED <<policy, remote, turn, failed>>,
         NEW inits \in SUBSET In({"GENERATION_INIT"}), NEW paused \in SUBSET Running,
         NEW batch \in SUBSET (Running \cup In({"CONTEXT_INIT"})), batch \cap paused = {},
         Advance(inits, paused, batch)
  PROVE  TypeOK' /\ \E ended \in SUBSET batch : Moved(inits, paused, batch, ended)
  <1>1. PICK ended \in SUBSET batch :
          /\ \A r \in batch : NumTokensAfter(r) >= MaxSeqLen(r) => r \in ended
          /\ cached' = Cached(inits, paused, batch, ended)
          /\ state' = [r \in Requests |->
                CASE r \in ended -> "done"
                  [] r \in inits -> "TRANS_IN_PROGRESS"
                  [] r \in paused -> "CONTEXT_INIT"
                  [] r \in batch \ ended -> "GENERATION_IN_PROGRESS"
                  [] OTHER -> state[r]]
          /\ prompt' = [r \in Requests |->
                IF r \in paused THEN Least(MaxInputLen, NumTokens(r)) ELSE prompt[r]]
    BY Zenon DEF Advance
  <1>2. /\ ended \subseteq Requests /\ inits \subseteq Requests /\ paused \subseteq Requests
        /\ batch \subseteq Requests /\ Running \subseteq Requests
        /\ inits \cap batch = {} /\ inits \cap paused = {}
    BY DEF In, Running, GenerationInProgress
  <1>3. ASSUME NEW r \in Requests
        PROVE  /\ MaxSeqLen(r) \in Nat /\ prompt[r] \in 1 .. MaxSeqLen(r) - 1
               /\ cached[r] \in Nat /\ cached[r] < MaxSeqLen(r)
    BY CapacityAssumption DEF TypeOK, MaxSeqLen
  <1>4. \A r \in batch \ ended :
          /\ state'[r] = "GENERATION_IN_PROGRESS" /\ prompt'[r] = prompt[r]
          /\ cached'[r] = IF GenerationInProgress(r) THEN cached[r] + 1 ELSE prompt[r]
    BY <1>1, <1>2 DEF Cached
  <1>5. \A r \in batch \ ended : cached'[r] \in Nat /\ cached'[r] + 1 < MaxSeqLen(r)
    <2>1. \A r \in batch \ ended : ~(NumTokensAfter(r) >= MaxSeqLen(r))
      BY <1>1
    <2>. QED
      BY <1>2, <1>3, <1>4, <2>1 DEF NumTokensAfter
  <1>6. Moved(inits, paused, batch, ended)
    <2>1. \A r \in ended : state'[r] = "done" /\ cached'[r] = 0 /\ prompt'[r] = prompt[r]
      BY <1>1, <1>2 DEF Cached
    <2>2. \A r \in paused : state'[r] = "CONTEXT_INIT" /\ cached'[r] = 0
      BY <1>1, <1>2 DEF Cached
    <2>3. \A r \in inits : /\ state'[r] = "TRANS_IN_PROGRESS"
                           /\ cached'[r] = prompt[r] /\ prompt'[r] = prompt[r]
      BY <1>1, <1>2 DEF Cached
    <2>4. \A r \in Requests \ (inits \cup paused \cup batch) :
            state'[r] = state[r] /\ cached'[r] = cached[r] /\ prompt'[r] = prompt[r]
      BY <1>1, <1>2 DEF Cached
    <2>. QED
      BY <1>4, <1>5, <2>1, <2>2, <2>3, <2>4 DEF Moved
  <1>7. \A r \in paused : prompt'[r] \in 1 .. MaxSeqLen(r) - 1
    <2>1. ASSUME NEW r \in paused PROVE NumTokens(r) \in 1 .. MaxSeqLen(r) - 1
      BY <1>2, <1>3 DEF NumTokens, StateInv
    <2>2. \A r \in paused : prompt'[r] = Least(MaxInputLen, NumTokens(r)) /\ MaxSeqLen(r) \in Nat
      BY <1>1, <1>2, <1>3
    <2>3. MaxInputLen \in Nat \ {0}
      BY CapacityAssumption
    <2>. QED
      BY <2>1, <2>2, <2>3 DEF Least
  <1>8. \A r \in Requests : /\ prompt'[r] \in 1 .. MaxSeqLen(r) - 1
                            /\ cached'[r] \in Nat /\ cached'[r] < MaxSeqLen(r)
    BY <1>3, <1>5, <1>6, <1>7 DEF Moved
  <1>9. prompt' \in [Requests -> Nat] /\ cached' \in [Requests -> Nat]
    <2>1. \A r \in Requests : prompt'[r] \in Nat /\ cached'[r] \in Nat
      BY <1>3, <1>8
    <2>2. prompt' = [r \in Requests |-> prompt'[r]]
      BY <1>1
    <2>3. cached' = [r \in Requests |-> cached'[r]]
      BY <1>1 DEF Cached
    <2>. QED
      BY Zenon, <2>1, <2>2, <2>3
  <1>10. state' \in [Requests -> {"new", "GENERATION_INIT", "TRANS_IN_PROGRESS", "TRANS_COMPLETE",
                                  "CONTEXT_INIT", "GENERATION_IN_PROGRESS", "done"}]
    BY <1>1 DEF TypeOK
  <1>11. TypeOK'
    BY <1>8, <1>9, <1>10 DEF TypeOK
  <1>. QED
    BY <1>6, <1>11

(* The states and places after an iteration.                               *)
LEMMA MovedState ==
  ASSUME TypeOK, StateInv, UNCHANGED <<policy, remote, turn>>,
         NEW inits \in SUBSET Requests, NEW paused \in SUBSET Requests,
         NEW batch \in SUBSET Requests, NEW ended \in SUBSET Requests,
         Moved(inits, paused, batch, ended)
  PROVE  StateInv'
  <1>. DEFINE Good(r) ==
         /\ state'[r] = "new" <=> state[r] = "new"
         /\ state'[r] \in {"new", "GENERATION_INIT", "CONTEXT_INIT", "done"} => cached'[r] = 0
         /\ state'[r] \in {"TRANS_IN_PROGRESS", "TRANS_COMPLETE"} => cached'[r] = prompt'[r]
         /\ state'[r] = "GENERATION_IN_PROGRESS" => cached'[r] + 1 < MaxSeqLen(r)
         /\ state'[r] \in {"GENERATION_INIT", "TRANS_IN_PROGRESS", "TRANS_COMPLETE"} => r \in remote
  <1>1. \A r \in ended : Good(r)
    <2>1. \A r \in ended : /\ state'[r] = "done" /\ cached'[r] = 0
                           /\ r \in Running \cup In({"CONTEXT_INIT"})
      BY Zenon DEF Moved
    <2>. QED
      BY <2>1 DEF In, Running, GenerationInProgress
  <1>2. \A r \in paused : Good(r)
    <2>1. \A r \in paused : state'[r] = "CONTEXT_INIT" /\ cached'[r] = 0 /\ r \in Running
      BY Zenon DEF Moved
    <2>. QED
      BY <2>1 DEF Running, GenerationInProgress
  <1>3. \A r \in inits : Good(r)
    <2>1. \A r \in inits : /\ state'[r] = "TRANS_IN_PROGRESS" /\ r \in In({"GENERATION_INIT"})
                           /\ cached'[r] = prompt[r] /\ prompt'[r] = prompt[r]
      BY Zenon DEF Moved
    <2>2. \A r \in inits : state[r] = "GENERATION_INIT" /\ r \in remote
      BY Zenon, <2>1 DEF In, StateInv
    <2>. QED
      BY <2>1, <2>2
  <1>4. \A r \in batch \ ended : Good(r)
    <2>1. \A r \in batch \ ended : /\ state'[r] = "GENERATION_IN_PROGRESS"
                                   /\ cached'[r] + 1 < MaxSeqLen(r)
                                   /\ r \in Running \cup In({"CONTEXT_INIT"})
      BY Zenon DEF Moved
    <2>. QED
      BY <2>1 DEF In, Running, GenerationInProgress
  <1>5. \A r \in Requests \ (inits \cup paused \cup batch) : Good(r)
    <2>1. \A r \in Requests \ (inits \cup paused \cup batch) :
            state'[r] = state[r] /\ cached'[r] = cached[r] /\ prompt'[r] = prompt[r]
      BY Zenon DEF Moved
    <2>. QED
      BY <2>1 DEF StateInv
  <1>6. \A r \in Requests : Good(r)
    BY Zenon, <1>1, <1>2, <1>3, <1>4, <1>5
  <1>7. In({"new"})' = In({"new"})
    BY <1>6 DEF In
  <1>8. Cardinality((Requests \ In({"new"}))') = Cardinality(Requests \ In({"new"}))
    BY Zenon, <1>7
  <1>. QED
    BY <1>6, <1>8 DEF StateInv

(* No request overtakes one without blocks.                                *)
LEMMA MovedOrder ==
  ASSUME TypeOK, OrderInv, UNCHANGED <<policy, remote, turn>>,
         NEW inits \in SUBSET Requests, NEW paused \in SUBSET Requests,
         NEW batch \in SUBSET Requests, NEW ended \in SUBSET Requests,
         Moved(inits, paused, batch, ended),
         policy = "MAX_UTILIZATION" =>
            \A r \in In({"GENERATION_INIT"}), q \in inits \cup batch :
               turn[r] < turn[q] => r \in inits
  PROVE  OrderInv'
  <1>. SUFFICES ASSUME policy = "MAX_UTILIZATION", NEW r \in Requests, NEW q \in Requests,
                       state'[r] = "GENERATION_INIT", turn[r] < turn[q]
                PROVE  state'[q] \in {"GENERATION_INIT", "CONTEXT_INIT"}
    BY Zenon DEF OrderInv
  <1>1. state[r] = "GENERATION_INIT" /\ r \notin inits
    BY DEF Moved
  <1>2. state[q] \in {"GENERATION_INIT", "CONTEXT_INIT"}
    BY <1>1 DEF OrderInv
  <1>3. q \notin inits \cup batch
    BY <1>1 DEF In
  <1>. QED
    BY <1>2, <1>3 DEF Moved

(* What requests hold after an iteration.                                  *)
LEMMA MovedHeld ==
  ASSUME TypeOK, Taken \in Counts, Held \in Counts,
         NEW inits \in SUBSET Requests, NEW paused \in SUBSET Requests,
         NEW batch \in SUBSET Requests, NEW ended \in SUBSET Requests,
         Moved(inits, paused, batch, ended)
  PROVE  /\ \A r \in paused : Held'[r] = 0
         /\ \A r \in inits \cup batch : Held'[r] <= Held[r] + Taken[r]
         /\ \A r \in Requests \ (paused \cup inits \cup batch) : Held'[r] <= Held[r]
  <1>0. ASSUME NEW r \in Requests
        PROVE  /\ Held'[r] = NumBlocks(cached'[r]) /\ Held[r] = NumBlocks(cached[r])
               /\ Held[r] \in Nat /\ Taken[r] \in Nat
    BY DEF Held, Counts
  <1>1. \A r \in paused \cup ended : Held'[r] = 0
    <2>1. \A r \in paused \cup ended : cached'[r] = 0
      BY Zenon DEF Moved
    <2>. QED
      BY <1>0, <2>1, NoBlocks
  <1>2. ASSUME NEW r \in inits PROVE Held'[r] = Taken[r]
    <2>1. cached'[r] = prompt[r] /\ state[r] = "GENERATION_INIT"
      BY Zenon DEF Moved, In
    <2>. QED
      BY <1>0, <2>1 DEF Taken, GenerationInProgress
  <1>3. ASSUME NEW r \in batch \ ended PROVE Held'[r] <= Held[r] + Taken[r]
    <2>0. cached[r] \in Nat /\ prompt[r] \in Nat
      BY DEF TypeOK
    <2>1. cached'[r] = IF GenerationInProgress(r) THEN cached[r] + 1 ELSE prompt[r]
      BY Zenon DEF Moved
    <2>2. Taken[r] = IF GenerationInProgress(r)
                     THEN IF cached[r] % TokensPerBlock = 0 THEN 1 ELSE 0
                     ELSE NumBlocks(prompt[r])
      BY Zenon DEF Taken
    <2>3. NumBlocks(cached[r] + 1)
            = NumBlocks(cached[r]) + (IF cached[r] % TokensPerBlock = 0 THEN 1 ELSE 0)
      BY <2>0, Blocks
    <2>. QED
      BY <1>0, <2>1, <2>2, <2>3
  <1>4. \A r \in Requests \ (paused \cup inits \cup batch) : cached'[r] = cached[r]
    BY Zenon DEF Moved
  <1>. QED
    BY <1>0, <1>1, <1>2, <1>3, <1>4

(* The blocks in use after an iteration that had room.                     *)
LEMMA MovedPool ==
  ASSUME CountingLaws, TypeOK, PoolInv, Taken \in Counts, Held \in Counts, Held' \in Counts,
         NEW inits \in SUBSET Requests, NEW paused \in SUBSET Requests,
         NEW batch \in SUBSET Requests, NEW ended \in SUBSET Requests,
         Moved(inits, paused, batch, ended),
         Total(Taken, inits) + Total(Taken, batch) <= Free + Total(Held, paused)
  PROVE  PoolInv'
  <1>1. /\ \A r \in paused : Held'[r] = 0
        /\ \A r \in inits \cup batch : Held'[r] <= Held[r] + Taken[r]
        /\ \A r \in Requests \ (paused \cup inits \cup batch) : Held'[r] <= Held[r]
    BY ZenonT(40), MovedHeld
  <1>2. /\ inits \subseteq In({"GENERATION_INIT"}) /\ paused \subseteq Running
        /\ batch \subseteq Running \cup In({"CONTEXT_INIT"}) /\ batch \cap paused = {}
    BY Zenon DEF Moved
  <1>3. inits \cap batch = {} /\ paused \cap (inits \cup batch) = {}
    BY <1>2 DEF In, Running, GenerationInProgress
  <1>4. Total(Held', Requests) + Total(Held, paused)
          <= Total(Held, Requests) + Total(Taken, inits) + Total(Taken, batch)
    BY <1>1, <1>3, TotalMoves
  <1>5. /\ Total(Held', Requests) \in Nat /\ Total(Held, paused) \in Nat
        /\ Total(Held, Requests) \in Nat /\ Total(Taken, inits) \in Nat
        /\ Total(Taken, batch) \in Nat
    BY TotalNat
  <1>6. Total(Held', Requests) <= TotalBlocks
    BY <1>4, <1>5, Limits DEF Free
  <1>7. Total(Held, Requests)' <= TotalBlocks
    BY Zenon, <1>6 DEF Total
  <1>8. Cardinality(Active') <= MaxNumRequests
    <2>1. \A r \in Requests : state[r] \in {"new", "done"} => state'[r] \in {"new", "done"}
      <3>1. \A r \in Requests \ (inits \cup paused \cup batch) : state'[r] = state[r]
        BY Zenon DEF Moved
      <3>. QED
        BY <1>2, <3>1 DEF In, Running, GenerationInProgress
    <2>2. Active' \subseteq Active /\ Active \in SUBSET Requests /\ Active' \in SUBSET Requests
      BY <2>1 DEF Active, In
    <2>3. Cardinality(Active') <= Cardinality(Active)
      BY Zenon, <2>2, Sizes
    <2>4. Cardinality(Active) \in Nat /\ Cardinality(Active') \in Nat
      BY Zenon, <2>2, Sizes
    <2>. QED
      BY <2>3, <2>4, Limits DEF PoolInv
  <1>. QED
    BY <1>7, <1>8 DEF PoolInv

(* Outside the running requests nothing is held, without generation-only   *)
(* requests.                                                               *)
LEMMA OnlyRunningHold ==
  TypeOK /\ StateInv /\ remote = {} => \A r \in Requests \ Running : Held[r] = 0
  <1>. SUFFICES ASSUME TypeOK, StateInv, remote = {}, NEW r \in Requests \ Running
                PROVE  Held[r] = 0
    OBVIOUS
  <1>1. cached[r] = 0
    BY DEF StateInv, Running, GenerationInProgress, TypeOK
  <1>. QED
    BY <1>1, NoBlocks DEF Held

(* The same after a step.                                                  *)
LEMMA OnlyRunningHoldNext ==
  TypeOK' /\ StateInv' /\ (remote = {})' => (\A r \in Requests \ Running : Held[r] = 0)'
  BY OnlyRunningHold, PTL

(* The reservation of the no-evict policies after an iteration: the blocks *)
(* that requests of the batch took were reserved for them.                 *)
LEMMA MovedReserve ==
  ASSUME CountingLaws, TypeOK, StateInv, TypeOK', StateInv', remote' = remote, CountInv, CountInv',
         Full \in Counts, remote = {},
         NEW inits \in SUBSET Requests, NEW batch \in SUBSET Requests, NEW ended \in SUBSET Requests,
         Moved(inits, {}, batch, ended),
         NEW S \in SUBSET Requests, Running \cup batch \subseteq S, Total(Remaining, S) <= Free
  PROVE  (Total(Remaining, Running) <= Free)'
  <1>1. /\ Held \in Counts /\ Remaining \in Counts /\ Held' \in Counts /\ Remaining' \in Counts
        /\ \A r \in Requests : Full[r] = Held[r] + Remaining[r]
        /\ \A r \in Requests : Full[r] = Held'[r] + Remaining'[r]
    <2>1. Counts' = Counts /\ Full' = Full
      BY Zenon DEF Counts, Full, MaxSeqLen, NumBlocks
    <2>. QED
      BY Zenon, <2>1 DEF CountInv
  <1>2. \A r \in Requests \ S : Held[r] = 0
    <2>1. \A r \in Requests \ Running : Held[r] = 0
      BY OnlyRunningHold
    <2>. QED
      BY Zenon, <2>1
  <1>3. \A r \in Requests \ Running' : Held'[r] = 0
    BY OnlyRunningHoldNext
  <1>4. Running' \in SUBSET S
    <2>1. \A r \in inits : state'[r] = "TRANS_IN_PROGRESS"
      BY Zenon DEF Moved
    <2>2. \A r \in Requests \ (inits \cup batch) : state'[r] = state[r]
      BY DEF Moved
    <2>. QED
      BY <2>1, <2>2 DEF Running, GenerationInProgress
  <1>5. Total(Remaining', Running') + Total(Held', Requests)
          <= Total(Remaining, S) + Total(Held, Requests)
    BY Zenon, <1>1, <1>2, <1>3, <1>4, ReserveKept
  <1>6. /\ Total(Remaining', Running') \in Nat /\ Total(Held', Requests) \in Nat
        /\ Total(Remaining, S) \in Nat /\ Total(Held, Requests) \in Nat
    BY Zenon, <1>1, <1>4, TotalNat
  <1>7. Total(Remaining', Running') <= TotalBlocks - Total(Held', Requests)
    BY <1>5, <1>6, Limits DEF Free
  <1>. QED
    BY Zenon, <1>7 DEF Total, Free

(* The end of an iteration: what the requests of the batch and the new     *)
(* generation-only ones take is free or freed by the paused ones.          *)
LEMMA AdvanceInv ==
  ASSUME CountingLaws, IInv, ~failed, UNCHANGED <<policy, remote, turn, failed>>,
         NEW inits \in SUBSET In({"GENERATION_INIT"}), NEW paused \in SUBSET Running,
         NEW batch \in SUBSET (Running \cup In({"CONTEXT_INIT"})), batch \cap paused = {},
         Total(Taken, inits) + Total(Taken, batch) <= Free + Total(Held, paused),
         policy \in NoEvictPolicies /\ remote = {} =>
            /\ paused = {}
            /\ \E S \in SUBSET Requests :
                  Running \cup batch \subseteq S /\ Total(Remaining, S) <= Free,
         policy = "MAX_UTILIZATION" =>
            \A r \in In({"GENERATION_INIT"}), q \in inits \cup batch :
               turn[r] < turn[q] => r \in inits,
         Advance(inits, paused, batch)
  PROVE  IInv'
  <1>0. TypeOK /\ StateInv /\ OrderInv /\ PoolInv
    BY DEF IInv
  <1>1. TypeOK' /\ \E ended \in SUBSET batch : Moved(inits, paused, batch, ended)
    BY Zenon, <1>0, AdvanceMoves
  <1>2. PICK ended \in SUBSET batch : Moved(inits, paused, batch, ended)
    BY <1>1
  <1>3. /\ inits \in SUBSET Requests /\ paused \in SUBSET Requests
        /\ batch \in SUBSET Requests /\ ended \in SUBSET Requests
    BY DEF In, Running
  <1>4. StateInv'
    BY Zenon, <1>0, <1>2, <1>3, MovedState
  <1>5. OrderInv'
    BY Zenon, <1>0, <1>2, <1>3, MovedOrder
  <1>6. CountInv /\ CountInv' /\ Taken \in Counts /\ Full \in Counts
    BY <1>0, <1>1, <1>4, CountTypes, CountTypesNext DEF CountInv
  <1>7. PoolInv'
    <2>1. Held \in Counts /\ Held' \in Counts
      BY <1>6 DEF CountInv, Counts
    <2>. QED
      BY Zenon, <1>0, <1>2, <1>3, <1>6, <2>1, MovedPool
  <1>8. AllocationSucceeds'
    BY Zenon DEF AllocationSucceeds
  <1>9. RunToCompletion'
    <2>. SUFFICES ASSUME policy \in NoEvictPolicies, remote = {}
                  PROVE  (Total(Remaining, Running) <= Free)'
      BY DEF RunToCompletion
    <2>1. PICK S \in SUBSET Requests : Running \cup batch \subseteq S /\ Total(Remaining, S) <= Free
      OBVIOUS
    <2>2. Moved(inits, {}, batch, ended)
      BY Zenon, <1>2
    <2>. QED
      BY Zenon, <1>0, <1>1, <1>3, <1>4, <1>6, <2>1, <2>2, MovedReserve
  <1>. QED
    BY Zenon, <1>1, <1>4, <1>5, <1>7, <1>8, <1>9 DEF IInv

(* What the capacity scheduler promises, whatever the policy.              *)
LEMMA ScheduleFits ==
  ASSUME CountingLaws, IInv, NEW plan, plan = Schedule, NEW inits, inits = plan.scheduled \cap In({"GENERATION_INIT"})
  PROVE  /\ plan.scheduled \in SUBSET Schedulable /\ plan.paused \in SUBSET Running
         /\ \A q \in plan.scheduled, r \in plan.paused : turn[q] < turn[r]
         /\ policy = "MAX_UTILIZATION" =>
              \A q \in plan.scheduled, r \in Schedulable :
                 turn[r] < turn[q] => r \in plan.scheduled
         /\ policy \in NoEvictPolicies /\ remote = {} =>
              /\ plan.paused = {} /\ Running \subseteq plan.scheduled
              /\ Total(Remaining, plan.scheduled) <= Free
         /\ Guaranteed =>
              /\ Total(Taken, plan.scheduled) <= Free + Total(Held, plan.paused)
              /\ inits # {} => plan.paused = {}
  <1>0. /\ TypeOK /\ StateInv /\ PoolInv /\ OrderInv /\ RunToCompletion
        /\ Schedulable \in SUBSET Requests /\ Running \in SUBSET Requests
    BY DEF IInv, Schedulable, Running, In
  <1>1. policy \in NoEvictPolicies \cup {"MAX_UTILIZATION"}
    BY <1>0, CapacityAssumption DEF TypeOK
  <1>2. Free \in Nat /\ Taken \in Counts /\ Needed \in Counts /\ Remaining \in Counts /\ Held \in Counts
    BY <1>0, FreeType, CountTypes
  <1>3. CASE policy = "MAX_UTILIZATION"
    <2>0. plan = MaxUtilization /\ policy \notin NoEvictPolicies
      BY <1>3 DEF Schedule, NoEvictPolicies
    <2>1. /\ plan.scheduled \in SUBSET Schedulable /\ plan.paused \in SUBSET Running
          /\ Total(Needed, plan.scheduled) <= Free + Total(Held, plan.paused)
          /\ \A q \in plan.scheduled, r \in plan.paused : turn[q] < turn[r]
          /\ \A q \in plan.scheduled, r \in Schedulable :
                turn[r] < turn[q] => r \in plan.scheduled
      BY Zenon, <1>0, <2>0, MaxUtilizationFits
    <2>2. Total(Taken, plan.scheduled) <= Free + Total(Held, plan.paused)
      <3>1. plan.scheduled \in SUBSET Requests /\ plan.paused \in SUBSET Requests
        BY Zenon, <1>0, <2>1
      <3>2. \A r \in plan.scheduled : Taken[r] <= Needed[r]
        BY <1>0, <1>2, <3>1, CountTypes DEF Counts
      <3>3. Total(Taken, plan.scheduled) <= Total(Needed, plan.scheduled)
        BY Zenon, <1>2, <3>1, <3>2, TotalMono
      <3>4. /\ Total(Taken, plan.scheduled) \in Nat /\ Total(Needed, plan.scheduled) \in Nat
            /\ Total(Held, plan.paused) \in Nat
        BY Zenon, <1>2, <3>1, TotalNat
      <3>. QED
        BY <1>2, <2>1, <3>3, <3>4
    <2>3. ASSUME NEW q \in inits, NEW r \in plan.paused PROVE FALSE
      <3>1. turn[q] < turn[r] /\ q \in Requests /\ r \in Requests /\ state[q] = "GENERATION_INIT"
        BY <1>0, <2>1 DEF In
      <3>2. state[r] \in {"GENERATION_INIT", "CONTEXT_INIT"}
        BY <1>0, <1>3, <3>1 DEF OrderInv
      <3>. QED
        BY <2>1, <3>2 DEF Running, GenerationInProgress
    <2>. QED
      BY <2>0, <2>1, <2>2, <2>3
  <1>4. CASE policy \in NoEvictPolicies
    <2>0. plan = NoEvict /\ policy # "MAX_UTILIZATION"
      BY <1>4 DEF Schedule, NoEvictPolicies
    <2>1. plan.scheduled \in SUBSET Schedulable /\ plan.paused = {}
      BY Zenon, <1>0, <2>0, NoEvictFits
    <2>2. ASSUME remote = {}
          PROVE  Running \subseteq plan.scheduled /\ Total(Remaining, plan.scheduled) <= Free
      <3>1. Total(Remaining, Running) <= Free
        BY Zenon, <1>0, <1>4, <2>2 DEF RunToCompletion
      <3>. QED
        BY Zenon, <1>0, <2>0, <2>2, <3>1, NoEvictFits
    <2>3. ASSUME remote = {}
          PROVE  Total(Taken, plan.scheduled) <= Free + Total(Held, plan.paused)
      <3>1. plan.scheduled \in SUBSET Requests /\ plan.paused \in SUBSET Requests
        BY <1>0, <2>1
      <3>2. \A r \in plan.scheduled : Taken[r] <= Remaining[r]
        BY <1>0, <2>1, CountTypes
      <3>3. Total(Taken, plan.scheduled) <= Total(Remaining, plan.scheduled)
        BY Zenon, <1>2, <3>1, <3>2, TotalMono
      <3>4. /\ Total(Taken, plan.scheduled) \in Nat /\ Total(Remaining, plan.scheduled) \in Nat
            /\ Total(Held, plan.paused) \in Nat
        BY Zenon, <1>2, <3>1, TotalNat
      <3>. QED
        BY <1>2, <2>2, <2>3, <3>3, <3>4
    <2>. QED
      BY <2>0, <2>1, <2>2, <2>3 DEF Guaranteed
  <1>. QED
    BY <1>1, <1>3, <1>4

(* An iteration finds the blocks it needs, and keeps the invariant.        *)
LEMMA IterateInv == CountingLaws /\ IInv /\ Iterate => IInv'
  <1>. SUFFICES ASSUME CountingLaws, IInv, Iterate PROVE IInv'
    OBVIOUS
  <1>1. PICK plan \in {Schedule} :
          LET inits == plan.scheduled \cap In({"GENERATION_INIT"})
              spare == Free - Total(Taken, inits)
          IN  \E batch \in {MicroBatch(plan.scheduled \ inits)} :
                IF spare < 0 \/ Total(Taken, batch) > spare + Total(Held, plan.paused)
                THEN failed' = TRUE /\ UNCHANGED <<state, prompt, cached>>
                ELSE Advance(inits, plan.paused, batch) /\ UNCHANGED failed
    BY Zenon DEF Iterate
  <1>. DEFINE inits == plan.scheduled \cap In({"GENERATION_INIT"})
              batch == MicroBatch(plan.scheduled \ inits)
              spare == Free - Total(Taken, inits)
  <1>2. IF spare < 0 \/ Total(Taken, batch) > spare + Total(Held, plan.paused)
        THEN failed' = TRUE /\ UNCHANGED <<state, prompt, cached>>
        ELSE Advance(inits, plan.paused, batch) /\ UNCHANGED failed
    BY Zenon, <1>1
  <1>3. /\ plan.scheduled \in SUBSET Schedulable /\ plan.paused \in SUBSET Running
        /\ \A q \in plan.scheduled, r \in plan.paused : turn[q] < turn[r]
        /\ policy = "MAX_UTILIZATION" =>
             \A q \in plan.scheduled, r \in Schedulable :
                turn[r] < turn[q] => r \in plan.scheduled
        /\ policy \in NoEvictPolicies /\ remote = {} =>
             /\ plan.paused = {} /\ Running \subseteq plan.scheduled
             /\ Total(Remaining, plan.scheduled) <= Free
        /\ Guaranteed =>
             /\ Total(Taken, plan.scheduled) <= Free + Total(Held, plan.paused)
             /\ inits # {} => plan.paused = {}
    BY Zenon, <1>1, ScheduleFits
  <1>4. batch \in SUBSET (plan.scheduled \ inits)
    BY Zenon DEF MicroBatch
  <1>. HIDE DEF batch, inits
  <1>5. inits \in SUBSET In({"GENERATION_INIT"}) /\ inits \in SUBSET plan.scheduled
    BY DEF inits
  <1>6. batch \in SUBSET (Running \cup In({"CONTEXT_INIT"}))
    BY <1>3, <1>4 DEF inits, Schedulable, In
  <1>7. ~failed /\ UNCHANGED <<policy, remote, turn>>
    BY DEF Iterate
  <1>8. TypeOK /\ StateInv /\ PoolInv
    BY DEF IInv
  <1>9. /\ plan.scheduled \in SUBSET Requests /\ plan.paused \in SUBSET Requests
        /\ inits \in SUBSET Requests /\ batch \in SUBSET Requests
    BY <1>3, <1>5, <1>6 DEF Schedulable, Running, In
  <1>10. /\ Free \in Nat /\ Taken \in Counts /\ Held \in Counts
         /\ Total(Taken, inits) \in Nat /\ Total(Taken, batch) \in Nat
         /\ Total(Held, plan.paused) \in Nat /\ Total(Taken, plan.scheduled) \in Nat
    <2>1. Free \in Nat /\ Taken \in Counts /\ Held \in Counts
      BY <1>8, FreeType, CountTypes
    <2>. QED
      BY Zenon, <1>9, <2>1, TotalNat
  <1>11. CASE spare < 0 \/ Total(Taken, batch) > spare + Total(Held, plan.paused)
    <2>1. failed' = TRUE /\ UNCHANGED <<state, prompt, cached>>
      BY Zenon, <1>2, <1>11
    <2>2. ~Guaranteed
      <3>. SUFFICES ASSUME Guaranteed PROVE FALSE
        OBVIOUS
      <3>1. Total(Taken, inits) + Total(Taken, batch) <= Free + Total(Held, plan.paused)
        <4>1. Total(Taken, inits \cup batch) = Total(Taken, inits) + Total(Taken, batch)
          BY <1>4, <1>9, <1>10, TotalUnion
        <4>2. \A r \in inits \cup batch : Taken[r] <= Taken[r]
          BY <1>9, <1>10 DEF Counts
        <4>3. inits \cup batch \in SUBSET Requests /\ inits \cup batch \subseteq plan.scheduled
          BY <1>4, <1>5, <1>9
        <4>4. Total(Taken, inits \cup batch) <= Total(Taken, plan.scheduled)
          BY Zenon, <1>9, <1>10, <4>2, <4>3, TotalMono
        <4>. QED
          BY <1>3, <1>10, <4>1, <4>4
      <3>2. Total(Taken, inits) <= Free
        <4>1. CASE inits = {}
          <5>1. Total(Taken, {}) = 0
            BY <1>10, TotalZero
          <5>2. Total(Taken, inits) = 0
            BY Zenon, <4>1, <5>1
          <5>. QED
            BY <1>10, <5>2
        <4>2. CASE inits # {}
          <5>1. plan.paused = {}
            BY <1>3, <4>2
          <5>2. Total(Held, {}) = 0
            BY <1>10, TotalZero
          <5>3. Total(Held, plan.paused) = 0
            BY Zenon, <5>1, <5>2
          <5>. QED
            BY <1>10, <3>1, <5>3
        <4>. QED
          BY <4>1, <4>2
      <3>. QED
        BY <1>10, <1>11, <3>1, <3>2
    <2>3. TypeOK'
      BY <1>7, <1>8, <2>1 DEF TypeOK
    <2>4. In({"new"})' = In({"new"}) /\ Active' = Active /\ Held' = Held
      BY <2>1 DEF In, Active, Held
    <2>5. StateInv'
      BY <1>7, <1>8, <2>1, <2>4 DEF StateInv
    <2>6. OrderInv' /\ RunToCompletion'
      BY <1>7, <2>1 DEF IInv, OrderInv, RunToCompletion, Total, Remaining, Running,
                        GenerationInProgress, Free, Held
    <2>7. PoolInv'
      BY Zenon, <1>8, <2>4 DEF PoolInv, Total
    <2>8. AllocationSucceeds'
      BY <1>7, <2>2 DEF AllocationSucceeds, Guaranteed
    <2>. QED
      BY <2>3, <2>5, <2>6, <2>7, <2>8 DEF IInv
  <1>12. CASE ~(spare < 0 \/ Total(Taken, batch) > spare + Total(Held, plan.paused))
    <2>1. Advance(inits, plan.paused, batch) /\ UNCHANGED failed
      BY Zenon, <1>2, <1>12
    <2>2. Total(Taken, inits) + Total(Taken, batch) <= Free + Total(Held, plan.paused)
      BY <1>10, <1>12
    <2>3. batch \cap plan.paused = {}
      BY <1>3, <1>4, <1>8, <1>9 DEF TypeOK
    <2>4. policy \in NoEvictPolicies /\ remote = {} =>
            /\ plan.paused = {}
            /\ \E S \in SUBSET Requests :
                  Running \cup batch \subseteq S /\ Total(Remaining, S) <= Free
      BY <1>3, <1>4, <1>9
    <2>5. policy = "MAX_UTILIZATION" =>
            \A r \in In({"GENERATION_INIT"}), q \in inits \cup batch :
               turn[r] < turn[q] => r \in inits
      BY <1>3, <1>4, <1>5 DEF inits, Schedulable, In
    <2>. QED
      BY Zenon, <1>3, <1>5, <1>6, <1>7, <2>1, <2>2, <2>3, <2>4, <2>5, AdvanceInv
  <1>. QED
    BY <1>11, <1>12

(* A step that changes nothing.                                            *)
LEMMA StutterInv == IInv /\ UNCHANGED vars => IInv'
  <1>. SUFFICES ASSUME IInv, UNCHANGED vars PROVE IInv'
    OBVIOUS
  <1>1. TypeOK' /\ OrderInv' /\ AllocationSucceeds'
    BY DEF vars, IInv, TypeOK, OrderInv, AllocationSucceeds, Guaranteed
  <1>2. In({"new"})' = In({"new"}) /\ Active' = Active /\ Held' = Held
    BY DEF vars, In, Active, Held
  <1>3. StateInv'
    BY <1>2 DEF vars, IInv, StateInv
  <1>4. PoolInv'
    BY Zenon, <1>2 DEF IInv, PoolInv, Total
  <1>5. RunToCompletion'
    BY DEF vars, IInv, RunToCompletion, Total, Remaining, Running, GenerationInProgress, Free, Held
  <1>. QED
    BY <1>1, <1>3, <1>4, <1>5 DEF IInv

(* The invariant is inductive.                                             *)
LEMMA NextInv == CountingLaws /\ IInv /\ [Next]_vars => IInv'
  BY FetchInv, TransferEndsInv, IterateInv, StutterInv DEF Next

(* What gets tokens in the step that pauses a request was there before it. *)
LEMMA PauseOrder ==
  ASSUME CountingLaws, IInv, Next, NEW r \in Requests, NEW q \in Requests,
         GenerationInProgress(r), state'[r] = "CONTEXT_INIT", cached'[q] > cached[q]
  PROVE  turn[q] < turn[r]
  <1>0. TypeOK
    BY DEF IInv
  <1>1. CASE \E p \in Requests : Fetch(p) \/ TransferEnds(p)
    BY <1>0, <1>1 DEF Fetch, TransferEnds, GenerationInProgress, TypeOK
  <1>2. CASE Iterate
    <2>1. PICK plan \in {Schedule} :
            LET inits == plan.scheduled \cap In({"GENERATION_INIT"})
                spare == Free - Total(Taken, inits)
            IN  \E batch \in {MicroBatch(plan.scheduled \ inits)} :
                  IF spare < 0 \/ Total(Taken, batch) > spare + Total(Held, plan.paused)
                  THEN failed' = TRUE /\ UNCHANGED <<state, prompt, cached>>
                  ELSE Advance(inits, plan.paused, batch) /\ UNCHANGED failed
      BY Zenon, <1>2 DEF Iterate
    <2>. DEFINE inits == plan.scheduled \cap In({"GENERATION_INIT"})
                batch == MicroBatch(plan.scheduled \ inits)
    <2>2. \/ UNCHANGED <<state, prompt, cached>>
          \/ Advance(inits, plan.paused, batch)
      BY Zenon, <2>1
    <2>3. /\ \A x \in plan.scheduled, y \in plan.paused : turn[x] < turn[y]
          /\ plan.paused \in SUBSET Running
      BY Zenon, <2>1, ScheduleFits
    <2>4. batch \in SUBSET plan.scheduled /\ inits \in SUBSET plan.scheduled
      BY DEF MicroBatch
    <2>. HIDE DEF batch, inits
    <2>5. state'[r] # state[r] /\ cached[q] \in Nat
      BY <1>0 DEF GenerationInProgress, TypeOK
    <2>6. Advance(inits, plan.paused, batch)
      BY <2>2, <2>5
    <2>7. PICK ended \in SUBSET batch :
            /\ cached' = Cached(inits, plan.paused, batch, ended)
            /\ state' = [p \in Requests |->
                  CASE p \in ended -> "done"
                    [] p \in inits -> "TRANS_IN_PROGRESS"
                    [] p \in plan.paused -> "CONTEXT_INIT"
                    [] p \in batch \ ended -> "GENERATION_IN_PROGRESS"
                    [] OTHER -> state[p]]
      BY Zenon, <2>6 DEF Advance
    <2>8. r \in plan.paused
      BY <2>5, <2>7
    <2>9. q \in inits \cup batch
      BY <2>5, <2>7 DEF Cached
    <2>. QED
      BY <2>3, <2>4, <2>8, <2>9
  <1>. QED
    BY <1>1, <1>2 DEF Next

-----------------------------------------------------------------------------
(* The laws of sums and sizes, from the library's facts on finite sets.    *)
LOCAL INSTANCE FiniteSetTheorems

(* Finite and Size in terms of the library.                                *)
LEMMA LibrarySizes ==
  (\A S : IsFiniteSet(S) <=> Finite(S)) /\ (\A S : Cardinality(S) = Size(S))
  <1>1. \A S : IsFiniteSet(S) <=> Finite(S)
    BY Zenon DEF IsFiniteSet, Finite
  <1>2. \A S : Cardinality(S) = Size(S)
    BY Zenon DEF Cardinality, Size
  <1>. QED
    BY Zenon, <1>1, <1>2

(* The elements of the disjoint union.                                     *)
LEMMA InUnits ==
  ASSUME NEW f \in Counts, NEW S \in SUBSET Requests
  PROVE  \A u : u \in Units(f, S) <=> \E r \in S : \E b \in 1 .. f[r] : u = <<r, b>>
  BY DEF Units, Counts

(* A total is a natural number.                                           *)
LEMMA UnitsFinite ==
  ASSUME NEW f \in Counts, NEW S \in SUBSET Requests
  PROVE  IsFiniteSet(Units(f, S)) /\ Total(f, S) \in Nat /\ Total(f, S) = Cardinality(Units(f, S))
  <1>. DEFINE blocks == {{r} \X (1 .. f[r]) : r \in S}
              g == [r \in S |-> {r} \X (1 .. f[r])]
  <1>1. IsFiniteSet(S)
    BY Zenon, SizesSpelledOut, LibrarySizes, FS_Subset
  <1>2. g \in Surjection(S, blocks)
    BY Zenon DEF Surjection
  <1>3. IsFiniteSet(blocks)
    BY Zenon, <1>1, <1>2, FS_Surjection
  <1>4. ASSUME NEW r \in S PROVE IsFiniteSet({r} \X (1 .. f[r]))
    <2>1. 1 \in Int /\ f[r] \in Int
      BY DEF Counts
    <2>2. IsFiniteSet({r}) /\ IsFiniteSet(1 .. f[r])
      BY Zenon, <2>1, FS_Singleton, FS_Interval
    <2>. QED
      BY Zenon, <2>2, FS_Product
  <1>5. IsFiniteSet(UNION blocks)
    <2>1. \A T \in blocks : IsFiniteSet(T)
      BY <1>4
    <2>. QED
      BY Zenon, <1>3, <2>1, FS_UNION
  <1>6. IsFiniteSet(Units(f, S)) /\ Cardinality(Units(f, S)) \in Nat
    BY Zenon, <1>5, FS_CardinalityType DEF Units
  <1>. QED
    BY Zenon, <1>6, SizesSpelledOut, LibrarySizes

(* A total of smaller numbers over fewer requests is smaller.              *)
LEMMA UnitsMono ==
  ASSUME NEW f \in Counts, NEW g \in Counts, NEW S \in SUBSET Requests, NEW T \in SUBSET Requests,
         S \subseteq T, \A r \in S : f[r] <= g[r]
  PROVE  Total(f, S) <= Total(g, T)
  <1>1. Units(f, S) \subseteq Units(g, T)
    BY InUnits DEF Counts
  <1>. QED
    BY <1>1, UnitsFinite, FS_Subset

(* The total over two disjoint sets.                                       *)
LEMMA UnitsUnion ==
  ASSUME NEW f \in Counts, NEW S \in SUBSET Requests, NEW T \in SUBSET Requests, S \cap T = {}
  PROVE  Total(f, S \cup T) = Total(f, S) + Total(f, T)
  <1>0. /\ IsFiniteSet(Units(f, S)) /\ IsFiniteSet(Units(f, T))
        /\ Total(f, S) \in Nat /\ Total(f, S) = Cardinality(Units(f, S))
        /\ Total(f, T) \in Nat /\ Total(f, T) = Cardinality(Units(f, T))
        /\ Total(f, S \cup T) = Cardinality(Units(f, S \cup T))
    BY UnitsFinite
  <1>1. Units(f, S \cup T) = Units(f, S) \cup Units(f, T)
    BY Zenon DEF Units
  <1>2. ASSUME NEW u \in Units(f, S), u \in Units(f, T) PROVE FALSE
    <2>1. PICK r \in S : \E b \in 1 .. f[r] : u = <<r, b>>
      BY InUnits
    <2>2. PICK q \in T : \E b \in 1 .. f[q] : u = <<q, b>>
      BY <1>2, InUnits
    <2>. QED
      BY <2>1, <2>2
  <1>3. Units(f, S) \cap Units(f, T) = {}
    BY <1>2
  <1>4. Cardinality(Units(f, S) \cap Units(f, T)) = 0
    BY Zenon, <1>3, FS_EmptySet
  <1>5. Cardinality(Units(f, S \cup T))
          = Cardinality(Units(f, S)) + Cardinality(Units(f, T))
            - Cardinality(Units(f, S) \cap Units(f, T))
    BY ZenonT(40), <1>0, <1>1, FS_Union
  <1>. QED
    BY <1>0, <1>4, <1>5

(* The total of sums is the sum of the totals.                             *)
LEMMA UnitsPlus ==
  ASSUME NEW f \in Counts, NEW g \in Counts, NEW h \in Counts, NEW S \in SUBSET Requests,
         \A r \in S : h[r] = f[r] + g[r]
  PROVE  Total(h, S) = Total(f, S) + Total(g, S)
  <1>. DEFINE rest == {u \in Units(h, S) : u[2] > f[u[1]]}
              shift == [u \in Units(g, S) |-> <<u[1], f[u[1]] + u[2]>>]
  <1>0. /\ IsFiniteSet(Units(f, S)) /\ IsFiniteSet(Units(g, S))
        /\ Total(f, S) \in Nat /\ Total(f, S) = Cardinality(Units(f, S))
        /\ Total(g, S) \in Nat /\ Total(g, S) = Cardinality(Units(g, S))
        /\ Total(h, S) = Cardinality(Units(h, S))
    BY UnitsFinite
  <1>1. Units(h, S) = Units(f, S) \cup rest
    BY InUnits DEF Counts
  <1>2. Units(f, S) \cap rest = {}
    BY InUnits DEF Counts
  <1>3. shift \in Bijection(Units(g, S), rest)
    <2>1. shift \in [Units(g, S) -> rest]
      BY InUnits DEF Counts
    <2>2. shift \in Injection(Units(g, S), rest)
      <3>1. ASSUME NEW u \in Units(g, S), NEW v \in Units(g, S), shift[u] = shift[v]
            PROVE  u = v
        <4>1. PICK r \in S, b \in Nat : u = <<r, b>>
          BY InUnits
        <4>2. PICK q \in S, c \in Nat : v = <<q, c>>
          BY InUnits
        <4>. QED
          BY <3>1, <4>1, <4>2 DEF Counts
      <3>. QED
        BY Zenon, <2>1, <3>1 DEF Injection, IsInjective
    <2>3. ASSUME NEW u \in rest PROVE \E v \in Units(g, S) : shift[v] = u
      <3>1. PICK r \in S, b \in Nat : b \in 1 .. h[r] /\ u = <<r, b>>
        BY InUnits
      <3>2. <<r, b - f[r]>> \in Units(g, S)
        BY <3>1, InUnits DEF Counts
      <3>. QED
        BY <3>1, <3>2 DEF Counts
    <2>. QED
      BY Zenon, <2>1, <2>2, <2>3 DEF Bijection, Surjection
  <1>4. IsFiniteSet(rest) /\ Cardinality(rest) = Total(g, S)
    BY Zenon, <1>0, <1>3, FS_Bijection DEF ExistsBijection
  <1>5. Cardinality(Units(f, S) \cap rest) = 0
    BY Zenon, <1>2, FS_EmptySet
  <1>6. Cardinality(Units(h, S))
          = Cardinality(Units(f, S)) + Cardinality(rest) - Cardinality(Units(f, S) \cap rest)
    BY Zenon, <1>0, <1>1, <1>4, FS_Union
  <1>. QED
    BY <1>0, <1>4, <1>5, <1>6

(* A sum of zeros.                                                         *)
LEMMA UnitsZero ==
  ASSUME NEW f \in Counts, NEW S \in SUBSET Requests, \A r \in S : f[r] = 0
  PROVE  Total(f, S) = 0
  <1>1. Units(f, S) = {}
    BY InUnits
  <1>2. Total(f, S) = Cardinality(Units(f, S))
    BY UnitsFinite
  <1>. QED
    BY Zenon, <1>1, <1>2, FS_EmptySet

(* A set of bounded numbers has a greatest one, by well-foundedness.       *)
LEMMA Greatest ==
  ASSUME NEW N \in Nat, NEW K \in SUBSET (0 .. N), K # {}
  PROVE  \E m \in K : \A n \in K : n <= m
  <1>. DEFINE T == {N - n : n \in K}
  <1>0. \A n \in K : n \in 0 .. N /\ N - n \in Nat
    OBVIOUS
  <1>1. T \subseteq Nat /\ T # {}
    BY Zenon, <1>0
  <1>2. PICK x \in T : \A y \in T : ~(<<y, x>> \in OpToRel(<, Nat))
    BY Zenon, <1>1, WFMin, NatLessThanWellFounded
  <1>3. ASSUME NEW y \in T PROVE x <= y
    <2>0. x \in Nat /\ y \in Nat
      BY <1>1
    <2>1. y < x => <<y, x>> \in OpToRel(<, Nat)
      BY <2>0 DEF OpToRel
    <2>2. ~(y < x)
      BY Zenon, <1>2, <2>1
    <2>. QED
      BY <2>0, <2>2
  <1>4. PICK m \in K : x = N - m
    OBVIOUS
  <1>5. ASSUME NEW n \in K PROVE n <= m
    <2>1. N - n \in T
      OBVIOUS
    <2>2. x <= N - n
      BY <1>3, <2>1
    <2>. QED
      BY <1>4, <2>2
  <1>. QED
    BY <1>5

(* The number of requests, and of the requests of a set.                   *)
LEMMA SizesNat ==
  /\ Cardinality(Requests) \in Nat
  /\ \A S \in SUBSET Requests : IsFiniteSet(S) /\ Cardinality(S) \in Nat
  /\ \A S, T \in SUBSET Requests : S \subseteq T => Cardinality(S) <= Cardinality(T)
  <1>1. \A S \in SUBSET Requests : IsFiniteSet(S)
    BY Zenon, SizesSpelledOut, LibrarySizes, FS_Subset
  <1>2. \A S \in SUBSET Requests : Cardinality(S) \in Nat
    BY Zenon, <1>1, FS_CardinalityType
  <1>3. ASSUME NEW S \in SUBSET Requests, NEW T \in SUBSET Requests, S \subseteq T
        PROVE  Cardinality(S) <= Cardinality(T)
    <2>1. S \in SUBSET T
      BY <1>3
    <2>. QED
      BY Zenon, <1>1, <2>1, FS_Subset
  <1>. QED
    BY Zenon, <1>1, <1>2, <1>3

(* The laws hold, because there are finitely many requests.                *)
LEMMA LawsHold == CountingLaws
  <1>1. \A f \in Counts, S \in SUBSET Requests : Total(f, S) \in Nat
    BY Zenon, UnitsFinite
  <1>2. \A f, g \in Counts, S, T \in SUBSET Requests :
          S \subseteq T /\ (\A r \in S : f[r] <= g[r]) => Total(f, S) <= Total(g, T)
    BY Zenon, UnitsMono
  <1>3. \A f \in Counts, S, T \in SUBSET Requests :
          S \cap T = {} => Total(f, S \cup T) = Total(f, S) + Total(f, T)
    BY Zenon, UnitsUnion
  <1>4. \A f, g, h \in Counts, S \in SUBSET Requests :
          (\A r \in S : h[r] = f[r] + g[r]) => Total(h, S) = Total(f, S) + Total(g, S)
    BY Zenon, UnitsPlus
  <1>5. \A f \in Counts, S \in SUBSET Requests : (\A r \in S : f[r] = 0) => Total(f, S) = 0
    BY Zenon, UnitsZero
  <1>6. /\ \A S \in SUBSET Requests : Size(S) \in Nat
        /\ \A S, T \in SUBSET Requests : S \subseteq T => Size(S) <= Size(T)
    BY Zenon, SizesNat, LibrarySizes
  <1>7. ASSUME NEW S \in SUBSET Requests, NEW r \in Requests, r \notin S
        PROVE  Size(S \cup {r}) = Size(S) + 1
    <2>1. Cardinality(S \cup {r}) = Cardinality(S) + 1
      BY Zenon, <1>7, SizesNat, FS_AddElement
    <2>. QED
      BY Zenon, <2>1, LibrarySizes
  <1>8. Size({}) = 0
    BY Zenon, FS_EmptySet, LibrarySizes
  <1>9. \A N \in Nat : \A K \in SUBSET (0 .. N) : K # {} => \E m \in K : \A n \in K : n <= m
    BY Zenon, Greatest
  <1>. QED
    BY ZenonT(40), <1>1, <1>2, <1>3, <1>4, <1>5, <1>6, <1>7, <1>8, <1>9 DEF CountingLaws

-----------------------------------------------------------------------------
(* The invariant holds in every reachable state, for any requests, lengths,*)
(* block size and pool, under each of the three policies.                  *)
THEOREM Inductive == Spec => []IInv
  <1>1. Init => IInv
    BY InitInv, LawsHold
  <1>2. IInv /\ [Next]_vars => IInv'
    BY NextInv, LawsHold
  <1>. QED
    BY <1>1, <1>2, PTL DEF Spec

(* Every reachable state is well typed: no sequence of the KV cache grows  *)
(* to the last token of its request, and no two requests share a place.    *)
THEOREM TypeCorrect == Spec => []TypeOK
  <1>1. IInv => TypeOK
    BY DEF IInv
  <1>. QED
    BY <1>1, Inductive, PTL

(* add_sequence and add_token always find a free block: MAX_UTILIZATION    *)
(* with generation-only requests included, and the no-evict policies when  *)
(* no request has its prompt computed elsewhere.                           *)
THEOREM AllocationNeverFails == Spec => []AllocationSucceeds
  <1>1. IInv => AllocationSucceeds
    BY DEF IInv
  <1>. QED
    BY <1>1, Inductive, PTL

(* GUARANTEED_NO_EVICT and STATIC_BATCH keep their guarantee: the free     *)
(* blocks cover all that the running requests have still to allocate.      *)
THEOREM NoEvictGuarantee == Spec => []RunToCompletion
  <1>1. IInv => RunToCompletion
    BY DEF IInv
  <1>. QED
    BY <1>1, Inductive, PTL

(* MAX_UTILIZATION pauses from the end of active_requests: whatever gets   *)
(* tokens in the iteration that pauses a request was there before it.      *)
THEOREM PausedAreLatest == Spec => PausesTheLatest
  <1>. DEFINE Order == \A r, q \in Requests :
                          /\ GenerationInProgress(r) /\ state'[r] = "CONTEXT_INIT"
                          /\ cached'[q] > cached[q]
                          => turn[q] < turn[r]
  <1>1. IInv /\ [Next]_vars => [Order]_vars
    BY PauseOrder, LawsHold
  <1>. QED
    BY <1>1, Inductive, PTL DEF Spec, PausesTheLatest
=============================================================================
