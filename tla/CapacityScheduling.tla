------------------------- MODULE CapacityScheduling -------------------------
(***************************************************************************)
(* Which requests of a generation server get KV cache blocks: the capacity *)
(* scheduler (GuaranteedNoEvictScheduler, StaticBatchScheduler and         *)
(* MaxUtilizationScheduler), the micro batch scheduler and the iteration   *)
(* of the executor that allocates what they promise.  One window, one      *)
(* beam, no block reuse, no chunked contexts and no draft tokens, so that  *)
(* the blocks of a sequence follow from its number of tokens.              *)
(***************************************************************************)
EXTENDS Integers, FiniteSets

CONSTANTS
    Requests,
    PromptLen,        \* tokens of the prompt
    MaxNewTokens,     \* tokens to generate
    Policies,         \* the policies to consider
    TotalBlocks,      \* blocks of the pool
    TokensPerBlock,
    MaxNumRequests,   \* max_num_sequences
    MaxBatchSize,
    MaxNumTokens,     \* tokens of a batch
    MaxInputLen       \* max_input_len

NoEvictPolicies == {"GUARANTEED_NO_EVICT", "STATIC_BATCH"}

\* mPromptLen + mMaxNewTokens, which pause does not change
MaxSeqLen(r) == PromptLen[r] + MaxNewTokens[r]

\* ceilDiv(n, tokensPerBlock)
NumBlocks(n) == (n + TokensPerBlock - 1) \div TokensPerBlock

ASSUME CapacityAssumption ==
    /\ IsFiniteSet(Requests)
    /\ PromptLen \in [Requests -> Nat \ {0}]
    /\ MaxNewTokens \in [Requests -> Nat \ {0}]
    /\ Policies \subseteq NoEvictPolicies \cup {"MAX_UTILIZATION"}
    /\ {TotalBlocks, TokensPerBlock, MaxNumRequests, MaxBatchSize, MaxNumTokens, MaxInputLen}
         \subseteq Nat \ {0}
    /\ \A r \in Requests : \* _validate_request, and a pool for the longest request
         /\ NumBlocks(MaxSeqLen(r)) <= TotalBlocks
         /\ MaxSeqLen(r) <= MaxNumTokens \/ MaxInputLen <= MaxNumTokens

VARIABLES
    policy,  \* capacity_scheduler_policy
    remote,  \* the generation-only requests: their prompt is computed elsewhere
    turn,    \* the order in which requests joined active_requests, 0 before
    state,   \* LlmRequestState, or "new" and "done" outside active_requests
    prompt,  \* mPromptLen
    cached,  \* tokens of the sequence in the KV cache manager, 0 without one
    failed   \* a block was asked for and none was free

vars == <<policy, remote, turn, state, prompt, cached, failed>>

Init ==
    /\ policy \in Policies
    /\ remote \in SUBSET Requests
    /\ turn = [r \in Requests |-> 0]
    /\ state = [r \in Requests |-> "new"]
    /\ prompt = PromptLen
    /\ cached = [r \in Requests |-> 0]
    /\ failed = FALSE

-----------------------------------------------------------------------------
(* Block counts.                                                           *)

\* The sum of f[r] over the r of S, as the size of a disjoint union
Total(f, S) == Cardinality(UNION {{r} \X (1 .. f[r]) : r \in S})

Held == [r \in Requests |-> NumBlocks(cached[r])]

Free == TotalBlocks - Total(Held, Requests)

GenerationInProgress(r) == state[r] \in {"TRANS_COMPLETE", "GENERATION_IN_PROGRESS"}

\* getRemainingBlocksToCompletion
Remaining == [r \in Requests |-> NumBlocks(MaxSeqLen(r)) - NumBlocks(cached[r])]

\* Mutant: the block for the next token is forgotten.
NeededForPrompt ==
    [r \in Requests |-> IF GenerationInProgress(r) THEN 0 ELSE NumBlocks(prompt[r])]

\* getNeededBlocksOneStep, before the last token of the sequence
Needed ==
    [r \in Requests |->
        IF GenerationInProgress(r)
        THEN NumBlocks(cached[r] + (IF cached[r] < MaxSeqLen(r) THEN 1 ELSE 0)) - NumBlocks(cached[r])
        ELSE NumBlocks(prompt[r])]

-----------------------------------------------------------------------------
(* The capacity scheduler.  Its result are the scheduled and the paused    *)
(* requests.  A loop that ends at the first request for which there is no  *)
(* room takes the requests that have room together with all before them.   *)

In(states) == {r \in Requests : state[r] \in states}

Active == Requests \ In({"new", "done"})

Running == {r \in Requests : GenerationInProgress(r)}

Schedulable == Running \cup In({"GENERATION_INIT", "CONTEXT_INIT"})

\* r and the requests of S before it in active_requests
UpTo(S, r) == {q \in S : turn[q] <= turn[r]}

Going == {r \in Running : Cardinality(UpTo(Running, r)) <= MaxNumRequests}

\* The loop over the pending requests after those of S are scheduled
Admitted(S, pending) ==
    S \cup {r \in pending :
              /\ Cardinality(S \cup UpTo(pending, r)) <= MaxNumRequests
              /\ Total(Remaining, S \cup UpTo(pending, r)) <= Free}

\* Mutant: what running requests have still to allocate is not reserved.
NoEvictUnreserved ==
    [scheduled |-> Going \cup Admitted(Admitted({}, In({"GENERATION_INIT"})), In({"CONTEXT_INIT"})),
     paused |-> {}]

\* GuaranteedNoEvictScheduler::impl.  Requests whose prompt is being received
\* are skipped; generation-only ones go before the others.
NoEvict ==
    [scheduled |->
        IF policy = "STATIC_BATCH" /\ Going # {}
        THEN Going
        ELSE Admitted(Admitted(Going, In({"GENERATION_INIT"})), In({"CONTEXT_INIT"})),
     paused |-> {}]

\* Mutant: requests are paused from the front.
PausedFirst(e) == {r \in Running : turn[r] <= Cardinality(Requests) - e}

\* The running requests after the e-th of active_requests
Paused(e) == {r \in Running : turn[r] > e}

\* The requests up to the e-th that have room once those after it are paused
Scheduled(e) ==
    LET before == {r \in Schedulable : turn[r] <= e}
    IN  {r \in before :
            /\ Cardinality(UpTo(before, r)) <= MaxNumRequests
            /\ Total(Needed, UpTo(before, r)) <= Free + Total(Held, Paused(e))}

\* MaxUtilizationScheduler: the loop pauses running requests from the end
\* until all the others have room.
MaxUtilization ==
    LET Places == 0 .. Cardinality(Requests)
        plan == [e \in Places |-> [scheduled |-> Scheduled(e), paused |-> Paused(e)]]
        Enough(e) == Running \ Paused(e) \subseteq Scheduled(e)
    IN  plan[CHOOSE e \in Places : Enough(e) /\ \A n \in Places : Enough(n) => n <= e]

Schedule == IF policy = "MAX_UTILIZATION" THEN MaxUtilization ELSE NoEvict

\* q comes before r, or is r, in what the capacity scheduler returns
NotAfter(q, r) ==
    IF policy = "MAX_UTILIZATION" \/ GenerationInProgress(q) = GenerationInProgress(r)
    THEN turn[q] <= turn[r]
    ELSE GenerationInProgress(q)

\* MicroBatchScheduler: as many of the fitting requests, in order, as the
\* batch size and the number of tokens allow.
MicroBatch(fitting) ==
    LET numNew == [r \in Requests |-> IF state[r] = "CONTEXT_INIT" THEN prompt[r] ELSE 1]
        NoLater(r) == {q \in fitting : NotAfter(q, r)}
    IN  {r \in fitting : /\ Cardinality(NoLater(r)) <= MaxBatchSize
                         /\ Total(numNew, NoLater(r)) <= MaxNumTokens}

-----------------------------------------------------------------------------
(* The executor.                                                           *)

\* _fetch_and_activate_new_requests
Fetch(r) ==
    /\ ~failed /\ state[r] = "new" /\ Cardinality(Active) < MaxNumRequests
    /\ turn' = [turn EXCEPT ![r] = Cardinality(Requests \ In({"new"})) + 1]
    /\ state' = [state EXCEPT ![r] = IF r \in remote THEN "GENERATION_INIT" ELSE "CONTEXT_INIT"]
    /\ UNCHANGED <<policy, remote, prompt, cached, failed>>

\* _check_disagg_gen_transfer_status: the prompt's blocks have arrived, or
\* the transfer failed and the request ends.
TransferEnds(r) ==
    /\ ~failed /\ state[r] = "TRANS_IN_PROGRESS"
    /\ \/ /\ state' = [state EXCEPT ![r] = "TRANS_COMPLETE"]
          /\ UNCHANGED cached
       \/ /\ state' = [state EXCEPT ![r] = "done"]
          /\ cached' = [cached EXCEPT ![r] = 0]
    /\ UNCHANGED <<policy, remote, turn, prompt, failed>>

\* The blocks add_token takes for a running request, add_sequence for another
Taken ==
    [r \in Requests |->
        IF GenerationInProgress(r)
        THEN IF cached[r] % TokensPerBlock = 0 THEN 1 ELSE 0
        ELSE NumBlocks(prompt[r])]

\* Mutant: a paused request keeps its blocks.
CachedUnfreed(inits, paused, batch, ended) ==
    [r \in Requests |->
        CASE r \in ended -> 0
          [] r \in inits -> prompt[r]
          [] r \in batch \ ended ->
                IF GenerationInProgress(r) THEN cached[r] + 1 ELSE prompt[r]
          [] OTHER -> cached[r]]

\* The sequences after an iteration: add_sequence, add_token, and
\* free_resources of the paused and the ended requests
Cached(inits, paused, batch, ended) ==
    [r \in Requests |->
        CASE r \in ended \cup paused -> 0
          [] r \in inits -> prompt[r]
          [] r \in batch \ ended ->
                IF GenerationInProgress(r) THEN cached[r] + 1 ELSE prompt[r]
          [] OTHER -> cached[r]]

Least(m, n) == IF m <= n THEN m ELSE n

\* The tokens a request has; the last one generated is not cached yet.
NumTokens(r) == IF state[r] = "GENERATION_IN_PROGRESS" THEN cached[r] + 1 ELSE prompt[r]

\* Mutant: the token of the step is not counted.
NumTokensBehind(r) == IF GenerationInProgress(r) THEN cached[r] + 1 ELSE prompt[r]

\* The tokens the request has after a step of the batch; that of a received
\* prompt adds the first token of the context server.
NumTokensAfter(r) == IF GenerationInProgress(r) THEN cached[r] + 2 ELSE prompt[r] + 1

\* The end of an iteration, when all got their blocks.  Generation ends with
\* an end token, or with the last token.
Advance(inits, paused, batch) ==
    \E ended \in SUBSET batch :
        /\ \A r \in batch : NumTokensAfter(r) >= MaxSeqLen(r) => r \in ended
        /\ cached' = Cached(inits, paused, batch, ended)
        /\ state' = [r \in Requests |->
              CASE r \in ended -> "done"
                [] r \in inits -> "TRANS_IN_PROGRESS"
                [] r \in paused -> "CONTEXT_INIT"
                [] r \in batch \ ended -> "GENERATION_IN_PROGRESS"
                [] OTHER -> state[r]]
        /\ prompt' = [r \in Requests |->
              IF r \in paused THEN Least(MaxInputLen, NumTokens(r)) ELSE prompt[r]]

\* One iteration of _executor_loop.  _prepare_disagg_gen_init comes before
\* _pause_requests, prepare_resources after it.
Iterate ==
    /\ ~failed /\ Active # {}
    /\ \E plan \in {Schedule} :
         LET inits == plan.scheduled \cap In({"GENERATION_INIT"})
             spare == Free - Total(Taken, inits)
         IN  \E batch \in {MicroBatch(plan.scheduled \ inits)} :
               IF spare < 0 \/ Total(Taken, batch) > spare + Total(Held, plan.paused)
               THEN failed' = TRUE /\ UNCHANGED <<state, prompt, cached>>
               ELSE Advance(inits, plan.paused, batch) /\ UNCHANGED failed
    /\ UNCHANGED <<policy, remote, turn>>

Next ==
    \/ \E r \in Requests : Fetch(r) \/ TransferEnds(r)
    \/ Iterate

(* The loop iterates while it has requests, fetches what has been queued   *)
(* when it has room, and every transfer ends.                              *)
Spec ==
    /\ Init /\ [][Next]_vars
    /\ WF_vars(Iterate)
    /\ \A r \in Requests : WF_vars(Fetch(r)) /\ WF_vars(TransferEnds(r))

-----------------------------------------------------------------------------
(* Types; in particular the last token of a sequence is never cached, and  *)
(* no two requests have the same place in active_requests.                 *)
TypeOK ==
    /\ policy \in Policies /\ remote \subseteq Requests
    /\ turn \in [Requests -> 0 .. Cardinality(Requests)]
    /\ \A r, q \in Requests : turn[r] = turn[q] => r = q \/ turn[r] = 0
    /\ state \in [Requests -> {"new", "GENERATION_INIT", "TRANS_IN_PROGRESS", "TRANS_COMPLETE",
                               "CONTEXT_INIT", "GENERATION_IN_PROGRESS", "done"}]
    /\ prompt \in [Requests -> Nat] /\ cached \in [Requests -> Nat]
    /\ \A r \in Requests : prompt[r] \in 1 .. MaxSeqLen(r) - 1 /\ cached[r] < MaxSeqLen(r)
    /\ failed \in BOOLEAN

\* Where the no-evict policies see all the requests that hold blocks.
Guaranteed == policy = "MAX_UTILIZATION" \/ remote = {}

(* "Can't allocate new blocks. No free blocks left." is never raised: what *)
(* the scheduler let pass, with the blocks of the requests it pauses, is   *)
(* enough for add_sequence and add_token, also when the new generation-    *)
(* only requests are given their blocks before the paused ones lose theirs.*)
AllocationSucceeds == Guaranteed => ~failed

(* "If it's been allocated, it had resource to run to completion": the     *)
(* free blocks cover what the running requests have still to allocate.     *)
RunToCompletion ==
    policy \in NoEvictPolicies /\ remote = {} =>
        Total(Remaining, Running) <= Free

(* A request is paused only for requests before it in active_requests:     *)
(* what runs in the same iteration was there first.                        *)
PausesTheLatest ==
    [][\A r, q \in Requests :
          /\ GenerationInProgress(r) /\ state'[r] = "CONTEXT_INIT"
          /\ cached'[q] > cached[q]
          => turn[q] < turn[r]]_vars

(* Every request ends, although it may be paused and recomputed again and  *)
(* again, or wait behind others for its blocks.                            *)
EveryoneCompletes == Guaranteed => \A r \in Requests : <>(state[r] = "done")
=============================================================================
