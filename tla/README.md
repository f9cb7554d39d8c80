# Verification of disaggregated serving

In disaggregated serving a *context* server computes the prompt of a request
and a *generation* server produces its tokens.  Between them the KV cache has
to be handed over, below them each server has to find blocks for its requests,
and above them a *disaggregated server* finds the servers, chooses one of each
kind for a request and forwards it.  This directory models the protocols of that
stack in TLA+, checks them with TLC on small instances, and proves the central
safety properties with TLAPS for every size.

## The system and its parts

| part | code | module | status |
|---|---|---|---|
| context side of the KV transfer | `CacheSender::Impl` in `batch_manager/dataTransceiver.cpp`, its callers in `cacheTransceiver.cpp` and `py_executor.py` | `CacheSender`, and its interface `CacheHandover` | modelled, refinement and invariants proved |
| generation side of the KV transfer, one rank | `PyExecutor._executor_loop`, `CacheTransceiver::checkGenTransferStatus`, `CacheReceiver::Impl` | `GenExecutor` | one context server; invariants proved |
| agreement of tensor-parallel ranks on transfers | the same loop, `gatherRequestIds` and the frequency count in `cacheTransceiver.cpp` | `RankAgreement`, on top of `CacheHandover` | modelled, proved without cancellations |
| agreement of pipeline ranks to free a request | `DisaggPPTerminationHandler` in `_torch/pyexecutor/py_executor.py` | `PPTermination` | modelled, proved |
| block reuse in the KV cache manager | `WindowBlockManager` in `kvCacheManager.cpp`, `evictionPolicy.cpp`, their callers in `resource_manager.py` and `py_executor.py` | `KVCacheReuse` | one window, one beam; proved for full attention without pinning |
| capacity and micro batch scheduling | `capacityScheduler.cpp`, `microBatchScheduler.cpp`, `scheduler.py`, the allocations and pauses of `_executor_loop` | `CapacityScheduling`, and its loop in `CapacityLoop` | modelled, proved |
| service discovery | `serve/cluster_storage.py`, `serve/disagg_auto_scaling.py`, `_on_worker_event` in `serve/openai_disagg_service.py`, `Router.add_server` and `remove_server` | `ClusterMembership` | HTTP storage modelled, proved |
| choice of a server and forwarding | `LoadBalancingRouter` in `serve/router.py`, `serve/openai_client.py` | `LoadBalancing` | modelled, proved |

What is left out is listed under *Not modelled*.

How they interact: the client of the disaggregated server asks the router for
a context server, whose executor finds blocks for the prompt, computes it and
calls `sendAsync`; the answer goes back to the disaggregated server, which
forwards the request to a generation server; its executor gives the request
blocks and calls `receiveAsync`, whose thread asks every context rank for the
cache; the context rank's response thread counts those requests, signals
"ready" (or "cancelled") and sends the data; both executors poll futures to learn
the result, on several ranks after agreeing which.  A context request that is
being sent has been removed from the cache manager but for its pinned blocks.  On
servers with several pipeline ranks the blocks are freed only after the ring
agreed.  Servers register themselves in the cluster storage, whose watch events
drive the routers' server lists.

`PROJECT.json` maps every definition to the lines it stands for and lists the
hazards of the code with the properties that cover them.

## The modules

Definitions carry the names of the code in TLA+ spelling.  Operators marked
`Mutant` are deliberately wrong variants of the definition below them.  They are
used by no specification; each one shows that a property notices the error.

### CacheHandover and CacheSender

`CacheHandover` is what the sender promises of each request, without threads,
queues or sessions: a request is offered (`sendAsync`), its counterparts are
answered one by one, each once and no two differently, "ready" only while its blocks
are held and "cancelled" only when they are not, the data is delivered to
counterparts one by one after all of them were promised it, the future gets its
value when all have the data, and blocks are released after the future is settled
or before anyone was answered.  `CacheSender` implements it: the property
`ImplementsHandover` of its run, and a theorem.  `RankAgreement` uses the same
module as its context server, so that the two sides of a transfer meet at one
interface.

`CacheSender` has the members of `CacheSender::Impl` under their own names, the
program counter of the response thread, the sending threads, the futures, and of
the executor the request states, the list `mSenderFutures` and `held`, the requests
whose blocks are not freed.  Each lock region and each unlocked read of shared
state is an action of its own: `SendAsync` inserts under `mSenderMutex`,
`SendAsyncNotify` sets `mAnyReady` under `mCondMutex`, `CheckEmpty` is the read of
`mReadyResponses.empty()` outside any lock and `ClearAnyReady` the reset
after it.  A ready signal goes to one connection in a step (`SendReadySignal`), and so
does the data (`SendSync`); a connection that throws ends the response thread between
two signals, or the send after any number of copies.  Undefined behaviour: the unlocked read returns the set before or
after a concurrent insertion (a torn read of the tree is not modelled), and
`SendUndefined` is the use of `end()` when the inner wait is left at shutdown.
`agent`, fixed at construction, chooses between sending in the response thread
and in the sending threads; `LinkFails` lets connections throw.  A generation rank
asks once per request, at any time.  `CancelRequest` stands for both callers of
`cancelRequest` (user cancellation and timeout), which free the request in the
same call; a failed attempt changes nothing.  Fairness: threads that can move do,
and the executor hands in each request it computes; nothing makes it cancel,
poll or terminate.

### GenExecutor

State: the executor's position in its loop, `active`, request states, flags and
blocks; the receiver's queue, futures and request thread; the context
server's answers.  The queue is the set of queued requests with, for each, those
that were queued before it.  One action per call of the loop that matters here, in
the order of `_executor_loop`: fetch, status check, timeout check, schedule, start
of transfers, second status check, forward, cancellation, responses.  With no
batch the loop skips cancellation and responses, as in the code.  The context
server is the environment and answers "ready" or "cancelled".  Whether to check, and
whether to wait for a transfer (`atLeast`), is decided from the request states
before the check (`CheckStatus`, `InitDone`); a blocking `checkGenTransferStatus(1)`
is a guard of the check itself (`CheckGenTransferStatus`), so that transfers go on
between the two.
The history variable `aborted` records the requests a failed forward step ended:
`_handle_errors` without a list of requests takes `active_requests` itself, clears it
and then loops over it to terminate the requests, so that they are answered and none
of their blocks are freed (`ForwardError`).
Fairness: both threads run, the loop as long as a request is active; a request
that is scheduled again and again finishes since its length is bounded (strong
fairness); the context server answers, which the code cannot enforce and which
`EventuallyAnswered` therefore states as its hypothesis.

### RankAgreement

The same loop on several tensor-parallel ranks.  Every rank has its own loop, its
own request thread, its own lists and its own copy of the request states; the ranks
meet only in collective calls, which return when all ranks are in them: the
broadcast of new requests (`Fetch`), `GatherRequestIds`, and the forward step.
Whether a rank enters the status check, and with which `atLeastRequestNum`, it
decides from its own states, which its request thread may change at any moment;
so it is not evident that the ranks decide alike.  `Complete` is the choice of
`toCompleteIdSet` from the frequencies, `TakeFutures` the blocking wait on them.
Timeouts and link errors, which `GenExecutor` has on one rank, are left out here.
`LockStep` compares the ranks at the top of the loop; `SameCollective` says that no
rank waits in one collective while another waits in a different one, or in the
same with other arguments; `NoCrossWait` is about the request threads, which run
past the collectives.
Fairness: collectives return once everyone is there, threads and the context
server make progress, and a request that is decoded again and again finishes.

### PPTermination

State: per rank `pending` (`_pending_termination`), `freeing` (the requests of
`reqs_to_terminate` that the loop at the end has not reached), `freed` (calls of
`_terminator_func`), `started` (first iteration over or not), and the channel to
the next rank.  `Terminate` is `terminate`; `FirstLap` and `NextLap` are
`terminate_pending_requests` without and with the receive, up to the send: receive,
vote, decision and taking the requests out of `_pending_termination` touch nothing
that another rank sees.  `Free` is one round of the loop that follows the send, when
the next rank may already have the message; so a rank can be through with its frees
before the rank ahead of it has begun, and `TakenInRankOrder` is about the order in
which requests are taken out, not about the frees.  Fairness: ranks other than 0 run
the call in each iteration and only wait for the rank before, so the call is weakly
fair, and a loop that has begun goes on.  Rank 0 sleeps when its
request queue is empty, so nothing is assumed of it; `EventuallyFreed` has its
iterations as a hypothesis.

### KVCacheReuse

The radix tree is a function from token sequences to blocks, and a slot of a block
holds the token sequence whose KV state was written there, so that "the cache of
just these tokens" can be said.  With it go reference counts, the number of entries
of a block in the free queues, `mBlockToSequence`, the set of sequences valid for
reuse, and for each request its stage, tokens, blocks, detached front blocks and
pinned blocks.  The actions are the calls of the executor: `AddSequence` (match
full blocks, then one in part, which becomes private or is copied; evict what is
missing with everything below it in the tree), `Prefill` and `Decode` (write KV
state, allocate, detach the blocks that left the window), `Update` (store context
blocks, or store and pin for a context-only request), `RemoveSequence` and `Unpin`.
A sequence may be removed right after `addSequence`, before its context position has
moved: its transfer failed, or the guided decoder did.
`Configs` lists the configurations a behaviour may start with: window, requests
that are pinned, overlap scheduling, partial reuse and copying.  Which free block
is evicted is left open, which covers every priority and expiry time.  Nothing is
assumed to happen, so there is no fairness.

With a sliding window a sequence can end while it lists a block that is no longer its
own: it takes its own detached front block again, or another sequence takes one that
it had matched and detached.  `getFreeBlock` invalidates only the sequence that
`mBlockToSequence` names, the last one to *allocate* the block, so the sequence stays
valid and its end stores the block under tokens that it does not hold.  The block may
then be at two nodes, which share their children, and a function from paths no longer
describes the structure.  `StillATree` in `MCKVCacheReuse` ends the exploration there
(such a state is checked, its successors are not); without a sliding window it
constrains nothing.  `TreeTruth` and `StorageValid` except the sliding window for the
same reason.

Two more steps lead out of what the model can say, and are recorded in the history
variables `rekeyed` and `unclaimed`.  A sequence that is removed with nothing but
matched full blocks has its last block stored under a second key, one token shorter
(`Rekeys`).  A context-only request may pin a block that is in the free queues
(`kv_reuse_nested`).  The step itself is taken and checked (`RefsCounted` and
`QueueIntegrity` without exception); the behaviour ends there, because a block at two
nodes has its children twice, and a pinned block in the free queues gets a second
entry when it is unpinned, of which `claimBlock` erases one.  `TreeTruth`,
`StorageValid` and `SendableWhilePinned` except the states after them.

### CapacityScheduling

One iteration of the loop as the schedulers see it.  State: the order of
`active_requests`, request states, the number of prompt tokens (which a pause
changes) and of cached tokens; the blocks of a sequence follow from its tokens.
`NoEvict` is `GuaranteedNoEvictScheduler` (with `StaticBatchScheduler`),
`MaxUtilization` what `MaxUtilizationScheduler` returns, `MicroBatch` the micro
batch scheduler, and `Iterate` the executor: blocks for new generation-only requests
first, then the pause, then `prepare_resources`, then the new tokens.
`MaxUtilization` is stated by its result: of the running requests the fewest are
paused, from the end, that leave room for the others.  `CapacityLoop` has the loop
as the code runs it, with its walk back to a victim, and `LoopPausesFewest` says that
both agree in every state.  `failed` is the exception of an allocation without free
blocks.  Fairness: the loop iterates while it has requests, fetches when it has
room, and every transfer ends.

### ClusterMembership

A worker is one *process*: its key has start time and pid in it, so a restarted
server is another worker with the same address.  `Deployments` lists the addresses
that the processes may have; in a behaviour they are fixed (`address`).  State: the
life of each process,
calls that were abandoned but may still arrive (`late`), the storage and its
lapsed keys, the watch queue with the drained batch as its prefix, the
manager's tables, the routers' lists.  Storage handlers take an asyncio lock
without waiting inside it, so each is one step, its notification included.  Lost
calls, lost answers, late calls, crashes and a restart of the disaggregated
server (whose storage is in memory) are actions.  `add_server` waits while
the server is prepared, hence `SetEvent` and `AddServer`; `PrepareRaises` and
`UnknownWorker` are the exceptions that make the loop drop its batch.  The storage
client catches `ClientError` and `OSError`.  On Python 3.10 (`Python310`) the
`TimeoutError` of asyncio is neither, so a call that times out can end the heartbeat
task of a process that serves on (`"mute"`); in the lifespan it ends the start of
the server, which is a crash.  The disaggregated server may restart any number of
times.  Two histories, cleared by a restart, record what the properties except:
`skipped`, workers whose events were dropped, and `doubled`, servers at which a process
was announced while another one was known there.
Fairness: the tasks of the disaggregated server run; calls of a live worker get
through from time to time; the key of a worker without heartbeat lapses.
The last is strong only because the bound `MaxPending` in the guard of `Lapse`
can disable it, which real time does not do.

### LoadBalancing

State: the router's server list, loads, heap (how many entries of each load and server) and
routing table; for each request its place in the client and its attempt.  A
load is one unit per request (`use_tokens=False`).  The history variable
`departed` records the servers that have left at some time.  Router calls do not
wait inside their lock and are single steps.  `_finish_request` is part of the
action of the client that calls it; it raises `KeyError` when the request is not in
the table or its server has left.  Every request is a new object, which stands for its
key `id()`.  A request that is finished in the router lives until then.  The entry of a
failed stream outlives its request, and `id()` may give its key to a later one;
routing that one overwrites the entry, whose request is never finished, so that
every load is what it would be with a new key, and the model keeps the entry.  The cancellation of the task of a request
that is not streamed is left out: the web server does not cancel it.

## What the runs check

| run | bounds | states | shows |
|---|---|---|---|
| `pp_termination` | 4 ranks, 2 requests | 7,751 | `SingleToken`, `ConsensusBeforeFree`, `TakenInRankOrder`, `EventuallyFreed`; no deadlock |
| `cache_sender` | 2 requests, one with 2 counterparts and one with 1, 1 sending thread, both kinds of connection, failing links | 39,300 | `ReadOnlyWhileHeld`, `FullSession`, `AnsweredIsSettled`, `ImplementsHandover` |
| `gen_executor` | 2 requests; cancellation, timeouts, failing links, failing forward steps | 49,765 | `ReceiveOnlyIntoOwned`, `FailedNotDecoded`, `LeavesClean`, `AnsweredOnce`, `EventuallyAnswered` |
| `rank_agreement` | 3 ranks, 2 requests, no cancellation | 121,124 | `LockStep`, `SameCollective`, `NoCrossWait`, `EveryoneAnswered` |
| `kv_reuse` | 4 requests, 4 blocks of 2 tokens, sequences of up to 7 tokens, 5 configurations | 1,298,160 | `RefsCounted`, `QueueIntegrity`, `TreeTruth`, `StorageValid`, `SendableWhilePinned` |
| `capacity` | 3 requests, 4 blocks of 2 tokens, 3 policies, any subset generation-only | 9,980 | `AllocationSucceeds`, `RunToCompletion`, `LoopPausesFewest`, `PausesTheLatest`, `EveryoneCompletes` |
| `membership` | 2 processes, at one address or at two, any restarts, Python 3.10, preparation of one server may raise, keys lapse with no event waiting | 325,258 | `PendingAgrees`, `RouterFollowsStorage`, `EventuallyServed`, `EventuallyForgotten` |
| `balancing` | 2 servers, 3 requests (1 streamed), 1 retry, 3 changes of the list | 278,455 | `HeapCovers`, `LoadIsRouted`, `FinishedInRouter` |

The other runs, those of `RankAgreement` and `KVCacheReuse` apart, also check a
`TypeOK`.  Why the bounds are enough:

- Four pipeline ranks are a ring with a first, a last and two middle ranks, so that
  a rank can free after two others have; two requests can be in different laps.
- Two requests let one be answered while the other is added or cancelled; two
  counterparts make the countdown of a request matter, and a single one lets a
  request that is not ready yet be the last to be answered at shutdown.
- Three tensor-parallel ranks make the count of a request's transfers 1, 2 or
  all, and let two ranks be past a decision that the third has still to take.  Two
  requests can be taken in different orders by different ranks.
- The prompts of `kv_reuse` part in the first, the second and the third block,
  so that full and partial matches, private and shared blocks, eviction of inner
  nodes and full exhaustion all occur with four blocks.  Blocks are symmetric.
- The pool of `capacity` holds any one request at its full length and not two of
  the longer ones, which is where the policies differ.
- Two processes give events of one between those of the other, and a batch that is
  dropped with an event of another worker in it; at one address the second is
  announced before or after the key of the first is gone.
- One retry already finishes a streamed request twice.  Three changes let a server
  leave, return and leave during one request.

Everything listed as proved below holds beyond these bounds.  Deadlock is checked
for `PPTermination`, whose ring never rests.  The other systems may: all requests are
answered, a sender has shut down, every process is gone.

### Disagreements between code and documentation

Four runs check what a line of the repository says and find that the code does
otherwise.  The lines are quoted in `PROJECT.json`.

- `sender_lost_wakeup` (`AskedIsSettled`): the response thread finds the map
  empty, `sendAsync` inserts a request and sets `mAnyReady`, then the response
  thread clears it and sleeps.  The future stays pending until another request
  comes.
- `gen_refused_decoded` (`CancelledNotDecoded`): the error state of a transfer
  that the context server refused is overwritten with "complete" when the future
  is taken, and the request is decoded without data.
- `rank_cancel` (`StillHealthy`, 2 ranks): a refused transfer sets the error
  state on each rank when its thread learns of it.  A rank that looked before enters
  the collective status check, one that looked after goes on to the forward step,
  and neither returns.
- `kv_reuse_nested` (`QueueIntegrity`, 2 requests): storing with pinning takes a
  reference on the block found in the tree.  For a prompt that ends with a block and
  is a prefix of a longer stored prompt, that is not the sequence's own block; it
  is unreferenced, and stays in the free queue while it is pinned.

These also mark the limits of the passing properties.  `AnsweredIsSettled` starts
from a signalled request, because a request that is only asked for may be
forgotten.  `rank_agreement` has no cancellation.  `SendableWhilePinned`,
`TreeTruth` and `StorageValid` end with a request that pins a block of the free queues;
the configurations of `kv_reuse` with pinned requests have no nested prompt, so that
`QueueIntegrity` holds in them.

Other limits, each stated in the property concerned:

- `LeavesClean` and `EventuallyAnswered` except a request whose transfer timed out
  too late to be cancelled: it is dropped from `active_requests` with its blocks and
  without an answer, though `examples/disaggregated/README.md` says that a timed-out
  request is cancelled and cleaned up.
- `LeavesClean` and `AnsweredOnce` except the blocks of requests that a failed forward
  step ended.  Its handler answers every active request, those in transfer included,
  and frees none; so `ReceiveOnlyIntoOwned` needs no exception.
- `TakenInRankOrder` does not say that requests are *freed* in the order of the ranks,
  as the docstring of `terminate_pending_requests` has it: the message is sent before
  the frees.
- `ImplementsHandover` does not say that every counterpart is answered: when the
  connection to one throws, the response thread ends with some answered and some not.
- `TreeTruth` and `StorageValid` end with a sequence that is removed right after
  `addSequence` and has its last block stored under a second key (`Rekeys`).  Eviction
  removes only the key a block got last, and the other goes on leading to it.
- `FinishedInRouter` excepts streamed requests that failed.  One that fails before
  its stream begins is never finished in the router and counts as load for good.
- `LoadIsRouted` speaks of servers that never left.  One that leaves and comes back
  is charged with the ends of requests from before and may count below zero.
- `HeapCovers` does not say that the server chosen is the least loaded: older heap
  entries of a server are not removed and may be taken for its present load.
- `RouterFollowsStorage` and `EventuallyServed` except, of the processes of one
  address, those announced while the former one was known (`doubled`): such a server is
  removed from the router when the key of its predecessor expires, and its heartbeats do
  not bring it back.  That an address without stored process is not listed holds for
  them too, and `EventuallyForgotten` as well.
- `EventuallyServed` speaks of processes whose heartbeat task runs.  One whose task was
  ended by a timeout (Python 3.10) is alive, its key expires, and nobody registers it
  again.
- `AllocationSucceeds` and `EveryoneCompletes` speak, for the no-evict policies, of
  requests that are not generation-only: the scheduler does not reserve for requests
  in transfer, so an allocation can find no free block.
- A pause of `MAX_UTILIZATION` cuts the prompt at `max_input_len`; the instance
  keeps below it.

Two more weaknesses are visible in the models without a property of their own.
After a successful `cancelRequest` a context request is freed while
`mSenderFutures` still points to it.  When all active requests of a generation
server are in transfer, the status check waits on a future without limit, so that no
timeout or cancellation is looked at until a transfer ends.

## What is proved

The proofs are in `*Proofs.tla`.  They hold for all constants that satisfy the
named `ASSUME` of the component.

**PPTerminationProofs** (assumes at least two ranks).  `TypeCorrect`, `OneToken`,
`Consensus`, `RankOrder`.  The properties are not inductive: that a request on
the termination list was finished with by every rank follows from the votes the
message has carried.  The inductive invariant therefore says for the one message in
the ring which ranks it has passed in this lap, that a vote count is at most
the number of those ranks and equals it only if all of them hold the request
pending, and that a request on the list was taken out by exactly the ranks passed.
What is taken out, freed yet or not, is what the ranks rely on, so `Free` changes none
of it.

**CacheSenderProofs** (finitely many generation ranks, at least one of them a
counterpart of each request).  `SenderTypes`, `NoReadAfterFree`.  The invariant
`IInv` says where a response is: in `mReadyResponses` with a pending promise, being
erased, or handed to exactly one sending thread (`OwnerInv`, `UniqueInv`); that a
freed request is settled or cancelled (`ExecutorInv`); and that the response
thread, once it has decided that its request is ready, has a request that is not
cancelled and, being current, cannot be (`ResponderInv`).  From these a request in
transfer is pending and not cancelled, hence held.

`SessionsComplete` states `FullSession`; `SenderImplementsHandover` states that
`CacheSender` implements `CacheHandover`, step by step, under the mapping given in
`CacheSender` as `Handover`.  On top of `IInv` their invariant has `CountInv`, that
`mRemainSendCount` counts the counterparts whose request is still missing, so that
zero means a full session, and `VerdictInv`, which relates the answer given for a
request to what the response thread or a sending thread is about to do with it.
It also says that the counterparts answered so far were told the same.
Each action of the sender is then one step of the interface or none; most are none.

**GenExecutorProofs** (the request name used for "none" is not a request).
`GenTypes`, `ReceivesIntoOwned`, `FailuresNotDecoded`, `CleanExit`, `OneAnswer`.
The invariant ties the four places that know of a request to each other: its
future in the receiver (`FutureInv`), the queue and request thread (`TransferInv`),
the scheduled batch (`BatchInv`) and the responses (`AnswerInv`).  A queued or
running transfer has a pending future, and its request is in transfer and owns its
blocks, or a failed forward step ended it and left it its blocks; a request in a batch
is not in transfer and has not failed; an answered request has left the loop, with
its blocks freed unless such a step ended it, and so gets no other answer.

**ClusterMembershipProofs**.  `MembershipTypes` and `PendingIsTrue` from
`AgreeInv`, which is inductive as it stands.  The invariant of `RoutersFollow`, which
holds for any sharing of addresses, adds that the events of a worker
alternate, that the first of them is news to the manager (so that `UnknownWorker`
happens only to workers whose events were dropped), that the manager knows the
stored workers when it has nothing to hear of them, and that the routers list only
addresses of workers the manager knows, and all of those whose processes were
announced one after the other.

**LoadBalancingProofs** (finitely many requests).  `BalancingTypes` and
`EveryServerOnHeap` from `HeapInv`, with lemmas on what `Push` and `Pop` do to the
entries: the entry that is popped may be the one with the
present load, and then the entry pushed takes its place.  `LoadsAreExact` and
`RequestsFinish` follow from `RoutedInv`, which adds that a new request is
not in the table, so that routing it changes the cardinality of one set by one,
and that requests are routed to servers that are or were listed, so that a server
listed for the first time has none.

**CapacitySchedulingProofs** (finitely many requests, each of which fits in the pool
by itself, and a batch has room for at least one).  `TypeCorrect`,
`AllocationNeverFails`, `NoEvictGuarantee`, `PausedAreLatest`.  Besides the two
properties proved together the invariant says what a state means for a sequence
(`StateInv`), that what is in use is in the pool (`PoolInv`), and that under
`MAX_UTILIZATION` no request with blocks is behind one that waits for its first
(`OrderInv`): so none is paused in the iteration in which a new generation-only request
gets blocks, before the paused ones give theirs back.  Sums of blocks are sizes of
disjoint unions.  The laws of sums that the lemmas assume (`CountingLaws`) are
proved from those of finite sets in the last section.

**KVCacheReuseProofs** (finitely many requests with prompts that are not empty;
`PlainConfig` on the first state: full attention, and no request is pinned; overlap
scheduling, partial reuse and copying are as they may be).  `TypeCorrect`,
`RefsAreCounted`, `QueuesAreSound`, `ReuseIsTruthful`, `StorageStaysValid`.  None of
the properties is inductive: that a node leads to its own tokens depends on who may
still write to its block.  The notion that carries the argument is a *settled* block,
`Settled(r, k)`: the k-th block of r is full, and will be stored in full.  The
invariant `IInv` has

- `ShareInv` and `FoundInv`: a block that two sequences have, or that a sequence
  and the tree have, is at the same place in both and settled; what a sequence has still
  to write is in a block of its own, which is why a forward pass disturbs nobody;
- `ContentInv` and `TruthInv`: the slots hold the KV state of the tokens of the
  sequence, and of the tokens that lead to the node;
- `UniqueInv` and `DistinctInv`: a block is at one node, and once in a sequence, so
  that evicting its node leaves no other that leads to it;
- `CountInv`: references are counted and free blocks queued, so that a block taken from
  the free queues is in no sequence;
- `StagedInv`: what the stage of a request says of its tokens and the number of its
  blocks.

`RemoveSequence` keeps `IInv` unless it rekeys, and then still the types and the counts
(`Rest`): right after `addSequence` all but the last of the matched tokens are stored
(`AddedUsable`), which adds no node for a part of a full block unless that is a new
key (`StoredOnce`).  The theorems follow from `[](Rest /\ (rekeyed \/ IInv))`.
`Update` and `RemoveSequence` rest on one lemma about storing (`StoreStep`),
`Prefill` and `Decode` on one about writing (`WriteStep`), `AddSequence` and
`Decode` on those about getting blocks (`TakeShares`, `TakeCount`).  `AddSequence`,
the longest, also needs that a match is a path of full blocks from the root
(`FullMatchLaws`), continued by at most one child (`MatchLaws`).

**RankAgreementProofs** (finitely many ranks and requests; no cancellations, which is
where the ranks do part, see `rank_cancel`).  `RanksInLockStep`, `RanksMeet`,
`ThreadsDoNotCross`.  The properties compare ranks that have met, but between two
collectives one rank may have finished its iteration while another has not looked at
its futures yet, so the invariant needs something to compare at any moment.  That is
`Ahead(r)`: the next collective that rank r will enter, with its arguments, and the
lists, states and batch it will bring there, computed from what r knows now.  `IInv` has

- `AgreeInv`: `Ahead` is the same for all ranks.  A step of one loop leaves its
  `Ahead` as it is, whether or not more transfers have ended in the meantime, because
  `TakeFutures` waits for the ids all ranks agreed on; a collective changes it for all
  ranks alike.
- `OrderInv`: of two ranks, one has asked for what the other has and then for the
  first of what is still in the other's queue or about to be put there (`ToAsk`,
  `Follows`).  `JobInv`: a thread has asked for the request it waits for.
- `ServedInv`: the context server releases a request only after it was sent, so that
  it refuses none, no future ends with an exception, and no state turns to an error
  between two looks of a rank at it.

The filters of the loop are one operator, `Kept`, without recursion; that it returns a
list, and the list itself when nothing is taken out, follows from laws of
cardinalities (`SizeLaws`).

Only model-checked: the liveness properties (`EventuallyFreed`,
`AnsweredIsSettled`, `EventuallyAnswered`, `EveryoneAnswered`, `EveryoneCompletes`,
`EventuallyServed`, `EventuallyForgotten`), which need fairness and are out of the
prover's reach; `LoopPausesFewest`, since the loop is recursive; and of
`KVCacheReuse` the configurations with a sliding window or with pinned requests,
hence `SendableWhilePinned`.  With a sliding window the structure need not remain a
tree (see above).  With pinned requests `QueueIntegrity` fails for some prompts
(`kv_reuse_nested`), and so would every invariant that `SendableWhilePinned` can be
derived from: that a block being sent is not evicted rests on its having a reference
before it is pinned, which the code does not ensure for all prompts and generated
tokens.

## Not modelled

- **Etcd storage, metadata server**: the code forwards to services outside the
  repository, and their leases and watches would be the model.
- **Round-robin and cache-aware routers**: an index, and a heuristic on hashes that
  are polled over HTTP, without a promise to check.
- **Context and generation phases of a request, conditional disaggregation** in the
  service: a sequence of two calls of the client that is modelled, with no state
  between them.
- **Cache formatters** (but for the order and failure of their sends), **transfer
  buffers, connection managers**: which bytes go to which
  rank, and transports that the models use as links that deliver or throw.
- **Further request threads of a receiver** (one per context server, independent of
  each other), its shutdown, and `respondAndSendLayerWise`.
- **Overlap and pipeline loops** of the executor, but for the order in which
  `KVCacheReuse` prepares and updates sequences; the timeout clock and the
  `ctx_in_transmission_counter` of the context loop.
- **Secondary (host) pool, beams, retention priorities and events** of the cache
  manager; eviction is left open instead of ordered by priority.
- **Chunked context, cross attention, LoRA pages** in the schedulers, and the
  distribution of requests over attention-DP ranks.
- **Sampling, speculative and guided decoding, models, kernels**: numeric work.
- **Executor proxy, RPC, OpenAI server, LLM API, classic C++ batch manager**: not
  specific to disaggregation, or an older loop over the same transceiver.
