---------------------------- MODULE KVCacheReuse ----------------------------
(***************************************************************************)
(* Block reuse in the KV cache manager (WindowBlockManager with one window *)
(* and one beam, LRUEvictionPolicy) as the executor drives it.             *)
(*                                                                         *)
(* The radix tree is the function from the token sequence that leads to a  *)
(* node to the block of the node.  The KV state of a token depends on all  *)
(* the tokens before it, so a slot of a block holds the sequence that ends *)
(* with its token.  Priorities and expiry only say which free block goes   *)
(* first: any free block may be evicted.                                   *)
(***************************************************************************)
EXTENDS Integers, Sequences, FiniteSets, Functions

CONSTANTS
    Requests,
    Prompt,             \* prompt of each request
    Tokens,
    GenTokens,          \* the tokens the model may generate
    Blocks,             \* the primary pool
    TokensPerBlock,
    MaxLen,             \* longest sequence
    Configs,            \* the configurations to consider
    NoRequest

ASSUME ReuseAssumption ==
    /\ TokensPerBlock \in Nat \ {0} /\ MaxLen \in Nat
    /\ Configs \subseteq
         [window : Nat,              \* attention window; below MaxLen it slides (SWA)
          pinners : SUBSET Requests, \* context-only: blocks are pinned for sending
          overlap : BOOLEAN,         \* the next batch is prepared before the update
          partial : BOOLEAN,         \* mEnablePartialReuse
          copy : BOOLEAN]            \* mCopyOnPartialReuse
    /\ GenTokens \subseteq Tokens
    /\ Prompt \in [Requests -> Seq(Tokens) \ {<< >>}]
    /\ IsFiniteSet(Requests) /\ NoRequest \notin Requests
    /\ \A r \in Requests : Len(Prompt[r]) <= MaxLen

VARIABLES
    config,
    tree,    \* mCachedBlocksRoot: token sequence -> block
    mem,     \* the pools: block -> slot -> token sequence
    ref,     \* mRefCount
    queued,  \* entries of the block in mFreeQueues
    owner,   \* mBlockToSequence
    valid,   \* mIsValidStoreForReuseSequence
    stage,   \* "new", "added", "context", "computed", "generation" or "removed"
    dirty,   \* a forward pass of the request was not yet followed by its update
    tokens,  \* getUniqueTokens
    pos,     \* tokens whose KV state is in the blocks
    held,    \* mAllocatedBlocksPerSeq
    front,   \* mNumFrontBlocksRemoved
    pins,    \* block ids kept in ctx_in_transmission_requests
    rekeyed, \* history: a block of the tree was stored under a second key
    unclaimed \* history: a block of the free queues was pinned

manager == <<tree, mem, ref, queued, owner, valid>>
request == <<stage, dirty, tokens, pos, held, front, pins>>
vars == <<config, manager, request, rekeyed, unclaimed>>

IsSWA == config.window < MaxLen

Init ==
    /\ config \in Configs
    /\ tree = [p \in {} |-> NoRequest]
    /\ mem = [b \in Blocks |-> [j \in 1 .. TokensPerBlock |-> << >>]]
    /\ ref = [b \in Blocks |-> 0]
    /\ queued = [b \in Blocks |-> 1]
    /\ owner = [b \in Blocks |-> NoRequest]
    /\ valid = [r \in Requests |-> TRUE]
    /\ stage = [r \in Requests |-> "new"]
    /\ dirty = [r \in Requests |-> FALSE]
    /\ tokens = Prompt
    /\ pos = [r \in Requests |-> 0]
    /\ held = [r \in Requests |-> << >>]
    /\ front = [r \in Requests |-> 0]
    /\ pins = [r \in Requests |-> {}]
    /\ rekeyed = FALSE /\ unclaimed = FALSE

-----------------------------------------------------------------------------
(* Positions, blocks and keys.                                             *)

Least(a, b) == IF a <= b THEN a ELSE b

Prefix(s, n) == SubSeq(s, 1, n)

BlockOf(i) == ((i - 1) \div TokensPerBlock) + 1

SlotOf(i) == ((i - 1) % TokensPerBlock) + 1

\* ceilDiv(n, tokensPerBlock)
NumBlocks(n) == (n + TokensPerBlock - 1) \div TokensPerBlock

\* The lengths at which chopVectorIntoBlocks cuts n usable tokens.
Cuts(n, allowPartial) ==
    {c \in 1 .. n : \/ c % TokensPerBlock = 0
                    \/ allowPartial /\ c = n}

\* The node above that of p.
Parent(p) == Prefix(p, (BlockOf(Len(p)) - 1) * TokensPerBlock)

\* q is p or a node above p; nodes of partly filled blocks are leaves.
Above(q, p) ==
    \/ q = p
    \/ Len(q) % TokensPerBlock = 0 /\ Len(q) < Len(p) /\ Prefix(p, Len(q)) = q

IsLeaf(p) == \A q \in DOMAIN tree : Above(p, q) => q = p

InUse(r) == stage[r] \in {"added", "context", "computed", "generation"}

-----------------------------------------------------------------------------
(* WindowBlockManager.                                                     *)

\* freeBlockAndAllDescendants of the blocks in E
Without(t, E) ==
    [p \in {q \in DOMAIN t : \A a \in DOMAIN t : Above(a, q) => t[a] \notin E}
        |-> t[p]]

\* storeBlocks of the first n tokens of s, held in the blocks bs.  Nodes that
\* are there already stay; with a node all nodes above it are there.
Stored(t, s, n, allowPartial, bs) ==
    LET new == {Prefix(s, c) : c \in {d \in Cuts(n, allowPartial) : BlockOf(d) <= Len(bs)}}
                   \ DOMAIN t
    IN  [p \in DOMAIN t \cup new |->
           IF p \in new THEN bs[BlockOf(Len(p))] ELSE t[p]]

\* Mutant: the last token, whose KV state is not written yet, counts.
UsableAll(r, s, n) == IF n < Len(Prompt[r]) THEN Least(Len(s), n) ELSE Len(s)

\* getUsableUniqueTokenCountForReuse, for s with the KV state up to n
Usable(r, s, n) ==
    LET materialized == IF n < Len(Prompt[r]) THEN Least(Len(s), n) ELSE Len(s)
    IN  IF materialized > 0 THEN materialized - 1 ELSE 0

\* The bookkeeping of getFreeBlock when r takes the blocks of E.
Acquired(r, E) ==
    /\ owner' = [b \in Blocks |-> IF b \in E THEN r ELSE owner[b]]
    /\ valid' = [q \in Requests |->
                   valid[q] /\ ~(q # r /\ InUse(q) /\ \E b \in E : owner[b] = q)]

\* Mutant: the blocks are released although others may refer to them.
DroppedInUse(B) ==
    /\ ref' = [b \in Blocks |-> IF b \in B THEN ref[b] - 1 ELSE ref[b]]
    /\ queued' = [b \in Blocks |-> IF b \in B THEN queued[b] + 1 ELSE queued[b]]

\* The blocks of B lose a reference each; those without one are released.
Dropped(B) ==
    /\ ref' = [b \in Blocks |-> IF b \in B THEN ref[b] - 1 ELSE ref[b]]
    /\ queued' = [b \in Blocks |-> IF b \in B /\ ref[b] = 1 THEN queued[b] + 1 ELSE queued[b]]

\* findNewContextBlock: the first full block of the prompt not in the tree
NewContextBlock(r) ==
    LET new == {c \in Cuts(Len(Prompt[r]), FALSE) : Prefix(Prompt[r], c) \notin DOMAIN tree}
    IN  {Prefix(Prompt[r], c) : c \in {d \in new : \A e \in new : d <= e}}

\* beneficialToSkip: a request in its context phase is about to contribute the
\* block.
BeneficialToSkip(r) ==
    \E q \in Requests :
        stage[q] \in {"added", "context"} /\ NewContextBlock(q) \cap NewContextBlock(r) # {}

\* The number of tokens of the prompt that loadOrAllocateBlocks finds in full
\* blocks; the last token of the prompt is never matched.
FullMatches(r) ==
    LET full == {c \in Cuts(Len(Prompt[r]) - 1, FALSE) :
                   \A d \in Cuts(c, FALSE) : Prefix(Prompt[r], d) \in DOMAIN tree}
    IN  {n \in full \cup {0} : \A c \in full : c <= n}

\* What findMatchingBlock returns after n tokens in full blocks, as the node
\* and the tokens matched with it: the node of the wanted key itself, or with
\* partial reuse one that shares most tokens with it, or none.
Matches(r, n) ==
    LET want == Prefix(Prompt[r], Least(n + TokensPerBlock, Len(Prompt[r]) - 1))
        near == {e \in (DOMAIN tree) \X (n + 1 .. Len(want)) :
                   /\ Parent(e[1]) = Prefix(want, n)
                   /\ e[2] <= Len(e[1]) /\ Prefix(e[1], e[2]) = Prefix(want, e[2])
                   /\ config.copy \/ (ref[tree[e[1]]] = 0 /\ IsLeaf(e[1]))}
    IN  IF Len(want) > n /\ want \in DOMAIN tree THEN {<<want, Len(want)>>}
        ELSE IF config.partial /\ near # {}
             THEN {e \in near : \A f \in near : f[2] <= e[2]}
             ELSE {<< << >>, n>>}

-----------------------------------------------------------------------------
(* The executor's calls.                                                   *)

\* Mutant: a leaf in use is taken as well.
PrivateInUse(c) == c # << >> /\ IsLeaf(c)

\* A leaf that nobody uses becomes private to the sequence.
Private(c) == c # << >> /\ ref[tree[c]] = 0 /\ IsLeaf(c)

\* The blocks claimed from the tree, given the node c matched in part.
Reused(r, n, c) ==
    [i \in 1 .. n \div TokensPerBlock |-> tree[Prefix(Prompt[r], i * TokensPerBlock)]]
    \o (IF Private(c) THEN <<tree[c]>> ELSE << >>)

\* Mutant: a block with a reference gets no other.
ReferencedOnce(B) == [b \in Blocks |-> IF b \in B THEN 1 ELSE ref[b]]

\* incRefCount
Referenced(B) == [b \in Blocks |-> IF b \in B THEN ref[b] + 1 ELSE ref[b]]

\* claimBlock
Claimed(B) ==
    [b \in Blocks |-> IF b \in B /\ queued[b] > 0 THEN queued[b] - 1 ELSE queued[b]]

\* Mutant: nothing is copied.
CopiedNot(b, c, n, m) == mem

\* The first m - n slots of the block of c, copied to the block b.
Copied(b, c, n, m) ==
    [mem EXCEPT ![b] = [j \in 1 .. TokensPerBlock |-> IF j <= m - n THEN mem[tree[c]][j] ELSE @[j]]]

\* addSequence at the first context chunk.  A node matched in part that does
\* not become private is copied to the first of the free blocks.
AddSequence(r) ==
    /\ stage[r] = "new" /\ ~BeneficialToSkip(r)
    /\ config.overlap \/ \A q \in Requests : ~dirty[q]
    /\ \E n \in FullMatches(r) : \E e \in Matches(r, n) :
         LET c == e[1]
             old == Reused(r, n, c)
             spare == {b \in Blocks : Claimed(Range(old))[b] > 0}
         IN  \E new \in Injection(1 .. NumBlocks(Len(Prompt[r])) - Len(old), spare) :
               /\ tree' = Without(IF Private(c) THEN Without(tree, {tree[c]}) ELSE tree, Range(new))
               /\ mem' = IF c = << >> \/ Private(c) THEN mem ELSE Copied(new[1], c, n, e[2])
               /\ ref' = Referenced(Range(old \o new))
               /\ queued' = Claimed(Range(old \o new))
               /\ Acquired(r, Range(new))
               /\ held' = [held EXCEPT ![r] = old \o new]
               /\ pos' = [pos EXCEPT ![r] = e[2]]
    /\ stage' = [stage EXCEPT ![r] = "added"]
    /\ UNCHANGED <<config, dirty, tokens, front, pins, rekeyed, unclaimed>>

\* The forward pass writes the KV state of the tokens of r at I to the blocks
\* bs.
Written(r, bs, I) ==
    [b \in Blocks |-> [j \in 1 .. TokensPerBlock |->
        LET here == {i \in I : bs[BlockOf(i)] = b /\ SlotOf(i) = j}
        IN  IF here = {} THEN mem[b][j] ELSE Prefix(tokens[r], CHOOSE i \in here : TRUE)]]

\* A context chunk; chunks before the last end at the end of a block.
Prefill(r) ==
    /\ stage[r] \in {"added", "context"} /\ (config.overlap \/ ~dirty[r])
    /\ \E e \in pos[r] + 1 .. Len(Prompt[r]) :
         /\ e % TokensPerBlock = 0 \/ e = Len(Prompt[r])
         /\ mem' = Written(r, held[r], pos[r] + 1 .. e)
         /\ pos' = [pos EXCEPT ![r] = e]
         /\ stage' = [stage EXCEPT ![r] = IF e = Len(Prompt[r]) THEN "computed" ELSE "context"]
    /\ dirty' = [dirty EXCEPT ![r] = TRUE]
    /\ UNCHANGED <<config, tree, ref, queued, owner, valid, tokens, held, front, pins,
                   rekeyed, unclaimed>>

\* store_blocks_for_reuse with pin_blocks: the blocks of the nodes that r's
\* tokens lead to get a reference.
StoreAndPin(r, s, n) ==
    LET t == Stored(tree, s, n, TRUE, held[r])
        pinned == {t[Prefix(s, c)] : c \in {d \in Cuts(n, TRUE) : BlockOf(d) <= Len(held[r])}}
    IN  /\ tree' = t
        /\ ref' = Referenced(pinned)
        /\ pins' = [pins EXCEPT ![r] = pinned]
        /\ unclaimed' = \E b \in pinned : queued[b] > 0

\* storeContextBlocks
StoreContextBlocks(r, s, n) ==
    /\ tree' = IF IsSWA THEN tree ELSE Stored(tree, s, n, FALSE, held[r])
    /\ UNCHANGED <<ref, pins, unclaimed>>

\* The update after a context chunk: the last chunk brings the first token.
Update(r) ==
    /\ dirty[r]
    /\ \E g \in GenTokens :
         LET s == IF stage[r] = "computed" THEN Append(tokens[r], g) ELSE tokens[r]
             n == Usable(r, s, pos[r])
         IN  /\ tokens' = [tokens EXCEPT ![r] = s]
             /\ IF stage[r] = "computed" /\ r \in config.pinners
                THEN StoreAndPin(r, s, n)
                ELSE StoreContextBlocks(r, s, n)
    /\ stage' = [stage EXCEPT ![r] = IF @ = "computed" THEN "generation" ELSE @]
    /\ dirty' = [dirty EXCEPT ![r] = FALSE]
    /\ UNCHANGED <<config, mem, queued, owner, valid, pos, held, front, rekeyed>>

\* The front blocks that are out of the window, detached one by one by
\* detachFrontBlock
OutOfWindow(r) ==
    {held[r][i] : i \in {j \in front[r] + 1 .. Len(held[r]) :
        Len(tokens[r]) - (j - 1) * TokensPerBlock >= config.window + TokensPerBlock}}

\* addToken (adjustBlocksIfNeeded) and the forward pass of a generation step
Decode(r) ==
    /\ stage[r] = "generation" /\ r \notin config.pinners /\ Len(tokens[r]) < MaxLen
    /\ LET len == Len(tokens[r])
           out == OutOfWindow(r)
           freed == {b \in out : ref[b] = 1}
           spare == {b \in Blocks : queued[b] > 0} \cup freed
       IN  \E new \in IF (len - 1) % TokensPerBlock = 0 THEN {<<b>> : b \in spare} ELSE {<< >>} :
             /\ tree' = Without(tree, Range(new))
             /\ mem' = Written(r, held[r] \o new, {len})
             /\ ref' = [b \in Blocks |-> ref[b] - (IF b \in out THEN 1 ELSE 0)
                                                + (IF b \in Range(new) THEN 1 ELSE 0)]
             /\ queued' = [b \in Blocks |-> queued[b] + (IF b \in freed THEN 1 ELSE 0)
                                                      - (IF b \in Range(new) THEN 1 ELSE 0)]
             /\ Acquired(r, Range(new))
             /\ held' = [held EXCEPT ![r] = @ \o new]
             /\ front' = [front EXCEPT ![r] = @ + Cardinality(out)]
             /\ pos' = [pos EXCEPT ![r] = len]
    /\ \E g \in GenTokens : tokens' = [tokens EXCEPT ![r] = Append(@, g)]
    /\ UNCHANGED <<config, stage, dirty, pins, rekeyed, unclaimed>>

\* A sequence that has nothing but full blocks of the tree is removed: its last
\* token counts as one without KV state, and storeBlocks puts its last block,
\* a node already, under the key without that token as well.
Rekeys(r) ==
    /\ stage[r] = "added" /\ valid[r]
    /\ pos[r] > 1 /\ pos[r] % TokensPerBlock = 0
    /\ Prefix(tokens[r], pos[r] - 1) \notin DOMAIN tree

\* removeSequence: the request finished, failed or was cancelled.  One whose
\* first forward pass fails (_handle_guided_decoder_errors) is where addSequence
\* has left it.
RemoveSequence(r) ==
    /\ stage[r] \in {"added", "context", "generation"} /\ ~dirty[r]
    /\ tree' = IF valid[r]
               THEN Stored(tree, tokens[r], Usable(r, tokens[r], pos[r]), TRUE, held[r])
               ELSE tree
    /\ Dropped({held[r][i] : i \in front[r] + 1 .. Len(held[r])})
    /\ stage' = [stage EXCEPT ![r] = "removed"]
    /\ held' = [held EXCEPT ![r] = << >>]
    /\ front' = [front EXCEPT ![r] = 0]
    /\ rekeyed' = Rekeys(r)
    /\ UNCHANGED <<config, mem, owner, valid, dirty, tokens, pos, pins, unclaimed>>

\* unpinBlocksById, when the blocks have been sent
Unpin(r) ==
    /\ pins[r] # {}
    /\ Dropped(pins[r])
    /\ pins' = [pins EXCEPT ![r] = {}]
    /\ UNCHANGED <<config, tree, mem, owner, valid, stage, dirty, tokens, pos, held, front,
                   rekeyed, unclaimed>>

\* A block at two nodes has the same children at both, which is no tree any
\* more; a block that is pinned in the free queues is in them twice when it is
\* unpinned, and claimBlock takes out one entry only.  Behaviours are followed
\* up to such a state.
Next ==
    /\ ~rekeyed /\ ~unclaimed
    /\ \E r \in Requests :
         \/ AddSequence(r) \/ Prefill(r) \/ Update(r) \/ Decode(r)
         \/ RemoveSequence(r) \/ Unpin(r)

Spec == Init /\ [][Next]_vars

-----------------------------------------------------------------------------
(* Types.                                                                  *)
TypeOK ==
    /\ config \in Configs
    /\ DOMAIN tree \subseteq Seq(Tokens) \ {<< >>} /\ tree \in [DOMAIN tree -> Blocks]
    /\ mem \in [Blocks -> [1 .. TokensPerBlock -> Seq(Tokens)]]
    /\ ref \in [Blocks -> Nat] /\ queued \in [Blocks -> Nat]
    /\ owner \in [Blocks -> Requests \cup {NoRequest}]
    /\ valid \in [Requests -> BOOLEAN]
    /\ stage \in [Requests ->
                    {"new", "added", "context", "computed", "generation", "removed"}]
    /\ dirty \in [Requests -> BOOLEAN]
    /\ tokens \in [Requests -> Seq(Tokens)]
    /\ pos \in [Requests -> Nat] /\ front \in [Requests -> Nat]
    /\ held \in [Requests -> Seq(Blocks)]
    /\ pins \in [Requests -> SUBSET Blocks]
    /\ rekeyed \in BOOLEAN /\ unclaimed \in BOOLEAN

\* The blocks r has a reference to.
Holds(r) == {held[r][i] : i \in front[r] + 1 .. Len(held[r])}

(* A block's reference count is the number of sequences that hold it and   *)
(* of transfers it is pinned for, through matches, copies, evictions,      *)
(* detached front blocks and removals, also right after addSequence.       *)
RefsCounted ==
    \A b \in Blocks :
        ref[b] = Cardinality({r \in Requests : b \in Holds(r)})
                   + Cardinality({r \in Requests : b \in pins[r]})

(* verifyQueueIntegrity ("Found block (id %d) with references"): a block is *)
(* in the free queues, once, exactly when nothing refers to it.  A request *)
(* that pins a block of the free queues breaks this (kv_reuse_nested).     *)
QueueIntegrity ==
    \A b \in Blocks : queued[b] = IF ref[b] = 0 THEN 1 ELSE 0

\* Three things the code does that TreeTruth and StorageValid except.  With a
\* sliding window a sequence stays valid for reuse when it takes its own detached
\* front block again, or when another takes one that it had matched, which
\* mBlockToSequence does not record.  A sequence removed right after addSequence
\* can put a block at a second node (Rekeys).  A block that is pinned in the free
\* queues can be evicted while it is sent.
Intact == ~IsSWA /\ ~rekeyed /\ ~unclaimed

(* Whatever leads to a node, its block holds the KV state of just those    *)
(* tokens, and the nodes above it are in the tree: a match never brings    *)
(* the cache of other tokens, although blocks are evicted, made private,   *)
(* copied and stored again meanwhile.  A block is at one node only, so     *)
(* that removing the node of its mBlockKey leaves no other behind.  The    *)
(* exceptions are those of Intact.                                         *)
TreeTruth ==
    Intact => \A p \in DOMAIN tree :
        /\ \A q \in DOMAIN tree : tree[q] = tree[p] => q = p
        /\ \A i \in Len(Parent(p)) + 1 .. Len(p) : mem[tree[p]][SlotOf(i)] = Prefix(p, i)
        /\ Parent(p) \in DOMAIN tree \cup {<< >>}

(* "Record whether a sequence has all blocks held valid": the blocks of a  *)
(* sequence recorded as valid hold the KV state of its tokens, with the    *)
(* exceptions of Intact.                                                   *)
StorageValid ==
    Intact => \A r \in Requests : InUse(r) /\ valid[r] =>
        \A i \in 1 .. pos[r] : mem[held[r][BlockOf(i)]][SlotOf(i)] = Prefix(tokens[r], i)

(* Until its transfer ends a context-only request can be found in the tree *)
(* by its tokens, in blocks pinned for it, although its sequence has been  *)
(* removed and its blocks freed.  This ends with a request that pins a     *)
(* block of the free queues: one that is not its own and that storeBlocks  *)
(* found in the tree without a reference, as where a prompt is the         *)
(* beginning of another; it is not claimed and can be evicted.  It ends    *)
(* with Rekeys as well.                                                    *)
SendableWhilePinned ==
    ~rekeyed /\ ~unclaimed => \A r \in Requests : pins[r] # {} =>
        \A c \in Cuts(Len(Prompt[r]), TRUE) :
            /\ Prefix(Prompt[r], c) \in DOMAIN tree
            /\ tree[Prefix(Prompt[r], c)] \in pins[r]
=============================================================================
