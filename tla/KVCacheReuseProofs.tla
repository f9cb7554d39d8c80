------------------------- MODULE KVCacheReuseProofs -------------------------
(***************************************************************************)
(* Proofs about KVCacheReuse, for any requests, prompts, number and size   *)
(* of blocks and length of sequences, on a server that pins no blocks and  *)
(* has full attention (PlainConfig).                                       *)
(***************************************************************************)
EXTENDS KVCacheReuse, TLAPS

\* Full attention, and no context-only requests.
PlainConfig == config.pinners = {} /\ config.window >= MaxLen

\* The tokens in k full blocks.
Filled(k) == k * TokensPerBlock

\* The k-th block of r is written and will be stored in full when r is removed.
Settled(r, k) == Filled(k) <= pos[r] /\ (stage[r] = "context" => Filled(k) < pos[r])

\* What the stage of a request says of its tokens and blocks.
Staged(r) ==
    /\ pins[r] = {} /\ front[r] = 0
    /\ stage[r] \in {"new", "removed"} => held[r] = << >>
    /\ stage[r] \in {"new", "added", "context", "computed"} => tokens[r] = Prompt[r]
    /\ stage[r] \in {"added", "context"} => pos[r] < Len(Prompt[r])
    /\ stage[r] = "computed" => pos[r] = Len(Prompt[r])
    /\ stage[r] = "generation" => pos[r] >= Len(Prompt[r]) /\ Len(tokens[r]) = pos[r] + 1
    /\ stage[r] \in {"added", "context", "computed"} => Len(held[r]) = NumBlocks(Len(Prompt[r]))
    /\ stage[r] = "generation" => Len(held[r]) = NumBlocks(pos[r])
    /\ dirty[r] => stage[r] \in {"context", "computed"}

\* The blocks of a sequence are distinct.
NoRepeat(bs) == \A i, j \in 1 .. Len(bs) : bs[i] = bs[j] => i = j

Distinct(r) == NoRepeat(held[r])

\* Sequences share only blocks that are full of the same tokens.
Shares(r, q) ==
    \A i \in 1 .. Len(held[r]), j \in 1 .. Len(held[q]) :
        held[r][i] = held[q][j] => i = j /\ Settled(r, i)

\* A block of a running sequence that is in the tree is full of its tokens.
Found(r, p) ==
    \A i \in 1 .. Len(held[r]) : tree[p] = held[r][i] => Len(p) = Filled(i) /\ Settled(r, i)

\* The blocks of a sequence have the KV state of its tokens.
Content(r) ==
    \A i \in 1 .. pos[r] : mem[held[r][BlockOf(i)]][SlotOf(i)] = Prefix(tokens[r], i)

\* The block of a node has the KV state of the node's tokens.
Truth(p) ==
    /\ \A i \in Len(Parent(p)) + 1 .. Len(p) : mem[tree[p]][SlotOf(i)] = Prefix(p, i)
    /\ Parent(p) \in DOMAIN tree \cup {<< >>}

\* Reference counts and free queues.
Holders(b) == {r \in Requests : b \in Holds(r)}

Counted(b) == ref[b] = Cardinality(Holders(b)) /\ queued[b] = IF ref[b] = 0 THEN 1 ELSE 0

\* No sequence but r has b.
Exclusive(r, b) ==
    \A q \in Requests \ {r} : \A j \in 1 .. Len(held[q]) : held[q][j] # b

\* t is tree with some branches removed.
Pruned(t) ==
    /\ DOMAIN t \subseteq DOMAIN tree
    /\ \A p \in DOMAIN t : t[p] = tree[p]
    /\ \A p \in DOMAIN t : Parent(p) \in DOMAIN tree => Parent(p) \in DOMAIN t

StagedInv == \A r \in Requests : Staged(r)

DistinctInv == \A r \in Requests : Distinct(r)

ShareInv == \A r, q \in Requests : r # q => Shares(r, q)

ContentInv == \A r \in Requests : InUse(r) => Content(r)

TruthInv == \A p \in DOMAIN tree : Truth(p)

FoundInv == \A p \in DOMAIN tree, r \in Requests : Found(r, p)

UniqueInv == \A p, q \in DOMAIN tree : tree[p] = tree[q] => p = q

CountInv == \A b \in Blocks : Counted(b)

IInv ==
    /\ TypeOK /\ PlainConfig /\ StagedInv /\ DistinctInv /\ ShareInv /\ ContentInv
    /\ TruthInv /\ FoundInv /\ UniqueInv /\ CountInv

\* What is left of it once a block is at two nodes.
Rest == TypeOK /\ PlainConfig /\ StagedInv /\ CountInv

-----------------------------------------------------------------------------
(* Positions and blocks.                                                   *)

\* mTokensPerBlock is positive.
LEMMA SizeType == TokensPerBlock \in Nat /\ TokensPerBlock > 0
BY ReuseAssumption

\* Division with remainder by the size of a block.
LEMMA DivMod ==
    ASSUME NEW n \in Nat
    PROVE  /\ n \div TokensPerBlock \in Nat
           /\ n % TokensPerBlock \in 0 .. TokensPerBlock - 1
           /\ n = (n \div TokensPerBlock) * TokensPerBlock + (n % TokensPerBlock)
BY SizeType, Z3

\* Full blocks end at the multiples of the size of a block.
LEMMA FilledLaws ==
    /\ Filled(0) = 0
    /\ \A k \in Nat : Filled(k) \in Nat /\ Filled(k + 1) = Filled(k) + TokensPerBlock
    /\ \A k, m \in Nat : k < m => Filled(k) + TokensPerBlock <= Filled(m)
    /\ \A k \in Nat \ {0} : BlockOf(Filled(k)) = k /\ SlotOf(Filled(k)) = TokensPerBlock
    /\ \A k \in Nat : Filled(k) % TokensPerBlock = 0
<1>1. /\ Filled(0) = 0
      /\ \A k \in Nat : Filled(k) \in Nat /\ Filled(k + 1) = Filled(k) + TokensPerBlock
      /\ \A k, m \in Nat : k < m => Filled(k) + TokensPerBlock <= Filled(m)
  BY SizeType, Z3 DEF Filled
<1>2. \A k \in Nat \ {0} : BlockOf(Filled(k)) = k /\ SlotOf(Filled(k)) = TokensPerBlock
  BY SizeType, Z3 DEF Filled, BlockOf, SlotOf
<1>3. \A k \in Nat : Filled(k) % TokensPerBlock = 0
  BY SizeType, Z3 DEF Filled
<1>. QED  BY Zenon, <1>1, <1>2, <1>3

\* Where the i-th token is.
LEMMA Place ==
    ASSUME NEW i \in Nat \ {0}
    PROVE  /\ BlockOf(i) \in Nat \ {0} /\ SlotOf(i) \in 1 .. TokensPerBlock
           /\ Filled(BlockOf(i) - 1) \in Nat /\ Filled(BlockOf(i)) \in Nat
           /\ Filled(BlockOf(i) - 1) < i /\ i <= Filled(BlockOf(i))
           /\ Filled(BlockOf(i)) = Filled(BlockOf(i) - 1) + TokensPerBlock
           /\ NumBlocks(i) = BlockOf(i)
BY SizeType, Z3 DEF Filled, BlockOf, SlotOf, NumBlocks

\* A position after k full blocks is in the next one.
LEMMA InBlock ==
    ASSUME NEW i \in Nat \ {0}, NEW k \in Nat, Filled(k) < i, i <= Filled(k) + TokensPerBlock
    PROVE  BlockOf(i) = k + 1
BY SizeType, Z3 DEF Filled, BlockOf

\* Different positions have different places.
LEMMA SamePlace ==
    ASSUME NEW i \in Nat \ {0}, NEW j \in Nat \ {0},
           BlockOf(i) = BlockOf(j), SlotOf(i) = SlotOf(j)
    PROVE  i = j
BY SizeType, Z3 DEF BlockOf, SlotOf

\* Earlier positions are in earlier blocks.
LEMMA LaterBlock ==
    ASSUME NEW j \in Nat \ {0}, NEW i \in 1 .. j
    PROVE  BlockOf(i) \in 1 .. BlockOf(j)
BY SizeType, Z3 DEF BlockOf

\* A position is a multiple of the size just when it ends its block.
LEMMA FullBlock ==
    ASSUME NEW i \in Nat \ {0}
    PROVE  i % TokensPerBlock = 0 <=> i = Filled(BlockOf(i))
<1>1. ASSUME i % TokensPerBlock = 0 PROVE i = Filled(BlockOf(i))
  <2>1. /\ i \div TokensPerBlock \in Nat
        /\ i = (i \div TokensPerBlock) * TokensPerBlock + (i % TokensPerBlock)
    BY Zenon, DivMod
  <2>2. \A k \in Nat : i = k * TokensPerBlock + 0 => k # 0 /\ i = Filled(k)
    BY SizeType, Z3 DEF Filled
  <2>3. i = Filled(i \div TokensPerBlock) /\ i \div TokensPerBlock \in Nat \ {0}
    BY Zenon, <1>1, <2>1, <2>2
  <2>. QED  BY Zenon, <2>3, FilledLaws
<1>2. ASSUME i = Filled(BlockOf(i)) PROVE i % TokensPerBlock = 0
  BY Zenon, <1>2, FilledLaws, Place
<1>. QED  BY Zenon, <1>1, <1>2

\* addToken needs another block just when the last one is full.
LEMMA NextBlock ==
    ASSUME NEW n \in Nat \ {0}
    PROVE  BlockOf(n + 1) = IF n % TokensPerBlock = 0 THEN BlockOf(n) + 1 ELSE BlockOf(n)
BY SizeType, Z3 DEF BlockOf

-----------------------------------------------------------------------------
(* Token sequences and nodes.                                              *)

\* An element of a sequence over S is in S.
LEMMA ElementOfSeq ==
    ASSUME NEW S, NEW s \in Seq(S), NEW i \in 1 .. Len(s)
    PROVE  s[i] \in S
OBVIOUS

\* A prefix is a token sequence of the length asked for.
LEMMA PrefixType ==
    ASSUME NEW s \in Seq(Tokens), NEW n \in 0 .. Len(s)
    PROVE  Prefix(s, n) \in Seq(Tokens) /\ Len(Prefix(s, n)) = n
BY DEF Prefix

\* A prefix of a prefix is a prefix.
LEMMA PrefixPrefix ==
    ASSUME NEW s \in Seq(Tokens), NEW n \in 0 .. Len(s), NEW m \in 0 .. n
    PROVE  Prefix(Prefix(s, n), m) = Prefix(s, m)
BY DEF Prefix

\* The longest prefix is the sequence itself.
LEMMA PrefixAll ==
    ASSUME NEW s \in Seq(Tokens)
    PROVE  Prefix(s, Len(s)) = s
BY DEF Prefix

\* A generated token changes no prefix before it.
LEMMA PrefixAppend ==
    ASSUME NEW s \in Seq(Tokens), NEW g \in Tokens, NEW n \in 0 .. Len(s)
    PROVE  Prefix(Append(s, g), n) = Prefix(s, n)
BY DEF Prefix

\* The node above a node ends where the last block of the node begins.
LEMMA ParentLaws ==
    ASSUME NEW p \in Seq(Tokens) \ {<< >>}
    PROVE  /\ Len(p) \in Nat \ {0} /\ Parent(p) \in Seq(Tokens)
           /\ Len(Parent(p)) = Filled(BlockOf(Len(p)) - 1)
           /\ Len(Parent(p)) < Len(p) /\ Len(Parent(p)) % TokensPerBlock = 0
           /\ Prefix(p, Len(Parent(p))) = Parent(p)
<1>1. Len(p) \in Nat \ {0}
  OBVIOUS
<1>. DEFINE k == BlockOf(Len(p)) - 1
<1>2. BlockOf(Len(p)) \in Nat \ {0} /\ Filled(k) \in Nat /\ Filled(k) < Len(p)
  BY Zenon, <1>1, Place
<1>3. Parent(p) = Prefix(p, Filled(k))
  BY Zenon DEF Parent, Filled
<1>4. k \in Nat
  BY <1>2
<1>5. Filled(k) % TokensPerBlock = 0
  BY Zenon, <1>4, FilledLaws
<1>. HIDE DEF k
<1>6. Filled(k) \in 0 .. Len(p)
  BY <1>1, <1>2
<1>7. Parent(p) \in Seq(Tokens) /\ Len(Parent(p)) = Filled(k)
  BY Zenon, <1>3, <1>6, PrefixType
<1>. QED  BY Zenon, <1>1, <1>2, <1>3, <1>5, <1>7 DEF k

\* What is above the parent is above the node.
LEMMA AboveParent ==
    ASSUME NEW p \in Seq(Tokens) \ {<< >>}, NEW a \in Seq(Tokens), Above(a, Parent(p))
    PROVE  Above(a, p)
<1>0. Above(Parent(p), p)
  BY Zenon, ParentLaws DEF Above
<1>1. CASE a = Parent(p)
  BY Zenon, <1>0, <1>1
<1>2. CASE Len(a) % TokensPerBlock = 0 /\ Len(a) < Len(Parent(p)) /\ Prefix(Parent(p), Len(a)) = a
  <2>1. Len(a) < Len(p) /\ Len(a) \in 0 .. Len(Parent(p)) /\ Len(Parent(p)) \in 0 .. Len(p)
    BY <1>2, ParentLaws
  <2>2. Prefix(p, Len(a)) = a
    <3>1. Prefix(Prefix(p, Len(Parent(p))), Len(a)) = Prefix(p, Len(a))
      BY Zenon, <2>1, PrefixPrefix
    <3>. QED  BY Zenon, <1>2, <3>1, ParentLaws
  <2>. QED  BY Zenon, <1>2, <2>1, <2>2 DEF Above
<1>. QED  BY Zenon, <1>1, <1>2 DEF Above

-----------------------------------------------------------------------------
(* The tree and the pools.                                                 *)

TreeType(t) == DOMAIN t \subseteq Seq(Tokens) \ {<< >>} /\ t \in [DOMAIN t -> Blocks]

\* u is t without some branches, those with the blocks of E among them.
Cleared(u, t, E) ==
    /\ DOMAIN u \subseteq DOMAIN t
    /\ \A p \in DOMAIN u :
         /\ u[p] = t[p] /\ t[p] \notin E
         /\ Parent(p) \in DOMAIN t => Parent(p) \in DOMAIN u

\* freeBlockAndAllDescendants keeps nodes with all that is above them.
LEMMA WithoutLaws ==
    ASSUME NEW t, NEW E, TreeType(t), NEW u, u = Without(t, E)
    PROVE  TreeType(u) /\ Cleared(u, t, E)
<1>1. DOMAIN u = {q \in DOMAIN t : \A a \in DOMAIN t : Above(a, q) => t[a] \notin E}
  BY Zenon DEF Without
<1>2. \A p \in DOMAIN u : p \in DOMAIN t /\ u[p] = t[p]
  BY Zenon, <1>1 DEF Without
<1>3. u \in [DOMAIN u -> Blocks]
  <2>1. u = [p \in DOMAIN u |-> t[p]]
    BY Zenon, <1>1 DEF Without
  <2>2. \A p \in DOMAIN u : t[p] \in Blocks
    BY Zenon, <1>2 DEF TreeType
  <2>. QED  BY Zenon, <2>1, <2>2
<1>4. \A p \in DOMAIN u : t[p] \notin E
  BY Zenon, <1>1 DEF Above
<1>5. ASSUME NEW p \in DOMAIN u, Parent(p) \in DOMAIN t
      PROVE  Parent(p) \in DOMAIN u
  <2>1. SUFFICES ASSUME NEW a \in DOMAIN t, Above(a, Parent(p))
                 PROVE  t[a] \notin E
    BY Zenon, <1>1, <1>5
  <2>2. a \in Seq(Tokens) /\ p \in Seq(Tokens) \ {<< >>}
    BY Zenon, <1>2 DEF TreeType
  <2>3. Above(a, p)
    BY Zenon, <2>1, <2>2, AboveParent
  <2>. QED  BY Zenon, <1>1, <2>3
<1>. QED  BY Zenon, <1>2, <1>3, <1>4, <1>5 DEF TreeType, Cleared

\* storeBlocks keeps the nodes, and adds those of the first n tokens.
LEMMA StoredLaws ==
    ASSUME NEW t, NEW s \in Seq(Tokens), NEW n \in 0 .. Len(s), NEW partial \in BOOLEAN,
           NEW bs \in Seq(Blocks), TreeType(t), NEW u, u = Stored(t, s, n, partial, bs)
    PROVE  /\ TreeType(u) /\ DOMAIN t \subseteq DOMAIN u
           /\ \A p \in DOMAIN t : u[p] = t[p]
           /\ \A p \in DOMAIN u \ DOMAIN t :
                /\ Len(p) \in 1 .. n /\ p = Prefix(s, Len(p))
                /\ BlockOf(Len(p)) \in 1 .. Len(bs) /\ u[p] = bs[BlockOf(Len(p))]
                /\ Len(p) = Filled(BlockOf(Len(p))) \/ (partial /\ Len(p) = n)
                /\ Parent(p) \in DOMAIN u \cup {<< >>}
<1>. DEFINE D == {d \in Cuts(n, partial) : BlockOf(d) <= Len(bs)}
            new == {Prefix(s, c) : c \in D} \ DOMAIN t
<1>1. u = [p \in DOMAIN t \cup new |-> IF p \in new THEN bs[BlockOf(Len(p))] ELSE t[p]]
  BY Zenon DEF Stored
<1>2. ASSUME NEW c \in D
      PROVE  /\ c \in 1 .. n /\ Len(Prefix(s, c)) = c /\ Prefix(s, c) \in Seq(Tokens) \ {<< >>}
             /\ c % TokensPerBlock = 0 \/ (partial /\ c = n)
             /\ BlockOf(c) \in 1 .. Len(bs)
  <2>1. c \in 1 .. n /\ (c % TokensPerBlock = 0 \/ (partial /\ c = n)) /\ BlockOf(c) <= Len(bs)
    BY Zenon DEF Cuts
  <2>2. c \in Nat \ {0} /\ c \in 0 .. Len(s)
    BY <2>1
  <2>3. BlockOf(c) \in Nat \ {0}
    BY Zenon, <2>2, Place
  <2>4. Prefix(s, c) \in Seq(Tokens) /\ Len(Prefix(s, c)) = c
    BY Zenon, <2>2, PrefixType
  <2>5. Prefix(s, c) # << >>
    BY <2>2, <2>4
  <2>6. BlockOf(c) \in 1 .. Len(bs)
    BY <2>1, <2>3
  <2>. QED  BY Zenon, <2>1, <2>4, <2>5, <2>6
<1>3. \A c \in 1 .. n : c % TokensPerBlock = 0 /\ BlockOf(c) <= Len(bs) => c \in D
  BY Zenon DEF Cuts
<1>. HIDE DEF D
<1>4. DOMAIN u = DOMAIN t \cup new /\ new \cap DOMAIN t = {}
  BY Zenon, <1>1
<1>5. /\ \A p \in new : u[p] = bs[BlockOf(Len(p))]
      /\ \A p \in DOMAIN t : u[p] = t[p]
  BY Zenon, <1>1
<1>6. ASSUME NEW p \in new
      PROVE  /\ Len(p) \in D /\ p = Prefix(s, Len(p)) /\ p \in Seq(Tokens) \ {<< >>}
             /\ Len(p) \in 1 .. n /\ BlockOf(Len(p)) \in 1 .. Len(bs)
             /\ Len(p) % TokensPerBlock = 0 \/ (partial /\ Len(p) = n)
  <2>1. PICK c \in D : p = Prefix(s, c)
    BY Zenon
  <2>. QED  BY Zenon, <1>2, <2>1
<1>. HIDE DEF new
<1>7. TreeType(u)
  <2>1. DOMAIN u \subseteq Seq(Tokens) \ {<< >>}
    BY Zenon, <1>4, <1>6 DEF TreeType
  <2>2. \A p \in DOMAIN t : t[p] \in Blocks
    BY Zenon DEF TreeType
  <2>3. \A p \in new : bs[BlockOf(Len(p))] \in Blocks
    BY <1>6
  <2>4. u \in [DOMAIN u -> Blocks]
    <3>1. u = [p \in DOMAIN u |-> u[p]]
      BY Zenon, <1>1, <1>4
    <3>2. \A p \in DOMAIN u : u[p] \in Blocks
      BY Zenon, <1>4, <1>5, <2>2, <2>3
    <3>. QED  BY Zenon, <3>1, <3>2
  <2>. QED  BY Zenon, <2>1, <2>4 DEF TreeType
<1>8. ASSUME NEW p \in new
      PROVE  Len(p) = Filled(BlockOf(Len(p))) \/ (partial /\ Len(p) = n)
  <2>1. Len(p) \in Nat \ {0}
    BY <1>6
  <2>. QED  BY Zenon, <1>6, <2>1, FullBlock
<1>9. ASSUME NEW p \in new
      PROVE  Parent(p) \in DOMAIN u \cup {<< >>}
  <2>. DEFINE k == BlockOf(Len(p)) - 1
              c == Filled(k)
  <2>1. p \in Seq(Tokens) \ {<< >>} /\ Len(p) \in 0 .. Len(s) /\ k \in Nat /\ k <= Len(bs)
    BY <1>6
  <2>2. Len(Parent(p)) = c /\ c < Len(p) /\ Prefix(p, c) = Parent(p) /\ c % TokensPerBlock = 0
    BY Zenon, <2>1, ParentLaws
  <2>. HIDE DEF k
  <2>3. c \in Nat /\ (k # 0 => BlockOf(c) = k) /\ (k = 0 => c = 0)
    BY Zenon, <2>1, FilledLaws
  <2>4. c \in 0 .. Len(p)
    BY <2>2, <2>3, <2>1
  <2>5. Parent(p) = Prefix(s, c)
    <3>1. Prefix(Prefix(s, Len(p)), c) = Prefix(s, c)
      BY Zenon, <2>1, <2>4, PrefixPrefix
    <3>. QED  BY Zenon, <1>6, <2>2, <3>1
  <2>6. CASE k = 0
    BY <2>3, <2>5, <2>6 DEF Prefix
  <2>7. CASE k # 0
    <3>1. c # 0
      <4>1. 0 \in Nat /\ 0 < k
        BY <2>1, <2>7
      <4>2. Filled(0) = 0 /\ Filled(0) + TokensPerBlock <= c
        BY Zenon, <2>1, <4>1, FilledLaws
      <4>. QED  BY <4>2, SizeType
    <3>2. c \in 1 .. n
      BY <1>6, <2>2, <2>3, <3>1
    <3>3. c \in D
      BY Zenon, <1>3, <2>1, <2>2, <2>3, <2>7, <3>2
    <3>. QED  BY Zenon, <1>4, <2>5, <3>3 DEF new
  <2>. QED  BY Zenon, <2>6, <2>7
<1>10. \A p \in DOMAIN u \ DOMAIN t : p \in new
  BY Zenon, <1>4
<1>. QED  BY Zenon, <1>4, <1>5, <1>6, <1>7, <1>8, <1>9, <1>10

MemType(m) == m \in [Blocks -> [1 .. TokensPerBlock -> Seq(Tokens)]]

\* w is mem with the KV state of r's tokens at I in the blocks bs.
WroteOnly(w, r, bs, I) ==
    /\ \A i \in I : w[bs[BlockOf(i)]][SlotOf(i)] = Prefix(tokens[r], i)
    /\ \A b \in Blocks, j \in 1 .. TokensPerBlock :
         (\A i \in I : bs[BlockOf(i)] # b \/ SlotOf(i) # j) => w[b][j] = mem[b][j]

\* The forward pass writes the slots of the positions of I, and no others.
LEMMA WrittenLaws ==
    ASSUME NEW r \in Requests, tokens[r] \in Seq(Tokens), MemType(mem),
           NEW bs \in Seq(Blocks), NEW I, I \subseteq 1 .. Len(tokens[r]),
           NoRepeat(bs), \A i \in I : BlockOf(i) \in 1 .. Len(bs),
           NEW w, w = Written(r, bs, I)
    PROVE  MemType(w) /\ WroteOnly(w, r, bs, I)
<1>. DEFINE Here(b, j) == {i \in I : bs[BlockOf(i)] = b /\ SlotOf(i) = j}
            Cell(b, j) == IF Here(b, j) = {} THEN mem[b][j]
                          ELSE Prefix(tokens[r], CHOOSE i \in Here(b, j) : TRUE)
<1>1. w = [b \in Blocks |-> [j \in 1 .. TokensPerBlock |-> Cell(b, j)]]
  BY Zenon DEF Written
<1>. HIDE DEF Cell
<1>2. ASSUME NEW b \in Blocks, NEW j \in 1 .. TokensPerBlock
      PROVE  w[b][j] = Cell(b, j)
  <2>1. w[b] = [i \in 1 .. TokensPerBlock |-> Cell(b, i)]
    BY Zenon, <1>1
  <2>2. [i \in 1 .. TokensPerBlock |-> Cell(b, i)][j] = Cell(b, j)
    OBVIOUS
  <2>. QED  BY Zenon, <2>1, <2>2
<1>3. \A i \in I : i \in Nat \ {0} /\ i \in 0 .. Len(tokens[r])
  OBVIOUS
<1>4. \A i \in I : Prefix(tokens[r], i) \in Seq(Tokens)
  BY Zenon, <1>3, PrefixType
<1>5. ASSUME NEW b \in Blocks, NEW j \in 1 .. TokensPerBlock
      PROVE  Cell(b, j) \in Seq(Tokens)
  <2>1. CASE Here(b, j) = {}
    <3>1. mem[b] \in [1 .. TokensPerBlock -> Seq(Tokens)]
      BY Zenon DEF MemType
    <3>2. mem[b][j] \in Seq(Tokens)
      BY Zenon, <3>1
    <3>. QED  BY Zenon, <2>1, <3>2 DEF Cell
  <2>2. CASE Here(b, j) # {}
    <3>1. (CHOOSE i \in Here(b, j) : TRUE) \in Here(b, j)
      BY Zenon, <2>2
    <3>2. (CHOOSE i \in Here(b, j) : TRUE) \in I
      BY Zenon, <3>1
    <3>. QED  BY Zenon, <1>4, <2>2, <3>2 DEF Cell
  <2>. QED  BY Zenon, <2>1, <2>2
<1>6. MemType(w)
  <2>1. \A b \in Blocks : [j \in 1 .. TokensPerBlock |-> Cell(b, j)]
                           \in [1 .. TokensPerBlock -> Seq(Tokens)]
    BY Zenon, <1>5
  <2>. QED  BY Zenon, <1>1, <2>1 DEF MemType
<1>7. ASSUME NEW i \in I
      PROVE  w[bs[BlockOf(i)]][SlotOf(i)] = Prefix(tokens[r], i)
  <2>. DEFINE b == bs[BlockOf(i)]
              j == SlotOf(i)
  <2>1. b \in Blocks
    BY Zenon, ElementOfSeq
  <2>2. j \in 1 .. TokensPerBlock
    BY Zenon, <1>3, Place
  <2>3. \A x \in Here(b, j) : x = i
    BY Zenon, <1>3, SamePlace DEF NoRepeat
  <2>4. i \in Here(b, j)
    OBVIOUS
  <2>5. (CHOOSE x \in Here(b, j) : TRUE) = i
    BY Zenon, <2>3, <2>4
  <2>6. Cell(b, j) = Prefix(tokens[r], i)
    BY Zenon, <2>4, <2>5 DEF Cell
  <2>. QED  BY Zenon, <1>2, <2>1, <2>2, <2>6
<1>8. ASSUME NEW b \in Blocks, NEW j \in 1 .. TokensPerBlock,
             \A i \in I : bs[BlockOf(i)] # b \/ SlotOf(i) # j
      PROVE  w[b][j] = mem[b][j]
  <2>1. Here(b, j) = {}
    BY Zenon, <1>8
  <2>. QED  BY Zenon, <1>2, <2>1 DEF Cell
<1>. QED  BY Zenon, <1>6, <1>7, <1>8 DEF WroteOnly

-----------------------------------------------------------------------------
(* Storing and writing.                                                    *)

\* What TypeOK says of one request.
LEMMA Types ==
    ASSUME IInv, NEW r \in Requests
    PROVE  /\ tokens[r] \in Seq(Tokens) /\ held[r] \in Seq(Blocks) /\ pos[r] \in Nat
           /\ Len(held[r]) \in Nat /\ Len(tokens[r]) \in Nat
           /\ Prompt[r] \in Seq(Tokens) /\ Len(Prompt[r]) \in Nat \ {0}
           /\ TreeType(tree) /\ MemType(mem)
<1>1. tokens[r] \in Seq(Tokens) /\ held[r] \in Seq(Blocks) /\ pos[r] \in Nat
  BY Zenon DEF IInv, TypeOK
<1>2. TreeType(tree) /\ MemType(mem)
  BY Zenon DEF IInv, TypeOK, TreeType, MemType
<1>3. Prompt[r] \in Seq(Tokens) \ {<< >>}
  BY Zenon, ReuseAssumption
<1>4. Len(Prompt[r]) \in Nat \ {0}
  BY <1>3
<1>5. Len(held[r]) \in Nat /\ Len(tokens[r]) \in Nat
  BY <1>1
<1>. QED  BY Zenon, <1>1, <1>2, <1>3, <1>4, <1>5

\* The blocks of a sequence are enough for its KV state.
LEMMA LongEnough ==
    ASSUME IInv, NEW r \in Requests, InUse(r), NEW i \in 1 .. pos[r]
    PROVE  BlockOf(i) \in 1 .. Len(held[r])
<1>1. Staged(r)
  BY Zenon DEF IInv, StagedInv
<1>2. PICK n \in Nat \ {0} : n >= pos[r] /\ Len(held[r]) = NumBlocks(n)
  <2>1. CASE stage[r] = "generation"
    <3>1. pos[r] >= Len(Prompt[r]) /\ Len(held[r]) = NumBlocks(pos[r])
      BY Zenon, <1>1, <2>1 DEF Staged
    <3>2. pos[r] \in Nat \ {0}
      BY Types
    <3>. QED  BY <3>1, <3>2
  <2>2. CASE stage[r] \in {"added", "context", "computed"}
    <3>1. Len(held[r]) = NumBlocks(Len(Prompt[r]))
      BY Zenon, <1>1, <2>2 DEF Staged
    <3>2. pos[r] < Len(Prompt[r]) \/ pos[r] = Len(Prompt[r])
      BY Zenon, <1>1, <2>2 DEF Staged
    <3>3. Len(Prompt[r]) >= pos[r] /\ Len(Prompt[r]) \in Nat \ {0}
      BY <3>2, Types
    <3>. QED  BY <3>1, <3>3
  <2>. QED  BY Zenon, <2>1, <2>2 DEF InUse
<1>3. i \in 1 .. n
  BY <1>2, Types
<1>4. BlockOf(i) \in 1 .. BlockOf(n) /\ NumBlocks(n) = BlockOf(n)
  BY Zenon, <1>2, <1>3, LaterBlock, Place
<1>. QED  BY Zenon, <1>2, <1>4

\* A node with a block of r is a prefix of r's tokens.
LEMMA OwnNode ==
    ASSUME IInv, NEW r \in Requests, NEW p \in DOMAIN tree,
           NEW k \in 1 .. Len(held[r]), tree[p] = held[r][k]
    PROVE  /\ Len(p) = Filled(k) /\ Settled(r, k) /\ p = Prefix(tokens[r], Filled(k))
           /\ Filled(k) \in 1 .. pos[r]
<1>1. Len(p) = Filled(k) /\ Settled(r, k) /\ Truth(p)
  BY Zenon DEF IInv, FoundInv, Found, TruthInv
<1>2. InUse(r) /\ Content(r)
  <2>1. held[r] # << >>
    BY Types
  <2>2. Staged(r) /\ stage[r] \in {"new", "added", "context", "computed", "generation", "removed"}
    BY Zenon DEF IInv, StagedInv, TypeOK
  <2>3. InUse(r)
    BY Zenon, <2>1, <2>2 DEF Staged, InUse
  <2>. QED  BY Zenon, <2>3 DEF IInv, ContentInv
<1>3. p \in Seq(Tokens) \ {<< >>}
  BY Zenon, Types DEF TreeType
<1>4. Len(p) \in Nat \ {0} /\ Len(Parent(p)) < Len(p) /\ Parent(p) \in Seq(Tokens)
  BY Zenon, <1>3, ParentLaws
<1>5. Len(p) \in Len(Parent(p)) + 1 .. Len(p)
  BY <1>4
<1>6. mem[tree[p]][SlotOf(Len(p))] = p
  BY Zenon, <1>1, <1>3, <1>5, PrefixAll DEF Truth
<1>7. Filled(k) <= pos[r]
  BY Zenon, <1>1 DEF Settled
<1>8. Filled(k) \in 1 .. pos[r]
  BY <1>1, <1>4, <1>7, Types
<1>9. k \in Nat \ {0}
  BY Types
<1>10. BlockOf(Filled(k)) = k
  BY Zenon, <1>9, FilledLaws
<1>11. mem[held[r][k]][SlotOf(Filled(k))] = Prefix(tokens[r], Filled(k))
  BY Zenon, <1>2, <1>8, <1>10 DEF Content
<1>. QED  BY Zenon, <1>1, <1>6, <1>8, <1>11

\* Storing the blocks of r makes nodes that hold what leads to them.
LEMMA StoreStep ==
    ASSUME IInv, NEW r \in Requests, InUse(r), NEW s \in Seq(Tokens), NEW n \in 0 .. Len(s),
           n <= pos[r], \A i \in 1 .. n : Prefix(s, i) = Prefix(tokens[r], i),
           NEW partial \in BOOLEAN,
           partial => \A k \in 1 .. Len(held[r]) : Settled(r, k) => Filled(k) <= n,
           tree' = Stored(tree, s, n, partial, held[r]), mem' = mem
    PROVE  /\ TreeType(tree)' /\ TruthInv' /\ UniqueInv'
           /\ \A p \in DOMAIN tree' :
                \/ p \in DOMAIN tree /\ tree'[p] = tree[p]
                \/ \E k \in 1 .. Len(held[r]) :
                     /\ tree'[p] = held[r][k] /\ Len(p) <= n
                     /\ ~partial \/ Settled(r, k) => Len(p) = Filled(k)
<1>1. /\ TreeType(tree') /\ DOMAIN tree \subseteq DOMAIN tree'
      /\ \A p \in DOMAIN tree : tree'[p] = tree[p]
      /\ \A p \in DOMAIN tree' \ DOMAIN tree :
           /\ Len(p) \in 1 .. n /\ p = Prefix(s, Len(p))
           /\ BlockOf(Len(p)) \in 1 .. Len(held[r]) /\ tree'[p] = held[r][BlockOf(Len(p))]
           /\ Len(p) = Filled(BlockOf(Len(p))) \/ (partial /\ Len(p) = n)
           /\ Parent(p) \in DOMAIN tree' \cup {<< >>}
  <2>1. TreeType(tree) /\ held[r] \in Seq(Blocks)
    BY Zenon, Types
  <2>. QED  BY <2>1, StoredLaws
<1>2. TreeType(tree)'
  BY Zenon, <1>1 DEF TreeType
<1>3. \A p \in DOMAIN tree' : p \in Seq(Tokens) \ {<< >>}
  BY Zenon, <1>1 DEF TreeType
<1>4. ASSUME NEW p \in DOMAIN tree' \ DOMAIN tree
      PROVE  /\ Len(p) \in Nat \ {0} /\ Filled(BlockOf(Len(p))) \in Nat
             /\ Len(p) <= Filled(BlockOf(Len(p))) /\ Len(p) <= n
  <2>1. Len(p) \in Nat \ {0} /\ Len(p) <= n
    BY <1>1
  <2>. QED  BY Zenon, <2>1, Place
<1>5. ASSUME NEW p \in DOMAIN tree' \ DOMAIN tree, Filled(BlockOf(Len(p))) <= n
      PROVE  Len(p) = Filled(BlockOf(Len(p)))
  BY <1>1, <1>4, <1>5
<1>6. TruthInv'
  <2>1. SUFFICES ASSUME NEW p \in DOMAIN tree' PROVE Truth(p)'
    BY Zenon DEF TruthInv
  <2>2. CASE p \in DOMAIN tree
    <3>1. Truth(p)
      BY Zenon, <2>2 DEF IInv, TruthInv
    <3>. QED  BY Zenon, <1>1, <2>2, <3>1 DEF Truth
  <2>3. CASE p \notin DOMAIN tree
    <3>. DEFINE k == BlockOf(Len(p))
    <3>1. p \in DOMAIN tree' \ DOMAIN tree /\ p \in Seq(Tokens) \ {<< >>}
      BY Zenon, <1>3, <2>3
    <3>2. ASSUME NEW i \in Len(Parent(p)) + 1 .. Len(p)
          PROVE  mem'[tree'[p]][SlotOf(i)] = Prefix(p, i)
      <4>1. /\ Len(p) \in Nat \ {0} /\ Len(Parent(p)) = Filled(k - 1)
            /\ Filled(k - 1) \in Nat /\ Filled(k) = Filled(k - 1) + TokensPerBlock
            /\ k \in Nat \ {0} /\ Len(p) <= Filled(k) /\ Len(p) <= n
        BY Zenon, <1>4, <3>1, Place, ParentLaws
      <4>. HIDE DEF k
      <4>2. /\ i \in Nat \ {0} /\ Filled(k - 1) < i /\ i <= Filled(k - 1) + TokensPerBlock
            /\ k - 1 \in Nat /\ i \in 0 .. Len(p) /\ i \in 1 .. n /\ i \in 1 .. pos[r]
            /\ (k - 1) + 1 = k /\ Len(p) \in 0 .. Len(s)
        BY <4>1, SizeType, Types
      <4>3. BlockOf(i) = k
        BY Zenon, <4>2, InBlock
      <4>4. mem[held[r][k]][SlotOf(i)] = Prefix(tokens[r], i)
        BY Zenon, <4>2, <4>3 DEF IInv, ContentInv, Content
      <4>5. Prefix(p, i) = Prefix(s, i)
        <5>1. Prefix(Prefix(s, Len(p)), i) = Prefix(s, i)
          BY Zenon, <4>2, PrefixPrefix
        <5>2. p = Prefix(s, Len(p))
          BY Zenon, <1>1, <3>1
        <5>. QED  BY Zenon, <5>1, <5>2
      <4>. QED  BY Zenon, <1>1, <3>1, <4>2, <4>4, <4>5 DEF k
    <3>. QED  BY Zenon, <1>1, <3>1, <3>2 DEF Truth
  <2>. QED  BY Zenon, <2>2, <2>3
<1>7. ASSUME NEW p \in DOMAIN tree' \ DOMAIN tree, NEW q \in DOMAIN tree
      PROVE  tree'[p] # tree[q]
  <2>. DEFINE k == BlockOf(Len(p))
  <2>1. SUFFICES ASSUME tree[q] = held[r][k] PROVE FALSE
    BY Zenon, <1>1
  <2>2. q = Prefix(tokens[r], Filled(k)) /\ Settled(r, k) /\ Filled(k) \in 1 .. pos[r]
    <3>1. k \in 1 .. Len(held[r])
      BY Zenon, <1>1
    <3>. HIDE DEF k
    <3>. QED  BY <2>1, <3>1, OwnNode
  <2>3. partial => Filled(k) <= n
    BY Zenon, <1>1, <2>2
  <2>4. Len(p) = Filled(k)
    BY Zenon, <1>1, <1>5, <2>3
  <2>. QED  BY Zenon, <1>1, <2>2, <2>4
<1>8. ASSUME NEW p \in DOMAIN tree' \ DOMAIN tree, NEW q \in DOMAIN tree' \ DOMAIN tree,
             tree'[p] = tree'[q]
      PROVE  p = q
  <2>1. BlockOf(Len(p)) = BlockOf(Len(q))
    <3>1. /\ BlockOf(Len(p)) \in 1 .. Len(held[r]) /\ tree'[p] = held[r][BlockOf(Len(p))]
          /\ BlockOf(Len(q)) \in 1 .. Len(held[r]) /\ tree'[q] = held[r][BlockOf(Len(q))]
      BY Zenon, <1>1
    <3>2. Distinct(r)
      BY Zenon DEF IInv, DistinctInv
    <3>. QED  BY Zenon, <1>8, <3>1, <3>2 DEF Distinct, NoRepeat
  <2>2. Len(p) = Len(q)
    BY <1>1, <1>4, <2>1
  <2>. QED  BY Zenon, <1>1, <2>2
<1>9. UniqueInv'
  <2>1. SUFFICES ASSUME NEW p \in DOMAIN tree', NEW q \in DOMAIN tree', tree'[p] = tree'[q]
                 PROVE  p = q
    BY Zenon DEF UniqueInv
  <2>2. CASE p \in DOMAIN tree /\ q \in DOMAIN tree
    <3>1. tree[p] = tree[q]
      BY Zenon, <1>1, <2>1, <2>2
    <3>. QED  BY Zenon, <2>2, <3>1 DEF IInv, UniqueInv
  <2>3. CASE p \in DOMAIN tree /\ q \notin DOMAIN tree
    <3>1. tree'[p] = tree[p]
      BY Zenon, <1>1, <2>3
    <3>. QED  BY Zenon, <1>7, <2>1, <2>3, <3>1
  <2>4. CASE p \notin DOMAIN tree /\ q \in DOMAIN tree
    <3>1. tree'[q] = tree[q]
      BY Zenon, <1>1, <2>4
    <3>. QED  BY Zenon, <1>7, <2>1, <2>4, <3>1
  <2>5. CASE p \notin DOMAIN tree /\ q \notin DOMAIN tree
    BY Zenon, <1>8, <2>1, <2>5
  <2>. QED  BY Zenon, <2>2, <2>3, <2>4, <2>5
<1>10. ASSUME NEW p \in DOMAIN tree', p \notin DOMAIN tree
       PROVE  \E k \in 1 .. Len(held[r]) :
                     /\ tree'[p] = held[r][k] /\ Len(p) <= n
                     /\ ~partial \/ Settled(r, k) => Len(p) = Filled(k)
  <2>. DEFINE k == BlockOf(Len(p))
  <2>1. k \in 1 .. Len(held[r]) /\ tree'[p] = held[r][k] /\ Len(p) <= n
    BY Zenon, <1>1, <1>4, <1>10
  <2>2. ~partial => Len(p) = Filled(k)
    BY Zenon, <1>1, <1>10
  <2>3. Settled(r, k) => Len(p) = Filled(k)
    BY Zenon, <1>5, <1>10, <2>1, <2>2
  <2>. QED  BY Zenon, <2>1, <2>2, <2>3
<1>. QED  BY Zenon, <1>1, <1>2, <1>6, <1>9, <1>10

\* A block that r may still write to is its own and not in the tree.
LEMMA Unsettled ==
    ASSUME IInv, NEW r \in Requests, NEW k \in 1 .. Len(held[r]), ~Settled(r, k)
    PROVE  Exclusive(r, held[r][k]) /\ \A p \in DOMAIN tree : tree[p] # held[r][k]
<1>1. Exclusive(r, held[r][k])
  BY Zenon DEF IInv, ShareInv, Shares, Exclusive
<1>2. \A p \in DOMAIN tree : tree[p] # held[r][k]
  BY Zenon DEF IInv, FoundInv, Found
<1>. QED  BY Zenon, <1>1, <1>2

\* bs is the blocks of r and perhaps some more.
Extends(r, bs) ==
    Len(held[r]) <= Len(bs) /\ \A i \in 1 .. Len(held[r]) : bs[i] = held[r][i]

\* Nothing but r uses the blocks in bs of its tokens up to e.
Untouched(r, bs, e) ==
    \A i \in pos[r] + 1 .. e :
        /\ Exclusive(r, bs[BlockOf(i)])
        /\ \A p \in DOMAIN tree' : tree'[p] # bs[BlockOf(i)]

\* The blocks have the KV state of the first e tokens of r, and what they had.
Holding(r, bs, e) ==
    /\ \A i \in 1 .. e : mem'[bs[BlockOf(i)]][SlotOf(i)] = Prefix(tokens[r], i)
    /\ \A q \in Requests \ {r} : InUse(q) =>
         \A i \in 1 .. pos[q] : mem'[held[q][BlockOf(i)]][SlotOf(i)] = Prefix(tokens[q], i)

\* A forward pass writes to blocks that nothing else uses.
LEMMA WriteStep ==
    ASSUME IInv, NEW r \in Requests, InUse(r), NEW bs \in Seq(Blocks),
           NEW e \in pos[r] + 1 .. Len(tokens[r]), BlockOf(e) <= Len(bs),
           Extends(r, bs), NoRepeat(bs), Pruned(tree'), Untouched(r, bs, e),
           mem' = Written(r, bs, pos[r] + 1 .. e)
    PROVE  MemType(mem)' /\ TruthInv' /\ Holding(r, bs, e)
<1>. DEFINE I == pos[r] + 1 .. e
<1>1. /\ tokens[r] \in Seq(Tokens) /\ MemType(mem) /\ pos[r] \in Nat /\ Len(tokens[r]) \in Nat
      /\ Len(bs) \in Nat
  BY Types
<1>2. ASSUME NEW i \in 1 .. e PROVE BlockOf(i) \in 1 .. Len(bs) /\ i \in Nat \ {0}
  <2>1. e \in Nat \ {0} /\ i \in Nat \ {0}
    BY <1>1
  <2>2. BlockOf(i) \in 1 .. BlockOf(e) /\ BlockOf(e) \in Nat \ {0}
    BY Zenon, <2>1, LaterBlock, Place
  <2>. QED  BY <1>1, <2>1, <2>2
<1>3. I \subseteq 1 .. Len(tokens[r]) /\ \A i \in I : i \in 1 .. e
  BY <1>1
<1>4. \A i \in I : BlockOf(i) \in 1 .. Len(bs)
  BY Zenon, <1>2, <1>3
<1>. HIDE DEF I
<1>5. MemType(mem') /\ WroteOnly(mem', r, bs, I)
  <2>1. mem' = Written(r, bs, I)
    BY Zenon DEF I
  <2>. QED  BY Zenon, <1>1, <1>3, <1>4, <2>1, WrittenLaws
<1>6. MemType(mem)'
  BY Zenon, <1>5 DEF MemType
<1>7. ASSUME NEW b \in Blocks, NEW i \in Nat \ {0}, \A j \in I : bs[BlockOf(j)] # b
      PROVE  mem'[b][SlotOf(i)] = mem[b][SlotOf(i)]
  <2>1. SlotOf(i) \in 1 .. TokensPerBlock
    BY Zenon, Place
  <2>. QED  BY Zenon, <1>5, <1>7, <2>1 DEF WroteOnly
<1>8. TruthInv'
  <2>1. SUFFICES ASSUME NEW p \in DOMAIN tree' PROVE Truth(p)'
    BY Zenon DEF TruthInv
  <2>2. p \in DOMAIN tree /\ tree'[p] = tree[p] /\ Truth(p) /\ p \in Seq(Tokens) \ {<< >>}
        /\ tree[p] \in Blocks
    BY Zenon, Types DEF Pruned, IInv, TruthInv, TreeType
  <2>3. \A j \in I : bs[BlockOf(j)] # tree[p]
    BY Zenon, <2>2 DEF I, Untouched
  <2>4. ASSUME NEW i \in Len(Parent(p)) + 1 .. Len(p)
        PROVE  mem'[tree'[p]][SlotOf(i)] = Prefix(p, i)
    <3>1. Len(Parent(p)) \in Nat /\ Len(p) \in Nat
      BY <2>2, ParentLaws
    <3>2. i \in Nat \ {0}
      BY <3>1
    <3>3. mem'[tree[p]][SlotOf(i)] = mem[tree[p]][SlotOf(i)]
      BY Zenon, <1>7, <2>2, <2>3, <3>2
    <3>. QED  BY Zenon, <2>2, <3>3 DEF Truth
  <2>5. Parent(p) \in DOMAIN tree' \cup {<< >>}
    BY Zenon, <2>2 DEF Truth, Pruned
  <2>. QED  BY Zenon, <2>4, <2>5 DEF Truth
<1>9. ASSUME NEW i \in 1 .. e
      PROVE  mem'[bs[BlockOf(i)]][SlotOf(i)] = Prefix(tokens[r], i)
  <2>1. CASE i \in I
    BY Zenon, <1>5, <2>1 DEF WroteOnly
  <2>2. CASE i \notin I
    <3>1. i \in 1 .. pos[r]
      BY <1>1, <2>2 DEF I
    <3>2. BlockOf(i) \in 1 .. Len(held[r]) /\ BlockOf(i) \in 1 .. Len(bs) /\ i \in Nat \ {0}
      BY Zenon, <1>2, <3>1, LongEnough
    <3>3. bs[BlockOf(i)] = held[r][BlockOf(i)] /\ bs[BlockOf(i)] \in Blocks
      BY Zenon, <3>2, ElementOfSeq DEF Extends
    <3>4. ASSUME NEW j \in I, bs[BlockOf(j)] = bs[BlockOf(i)] PROVE SlotOf(j) # SlotOf(i)
      <4>1. BlockOf(j) = BlockOf(i)
        BY Zenon, <1>4, <3>2, <3>4 DEF NoRepeat
      <4>2. j \in Nat \ {0}
        BY Zenon, <1>2, <1>3
      <4>. QED  BY Zenon, <2>2, <3>2, <4>1, <4>2, SamePlace
    <3>5. SlotOf(i) \in 1 .. TokensPerBlock
      BY Zenon, <3>2, Place
    <3>6. mem'[bs[BlockOf(i)]][SlotOf(i)] = mem[bs[BlockOf(i)]][SlotOf(i)]
      BY Zenon, <1>5, <3>3, <3>4, <3>5 DEF WroteOnly
    <3>7. mem[held[r][BlockOf(i)]][SlotOf(i)] = Prefix(tokens[r], i)
      BY Zenon, <3>1 DEF IInv, ContentInv, Content
    <3>. QED  BY Zenon, <3>3, <3>6, <3>7
  <2>. QED  BY Zenon, <2>1, <2>2
<1>10. ASSUME NEW q \in Requests \ {r}, InUse(q), NEW i \in 1 .. pos[q]
       PROVE  mem'[held[q][BlockOf(i)]][SlotOf(i)] = Prefix(tokens[q], i)
  <2>1. BlockOf(i) \in 1 .. Len(held[q]) /\ held[q] \in Seq(Blocks)
    BY Zenon, <1>10, LongEnough, Types
  <2>2. held[q][BlockOf(i)] \in Blocks
    BY Zenon, <2>1, ElementOfSeq
  <2>3. \A j \in I : bs[BlockOf(j)] # held[q][BlockOf(i)]
    BY Zenon, <2>1 DEF I, Untouched, Exclusive
  <2>4. i \in Nat \ {0}
    BY Types
  <2>5. mem'[held[q][BlockOf(i)]][SlotOf(i)] = mem[held[q][BlockOf(i)]][SlotOf(i)]
    BY Zenon, <1>7, <2>2, <2>3, <2>4
  <2>6. mem[held[q][BlockOf(i)]][SlotOf(i)] = Prefix(tokens[q], i)
    BY Zenon, <1>10 DEF IInv, ContentInv, Content
  <2>. QED  BY Zenon, <2>5, <2>6
<1>. QED  BY Zenon, <1>6, <1>8, <1>9, <1>10 DEF Holding

-----------------------------------------------------------------------------
(* What a step leaves alone.                                               *)

\* Sharing is kept if no block stops being settled.
LEMMA KeepShares ==
    ASSUME IInv, held' = held,
           \A r \in Requests : \A k \in 1 .. Len(held[r]) : Settled(r, k) => Settled(r, k)'
    PROVE  ShareInv' /\ DistinctInv'
<1>1. ShareInv'
  <2>1. SUFFICES ASSUME NEW r \in Requests, NEW q \in Requests, r # q,
                        NEW i \in 1 .. Len(held[r]), NEW j \in 1 .. Len(held[q]),
                        held[r][i] = held[q][j]
                 PROVE  i = j /\ Settled(r, i)'
    BY Zenon DEF ShareInv, Shares
  <2>2. i = j /\ Settled(r, i)
    BY Zenon, <2>1 DEF IInv, ShareInv, Shares
  <2>. QED  BY Zenon, <2>2
<1>2. DistinctInv'
  BY Zenon DEF IInv, DistinctInv, Distinct
<1>. QED  BY Zenon, <1>1, <1>2

\* So is what is said of the blocks in the tree, if nodes only go.
LEMMA KeepFound ==
    ASSUME IInv, held' = held, Pruned(tree'),
           \A r \in Requests : \A k \in 1 .. Len(held[r]) : Settled(r, k) => Settled(r, k)'
    PROVE  FoundInv' /\ UniqueInv'
<1>1. FoundInv'
  <2>1. SUFFICES ASSUME NEW p \in DOMAIN tree', NEW r \in Requests PROVE Found(r, p)'
    BY Zenon DEF FoundInv
  <2>2. p \in DOMAIN tree /\ tree'[p] = tree[p] /\ Found(r, p)
    BY Zenon DEF Pruned, IInv, FoundInv
  <2>. QED  BY Zenon, <2>2 DEF Found
<1>2. UniqueInv'
  <2>1. SUFFICES ASSUME NEW p \in DOMAIN tree', NEW q \in DOMAIN tree', tree'[p] = tree'[q]
                 PROVE  p = q
    BY Zenon DEF UniqueInv
  <2>2. p \in DOMAIN tree /\ q \in DOMAIN tree /\ tree[p] = tree[q]
    BY Zenon, <2>1 DEF Pruned
  <2>. QED  BY Zenon, <2>2 DEF IInv, UniqueInv
<1>. QED  BY Zenon, <1>1, <1>2

\* References are counted if neither they nor the sequences change.
LEMMA KeepCount ==
    ASSUME IInv, UNCHANGED <<ref, queued, held, front>>
    PROVE  CountInv'
<1>1. \A b : Holders(b)' = Holders(b)
  BY Zenon DEF Holders, Holds
<1>2. SUFFICES ASSUME NEW b \in Blocks PROVE Counted(b)'
  BY Zenon DEF CountInv
<1>3. Counted(b)
  BY Zenon DEF IInv, CountInv
<1>. QED  BY Zenon, <1>1, <1>3 DEF Counted

-----------------------------------------------------------------------------
(* The steps.                                                              *)

\* A context chunk keeps the invariant.
LEMMA PrefillStep ==
    ASSUME IInv, NEW r \in Requests, Prefill(r)
    PROVE  IInv'
<1>1. PICK e \in pos[r] + 1 .. Len(Prompt[r]) :
         /\ mem' = Written(r, held[r], pos[r] + 1 .. e)
         /\ pos' = [pos EXCEPT ![r] = e]
         /\ stage' = [stage EXCEPT ![r] = IF e = Len(Prompt[r]) THEN "computed" ELSE "context"]
  BY Zenon DEF Prefill
<1>2. /\ stage[r] \in {"added", "context"} /\ dirty' = [dirty EXCEPT ![r] = TRUE]
      /\ UNCHANGED <<config, tree, ref, queued, owner, valid, tokens, held, front, pins,
                     rekeyed, unclaimed>>
  BY Zenon DEF Prefill
<1>3. InUse(r) /\ Staged(r) /\ Distinct(r)
  BY Zenon, <1>2 DEF InUse, IInv, StagedInv, DistinctInv
<1>4. /\ tokens[r] = Prompt[r] /\ Len(held[r]) = NumBlocks(Len(Prompt[r]))
      /\ pos[r] \in Nat /\ Len(Prompt[r]) \in Nat \ {0} /\ held[r] \in Seq(Blocks)
  BY Zenon, <1>2, <1>3, Types DEF Staged
<1>5. e \in Nat \ {0} /\ e > pos[r] /\ e <= Len(Prompt[r]) /\ e \in 1 .. Len(Prompt[r])
  BY <1>4
<1>6. /\ BlockOf(e) <= Len(held[r]) /\ Len(held[r]) = BlockOf(Len(Prompt[r]))
      /\ Len(held[r]) \in Nat
  <2>1. BlockOf(e) \in 1 .. BlockOf(Len(Prompt[r])) /\ NumBlocks(Len(Prompt[r])) = BlockOf(Len(Prompt[r]))
    BY Zenon, <1>4, <1>5, LaterBlock, Place
  <2>. QED  BY <1>4, <2>1
<1>7. /\ pos' \in [Requests -> Nat] /\ dirty' \in [Requests -> BOOLEAN]
      /\ stage' \in [Requests -> {"new", "added", "context", "computed", "generation", "removed"}]
  <2>1. pos \in [Requests -> Nat] /\ dirty \in [Requests -> BOOLEAN]
        /\ stage \in [Requests -> {"new", "added", "context", "computed", "generation", "removed"}]
    BY Zenon DEF IInv, TypeOK
  <2>. QED  BY <1>1, <1>2, <1>5, <2>1
<1>8. /\ pos'[r] = e /\ stage'[r] = (IF e = Len(Prompt[r]) THEN "computed" ELSE "context")
      /\ dirty'[r] = TRUE
      /\ \A q \in Requests \ {r} : pos'[q] = pos[q] /\ stage'[q] = stage[q] /\ dirty'[q] = dirty[q]
  <2>1. pos \in [Requests -> Nat] /\ dirty \in [Requests -> BOOLEAN]
        /\ stage \in [Requests -> {"new", "added", "context", "computed", "generation", "removed"}]
    BY Zenon DEF IInv, TypeOK
  <2>. QED  BY Zenon, <1>1, <1>2, <2>1
<1>9. ASSUME NEW i \in pos[r] + 1 .. e
      PROVE  Exclusive(r, held[r][BlockOf(i)]) /\ \A p \in DOMAIN tree : tree[p] # held[r][BlockOf(i)]
  <2>1. i \in 1 .. e /\ i \in Nat \ {0} /\ pos[r] < i
    BY <1>4, <1>5
  <2>2. BlockOf(i) \in 1 .. BlockOf(e) /\ BlockOf(i) \in Nat \ {0} /\ BlockOf(e) \in Nat \ {0}
        /\ i <= Filled(BlockOf(i)) /\ Filled(BlockOf(i)) \in Nat
    BY Zenon, <1>5, <2>1, LaterBlock, Place
  <2>3. BlockOf(i) \in 1 .. Len(held[r])
    BY <1>6, <2>2
  <2>4. ~(Filled(BlockOf(i)) <= pos[r])
    BY <1>4, <2>1, <2>2
  <2>5. ~Settled(r, BlockOf(i))
    BY Zenon, <2>4 DEF Settled
  <2>. QED  BY Zenon, <2>3, <2>5, Unsettled
<1>10. Pruned(tree')
  BY Zenon, <1>2 DEF Pruned
<1>11. MemType(mem)' /\ TruthInv' /\ Holding(r, held[r], e)
  <2>1. e \in pos[r] + 1 .. Len(tokens[r]) /\ Extends(r, held[r])
    BY <1>4, <1>6 DEF Extends
  <2>2. NoRepeat(held[r])
    BY Zenon, <1>3 DEF Distinct
  <2>3. Untouched(r, held[r], e)
    BY Zenon, <1>2, <1>9 DEF Untouched
  <2>. QED  BY Zenon, <1>1, <1>3, <1>4, <1>6, <1>10, <2>1, <2>2, <2>3, WriteStep
<1>12. TypeOK'
  BY Zenon, <1>2, <1>7, <1>11 DEF IInv, TypeOK, MemType
<1>13. StagedInv'
  <2>1. SUFFICES ASSUME NEW q \in Requests PROVE Staged(q)'
    BY Zenon DEF StagedInv
  <2>2. CASE q = r
    <3>1. CASE e = Len(Prompt[r])
      <4>1. stage'[r] = "computed"
        BY Zenon, <1>8, <3>1
      <4>. QED  BY Zenon, <1>2, <1>3, <1>4, <1>8, <2>2, <3>1, <4>1 DEF Staged
    <3>2. CASE e # Len(Prompt[r])
      <4>1. stage'[r] = "context" /\ e < Len(Prompt[r])
        BY <1>4, <1>5, <1>8, <3>2
      <4>. QED  BY Zenon, <1>2, <1>3, <1>4, <1>8, <2>2, <4>1 DEF Staged
    <3>. QED  BY Zenon, <3>1, <3>2
  <2>3. CASE q # r
    <3>1. Staged(q)
      BY Zenon DEF IInv, StagedInv
    <3>. QED  BY Zenon, <1>2, <1>8, <2>3, <3>1 DEF Staged
  <2>. QED  BY Zenon, <2>2, <2>3
<1>14. ContentInv'
  <2>1. SUFFICES ASSUME NEW q \in Requests, InUse(q)' PROVE Content(q)'
    BY Zenon DEF ContentInv
  <2>2. CASE q = r
    BY Zenon, <1>2, <1>8, <1>11, <2>2 DEF Holding, Content
  <2>3. CASE q # r
    <3>1. InUse(q)
      BY Zenon, <1>8, <2>1, <2>3 DEF InUse
    <3>. QED  BY Zenon, <1>2, <1>8, <1>11, <2>3, <3>1 DEF Holding, Content
  <2>. QED  BY Zenon, <2>2, <2>3
<1>15. ASSUME NEW q \in Requests, NEW k \in 1 .. Len(held[q]), Settled(q, k) PROVE Settled(q, k)'
  <2>1. CASE q = r
    <3>1. Filled(k) <= pos[r]
      BY Zenon, <1>15, <2>1 DEF Settled
    <3>2. k \in Nat
      BY Types
    <3>3. Filled(k) \in Nat
      BY Zenon, <3>2, FilledLaws
    <3>4. Filled(k) <= e /\ Filled(k) < e
      BY <1>4, <1>5, <3>1, <3>3
    <3>. QED  BY Zenon, <1>8, <2>1, <3>4 DEF Settled
  <2>2. CASE q # r
    BY Zenon, <1>8, <1>15, <2>2 DEF Settled
  <2>. QED  BY Zenon, <2>1, <2>2
<1>16. held' = held
  BY Zenon, <1>2
<1>17. ShareInv' /\ DistinctInv' /\ FoundInv' /\ UniqueInv'
  BY Zenon, <1>10, <1>15, <1>16, KeepShares, KeepFound
<1>18. CountInv'
  BY Zenon, <1>2, KeepCount
<1>19. PlainConfig'
  BY Zenon, <1>2 DEF IInv, PlainConfig
<1>. QED  BY Zenon, <1>11, <1>12, <1>13, <1>14, <1>17, <1>18, <1>19 DEF IInv

\* The tokens that are stored for r end where its settled blocks do.
LEMMA UsableLaws ==
    ASSUME IInv, NEW r \in Requests, NEW s \in Seq(Tokens),
           \/ stage[r] \in {"context", "generation"} /\ s = tokens[r]
           \/ stage[r] = "computed" /\ \E g \in Tokens : s = Append(tokens[r], g),
           NEW n, n = Usable(r, s, pos[r])
    PROVE  /\ n \in 0 .. Len(s) /\ n <= pos[r]
           /\ \A i \in 1 .. n : Prefix(s, i) = Prefix(tokens[r], i)
           /\ \A k \in 1 .. Len(held[r]) : Settled(r, k) <=> Filled(k) <= n
<1>1. Staged(r)
  BY Zenon DEF IInv, StagedInv
<1>2. /\ pos[r] \in Nat /\ Len(s) \in Nat /\ Len(Prompt[r]) \in Nat \ {0}
      /\ tokens[r] \in Seq(Tokens) /\ Len(tokens[r]) \in Nat
  BY Types
<1>3. ASSUME NEW k \in 1 .. Len(held[r]) PROVE Filled(k) \in Nat \ {0}
  <2>1. k \in Nat \ {0}
    BY Types
  <2>2. Filled(0) = 0 /\ 0 < k /\ k \in Nat
    BY <2>1, FilledLaws
  <2>3. Filled(0) + TokensPerBlock <= Filled(k) /\ Filled(k) \in Nat
    BY Zenon, <2>2, FilledLaws
  <2>. QED  BY <2>2, <2>3, SizeType
<1>4. CASE stage[r] = "context" /\ s = tokens[r]
  <2>1. s = Prompt[r] /\ pos[r] < Len(Prompt[r])
    BY Zenon, <1>1, <1>4 DEF Staged
  <2>2. n = IF pos[r] > 0 THEN pos[r] - 1 ELSE 0
    BY <1>2, <2>1 DEF Usable, Least
  <2>3. n \in 0 .. Len(s) /\ n <= pos[r]
    BY <1>2, <2>1, <2>2
  <2>4. ASSUME NEW k \in 1 .. Len(held[r]) PROVE Settled(r, k) <=> Filled(k) <= n
    <3>1. (Filled(k) <= pos[r] /\ Filled(k) < pos[r]) <=> Filled(k) <= n
      BY <1>2, <1>3, <2>2
    <3>. QED  BY Zenon, <1>4, <3>1 DEF Settled
  <2>. QED  BY Zenon, <1>4, <2>3, <2>4
<1>5. CASE stage[r] \in {"computed", "generation"}
  <2>1. /\ Len(s) = pos[r] + 1 /\ pos[r] >= Len(Prompt[r])
        /\ \A i \in 1 .. pos[r] : Prefix(s, i) = Prefix(tokens[r], i)
    <3>1. CASE stage[r] = "generation"
      BY Zenon, <1>1, <3>1 DEF Staged
    <3>2. CASE stage[r] = "computed"
      <4>1. tokens[r] = Prompt[r] /\ pos[r] = Len(Prompt[r])
        BY Zenon, <1>1, <3>2 DEF Staged
      <4>2. PICK g \in Tokens : s = Append(tokens[r], g)
        BY Zenon, <3>2
      <4>3. \A i \in 1 .. pos[r] : i \in 0 .. Len(tokens[r])
        BY <1>2, <4>1
      <4>4. \A i \in 1 .. pos[r] : Prefix(s, i) = Prefix(tokens[r], i)
        BY Zenon, <1>2, <4>2, <4>3, PrefixAppend
      <4>5. Len(s) = Len(tokens[r]) + 1
        BY <1>2, <4>2
      <4>6. Len(s) = pos[r] + 1 /\ pos[r] >= Len(Prompt[r])
        BY <1>2, <4>1, <4>5
      <4>. QED  BY Zenon, <4>4, <4>6
    <3>. QED  BY Zenon, <1>5, <3>1, <3>2
  <2>2. n = pos[r]
    BY <1>2, <2>1 DEF Usable, Least
  <2>3. n \in 0 .. Len(s) /\ n <= pos[r]
    BY <1>2, <2>1, <2>2
  <2>4. stage[r] # "context"
    BY <1>5
  <2>. QED  BY Zenon, <2>1, <2>2, <2>3, <2>4 DEF Settled
<1>. QED  BY Zenon, <1>4, <1>5

\* What is stored for r when it is removed right after addSequence.
LEMMA AddedUsable ==
    ASSUME IInv, NEW r \in Requests, stage[r] = "added", NEW n, n = Usable(r, tokens[r], pos[r])
    PROVE  /\ n \in 0 .. Len(tokens[r]) /\ n <= pos[r]
           /\ pos[r] > 0 => n = pos[r] - 1
           /\ ~(pos[r] > 0) => n = 0
           /\ pos[r] % TokensPerBlock # 0 =>
                \A k \in 1 .. Len(held[r]) : Settled(r, k) => Filled(k) <= n
<1>1. tokens[r] = Prompt[r] /\ pos[r] < Len(Prompt[r])
  BY Zenon DEF IInv, StagedInv, Staged
<1>2. pos[r] \in Nat /\ Len(Prompt[r]) \in Nat \ {0} /\ Len(held[r]) \in Nat
  BY Zenon, Types
<1>3. (pos[r] > 0 => n = pos[r] - 1) /\ (~(pos[r] > 0) => n = 0)
  BY <1>1, <1>2 DEF Usable, Least
<1>4. n \in 0 .. Len(tokens[r]) /\ n <= pos[r]
  BY <1>1, <1>2, <1>3
<1>5. ASSUME pos[r] % TokensPerBlock # 0, NEW k \in 1 .. Len(held[r]), Settled(r, k)
      PROVE  Filled(k) <= n
  <2>1. k \in Nat
    BY <1>2
  <2>2. Filled(k) \in Nat /\ Filled(k) % TokensPerBlock = 0
    BY Zenon, <2>1, FilledLaws
  <2>3. Filled(k) <= pos[r] /\ Filled(k) # pos[r]
    BY Zenon, <1>5, <2>2 DEF Settled
  <2>. QED  BY <1>2, <1>3, <2>2, <2>3
<1>. QED  BY Zenon, <1>3, <1>4, <1>5

\* A key that is in the tree already, or empty, is not stored again.
LEMMA StoredOnce ==
    ASSUME NEW t, NEW s, NEW n \in Nat, NEW bs, n = 0 \/ Prefix(s, n) \in DOMAIN t
    PROVE  Stored(t, s, n, TRUE, bs) = Stored(t, s, n, FALSE, bs)
<1>. DEFINE D(partial) == {d \in Cuts(n, partial) : BlockOf(d) <= Len(bs)}
            new(partial) == {Prefix(s, c) : c \in D(partial)} \ DOMAIN t
<1>1. D(FALSE) \subseteq D(TRUE)
  BY Zenon DEF Cuts
<1>2. ASSUME NEW c \in D(TRUE), c \notin D(FALSE) PROVE Prefix(s, c) \in DOMAIN t
  <2>1. c = n /\ c \in 1 .. n
    BY Zenon, <1>2 DEF Cuts
  <2>2. n # 0
    BY <2>1
  <2>. QED  BY Zenon, <2>1, <2>2
<1>. HIDE DEF D
<1>3. new(TRUE) = new(FALSE)
  BY Zenon, <1>1, <1>2
<1>4. \A partial : Stored(t, s, n, partial, bs) =
        [p \in DOMAIN t \cup new(partial) |->
           IF p \in new(partial) THEN bs[BlockOf(Len(p))] ELSE t[p]]
  BY Zenon DEF Stored, D
<1>. QED  BY Zenon, <1>3, <1>4

\* The update after a context chunk, with storeContextBlocks, keeps it.
LEMMA UpdateStep ==
    ASSUME IInv, NEW r \in Requests, Update(r)
    PROVE  IInv'
<1>1. Staged(r) /\ PlainConfig /\ config \in Configs
  BY Zenon DEF IInv, StagedInv, TypeOK
<1>2. /\ dirty[r] /\ dirty' = [dirty EXCEPT ![r] = FALSE]
      /\ stage' = [stage EXCEPT ![r] = IF @ = "computed" THEN "generation" ELSE @]
      /\ UNCHANGED <<config, mem, queued, owner, valid, pos, held, front, rekeyed>>
  BY Zenon DEF Update
<1>3. stage[r] \in {"context", "computed"} /\ InUse(r)
  BY Zenon, <1>1, <1>2 DEF Staged, InUse
<1>4. ~IsSWA /\ r \notin config.pinners
  <2>1. config.window \in Nat /\ MaxLen \in Nat
    BY <1>1, ReuseAssumption
  <2>. QED  BY <1>1, <2>1 DEF PlainConfig, IsSWA
<1>5. PICK s : /\ \/ stage[r] = "context" /\ s = tokens[r]
                  \/ stage[r] = "computed" /\ \E g \in Tokens : s = Append(tokens[r], g)
               /\ tokens' = [tokens EXCEPT ![r] = s]
               /\ tree' = Stored(tree, s, Usable(r, s, pos[r]), FALSE, held[r])
               /\ UNCHANGED <<ref, pins, unclaimed>>
  <2>1. PICK g \in GenTokens :
          LET s == IF stage[r] = "computed" THEN Append(tokens[r], g) ELSE tokens[r]
              n == Usable(r, s, pos[r])
          IN  /\ tokens' = [tokens EXCEPT ![r] = s]
              /\ tree' = Stored(tree, s, n, FALSE, held[r])
              /\ UNCHANGED <<ref, pins, unclaimed>>
    BY Zenon, <1>4 DEF Update, StoreContextBlocks
  <2>. DEFINE s == IF stage[r] = "computed" THEN Append(tokens[r], g) ELSE tokens[r]
  <2>2. /\ tokens' = [tokens EXCEPT ![r] = s]
        /\ tree' = Stored(tree, s, Usable(r, s, pos[r]), FALSE, held[r])
        /\ UNCHANGED <<ref, pins, unclaimed>>
    BY Zenon, <2>1
  <2>3. g \in Tokens
    BY Zenon, ReuseAssumption
  <2>4. \/ stage[r] = "context" /\ s = tokens[r]
        \/ stage[r] = "computed" /\ \E h \in Tokens : s = Append(tokens[r], h)
    <3>1. CASE stage[r] = "context"
      <4>1. stage[r] # "computed"
        BY <3>1
      <4>. QED  BY Zenon, <3>1, <4>1
    <3>2. CASE stage[r] = "computed"
      BY Zenon, <2>3, <3>2
    <3>. QED  BY Zenon, <1>3, <3>1, <3>2
  <2>. HIDE DEF s
  <2>. QED  BY Zenon, <2>2, <2>4
<1>6. s \in Seq(Tokens)
  <2>1. tokens[r] \in Seq(Tokens)
    BY Zenon, Types
  <2>2. \A g \in Tokens : Append(tokens[r], g) \in Seq(Tokens)
    BY <2>1
  <2>. QED  BY Zenon, <1>5, <2>1, <2>2
<1>. DEFINE n == Usable(r, s, pos[r])
<1>7. /\ n \in 0 .. Len(s) /\ n <= pos[r]
      /\ \A i \in 1 .. n : Prefix(s, i) = Prefix(tokens[r], i)
      /\ \A k \in 1 .. Len(held[r]) : Settled(r, k) <=> Filled(k) <= n
  <2>1. \/ stage[r] \in {"context", "generation"} /\ s = tokens[r]
        \/ stage[r] = "computed" /\ \E g \in Tokens : s = Append(tokens[r], g)
    BY Zenon, <1>5
  <2>. QED  BY Zenon, <1>6, <2>1, UsableLaws
<1>8. /\ TreeType(tree)' /\ TruthInv' /\ UniqueInv'
      /\ \A p \in DOMAIN tree' :
            \/ p \in DOMAIN tree /\ tree'[p] = tree[p]
            \/ \E k \in 1 .. Len(held[r]) :
                 tree'[p] = held[r][k] /\ Len(p) <= n /\ Len(p) = Filled(k)
  <2>1. tree' = Stored(tree, s, n, FALSE, held[r]) /\ mem' = mem
    BY Zenon, <1>2, <1>5
  <2>2. \A k \in 1 .. Len(held[r]) : Settled(r, k) => Filled(k) <= n
    BY Zenon, <1>7
  <2>. HIDE DEF n
  <2>3. /\ TreeType(tree)' /\ TruthInv' /\ UniqueInv'
        /\ \A p \in DOMAIN tree' :
             \/ p \in DOMAIN tree /\ tree'[p] = tree[p]
             \/ \E k \in 1 .. Len(held[r]) :
                  /\ tree'[p] = held[r][k] /\ Len(p) <= n
                  /\ ~FALSE \/ Settled(r, k) => Len(p) = Filled(k)
    BY Zenon, <1>3, <1>6, <1>7, <2>1, <2>2, StoreStep
  <2>. QED  BY Zenon, <2>3
<1>. HIDE DEF n
<1>9. /\ tokens' \in [Requests -> Seq(Tokens)] /\ dirty' \in [Requests -> BOOLEAN]
      /\ stage' \in [Requests -> {"new", "added", "context", "computed", "generation", "removed"}]
      /\ tokens'[r] = s /\ dirty'[r] = FALSE
      /\ stage'[r] = IF stage[r] = "computed" THEN "generation" ELSE stage[r]
      /\ \A q \in Requests \ {r} :
            tokens'[q] = tokens[q] /\ stage'[q] = stage[q] /\ dirty'[q] = dirty[q]
  <2>1. tokens \in [Requests -> Seq(Tokens)] /\ dirty \in [Requests -> BOOLEAN]
        /\ stage \in [Requests -> {"new", "added", "context", "computed", "generation", "removed"}]
    BY Zenon DEF IInv, TypeOK
  <2>2. tokens' \in [Requests -> Seq(Tokens)] /\ dirty' \in [Requests -> BOOLEAN]
        /\ stage' \in [Requests -> {"new", "added", "context", "computed", "generation", "removed"}]
    BY <1>2, <1>5, <1>6, <2>1
  <2>3. /\ tokens'[r] = s /\ dirty'[r] = FALSE
        /\ stage'[r] = IF stage[r] = "computed" THEN "generation" ELSE stage[r]
        /\ \A q \in Requests \ {r} :
            tokens'[q] = tokens[q] /\ stage'[q] = stage[q] /\ dirty'[q] = dirty[q]
    BY Zenon, <1>2, <1>5, <2>1
  <2>. QED  BY Zenon, <2>2, <2>3
<1>10. TypeOK'
  BY Zenon, <1>2, <1>5, <1>8, <1>9 DEF IInv, TypeOK, TreeType
<1>11. StagedInv'
  <2>1. SUFFICES ASSUME NEW q \in Requests PROVE Staged(q)'
    BY Zenon DEF StagedInv
  <2>2. CASE q # r
    <3>1. Staged(q)
      BY Zenon DEF IInv, StagedInv
    <3>. QED  BY Zenon, <1>2, <1>5, <1>9, <2>2, <3>1 DEF Staged
  <2>3. CASE q = r /\ stage[r] = "context"
    <3>1. stage[r] # "computed"
      BY <2>3
    <3>. QED  BY Zenon, <1>1, <1>2, <1>5, <1>9, <2>3, <3>1 DEF Staged
  <2>4. CASE q = r /\ stage[r] = "computed"
    <3>1. pos[r] = Len(Prompt[r]) /\ tokens[r] = Prompt[r] /\ Len(held[r]) = NumBlocks(pos[r])
          /\ pins[r] = {} /\ front[r] = 0
      BY Zenon, <1>1, <2>4 DEF Staged
    <3>2. PICK g \in Tokens : s = Append(tokens[r], g)
      BY <1>5, <2>4
    <3>3. Len(s) = pos[r] + 1 /\ pos[r] >= Len(Prompt[r])
      BY <3>1, <3>2, Types
    <3>4. stage'[r] = "generation"
      BY Zenon, <1>9, <2>4
    <3>. QED  BY Zenon, <1>2, <1>5, <1>9, <2>4, <3>1, <3>3, <3>4 DEF Staged
  <2>. QED  BY Zenon, <1>3, <2>2, <2>3, <2>4
<1>12. ContentInv'
  <2>1. SUFFICES ASSUME NEW q \in Requests, InUse(q)' PROVE Content(q)'
    BY Zenon DEF ContentInv
  <2>2. InUse(q)
    BY Zenon, <1>3, <1>9, <2>1 DEF InUse
  <2>3. Content(q)
    BY Zenon, <2>2 DEF IInv, ContentInv
  <2>4. CASE q # r
    BY Zenon, <1>2, <1>9, <2>3, <2>4 DEF Content
  <2>5. CASE q = r
    <3>1. \A i \in 1 .. pos[r] : Prefix(s, i) = Prefix(tokens[r], i)
      <4>1. CASE s = tokens[r]
        BY Zenon, <4>1
      <4>2. CASE stage[r] = "computed"
        <5>1. pos[r] = Len(Prompt[r]) /\ tokens[r] = Prompt[r]
          BY Zenon, <1>1, <4>2 DEF Staged
        <5>2. \A i \in 1 .. pos[r] : i \in 0 .. Len(tokens[r])
          BY <5>1, Types
        <5>3. PICK g \in Tokens : s = Append(tokens[r], g)
          BY <1>5, <4>2
        <5>. QED  BY Zenon, <5>2, <5>3, PrefixAppend, Types
      <4>. QED  BY Zenon, <1>5, <4>1, <4>2
    <3>. QED  BY Zenon, <1>2, <1>9, <2>3, <2>5, <3>1 DEF Content
  <2>. QED  BY Zenon, <2>4, <2>5
<1>13. ASSUME NEW q \in Requests, NEW k PROVE Settled(q, k)' <=> Settled(q, k)
  <2>1. stage'[q] = "context" <=> stage[q] = "context"
    <3>1. CASE q # r
      BY Zenon, <1>9, <3>1
    <3>2. CASE q = r
      BY <1>9, <3>2
    <3>. QED  BY Zenon, <3>1, <3>2
  <2>. QED  BY Zenon, <1>2, <2>1 DEF Settled
<1>14. held' = held
  BY Zenon, <1>2
<1>15. ShareInv' /\ DistinctInv'
  BY Zenon, <1>13, <1>14, KeepShares
<1>16. FoundInv'
  <2>1. SUFFICES ASSUME NEW p \in DOMAIN tree', NEW q \in Requests,
                        NEW i \in 1 .. Len(held[q]), tree'[p] = held[q][i]
                 PROVE  Len(p) = Filled(i) /\ Settled(q, i)
    BY Zenon, <1>13, <1>14 DEF FoundInv, Found
  <2>2. CASE p \in DOMAIN tree /\ tree'[p] = tree[p]
    <3>1. tree[p] = held[q][i]
      BY Zenon, <2>1, <2>2
    <3>. QED  BY Zenon, <2>2, <3>1 DEF IInv, FoundInv, Found
  <2>3. ASSUME NEW k \in 1 .. Len(held[r]),
               tree'[p] = held[r][k], Len(p) <= n, Len(p) = Filled(k)
        PROVE  Len(p) = Filled(i) /\ Settled(q, i)
    <3>1. Settled(r, k)
      BY Zenon, <1>7, <2>3
    <3>2. held[r][k] = held[q][i]
      BY Zenon, <2>1, <2>3
    <3>3. CASE q = r
      <4>1. Distinct(r)
        BY Zenon DEF IInv, DistinctInv
      <4>2. k = i
        BY Zenon, <3>2, <3>3, <4>1 DEF Distinct, NoRepeat
      <4>. QED  BY Zenon, <2>3, <3>1, <3>3, <4>2
    <3>4. CASE q # r
      <4>1. i = k /\ Settled(q, i)
        BY Zenon, <3>2, <3>4 DEF IInv, ShareInv, Shares
      <4>. QED  BY Zenon, <2>3, <4>1
    <3>. QED  BY Zenon, <3>3, <3>4
  <2>. QED  BY Zenon, <1>8, <2>2, <2>3
<1>17. CountInv'
  BY Zenon, <1>2, <1>5, KeepCount
<1>18. PlainConfig'
  BY Zenon, <1>1, <1>2 DEF PlainConfig
<1>. QED  BY Zenon, <1>8, <1>10, <1>11, <1>12, <1>15, <1>16, <1>17, <1>18 DEF IInv

-----------------------------------------------------------------------------
(* Counting references.  The cardinality laws are proved at the end.       *)

CountingLaws ==
    \A S \in SUBSET Requests :
        /\ Cardinality(S) \in Nat /\ (Cardinality(S) = 0 <=> S = {})
        /\ \A r \in Requests \ S : Cardinality(S \cup {r}) = Cardinality(S) + 1
        /\ \A r \in S : Cardinality(S \ {r}) = Cardinality(S) - 1

\* With no block detached, a sequence holds all its blocks.
LEMMA HeldBlocks ==
    ASSUME NEW r \in Requests, front[r] = 0
    PROVE  \A b : b \in Holds(r) <=> \E i \in 1 .. Len(held[r]) : held[r][i] = b
<1>1. front[r] + 1 = 1
  OBVIOUS
<1>. QED  BY Zenon, <1>1 DEF Holds

\* The free queues have the blocks that no sequence has.
LEMMA FreeBlock ==
    ASSUME IInv, CountingLaws, NEW b \in Blocks
    PROVE  /\ ref[b] = 0 => \A q \in Requests : \A j \in 1 .. Len(held[q]) : held[q][j] # b
           /\ queued[b] > 0 <=> ref[b] = 0
           /\ \A q \in Requests : \A j \in 1 .. Len(held[q]) : held[q][j] = b => ref[b] > 0
<1>1. Counted(b) /\ ref[b] \in Nat /\ queued[b] \in Nat /\ \A q \in Requests : front[q] = 0
  BY Zenon DEF IInv, CountInv, TypeOK, StagedInv, Staged
<1>2. Holders(b) \in SUBSET Requests
  BY Zenon DEF Holders
<1>3. ref[b] = 0 => Holders(b) = {}
  BY Zenon, <1>1, <1>2 DEF CountingLaws, Counted
<1>4. ref[b] = 0 => \A q \in Requests : \A j \in 1 .. Len(held[q]) : held[q][j] # b
  <2>1. SUFFICES ASSUME ref[b] = 0, NEW q \in Requests, NEW j \in 1 .. Len(held[q]), held[q][j] = b
                 PROVE  FALSE
    BY Zenon
  <2>2. b \in Holds(q)
    BY Zenon, <1>1, <2>1, HeldBlocks
  <2>. QED  BY Zenon, <1>3, <2>1, <2>2 DEF Holders
<1>5. queued[b] > 0 <=> ref[b] = 0
  BY <1>1 DEF Counted
<1>6. ref[b] # 0 => ref[b] > 0
  BY <1>1
<1>. QED  BY Zenon, <1>4, <1>5, <1>6

\* A reference more or less for a holder more or less of b.
LEMMA CountStep ==
    ASSUME IInv, CountingLaws, NEW b \in Blocks, NEW r \in Requests,
           \/ /\ r \notin Holders(b) /\ Holders(b)' = Holders(b) \cup {r} /\ ref'[b] = ref[b] + 1
              /\ queued'[b] = IF queued[b] > 0 THEN queued[b] - 1 ELSE queued[b]
           \/ /\ r \in Holders(b) /\ Holders(b)' = Holders(b) \ {r} /\ ref'[b] = ref[b] - 1
              /\ queued'[b] = IF ref[b] = 1 THEN queued[b] + 1 ELSE queued[b]
           \/ Holders(b)' = Holders(b) /\ ref'[b] = ref[b] /\ queued'[b] = queued[b]
    PROVE  Counted(b)' /\ ref'[b] \in Nat /\ queued'[b] \in Nat
<1>1. Counted(b) /\ ref[b] \in Nat /\ queued[b] \in Nat
  BY Zenon DEF IInv, CountInv, TypeOK
<1>2. Holders(b) \in SUBSET Requests
  BY Zenon DEF Holders
<1>. DEFINE H == Holders(b)
            C == Cardinality(H)
<1>3. ref[b] = C /\ queued[b] = IF ref[b] = 0 THEN 1 ELSE 0
  BY Zenon, <1>1 DEF Counted
<1>4. /\ H \in SUBSET Requests
      /\ r \notin H => Cardinality(H \cup {r}) = C + 1
      /\ r \in H => Cardinality(H \ {r}) = C - 1 /\ C # 0
  <2>1. r \in H => H # {}
    BY Zenon
  <2>. QED  BY Zenon, <1>2, <2>1 DEF CountingLaws
<1>. DEFINE D == Cardinality(Holders(b)')
<1>5. SUFFICES D = ref'[b] /\ ref'[b] \in Nat /\ queued'[b] = IF ref'[b] = 0 THEN 1 ELSE 0
  <2>1. Cardinality(Holders(b))' = D
    BY Zenon
  <2>2. queued'[b] \in Nat
    BY <1>5
  <2>. HIDE DEF D
  <2>. QED  BY Zenon, <1>5, <2>1, <2>2 DEF Counted
<1>6. CASE /\ r \notin Holders(b) /\ Holders(b)' = Holders(b) \cup {r} /\ ref'[b] = ref[b] + 1
           /\ queued'[b] = IF queued[b] > 0 THEN queued[b] - 1 ELSE queued[b]
  <2>1. D = C + 1
    BY Zenon, <1>4, <1>6
  <2>. HIDE DEF D, C
  <2>. QED  BY <1>1, <1>3, <1>6, <2>1
<1>7. CASE /\ r \in Holders(b) /\ Holders(b)' = Holders(b) \ {r} /\ ref'[b] = ref[b] - 1
           /\ queued'[b] = IF ref[b] = 1 THEN queued[b] + 1 ELSE queued[b]
  <2>1. D = C - 1 /\ C # 0
    BY Zenon, <1>4, <1>7
  <2>. HIDE DEF D, C
  <2>. QED  BY <1>1, <1>3, <1>7, <2>1
<1>8. CASE Holders(b)' = Holders(b) /\ ref'[b] = ref[b] /\ queued'[b] = queued[b]
  <2>1. D = C
    BY Zenon, <1>8
  <2>. HIDE DEF D, C
  <2>. QED  BY <1>1, <1>3, <1>8, <2>1
<1>. QED  BY Zenon, <1>6, <1>7, <1>8

\* removeSequence keeps the invariant, unless it puts a block at two nodes.
LEMMA RemoveStep ==
    ASSUME IInv, CountingLaws, NEW r \in Requests, RemoveSequence(r)
    PROVE  Rest' /\ (rekeyed' \/ IInv')
<1>1. /\ stage[r] \in {"added", "context", "generation"} /\ ~dirty[r]
      /\ tree' = IF valid[r]
                 THEN Stored(tree, tokens[r], Usable(r, tokens[r], pos[r]), TRUE, held[r])
                 ELSE tree
      /\ Dropped({held[r][i] : i \in front[r] + 1 .. Len(held[r])})
      /\ stage' = [stage EXCEPT ![r] = "removed"]
      /\ held' = [held EXCEPT ![r] = << >>]
      /\ front' = [front EXCEPT ![r] = 0]
      /\ rekeyed' = Rekeys(r)
      /\ UNCHANGED <<config, mem, owner, valid, dirty, tokens, pos, pins, unclaimed>>
  BY Zenon DEF RemoveSequence
<1>2. InUse(r) /\ Staged(r)
  BY Zenon, <1>1 DEF InUse, IInv, StagedInv
<1>3. /\ tokens[r] \in Seq(Tokens) /\ held[r] \in Seq(Blocks) /\ TreeType(tree)
      /\ Len(held[r]) \in Nat /\ pos[r] \in Nat
  BY Zenon, Types
<1>. DEFINE n == Usable(r, tokens[r], pos[r])
<1>4. n \in 0 .. Len(tokens[r]) /\ n <= pos[r]
  <2>1. CASE stage[r] = "added"
    BY Zenon, <2>1, AddedUsable
  <2>2. CASE stage[r] \in {"context", "generation"}
    BY Zenon, <1>3, <2>2, UsableLaws
  <2>. QED  BY Zenon, <1>1, <2>1, <2>2
<1>5. TreeType(tree)'
  <2>1. CASE valid[r]
    <3>1. tree' = Stored(tree, tokens[r], n, TRUE, held[r])
      BY Zenon, <1>1, <2>1
    <3>. HIDE DEF n
    <3>2. TreeType(tree')
      BY Zenon, <1>3, <1>4, <3>1, StoredLaws
    <3>. QED  BY Zenon, <3>2 DEF TreeType
  <2>2. CASE ~valid[r]
    BY Zenon, <1>1, <1>3, <2>2 DEF TreeType
  <2>. QED  BY Zenon, <2>1, <2>2
<1>6. ASSUME ~Rekeys(r)
      PROVE  /\ TruthInv' /\ UniqueInv'
             /\ \A p \in DOMAIN tree' :
                   \/ p \in DOMAIN tree /\ tree'[p] = tree[p]
                   \/ \E k \in 1 .. Len(held[r]) :
                        tree'[p] = held[r][k] /\ (Settled(r, k) => Len(p) = Filled(k))
  <2>1. CASE valid[r]
    <3>1. tree' = Stored(tree, tokens[r], n, TRUE, held[r]) /\ mem' = mem
      BY Zenon, <1>1, <2>1
    <3>2. PICK partial \in BOOLEAN :
            /\ tree' = Stored(tree, tokens[r], n, partial, held[r])
            /\ partial => \A k \in 1 .. Len(held[r]) : Settled(r, k) => Filled(k) <= n
      <4>1. CASE stage[r] \in {"context", "generation"}
        <5>1. \A k \in 1 .. Len(held[r]) : Settled(r, k) <=> Filled(k) <= n
          BY Zenon, <1>3, <4>1, UsableLaws
        <5>. HIDE DEF n
        <5>. QED  BY Zenon, <3>1, <5>1
      <4>2. CASE stage[r] = "added" /\ pos[r] % TokensPerBlock # 0
        <5>1. \A k \in 1 .. Len(held[r]) : Settled(r, k) => Filled(k) <= n
          BY Zenon, <4>2, AddedUsable
        <5>. HIDE DEF n
        <5>. QED  BY Zenon, <3>1, <5>1
      <4>3. CASE stage[r] = "added" /\ pos[r] % TokensPerBlock = 0
        <5>1. stage[r] = "added"
          BY <4>3
        <5>2. (pos[r] > 0 => n = pos[r] - 1) /\ (~(pos[r] > 0) => n = 0)
          BY <5>1, AddedUsable
        <5>3. pos[r] > 1 => Prefix(tokens[r], pos[r] - 1) \in DOMAIN tree
          BY Zenon, <1>6, <2>1, <4>3 DEF Rekeys
        <5>. HIDE DEF n
        <5>4. CASE pos[r] > 1
          <6>1. n = pos[r] - 1 /\ n \in Nat
            BY <1>3, <5>2, <5>4
          <6>2. Stored(tree, tokens[r], n, TRUE, held[r]) = Stored(tree, tokens[r], n, FALSE, held[r])
            BY Zenon, <5>3, <5>4, <6>1, StoredOnce
          <6>. QED  BY Zenon, <3>1, <6>2
        <5>5. CASE ~(pos[r] > 1)
          <6>1. n = 0 /\ n \in Nat
            BY <1>3, <5>2, <5>5
          <6>2. Stored(tree, tokens[r], n, TRUE, held[r]) = Stored(tree, tokens[r], n, FALSE, held[r])
            BY Zenon, <6>1, StoredOnce
          <6>. QED  BY Zenon, <3>1, <6>2
        <5>. QED  BY Zenon, <5>4, <5>5
      <4>. QED  BY Zenon, <1>1, <4>1, <4>2, <4>3
    <3>. HIDE DEF n
    <3>3. \A i \in 1 .. n : Prefix(tokens[r], i) = Prefix(tokens[r], i)
      OBVIOUS
    <3>4. /\ TruthInv' /\ UniqueInv'
          /\ \A p \in DOMAIN tree' :
               \/ p \in DOMAIN tree /\ tree'[p] = tree[p]
               \/ \E k \in 1 .. Len(held[r]) :
                    /\ tree'[p] = held[r][k] /\ Len(p) <= n
                    /\ ~partial \/ Settled(r, k) => Len(p) = Filled(k)
      BY Zenon, <1>2, <1>3, <1>4, <3>1, <3>2, <3>3, StoreStep
    <3>. QED  BY Zenon, <3>4
  <2>2. CASE ~valid[r]
    <3>1. tree' = tree /\ mem' = mem
      BY Zenon, <1>1, <2>2
    <3>2. TruthInv'
      BY Zenon, <3>1 DEF IInv, TruthInv, Truth
    <3>. QED  BY Zenon, <1>3, <3>1, <3>2 DEF IInv, UniqueInv
  <2>. QED  BY Zenon, <2>1, <2>2
<1>. HIDE DEF n
<1>7. /\ held' \in [Requests -> Seq(Blocks)] /\ front' \in [Requests -> Nat]
      /\ stage' \in [Requests -> {"new", "added", "context", "computed", "generation", "removed"}]
      /\ held'[r] = << >> /\ front'[r] = 0 /\ stage'[r] = "removed" /\ front[r] = 0
      /\ \A q \in Requests \ {r} :
            held'[q] = held[q] /\ front'[q] = front[q] /\ stage'[q] = stage[q]
  <2>1. held \in [Requests -> Seq(Blocks)] /\ front \in [Requests -> Nat]
        /\ stage \in [Requests -> {"new", "added", "context", "computed", "generation", "removed"}]
    BY Zenon DEF IInv, TypeOK
  <2>2. held' \in [Requests -> Seq(Blocks)] /\ front' \in [Requests -> Nat]
        /\ stage' \in [Requests -> {"new", "added", "context", "computed", "generation", "removed"}]
    BY <1>1, <2>1
  <2>3. /\ held'[r] = << >> /\ front'[r] = 0 /\ stage'[r] = "removed"
        /\ \A q \in Requests \ {r} :
            held'[q] = held[q] /\ front'[q] = front[q] /\ stage'[q] = stage[q]
    BY Zenon, <1>1, <2>1
  <2>. QED  BY Zenon, <1>2, <2>2, <2>3 DEF Staged
<1>8. ASSUME NEW q \in Requests, NEW j \in 1 .. Len(held'[q])
      PROVE  q # r /\ held'[q] = held[q] /\ j \in 1 .. Len(held[q])
  <2>1. q # r
    BY <1>7
  <2>. QED  BY Zenon, <1>7, <2>1
<1>9. ASSUME NEW q \in Requests, q # r, NEW k, Settled(q, k) PROVE Settled(q, k)'
  BY Zenon, <1>1, <1>7, <1>9 DEF Settled
<1>10. StagedInv'
  <2>1. SUFFICES ASSUME NEW q \in Requests PROVE Staged(q)'
    BY Zenon DEF StagedInv
  <2>2. Staged(q)
    BY Zenon DEF IInv, StagedInv
  <2>3. CASE q # r
    BY Zenon, <1>1, <1>7, <2>2, <2>3 DEF Staged
  <2>4. CASE q = r
    <3>1. stage'[r] \notin {"added", "context", "computed", "generation"}
          /\ stage'[r] \notin {"new", "added", "context", "computed"}
          /\ stage'[r] \notin {"added", "context"} /\ stage'[r] \notin {"added", "context", "computed"}
          /\ stage'[r] # "computed" /\ stage'[r] # "generation"
      BY <1>7
    <3>. QED  BY Zenon, <1>1, <1>7, <2>2, <2>4, <3>1 DEF Staged
  <2>. QED  BY Zenon, <2>3, <2>4
<1>11. DistinctInv' /\ ShareInv'
  <2>1. DistinctInv'
    <3>1. SUFFICES ASSUME NEW q \in Requests, NEW i \in 1 .. Len(held'[q]),
                          NEW j \in 1 .. Len(held'[q]), held'[q][i] = held'[q][j]
                   PROVE  i = j
      BY Zenon DEF DistinctInv, Distinct, NoRepeat
    <3>2. held[q][i] = held[q][j] /\ i \in 1 .. Len(held[q]) /\ j \in 1 .. Len(held[q])
      BY Zenon, <1>8, <3>1
    <3>. QED  BY Zenon, <3>2 DEF IInv, DistinctInv, Distinct, NoRepeat
  <2>2. ShareInv'
    <3>1. SUFFICES ASSUME NEW o \in Requests, NEW q \in Requests, o # q,
                          NEW i \in 1 .. Len(held'[o]), NEW j \in 1 .. Len(held'[q]),
                          held'[o][i] = held'[q][j]
                   PROVE  i = j /\ Settled(o, i)'
      BY Zenon DEF ShareInv, Shares
    <3>2. o # r /\ held[o][i] = held[q][j] /\ i \in 1 .. Len(held[o]) /\ j \in 1 .. Len(held[q])
      BY Zenon, <1>8, <3>1
    <3>3. i = j /\ Settled(o, i)
      BY Zenon, <3>1, <3>2 DEF IInv, ShareInv, Shares
    <3>. QED  BY Zenon, <1>9, <3>2, <3>3
  <2>. QED  BY Zenon, <2>1, <2>2
<1>12. ASSUME ~Rekeys(r) PROVE FoundInv'
  <2>1. SUFFICES ASSUME NEW p \in DOMAIN tree', NEW q \in Requests,
                        NEW i \in 1 .. Len(held'[q]), tree'[p] = held'[q][i]
                 PROVE  Len(p) = Filled(i) /\ Settled(q, i)'
    BY Zenon DEF FoundInv, Found
  <2>2. q # r /\ tree'[p] = held[q][i] /\ i \in 1 .. Len(held[q])
    BY Zenon, <1>8, <2>1
  <2>3. SUFFICES Len(p) = Filled(i) /\ Settled(q, i)
    BY Zenon, <1>9, <2>2
  <2>4. CASE p \in DOMAIN tree /\ tree'[p] = tree[p]
    <3>1. tree[p] = held[q][i]
      BY Zenon, <2>2, <2>4
    <3>. QED  BY Zenon, <2>2, <2>4, <3>1 DEF IInv, FoundInv, Found
  <2>5. ASSUME NEW k \in 1 .. Len(held[r]),
               tree'[p] = held[r][k], Settled(r, k) => Len(p) = Filled(k)
        PROVE  Len(p) = Filled(i) /\ Settled(q, i)
    <3>1. held[r][k] = held[q][i]
      BY Zenon, <2>2, <2>5
    <3>2. k = i /\ Settled(r, k)
      BY Zenon, <2>2, <3>1 DEF IInv, ShareInv, Shares
    <3>3. Settled(q, i)
      BY Zenon, <2>2, <3>1 DEF IInv, ShareInv, Shares
    <3>. QED  BY Zenon, <2>5, <3>2, <3>3
  <2>. QED  BY Zenon, <1>6, <1>12, <2>4, <2>5
<1>13. ContentInv'
  <2>1. SUFFICES ASSUME NEW q \in Requests, InUse(q)' PROVE Content(q)'
    BY Zenon DEF ContentInv
  <2>2. q # r
    BY <1>7, <2>1 DEF InUse
  <2>3. InUse(q)
    BY Zenon, <1>7, <2>1, <2>2 DEF InUse
  <2>4. Content(q)
    BY Zenon, <2>3 DEF IInv, ContentInv
  <2>. QED  BY Zenon, <1>1, <1>7, <2>2, <2>4 DEF Content
<1>14. ASSUME NEW b \in Blocks PROVE Counted(b)' /\ ref'[b] \in Nat /\ queued'[b] \in Nat
  <2>. DEFINE B == {held[r][i] : i \in front[r] + 1 .. Len(held[r])}
  <2>1. B = Holds(r)
    BY Zenon DEF Holds
  <2>2. /\ ref'[b] = IF b \in B THEN ref[b] - 1 ELSE ref[b]
        /\ queued'[b] = IF b \in B /\ ref[b] = 1 THEN queued[b] + 1 ELSE queued[b]
    BY Zenon, <1>1 DEF Dropped
  <2>. HIDE DEF B
  <2>3. Holds(r)' = {}
    <3>1. SUFFICES ASSUME NEW c, c \in Holds(r)' PROVE FALSE
      BY Zenon
    <3>2. PICK i \in front'[r] + 1 .. Len(held'[r]) : TRUE
      BY Zenon, <3>1 DEF Holds
    <3>. QED  BY <1>7, <3>2
  <2>4. \A q \in Requests : q # r => Holds(q)' = Holds(q)
    BY Zenon, <1>7 DEF Holds
  <2>5. CASE b \in B
    <3>1. r \in Holders(b) /\ Holders(b)' = Holders(b) \ {r}
      BY Zenon, <2>1, <2>3, <2>4, <2>5 DEF Holders
    <3>2. ref'[b] = ref[b] - 1 /\ queued'[b] = IF ref[b] = 1 THEN queued[b] + 1 ELSE queued[b]
      BY Zenon, <2>2, <2>5
    <3>. QED  BY Zenon, <3>1, <3>2, CountStep
  <2>6. CASE b \notin B
    <3>1. Holders(b)' = Holders(b)
      BY Zenon, <2>1, <2>3, <2>4, <2>6 DEF Holders
    <3>2. ref'[b] = ref[b] /\ queued'[b] = queued[b]
      BY Zenon, <2>2, <2>6
    <3>. QED  BY Zenon, <3>1, <3>2, CountStep
  <2>. QED  BY Zenon, <2>5, <2>6
<1>15. CountInv'
  BY Zenon, <1>14 DEF CountInv
<1>16. ref' \in [Blocks -> Nat] /\ queued' \in [Blocks -> Nat]
  <2>1. ref' = [b \in Blocks |-> ref'[b]] /\ queued' = [b \in Blocks |-> queued'[b]]
    BY Zenon, <1>1 DEF Dropped
  <2>. QED  BY Zenon, <1>14, <2>1
<1>17. rekeyed' \in BOOLEAN
  BY <1>1 DEF Rekeys
<1>18. TypeOK'
  BY Zenon, <1>1, <1>7, <1>16, <1>5, <1>17 DEF IInv, TypeOK, TreeType
<1>19. PlainConfig'
  BY Zenon, <1>1 DEF IInv, PlainConfig
<1>20. ASSUME ~Rekeys(r) PROVE IInv'
  BY Zenon, <1>6, <1>10, <1>11, <1>12, <1>13, <1>15, <1>18, <1>19, <1>20 DEF IInv
<1>. QED  BY Zenon, <1>1, <1>10, <1>15, <1>18, <1>19, <1>20 DEF Rest

-----------------------------------------------------------------------------
(* Taking blocks.                                                          *)

\* b is one of the blocks by which bs extends the blocks of r.
Taken(r, bs, b) == \E k \in Len(held[r]) + 1 .. Len(bs) : bs[k] = b

\* The other sequences keep their settled blocks.
OthersSettled(r) ==
    \A q \in Requests \ {r} : \A j \in 1 .. Len(held[q]) : Settled(q, j) => Settled(q, j)'

\* What bs shares with other sequences, and with the tree.
SharedWell(r, bs) ==
    \A q \in Requests \ {r} : \A j \in 1 .. Len(held[q]) : \A k \in 1 .. Len(bs) :
        held[q][j] = bs[k] => j = k /\ Settled(q, j) /\ Settled(r, k)'

FoundWell(r, bs) ==
    \A p \in DOMAIN tree' : \A k \in 1 .. Len(bs) :
        tree'[p] = bs[k] => Len(p) = Filled(k) /\ Settled(r, k)'

\* The blocks taken get a reference and leave the free queues.
Referred(r, bs) ==
    \A b \in Blocks :
        /\ Taken(r, bs, b) =>
             /\ ref'[b] = ref[b] + 1
             /\ queued'[b] = IF queued[b] > 0 THEN queued[b] - 1 ELSE queued[b]
        /\ ~Taken(r, bs, b) => ref'[b] = ref[b] /\ queued'[b] = queued[b]

\* A sequence that gets the blocks bs shares only settled blocks.
LEMMA TakeShares ==
    ASSUME IInv, NEW r \in Requests, NEW bs \in Seq(Blocks),
           NoRepeat(bs), held' = [held EXCEPT ![r] = bs], Pruned(tree'),
           OthersSettled(r), SharedWell(r, bs), FoundWell(r, bs)
    PROVE  ShareInv' /\ DistinctInv' /\ FoundInv' /\ UniqueInv'
<1>1. held'[r] = bs /\ \A q \in Requests : q # r => held'[q] = held[q]
  <2>1. held \in [Requests -> Seq(Blocks)]
    BY Zenon DEF IInv, TypeOK
  <2>. QED  BY Zenon, <2>1
<1>2. DistinctInv'
  <2>1. SUFFICES ASSUME NEW q \in Requests PROVE NoRepeat(held'[q])
    BY Zenon DEF DistinctInv, Distinct, NoRepeat
  <2>2. NoRepeat(held[q])
    BY Zenon DEF IInv, DistinctInv, Distinct
  <2>3. held'[q] = IF q = r THEN bs ELSE held[q]
    BY Zenon, <1>1
  <2>. QED  BY Zenon, <2>2, <2>3
<1>3. ShareInv'
  <2>1. SUFFICES ASSUME NEW o \in Requests, NEW q \in Requests, o # q,
                        NEW i \in 1 .. Len(held'[o]), NEW j \in 1 .. Len(held'[q]),
                        held'[o][i] = held'[q][j]
                 PROVE  i = j /\ Settled(o, i)'
    BY Zenon DEF ShareInv, Shares
  <2>2. CASE o = r
    <3>1. held'[o] = bs /\ held'[q] = held[q] /\ q \in Requests \ {r}
      BY Zenon, <1>1, <2>1, <2>2
    <3>2. i \in 1 .. Len(bs) /\ j \in 1 .. Len(held[q]) /\ held[q][j] = bs[i]
      BY Zenon, <2>1, <3>1
    <3>. QED  BY Zenon, <2>2, <3>1, <3>2 DEF SharedWell
  <2>3. CASE q = r
    <3>1. held'[q] = bs /\ held'[o] = held[o] /\ o \in Requests \ {r}
      BY Zenon, <1>1, <2>1, <2>3
    <3>2. i \in 1 .. Len(held[o]) /\ j \in 1 .. Len(bs) /\ held[o][i] = bs[j]
      BY Zenon, <2>1, <3>1
    <3>3. i = j /\ Settled(o, i)
      BY Zenon, <3>1, <3>2 DEF SharedWell
    <3>. QED  BY Zenon, <3>1, <3>2, <3>3 DEF OthersSettled
  <2>4. CASE o # r /\ q # r
    <3>1. held'[o] = held[o] /\ held'[q] = held[q] /\ o \in Requests \ {r}
      BY Zenon, <1>1, <2>4
    <3>2. i \in 1 .. Len(held[o]) /\ j \in 1 .. Len(held[q]) /\ held[o][i] = held[q][j]
      BY Zenon, <2>1, <3>1
    <3>3. i = j /\ Settled(o, i)
      BY Zenon, <2>1, <3>2 DEF IInv, ShareInv, Shares
    <3>. QED  BY Zenon, <3>1, <3>2, <3>3 DEF OthersSettled
  <2>. QED  BY Zenon, <2>2, <2>3, <2>4
<1>4. FoundInv'
  <2>1. SUFFICES ASSUME NEW p \in DOMAIN tree', NEW q \in Requests,
                        NEW i \in 1 .. Len(held'[q]), tree'[p] = held'[q][i]
                 PROVE  Len(p) = Filled(i) /\ Settled(q, i)'
    BY Zenon DEF FoundInv, Found
  <2>2. CASE q = r
    <3>1. i \in 1 .. Len(bs) /\ tree'[p] = bs[i]
      BY Zenon, <1>1, <2>1, <2>2
    <3>. QED  BY Zenon, <2>2, <3>1 DEF FoundWell
  <2>3. CASE q # r
    <3>1. p \in DOMAIN tree /\ tree[p] = held[q][i] /\ i \in 1 .. Len(held[q])
      BY Zenon, <1>1, <2>1, <2>3 DEF Pruned
    <3>2. Len(p) = Filled(i) /\ Settled(q, i)
      BY Zenon, <3>1 DEF IInv, FoundInv, Found
    <3>. QED  BY Zenon, <2>3, <3>1, <3>2 DEF OthersSettled
  <2>. QED  BY Zenon, <2>2, <2>3
<1>5. UniqueInv'
  <2>1. SUFFICES ASSUME NEW p \in DOMAIN tree', NEW q \in DOMAIN tree', tree'[p] = tree'[q]
                 PROVE  p = q
    BY Zenon DEF UniqueInv
  <2>2. p \in DOMAIN tree /\ q \in DOMAIN tree /\ tree[p] = tree[q]
    BY Zenon, <2>1 DEF Pruned
  <2>. QED  BY Zenon, <2>2 DEF IInv, UniqueInv
<1>. QED  BY Zenon, <1>2, <1>3, <1>4, <1>5

\* References are counted when a sequence gets the blocks bs.
LEMMA TakeCount ==
    ASSUME IInv, CountingLaws, NEW r \in Requests, NEW bs \in Seq(Blocks),
           NoRepeat(bs), Extends(r, bs), held' = [held EXCEPT ![r] = bs], front' = front,
           Referred(r, bs)
    PROVE  CountInv' /\ \A b \in Blocks : ref'[b] \in Nat /\ queued'[b] \in Nat
<1>1. held'[r] = bs /\ \A q \in Requests : q # r => held'[q] = held[q]
  <2>1. held \in [Requests -> Seq(Blocks)]
    BY Zenon DEF IInv, TypeOK
  <2>. QED  BY Zenon, <2>1
<1>2. ASSUME NEW b \in Blocks PROVE Counted(b)' /\ ref'[b] \in Nat /\ queued'[b] \in Nat
  <2>1. \A q \in Requests : front[q] = 0 /\ front'[q] = 0
    BY Zenon DEF IInv, StagedInv, Staged
  <2>2. \A q \in Requests : b \in Holds(q) <=> \E i \in 1 .. Len(held[q]) : held[q][i] = b
    BY Zenon, <2>1, HeldBlocks
  <2>3. ASSUME NEW q \in Requests
        PROVE  b \in Holds(q)' <=> \E i \in 1 .. Len(held'[q]) : held'[q][i] = b
    <3>1. front'[q] + 1 = 1
      BY <2>1
    <3>. QED  BY Zenon, <3>1 DEF Holds
  <2>4. ASSUME NEW q \in Requests, q # r PROVE b \in Holds(q)' <=> b \in Holds(q)
    <3>1. held'[q] = held[q]
      BY Zenon, <1>1, <2>4
    <3>2. b \in Holds(q)' <=> \E i \in 1 .. Len(held[q]) : held[q][i] = b
      BY Zenon, <2>3, <3>1
    <3>. QED  BY Zenon, <2>2, <3>2
  <2>5. b \in Holds(r)' <=> b \in Holds(r) \/ Taken(r, bs, b)
    <3>1. Len(held[r]) \in Nat /\ Len(bs) \in Nat
      BY Types
    <3>2. \A i \in 1 .. Len(bs) : i \in 1 .. Len(held[r]) \/ i \in Len(held[r]) + 1 .. Len(bs)
      BY <3>1
    <3>3. \A i \in 1 .. Len(held[r]) : i \in 1 .. Len(bs) /\ bs[i] = held[r][i]
      BY <3>1 DEF Extends
    <3>4. \A i \in Len(held[r]) + 1 .. Len(bs) : i \in 1 .. Len(bs)
      BY <3>1
    <3>5. b \in Holds(r)' <=> \E i \in 1 .. Len(bs) : bs[i] = b
      BY Zenon, <1>1, <2>3
    <3>6. b \in Holds(r) <=> \E i \in 1 .. Len(held[r]) : held[r][i] = b
      BY Zenon, <2>2
    <3>7. ASSUME b \in Holds(r)' PROVE b \in Holds(r) \/ Taken(r, bs, b)
      <4>1. PICK i \in 1 .. Len(bs) : bs[i] = b
        BY Zenon, <3>5, <3>7
      <4>. QED  BY Zenon, <3>2, <3>3, <3>6, <4>1 DEF Taken
    <3>8. ASSUME b \in Holds(r) PROVE b \in Holds(r)'
      BY Zenon, <3>3, <3>5, <3>6, <3>8
    <3>9. ASSUME Taken(r, bs, b) PROVE b \in Holds(r)'
      BY Zenon, <3>4, <3>5, <3>9 DEF Taken
    <3>. QED  BY Zenon, <3>7, <3>8, <3>9
  <2>6. Taken(r, bs, b) => b \notin Holds(r)
    <3>1. SUFFICES ASSUME NEW k \in Len(held[r]) + 1 .. Len(bs), bs[k] = b,
                          NEW i \in 1 .. Len(held[r]), held[r][i] = b
                   PROVE  FALSE
      BY Zenon, <2>2 DEF Taken
    <3>2. Len(held[r]) \in Nat /\ Len(bs) \in Nat
      BY Types
    <3>3. k \in 1 .. Len(bs) /\ i \in 1 .. Len(bs) /\ i # k
      BY <3>2 DEF Extends
    <3>4. bs[i] = bs[k]
      BY Zenon, <3>1 DEF Extends
    <3>. QED  BY Zenon, <3>3, <3>4 DEF NoRepeat
  <2>7. CASE Taken(r, bs, b)
    <3>1. r \notin Holders(b) /\ Holders(b)' = Holders(b) \cup {r}
      BY Zenon, <2>4, <2>5, <2>6, <2>7 DEF Holders
    <3>2. /\ ref'[b] = ref[b] + 1
          /\ queued'[b] = IF queued[b] > 0 THEN queued[b] - 1 ELSE queued[b]
      BY Zenon, <2>7 DEF Referred
    <3>. QED  BY Zenon, <3>1, <3>2, CountStep
  <2>8. CASE ~Taken(r, bs, b)
    <3>1. Holders(b)' = Holders(b)
      BY Zenon, <2>4, <2>5, <2>8 DEF Holders
    <3>2. ref'[b] = ref[b] /\ queued'[b] = queued[b]
      BY Zenon, <2>8 DEF Referred
    <3>. QED  BY Zenon, <3>1, <3>2, CountStep
  <2>. QED  BY Zenon, <2>7, <2>8
<1>. QED  BY Zenon, <1>2 DEF CountInv

\* Nobody holds a block that no sequence has.
LEMMA EmptyCount ==
    ASSUME CountingLaws
    PROVE  Cardinality({}) = 0
BY Zenon DEF CountingLaws

\* The bookkeeping of getFreeBlock is well typed.
LEMMA AcquiredType ==
    ASSUME IInv, NEW r \in Requests, NEW E, Acquired(r, E)
    PROVE  owner' \in [Blocks -> Requests \cup {NoRequest}] /\ valid' \in [Requests -> BOOLEAN]
<1>1. owner \in [Blocks -> Requests \cup {NoRequest}] /\ valid \in [Requests -> BOOLEAN]
  BY Zenon DEF IInv, TypeOK
<1>2. \A b \in Blocks : (IF b \in E THEN r ELSE owner[b]) \in Requests \cup {NoRequest}
  BY Zenon, <1>1
<1>3. owner' \in [Blocks -> Requests \cup {NoRequest}]
  BY Zenon, <1>2 DEF Acquired
<1>4. valid' \in [Requests -> BOOLEAN]
  BY Zenon DEF Acquired
<1>. QED  BY Zenon, <1>3, <1>4

\* With full attention no block is detached.
LEMMA NoneDetached ==
    ASSUME IInv, NEW r \in Requests, Len(tokens[r]) < MaxLen
    PROVE  OutOfWindow(r) = {}
<1>1. config.window >= MaxLen /\ config \in Configs /\ front[r] = 0
  BY Zenon DEF IInv, PlainConfig, TypeOK, StagedInv, Staged
<1>2. config.window \in Nat /\ MaxLen \in Nat
  BY <1>1, ReuseAssumption
<1>3. ASSUME NEW j \in front[r] + 1 .. Len(held[r])
      PROVE  ~(Len(tokens[r]) - (j - 1) * TokensPerBlock >= config.window + TokensPerBlock)
  <2>1. Len(tokens[r]) \in Nat /\ Len(held[r]) \in Nat
    BY Zenon, Types
  <2>2. j - 1 \in Nat
    BY <1>1, <2>1
  <2>3. PICK m \in Nat : m = (j - 1) * TokensPerBlock
    BY <2>2, SizeType
  <2>4. m \in Nat
    BY Zenon, <2>3
  <2>5. ~(Len(tokens[r]) - m >= config.window + TokensPerBlock)
    BY <1>1, <1>2, <2>1, <2>4, SizeType
  <2>. QED  BY Zenon, <2>3, <2>5
<1>. QED  BY Zenon, <1>3 DEF OutOfWindow

\* The blocks of a sequence after a generation step.
LEMMA DecodeBlocks ==
    ASSUME IInv, CountingLaws, NEW r \in Requests, Decode(r)
    PROVE  \E bs \in Seq(Blocks) :
             /\ NoRepeat(bs) /\ Extends(r, bs) /\ Referred(r, bs)
             /\ Len(bs) = NumBlocks(pos[r] + 1)
             /\ \A b : Taken(r, bs, b) => b \in Blocks /\ ref[b] = 0
             /\ Pruned(tree') /\ TreeType(tree')
             /\ \A p \in DOMAIN tree' : ~Taken(r, bs, tree'[p])
             /\ mem' = Written(r, bs, pos[r] + 1 .. pos[r] + 1)
             /\ \E E : Acquired(r, E)
             /\ held' = [held EXCEPT ![r] = bs]
             /\ ref' = [b \in Blocks |-> ref'[b]] /\ queued' = [b \in Blocks |-> queued'[b]]
<1>. DEFINE len == Len(tokens[r])
<1>1. stage[r] = "generation" /\ len < MaxLen
  BY Zenon DEF Decode
<1>2. OutOfWindow(r) = {}
  BY Zenon, <1>1, NoneDetached
<1>3. PICK new \in IF (len - 1) % TokensPerBlock = 0
                   THEN {<<b>> : b \in {b \in Blocks : queued[b] > 0} \cup {b \in OutOfWindow(r) : ref[b] = 1}}
                   ELSE {<< >>} :
             /\ tree' = Without(tree, Range(new))
             /\ mem' = Written(r, held[r] \o new, {len})
             /\ ref' = [b \in Blocks |-> ref[b] - (IF b \in OutOfWindow(r) THEN 1 ELSE 0)
                                                + (IF b \in Range(new) THEN 1 ELSE 0)]
             /\ queued' = [b \in Blocks |-> queued[b]
                             + (IF b \in {c \in OutOfWindow(r) : ref[c] = 1} THEN 1 ELSE 0)
                             - (IF b \in Range(new) THEN 1 ELSE 0)]
             /\ Acquired(r, Range(new))
             /\ held' = [held EXCEPT ![r] = @ \o new]
  BY Zenon DEF Decode
<1>. DEFINE bs == held[r] \o new
<1>4. Staged(r) /\ Distinct(r)
  BY Zenon DEF IInv, StagedInv, DistinctInv
<1>5. /\ len = pos[r] + 1 /\ Len(held[r]) = NumBlocks(pos[r]) /\ pos[r] \in Nat \ {0}
      /\ held[r] \in Seq(Blocks) /\ Len(held[r]) \in Nat
  <2>1. len = pos[r] + 1 /\ Len(held[r]) = NumBlocks(pos[r]) /\ pos[r] >= Len(Prompt[r])
    BY Zenon, <1>1, <1>4 DEF Staged
  <2>2. pos[r] \in Nat \ {0}
    BY <2>1, Types
  <2>. QED  BY Zenon, <2>1, <2>2, Types
<1>6. NumBlocks(pos[r] + 1) = IF pos[r] % TokensPerBlock = 0 THEN Len(held[r]) + 1 ELSE Len(held[r])
  <2>1. pos[r] + 1 \in Nat \ {0}
    BY <1>5
  <2>2. NumBlocks(pos[r] + 1) = BlockOf(pos[r] + 1) /\ NumBlocks(pos[r]) = BlockOf(pos[r])
    BY Zenon, <1>5, <2>1, Place
  <2>. QED  BY Zenon, <1>5, <2>2, NextBlock
<1>7. len - 1 = pos[r] /\ {len} = pos[r] + 1 .. pos[r] + 1
  BY <1>5
<1>8. /\ bs \in Seq(Blocks) /\ Extends(r, bs) /\ Len(bs) = NumBlocks(pos[r] + 1)
      /\ \A b : b \in Range(new) <=> Taken(r, bs, b)
      /\ \A b \in Range(new) : b \in Blocks /\ queued[b] > 0
      /\ Len(bs) \in {Len(held[r]), Len(held[r]) + 1}
  <2>1. CASE pos[r] % TokensPerBlock = 0
    <3>1. PICK c \in Blocks : new = <<c>> /\ queued[c] > 0
      BY Zenon, <1>2, <1>3, <1>7, <2>1
    <3>2. /\ bs \in Seq(Blocks) /\ Len(bs) = Len(held[r]) + 1 /\ bs[Len(held[r]) + 1] = c
          /\ \A i \in 1 .. Len(held[r]) : bs[i] = held[r][i]
      BY <1>5, <3>1
    <3>3. Range(new) = {c}
      BY <3>1 DEF Range
    <3>. HIDE DEF bs
    <3>4. \A b : Taken(r, bs, b) <=> b = c
      BY <1>5, <3>2 DEF Taken
    <3>5. Len(held[r]) <= Len(bs)
      BY <1>5, <3>2
    <3>. QED  BY Zenon, <1>6, <2>1, <3>1, <3>2, <3>3, <3>4, <3>5 DEF Extends
  <2>2. CASE pos[r] % TokensPerBlock # 0
    <3>1. new = << >>
      BY Zenon, <1>3, <1>7, <2>2
    <3>2. bs = held[r]
      BY <1>5, <3>1
    <3>3. Range(new) = {}
      BY <3>1 DEF Range
    <3>. HIDE DEF bs
    <3>4. \A b : ~Taken(r, bs, b)
      BY <1>5, <3>2 DEF Taken
    <3>5. Len(held[r]) <= Len(bs)
      BY <1>5, <3>2
    <3>. QED  BY Zenon, <1>5, <1>6, <2>2, <3>2, <3>3, <3>4, <3>5 DEF Extends
  <2>. QED  BY Zenon, <2>1, <2>2
<1>9. tree' = Without(tree, Range(new)) /\ mem' = Written(r, bs, pos[r] + 1 .. pos[r] + 1)
      /\ held' = [held EXCEPT ![r] = bs] /\ Acquired(r, Range(new))
  BY Zenon, <1>3, <1>7
<1>. HIDE DEF bs
<1>10. \A b : Taken(r, bs, b) => b \in Blocks /\ ref[b] = 0
  BY Zenon, <1>8, FreeBlock
<1>11. Referred(r, bs)
  <2>1. SUFFICES ASSUME NEW b \in Blocks
                 PROVE  /\ b \in Range(new) =>
                            /\ ref'[b] = ref[b] + 1
                            /\ queued'[b] = IF queued[b] > 0 THEN queued[b] - 1 ELSE queued[b]
                        /\ b \notin Range(new) => ref'[b] = ref[b] /\ queued'[b] = queued[b]
    BY Zenon, <1>8 DEF Referred
  <2>2. ref[b] \in Nat /\ queued[b] \in Nat
    BY Zenon DEF IInv, TypeOK
  <2>3. /\ ref'[b] = ref[b] - 0 + (IF b \in Range(new) THEN 1 ELSE 0)
        /\ queued'[b] = queued[b] + 0 - (IF b \in Range(new) THEN 1 ELSE 0)
    BY Zenon, <1>2, <1>3
  <2>4. b \in Range(new) => queued[b] > 0
    BY Zenon, <1>8
  <2>. QED  BY <2>2, <2>3, <2>4
<1>12. NoRepeat(bs)
  <2>1. SUFFICES ASSUME NEW i \in 1 .. Len(bs), NEW j \in 1 .. Len(bs), bs[i] = bs[j]
                 PROVE  i = j
    BY Zenon DEF NoRepeat
  <2>2. Len(held[r]) \in Nat
    BY Zenon, <1>5
  <2>3. \A k \in 1 .. Len(bs) : k \in 1 .. Len(held[r]) \/ (k \in Len(held[r]) + 1 .. Len(bs) /\ k = Len(held[r]) + 1)
    BY <1>8, <2>2
  <2>4. ASSUME NEW k \in 1 .. Len(held[r]) PROVE ~Taken(r, bs, bs[k])
    <3>1. bs[k] = held[r][k]
      BY Zenon, <1>8 DEF Extends
    <3>. QED  BY Zenon, <1>10, <3>1, FreeBlock
  <2>5. CASE i \in 1 .. Len(held[r]) /\ j \in 1 .. Len(held[r])
    <3>1. held[r][i] = held[r][j]
      BY Zenon, <1>8, <2>1, <2>5 DEF Extends
    <3>. QED  BY Zenon, <1>4, <2>5, <3>1 DEF Distinct, NoRepeat
  <2>6. CASE i \in 1 .. Len(held[r]) /\ j \in Len(held[r]) + 1 .. Len(bs)
    BY Zenon, <2>1, <2>4, <2>6 DEF Taken
  <2>7. CASE j \in 1 .. Len(held[r]) /\ i \in Len(held[r]) + 1 .. Len(bs)
    BY Zenon, <2>1, <2>4, <2>7 DEF Taken
  <2>8. CASE i = Len(held[r]) + 1 /\ j = Len(held[r]) + 1
    BY Zenon, <2>8
  <2>. QED  BY Zenon, <2>3, <2>5, <2>6, <2>7, <2>8
<1>13. Pruned(tree') /\ TreeType(tree') /\ \A p \in DOMAIN tree' : ~Taken(r, bs, tree'[p])
  <2>1. TreeType(tree)
    BY Zenon, Types
  <2>2. TreeType(tree') /\ Cleared(tree', tree, Range(new))
    BY Zenon, <1>9, <2>1, WithoutLaws
  <2>. QED  BY Zenon, <1>8, <2>2 DEF Pruned, Cleared
<1>14. ref' = [b \in Blocks |-> ref'[b]] /\ queued' = [b \in Blocks |-> queued'[b]]
  BY Zenon, <1>3
<1>. QED  BY Zenon, <1>8, <1>9, <1>10, <1>11, <1>12, <1>13, <1>14

\* addToken and the forward pass of a generation step keep the invariant.
LEMMA DecodeStep ==
    ASSUME IInv, CountingLaws, NEW r \in Requests, Decode(r)
    PROVE  IInv'
<1>1. PICK bs \in Seq(Blocks) :
             /\ NoRepeat(bs) /\ Extends(r, bs) /\ Referred(r, bs)
             /\ Len(bs) = NumBlocks(pos[r] + 1)
             /\ \A b : Taken(r, bs, b) => b \in Blocks /\ ref[b] = 0
             /\ Pruned(tree') /\ TreeType(tree')
             /\ \A p \in DOMAIN tree' : ~Taken(r, bs, tree'[p])
             /\ mem' = Written(r, bs, pos[r] + 1 .. pos[r] + 1)
             /\ \E E : Acquired(r, E)
             /\ held' = [held EXCEPT ![r] = bs]
             /\ ref' = [b \in Blocks |-> ref'[b]] /\ queued' = [b \in Blocks |-> queued'[b]]
  BY Zenon, DecodeBlocks
<1>2. PICK g \in GenTokens : tokens' = [tokens EXCEPT ![r] = Append(@, g)]
  BY Zenon DEF Decode
<1>3. /\ stage[r] = "generation" /\ Len(tokens[r]) < MaxLen
      /\ pos' = [pos EXCEPT ![r] = Len(tokens[r])]
      /\ front' = [front EXCEPT ![r] = @ + Cardinality(OutOfWindow(r))]
      /\ UNCHANGED <<config, stage, dirty, pins, rekeyed, unclaimed>>
  BY Zenon DEF Decode
<1>4. InUse(r) /\ Staged(r)
  BY Zenon, <1>3 DEF InUse, IInv, StagedInv
<1>5. /\ pos[r] \in Nat /\ Len(tokens[r]) = pos[r] + 1 /\ tokens[r] \in Seq(Tokens)
      /\ pos[r] >= Len(Prompt[r]) /\ Len(Prompt[r]) \in Nat /\ Len(held[r]) \in Nat /\ Len(bs) \in Nat
  <2>1. Len(tokens[r]) = pos[r] + 1 /\ pos[r] >= Len(Prompt[r])
    BY Zenon, <1>3, <1>4 DEF Staged
  <2>2. Len(bs) \in Nat
    OBVIOUS
  <2>. QED  BY Zenon, <2>1, <2>2, Types
<1>. DEFINE s == Append(tokens[r], g)
<1>6. /\ s \in Seq(Tokens) /\ Len(s) = pos[r] + 2
      /\ \A i \in 1 .. pos[r] + 1 : Prefix(s, i) = Prefix(tokens[r], i)
  <2>1. g \in Tokens
    BY Zenon, ReuseAssumption
  <2>2. s \in Seq(Tokens) /\ Len(s) = pos[r] + 2
    BY <1>5, <2>1
  <2>3. \A i \in 1 .. pos[r] + 1 : i \in 0 .. Len(tokens[r])
    BY <1>5
  <2>. QED  BY Zenon, <1>5, <2>1, <2>2, <2>3, PrefixAppend
<1>7. front' = front
  <2>1. OutOfWindow(r) = {}
    BY Zenon, <1>3, NoneDetached
  <2>2. Cardinality({}) = 0
    BY EmptyCount
  <2>3. front[r] = 0 /\ front \in [Requests -> Nat]
    BY Zenon, <1>4 DEF Staged, IInv, TypeOK
  <2>4. front' = [front EXCEPT ![r] = @ + 0]
    BY Zenon, <1>3, <2>1, <2>2
  <2>. QED  BY <2>3, <2>4
<1>8. /\ tokens' \in [Requests -> Seq(Tokens)] /\ pos' \in [Requests -> Nat]
      /\ held' \in [Requests -> Seq(Blocks)]
      /\ tokens'[r] = s /\ pos'[r] = pos[r] + 1 /\ held'[r] = bs
      /\ \A q \in Requests \ {r} :
            tokens'[q] = tokens[q] /\ pos'[q] = pos[q] /\ held'[q] = held[q]
  <2>1. tokens \in [Requests -> Seq(Tokens)] /\ pos \in [Requests -> Nat]
        /\ held \in [Requests -> Seq(Blocks)]
    BY Zenon DEF IInv, TypeOK
  <2>2. tokens' = [tokens EXCEPT ![r] = s] /\ pos' = [pos EXCEPT ![r] = pos[r] + 1]
    BY Zenon, <1>2, <1>3, <1>5
  <2>. HIDE DEF s
  <2>3. tokens' \in [Requests -> Seq(Tokens)] /\ pos' \in [Requests -> Nat]
        /\ held' \in [Requests -> Seq(Blocks)]
    BY <1>1, <1>5, <1>6, <2>1, <2>2
  <2>4. /\ tokens'[r] = s /\ pos'[r] = pos[r] + 1 /\ held'[r] = bs
        /\ \A q \in Requests \ {r} :
            tokens'[q] = tokens[q] /\ pos'[q] = pos[q] /\ held'[q] = held[q]
    BY Zenon, <1>1, <2>1, <2>2
  <2>. QED  BY Zenon, <2>3, <2>4
<1>. HIDE DEF s
<1>9. /\ pos[r] + 1 \in Nat \ {0} /\ Len(bs) = BlockOf(pos[r] + 1)
      /\ pos[r] + 1 <= Filled(Len(bs)) /\ Filled(Len(bs)) \in Nat
  <2>1. pos[r] + 1 \in Nat \ {0}
    BY <1>5
  <2>. QED  BY Zenon, <1>1, <2>1, Place
\* The block that is written is new, or not full yet.
<1>10. ASSUME NEW k \in 1 .. Len(bs)
       PROVE  Taken(r, bs, bs[k]) \/ (k \in 1 .. Len(held[r]) /\ bs[k] = held[r][k])
  <2>1. k \in 1 .. Len(held[r]) \/ k \in Len(held[r]) + 1 .. Len(bs)
    BY <1>5
  <2>. QED  BY Zenon, <1>1, <2>1 DEF Taken, Extends
<1>11. /\ Exclusive(r, bs[Len(bs)])
       /\ \A p \in DOMAIN tree' : tree'[p] # bs[Len(bs)]
  <2>1. Len(bs) \in 1 .. Len(bs)
    <3>1. BlockOf(pos[r] + 1) \in Nat \ {0}
      BY Zenon, <1>9, Place
    <3>. QED  BY <1>5, <1>9, <3>1
  <2>2. CASE Taken(r, bs, bs[Len(bs)])
    <3>1. bs[Len(bs)] \in Blocks /\ ref[bs[Len(bs)]] = 0
      BY Zenon, <1>1, <2>2
    <3>2. Exclusive(r, bs[Len(bs)])
      BY Zenon, <3>1, FreeBlock DEF Exclusive
    <3>. QED  BY Zenon, <1>1, <2>2, <3>2
  <2>3. CASE Len(bs) \in 1 .. Len(held[r]) /\ bs[Len(bs)] = held[r][Len(bs)]
    <3>1. ~(Filled(Len(bs)) <= pos[r])
      BY <1>5, <1>9
    <3>2. ~Settled(r, Len(bs))
      BY Zenon, <3>1 DEF Settled
    <3>3. /\ Exclusive(r, held[r][Len(bs)])
          /\ \A p \in DOMAIN tree : tree[p] # held[r][Len(bs)]
      BY Zenon, <2>3, <3>2, Unsettled
    <3>. QED  BY Zenon, <1>1, <2>3, <3>3 DEF Pruned
  <2>. QED  BY Zenon, <1>10, <2>1, <2>2, <2>3
<1>12. MemType(mem)' /\ TruthInv' /\ Holding(r, bs, pos[r] + 1)
  <2>1. pos[r] + 1 \in pos[r] + 1 .. Len(tokens[r]) /\ BlockOf(pos[r] + 1) <= Len(bs)
    BY <1>5, <1>9
  <2>2. \A i \in pos[r] + 1 .. pos[r] + 1 : i = pos[r] + 1
    BY <1>5
  <2>3. Untouched(r, bs, pos[r] + 1)
    BY Zenon, <1>9, <1>11, <2>2 DEF Untouched
  <2>. QED  BY Zenon, <1>1, <1>4, <2>1, <2>3, WriteStep
<1>13. CountInv' /\ \A b \in Blocks : ref'[b] \in Nat /\ queued'[b] \in Nat
  BY Zenon, <1>1, <1>7, TakeCount
<1>14. ref' \in [Blocks -> Nat] /\ queued' \in [Blocks -> Nat]
  BY Zenon, <1>1, <1>13
<1>15. /\ owner' \in [Blocks -> Requests \cup {NoRequest}] /\ valid' \in [Requests -> BOOLEAN]
  BY Zenon, <1>1, AcquiredType
<1>16. TypeOK'
  BY Zenon, <1>1, <1>3, <1>7, <1>8, <1>12, <1>14, <1>15 DEF IInv, TypeOK, MemType, TreeType
<1>17. StagedInv'
  <2>1. SUFFICES ASSUME NEW q \in Requests PROVE Staged(q)'
    BY Zenon DEF StagedInv
  <2>2. Staged(q)
    BY Zenon DEF IInv, StagedInv
  <2>3. CASE q # r
    BY Zenon, <1>3, <1>7, <1>8, <2>2, <2>3 DEF Staged
  <2>4. CASE q = r
    <3>1. stage'[r] = "generation"
      BY Zenon, <1>3
    <3>2. stage'[r] \notin {"new", "removed"} /\ stage'[r] \notin {"new", "added", "context", "computed"}
          /\ stage'[r] \notin {"added", "context"} /\ stage'[r] \notin {"added", "context", "computed"}
          /\ stage'[r] # "computed"
      BY <3>1
    <3>3. pos[r] + 1 >= Len(Prompt[r]) /\ Len(s) = (pos[r] + 1) + 1
      BY <1>5, <1>6
    <3>. QED  BY Zenon, <1>1, <1>3, <1>7, <1>8, <2>2, <2>4, <3>2, <3>3 DEF Staged
  <2>. QED  BY Zenon, <2>3, <2>4
<1>18. ContentInv'
  <2>1. SUFFICES ASSUME NEW q \in Requests, InUse(q)' PROVE Content(q)'
    BY Zenon DEF ContentInv
  <2>2. InUse(q)
    BY Zenon, <1>3, <2>1 DEF InUse
  <2>3. CASE q = r
    <3>1. \A i \in 1 .. pos[r] + 1 : mem'[bs[BlockOf(i)]][SlotOf(i)] = Prefix(s, i)
      BY Zenon, <1>6, <1>12 DEF Holding
    <3>. QED  BY Zenon, <1>8, <2>3, <3>1 DEF Content
  <2>4. CASE q # r
    BY Zenon, <1>8, <1>12, <2>2, <2>4 DEF Holding, Content
  <2>. QED  BY Zenon, <2>3, <2>4
<1>19. OthersSettled(r)
  BY Zenon, <1>3, <1>8 DEF OthersSettled, Settled
<1>20. ASSUME NEW k \in 1 .. Len(held[r]), Settled(r, k) PROVE Settled(r, k)'
  <2>1. k \in Nat
    BY <1>5
  <2>2. Filled(k) \in Nat /\ Filled(k) <= pos[r]
    BY Zenon, <1>20, <2>1, FilledLaws DEF Settled
  <2>3. Filled(k) <= pos[r] + 1 /\ stage'[r] # "context"
    BY <1>3, <1>5, <2>2
  <2>. QED  BY Zenon, <1>8, <2>3 DEF Settled
<1>21. SharedWell(r, bs)
  <2>1. SUFFICES ASSUME NEW q \in Requests \ {r}, NEW j \in 1 .. Len(held[q]),
                        NEW k \in 1 .. Len(bs), held[q][j] = bs[k]
                 PROVE  j = k /\ Settled(q, j) /\ Settled(r, k)'
    BY Zenon DEF SharedWell
  <2>2. k \in 1 .. Len(held[r]) /\ bs[k] = held[r][k]
    BY Zenon, <1>1, <1>10, <2>1, FreeBlock
  <2>3. held[r][k] = held[q][j]
    BY Zenon, <2>1, <2>2
  <2>4. k = j /\ Settled(r, k)
    BY Zenon, <2>2, <2>3 DEF IInv, ShareInv, Shares
  <2>5. Settled(q, j)
    BY Zenon, <2>2, <2>3 DEF IInv, ShareInv, Shares
  <2>. QED  BY Zenon, <1>20, <2>2, <2>4, <2>5
<1>22. FoundWell(r, bs)
  <2>1. SUFFICES ASSUME NEW p \in DOMAIN tree', NEW k \in 1 .. Len(bs), tree'[p] = bs[k]
                 PROVE  Len(p) = Filled(k) /\ Settled(r, k)'
    BY Zenon DEF FoundWell
  <2>2. k \in 1 .. Len(held[r]) /\ bs[k] = held[r][k]
    BY Zenon, <1>1, <1>10, <2>1
  <2>3. p \in DOMAIN tree /\ tree[p] = held[r][k]
    BY Zenon, <1>1, <2>1, <2>2 DEF Pruned
  <2>4. Len(p) = Filled(k) /\ Settled(r, k)
    BY Zenon, <2>2, <2>3 DEF IInv, FoundInv, Found
  <2>. QED  BY Zenon, <1>20, <2>2, <2>4
<1>23. ShareInv' /\ DistinctInv' /\ FoundInv' /\ UniqueInv'
  BY Zenon, <1>1, <1>19, <1>21, <1>22, TakeShares
<1>24. PlainConfig'
  BY Zenon, <1>3 DEF IInv, PlainConfig
<1>. QED  BY Zenon, <1>12, <1>13, <1>16, <1>17, <1>18, <1>23, <1>24 DEF IInv

-----------------------------------------------------------------------------
(* Matching a prompt.                                                      *)

\* More on the ends of full blocks.
LEMMA FilledMore ==
    /\ \A k \in Nat : Filled(k) \div TokensPerBlock = k
    /\ \A k, m \in Nat : Filled(k) = Filled(m) => k = m
    /\ \A k, m \in Nat : k <= m => Filled(k) <= Filled(m)
    /\ \A k \in Nat \ {0} : Filled(k) > 0
<1>1. \A k \in Nat : Filled(k) \div TokensPerBlock = k
  BY SizeType, Z3 DEF Filled
<1>2. \A k, m \in Nat : k < m => Filled(k) < Filled(m)
  <2>1. SUFFICES ASSUME NEW k \in Nat, NEW m \in Nat, k < m PROVE Filled(k) < Filled(m)
    BY Zenon
  <2>2. Filled(k) \in Nat /\ Filled(m) \in Nat /\ Filled(k) + TokensPerBlock <= Filled(m)
    BY Zenon, <2>1, FilledLaws
  <2>. QED  BY <2>2, SizeType
<1>3. \A k \in Nat : Filled(k) \in Nat
  BY Zenon, FilledLaws
<1>4. \A k, m \in Nat : Filled(k) = Filled(m) => k = m
  BY <1>2, <1>3
<1>5. \A k, m \in Nat : k <= m => Filled(k) <= Filled(m)
  BY <1>2, <1>3
<1>6. \A k \in Nat \ {0} : Filled(k) > 0
  BY <1>2, FilledLaws
<1>. QED  BY Zenon, <1>1, <1>4, <1>5, <1>6

\* The nodes of the first K full blocks of the prompt of r are in the tree.
FullPath(r, K) ==
    \A k \in 1 .. K : Prefix(Prompt[r], Filled(k)) \in DOMAIN tree

\* loadOrAllocateBlocks matches whole blocks, each found in the tree.
LEMMA FullMatchLaws ==
    ASSUME IInv, NEW r \in Requests, NEW n \in FullMatches(r)
    PROVE  \E K \in Nat :
             n = Filled(K) /\ n \div TokensPerBlock = K /\ n < Len(Prompt[r]) /\ FullPath(r, K)
<1>. DEFINE full == {c \in Cuts(Len(Prompt[r]) - 1, FALSE) :
                       \A d \in Cuts(c, FALSE) : Prefix(Prompt[r], d) \in DOMAIN tree}
<1>1. n \in full \/ n = 0
  BY Zenon DEF FullMatches
<1>2. Len(Prompt[r]) \in Nat \ {0}
  BY Zenon, Types
<1>3. CASE n = 0
  <2>1. n = Filled(0) /\ n \div TokensPerBlock = 0
    BY Zenon, <1>3, FilledLaws, FilledMore
  <2>2. n < Len(Prompt[r]) /\ 0 \in Nat
    BY <1>2, <1>3
  <2>3. FullPath(r, 0)
    BY DEF FullPath
  <2>. QED  BY Zenon, <2>1, <2>2, <2>3
<1>4. CASE n \in full
  <2>1. /\ n \in 1 .. Len(Prompt[r]) - 1 /\ n % TokensPerBlock = 0
        /\ \A d \in Cuts(n, FALSE) : Prefix(Prompt[r], d) \in DOMAIN tree
    BY Zenon, <1>4 DEF Cuts
  <2>2. n \in Nat \ {0} /\ n < Len(Prompt[r])
    BY <1>2, <2>1
  <2>. DEFINE K == BlockOf(n)
  <2>3. n = Filled(K) /\ K \in Nat \ {0}
    BY Zenon, <2>1, <2>2, FullBlock, Place
  <2>. HIDE DEF K
  <2>4. n \div TokensPerBlock = K
    BY Zenon, <2>3, FilledMore
  <2>5. ASSUME NEW k \in 1 .. K PROVE Prefix(Prompt[r], Filled(k)) \in DOMAIN tree
    <3>1. k \in Nat \ {0} /\ k <= K /\ K \in Nat /\ k \in Nat
      BY <2>3
    <3>2. Filled(k) \in Nat /\ Filled(k) > 0 /\ Filled(k) <= Filled(K) /\ Filled(k) % TokensPerBlock = 0
      BY Zenon, <3>1, FilledLaws, FilledMore
    <3>3. Filled(k) \in 1 .. n
      BY <2>2, <2>3, <3>2
    <3>. QED  BY Zenon, <2>1, <3>2, <3>3 DEF Cuts
  <2>. QED  BY Zenon, <2>2, <2>3, <2>4, <2>5 DEF FullPath
<1>. QED  BY Zenon, <1>1, <1>3, <1>4

\* c continues n tokens of the prompt of r by those up to m.
Continues(r, n, c, m) ==
    /\ c \in DOMAIN tree /\ m \in n + 1 .. Len(Prompt[r]) - 1 /\ m <= n + TokensPerBlock
    /\ Parent(c) = Prefix(Prompt[r], n) /\ m <= Len(c) /\ Prefix(c, m) = Prefix(Prompt[r], m)

\* findMatchingBlock returns nothing, or a node that continues the match.
LEMMA MatchLaws ==
    ASSUME IInv, NEW r \in Requests, NEW K \in Nat, NEW n, n = Filled(K),
           n < Len(Prompt[r]), NEW e \in Matches(r, n)
    PROVE  (e[1] = << >> /\ e[2] = n) \/ Continues(r, n, e[1], e[2])
<1>1. /\ Len(Prompt[r]) \in Nat \ {0} /\ Prompt[r] \in Seq(Tokens) /\ TreeType(tree)
      /\ n \in Nat
  BY Zenon, Types, FilledLaws
<1>. DEFINE w == Least(n + TokensPerBlock, Len(Prompt[r]) - 1)
            want == Prefix(Prompt[r], w)
            near == {f \in (DOMAIN tree) \X (n + 1 .. Len(want)) :
                       /\ Parent(f[1]) = Prefix(want, n)
                       /\ f[2] <= Len(f[1]) /\ Prefix(f[1], f[2]) = Prefix(want, f[2])
                       /\ config.copy \/ (ref[tree[f[1]]] = 0 /\ IsLeaf(f[1]))}
<1>2. /\ w \in 0 .. Len(Prompt[r]) /\ w <= n + TokensPerBlock /\ w <= Len(Prompt[r]) - 1 /\ n <= w
      /\ w \in Nat
  BY <1>1, SizeType DEF Least
<1>3. e \in IF Len(want) > n /\ want \in DOMAIN tree THEN {<<want, Len(want)>>}
            ELSE IF config.partial /\ near # {}
                 THEN {x \in near : \A f \in near : f[2] <= x[2]}
                 ELSE {<< << >>, n>>}
  BY Zenon DEF Matches
<1>. HIDE DEF w, near
<1>4. want \in Seq(Tokens) /\ Len(want) = w
  BY Zenon, <1>1, <1>2, PrefixType
<1>5. CASE w > n /\ want \in DOMAIN tree /\ e = <<want, w>>
  <2>1. w \in Nat \ {0} /\ Filled(K) < w /\ w <= Filled(K) + TokensPerBlock /\ n \in 0 .. w
        /\ w \in n + 1 .. Len(Prompt[r]) - 1 /\ w <= Len(want)
    BY <1>1, <1>2, <1>4, <1>5
  <2>2. BlockOf(w) = K + 1
    BY Zenon, <2>1, InBlock
  <2>3. BlockOf(w) - 1 = K
    BY <2>2
  <2>4. Parent(want) = Prefix(want, n)
    BY Zenon, <1>4, <2>3 DEF Parent, Filled
  <2>5. Parent(want) = Prefix(Prompt[r], n)
    BY Zenon, <1>1, <1>2, <2>1, <2>4, PrefixPrefix
  <2>6. Prefix(want, w) = want
    BY Zenon, <1>4, PrefixAll
  <2>7. e[1] = want /\ e[2] = w
    BY <1>5
  <2>. QED  BY Zenon, <1>2, <1>5, <2>1, <2>5, <2>6, <2>7 DEF Continues
<1>6. CASE e \in near
  <2>1. /\ e[1] \in DOMAIN tree /\ e[2] \in n + 1 .. Len(want)
        /\ Parent(e[1]) = Prefix(want, n)
        /\ e[2] <= Len(e[1]) /\ Prefix(e[1], e[2]) = Prefix(want, e[2])
    BY <1>6 DEF near
  <2>2. e[2] \in 0 .. w /\ n \in 0 .. w /\ e[2] \in n + 1 .. Len(Prompt[r]) - 1
        /\ e[2] <= n + TokensPerBlock
    <3>. DEFINE j == e[2]
                l == Len(Prompt[r])
    <3>1. j \in n + 1 .. w /\ n \in Nat /\ w \in Nat /\ l \in Nat /\ TokensPerBlock \in Nat
          /\ w <= n + TokensPerBlock /\ w <= l - 1 /\ n <= w
      BY Zenon, <1>1, <1>2, <1>4, <2>1, SizeType
    <3>. HIDE DEF j, l
    <3>2. j \in 0 .. w /\ n \in 0 .. w /\ j \in n + 1 .. l - 1 /\ j <= n + TokensPerBlock
      BY <3>1
    <3>. QED  BY Zenon, <3>2 DEF j, l
  <2>3. Prefix(want, n) = Prefix(Prompt[r], n) /\ Prefix(want, e[2]) = Prefix(Prompt[r], e[2])
    BY Zenon, <1>1, <1>2, <2>2, PrefixPrefix
  <2>. QED  BY Zenon, <2>1, <2>2, <2>3 DEF Continues
<1>7. CASE e = << << >>, n>>
  BY <1>7
<1>. QED  BY Zenon, <1>3, <1>4, <1>5, <1>6, <1>7

\* The nodes of the full blocks that are matched.
LEMMA PathLaws ==
    ASSUME IInv, NEW r \in Requests, NEW K \in Nat, Filled(K) < Len(Prompt[r]), FullPath(r, K),
           NEW k \in 1 .. K
    PROVE  /\ k \in Nat \ {0} /\ Filled(k) \in Nat /\ Filled(k) <= Filled(K)
           /\ Filled(k) \in 0 .. Len(Prompt[r])
           /\ Prefix(Prompt[r], Filled(k)) \in DOMAIN tree
           /\ Len(Prefix(Prompt[r], Filled(k))) = Filled(k)
           /\ tree[Prefix(Prompt[r], Filled(k))] \in Blocks
<1>1. k \in Nat \ {0} /\ k \in Nat /\ k <= K
  OBVIOUS
<1>2. Filled(k) \in Nat /\ Filled(k) <= Filled(K) /\ Filled(K) \in Nat
  BY Zenon, <1>1, FilledLaws, FilledMore
<1>3. Prompt[r] \in Seq(Tokens) /\ Len(Prompt[r]) \in Nat /\ TreeType(tree)
  BY Zenon, Types
<1>4. Filled(k) \in 0 .. Len(Prompt[r])
  BY <1>2, <1>3
<1>5. Len(Prefix(Prompt[r], Filled(k))) = Filled(k)
  BY Zenon, <1>3, <1>4, PrefixType
<1>6. Prefix(Prompt[r], Filled(k)) \in DOMAIN tree
  BY Zenon DEF FullPath
<1>7. tree[Prefix(Prompt[r], Filled(k))] \in Blocks
  BY Zenon, <1>3, <1>6 DEF TreeType
<1>. QED  BY Zenon, <1>1, <1>2, <1>4, <1>5, <1>6, <1>7

\* A node that continues the match is a child of the last full block.
LEMMA ContinuesLaws ==
    ASSUME IInv, NEW r \in Requests, NEW K \in Nat, NEW c, NEW m,
           Filled(K) < Len(Prompt[r]), Continues(r, Filled(K), c, m)
    PROVE  /\ c # << >> /\ c \in DOMAIN tree /\ tree[c] \in Blocks /\ c \in Seq(Tokens) \ {<< >>}
           /\ Len(c) \in Nat /\ Filled(K) < Len(c) /\ Len(Parent(c)) = Filled(K)
           /\ m \in Nat /\ m <= Len(c) /\ Filled(K) < m
<1>1. TreeType(tree) /\ Prompt[r] \in Seq(Tokens) /\ Len(Prompt[r]) \in Nat /\ Filled(K) \in Nat
  BY Zenon, Types, FilledLaws
<1>2. c \in DOMAIN tree /\ tree[c] \in Blocks /\ c \in Seq(Tokens) \ {<< >>}
  BY Zenon, <1>1 DEF TreeType, Continues
<1>3. Len(c) \in Nat
  BY <1>2
<1>4. m \in Filled(K) + 1 .. Len(Prompt[r]) - 1 /\ m <= Len(c) /\ Parent(c) = Prefix(Prompt[r], Filled(K))
  BY Zenon DEF Continues
<1>5. Filled(K) \in 0 .. Len(Prompt[r]) /\ m \in Nat /\ Filled(K) < m /\ Filled(K) < Len(c)
  BY <1>1, <1>3, <1>4
<1>6. Len(Parent(c)) = Filled(K)
  BY Zenon, <1>1, <1>4, <1>5, PrefixType
<1>. QED  BY Zenon, <1>2, <1>3, <1>4, <1>5, <1>6

\* The blocks claimed from the tree are distinct, in the order of the prompt.
LEMMA ReusedLaws ==
    ASSUME IInv, NEW r \in Requests, NEW K \in Nat, NEW n, n = Filled(K),
           n \div TokensPerBlock = K, n < Len(Prompt[r]), FullPath(r, K), NEW c, NEW m,
           (c = << >> /\ m = n) \/ Continues(r, n, c, m),
           NEW old, old = Reused(r, n, c)
    PROVE  /\ old \in Seq(Blocks) /\ Len(old) = (IF Private(c) THEN K + 1 ELSE K)
           /\ \A k \in 1 .. K : old[k] = tree[Prefix(Prompt[r], Filled(k))]
           /\ Private(c) => old[K + 1] = tree[c]
           /\ NoRepeat(old)
<1>. DEFINE P(k) == Prefix(Prompt[r], Filled(k))
            base == [i \in 1 .. K |-> tree[P(i)]]
<1>1. ASSUME NEW k \in 1 .. K
      PROVE  /\ k \in Nat \ {0} /\ Filled(k) \in Nat /\ Filled(k) <= n
             /\ P(k) \in DOMAIN tree /\ Len(P(k)) = Filled(k) /\ tree[P(k)] \in Blocks
  BY Zenon, PathLaws
<1>2. old = base \o (IF Private(c) THEN <<tree[c]>> ELSE << >>)
  BY Zenon DEF Reused, Filled
<1>. HIDE DEF P
<1>3. base \in Seq(Blocks) /\ Len(base) = K /\ \A k \in 1 .. K : base[k] = tree[P(k)]
  <2>1. base \in [1 .. K -> Blocks]
    BY Zenon, <1>1
  <2>2. \A k \in 1 .. K : base[k] = tree[P(k)]
    BY Zenon
  <2>. HIDE DEF base
  <2>. QED  BY <2>1, <2>2
<1>. HIDE DEF base
<1>4. Private(c) => c # << >> /\ c \in DOMAIN tree /\ tree[c] \in Blocks /\ Len(c) \in Nat /\ n < Len(c)
  BY Zenon, ContinuesLaws DEF Private
<1>5. /\ old \in Seq(Blocks) /\ Len(old) = (IF Private(c) THEN K + 1 ELSE K)
      /\ \A k \in 1 .. K : old[k] = tree[P(k)]
      /\ Private(c) => old[K + 1] = tree[c]
  <2>1. CASE Private(c)
    <3>1. old = base \o <<tree[c]>> /\ tree[c] \in Blocks
      BY Zenon, <1>2, <1>4, <2>1
    <3>2. /\ old \in Seq(Blocks) /\ Len(old) = K + 1 /\ old[K + 1] = tree[c]
          /\ \A k \in 1 .. K : old[k] = base[k]
      BY <1>3, <3>1
    <3>. QED  BY Zenon, <1>3, <2>1, <3>2
  <2>2. CASE ~Private(c)
    <3>1. old = base \o << >>
      BY Zenon, <1>2, <2>2
    <3>2. old = base
      BY <1>3, <3>1
    <3>. QED  BY Zenon, <1>3, <2>2, <3>2
  <2>. QED  BY Zenon, <2>1, <2>2
<1>6. NoRepeat(old)
  <2>1. SUFFICES ASSUME NEW i \in 1 .. Len(old), NEW j \in 1 .. Len(old), old[i] = old[j]
                 PROVE  i = j
    BY Zenon DEF NoRepeat
  <2>2. \A k \in 1 .. Len(old) : k \in 1 .. K \/ (Private(c) /\ k = K + 1)
    BY <1>5
  <2>3. CASE i \in 1 .. K /\ j \in 1 .. K
    <3>1. tree[P(i)] = tree[P(j)]
      BY Zenon, <1>5, <2>1, <2>3
    <3>2. P(i) = P(j)
      BY Zenon, <1>1, <2>3, <3>1 DEF IInv, UniqueInv
    <3>3. Filled(i) = Filled(j) /\ i \in Nat /\ j \in Nat
      <4>1. i \in Nat /\ j \in Nat
        BY <2>3
      <4>. QED  BY Zenon, <1>1, <2>3, <3>2, <4>1
    <3>. QED  BY Zenon, <3>3, FilledMore
  <2>4. ASSUME NEW k \in 1 .. K, Private(c) PROVE old[k] # old[K + 1]
    <3>1. SUFFICES ASSUME tree[P(k)] = tree[c] PROVE FALSE
      BY Zenon, <1>5, <2>4
    <3>2. P(k) = c
      BY Zenon, <1>1, <1>4, <2>4, <3>1 DEF IInv, UniqueInv
    <3>3. Filled(k) = Len(c) /\ Filled(k) \in Nat /\ Filled(k) <= n /\ n < Len(c) /\ n \in Nat
      BY Zenon, <1>1, <1>4, <2>4, <3>2, FilledLaws
    <3>. QED  BY <3>3
  <2>. QED  BY Zenon, <2>1, <2>2, <2>3, <2>4
<1>. QED  BY Zenon, <1>5, <1>6 DEF P

\* A prompt needs a block beyond those matched in full.
LEMMA OneMore ==
    ASSUME NEW L \in Nat \ {0}, NEW K \in Nat, Filled(K) < L
    PROVE  K + 1 <= NumBlocks(L) /\ NumBlocks(L) \in Nat
<1>1. Filled(K) \in Nat
  BY Zenon, FilledLaws
<1>2. /\ Filled(K) + 1 \in Nat \ {0} /\ Filled(K) < Filled(K) + 1
      /\ Filled(K) + 1 <= Filled(K) + TokensPerBlock /\ Filled(K) + 1 \in 1 .. L
  BY <1>1, SizeType
<1>3. BlockOf(Filled(K) + 1) = K + 1 /\ BlockOf(Filled(K) + 1) \in 1 .. BlockOf(L)
  BY Zenon, <1>2, InBlock, LaterBlock
<1>4. NumBlocks(L) = BlockOf(L) /\ BlockOf(L) \in Nat \ {0}
  BY Zenon, Place
<1>. QED  BY <1>3, <1>4

\* The blocks of a sequence: those claimed from the tree, then free ones.
Assembled(bs, old, new) ==
    /\ \A k \in 1 .. Len(old) : bs[k] = old[k] /\ bs[k] \notin Range(new)
    /\ \A k \in Len(old) + 1 .. Len(bs) : bs[k] \in Range(new)
    /\ \A b \in Range(new) : b \in Blocks /\ ref[b] = 0

\* The blocks claimed and the free blocks make up the sequence.
LEMMA AddBlocks ==
    ASSUME IInv, CountingLaws, NEW r \in Requests, NEW old \in Seq(Blocks), NoRepeat(old),
           NEW total \in Nat, Len(old) <= total,
           NEW new \in Injection(1 .. total - Len(old), {b \in Blocks : Claimed(Range(old))[b] > 0}),
           NEW bs, bs = old \o new
    PROVE  /\ bs \in Seq(Blocks) /\ Len(bs) = total /\ NoRepeat(bs)
           /\ Assembled(bs, old, new) /\ (Len(old) < total => new[1] = bs[Len(old) + 1])
<1>. DEFINE N == total - Len(old)
            spare == {b \in Blocks : Claimed(Range(old))[b] > 0}
<1>1. N \in Nat /\ Len(old) \in Nat /\ total = Len(old) + N
  OBVIOUS
<1>2. \A b \in spare : b \in Blocks /\ b \notin Range(old) /\ ref[b] = 0
  <2>1. SUFFICES ASSUME NEW b \in Blocks, Claimed(Range(old))[b] > 0
                 PROVE  b \notin Range(old) /\ ref[b] = 0
    BY Zenon
  <2>2. Claimed(Range(old))[b] = IF b \in Range(old) /\ queued[b] > 0 THEN queued[b] - 1 ELSE queued[b]
    BY Zenon DEF Claimed
  <2>3. Counted(b) /\ ref[b] \in Nat /\ queued[b] \in Nat
    BY Zenon DEF IInv, CountInv, TypeOK
  <2>4. queued[b] \in {0, 1}
    BY <2>3 DEF Counted
  <2>5. b \notin Range(old) /\ queued[b] > 0
    BY <2>1, <2>2, <2>4
  <2>. QED  BY Zenon, <2>5, FreeBlock
<1>3. new \in [1 .. N -> spare] /\ \A i, j \in 1 .. N : new[i] = new[j] => i = j
  BY Zenon DEF Injection, IsInjective
<1>. HIDE DEF N
<1>4. new \in Seq(Blocks) /\ Len(new) = N /\ \A i \in 1 .. N : new[i] \in spare
  <2>1. new \in [1 .. N -> Blocks] /\ \A i \in 1 .. N : new[i] \in spare
    BY Zenon, <1>2, <1>3
  <2>. QED  BY <1>1, <2>1
<1>5. \A b : b \in Range(new) <=> \E i \in 1 .. N : new[i] = b
  <2>1. DOMAIN new = 1 .. N
    BY Zenon, <1>3
  <2>. QED  BY Zenon, <2>1 DEF Range
<1>6. \A k \in 1 .. Len(old) : old[k] \in Range(old)
  BY DEF Range
<1>. HIDE DEF spare
<1>7. /\ bs \in Seq(Blocks) /\ Len(bs) = total
      /\ \A k \in 1 .. Len(old) : bs[k] = old[k]
      /\ \A k \in Len(old) + 1 .. Len(bs) : k - Len(old) \in 1 .. N /\ bs[k] = new[k - Len(old)]
  BY <1>1, <1>4
<1>8. \A b \in Range(new) : b \in Blocks /\ ref[b] = 0 /\ b \notin Range(old)
  BY Zenon, <1>2, <1>4, <1>5
<1>9. \A k \in Len(old) + 1 .. Len(bs) : bs[k] \in Range(new)
  BY Zenon, <1>5, <1>7
<1>10. \A k \in 1 .. Len(old) : bs[k] = old[k] /\ bs[k] \notin Range(new)
  BY Zenon, <1>6, <1>7, <1>8
<1>11. NoRepeat(bs)
  <2>1. SUFFICES ASSUME NEW i \in 1 .. Len(bs), NEW j \in 1 .. Len(bs), bs[i] = bs[j]
                 PROVE  i = j
    BY Zenon DEF NoRepeat
  <2>2. \A k \in 1 .. Len(bs) : k \in 1 .. Len(old) \/ k \in Len(old) + 1 .. Len(bs)
    BY <1>1, <1>7
  <2>3. CASE i \in 1 .. Len(old) /\ j \in 1 .. Len(old)
    BY Zenon, <1>7, <2>1, <2>3 DEF NoRepeat
  <2>4. CASE i \in Len(old) + 1 .. Len(bs) /\ j \in Len(old) + 1 .. Len(bs)
    <3>1. i - Len(old) \in 1 .. N /\ j - Len(old) \in 1 .. N
          /\ new[i - Len(old)] = new[j - Len(old)]
      BY Zenon, <1>7, <2>1, <2>4
    <3>2. i - Len(old) = j - Len(old)
      BY Zenon, <1>3, <3>1
    <3>. QED  BY <1>1, <1>7, <3>2
  <2>5. CASE i \in 1 .. Len(old) /\ j \in Len(old) + 1 .. Len(bs)
    BY Zenon, <1>9, <1>10, <2>1, <2>5
  <2>6. CASE j \in 1 .. Len(old) /\ i \in Len(old) + 1 .. Len(bs)
    BY Zenon, <1>9, <1>10, <2>1, <2>6
  <2>. QED  BY Zenon, <2>2, <2>3, <2>4, <2>5, <2>6
<1>12. Len(old) < total => new[1] = bs[Len(old) + 1]
  <2>1. SUFFICES ASSUME Len(old) < total PROVE new[1] = bs[Len(old) + 1]
    BY Zenon
  <2>2. Len(old) + 1 \in Len(old) + 1 .. Len(bs) /\ (Len(old) + 1) - Len(old) = 1
    BY <1>1, <1>7, <2>1
  <2>. QED  BY Zenon, <1>7, <2>2
<1>. QED  BY Zenon, <1>7, <1>8, <1>9, <1>10, <1>11, <1>12 DEF Assembled

\* The slot of a position is its distance from the full blocks before it.
LEMMA InSlot ==
    ASSUME NEW i \in Nat \ {0}, NEW k \in Nat, Filled(k) < i, i <= Filled(k) + TokensPerBlock
    PROVE  SlotOf(i) = i - Filled(k)
<1>1. BlockOf(i) = k + 1
  BY Zenon, InBlock
<1>2. i - 1 \in Nat
  OBVIOUS
<1>3. /\ (i - 1) \div TokensPerBlock \in Nat
      /\ i - 1 = ((i - 1) \div TokensPerBlock) * TokensPerBlock + ((i - 1) % TokensPerBlock)
      /\ (i - 1) % TokensPerBlock \in 0 .. TokensPerBlock - 1
  BY Zenon, <1>2, DivMod
<1>4. (i - 1) \div TokensPerBlock = k
  BY <1>1, <1>3 DEF BlockOf
<1>5. i - 1 = Filled(k) + ((i - 1) % TokensPerBlock)
  BY Zenon, <1>3, <1>4 DEF Filled
<1>6. Filled(k) \in Nat
  BY Zenon, FilledLaws
<1>7. (i - 1) % TokensPerBlock \in Nat
  BY <1>3, SizeType
<1>. QED  BY <1>5, <1>6, <1>7 DEF SlotOf

\* w is mem with the first m - n slots of the block of c copied to x.
CopiedOnly(w, x, c, n, m) ==
    /\ \A b \in Blocks : b # x => w[b] = mem[b]
    /\ \A j \in 1 .. TokensPerBlock : j <= m - n => w[x][j] = mem[tree[c]][j]

\* Copying to x changes only x, and there only the slots matched.
LEMMA CopiedLaws ==
    ASSUME MemType(mem), NEW x \in Blocks, NEW c, tree[c] \in Blocks, NEW n \in Nat, NEW m \in Nat,
           NEW w, w = Copied(x, c, n, m)
    PROVE  MemType(w) /\ CopiedOnly(w, x, c, n, m)
<1>. DEFINE Cell(j) == IF j <= m - n THEN mem[tree[c]][j] ELSE mem[x][j]
            cells == [j \in 1 .. TokensPerBlock |-> Cell(j)]
<1>1. mem \in [Blocks -> [1 .. TokensPerBlock -> Seq(Tokens)]]
  BY Zenon DEF MemType
<1>2. w = [mem EXCEPT ![x] = cells]
  BY Zenon, <1>1 DEF Copied
<1>3. \A j \in 1 .. TokensPerBlock : mem[tree[c]][j] \in Seq(Tokens) /\ mem[x][j] \in Seq(Tokens)
  <2>1. mem[tree[c]] \in [1 .. TokensPerBlock -> Seq(Tokens)] /\ mem[x] \in [1 .. TokensPerBlock -> Seq(Tokens)]
    BY Zenon, <1>1
  <2>. QED  BY Zenon, <2>1
<1>4. \A j \in 1 .. TokensPerBlock : Cell(j) \in Seq(Tokens)
  BY Zenon, <1>3
<1>5. cells \in [1 .. TokensPerBlock -> Seq(Tokens)]
  BY Zenon, <1>4
<1>6. \A j \in 1 .. TokensPerBlock : j <= m - n => cells[j] = mem[tree[c]][j]
  BY Zenon
<1>. HIDE DEF cells
<1>7. MemType(w)
  BY Zenon, <1>1, <1>2, <1>5 DEF MemType
<1>8. w[x] = cells /\ \A b \in Blocks : b # x => w[b] = mem[b]
  BY Zenon, <1>1, <1>2
<1>9. \A j \in 1 .. TokensPerBlock : j <= m - n => w[x][j] = mem[tree[c]][j]
  BY Zenon, <1>6, <1>8
<1>. QED  BY Zenon, <1>7, <1>8, <1>9 DEF CopiedOnly

\* t is tree without the blocks of E, and without that of a private c.
PrunedFor(t, c, E) ==
    /\ Pruned(t)
    /\ \A p \in DOMAIN t : t[p] \notin E /\ (Private(c) => t[p] # tree[c])

\* addSequence only removes nodes: the private one and the evicted ones.
LEMMA PruneLaws ==
    ASSUME TreeType(tree), NEW c, NEW E, NEW t,
           t = Without(IF Private(c) THEN Without(tree, {tree[c]}) ELSE tree, E)
    PROVE  TreeType(t) /\ PrunedFor(t, c, E)
<1>. DEFINE u == IF Private(c) THEN Without(tree, {tree[c]}) ELSE tree
<1>1. /\ TreeType(u) /\ Pruned(u)
      /\ \A p \in DOMAIN u : Private(c) => u[p] # tree[c]
  <2>1. CASE Private(c)
    <3>1. u = Without(tree, {tree[c]})
      BY Zenon, <2>1
    <3>. HIDE DEF u
    <3>2. TreeType(u) /\ Cleared(u, tree, {tree[c]})
      BY Zenon, <3>1, WithoutLaws
    <3>. QED  BY Zenon, <3>2 DEF Pruned, Cleared
  <2>2. CASE ~Private(c)
    BY Zenon, <2>2 DEF Pruned
  <2>. QED  BY Zenon, <2>1, <2>2
<1>2. t = Without(u, E)
  BY Zenon
<1>. HIDE DEF u
<1>3. TreeType(t) /\ Cleared(t, u, E)
  BY Zenon, <1>1, <1>2, WithoutLaws
<1>4. Pruned(t)
  <2>1. DOMAIN t \subseteq DOMAIN tree
    BY Zenon, <1>1, <1>3 DEF Pruned, Cleared
  <2>2. ASSUME NEW p \in DOMAIN t
        PROVE  t[p] = tree[p] /\ (Parent(p) \in DOMAIN tree => Parent(p) \in DOMAIN t)
    <3>1. p \in DOMAIN u /\ u[p] = tree[p] /\ (Parent(p) \in DOMAIN tree => Parent(p) \in DOMAIN u)
      BY Zenon, <1>1, <1>3 DEF Pruned, Cleared
    <3>. QED  BY Zenon, <1>3, <3>1 DEF Cleared
  <2>. QED  BY Zenon, <2>1, <2>2 DEF Pruned
<1>. QED  BY Zenon, <1>1, <1>3, <1>4 DEF Cleared, PrunedFor

\* The prompt of r is matched up to m: K full blocks and a part of node c.
Matched(r, K, c, m) ==
    /\ Filled(K) < Len(Prompt[r]) /\ FullPath(r, K)
    /\ (c = << >> /\ m = Filled(K)) \/ Continues(r, Filled(K), c, m)

\* bs has the blocks that are matched, then blocks nothing else uses.
Backed(r, K, c, bs) ==
    /\ NoRepeat(bs) /\ Len(bs) = NumBlocks(Len(Prompt[r])) /\ K + 1 <= Len(bs)
    /\ \A k \in 1 .. K : bs[k] = tree[Prefix(Prompt[r], Filled(k))]
    /\ Private(c) => bs[K + 1] = tree[c]
    /\ \A k \in K + 1 .. Len(bs) : ref[bs[k]] = 0 /\ \A p \in DOMAIN tree' : tree'[p] # bs[k]

\* What was matched of a node that is not private is copied.
CopiedPart(K, c, m, bs) ==
    /\ c = << >> \/ Private(c) => mem' = mem
    /\ c # << >> /\ ~Private(c) => mem' = Copied(bs[K + 1], c, Filled(K), m)

\* The blocks of a new sequence have the KV state that was matched.
LEMMA AddContent ==
    ASSUME IInv, NEW r \in Requests, NEW K \in Nat, NEW c, NEW m, NEW bs \in Seq(Blocks),
           Matched(r, K, c, m), Backed(r, K, c, bs), CopiedPart(K, c, m, bs),
           tokens[r] = Prompt[r], Exclusive(r, bs[K + 1]), Pruned(tree')
    PROVE  MemType(mem)' /\ TruthInv' /\ Holding(r, bs, m)
<1>. DEFINE n == Filled(K)
<1>. DEFINE x == bs[K + 1]
<1>0. n < Len(Prompt[r]) /\ FullPath(r, K) /\ ((c = << >> /\ m = n) \/ Continues(r, n, c, m))
  BY Zenon DEF Matched
<1>1. /\ MemType(mem) /\ n \in Nat /\ TreeType(tree) /\ Prompt[r] \in Seq(Tokens)
      /\ Len(Prompt[r]) \in Nat \ {0} /\ Len(bs) \in Nat
  <2>1. Len(bs) \in Nat
    OBVIOUS
  <2>. QED  BY Zenon, <2>1, Types, FilledLaws
<1>2. K + 1 \in 1 .. Len(bs) /\ NoRepeat(bs)
  <2>1. K + 1 <= Len(bs) /\ NoRepeat(bs)
    BY Zenon DEF Backed
  <2>. QED  BY <1>1, <2>1
<1>. HIDE DEF n
<1>3. x \in Blocks
  BY Zenon, <1>2, ElementOfSeq
<1>4. m \in Nat /\ n <= m /\ m <= n + TokensPerBlock /\ m < Len(Prompt[r])
  <2>1. CASE m = n
    BY <1>0, <1>1, <2>1, SizeType
  <2>2. CASE Continues(r, n, c, m)
    <3>1. m \in n + 1 .. Len(Prompt[r]) - 1 /\ m <= n + TokensPerBlock
      BY Zenon, <2>2 DEF Continues
    <3>. QED  BY <1>1, <3>1
  <2>. QED  BY Zenon, <1>0, <2>1, <2>2
<1>. DEFINE copy == c # << >> /\ ~Private(c)
<1>5. Continues(r, n, c, m) => tree[c] \in Blocks
  BY Zenon, <1>0, ContinuesLaws DEF n
<1>6. copy => MemType(mem') /\ CopiedOnly(mem', x, c, n, m)
  <2>1. SUFFICES ASSUME copy PROVE MemType(mem') /\ CopiedOnly(mem', x, c, n, m)
    BY Zenon
  <2>2. mem' = Copied(x, c, n, m) /\ tree[c] \in Blocks
    BY Zenon, <1>0, <1>5, <2>1 DEF CopiedPart, n
  <2>. HIDE DEF x, copy
  <2>. QED  BY Zenon, <1>1, <1>3, <1>4, <2>2, CopiedLaws
<1>7. Exclusive(r, x) /\ \A p \in DOMAIN tree' : tree'[p] # x
  <2>1. K + 1 \in K + 1 .. Len(bs)
    BY <1>2
  <2>. QED  BY Zenon, <2>1 DEF Backed
<1>8. ~copy => mem' = mem
  BY Zenon DEF CopiedPart
<1>. HIDE DEF x, copy
<1>9. MemType(mem)'
  BY Zenon, <1>1, <1>6, <1>8 DEF MemType
<1>10. ASSUME NEW b \in Blocks, copy => b # x PROVE mem'[b] = mem[b]
  BY Zenon, <1>6, <1>8, <1>10 DEF CopiedOnly
<1>11. TruthInv'
  <2>1. SUFFICES ASSUME NEW p \in DOMAIN tree' PROVE Truth(p)'
    BY Zenon DEF TruthInv
  <2>2. /\ p \in DOMAIN tree /\ tree'[p] = tree[p] /\ Truth(p) /\ tree[p] \in Blocks
        /\ Parent(p) \in DOMAIN tree => Parent(p) \in DOMAIN tree'
    BY Zenon, <1>1 DEF Pruned, IInv, TruthInv, TreeType
  <2>3. mem'[tree[p]] = mem[tree[p]]
    BY Zenon, <1>7, <1>10, <2>2
  <2>. QED  BY Zenon, <2>2, <2>3 DEF Truth
<1>12. ASSUME NEW q \in Requests \ {r}, InUse(q), NEW i \in 1 .. pos[q]
       PROVE  mem'[held[q][BlockOf(i)]][SlotOf(i)] = Prefix(tokens[q], i)
  <2>1. BlockOf(i) \in 1 .. Len(held[q]) /\ held[q] \in Seq(Blocks)
    BY Zenon, <1>12, LongEnough, Types
  <2>2. held[q][BlockOf(i)] \in Blocks
    BY Zenon, <2>1, ElementOfSeq
  <2>3. mem'[held[q][BlockOf(i)]] = mem[held[q][BlockOf(i)]]
    BY Zenon, <1>7, <1>10, <2>1, <2>2 DEF Exclusive
  <2>4. mem[held[q][BlockOf(i)]][SlotOf(i)] = Prefix(tokens[q], i)
    BY Zenon, <1>12 DEF IInv, ContentInv, Content
  <2>. QED  BY Zenon, <2>3, <2>4
<1>13. ASSUME NEW i \in 1 .. n
       PROVE  mem'[bs[BlockOf(i)]][SlotOf(i)] = Prefix(Prompt[r], i)
  <2>. DEFINE k == BlockOf(i)
              p == Prefix(Prompt[r], Filled(k))
  <2>1. i \in Nat \ {0} /\ n \in Nat \ {0} /\ i <= n
    BY <1>1
  <2>2. k \in Nat \ {0} /\ Filled(k - 1) < i /\ i <= Filled(k) /\ Filled(k - 1) \in Nat /\ Filled(k) \in Nat
    BY Zenon, <2>1, Place
  <2>3. k \in 1 .. K
    <3>1. K \in Nat \ {0}
      BY <2>1, FilledLaws DEF n
    <3>2. k \in 1 .. BlockOf(n) /\ BlockOf(n) = K
      BY Zenon, <2>1, <3>1, LaterBlock, FilledLaws DEF n
    <3>. QED  BY Zenon, <3>2
  <2>. HIDE DEF k
  <2>4. /\ p \in DOMAIN tree /\ Len(p) = Filled(k) /\ tree[p] \in Blocks
        /\ Filled(k) \in 0 .. Len(Prompt[r])
    BY Zenon, <1>0, <2>3, PathLaws DEF n
  <2>5. p \in Seq(Tokens) \ {<< >>}
    BY Zenon, <1>1, <2>4 DEF TreeType
  <2>6. Len(Parent(p)) = Filled(k - 1)
    <3>1. Len(Parent(p)) = Filled(BlockOf(Len(p)) - 1) /\ BlockOf(Len(p)) = k
      BY Zenon, <2>2, <2>4, <2>5, ParentLaws, FilledLaws
    <3>. QED  BY Zenon, <3>1
  <2>7. i \in Len(Parent(p)) + 1 .. Len(p) /\ i \in 0 .. Filled(k)
    BY <2>1, <2>2, <2>4, <2>6
  <2>8. mem[tree[p]][SlotOf(i)] = Prefix(p, i)
    BY Zenon, <2>4, <2>7 DEF IInv, TruthInv, Truth
  <2>9. Prefix(p, i) = Prefix(Prompt[r], i)
    BY Zenon, <1>1, <2>4, <2>7, PrefixPrefix
  <2>10. bs[k] = tree[p]
    BY Zenon, <2>3 DEF Backed
  <2>11. bs[k] # x
    <3>1. k \in 1 .. Len(bs) /\ k # K + 1
      BY <1>1, <1>2, <2>3
    <3>. QED  BY Zenon, <1>2, <3>1 DEF x, NoRepeat
  <2>12. mem'[tree[p]] = mem[tree[p]]
    BY Zenon, <1>10, <2>4, <2>10, <2>11
  <2>. QED  BY Zenon, <2>8, <2>9, <2>10, <2>12 DEF k
<1>14. ASSUME NEW i \in n + 1 .. m
       PROVE  mem'[bs[BlockOf(i)]][SlotOf(i)] = Prefix(Prompt[r], i)
  <2>1. i \in Nat \ {0} /\ Filled(K) < i /\ i <= Filled(K) + TokensPerBlock /\ m # n
        /\ i <= m /\ n < i
    <3>1. i \in Nat \ {0} /\ n < i /\ i <= n + TokensPerBlock /\ m # n /\ i <= m
      BY <1>1, <1>4, SizeType
    <3>. QED  BY Zenon, <3>1 DEF n
  <2>2. Continues(r, n, c, m)
    BY Zenon, <1>0, <2>1
  <2>3. /\ c # << >> /\ c \in DOMAIN tree /\ c \in Seq(Tokens) \ {<< >>} /\ Len(c) \in Nat
        /\ Len(Parent(c)) = n /\ m <= Len(c)
    BY Zenon, <1>0, <2>2, ContinuesLaws DEF n
  <2>4. BlockOf(i) = K + 1 /\ SlotOf(i) = i - Filled(K)
    BY Zenon, <2>1, InBlock, InSlot
  <2>5. i \in Len(Parent(c)) + 1 .. Len(c) /\ m \in 0 .. Len(c) /\ i \in 0 .. m /\ m \in 0 .. Len(Prompt[r])
    BY <1>1, <1>4, <2>1, <2>3
  <2>6. mem[tree[c]][SlotOf(i)] = Prefix(c, i)
    BY Zenon, <2>3, <2>5 DEF IInv, TruthInv, Truth
  <2>7. Prefix(c, i) = Prefix(Prompt[r], i)
    <3>1. Prefix(Prefix(c, m), i) = Prefix(c, i) /\ Prefix(Prefix(Prompt[r], m), i) = Prefix(Prompt[r], i)
      BY Zenon, <1>1, <2>3, <2>5, PrefixPrefix
    <3>2. Prefix(c, m) = Prefix(Prompt[r], m)
      BY Zenon, <2>2 DEF Continues
    <3>. QED  BY Zenon, <3>1, <3>2
  <2>8. mem'[x][SlotOf(i)] = mem[tree[c]][SlotOf(i)]
    <3>1. CASE copy
      <4>1. SlotOf(i) \in 1 .. TokensPerBlock
        BY Zenon, <2>1, Place
      <4>2. SlotOf(i) <= m - n
        BY <1>1, <1>4, <2>1, <2>4 DEF n
      <4>. QED  BY Zenon, <1>6, <3>1, <4>1, <4>2 DEF CopiedOnly
    <3>2. CASE ~copy
      <4>1. Private(c)
        BY Zenon, <2>3, <3>2 DEF copy
      <4>2. x = tree[c] /\ mem' = mem
        BY Zenon, <1>8, <3>2, <4>1 DEF x, Backed
      <4>. QED  BY Zenon, <4>2
    <3>. QED  BY Zenon, <3>1, <3>2
  <2>9. bs[BlockOf(i)] = x
    BY Zenon, <2>4 DEF x
  <2>. QED  BY Zenon, <2>6, <2>7, <2>8, <2>9
<1>15. \A i \in 1 .. m : mem'[bs[BlockOf(i)]][SlotOf(i)] = Prefix(Prompt[r], i)
  <2>1. \A i \in 1 .. m : i \in 1 .. n \/ i \in n + 1 .. m
    BY <1>1, <1>4
  <2>. QED  BY Zenon, <1>13, <1>14, <2>1
<1>. QED  BY Zenon, <1>9, <1>11, <1>12, <1>15 DEF Holding

\* What addSequence does, with n tokens matched in K full blocks and m in all.
LEMMA AddParts ==
    ASSUME IInv, CountingLaws, NEW r \in Requests, AddSequence(r)
    PROVE  \E K, c, m, bs :
             /\ K \in Nat /\ bs \in Seq(Blocks)
             /\ Matched(r, K, c, m) /\ Backed(r, K, c, bs) /\ CopiedPart(K, c, m, bs)
             /\ Pruned(tree') /\ TreeType(tree')
             /\ ref' = Referenced(Range(bs)) /\ queued' = Claimed(Range(bs))
             /\ \E E : Acquired(r, E)
             /\ held' = [held EXCEPT ![r] = bs] /\ pos' = [pos EXCEPT ![r] = m]
<1>1. PICK n \in FullMatches(r) : \E e \in Matches(r, n) :
         LET c == e[1]
             old == Reused(r, n, c)
             spare == {b \in Blocks : Claimed(Range(old))[b] > 0}
         IN  \E new \in Injection(1 .. NumBlocks(Len(Prompt[r])) - Len(old), spare) :
               /\ tree' = Without(IF Private(c) THEN Without(tree, {tree[c]}) ELSE tree, Range(new))
               /\ mem' = IF c = << >> \/ Private(c) THEN mem ELSE Copied(new[1], c, n, e[2])
               /\ ref' = Referenced(Range(old \o new))
               /\ queued' = Claimed(Range(old \o new))
               /\ Acquired(r, Range(new))
               /\ held' = [held EXCEPT ![r] = old \o new]
               /\ pos' = [pos EXCEPT ![r] = e[2]]
  BY Zenon DEF AddSequence
<1>2. PICK e \in Matches(r, n) :
         LET c == e[1]
             old == Reused(r, n, c)
             spare == {b \in Blocks : Claimed(Range(old))[b] > 0}
         IN  \E new \in Injection(1 .. NumBlocks(Len(Prompt[r])) - Len(old), spare) :
               /\ tree' = Without(IF Private(c) THEN Without(tree, {tree[c]}) ELSE tree, Range(new))
               /\ mem' = IF c = << >> \/ Private(c) THEN mem ELSE Copied(new[1], c, n, e[2])
               /\ ref' = Referenced(Range(old \o new))
               /\ queued' = Claimed(Range(old \o new))
               /\ Acquired(r, Range(new))
               /\ held' = [held EXCEPT ![r] = old \o new]
               /\ pos' = [pos EXCEPT ![r] = e[2]]
  BY Zenon, <1>1
<1>. DEFINE c == e[1]
            m == e[2]
            old == Reused(r, n, c)
<1>3. PICK new \in Injection(1 .. NumBlocks(Len(Prompt[r])) - Len(old),
                             {b \in Blocks : Claimed(Range(old))[b] > 0}) :
               /\ tree' = Without(IF Private(c) THEN Without(tree, {tree[c]}) ELSE tree, Range(new))
               /\ mem' = IF c = << >> \/ Private(c) THEN mem ELSE Copied(new[1], c, n, m)
               /\ ref' = Referenced(Range(old \o new))
               /\ queued' = Claimed(Range(old \o new))
               /\ Acquired(r, Range(new))
               /\ held' = [held EXCEPT ![r] = old \o new]
               /\ pos' = [pos EXCEPT ![r] = m]
  BY Zenon, <1>2
<1>4. PICK K \in Nat :
         n = Filled(K) /\ n \div TokensPerBlock = K /\ n < Len(Prompt[r]) /\ FullPath(r, K)
  BY Zenon, FullMatchLaws
<1>5. (c = << >> /\ m = n) \/ Continues(r, n, c, m)
  BY Zenon, <1>4, MatchLaws
<1>. HIDE DEF c, m
<1>6. /\ old \in Seq(Blocks) /\ Len(old) = (IF Private(c) THEN K + 1 ELSE K)
      /\ \A k \in 1 .. K : old[k] = tree[Prefix(Prompt[r], Filled(k))]
      /\ Private(c) => old[K + 1] = tree[c]
      /\ NoRepeat(old)
  BY Zenon, <1>4, <1>5, ReusedLaws
<1>. DEFINE total == NumBlocks(Len(Prompt[r]))
            bs == old \o new
<1>7. K + 1 <= total /\ total \in Nat
  BY Zenon, <1>4, OneMore, Types
<1>8. Len(old) <= total /\ (~Private(c) => Len(old) < total)
  BY <1>6, <1>7
<1>. HIDE DEF old
<1>9. /\ bs \in Seq(Blocks) /\ Len(bs) = total /\ NoRepeat(bs)
      /\ Assembled(bs, old, new) /\ (Len(old) < total => new[1] = bs[Len(old) + 1])
  BY ZenonT(40), <1>6, <1>7, <1>8, AddBlocks
<1>10. TreeType(tree') /\ PrunedFor(tree', c, Range(new))
  BY Zenon, <1>3, PruneLaws, Types
<1>11. ref' = Referenced(Range(bs)) /\ queued' = Claimed(Range(bs)) /\ held' = [held EXCEPT ![r] = bs]
  BY Zenon, <1>3
<1>. HIDE DEF bs, total
<1>12. ASSUME NEW k \in 1 .. K PROVE bs[k] = tree[Prefix(Prompt[r], Filled(k))]
  <2>1. k \in 1 .. Len(old)
    BY <1>6
  <2>. QED  BY Zenon, <1>6, <1>9, <2>1 DEF Assembled
<1>13. Private(c) => bs[K + 1] = tree[c]
  <2>1. Private(c) => K + 1 \in 1 .. Len(old)
    BY <1>6
  <2>. QED  BY Zenon, <1>6, <1>9, <2>1 DEF Assembled
<1>14. ASSUME NEW k \in K + 1 .. Len(bs)
       PROVE  ref[bs[k]] = 0 /\ \A p \in DOMAIN tree' : tree'[p] # bs[k]
  <2>1. (Private(c) /\ k = K + 1) \/ k \in Len(old) + 1 .. Len(bs)
    BY <1>6, <1>7, <1>9
  <2>2. CASE Private(c) /\ k = K + 1
    <3>1. bs[k] = tree[c] /\ ref[tree[c]] = 0
      BY Zenon, <1>13, <2>2 DEF Private
    <3>. QED  BY Zenon, <1>10, <2>2, <3>1 DEF PrunedFor
  <2>3. CASE k \in Len(old) + 1 .. Len(bs)
    BY Zenon, <1>9, <1>10, <2>3 DEF PrunedFor, Assembled
  <2>. QED  BY Zenon, <2>1, <2>2, <2>3
<1>15. c # << >> /\ ~Private(c) => mem' = Copied(bs[K + 1], c, n, m)
  <2>1. ~Private(c) => new[1] = bs[K + 1]
    BY Zenon, <1>6, <1>8, <1>9
  <2>. QED  BY Zenon, <1>3, <2>1
<1>16. c = << >> \/ Private(c) => mem' = mem
  BY Zenon, <1>3
<1>17. Len(bs) = NumBlocks(Len(Prompt[r])) /\ K + 1 <= Len(bs)
  BY Zenon, <1>7, <1>9 DEF total
<1>18. (\E E : Acquired(r, E)) /\ pos' = [pos EXCEPT ![r] = m]
  BY Zenon, <1>3
<1>19. Matched(r, K, c, m)
  BY Zenon, <1>4, <1>5 DEF Matched
<1>20. Backed(r, K, c, bs)
  BY Zenon, <1>9, <1>12, <1>13, <1>14, <1>17 DEF Backed
<1>21. CopiedPart(K, c, m, bs)
  BY Zenon, <1>4, <1>15, <1>16 DEF CopiedPart
<1>22. Pruned(tree')
  BY Zenon, <1>10 DEF PrunedFor
<1>. QED  BY Zenon, <1>9, <1>10, <1>11, <1>18, <1>19, <1>20, <1>21, <1>22

\* addSequence keeps the invariant.
LEMMA AddStep ==
    ASSUME IInv, CountingLaws, NEW r \in Requests, AddSequence(r)
    PROVE  IInv'
<1>1. PICK K, c, m, bs :
             /\ K \in Nat /\ bs \in Seq(Blocks)
             /\ Matched(r, K, c, m) /\ Backed(r, K, c, bs) /\ CopiedPart(K, c, m, bs)
             /\ Pruned(tree') /\ TreeType(tree')
             /\ ref' = Referenced(Range(bs)) /\ queued' = Claimed(Range(bs))
             /\ \E E : Acquired(r, E)
             /\ held' = [held EXCEPT ![r] = bs] /\ pos' = [pos EXCEPT ![r] = m]
  BY Zenon, AddParts
<1>2. /\ stage[r] = "new" /\ stage' = [stage EXCEPT ![r] = "added"]
      /\ UNCHANGED <<config, dirty, tokens, front, pins, rekeyed, unclaimed>>
  BY Zenon DEF AddSequence
<1>3. Staged(r) /\ dirty[r] \in BOOLEAN
  BY Zenon DEF IInv, StagedInv, TypeOK
<1>4. held[r] = << >> /\ tokens[r] = Prompt[r] /\ pins[r] = {} /\ front[r] = 0
  BY Zenon, <1>2, <1>3 DEF Staged
<1>5. Len(held[r]) = 0
  BY <1>4
<1>6. Filled(K) \in Nat /\ Len(Prompt[r]) \in Nat /\ Len(bs) \in Nat
  <2>1. Len(bs) \in Nat
    BY <1>1
  <2>. QED  BY Zenon, <1>1, <2>1, FilledLaws, Types
<1>7. m \in Nat /\ Filled(K) <= m /\ m < Len(Prompt[r])
  <2>1. CASE m = Filled(K)
    BY <1>1, <1>6, <2>1 DEF Matched
  <2>2. CASE Continues(r, Filled(K), c, m)
    <3>1. m \in Filled(K) + 1 .. Len(Prompt[r]) - 1
      BY Zenon, <2>2 DEF Continues
    <3>. QED  BY <1>6, <3>1
  <2>. QED  BY Zenon, <1>1, <2>1, <2>2 DEF Matched
<1>8. \A k \in 1 .. Len(bs) : bs[k] \in Blocks
  BY Zenon, <1>1, ElementOfSeq
<1>9. /\ stage' \in [Requests -> {"new", "added", "context", "computed", "generation", "removed"}]
      /\ pos' \in [Requests -> Nat] /\ held' \in [Requests -> Seq(Blocks)]
      /\ stage'[r] = "added" /\ pos'[r] = m /\ held'[r] = bs
      /\ \A q \in Requests \ {r} :
            stage'[q] = stage[q] /\ pos'[q] = pos[q] /\ held'[q] = held[q]
  <2>1. /\ stage \in [Requests -> {"new", "added", "context", "computed", "generation", "removed"}]
        /\ pos \in [Requests -> Nat] /\ held \in [Requests -> Seq(Blocks)]
    BY Zenon DEF IInv, TypeOK
  <2>2. stage' = [stage EXCEPT ![r] = "added"] /\ pos' = [pos EXCEPT ![r] = m]
        /\ held' = [held EXCEPT ![r] = bs]
    BY Zenon, <1>1, <1>2
  <2>3. /\ stage' \in [Requests -> {"new", "added", "context", "computed", "generation", "removed"}]
        /\ pos' \in [Requests -> Nat] /\ held' \in [Requests -> Seq(Blocks)]
    <3>1. m \in Nat /\ bs \in Seq(Blocks)
      BY Zenon, <1>1, <1>7
    <3>. QED  BY <2>1, <2>2, <3>1
  <2>4. /\ stage'[r] = "added" /\ pos'[r] = m /\ held'[r] = bs
        /\ \A q \in Requests \ {r} :
            stage'[q] = stage[q] /\ pos'[q] = pos[q] /\ held'[q] = held[q]
    BY Zenon, <2>1, <2>2
  <2>. QED  BY Zenon, <2>3, <2>4
<1>10. \A k \in 1 .. Len(bs) : k \in 1 .. K \/ k \in K + 1 .. Len(bs)
  <2>1. K \in Nat
    BY Zenon, <1>1
  <2>. QED  BY <1>6, <2>1
<1>11. K + 1 \in K + 1 .. Len(bs) /\ K + 1 \in 1 .. Len(bs)
  <2>1. K \in Nat /\ K + 1 <= Len(bs)
    BY Zenon, <1>1 DEF Backed
  <2>. QED  BY <1>6, <2>1
<1>12. ASSUME NEW k \in 1 .. Len(bs), ref[bs[k]] = 0 PROVE Exclusive(r, bs[k])
  BY Zenon, <1>8, <1>12, FreeBlock DEF Exclusive
<1>13. MemType(mem)' /\ TruthInv' /\ Holding(r, bs, m)
  <2>1. Exclusive(r, bs[K + 1])
    BY Zenon, <1>1, <1>11, <1>12 DEF Backed
  <2>. QED  BY Zenon, <1>1, <1>4, <2>1, AddContent
<1>14. \A b : b \in Range(bs) <=> Taken(r, bs, b)
  <2>1. DOMAIN bs = 1 .. Len(bs) /\ Len(held[r]) + 1 = 1
    BY <1>1, <1>5
  <2>. QED  BY Zenon, <2>1 DEF Taken, Range
<1>15. Referred(r, bs)
  <2>1. SUFFICES ASSUME NEW b \in Blocks
                 PROVE  /\ b \in Range(bs) =>
                            /\ ref'[b] = ref[b] + 1
                            /\ queued'[b] = IF queued[b] > 0 THEN queued[b] - 1 ELSE queued[b]
                        /\ b \notin Range(bs) => ref'[b] = ref[b] /\ queued'[b] = queued[b]
    BY Zenon, <1>14 DEF Referred
  <2>2. /\ ref'[b] = IF b \in Range(bs) THEN ref[b] + 1 ELSE ref[b]
        /\ queued'[b] = IF b \in Range(bs) /\ queued[b] > 0 THEN queued[b] - 1 ELSE queued[b]
    BY Zenon, <1>1 DEF Referenced, Claimed
  <2>. QED  BY Zenon, <2>2
<1>16. Extends(r, bs)
  BY <1>5, <1>6 DEF Extends
<1>17. held' = [held EXCEPT ![r] = bs] /\ front' = front
  BY Zenon, <1>1, <1>2
<1>18. CountInv' /\ \A b \in Blocks : ref'[b] \in Nat /\ queued'[b] \in Nat
  BY Zenon, <1>1, <1>15, <1>16, <1>17, TakeCount DEF Backed
<1>19. ref' \in [Blocks -> Nat] /\ queued' \in [Blocks -> Nat]
  <2>1. ref' = [b \in Blocks |-> ref'[b]] /\ queued' = [b \in Blocks |-> queued'[b]]
    BY Zenon, <1>1 DEF Referenced, Claimed
  <2>. QED  BY Zenon, <1>18, <2>1
<1>20. /\ owner' \in [Blocks -> Requests \cup {NoRequest}] /\ valid' \in [Requests -> BOOLEAN]
  BY Zenon, <1>1, AcquiredType
<1>21. TypeOK'
  BY ZenonT(40), <1>1, <1>2, <1>9, <1>13, <1>19, <1>20 DEF IInv, TypeOK, MemType, TreeType
<1>22. StagedInv'
  <2>1. SUFFICES ASSUME NEW q \in Requests PROVE Staged(q)'
    BY Zenon DEF StagedInv
  <2>2. CASE q # r
    <3>1. Staged(q)
      BY Zenon DEF IInv, StagedInv
    <3>. QED  BY Zenon, <1>2, <1>9, <2>2, <3>1 DEF Staged
  <2>3. CASE q = r
    <3>1. ~dirty[r]
      <4>1. stage[r] \notin {"context", "computed"}
        BY <1>2
      <4>. QED  BY Zenon, <1>3, <4>1 DEF Staged
    <3>2. stage'[r] \notin {"new", "removed"} /\ stage'[r] # "computed" /\ stage'[r] # "generation"
      BY <1>9
    <3>. QED  BY ZenonT(40), <1>1, <1>2, <1>4, <1>7, <1>9, <2>3, <3>1, <3>2 DEF Staged, Backed
  <2>. QED  BY Zenon, <2>2, <2>3
<1>23. ContentInv'
  <2>1. SUFFICES ASSUME NEW q \in Requests, InUse(q)' PROVE Content(q)'
    BY Zenon DEF ContentInv
  <2>2. tokens' = tokens
    BY Zenon, <1>2
  <2>3. CASE q = r
    BY Zenon, <1>9, <1>13, <2>2, <2>3 DEF Holding, Content
  <2>4. CASE q # r
    <3>1. InUse(q)
      BY Zenon, <1>9, <2>1, <2>4 DEF InUse
    <3>2. pos'[q] = pos[q] /\ held'[q] = held[q]
      BY Zenon, <1>9, <2>4
    <3>. QED  BY Zenon, <1>13, <2>2, <2>4, <3>1, <3>2 DEF Holding, Content
  <2>. QED  BY Zenon, <2>3, <2>4
<1>24. OthersSettled(r)
  BY Zenon, <1>9 DEF OthersSettled, Settled
<1>25. ASSUME NEW k \in 1 .. K PROVE Settled(r, k)'
  <2>1. Filled(k) \in Nat /\ Filled(k) <= Filled(K)
    BY Zenon, <1>1, PathLaws DEF Matched
  <2>2. Filled(k) <= m /\ stage'[r] # "context"
    BY <1>6, <1>7, <1>9, <2>1
  <2>. QED  BY Zenon, <1>9, <2>2 DEF Settled
<1>26. SharedWell(r, bs)
  <2>1. SUFFICES ASSUME NEW q \in Requests \ {r}, NEW j \in 1 .. Len(held[q]),
                        NEW k \in 1 .. Len(bs), held[q][j] = bs[k]
                 PROVE  j = k /\ Settled(q, j) /\ Settled(r, k)'
    BY Zenon DEF SharedWell
  <2>2. k \in 1 .. K
    BY Zenon, <1>1, <1>10, <1>12, <2>1 DEF Exclusive, Backed
  <2>. DEFINE p == Prefix(Prompt[r], Filled(k))
  <2>3. p \in DOMAIN tree /\ Len(p) = Filled(k) /\ k \in Nat \ {0}
    BY Zenon, <1>1, <2>2, PathLaws DEF Matched
  <2>4. tree[p] = held[q][j]
    BY Zenon, <1>1, <2>1, <2>2 DEF Backed
  <2>. HIDE DEF p
  <2>5. Len(p) = Filled(j) /\ Settled(q, j)
    BY Zenon, <2>3, <2>4 DEF IInv, FoundInv, Found
  <2>6. j \in Nat /\ k \in Nat
    BY <2>3, Types
  <2>7. j = k
    BY Zenon, <2>3, <2>5, <2>6, FilledMore
  <2>. QED  BY Zenon, <1>25, <2>2, <2>5, <2>7
<1>27. FoundWell(r, bs)
  <2>1. SUFFICES ASSUME NEW p \in DOMAIN tree', NEW k \in 1 .. Len(bs), tree'[p] = bs[k]
                 PROVE  Len(p) = Filled(k) /\ Settled(r, k)'
    BY Zenon DEF FoundWell
  <2>2. k \in 1 .. K
    BY Zenon, <1>1, <1>10, <2>1 DEF Backed
  <2>. DEFINE o == Prefix(Prompt[r], Filled(k))
  <2>3. o \in DOMAIN tree /\ Len(o) = Filled(k)
    BY Zenon, <1>1, <2>2, PathLaws DEF Matched
  <2>4. p \in DOMAIN tree /\ tree[p] = tree[o]
    BY Zenon, <1>1, <2>1, <2>2 DEF Pruned, Backed
  <2>. HIDE DEF o
  <2>5. p = o
    BY Zenon, <2>3, <2>4 DEF IInv, UniqueInv
  <2>. QED  BY Zenon, <1>25, <2>2, <2>3, <2>5
<1>28. ShareInv' /\ DistinctInv' /\ FoundInv' /\ UniqueInv'
  BY Zenon, <1>1, <1>17, <1>24, <1>26, <1>27, TakeShares DEF Backed
<1>29. PlainConfig'
  BY Zenon, <1>2 DEF IInv, PlainConfig
<1>. QED  BY Zenon, <1>13, <1>18, <1>21, <1>22, <1>23, <1>28, <1>29 DEF IInv

-----------------------------------------------------------------------------
(* The invariant is inductive.                                             *)

\* The counts depend on the blocks that sequences hold.
LEMMA SameCounts ==
    ASSUME CountInv, held' = held, front' = front, ref' = ref, queued' = queued
    PROVE  CountInv'
<1>1. \A b \in Blocks : Holders(b)' = Holders(b)
  BY DEF Holders, Holds
<1>2. ASSUME NEW b \in Blocks, Counted(b) PROVE Counted(b)'
  <2>1. Cardinality(Holders(b))' = Cardinality(Holders(b)')
    BY Zenon
  <2>. QED  BY Zenon, <1>1, <1>2, <2>1 DEF Counted
<1>. QED  BY Zenon, <1>2 DEF CountInv

\* No state variable changes.
LEMMA StutterStep ==
    ASSUME IInv, UNCHANGED vars
    PROVE  IInv'
<1>1. /\ config' = config /\ tree' = tree /\ mem' = mem /\ ref' = ref /\ queued' = queued
      /\ owner' = owner /\ valid' = valid /\ stage' = stage /\ dirty' = dirty
      /\ tokens' = tokens /\ pos' = pos /\ held' = held /\ front' = front /\ pins' = pins
      /\ rekeyed' = rekeyed /\ unclaimed' = unclaimed
  BY Zenon DEF vars, manager, request
<1>2. TypeOK'
  BY Zenon, <1>1 DEF IInv, TypeOK
<1>3. PlainConfig' /\ StagedInv' /\ DistinctInv'
  BY Zenon, <1>1 DEF IInv, PlainConfig, StagedInv, Staged, DistinctInv, Distinct
<1>4. ShareInv' /\ FoundInv'
  <2>1. \A r \in Requests : \A k : Settled(r, k) => Settled(r, k)'
    BY Zenon, <1>1 DEF Settled
  <2>2. ShareInv'
    <3>1. ASSUME NEW r \in Requests, NEW q \in Requests, Shares(r, q) PROVE Shares(r, q)'
      BY <1>1, <2>1, <3>1 DEF Shares
    <3>. QED  BY Zenon, <3>1 DEF IInv, ShareInv
  <2>3. FoundInv'
    <3>1. ASSUME NEW p \in DOMAIN tree, NEW r \in Requests, Found(r, p) PROVE Found(r, p)'
      BY <1>1, <2>1, <3>1 DEF Found
    <3>. QED  BY Zenon, <1>1, <3>1 DEF IInv, FoundInv
  <2>. QED  BY Zenon, <2>2, <2>3
<1>5. ContentInv' /\ TruthInv' /\ UniqueInv'
  BY Zenon, <1>1 DEF IInv, ContentInv, InUse, Content, TruthInv, Truth, UniqueInv
<1>6. CountInv'
  BY Zenon, <1>1, SameCounts DEF IInv
<1>. QED  BY Zenon, <1>2, <1>3, <1>4, <1>5, <1>6 DEF IInv

\* Nothing is pinned, so nothing is unpinned.
LEMMA NoUnpin ==
    ASSUME IInv, NEW r \in Requests
    PROVE  ~Unpin(r)
BY Zenon DEF IInv, StagedInv, Staged, Unpin

\* Every step keeps the invariant, or ends with a block at two nodes.
LEMMA NextInv ==
    ASSUME IInv, CountingLaws, [Next]_vars
    PROVE  IInv' \/ (Rest' /\ rekeyed')
<1>1. ASSUME NEW r \in Requests,
             \/ AddSequence(r) \/ Prefill(r) \/ Update(r) \/ Decode(r)
             \/ RemoveSequence(r) \/ Unpin(r)
      PROVE  IInv' \/ (Rest' /\ rekeyed')
  BY Zenon, <1>1, AddStep, PrefillStep, UpdateStep, DecodeStep, RemoveStep, NoUnpin
<1>. QED  BY Zenon, <1>1, StutterStep DEF Next

\* Behaviours are not followed further with a block at two nodes.
LEMMA EndInv ==
    ASSUME Rest, rekeyed, [Next]_vars
    PROVE  Rest' /\ rekeyed'
<1>1. UNCHANGED vars
  BY Zenon DEF Next
<1>2. /\ config' = config /\ tree' = tree /\ mem' = mem /\ ref' = ref /\ queued' = queued
      /\ owner' = owner /\ valid' = valid /\ stage' = stage /\ dirty' = dirty
      /\ tokens' = tokens /\ pos' = pos /\ held' = held /\ front' = front /\ pins' = pins
      /\ rekeyed' = rekeyed /\ unclaimed' = unclaimed
  BY Zenon, <1>1 DEF vars, manager, request
<1>3. TypeOK' /\ PlainConfig' /\ StagedInv'
  BY Zenon, <1>2 DEF Rest, TypeOK, PlainConfig, StagedInv, Staged
<1>4. CountInv'
  BY Zenon, <1>2, SameCounts DEF Rest
<1>. QED  BY Zenon, <1>2, <1>3, <1>4 DEF Rest

\* The first state: nothing is cached, every block is free.
LEMMA InitInv ==
    ASSUME Init, PlainConfig, CountingLaws
    PROVE  IInv
<1>1. /\ Prompt \in [Requests -> Seq(Tokens) \ {<< >>}]
      /\ \A r \in Requests : Prompt[r] \in Seq(Tokens) /\ Len(Prompt[r]) \in Nat \ {0}
  BY ReuseAssumption
<1>2. DOMAIN tree = {}
  BY DEF Init
<1>3. \A r \in Requests :
         /\ held[r] = << >> /\ front[r] = 0 /\ pins[r] = {} /\ stage[r] = "new" /\ ~dirty[r]
         /\ tokens[r] = Prompt[r]
  BY Zenon DEF Init
<1>4. \A r \in Requests : Len(held[r]) = 0
  BY <1>3
<1>5. \A k : k \notin 1 .. 0
  OBVIOUS
<1>6. TypeOK
  <2>1. DOMAIN tree \subseteq Seq(Tokens) \ {<< >>} /\ tree \in [DOMAIN tree -> Blocks]
    BY DEF Init
  <2>2. mem \in [Blocks -> [1 .. TokensPerBlock -> Seq(Tokens)]]
    BY DEF Init
  <2>3. /\ ref \in [Blocks -> Nat] /\ queued \in [Blocks -> Nat]
        /\ owner \in [Blocks -> Requests \cup {NoRequest}] /\ valid \in [Requests -> BOOLEAN]
        /\ dirty \in [Requests -> BOOLEAN]
        /\ pos \in [Requests -> Nat] /\ front \in [Requests -> Nat]
    BY DEF Init
  <2>4. /\ stage \in [Requests ->
                        {"new", "added", "context", "computed", "generation", "removed"}]
        /\ held \in [Requests -> Seq(Blocks)] /\ pins \in [Requests -> SUBSET Blocks]
        /\ config \in Configs
    BY DEF Init
  <2>5. tokens \in [Requests -> Seq(Tokens)]
    BY <1>1 DEF Init
  <2>6. rekeyed \in BOOLEAN /\ unclaimed \in BOOLEAN
    BY DEF Init
  <2>. QED  BY Zenon, <2>1, <2>2, <2>3, <2>4, <2>5, <2>6 DEF TypeOK
<1>7. StagedInv
  <2>1. SUFFICES ASSUME NEW r \in Requests PROVE Staged(r)
    BY Zenon DEF StagedInv
  <2>2. /\ stage[r] # "added" /\ stage[r] # "context" /\ stage[r] # "computed"
        /\ stage[r] # "generation"
    BY <1>3
  <2>. QED  BY Zenon, <1>3, <2>2 DEF Staged
<1>8. DistinctInv /\ ShareInv
  BY Zenon, <1>4, <1>5 DEF DistinctInv, Distinct, NoRepeat, ShareInv, Shares
<1>9. ContentInv
  <2>1. \A r \in Requests : ~InUse(r)
    BY <1>3 DEF InUse
  <2>. QED  BY Zenon, <2>1 DEF ContentInv
<1>10. TruthInv /\ FoundInv /\ UniqueInv
  BY Zenon, <1>2 DEF TruthInv, FoundInv, UniqueInv
<1>11. CountInv
  <2>1. SUFFICES ASSUME NEW b \in Blocks PROVE Counted(b)
    BY Zenon DEF CountInv
  <2>2. Holders(b) = {}
    BY Zenon, <1>3, <1>4, <1>5, HeldBlocks DEF Holders
  <2>3. ref[b] = 0 /\ queued[b] = 1
    BY Zenon DEF Init
  <2>. QED  BY Zenon, <2>2, <2>3, EmptyCount DEF Counted
<1>. QED  BY Zenon, <1>6, <1>7, <1>8, <1>9, <1>10, <1>11 DEF IInv

\* With no block pinned, what the invariant says of references is RefsCounted.
LEMMA RefsFromCounts ==
    ASSUME Rest, CountingLaws
    PROVE  RefsCounted
<1>1. SUFFICES ASSUME NEW b \in Blocks
               PROVE  ref[b] = Cardinality({r \in Requests : b \in Holds(r)})
                                 + Cardinality({r \in Requests : b \in pins[r]})
  BY Zenon DEF RefsCounted
<1>2. ref[b] = Cardinality({r \in Requests : b \in Holds(r)}) /\ ref[b] \in Nat
  BY Zenon DEF Rest, TypeOK, CountInv, Counted, Holders
<1>3. {r \in Requests : b \in pins[r]} = {}
  BY Zenon DEF Rest, StagedInv, Staged
<1>4. Cardinality({r \in Requests : b \in pins[r]}) = 0
  BY Zenon, <1>3, EmptyCount
<1>. DEFINE c == Cardinality({r \in Requests : b \in Holds(r)})
            d == Cardinality({r \in Requests : b \in pins[r]})
<1>5. ref[b] = c /\ d = 0 /\ ref[b] \in Nat
  BY Zenon, <1>2, <1>4
<1>. HIDE DEF c, d
<1>6. ref[b] = c + d
  BY <1>5
<1>. QED  BY Zenon, <1>6 DEF c, d

\* IsFiniteSet and Cardinality, spelled out: tlapm tells those of an extended
\* FiniteSets from those of the library that the last section instantiates.
Finite(S) == \E seq \in Seq(S) : \A s \in S : \E n \in 1 .. Len(seq) : seq[n] = s

Size(S) ==
    LET CS[T \in SUBSET S] == IF T = {} THEN 0 ELSE 1 + CS[T \ {CHOOSE x : x \in T}]
    IN  CS[S]

\* There are finitely many requests.
LEMMA SizesSpelledOut == Finite(Requests) /\ \A S : Cardinality(S) = Size(S)
<1>1. Finite(Requests)
  BY Zenon, ReuseAssumption DEF Finite, IsFiniteSet
<1>2. \A S : Cardinality(S) = Size(S)
  BY Zenon DEF Cardinality, Size
<1>. QED  BY Zenon, <1>1, <1>2

\* The counting laws in terms of Size.
LEMMA LawsSpelledOut ==
    ASSUME \A S \in SUBSET Requests : Size(S) \in Nat /\ (Size(S) = 0 <=> S = {}),
           \A S \in SUBSET Requests : \A r \in Requests \ S : Size(S \cup {r}) = Size(S) + 1,
           \A S \in SUBSET Requests : \A r \in S : Size(S \ {r}) = Size(S) - 1
    PROVE  CountingLaws
BY Zenon, SizesSpelledOut DEF CountingLaws

-----------------------------------------------------------------------------
(* The counting laws, from the library's facts on finite sets.             *)
LOCAL INSTANCE FiniteSetTheorems

\* Finite and Size in terms of the library.
LEMMA LibrarySizes ==
    (\A S : IsFiniteSet(S) <=> Finite(S)) /\ (\A S : Cardinality(S) = Size(S))
<1>1. \A S : IsFiniteSet(S) <=> Finite(S)
  BY Zenon DEF IsFiniteSet, Finite
<1>2. \A S : Cardinality(S) = Size(S)
  BY Zenon DEF Cardinality, Size
<1>. QED  BY Zenon, <1>1, <1>2

\* The laws hold, because there are finitely many requests.
LEMMA LawsHold == CountingLaws
<1>1. \A S \in SUBSET Requests : IsFiniteSet(S)
  BY Zenon, SizesSpelledOut, LibrarySizes, FS_Subset
<1>2. \A S \in SUBSET Requests : Size(S) \in Nat /\ (Size(S) = 0 <=> S = {})
  BY ZenonT(40), <1>1, LibrarySizes, FS_CardinalityType, FS_EmptySet
<1>3. ASSUME NEW S \in SUBSET Requests, NEW r \in Requests \ S
      PROVE  Size(S \cup {r}) = Size(S) + 1
  <2>1. Cardinality(S \cup {r}) = Cardinality(S) + 1
    BY Zenon, <1>1, FS_AddElement
  <2>. QED  BY Zenon, <2>1, LibrarySizes
<1>4. ASSUME NEW S \in SUBSET Requests, NEW r \in S
      PROVE  Size(S \ {r}) = Size(S) - 1
  <2>1. Cardinality(S \ {r}) = Cardinality(S) - 1
    BY Zenon, <1>1, FS_RemoveElement
  <2>. QED  BY Zenon, <2>1, LibrarySizes
<1>. QED  BY ZenonT(40), <1>2, <1>3, <1>4, LawsSpelledOut

-----------------------------------------------------------------------------
(* In every reachable state of a server that pins no blocks and has full   *)
(* attention the invariant holds, or what is left of it when removeSequence *)
(* has put a block at two nodes, whatever the prompts, the size of the     *)
(* pool and of its blocks, the overlap and the kind of partial reuse.      *)
THEOREM Inductive == Spec /\ PlainConfig => [](Rest /\ (rekeyed \/ IInv))
<1>1. Init /\ PlainConfig => IInv
  BY InitInv, LawsHold
<1>2. IInv => Rest
  BY Zenon DEF IInv, Rest
<1>3. Rest /\ (rekeyed \/ IInv) /\ [Next]_vars => Rest' /\ (rekeyed' \/ IInv')
  <2>1. ASSUME IInv, [Next]_vars PROVE Rest' /\ (rekeyed' \/ IInv')
    <3>1. IInv' \/ (Rest' /\ rekeyed')
      BY Zenon, <2>1, NextInv, LawsHold
    <3>2. IInv' => Rest'
      BY Zenon DEF IInv, Rest
    <3>. QED  BY Zenon, <3>1, <3>2
  <2>. QED  BY Zenon, <2>1, EndInv
<1>. QED  BY <1>1, <1>2, <1>3, PTL DEF Spec

(* Every reachable state is well typed: each block of a sequence and of    *)
(* the tree is a block of the pool, and no reference count or number of    *)
(* queue entries is ever decremented below zero.                           *)
THEOREM TypeCorrect == Spec /\ PlainConfig => []TypeOK
<1>1. Rest => TypeOK
  BY Zenon DEF Rest
<1>. QED  BY <1>1, Inductive, PTL

(* mRefCount of a block is the number of sequences that hold the block,    *)
(* after any sequence of addSequence, addToken and removeSequence.         *)
THEOREM RefsAreCounted == Spec /\ PlainConfig => []RefsCounted
<1>1. Rest => RefsCounted
  BY RefsFromCounts, LawsHold
<1>. QED  BY <1>1, Inductive, PTL

(* verifyQueueIntegrity finds nothing wrong: a block is in mFreeQueues,    *)
(* once, exactly when its reference count is zero.                         *)
THEOREM QueuesAreSound == Spec /\ PlainConfig => []QueueIntegrity
<1>1. Rest => QueueIntegrity
  BY ZenonT(40) DEF Rest, CountInv, Counted, QueueIntegrity
<1>. QED  BY <1>1, Inductive, PTL

(* The tree below mCachedBlocksRoot leads from a prefix of tokens only to  *)
(* the KV state of those very tokens, and a block is at one node, as long  *)
(* as no sequence that has only full blocks of the tree is removed before  *)
(* its first forward pass (Rekeys).                                        *)
THEOREM ReuseIsTruthful == Spec /\ PlainConfig => []TreeTruth
<1>1. rekeyed \/ IInv => TreeTruth
  BY ZenonT(40) DEF IInv, TruthInv, Truth, UniqueInv, TreeTruth, Intact
<1>. QED  BY <1>1, Inductive, PTL

(* The blocks of a sequence that addSequence, the forward passes and       *)
(* addToken filled hold the KV state of its own tokens: no other sequence  *)
(* writes to a block that is shared with it, or taken back from it, as     *)
(* long as every block is at one node.                                     *)
THEOREM StorageStaysValid == Spec /\ PlainConfig => []StorageValid
<1>1. rekeyed \/ IInv => StorageValid
  BY Zenon DEF IInv, ContentInv, Content, StorageValid, Intact
<1>. QED  BY <1>1, Inductive, PTL
=============================================================================
