--------------------------- MODULE MCKVCacheReuse ---------------------------
(* Instances of KVCacheReuse for TLC.                                      *)
EXTENDS KVCacheReuse, TLC

CONSTANTS q1, q2, q3, q4

\* Prompts that part in the first, the second and the third block, two of
\* them the same.
SharedPrompts ==
    q1 :> <<0, 0, 1, 1>> @@ q2 :> <<0, 0, 1, 0, 1>> @@ q3 :> <<0, 0, 0>>
      @@ q4 :> <<0, 0, 1, 0, 1>>

\* A prompt that ends with a block inside a longer one.
NestedPrompts == q1 :> <<0, 0, 1, 1, 1>> @@ q2 :> <<0, 0, 1, 1>>

Plain == [window |-> MaxLen, pinners |-> {}, overlap |-> FALSE, partial |-> TRUE,
          copy |-> TRUE]

ContextServer == [Plain EXCEPT !.pinners = Requests \cap {q1, q3}]

\* A context server (with and without copies of blocks matched in part), the
\* overlap scheduler, which context servers do not use, and sliding windows: one
\* that several blocks leave at a time, and one with all requests decoding.
AllConfigs ==
    {ContextServer, [ContextServer EXCEPT !.copy = FALSE],
     [Plain EXCEPT !.overlap = TRUE], [ContextServer EXCEPT !.window = 2],
     [Plain EXCEPT !.window = 3]}

AllPinned == {[Plain EXCEPT !.pinners = Requests]}

\* With a sliding window a block can be stored at two nodes, which then share
\* their children: no longer a tree.  Behaviours are followed up to there.
StillATree == IsSWA => IsInjective(tree)

BlockSymmetry == Permutations(Blocks)
=============================================================================
