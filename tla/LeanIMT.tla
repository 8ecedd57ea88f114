------------------------------- MODULE LeanIMT -------------------------------
(***************************************************************************)
(* The commitment tree.  Three pieces of code compute on it and have to    *)
(* agree: the frontier insert of the pool program (merkle.rs), the mirror  *)
(* that keeps every level (packages/indexer/src/tree/leanImt.ts and, the   *)
(* same algorithm, packages/sdk/src/merkle/LeanIMT.ts) and the fold of a   *)
(* sibling path in the circuits (circuits/shared/src/lib.nr) and in the    *)
(* client (witnessSources.ts).  The mirror is fed the pool's leaves in     *)
(* order, at its own pace, also between the two requests in which a client *)
(* reads the path of its note and the root.                                *)
(***************************************************************************)
EXTENDS Integers, Sequences, RootRing

CONSTANTS
    TreeDepth,          \* TREE_DEPTH, 32 in the program
    ZeroRoot,           \* [0u8; 32]: no leaf, no root
    Leaves,             \* the non-zero leaves offered for insertion
    Hash3(_, _, _)      \* Poseidon v1 over (left, right, level), collision free

VARIABLES
    sideNodes,          \* Pool.side_nodes: the frontier
    nextLeafIndex,      \* Pool.next_leaf_index
    ring,               \* Pool.roots and Pool.root_cursor
    leaves,             \* history: the leaves inserted, in order
    rootHistory,        \* history: the root after each insert
    levels,             \* the mirror: levels[l][j] is node j of level l
    mirrorNext,         \* the mirror's nextIndex
    witness             \* a client's request for the path of its note

poolVars == <<sideNodes, nextLeafIndex, ring, leaves, rootHistory>>
mirrorVars == <<levels, mirrorNext>>
vars == <<poolVars, mirrorVars, witness>>

ASSUME TreeDepthAssumption == TreeDepth \in Nat \ {0}

Levels == 0 .. TreeDepth - 1

\* 1 << l
Pow2[l \in 0 .. TreeDepth] == IF l = 0 THEN 1 ELSE 2 * Pow2[l - 1]

Capacity == Pow2[TreeDepth]

\* i >> l: the node of level l above leaf i.
Ancestor(i, l) == i \div Pow2[l]

-----------------------------------------------------------------------------
(* merkle::insert: one level of the walk, then all of them.                *)

\* Variant: the walk stops at the first even index, as the comment on insert says.
LevelStepStopsEven(w, level) ==
    IF w.done THEN w
    ELSE IF w.index % 2 = 0
    THEN [w EXCEPT !.side[level] = w.node, !.done = TRUE]
    ELSE [w EXCEPT !.node = Hash3(w.side[level], w.node, level),
                   !.index = w.index \div 2]

LevelStep(w, level) ==
    IF w.done THEN w
    ELSE IF w.index % 2 = 0
    THEN [w EXCEPT !.side[level] = w.node,
                   !.done = (w.index = 0),
                   !.index = w.index \div 2]
    ELSE [w EXCEPT !.node = Hash3(w.side[level], w.node, level),
                   !.index = w.index \div 2]

FrontierWalk(side, leaf, leafIndex) ==
    LET walk[l \in 0 .. TreeDepth] ==
            IF l = 0
            THEN [node |-> leaf, index |-> leafIndex, side |-> side, done |-> FALSE]
            ELSE LevelStep(walk[l - 1], l - 1)
    IN  walk[TreeDepth]

\* Variant: the new root pushed once more than there are new leaves.
InsertPushingTwice(leaf) ==
    /\ leaf # ZeroRoot
    /\ nextLeafIndex < Capacity
    /\ LET w == FrontierWalk(sideNodes, leaf, nextLeafIndex)
       IN  /\ sideNodes' = w.side
           /\ ring' = PushRoot(PushRoot(ring, w.node), w.node)
           /\ rootHistory' = Append(rootHistory, w.node)
    /\ nextLeafIndex' = nextLeafIndex + 1
    /\ leaves' = Append(leaves, leaf)
    /\ UNCHANGED <<mirrorVars, witness>>

Insert(leaf) ==
    /\ leaf # ZeroRoot
    /\ nextLeafIndex < Capacity
    /\ LET w == FrontierWalk(sideNodes, leaf, nextLeafIndex)
       IN  /\ sideNodes' = w.side
           /\ ring' = PushRoot(ring, w.node)
           /\ rootHistory' = Append(rootHistory, w.node)
    /\ nextLeafIndex' = nextLeafIndex + 1
    /\ leaves' = Append(leaves, leaf)
    /\ UNCHANGED <<mirrorVars, witness>>

-----------------------------------------------------------------------------
(* The mirror of leanImt.ts: it stores every node it computes.             *)

NodeAt(lv, level, j) == IF j \in DOMAIN lv[level] THEN lv[level][j] ELSE ZeroRoot

SiblingIndex(j) == IF j % 2 = 0 THEN j + 1 ELSE j - 1

\* Variant: a missing right sibling hashed as a zero leaf.
ParentNodePadded(left, right, level) == Hash3(left, right, level)

\* A zero sibling passes the other side through unhashed.
ParentNode(left, right, level) ==
    IF right = ZeroRoot THEN left
    ELSE IF left = ZeroRoot THEN right
    ELSE Hash3(left, right, level)

SetNode(lv, level, j, node) ==
    [lv EXCEPT ![level] =
        [k \in DOMAIN lv[level] \union {j} |-> IF k = j THEN node ELSE lv[level][k]]]

\* One level of the walk, then all of them.
MirrorStep(lv, leafIndex, level) ==
    LET j       == Ancestor(leafIndex, level)
        node    == lv[level][j]
        sibling == NodeAt(lv, level, SiblingIndex(j))
        left    == IF j % 2 = 0 THEN node ELSE sibling
        right   == IF j % 2 = 0 THEN sibling ELSE node
    IN  SetNode(lv, level + 1, j \div 2, ParentNode(left, right, level))

MirrorWalk(lv0, leaf, leafIndex) ==
    LET walk[l \in 0 .. TreeDepth] ==
            IF l = 0 THEN SetNode(lv0, 0, leafIndex, leaf)
                     ELSE MirrorStep(walk[l - 1], leafIndex, l - 1)
    IN  walk[TreeDepth]

MirrorInsert ==
    /\ mirrorNext < nextLeafIndex
    /\ levels' = MirrorWalk(levels, leaves[mirrorNext + 1], mirrorNext)
    /\ mirrorNext' = mirrorNext + 1
    /\ UNCHANGED <<poolVars, witness>>

MirrorRoot == NodeAt(levels, TreeDepth, 0)

\* Variant: the index not halved on the way up.
GetPathUnshifted(leafIndex) ==
    [l \in Levels |-> NodeAt(levels, l, SiblingIndex(leafIndex))]

\* getPath(leafIndex) of the mirror.
GetPath(leafIndex) ==
    [l \in Levels |-> NodeAt(levels, l, SiblingIndex(Ancestor(leafIndex, l)))]

-----------------------------------------------------------------------------
(* lean_imt_inclusion_proof / foldPath.  A right child at an empty level   *)
(* is refused, which the fold reports as ZeroRoot: no root is zero.        *)

\* Variant: a right child at an empty level passed through.
FoldStepLenient(current, bit, sibling, level) ==
    IF sibling = ZeroRoot THEN current
    ELSE IF bit = 1 THEN Hash3(sibling, current, level)
    ELSE Hash3(current, sibling, level)

FoldStep(current, bit, sibling, level) ==
    IF current = ZeroRoot \/ (sibling = ZeroRoot /\ bit = 1) THEN ZeroRoot
    ELSE IF sibling = ZeroRoot THEN current
    ELSE IF bit = 1 THEN Hash3(sibling, current, level)
    ELSE Hash3(current, sibling, level)

FoldPath(leaf, leafIndex, path) ==
    LET fold[l \in 0 .. TreeDepth] ==
            IF l = 0 THEN leaf
            ELSE FoldStep(fold[l - 1], Ancestor(leafIndex, l - 1) % 2, path[l - 1], l - 1)
    IN  fold[TreeDepth]

-----------------------------------------------------------------------------
(* Witnesses: indexerTransport asks for the path of the client's note, then*)
(* for the root; IndexerWitnessSource folds before it hands them on.       *)

NoWitness ==
    [pending |-> FALSE, index |-> 0, siblings |-> [l \in Levels |-> ZeroRoot], seen |-> 0]

\* The root the path opens for the client's leaf.
OpenedRoot(w) == FoldPath(leaves[w.index + 1], w.index, w.siblings)

\* A slip: path and root are handed on as they came.
Unchecked(w) == TRUE

\* The check of witnessFor, on an answer of the right shape: the path read
\* earlier reproduces the root read now.
Reproduces(w) == OpenedRoot(w) = MirrorRoot

\* GET /path/:leaf_index; a leaf the mirror has not seen is answered by an error.
\* seen records how far the mirror was.
FetchPath(i) ==
    /\ ~witness.pending
    /\ i < mirrorNext
    /\ witness' = [pending |-> TRUE, index |-> i, siblings |-> GetPath(i), seen |-> mirrorNext]
    /\ UNCHANGED <<poolVars, mirrorVars>>

\* GET /root ends the request: with a witness if it Reproduces the root, else
\* with ROOT_MISMATCH.
FetchRoot ==
    /\ witness.pending
    /\ witness' = NoWitness
    /\ UNCHANGED <<poolVars, mirrorVars>>

-----------------------------------------------------------------------------
Init ==
    /\ sideNodes = [l \in Levels |-> ZeroRoot]
    /\ nextLeafIndex = 0
    /\ ring = EmptyRing(ZeroRoot)
    /\ leaves = << >>
    /\ rootHistory = << >>
    /\ levels = [l \in 0 .. TreeDepth |-> [j \in {} |-> ZeroRoot]]
    /\ mirrorNext = 0
    /\ witness = NoWitness

Next ==
    \/ \E leaf \in Leaves : Insert(leaf)
    \/ MirrorInsert
    \/ \E i \in 0 .. mirrorNext - 1 : FetchPath(i)
    \/ FetchRoot

Spec == Init /\ [][Next]_vars

-----------------------------------------------------------------------------
(* Reference: the tree of a whole sequence of leaves, built layer by       *)
(* layer with no frontier and no history.                                  *)

LayerAbove(below, level) ==
    [j \in 1 .. (Len(below) + 1) \div 2 |->
        IF 2 * j <= Len(below)
        THEN Hash3(below[2 * j - 1], below[2 * j], level)
        ELSE below[2 * j - 1]]

Layer(s) ==
    LET layer[l \in 0 .. TreeDepth] ==
            IF l = 0 THEN s ELSE LayerAbove(layer[l - 1], l - 1)
    IN  layer

ReferenceRoot(s) == Layer(s)[TreeDepth][1]

\* The prefix a root commits to, 0 for the zero slot, -1 for a foreign root.
PrefixOf(root) ==
    LET prefixes == {k \in DOMAIN rootHistory : /\ root = rootHistory[k]
                                                /\ root = ReferenceRoot(SubSeq(leaves, 1, k))}
    IN  IF root = ZeroRoot THEN 0
        ELSE IF prefixes = {} THEN -1 ELSE CHOOSE k \in prefixes : TRUE

\* The triples of a leaf, what it folds to over l levels with any of the given
\* siblings, and the index its bits spell.
LeafOpenings == {<<leaf, leaf, 0>> : leaf \in Leaves}

OpeningsAbove(below, siblings, level) ==
    {<<o[1], FoldStep(o[2], bit, sib, level), o[3] + bit * Pow2[level]>> :
        o \in below, bit \in {0, 1}, sib \in siblings}

Openings(siblings) ==
    LET opens[l \in 0 .. TreeDepth] ==
            IF l = 0 THEN LeafOpenings ELSE OpeningsAbove(opens[l - 1], siblings, l - 1)
    IN  opens

-----------------------------------------------------------------------------
(* Properties                                                              *)

\* The root merkle::insert returned last, and so every root it ever returned, is
\* the root of the tree rebuilt from scratch out of the leaves inserted so far,
\* and the frontier's walk never reads a side node of a subtree that has moved on.
FrontierIsReference ==
    leaves # << >> => rootHistory[Len(leaves)] = ReferenceRoot(leaves)

\* However far behind it runs, the indexer's mirror has exactly the root the
\* pool had after the same number of leaves.
MirrorAgrees ==
    mirrorNext > 0 => MirrorRoot = rootHistory[mirrorNext]

\* Path and root are read in two requests, between which the mirror may grow.
\* If the client accepts the pair, the path opens the root the pool had when it had
\* as many leaves as the mirror now, never a root of no tree; and it is refused only
\* if the mirror did grow in between: every path served, for any leaf and not only
\* the newest, folds to the root of its moment.
WitnessUsable ==
    witness.pending =>
        /\ Reproduces(witness) => OpenedRoot(witness) = rootHistory[mirrorNext]
        /\ ~Reproduces(witness) => witness.seen < mirrorNext

\* Membership is sound and the leaf index is unique: with siblings taken from
\* any nodes the tree holds, placed at any level, a leaf opens the current root
\* at an index only if it sits at that index.  The nullifier hashes the index,
\* so a second index for one leaf would be a second spend of one note.
OpeningsAreGenuine ==
    LET siblings == {ZeroRoot} \union UNION {{levels[l][j] : j \in DOMAIN levels[l]} : l \in 0 .. TreeDepth}
    IN  mirrorNext = nextLeafIndex /\ nextLeafIndex > 0 /\ ~witness.pending =>
            \A o \in Openings(siblings)[TreeDepth] :
                o[2] = rootHistory[nextLeafIndex] =>
                    o[3] < nextLeafIndex /\ leaves[o[3] + 1] = o[1]

\* The hashed tree with its ring of roots implements the abstract commitment log.
AbstractLog == INSTANCE CommitmentLog WITH
    log <- leaves,
    ring <- [roots |-> [s \in Slots |-> PrefixOf(ring.roots[s])], cursor |-> ring.cursor]

ImplementsCommitmentLog == AbstractLog!Spec
=============================================================================
