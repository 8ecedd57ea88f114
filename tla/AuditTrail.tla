------------------------------ MODULE AuditTrail ------------------------------
(***************************************************************************)
(* The auditor's tracer (packages/sdk/src/threshold/chainTrace.ts) over    *)
(* the notes of ShieldedPool.  forwardTrace follows a note to everything   *)
(* made from it, through the nullifiers it finds spent; backwardTrace      *)
(* follows it to everything it was made from, through the parents written  *)
(* into the notes, which the memo of a transfer hides: there the tracer    *)
(* reads them from the next leaf, and must not be misled by a leaf that    *)
(* only happens to be next.                                                *)
(*                                                                         *)
(* Both see the chain through a ChainState that is not trusted: a leaf it  *)
(* withholds, or whose ciphertext it has altered, does not open.  dark is  *)
(* the set of those leaves.  A trace that meets one says so.               *)
(***************************************************************************)
EXTENDS ShieldedPool

VARIABLE
    landed      \* the inputs and outputs of every spend that landed, in order

auditVars == <<vars, landed>>

AuditInit == Init /\ landed = << >>

\* The nullifiers and the leaves of one transaction belong together, which the
\* notes alone do not tell; an indexer groups them by transaction.
AuditNext ==
    /\ Next
    /\ landed' = IF nullifiers' = nullifiers THEN landed
                 ELSE Append(landed, [ins |-> nullifiers' \ nullifiers,
                                      outs |-> Len(leaves) .. Len(leaves') - 1])

AuditSpec == AuditInit /\ [][AuditNext]_auditVars

-----------------------------------------------------------------------------
(* The tracer                                                              *)

\* openLeaf: the note rebuilt from the plaintext must be the leaf on the chain.
\* The genesis leaf is no note.
OpenLeaf(i, dark) == i \in (1 .. Len(leaves) - 1) \ dark

ChildrenOfSpend(i) ==
    UNION {landed[k].outs : k \in {j \in DOMAIN landed : i \in landed[j].ins}}

\* Variant: the second slot of a join overlooked.
ConsumedLeavesFirst(parents) ==
    IF parents = Hidden THEN {} ELSE {parents[1]}

\* consumedLeaves: a second parent of 0 marks a spend of one note; {} stands for
\* null, a field that does not unpack or leads outside the tree.
ConsumedLeaves(parents) ==
    LET indexes == IF parents[2] = 0 THEN {parents[1]} ELSE {parents[1], parents[2]}
    IN  IF indexes \subseteq 0 .. Len(leaves) - 1 THEN indexes ELSE {}

\* bridgeHiddenParents: the change next to the memo has the parents, if each of
\* them was spent by the transaction that made the memo.
BridgeHiddenParents(memo, dark) ==
    LET parents == ConsumedLeaves(NoteAt(memo + 1).parents)
    IN  IF /\ OpenLeaf(memo + 1, dark)
           /\ NoteAt(memo + 1).parents \notin {NoParents, Hidden}
           /\ \A p \in parents : OpenLeaf(p, dark) /\ memo \in ChildrenOfSpend(p)
        THEN parents ELSE {}

Expansion(to) == [to |-> to, truncated |-> FALSE]
Truncated == [to |-> {}, truncated |-> TRUE]

\* Expansions that cannot be empty are truncated when they are.
Expand(to) == IF to = {} THEN Truncated ELSE Expansion(to)

ForwardStep(i, dark) ==
    IF ~OpenLeaf(i, dark) THEN Truncated
    ELSE IF ~Spent(i) THEN Expansion({})
    ELSE IF ~(ChildrenOfSpend(i) \subseteq 0 .. Len(leaves) - 1) THEN Truncated
    ELSE Expand(ChildrenOfSpend(i))

BackwardStep(i, dark) ==
    IF ~OpenLeaf(i, dark) THEN Truncated
    ELSE IF NoteAt(i).parents = NoParents THEN Expansion({})
    ELSE IF NoteAt(i).parents = Hidden THEN Expand(BridgeHiddenParents(i, dark))
    ELSE Expand(ConsumedLeaves(NoteAt(i).parents))

Indices == 0 .. Len(leaves) - 1

\* traverse: the worklist visits each leaf once, in whatever order.
Extend(seen, step) == seen \union UNION {step[i].to : i \in seen}

Traverse(start, step) ==
    LET visited[k \in 0 .. Len(leaves)] ==
            IF k = 0 THEN {start} ELSE Extend(visited[k - 1], step)
        nodes == visited[Len(leaves)]
    IN  [nodes |-> nodes,
         edges |-> UNION {{i} \X step[i].to : i \in nodes},
         truncated |-> {i \in nodes : step[i].truncated}]

ForwardTrace(start, dark) == Traverse(start, [i \in Indices |-> ForwardStep(i, dark)])

\* The edges of a backward trace too lead from parent to child.
BackwardTrace(start, dark) ==
    LET graph == Traverse(start, [i \in Indices |-> BackwardStep(i, dark)])
    IN  [graph EXCEPT !.edges = {<<e[2], e[1]>> : e \in graph.edges}]

-----------------------------------------------------------------------------
(* Properties                                                              *)

\* What really happened: from each note spent to each note made by that spend.
Lineage == UNION {landed[k].ins \X landed[k].outs : k \in DOMAIN landed}

\* A trace tells nothing but the truth, goes on from every note it reaches, and
\* names every one beyond which it does not tell all of the truth; if every note
\* opens, it tells everything.
Faithful(graph, start, truth, end, dark) ==
    /\ graph.edges \subseteq truth
    /\ start \in graph.nodes
    /\ \A e \in graph.edges : e[1] \in graph.nodes /\ e[2] \in graph.nodes
    /\ \A e \in truth : e[end] \in graph.nodes \ graph.truncated => e \in graph.edges
    /\ dark = {} => graph.truncated \subseteq {0}

\* Every note is worth no more than the notes it was made from, is of their
\* asset, and stays in their group where it is not a payment.
Derived(i, truth) ==
    LET from == {e[1] : e \in {f \in truth : f[2] = i}}
    IN  from # {} =>
        /\ NoteAt(i).value <= Cardinality(UNION {Units(q) : q \in from})
        /\ \A q \in from :
            /\ q < i
            /\ NoteAt(q).asset = NoteAt(i).asset
            /\ NoteAt(q).owner \in Groups /\ NoteAt(i).parents # Hidden
                => NoteAt(i).owner = NoteAt(q).owner

\* The lineage an auditor sees is the true one: from any note, forwards and
\* backwards, across the memos that hide their parents, through any mix of
\* transfers, splits, joins and withdrawals, with any one leaf withheld or
\* altered by whoever serves the chain; and value is only ever passed down it.
\* (Looked at between proofs: one in flight changes nothing the tracer reads,
\* and forgetting it leads to the same pool.)
Provenance ==
    LET truth == Lineage
    IN  proofs = {} => \A start \in Indices :
            /\ Derived(start, truth)
            /\ \A dark \in {{}} \union {{i} : i \in Indices} :
                /\ Faithful(ForwardTrace(start, dark), start, truth, 1, dark)
                /\ Faithful(BackwardTrace(start, dark), start, truth, 2, dark)
=============================================================================
