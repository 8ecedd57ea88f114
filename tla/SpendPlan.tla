----------------------------- MODULE SpendPlan -----------------------------
(***************************************************************************)
(* Which notes a wallet spends for an amount (sdk/src/tx/plan.ts).  A      *)
(* transfer or a withdrawal consumes one note, a join merges two, so an    *)
(* amount that no single note covers needs k - 1 joins first.  A note is a *)
(* record [leaf, asset, value]; a plan is a sequence of steps.             *)
(***************************************************************************)
EXTENDS Integers, FiniteSets, Sequences, SequencesExt, FiniteSetsExt

CONSTANTS
    DustFloor,  \* change in 1 .. DustFloor - 1 is avoided
    MaxSteps    \* the policies considered allow 1 .. MaxSteps transactions in a plan

PlanAssumption == DustFloor \in Nat /\ MaxSteps \in Nat \ {0}
ASSUME PlanAssumption

\* The output of the previous step: its leaf index is known only once it lands.
PreviousOutput == -1

ValueSum(notes) == FoldLeft(LAMBDA sum, n : sum + n.value, 0, notes)

\* The candidates, by value and then by leaf index; empty notes are useless.
ForAsset(notes, asset) ==
    SetToSortSeq({n \in notes : n.asset = asset /\ n.value > 0},
                 LAMBDA a, b : \/ a.value < b.value
                               \/ a.value = b.value /\ a.leaf < b.leaf)

JoinStep(a, b) ==
    LET lo == IF a.leaf < b.leaf THEN a ELSE b
        hi == IF a.leaf < b.leaf THEN b ELSE a
    IN  [op |-> "JOIN", inputs |-> <<lo.leaf, hi.leaf>>,
         outgoing |-> 0, change |-> lo.value + hi.value]

\* The smallest note that covers the target without dust, else the smallest
\* that covers it; as a sequence of at most one note.
BestFit(sorted, target) ==
    LET covering == SelectSeq(sorted, LAMBDA n : n.value >= target)
        clean == SelectSeq(covering, LAMBDA n : n.value - target \notin 1 .. DustFloor - 1)
        fit == IF clean # <<>> THEN clean ELSE covering
    IN  SubSeq(fit, 1, IF fit = <<>> THEN 0 ELSE 1)

\* A slip: one note too many when the largest cover the target exactly.
FewestNotesOver(sorted, target) ==
    LET sums == [k \in 0 .. Len(sorted) |->
                    ValueSum(SubSeq(sorted, Len(sorted) - k + 1, Len(sorted)))]
    IN  IF \E k \in 0 .. Len(sorted) : sums[k] > target
        THEN Min({k \in 0 .. Len(sorted) : sums[k] > target}) ELSE Len(sorted)

\* How few notes cover the target: the k largest.
FewestNotes(sorted, target) ==
    LET sums == [k \in 0 .. Len(sorted) |->
                    ValueSum(SubSeq(sorted, Len(sorted) - k + 1, Len(sorted)))]
    IN  Min({k \in 0 .. Len(sorted) : sums[k] >= target})

\* Of the runs of k neighbours in the sorted candidates that cover the target,
\* the one with the smallest sum, the first of equals.
MinimalCover(sorted, target) ==
    LET k == FewestNotes(sorted, target)
        Stretch(start) == SubSeq(sorted, start, start + k - 1)
        covering == {s \in 1 .. Len(sorted) - k + 1 : ValueSum(Stretch(s)) >= target}
        best == CHOOSE s \in covering : \A t \in covering :
                    \/ ValueSum(Stretch(s)) < ValueSum(Stretch(t))
                    \/ ValueSum(Stretch(s)) = ValueSum(Stretch(t)) /\ s <= t
    IN  Stretch(best)

\* Fold the cover by ascending leaf index; every join after the first takes
\* the output of the one before it.
Joins(cover, asset) ==
    LET ordered == SortSeq(cover, LAMBDA a, b : a.leaf < b.leaf)
        Merge(acc, n) ==
            LET step == JoinStep(acc.merged, n)
            IN  [steps |-> Append(acc.steps, step),
                 merged |-> [leaf |-> PreviousOutput, asset |-> asset, value |-> step.change]]
    IN  FoldLeft(Merge, [steps |-> <<>>, merged |-> Head(ordered)], Tail(ordered))

Refused(reason) == [ok |-> FALSE, reason |-> reason, steps |-> <<>>]

PlanSpend(notes, op, asset, target, maxSteps) ==
    LET candidates == ForAsset(notes, asset)
        single == BestFit(candidates, target)
        folded == IF single # <<>> THEN [steps |-> <<>>, merged |-> Head(single)]
                  ELSE Joins(MinimalCover(candidates, target), asset)
        steps == Append(folded.steps,
                        [op |-> op, inputs |-> <<folded.merged.leaf>>,
                         outgoing |-> target, change |-> folded.merged.value - target])
    IN  IF target <= 0 THEN Refused("NON_POSITIVE_TARGET")
        ELSE IF candidates = <<>> THEN Refused("NO_NOTES_FOR_ASSET")
        ELSE IF ValueSum(candidates) < target THEN Refused("INSUFFICIENT_TOTAL")
        ELSE IF single = <<>> /\ Len(steps) > maxSteps THEN Refused("EXCEEDS_MAX_STEPS")
        ELSE [ok |-> TRUE, reason |-> "", steps |-> steps]

\* What the wallet shows as spendable: in all, in one transaction, with a plan.
SpendableBalance(notes, asset, maxSteps) ==
    LET candidates == ForAsset(notes, asset)
        largest == SubSeq(Reverse(candidates), 1, Min({maxSteps, Len(candidates)}))
    IN  [total |-> ValueSum(candidates),
         inOneTx |-> IF candidates = <<>> THEN 0 ELSE Last(candidates).value,
         withPlan |-> ValueSum(largest)]

\* A slip: the inputs are proved in the order the plan lists them.
AsPlanned(leaves) == leaves

\* assembleJoin sorts the pair by leaf index.  A join after the first needs it: its
\* plan lists the previous output first, which is the newest leaf.
AsAssembled(leaves) == SortSeq(leaves, LAMBDA a, b : a < b)

\* Carrying out a plan: each step consumes notes that are unspent, in the ascending
\* order the join circuit asserts, and adds its change as the newest leaf.
ApplyStep(held, step, asset) ==
    LET newest == Max({n.leaf : n \in held})
        resolved == [j \in DOMAIN step.inputs |->
                        IF step.inputs[j] = PreviousOutput THEN newest ELSE step.inputs[j]]
        proved == AsAssembled(resolved)
        used == {n \in held : n.leaf \in Range(proved)}
    IN  [ok |-> /\ \A j \in 2 .. Len(proved) : proved[j - 1] < proved[j]
                /\ {n.leaf : n \in used} = Range(proved)
                /\ \A n \in used : n.asset = asset
                /\ MapThenSumSet(LAMBDA n : n.value, used) = step.outgoing + step.change,
         held |-> (held \ used) \cup {[leaf |-> newest + 1, asset |-> asset, value |-> step.change]}]
CarryOut(notes, steps, asset) ==
    FoldLeft(LAMBDA acc, step :
                LET r == ApplyStep(acc.held, step, asset)
                IN  [ok |-> acc.ok /\ r.ok, held |-> r.held],
             [ok |-> TRUE, held |-> notes], steps)
=============================================================================
