---------------------------- MODULE CommitmentLog ----------------------------
(***************************************************************************)
(* What the rest of the system relies on when it speaks of the commitment  *)
(* tree: an append-only log of leaves, of which the pool remembers the     *)
(* RootRingSize most recent lengths.  A root stands for the prefix it      *)
(* commits to, so the abstract root of the first k leaves is k itself and  *)
(* 0 is the never-written slot.  LeanIMT.tla shows that the hashed tree of *)
(* merkle.rs implements this; ShieldedPool.tla is written over it.         *)
(***************************************************************************)
EXTENDS Sequences, RootRing

CONSTANTS
    Leaves,         \* the non-zero leaves that can be inserted
    Capacity        \* 2^TREE_DEPTH

VARIABLES
    log,            \* every leaf inserted so far, in insertion order
    ring            \* the ring buffer, holding prefix lengths

Init ==
    /\ log = << >>
    /\ ring = EmptyRing(0)

Append1(leaf) ==
    /\ Len(log) < Capacity
    /\ log' = Append(log, leaf)
    /\ ring' = PushRoot(ring, Len(log) + 1)

Next == \E leaf \in Leaves : Append1(leaf)

Spec == Init /\ [][Next]_<<log, ring>>
=============================================================================
