------------------------------ MODULE RootRing ------------------------------
(***************************************************************************)
(* The ring buffer of recent Merkle roots in the pool account              *)
(* (programs/kakure_pool/src/state.rs).  What a root is is left to the     *)
(* modules that use it; zero is the content of a slot never written.       *)
(***************************************************************************)
EXTENDS Integers

CONSTANT RootRingSize   \* ROOT_RING, 256 slots in the program

ASSUME RootRingAssumption == RootRingSize \in Nat \ {0}

Slots == 0 .. RootRingSize - 1

\* The roots and the cursor of a freshly allocated (zeroed) pool account.
EmptyRing(zero) == [roots |-> [s \in Slots |-> zero], cursor |-> 0]

\* Variant: a modulus one too small, so that the last slot is never used.
NextCursorShort(c) == IF c >= RootRingSize - 2 THEN 0 ELSE c + 1

\* root_cursor.wrapping_add(1): the cursor has exactly one value per slot.
NextCursor(c) == IF c = RootRingSize - 1 THEN 0 ELSE c + 1

RootAt(ring, s) == ring.roots[s]

\* Variant: newest root first, the others shifted.
PushRootShifting(ring, root) ==
    [roots  |-> [s \in Slots |-> IF s = 0 THEN root ELSE ring.roots[s - 1]],
     cursor |-> 0]

PushRoot(ring, root) ==
    [roots  |-> [ring.roots EXCEPT ![ring.cursor] = root],
     cursor |-> NextCursor(ring.cursor)]

\* How many pushes ago slot s was last written, counting the newest as 0.
Age(ring, s) ==
    IF s < ring.cursor THEN ring.cursor - 1 - s
                       ELSE ring.cursor - 1 - s + RootRingSize
=============================================================================
