------------------------------ MODULE MCWallet ------------------------------
(***************************************************************************)
(* Wallet on a small instance: which points are odd, and what the notes    *)
(* are worth.                                                              *)
(***************************************************************************)
EXTENDS Wallet

SomeOdd == [f \in Families |-> IF f = "self" THEN {1} ELSE {0}]
Worth == [f \in Families |-> [i \in Indices |->
            IF f = "self" THEN <<1, 0, 5, 6, 2>>[i + 1] ELSE <<0, 3, 1, 5, 4>>[i + 1]]]
=============================================================================
