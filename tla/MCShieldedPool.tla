---------------------------- MODULE MCShieldedPool ----------------------------
(***************************************************************************)
(* ShieldedPool on small instances: the constants that are functions.      *)
(***************************************************************************)
EXTENDS ShieldedPool

CONSTANTS usd, eur, verifierA

OneAsset == [m \in Mints |-> 1]
\* The asset ids of usd and of another mint collide; eur has its own.
Colliding == [m \in Mints |-> IF m = eur THEN 2 ELSE 1]
NoFees == [m \in Mints |-> 0]
EurFee == [m \in Mints |-> IF m = eur THEN 1 ELSE 0]
OneEach == [m \in Mints |-> 1]
TwoEach == [m \in Mints |-> 2]
AllVerifierA == [c \in Circuits |-> verifierA]
=============================================================================
