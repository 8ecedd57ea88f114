------------------------------ MODULE MCLeanIMT ------------------------------
(***************************************************************************)
(* LeanIMT on a tree of depth 3.  The hash is the free constructor: two    *)
(* nodes are equal only if they were built from the same parts.            *)
(***************************************************************************)
EXTENDS LeanIMT

MCHash3(left, right, level) == <<left, right, level>>
=============================================================================
