---------------------------- MODULE MCLinkTable ----------------------------
(* LinkTable with one administrator and two payload tests at a time.       *)
EXTENDS LinkTable
CONSTANTS l1, l2, i1, e1, e2, a1, s1, s2
PairsDef == {{i1, e1}, {i1, e2}}
BridgePairsDef == {{1, 2}, {2, 3}}
=============================================================================
