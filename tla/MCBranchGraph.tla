--------------------------- MODULE MCBranchGraph ---------------------------
(* Values of BranchGraph's constants for TLC: a history of two commits and *)
(* one beside it.                                                          *)
EXTENDS BranchGraph, TLC

TheAncestors == ("c1" :> {"c1"}) @@ ("c2" :> {"c1", "c2"}) @@ ("d3" :> {"d3"})
TheSequence == ("c1" :> 1) @@ ("c2" :> 2) @@ ("d3" :> 3)
TheTips == ("dev" :> "c1") @@ ("main" :> "c2")
TheRequests == "m1" :> <<"topic", "master">>
=============================================================================
