--------------------------- MODULE MCFindingPages ---------------------------
EXTENDS FindingPages, TLC
ThePaths == ("x" :> "a") @@ ("y" :> "b")
TheKeys == ("x" :> "x") @@ ("y" :> "y")
=============================================================================
