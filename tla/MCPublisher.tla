---------------------------- MODULE MCPublisher -----------------------------
(* Values of Publisher's constants for TLC: two findings at two places, of *)
(* which one may be published; the more severe one has no line.            *)
EXTENDS Publisher

CONSTANTS c1, c2

TwoFindings == 1..2
Places == <<"lined", "unlined">>
Ranks == <<1, 2>>
=============================================================================
