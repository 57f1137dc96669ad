--------------------------- MODULE MCTeamworkSync ---------------------------
(* Entries at the end of one month and the start of the next.               *)
EXTENDS TeamworkSync, TLC

CONSTANTS e1, e2, e3, w1
MonthEdge == (e1 :> 2) @@ (e2 :> 3) @@ (e3 :> 3)
ByDate == (e1 :> 1) @@ (e2 :> 2) @@ (e3 :> 3)

=============================================================================
