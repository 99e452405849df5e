------------------------------ MODULE MCBudget ------------------------------
(* Small instances of Budget for TLC.                                       *)
EXTENDS Budget, TLC

CONSTANTS b1, b2, c1, c2, c3, v1

\* Two calls of an agent with a budget of its own, one of another agent, and
\* the budget of their organisation, which is viewed.
MCApplies == (c1 :> <<b1, b2>>) @@ (c2 :> <<b1, b2>>) @@ (c3 :> <<b2>>)
MCCost    == (c1 :> 2) @@ (c2 :> 1) @@ (c3 :> 1)
MCLimit   == (b1 :> 1) @@ (b2 :> 2)
MCWatched == v1 :> b2

\* Three calls of one agent against one budget.
OneApplies == [c \in {c1, c2, c3} |-> <<b1>>]
OneCost    == [c \in {c1, c2, c3} |-> 1]
OneLimit   == b1 :> 1
NoneWatched == <<>>
=============================================================================
