------------------------------ MODULE MCTraces ------------------------------
(* Small instances of Traces for TLC.                                       *)
EXTENDS Traces

CONSTANTS a1, a2, n1, n2, i1, i2

\* One jump out of range on either side, and one that may be in range.
MCJumps == {-1, 1, 2}

\* No liveness property is checked.
Symmetric == Permutations({a1, a2}) \cup Permutations({n1, n2}) \cup Permutations({i1, i2})
=============================================================================
