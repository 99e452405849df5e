------------------------------ MODULE MCTrust ------------------------------
(* Small instances of Trust for TLC.                                        *)
EXTENDS Trust, TLC

CONSTANTS v1, v2, p1, p2

\* Keys are replaced in both; in one tokens are verified by their holders'
\* peers, in the other they answer a challenge.
MCScenarios == {Issuers \cup Verifications, Issuers \cup Responses}

\* No liveness property is checked.
Symmetric == Permutations({v1, v2}) \cup Permutations({p1, p2})
=============================================================================
