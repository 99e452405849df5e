---------------------------- MODULE MCApprovals ----------------------------
(* Small instances of Approvals for TLC.                                    *)
EXTENDS Approvals, TLC

CONSTANTS r1, r2, a1, a2

\* Calls are interchangeable and so are approvers: sound where no liveness
\* property is checked.
Symmetric == Permutations({r1, r2}) \cup Permutations({a1, a2})
=============================================================================
