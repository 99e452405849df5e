--------------------------- MODULE MCCredentials ---------------------------
(* Small instances of Credentials for TLC.                                  *)
EXTENDS Credentials, TLC

CONSTANTS g1, g2, t1, t2, u1, u2

\* With no calls, a second registration or a second rotation races both revocations;
\* with one credential of each kind, two calls race either revocation, and one call
\* races both.
MCScenarios ==
  {Sessions \ (Auths \cup {j}) : j \in {g2, t2}}
    \cup {Sessions \ {g2, t2, s} : s \in Revokers \cup {u2}}

\* The default, and more hours than a credential lives.
MCAsked == {None, 2}

\* Calls are interchangeable, and no liveness property is checked.
Symmetric == Permutations({u1, u2})
=============================================================================
