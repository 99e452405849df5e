---------------------------- MODULE ApprovalGate ----------------------------
(***************************************************************************)
(* What a human-in-the-loop gate promises, with nothing said of databases, *)
(* events or timers: each call is sent at most once, only after a grant    *)
(* that is never withdrawn, and never after it was refused.                *)
(***************************************************************************)
CONSTANT Requests

VARIABLES granted, sent, refused

gate == <<granted, sent, refused>>

Init == granted = {} /\ sent = {} /\ refused = {}

Grant(r) ==
  /\ granted' = granted \cup {r}
  /\ UNCHANGED <<sent, refused>>

Send(r) ==
  /\ r \in granted
  /\ r \notin sent \cup refused
  /\ sent' = sent \cup {r}
  /\ UNCHANGED <<granted, refused>>

Refuse(r) ==
  /\ r \notin sent
  /\ refused' = refused \cup {r}
  /\ UNCHANGED <<granted, sent>>

Next == \E r \in Requests : Grant(r) \/ Send(r) \/ Refuse(r)

Spec == Init /\ [][Next]_gate
=============================================================================
