----------------------------- MODULE Negotiation -----------------------------
(***************************************************************************)
(* What an agent and a controller promise each other: the agent describes  *)
(* itself first and the controller answers, a peer is ready only when both *)
(* know each other's description, and once it is gone it is gone.          *)
(***************************************************************************)
CONSTANTS Agent, Controller

Peers == {Agent, Controller}

VARIABLES described, \* the peers that took the description of the other one
          ready,     \* the peers that are connected and left the match server
          gone       \* the peers that ended

vars == <<described, ready, gone>>

Init == described = {} /\ ready = {} /\ gone = {}

\* The answer follows the offer.
Describe(p) == /\ p \notin described \cup gone
               /\ p = Agent => Controller \in described
               /\ described' = described \cup {p}
               /\ UNCHANGED <<ready, gone>>

Connect(p) == /\ p \notin ready \cup gone
              /\ described = Peers
              /\ ready' = ready \cup {p}
              /\ UNCHANGED <<described, gone>>

\* A peer ends when the connection is lost, or before it ever took a description.
End(p) == /\ p \notin gone
          /\ described = Peers \/ p \notin described
          /\ gone' = gone \cup {p}
          /\ UNCHANGED <<described, ready>>

Next == \E p \in Peers : Describe(p) \/ Connect(p) \/ End(p)

Spec == Init /\ [][Next]_vars
=============================================================================
