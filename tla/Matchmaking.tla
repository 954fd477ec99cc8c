----------------------------- MODULE Matchmaking -----------------------------
(***************************************************************************)
(* What the match server promises, without sockets, serial numbers, wire   *)
(* messages or error codes: sessions come online, an online session that   *)
(* has no partner may be paired with another one, and a pair is dissolved  *)
(* only because one of its two sessions leaves.                            *)
(*                                                                         *)
(* MatchServer implements this specification, see MatchServer!Promise.     *)
(***************************************************************************)
CONSTANT Users

VARIABLES online,   \* the sessions the service knows
          partner   \* the pairing, a partial function on online

vars == <<online, partner>>

\* A matching: symmetric, irreflexive, and only between sessions online.
IsMatching(p, on) ==
  /\ DOMAIN p \subseteq on
  /\ \A u \in DOMAIN p : /\ p[u] \in DOMAIN p
                         /\ p[u] # u
                         /\ p[p[u]] = u

TypeOK == /\ online \subseteq Users
          /\ IsMatching(partner, online)

Init == /\ online = {}
        /\ partner = << >>

Join(u) == /\ u \notin online
           /\ online' = online \cup {u}
           /\ UNCHANGED partner

Pair(u, v) == /\ {u, v} \subseteq online \ DOMAIN partner
              /\ u # v
              /\ partner' = [w \in DOMAIN partner \cup {u, v} |->
                               IF w = u THEN v ELSE IF w = v THEN u ELSE partner[w]]
              /\ UNCHANGED online

\* The sessions of S leave together: the server closes two sessions in one
\* handler when both of its writes fail, and all of them when it stops.
Leave(S) ==
  LET paired == {u \in DOMAIN partner : u \notin S /\ partner[u] \notin S}
  IN  /\ S # {}
      /\ online' = online \ S
      /\ partner' = [u \in paired |-> partner[u]]

Next == \/ \E u \in Users : Join(u)
        \/ \E u, v \in Users : Pair(u, v)
        \/ \E S \in SUBSET online : Leave(S)

Spec == Init /\ [][Next]_vars
=============================================================================
