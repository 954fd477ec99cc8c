---------------------------- MODULE MCMatchServer ----------------------------
(* MatchServer on a small instance: two serial numbers, so that the limit,   *)
(* the last serial number and the empty id are reached with few connections. *)
EXTENDS MatchServer, TLC

\* The letters of an id are only compared for equality.
TailSymmetry == Permutations(Tails)
=============================================================================
