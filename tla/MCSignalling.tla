----------------------------- MODULE MCSignalling -----------------------------
(* Signalling with a few clients.  Clients are interchangeable as far as the  *)
(* sets of those that may quit or lose their connection are.                  *)
EXTENDS Signalling, TLC

ClientSymmetry == Permutations(Quitters) \cup Permutations(Clients \ Quitters)
=============================================================================
