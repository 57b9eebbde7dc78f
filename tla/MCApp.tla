-------------------------------- MODULE MCApp --------------------------------
(* A small instance of App for TLC. *)
EXTENDS App, TLC

Symmetry == Permutations(Clients) \cup Permutations(Usernames)
=============================================================================
