---------------------------- MODULE MCAdapters -----------------------------
(* A small instance of Adapters for TLC. *)
EXTENDS Adapters, TLC

Symmetric == Permutations(Nics) \cup Permutations(Addrs)
=============================================================================
