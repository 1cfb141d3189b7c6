---------------------------- MODULE MCGuardedLive ----------------------------
(* Intents are interchangeable: no order is distinguished by the model. *)
EXTENDS GuardedLive, TLC

Symmetric == Permutations(Intents) \cup Permutations(Workers)
=============================================================================
