---------------------------- MODULE MCChallenges ----------------------------
(* Challenges for TLC: threads and tokens are interchangeable.             *)
EXTENDS Challenges, TLC

Symmetry == Permutations(Threads) \cup Permutations(Tokens)
=============================================================================
