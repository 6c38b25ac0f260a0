----------------------------- MODULE MCSessions -----------------------------
(* Sessions for TLC: browsers and request threads are interchangeable.     *)
EXTENDS Sessions, TLC

Symmetry == Permutations(Browsers) \cup Permutations(Requests)
=============================================================================
