---------------------------- MODULE MCAppControl ----------------------------
(* AppControl for TLC: processes and threads are interchangeable.  Data    *)
(* that are fresh no more are read by nobody, and how long ago the last    *)
(* change was does not matter once it is more than TTL + ScanTime: states  *)
(* that differ in nothing else are one.                                    *)
EXTENDS AppControl, TLC

Symmetry == Permutations(Pids) \cup Permutations(Threads)

View ==
  <<clock, proc, scanning, scan, h, killed,
    IF Fresh(cache) THEN cache ELSE NoPid,
    IF changed <= clock - TTL - ScanTime THEN 0 ELSE changed>>
=============================================================================
