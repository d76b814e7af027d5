--------------------------- MODULE MCVersionLabel ---------------------------
(* A small instance of VersionLabel: two vectors, three threads, and a     *)
(* counter of one bit, so that it wraps within the calls of a behaviour.   *)
EXTENDS VersionLabel, TLC
CONSTANTS v1, v2, t1, t2, t3

MCKeys     == {v1, v2}
MCThreads  == {t1, t2, t3}
MCSymmetry == Permutations(MCKeys) \cup Permutations(MCThreads)
=============================================================================
