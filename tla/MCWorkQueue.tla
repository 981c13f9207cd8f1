---------------------------- MODULE MCWorkQueue ----------------------------
(* Small instance of WorkQueue: three threads, a ring of two cells that is *)
(* used three times over.                                                  *)
EXTENDS WorkQueue, TLC

CONSTANTS t1, t2, t3, i1, i2

MCThreads == {t1, t2, t3}
MCItems == {i1, i2}
Symmetry == Permutations(MCThreads) \cup Permutations(MCItems)
=============================================================================
