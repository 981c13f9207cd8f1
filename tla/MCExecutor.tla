----------------------------- MODULE MCExecutor -----------------------------
(* A diamond of phases 0 -> {1, 2} -> 3, two workers and a device lane.  Runs *)
(* follow each other without a bound.                                        *)
EXTENDS Executor

CONSTANTS frame, w1, w2, d1

MCWorkers == {w1, w2}
MCLanes == {d1}
MCSuccessors == [p \in Phases |-> CASE p = 0 -> <<1, 2>>
                                    [] p \in {1, 2} -> <<3>>
                                    [] OTHER -> <<>>]
MCAssignment == [p \in Phases |-> IF p % 2 = 0 THEN w1 ELSE w2]
=============================================================================
