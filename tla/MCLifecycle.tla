---------------------------- MODULE MCLifecycle ----------------------------
(* One watchdog, two workers, two backends of which the first accepts      *)
(* command batches, a buffer on each, and two services.                    *)
EXTENDS Lifecycle

MCLaneCount ==
    [r \in Roles |-> IF r = "worker" THEN 2 ELSE 1]
MCBufferOf == <<1, 2>>
MCRelated == <<{1}, {2}>>
=============================================================================
