----------------------------- MODULE MCWatchdog -----------------------------
(* A few steps of the frame thread between starts and stops; both clocks     *)
(* run to ClockMax, so arming at the end of the clock domain happens too.    *)
EXTENDS Watchdog
=============================================================================
