------------------------------ MODULE Watchdog ------------------------------
(***************************************************************************)
(* WatchdogMonitor (rt/src/watchdog_monitor.cpp).  The frame thread arms   *)
(* the monitor with a fresh token when a step starts and completes it when *)
(* the step ends; a service lane sets the fired bit of the token once its  *)
(* deadline has passed.  One word, active_state_, holds token and bit.     *)
(*                                                                         *)
(* Time is two clocks: the runtime clock of the frame and the steady clock *)
(* of the lane.  ClockMax stands for 2^64 - 1, where checked_time_add      *)
(* fails and the service deadline saturates.  notify_one is sent without   *)
(* the mutex, so it reaches the lane only if that is blocked; wait_for     *)
(* also ends after kMaximumParkInterval.  Tokens of 63 bits do not wrap.   *)
(***************************************************************************)
EXTENDS Integers

CONSTANTS
    Timeout,        \* watchdog_timeout_ns
    ClockMax,
    MaxArms         \* bound: steps of the frame thread that arm the monitor

ASSUME TimeAssumption == Timeout \in Nat \ {0} /\ ClockMax \in Nat
ASSUME ArmsAssumption == MaxArms \in Nat

VARIABLES
    clock, steady,                      \* the two clocks
    active, fired,                      \* active_state_: token (0: none) and kFiredBit
    runtime_deadline, service_deadline,
    next_token,
    started, stop_requested,
    fpc, finish, seen, report,          \* the frame thread and its locals
    lpc, lane,                          \* the lane and the word it loaded
    due,                                \* history: when the last arm is over, never
                                        \* saturated
    lane_fired                          \* history: the lane fired the last arm

word == <<active, fired>>
deadlines == <<runtime_deadline, service_deadline, next_token, due>>
control == <<started, stop_requested>>
frame == <<fpc, finish, seen, report>>
vars == <<clock, steady, word, deadlines, control, frame, lpc, lane, lane_fired>>

Nothing == [token |-> 0, fired |-> FALSE]
Word == [token |-> active, fired |-> fired]
Earlier(a, b) == IF a < b THEN a ELSE b

Init ==
    /\ clock = 0 /\ steady = 0
    /\ active = 0 /\ fired = FALSE
    /\ runtime_deadline = 0 /\ service_deadline = 0 /\ due = 0
    /\ next_token = 0
    /\ started = FALSE /\ stop_requested = FALSE
    /\ fpc = "idle" /\ finish = 0 /\ seen = Nothing /\ report = FALSE
    /\ lpc = "off" /\ lane = Nothing
    /\ lane_fired = FALSE

\* notify_one: a lane that is not blocked does not hear it.
Notify == lpc' = IF lpc = "blocked" THEN "predicate" ELSE lpc

-----------------------------------------------------------------------------
Start ==
    /\ fpc = "idle" /\ ~started /\ lpc = "off"
    /\ stop_requested' = FALSE
    /\ active' = 0 /\ fired' = FALSE
    /\ started' = TRUE
    /\ lpc' = "load"
    /\ UNCHANGED <<clock, steady, deadlines, frame, lane, lane_fired>>

\* Mutant of Stop: the lane is not told.
StopUnrequested ==
    /\ fpc = "idle" /\ started
    /\ started' = FALSE
    /\ active' = 0 /\ fired' = FALSE
    /\ Notify
    /\ fpc' = "join"
    /\ UNCHANGED <<clock, steady, deadlines, stop_requested, finish, seen, report, lane, lane_fired>>

\* stop, then cleanup_and_join: the caller waits for the lane in Join.
Stop ==
    /\ fpc = "idle" /\ started
    /\ started' = FALSE
    /\ stop_requested' = TRUE
    /\ active' = 0 /\ fired' = FALSE
    /\ Notify
    /\ fpc' = "join"
    /\ UNCHANGED <<clock, steady, deadlines, finish, seen, report, lane, lane_fired>>

Join ==
    /\ fpc = "join" /\ lpc = "off"
    /\ fpc' = "idle"
    /\ UNCHANGED <<clock, steady, word, deadlines, control, finish, seen, report,
                   lpc, lane, lane_fired>>

\* Mutant of Arm: a service deadline past the end of the clock wraps.
ArmWraps ==
    /\ fpc = "idle" /\ started
    /\ next_token < MaxArms
    /\ clock + Timeout <= ClockMax
    /\ next_token' = next_token + 1
    /\ runtime_deadline' = clock + Timeout
    /\ service_deadline' = (steady + Timeout) % (ClockMax + 1)
    /\ due' = steady + Timeout
    /\ fpc' = "publish"
    /\ UNCHANGED <<clock, steady, word, control, finish, seen, report, lpc, lane, lane_fired>>

\* step: the deadlines of a new token are stored ...
Arm ==
    /\ fpc = "idle" /\ started
    /\ next_token < MaxArms
    /\ clock + Timeout <= ClockMax
    /\ next_token' = next_token + 1
    /\ runtime_deadline' = clock + Timeout
    /\ service_deadline' = Earlier(ClockMax, steady + Timeout)
    /\ due' = steady + Timeout
    /\ fpc' = "publish"
    /\ UNCHANGED <<clock, steady, word, control, finish, seen, report, lpc, lane, lane_fired>>

\* ... before the token is.
Publish ==
    /\ fpc = "publish"
    /\ active' = next_token /\ fired' = FALSE
    /\ lane_fired' = FALSE
    /\ Notify
    /\ fpc' = "run"
    /\ UNCHANGED <<clock, steady, deadlines, control, finish, seen, report, lane>>

\* The graph has run: finish_ns is read and complete is called with it.
Finish ==
    /\ fpc = "run"
    /\ finish' = clock
    /\ report' = FALSE
    /\ fpc' = "try_fire"
    /\ UNCHANGED <<clock, steady, word, deadlines, control, seen, lpc, lane, lane_fired>>

\* try_fire
TryFire ==
    /\ fpc = "try_fire"
    /\ fired' = (fired \/ (finish >= runtime_deadline /\ active = next_token))
    /\ fpc' = "read"
    /\ UNCHANGED <<clock, steady, active, deadlines, control, finish, seen, report,
                   lpc, lane, lane_fired>>

Read ==
    /\ fpc = "read"
    /\ seen' = Word
    /\ fpc' = "exchange"
    /\ UNCHANGED <<clock, steady, word, deadlines, control, finish, report, lpc, lane, lane_fired>>

\* Mutant of Exchange: the word is overwritten without comparing it.
ExchangeStores ==
    /\ fpc = "exchange"
    /\ report' = (seen.token = next_token /\ seen.fired)
    /\ active' = 0 /\ fired' = FALSE
    /\ fpc' = "notify"
    /\ UNCHANGED <<clock, steady, deadlines, control, finish, seen, lpc, lane, lane_fired>>

\* The loop of complete: note the bit, then exchange the word for 0.  The weak
\* exchange may fail and reloads the word.
Exchange ==
    /\ fpc = "exchange"
    /\ IF seen.token # next_token
       THEN fpc' = "notify" /\ UNCHANGED <<word, seen, report>>
       ELSE /\ report' = (report \/ seen.fired)
            /\ \/ /\ seen = Word
                  /\ active' = 0 /\ fired' = FALSE
                  /\ fpc' = "notify"
                  /\ UNCHANGED seen
               \/ /\ seen' = Word
                  /\ UNCHANGED <<word, fpc>>
    /\ UNCHANGED <<clock, steady, deadlines, control, finish, lpc, lane, lane_fired>>

Return ==
    /\ fpc = "notify"
    /\ Notify
    /\ fpc' = "idle"
    /\ UNCHANGED <<clock, steady, word, deadlines, control, finish, seen, report, lane, lane_fired>>

-----------------------------------------------------------------------------
\* run: leave on a stop request, else load the word.
LaneLoad ==
    /\ lpc = "load"
    /\ IF stop_requested
       THEN lpc' = "off" /\ UNCHANGED lane
       ELSE /\ lane' = Word
            /\ lpc' = IF active = 0 \/ fired THEN "predicate" ELSE "deadline"
    /\ UNCHANGED <<clock, steady, word, deadlines, control, frame, lane_fired>>

\* Load the deadline and the clock: fire, or wait for the rest of the time.
LaneDeadline ==
    /\ lpc = "deadline"
    /\ lpc' = IF steady >= service_deadline THEN "fire" ELSE "predicate"
    /\ UNCHANGED <<clock, steady, word, deadlines, control, frame, lane, lane_fired>>

\* Mutant of LaneFire: the bit is set without comparing the token.
LaneFireAny ==
    /\ lpc = "fire"
    /\ fired' = TRUE
    /\ lane_fired' = TRUE
    /\ lpc' = "load"
    /\ UNCHANGED <<clock, steady, active, deadlines, control, frame, lane>>

LaneFire ==
    /\ lpc = "fire"
    /\ IF Word = lane
       THEN fired' = TRUE /\ lane_fired' = TRUE
       ELSE UNCHANGED <<fired, lane_fired>>
    /\ lpc' = "load"
    /\ UNCHANGED <<clock, steady, active, deadlines, control, frame, lane>>

\* wait_for: the predicate, then the block in which a notification is heard.
LanePredicate ==
    /\ lpc = "predicate"
    /\ lpc' = IF stop_requested \/ Word # lane THEN "load" ELSE "block"
    /\ UNCHANGED <<clock, steady, word, deadlines, control, frame, lane, lane_fired>>

LaneBlock ==
    /\ lpc = "block"
    /\ lpc' = "blocked"
    /\ UNCHANGED <<clock, steady, word, deadlines, control, frame, lane, lane_fired>>

\* Mutant of LaneTimeout: the lane waits until the predicate holds.
LaneWaitsOn ==
    /\ lpc = "blocked"
    /\ lpc' = "predicate"
    /\ UNCHANGED <<clock, steady, word, deadlines, control, frame, lane, lane_fired>>

\* The wait has lasted kMaximumParkInterval, or the time to the deadline.
LaneTimeout ==
    /\ lpc = "blocked"
    /\ lpc' = "load"
    /\ UNCHANGED <<clock, steady, word, deadlines, control, frame, lane, lane_fired>>

-----------------------------------------------------------------------------
Tick ==
    /\ \/ clock < ClockMax /\ clock' = clock + 1 /\ UNCHANGED steady
       \/ steady < ClockMax /\ steady' = steady + 1 /\ UNCHANGED clock
    /\ UNCHANGED <<word, deadlines, control, frame, lpc, lane, lane_fired>>

FrameStep == Start \/ Stop \/ Join \/ Arm \/ Publish \/ Finish \/ TryFire \/ Read
             \/ Exchange \/ Return
LaneStep == LaneLoad \/ LaneDeadline \/ LaneFire \/ LanePredicate \/ LaneBlock \/ LaneTimeout
Next == FrameStep \/ LaneStep \/ Tick

\* The lane is scheduled and its timed wait ends; a join returns when it can.
\* Nothing is assumed of the frame thread: its callbacks may hang.
Fairness == WF_vars(LaneStep) /\ WF_vars(Join)

Spec == Init /\ [][Next]_vars
FairSpec == Spec /\ Fairness

-----------------------------------------------------------------------------
\* Type invariant of the monitor, the frame thread and the lane.
TypeOK ==
    /\ clock \in 0 .. ClockMax /\ steady \in 0 .. ClockMax
    /\ active \in Nat /\ fired \in BOOLEAN
    /\ runtime_deadline \in 0 .. ClockMax /\ service_deadline \in 0 .. ClockMax
    /\ due \in 0 .. ClockMax + Timeout
    /\ next_token \in Nat
    /\ started \in BOOLEAN /\ stop_requested \in BOOLEAN
    /\ fpc \in {"idle", "join", "publish", "run", "try_fire", "read", "exchange", "notify"}
    /\ finish \in 0 .. ClockMax
    /\ seen \in [token : Nat, fired : BOOLEAN]
    /\ report \in BOOLEAN
    /\ lpc \in {"off", "load", "deadline", "fire", "predicate", "block", "blocked"}
    /\ lane \in [token : Nat, fired : BOOLEAN]
    /\ lane_fired \in BOOLEAN

\* The timeout of the last arm is over on the steady clock, or would be only
\* past the end of that clock, which has been reached.
Over == steady >= due \/ steady = ClockMax

\* A step is never reported before its time: the bit is set only when the
\* timeout of this very arm is over, or the step itself ended at or after its
\* runtime deadline.  A lane that decided to fire for an earlier step cannot hit
\* the next one, and a deadline past the end of the clock (arm saturates it) does
\* not become an early one.
NeverEarly ==
    fired => Over \/ (fpc # "run" /\ finish >= runtime_deadline)

\* Between steps the monitor is disarmed: no late lane revives a completed arm.
Disarmed ==
    fpc \in {"idle", "join", "publish", "notify"} => active = 0 /\ ~fired

\* complete reports an expiry exactly when there was one: the lane fired this
\* arm, or the step ended at or after its deadline; never lost in the exchange.
OneShot ==
    fpc = "notify" => (report <=> lane_fired \/ finish >= runtime_deadline)

\* A step that hangs past its deadline is noticed by the lane, although a
\* notification sent without the mutex can be lost.
ExpiryNoticed ==
    (fpc = "run" /\ steady >= service_deadline) ~> (fired \/ fpc # "run")

\* stop returns: the lane leaves its loop even if it misses the notification.
StopReturns == fpc = "join" ~> fpc = "idle"
=============================================================================
