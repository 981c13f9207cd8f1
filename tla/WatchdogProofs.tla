--------------------------- MODULE WatchdogProofs ---------------------------
(* The safety invariants of Watchdog, for every timeout, clock domain and    *)
(* number of steps.                                                          *)
EXTENDS Watchdog, TLAPS

Armed == {"run", "try_fire", "read", "exchange"}

\* The word in the hands of the frame thread: it holds the current token while
\* a step runs, and the bit says what complete is going to report.
FrameInv ==
    /\ fpc \in Armed => active = next_token /\ next_token # 0
    /\ fpc \in {"run", "try_fire"} => (fired <=> lane_fired)
    /\ fpc \in {"read", "exchange"} => (fired <=> lane_fired \/ finish >= runtime_deadline)
    /\ fpc \in {"try_fire", "read"} => ~report
    /\ fpc = "exchange" => /\ seen.token = next_token
                           /\ seen.fired => fired
                           /\ report => fired

\* The lane works on a token that was published, and its decision to fire the
\* current token was made with the deadline of that token.
LaneInv ==
    /\ lane.token <= next_token
    /\ fpc = "publish" => lane.token < next_token
    /\ lpc \in {"deadline", "fire"} => lane.token # 0 /\ ~lane.fired
    /\ (lpc = "fire" /\ lane.token = next_token) => Over

WatchdogInv ==
    TypeOK /\ NeverEarly /\ Disarmed /\ OneShot /\ FrameInv /\ LaneInv
    /\ service_deadline = Earlier(ClockMax, due)

USE DEF word, deadlines, control, frame

\* The inductive invariant holds initially and is kept by every step.
LEMMA InvInit == Init => WatchdogInv
<1> SUFFICES ASSUME Init PROVE WatchdogInv
  OBVIOUS
<1> USE TimeAssumption, ArmsAssumption DEF Init, Nothing
<1>1. TypeOK
  <2>1. 0 \in Nat /\ 0 \in 0 .. ClockMax /\ 0 \in 0 .. ClockMax + Timeout OBVIOUS
  <2>2. QED BY <2>1, Zenon DEF TypeOK
<1>2. NeverEarly /\ Disarmed /\ OneShot BY DEF NeverEarly, Disarmed, OneShot
<1>3. FrameInv /\ LaneInv BY DEF FrameInv, LaneInv, Armed
<1>4. service_deadline = Earlier(ClockMax, due) BY DEF Earlier
<1>5. QED BY <1>1, <1>2, <1>3, <1>4 DEF WatchdogInv

LEMMA InvNext == WatchdogInv /\ [Next]_vars => WatchdogInv'
<1> SUFFICES ASSUME WatchdogInv, [Next]_vars PROVE WatchdogInv'
  OBVIOUS
<1> USE TimeAssumption, ArmsAssumption
    DEF WatchdogInv, TypeOK, NeverEarly, Disarmed, OneShot, FrameInv, LaneInv, Armed,
        Word, Nothing, Notify, Over
<1>1. CASE Start
  <2>1. TypeOK' BY <1>1, Zenon DEF Start
  <2>2. NeverEarly' BY <1>1 DEF Start
  <2>3. Disarmed' BY <1>1 DEF Start
  <2>4. OneShot' BY <1>1 DEF Start
  <2>5. FrameInv' BY <1>1 DEF Start
  <2>6. LaneInv' BY <1>1 DEF Start
  <2>7. (service_deadline = Earlier(ClockMax, due))' BY <1>1 DEF Start
  <2>8. QED BY <2>1, <2>2, <2>3, <2>4, <2>5, <2>6, <2>7
<1>2. CASE Stop
  <2>1. TypeOK' BY <1>2, Zenon DEF Stop
  <2>2. NeverEarly' BY <1>2 DEF Stop
  <2>3. Disarmed' BY <1>2 DEF Stop
  <2>4. OneShot' BY <1>2 DEF Stop
  <2>5. FrameInv' BY <1>2 DEF Stop
  <2>6. LaneInv' BY <1>2 DEF Stop
  <2>7. (service_deadline = Earlier(ClockMax, due))' BY <1>2 DEF Stop
  <2>8. QED BY <2>1, <2>2, <2>3, <2>4, <2>5, <2>6, <2>7
<1>3. CASE Join BY <1>3 DEF Join
<1>4. CASE Arm BY <1>4 DEF Arm, Earlier
<1>5. CASE Publish
  <2>1. TypeOK' BY <1>5, Zenon DEF Publish
  <2>2. NeverEarly' BY <1>5 DEF Publish
  <2>3. Disarmed' BY <1>5 DEF Publish
  <2>4. OneShot' BY <1>5 DEF Publish
  <2>5. FrameInv' BY <1>5 DEF Publish
  <2>6. LaneInv' BY <1>5 DEF Publish
  <2>7. (service_deadline = Earlier(ClockMax, due))' BY <1>5 DEF Publish
  <2>8. QED BY <2>1, <2>2, <2>3, <2>4, <2>5, <2>6, <2>7
<1>6. CASE Finish
  <2>1. TypeOK' BY <1>6, Zenon DEF Finish
  <2>2. NeverEarly' BY <1>6 DEF Finish
  <2>3. Disarmed' BY <1>6 DEF Finish
  <2>4. OneShot' BY <1>6 DEF Finish
  <2>5. FrameInv' BY <1>6 DEF Finish
  <2>6. LaneInv' BY <1>6 DEF Finish
  <2>7. (service_deadline = Earlier(ClockMax, due))' BY <1>6 DEF Finish
  <2>8. QED BY <2>1, <2>2, <2>3, <2>4, <2>5, <2>6, <2>7
<1>7. CASE TryFire
  <2>1. TypeOK' BY <1>7 DEF TryFire
  <2>2. NeverEarly' BY <1>7 DEF TryFire
  <2>3. Disarmed' BY <1>7 DEF TryFire
  <2>4. OneShot' BY <1>7 DEF TryFire
  <2>5. FrameInv' BY <1>7, Zenon DEF TryFire
  <2>6. LaneInv' BY <1>7 DEF TryFire
  <2>7. (service_deadline = Earlier(ClockMax, due))' BY <1>7 DEF TryFire
  <2>8. QED BY <2>1, <2>2, <2>3, <2>4, <2>5, <2>6, <2>7
<1>8. CASE Read BY <1>8 DEF Read
<1>9. CASE Exchange
  <2>1. TypeOK'
    <3>1. Word \in [token : Nat, fired : BOOLEAN] BY Zenon
    <3>2. report' \in BOOLEAN /\ seen' \in [token : Nat, fired : BOOLEAN]
      BY <1>9, <3>1, Zenon DEF Exchange
    <3>3. active' \in Nat /\ fired' \in BOOLEAN
      <4>1. 0 \in Nat OBVIOUS
      <4>2. QED BY <1>9, <4>1, Zenon DEF Exchange
    <3>4. fpc' \in {fpc, "notify"} BY <1>9, Zenon DEF Exchange
    <3>5. QED BY <1>9, <3>2, <3>3, <3>4, Zenon DEF Exchange
  <2>2. NeverEarly' BY <1>9, Zenon DEF Exchange
  <2>3. Disarmed' BY <1>9 DEF Exchange
  <2>4. OneShot' BY <1>9 DEF Exchange
  <2>5. FrameInv' BY <1>9 DEF Exchange
  <2>6. LaneInv' BY <1>9 DEF Exchange
  <2>7. (service_deadline = Earlier(ClockMax, due))' BY <1>9 DEF Exchange
  <2>8. QED BY <2>1, <2>2, <2>3, <2>4, <2>5, <2>6, <2>7
<1>10. CASE Return BY <1>10 DEF Return
<1>11. CASE LaneLoad BY <1>11 DEF LaneLoad
<1>12. CASE LaneDeadline BY <1>12 DEF LaneDeadline, Earlier
<1>13. CASE LaneFire
  <2>1. TypeOK' BY <1>13, Zenon DEF LaneFire
  <2>2. NeverEarly'
    <3>1. CASE Word = lane
      <4>1. active = lane.token BY <3>1
      <4>2. active # 0 BY <1>13, <4>1 DEF LaneFire
      <4>3. fpc \in Armed BY <4>2
      <4>4. Over BY <1>13, <4>1, <4>3 DEF LaneFire
      <4>5. QED BY <1>13, <4>4 DEF LaneFire
    <3>2. CASE Word # lane BY <1>13, <3>2, Zenon DEF LaneFire
    <3>3. QED BY <3>1, <3>2
  <2>3. Disarmed' BY <1>13 DEF LaneFire
  <2>4. OneShot' BY <1>13 DEF LaneFire
  <2>5. FrameInv' BY <1>13 DEF LaneFire
  <2>6. LaneInv' BY <1>13 DEF LaneFire
  <2>7. (service_deadline = Earlier(ClockMax, due))' BY <1>13 DEF LaneFire
  <2>8. QED BY <2>1, <2>2, <2>3, <2>4, <2>5, <2>6, <2>7
<1>14. CASE LanePredicate BY <1>14 DEF LanePredicate
<1>15. CASE LaneBlock BY <1>15 DEF LaneBlock
<1>16. CASE LaneTimeout BY <1>16 DEF LaneTimeout
<1>17. CASE Tick BY <1>17 DEF Tick
<1>18. CASE UNCHANGED vars BY <1>18 DEF vars
<1>19. QED
  BY <1>1, <1>2, <1>3, <1>4, <1>5, <1>6, <1>7, <1>8, <1>9, <1>10, <1>11, <1>12, <1>13,
     <1>14, <1>15, <1>16, <1>17, <1>18 DEF Next, FrameStep, LaneStep

\* The monitor keeps its inductive invariant in every behaviour.
THEOREM InvHolds == Spec => []WatchdogInv
  BY InvInit, InvNext, PTL DEF Spec

\* Every variable of the monitor stays in its type.
THEOREM WatchdogTyped == Spec => []TypeOK
  BY InvHolds, PTL DEF WatchdogInv

\* The lane never fires a step before the deadline of that step, whatever
\* decision it took for an earlier one.
THEOREM WatchdogNeverEarly == Spec => []NeverEarly
  BY InvHolds, PTL DEF WatchdogInv

\* Between steps the word is 0: complete leaves nothing that can fire later.
THEOREM WatchdogDisarmed == Spec => []Disarmed
  BY InvHolds, PTL DEF WatchdogInv

\* complete reports an expiry exactly when the lane or the clock found one.
THEOREM WatchdogOneShot == Spec => []OneShot
  BY InvHolds, PTL DEF WatchdogInv
=============================================================================
