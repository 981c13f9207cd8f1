---------------------------- MODULE DeviceBatches ----------------------------
(***************************************************************************)
(* DeviceManager (rt/src/device_manager.cpp), command batches of one       *)
(* backend.  Executor workers copy batches into batch slots; the           *)
(* submission lane of the backend hands them to the vendor once their      *)
(* timeline waits are complete; the service lane polls completions, fails  *)
(* batches on errors and times them out; a host thread stops it all, first *)
(* during a step (request_batch_stop) and then for good (stop).  Ordinary  *)
(* batches release a graph token of the executor, rate batches end in a    *)
(* ticket that the frame owner consumes.                                   *)
(*                                                                         *)
(* The backend has one timeline.  A batch signals the value after the last *)
(* accepted one, so that its number is batch id, sequence and signal at    *)
(* once, and the graph token is the batch's own: complete_external on      *)
(* slot.phase_index names the batch whose fields the slot then holds.      *)
(* Every access to a slot's state word is a step, except where a failed    *)
(* compare-exchange only repeats the decision on the newer value, and in   *)
(* release_rate_batch, which is one step with its count and its wake.      *)
(* Validation of commands and buffers is the choice of Reject.  Time is    *)
(* whether the deadline of a slot's batch has passed.  extension.cancel is *)
(* left out: it is a request, and the backend may finish a batch anyway.   *)
(***************************************************************************)
EXTENDS Integers, Sequences, FiniteSets

CONSTANTS
    Workers, Lane, Service, Host,   \* threads
    SlotCount,                      \* slot_count of the backend
    Families,                       \* kinds of batches a runtime may submit
    Verdicts,                       \* how the backend ends batches
    MaxBatches,                     \* bound: batches accepted
    StopInStep,                     \* stop() is also called while a step runs
    MaxFaults,                      \* bound: failed polls, malformed completions
                                    \* and refused submits
    MaxStops                        \* bound: stop() calls

Slots == 1 .. SlotCount
Batches == 1 .. MaxBatches
Threads == Workers \cup {Lane, Service, Host}
AllKinds == {"ordinary", "rate", "simulated"}
Statuses == {"ok", "error", "timeout", "canceled"}
SlotStates == {"free", "reserved", "queued", "submitting", "submitted",
               "early_ready", "owned", "completion_ready", "terminal",
               "quarantine_owned", "quarantined"}

ASSUME BatchAssumption ==
    /\ SlotCount \in Nat \ {0}
    \* a runtime dispatches all its batch phases by rate, or none
    /\ \A ks \in Families :
         ks = {"ordinary"} \/ ks \subseteq {"rate", "simulated"}
    /\ Verdicts \subseteq {"ok", "error"}
    /\ StopInStep \in BOOLEAN
    /\ MaxBatches \in Nat /\ MaxStops \in Nat /\ MaxFaults \in Nat
    /\ {Lane, Service, Host} \cap Workers = {}
    /\ Lane # Service /\ Service # Host /\ Lane # Host

VARIABLES
    kinds,                      \* the kinds this runtime submits, never changed
    slots,
    last_accepted, completed,   \* TimelineState
    count,                      \* outstanding_count_
    admission,                  \* BatchBackendState::admission is set
    open,                       \* batch_admission_open_
    batch_stopping,             \* batch_stopping_
    halting,                    \* stopping_
    woken,                      \* control.wake_sequence changed since the lane,
                                \* about to wait for that, read it
    nudged,                     \* the same of wake_sequence_ and the service lane
    poll_failure,               \* BatchBackendState::poll_failure is not ok
    faults,                     \* failures so far, bounded by MaxFaults
    running, finished,          \* the backend: batches it works on, completions it holds
    tickets,                    \* rate tickets not yet consumed
    pc, local,
    stops,                      \* stop() calls made
    reported,                   \* history: what the backend said of each batch
    applied,                    \* history: complete_external calls for each batch
    outcome                     \* history: what each ticket returned

timeline == <<last_accepted, completed>>
backend == <<running, finished>>
control == <<kinds, open, batch_stopping, halting, stops>>
failures == <<poll_failure, faults>>
wakes == <<woken, nudged>>
history == <<reported, applied, outcome>>
vars == <<slots, timeline, count, admission, control, wakes, failures,
          backend, tickets, pc, local, history>>

EmptySlot == [state |-> "free", n |-> 0, wait |-> 0, kind |-> "ordinary", due |-> FALSE,
              released |-> TRUE, early |-> "ok", valid |-> FALSE,
              terminal |-> "ok"]
Fresh == [slot |-> 0, at |-> 0, n |-> 0, seen |-> "free", status |-> "ok",
          publish |-> FALSE, release |-> FALSE, next |-> "idle",
          todo |-> {}, fail |-> "ok", delivered |-> FALSE, back |-> "idle"]
Resting(t) == IF t \in {Lane, Service} THEN "top" ELSE "idle"

Init ==
    /\ kinds \in Families
    /\ slots = [s \in Slots |-> EmptySlot]
    /\ last_accepted = 0 /\ completed = 0
    /\ count = 0
    /\ admission = FALSE
    /\ open = TRUE /\ batch_stopping = FALSE /\ halting = FALSE
    /\ stops = 0
    /\ woken = FALSE /\ nudged = FALSE
    /\ poll_failure = FALSE /\ faults = 0
    /\ running = {} /\ finished = {}
    /\ tickets = {}
    /\ pc = [t \in Threads |-> Resting(t)]
    /\ local = [t \in Threads |-> Fresh]
    /\ reported = [n \in Batches |-> {}]
    /\ applied = [n \in Batches |-> <<>>]
    /\ outcome = [n \in Batches |-> {}]

Goto(t, at) == pc' = [pc EXCEPT ![t] = at]
Set(t, l) == local' = [local EXCEPT ![t] = l]
Resume(t, next) ==
    Goto(t, next) /\ Set(t, IF next = Resting(t) THEN Fresh ELSE local[t])
Return(t) == Resume(t, Resting(t))
WakeLane == woken' = (woken \/ pc[Lane] \in {"scan", "parked"})
NudgeService == nudged' = (nudged \/ pc[Service] \in {"look", "parked"})
\* A finished batch leaves nothing behind in the locals of a scan.
Continue(t) ==
    /\ Goto(t, local[t].next)
    /\ Set(t, IF local[t].next = Resting(t) THEN Fresh
              ELSE [local[t] EXCEPT !.slot = 0, !.n = 0, !.seen = "free",
                                    !.status = "ok", !.publish = FALSE,
                                    !.release = FALSE, !.next = "idle"])
SlotTo(s, state) == slots' = [slots EXCEPT ![s].state = state]
Mine(t) == slots[local[t].slot]

\* A thread that owns slot s finishes its batch and then goes on at `next`.
Finish(t, s, status, publish, next) ==
    /\ Goto(t, "publish")
    /\ Set(t, [local[t] EXCEPT !.slot = s, !.status = status,
                               !.publish = publish, !.next = next])

-----------------------------------------------------------------------------
(* finish_batch_slot, for a thread that has moved the slot to owned.       *)

\* Mutant: the timeline is published one past the signal.
PublishNext(t) ==
    /\ pc[t] = "publish"
    /\ \E late \in BOOLEAN :
         LET b == Mine(t)
             simulated == b.kind = "simulated"
             status == IF simulated /\ local[t].status = "ok" /\ late
                         THEN "timeout" ELSE local[t].status
             publish == local[t].publish /\ (simulated => status = "ok")
         IN  /\ late => simulated
             /\ simulated /\ b.due => late
             /\ completed' = IF publish /\ completed < b.n THEN b.n + 1 ELSE completed
             /\ Set(t, [local[t] EXCEPT !.status = status, !.n = b.n,
                                        !.release = ~b.released])
             /\ slots' = [slots EXCEPT ![local[t].slot].released =
                                           @ \/ b.kind = "ordinary"]
             /\ Goto(t, IF b.kind = "ordinary" THEN "retire" ELSE "terminal")
    /\ UNCHANGED <<last_accepted, count, admission, control, wakes, failures,
                   backend, tickets, history>>

\* Mutant: a rate batch is retired like an ordinary one.
PublishRetires(t) ==
    /\ pc[t] = "publish"
    /\ \E late \in BOOLEAN :
         LET b == Mine(t)
             simulated == b.kind = "simulated"
             status == IF simulated /\ local[t].status = "ok" /\ late
                         THEN "timeout" ELSE local[t].status
             publish == local[t].publish /\ (simulated => status = "ok")
         IN  /\ late => simulated
             /\ simulated /\ b.due => late
             /\ completed' = IF publish /\ completed < b.n THEN b.n ELSE completed
             /\ Set(t, [local[t] EXCEPT !.status = status, !.n = b.n,
                                        !.release = ~b.released])
             /\ slots' = [slots EXCEPT ![local[t].slot].released =
                                           @ \/ b.kind = "ordinary"]
             /\ Goto(t, "retire")
    /\ UNCHANGED <<last_accepted, count, admission, control, wakes, failures,
                   backend, tickets, history>>

\* A simulated success past its host watchdog or logical deadline is a timeout.
\* The timeline is published, and the graph token of an ordinary batch taken
\* (retire_device_batch_slot: graph_released.exchange).
Publish(t) ==
    /\ pc[t] = "publish"
    /\ \E late \in BOOLEAN :
         LET b == Mine(t)
             simulated == b.kind = "simulated"
             status == IF simulated /\ local[t].status = "ok" /\ late
                         THEN "timeout" ELSE local[t].status
             publish == local[t].publish /\ (simulated => status = "ok")
         IN  /\ late => simulated
             /\ simulated /\ b.due => late
             /\ completed' = IF publish /\ completed < b.n THEN b.n ELSE completed
             /\ Set(t, [local[t] EXCEPT !.status = status, !.n = b.n,
                                        !.release = ~b.released])
             /\ slots' = [slots EXCEPT ![local[t].slot].released =
                                           @ \/ b.kind = "ordinary"]
             /\ Goto(t, IF b.kind = "ordinary" THEN "retire" ELSE "terminal")
    /\ UNCHANGED <<last_accepted, count, admission, control, wakes, failures,
                   backend, tickets, history>>

\* A rate batch stays in its slot until its ticket is consumed.
Terminal(t) ==
    /\ pc[t] = "terminal"
    /\ slots' = [slots EXCEPT ![local[t].slot] =
                    [@ EXCEPT !.state = "terminal", !.released = TRUE,
                              !.terminal = local[t].status]]
    /\ Continue(t)
    /\ UNCHANGED <<timeline, count, admission, control, wakes, failures,
                   backend, tickets, history>>

\* The batch is no longer counted, its slot is free, and the lane is woken, before
\* the graph hears of the batch.
Retire(t) ==
    /\ pc[t] = "retire"
    /\ count' = count - 1
    /\ Goto(t, "free")
    /\ UNCHANGED <<slots, timeline, admission, control, wakes, failures, backend,
                   tickets, local, history>>

Free(t) ==
    /\ pc[t] = "free"
    /\ slots' = [slots EXCEPT ![local[t].slot] =
                    [@ EXCEPT !.state = "free", !.due = FALSE, !.early = "ok",
                              !.valid = FALSE]]
    /\ Goto(t, "rouse")
    /\ UNCHANGED <<timeline, count, admission, control, wakes, failures, backend,
                   tickets, local, history>>

Rouse(t) ==
    /\ pc[t] = "rouse"
    /\ WakeLane
    /\ IF local[t].release THEN Goto(t, "complete") /\ UNCHANGED local
       ELSE Continue(t)
    /\ UNCHANGED <<slots, timeline, count, admission, control, nudged, failures,
                   backend, tickets, history>>

\* Mutant: the phase is read from the slot after it was freed.
CompleteCurrent(t) ==
    /\ pc[t] = "complete"
    /\ applied' = [applied EXCEPT ![Mine(t).n] = Append(@, local[t].status)]
    /\ Continue(t)
    /\ UNCHANGED <<slots, timeline, count, admission, control, wakes, failures,
                   backend, tickets, reported, outcome>>

\* executor_->complete_external with the metadata captured before the retirement.
Complete(t) ==
    /\ pc[t] = "complete"
    /\ applied' = [applied EXCEPT ![local[t].n] = Append(@, local[t].status)]
    /\ Continue(t)
    /\ UNCHANGED <<slots, timeline, count, admission, control, wakes, failures,
                   backend, tickets, reported, outcome>>

FinishStep(t) ==
    \/ Publish(t) \/ Terminal(t) \/ Retire(t) \/ Free(t) \/ Rouse(t) \/ Complete(t)

-----------------------------------------------------------------------------
(* submit_batch, called by a worker.                                       *)

\* Contention and closed admission are refusals without effect.
Admit(w) ==
    /\ pc[w] = "idle"
    /\ last_accepted < MaxBatches
    /\ open /\ ~admission
    /\ admission' = TRUE
    /\ Goto(w, "reserve")
    /\ Set(w, [Fresh EXCEPT !.slot = 1])
    /\ UNCHANGED <<slots, timeline, count, control, wakes, failures, backend,
                   tickets, history>>

\* The first slot found free is reserved; none is device_queue_full.
Reserve(w) ==
    /\ pc[w] = "reserve"
    /\ \/ /\ local[w].slot > SlotCount
          /\ admission' = FALSE
          /\ Return(w)
          /\ UNCHANGED slots
       \/ /\ local[w].slot <= SlotCount /\ Mine(w).state = "free"
          /\ SlotTo(local[w].slot, "reserved")
          /\ Goto(w, "fill")
          /\ UNCHANGED <<admission, local>>
       \/ /\ local[w].slot <= SlotCount /\ Mine(w).state # "free"
          /\ Set(w, [local[w] EXCEPT !.slot = @ + 1])
          /\ UNCHANGED <<slots, admission, pc>>
    /\ UNCHANGED <<timeline, count, control, wakes, failures, backend, tickets,
                   history>>

\* A wait, signal, buffer or command is refused, and the slot is free again.
Reject(w) ==
    /\ pc[w] = "fill"
    /\ SlotTo(local[w].slot, "free")
    /\ admission' = FALSE
    /\ Return(w)
    /\ UNCHANGED <<timeline, count, control, wakes, failures, backend, tickets,
                   history>>

\* Mutant: an accepted batch is not counted.
FillUncounted(w) ==
    /\ pc[w] = "fill"
    /\ \E wait \in 0 .. last_accepted, kind \in kinds :
         slots' = [slots EXCEPT ![local[w].slot] =
                     [EmptySlot EXCEPT !.state = "reserved", !.n = last_accepted + 1,
                                       !.wait = wait, !.kind = kind,
                                       !.released = FALSE]]
    /\ Set(w, [local[w] EXCEPT !.n = last_accepted + 1])
    /\ last_accepted' = last_accepted + 1
    /\ Goto(w, "enqueue")
    /\ UNCHANGED <<completed, count, admission, control, wakes, failures, backend,
                   tickets, history>>

\* The batch is copied into the reserved slot, and counted; a wait names an
\* accepted value.  No lane looks into a reserved slot.
Fill(w) ==
    /\ pc[w] = "fill"
    /\ \E wait \in 0 .. last_accepted, kind \in kinds :
         slots' = [slots EXCEPT ![local[w].slot] =
                     [EmptySlot EXCEPT !.state = "reserved", !.n = last_accepted + 1,
                                       !.wait = wait, !.kind = kind,
                                       !.released = FALSE]]
    /\ Set(w, [local[w] EXCEPT !.n = last_accepted + 1])
    /\ last_accepted' = last_accepted + 1
    /\ count' = count + 1
    /\ Goto(w, "enqueue")
    /\ UNCHANGED <<completed, admission, control, wakes, failures, backend,
                   tickets, history>>

Enqueue(w) ==
    /\ pc[w] = "enqueue"
    /\ SlotTo(local[w].slot, "queued")
    /\ admission' = FALSE
    /\ Goto(w, "wake")
    /\ UNCHANGED <<timeline, count, control, wakes, failures, backend,
                   tickets, local, history>>

\* Mutant: only the submission lane is woken.
WakeLaneOnly(w) ==
    /\ pc[w] = "wake"
    /\ WakeLane /\ UNCHANGED nudged
    /\ tickets' = IF kinds = {"ordinary"} THEN tickets
                  ELSE tickets \cup {[slot |-> local[w].slot, n |-> local[w].n,
                                      held |-> FALSE]}
    /\ IF batch_stopping /\ Mine(w).state = "queued"
         THEN /\ SlotTo(local[w].slot, "owned")
              /\ Finish(w, local[w].slot, "canceled", FALSE, "idle")
         ELSE Return(w) /\ UNCHANGED slots
    /\ UNCHANGED <<timeline, count, admission, control, failures, backend, history>>

\* Both lanes are woken, and the ticket of a rate batch is given out.  The slot
\* may already hold another batch.  A stop that closed admission in the meantime
\* has not seen this one.
Wake(w) ==
    /\ pc[w] = "wake"
    /\ WakeLane /\ NudgeService
    /\ tickets' = IF kinds = {"ordinary"} THEN tickets
                  ELSE tickets \cup {[slot |-> local[w].slot, n |-> local[w].n,
                                      held |-> FALSE]}
    /\ IF batch_stopping /\ Mine(w).state = "queued"
         THEN /\ SlotTo(local[w].slot, "owned")
              /\ Finish(w, local[w].slot, "canceled", FALSE, "idle")
         ELSE Return(w) /\ UNCHANGED slots
    /\ UNCHANGED <<timeline, count, admission, control, failures, backend, history>>

Submit(w) ==
    \/ Admit(w) \/ Reserve(w) \/ Reject(w) \/ Fill(w) \/ Enqueue(w) \/ Wake(w)

-----------------------------------------------------------------------------
(* The frame owner consumes the tickets of rate batches.                   *)

\* wait_rate_batch: a terminal slot is taken over, a quarantined one left where
\* it is; a slot that holds another batch is invalid_handle.
TakeTicket(k) ==
    /\ k \in tickets /\ ~k.held
    /\ LET b == slots[k.slot]
       IN  \/ /\ b.n = k.n /\ b.state = "terminal"
              /\ SlotTo(k.slot, "owned")
              /\ tickets' = (tickets \ {k}) \cup {[k EXCEPT !.held = TRUE]}
              /\ outcome' = [outcome EXCEPT ![k.n] = @ \cup {b.terminal}]
           \/ /\ b.n = k.n /\ b.state = "quarantined"
              /\ tickets' = tickets \ {k}
              /\ outcome' = [outcome EXCEPT ![k.n] = @ \cup {b.terminal}]
              /\ UNCHANGED slots
           \/ /\ b.n # k.n \/ b.state \in {"free", "reserved"}
              /\ tickets' = tickets \ {k}
              /\ outcome' = [outcome EXCEPT ![k.n] = @ \cup {"invalid"}]
              /\ UNCHANGED slots
    /\ UNCHANGED <<timeline, count, admission, control, wakes, failures,
                   backend, pc, local, reported, applied>>

\* release_rate_batch.
ReleaseTicket(k) ==
    /\ k \in tickets /\ k.held
    /\ slots[k.slot].state = "owned" /\ slots[k.slot].n = k.n
    /\ count' = count - 1
    /\ slots' = [slots EXCEPT ![k.slot] = [@ EXCEPT !.state = "free",
                                                    !.kind = "ordinary",
                                                    !.due = FALSE,
                                                    !.early = "ok",
                                                    !.valid = FALSE,
                                                    !.terminal = "ok"]]
    /\ WakeLane
    /\ tickets' = tickets \ {k}
    /\ UNCHANGED <<timeline, admission, control, nudged, failures, backend,
                   pc, local, history>>

-----------------------------------------------------------------------------
(* submission_loop.                                                        *)

\* select_device_submission_or_wait reads the wake sequence before it scans.
LaneTop ==
    /\ pc[Lane] = "top"
    /\ IF batch_stopping
         THEN Goto(Lane, "done") /\ UNCHANGED local
         ELSE Goto(Lane, "scan") /\ Set(Lane, [Fresh EXCEPT !.at = 1])
    /\ UNCHANGED <<slots, timeline, count, admission, control, wakes, failures,
                   backend, tickets, history>>

\* The queued slot with the smallest sequence, looking at one slot at a time.
\* None queued: wait for a wake, unless stopping.
LaneScan ==
    /\ pc[Lane] = "scan"
    /\ LET l == local[Lane]
           b == slots[l.at]
           better == b.state = "queued" /\ (l.slot = 0 \/ b.n < l.n)
           best == [l EXCEPT !.at = @ + 1, !.slot = IF better THEN l.at ELSE @,
                             !.n = IF better THEN b.n ELSE @]
           found == l.at = SlotCount /\ best.slot # 0
       IN  /\ Set(Lane, best)
           /\ woken' = (woken /\ ~found)
           /\ Goto(Lane, IF l.at < SlotCount THEN "scan"
                         ELSE IF found THEN "waits"
                         ELSE IF batch_stopping THEN "top" ELSE "parked")
    /\ UNCHANGED <<slots, timeline, count, admission, control, nudged, failures,
                   backend, tickets, history>>

LaneParked ==
    /\ pc[Lane] = "parked" /\ woken
    /\ woken' = FALSE
    /\ Return(Lane)
    /\ UNCHANGED <<slots, timeline, count, admission, control, nudged, failures,
                   backend, tickets, history>>

\* The waits of the batch now in the selected slot.  One that is not complete
\* makes the lane try again, and is a timeout once the deadline has passed.
LaneWaits ==
    /\ pc[Lane] = "waits"
    /\ LET b == Mine(Lane)
       IN  Resume(Lane, IF completed >= b.wait THEN "claim"
                        ELSE IF b.due THEN "expire" ELSE "top")
    /\ UNCHANGED <<slots, timeline, count, admission, control, wakes, failures,
                   backend, tickets, history>>

LaneExpire ==
    /\ pc[Lane] = "expire"
    /\ IF Mine(Lane).state = "queued"
         THEN /\ SlotTo(local[Lane].slot, "owned")
              /\ Finish(Lane, local[Lane].slot, "timeout", FALSE, "top")
         ELSE Return(Lane) /\ UNCHANGED slots
    /\ UNCHANGED <<timeline, count, admission, control, wakes, failures,
                   backend, tickets, history>>

LaneClaim ==
    /\ pc[Lane] = "claim"
    /\ IF Mine(Lane).state = "queued"
         THEN /\ SlotTo(local[Lane].slot, "submitting")
              /\ Goto(Lane, "call")
              /\ Set(Lane, [local[Lane] EXCEPT !.n = Mine(Lane).n])
         ELSE Return(Lane) /\ UNCHANGED slots
    /\ UNCHANGED <<timeline, count, admission, control, wakes, failures,
                   backend, tickets, history>>

\* extension.submit: the backend takes the batch, and may complete it before
\* the call returns, or refuses it.
LaneCall ==
    /\ pc[Lane] = "call"
    /\ \/ /\ running' = running \cup {Mine(Lane).n}
          /\ Goto(Lane, "accepted")
          /\ UNCHANGED faults
       \/ /\ faults < MaxFaults
          /\ faults' = faults + 1
          /\ Goto(Lane, "refused")
          /\ UNCHANGED running
    /\ UNCHANGED <<slots, timeline, count, admission, control, wakes, poll_failure,
                   finished, tickets, local, history>>

\* Mutant: submitted is stored whatever the state has become.
LaneStores ==
    /\ pc[Lane] = "accepted"
    /\ LET at == Mine(Lane).state
       IN  /\ CASE at = "submitting"  -> SlotTo(local[Lane].slot, "submitted")
                [] at = "early_ready" -> SlotTo(local[Lane].slot, "completion_ready")
                [] OTHER              -> SlotTo(local[Lane].slot, "submitted")
           /\ IF at = "early_ready" THEN NudgeService ELSE UNCHANGED nudged
    /\ Return(Lane)
    /\ UNCHANGED <<timeline, count, admission, control, woken, failures,
                   backend, tickets, history>>

\* The call returned ok: submitted, or a completion came first, or a timeout.
LaneAccepted ==
    /\ pc[Lane] = "accepted"
    /\ LET at == Mine(Lane).state
       IN  /\ CASE at = "submitting"  -> SlotTo(local[Lane].slot, "submitted")
                [] at = "early_ready" -> SlotTo(local[Lane].slot, "completion_ready")
                [] OTHER              -> UNCHANGED slots
           /\ IF at = "early_ready" THEN NudgeService ELSE UNCHANGED nudged
    /\ Return(Lane)
    /\ UNCHANGED <<timeline, count, admission, control, woken, failures,
                   backend, tickets, history>>

LaneRefused ==
    /\ pc[Lane] = "refused"
    /\ IF Mine(Lane).state \in {"submitting", "early_ready"}
         THEN /\ SlotTo(local[Lane].slot, "owned")
              /\ Finish(Lane, local[Lane].slot, "error", FALSE, "top")
         ELSE Return(Lane) /\ UNCHANGED slots
    /\ UNCHANGED <<timeline, count, admission, control, wakes, failures,
                   backend, tickets, history>>

LaneStep ==
    \/ LaneTop \/ LaneScan \/ LaneParked \/ LaneWaits \/ LaneExpire
    \/ LaneClaim \/ LaneCall \/ LaneAccepted \/ LaneRefused \/ FinishStep(Lane)

-----------------------------------------------------------------------------
(* The backend and time.                                                   *)

BackendFinish(n, status) ==
    /\ n \in running
    /\ running' = running \ {n}
    /\ finished' = finished \cup {[n |-> n, status |-> status]}
    /\ reported' = [reported EXCEPT ![n] = @ \cup {status}]
    /\ UNCHANGED <<slots, timeline, count, admission, control, wakes, failures,
                   tickets, pc, local, applied, outcome>>

\* The deadline of a batch passes.  One that passes later is seen only by
\* finish_batch_slot, in Publish.
Expire(s) ==
    /\ ~slots[s].due
    /\ slots[s].state \in {"queued", "submitting", "submitted", "early_ready"}
    /\ slots' = [slots EXCEPT ![s].due = TRUE]
    /\ UNCHANGED <<timeline, count, admission, control, wakes, failures,
                   backend, tickets, pc, local, history>>

-----------------------------------------------------------------------------
(* fail_backend_batches and poll_batch_completions, called by the service  *)
(* lane and, in stop(), by the host.                                       *)

\* The scan over the slots goes on at `loop`, and ends at `exit`.
Onward(t, loop, exit) == IF local[t].at < SlotCount THEN loop ELSE exit
Stepped(l) == [l EXCEPT !.seen = "free", !.at = IF @ < SlotCount THEN @ + 1 ELSE 1]
NextSlot(t, loop, exit) == Goto(t, Onward(t, loop, exit)) /\ Set(t, Stepped(local[t]))

Failing(l, status, back) == [l EXCEPT !.at = 1, !.fail = status, !.back = back,
                                      !.delivered = FALSE]
StartFail(t, status, back) ==
    Goto(t, "fail_look") /\ Set(t, Failing(local[t], status, back))

FailLook(t) ==
    /\ pc[t] = "fail_look"
    /\ LET seen == slots[local[t].at].state
       IN  IF seen \in {"queued", "submitting", "submitted", "completion_ready"}
             THEN Goto(t, "fail_act") /\ Set(t, [local[t] EXCEPT !.seen = seen])
             ELSE NextSlot(t, "fail_look", local[t].back)
    /\ UNCHANGED <<slots, timeline, count, admission, control, wakes, failures,
                   backend, tickets, history>>

\* A batch inside submit gets an early failure.  When that exchange is lost the
\* newer state decides; the early record it wrote is not read again.
FailAct(t) ==
    /\ pc[t] = "fail_act"
    /\ LET l == local[t]
           b == slots[l.at]
           want == IF l.seen = "submitting" THEN b.state ELSE l.seen
           finish == [Stepped(l) EXCEPT !.slot = l.at,
                                        !.next = Onward(t, "fail_look", l.back)]
       IN  CASE l.seen = "submitting" /\ b.state = "submitting" ->
                    /\ slots' = [slots EXCEPT ![l.at] =
                          [@ EXCEPT !.state = "early_ready", !.early = l.fail,
                                    !.valid = FALSE]]
                    /\ Goto(t, Onward(t, "fail_look", l.back))
                    /\ Set(t, [Stepped(l) EXCEPT !.delivered = TRUE])
             [] want \in {"queued", "submitted"} /\ b.state = want ->
                    /\ SlotTo(l.at, "owned")
                    /\ Goto(t, "publish")
                    /\ Set(t, [finish EXCEPT !.status = l.fail, !.publish = FALSE,
                                             !.delivered = TRUE])
             [] want = "completion_ready" /\ b.state = want ->
                    /\ SlotTo(l.at, "owned")
                    /\ Goto(t, "publish")
                    /\ Set(t, [finish EXCEPT !.status = b.early, !.publish = b.valid])
             [] OTHER -> NextSlot(t, "fail_look", l.back) /\ UNCHANGED slots
    /\ UNCHANGED <<timeline, count, admission, control, wakes, failures,
                   backend, tickets, history>>

PollDone(t) == IF t = Service THEN "due" ELSE "shutdown"
EndPoll(t) == Goto(t, PollDone(t)) /\ Set(t, [Fresh EXCEPT !.at = 1])

\* Every completion must name a batch in flight, or none is applied.
Judge(t, done) ==
    IF \A c \in done : \E s \in Slots :
           /\ slots[s].n = c.n
           /\ slots[s].state \in {"submitting", "submitted", "quarantine_owned",
                                  "quarantined"}
      THEN IF done = {} THEN EndPoll(t)
           ELSE Goto(t, "process") /\ Set(t, [Fresh EXCEPT !.todo = done])
      ELSE Goto(t, "fail_look") /\ Set(t, Failing(Fresh, "error", PollDone(t)))

\* A failure that no batch has taken yet comes before anything new.
PollRetained(t) ==
    /\ pc[t] = "poll" /\ poll_failure
    /\ StartFail(t, "error", "retained")
    /\ UNCHANGED <<slots, timeline, count, admission, control, wakes, failures,
                   backend, tickets, history>>

\* A completion record that fails its validation, or repeats another one.
Malformed == [n |-> 0, status |-> "error"]

\* extension.poll fails, or hands out completions.  A failure still unclaimed
\* goes before their validation.
Ask(t) ==
    /\ pc[t] = "ask" \/ (pc[t] = "poll" /\ ~poll_failure)
    /\ \/ /\ faults < MaxFaults
          /\ faults' = faults + 1
          /\ poll_failure' = TRUE
          /\ StartFail(t, "error", "unclaimed")
          /\ UNCHANGED finished
       \/ \E done \in SUBSET finished, bad \in SUBSET {Malformed} :
            /\ faults + Cardinality(bad) <= MaxFaults
            /\ faults' = faults + Cardinality(bad)
            /\ finished' = finished \ done
            /\ IF poll_failure
                 THEN /\ Goto(t, "fail_look")
                      /\ Set(t, Failing([Fresh EXCEPT !.todo = done \cup bad],
                                        "error", "rechecked"))
                 ELSE Judge(t, done \cup bad)
            /\ UNCHANGED poll_failure
    /\ UNCHANGED <<slots, timeline, count, admission, control, wakes, running,
                   tickets, history>>

\* The retained failure is forgotten once a batch has taken it.
PollFailed(t) ==
    /\ pc[t] \in {"retained", "unclaimed", "rechecked"}
    /\ poll_failure' = (poll_failure /\ ~local[t].delivered)
    /\ UNCHANGED faults
    /\ CASE local[t].delivered \/ pc[t] = "unclaimed" -> EndPoll(t)
         [] ~local[t].delivered /\ pc[t] = "retained" -> Goto(t, "ask") /\ Set(t, Fresh)
         [] ~local[t].delivered /\ pc[t] = "rechecked" -> Judge(t, local[t].todo)
    /\ UNCHANGED <<slots, timeline, count, admission, control, wakes, backend,
                   tickets, history>>

\* Mutant: a completion inside submit is applied at once.
ProcessEarly(t) ==
    /\ pc[t] = "process"
    /\ \E c \in local[t].todo :
         LET here == {s \in Slots : slots[s].n = c.n
                                    /\ slots[s].state \in {"submitting", "submitted"}}
             left == local[t].todo \ {c}
             next == IF left = {} THEN PollDone(t) ELSE "process"
             rest == [Fresh EXCEPT !.todo = left, !.at = 1]
         IN  \/ here = {} /\ Goto(t, next) /\ Set(t, rest) /\ UNCHANGED slots
             \/ \E s \in here :
                  IF FALSE
                    THEN /\ slots' = [slots EXCEPT ![s] =
                              [@ EXCEPT !.state = "early_ready",
                                        !.early = c.status, !.valid = TRUE]]
                         /\ Goto(t, next) /\ Set(t, rest)
                    ELSE /\ SlotTo(s, "owned")
                         /\ Goto(t, "publish")
                         /\ Set(t, [rest EXCEPT !.slot = s, !.status = c.status,
                                                !.publish = TRUE, !.next = next])
    /\ UNCHANGED <<timeline, count, admission, control, wakes, failures,
                   backend, tickets, history>>

\* process_batch_completion.
Process(t) ==
    /\ pc[t] = "process"
    /\ \E c \in local[t].todo :
         LET here == {s \in Slots : slots[s].n = c.n
                                    /\ slots[s].state \in {"submitting", "submitted"}}
             left == local[t].todo \ {c}
             next == IF left = {} THEN PollDone(t) ELSE "process"
             rest == [Fresh EXCEPT !.todo = left, !.at = 1]
         IN  \/ here = {} /\ Goto(t, next) /\ Set(t, rest) /\ UNCHANGED slots
             \/ \E s \in here :
                  IF slots[s].state = "submitting"
                    THEN /\ slots' = [slots EXCEPT ![s] =
                              [@ EXCEPT !.state = "early_ready",
                                        !.early = c.status, !.valid = TRUE]]
                         /\ Goto(t, next) /\ Set(t, rest)
                    ELSE /\ SlotTo(s, "owned")
                         /\ Goto(t, "publish")
                         /\ Set(t, [rest EXCEPT !.slot = s, !.status = c.status,
                                                !.publish = TRUE, !.next = next])
    /\ UNCHANGED <<timeline, count, admission, control, wakes, failures,
                   backend, tickets, history>>

PollStep(t) ==
    \/ FailLook(t) \/ FailAct(t) \/ PollRetained(t) \/ Ask(t) \/ PollFailed(t)
    \/ Process(t) \/ FinishStep(t)

-----------------------------------------------------------------------------
(* service_loop.                                                           *)

\* With nothing outstanding, the wake sequence is read before the count is looked
\* at again.
ServiceTop ==
    /\ pc[Service] = "top"
    /\ IF halting THEN Goto(Service, "done") /\ UNCHANGED local
       ELSE IF count = 0 THEN Goto(Service, "look") /\ UNCHANGED local
       ELSE Goto(Service, "ready") /\ Set(Service, [Fresh EXCEPT !.at = 1])
    /\ UNCHANGED <<slots, timeline, count, admission, control, wakes, failures,
                   backend, tickets, history>>

ServiceIdle ==
    /\ \/ /\ pc[Service] = "look"
          /\ LET again == halting \/ count # 0
             IN  /\ Goto(Service, IF again THEN "top" ELSE "parked")
                 /\ nudged' = (nudged /\ ~again)
       \/ pc[Service] = "parked" /\ nudged /\ nudged' = FALSE /\ Goto(Service, "top")
    /\ UNCHANGED <<slots, timeline, count, admission, control, woken, failures,
                   backend, tickets, local, history>>

\* Mutant: an early completion counts as a success.
ServiceReadyOk ==
    /\ pc[Service] = "ready"
    /\ LET l == local[Service]
       IN  IF slots[l.at].state = "completion_ready"
             THEN /\ SlotTo(l.at, "owned")
                  /\ Goto(Service, "publish")
                  /\ Set(Service, [Stepped(l) EXCEPT
                        !.slot = l.at, !.status = "ok",
                        !.publish = slots[l.at].valid,
                        !.next = Onward(Service, "ready", "poll")])
             ELSE NextSlot(Service, "ready", "poll") /\ UNCHANGED slots
    /\ UNCHANGED <<timeline, count, admission, control, wakes, failures,
                   backend, tickets, history>>

\* Mutant: an early failure publishes the timeline.
ServiceReadyValid ==
    /\ pc[Service] = "ready"
    /\ LET l == local[Service]
       IN  IF slots[l.at].state = "completion_ready"
             THEN /\ SlotTo(l.at, "owned")
                  /\ Goto(Service, "publish")
                  /\ Set(Service, [Stepped(l) EXCEPT
                        !.slot = l.at, !.status = slots[l.at].early,
                        !.publish = TRUE,
                        !.next = Onward(Service, "ready", "poll")])
             ELSE NextSlot(Service, "ready", "poll") /\ UNCHANGED slots
    /\ UNCHANGED <<timeline, count, admission, control, wakes, failures,
                   backend, tickets, history>>

\* Early completions are finished first.
ServiceReady ==
    /\ pc[Service] = "ready"
    /\ LET l == local[Service]
       IN  IF slots[l.at].state = "completion_ready"
             THEN /\ SlotTo(l.at, "owned")
                  /\ Goto(Service, "publish")
                  /\ Set(Service, [Stepped(l) EXCEPT
                        !.slot = l.at, !.status = slots[l.at].early,
                        !.publish = slots[l.at].valid,
                        !.next = Onward(Service, "ready", "poll")])
             ELSE NextSlot(Service, "ready", "poll") /\ UNCHANGED slots
    /\ UNCHANGED <<timeline, count, admission, control, wakes, failures,
                   backend, tickets, history>>

\* A core poll that fails leaves the batch poll out of this pass.
ServiceSkip ==
    /\ pc[Service] = "poll"
    /\ EndPoll(Service)
    /\ UNCHANGED <<slots, timeline, count, admission, control, wakes, failures,
                   backend, tickets, history>>

TimesOut(b) ==
    /\ \/ b.state = "submitted"
       \/ b.state = "submitting" /\ b.kind # "ordinary"
       \/ b.state \in {"queued", "early_ready"} /\ b.kind = "simulated"
    /\ b.due

\* The timeout scan looks at state, kind and deadline of a slot ...
DueLook ==
    /\ pc[Service] = "due"
    /\ LET b == slots[local[Service].at]
       IN  IF TimesOut(b)
             THEN /\ Goto(Service, "due_act")
                  /\ Set(Service, [local[Service] EXCEPT !.seen = b.state])
             ELSE NextSlot(Service, "due", "top")
    /\ UNCHANGED <<slots, timeline, count, admission, control, wakes, failures,
                   backend, tickets, history>>

\* ... and then claims it if its state is still the same.
DueAct ==
    /\ pc[Service] = "due_act"
    /\ LET l == local[Service]
           b == slots[l.at]
       IN  CASE b.state = l.seen /\ b.kind = "ordinary" ->
                    /\ SlotTo(l.at, "owned")
                    /\ Goto(Service, "publish")
                    /\ Set(Service, [Stepped(l) EXCEPT
                          !.slot = l.at, !.status = "timeout", !.publish = FALSE,
                          !.next = Onward(Service, "due", "top")])
             [] b.state = l.seen /\ b.kind # "ordinary" ->
                    /\ SlotTo(l.at, "quarantine_owned")
                    /\ Goto(Service, "quarantine")
                    /\ UNCHANGED local
             [] OTHER -> NextSlot(Service, "due", "top") /\ UNCHANGED slots
    /\ UNCHANGED <<timeline, count, admission, control, wakes, failures,
                   backend, tickets, history>>

\* finish_rate_quarantine.
Quarantine ==
    /\ pc[Service] = "quarantine"
    /\ slots' = [slots EXCEPT ![local[Service].at] =
                    [@ EXCEPT !.state = "quarantined", !.released = TRUE,
                              !.terminal = "timeout", !.valid = FALSE]]
    /\ NextSlot(Service, "due", "top")
    /\ UNCHANGED <<timeline, count, admission, control, wakes, failures,
                   backend, tickets, history>>

ServiceStep ==
    \/ ServiceTop \/ ServiceIdle \/ ServiceReady \/ ServiceSkip \/ DueLook \/ DueAct \/ Quarantine
    \/ PollStep(Service)

-----------------------------------------------------------------------------
(* A host thread stops the devices: request_batch_stop while a step runs,  *)
(* DeviceManager::stop when none does.                                     *)

\* The step has returned: its graph tokens and tickets are all consumed.
StepOver ==
    /\ \A w \in Workers : pc[w] = "idle"
    /\ tickets = {}
    /\ kinds = {"ordinary"} => \A n \in 1 .. last_accepted : applied[n] # <<>>

StopBegin ==
    /\ pc[Host] = "idle"
    /\ stops < MaxStops
    /\ stops' = stops + 1
    /\ open' = FALSE /\ batch_stopping' = TRUE
    /\ Goto(Host, "stop_look")
    /\ \E whole \in BOOLEAN :
         /\ IF whole THEN StepOver ELSE StopInStep
         /\ Set(Host, [Fresh EXCEPT !.at = 1, !.back = IF whole THEN "join" ELSE "idle"])
    /\ UNCHANGED <<slots, timeline, count, admission, kinds, halting, wakes,
                   failures, backend, tickets, history>>

StopLook ==
    /\ pc[Host] = "stop_look"
    /\ LET l == local[Host]
       IN  IF slots[l.at].state \in {"free", "reserved"}
             THEN NextSlot(Host, "stop_look", "stop_wake")
             ELSE /\ Goto(Host, "stop_act")
                  /\ Set(Host, [l EXCEPT !.seen = slots[l.at].state])
    /\ UNCHANGED <<slots, timeline, count, admission, control, wakes, failures,
                   backend, tickets, history>>

\* A queued batch is canceled; of any other the graph token is taken.
StopAct ==
    /\ pc[Host] = "stop_act"
    /\ LET l == local[Host]
           b == slots[l.at]
       IN  CASE l.seen = "queued" /\ b.state = "queued" ->
                    /\ SlotTo(l.at, "owned")
                    /\ Goto(Host, "publish")
                    /\ Set(Host, [Stepped(l) EXCEPT
                          !.slot = l.at, !.status = "canceled", !.publish = FALSE,
                          !.next = Onward(Host, "stop_look", "stop_wake")])
             [] l.seen # "queued" /\ b.kind = "ordinary" /\ ~b.released ->
                    /\ slots' = [slots EXCEPT ![l.at].released = TRUE]
                    /\ Goto(Host, "stop_complete")
                    /\ UNCHANGED local
             [] OTHER -> NextSlot(Host, "stop_look", "stop_wake") /\ UNCHANGED slots
    /\ UNCHANGED <<timeline, count, admission, control, wakes, failures,
                   backend, tickets, history>>

\* complete_external(slot.phase_index, device_canceled).
StopComplete ==
    /\ pc[Host] = "stop_complete"
    /\ applied' = [applied EXCEPT ![slots[local[Host].at].n] = Append(@, "canceled")]
    /\ NextSlot(Host, "stop_look", "stop_wake")
    /\ UNCHANGED <<slots, timeline, count, admission, control, wakes, failures,
                   backend, tickets, reported, outcome>>

\* Mutant: the submission lane is not woken.
StopSilent ==
    /\ pc[Host] = "stop_wake"
    /\ UNCHANGED woken
    /\ Goto(Host, local[Host].back) /\ Set(Host, Fresh)
    /\ UNCHANGED <<slots, timeline, count, admission, control, nudged, failures,
                   backend, tickets, history>>

StopWake ==
    /\ pc[Host] = "stop_wake"
    /\ WakeLane
    /\ Goto(Host, local[Host].back) /\ Set(Host, Fresh)
    /\ UNCHANGED <<slots, timeline, count, admission, control, nudged, failures,
                   backend, tickets, history>>

\* The submission lane is joined before what is left is canceled.
StopJoin ==
    /\ pc[Host] = "join"
    /\ pc[Lane] = "done"
    /\ StartFail(Host, "canceled", "quiesce")
    /\ UNCHANGED <<slots, timeline, count, admission, control, wakes, failures,
                   backend, tickets, history>>

\* quiesce_lane, of which a retried stop has nothing left to do.
StopQuiesce ==
    /\ \/ /\ pc[Host] = "quiesce" /\ ~halting
          /\ halting' = TRUE /\ NudgeService
          /\ Goto(Host, "await")
          /\ UNCHANGED <<count, local>>
       \/ /\ pc[Host] = "quiesce" /\ halting
          /\ Goto(Host, "poll") /\ Set(Host, Fresh)
          /\ UNCHANGED <<halting, nudged, count>>
       \/ /\ pc[Host] = "await" /\ pc[Service] = "done"
          /\ count' = 0
          /\ Goto(Host, "poll") /\ Set(Host, Fresh)
          /\ UNCHANGED <<halting, nudged>>
    /\ UNCHANGED <<slots, timeline, admission, kinds, open, batch_stopping, stops,
                   woken, failures, backend, tickets, history>>

\* shutdown_backends: a backend that still works on a batch refuses, and
\* ownership is retained for a retry; then release_rate_slots_after_shutdown.
StopShutdown ==
    /\ pc[Host] = "shutdown"
    /\ \/ /\ running = {}
          /\ slots' = [s \in Slots |->
                IF slots[s].kind = "ordinary" THEN slots[s]
                ELSE [slots[s] EXCEPT !.state = "free", !.kind = "ordinary"]]
          /\ Goto(Host, "stopped") /\ Set(Host, Fresh)
       \/ Return(Host) /\ UNCHANGED slots
    /\ UNCHANGED <<timeline, count, admission, control, wakes, failures,
                   backend, tickets, history>>

HostStep ==
    \/ StopBegin \/ StopLook \/ StopAct \/ StopComplete \/ StopWake \/ StopJoin \/ StopQuiesce
    \/ StopShutdown \/ PollStep(Host)

Next ==
    \/ \E w \in Workers : Submit(w) \/ FinishStep(w)
    \/ \E k \in tickets : TakeTicket(k) \/ ReleaseTicket(k)
    \/ LaneStep
    \/ \E n \in running, status \in Verdicts : BackendFinish(n, status)
    \/ \E s \in Slots : Expire(s)
    \/ ServiceStep
    \/ HostStep

Spec == Init /\ [][Next]_vars

\* Every thread runs, vendor calls return, tickets are consumed and time passes.
\* Nothing is assumed of the backend: it may never finish a batch.
FairSpec ==
    /\ Spec
    /\ WF_vars(LaneStep) /\ WF_vars(ServiceStep)
    /\ WF_vars(HostStep /\ pc[Host] # "idle")
    /\ \A w \in Workers : WF_vars(FinishStep(w) \/ (Submit(w) /\ pc[w] # "idle"))
    /\ WF_vars(\E k \in tickets : TakeTicket(k) \/ ReleaseTicket(k))
    /\ \A s \in Slots : WF_vars(Expire(s))
-----------------------------------------------------------------------------
\* Type invariant of the slots, the timeline and the backend.
TypeOK ==
    /\ kinds \in Families
    /\ slots \in [Slots -> [state : SlotStates, n : 0 .. MaxBatches,
                            wait : 0 .. MaxBatches, kind : AllKinds, due : BOOLEAN,
                            released : BOOLEAN, early : Statuses, valid : BOOLEAN,
                            terminal : Statuses]]
    /\ last_accepted \in 0 .. MaxBatches /\ completed \in 0 .. last_accepted
    /\ count \in 0 .. SlotCount
    /\ running \subseteq 1 .. last_accepted
    /\ \A c \in finished : c.n \in 1 .. last_accepted \ running
    /\ stops \in 0 .. MaxStops /\ faults \in 0 .. MaxFaults

\* docs/evidence/M17-03: every way a batch can end releases "graph ownership at
\* most once" (the graph_released exchanges of retire_device_batch_slot and of
\* request_batch_stop).
AppliedOnce == \A n \in Batches : Len(applied[n]) <= 1

\* outstanding_count_ counts the slots in use, until quiesce_lane clears it: a
\* slot is in use before its batch is visible to any lane, and no longer only when
\* a thread is about to free it.  So the service lane, which sleeps at zero, never
\* leaves a batch behind.
CountExact ==
    ~halting => count = Cardinality({s \in Slots : slots[s].state # "free"})
                        - Cardinality({t \in Threads : pc[t] \in {"fill", "free"}})

\* A graph token or a ticket says ok only of a batch that the backend completed
\* with ok, whatever failures, timeouts and stops it was raced by.
SuccessIsReported ==
    \A n \in Batches :
        "ok" \in outcome[n] \cup {applied[n][i] : i \in 1 .. Len(applied[n])}
            => "ok" \in reported[n]

\* docs/evidence/M17-03: failures "do not publish a synthetic timeline completion".
\* A value of the timeline is reached only when the backend completed its batch.
TimelineHonest == completed > 0 => reported[completed] # {}

\* The slot whose batch the vendor's submit is reading is neither freed nor used
\* for another batch before the submission lane is back from the call.
VendorStable ==
    pc[Lane] \in {"call", "accepted", "refused"} =>
        /\ Mine(Lane).n = local[Lane].n
        /\ Mine(Lane).state \in {"submitting", "early_ready", "quarantine_owned",
                                 "quarantined"}

\* Every ticket ends once and with the outcome of its own batch: wait_rate_batch
\* never finds the slot freed or reused.
TicketExact ==
    \A n \in Batches : Cardinality(outcome[n]) <= 1 /\ "invalid" \notin outcome[n]

\* A batch is handed to the vendor only when the timeline values it waits for are
\* complete (the waits of submission_loop).  Does not hold: the lane claims the
\* slot it selected by its state alone, and the slot may have a new batch.
WaitsHonoured == pc[Lane] = "call" => completed >= Mine(Lane).wait

\* docs/device_backend.md, "rate quarantined": never reused during execution.
QuarantineHolds ==
    [][\A s \in Slots :
         slots[s].state \in {"quarantine_owned", "quarantined"} /\ pc[Host] # "shutdown"
           => slots'[s].state \in {"quarantine_owned", "quarantined"}
              /\ slots'[s].n = slots[s].n]_vars

\* The service lane times out only a batch whose own deadline has passed.  Holds
\* for ordinary batches only: the claim compares the slot's state alone, which a
\* rate batch that has just moved into the slot may share.
TimeoutIsDue ==
    [][pc[Service] = "due_act" /\ pc'[Service] \in {"publish", "quarantine"}
         => slots[local[Service].at].due]_vars

\* Every accepted batch ends: its graph token is released, or its ticket answered.
BatchEnds ==
    \A n \in Batches :
        (last_accepted >= n) ~> (applied[n] # <<>> \/ outcome[n] # {})

\* stop() never waits for ever: it returns, or succeeds.
StopReturns == (pc[Host] # "idle") ~> (pc[Host] \in {"idle", "stopped"})
=============================================================================
