----------------------------- MODULE DeviceSlots -----------------------------
(***************************************************************************)
(* DeviceManager (rt/src/device_manager.cpp), core submissions: executor   *)
(* workers submit device phases to backends through a fixed table of       *)
(* outstanding slots, and the service lane polls the backends, matches     *)
(* completions to slots by submission id and hands them to the executor.   *)
(* A backend may complete a submission before submit() has returned to the *)
(* worker (the submitting / early-ready handshake).                        *)
(*                                                                         *)
(* Every access to a slot's state word is a step, and so is the read of    *)
(* slot.phase_index that finalize_completion makes after it.  Submission   *)
(* ids are unique in the code; the model reuses an id once nothing refers  *)
(* to it.  Command validation happens before a slot is taken and is left   *)
(* out.  The wake_sequence_ word is the flag "changed since it was read".  *)
(***************************************************************************)
EXTENDS Integers, Sequences, FiniteSets

CONSTANTS
    Workers,
    Slots,          \* outstanding_slots_
    BackendCount,
    Phases,
    Ids,            \* submission ids
    None

Backends == 1 .. BackendCount
Results == {"ok", "error"}
SlotStates == {"free", "owned", "submitting", "submitted", "early_ready"}

ASSUME BackendAssumption == BackendCount \in Nat \ {0}

VARIABLES
    slots,        \* per slot: state, id, backend, phase, early
    count,        \* outstanding_count_
    woken,        \* wake_sequence_ changed since the lane read it
    running,      \* per backend: accepted submissions it works on
    finished,     \* per backend: completions it has not handed out
    wpc, worker,  \* per worker: place in submit, and its locals
    lpc, lane,    \* the service lane: place in service_loop, and its locals
    issued,       \* history, per id: the phase and backend it was issued for
    events,       \* history, per id: the events emitted
    applied,      \* history, per id: complete_external calls made for it
    reported      \* history, per id: statuses its backend reported

device == <<running, finished>>
vars == <<slots, count, woken, device, wpc, worker, lpc, lane,
          issued, events, applied, reported>>

NotIssued == [phase |-> None, backend |-> 1]
Idle == [slot |-> None, id |-> None, backend |-> 1, status |-> "ok"]
Resting == [backend |-> 1, todo |-> {}, slot |-> None, id |-> None,
            status |-> "ok", left |-> {}, seen |-> None]

Init ==
    /\ slots = [s \in Slots |-> [state |-> "free", id |-> None, backend |-> 1,
                                 phase |-> None, early |-> "ok"]]
    /\ count = 0
    /\ woken = FALSE
    /\ running = [b \in Backends |-> {}]
    /\ finished = [b \in Backends |-> {}]
    /\ wpc = [w \in Workers |-> "idle"]
    /\ worker = [w \in Workers |-> Idle]
    /\ lpc = "top"
    /\ lane = Resting
    /\ issued = [i \in Ids |-> NotIssued]
    /\ events = [i \in Ids |-> {}]
    /\ applied = [i \in Ids |-> <<>>]
    /\ reported = [i \in Ids |-> {}]

InUse(i) ==
    \/ \E s \in Slots : slots[s].state # "free" /\ slots[s].id = i
    \/ \E b \in Backends : i \in running[b] \cup finished[b]
    \/ \E w \in Workers : worker[w].id = i
    \/ i = lane.id \/ i \in lane.todo

WGoto(w, at) == wpc' = [wpc EXCEPT ![w] = at]
SlotTo(s, state) == slots' = [slots EXCEPT ![s].state = state]
\* The fields of a free slot are dead, except for phase (see CompleteExternal).
Free(s) == slots' = [slots EXCEPT ![s] = [@ EXCEPT !.state = "free", !.id = None,
                                                   !.backend = 1, !.early = "ok"]]

-----------------------------------------------------------------------------
\* submit: acquire_outstanding.  No free slot is device_queue_full.  The history
\* of ids that nothing refers to is dropped here.
Acquire(w, s, p, b, i) ==
    /\ wpc[w] = "idle"
    /\ slots[s].state = "free"
    /\ ~InUse(i)
    /\ SlotTo(s, "owned")
    /\ worker' = [worker EXCEPT ![w] = [slot |-> s, id |-> i, backend |-> b, status |-> "ok"]]
    /\ WGoto(w, "fill")
    /\ issued' = [j \in Ids |-> CASE j = i -> [phase |-> p, backend |-> b]
                                   [] j # i /\ InUse(j) -> issued[j]
                                   [] OTHER -> NotIssued]
    /\ events' = [j \in Ids |-> IF j = i \/ ~InUse(j) THEN {} ELSE events[j]]
    /\ applied' = [j \in Ids |-> IF j = i \/ ~InUse(j) THEN <<>> ELSE applied[j]]
    /\ reported' = [j \in Ids |-> IF j = i \/ ~InUse(j) THEN {} ELSE reported[j]]
    /\ UNCHANGED <<count, woken, device, lpc, lane>>

\* The slot's fields are written, then it is published as Submitting.
Fill(w) ==
    /\ wpc[w] = "fill"
    /\ LET i == worker[w].id
       IN  slots' = [slots EXCEPT ![worker[w].slot] =
               [@ EXCEPT !.state = "submitting", !.id = i,
                         !.backend = worker[w].backend, !.phase = issued[i].phase]]
    /\ WGoto(w, "call")
    /\ UNCHANGED <<count, woken, device, worker, lpc, lane,
                   issued, events, applied, reported>>

\* The backend's submit accepts or rejects; it may complete from now on.
Call(w) ==
    /\ wpc[w] = "call"
    /\ LET b == worker[w].backend
       IN  \/ /\ running' = [running EXCEPT ![b] = @ \cup {worker[w].id}]
              /\ WGoto(w, "account")
           \/ WGoto(w, "reject") /\ UNCHANGED running
    /\ UNCHANGED <<slots, count, woken, finished, worker, lpc, lane,
                   issued, events, applied, reported>>

\* Mutant of Reject: a rejected submission is taken off the count.
RejectCounted(w) ==
    /\ wpc[w] = "reject"
    /\ Free(worker[w].slot)
    /\ count' = count - 1
    /\ worker' = [worker EXCEPT ![w] = Idle]
    /\ WGoto(w, "idle")
    /\ UNCHANGED <<woken, device, lpc, lane, issued, events, applied, reported>>

\* A rejected submission gives its slot back whatever its state.
Reject(w) ==
    /\ wpc[w] = "reject"
    /\ Free(worker[w].slot)
    /\ worker' = [worker EXCEPT ![w] = Idle]
    /\ WGoto(w, "idle")
    /\ UNCHANGED <<count, woken, device, lpc, lane,
                   issued, events, applied, reported>>

\* outstanding_count_ + 1 and the device.submitted event.
Account(w) ==
    /\ wpc[w] = "account"
    /\ count' = count + 1
    /\ events' = [events EXCEPT ![worker[w].id] = @ \cup {"submitted"}]
    /\ WGoto(w, "publish")
    /\ UNCHANGED <<slots, woken, device, worker, lpc, lane,
                   issued, applied, reported>>

\* Submitting -> Submitted and wake the lane; or the completion came first.
Publish(w) ==
    /\ wpc[w] = "publish"
    /\ IF slots[worker[w].slot].state = "submitting"
       THEN /\ SlotTo(worker[w].slot, "submitted")
            /\ WGoto(w, "wake")
       ELSE WGoto(w, "claim") /\ UNCHANGED slots
    /\ UNCHANGED <<count, woken, device, worker, lpc, lane,
                   issued, events, applied, reported>>

Notify(w) ==
    /\ wpc[w] = "wake"
    /\ woken' = TRUE
    /\ worker' = [worker EXCEPT ![w] = Idle]
    /\ WGoto(w, "idle")
    /\ UNCHANGED <<slots, count, device, lpc, lane, issued, events, applied, reported>>

\* Mutant of ClaimEarly: the early completion's status is dropped.
ClaimEarlyAsOk(w) ==
    /\ wpc[w] = "claim"
    /\ SlotTo(worker[w].slot, "owned")
    /\ WGoto(w, "emit")
    /\ UNCHANGED <<count, woken, device, worker, lpc, lane, issued, events, applied, reported>>

\* EarlyReady -> Owned: the worker finalizes the completion itself.
ClaimEarly(w) ==
    /\ wpc[w] = "claim"
    /\ SlotTo(worker[w].slot, "owned")
    /\ worker' = [worker EXCEPT ![w].status = slots[worker[w].slot].early]
    /\ WGoto(w, "emit")
    /\ UNCHANGED <<count, woken, device, lpc, lane, issued, events, applied, reported>>

-----------------------------------------------------------------------------
\* finalize_completion, in three steps: account and emit, free the slot, and
\* complete the phase that the slot names.
EmitCompleted(i) ==
    /\ events' = [events EXCEPT ![i] = @ \cup {"completed"}]
    /\ count' = count - 1

CompleteExternal(i, s, status) ==
    applied' = [applied EXCEPT ![i] =
                   Append(@, [phase |-> slots[s].phase, status |-> status])]

WorkerEmit(w) ==
    /\ wpc[w] = "emit"
    /\ EmitCompleted(worker[w].id)
    /\ WGoto(w, "free")
    /\ UNCHANGED <<slots, woken, device, worker, lpc, lane, issued, applied, reported>>

WorkerFree(w) ==
    /\ wpc[w] = "free"
    /\ Free(worker[w].slot)
    /\ WGoto(w, "complete")
    /\ UNCHANGED <<count, woken, device, worker, lpc, lane,
                   issued, events, applied, reported>>

WorkerComplete(w) ==
    /\ wpc[w] = "complete"
    /\ CompleteExternal(worker[w].id, worker[w].slot, worker[w].status)
    /\ worker' = [worker EXCEPT ![w] = Idle]
    /\ WGoto(w, "idle")
    /\ UNCHANGED <<slots, count, woken, device, lpc, lane, issued, events, reported>>

LaneEmit ==
    /\ lpc = "emit"
    /\ EmitCompleted(lane.id)
    /\ lpc' = "free"
    /\ UNCHANGED <<slots, woken, device, wpc, worker, lane, issued, applied, reported>>

LaneFree ==
    /\ lpc = "free"
    /\ Free(lane.slot)
    /\ lpc' = "complete"
    /\ UNCHANGED <<count, woken, device, wpc, worker, lane,
                   issued, events, applied, reported>>

LaneComplete ==
    /\ lpc = "complete"
    /\ CompleteExternal(lane.id, lane.slot, lane.status)
    /\ lane' = [lane EXCEPT !.id = None, !.slot = None]
    /\ lpc' = "process"
    /\ UNCHANGED <<slots, count, woken, device, wpc, worker, issued, events, reported>>

-----------------------------------------------------------------------------
\* The backend finishes an accepted submission, at any time after accepting it.
DeviceFinish(b, i, status) ==
    /\ i \in running[b]
    /\ running' = [running EXCEPT ![b] = @ \ {i}]
    /\ finished' = [finished EXCEPT ![b] = @ \cup {i}]
    /\ reported' = [reported EXCEPT ![i] = @ \cup {status}]
    /\ UNCHANGED <<slots, count, woken, wpc, worker, lpc, lane, issued, events, applied>>

-----------------------------------------------------------------------------
\* service_loop: nothing outstanding leads to the park protocol.
LaneTop ==
    /\ lpc = "top"
    /\ lpc' = IF count = 0 THEN "observe" ELSE "poll"
    /\ UNCHANGED <<slots, count, woken, device, wpc, worker, lane,
                   issued, events, applied, reported>>

LaneObserve ==
    /\ lpc = "observe"
    /\ woken' = FALSE
    /\ lpc' = "recheck"
    /\ UNCHANGED <<slots, count, device, wpc, worker, lane,
                   issued, events, applied, reported>>

\* Mutant of LaneRecheck: the lane parks on what it saw before.
LaneParkUnchecked ==
    /\ lpc = "recheck"
    /\ lpc' = "parked"
    /\ UNCHANGED <<slots, count, woken, device, wpc, worker, lane,
                   issued, events, applied, reported>>

LaneRecheck ==
    /\ lpc = "recheck"
    /\ lpc' = IF count = 0 THEN "parked" ELSE "top"
    /\ UNCHANGED <<slots, count, woken, device, wpc, worker, lane,
                   issued, events, applied, reported>>

LaneWake ==
    /\ lpc = "parked"
    /\ woken
    /\ lpc' = "top"
    /\ UNCHANGED <<slots, count, woken, device, wpc, worker, lane,
                   issued, events, applied, reported>>

\* Go on with the next backend, or with the next round.
NextBackend ==
    IF lane.backend < BackendCount
    THEN lane' = [Resting EXCEPT !.backend = lane.backend + 1] /\ lpc' = "poll"
    ELSE lane' = Resting /\ lpc' = "top"

StartFail ==
    /\ lane' = [lane EXCEPT !.left = Slots, !.todo = {}]
    /\ lpc' = "fail"

Matched(b, i) == \E s \in Slots : /\ slots[s].state \in {"submitting", "submitted"}
                                  /\ slots[s].backend = b
                                  /\ slots[s].id = i

\* poll: an error or a malformed batch, or the finished completions.  A batch
\* with a completion that matches no slot is not applied at all.
Poll ==
    /\ lpc = "poll"
    /\ LET b == lane.backend
       IN  \/ StartFail /\ UNCHANGED finished
           \/ /\ finished' = [finished EXCEPT ![b] = {}]
              /\ IF \A i \in finished[b] : Matched(b, i)
                 THEN lane' = [lane EXCEPT !.todo = finished[b]] /\ lpc' = "process"
                 ELSE StartFail
    /\ UNCHANGED <<slots, count, woken, running, wpc, worker,
                   issued, events, applied, reported>>

\* Mutant of Process: the lane takes a slot that is still being submitted.
ProcessSubmitting ==
    /\ lpc = "process"
    /\ \/ /\ lane.todo = {}
          /\ NextBackend
          /\ UNCHANGED slots
       \/ \E i \in lane.todo, s \in Slots : \E status \in reported[i] :
              /\ slots[s].id = i
              /\ slots[s].backend = lane.backend
              /\ slots[s].state \in {"submitting", "submitted"}
              /\ SlotTo(s, "owned")
              /\ lane' = [lane EXCEPT !.todo = @ \ {i}, !.slot = s,
                                      !.id = i, !.status = status]
              /\ lpc' = "emit"
    /\ UNCHANGED <<count, woken, device, wpc, worker, issued, events, applied, reported>>

\* process_completion: leave it with the submitting worker, or take the slot.
Process ==
    /\ lpc = "process"
    /\ \/ /\ lane.todo = {}
          /\ NextBackend
          /\ UNCHANGED slots
       \/ \E i \in lane.todo, s \in Slots : \E status \in reported[i] :
              /\ slots[s].id = i
              /\ slots[s].backend = lane.backend
              /\ \/ /\ slots[s].state = "submitting"
                    /\ slots' = [slots EXCEPT ![s].state = "early_ready", ![s].early = status]
                    /\ lane' = [lane EXCEPT !.todo = @ \ {i}]
                    /\ UNCHANGED lpc
                 \/ /\ slots[s].state = "submitted"
                    /\ SlotTo(s, "owned")
                    /\ lane' = [lane EXCEPT !.todo = @ \ {i}, !.slot = s,
                                            !.id = i, !.status = status]
                    /\ lpc' = "emit"
    /\ UNCHANGED <<count, woken, device, wpc, worker, issued, events, applied, reported>>

\* fail_backend_outstanding: look at a slot of the failed backend ...
FailLook ==
    /\ lpc = "fail"
    /\ \/ lane.left = {} /\ NextBackend
       \/ \E s \in lane.left :
              IF /\ slots[s].state \in {"submitting", "submitted"}
                 /\ slots[s].backend = lane.backend
              THEN /\ lane' = [lane EXCEPT !.left = @ \ {s}, !.slot = s, !.id = slots[s].id,
                                           !.seen = slots[s].state]
                   /\ lpc' = "fail_take"
              ELSE lane' = [lane EXCEPT !.left = @ \ {s}] /\ UNCHANGED lpc
    /\ UNCHANGED <<slots, count, woken, device, wpc, worker,
                   issued, events, applied, reported>>

\* ... and take it: leave a failure with the submitting worker, or own the slot.
FailTake ==
    /\ lpc = "fail_take"
    /\ LET s == lane.slot
       IN  CASE slots[s].state = "submitting" /\ lane.seen = "submitting" ->
                    /\ slots' = [slots EXCEPT ![s].state = "early_ready", ![s].early = "error"]
                    /\ lpc' = "fail"
             [] slots[s].state = "submitted" ->
                    SlotTo(s, "owned") /\ lpc' = "fail_complete"
             [] OTHER -> lpc' = "fail" /\ UNCHANGED slots
    /\ lane' = IF lpc' = "fail" THEN [lane EXCEPT !.id = None, !.slot = None]
               ELSE [lane EXCEPT !.id = slots[lane.slot].id]
    /\ UNCHANGED <<count, woken, device, wpc, worker, issued, events, applied, reported>>

\* Here the slot is freed after its phase is completed.
FailComplete ==
    /\ lpc = "fail_complete"
    /\ events' = [events EXCEPT ![lane.id] = @ \cup {"completed"}]
    /\ CompleteExternal(lane.id, lane.slot, "error")
    /\ lpc' = "fail_free"
    /\ UNCHANGED <<slots, count, woken, device, wpc, worker, lane, issued, reported>>

\* Mutant of FailFree: the failed submission stays counted.
FailFreeUncounted ==
    /\ lpc = "fail_free"
    /\ Free(lane.slot)
    /\ lane' = [lane EXCEPT !.id = None, !.slot = None]
    /\ lpc' = "fail"
    /\ UNCHANGED <<count, woken, device, wpc, worker, issued, events, applied, reported>>

FailFree ==
    /\ lpc = "fail_free"
    /\ count' = count - 1
    /\ Free(lane.slot)
    /\ lane' = [lane EXCEPT !.id = None, !.slot = None]
    /\ lpc' = "fail"
    /\ UNCHANGED <<woken, device, wpc, worker, issued, events, applied, reported>>

-----------------------------------------------------------------------------
WorkerStep(w) ==
    \/ Fill(w) \/ Call(w) \/ Reject(w) \/ Account(w) \/ Publish(w) \/ Notify(w)
    \/ ClaimEarly(w) \/ WorkerEmit(w) \/ WorkerFree(w) \/ WorkerComplete(w)
LaneStep ==
    \/ LaneTop \/ LaneObserve \/ LaneRecheck \/ LaneWake \/ Poll \/ Process
    \/ LaneEmit \/ LaneFree \/ LaneComplete
    \/ FailLook \/ FailTake \/ FailComplete \/ FailFree

Next ==
    \/ \E w \in Workers, s \in Slots, p \in Phases, b \in Backends, i \in Ids :
           Acquire(w, s, p, b, i)
    \/ \E w \in Workers : WorkerStep(w)
    \/ LaneStep
    \/ \E b \in Backends, i \in Ids, status \in Results : DeviceFinish(b, i, status)

\* Workers and the lane are scheduled; a backend finishes what it accepts.
Fairness ==
    /\ \A w \in Workers : WF_vars(WorkerStep(w))
    /\ WF_vars(LaneStep)
    /\ \A i \in Ids : WF_vars(\E b \in Backends, status \in Results :
                                  DeviceFinish(b, i, status))

Spec == Init /\ [][Next]_vars
FairSpec == Spec /\ Fairness

-----------------------------------------------------------------------------
\* Type invariant of the outstanding slots and of the threads that use them.
TypeOK ==
    /\ slots \in [Slots -> [state : SlotStates, id : Ids \cup {None}, backend : Backends,
                            phase : Phases \cup {None}, early : Results]]
    /\ count \in Nat
    /\ woken \in BOOLEAN
    /\ running \in [Backends -> SUBSET Ids]
    /\ finished \in [Backends -> SUBSET Ids]
    /\ lane.todo \subseteq Ids
    /\ \A i \in Ids : reported[i] \subseteq Results

Accounted(w) == wpc[w] \in {"publish", "claim", "emit"}
\* outstanding_count_ is the number of accepted submissions whose completion has
\* not been accounted: the lane polls while there is one and may park at zero.
CountExact ==
    count = Cardinality({s \in Slots : slots[s].state = "submitted"})
            + Cardinality({w \in Workers : Accounted(w)})
            + (IF lpc \in {"emit", "fail_complete", "fail_free"} THEN 1 ELSE 0)

\* A submission is applied at most once, and never before its acceptance has
\* been accounted and device.submitted emitted (docs/hal_v2.md).
AppliedOnce ==
    \A i \in Ids : /\ Len(applied[i]) <= 1
                   /\ applied[i] # <<>> => events[i] = {"submitted", "completed"}

\* Success is never invented: the executor sees ok for a submission only when
\* its backend reported ok for it.
SuccessIsReported ==
    \A i \in Ids : \A k \in DOMAIN applied[i] :
        applied[i][k].status = "ok" => reported[i] = {"ok"}

\* docs/hal_v2.md: a completion "cannot release the wrong graph token".  Every
\* complete_external call names the phase that the submission was made for.
OwnToken ==
    \A i \in Ids : \A k \in DOMAIN applied[i] : applied[i][k].phase = issued[i].phase

\* Every accepted submission is applied: the lane neither parks while there is
\* work nor loses a completion in the early-ready handshake.
AcceptedIsApplied ==
    \A i \in Ids : (events[i] = {"submitted"}) ~> (applied[i] # <<>>)
=============================================================================
