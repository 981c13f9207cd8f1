------------------------------ MODULE Executor ------------------------------
(***************************************************************************)
(* Executor (rt/src/executor.cpp), native policies: one frame thread runs  *)
(* the compiled phase graph, workers pop phases from bounded queues and    *)
(* call them, device lanes deliver the completions of device phases.       *)
(* graph_group_.pending counts the tokens that keep run() waiting: one for *)
(* each accepted work item, one for each phase between its claim and its   *)
(* finish_phase.                                                           *)
(*                                                                         *)
(* Every atomic access that another thread can see is a step.  A queue is  *)
(* the bounded FIFO that WorkQueue shows Executor::Queue to be, try_push   *)
(* and try_pop refusing when it is full or empty and also when a thread is *)
(* in the middle of a cell or the attempts run out.  Task scratch is the   *)
(* number of free slots.  A callback is its outcome.                       *)
(***************************************************************************)
EXTENDS Integers, Sequences, FiniteSets, FiniteSetsExt

CONSTANTS
    Frame,           \* the thread that calls run and run_selected
    Workers,
    Lanes,           \* device service lanes
    PhaseCount,      \* phase_count_
    Successors,      \* [Phases -> Seq(Phases)]: successor_offsets_, successors_
    Assignment,      \* [Phases -> Workers]: static_assignments_
    DevicePhases,    \* phases whose callback ends in a device submission
    Stealing,        \* policy_ = bounded_throughput
    FailFrame,       \* overload_policy_ = fail_frame
    QueueCapacity,
    ScratchSlots,    \* task_scratch_slots_
    Selected         \* phases that run_selected is called with

Phases == 0 .. PhaseCount - 1
Threads == {Frame} \cup Workers \cup Lanes
Failures == {"callback_failed", "device_failed", "queue_full",
             "scratch_exhausted", "internal_error"}
Statuses == Failures \cup {"ok"}
PhaseStates == {"idle", "dispatching", "pending", "external_ready", "finalized"}

\* initial_indegree_
InitialIndegree(p) ==
    Cardinality({e \in {<<q, k>> : q \in Phases, k \in 1 .. PhaseCount} :
                    e[2] <= Len(Successors[e[1]]) /\ Successors[e[1]][e[2]] = p})
Roots == {p \in Phases : InitialIndegree(p) = 0}
Predecessors(p) == {q \in Phases : \E k \in DOMAIN Successors[q] : Successors[q][k] = p}

ASSUME PhaseAssumption == PhaseCount \in Nat \ {0}
ASSUME ThreadAssumption == /\ Frame \notin Workers \cup Lanes
                           /\ Workers \cap Lanes = {}
ASSUME GraphAssumption == /\ Successors \in [Phases -> Seq(Phases)]
                          /\ Assignment \in [Phases -> Workers]
                          /\ DevicePhases \subseteq Phases
                          /\ Selected \subseteq Phases
ASSUME BoundAssumption == QueueCapacity \in Nat /\ ScratchSlots \in Nat

VARIABLES
    pending,          \* graph_group_.pending
    group_status,     \* graph_group_.status
    cancelled,        \* graph_cancelled_
    callbacks,        \* graph_callbacks_executed_
    failed_phase,     \* graph_failed_phase_
    indegree,         \* current_indegree_
    phase_states,
    phase_statuses,
    selected_run,
    queues,           \* queues_: phases only
    scratch,          \* free bits of free_scratch_words_
    inflight,         \* accepted by a device, completion not yet delivered
    pc, local,        \* per thread: place in the code and its locals
    succeeded,        \* history: phases finished with ok in this run
    observed,         \* history: failures observed in this run
    result            \* history: what the last run returned

graph == <<indegree, phase_states, phase_statuses>>
group == <<group_status, cancelled, failed_phase>>
history == <<succeeded, observed>>
vars == <<pending, group, callbacks, graph, selected_run, queues, scratch,
          inflight, pc, local, history, result>>

NoPhase == PhaseCount
Fresh == [phase |-> NoPhase, status |-> "ok", cursor |-> 1,
          sub |-> NoPhase, seen |-> NoPhase, next |-> "idle"]
NoResult == [status |-> "none", failed |-> NoPhase, callbacks |-> 0, selected |-> NoPhase]

Init ==
    /\ pending = 0
    /\ group_status = "ok"
    /\ cancelled = FALSE
    /\ callbacks = 0
    /\ failed_phase = NoPhase
    /\ indegree = [p \in Phases |-> InitialIndegree(p)]
    /\ phase_states = [p \in Phases |-> "idle"]
    /\ phase_statuses = [p \in Phases |-> "ok"]
    /\ selected_run = FALSE
    /\ queues = [w \in Workers |-> <<>>]
    /\ scratch = ScratchSlots
    /\ inflight = {}
    /\ pc = [t \in Threads |-> "idle"]
    /\ local = [t \in Threads |-> Fresh]
    /\ succeeded = {}
    /\ observed = {}
    /\ result = NoResult

Goto(t, at) == pc' = [pc EXCEPT ![t] = at]
Set(t, field, value) == local' = [local EXCEPT ![t][field] = value]

-----------------------------------------------------------------------------
\* Mutant of CancelGraph: the failure is not recorded in the group.
CancelUnrecorded(t, s, p, next) ==
    /\ cancelled' = TRUE
    /\ observed' = observed \cup ({p} \cap Phases)
    /\ Goto(t, next)
    /\ UNCHANGED <<group_status, local>>

\* cancel_graph(s, p) up to its compare-exchange loop: record the first
\* failure, raise the flag, load graph_failed_phase_.  The loop is Lower.
CancelGraph(t, s, p, next) ==
    /\ group_status' = IF group_status = "ok" THEN s ELSE group_status
    /\ cancelled' = TRUE
    /\ observed' = observed \cup ({p} \cap Phases)
    /\ IF p < PhaseCount
       THEN /\ Goto(t, "lower")
            /\ local' = [local EXCEPT ![t] =
                   [@ EXCEPT !.sub = p, !.seen = failed_phase, !.next = next]]
       ELSE Goto(t, next) /\ UNCHANGED local

\* Mutant of Lower: one compare-exchange without the loop.
LowerOnce(t) ==
    /\ pc[t] = "lower"
    /\ failed_phase' = IF failed_phase = local[t].seen /\ local[t].sub < failed_phase
                       THEN local[t].sub ELSE failed_phase
    /\ Goto(t, local[t].next)
    /\ UNCHANGED <<pending, group_status, cancelled, callbacks, graph,
                   selected_run, queues, scratch, inflight, local, history, result>>

\* One round of the loop: leave, exchange, or reload and try again.
Lower(t) ==
    /\ pc[t] = "lower"
    /\ LET p == local[t].sub
           seen == local[t].seen
       IN  \/ /\ p >= seen
              /\ Goto(t, local[t].next)
              /\ UNCHANGED <<failed_phase, local>>
           \/ /\ p < seen
              /\ failed_phase = seen
              /\ failed_phase' = p
              /\ Goto(t, local[t].next)
              /\ UNCHANGED local
           \/ /\ p < seen
              /\ failed_phase # seen
              /\ Set(t, "seen", failed_phase)
              /\ UNCHANGED <<failed_phase, pc>>
    /\ UNCHANGED <<pending, group_status, cancelled, callbacks, graph,
                   selected_run, queues, scratch, inflight, history, result>>

-----------------------------------------------------------------------------
\* submit(item, target): take a scratch slot and a pending token, or find none
\* (the search also gives up after kScratchCasAttemptLimit lost attempts).
\* started_ holds and the target is in range: Lifecycle stops the lanes between
\* frames.
Acquire(t) ==
    /\ pc[t] = "acquire"
    /\ \/ /\ scratch > 0
          /\ scratch' = scratch - 1
          /\ pending' = pending + 1
          /\ Goto(t, "push")
          /\ UNCHANGED local
       \/ /\ Set(t, "status", "scratch_exhausted")
          /\ Goto(t, "overload")
          /\ UNCHANGED <<scratch, pending>>
    /\ UNCHANGED <<group, callbacks, graph, selected_run, queues, inflight, history, result>>

\* submit_phase returned ok: the caller goes on with its loop or its wait.
Accept(t) ==
    /\ Goto(t, IF t # Frame THEN "successors"
               ELSE IF selected_run THEN "wait" ELSE "roots")
    /\ Set(t, "cursor", local[t].cursor + 1)

\* try_push on the queue of the phase's worker succeeds ...
Push(t) ==
    /\ pc[t] = "push"
    /\ LET w == Assignment[local[t].sub]
       IN  /\ Len(queues[w]) < QueueCapacity
           /\ queues' = [queues EXCEPT ![w] = Append(@, local[t].sub)]
    /\ Accept(t)
    /\ UNCHANGED <<pending, group, callbacks, graph, selected_run, scratch, inflight,
                   history, result>>

\* Mutant of PushFails: a rejected item keeps its pending token.
PushKeepsToken(t) ==
    /\ pc[t] = "push"
    /\ scratch' = scratch + 1
    /\ Set(t, "status", "queue_full")
    /\ Goto(t, "overload")
    /\ UNCHANGED <<pending, group, callbacks, graph, selected_run, queues, inflight,
                   history, result>>

\* ... or fails, and the token and the scratch slot are given back.
PushFails(t) ==
    /\ pc[t] = "push"
    /\ pending' = pending - 1
    /\ scratch' = scratch + 1
    /\ Set(t, "status", "queue_full")
    /\ Goto(t, "overload")
    /\ UNCHANGED <<group, callbacks, graph, selected_run, queues, inflight, history, result>>

\* reject_overload: with fail_frame the rejected phase is reported as failed.
RejectOverload(t) ==
    /\ pc[t] = "overload"
    /\ IF FailFrame
       THEN CancelGraph(t, local[t].status, local[t].sub, "rejected")
       ELSE Goto(t, "rejected") /\ UNCHANGED <<group_status, cancelled, observed, local>>
    /\ UNCHANGED <<pending, failed_phase, callbacks, graph, selected_run, queues,
                   scratch, inflight, succeeded, result>>

\* run and finish_phase break out of their loop, run_selected reports the phase
\* and does not wait.
Rejected(t) ==
    /\ pc[t] = "rejected"
    /\ IF t = Frame /\ selected_run
       THEN CancelGraph(t, local[t].status, local[t].sub, "return")
       ELSE CancelGraph(t, local[t].status, NoPhase,
                        IF t = Frame THEN "wait" ELSE "settle")
    /\ UNCHANGED <<pending, failed_phase, callbacks, graph, selected_run, queues,
                   scratch, inflight, succeeded, result>>

-----------------------------------------------------------------------------
\* run: reset the graph.  Nobody else touches it here (Quiescent).
Run ==
    /\ pc[Frame] = "idle"
    /\ pending' = 0
    /\ group_status' = "ok"
    /\ cancelled' = FALSE
    /\ callbacks' = 0
    /\ failed_phase' = NoPhase
    /\ indegree' = [p \in Phases |-> InitialIndegree(p)]
    /\ phase_states' = [p \in Phases |-> "idle"]
    /\ phase_statuses' = [p \in Phases |-> "ok"]
    /\ succeeded' = {}
    /\ observed' = {}
    /\ result' = NoResult
    /\ Goto(Frame, "roots")
    /\ UNCHANGED <<selected_run, queues, scratch, inflight, local>>

\* The loop over the phases of indegree zero, in registration order.
SubmitRoots ==
    /\ pc[Frame] = "roots"
    /\ LET left == {p \in Roots : p + 1 >= local[Frame].cursor}
       IN  IF left = {}
           THEN Goto(Frame, "wait") /\ UNCHANGED local
           ELSE /\ Goto(Frame, "acquire")
                /\ local' = [local EXCEPT ![Frame].sub = Min(left),
                                          ![Frame].cursor = Min(left) + 1]
    /\ UNCHANGED <<pending, group, callbacks, graph, selected_run, queues,
                   scratch, inflight, history, result>>

\* run_selected: only the selected phase is reset and submitted.
RunSelected(p) ==
    /\ pc[Frame] = "idle"
    /\ pending' = 0
    /\ group_status' = "ok"
    /\ cancelled' = FALSE
    /\ callbacks' = 0
    /\ failed_phase' = NoPhase
    /\ phase_states' = [phase_states EXCEPT ![p] = "idle"]
    /\ phase_statuses' = [phase_statuses EXCEPT ![p] = "ok"]
    /\ selected_run' = TRUE
    /\ succeeded' = {}
    /\ observed' = {}
    /\ result' = NoResult
    /\ Goto(Frame, "acquire")
    /\ Set(Frame, "sub", p)
    /\ UNCHANGED <<indegree, queues, scratch, inflight>>

\* wait(graph_group_) sees pending = 0, or run_selected was refused.  The
\* history is forgotten with the run that it describes.
Return ==
    /\ \/ pc[Frame] = "wait" /\ pending = 0
       \/ pc[Frame] = "return"
    /\ result' = [status |-> group_status, failed |-> failed_phase,
                  callbacks |-> callbacks,
                  selected |-> IF selected_run THEN local[Frame].sub ELSE NoPhase]
    /\ selected_run' = FALSE
    /\ Goto(Frame, "idle")
    /\ local' = [local EXCEPT ![Frame] = Fresh]
    /\ UNCHANGED <<pending, group, callbacks, graph, queues, scratch, inflight, history>>

-----------------------------------------------------------------------------
Pop(w, v) ==
    /\ queues[v] # <<>>
    /\ queues' = [queues EXCEPT ![v] = Tail(@)]
    /\ Set(w, "phase", Head(queues[v]))
    /\ Goto(w, "check")

\* execute_one: pop from the own queue; with stealing a failure leads to ...
ExecuteOne(w) ==
    /\ pc[w] = "idle"
    /\ \/ Pop(w, w)
       \/ Stealing /\ Goto(w, "steal") /\ UNCHANGED <<queues, local>>
    /\ UNCHANGED <<pending, group, callbacks, graph, selected_run, scratch,
                   inflight, history, result>>

\* ... the search of the other queues, which pops from a victim or gives up.
Steal(w) ==
    /\ pc[w] = "steal"
    /\ \/ \E v \in Workers \ {w} : Pop(w, v)
       \/ Goto(w, "idle") /\ UNCHANGED <<queues, local>>
    /\ UNCHANGED <<pending, group, callbacks, graph, selected_run, scratch,
                   inflight, history, result>>

\* execute_phase: a cancelled graph retires its items unexecuted.
CheckCancelled(w) ==
    /\ pc[w] = "check"
    /\ Goto(w, IF cancelled THEN "release" ELSE "claim")
    /\ UNCHANGED <<pending, group, callbacks, graph, selected_run, queues,
                   scratch, inflight, local, history, result>>

\* Mutant of Claim: the phase takes no token of its own.
ClaimWithoutToken(w) ==
    /\ pc[w] = "claim"
    /\ phase_states' = [phase_states EXCEPT ![local[w].phase] = "dispatching"]
    /\ Goto(w, "callback")
    /\ UNCHANGED <<pending, group, callbacks, indegree, phase_statuses, selected_run,
                   queues, scratch, inflight, local, history, result>>

\* Take the phase's token, then Idle -> Dispatching.  The item's own token
\* keeps pending above zero in between.
Claim(w) ==
    /\ pc[w] = "claim"
    /\ LET p == local[w].phase
       IN  IF phase_states[p] = "idle"
           THEN /\ pending' = pending + 1
                /\ phase_states' = [phase_states EXCEPT ![p] = "dispatching"]
                /\ Goto(w, "callback")
                /\ UNCHANGED <<group_status, cancelled, observed, local>>
           ELSE /\ CancelGraph(w, "internal_error", p, "release")
                /\ UNCHANGED <<pending, phase_states>>
    /\ UNCHANGED <<failed_phase, callbacks, indegree, phase_statuses, selected_run,
                   queues, scratch, inflight, succeeded, result>>

\* phase_callback_ returns: ok, a failure, or a device submission that was
\* accepted before the return.  A rejected device submission is a failure.
Callback(w) ==
    /\ pc[w] = "callback"
    /\ callbacks' = callbacks + 1
    /\ \/ /\ local[w].phase \notin DevicePhases
          /\ Goto(w, "resolve")
          /\ UNCHANGED <<local, inflight>>
       \/ /\ Goto(w, "resolve")
          /\ Set(w, "status", "callback_failed")
          /\ UNCHANGED inflight
       \/ /\ local[w].phase \in DevicePhases
          /\ inflight' = inflight \cup {local[w].phase}
          /\ Goto(w, "park")
          /\ UNCHANGED local
    /\ UNCHANGED <<pending, group, graph, selected_run, queues, scratch, history, result>>

\* A nested submit inside the callback is refused under fail_frame: the frame
\* is cancelled while the phase is still dispatching.  Once for each callback:
\* a second refusal changes nothing.
NestedOverload(w) ==
    /\ pc[w] = "callback"
    /\ FailFrame
    /\ local[w].phase \notin observed
    /\ CancelGraph(w, "queue_full", local[w].phase, "callback")
    /\ UNCHANGED <<pending, failed_phase, callbacks, graph, selected_run, queues,
                   scratch, inflight, succeeded, result>>

\* Not pending: Dispatching -> Finalized.
Resolve(w) ==
    /\ pc[w] = "resolve"
    /\ LET p == local[w].phase
       IN  IF phase_states[p] = "dispatching"
           THEN /\ phase_states' = [phase_states EXCEPT ![p] = "finalized"]
                /\ Goto(w, "finish")
                /\ UNCHANGED <<group_status, cancelled, observed, local>>
           ELSE /\ CancelGraph(w, "internal_error", p, "settle")
                /\ UNCHANGED phase_states
    /\ UNCHANGED <<pending, failed_phase, callbacks, indegree, phase_statuses,
                   selected_run, queues, scratch, inflight, succeeded, result>>

\* Pending: Dispatching -> Pending, unless the completion came first.
Park(w) ==
    /\ pc[w] = "park"
    /\ LET p == local[w].phase
       IN  CASE phase_states[p] = "dispatching" ->
                    /\ phase_states' = [phase_states EXCEPT ![p] = "pending"]
                    /\ Goto(w, "release")
                    /\ UNCHANGED <<group_status, cancelled, observed, local>>
             [] phase_states[p] = "external_ready" ->
                    /\ Goto(w, "absorb")
                    /\ UNCHANGED <<group_status, cancelled, observed, local, phase_states>>
             [] OTHER ->
                    /\ CancelGraph(w, "internal_error", p, "settle")
                    /\ UNCHANGED phase_states
    /\ UNCHANGED <<pending, failed_phase, callbacks, indegree, phase_statuses,
                   selected_run, queues, scratch, inflight, succeeded, result>>

\* ExternalReady -> Finalized, and take the status that the lane stored.
Absorb(w) ==
    /\ pc[w] = "absorb"
    /\ LET p == local[w].phase
       IN  IF phase_states[p] = "external_ready"
           THEN /\ phase_states' = [phase_states EXCEPT ![p] = "finalized"]
                /\ Set(w, "status", phase_statuses[p])
                /\ Goto(w, "finish")
                /\ UNCHANGED <<group_status, cancelled, observed>>
           ELSE /\ CancelGraph(w, "internal_error", p, "settle")
                /\ UNCHANGED phase_states
    /\ UNCHANGED <<pending, failed_phase, callbacks, indegree, phase_statuses,
                   selected_run, queues, scratch, inflight, succeeded, result>>

-----------------------------------------------------------------------------
\* finish_phase, by the worker or by the lane that finalized the phase.
Finish(t) ==
    /\ pc[t] = "finish"
    /\ IF local[t].status # "ok"
       THEN /\ CancelGraph(t, local[t].status, local[t].phase, "settle")
            /\ UNCHANGED succeeded
       ELSE /\ succeeded' = succeeded \cup {local[t].phase}
            /\ Goto(t, IF cancelled \/ selected_run THEN "settle" ELSE "successors")
            /\ UNCHANGED <<group_status, cancelled, observed, local>>
    /\ UNCHANGED <<pending, failed_phase, callbacks, graph, selected_run, queues,
                   scratch, inflight, result>>

\* Mutant of Release: a successor is submitted by every predecessor.
ReleaseEach(t) ==
    /\ pc[t] = "successors"
    /\ LET next == Successors[local[t].phase]
           k == local[t].cursor
       IN  IF k > Len(next)
           THEN Goto(t, "settle") /\ UNCHANGED <<indegree, local>>
           ELSE /\ indegree' = [indegree EXCEPT ![next[k]] = @ - 1]
                /\ Goto(t, "acquire")
                /\ Set(t, "sub", next[k])
    /\ UNCHANGED <<pending, group, callbacks, phase_states, phase_statuses, selected_run,
                   queues, scratch, inflight, history, result>>

\* One successor: decrement its indegree, submit it when that was the last.
Release(t) ==
    /\ pc[t] = "successors"
    /\ LET next == Successors[local[t].phase]
           k == local[t].cursor
       IN  IF k > Len(next)
           THEN Goto(t, "settle") /\ UNCHANGED <<indegree, local>>
           ELSE /\ indegree' = [indegree EXCEPT ![next[k]] = @ - 1]
                /\ IF indegree[next[k]] = 1
                   THEN Goto(t, "acquire") /\ Set(t, "sub", next[k])
                   ELSE Set(t, "cursor", k + 1) /\ UNCHANGED pc
    /\ UNCHANGED <<pending, group, callbacks, phase_states, phase_statuses, selected_run,
                   queues, scratch, inflight, history, result>>

\* The phase's token is given back; a lane is done, a worker retires its item.
Settle(t) ==
    /\ pc[t] = "settle"
    /\ pending' = pending - 1
    /\ IF t \in Lanes
       THEN Goto(t, "idle") /\ local' = [local EXCEPT ![t] = Fresh]
       ELSE Goto(t, "release") /\ UNCHANGED local
    /\ UNCHANGED <<group, callbacks, graph, selected_run, queues, scratch,
                   inflight, history, result>>

\* Mutant of ReleaseScratch: the item's token is given back here as well.
ReleaseTokenTwice(w) ==
    /\ pc[w] = "release"
    /\ scratch' = scratch + 1
    /\ pending' = pending - 1
    /\ Goto(w, "retire")
    /\ UNCHANGED <<group, callbacks, graph, selected_run, queues, inflight,
                   local, history, result>>

\* The end of execute: release_scratch_slot, then the item's token.
ReleaseScratch(w) ==
    /\ pc[w] = "release"
    /\ scratch' = scratch + 1
    /\ Goto(w, "retire")
    /\ UNCHANGED <<pending, group, callbacks, graph, selected_run, queues, inflight,
                   local, history, result>>

Retire(w) ==
    /\ pc[w] = "retire"
    /\ pending' = pending - 1
    /\ Goto(w, "idle")
    /\ local' = [local EXCEPT ![w] = Fresh]
    /\ UNCHANGED <<group, callbacks, graph, selected_run, queues, scratch,
                   inflight, history, result>>

-----------------------------------------------------------------------------
\* complete_external: the lane stores the status of a completed submission.
CompleteExternal(d) ==
    /\ pc[d] = "idle"
    /\ \E p \in inflight, s \in {"ok", "device_failed"} :
           /\ inflight' = inflight \ {p}
           /\ phase_statuses' = [phase_statuses EXCEPT ![p] = s]
           /\ local' = [local EXCEPT ![d].phase = p, ![d].status = s]
    /\ Goto(d, "ext_pending")
    /\ UNCHANGED <<pending, group, callbacks, indegree, phase_states, selected_run,
                   queues, scratch, history, result>>

\* Mutant of ExternalPending: a phase that is still dispatching is not waited for.
ExternalPendingOnly(d) ==
    /\ pc[d] = "ext_pending"
    /\ LET p == local[d].phase
       IN  IF phase_states[p] = "pending"
           THEN /\ phase_states' = [phase_states EXCEPT ![p] = "finalized"]
                /\ Goto(d, "finish")
                /\ UNCHANGED local
           ELSE /\ Goto(d, "idle")
                /\ local' = [local EXCEPT ![d] = Fresh]
                /\ UNCHANGED phase_states
    /\ UNCHANGED <<pending, group, callbacks, indegree, phase_statuses, selected_run,
                   queues, scratch, inflight, history, result>>

\* Pending -> Finalized, tried first and again at the end.  A phase in another
\* state than Dispatching loses the completion: invalid_state.
ExternalPending(d) ==
    /\ pc[d] \in {"ext_pending", "ext_again"}
    /\ LET p == local[d].phase
       IN  CASE phase_states[p] = "pending" ->
                    /\ phase_states' = [phase_states EXCEPT ![p] = "finalized"]
                    /\ Goto(d, "finish")
                    /\ UNCHANGED local
             [] phase_states[p] = "dispatching" /\ pc[d] = "ext_pending" ->
                    Goto(d, "ext_ready") /\ UNCHANGED <<phase_states, local>>
             [] OTHER ->
                    /\ Goto(d, "idle")
                    /\ local' = [local EXCEPT ![d] = Fresh]
                    /\ UNCHANGED phase_states
    /\ UNCHANGED <<pending, group, callbacks, indegree, phase_statuses, selected_run,
                   queues, scratch, inflight, history, result>>

\* Dispatching -> ExternalReady: the worker that dispatched it will finish it.
ExternalReady(d) ==
    /\ pc[d] = "ext_ready"
    /\ LET p == local[d].phase
       IN  IF phase_states[p] = "pending"
           THEN Goto(d, "ext_again") /\ UNCHANGED <<phase_states, local>>
           ELSE /\ phase_states' = IF phase_states[p] = "dispatching"
                                   THEN [phase_states EXCEPT ![p] = "external_ready"]
                                   ELSE phase_states
                /\ Goto(d, "idle")
                /\ local' = [local EXCEPT ![d] = Fresh]
    /\ UNCHANGED <<pending, group, callbacks, indegree, phase_statuses, selected_run,
                   queues, scratch, inflight, history, result>>

-----------------------------------------------------------------------------
SubmitSteps(t) ==
    Acquire(t) \/ Push(t) \/ PushFails(t) \/ RejectOverload(t) \/ Rejected(t)
FinishSteps(t) == Finish(t) \/ Release(t) \/ Settle(t)

FrameStep == Run \/ SubmitRoots \/ (\E p \in Selected : RunSelected(p)) \/ Return
WorkerStep(w) ==
    \/ ExecuteOne(w) \/ Steal(w) \/ CheckCancelled(w) \/ Claim(w)
    \/ Callback(w) \/ NestedOverload(w)
    \/ Resolve(w) \/ Park(w) \/ Absorb(w)
    \/ FinishSteps(w) \/ ReleaseScratch(w) \/ Retire(w)
LaneStep(d) ==
    CompleteExternal(d) \/ ExternalPending(d) \/ ExternalReady(d) \/ FinishSteps(d)

Next ==
    \/ FrameStep
    \/ \E w \in Workers : WorkerStep(w)
    \/ \E d \in Lanes : LaneStep(d)
    \/ \E t \in Threads : SubmitSteps(t) \/ Lower(t)

\* Every thread is scheduled: the frame thread inside a run, the workers, and
\* the lanes, which deliver every completion (DeviceManager).  A worker that
\* tries its own queue again and again while there is an item pops one in the
\* end: try_pop fails on an item only while another thread is at the same cell.
Fairness ==
    /\ WF_vars(SubmitRoots \/ Return \/ SubmitSteps(Frame) \/ Lower(Frame))
    /\ \A w \in Workers :
         /\ WF_vars(WorkerStep(w) \/ SubmitSteps(w) \/ Lower(w))
         /\ SF_vars(ExecuteOne(w) /\ queues' # queues)
    /\ \A d \in Lanes : WF_vars(LaneStep(d) \/ SubmitSteps(d) \/ Lower(d))

Spec == Init /\ [][Next]_vars
FairSpec == Spec /\ Fairness

-----------------------------------------------------------------------------
\* The thread holds the token of a phase that it has finalized.
Finishing(t) ==
    /\ t # Frame
    /\ \/ pc[t] \in {"finish", "successors", "acquire", "push", "overload",
                     "rejected", "settle"}
       \/ pc[t] = "lower" /\ local[t].next \in {"rejected", "settle"}
Live(p) == phase_states[p] \in {"dispatching", "pending", "external_ready"}
Queued == SumFunction([w \in Workers |-> Len(queues[w])])

\* Type invariant of the executor and of the threads inside it.
TypeOK ==
    /\ pending \in Nat
    /\ group_status \in Statuses
    /\ cancelled \in BOOLEAN
    /\ callbacks \in 0 .. PhaseCount
    /\ failed_phase \in 0 .. PhaseCount
    /\ indegree \in [Phases -> Nat]
    /\ phase_states \in [Phases -> PhaseStates]
    /\ phase_statuses \in [Phases -> Statuses]
    /\ selected_run \in BOOLEAN
    /\ queues \in [Workers -> Seq(Phases)]
    /\ scratch \in 0 .. ScratchSlots
    /\ inflight \subseteq DevicePhases
    /\ local \in [Threads -> [phase : 0 .. PhaseCount, status : Statuses,
                              cursor : Nat, sub : 0 .. PhaseCount,
                              seen : 0 .. PhaseCount, next : STRING]]
    /\ DOMAIN pc = Threads

\* pending is the number of tokens outstanding: queued items, items held by
\* workers, items being pushed, and phases between claim and settlement.  A
\* token lost or returned twice would hang run() or release it too early.
TokenCount ==
    pending = Queued
              + Cardinality({w \in Workers : pc[w] \notin {"idle", "steal"}})
              + Cardinality({t \in Threads : pc[t] = "push"})
              + Cardinality({p \in Phases : Live(p)})
              + Cardinality({t \in Threads : Finishing(t)})

\* When run() has returned nothing of the run is left: no queued or executing
\* item, no device completion to come, no scratch slot in use.  This is what
\* lets run() reset the graph and clear phase_callback_ without a lock.
Quiescent ==
    pc[Frame] = "idle" =>
        /\ pending = 0
        /\ \A w \in Workers : queues[w] = <<>>
        /\ \A t \in Threads : pc[t] \in {"idle", "steal"}
        /\ inflight = {}
        /\ scratch = ScratchSlots

\* A phase is claimed only after each of its predecessors finished with ok.
DependencyOrder ==
    (pc[Frame] # "idle" /\ ~selected_run) =>
        \A p \in Phases : phase_states[p] # "idle" => Predecessors(p) \subseteq succeeded

\* run() returns ok only when every phase (run_selected: the selected phase)
\* was called once and finished with ok.
OkMeansAll ==
    result.status = "ok" =>
        IF result.selected = NoPhase
        THEN succeeded = Phases /\ result.callbacks = PhaseCount
        ELSE succeeded = {result.selected} /\ result.callbacks = 1

\* docs/executor.md: the reported phase is the lowest registration index among
\* the observed failures, however the failing threads interleave.
LowestFailure ==
    result.status # "none" => result.failed = Min(observed \cup {NoPhase})

\* Every run returns: no lost token, no completion without effect, no queue
\* that nobody serves.
RunReturns == pc[Frame] # "idle" ~> pc[Frame] = "idle"
=============================================================================
