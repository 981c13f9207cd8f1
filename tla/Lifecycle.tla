----------------------------- MODULE Lifecycle -----------------------------
(***************************************************************************)
(* Runtime::start(), step() and stop() (host_runtime.cpp), with the        *)
(* startup rollback, the retryable cleanup and the ownership they manage:  *)
(* runtime threads behind the startup gate (thread_policy.cpp), device     *)
(* backends and registered buffers (device_manager.cpp), extension         *)
(* services (extension_registration.cpp) and resident memory               *)
(* (memory_policy.cpp).                                                    *)
(*                                                                         *)
(* The control calls are made by one host thread.  A call is the sequence  *)
(* of operations `script` still to be carried out; the head is executed    *)
(* next, and its result decides whether the rest is kept, cut off (an      *)
(* early return) or replaced by the rollback.  Between two operations the  *)
(* lanes (runtime threads) move by themselves.  Every provider callback    *)
(* may fail; MaxFaults bounds how often.                                   *)
(*                                                                         *)
(* Left out: batches and submissions in flight (DeviceSlots), the          *)
(* live-control mailbox, which lets stop() return early without effect,    *)
(* and the stack report: aggregate_runtime_stack_startup_results cannot    *)
(* fail on what the native provider reports.                               *)
(***************************************************************************)
EXTENDS Integers, Sequences, FiniteSets

CONSTANTS
    LaneCount,   \* how many threads each role has (0: role not configured)
    Backends,    \* number of device backends
    BufferOf,    \* the backend of each registered buffer, in order
    Services,    \* number of extension services
    Related,     \* [1..Services -> SUBSET (1..Backends)]: relationships
    Sampled,     \* sampled-I/O channels with safe outputs are configured
    BatchSlots,  \* batch slots of the backend that takes the safe outputs
    MaxFaults    \* bound: provider calls that fail in a behaviour

Roles == {"watchdog", "worker", "service", "submission"}
Lanes == UNION {{<<r, i>> : i \in 1..LaneCount[r]} : r \in Roles}
LanesOf(r) == {l \in Lanes : l[1] = r}
Buffers == 1..Len(BufferOf)

ASSUME LifecycleAssumption ==
    /\ LaneCount \in [Roles -> Nat]
    /\ Backends \in Nat /\ Services \in Nat /\ MaxFaults \in Nat
    /\ BufferOf \in Seq(1..Backends)
    /\ Related \in [1..Services -> SUBSET (1..Backends)]
    \* a submission lane serves one command backend; a runtime with backends
    \* has one device service lane and a runtime without has none
    /\ LaneCount["submission"] <= Backends
    /\ LaneCount["service"] = IF Backends = 0 THEN 0 ELSE 1
    /\ LaneCount["watchdog"] <= 1
    \* safe outputs are command batches
    /\ Sampled \in BOOLEAN
    /\ Sampled => LaneCount["submission"] > 0
    /\ BatchSlots \in Nat \ {0}

VARIABLES
    state,                      \* RuntimeState
    stop_pending, lane_cleanup_pending, memory_cleanup_pending,
    sampled_stop_acknowledged,
    in_step,
    active_faulted,             \* a failed rate step: terminal for execution
    script,                     \* operations the current call has left
    failed,                     \* the call's cleanup_status is not ok
    gate,                       \* ThreadStartupGate::decision_
    lane,                       \* the life of each runtime thread
    stopping,                   \* roles whose stop flag is set
    watchdog_started,
    service,                    \* ExtensionServiceOwner flags
    admission,                  \* the extensions admit phase callbacks
    calling,                    \* an extension phase callback is executing
    owned,                      \* initialized_backends_
    released,                   \* ExtensionBackendOwner::released
    registered,                 \* buffers whose native token is held
    quarantined,                \* batch slots kept by timed-out rate batches
    resident,                   \* has_pending_operations()
    faults

pendings == <<stop_pending, lane_cleanup_pending, memory_cleanup_pending>>
threads == <<gate, lane, stopping, watchdog_started>>
steps == <<in_step, active_faulted>>
services == <<service, admission, calling>>
devices == <<owned, released, registered, quarantined>>
vars == <<state, pendings, sampled_stop_acknowledged, steps, script, failed,
          threads, services, devices, resident, faults>>

TypeOK ==
    /\ state \in {"finalized", "running", "stopped"}
    /\ stop_pending \in BOOLEAN
    /\ lane_cleanup_pending \in BOOLEAN
    /\ memory_cleanup_pending \in BOOLEAN
    /\ sampled_stop_acknowledged \in BOOLEAN
    /\ in_step \in BOOLEAN
    /\ active_faulted \in BOOLEAN
    /\ failed \in BOOLEAN
    /\ gate \in {"pending", "committed", "aborted"}
    /\ lane \in [Lanes -> {"none", "parked", "running", "quiescent"}]
    /\ stopping \subseteq Roles
    /\ watchdog_started \in BOOLEAN
    /\ service \in [1..Services ->
                      {"released", "live", "stop_requested", "quiesced"}]
    /\ admission \in BOOLEAN /\ calling \in BOOLEAN
    /\ owned \in [1..Backends -> {"none", "initialized", "uncertain"}]
    /\ released \in [1..Backends -> BOOLEAN]
    /\ registered \subseteq Buffers
    /\ quarantined \in 0..BatchSlots
    /\ resident \in BOOLEAN
    /\ faults \in 0..MaxFaults

\* A finalized runtime that has not been started.
Init ==
    /\ state = "finalized"
    /\ stop_pending = FALSE
    /\ lane_cleanup_pending = FALSE
    /\ memory_cleanup_pending = FALSE
    /\ sampled_stop_acknowledged = FALSE
    /\ in_step = FALSE
    /\ active_faulted = FALSE
    /\ script = <<>>
    /\ failed = FALSE
    /\ gate = "pending"
    /\ lane = [l \in Lanes |-> "none"]
    /\ stopping = {}
    /\ watchdog_started = FALSE
    /\ service = [s \in 1..Services |-> "released"]
    /\ admission = TRUE
    /\ calling = FALSE
    /\ owned = [b \in 1..Backends |-> "none"]
    /\ released = [b \in 1..Backends |-> TRUE]
    /\ registered = {}
    /\ quarantined = 0
    /\ resident = FALSE
    /\ faults = 0

-----------------------------------------------------------------------------
(* The operations of a call, in the order the code performs them.          *)

StartScript ==
    << <<"prepare">>, <<"initialize_services">>,
       <<"create", "watchdog">>, <<"create", "worker">>,
       <<"create", "service">>, <<"create", "submission">>,
       <<"verify_policy">>, <<"initialize_backends">>,
       <<"register_buffers">>, <<"commit">>, <<"wait_started">>,
       <<"safe_start">> >>

\* Mutant of DeviceScript: the backends go before the service lane is quiet.
DeviceScriptEager(with_backends) ==
    << <<"request_batch_stop">>, <<"join", "submission">>,
       <<"stop", "service">> >>
    \o (IF with_backends THEN << <<"shutdown_backends">> >> ELSE <<>>)
    \o << <<"await_service">>, <<"join", "service">> >>

\* DeviceManager::stop_lane() and, with the backends, DeviceManager::stop().
DeviceScript(with_backends) ==
    << <<"request_batch_stop">>, <<"join", "submission">>,
       <<"stop", "service">>, <<"await_service">> >>
    \o (IF with_backends THEN << <<"shutdown_backends">> >> ELSE <<>>)
    \o << <<"join", "service">> >>

WatchdogScript == << <<"stop", "watchdog">>, <<"join", "watchdog">> >>

\* rollback_startup; retry is retry_device_cleanup.
RollbackScript(retry) ==
    << <<"request_stop">>, <<"abort">> >>
    \o DeviceScript(retry)
    \o << <<"stop", "worker">>, <<"join", "worker">> >>
    \o WatchdogScript
    \o << <<"cleanup_services">>, <<"roll_back">> >>

\* The body of Runtime::stop() after its guards.
StopScript ==
    (IF state = "running" /\ ~sampled_stop_acknowledged
       THEN << <<"safe_stop">> >> ELSE <<>>)
    \o << <<"request_stop">> >>
    \o DeviceScript(TRUE)
    \o << <<"stop", "worker">>, <<"join", "worker">> >>
    \o (IF watchdog_started THEN WatchdogScript ELSE <<>>)
    \o << <<"cleanup_services">>, <<"finish_stop">> >>

Do(op) == script # <<>> /\ Head(script) = op
Advance == script' = Tail(script)
Return == script' = <<>>

\* n provider calls fail in this step.
Fail(n) == faults + n <= MaxFaults /\ faults' = faults + n
-----------------------------------------------------------------------------
(* Runtime::start().                                                       *)

\* The guards of start(); a refused call changes nothing.
Start ==
    /\ script = <<>>
    /\ ~in_step
    /\ state = "finalized"
    /\ ~lane_cleanup_pending
    /\ script' = (IF memory_cleanup_pending
                    THEN << <<"retry_memory">> >> ELSE <<>>) \o StartScript
    /\ UNCHANGED <<state, pendings, sampled_stop_acknowledged, steps, failed,
                   threads, services, devices, resident, faults>>

\* A start() after a rollback that could not release memory retries it first.
RetryMemory ==
    /\ Do(<<"retry_memory">>)
    /\ \/ /\ resident' = FALSE
          /\ memory_cleanup_pending' = FALSE
          /\ stop_pending' = FALSE
          /\ Advance
          /\ UNCHANGED faults
       \/ /\ Fail(1)
          /\ Return
          /\ UNCHANGED <<resident, memory_cleanup_pending, stop_pending>>
    /\ UNCHANGED <<state, lane_cleanup_pending, sampled_stop_acknowledged,
                   steps, failed, threads, services, devices>>

\* Preflight, memory policy and caller-frame policy.  A failure of the last
\* two rolls the memory back, and that may fail as well.
Prepare ==
    /\ Do(<<"prepare">>)
    /\ \/ /\ resident' = TRUE
          /\ gate' = "pending"
          /\ Advance
          /\ UNCHANGED faults
       \/ /\ Fail(1)
          /\ resident' \in BOOLEAN
          /\ Return
          /\ UNCHANGED gate
    /\ UNCHANGED <<state, pendings, sampled_stop_acknowledged, steps, failed,
                   lane, stopping, watchdog_started, services, devices>>

\* initialize_extension_services, in registration order: admission is opened
\* again first.  The service whose initialize fails is left unreleased; stop and
\* cleanup are tried at once and then again by the rollback.
InitializeServices ==
    /\ Do(<<"initialize_services">>)
    /\ admission' = TRUE
    /\ \/ /\ service' = [s \in 1..Services |-> "live"]
          /\ Advance
          /\ UNCHANGED faults
       \/ \E bad \in 1..Services :
            /\ Fail(1)
            /\ service' = [s \in 1..Services |->
                             IF s <= bad THEN "live" ELSE service[s]]
            /\ script' = << <<"request_stop">>, <<"cleanup_services">> >>
                         \o RollbackScript(TRUE)
    /\ UNCHANGED <<state, pendings, sampled_stop_acknowledged, steps, failed,
                   threads, calling, devices, resident>>

\* start_lane refuses to run over unresolved ownership.
Refused(r) ==
    \/ \E l \in LanesOf(r) : lane[l] # "none"
    \/ r = "service" /\ (registered # {} \/ \E b \in 1..Backends : owned[b] # "none")

\* WatchdogMonitor::start, Executor::start, DeviceManager::start_lane and
\* start_submission_lanes: threads are created in index order and park at the
\* gate.  Creation may stop at any of them, and a strict policy may reject the
\* role after all were created.
Create(r) ==
    /\ Do(<<"create", r>>)
    /\ \E made \in 0..LaneCount[r] :
         /\ Refused(r) => made = 0
         /\ lane' = [l \in Lanes |->
                       IF l[1] = r /\ l[2] <= made THEN "parked" ELSE lane[l]]
         /\ watchdog_started' =
              (watchdog_started \/ (r = "watchdog" /\ made = 1))
         /\ \/ /\ made = LaneCount[r]
               /\ Advance
               /\ UNCHANGED faults
            \/ /\ LaneCount[r] > 0
               /\ Fail(IF Refused(r) THEN 0 ELSE 1)
               /\ script' = RollbackScript(TRUE)
    /\ stopping' = stopping \ {r}
    /\ UNCHANGED <<state, pendings, sampled_stop_acknowledged, steps, failed,
                   gate, services, devices, resident>>

\* Strict runtime-stack policy and accounting closure.
VerifyPolicy ==
    /\ Do(<<"verify_policy">>)
    /\ \/ Advance /\ UNCHANGED faults
       \/ Fail(1) /\ script' = RollbackScript(TRUE)
    /\ UNCHANGED <<state, pendings, sampled_stop_acknowledged, steps, failed,
                   threads, services, devices, resident>>

\* What start() does when DeviceManager::initialize() fails: the backends get
\* one shutdown attempt and the rollback stops the lanes only.
InitializeFails ==
    script' = << <<"shutdown_backends">> >> \o RollbackScript(FALSE)

\* The first loop of initialize_backends.  A backend whose initialize fails
\* may own something: its ownership is uncertain.
InitializeBackends ==
    /\ Do(<<"initialize_backends">>)
    /\ \/ /\ owned' = [b \in 1..Backends |-> "initialized"]
          /\ released' = [b \in 1..Backends |-> FALSE]
          /\ Advance
          /\ UNCHANGED faults
       \/ \E bad \in 1..Backends :
            /\ Fail(1)
            /\ owned' = [b \in 1..Backends |->
                           IF b < bad THEN "initialized"
                           ELSE IF b = bad THEN "uncertain" ELSE owned[b]]
            /\ released' = [b \in 1..Backends |-> b > bad /\ released[b]]
            /\ InitializeFails
    /\ UNCHANGED <<state, pendings, sampled_stop_acknowledged, steps, failed,
                   threads, services, registered, quarantined, resident>>

\* Mutant of RegisterBuffers: the loop runs one buffer too far.
RegisterBuffersPastEnd ==
    /\ Do(<<"register_buffers">>)
    /\ registered' = 1..(Len(BufferOf) + 1)
    /\ Advance
    /\ UNCHANGED <<state, pendings, sampled_stop_acknowledged, steps, failed,
                   threads, services, owned, released, quarantined, resident,
                   faults>>

\* The second loop of initialize_backends.  A failed registration may leave a
\* token behind.
RegisterBuffers ==
    /\ Do(<<"register_buffers">>)
    /\ \/ /\ registered' = Buffers
          /\ Advance
          /\ UNCHANGED faults
       \/ \E bad \in Buffers, kept \in BOOLEAN :
            /\ Fail(1)
            /\ registered' = {j \in Buffers : j < bad \/ (j = bad /\ kept)}
            /\ InitializeFails
    /\ UNCHANGED <<state, pendings, sampled_stop_acknowledged, steps, failed,
                   threads, services, owned, released, quarantined, resident>>

\* thread_startup_gate.commit().
Commit ==
    /\ Do(<<"commit">>)
    /\ gate' = "committed"
    /\ Advance
    /\ UNCHANGED <<state, pendings, sampled_stop_acknowledged, steps, failed,
                   lane, stopping, watchdog_started, services, devices, resident,
                   faults>>

\* wait_started() of every lane.
WaitStarted ==
    /\ Do(<<"wait_started">>)
    /\ \A l \in Lanes : lane[l] # "parked"
    /\ Advance
    /\ UNCHANGED <<state, pendings, sampled_stop_acknowledged, steps, failed,
                   threads, services, devices, resident, faults>>

\* A safe output that is not acknowledged: its batch ends with an error, or
\* times out and stays in its slot, out of use until the backend is shut down.
\* The first output that fails ends the transition.
SafeOutputFails ==
    /\ Fail(1)
    /\ \/ UNCHANGED quarantined
       \/ quarantined < BatchSlots /\ quarantined' = quarantined + 1

\* The sampled-I/O startup transition; the runtime runs once it is
\* acknowledged.
SafeStart ==
    /\ Do(<<"safe_start">>)
    /\ \/ /\ state' = "running"
          /\ stop_pending' = FALSE
          /\ lane_cleanup_pending' = FALSE
          /\ memory_cleanup_pending' = FALSE
          /\ sampled_stop_acknowledged' = FALSE
          /\ Return
          /\ UNCHANGED <<quarantined, faults>>
       \/ /\ Sampled
          /\ SafeOutputFails
          /\ script' = RollbackScript(TRUE)
          /\ UNCHANGED <<state, pendings, sampled_stop_acknowledged>>
    /\ UNCHANGED <<steps, failed, threads, services, owned, released, registered,
                   resident>>
-----------------------------------------------------------------------------
(* Runtime::step() and stop().                                             *)

\* step() is a control call as well, so it does not begin inside start() or
\* stop(); one that begins while another step runs is refused.
StepBegin ==
    /\ script = <<>>
    /\ ~in_step
    /\ state = "running"
    /\ ~stop_pending
    /\ ~active_faulted
    /\ in_step' = TRUE
    /\ UNCHANGED <<state, pendings, sampled_stop_acknowledged, active_faulted,
                   script, failed, threads, services, devices, resident, faults>>

\* ActiveCall: a worker enters a phase callback of an extension.  Once
\* admission is closed the phase fails without being called.
ExtensionEnter ==
    /\ in_step
    /\ admission
    /\ ~calling
    /\ calling' = TRUE
    /\ UNCHANGED <<state, pendings, sampled_stop_acknowledged, steps, script,
                   failed, threads, service, admission, devices, resident, faults>>

ExtensionLeave ==
    /\ calling
    /\ calling' = FALSE
    /\ UNCHANGED <<state, pendings, sampled_stop_acknowledged, steps, script,
                   failed, threads, service, admission, devices, resident, faults>>

\* A step returns after its callbacks have.  Rate batches of the step may have
\* timed out and keep their slots; a failed rate step may set active_faulted.
StepEnd ==
    /\ in_step
    /\ ~calling
    /\ in_step' = FALSE
    /\ \/ UNCHANGED <<active_faulted, quarantined, faults>>
       \/ /\ Sampled
          /\ \E n \in 0..(BatchSlots - quarantined) :
               /\ Fail(IF n = 0 THEN 1 ELSE n)
               /\ quarantined' = quarantined + n
          /\ active_faulted' \in {active_faulted, TRUE}
    /\ UNCHANGED <<state, pendings, sampled_stop_acknowledged, script, failed,
                   threads, services, owned, released, registered, resident>>

\* Mutant of AskServices: admission stays open.
AskServicesOpen(refused) ==
    /\ refused \subseteq {s \in 1..Services : service[s] = "live"}
    /\ Fail(Cardinality(refused))
    /\ service' = [s \in 1..Services |->
                     IF service[s] = "live" /\ s \notin refused
                       THEN "stop_requested" ELSE service[s]]
    /\ UNCHANGED <<admission, calling>>

\* request_extension_stop: extension admission is closed, then every unreleased
\* service is asked once; one that refuses is asked again by the next stop.
AskServices(refused) ==
    /\ refused \subseteq {s \in 1..Services : service[s] = "live"}
    /\ Fail(Cardinality(refused))
    /\ admission' = FALSE
    /\ service' = [s \in 1..Services |->
                     IF service[s] = "live" /\ s \notin refused
                       THEN "stop_requested" ELSE service[s]]
    /\ UNCHANGED calling

\* stop() during a step, replay or periodic run is rejected, after asking the
\* extension services to stop and, from outside a callback, the command
\* backends and their submission lanes.
StopInStep ==
    /\ in_step
    /\ \E refused \in SUBSET (1..Services) : AskServices(refused)
    /\ \/ UNCHANGED stopping
       \/ /\ LaneCount["submission"] > 0
          /\ stopping' = stopping \cup {"submission"}
    /\ UNCHANGED <<state, pendings, sampled_stop_acknowledged, steps, script,
                   failed, gate, lane, watchdog_started, devices, resident>>

\* The guards of stop(); a stopped runtime returns at once.
Stop ==
    /\ script = <<>>
    /\ ~in_step
    /\ state # "stopped"
    /\ script' = StopScript
    /\ UNCHANGED <<state, pendings, sampled_stop_acknowledged, steps, failed,
                   threads, services, devices, resident, faults>>

\* The sampled-I/O shutdown transition.  Its acknowledgement is kept, so a
\* retried stop() does not submit it again.  The safe outputs are submitted as
\* command batches: refused once the submission lanes were told to stop, and
\* refused when every slot of the backend holds a timed-out batch.
SafeOutputsRefused == "submission" \in stopping \/ quarantined = BatchSlots

SafeStop ==
    /\ Do(<<"safe_stop">>)
    /\ \/ /\ Sampled => ~SafeOutputsRefused
          /\ sampled_stop_acknowledged' = TRUE
          /\ Advance
          /\ UNCHANGED <<stop_pending, quarantined, faults>>
       \/ /\ Sampled
          /\ IF SafeOutputsRefused THEN UNCHANGED <<quarantined, faults>>
                                   ELSE SafeOutputFails
          /\ stop_pending' = TRUE
          /\ Return
          /\ UNCHANGED sampled_stop_acknowledged
    /\ UNCHANGED <<state, lane_cleanup_pending, memory_cleanup_pending, steps,
                   failed, threads, services, owned, released, registered,
                   resident>>

\* request_extension_stop opens every teardown: `failed` starts afresh.
RequestStop ==
    /\ Do(<<"request_stop">>)
    /\ \E refused \in SUBSET (1..Services) :
         AskServices(refused) /\ failed' = (refused # {})
    /\ Advance
    /\ UNCHANGED <<state, pendings, sampled_stop_acknowledged, steps, threads,
                   devices, resident>>

\* thread_startup_gate.abort().
Abort ==
    /\ Do(<<"abort">>)
    /\ gate' = "aborted"
    /\ Advance
    /\ UNCHANGED <<state, pendings, sampled_stop_acknowledged, steps, failed,
                   lane, stopping, watchdog_started, services, devices, resident,
                   faults>>

\* The command backends that request_batch_stop asks to stop.
RequestNeeded ==
    {b \in 1..LaneCount["submission"] :
       owned[b] # "none" \/ lane[<<"submission", b>>] # "none"}

RequestBatchStop ==
    /\ Do(<<"request_batch_stop">>)
    /\ \E refused \in SUBSET RequestNeeded :
         /\ Fail(Cardinality(refused))
         /\ failed' = (failed \/ refused # {})
    /\ stopping' = stopping \cup {"submission"}
    /\ Advance
    /\ UNCHANGED <<state, pendings, sampled_stop_acknowledged, steps, gate,
                   lane, watchdog_started, services, devices, resident>>

\* The stop flag and wake-up of a role's lanes.
StopLanes(r) ==
    /\ Do(<<"stop", r>>)
    /\ stopping' = stopping \cup {r}
    /\ Advance
    /\ UNCHANGED <<state, pendings, sampled_stop_acknowledged, steps, failed,
                   gate, lane, watchdog_started, services, devices, resident,
                   faults>>

\* NativeThread::wait_quiescent for every thread of the role that exists.
Quiet(r) == \A l \in LanesOf(r) : lane[l] \in {"none", "quiescent"}

AwaitService ==
    /\ Do(<<"await_service">>)
    /\ Quiet("service")
    /\ Advance
    /\ UNCHANGED <<state, pendings, sampled_stop_acknowledged, steps, failed,
                   threads, services, devices, resident, faults>>

\* Mutant of Join: a lane whose cleanup failed once is never asked again.
JoinOnce(r) ==
    /\ Do(<<"join", r>>)
    /\ Quiet(r)
    /\ \E stuck \in SUBSET {l \in LanesOf(r) : lane[l] = "quiescent"} :
         /\ IF lane_cleanup_pending
              THEN /\ stuck = {l \in LanesOf(r) : lane[l] = "quiescent"}
                   /\ UNCHANGED faults
              ELSE Fail(Cardinality(stuck))
         /\ failed' = (failed \/ stuck # {})
         /\ lane' = [l \in Lanes |->
                       IF l[1] = r /\ l \notin stuck THEN "none" ELSE lane[l]]
         /\ watchdog_started' =
              (watchdog_started /\ (r = "watchdog" => stuck # {}))
    /\ Advance
    /\ UNCHANGED <<state, pendings, sampled_stop_acknowledged, steps, gate,
                   stopping, services, devices, resident>>

\* NativeThread::cleanup_and_join on each lane of the role: a lane whose stack
\* cleanup fails stays quiescent and joinable.
Join(r) ==
    /\ Do(<<"join", r>>)
    /\ Quiet(r)
    /\ \E stuck \in SUBSET {l \in LanesOf(r) : lane[l] = "quiescent"} :
         /\ Fail(Cardinality(stuck))
         /\ failed' = (failed \/ stuck # {})
         /\ lane' = [l \in Lanes |->
                       IF l[1] = r /\ l \notin stuck THEN "none" ELSE lane[l]]
         /\ watchdog_started' =
              (watchdog_started /\ (r = "watchdog" => stuck # {}))
    /\ Advance
    /\ UNCHANGED <<state, pendings, sampled_stop_acknowledged, steps, gate,
                   stopping, services, devices, resident>>
\* Mutant of ShutdownBackends: backend_has_registered_buffers is not asked.
ShutdownBackendsUnchecked ==
    /\ Do(<<"shutdown_backends">>)
    /\ \E stuck \in SUBSET registered :
         /\ Fail(Cardinality(stuck))
         /\ failed' = (failed \/ stuck # {})
         /\ registered' = stuck
    /\ owned' = [b \in 1..Backends |-> "none"]
    /\ released' = [b \in 1..Backends |-> TRUE]
    /\ quarantined' = 0
    /\ Advance
    /\ UNCHANGED <<state, pendings, sampled_stop_acknowledged, steps, threads,
                   services, resident>>

\* shutdown_backends: unregister every held buffer, then shut down every owned
\* backend that has none left.  invalid_state means "nothing to release" only
\* after a failed initialize; ExtensionBackendOwner::shutdown takes it for a
\* release in either case.  Only when all of it succeeds are the slots of
\* timed-out rate batches freed (release_rate_slots_after_shutdown).
ShutdownBackends ==
    /\ Do(<<"shutdown_backends">>)
    /\ \E stuck \in SUBSET registered,
          result \in [1..Backends -> {"ok", "invalid_state", "error"}] :
         LET called == {b \in 1..Backends :
                          /\ owned[b] # "none"
                          /\ \A j \in stuck : BufferOf[j] # b}
             done == {b \in called :
                        \/ result[b] = "ok"
                        \/ result[b] = "invalid_state" /\ owned[b] = "uncertain"}
         IN /\ {j \in registered : owned[BufferOf[j]] = "none"} \subseteq stuck
            /\ \A b \in 1..Backends \ called : result[b] = "ok"
            /\ Fail(Cardinality(stuck) + Cardinality(called \ done))
            /\ failed' = (failed \/ stuck # {} \/ called # done)
            /\ registered' = stuck
            /\ owned' = [b \in 1..Backends |->
                           IF b \in done THEN "none" ELSE owned[b]]
            /\ released' = [b \in 1..Backends |->
                              released[b] \/ (b \in called /\ result[b] # "error")]
            /\ quarantined' = IF stuck = {} /\ called = done THEN 0
                                                            ELSE quarantined
    /\ Advance
    /\ UNCHANGED <<state, pendings, sampled_stop_acknowledged, steps, threads,
                   services, resident>>

\* How cleanup_extension_services may leave service s: it skips a service that
\* was not asked to stop or whose backend is unreleased, else quiesces it and
\* then shuts it down.  What remains, a backend not released or a callback
\* still executing is a failed cleanup.
CleanupResults(s) ==
    IF \/ service[s] \in {"released", "live"}
       \/ \E b \in Related[s] : ~released[b]
      THEN {service[s]}
      ELSE {service[s], "quiesced", "released"}

CleanupServices ==
    /\ Do(<<"cleanup_services">>)
    /\ \E left \in [1..Services ->
                      {"released", "live", "stop_requested", "quiesced"}] :
         /\ \A s \in 1..Services : left[s] \in CleanupResults(s)
         /\ Fail(Cardinality({s \in 1..Services :
                    left[s] # "released" /\ "released" \in CleanupResults(s)}))
         /\ failed' = (failed \/ \E s \in 1..Services : left[s] # "released"
                              \/ \E b \in 1..Backends : ~released[b]
                              \/ calling)
         /\ service' = left
    /\ Advance
    /\ UNCHANGED <<state, pendings, sampled_stop_acknowledged, steps, threads,
                   admission, calling, devices, resident>>

\* Mutant of LanesClean: only the device manager is asked.
LanesCleanDevicesOnly ==
    /\ registered = {}
    /\ \A b \in 1..Backends : owned[b] = "none"
    /\ \A l \in LanesOf("service") \cup LanesOf("submission") : lane[l] = "none"

\* lanes_clean: no cleanup error and DeviceManager::cleanup_pending() false.
LanesClean ==
    /\ ~failed
    /\ registered = {}
    /\ \A b \in 1..Backends : owned[b] = "none"
    /\ \A l \in LanesOf("service") \cup LanesOf("submission") : lane[l] = "none"

\* Memory is rolled back once everything above it is gone; that may fail.
ReleaseMemory == resident' = FALSE /\ UNCHANGED faults
ReleaseMemoryFails == resident /\ Fail(1) /\ UNCHANGED resident

\* Mutant of RollBack: memory is rolled back whatever the lanes are.
RollBackAlways ==
    /\ Do(<<"roll_back">>)
    /\ ReleaseMemory
    /\ lane_cleanup_pending' = ~LanesClean
    /\ memory_cleanup_pending' = (LanesClean /\ resident')
    /\ stop_pending' = (lane_cleanup_pending' \/ memory_cleanup_pending')
    /\ Return
    /\ UNCHANGED <<state, sampled_stop_acknowledged, steps, failed, threads,
                   services, devices>>

\* Mutant of RollBack: lane_cleanup_pending is left alone.
RollBackForgets ==
    /\ Do(<<"roll_back">>)
    /\ \/ LanesClean /\ ReleaseMemory
       \/ LanesClean /\ ReleaseMemoryFails
       \/ ~LanesClean /\ UNCHANGED <<resident, faults>>
    /\ memory_cleanup_pending' = (LanesClean /\ resident')
    /\ stop_pending' = (~LanesClean \/ memory_cleanup_pending')
    /\ Return
    /\ UNCHANGED <<state, lane_cleanup_pending, sampled_stop_acknowledged,
                   steps, failed, threads, services, devices>>

\* The end of rollback_startup: the runtime stays finalized, and may be
\* started again unless cleanup is pending.
RollBack ==
    /\ Do(<<"roll_back">>)
    /\ \/ LanesClean /\ ReleaseMemory
       \/ LanesClean /\ ReleaseMemoryFails
       \/ ~LanesClean /\ UNCHANGED <<resident, faults>>
    /\ lane_cleanup_pending' = ~LanesClean
    /\ memory_cleanup_pending' = (LanesClean /\ resident')
    /\ stop_pending' = (lane_cleanup_pending' \/ memory_cleanup_pending')
    /\ Return
    /\ UNCHANGED <<state, sampled_stop_acknowledged, steps, failed, threads,
                   services, devices>>

\* The end of stop().
FinishStop ==
    /\ Do(<<"finish_stop">>)
    /\ lane_cleanup_pending' = ~LanesClean
    /\ \/ /\ ~LanesClean
          /\ memory_cleanup_pending' = FALSE
          /\ stop_pending' = TRUE
          /\ UNCHANGED <<state, resident, faults>>
       \/ /\ LanesClean /\ ReleaseMemoryFails
          /\ memory_cleanup_pending' = TRUE
          /\ stop_pending' = TRUE
          /\ UNCHANGED state
       \/ /\ LanesClean /\ ReleaseMemory
          /\ memory_cleanup_pending' = FALSE
          /\ stop_pending' = FALSE
          /\ state' = "stopped"
    /\ Return
    /\ UNCHANGED <<sampled_stop_acknowledged, steps, failed, threads, services,
                   devices>>

-----------------------------------------------------------------------------
(* NativeThread::run_entry of a lane.                                      *)

\* The gate lets the body run, or skips it.
LanePass(l) ==
    /\ lane[l] = "parked"
    /\ gate # "pending"
    /\ lane' = [lane EXCEPT ![l] = IF gate = "committed" THEN "running"
                                   ELSE "quiescent"]
    /\ UNCHANGED <<state, pendings, sampled_stop_acknowledged, steps, script,
                   failed, gate, stopping, watchdog_started, services, devices,
                   resident, faults>>

\* The body returns once its role is told to stop.
LaneExit(l) ==
    /\ lane[l] = "running"
    /\ l[1] \in stopping
    /\ lane' = [lane EXCEPT ![l] = "quiescent"]
    /\ UNCHANGED <<state, pendings, sampled_stop_acknowledged, steps, script,
                   failed, gate, stopping, watchdog_started, services, devices,
                   resident, faults>>
Done == state = "stopped" /\ script = <<>> /\ UNCHANGED vars

\* The host thread inside a call.
CallStep ==
    \/ RetryMemory \/ Prepare \/ InitializeServices \/ VerifyPolicy
    \/ InitializeBackends \/ RegisterBuffers \/ Commit \/ WaitStarted
    \/ SafeStart \/ SafeStop \/ RequestStop \/ Abort \/ RequestBatchStop
    \/ AwaitService \/ ShutdownBackends \/ CleanupServices \/ RollBack
    \/ FinishStop
    \/ \E r \in Roles : Create(r) \/ StopLanes(r) \/ Join(r)

LaneStep(l) == LanePass(l) \/ LaneExit(l)

Next ==
    \/ Start \/ StepBegin \/ StepEnd \/ StopInStep \/ Stop
    \/ ExtensionEnter \/ ExtensionLeave
    \/ CallStep
    \/ \E l \in Lanes : LaneStep(l)
    \/ Done

Spec == Init /\ [][Next]_vars

\* The operating system runs every thread, callbacks return, a step ends, and
\* the host follows the documented rule of repeating stop() while cleanup is
\* pending.
FairSpec ==
    /\ Spec
    /\ WF_vars(CallStep)
    /\ WF_vars(StepEnd) /\ WF_vars(ExtensionLeave)
    /\ \A l \in Lanes : WF_vars(LaneStep(l))
    /\ WF_vars(stop_pending /\ Stop)

-----------------------------------------------------------------------------
(* Properties.                                                             *)

\* The resident memory policy (executor scratch, trace and phase storage) is
\* held as long as anything that may use that storage is: a runtime thread not
\* yet joined, a backend or buffer not yet released, a service not yet shut
\* down.  Every failing start(), rollback, stop() and retry keeps this.
MemoryOutlivesUsers ==
    \/ \E l \in Lanes : lane[l] # "none"
    \/ \E b \in 1..Backends : owned[b] # "none"
    \/ registered # {}
    \/ \E s \in 1..Services : service[s] # "released"
    => resident

\* stop() reports success only after every owner is gone: threads joined,
\* watchdog forgotten, buffers unregistered, backends shut down, services shut
\* down, memory rolled back, and no batch slot kept by a timed-out batch.
StoppedIsClean ==
    state = "stopped" =>
        /\ \A l \in Lanes : lane[l] = "none"
        /\ \A b \in 1..Backends : owned[b] = "none" /\ released[b]
        /\ \A s \in 1..Services : service[s] = "released"
        /\ registered = {} /\ ~watchdog_started /\ ~resident
        /\ quarantined = 0

\* A backend that still holds one of our buffers has not been shut down, in
\* whatever order unregistrations and shutdowns fail and are retried.
BuffersFirst ==
    \A j \in registered : owned[BufferOf[j]] # "none"

\* While a step executes, everything it uses is alive: workers, watchdog and
\* device service lane run, every backend and buffer is held, memory is applied
\* and no extension service is quiesced or shut down.  A stop() that arrives
\* during the step takes none of it away.  What it does take is admission: the
\* submission lanes may end, and extension phases not yet entered are refused;
\* an extension phase is admitted only while no service was asked to stop.
StepIsBacked ==
    in_step =>
        /\ \A l \in Lanes : l[1] # "submission" => lane[l] = "running"
        /\ \A b \in 1..Backends : owned[b] = "initialized"
        /\ registered = Buffers
        /\ resident
        /\ \A s \in 1..Services :
             service[s] \in IF admission THEN {"live"} ELSE {"live", "stop_requested"}

\* The runtime is idle, finalized and free to start only if nothing is left
\* over from an earlier attempt but, at most, memory the next start() rolls
\* back: otherwise start() is refused until stop() has cleaned up.
RestartIsClean ==
    (script = <<>> /\ state = "finalized" /\ ~lane_cleanup_pending) =>
        /\ \A l \in Lanes : lane[l] = "none"
        /\ \A b \in 1..Backends : owned[b] = "none" /\ released[b]
        /\ \A s \in 1..Services : service[s] = "released"
        /\ quarantined = 0

\* No buffer is unregistered and no backend shut down under a device lane that
\* is executing its body.
QuietTeardown ==
    [][(registered' \subseteq registered /\ registered' # registered)
         \/ (\E b \in 1..Backends : owned[b] # "none" /\ owned'[b] = "none")
       => \A l \in LanesOf("service") \cup LanesOf("submission") :
            lane[l] # "running"]_vars

\* The safe outputs are still owed and every further stop() is refused at them,
\* providers working: a stop() during a step has closed batch admission, or
\* timed-out batches hold every slot of the backend.  Only a finished stop()
\* opens the one and frees the other.
SafeOutputsStuck ==
    /\ Sampled /\ state = "running" /\ ~sampled_stop_acknowledged
    /\ SafeOutputsRefused

\* Pending cleanup is resolved, once providers stop failing, by repeating
\* stop(): no combination of partial failures in start(), step(), rollback and
\* stop() leaves the runtime where neither a start() nor a further stop() can
\* succeed, unless the safe outputs are or become stuck.
CleanupResolves ==
    (stop_pending /\ ~SafeOutputsStuck) ~> (~stop_pending \/ SafeOutputsStuck)

\* docs/device_backend.md, safe outputs: "A failed acknowledgement remains
\* unknown and must execute successfully on retry before teardown may complete."
\* That the retry can: does not hold, even if no stop() came during a step.  A
\* safe output that times out keeps its slot, and once all slots are kept a
\* retried stop() cannot send it.
RetriedStopAcknowledges ==
    (state = "running" /\ stop_pending /\ "submission" \notin stopping)
        ~> state = "stopped"

\* docs/host_runtime.md, stop() during a step: "the host retries checked stop
\* after the active step quiesces".  A host that keeps retrying a stop() that
\* failed stops the runtime in the end, providers working.
RetriedStopStops == (state = "running" /\ stop_pending) ~> state = "stopped"

\* docs/extension_registration.md, checked stop: "retain any service related
\* to an unresolved backend".  Does not hold: a shutdown answered INVALID_STATE
\* releases the service of a backend that is still owned.
ServiceRetained ==
    \A s \in 1..Services : \A b \in Related[s] :
        owned[b] # "none" => service[s] # "released"

\* docs/host_runtime.md: "The service lane is joined before buffers are
\* unregistered and backend shutdown returns."  Does not hold: the lane is only
\* quiescent then, and joined afterwards.
JoinedBeforeUnregister ==
    [][(registered' \subseteq registered /\ registered' # registered)
       => \A l \in LanesOf("service") : lane[l] = "none"]_vars
=============================================================================
