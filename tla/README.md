# Verification of the RTFW runtime

TLA+ models, TLC runs and TLAPS proofs for the bounded simulation runtime under
`rt/src`. Paths below are relative to the repository root. `PROJECT.json` names,
for every definition, the source lines it models; this file explains the whole.

## 1. The system

A host program configures a `Runtime`, finalizes it, starts it, calls `step()`
once for each frame and stops it. Everything is bounded and allocated before the
start: queues, slots, scratch, trace. What makes it hard is that a frame is worked
on by many threads that share words, not locks.

| Part | State | Operations | Talks to |
|---|---|---|---|
| Work queue (`executor.cpp`, `Executor::Queue`) | ring of cells with sequence numbers, two positions | `try_push`, `try_pop` | workers, frame thread, device lane |
| Executor (`executor.cpp`) | pending count, phase states, indegrees, scratch bitmap, failure record | `run`, `run_selected`, `submit`, `execute_phase`, `complete_external` | queues, device manager, host callbacks |
| Nested work, host adapter (`executor.cpp`) | task groups; host slots with generations | `parallel_for`, reductions; submit, call back, complete | executor, the host's job system |
| Device manager, single submissions (`device_manager.cpp`) | outstanding slots, count, wake word | `submit`, `poll`, `finalize_completion`, service lane | executor, backends |
| Device manager, batches (`device_manager.cpp`, `.hpp`) | batch slots, timeline, admission, retained failure, tickets | `submit_batch`, submission lane, service lane, `wait_rate_batch`, `request_batch_stop`, `stop` | executor, rate dispatch, backends |
| Lifecycle (`host_runtime.cpp` with thread, memory and extension policy) | runtime state, pending flags, owned lanes, backends, buffers, services, memory | `start`, rollback, `step`, `stop`, retry | all parts |
| Watchdog (`watchdog_monitor.cpp`) | one word (token, fired bit), two deadlines | `arm`, `complete`, lane, `stop` | frame thread |
| Rates, cross-rate data, sampled I/O (`rate_*.cpp`, `cross_rate_data.cpp`, `sampled_io.cpp`) | release times, snapshot generations, publication claims | dispatch, publish, copy, retire | batches, frame thread |
| Live controls (`live_control_*.cpp`) | mailbox slots, producer sequences, reservation | admit, commit, reclaim, inspect | producers in other threads, frame boundary |
| Telemetry (`telemetry.cpp`) | ring of slots with committed sequences | `emit`, read | every thread |
| Backends (`mock`, `loopback`, `xdma`, `cuda`) | their own request slots | submit, poll, cancel | device manager |

The behaviours that are hard to test, and where they bite, are the `hazards` of
`PROJECT.json`. Four kinds keep coming back:

* a slot is recognised by its *state*, its *contents* are read before or after, and
  in between the slot is freed and used again;
* work is counted in one word and published in another;
* a thread looks, decides to sleep, and must not miss what happens in between;
* one step of many fails, and what could not be undone must stay owned and be
  retried.

## 2. The modules

Every module has its state as variables named after the fields of the code, an
action for each step of a thread that another thread can observe, and the history
variables its properties need. As a rule that is one action for each access to a
shared word. Accesses are merged where the order inside the step is not at stake:
plain fields are written with the store that publishes them, a failed
compare-exchange that only repeats a decision is part of the decision,
`release_rate_batch` is one step, and `Lifecycle` has one action for each operation
of a control call. Definitions called "Mutant" are faulty variants of the definition after
them, one for each checked property; they are not part of any specification.

**WorkQueue** — `Executor::Queue`. `PushBegin`, `PushCheck`, `PushClaim`,
`PushLose`, `PushWrite`, `PushPublish` are the accesses of `try_push`, the `Pop...`
actions those of `try_pop`. The plain access to `cell.item` is a step of its own,
so that two threads in one cell are visible. The attempt limit is abstracted to a
choice between retrying and giving up. Positions do not wrap (2^64 pushes).

**Executor** — the graph executor under the native policies. `pending` is
`graph_group_.pending`; `phase_states` moves idle, dispatching, pending or
external_ready, finalized, by the compare-exchanges of `execute_phase`
(`Claim`, `Resolve`, `Park`, `Absorb`) and `complete_external`
(`ExternalPending`, `ExternalReady`). A queue is the bounded FIFO that the
theorems about WorkQueue establish, with refusals at any time. A callback is its
outcome: ok, failed, or a device submission. `Run` and `RunSelected` are repeated
for ever.

**DeviceSlots** — single submissions. The worker's side of the handshake is
`Acquire` to `Publish` and `ClaimEarly`; the lane polls, processes, finalizes and
fails. A backend completes accepted work in any order, also before `submit`
returns. `finalize_completion` is three steps, because it reads
`slot.phase_index` after it has freed the slot.

**DeviceBatches** — command batches of one backend: the worker that fills a slot,
the submission lane with its waits and the vendor call, the service lane with
polling, validation, retained failures and timeouts, the frame owner that consumes
rate tickets, and the host that stops. `kind` tells ordinary batches (they release
a graph token), rate batches (they end in a ticket) and simulated ones (rate
batches with a logical deadline) apart; a runtime dispatches all its batches by
rate or none, so `Families` holds the sets of kinds that occur together. Reserving
a slot, filling it, counting it and queueing it are separate steps, and so are
counting a batch out, freeing its slot and waking the lane. A poll may fail, and a
completion may match no batch or be malformed; all fail the batches of the
backend. The timeline has one value for each accepted batch.

**Lifecycle** — `start()`, `step()`, `stop()`. A control call is the sequence
`script` of operations still to do; each operation may fail where its provider
may, and the failure cuts the script off, replaces it by the rollback, or is noted
and carried on with, as the code does. Lanes move by themselves through created,
waiting at the gate, running, finished, joined. The host makes one control call
at a time, `step()` included, as `docs/host_runtime.md:119` asks; the exception is
`stop()` during a step. A step may call back into an extension (`ExtensionEnter`,
`ExtensionLeave`) while extension admission is open; the stop request closes it,
and cleanup does not release a service under a call. A batch that times out, in a
step or as a safe output, keeps its slot (`quarantined`) until the backends are
shut down, and a failed rate step (`active_faulted`) ends stepping for good.

**Watchdog** — `WatchdogMonitor`: the frame thread and the lane on `active_state_`,
the runtime clock and the steady clock advancing independently, notifications
that are lost unless the lane is blocked, and a wait that ends by itself. The
history `due` keeps when the timeout of the last arm is over in unbounded
arithmetic, next to the `service_deadline` that saturates at the end of the clock.

**WorkQueueProofs**, **WatchdogProofs** — the theorems, see section 5.

The modules meet at their interfaces rather than in one product: Executor uses
the queue that WorkQueue verifies; `CompleteExternal` of Executor may happen once
for each accepted submission, at any time from then on, which is what
`AppliedOnce` and `AcceptedIsApplied` (DeviceSlots) and `AppliedOnce` and
`BatchEnds` (DeviceBatches) say of the callers; Lifecycle ends lanes only between
frames, which the other modules assume. Where a finding (section 4) breaks such a
promise, the executor's properties do not carry over to the running system.

## 3. The runs

Times are for two TLC workers. No run has a state constraint; bounds are guards.

| Run | Instance | Checks | States |
|---|---|---|---|
| `work_queue` | 3 threads, 2 cells, 5 positions | `TypeOK`, `CellExclusive`, `Fifo`, `Bounded` | 350,720 |
| `executor` | 2 workers, 1 device lane, a diamond of 4 phases | `TypeOK`, `TokenCount`, `Quiescent`, `DependencyOrder`, `OkMeansAll`, `LowestFailure`, `RunReturns` | 110,852 |
| `device_slots` | 2 workers, 2 slots, 2 backends | `TypeOK`, `CountExact`, `AppliedOnce`, `SuccessIsReported` | 713,264 |
| `device_slots_live` | 2 workers, 1 slot | `AcceptedIsApplied` | 81,288 |
| `watchdog` | timeout 2, clocks to 5, 3 steps | `NeverEarly`, `Disarmed`, `OneShot`, `ExpiryNoticed`, `StopReturns` | 685,190 |
| `lifecycle` | 5 lanes, 2 backends with a buffer each, 2 services, 2 batch slots, 5 failures | `TypeOK`, `MemoryOutlivesUsers`, `StoppedIsClean`, `BuffersFirst`, `StepIsBacked`, `RestartIsClean`, `QuietTeardown`, `CleanupResolves` | 222,308 |
| `device_batches` | 2 slots, 2 ordinary batches, 1 stop, also during the step | `TypeOK`, `CountExact`, `TimelineHonest`, `VendorStable` | 2,195,611 |
| `device_batches_live` | 1 slot, 2 ordinary batches, 1 fault, 1 stop | `AppliedOnce`, `BatchEnds`, `StopReturns` | 158,118 |
| `device_batches_faults` | 1 slot, 2 ordinary or 2 rate and simulated batches that end ok or with an error, 1 fault, 2 stops | `TicketExact`, `SuccessIsReported`, `TimelineHonest`, `QuarantineHolds` | 986,038 |

Three more runs show counterexamples: `device_slots_token`, `device_batches_once`
and `lifecycle_retry` (section 4).

What the properties say:

* *Queue.* Never two threads in one cell; items leave in the order their pushes
  claimed positions, each once; never more claimed positions than cells.
* *Executor.* The pending count is exactly the work that exists; when `run()` has
  returned nothing of the run is left; phases start after their predecessors
  succeeded; ok means every phase ran once and succeeded; the reported phase is
  the lowest one that failed; every run returns.
* *Devices.* Counts are exact (the lane may sleep at zero); a completion is applied
  at most once, and every accepted submission in the end; success is never
  invented; the timeline advances only for completed batches; a slot in a vendor
  call keeps its batch; a ticket is answered once, by its own batch; quarantined
  slots stay quarantined; every stop returns.
* *Lifecycle.* Memory outlives its users; a stopped runtime owns nothing; no backend
  goes away with our buffer; no teardown under a running device lane; a step has
  all it needs, and its extensions are not called once their services were asked to
  stop; a runtime that may start again has nothing left over; repeating `stop()`
  resolves pending cleanup, unless the safe outputs are stuck (section 4).
* *Watchdog.* Never early (a deadline past the end of the clock included), never a
  late revival, exactly one report, no missed hang.

**Bounds.** Two cells used for more than two laps give every relation between a
position and a sequence number (the previous, this and the next lap) and full,
empty and wrap-around; the proofs remove the bound. The diamond has a fork, a join
with a race of two predecessors, and a device phase; capacity and scratch are
smaller than what the graph can ask for, and refusals may happen anyway. Two slots
and two batches let a slot be reused while another thread still works on its
previous batch, and a wait refer to an earlier batch. Five failures are more than
one failing operation in each of start, rollback, stop, retry and again. The batch
runs split what is too large together. Two slots and a stop during the step go
without faults; faults go with one slot. `Verdicts`, how the backend ends a batch,
is ok and error in `device_batches_faults`, where success and failure are told
apart. In `device_batches` and `device_batches_live` it is ok alone, to keep them
in reach: counts, slots, tokens and wakes take the same course for both, an error
only leaves the timeline behind, and failures come from timeouts, stops and, in
the second, the fault. Two slots of ordinary
batches with a fault (910,575 states, stop after the step) and two slots of rate
batches with two stops (527,306 states), with verdict ok, also satisfy
`TicketExact`, `CountExact`, `VendorStable`, `SuccessIsReported`,
`TimelineHonest` and `QuarantineHolds`. Two batch slots in Lifecycle let one
timeout leave room for a retry and two leave none. Two
clocks up to five with timeout two let each clock run ahead of the other across a
step and reach saturation.

**Deadlock** is checked except in the device runs: there the host may have stopped
the system, or every worker waits for a slot.

**Symmetry** is used for threads, items, slots and ids in runs without liveness.

**Fairness.** All fairness is scheduling of the runtime's own threads: a thread
that can go on does. Beyond that: in Executor a worker that keeps trying its queue
while an item is there pops one in the end (`try_pop` fails on an item only while
another thread is at the same cell); in DeviceSlots a backend finishes what it
accepted (single submissions have no timeout in the code); in DeviceBatches
nothing is assumed of the backend, but time passes, vendor calls return and
tickets are consumed; in Lifecycle callbacks return, a step ends and the host
repeats `stop()` while cleanup is pending, as the documentation asks; in Watchdog nothing at all is
assumed of the frame thread, only that the lane runs and its timed wait ends.

## 4. Where code and documentation disagree

Each run below checks one property that a document or comment of the repository
states, and TLC finds it violated; `findings` quotes the lines.

* `device_slots_token`: `finalize_completion` (`rt/src/device_manager.cpp:1494`)
  frees the slot before it reads `slot.phase_index`. A worker that takes the slot
  in between has its own phase completed.
* `device_batches_once`: `request_batch_stop` (`rt/src/device_manager.cpp:645`)
  has the same shape: it takes the graph token of a slot and then reads whose it
  was. Without a stop during a step, `AppliedOnce` holds
  (`device_batches_live`).
* `lifecycle_retry`: with sampled I/O a `stop()` during a step closes the batch
  admission that the retried `stop()` needs for the safe outputs
  (`rt/src/host_runtime.cpp:12042`); no later `stop()` succeeds.

`CleanupResolves` excludes the states `SafeOutputsStuck`, in which the safe outputs
are owed and every further `stop()` is refused at them. They have two causes: the
stop during a step above, and timed-out batches that hold every slot
(`RetriedStopAcknowledges` below).

Five more properties are stated in the modules and fail; adding them to the cfg
named shows the behaviour:

* `WaitsHonoured` (DeviceBatches, `MCDeviceBatchesLive.cfg`): the submission lane
  claims a selected slot by its state (`rt/src/device_manager.cpp:1884`) and may
  submit a newer batch whose waits it never saw.
* `TimeoutIsDue` (DeviceBatches, `MCDeviceBatchesFaults.cfg`): the timeout scan
  (`rt/src/device_manager.cpp:2248`) may quarantine a newer rate batch that has
  reached the same state. It holds for ordinary batches.
* `RetriedStopAcknowledges` (Lifecycle, `MCLifecycle.cfg`): a safe output that times
  out keeps its slot (`rt/src/device_manager.cpp:2245`) until the shutdown that only
  an acknowledged safe output lets `stop()` reach
  (`rt/src/host_runtime.cpp:12050`); once all slots are kept, no retry can send it.
* `ServiceRetained` (Lifecycle, `MCLifecycle.cfg`): a backend shutdown answered
  INVALID_STATE releases the related service
  (`rt/src/extension_registration.cpp:609`) of a backend that is still owned;
  `docs/extension_registration.md:106` says it is retained.
* `JoinedBeforeUnregister` (Lifecycle, `MCLifecycle.cfg`): the service lane is
  quiescent, not joined, when buffers are unregistered
  (`rt/src/device_manager.cpp:747`); `docs/host_runtime.md:346` says joined. The
  weaker `QuietTeardown` holds.

## 5. The proofs

**WorkQueueProofs**, for every capacity of at least two, every set of threads and
items and every number of positions: `TypeCorrect`, `CellExclusive`
(`ExclusiveCorrect`), `Fifo` (`FifoCorrect`), `Bounded` (`BoundedCorrect`). None of
them is inductive: that a thread may enter a cell follows from what the sequence
number of the cell says about positions claimed in other laps. The inductive
invariant `RingInv` says of every cell that it is *free* for the next position of
the tail or *published* for a position not yet released; of every thread inside
the ring that the sequence number it relies on is still the one it saw; that no
two threads own one position; and ties the history to the positions. Seven lemmas
about `p % Capacity` (laps, distance of two positions in one cell) carry the
arithmetic; one lemma for each action that changes the ring
(`PushClaimStep` ... `PopReleaseStep`) and one for all that do not
(`LocalActions`) carry the induction. Assumptions: `CapacityAssumption`,
`TicketAssumption`, `ItemAssumption`; finalization guarantees the first.

**WatchdogProofs**, for every timeout, clock range and number of steps: type
correctness, `NeverEarly`, `Disarmed`, `OneShot`. The inductive invariant
`WatchdogInv` adds `FrameInv` (while a step runs the word holds the current token,
and the bit agrees with what `complete` will report) and `LaneInv` (a decision of
the lane to fire the *current* token was made when its timeout was over), and that
the stored deadline is `due` cut off at the end of the clock. The second is what
rules out the stale decision, the third the overflow. Assumptions: `TimeAssumption`,
`ArmsAssumption`.

**Only model-checked.** Liveness everywhere (the prover does not handle fairness
and `ENABLED`), and so far all safety of Executor, DeviceSlots, DeviceBatches and
Lifecycle.

## 6. Not modelled

Memory orders: every atomic access is sequentially consistent in the models, so an
error that only a weaker order can show is out of reach. Byte layouts, parsing and
formatting (codecs, profiles, exporters), system calls (affinity, locking, driver
calls: they succeed or fail), telemetry counters, samples, tools and the legacy
runtime in `include/simcore`. `PROJECT.json` lists every component with what is
left out of it.

## 7. Plan

In order; each item is a module, its run and, where marked (P), a proof.

Extending the model:

1. **LiveControl** — the mailbox of `live_control_mailbox.cpp`: reservation, slot
   states, sequence exhaustion, commit at the frame boundary, reclamation against
   inspection readers. Most lines not yet covered, most words shared.
2. **SnapshotStore** (P) — `cross_rate_data.cpp`: one writer, generations, readers
   that retain or retire; no torn copy, no stale generation. **TelemetryRing** (P)
   in the same style: a record read is the record one writer wrote.
3. **RateTimeline** and **RateDispatch** — release times with 64-bit arithmetic
   against a reference definition; overruns, deadlines and rate tickets.
4. **Parking** — `worker_loop` with wake sequences over the queue and the attempt
   limit; **NestedTasks**; **HostSlots** with generations.
5. **SampledIo** — publication claims, freshness, safe transitions, composed with
   the rate batches of DeviceBatches.
6. **Extensions**, **MemoryPolicy**, **CompiledGraph** — attachment and detach, region
   locking with rollback, ordering and assignment as operators against a reference.
7. Backends: **MockDevice** and **Loopback**, then the slot protocols of XDMA and
   CUDA, each shown to be a backend that DeviceBatches allows (refinement).
8. **Replay** — order of capture and restore. C ABI handle states with Lifecycle.

Proving:

1. An abstract bounded FIFO, and WorkQueue shown to implement it, so that the
   queue inside Executor is justified by a refinement and not by a comment.
2. Executor: `TokenCount` and `DependencyOrder` for every graph and worker set.
3. DeviceSlots and DeviceBatches: `CountExact` and `SuccessIsReported`.
4. Lifecycle: `MemoryOutlivesUsers`, `BuffersFirst` and `StoppedIsClean` for any
   number of backends, buffers, services and failures.
