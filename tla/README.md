# joint_controller: TLA+ models, checks and proofs

The repository is the lower (Ubuntu) half of an upper-body robot: two arms on an
EtherCAT bus, a lift column with a brake on a second bus, a waist behind a USB
bridge, ROS 2 controllers for them, and a gateway through which one remote owner
at a time may drive the upper body.  This directory keeps TLA+ models of the parts
whose correctness depends on the order of events, TLC runs on small instances, and
TLAPS proofs of the invariants that matter most.

Source paths below are relative to `src/src/` of the repository.

## 1. Inventory

| Component | State it keeps | Operations | Hard behaviour | What makes it correct |
|---|---|---|---|---|
| Heavy V1 gateway (`robot_lower_gateway/src/heavy_gateway_v1.cpp`) | lease, transaction in flight, staged command, brake latch and queue, last samples | acquire, release, command, arm/lift ack, brake service, 100 Hz watchdog, status callbacks | reentrant callbacks on four threads; publications and native calls after the unlock; four timeouts that share timestamps | one owner; nothing outlives its lease; alignment before FOLLOW; silence becomes HOLD, then the end of the lease; a lock is not undone by a stale sample |
| Gateway node (`robot_lower_gateway_node.cpp`, `erobot_backend.cpp`) | cached status, service proxies | forward a service call with a bounded wait, republish status | proxies block the executor threads that must deliver the replies they wait for | every call returns; the watchdog is not starved |
| Lift controller (`joint_hardware/src/lift/lift_controller.cpp`) | mode, motion targets, cancellation generation, stop/hold requests, brake gate | jog, stream, trajectory, command, stop, hold, Heavy command, lease gate, `update` | callbacks race the real-time loop through lock-free buffers; cancellation by generation | a stop wins over older commands; estop and fault latch; no motion behind a closed brake gate; an ack means applied |
| Lift hardware (`lift_hardware.cpp`, `cia402.cpp`, `feedback_continuity.cpp`, `zero_offset_store.cpp`) | drive state, brake, enable request, fault latch, zero offset on disk | enable/disable, brake, fault reset, zero calibration, read, write | drive answers late or not at all; worker thread against the cycle; crash between write and rename | brake released only with torque; faults latch; the stored zero is old or new, never torn |
| Arm controller (`erobot_controller/src/erobot_controller_arm.cpp`) | lease gate, Heavy watermark, legacy buffers, power generation | legacy commands, Heavy command, gate, power service, `update` | gate and command are different topics; retained gate; watermark reset on the falling edge; a power service that waits in the callback group of all topics | a command is applied once and acknowledged only when applied; a failed enable is undone |
| Arm command processor (`CommandProcessor_arm.cpp`, `traj.cpp`, `CubicPlanner.cpp`) | control mode, power sequence, active trajectory | mode switch, power, move, stop | long call sequences; mode switched in mid-motion | no jump on a mode switch |
| Waist and USB bridge (`usb_bridge_hub.cpp`, `waist/*`, `waist_can.cpp`) | shared serial handle, reader thread, pending replies | open, request/reply, read, write | one handle with several clients; lost and late replies | a reply answers its own request |
| Arm EtherCAT driver (`erobot_igh_driver`, `erobot_hw`) | slave states, shared memory, thread flags | start, stop, cyclic exchange, CiA402 | two processes over shared memory that survives both; a mode switch that disables drives on purpose under a monitor that watches for disabled drives | a lost drive is not enabled again without a new request; a mode switch is not a fault |
| Workspace supervisor (`robot_control/src/workspace_supervisor_*.cpp`) | workspace state, systemd jobs, readiness probes | start, stop, restart, probe | jobs finish late or fail; stop during start | reported RUNNING means ready; a stop is final |
| Power and mode services (`robot_control_msg/src`) | last request, feedback | set power, set arm mode | timeouts against late feedback | the reply tells what happened |
| Motion services (`robot_control/src`) | busy flag, active goal | joint, batch, cartesian, moveL | concurrent goals, completion by feedback | one goal at a time |
| Back ends, frames, parsing, units, description, tools, third party | - | - | - | not modelled, see section 11 |

How they interact: the gateway publishes an accepted command and a retained lease
gate on internal topics; the arm and the lift controller apply the command in their
real-time `update` and publish an acknowledgement with the internal generation; the
gateway calls the native brake service of the lift hardware and reads the lift
status, the joint states, the arm power and the workspace status.

The hazards of the code are listed in `PROJECT.json` ("hazards"), each at its line
with the properties that cover it.

## 2. Plan

Done:

1. `HeavyGateway` - the lease gateway; `ExecutionLease` - the abstract specification it
   implements; `HeavyGatewayProofs`, `HeavyGatewayLease`, `HeavyGatewaySteps` - its theorems.
2. `LiftController` - the mode machine of the lift with its racing inputs;
   `LiftControllerProofs`, `LiftControllerCommands` - its theorems.
3. `LiftHardware` - drive, brake, takeover, homing and the zero offset file;
   `LiftHardwareProofs` - its theorems.
4. `ArmController` - the arm controller with its command processor.
5. `IghDriver`, `ArmStack` - the EtherCAT driver of the arms and its composition with
   the arm controller over shared memory (`ArmAxes` declares the axes both share).
6. `ArmControllerProofs`, `ArmStackProofs` - all safety properties of the arms proved.

Left, in this order:

1. `HeavyPath` - the composition of gateway, arm and lift controller over the internal
   topics (one retained sample each, reordering between topics): an acknowledged
   command was applied by both controllers under its own lease.
2. `LiftHardware` with the brake calls of the gateway: a native call that timed out
   and moves the brake later.
3. `GatewayExecutor` - four threads, blocking proxies, the watchdog.
4. `WorkspaceSupervisor`, the power and mode services of `robot_control_msg`,
   `UsbBridgeHub`, the busy flags of the motion services.
5. Proofs for each of these; every safety property of the models that exist is proved.

## 3. The lease gateway: `HeavyGateway.tla`

**State.** `gw` is the record of everything `mutex_` protects; its fields follow the
members of `HeavyGatewayV1`: `active`/`gen` the lease and `lease_generation_`,
`lastSeq`/`appliedSeq` the accepted and the applied external sequence, `aligned`
`aligned_hold_`, `state` and `lastMode`, `pValid..pFrom` the pending transaction,
`revoke` `revoke_after_ack_`, `armAck`/`liftAck`, `sValid..sMode` the staged command,
`locked`/`commanded`/`lockPending`/`lockForce`/`transition` the brake latch and queue.
`ws` and `lift` are the last samples reduced to what the code's predicates tell
apart, `thread` the position of each handler that leaves the mutex, `waiting` the
release calls in their bounded wait, `outbox` the publications a handler still owes
after its unlock, `gate` the retained sample of the gate topic.

**Steps.** A region under the mutex is one step.  `handleAcquire` is `AcquireBegin`,
then `AcquireGrant` or `AcquireRefuse`; `handleCommand` is `CommandArrives`, then
`CommandRejected`, `CommandStaged` or `CommandDispatched`; `executeBrakeAction` is
`BrakeFailed`, `BrakeLocked`, `ReleaseReplied`, `ReleaseConfirmed`, `BrakeReleased`;
`handleRelease` is `ReleaseBegin` and `ReleaseDone` or `ReleaseTimedOut`;
`watchdogAndFeedbackTick` is `WatchdogTick`, its branches composed in the code's order;
publications after an unlock are `Publish`.  A publication made under the mutex
(`beginSafetyHoldLocked`) belongs to its step.

**Abstractions.** Times are ages that stop at the largest value the code compares
with.  A position is the lease during which it was measured.  A message that fails a
payload check has no effect on the modelled state and is left out.  Lease `l` starts
its external sequences at `l * SeqSpan`, as the code starts them at `l * 1000000 + 1`, and
like the code checks no upper bound: a client of any lease may send any sequence up to
`MaxSeq`, which is chosen so that one lease passes the start of the next, as a client that
commands at 100 Hz does after 2.8 hours.  `appliedIn` is history: the lease under which
`appliedSeq` was applied.  Internal generations wrap at `GenSpace`; an acknowledgement may
name any generation whose publication is not still owed, old ones included.
Equal publications owed by two handlers at once are one element of `outbox`.
The mutants `X_...` beside a definition `X` are plausible slips, used to show that the
properties can fail.

**Fairness** (`FairSpec`, runs `liveness` and `brake`).  Weak fairness of the clock and of a
thread past its unlock: the executor resumes it, `callNativeServiceBounded` and
`wait_for` are bounded.  Strong fairness of the watchdog: its guard (a free executor
thread) comes and goes, and the executor takes ready timers before subscriptions and
services.  Clients, controllers and the native service get no fairness: they may
stay silent for ever.

**The contract: `ExecutionLease.tla`.**  What the lease owner may rely on, without
transactions, acknowledgements, timers, staging or brake: `Acquire`, `Align`, `Dispatch`,
`Hold`, `Revoke`, `End` over the lease number, its phase, the mode in force and the last
sequence.  The refinement mapping is at the end of `HeavyGateway`: `PhaseOf` reads
`active`, `aligned` and `revoke`, `ModeOf` is `last_mode_` under a lease.  A dispatch must
carry a larger sequence than the last one of its lease, a FOLLOW needs the usable phase,
and `revoking` is left only by `End`.  The order of sequences is promised per lease only:
after a long lease the next one starts below sequences that were already applied.

## 4. The lift controller: `LiftController.tla`

**State.** `lc` holds the members of `LiftController`.  Of the real-time loop: `mode`,
the command at the brake gate (`gated`, `gatedValid`, `stable` for
`gate_stable_since_`), the trajectory in execution (`traj` is its generation, 0 for
none; `atPoint`), `completion` and `pendingHold` of a soft stop, the consumed
generations, `leaseRt`, `followAck`, the `power` request.  Shared with the callbacks:
the generation counters (`gen`, `cancel`, `appliedCancel`, `cmdGen`, `safetyGen`,
`heavyGen`), the three real-time buffers, `pendTraj`, `admitted` and `applied` of the
gateway's sequences, `lease`, the results of a HOLD (`completed`, `failed`) and the
snapshot that the services read (`snapMode`, `snapTraj`, `snapGated`).  `drv` is the last
driver status, `active` the lifecycle state, `cb` the callback in progress.  `cur`,
`estopGen`, `leaseGen` and `cb.done` are history, read by properties only.

**Steps.** The node's callbacks are in its default, mutually exclusive callback group,
so one is in progress at a time; the real-time loop runs beside it.  A callback that
stores a generation and then writes a buffer does so in two steps (`LegacyCommand`,
`WriteCommand`; `HeavyCommand`, `WriteHeavy`; `SafetyRequest`, `SafetyStore`,
`SafetyWrite`).  The STOP and HOLD services go on with `SafetyCheck` and block until
`SafetyAnswer` or `SafetyTimeout`.  `update` is `UpdateNotFinite`, `UpdateEstop`, or
`UpdateBegin` followed by `UpdateEnd`: the first half ends with the choice of a
trajectory, the second starts with the command buffers and runs the rest of the cycle
as a composition of the code's helpers, each a function of the controller's state.
`GateChange` is what changes the driver gate without a report: an expired status or
the power state interface.

**Abstractions.** Positions and profiles become `rest` (the profile is at rest), `still`
(the measured speed is below the stationary limit) and the outcome of a profile cycle,
which is an input.  `drv.ready` joins all conditions of `driver_gate_ready` except the
emergency stop.  The jog clock counts control cycles.  A brake-gate or goal window that has
lasted long enough is an input (`elapsed`, `"arrived"`).  A failed `try_to_lock` of the
trajectory mutex delays the trajectory by a cycle, which the order of the steps
covers.  The first zero frame has already been adopted.

**Fairness** (`FairSpec`, run `lift_liveness` only).  Weak fairness of the activation,
of `update` (the controller manager calls it at 100 Hz) and of a callback that has
started (its waits are bounded); strong fairness of a cycle whose profile finishes,
because a velocity profile to zero ends in finite time.  Drivers, publishers and
clients get none.

## 5. The lift hardware: `LiftHardware.tla`

**State.** `hw` holds the members that the 100 Hz loop and the service thread share (brake
request, disable latch, stop request, takeover, hold, zero and homing requests, emergency
stop, fault latch, stop phase, the zero frame), `rt` those of the loop and the values it
sampled at the start of `write`, `tx` the frame sent last, `svc` the handler in progress,
`drv` the LD3M drive and the bus (external: modelled by what the code expects of it),
`disk` the zero offset file, `life` the lifecycle of the component.
Two parameters are fixed to TRUE: `brake_control_enabled` (otherwise `write` never enables
the drive and most services refuse) and `use_persistent_zero_offset` (otherwise zeroing
completes without the file).

**Steps.** A cycle is `Read`, `WriteBegin` (the pending zero offset, the takeover watchdog,
the emergency stop and the power edge), `WriteDecide` (the CiA402 step, supervision, stop
phase and the velocity) and `WriteSend`; the service thread runs between them.  A handler
is a sequence of stores, each visible to the loop (`HandleBrakeCommand`,
`HandleResetVelocity`, `HandleResetHold`, `HandleResetZero`, `HandleEstop`,
`HandleSafetyReset`, `HandleHome`, `HandleSetDriveZero`, `StatusTimer`).  `SaveAtomic` is the
write to a temporary file and the rename: `disk` is the old or the new offset.  A refused
call changes nothing, with one exception that `Call` models: a drive zero refused because
another maintenance operation is active leaves `drive_zero_pending_` set.  The service
executor is single-threaded and every handler clears both flags before it returns, so no
run meets that refusal.  `Crash`
loses everything but `disk` and the drive.

**Abstractions.** Positions are a few encoder units around the software range, velocities
a direction, times counts of cycles.  Homing's SDO writes succeed or fail as one input.
`hist` records the last explicit enable and the bounds on calls, faults and lifecycle
events; `hist.armed` is what `MotionNeedsRequest` compares with.

**Fairness** (`FairSpec`, run `hw_takeover`).  Weak fairness of the loop, of a handler that has
started (its waits are bounded), of the status timer and of the lifecycle transitions
the controller manager has begun.  Clients, faults and the bus get none.

## 6. The arms: `ArmController.tla`, `IghDriver.tla`, `ArmStack.tla`

**`ArmController`.** `cp` holds the members of `CommandProcessor_arm`, `cmd` the command
interfaces, `rt` what only `update` uses (the lease it saw last, the watermark of the
gateway's sequences), `box` the atomics and real-time buffers between the callbacks and
`update`, `svc` the power service call in progress, `bus` the gateway command delivered
last, `hist` history for the properties.  A joint target is where it comes from: the pose
measured when it was set (`Here`), a local command, or a gateway sequence; `Mixed(n)` is a
HOLD that was refused after some of its joints had been stored.  The two local planners
are kept apart as the code keeps them: `plan` is the target of the Ruckig trajectory, which
`syncPositionTargetsToCurrent_` restarts at the measured pose, and `moving` says that the
axis planners of `CubicPlanner` have a trajectory to finish, which nothing but its end
stops; `interp` selects between them.  A servo command is what `processNewCommand` tells
apart (`ServoMessages`): the interpolation it asks for, whether anything changed, and
whether its target is the cubic planner's last one.  The gateway's command and gate arrive
by `ReceiveHeavy` (sequences only grow), `ReceiveHeavyAgain` (a retry) and `ReceiveGate`, in
any order and with any delay, because they are two topics.  `Update`
is one call of `update` in the code's order: feedback, mode and power requests, the end of
a lease, the gateway's command and its acknowledgement, the local commands, what is
commanded.  Every callback is a step, and `CallbackMayRun` keeps all of them out while
`handlePowerService` waits, because they share the node's default callback group.  The
power service is `PowerSubmit`, `PowerStore`, then `PowerConfirmed` or `PowerFailed`, and a
failed enable goes through the same steps once more as a disable.  The power requests
are taken only in `ArmStack`, where feedback answers them; alone, the drives may report
any status of `Feedbacks` in any cycle.

**`IghDriver`.** The driver process (`drv`), the shared motor monitor (`mon`), the CSP/CST
switching of the arm group (`grp`), the drives (`axis`, external), the words sent to them
(`word`) and the two shared memory segments (`shm`), which survive both processes.  A
cycle is `DriverCycle`: feedback to shared memory, desired data from it, the monitor, one
`PrepareArmGroupAxisCommand` per axis.  `DriverStart` clears the real segment and the power
request, `DriverExit` is a failed start, a signal or a crash.

**`ArmStack`.** Composes both: `ControlCycle` is the read of the hardware component (every
status UNKNOWN without a live driver; the alive check is cached), `Update`, and the write
to shared memory.  `sawDown` says that the control process ran at least one cycle while
the slaves were being brought to OP, which takes seconds; without it an enable request
from before a restart could survive the restart unseen.

## 7. Runs

Each run stays on one axis, callback or call where a second one only repeats the first:
the arm group switches as one, the lift's callbacks are serialised, and a second command
callback of the gateway differs from the first only in being later (the theorems cover any
number).  The liveness runs check the same next-state relation as the others.

### Gateway (module `HeavyGateway`)

Base instance: one command callback, one release call, two executor threads, hold
timeout 1, acknowledgement timeout 2, lease timeout 3, retry 1, generations modulo 3.
The timeouts keep the order of the configured ones (hold < acknowledgement < lease)
with all differences non-zero, so every branch of the watchdog is reached alone and
together with the next one; two sequences above the start of a lease are enough for one
in flight and one staged, two leases for a leftover of the first to meet the second.  With
`SeqSpan = 1` and `MaxSeq = 3` the first lease can send sequences 2 and 3, which the second
lease takes for its start and its first command.

| Run | Shows |
|---|---|
| `commands` | invariants of the transaction pipeline of one lease, with duplicates, late sequences, STOP, stale feedback, a workspace that goes down, release; a fault ends the lease; a watchdog run leaves nothing overdue |
| `two_leases` | the gateway implements `ExecutionLease` and keeps each lease's sequences in order when two leases and their clients overlap |
| `brake` | a committed lock is undone only by a committed release; every brake transition ends; a forced lock that was queued leads to a locked brake or a native lock call, whatever other native calls come first |
| `liveness` | transactions resolve, release returns, FOLLOWING needs commands, with controllers that may stay silent |

### Lift controller (module `LiftController`)

Each run switches on the command sources of its question.  A race needs one older
command, one stop, and at most one newer command, so two generations reach every order;
a jog timeout of one cycle separates renewed from expired; two gateway sequences
distinguish a replaced sample from a repeated one.

| Run | Shows |
|---|---|
| `lift_local` | jog, STOP and HOLD against an unreliable driver, bad feedback, new zero frames, emergency stop and re-activation: a HOLD answered with success left the lift in no motion, power agrees with the mode, a fault is not left without a command |
| `lift_heavy` | FOLLOW, HOLD, STOP and the gate of the gateway against local streams, trajectories and the STOP service: a STOP answered with success has ended all older motion, local commands stay dropped, an acknowledged FOLLOW is the gateway sample in execution, no motion without the driver gate |
| `lift_liveness` | a jog that is not renewed ends, a committed STOP withdraws the power, with a drive that may report an error or blocked motion |

### Lift hardware (module `LiftHardware`)

Two service calls are enough for one request and the stop, reset or second request that
races it; one fault and one crash per behaviour; debounce and recovery of two cycles
tell "once" from "long enough"; one unit on either side of the range.

| Run | Shows |
|---|---|
| `hw_stop` | brake, takeover, hold, emergency stop and reset against the loop, with drive errors and power edges: under an emergency stop only stopping frames, no velocity without an explicit enable newer than the last stop |
| `hw_zero` | zeroing, drive zero and homing with failing saves, timeouts and a crash at any step: the frame of the loop is the recorded one, homing reports success only in CSV mode |
| `hw_takeover` | a takeover that is not renewed ends; under an emergency stop the drive ends without power |

### Arms (modules `ArmController` and `ArmStack`)

Two gateway sequences tell a repetition from a new command; one of each local kind, the
servo command with either planner.  In the stack run the hold phases last two and one cycles, so each phase can be interrupted.

| Run | Shows |
|---|---|
| `arm_commands` | local and gateway commands, gate, mode requests, enabling and disabling drives and deactivation in every order: an acknowledged command is commanded, no local target is commanded between the first acknowledgement and the end of a lease, no stream without a lease, the measured pose is held after EFFORT, no later cycle returns to a local target from before disabled drives, EFFORT, a lease or a gateway command |
| `arm_power` | power service and topic, CSP/CST switching, drive faults and drops, a driver that dies and restarts: no enable without a new request after a loss, a failed enable is undone, a mode switch is not taken for a fault |

### What the code does not keep

The modules state further sentences, each from a comment, a document, a test or the
reader's expectation, which TLC refutes as soon as they replace the properties of the
configuration named here (state predicates as invariants); five of them hold in the runs, without the change that the
row names.  `PROJECT.json` "hazards" tells those that are about the code at their lines.

| Statement | Configuration | Behaviour |
|---|---|---|
| `ExpiredLeaseEnds` | `liveness` | the expiry branch submits a new revoking HOLD in every tick and so restarts the timer of its own fallback; a lease whose controllers never acknowledge does not end |
| `FollowNeverForwardedLocked` | `brake` with `Spec` | a FOLLOW staged with the brake released is dispatched after the brake was locked |
| `ReleaseEndsOwnLease` | `two_leases` | a release waits while the watchdog clears its lease without a notification and another owner acquires; when it times out it clears the new lease |
| `HoldPositionIsCurrent` | `two_leases` | the position captured by a command-timeout HOLD survives its lease and is commanded by the HOLD that releases the next one |
| `GateAgreesWithLease` | `commands` | gate publications are made after the unlock and may be sent in the other order |
| `NativeCallsSerialised` | `brake` with `Spec` | acquire starts a native brake call without testing the transition flag |
| `StopLocksBrake` | `brake` with `Spec` | `queueBrakeLockLocked` drops the lock request of a STOP or a revocation while an unforced lock is queued, which waits for a stationary lift, or while a release is in progress, after which the brake is released and nothing is queued |
| `AppliedNotAhead` | `two_leases` | a lease passes the start of the next one, which then accepts sequences below the last one reported as applied |
| `FaultIsLatched` | `lift_local` | a new command leaves the latched fault without a re-activation |
| `FaultOnlyFromMotion` | `lift_local` | a STOP at the brake gate becomes a gate-lost fault |
| `NoResumeAfterEstop` | `lift_local`; `lift_heavy` with `MayEstop = TRUE` | a command from before the emergency stop runs after the reset: a FOLLOW from the gateway's buffer, or a local command when a new one is being written as `update` leaves the stop |
| `LocalCommandsStayDrained` | `lift_heavy` with `MayEstop = TRUE` | the same: a local command that the lease had dropped runs after the emergency stop |
| `NoStopIsLost` | `lift_local` | `update` consumes the generation of a STOP before the STOP is in the buffer; the service times out and the motion goes on |
| `NoHeavySampleIsLost` | `lift_heavy` | the same window drops a gateway sample |
| `AckedFollowIsApplied` | `lift_heavy` | a local stream sample that replaced a gated FOLLOW publishes the acknowledgement of the FOLLOW |
| `StopDisables` | `lift_liveness` with `MayRezero = TRUE` | a new zero frame replaces the soft stop of a STOP by hold, and the power stays requested |
| `PowerNeedsRequest` | `hw_stop` | a power command that stays high enables the drive again when another source cleared the stop |
| `MotionNeedsRequest` | `hw_stop` with `Cycling = {"deactivate"}` | an unlock that overlapped the deactivation enables the drive of the next activation |
| `FrameMatchesFile` | `hw_zero` with `Cycling = {"deactivate"}` | an offset saved but not applied at the deactivation is dropped by the activation |
| `HomedMeansCsv` | `hw_zero` with `Faults = {"mode"}`, `MaxFaults = 1` | the drive leaves mode 9 of its own accord around the reply |
| `ZeroNeedsDisable` | `hw_zero` with `Services = {"zero", "estop", "reset"}`, `MaxCalls = 4`, `Cycling = {}` | an emergency stop keeps `zero_disable_observed_`, and after the reset the next zero request is saved on the old observation |
| `NoTrajectoryResumes` | `arm_commands` | after the drives were disabled and enabled in CUBIC mode the arm holds its pose for one cycle and then runs the interrupted trajectory, at the time that has passed since it was planned |
| `LeaseDropsLocal` | `arm_commands` | `update` samples the gate once per cycle; a local command that waits while a lease opens and closes between two cycles is executed after it |

Known and kept by the arm models without a property of their own: a refused HOLD leaves a
mixture of two targets in the stream; a gateway stream survives power-off and EFFORT
inside its lease; a sample of an ended lease that arrives after the gate is applied at the
start of the next one, because the end resets the watermark; a disable is confirmed
when one drive is off; a STOP in EFFORT mode is not acknowledged; the power service keeps
every topic of the node waiting for up to 6.5 s; and when the control process dies, its
power request stays in shared memory.

`ReleaseReturns` and `ExpiredLeaseEnds` differ on purpose: a release clears the lease when
its own wait ends, an expiry does not.  `StopIsFinal` and `NoStopIsLost` differ on purpose: a
STOP that was lost is answered with a time-out, so an answer of success stays reliable.

## 8. Proofs

### `HeavyGatewayProofs.tla`

For all constants that satisfy `GatewayAssumption` (any number of callbacks and
releases, any timeouts with `RetryInterval < AckTimeout`, any bounds):

- `GatewayTypes`: `Spec => []TypeOK`
- `TransactionsOwned`: `Spec => []TransactionBelongsToLease`
- `AlignmentFirst`: `Spec => []AlignmentBeforeFollow`
- `FaultEndsLease`: `Spec => []NoLeaseInFault`
- `RevocationFinal`: `Spec => RevocationIsFinal`

The inductive invariant is `GatewayInv == TypeOK /\ LeaseInv(gw)`; `LeaseInv` joins the
three invariants, none of which is inductive alone: the acknowledgement of a
revoking HOLD keeps `NoLeaseInFault` only because a revocation is pending in STOPPING
with its lease active, and `AlignmentBeforeFollow` survives the end of a lease only
because no transaction is left behind.  The argument follows the code: one lemma per
`...Locked` helper (it preserves the type and `LeaseInv`, and `Kept`: it makes no
lease and does not undo a revocation), one lemma per action that composes them, and
`GuardedStep` collects both for `Next`; `RevocationFinal` is its second half.

### `HeavyGatewayLease.tla`

From the same assumptions, for any `SeqSpan` and any sequences the clients send:

- `SequencesInOrder`: `Spec => []SequencesOrdered`
- `ImplementsLease`: `Spec => LeaseContract`, the refinement of `ExecutionLease`

`OrderInv` strengthens `SequencesOrdered` by what a step needs of the step before: a staged
FOLLOW has its alignment, and a lease under revocation is held.  Nothing is assumed of the
commands in the callbacks: `validateCommandLocked` compares the lease before the sequence,
so a leftover of an earlier lease is refused whatever its sequence.  Most of
the code only lets a lease recede (`Recedes`: it keeps it, holds it, revokes it or ends
it, and dispatches nothing).  The relation composes, so each helper of a watchdog tick
has one lemma; `Moves` shows that only a grant, a staging, a dispatch and a completed
transaction do more, and each of these four has a lemma that gives `OrderInv` and the step
of `ExecutionLease`.

### `HeavyGatewaySteps.tla`

From the same assumptions, what one locked region may never do:

- `LockStaysLatched`: `Spec => []CommittedLockIsLatched`
- `DispatchAloneExtends`: `Spec => OnlyDispatchExtendsLease`
- `FlightsComplete`: `Spec => InFlightNotReplaced`
- `WatchdogMeetsDeadlines`: `Spec => WatchdogEnforcesDeadlines`

All four follow from `StepInv`, which joins `GatewayInv` and `OrderInv` of the modules
before.  The first three are facts about a pair of states (`LatchKept`,
`ClockKept`, `FlightKept`).  Most regions are `Calm`: latch and command clock stay, the
client's transaction stays or is dropped.  `Calm` composes and implies the three facts;
only the brake commits, the grant, the dispatch and the acknowledgement do more and
get a lemma each.  The fourth follows each deadline (`AckDue`, `CommandDue`, `ExpiryDue`,
`ResourceDue`) through the branches of `watchdogAndFeedbackTick`: the branch that enforces
it ends it, and no later branch makes it due again.

### `LiftControllerProofs.tla`

For all command sources, timeouts and bounds that satisfy `LiftAssumption`:

- `PowerAlwaysFollowsMode`: `Spec => []PowerFollowsMode`
- `MotionNeedsTheGate`: `Spec => MovingNeedsGate`

The inductive invariant `PowerInv` says that `lc` has the fields the code reads and that
power and mode agree while the controller is active.  The second theorem needs it: the
check for a lost gate looks at the power request, so a motion without a power request
would escape the fault; `PowerInv` excludes that.  There is one lemma per helper of
`update` (it keeps `Good`, or changes neither mode nor power) and `UpdateEndLemma`
composes them in the order of the cycle; `CallbackLemma` shows that no callback touches
mode, power or lifecycle.

### `LiftControllerCommands.tla`

From `LiftAssumption`, what the answers and acknowledgements of the lift mean:

- `ControllerTypes`: `Spec => []TypeOK`
- `StopsAreFinal`: `Spec => []StopIsFinal`
- `ConfirmedHoldsHold`: `Spec => []HoldConfirmedMeansHold`
- `AckedFollowsAreExecuted`: `Spec => AckedFollowIsExecuted`
- `FaultsNeedACommand`: `Spec => NoAutomaticRecovery`
- `LeaseDrainsLocalCommands`: `~MayEstop => (Spec => LocalCommandsStayDrained)`

The inductive invariant is `CommandInv == TypeOK /\ StopInv(lc, cb)`.  `StopInv` says how the
generation counters are ordered (`Counters`), what each buffer may hold (`Kinds`), how far
the callback in progress has come (`CallbackAt`), that a running motion is newer than the
last STOP or HOLD that was answered, committed or completed unless `update` has still to
take it (`NewerThanStops`), what the "already safe" answer of a service may conclude from
the snapshot (`SnapshotTrusted`), and that a completed HOLD found no motion
(`HoldConfirmed`).  `StopIsFinal` alone is not inductive: the service answers from a
snapshot that is one cycle old, and only the order of the counters tells that the motion
the snapshot misses is stopped by the cycle in progress.  The helpers of the motion part
are `Runs` (they end motions and start none), the two halves of a cycle are `Begun` and
`Chosen` followed by `Cycled`, so the argument about generations is made once per half and
not once per helper.

`AckedFollowIsExecuted` needs `FollowMatches` besides: whenever a gateway sample that nothing
cancelled is in execution or waits at the brake gate, an acknowledgement still owed is of
that sample.  Each half of a cycle keeps it, because the helper that takes a FOLLOW from
the buffer sets both, and everything else that ends or replaces a sample leaves none in
execution or comes with a newer generation.

The last theorem excludes an emergency stop (`NoEstop` in `DrainInv`), and so does the run
`lift_heavy`: the drain of an emergency stop may consume the generation of a command
whose buffer is not written yet, and the older command in the buffer, dropped under the
lease, then counts as new.

### `LiftHardwareProofs.tla`

For every set of services, faults and commands, every range and every timeout that
satisfy `HardwareAssumption`:

- `HardwareTypes`: `Spec => []TypeOK`
- `EmergencyStopIsObeyed`: `Spec => []EstopIsObeyed`
- `HomedIsInCsv`: `("mode" \notin Faults) => (Spec => []HomedMeansCsv)`
- `FrameIsRecorded`: `("deactivate" \notin Cycling) => (Spec => []FrameMatchesFile)`
- `MotionIsRequested`: `("deactivate" \notin Cycling) => (Spec => MotionNeedsRequest)`

The hypotheses name what breaks the property, not what the proof could not do: a drive
that leaves mode 9 of its own accord does so after the reply as well, and the two
deactivations are in the table of section 7.  Under the hypotheses every crash, bus loss,
drive error, failing save and order of handlers is still covered.

`EstopIsObeyed` is inductive with the types of the handlers and the history (`LoopInv`).
`HomedMeansCsv` needs `ModeInv`: from the write of mode 9 on, the rest of `handle_home` finds
mode 9.  `FrameMatchesFile` needs `FrameInv`: an offset that is in the file and not in the
frame waits in `zero_offset_pending_` or in the handler that saved it, and the pending
one is the recorded one.  `MotionNeedsRequest` needs `ArmInv`: an enable without a stop
request was asked for or is blocked (`Armed`), and the safety reset lifts the block only
behind a stop request (`ResetHeld`).  The helpers of `read` and `write` are `Steady`: they may
raise a stop or drop an enable and touch neither the emergency stop nor the offset.  The
stores of the service thread are of three kinds, arming, stopping and calm, with a
lemma each; every handler is then one lemma that sorts its stores.

### `ArmControllerProofs.tla`

For any number of axes, all command sources and bounds that satisfy `ArmAssumption`:

- `TypesHold`: `Spec => []TypeOK`
- `AcksAreCommanded`: `Spec => []AckIsCommanded`
- `LocalsYieldToGateway`: `Spec => []LocalYieldsToGateway`
- `StreamsNeedLease`: `Spec => []StreamNeedsLease`
- `WaitsHoldPose`: `Spec => []WaitHoldsPose`
- `PlansDoNotResume`: `Spec => []NoPlanResumes`

The inductive invariant `ArmInv` joins the properties with `WaitInv` (while the arm waits
after EFFORT its accepted target and its plan are the measured pose; without it the cycle
that enters the wait could command an old target), `LocalKnown` (unless a local command
was accepted and nothing has ended it since, the processor has no local target that it
could command, except by the axis planners) and `WatermarkInv` (from the first applied
command of a lease on, the processor has a stream, or has selected RUCKIG with a plan that
is not local).  `WatermarkInv` is where the cubic planner is kept out: its trajectory
survives `syncPositionTargetsToCurrent_`, and only the switch to RUCKIG in
`requestPositionHold` keeps a STOP from resuming it.  One lemma per helper of the command
processor says what it does to these facts; `RequestedLemma`, `LeasedLemma`,
`CommandedLemma` and `PlannedLemma` compose them in the order of `update`.

### `ArmStackProofs.tla`

For any number of axes, any set of drives that have to be disabled for a mode switch and
any hold times:

- `FailedEnablesAreUndone`: `StackSpec => []FailedEnableIsUndone`
- `EnablesNeedRequests`: `StackSpec => []EnableNeedsRequest`
- `ModeSwitchesAreNotFaults`: `StackSpec => ModeSwitchIsNotAFault`

`StackInv` adds to `ArmInv`: `RollbackInv` (the disable of a rollback is in the buffer or
applied), `RequestInv` (how the request travels from the processor to shared memory),
`LostInv` (once the drives are lost every axis is sent SHUTDOWN, and either no request
stands or the monitor is latched and waits to see it withdrawn) and `SwitchInv` (an armed
monitor that is not bypassed has told every drive to enable, and no drive is disabled on
command).  `EnableNeedsRequest` needs `sawDown`: the driver becomes operational only after
the control process has seen it down and withdrawn the request.

## 9. Only model-checked

Every safety property of the runs, the refinement included, is proved for all constants
its theorem names.  Only model-checked are the nine liveness properties:
`TransactionResolves`, `ReleaseReturns`, `FollowingNeedsCommands`, `BrakeTransitionEnds`,
`ForcedLockReachesBrake`, `JogNeedsKeepalive`, `StopDisables`, `TakeoverEnds` and `EstopDisables`.
They rest on fairness, and so on `ENABLED` of the fair actions, which TLAPS does not reason
about here.  The `TypeOK` of `LiftController` and of `LiftHardware` are proved and repeated by
no run.  No model has a recursive definition, so no proof needs induction over data.

## 10. Running

`tlc -workers 2 -config HeavyGateway_commands.cfg HeavyGateway` and likewise for the
other configurations (`PROJECT.json` "runs" lists module and file); each takes up to about
two minutes.  `tlapm HeavyGatewayLease.tla` and likewise for the other proof modules;
`LiftControllerCommands` and `LiftHardwareProofs` take about ten minutes each, the others a
few.

## 11. Not modelled

Pure conversions (`lift_status_parser`, `joint_state_mapping`, `lift_units`, frames
and PDO mapping), floating-point planning (`lift_motion_profile`, `traj`,
`CubicPlanner` but for whether it is moving, gravity compensation, kinematics and the moveL
paths), register-level bus
I/O (its outcomes become inputs), status and diagnostic messages, the simulation mode and
the lifecycle of the arm's hardware component, the axes fixed to CSP, launch files,
description, tools and third-party code, which is most of the repository by lines.  The
waist and its USB bridge, the workspace supervisor, the executor of the gateway node, the
`robot_control_msg` services and the busy flags of the motion services have protocol state
of their own; they are planned in section 2.
