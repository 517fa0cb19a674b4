---------------------------- MODULE ArmController ----------------------------
(***************************************************************************)
(* The arm controller (erobot_controller): RobotController_arm, whose      *)
(* update runs in the real-time loop, and the CommandProcessor_arm it      *)
(* drives.                                                                 *)
(*                                                                         *)
(* Every subscription and service of the controller's node uses the        *)
(* node's default callback group, so one callback runs at a time: while    *)
(* the power service waits for feedback no topic is taken ("svc").  A      *)
(* callback and update communicate through atomics and real-time buffers.  *)
(* Joint positions are abstracted to where a target comes from: the pose   *)
(* measured when it was captured, a local command or a gateway sequence.   *)
(***************************************************************************)
EXTENDS Integers, ArmAxes

CONSTANTS
  LocalKinds,      \* local commands in use, of {"servo", "absolute"}
  HeavyKinds,      \* gateway commands in use, of {"follow", "hold", "stop"}
  ModeSources,     \* mode requests in use, of {"service", "topic"}
  PowerSources,    \* power requests in use, of {"service", "topic"}
  MayReject,       \* a gateway target may be out of the joint limits
  MayCycle,        \* the controller may be deactivated and activated again
  SimExecution,    \* allow_disabled_simulation_execution
  Feedbacks,       \* the statuses a drive may report, of Statuses
  MaxSeq           \* bound: gateway sequences

ASSUME ArmAssumption ==
  /\ LocalKinds \subseteq {"servo", "absolute"}
  /\ HeavyKinds \subseteq {"follow", "hold", "stop"}
  /\ ModeSources \subseteq {"service", "topic"} /\ PowerSources \subseteq {"service", "topic"}
  /\ {MayReject, MayCycle, SimExecution} \subseteq BOOLEAN
  /\ Feedbacks \subseteq {"unknown", "disabled", "enabled"} /\ MaxSeq \in Nat

VARIABLES
  cp,       \* the members of CommandProcessor_arm
  cmd,      \* the command interfaces: power_enable, mode, position
  rt,       \* the members of RobotController_arm that only update and the lifecycle use
  box,      \* the atomics and buffers between callbacks and update
  svc,      \* the power service call in progress
  bus,      \* the gateway command delivered last
  hist      \* history variables for the properties

armVars == <<cp, cmd, rt, box, svc, bus, hist>>

-----------------------------------------------------------------------------
Here == <<"here", 0>>                \* the pose measured when the target was set
Origin == <<"origin", 0>>            \* get_pos_ after reset: all zeros
Local(kind) == <<kind, 0>>
Heavy(seq) == <<"heavy", seq>>
Mixed(seq) == <<"mixed", seq>>       \* some joints of a HOLD that was then refused
NoStream == <<"none", 0>>
Streams == {Heavy(n) : n \in 1 .. MaxSeq} \cup {Mixed(n) : n \in 1 .. MaxSeq}
Targets == {Here, Origin} \cup {Local(k) : k \in {"servo", "absolute"}}
           \cup Streams

ControlModes == {"POSITION", "EFFORT"}
Interpolations == {"RUCKIG", "CUBIC"}
Statuses == {"unknown", "disabled", "enabled"}   \* status 0, any other, 39
HeavyCommands == [seq : 1 .. MaxSeq, kind : {"follow", "hold", "stop"}, valid : BOOLEAN]
NoHeavy == [seq |-> 0, kind |-> "stop", valid |-> FALSE]

\* What matters of a servo command when it is taken: the interpolation it asks
\* for (run_mode; an invalid one keeps the mode), whether its targets or its run
\* time differ from the last ones, and whether they are at planner_->end_pos.
ServoMessages == [run : Interpolations, new : BOOLEAN, near : BOOLEAN]
NoMessage == [run |-> "RUCKIG", new |-> FALSE, near |-> FALSE]

CommandProcessor ==
  [power_enabled : BOOLEAN, hardware_available : BOOLEAN, all_enabled : BOOLEAN,
   initialized : BOOLEAN,            \* position_targets_initialized_
   stream : Streams \cup {NoStream}, \* external_stream_target_ while the stream is active
   mode : ControlModes,              \* active_control_mode_
   state : {"POSITION_ACTIVE", "EFFORT_ACTIVE", "EFFORT_TO_POSITION_HOLD",
            "WAIT_FRESH_POSITION_TARGET"},
   get_pos : Targets,                \* the target last accepted
   interp : Interpolations,          \* interpolation_mode_
   plan : Targets,                   \* the target of the Ruckig trajectory
   moving : BOOLEAN]                 \* the axis planners of CubicPlanner are moving, always
                                     \* to a servo target

\* What the callbacks leave for update, and update for the power service.
Buffers ==
  [lease : BOOLEAN, heavy : HeavyCommands \cup {NoHeavy},   \* not yet consumed
   servo : {"none", "fresh", "stale"}, absolute : BOOLEAN,
   mode : ControlModes \cup {"none"}, hwMode : ControlModes \cup {"none"},
   power : {"none", "on", "off"},
   applied : BOOLEAN,                \* power_applied_generation_ has reached the generation
   status : [Axes -> Statuses], commandEnabled : BOOLEAN, allEnabled : BOOLEAN]

TypeOK ==
  /\ cp \in CommandProcessor
  /\ cmd \in [power : BOOLEAN, mode : ControlModes, position : Targets]
  /\ rt \in [active : BOOLEAN, leaseLast : BOOLEAN, lastSeq : 0 .. MaxSeq]
  /\ box \in Buffers
  /\ svc \in [pc : {"idle", "submit", "wait", "rollback", "rollback_wait"}, enable : BOOLEAN]
  /\ bus \in HeavyCommands \cup {NoHeavy}
  /\ hist \in [misled : BOOLEAN,                \* an acknowledged target was not the one commanded
               local : BOOLEAN,                 \* a local command was accepted, nothing ended it yet
               resumed : {"no", "plan", "trajectory"},   \* update commanded a local target without one
               failedEnable : BOOLEAN]          \* the last power request was an enable that failed

-----------------------------------------------------------------------------
(* CommandProcessor_arm, as functions of its state.                         *)

\* syncPositionTargetsToCurrent_ restarts the Ruckig trajectory at the measured
\* pose.  resetCubicPlannerToCurrent_ only rewrites the vectors that the next
\* command is compared with: the axis planners go on.
Sync(c) == [c EXCEPT !.get_pos = Here, !.plan = Here, !.initialized = TRUE]

\* reset.  all_enabled_ and the axis planners keep their values.
Reset(c) ==
  [c EXCEPT !.get_pos = Origin, !.power_enabled = FALSE, !.hardware_available = FALSE,
            !.initialized = FALSE, !.stream = NoStream, !.mode = "POSITION",
            !.state = "POSITION_ACTIVE", !.interp = "RUCKIG", !.plan = Here]

\* Mutant: POSITION is entered without capturing the measured pose.
RequestControlMode_NoSync(c, mode) ==
  IF mode = "EFFORT" THEN [c EXCEPT !.mode = "EFFORT", !.state = "EFFORT_ACTIVE"]
  ELSE IF c.mode = "POSITION" /\ c.state = "POSITION_ACTIVE" THEN c
  ELSE [c EXCEPT !.mode = "POSITION", !.state = "EFFORT_TO_POSITION_HOLD"]

RequestControlMode(c, mode) ==
  IF mode = "EFFORT" THEN [c EXCEPT !.mode = "EFFORT", !.state = "EFFORT_ACTIVE"]
  ELSE IF c.mode = "POSITION" /\ c.state = "POSITION_ACTIVE" THEN c
  ELSE [Sync(c) EXCEPT !.mode = "POSITION", !.state = "EFFORT_TO_POSITION_HOLD"]

RequestPowerEnable(c, enable) ==
  IF c.power_enabled = enable THEN c
  ELSE [c EXCEPT !.power_enabled = enable, !.initialized = @ /\ enable]

\* POSITION mode with a hold that has been commanded at least once.
TakesTargets(c) == c.mode # "EFFORT" /\ c.state # "EFFORT_TO_POSITION_HOLD"

EndWait(c) ==
  [c EXCEPT !.state = IF @ = "WAIT_FRESH_POSITION_TARGET" THEN "POSITION_ACTIVE" ELSE @]

\* The cubic planner plans only for targets away from its end_pos.
Plan(c, t, near) ==
  [c EXCEPT !.get_pos = t, !.initialized = TRUE,
            !.plan = IF c.interp = "RUCKIG" THEN t ELSE @,
            !.moving = @ \/ (c.interp = "CUBIC" /\ ~near)]

\* After EFFORT a servo command must be newer than the entry to POSITION.
AcceptsServo(c, fresh) ==
  TakesTargets(c) /\ (c.state = "WAIT_FRESH_POSITION_TARGET" => fresh)

\* processNewCommand and command_arm_plan.
ProcessNewCommand(c, fresh, msg) ==
  LET a == [c EXCEPT !.stream = NoStream]
      b == [EndWait(a) EXCEPT !.interp = msg.run] IN
  IF ~AcceptsServo(c, fresh) THEN a
  ELSE IF msg.new \/ msg.run # c.interp THEN Plan(b, Local("servo"), msg.near) ELSE b

\* processNewArmJointCommand and command_arm_plan.
ProcessNewArmJointCommand(c) ==
  IF ~TakesTargets(c) THEN c
  ELSE Plan([EndWait(c) EXCEPT !.interp = "RUCKIG"], Local("absolute"), FALSE)

StartStream(c, t) ==
  [c EXCEPT !.stream = t, !.get_pos = t, !.initialized = TRUE]

ClearHeavyPositionStream(c) == [c EXCEPT !.stream = NoStream]

\* Mutant: the hold keeps the interpolation mode.
RequestPositionHold_KeepsInterpolation(c) ==
  IF c.mode # "POSITION" THEN c
  ELSE [Sync(c) EXCEPT !.stream = NoStream, !.state = "POSITION_ACTIVE"]

RequestPositionHold(c) ==
  IF c.mode # "POSITION" THEN c
  ELSE [Sync(c) EXCEPT !.stream = NoStream, !.interp = "RUCKIG", !.state = "POSITION_ACTIVE"]

\* Mutant: a FOLLOW is applied in every control mode.
HeavyApplied_AnyMode(c, h) ==
  \/ h.kind = "follow" /\ h.valid
  \/ h.kind = "hold" /\ c.mode = "POSITION" /\ h.valid
  \/ h.kind = "stop" /\ c.mode = "POSITION"

\* The three kinds of gateway command: whether each is applied, and its effect.
\* A HOLD is validated joint by joint while its target is being stored.
HeavyApplied(c, h) ==
  \/ h.kind = "follow" /\ TakesTargets(c) /\ h.valid
  \/ h.kind = "hold" /\ c.mode = "POSITION" /\ h.valid
  \/ h.kind = "stop" /\ c.mode = "POSITION"

ProcessHeavy(c, h) ==
  IF h.kind = "hold" /\ c.mode = "POSITION" /\ ~h.valid
  THEN [c EXCEPT !.stream = IF @ = NoStream THEN @ ELSE Mixed(h.seq)]
  ELSE IF ~HeavyApplied(c, h) THEN c
  ELSE CASE h.kind = "follow" -> StartStream(EndWait(c), Heavy(h.seq))
         [] h.kind = "hold" -> StartStream([c EXCEPT !.state = "POSITION_ACTIVE"], Heavy(h.seq))
         [] h.kind = "stop" -> RequestPositionHold(c)

\* Mutant: an enable request survives the loss of the hardware.
UpdateJointState_KeepsRequest(c, fb) ==
  [c EXCEPT !.all_enabled = (\A a \in Axes : fb[a] = "enabled"),
            !.hardware_available = (\A a \in Axes : fb[a] # "unknown")]

\* updateJointState: one unknown status drops the enable request.
UpdateJointState(c, fb) ==
  LET available == \A a \in Axes : fb[a] # "unknown" IN
  [c EXCEPT !.all_enabled = (\A a \in Axes : fb[a] = "enabled"),
            !.hardware_available = available, !.power_enabled = @ /\ available]

\* The targets are valid and no stream and no hold comes before the planners.
RunsPlanner(c, allowed) ==
  /\ allowed /\ c.mode = "POSITION" /\ c.initialized
  /\ c.stream = NoStream /\ c.state = "POSITION_ACTIVE"

RunsTrajectory(c, allowed) == RunsPlanner(c, allowed) /\ c.interp = "CUBIC" /\ c.moving

\* Mutant: disabled drives do not invalidate the position targets.
JointCommandState_KeepsTargets(c, allowed, done) ==
  LET a == IF allowed /\ c.mode = "POSITION" /\ ~c.initialized THEN Sync(c) ELSE c
  IN  [a EXCEPT !.moving = @ /\ ~done,
                !.state = IF @ = "EFFORT_TO_POSITION_HOLD" THEN "WAIT_FRESH_POSITION_TARGET" ELSE @]

\* Mutant: the stream is written whether it is active or not.
JointCommandPosition_AnyStream(c, allowed) ==
  IF ~allowed \/ c.mode = "EFFORT" \/ ~c.initialized THEN Here ELSE c.stream

\* updateJointCommands: the processor's state after it, and what it writes.
\* "done": the cubic trajectory reaches its end in this cycle.
JointCommandState(c, allowed, done) ==
  LET a == IF ~allowed THEN [c EXCEPT !.initialized = FALSE]
           ELSE IF c.mode = "POSITION" /\ ~c.initialized THEN Sync(c) ELSE c
  IN  [a EXCEPT !.moving = @ /\ ~done,
                !.state = IF @ = "EFFORT_TO_POSITION_HOLD" THEN "WAIT_FRESH_POSITION_TARGET" ELSE @]

JointCommandPosition(c, allowed) ==
  IF ~allowed \/ c.mode = "EFFORT" \/ ~c.initialized THEN Here
  ELSE IF c.stream # NoStream THEN c.stream
  ELSE IF RunsTrajectory(c, allowed) THEN Local("servo")
  ELSE IF RunsPlanner(c, allowed) /\ c.interp = "RUCKIG" THEN c.plan
  ELSE c.get_pos

-----------------------------------------------------------------------------
NewProcessor ==
  [power_enabled |-> FALSE, hardware_available |-> FALSE, all_enabled |-> FALSE,
   initialized |-> FALSE, stream |-> NoStream, mode |-> "POSITION",
   state |-> "POSITION_ACTIVE", get_pos |-> Origin, interp |-> "RUCKIG", plan |-> Here,
   moving |-> FALSE]

NewCommands == [power |-> FALSE, mode |-> "POSITION", position |-> Here]

NewController == [active |-> FALSE, leaseLast |-> FALSE, lastSeq |-> 0]

NewBox ==
  [lease |-> FALSE, heavy |-> NoHeavy, servo |-> "none", absolute |-> FALSE, mode |-> "none",
   hwMode |-> "none", power |-> "none", applied |-> TRUE,
   status |-> [a \in Axes |-> "unknown"], commandEnabled |-> FALSE, allEnabled |-> FALSE]

NewService == [pc |-> "idle", enable |-> FALSE]

NewHistory ==
  [misled |-> FALSE, local |-> FALSE, resumed |-> "no", failedEnable |-> FALSE]

ArmInit ==
  /\ cp = NewProcessor /\ cmd = NewCommands /\ rt = NewController /\ box = NewBox
  /\ svc = NewService /\ bus = NoHeavy /\ hist = NewHistory

(* The control cycle, in the order of update.                               *)

WithRequests(c) ==
  LET m == IF box.mode = "none" THEN c ELSE RequestControlMode(c, box.mode)
      h == IF box.hwMode = "none" THEN m ELSE RequestControlMode(m, box.hwMode)
  IN  IF box.power = "none" THEN h ELSE RequestPowerEnable(h, box.power = "on")

LeaseEnded == ~box.lease /\ rt.leaseLast

\* Mutant: the stream is left to requestPositionHold, which EFFORT mode refuses.
EndLease_HoldOnly(c) == IF LeaseEnded THEN RequestPositionHold(c) ELSE c

EndLease(c) == IF LeaseEnded THEN RequestPositionHold(ClearHeavyPositionStream(c)) ELSE c

\* A command is looked at once, and only if its sequence is above the watermark.
HeavyTaken == box.lease /\ box.heavy.seq > rt.lastSeq

\* Under a lease the local commands are dropped, otherwise they are consumed.
DropLocal(b) == [b EXCEPT !.servo = "none", !.absolute = FALSE]

\* The processor in the stages of update: with the feedback, the requests, the
\* end of a lease, the gateway's command and the local commands.
Requested(fb) == WithRequests(UpdateJointState(cp, fb))

Leased(fb) == EndLease(Requested(fb))

Acks(fb) == HeavyTaken /\ HeavyApplied(Leased(fb), box.heavy)

Commanded(fb) == IF HeavyTaken THEN ProcessHeavy(Leased(fb), box.heavy) ELSE Leased(fb)

TakesAbsolute == ~box.lease /\ box.absolute
TakesServo == ~box.lease /\ box.servo # "none"

\* Entering POSITION sets position_reentry_time_ to the present: a servo
\* command received before it is stale.
Reentry(fb) ==
  Requested(fb).state = "EFFORT_TO_POSITION_HOLD" /\ UpdateJointState(cp, fb) # Requested(fb)

Fresh(fb) == box.servo = "fresh" /\ ~Reentry(fb)

AfterAbsolute(fb) ==
  IF TakesAbsolute THEN ProcessNewArmJointCommand(Commanded(fb)) ELSE Commanded(fb)

Planned(fb, msg) ==
  IF TakesServo THEN ProcessNewCommand(AfterAbsolute(fb), Fresh(fb), msg) ELSE AfterAbsolute(fb)

AcceptsLocal(fb) ==
  \/ TakesAbsolute /\ TakesTargets(Commanded(fb))
  \/ TakesServo /\ AcceptsServo(AfterAbsolute(fb), Fresh(fb))

ExecutionAllowed(c) == c.all_enabled \/ (SimExecution /\ box.lease)

IsLocal(target) == target[1] \in {"servo", "absolute"}

\* History: the arm follows a local command accepted since the drives were last
\* disabled, the mode was last EFFORT, a lease last ended or a gateway command
\* was last applied.
FollowsLocal(fb, c) ==
  /\ (hist.local /\ ~LeaseEnded /\ ~Acks(fb)) \/ AcceptsLocal(fb)
  /\ ExecutionAllowed(c) /\ TakesTargets(c) /\ c.stream = NoStream

\* c is the processor when the joint commands are computed (a bound value: TLC
\* evaluates the stages above once for it).
Update(fb, msg, done) ==
  /\ rt.active /\ (TakesServo \/ msg = NoMessage)
  /\ \E c \in {Planned(fb, msg)} :
       LET allowed == ExecutionAllowed(c)
           position == JointCommandPosition(c, allowed)
       IN
       /\ done => RunsTrajectory(c, allowed)
       /\ cp' = JointCommandState(c, allowed, done)
       /\ cmd' = [power |-> c.power_enabled, mode |-> c.mode, position |-> position]
       /\ rt' = [rt EXCEPT !.leaseLast = box.lease,
                           !.lastSeq = IF LeaseEnded THEN 0 ELSE IF Acks(fb) THEN box.heavy.seq ELSE @]
       /\ box' = [DropLocal(box) EXCEPT
                    !.mode = "none", !.hwMode = "none", !.power = "none",
                    !.heavy = IF box.lease \/ LeaseEnded THEN NoHeavy ELSE @,
                    !.applied = @ \/ box.power # "none", !.status = fb,
                    !.commandEnabled = c.power_enabled /\ c.hardware_available,
                    !.allEnabled = c.all_enabled]
       /\ hist' = [hist EXCEPT
                     !.misled = Acks(fb) /\ c.all_enabled
                                /\ position # IF box.heavy.kind = "stop" THEN Here
                                                ELSE Heavy(box.heavy.seq),
                     !.local = FollowsLocal(fb, c),
                     !.resumed = IF ~IsLocal(position) \/ FollowsLocal(fb, c) THEN "no"
                                 ELSE IF RunsTrajectory(c, allowed) THEN "trajectory" ELSE "plan"]
       /\ UNCHANGED <<svc, bus>>

(* The callbacks of the node.                                               *)

CallbackMayRun == svc.pc = "idle"

\* twist_callback and arm_joint_callback; the stamp of a servo command may
\* be older than the last entry to POSITION.
ReceiveServo(age) ==
  /\ CallbackMayRun /\ "servo" \in LocalKinds /\ ~box.lease
  /\ box' = [box EXCEPT !.servo = age]
  /\ UNCHANGED <<cp, cmd, rt, svc, bus, hist>>

ReceiveAbsolute ==
  /\ CallbackMayRun /\ "absolute" \in LocalKinds /\ ~box.lease
  /\ box' = [box EXCEPT !.absolute = TRUE]
  /\ UNCHANGED <<cp, cmd, rt, svc, bus, hist>>

\* The gateway (HeavyGateway is its model) sends commands of increasing sequence
\* and repeats the last one.  Gate and command are two topics that keep one
\* sample and delay or coalesce independently: a command may be delivered before
\* the gate of its lease and after the end of it.
ReceiveHeavy(kind, valid) ==
  /\ CallbackMayRun /\ bus.seq < MaxSeq /\ (valid \/ (MayReject /\ kind = "hold"))
  /\ bus' = [seq |-> bus.seq + 1, kind |-> kind, valid |-> valid]
  /\ box' = [box EXCEPT !.heavy = bus']
  /\ UNCHANGED <<cp, cmd, rt, svc, hist>>

ReceiveHeavyAgain ==
  /\ CallbackMayRun /\ bus # NoHeavy
  /\ box' = [box EXCEPT !.heavy = bus]
  /\ UNCHANGED <<cp, cmd, rt, svc, bus, hist>>

ReceiveGate(value) ==
  /\ CallbackMayRun /\ HeavyKinds # {}
  /\ box' = [box EXCEPT !.lease = value]
  /\ UNCHANGED <<cp, cmd, rt, svc, bus, hist>>

\* control_mode_callback and hardware_mode_callback.
ReceiveMode(mode) ==
  /\ CallbackMayRun
  /\ \/ "service" \in ModeSources /\ box' = [box EXCEPT !.mode = mode]
     \/ "topic" \in ModeSources /\ box' = [box EXCEPT !.hwMode = mode]
  /\ UNCHANGED <<cp, cmd, rt, svc, bus, hist>>

\* poweron_callback: accepted in every lifecycle state.
ReceivePower(value) ==
  /\ CallbackMayRun /\ "topic" \in PowerSources
  /\ box' = [box EXCEPT !.power = value]
  /\ hist' = [hist EXCEPT !.failedEnable = FALSE]
  /\ UNCHANGED <<cp, cmd, rt, svc, bus>>

(* handlePowerService: submit (the generation, then the request), wait,     *)
(* and the rollback of an enable that failed.                               *)

PowerSubmit(enable) ==
  /\ CallbackMayRun /\ "service" \in PowerSources /\ rt.active
  /\ svc' = [pc |-> "submit", enable |-> enable]
  /\ box' = [box EXCEPT !.applied = FALSE]
  /\ hist' = [hist EXCEPT !.failedEnable = FALSE]
  /\ UNCHANGED <<cp, cmd, rt, bus>>

PowerStore ==
  /\ svc.pc \in {"submit", "rollback"}
  /\ box' = [box EXCEPT !.power = IF svc.enable THEN "on" ELSE "off"]
  /\ svc' = [svc EXCEPT !.pc = IF @ = "submit" THEN "wait" ELSE "rollback_wait"]
  /\ UNCHANGED <<cp, cmd, rt, bus, hist>>

\* state_matches.  A disable is confirmed as soon as not every drive is enabled.
StateMatches(enable) ==
  IF enable
  THEN box.commandEnabled /\ box.allEnabled /\ \A a \in Axes : box.status[a] = "enabled"
  ELSE ~box.commandEnabled /\ ~box.allEnabled /\ \E a \in Axes : box.status[a] # "enabled"

NoDrives == \A a \in Axes : box.status[a] = "unknown"

PowerConfirmed ==
  /\ svc.pc \in {"wait", "rollback_wait"} /\ box.applied
  /\ ~(svc.enable /\ NoDrives) /\ StateMatches(svc.enable)
  /\ svc' = [svc EXCEPT !.pc = "idle"]
  /\ hist' = [hist EXCEPT !.failedEnable = svc.pc = "rollback_wait"]
  /\ UNCHANGED <<cp, cmd, rt, box, bus>>

\* Mutant: a failed enable is reported without the rollback.
PowerFailed_NoRollback ==
  /\ svc.pc \in {"wait", "rollback_wait"}
  /\ svc' = [svc EXCEPT !.pc = "idle"]
  /\ hist' = [hist EXCEPT !.failedEnable = svc.enable]
  /\ UNCHANGED <<cp, cmd, rt, box, bus>>

\* The wait ends without the feedback: no drives, or the timeout of 5 s (1.5 s
\* for the rollback).  A failed enable submits a disable.
PowerFailed ==
  /\ svc.pc \in {"wait", "rollback_wait"}
  /\ IF svc.enable
     THEN /\ svc' = [pc |-> "rollback", enable |-> FALSE]
          /\ box' = [box EXCEPT !.applied = FALSE]
          /\ UNCHANGED hist
     ELSE /\ svc' = [svc EXCEPT !.pc = "idle"]
          /\ hist' = [hist EXCEPT !.failedEnable = svc.pc = "rollback_wait"]
          /\ UNCHANGED box
  /\ UNCHANGED <<cp, cmd, rt, bus>>

(* Lifecycle.                                                               *)

OnActivate ==
  /\ ~rt.active
  /\ rt' = [rt EXCEPT !.active = TRUE]
  /\ UNCHANGED <<cp, cmd, box, svc, bus, hist>>

\* on_deactivate.  The watermark and the lease seen by the last update stay.
OnDeactivate ==
  /\ rt.active /\ MayCycle
  /\ rt' = [rt EXCEPT !.active = FALSE]
  /\ box' = [box EXCEPT !.lease = FALSE, !.heavy = NoHeavy]
  /\ cmd' = [cmd EXCEPT !.power = FALSE]
  /\ cp' = Reset(cp)
  /\ hist' = [hist EXCEPT !.local = FALSE]
  /\ UNCHANGED <<svc, bus>>

-----------------------------------------------------------------------------
Callback ==
  \/ \E age \in {"fresh", "stale"} : ReceiveServo(age)
  \/ ReceiveAbsolute
  \/ \E kind \in HeavyKinds, valid \in BOOLEAN : ReceiveHeavy(kind, valid)
  \/ ReceiveHeavyAgain
  \/ \E value \in BOOLEAN : ReceiveGate(value)
  \/ \E mode \in ControlModes : ReceiveMode(mode)

PowerRequests ==
  \/ \E value \in {"on", "off"} : ReceivePower(value)
  \/ \E enable \in BOOLEAN : PowerSubmit(enable)
  \/ PowerStore
  \/ PowerConfirmed
  \/ PowerFailed

\* Alone, without power requests (ArmStack has them), the drives may report any
\* status in any cycle.
Next ==
  \/ \E fb \in [Axes -> Feedbacks], msg \in ServoMessages, done \in BOOLEAN :
       Update(fb, msg, done)
  \/ Callback
  \/ OnActivate
  \/ OnDeactivate

Init == ArmInit
Spec == Init /\ [][Next]_armVars

-----------------------------------------------------------------------------
\* Every acknowledged gateway command is what the arm is commanded in the same
\* cycle: the stream target of a FOLLOW or HOLD, the measured pose of a STOP.
\* The gateway counts on the acknowledgement of update (FOLLOW and HOLD are
\* "applied" before power, mode and initialisation are looked at).
AckIsCommanded == ~hist.misled

\* From the acknowledgement of the lease's first command until update sees the
\* end of the lease (the watermark is positive), no target of a local command is
\* commanded: not one that was accepted before the lease, not one that waits in a
\* buffer while the gate closes and opens between two cycles, and not the
\* trajectory that a STOP interrupts, whose axis planners are still moving.
LocalYieldsToGateway == rt.lastSeq > 0 => ~IsLocal(cmd.position)

\* A gateway stream exists only under the lease that the last update saw: the
\* end of a lease clears it in every control mode, and deactivation too.
StreamNeedsLease == cp.stream # NoStream => rt.leaseLast

\* After EFFORT the arm holds the measured pose until a fresh position target
\* arrives, whatever it was commanded before EFFORT and whatever stale local
\* commands arrive.
WaitHoldsPose ==
  cp.state = "WAIT_FRESH_POSITION_TARGET" /\ cp.stream = NoStream => cmd.position = Here

\* Nothing but a new local command makes update command a local target again
\* after the drives were disabled, after EFFORT, after a lease or after a
\* gateway command (position_targets_initialized_ and the Ruckig reset), however
\* many cycles later; apart from a cubic trajectory that was interrupted.
NoPlanResumes == hist.resumed # "plan"

\* Not kept: syncPositionTargetsToCurrent_ leaves the axis planners moving, so
\* after power-off and power-on in CUBIC mode the arm holds its pose for one
\* cycle and then runs the interrupted trajectory on, at the time that has passed
\* since it was planned.
NoTrajectoryResumes == hist.resumed = "no"

\* Not kept: a lease that opens and closes between two cycles is not seen by
\* update, and a local command that was waiting is executed after it.
LeaseDropsLocal ==
  [][box.lease /\ ~box'.lease => box.servo = "none" /\ ~box.absolute]_armVars

\* Once the power service has answered that an enable failed, and until the
\* next request, the enable request is gone or a disable is about to be applied.
FailedEnableIsUndone == hist.failedEnable => ~cp.power_enabled \/ box.power = "off"
==============================================================================
