--------------------------- MODULE LiftController ---------------------------
(***************************************************************************)
(* The lift controller (joint_hardware, lift_controller.cpp): a mode       *)
(* machine run by the real-time loop (update), fed through lock-free       *)
(* buffers and generation counters by the callbacks of its node.           *)
(*                                                                         *)
(* The callbacks share the node's default callback group, so one runs at a *)
(* time ("cb"); each store or buffer write that update can observe is a    *)
(* step of its own.  update takes two steps: it reads emergency stop,      *)
(* lease and trajectory first, then the command buffers, and publishes its *)
(* snapshot at the end.  Positions, limits and profiles are abstracted to  *)
(* "the profile is at rest" and to the outcome of a profile cycle.         *)
(***************************************************************************)
EXTENDS Integers

CONSTANTS
  LegacyTypes,     \* local commands in use, of {"position", "jog", "stream", "soft_stop"}
  UseTrajectory,   \* the trajectory topic is in use
  HeavyTypes,      \* gateway commands in use, of {"hold", "stream", "soft_stop"}
  Services,        \* safety services in use, of {"soft_stop", "hold"}
  MayEstop,        \* the drive may report a latched emergency stop
  MayBlock,        \* the drive may report an error or blocked motion
  MayRezero,       \* the drive may report a new zero frame
  MayFail,         \* feedback may be non-finite, a profile may be rejected
  MayCycle,        \* the controller may be deactivated and activated again
  JogTimeout,      \* in control cycles
  MaxGen,          \* bound: motion generations assigned in a behaviour
  MaxSeq           \* bound: internal gateway sequences

ASSUME LiftAssumption ==
  /\ LegacyTypes \subseteq {"position", "jog", "stream", "soft_stop"}
  /\ HeavyTypes \subseteq {"hold", "stream", "soft_stop"}
  /\ Services \subseteq {"soft_stop", "hold"}
  /\ {UseTrajectory, MayEstop, MayBlock, MayRezero, MayFail, MayCycle} \subseteq BOOLEAN
  /\ JogTimeout \in Nat /\ MaxGen \in Nat /\ MaxSeq \in Nat

VARIABLES
  drv,      \* last driver status: ready, estop, blocked
  active,   \* active_, the lifecycle state
  lc,       \* the members of LiftController
  cb        \* the callback in progress, and the last reply of a safety service

vars == <<drv, active, lc, cb>>

-----------------------------------------------------------------------------
Types == {"none", "position", "trajectory", "jog", "stream", "soft_stop", "hold"}
Modes == {"hold", "brake_gate", "position", "trajectory", "jog", "streaming", "soft_stop",
          "estop", "fault"}
Moving == {"position", "trajectory", "jog", "streaming"}

Commands == [type : Types, gen : Nat, seq : Nat]
NoCommand == [type |-> "none", gen |-> 0, seq |-> 0]

\* The last fields are history: the command acted on last, and the newest
\* generation when update last saw the emergency stop, or the lease.
ControllerState ==
  [step : {"idle", "select"}, mode : Modes, gated : Commands, gatedValid : BOOLEAN,
   traj : Nat, atPoint : BOOLEAN, completion : {"disable", "hold_powered"}, pendingHold : Nat,
   consumed : Nat, consumedSafety : Nat, consumedHeavy : Nat, leaseRt : BOOLEAN,
   followAck : Nat, stable : BOOLEAN, jogAge : 0 .. JogTimeout + 1, rest : BOOLEAN,
   still : BOOLEAN, power : BOOLEAN, rezero : BOOLEAN,
   gen : Nat, cancel : Nat, appliedCancel : Nat, cmdGen : Nat, safetyGen : Nat, heavyGen : Nat,
   admitted : Nat, applied : Nat, lease : BOOLEAN, completed : Nat, failed : Nat,
   cmdBuf : Commands, safetyBuf : Commands, heavyBuf : Commands, pendTraj : Nat,
   snapMode : Modes, snapTraj : BOOLEAN, snapGated : BOOLEAN,
   cur : Commands, estopGen : Nat, leaseGen : Nat]

CallbackState ==
  [pc : {"idle", "write_cmd", "write_heavy", "safety_store", "safety_write", "safety_check", "wait"},
   cmd : Commands,
   reply : {"none", "inactive", "idempotent", "committed", "confirmed", "failed", "timeout"},
   done : Nat]   \* history: generation of the last safety command answered with success

\* driver_gate_ready.  "ready" stands for a fresh status with every condition
\* met except the emergency stop, which is tested separately.
GateReady == drv.ready /\ ~drv.estop

-----------------------------------------------------------------------------
(* The helpers of update, as functions of the controller's state.           *)

\* consumed_generation_ = command_generation_: queued local commands are dropped.
DrainLegacy_Forgotten(s) == s

DrainLegacy(s) == [s EXCEPT !.consumed = s.cmdGen]

EnterHold(s) == [s EXCEPT !.mode = "hold", !.rest = TRUE]

FailPendingHold(s) ==
  IF s.pendingHold = 0 THEN s ELSE [s EXCEPT !.failed = s.pendingHold, !.pendingHold = 0]

EnterFault_KeepsPower(s) == [FailPendingHold(s) EXCEPT !.mode = "fault"]

EnterFault(s) == [FailPendingHold(s) EXCEPT !.mode = "fault", !.rest = TRUE, !.power = FALSE]

BeginBrakeGate(s, c) ==
  [s EXCEPT !.gated = c, !.gatedValid = TRUE, !.mode = "brake_gate", !.rest = TRUE,
            !.stable = FALSE, !.power = TRUE, !.jogAge = 0]

BeginSoftStop(s, completion, holdGen) ==
  [s EXCEPT !.gatedValid = FALSE, !.traj = 0, !.atPoint = FALSE, !.mode = "soft_stop",
            !.completion = completion, !.pendingHold = holdGen]

\* write_command_interfaces: the snapshot that the services read.
WriteInterfaces(s) ==
  [s EXCEPT !.snapMode = s.mode, !.snapTraj = (s.mode = "trajectory" /\ s.traj # 0),
            !.snapGated = s.gatedValid]

HoldSnapshotIsSafe(s) == s.snapMode = "hold" /\ ~s.snapTraj /\ ~s.snapGated /\ s.still

(* Selection of at most one buffered command.                               *)

SafetyNew(s) == s.safetyGen # s.consumedSafety
HeavyNew(s) == ~SafetyNew(s) /\ s.leaseRt /\ s.heavyGen # s.consumedHeavy

Source(s) == IF SafetyNew(s) THEN "safety"
             ELSE IF HeavyNew(s) THEN "heavy"
             ELSE IF s.leaseRt THEN "none" ELSE "legacy"

Buffered(s) ==
  CASE Source(s) = "safety" -> s.safetyBuf [] Source(s) = "heavy" -> s.heavyBuf
    [] Source(s) = "legacy" -> s.cmdBuf [] OTHER -> NoCommand

MarkConsumed(s) ==
  [s EXCEPT !.consumedSafety = IF Source(s) = "safety" THEN s.safetyGen ELSE @,
            !.consumedHeavy = IF Source(s) = "heavy" THEN s.heavyGen ELSE @]

BufferedIsNew_IgnoresCancel(s) ==
  LET c == Buffered(s) IN c.gen # 0 /\ (Source(s) = "legacy" => c.gen # s.consumed)

BufferedIsNew(s) ==
  LET c == Buffered(s) IN
  /\ c.gen # 0
  /\ Source(s) = "safety" \/ c.gen > s.cancel
  /\ Source(s) \in {"safety", "heavy"} \/ c.gen # s.consumed

(* The reaction to a new command, by kind.                                  *)

StopOrHold(s, c, safety) ==
  LET a == IF safety
           THEN [s EXCEPT !.traj = 0, !.appliedCancel = c.gen,
                          !.pendTraj = IF s.pendTraj <= c.gen THEN 0 ELSE @] ELSE s
      holdGen == IF c.type = "hold" /\ safety THEN c.gen ELSE 0
  IN  IF s.mode = "hold" /\ s.still
      THEN IF c.type = "hold" THEN EnterHold([a EXCEPT !.pendingHold = holdGen])
           ELSE [EnterHold(a) EXCEPT !.power = FALSE]
      ELSE BeginSoftStop(a, IF c.type = "hold" THEN "hold_powered" ELSE "disable", holdGen)

\* A stream sample in streaming mode replaces the commanded sample; a jog
\* command in jog mode renews the keepalive; anything else passes the brake gate.
StartOrUpdate(s, c, ready) ==
  IF s.mode = "brake_gate"
  THEN [s EXCEPT !.gated = c, !.gatedValid = TRUE,
                 !.jogAge = IF c.type = "jog" THEN 0 ELSE @]
  ELSE IF ready /\ c.type = "jog" /\ s.mode = "jog" THEN [s EXCEPT !.jogAge = 0]
  ELSE IF ready /\ c.type = "stream" /\ s.mode = "streaming" THEN s
  ELSE BeginBrakeGate([s EXCEPT !.traj = 0], c)

Act(s, ready) ==
  LET c == Buffered(s)
      a == [MarkConsumed(s) EXCEPT !.cur = c,
              !.consumed = IF Source(s) = "legacy" THEN c.gen ELSE @]
  IN  IF ~BufferedIsNew(s) THEN MarkConsumed(s)
      ELSE IF c.type \in {"soft_stop", "hold"} THEN StopOrHold(a, c, Source(s) = "safety")
      ELSE StartOrUpdate(a, c, ready)

\* An unready driver gate is a fault in every mode but hold, brake_gate, estop.
GateLost_ProfileOnly(s, ready) ==
  IF s.mode \in {"position", "trajectory", "jog", "soft_stop"} /\ ~ready /\ s.power
  THEN EnterFault([s EXCEPT !.gatedValid = FALSE, !.traj = 0]) ELSE s

GateLost(s, ready) ==
  IF s.mode \notin {"hold", "brake_gate", "estop"} /\ ~ready /\ s.power
  THEN EnterFault([s EXCEPT !.gatedValid = FALSE, !.traj = 0]) ELSE s

(* One profile cycle.  A profile at rest completes a soft stop at once; the *)
(* outcome of any other cycle is an input.                                  *)

Outcomes == {"running", "finished", "arrived"} \cup IF MayFail THEN {"invalid"} ELSE {}

ProfileOutcome(s, o) == IF s.mode = "soft_stop" /\ s.rest THEN "finished" ELSE o

ProfileCycle_KeepsPower(s, o) ==
  IF ProfileOutcome(s, o) = "invalid" THEN EnterFault(s)
  ELSE IF s.mode = "soft_stop" /\ ProfileOutcome(s, o) # "running" THEN EnterHold(s)
  ELSE [s EXCEPT !.rest = FALSE]

ProfileCycle(s, o) ==
  IF ProfileOutcome(s, o) = "invalid" THEN EnterFault(s)
  ELSE IF s.mode = "soft_stop" /\ ProfileOutcome(s, o) # "running"
  THEN [EnterHold(s) EXCEPT !.power = IF s.completion = "disable" THEN FALSE ELSE @]
  ELSE [s EXCEPT !.rest = FALSE]

StartGatedMotion(s) ==
  LET a == [s EXCEPT !.gatedValid = FALSE] IN
  CASE s.gated.type = "trajectory" ->
         IF s.traj # 0 THEN [a EXCEPT !.mode = "trajectory", !.atPoint = FALSE]
         ELSE BeginSoftStop(a, "disable", 0)
    [] s.gated.type = "jog" -> [a EXCEPT !.mode = "jog", !.jogAge = 0]
    [] s.gated.type = "stream" -> [a EXCEPT !.mode = "streaming"]
    [] OTHER -> [a EXCEPT !.mode = "position"]

BrakeGate(s, ready, elapsed, o) ==
  IF s.gated.type = "jog" /\ s.jogAge > JogTimeout
  THEN ProfileCycle(BeginSoftStop(s, "disable", 0), o)
  ELSE IF ~ready THEN [s EXCEPT !.stable = FALSE, !.power = TRUE]
  ELSE IF s.stable /\ elapsed THEN StartGatedMotion(s)
  ELSE [s EXCEPT !.stable = TRUE]

JogCycle_NoTimeout(s, o) == ProfileCycle(s, o)

JogCycle(s, o) ==
  IF s.jogAge > JogTimeout THEN ProfileCycle(BeginSoftStop(s, "disable", 0), o)
  ELSE ProfileCycle(s, o)

\* The last point was reached when a trajectory cycle finishes (o = "arrived"
\* below needs it); earlier points only start the next one.
TrajectoryCycle(s, o, last) ==
  IF o = "invalid" THEN EnterFault(s)
  ELSE [s EXCEPT !.rest = FALSE, !.atPoint = @ \/ (o # "running" /\ last)]

MotionStep(s, ready, elapsed, o, last) ==
  CASE s.mode = "brake_gate" -> BrakeGate(s, ready, elapsed, o)
    [] s.mode = "jog" -> JogCycle(s, o)
    [] s.mode = "trajectory" /\ s.traj # 0 -> TrajectoryCycle(s, o, last)
    [] s.mode \in {"position", "soft_stop"} -> ProfileCycle(s, o)
    [] OTHER -> s

\* The target was stable for target_stable_sec_: a position move or the last
\* trajectory point is complete and the servo holds it.
TargetReached(s, o) ==
  IF o = "arrived" /\ s.still /\ (s.mode = "position" \/ (s.mode = "trajectory" /\ s.atPoint))
  THEN EnterHold([s EXCEPT !.traj = 0]) ELSE s

\* apply_zero_frame_resync.
ZeroFrameResync_ClearsFault(s) ==
  IF ~s.rezero THEN s
  ELSE [s EXCEPT !.rezero = FALSE, !.traj = 0, !.gatedValid = FALSE, !.pendingHold = 0,
                 !.rest = TRUE, !.mode = "hold"]

ZeroFrameResync(s) ==
  IF ~s.rezero THEN s
  ELSE [s EXCEPT !.rezero = FALSE, !.traj = 0, !.gatedValid = FALSE, !.pendingHold = 0,
                 !.rest = TRUE, !.mode = IF @ \in {"fault", "estop"} THEN @ ELSE "hold"]

ConfirmPendingHold_AnyMode(s, settled) ==
  IF s.pendingHold # 0 /\ settled THEN [s EXCEPT !.completed = s.pendingHold, !.pendingHold = 0]
  ELSE s

ConfirmPendingHold(s, settled) ==
  IF s.pendingHold = 0 \/ s.mode # "hold" THEN s
  ELSE IF drv.estop \/ drv.blocked THEN FailPendingHold(s)
  ELSE IF ~s.still \/ ~settled THEN s
  ELSE [s EXCEPT !.completed = s.pendingHold, !.pendingHold = 0]

\* The acknowledgement of a gateway command: at once, except that a FOLLOW
\* waits until a stream sample was selected in streaming mode.
PublishAck_KeepsFirst(s, heavy, c, ready, selected) ==
  LET a == IF ~heavy \/ c.seq = 0 THEN s
           ELSE IF c.type = "stream" THEN [s EXCEPT !.followAck = IF @ # 0 THEN @ ELSE c.seq]
           ELSE [s EXCEPT !.applied = c.seq]
  IN  IF a.followAck # 0 /\ a.mode = "streaming" /\ ready /\ selected
      THEN [a EXCEPT !.applied = a.followAck, !.followAck = 0] ELSE a

PublishAck(s, heavy, c, ready, selected) ==
  LET a == IF ~heavy \/ c.seq = 0 THEN s
           ELSE IF c.type = "stream" THEN [s EXCEPT !.followAck = c.seq]
           ELSE [s EXCEPT !.applied = c.seq]
  IN  IF a.followAck # 0 /\ a.mode = "streaming" /\ ready /\ selected
      THEN [a EXCEPT !.applied = a.followAck, !.followAck = 0] ELSE a

\* The keepalive clock runs while a jog is gated or moving.
JogClock(s) ==
  [s EXCEPT !.jogAge = IF s.mode = "jog" \/ (s.mode = "brake_gate" /\ s.gated.type = "jog")
                       THEN IF @ > JogTimeout THEN @ ELSE @ + 1
                       ELSE 0]

-----------------------------------------------------------------------------
(* update.                                                                  *)

UpdateNotFinite ==
  /\ MayFail /\ active /\ lc.step = "idle"
  /\ \E still \in BOOLEAN :
       lc' = WriteInterfaces([EnterFault(lc) EXCEPT !.rest = lc.rest, !.still = still])
  /\ UNCHANGED <<drv, active, cb>>

UpdateEstop ==
  /\ active /\ lc.step = "idle" /\ drv.estop
  /\ \E still \in BOOLEAN :
       lc' = WriteInterfaces([DrainLegacy(lc) EXCEPT
               !.mode = "estop", !.gatedValid = FALSE, !.traj = 0, !.pendTraj = 0, !.rest = TRUE,
               !.power = FALSE, !.still = still, !.estopGen = lc.gen])
  /\ UNCHANGED <<drv, active, cb>>

\* Up to the choice of a trajectory: the end of an emergency stop, the falling
\* edge of the lease, and what the lease takes away from the local sources.
LeaveEstop(s) == IF s.mode = "estop" THEN EnterHold(DrainLegacy(s)) ELSE s

SampleLease(s) ==
  [s EXCEPT !.leaseRt = s.lease,
            !.consumedHeavy = IF ~s.lease /\ s.leaseRt THEN s.heavyGen ELSE @]

TakeTrajectory(s) ==
  IF s.lease
  THEN [DrainLegacy(s) EXCEPT !.traj = 0, !.pendTraj = 0, !.leaseGen = s.gen]
  ELSE IF s.pendTraj > s.cancel
  THEN [BeginBrakeGate(s, [NoCommand EXCEPT !.type = "trajectory"]) EXCEPT
          !.traj = s.pendTraj, !.atPoint = FALSE, !.pendTraj = 0,
          !.cur = [type |-> "trajectory", gen |-> s.pendTraj, seq |-> 0]]
  ELSE s

UpdateBegin ==
  /\ active /\ lc.step = "idle" /\ ~drv.estop
  /\ \E still \in BOOLEAN :
       lc' = TakeTrajectory(SampleLease(LeaveEstop(
               [lc EXCEPT !.still = still, !.step = "select"])))
  /\ UNCHANGED <<drv, active, cb>>

\* From the command buffers to the end of the cycle.
UpdateEnd(settled, elapsed, last, o) ==
  /\ active /\ lc.step = "select"
  /\ \E s1 \in {Act(lc, GateReady)} :
     \E s2 \in {MotionStep(GateLost(s1, GateReady), GateReady, elapsed, o, last)} :
     \E s3 \in {WriteInterfaces(ZeroFrameResync(TargetReached(s2, o)))} :
       LET selected == \/ lc.mode = "streaming" /\ s1.mode = "streaming" /\ GateReady
                            /\ BufferedIsNew(lc) /\ Buffered(lc).type = "stream"
                       \/ s1.mode = "brake_gate" /\ s2.mode = "streaming"
       IN  lc' = [JogClock(PublishAck(ConfirmPendingHold(s3, settled), HeavyNew(lc),
                                      lc.heavyBuf, GateReady, selected)) EXCEPT !.step = "idle"]
  /\ UNCHANGED <<drv, active, cb>>

(* The lifecycle transitions run in the real-time thread, between cycles.   *)

OnActivate ==
  /\ ~active /\ lc.step = "idle" /\ active' = TRUE
  /\ \E still \in BOOLEAN :
       lc' = [DrainLegacy(WriteInterfaces([lc EXCEPT !.still = still])) EXCEPT
                !.power = FALSE, !.rest = TRUE, !.consumedSafety = lc.safetyGen,
                !.consumedHeavy = lc.heavyGen, !.leaseRt = FALSE, !.pendTraj = 0, !.traj = 0,
                !.gatedValid = FALSE, !.mode = "hold", !.completion = "disable",
                !.pendingHold = 0, !.cancel = lc.gen, !.appliedCancel = lc.gen]
  /\ UNCHANGED <<drv, cb>>

OnDeactivate ==
  /\ MayCycle /\ active /\ lc.step = "idle" /\ active' = FALSE
  /\ lc' = WriteInterfaces([lc EXCEPT !.lease = FALSE, !.leaseRt = FALSE,
             !.consumedHeavy = lc.heavyGen, !.power = FALSE, !.rest = TRUE])
  /\ UNCHANGED <<drv, cb>>

-----------------------------------------------------------------------------
(* The callbacks of the node.                                               *)

NewCommand(type, seq) == [type |-> type, gen |-> lc.gen + 1, seq |-> seq]

\* Jog, stream and command-service requests; a jog at zero speed is a soft_stop.
\* The generation is stored before the buffer is written.
LegacyCommand(type) ==
  /\ cb.pc = "idle" /\ ~drv.estop /\ ~lc.lease /\ lc.gen < MaxGen
  /\ cb' = [cb EXCEPT !.pc = "write_cmd", !.cmd = NewCommand(type, 0)]
  /\ lc' = [lc EXCEPT !.gen = @ + 1, !.cmdGen = lc.gen + 1]
  /\ UNCHANGED <<drv, active>>

WriteCommand ==
  /\ cb.pc = "write_cmd"
  /\ lc' = [lc EXCEPT !.cmdBuf = cb.cmd]
  /\ cb' = [cb EXCEPT !.pc = "idle"]
  /\ UNCHANGED <<drv, active>>

TrajectoryCommand ==
  /\ UseTrajectory /\ cb.pc = "idle" /\ ~drv.estop /\ ~lc.lease /\ lc.gen < MaxGen
  /\ lc' = [lc EXCEPT !.gen = @ + 1, !.pendTraj = lc.gen + 1]
  /\ UNCHANGED <<drv, active, cb>>

\* A sequence at or below the admitted one is ignored, or acknowledged again.
HeavyCommand(seq, type) ==
  /\ cb.pc = "idle" /\ seq > lc.admitted /\ lc.gen < MaxGen
  /\ cb' = [cb EXCEPT !.pc = "write_heavy", !.cmd = NewCommand(type, seq)]
  /\ lc' = [lc EXCEPT !.admitted = seq, !.gen = @ + 1, !.heavyGen = lc.gen + 1]
  /\ UNCHANGED <<drv, active>>

\* A target out of limits is refused after its sequence was admitted.
HeavyRefused(seq) ==
  /\ cb.pc = "idle" /\ seq > lc.admitted
  /\ lc' = [lc EXCEPT !.admitted = seq]
  /\ UNCHANGED <<drv, active, cb>>

WriteHeavy ==
  /\ cb.pc = "write_heavy"
  /\ lc' = [lc EXCEPT !.heavyBuf = cb.cmd]
  /\ cb' = [cb EXCEPT !.pc = "idle"]
  /\ UNCHANGED <<drv, active>>

Gate(open) ==
  /\ cb.pc = "idle" /\ (open # lc.lease \/ ~open)
  /\ lc' = IF open THEN [lc EXCEPT !.lease = TRUE]
           ELSE [lc EXCEPT !.lease = FALSE, !.admitted = 0, !.applied = 0]
  /\ UNCHANGED <<drv, active, cb>>

\* on_driver_status: every condition of the report is stored.
DriverStatus(d, rezero) ==
  /\ cb.pc = "idle" /\ (d # drv \/ rezero)
  /\ drv' = d
  /\ lc' = [lc EXCEPT !.rezero = @ \/ rezero]
  /\ UNCHANGED <<active, cb>>

\* Without a report: the last one expires, or the power state interface changes.
GateChange ==
  /\ drv' = [drv EXCEPT !.ready = ~@]
  /\ UNCHANGED <<active, lc, cb>>

(* The STOP and HOLD services; the callback blocks until it answers.        *)

Answer(reply, done) ==
  cb' = [cb EXCEPT !.pc = "idle", !.reply = reply, !.done = IF done THEN cb.cmd.gen ELSE @]

\* enqueue_safety_command, under the trajectory mutex.
EnqueueSafety(s) == [s EXCEPT !.gen = @ + 1, !.cancel = s.gen + 1, !.pendTraj = 0]

SafetyRequest(type) ==
  /\ cb.pc = "idle" /\ lc.gen < MaxGen /\ (type = "hold" => active)
  /\ cb' = [cb EXCEPT !.pc = "safety_store", !.cmd = NewCommand(type, 0), !.reply = "none"]
  /\ lc' = EnqueueSafety(lc)
  /\ UNCHANGED <<drv, active>>

SafetyStore ==
  /\ cb.pc = "safety_store"
  /\ lc' = [lc EXCEPT !.safetyGen = cb.cmd.gen]
  /\ cb' = [cb EXCEPT !.pc = "safety_write"]
  /\ UNCHANGED <<drv, active>>

SafetyWrite ==
  /\ cb.pc = "safety_write"
  /\ lc' = [lc EXCEPT !.safetyBuf = cb.cmd]
  /\ cb' = [cb EXCEPT !.pc = "safety_check"]
  /\ UNCHANGED <<drv, active>>

AlreadySafe == HoldSnapshotIsSafe(lc) /\ (cb.cmd.type = "soft_stop" => ~lc.power)

SafetyCheck ==
  /\ cb.pc = "safety_check"
  /\ \/ /\ cb.cmd.type = "soft_stop" /\ ~active
        /\ Answer("inactive", FALSE) /\ UNCHANGED lc
     \/ /\ active \/ cb.cmd.type = "hold"
        /\ IF AlreadySafe
           THEN Answer("idempotent", TRUE) /\ lc' = [lc EXCEPT !.appliedCancel = cb.cmd.gen]
           ELSE cb' = [cb EXCEPT !.pc = "wait"] /\ UNCHANGED lc
  /\ UNCHANGED <<drv, active>>

SafetyAnswer ==
  /\ cb.pc = "wait"
  /\ \/ cb.cmd.type = "soft_stop" /\ lc.appliedCancel >= cb.cmd.gen /\ Answer("committed", TRUE)
     \/ cb.cmd.type = "hold" /\ lc.completed >= cb.cmd.gen /\ Answer("confirmed", TRUE)
     \/ /\ cb.cmd.type = "hold" /\ lc.completed < cb.cmd.gen /\ lc.failed >= cb.cmd.gen
        /\ Answer("failed", FALSE)
  /\ UNCHANGED <<drv, active, lc>>

SafetyTimeout ==
  /\ cb.pc = "wait" /\ Answer("timeout", FALSE)
  /\ UNCHANGED <<drv, active, lc>>

-----------------------------------------------------------------------------
DriverReports == [ready : BOOLEAN, estop : {FALSE, MayEstop}, blocked : {FALSE, MayBlock}]

Init ==
  /\ drv = [ready |-> FALSE, estop |-> FALSE, blocked |-> FALSE]
  /\ active = FALSE
  /\ lc = [step |-> "idle", mode |-> "hold", gated |-> NoCommand, gatedValid |-> FALSE,
           traj |-> 0, atPoint |-> FALSE, completion |-> "disable", pendingHold |-> 0,
           consumed |-> 0, consumedSafety |-> 0, consumedHeavy |-> 0, leaseRt |-> FALSE,
           followAck |-> 0, stable |-> FALSE, jogAge |-> 0, rest |-> TRUE, still |-> TRUE,
           power |-> FALSE, rezero |-> FALSE, gen |-> 0, cancel |-> 0, appliedCancel |-> 0,
           cmdGen |-> 0, safetyGen |-> 0, heavyGen |-> 0, admitted |-> 0, applied |-> 0,
           lease |-> FALSE, completed |-> 0, failed |-> 0, cmdBuf |-> NoCommand,
           safetyBuf |-> NoCommand, heavyBuf |-> NoCommand, pendTraj |-> 0, snapMode |-> "hold",
           snapTraj |-> FALSE, snapGated |-> FALSE, cur |-> NoCommand, estopGen |-> 0,
           leaseGen |-> 0]
  /\ cb = [pc |-> "idle", cmd |-> NoCommand, reply |-> "none", done |-> 0]

Callback ==
  \/ \E type \in LegacyTypes : LegacyCommand(type)
  \/ WriteCommand \/ TrajectoryCommand
  \/ \E seq \in 1 .. MaxSeq, type \in HeavyTypes : HeavyCommand(seq, type)
  \/ \E seq \in 1 .. MaxSeq : HeavyTypes # {} /\ HeavyRefused(seq)
  \/ WriteHeavy
  \/ \E open \in BOOLEAN : HeavyTypes # {} /\ Gate(open)
  \/ \E d \in DriverReports, rezero \in {FALSE, MayRezero} : DriverStatus(d, rezero)
  \/ \E type \in Services : SafetyRequest(type)
  \/ SafetyStore \/ SafetyWrite \/ SafetyCheck \/ SafetyAnswer \/ SafetyTimeout

Update ==
  \/ UpdateNotFinite \/ UpdateEstop \/ UpdateBegin
  \/ \E settled, elapsed, last \in BOOLEAN, o \in Outcomes : UpdateEnd(settled, elapsed, last, o)

Next == Callback \/ Update \/ GateChange \/ OnActivate \/ OnDeactivate

Spec == Init /\ [][Next]_vars

\* The control loop keeps running, a callback that started proceeds, and a
\* profile that can finish does so in the end.
Fairness ==
  /\ WF_vars(OnActivate)
  /\ WF_vars(Update)
  /\ SF_vars(\E settled, elapsed, last \in BOOLEAN : UpdateEnd(settled, elapsed, last, "finished"))
  /\ WF_vars(WriteCommand \/ WriteHeavy \/ SafetyStore \/ SafetyWrite \/ SafetyCheck
             \/ SafetyAnswer \/ SafetyTimeout)

FairSpec == Spec /\ Fairness

-----------------------------------------------------------------------------
(* Properties.                                                              *)

TypeOK ==
  /\ drv \in [ready : BOOLEAN, estop : BOOLEAN, blocked : BOOLEAN]
  /\ active \in BOOLEAN
  /\ lc \in ControllerState
  /\ cb \in CallbackState

Started == Moving \cup {"brake_gate"}

\* The power request agrees with the mode: a gated or running motion asks for
\* power, a fault or an emergency stop has withdrawn it.
PowerFollowsMode ==
  active => /\ lc.mode \in Started => lc.power
            /\ lc.mode \in {"fault", "estop"} => ~lc.power

\* After a STOP or HOLD was answered with success, and once update has taken
\* it, no motion commanded before it is running or waiting at the brake gate.
StopIsFinal ==
  (active /\ lc.step = "idle" /\ cb.done <= lc.consumedSafety /\ lc.mode \in Started)
    => lc.cur.gen > cb.done

\* While a HOLD request can be answered "confirmed", the lift is not moving.
HoldConfirmedMeansHold ==
  (cb.pc = "wait" /\ cb.cmd.type = "hold" /\ lc.completed >= cb.cmd.gen)
    => lc.mode \notin Started \cup {"soft_stop"}

\* No control cycle ends in a motion while the driver gate is not ready.
MovingNeedsGate ==
  [][(lc.step = "select" /\ lc'.step = "idle" /\ ~GateReady) => lc'.mode \notin Moving]_vars

\* A local command that was queued while update saw the gateway's lease is
\* never acted on later (without an emergency stop, see NoResumeAfterEstop).
LocalCommandsStayDrained ==
  [][(lc'.cur # lc.cur /\ lc'.cur.seq = 0 /\ lc'.cur.type \notin {"soft_stop", "hold"})
       => lc'.cur.gen > lc'.leaseGen]_vars

FollowAcknowledged ==
  /\ lc.step = "select" /\ lc'.step = "idle" /\ lc'.followAck = 0
  /\ lc.followAck # 0 \/ (HeavyNew(lc) /\ lc.heavyBuf.type = "stream")

\* While the lift executes a sample of the gateway that no STOP or HOLD service
\* has cancelled, a FOLLOW that update acknowledges is that sample: not one that
\* was replaced at the brake gate, held or lost in the buffer meanwhile, however
\* many cycles, gates and leases its acknowledgement was kept for.
AckedFollowIsExecuted ==
  [][(FollowAcknowledged /\ lc'.cur.seq # 0 /\ lc'.cur.gen > lc'.cancel)
       => lc'.applied = lc'.cur.seq]_vars

\* An active controller never leaves the fault mode on its own: only for an
\* emergency stop, or to act on a trajectory or a buffered command.
NoAutomaticRecovery ==
  [][(lc.mode = "fault" /\ active /\ lc'.mode \notin {"fault", "estop"})
       => lc'.cur # lc.cur \/ (lc.step = "select" /\ BufferedIsNew(lc))]_vars

\* A jog ends unless it is renewed.
JogNeedsKeepalive == lc.mode = "jog" ~> lc.mode # "jog"

\* A committed STOP ends with the power withdrawn, unless a newer command was
\* acted on or the controller is deactivated.
StopDisables ==
  \A g \in 1 .. MaxGen :
    (cb.reply = "committed" /\ cb.done = g) ~> (~lc.power \/ lc.cur.gen > g)

(* Statements of comments and documents that the code does not keep; the    *)
(* README says how each of them fails.                                      *)

\* "A successful safety reset never resumes the pre-estop command."
NoResumeAfterEstop ==
  [][(lc'.cur # lc.cur /\ lc'.cur.type \notin {"soft_stop", "hold"})
       => lc'.cur.gen > lc'.estopGen]_vars

\* "Re-activation is the only path out of a latched Mode::fault."
FaultIsLatched ==
  [][(lc.mode = "fault" /\ active) => lc'.mode \in {"fault", "estop"}]_vars

\* "Only an UNREQUESTED loss of the driver gate is a fault": a fault is entered
\* only from a motion, never from the wait at the brake gate.
FaultOnlyFromMotion ==
  [][(lc.step = "select" /\ lc.mode # "fault" /\ lc'.mode = "fault")
       => lc.mode \in Moving \cup {"soft_stop"}]_vars

\* A STOP whose generation update has consumed ended every older motion.
NoStopIsLost ==
  (active /\ lc.step = "idle" /\ lc.safetyGen = lc.consumedSafety /\ lc.mode \in Started)
    => lc.cur.gen > lc.safetyGen

\* An acknowledged FOLLOW is the sample that the lift executes, whoever sent
\* the sample and whatever was requested of the safety services.
AckedFollowIsApplied == [][FollowAcknowledged => lc'.cur.seq = lc'.applied]_vars

\* A gateway sample that update marks as consumed is the one it has read.
NoHeavySampleIsLost ==
  [][(lc.step = "select" /\ lc'.consumedHeavy # lc.consumedHeavy)
       => lc.heavyBuf.gen = lc'.consumedHeavy]_vars
=============================================================================
