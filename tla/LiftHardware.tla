---------------------------- MODULE LiftHardware ----------------------------
(***************************************************************************)
(* The lift drive (joint_hardware, lift_hardware.cpp, cia402.cpp,          *)
(* feedback_continuity.cpp, zero_offset_store.cpp): the 100 Hz loop        *)
(* read / write against the service thread, the LD3M drive behind EtherCAT *)
(* and the zero offset file.                                               *)
(*                                                                         *)
(* The loop takes four steps per cycle: read, the first half of write (up  *)
(* to the power edge), its decision, and the transmission.  The service    *)
(* thread runs one handler at a time; the stores the loop can see between  *)
(* are steps of their own.                                                 *)
(* Positions are a few encoder units, velocities a direction, times counts *)
(* of cycles.  The drive is modelled by what the code expects of it.       *)
(* Two parameters are fixed to TRUE: brake_control_enabled (without it the *)
(* drive is never enabled) and use_persistent_zero_offset (without it the  *)
(* file is never written).                                                 *)
(***************************************************************************)
EXTENDS Integers

CONSTANTS
  Services,          \* services in use, see ServiceNames
  PowerCommands,     \* values the controller writes to power_enable
  MotionCommands,    \* commands of the controller, of {"rest", "up", "down", "nan"}
  Faults,            \* faults of drive and bus, see FaultNames
  MaySaveFail,       \* the zero offset file may be unwritable
  Cycling,           \* lifecycle events, of {"deactivate", "crash"}
  Range,             \* the software range is -Range .. 0 (position_min_m_, position_max_m_)
  SearchTravel,      \* reset_max_search_travel_m_
  ReleaseWait,       \* brake_release_wait_ms_, in cycles
  StopDeadline,      \* brake_p06_14_ms_, in cycles
  TakeoverTimeout,   \* reset_velocity_timeout_ms_, in cycles
  MismatchDebounce,  \* mode_mismatch_debounce_cycles_
  RecoveryCycles,    \* transport_recovery_required_cycles_
  MaxAttempts,       \* max_fault_reset_attempts_
  Backoff,           \* fault_reset_backoff_ms_, in cycles
  MaxCalls,          \* bound: service calls in a behaviour
  MaxFaults,         \* bound: faults in a behaviour
  MaxCycling         \* bound: lifecycle transitions in a behaviour

ServiceNames == {"unlock", "lock", "takeover", "takeover_off", "hold", "unhold", "zero", "home",
                 "drive_zero", "estop", "reset"}
FaultNames == {"error", "fault_bit", "jump", "fast", "mode", "stale", "lost"}
LinkFaults == Faults \cap {"stale", "lost"}
DriveFaults == Faults \ LinkFaults

ASSUME HardwareAssumption ==
  /\ Services \subseteq ServiceNames /\ Faults \subseteq FaultNames
  /\ PowerCommands \subseteq BOOLEAN /\ PowerCommands # {}
  /\ MotionCommands \subseteq {"rest", "up", "down", "nan"} /\ MotionCommands # {}
  /\ MaySaveFail \in BOOLEAN /\ Cycling \subseteq {"deactivate", "crash"}
  /\ Range \in Nat /\ SearchTravel \in Nat
  /\ {ReleaseWait, StopDeadline, TakeoverTimeout, Backoff, MaxAttempts, MaxCalls, MaxFaults,
      MaxCycling} \subseteq Nat
  /\ {MismatchDebounce, RecoveryCycles} \subseteq Nat \ {0}

VARIABLES
  life,    \* lifecycle state of the hardware component
  drv,     \* the LD3M drive and the bus: external
  disk,    \* the zero offset file: {} or {the recorded raw position}
  hw,      \* members shared between the loop and the service thread
  rt,      \* members and locals of the loop
  tx,      \* the frame sent last
  svc,     \* the handler in progress on the service thread
  hist     \* history: replies, requests, and bounds

vars == <<life, drv, disk, hw, rt, tx, svc, hist>>

-----------------------------------------------------------------------------
(* State *)

Lives == {"unconfigured", "inactive", "active", "stopping"}
DriveStates == {"off", "ready", "on", "enabled", "quick", "fault"}
PositionMin == -Range
Positions == (PositionMin - 1) .. 1   \* bound: one unit beyond the range

\* A sample of the transmitted objects 6041h, 603Fh, 6061h, 606Ch, 6064h.
Samples == [state : DriveStates, err : BOOLEAN, mode : {6, 9},
            speed : {"still", "moving", "fast"}, pos : Positions,
            homed : {"no", "done", "error"}]
Drive == [sample : Samples, link : {"ok", "stale", "lost"}]

Words == {"shutdown", "switch_on", "enable", "quick", "reset"}
Velocities == {"zero", "takeover", "up", "down"}
Frames == [cw : Words, vel : Velocities, hm : BOOLEAN]
SafeFrame == [cw |-> "shutdown", vel |-> "zero", hm |-> FALSE]

Shared ==
  [brkEn : BOOLEAN, disLatch : BOOLEAN, stopReq : BOOLEAN, unlocked : BOOLEAN,
   rvReq : BOOLEAN, rvStop : BOOLEAN, rvAge : 0 .. TakeoverTimeout, rvStart : Int,
   holdReq : BOOLEAN, zPend : BOOLEAN, zObs : BOOLEAN, zApply : BOOLEAN, zAtomic : Int,
   homing : BOOLEAN, hDone : BOOLEAN, hFailed : BOOLEAN, dzPend : BOOLEAN,
   estop : BOOLEAN, blocked : BOOLEAN, clean : BOOLEAN, contReset : BOOLEAN,
   fresh : BOOLEAN, power : BOOLEAN, tf : BOOLEAN, viol : BOOLEAN, mism : Nat,
   att : Nat, back : Nat, phase : {"disabled", "idle", "quick"}, cmdRest : BOOLEAN,
   rx : Samples, zoff : Int, gen : Nat]

Loop ==
  [pc : {"read", "begin", "decide", "send"}, prevPower : BOOLEAN, prevOp : BOOLEAN,
   rel : Nat, stopAge : Nat, healthy : Nat, base : BOOLEAN, guard : BOOLEAN,
   rebased : BOOLEAN, estop : BOOLEAN, stopPending : BOOLEAN,
   frame : Frames]

DriveAtRest == [state |-> "off", err |-> FALSE, mode |-> 9, speed |-> "still",
                pos |-> 0, homed |-> "no"]

\* The members after construction (default member initialisers).
NewShared ==
  [brkEn |-> FALSE, disLatch |-> FALSE, stopReq |-> FALSE, unlocked |-> FALSE,
   rvReq |-> FALSE, rvStop |-> FALSE, rvAge |-> 0, rvStart |-> 0,
   holdReq |-> FALSE, zPend |-> FALSE, zObs |-> FALSE, zApply |-> FALSE, zAtomic |-> 0,
   homing |-> FALSE, hDone |-> FALSE, hFailed |-> FALSE, dzPend |-> FALSE,
   estop |-> FALSE, blocked |-> FALSE, clean |-> TRUE, contReset |-> FALSE,
   fresh |-> FALSE, power |-> FALSE, tf |-> FALSE, viol |-> FALSE, mism |-> 0,
   att |-> 0, back |-> 0, phase |-> "disabled", cmdRest |-> TRUE,
   rx |-> DriveAtRest, zoff |-> 0, gen |-> 0]

NewLoop ==
  [pc |-> "read", prevPower |-> FALSE, prevOp |-> FALSE, rel |-> 0, stopAge |-> 0,
   healthy |-> 0, base |-> FALSE, guard |-> FALSE,
   rebased |-> FALSE, estop |-> FALSE, stopPending |-> FALSE,
   frame |-> SafeFrame]

Idle == [op |-> "none", pc |-> "idle", units |-> 0, ok |-> FALSE]

Init ==
  /\ life = "unconfigured"
  /\ drv = [sample |-> DriveAtRest, link |-> "ok"]
  /\ disk = {}
  /\ hw = NewShared
  /\ rt = NewLoop
  /\ tx = SafeFrame
  /\ svc = Idle
  /\ hist = [armed |-> FALSE, obs |-> FALSE, calls |-> 0, faults |-> 0,
             cycles |-> 0]

\* ZeroOffsetStore::load: no file means offset zero.
Recorded(d) == IF d = {} THEN 0 ELSE CHOOSE u \in d : TRUE

\* The host position of raw position u.
Host(h, u) == u - h.zoff
FeedbackPosition(h) == Host(h, h.rx.pos)
Stationary(h) == h.rx.speed = "still"
Distance(a, b) == IF a < b THEN b - a ELSE a - b
JumpLimit == 1

Powered(h, link) ==
  /\ h.fresh /\ link = "ok" /\ ~h.rx.err /\ h.rx.state = "enabled"
  /\ h.rx.mode = (IF h.homing THEN 6 ELSE 9)

LatchMotionFault(h) ==
  [h EXCEPT !.blocked = TRUE, !.clean = FALSE, !.brkEn = FALSE, !.stopReq = TRUE,
            !.unlocked = FALSE, !.rvReq = FALSE, !.rvStop = TRUE, !.holdReq = TRUE]

HandleTransportFault(h) ==
  [h EXCEPT !.stopReq = TRUE, !.phase = "disabled", !.unlocked = FALSE, !.fresh = FALSE,
            !.tf = TRUE, !.clean = IF h.blocked THEN @ ELSE FALSE]

-----------------------------------------------------------------------------
(* The drive: external.  It reacts to the last frame before the next sample, *)
(* or more slowly; MaxFaults bounds what it does of its own.                 *)

Reaction(state, cw) ==
  CASE state = "fault" -> "fault"
    [] cw = "shutdown" -> "ready"
    [] cw = "switch_on" -> IF state \in {"ready", "on", "enabled"} THEN "on" ELSE state
    [] cw = "enable" -> CASE state = "ready" -> "on"
                          [] state \in {"on", "quick", "enabled"} -> "enabled"
                          [] OTHER -> state
    [] cw = "quick" -> CASE state \in {"enabled", "quick"} -> "quick" [] OTHER -> "off"
    [] OTHER -> state

Moved(pos, d) == IF pos + d \in Positions THEN pos + d ELSE pos

Reactions(s) ==
  LET state == Reaction(s.state, tx.cw)
      homing == tx.hm /\ s.mode = 6
      moves == state = "enabled" /\ (tx.vel # "zero" \/ homing)
      d == IF tx.vel = "down" THEN -1 ELSE 1
  IN  IF s.state = "fault" /\ tx.cw = "reset"
      THEN {s, [s EXCEPT !.state = "off", !.err = FALSE]}
      ELSE IF moves
      THEN {[s EXCEPT !.state = state, !.speed = "moving", !.pos = Moved(@, d), !.homed = h] :
               h \in IF homing THEN {"no", "done", "error"} ELSE {s.homed}}
      ELSE {[s EXCEPT !.state = state, !.speed = v] : v \in {"still", s.speed}}

FaultEffect(s, f) ==
  CASE f = "error" -> [s EXCEPT !.state = "fault", !.err = TRUE]
    [] f = "fault_bit" -> [s EXCEPT !.state = "fault"]
    [] f = "jump" -> [s EXCEPT !.pos = Moved(@, -2)]
    [] f = "fast" -> IF s.speed = "moving" THEN [s EXCEPT !.speed = "fast"] ELSE s
    [] f = "mode" -> [s EXCEPT !.mode = 6]

-----------------------------------------------------------------------------
(* read() *)

UpdateTransportHealth(h, healthy, ok) ==
  IF ~ok THEN [h EXCEPT !.tf = TRUE, !.clean = IF h.blocked THEN @ ELSE FALSE]
  ELSE IF h.tf /\ healthy + 1 >= RecoveryCycles
       THEN [h EXCEPT !.tf = FALSE, !.clean = IF h.blocked \/ h.estop THEN @ ELSE ~h.viol]
       ELSE h

ObserveHoming(h) ==
  [h EXCEPT !.hFailed = @ \/ (h.homing /\ (h.rx.err \/ h.rx.homed = "error")),
            !.hDone = @ \/ (h.homing /\ h.rx.homed = "done")]

\* Inside the bounded search of the takeover the window replaces the range.
OutsideLimits(h) ==
  LET p == FeedbackPosition(h)
      low == IF h.rvStart < PositionMin THEN h.rvStart ELSE PositionMin
  IN  /\ ~(h.rvReq /\ p >= low /\ p <= h.rvStart + SearchTravel)
      /\ p < PositionMin \/ p > 0

ObserveLimits(h) ==
  LET out == OutsideLimits(h)
  IN  IF out /\ ~h.blocked
      THEN IF h.viol THEN [h EXCEPT !.clean = FALSE]
           ELSE [h EXCEPT !.viol = TRUE, !.clean = FALSE, !.brkEn = FALSE, !.stopReq = TRUE,
                          !.unlocked = FALSE, !.rvReq = FALSE, !.rvStop = TRUE, !.holdReq = FALSE]
      ELSE [h EXCEPT !.viol = out]

ObserveSpeed(h) == IF h.rx.speed = "fast" THEN LatchMotionFault(h) ELSE h

\* FeedbackContinuityGuard::observe: a jump needs a baseline of the same epoch.
Jumped(base, old, new) == base /\ Distance(old.pos, new.pos) > JumpLimit

ReadSample(s) ==
  LET ok == drv.link = "ok"
      h1 == UpdateTransportHealth([hw EXCEPT !.rx = s, !.fresh = ok], rt.healthy, ok)
      trusted == ok /\ ~h1.tf
      base == rt.base /\ ~hw.contReset
      h2 == [ObserveHoming(h1) EXCEPT !.contReset = FALSE]
      h3 == IF trusted /\ Jumped(base, hw.rx, s) THEN LatchMotionFault(h2) ELSE h2
      h4 == ObserveSpeed(ObserveLimits(h3))
  IN  IF drv.link = "lost"
      THEN /\ hw' = HandleTransportFault(hw)
           /\ rt' = [rt EXCEPT !.pc = "begin", !.healthy = 0, !.base = FALSE]
      ELSE /\ hw' = [h4 EXCEPT !.power = Powered(h4, drv.link)]
           /\ rt' = [rt EXCEPT !.pc = "begin", !.base = trusted,
                               !.healthy = IF ok /\ h1.tf THEN @ + 1 ELSE 0]

Read ==
  /\ life = "active" /\ rt.pc = "read"
  /\ \E s \in Reactions(drv.sample), f \in {"none"} \cup DriveFaults :
       LET s1 == IF f = "none" THEN s ELSE FaultEffect(s, f)
       IN  /\ f # "none" => hist.faults < MaxFaults
           /\ drv' = [drv EXCEPT !.sample = s1]
           /\ ReadSample(s1)
           /\ hist' = [hist EXCEPT !.armed = @ /\ (hw'.stopReq => hw.stopReq),
                                   !.faults = IF f = "none" THEN @ ELSE @ + 1]
  /\ UNCHANGED <<life, disk, tx, svc>>

-----------------------------------------------------------------------------
(* write() *)

ApplyPendingZeroOffset(h) ==
  IF h.zApply THEN [h EXCEPT !.zApply = FALSE, !.zoff = h.zAtomic, !.gen = @ + 1] ELSE h

TakeoverWatchdog_Missing(h) == h

TakeoverWatchdog(h) ==
  IF ~h.rvReq THEN h
  ELSE IF h.rvAge < TakeoverTimeout THEN [h EXCEPT !.rvAge = @ + 1]
  ELSE [h EXCEPT !.rvReq = FALSE, !.rvStop = TRUE, !.holdReq = TRUE, !.rvAge = 0]

AssertEstop(h) ==
  IF h.estop THEN [h EXCEPT !.brkEn = FALSE, !.stopReq = TRUE, !.rvReq = FALSE] ELSE h

\* A rising edge of the power command releases a latched disable.
RisingEdge(h, p) == p /\ ~rt.prevPower /\ ~h.estop /\ ~h.blocked

PowerEdge(h, p) ==
  IF RisingEdge(h, p) THEN [h EXCEPT !.disLatch = FALSE, !.stopReq = FALSE]
  ELSE IF ~p /\ rt.prevPower THEN [h EXCEPT !.stopReq = TRUE] ELSE h

\* The power command p is what the controller of this cycle wrote.
WriteBegin ==
  /\ life = "active" /\ rt.pc = "begin"
  /\ \E p \in PowerCommands :
       LET h1 == AssertEstop(TakeoverWatchdog(ApplyPendingZeroOffset(hw)))
       IN  /\ hw' = PowerEdge(h1, p)
           /\ rt' = [rt EXCEPT !.pc = "decide", !.prevPower = p, !.estop = hw.estop,
                               !.stopPending = hw.rvStop, !.base = @ \/ hw.zApply,
                               !.rebased = hw.zApply]
           /\ hist' = [hist EXCEPT !.armed = (@ \/ RisingEdge(h1, p)) /\ ~(~p /\ rt.prevPower)]
  /\ UNCHANGED <<life, drv, disk, tx, svc>>

EnableRequested_IgnoresEstop(h, r) == ~h.disLatch /\ (r.prevPower \/ h.brkEn)
EnableRequested(h, r) == ~r.estop /\ ~h.disLatch /\ (r.prevPower \/ h.brkEn)
StopRequested(h, r) == r.estop \/ h.stopReq
ExpectedMode(h) == IF h.homing THEN 6 ELSE 9

\* The reaction of write to drive errors, wrong modes and a bad bus.
CheckDrive(h, r, link) ==
  LET expose(x) == [x EXCEPT !.clean = IF h.blocked \/ r.estop THEN @ ELSE FALSE]
      enable == EnableRequested(h, r)
  IN  IF h.fresh /\ h.rx.err
      THEN IF enable \/ h.power THEN [LatchMotionFault(h) EXCEPT !.mism = 0]
           ELSE expose([h EXCEPT !.mism = 0])
      ELSE IF h.fresh /\ enable /\ h.rx.mode # ExpectedMode(h)
      THEN IF h.mism + 1 >= MismatchDebounce
           THEN LatchMotionFault([h EXCEPT !.mism = MismatchDebounce])
           ELSE expose([h EXCEPT !.mism = @ + 1])
      ELSE IF ~h.fresh \/ link # "ok" \/ h.tf
      THEN [h EXCEPT !.mism = 0, !.clean = IF h.blocked THEN @ ELSE FALSE]
      ELSE IF ~h.blocked /\ ~r.estop THEN [h EXCEPT !.mism = 0, !.clean = ~h.viol] ELSE h

StopPhase(h, r) ==
  IF StopRequested(h, r)
  THEN IF h.phase = "idle" THEN "quick" ELSE h.phase
  ELSE IF h.phase = "quick" \/ (h.phase = "disabled" /\ EnableRequested(h, r))
       THEN "idle" ELSE h.phase

\* Cia402Controller::step.  "off" stands for switch on disabled and not ready.
QuickWord(state) == IF state \in {"on", "enabled", "quick"} THEN "quick" ELSE "shutdown"
EnableWord(state) ==
  CASE state = "off" -> "shutdown"
    [] state = "ready" -> "switch_on"
    [] OTHER -> "enable"

Cia402Step(h, healthy, enable, quick, mayReset) ==
  LET fault == h.rx.state = "fault" \/ h.rx.err
      decide(cw, allow, att, back) == [cw |-> cw, allow |-> allow, att |-> att, back |-> back]
  IN  IF fault
      THEN IF h.back > 0 THEN decide("shutdown", FALSE, h.att, h.back - 1)
           ELSE IF mayReset /\ h.att < MaxAttempts
                THEN decide("reset", FALSE, h.att + 1, Backoff)
                ELSE decide("shutdown", FALSE, h.att, 0)
      ELSE IF ~healthy \/ h.rx.mode # ExpectedMode(h) THEN decide("shutdown", FALSE, 0, 0)
      ELSE IF quick THEN decide(QuickWord(h.rx.state), FALSE, 0, 0)
      ELSE IF ~enable THEN decide("shutdown", FALSE, 0, 0)
      ELSE decide(EnableWord(h.rx.state), h.rx.state = "enabled", 0, 0)

\* compute_motion_command: the directions the position loop may ask for.
MotionVelocities(h, cmd) ==
  LET p == FeedbackPosition(h)
      inward == IF p < PositionMin THEN {"up"} ELSE IF p > 0 THEN {"down"} ELSE {"up", "down"}
      outside == p < PositionMin \/ p > 0
  IN  IF h.rvReq THEN {"takeover"}
      ELSE IF h.holdReq THEN {"zero"} \cup (IF outside THEN {} ELSE {"up", "down"})
      ELSE {"zero"} \cup ({cmd} \cap inward)

\* c is the motion command of the controller in this cycle.
WriteDecide(c) ==
  /\ life = "active" /\ rt.pc = "decide"
  /\ LET h1 == CheckDrive(hw, rt, drv.link)
         phase1 == StopPhase(hw, rt)
         quick == phase1 = "quick"
         healthy == h1.fresh /\ drv.link = "ok" /\ ~h1.tf
         d == Cia402Step(h1, healthy, EnableRequested(hw, rt) /\ ~quick, quick, ~rt.estop)
         stopped == quick /\ (Stationary(h1) \/ rt.stopAge >= StopDeadline \/ d.cw = "shutdown")
         phase == IF stopped THEN "disabled" ELSE phase1
         cw == IF stopped THEN "shutdown" ELSE d.cw
         rel == IF d.allow /\ ~rt.prevOp THEN 0 ELSE IF rt.rel < ReleaseWait THEN rt.rel + 1 ELSE rt.rel
         unlocked == d.allow /\ rel >= ReleaseWait /\ phase = "idle" /\ ~h1.blocked
         cmd == IF rt.guard \/ rt.estop \/ rt.rebased THEN "rest" ELSE c
         compute == unlocked /\ ~h1.homing /\ h1.fresh
         h2 == IF compute /\ cmd = "nan" THEN LatchMotionFault(h1) ELSE h1
         mayMove == compute /\ ~h2.blocked /\ ~rt.estop /\ ~rt.guard /\ ~rt.stopPending
     IN  \E v \in IF mayMove THEN MotionVelocities(h2, cmd) ELSE {"zero"} :
           /\ hw' = [h2 EXCEPT !.phase = phase, !.att = d.att, !.back = d.back,
                               !.unlocked = unlocked /\ ~h2.blocked, !.cmdRest = cmd = "rest",
                               !.zObs = @ \/ (h2.zPend /\ ~d.allow /\ cw = "shutdown")]
           /\ rt' = [rt EXCEPT !.pc = "send", !.prevOp = d.allow, !.rel = rel, !.guard = FALSE,
                               !.stopAge = IF quick /\ ~stopped THEN @ + 1 ELSE 0,
                               !.frame = [cw |-> cw, vel |-> v, hm |-> h1.homing /\ d.allow]]
           /\ hist' = [hist EXCEPT !.obs = @ \/ (h2.zPend /\ ~d.allow /\ cw = "shutdown"),
                                   !.armed = @ /\ (h2.blocked => hw.blocked)]
  /\ UNCHANGED <<life, drv, disk, tx, svc>>

WriteSend ==
  /\ life = "active" /\ rt.pc = "send"
  /\ IF drv.link = "lost"
     THEN /\ hw' = HandleTransportFault(hw)
          /\ rt' = [rt EXCEPT !.pc = "read", !.healthy = 0, !.base = FALSE]
          /\ UNCHANGED tx
     ELSE /\ tx' = rt.frame
          /\ hw' = [hw EXCEPT !.rvStop = @ /\ ~rt.stopPending, !.power = Powered(hw, drv.link)]
          /\ rt' = [rt EXCEPT !.pc = "read"]
  /\ UNCHANGED <<life, drv, disk, svc, hist>>

-----------------------------------------------------------------------------
(* The service thread *)

Serving == life \in {"active", "stopping"}
At(op, pc) == svc.op = op /\ svc.pc = pc
Go(pc) == svc' = [svc EXCEPT !.pc = pc]
Return(ok) == svc' = [Idle EXCEPT !.ok = ok]

\* The refusals of the handlers.  A refused call changes nothing, but one.
AcceptsUnlock == ~hw.estop /\ ~hw.blocked
AcceptsTakeover ==
  LET p == FeedbackPosition(hw)
  IN  /\ ~hw.estop /\ hw.fresh /\ ~hw.blocked
      /\ p <= SearchTravel /\ p >= PositionMin - SearchTravel
AcceptsHold == ~hw.estop /\ hw.fresh
AcceptsZero == ~hw.estop /\ hw.fresh /\ Stationary(hw)
AcceptsDriveZero == AcceptsZero /\ ~hw.homing /\ ~hw.dzPend
AcceptsHome == AcceptsDriveZero /\ ~hw.blocked
AcceptsReset ==
  /\ hw.estop \/ hw.blocked
  /\ life = "active" /\ hw.fresh /\ ~hw.tf /\ ~hw.rx.err
  /\ hw.rx.mode = 9 /\ Stationary(hw) /\ hw.cmdRest

Accepts(op) ==
  CASE op = "unlock" -> AcceptsUnlock
    [] op = "takeover" -> AcceptsTakeover
    [] op = "hold" -> AcceptsHold
    [] op = "zero" -> AcceptsZero
    [] op = "home" -> AcceptsHome
    [] op = "drive_zero" -> AcceptsDriveZero
    [] op = "reset" -> AcceptsReset
    [] OTHER -> TRUE

\* The refusal of handle_set_drive_zero that leaves drive_zero_pending_ set.
\* One handler at a time does not meet it: each ends with both flags cleared.
KeepsDriveZero(op) == op = "drive_zero" /\ ~hw.estop /\ (hw.homing \/ hw.dzPend)

Call(op) ==
  /\ Serving /\ svc.op = "none" /\ hist.calls < MaxCalls
  /\ ~Accepts(op) => KeepsDriveZero(op)
  /\ svc' = IF Accepts(op) THEN [Idle EXCEPT !.op = op, !.pc = "s1"] ELSE Idle
  /\ hw' = [hw EXCEPT !.dzPend = @ \/ op = "drive_zero"]
  /\ hist' = [hist EXCEPT !.calls = @ + 1]
  /\ UNCHANGED <<life, drv, disk, rt, tx>>

\* A store of a handler: the step from pc to the next, done at the last one.
Store(op, pc, next, h) ==
  /\ At(op, pc)
  /\ hw' = h
  /\ IF next = "done" THEN Return(FALSE) ELSE Go(next)
  /\ UNCHANGED <<life, drv, disk, rt, tx>>

Quiet == UNCHANGED hist
Arm(b) == hist' = [hist EXCEPT !.armed = b]

HandleBrakeCommand ==
  \/ Store("unlock", "s1", "s2", [hw EXCEPT !.brkEn = TRUE]) /\ Arm(TRUE)
  \/ Store("unlock", "s2", "s3", [hw EXCEPT !.disLatch = FALSE]) /\ Quiet
  \/ Store("unlock", "s3", "done", [hw EXCEPT !.stopReq = FALSE]) /\ Arm(TRUE)
  \/ Store("lock", "s1", "s2", [hw EXCEPT !.brkEn = FALSE]) /\ Quiet
  \/ Store("lock", "s2", "s3", [hw EXCEPT !.disLatch = TRUE]) /\ Quiet
  \/ /\ Store("lock", "s3", "done", [hw EXCEPT !.rvReq = FALSE, !.rvStop = FALSE,
                                                !.stopReq = TRUE, !.unlocked = FALSE])
     /\ Arm(FALSE)

HandleResetVelocity ==
  \/ /\ Store("takeover", "s1", "s2", [hw EXCEPT !.brkEn = TRUE])
     /\ Arm(hist.armed \/ ~hw.stopReq)   \* a takeover does not lift a stop
  \/ /\ Store("takeover", "s2", "done",
              [hw EXCEPT !.rvReq = TRUE, !.rvStop = FALSE, !.holdReq = FALSE, !.rvAge = 0,
                         !.rvStart = IF hw.rvReq THEN @ ELSE FeedbackPosition(hw)])
     /\ Quiet
  \/ Store("takeover_off", "s1", "s2", [hw EXCEPT !.rvReq = FALSE]) /\ Quiet
  \/ Store("takeover_off", "s2", "done", [hw EXCEPT !.rvStop = TRUE, !.holdReq = TRUE]) /\ Quiet

HandleResetHold ==
  \/ Store("hold", "s1", "done", [hw EXCEPT !.holdReq = TRUE]) /\ Quiet
  \/ Store("unhold", "s1", "done", [hw EXCEPT !.holdReq = FALSE]) /\ Quiet

HandleResetZero ==
  \/ /\ Store("zero", "s1", "s2", [hw EXCEPT !.rvReq = FALSE, !.rvStop = TRUE, !.holdReq = FALSE,
                                             !.brkEn = FALSE, !.stopReq = TRUE, !.unlocked = FALSE])
     /\ Arm(FALSE)
  \/ /\ Store("zero", "s2", "done", [hw EXCEPT !.zPend = TRUE])
     /\ hist' = [hist EXCEPT !.obs = @ /\ hw.zPend]

HandleEstop ==
  \/ Store("estop", "s1", "s2", [hw EXCEPT !.estop = TRUE]) /\ Quiet
  \/ /\ Store("estop", "s2", "done",
              [hw EXCEPT !.clean = FALSE, !.brkEn = FALSE, !.stopReq = TRUE, !.unlocked = FALSE,
                         !.rvReq = FALSE, !.rvStop = TRUE, !.holdReq = FALSE, !.zPend = FALSE])
     /\ Arm(FALSE)

HandleSafetyReset_Resumes ==
  \/ /\ Store("reset", "s1", "s2", [hw EXCEPT !.holdReq = TRUE, !.rvReq = FALSE, !.rvStop = FALSE,
                                              !.brkEn = FALSE, !.stopReq = TRUE])
     /\ Arm(FALSE)
  \/ /\ Store("reset", "s2", "s3", [hw EXCEPT !.blocked = FALSE, !.viol = FALSE, !.mism = 0,
                                              !.att = 0, !.back = 0])
     /\ Quiet
  \/ /\ Store("reset", "s3", "done", [hw EXCEPT !.estop = FALSE, !.clean = TRUE,
                                                !.contReset = TRUE, !.stopReq = FALSE])
     /\ Quiet

HandleSafetyReset ==
  \/ /\ Store("reset", "s1", "s2", [hw EXCEPT !.holdReq = TRUE, !.rvReq = FALSE, !.rvStop = FALSE,
                                              !.brkEn = FALSE, !.stopReq = TRUE])
     /\ Arm(FALSE)
  \/ /\ Store("reset", "s2", "s3", [hw EXCEPT !.blocked = FALSE, !.viol = FALSE, !.mism = 0,
                                              !.att = 0, !.back = 0])
     /\ Quiet
  \/ /\ Store("reset", "s3", "done", [hw EXCEPT !.estop = FALSE, !.clean = TRUE,
                                                !.contReset = TRUE])
     /\ Quiet

-----------------------------------------------------------------------------
(* Zero offset: complete_pending_zero, from the status timer or from homing *)

CompleteReady ==
  life = "active" /\ hw.zPend /\ hw.zObs /\ ~hw.unlocked /\ hw.fresh /\ Stationary(hw)

StatusTimer ==
  /\ Serving /\ svc.op = "none" /\ CompleteReady
  /\ svc' = [Idle EXCEPT !.op = "timer", !.pc = "c1", !.units = hw.rx.pos]
  /\ UNCHANGED <<life, drv, disk, hw, rt, tx, hist>>

\* Where complete_pending_zero returns to.
AfterZero == IF svc.op = "timer" THEN Return(FALSE) ELSE Go("h11")

\* ZeroOffsetStore::save_atomic: the rename replaces the record or leaves it.
SaveAtomic ==
  /\ svc.pc = "c1"
  /\ \/ disk' = {svc.units} /\ Go("c2") /\ UNCHANGED hw
     \/ /\ MaySaveFail /\ UNCHANGED disk /\ Go("f2")
        /\ hw' = [hw EXCEPT !.clean = FALSE]
  /\ UNCHANGED <<life, drv, rt, tx, hist>>

ZeroSaved_NotApplied ==
  /\ svc.pc = "c2" /\ AfterZero
  /\ hw' = [hw EXCEPT !.zAtomic = svc.units, !.zPend = FALSE, !.zObs = FALSE, !.clean = TRUE]
  /\ UNCHANGED <<life, drv, disk, rt, tx, hist>>

ZeroSaved ==
  \/ /\ svc.pc = "c2" /\ Go("c3")
     /\ hw' = [hw EXCEPT !.zAtomic = svc.units, !.zApply = TRUE]
     /\ UNCHANGED <<life, drv, disk, rt, tx, hist>>
  \/ /\ svc.pc = "c3" /\ AfterZero
     /\ hw' = [hw EXCEPT !.zPend = FALSE, !.zObs = FALSE, !.clean = TRUE]
     /\ UNCHANGED <<life, drv, disk, rt, tx, hist>>

ZeroNotSaved ==
  /\ svc.pc = "f2" /\ AfterZero
  /\ hw' = [hw EXCEPT !.blocked = TRUE, !.zPend = FALSE, !.zObs = FALSE]
  /\ UNCHANGED <<life, drv, disk, rt, tx, hist>>

-----------------------------------------------------------------------------
(* Homing and encoder maintenance *)

Stopped == ~hw.power /\ hw.fresh /\ Stationary(hw) /\ hw.phase = "disabled"

\* The waits end with the awaited state, or with their deadline at any time.
WaitForDriveStop(op, pc, next) ==
  /\ At(op, pc)
  /\ \/ life = "active" /\ Stopped /\ Go(next) /\ UNCHANGED hw
     \/ Return(FALSE) /\ hw' = [hw EXCEPT !.homing = FALSE, !.dzPend = FALSE]
  /\ UNCHANGED <<life, drv, disk, rt, tx, hist>>

\* The SDO sequence that ends with 6060h = 6.
WriteHomingSdos ==
  /\ At("home", "h3")
  /\ \/ /\ drv.link # "lost" /\ Go("h4")
        /\ drv' = [drv EXCEPT !.sample.mode = 6, !.sample.homed = "no"]
     \/ Return(FALSE) /\ UNCHANGED drv
  /\ UNCHANGED <<life, disk, hw, rt, tx, hist>>

WaitForHomingResult ==
  /\ At("home", "h6")
  /\ \/ life = "active" /\ hw.hDone /\ ~hw.hFailed /\ svc' = [svc EXCEPT !.pc = "h7", !.ok = TRUE]
     \/ svc' = [svc EXCEPT !.pc = "h7", !.ok = FALSE]
  /\ UNCHANGED <<life, drv, disk, hw, rt, tx, hist>>

RestoreCsv_Unchecked ==
  /\ At("home", "h9")
  /\ \E written \in {TRUE, FALSE} :
       /\ written => drv.link # "lost"
       /\ drv' = IF written THEN [drv EXCEPT !.sample.mode = 9, !.sample.homed = "no"] ELSE drv
       /\ hw' = [hw EXCEPT !.homing = FALSE, !.hFailed = ~svc.ok]
       /\ IF svc.ok THEN Go("h10a") ELSE Return(FALSE)
  /\ UNCHANGED <<life, disk, rt, tx, hist>>

RestoreCsv ==
  /\ At("home", "h9")
  /\ \E written \in {TRUE, FALSE} :
       /\ written => drv.link # "lost"
       /\ drv' = IF written THEN [drv EXCEPT !.sample.mode = 9, !.sample.homed = "no"] ELSE drv
       /\ hw' = [hw EXCEPT !.homing = FALSE, !.hFailed = ~(svc.ok /\ written)]
       /\ IF svc.ok /\ written THEN Go("h10a") ELSE Return(FALSE)
  /\ UNCHANGED <<life, disk, rt, tx, hist>>

WaitForHostZero ==
  /\ svc.op = "home" /\ UNCHANGED <<life, drv, disk, hw, rt, tx, hist>>
  /\ \/ /\ svc.pc = "h10" /\ CompleteReady
        /\ svc' = [svc EXCEPT !.pc = "c1", !.units = hw.rx.pos]
     \/ svc.pc = "h10" /\ Return(FALSE)
     \/ svc.pc = "h11" /\ Return(hw.clean)

StopForMaintenance(op, pc, next) ==
  Store(op, pc, next, [hw EXCEPT !.brkEn = FALSE, !.stopReq = TRUE, !.rvReq = FALSE,
                                 !.holdReq = FALSE]) /\ Arm(FALSE)

HandleHome ==
  \/ StopForMaintenance("home", "s1", "h2")
  \/ WaitForDriveStop("home", "h2", "h3")
  \/ WriteHomingSdos
  \/ Store("home", "h4", "h5", [hw EXCEPT !.hDone = FALSE, !.hFailed = FALSE, !.homing = TRUE])
       /\ Quiet
  \/ Store("home", "h5", "h6", [hw EXCEPT !.disLatch = FALSE, !.stopReq = FALSE, !.brkEn = TRUE])
       /\ Arm(TRUE)
  \/ WaitForHomingResult
  \/ Store("home", "h7", "h8", [hw EXCEPT !.brkEn = FALSE, !.stopReq = TRUE]) /\ Arm(FALSE)
  \/ WaitForDriveStop("home", "h8", "h9")
  \/ RestoreCsv
  \/ /\ Store("home", "h10a", "h10", [hw EXCEPT !.zPend = TRUE, !.zObs = FALSE])
     /\ hist' = [hist EXCEPT !.obs = FALSE]
  \/ WaitForHostZero

HandleSetDriveZero ==
  \/ StopForMaintenance("drive_zero", "s1", "d2")
  \/ WaitForDriveStop("drive_zero", "d2", "d3")
  \/ Store("drive_zero", "d3", "done", [hw EXCEPT !.dzPend = FALSE, !.gen = @ + 1]) /\ Quiet
  \/ Store("drive_zero", "d3", "done", [hw EXCEPT !.dzPend = FALSE]) /\ Quiet

-----------------------------------------------------------------------------
(* Lifecycle *)

\* on_configure after configure_backend (which leaves the drive in mode 9)
\* and load_zero_offset (no record: zero).
Configure ==
  /\ life \in {"unconfigured", "inactive"} /\ svc.op = "none" /\ drv.link = "ok"
  /\ life = "inactive" => "deactivate" \in Cycling
  /\ LET offset == Recorded(disk)
     IN  hw' = [NewShared EXCEPT !.estop = hw.estop, !.unlocked = hw.unlocked, !.fresh = hw.fresh,
                                 !.att = hw.att, !.back = hw.back, !.gen = hw.gen,
                                 !.zAtomic = offset, !.zoff = offset]
  /\ drv' = [drv EXCEPT !.sample.mode = 9, !.sample.homed = "no"]
  /\ rt' = NewLoop
  /\ life' = "inactive"
  /\ UNCHANGED <<disk, tx, svc, hist>>

\* on_activate with bootstrap_first_feedback: shutdown frames until the
\* samples are fresh, in mode 9 and at rest; a bounded reset clears an error.
Activate ==
  /\ life = "inactive" /\ svc.op = "none"
  /\ drv.link = "ok" /\ drv.sample.mode = 9
  /\ \E s \in {[drv.sample EXCEPT !.state = "ready", !.err = FALSE]} \cup
              {x \in {drv.sample} : x.state = "fault"} :
         /\ drv' = [drv EXCEPT !.sample = s]
         /\ hw' = [hw EXCEPT !.disLatch = FALSE, !.stopReq = FALSE, !.unlocked = FALSE,
                             !.phase = "disabled", !.power = FALSE, !.fresh = TRUE, !.tf = FALSE,
                             !.clean = TRUE, !.zObs = FALSE, !.zApply = FALSE, !.att = 0,
                             !.back = 0, !.mism = 0, !.viol = FALSE, !.rvReq = FALSE,
                             !.rvStop = FALSE, !.holdReq = FALSE, !.homing = FALSE,
                             !.hDone = FALSE, !.hFailed = FALSE, !.dzPend = FALSE,
                             !.contReset = FALSE, !.rx = s]
  /\ rt' = [NewLoop EXCEPT !.guard = TRUE]
  /\ tx' = SafeFrame
  /\ life' = "active"
  /\ hist' = [hist EXCEPT !.armed = FALSE]
  /\ UNCHANGED <<disk, svc>>

\* on_deactivate: the stores and the last frames, then the join of the thread.
Deactivate ==
  /\ "deactivate" \in Cycling /\ hist.cycles < MaxCycling
  /\ life = "active" /\ rt.pc = "read"
  /\ life' = "stopping"
  /\ hw' = [hw EXCEPT !.brkEn = FALSE, !.disLatch = TRUE, !.power = FALSE, !.stopReq = TRUE,
                      !.rvReq = FALSE, !.rvStop = FALSE, !.holdReq = FALSE, !.homing = FALSE,
                      !.hDone = FALSE, !.hFailed = FALSE, !.dzPend = FALSE,
                      !.phase = "disabled", !.mism = 0, !.viol = FALSE, !.unlocked = FALSE]
  /\ tx' = SafeFrame
  /\ drv' = [drv EXCEPT !.sample.state = IF @ = "fault" THEN @ ELSE "ready",
                       !.sample.speed = "still"]
  /\ hist' = [hist EXCEPT !.cycles = @ + 1]
  /\ UNCHANGED <<disk, rt, svc>>

StopServiceThread ==
  /\ life = "stopping" /\ svc.op = "none"
  /\ life' = "inactive"
  /\ UNCHANGED <<drv, disk, hw, rt, tx, svc, hist>>

\* The process ends and starts again; only drive and file remain.  The drive
\* stops with a watchdog error when the frames cease.
Crash ==
  /\ "crash" \in Cycling /\ hist.cycles < MaxCycling
  /\ life # "unconfigured"
  /\ life' = "unconfigured"
  /\ hw' = NewShared /\ rt' = NewLoop /\ svc' = Idle /\ tx' = SafeFrame
  /\ hist' = [hist EXCEPT !.cycles = @ + 1, !.armed = FALSE, !.obs = FALSE]
  /\ drv' = [drv EXCEPT !.sample.state = "fault", !.sample.err = TRUE, !.sample.speed = "still"]
  /\ UNCHANGED disk

-----------------------------------------------------------------------------
Cycle == Read \/ WriteBegin \/ (\E c \in MotionCommands : WriteDecide(c)) \/ WriteSend

\* The bus fails before a reception or a transmission.
LinkFault ==
  /\ rt.pc \in {"read", "send"} /\ drv.link = "ok" /\ hist.faults < MaxFaults
  /\ \E f \in LinkFaults : drv' = [drv EXCEPT !.link = f]
  /\ hist' = [hist EXCEPT !.faults = @ + 1]
  /\ UNCHANGED <<life, disk, hw, rt, tx, svc>>

LinkRecovers ==
  /\ rt.pc = "read" /\ drv.link # "ok"
  /\ drv' = [drv EXCEPT !.link = "ok"]
  /\ UNCHANGED <<life, disk, hw, rt, tx, svc, hist>>

Service ==
  \/ HandleBrakeCommand \/ HandleResetVelocity \/ HandleResetHold \/ HandleResetZero
  \/ HandleEstop \/ HandleSafetyReset \/ HandleHome \/ HandleSetDriveZero
  \/ SaveAtomic \/ ZeroSaved \/ ZeroNotSaved

Next ==
  \/ Cycle \/ Service
  \/ \E op \in Services : Call(op)
  \/ StatusTimer
  \/ Configure \/ Activate \/ Deactivate \/ StopServiceThread \/ Crash
  \/ LinkFault \/ LinkRecovers

Spec == Init /\ [][Next]_vars

\* The control loop runs at 100 Hz, the executor serves its callbacks, the
\* drive reacts to frames and comes to rest without a velocity.
Fairness ==
  /\ WF_vars(Cycle) /\ WF_vars(Service) /\ WF_vars(StatusTimer)
  /\ WF_vars(Configure) /\ WF_vars(Activate) /\ WF_vars(StopServiceThread)

FairSpec == Spec /\ Fairness

-----------------------------------------------------------------------------
(* Properties *)

TypeOK ==
  /\ life \in Lives /\ drv \in Drive /\ disk \in SUBSET Positions
  /\ hw \in Shared /\ rt \in Loop /\ tx \in Frames
  /\ hist.calls \in 0 .. MaxCalls /\ hist.faults \in 0 .. MaxFaults

\* From the first cycle that starts after the emergency stop was latched, every
\* frame has velocity zero and asks neither for power nor for a fault reset.
EstopIsObeyed ==
  rt.pc = "send" /\ rt.estop => rt.frame.vel = "zero" /\ rt.frame.cw \in {"shutdown", "quick"}

\* A cycle decides on a velocity only after an explicit enable (brake service,
\* homing, rising edge of the power command) that is newer than the last stop,
\* fault, range violation, emergency stop or activation.
MotionNeedsRequest ==
  [][rt.pc = "decide" /\ rt'.pc = "send" /\ rt'.frame.vel # "zero" => hist.armed]_vars

\* README.md:447 ("leaves the axis disabled"), :407 (after a range violation a
\* "controlled disable", then "an explicit motion request"): the drive is asked
\* for power only after an explicit enable newer than the last stop.
PowerNeedsRequest ==
  [][rt.pc = "decide" /\ rt'.pc = "send" /\ rt'.frame.cw \in {"switch_on", "enable"}
       => hist.armed]_vars

\* Under an emergency stop the drive ends without power and stays without it,
\* even while the controller keeps asking for power, as long as the bus carries
\* frames.
EstopDisables ==
  <>[](hw.estop /\ drv.link # "lost") => <>[](drv.sample.state # "enabled")

\* A takeover that is not renewed ends: the watchdog of write takes its
\* velocity from the frames, unless the bus carries none.
TakeoverEnds == (tx.vel = "takeover") ~> (tx.vel # "takeover" \/ drv.link = "lost")

\* The frame of the loop is the recorded one, except while a handler or the
\* next cycle still has to apply it; also after a crash and a restart.
FrameMatchesFile ==
  life \in {"inactive", "active", "stopping"} /\ hw.zoff # Recorded(disk)
    => hw.zApply \/ svc.pc = "c2"

\* lift_hardware.cpp:2044: the offset is saved only after a cycle of this
\* request has observed the controlled disable.
ZeroNeedsDisable == [][disk' # disk => hist.obs]_vars

\* The reply "homed, CSV restored and zero saved" is given only with the drive
\* in mode 9.
HomedMeansCsv == svc.op = "none" /\ svc.ok => drv.sample.mode = 9
=============================================================================
