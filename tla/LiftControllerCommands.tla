----------------------- MODULE LiftControllerCommands -----------------------
(***************************************************************************)
(* Proofs about the commands of the lift controller: which of them update  *)
(* acts on, what a STOP or HOLD ends, and what an answer or an             *)
(* acknowledgement promises; for every set of command sources, every       *)
(* timeout and every bound.                                                *)
(*                                                                         *)
(* The lemmas follow the record of the controller through one cycle: the   *)
(* selection of a command (Act), then the helpers that run the motion,     *)
(* each of which is shown to be a "Runs" step.                             *)
(***************************************************************************)
EXTENDS LiftController, TLAPS

Stops == {"soft_stop", "hold"}

\* The fields that only callbacks, the first half of a cycle and the lifecycle
\* transitions write.
SameInputs(s, t) ==
  /\ t.gen = s.gen /\ t.cancel = s.cancel /\ t.cmdGen = s.cmdGen /\ t.safetyGen = s.safetyGen
  /\ t.heavyGen = s.heavyGen /\ t.lease = s.lease /\ t.leaseGen = s.leaseGen
  /\ t.cmdBuf = s.cmdBuf /\ t.safetyBuf = s.safetyBuf /\ t.heavyBuf = s.heavyBuf

\* What the selection of a command decides.
SameChoice(s, t) ==
  /\ t.cur = s.cur /\ t.consumed = s.consumed /\ t.consumedSafety = s.consumedSafety
  /\ t.appliedCancel = s.appliedCancel /\ t.pendTraj = s.pendTraj

\* How the motion part of a cycle may change the mode: it starts nothing, it
\* stops only what was started, and it leaves neither a fault nor the e-stop.
ModeStep(m, n) ==
  /\ n \in Started => m \in Started
  /\ n = "soft_stop" => m \in Started \cup {"soft_stop"}
  /\ m = "fault" => n = "fault"
  /\ n = "estop" => m = "estop"

Runs(s, t) ==
  /\ t \in ControllerState /\ SameInputs(s, t) /\ SameChoice(s, t) /\ ModeStep(s.mode, t.mode)
  /\ t.completed = s.completed /\ t.followAck = s.followAck
  /\ t.pendingHold \in {s.pendingHold, 0}

LEMMA Zeros == 0 \in Nat /\ 0 \in 0 .. JogTimeout + 1
BY LiftAssumption DEF LiftAssumption

LEMMA RunsTrans ==
  ASSUME NEW s, NEW t, NEW u, Runs(s, t), Runs(t, u) PROVE Runs(s, u)
BY DEF Runs, SameInputs, SameChoice, ModeStep

LEMMA RunsRefl ==
  ASSUME NEW s \in ControllerState PROVE Runs(s, s)
BY Zenon DEF Runs, SameInputs, SameChoice, ModeStep

\* The fields of a controller state that carry a number or a command.
LEMMA Fields ==
  ASSUME NEW s \in ControllerState
  PROVE  /\ s.gen \in Nat /\ s.cancel \in Nat /\ s.cmdGen \in Nat /\ s.safetyGen \in Nat
         /\ s.heavyGen \in Nat /\ s.leaseGen \in Nat /\ s.consumed \in Nat
         /\ s.consumedSafety \in Nat /\ s.consumedHeavy \in Nat /\ s.appliedCancel \in Nat
         /\ s.pendTraj \in Nat /\ s.completed \in Nat /\ s.failed \in Nat
         /\ s.pendingHold \in Nat /\ s.followAck \in Nat /\ s.traj \in Nat
         /\ s.cmdBuf \in Commands /\ s.safetyBuf \in Commands /\ s.heavyBuf \in Commands
         /\ s.cur \in Commands /\ s.gated \in Commands /\ s.mode \in Modes
BY ZenonT(60) DEF ControllerState

LEMMA CommandFields ==
  ASSUME NEW c \in Commands PROVE c.type \in Types /\ c.gen \in Nat /\ c.seq \in Nat
BY DEF Commands

LEMMA NoCommandType == NoCommand \in Commands /\ NoCommand.gen = 0 /\ NoCommand.type = "none"
BY DEF NoCommand, Commands, Types

-----------------------------------------------------------------------------
(* The motion part of a cycle: one lemma per helper.                        *)

LEMMA FailPendingHoldRuns ==
  ASSUME NEW s \in ControllerState
  PROVE  Runs(s, FailPendingHold(s)) /\ FailPendingHold(s).mode = s.mode
<1> DEFINE t == [s EXCEPT !.failed = s.pendingHold, !.pendingHold = 0]
<1>1. t \in ControllerState
  BY Fields, ZenonT(60) DEF ControllerState
<1>2. Runs(s, t) /\ t.mode = s.mode
  BY <1>1 DEF ControllerState, Runs, SameInputs, SameChoice, ModeStep
<1>3. FailPendingHold(s) \in {s, t}
  BY Zenon DEF FailPendingHold
<1> QED
  BY <1>2, <1>3, RunsRefl

LEMMA EnterFaultRuns ==
  ASSUME NEW s \in ControllerState
  PROVE  Runs(s, EnterFault(s)) /\ EnterFault(s).mode = "fault"
<1> DEFINE a == FailPendingHold(s)
           t == [a EXCEPT !.mode = "fault", !.rest = TRUE, !.power = FALSE]
<1>1. Runs(s, a)
  BY FailPendingHoldRuns
<1> HIDE DEF a
<1>2. a \in ControllerState
  BY <1>1 DEF Runs
<1>3. t \in ControllerState
  BY <1>2, ZenonT(60) DEF ControllerState, Modes
<1>4. /\ SameInputs(a, t) /\ SameChoice(a, t) /\ t.completed = a.completed
      /\ t.followAck = a.followAck /\ t.pendingHold = a.pendingHold /\ t.mode = "fault"
  BY <1>2, ZenonT(60) DEF ControllerState, SameInputs, SameChoice
<1>5. ModeStep(a.mode, t.mode)
  BY <1>4 DEF ModeStep, Started, Moving
<1> HIDE DEF t
<1>6. Runs(a, t)
  BY <1>3, <1>4, <1>5 DEF Runs
<1>7. EnterFault(s) = t
  BY DEF EnterFault, a, t
<1> QED
  BY <1>1, <1>4, <1>6, <1>7, RunsTrans

\* Entering hold is a step of the motion part from any mode but fault.
LEMMA EnterHoldRuns ==
  ASSUME NEW s \in ControllerState, s.mode # "fault"
  PROVE  Runs(s, EnterHold(s)) /\ EnterHold(s).mode = "hold"
<1>1. EnterHold(s) \in ControllerState
  BY ZenonT(60) DEF EnterHold, ControllerState, Modes
<1> QED
  BY <1>1 DEF EnterHold, ControllerState, Runs, SameInputs, SameChoice, ModeStep, Started, Moving

\* A soft stop that ends a motion confirms no HOLD.
LEMMA BeginSoftStopRuns ==
  ASSUME NEW s \in ControllerState, s.mode \in Started
  PROVE  LET t == BeginSoftStop(s, "disable", 0) IN Runs(s, t) /\ t.mode = "soft_stop"
<1> DEFINE t == BeginSoftStop(s, "disable", 0)
<1>1. t \in ControllerState
  BY Zeros, ZenonT(60) DEF BeginSoftStop, ControllerState, Modes
<1>2. t.mode = "soft_stop" /\ s.mode # "fault"
  BY DEF BeginSoftStop, ControllerState, Started, Moving
<1>3. SameInputs(s, t) /\ SameChoice(s, t) /\ t.completed = s.completed
      /\ t.followAck = s.followAck /\ t.pendingHold = 0
  BY ZenonT(60) DEF BeginSoftStop, ControllerState, SameInputs, SameChoice
<1> QED
  BY <1>1, <1>2, <1>3 DEF Runs, ModeStep, Started, Moving

LEMMA ProfileCycleRuns ==
  ASSUME NEW s \in ControllerState, NEW o PROVE Runs(s, ProfileCycle(s, o))
<1> DEFINE a == [EnterHold(s) EXCEPT !.power = IF s.completion = "disable" THEN FALSE ELSE @]
           b == [s EXCEPT !.rest = FALSE]
<1>1. ASSUME s.mode = "soft_stop" PROVE Runs(s, a)
  <2> DEFINE e == EnterHold(s)
  <2>1. Runs(s, e)
    BY <1>1, EnterHoldRuns
  <2>2. e \in ControllerState
    BY <2>1 DEF Runs
  <2> HIDE DEF e
  <2> DEFINE p == IF s.completion = "disable" THEN FALSE ELSE e.power
             f == [e EXCEPT !.power = p]
  <2>3. p \in BOOLEAN
    BY <2>2, ZenonT(60) DEF ControllerState
  <2> HIDE DEF p
  <2>4. f \in ControllerState
    BY <2>2, <2>3, ZenonT(60) DEF ControllerState
  <2>5. Runs(e, f)
    BY <2>2, <2>4 DEF ControllerState, Runs, SameInputs, SameChoice, ModeStep
  <2>6. a = f
    BY DEF e, p
  <2> QED
    BY <2>1, <2>5, <2>6, RunsTrans
<1>2. Runs(s, b)
  <2>1. b \in ControllerState
    BY ZenonT(60) DEF ControllerState
  <2> QED
    BY <2>1 DEF ControllerState, Runs, SameInputs, SameChoice, ModeStep
<1>3. \/ ProfileCycle(s, o) \in {EnterFault(s), b}
      \/ ProfileCycle(s, o) = a /\ s.mode = "soft_stop"
  BY Zenon DEF ProfileCycle
<1> QED
  BY <1>1, <1>2, <1>3, EnterFaultRuns

\* A timed-out jog goes through a soft stop, whose first cycle runs at once.
LEMMA StoppedCycleRuns ==
  ASSUME NEW s \in ControllerState, NEW o, s.mode \in Started
  PROVE  Runs(s, ProfileCycle(BeginSoftStop(s, "disable", 0), o))
<1> DEFINE b == BeginSoftStop(s, "disable", 0)
<1>1. Runs(s, b)
  BY BeginSoftStopRuns
<1>2. b \in ControllerState
  BY <1>1 DEF Runs
<1> HIDE DEF b
<1>3. Runs(b, ProfileCycle(b, o))
  BY <1>2, ProfileCycleRuns
<1>4. Runs(s, ProfileCycle(b, o))
  BY <1>1, <1>3, RunsTrans
<1> QED
  BY <1>4 DEF b
LEMMA StartGatedMotionRuns ==
  ASSUME NEW s \in ControllerState, s.mode = "brake_gate"
  PROVE  Runs(s, StartGatedMotion(s))
<1> DEFINE a == [s EXCEPT !.gatedValid = FALSE]
           T == [a EXCEPT !.mode = "trajectory", !.atPoint = FALSE]
           J == [a EXCEPT !.mode = "jog", !.jogAge = 0]
           R == [a EXCEPT !.mode = "streaming"]
           P == [a EXCEPT !.mode = "position"]
           B == BeginSoftStop(a, "disable", 0)
<1>1. a \in ControllerState /\ a.mode = "brake_gate"
  BY ZenonT(60) DEF ControllerState
<1>2. Runs(s, a)
  BY <1>1 DEF ControllerState, Runs, SameInputs, SameChoice, ModeStep
<1> HIDE DEF a
<1>3. /\ T \in ControllerState /\ J \in ControllerState
      /\ R \in ControllerState /\ P \in ControllerState
  <2>1. T \in ControllerState
    BY <1>1, ZenonT(60) DEF ControllerState, Modes
  <2>2. J \in ControllerState
    BY <1>1, Zeros, ZenonT(60) DEF ControllerState, Modes
  <2>3. R \in ControllerState
    BY <1>1, ZenonT(60) DEF ControllerState, Modes
  <2>4. P \in ControllerState
    BY <1>1, ZenonT(60) DEF ControllerState, Modes
  <2> QED
    BY <2>1, <2>2, <2>3, <2>4
<1>4. a.mode \in Started /\ \A m \in Moving : ModeStep(a.mode, m)
  <2>1. ASSUME NEW m \in Moving PROVE ModeStep("brake_gate", m)
    BY DEF ModeStep, Started, Moving
  <2> QED
    BY <1>1, <2>1, Zenon DEF Started
<1>5. Runs(a, T) /\ Runs(a, J) /\ Runs(a, R) /\ Runs(a, P)
  <2>1. T.mode = "trajectory" /\ J.mode = "jog" /\ R.mode = "streaming" /\ P.mode = "position"
    BY <1>1, ZenonT(60) DEF ControllerState
  <2>2. /\ ModeStep(a.mode, T.mode) /\ ModeStep(a.mode, J.mode)
        /\ ModeStep(a.mode, R.mode) /\ ModeStep(a.mode, P.mode)
    BY <1>4, <2>1 DEF Moving
  <2>3. Runs(a, T)
    BY <1>1, <1>3, <2>2, ZenonT(60) DEF ControllerState, Runs, SameInputs, SameChoice
  <2>4. Runs(a, J)
    BY <1>1, <1>3, <2>2, ZenonT(60) DEF ControllerState, Runs, SameInputs, SameChoice
  <2>5. Runs(a, R)
    BY <1>1, <1>3, <2>2, ZenonT(60) DEF ControllerState, Runs, SameInputs, SameChoice
  <2>6. Runs(a, P)
    BY <1>1, <1>3, <2>2, ZenonT(60) DEF ControllerState, Runs, SameInputs, SameChoice
  <2> QED
    BY <2>3, <2>4, <2>5, <2>6
<1>6. Runs(a, B)
  BY <1>1, <1>4, BeginSoftStopRuns
<1>7. StartGatedMotion(s) \in {T, J, R, P, B}
  BY Zenon DEF StartGatedMotion, a
<1>8. Runs(a, StartGatedMotion(s))
  BY <1>5, <1>6, <1>7
<1> QED
  BY <1>2, <1>8, RunsTrans

LEMMA BrakeGateRuns ==
  ASSUME NEW s \in ControllerState, NEW ready, NEW elapsed, NEW o, s.mode = "brake_gate"
  PROVE  Runs(s, BrakeGate(s, ready, elapsed, o))
<1> DEFINE X == ProfileCycle(BeginSoftStop(s, "disable", 0), o)
           U == [s EXCEPT !.stable = FALSE, !.power = TRUE]
           W == [s EXCEPT !.stable = TRUE]
<1>1. Runs(s, X)
  BY StoppedCycleRuns DEF Started
<1>2. Runs(s, U) /\ Runs(s, W)
  <2>1. U \in ControllerState /\ W \in ControllerState
    BY ZenonT(60) DEF ControllerState
  <2> QED
    BY <2>1 DEF ControllerState, Runs, SameInputs, SameChoice, ModeStep
<1>3. BrakeGate(s, ready, elapsed, o) \in {X, U, StartGatedMotion(s), W}
  BY Zenon DEF BrakeGate
<1> QED
  BY <1>1, <1>2, <1>3, StartGatedMotionRuns

LEMMA JogCycleRuns ==
  ASSUME NEW s \in ControllerState, NEW o, s.mode = "jog" PROVE Runs(s, JogCycle(s, o))
<1>1. JogCycle(s, o) \in {ProfileCycle(BeginSoftStop(s, "disable", 0), o), ProfileCycle(s, o)}
  BY Zenon DEF JogCycle
<1>2. s.mode \in Started
  BY DEF Started, Moving
<1> QED
  BY <1>1, <1>2, StoppedCycleRuns, ProfileCycleRuns

LEMMA TrajectoryCycleRuns ==
  ASSUME NEW s \in ControllerState, NEW o, NEW last \in BOOLEAN
  PROVE  Runs(s, TrajectoryCycle(s, o, last))
<1> DEFINE p == s.atPoint \/ (o # "running" /\ last)
           a == [s EXCEPT !.rest = FALSE, !.atPoint = p]
<1>1. p \in BOOLEAN
  BY Zenon
<1>2. a \in ControllerState
  <2> HIDE DEF p
  <2> QED
    BY <1>1, ZenonT(60) DEF ControllerState
<1>3. Runs(s, a)
  <2> HIDE DEF p
  <2> QED
    BY <1>2 DEF ControllerState, Runs, SameInputs, SameChoice, ModeStep
<1>4. TrajectoryCycle(s, o, last) \in {EnterFault(s), a}
  BY Zenon DEF TrajectoryCycle
<1> QED
  BY <1>3, <1>4, EnterFaultRuns

LEMMA MotionStepRuns ==
  ASSUME NEW s \in ControllerState, NEW ready, NEW elapsed, NEW o, NEW last \in BOOLEAN
  PROVE  Runs(s, MotionStep(s, ready, elapsed, o, last))
<1> DEFINE t == MotionStep(s, ready, elapsed, o, last)
<1>1. CASE s.mode = "brake_gate"
  <2>1. t = BrakeGate(s, ready, elapsed, o)
    BY <1>1, Zenon DEF MotionStep
  <2> QED
    BY <1>1, <2>1, BrakeGateRuns
<1>2. CASE s.mode = "jog"
  <2>1. t = JogCycle(s, o)
    BY <1>2, Zenon DEF MotionStep
  <2> QED
    BY <1>2, <2>1, JogCycleRuns
<1>3. CASE s.mode \notin {"brake_gate", "jog"}
  <2>1. t \in {TrajectoryCycle(s, o, last), ProfileCycle(s, o), s}
    BY <1>3, Zenon DEF MotionStep
  <2> QED
    BY <2>1, TrajectoryCycleRuns, ProfileCycleRuns, RunsRefl
<1> QED
  BY <1>1, <1>2, <1>3

LEMMA GateLostRuns ==
  ASSUME NEW s \in ControllerState, NEW ready PROVE Runs(s, GateLost(s, ready))
<1> DEFINE a == [s EXCEPT !.gatedValid = FALSE, !.traj = 0]
<1>1. a \in ControllerState
  BY Zeros, ZenonT(60) DEF ControllerState
<1>2. Runs(s, a)
  BY <1>1 DEF ControllerState, Runs, SameInputs, SameChoice, ModeStep
<1> HIDE DEF a
<1>3. Runs(s, EnterFault(a))
  BY <1>1, <1>2, EnterFaultRuns, RunsTrans
<1>4. GateLost(s, ready) \in {EnterFault(a), s}
  BY Zenon DEF GateLost, a
<1> QED
  BY <1>3, <1>4, RunsRefl

LEMMA TargetReachedRuns ==
  ASSUME NEW s \in ControllerState, NEW o PROVE Runs(s, TargetReached(s, o))
<1> DEFINE a == [s EXCEPT !.traj = 0]
<1>1. a \in ControllerState /\ a.mode = s.mode
  BY Zeros, ZenonT(60) DEF ControllerState
<1>2. Runs(s, a)
  BY <1>1 DEF ControllerState, Runs, SameInputs, SameChoice, ModeStep
<1> HIDE DEF a
<1>3. ASSUME s.mode \in {"position", "trajectory"} PROVE Runs(s, EnterHold(a))
  BY <1>1, <1>2, <1>3, EnterHoldRuns, RunsTrans
<1>4. \/ TargetReached(s, o) = EnterHold(a) /\ s.mode \in {"position", "trajectory"}
      \/ TargetReached(s, o) = s
  BY Zenon DEF TargetReached, a
<1> QED
  BY <1>3, <1>4, RunsRefl

LEMMA ZeroFrameResyncRuns ==
  ASSUME NEW s \in ControllerState PROVE Runs(s, ZeroFrameResync(s))
<1> DEFINE m == IF s.mode \in {"fault", "estop"} THEN s.mode ELSE "hold"
           t == [s EXCEPT !.rezero = FALSE, !.traj = 0, !.gatedValid = FALSE, !.pendingHold = 0,
                          !.rest = TRUE, !.mode = m]
<1>1. m \in Modes /\ ModeStep(s.mode, m)
  BY DEF Modes, ModeStep, Started, Moving
<1> HIDE DEF m
<1>2. t \in ControllerState /\ t.mode = m
  BY <1>1, Zeros, ZenonT(60) DEF ControllerState
<1>3. /\ SameInputs(s, t) /\ SameChoice(s, t) /\ t.completed = s.completed
      /\ t.followAck = s.followAck /\ t.pendingHold = 0
  BY ZenonT(60) DEF ControllerState, SameInputs, SameChoice
<1>4. Runs(s, t)
  <2> HIDE DEF t
  <2> QED
    BY <1>1, <1>2, <1>3 DEF Runs
<1>5. ZeroFrameResync(s) \in {t, s}
  BY Zenon DEF ZeroFrameResync, m
<1> QED
  BY <1>4, <1>5, RunsRefl

\* write_command_interfaces publishes the mode and changes nothing else.
LEMMA WriteInterfacesRuns ==
  ASSUME NEW s \in ControllerState
  PROVE  LET t == WriteInterfaces(s)
         IN  Runs(s, t) /\ t.mode = s.mode /\ t.snapMode = s.mode
<1> DEFINE x == (s.mode = "trajectory" /\ s.traj # 0)
           y == s.mode
           z == s.gatedValid
           t == [s EXCEPT !.snapMode = y, !.snapTraj = x, !.snapGated = z]
<1>1. x \in BOOLEAN /\ y \in Modes /\ z \in BOOLEAN
  BY ZenonT(60) DEF ControllerState
<1>2. WriteInterfaces(s) = t
  BY DEF WriteInterfaces
<1> HIDE DEF x, y, z
<1>3. t \in ControllerState
  BY <1>1, ZenonT(60) DEF ControllerState
<1>4. t.mode = s.mode /\ t.snapMode = y
  BY ZenonT(60) DEF ControllerState
<1>5. Runs(s, t)
  BY <1>3, <1>4 DEF ControllerState, Runs, SameInputs, SameChoice, ModeStep
<1> QED
  BY <1>2, <1>4, <1>5 DEF y

(* The end of a cycle.                                                      *)

Ends(s, t) ==
  /\ t \in ControllerState /\ SameInputs(s, t) /\ SameChoice(s, t)
  /\ t.mode = s.mode /\ t.snapMode = s.snapMode

LEMMA EndsTrans ==
  ASSUME NEW s, NEW t, NEW u, Ends(s, t), Ends(t, u) PROVE Ends(s, u)
BY DEF Ends, SameInputs, SameChoice

LEMMA EndsRefl ==
  ASSUME NEW s \in ControllerState PROVE Ends(s, s)
BY Zenon DEF Ends, SameInputs, SameChoice

\* Only a HOLD that waits in mode hold is confirmed.
LEMMA ConfirmPendingHoldEnds ==
  ASSUME NEW s \in ControllerState, NEW settled
  PROVE  LET t == ConfirmPendingHold(s, settled)
         IN  /\ Ends(s, t) /\ t.followAck = s.followAck /\ t.pendingHold \in {s.pendingHold, 0}
             /\ t.completed = s.completed \/ (t.completed = s.pendingHold /\ s.mode = "hold")
<1> DEFINE f == [s EXCEPT !.failed = s.pendingHold, !.pendingHold = 0]
           c == [s EXCEPT !.completed = s.pendingHold, !.pendingHold = 0]
           t == ConfirmPendingHold(s, settled)
<1>1. f \in ControllerState /\ c \in ControllerState
  BY Fields, Zeros, ZenonT(60) DEF ControllerState
<1>2. Ends(s, f) /\ f.followAck = s.followAck /\ f.pendingHold = 0 /\ f.completed = s.completed
  BY <1>1 DEF ControllerState, Ends, SameInputs, SameChoice
<1>3. Ends(s, c) /\ c.followAck = s.followAck /\ c.pendingHold = 0 /\ c.completed = s.pendingHold
  BY <1>1 DEF ControllerState, Ends, SameInputs, SameChoice
<1>4. t \in {s, f} \/ (t = c /\ s.mode = "hold")
  BY Zenon DEF ConfirmPendingHold, FailPendingHold
<1> HIDE DEF f, c, t
<1>5. CASE t = s
  BY <1>5, EndsRefl DEF t
<1>6. CASE t = f
  BY <1>2, <1>6 DEF t
<1>7. CASE t = c /\ s.mode = "hold"
  BY <1>3, <1>7 DEF t
<1> QED
  BY <1>4, <1>5, <1>6, <1>7

\* The FOLLOW that waits for its acknowledgement once command c was read.
Awaited(s, heavy, c) == IF heavy /\ c.type = "stream" /\ c.seq # 0 THEN c.seq ELSE s.followAck

\* A FOLLOW that waits keeps waiting, or is acknowledged in streaming mode.
LEMMA PublishAckEnds ==
  ASSUME NEW s \in ControllerState, NEW heavy, NEW c \in Commands, NEW ready, NEW selected
  PROVE  LET t == PublishAck(s, heavy, c, ready, selected)
             f == Awaited(s, heavy, c)
         IN  /\ Ends(s, t) /\ t.completed = s.completed /\ t.pendingHold = s.pendingHold
             /\ t.followAck \in {0, f}
             /\ f # 0 => t.followAck # 0 \/ (t.mode = "streaming" /\ t.applied = f)
<1> DEFINE f == [s EXCEPT !.followAck = c.seq]
           g == [s EXCEPT !.applied = c.seq]
           a == IF ~heavy \/ c.seq = 0 THEN s ELSE IF c.type = "stream" THEN f ELSE g
           b == [a EXCEPT !.applied = a.followAck, !.followAck = 0]
           t == PublishAck(s, heavy, c, ready, selected)
           w == Awaited(s, heavy, c)
           Same(x) == Ends(s, x) /\ x.completed = s.completed /\ x.pendingHold = s.pendingHold
<1>1. c.seq \in Nat
  BY CommandFields
<1>2. Same(f) /\ f.followAck = c.seq
  <2>1. f \in ControllerState
    BY <1>1, ZenonT(60) DEF ControllerState
  <2> QED
    BY <2>1 DEF ControllerState, Ends, SameInputs, SameChoice
<1>3. Same(g) /\ g.followAck = s.followAck
  <2>1. g \in ControllerState
    BY <1>1, ZenonT(60) DEF ControllerState
  <2> QED
    BY <2>1 DEF ControllerState, Ends, SameInputs, SameChoice
<1>4. Same(a) /\ a \in ControllerState /\ a.followAck = w
  <2> HIDE DEF f, g
  <2>1. Same(s)
    BY EndsRefl
  <2>2. Same(a) /\ a.followAck = w
    BY <1>2, <1>3, <2>1 DEF Awaited
  <2> QED
    BY <2>2 DEF Ends
<1> HIDE DEF a, w
<1>5. Same(b) /\ b.mode = a.mode /\ b.followAck = 0 /\ b.applied = a.followAck
  <2> DEFINE x == a.followAck
  <2>1. x \in Nat
    BY <1>4, Fields
  <2> HIDE DEF x
  <2>2. b \in ControllerState
    BY <1>4, <2>1, Zeros, ZenonT(60) DEF ControllerState, x
  <2>3. Ends(a, b) /\ b.completed = a.completed /\ b.pendingHold = a.pendingHold
    BY <1>4, <2>2 DEF ControllerState, Ends, SameInputs, SameChoice
  <2>4. b.followAck = 0 /\ b.applied = a.followAck
    BY <1>4, ZenonT(60) DEF ControllerState
  <2> HIDE DEF b
  <2> QED
    BY <1>4, <2>3, <2>4, EndsTrans DEF Ends
<1>6. t = a \/ (t = b /\ a.mode = "streaming")
  BY Zenon DEF PublishAck, a
<1> HIDE DEF b, t
<1>7. /\ Same(t) /\ t.followAck \in {0, w}
      /\ w # 0 => t.followAck # 0 \/ (t.mode = "streaming" /\ t.applied = w)
  BY <1>4, <1>5, <1>6
<1> QED
  BY <1>7 DEF t, w

LEMMA JogClockEnds ==
  ASSUME NEW s \in ControllerState
  PROVE  LET t == JogClock(s)
         IN  /\ Ends(s, t) /\ t.completed = s.completed /\ t.pendingHold = s.pendingHold
             /\ t.followAck = s.followAck /\ t.applied = s.applied
<1> DEFINE j == IF s.mode = "jog" \/ (s.mode = "brake_gate" /\ s.gated.type = "jog")
                THEN IF s.jogAge > JogTimeout THEN s.jogAge ELSE s.jogAge + 1
                ELSE 0
           t == [s EXCEPT !.jogAge = j]
<1>1. s.jogAge \in 0 .. JogTimeout + 1
  BY ZenonT(60) DEF ControllerState
<1>2. j \in 0 .. JogTimeout + 1
  BY <1>1, LiftAssumption DEF LiftAssumption
<1>3. JogClock(s) = t
  BY DEF JogClock
<1> HIDE DEF j
<1>4. t \in ControllerState
  BY <1>2, ZenonT(60) DEF ControllerState
<1> QED
  BY <1>3, <1>4 DEF ControllerState, Ends, SameInputs, SameChoice

-----------------------------------------------------------------------------
(* The selection of a command.                                              *)

\* What the selection leaves alone.
SameWait(s, t) ==
  /\ SameInputs(s, t) /\ t.completed = s.completed /\ t.followAck = s.followAck

LEMMA BufferedType ==
  ASSUME NEW s \in ControllerState
  PROVE  /\ Buffered(s) \in Commands
         /\ Source(s) = "safety" <=> SafetyNew(s)
         /\ Source(s) = "safety" => Buffered(s) = s.safetyBuf
         /\ Source(s) = "heavy" => Buffered(s) = s.heavyBuf
         /\ Source(s) = "legacy" => Buffered(s) = s.cmdBuf
         /\ Source(s) \notin {"safety", "heavy", "legacy"} => Buffered(s).gen = 0
<1>1. Source(s) \in {"safety", "heavy", "legacy", "none"} /\ (Source(s) = "safety" <=> SafetyNew(s))
  BY DEF Source
<1>2. /\ Source(s) = "safety" => Buffered(s) = s.safetyBuf
      /\ Source(s) = "heavy" => Buffered(s) = s.heavyBuf
      /\ Source(s) = "legacy" => Buffered(s) = s.cmdBuf
      /\ Source(s) = "none" => Buffered(s) = NoCommand
  BY Zenon DEF Buffered
<1> QED
  BY <1>1, <1>2, Fields, NoCommandType

\* The state in which the selected command is recorded.
Marked(s) ==
  [MarkConsumed(s) EXCEPT !.cur = Buffered(s),
     !.consumed = IF Source(s) = "legacy" THEN Buffered(s).gen ELSE @]

LEMMA MarkConsumedLemma ==
  ASSUME NEW s \in ControllerState
  PROVE  LET t == MarkConsumed(s)
         IN  /\ t \in ControllerState /\ SameWait(s, t) /\ t.mode = s.mode /\ t.still = s.still
             /\ t.cur = s.cur /\ t.consumed = s.consumed /\ t.appliedCancel = s.appliedCancel
             /\ t.pendTraj = s.pendTraj /\ t.pendingHold = s.pendingHold
             /\ t.consumedSafety = IF SafetyNew(s) THEN s.safetyGen ELSE s.consumedSafety
<1> DEFINE x == IF Source(s) = "safety" THEN s.safetyGen ELSE s.consumedSafety
           y == IF Source(s) = "heavy" THEN s.heavyGen ELSE s.consumedHeavy
           t == [s EXCEPT !.consumedSafety = x, !.consumedHeavy = y]
<1>1. x \in Nat /\ y \in Nat
  BY Fields
<1>2. x = IF SafetyNew(s) THEN s.safetyGen ELSE s.consumedSafety
  BY BufferedType
<1>3. MarkConsumed(s) = t
  BY DEF MarkConsumed
<1> HIDE DEF x, y
<1>4. t \in ControllerState
  BY <1>1, ZenonT(60) DEF ControllerState
<1>5. t.consumedSafety = x
  BY ZenonT(60) DEF ControllerState
<1>6. /\ SameWait(s, t) /\ t.mode = s.mode /\ t.still = s.still
      /\ t.cur = s.cur /\ t.consumed = s.consumed /\ t.appliedCancel = s.appliedCancel
      /\ t.pendTraj = s.pendTraj /\ t.pendingHold = s.pendingHold
  BY DEF ControllerState, SameWait, SameInputs
<1> QED
  BY <1>2, <1>3, <1>4, <1>5, <1>6

LEMMA MarkedLemma ==
  ASSUME NEW s \in ControllerState
  PROVE  LET t == Marked(s)
         IN  /\ t \in ControllerState /\ SameWait(s, t) /\ t.mode = s.mode /\ t.still = s.still
             /\ t.cur = Buffered(s)
             /\ t.consumed = IF Source(s) = "legacy" THEN Buffered(s).gen ELSE s.consumed
             /\ t.appliedCancel = s.appliedCancel
             /\ t.pendTraj = s.pendTraj /\ t.pendingHold = s.pendingHold
             /\ t.consumedSafety = IF SafetyNew(s) THEN s.safetyGen ELSE s.consumedSafety
<1> DEFINE m == MarkConsumed(s)
           c == Buffered(s)
           x == IF Source(s) = "legacy" THEN c.gen ELSE m.consumed
           t == [m EXCEPT !.cur = c, !.consumed = x]
<1>1. /\ m \in ControllerState /\ SameWait(s, m) /\ m.mode = s.mode /\ m.still = s.still
      /\ m.consumed = s.consumed /\ m.appliedCancel = s.appliedCancel
      /\ m.pendTraj = s.pendTraj /\ m.pendingHold = s.pendingHold
      /\ m.consumedSafety = IF SafetyNew(s) THEN s.safetyGen ELSE s.consumedSafety
  BY MarkConsumedLemma
<1>2. c \in Commands /\ x \in Nat
  BY <1>1, BufferedType, CommandFields, Fields
<1>3. Marked(s) = t
  BY DEF Marked
<1>4. x = IF Source(s) = "legacy" THEN c.gen ELSE s.consumed
  BY <1>1
<1> HIDE DEF m, c, x
<1>5. t \in ControllerState
  BY <1>1, <1>2, ZenonT(60) DEF ControllerState
<1>6. t.cur = c /\ t.consumed = x
  BY <1>1, ZenonT(60) DEF ControllerState
<1>7. /\ SameWait(m, t) /\ t.mode = m.mode /\ t.still = m.still
      /\ t.appliedCancel = m.appliedCancel /\ t.consumedSafety = m.consumedSafety
      /\ t.pendTraj = m.pendTraj /\ t.pendingHold = m.pendingHold
  BY <1>1 DEF ControllerState, SameWait, SameInputs
<1> HIDE DEF t
<1>8. SameWait(s, t)
  BY <1>1, <1>7 DEF SameWait, SameInputs
<1> QED
  BY <1>1, <1>3, <1>4, <1>5, <1>6, <1>7, <1>8 DEF c

\* A STOP or HOLD leaves no motion; from the safety buffer it is also the
\* commit that the service waits for.
LEMMA StopOrHoldLemma ==
  ASSUME NEW s \in ControllerState, NEW c \in Commands, NEW safety \in BOOLEAN
  PROVE  LET t == StopOrHold(s, c, safety)
         IN  /\ t \in ControllerState /\ SameWait(s, t) /\ t.mode \in {"hold", "soft_stop"}
             /\ t.cur = s.cur /\ t.consumed = s.consumed /\ t.consumedSafety = s.consumedSafety
             /\ t.appliedCancel = IF safety THEN c.gen ELSE s.appliedCancel
             /\ t.pendTraj \in {s.pendTraj, 0}
             /\ t.pendingHold \in {s.pendingHold, 0} \cup (IF safety THEN {c.gen} ELSE {})
<1> DEFINE x == IF s.pendTraj <= c.gen THEN 0 ELSE s.pendTraj
           b == [s EXCEPT !.traj = 0, !.appliedCancel = c.gen, !.pendTraj = x]
           a == IF safety THEN b ELSE s
           holdGen == IF c.type = "hold" /\ safety THEN c.gen ELSE 0
           k == IF c.type = "hold" THEN "hold_powered" ELSE "disable"
           p == [a EXCEPT !.pendingHold = holdGen]
           Same(t) == /\ SameWait(s, t)
                      /\ t.cur = s.cur /\ t.consumed = s.consumed
                      /\ t.consumedSafety = s.consumedSafety
                      /\ t.appliedCancel = IF safety THEN c.gen ELSE s.appliedCancel
                      /\ t.pendTraj \in {s.pendTraj, 0}
           From(r, t) == /\ SameWait(r, t)
                         /\ t.cur = r.cur /\ t.consumed = r.consumed
                         /\ t.consumedSafety = r.consumedSafety
                         /\ t.appliedCancel = r.appliedCancel /\ t.pendTraj = r.pendTraj
<1>1. c.gen \in Nat /\ x \in Nat /\ x \in {s.pendTraj, 0}
  BY CommandFields, Fields
<1>2. holdGen \in Nat /\ holdGen \in {0} \cup (IF safety THEN {c.gen} ELSE {})
  BY <1>1
<1> HIDE DEF x
<1>3. a \in ControllerState /\ Same(a) /\ a.pendingHold = s.pendingHold
  <2>1. b \in ControllerState
    BY <1>1, Zeros, ZenonT(60) DEF ControllerState
  <2>2. b.appliedCancel = c.gen /\ b.pendTraj = x
    BY ZenonT(60) DEF ControllerState
  <2>3. /\ SameWait(s, b) /\ b.cur = s.cur /\ b.consumed = s.consumed
        /\ b.consumedSafety = s.consumedSafety /\ b.pendingHold = s.pendingHold
    BY ZenonT(60) DEF ControllerState, SameWait, SameInputs
  <2> HIDE DEF b
  <2>4. SameWait(s, s)
    BY DEF SameWait, SameInputs
  <2> QED
    BY <1>1, <2>1, <2>2, <2>3, <2>4
<1> HIDE DEF a, holdGen
<1>4. p \in ControllerState /\ From(a, p) /\ p.pendingHold = holdGen
  <2>1. p \in ControllerState
    BY <1>2, <1>3, ZenonT(60) DEF ControllerState
  <2> QED
    BY <1>3, <2>1, ZenonT(60) DEF ControllerState, SameWait, SameInputs
<1>5. ASSUME NEW r \in ControllerState, Same(r)
      PROVE  LET t == EnterHold(r)
             IN  /\ t \in ControllerState /\ Same(t) /\ t.mode = "hold"
                 /\ t.pendingHold = r.pendingHold
  <2> DEFINE t == EnterHold(r)
  <2>1. t \in ControllerState
    BY ZenonT(60) DEF EnterHold, ControllerState, Modes
  <2>2. From(r, t) /\ t.mode = "hold" /\ t.pendingHold = r.pendingHold
    BY ZenonT(60) DEF EnterHold, ControllerState, SameWait, SameInputs
  <2> HIDE DEF t
  <2>3. Same(t)
    BY <1>5, <2>2 DEF SameWait, SameInputs
  <2> QED
    BY <2>1, <2>2, <2>3 DEF t
<1> DEFINE h == EnterHold(p)
           e == EnterHold(a)
           d == [e EXCEPT !.power = FALSE]
           f == BeginSoftStop(a, k, holdGen)
<1>6. Same(p)
  <2> HIDE DEF p
  <2> QED
    BY <1>3, <1>4 DEF SameWait, SameInputs
<1>7. h \in ControllerState /\ Same(h) /\ h.mode = "hold" /\ h.pendingHold = holdGen
  BY <1>4, <1>5, <1>6
<1>8. d \in ControllerState /\ Same(d) /\ d.mode = "hold" /\ d.pendingHold = s.pendingHold
  <2>1. e \in ControllerState /\ Same(e) /\ e.mode = "hold" /\ e.pendingHold = s.pendingHold
    BY <1>3, <1>5
  <2> HIDE DEF e
  <2>2. d \in ControllerState
    BY <2>1, ZenonT(60) DEF ControllerState
  <2>3. From(e, d) /\ d.mode = e.mode /\ d.pendingHold = e.pendingHold
    BY <2>1, ZenonT(60) DEF ControllerState, SameWait, SameInputs
  <2> HIDE DEF d
  <2> QED
    BY <2>1, <2>2, <2>3 DEF SameWait, SameInputs
<1>9. f \in ControllerState /\ Same(f) /\ f.mode = "soft_stop" /\ f.pendingHold = holdGen
  <2>1. k \in {"disable", "hold_powered"}
    OBVIOUS
  <2> HIDE DEF k
  <2>2. f \in ControllerState
    BY <1>2, <1>3, <2>1, Zeros, ZenonT(200) DEF BeginSoftStop, ControllerState, Modes
  <2>3. From(a, f) /\ f.mode = "soft_stop" /\ f.pendingHold = holdGen
    BY <1>3, ZenonT(60) DEF BeginSoftStop, ControllerState, SameWait, SameInputs
  <2> HIDE DEF f
  <2> QED
    BY <1>3, <2>2, <2>3 DEF SameWait, SameInputs
<1>10. StopOrHold(s, c, safety) \in {h, d, f}
  BY Zenon DEF StopOrHold, a, x, holdGen
<1> HIDE DEF h, d, f
<1> QED
  BY <1>2, <1>7, <1>8, <1>9, <1>10

\* Any other command ends at the brake gate, or renews the running motion.
LEMMA StartOrUpdateLemma ==
  ASSUME NEW s \in ControllerState, NEW c \in Commands, NEW ready
  PROVE  LET t == StartOrUpdate(s, c, ready)
         IN  /\ t \in ControllerState /\ SameWait(s, t) /\ t.mode \in Started
             /\ t.cur = s.cur /\ t.consumed = s.consumed /\ t.consumedSafety = s.consumedSafety
             /\ t.appliedCancel = s.appliedCancel
             /\ t.pendTraj = s.pendTraj /\ t.pendingHold = s.pendingHold
<1> DEFINE Same(t) == /\ SameWait(s, t)
                      /\ t.cur = s.cur /\ t.consumed = s.consumed
                      /\ t.consumedSafety = s.consumedSafety
                      /\ t.appliedCancel = s.appliedCancel
                      /\ t.pendTraj = s.pendTraj /\ t.pendingHold = s.pendingHold
           x == IF c.type = "jog" THEN 0 ELSE s.jogAge
           a == [s EXCEPT !.gated = c, !.gatedValid = TRUE, !.jogAge = x]
           b == [s EXCEPT !.jogAge = 0]
           d == [s EXCEPT !.traj = 0]
           g == BeginBrakeGate(d, c)
           t == StartOrUpdate(s, c, ready)
<1>1. x \in 0 .. JogTimeout + 1
  BY Zeros, ZenonT(60) DEF ControllerState
<1>2. a \in ControllerState /\ Same(a) /\ a.mode = s.mode
  <2> HIDE DEF x
  <2>1. a \in ControllerState
    BY <1>1, ZenonT(60) DEF ControllerState
  <2> QED
    BY <2>1, ZenonT(60) DEF ControllerState, SameWait, SameInputs
<1>3. b \in ControllerState /\ Same(b) /\ b.mode = s.mode
  <2>1. b \in ControllerState
    BY Zeros, ZenonT(60) DEF ControllerState
  <2> QED
    BY <2>1, ZenonT(60) DEF ControllerState, SameWait, SameInputs
<1>4. g \in ControllerState /\ Same(g) /\ g.mode = "brake_gate"
  <2>1. d \in ControllerState
    BY Zeros, ZenonT(60) DEF ControllerState
  <2>2. Same(d)
    BY ZenonT(60) DEF ControllerState, SameWait, SameInputs
  <2> HIDE DEF d
  <2>3. g \in ControllerState
    BY <2>1, Zeros, ZenonT(60) DEF BeginBrakeGate, ControllerState, Modes
  <2>4. g.mode = "brake_gate"
    BY <2>1, ZenonT(60) DEF BeginBrakeGate, ControllerState
  <2>5. Same(g)
    BY <2>1, <2>2, ZenonT(60) DEF BeginBrakeGate, ControllerState, SameWait, SameInputs
  <2> QED
    BY <2>3, <2>4, <2>5
<1>5. Same(s)
  BY DEF SameWait, SameInputs
<1>6. \/ t = a /\ s.mode = "brake_gate"
      \/ t = b /\ s.mode = "jog"
      \/ t = s /\ s.mode = "streaming"
      \/ t = g
  BY Zenon DEF StartOrUpdate
<1> HIDE DEF a, b, d, g, t
<1>7. t \in ControllerState /\ Same(t) /\ t.mode \in {"brake_gate", "jog", "streaming"}
  BY <1>2, <1>3, <1>4, <1>5, <1>6
<1> QED
  BY <1>7 DEF t, Started, Moving

\* The result of the selection: nothing but the consumption mark, a stop, or a
\* command that is at the brake gate or moving.
Chosen(s, t) ==
  /\ t \in ControllerState /\ SameWait(s, t)
  /\ t.consumedSafety = IF SafetyNew(s) THEN s.safetyGen ELSE s.consumedSafety
  /\ ~BufferedIsNew(s) =>
       /\ t.mode = s.mode /\ t.cur = s.cur /\ t.consumed = s.consumed
       /\ t.appliedCancel = s.appliedCancel
       /\ t.pendTraj = s.pendTraj /\ t.pendingHold = s.pendingHold
  /\ BufferedIsNew(s) =>
       /\ t.cur = Buffered(s)
       /\ t.consumed = IF Source(s) = "legacy" THEN Buffered(s).gen ELSE s.consumed
  /\ BufferedIsNew(s) /\ Buffered(s).type \in Stops =>
       /\ t.mode \in {"hold", "soft_stop"}
       /\ t.appliedCancel = IF SafetyNew(s) THEN Buffered(s).gen ELSE s.appliedCancel
       /\ t.pendTraj \in {s.pendTraj, 0}
       /\ t.pendingHold \in {s.pendingHold, 0} \cup (IF SafetyNew(s) THEN {Buffered(s).gen} ELSE {})
  /\ BufferedIsNew(s) /\ Buffered(s).type \notin Stops =>
       /\ t.mode \in Started
       /\ t.appliedCancel = s.appliedCancel
       /\ t.pendTraj = s.pendTraj /\ t.pendingHold = s.pendingHold

LEMMA ActLemma ==
  ASSUME NEW s \in ControllerState, NEW ready PROVE Chosen(s, Act(s, ready))
<1> DEFINE c == Buffered(s)
           m == MarkConsumed(s)
           a == Marked(s)
           t == Act(s, ready)
<1>1. CASE ~BufferedIsNew(s)
  <2>1. t = m
    BY <1>1, Zenon DEF Act
  <2> QED
    BY <1>1, <2>1, MarkConsumedLemma DEF Chosen
<1>2. CASE BufferedIsNew(s) /\ c.type \in Stops
  <2> DEFINE u == StopOrHold(a, c, Source(s) = "safety")
  <2>1. t = u
    BY <1>2, Zenon DEF Act, Marked, Stops
  <2>2. a \in ControllerState /\ c \in Commands /\ (Source(s) = "safety") \in BOOLEAN
    BY MarkedLemma, BufferedType
  <2>3. /\ u \in ControllerState /\ SameWait(a, u) /\ u.mode \in {"hold", "soft_stop"}
        /\ u.cur = a.cur /\ u.consumed = a.consumed /\ u.consumedSafety = a.consumedSafety
        /\ u.appliedCancel = IF Source(s) = "safety" THEN c.gen ELSE a.appliedCancel
        /\ u.pendTraj \in {a.pendTraj, 0}
        /\ u.pendingHold \in {a.pendingHold, 0}
                               \cup (IF Source(s) = "safety" THEN {c.gen} ELSE {})
    BY <2>2, StopOrHoldLemma
  <2> HIDE DEF u, a, t
  <2>4. SameWait(s, u)
    BY <2>3, MarkedLemma DEF SameWait, SameInputs, a
  <2> QED
    BY <1>2, <2>1, <2>3, <2>4, MarkedLemma, BufferedType DEF Chosen, a, t
<1>3. CASE BufferedIsNew(s) /\ c.type \notin Stops
  <2> DEFINE u == StartOrUpdate(a, c, ready)
  <2>1. t = u
    BY <1>3, Zenon DEF Act, Marked, Stops
  <2>2. a \in ControllerState /\ c \in Commands
    BY MarkedLemma, BufferedType
  <2>3. /\ u \in ControllerState /\ SameWait(a, u) /\ u.mode \in Started
        /\ u.cur = a.cur /\ u.consumed = a.consumed /\ u.consumedSafety = a.consumedSafety
        /\ u.appliedCancel = a.appliedCancel
        /\ u.pendTraj = a.pendTraj /\ u.pendingHold = a.pendingHold
    BY <2>2, StartOrUpdateLemma
  <2> HIDE DEF u, a, t
  <2>4. SameWait(s, u)
    BY <2>3, MarkedLemma DEF SameWait, SameInputs, a
  <2> QED
    BY <1>3, <2>1, <2>3, <2>4, MarkedLemma DEF Chosen, a, t
<1> QED
  BY <1>1, <1>2, <1>3

-----------------------------------------------------------------------------
(* The two halves of update.                                                *)

\* The second half after its selection a.
Cycled(a, t) ==
  /\ t \in ControllerState /\ SameInputs(a, t) /\ SameChoice(a, t)
  /\ t.step = "idle" /\ t.snapMode = t.mode /\ ModeStep(a.mode, t.mode)
  /\ \/ t.completed = a.completed
     \/ t.completed \in {a.pendingHold, 0} /\ t.mode = "hold"
  /\ t.pendingHold \in {a.pendingHold, 0}

\* The FOLLOW that waits in this cycle: the one just read, or an earlier one.
Waiting(s) == Awaited(s, HeavyNew(s), s.heavyBuf)

\* It keeps waiting, or is acknowledged in streaming mode.
FollowEnds(s, t) ==
  /\ t.followAck \in {0, Waiting(s)}
  /\ Waiting(s) # 0 => t.followAck # 0 \/ (t.mode = "streaming" /\ t.applied = Waiting(s))

LEMMA UpdateEndLemma ==
  ASSUME NEW settled, NEW elapsed, NEW last \in BOOLEAN, NEW o,
         lc \in ControllerState, UpdateEnd(settled, elapsed, last, o)
  PROVE  /\ Chosen(lc, Act(lc, GateReady)) /\ Cycled(Act(lc, GateReady), lc')
         /\ FollowEnds(lc, lc')
         /\ lc.step = "select"
<1> DEFINE s1 == Act(lc, GateReady)
           g == GateLost(s1, GateReady)
           s2 == MotionStep(g, GateReady, elapsed, o, last)
           r == TargetReached(s2, o)
           z == ZeroFrameResync(r)
           s3 == WriteInterfaces(z)
           selected == \/ lc.mode = "streaming" /\ s1.mode = "streaming" /\ GateReady
                            /\ BufferedIsNew(lc) /\ Buffered(lc).type = "stream"
                       \/ s1.mode = "brake_gate" /\ s2.mode = "streaming"
           k == ConfirmPendingHold(s3, settled)
           p == PublishAck(k, HeavyNew(lc), lc.heavyBuf, GateReady, selected)
           j == JogClock(p)
           w == Awaited(k, HeavyNew(lc), lc.heavyBuf)
<1>1. lc' = [j EXCEPT !.step = "idle"] /\ lc.step = "select"
  BY Zenon DEF UpdateEnd
<1>2. Chosen(lc, s1) /\ s1 \in ControllerState /\ s1.followAck = lc.followAck
  BY ActLemma DEF Chosen, SameWait
<1> HIDE DEF s1
<1>3. Runs(s1, g) /\ g \in ControllerState
  BY <1>2, GateLostRuns DEF Runs
<1> HIDE DEF g
<1>4. Runs(s1, s2) /\ s2 \in ControllerState
  BY <1>3, MotionStepRuns, RunsTrans DEF Runs
<1> HIDE DEF s2
<1>5. Runs(s1, r) /\ r \in ControllerState
  BY <1>4, TargetReachedRuns, RunsTrans DEF Runs
<1> HIDE DEF r
<1>6. Runs(s1, z) /\ z \in ControllerState
  BY <1>5, ZeroFrameResyncRuns, RunsTrans DEF Runs
<1> HIDE DEF z
<1>7. Runs(s1, s3) /\ s3 \in ControllerState /\ s3.snapMode = s3.mode
  BY <1>6, WriteInterfacesRuns, RunsTrans DEF Runs
<1> HIDE DEF s3
<1>8. /\ Ends(s3, k) /\ k \in ControllerState
      /\ k.followAck = s3.followAck /\ k.pendingHold \in {s3.pendingHold, 0}
      /\ k.completed = s3.completed \/ (k.completed = s3.pendingHold /\ s3.mode = "hold")
  BY <1>7, ConfirmPendingHoldEnds DEF Ends
<1> HIDE DEF k, selected
<1>9. /\ Ends(k, p) /\ p \in ControllerState
      /\ p.completed = k.completed /\ p.pendingHold = k.pendingHold
      /\ p.followAck \in {0, w}
      /\ w # 0 => p.followAck # 0 \/ (p.mode = "streaming" /\ p.applied = w)
  <2>1. lc.heavyBuf \in Commands
    BY Fields
  <2> QED
    BY <1>8, <2>1, PublishAckEnds DEF Ends
<1> HIDE DEF p, w
<1>10. /\ Ends(p, j) /\ j \in ControllerState
       /\ j.completed = p.completed /\ j.pendingHold = p.pendingHold /\ j.followAck = p.followAck
       /\ j.applied = p.applied
  BY <1>9, JogClockEnds DEF Ends
<1> HIDE DEF j
<1>11. /\ lc' \in ControllerState /\ SameInputs(j, lc') /\ SameChoice(j, lc')
       /\ lc'.mode = j.mode /\ lc'.snapMode = j.snapMode /\ lc'.completed = j.completed
       /\ lc'.pendingHold = j.pendingHold /\ lc'.followAck = j.followAck /\ lc'.step = "idle"
       /\ lc'.applied = j.applied
  <2> DEFINE q == [j EXCEPT !.step = "idle"]
  <2>1. q \in ControllerState
    BY <1>10, ZenonT(60) DEF ControllerState
  <2>2. /\ SameInputs(j, q) /\ SameChoice(j, q)
        /\ q.mode = j.mode /\ q.snapMode = j.snapMode /\ q.completed = j.completed
        /\ q.pendingHold = j.pendingHold /\ q.followAck = j.followAck /\ q.step = "idle"
        /\ q.applied = j.applied
    BY <1>10, ZenonT(60) DEF ControllerState, SameInputs, SameChoice
  <2> QED
    BY <1>1, <2>1, <2>2
<1>12. Ends(s3, j)
  BY <1>8, <1>9, <1>10, EndsTrans
<1>13. SameInputs(s1, lc') /\ SameChoice(s1, lc') /\ lc'.snapMode = lc'.mode /\ lc'.mode = s3.mode
  BY <1>7, <1>11, <1>12 DEF Ends, Runs, SameInputs, SameChoice
<1>14. Cycled(s1, lc')
  <2>1. ModeStep(s1.mode, lc'.mode)
    BY <1>7, <1>13 DEF Runs
  <2>2. lc'.pendingHold \in {s1.pendingHold, 0}
    BY <1>7, <1>8, <1>9, <1>10, <1>11 DEF Runs
  <2>3. \/ lc'.completed = s1.completed
        \/ lc'.completed \in {s1.pendingHold, 0} /\ lc'.mode = "hold"
    BY <1>7, <1>8, <1>9, <1>10, <1>11, <1>13 DEF Runs
  <2> QED
    BY <1>11, <1>13, <2>1, <2>2, <2>3 DEF Cycled
<1>15. FollowEnds(lc, lc')
  <2>1. w = Waiting(lc)
    BY <1>2, <1>7, <1>8 DEF Runs, w, Waiting, Awaited
  <2>2. /\ lc'.followAck = p.followAck /\ lc'.applied = p.applied /\ lc'.mode = p.mode
    BY <1>10, <1>11 DEF Ends
  <2> QED
    BY <1>9, <2>1, <2>2 DEF FollowEnds
<1> QED
  BY <1>1, <1>2, <1>14, <1>15 DEF s1

\* The first half of update: the end of an emergency stop, what the lease takes
\* from the local sources, and the start of a pending trajectory.
Begun(s, t) ==
  /\ t \in ControllerState /\ t.step = "select"
  /\ t.gen = s.gen /\ t.cancel = s.cancel /\ t.cmdGen = s.cmdGen /\ t.safetyGen = s.safetyGen
  /\ t.heavyGen = s.heavyGen /\ t.lease = s.lease
  /\ t.cmdBuf = s.cmdBuf /\ t.safetyBuf = s.safetyBuf /\ t.heavyBuf = s.heavyBuf
  /\ t.consumedSafety = s.consumedSafety /\ t.appliedCancel = s.appliedCancel
  /\ t.completed = s.completed /\ t.pendingHold = s.pendingHold /\ t.snapMode = s.snapMode
  /\ t.followAck = s.followAck
  /\ \/ /\ s.lease /\ t.leaseGen = s.gen /\ t.pendTraj = 0 /\ t.consumed = s.cmdGen
        /\ t.cur = s.cur /\ t.mode = (IF s.mode = "estop" THEN "hold" ELSE s.mode)
     \/ /\ ~s.lease /\ t.leaseGen = s.leaseGen
        /\ t.consumed = (IF s.mode = "estop" THEN s.cmdGen ELSE s.consumed)
        /\ \/ /\ t.pendTraj = s.pendTraj /\ t.cur = s.cur
              /\ t.mode = (IF s.mode = "estop" THEN "hold" ELSE s.mode)
           \/ /\ s.pendTraj > s.cancel /\ t.pendTraj = 0 /\ t.mode = "brake_gate"
              /\ t.cur = [type |-> "trajectory", gen |-> s.pendTraj, seq |-> 0]

\* All fields but the ones the first half changes before it looks at a trajectory.
SameButEstop(s, t) ==
  /\ t.gen = s.gen /\ t.cancel = s.cancel /\ t.cmdGen = s.cmdGen /\ t.safetyGen = s.safetyGen
  /\ t.heavyGen = s.heavyGen /\ t.lease = s.lease /\ t.leaseGen = s.leaseGen
  /\ t.cmdBuf = s.cmdBuf /\ t.safetyBuf = s.safetyBuf /\ t.heavyBuf = s.heavyBuf
  /\ t.consumedSafety = s.consumedSafety /\ t.appliedCancel = s.appliedCancel
  /\ t.completed = s.completed /\ t.pendingHold = s.pendingHold /\ t.snapMode = s.snapMode
  /\ t.cur = s.cur /\ t.pendTraj = s.pendTraj /\ t.followAck = s.followAck

LEMMA UpdateBeginLemma ==
  ASSUME lc \in ControllerState, UpdateBegin PROVE Begun(lc, lc')
<1>1. PICK still \in BOOLEAN :
        lc' = TakeTrajectory(SampleLease(LeaveEstop(
                [lc EXCEPT !.still = still, !.step = "select"])))
  BY Zenon DEF UpdateBegin
<1> DEFINE a == [lc EXCEPT !.still = still, !.step = "select"]
           d == DrainLegacy(a)
           b == LeaveEstop(a)
           e == SampleLease(b)
<1>2. a \in ControllerState
  BY ZenonT(60) DEF ControllerState
<1>3. SameButEstop(lc, a) /\ a.mode = lc.mode /\ a.consumed = lc.consumed /\ a.step = "select"
  BY ZenonT(60) DEF ControllerState, SameButEstop
<1> HIDE DEF a
<1>4. /\ d \in ControllerState /\ SameButEstop(a, d) /\ d.mode = a.mode
      /\ d.consumed = a.cmdGen /\ d.step = a.step
  <2> DEFINE x == a.cmdGen
  <2>1. x \in Nat
    BY <1>2, Fields
  <2> HIDE DEF x
  <2>2. d = [a EXCEPT !.consumed = x]
    BY DEF DrainLegacy, x
  <2> HIDE DEF d
  <2>3. d \in ControllerState /\ d.consumed = x
    BY <1>2, <2>1, <2>2, ZenonT(60) DEF ControllerState
  <2>4. SameButEstop(a, d) /\ d.mode = a.mode /\ d.step = a.step
    BY <1>2, <2>2, ZenonT(60) DEF ControllerState, SameButEstop
  <2> QED
    BY <2>3, <2>4 DEF x
<1> HIDE DEF d
<1>5. /\ b \in ControllerState /\ SameButEstop(a, b) /\ b.step = a.step
      /\ b.mode = IF a.mode = "estop" THEN "hold" ELSE a.mode
      /\ b.consumed = IF a.mode = "estop" THEN a.cmdGen ELSE a.consumed
  <2> DEFINE h == EnterHold(d)
  <2>1. h \in ControllerState
    BY <1>4, ZenonT(60) DEF EnterHold, ControllerState, Modes
  <2>2. SameButEstop(d, h) /\ h.mode = "hold" /\ h.consumed = d.consumed /\ h.step = d.step
    BY <1>4, ZenonT(60) DEF EnterHold, ControllerState, SameButEstop
  <2>3. b = IF a.mode = "estop" THEN h ELSE a
    BY Zenon DEF LeaveEstop, d
  <2> HIDE DEF h, b
  <2>4. SameButEstop(a, h) /\ SameButEstop(a, a)
    BY <1>4, <2>2, Zenon DEF SameButEstop
  <2> QED
    BY <1>2, <1>4, <2>1, <2>2, <2>3, <2>4
<1> HIDE DEF b
<1>6. /\ e \in ControllerState /\ SameButEstop(b, e) /\ e.mode = b.mode
      /\ e.consumed = b.consumed /\ e.step = b.step
  <2> DEFINE x == b.lease
             y == IF ~b.lease /\ b.leaseRt THEN b.heavyGen ELSE b.consumedHeavy
  <2>1. y \in Nat
    BY <1>5, Fields
  <2>2. x \in BOOLEAN
    BY <1>5, ZenonT(60) DEF ControllerState
  <2>3. e = [b EXCEPT !.leaseRt = x, !.consumedHeavy = y]
    BY DEF SampleLease
  <2> HIDE DEF x, y, e
  <2>4. e \in ControllerState
    BY <1>5, <2>1, <2>2, <2>3, ZenonT(200) DEF ControllerState
  <2>5. SameButEstop(b, e) /\ e.mode = b.mode /\ e.consumed = b.consumed /\ e.step = b.step
    BY <1>5, <2>3, ZenonT(60) DEF ControllerState, SameButEstop
  <2> QED
    BY <2>4, <2>5
<1> HIDE DEF e
<1>7. /\ SameButEstop(lc, e) /\ e.step = "select"
      /\ e.mode = IF lc.mode = "estop" THEN "hold" ELSE lc.mode
      /\ e.consumed = IF lc.mode = "estop" THEN lc.cmdGen ELSE lc.consumed
  BY <1>3, <1>5, <1>6 DEF SameButEstop
<1> DEFINE k == DrainLegacy(e)
           t == [k EXCEPT !.traj = 0, !.pendTraj = 0, !.leaseGen = e.gen]
           n == [NoCommand EXCEPT !.type = "trajectory"]
           g == BeginBrakeGate(e, n)
           u == [type |-> "trajectory", gen |-> e.pendTraj, seq |-> 0]
           w == [g EXCEPT !.traj = e.pendTraj, !.atPoint = FALSE, !.pendTraj = 0, !.cur = u]
<1>8. \/ e.lease /\ lc' = t
      \/ ~e.lease /\ e.pendTraj > e.cancel /\ lc' = w
      \/ ~e.lease /\ lc' = e
  BY <1>1, Zenon DEF TakeTrajectory, a, b, e
<1>9. CASE e.lease /\ lc' = t
  <2> DEFINE x == e.cmdGen
             y == e.gen
  <2>1. x \in Nat /\ y \in Nat
    BY <1>6, Fields
  <2>2. t = [e EXCEPT !.consumed = x, !.traj = 0, !.pendTraj = 0, !.leaseGen = y]
    BY <1>6 DEF DrainLegacy, ControllerState
  <2> HIDE DEF x, y, t
  <2>3. t \in ControllerState
    BY <1>6, <2>1, <2>2, Zeros, ZenonT(200) DEF ControllerState
  <2>4. /\ t.gen = e.gen /\ t.cancel = e.cancel /\ t.cmdGen = e.cmdGen
        /\ t.safetyGen = e.safetyGen /\ t.heavyGen = e.heavyGen /\ t.lease = e.lease
        /\ t.cmdBuf = e.cmdBuf /\ t.safetyBuf = e.safetyBuf /\ t.heavyBuf = e.heavyBuf
        /\ t.consumedSafety = e.consumedSafety /\ t.appliedCancel = e.appliedCancel
        /\ t.completed = e.completed /\ t.pendingHold = e.pendingHold /\ t.snapMode = e.snapMode
        /\ t.cur = e.cur /\ t.mode = e.mode /\ t.step = e.step
        /\ t.consumed = x /\ t.leaseGen = y /\ t.pendTraj = 0 /\ t.followAck = e.followAck
    BY <1>6, <2>2, ZenonT(60) DEF ControllerState
  <2> QED
    BY <1>7, <1>9, <2>3, <2>4 DEF Begun, SameButEstop, x, y
<1>10. CASE ~e.lease /\ e.pendTraj > e.cancel /\ lc' = w
  <2> DEFINE x == e.pendTraj
  <2>1. x \in Nat /\ n \in Commands /\ u \in Commands
    BY <1>6, Fields DEF NoCommand, Commands, Types
  <2> HIDE DEF x, n, u
  <2>2. g \in ControllerState
    BY <1>6, <2>1, Zeros, ZenonT(60) DEF BeginBrakeGate, ControllerState, Modes
  <2>3. SameButEstop(e, g) /\ g.mode = "brake_gate" /\ g.step = e.step /\ g.consumed = e.consumed
    BY <1>6, ZenonT(60) DEF BeginBrakeGate, ControllerState, SameButEstop
  <2> HIDE DEF g
  <2>4. w = [g EXCEPT !.traj = x, !.atPoint = FALSE, !.pendTraj = 0, !.cur = u]
    BY DEF x
  <2> HIDE DEF w
  <2>5. w \in ControllerState
    BY <2>1, <2>2, <2>4, Zeros, ZenonT(200) DEF ControllerState
  <2>6. /\ w.gen = g.gen /\ w.cancel = g.cancel /\ w.cmdGen = g.cmdGen
        /\ w.safetyGen = g.safetyGen /\ w.heavyGen = g.heavyGen /\ w.lease = g.lease
        /\ w.cmdBuf = g.cmdBuf /\ w.safetyBuf = g.safetyBuf /\ w.heavyBuf = g.heavyBuf
        /\ w.consumedSafety = g.consumedSafety /\ w.appliedCancel = g.appliedCancel
        /\ w.completed = g.completed /\ w.pendingHold = g.pendingHold /\ w.snapMode = g.snapMode
        /\ w.mode = g.mode /\ w.step = g.step /\ w.leaseGen = g.leaseGen
        /\ w.consumed = g.consumed /\ w.pendTraj = 0 /\ w.cur = u /\ w.followAck = g.followAck
    BY <2>2, <2>4, ZenonT(60) DEF ControllerState
  <2>7. u = [type |-> "trajectory", gen |-> lc.pendTraj, seq |-> 0]
    BY <1>7 DEF u, SameButEstop
  <2> QED
    BY <1>7, <1>10, <2>3, <2>5, <2>6, <2>7 DEF Begun, SameButEstop
<1>11. CASE ~e.lease /\ lc' = e
  BY <1>6, <1>7, <1>11 DEF Begun, SameButEstop
<1> QED
  BY <1>8, <1>9, <1>10, <1>11

-----------------------------------------------------------------------------
(* The inductive invariant.                                                 *)

SafetyPcs == {"safety_store", "safety_write", "safety_check"}

\* Generations: what was applied was requested, what was consumed was stored,
\* nothing is newer than the counter, and a gateway command that update acts on
\* is not newer than the one in the buffer.
Counters(s) ==
  /\ s.appliedCancel <= s.cancel /\ s.cancel <= s.gen
  /\ s.pendingHold <= s.consumedSafety /\ s.completed <= s.consumedSafety
  /\ s.consumedSafety <= s.safetyGen /\ s.safetyGen <= s.cancel
  /\ s.safetyBuf.gen <= s.safetyGen
  /\ s.cmdBuf.gen <= s.gen /\ s.heavyBuf.gen <= s.gen /\ s.cur.gen <= s.gen
  /\ s.pendTraj <= s.gen /\ s.cmdGen <= s.gen /\ s.leaseGen <= s.gen
  /\ s.cur.seq # 0 => s.cur.gen <= s.heavyBuf.gen

\* Each buffer holds only commands of its kind; only the gateway's have a sequence.
Kinds(s) ==
  /\ s.safetyBuf.gen # 0 => s.safetyBuf.type \in Stops
  /\ s.cmdBuf.type # "trajectory" /\ s.heavyBuf.type # "trajectory"
  /\ s.safetyBuf.type # "trajectory" /\ s.safetyBuf.seq = 0 /\ s.cmdBuf.seq = 0
  /\ s.heavyBuf.gen # 0 => s.heavyBuf.type \in Stops \cup {"stream"}
  /\ s.heavyBuf.gen # 0 \/ s.heavyBuf.type = "stream" => s.heavyBuf.seq # 0

\* Where the callback in progress is: no generation is newer than its own, and a
\* STOP or HOLD in progress has cancelled everything before it.
CallbackAt(s, b) ==
  /\ b.done <= s.safetyBuf.gen
  /\ b.pc # "idle" => b.cmd.gen = s.gen /\ b.cmd.gen # 0
  /\ b.pc = "write_cmd" => b.cmd.type # "trajectory" /\ b.cmd.seq = 0
  /\ b.pc = "write_heavy" => b.cmd.type \in Stops \cup {"stream"} /\ b.cmd.seq # 0
  /\ b.pc \in SafetyPcs \cup {"wait"} =>
       s.cancel = s.gen /\ s.pendTraj = 0 /\ b.cmd.type \in Stops /\ b.cmd.seq = 0
  /\ b.pc \in {"safety_write", "safety_check", "wait"} => s.safetyGen = b.cmd.gen
  /\ b.pc \in {"safety_check", "wait"} => s.safetyBuf.gen = b.cmd.gen

\* A motion is newer than the last STOP or HOLD that was answered, committed or
\* completed, unless update has not taken that one yet.
NewerThanStops(s, b) ==
  s.mode \in Started =>
    /\ b.done <= s.consumedSafety => s.cur.gen > b.done
    /\ \/ s.cur.gen > s.appliedCancel
       \/ s.consumedSafety < s.appliedCancel /\ SafetyNew(s) /\ s.safetyBuf.gen # 0
    /\ s.cur.gen > s.completed

\* What the "already safe" answer reads: between cycles the snapshot shows the
\* motion, and a motion it does not show is stopped by the cycle in progress.
SnapshotTrusted(s, b) ==
  s.mode \in Started =>
    /\ s.step = "idle" => s.snapMode = s.mode
    /\ s.snapMode = "hold" /\ b.pc \in SafetyPcs => s.consumedSafety < b.cmd.gen

HoldConfirmed(s, b) ==
  (b.pc \in SafetyPcs \cup {"wait"} /\ b.cmd.type = "hold" /\ s.completed >= b.cmd.gen)
    => s.mode \notin Started \cup {"soft_stop"}

\* A pending trajectory was not acted on before.
TrajectoryIsNew(s) == s.pendTraj # 0 => ~(s.cur.type = "trajectory" /\ s.cur.gen = s.pendTraj)

StopInv(s, b) ==
  /\ Counters(s) /\ Kinds(s) /\ CallbackAt(s, b)
  /\ NewerThanStops(s, b) /\ SnapshotTrusted(s, b) /\ HoldConfirmed(s, b) /\ TrajectoryIsNew(s)

LEMMA CallbackFields ==
  ASSUME NEW b \in CallbackState
  PROVE  /\ b.cmd \in Commands /\ b.cmd.gen \in Nat /\ b.done \in Nat
         /\ b.cmd.type \in Types /\ b.cmd.seq \in Nat
BY DEF CallbackState, Commands

LEMMA BufferFields ==
  ASSUME NEW s \in ControllerState
  PROVE  /\ s.cmdBuf.gen \in Nat /\ s.safetyBuf.gen \in Nat /\ s.heavyBuf.gen \in Nat
         /\ s.cur.gen \in Nat /\ s.heavyBuf.seq \in Nat
BY Fields, CommandFields

\* The selection, and the motion part after it, keep the invariant.
LEMMA CycleKeeps ==
  ASSUME NEW s \in ControllerState, NEW b \in CallbackState, NEW a, NEW t,
         StopInv(s, b), Chosen(s, a), Cycled(a, t)
  PROVE  StopInv(t, b)
<1> DEFINE c == Buffered(s)
<1>1. /\ t \in ControllerState /\ SameInputs(s, a) /\ SameInputs(s, t) /\ SameInputs(a, t)
      /\ t.snapMode = t.mode /\ ModeStep(a.mode, t.mode)
      /\ t.cur = a.cur /\ t.consumedSafety = a.consumedSafety
      /\ t.appliedCancel = a.appliedCancel /\ t.pendTraj = a.pendTraj
      /\ t.completed = s.completed \/ (t.completed \in {a.pendingHold, 0} /\ t.mode = "hold")
      /\ t.pendingHold \in {a.pendingHold, 0}
      /\ a.consumedSafety = IF SafetyNew(s) THEN s.safetyGen ELSE s.consumedSafety
  BY DEF Chosen, Cycled, SameWait, SameInputs, SameChoice
<1>2. /\ a.pendTraj \in {s.pendTraj, 0}
      /\ a.pendingHold \in {s.pendingHold, 0} \cup (IF SafetyNew(s) THEN {c.gen} ELSE {})
      /\ a.appliedCancel = s.appliedCancel \/ (SafetyNew(s) /\ a.appliedCancel = c.gen)
      /\ a.cur = s.cur \/ (BufferedIsNew(s) /\ a.cur = c)
  BY DEF Chosen
<1>3. /\ c.gen <= s.gen /\ c.type # "trajectory" /\ c.gen \in Nat
      /\ SafetyNew(s) => c = s.safetyBuf
      /\ c.seq # 0 => c = s.heavyBuf
  <2>1. c \in {s.safetyBuf, s.heavyBuf, s.cmdBuf} \/ (c.gen = 0 /\ c = NoCommand)
    BY Zenon DEF Buffered, NoCommand
  <2>2. SafetyNew(s) => c = s.safetyBuf
    BY BufferedType
  <2>3. s.safetyBuf.gen <= s.gen
    BY Fields, BufferFields DEF StopInv, Counters
  <2> QED
    BY <2>1, <2>2, <2>3, Fields, BufferFields, NoCommandType
    DEF StopInv, Counters, Kinds, NoCommand
<1>4. Counters(t)
  BY <1>1, <1>2, <1>3, Fields, BufferFields DEF StopInv, Counters, SameInputs, SafetyNew
<1>5. Kinds(t) /\ CallbackAt(t, b)
  <2>1. b.pc \in SafetyPcs \cup {"wait"} => t.pendTraj = 0
    BY <1>1, <1>2 DEF StopInv, CallbackAt
  <2> QED
    BY <1>1, <2>1 DEF StopInv, Kinds, CallbackAt, SameInputs
<1>6. TrajectoryIsNew(t)
  BY <1>1, <1>2, <1>3 DEF StopInv, TrajectoryIsNew
<1>7. ASSUME t.mode \in Started
      PROVE  /\ a.mode \in Started /\ t.completed = s.completed
             /\ \/ ~BufferedIsNew(s) /\ s.mode \in Started /\ t.cur = s.cur
                     /\ t.appliedCancel = s.appliedCancel
                     /\ (SafetyNew(s) => s.safetyBuf.gen = 0)
                \/ ~SafetyNew(s) /\ t.cur = c /\ c.gen > s.cancel
                     /\ t.appliedCancel = s.appliedCancel
  <2>1. a.mode \in Started /\ t.mode # "hold" /\ a.mode \notin {"hold", "soft_stop"}
    BY <1>1, <1>7 DEF ModeStep, Started, Moving
  <2>2. t.completed = s.completed
    BY <1>1, <2>1
  <2>3. CASE ~BufferedIsNew(s)
    <3>1. a.mode = s.mode /\ a.cur = s.cur /\ a.appliedCancel = s.appliedCancel
      BY <2>3 DEF Chosen
    <3>2. SafetyNew(s) => s.safetyBuf.gen = 0
      BY <1>3, <2>3, BufferedType DEF BufferedIsNew
    <3> QED
      BY <1>1, <2>1, <2>2, <2>3, <3>1, <3>2
  <2>4. CASE BufferedIsNew(s)
    <3>1. c.type \notin Stops /\ a.cur = c /\ a.appliedCancel = s.appliedCancel
      BY <2>1, <2>4 DEF Chosen
    <3>2. ~SafetyNew(s)
      BY <1>3, <2>4, <3>1 DEF BufferedIsNew, StopInv, Kinds
    <3>3. c.gen > s.cancel
      BY <2>4, <3>2, BufferedType DEF BufferedIsNew
    <3> QED
      BY <1>1, <2>1, <2>2, <3>1, <3>2, <3>3
  <2> QED
    BY <2>3, <2>4
<1>8. NewerThanStops(t, b)
  <2> SUFFICES ASSUME t.mode \in Started
               PROVE  /\ b.done <= t.consumedSafety => t.cur.gen > b.done
                      /\ t.cur.gen > t.appliedCancel /\ t.cur.gen > t.completed
    BY DEF NewerThanStops
  <2>1. b.done \in Nat /\ b.done <= s.safetyBuf.gen /\ b.done <= s.cancel
    BY CallbackFields, Fields, BufferFields DEF StopInv, CallbackAt, Counters
  <2>2. CASE ~BufferedIsNew(s) /\ s.mode \in Started /\ t.cur = s.cur
               /\ t.appliedCancel = s.appliedCancel /\ (SafetyNew(s) => s.safetyBuf.gen = 0)
    <3>1. s.cur.gen > s.appliedCancel /\ s.cur.gen > s.completed
      BY <2>2 DEF StopInv, NewerThanStops
    <3>2. b.done <= t.consumedSafety => s.cur.gen > b.done
      <4>1. CASE SafetyNew(s)
        BY <2>1, <2>2, <3>1, <4>1, Fields, BufferFields
      <4>2. CASE ~SafetyNew(s)
        BY <1>1, <2>2, <4>2 DEF StopInv, NewerThanStops
      <4> QED
        BY <4>1, <4>2
    <3> QED
      BY <1>7, <2>2, <3>1, <3>2
  <2>3. CASE ~SafetyNew(s) /\ t.cur = c /\ c.gen > s.cancel /\ t.appliedCancel = s.appliedCancel
    BY <1>3, <1>7, <2>1, <2>3, Fields, BufferFields DEF StopInv, Counters
  <2> QED
    BY <1>7, <2>2, <2>3, Zenon
<1>9. SnapshotTrusted(t, b)
  BY <1>1 DEF SnapshotTrusted, Started, Moving
<1>10. HoldConfirmed(t, b)
  <2> SUFFICES ASSUME b.pc \in SafetyPcs \cup {"wait"}, b.cmd.type = "hold",
                      t.completed >= b.cmd.gen
               PROVE  t.mode \notin Started \cup {"soft_stop"}
    BY DEF HoldConfirmed
  <2>1. CASE t.completed = s.completed
    <3>1. /\ s.mode \notin Started \cup {"soft_stop"}
          /\ s.cancel = s.gen /\ b.cmd.gen = s.gen
      BY <2>1 DEF StopInv, HoldConfirmed, CallbackAt, SafetyPcs
    <3>2. ~SafetyNew(s)
      BY <2>1, <3>1, Fields DEF StopInv, Counters, SafetyNew
    <3>3. ~BufferedIsNew(s)
      BY <1>3, <3>1, <3>2, Fields, BufferedType DEF BufferedIsNew
    <3>4. a.mode = s.mode
      BY <3>3 DEF Chosen
    <3> QED
      BY <1>1, <3>1, <3>4 DEF ModeStep
  <2>2. CASE t.mode = "hold"
    BY <2>2 DEF Started, Moving
  <2> QED
    BY <1>1, <2>1, <2>2
<1> QED
  BY <1>4, <1>5, <1>6, <1>8, <1>9, <1>10 DEF StopInv

\* So does the first half of update.
LEMMA BeginKeeps ==
  ASSUME NEW s \in ControllerState, NEW b \in CallbackState, NEW t,
         StopInv(s, b), Begun(s, t), s.step = "idle"
  PROVE  StopInv(t, b)
<1>1. /\ t \in ControllerState /\ t.step = "select"
      /\ t.gen = s.gen /\ t.cancel = s.cancel /\ t.cmdGen = s.cmdGen /\ t.safetyGen = s.safetyGen
      /\ t.cmdBuf = s.cmdBuf /\ t.safetyBuf = s.safetyBuf /\ t.heavyBuf = s.heavyBuf
      /\ t.consumedSafety = s.consumedSafety /\ t.appliedCancel = s.appliedCancel
      /\ t.completed = s.completed /\ t.pendingHold = s.pendingHold /\ t.snapMode = s.snapMode
      /\ t.leaseGen \in {s.leaseGen, s.gen} /\ t.pendTraj \in {s.pendTraj, 0}
      /\ \/ t.cur = s.cur /\ t.mode = (IF s.mode = "estop" THEN "hold" ELSE s.mode)
         \/ /\ s.pendTraj > s.cancel /\ t.pendTraj = 0 /\ t.mode = "brake_gate"
            /\ t.cur = [type |-> "trajectory", gen |-> s.pendTraj, seq |-> 0]
  BY DEF Begun
<1>2. Counters(t)
  BY <1>1, Fields, BufferFields DEF StopInv, Counters
<1>3. Kinds(t) /\ CallbackAt(t, b)
  BY <1>1 DEF StopInv, Kinds, CallbackAt
<1>4. TrajectoryIsNew(t)
  BY <1>1 DEF StopInv, TrajectoryIsNew
<1>5. ASSUME t.mode \in Started
      PROVE  \/ t.cur = s.cur /\ s.mode \in Started /\ t.mode = s.mode
             \/ t.cur.gen = s.pendTraj /\ s.pendTraj > s.cancel
  BY <1>1, <1>5 DEF Started, Moving
<1>6. NewerThanStops(t, b)
  <2>1. b.done \in Nat /\ b.done <= s.cancel
    BY CallbackFields, Fields, BufferFields DEF StopInv, CallbackAt, Counters
  <2> QED
    BY <1>1, <1>5, <2>1, Fields, BufferFields DEF StopInv, NewerThanStops, Counters, SafetyNew
<1>7. SnapshotTrusted(t, b)
  <2> SUFFICES ASSUME t.mode \in Started, t.snapMode = "hold", b.pc \in SafetyPcs PROVE FALSE
    BY <1>1 DEF SnapshotTrusted
  <2>1. CASE t.cur = s.cur /\ s.mode \in Started /\ t.mode = s.mode
    BY <1>1, <2>1 DEF StopInv, SnapshotTrusted, Started, Moving
  <2>2. CASE s.pendTraj > s.cancel
    BY <2>2, Fields DEF StopInv, CallbackAt
  <2> QED
    BY <1>5, <2>1, <2>2
<1>8. HoldConfirmed(t, b)
  <2> SUFFICES ASSUME b.pc \in SafetyPcs \cup {"wait"}, b.cmd.type = "hold",
                      t.completed >= b.cmd.gen
               PROVE  t.mode \notin Started \cup {"soft_stop"}
    BY DEF HoldConfirmed
  <2>1. s.mode \notin Started \cup {"soft_stop"} /\ s.pendTraj = 0
    BY <1>1 DEF StopInv, HoldConfirmed, CallbackAt, SafetyPcs
  <2>2. ~(s.pendTraj > s.cancel)
    BY <2>1, Fields
  <2> QED
    BY <1>1, <2>1, <2>2 DEF Started, Moving
<1> QED
  BY <1>2, <1>3, <1>4, <1>6, <1>7, <1>8 DEF StopInv

-----------------------------------------------------------------------------
(* The other steps.                                                         *)

SameCommands(s, t) ==
  /\ t.gen = s.gen /\ t.cancel = s.cancel /\ t.cmdGen = s.cmdGen /\ t.safetyGen = s.safetyGen
  /\ t.leaseGen = s.leaseGen /\ t.cmdBuf = s.cmdBuf /\ t.safetyBuf = s.safetyBuf
  /\ t.heavyBuf = s.heavyBuf /\ t.cur = s.cur /\ t.consumedSafety = s.consumedSafety
  /\ t.appliedCancel = s.appliedCancel /\ t.completed = s.completed
  /\ t.pendTraj \in {s.pendTraj, 0} /\ t.pendingHold \in {s.pendingHold, 0}

\* A step that takes no command and starts no motion keeps the invariant.
LEMMA QuietKeeps ==
  ASSUME NEW s \in ControllerState, NEW t \in ControllerState, NEW b \in CallbackState,
         StopInv(s, b), SameCommands(s, t),
         \/ t.mode \notin Started \cup {"soft_stop"}
         \/ t.mode = s.mode /\ t.snapMode = t.mode
         \/ t.mode = s.mode /\ t.snapMode = s.snapMode /\ t.step = s.step
  PROVE  StopInv(t, b)
<1>1. Counters(t)
  BY Fields, BufferFields DEF StopInv, Counters, SameCommands
<1>2. Kinds(t) /\ CallbackAt(t, b)
  BY DEF StopInv, Kinds, CallbackAt, SameCommands
<1>3. TrajectoryIsNew(t)
  BY DEF StopInv, TrajectoryIsNew, SameCommands
<1>4. NewerThanStops(t, b)
  BY DEF StopInv, NewerThanStops, SameCommands, SafetyNew
<1>5. SnapshotTrusted(t, b)
  BY DEF StopInv, SnapshotTrusted, SameCommands, Started, Moving
<1>6. HoldConfirmed(t, b)
  BY DEF StopInv, HoldConfirmed, SameCommands
<1> QED
  BY <1>1, <1>2, <1>3, <1>4, <1>5, <1>6 DEF StopInv

LEMMA UpdateNotFiniteLemma ==
  ASSUME lc \in ControllerState, UpdateNotFinite
  PROVE  lc' \in ControllerState /\ SameCommands(lc, lc') /\ lc'.mode = "fault"
         /\ lc'.leaseGen = lc.leaseGen /\ lc'.lease = lc.lease /\ lc'.consumed = lc.consumed
         /\ lc'.cmdBuf = lc.cmdBuf /\ lc'.pendTraj = lc.pendTraj /\ lc'.followAck = lc.followAck
<1> DEFINE f == EnterFault(lc)
<1>1. Runs(lc, f) /\ f.mode = "fault"
  BY EnterFaultRuns
<1> HIDE DEF f
<1>2. PICK still \in BOOLEAN :
        lc' = WriteInterfaces([f EXCEPT !.rest = lc.rest, !.still = still])
  BY DEF UpdateNotFinite, f
<1> DEFINE g == [f EXCEPT !.rest = lc.rest, !.still = still]
<1>3. f \in ControllerState /\ lc.rest \in BOOLEAN
  BY <1>1 DEF Runs, ControllerState
<1>4. g \in ControllerState
  BY <1>3, ZenonT(60) DEF ControllerState
<1>5. Runs(f, g) /\ g.mode = "fault"
  BY <1>1, <1>3, <1>4, ZenonT(60) DEF Runs, SameInputs, SameChoice, ModeStep, ControllerState
<1> HIDE DEF g
<1>6. Runs(g, lc') /\ lc'.mode = "fault"
  BY <1>2, <1>4, <1>5, WriteInterfacesRuns DEF g
<1>7. Runs(lc, lc')
  BY <1>1, <1>5, <1>6, RunsTrans
<1> QED
  BY <1>6, <1>7 DEF Runs, SameInputs, SameChoice, SameCommands

LEMMA UpdateEstopLemma ==
  ASSUME lc \in ControllerState, UpdateEstop
  PROVE  lc' \in ControllerState /\ SameCommands(lc, lc') /\ lc'.mode = "estop"
         /\ lc'.followAck = lc.followAck
<1> DEFINE d == DrainLegacy(lc)
           n == lc.gen
<1>1. PICK still \in BOOLEAN :
        lc' = WriteInterfaces([d EXCEPT
                !.mode = "estop", !.gatedValid = FALSE, !.traj = 0, !.pendTraj = 0, !.rest = TRUE,
                !.power = FALSE, !.still = still, !.estopGen = n])
  BY DEF UpdateEstop
<1> DEFINE g == [d EXCEPT
                !.mode = "estop", !.gatedValid = FALSE, !.traj = 0, !.pendTraj = 0, !.rest = TRUE,
                !.power = FALSE, !.still = still, !.estopGen = n]
<1>2. lc.cmdGen \in Nat /\ n \in Nat
  BY Fields
<1>3. d \in ControllerState
  BY <1>2, ZenonT(60) DEF ControllerState, DrainLegacy
<1>7. SameCommands(lc, d) /\ d.followAck = lc.followAck
  BY ZenonT(60) DEF ControllerState, SameCommands, DrainLegacy
<1> HIDE DEF d, n
<1>4. g \in ControllerState
  BY <1>2, <1>3, Zeros, ZenonT(200) DEF ControllerState, Modes
<1>5. SameCommands(d, g) /\ g.mode = "estop" /\ g.followAck = d.followAck
  BY <1>3, ZenonT(60) DEF ControllerState, SameCommands
<1> HIDE DEF g
<1>6. Runs(g, lc') /\ lc'.mode = g.mode
  BY <1>1, <1>4, WriteInterfacesRuns DEF g
<1> QED
  BY <1>5, <1>6, <1>7 DEF Runs, SameInputs, SameChoice, SameCommands

LEMMA OnActivateLemma ==
  ASSUME lc \in ControllerState, OnActivate
  PROVE  /\ lc' \in ControllerState /\ lc'.mode = "hold"
         /\ lc'.gen = lc.gen /\ lc'.cancel = lc.gen /\ lc'.appliedCancel = lc.gen
         /\ lc'.cmdGen = lc.cmdGen /\ lc'.consumed = lc.cmdGen
         /\ lc'.safetyGen = lc.safetyGen /\ lc'.consumedSafety = lc.safetyGen
         /\ lc'.pendTraj = 0 /\ lc'.pendingHold = 0 /\ lc'.completed = lc.completed
         /\ lc'.cmdBuf = lc.cmdBuf /\ lc'.safetyBuf = lc.safetyBuf /\ lc'.heavyBuf = lc.heavyBuf
         /\ lc'.cur = lc.cur /\ lc'.leaseGen = lc.leaseGen /\ lc'.lease = lc.lease
<1> DEFINE n == lc.gen
           x == lc.safetyGen
           y == lc.heavyGen
<1>1. PICK still \in BOOLEAN :
        lc' = [DrainLegacy(WriteInterfaces([lc EXCEPT !.still = still])) EXCEPT
                 !.power = FALSE, !.rest = TRUE, !.consumedSafety = x,
                 !.consumedHeavy = y, !.leaseRt = FALSE, !.pendTraj = 0, !.traj = 0,
                 !.gatedValid = FALSE, !.mode = "hold", !.completion = "disable",
                 !.pendingHold = 0, !.cancel = n, !.appliedCancel = n]
  BY DEF OnActivate
<1> DEFINE v == [lc EXCEPT !.still = still]
           w == WriteInterfaces(v)
           d == DrainLegacy(w)
<1>2. v \in ControllerState
  BY ZenonT(60) DEF ControllerState
<1>3. SameInputs(lc, v) /\ SameChoice(lc, v) /\ v.completed = lc.completed
  BY ZenonT(60) DEF ControllerState, SameInputs, SameChoice
<1> HIDE DEF v
<1>4. Runs(v, w)
  BY <1>2, WriteInterfacesRuns
<1> HIDE DEF w
<1>5. w \in ControllerState
  BY <1>4 DEF Runs
<1>6. d \in ControllerState /\ d.consumed = w.cmdGen /\ SameInputs(w, d) /\ d.cur = w.cur
      /\ d.completed = w.completed
  <2> DEFINE m == w.cmdGen
  <2>1. m \in Nat
    BY <1>5, Fields
  <2>2. d = [w EXCEPT !.consumed = m]
    BY DEF DrainLegacy
  <2> HIDE DEF m, d
  <2>3. d \in ControllerState /\ d.consumed = m
    BY <1>5, <2>1, <2>2, ZenonT(60) DEF ControllerState
  <2>4. SameInputs(w, d) /\ d.cur = w.cur /\ d.completed = w.completed
    BY <1>5, <2>2, ZenonT(60) DEF ControllerState, SameInputs
  <2> QED
    BY <2>3, <2>4 DEF m
<1>7. n \in Nat /\ x \in Nat /\ y \in Nat
  BY Fields
<1>8. lc' = [d EXCEPT !.power = FALSE, !.rest = TRUE, !.consumedSafety = x,
                 !.consumedHeavy = y, !.leaseRt = FALSE, !.pendTraj = 0, !.traj = 0,
                 !.gatedValid = FALSE, !.mode = "hold", !.completion = "disable",
                 !.pendingHold = 0, !.cancel = n, !.appliedCancel = n]
  BY <1>1, Zenon DEF d, w, v
<1> HIDE DEF d, n, x, y
<1>9. lc' \in ControllerState
  <2> DEFINE p == [d EXCEPT !.power = FALSE, !.rest = TRUE, !.consumedSafety = x,
                            !.consumedHeavy = y, !.leaseRt = FALSE, !.pendTraj = 0, !.traj = 0]
             q == [p EXCEPT !.gatedValid = FALSE, !.mode = "hold", !.completion = "disable",
                            !.pendingHold = 0, !.cancel = n, !.appliedCancel = n]
  <2>1. d \in ControllerState
    BY <1>6
  <2>2. p \in ControllerState
    BY <1>7, <2>1, Zeros, ZenonT(60) DEF ControllerState
  <2>3. lc' = q
    BY <1>8, Zenon
  <2> HIDE DEF p
  <2>4. q \in ControllerState
    BY <1>7, <2>2, Zeros, ZenonT(60) DEF ControllerState, Modes
  <2> QED
    BY <2>3, <2>4
<1>10. /\ lc'.mode = "hold" /\ lc'.gen = d.gen /\ lc'.cancel = n /\ lc'.appliedCancel = n
       /\ lc'.cmdGen = d.cmdGen /\ lc'.consumed = d.consumed
       /\ lc'.safetyGen = d.safetyGen /\ lc'.consumedSafety = x
       /\ lc'.pendTraj = 0 /\ lc'.pendingHold = 0 /\ lc'.completed = d.completed
  BY <1>6, <1>8, ZenonT(60) DEF ControllerState
<1>11. /\ lc'.cmdBuf = d.cmdBuf /\ lc'.safetyBuf = d.safetyBuf /\ lc'.heavyBuf = d.heavyBuf
       /\ lc'.cur = d.cur /\ lc'.leaseGen = d.leaseGen /\ lc'.lease = d.lease
  BY <1>6, <1>8, ZenonT(60) DEF ControllerState
<1> QED
  BY <1>3, <1>4, <1>6, <1>9, <1>10, <1>11 DEF Runs, SameInputs, SameChoice, n, x

LEMMA OnDeactivateLemma ==
  ASSUME lc \in ControllerState, OnDeactivate
  PROVE  /\ lc' \in ControllerState /\ SameCommands(lc, lc') /\ lc'.mode = lc.mode
         /\ lc'.snapMode = lc'.mode /\ ~lc'.lease /\ lc'.consumed = lc.consumed
         /\ lc'.pendTraj = lc.pendTraj /\ lc'.followAck = lc.followAck
<1> DEFINE y == lc.heavyGen
           v == [lc EXCEPT !.lease = FALSE, !.leaseRt = FALSE, !.consumedHeavy = y,
                           !.power = FALSE, !.rest = TRUE]
<1>1. lc' = WriteInterfaces(v)
  BY DEF OnDeactivate
<1>2. y \in Nat
  BY Fields
<1> HIDE DEF y
<1>3. v \in ControllerState
  BY <1>2, ZenonT(60) DEF ControllerState
<1>4. SameCommands(lc, v) /\ v.mode = lc.mode /\ ~v.lease /\ v.consumed = lc.consumed
      /\ v.pendTraj = lc.pendTraj /\ v.followAck = lc.followAck
  BY ZenonT(60) DEF ControllerState, SameCommands
<1> HIDE DEF v
<1>5. Runs(v, lc') /\ lc'.mode = v.mode /\ lc'.snapMode = v.mode
  BY <1>1, <1>3, WriteInterfacesRuns
<1> QED
  BY <1>4, <1>5 DEF Runs, SameInputs, SameChoice, SameCommands

-----------------------------------------------------------------------------
(* The callbacks.  For each one: what it writes, and that the invariants    *)
(* survive.                                                                 *)

\* A local command that waits in its buffer or as a pending trajectory is one
\* update has dropped, one that a STOP or HOLD has cancelled, or newer than the
\* lease; only the callback that writes the buffer may be behind its generation.
Drained(s, b) ==
  /\ s.cmdBuf.gen = s.consumed \/ s.cmdBuf.gen > s.leaseGen \/ s.cmdBuf.gen <= s.cancel
  /\ s.pendTraj # 0 => s.pendTraj > s.leaseGen
  /\ b.pc # "write_cmd" => s.cmdBuf.gen = s.cmdGen
  /\ b.pc = "write_cmd" => ~s.lease /\ b.cmd.gen > s.leaseGen /\ b.cmd.gen = s.cmdGen

Kept == StopInv(lc', cb') /\ (Drained(lc, cb) => Drained(lc', cb'))

\* What most callbacks leave alone.
Unselected(s, t) ==
  /\ t.mode = s.mode /\ t.snapMode = s.snapMode /\ t.step = s.step /\ t.cur = s.cur
  /\ t.consumed = s.consumed /\ t.consumedSafety = s.consumedSafety
  /\ t.completed = s.completed /\ t.pendingHold = s.pendingHold
  /\ t.leaseGen = s.leaseGen /\ t.followAck = s.followAck

CallbackInv == lc \in ControllerState /\ cb \in CallbackState /\ StopInv(lc, cb)

CallbackDone ==
  lc' \in ControllerState /\ cb' \in CallbackState /\ Unselected(lc, lc') /\ Kept

LEMMA NewCommandType ==
  ASSUME lc \in ControllerState, NEW type \in Types, NEW seq \in Nat
  PROVE  /\ NewCommand(type, seq) \in Commands /\ NewCommand(type, seq).gen = lc.gen + 1
         /\ NewCommand(type, seq).type = type /\ NewCommand(type, seq).seq = seq
<1>1. lc.gen + 1 \in Nat
  BY Fields
<1> QED
  BY <1>1 DEF NewCommand, Commands

LEMMA LegacyCommandKeeps ==
  ASSUME CallbackInv, NEW type \in LegacyTypes, LegacyCommand(type)
  PROVE  CallbackDone
<1> DEFINE n == lc.gen + 1
           c == NewCommand(type, 0)
<1>1. type \in Types /\ type # "trajectory" /\ n \in Nat /\ lc.gen \in Nat
  BY LiftAssumption, Fields DEF LiftAssumption, Types, CallbackInv
<1>2. c \in Commands /\ c.gen = n /\ c.type # "trajectory" /\ c.seq = 0
  BY <1>1, NewCommandType DEF CallbackInv
<1>3. lc' = [lc EXCEPT !.gen = n, !.cmdGen = n] /\ cb' = [cb EXCEPT !.pc = "write_cmd", !.cmd = c]
      /\ cb.pc = "idle" /\ ~lc.lease
  BY Zenon DEF LegacyCommand
<1>4. n > lc.gen
  BY <1>1
<1> HIDE DEF n, c
<1>5. lc' \in ControllerState
  BY <1>1, <1>3, ZenonT(60) DEF ControllerState, CallbackInv
<1>6. /\ lc'.gen = n /\ lc'.cmdGen = n /\ Unselected(lc, lc')
      /\ lc'.cancel = lc.cancel /\ lc'.safetyGen = lc.safetyGen /\ lc'.cmdBuf = lc.cmdBuf
      /\ lc'.safetyBuf = lc.safetyBuf /\ lc'.heavyBuf = lc.heavyBuf /\ lc'.pendTraj = lc.pendTraj
      /\ lc'.appliedCancel = lc.appliedCancel /\ lc'.lease = lc.lease
  BY <1>3, ZenonT(60) DEF ControllerState, CallbackInv, Unselected
<1>7. cb' \in CallbackState /\ cb'.pc = "write_cmd" /\ cb'.cmd = c /\ cb'.done = cb.done
  BY <1>2, <1>3, ZenonT(60) DEF CallbackState, CallbackInv
<1>8. Counters(lc') /\ Kinds(lc')
  BY <1>1, <1>4, <1>6, Fields, BufferFields DEF CallbackInv, StopInv, Counters, Kinds, Unselected
<1>9. CallbackAt(lc', cb') /\ SnapshotTrusted(lc', cb') /\ HoldConfirmed(lc', cb')
  BY <1>1, <1>2, <1>3, <1>4, <1>6, <1>7
  DEF CallbackInv, StopInv, CallbackAt, SnapshotTrusted, HoldConfirmed, Unselected, SafetyPcs
<1>10. NewerThanStops(lc', cb') /\ TrajectoryIsNew(lc')
  BY <1>6, <1>7 DEF CallbackInv, StopInv, NewerThanStops, TrajectoryIsNew, Unselected, SafetyNew
<1>11. Drained(lc, cb) => Drained(lc', cb')
  BY <1>1, <1>2, <1>3, <1>4, <1>6, <1>7, Fields, BufferFields
  DEF CallbackInv, StopInv, Counters, Drained, Unselected
<1> QED
  BY <1>5, <1>6, <1>7, <1>8, <1>9, <1>10, <1>11 DEF CallbackDone, Kept, StopInv

LEMMA WriteCommandKeeps ==
  ASSUME CallbackInv, WriteCommand PROVE CallbackDone
<1> DEFINE c == cb.cmd
<1>1. /\ lc' = [lc EXCEPT !.cmdBuf = c] /\ cb' = [cb EXCEPT !.pc = "idle"]
      /\ cb.pc = "write_cmd"
  BY Zenon DEF WriteCommand
<1>2. /\ c \in Commands /\ c.gen = lc.gen /\ c.gen # 0 /\ c.type # "trajectory" /\ c.seq = 0
      /\ lc.gen \in Nat
  BY <1>1, CallbackFields, Fields DEF CallbackInv, StopInv, CallbackAt
<1> HIDE DEF c
<1>3. lc' \in ControllerState
  BY <1>1, <1>2, ZenonT(200) DEF ControllerState, CallbackInv
<1>4. /\ lc'.gen = lc.gen /\ lc'.cmdGen = lc.cmdGen /\ Unselected(lc, lc')
      /\ lc'.cancel = lc.cancel /\ lc'.safetyGen = lc.safetyGen /\ lc'.cmdBuf = c
      /\ lc'.safetyBuf = lc.safetyBuf /\ lc'.heavyBuf = lc.heavyBuf /\ lc'.pendTraj = lc.pendTraj
      /\ lc'.appliedCancel = lc.appliedCancel /\ lc'.lease = lc.lease
  BY <1>1, ZenonT(60) DEF ControllerState, CallbackInv, Unselected
<1>5. cb' \in CallbackState /\ cb'.pc = "idle" /\ cb'.cmd = cb.cmd /\ cb'.done = cb.done
  BY <1>1, ZenonT(60) DEF CallbackState, CallbackInv
<1>6. Counters(lc') /\ Kinds(lc')
  BY <1>2, <1>4, Fields, BufferFields DEF CallbackInv, StopInv, Counters, Kinds, Unselected
<1>7. CallbackAt(lc', cb') /\ SnapshotTrusted(lc', cb') /\ HoldConfirmed(lc', cb')
  BY <1>4, <1>5
  DEF CallbackInv, StopInv, CallbackAt, SnapshotTrusted, HoldConfirmed, Unselected, SafetyPcs
<1>8. NewerThanStops(lc', cb') /\ TrajectoryIsNew(lc')
  BY <1>4, <1>5 DEF CallbackInv, StopInv, NewerThanStops, TrajectoryIsNew, Unselected, SafetyNew
<1>9. Drained(lc, cb) => Drained(lc', cb')
  BY <1>1, <1>2, <1>4, <1>5 DEF Drained, Unselected, c
<1> QED
  BY <1>3, <1>4, <1>5, <1>6, <1>7, <1>8, <1>9 DEF CallbackDone, Kept, StopInv

LEMMA TrajectoryCommandKeeps ==
  ASSUME CallbackInv, TrajectoryCommand PROVE CallbackDone
<1> DEFINE n == lc.gen + 1
<1>1. n \in Nat /\ lc.gen \in Nat /\ n > lc.gen
  BY Fields DEF CallbackInv
<1>2. lc' = [lc EXCEPT !.gen = n, !.pendTraj = n] /\ cb' = cb /\ cb.pc = "idle"
  BY Zenon DEF TrajectoryCommand
<1> HIDE DEF n
<1>3. lc' \in ControllerState
  BY <1>1, <1>2, ZenonT(60) DEF ControllerState, CallbackInv
<1>4. /\ lc'.gen = n /\ lc'.cmdGen = lc.cmdGen /\ Unselected(lc, lc')
      /\ lc'.cancel = lc.cancel /\ lc'.safetyGen = lc.safetyGen /\ lc'.cmdBuf = lc.cmdBuf
      /\ lc'.safetyBuf = lc.safetyBuf /\ lc'.heavyBuf = lc.heavyBuf /\ lc'.pendTraj = n
      /\ lc'.appliedCancel = lc.appliedCancel /\ lc'.lease = lc.lease
  BY <1>2, ZenonT(60) DEF ControllerState, CallbackInv, Unselected
<1>5. Counters(lc') /\ Kinds(lc')
  BY <1>1, <1>4, Fields, BufferFields DEF CallbackInv, StopInv, Counters, Kinds, Unselected
<1>6. CallbackAt(lc', cb') /\ SnapshotTrusted(lc', cb') /\ HoldConfirmed(lc', cb')
  BY <1>2, <1>4
  DEF CallbackInv, StopInv, CallbackAt, SnapshotTrusted, HoldConfirmed, Unselected, SafetyPcs
<1>7. NewerThanStops(lc', cb')
  BY <1>2, <1>4 DEF CallbackInv, StopInv, NewerThanStops, Unselected, SafetyNew
<1>8. TrajectoryIsNew(lc')
  BY <1>1, <1>4, Fields, BufferFields
  DEF CallbackInv, StopInv, Counters, TrajectoryIsNew, Unselected
<1>9. Drained(lc, cb) => Drained(lc', cb')
  BY <1>1, <1>2, <1>4, Fields DEF CallbackInv, StopInv, Counters, Drained, Unselected
<1> QED
  BY <1>2, <1>3, <1>4, <1>5, <1>6, <1>7, <1>8, <1>9 DEF CallbackDone, CallbackInv, Kept, StopInv

LEMMA HeavyCommandKeeps ==
  ASSUME CallbackInv, NEW seq \in 1 .. MaxSeq, NEW type \in HeavyTypes, HeavyCommand(seq, type)
  PROVE  CallbackDone
<1> DEFINE n == lc.gen + 1
           c == NewCommand(type, seq)
<1>1. /\ type \in Types /\ type \in Stops \cup {"stream"} /\ n \in Nat /\ lc.gen \in Nat
      /\ seq \in Nat /\ seq # 0
  BY LiftAssumption, Fields DEF LiftAssumption, Types, Stops, CallbackInv
<1>2. c \in Commands /\ c.gen = n /\ c.type \in Stops \cup {"stream"} /\ c.seq = seq
  BY <1>1, NewCommandType DEF CallbackInv
<1>3. /\ lc' = [lc EXCEPT !.admitted = seq, !.gen = n, !.heavyGen = n]
      /\ cb' = [cb EXCEPT !.pc = "write_heavy", !.cmd = c] /\ cb.pc = "idle"
  BY Zenon DEF HeavyCommand
<1>4. n > lc.gen
  BY <1>1
<1> HIDE DEF n, c
<1>5. lc' \in ControllerState
  BY <1>1, <1>3, ZenonT(60) DEF ControllerState, CallbackInv
<1>6. /\ lc'.gen = n /\ lc'.cmdGen = lc.cmdGen /\ Unselected(lc, lc')
      /\ lc'.cancel = lc.cancel /\ lc'.safetyGen = lc.safetyGen /\ lc'.cmdBuf = lc.cmdBuf
      /\ lc'.safetyBuf = lc.safetyBuf /\ lc'.heavyBuf = lc.heavyBuf /\ lc'.pendTraj = lc.pendTraj
      /\ lc'.appliedCancel = lc.appliedCancel /\ lc'.lease = lc.lease
  BY <1>3, ZenonT(60) DEF ControllerState, CallbackInv, Unselected
<1>7. cb' \in CallbackState /\ cb'.pc = "write_heavy" /\ cb'.cmd = c /\ cb'.done = cb.done
  BY <1>2, <1>3, ZenonT(60) DEF CallbackState, CallbackInv
<1>8. Counters(lc') /\ Kinds(lc')
  BY <1>1, <1>4, <1>6, Fields, BufferFields DEF CallbackInv, StopInv, Counters, Kinds, Unselected
<1>9. CallbackAt(lc', cb') /\ SnapshotTrusted(lc', cb') /\ HoldConfirmed(lc', cb')
  BY <1>1, <1>2, <1>3, <1>4, <1>6, <1>7
  DEF CallbackInv, StopInv, CallbackAt, SnapshotTrusted, HoldConfirmed, Unselected, SafetyPcs
<1>10. NewerThanStops(lc', cb') /\ TrajectoryIsNew(lc')
  BY <1>6, <1>7 DEF CallbackInv, StopInv, NewerThanStops, TrajectoryIsNew, Unselected, SafetyNew
<1>11. Drained(lc, cb) => Drained(lc', cb')
  BY <1>3, <1>6, <1>7 DEF Drained, Unselected
<1> QED
  BY <1>5, <1>6, <1>7, <1>8, <1>9, <1>10, <1>11 DEF CallbackDone, Kept, StopInv

LEMMA WriteHeavyKeeps ==
  ASSUME CallbackInv, WriteHeavy PROVE CallbackDone
<1> DEFINE c == cb.cmd
<1>1. /\ lc' = [lc EXCEPT !.heavyBuf = c] /\ cb' = [cb EXCEPT !.pc = "idle"]
      /\ cb.pc = "write_heavy"
  BY Zenon DEF WriteHeavy
<1>2. /\ c \in Commands /\ c.gen = lc.gen /\ c.type \in Stops \cup {"stream"} /\ c.seq # 0
      /\ lc.gen \in Nat /\ c.type # "trajectory"
  BY <1>1, CallbackFields, Fields DEF CallbackInv, StopInv, CallbackAt, Stops
<1> HIDE DEF c
<1>3. lc' \in ControllerState
  BY <1>1, <1>2, ZenonT(60) DEF ControllerState, CallbackInv
<1>4. /\ lc'.gen = lc.gen /\ lc'.cmdGen = lc.cmdGen /\ Unselected(lc, lc')
      /\ lc'.cancel = lc.cancel /\ lc'.safetyGen = lc.safetyGen /\ lc'.cmdBuf = lc.cmdBuf
      /\ lc'.safetyBuf = lc.safetyBuf /\ lc'.heavyBuf = c /\ lc'.pendTraj = lc.pendTraj
      /\ lc'.appliedCancel = lc.appliedCancel /\ lc'.lease = lc.lease
  BY <1>1, ZenonT(60) DEF ControllerState, CallbackInv, Unselected
<1>5. cb' \in CallbackState /\ cb'.pc = "idle" /\ cb'.cmd = cb.cmd /\ cb'.done = cb.done
  BY <1>1, ZenonT(60) DEF CallbackState, CallbackInv
<1>6. Counters(lc') /\ Kinds(lc')
  BY <1>2, <1>4, Fields, BufferFields DEF CallbackInv, StopInv, Counters, Kinds, Unselected
<1>7. CallbackAt(lc', cb') /\ SnapshotTrusted(lc', cb') /\ HoldConfirmed(lc', cb')
  BY <1>4, <1>5
  DEF CallbackInv, StopInv, CallbackAt, SnapshotTrusted, HoldConfirmed, Unselected, SafetyPcs
<1>8. NewerThanStops(lc', cb') /\ TrajectoryIsNew(lc')
  BY <1>4, <1>5 DEF CallbackInv, StopInv, NewerThanStops, TrajectoryIsNew, Unselected, SafetyNew
<1>9. Drained(lc, cb) => Drained(lc', cb')
  BY <1>1, <1>4, <1>5 DEF Drained, Unselected
<1> QED
  BY <1>3, <1>4, <1>5, <1>6, <1>7, <1>8, <1>9 DEF CallbackDone, Kept, StopInv

LEMMA FrameKeeps ==
  ASSUME CallbackInv, lc' \in ControllerState, SameCommands(lc, lc'), Unselected(lc, lc'),
         lc'.pendTraj = lc.pendTraj, cb' = cb, cb.pc = "idle"
  PROVE  CallbackDone
<1>1. StopInv(lc', cb)
  BY QuietKeeps DEF CallbackInv, Unselected
<1>2. Drained(lc, cb) => Drained(lc', cb)
  BY DEF Drained, SameCommands, Unselected
<1> QED
  BY <1>1, <1>2 DEF CallbackDone, Kept, CallbackInv

LEMMA HeavyRefusedKeeps ==
  ASSUME CallbackInv, NEW seq \in 1 .. MaxSeq, HeavyRefused(seq) PROVE CallbackDone
<1>1. seq \in Nat
  BY LiftAssumption DEF LiftAssumption
<1>2. lc' = [lc EXCEPT !.admitted = seq] /\ cb' = cb /\ cb.pc = "idle"
  BY Zenon DEF HeavyRefused
<1>3. lc' \in ControllerState
  BY <1>1, <1>2, ZenonT(60) DEF ControllerState, CallbackInv
<1>4. SameCommands(lc, lc') /\ Unselected(lc, lc') /\ lc'.pendTraj = lc.pendTraj
  BY <1>2, ZenonT(60) DEF ControllerState, CallbackInv, SameCommands, Unselected
<1> QED
  BY <1>2, <1>3, <1>4, FrameKeeps

LEMMA GateKeeps ==
  ASSUME CallbackInv, NEW open \in BOOLEAN, Gate(open) PROVE CallbackDone
<1> DEFINE p == [lc EXCEPT !.lease = TRUE]
           q == [lc EXCEPT !.lease = FALSE, !.admitted = 0, !.applied = 0]
<1>1. lc' \in {p, q} /\ cb' = cb /\ cb.pc = "idle"
  BY Zenon DEF Gate
<1>2. p \in ControllerState
  BY ZenonT(60) DEF ControllerState, CallbackInv
<1>3. q \in ControllerState
  BY Zeros, ZenonT(60) DEF ControllerState, CallbackInv
<1>4. SameCommands(lc, p) /\ Unselected(lc, p) /\ p.pendTraj = lc.pendTraj
  BY ZenonT(60) DEF ControllerState, CallbackInv, SameCommands, Unselected
<1>5. SameCommands(lc, q) /\ Unselected(lc, q) /\ q.pendTraj = lc.pendTraj
  BY ZenonT(60) DEF ControllerState, CallbackInv, SameCommands, Unselected
<1> HIDE DEF p, q
<1>6. /\ lc' \in ControllerState /\ SameCommands(lc, lc') /\ Unselected(lc, lc')
      /\ lc'.pendTraj = lc.pendTraj
  BY <1>1, <1>2, <1>3, <1>4, <1>5, Zenon
<1> QED
  BY <1>1, <1>6, FrameKeeps

LEMMA DriverStatusKeeps ==
  ASSUME CallbackInv, NEW d, NEW rezero \in BOOLEAN, DriverStatus(d, rezero) PROVE CallbackDone
<1> DEFINE r == lc.rezero \/ rezero
<1>1. lc' = [lc EXCEPT !.rezero = r] /\ cb' = cb /\ cb.pc = "idle" /\ r \in BOOLEAN
  BY Zenon DEF DriverStatus
<1> HIDE DEF r
<1>2. lc' \in ControllerState
  BY <1>1, ZenonT(60) DEF ControllerState, CallbackInv
<1>3. SameCommands(lc, lc') /\ Unselected(lc, lc') /\ lc'.pendTraj = lc.pendTraj
  BY <1>1, ZenonT(60) DEF ControllerState, CallbackInv, SameCommands, Unselected
<1> QED
  BY <1>1, <1>2, <1>3, FrameKeeps

(* The STOP and HOLD services.                                              *)

LEMMA SafetyRequestKeeps ==
  ASSUME CallbackInv, NEW type \in Services, SafetyRequest(type) PROVE CallbackDone
<1> DEFINE n == lc.gen + 1
           c == NewCommand(type, 0)
<1>1. type \in Types /\ type \in Stops /\ n \in Nat /\ lc.gen \in Nat /\ n # 0
  BY LiftAssumption, Fields DEF LiftAssumption, Types, Stops, CallbackInv
<1>2. c \in Commands /\ c.gen = n /\ c.type \in Stops /\ c.seq = 0
  BY <1>1, NewCommandType DEF CallbackInv
<1>3. /\ lc' = [lc EXCEPT !.gen = n, !.cancel = n, !.pendTraj = 0]
      /\ cb' = [cb EXCEPT !.pc = "safety_store", !.cmd = c, !.reply = "none"] /\ cb.pc = "idle"
  BY Zenon DEF SafetyRequest, EnqueueSafety
<1>4. n > lc.gen
  BY <1>1
<1> HIDE DEF n, c
<1>5. lc' \in ControllerState
  BY <1>1, <1>3, Zeros, ZenonT(60) DEF ControllerState, CallbackInv
<1>6. /\ lc'.gen = n /\ lc'.cmdGen = lc.cmdGen /\ Unselected(lc, lc')
      /\ lc'.cancel = n /\ lc'.safetyGen = lc.safetyGen /\ lc'.cmdBuf = lc.cmdBuf
      /\ lc'.safetyBuf = lc.safetyBuf /\ lc'.heavyBuf = lc.heavyBuf /\ lc'.pendTraj = 0
      /\ lc'.appliedCancel = lc.appliedCancel /\ lc'.lease = lc.lease
  BY <1>3, ZenonT(60) DEF ControllerState, CallbackInv, Unselected
<1>7. cb' \in CallbackState /\ cb'.pc = "safety_store" /\ cb'.cmd = c /\ cb'.done = cb.done
  BY <1>2, <1>3, ZenonT(60) DEF CallbackState, CallbackInv
<1>8. Counters(lc') /\ Kinds(lc')
  BY <1>1, <1>4, <1>6, Fields, BufferFields DEF CallbackInv, StopInv, Counters, Kinds, Unselected
<1>9. CallbackAt(lc', cb')
  BY <1>1, <1>2, <1>6, <1>7 DEF CallbackInv, StopInv, CallbackAt, Unselected, SafetyPcs
<1>10. SnapshotTrusted(lc', cb') /\ HoldConfirmed(lc', cb')
  <2>1. lc.consumedSafety < n /\ lc.completed < n
    BY <1>1, <1>4, Fields DEF CallbackInv, StopInv, Counters
  <2> QED
    BY <1>2, <1>6, <1>7, <2>1, <1>1, Fields
    DEF CallbackInv, StopInv, SnapshotTrusted, HoldConfirmed, Unselected, SafetyPcs
<1>11. NewerThanStops(lc', cb') /\ TrajectoryIsNew(lc')
  BY <1>6, <1>7 DEF CallbackInv, StopInv, NewerThanStops, TrajectoryIsNew, Unselected, SafetyNew
<1>12. Drained(lc, cb) => Drained(lc', cb')
  BY <1>1, <1>3, <1>4, <1>6, <1>7, Fields, BufferFields
  DEF CallbackInv, StopInv, Counters, Drained, Unselected
<1> QED
  BY <1>5, <1>6, <1>7, <1>8, <1>9, <1>10, <1>11, <1>12 DEF CallbackDone, Kept, StopInv

LEMMA SafetyStoreKeeps ==
  ASSUME CallbackInv, SafetyStore PROVE CallbackDone
<1> DEFINE n == cb.cmd.gen
<1>1. /\ lc' = [lc EXCEPT !.safetyGen = n] /\ cb' = [cb EXCEPT !.pc = "safety_write"]
      /\ cb.pc = "safety_store"
  BY Zenon DEF SafetyStore
<1>2. /\ n \in Nat /\ n = lc.gen /\ n # 0 /\ lc.cancel = lc.gen /\ lc.pendTraj = 0
      /\ cb.cmd.type \in Stops
  BY <1>1, CallbackFields, Fields DEF CallbackInv, StopInv, CallbackAt, SafetyPcs
<1> HIDE DEF n
<1>3. lc' \in ControllerState
  BY <1>1, <1>2, ZenonT(200) DEF ControllerState, CallbackInv
<1>4. /\ lc'.gen = lc.gen /\ lc'.cmdGen = lc.cmdGen /\ Unselected(lc, lc')
      /\ lc'.cancel = lc.cancel /\ lc'.safetyGen = n /\ lc'.cmdBuf = lc.cmdBuf
      /\ lc'.safetyBuf = lc.safetyBuf /\ lc'.heavyBuf = lc.heavyBuf /\ lc'.pendTraj = lc.pendTraj
      /\ lc'.appliedCancel = lc.appliedCancel /\ lc'.lease = lc.lease
  BY <1>1, ZenonT(60) DEF ControllerState, CallbackInv, Unselected
<1>5. cb' \in CallbackState /\ cb'.pc = "safety_write" /\ cb'.cmd = cb.cmd /\ cb'.done = cb.done
  BY <1>1, ZenonT(60) DEF CallbackState, CallbackInv
<1>6. Counters(lc') /\ Kinds(lc')
  BY <1>2, <1>4, Fields, BufferFields DEF CallbackInv, StopInv, Counters, Kinds, Unselected
<1>7. CallbackAt(lc', cb') /\ SnapshotTrusted(lc', cb') /\ HoldConfirmed(lc', cb')
  BY <1>1, <1>2, <1>4, <1>5
  DEF CallbackInv, StopInv, CallbackAt, SnapshotTrusted, HoldConfirmed, Unselected, SafetyPcs, n
<1>8. NewerThanStops(lc', cb')
  BY <1>2, <1>4, <1>5, Fields
  DEF CallbackInv, StopInv, Counters, NewerThanStops, Unselected, SafetyNew
<1>9. TrajectoryIsNew(lc') /\ (Drained(lc, cb) => Drained(lc', cb'))
  BY <1>1, <1>4, <1>5 DEF CallbackInv, StopInv, TrajectoryIsNew, Drained, Unselected
<1> QED
  BY <1>3, <1>4, <1>5, <1>6, <1>7, <1>8, <1>9 DEF CallbackDone, Kept, StopInv

LEMMA SafetyWriteKeeps ==
  ASSUME CallbackInv, SafetyWrite PROVE CallbackDone
<1> DEFINE c == cb.cmd
<1>1. /\ lc' = [lc EXCEPT !.safetyBuf = c] /\ cb' = [cb EXCEPT !.pc = "safety_check"]
      /\ cb.pc = "safety_write"
  BY Zenon DEF SafetyWrite
<1>2. /\ c \in Commands /\ c.gen = lc.gen /\ c.gen # 0 /\ c.type \in Stops /\ c.seq = 0
      /\ lc.safetyGen = c.gen /\ lc.gen \in Nat
  BY <1>1, CallbackFields, Fields DEF CallbackInv, StopInv, CallbackAt, SafetyPcs
<1> HIDE DEF c
<1>3. lc' \in ControllerState
  BY <1>1, <1>2, ZenonT(200) DEF ControllerState, CallbackInv
<1>4. /\ lc'.gen = lc.gen /\ lc'.cmdGen = lc.cmdGen /\ Unselected(lc, lc')
      /\ lc'.cancel = lc.cancel /\ lc'.safetyGen = lc.safetyGen /\ lc'.cmdBuf = lc.cmdBuf
      /\ lc'.safetyBuf = c /\ lc'.heavyBuf = lc.heavyBuf /\ lc'.pendTraj = lc.pendTraj
      /\ lc'.appliedCancel = lc.appliedCancel /\ lc'.lease = lc.lease
  BY <1>1, ZenonT(60) DEF ControllerState, CallbackInv, Unselected
<1>5. cb' \in CallbackState /\ cb'.pc = "safety_check" /\ cb'.cmd = cb.cmd /\ cb'.done = cb.done
  BY <1>1, ZenonT(60) DEF CallbackState, CallbackInv
<1>6. Counters(lc') /\ Kinds(lc')
  BY <1>2, <1>4, Fields, BufferFields DEF CallbackInv, StopInv, Counters, Kinds, Unselected, Stops
<1>7. CallbackAt(lc', cb')
  <2>1. cb.done <= c.gen
    BY <1>2, CallbackFields, BufferFields, Fields DEF CallbackInv, StopInv, Counters, CallbackAt
  <2> QED
    BY <1>1, <1>2, <1>4, <1>5, <2>1 DEF CallbackInv, StopInv, CallbackAt, SafetyPcs, c
<1>8. SnapshotTrusted(lc', cb') /\ HoldConfirmed(lc', cb')
  BY <1>1, <1>4, <1>5
  DEF CallbackInv, StopInv, SnapshotTrusted, HoldConfirmed, Unselected, SafetyPcs
<1>9. NewerThanStops(lc', cb')
  BY <1>2, <1>4, <1>5 DEF CallbackInv, StopInv, NewerThanStops, Unselected, SafetyNew
<1>10. TrajectoryIsNew(lc') /\ (Drained(lc, cb) => Drained(lc', cb'))
  BY <1>1, <1>4, <1>5 DEF CallbackInv, StopInv, TrajectoryIsNew, Drained, Unselected
<1> QED
  BY <1>3, <1>4, <1>5, <1>6, <1>7, <1>8, <1>9, <1>10 DEF CallbackDone, Kept, StopInv

\* What an answer leaves behind: nothing of the controller changes, and the
\* generation it vouches for, if any, is that of the command.
Answered(b) == cb' \in CallbackState /\ cb'.pc = "idle" /\ cb'.cmd = cb.cmd /\ cb'.done = b

LEMMA AnswerLemma ==
  ASSUME CallbackInv, NEW reply \in {"inactive", "idempotent", "committed", "confirmed", "failed",
                                     "timeout"},
         NEW done \in BOOLEAN, Answer(reply, done)
  PROVE  Answered(IF done THEN cb.cmd.gen ELSE cb.done)
<1> DEFINE n == IF done THEN cb.cmd.gen ELSE cb.done
<1>1. n \in Nat
  BY CallbackFields DEF CallbackInv
<1>2. cb' = [cb EXCEPT !.pc = "idle", !.reply = reply, !.done = n]
  BY Zenon DEF Answer
<1> HIDE DEF n
<1>3. cb' \in CallbackState
  BY <1>1, <1>2, ZenonT(60) DEF CallbackState, CallbackInv
<1>4. cb'.pc = "idle" /\ cb'.cmd = cb.cmd /\ cb'.done = n
  BY <1>2, ZenonT(60) DEF CallbackState, CallbackInv
<1> QED
  BY <1>3, <1>4 DEF Answered, n

\* An answer of failure, and a success for a generation that no motion is older
\* than, keep the invariant.
LEMMA AnswerKeeps ==
  ASSUME CallbackInv, NEW n \in Nat, Answered(n), UNCHANGED lc, n <= lc.safetyBuf.gen,
         cb.pc # "write_cmd",
         lc.mode \in Started => (n <= lc.consumedSafety => lc.cur.gen > n)
  PROVE  CallbackDone
<1>1. CallbackAt(lc, cb') /\ SnapshotTrusted(lc, cb') /\ HoldConfirmed(lc, cb')
  BY DEF CallbackInv, StopInv, CallbackAt, SnapshotTrusted, HoldConfirmed, Answered, SafetyPcs
<1>2. NewerThanStops(lc, cb')
  BY DEF CallbackInv, StopInv, NewerThanStops, Answered
<1>3. Drained(lc, cb) => Drained(lc, cb')
  BY DEF Drained, Answered
<1>4. Unselected(lc, lc)
  BY DEF Unselected
<1> QED
  BY <1>1, <1>2, <1>3, <1>4, Zenon DEF CallbackDone, CallbackInv, Kept, StopInv, Answered

LEMMA FailureKeeps ==
  ASSUME CallbackInv, Answered(cb.done), UNCHANGED lc, cb.pc # "write_cmd" PROVE CallbackDone
<1>1. /\ cb.done \in Nat /\ cb.done <= lc.safetyBuf.gen
      /\ lc.mode \in Started => (cb.done <= lc.consumedSafety => lc.cur.gen > cb.done)
  BY CallbackFields DEF CallbackInv, StopInv, CallbackAt, NewerThanStops
<1> QED
  BY <1>1, AnswerKeeps

LEMMA SafetyCheckKeeps ==
  ASSUME CallbackInv, SafetyCheck PROVE CallbackDone
<1>1. /\ cb.pc = "safety_check"
      /\ cb.cmd.gen \in Nat /\ cb.cmd.gen = lc.gen /\ cb.cmd.gen # 0
      /\ lc.cancel = lc.gen /\ lc.safetyGen = lc.gen /\ lc.safetyBuf.gen = lc.gen
      /\ lc.pendTraj = 0 /\ cb.cmd.type \in Stops
  BY CallbackFields DEF CallbackInv, StopInv, CallbackAt, SafetyCheck, SafetyPcs
<1>2. CASE Answer("inactive", FALSE) /\ UNCHANGED lc
  BY <1>1, <1>2, AnswerLemma, FailureKeeps
<1>3. CASE AlreadySafe /\ Answer("idempotent", TRUE) /\ lc' = [lc EXCEPT !.appliedCancel = cb.cmd.gen]
  <2> DEFINE n == cb.cmd.gen
  <2>1. n \in Nat /\ n = lc.gen /\ n # 0
    BY <1>1
  <2>2. Answered(n)
    BY <1>3, AnswerLemma
  <2>3. lc' = [lc EXCEPT !.appliedCancel = n]
    BY <1>3
  <2> HIDE DEF n
  <2>4. lc' \in ControllerState
    BY <2>1, <2>3, ZenonT(60) DEF ControllerState, CallbackInv
  <2>5. /\ lc'.gen = lc.gen /\ lc'.cmdGen = lc.cmdGen /\ Unselected(lc, lc')
        /\ lc'.cancel = lc.cancel /\ lc'.safetyGen = lc.safetyGen /\ lc'.cmdBuf = lc.cmdBuf
        /\ lc'.safetyBuf = lc.safetyBuf /\ lc'.heavyBuf = lc.heavyBuf
        /\ lc'.pendTraj = lc.pendTraj /\ lc'.appliedCancel = n /\ lc'.lease = lc.lease
    BY <2>3, ZenonT(60) DEF ControllerState, CallbackInv, Unselected
  <2>6. Counters(lc') /\ Kinds(lc')
    BY <1>1, <2>1, <2>5, Fields, BufferFields
    DEF CallbackInv, StopInv, Counters, Kinds, Unselected
  <2>7. CallbackAt(lc', cb') /\ SnapshotTrusted(lc', cb') /\ HoldConfirmed(lc', cb')
    BY <1>1, <2>1, <2>2, <2>5
    DEF CallbackInv, StopInv, CallbackAt, SnapshotTrusted, HoldConfirmed, Unselected, SafetyPcs,
        Answered
  <2>8. lc.mode \in Started => lc.consumedSafety < n
    BY <1>1, <1>3 DEF AlreadySafe, HoldSnapshotIsSafe, CallbackInv, StopInv, SnapshotTrusted,
                      SafetyPcs, n
  <2>9. NewerThanStops(lc', cb')
    BY <1>1, <2>1, <2>2, <2>5, <2>8, Fields
    DEF CallbackInv, StopInv, NewerThanStops, Unselected, SafetyNew, Answered
  <2>10. TrajectoryIsNew(lc') /\ (Drained(lc, cb) => Drained(lc', cb'))
    BY <1>1, <2>2, <2>5 DEF CallbackInv, StopInv, TrajectoryIsNew, Drained, Unselected, Answered
  <2> QED
    BY <2>2, <2>4, <2>5, <2>6, <2>7, <2>9, <2>10 DEF CallbackDone, Kept, StopInv, Answered
<1>4. CASE cb' = [cb EXCEPT !.pc = "wait"] /\ UNCHANGED lc
  <2>1. cb' \in CallbackState /\ cb'.pc = "wait" /\ cb'.cmd = cb.cmd /\ cb'.done = cb.done
    BY <1>4, ZenonT(60) DEF CallbackState, CallbackInv
  <2>2. CallbackAt(lc, cb') /\ SnapshotTrusted(lc, cb') /\ HoldConfirmed(lc, cb')
    BY <1>1, <2>1
    DEF CallbackInv, StopInv, CallbackAt, SnapshotTrusted, HoldConfirmed, SafetyPcs
  <2>3. NewerThanStops(lc, cb') /\ (Drained(lc, cb) => Drained(lc, cb')) /\ Unselected(lc, lc)
    BY <1>1, <2>1 DEF CallbackInv, StopInv, NewerThanStops, Drained, Unselected
  <2> QED
    BY <1>4, <2>1, <2>2, <2>3, Zenon DEF CallbackDone, CallbackInv, Kept, StopInv
<1> QED
  BY <1>2, <1>3, <1>4 DEF SafetyCheck

LEMMA SafetyAnswerKeeps ==
  ASSUME CallbackInv, SafetyAnswer PROVE CallbackDone
<1> DEFINE n == cb.cmd.gen
<1>1. /\ cb.pc = "wait" /\ UNCHANGED lc /\ n \in Nat /\ n = lc.gen /\ n # 0
      /\ lc.cancel = lc.gen /\ lc.safetyGen = lc.gen /\ lc.safetyBuf.gen = lc.gen
  BY CallbackFields DEF CallbackInv, StopInv, CallbackAt, SafetyAnswer, SafetyPcs
<1>2. CASE lc.appliedCancel >= n /\ Answer("committed", TRUE)
  <2>1. Answered(n)
    BY <1>2, AnswerLemma
  <2>2. lc.mode \in Started => (n <= lc.consumedSafety => lc.cur.gen > n)
    BY <1>1, <1>2, Fields, BufferFields DEF CallbackInv, StopInv, Counters, NewerThanStops
  <2> QED
    BY <1>1, <2>1, <2>2, AnswerKeeps
<1>3. CASE cb.cmd.type = "hold" /\ lc.completed >= n /\ Answer("confirmed", TRUE)
  <2>1. Answered(n)
    BY <1>3, AnswerLemma
  <2>2. lc.mode \notin Started
    BY <1>1, <1>3 DEF CallbackInv, StopInv, HoldConfirmed
  <2> QED
    BY <1>1, <2>1, <2>2, AnswerKeeps
<1>4. CASE Answer("failed", FALSE)
  BY <1>1, <1>4, AnswerLemma, FailureKeeps
<1> QED
  BY <1>2, <1>3, <1>4 DEF SafetyAnswer

LEMMA SafetyTimeoutKeeps ==
  ASSUME CallbackInv, SafetyTimeout PROVE CallbackDone
BY AnswerLemma, FailureKeeps DEF SafetyTimeout

LEMMA CallbackKeeps ==
  ASSUME CallbackInv, Callback PROVE CallbackDone
<1>1. \A d \in DriverReports, rezero \in {FALSE, MayRezero} : DriverStatus(d, rezero) => CallbackDone
  BY LiftAssumption, DriverStatusKeeps DEF LiftAssumption
<1> QED
  BY <1>1, LegacyCommandKeeps, WriteCommandKeeps, TrajectoryCommandKeeps, HeavyCommandKeeps,
     HeavyRefusedKeeps, WriteHeavyKeeps, GateKeeps, SafetyRequestKeeps, SafetyStoreKeeps,
     SafetyWriteKeeps, SafetyCheckKeeps, SafetyAnswerKeeps, SafetyTimeoutKeeps, ZenonT(60)
  DEF Callback

-----------------------------------------------------------------------------
(* The theorems.                                                            *)

CommandInv == TypeOK /\ StopInv(lc, cb)

LEMMA CommandInit == ASSUME Init PROVE CommandInv /\ Drained(lc, cb)
<1>1. lc \in ControllerState
  BY NoCommandType, Zeros DEF Init, ControllerState, Modes
<1>2. cb \in CallbackState /\ cb.pc = "idle" /\ cb.done = 0
  BY NoCommandType, Zeros DEF Init, CallbackState
<1>3. /\ lc.mode = "hold" /\ lc.gen = 0 /\ lc.cancel = 0 /\ lc.appliedCancel = 0
      /\ lc.pendingHold = 0 /\ lc.completed = 0 /\ lc.consumedSafety = 0 /\ lc.safetyGen = 0
      /\ lc.cmdGen = 0 /\ lc.leaseGen = 0 /\ lc.pendTraj = 0 /\ lc.consumed = 0
      /\ lc.cmdBuf = NoCommand /\ lc.safetyBuf = NoCommand /\ lc.heavyBuf = NoCommand
      /\ lc.cur = NoCommand
  BY Zenon DEF Init
<1>4. Counters(lc) /\ Kinds(lc) /\ CallbackAt(lc, cb)
  BY <1>2, <1>3, NoCommandType DEF Counters, Kinds, CallbackAt, SafetyPcs, NoCommand
<1>5. StopInv(lc, cb)
  BY <1>2, <1>3, <1>4
  DEF StopInv, NewerThanStops, SnapshotTrusted, HoldConfirmed, TrajectoryIsNew, Started, Moving,
      SafetyPcs
<1>6. TypeOK
  BY <1>1, <1>2 DEF Init, TypeOK
<1> QED
  BY <1>2, <1>3, <1>5, <1>6, NoCommandType DEF CommandInv, Drained

\* The driver status and the lifecycle state keep their types.
LEMMA StatusType ==
  ASSUME TypeOK, [Next]_vars
  PROVE  drv' \in [ready : BOOLEAN, estop : BOOLEAN, blocked : BOOLEAN] /\ active' \in BOOLEAN
<1>1. ASSUME NEW d \in DriverReports, NEW rezero, DriverStatus(d, rezero)
      PROVE  drv' \in [ready : BOOLEAN, estop : BOOLEAN, blocked : BOOLEAN] /\ active' \in BOOLEAN
  BY <1>1, LiftAssumption DEF DriverStatus, DriverReports, LiftAssumption, TypeOK
<1>2. CASE GateChange
  BY <1>2 DEF GateChange, TypeOK
<1>3. CASE OnActivate \/ OnDeactivate
  BY <1>3 DEF OnActivate, OnDeactivate, TypeOK
<1>4. CASE drv' = drv /\ active' = active
  BY <1>4 DEF TypeOK
<1>5. CASE Update \/ UNCHANGED vars
  BY <1>4, <1>5, Zenon DEF Update, UpdateNotFinite, UpdateEstop, UpdateBegin, UpdateEnd, vars
<1>6. CASE Callback
  BY <1>1, <1>4, <1>6, ZenonT(60)
  DEF Callback, LegacyCommand, WriteCommand, TrajectoryCommand, HeavyCommand, HeavyRefused,
      WriteHeavy, Gate, SafetyRequest, SafetyStore, SafetyWrite, SafetyCheck, SafetyAnswer,
      SafetyTimeout
<1> QED
  BY <1>2, <1>3, <1>5, <1>6 DEF Next

LEMMA ActivateKeeps ==
  ASSUME CommandInv, OnActivate
  PROVE  StopInv(lc', cb) /\ (Drained(lc, cb) => Drained(lc', cb))
<1>1. Counters(lc')
  BY OnActivateLemma, Fields, BufferFields DEF CommandInv, TypeOK, StopInv, Counters
<1>2. Kinds(lc')
  BY OnActivateLemma DEF CommandInv, TypeOK, StopInv, Kinds
<1>3. CallbackAt(lc', cb)
  BY OnActivateLemma DEF CommandInv, TypeOK, StopInv, CallbackAt
<1>4. /\ NewerThanStops(lc', cb) /\ SnapshotTrusted(lc', cb) /\ HoldConfirmed(lc', cb)
      /\ TrajectoryIsNew(lc')
  BY OnActivateLemma
  DEF CommandInv, TypeOK, NewerThanStops, SnapshotTrusted, HoldConfirmed, TrajectoryIsNew,
      Started, Moving
<1>5. Drained(lc, cb) => Drained(lc', cb)
  BY OnActivateLemma, Fields, BufferFields DEF CommandInv, TypeOK, StopInv, Counters, Drained
<1> QED
  BY <1>1, <1>2, <1>3, <1>4, <1>5 DEF StopInv

LEMMA CommandStep == ASSUME CommandInv, [Next]_vars PROVE CommandInv'
<1>1. lc \in ControllerState /\ cb \in CallbackState /\ StopInv(lc, cb) /\ CallbackInv
  BY DEF CommandInv, TypeOK, CallbackInv
<1>2. SUFFICES lc' \in ControllerState /\ cb' \in CallbackState /\ StopInv(lc', cb')
  BY StatusType DEF CommandInv, TypeOK
<1>3. CASE Callback
  BY <1>1, <1>3, CallbackKeeps DEF CallbackDone, Kept
<1>4. CASE UpdateNotFinite
  <2>1. cb' = cb
    BY <1>4 DEF UpdateNotFinite
  <2> QED
    BY <1>1, <1>4, <2>1, UpdateNotFiniteLemma, QuietKeeps DEF Started, Moving
<1>5. CASE UpdateEstop
  <2>1. cb' = cb
    BY <1>5 DEF UpdateEstop
  <2> QED
    BY <1>1, <1>5, <2>1, UpdateEstopLemma, QuietKeeps DEF Started, Moving
<1>6. CASE UpdateBegin
  <2>1. cb' = cb /\ lc.step = "idle"
    BY <1>6 DEF UpdateBegin
  <2>2. Begun(lc, lc')
    BY <1>1, <1>6, UpdateBeginLemma
  <2> QED
    BY <1>1, <2>1, <2>2, BeginKeeps DEF Begun
<1>7. ASSUME NEW settled, NEW elapsed, NEW last \in BOOLEAN, NEW o,
             UpdateEnd(settled, elapsed, last, o)
      PROVE  lc' \in ControllerState /\ cb' \in CallbackState /\ StopInv(lc', cb')
  <2>1. cb' = cb
    BY <1>7, Zenon DEF UpdateEnd
  <2>2. Chosen(lc, Act(lc, GateReady)) /\ Cycled(Act(lc, GateReady), lc')
    BY <1>1, <1>7, UpdateEndLemma
  <2>3. lc' \in ControllerState
    BY <2>2 DEF Cycled
  <2> QED
    BY <1>1, <2>1, <2>2, <2>3, CycleKeeps
<1>8. CASE OnActivate
  <2>1. cb' = cb
    BY <1>8 DEF OnActivate
  <2> QED
    BY <1>1, <1>8, <2>1, OnActivateLemma, ActivateKeeps
<1>9. CASE OnDeactivate
  <2>1. cb' = cb
    BY <1>9 DEF OnDeactivate
  <2> QED
    BY <1>1, <1>9, <2>1, OnDeactivateLemma, QuietKeeps
<1>10. CASE GateChange \/ UNCHANGED vars
  BY <1>1, <1>10 DEF GateChange, vars
<1> QED
  BY <1>3, <1>4, <1>5, <1>6, <1>7, <1>8, <1>9, <1>10, Zenon DEF Next, Update

\* Every field of the controller, of the callback in progress and of the driver
\* status keeps its type, for every set of command sources (lift_controller.cpp).
THEOREM ControllerTypes == Spec => []TypeOK
<1>1. Init => CommandInv
  BY CommandInit
<1>2. CommandInv /\ [Next]_vars => CommandInv'
  BY CommandStep
<1>3. CommandInv => TypeOK
  BY DEF CommandInv
<1> QED
  BY <1>1, <1>2, <1>3, PTL DEF Spec

\* After a STOP or HOLD service was answered with success, and once update has
\* taken it, no motion commanded before it is running or waiting at the brake
\* gate, in whatever order the callback's stores and update's reads happened
\* (enqueue_safety_command and update, lift_controller.cpp).
THEOREM StopsAreFinal == Spec => []StopIsFinal
<1>1. Init => CommandInv
  BY CommandInit
<1>2. CommandInv /\ [Next]_vars => CommandInv'
  BY CommandStep
<1>3. CommandInv => StopIsFinal
  BY DEF CommandInv, StopInv, NewerThanStops, StopIsFinal
<1> QED
  BY <1>1, <1>2, <1>3, PTL DEF Spec

\* While the HOLD service can answer "confirmed", no motion runs, waits or
\* brakes: completed_hold_generation_ reaches the request only in hold, and no
\* newer command is acted on before the answer (confirm_pending_hold).
THEOREM ConfirmedHoldsHold == Spec => []HoldConfirmedMeansHold
<1>1. Init => CommandInv
  BY CommandInit
<1>2. CommandInv /\ [Next]_vars => CommandInv'
  BY CommandStep
<1>3. CommandInv => HoldConfirmedMeansHold
  BY DEF CommandInv, StopInv, HoldConfirmed, HoldConfirmedMeansHold
<1> QED
  BY <1>1, <1>2, <1>3, PTL DEF Spec

\* Only the second half of update ends a cycle.
LEMMA CycleEnd ==
  ASSUME CommandInv, [Next]_vars, lc.step = "select", lc'.step = "idle"
  PROVE  /\ Chosen(lc, Act(lc, GateReady)) /\ Cycled(Act(lc, GateReady), lc')
         /\ FollowEnds(lc, lc')
<1>1. CASE Callback
  <2>1. lc'.step = lc.step
    BY <1>1, CallbackKeeps DEF CommandInv, TypeOK, CallbackInv, CallbackDone, Unselected
  <2> QED
    BY <2>1
<1>2. CASE UpdateNotFinite \/ UpdateEstop \/ UpdateBegin \/ OnActivate \/ OnDeactivate
  BY <1>2, Zenon DEF UpdateNotFinite, UpdateEstop, UpdateBegin, OnActivate, OnDeactivate
<1>3. CASE GateChange \/ UNCHANGED vars
  BY <1>3, Zenon DEF GateChange, vars
<1>4. ASSUME NEW settled, NEW elapsed, NEW last \in BOOLEAN, NEW o,
             UpdateEnd(settled, elapsed, last, o)
      PROVE  /\ Chosen(lc, Act(lc, GateReady)) /\ Cycled(Act(lc, GateReady), lc')
             /\ FollowEnds(lc, lc')
  BY <1>4, UpdateEndLemma DEF CommandInv, TypeOK
<1> QED
  BY <1>1, <1>2, <1>3, <1>4, Zenon DEF Next, Update

(* Which FOLLOW an acknowledgement belongs to.                               *)

\* A sample of the gateway that is acted on and that no STOP or HOLD service has
\* cancelled.
Executes(s) == s.cur.seq # 0 /\ s.cur.gen > s.cancel

\* While such a sample runs or waits at the brake gate, no other FOLLOW waits.
FollowMatches(s) ==
  (s.mode \in Started /\ Executes(s) /\ s.followAck # 0) => s.followAck = s.cur.seq

FollowInv == CommandInv /\ FollowMatches(lc)

\* A cycle that ends in a motion for such a sample was waiting for that FOLLOW,
\* if for any: the sample was selected in this cycle, or it is the newest one in
\* the buffer and nothing was read.
LEMMA CycleAwaits ==
  ASSUME FollowInv, NEW a, NEW t, Chosen(lc, a), Cycled(a, t),
         t.mode \in Started, Executes(t), Waiting(lc) # 0
  PROVE  Waiting(lc) = t.cur.seq
<1> DEFINE c == Buffered(lc)
<1>1. lc \in ControllerState /\ Kinds(lc) /\ Counters(lc) /\ FollowMatches(lc)
  BY DEF FollowInv, CommandInv, TypeOK, StopInv
<1>2. /\ a.mode \in Started /\ t.cur = a.cur /\ t.cancel = lc.cancel
      /\ a.mode \notin {"hold", "soft_stop"}
  BY DEF Chosen, Cycled, SameWait, SameInputs, SameChoice, ModeStep, Started, Moving
<1>3. CASE BufferedIsNew(lc)
  <2>1. c.type \notin Stops /\ a.cur = c /\ c.gen # 0
    BY <1>2, <1>3 DEF Chosen, BufferedIsNew
  <2>2. c.seq # 0
    BY <1>2, <2>1 DEF Executes
  <2>3. Source(lc) = "heavy" /\ c = lc.heavyBuf
    BY <1>1, <2>1, <2>2, BufferedType DEF Kinds
  <2>4. HeavyNew(lc) /\ c.type = "stream"
    BY <1>1, <2>1, <2>3, Zenon DEF Source, Kinds
  <2> QED
    BY <1>2, <2>1, <2>2, <2>3, <2>4 DEF Waiting, Awaited
<1>4. CASE ~BufferedIsNew(lc)
  <2>1. a.mode = lc.mode /\ a.cur = lc.cur
    BY <1>4 DEF Chosen
  <2>2. lc.mode \in Started /\ Executes(lc) /\ t.cur = lc.cur
    BY <1>2, <2>1 DEF Executes
  <2>3. ~HeavyNew(lc)
    <3> SUFFICES ASSUME HeavyNew(lc) PROVE FALSE
      OBVIOUS
    <3>1. Source(lc) = "heavy"
      BY Zenon DEF Source, HeavyNew
    <3>2. c = lc.heavyBuf
      BY <1>1, <3>1, BufferedType
    <3>3. ~(lc.heavyBuf.gen > lc.cancel) \/ lc.heavyBuf.gen = 0
      BY <1>4, <3>1, <3>2, Zenon DEF BufferedIsNew
    <3> QED
      BY <1>1, <2>2, <3>3, Fields, BufferFields DEF Executes, Counters
  <2> QED
    BY <1>1, <2>2, <2>3 DEF Waiting, Awaited, FollowMatches
<1> QED
  BY <1>3, <1>4

\* A callback selects nothing, and cancels at most more.
LEMMA CallbackMatches ==
  ASSUME FollowInv, Callback PROVE FollowMatches(lc')
<1>1. lc \in ControllerState /\ lc.cancel \in Nat /\ lc.gen \in Nat /\ lc.cancel <= lc.gen
  BY Fields DEF FollowInv, CommandInv, TypeOK, StopInv, Counters
<1>2. Unselected(lc, lc')
  BY CallbackKeeps DEF FollowInv, CommandInv, TypeOK, CallbackInv, CallbackDone
<1>3. lc'.cancel \in {lc.cancel, lc.gen + 1}
  BY <1>1, ZenonT(200)
  DEF Callback, LegacyCommand, WriteCommand, TrajectoryCommand, HeavyCommand, HeavyRefused,
      WriteHeavy, Gate, DriverStatus, SafetyRequest, EnqueueSafety, SafetyStore, SafetyWrite,
      SafetyCheck, SafetyAnswer, SafetyTimeout, ControllerState
<1>4. lc'.cancel >= lc.cancel
  BY <1>1, <1>3
<1>5. lc.cur.gen \in Nat
  BY <1>1, BufferFields
<1> QED
  BY <1>1, <1>2, <1>3, <1>4, <1>5 DEF FollowInv, FollowMatches, Executes, Unselected

LEMMA FollowInvStep == ASSUME FollowInv, [Next]_vars PROVE FollowInv'
<1>1. CommandInv' /\ lc \in ControllerState /\ FollowMatches(lc)
  BY CommandStep DEF FollowInv, CommandInv, TypeOK
<1>2. SUFFICES FollowMatches(lc')
  BY <1>1 DEF FollowInv, FollowMatches, Executes
<1>3. CASE Callback
  BY <1>3, CallbackMatches
<1>4. CASE UpdateNotFinite \/ UpdateEstop \/ OnActivate
  BY <1>1, <1>4, UpdateNotFiniteLemma, UpdateEstopLemma, OnActivateLemma
  DEF FollowMatches, Started, Moving
<1>5. CASE UpdateBegin
  <2>1. Begun(lc, lc')
    BY <1>1, <1>5, UpdateBeginLemma
  <2> QED
    BY <1>1, <2>1 DEF Begun, FollowMatches, Executes, Started, Moving
<1>6. ASSUME NEW settled, NEW elapsed, NEW last \in BOOLEAN, NEW o,
             UpdateEnd(settled, elapsed, last, o)
      PROVE  FollowMatches(lc')
  <2> DEFINE a == Act(lc, GateReady)
  <2>1. Chosen(lc, a) /\ Cycled(a, lc') /\ FollowEnds(lc, lc')
    BY <1>1, <1>6, UpdateEndLemma
  <2> HIDE DEF a
  <2> QED
    BY <2>1, CycleAwaits DEF FollowMatches, FollowEnds
<1>7. CASE OnDeactivate
  BY <1>1, <1>7, OnDeactivateLemma DEF SameCommands, FollowMatches, Executes
<1>8. CASE GateChange \/ UNCHANGED vars
  BY <1>1, <1>8 DEF GateChange, vars
<1> QED
  BY <1>3, <1>4, <1>5, <1>6, <1>7, <1>8, Zenon DEF Next, Update

FollowStep ==
  (FollowAcknowledged /\ lc'.cur.seq # 0 /\ lc'.cur.gen > lc'.cancel)
     => lc'.applied = lc'.cur.seq

\* While the lift executes a sample of the gateway that no STOP or HOLD service
\* has cancelled, the FOLLOW that update acknowledges is that sample, although
\* its sequence was kept in a variable of its own over brake gate, holds, lost
\* buffer writes and ends of leases (pending_follow_ack_ in update).
THEOREM AckedFollowsAreExecuted == Spec => AckedFollowIsExecuted
<1>1. Init => FollowInv
  <2> SUFFICES ASSUME Init PROVE FollowInv
    OBVIOUS
  <2>1. lc.mode = "hold"
    BY Zenon DEF Init
  <2> QED
    BY <2>1, CommandInit DEF FollowInv, FollowMatches, Started, Moving
<1>2. FollowInv /\ [Next]_vars => FollowInv'
  BY FollowInvStep
<1>3. FollowInv /\ [Next]_vars => FollowStep
  <2> SUFFICES ASSUME FollowInv, [Next]_vars, FollowAcknowledged, Executes(lc')
               PROVE  lc'.applied = lc'.cur.seq
    BY DEF FollowStep, Executes
  <2> DEFINE a == Act(lc, GateReady)
  <2>1. lc.step = "select" /\ lc'.step = "idle" /\ lc'.followAck = 0
    BY DEF FollowAcknowledged
  <2>2. Waiting(lc) # 0
    BY DEF FollowAcknowledged, Waiting, Awaited, FollowInv, CommandInv, StopInv, Kinds
  <2>3. Chosen(lc, a) /\ Cycled(a, lc') /\ FollowEnds(lc, lc')
    BY <2>1, CycleEnd DEF FollowInv
  <2> HIDE DEF a
  <2>4. lc'.mode \in Started /\ lc'.applied = Waiting(lc)
    BY <2>1, <2>2, <2>3 DEF FollowEnds, Started, Moving
  <2> QED
    BY <2>2, <2>3, <2>4, CycleAwaits
<1>4. Spec => [][FollowStep]_vars
  BY <1>1, <1>2, <1>3, PTL DEF Spec
<1> QED
  BY <1>4, Zenon DEF AckedFollowIsExecuted, FollowStep

RecoveryStep ==
  (lc.mode = "fault" /\ active /\ lc'.mode \notin {"fault", "estop"})
     => lc'.cur # lc.cur \/ (lc.step = "select" /\ BufferedIsNew(lc))

LEMMA RecoveryLemma == ASSUME CommandInv, [Next]_vars PROVE RecoveryStep
<1> SUFFICES ASSUME lc.mode = "fault", active, lc'.mode \notin {"fault", "estop"}
             PROVE  lc'.cur # lc.cur \/ (lc.step = "select" /\ BufferedIsNew(lc))
  BY DEF RecoveryStep
<1>1. lc \in ControllerState
  BY DEF CommandInv, TypeOK
<1>2. CASE Callback
  BY <1>2, CallbackKeeps DEF CommandInv, TypeOK, CallbackInv, CallbackDone, Unselected
<1>3. CASE UpdateNotFinite
  BY <1>1, <1>3, UpdateNotFiniteLemma
<1>4. CASE UpdateEstop
  BY <1>1, <1>4, UpdateEstopLemma
<1>5. CASE UpdateBegin
  <2>1. Begun(lc, lc')
    BY <1>1, <1>5, UpdateBeginLemma
  <2>2. /\ lc.pendTraj > lc.cancel
        /\ lc'.cur = [type |-> "trajectory", gen |-> lc.pendTraj, seq |-> 0]
    BY <2>1 DEF Begun
  <2>3. lc.pendTraj # 0
    BY <1>1, <2>2, Fields
  <2> QED
    BY <2>2, <2>3 DEF CommandInv, StopInv, TrajectoryIsNew
<1>6. ASSUME NEW settled, NEW elapsed, NEW last \in BOOLEAN, NEW o,
             UpdateEnd(settled, elapsed, last, o)
      PROVE  lc.step = "select" /\ BufferedIsNew(lc)
  <2>1. /\ Chosen(lc, Act(lc, GateReady)) /\ Cycled(Act(lc, GateReady), lc')
        /\ lc.step = "select"
    BY <1>1, <1>6, UpdateEndLemma
  <2>2. ~BufferedIsNew(lc) => lc'.mode = "fault"
    BY <2>1 DEF Chosen, Cycled, ModeStep
  <2> QED
    BY <2>1, <2>2
<1>7. CASE OnActivate
  BY <1>7 DEF OnActivate
<1>8. CASE OnDeactivate
  BY <1>1, <1>8, OnDeactivateLemma
<1>9. CASE GateChange \/ UNCHANGED vars
  BY <1>9, Zenon DEF GateChange, vars
<1> QED
  BY <1>2, <1>3, <1>4, <1>5, <1>6, <1>7, <1>8, <1>9, Zenon DEF Next, Update

\* An active controller leaves the fault mode only for an emergency stop, or to
\* act on a trajectory or a buffered command: a zero-frame resync, the end of a
\* profile or a HOLD confirmation never clears it (enter_fault,
\* apply_zero_frame_resync).
THEOREM FaultsNeedACommand == Spec => NoAutomaticRecovery
<1>1. Init => CommandInv
  BY CommandInit
<1>2. CommandInv /\ [Next]_vars => CommandInv'
  BY CommandStep
<1>3. CommandInv /\ [Next]_vars => RecoveryStep
  BY RecoveryLemma
<1>4. Spec => [][RecoveryStep]_vars
  BY <1>1, <1>2, <1>3, PTL DEF Spec
<1> QED
  BY <1>4, Zenon DEF NoAutomaticRecovery, RecoveryStep

(* Local commands and the lease, without an emergency stop.                 *)

NoEstop == ~drv.estop /\ lc.mode # "estop"

DrainInv == CommandInv /\ NoEstop /\ Drained(lc, cb)

DrainedStep ==
  (lc'.cur # lc.cur /\ lc'.cur.seq = 0 /\ lc'.cur.type \notin {"soft_stop", "hold"})
     => lc'.cur.gen > lc'.leaseGen

LEMMA BeginDrains ==
  ASSUME DrainInv, UpdateBegin PROVE Drained(lc', cb) /\ DrainedStep /\ lc'.mode # "estop"
<1>1. lc \in ControllerState /\ Begun(lc, lc') /\ lc.mode # "estop"
  BY UpdateBeginLemma DEF DrainInv, CommandInv, TypeOK, NoEstop
<1>2. CASE lc.lease
  <2>1. /\ lc'.leaseGen = lc.gen /\ lc'.pendTraj = 0 /\ lc'.consumed = lc.cmdGen
        /\ lc'.cur = lc.cur /\ lc'.mode = lc.mode /\ lc'.lease = lc.lease
        /\ lc'.cmdBuf = lc.cmdBuf /\ lc'.cmdGen = lc.cmdGen /\ lc'.cancel = lc.cancel
    BY <1>1, <1>2 DEF Begun
  <2> QED
    BY <1>1, <1>2, <2>1 DEF DrainInv, Drained, DrainedStep
<1>3. CASE ~lc.lease
  <2>1. /\ lc'.leaseGen = lc.leaseGen /\ lc'.consumed = lc.consumed /\ lc'.lease = lc.lease
        /\ lc'.cmdBuf = lc.cmdBuf /\ lc'.cmdGen = lc.cmdGen /\ lc'.cancel = lc.cancel
        /\ \/ lc'.pendTraj = lc.pendTraj /\ lc'.cur = lc.cur /\ lc'.mode = lc.mode
           \/ /\ lc.pendTraj > lc.cancel /\ lc'.pendTraj = 0 /\ lc'.mode = "brake_gate"
              /\ lc'.cur = [type |-> "trajectory", gen |-> lc.pendTraj, seq |-> 0]
    BY <1>1, <1>3 DEF Begun
  <2>2. lc.pendTraj > lc.cancel => lc.pendTraj # 0
    BY <1>1, Fields
  <2> QED
    BY <1>1, <1>3, <2>1, <2>2 DEF DrainInv, Drained, DrainedStep
<1> QED
  BY <1>2, <1>3

LEMMA EndDrains ==
  ASSUME DrainInv, NEW a, Chosen(lc, a), Cycled(a, lc')
  PROVE  Drained(lc', cb) /\ DrainedStep /\ lc'.mode # "estop"
<1> DEFINE c == Buffered(lc)
<1>1. lc \in ControllerState
  BY DEF DrainInv, CommandInv, TypeOK
<1>2. /\ SameInputs(lc, lc') /\ lc'.consumed = a.consumed /\ lc'.cur = a.cur
      /\ lc'.pendTraj = a.pendTraj
  BY DEF Chosen, Cycled, SameWait, SameInputs, SameChoice
<1>3. /\ a.pendTraj \in {lc.pendTraj, 0}
      /\ a.consumed = lc.consumed \/ a.consumed = lc.cmdBuf.gen
      /\ a.cur = lc.cur \/ (BufferedIsNew(lc) /\ a.cur = c)
  BY <1>1, BufferedType DEF Chosen
<1>4. Drained(lc', cb)
  BY <1>2, <1>3 DEF DrainInv, Drained, SameInputs
<1>5. lc'.mode # "estop"
  <2>1. a.mode # "estop"
    BY DEF Chosen, DrainInv, NoEstop, Started, Moving
  <2> QED
    BY <2>1 DEF Cycled, ModeStep
<1>6. DrainedStep
  <2> SUFFICES ASSUME BufferedIsNew(lc), lc'.cur = c, c.seq = 0, c.type \notin Stops
               PROVE  c.gen > lc.leaseGen
    BY <1>2, <1>3 DEF DrainedStep, SameInputs, Stops
  <2>1. c.gen # 0 /\ Kinds(lc)
    BY DEF BufferedIsNew, DrainInv, CommandInv, StopInv
  <2>2. Source(lc) # "safety" /\ Source(lc) # "heavy"
    BY <1>1, <2>1, BufferedType DEF Kinds
  <2>3. Source(lc) = "legacy" /\ c = lc.cmdBuf
    BY <1>1, <2>1, <2>2, BufferedType
  <2>4. c.gen > lc.cancel /\ c.gen # lc.consumed
    BY <2>2, <2>3 DEF BufferedIsNew
  <2> QED
    BY <1>1, <2>3, <2>4, Fields, BufferFields DEF DrainInv, Drained
<1> QED
  BY <1>4, <1>5, <1>6

LEMMA DrainLemma ==
  ASSUME ~MayEstop, DrainInv, [Next]_vars PROVE DrainInv' /\ DrainedStep
<1>1. CommandInv' /\ lc \in ControllerState /\ cb \in CallbackState /\ CallbackInv
  BY CommandStep DEF DrainInv, CommandInv, TypeOK, CallbackInv
<1>2. ~drv'.estop
  <2>1. ASSUME NEW d \in DriverReports, NEW rezero, DriverStatus(d, rezero) PROVE ~drv'.estop
    BY <2>1 DEF DriverStatus, DriverReports
  <2>2. CASE GateChange
    BY <2>2 DEF GateChange, DrainInv, NoEstop, CommandInv, TypeOK
  <2>3. CASE drv' = drv
    BY <2>3 DEF DrainInv, NoEstop
  <2>4. CASE Update \/ OnActivate \/ OnDeactivate \/ UNCHANGED vars
    BY <2>3, <2>4, Zenon
    DEF Update, UpdateNotFinite, UpdateEstop, UpdateBegin, UpdateEnd, OnActivate, OnDeactivate, vars
  <2>5. CASE Callback
    BY <2>1, <2>3, <2>5, ZenonT(60)
    DEF Callback, LegacyCommand, WriteCommand, TrajectoryCommand, HeavyCommand, HeavyRefused,
        WriteHeavy, Gate, SafetyRequest, SafetyStore, SafetyWrite, SafetyCheck, SafetyAnswer,
        SafetyTimeout
  <2> QED
    BY <2>2, <2>4, <2>5 DEF Next
<1>3. SUFFICES Drained(lc', cb') /\ lc'.mode # "estop" /\ DrainedStep
  BY <1>1, <1>2 DEF DrainInv, NoEstop
<1>4. CASE Callback
  BY <1>1, <1>4, CallbackKeeps
  DEF CallbackDone, Kept, Unselected, DrainInv, NoEstop, DrainedStep
<1>5. CASE UpdateNotFinite
  <2>1. cb' = cb
    BY <1>5 DEF UpdateNotFinite
  <2> QED
    BY <1>1, <1>5, <2>1, UpdateNotFiniteLemma DEF SameCommands, DrainInv, Drained, DrainedStep
<1>6. CASE UpdateEstop
  BY <1>6 DEF UpdateEstop, DrainInv, NoEstop
<1>7. CASE UpdateBegin
  BY <1>7, BeginDrains DEF UpdateBegin
<1>8. ASSUME NEW settled, NEW elapsed, NEW last \in BOOLEAN, NEW o,
             UpdateEnd(settled, elapsed, last, o)
      PROVE  Drained(lc', cb') /\ lc'.mode # "estop" /\ DrainedStep
  <2>1. cb' = cb
    BY <1>8, Zenon DEF UpdateEnd
  <2> QED
    BY <1>1, <1>8, <2>1, UpdateEndLemma, EndDrains
<1>9. CASE OnActivate
  <2>1. cb' = cb
    BY <1>9 DEF OnActivate
  <2> QED
    BY <1>1, <1>9, <2>1, OnActivateLemma, ActivateKeeps DEF DrainInv, DrainedStep
<1>10. CASE OnDeactivate
  <2>1. cb' = cb
    BY <1>10 DEF OnDeactivate
  <2> QED
    BY <1>1, <1>10, <2>1, OnDeactivateLemma
    DEF SameCommands, DrainInv, NoEstop, Drained, DrainedStep
<1>11. CASE GateChange \/ UNCHANGED vars
  BY <1>11 DEF GateChange, vars, DrainInv, NoEstop, DrainedStep
<1> QED
  BY <1>4, <1>5, <1>6, <1>7, <1>8, <1>9, <1>10, <1>11, Zenon DEF Next, Update

\* As long as the drive reports no emergency stop, a local command that was
\* queued while update saw the gateway's lease is never acted on later: the
\* drain of every leased cycle reaches it even when its callback has stored the
\* generation and not yet written the buffer (update, lift_controller.cpp).
THEOREM LeaseDrainsLocalCommands == ~MayEstop => (Spec => LocalCommandsStayDrained)
<1> SUFFICES ASSUME ~MayEstop PROVE Spec => LocalCommandsStayDrained
  OBVIOUS
<1>1. Init => DrainInv
  <2> SUFFICES ASSUME Init PROVE DrainInv
    OBVIOUS
  <2>1. NoEstop
    BY DEF Init, NoEstop
  <2> QED
    BY <2>1, CommandInit DEF DrainInv
<1>2. DrainInv /\ [Next]_vars => DrainInv'
  BY DrainLemma
<1>3. DrainInv /\ [Next]_vars => DrainedStep
  BY DrainLemma
<1>4. Spec => [][DrainedStep]_vars
  BY <1>1, <1>2, <1>3, PTL DEF Spec
<1> QED
  BY <1>4, Zenon DEF LocalCommandsStayDrained, DrainedStep
=============================================================================
