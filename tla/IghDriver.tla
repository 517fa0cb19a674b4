------------------------------ MODULE IghDriver ------------------------------
(***************************************************************************)
(* The EtherCAT driver process of the arms (erobot_igh_driver): its start, *)
(* its cyclic loop with the shared motor monitor and the CSP/CST switching *)
(* of the arm group, and the drives it commands.                           *)
(*                                                                         *)
(* The driver and the ROS control process communicate through two shared   *)
(* memory segments, one for the desired data (poweron, mode) and one for   *)
(* the real data (ec_powerstate, drive states), which survive both         *)
(* processes.  Positions are abstracted to whether the desired position is *)
(* within the takeover window of the held one and whether the group is at  *)
(* standstill; the CiA402 states below operation enabled are one state.    *)
(***************************************************************************)
EXTENDS Integers, ArmAxes

CONSTANTS
  EyouAxes,           \* the axes whose drive must be disabled to change its mode
  DisableHoldCycles,  \* kEyouCstToCstDisableHoldCycles, kEyouCstToCspDisableHoldCycles
  ModeHoldCycles,     \* kEyouCstToCstModeHoldCycles, kEyouCstToCspModeHoldCycles
  StandstillCycles,   \* kStandstillRequiredCycles
  TakeoverCycles,     \* kCspReentryTakeoverStableCycles
  MayFault,           \* drives may report a fault
  MayDrop,            \* drives may leave operation enabled by themselves
  MayCrash            \* the driver process may die and be started again

ASSUME IghAssumption ==
  /\ EyouAxes \subseteq Axes
  /\ {DisableHoldCycles, ModeHoldCycles, StandstillCycles, TakeoverCycles} \subseteq Nat \ {0}
  /\ {MayFault, MayDrop, MayCrash} \subseteq BOOLEAN

VARIABLES
  drv,      \* the driver process
  mon,      \* the shared motor monitor
  grp,      \* the mode switching of the arm group
  axis,     \* the drives
  word,     \* the control word and mode sent to each drive
  shm       \* the two shared memory segments

ighVars == <<drv, mon, grp, axis, word, shm>>

-----------------------------------------------------------------------------
Phases == {"Idle", "DisableHold", "ModeHold", "ReEnable"}
AxisModes == {"CSP", "CST"}

\* "dropped" is a drive that left operation enabled without being told to.
DriveStates == {"disabled", "enabled", "fault", "dropped"}

IghTypeOK ==
  /\ drv \in {"down", "starting", "cyclic"}
  /\ mon \in [state : {"PowerOff", "Enabling", "Armed", "Faulted"}, force : BOOLEAN,
              previous : BOOLEAN, latched : BOOLEAN, seenPoweroff : BOOLEAN]
  /\ grp \in [mode : AxisModes,        \* arm_group_previous_mode
              power : BOOLEAN,         \* arm_group_power_was_requested
              hold : BOOLEAN,          \* arm_group_hold_active
              toCst : Phases, toCsp : Phases,
              cycles : 0 .. DisableHoldCycles + ModeHoldCycles,
              reentry : BOOLEAN,       \* csp_reentry_hold_active
              pending : BOOLEAN,       \* csp_reentry_enable_pending
              ready : 0 .. StandstillCycles, takeover : 0 .. TakeoverCycles]
  /\ axis \in [Axes -> [state : DriveStates, mode : AxisModes]]
  /\ word \in [Axes -> [control : {"SHUTDOWN", "ENABLE", "FAULT_RESET"}, mode : AxisModes]]
  /\ shm \in [poweron : BOOLEAN, mode : AxisModes, powerstate : BOOLEAN,
              status : [Axes -> {"unknown", "disabled", "enabled", "fault"}]]

NewMonitor ==
  [state |-> "PowerOff", force |-> FALSE, previous |-> FALSE, latched |-> FALSE,
   seenPoweroff |-> TRUE]

NewGroup ==
  [mode |-> "CSP", power |-> FALSE, hold |-> FALSE, toCst |-> "Idle", toCsp |-> "Idle",
   cycles |-> 0, reentry |-> FALSE, pending |-> FALSE, ready |-> 0, takeover |-> 0]

IghInit ==
  /\ drv = "down" /\ mon = NewMonitor /\ grp = NewGroup
  /\ axis = [a \in Axes |-> [state |-> "disabled", mode |-> "CSP"]]
  /\ word = [a \in Axes |-> [control |-> "SHUTDOWN", mode |-> "CSP"]]
  /\ shm = [poweron |-> FALSE, mode |-> "CSP", powerstate |-> FALSE,
            status |-> [a \in Axes |-> "unknown"]]

-----------------------------------------------------------------------------
(* The shared motor monitor.                                                *)

AllEnabled == \A a \in Axes : axis[a].state = "enabled"
AnyFault == \E a \in Axes : axis[a].state = "fault"
AllInMode(m) == \A a \in Axes : axis[a].mode = m

\* Mutant: the monitor is bypassed only while the drives are held disabled.
Bypassed_HoldsOnly(g) == {g.toCst, g.toCsp} \cap {"DisableHold", "ModeHold"} # {}

\* IsArmModeSwitchMonitorBypassed.
Bypassed(g) == g.toCst # "Idle" \/ g.toCsp # "Idle" \/ g.reentry \/ g.pending

\* All axes that the monitor watches are arm axes, which a bypass exempts.
Abnormal(g) == ~Bypassed(g) /\ ~AllEnabled

MonitorStep(m, g, poweron) ==
  LET latched == poweron /\ (m.latched \/ AllEnabled)
      rising == poweron /\ ~m.previous
      up == IF latched THEN "Armed" ELSE "Enabling"
      next ==
        CASE m.state = "PowerOff" -> [state |-> IF poweron THEN up ELSE "PowerOff",
                                      force |-> FALSE, seen |-> m.seenPoweroff]
          [] m.state = "Enabling" -> [state |-> IF poweron THEN up ELSE "PowerOff",
                                      force |-> FALSE, seen |-> m.seenPoweroff]
          [] m.state = "Armed" ->
               IF ~poweron THEN [state |-> "PowerOff", force |-> FALSE, seen |-> m.seenPoweroff]
               ELSE IF (latched /\ Abnormal(g)) \/ AnyFault
               THEN [state |-> "Faulted", force |-> TRUE, seen |-> FALSE]
               ELSE [state |-> "Armed", force |-> FALSE, seen |-> m.seenPoweroff]
          [] m.state = "Faulted" ->
               IF m.seenPoweroff /\ rising
               THEN [state |-> up, force |-> FALSE, seen |-> TRUE]
               ELSE [state |-> "Faulted", force |-> TRUE, seen |-> m.seenPoweroff \/ ~poweron]
  IN  [state |-> next.state, force |-> next.force, seenPoweroff |-> next.seen,
       latched |-> latched, previous |-> poweron]

-----------------------------------------------------------------------------
(* The mode switching of the arm group, one call of                         *)
(* PrepareArmGroupAxisCommand per cycle.                                    *)

ClearHoldContext(g) ==
  [g EXCEPT !.hold = FALSE, !.toCst = "Idle", !.toCsp = "Idle", !.cycles = 0,
            !.reentry = FALSE, !.pending = FALSE, !.ready = 0, !.takeover = 0]

HasEyou == EyouAxes # {}

EnterCst(g) ==
  [ClearHoldContext(g) EXCEPT !.hold = TRUE, !.toCst = IF HasEyou THEN "DisableHold" ELSE "Idle"]

LeaveCst(g) ==
  [ClearHoldContext(g) EXCEPT !.toCsp = IF HasEyou THEN "DisableHold" ELSE "Idle",
                              !.reentry = HasEyou, !.pending = HasEyou]

\* A hold phase lasts a number of cycles.
HoldPhase(phase, cycles) ==
  IF phase = "DisableHold" /\ cycles + 1 >= DisableHoldCycles
  THEN [phase |-> "ModeHold", cycles |-> 0]
  ELSE IF phase = "ModeHold" /\ cycles + 1 >= ModeHoldCycles
  THEN [phase |-> "ReEnable", cycles |-> 0]
  ELSE [phase |-> phase, cycles |-> cycles + 1]

\* UpdateCspReentryHoldState: the held position is released once the group has
\* been enabled in CSP and at standstill, and then the desired position within
\* the window, for their numbers of cycles.
UpdateReentryHold(g, still, near) ==
  LET ready == IF g.ready < StandstillCycles THEN g.ready + 1 ELSE g.ready
      takeover == IF near /\ ready >= StandstillCycles THEN g.takeover + 1 ELSE 0
  IN  IF ~g.reentry THEN g
      ELSE IF ~(AllInMode("CSP") /\ AllEnabled /\ still)
      THEN [g EXCEPT !.ready = 0, !.takeover = 0]
      ELSE IF takeover >= TakeoverCycles
      THEN [g EXCEPT !.reentry = FALSE, !.pending = FALSE, !.ready = 0, !.takeover = 0,
                     !.hold = FALSE]
      ELSE [g EXCEPT !.ready = ready, !.takeover = takeover]

StepCst(g) ==
  LET p == HoldPhase(g.toCst, g.cycles) IN
  CASE g.toCst \in {"DisableHold", "ModeHold"} -> [g EXCEPT !.toCst = p.phase, !.cycles = p.cycles]
    [] g.toCst = "ReEnable" ->
         [g EXCEPT !.toCst = IF AllInMode("CST") /\ AllEnabled THEN "Idle" ELSE @]
    [] OTHER -> g

StepCsp(g, still, near) ==
  LET p == HoldPhase(g.toCsp, g.cycles)
      u == UpdateReentryHold(g, still, near)
  IN  CASE g.toCsp \in {"DisableHold", "ModeHold"} ->
             [g EXCEPT !.toCsp = p.phase, !.cycles = p.cycles]
        [] g.toCsp = "ReEnable" ->
             IF ~u.reentry /\ AllInMode("CSP") /\ AllEnabled
             THEN [u EXCEPT !.toCsp = "Idle", !.pending = FALSE] ELSE u
        [] OTHER -> u

\* CST is refused without power.
GroupMode(power) == IF shm.mode = "CST" /\ power THEN "CST" ELSE "CSP"

GroupStep(g, power, still, near) ==
  LET m == GroupMode(power)
      g0 == IF power /\ g.power THEN g ELSE ClearHoldContext(g)
      g1 == IF m = "CST"
            THEN StepCst(IF g.mode # "CST" \/ ~g0.hold THEN EnterCst(g0) ELSE g0)
            ELSE [StepCsp(IF g.mode = "CST" /\ power THEN LeaveCst(g0) ELSE g0, still, near)
                    EXCEPT !.toCst = "Idle"]
  IN  [g1 EXCEPT !.mode = m, !.power = power]

ModeSwitchShutdown(g) == {g.toCst, g.toCsp} \cap {"DisableHold", "ModeHold"} # {}

\* axis_ctrword_state_chage: from any state below it, towards operation enabled.
ControlWord(a) == IF axis[a].state = "fault" THEN "FAULT_RESET" ELSE "ENABLE"

AxisWord(a, g, power) ==
  [control |-> IF ~power \/ (a \in EyouAxes /\ ModeSwitchShutdown(g)) THEN "SHUTDOWN"
               ELSE ControlWord(a),
   mode |-> IF a \in EyouAxes /\ g.toCst = "DisableHold" THEN "CSP"
            ELSE IF a \in EyouAxes /\ g.toCsp = "DisableHold" THEN "CST" ELSE g.mode]

-----------------------------------------------------------------------------
(* The process.                                                             *)

\* InitializeSharedMemoryRegion: the real segment is cleared, the desired one
\* keeps everything but its power request.
DriverStart ==
  /\ drv = "down"
  /\ drv' = "starting" /\ mon' = NewMonitor /\ grp' = NewGroup
  /\ shm' = [shm EXCEPT !.poweron = FALSE, !.powerstate = FALSE,
                        !.status = [a \in Axes |-> "unknown"]]
  /\ UNCHANGED <<axis, word>>

\* WaitUntilAllSlavesOperational, the successful end.
DriverOperational ==
  /\ drv = "starting"
  /\ drv' = "cyclic"
  /\ shm' = [shm EXCEPT !.powerstate = TRUE]
  /\ UNCHANGED <<mon, grp, axis, word>>

\* A failed start, a signal or a crash: frames stop, and each drive disables
\* itself when its watchdog expires.
DriverExit ==
  /\ MayCrash /\ drv # "down"
  /\ drv' = "down"
  /\ axis' = [a \in Axes |-> [axis[a] EXCEPT !.state = IF @ = "fault" THEN @ ELSE "disabled"]]
  /\ word' = [a \in Axes |-> [word[a] EXCEPT !.control = "SHUTDOWN"]]
  /\ UNCHANGED <<mon, grp, shm>>

\* RunCyclicLoop, one cycle: feedback to shared memory, desired data from it,
\* the monitor, then the commands of every axis.
DriverCycle(still, near) ==
  LET m == MonitorStep(mon, grp, shm.poweron)
      power == shm.poweron /\ ~m.force
      g == IF m.force THEN [ClearHoldContext(grp) EXCEPT !.power = FALSE]
           ELSE GroupStep(grp, power, still, near)
  IN
  /\ drv = "cyclic"
  /\ mon' = m /\ grp' = g
  /\ word' = [a \in Axes |->
                IF m.force THEN [control |-> "SHUTDOWN", mode |-> axis[a].mode]
                ELSE AxisWord(a, g, power)]
  /\ shm' = [shm EXCEPT !.status =
               [a \in Axes |-> IF axis[a].state = "dropped" THEN "disabled" ELSE axis[a].state]]
  /\ UNCHANGED <<drv, axis>>

\* A drive obeys the words it receives, or leaves operation enabled by itself.
DriveObeys(a) ==
  /\ axis' = [axis EXCEPT ![a] =
       [mode |-> word[a].mode,
        state |-> CASE word[a].control = "SHUTDOWN" -> IF @.state = "fault" THEN "fault" ELSE "disabled"
                    [] word[a].control = "FAULT_RESET" -> IF @.state = "fault" THEN "disabled" ELSE @.state
                    [] word[a].control = "ENABLE" -> IF @.state = "fault" THEN "fault" ELSE "enabled"]]
  /\ UNCHANGED <<drv, mon, grp, word, shm>>

DriveFails(a) ==
  /\ \/ MayFault /\ axis' = [axis EXCEPT ![a].state = "fault"]
     \/ MayDrop /\ axis[a].state = "enabled" /\ axis' = [axis EXCEPT ![a].state = "dropped"]
  /\ UNCHANGED <<drv, mon, grp, word, shm>>

DriverNext ==
  \/ DriverStart
  \/ DriverExit
  \/ \E still \in BOOLEAN, near \in BOOLEAN : DriverCycle(still, near)
  \/ \E a \in Axes : DriveObeys(a)
  \/ \E a \in Axes : DriveFails(a)
==============================================================================
