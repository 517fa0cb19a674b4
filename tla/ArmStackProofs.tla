---------------------------- MODULE ArmStackProofs ---------------------------
(***************************************************************************)
(* Proofs about the arm's control stack: the control process and the       *)
(* EtherCAT driver over shared memory, for every number of axes, every set *)
(* of drives that must be disabled to change their mode, and every number  *)
(* of hold cycles.                                                         *)
(***************************************************************************)
EXTENDS ArmStack, ArmControllerProofs

\* The records of the driver.  The counters of the mode switch have no bound
\* here: no property depends on one.
GroupState ==
  [mode : AxisModes, power : BOOLEAN, hold : BOOLEAN, toCst : Phases, toCsp : Phases,
   cycles : Nat, reentry : BOOLEAN, pending : BOOLEAN, ready : Nat, takeover : Nat]

MonitorState ==
  [state : {"PowerOff", "Enabling", "Armed", "Faulted"}, force : BOOLEAN,
   previous : BOOLEAN, latched : BOOLEAN, seenPoweroff : BOOLEAN]

Segments ==
  [poweron : BOOLEAN, mode : AxisModes, powerstate : BOOLEAN,
   status : [Axes -> {"unknown", "disabled", "enabled", "fault"}]]

IghTypes ==
  /\ drv \in {"down", "starting", "cyclic"}
  /\ mon \in MonitorState /\ grp \in GroupState /\ shm \in Segments
  /\ axis \in [Axes -> [state : DriveStates, mode : AxisModes]]
  /\ word \in [Axes -> [control : {"SHUTDOWN", "ENABLE", "FAULT_RESET"}, mode : AxisModes]]

-----------------------------------------------------------------------------
(* The mode switch of the arm group.                                        *)

\* The bypass of the monitor ends only when every drive is enabled.
EndsEnabled(g, h) ==
  /\ Bypassed(g) /\ ~Bypassed(h) => AllEnabled
  /\ ~Bypassed(g) => ~Bypassed(h)

LEMMA ClearLemma ==
  ASSUME NEW g \in GroupState
  PROVE  /\ ClearHoldContext(g) \in GroupState /\ ~Bypassed(ClearHoldContext(g))
         /\ ClearHoldContext(g).toCst = "Idle" /\ ClearHoldContext(g).toCsp = "Idle"
         /\ ClearHoldContext(g).mode = g.mode
<1> DEFINE c == ClearHoldContext(g)
<1>1. /\ c \in GroupState /\ c.toCst = "Idle" /\ c.toCsp = "Idle" /\ c.reentry = FALSE
      /\ c.pending = FALSE /\ c.mode = g.mode
  <2>1. 0 \in Nat
    OBVIOUS
  <2> QED BY <2>1, ZenonT(60) DEF ClearHoldContext, GroupState, Phases
<1> QED BY <1>1 DEF Bypassed

LEMMA EnterCstLemma ==
  ASSUME NEW g \in GroupState
  PROVE  /\ EnterCst(g) \in GroupState
         /\ HasEyou => EnterCst(g).toCst = "DisableHold"
         /\ ~HasEyou => ~Bypassed(EnterCst(g))
<1> DEFINE c == ClearHoldContext(g)
           p == IF HasEyou THEN "DisableHold" ELSE "Idle"
           e == [c EXCEPT !.hold = TRUE, !.toCst = p]
<1>1. EnterCst(g) = e /\ p \in Phases
  BY DEF EnterCst, Phases
<1>2. c \in GroupState /\ ~Bypassed(c) /\ c.toCst = "Idle"
  BY ClearLemma
<1> HIDE DEF c, p
<1>3. /\ e \in GroupState /\ e.toCst = p /\ e.toCsp = c.toCsp
      /\ e.reentry = c.reentry /\ e.pending = c.pending
  BY <1>1, <1>2, ZenonT(60) DEF GroupState
<1> HIDE DEF e
<1> QED BY <1>1, <1>2, <1>3 DEF Bypassed, p

LEMMA LeaveCstLemma ==
  ASSUME NEW g \in GroupState
  PROVE  /\ LeaveCst(g) \in GroupState /\ LeaveCst(g).toCst = "Idle"
         /\ HasEyou => LeaveCst(g).toCsp = "DisableHold"
         /\ ~HasEyou => ~Bypassed(LeaveCst(g))
<1> DEFINE c == ClearHoldContext(g)
           p == IF HasEyou THEN "DisableHold" ELSE "Idle"
           b == HasEyou
           e == [c EXCEPT !.toCsp = p, !.reentry = b, !.pending = b]
<1>1. LeaveCst(g) = e /\ p \in Phases /\ b \in BOOLEAN
  BY DEF LeaveCst, Phases, HasEyou
<1>2. c \in GroupState /\ c.toCst = "Idle"
  BY ClearLemma
<1> HIDE DEF c, p, b
<1>3. /\ e \in GroupState /\ e.toCst = c.toCst /\ e.toCsp = p /\ e.reentry = b /\ e.pending = b
  BY <1>1, <1>2, ZenonT(60) DEF GroupState
<1> HIDE DEF e
<1> QED BY <1>1, <1>2, <1>3 DEF Bypassed, p, b

LEMMA HoldPhaseLemma ==
  ASSUME NEW phase \in {"DisableHold", "ModeHold"}, NEW n \in Nat
  PROVE  /\ HoldPhase(phase, n).phase \in Phases /\ HoldPhase(phase, n).phase # "Idle"
         /\ HoldPhase(phase, n).cycles \in Nat
BY IghAssumption DEF HoldPhase, Phases

LEMMA UpdateReentryHoldLemma ==
  ASSUME NEW g \in GroupState, NEW still \in BOOLEAN, NEW near \in BOOLEAN
  PROVE  /\ UpdateReentryHold(g, still, near) \in GroupState
         /\ UpdateReentryHold(g, still, near).toCst = g.toCst
         /\ UpdateReentryHold(g, still, near).toCsp = g.toCsp
         /\ EndsEnabled(g, UpdateReentryHold(g, still, near))
<1> DEFINE ready == IF g.ready < StandstillCycles THEN g.ready + 1 ELSE g.ready
           takeover == IF near /\ ready >= StandstillCycles THEN g.takeover + 1 ELSE 0
           a == [g EXCEPT !.ready = 0, !.takeover = 0]
           b == [g EXCEPT !.reentry = FALSE, !.pending = FALSE, !.ready = 0, !.takeover = 0,
                          !.hold = FALSE]
           c == [g EXCEPT !.ready = ready, !.takeover = takeover]
           u == UpdateReentryHold(g, still, near)
<1>1. u = g \/ u = a \/ (u = b /\ AllEnabled) \/ u = c
  BY DEF UpdateReentryHold
<1>2. ready \in Nat /\ takeover \in Nat /\ 0 \in Nat
  BY IghAssumption DEF GroupState
<1> HIDE DEF ready, takeover, u
<1>3. /\ a \in GroupState /\ a.toCst = g.toCst /\ a.toCsp = g.toCsp
      /\ a.reentry = g.reentry /\ a.pending = g.pending
  BY <1>2, ZenonT(60) DEF GroupState
<1>4. /\ c \in GroupState /\ c.toCst = g.toCst /\ c.toCsp = g.toCsp
      /\ c.reentry = g.reentry /\ c.pending = g.pending
  BY <1>2, ZenonT(60) DEF GroupState
<1>5. /\ b \in GroupState /\ b.toCst = g.toCst /\ b.toCsp = g.toCsp
      /\ b.reentry = FALSE /\ b.pending = FALSE
  BY <1>2, ZenonT(60) DEF GroupState
<1> HIDE DEF a, b, c
<1> QED BY <1>1, <1>3, <1>4, <1>5 DEF EndsEnabled, Bypassed, u

LEMMA StepCstLemma ==
  ASSUME NEW g \in GroupState
  PROVE  /\ StepCst(g) \in GroupState /\ EndsEnabled(g, StepCst(g))
         /\ g.toCst = "DisableHold" => Bypassed(StepCst(g))
<1> DEFINE p == HoldPhase(g.toCst, g.cycles)
           ph == p.phase
           n == p.cycles
           r == IF AllInMode("CST") /\ AllEnabled THEN "Idle" ELSE g.toCst
           a == [g EXCEPT !.toCst = ph, !.cycles = n]
           b == [g EXCEPT !.toCst = r]
           s == StepCst(g)
<1>1. \/ g.toCst \in {"DisableHold", "ModeHold"} /\ s = a
      \/ g.toCst = "ReEnable" /\ s = b
      \/ g.toCst = "Idle" /\ s = g
  BY DEF StepCst, GroupState, Phases
<1>2. g.toCst \in {"DisableHold", "ModeHold"} => ph \in Phases /\ ph # "Idle" /\ n \in Nat
  BY HoldPhaseLemma DEF GroupState
<1>3. r \in Phases /\ (g.toCst # "Idle" /\ r = "Idle" => AllEnabled)
  BY DEF GroupState, Phases
<1> HIDE DEF p, ph, n, r, s
<1>4. g.toCst \in {"DisableHold", "ModeHold"} => a \in GroupState /\ a.toCst = ph
  BY <1>2, ZenonT(60) DEF GroupState
<1>5. /\ b \in GroupState /\ b.toCst = r /\ b.toCsp = g.toCsp /\ b.reentry = g.reentry
      /\ b.pending = g.pending
  BY <1>3, ZenonT(60) DEF GroupState
<1> HIDE DEF a, b
<1> QED BY <1>1, <1>2, <1>3, <1>4, <1>5 DEF EndsEnabled, Bypassed, s

LEMMA StepCspLemma ==
  ASSUME NEW g \in GroupState, NEW still \in BOOLEAN, NEW near \in BOOLEAN
  PROVE  /\ StepCsp(g, still, near) \in GroupState /\ EndsEnabled(g, StepCsp(g, still, near))
         /\ StepCsp(g, still, near).toCst = g.toCst
         /\ g.toCsp = "DisableHold" => StepCsp(g, still, near).toCsp # "Idle"
<1> DEFINE p == HoldPhase(g.toCsp, g.cycles)
           ph == p.phase
           n == p.cycles
           u == UpdateReentryHold(g, still, near)
           a == [g EXCEPT !.toCsp = ph, !.cycles = n]
           b == [u EXCEPT !.toCsp = "Idle", !.pending = FALSE]
           s == StepCsp(g, still, near)
<1>1. \/ g.toCsp \in {"DisableHold", "ModeHold"} /\ s = a
      \/ g.toCsp = "ReEnable" /\ AllEnabled /\ s = b
      \/ g.toCsp \notin {"DisableHold", "ModeHold"} /\ s = u
  BY DEF StepCsp
<1>2. g.toCsp \in {"DisableHold", "ModeHold"} => ph \in Phases /\ ph # "Idle" /\ n \in Nat
  BY HoldPhaseLemma DEF GroupState
<1>3. u \in GroupState /\ u.toCst = g.toCst /\ u.toCsp = g.toCsp /\ EndsEnabled(g, u)
  BY UpdateReentryHoldLemma
<1> HIDE DEF p, ph, n, u, s
<1>4. g.toCsp \in {"DisableHold", "ModeHold"} =>
        a \in GroupState /\ a.toCsp = ph /\ a.toCst = g.toCst
  BY <1>2, ZenonT(60) DEF GroupState
<1>5. b \in GroupState /\ b.toCst = u.toCst
  BY <1>3, ZenonT(60) DEF GroupState, Phases
<1> HIDE DEF a, b
<1> QED BY <1>1, <1>2, <1>3, <1>4, <1>5 DEF EndsEnabled, Bypassed, s

\* The invariant of the mode switch.
GroupInv(g) ==
  /\ g \in GroupState
  /\ g.toCst # "Idle" => g.mode = "CST"
  /\ ~HasEyou => ~Bypassed(g)

LEMMA GroupStepLemma ==
  ASSUME NEW g, GroupInv(g), NEW power \in BOOLEAN, NEW still \in BOOLEAN, NEW near \in BOOLEAN
  PROVE  /\ GroupInv(GroupStep(g, power, still, near))
         /\ GroupStep(g, power, still, near).power = power
         /\ power /\ g.power /\ Bypassed(g) /\ ~Bypassed(GroupStep(g, power, still, near)) =>
              AllEnabled
<1> DEFINE m == GroupMode(power)
           g0 == IF power /\ g.power THEN g ELSE ClearHoldContext(g)
           t == IF g.mode # "CST" \/ ~g0.hold THEN EnterCst(g0) ELSE g0
           l == IF g.mode = "CST" /\ power THEN LeaveCst(g0) ELSE g0
           k == StepCsp(l, still, near)
           i == [k EXCEPT !.toCst = "Idle"]
           g1 == IF m = "CST" THEN StepCst(t) ELSE i
           r == [g1 EXCEPT !.mode = m, !.power = power]
<1>1. GroupStep(g, power, still, near) = r
  BY DEF GroupStep
<1>2. m \in AxisModes
  BY DEF GroupMode, AxisModes
<1>3. /\ g0 \in GroupState /\ (power /\ g.power => g0 = g)
      /\ g0.toCst # "Idle" => g.mode = "CST" /\ power
      /\ ~HasEyou => ~Bypassed(g0)
  BY ClearLemma DEF GroupInv
<1> HIDE DEF m, g0
<1>4. /\ t \in GroupState /\ (~HasEyou => ~Bypassed(t))
      /\ t = g0 \/ ~HasEyou \/ t.toCst = "DisableHold"
  BY <1>3, EnterCstLemma
<1> HIDE DEF t
<1>5. /\ l \in GroupState /\ l.toCst = "Idle"
      /\ ~HasEyou => ~Bypassed(l)
      /\ l = g0 \/ ~HasEyou \/ l.toCsp = "DisableHold"
  BY <1>3, LeaveCstLemma
<1> HIDE DEF l
<1>6. /\ k \in GroupState /\ EndsEnabled(l, k) /\ k.toCst = l.toCst
      /\ l.toCsp = "DisableHold" => k.toCsp # "Idle"
  BY <1>5, StepCspLemma
<1> HIDE DEF k
<1>7. /\ i \in GroupState /\ i.toCst = "Idle" /\ i.toCsp = k.toCsp /\ i.reentry = k.reentry
      /\ i.pending = k.pending
  BY <1>6, ZenonT(60) DEF GroupState, Phases
<1> HIDE DEF i
<1>8. Bypassed(i) <=> Bypassed(k)
  BY <1>5, <1>6, <1>7 DEF Bypassed
<1>9. /\ StepCst(t) \in GroupState /\ EndsEnabled(t, StepCst(t))
      /\ t.toCst = "DisableHold" => Bypassed(StepCst(t))
  BY <1>4, StepCstLemma
<1>10. /\ g1 \in GroupState
       /\ ~HasEyou => ~Bypassed(g1)
       /\ power /\ g.power /\ Bypassed(g) /\ ~Bypassed(g1) => AllEnabled
       /\ g1.toCst # "Idle" => m = "CST"
  <2>1. CASE m = "CST"
    BY <2>1, <1>3, <1>4, <1>9 DEF EndsEnabled, GroupInv
  <2>2. CASE m # "CST"
    <3>1. l.toCsp = "DisableHold" => Bypassed(k)
      BY <1>6 DEF Bypassed
    <3> QED BY <2>2, <3>1, <1>3, <1>5, <1>6, <1>7, <1>8 DEF EndsEnabled, GroupInv
  <2> QED BY <2>1, <2>2
<1> HIDE DEF g1
<1>11. /\ r \in GroupState /\ r.mode = m /\ r.power = power /\ r.toCst = g1.toCst
       /\ r.toCsp = g1.toCsp /\ r.reentry = g1.reentry /\ r.pending = g1.pending
  BY <1>2, <1>10, ZenonT(60) DEF GroupState
<1> HIDE DEF r
<1>12. Bypassed(r) <=> Bypassed(g1)
  BY <1>11 DEF Bypassed
<1> QED BY <1>1, <1>10, <1>11, <1>12 DEF GroupInv

-----------------------------------------------------------------------------
(* The shared motor monitor.                                                *)

\* The latch of "all enabled once" needs a standing power request.
MonitorInv(m) ==
  /\ m \in MonitorState
  /\ ~m.previous => ~m.latched
  /\ m.state \in {"PowerOff", "Enabling"} => ~m.latched

LEMMA MonitorStepLemma ==
  ASSUME NEW m, MonitorInv(m), NEW g, NEW poweron \in BOOLEAN
  PROVE  LET r == MonitorStep(m, g, poweron) IN
         /\ MonitorInv(r)
         /\ r.force <=> r.state = "Faulted"
         /\ r.state = "Faulted" /\ m.state # "Faulted" =>
              /\ m.state = "Armed" /\ poweron /\ ~r.seenPoweroff
              /\ Abnormal(g) \/ AnyFault
         /\ m.state = "Faulted" /\ poweron /\ ~m.seenPoweroff =>
              r.state = "Faulted" /\ ~r.seenPoweroff
         /\ r.state = "Armed" => poweron /\ (AllEnabled \/ (m.state = "Armed" /\ ~AnyFault))
<1> DEFINE latched == poweron /\ (m.latched \/ AllEnabled)
           rising == poweron /\ ~m.previous
           up == IF latched THEN "Armed" ELSE "Enabling"
           r == MonitorStep(m, g, poweron)
<1>1. /\ m.state \in {"PowerOff", "Enabling", "Armed", "Faulted"}
      /\ m.latched \in BOOLEAN /\ m.seenPoweroff \in BOOLEAN /\ m.previous \in BOOLEAN
      /\ ~m.previous => ~m.latched
      /\ m.state \in {"PowerOff", "Enabling"} => ~m.latched
  BY DEF MonitorInv, MonitorState
<1>2. latched \in BOOLEAN
  OBVIOUS
\* The record that MonitorStep builds, from its fields.
<1>3. ASSUME NEW s \in {"PowerOff", "Enabling", "Armed", "Faulted"}, NEW f \in BOOLEAN,
             NEW n \in BOOLEAN,
             r = [state |-> s, force |-> f, seenPoweroff |-> n, latched |-> latched,
                  previous |-> poweron]
      PROVE  /\ r \in MonitorState /\ r.state = s /\ r.force = f /\ r.seenPoweroff = n
             /\ r.latched = latched /\ r.previous = poweron
  <2> HIDE DEF r, latched
  <2> QED BY <1>2, <1>3 DEF MonitorState
<1>4. CASE m.state \in {"PowerOff", "Enabling"}
  <2> DEFINE s == IF poweron THEN up ELSE "PowerOff"
  <2>1. r = [state |-> s, force |-> FALSE,
             seenPoweroff |-> m.seenPoweroff, latched |-> latched, previous |-> poweron]
    BY <1>4 DEF MonitorStep
  <2>2. s \in {"PowerOff", "Enabling", "Armed", "Faulted"}
    OBVIOUS
  <2> HIDE DEF r, s
  <2>3. /\ r \in MonitorState /\ r.state = s /\ r.force = FALSE /\ r.seenPoweroff = m.seenPoweroff
        /\ r.latched = latched /\ r.previous = poweron
    BY <1>1, <1>3, <2>1, <2>2
  <2> QED BY <1>1, <1>4, <2>3 DEF MonitorInv, r, s
<1>5. CASE m.state = "Armed" /\ ~poweron
  <2>1. r = [state |-> "PowerOff", force |-> FALSE, seenPoweroff |-> m.seenPoweroff,
             latched |-> latched, previous |-> poweron]
    BY <1>5 DEF MonitorStep
  <2> HIDE DEF r
  <2>2. /\ r \in MonitorState /\ r.state = "PowerOff" /\ r.force = FALSE
        /\ r.latched = latched /\ r.previous = poweron
    BY <1>1, <1>3, <2>1
  <2> QED BY <1>1, <1>5, <2>2 DEF MonitorInv, r
<1>6. CASE m.state = "Armed" /\ poweron /\ ((latched /\ Abnormal(g)) \/ AnyFault)
  <2>1. r = [state |-> "Faulted", force |-> TRUE, seenPoweroff |-> FALSE,
             latched |-> latched, previous |-> poweron]
    BY <1>6 DEF MonitorStep
  <2> HIDE DEF r
  <2>2. /\ r \in MonitorState /\ r.state = "Faulted" /\ r.force = TRUE /\ r.seenPoweroff = FALSE
        /\ r.latched = latched /\ r.previous = poweron
    BY <1>1, <1>3, <2>1
  <2> QED BY <1>1, <1>6, <2>2 DEF MonitorInv, r
<1>7. CASE m.state = "Armed" /\ poweron /\ ~((latched /\ Abnormal(g)) \/ AnyFault)
  <2>1. r = [state |-> "Armed", force |-> FALSE, seenPoweroff |-> m.seenPoweroff,
             latched |-> latched, previous |-> poweron]
    BY <1>7 DEF MonitorStep
  <2> HIDE DEF r
  <2>2. /\ r \in MonitorState /\ r.state = "Armed" /\ r.force = FALSE
        /\ r.latched = latched /\ r.previous = poweron
    BY <1>1, <1>3, <2>1
  <2> QED BY <1>1, <1>7, <2>2 DEF MonitorInv, r
<1>8. CASE m.state = "Faulted" /\ m.seenPoweroff /\ rising
  <2>1. r = [state |-> up, force |-> FALSE, seenPoweroff |-> TRUE,
             latched |-> latched, previous |-> poweron]
    BY <1>8 DEF MonitorStep
  <2> HIDE DEF r
  <2>2. /\ r \in MonitorState /\ r.state = up /\ r.force = FALSE
        /\ r.latched = latched /\ r.previous = poweron
    BY <1>1, <1>3, <2>1
  <2> QED BY <1>1, <1>8, <2>2 DEF MonitorInv, r
<1>9. CASE m.state = "Faulted" /\ ~(m.seenPoweroff /\ rising)
  <2> DEFINE seen == m.seenPoweroff \/ ~poweron
  <2>1. r = [state |-> "Faulted", force |-> TRUE, seenPoweroff |-> seen,
             latched |-> latched, previous |-> poweron]
    BY <1>9 DEF MonitorStep
  <2> HIDE DEF r
  <2>2. /\ r \in MonitorState /\ r.state = "Faulted" /\ r.force = TRUE /\ r.seenPoweroff = seen
        /\ r.latched = latched /\ r.previous = poweron
    BY <1>1, <1>3, <2>1
  <2> QED BY <1>1, <1>9, <2>2 DEF MonitorInv, r
<1> QED BY <1>1, <1>4, <1>5, <1>6, <1>7, <1>8, <1>9

-----------------------------------------------------------------------------
(* The invariant of the stack, in parts.                                    *)

\* After a failed enable, and while its rollback waits, the disable is either
\* about to be applied or applied.
RollbackInv ==
  /\ hist.failedEnable => svc.pc = "idle"
  /\ svc.pc \in {"rollback", "rollback_wait"} => ~svc.enable
  /\ hist.failedEnable \/ svc.pc = "rollback_wait" =>
       box.power = "off" \/ (box.power = "none" /\ ~cp.power_enabled)

\* The power request on its way from the processor to shared memory.
RequestInv ==
  /\ {alive, sawDown, lost} \subseteq BOOLEAN
  /\ cmd.power = cp.power_enabled
  /\ ~rt.active => ~cp.power_enabled
  /\ drv = "starting" => ~shm.powerstate
  /\ drv = "down" => ~sawDown /\ \A a \in Axes : word[a].control = "SHUTDOWN"

\* Once the drives are lost no request stands, unless the monitor is latched
\* and has not yet seen the request withdrawn.
LostInv ==
  lost =>
    /\ \A a \in Axes : word[a].control = "SHUTDOWN"
    /\ drv = "starting" => ~shm.poweron /\ (sawDown => ~cp.power_enabled)
    /\ drv = "cyclic" =>
         \/ ~cp.power_enabled /\ ~shm.poweron
         \/ mon.state = "Faulted" /\ shm.poweron /\ ~mon.seenPoweroff

\* An armed monitor that is not bypassed has told every drive to enable, and no
\* drive is disabled on command.
SwitchInv ==
  /\ MonitorInv(mon) /\ GroupInv(grp)
  /\ drv = "starting" => mon.state = "PowerOff"
  /\ drv = "cyclic" /\ mon.state = "Armed" =>
       /\ grp.power
       /\ ~Bypassed(grp) => \A a \in Axes : word[a].control = "ENABLE" /\ axis[a].state # "disabled"

StackInv == ArmInv /\ IghTypes /\ RollbackInv /\ RequestInv /\ LostInv /\ SwitchInv

LEMMA StackInitHolds == StackInit => StackInv
<1> SUFFICES ASSUME StackInit PROVE StackInv
  OBVIOUS
<1>1. ArmInv
  BY InitHolds DEF StackInit, Init
<1>2. /\ mon \in MonitorState /\ mon.state = "PowerOff" /\ ~mon.latched
      /\ grp \in GroupState /\ grp.toCst = "Idle" /\ grp.toCsp = "Idle"
      /\ ~grp.reentry /\ ~grp.pending /\ drv = "down" /\ shm \in Segments
  BY DEF StackInit, IghInit, NewMonitor, NewGroup, MonitorState, GroupState, Phases, AxisModes, Segments
<1>3. IghTypes
  BY <1>2 DEF StackInit, IghInit, IghTypes, DriveStates, AxisModes
<1>4. MonitorInv(mon) /\ GroupInv(grp)
  BY <1>2 DEF MonitorInv, GroupInv, Bypassed
<1>5. /\ cp.power_enabled = FALSE /\ cmd.power = FALSE /\ ~rt.active
      /\ hist.failedEnable = FALSE /\ svc.pc = "idle"
  BY DEF StackInit, ArmInit, NewProcessor, NewCommands, NewController, NewHistory, NewService
<1>6. /\ alive = FALSE /\ sawDown = FALSE /\ lost = FALSE
      /\ \A a \in Axes : word[a].control = "SHUTDOWN"
  BY DEF StackInit, IghInit
<1> QED BY <1>1, <1>2, <1>3, <1>4, <1>5, <1>6 DEF StackInv, RollbackInv, RequestInv, LostInv, SwitchInv

-----------------------------------------------------------------------------
(* The steps of the control process.                                        *)

LEMMA UpdatePower ==
  ASSUME ArmInv, NEW fb \in [Axes -> Statuses], NEW msg \in ServoMessages, NEW done \in BOOLEAN,
         Update(fb, msg, done)
  PROVE  /\ cp'.power_enabled = IF box.power = "none"
                                THEN cp.power_enabled /\ \A a \in Axes : fb[a] # "unknown"
                                ELSE box.power = "on"
         /\ cmd'.power = cp'.power_enabled /\ rt'.active = rt.active
         /\ box'.power = "none" /\ svc' = svc /\ hist'.failedEnable = hist.failedEnable
<1> DEFINE c == Planned(fb, msg)
<1>1. TypeOK /\ Good(cp)
  BY DEF ArmInv, TypeOK, Good
<1>2. Good(c) /\ PowerIs(c, fb)
  BY <1>1, PlannedLemma
<1>3. cp' = JointCommandState(c, ExecutionAllowed(c), done) /\ cmd'.power = c.power_enabled
  BY DEF Update
<1>4. ExecutionAllowed(c) \in BOOLEAN
  BY DEF ExecutionAllowed
<1> HIDE DEF c
<1>5. cp'.power_enabled = c.power_enabled
  BY <1>2, <1>3, <1>4, JointCommandStateLemma DEF SamePower
<1>6. rt'.active = rt.active
  BY <1>1 DEF Update, TypeOK
<1>7. hist'.failedEnable = hist.failedEnable /\ svc' = svc
  BY <1>1 DEF Update, TypeOK
<1>8. box'.power = "none"
  BY <1>1, UpdatedBuffers
<1> QED BY <1>2, <1>3, <1>5, <1>6, <1>7, <1>8 DEF PowerIs

LEMMA RollbackUpdate ==
  ASSUME ArmInv, RollbackInv, NEW fb \in [Axes -> Statuses], NEW msg \in ServoMessages,
         NEW done \in BOOLEAN, Update(fb, msg, done)
  PROVE  RollbackInv'
BY UpdatePower DEF RollbackInv

LEMMA RollbackStep ==
  ASSUME ArmInv, RollbackInv, Callback \/ PowerRequests \/ OnActivate \/ OnDeactivate
  PROVE  RollbackInv'
<1>1. TypeOK /\ cp \in CommandProcessor /\ box \in Buffers
  BY DEF ArmInv, TypeOK
<1>2. /\ svc \in [pc : {"idle", "submit", "wait", "rollback", "rollback_wait"}, enable : BOOLEAN]
      /\ hist \in [misled : BOOLEAN, local : BOOLEAN, resumed : {"no", "plan", "trajectory"},
                 failedEnable : BOOLEAN]
  BY <1>1 DEF TypeOK
<1>3. CASE Callback
  <2>1. box'.power = box.power
    BY <1>1, <1>3 DEF Callback, ReceiveServo, ReceiveAbsolute, ReceiveHeavy, ReceiveHeavyAgain,
                      ReceiveGate, ReceiveMode, Buffers
  <2>2. hist'.failedEnable = hist.failedEnable
    BY <1>2, <1>3 DEF Callback, ReceiveServo, ReceiveAbsolute, ReceiveHeavy, ReceiveHeavyAgain,
                      ReceiveGate, ReceiveMode
  <2>3. UNCHANGED <<svc, cp>>
    BY <1>3 DEF Callback, ReceiveServo, ReceiveAbsolute, ReceiveHeavy, ReceiveHeavyAgain,
                ReceiveGate, ReceiveMode
  <2> QED BY <2>1, <2>2, <2>3 DEF RollbackInv
<1>4. ASSUME NEW value \in {"on", "off"}, ReceivePower(value) PROVE RollbackInv'
  BY <1>2, <1>4 DEF RollbackInv, ReceivePower, CallbackMayRun
<1>5. ASSUME NEW enable \in BOOLEAN, PowerSubmit(enable) PROVE RollbackInv'
  BY <1>2, <1>5 DEF RollbackInv, PowerSubmit
<1>6. ASSUME PowerStore PROVE RollbackInv'
  <2>1. box'.power = IF svc.enable THEN "on" ELSE "off"
    BY <1>1, <1>6 DEF PowerStore, Buffers
  <2>2. svc'.enable = svc.enable /\ svc'.pc = IF svc.pc = "submit" THEN "wait" ELSE "rollback_wait"
    BY <1>2, <1>6 DEF PowerStore
  <2>3. svc.pc \in {"submit", "rollback"} /\ hist' = hist
    BY <1>6 DEF PowerStore
  <2> QED BY <2>1, <2>2, <2>3 DEF RollbackInv
<1>7. ASSUME PowerConfirmed PROVE RollbackInv'
  <2>1. svc'.pc = "idle" /\ hist'.failedEnable = (svc.pc = "rollback_wait") /\ UNCHANGED <<cp, box>>
    BY <1>2, <1>7 DEF PowerConfirmed
  <2> QED BY <2>1 DEF RollbackInv
<1>8. ASSUME PowerFailed PROVE RollbackInv'
  <2>1. CASE svc.enable
    <3>1. svc'.pc = "rollback" /\ svc'.enable = FALSE /\ svc.pc \in {"wait", "rollback_wait"}
          /\ hist' = hist
      BY <1>8, <2>1 DEF PowerFailed
    <3> QED BY <2>1, <3>1 DEF RollbackInv
  <2>2. CASE ~svc.enable
    <3>1. svc'.pc = "idle" /\ hist'.failedEnable = (svc.pc = "rollback_wait") /\ UNCHANGED <<cp, box>>
      BY <1>2, <1>8, <2>2 DEF PowerFailed
    <3> QED BY <3>1 DEF RollbackInv
  <2> QED BY <2>1, <2>2
<1>9. CASE OnActivate
  BY <1>9 DEF OnActivate, RollbackInv
<1>10. CASE OnDeactivate
  <2>1. box'.power = box.power /\ hist'.failedEnable = hist.failedEnable /\ UNCHANGED svc
    BY <1>1, <1>2, <1>10 DEF OnDeactivate, Buffers
  <2>2. ~cp'.power_enabled
    BY <1>1, <1>10, ResetLemma DEF OnDeactivate
  <2> QED BY <2>1, <2>2 DEF RollbackInv
<1> QED BY <1>3, <1>4, <1>5, <1>6, <1>7, <1>8, <1>9, <1>10 DEF PowerRequests

LEMMA FeedbackLemma ==
  ASSUME IghTypes, NEW up
  PROVE  /\ Feedback(up) \in [Axes -> Statuses]
         /\ ~(up /\ shm.powerstate) => ~(\A a \in Axes : Feedback(up)[a] # "unknown")
<1>1. shm.status \in [Axes -> {"unknown", "disabled", "enabled", "fault"}]
  BY DEF IghTypes, Segments
<1>2. Feedback(up) \in [Axes -> Statuses]
  BY <1>1 DEF Feedback, Statuses
<1>3. PICK a \in Axes : TRUE
  BY AxesAssumption
<1>4. ~(up /\ shm.powerstate) => Feedback(up)[a] = "unknown"
  BY <1>3 DEF Feedback
<1> QED BY <1>2, <1>3, <1>4

LEMMA ControlCycleKeeps ==
  ASSUME StackInv, NEW refresh \in BOOLEAN, NEW msg \in ServoMessages, NEW done \in BOOLEAN,
         ControlCycle(refresh, msg, done)
  PROVE  StackInv'
<1> DEFINE up == IF refresh THEN drv # "down" ELSE alive
           fb == Feedback(up)
<1>1. /\ IF rt.active THEN Update(fb, msg, done) ELSE UNCHANGED armVars
      /\ alive' = up /\ sawDown' = (sawDown \/ drv = "starting") /\ lost' = (lost /\ ~Raises(fb))
      /\ shm' = [shm EXCEPT !.poweron = cmd'.power /\ up,
                            !.mode = IF cmd'.mode = "EFFORT" THEN "CST" ELSE "CSP"]
      /\ UNCHANGED <<drv, mon, grp, axis, word>>
  BY DEF ControlCycle
<1>2. ArmInv /\ IghTypes /\ RollbackInv /\ RequestInv /\ LostInv /\ SwitchInv
  BY DEF StackInv
<1>3. up \in BOOLEAN
  BY <1>2 DEF RequestInv
<1> HIDE DEF up
<1>4. /\ fb \in [Axes -> Statuses]
      /\ ~(up /\ shm.powerstate) => ~(\A a \in Axes : fb[a] # "unknown")
  BY <1>2, FeedbackLemma
<1> HIDE DEF fb
<1>5. ArmInv' /\ RollbackInv'
  <2>1. CASE rt.active
    BY <1>1, <1>2, <1>4, <2>1, UpdateKeeps, RollbackUpdate
  <2>2. CASE ~rt.active
    <3>1. UNCHANGED armVars
      BY <1>1, <2>2
    <3>2. RollbackInv'
      BY <1>2, <3>1 DEF RollbackInv, armVars
    <3> QED BY <1>2, <3>1, <3>2, StutterKeeps
  <2> QED BY <2>1, <2>2
<1>6. /\ cmd'.power = cp'.power_enabled
      /\ ~rt'.active => ~cp'.power_enabled
      /\ lost' /\ cp'.power_enabled => cp.power_enabled /\ \A a \in Axes : fb[a] # "unknown"
  <2>1. CASE rt.active
    <3>1. Update(fb, msg, done)
      BY <1>1, <2>1
    <3>2. /\ cp'.power_enabled = IF box.power = "none"
                                 THEN cp.power_enabled /\ \A a \in Axes : fb[a] # "unknown"
                                 ELSE box.power = "on"
          /\ cmd'.power = cp'.power_enabled /\ rt'.active = rt.active
      BY <1>2, <1>4, <3>1, UpdatePower
    <3>3. Good(cp)
      BY <1>2 DEF ArmInv, TypeOK, Good
    <3>4. Raises(fb) <=> box.power = "on"
                         /\ ~(cp.power_enabled /\ \A a \in Axes : fb[a] # "unknown")
      BY <2>1, <3>3, UpdateJointStateLemma DEF Raises
    <3> QED BY <1>1, <2>1, <3>2, <3>4
  <2>2. CASE ~rt.active
    BY <1>1, <1>2, <2>2 DEF armVars, RequestInv
  <2> QED BY <2>1, <2>2
<1>7. /\ shm' \in Segments /\ shm'.poweron = (cmd'.power /\ up)
      /\ shm'.powerstate = shm.powerstate
  <2> DEFINE p == cmd'.power /\ up
             d == IF cmd'.mode = "EFFORT" THEN "CST" ELSE "CSP"
  <2>1. p \in BOOLEAN /\ d \in AxisModes
    BY DEF AxisModes
  <2>2. shm' = [shm EXCEPT !.poweron = p, !.mode = d] /\ shm \in Segments
    BY <1>1, <1>2 DEF IghTypes
  <2> HIDE DEF p, d
  <2>3. shm' \in Segments /\ shm'.poweron = p /\ shm'.powerstate = shm.powerstate
    BY <2>1, <2>2, ZenonT(60) DEF Segments
  <2> QED BY <2>3 DEF p
<1>8. IghTypes'
  BY <1>1, <1>2, <1>7 DEF IghTypes
<1>9. RequestInv'
  BY <1>1, <1>2, <1>3, <1>6, <1>7 DEF RequestInv
<1>10. LostInv'
  <2> SUFFICES ASSUME lost' PROVE LostInv'
    BY DEF LostInv
  <2>1. lost
    BY <1>1
  <2>2. drv = "starting" => ~cp'.power_enabled /\ ~shm'.poweron
    BY <1>2, <1>4, <1>6, <1>7 DEF RequestInv
  <2>3. drv = "cyclic" => \/ ~cp'.power_enabled /\ ~shm'.poweron
                          \/ mon.state = "Faulted" /\ shm'.poweron /\ ~mon.seenPoweroff
    BY <1>2, <1>4, <1>6, <1>7, <2>1 DEF LostInv
  <2> QED BY <1>1, <1>2, <2>1, <2>2, <2>3 DEF LostInv
<1>11. SwitchInv'
  BY <1>1, <1>2 DEF SwitchInv, MonitorInv, GroupInv, Bypassed
<1> QED BY <1>5, <1>8, <1>9, <1>10, <1>11 DEF StackInv

LEMMA ControlStepKeeps == ASSUME StackInv, ControlStep PROVE StackInv'
<1>1. ArmInv /\ IghTypes /\ RollbackInv /\ RequestInv /\ LostInv /\ SwitchInv
  BY DEF StackInv
<1>2. ArmInv'
  BY <1>1, StepKeeps DEF ControlStep, ArmStep
<1>3. RollbackInv'
  BY <1>1, RollbackStep DEF ControlStep
<1>4. UNCHANGED <<drv, mon, grp, axis, word, shm, alive, sawDown, lost>>
  BY DEF ControlStep, ighVars
<1>5. /\ cp'.power_enabled => cp.power_enabled
      /\ cmd'.power = cp'.power_enabled
      /\ ~rt'.active => ~cp'.power_enabled
  <2>1. cp \in CommandProcessor /\ TypeOK
    BY <1>1 DEF ArmInv, TypeOK
  <2>2. CASE Callback \/ PowerRequests
    <3>1. UNCHANGED <<cp, cmd, rt>>
      BY <2>2 DEF Callback, PowerRequests, ReceiveServo, ReceiveAbsolute, ReceiveHeavy,
                  ReceiveHeavyAgain, ReceiveGate, ReceiveMode, ReceivePower, PowerSubmit, PowerStore,
                  PowerConfirmed, PowerFailed
    <3> QED BY <1>1, <3>1 DEF RequestInv
  <2>3. CASE OnActivate
    BY <1>1, <2>1, <2>3 DEF OnActivate, RequestInv, TypeOK
  <2>4. CASE OnDeactivate
    <3>1. ~cp'.power_enabled /\ cp'.power_enabled \in BOOLEAN
      BY <2>1, <2>4, ResetLemma DEF OnDeactivate, Good, CommandProcessor
    <3>2. cmd'.power = FALSE
      BY <2>1, <2>4 DEF OnDeactivate, TypeOK
    <3> QED BY <3>1, <3>2
  <2> QED BY <2>2, <2>3, <2>4 DEF ControlStep
<1>6. IghTypes' /\ SwitchInv'
  BY <1>1, <1>4 DEF IghTypes, SwitchInv, MonitorInv, GroupInv, Bypassed
<1>7. RequestInv'
  BY <1>1, <1>4, <1>5 DEF RequestInv
<1>8. LostInv'
  BY <1>1, <1>4, <1>5 DEF LostInv
<1> QED BY <1>2, <1>3, <1>6, <1>7, <1>8 DEF StackInv

-----------------------------------------------------------------------------
(* The steps of the driver process and of the drives.                       *)

\* What does not involve the driver is kept by its steps.
LEMMA DriverLeavesArm ==
  ASSUME StackInv, UNCHANGED armVars
  PROVE  /\ ArmInv' /\ RollbackInv'
         /\ cmd'.power = cp'.power_enabled /\ cp'.power_enabled = cp.power_enabled
         /\ ~rt'.active => ~cp'.power_enabled
BY StutterKeeps DEF StackInv, RollbackInv, RequestInv, armVars

LEMMA DriverStartKeeps == ASSUME StackInv, DriverStep, DriverStart PROVE StackInv'
<1>1. ArmInv /\ IghTypes /\ RollbackInv /\ RequestInv /\ LostInv /\ SwitchInv
  BY DEF StackInv
<1>2. /\ drv = "down" /\ drv' = "starting" /\ mon' = NewMonitor /\ grp' = NewGroup
      /\ shm' = [shm EXCEPT !.poweron = FALSE, !.powerstate = FALSE,
                            !.status = [a \in Axes |-> "unknown"]]
      /\ UNCHANGED <<axis, word, armVars, alive>>
  BY DEF DriverStart, DriverStep
<1>3. sawDown' = FALSE /\ lost' = lost
  BY <1>1, <1>2 DEF DriverStep, RequestInv, NewMonitor
<1>4. shm' \in Segments /\ shm'.poweron = FALSE /\ shm'.powerstate = FALSE
  <2> DEFINE u == [a \in Axes |-> "unknown"]
  <2>1. u \in [Axes -> {"unknown", "disabled", "enabled", "fault"}]
    OBVIOUS
  <2> HIDE DEF u
  <2> QED BY <1>1, <1>2, <2>1, ZenonT(60) DEF IghTypes, Segments, u
<1>5. /\ mon' \in MonitorState /\ mon'.state = "PowerOff" /\ ~mon'.latched
      /\ grp' \in GroupState /\ grp'.toCst = "Idle" /\ grp'.toCsp = "Idle"
      /\ ~grp'.reentry /\ ~grp'.pending
  BY <1>2 DEF NewMonitor, NewGroup, MonitorState, GroupState, Phases, AxisModes
<1>6. IghTypes'
  BY <1>1, <1>2, <1>4, <1>5 DEF IghTypes
<1>7. RequestInv'
  BY <1>1, <1>2, <1>3, <1>4, DriverLeavesArm DEF RequestInv
<1>8. LostInv'
  BY <1>1, <1>2, <1>3, <1>4 DEF LostInv
<1>9. SwitchInv'
  BY <1>2, <1>5 DEF SwitchInv, MonitorInv, GroupInv, Bypassed
<1> QED BY <1>2, <1>6, <1>7, <1>8, <1>9, DriverLeavesArm DEF StackInv

LEMMA DriverOperationalKeeps ==
  ASSUME StackInv, DriverStep, sawDown, DriverOperational PROVE StackInv'
<1>1. ArmInv /\ IghTypes /\ RollbackInv /\ RequestInv /\ LostInv /\ SwitchInv
  BY DEF StackInv
<1>2. /\ drv = "starting" /\ drv' = "cyclic" /\ shm' = [shm EXCEPT !.powerstate = TRUE]
      /\ UNCHANGED <<mon, grp, axis, word, armVars, alive>>
  BY DEF DriverOperational, DriverStep
<1>3. sawDown' = sawDown /\ lost' = lost
  BY <1>1, <1>2 DEF DriverStep, RequestInv
<1>4. shm' \in Segments /\ shm'.poweron = shm.poweron
  BY <1>1, <1>2, ZenonT(60) DEF IghTypes, Segments
<1>5. IghTypes'
  BY <1>1, <1>2, <1>4 DEF IghTypes
<1>6. RequestInv'
  BY <1>1, <1>2, <1>3, DriverLeavesArm DEF RequestInv
<1>7. LostInv'
  BY <1>1, <1>2, <1>3, <1>4, DriverLeavesArm DEF LostInv
<1>8. SwitchInv'
  BY <1>1, <1>2 DEF SwitchInv, MonitorInv, GroupInv, Bypassed
<1> QED BY <1>2, <1>5, <1>6, <1>7, <1>8, DriverLeavesArm DEF StackInv

LEMMA DriverExitKeeps == ASSUME StackInv, DriverStep, DriverExit PROVE StackInv'
<1>1. ArmInv /\ IghTypes /\ RollbackInv /\ RequestInv /\ LostInv /\ SwitchInv
  BY DEF StackInv
<1>2. /\ drv' = "down"
      /\ axis' = [a \in Axes |-> [axis[a] EXCEPT !.state = IF @ = "fault" THEN @ ELSE "disabled"]]
      /\ word' = [a \in Axes |-> [word[a] EXCEPT !.control = "SHUTDOWN"]]
      /\ UNCHANGED <<mon, grp, shm, armVars, alive>>
  BY DEF DriverExit, DriverStep
<1>3. sawDown' = FALSE /\ lost' = TRUE
  BY <1>2 DEF DriverStep
<1>4. axis' \in [Axes -> [state : DriveStates, mode : AxisModes]]
  BY <1>1, <1>2 DEF IghTypes, DriveStates
<1>5. /\ word' \in [Axes -> [control : {"SHUTDOWN", "ENABLE", "FAULT_RESET"}, mode : AxisModes]]
      /\ \A a \in Axes : word'[a].control = "SHUTDOWN"
  BY <1>1, <1>2 DEF IghTypes
<1>6. IghTypes'
  BY <1>1, <1>2, <1>4, <1>5 DEF IghTypes
<1>7. RequestInv'
  BY <1>1, <1>2, <1>3, <1>5, DriverLeavesArm DEF RequestInv
<1>8. LostInv'
  BY <1>2, <1>5 DEF LostInv
<1>9. SwitchInv'
  BY <1>1, <1>2 DEF SwitchInv, MonitorInv, GroupInv, Bypassed
<1> QED BY <1>2, <1>6, <1>7, <1>8, <1>9, DriverLeavesArm DEF StackInv

LEMMA DriverCycleKeeps ==
  ASSUME StackInv, DriverStep, NEW still \in BOOLEAN, NEW near \in BOOLEAN, DriverCycle(still, near)
  PROVE  StackInv'
<1> DEFINE m == MonitorStep(mon, grp, shm.poweron)
           power == shm.poweron /\ ~m.force
           f == [ClearHoldContext(grp) EXCEPT !.power = FALSE]
           s == GroupStep(grp, power, still, near)
           g == IF m.force THEN f ELSE s
           w == [a \in Axes |-> IF m.force THEN [control |-> "SHUTDOWN", mode |-> axis[a].mode]
                                ELSE AxisWord(a, g, power)]
<1>1. ArmInv /\ IghTypes /\ RollbackInv /\ RequestInv /\ LostInv /\ SwitchInv
  BY DEF StackInv
<1>2. /\ drv = "cyclic" /\ mon' = m /\ grp' = g /\ word' = w
      /\ shm' = [shm EXCEPT !.status =
                   [a \in Axes |-> IF axis[a].state = "dropped" THEN "disabled" ELSE axis[a].state]]
      /\ UNCHANGED <<drv, axis, armVars, alive>>
  BY DEF DriverCycle, DriverStep
<1>3. /\ sawDown' = sawDown
      /\ lost' = (lost \/ (m.state = "Faulted" /\ mon.state # "Faulted"))
  BY <1>1, <1>2 DEF DriverStep, RequestInv
<1>4. shm.poweron \in BOOLEAN
  BY <1>1 DEF IghTypes, Segments
<1>5. /\ MonitorInv(m)
      /\ m.force <=> m.state = "Faulted"
      /\ m.state = "Faulted" /\ mon.state # "Faulted" =>
           mon.state = "Armed" /\ shm.poweron /\ ~m.seenPoweroff
      /\ mon.state = "Faulted" /\ shm.poweron /\ ~mon.seenPoweroff =>
           m.state = "Faulted" /\ ~m.seenPoweroff
      /\ m.state = "Armed" => shm.poweron /\ (AllEnabled \/ (mon.state = "Armed" /\ ~AnyFault))
  BY <1>1, <1>4, MonitorStepLemma DEF SwitchInv
<1>6. m.force \in BOOLEAN /\ m \in MonitorState
  BY <1>5 DEF MonitorInv, MonitorState
<1> HIDE DEF m
<1>7. power \in BOOLEAN /\ power = (shm.poweron /\ ~m.force)
  BY <1>4, <1>6
<1> HIDE DEF power
<1>8. GroupInv(f) /\ f.mode \in AxisModes
  <2> DEFINE c == ClearHoldContext(grp)
  <2>1. c \in GroupState /\ ~Bypassed(c) /\ c.toCst = "Idle"
    BY <1>1, ClearLemma DEF IghTypes
  <2> HIDE DEF c
  <2>2. /\ [c EXCEPT !.power = FALSE] \in GroupState
        /\ [c EXCEPT !.power = FALSE].toCst = c.toCst /\ [c EXCEPT !.power = FALSE].toCsp = c.toCsp
        /\ [c EXCEPT !.power = FALSE].reentry = c.reentry
        /\ [c EXCEPT !.power = FALSE].pending = c.pending
    BY <2>1, ZenonT(60) DEF GroupState
  <2>3. f \in GroupState /\ ~Bypassed(f) /\ f.toCst = "Idle"
    BY <2>1, <2>2 DEF Bypassed, c
  <2> HIDE DEF f
  <2> QED BY <2>3 DEF GroupInv, GroupState
<1> HIDE DEF f
<1>9. /\ GroupInv(s) /\ s.power = power
      /\ power /\ grp.power /\ Bypassed(grp) /\ ~Bypassed(s) => AllEnabled
  BY <1>1, <1>7, GroupStepLemma DEF SwitchInv
<1> HIDE DEF s
<1>10. GroupInv(g) /\ g \in GroupState /\ (~m.force => g = s)
  BY <1>6, <1>8, <1>9 DEF GroupInv
<1> HIDE DEF g
<1>11. \A a \in Axes :
         /\ AxisWord(a, g, power) \in [control : {"SHUTDOWN", "ENABLE", "FAULT_RESET"}, mode : AxisModes]
         /\ ~power => AxisWord(a, g, power).control = "SHUTDOWN"
         /\ power /\ ~Bypassed(g) /\ axis[a].state # "fault" => AxisWord(a, g, power).control = "ENABLE"
  BY <1>10 DEF AxisWord, ControlWord, ModeSwitchShutdown, Bypassed, GroupState, AxisModes
<1>12. /\ w \in [Axes -> [control : {"SHUTDOWN", "ENABLE", "FAULT_RESET"}, mode : AxisModes]]
       /\ \A a \in Axes : m.force \/ ~power => w[a].control = "SHUTDOWN"
       /\ \A a \in Axes : ~m.force /\ power /\ ~Bypassed(g) /\ axis[a].state # "fault" =>
                            w[a].control = "ENABLE"
  BY <1>1, <1>11 DEF IghTypes
<1> HIDE DEF w
<1>13. shm' \in Segments /\ shm'.poweron = shm.poweron /\ shm'.powerstate = shm.powerstate
  <2> DEFINE u == [a \in Axes |-> IF axis[a].state = "dropped" THEN "disabled" ELSE axis[a].state]
  <2>1. u \in [Axes -> {"unknown", "disabled", "enabled", "fault"}]
    BY <1>1 DEF IghTypes, DriveStates
  <2>2. shm' = [shm EXCEPT !.status = u]
    BY <1>2
  <2> HIDE DEF u
  <2> QED BY <1>1, <2>1, <2>2, ZenonT(60) DEF IghTypes, Segments
<1>14. IghTypes'
  BY <1>1, <1>2, <1>6, <1>10, <1>12, <1>13 DEF IghTypes
<1>15. RequestInv'
  BY <1>1, <1>2, <1>3, DriverLeavesArm DEF RequestInv
<1>16. LostInv'
  <2> SUFFICES ASSUME lost' PROVE LostInv'
    BY DEF LostInv
  <2>1. CASE lost /\ ~cp.power_enabled /\ ~shm.poweron
    BY <1>2, <1>7, <1>12, <1>13, <2>1, DriverLeavesArm DEF LostInv
  <2>2. CASE m.state = "Faulted" /\ shm.poweron /\ ~m.seenPoweroff
    BY <1>2, <1>5, <1>12, <1>13, <2>2 DEF LostInv
  <2> QED BY <1>1, <1>2, <1>3, <1>5, <2>1, <2>2 DEF LostInv
<1>17. SwitchInv'
  <2>1. m.state = "Armed" => g.power /\ power /\ ~m.force
    BY <1>5, <1>6, <1>7, <1>9, <1>10
  <2>2. ASSUME m.state = "Armed", ~Bypassed(g), NEW a \in Axes
        PROVE  w[a].control = "ENABLE" /\ axis[a].state # "disabled"
    <3>1. AllEnabled => axis[a].state = "enabled"
      BY DEF AllEnabled
    <3>2. ~AnyFault => axis[a].state # "fault"
      BY DEF AnyFault
    <3>3. ~AllEnabled => mon.state = "Armed" /\ ~AnyFault /\ grp.power /\ ~Bypassed(grp)
      BY <1>1, <1>2, <1>5, <1>9, <1>10, <2>1, <2>2 DEF SwitchInv
    <3>4. axis[a].state # "disabled"
      BY <1>1, <1>2, <3>1, <3>3 DEF SwitchInv
    <3> QED BY <1>12, <2>1, <2>2, <3>1, <3>2, <3>3, <3>4
  <2>3. MonitorInv(mon') /\ GroupInv(grp')
    BY <1>2, <1>5, <1>10
  <2> QED BY <1>2, <2>1, <2>2, <2>3 DEF SwitchInv, MonitorInv, GroupInv, Bypassed
<1> QED BY <1>2, <1>14, <1>15, <1>16, <1>17, DriverLeavesArm DEF StackInv

LEMMA DriveStepKeeps ==
  ASSUME StackInv, DriverStep, NEW a \in Axes, DriveObeys(a) \/ DriveFails(a)
  PROVE  StackInv'
<1>1. ArmInv /\ IghTypes /\ RollbackInv /\ RequestInv /\ LostInv /\ SwitchInv
  BY DEF StackInv
<1>2. UNCHANGED <<drv, mon, grp, word, shm, armVars, alive>>
  BY DEF DriveObeys, DriveFails, DriverStep
<1>3. /\ drv # "down" => sawDown' = sawDown /\ lost' = lost
      /\ drv = "down" => sawDown' = FALSE
      /\ lost' \in BOOLEAN
  BY <1>1, <1>2 DEF DriverStep, RequestInv
<1>4. /\ axis' \in [Axes -> [state : DriveStates, mode : AxisModes]]
      /\ \A b \in Axes : word[b].control = "ENABLE" /\ axis[b].state # "disabled" =>
                           axis'[b].state # "disabled"
  <2>1. /\ axis \in [Axes -> [state : DriveStates, mode : AxisModes]]
        /\ word[a].control \in {"SHUTDOWN", "ENABLE", "FAULT_RESET"} /\ word[a].mode \in AxisModes
    BY <1>1 DEF IghTypes
  <2>2. CASE DriveObeys(a)
    BY <2>1, <2>2 DEF DriveObeys, DriveStates
  <2>3. CASE DriveFails(a)
    BY <2>1, <2>3 DEF DriveFails, DriveStates
  <2> QED BY <2>2, <2>3
<1>5. IghTypes'
  BY <1>1, <1>2, <1>4 DEF IghTypes
<1>6. RequestInv'
  BY <1>1, <1>2, <1>3, DriverLeavesArm DEF RequestInv
<1>7. LostInv'
  BY <1>1, <1>2, <1>3, DriverLeavesArm DEF LostInv, RequestInv
<1>8. SwitchInv'
  BY <1>1, <1>2, <1>4 DEF SwitchInv, MonitorInv, GroupInv, Bypassed
<1> QED BY <1>2, <1>5, <1>6, <1>7, <1>8, DriverLeavesArm DEF StackInv

LEMMA StackNextKeeps == StackInv /\ [StackNext]_stackVars => StackInv'
<1> SUFFICES ASSUME StackInv, [StackNext]_stackVars PROVE StackInv'
  OBVIOUS
<1>1. CASE DriverStep
  <2>1. CASE sawDown /\ DriverOperational
    BY <1>1, <2>1, DriverOperationalKeeps
  <2>2. CASE DriverNext
    BY <1>1, <2>2, DriverStartKeeps, DriverExitKeeps, DriverCycleKeeps, DriveStepKeeps DEF DriverNext
  <2> QED BY <1>1, <2>1, <2>2 DEF DriverStep
<1>2. CASE ControlStep
  BY <1>2, ControlStepKeeps
<1>3. CASE \E refresh \in BOOLEAN, msg \in ServoMessages, done \in BOOLEAN :
          ControlCycle(refresh, msg, done)
  BY <1>3, ControlCycleKeeps
<1>4. CASE UNCHANGED stackVars
  <2>1. UNCHANGED armVars /\ UNCHANGED <<drv, mon, grp, axis, word, shm, alive, sawDown, lost>>
    BY <1>4 DEF stackVars, ighVars
  <2>2. ArmInv' /\ RollbackInv' /\ RequestInv'
    BY <2>1, DriverLeavesArm DEF StackInv, RequestInv
  <2>3. IghTypes' /\ LostInv' /\ SwitchInv'
    BY <2>1, DriverLeavesArm DEF StackInv, IghTypes, LostInv, SwitchInv, MonitorInv, GroupInv, Bypassed
  <2> QED BY <2>2, <2>3 DEF StackInv
<1> QED BY <1>1, <1>2, <1>3, <1>4 DEF StackNext

-----------------------------------------------------------------------------
\* The invariant of the stack is inductive.
THEOREM StackInvariant == StackSpec => []StackInv
<1> QED BY StackInitHolds, StackNextKeeps, PTL DEF StackSpec

\* An enable that the power service reported as failed is undone, whatever
\* topics, deactivations and lost drives interleave with its rollback.
THEOREM FailedEnablesAreUndone == StackSpec => []FailedEnableIsUndone
<1>1. StackInv => FailedEnableIsUndone
  BY DEF StackInv, RollbackInv, FailedEnableIsUndone
<1> QED BY <1>1, StackInvariant, PTL

\* After the drives were lost no drive is told to enable before a new enable
\* request is applied, across crashes and restarts of the driver.
THEOREM EnablesNeedRequests == StackSpec => []EnableNeedsRequest
<1>1. StackInv => EnableNeedsRequest
  BY DEF StackInv, LostInv, EnableNeedsRequest
<1> QED BY <1>1, StackInvariant, PTL

\* A CSP/CST switch is never taken for a fault, for any set of drives that must
\* be disabled to switch and any lengths of the hold phases.
THEOREM ModeSwitchesAreNotFaults == StackSpec => ModeSwitchIsNotAFault
<1> DEFINE A == mon'.state = "Faulted" /\ mon.state # "Faulted"
                  => \E a \in Axes : axis[a].state \in {"fault", "dropped"}
<1>1. StackInv /\ [StackNext]_stackVars => [A]_stackVars
  <2> SUFFICES ASSUME StackInv, StackNext, mon'.state = "Faulted", mon.state # "Faulted"
               PROVE  \E a \in Axes : axis[a].state \in {"fault", "dropped"}
    OBVIOUS
  <2>1. IghTypes /\ SwitchInv
    BY DEF StackInv
  <2>2. mon' # mon
    OBVIOUS
  <2>3. DriverNext
    BY <2>2 DEF StackNext, ControlCycle, ControlStep, ighVars, DriverStep, DriverOperational
  <2>4. \E still \in BOOLEAN, near \in BOOLEAN : DriverCycle(still, near)
    <3>1. ~DriverStart
      BY DEF DriverStart, NewMonitor
    <3> QED BY <2>2, <2>3, <3>1 DEF DriverNext, DriverExit, DriveObeys, DriveFails
  <2>5. drv = "cyclic" /\ mon' = MonitorStep(mon, grp, shm.poweron)
    BY <2>4 DEF DriverCycle
  <2>6. mon.state = "Armed" /\ (Abnormal(grp) \/ AnyFault)
    BY <2>1, <2>5, MonitorStepLemma DEF SwitchInv, IghTypes, Segments
  <2>7. CASE AnyFault
    BY <2>7 DEF AnyFault
  <2>8. CASE Abnormal(grp)
    <3>1. ~Bypassed(grp) /\ \E a \in Axes : axis[a].state # "enabled"
      BY <2>8 DEF Abnormal, AllEnabled
    <3> QED BY <2>1, <2>5, <2>6, <3>1 DEF SwitchInv, IghTypes, DriveStates
  <2> QED BY <2>6, <2>7, <2>8
<1> QED BY <1>1, StackInvariant, PTL DEF StackSpec, ModeSwitchIsNotAFault
==============================================================================
