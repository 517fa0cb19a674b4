------------------------ MODULE LiftControllerProofs ------------------------
(***************************************************************************)
(* Proofs about the lift controller, for every set of command sources,     *)
(* every timeout and every bound.  Both theorems read only the mode and    *)
(* the power request, so the lemmas follow these two fields through the    *)
(* helpers of update, one lemma per helper.                                *)
(***************************************************************************)
EXTENDS LiftController, TLAPS

\* The power request of a controller state agrees with its mode.
PowerAgrees(s) ==
  /\ s.mode \in Started => s.power
  /\ s.mode \in {"fault", "estop"} => ~s.power

\* The record has the fields that the proofs read.
HasFields(s) == {"mode", "power", "step"} \subseteq DOMAIN s

\* The inductive invariant on a controller state.
Good(s) == HasFields(s) /\ PowerAgrees(s)

\* The fields that Good reads are the same in s and t.
SamePower(s, t) == DOMAIN t = DOMAIN s /\ t.mode = s.mode /\ t.power = s.power

\* What the second half of a cycle does when the driver gate is not ready.
Still(s) == Good(s) /\ s.mode \notin Moving

LEMMA SamePowerKeeps ==
  ASSUME NEW s, NEW t, SamePower(s, t)
  PROVE  (Good(s) => Good(t)) /\ (Still(s) => Still(t))
BY DEF SamePower, Good, Still, PowerAgrees, HasFields

-----------------------------------------------------------------------------
(* The helpers that do not touch the mode or the power request.             *)

LEMMA DrainLegacyLemma == ASSUME NEW s, HasFields(s) PROVE SamePower(s, DrainLegacy(s))
BY DEF DrainLegacy, SamePower, HasFields

LEMMA FailPendingHoldLemma == ASSUME NEW s, HasFields(s) PROVE SamePower(s, FailPendingHold(s))
BY DEF FailPendingHold, SamePower, HasFields

LEMMA WriteInterfacesLemma == ASSUME NEW s, HasFields(s) PROVE SamePower(s, WriteInterfaces(s))
BY DEF WriteInterfaces, SamePower, HasFields

LEMMA MarkConsumedLemma == ASSUME NEW s, HasFields(s) PROVE SamePower(s, MarkConsumed(s))
BY DEF MarkConsumed, SamePower, HasFields

LEMMA SampleLeaseLemma == ASSUME NEW s, HasFields(s) PROVE SamePower(s, SampleLease(s))
BY DEF SampleLease, SamePower, HasFields

LEMMA JogClockLemma == ASSUME NEW s, HasFields(s) PROVE SamePower(s, JogClock(s))
BY DEF JogClock, SamePower, HasFields

LEMMA ConfirmPendingHoldLemma ==
  ASSUME NEW s, NEW settled, HasFields(s) PROVE SamePower(s, ConfirmPendingHold(s, settled))
BY FailPendingHoldLemma DEF ConfirmPendingHold, SamePower, HasFields

LEMMA PublishAckLemma ==
  ASSUME NEW s, NEW heavy, NEW c, NEW ready, NEW selected, HasFields(s)
  PROVE  SamePower(s, PublishAck(s, heavy, c, ready, selected))
BY DEF PublishAck, SamePower, HasFields

(* The helpers that set the mode or the power request.                      *)

LEMMA EnterHoldLemma ==
  ASSUME NEW s, HasFields(s)
  PROVE  Still(EnterHold(s)) /\ EnterHold(s).mode = "hold" /\ DOMAIN EnterHold(s) = DOMAIN s
BY DEF EnterHold, Still, Good, PowerAgrees, Started, Moving, HasFields

LEMMA EnterFaultLemma ==
  ASSUME NEW s, HasFields(s)
  PROVE  Still(EnterFault(s)) /\ EnterFault(s).mode = "fault"
BY FailPendingHoldLemma DEF EnterFault, SamePower, Still, Good, PowerAgrees, Started, Moving, HasFields

LEMMA BeginBrakeGateLemma ==
  ASSUME NEW s, NEW c, HasFields(s)
  PROVE  Still(BeginBrakeGate(s, c))
BY DEF BeginBrakeGate, Still, Good, PowerAgrees, Started, Moving, HasFields

LEMMA BeginSoftStopLemma ==
  ASSUME NEW s, NEW completion, NEW holdGen, HasFields(s)
  PROVE  LET t == BeginSoftStop(s, completion, holdGen)
         IN  Still(t) /\ t.mode = "soft_stop" /\ DOMAIN t = DOMAIN s
BY DEF BeginSoftStop, Still, Good, PowerAgrees, Started, Moving, HasFields

LEMMA StopOrHoldLemma ==
  ASSUME NEW s, NEW c, NEW safety, Good(s)
  PROVE  Still(StopOrHold(s, c, safety))
<1> DEFINE a == IF safety
                THEN [s EXCEPT !.traj = 0, !.appliedCancel = c.gen,
                               !.pendTraj = IF s.pendTraj <= c.gen THEN 0 ELSE @] ELSE s
           holdGen == IF c.type = "hold" /\ safety THEN c.gen ELSE 0
           b == [a EXCEPT !.pendingHold = holdGen]
           d == [EnterHold(a) EXCEPT !.power = FALSE]
           e == BeginSoftStop(a, IF c.type = "hold" THEN "hold_powered" ELSE "disable", holdGen)
<1>1. HasFields(a)
  BY DEF Good, HasFields
<1>2. HasFields(b)
  BY <1>1 DEF HasFields
<1>3. Still(EnterHold(b)) /\ Still(e)
  BY <1>1, <1>2, EnterHoldLemma, BeginSoftStopLemma
<1>4. Still(d)
  BY <1>1, EnterHoldLemma DEF Still, Good, PowerAgrees, Started, Moving, HasFields
<1>5. StopOrHold(s, c, safety) \in {EnterHold(b), d, e}
  BY Zenon DEF StopOrHold
<1> QED
  BY <1>3, <1>4, <1>5

LEMMA StartOrUpdateLemma ==
  ASSUME NEW s, NEW c, NEW ready, Good(s)
  PROVE  Good(StartOrUpdate(s, c, ready))
<1> DEFINE a == [s EXCEPT !.gated = c, !.gatedValid = TRUE,
                          !.jogAge = IF c.type = "jog" THEN 0 ELSE @]
           b == [s EXCEPT !.jogAge = 0]
           d == [s EXCEPT !.traj = 0]
<1>1. Good(a) /\ Good(b) /\ Good(d)
  BY DEF Good, PowerAgrees, HasFields
<1>2. Good(BeginBrakeGate(d, c))
  BY <1>1, BeginBrakeGateLemma DEF Good, Still, HasFields
<1>3. StartOrUpdate(s, c, ready) \in {a, b, s, BeginBrakeGate(d, c)}
  BY Zenon DEF StartOrUpdate
<1> QED
  BY <1>1, <1>2, <1>3

LEMMA ActLemma ==
  ASSUME NEW s, NEW ready, Good(s) PROVE Good(Act(s, ready))
<1> DEFINE c == Buffered(s)
           a == [MarkConsumed(s) EXCEPT !.cur = c,
                   !.consumed = IF Source(s) = "legacy" THEN c.gen ELSE @]
<1>1. Good(MarkConsumed(s))
  BY MarkConsumedLemma, SamePowerKeeps DEF Good
<1>2. Good(a)
  BY <1>1 DEF Good, PowerAgrees, HasFields
<1>3. Good(StopOrHold(a, c, Source(s) = "safety")) /\ Good(StartOrUpdate(a, c, ready))
  BY <1>2, StopOrHoldLemma, StartOrUpdateLemma DEF Still
<1>4. Act(s, ready) \in {MarkConsumed(s), StopOrHold(a, c, Source(s) = "safety"),
                         StartOrUpdate(a, c, ready)}
  BY Zenon DEF Act
<1> QED
  BY <1>1, <1>3, <1>4

\* Behind the check of the driver gate nothing moves without the gate.
LEMMA GateLostLemma ==
  ASSUME NEW s, NEW ready, Good(s)
  PROVE  Good(GateLost(s, ready)) /\ (~ready => Still(GateLost(s, ready)))
<1> DEFINE a == [s EXCEPT !.gatedValid = FALSE, !.traj = 0]
           lost == s.mode \notin {"hold", "brake_gate", "estop"} /\ ~ready /\ s.power
<1>1. CASE lost
  <2>1. HasFields(a)
    BY DEF Good, HasFields
  <2>2. GateLost(s, ready) = EnterFault(a)
    BY <1>1, Zenon DEF GateLost
  <2> QED
    BY <2>1, <2>2, EnterFaultLemma DEF Still
<1>2. CASE ~lost
  <2>1. GateLost(s, ready) = s
    BY <1>2, Zenon DEF GateLost
  <2>2. ~ready => s.mode \notin Moving
    BY <1>2, Zenon DEF Good, PowerAgrees, Started, Moving, HasFields
  <2> QED
    BY <2>1, <2>2 DEF Still
<1> QED
  BY <1>1, <1>2

LEMMA ProfileCycleLemma ==
  ASSUME NEW s, NEW o, Good(s)
  PROVE  Good(ProfileCycle(s, o)) /\ (Still(s) => Still(ProfileCycle(s, o)))
<1> DEFINE a == [EnterHold(s) EXCEPT !.power = IF s.completion = "disable" THEN FALSE ELSE @]
           b == [s EXCEPT !.rest = FALSE]
<1>1. Still(EnterFault(s))
  BY EnterFaultLemma DEF Good, HasFields
<1>2. Still(a)
  BY EnterHoldLemma DEF Still, Good, PowerAgrees, Started, Moving, HasFields
<1>3. SamePower(s, b)
  BY DEF SamePower, HasFields
<1>4. ProfileCycle(s, o) \in {EnterFault(s), a, b}
  BY Zenon DEF ProfileCycle
<1> QED
  BY <1>1, <1>2, <1>3, <1>4, SamePowerKeeps DEF Still

\* A timed-out jog goes through a soft stop, whose first cycle runs at once.
LEMMA StoppedCycleLemma ==
  ASSUME NEW s, NEW o, Good(s)
  PROVE  Still(ProfileCycle(BeginSoftStop(s, "disable", 0), o))
BY BeginSoftStopLemma, ProfileCycleLemma DEF Still, Good, HasFields

LEMMA StartGatedMotionLemma ==
  ASSUME NEW s, Good(s), s.mode = "brake_gate" PROVE Good(StartGatedMotion(s))
<1> DEFINE a == [s EXCEPT !.gatedValid = FALSE]
           T == [a EXCEPT !.mode = "trajectory", !.atPoint = FALSE]
           J == [a EXCEPT !.mode = "jog", !.jogAge = 0]
           R == [a EXCEPT !.mode = "streaming"]
           P == [a EXCEPT !.mode = "position"]
           B == BeginSoftStop(a, "disable", 0)
<1>1. HasFields(a) /\ a.power
  BY Zenon DEF Good, PowerAgrees, Started, HasFields
<1>2. Good(T) /\ Good(J) /\ Good(R) /\ Good(P)
  BY <1>1 DEF Good, PowerAgrees, HasFields
<1>3. Good(B)
  BY <1>1, BeginSoftStopLemma DEF Still
<1>4. StartGatedMotion(s) \in {T, J, R, P, B}
  BY Zenon DEF StartGatedMotion
<1> QED
  BY <1>2, <1>3, <1>4

LEMMA BrakeGateLemma ==
  ASSUME NEW s, NEW ready, NEW elapsed, NEW o, Good(s), s.mode = "brake_gate"
  PROVE  /\ Good(BrakeGate(s, ready, elapsed, o))
         /\ ~ready => Still(BrakeGate(s, ready, elapsed, o))
<1> DEFINE late == s.gated.type = "jog" /\ s.jogAge > JogTimeout
           X == ProfileCycle(BeginSoftStop(s, "disable", 0), o)
           U == [s EXCEPT !.stable = FALSE, !.power = TRUE]
           W == [s EXCEPT !.stable = TRUE]
<1>1. Still(X) /\ Good(StartGatedMotion(s))
  BY StoppedCycleLemma, StartGatedMotionLemma
<1>2. Still(U) /\ Good(W)
  BY DEF Still, Good, PowerAgrees, Started, Moving, HasFields
<1>3. BrakeGate(s, ready, elapsed, o) \in {X, U, StartGatedMotion(s), W}
  BY Zenon DEF BrakeGate
<1>4. ~ready => BrakeGate(s, ready, elapsed, o) \in {X, U}
  BY Zenon DEF BrakeGate
<1> QED
  BY <1>1, <1>2, <1>3, <1>4 DEF Still

LEMMA JogCycleLemma ==
  ASSUME NEW s, NEW o, Good(s)
  PROVE  Good(JogCycle(s, o)) /\ (Still(s) => Still(JogCycle(s, o)))
<1>1. JogCycle(s, o) \in {ProfileCycle(BeginSoftStop(s, "disable", 0), o), ProfileCycle(s, o)}
  BY Zenon DEF JogCycle
<1> QED
  BY <1>1, StoppedCycleLemma, ProfileCycleLemma DEF Still

LEMMA TrajectoryCycleLemma ==
  ASSUME NEW s, NEW o, NEW last, Good(s)
  PROVE  /\ Good(TrajectoryCycle(s, o, last))
         /\ Still(s) => Still(TrajectoryCycle(s, o, last))
<1> DEFINE a == [s EXCEPT !.rest = FALSE, !.atPoint = @ \/ (o # "running" /\ last)]
<1>1. Still(EnterFault(s))
  BY EnterFaultLemma DEF Good, HasFields
<1>2. SamePower(s, a)
  BY DEF SamePower, HasFields
<1>3. TrajectoryCycle(s, o, last) \in {EnterFault(s), a}
  BY Zenon DEF TrajectoryCycle
<1> QED
  BY <1>1, <1>2, <1>3, SamePowerKeeps DEF Still

LEMMA MotionStepLemma ==
  ASSUME NEW s, NEW ready, NEW elapsed, NEW o, NEW last, Good(s)
  PROVE  LET t == MotionStep(s, ready, elapsed, o, last)
         IN  Good(t) /\ (~ready /\ Still(s) => Still(t))
<1> DEFINE t == MotionStep(s, ready, elapsed, o, last)
<1>1. CASE s.mode = "brake_gate"
  <2>1. t = BrakeGate(s, ready, elapsed, o)
    BY <1>1, Zenon DEF MotionStep
  <2> QED
    BY <1>1, <2>1, BrakeGateLemma
<1>2. CASE s.mode # "brake_gate"
  <2>1. t \in {JogCycle(s, o), TrajectoryCycle(s, o, last), ProfileCycle(s, o), s}
    BY <1>2, Zenon DEF MotionStep
  <2> QED
    BY <2>1, JogCycleLemma, TrajectoryCycleLemma, ProfileCycleLemma
<1> QED
  BY <1>1, <1>2

LEMMA TargetReachedLemma ==
  ASSUME NEW s, NEW o, Good(s)
  PROVE  Good(TargetReached(s, o)) /\ (Still(s) => Still(TargetReached(s, o)))
<1> DEFINE a == [s EXCEPT !.traj = 0]
<1>1. Still(EnterHold(a))
  BY EnterHoldLemma DEF Good, HasFields
<1>2. TargetReached(s, o) \in {EnterHold(a), s}
  BY Zenon DEF TargetReached
<1> QED
  BY <1>1, <1>2 DEF Still

LEMMA ZeroFrameResyncLemma ==
  ASSUME NEW s, Good(s)
  PROVE  Good(ZeroFrameResync(s)) /\ (Still(s) => Still(ZeroFrameResync(s)))
<1> DEFINE t == [s EXCEPT !.rezero = FALSE, !.traj = 0, !.gatedValid = FALSE, !.pendingHold = 0,
                   !.rest = TRUE, !.mode = IF @ \in {"fault", "estop"} THEN @ ELSE "hold"]
<1>1. HasFields(t) /\ t.power = s.power
      /\ t.mode = IF s.mode \in {"fault", "estop"} THEN s.mode ELSE "hold"
  BY DEF Good, HasFields
<1>2. Still(t)
  BY <1>1 DEF Still, Good, PowerAgrees, Started, Moving, HasFields
<1>3. ZeroFrameResync(s) \in {t, s}
  BY Zenon DEF ZeroFrameResync
<1> QED
  BY <1>2, <1>3 DEF Still

LEMMA LeaveEstopLemma == ASSUME NEW s, Good(s) PROVE Good(LeaveEstop(s))
<1>1. Good(DrainLegacy(s))
  BY DrainLegacyLemma, SamePowerKeeps DEF Good
<1>2. Good(EnterHold(DrainLegacy(s)))
  BY <1>1, EnterHoldLemma DEF Good, Still, HasFields
<1> QED
  BY <1>2 DEF LeaveEstop

LEMMA TakeTrajectoryLemma == ASSUME NEW s, Good(s) PROVE Good(TakeTrajectory(s))
<1> DEFINE d == [DrainLegacy(s) EXCEPT !.traj = 0, !.pendTraj = 0, !.leaseGen = s.gen]
           g == BeginBrakeGate(s, [NoCommand EXCEPT !.type = "trajectory"])
           h == [g EXCEPT !.traj = s.pendTraj, !.atPoint = FALSE, !.pendTraj = 0,
                   !.cur = [type |-> "trajectory", gen |-> s.pendTraj, seq |-> 0]]
<1>1. Good(d)
  <2>1. Good(DrainLegacy(s))
    BY DrainLegacyLemma, SamePowerKeeps DEF Good
  <2> QED
    BY <2>1 DEF Good, PowerAgrees, HasFields
<1>2. Good(h)
  <2>1. Good(g)
    BY BeginBrakeGateLemma DEF Good, Still, HasFields
  <2> QED
    BY <2>1 DEF Good, PowerAgrees, HasFields
<1>3. TakeTrajectory(s) \in {d, h, s}
  BY Zenon DEF TakeTrajectory
<1> QED
  BY <1>1, <1>2, <1>3

-----------------------------------------------------------------------------
(* The steps.                                                               *)

\* The second half of a cycle keeps the invariant, and ends without a motion
\* when the driver gate is not ready.
LEMMA UpdateEndLemma ==
  ASSUME NEW settled, NEW elapsed, NEW last, NEW o,
         Good(lc), UpdateEnd(settled, elapsed, last, o)
  PROVE  Good(lc') /\ (~GateReady => lc'.mode \notin Moving)
<1> DEFINE s1 == Act(lc, GateReady)
           g == GateLost(s1, GateReady)
           s2 == MotionStep(g, GateReady, elapsed, o, last)
           r == TargetReached(s2, o)
           z == ZeroFrameResync(r)
           s3 == WriteInterfaces(z)
           selected == \/ lc.mode = "streaming" /\ s1.mode = "streaming" /\ GateReady
                            /\ BufferedIsNew(lc) /\ Buffered(lc).type = "stream"
                       \/ s1.mode = "brake_gate" /\ s2.mode = "streaming"
           k == ConfirmPendingHold(s3, settled)
           p == PublishAck(k, HeavyNew(lc), lc.heavyBuf, GateReady, selected)
           j == JogClock(p)
<1>1. Good(g) /\ (~GateReady => Still(g))
  BY ActLemma, GateLostLemma
<1>2. Good(s2) /\ (~GateReady => Still(s2))
  BY <1>1, MotionStepLemma
<1>3. Good(z) /\ (~GateReady => Still(z))
  BY <1>2, TargetReachedLemma, ZeroFrameResyncLemma
<1>4. Good(k) /\ (~GateReady => Still(k))
  <2>1. SamePower(z, s3)
    BY <1>3, WriteInterfacesLemma, Zenon DEF Good
  <2> HIDE DEF z, s3
  <2>2. Good(s3) /\ (~GateReady => Still(s3))
    BY <1>3, <2>1, SamePowerKeeps
  <2>3. SamePower(s3, k)
    BY <2>2, ConfirmPendingHoldLemma, Zenon DEF Good
  <2> HIDE DEF k
  <2> QED
    BY <2>2, <2>3, SamePowerKeeps
<1>5. Good(j) /\ (~GateReady => Still(j))
  <2>1. SamePower(k, p)
    BY <1>4, PublishAckLemma, Zenon DEF Good
  <2> HIDE DEF k, p
  <2>2. Good(p) /\ (~GateReady => Still(p))
    BY <1>4, <2>1, SamePowerKeeps
  <2>3. SamePower(p, j)
    BY <2>2, JogClockLemma, Zenon DEF Good
  <2> HIDE DEF j
  <2> QED
    BY <2>2, <2>3, SamePowerKeeps
<1>6. lc' = [j EXCEPT !.step = "idle"]
  BY Zenon DEF UpdateEnd
<1>7. SamePower(j, lc')
  BY <1>6 DEF SamePower, HasFields
<1> QED
  BY <1>5, <1>7, SamePowerKeeps DEF Still

Unmoved == SamePower(lc, lc') /\ active' = active /\ lc'.step = lc.step

\* The callbacks change neither the mode nor the power request.
LEMMA CallbackLemma ==
  ASSUME Callback, HasFields(lc) PROVE Unmoved
<1>1. ASSUME NEW type, LegacyCommand(type) PROVE Unmoved
  BY <1>1 DEF LegacyCommand, Unmoved, SamePower, HasFields
<1>2. ASSUME NEW type, NEW seq, HeavyCommand(seq, type)
      PROVE  Unmoved
  BY <1>2 DEF HeavyCommand, Unmoved, SamePower, HasFields
<1>3. ASSUME NEW seq, HeavyRefused(seq) PROVE Unmoved
  BY <1>3 DEF HeavyRefused, Unmoved, SamePower, HasFields
<1>4. ASSUME NEW open, Gate(open) PROVE Unmoved
  <2>1. lc' \in {[lc EXCEPT !.lease = TRUE],
                [lc EXCEPT !.lease = FALSE, !.admitted = 0, !.applied = 0]} /\ active' = active
    BY <1>4, Zenon DEF Gate
  <2> QED
    BY <2>1 DEF Unmoved, SamePower, HasFields
<1>5. ASSUME NEW d, NEW rezero, DriverStatus(d, rezero)
      PROVE  Unmoved
  BY <1>5 DEF DriverStatus, Unmoved, SamePower, HasFields
<1>6. ASSUME NEW type, SafetyRequest(type) PROVE Unmoved
  BY <1>6 DEF SafetyRequest, EnqueueSafety, Unmoved, SamePower, HasFields
<1>7. ASSUME WriteCommand \/ TrajectoryCommand \/ WriteHeavy \/ SafetyStore \/ SafetyWrite
      PROVE  Unmoved
  BY <1>7
  DEF WriteCommand, TrajectoryCommand, WriteHeavy, SafetyStore, SafetyWrite, Unmoved, SamePower,
      HasFields
<1>8. ASSUME SafetyCheck \/ SafetyAnswer \/ SafetyTimeout
      PROVE  Unmoved
  <2>1. lc' \in {lc, [lc EXCEPT !.appliedCancel = cb.cmd.gen]} /\ active' = active
    BY <1>8, Zenon DEF SafetyCheck, SafetyAnswer, SafetyTimeout
  <2> QED
    BY <2>1 DEF Unmoved, SamePower, HasFields
<1> QED
  BY <1>1, <1>2, <1>3, <1>4, <1>5, <1>6, <1>7, <1>8, Zenon DEF Callback

\* The inductive invariant: the controller's record has its fields even
\* while it is inactive; the power request is tied to the mode once active.
PowerInv == HasFields(lc) /\ (active => PowerAgrees(lc))

\* One step keeps the invariant; there is one case for each action.
LEMMA PowerStep == ASSUME PowerInv, [Next]_vars PROVE PowerInv'
<1>1. CASE Callback
  <2>1. Unmoved
    BY <1>1, CallbackLemma DEF PowerInv
  <2> QED
    BY <2>1, Zenon DEF Unmoved, PowerInv, SamePower, PowerAgrees, HasFields
<1>2. CASE UpdateNotFinite
  <2>1. HasFields(lc)
    BY DEF PowerInv
  <2>2. PICK still \in BOOLEAN :
          lc' = WriteInterfaces([EnterFault(lc) EXCEPT !.rest = lc.rest, !.still = still])
    BY <1>2 DEF UpdateNotFinite
  <2> DEFINE t == [EnterFault(lc) EXCEPT !.rest = lc.rest, !.still = still]
  <2>3. Good(EnterFault(lc))
    BY <2>1, EnterFaultLemma DEF Still
  <2>4. SamePower(EnterFault(lc), t)
    BY DEF SamePower, HasFields
  <2>5. Good(t)
    BY <2>3, <2>4, SamePowerKeeps
  <2>6. SamePower(t, lc')
    BY <2>2, <2>5, WriteInterfacesLemma, Zenon DEF Good
  <2> HIDE DEF t
  <2>7. Good(lc')
    BY <2>5, <2>6, SamePowerKeeps
  <2> QED
    BY <2>7, Zenon DEF Good, PowerInv
<1>3. CASE UpdateEstop
  <2>1. HasFields(lc)
    BY DEF PowerInv
  <2>2. PICK still \in BOOLEAN :
          lc' = WriteInterfaces([DrainLegacy(lc) EXCEPT
                  !.mode = "estop", !.gatedValid = FALSE, !.traj = 0, !.pendTraj = 0,
                  !.rest = TRUE, !.power = FALSE, !.still = still, !.estopGen = lc.gen])
    BY <1>3 DEF UpdateEstop
  <2> DEFINE d == DrainLegacy(lc)
             t == [d EXCEPT !.mode = "estop", !.gatedValid = FALSE, !.traj = 0, !.pendTraj = 0,
                    !.rest = TRUE, !.power = FALSE, !.still = still, !.estopGen = lc.gen]
  <2>3. HasFields(d)
    BY <2>1, DrainLegacyLemma DEF SamePower, HasFields
  <2> HIDE DEF d
  <2>4. Good(t)
    BY <2>3 DEF Good, PowerAgrees, Started, Moving, HasFields
  <2>5. SamePower(t, lc')
    BY <2>2, <2>4, WriteInterfacesLemma, Zenon DEF d, Good
  <2> HIDE DEF t
  <2>6. Good(lc')
    BY <2>4, <2>5, SamePowerKeeps
  <2> QED
    BY <2>6, Zenon DEF Good, PowerInv
<1>4. CASE UpdateBegin
  <2>1. Good(lc)
    BY <1>4 DEF UpdateBegin, PowerInv, Good, HasFields
  <2>2. PICK still \in BOOLEAN :
          lc' = TakeTrajectory(SampleLease(LeaveEstop(
                  [lc EXCEPT !.still = still, !.step = "select"])))
    BY <1>4 DEF UpdateBegin
  <2> DEFINE t == [lc EXCEPT !.still = still, !.step = "select"]
  <2>3. Good(t)
    BY <2>1 DEF Good, PowerAgrees, HasFields
  <2>4. Good(SampleLease(LeaveEstop(t)))
    <3>1. Good(LeaveEstop(t))
      BY <2>3, LeaveEstopLemma
    <3> QED
      BY <3>1, SampleLeaseLemma, SamePowerKeeps, Zenon DEF Good
  <2>5. Good(lc')
    BY <2>2, <2>4, TakeTrajectoryLemma
  <2> QED
    BY <2>5 DEF Good, PowerInv, HasFields
<1>5. ASSUME NEW settled \in BOOLEAN, NEW elapsed \in BOOLEAN, NEW last \in BOOLEAN,
             NEW o \in Outcomes, UpdateEnd(settled, elapsed, last, o)
      PROVE  PowerInv'
  <2>1. Good(lc)
    BY <1>5, Zenon DEF UpdateEnd, PowerInv, Good
  <2>2. Good(lc')
    BY <1>5, <2>1, UpdateEndLemma
  <2> QED
    BY <2>2, Zenon DEF Good, PowerInv
<1>6. CASE OnActivate
  <2>1. HasFields(lc)
    BY DEF PowerInv
  <2>2. PICK still \in BOOLEAN :
          lc' = [DrainLegacy(WriteInterfaces([lc EXCEPT !.still = still])) EXCEPT
                  !.power = FALSE, !.rest = TRUE, !.consumedSafety = lc.safetyGen,
                  !.consumedHeavy = lc.heavyGen, !.leaseRt = FALSE, !.pendTraj = 0, !.traj = 0,
                  !.gatedValid = FALSE, !.mode = "hold", !.completion = "disable",
                  !.pendingHold = 0, !.cancel = lc.gen, !.appliedCancel = lc.gen]
    BY <1>6 DEF OnActivate
  <2> DEFINE t == DrainLegacy(WriteInterfaces([lc EXCEPT !.still = still]))
  <2>3. HasFields(t)
    BY <2>1, DrainLegacyLemma, WriteInterfacesLemma DEF SamePower, HasFields
  <2> HIDE DEF t
  <2>4. HasFields(lc') /\ lc'.mode = "hold"
    BY <2>2, <2>3 DEF t, HasFields
  <2> QED
    BY <2>4 DEF PowerInv, PowerAgrees, Started, Moving
<1>7. CASE OnDeactivate
  <2> DEFINE t == [lc EXCEPT !.lease = FALSE, !.leaseRt = FALSE, !.consumedHeavy = lc.heavyGen,
                             !.power = FALSE, !.rest = TRUE]
  <2>1. lc' = WriteInterfaces(t) /\ ~active'
    BY <1>7, Zenon DEF OnDeactivate
  <2>2. HasFields(t)
    BY DEF PowerInv, HasFields
  <2>3. SamePower(t, lc')
    BY <2>1, <2>2, WriteInterfacesLemma, Zenon
  <2> HIDE DEF t
  <2> QED
    BY <2>1, <2>2, <2>3, Zenon DEF PowerInv, SamePower, HasFields
<1>8. CASE GateChange \/ UNCHANGED vars
  <2>1. lc' = lc /\ active' = active
    BY <1>8, Zenon DEF GateChange, vars
  <2> QED
    BY <2>1 DEF PowerInv, PowerAgrees
<1> QED
  BY <1>1, <1>2, <1>3, <1>4, <1>5, <1>6, <1>7, <1>8, Zenon DEF Next, Update

LEMMA PowerInit == ASSUME Init PROVE PowerInv
BY DEF Init, PowerInv, HasFields

\* The power request agrees with the mode in every reachable state: a motion or
\* the wait at the brake gate asks for power, and a fault or an emergency stop
\* has withdrawn it (request_brake, lift_controller.cpp).
THEOREM PowerAlwaysFollowsMode == Spec => []PowerFollowsMode
<1>1. Init => PowerInv
  BY PowerInit
<1>2. PowerInv /\ [Next]_vars => PowerInv'
  BY PowerStep
<1>3. PowerInv => PowerFollowsMode
  BY Zenon DEF PowerInv, PowerFollowsMode, PowerAgrees
<1> QED
  BY <1>1, <1>2, <1>3, PTL DEF Spec

\* The control step of the theorem below: only the second half of update ends
\* a cycle, and behind its gate check nothing moves without the gate.
CycleWithoutGate ==
  (lc.step = "select" /\ lc'.step = "idle" /\ ~GateReady) => lc'.mode \notin Moving

LEMMA CycleStep == ASSUME PowerInv, [Next]_vars PROVE CycleWithoutGate
<1> SUFFICES ASSUME lc.step = "select", lc'.step = "idle", ~GateReady
             PROVE  lc'.mode \notin Moving
  BY DEF CycleWithoutGate
<1>1. ASSUME NEW settled, NEW elapsed, NEW last, NEW o, UpdateEnd(settled, elapsed, last, o)
      PROVE  lc'.mode \notin Moving
  <2>1. Good(lc)
    BY <1>1, Zenon DEF UpdateEnd, PowerInv, Good
  <2> QED
    BY <1>1, <2>1, UpdateEndLemma
<1>2. CASE Callback
  <2>1. lc'.step = lc.step
    BY <1>2, CallbackLemma DEF PowerInv, Unmoved
  <2> QED
    BY <2>1
<1>3. CASE UpdateNotFinite \/ UpdateEstop \/ UpdateBegin \/ OnActivate \/ OnDeactivate
  BY <1>3, Zenon DEF UpdateNotFinite, UpdateEstop, UpdateBegin, OnActivate, OnDeactivate
<1>4. CASE GateChange \/ UNCHANGED vars
  BY <1>4, Zenon DEF GateChange, vars
<1> QED
  BY <1>1, <1>2, <1>3, <1>4, Zenon DEF Next, Update

\* No control cycle ends in a motion while the driver gate is not ready
\* (the gate_lost_during_motion check of update, lift_controller.cpp).
THEOREM MotionNeedsTheGate == Spec => MovingNeedsGate
<1>1. Init => PowerInv
  BY PowerInit
<1>2. PowerInv /\ [Next]_vars => PowerInv'
  BY PowerStep
<1>3. PowerInv /\ [Next]_vars => [CycleWithoutGate]_vars
  BY CycleStep
<1>4. Spec => [][CycleWithoutGate]_vars
  BY <1>1, <1>2, <1>3, PTL DEF Spec
<1> QED
  BY <1>4, Zenon DEF MovingNeedsGate, CycleWithoutGate
=============================================================================
