------------------------------ MODULE ArmStack -------------------------------
(***************************************************************************)
(* The arm's control stack: the ROS control process (ArmController behind  *)
(* the hardware component erobot_hw_arm) and the EtherCAT driver process   *)
(* (IghDriver), which meet only in shared memory and run unsynchronised.   *)
(***************************************************************************)
EXTENDS ArmController, IghDriver

VARIABLES
  alive,    \* igh_driver_alive_, refreshed at most every 100 ms
  sawDown,  \* the control process has run a cycle since the driver started
  lost      \* history: the drives were lost and no enable request was applied since

stackVars == <<armVars, ighVars, alive, sawDown, lost>>

StackInit == ArmInit /\ IghInit /\ alive = FALSE /\ sawDown = FALSE /\ lost = FALSE

\* read: without a live driver and operational slaves every status is UNKNOWN.
Feedback(up) ==
  [a \in Axes |-> IF ~(up /\ shm.powerstate) THEN "unknown"
                  ELSE IF shm.status[a] = "fault" THEN "disabled" ELSE shm.status[a]]

\* An enable request changes power_enabled_ from false to true in this cycle.
Raises(fb) == rt.active /\ box.power = "on" /\ ~UpdateJointState(cp, fb).power_enabled

\* One cycle of the control process: read, update (if active), write.
ControlCycle(refresh, msg, done) ==
  LET up == IF refresh THEN drv # "down" ELSE alive IN
  /\ IF rt.active THEN Update(Feedback(up), msg, done) ELSE UNCHANGED armVars
  /\ alive' = up
  /\ shm' = [shm EXCEPT !.poweron = cmd'.power /\ up,
                        !.mode = IF cmd'.mode = "EFFORT" THEN "CST" ELSE "CSP"]
  /\ sawDown' = (sawDown \/ drv = "starting")
  /\ lost' = (lost /\ ~Raises(Feedback(up)))
  /\ UNCHANGED <<drv, mon, grp, axis, word>>

\* The other steps of each process.  Bringing the slaves to OP takes seconds,
\* thousands of control cycles: the control process has seen the cleared
\* real segment by then.
ControlStep ==
  /\ Callback \/ PowerRequests \/ OnActivate \/ OnDeactivate
  /\ UNCHANGED <<ighVars, alive, sawDown, lost>>

DriverStep ==
  /\ DriverNext \/ (sawDown /\ DriverOperational)
  /\ sawDown' = (sawDown /\ drv' # "down")
  /\ lost' = (lost \/ drv' = "down" \/ (mon'.state = "Faulted" /\ mon.state # "Faulted"))
  /\ UNCHANGED <<armVars, alive>>

StackNext ==
  \/ \E refresh \in BOOLEAN, msg \in ServoMessages, done \in BOOLEAN :
       ControlCycle(refresh, msg, done)
  \/ ControlStep
  \/ DriverStep

StackSpec == StackInit /\ [][StackNext]_stackVars

-----------------------------------------------------------------------------
\* After the drives were lost (the driver process ended or its monitor shut them
\* down) no drive is told to enable before a new enable request has been applied:
\* neither the request that was standing, nor shared memory left by a dead
\* process, nor a refreshed alive check brings power back.
EnableNeedsRequest == lost => \A a \in Axes : word[a].control = "SHUTDOWN"

\* The monitor never takes the disabling that a CSP/CST switch does by itself
\* for a fault: it shuts the drives down only when a drive reports a fault or
\* left operation enabled without being told to.
ModeSwitchIsNotAFault ==
  [][mon'.state = "Faulted" /\ mon.state # "Faulted"
       => \E a \in Axes : axis[a].state \in {"fault", "dropped"}]_stackVars
==============================================================================
