---------------------------- MODULE HeavyGateway ----------------------------
(***************************************************************************)
(* The Heavy V1 execution-lease gateway (robot_lower_gateway,              *)
(* heavy_gateway_v1.cpp).  One remote owner at a time holds a lease; its   *)
(* commands become transactions that the arm and the lift controller must  *)
(* both acknowledge; watchdogs turn silence into a safety HOLD and then    *)
(* into the revocation of the lease; a native service drives the brake.    *)
(*                                                                         *)
(* The node runs on a multi-threaded executor with reentrant callback      *)
(* groups.  Everything mutex_ protects is the record "gw"; a region that   *)
(* holds the mutex is one atomic step, and what a handler does after it    *)
(* unlocks (publications, native calls) is a later step of its thread.     *)
(***************************************************************************)
EXTENDS Integers, Sequences, FiniteSets

CONSTANTS
  CommandThreads,    \* concurrent invocations of the command callback
  Releasers,         \* concurrent invocations of the release service
  ExecutorThreads,   \* threads of the MultiThreadedExecutor
  HasBrakeClient,    \* heavy_lift_brake_native_service is configured
  Workspaces,        \* the workspace states the environment reports
  LiftSamples,       \* the lift states the environment reports
  FeedbackMayFail,   \* required feedback may go stale
  HoldTimeout, LeaseTimeout, AckTimeout, RetryInterval,
  MaxLeases,         \* bound: leases granted in a behaviour
  CommandModes,      \* the modes the clients use
  SeqSpan,           \* lease l starts after the external sequence l * SeqSpan
  MaxSeq,            \* bound: external sequences that clients send
  GenSpace           \* internal generations are counted modulo this bound

ASSUME GatewayAssumption ==
  /\ ExecutorThreads \in Nat \ {0}
  /\ HasBrakeClient \in BOOLEAN
  /\ CommandModes \subseteq {"HOLD", "FOLLOW", "STOP"}
  /\ Workspaces \subseteq {"down", "starting", "no_mode", "real", "sim"}
  /\ LiftSamples \subseteq {"none", "locked", "enabled", "blocked"}
  /\ FeedbackMayFail \in BOOLEAN
  /\ HoldTimeout \in Nat \ {0} /\ LeaseTimeout \in Nat \ {0}
  /\ AckTimeout \in Nat /\ RetryInterval \in Nat \ {0}
  /\ RetryInterval < AckTimeout          \* configureParameters rejects the rest
  /\ MaxLeases \in Nat /\ GenSpace \in Nat /\ GenSpace > 2
  /\ SeqSpan \in Nat \ {0} /\ MaxSeq \in Nat
  /\ {"acquire", "watchdog", "service"} \cap CommandThreads = {}

VARIABLES
  ws,        \* last WorkspaceStatus ("down" when stale or not accepted;
             \* "no_mode": REAL and RUNNING, arm POSITION mode not ready)
  lift,      \* last LiftStatus ("none" when any required feedback is stale or invalid)
  gw,        \* the state mutex_ protects
  thread,    \* where each brake-capable handler invocation is
  waiting,   \* release calls waiting for their HOLD acknowledgement
  outbox,    \* publications a handler still owes after it unlocked
  gate       \* retained sample of the lease gate topic

env == <<ws, lift>>
vars == <<ws, lift, gw, thread, waiting, outbox, gate>>

-----------------------------------------------------------------------------
Modes == {"HOLD", "FOLLOW", "STOP"}
States == {"OFFLINE", "MONITOR", "LEASED_HOLD", "FOLLOWING", "STOPPING", "FAULT"}
Controllers == {"arm", "lift"}
Threads == {"acquire", "watchdog", "service"} \cup CommandThreads

Smaller(a, b) == IF a < b THEN a ELSE b
CmdAgeCap == IF LeaseTimeout > HoldTimeout THEN LeaseTimeout ELSE HoldTimeout + 1
NextGen(g) == IF g = GenSpace THEN 1 ELSE g + 1

\* The external sequences of lease l start after this one (l * 1000000 in the
\* code).  Nothing bounds them from above: a lease that lasts long enough
\* dispatches sequences beyond the base of the next lease.
BaseSequence(l) == l * SeqSpan
Messages == [lease : Nat, seq : Nat, mode : Modes]
NoMessage == [lease |-> 0, seq |-> 0, mode |-> "STOP"]

Idle == [pc |-> "idle", release |-> FALSE, msg |-> NoMessage]
NotWaiting == [age |-> -1, lease |-> 0]

\* The members of HeavyGatewayV1 that mutex_ guards.  Times are ages in clock
\* units that stop at the largest value the code tells apart; cmdAge = -1 is the
\* epoch time that acquire stores in last_command_time_.  A position is
\* abstracted to the lease during which it was measured (pFrom, capturedIn), and
\* appliedIn records the lease whose command applied_command_sequence_ shows:
\* no handler reads it, and an acquire does not reset the sequence.
Publications == [topic : {"gate", "command"}, active : BOOLEAN, gen : 0 .. GenSpace]
Owed == {<<a>> : a \in Publications} \cup (Publications \X Publications)

ThreadState ==
  [pc : {"idle", "native", "confirm", "confirmed", "rollback", "proceed", "abort"},
   release : BOOLEAN, msg : Messages]

GatewayState ==
  [active : BOOLEAN, gen : Nat, lastSeq : Nat, appliedSeq : Nat, appliedIn : Nat,
   aligned : BOOLEAN, firstUser : BOOLEAN, lastMode : Modes, state : States,
   captured : BOOLEAN, capturedIn : Nat,
   pValid : BOOLEAN, pGen : 0 .. GenSpace, pUser : BOOLEAN, pExt : Nat,
   pMode : Modes, pFrom : Nat, revoke : BOOLEAN,
   armAck : 0 .. GenSpace, liftAck : 0 .. GenSpace,
   sValid : BOOLEAN, sSeq : Nat, sMode : Modes,
   cmdAge : -1 .. CmdAgeCap, pendAge : 0 .. AckTimeout + 1, pubAge : 0 .. RetryInterval,
   locked : BOOLEAN, commanded : BOOLEAN, lockPending : BOOLEAN, lockForce : BOOLEAN,
   transition : BOOLEAN]

-----------------------------------------------------------------------------
(* Predicates on the last samples.                                          *)

WorkspaceReady == ws \in {"real", "sim"}
WorkspaceRunning == ws \in {"no_mode", "real", "sim"}
RealWorkspace == ws \in {"no_mode", "real"}
FeedbackReady == lift # "none"
LiftEnableReady == WorkspaceReady /\ FeedbackReady /\ lift # "blocked"
LiftPowerEnabled == lift = "enabled"

\* A fresh invocation of a callback needs an idle executor thread.
BusyThreads == Cardinality({t \in Threads : thread[t].pc # "idle"})
             + Cardinality({r \in Releasers : waiting[r].age >= 0})
             + Cardinality(outbox)
ThreadFree == BusyThreads < ExecutorThreads

-----------------------------------------------------------------------------
(* The ...Locked helpers, as functions of the guarded state.                *)

QueueBrakeLock(s, force) ==
  IF s.locked \/ s.transition \/ s.lockPending
  THEN s
  ELSE [s EXCEPT !.lockPending = TRUE, !.lockForce = force]

NewestAdmitted(s) ==
  LET p == IF s.pValid /\ s.pUser /\ s.pExt > s.lastSeq THEN s.pExt ELSE s.lastSeq
  IN  IF s.sValid /\ s.sSeq > p THEN s.sSeq ELSE p

\* pending_command_valid_ and staged_command_valid_ := false.  The code leaves
\* some fields of a dropped entry behind; no guard reads them before the next
\* entry overwrites them, and here they return to their initial values.
DropPending(s) ==
  [s EXCEPT !.pValid = FALSE, !.pUser = FALSE, !.pExt = 0, !.pMode = "HOLD", !.pFrom = 0,
            !.pendAge = 0, !.pubAge = 0, !.armAck = 0, !.liftAck = 0]

DropStaged(s) == [s EXCEPT !.sValid = FALSE, !.sSeq = 0, !.sMode = "HOLD"]

\* clearHeavyLeaseLocked: a no-op without a lease.  The captured watchdog
\* position survives, as it does in the code; cmdAge is not read without a lease.
ClearLease_KeepsTransaction(s) ==
  IF ~s.active THEN s
  ELSE [DropStaged(s) EXCEPT !.active = FALSE, !.aligned = FALSE, !.cmdAge = -1,
                             !.state = "MONITOR"]

ClearLease(s) ==
  IF ~s.active THEN s
  ELSE [DropStaged(DropPending(s)) EXCEPT
          !.active = FALSE, !.aligned = FALSE, !.revoke = FALSE, !.cmdAge = -1,
          !.state = "MONITOR"]

\* A new transaction: the next internal generation, nothing acknowledged yet.
Submit(s, user, ext, mode, from, revoke) ==
  [s EXCEPT !.pValid = TRUE, !.pGen = NextGen(s.pGen), !.pUser = user, !.pExt = ext,
            !.pMode = mode, !.pFrom = from, !.revoke = revoke, !.armAck = 0, !.liftAck = 0,
            !.pendAge = 0, !.pubAge = 0]

\* beginSafetyHoldLocked.  "watchdog" marks the command-timeout HOLD, the only
\* one that captures a position; a revoking HOLD reuses a captured position.
BeginSafetyHold_KeepsState(s, revoke, watchdog) ==
  IF ~s.active THEN s
  ELSE [Submit(DropStaged(s), FALSE, 0, "HOLD", s.gen, revoke) EXCEPT !.lastMode = "HOLD"]

BeginSafetyHold(s, revoke, watchdog) ==
  IF ~s.active THEN s
  ELSE LET c == IF watchdog /\ ~s.captured
                THEN [s EXCEPT !.captured = TRUE, !.capturedIn = s.gen] ELSE s
           from == IF c.captured /\ (watchdog \/ revoke) THEN c.capturedIn ELSE c.gen
           p == [Submit(DropStaged(c), FALSE, 0, "HOLD", from, revoke) EXCEPT
                   !.state = IF revoke THEN "STOPPING" ELSE "LEASED_HOLD"]
           q == IF revoke THEN QueueBrakeLock(p, TRUE)
                ELSE IF s.lastMode = "FOLLOW" THEN QueueBrakeLock(p, FALSE) ELSE p
       IN  [q EXCEPT !.lastMode = "HOLD"]

\* dispatchUserCommandLocked.
DispatchUserCommand(s, seq, mode) ==
  LET p == [Submit(s, TRUE, seq, mode, s.gen, FALSE) EXCEPT
              !.lastSeq = seq, !.cmdAge = 0, !.captured = FALSE]
      q == IF mode = "HOLD" /\ (s.lastMode = "FOLLOW" \/ s.firstUser)
           THEN QueueBrakeLock(p, FALSE)
           ELSE IF mode = "STOP" THEN QueueBrakeLock(p, TRUE) ELSE p
  IN  [q EXCEPT !.firstUser = FALSE, !.lastMode = mode,
                !.state = CASE mode = "FOLLOW" -> "FOLLOWING"
                            [] mode = "STOP" -> "STOPPING"
                            [] OTHER -> "LEASED_HOLD"]

\* validateCommandLocked.  The payload checks (protocol, fields, limits, arm
\* power) reject without touching the state: a message that fails them is not
\* in Messages and its arrival is a stuttering step.
ValidCommand_BeforeAlignment(s, m, allowPowerOff) ==
  /\ s.active /\ m.lease = s.gen
  /\ WorkspaceReady /\ FeedbackReady
  /\ (m.mode = "FOLLOW" /\ RealWorkspace) =>
       /\ lift # "blocked"
       /\ s.locked => HasBrakeClient
       /\ allowPowerOff \/ LiftPowerEnabled

ValidCommand(s, m, allowPowerOff) ==
  /\ s.active /\ m.lease = s.gen
  /\ m.mode = "FOLLOW" => s.aligned
  /\ WorkspaceReady /\ FeedbackReady
  /\ (m.mode = "FOLLOW" /\ RealWorkspace) =>
       /\ lift # "blocked"
       /\ s.locked => HasBrakeClient
       /\ allowPowerOff \/ LiftPowerEnabled

\* updateStateWithoutLeaseLocked.
UpdateStateWithoutLease_WrongCode(s, grace) ==
  IF s.active THEN s ELSE [s EXCEPT !.state = ws]

UpdateStateWithoutLease(s, grace) ==
  IF s.active THEN s
  ELSE [s EXCEPT !.state = CASE ws = "starting" -> "OFFLINE"
                             [] ws # "starting" /\ WorkspaceReady /\ FeedbackReady -> "MONITOR"
                             [] OTHER -> IF grace THEN "OFFLINE" ELSE "FAULT"]

\* takePendingBrakeActionLocked: the flag transition rises when a lock is taken.
TakePendingBrakeAction_IgnoresForce(s, stationary) ==
  IF ~s.lockPending \/ s.transition \/ s.locked THEN s
  ELSE IF ~HasBrakeClient THEN [s EXCEPT !.lockPending = FALSE]
  ELSE IF ~stationary THEN s
  ELSE [s EXCEPT !.lockPending = FALSE, !.lockForce = FALSE, !.transition = TRUE]

TakePendingBrakeAction(s, stationary) ==
  IF ~s.lockPending \/ s.transition \/ s.locked THEN s
  ELSE IF ~HasBrakeClient THEN [s EXCEPT !.lockPending = FALSE]
  ELSE IF ~s.lockForce /\ ~stationary THEN s
  ELSE [s EXCEPT !.lockPending = FALSE, !.lockForce = FALSE, !.transition = TRUE]

\* The locked end of executeBrakeAction.
CommitBrake_KeepsFlagOnFailure(s, confirmed, release) ==
  IF confirmed
  THEN [s EXCEPT !.transition = FALSE, !.locked = ~release, !.commanded = ~release]
  ELSE s

CommitBrake(s, confirmed, release) ==
  IF confirmed
  THEN [s EXCEPT !.transition = FALSE, !.locked = ~release, !.commanded = ~release]
  ELSE [s EXCEPT !.transition = FALSE]

GateItem(active) == [topic |-> "gate", active |-> active, gen |-> 0]
CommandItem(s) == [topic |-> "command", active |-> TRUE, gen |-> s.pGen]

-----------------------------------------------------------------------------
Init ==
  /\ ws = "down" /\ lift = "none"
  /\ gw = [active |-> FALSE, gen |-> 0, lastSeq |-> 0, appliedSeq |-> 0, appliedIn |-> 0,
           aligned |-> FALSE, firstUser |-> TRUE, lastMode |-> "STOP", state |-> "OFFLINE",
           captured |-> FALSE, capturedIn |-> 0,
           pValid |-> FALSE, pGen |-> 0, pUser |-> FALSE, pExt |-> 0,
           pMode |-> "HOLD", pFrom |-> 0, revoke |-> FALSE, armAck |-> 0, liftAck |-> 0,
           sValid |-> FALSE, sSeq |-> 0, sMode |-> "HOLD",
           cmdAge |-> -1, pendAge |-> 0, pubAge |-> 0,
           locked |-> TRUE, commanded |-> FALSE, lockPending |-> FALSE, lockForce |-> FALSE,
           transition |-> FALSE]
  /\ thread = [t \in Threads |-> Idle]
  /\ waiting = [r \in Releasers |-> NotWaiting]
  /\ outbox = {} /\ gate = FALSE

(* Feedback callbacks and the passing of time.  The callbacks are short, and *)
(* a busy executor only delays them.                                        *)

\* Entering simulation discards every older feedback sample; after a gap in the
\* status ("down") the previous sample may have been a simulation already.
WorkspaceStatus(x) ==
  /\ ws' = x
  /\ lift' \in IF x = "sim" /\ ws # "sim"
               THEN IF ws = "down" THEN {"none", lift} ELSE {"none"}
               ELSE {lift}
  /\ UNCHANGED <<gw, thread, waiting, outbox, gate>>

\* The brake reported with a lift sample: a blocked or invalid one has either.
LockReported(x) ==
  CASE x = "enabled" -> {FALSE} [] x = "locked" -> {TRUE} [] OTHER -> BOOLEAN

\* LiftStatus is authoritative for the brake latch until a lock was committed.
LiftStatus_TrustsEverySample(x) ==
  /\ lift' = x
  /\ \E b \in LockReported(x) : gw' = [gw EXCEPT !.locked = b]
  /\ UNCHANGED <<ws, thread, waiting, outbox, gate>>

LiftStatus(x) ==
  /\ lift' = x
  /\ \E b \in LockReported(x) : gw' = IF gw.commanded THEN gw ELSE [gw EXCEPT !.locked = b]
  /\ UNCHANGED <<ws, thread, waiting, outbox, gate>>

\* A joint, arm power or lift sample is missing for longer than its timeout.
FeedbackStale ==
  /\ FeedbackMayFail /\ lift # "none" /\ lift' = "none"
  /\ UNCHANGED <<ws, gw, thread, waiting, outbox, gate>>

Tick ==
  /\ gw' = [gw EXCEPT !.cmdAge = IF @ < 0 THEN @ ELSE Smaller(@ + 1, CmdAgeCap),
                      !.pendAge = IF gw.pValid THEN Smaller(@ + 1, AckTimeout + 1) ELSE @,
                      !.pubAge = IF gw.pValid THEN Smaller(@ + 1, RetryInterval) ELSE @]
  /\ waiting' = [r \in Releasers |->
       IF waiting[r].age < 0 THEN waiting[r]
       ELSE [waiting[r] EXCEPT !.age = Smaller(@ + 1, AckTimeout)]]
  /\ UNCHANGED <<env, thread, outbox, gate>>

(* handleAcquire.  The acquire thread being busy is the flag                *)
(* lease_acquisition_in_progress_.                                          *)

AcquireBegin ==
  /\ ThreadFree /\ gw.gen < MaxLeases
  /\ thread["acquire"].pc = "idle" /\ ~gw.active
  /\ LiftEnableReady
  /\ LiftPowerEnabled \/ HasBrakeClient
  /\ IF RealWorkspace /\ ~LiftPowerEnabled
     THEN /\ gw' = [gw EXCEPT !.transition = TRUE]
          /\ thread' = [thread EXCEPT !["acquire"] = [Idle EXCEPT !.pc = "native", !.release = TRUE]]
     ELSE /\ thread' = [thread EXCEPT !["acquire"] = [Idle EXCEPT !.pc = "proceed"]]
          /\ UNCHANGED gw
  /\ UNCHANGED <<env, waiting, outbox, gate>>

Grantable ==
  ~gw.active /\ LiftEnableReady /\ (RealWorkspace => LiftPowerEnabled)

GrantLease(s) ==
  Submit([DropStaged(s) EXCEPT !.gen = s.gen + 1, !.lastSeq = BaseSequence(s.gen + 1),
                   !.active = TRUE, !.aligned = FALSE, !.firstUser = TRUE, !.lastMode = "STOP",
                   !.cmdAge = -1, !.state = "MONITOR"],
         FALSE, 0, "HOLD", s.gen + 1, FALSE)

AcquireGrant ==
  /\ thread["acquire"].pc = "proceed" /\ Grantable
  /\ gw' = GrantLease(gw)
  /\ outbox' = outbox \cup {<<GateItem(TRUE), CommandItem(gw')>>}
  /\ thread' = [thread EXCEPT !["acquire"] = Idle]
  /\ UNCHANGED <<env, waiting, gate>>

\* The lift enable was not confirmed, or a condition no longer holds, or the
\* controller endpoints are not ready.
AcquireRefuse ==
  /\ thread["acquire"].pc \in {"proceed", "abort"}
  /\ thread' = [thread EXCEPT !["acquire"] = Idle]
  /\ UNCHANGED <<env, gw, waiting, outbox, gate>>

(* executeBrakeAction, run by thread t without the mutex.                   *)

AfterBrake(t, confirmed) ==
  CASE t = "acquire" -> IF confirmed THEN [Idle EXCEPT !.pc = "proceed"] ELSE [Idle EXCEPT !.pc = "abort"]
    [] t \in CommandThreads /\ confirmed -> [thread[t] EXCEPT !.pc = "proceed", !.release = FALSE]
    [] OTHER -> Idle

EndBrakeAction(t, confirmed) ==
  /\ gw' = CommitBrake(gw, confirmed, thread[t].release)
  /\ thread' = [thread EXCEPT ![t] = AfterBrake(t, confirmed)]
  /\ UNCHANGED <<env, waiting, outbox, gate>>

BrakeFailed(t) == thread[t].pc \in {"native", "rollback"} /\ EndBrakeAction(t, FALSE)

\* A native reply is delivered by another executor thread; without one the
\* bounded wait of callNativeServiceBounded fails.
BrakeLocked(t) ==
  ThreadFree /\ thread[t].pc = "native" /\ ~thread[t].release /\ EndBrakeAction(t, TRUE)

BrakeReleased(t) == thread[t].pc = "confirmed" /\ EndBrakeAction(t, TRUE)

\* The native service accepted the release; in REAL mode, which a workspace that
\* is not running may still report, the drive's Operation Enabled must follow
\* within the enable timeout.
ReleaseReplied(t) ==
  /\ ThreadFree /\ thread[t].pc = "native" /\ thread[t].release
  /\ \E real \in IF WorkspaceRunning THEN {RealWorkspace} ELSE BOOLEAN :
       thread' = [thread EXCEPT ![t].pc = IF real THEN "confirm" ELSE "confirmed"]
  /\ UNCHANGED <<env, gw, waiting, outbox, gate>>

\* The lift sample decides, also while other feedback is stale.
ReleaseConfirmed(t) ==
  /\ thread[t].pc = "confirm"
  /\ \E enabled \in IF lift = "none" THEN BOOLEAN ELSE {LiftPowerEnabled} :
       thread' = [thread EXCEPT ![t].pc = IF enabled THEN "confirmed" ELSE "rollback"]
  /\ UNCHANGED <<env, gw, waiting, outbox, gate>>

(* handleCommand: the first locked region decides on a brake release, the   *)
(* second one admits the command.                                           *)

NeedsBrakeRelease(m) ==
  /\ m.mode = "FOLLOW" /\ gw.active /\ ~gw.pValid /\ ~gw.sValid
  /\ m.lease = gw.gen /\ m.seq > NewestAdmitted(gw)
  /\ gw.locked /\ ~gw.transition /\ HasBrakeClient
  /\ ValidCommand(gw, m, TRUE) /\ LiftEnableReady

CommandArrives(t, m) ==
  /\ ThreadFree /\ thread[t].pc = "idle"
  /\ IF NeedsBrakeRelease(m)
     THEN /\ gw' = [gw EXCEPT !.transition = TRUE]
          /\ thread' = [thread EXCEPT ![t] = [pc |-> "native", release |-> TRUE, msg |-> m]]
     ELSE /\ thread' = [thread EXCEPT ![t] = [pc |-> "proceed", release |-> FALSE, msg |-> m]]
          /\ UNCHANGED gw
  /\ UNCHANGED <<env, waiting, outbox, gate>>

Admissible_AcceptsDuplicate(m) ==
  gw.state # "FAULT" /\ ValidCommand(gw, m, FALSE) /\ m.seq >= NewestAdmitted(gw)

Admissible(m) ==
  gw.state # "FAULT" /\ ValidCommand(gw, m, FALSE) /\ m.seq > NewestAdmitted(gw)

CommandRejected(t) ==
  /\ thread[t].pc = "proceed"
  /\ \/ ~Admissible(thread[t].msg)
     \/ gw.pValid /\ thread[t].msg.mode = "FOLLOW" /\ gw.locked
  /\ thread' = [thread EXCEPT ![t] = Idle]
  /\ UNCHANGED <<env, gw, waiting, outbox, gate>>

Stage_RefreshesLease(s, m) ==
  [s EXCEPT !.sValid = TRUE, !.sSeq = m.seq, !.sMode = m.mode, !.cmdAge = 0]

Stage(s, m) == [s EXCEPT !.sValid = TRUE, !.sSeq = m.seq, !.sMode = m.mode]

CommandStaged(t) ==
  LET m == thread[t].msg IN
  /\ thread[t].pc = "proceed" /\ Admissible(m)
  /\ gw.pValid /\ ~(m.mode = "FOLLOW" /\ gw.locked)
  /\ gw' = Stage(gw, m)
  /\ thread' = [thread EXCEPT ![t] = Idle]
  /\ UNCHANGED <<env, waiting, outbox, gate>>

CommandDispatched_LatestWins(t) ==
  LET m == thread[t].msg IN
  /\ thread[t].pc = "proceed" /\ Admissible(m)
  /\ gw' = DispatchUserCommand(gw, m.seq, m.mode)
  /\ outbox' = outbox \cup {<<CommandItem(gw')>>}
  /\ thread' = [thread EXCEPT ![t] = Idle]
  /\ UNCHANGED <<env, waiting, gate>>

CommandDispatched(t) ==
  LET m == thread[t].msg IN
  /\ thread[t].pc = "proceed" /\ Admissible(m) /\ ~gw.pValid
  /\ gw' = DispatchUserCommand(gw, m.seq, m.mode)
  /\ outbox' = outbox \cup {<<CommandItem(gw')>>}
  /\ thread' = [thread EXCEPT ![t] = Idle]
  /\ UNCHANGED <<env, waiting, gate>>

(* handleAck: only an acknowledgement of the pending generation counts; the *)
(* second one completes the transaction.                                    *)

AckRecorded(s, c, g) ==
  IF c = "arm" THEN [s EXCEPT !.armAck = g] ELSE [s EXCEPT !.liftAck = g]

BothAcked(s) == s.armAck = s.pGen /\ s.liftAck = s.pGen

TransactionDone_StagedFirst(s) ==
  LET a == [DropPending(s) EXCEPT !.aligned = TRUE, !.state = "LEASED_HOLD"]
  IN  IF s.sValid THEN DropStaged(DispatchUserCommand(a, s.sSeq, s.sMode))
      ELSE IF s.revoke THEN ClearLease(a) ELSE a

TransactionDone_ForgetsAlignment(s) ==
  LET a == [DropPending(s) EXCEPT !.appliedSeq = IF s.pUser THEN s.pExt ELSE @]
  IN  IF s.revoke THEN ClearLease(a)
      ELSE IF s.sValid THEN DropStaged(DispatchUserCommand(a, s.sSeq, s.sMode)) ELSE a

TransactionDone(s) ==
  LET a == [DropPending(s) EXCEPT
                     !.appliedSeq = IF s.pUser THEN s.pExt ELSE @,
                     !.appliedIn = IF s.pUser THEN s.gen ELSE @, !.aligned = TRUE,
                     !.state = IF ~s.aligned \/ (@ = "STOPPING" /\ ~s.revoke)
                               THEN "LEASED_HOLD" ELSE @]
  IN  IF s.revoke THEN ClearLease(a)
      ELSE IF s.sValid
           THEN DropStaged(DispatchUserCommand(a, s.sSeq, s.sMode))
           ELSE a

HandleAck(c, g) ==
  LET a == AckRecorded(gw, c, g) IN
  /\ IF ~gw.pValid \/ g # gw.pGen THEN UNCHANGED <<gw, outbox>>
     ELSE IF ~BothAcked(a) THEN gw' = a /\ UNCHANGED outbox
     ELSE /\ gw' = TransactionDone(a)
          /\ outbox' = outbox \cup (IF a.revoke THEN {<<GateItem(FALSE)>>}
                                    ELSE IF a.sValid THEN {<<CommandItem(gw')>>} ELSE {})
  /\ UNCHANGED <<env, thread, waiting, gate>>

(* handleRelease: a safety HOLD that revokes, then a bounded wait for it.   *)

ReleaseBegin(r) ==
  /\ ThreadFree /\ waiting[r].age < 0 /\ gw.active
  /\ IF ~WorkspaceRunning
     THEN /\ gw' = ClearLease(gw)
          /\ outbox' = outbox \cup {<<GateItem(FALSE)>>}
          /\ UNCHANGED waiting
     ELSE /\ gw' = BeginSafetyHold(gw, TRUE, FALSE)
          /\ waiting' = [waiting EXCEPT ![r] = [age |-> 0, lease |-> gw.gen]]
          /\ UNCHANGED outbox
  /\ UNCHANGED <<env, thread, gate>>

ReleaseDone(r) ==
  /\ waiting[r].age >= 0 /\ ~gw.active
  /\ waiting' = [waiting EXCEPT ![r] = NotWaiting]
  /\ UNCHANGED <<env, gw, thread, outbox, gate>>

\* The wait ran out with a lease active: that lease is cleared.
ReleaseTimedOut_NeedsAck(r) ==
  /\ waiting[r].age >= AckTimeout /\ gw.active /\ ~gw.pValid
  /\ gw' = ClearLease(gw)
  /\ outbox' = outbox \cup {<<GateItem(FALSE)>>}
  /\ waiting' = [waiting EXCEPT ![r] = NotWaiting]
  /\ UNCHANGED <<env, thread, gate>>

ReleaseTimedOut(r) ==
  /\ waiting[r].age >= AckTimeout /\ gw.active
  /\ gw' = ClearLease(gw)
  /\ outbox' = outbox \cup {<<GateItem(FALSE)>>}
  /\ waiting' = [waiting EXCEPT ![r] = NotWaiting]
  /\ UNCHANGED <<env, thread, gate>>

(* handleLiftBrake: the explicit brake service.                             *)

LiftBrake(release) ==
  /\ ThreadFree /\ HasBrakeClient
  /\ release = gw.locked /\ ~gw.transition
  /\ release => LiftEnableReady
  /\ gw' = [gw EXCEPT !.transition = TRUE]
  /\ thread["service"].pc = "idle"
  /\ thread' = [thread EXCEPT !["service"] = [Idle EXCEPT !.pc = "native", !.release = release]]
  /\ UNCHANGED <<env, waiting, outbox, gate>>

(* watchdogAndFeedbackTick: the branches of the locked region in their      *)
(* order, each on the state the previous one left.                          *)

CommandTimeout(s) ==
  IF s.active /\ ~s.pValid /\ s.state = "FOLLOWING" /\ s.cmdAge > HoldTimeout
  THEN BeginSafetyHold(s, FALSE, TRUE) ELSE s

LeaseExpiry(s) ==
  IF s.active /\ s.cmdAge >= LeaseTimeout
  THEN BeginSafetyHold(s, TRUE, FALSE) ELSE s

RevocationFallback(s) ==
  IF s.active /\ s.revoke /\ s.pValid /\ s.pendAge > AckTimeout
  THEN ClearLease(s) ELSE s

AckTimeoutFault_KeepsLease(s) ==
  IF s.active /\ s.pValid /\ s.pendAge > AckTimeout /\ s.state # "FAULT"
  THEN QueueBrakeLock([s EXCEPT !.state = "FAULT"], TRUE) ELSE s

AckTimeoutFault_UserOnly(s) ==
  IF s.active /\ s.pValid /\ s.pUser /\ s.pendAge > AckTimeout /\ s.state # "FAULT"
  THEN ClearLease(QueueBrakeLock([s EXCEPT !.state = "FAULT"], TRUE)) ELSE s

AckTimeoutFault(s) ==
  IF s.active /\ s.pValid /\ s.pendAge > AckTimeout /\ s.state # "FAULT"
  THEN ClearLease(QueueBrakeLock([s EXCEPT !.state = "FAULT"], TRUE)) ELSE s

RetryDue(s) ==
  s.active /\ s.pValid /\ s.pendAge < AckTimeout /\ s.pubAge >= RetryInterval

ResourceLost_IgnoresFeedback(s) == s.active /\ ~s.revoke /\ ~WorkspaceReady

ResourceLost(s) ==
  \/ s.active /\ ~s.revoke /\ ~WorkspaceReady
  \/ s.active /\ (s.revoke \/ WorkspaceReady) /\ ~FeedbackReady
       /\ s.state \notin {"FAULT", "STOPPING"}

ResourceLoss(s) ==
  IF ResourceLost(s) THEN ClearLease(BeginSafetyHold(s, TRUE, FALSE)) ELSE s

\* The end of the locked region: what the tick still owes after it unlocks, a
\* gate message, a retry of s2's command, a brake action taken from s3.
WatchdogEnds(s2, s3, s4) ==
  LET ended == gw.active /\ ~s3.active
      owed == IF ended /\ RetryDue(s2) THEN {<<GateItem(FALSE), CommandItem(s2)>>}
              ELSE IF ended THEN {<<GateItem(FALSE)>>}
              ELSE IF RetryDue(s2) THEN {<<CommandItem(s2)>>} ELSE {}
      locks == s4.transition /\ ~s3.transition
  IN  /\ ThreadFree /\ (locks => thread["watchdog"].pc = "idle")
      /\ gw' = s4
      /\ outbox' = outbox \cup owed
      /\ thread' = IF locks THEN [thread EXCEPT !["watchdog"] = [Idle EXCEPT !.pc = "native"]]
                   ELSE thread
      /\ UNCHANGED <<env, waiting, gate>>

WatchdogTick(stationary, grace) ==
  \E s1 \in {LeaseExpiry(CommandTimeout(gw))} :
  \E s2 \in {AckTimeoutFault(RevocationFallback(s1))} :
  \E s3 \in {UpdateStateWithoutLease(ResourceLoss(s2), grace)} :
  \E s4 \in {TakePendingBrakeAction(s3, stationary)} :
    WatchdogEnds(s2, s3, s4)

(* The publications a handler makes after it released the mutex.            *)
(* publishInternalCommand restarts the retry interval when it gets the lock *)
(* and its command is still the pending one.                                *)

Rest(p) == IF Len(p) = 1 THEN {} ELSE {Tail(p)}

Publish(p, gotLock) ==
  /\ outbox' = (outbox \ {p}) \cup Rest(p)
  /\ IF Head(p).topic = "gate"
     THEN gate' = Head(p).active /\ UNCHANGED gw
     ELSE /\ gw' = IF gotLock /\ gw.pValid /\ gw.pGen = Head(p).gen
                   THEN [gw EXCEPT !.pubAge = 0] ELSE gw
          /\ UNCHANGED gate
  /\ UNCHANGED <<env, thread, waiting>>

-----------------------------------------------------------------------------
\* A controller can acknowledge a generation only after its publication.
Acknowledgeable(g) ==
  \A p \in outbox : \A i \in DOMAIN p : p[i].topic = "command" => p[i].gen # g

Brake(t) ==
  BrakeFailed(t) \/ BrakeLocked(t) \/ BrakeReleased(t) \/ ReleaseReplied(t) \/ ReleaseConfirmed(t)

CommandContinues(t) == CommandRejected(t) \/ CommandStaged(t) \/ CommandDispatched(t)

Environment ==
  \/ \E x \in Workspaces : WorkspaceStatus(x)
  \/ \E x \in LiftSamples : LiftStatus(x)
  \/ FeedbackStale
  \/ Tick

Handlers ==
  \/ AcquireBegin \/ AcquireGrant \/ AcquireRefuse
  \/ \E t \in Threads : Brake(t)
  \/ \E t \in CommandThreads, l \in 1 .. gw.gen, mode \in CommandModes :
       \E seq \in 1 .. MaxSeq :
         CommandArrives(t, [lease |-> l, seq |-> seq, mode |-> mode])
  \/ \E t \in CommandThreads : CommandContinues(t)
  \/ \E r \in Releasers : ReleaseBegin(r) \/ ReleaseDone(r) \/ ReleaseTimedOut(r)
  \/ \E b \in BOOLEAN : LiftBrake(b)
  \/ \E stationary, grace \in BOOLEAN : WatchdogTick(stationary, grace)
  \/ \E p \in outbox, b \in BOOLEAN : Publish(p, b)

Next ==
  \/ Environment
  \/ Handlers
  \/ \E c \in Controllers, g \in 1 .. GenSpace :
       ThreadFree /\ Acknowledgeable(g) /\ HandleAck(c, g)

Spec == Init /\ [][Next]_vars

(* Fairness.  The executor serves every ready callback: a thread past its   *)
(* unlock goes on, the native call and the bounded waits return, the clock  *)
(* advances, and the 100 Hz timer, which the executor looks at before       *)
(* subscriptions and services, is served again and again.                   *)
Fairness ==
  /\ WF_vars(Tick)
  /\ SF_vars(\E stationary, grace \in BOOLEAN : WatchdogTick(stationary, grace))
  /\ WF_vars(AcquireGrant \/ AcquireRefuse)
  /\ \A t \in Threads : WF_vars(Brake(t))
  /\ \A t \in CommandThreads : WF_vars(CommandContinues(t))
  /\ \A r \in Releasers : WF_vars(ReleaseDone(r) \/ ReleaseTimedOut(r))
  /\ WF_vars(\E p \in outbox, b \in BOOLEAN : Publish(p, b))

FairSpec == Spec /\ Fairness

-----------------------------------------------------------------------------
(* Type invariant.                                                          *)

TypeOK ==
  /\ ws \in {"down", "starting", "no_mode", "real", "sim"}
  /\ lift \in {"none", "locked", "enabled", "blocked"}
  /\ gw \in GatewayState
  /\ thread \in [Threads -> ThreadState]
  /\ waiting \in [Releasers -> [age : -1 .. AckTimeout, lease : Nat]]
  /\ outbox \subseteq Owed
  /\ gate \in BOOLEAN

(* Safety.                                                                  *)

\* A transaction in flight belongs to a lease, a staged command waits behind a
\* transaction, and a pending revocation is the safety HOLD of handleRelease or
\* of a watchdog: clearHeavyLeaseLocked leaves nothing that a late
\* acknowledgement could complete.
TransactionOwned(s) ==
  /\ s.pValid => s.active
  /\ s.sValid => s.pValid
  /\ s.revoke => s.pValid /\ ~s.pUser /\ s.state = "STOPPING"

TransactionBelongsToLease == TransactionOwned(gw)

\* A lease whose aligning HOLD is not confirmed always has a transaction in
\* flight, so that the acknowledgement timeout bounds the alignment, and no
\* FOLLOW is in flight or in force before the alignment or without the command
\* clock that the watchdogs read.
AlignedFirst(s) ==
  /\ s.active /\ ~s.aligned => s.pValid /\ ~s.pUser
  /\ (s.pValid /\ s.pMode = "FOLLOW") \/ s.state = "FOLLOWING"
       => s.active /\ s.aligned /\ s.cmdAge >= 0

AlignmentBeforeFollow == AlignedFirst(gw)

\* A lease is never held in FAULT or OFFLINE: every path that reports a fault
\* also ends the lease, so the next owner can always acquire.
NoLeaseInFault == gw.active => gw.state \notin {"FAULT", "OFFLINE"}

\* The external sequences of one lease: base <= applied < in flight < staged.
\* The command in flight is the one dispatched last, it was not applied before
\* under its lease, and a command that a client of an earlier lease sent, whose
\* sequences may lie above this lease's base, is never among them.
Ordered(s) ==
  /\ s.active => s.lastSeq >= BaseSequence(s.gen)
  /\ s.appliedIn <= s.gen
  /\ s.appliedIn = s.gen => s.appliedSeq <= s.lastSeq
  /\ s.pValid /\ s.pUser =>
       /\ s.pExt = s.lastSeq /\ s.pExt > BaseSequence(s.gen)
       /\ s.appliedIn = s.gen => s.pExt > s.appliedSeq
  /\ s.sValid => s.sSeq > s.lastSeq

SequencesOrdered == Ordered(gw)

\* Once a lock was committed, no LiftStatus sample alone unlocks the latch.
CommittedLockIsLatched == gw.commanded => gw.locked

(* What a step may never do.                                                *)

SameLease == gw.active /\ gw'.active /\ gw'.gen = gw.gen

\* A revocation in progress ends only with its lease: no command, timeout or
\* acknowledgement turns a revoking lease back into a usable one.
RevocationIsFinal == [][SameLease /\ gw.revoke => gw'.revoke]_vars

\* The lease deadline moves only when a user command is dispatched with a new,
\* larger sequence; receiving, staging, duplicating or acknowledging a command
\* never extends the lease.
OnlyDispatchExtendsLease ==
  [][SameLease /\ gw.cmdAge # 0 /\ gw'.cmdAge = 0
       => gw'.pUser /\ gw'.pGen # gw.pGen /\ gw'.lastSeq > gw.lastSeq]_vars

\* A client command never replaces the transaction in flight: the next one is
\* dispatched in the step in which the second controller acknowledged, and an
\* accepted command that was in flight is then reported as applied.
InFlightNotReplaced ==
  [][gw.pValid /\ gw'.pValid /\ gw'.pUser /\ gw'.pGen # gw.pGen
       => /\ gw.armAck = gw.pGen \/ gw.liftAck = gw.pGen
          /\ gw.pUser => gw'.appliedSeq = gw.pExt]_vars

\* Whatever state it finds, one watchdog run leaves no overdue transaction, no
\* FOLLOWING without recent commands, no expired lease that is not being
\* revoked, and no usable lease without workspace and feedback.
Overdue ==
  \/ gw.pValid /\ gw.pendAge > AckTimeout
  \/ gw.state = "FOLLOWING" /\ ~gw.pValid /\ gw.cmdAge > HoldTimeout
  \/ gw.active /\ gw.cmdAge >= LeaseTimeout /\ ~gw.revoke
  \/ gw.active /\ ~gw.revoke /\ ~(WorkspaceReady /\ FeedbackReady) /\ gw.state # "STOPPING"

WatchdogEnforcesDeadlines ==
  [][Overdue' => ~\E stationary, grace \in BOOLEAN : WatchdogTick(stationary, grace)]_vars

(* The contract with the lease owner.                                       *)

PhaseOf(s) ==
  CASE ~s.active -> "none"
    [] s.active /\ s.revoke -> "revoking"
    [] s.active /\ ~s.revoke /\ ~s.aligned -> "aligning"
    [] s.active /\ ~s.revoke /\ s.aligned -> "usable"

ModeOf(s) == IF s.active THEN s.lastMode ELSE "none"

Lease == INSTANCE ExecutionLease
  WITH Span <- SeqSpan, lease <- gw.gen, phase <- PhaseOf(gw), mode <- ModeOf(gw),
       last <- gw.lastSeq

\* The transactions, stagings, retries, watchdogs and brake calls implement the
\* execution lease: one owner at a time, no FOLLOW before the alignment, each
\* dispatch above the last one of its lease, nothing but the end after a
\* revocation.
LeaseContract == Lease!Spec

(* Liveness under FairSpec.                                                 *)

\* A transaction that is not a revocation is completed, replaced or abandoned:
\* the acknowledgement timeout bounds it even when no controller answers.
TransactionResolves ==
  \A g \in 1 .. GenSpace :
    (gw.pValid /\ gw.pGen = g /\ ~gw.revoke) ~> ~(gw.pValid /\ gw.pGen = g /\ ~gw.revoke)

\* A release call returns whether or not the controllers acknowledge.
ReleaseReturns == \A r \in Releasers : (waiting[r].age >= 0) ~> (waiting[r].age < 0)

\* The transition flag is never left behind: every native brake call returns
\* and clears it, so the brake stays operable.
BrakeTransitionEnds == gw.transition ~> ~gw.transition

\* A forced lock that queueBrakeLockLocked accepted (STOP, expiry, release,
\* acknowledgement fault) reaches the brake: the lift is locked or a handler is
\* in the native lock call, moving lift or not.  Other native calls, failed
\* ones and a whole release in between only delay it.
LockCallRuns == \E t \in Threads : thread[t].pc = "native" /\ ~thread[t].release

ForcedLockReachesBrake ==
  (gw.lockPending /\ gw.lockForce) ~> (gw.locked \/ LockCallRuns)

\* Silence while FOLLOWING ends FOLLOWING, by HOLD or by the end of the lease.
FollowingNeedsCommands ==
  (gw.state = "FOLLOWING" /\ gw.cmdAge > HoldTimeout) ~> (gw.state # "FOLLOWING" \/ gw.cmdAge = 0)

(* Statements about the code that the code does not keep: TLC refutes each  *)
(* of them with the constants that the README names.                        *)

\* "the outcome is unchanged and bounded in time" (the expiry comment): an
\* expired lease ends although its HOLD is never acknowledged.
ExpiredLeaseEnds == (gw.active /\ gw.cmdAge >= LeaseTimeout) ~> ~gw.active

\* "FOLLOW is never forwarded with a known locked brake."
FollowNeverForwardedLocked ==
  [][gw'.pGen # gw.pGen /\ gw'.pValid /\ gw'.pMode = "FOLLOW" => ~gw.locked]_vars

\* A safety HOLD commands a position measured under the lease it ends.
HoldPositionIsCurrent == gw.pValid => gw.pFrom = gw.gen

\* A release call ends the lease it was asked to end and no other.
ReleaseEndsOwnLease ==
  [][\A r \in Releasers :
       waiting[r].age >= 0 /\ waiting'[r].age < 0 /\ gw.active /\ ~gw'.active
         => waiting[r].lease = gw.gen]_vars

\* When no handler owes a publication, the retained gate is the lease flag.
GateAgreesWithLease == outbox = {} => gate = gw.active

\* A STOP or a revocation locks the brake whatever the lift does: the step that
\* begins one finds the brake locked or a lock under way, or forces a lock.
StopLocksBrake ==
  [][gw'.pGen # gw.pGen /\ gw'.pValid /\ (gw'.pMode = "STOP" \/ gw'.revoke)
       => gw'.locked \/ (gw'.lockPending /\ gw'.lockForce) \/ LockCallRuns]_vars

\* The sequence reported as applied is never above the one accepted last.
AppliedNotAhead == gw.active => gw.appliedSeq <= gw.lastSeq

\* A native brake transition is refused while another one is in progress.
NativeCallsSerialised ==
  Cardinality({t \in Threads :
    thread[t].pc \in {"native", "confirm", "confirmed", "rollback"}}) <= 1
=============================================================================
