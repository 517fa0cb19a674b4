-------------------------- MODULE HeavyGatewaySteps --------------------------
(***************************************************************************)
(* What one locked region of the gateway may never do, for every number of *)
(* threads, every timeout and every bound: release a committed brake lock  *)
(* on a sample, extend a lease without a dispatch, replace the transaction *)
(* in flight, or finish a watchdog run with a deadline missed.  Most       *)
(* regions leave the command clock, the brake latch and the client's       *)
(* transaction alone or drop them; that relation composes, as Recedes does.*)
(***************************************************************************)
EXTENDS HeavyGatewayLease

\* The lease of t, if it has one, is that of s with its command clock; a client
\* command in flight in t was in flight in s; the brake latch is the same.
Calm(s, t) ==
  /\ t.gen = s.gen /\ t.locked = s.locked /\ t.commanded = s.commanded
  /\ t.active => s.active /\ t.cmdAge = s.cmdAge
  /\ t.pValid /\ t.pUser => s.pValid /\ s.pUser /\ t.pGen = s.pGen

\* The fields that Calm reads are the same in s and t.
SameCalm(s, t) ==
  /\ t.gen = s.gen /\ t.locked = s.locked /\ t.commanded = s.commanded
  /\ t.active = s.active /\ t.cmdAge = s.cmdAge
  /\ t.pValid = s.pValid /\ t.pUser = s.pUser /\ t.pGen = s.pGen

\* The three facts about a step that the theorems below are about.
LatchKept(s, t) == (s.commanded => s.locked) => (t.commanded => t.locked)

ClockKept(s, t) ==
  s.active /\ t.active /\ t.gen = s.gen /\ s.cmdAge # 0 /\ t.cmdAge = 0
    => t.pUser /\ t.pGen # s.pGen /\ t.lastSeq > s.lastSeq

FlightKept(s, t) ==
  s.pValid /\ t.pValid /\ t.pUser /\ t.pGen # s.pGen
    => /\ s.armAck = s.pGen \/ s.liftAck = s.pGen
       /\ s.pUser => t.appliedSeq = s.pExt

Orderly(s, t) == LatchKept(s, t) /\ ClockKept(s, t) /\ FlightKept(s, t)

-----------------------------------------------------------------------------
(* The relation.                                                            *)

LEMMA SameCalmIsCalm == ASSUME NEW s, NEW t, SameCalm(s, t) PROVE Calm(s, t)
BY Zenon DEF SameCalm, Calm

LEMMA CalmRefl == ASSUME NEW s PROVE Calm(s, s)
BY Zenon DEF Calm

LEMMA CalmTrans ==
  ASSUME NEW s, NEW t, NEW u, Calm(s, t), Calm(t, u) PROVE Calm(s, u)
BY Zenon DEF Calm

LEMMA CalmIsOrderly == ASSUME NEW s, NEW t, Calm(s, t) PROVE Orderly(s, t)
BY Zenon DEF Calm, Orderly, LatchKept, ClockKept, FlightKept

(* One lemma per helper.                                                    *)

LEMMA QueueBrakeLockCalm ==
  ASSUME NEW s \in GatewayState, NEW force \in BOOLEAN
  PROVE  SameCalm(s, QueueBrakeLock(s, force))
<1> DEFINE t == [s EXCEPT !.lockPending = TRUE, !.lockForce = force]
<1>1. SameCalm(s, t) /\ SameCalm(s, s)
  BY ZenonT(60) DEF GatewayState, SameCalm
<1>2. QueueBrakeLock(s, force) \in {s, t}
  BY Zenon DEF QueueBrakeLock
<1> HIDE DEF t
<1> QED
  BY <1>1, <1>2, Zenon

LEMMA ClearLeaseCalm ==
  ASSUME NEW s \in GatewayState PROVE Calm(s, ClearLease(s))
<1>1. CASE ~s.active
  BY <1>1, CalmRefl, Zenon DEF ClearLease
<1>2. CASE s.active
  <2> DEFINE p == DropPending(s)
             d == DropStaged(p)
             t == [d EXCEPT !.active = FALSE, !.aligned = FALSE, !.revoke = FALSE,
                            !.cmdAge = -1, !.state = "MONITOR"]
  <2>1. /\ p \in GatewayState /\ ~p.pValid
        /\ p.gen = s.gen /\ p.locked = s.locked /\ p.commanded = s.commanded
    BY DropPendingLemma, ZenonT(60) DEF DropPending, GatewayState
  <2> HIDE DEF p
  <2>2. /\ d \in GatewayState /\ ~d.pValid
        /\ d.gen = s.gen /\ d.locked = s.locked /\ d.commanded = s.commanded
    BY <2>1, DropStagedLemma, ZenonT(60) DEF DropStaged, GatewayState
  <2> HIDE DEF d
  <2>3. /\ ~t.active /\ ~t.pValid
        /\ t.gen = s.gen /\ t.locked = s.locked /\ t.commanded = s.commanded
    BY <2>2, ZenonT(60) DEF GatewayState
  <2>4. ClearLease(s) = t
    BY <1>2, Zenon DEF ClearLease, d, p
  <2> HIDE DEF t
  <2> QED
    BY <2>3, <2>4, Zenon DEF Calm
<1> QED
  BY <1>1, <1>2

\* A safety HOLD is a transaction of the gateway itself: no client command is in
\* flight behind it, and the command clock runs on.
LEMMA BeginSafetyHoldCalm ==
  ASSUME NEW s \in GatewayState, NEW revoke \in BOOLEAN, NEW watchdog \in BOOLEAN,
         s.active
  PROVE  LET t == BeginSafetyHold(s, revoke, watchdog)
         IN  /\ Calm(s, t) /\ t.pValid /\ t.cmdAge = s.cmdAge
             /\ t.state = IF revoke THEN "STOPPING" ELSE "LEASED_HOLD"
<1> DEFINE c == IF watchdog /\ ~s.captured
                THEN [s EXCEPT !.captured = TRUE, !.capturedIn = s.gen] ELSE s
           from == IF c.captured /\ (watchdog \/ revoke) THEN c.capturedIn ELSE c.gen
           d == DropStaged(c)
           h == Submit(d, FALSE, 0, "HOLD", from, revoke)
           st == IF revoke THEN "STOPPING" ELSE "LEASED_HOLD"
           p == [h EXCEPT !.state = st]
           q == IF revoke THEN QueueBrakeLock(p, TRUE)
                ELSE IF s.lastMode = "FOLLOW" THEN QueueBrakeLock(p, FALSE) ELSE p
           t == [q EXCEPT !.lastMode = "HOLD"]
<1>1. c \in GatewayState /\ SameCalm(s, c)
  <2>1. s.gen \in Nat
    BY ZenonT(60) DEF GatewayState
  <2>2. [s EXCEPT !.captured = TRUE, !.capturedIn = s.gen] \in GatewayState
    BY <2>1, ZenonT(60) DEF GatewayState
  <2>3. SameCalm(s, [s EXCEPT !.captured = TRUE, !.capturedIn = s.gen]) /\ SameCalm(s, s)
    BY ZenonT(60) DEF GatewayState, SameCalm
  <2> QED
    BY <2>2, <2>3, Zenon
<1>2. from \in Nat
  <2>1. c.capturedIn \in Nat /\ c.gen \in Nat
    BY <1>1, ZenonT(60) DEF GatewayState
  <2> QED
    BY <2>1, Zenon
<1>3. st \in States
  BY Zenon DEF States
<1> HIDE DEF c, from, st
<1>4. /\ d \in GatewayState /\ SameCalm(c, d)
  BY <1>1, DropStagedLemma, ZenonT(60) DEF DropStaged, GatewayState, SameCalm
<1> HIDE DEF d
<1>5. NextGen(d.pGen) \in 0 .. GenSpace
  BY <1>4, SubmitGen
<1>6. h \in GatewayState
  BY <1>2, <1>4, <1>5, Bounds, ZenonT(60) DEF Submit, GatewayState, Modes
<1>7. /\ h.pValid /\ ~h.pUser /\ h.gen = d.gen /\ h.locked = d.locked
      /\ h.commanded = d.commanded /\ h.active = d.active /\ h.cmdAge = d.cmdAge
  BY <1>4, ZenonT(60) DEF Submit, GatewayState
<1> HIDE DEF h
<1>8. p \in GatewayState /\ SameCalm(h, p) /\ p.state = st
  BY <1>3, <1>6, ZenonT(60) DEF GatewayState, SameCalm
<1> HIDE DEF p
<1>9. q \in GatewayState /\ SameCalm(p, q) /\ q.state = p.state
  <2>1. SameCalm(p, p)
    BY Zenon DEF SameCalm
  <2>2. \A b \in BOOLEAN : /\ QueueBrakeLock(p, b) \in GatewayState
                           /\ SameCalm(p, QueueBrakeLock(p, b))
                           /\ SameLeaseFields(p, QueueBrakeLock(p, b))
    BY <1>8, QueueBrakeLockLemma, QueueBrakeLockCalm
  <2> QED
    BY <1>8, <2>1, <2>2, Zenon DEF SameLeaseFields
<1> HIDE DEF q
<1>10. SameCalm(q, t) /\ t.state = q.state
  BY <1>9, ZenonT(60) DEF GatewayState, SameCalm
<1>11. BeginSafetyHold(s, revoke, watchdog) = t
  BY Zenon DEF BeginSafetyHold, q, p, h, d, from, c, st
<1> HIDE DEF t
<1>12. /\ t.pValid /\ ~t.pUser /\ t.gen = s.gen /\ t.locked = s.locked
       /\ t.commanded = s.commanded /\ t.active = s.active /\ t.cmdAge = s.cmdAge
       /\ t.state = st
  BY <1>1, <1>4, <1>7, <1>8, <1>9, <1>10, ZenonT(60) DEF SameCalm
<1> QED
  BY <1>11, <1>12, Zenon DEF Calm, st

LEMMA NextGenMoves == ASSUME NEW g \in 0 .. GenSpace PROVE NextGen(g) # g
BY GatewayAssumption DEF GatewayAssumption, NextGen

\* dispatchUserCommandLocked starts a transaction of the client and leaves the latch.
LEMMA DispatchStarts ==
  ASSUME NEW s \in GatewayState, NEW seq \in Nat, NEW mode \in Modes
  PROVE  LET t == DispatchUserCommand(s, seq, mode)
         IN  /\ t.pValid /\ t.pUser /\ t.pGen # s.pGen
             /\ t.locked = s.locked /\ t.commanded = s.commanded
<1> DEFINE h == Submit(s, TRUE, seq, mode, s.gen, FALSE)
           p == [h EXCEPT !.lastSeq = seq, !.cmdAge = 0, !.captured = FALSE]
           q == IF mode = "HOLD" /\ (s.lastMode = "FOLLOW" \/ s.firstUser)
                THEN QueueBrakeLock(p, FALSE)
                ELSE IF mode = "STOP" THEN QueueBrakeLock(p, TRUE) ELSE p
           st == CASE mode = "FOLLOW" -> "FOLLOWING"
                   [] mode = "STOP" -> "STOPPING"
                   [] OTHER -> "LEASED_HOLD"
           t == [q EXCEPT !.firstUser = FALSE, !.lastMode = mode, !.state = st]
           g == NextGen(s.pGen)
<1>1. s.gen \in Nat /\ g \in 0 .. GenSpace /\ g # s.pGen
  <2>1. s.gen \in Nat /\ s.pGen \in 0 .. GenSpace
    BY ZenonT(60) DEF GatewayState
  <2> QED
    BY <2>1, NextGenType, NextGenMoves
<1>2. h \in GatewayState
  BY <1>1, Bounds, ZenonT(60) DEF Submit, GatewayState
<1>3. /\ h.pValid /\ h.pUser /\ h.pGen = g
      /\ h.locked = s.locked /\ h.commanded = s.commanded
  BY ZenonT(60) DEF Submit, GatewayState
<1> HIDE DEF h, g
<1>4. p \in GatewayState
  BY <1>2, Bounds, ZenonT(60) DEF GatewayState
<1>5. /\ p.pValid /\ p.pUser /\ p.pGen = g
      /\ p.locked = s.locked /\ p.commanded = s.commanded
  BY <1>2, <1>3, ZenonT(60) DEF GatewayState
<1> HIDE DEF p
<1>6. q \in GatewayState /\ SameCalm(p, q)
  <2>1. SameCalm(p, p)
    BY Zenon DEF SameCalm
  <2>2. \A b \in BOOLEAN : QueueBrakeLock(p, b) \in GatewayState /\ SameCalm(p, QueueBrakeLock(p, b))
    BY <1>4, QueueBrakeLockLemma, QueueBrakeLockCalm
  <2> QED
    BY <1>4, <2>1, <2>2, Zenon
<1> HIDE DEF q, st
<1>7. SameCalm(q, t)
  BY <1>6, ZenonT(60) DEF GatewayState, SameCalm
<1>8. DispatchUserCommand(s, seq, mode) = t
  BY Zenon DEF DispatchUserCommand, q, p, h, st
<1> HIDE DEF t
<1> QED
  BY <1>1, <1>5, <1>6, <1>7, <1>8, Zenon DEF SameCalm

\* The completion of the transaction in flight, s being gw with the second
\* acknowledgement recorded: the client's next command starts only here.
LEMMA TransactionDoneOrderly ==
  ASSUME NEW s \in GatewayState, LeaseInv(s), OrderInv(s), s.pValid,
         s.armAck = s.pGen \/ s.liftAck = s.pGen
  PROVE  Orderly(s, TransactionDone(s))
<1> DEFINE d == DropPending(s)
           y == IF s.pUser THEN s.pExt ELSE d.appliedSeq
           j == IF s.pUser THEN s.gen ELSE d.appliedIn
           st == IF ~s.aligned \/ (d.state = "STOPPING" /\ ~s.revoke)
                 THEN "LEASED_HOLD" ELSE d.state
           a == [d EXCEPT !.appliedSeq = y, !.appliedIn = j, !.aligned = TRUE, !.state = st]
           u == DispatchUserCommand(a, s.sSeq, s.sMode)
           t == TransactionDone(s)
<1>1. t = IF s.revoke THEN ClearLease(a) ELSE IF s.sValid THEN DropStaged(u) ELSE a
  BY Zenon DEF TransactionDone
<1>2. d \in GatewayState
  BY DropPendingLemma
<1>3. /\ d.pGen = s.pGen /\ d.locked = s.locked /\ d.commanded = s.commanded
      /\ d.cmdAge = s.cmdAge /\ d.active = s.active
  BY ZenonT(60) DEF DropPending, GatewayState
<1>4. y \in Nat /\ j \in Nat /\ st \in States
  <2>1. /\ s.pExt \in Nat /\ d.appliedSeq \in Nat /\ d.state \in States
        /\ s.gen \in Nat /\ d.appliedIn \in Nat
    BY <1>2, ZenonT(60) DEF GatewayState
  <2>2. "LEASED_HOLD" \in States
    BY DEF States
  <2> QED
    BY <2>1, <2>2, Zenon
<1> HIDE DEF y, j, st, d
<1>5. a \in GatewayState
  BY <1>2, <1>4, ZenonT(60) DEF GatewayState
<1>6. /\ a.pGen = s.pGen /\ a.locked = s.locked /\ a.commanded = s.commanded
      /\ a.cmdAge = s.cmdAge /\ a.active
  <2>1. s.active
    BY Zenon DEF LeaseInv, TransactionOwned
  <2> QED
    BY <1>2, <1>3, <2>1, ZenonT(60) DEF GatewayState
<1> HIDE DEF a
\* What the order of the sequences says of the step.
<1>7. /\ t.appliedSeq = IF s.pUser THEN s.pExt ELSE s.appliedSeq
      /\ s.revoke => ~t.active /\ ~t.pValid
      /\ ~s.revoke /\ s.sValid => t.lastSeq = s.sSeq
      /\ ~s.revoke /\ ~s.sValid => ~t.pValid
  <2>1. s.active
    BY Zenon DEF LeaseInv, TransactionOwned
  <2> HIDE DEF t
  <2>2. LET x == IF s.pUser THEN s.pExt ELSE s.appliedSeq
        IN  /\ t.gen = s.gen /\ t.appliedSeq = x
            /\ s.revoke => ~t.active /\ (s.active => ~t.pValid /\ ~t.sValid /\ t.lastSeq = s.lastSeq)
            /\ ~s.revoke => /\ t.active = s.active /\ t.aligned /\ ~t.revoke /\ ~t.sValid
                            /\ s.sValid => /\ t.pExt = s.sSeq /\ t.lastSeq = s.sSeq
                                           /\ t.lastMode = s.sMode
                            /\ ~s.sValid => /\ ~t.pValid /\ t.lastSeq = s.lastSeq
                                            /\ t.lastMode = s.lastMode
    BY TransactionDoneOrder DEF t
  <2> QED
    BY <2>1, <2>2, Zenon
<1>8. t.locked = s.locked /\ t.commanded = s.commanded
  <2>1. CASE s.revoke
    <3>1. Calm(a, ClearLease(a))
      BY <1>5, ClearLeaseCalm
    <3> QED
      BY <1>1, <1>6, <2>1, <3>1, Zenon DEF Calm
  <2>2. CASE ~s.revoke /\ s.sValid
    <3>1. s.sSeq \in Nat /\ s.sMode \in Modes
      BY SequenceTypes
    <3>2. u \in GatewayState /\ u.locked = a.locked /\ u.commanded = a.commanded
      BY <1>5, <3>1, DispatchOrder, DispatchStarts
    <3> HIDE DEF u
    <3>3. DropStaged(u).locked = u.locked /\ DropStaged(u).commanded = u.commanded
      BY <3>2, ZenonT(60) DEF DropStaged, GatewayState
    <3> QED
      BY <1>1, <1>6, <2>2, <3>2, <3>3, Zenon
  <2>3. CASE ~s.revoke /\ ~s.sValid
    BY <1>1, <1>6, <2>3, Zenon
  <2> QED
    BY <2>1, <2>2, <2>3, Zenon
<1>9. ClockKept(s, t)
  <2>1. CASE s.revoke
    BY <1>7, <2>1, Zenon DEF ClockKept
  <2>2. CASE ~s.revoke /\ s.sValid
    <3>1. s.sSeq \in Nat /\ s.sMode \in Modes
      BY SequenceTypes
    <3>2. u \in GatewayState /\ u.pUser /\ u.pGen # a.pGen
      BY <1>5, <3>1, DispatchOrder, DispatchStarts
    <3> HIDE DEF u
    <3>3. DropStaged(u).pUser = u.pUser /\ DropStaged(u).pGen = u.pGen
      BY <3>2, ZenonT(60) DEF DropStaged, GatewayState
    <3>4. t = DropStaged(u)
      BY <1>1, <2>2, Zenon
    <3>5. s.sSeq > s.lastSeq
      BY <2>2, Zenon DEF OrderInv, Ordered
    <3> HIDE DEF t
    <3> QED
      BY <1>6, <1>7, <2>2, <3>2, <3>3, <3>4, <3>5, Zenon DEF ClockKept
  <2>3. CASE ~s.revoke /\ ~s.sValid
    BY <1>1, <1>6, <2>3, Zenon DEF ClockKept
  <2> QED
    BY <2>1, <2>2, <2>3, Zenon
<1> HIDE DEF t
<1>10. FlightKept(s, t)
  BY <1>7, Zenon DEF FlightKept
<1>11. LatchKept(s, t)
  BY <1>8, Zenon DEF LatchKept
<1> QED
  BY <1>9, <1>10, <1>11, Zenon DEF Orderly, t

-----------------------------------------------------------------------------
(* A watchdog run.                                                          *)

\* The deadlines that Overdue lists, on the guarded state.
AckDue(s) == s.pValid /\ s.pendAge > AckTimeout
CommandDue(s) == s.state = "FOLLOWING" /\ ~s.pValid /\ s.cmdAge > HoldTimeout
ExpiryDue(s) == s.active /\ s.cmdAge >= LeaseTimeout /\ ~s.revoke
ResourceDue(s) ==
  s.active /\ ~s.revoke /\ ~(WorkspaceReady /\ FeedbackReady) /\ s.state # "STOPPING"

\* The fields the deadlines read are the same in s and t.
SameDeadlines(s, t) ==
  /\ t.active = s.active /\ t.state = s.state /\ t.cmdAge = s.cmdAge
  /\ t.pValid = s.pValid /\ t.pendAge = s.pendAge /\ t.revoke = s.revoke

\* Without a lease there is no deadline.
LEMMA NoLeaseNoDeadline ==
  ASSUME NEW s, LeaseInv(s), ~s.active
  PROVE  ~AckDue(s) /\ ~CommandDue(s) /\ ~ExpiryDue(s) /\ ~ResourceDue(s)
BY Zenon DEF LeaseInv, TransactionOwned, AlignedFirst, AckDue, CommandDue, ExpiryDue, ResourceDue

\* The command timeout, on a well-formed state.
LEMMA CommandTimeoutCalm ==
  ASSUME NEW s \in GatewayState, LeaseInv(s)
  PROVE  Calm(s, CommandTimeout(s)) /\ ~CommandDue(CommandTimeout(s))
<1> DEFINE h == BeginSafetyHold(s, FALSE, TRUE)
           t == CommandTimeout(s)
<1>1. CASE s.active /\ ~s.pValid /\ s.state = "FOLLOWING" /\ s.cmdAge > HoldTimeout
  <2>1. Calm(s, h) /\ h.pValid
    BY <1>1, BeginSafetyHoldCalm
  <2>2. t = h
    BY <1>1, Zenon DEF CommandTimeout
  <2> HIDE DEF t, h
  <2> QED
    BY <2>1, <2>2, Zenon DEF CommandDue, t
<1>2. CASE ~(s.active /\ ~s.pValid /\ s.state = "FOLLOWING" /\ s.cmdAge > HoldTimeout)
  <2>1. ~CommandDue(s)
    BY <1>2, Zenon DEF CommandDue, LeaseInv, AlignedFirst
  <2> QED
    BY <1>2, <2>1, CalmRefl, Zenon DEF CommandTimeout
<1> QED
  BY <1>1, <1>2

\* The expiry: from here on an expired lease is under revocation.
LEMMA LeaseExpiryCalm ==
  ASSUME NEW s \in GatewayState, LeaseInv(s), ~CommandDue(s)
  PROVE  LET t == LeaseExpiry(s) IN Calm(s, t) /\ ~CommandDue(t) /\ ~ExpiryDue(t)
<1> DEFINE h == BeginSafetyHold(s, TRUE, FALSE)
           t == LeaseExpiry(s)
<1>1. CASE s.active /\ s.cmdAge >= LeaseTimeout
  <2>1. Calm(s, h) /\ h.pValid
    BY <1>1, BeginSafetyHoldCalm
  <2>2. h.revoke <=> TRUE
    BY <1>1, BeginSafetyHoldLemma
  <2>3. t = h
    BY <1>1, Zenon DEF LeaseExpiry
  <2> HIDE DEF h
  <2> QED
    BY <2>1, <2>2, <2>3, Zenon DEF CommandDue, ExpiryDue
<1>2. CASE ~(s.active /\ s.cmdAge >= LeaseTimeout)
  BY <1>2, CalmRefl, Zenon DEF LeaseExpiry, ExpiryDue
<1> QED
  BY <1>1, <1>2

LEMMA RevocationFallbackCalm ==
  ASSUME NEW s \in GatewayState, LeaseInv(s), ~CommandDue(s), ~ExpiryDue(s)
  PROVE  LET t == RevocationFallback(s) IN Calm(s, t) /\ ~CommandDue(t) /\ ~ExpiryDue(t)
<1> DEFINE t == RevocationFallback(s)
<1>1. t \in {s, ClearLease(s)}
  BY Zenon DEF RevocationFallback
<1>2. LeaseInv(ClearLease(s)) /\ ~ClearLease(s).active /\ Calm(s, ClearLease(s))
  BY ClearLeaseLemma, ClearLeaseCalm, Zenon
<1> HIDE DEF t
<1> QED
  BY <1>1, <1>2, CalmRefl, NoLeaseNoDeadline, Zenon DEF t

\* The acknowledgement timeout ends the lease whoever started the transaction.
LEMMA AckTimeoutFaultCalm ==
  ASSUME NEW s \in GatewayState, LeaseInv(s), ~CommandDue(s), ~ExpiryDue(s)
  PROVE  LET t == AckTimeoutFault(s)
         IN  Calm(s, t) /\ ~CommandDue(t) /\ ~ExpiryDue(t) /\ ~AckDue(t)
<1> DEFINE f == [s EXCEPT !.state = "FAULT"]
           q == QueueBrakeLock(f, TRUE)
           t == AckTimeoutFault(s)
           due == s.active /\ s.pValid /\ s.pendAge > AckTimeout /\ s.state # "FAULT"
<1>1. CASE due
  <2>1. f \in GatewayState /\ SameCalm(s, f)
    BY ZenonT(60) DEF GatewayState, States, SameCalm
  <2> HIDE DEF f
  <2>2. \A b \in BOOLEAN : /\ QueueBrakeLock(f, b) \in GatewayState
                           /\ SameCalm(f, QueueBrakeLock(f, b))
    BY <2>1, QueueBrakeLockLemma, QueueBrakeLockCalm
  <2>3. q \in GatewayState /\ SameCalm(f, q)
    BY <2>2, Zenon
  <2>4. t = ClearLease(q)
    BY <1>1, Zenon DEF AckTimeoutFault, f
  <2> HIDE DEF q
  <2>5. Calm(s, q)
    BY <2>1, <2>3, SameCalmIsCalm, CalmTrans
  <2>6. Calm(q, ClearLease(q)) /\ ~ClearLease(q).active
    BY <2>3, ClearLeaseCalm, ClearLeaseLemma, Zenon
  <2>7. Calm(s, ClearLease(q))
    BY <2>5, <2>6, CalmTrans
  <2>8. LeaseInv(t)
    BY AckTimeoutFaultLemma, Zenon
  <2> HIDE DEF t
  <2> QED
    BY <2>4, <2>6, <2>7, <2>8, NoLeaseNoDeadline, Zenon DEF t
<1>2. CASE ~due
  <2>1. ~AckDue(s)
    BY <1>2, Zenon DEF AckDue, LeaseInv, TransactionOwned
  <2>2. t = s
    BY <1>2, Zenon DEF AckTimeoutFault
  <2> HIDE DEF t
  <2> QED
    BY <2>1, <2>2, CalmRefl, Zenon DEF t
<1> QED
  BY <1>1, <1>2, Zenon

\* A lost workspace or lost feedback ends the lease at once, unless a client's
\* STOP or a revocation is already stopping the robot.
LEMMA ResourceLossCalm ==
  ASSUME NEW s \in GatewayState, LeaseInv(s), ~CommandDue(s), ~ExpiryDue(s), ~AckDue(s)
  PROVE  LET t == ResourceLoss(s)
         IN  /\ Calm(s, t)
             /\ ~CommandDue(t) /\ ~ExpiryDue(t) /\ ~AckDue(t) /\ ~ResourceDue(t)
<1> DEFINE h == BeginSafetyHold(s, TRUE, FALSE)
           t == ResourceLoss(s)
<1>1. CASE ResourceLost(s)
  <2>1. s.active
    BY <1>1, Zenon DEF ResourceLost
  <2>2. h \in GatewayState /\ Calm(s, h)
    BY <2>1, RevokingHoldLemma, BeginSafetyHoldCalm
  <2>3. t = ClearLease(h)
    BY <1>1, Zenon DEF ResourceLoss
  <2> HIDE DEF h
  <2>4. Calm(h, ClearLease(h)) /\ ~ClearLease(h).active
    BY <2>2, ClearLeaseCalm, ClearLeaseLemma, Zenon
  <2>5. Calm(s, ClearLease(h))
    BY <2>2, <2>4, CalmTrans
  <2>6. LeaseInv(t)
    BY ResourceLossLemma, Zenon
  <2> HIDE DEF t
  <2> QED
    BY <2>3, <2>4, <2>5, <2>6, NoLeaseNoDeadline, Zenon DEF t
<1>2. CASE ~ResourceLost(s)
  <2>1. ~ResourceDue(s)
    <3>1. s.active => s.state # "FAULT"
      BY Zenon DEF LeaseInv
    <3> QED
      BY <1>2, <3>1, Zenon DEF ResourceDue, ResourceLost
  <2>2. t = s
    BY <1>2, Zenon DEF ResourceLoss
  <2> HIDE DEF t
  <2> QED
    BY <2>1, <2>2, CalmRefl, Zenon DEF t
<1> QED
  BY <1>1, <1>2, Zenon

\* One run of watchdogAndFeedbackTick: nothing of the client's starts, and no
\* deadline is missed in the state it leaves.
LEMMA WatchdogCalm ==
  ASSUME GatewayInv, NEW stationary \in BOOLEAN, NEW grace \in BOOLEAN,
         WatchdogTick(stationary, grace)
  PROVE  /\ Calm(gw, gw')
         /\ ~AckDue(gw') /\ ~CommandDue(gw') /\ ~ExpiryDue(gw') /\ ~ResourceDue(gw')
<1> DEFINE s0 == CommandTimeout(gw)
           s1 == LeaseExpiry(s0)
           f1 == RevocationFallback(s1)
           s2 == AckTimeoutFault(f1)
           r2 == ResourceLoss(s2)
           s3 == UpdateStateWithoutLease(r2, grace)
           s4 == TakePendingBrakeAction(s3, stationary)
<1>1. gw' = s4
  <2>1. WatchdogEnds(s2, s3, s4)
    BY Zenon DEF WatchdogTick
  <2> QED
    BY <2>1, Zenon DEF WatchdogEnds
<1>2. s0 \in GatewayState /\ LeaseInv(s0) /\ Calm(gw, s0) /\ ~CommandDue(s0)
  <2>1. gw \in GatewayState /\ LeaseInv(gw)
    BY Zenon DEF GatewayInv, TypeOK
  <2> QED
    BY <2>1, CommandTimeoutCalm, CommandTimeoutLemma, Zenon
<1> HIDE DEF s0
<1>3. s1 \in GatewayState /\ LeaseInv(s1) /\ Calm(s0, s1) /\ ~CommandDue(s1) /\ ~ExpiryDue(s1)
  BY <1>2, LeaseExpiryCalm, LeaseExpiryLemma, Zenon
<1> HIDE DEF s1
<1>4. f1 \in GatewayState /\ LeaseInv(f1) /\ Calm(s1, f1) /\ ~CommandDue(f1) /\ ~ExpiryDue(f1)
  BY <1>3, RevocationFallbackCalm, RevocationFallbackLemma, Zenon
<1> HIDE DEF f1
<1>5. /\ s2 \in GatewayState /\ LeaseInv(s2) /\ Calm(f1, s2)
      /\ ~CommandDue(s2) /\ ~ExpiryDue(s2) /\ ~AckDue(s2)
  BY <1>4, AckTimeoutFaultCalm, AckTimeoutFaultLemma, Zenon
<1> HIDE DEF s2
<1>6. /\ r2 \in GatewayState /\ LeaseInv(r2) /\ Calm(s2, r2)
      /\ ~CommandDue(r2) /\ ~ExpiryDue(r2) /\ ~AckDue(r2) /\ ~ResourceDue(r2)
  BY <1>5, ResourceLossCalm, ResourceLossLemma, Zenon
<1> HIDE DEF r2
<1>7. /\ s3 \in GatewayState /\ SameCalm(r2, s3)
      /\ ~CommandDue(s3) /\ ~ExpiryDue(s3) /\ ~AckDue(s3) /\ ~ResourceDue(s3)
  <2>1. s3 \in GatewayState /\ LeaseInv(s3)
    BY <1>6, UpdateStateLemma, Zenon
  <2>2. CASE r2.active
    <3>1. s3 = r2
      BY <2>2, Zenon DEF UpdateStateWithoutLease
    <3> QED
      BY <1>6, <3>1, Zenon DEF SameCalm
  <2>3. CASE ~r2.active
    <3> DEFINE st == CASE ws = "starting" -> "OFFLINE"
                       [] ws # "starting" /\ WorkspaceReady /\ FeedbackReady -> "MONITOR"
                       [] OTHER -> IF grace THEN "OFFLINE" ELSE "FAULT"
    <3>1. s3 = [r2 EXCEPT !.state = st]
      BY <2>3, Zenon DEF UpdateStateWithoutLease
    <3> HIDE DEF st
    <3>2. SameCalm(r2, [r2 EXCEPT !.state = st])
      BY <1>6, ZenonT(60) DEF GatewayState, SameCalm
    <3> HIDE DEF s3
    <3>3. SameCalm(r2, s3) /\ ~s3.active
      BY <2>3, <3>1, <3>2, Zenon DEF SameCalm
    <3> QED
      BY <2>1, <3>3, NoLeaseNoDeadline
  <2> QED
    BY <2>1, <2>2, <2>3, Zenon
<1> HIDE DEF s3
<1>8. /\ SameCalm(s3, s4) /\ SameDeadlines(s3, s4)
  <2> DEFINE a == [s3 EXCEPT !.lockPending = FALSE]
             b == [s3 EXCEPT !.lockPending = FALSE, !.lockForce = FALSE, !.transition = TRUE]
  <2>1. SameCalm(s3, a) /\ SameCalm(s3, b) /\ SameCalm(s3, s3)
    BY <1>7, ZenonT(60) DEF GatewayState, SameCalm
  <2>2. SameDeadlines(s3, a) /\ SameDeadlines(s3, b) /\ SameDeadlines(s3, s3)
    BY <1>7, ZenonT(60) DEF GatewayState, SameDeadlines
  <2>3. s4 \in {s3, a, b}
    BY Zenon DEF TakePendingBrakeAction
  <2> HIDE DEF a, b, s4
  <2> QED
    BY <2>1, <2>2, <2>3, Zenon
<1> HIDE DEF s4
<1>9. ~AckDue(s4) /\ ~CommandDue(s4) /\ ~ExpiryDue(s4) /\ ~ResourceDue(s4)
  BY <1>7, <1>8, Zenon DEF SameDeadlines, AckDue, CommandDue, ExpiryDue, ResourceDue
<1>10. Calm(gw, s4)
  <2>1. Calm(gw, s1)
    BY <1>2, <1>3, CalmTrans
  <2>2. Calm(gw, f1)
    BY <2>1, <1>4, CalmTrans
  <2>3. Calm(gw, s2)
    BY <2>2, <1>5, CalmTrans
  <2>4. Calm(gw, r2)
    BY <2>3, <1>6, CalmTrans
  <2>5. Calm(r2, s3) /\ Calm(s3, s4)
    BY <1>7, <1>8, SameCalmIsCalm
  <2>6. Calm(gw, s3)
    BY <2>4, <2>5, CalmTrans
  <2> QED
    BY <2>5, <2>6, CalmTrans
<1> QED
  BY <1>1, <1>9, <1>10, Zenon

-----------------------------------------------------------------------------
(* The other regions.                                                       *)

\* The passing of time never winds a clock back.
LEMMA TickOrderly == ASSUME GatewayInv, Tick PROVE Orderly(gw, gw')
<1> DEFINE x == IF gw.cmdAge < 0 THEN gw.cmdAge ELSE Smaller(gw.cmdAge + 1, CmdAgeCap)
           y == IF gw.pValid THEN Smaller(gw.pendAge + 1, AckTimeout + 1) ELSE gw.pendAge
           z == IF gw.pValid THEN Smaller(gw.pubAge + 1, RetryInterval) ELSE gw.pubAge
<1>1. gw \in GatewayState
  BY Zenon DEF GatewayInv, TypeOK
<1>2. gw' = [gw EXCEPT !.cmdAge = x, !.pendAge = y, !.pubAge = z]
  BY Zenon DEF Tick
<1>3. gw.cmdAge # 0 => x # 0
  <2>1. gw.cmdAge \in -1 .. CmdAgeCap
    BY <1>1, ZenonT(60) DEF GatewayState
  <2>2. CmdAgeCap \in Nat /\ CmdAgeCap > 0
    BY GatewayAssumption DEF GatewayAssumption, CmdAgeCap
  <2> QED
    BY <2>1, <2>2 DEF Smaller
<1> HIDE DEF x, y, z
<1>4. /\ gw'.locked = gw.locked /\ gw'.commanded = gw.commanded /\ gw'.cmdAge = x
      /\ gw'.pGen = gw.pGen
  BY <1>1, <1>2, ZenonT(60) DEF GatewayState
<1> QED
  BY <1>3, <1>4, Zenon DEF Orderly, LatchKept, ClockKept, FlightKept

\* LiftStatus moves the latch only before a lock was committed.
LEMMA LiftStatusOrderly ==
  ASSUME GatewayInv, NEW x \in LiftSamples, LiftStatus(x) PROVE Orderly(gw, gw')
<1>1. gw \in GatewayState
  BY Zenon DEF GatewayInv, TypeOK
<1>2. PICK b \in BOOLEAN : gw' = IF gw.commanded THEN gw ELSE [gw EXCEPT !.locked = b]
  <2>1. LockReported(x) \subseteq BOOLEAN
    BY DEF LockReported
  <2> QED
    BY <2>1, Zenon DEF LiftStatus
<1>3. CASE gw.commanded
  BY <1>2, <1>3, CalmRefl, CalmIsOrderly, Zenon
<1>4. CASE ~gw.commanded
  <2>1. /\ gw'.commanded = gw.commanded /\ gw'.cmdAge = gw.cmdAge /\ gw'.pGen = gw.pGen
    BY <1>1, <1>2, <1>4, ZenonT(60) DEF GatewayState
  <2> QED
    BY <1>4, <2>1, Zenon DEF Orderly, LatchKept, ClockKept, FlightKept
<1> QED
  BY <1>3, <1>4

\* The commit of executeBrakeAction sets both flags of the latch together.
LEMMA EndBrakeOrderly ==
  ASSUME GatewayInv, NEW t \in Threads, NEW c \in BOOLEAN, EndBrakeAction(t, c)
  PROVE  Orderly(gw, gw')
<1> DEFINE r == thread[t].release
           a == [gw EXCEPT !.transition = FALSE, !.locked = ~r, !.commanded = ~r]
           b == [gw EXCEPT !.transition = FALSE]
<1>1. gw \in GatewayState
  BY Zenon DEF GatewayInv, TypeOK
<1>2. gw' \in {a, b}
  BY Zenon DEF EndBrakeAction, CommitBrake
<1>3. a.locked = a.commanded /\ a.cmdAge = gw.cmdAge /\ a.pGen = gw.pGen
  BY <1>1, ZenonT(60) DEF GatewayState
<1>4. SameCalm(gw, b)
  BY <1>1, ZenonT(60) DEF GatewayState, SameCalm
<1> HIDE DEF a, b
<1>5. Orderly(gw, a)
  BY <1>3, Zenon DEF Orderly, LatchKept, ClockKept, FlightKept
<1>6. Orderly(gw, b)
  BY <1>4, SameCalmIsCalm, CalmIsOrderly
<1> QED
  BY <1>2, <1>5, <1>6, Zenon

\* A grant is made without a lease: its aligning HOLD is the gateway's own.
LEMMA GrantOrderly ==
  ASSUME gw \in GatewayState, ~gw.active, gw' = GrantLease(gw)
  PROVE  Orderly(gw, gw')
<1> DEFINE l == gw.gen + 1
           b == BaseSequence(l)
           d == DropStaged(gw)
           e == [d EXCEPT !.gen = l, !.lastSeq = b,
                   !.active = TRUE, !.aligned = FALSE, !.firstUser = TRUE, !.lastMode = "STOP",
                   !.cmdAge = -1, !.state = "MONITOR"]
           t == Submit(e, FALSE, 0, "HOLD", l, FALSE)
<1>1. l \in Nat /\ b \in Nat
  <2>1. gw.gen \in Nat
    BY ZenonT(60) DEF GatewayState
  <2>2. l \in Nat /\ SeqSpan \in Nat
    BY <2>1, GatewayAssumption DEF GatewayAssumption
  <2> HIDE DEF l
  <2> QED
    BY <2>2 DEF BaseSequence
<1>2. gw' = t
  BY Zenon DEF GrantLease
<1> HIDE DEF b, l
<1>3. d \in GatewayState /\ d.locked = gw.locked /\ d.commanded = gw.commanded
  BY DropStagedLemma, ZenonT(60) DEF DropStaged, GatewayState
<1> HIDE DEF d
<1>4. e \in GatewayState
  BY <1>1, <1>3, Bounds, ZenonT(60) DEF GatewayState, Modes, States
<1>5. e.locked = gw.locked /\ e.commanded = gw.commanded
  BY <1>3, ZenonT(60) DEF GatewayState
<1> HIDE DEF e
<1>6. t.locked = gw.locked /\ t.commanded = gw.commanded /\ ~t.pUser
  BY <1>4, <1>5, ZenonT(60) DEF Submit, GatewayState
<1> HIDE DEF t
<1> QED
  BY <1>2, <1>6, Zenon DEF Orderly, LatchKept, ClockKept, FlightKept

\* A command that finds a transaction in flight is only staged.
LEMMA StagedOrderly ==
  ASSUME GatewayInv, NEW t \in CommandThreads, CommandStaged(t) PROVE Orderly(gw, gw')
<1> DEFINE m == thread[t].msg
<1>1. gw \in GatewayState /\ gw' = Stage(gw, m)
  BY Zenon DEF GatewayInv, TypeOK, CommandStaged
<1> HIDE DEF m
<1>2. SameCalm(gw, Stage(gw, m))
  BY <1>1, ZenonT(60) DEF Stage, GatewayState, SameCalm
<1> QED
  BY <1>1, <1>2, SameCalmIsCalm, CalmIsOrderly

\* A dispatch restarts the clock, with a sequence above all dispatched before.
LEMMA DispatchedOrderly ==
  ASSUME GatewayInv, NEW t \in CommandThreads, CommandDispatched(t)
  PROVE  Orderly(gw, gw')
<1> DEFINE m == thread[t].msg
<1>1. gw \in GatewayState /\ t \in Threads
  BY Zenon DEF GatewayInv, TypeOK, Threads
<1>2. m.seq \in Nat /\ m.mode \in Modes
  BY <1>1, Zenon DEF GatewayInv, TypeOK, ThreadState, Messages
<1>3. Admissible(m) /\ ~gw.pValid /\ gw' = DispatchUserCommand(gw, m.seq, m.mode)
  BY Zenon DEF CommandDispatched
<1>4. m.seq > gw.lastSeq
  BY <1>1, <1>2, <1>3, AdmittedIsNewer
<1> HIDE DEF m
<1>5. /\ gw'.pUser /\ gw'.pGen # gw.pGen /\ gw'.lastSeq = m.seq
      /\ gw'.locked = gw.locked /\ gw'.commanded = gw.commanded
  BY <1>1, <1>2, <1>3, DispatchOrder, DispatchStarts
<1> QED
  BY <1>3, <1>4, <1>5, Zenon DEF Orderly, LatchKept, ClockKept, FlightKept

LEMMA AckOrderly ==
  ASSUME GatewayInv, OrderInv(gw), NEW c \in Controllers, NEW g \in 1 .. GenSpace,
         HandleAck(c, g)
  PROVE  Orderly(gw, gw')
<1> DEFINE a == AckRecorded(gw, c, g)
           t == TransactionDone(a)
<1>0. gw \in GatewayState /\ LeaseInv(gw)
  BY Zenon DEF GatewayInv, TypeOK
<1>1. a \in GatewayState
  <2>1. g \in 0 .. GenSpace
    BY GatewayAssumption DEF GatewayAssumption
  <2>2. [gw EXCEPT !.armAck = g] \in GatewayState /\ [gw EXCEPT !.liftAck = g] \in GatewayState
    BY <1>0, <2>1, ZenonT(60) DEF GatewayState
  <2> QED
    BY <2>2, Zenon DEF AckRecorded
<1>2. SameCalm(gw, a) /\ SameOrder(gw, a) /\ SameLeaseFields(gw, a)
  <2>1. SameCalm(gw, [gw EXCEPT !.armAck = g]) /\ SameCalm(gw, [gw EXCEPT !.liftAck = g])
    BY <1>0, ZenonT(60) DEF GatewayState, SameCalm
  <2>2. SameOrder(gw, [gw EXCEPT !.armAck = g]) /\ SameOrder(gw, [gw EXCEPT !.liftAck = g])
    BY <1>0, ZenonT(60) DEF GatewayState, SameOrder
  <2>3. /\ SameLeaseFields(gw, [gw EXCEPT !.armAck = g])
        /\ SameLeaseFields(gw, [gw EXCEPT !.liftAck = g])
    BY <1>0, ZenonT(60) DEF GatewayState, SameLeaseFields
  <2> QED
    BY <2>1, <2>2, <2>3, Zenon DEF AckRecorded
<1>3. BothAcked(a) => gw.armAck = gw.pGen \/ gw.liftAck = gw.pGen
  <2>1. /\ [gw EXCEPT !.armAck = g].liftAck = gw.liftAck
        /\ [gw EXCEPT !.liftAck = g].armAck = gw.armAck
    BY <1>0, ZenonT(60) DEF GatewayState
  <2>2. a.liftAck = gw.liftAck \/ a.armAck = gw.armAck
    BY <2>1, Zenon DEF AckRecorded
  <2> QED
    BY <1>2, <2>2, Zenon DEF BothAcked, SameCalm
<1>4. \/ gw' = gw
      \/ gw' = a
      \/ gw.pValid /\ BothAcked(a) /\ gw' = t
  BY Zenon DEF HandleAck
<1> HIDE DEF a
<1>5. CASE gw' = gw
  BY <1>5, CalmRefl, CalmIsOrderly, Zenon
<1>6. CASE gw' = a
  BY <1>2, <1>6, SameCalmIsCalm, CalmIsOrderly
<1>7. CASE gw.pValid /\ BothAcked(a) /\ gw' = t
  <2>1. LeaseInv(a) /\ OrderInv(a)
    BY <1>0, <1>2, SameFieldsKeepInv, SameOrderRecedes, RecedingKeepsOrder
  <2>2. a.pValid /\ (a.armAck = a.pGen \/ a.liftAck = a.pGen)
    BY <1>2, <1>7, Zenon DEF BothAcked, SameCalm
  <2>3. Orderly(a, t)
    BY <1>1, <2>1, <2>2, TransactionDoneOrderly
  <2> HIDE DEF t
  <2>4. LatchKept(gw, t) /\ ClockKept(gw, t)
    BY <1>2, <2>3, Zenon DEF Orderly, LatchKept, ClockKept, SameCalm, SameOrder
  <2>5. FlightKept(gw, t)
    BY <1>2, <1>3, <1>7, <2>2, <2>3, Zenon DEF Orderly, FlightKept, SameCalm, SameOrder
  <2> QED
    BY <1>7, <2>4, <2>5, Zenon DEF Orderly
<1> QED
  BY <1>4, <1>5, <1>6, <1>7

LEMMA StepIsOrderly ==
  ASSUME GatewayInv, OrderInv(gw), [Next]_vars
  PROVE  Orderly(gw, gw')
<1>0. gw \in GatewayState /\ LeaseInv(gw)
  BY Zenon DEF GatewayInv, TypeOK
<1>1. ASSUME UNCHANGED gw PROVE Orderly(gw, gw')
  BY <1>1, CalmRefl, CalmIsOrderly
<1>2. ASSUME SameCalm(gw, gw') PROVE Orderly(gw, gw')
  BY <1>2, SameCalmIsCalm, CalmIsOrderly
<1>3. /\ SameCalm(gw, [gw EXCEPT !.transition = TRUE])
      /\ SameCalm(gw, [gw EXCEPT !.pubAge = 0])
  BY <1>0, ZenonT(60) DEF GatewayState, SameCalm
<1>4. CASE Environment
  <2>1. CASE \E x \in Workspaces : WorkspaceStatus(x)
    BY <1>1, <2>1, Zenon DEF WorkspaceStatus
  <2>2. CASE \E x \in LiftSamples : LiftStatus(x)
    BY <2>2, LiftStatusOrderly
  <2>3. CASE FeedbackStale
    BY <1>1, <2>3, Zenon DEF FeedbackStale
  <2>4. CASE Tick
    BY <2>4, TickOrderly
  <2> QED
    BY <1>4, <2>1, <2>2, <2>3, <2>4, Zenon DEF Environment
<1>5. CASE Handlers
  <2>1. CASE AcquireBegin \/ AcquireGrant \/ AcquireRefuse
    <3>1. CASE AcquireBegin
      BY <1>1, <1>2, <1>3, <3>1, Zenon DEF AcquireBegin
    <3>2. CASE AcquireGrant
      BY <1>0, <3>2, GrantOrderly, Zenon DEF AcquireGrant, Grantable
    <3>3. CASE AcquireRefuse
      BY <1>1, <3>3, Zenon DEF AcquireRefuse
    <3> QED
      BY <2>1, <3>1, <3>2, <3>3
  <2>2. CASE \E t \in Threads : Brake(t)
    <3>1. PICK t \in Threads : Brake(t)
      BY <2>2, Zenon
    <3>2. CASE \E c \in BOOLEAN : EndBrakeAction(t, c)
      BY <3>2, EndBrakeOrderly
    <3>3. CASE UNCHANGED gw
      BY <1>1, <3>3
    <3> QED
      BY <3>1, <3>2, <3>3, Zenon
         DEF Brake, BrakeFailed, BrakeLocked, BrakeReleased, ReleaseReplied, ReleaseConfirmed
  <2>3. CASE \E t \in CommandThreads, l \in 1 .. gw.gen, mode \in CommandModes :
               \E seq \in 1 .. MaxSeq :
                 CommandArrives(t, [lease |-> l, seq |-> seq, mode |-> mode])
    BY <1>1, <1>2, <1>3, <2>3, Zenon DEF CommandArrives
  <2>4. CASE \E t \in CommandThreads : CommandContinues(t)
    <3>1. PICK t \in CommandThreads : CommandContinues(t)
      BY <2>4, Zenon
    <3>2. CASE CommandRejected(t)
      BY <1>1, <3>2, Zenon DEF CommandRejected
    <3>3. CASE CommandStaged(t)
      BY <3>3, StagedOrderly
    <3>4. CASE CommandDispatched(t)
      BY <3>4, DispatchedOrderly
    <3> QED
      BY <3>1, <3>2, <3>3, <3>4, Zenon DEF CommandContinues
  <2>5. CASE \E r \in Releasers : ReleaseBegin(r) \/ ReleaseDone(r) \/ ReleaseTimedOut(r)
    <3>1. \/ UNCHANGED gw
          \/ gw' = ClearLease(gw)
          \/ gw.active /\ gw' = BeginSafetyHold(gw, TRUE, FALSE)
      BY <2>5, Zenon DEF ReleaseBegin, ReleaseDone, ReleaseTimedOut
    <3>2. gw.active => Calm(gw, BeginSafetyHold(gw, TRUE, FALSE))
      BY <1>0, BeginSafetyHoldCalm
    <3>3. Calm(gw, ClearLease(gw))
      BY <1>0, ClearLeaseCalm
    <3> QED
      BY <1>1, <3>1, <3>2, <3>3, CalmIsOrderly, Zenon
  <2>6. CASE \E b \in BOOLEAN : LiftBrake(b)
    BY <1>2, <1>3, <2>6, Zenon DEF LiftBrake
  <2>7. CASE \E stationary, grace \in BOOLEAN : WatchdogTick(stationary, grace)
    <3>1. Calm(gw, gw')
      BY <2>7, WatchdogCalm
    <3> QED
      BY <3>1, CalmIsOrderly
  <2>8. CASE \E p \in outbox, b \in BOOLEAN : Publish(p, b)
    BY <1>1, <1>2, <1>3, <2>8, Zenon DEF Publish
  <2> QED
    BY <1>5, <2>1, <2>2, <2>3, <2>4, <2>5, <2>6, <2>7, <2>8, Zenon DEF Handlers
<1>6. CASE \E c \in Controllers, g \in 1 .. GenSpace :
             ThreadFree /\ Acknowledgeable(g) /\ HandleAck(c, g)
  BY <1>6, AckOrderly
<1>7. CASE UNCHANGED vars
  BY <1>1, <1>7, Zenon DEF vars
<1> QED
  BY <1>4, <1>5, <1>6, <1>7, Zenon DEF Next

-----------------------------------------------------------------------------
(* The theorems.                                                            *)

StepInv == GatewayInv /\ OrderInv(gw)

LEMMA StepInvariant == Spec => []StepInv
<1>1. GatewayInv /\ GatewayInv' /\ OrderInv(gw) /\ [Next]_vars
        => OrderInv(gw)'
  BY OrderNext
<1>2. Init => OrderInv(gw)
  BY OrderInit
<1> QED
  BY GatewayInvariant, <1>1, <1>2, PTL DEF Spec, StepInv

LEMMA OrderlyStep == StepInv /\ [Next]_vars => Orderly(gw, gw')
BY StepIsOrderly DEF StepInv

\* Once executeBrakeAction committed a lock, neither a LiftStatus sample that
\* was published before it nor any other region unlocks the latch: only the
\* commit of a release does, and it clears both flags together.
THEOREM LockStaysLatched == Spec => []CommittedLockIsLatched
<1>1. Init => CommittedLockIsLatched
  <2> SUFFICES ASSUME Init PROVE CommittedLockIsLatched
    OBVIOUS
  <2>1. ~gw.commanded
    BY ZenonT(60) DEF Init
  <2> QED
    BY <2>1, Zenon DEF CommittedLockIsLatched
<1>2. StepInv /\ CommittedLockIsLatched /\ [Next]_vars => CommittedLockIsLatched'
  BY OrderlyStep DEF Orderly, LatchKept, CommittedLockIsLatched
<1> QED
  BY StepInvariant, <1>1, <1>2, PTL DEF Spec

\* The lease deadline moves only in dispatchUserCommandLocked, under a new
\* generation and a larger sequence, whichever of handleCommand and handleAck
\* calls it; staging, duplicates, retries and acknowledgements leave the clock.
THEOREM DispatchAloneExtends == Spec => OnlyDispatchExtendsLease
<1>1. StepInv /\ [Next]_vars => ClockKept(gw, gw')
  BY OrderlyStep DEF Orderly
<1>2. Spec => [][ClockKept(gw, gw')]_vars
  BY StepInvariant, <1>1, PTL DEF Spec
<1> QED
  BY <1>2, Zenon DEF OnlyDispatchExtendsLease, ClockKept, SameLease

\* The transaction in flight is replaced by a client command only when the
\* second controller acknowledged it (handleAck), and a client's command that is
\* replaced this way is the one reported as applied.
THEOREM FlightsComplete == Spec => InFlightNotReplaced
<1>1. StepInv /\ [Next]_vars => FlightKept(gw, gw')
  BY OrderlyStep DEF Orderly
<1>2. Spec => [][FlightKept(gw, gw')]_vars
  BY StepInvariant, <1>1, PTL DEF Spec
<1> QED
  BY <1>2, Zenon DEF InFlightNotReplaced, FlightKept

\* One run of watchdogAndFeedbackTick, on whatever state it finds, leaves no
\* overdue acknowledgement, no FOLLOWING without recent commands, no expired
\* lease that is not under revocation and no usable lease without workspace and
\* feedback: no branch undoes the deadline an earlier one enforced.
THEOREM WatchdogMeetsDeadlines == Spec => WatchdogEnforcesDeadlines
<1> DEFINE A == Overdue' => ~\E stationary, grace \in BOOLEAN : WatchdogTick(stationary, grace)
<1>1. StepInv /\ [Next]_vars => A
  <2> SUFFICES ASSUME StepInv, NEW stationary \in BOOLEAN, NEW grace \in BOOLEAN,
                      WatchdogTick(stationary, grace)
               PROVE  ~Overdue'
    BY Zenon
  <2>1. ~AckDue(gw') /\ ~CommandDue(gw') /\ ~ExpiryDue(gw') /\ ~ResourceDue(gw')
    BY WatchdogCalm, Zenon DEF StepInv
  <2>2. ws' = ws /\ lift' = lift
    BY Zenon DEF WatchdogTick, WatchdogEnds, env
  <2>3. WorkspaceReady' = WorkspaceReady /\ FeedbackReady' = FeedbackReady
    BY <2>2 DEF WorkspaceReady, FeedbackReady
  <2> QED
    BY <2>1, <2>3, Zenon DEF Overdue, AckDue, CommandDue, ExpiryDue, ResourceDue
<1> HIDE DEF A
<1>2. Spec => [][A]_vars
  BY StepInvariant, <1>1, PTL DEF Spec
<1> QED
  BY <1>2, Zenon DEF WatchdogEnforcesDeadlines, A
=============================================================================
