-------------------------- MODULE HeavyGatewayLease --------------------------
(***************************************************************************)
(* The gateway implements ExecutionLease and dispatches in sequence order, *)
(* for every number of threads, every timeout and every bound.  Most of    *)
(* the code can only make a lease recede: keep it, hold it, revoke it or   *)
(* end it.  That relation composes, so each helper of a watchdog tick gets *)
(* one lemma; only the grant, a staging and a dispatch need more.          *)
(***************************************************************************)
EXTENDS HeavyGatewayProofs

\* The second part of the inductive invariant: sequences in order, a FOLLOW is
\* staged only behind an alignment, and a lease under revocation is held.
OrderInv(s) ==
  /\ Ordered(s)
  /\ s.sValid /\ s.sMode = "FOLLOW" => s.aligned
  /\ s.active /\ s.revoke => s.lastMode = "HOLD"

\* Nothing is dispatched or staged, and the lease of t, if it has one, is that
\* of s or that of s held or revoked.
Recedes(s, t) ==
  /\ t.gen = s.gen /\ t.lastSeq = s.lastSeq /\ t.appliedSeq = s.appliedSeq /\ t.appliedIn = s.appliedIn
  /\ t.active => s.active /\ t.aligned = s.aligned /\ (s.revoke => t.revoke)
  /\ t.active => \/ t.lastMode = s.lastMode /\ t.revoke = s.revoke
                 \/ t.lastMode = "HOLD" /\ (t.revoke \/ t.aligned)
  /\ t.pValid /\ t.pUser => s.pValid /\ s.pUser /\ t.pExt = s.pExt
  /\ t.sValid => s.sValid /\ t.sSeq = s.sSeq /\ t.sMode = s.sMode

\* The fields that Recedes reads are the same in s and t.
SameOrder(s, t) ==
  /\ t.gen = s.gen /\ t.lastSeq = s.lastSeq /\ t.appliedSeq = s.appliedSeq /\ t.appliedIn = s.appliedIn
  /\ t.active = s.active /\ t.aligned = s.aligned /\ t.revoke = s.revoke
  /\ t.lastMode = s.lastMode
  /\ t.pValid = s.pValid /\ t.pUser = s.pUser /\ t.pExt = s.pExt
  /\ t.sValid = s.sValid /\ t.sSeq = s.sSeq /\ t.sMode = s.sMode

-----------------------------------------------------------------------------
(* The relation.                                                            *)

LEMMA SameOrderRecedes == ASSUME NEW s, NEW t, SameOrder(s, t) PROVE Recedes(s, t)
BY Zenon DEF SameOrder, Recedes

LEMMA RecedesRefl == ASSUME NEW s PROVE Recedes(s, s)
BY Zenon DEF Recedes

LEMMA RecedesTrans ==
  ASSUME NEW s, NEW t, NEW u, Recedes(s, t), Recedes(t, u) PROVE Recedes(s, u)
<1>1. /\ u.gen = s.gen /\ u.lastSeq = s.lastSeq /\ u.appliedSeq = s.appliedSeq
      /\ u.appliedIn = s.appliedIn
      /\ u.active => s.active /\ u.aligned = s.aligned /\ (s.revoke => u.revoke)
  BY Zenon DEF Recedes
<1>2. u.active => \/ u.lastMode = s.lastMode /\ u.revoke = s.revoke
                  \/ u.lastMode = "HOLD" /\ (u.revoke \/ u.aligned)
  BY Zenon DEF Recedes
<1>3. /\ u.pValid /\ u.pUser => s.pValid /\ s.pUser /\ u.pExt = s.pExt
      /\ u.sValid => s.sValid /\ u.sSeq = s.sSeq /\ u.sMode = s.sMode
  BY Zenon DEF Recedes
<1> QED
  BY <1>1, <1>2, <1>3, Zenon DEF Recedes

LEMMA RecedingKeepsOrder ==
  ASSUME NEW s, NEW t, Recedes(s, t), LeaseInv(t), OrderInv(s)
  PROVE  OrderInv(t)
<1>1. Ordered(t)
  BY Zenon DEF Recedes, OrderInv, Ordered
<1>2. t.sValid /\ t.sMode = "FOLLOW" => t.aligned
  BY Zenon DEF Recedes, OrderInv, LeaseInv, TransactionOwned
<1>3. t.active /\ t.revoke => t.lastMode = "HOLD"
  BY Zenon DEF Recedes, OrderInv
<1> QED
  BY <1>1, <1>2, <1>3, Zenon DEF OrderInv

(* One lemma per helper.                                                    *)

LEMMA QueueBrakeLockSame ==
  ASSUME NEW s \in GatewayState, NEW force \in BOOLEAN
  PROVE  SameOrder(s, QueueBrakeLock(s, force))
<1> DEFINE t == [s EXCEPT !.lockPending = TRUE, !.lockForce = force]
<1>1. SameOrder(s, t) /\ SameOrder(s, s)
  BY ZenonT(60) DEF GatewayState, SameOrder
<1>2. QueueBrakeLock(s, force) \in {s, t}
  BY Zenon DEF QueueBrakeLock
<1> HIDE DEF t
<1> QED
  BY <1>1, <1>2, Zenon

LEMMA ClearLeaseRecedes ==
  ASSUME NEW s \in GatewayState PROVE Recedes(s, ClearLease(s))
<1>1. CASE ~s.active
  BY <1>1, RecedesRefl, Zenon DEF ClearLease
<1>2. CASE s.active
  <2> DEFINE p == DropPending(s)
             d == DropStaged(p)
             t == [d EXCEPT !.active = FALSE, !.aligned = FALSE, !.revoke = FALSE,
                            !.cmdAge = -1, !.state = "MONITOR"]
  <2>1. /\ p \in GatewayState /\ ~p.pValid
        /\ p.gen = s.gen /\ p.lastSeq = s.lastSeq /\ p.appliedSeq = s.appliedSeq
        /\ p.appliedIn = s.appliedIn
    BY DropPendingLemma, ZenonT(60) DEF DropPending, GatewayState
  <2> HIDE DEF p
  <2>2. /\ d \in GatewayState /\ ~d.pValid /\ ~d.sValid
        /\ d.gen = s.gen /\ d.lastSeq = s.lastSeq /\ d.appliedSeq = s.appliedSeq
        /\ d.appliedIn = s.appliedIn
    BY <2>1, DropStagedLemma, ZenonT(60) DEF DropStaged, GatewayState
  <2> HIDE DEF d
  <2>3. /\ ~t.active /\ ~t.pValid /\ ~t.sValid
        /\ t.gen = s.gen /\ t.lastSeq = s.lastSeq /\ t.appliedSeq = s.appliedSeq
        /\ t.appliedIn = s.appliedIn
    BY <2>2, ZenonT(60) DEF GatewayState
  <2>4. ClearLease(s) = t
    BY <1>2, Zenon DEF ClearLease, d, p
  <2> HIDE DEF t
  <2> QED
    BY <2>3, <2>4, Zenon DEF Recedes
<1> QED
  BY <1>1, <1>2

\* A safety HOLD that keeps the lease is made only in an aligned one.
LEMMA BeginSafetyHoldRecedes ==
  ASSUME NEW s \in GatewayState, NEW revoke \in BOOLEAN, NEW watchdog \in BOOLEAN,
         s.active, revoke \/ (s.aligned /\ ~s.revoke)
  PROVE  Recedes(s, BeginSafetyHold(s, revoke, watchdog))
<1> DEFINE c == IF watchdog /\ ~s.captured
                THEN [s EXCEPT !.captured = TRUE, !.capturedIn = s.gen] ELSE s
           from == IF c.captured /\ (watchdog \/ revoke) THEN c.capturedIn ELSE c.gen
           d == DropStaged(c)
           h == Submit(d, FALSE, 0, "HOLD", from, revoke)
           p == [h EXCEPT !.state = IF revoke THEN "STOPPING" ELSE "LEASED_HOLD"]
           q == IF revoke THEN QueueBrakeLock(p, TRUE)
                ELSE IF s.lastMode = "FOLLOW" THEN QueueBrakeLock(p, FALSE) ELSE p
           t == [q EXCEPT !.lastMode = "HOLD"]
<1>1. c \in GatewayState /\ SameOrder(s, c)
  <2>1. s.gen \in Nat
    BY ZenonT(60) DEF GatewayState
  <2>2. [s EXCEPT !.captured = TRUE, !.capturedIn = s.gen] \in GatewayState
    BY <2>1, ZenonT(60) DEF GatewayState
  <2>3. SameOrder(s, [s EXCEPT !.captured = TRUE, !.capturedIn = s.gen]) /\ SameOrder(s, s)
    BY ZenonT(60) DEF GatewayState, SameOrder
  <2> QED
    BY <2>2, <2>3, Zenon
<1>2. from \in Nat
  <2>1. c.capturedIn \in Nat /\ c.gen \in Nat
    BY <1>1, ZenonT(60) DEF GatewayState
  <2> QED
    BY <2>1, Zenon
<1> HIDE DEF c, from
<1>3. /\ d \in GatewayState /\ ~d.sValid
      /\ d.gen = s.gen /\ d.lastSeq = s.lastSeq /\ d.appliedSeq = s.appliedSeq
      /\ d.appliedIn = s.appliedIn
      /\ d.aligned = s.aligned /\ d.revoke = s.revoke
  <2>1. d \in GatewayState /\ ~d.sValid
    BY <1>1, DropStagedLemma, Zenon
  <2>2. /\ d.gen = c.gen /\ d.lastSeq = c.lastSeq /\ d.appliedSeq = c.appliedSeq
        /\ d.appliedIn = c.appliedIn
        /\ d.aligned = c.aligned /\ d.revoke = c.revoke
    BY <1>1, ZenonT(60) DEF DropStaged, GatewayState
  <2> QED
    BY <1>1, <2>1, <2>2, Zenon DEF SameOrder
<1> HIDE DEF d
<1>4. NextGen(d.pGen) \in 0 .. GenSpace
  BY <1>3, SubmitGen
<1>5. h \in GatewayState
  BY <1>2, <1>3, <1>4, Bounds, ZenonT(60) DEF Submit, GatewayState, Modes
<1>6. /\ ~h.pUser /\ ~h.sValid /\ (h.revoke <=> revoke)
      /\ h.gen = s.gen /\ h.lastSeq = s.lastSeq /\ h.appliedSeq = s.appliedSeq
      /\ h.appliedIn = s.appliedIn
      /\ h.aligned = s.aligned
  BY <1>3, ZenonT(60) DEF Submit, GatewayState
<1> HIDE DEF h
<1>7. /\ p \in GatewayState /\ SameOrder(h, p)
  <2>1. (IF revoke THEN "STOPPING" ELSE "LEASED_HOLD") \in States
    BY Zenon DEF States
  <2>2. p \in GatewayState
    BY <1>5, <2>1, ZenonT(60) DEF GatewayState
  <2>3. SameOrder(h, p)
    BY <1>5, ZenonT(60) DEF GatewayState, SameOrder
  <2> QED
    BY <2>2, <2>3
<1> HIDE DEF p
<1>8. q \in GatewayState /\ SameOrder(p, q)
  <2>1. SameOrder(p, p)
    BY Zenon DEF SameOrder
  <2>2. \A b \in BOOLEAN : QueueBrakeLock(p, b) \in GatewayState /\ SameOrder(p, QueueBrakeLock(p, b))
    BY <1>7, QueueBrakeLockLemma, QueueBrakeLockSame
  <2> QED
    BY <1>7, <2>1, <2>2, Zenon
<1> HIDE DEF q
<1>9. /\ ~q.pUser /\ ~q.sValid /\ (q.revoke <=> revoke)
      /\ q.gen = s.gen /\ q.lastSeq = s.lastSeq /\ q.appliedSeq = s.appliedSeq
      /\ q.appliedIn = s.appliedIn
      /\ q.aligned = s.aligned
  BY <1>6, <1>7, <1>8, Zenon DEF SameOrder
<1>10. /\ ~t.pUser /\ ~t.sValid /\ (t.revoke <=> revoke) /\ t.lastMode = "HOLD"
       /\ t.gen = s.gen /\ t.lastSeq = s.lastSeq /\ t.appliedSeq = s.appliedSeq
       /\ t.appliedIn = s.appliedIn
       /\ t.aligned = s.aligned
  BY <1>8, <1>9, ZenonT(60) DEF GatewayState
<1>11. BeginSafetyHold(s, revoke, watchdog) = t
  BY Zenon DEF BeginSafetyHold, q, p, h, d, from, c
<1> HIDE DEF t
<1> QED
  BY <1>10, <1>11, Zenon DEF Recedes

\* dispatchUserCommandLocked: the new command is the one dispatched last.
LEMMA DispatchOrder ==
  ASSUME NEW s \in GatewayState, NEW seq \in Nat, NEW mode \in Modes
  PROVE  LET t == DispatchUserCommand(s, seq, mode)
         IN  /\ t \in GatewayState
             /\ t.gen = s.gen /\ t.lastSeq = seq /\ t.appliedSeq = s.appliedSeq
             /\ t.appliedIn = s.appliedIn
             /\ t.active = s.active /\ t.aligned = s.aligned /\ ~t.revoke /\ t.lastMode = mode
             /\ t.pExt = seq /\ t.sValid = s.sValid
<1> DEFINE h == Submit(s, TRUE, seq, mode, s.gen, FALSE)
           p == [h EXCEPT !.lastSeq = seq, !.cmdAge = 0, !.captured = FALSE]
           q == IF mode = "HOLD" /\ (s.lastMode = "FOLLOW" \/ s.firstUser)
                THEN QueueBrakeLock(p, FALSE)
                ELSE IF mode = "STOP" THEN QueueBrakeLock(p, TRUE) ELSE p
           st == CASE mode = "FOLLOW" -> "FOLLOWING"
                   [] mode = "STOP" -> "STOPPING"
                   [] OTHER -> "LEASED_HOLD"
           t == [q EXCEPT !.firstUser = FALSE, !.lastMode = mode, !.state = st]
<1>1. s.gen \in Nat /\ NextGen(s.pGen) \in 0 .. GenSpace
  BY SubmitGen, ZenonT(60) DEF GatewayState
<1>2. h \in GatewayState
  BY <1>1, Bounds, ZenonT(60) DEF Submit, GatewayState
<1>3. /\ h.gen = s.gen /\ h.appliedSeq = s.appliedSeq
      /\ h.appliedIn = s.appliedIn /\ h.active = s.active
      /\ h.aligned = s.aligned /\ ~h.revoke /\ h.pExt = seq /\ h.sValid = s.sValid
  BY ZenonT(60) DEF Submit, GatewayState
<1> HIDE DEF h
<1>4. p \in GatewayState
  BY <1>2, Bounds, ZenonT(60) DEF GatewayState
<1>5. /\ p.gen = s.gen /\ p.lastSeq = seq /\ p.appliedSeq = s.appliedSeq /\ p.appliedIn = s.appliedIn
      /\ p.active = s.active /\ p.aligned = s.aligned /\ ~p.revoke /\ p.pExt = seq
      /\ p.sValid = s.sValid
  BY <1>2, <1>3, ZenonT(60) DEF GatewayState
<1> HIDE DEF p
<1>6. q \in GatewayState /\ SameOrder(p, q)
  <2>1. SameOrder(p, p)
    BY Zenon DEF SameOrder
  <2>2. \A b \in BOOLEAN : QueueBrakeLock(p, b) \in GatewayState /\ SameOrder(p, QueueBrakeLock(p, b))
    BY <1>4, QueueBrakeLockLemma, QueueBrakeLockSame
  <2> QED
    BY <1>4, <2>1, <2>2, Zenon
<1> HIDE DEF q
<1>7. st \in States
  BY DEF States, Modes
<1> HIDE DEF st
<1>8. t \in GatewayState
  BY <1>6, <1>7, ZenonT(60) DEF GatewayState
<1>9. /\ t.gen = q.gen /\ t.lastSeq = q.lastSeq /\ t.appliedSeq = q.appliedSeq
      /\ t.appliedIn = q.appliedIn
      /\ t.active = q.active /\ t.aligned = q.aligned /\ t.revoke = q.revoke
      /\ t.lastMode = mode /\ t.pExt = q.pExt /\ t.sValid = q.sValid
  BY <1>6, ZenonT(60) DEF GatewayState
<1>10. DispatchUserCommand(s, seq, mode) = t
  BY Zenon DEF DispatchUserCommand, q, p, h, st
<1> HIDE DEF t
<1> QED
  BY <1>5, <1>6, <1>8, <1>9, <1>10, Zenon DEF SameOrder

\* handleAcquire: the next lease, nothing dispatched, nothing staged.
LEMMA GrantOrder ==
  ASSUME NEW s \in GatewayState
  PROVE  LET t == GrantLease(s)
         IN  /\ t.gen = s.gen + 1 /\ t.lastSeq = BaseSequence(s.gen + 1)
             /\ t.appliedSeq = s.appliedSeq /\ t.appliedIn = s.appliedIn
             /\ t.active /\ ~t.aligned /\ ~t.revoke /\ t.lastMode = "STOP"
             /\ ~t.pUser /\ ~t.sValid
<1> DEFINE l == s.gen + 1
           b == BaseSequence(l)
           d == DropStaged(s)
           e == [d EXCEPT !.gen = l, !.lastSeq = b,
                   !.active = TRUE, !.aligned = FALSE, !.firstUser = TRUE, !.lastMode = "STOP",
                   !.cmdAge = -1, !.state = "MONITOR"]
           t == Submit(e, FALSE, 0, "HOLD", l, FALSE)
<1>1. l \in Nat /\ b \in Nat
  <2>1. s.gen \in Nat
    BY ZenonT(60) DEF GatewayState
  <2>2. l \in Nat /\ SeqSpan \in Nat
    BY <2>1, GatewayAssumption DEF GatewayAssumption
  <2> HIDE DEF l
  <2> QED
    BY <2>2 DEF BaseSequence
<1> HIDE DEF b, l
<1>2. d \in GatewayState /\ ~d.sValid
  BY DropStagedLemma
<1>3. d.appliedSeq = s.appliedSeq /\ d.appliedIn = s.appliedIn
  BY ZenonT(60) DEF DropStaged, GatewayState
<1> HIDE DEF d
<1>4. e \in GatewayState
  BY <1>1, <1>2, Bounds, ZenonT(60) DEF GatewayState, Modes, States
<1>5. /\ e.gen = l /\ e.lastSeq = b /\ e.appliedSeq = s.appliedSeq
      /\ e.appliedIn = s.appliedIn /\ e.active /\ ~e.aligned
      /\ e.lastMode = "STOP" /\ ~e.sValid
  BY <1>2, <1>3, ZenonT(60) DEF GatewayState
<1> HIDE DEF e
<1>6. /\ t.gen = l /\ t.lastSeq = b /\ t.appliedSeq = s.appliedSeq
      /\ t.appliedIn = s.appliedIn /\ t.active /\ ~t.aligned
      /\ t.lastMode = "STOP" /\ ~t.sValid /\ ~t.pUser /\ ~t.revoke
  BY <1>4, <1>5, ZenonT(60) DEF Submit, GatewayState
<1>7. GrantLease(s) = t
  BY Zenon DEF GrantLease, e, d, b, l
<1> HIDE DEF t
<1> QED
  BY <1>6, <1>7, Zenon DEF b, l

\* handleAck: a revocation ends the lease, otherwise a staged command is
\* dispatched, otherwise the lease is only aligned.
LEMMA TransactionDoneOrder ==
  ASSUME NEW s \in GatewayState
  PROVE  LET t == TransactionDone(s)
             x == IF s.pUser THEN s.pExt ELSE s.appliedSeq
         IN  /\ t.gen = s.gen /\ t.appliedSeq = x
             /\ t.appliedIn = IF s.pUser THEN s.gen ELSE s.appliedIn
             /\ s.revoke => ~t.active /\ (s.active => ~t.pValid /\ ~t.sValid /\ t.lastSeq = s.lastSeq)
             /\ ~s.revoke => /\ t.active = s.active /\ t.aligned /\ ~t.revoke /\ ~t.sValid
                             /\ s.sValid => /\ t.pExt = s.sSeq /\ t.lastSeq = s.sSeq
                                            /\ t.lastMode = s.sMode
                             /\ ~s.sValid => /\ ~t.pValid /\ t.lastSeq = s.lastSeq
                                             /\ t.lastMode = s.lastMode
<1> DEFINE d == DropPending(s)
           x == IF s.pUser THEN s.pExt ELSE s.appliedSeq
           y == IF s.pUser THEN s.pExt ELSE d.appliedSeq
           i == IF s.pUser THEN s.gen ELSE s.appliedIn
           j == IF s.pUser THEN s.gen ELSE d.appliedIn
           st == IF ~s.aligned \/ (d.state = "STOPPING" /\ ~s.revoke)
                 THEN "LEASED_HOLD" ELSE d.state
           a == [d EXCEPT !.appliedSeq = y, !.appliedIn = j, !.aligned = TRUE, !.state = st]
           u == DispatchUserCommand(a, s.sSeq, s.sMode)
           t == IF s.revoke THEN ClearLease(a)
                ELSE IF s.sValid THEN DropStaged(u) ELSE a
<1>1. TransactionDone(s) = t
  BY Zenon DEF TransactionDone
<1>2. d \in GatewayState
  BY DropPendingLemma
<1>3. /\ ~d.pValid /\ d.appliedSeq = s.appliedSeq
      /\ d.appliedIn = s.appliedIn /\ d.gen = s.gen /\ d.lastSeq = s.lastSeq
      /\ d.active = s.active /\ d.revoke = s.revoke /\ d.sValid = s.sValid
      /\ d.lastMode = s.lastMode
  BY ZenonT(60) DEF DropPending, GatewayState
<1>4. y = x /\ y \in Nat /\ j = i /\ j \in Nat /\ st \in States
  <2>1. /\ s.pExt \in Nat /\ d.appliedSeq \in Nat /\ d.state \in States
        /\ s.gen \in Nat /\ d.appliedIn \in Nat
    BY <1>2, ZenonT(60) DEF GatewayState
  <2>2. "LEASED_HOLD" \in States
    BY DEF States
  <2> QED
    BY <1>3, <2>1, <2>2, Zenon
<1> HIDE DEF x, y, i, j, st, d
<1>5. a \in GatewayState
  BY <1>2, <1>4, ZenonT(60) DEF GatewayState
<1>6. /\ ~a.pValid /\ a.appliedSeq = x /\ a.appliedIn = i /\ a.gen = s.gen /\ a.lastSeq = s.lastSeq
      /\ a.active = s.active /\ a.revoke = s.revoke /\ a.sValid = s.sValid
      /\ a.lastMode = s.lastMode /\ a.aligned
  BY <1>2, <1>3, <1>4, ZenonT(60) DEF GatewayState
<1> HIDE DEF a
<1>7. CASE s.revoke
  <2>1. Recedes(a, ClearLease(a)) /\ ~ClearLease(a).active
    BY <1>5, ClearLeaseRecedes, ClearLeaseLemma, Zenon
  <2>2. s.active => ~ClearLease(a).pValid /\ ~ClearLease(a).sValid
    <3> SUFFICES ASSUME s.active PROVE ~ClearLease(a).pValid /\ ~ClearLease(a).sValid
      OBVIOUS
    <3>1. LeaseInv(ClearLease(a)) /\ ~ClearLease(a).active
      BY <1>5, <1>6, ClearLeaseLemma, Zenon
    <3> QED
      BY <3>1, Zenon DEF LeaseInv, TransactionOwned
  <2>3. t = ClearLease(a)
    BY <1>7, Zenon
  <2> QED
    BY <1>1, <1>6, <1>7, <2>1, <2>2, <2>3, Zenon DEF Recedes, x, i
<1>8. CASE ~s.revoke /\ s.sValid
  <2>1. s.sSeq \in Nat /\ s.sMode \in Modes
    BY ZenonT(60) DEF GatewayState
  <2>2. /\ u \in GatewayState /\ u.gen = a.gen /\ u.lastSeq = s.sSeq
        /\ u.appliedSeq = a.appliedSeq
        /\ u.appliedIn = a.appliedIn /\ u.active = a.active /\ u.aligned = a.aligned
        /\ ~u.revoke /\ u.lastMode = s.sMode /\ u.pExt = s.sSeq
    BY <1>5, <2>1, DispatchOrder
  <2> HIDE DEF u
  <2>3. /\ ~DropStaged(u).sValid /\ DropStaged(u).gen = u.gen
        /\ DropStaged(u).lastSeq = u.lastSeq /\ DropStaged(u).appliedSeq = u.appliedSeq
        /\ DropStaged(u).appliedIn = u.appliedIn
        /\ DropStaged(u).active = u.active /\ DropStaged(u).aligned = u.aligned
        /\ DropStaged(u).revoke = u.revoke /\ DropStaged(u).lastMode = u.lastMode
        /\ DropStaged(u).pExt = u.pExt
    BY <2>2, ZenonT(60) DEF DropStaged, GatewayState
  <2>4. t = DropStaged(u)
    BY <1>8, Zenon
  <2> QED
    BY <1>1, <1>6, <1>8, <2>2, <2>3, <2>4, Zenon DEF x, i
<1>9. CASE ~s.revoke /\ ~s.sValid
  <2>1. t = a
    BY <1>9, Zenon
  <2> QED
    BY <1>1, <1>6, <1>9, <2>1, Zenon DEF x, i
<1> QED
  BY <1>7, <1>8, <1>9, Zenon

-----------------------------------------------------------------------------
(* What each step does to the guarded state.                                *)

LEMMA WatchdogRecedes ==
  ASSUME GatewayInv, NEW stationary \in BOOLEAN, NEW grace \in BOOLEAN,
         WatchdogTick(stationary, grace)
  PROVE  Recedes(gw, gw')
<1> DEFINE s0 == CommandTimeout(gw)
           s1 == LeaseExpiry(s0)
           f1 == RevocationFallback(s1)
           s2 == AckTimeoutFault(f1)
           r2 == ResourceLoss(s2)
           s3 == UpdateStateWithoutLease(r2, grace)
           s4 == TakePendingBrakeAction(s3, stationary)
<1>1. gw' = s4
  <2>1. WatchdogEnds(s2, s3, s4)
    BY Zenon DEF WatchdogTick
  <2> QED
    BY <2>1, Zenon DEF WatchdogEnds
<1>2. /\ s0 \in GatewayState /\ LeaseInv(s0) /\ Recedes(gw, s0)
  <2>1. gw \in GatewayState /\ LeaseInv(gw)
    BY Zenon DEF GatewayInv, TypeOK
  <2>2. CASE gw.active /\ ~gw.pValid /\ gw.state = "FOLLOWING" /\ gw.cmdAge > HoldTimeout
    <3>1. gw.aligned /\ ~gw.revoke
      BY <2>1, <2>2, Zenon DEF LeaseInv, TransactionOwned, AlignedFirst
    <3>2. s0 = BeginSafetyHold(gw, FALSE, TRUE)
      BY <2>2, Zenon DEF CommandTimeout
    <3>3. Recedes(gw, BeginSafetyHold(gw, FALSE, TRUE))
      BY <2>1, <2>2, <3>1, BeginSafetyHoldRecedes
    <3> QED
      BY <2>1, <3>2, <3>3, CommandTimeoutLemma, Zenon
  <2>3. CASE ~(gw.active /\ ~gw.pValid /\ gw.state = "FOLLOWING" /\ gw.cmdAge > HoldTimeout)
    BY <2>1, <2>3, RecedesRefl, CommandTimeoutLemma, Zenon DEF CommandTimeout
  <2> QED
    BY <2>2, <2>3
<1> HIDE DEF s0
<1>3. /\ s1 \in GatewayState /\ LeaseInv(s1) /\ Recedes(s0, s1)
  <2>1. CASE s0.active /\ s0.cmdAge >= LeaseTimeout
    <3>1. Recedes(s0, BeginSafetyHold(s0, TRUE, FALSE))
      BY <1>2, <2>1, BeginSafetyHoldRecedes
    <3> QED
      BY <1>2, <2>1, <3>1, LeaseExpiryLemma, Zenon DEF LeaseExpiry
  <2>2. CASE ~(s0.active /\ s0.cmdAge >= LeaseTimeout)
    BY <1>2, <2>2, RecedesRefl, LeaseExpiryLemma, Zenon DEF LeaseExpiry
  <2> QED
    BY <2>1, <2>2
<1> HIDE DEF s1
<1>4. /\ f1 \in GatewayState /\ LeaseInv(f1) /\ Recedes(s1, f1)
  <2>1. f1 \in {s1, ClearLease(s1)}
    BY Zenon DEF RevocationFallback
  <2> QED
    BY <1>3, <2>1, RecedesRefl, ClearLeaseRecedes, RevocationFallbackLemma, Zenon
<1> HIDE DEF f1
<1>5. /\ s2 \in GatewayState /\ LeaseInv(s2) /\ Recedes(f1, s2)
  <2> DEFINE f == [f1 EXCEPT !.state = "FAULT"]
             q == QueueBrakeLock(f, TRUE)
  <2>1. f \in GatewayState /\ SameOrder(f1, f)
    BY <1>4, ZenonT(60) DEF GatewayState, States, SameOrder
  <2> HIDE DEF f
  <2>2. \A b \in BOOLEAN : QueueBrakeLock(f, b) \in GatewayState /\ SameOrder(f, QueueBrakeLock(f, b))
    BY <2>1, QueueBrakeLockLemma, QueueBrakeLockSame
  <2>3. q \in GatewayState /\ SameOrder(f, q)
    BY <2>2, Zenon
  <2>4. s2 \in {f1, ClearLease(q)}
    BY Zenon DEF AckTimeoutFault, f
  <2> HIDE DEF q
  <2>5. Recedes(f1, q)
    BY <2>1, <2>3, SameOrderRecedes, RecedesTrans
  <2>6. Recedes(f1, ClearLease(q))
    BY <2>3, <2>5, ClearLeaseRecedes, RecedesTrans
  <2>7. Recedes(f1, s2)
    BY <2>4, <2>6, RecedesRefl, Zenon
  <2> QED
    BY <1>4, <2>7, AckTimeoutFaultLemma, Zenon
<1> HIDE DEF s2
<1>6. /\ r2 \in GatewayState /\ LeaseInv(r2) /\ Recedes(s2, r2)
  <2> DEFINE h == BeginSafetyHold(s2, TRUE, FALSE)
  <2>1. CASE ResourceLost(s2)
    <3>1. s2.active
      BY <2>1, Zenon DEF ResourceLost
    <3>2. h \in GatewayState /\ Recedes(s2, h)
      BY <1>5, <3>1, RevokingHoldLemma, BeginSafetyHoldRecedes
    <3>3. r2 = ClearLease(h)
      BY <2>1, Zenon DEF ResourceLoss
    <3> HIDE DEF h
    <3>4. Recedes(s2, ClearLease(h))
      BY <3>2, ClearLeaseRecedes, RecedesTrans
    <3> QED
      BY <1>5, <3>3, <3>4, ResourceLossLemma, Zenon
  <2>2. CASE ~ResourceLost(s2)
    BY <1>5, <2>2, RecedesRefl, ResourceLossLemma, Zenon DEF ResourceLoss
  <2> QED
    BY <2>1, <2>2
<1> HIDE DEF r2
<1>7. s3 \in GatewayState /\ SameOrder(r2, s3)
  <2> DEFINE st == CASE ws = "starting" -> "OFFLINE"
                     [] ws # "starting" /\ WorkspaceReady /\ FeedbackReady -> "MONITOR"
                     [] OTHER -> IF grace THEN "OFFLINE" ELSE "FAULT"
  <2>1. SameOrder(r2, [r2 EXCEPT !.state = st]) /\ SameOrder(r2, r2)
    <3> HIDE DEF st
    <3> QED
      BY <1>6, ZenonT(60) DEF GatewayState, SameOrder
  <2>2. s3 \in {r2, [r2 EXCEPT !.state = st]}
    BY Zenon DEF UpdateStateWithoutLease
  <2>3. s3 \in GatewayState
    BY <1>6, UpdateStateLemma, Zenon
  <2> HIDE DEF st, s3
  <2> QED
    BY <2>1, <2>2, <2>3, Zenon
<1> HIDE DEF s3
<1>8. SameOrder(s3, s4)
  <2> DEFINE a == [s3 EXCEPT !.lockPending = FALSE]
             b == [s3 EXCEPT !.lockPending = FALSE, !.lockForce = FALSE, !.transition = TRUE]
  <2>1. SameOrder(s3, a) /\ SameOrder(s3, b) /\ SameOrder(s3, s3)
    BY <1>7, ZenonT(60) DEF GatewayState, SameOrder
  <2>2. s4 \in {s3, a, b}
    BY Zenon DEF TakePendingBrakeAction
  <2> HIDE DEF a, b, s4
  <2> QED
    BY <2>1, <2>2, Zenon
<1> HIDE DEF s4
<1>9. Recedes(gw, f1)
  BY <1>2, <1>3, <1>4, RecedesTrans
<1>10. Recedes(f1, s4)
  <2>1. Recedes(f1, r2)
    BY <1>5, <1>6, RecedesTrans
  <2>2. Recedes(r2, s3) /\ Recedes(s3, s4)
    BY <1>7, <1>8, SameOrderRecedes
  <2>3. Recedes(f1, s3)
    BY <2>1, <2>2, RecedesTrans
  <2> QED
    BY <2>2, <2>3, RecedesTrans
<1>11. Recedes(gw, s4)
  BY <1>9, <1>10, RecedesTrans
<1> QED
  BY <1>1, <1>11, Zenon

\* A step that is not one of the four below leaves the lease or lets it recede.
Advances ==
  \/ ~gw.active /\ gw' = GrantLease(gw)
  \/ \E t \in CommandThreads : CommandStaged(t)
  \/ \E t \in CommandThreads : CommandDispatched(t)
  \/ gw.pValid /\ \E a \in GatewayState : SameOrder(gw, a) /\ gw' = TransactionDone(a)

LEMMA Moves ==
  ASSUME GatewayInv, [Next]_vars
  PROVE  Recedes(gw, gw') \/ Advances
<1>0. gw \in GatewayState /\ LeaseInv(gw)
  BY Zenon DEF GatewayInv, TypeOK
<1>1. ASSUME UNCHANGED gw PROVE Recedes(gw, gw')
  BY <1>1, RecedesRefl
<1>2. /\ SameOrder(gw, [gw EXCEPT !.transition = TRUE])
      /\ \A b \in BOOLEAN : SameOrder(gw, [gw EXCEPT !.locked = b])
      /\ SameOrder(gw, [gw EXCEPT !.pubAge = 0])
      /\ \A g : SameOrder(gw, [gw EXCEPT !.armAck = g]) /\ SameOrder(gw, [gw EXCEPT !.liftAck = g])
      /\ \A x, y, z : SameOrder(gw, [gw EXCEPT !.cmdAge = x, !.pendAge = y, !.pubAge = z])
  BY <1>0, ZenonT(60) DEF GatewayState, SameOrder
<1>3. ASSUME SameOrder(gw, gw') PROVE Recedes(gw, gw')
  BY <1>3, SameOrderRecedes
<1>4. CASE Environment
  <2>1. CASE \E x \in Workspaces : WorkspaceStatus(x)
    BY <1>1, <2>1, Zenon DEF WorkspaceStatus
  <2>2. CASE \E x \in LiftSamples : LiftStatus(x)
    <3>1. PICK x \in LiftSamples : LiftStatus(x)
      BY <2>2, Zenon
    <3>2. LockReported(x) \subseteq BOOLEAN
      BY DEF LockReported
    <3>3. PICK b \in BOOLEAN : gw' = gw \/ gw' = [gw EXCEPT !.locked = b]
      BY <3>1, <3>2, Zenon DEF LiftStatus
    <3> QED
      BY <1>1, <1>2, <1>3, <3>3, Zenon
  <2>3. CASE FeedbackStale
    BY <1>1, <2>3, Zenon DEF FeedbackStale
  <2>4. CASE Tick
    BY <1>2, <1>3, <2>4, Zenon DEF Tick
  <2> QED
    BY <1>4, <2>1, <2>2, <2>3, <2>4, Zenon DEF Environment
<1>5. CASE Handlers
  <2>1. CASE AcquireBegin \/ AcquireGrant \/ AcquireRefuse
    <3>1. CASE AcquireBegin
      BY <1>1, <1>2, <1>3, <3>1, Zenon DEF AcquireBegin
    <3>2. CASE AcquireGrant
      BY <3>2, Zenon DEF AcquireGrant, Grantable, Advances
    <3>3. CASE AcquireRefuse
      BY <1>1, <3>3, Zenon DEF AcquireRefuse
    <3> QED
      BY <2>1, <3>1, <3>2, <3>3
  <2>2. CASE \E t \in Threads : Brake(t)
    <3>1. PICK t \in Threads : Brake(t)
      BY <2>2, Zenon
    <3>2. CASE \E c \in BOOLEAN : EndBrakeAction(t, c)
      <4>1. PICK c \in BOOLEAN : EndBrakeAction(t, c)
        BY <3>2, Zenon
      <4> DEFINE r == thread[t].release
                 a == [gw EXCEPT !.transition = FALSE, !.locked = ~r, !.commanded = ~r]
                 b == [gw EXCEPT !.transition = FALSE]
      <4>2. SameOrder(gw, a) /\ SameOrder(gw, b)
        BY <1>0, ZenonT(60) DEF GatewayState, SameOrder
      <4>3. gw' \in {a, b}
        BY <4>1, Zenon DEF EndBrakeAction, CommitBrake
      <4> HIDE DEF a, b
      <4> QED
        BY <1>3, <4>2, <4>3, Zenon
    <3>3. CASE UNCHANGED gw
      BY <1>1, <3>3
    <3> QED
      BY <3>1, <3>2, <3>3, Zenon
         DEF Brake, BrakeFailed, BrakeLocked, BrakeReleased, ReleaseReplied, ReleaseConfirmed
  <2>3. CASE \E t \in CommandThreads, l \in 1 .. gw.gen, mode \in CommandModes :
               \E seq \in 1 .. MaxSeq :
                 CommandArrives(t, [lease |-> l, seq |-> seq, mode |-> mode])
    BY <1>1, <1>2, <1>3, <2>3, Zenon DEF CommandArrives
  <2>4. CASE \E t \in CommandThreads : CommandContinues(t)
    BY <1>1, <2>4, Zenon DEF CommandContinues, CommandRejected, Advances
  <2>5. CASE \E r \in Releasers : ReleaseBegin(r) \/ ReleaseDone(r) \/ ReleaseTimedOut(r)
    <3>1. \/ UNCHANGED gw
          \/ gw' = ClearLease(gw)
          \/ gw.active /\ gw' = BeginSafetyHold(gw, TRUE, FALSE)
      BY <2>5, Zenon DEF ReleaseBegin, ReleaseDone, ReleaseTimedOut
    <3>2. gw.active => Recedes(gw, BeginSafetyHold(gw, TRUE, FALSE))
      BY <1>0, BeginSafetyHoldRecedes
    <3> QED
      BY <1>0, <1>1, <3>1, <3>2, ClearLeaseRecedes, Zenon
  <2>6. CASE \E b \in BOOLEAN : LiftBrake(b)
    BY <1>2, <1>3, <2>6, Zenon DEF LiftBrake
  <2>7. CASE \E stationary, grace \in BOOLEAN : WatchdogTick(stationary, grace)
    BY <2>7, WatchdogRecedes
  <2>8. CASE \E p \in outbox, b \in BOOLEAN : Publish(p, b)
    BY <1>1, <1>2, <1>3, <2>8, Zenon DEF Publish
  <2> QED
    BY <1>5, <2>1, <2>2, <2>3, <2>4, <2>5, <2>6, <2>7, <2>8, Zenon DEF Handlers
<1>6. CASE \E c \in Controllers, g \in 1 .. GenSpace :
             ThreadFree /\ Acknowledgeable(g) /\ HandleAck(c, g)
  <2>1. PICK c \in Controllers, g \in 1 .. GenSpace : HandleAck(c, g)
    BY <1>6, Zenon
  <2> DEFINE a == AckRecorded(gw, c, g)
  <2>2. a \in GatewayState
    <3>1. g \in 0 .. GenSpace
      BY GatewayAssumption DEF GatewayAssumption
    <3>2. [gw EXCEPT !.armAck = g] \in GatewayState /\ [gw EXCEPT !.liftAck = g] \in GatewayState
      BY <1>0, <3>1, ZenonT(60) DEF GatewayState
    <3> QED
      BY <3>2, Zenon DEF AckRecorded
  <2>3. SameOrder(gw, a)
    BY <1>2, Zenon DEF AckRecorded
  <2>4. gw' = gw \/ gw' = a \/ (gw.pValid /\ gw' = TransactionDone(a))
    BY <2>1, Zenon DEF HandleAck
  <2> HIDE DEF a
  <2> QED
    BY <1>1, <1>3, <2>2, <2>3, <2>4, Zenon DEF Advances
<1>7. CASE UNCHANGED vars
  BY <1>1, <1>7, Zenon DEF vars
<1> QED
  BY <1>4, <1>5, <1>6, <1>7, Zenon DEF Next

-----------------------------------------------------------------------------
(* The abstract steps.                                                      *)

LEMMA BaseType == ASSUME NEW l \in Nat PROVE BaseSequence(l) \in Nat
BY GatewayAssumption DEF GatewayAssumption, BaseSequence

LEMMA PhaseValue ==
  ASSUME NEW s
  PROVE  /\ ~s.active => PhaseOf(s) = "none" /\ ModeOf(s) = "none"
         /\ s.active => ModeOf(s) = s.lastMode
         /\ s.active /\ s.revoke => PhaseOf(s) = "revoking"
         /\ s.active /\ ~s.revoke /\ ~s.aligned => PhaseOf(s) = "aligning"
         /\ s.active /\ ~s.revoke /\ s.aligned => PhaseOf(s) = "usable"
BY DEF PhaseOf, ModeOf

\* The types that the arithmetic of the sequences needs.
LEMMA SequenceTypes ==
  ASSUME NEW s \in GatewayState
  PROVE  /\ s.gen \in Nat /\ s.lastSeq \in Nat /\ s.appliedSeq \in Nat /\ s.pExt \in Nat
         /\ s.appliedIn \in Nat /\ s.sSeq \in Nat /\ s.sMode \in Modes /\ s.lastMode \in Modes
         /\ s.active \in BOOLEAN /\ s.aligned \in BOOLEAN /\ s.revoke \in BOOLEAN
         /\ s.pValid \in BOOLEAN /\ s.sValid \in BOOLEAN /\ s.pUser \in BOOLEAN
BY ZenonT(60) DEF GatewayState

ContractStep == [Lease!LeaseNext]_(Lease!leaseVars)

LEMMA RecedingStep ==
  ASSUME OrderInv(gw), Recedes(gw, gw')
  PROVE  ContractStep
<1>1. gw'.gen = gw.gen /\ gw'.lastSeq = gw.lastSeq
  BY Zenon DEF Recedes
<1>2. CASE ~gw'.active /\ ~gw.active
  <2>1. PhaseOf(gw') = PhaseOf(gw) /\ ModeOf(gw') = ModeOf(gw)
    BY <1>2, PhaseValue
  <2> QED
    BY <1>1, <2>1 DEF ContractStep, Lease!leaseVars
<1>3. CASE ~gw'.active /\ gw.active
  <2>1. PhaseOf(gw') = "none" /\ ModeOf(gw') = "none" /\ PhaseOf(gw) # "none"
    BY <1>3, PhaseValue
  <2> QED
    BY <1>1, <2>1 DEF ContractStep, Lease!LeaseNext, Lease!End
<1>4. CASE gw'.active
  <2>1. gw.active /\ gw'.aligned = gw.aligned /\ (gw.revoke => gw'.revoke)
    BY <1>4, Zenon DEF Recedes
  <2>2. CASE gw'.lastMode = gw.lastMode /\ (gw'.revoke <=> gw.revoke)
    <3>1. PhaseOf(gw') = PhaseOf(gw) /\ ModeOf(gw') = ModeOf(gw)
      BY <1>4, <2>1, <2>2, PhaseValue
    <3> QED
      BY <1>1, <3>1 DEF ContractStep, Lease!leaseVars
  <2>3. CASE gw'.lastMode = "HOLD" /\ gw'.revoke /\ ~gw.revoke
    <3>1. PhaseOf(gw) \in {"aligning", "usable"} /\ PhaseOf(gw') = "revoking" /\ ModeOf(gw') = "HOLD"
      BY <1>4, <2>1, <2>3, PhaseValue
    <3> QED
      BY <1>1, <3>1 DEF ContractStep, Lease!LeaseNext, Lease!Revoke
  <2>4. CASE gw'.lastMode = "HOLD" /\ gw'.aligned /\ ~gw'.revoke
    <3>1. PhaseOf(gw) = "usable" /\ PhaseOf(gw') = "usable" /\ ModeOf(gw') = "HOLD"
      BY <1>4, <2>1, <2>4, PhaseValue
    <3> QED
      BY <1>1, <3>1 DEF ContractStep, Lease!LeaseNext, Lease!Hold
  <2>5. gw.revoke => gw.lastMode = "HOLD"
    BY <2>1, Zenon DEF OrderInv
  <2>6. \/ gw'.lastMode = gw.lastMode /\ (gw'.revoke <=> gw.revoke)
        \/ gw'.lastMode = "HOLD" /\ (gw'.revoke \/ gw'.aligned)
    BY <1>4, Zenon DEF Recedes
  <2> QED
    BY <2>1, <2>2, <2>3, <2>4, <2>5, <2>6, Zenon
<1> QED
  BY <1>2, <1>3, <1>4, Zenon

LEMMA GrantStep ==
  ASSUME gw \in GatewayState, OrderInv(gw), ~gw.active, gw' = GrantLease(gw)
  PROVE  OrderInv(gw') /\ ContractStep
<1> DEFINE b == BaseSequence(gw.gen + 1)
<1>1. /\ gw'.gen = gw.gen + 1 /\ gw'.lastSeq = b /\ gw'.appliedSeq = gw.appliedSeq
      /\ gw'.appliedIn = gw.appliedIn
      /\ gw'.active /\ ~gw'.aligned /\ ~gw'.revoke /\ gw'.lastMode = "STOP"
      /\ ~gw'.pUser /\ ~gw'.sValid
  BY GrantOrder
<1>2. gw.gen \in Nat /\ gw.appliedIn \in Nat /\ gw.appliedIn <= gw.gen
  BY SequenceTypes DEF OrderInv, Ordered
<1>5. b \in Nat
  BY <1>2, BaseType
<1>6. /\ gw'.appliedIn <= gw'.gen /\ gw'.appliedIn # gw'.gen /\ b >= b
  <2>1. gw.appliedIn <= gw.gen + 1 /\ gw.appliedIn # gw.gen + 1
    BY <1>2
  <2> HIDE DEF b
  <2> QED
    BY <1>1, <1>5, <2>1
<1>7. BaseSequence(gw'.gen) = b
  BY <1>1, Zenon
<1> HIDE DEF b
<1>8. OrderInv(gw')
  BY <1>1, <1>6, <1>7 DEF OrderInv, Ordered
<1>9. /\ PhaseOf(gw) = "none" /\ PhaseOf(gw') = "aligning" /\ ModeOf(gw') = "STOP"
  BY <1>1, PhaseValue
<1>10. ContractStep
  BY <1>1, <1>9 DEF ContractStep, Lease!LeaseNext, Lease!Acquire, b, BaseSequence
<1> QED
  BY <1>8, <1>10

\* handleCommand admits only a sequence above everything dispatched or staged.
LEMMA AdmittedIsNewer ==
  ASSUME gw \in GatewayState, NEW t \in Threads, thread[t].msg.seq \in Nat,
         Admissible(thread[t].msg)
  PROVE  LET m == thread[t].msg
         IN  /\ gw.active /\ (m.mode = "FOLLOW" => gw.aligned)
             /\ m.seq > gw.lastSeq
<1> DEFINE m == thread[t].msg
<1>1. gw.active /\ m.lease = gw.gen /\ (m.mode = "FOLLOW" => gw.aligned)
  BY Zenon DEF Admissible, ValidCommand
<1>2. m.seq > NewestAdmitted(gw)
  BY Zenon DEF Admissible
<1>3. gw.lastSeq \in Nat /\ gw.pExt \in Nat /\ gw.sSeq \in Nat
  BY SequenceTypes
<1>4. NewestAdmitted(gw) \in Nat /\ NewestAdmitted(gw) >= gw.lastSeq
  BY <1>3 DEF NewestAdmitted
<1>5. m.seq > gw.lastSeq
  <2> HIDE DEF m
  <2> QED
    BY <1>2, <1>3, <1>4 DEF m
<1> QED
  BY <1>1, <1>5, Zenon

LEMMA StagedStep ==
  ASSUME GatewayInv, OrderInv(gw), NEW t \in CommandThreads, CommandStaged(t)
  PROVE  OrderInv(gw') /\ ContractStep
<1> DEFINE m == thread[t].msg
<1>1. gw \in GatewayState /\ t \in Threads
  BY Zenon DEF GatewayInv, TypeOK, Threads
<1>2. m.seq \in Nat /\ m.mode \in Modes
  BY <1>1, Zenon DEF GatewayInv, TypeOK, ThreadState, Messages
<1>3. Admissible(m) /\ gw' = Stage(gw, m)
  BY Zenon DEF CommandStaged
<1>4. /\ gw.active /\ (m.mode = "FOLLOW" => gw.aligned)
      /\ m.seq > gw.lastSeq
  BY <1>1, <1>2, <1>3, AdmittedIsNewer
<1> HIDE DEF m
<1>5. /\ gw'.gen = gw.gen /\ gw'.lastSeq = gw.lastSeq /\ gw'.appliedSeq = gw.appliedSeq
      /\ gw'.appliedIn = gw.appliedIn
      /\ gw'.active = gw.active /\ gw'.aligned = gw.aligned /\ gw'.revoke = gw.revoke
      /\ gw'.lastMode = gw.lastMode
      /\ gw'.pValid = gw.pValid /\ gw'.pUser = gw.pUser /\ gw'.pExt = gw.pExt
      /\ gw'.sSeq = m.seq /\ gw'.sMode = m.mode
  BY <1>1, <1>3, ZenonT(60) DEF Stage, GatewayState
<1>6. OrderInv(gw')
  BY <1>4, <1>5, Zenon DEF OrderInv, Ordered
<1>7. PhaseOf(gw') = PhaseOf(gw) /\ ModeOf(gw') = ModeOf(gw)
  BY <1>5, PhaseValue
<1>8. ContractStep
  BY <1>5, <1>7 DEF ContractStep, Lease!leaseVars
<1> QED
  BY <1>6, <1>8

LEMMA DispatchedStep ==
  ASSUME GatewayInv, OrderInv(gw), NEW t \in CommandThreads, CommandDispatched(t)
  PROVE  OrderInv(gw') /\ ContractStep
<1> DEFINE m == thread[t].msg
<1>1. gw \in GatewayState /\ t \in Threads
  BY Zenon DEF GatewayInv, TypeOK, Threads
<1>2. m.seq \in Nat /\ m.mode \in Modes
  BY <1>1, Zenon DEF GatewayInv, TypeOK, ThreadState, Messages
<1>3. Admissible(m) /\ ~gw.pValid /\ gw' = DispatchUserCommand(gw, m.seq, m.mode)
  BY Zenon DEF CommandDispatched
<1>4. /\ gw.active /\ (m.mode = "FOLLOW" => gw.aligned)
      /\ m.seq > gw.lastSeq
  BY <1>1, <1>2, <1>3, AdmittedIsNewer
<1> HIDE DEF m
<1>5. gw.aligned /\ ~gw.revoke /\ ~gw.sValid
  BY <1>3, <1>4, Zenon DEF GatewayInv, LeaseInv, TransactionOwned, AlignedFirst
<1>6. /\ gw'.gen = gw.gen /\ gw'.lastSeq = m.seq /\ gw'.appliedSeq = gw.appliedSeq
      /\ gw'.appliedIn = gw.appliedIn
      /\ gw'.active = gw.active /\ gw'.aligned = gw.aligned /\ ~gw'.revoke
      /\ gw'.lastMode = m.mode /\ gw'.pExt = m.seq /\ gw'.sValid = gw.sValid
  BY <1>1, <1>2, <1>3, DispatchOrder
<1>7. /\ gw.lastSeq >= BaseSequence(gw.gen) /\ gw.appliedIn <= gw.gen
      /\ gw.appliedIn = gw.gen => gw.appliedSeq <= gw.lastSeq
  BY <1>4, Zenon DEF OrderInv, Ordered
<1>8. /\ gw.lastSeq \in Nat /\ gw.appliedSeq \in Nat /\ BaseSequence(gw.gen) \in Nat
  BY <1>1, SequenceTypes, BaseType
<1>9. /\ m.seq > BaseSequence(gw.gen) /\ m.seq >= BaseSequence(gw.gen)
      /\ gw.appliedIn = gw.gen => gw.appliedSeq <= m.seq /\ m.seq > gw.appliedSeq
  BY <1>2, <1>4, <1>7, <1>8
<1>10. OrderInv(gw')
  BY <1>4, <1>5, <1>6, <1>7, <1>9, Zenon DEF OrderInv, Ordered
<1>11. PhaseOf(gw) = "usable" /\ PhaseOf(gw') = "usable" /\ ModeOf(gw') = m.mode
  BY <1>4, <1>5, <1>6, PhaseValue
<1>12. ContractStep
  BY <1>2, <1>4, <1>6, <1>11 DEF ContractStep, Lease!LeaseNext, Lease!Dispatch, Modes
<1> QED
  BY <1>10, <1>12

LEMMA DoneStep ==
  ASSUME GatewayInv, OrderInv(gw), gw.pValid,
         NEW a \in GatewayState, SameOrder(gw, a), gw' = TransactionDone(a)
  PROVE  OrderInv(gw') /\ ContractStep
<1> DEFINE x == IF gw.pUser THEN gw.pExt ELSE gw.appliedSeq
           i == IF gw.pUser THEN gw.gen ELSE gw.appliedIn
<1>1. gw \in GatewayState /\ gw.active /\ (gw.revoke => ~gw.pUser)
  BY Zenon DEF GatewayInv, TypeOK, LeaseInv, TransactionOwned
<1>2. /\ gw'.gen = gw.gen /\ gw'.appliedSeq = x /\ gw'.appliedIn = i
      /\ gw.revoke => ~gw'.active /\ ~gw'.pValid /\ ~gw'.sValid /\ gw'.lastSeq = gw.lastSeq
      /\ ~gw.revoke => /\ gw'.active /\ gw'.aligned /\ ~gw'.revoke /\ ~gw'.sValid
                       /\ gw.sValid => /\ gw'.pExt = gw.sSeq /\ gw'.lastSeq = gw.sSeq
                                       /\ gw'.lastMode = gw.sMode
                       /\ ~gw.sValid => /\ ~gw'.pValid /\ gw'.lastSeq = gw.lastSeq
                                        /\ gw'.lastMode = gw.lastMode
  <2>1. LET t == TransactionDone(a)
            z == IF a.pUser THEN a.pExt ELSE a.appliedSeq
        IN  /\ t.gen = a.gen /\ t.appliedSeq = z
            /\ t.appliedIn = IF a.pUser THEN a.gen ELSE a.appliedIn
            /\ a.revoke => ~t.active /\ (a.active => ~t.pValid /\ ~t.sValid /\ t.lastSeq = a.lastSeq)
            /\ ~a.revoke => /\ t.active = a.active /\ t.aligned /\ ~t.revoke /\ ~t.sValid
                            /\ a.sValid => /\ t.pExt = a.sSeq /\ t.lastSeq = a.sSeq
                                           /\ t.lastMode = a.sMode
                            /\ ~a.sValid => /\ ~t.pValid /\ t.lastSeq = a.lastSeq
                                            /\ t.lastMode = a.lastMode
    BY TransactionDoneOrder
  <2> QED
    BY <1>1, <2>1, Zenon DEF SameOrder
<1>3. /\ gw.lastSeq \in Nat /\ gw.appliedSeq \in Nat /\ BaseSequence(gw.gen) \in Nat
      /\ gw.sSeq \in Nat /\ gw.sMode \in Modes /\ gw.pExt \in Nat
      /\ gw.gen \in Nat /\ gw.appliedIn \in Nat
  BY <1>1, SequenceTypes, BaseType
<1>4. /\ gw.lastSeq >= BaseSequence(gw.gen) /\ gw.appliedIn <= gw.gen
      /\ gw.appliedIn = gw.gen => gw.appliedSeq <= gw.lastSeq
      /\ gw.pUser => gw.pExt = gw.lastSeq
  BY <1>1, Zenon DEF OrderInv, Ordered
<1>5. gw.sValid => /\ gw.sSeq > gw.lastSeq
                   /\ (gw.sMode = "FOLLOW" => gw.aligned)
  BY Zenon DEF OrderInv, Ordered
<1>6. x \in Nat /\ i <= gw.gen /\ (i = gw.gen => x <= gw.lastSeq)
  BY <1>3, <1>4
<1> HIDE DEF x, i
<1>7. CASE gw.revoke
  <2>1. OrderInv(gw')
    BY <1>2, <1>4, <1>6, <1>7, Zenon DEF OrderInv, Ordered
  <2>2. PhaseOf(gw) # "none" /\ PhaseOf(gw') = "none" /\ ModeOf(gw') = "none"
    BY <1>1, <1>2, <1>7, PhaseValue
  <2>3. ContractStep
    BY <1>2, <1>7, <2>2 DEF ContractStep, Lease!LeaseNext, Lease!End
  <2> QED
    BY <2>1, <2>3
<1>8. CASE ~gw.revoke /\ gw.sValid
  <2>1. /\ gw.sSeq > BaseSequence(gw.gen) /\ gw.sSeq >= BaseSequence(gw.gen)
        /\ i = gw.gen => x <= gw.sSeq /\ gw.sSeq > x
    BY <1>3, <1>4, <1>5, <1>6, <1>8
  <2>2. OrderInv(gw')
    BY <1>2, <1>5, <1>6, <1>8, <2>1, Zenon DEF OrderInv, Ordered
  <2>3. /\ PhaseOf(gw) \in {"aligning", "usable"} /\ (gw.aligned => PhaseOf(gw) = "usable")
        /\ PhaseOf(gw') = "usable" /\ ModeOf(gw') = gw.sMode
    BY <1>1, <1>2, <1>8, PhaseValue
  <2>4. gw.sMode \in {"HOLD", "STOP"} \/ (gw.sMode = "FOLLOW" /\ PhaseOf(gw) = "usable")
    BY <1>3, <1>5, <1>8, <2>3 DEF Modes
  <2>5. ContractStep
    BY <1>2, <1>3, <1>5, <1>8, <2>3, <2>4 DEF ContractStep, Lease!LeaseNext, Lease!Dispatch
  <2> QED
    BY <2>2, <2>5
<1>9. CASE ~gw.revoke /\ ~gw.sValid
  <2>1. OrderInv(gw')
    BY <1>2, <1>4, <1>6, <1>9, Zenon DEF OrderInv, Ordered
  <2>2. /\ PhaseOf(gw') = "usable" /\ ModeOf(gw') = ModeOf(gw)
        /\ PhaseOf(gw) \in {"aligning", "usable"}
    BY <1>1, <1>2, <1>9, PhaseValue
  <2>3. ContractStep
    BY <1>2, <1>9, <2>2 DEF ContractStep, Lease!LeaseNext, Lease!leaseVars, Lease!Align
  <2> QED
    BY <2>1, <2>3
<1> QED
  BY <1>7, <1>8, <1>9

-----------------------------------------------------------------------------
LEMMA OrderInit == Init => OrderInv(gw) /\ Lease!LeaseInit
<1> SUFFICES ASSUME Init PROVE OrderInv(gw) /\ Lease!LeaseInit
  OBVIOUS
<1>1. /\ ~gw.active /\ gw.gen = 0 /\ gw.lastSeq = 0 /\ gw.appliedSeq = 0 /\ gw.appliedIn = 0
      /\ ~gw.pValid /\ ~gw.sValid
  BY ZenonT(60) DEF Init
<1>2. OrderInv(gw)
  BY <1>1 DEF OrderInv, Ordered
<1>3. PhaseOf(gw) = "none" /\ ModeOf(gw) = "none"
  BY <1>1, PhaseValue
<1>4. Lease!LeaseInit
  BY <1>1, <1>3 DEF Lease!LeaseInit
<1> QED
  BY <1>2, <1>4

LEMMA OrderNext ==
  GatewayInv /\ GatewayInv' /\ OrderInv(gw) /\ [Next]_vars
    => OrderInv(gw)' /\ ContractStep
<1> SUFFICES ASSUME GatewayInv, GatewayInv', OrderInv(gw), [Next]_vars
             PROVE  OrderInv(gw') /\ ContractStep
  OBVIOUS
<1>2. CASE Recedes(gw, gw')
  <2>1. LeaseInv(gw')
    BY DEF GatewayInv
  <2> QED
    BY <1>2, <2>1, RecedingKeepsOrder, RecedingStep
<1>3. gw \in GatewayState
  BY DEF GatewayInv, TypeOK
<1>4. CASE Advances
  <2>1. CASE ~gw.active /\ gw' = GrantLease(gw)
    BY <1>3, <2>1, GrantStep
  <2>2. CASE \E t \in CommandThreads : CommandStaged(t)
    BY <2>2, StagedStep
  <2>3. CASE \E t \in CommandThreads : CommandDispatched(t)
    BY <2>3, DispatchedStep
  <2>4. CASE gw.pValid /\ \E a \in GatewayState : SameOrder(gw, a) /\ gw' = TransactionDone(a)
    BY <2>4, DoneStep
  <2> QED
    BY <1>4, <2>1, <2>2, <2>3, <2>4, Zenon DEF Advances
<1> QED
  BY <1>2, <1>4, Moves

\* Whatever the threads interleave, and whatever the clients of this and of
\* earlier leases send, a command is dispatched above everything dispatched or
\* applied before it under its lease, and a staged command above the one in
\* flight (handleCommand, handleAck).
THEOREM SequencesInOrder == Spec => []SequencesOrdered
<1>1. GatewayInv /\ GatewayInv' /\ OrderInv(gw) /\ [Next]_vars
        => OrderInv(gw)'
  BY OrderNext
<1>2. Init => OrderInv(gw)
  BY OrderInit
<1>3. OrderInv(gw) => SequencesOrdered
  BY DEF OrderInv, SequencesOrdered
<1> QED
  BY GatewayInvariant, <1>1, <1>2, <1>3, PTL DEF Spec

\* The gateway, with its transactions, acknowledgements, staging, retries,
\* watchdogs and native brake calls, implements the execution lease.
THEOREM ImplementsLease == Spec => LeaseContract
<1>1. GatewayInv /\ GatewayInv' /\ OrderInv(gw) /\ [Next]_vars
        => OrderInv(gw)' /\ [Lease!LeaseNext]_(Lease!leaseVars)
  BY OrderNext DEF ContractStep
<1>2. Init => OrderInv(gw) /\ Lease!LeaseInit
  BY OrderInit
<1> QED
  BY GatewayInvariant, <1>1, <1>2, PTL DEF Spec, LeaseContract, Lease!Spec
=============================================================================
