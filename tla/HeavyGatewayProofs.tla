------------------------- MODULE HeavyGatewayProofs -------------------------
(***************************************************************************)
(* Proofs about the execution-lease gateway, for every number of threads,  *)
(* every timeout and every bound.  The guarded state is one record, so the *)
(* helpers of the locked regions get one lemma each, and the step of an    *)
(* action cites the lemmas of the helpers it calls.                        *)
(***************************************************************************)
EXTENDS HeavyGateway, TLAPS

\* The lease part of the inductive invariant, on a guarded state.
LeaseInv(s) ==
  TransactionOwned(s) /\ AlignedFirst(s) /\ (s.active => s.state \notin {"FAULT", "OFFLINE"})

\* What every locked region except the grant does to the lease: it never makes
\* one, and it ends a lease under revocation or leaves the revocation pending.
Kept(s, t) == (t.active => s.active) /\ (s.revoke /\ t.active => t.revoke)

\* The fields that LeaseInv and Kept read are the same in s and t.
SameLeaseFields(s, t) ==
  /\ t.active = s.active /\ t.aligned = s.aligned /\ t.state = s.state /\ t.cmdAge = s.cmdAge
  /\ t.pValid = s.pValid /\ t.pUser = s.pUser /\ t.pMode = s.pMode
  /\ t.revoke = s.revoke /\ t.sValid = s.sValid

-----------------------------------------------------------------------------
(* The bounds, and the values the helpers store.                            *)

LEMMA Bounds ==
  /\ 0 \in 0 .. GenSpace /\ 0 \in 0 .. AckTimeout + 1 /\ 0 \in 0 .. RetryInterval
  /\ -1 \in -1 .. CmdAgeCap /\ 0 \in -1 .. CmdAgeCap /\ 0 >= 0 /\ 0 \in Nat
BY GatewayAssumption DEF GatewayAssumption, CmdAgeCap

LEMMA NextGenType == ASSUME NEW g \in 0 .. GenSpace PROVE NextGen(g) \in 0 .. GenSpace
BY GatewayAssumption DEF GatewayAssumption, NextGen

LEMMA SameFieldsKeepInv ==
  ASSUME NEW s, NEW t, SameLeaseFields(s, t), LeaseInv(s)
  PROVE  LeaseInv(t) /\ Kept(s, t)
BY Zenon DEF SameLeaseFields, LeaseInv, TransactionOwned, AlignedFirst, Kept

(* One lemma per helper.                                                    *)

\* queueBrakeLockLocked touches only the brake queue.
LEMMA QueueBrakeLockLemma ==
  ASSUME NEW s \in GatewayState, NEW force \in BOOLEAN
  PROVE  QueueBrakeLock(s, force) \in GatewayState /\ SameLeaseFields(s, QueueBrakeLock(s, force))
<1>1. CASE s.locked \/ s.transition \/ s.lockPending
  BY <1>1, Zenon DEF QueueBrakeLock, SameLeaseFields
<1>2. CASE ~(s.locked \/ s.transition \/ s.lockPending)
  <2> DEFINE t == [s EXCEPT !.lockPending = TRUE, !.lockForce = force]
  <2>1. t \in GatewayState
    BY ZenonT(60) DEF GatewayState
  <2>2. SameLeaseFields(s, t)
    BY ZenonT(60) DEF GatewayState, SameLeaseFields
  <2> QED
    BY <1>2, <2>1, <2>2, Zenon DEF QueueBrakeLock
<1> QED
  BY <1>1, <1>2

LEMMA DropStagedLemma ==
  ASSUME NEW s \in GatewayState
  PROVE  /\ DropStaged(s) \in GatewayState /\ DropStaged(s).active = s.active
         /\ DropStaged(s).gen = s.gen /\ ~DropStaged(s).sValid
BY Bounds, ZenonT(60) DEF DropStaged, GatewayState, Modes

LEMMA DropPendingLemma ==
  ASSUME NEW s \in GatewayState
  PROVE  DropPending(s) \in GatewayState /\ DropPending(s).active = s.active
BY Bounds, ZenonT(60) DEF DropPending, GatewayState, Modes

\* clearHeavyLeaseLocked ends the lease and needs the invariant only to do nothing.
LEMMA ClearLeaseLemma ==
  ASSUME NEW s \in GatewayState
  PROVE  /\ ClearLease(s) \in GatewayState /\ ~ClearLease(s).active
         /\ s.active \/ LeaseInv(s) => LeaseInv(ClearLease(s))
<1>1. CASE ~s.active
  BY <1>1, Zenon DEF ClearLease
<1>2. CASE s.active
  <2> DEFINE d == DropStaged(DropPending(s))
             t == [d EXCEPT !.active = FALSE, !.aligned = FALSE, !.revoke = FALSE,
                            !.cmdAge = -1, !.state = "MONITOR"]
  <2>1. d \in GatewayState
    BY DropPendingLemma, DropStagedLemma
  <2>2. ~d.sValid /\ ~d.pValid
    BY DropPendingLemma, ZenonT(60) DEF DropStaged, DropPending, GatewayState
  <2>3. t \in GatewayState
    BY <2>1, Bounds, ZenonT(60) DEF GatewayState, States
  <2>4. ~t.active /\ ~t.revoke /\ ~t.sValid /\ ~t.pValid /\ t.state = "MONITOR"
    BY <2>1, <2>2, ZenonT(60) DEF GatewayState
  <2>5. LeaseInv(t)
    BY <2>4, Zenon DEF LeaseInv, TransactionOwned, AlignedFirst
  <2>6. ClearLease(s) = t
    BY <1>2, Zenon DEF ClearLease
  <2> QED
    BY <2>3, <2>4, <2>5, <2>6, Zenon
<1> QED
  BY <1>1, <1>2

LEMMA SubmitGen == ASSUME NEW s \in GatewayState PROVE NextGen(s.pGen) \in 0 .. GenSpace
<1>1. s.pGen \in 0 .. GenSpace
  BY ZenonT(60) DEF GatewayState
<1> QED
  BY <1>1, NextGenType

\* beginSafetyHoldLocked establishes the invariant in any state with a lease.
LEMMA BeginSafetyHoldLemma ==
  ASSUME NEW s \in GatewayState, NEW revoke \in BOOLEAN, NEW watchdog \in BOOLEAN,
         s.active
  PROVE  LET t == BeginSafetyHold(s, revoke, watchdog)
         IN  t \in GatewayState /\ LeaseInv(t) /\ t.active /\ (t.revoke <=> revoke)
<1> DEFINE c == IF watchdog /\ ~s.captured
                THEN [s EXCEPT !.captured = TRUE, !.capturedIn = s.gen] ELSE s
           from == IF c.captured /\ (watchdog \/ revoke) THEN c.capturedIn ELSE c.gen
           h == Submit(DropStaged(c), FALSE, 0, "HOLD", from, revoke)
           p == [h EXCEPT !.state = IF revoke THEN "STOPPING" ELSE "LEASED_HOLD"]
           q == IF revoke THEN QueueBrakeLock(p, TRUE)
                ELSE IF s.lastMode = "FOLLOW" THEN QueueBrakeLock(p, FALSE) ELSE p
           t == [q EXCEPT !.lastMode = "HOLD"]
<1>1. c \in GatewayState /\ c.active
  <2>1. s.gen \in Nat
    BY ZenonT(60) DEF GatewayState
  <2>2. [s EXCEPT !.captured = TRUE, !.capturedIn = s.gen] \in GatewayState
    BY <2>1, ZenonT(60) DEF GatewayState
  <2>3. [s EXCEPT !.captured = TRUE, !.capturedIn = s.gen].active
    BY ZenonT(60) DEF GatewayState
  <2> QED
    BY <2>2, <2>3, Zenon
<1>2. from \in Nat
  <2>1. c.capturedIn \in Nat /\ c.gen \in Nat
    BY <1>1, ZenonT(60) DEF GatewayState
  <2> QED
    BY <2>1, Zenon
<1>3. DropStaged(c) \in GatewayState /\ DropStaged(c).active /\ ~DropStaged(c).sValid
  BY <1>1, DropStagedLemma, Zenon
<1>4. /\ h \in GatewayState /\ h.pValid /\ ~h.pUser /\ h.pMode = "HOLD"
      /\ (h.revoke <=> revoke) /\ h.active /\ ~h.sValid
  <2>1. h \in GatewayState
    <3>1. NextGen(DropStaged(c).pGen) \in 0 .. GenSpace
      BY <1>3, SubmitGen
    <3> HIDE DEF from, c
    <3> QED
      BY <1>2, <1>3, <3>1, Bounds, ZenonT(60) DEF Submit, GatewayState, Modes
  <2> HIDE DEF from, c
  <2>2. /\ h.pValid /\ ~h.pUser /\ h.pMode = "HOLD" /\ (h.revoke <=> revoke)
        /\ h.active /\ ~h.sValid
    BY <1>3, ZenonT(60) DEF Submit, GatewayState
  <2> QED
    BY <2>1, <2>2, Zenon
<1> HIDE DEF h
<1>5. /\ p \in GatewayState /\ p.pValid /\ ~p.pUser /\ p.pMode = "HOLD"
      /\ (p.revoke <=> revoke) /\ p.active /\ ~p.sValid
      /\ p.state = IF revoke THEN "STOPPING" ELSE "LEASED_HOLD"
  <2>1. (IF revoke THEN "STOPPING" ELSE "LEASED_HOLD") \in States
    BY Zenon DEF States
  <2>2. p \in GatewayState
    BY <1>4, <2>1, ZenonT(60) DEF GatewayState
  <2>3. /\ p.pValid /\ ~p.pUser /\ p.pMode = "HOLD" /\ (p.revoke <=> revoke) /\ p.active /\ ~p.sValid
        /\ p.state = IF revoke THEN "STOPPING" ELSE "LEASED_HOLD"
    BY <1>4, ZenonT(60) DEF GatewayState
  <2> QED
    BY <2>2, <2>3, Zenon
<1> HIDE DEF p
<1>6. q \in GatewayState /\ SameLeaseFields(p, q)
  <2>1. SameLeaseFields(p, p)
    BY Zenon DEF SameLeaseFields
  <2>2. \A b \in BOOLEAN :
          QueueBrakeLock(p, b) \in GatewayState /\ SameLeaseFields(p, QueueBrakeLock(p, b))
    BY <1>5, QueueBrakeLockLemma
  <2> QED
    BY <1>5, <2>1, <2>2, Zenon
<1> HIDE DEF q
<1>7. t \in GatewayState
  BY <1>6, ZenonT(60) DEF GatewayState, Modes
<1>8. SameLeaseFields(q, t)
  BY <1>6, ZenonT(60) DEF GatewayState, SameLeaseFields
<1>9. /\ t.pValid /\ ~t.pUser /\ t.pMode = "HOLD" /\ (t.revoke <=> revoke) /\ t.active /\ ~t.sValid
      /\ t.state = IF revoke THEN "STOPPING" ELSE "LEASED_HOLD"
  BY <1>5, <1>6, <1>8, Zenon DEF SameLeaseFields
<1>10. LeaseInv(t)
  <2> HIDE DEF t
  <2>1. t.state # "FAULT" /\ t.state # "OFFLINE" /\ t.state # "FOLLOWING"
        /\ (t.revoke => t.state = "STOPPING")
    BY <1>9
  <2>2. t.pMode # "FOLLOW"
    BY <1>9, Zenon
  <2> QED
    BY <1>9, <2>1, <2>2, Zenon DEF LeaseInv, TransactionOwned, AlignedFirst
<1>11. BeginSafetyHold(s, revoke, watchdog) = t
  BY Zenon DEF BeginSafetyHold, q, p, h
<1> QED
  BY <1>7, <1>9, <1>10, <1>11, Zenon

\* dispatchUserCommandLocked establishes the invariant in an aligned lease.
LEMMA DispatchLemma ==
  ASSUME NEW s \in GatewayState, NEW seq \in Nat, NEW mode \in Modes,
         s.active, s.aligned
  PROVE  LET t == DispatchUserCommand(s, seq, mode)
         IN  t \in GatewayState /\ LeaseInv(t) /\ t.active /\ t.sValid = s.sValid
<1> DEFINE h == Submit(s, TRUE, seq, mode, s.gen, FALSE)
           p == [h EXCEPT !.lastSeq = seq, !.cmdAge = 0, !.captured = FALSE]
           q == IF mode = "HOLD" /\ (s.lastMode = "FOLLOW" \/ s.firstUser)
                THEN QueueBrakeLock(p, FALSE)
                ELSE IF mode = "STOP" THEN QueueBrakeLock(p, TRUE) ELSE p
           st == CASE mode = "FOLLOW" -> "FOLLOWING"
                   [] mode = "STOP" -> "STOPPING"
                   [] OTHER -> "LEASED_HOLD"
           t == [q EXCEPT !.firstUser = FALSE, !.lastMode = mode, !.state = st]
<1>1. /\ h \in GatewayState /\ h.pValid /\ h.pUser /\ ~h.revoke /\ h.active /\ h.aligned
      /\ h.sValid = s.sValid
  <2>1. s.gen \in Nat /\ NextGen(s.pGen) \in 0 .. GenSpace
    BY SubmitGen, ZenonT(60) DEF GatewayState
  <2>2. h \in GatewayState
    BY <2>1, Bounds, ZenonT(60) DEF Submit, GatewayState
  <2>3. /\ h.pValid /\ h.pUser /\ ~h.revoke /\ h.active /\ h.aligned
        /\ h.sValid = s.sValid
    BY ZenonT(60) DEF Submit, GatewayState
  <2> QED
    BY <2>2, <2>3, Zenon
<1> HIDE DEF h
<1>2. /\ p \in GatewayState
      /\ p.pValid /\ p.pUser /\ ~p.revoke /\ p.active /\ p.aligned /\ p.cmdAge = 0
      /\ p.sValid = s.sValid
  <2>1. p \in GatewayState
    BY <1>1, Bounds, ZenonT(60) DEF GatewayState
  <2>2. /\ p.pValid /\ p.pUser /\ ~p.revoke /\ p.active /\ p.aligned /\ p.cmdAge = 0
        /\ p.sValid = s.sValid
    BY <1>1, ZenonT(60) DEF GatewayState
  <2> QED
    BY <2>1, <2>2, Zenon
<1> HIDE DEF p
<1>3. q \in GatewayState /\ SameLeaseFields(p, q)
  <2>1. SameLeaseFields(p, p)
    BY Zenon DEF SameLeaseFields
  <2>2. \A b \in BOOLEAN :
          QueueBrakeLock(p, b) \in GatewayState /\ SameLeaseFields(p, QueueBrakeLock(p, b))
    BY <1>2, QueueBrakeLockLemma
  <2> QED
    BY <1>2, <2>1, <2>2, Zenon
<1> HIDE DEF q
<1>4. st \in States /\ st # "FAULT" /\ st # "OFFLINE"
  BY DEF States, Modes
<1> HIDE DEF st
<1>5. t \in GatewayState
  BY <1>3, <1>4, ZenonT(60) DEF GatewayState
<1>6. /\ t.pValid /\ t.pUser /\ ~t.revoke /\ t.active /\ t.aligned /\ t.cmdAge = 0
      /\ t.sValid = s.sValid /\ t.state = st
  <2>1. /\ t.pValid = q.pValid /\ t.pUser = q.pUser /\ t.revoke = q.revoke
        /\ t.active = q.active /\ t.aligned = q.aligned /\ t.cmdAge = q.cmdAge
        /\ t.sValid = q.sValid /\ t.state = st
    BY <1>3, ZenonT(60) DEF GatewayState
  <2> QED
    BY <1>2, <1>3, <2>1, Zenon DEF SameLeaseFields
<1>7. LeaseInv(t)
  BY <1>4, <1>6, Bounds, Zenon DEF LeaseInv, TransactionOwned, AlignedFirst
<1>8. DispatchUserCommand(s, seq, mode) = t
  BY Zenon DEF DispatchUserCommand, q, p, h, st
<1> QED
  BY <1>5, <1>6, <1>7, <1>8, Zenon

\* The first lease transaction, submitted by handleAcquire.
LEMMA GrantLemma ==
  ASSUME NEW s \in GatewayState
  PROVE  LET t == GrantLease(s) IN t \in GatewayState /\ LeaseInv(t)
<1> DEFINE l == s.gen + 1
           b == BaseSequence(l)
           d == DropStaged(s)
           e == [d EXCEPT !.gen = l, !.lastSeq = b,
                   !.active = TRUE, !.aligned = FALSE, !.firstUser = TRUE, !.lastMode = "STOP",
                   !.cmdAge = -1, !.state = "MONITOR"]
           t == Submit(e, FALSE, 0, "HOLD", l, FALSE)
<1>1. l \in Nat /\ b \in Nat
  <2>1. s.gen \in Nat
    BY ZenonT(60) DEF GatewayState
  <2>2. l \in Nat /\ SeqSpan \in Nat
    BY <2>1, GatewayAssumption DEF GatewayAssumption
  <2> HIDE DEF l
  <2> QED
    BY <2>2 DEF BaseSequence
<1> HIDE DEF b, l
<1>2. d \in GatewayState /\ ~d.sValid
  BY DropStagedLemma
<1>3. e \in GatewayState
  BY <1>1, <1>2, Bounds, ZenonT(60) DEF GatewayState, Modes, States
<1>4. e.active /\ ~e.sValid /\ e.state = "MONITOR"
  BY <1>2, ZenonT(60) DEF GatewayState
<1> HIDE DEF d, e
<1>5. t \in GatewayState
  <2>1. NextGen(e.pGen) \in 0 .. GenSpace
    BY <1>3, SubmitGen
  <2> QED
    BY <1>1, <1>3, <2>1, Bounds, ZenonT(60) DEF Submit, GatewayState, Modes
<1>6. /\ t.active /\ ~t.sValid /\ t.state = "MONITOR"
      /\ t.pValid /\ ~t.pUser /\ ~t.revoke /\ t.pMode = "HOLD"
  BY <1>3, <1>4, ZenonT(60) DEF Submit, GatewayState
<1>7. LeaseInv(t)
  BY <1>6, Zenon DEF LeaseInv, TransactionOwned, AlignedFirst
<1>8. GrantLease(s) = t
  BY Zenon DEF GrantLease, d, e, b, l
<1> QED
  BY <1>5, <1>7, <1>8, Zenon

\* The completion of a transaction by handleAck: a pending revocation ends the
\* lease, whatever was staged behind it.
LEMMA TransactionDoneLemma ==
  ASSUME NEW s \in GatewayState, LeaseInv(s), s.pValid
  PROVE  LET t == TransactionDone(s)
         IN  t \in GatewayState /\ LeaseInv(t) /\ Kept(s, t)
<1> DEFINE d == DropPending(s)
           x == IF s.pUser THEN s.pExt ELSE d.appliedSeq
           j == IF s.pUser THEN s.gen ELSE d.appliedIn
           st == IF ~s.aligned \/ (d.state = "STOPPING" /\ ~s.revoke)
                 THEN "LEASED_HOLD" ELSE d.state
           a == [d EXCEPT !.appliedSeq = x, !.appliedIn = j, !.aligned = TRUE, !.state = st]
           u == DispatchUserCommand(a, s.sSeq, s.sMode)
           t == IF s.revoke THEN ClearLease(a)
                ELSE IF s.sValid THEN DropStaged(u) ELSE a
<1>0. TransactionDone(s) = t
  BY Zenon DEF TransactionDone
<1>1. d \in GatewayState
  BY DropPendingLemma
<1>2. /\ ~d.pValid /\ d.pMode = "HOLD" /\ d.active = s.active /\ d.state = s.state
      /\ d.cmdAge = s.cmdAge /\ d.revoke = s.revoke /\ d.sValid = s.sValid
  BY ZenonT(60) DEF DropPending, GatewayState
<1>3. x \in Nat /\ j \in Nat /\ st \in States
  <2>1. /\ s.pExt \in Nat /\ d.appliedSeq \in Nat /\ d.state \in States
        /\ s.gen \in Nat /\ d.appliedIn \in Nat
    BY <1>1, ZenonT(60) DEF GatewayState
  <2>2. "LEASED_HOLD" \in States
    BY DEF States
  <2> QED
    BY <2>1, <2>2, Zenon
<1>4. s.active /\ s.state # "FAULT" /\ s.state # "OFFLINE" /\ (s.revoke => ~s.pUser)
  BY Zenon DEF LeaseInv, TransactionOwned
<1>5. /\ st # "FAULT" /\ st # "OFFLINE"
      /\ (st = "FOLLOWING" => s.state = "FOLLOWING")
  BY <1>2, <1>4
<1> HIDE DEF x, j, st, d
<1>6. /\ a \in GatewayState
      /\ ~a.pValid /\ a.pMode = "HOLD" /\ a.active /\ a.aligned /\ a.state = st
      /\ a.cmdAge = s.cmdAge /\ (a.revoke <=> s.revoke) /\ (a.sValid <=> s.sValid)
  <2>1. a \in GatewayState
    BY <1>1, <1>3, ZenonT(60) DEF GatewayState
  <2>2. /\ ~a.pValid /\ a.pMode = "HOLD" /\ a.active /\ a.aligned /\ a.state = st
        /\ a.cmdAge = s.cmdAge /\ (a.revoke <=> s.revoke) /\ (a.sValid <=> s.sValid)
    BY <1>1, <1>2, <1>4, ZenonT(60) DEF GatewayState
  <2> QED
    BY <2>1, <2>2, Zenon
<1> HIDE DEF a
<1>7. CASE s.revoke
  <2>1. t = ClearLease(a)
    BY <1>7, Zenon
  <2>2. t \in GatewayState /\ LeaseInv(t) /\ ~t.active
    BY <1>6, <2>1, ClearLeaseLemma, Zenon
  <2> QED
    BY <1>0, <2>2, Zenon DEF Kept
<1>8. CASE ~s.revoke /\ s.sValid
  <2>1. s.sSeq \in Nat /\ s.sMode \in Modes
    BY ZenonT(60) DEF GatewayState
  <2>2. u \in GatewayState /\ LeaseInv(u) /\ u.active
    BY <1>6, <2>1, DispatchLemma
  <2> HIDE DEF u
  <2>3. /\ DropStaged(u) \in GatewayState /\ DropStaged(u).active
        /\ ~DropStaged(u).sValid
    BY <2>2, DropStagedLemma, Zenon
  <2>4. /\ DropStaged(u).aligned = u.aligned /\ DropStaged(u).state = u.state
        /\ DropStaged(u).cmdAge = u.cmdAge /\ DropStaged(u).pValid = u.pValid
        /\ DropStaged(u).pUser = u.pUser /\ DropStaged(u).pMode = u.pMode
        /\ DropStaged(u).revoke = u.revoke
    BY <2>2, ZenonT(60) DEF DropStaged, GatewayState
  <2>5. LeaseInv(DropStaged(u))
    BY <2>2, <2>3, <2>4, Zenon DEF LeaseInv, TransactionOwned, AlignedFirst
  <2>6. t = DropStaged(u)
    BY <1>8, Zenon
  <2> QED
    BY <1>4, <1>8, <1>0, <2>3, <2>5, <2>6, Zenon DEF Kept
<1>9. CASE ~s.revoke /\ ~s.sValid
  <2>1. t = a
    BY <1>9, Zenon
  <2>2. LeaseInv(a)
    BY <1>5, <1>6, <1>9, Zenon DEF LeaseInv, TransactionOwned, AlignedFirst
  <2> QED
    BY <1>4, <1>6, <1>9, <1>0, <2>1, <2>2, Zenon DEF Kept
<1> QED
  BY <1>7, <1>8, <1>9, Zenon

LEMMA UpdateStateLemma ==
  ASSUME NEW s \in GatewayState, LeaseInv(s), NEW grace \in BOOLEAN
  PROVE  LET t == UpdateStateWithoutLease(s, grace)
         IN  t \in GatewayState /\ LeaseInv(t) /\ Kept(s, t)
<1> DEFINE st == CASE ws = "starting" -> "OFFLINE"
                   [] ws # "starting" /\ WorkspaceReady /\ FeedbackReady -> "MONITOR"
                   [] OTHER -> IF grace THEN "OFFLINE" ELSE "FAULT"
           t == [s EXCEPT !.state = st]
<1>1. CASE s.active
  BY <1>1, Zenon DEF UpdateStateWithoutLease, Kept
<1>2. CASE ~s.active
  <2>1. st \in States /\ st # "FOLLOWING"
    <3> DEFINE ready == ws # "starting" /\ WorkspaceReady /\ FeedbackReady
    <3>1. CASE ready
      BY <3>1 DEF States
    <3>2. CASE ~ready
      BY <3>2 DEF States
    <3> QED
      BY <3>1, <3>2
  <2> HIDE DEF st
  <2>2. t \in GatewayState
    BY <2>1, ZenonT(60) DEF GatewayState
  <2>3. /\ t.state = st /\ t.active = s.active /\ t.pValid = s.pValid /\ t.sValid = s.sValid
        /\ t.revoke = s.revoke
    BY ZenonT(60) DEF GatewayState
  <2>4. LeaseInv(t) /\ Kept(s, t)
    BY <1>2, <2>1, <2>3, Zenon DEF LeaseInv, TransactionOwned, AlignedFirst, Kept
  <2>5. UpdateStateWithoutLease(s, grace) = t
    BY <1>2, Zenon DEF UpdateStateWithoutLease, st
  <2> QED
    BY <2>2, <2>4, <2>5, Zenon
<1> QED
  BY <1>1, <1>2

LEMMA TakeBrakeLemma ==
  ASSUME NEW s \in GatewayState, NEW stationary \in BOOLEAN
  PROVE  LET t == TakePendingBrakeAction(s, stationary)
         IN  t \in GatewayState /\ SameLeaseFields(s, t)
<1> DEFINE a == [s EXCEPT !.lockPending = FALSE]
           b == [s EXCEPT !.lockPending = FALSE, !.lockForce = FALSE, !.transition = TRUE]
<1>1. a \in GatewayState /\ b \in GatewayState
  BY ZenonT(60) DEF GatewayState
<1>2. SameLeaseFields(s, a) /\ SameLeaseFields(s, b) /\ SameLeaseFields(s, s)
  BY ZenonT(60) DEF GatewayState, SameLeaseFields
<1>3. TakePendingBrakeAction(s, stationary) \in {s, a, b}
  BY Zenon DEF TakePendingBrakeAction
<1> HIDE DEF a, b
<1> QED
  BY <1>1, <1>2, <1>3, Zenon

LEMMA CommitBrakeLemma ==
  ASSUME NEW s \in GatewayState, NEW confirmed \in BOOLEAN, NEW release \in BOOLEAN
  PROVE  LET t == CommitBrake(s, confirmed, release)
         IN  t \in GatewayState /\ SameLeaseFields(s, t)
<1> DEFINE a == [s EXCEPT !.transition = FALSE, !.locked = ~release, !.commanded = ~release]
           b == [s EXCEPT !.transition = FALSE]
<1>1. a \in GatewayState /\ b \in GatewayState
  <2>1. PICK n \in BOOLEAN : n = ~release
    OBVIOUS
  <2>2. [s EXCEPT !.transition = FALSE, !.locked = n, !.commanded = n] \in GatewayState
    BY ZenonT(60) DEF GatewayState
  <2>3. b \in GatewayState
    BY ZenonT(60) DEF GatewayState
  <2> QED
    BY <2>1, <2>2, <2>3, Zenon
<1>2. SameLeaseFields(s, a) /\ SameLeaseFields(s, b)
  BY ZenonT(60) DEF GatewayState, SameLeaseFields
<1>3. CommitBrake(s, confirmed, release) \in {a, b}
  BY Zenon DEF CommitBrake
<1> HIDE DEF a, b
<1> QED
  BY <1>1, <1>2, <1>3, Zenon

(* The branches of the watchdog.                                            *)

LEMMA KeptRefl == ASSUME NEW s PROVE Kept(s, s)
BY Zenon DEF Kept

LEMMA KeptTrans == ASSUME NEW s, NEW t, NEW u, Kept(s, t), Kept(t, u) PROVE Kept(s, u)
BY Zenon DEF Kept

LEMMA CommandTimeoutLemma ==
  ASSUME NEW s \in GatewayState, LeaseInv(s)
  PROVE  LET t == CommandTimeout(s) IN t \in GatewayState /\ LeaseInv(t) /\ Kept(s, t)
<1> DEFINE due == s.active /\ ~s.pValid /\ s.state = "FOLLOWING" /\ s.cmdAge > HoldTimeout
           h == BeginSafetyHold(s, FALSE, TRUE)
<1>1. CASE ~due
  BY <1>1, KeptRefl, Zenon DEF CommandTimeout
<1>2. CASE due
  <2>1. h \in GatewayState /\ LeaseInv(h) /\ h.active
    BY <1>2, BeginSafetyHoldLemma
  <2>2. Kept(s, h)
    BY <1>2, Zenon DEF Kept, LeaseInv, TransactionOwned
  <2>3. CommandTimeout(s) = h
    BY <1>2, Zenon DEF CommandTimeout
  <2> QED
    BY <2>1, <2>2, <2>3, Zenon
<1> QED
  BY <1>1, <1>2

LEMMA RevokingHoldLemma ==
  ASSUME NEW s \in GatewayState, s.active
  PROVE  LET h == BeginSafetyHold(s, TRUE, FALSE)
         IN  h \in GatewayState /\ LeaseInv(h) /\ h.active /\ Kept(s, h)
<1> DEFINE h == BeginSafetyHold(s, TRUE, FALSE)
<1>1. h \in GatewayState /\ LeaseInv(h) /\ h.active /\ (h.revoke <=> TRUE)
  BY BeginSafetyHoldLemma
<1> HIDE DEF h
<1>2. Kept(s, h)
  BY <1>1, Zenon DEF Kept
<1> QED
  BY <1>1, <1>2, Zenon DEF h

LEMMA LeaseExpiryLemma ==
  ASSUME NEW s \in GatewayState, LeaseInv(s)
  PROVE  LET t == LeaseExpiry(s) IN t \in GatewayState /\ LeaseInv(t) /\ Kept(s, t)
<1> DEFINE due == s.active /\ s.cmdAge >= LeaseTimeout
<1>1. CASE ~due
  BY <1>1, KeptRefl, Zenon DEF LeaseExpiry
<1>2. CASE due
  BY <1>2, RevokingHoldLemma, Zenon DEF LeaseExpiry
<1> QED
  BY <1>1, <1>2

LEMMA RevocationFallbackLemma ==
  ASSUME NEW s \in GatewayState, LeaseInv(s)
  PROVE  LET t == RevocationFallback(s) IN t \in GatewayState /\ LeaseInv(t) /\ Kept(s, t)
<1> DEFINE due == s.active /\ s.revoke /\ s.pValid /\ s.pendAge > AckTimeout
<1>1. CASE ~due
  BY <1>1, KeptRefl, Zenon DEF RevocationFallback
<1>2. CASE due
  BY <1>2, ClearLeaseLemma, Zenon DEF RevocationFallback, Kept
<1> QED
  BY <1>1, <1>2

LEMMA AckTimeoutFaultLemma ==
  ASSUME NEW s \in GatewayState, LeaseInv(s)
  PROVE  LET t == AckTimeoutFault(s) IN t \in GatewayState /\ LeaseInv(t) /\ Kept(s, t)
<1> DEFINE due == s.active /\ s.pValid /\ s.pendAge > AckTimeout /\ s.state # "FAULT"
           f == [s EXCEPT !.state = "FAULT"]
           q == QueueBrakeLock(f, TRUE)
<1>1. CASE ~due
  BY <1>1, KeptRefl, Zenon DEF AckTimeoutFault
<1>2. CASE due
  <2>1. f \in GatewayState /\ f.active
    BY <1>2, ZenonT(60) DEF GatewayState, States
  <2> HIDE DEF f
  <2>2. \A b \in BOOLEAN :
          QueueBrakeLock(f, b) \in GatewayState /\ SameLeaseFields(f, QueueBrakeLock(f, b))
    BY <2>1, QueueBrakeLockLemma
  <2>3. q \in GatewayState /\ q.active
    BY <2>1, <2>2, Zenon DEF SameLeaseFields
  <2>4. AckTimeoutFault(s) = ClearLease(q)
    BY <1>2, Zenon DEF AckTimeoutFault, f
  <2> HIDE DEF q
  <2>5. ClearLease(q) \in GatewayState /\ LeaseInv(ClearLease(q)) /\ ~ClearLease(q).active
    BY <2>3, ClearLeaseLemma, Zenon
  <2> QED
    BY <2>4, <2>5, Zenon DEF Kept
<1> QED
  BY <1>1, <1>2

LEMMA ResourceLossLemma ==
  ASSUME NEW s \in GatewayState, LeaseInv(s)
  PROVE  LET t == ResourceLoss(s) IN t \in GatewayState /\ LeaseInv(t) /\ Kept(s, t)
<1> DEFINE h == BeginSafetyHold(s, TRUE, FALSE)
<1>1. CASE ~ResourceLost(s)
  BY <1>1, KeptRefl, Zenon DEF ResourceLoss
<1>2. CASE ResourceLost(s)
  <2>1. s.active
    BY <1>2, Zenon DEF ResourceLost
  <2>2. h \in GatewayState /\ h.active
    BY <2>1, RevokingHoldLemma, Zenon
  <2>3. ResourceLoss(s) = ClearLease(h)
    BY <1>2, Zenon DEF ResourceLoss
  <2> HIDE DEF h
  <2>4. ClearLease(h) \in GatewayState /\ LeaseInv(ClearLease(h)) /\ ~ClearLease(h).active
    BY <2>2, ClearLeaseLemma, Zenon
  <2> QED
    BY <2>3, <2>4, Zenon DEF Kept
<1> QED
  BY <1>1, <1>2

-----------------------------------------------------------------------------
(* The inductive invariant, and what every step does.                       *)

GatewayInv == TypeOK /\ LeaseInv(gw)

\* A region of the mutex: the new guarded state is well formed, satisfies the
\* lease invariant, and ends a lease under revocation or keeps revoking it.
GuardedStep ==
  gw' \in GatewayState /\ LeaseInv(gw') /\ (SameLease /\ gw.revoke => gw'.revoke)

LEMMA KeptGuardedStep ==
  ASSUME gw' \in GatewayState, LeaseInv(gw'), Kept(gw, gw') PROVE GuardedStep
BY Zenon DEF GuardedStep, Kept, SameLease

LEMMA SameFieldsGuardedStep ==
  ASSUME LeaseInv(gw), gw' \in GatewayState, SameLeaseFields(gw, gw') PROVE GuardedStep
BY SameFieldsKeepInv, KeptGuardedStep

LEMMA UnchangedGuardedStep ==
  ASSUME GatewayInv, gw' = gw PROVE GuardedStep
BY Zenon DEF GatewayInv, TypeOK, GuardedStep

LEMMA ItemTypes ==
  /\ \A b \in BOOLEAN : GateItem(b) \in Publications
  /\ \A s \in GatewayState : CommandItem(s) \in Publications
<1>1. ASSUME NEW b \in BOOLEAN PROVE GateItem(b) \in Publications
  BY Bounds, Zenon DEF GateItem, Publications
<1>2. ASSUME NEW s \in GatewayState PROVE CommandItem(s) \in Publications
  BY ZenonT(60) DEF CommandItem, Publications, GatewayState
<1> QED
  BY <1>1, <1>2

LEMMA OwedTypes ==
  ASSUME NEW a \in Publications
  PROVE  <<a>> \in Owed /\ \A b \in Publications : <<a, b>> \in Owed
BY Zenon DEF Owed

LEMMA IdleType == Idle \in ThreadState
BY Bounds, Zenon DEF Idle, ThreadState, NoMessage, Messages, Modes

LEMMA ThreadUpdate ==
  ASSUME TypeOK, NEW t \in Threads, NEW r \in ThreadState,
         thread' = [thread EXCEPT ![t] = r]
  PROVE  thread' \in [Threads -> ThreadState]
BY Zenon DEF TypeOK

(* One lemma per action.                                                    *)

LEMMA EnvironmentStep ==
  ASSUME GatewayInv, Environment
  PROVE  TypeOK' /\ GuardedStep
<1> USE DEF GatewayInv
<1>1. ASSUME NEW x \in Workspaces, WorkspaceStatus(x) PROVE TypeOK' /\ GuardedStep
  <2>1. GuardedStep
    BY <1>1, UnchangedGuardedStep, Zenon DEF WorkspaceStatus
  <2>2. ws' \in {"down", "starting", "no_mode", "real", "sim"}
    BY <1>1, GatewayAssumption, Zenon DEF GatewayAssumption, WorkspaceStatus
  <2>3. lift' \in {"none", "locked", "enabled", "blocked"}
    BY <1>1 DEF WorkspaceStatus, TypeOK
  <2> QED
    BY <1>1, <2>1, <2>2, <2>3, Zenon DEF WorkspaceStatus, TypeOK, GuardedStep
<1>2. ASSUME NEW x \in LiftSamples, LiftStatus(x) PROVE TypeOK' /\ GuardedStep
  <2>1. PICK b \in BOOLEAN : gw' = IF gw.commanded THEN gw ELSE [gw EXCEPT !.locked = b]
    <3>1. LockReported(x) \subseteq BOOLEAN
      BY DEF LockReported
    <3> QED
      BY <1>2, <3>1, Zenon DEF LiftStatus
  <2>2. /\ [gw EXCEPT !.locked = b] \in GatewayState
        /\ SameLeaseFields(gw, [gw EXCEPT !.locked = b])
    BY ZenonT(60) DEF TypeOK, GatewayState, SameLeaseFields
  <2>3. SameLeaseFields(gw, gw)
    BY Zenon DEF SameLeaseFields
  <2>4. gw' \in {gw, [gw EXCEPT !.locked = b]}
    BY <2>1, Zenon
  <2>5. GuardedStep
    BY <2>2, <2>3, <2>4, SameFieldsGuardedStep, Zenon DEF TypeOK
  <2>6. lift' \in {"none", "locked", "enabled", "blocked"}
    BY <1>2, GatewayAssumption, Zenon DEF GatewayAssumption, LiftStatus
  <2> QED
    BY <1>2, <2>5, <2>6, Zenon DEF LiftStatus, TypeOK, GuardedStep
<1>3. ASSUME FeedbackStale PROVE TypeOK' /\ GuardedStep
  <2>1. GuardedStep
    BY <1>3, UnchangedGuardedStep, Zenon DEF FeedbackStale
  <2> QED
    BY <1>3, <2>1, Zenon DEF FeedbackStale, TypeOK, GuardedStep
<1>4. ASSUME Tick PROVE TypeOK' /\ GuardedStep
  <2> DEFINE ca == IF gw.cmdAge < 0 THEN gw.cmdAge ELSE Smaller(gw.cmdAge + 1, CmdAgeCap)
             pa == IF gw.pValid THEN Smaller(gw.pendAge + 1, AckTimeout + 1) ELSE gw.pendAge
             ua == IF gw.pValid THEN Smaller(gw.pubAge + 1, RetryInterval) ELSE gw.pubAge
  <2>1. /\ gw.cmdAge \in -1 .. CmdAgeCap /\ gw.pendAge \in 0 .. AckTimeout + 1
        /\ gw.pubAge \in 0 .. RetryInterval
    BY ZenonT(60) DEF TypeOK, GatewayState
  <2>2. CmdAgeCap \in Nat /\ AckTimeout \in Nat /\ RetryInterval \in Nat
    BY GatewayAssumption DEF GatewayAssumption, CmdAgeCap
  <2>3. ca \in -1 .. CmdAgeCap /\ pa \in 0 .. AckTimeout + 1 /\ ua \in 0 .. RetryInterval
    BY <2>1, <2>2 DEF Smaller
  <2>4. gw.cmdAge >= 0 => ca >= 0
    BY <2>1, <2>2 DEF Smaller
  <2>5. gw' = [gw EXCEPT !.cmdAge = ca, !.pendAge = pa, !.pubAge = ua]
    BY <1>4, Zenon DEF Tick
  <2> HIDE DEF ca, pa, ua
  <2>6. gw' \in GatewayState
    BY <2>3, <2>5, ZenonT(60) DEF TypeOK, GatewayState
  <2>7. /\ gw'.active = gw.active /\ gw'.aligned = gw.aligned /\ gw'.state = gw.state
        /\ gw'.pValid = gw.pValid /\ gw'.pUser = gw.pUser /\ gw'.pMode = gw.pMode
        /\ gw'.revoke = gw.revoke /\ gw'.sValid = gw.sValid /\ gw'.cmdAge = ca
    BY <2>5, ZenonT(60) DEF TypeOK, GatewayState
  <2>8. GuardedStep
    BY <2>4, <2>6, <2>7, Zenon
       DEF GuardedStep, LeaseInv, TransactionOwned, AlignedFirst
  <2>9. waiting' \in [Releasers -> [age : -1 .. AckTimeout, lease : Nat]]
    <3>1. ASSUME NEW r \in Releasers
          PROVE  waiting'[r] \in [age : -1 .. AckTimeout, lease : Nat]
      <4>1. waiting[r] \in [age : -1 .. AckTimeout, lease : Nat]
        BY Zenon DEF TypeOK
      <4>2. waiting'[r] = IF waiting[r].age < 0 THEN waiting[r]
                          ELSE [waiting[r] EXCEPT !.age = Smaller(waiting[r].age + 1, AckTimeout)]
        BY <1>4, Zenon DEF Tick
      <4>3. waiting[r].age < 0 \/ Smaller(waiting[r].age + 1, AckTimeout) \in -1 .. AckTimeout
        BY <2>2, <4>1 DEF Smaller
      <4> QED
        BY <4>1, <4>2, <4>3, Zenon
    <3>2. waiting' = [r \in Releasers |-> waiting'[r]]
      BY <1>4, Zenon DEF Tick
    <3> QED
      BY <3>1, <3>2, Zenon
  <2> QED
    BY <1>4, <2>8, <2>9, Zenon DEF Tick, env, TypeOK, GuardedStep
<1> QED
  BY <1>1, <1>2, <1>3, <1>4, Zenon DEF Environment

\* Raising brake_transition_in_progress_ is invisible to the lease.
LEMMA TransitionStep ==
  ASSUME GatewayInv, gw' = [gw EXCEPT !.transition = TRUE] PROVE GuardedStep
<1>1. gw' \in GatewayState /\ SameLeaseFields(gw, gw')
  BY ZenonT(60) DEF GatewayInv, TypeOK, GatewayState, SameLeaseFields
<1> QED
  BY <1>1, SameFieldsGuardedStep, Zenon DEF GatewayInv

LEMMA AcquireStep ==
  ASSUME GatewayInv, AcquireBegin \/ AcquireGrant \/ AcquireRefuse
  PROVE  TypeOK' /\ GuardedStep
<1> USE DEF GatewayInv
<1>0. "acquire" \in Threads
  BY DEF Threads
<1>1. CASE AcquireBegin
  <2> DEFINE n == [Idle EXCEPT !.pc = "native", !.release = TRUE]
             g == [Idle EXCEPT !.pc = "proceed"]
  <2>1. n \in ThreadState /\ g \in ThreadState
    BY IdleType, Zenon DEF ThreadState
  <2>2. GuardedStep
    BY <1>1, TransitionStep, UnchangedGuardedStep, Zenon DEF AcquireBegin
  <2>3. \E r \in ThreadState : thread' = [thread EXCEPT !["acquire"] = r]
    BY <1>1, <2>1, Zenon DEF AcquireBegin
  <2>4. thread' \in [Threads -> ThreadState]
    BY <1>0, <2>3, ThreadUpdate
  <2> QED
    BY <1>1, <2>2, <2>4, Zenon DEF AcquireBegin, env, TypeOK, GuardedStep
<1>2. CASE AcquireGrant
  <2>1. gw' \in GatewayState /\ LeaseInv(gw')
    BY <1>2, GrantLemma, Zenon DEF AcquireGrant, TypeOK
  <2>2. GuardedStep
    BY <1>2, <2>1, Zenon DEF AcquireGrant, Grantable, GuardedStep, SameLease
  <2>3. thread' \in [Threads -> ThreadState]
    BY <1>0, <1>2, IdleType, ThreadUpdate DEF AcquireGrant
  <2>4. <<GateItem(TRUE), CommandItem(gw')>> \in Owed
    BY <2>1, ItemTypes, OwedTypes
  <2>5. outbox' \subseteq Owed
    BY <1>2, <2>4, Zenon DEF AcquireGrant, TypeOK
  <2> QED
    BY <1>2, <2>2, <2>3, <2>5, Zenon DEF AcquireGrant, env, TypeOK, GuardedStep
<1>3. CASE AcquireRefuse
  <2>1. GuardedStep
    BY <1>3, UnchangedGuardedStep, Zenon DEF AcquireRefuse
  <2>2. thread' \in [Threads -> ThreadState]
    BY <1>0, <1>3, IdleType, ThreadUpdate DEF AcquireRefuse
  <2> QED
    BY <1>3, <2>1, <2>2, Zenon DEF AcquireRefuse, env, TypeOK, GuardedStep
<1> QED
  BY <1>1, <1>2, <1>3

LEMMA EndBrakeStep ==
  ASSUME GatewayInv, NEW t \in Threads, NEW confirmed \in BOOLEAN, EndBrakeAction(t, confirmed)
  PROVE  TypeOK' /\ GuardedStep
<1> USE DEF GatewayInv
<1>1. thread[t] \in ThreadState
  BY Zenon DEF TypeOK
<1>2. thread[t].release \in BOOLEAN
  BY <1>1, Zenon DEF ThreadState
<1>3. gw' \in GatewayState /\ SameLeaseFields(gw, gw')
  BY <1>2, CommitBrakeLemma, Zenon DEF EndBrakeAction, TypeOK
<1>4. GuardedStep
  BY <1>3, SameFieldsGuardedStep, Zenon
<1>5. AfterBrake(t, confirmed) \in ThreadState
  <2>1. /\ [Idle EXCEPT !.pc = "proceed"] \in ThreadState
        /\ [Idle EXCEPT !.pc = "abort"] \in ThreadState
        /\ [thread[t] EXCEPT !.pc = "proceed", !.release = FALSE] \in ThreadState
    BY <1>1, IdleType, Zenon DEF ThreadState
  <2> QED
    BY <2>1, IdleType DEF AfterBrake
<1>6. thread' \in [Threads -> ThreadState]
  BY <1>5, ThreadUpdate DEF EndBrakeAction
<1> QED
  BY <1>4, <1>6, Zenon DEF EndBrakeAction, env, TypeOK, GuardedStep

LEMMA BrakeStep ==
  ASSUME GatewayInv, NEW t \in Threads, Brake(t)
  PROVE  TypeOK' /\ GuardedStep
<1> USE DEF GatewayInv
<1>1. CASE BrakeFailed(t)
  BY <1>1, EndBrakeStep DEF BrakeFailed
<1>2. CASE BrakeLocked(t)
  BY <1>2, EndBrakeStep DEF BrakeLocked
<1>3. CASE BrakeReleased(t)
  BY <1>3, EndBrakeStep DEF BrakeReleased
<1>4. CASE ReleaseReplied(t) \/ ReleaseConfirmed(t)
  <2>1. GuardedStep
    BY <1>4, UnchangedGuardedStep, Zenon DEF ReleaseReplied, ReleaseConfirmed
  <2>2. thread[t] \in ThreadState
    BY Zenon DEF TypeOK
  <2>3. \A q \in {"confirm", "confirmed", "rollback"} :
          [thread[t] EXCEPT !.pc = q] \in ThreadState
    BY <2>2, Zenon DEF ThreadState
  <2>4. \E q \in {"confirm", "confirmed", "rollback"} :
          thread' = [thread EXCEPT ![t] = [thread[t] EXCEPT !.pc = q]]
    BY <1>4, Zenon DEF ReleaseReplied, ReleaseConfirmed
  <2>5. thread' \in [Threads -> ThreadState]
    BY <2>3, <2>4, ThreadUpdate
  <2> QED
    BY <1>4, <2>1, <2>5, Zenon DEF ReleaseReplied, ReleaseConfirmed, env, TypeOK, GuardedStep
<1> QED
  BY <1>1, <1>2, <1>3, <1>4 DEF Brake

LEMMA MessageType ==
  ASSUME GatewayInv, NEW l \in 1 .. gw.gen, NEW seq \in 1 .. MaxSeq,
         NEW mode \in CommandModes
  PROVE  [lease |-> l, seq |-> seq, mode |-> mode] \in Messages
<1>1. gw.gen \in Nat
  BY ZenonT(60) DEF GatewayInv, TypeOK, GatewayState
<1>2. MaxSeq \in Nat /\ mode \in Modes
  BY GatewayAssumption DEF GatewayAssumption, Modes
<1>3. l \in Nat /\ seq \in Nat
  BY <1>1, <1>2
<1> QED
  BY <1>2, <1>3, Zenon DEF Messages

LEMMA CommandArrivesStep ==
  ASSUME GatewayInv, NEW t \in CommandThreads, NEW m \in Messages, CommandArrives(t, m)
  PROVE  TypeOK' /\ GuardedStep
<1> USE DEF GatewayInv
<1>1. t \in Threads
  BY DEF Threads
<1>2. GuardedStep
  BY TransitionStep, UnchangedGuardedStep, Zenon DEF CommandArrives
<1>3. /\ [pc |-> "native", release |-> TRUE, msg |-> m] \in ThreadState
      /\ [pc |-> "proceed", release |-> FALSE, msg |-> m] \in ThreadState
  BY Zenon DEF ThreadState
<1>4. \E r \in ThreadState : thread' = [thread EXCEPT ![t] = r]
  BY <1>3, Zenon DEF CommandArrives
<1>5. thread' \in [Threads -> ThreadState]
  BY <1>1, <1>4, ThreadUpdate
<1> QED
  BY <1>2, <1>5, Zenon DEF CommandArrives, env, TypeOK, GuardedStep

LEMMA CommandContinuesStep ==
  ASSUME GatewayInv, NEW t \in CommandThreads, CommandContinues(t)
  PROVE  TypeOK' /\ GuardedStep
<1> USE DEF GatewayInv
<1> DEFINE m == thread[t].msg
<1>1. t \in Threads /\ m.seq \in Nat /\ m.mode \in Modes
  <2>1. t \in Threads
    BY DEF Threads
  <2>2. thread[t] \in ThreadState
    BY <2>1, Zenon DEF TypeOK
  <2> QED
    BY <2>1, <2>2, Zenon DEF ThreadState, Messages
<1>2. thread' \in [Threads -> ThreadState]
  <2>1. thread' = [thread EXCEPT ![t] = Idle]
    BY Zenon DEF CommandContinues, CommandRejected, CommandStaged, CommandDispatched
  <2> QED
    BY <1>1, <2>1, IdleType, ThreadUpdate
<1>3. CASE CommandRejected(t)
  <2>1. GuardedStep
    BY <1>3, UnchangedGuardedStep, Zenon DEF CommandRejected
  <2> QED
    BY <1>2, <1>3, <2>1, Zenon DEF CommandRejected, env, TypeOK, GuardedStep
<1>4. CASE CommandStaged(t)
  <2>1. gw' = Stage(gw, m) /\ gw.pValid
    BY <1>4, Zenon DEF CommandStaged
  <2> HIDE DEF m
  <2>2. gw' \in GatewayState
    BY <1>1, <2>1, ZenonT(60) DEF Stage, TypeOK, GatewayState
  <2>3. /\ gw'.active = gw.active /\ gw'.aligned = gw.aligned /\ gw'.state = gw.state
        /\ gw'.pValid = gw.pValid /\ gw'.pUser = gw.pUser /\ gw'.pMode = gw.pMode
        /\ gw'.revoke = gw.revoke /\ gw'.cmdAge = gw.cmdAge
    BY <2>1, ZenonT(60) DEF Stage, TypeOK, GatewayState
  <2>4. GuardedStep
    BY <2>1, <2>2, <2>3, Zenon DEF GuardedStep, LeaseInv, TransactionOwned, AlignedFirst
  <2> QED
    BY <1>2, <1>4, <2>4, Zenon DEF CommandStaged, env, TypeOK, GuardedStep
<1>5. CASE CommandDispatched(t)
  <2>1. /\ gw' = DispatchUserCommand(gw, m.seq, m.mode) /\ ~gw.pValid /\ gw.active
        /\ outbox' = outbox \cup {<<CommandItem(gw')>>}
    BY <1>5, Zenon DEF CommandDispatched, Admissible, ValidCommand
  <2>2. gw.aligned /\ ~gw.revoke
    BY <2>1, Zenon DEF LeaseInv, TransactionOwned, AlignedFirst
  <2>3. gw' \in GatewayState /\ LeaseInv(gw')
    BY <1>1, <2>1, <2>2, DispatchLemma DEF TypeOK
  <2>4. GuardedStep
    BY <2>2, <2>3, Zenon DEF GuardedStep
  <2>5. <<CommandItem(gw')>> \in Owed
    BY <2>3, ItemTypes, OwedTypes
  <2>6. outbox' \subseteq Owed
    BY <2>1, <2>5, Zenon DEF TypeOK
  <2> QED
    BY <1>2, <1>5, <2>4, <2>6, Zenon DEF CommandDispatched, env, TypeOK, GuardedStep
<1> QED
  BY <1>3, <1>4, <1>5 DEF CommandContinues

LEMMA HandleAckStep ==
  ASSUME GatewayInv, NEW c \in Controllers, NEW g \in 1 .. GenSpace, HandleAck(c, g)
  PROVE  TypeOK' /\ GuardedStep
<1> USE DEF GatewayInv
<1> DEFINE a == AckRecorded(gw, c, g)
<1>1. a \in GatewayState /\ SameLeaseFields(gw, a)
  <2>1. g \in 0 .. GenSpace
    BY GatewayAssumption DEF GatewayAssumption
  <2>2. /\ [gw EXCEPT !.armAck = g] \in GatewayState
        /\ [gw EXCEPT !.liftAck = g] \in GatewayState
    BY <2>1, ZenonT(60) DEF TypeOK, GatewayState
  <2>3. /\ SameLeaseFields(gw, [gw EXCEPT !.armAck = g])
        /\ SameLeaseFields(gw, [gw EXCEPT !.liftAck = g])
    BY ZenonT(60) DEF TypeOK, GatewayState, SameLeaseFields
  <2> QED
    BY <2>2, <2>3, Zenon DEF AckRecorded
<1>2. LeaseInv(a) /\ Kept(gw, a)
  BY <1>1, SameFieldsKeepInv
<1>3. CASE UNCHANGED <<gw, outbox>>
  <2>1. GuardedStep
    BY <1>3, UnchangedGuardedStep
  <2> QED
    BY <1>3, <2>1, Zenon DEF HandleAck, env, TypeOK, GuardedStep
<1>4. CASE gw' = a /\ UNCHANGED outbox
  <2>1. GuardedStep
    BY <1>1, <1>4, SameFieldsGuardedStep, Zenon
  <2> QED
    BY <1>4, <2>1, Zenon DEF HandleAck, env, TypeOK, GuardedStep
<1>5. CASE /\ gw.pValid /\ gw' = TransactionDone(a)
           /\ outbox' = outbox \cup (IF a.revoke THEN {<<GateItem(FALSE)>>}
                                     ELSE IF a.sValid THEN {<<CommandItem(gw')>>} ELSE {})
  <2> HIDE DEF a
  <2>1. a.pValid
    BY <1>1, <1>5, Zenon DEF SameLeaseFields
  <2>2. gw' \in GatewayState /\ LeaseInv(gw') /\ Kept(a, gw')
    BY <1>1, <1>2, <1>5, <2>1, TransactionDoneLemma
  <2>3. GuardedStep
    BY <1>2, <2>2, KeptTrans, KeptGuardedStep
  <2>4. <<GateItem(FALSE)>> \in Owed /\ <<CommandItem(gw')>> \in Owed
    BY <2>2, ItemTypes, OwedTypes
  <2>5. outbox' \subseteq Owed
    BY <1>5, <2>4, Zenon DEF TypeOK
  <2> QED
    BY <2>3, <2>5, Zenon DEF HandleAck, env, TypeOK, GuardedStep
<1> QED
  BY <1>3, <1>4, <1>5, Zenon DEF HandleAck

LEMMA ReleaseStep ==
  ASSUME GatewayInv, NEW r \in Releasers, ReleaseBegin(r) \/ ReleaseDone(r) \/ ReleaseTimedOut(r)
  PROVE  TypeOK' /\ GuardedStep
<1> USE DEF GatewayInv
<1> DEFINE Calls == [age : -1 .. AckTimeout, lease : Nat]
<1>1. NotWaiting \in Calls /\ [age |-> 0, lease |-> gw.gen] \in Calls
  <2>1. gw.gen \in Nat
    BY ZenonT(60) DEF TypeOK, GatewayState
  <2>2. -1 \in -1 .. AckTimeout /\ 0 \in -1 .. AckTimeout /\ 0 \in Nat
    BY GatewayAssumption DEF GatewayAssumption
  <2> QED
    BY <2>1, <2>2, Zenon DEF NotWaiting
<1>2. waiting' \in [Releasers -> Calls]
  <2>1. waiting \in [Releasers -> Calls]
    BY Zenon DEF TypeOK
  <2>2. \/ waiting' = waiting
        \/ waiting' = [waiting EXCEPT ![r] = NotWaiting]
        \/ waiting' = [waiting EXCEPT ![r] = [age |-> 0, lease |-> gw.gen]]
    BY Zenon DEF ReleaseBegin, ReleaseDone, ReleaseTimedOut
  <2> HIDE DEF Calls
  <2> QED
    BY <1>1, <2>1, <2>2, Zenon
<1>3. outbox' \subseteq Owed
  <2>1. <<GateItem(FALSE)>> \in Owed
    BY ItemTypes, OwedTypes
  <2> QED
    BY <2>1, Zenon DEF TypeOK, ReleaseBegin, ReleaseDone, ReleaseTimedOut
<1>4. GuardedStep
  <2>1. CASE gw' = gw
    BY <2>1, UnchangedGuardedStep
  <2>2. CASE gw.active /\ gw' = ClearLease(gw)
    BY <2>2, ClearLeaseLemma, Zenon DEF GuardedStep, SameLease, TypeOK
  <2>3. CASE gw.active /\ gw' = BeginSafetyHold(gw, TRUE, FALSE)
    BY <2>3, RevokingHoldLemma, KeptGuardedStep, Zenon DEF TypeOK
  <2> QED
    BY <2>1, <2>2, <2>3, Zenon DEF ReleaseBegin, ReleaseDone, ReleaseTimedOut
<1> QED
  BY <1>2, <1>3, <1>4, Zenon
     DEF ReleaseBegin, ReleaseDone, ReleaseTimedOut, env, TypeOK, GuardedStep

LEMMA LiftBrakeStep ==
  ASSUME GatewayInv, NEW release \in BOOLEAN, LiftBrake(release)
  PROVE  TypeOK' /\ GuardedStep
<1> USE DEF GatewayInv
<1>1. GuardedStep
  BY TransitionStep, Zenon DEF LiftBrake
<1>2. "service" \in Threads
  BY DEF Threads
<1>3. [Idle EXCEPT !.pc = "native", !.release = release] \in ThreadState
  BY IdleType, Zenon DEF ThreadState
<1>4. thread' \in [Threads -> ThreadState]
  BY <1>2, <1>3, ThreadUpdate DEF LiftBrake
<1> QED
  BY <1>1, <1>4, Zenon DEF LiftBrake, env, TypeOK, GuardedStep

LEMMA WatchdogStep ==
  ASSUME GatewayInv, NEW stationary \in BOOLEAN, NEW grace \in BOOLEAN,
         WatchdogTick(stationary, grace)
  PROVE  TypeOK' /\ GuardedStep
<1> USE DEF GatewayInv
<1> DEFINE s0 == CommandTimeout(gw)
           s1 == LeaseExpiry(s0)
           f1 == RevocationFallback(s1)
           s2 == AckTimeoutFault(f1)
           r2 == ResourceLoss(s2)
           s3 == UpdateStateWithoutLease(r2, grace)
           s4 == TakePendingBrakeAction(s3, stationary)
           gi == GateItem(FALSE)
           ci == CommandItem(s2)
           n == [Idle EXCEPT !.pc = "native"]
<1>1. /\ gw' = s4
      /\ outbox' \subseteq outbox \cup {<<gi>>, <<ci>>, <<gi, ci>>}
      /\ thread' = thread \/ thread' = [thread EXCEPT !["watchdog"] = n]
      /\ UNCHANGED <<env, waiting, gate>>
  <2>1. WatchdogEnds(s2, s3, s4)
    BY Zenon DEF WatchdogTick
  <2> QED
    BY <2>1, Zenon DEF WatchdogEnds
<1>2. s0 \in GatewayState /\ LeaseInv(s0) /\ Kept(gw, s0)
  BY CommandTimeoutLemma, Zenon DEF TypeOK
<1> HIDE DEF s0
<1>3. s1 \in GatewayState /\ LeaseInv(s1) /\ Kept(s0, s1)
  BY <1>2, LeaseExpiryLemma, Zenon
<1> HIDE DEF s1
<1>4. f1 \in GatewayState /\ LeaseInv(f1) /\ Kept(s1, f1)
  BY <1>3, RevocationFallbackLemma, Zenon
<1> HIDE DEF f1
<1>5. s2 \in GatewayState /\ LeaseInv(s2) /\ Kept(f1, s2)
  BY <1>4, AckTimeoutFaultLemma, Zenon
<1> HIDE DEF s2
<1>6. r2 \in GatewayState /\ LeaseInv(r2) /\ Kept(s2, r2)
  BY <1>5, ResourceLossLemma, Zenon
<1> HIDE DEF r2
<1>7. s3 \in GatewayState /\ LeaseInv(s3) /\ Kept(r2, s3)
  BY <1>6, UpdateStateLemma, Zenon
<1> HIDE DEF s3
<1>8. s4 \in GatewayState /\ SameLeaseFields(s3, s4)
  BY <1>7, TakeBrakeLemma, Zenon
<1> HIDE DEF s4
<1>9. LeaseInv(s4) /\ Kept(s3, s4)
  BY <1>7, <1>8, SameFieldsKeepInv
<1>10. Kept(gw, s4)
  <2>1. Kept(gw, f1)
    BY <1>2, <1>3, <1>4, Zenon DEF Kept
  <2>2. Kept(f1, s3)
    BY <1>5, <1>6, <1>7, Zenon DEF Kept
  <2> QED
    BY <1>9, <2>1, <2>2, Zenon DEF Kept
<1>11. GuardedStep
  BY <1>1, <1>8, <1>9, <1>10, KeptGuardedStep, Zenon
<1>12. outbox' \subseteq Owed
  <2>1. gi \in Publications /\ ci \in Publications
    BY <1>5, ItemTypes
  <2> HIDE DEF gi, ci
  <2>2. {<<gi>>, <<ci>>, <<gi, ci>>} \subseteq Owed
    BY <2>1, OwedTypes, Zenon
  <2> QED
    BY <1>1, <2>2, Zenon DEF TypeOK
<1>13. thread' \in [Threads -> ThreadState]
  <2>1. "watchdog" \in Threads
    BY DEF Threads
  <2>2. n \in ThreadState
    BY IdleType, Zenon DEF ThreadState
  <2>3. CASE thread' = thread
    BY <2>3, Zenon DEF TypeOK
  <2>4. CASE thread' = [thread EXCEPT !["watchdog"] = n]
    <3> HIDE DEF n
    <3> QED
      BY <2>1, <2>2, <2>4, ThreadUpdate
  <2> QED
    BY <1>1, <2>3, <2>4
<1> QED
  BY <1>1, <1>11, <1>12, <1>13, Zenon DEF env, TypeOK, GuardedStep

LEMMA PublishStep ==
  ASSUME GatewayInv, NEW p \in outbox, NEW gotLock \in BOOLEAN, Publish(p, gotLock)
  PROVE  TypeOK' /\ GuardedStep
<1> USE DEF GatewayInv
<1>1. p \in Owed
  BY Zenon DEF TypeOK
<1>2. Head(p) \in Publications /\ Rest(p) \subseteq Owed
  <2>1. CASE p \in {<<a>> : a \in Publications}
    <3>1. PICK a \in Publications : p = <<a>>
      BY <2>1
    <3> QED
      BY <3>1 DEF Rest
  <2>2. CASE p \in Publications \X Publications
    <3>1. PICK a \in Publications, b \in Publications : p = <<a, b>>
      BY <2>2
    <3>2. Head(p) = a /\ Tail(p) = <<b>> /\ Len(p) # 1
      BY <3>1
    <3> QED
      BY <3>2, OwedTypes, Zenon DEF Rest
  <2> QED
    BY <1>1, <2>1, <2>2, Zenon DEF Owed
<1>3. outbox' \subseteq Owed
  BY <1>2, Zenon DEF Publish, TypeOK
<1>4. gate' \in BOOLEAN
  <2>1. Head(p).active \in BOOLEAN
    BY <1>2, Zenon DEF Publications
  <2> QED
    BY <2>1, Zenon DEF Publish, TypeOK
<1>5. GuardedStep
  <2> DEFINE z == [gw EXCEPT !.pubAge = 0]
  <2>1. z \in GatewayState /\ SameLeaseFields(gw, z)
    BY Bounds, ZenonT(60) DEF TypeOK, GatewayState, SameLeaseFields
  <2>2. gw' \in {gw, z}
    BY Zenon DEF Publish
  <2> HIDE DEF z
  <2> QED
    BY <2>1, <2>2, UnchangedGuardedStep, SameFieldsGuardedStep, Zenon
<1> QED
  BY <1>3, <1>4, <1>5, Zenon DEF Publish, env, TypeOK, GuardedStep

-----------------------------------------------------------------------------
(* The theorems.                                                            *)

LEMMA InitInv == Init => GatewayInv
<1> SUFFICES ASSUME Init PROVE TypeOK /\ LeaseInv(gw)
  BY DEF GatewayInv
<1>1. gw \in GatewayState
  BY Bounds, ZenonT(60) DEF Init, GatewayState, Modes, States
<1>2. thread \in [Threads -> ThreadState]
  BY IdleType, Zenon DEF Init
<1>3. waiting \in [Releasers -> [age : -1 .. AckTimeout, lease : Nat]]
  <2>1. NotWaiting \in [age : -1 .. AckTimeout, lease : Nat]
    BY GatewayAssumption DEF GatewayAssumption, NotWaiting
  <2> QED
    BY <2>1, Zenon DEF Init
<1>4. TypeOK
  BY <1>1, <1>2, <1>3, Zenon DEF Init, TypeOK
<1>5. LeaseInv(gw)
  BY Zenon DEF Init, LeaseInv, TransactionOwned, AlignedFirst
<1> QED
  BY <1>4, <1>5

LEMMA NextInv == GatewayInv /\ [Next]_vars => TypeOK' /\ GuardedStep
<1> SUFFICES ASSUME GatewayInv, [Next]_vars PROVE TypeOK' /\ GuardedStep
  OBVIOUS
<1>1. CASE Environment
  BY <1>1, EnvironmentStep
<1>2. CASE Handlers
  <2>1. CASE AcquireBegin \/ AcquireGrant \/ AcquireRefuse
    BY <2>1, AcquireStep
  <2>2. CASE \E t \in Threads : Brake(t)
    BY <2>2, BrakeStep
  <2>3. CASE \E t \in CommandThreads, l \in 1 .. gw.gen, mode \in CommandModes :
               \E seq \in 1 .. MaxSeq :
                 CommandArrives(t, [lease |-> l, seq |-> seq, mode |-> mode])
    <3>1. PICK t \in CommandThreads, l \in 1 .. gw.gen, mode \in CommandModes :
                 \E seq \in 1 .. MaxSeq :
                   CommandArrives(t, [lease |-> l, seq |-> seq, mode |-> mode])
      BY <2>3, Zenon
    <3>2. PICK seq \in 1 .. MaxSeq :
                 CommandArrives(t, [lease |-> l, seq |-> seq, mode |-> mode])
      BY <3>1, Zenon
    <3>3. [lease |-> l, seq |-> seq, mode |-> mode] \in Messages
      BY MessageType
    <3> QED
      BY <3>2, <3>3, CommandArrivesStep, Zenon
  <2>4. CASE \E t \in CommandThreads : CommandContinues(t)
    BY <2>4, CommandContinuesStep
  <2>5. CASE \E r \in Releasers : ReleaseBegin(r) \/ ReleaseDone(r) \/ ReleaseTimedOut(r)
    BY <2>5, ReleaseStep
  <2>6. CASE \E b \in BOOLEAN : LiftBrake(b)
    BY <2>6, LiftBrakeStep
  <2>7. CASE \E stationary, grace \in BOOLEAN : WatchdogTick(stationary, grace)
    BY <2>7, WatchdogStep
  <2>8. CASE \E p \in outbox, b \in BOOLEAN : Publish(p, b)
    BY <2>8, PublishStep
  <2> QED
    BY <1>2, <2>1, <2>2, <2>3, <2>4, <2>5, <2>6, <2>7, <2>8, Zenon DEF Handlers
<1>3. CASE \E c \in Controllers, g \in 1 .. GenSpace :
             ThreadFree /\ Acknowledgeable(g) /\ HandleAck(c, g)
  BY <1>3, HandleAckStep
<1>4. CASE UNCHANGED vars
  BY <1>4, Zenon DEF vars, GatewayInv, TypeOK, GuardedStep
<1> QED
  BY <1>1, <1>2, <1>3, <1>4, Zenon DEF Next

\* Init => GatewayInv, and every step keeps it.
THEOREM GatewayInvariant == Spec => []GatewayInv
<1>1. GatewayInv /\ [Next]_vars => GatewayInv'
  BY NextInv, Zenon DEF GuardedStep, GatewayInv
<1> QED
  BY InitInv, <1>1, PTL DEF Spec

\* Every member the mutex guards, every handler's position and every owed
\* publication keeps its type, whatever the threads interleave.
THEOREM GatewayTypes == Spec => []TypeOK
<1>1. GatewayInv => TypeOK
  BY DEF GatewayInv
<1> QED
  BY GatewayInvariant, <1>1, PTL

\* clearHeavyLeaseLocked, handleAck and the watchdog leave no transaction,
\* staged command or revocation without its lease.
THEOREM TransactionsOwned == Spec => []TransactionBelongsToLease
<1>1. GatewayInv => TransactionBelongsToLease
  BY Zenon DEF GatewayInv, LeaseInv, TransactionBelongsToLease
<1> QED
  BY GatewayInvariant, <1>1, PTL

\* No FOLLOW is in flight or in force before the aligning HOLD of
\* handleAcquire was acknowledged.
THEOREM AlignmentFirst == Spec => []AlignmentBeforeFollow
<1>1. GatewayInv => AlignmentBeforeFollow
  BY Zenon DEF GatewayInv, LeaseInv, AlignmentBeforeFollow
<1> QED
  BY GatewayInvariant, <1>1, PTL

\* Every path of the watchdog that reports FAULT also ends the lease.
THEOREM FaultEndsLease == Spec => []NoLeaseInFault
<1>1. GatewayInv => NoLeaseInFault
  BY Zenon DEF GatewayInv, LeaseInv, NoLeaseInFault
<1> QED
  BY GatewayInvariant, <1>1, PTL

\* A lease under revocation is never usable again: handleAck, handleCommand,
\* handleRelease and the watchdog end it or leave the revocation pending.
THEOREM RevocationFinal == Spec => RevocationIsFinal
<1>1. GatewayInv /\ [Next]_vars => [SameLease /\ gw.revoke => gw'.revoke]_vars
  BY NextInv, Zenon DEF GuardedStep
<1> QED
  BY GatewayInvariant, <1>1, PTL DEF Spec, RevocationIsFinal
=============================================================================
