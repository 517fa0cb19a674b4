-------------------------- MODULE LiftHardwareProofs -------------------------
(***************************************************************************)
(* Proofs about the lift hardware, for every set of services, faults and   *)
(* commands, every range and every timeout.  The members shared between    *)
(* the loop and the service thread are one record: each helper of read and *)
(* write gets one lemma that it keeps the types and what the loop may do   *)
(* to the stop, enable and zero-offset flags.                              *)
(***************************************************************************)
EXTENDS LiftHardware, TLAPS

\* The handler in progress and the history, whose types TypeOK leaves out.
Handlers ==
  [op : ServiceNames \cup {"none", "timer"},
   pc : {"idle", "s1", "s2", "s3", "h2", "h3", "h4", "h5", "h6", "h7", "h8", "h9", "h10a",
         "h10", "h11", "c1", "c2", "c3", "f2", "d2", "d3"},
   units : Positions, ok : BOOLEAN]

Histories ==
  [armed : BOOLEAN, obs : BOOLEAN, calls : 0 .. MaxCalls, faults : 0 .. MaxFaults,
   cycles : Nat]

Typed == TypeOK /\ svc \in Handlers /\ hist \in Histories

\* What read and write may do to the flags: raise a stop, drop an enable, latch
\* a motion fault; the emergency stop and the zero offset are not theirs.
Steady(h, t) ==
  /\ h.stopReq => t.stopReq
  /\ t.brkEn => h.brkEn
  /\ h.blocked => t.blocked
  /\ t.estop = h.estop
  /\ t.zoff = h.zoff /\ t.zApply = h.zApply /\ t.zAtomic = h.zAtomic

-----------------------------------------------------------------------------
(* Constants and the relation.                                              *)

LEMMA Zeros ==
  /\ 0 \in Nat /\ 0 \in Int /\ 0 \in Positions /\ 0 \in 0 .. TakeoverTimeout
  /\ 0 \in 0 .. MaxCalls /\ 0 \in 0 .. MaxFaults /\ MismatchDebounce \in Nat
BY HardwareAssumption DEF HardwareAssumption, Positions, PositionMin

LEMMA SteadyRefl == ASSUME NEW h PROVE Steady(h, h)
BY Zenon DEF Steady

LEMMA SteadyTrans ==
  ASSUME NEW h, NEW t, NEW u, Steady(h, t), Steady(t, u) PROVE Steady(h, u)
BY Zenon DEF Steady

(* The helpers of read and write.                                           *)

LEMMA LatchMotionFaultLemma ==
  ASSUME NEW h \in Shared
  PROVE  LET t == LatchMotionFault(h)
         IN  t \in Shared /\ Steady(h, t) /\ t.blocked /\ t.rx = h.rx /\ t.homing = h.homing
<1> DEFINE t == LatchMotionFault(h)
<1>1. t \in Shared
  BY ZenonT(200) DEF LatchMotionFault, Shared
<1>2. /\ t.stopReq /\ ~t.brkEn /\ t.blocked /\ t.estop = h.estop
      /\ t.zoff = h.zoff /\ t.zApply = h.zApply /\ t.zAtomic = h.zAtomic
      /\ t.rx = h.rx /\ t.homing = h.homing
  BY ZenonT(60) DEF LatchMotionFault, Shared
<1> HIDE DEF t
<1> QED
  BY <1>1, <1>2, Zenon DEF Steady, t

LEMMA HandleTransportFaultLemma ==
  ASSUME NEW h \in Shared
  PROVE  LET t == HandleTransportFault(h) IN t \in Shared /\ Steady(h, t) /\ t.stopReq
<1> DEFINE n == IF h.blocked THEN h.clean ELSE FALSE
           t == [h EXCEPT !.stopReq = TRUE, !.phase = "disabled", !.unlocked = FALSE,
                          !.fresh = FALSE, !.tf = TRUE, !.clean = n]
<1>1. n \in BOOLEAN
  BY Zenon DEF Shared
<1>2. HandleTransportFault(h) = t
  BY Zenon DEF HandleTransportFault
<1> HIDE DEF n
<1>3. t \in Shared
  BY <1>1, ZenonT(60) DEF Shared
<1>4. /\ t.stopReq /\ t.brkEn = h.brkEn /\ t.blocked = h.blocked /\ t.estop = h.estop
      /\ t.zoff = h.zoff /\ t.zApply = h.zApply /\ t.zAtomic = h.zAtomic
  BY ZenonT(60) DEF Shared
<1> HIDE DEF t
<1> QED
  BY <1>2, <1>3, <1>4, Zenon DEF Steady

\* The fields that Steady reads are the same in h and t.
SameFlags(h, t) ==
  /\ t.stopReq = h.stopReq /\ t.brkEn = h.brkEn /\ t.blocked = h.blocked
  /\ t.estop = h.estop
  /\ t.zoff = h.zoff /\ t.zApply = h.zApply /\ t.zAtomic = h.zAtomic

LEMMA SameFlagsSteady == ASSUME NEW h, NEW t, SameFlags(h, t) PROVE Steady(h, t)
BY Zenon DEF SameFlags, Steady

LEMMA UpdateTransportHealthLemma ==
  ASSUME NEW h \in Shared, NEW healthy \in Nat, NEW ok \in BOOLEAN
  PROVE  LET t == UpdateTransportHealth(h, healthy, ok) IN t \in Shared /\ SameFlags(h, t)
<1> DEFINE m == IF h.blocked THEN h.clean ELSE FALSE
           n == IF h.blocked \/ h.estop THEN h.clean ELSE ~h.viol
           a == [h EXCEPT !.tf = TRUE, !.clean = m]
           b == [h EXCEPT !.tf = FALSE, !.clean = n]
           t == UpdateTransportHealth(h, healthy, ok)
<1>1. m \in BOOLEAN /\ n \in BOOLEAN
  <2>1. h.clean \in BOOLEAN /\ h.viol \in BOOLEAN
    BY Zenon DEF Shared
  <2> QED
    BY <2>1
<1>2. t \in {a, b, h}
  BY Zenon DEF UpdateTransportHealth
<1> HIDE DEF m, n, t
<1>3. a \in Shared /\ b \in Shared
  BY <1>1, ZenonT(200) DEF Shared
<1>4. SameFlags(h, a) /\ SameFlags(h, b) /\ SameFlags(h, h)
  BY ZenonT(60) DEF Shared, SameFlags
<1> HIDE DEF a, b
<1> QED
  BY <1>2, <1>3, <1>4, Zenon DEF t

LEMMA ObserveHomingLemma ==
  ASSUME NEW h \in Shared
  PROVE  LET t == [ObserveHoming(h) EXCEPT !.contReset = FALSE]
         IN  t \in Shared /\ SameFlags(h, t)
<1> DEFINE m == h.hFailed \/ (h.homing /\ (h.rx.err \/ h.rx.homed = "error"))
           n == h.hDone \/ (h.homing /\ h.rx.homed = "done")
           a == [h EXCEPT !.hFailed = m, !.hDone = n]
           t == [a EXCEPT !.contReset = FALSE]
<1>1. m \in BOOLEAN /\ n \in BOOLEAN
  OBVIOUS
<1>2. ObserveHoming(h) = a
  BY Zenon DEF ObserveHoming
<1> HIDE DEF m, n
<1>3. a \in Shared /\ SameFlags(h, a)
  BY <1>1, ZenonT(200) DEF Shared, SameFlags
<1> HIDE DEF a
<1>4. t \in Shared /\ SameFlags(a, t)
  BY <1>3, ZenonT(60) DEF Shared, SameFlags
<1> HIDE DEF t
<1> QED
  BY <1>2, <1>3, <1>4, Zenon DEF SameFlags, t

LEMMA ObserveLimitsLemma ==
  ASSUME NEW h \in Shared
  PROVE  LET t == ObserveLimits(h) IN t \in Shared /\ Steady(h, t)
<1> DEFINE n == OutsideLimits(h)
           a == [h EXCEPT !.clean = FALSE]
           b == [h EXCEPT !.viol = TRUE, !.clean = FALSE, !.brkEn = FALSE, !.stopReq = TRUE,
                          !.unlocked = FALSE, !.rvReq = FALSE, !.rvStop = TRUE,
                          !.holdReq = FALSE]
           c == [h EXCEPT !.viol = n]
           t == ObserveLimits(h)
<1>1. n \in BOOLEAN
  BY DEF OutsideLimits
<1>2. t \in {a, b, c}
  BY Zenon DEF ObserveLimits
<1> HIDE DEF n, t
<1>3. a \in Shared /\ c \in Shared
  BY <1>1, ZenonT(60) DEF Shared
<1>4. b \in Shared
  BY ZenonT(200) DEF Shared
<1>5. SameFlags(h, a) /\ SameFlags(h, c)
  BY ZenonT(60) DEF Shared, SameFlags
<1>6. /\ ~b.brkEn /\ b.stopReq /\ b.blocked = h.blocked /\ b.estop = h.estop
      /\ b.zoff = h.zoff /\ b.zApply = h.zApply /\ b.zAtomic = h.zAtomic
  BY ZenonT(60) DEF Shared
<1> HIDE DEF a, b, c
<1>7. Steady(h, a) /\ Steady(h, b) /\ Steady(h, c)
  BY <1>5, <1>6, SameFlagsSteady, Zenon DEF Steady
<1> QED
  BY <1>2, <1>3, <1>4, <1>7, Zenon DEF t

LEMMA ObserveSpeedLemma ==
  ASSUME NEW h \in Shared
  PROVE  LET t == ObserveSpeed(h) IN t \in Shared /\ Steady(h, t)
BY LatchMotionFaultLemma, SteadyRefl, Zenon DEF ObserveSpeed

(* The drive.                                                               *)

\* A reaction to a frame keeps the mode of operation.
LEMMA ReactionsLemma ==
  ASSUME NEW s \in Samples, NEW r \in Reactions(s)
  PROVE  r \in Samples /\ r.mode = s.mode
<1> DEFINE st == Reaction(s.state, tx.cw)
           homing == tx.hm /\ s.mode = 6
           d == IF tx.vel = "down" THEN -1 ELSE 1
           p == Moved(s.pos, d)
           off == [s EXCEPT !.state = "off", !.err = FALSE]
<1>1. /\ s.state \in DriveStates /\ s.speed \in {"still", "moving", "fast"}
      /\ s.pos \in Positions /\ s.homed \in {"no", "done", "error"}
  BY Zenon DEF Samples
<1>2. st \in DriveStates /\ p \in Positions
  BY <1>1 DEF Reaction, DriveStates, Moved
<1>3. \/ r = s
      \/ r = off
      \/ \E h \in {"no", "done", "error"} \cup {s.homed} :
           r = [s EXCEPT !.state = st, !.speed = "moving", !.pos = p, !.homed = h]
      \/ \E v \in {"still", s.speed} : r = [s EXCEPT !.state = st, !.speed = v]
  <2> DEFINE H == IF homing THEN {"no", "done", "error"} ELSE {s.homed}
             A == {[s EXCEPT !.state = st, !.speed = "moving", !.pos = p, !.homed = h] : h \in H}
             B == {[s EXCEPT !.state = st, !.speed = v] : v \in {"still", s.speed}}
  <2>1. Reactions(s) \in {{s, off}, A, B}
    BY Zenon DEF Reactions
  <2>2. H \subseteq {"no", "done", "error"} \cup {s.homed}
    BY Zenon
  <2> HIDE DEF st, p, off, H
  <2>3. CASE r \in {s, off}
    BY <2>3, Zenon
  <2>4. CASE r \in A
    BY <2>2, <2>4, Zenon
  <2>5. CASE r \in B
    BY <2>5, Zenon
  <2> HIDE DEF A, B
  <2> QED
    BY <2>1, <2>3, <2>4, <2>5, Zenon
<1> HIDE DEF st, p
<1>4. off \in Samples /\ off.mode = s.mode
  BY Zenon DEF Samples, DriveStates
<1>5. ASSUME NEW h \in {"no", "done", "error"} \cup {s.homed}
      PROVE  LET x == [s EXCEPT !.state = st, !.speed = "moving", !.pos = p, !.homed = h]
             IN  x \in Samples /\ x.mode = s.mode
  <2>1. h \in {"no", "done", "error"}
    BY <1>1, Zenon
  <2> QED
    BY <1>2, <2>1, ZenonT(60) DEF Samples
<1>6. ASSUME NEW v \in {"still", s.speed}
      PROVE  LET x == [s EXCEPT !.state = st, !.speed = v]
             IN  x \in Samples /\ x.mode = s.mode
  <2>1. v \in {"still", "moving", "fast"}
    BY <1>1, Zenon
  <2> QED
    BY <1>2, <2>1, ZenonT(60) DEF Samples
<1> HIDE DEF off
<1> QED
  BY <1>3, <1>4, <1>5, <1>6, Zenon

LEMMA FaultEffectLemma ==
  ASSUME NEW s \in Samples, NEW f \in DriveFaults
  PROVE  FaultEffect(s, f) \in Samples /\ (f # "mode" => FaultEffect(s, f).mode = s.mode)
<1> DEFINE e == [s EXCEPT !.state = "fault", !.err = TRUE]
           b == [s EXCEPT !.state = "fault"]
           p == Moved(s.pos, -2)
           j == [s EXCEPT !.pos = p]
           q == [s EXCEPT !.speed = "fast"]
           m == [s EXCEPT !.mode = 6]
<1>1. f \in {"error", "fault_bit", "jump", "fast", "mode"}
  BY HardwareAssumption DEF HardwareAssumption, DriveFaults, LinkFaults, FaultNames
<1>2. p \in Positions
  <2>1. s.pos \in Positions
    BY Zenon DEF Samples
  <2> QED
    BY <2>1 DEF Moved
<1>3. /\ FaultEffect(s, f) \in {e, b, j, q, s, m}
      /\ FaultEffect(s, f) = m => f = "mode" \/ m \in {e, b, j, q, s}
  <2>1. FaultEffect(s, f) =
          CASE f = "error" -> e [] f = "fault_bit" -> b [] f = "jump" -> j
            [] f = "fast" -> IF s.speed = "moving" THEN q ELSE s
            [] f = "mode" -> m
    BY Zenon DEF FaultEffect
  <2> HIDE DEF e, b, p, j, q, m
  <2> QED
    BY <1>1, <2>1
<1> HIDE DEF p
<1>4. e \in Samples /\ b \in Samples /\ j \in Samples /\ q \in Samples /\ m \in Samples
  BY <1>2, ZenonT(60) DEF Samples, DriveStates
<1>5. e.mode = s.mode /\ b.mode = s.mode /\ j.mode = s.mode /\ q.mode = s.mode
  BY ZenonT(60) DEF Samples
<1> HIDE DEF e, b, j, q, m
<1> QED
  BY <1>3, <1>4, <1>5, Zenon

-----------------------------------------------------------------------------
(* The steps of the loop.                                                   *)

LEMMA TypedNext ==
  ASSUME life' \in Lives, drv' \in Drive, disk' \in SUBSET Positions, hw' \in Shared,
         rt' \in Loop, tx' \in Frames, svc' \in Handlers, hist' \in Histories
  PROVE  Typed'
<1>1. hist'.calls \in 0 .. MaxCalls /\ hist'.faults \in 0 .. MaxFaults
  BY Zenon DEF Histories
<1> QED
  BY <1>1, Zenon DEF Typed, TypeOK

LEMMA TypedNow ==
  ASSUME Typed
  PROVE  /\ life \in Lives /\ drv \in Drive /\ disk \in SUBSET Positions /\ hw \in Shared
         /\ rt \in Loop /\ tx \in Frames /\ svc \in Handlers /\ hist \in Histories
BY Zenon DEF Typed, TypeOK

\* A received sample, whatever the bus and the drive did.
LEMMA ReadSampleLemma ==
  ASSUME Typed, NEW s \in Samples, ReadSample(s)
  PROVE  /\ hw' \in Shared /\ Steady(hw, hw')
         /\ rt' \in Loop /\ rt'.pc = "begin" /\ rt'.prevPower = rt.prevPower
<1> DEFINE ok == drv.link = "ok"
           h0 == [hw EXCEPT !.rx = s, !.fresh = ok]
           h1 == UpdateTransportHealth(h0, rt.healthy, ok)
           trusted == ok /\ ~h1.tf
           jump == Jumped(rt.base /\ ~hw.contReset, hw.rx, s)
           h2 == [ObserveHoming(h1) EXCEPT !.contReset = FALSE]
           h3 == IF trusted /\ jump THEN LatchMotionFault(h2) ELSE h2
           hl == ObserveLimits(h3)
           h4 == ObserveSpeed(hl)
           pw == Powered(h4, drv.link)
           n == IF ok /\ h1.tf THEN rt.healthy + 1 ELSE 0
           rl == [rt EXCEPT !.pc = "begin", !.healthy = 0, !.base = FALSE]
           ro == [rt EXCEPT !.pc = "begin", !.base = trusted, !.healthy = n]
<1>1. hw \in Shared /\ rt \in Loop
  BY TypedNow
<1>2. \/ hw' = HandleTransportFault(hw) /\ rt' = rl
      \/ hw' = [h4 EXCEPT !.power = pw] /\ rt' = ro
  BY Zenon DEF ReadSample
<1>3. rt.healthy \in Nat
  BY <1>1, Zenon DEF Loop
<1>4. n \in Nat /\ trusted \in BOOLEAN /\ ok \in BOOLEAN /\ pw \in BOOLEAN
  BY <1>3 DEF Powered
<1> HIDE DEF n, trusted, ok, pw, jump
<1>5. h0 \in Shared /\ SameFlags(hw, h0)
  BY <1>1, <1>4, ZenonT(60) DEF Shared, SameFlags
<1> HIDE DEF h0
<1>6. h1 \in Shared /\ SameFlags(h0, h1)
  BY <1>3, <1>4, <1>5, UpdateTransportHealthLemma, Zenon
<1> HIDE DEF h1
<1>7. h2 \in Shared /\ SameFlags(h1, h2)
  BY <1>6, ObserveHomingLemma, Zenon
<1> HIDE DEF h2
<1>8. h3 \in Shared /\ Steady(h2, h3)
  BY <1>7, LatchMotionFaultLemma, SteadyRefl, Zenon
<1> HIDE DEF h3
<1>9. hl \in Shared /\ Steady(h3, hl)
  BY <1>8, ObserveLimitsLemma, Zenon
<1> HIDE DEF hl
<1>10. h4 \in Shared /\ Steady(hl, h4)
  BY <1>9, ObserveSpeedLemma, Zenon
<1> HIDE DEF h4
<1>11. [h4 EXCEPT !.power = pw] \in Shared /\ SameFlags(h4, [h4 EXCEPT !.power = pw])
  BY <1>4, <1>10, ZenonT(60) DEF Shared, SameFlags
<1>12. Steady(hw, [h4 EXCEPT !.power = pw])
  <2>1. Steady(hw, h2)
    BY <1>5, <1>6, <1>7, SameFlagsSteady, SteadyTrans
  <2>2. Steady(hw, hl)
    BY <1>8, <1>9, <2>1, SteadyTrans
  <2>3. Steady(hw, h4)
    BY <1>10, <2>2, SteadyTrans
  <2> QED
    BY <1>11, <2>3, SameFlagsSteady, SteadyTrans
<1>13. rl \in Loop /\ ro \in Loop
  BY <1>1, <1>4, Zeros, ZenonT(60) DEF Loop
<1>14. /\ rl.pc = "begin" /\ rl.prevPower = rt.prevPower
       /\ ro.pc = "begin" /\ ro.prevPower = rt.prevPower
  BY <1>1, ZenonT(60) DEF Loop
<1>15. HandleTransportFault(hw) \in Shared /\ Steady(hw, HandleTransportFault(hw))
  BY <1>1, HandleTransportFaultLemma, Zenon
<1> HIDE DEF rl, ro
<1> QED
  BY <1>2, <1>11, <1>12, <1>13, <1>14, <1>15, Zenon

LEMMA ReadStep ==
  ASSUME Typed, Read
  PROVE  /\ Typed' /\ Steady(hw, hw')
         /\ life = "active" /\ life' = life /\ disk' = disk /\ svc' = svc
         /\ rt.pc = "read" /\ rt'.pc = "begin" /\ rt'.prevPower = rt.prevPower
         /\ hist'.armed = (hist.armed /\ (hw'.stopReq => hw.stopReq))
         /\ "mode" \notin Faults => drv'.sample.mode = drv.sample.mode
<1>1. PICK s \in Reactions(drv.sample), f \in {"none"} \cup DriveFaults :
        LET s1 == IF f = "none" THEN s ELSE FaultEffect(s, f)
        IN  /\ f # "none" => hist.faults < MaxFaults
            /\ drv' = [drv EXCEPT !.sample = s1]
            /\ ReadSample(s1)
            /\ hist' = [hist EXCEPT !.armed = @ /\ (hw'.stopReq => hw.stopReq),
                                    !.faults = IF f = "none" THEN @ ELSE @ + 1]
  BY Zenon DEF Read
<1> DEFINE s1 == IF f = "none" THEN s ELSE FaultEffect(s, f)
           a == hist.armed /\ (hw'.stopReq => hw.stopReq)
           n == IF f = "none" THEN hist.faults ELSE hist.faults + 1
<1>2. drv \in Drive /\ hist \in Histories /\ drv.sample \in Samples
  BY TypedNow, Zenon DEF Drive
<1>3. s1 \in Samples
  BY <1>2, ReactionsLemma, FaultEffectLemma, Zenon
<1>4. "mode" \notin Faults => s1.mode = drv.sample.mode
  <2>1. "mode" \notin Faults => f # "mode"
    BY DEF DriveFaults
  <2>2. s \in Samples /\ s.mode = drv.sample.mode
    BY <1>2, ReactionsLemma
  <2>3. CASE f = "none"
    BY <2>2, <2>3, Zenon
  <2>4. CASE f # "none"
    <3>1. f # "mode" => FaultEffect(s, f).mode = s.mode
      BY <2>2, <2>4, FaultEffectLemma, Zenon
    <3> QED
      BY <2>1, <2>2, <2>4, <3>1, Zenon
  <2> QED
    BY <2>3, <2>4
<1>5. ReadSample(s1) /\ drv' = [drv EXCEPT !.sample = s1]
  BY <1>1, Zenon
<1>6. hist' = [hist EXCEPT !.armed = a, !.faults = n]
  BY <1>1, Zenon
<1> HIDE DEF s1
<1>7. drv' \in Drive /\ drv'.sample = s1
  BY <1>2, <1>3, <1>5, Zenon DEF Drive
<1>8. n \in 0 .. MaxFaults /\ a \in BOOLEAN
  <2>1. hist.faults \in 0 .. MaxFaults
    BY <1>2, Zenon DEF Histories
  <2> QED
    BY <1>1, <2>1, HardwareAssumption DEF HardwareAssumption
<1> HIDE DEF n, a
<1>9. hist' \in Histories /\ hist'.armed = a
  BY <1>2, <1>6, <1>8, Zenon DEF Histories
<1>10. /\ hw' \in Shared /\ Steady(hw, hw')
       /\ rt' \in Loop /\ rt'.pc = "begin" /\ rt'.prevPower = rt.prevPower
  BY <1>3, <1>5, ReadSampleLemma
<1>11. life = "active" /\ rt.pc = "read" /\ UNCHANGED <<life, disk, tx, svc>>
  BY Zenon DEF Read
<1>12. Typed'
  BY <1>7, <1>9, <1>10, <1>11, TypedNow, TypedNext, Zenon
<1> QED
  BY <1>4, <1>7, <1>9, <1>10, <1>11, <1>12, Zenon DEF a

\* The first half of write up to the power edge.  An emergency stop asserts the
\* stop request; the zero offset recorded last becomes the frame of the loop.
WriteStarts(h, t) ==
  /\ h.stopReq => t.stopReq
  /\ t.brkEn => h.brkEn
  /\ t.blocked = h.blocked /\ t.estop = h.estop
  /\ t.estop => t.stopReq
  /\ ~t.zApply
  /\ t.zoff = IF h.zApply THEN h.zAtomic ELSE h.zoff

LEMMA WriteStartsLemma ==
  ASSUME NEW h \in Shared
  PROVE  LET t == AssertEstop(TakeoverWatchdog(ApplyPendingZeroOffset(h)))
         IN  t \in Shared /\ WriteStarts(h, t)
<1> DEFINE g == h.gen + 1
           a == ApplyPendingZeroOffset(h)
           m == a.rvAge + 1
           w1 == [a EXCEPT !.rvAge = m]
           w2 == [a EXCEPT !.rvReq = FALSE, !.rvStop = TRUE, !.holdReq = TRUE, !.rvAge = 0]
           b == TakeoverWatchdog(a)
           c == [b EXCEPT !.brkEn = FALSE, !.stopReq = TRUE, !.rvReq = FALSE]
           t == AssertEstop(b)
<1>1. /\ a \in Shared /\ a.stopReq = h.stopReq /\ a.brkEn = h.brkEn /\ a.blocked = h.blocked
      /\ a.estop = h.estop /\ ~a.zApply /\ a.zoff = IF h.zApply THEN h.zAtomic ELSE h.zoff
  <2> DEFINE x == [h EXCEPT !.zApply = FALSE, !.zoff = h.zAtomic, !.gen = g]
  <2>1. h.zAtomic \in Int /\ h.gen \in Nat
    BY Zenon DEF Shared
  <2>2. g \in Nat
    BY <2>1
  <2>3. a = IF h.zApply THEN x ELSE h
    BY Zenon DEF ApplyPendingZeroOffset
  <2> HIDE DEF g, a
  <2>4. x \in Shared
    BY <2>1, <2>2, ZenonT(60) DEF Shared
  <2>5. /\ x.stopReq = h.stopReq /\ x.brkEn = h.brkEn /\ x.blocked = h.blocked
        /\ x.estop = h.estop /\ ~x.zApply /\ x.zoff = h.zAtomic
    BY ZenonT(60) DEF Shared
  <2> HIDE DEF x
  <2> QED
    BY <2>3, <2>4, <2>5, Zenon
<1> HIDE DEF a
<1>2. b \in Shared /\ SameFlags(a, b)
  <2>1. a.rvAge \in 0 .. TakeoverTimeout
    BY <1>1, Zenon DEF Shared
  <2>2. a.rvAge < TakeoverTimeout => m \in 0 .. TakeoverTimeout
    BY <2>1, HardwareAssumption DEF HardwareAssumption
  <2>3. \/ b = a
        \/ a.rvAge < TakeoverTimeout /\ b = w1
        \/ b = w2
    BY Zenon DEF TakeoverWatchdog
  <2> HIDE DEF m, b
  <2>4. a.rvAge < TakeoverTimeout => w1 \in Shared
    BY <1>1, <2>2, ZenonT(60) DEF Shared
  <2>5. w2 \in Shared
    BY <1>1, Zeros, ZenonT(60) DEF Shared
  <2>6. SameFlags(a, a) /\ SameFlags(a, w1) /\ SameFlags(a, w2)
    BY <1>1, ZenonT(60) DEF Shared, SameFlags
  <2> HIDE DEF w1, w2
  <2> QED
    BY <1>1, <2>3, <2>4, <2>5, <2>6, Zenon
<1> HIDE DEF b
<1>3. c \in Shared
  BY <1>2, ZenonT(60) DEF Shared
<1>4. /\ c.stopReq /\ ~c.brkEn /\ c.blocked = b.blocked /\ c.estop = b.estop
      /\ c.zApply = b.zApply /\ c.zoff = b.zoff
  BY <1>2, ZenonT(60) DEF Shared
<1>5. t = IF b.estop THEN c ELSE b
  BY Zenon DEF AssertEstop
<1> HIDE DEF c, t
<1>6. t \in Shared
  BY <1>2, <1>3, <1>5, Zenon
<1>7. WriteStarts(h, t)
  BY <1>1, <1>2, <1>4, <1>5, Zenon DEF WriteStarts, SameFlags
<1> QED
  BY <1>6, <1>7, Zenon DEF t, b, a

LEMMA PowerEdgeLemma ==
  ASSUME Typed, NEW h \in Shared, NEW p \in BOOLEAN
  PROVE  LET t == PowerEdge(h, p)
         IN  /\ t \in Shared
             /\ t.brkEn = h.brkEn /\ t.blocked = h.blocked /\ t.estop = h.estop
             /\ t.zoff = h.zoff /\ t.zApply = h.zApply /\ t.zAtomic = h.zAtomic
             /\ RisingEdge(h, p) \/ (h.stopReq => t.stopReq)
             /\ ~p /\ rt.prevPower => t.stopReq
<1> DEFINE a == [h EXCEPT !.disLatch = FALSE, !.stopReq = FALSE]
           b == [h EXCEPT !.stopReq = TRUE]
           t == PowerEdge(h, p)
<1>1. \/ RisingEdge(h, p) /\ t = a
      \/ ~RisingEdge(h, p) /\ (~p /\ rt.prevPower) /\ t = b
      \/ ~RisingEdge(h, p) /\ ~(~p /\ rt.prevPower) /\ t = h
  BY Zenon DEF PowerEdge
<1>2. RisingEdge(h, p) => ~(~p /\ rt.prevPower)
  BY Zenon DEF RisingEdge
<1> HIDE DEF t
<1>3. a \in Shared /\ b \in Shared
  BY ZenonT(60) DEF Shared
<1>4. /\ a.brkEn = h.brkEn /\ a.blocked = h.blocked /\ a.estop = h.estop
      /\ a.zoff = h.zoff /\ a.zApply = h.zApply /\ a.zAtomic = h.zAtomic
  BY ZenonT(60) DEF Shared
<1>5. /\ b.brkEn = h.brkEn /\ b.blocked = h.blocked /\ b.estop = h.estop
      /\ b.zoff = h.zoff /\ b.zApply = h.zApply /\ b.zAtomic = h.zAtomic /\ b.stopReq
  BY ZenonT(60) DEF Shared
<1> HIDE DEF a, b
<1> QED
  BY <1>1, <1>2, <1>3, <1>4, <1>5, Zenon DEF t

\* An enable that is in force after the edge was armed before or by the edge.
LEMMA WriteBeginStep ==
  ASSUME Typed, WriteBegin
  PROVE  /\ Typed' /\ life = "active" /\ UNCHANGED <<life, drv, disk, svc>>
         /\ rt.pc = "begin" /\ rt'.pc = "decide"
         /\ hw'.estop = hw.estop /\ hw'.blocked = hw.blocked
         /\ hw.estop \/ hw.blocked => (hw.stopReq => hw'.stopReq)
         /\ ~hw'.zApply /\ hw'.zoff = IF hw.zApply THEN hw.zAtomic ELSE hw.zoff
         /\ (~hw.stopReq /\ (hw.brkEn \/ rt.prevPower) => hist.armed \/ hw.blocked)
              => (~hw'.stopReq /\ (hw'.brkEn \/ rt'.prevPower) => hist'.armed \/ hw'.blocked)
<1> DEFINE h1 == AssertEstop(TakeoverWatchdog(ApplyPendingZeroOffset(hw)))
<1>1. PICK p \in PowerCommands :
        /\ hw' = PowerEdge(h1, p)
        /\ rt' = [rt EXCEPT !.pc = "decide", !.prevPower = p, !.estop = hw.estop,
                            !.stopPending = hw.rvStop, !.base = @ \/ hw.zApply,
                            !.rebased = hw.zApply]
        /\ hist' = [hist EXCEPT !.armed = (@ \/ RisingEdge(h1, p)) /\ ~(~p /\ rt.prevPower)]
  BY Zenon DEF WriteBegin
<1>2. /\ life = "active" /\ rt.pc = "begin" /\ UNCHANGED <<life, drv, disk, tx, svc>>
  BY Zenon DEF WriteBegin
<1>3. hw \in Shared /\ rt \in Loop /\ hist \in Histories /\ p \in BOOLEAN
  BY TypedNow, HardwareAssumption, Zenon DEF HardwareAssumption
<1>4. h1 \in Shared /\ WriteStarts(hw, h1)
  BY <1>3, WriteStartsLemma
<1> HIDE DEF h1
<1> DEFINE b == rt.base \/ hw.zApply
           a == (hist.armed \/ RisingEdge(h1, p)) /\ ~(~p /\ rt.prevPower)
<1>5. rt' \in Loop /\ rt'.pc = "decide" /\ rt'.prevPower = p
  <2>1. hw.estop \in BOOLEAN /\ hw.rvStop \in BOOLEAN /\ hw.zApply \in BOOLEAN
    BY <1>3, Zenon DEF Shared
  <2>2. b \in BOOLEAN
    OBVIOUS
  <2>3. rt' = [rt EXCEPT !.pc = "decide", !.prevPower = p, !.estop = hw.estop,
                         !.stopPending = hw.rvStop, !.base = b, !.rebased = hw.zApply]
    BY <1>1, Zenon
  <2> HIDE DEF b
  <2> QED
    BY <1>3, <2>1, <2>2, <2>3, ZenonT(60) DEF Loop
<1>6. hist' \in Histories /\ hist'.armed = a
  <2>1. a \in BOOLEAN
    OBVIOUS
  <2>2. hist' = [hist EXCEPT !.armed = a]
    BY <1>1, Zenon
  <2> HIDE DEF a
  <2> QED
    BY <1>3, <2>1, <2>2, Zenon DEF Histories
<1>7. /\ hw' \in Shared
      /\ hw'.brkEn = h1.brkEn /\ hw'.blocked = h1.blocked /\ hw'.estop = h1.estop
      /\ hw'.zoff = h1.zoff /\ hw'.zApply = h1.zApply
      /\ RisingEdge(h1, p) \/ (h1.stopReq => hw'.stopReq)
      /\ ~p /\ rt.prevPower => hw'.stopReq
  BY <1>1, <1>3, <1>4, PowerEdgeLemma, Zenon
<1>8. Typed'
  BY <1>2, <1>5, <1>6, <1>7, TypedNow, TypedNext, Zenon
<1>9. RisingEdge(h1, p) <=> p /\ ~rt.prevPower /\ ~h1.estop /\ ~h1.blocked
  BY Zenon DEF RisingEdge
<1>10. /\ hw'.estop = hw.estop /\ hw'.blocked = hw.blocked
       /\ hw.estop \/ hw.blocked => (hw.stopReq => hw'.stopReq)
       /\ ~hw'.zApply /\ hw'.zoff = IF hw.zApply THEN hw.zAtomic ELSE hw.zoff
  BY <1>4, <1>7, <1>9, Zenon DEF WriteStarts
<1>11. ASSUME ~hw.stopReq /\ (hw.brkEn \/ rt.prevPower) => hist.armed \/ hw.blocked,
              ~hw'.stopReq, hw'.brkEn \/ rt'.prevPower
       PROVE  hist'.armed \/ hw'.blocked
  <2>1. CASE RisingEdge(h1, p)
    BY <1>6, <1>9, <2>1, Zenon
  <2>2. CASE ~RisingEdge(h1, p)
    <3>1. ~h1.stopReq /\ ~h1.estop /\ ~(~p /\ rt.prevPower)
      BY <1>4, <1>7, <1>11, <2>2, Zenon DEF WriteStarts
    <3>2. ~hw.stopReq /\ (h1.brkEn => hw.brkEn) /\ h1.blocked = hw.blocked
      BY <1>4, <3>1, Zenon DEF WriteStarts
    <3>3. hist.armed \/ hw.blocked
      BY <1>5, <1>7, <1>9, <1>11, <2>2, <3>1, <3>2, Zenon
    <3> QED
      BY <1>6, <1>7, <3>1, <3>2, <3>3, Zenon
  <2> QED
    BY <2>1, <2>2
<1> QED
  BY <1>2, <1>5, <1>8, <1>10, <1>11, Zenon

\* The reaction of write to drive errors, wrong modes and a bad bus.
LEMMA CheckDriveLemma ==
  ASSUME NEW h \in Shared, NEW r \in Loop, NEW link
  PROVE  LET t == CheckDrive(h, r, link) IN t \in Shared /\ Steady(h, t)
<1> DEFINE k == IF h.blocked \/ r.estop THEN h.clean ELSE FALSE
           l == IF h.blocked THEN h.clean ELSE FALSE
           v == ~h.viol
           m == h.mism + 1
           f == LatchMotionFault(h)
           z == [h EXCEPT !.mism = MismatchDebounce]
           a == [f EXCEPT !.mism = 0]
           b == [[h EXCEPT !.mism = 0] EXCEPT !.clean = k]
           c == LatchMotionFault(z)
           d == [[h EXCEPT !.mism = m] EXCEPT !.clean = k]
           e == [h EXCEPT !.mism = 0, !.clean = l]
           g == [h EXCEPT !.mism = 0, !.clean = v]
           t == CheckDrive(h, r, link)
<1>1. k \in BOOLEAN /\ l \in BOOLEAN /\ v \in BOOLEAN /\ m \in Nat
  <2>1. h.clean \in BOOLEAN /\ h.viol \in BOOLEAN /\ h.mism \in Nat
    BY Zenon DEF Shared
  <2>2. m \in Nat
    BY <2>1
  <2>3. k \in BOOLEAN /\ l \in BOOLEAN /\ v \in BOOLEAN
    BY <2>1, Zenon
  <2> QED
    BY <2>2, <2>3
<1>2. t \in {a, b, c, d, e, g, h}
  <2>1. /\ [h EXCEPT !.mism = 0].clean = h.clean
        /\ [h EXCEPT !.mism = m].clean = h.clean
    BY ZenonT(60) DEF Shared
  <2> DEFINE bx == [[h EXCEPT !.mism = 0] EXCEPT
                      !.clean = IF h.blocked \/ r.estop THEN [h EXCEPT !.mism = 0].clean ELSE FALSE]
             dx == [[h EXCEPT !.mism = m] EXCEPT
                      !.clean = IF h.blocked \/ r.estop THEN [h EXCEPT !.mism = m].clean ELSE FALSE]
             c1 == h.fresh /\ h.rx.err
             c2 == EnableRequested(h, r) \/ h.power
             c3 == h.fresh /\ EnableRequested(h, r) /\ h.rx.mode # ExpectedMode(h)
             c4 == m >= MismatchDebounce
             c5 == ~h.fresh \/ link # "ok" \/ h.tf
             c6 == ~h.blocked /\ ~r.estop
  <2>2. t = IF c1 THEN IF c2 THEN a ELSE bx
            ELSE IF c3 THEN IF c4 THEN c ELSE dx
            ELSE IF c5 THEN e ELSE IF c6 THEN g ELSE h
    BY Zenon DEF CheckDrive
  <2>3. bx = b /\ dx = d
    BY <2>1, Zenon
  <2> HIDE DEF a, b, c, d, e, g, bx, dx, c1, c2, c3, c4, c5, c6, t
  <2> QED
    BY <2>2, <2>3, Zenon
<1> HIDE DEF k, l, v, m, t
<1>3. z \in Shared /\ SameFlags(h, z)
  BY Zeros, ZenonT(60) DEF Shared, SameFlags
<1> HIDE DEF z
<1>4. /\ f \in Shared /\ Steady(h, f) /\ c \in Shared /\ Steady(z, c)
  BY <1>3, LatchMotionFaultLemma, Zenon
<1> HIDE DEF f, c
<1>5. a \in Shared /\ SameFlags(f, a)
  BY <1>4, Zeros, ZenonT(60) DEF Shared, SameFlags
<1>6. b \in Shared /\ SameFlags(h, b)
  BY <1>1, Zeros, ZenonT(60) DEF Shared, SameFlags
<1>7. d \in Shared /\ SameFlags(h, d)
  BY <1>1, ZenonT(60) DEF Shared, SameFlags
<1>8. e \in Shared /\ SameFlags(h, e) /\ g \in Shared /\ SameFlags(h, g)
  BY <1>1, Zeros, ZenonT(60) DEF Shared, SameFlags
<1> HIDE DEF a, b, d, e, g
<1>9. Steady(h, a) /\ Steady(h, c)
  BY <1>3, <1>4, <1>5, SameFlagsSteady, SteadyTrans
<1>10. Steady(h, b) /\ Steady(h, d) /\ Steady(h, e) /\ Steady(h, g) /\ Steady(h, h)
  BY <1>6, <1>7, <1>8, SameFlagsSteady, SteadyRefl
<1> QED
  BY <1>2, <1>4, <1>5, <1>6, <1>7, <1>8, <1>9, <1>10, Zenon DEF t

\* A decision of Cia402Controller::step: operation only on request, and without
\* a request and a reset permission only the words that take power away.
Decisions == [cw : Words, allow : BOOLEAN, att : Nat, back : Nat]

LEMMA Cia402StepLemma ==
  ASSUME NEW h \in Shared, NEW healthy \in BOOLEAN, NEW enable \in BOOLEAN,
         NEW quick \in BOOLEAN, NEW mayReset \in BOOLEAN
  PROVE  LET d == Cia402Step(h, healthy, enable, quick, mayReset)
         IN  /\ d \in Decisions
             /\ d.allow => enable
             /\ ~enable /\ ~mayReset => d.cw \in {"shutdown", "quick"}
<1> DEFINE dec(cw, allow, att, back) ==
             [cw |-> cw, allow |-> allow, att |-> att, back |-> back]
           d == Cia402Step(h, healthy, enable, quick, mayReset)
           qw == QuickWord(h.rx.state)
           ew == EnableWord(h.rx.state)
           on == h.rx.state = "enabled"
           b1 == h.back - 1
           a1 == h.att + 1
<1>1. h.back \in Nat /\ h.att \in Nat /\ Backoff \in Nat
  <2>1. h.back \in Nat /\ h.att \in Nat
    BY Zenon DEF Shared
  <2> QED
    BY <2>1, HardwareAssumption DEF HardwareAssumption
<1>2. (h.back > 0 => b1 \in Nat) /\ a1 \in Nat
  BY <1>1
<1>3. /\ qw \in {"quick", "shutdown"} /\ ew \in {"shutdown", "switch_on", "enable"}
      /\ on \in BOOLEAN
  BY DEF QuickWord, EnableWord
<1>4. \/ h.back > 0 /\ d = dec("shutdown", FALSE, h.att, b1)
      \/ mayReset /\ d = dec("reset", FALSE, a1, Backoff)
      \/ d = dec("shutdown", FALSE, h.att, 0)
      \/ d = dec("shutdown", FALSE, 0, 0)
      \/ d = dec(qw, FALSE, 0, 0)
      \/ enable /\ d = dec(ew, on, 0, 0)
  BY Zenon DEF Cia402Step
<1> HIDE DEF d, qw, ew, on, b1, a1
<1>5. /\ "shutdown" \in Words /\ "reset" \in Words /\ qw \in Words /\ ew \in Words
  BY <1>3 DEF Words
<1> DEFINE G == /\ d \in Decisions
                /\ d.allow => enable
                /\ ~enable /\ ~mayReset => d.cw \in {"shutdown", "quick"}
<1>6. ASSUME h.back > 0, d = dec("shutdown", FALSE, h.att, b1) PROVE G
  BY <1>1, <1>2, <1>5, <1>6, Zenon DEF Decisions
<1>7. ASSUME mayReset, d = dec("reset", FALSE, a1, Backoff) PROVE G
  BY <1>1, <1>2, <1>5, <1>7, Zenon DEF Decisions
<1>8. ASSUME d = dec("shutdown", FALSE, h.att, 0) PROVE G
  BY <1>1, <1>5, <1>8, Zeros, Zenon DEF Decisions
<1>9. ASSUME d = dec("shutdown", FALSE, 0, 0) PROVE G
  BY <1>5, <1>9, Zeros, Zenon DEF Decisions
<1>10. ASSUME d = dec(qw, FALSE, 0, 0) PROVE G
  BY <1>3, <1>5, <1>10, Zeros, Zenon DEF Decisions
<1>11. ASSUME enable, d = dec(ew, on, 0, 0) PROVE G
  BY <1>3, <1>5, <1>11, Zeros, Zenon DEF Decisions
<1>12. G
  BY <1>4, <1>6, <1>7, <1>8, <1>9, <1>10, <1>11, Zenon
<1> QED
  BY <1>12, Zenon DEF d

LEMMA MotionVelocitiesLemma ==
  ASSUME NEW h \in Shared, NEW cmd \in {"rest", "up", "down", "nan"}
  PROVE  MotionVelocities(h, cmd) \subseteq Velocities
BY DEF MotionVelocities, Velocities

LEMMA StopPhaseLemma ==
  ASSUME NEW h \in Shared, NEW r
  PROVE  /\ StopPhase(h, r) \in {"disabled", "idle", "quick"}
         /\ StopPhase(h, r) = "idle" => ~StopRequested(h, r)
<1>1. h.phase \in {"disabled", "idle", "quick"}
  BY Zenon DEF Shared
<1> DEFINE s == StopRequested(h, r)
           e == EnableRequested(h, r)
<1>2. StopPhase(h, r) =
        IF s THEN IF h.phase = "idle" THEN "quick" ELSE h.phase
        ELSE IF h.phase = "quick" \/ (h.phase = "disabled" /\ e) THEN "idle" ELSE h.phase
  BY Zenon DEF StopPhase
<1> HIDE DEF s, e
<1>3. CASE s
  BY <1>1, <1>2, <1>3
<1>4. CASE ~s
  BY <1>1, <1>2, <1>4 DEF s
<1> QED
  BY <1>3, <1>4 DEF s

\* The decision of write: a velocity needs a requested enable, no stop request
\* and no motion fault; under the emergency stop the frame is a stopping one.
LEMMA WriteDecideStep ==
  ASSUME Typed, NEW c \in MotionCommands, WriteDecide(c)
  PROVE  /\ Typed' /\ Steady(hw, hw')
         /\ life = "active" /\ UNCHANGED <<life, drv, disk, svc>>
         /\ rt.pc = "decide" /\ rt'.pc = "send"
         /\ rt'.prevPower = rt.prevPower /\ rt'.estop = rt.estop
         /\ hist'.armed = (hist.armed /\ (hw'.blocked => hw.blocked))
         /\ rt.estop => rt'.frame.vel = "zero" /\ rt'.frame.cw \in {"shutdown", "quick"}
         /\ rt'.frame.vel # "zero"
              => ~hw.stopReq /\ (hw.brkEn \/ rt.prevPower) /\ ~hw.blocked
<1> DEFINE h1 == CheckDrive(hw, rt, drv.link)
           phase1 == StopPhase(hw, rt)
           quick == phase1 = "quick"
           healthy == h1.fresh /\ drv.link = "ok" /\ ~h1.tf
           enable == EnableRequested(hw, rt) /\ ~quick
           mayReset == ~rt.estop
           d == Cia402Step(h1, healthy, enable, quick, mayReset)
           stopped == quick /\ (Stationary(h1) \/ rt.stopAge >= StopDeadline \/ d.cw = "shutdown")
           phase == IF stopped THEN "disabled" ELSE phase1
           cw == IF stopped THEN "shutdown" ELSE d.cw
           rel == IF d.allow /\ ~rt.prevOp THEN 0
                  ELSE IF rt.rel < ReleaseWait THEN rt.rel + 1 ELSE rt.rel
           unlocked == d.allow /\ rel >= ReleaseWait /\ phase = "idle" /\ ~h1.blocked
           cmd == IF rt.guard \/ rt.estop \/ rt.rebased THEN "rest" ELSE c
           compute == unlocked /\ ~h1.homing /\ h1.fresh
           h2 == IF compute /\ cmd = "nan" THEN LatchMotionFault(h1) ELSE h1
           mayMove == compute /\ ~h2.blocked /\ ~rt.estop /\ ~rt.guard /\ ~rt.stopPending
           age == IF quick /\ ~stopped THEN rt.stopAge + 1 ELSE 0
           seen == h2.zPend /\ ~d.allow /\ cw = "shutdown"
           un == unlocked /\ ~h2.blocked
           cr == cmd = "rest"
           zo == h2.zObs \/ seen
           ho == hist.obs \/ seen
           ha == hist.armed /\ (h2.blocked => hw.blocked)
           hm == h1.homing /\ d.allow
<1>1. PICK v \in IF mayMove THEN MotionVelocities(h2, cmd) ELSE {"zero"} :
        /\ hw' = [h2 EXCEPT !.phase = phase, !.att = d.att, !.back = d.back,
                            !.unlocked = un, !.cmdRest = cr, !.zObs = zo]
        /\ rt' = [rt EXCEPT !.pc = "send", !.prevOp = d.allow, !.rel = rel, !.guard = FALSE,
                            !.stopAge = age, !.frame = [cw |-> cw, vel |-> v, hm |-> hm]]
        /\ hist' = [hist EXCEPT !.obs = ho, !.armed = ha]
  BY Zenon DEF WriteDecide
<1>2. life = "active" /\ rt.pc = "decide" /\ UNCHANGED <<life, drv, disk, tx, svc>>
  BY Zenon DEF WriteDecide
<1>3. hw \in Shared /\ rt \in Loop /\ hist \in Histories
  BY TypedNow
<1>4. h1 \in Shared /\ Steady(hw, h1)
  BY <1>3, CheckDriveLemma, Zenon
<1>5. /\ phase1 \in {"disabled", "idle", "quick"}
      /\ phase1 = "idle" => ~hw.stopReq
  BY <1>3, StopPhaseLemma, Zenon DEF StopRequested
<1>6. /\ enable => ~rt.estop /\ (rt.prevPower \/ hw.brkEn)
      /\ enable \in BOOLEAN /\ healthy \in BOOLEAN /\ quick \in BOOLEAN /\ mayReset \in BOOLEAN
  <2>1. enable => ~rt.estop /\ (rt.prevPower \/ hw.brkEn)
    BY Zenon DEF EnableRequested
  <2>2. enable \in BOOLEAN
    BY Zenon DEF EnableRequested
  <2>3. healthy \in BOOLEAN /\ quick \in BOOLEAN /\ mayReset \in BOOLEAN
    BY Zenon
  <2> QED
    BY <2>1, <2>2, <2>3, Zenon
<1> HIDE DEF h1, phase1, enable, healthy
<1>7. /\ d \in Decisions /\ (d.allow => enable)
      /\ ~enable /\ ~mayReset => d.cw \in {"shutdown", "quick"}
  BY <1>4, <1>6, Cia402StepLemma, Zenon
<1>8. /\ d.cw \in Words /\ d.allow \in BOOLEAN /\ d.att \in Nat /\ d.back \in Nat
  BY <1>7, Zenon DEF Decisions
<1> HIDE DEF d
<1>9. stopped \in BOOLEAN
  BY Zenon
<1> HIDE DEF stopped
<1>10. /\ phase \in {"disabled", "idle", "quick"} /\ (phase = "idle" => phase1 = "idle")
       /\ cw \in Words /\ (cw = "shutdown" \/ cw = d.cw)
  BY <1>5, <1>8, <1>9 DEF Words
<1>11. rel \in Nat /\ age \in Nat
  <2>1. rt.rel \in Nat /\ rt.stopAge \in Nat
    BY <1>3, Zenon DEF Loop
  <2> HIDE DEF quick
  <2> QED
    BY <2>1, HardwareAssumption DEF HardwareAssumption
<1>12. /\ unlocked => d.allow /\ phase = "idle" /\ ~h1.blocked
       /\ cmd \in {"rest", "up", "down", "nan"}
       /\ compute => unlocked
  <2>1. c \in {"rest", "up", "down", "nan"}
    BY HardwareAssumption, Zenon DEF HardwareAssumption
  <2> QED
    BY <2>1, Zenon
<1> HIDE DEF phase, cw, rel, age, unlocked, cmd, quick
<1>13. h2 \in Shared /\ Steady(h1, h2)
  BY <1>4, LatchMotionFaultLemma, SteadyRefl, Zenon
<1>14. compute \in BOOLEAN /\ (mayMove => compute /\ ~h2.blocked /\ ~rt.estop)
  BY Zenon
<1> HIDE DEF compute, h2, mayMove
<1>15. v \in Velocities /\ (v # "zero" => mayMove)
  <2>1. CASE mayMove
    BY <1>1, <1>12, <1>13, <2>1, MotionVelocitiesLemma, Zenon
  <2>2. CASE ~mayMove
    BY <1>1, <2>2, Zenon DEF Velocities
  <2> QED
    BY <2>1, <2>2
<1>16. /\ un \in BOOLEAN /\ cr \in BOOLEAN /\ zo \in BOOLEAN /\ ho \in BOOLEAN
       /\ ha \in BOOLEAN /\ hm \in BOOLEAN
  BY Zenon
<1> HIDE DEF un, cr, zo, ho, ha, hm
<1>17. hw' \in Shared /\ SameFlags(h2, hw')
  <2> DEFINE x == [h2 EXCEPT !.phase = phase, !.att = d.att, !.back = d.back,
                             !.unlocked = un, !.cmdRest = cr, !.zObs = zo]
  <2>1. x \in Shared
    BY <1>8, <1>10, <1>13, <1>16, ZenonT(60) DEF Shared
  <2>2. SameFlags(h2, x)
    BY <1>13, ZenonT(60) DEF Shared, SameFlags
  <2>3. hw' = x
    BY <1>1
  <2> HIDE DEF x
  <2> QED
    BY <2>1, <2>2, <2>3, Zenon
<1>18. Steady(hw, hw') /\ hw'.blocked = h2.blocked
  <2>1. Steady(hw, h2)
    BY <1>4, <1>13, SteadyTrans
  <2>2. Steady(h2, hw')
    BY <1>17, SameFlagsSteady
  <2> QED
    BY <1>17, <2>1, <2>2, SteadyTrans, Zenon DEF SameFlags
<1> DEFINE fr == [cw |-> cw, vel |-> v, hm |-> hm]
<1>19. fr \in Frames /\ fr.cw = cw /\ fr.vel = v
  BY <1>10, <1>15, <1>16, Zenon DEF Frames
<1>20. rt' = [rt EXCEPT !.pc = "send", !.prevOp = d.allow, !.rel = rel, !.guard = FALSE,
                        !.stopAge = age, !.frame = fr]
  BY <1>1, Zenon
<1> HIDE DEF fr
<1>21. /\ rt' \in Loop /\ rt'.pc = "send" /\ rt'.prevPower = rt.prevPower
       /\ rt'.estop = rt.estop /\ rt'.frame = fr
  <2> DEFINE x == [rt EXCEPT !.pc = "send", !.prevOp = d.allow, !.rel = rel, !.guard = FALSE,
                             !.stopAge = age, !.frame = fr]
  <2>1. x \in Loop
    BY <1>3, <1>8, <1>11, <1>19, ZenonT(60) DEF Loop
  <2>2. /\ x.pc = "send" /\ x.prevPower = rt.prevPower /\ x.estop = rt.estop /\ x.frame = fr
    BY <1>3, ZenonT(60) DEF Loop
  <2>3. rt' = x
    BY <1>20
  <2> HIDE DEF x
  <2> QED
    BY <2>1, <2>2, <2>3, Zenon
<1>22. hist' \in Histories /\ hist'.armed = ha
  BY <1>1, <1>3, <1>16, Zenon DEF Histories
<1>23. Typed'
  BY <1>2, <1>17, <1>21, <1>22, TypedNow, TypedNext, Zenon
<1>24. rt.estop => rt'.frame.vel = "zero" /\ rt'.frame.cw \in {"shutdown", "quick"}
  BY <1>6, <1>7, <1>10, <1>14, <1>15, <1>19, <1>21, Zenon
<1>25. ASSUME rt'.frame.vel # "zero"
       PROVE  ~hw.stopReq /\ (hw.brkEn \/ rt.prevPower) /\ ~hw.blocked
  <2>1. compute /\ ~h2.blocked
    BY <1>14, <1>15, <1>19, <1>21, <1>25, Zenon
  <2>2. enable /\ phase1 = "idle" /\ ~h1.blocked
    BY <1>7, <1>10, <1>12, <2>1, Zenon
  <2> QED
    BY <1>4, <1>5, <1>6, <2>2, Zenon DEF Steady
<1>26. hist'.armed = (hist.armed /\ (hw'.blocked => hw.blocked))
  BY <1>18, <1>22, Zenon DEF ha
<1> QED
  BY <1>2, <1>18, <1>21, <1>23, <1>24, <1>25, <1>26, Zenon

LEMMA WriteSendStep ==
  ASSUME Typed, WriteSend
  PROVE  /\ Typed' /\ Steady(hw, hw')
         /\ life = "active" /\ UNCHANGED <<life, drv, disk, svc, hist>>
         /\ rt.pc = "send" /\ rt'.pc = "read" /\ rt'.prevPower = rt.prevPower
<1> DEFINE rl == [rt EXCEPT !.pc = "read", !.healthy = 0, !.base = FALSE]
           ro == [rt EXCEPT !.pc = "read"]
           m == hw.rvStop /\ ~rt.stopPending
           n == Powered(hw, drv.link)
           x == [hw EXCEPT !.rvStop = m, !.power = n]
<1>1. /\ life = "active" /\ rt.pc = "send" /\ UNCHANGED <<life, drv, disk, svc, hist>>
      /\ \/ hw' = HandleTransportFault(hw) /\ rt' = rl /\ tx' = tx
         \/ hw' = x /\ rt' = ro /\ tx' = rt.frame
  BY Zenon DEF WriteSend
<1>2. hw \in Shared /\ rt \in Loop /\ rt.frame \in Frames
  BY TypedNow, Zenon DEF Loop
<1>3. m \in BOOLEAN /\ n \in BOOLEAN
  BY Zenon DEF Powered
<1> HIDE DEF m, n
<1>4. x \in Shared /\ SameFlags(hw, x)
  BY <1>2, <1>3, ZenonT(60) DEF Shared, SameFlags
<1>5. /\ rl \in Loop /\ ro \in Loop /\ rl.pc = "read" /\ ro.pc = "read"
      /\ rl.prevPower = rt.prevPower /\ ro.prevPower = rt.prevPower
  BY <1>2, Zeros, ZenonT(60) DEF Loop
<1> HIDE DEF x, rl, ro
<1>6. /\ hw' \in Shared /\ Steady(hw, hw')
      /\ rt' \in Loop /\ rt'.pc = "read" /\ rt'.prevPower = rt.prevPower
  BY <1>1, <1>2, <1>4, <1>5, HandleTransportFaultLemma, SameFlagsSteady, Zenon
<1>7. tx' \in Frames
  BY <1>1, <1>2, TypedNow, Zenon
<1>8. Typed'
  BY <1>1, <1>6, <1>7, TypedNow, TypedNext, Zenon
<1> QED
  BY <1>1, <1>6, <1>8, Zenon

-----------------------------------------------------------------------------
(* The invariants.                                                          *)

\* What remains of homing once the drive is back in mode 9.
CsvSteps == {"h10a", "h10", "c1", "c2", "c3", "f2", "h11"}

\* After 6060h = 9 was written only a handler or a fault changes the mode.
ModeInv ==
  /\ svc.op = "none" /\ svc.ok => drv.sample.mode = 9
  /\ svc.op = "home" /\ svc.pc \in CsvSteps => drv.sample.mode = 9

\* Handlers run while the component is active: on_deactivate, which lets the
\* one in progress run on, is excluded.
LifeInv ==
  /\ life # "stopping"
  /\ svc.op # "none" => life = "active"
  /\ svc.op = "none" => svc.pc = "idle"

\* The recorded offset is the frame, or it waits in zero_offset_pending_, or the
\* handler that saved it has still to hand it over.
FrameInv ==
  /\ life = "active" /\ hw.zoff # Recorded(disk) => hw.zApply \/ svc.pc = "c2"
  /\ svc.pc = "c2" => disk = {svc.units}
  /\ hw.zApply => hw.zAtomic = Recorded(disk) \/ svc.pc = "c2"
  /\ life = "inactive" => hw.zoff = Recorded(disk)

\* An enable without a stop request is one that was asked for, or is blocked.
Armed == ~hw.stopReq /\ (hw.brkEn \/ rt.prevPower) => hist.armed \/ hw.blocked

\* The safety reset lifts the block only behind a stop request, which no power
\* edge clears before.
ResetHeld ==
  /\ svc.op = "reset" /\ svc.pc \in {"s1", "s2"} => hw.estop \/ hw.blocked
  /\ svc.op = "reset" /\ svc.pc = "s2" => hw.stopReq

ArmInv ==
  /\ life = "active" => Armed
  /\ ResetHeld
  /\ life = "inactive" => ~hw.brkEn

-----------------------------------------------------------------------------
(* The steps of the service thread.                                         *)

ServiceStep ==
  /\ Typed' /\ life' = life /\ rt' = rt
  /\ svc.pc # "idle"
  /\ svc.op # "none" /\ svc'.op = "none" => svc'.pc = "idle"
  /\ svc.op # "none" /\ ModeInv => ModeInv'
  /\ life = "active" /\ FrameInv => FrameInv'
  /\ life = "active" /\ ArmInv => ArmInv'

ZeroSame(h, t) == t.zoff = h.zoff /\ t.zApply = h.zApply /\ t.zAtomic = h.zAtomic

StorePcs == {"s2", "s3", "h2", "h5", "h6", "h8", "h10", "d2", "done"}

LEMMA GoLemma ==
  ASSUME Typed, NEW pc \in {"s2", "s3", "h2", "h3", "h4", "h5", "h6", "h8", "h9", "h10", "h10a",
                            "h11", "c2", "c3", "f2", "d2", "d3"}, Go(pc)
  PROVE  svc' \in Handlers /\ svc'.op = svc.op /\ svc'.pc = pc /\ svc'.units = svc.units
<1>1. svc \in Handlers /\ svc' = [svc EXCEPT !.pc = pc]
  BY TypedNow, Zenon DEF Go
<1>2. pc \in {"idle", "s1", "s2", "s3", "h2", "h3", "h4", "h5", "h6", "h7", "h8", "h9", "h10a",
              "h10", "h11", "c1", "c2", "c3", "f2", "d2", "d3"}
  BY Zenon
<1> QED
  BY <1>1, <1>2, Zenon DEF Handlers

LEMMA ReturnLemma ==
  ASSUME NEW ok \in BOOLEAN, Return(ok)
  PROVE  svc' \in Handlers /\ svc'.op = "none" /\ svc'.pc = "idle" /\ svc'.ok = ok
<1>1. Idle \in Handlers /\ Idle.op = "none" /\ Idle.pc = "idle"
  BY Zeros, Zenon DEF Idle, Handlers
<1>2. svc' = [Idle EXCEPT !.ok = ok]
  BY Zenon DEF Return
<1> QED
  BY <1>1, <1>2, Zenon DEF Handlers

\* One store of a handler: what it must keep for the invariants.
LEMMA StoreStep ==
  ASSUME Typed, NEW op \in ServiceNames, NEW pc, NEW next \in StorePcs, NEW t \in Shared,
         Store(op, pc, next, t), hist' \in Histories, pc # "c2", pc # "idle", ZeroSame(hw, t),
         op = "home" /\ next = "h10" => pc = "h10a",
         Armed /\ ResetHeld => Armed', op = "reset" /\ ResetHeld => ResetHeld'
  PROVE  ServiceStep
<1>1. /\ svc.op = op /\ svc.pc = pc /\ hw' = t /\ UNCHANGED <<life, drv, disk, rt, tx>>
      /\ \/ next = "done" /\ Return(FALSE)
         \/ next # "done" /\ Go(next)
  BY Zenon DEF Store, At
<1>2. op # "none"
  BY DEF ServiceNames
<1>3. /\ svc' \in Handlers
      /\ \/ next # "done" /\ svc'.op = op /\ svc'.pc = next
         \/ svc'.op = "none" /\ svc'.pc = "idle" /\ svc'.ok = FALSE
  <2>1. CASE next = "done" /\ Return(FALSE)
    BY <2>1, ReturnLemma, Zenon
  <2>2. CASE next # "done" /\ Go(next)
    BY <1>1, <2>2, GoLemma, Zenon DEF StorePcs
  <2> QED
    BY <1>1, <2>1, <2>2
<1>4. Typed'
  BY <1>1, <1>3, TypedNow, TypedNext, Zenon
<1>5. next # "c2" /\ "idle" # "c2" /\ "done" # "idle"
  BY DEF StorePcs
<1>6. ModeInv => ModeInv'
  <2>1. next # "h10" => next \notin CsvSteps
    BY DEF StorePcs, CsvSteps
  <2>2. "h10a" \in CsvSteps
    BY Zenon DEF CsvSteps
  <2> QED
    BY <1>1, <1>2, <1>3, <2>1, <2>2, Zenon DEF ModeInv
<1>7. life = "active" /\ FrameInv => FrameInv'
  <2>1. life = "active" => life # "inactive"
    OBVIOUS
  <2> QED
    BY <1>1, <1>3, <1>5, <2>1, Zenon DEF FrameInv, ZeroSame
<1>8. life = "active" /\ ArmInv => ArmInv'
  <2>1. life = "active" => life # "inactive"
    OBVIOUS
  <2>2. op # "reset" => ResetHeld'
    BY <1>3, Zenon DEF ResetHeld
  <2> QED
    BY <1>1, <2>1, <2>2, Zenon DEF ArmInv
<1> QED
  BY <1>1, <1>2, <1>3, <1>4, <1>6, <1>7, <1>8, Zenon DEF ServiceStep

LEMMA ArmLemma ==
  ASSUME Typed, NEW b \in BOOLEAN, Arm(b)
  PROVE  hist' \in Histories /\ hist'.armed = b
BY TypedNow, Zenon DEF Arm, Histories

LEMMA QuietLemma ==
  ASSUME Typed, Quiet
  PROVE  hist' \in Histories /\ hist'.armed = hist.armed
BY TypedNow, Zenon DEF Quiet

\* The kinds of stores: one that arms, one that stops, one that does neither.
LEMMA ArmingStore ==
  ASSUME Typed, NEW op \in ServiceNames \ {"reset"}, NEW pc, NEW next \in StorePcs \ {"h10"},
         NEW t \in Shared, Store(op, pc, next, t), pc # "c2", pc # "idle", ZeroSame(hw, t),
         Arm(TRUE)
  PROVE  ServiceStep
<1>1. hist' \in Histories /\ hist'.armed
  BY ArmLemma, Zenon
<1> QED
  BY <1>1, StoreStep, Zenon DEF Armed

LEMMA StoppingStore ==
  ASSUME Typed, NEW op \in ServiceNames \ {"reset"}, NEW pc, NEW next \in StorePcs \ {"h10"},
         NEW t \in Shared, Store(op, pc, next, t), pc # "c2", pc # "idle", ZeroSame(hw, t),
         t.stopReq, Arm(FALSE)
  PROVE  ServiceStep
<1>1. hist' \in Histories
  BY ArmLemma, Zenon
<1>2. hw' = t
  BY Zenon DEF Store
<1> QED
  BY <1>1, <1>2, StoreStep, Zenon DEF Armed

LEMMA CalmStore ==
  ASSUME Typed, NEW op \in ServiceNames \ {"reset"}, NEW pc, NEW next \in StorePcs,
         NEW t \in Shared, Store(op, pc, next, t), pc # "c2", pc # "idle", ZeroSame(hw, t),
         next = "h10" => pc = "h10a",
         hw.stopReq => t.stopReq, t.brkEn => hw.brkEn, t.blocked = hw.blocked,
         hist' \in Histories, hist'.armed = hist.armed
  PROVE  ServiceStep
<1>1. hw' = t /\ rt' = rt
  BY Zenon DEF Store
<1> QED
  BY <1>1, StoreStep, Zenon DEF Armed

LEMMA HandleBrakeCommandStep ==
  ASSUME Typed, HandleBrakeCommand PROVE ServiceStep
<1> DEFINE t1 == [hw EXCEPT !.brkEn = TRUE]
           t2 == [hw EXCEPT !.disLatch = FALSE]
           t3 == [hw EXCEPT !.stopReq = FALSE]
           u1 == [hw EXCEPT !.brkEn = FALSE]
           u2 == [hw EXCEPT !.disLatch = TRUE]
           u3 == [hw EXCEPT !.rvReq = FALSE, !.rvStop = FALSE, !.stopReq = TRUE, !.unlocked = FALSE]
<1>1. \/ Store("unlock", "s1", "s2", t1) /\ Arm(TRUE)
      \/ Store("unlock", "s2", "s3", t2) /\ Quiet
      \/ Store("unlock", "s3", "done", t3) /\ Arm(TRUE)
      \/ Store("lock", "s1", "s2", u1) /\ Quiet
      \/ Store("lock", "s2", "s3", u2) /\ Quiet
      \/ Store("lock", "s3", "done", u3) /\ Arm(FALSE)
  BY Zenon DEF HandleBrakeCommand
<1>2. hw \in Shared
  BY TypedNow
<1>3. /\ t1 \in Shared /\ ZeroSame(hw, t1)
      /\ t3 \in Shared /\ ZeroSame(hw, t3)
  BY <1>2, ZenonT(60) DEF Shared, ZeroSame
<1>4. u3 \in Shared /\ ZeroSame(hw, u3) /\ u3.stopReq
  BY <1>2, ZenonT(60) DEF Shared, ZeroSame
<1>5. /\ t2 \in Shared /\ ZeroSame(hw, t2) /\ t2.stopReq = hw.stopReq /\ t2.brkEn = hw.brkEn
      /\ t2.blocked = hw.blocked
  BY <1>2, ZenonT(60) DEF Shared, ZeroSame
<1>6. /\ u1 \in Shared /\ ZeroSame(hw, u1) /\ u1.stopReq = hw.stopReq /\ ~u1.brkEn
      /\ u1.blocked = hw.blocked
  BY <1>2, ZenonT(60) DEF Shared, ZeroSame
<1>7. /\ u2 \in Shared /\ ZeroSame(hw, u2) /\ u2.stopReq = hw.stopReq /\ u2.brkEn = hw.brkEn
      /\ u2.blocked = hw.blocked
  BY <1>2, ZenonT(60) DEF Shared, ZeroSame
<1> HIDE DEF t1, t2, t3, u1, u2, u3
<1>8. /\ {"unlock", "lock"} \subseteq ServiceNames \ {"reset"}
      /\ {"s2", "s3", "done"} \subseteq StorePcs \ {"h10"}
  BY DEF ServiceNames, StorePcs
<1>9. CASE Store("unlock", "s1", "s2", t1) /\ Arm(TRUE)
  BY <1>3, <1>8, <1>9, ArmingStore, Zenon
<1>10. CASE Store("unlock", "s2", "s3", t2) /\ Quiet
  BY <1>5, <1>8, <1>10, QuietLemma, CalmStore, Zenon
<1>11. CASE Store("unlock", "s3", "done", t3) /\ Arm(TRUE)
  BY <1>3, <1>8, <1>11, ArmingStore, Zenon
<1>12. CASE Store("lock", "s1", "s2", u1) /\ Quiet
  BY <1>6, <1>8, <1>12, QuietLemma, CalmStore, Zenon
<1>13. CASE Store("lock", "s2", "s3", u2) /\ Quiet
  BY <1>7, <1>8, <1>13, QuietLemma, CalmStore, Zenon
<1>14. CASE Store("lock", "s3", "done", u3) /\ Arm(FALSE)
  BY <1>4, <1>8, <1>14, StoppingStore, Zenon
<1> QED
  BY <1>1, <1>9, <1>10, <1>11, <1>12, <1>13, <1>14

LEMMA HandleResetVelocityStep ==
  ASSUME Typed, HandleResetVelocity PROVE ServiceStep
<1> DEFINE a == hist.armed \/ ~hw.stopReq
           n == IF hw.rvReq THEN hw.rvStart ELSE FeedbackPosition(hw)
           t1 == [hw EXCEPT !.brkEn = TRUE]
           t2 == [hw EXCEPT !.rvReq = TRUE, !.rvStop = FALSE, !.holdReq = FALSE, !.rvAge = 0,
                            !.rvStart = n]
           u1 == [hw EXCEPT !.rvReq = FALSE]
           u2 == [hw EXCEPT !.rvStop = TRUE, !.holdReq = TRUE]
<1>1. \/ Store("takeover", "s1", "s2", t1) /\ Arm(a)
      \/ Store("takeover", "s2", "done", t2) /\ Quiet
      \/ Store("takeover_off", "s1", "s2", u1) /\ Quiet
      \/ Store("takeover_off", "s2", "done", u2) /\ Quiet
  BY Zenon DEF HandleResetVelocity
<1>2. hw \in Shared
  BY TypedNow
<1>3. n \in Int /\ a \in BOOLEAN
  <2>1. hw.rvStart \in Int /\ hw.zoff \in Int /\ hw.rx \in Samples
    BY <1>2, Zenon DEF Shared
  <2>2. hw.rx.pos \in Positions
    BY <2>1, Zenon DEF Samples
  <2>3. hw.rx.pos \in Int
    BY <2>2, HardwareAssumption DEF HardwareAssumption, Positions, PositionMin
  <2> QED
    BY <2>1, <2>3 DEF FeedbackPosition, Host
<1> HIDE DEF n
<1>4. /\ t1 \in Shared /\ ZeroSame(hw, t1) /\ t1.stopReq = hw.stopReq
      /\ t1.blocked = hw.blocked
  BY <1>2, ZenonT(60) DEF Shared, ZeroSame
<1>5. /\ t2 \in Shared /\ ZeroSame(hw, t2) /\ t2.stopReq = hw.stopReq /\ t2.brkEn = hw.brkEn
      /\ t2.blocked = hw.blocked
  BY <1>2, <1>3, Zeros, ZenonT(60) DEF Shared, ZeroSame
<1>6. /\ u1 \in Shared /\ ZeroSame(hw, u1) /\ u1.stopReq = hw.stopReq /\ u1.brkEn = hw.brkEn
      /\ u1.blocked = hw.blocked
  BY <1>2, ZenonT(60) DEF Shared, ZeroSame
<1>7. /\ u2 \in Shared /\ ZeroSame(hw, u2) /\ u2.stopReq = hw.stopReq /\ u2.brkEn = hw.brkEn
      /\ u2.blocked = hw.blocked
  BY <1>2, ZenonT(60) DEF Shared, ZeroSame
<1> HIDE DEF t1, t2, u1, u2
<1>8. /\ {"takeover", "takeover_off"} \subseteq ServiceNames \ {"reset"}
      /\ {"s2", "done"} \subseteq StorePcs
  BY DEF ServiceNames, StorePcs
<1>9. CASE Store("takeover", "s1", "s2", t1) /\ Arm(a)
  <2>1. hist' \in Histories /\ hist'.armed = a
    BY <1>3, <1>9, ArmLemma
  <2>2. hw' = t1
    BY <1>9, Zenon DEF Store
  <2>3. Armed'
    BY <1>4, <2>1, <2>2, Zenon DEF Armed
  <2> QED
    BY <1>4, <1>8, <1>9, <2>1, <2>3, StoreStep, Zenon
<1>10. CASE Store("takeover", "s2", "done", t2) /\ Quiet
  BY <1>5, <1>8, <1>10, QuietLemma, CalmStore, Zenon
<1>11. CASE Store("takeover_off", "s1", "s2", u1) /\ Quiet
  BY <1>6, <1>8, <1>11, QuietLemma, CalmStore, Zenon
<1>12. CASE Store("takeover_off", "s2", "done", u2) /\ Quiet
  BY <1>7, <1>8, <1>12, QuietLemma, CalmStore, Zenon
<1> QED
  BY <1>1, <1>9, <1>10, <1>11, <1>12

LEMMA HandleResetHoldStep ==
  ASSUME Typed, HandleResetHold PROVE ServiceStep
<1> DEFINE t == [hw EXCEPT !.holdReq = TRUE]
           u == [hw EXCEPT !.holdReq = FALSE]
<1>1. \/ Store("hold", "s1", "done", t) /\ Quiet
      \/ Store("unhold", "s1", "done", u) /\ Quiet
  BY Zenon DEF HandleResetHold
<1>2. hw \in Shared
  BY TypedNow
<1>3. /\ t \in Shared /\ ZeroSame(hw, t) /\ t.stopReq = hw.stopReq /\ t.brkEn = hw.brkEn
      /\ t.blocked = hw.blocked
  BY <1>2, ZenonT(60) DEF Shared, ZeroSame
<1>4. /\ u \in Shared /\ ZeroSame(hw, u) /\ u.stopReq = hw.stopReq /\ u.brkEn = hw.brkEn
      /\ u.blocked = hw.blocked
  BY <1>2, ZenonT(60) DEF Shared, ZeroSame
<1> HIDE DEF t, u
<1>5. {"hold", "unhold"} \subseteq ServiceNames \ {"reset"} /\ "done" \in StorePcs
  BY DEF ServiceNames, StorePcs
<1>6. CASE Store("hold", "s1", "done", t) /\ Quiet
  BY <1>3, <1>5, <1>6, QuietLemma, CalmStore, Zenon
<1>7. CASE Store("unhold", "s1", "done", u) /\ Quiet
  BY <1>4, <1>5, <1>7, QuietLemma, CalmStore, Zenon
<1> QED
  BY <1>1, <1>6, <1>7

LEMMA HandleResetZeroStep ==
  ASSUME Typed, HandleResetZero PROVE ServiceStep
<1> DEFINE t == [hw EXCEPT !.rvReq = FALSE, !.rvStop = TRUE, !.holdReq = FALSE,
                           !.brkEn = FALSE, !.stopReq = TRUE, !.unlocked = FALSE]
           u == [hw EXCEPT !.zPend = TRUE]
           o == hist.obs /\ hw.zPend
<1>1. \/ Store("zero", "s1", "s2", t) /\ Arm(FALSE)
      \/ Store("zero", "s2", "done", u) /\ hist' = [hist EXCEPT !.obs = o]
  BY Zenon DEF HandleResetZero
<1>2. hw \in Shared /\ hist \in Histories /\ o \in BOOLEAN
  BY TypedNow, Zenon
<1> HIDE DEF o
<1>3. t \in Shared /\ ZeroSame(hw, t) /\ t.stopReq
  BY <1>2, ZenonT(60) DEF Shared, ZeroSame
<1>4. /\ u \in Shared /\ ZeroSame(hw, u) /\ u.stopReq = hw.stopReq /\ u.brkEn = hw.brkEn
      /\ u.blocked = hw.blocked
  BY <1>2, ZenonT(60) DEF Shared, ZeroSame
<1> HIDE DEF t, u
<1>5. "zero" \in ServiceNames \ {"reset"} /\ {"s2", "done"} \subseteq StorePcs \ {"h10"}
  BY DEF ServiceNames, StorePcs
<1>6. CASE Store("zero", "s1", "s2", t) /\ Arm(FALSE)
  BY <1>3, <1>5, <1>6, StoppingStore, Zenon
<1>7. CASE Store("zero", "s2", "done", u) /\ hist' = [hist EXCEPT !.obs = o]
  <2>1. hist' \in Histories /\ hist'.armed = hist.armed
    BY <1>2, <1>7, Zenon DEF Histories
  <2> QED
    BY <1>4, <1>5, <1>7, <2>1, CalmStore, Zenon
<1> QED
  BY <1>1, <1>6, <1>7

LEMMA HandleEstopStep ==
  ASSUME Typed, HandleEstop PROVE ServiceStep
<1> DEFINE t == [hw EXCEPT !.estop = TRUE]
           u == [hw EXCEPT !.clean = FALSE, !.brkEn = FALSE, !.stopReq = TRUE, !.unlocked = FALSE,
                           !.rvReq = FALSE, !.rvStop = TRUE, !.holdReq = FALSE, !.zPend = FALSE]
<1>1. \/ Store("estop", "s1", "s2", t) /\ Quiet
      \/ Store("estop", "s2", "done", u) /\ Arm(FALSE)
  BY Zenon DEF HandleEstop
<1>2. hw \in Shared
  BY TypedNow
<1>3. /\ t \in Shared /\ ZeroSame(hw, t) /\ t.stopReq = hw.stopReq /\ t.brkEn = hw.brkEn
      /\ t.blocked = hw.blocked
  BY <1>2, ZenonT(60) DEF Shared, ZeroSame
<1>4. u \in Shared
  BY <1>2, ZenonT(200) DEF Shared
<1>5. ZeroSame(hw, u) /\ u.stopReq
  BY <1>2, ZenonT(60) DEF Shared, ZeroSame
<1> HIDE DEF t, u
<1>6. "estop" \in ServiceNames \ {"reset"} /\ {"s2", "done"} \subseteq StorePcs \ {"h10"}
  BY DEF ServiceNames, StorePcs
<1>7. CASE Store("estop", "s1", "s2", t) /\ Quiet
  BY <1>3, <1>6, <1>7, QuietLemma, CalmStore, Zenon
<1>8. CASE Store("estop", "s2", "done", u) /\ Arm(FALSE)
  BY <1>4, <1>5, <1>6, <1>8, StoppingStore, Zenon
<1> QED
  BY <1>1, <1>7, <1>8

\* The block is lifted behind the stop request that the first store raised.
LEMMA HandleSafetyResetStep ==
  ASSUME Typed, HandleSafetyReset PROVE ServiceStep
<1> DEFINE t1 == [hw EXCEPT !.holdReq = TRUE, !.rvReq = FALSE, !.rvStop = FALSE,
                            !.brkEn = FALSE, !.stopReq = TRUE]
           t2 == [hw EXCEPT !.blocked = FALSE, !.viol = FALSE, !.mism = 0, !.att = 0, !.back = 0]
           t3 == [hw EXCEPT !.estop = FALSE, !.clean = TRUE, !.contReset = TRUE]
<1>1. \/ Store("reset", "s1", "s2", t1) /\ Arm(FALSE)
      \/ Store("reset", "s2", "s3", t2) /\ Quiet
      \/ Store("reset", "s3", "done", t3) /\ Quiet
  BY Zenon DEF HandleSafetyReset
<1>2. hw \in Shared
  BY TypedNow
<1>3. /\ t1 \in Shared /\ ZeroSame(hw, t1) /\ t1.stopReq
      /\ t1.estop = hw.estop /\ t1.blocked = hw.blocked
  BY <1>2, ZenonT(60) DEF Shared, ZeroSame
<1>4. t2 \in Shared /\ ZeroSame(hw, t2) /\ t2.stopReq = hw.stopReq
  BY <1>2, Zeros, ZenonT(60) DEF Shared, ZeroSame
<1>5. /\ t3 \in Shared /\ ZeroSame(hw, t3) /\ t3.stopReq = hw.stopReq /\ t3.brkEn = hw.brkEn
      /\ t3.blocked = hw.blocked
  BY <1>2, ZenonT(60) DEF Shared, ZeroSame
<1> HIDE DEF t1, t2, t3
<1>6. "reset" \in ServiceNames /\ {"s2", "s3", "done"} \subseteq StorePcs
  BY DEF ServiceNames, StorePcs
<1>7. CASE Store("reset", "s1", "s2", t1) /\ Arm(FALSE)
  <2>1. hist' \in Histories
    BY <1>7, ArmLemma, Zenon
  <2>2. hw' = t1 /\ svc.op = "reset" /\ svc.pc = "s1"
    BY <1>7, Zenon DEF Store, At
  <2>3. Armed' /\ (ResetHeld => ResetHeld')
    BY <1>3, <2>2, Zenon DEF Armed, ResetHeld
  <2> QED
    BY <1>3, <1>6, <1>7, <2>1, <2>3, StoreStep, Zenon
<1>8. CASE Store("reset", "s2", "s3", t2) /\ Quiet
  <2>1. hist' \in Histories
    BY <1>8, QuietLemma, Zenon
  <2>2. hw' = t2 /\ svc.op = "reset" /\ svc.pc = "s2" /\ Go("s3")
    BY <1>8, Zenon DEF Store, At
  <2>3. svc'.pc = "s3"
    BY <2>2, GoLemma, Zenon
  <2>4. ResetHeld => Armed' /\ ResetHeld'
    BY <1>4, <2>2, <2>3, Zenon DEF Armed, ResetHeld
  <2> QED
    BY <1>4, <1>6, <1>8, <2>1, <2>4, StoreStep, Zenon
<1>9. CASE Store("reset", "s3", "done", t3) /\ Quiet
  <2>1. hist' \in Histories /\ hist'.armed = hist.armed
    BY <1>9, QuietLemma, Zenon
  <2>2. hw' = t3 /\ rt' = rt /\ Return(FALSE)
    BY <1>9, Zenon DEF Store
  <2>3. svc'.op = "none"
    BY <2>2, ReturnLemma, Zenon
  <2>4. (Armed => Armed') /\ ResetHeld'
    BY <1>5, <2>1, <2>2, <2>3, Zenon DEF Armed, ResetHeld
  <2> QED
    BY <1>5, <1>6, <1>9, <2>1, <2>4, StoreStep, Zenon
<1> QED
  BY <1>1, <1>7, <1>8, <1>9

-----------------------------------------------------------------------------
(* Waiting, homing and the zero offset.                                     *)

\* A step that leaves the flags of the stop and the enable alone.
LEMMA QuietStep ==
  ASSUME Typed, svc.pc # "idle", svc' \in Handlers, svc'.pc \notin {"s1", "s2"},
         svc.op # "none" /\ svc'.op = "none" => svc'.pc = "idle",
         hw' \in Shared, drv' \in Drive, disk' \in SUBSET Positions,
         UNCHANGED <<life, rt, tx, hist>>,
         hw'.stopReq = hw.stopReq, hw'.brkEn = hw.brkEn, hw.blocked => hw'.blocked,
         svc.op # "none" /\ ModeInv => ModeInv', life = "active" /\ FrameInv => FrameInv'
  PROVE  ServiceStep
<1>1. Typed'
  BY TypedNow, TypedNext, Zenon
<1>2. Armed => Armed'
  BY Zenon DEF Armed
<1>3. ResetHeld'
  BY Zenon DEF ResetHeld
<1>4. life = "active" => life # "inactive"
  OBVIOUS
<1> QED
  BY <1>1, <1>2, <1>3, <1>4, Zenon DEF ServiceStep, ArmInv

LEMMA FrameCalm ==
  ASSUME UNCHANGED <<life, disk>>, ZeroSame(hw, hw'), svc.pc # "c2", svc'.pc # "c2"
  PROVE  FrameInv => FrameInv'
BY Zenon DEF FrameInv, ZeroSame

LEMMA WaitForDriveStopStep ==
  ASSUME Typed, NEW op \in {"home", "drive_zero"},
         NEW pc \in {"h2", "h8", "d2"}, NEW next \in {"h3", "h9", "d3"},
         WaitForDriveStop(op, pc, next)
  PROVE  ServiceStep
<1> DEFINE t == [hw EXCEPT !.homing = FALSE, !.dzPend = FALSE]
<1>1. /\ svc.op = op /\ svc.pc = pc /\ UNCHANGED <<life, drv, disk, rt, tx, hist>>
      /\ \/ Go(next) /\ hw' = hw
         \/ Return(FALSE) /\ hw' = t
  BY Zenon DEF WaitForDriveStop, At
<1>2. hw \in Shared /\ drv \in Drive /\ disk \in SUBSET Positions
  BY TypedNow
<1>3. /\ t \in Shared /\ ZeroSame(hw, t) /\ t.stopReq = hw.stopReq /\ t.brkEn = hw.brkEn
      /\ t.blocked = hw.blocked
  BY <1>2, ZenonT(60) DEF Shared, ZeroSame
<1> HIDE DEF t
<1>4. /\ hw' \in Shared /\ ZeroSame(hw, hw') /\ hw'.stopReq = hw.stopReq
      /\ hw'.brkEn = hw.brkEn /\ hw'.blocked = hw.blocked
  BY <1>1, <1>2, <1>3, Zenon DEF ZeroSame
<1>5. /\ pc \notin {"idle", "c2"} /\ next \notin {"s1", "s2", "c2"} \cup CsvSteps
      /\ next \in {"s2", "s3", "h2", "h3", "h4", "h5", "h6", "h8", "h9", "h10", "h10a",
                   "h11", "c2", "c3", "f2", "d2", "d3"}
      /\ op # "none" /\ "idle" \notin {"s1", "s2", "c2"}
  BY DEF CsvSteps
<1>6. /\ svc' \in Handlers
      /\ \/ svc'.op = op /\ svc'.pc = next
         \/ svc'.op = "none" /\ svc'.pc = "idle" /\ svc'.ok = FALSE
  BY <1>1, <1>5, GoLemma, ReturnLemma, Zenon
<1>7. svc'.pc \notin {"s1", "s2"} /\ svc'.pc # "c2" /\ svc.pc # "c2" /\ svc.pc # "idle"
  BY <1>1, <1>5, <1>6, Zenon
<1>8. svc'.op = "none" => svc'.pc = "idle"
  BY <1>5, <1>6, Zenon
<1>9. ModeInv'
  BY <1>5, <1>6, Zenon DEF ModeInv
<1>10. FrameInv => FrameInv'
  BY <1>1, <1>4, <1>7, FrameCalm, Zenon
<1> QED
  BY <1>1, <1>2, <1>4, <1>6, <1>7, <1>8, <1>9, <1>10, QuietStep, Zenon

LEMMA StopForMaintenanceStep ==
  ASSUME Typed, NEW op \in {"home", "drive_zero"}, NEW next \in {"h2", "d2"},
         StopForMaintenance(op, "s1", next)
  PROVE  ServiceStep
<1> DEFINE t == [hw EXCEPT !.brkEn = FALSE, !.stopReq = TRUE, !.rvReq = FALSE, !.holdReq = FALSE]
<1>1. Store(op, "s1", next, t) /\ Arm(FALSE)
  BY Zenon DEF StopForMaintenance
<1>2. t \in Shared /\ ZeroSame(hw, t) /\ t.stopReq
  BY TypedNow, ZenonT(60) DEF Shared, ZeroSame
<1> HIDE DEF t
<1>3. op \in ServiceNames \ {"reset"} /\ next \in StorePcs \ {"h10"}
  BY DEF ServiceNames, StorePcs
<1> QED
  BY <1>1, <1>2, <1>3, StoppingStore, Zenon

LEMMA HandleSetDriveZeroStep ==
  ASSUME Typed, HandleSetDriveZero PROVE ServiceStep
<1> DEFINE g == hw.gen + 1
           t == [hw EXCEPT !.dzPend = FALSE, !.gen = g]
           u == [hw EXCEPT !.dzPend = FALSE]
<1>1. \/ StopForMaintenance("drive_zero", "s1", "d2")
      \/ WaitForDriveStop("drive_zero", "d2", "d3")
      \/ Store("drive_zero", "d3", "done", t) /\ Quiet
      \/ Store("drive_zero", "d3", "done", u) /\ Quiet
  BY Zenon DEF HandleSetDriveZero
<1>2. hw \in Shared
  BY TypedNow
<1>3. g \in Nat
  <2>1. hw.gen \in Nat
    BY <1>2, Zenon DEF Shared
  <2> QED
    BY <2>1
<1> HIDE DEF g
<1>4. /\ t \in Shared /\ ZeroSame(hw, t) /\ t.stopReq = hw.stopReq /\ t.brkEn = hw.brkEn
      /\ t.blocked = hw.blocked
  BY <1>2, <1>3, ZenonT(60) DEF Shared, ZeroSame
<1>5. /\ u \in Shared /\ ZeroSame(hw, u) /\ u.stopReq = hw.stopReq /\ u.brkEn = hw.brkEn
      /\ u.blocked = hw.blocked
  BY <1>2, ZenonT(60) DEF Shared, ZeroSame
<1> HIDE DEF t, u
<1>6. "drive_zero" \in ServiceNames \ {"reset"} /\ "done" \in StorePcs
  BY DEF ServiceNames, StorePcs
<1>7. CASE StopForMaintenance("drive_zero", "s1", "d2")
  BY <1>7, StopForMaintenanceStep, Zenon
<1>8. CASE WaitForDriveStop("drive_zero", "d2", "d3")
  BY <1>8, WaitForDriveStopStep, Zenon
<1>9. CASE Store("drive_zero", "d3", "done", t) /\ Quiet
  BY <1>4, <1>6, <1>9, QuietLemma, CalmStore, Zenon
<1>10. CASE Store("drive_zero", "d3", "done", u) /\ Quiet
  BY <1>5, <1>6, <1>10, QuietLemma, CalmStore, Zenon
<1> QED
  BY <1>1, <1>7, <1>8, <1>9, <1>10

\* The end of complete_pending_zero: the timer is done, homing goes on.
LEMMA AfterZeroLemma ==
  ASSUME Typed, AfterZero, svc.pc \in {"c3", "f2"}, drv' = drv
  PROVE  /\ svc' \in Handlers /\ svc'.pc \in {"idle", "h11"}
         /\ svc.op # "none" /\ svc'.op = "none" => svc'.pc = "idle"
         /\ svc.op # "none" /\ ModeInv => ModeInv'
<1>1. \/ Return(FALSE)
      \/ Go("h11")
  BY Zenon DEF AfterZero
<1>2. CASE Return(FALSE)
  <2>1. svc' \in Handlers /\ svc'.op = "none" /\ svc'.pc = "idle" /\ svc'.ok = FALSE
    BY <1>2, ReturnLemma, Zenon
  <2> QED
    BY <2>1, Zenon DEF ModeInv
<1>3. CASE Go("h11")
  <2>1. svc' \in Handlers /\ svc'.op = svc.op /\ svc'.pc = "h11"
    BY <1>3, GoLemma, Zenon
  <2>2. svc.pc \in CsvSteps
    BY Zenon DEF CsvSteps
  <2> QED
    BY <2>1, <2>2, Zenon DEF ModeInv
<1> QED
  BY <1>1, <1>2, <1>3

LEMMA RecordedLemma == ASSUME NEW u PROVE Recorded({u}) = u
<1>1. {u} # {} /\ (\A x \in {u} : x = u) /\ (\E x \in {u} : TRUE)
  OBVIOUS
<1>2. (CHOOSE x \in {u} : TRUE) \in {u}
  BY <1>1, Zenon
<1> QED
  BY <1>1, <1>2, Zenon DEF Recorded

LEMMA SaveAtomicStep ==
  ASSUME Typed, SaveAtomic PROVE ServiceStep
<1> DEFINE t == [hw EXCEPT !.clean = FALSE]
<1>1. /\ svc.pc = "c1" /\ UNCHANGED <<life, drv, rt, tx, hist>>
      /\ \/ disk' = {svc.units} /\ Go("c2") /\ hw' = hw
         \/ disk' = disk /\ Go("f2") /\ hw' = t
  BY Zenon DEF SaveAtomic
<1>2. /\ hw \in Shared /\ drv \in Drive /\ disk \in SUBSET Positions /\ svc.units \in Positions
  BY TypedNow, Zenon DEF Handlers
<1>3. /\ t \in Shared /\ ZeroSame(hw, t) /\ t.stopReq = hw.stopReq /\ t.brkEn = hw.brkEn
      /\ t.blocked = hw.blocked
  BY <1>2, ZenonT(60) DEF Shared, ZeroSame
<1> HIDE DEF t
<1>4. /\ hw' \in Shared /\ hw'.stopReq = hw.stopReq /\ hw'.brkEn = hw.brkEn
      /\ hw'.blocked = hw.blocked /\ disk' \in SUBSET Positions /\ drv' \in Drive
  BY <1>1, <1>2, <1>3, Zenon
<1>5. /\ svc' \in Handlers /\ svc'.op = svc.op /\ svc'.units = svc.units
      /\ \/ svc'.pc = "c2" /\ disk' = {svc.units} /\ hw' = hw
         \/ svc'.pc = "f2" /\ disk' = disk /\ hw' = t
  BY <1>1, GoLemma, Zenon
<1>6. svc.pc # "idle" /\ svc'.pc \notin {"s1", "s2"} /\ svc.pc # "c2"
  BY <1>1, <1>5
<1>7. svc.op # "none" /\ ModeInv => ModeInv'
  <2>1. svc.pc \in CsvSteps
    BY <1>1, Zenon DEF CsvSteps
  <2> QED
    BY <1>1, <1>5, <2>1, Zenon DEF ModeInv
<1>8. life = "active" /\ FrameInv => FrameInv'
  <2>1. CASE svc'.pc = "c2" /\ disk' = {svc.units} /\ hw' = hw
    <3>1. life = "active" => life' # "inactive"
      BY <1>1
    <3> QED
      BY <1>5, <2>1, <3>1, Zenon DEF FrameInv
  <2>2. CASE svc'.pc = "f2" /\ disk' = disk /\ hw' = t
    BY <1>1, <1>3, <1>6, <2>2, FrameCalm, Zenon
  <2> QED
    BY <1>5, <2>1, <2>2
<1> QED
  BY <1>1, <1>4, <1>5, <1>6, <1>7, <1>8, QuietStep, Zenon

LEMMA ZeroSavedStep ==
  ASSUME Typed, ZeroSaved PROVE ServiceStep
<1> DEFINE t == [hw EXCEPT !.zAtomic = svc.units, !.zApply = TRUE]
           u == [hw EXCEPT !.zPend = FALSE, !.zObs = FALSE, !.clean = TRUE]
<1>1. /\ UNCHANGED <<life, drv, disk, rt, tx, hist>>
      /\ \/ svc.pc = "c2" /\ Go("c3") /\ hw' = t
         \/ svc.pc = "c3" /\ AfterZero /\ hw' = u
  BY Zenon DEF ZeroSaved
<1>2. hw \in Shared /\ drv \in Drive /\ disk \in SUBSET Positions /\ svc.units \in Int
  <2>1. svc.units \in Positions
    BY TypedNow, Zenon DEF Handlers
  <2>2. svc.units \in Int
    BY <2>1, HardwareAssumption DEF HardwareAssumption, Positions, PositionMin
  <2> QED
    BY <2>2, TypedNow
<1>3. /\ t \in Shared /\ t.stopReq = hw.stopReq /\ t.brkEn = hw.brkEn /\ t.blocked = hw.blocked
      /\ t.zAtomic = svc.units /\ t.zApply
  BY <1>2, ZenonT(60) DEF Shared
<1>4. /\ u \in Shared /\ ZeroSame(hw, u) /\ u.stopReq = hw.stopReq /\ u.brkEn = hw.brkEn
      /\ u.blocked = hw.blocked
  BY <1>2, ZenonT(60) DEF Shared, ZeroSame
<1> HIDE DEF t, u
<1>5. CASE svc.pc = "c2" /\ Go("c3") /\ hw' = t
  <2>1. svc' \in Handlers /\ svc'.op = svc.op /\ svc'.pc = "c3"
    BY <1>5, GoLemma, Zenon
  <2>2. svc.pc # "idle" /\ svc'.pc \notin {"s1", "s2"} /\ svc'.pc # "c2"
    BY <1>5, <2>1
  <2>3. svc.op # "none" /\ ModeInv => ModeInv'
    <3>1. svc.pc \in CsvSteps
      BY <1>5, Zenon DEF CsvSteps
    <3> QED
      BY <1>1, <2>1, <3>1, Zenon DEF ModeInv
  <2>4. life = "active" /\ FrameInv => FrameInv'
    <3>1. life = "active" => life' # "inactive"
      BY <1>1
    <3>2. FrameInv => Recorded(disk) = svc.units
      BY <1>5, RecordedLemma, Zenon DEF FrameInv
    <3>3. FrameInv => hw'.zAtomic = Recorded(disk')
      BY <1>1, <1>3, <1>5, <3>2, Zenon
    <3> QED
      BY <1>1, <1>3, <1>5, <2>2, <3>1, <3>3, Zenon DEF FrameInv
  <2> QED
    BY <1>1, <1>2, <1>3, <1>5, <2>1, <2>2, <2>3, <2>4, QuietStep, Zenon
<1>6. CASE svc.pc = "c3" /\ AfterZero /\ hw' = u
  <2>1. /\ svc' \in Handlers /\ svc'.pc \in {"idle", "h11"}
        /\ svc.op # "none" /\ svc'.op = "none" => svc'.pc = "idle"
        /\ svc.op # "none" /\ ModeInv => ModeInv'
    BY <1>1, <1>6, AfterZeroLemma, Zenon
  <2>2. svc.pc # "idle" /\ svc'.pc \notin {"s1", "s2"} /\ svc'.pc # "c2" /\ svc.pc # "c2"
    BY <1>6, <2>1
  <2>3. FrameInv => FrameInv'
    BY <1>1, <1>4, <1>6, <2>2, FrameCalm, Zenon
  <2> QED
    BY <1>1, <1>2, <1>4, <1>6, <2>1, <2>2, <2>3, QuietStep, Zenon
<1> QED
  BY <1>1, <1>5, <1>6

LEMMA ZeroNotSavedStep ==
  ASSUME Typed, ZeroNotSaved PROVE ServiceStep
<1> DEFINE t == [hw EXCEPT !.blocked = TRUE, !.zPend = FALSE, !.zObs = FALSE]
<1>1. svc.pc = "f2" /\ AfterZero /\ hw' = t /\ UNCHANGED <<life, drv, disk, rt, tx, hist>>
  BY Zenon DEF ZeroNotSaved
<1>2. hw \in Shared /\ drv \in Drive /\ disk \in SUBSET Positions
  BY TypedNow
<1>3. /\ t \in Shared /\ ZeroSame(hw, t) /\ t.stopReq = hw.stopReq /\ t.brkEn = hw.brkEn
      /\ t.blocked
  BY <1>2, ZenonT(60) DEF Shared, ZeroSame
<1> HIDE DEF t
<1>4. /\ svc' \in Handlers /\ svc'.pc \in {"idle", "h11"}
      /\ svc.op # "none" /\ svc'.op = "none" => svc'.pc = "idle"
      /\ svc.op # "none" /\ ModeInv => ModeInv'
  BY <1>1, AfterZeroLemma, Zenon
<1>5. svc.pc # "idle" /\ svc'.pc \notin {"s1", "s2"} /\ svc'.pc # "c2" /\ svc.pc # "c2"
  BY <1>1, <1>4
<1>6. FrameInv => FrameInv'
  BY <1>1, <1>3, <1>5, FrameCalm, Zenon
<1> QED
  BY <1>1, <1>2, <1>3, <1>4, <1>5, <1>6, QuietStep, Zenon

\* 6060h is written: the drive is in mode m.
LEMMA ModeWritten ==
  ASSUME Typed, NEW m \in {6, 9}
  PROVE  LET d == [drv EXCEPT !.sample.mode = m, !.sample.homed = "no"]
         IN  d \in Drive /\ d.sample.mode = m
<1> DEFINE s == [drv.sample EXCEPT !.mode = m, !.homed = "no"]
           d == [drv EXCEPT !.sample = s]
           e == [drv EXCEPT !.sample.mode = m, !.sample.homed = "no"]
<1>1. drv \in Drive /\ drv.sample \in Samples
  BY TypedNow, Zenon DEF Drive
<1>2. s \in Samples /\ s.mode = m
  BY <1>1, ZenonT(60) DEF Samples
<1>3. e = d
  BY <1>1, ZenonT(60) DEF Drive, Samples
<1> HIDE DEF s
<1>4. d \in Drive /\ d.sample = s
  BY <1>1, <1>2, Zenon DEF Drive
<1> HIDE DEF d, e
<1>5. e \in Drive /\ e.sample.mode = m
  BY <1>2, <1>3, <1>4, Zenon
<1> QED
  BY <1>5, Zenon DEF e

LEMMA WriteHomingSdosStep ==
  ASSUME Typed, WriteHomingSdos PROVE ServiceStep
<1> DEFINE d == [drv EXCEPT !.sample.mode = 6, !.sample.homed = "no"]
<1>1. /\ svc.op = "home" /\ svc.pc = "h3" /\ UNCHANGED <<life, disk, hw, rt, tx, hist>>
      /\ \/ Go("h4") /\ drv' = d
         \/ Return(FALSE) /\ drv' = drv
  BY Zenon DEF WriteHomingSdos, At
<1>2. hw \in Shared /\ drv \in Drive /\ disk \in SUBSET Positions /\ d \in Drive
  BY TypedNow, ModeWritten, Zenon
<1> HIDE DEF d
<1>3. /\ svc' \in Handlers
      /\ \/ svc'.op = "home" /\ svc'.pc = "h4"
         \/ svc'.op = "none" /\ svc'.pc = "idle" /\ svc'.ok = FALSE
  BY <1>1, GoLemma, ReturnLemma, Zenon
<1>4. /\ svc.pc # "idle" /\ svc'.pc \notin {"s1", "s2"} /\ svc'.pc # "c2" /\ svc.pc # "c2"
      /\ "h4" \notin CsvSteps
  BY <1>1, <1>3 DEF CsvSteps
<1>5. ModeInv'
  BY <1>3, <1>4, Zenon DEF ModeInv
<1>6. FrameInv => FrameInv'
  BY <1>1, <1>4, FrameCalm, Zenon DEF ZeroSame
<1>7. drv' \in Drive /\ (svc'.op = "none" => svc'.pc = "idle")
  BY <1>1, <1>2, <1>3, Zenon
<1> QED
  BY <1>1, <1>2, <1>3, <1>4, <1>5, <1>6, <1>7, QuietStep, Zenon

LEMMA WaitForHomingResultStep ==
  ASSUME Typed, WaitForHomingResult PROVE ServiceStep
<1>1. /\ svc.op = "home" /\ svc.pc = "h6" /\ UNCHANGED <<life, drv, disk, hw, rt, tx, hist>>
      /\ \/ svc' = [svc EXCEPT !.pc = "h7", !.ok = TRUE]
         \/ svc' = [svc EXCEPT !.pc = "h7", !.ok = FALSE]
  BY Zenon DEF WaitForHomingResult, At
<1>2. hw \in Shared /\ drv \in Drive /\ disk \in SUBSET Positions /\ svc \in Handlers
  BY TypedNow
<1>3. svc' \in Handlers /\ svc'.op = "home" /\ svc'.pc = "h7"
  BY <1>1, <1>2, ZenonT(60) DEF Handlers
<1>4. /\ svc.pc # "idle" /\ svc'.pc \notin {"s1", "s2"} /\ svc'.pc # "c2" /\ svc.pc # "c2"
      /\ "h7" \notin CsvSteps /\ svc'.op # "none"
  BY <1>1, <1>3 DEF CsvSteps
<1>5. ModeInv'
  BY <1>3, <1>4, Zenon DEF ModeInv
<1>6. FrameInv => FrameInv'
  BY <1>1, <1>4, FrameCalm, Zenon DEF ZeroSame
<1> QED
  BY <1>1, <1>2, <1>3, <1>4, <1>5, <1>6, QuietStep, Zenon

\* The handler goes on only when 6060h = 9 was written.
LEMMA RestoreCsvStep ==
  ASSUME Typed, RestoreCsv PROVE ServiceStep
<1> DEFINE d == [drv EXCEPT !.sample.mode = 9, !.sample.homed = "no"]
<1>1. /\ svc.op = "home" /\ svc.pc = "h9" /\ UNCHANGED <<life, disk, rt, tx, hist>>
      /\ \E written \in {TRUE, FALSE} :
           /\ drv' = IF written THEN d ELSE drv
           /\ hw' = [hw EXCEPT !.homing = FALSE, !.hFailed = ~(svc.ok /\ written)]
           /\ IF svc.ok /\ written THEN Go("h10a") ELSE Return(FALSE)
  BY Zenon DEF RestoreCsv, At
<1>2. PICK written \in {TRUE, FALSE} :
           /\ drv' = IF written THEN d ELSE drv
           /\ hw' = [hw EXCEPT !.homing = FALSE, !.hFailed = ~(svc.ok /\ written)]
           /\ IF svc.ok /\ written THEN Go("h10a") ELSE Return(FALSE)
  BY <1>1
<1> DEFINE f == ~(svc.ok /\ written)
           t == [hw EXCEPT !.homing = FALSE, !.hFailed = f]
<1>3. /\ hw \in Shared /\ drv \in Drive /\ disk \in SUBSET Positions
      /\ d \in Drive /\ d.sample.mode = 9 /\ f \in BOOLEAN
  BY TypedNow, ModeWritten, Zenon
<1>4. hw' = t
  BY <1>2
<1> HIDE DEF d, f
<1>5. /\ t \in Shared /\ ZeroSame(hw, t) /\ t.stopReq = hw.stopReq /\ t.brkEn = hw.brkEn
      /\ t.blocked = hw.blocked
  BY <1>3, ZenonT(60) DEF Shared, ZeroSame
<1> HIDE DEF t
<1>6. \/ Go("h10a") /\ drv' = d
      \/ Return(FALSE)
  BY <1>2, Zenon
<1>7. /\ svc' \in Handlers
      /\ \/ svc'.op = "home" /\ svc'.pc = "h10a" /\ drv' = d
         \/ svc'.op = "none" /\ svc'.pc = "idle" /\ svc'.ok = FALSE
  BY <1>1, <1>6, GoLemma, ReturnLemma, Zenon
<1>8. svc.pc # "idle" /\ svc'.pc \notin {"s1", "s2"} /\ svc'.pc # "c2" /\ svc.pc # "c2"
  BY <1>1, <1>7
<1>9. ModeInv'
  BY <1>3, <1>7, Zenon DEF ModeInv
<1>10. FrameInv => FrameInv'
  BY <1>1, <1>4, <1>5, <1>8, FrameCalm, Zenon
<1>11. drv' \in Drive /\ (svc'.op = "none" => svc'.pc = "idle")
  BY <1>2, <1>3, <1>7, Zenon
<1> QED
  BY <1>1, <1>3, <1>4, <1>5, <1>7, <1>8, <1>9, <1>10, <1>11, QuietStep, Zenon

LEMMA WaitForHostZeroStep ==
  ASSUME Typed, WaitForHostZero PROVE ServiceStep
<1> DEFINE x == [svc EXCEPT !.pc = "c1", !.units = hw.rx.pos]
<1>1. /\ svc.op = "home" /\ svc.pc \in {"h10", "h11"}
      /\ UNCHANGED <<life, drv, disk, hw, rt, tx, hist>>
      /\ \/ svc' = x
         \/ Return(FALSE)
         \/ Return(hw.clean)
  BY Zenon DEF WaitForHostZero
<1>2. /\ hw \in Shared /\ drv \in Drive /\ disk \in SUBSET Positions /\ svc \in Handlers
      /\ hw.clean \in BOOLEAN /\ hw.rx \in Samples
  BY TypedNow, Zenon DEF Shared
<1>3. hw.rx.pos \in Positions
  BY <1>2, Zenon DEF Samples
<1>4. x \in Handlers /\ x.op = svc.op /\ x.pc = "c1"
  BY <1>2, <1>3, ZenonT(60) DEF Handlers
<1> HIDE DEF x
<1>5. /\ svc' \in Handlers
      /\ \/ svc'.op = "home" /\ svc'.pc = "c1"
         \/ svc'.op = "none" /\ svc'.pc = "idle"
  BY <1>1, <1>2, <1>4, ReturnLemma, Zenon
<1>6. svc.pc # "idle" /\ svc'.pc \notin {"s1", "s2"} /\ svc'.pc # "c2" /\ svc.pc # "c2"
  BY <1>1, <1>5
<1>7. ModeInv => ModeInv'
  <2>1. svc.pc \in CsvSteps
    BY <1>1, Zenon DEF CsvSteps
  <2> QED
    BY <1>1, <2>1, Zenon DEF ModeInv
<1>8. FrameInv => FrameInv'
  BY <1>1, <1>6, FrameCalm, Zenon DEF ZeroSame
<1>9. svc'.op = "none" => svc'.pc = "idle"
  BY <1>5, Zenon
<1> QED
  BY <1>1, <1>2, <1>5, <1>6, <1>7, <1>8, <1>9, QuietStep, Zenon

LEMMA HandleHomeStep ==
  ASSUME Typed, HandleHome PROVE ServiceStep
<1> DEFINE t4 == [hw EXCEPT !.hDone = FALSE, !.hFailed = FALSE, !.homing = TRUE]
           t5 == [hw EXCEPT !.disLatch = FALSE, !.stopReq = FALSE, !.brkEn = TRUE]
           t7 == [hw EXCEPT !.brkEn = FALSE, !.stopReq = TRUE]
           t10 == [hw EXCEPT !.zPend = TRUE, !.zObs = FALSE]
<1>1. \/ StopForMaintenance("home", "s1", "h2")
      \/ WaitForDriveStop("home", "h2", "h3")
      \/ WriteHomingSdos
      \/ Store("home", "h4", "h5", t4) /\ Quiet
      \/ Store("home", "h5", "h6", t5) /\ Arm(TRUE)
      \/ WaitForHomingResult
      \/ Store("home", "h7", "h8", t7) /\ Arm(FALSE)
      \/ WaitForDriveStop("home", "h8", "h9")
      \/ RestoreCsv
      \/ Store("home", "h10a", "h10", t10) /\ hist' = [hist EXCEPT !.obs = FALSE]
      \/ WaitForHostZero
  BY Zenon DEF HandleHome
<1>2. hw \in Shared /\ hist \in Histories
  BY TypedNow
<1>3. /\ t4 \in Shared /\ ZeroSame(hw, t4) /\ t4.stopReq = hw.stopReq /\ t4.brkEn = hw.brkEn
      /\ t4.blocked = hw.blocked
  BY <1>2, ZenonT(60) DEF Shared, ZeroSame
<1>4. t5 \in Shared /\ ZeroSame(hw, t5)
  BY <1>2, ZenonT(60) DEF Shared, ZeroSame
<1>5. t7 \in Shared /\ ZeroSame(hw, t7) /\ t7.stopReq
  BY <1>2, ZenonT(60) DEF Shared, ZeroSame
<1>6. /\ t10 \in Shared /\ ZeroSame(hw, t10) /\ t10.stopReq = hw.stopReq
      /\ t10.brkEn = hw.brkEn /\ t10.blocked = hw.blocked
  BY <1>2, ZenonT(60) DEF Shared, ZeroSame
<1> HIDE DEF t4, t5, t7, t10
<1>7. /\ "home" \in ServiceNames \ {"reset"}
      /\ {"h5", "h6", "h8"} \subseteq StorePcs \ {"h10"} /\ "h10" \in StorePcs
  BY DEF ServiceNames, StorePcs
<1>8. CASE \/ StopForMaintenance("home", "s1", "h2")
           \/ WaitForDriveStop("home", "h2", "h3")
           \/ WaitForDriveStop("home", "h8", "h9")
  BY <1>8, StopForMaintenanceStep, WaitForDriveStopStep, Zenon
<1>9. CASE WriteHomingSdos \/ WaitForHomingResult \/ RestoreCsv \/ WaitForHostZero
  BY <1>9, WriteHomingSdosStep, WaitForHomingResultStep, RestoreCsvStep, WaitForHostZeroStep
<1>10. CASE Store("home", "h4", "h5", t4) /\ Quiet
  BY <1>3, <1>7, <1>10, QuietLemma, CalmStore, Zenon
<1>11. CASE Store("home", "h5", "h6", t5) /\ Arm(TRUE)
  BY <1>4, <1>7, <1>11, ArmingStore, Zenon
<1>12. CASE Store("home", "h7", "h8", t7) /\ Arm(FALSE)
  BY <1>5, <1>7, <1>12, StoppingStore, Zenon
<1>13. CASE Store("home", "h10a", "h10", t10) /\ hist' = [hist EXCEPT !.obs = FALSE]
  <2>1. hist' \in Histories /\ hist'.armed = hist.armed
    BY <1>2, <1>13, Zenon DEF Histories
  <2> QED
    BY <1>6, <1>7, <1>13, <2>1, CalmStore, Zenon
<1> QED
  BY <1>1, <1>8, <1>9, <1>10, <1>11, <1>12, <1>13

LEMMA ServiceLemma == ASSUME Typed, Service PROVE ServiceStep
BY HandleBrakeCommandStep, HandleResetVelocityStep, HandleResetHoldStep, HandleResetZeroStep,
   HandleEstopStep, HandleSafetyResetStep, HandleHomeStep, HandleSetDriveZeroStep,
   SaveAtomicStep, ZeroSavedStep, ZeroNotSavedStep, Zenon DEF Service

-----------------------------------------------------------------------------
(* Calls, lifecycle and bus.                                                *)

LEMMA IdleLemma == Idle \in Handlers /\ Idle.op = "none" /\ Idle.pc = "idle" /\ Idle.ok = FALSE
BY Zeros, Zenon DEF Idle, Handlers

LEMMA CallStep ==
  ASSUME Typed, NEW op \in Services, Call(op)
  PROVE  /\ Typed' /\ UNCHANGED <<life, drv, disk, rt>> /\ life \in {"active", "stopping"}
         /\ SameFlags(hw, hw') /\ hist'.armed = hist.armed
         /\ svc.op = "none" /\ op \in ServiceNames
         /\ \/ svc'.op = "none" /\ svc'.pc = "idle" /\ ~svc'.ok
            \/ svc'.op = op /\ svc'.pc = "s1" /\ (op = "reset" => hw.estop \/ hw.blocked)
<1> DEFINE z == hw.dzPend \/ op = "drive_zero"
           n == hist.calls + 1
           t == [hw EXCEPT !.dzPend = z]
<1>1. /\ life \in {"active", "stopping"} /\ svc.op = "none" /\ hist.calls < MaxCalls
      /\ \/ Accepts(op) /\ svc' = [Idle EXCEPT !.op = op, !.pc = "s1"]
         \/ svc' = Idle
      /\ hw' = t /\ hist' = [hist EXCEPT !.calls = n]
      /\ UNCHANGED <<life, drv, disk, rt, tx>>
  BY Zenon DEF Call, Serving
<1>2. op \in ServiceNames
  BY HardwareAssumption, Zenon DEF HardwareAssumption
<1>3. /\ svc' \in Handlers
      /\ \/ svc'.op = "none" /\ svc'.pc = "idle" /\ ~svc'.ok
         \/ svc'.op = op /\ svc'.pc = "s1" /\ Accepts(op)
  <2>1. CASE svc' = Idle
    BY <2>1, IdleLemma, Zenon
  <2>2. CASE Accepts(op) /\ svc' = [Idle EXCEPT !.op = op, !.pc = "s1"]
    BY <2>2, <1>2, IdleLemma, ZenonT(60) DEF Handlers
  <2> QED
    BY <1>1, <2>1, <2>2, Zenon
<1>4. hw \in Shared /\ hist \in Histories /\ z \in BOOLEAN
  BY TypedNow, Zenon
<1>5. n \in 0 .. MaxCalls
  <2>1. hist.calls \in 0 .. MaxCalls
    BY <1>4, Zenon DEF Histories
  <2> QED
    BY <1>1, <2>1, HardwareAssumption DEF HardwareAssumption
<1> HIDE DEF z, n
<1>6. t \in Shared /\ SameFlags(hw, t)
  BY <1>4, ZenonT(60) DEF Shared, SameFlags
<1>7. hist' \in Histories /\ hist'.armed = hist.armed
  BY <1>1, <1>4, <1>5, Zenon DEF Histories
<1> HIDE DEF t
<1>8. op = "reset" /\ Accepts(op) => hw.estop \/ hw.blocked
  <2>1. op = "reset" => (Accepts(op) <=> AcceptsReset)
    BY DEF Accepts
  <2> QED
    BY <2>1, Zenon DEF AcceptsReset
<1>9. Typed'
  BY <1>1, <1>3, <1>6, <1>7, TypedNow, TypedNext, Zenon
<1> QED
  BY <1>1, <1>2, <1>3, <1>6, <1>7, <1>8, <1>9, Zenon

LEMMA StatusTimerStep ==
  ASSUME Typed, StatusTimer
  PROVE  /\ Typed' /\ UNCHANGED <<life, drv, disk, hw, rt, hist>> /\ life = "active"
         /\ svc.op = "none" /\ svc'.op = "timer" /\ svc'.pc = "c1"
<1>1. /\ life = "active" /\ svc.op = "none"
      /\ svc' = [Idle EXCEPT !.op = "timer", !.pc = "c1", !.units = hw.rx.pos]
      /\ UNCHANGED <<life, drv, disk, hw, rt, tx, hist>>
  BY Zenon DEF StatusTimer, CompleteReady
<1>2. hw.rx \in Samples
  BY TypedNow, Zenon DEF Shared
<1>3. hw.rx.pos \in Positions
  BY <1>2, Zenon DEF Samples
<1>4. svc' \in Handlers /\ svc'.op = "timer" /\ svc'.pc = "c1"
  BY <1>1, <1>3, IdleLemma, ZenonT(60) DEF Handlers
<1>5. Typed'
  BY <1>1, <1>4, TypedNow, TypedNext, Zenon
<1> QED
  BY <1>1, <1>4, <1>5, Zenon

LEMMA NewLemma ==
  /\ DriveAtRest \in Samples /\ SafeFrame \in Frames
  /\ NewShared \in Shared /\ ~NewShared.brkEn /\ ~NewShared.zApply /\ NewShared.zoff = 0
  /\ NewLoop \in Loop /\ NewLoop.pc = "read" /\ NewLoop.prevPower = FALSE
<1>1. DriveAtRest \in Samples /\ DriveAtRest.mode = 9
  BY Zeros, Zenon DEF DriveAtRest, Samples, DriveStates
<1>2. SafeFrame \in Frames
  BY Zenon DEF SafeFrame, Frames, Words, Velocities
<1>3. NewShared \in Shared
  BY <1>1, Zeros, ZenonT(60) DEF NewShared, Shared
<1>4. ~NewShared.brkEn /\ ~NewShared.zApply /\ NewShared.zoff = 0
  BY ZenonT(60) DEF NewShared
<1>5. NewLoop \in Loop /\ NewLoop.pc = "read" /\ NewLoop.prevPower = FALSE
  BY <1>2, Zeros, ZenonT(60) DEF NewLoop, Loop
<1> QED
  BY <1>1, <1>2, <1>3, <1>4, <1>5, Zenon

LEMMA ConfigureStep ==
  ASSUME Typed, Configure
  PROVE  /\ Typed' /\ UNCHANGED <<disk, svc, hist>> /\ life' = "inactive" /\ svc.op = "none"
         /\ drv'.sample.mode = 9 /\ rt'.pc = "read"
         /\ hw'.zoff = Recorded(disk) /\ ~hw'.zApply /\ ~hw'.brkEn
<1> DEFINE o == Recorded(disk)
           d == [drv EXCEPT !.sample.mode = 9, !.sample.homed = "no"]
           t == [NewShared EXCEPT !.estop = hw.estop, !.unlocked = hw.unlocked, !.fresh = hw.fresh,
                                  !.att = hw.att, !.back = hw.back, !.gen = hw.gen,
                                  !.zAtomic = o, !.zoff = o]
<1>1. /\ hw' = t /\ drv' = d /\ rt' = NewLoop /\ life' = "inactive" /\ svc.op = "none"
      /\ UNCHANGED <<disk, tx, svc, hist>>
  BY Zenon DEF Configure
<1>2. hw \in Shared /\ disk \in SUBSET Positions
  BY TypedNow
<1>3. /\ hw.estop \in BOOLEAN /\ hw.unlocked \in BOOLEAN /\ hw.fresh \in BOOLEAN
      /\ hw.att \in Nat /\ hw.back \in Nat /\ hw.gen \in Nat
  BY <1>2, Zenon DEF Shared
<1>4. o \in Int
  <2>1. o = 0 \/ o \in disk
    BY Zenon DEF Recorded
  <2>2. o \in Positions
    BY <1>2, <2>1, Zeros, Zenon
  <2> HIDE DEF o
  <2> QED
    BY <2>2, HardwareAssumption DEF HardwareAssumption, Positions, PositionMin
<1>5. d \in Drive /\ d.sample.mode = 9
  BY ModeWritten, Zenon
<1> HIDE DEF o, d
<1>6. t \in Shared
  BY <1>3, <1>4, NewLemma, ZenonT(60) DEF Shared
<1>7. t.zoff = o /\ ~t.zApply /\ ~t.brkEn
  BY NewLemma, ZenonT(60) DEF Shared
<1> HIDE DEF t
<1>8. life' \in Lives
  BY <1>1, Zenon DEF Lives
<1>9. Typed'
  BY <1>1, <1>5, <1>6, <1>8, NewLemma, TypedNow, TypedNext, Zenon
<1> QED
  BY <1>1, <1>5, <1>7, <1>9, NewLemma, Zenon DEF o

LEMMA ActivateStep ==
  ASSUME Typed, Activate
  PROVE  /\ Typed' /\ UNCHANGED <<disk, svc>> /\ life = "inactive" /\ life' = "active"
         /\ svc.op = "none" /\ drv'.sample.mode = 9
         /\ rt'.pc = "read" /\ rt'.prevPower = FALSE
         /\ hw'.zoff = hw.zoff /\ ~hw'.zApply /\ hw'.brkEn = hw.brkEn
<1> DEFINE x == [drv.sample EXCEPT !.state = "ready", !.err = FALSE]
           S == {x} \cup {y \in {drv.sample} : y.state = "fault"}
           ro == [NewLoop EXCEPT !.guard = TRUE]
           a(s) == [hw EXCEPT !.disLatch = FALSE, !.stopReq = FALSE, !.unlocked = FALSE,
                              !.phase = "disabled", !.power = FALSE, !.fresh = TRUE, !.tf = FALSE,
                              !.clean = TRUE, !.zObs = FALSE, !.zApply = FALSE, !.att = 0,
                              !.back = 0, !.mism = 0, !.viol = FALSE, !.rvReq = FALSE,
                              !.rvStop = FALSE, !.holdReq = FALSE, !.homing = FALSE,
                              !.hDone = FALSE, !.hFailed = FALSE, !.dzPend = FALSE,
                              !.contReset = FALSE, !.rx = s]
<1>1. /\ \E s \in S : drv' = [drv EXCEPT !.sample = s] /\ hw' = a(s)
      /\ life = "inactive" /\ svc.op = "none" /\ drv.sample.mode = 9
      /\ rt' = ro /\ tx' = SafeFrame /\ life' = "active"
      /\ hist' = [hist EXCEPT !.armed = FALSE]
      /\ UNCHANGED <<disk, svc>>
  BY Zenon DEF Activate
<1>2. hw \in Shared /\ drv \in Drive /\ drv.sample \in Samples /\ hist \in Histories
  BY TypedNow, Zenon DEF Drive
<1>3. x \in Samples /\ x.mode = drv.sample.mode
  BY <1>2, ZenonT(60) DEF Samples, DriveStates
<1>4. PICK s \in S : drv' = [drv EXCEPT !.sample = s] /\ hw' = a(s)
  BY <1>1
<1>5. s \in Samples /\ s.mode = 9
  BY <1>1, <1>2, <1>3, Zenon
<1> HIDE DEF x, S
<1>6. drv' \in Drive /\ drv'.sample.mode = 9
  BY <1>2, <1>4, <1>5, Zenon DEF Drive
<1>7. a(s) \in Shared
  <2> DEFINE b == [hw EXCEPT !.disLatch = FALSE, !.stopReq = FALSE, !.unlocked = FALSE,
                             !.phase = "disabled", !.power = FALSE, !.fresh = TRUE, !.tf = FALSE,
                             !.clean = TRUE]
             c == [b EXCEPT !.zObs = FALSE, !.zApply = FALSE, !.att = 0,
                            !.back = 0, !.mism = 0, !.viol = FALSE, !.rvReq = FALSE,
                            !.rvStop = FALSE]
             e == [c EXCEPT !.holdReq = FALSE, !.homing = FALSE,
                            !.hDone = FALSE, !.hFailed = FALSE, !.dzPend = FALSE,
                            !.contReset = FALSE, !.rx = s]
  <2>1. a(s) = e
    BY Zenon
  <2>2. b \in Shared
    BY <1>2, ZenonT(200) DEF Shared
  <2> HIDE DEF b
  <2>3. c \in Shared
    BY <2>2, Zeros, ZenonT(60) DEF Shared
  <2> HIDE DEF c
  <2>4. e \in Shared
    BY <1>5, <2>3, ZenonT(200) DEF Shared
  <2> HIDE DEF e, a
  <2> QED
    BY <2>1, <2>4
<1>8. a(s).zoff = hw.zoff /\ ~a(s).zApply /\ a(s).brkEn = hw.brkEn
  BY <1>2, ZenonT(120) DEF Shared
<1> HIDE DEF a
<1>9. ro \in Loop /\ ro.pc = "read" /\ ro.prevPower = FALSE
  BY NewLemma, ZenonT(60) DEF Loop
<1> HIDE DEF ro
<1>10. hist' \in Histories
  BY <1>1, <1>2, Zenon DEF Histories
<1>11. life' \in Lives
  BY <1>1, Zenon DEF Lives
<1>12. Typed'
  BY <1>1, <1>4, <1>6, <1>7, <1>9, <1>10, <1>11, NewLemma, TypedNow, TypedNext, Zenon
<1> QED
  BY <1>1, <1>4, <1>6, <1>8, <1>9, <1>12, Zenon

LEMMA DeactivateStep ==
  ASSUME Typed, Deactivate
  PROVE  /\ Typed' /\ UNCHANGED <<disk, rt, svc>> /\ "deactivate" \in Cycling
         /\ drv'.sample.mode = drv.sample.mode
<1> DEFINE b == [hw EXCEPT !.brkEn = FALSE, !.disLatch = TRUE, !.power = FALSE, !.stopReq = TRUE,
                           !.rvReq = FALSE, !.rvStop = FALSE, !.holdReq = FALSE, !.homing = FALSE]
           t == [b EXCEPT !.hDone = FALSE, !.hFailed = FALSE, !.dzPend = FALSE,
                          !.phase = "disabled", !.mism = 0, !.viol = FALSE, !.unlocked = FALSE]
           q == IF drv.sample.state = "fault" THEN drv.sample.state ELSE "ready"
           s == [drv.sample EXCEPT !.state = q, !.speed = "still"]
           n == hist.cycles + 1
<1>1. /\ "deactivate" \in Cycling /\ life' = "stopping" /\ hw' = t /\ tx' = SafeFrame
      /\ hist' = [hist EXCEPT !.cycles = n] /\ UNCHANGED <<disk, rt, svc>>
      /\ drv' = [drv EXCEPT !.sample.state = IF @ = "fault" THEN @ ELSE "ready",
                            !.sample.speed = "still"]
  BY Zenon DEF Deactivate
<1>2. hw \in Shared /\ drv \in Drive /\ drv.sample \in Samples /\ hist \in Histories
  BY TypedNow, Zenon DEF Drive
<1>3. b \in Shared
  BY <1>2, ZenonT(200) DEF Shared
<1> HIDE DEF b
<1>4. t \in Shared
  BY <1>3, Zeros, ZenonT(60) DEF Shared
<1>5. drv' = [drv EXCEPT !.sample = s]
  BY <1>1, <1>2, ZenonT(60) DEF Drive, Samples
<1>6. q \in DriveStates
  BY DEF DriveStates
<1> HIDE DEF q, t
<1>7. s \in Samples /\ s.mode = drv.sample.mode
  BY <1>2, <1>6, ZenonT(60) DEF Samples
<1> HIDE DEF s
<1>8. drv' \in Drive /\ drv'.sample.mode = drv.sample.mode
  BY <1>2, <1>5, <1>7, Zenon DEF Drive
<1>9. hist' \in Histories
  <2>1. hist.cycles \in Nat
    BY <1>2, Zenon DEF Histories
  <2>2. n \in Nat
    BY <2>1
  <2> HIDE DEF n
  <2> QED
    BY <1>1, <1>2, <2>2, Zenon DEF Histories
<1>10. life' \in Lives
  BY <1>1, Zenon DEF Lives
<1>11. Typed'
  BY <1>1, <1>4, <1>8, <1>9, <1>10, NewLemma, TypedNow, TypedNext, Zenon
<1> QED
  BY <1>1, <1>8, <1>11, Zenon

LEMMA CrashStep ==
  ASSUME Typed, Crash
  PROVE  /\ Typed' /\ disk' = disk /\ life' = "unconfigured"
         /\ svc'.op = "none" /\ svc'.pc = "idle" /\ svc'.ok = FALSE
         /\ rt'.pc = "read" /\ ~hw'.zApply
<1> DEFINE s == [drv.sample EXCEPT !.state = "fault", !.err = TRUE, !.speed = "still"]
           n == hist.cycles + 1
<1>1. /\ life' = "unconfigured" /\ hw' = NewShared /\ rt' = NewLoop /\ svc' = Idle
      /\ tx' = SafeFrame /\ disk' = disk
      /\ hist' = [hist EXCEPT !.cycles = n, !.armed = FALSE, !.obs = FALSE]
      /\ drv' = [drv EXCEPT !.sample.state = "fault", !.sample.err = TRUE,
                            !.sample.speed = "still"]
  BY Zenon DEF Crash
<1>2. drv \in Drive /\ drv.sample \in Samples /\ hist \in Histories
  BY TypedNow, Zenon DEF Drive
<1>3. drv' = [drv EXCEPT !.sample = s]
  BY <1>1, <1>2, ZenonT(60) DEF Drive, Samples
<1>4. s \in Samples
  BY <1>2, ZenonT(60) DEF Samples, DriveStates
<1> HIDE DEF s
<1>5. drv' \in Drive
  BY <1>2, <1>3, <1>4, Zenon DEF Drive
<1>6. hist' \in Histories
  <2>1. hist.cycles \in Nat
    BY <1>2, Zenon DEF Histories
  <2>2. n \in Nat
    BY <2>1
  <2> HIDE DEF n
  <2> QED
    BY <1>1, <1>2, <2>2, ZenonT(60) DEF Histories
<1>7. life' \in Lives
  BY <1>1, Zenon DEF Lives
<1>8. Typed'
  BY <1>1, <1>5, <1>6, <1>7, NewLemma, IdleLemma, TypedNow, TypedNext, Zenon
<1> QED
  BY <1>1, <1>8, NewLemma, IdleLemma, Zenon

\* The join of the service thread, and what the bus does.
LEMMA OtherStep ==
  ASSUME Typed, StopServiceThread \/ LinkFault \/ LinkRecovers
  PROVE  /\ Typed' /\ UNCHANGED <<disk, hw, rt, svc>> /\ hist'.armed = hist.armed
         /\ drv'.sample.mode = drv.sample.mode
         /\ life' = life \/ (life = "stopping" /\ life' = "inactive")
<1>1. drv \in Drive /\ hist \in Histories
  BY TypedNow
<1>2. CASE StopServiceThread
  <2>1. life' = "inactive" /\ life = "stopping" /\ UNCHANGED <<drv, disk, hw, rt, tx, svc, hist>>
    BY <1>2, Zenon DEF StopServiceThread
  <2>2. life' \in Lives
    BY <2>1, Zenon DEF Lives
  <2> QED
    BY <2>1, <2>2, TypedNow, TypedNext, Zenon
<1>3. CASE LinkFault
  <2> DEFINE n == hist.faults + 1
  <2>1. /\ hist.faults < MaxFaults /\ hist' = [hist EXCEPT !.faults = n]
        /\ UNCHANGED <<life, disk, hw, rt, tx, svc>>
    BY <1>3, Zenon DEF LinkFault
  <2>2. PICK f \in LinkFaults : drv' = [drv EXCEPT !.link = f]
    BY <1>3, Zenon DEF LinkFault
  <2>3. f \in {"ok", "stale", "lost"}
    BY DEF LinkFaults
  <2>4. drv' \in Drive /\ drv'.sample = drv.sample
    BY <1>1, <2>2, <2>3, Zenon DEF Drive
  <2>5. n \in 0 .. MaxFaults
    <3>1. hist.faults \in 0 .. MaxFaults
      BY <1>1, Zenon DEF Histories
    <3> QED
      BY <2>1, <3>1, HardwareAssumption DEF HardwareAssumption
  <2> HIDE DEF n
  <2>6. hist' \in Histories /\ hist'.armed = hist.armed
    BY <1>1, <2>1, <2>5, Zenon DEF Histories
  <2>7. Typed'
    BY <2>1, <2>4, <2>6, TypedNow, TypedNext, Zenon
  <2> QED
    BY <2>1, <2>4, <2>6, <2>7, Zenon
<1>4. CASE LinkRecovers
  <2>1. drv' = [drv EXCEPT !.link = "ok"] /\ UNCHANGED <<life, disk, hw, rt, tx, svc, hist>>
    BY <1>4, Zenon DEF LinkRecovers
  <2>2. drv' \in Drive /\ drv'.sample = drv.sample
    BY <1>1, <2>1, Zenon DEF Drive
  <2>3. Typed'
    BY <2>1, <2>2, TypedNow, TypedNext, Zenon
  <2> QED
    BY <2>1, <2>2, <2>3, Zenon
<1> QED
  BY <1>2, <1>3, <1>4

-----------------------------------------------------------------------------
(* The invariants hold in every reachable state.                            *)

LEMMA InitTyped == Init => Typed /\ rt.pc = "read" /\ svc = Idle /\ ~hw.zApply
<1> SUFFICES ASSUME Init PROVE Typed /\ rt.pc = "read" /\ svc = Idle /\ ~hw.zApply
  OBVIOUS
<1> DEFINE d == [sample |-> DriveAtRest, link |-> "ok"]
           h == [armed |-> FALSE, obs |-> FALSE, calls |-> 0, faults |-> 0, cycles |-> 0]
<1>1. /\ life = "unconfigured" /\ drv = d /\ disk = {} /\ hw = NewShared /\ rt = NewLoop
      /\ tx = SafeFrame /\ svc = Idle /\ hist = h
  BY Zenon DEF Init
<1>2. d \in Drive
  BY NewLemma, Zenon DEF Drive
<1>3. h \in Histories /\ h.calls = 0 /\ h.faults = 0
  BY Zeros, Zenon DEF Histories
<1> HIDE DEF d, h
<1>4. life \in Lives /\ disk \in SUBSET Positions
  BY <1>1, Zenon DEF Lives
<1>5. Typed
  BY <1>1, <1>2, <1>3, <1>4, NewLemma, IdleLemma, Zeros, Zenon DEF Typed, TypeOK
<1> QED
  BY <1>1, <1>5, NewLemma, Zenon

\* The type of every member, and the frames of the emergency stop.
LoopInv == Typed /\ EstopIsObeyed

LEMMA LoopInvStep == LoopInv /\ [Next]_vars => LoopInv'
<1> SUFFICES ASSUME LoopInv, [Next]_vars PROVE LoopInv'
  OBVIOUS
<1>1. Typed /\ EstopIsObeyed
  BY Zenon DEF LoopInv
<1>2. CASE Read
  <2>1. Typed' /\ rt'.pc = "begin"
    BY <1>1, <1>2, ReadStep
  <2> QED
    BY <2>1, Zenon DEF LoopInv, EstopIsObeyed
<1>3. CASE WriteBegin
  <2>1. Typed' /\ rt'.pc = "decide"
    BY <1>1, <1>3, WriteBeginStep
  <2> QED
    BY <2>1, Zenon DEF LoopInv, EstopIsObeyed
<1>4. ASSUME NEW c \in MotionCommands, WriteDecide(c) PROVE LoopInv'
  <2>1. /\ Typed' /\ rt'.estop = rt.estop
        /\ rt.estop => rt'.frame.vel = "zero" /\ rt'.frame.cw \in {"shutdown", "quick"}
    BY <1>1, <1>4, WriteDecideStep
  <2> QED
    BY <2>1, Zenon DEF LoopInv, EstopIsObeyed
<1>5. CASE WriteSend
  <2>1. Typed' /\ rt'.pc = "read"
    BY <1>1, <1>5, WriteSendStep
  <2> QED
    BY <2>1, Zenon DEF LoopInv, EstopIsObeyed
<1>6. CASE Service
  <2>1. Typed' /\ rt' = rt
    BY <1>1, <1>6, ServiceLemma, Zenon DEF ServiceStep
  <2> QED
    BY <1>1, <2>1, Zenon DEF LoopInv, EstopIsObeyed
<1>7. ASSUME NEW op \in Services, Call(op) PROVE LoopInv'
  <2>1. Typed' /\ rt' = rt
    BY <1>1, <1>7, CallStep, Zenon
  <2> QED
    BY <1>1, <2>1, Zenon DEF LoopInv, EstopIsObeyed
<1>8. CASE StatusTimer
  <2>1. Typed' /\ rt' = rt
    BY <1>1, <1>8, StatusTimerStep, Zenon
  <2> QED
    BY <1>1, <2>1, Zenon DEF LoopInv, EstopIsObeyed
<1>9. CASE Configure \/ Activate \/ Crash
  <2>1. Typed' /\ rt'.pc = "read"
    BY <1>1, <1>9, ConfigureStep, ActivateStep, CrashStep, Zenon
  <2> QED
    BY <2>1, Zenon DEF LoopInv, EstopIsObeyed
<1>10. CASE Deactivate \/ StopServiceThread \/ LinkFault \/ LinkRecovers
  <2>1. Typed' /\ rt' = rt
    BY <1>1, <1>10, DeactivateStep, OtherStep, Zenon
  <2> QED
    BY <1>1, <2>1, Zenon DEF LoopInv, EstopIsObeyed
<1>11. CASE UNCHANGED vars
  <2>1. UNCHANGED <<life, drv, disk, hw, rt, tx, svc, hist>>
    BY <1>11, Zenon DEF vars
  <2>2. Typed'
    BY <1>1, <2>1, TypedNow, TypedNext, Zenon
  <2> QED
    BY <1>1, <2>1, <2>2, Zenon DEF LoopInv, EstopIsObeyed
<1> QED
  BY <1>2, <1>3, <1>4, <1>5, <1>6, <1>7, <1>8, <1>9, <1>10, <1>11, Zenon DEF Next, Cycle

LEMMA LoopAlways == Spec => []LoopInv
<1>1. Init => LoopInv
  BY InitTyped, Zenon DEF LoopInv, EstopIsObeyed
<1> QED
  BY <1>1, LoopInvStep, PTL DEF Spec

\* Every state of the drive, the loop, the service thread and the file is of
\* the declared type, whatever the drive, the bus and the callers do.
THEOREM HardwareTypes == Spec => []TypeOK
<1>1. LoopInv => TypeOK
  BY Zenon DEF LoopInv, Typed
<1> QED
  BY <1>1, LoopAlways, PTL

\* write(): a cycle that started under the emergency stop prepares a frame with
\* velocity zero that asks neither for power nor for a fault reset, whatever
\* service handlers, power commands, faults and lifecycle steps run in between.
THEOREM EmergencyStopIsObeyed == Spec => []EstopIsObeyed
<1>1. LoopInv => EstopIsObeyed
  BY Zenon DEF LoopInv
<1> QED
  BY <1>1, LoopAlways, PTL

-----------------------------------------------------------------------------
(* The mode of the drive.                                                   *)

CsvInv == LoopInv /\ ModeInv /\ (svc.op = "none" => svc.pc = "idle")

LEMMA CsvInvStep ==
  ASSUME "mode" \notin Faults, CsvInv, [Next]_vars PROVE CsvInv'
<1>1. Typed /\ ModeInv /\ (svc.op = "none" => svc.pc = "idle") /\ LoopInv'
  BY LoopInvStep, Zenon DEF CsvInv, LoopInv
<1>2. ASSUME svc' = svc, drv'.sample.mode = drv.sample.mode PROVE CsvInv'
  BY <1>1, <1>2, Zenon DEF CsvInv, ModeInv
<1>3. CASE Read
  BY <1>1, <1>2, <1>3, ReadStep, Zenon
<1>4. CASE WriteBegin
  BY <1>1, <1>2, <1>4, WriteBeginStep, Zenon
<1>5. ASSUME NEW c \in MotionCommands, WriteDecide(c) PROVE CsvInv'
  BY <1>1, <1>2, <1>5, WriteDecideStep, Zenon
<1>6. CASE WriteSend
  BY <1>1, <1>2, <1>6, WriteSendStep, Zenon
<1>7. CASE Service
  BY <1>1, <1>7, ServiceLemma, Zenon DEF ServiceStep, CsvInv
<1>8. ASSUME NEW op \in Services, Call(op) PROVE CsvInv'
  <2>1. op \in ServiceNames
    BY <1>1, <1>8, CallStep, Zenon
  <2>2. op # "none" /\ "s1" \notin CsvSteps /\ "none" # "home"
    BY <2>1 DEF ServiceNames, CsvSteps
  <2>3. \/ svc'.op = "none" /\ svc'.pc = "idle" /\ ~svc'.ok
        \/ svc'.op = op /\ svc'.pc = "s1"
    BY <1>1, <1>8, CallStep, Zenon
  <2> QED
    BY <1>1, <2>2, <2>3, Zenon DEF CsvInv, ModeInv
<1>9. CASE StatusTimer
  <2>1. svc'.op = "timer"
    BY <1>1, <1>9, StatusTimerStep, Zenon
  <2> QED
    BY <1>1, <2>1, Zenon DEF CsvInv, ModeInv
<1>10. CASE Configure \/ Activate
  <2>1. svc' = svc /\ drv'.sample.mode = 9
    BY <1>1, <1>10, ConfigureStep, ActivateStep, Zenon
  <2> QED
    BY <1>1, <2>1, Zenon DEF CsvInv, ModeInv
<1>11. CASE Crash
  <2>1. svc'.op = "none" /\ svc'.pc = "idle" /\ svc'.ok = FALSE
    BY <1>1, <1>11, CrashStep, Zenon
  <2> QED
    BY <1>1, <2>1, Zenon DEF CsvInv, ModeInv
<1>12. CASE Deactivate \/ StopServiceThread \/ LinkFault \/ LinkRecovers
  BY <1>1, <1>2, <1>12, DeactivateStep, OtherStep, Zenon
<1>13. CASE UNCHANGED vars
  BY <1>1, <1>2, <1>13, Zenon DEF vars
<1> QED
  BY <1>3, <1>4, <1>5, <1>6, <1>7, <1>8, <1>9, <1>10, <1>11, <1>12, <1>13,
     Zenon DEF Next, Cycle

\* handle_home: the reply "homed" is given only with the drive back in mode 9,
\* also when the bus was lost in the SDO sequence, a stop came in between or the
\* component was deactivated or restarted: 6060h = 9 was written before the
\* handler went on.  A drive that leaves mode 9 of its own accord (the fault
\* "mode") can do so before and after the reply, and is excluded.
THEOREM HomedIsInCsv == ("mode" \notin Faults) => (Spec => []HomedMeansCsv)
<1> SUFFICES ASSUME "mode" \notin Faults PROVE Spec => []HomedMeansCsv
  OBVIOUS
<1>1. Init => CsvInv
  <2>1. Init => LoopInv
    BY InitTyped, Zenon DEF LoopInv, EstopIsObeyed
  <2>2. Init => svc = Idle
    BY InitTyped
  <2> QED
    BY <2>1, <2>2, IdleLemma, Zenon DEF CsvInv, ModeInv
<1>2. CsvInv /\ [Next]_vars => CsvInv'
  BY CsvInvStep
<1>3. CsvInv => HomedMeansCsv
  BY Zenon DEF CsvInv, ModeInv, HomedMeansCsv
<1> QED
  BY <1>1, <1>2, <1>3, PTL DEF Spec

-----------------------------------------------------------------------------
(* The zero offset and the enable, while the component is not deactivated.  *)

\* What the loop and the bus do to the life and the handler: nothing.
LifeSame == life' = life /\ svc' = svc

LEMMA LifeInvStep ==
  ASSUME "deactivate" \notin Cycling, LoopInv, LifeInv, [Next]_vars PROVE LifeInv'
<1>1. Typed
  BY Zenon DEF LoopInv
<1>2. ASSUME LifeSame PROVE LifeInv'
  BY <1>2, Zenon DEF LifeInv, LifeSame
<1>3. CASE Read
  BY <1>1, <1>2, <1>3, ReadStep, Zenon DEF LifeSame
<1>4. CASE WriteBegin
  BY <1>1, <1>2, <1>4, WriteBeginStep, Zenon DEF LifeSame
<1>5. ASSUME NEW c \in MotionCommands, WriteDecide(c) PROVE LifeInv'
  BY <1>1, <1>2, <1>5, WriteDecideStep, Zenon DEF LifeSame
<1>6. CASE WriteSend
  BY <1>1, <1>2, <1>6, WriteSendStep, Zenon DEF LifeSame
<1>7. CASE Service
  <2>1. /\ life' = life /\ svc.pc # "idle"
        /\ svc.op # "none" /\ svc'.op = "none" => svc'.pc = "idle"
    BY <1>1, <1>7, ServiceLemma, Zenon DEF ServiceStep
  <2> QED
    BY <2>1, Zenon DEF LifeInv
<1>8. ASSUME NEW op \in Services, Call(op) PROVE LifeInv'
  <2>1. op \in ServiceNames /\ life' = life /\ life \in {"active", "stopping"}
    BY <1>1, <1>8, CallStep, Zenon
  <2>2. op # "none"
    BY <2>1 DEF ServiceNames
  <2>3. (svc'.op = "none" /\ svc'.pc = "idle") \/ svc'.op = op
    BY <1>1, <1>8, CallStep, Zenon
  <2> QED
    BY <2>1, <2>2, <2>3, Zenon DEF LifeInv
<1>9. CASE StatusTimer
  BY <1>1, <1>9, StatusTimerStep, Zenon DEF LifeInv
<1>10. CASE Configure
  BY <1>1, <1>10, ConfigureStep, Zenon DEF LifeInv
<1>11. CASE Activate
  BY <1>1, <1>11, ActivateStep, Zenon DEF LifeInv
<1>12. CASE Crash
  BY <1>1, <1>12, CrashStep, Zenon DEF LifeInv
<1>13. CASE Deactivate
  BY <1>1, <1>13, DeactivateStep, Zenon
<1>14. CASE StopServiceThread \/ LinkFault \/ LinkRecovers
  BY <1>1, <1>14, OtherStep, Zenon DEF LifeInv
<1>15. CASE UNCHANGED vars
  BY <1>2, <1>15, Zenon DEF vars, LifeSame
<1> QED
  BY <1>3, <1>4, <1>5, <1>6, <1>7, <1>8, <1>9, <1>10, <1>11, <1>12, <1>13, <1>14, <1>15,
     Zenon DEF Next, Cycle

LEMMA FrameInvStep ==
  ASSUME "deactivate" \notin Cycling, LoopInv, LifeInv, FrameInv, [Next]_vars PROVE FrameInv'
<1>1. Typed /\ life # "stopping"
  BY Zenon DEF LoopInv, LifeInv
<1>2. ASSUME LifeSame, disk' = disk, ZeroSame(hw, hw') PROVE FrameInv'
  BY <1>2, Zenon DEF FrameInv, LifeSame, ZeroSame
<1>3. CASE Read
  BY <1>1, <1>2, <1>3, ReadStep, Zenon DEF LifeSame, Steady, ZeroSame
<1>4. CASE WriteBegin
  <2>1. /\ life = "active" /\ life' = life /\ disk' = disk /\ svc' = svc
        /\ ~hw'.zApply /\ hw'.zoff = IF hw.zApply THEN hw.zAtomic ELSE hw.zoff
    BY <1>1, <1>4, WriteBeginStep, Zenon
  <2>2. life' # "inactive"
    BY <2>1
  <2>3. hw'.zoff # Recorded(disk) => svc.pc = "c2"
    BY <2>1, Zenon DEF FrameInv
  <2> QED
    BY <2>1, <2>2, <2>3, Zenon DEF FrameInv
<1>5. ASSUME NEW c \in MotionCommands, WriteDecide(c) PROVE FrameInv'
  BY <1>1, <1>2, <1>5, WriteDecideStep, Zenon DEF LifeSame, Steady, ZeroSame
<1>6. CASE WriteSend
  BY <1>1, <1>2, <1>6, WriteSendStep, Zenon DEF LifeSame, Steady, ZeroSame
<1>7. CASE Service
  <2>1. svc.pc # "idle" /\ (life = "active" /\ FrameInv => FrameInv')
    BY <1>1, <1>7, ServiceLemma, Zenon DEF ServiceStep
  <2> QED
    BY <2>1, Zenon DEF LifeInv
<1>8. ASSUME NEW op \in Services, Call(op) PROVE FrameInv'
  <2>1. /\ UNCHANGED <<life, disk>> /\ ZeroSame(hw, hw') /\ svc.op = "none"
        /\ svc'.pc = "s1" \/ svc'.pc = "idle"
    BY <1>1, <1>8, CallStep, Zenon DEF SameFlags, ZeroSame
  <2>2. svc.pc # "c2" /\ svc'.pc # "c2"
    BY <2>1 DEF LifeInv
  <2> QED
    BY <2>1, <2>2, FrameCalm, Zenon
<1>9. CASE StatusTimer
  <2>1. UNCHANGED <<life, disk, hw>> /\ svc.op = "none" /\ svc'.pc = "c1"
    BY <1>1, <1>9, StatusTimerStep, Zenon
  <2>2. svc.pc # "c2" /\ svc'.pc # "c2"
    BY <2>1 DEF LifeInv
  <2> QED
    BY <2>1, <2>2, FrameCalm, Zenon DEF ZeroSame
<1>10. CASE Configure
  <2>1. /\ UNCHANGED <<disk, svc>> /\ life' = "inactive" /\ svc.op = "none"
        /\ hw'.zoff = Recorded(disk) /\ ~hw'.zApply
    BY <1>1, <1>10, ConfigureStep, Zenon
  <2>2. svc'.pc # "c2"
    BY <2>1 DEF LifeInv
  <2> QED
    BY <2>1, <2>2, Zenon DEF FrameInv
<1>11. CASE Activate
  <2>1. /\ UNCHANGED <<disk, svc>> /\ life = "inactive" /\ life' = "active" /\ svc.op = "none"
        /\ hw'.zoff = hw.zoff /\ ~hw'.zApply
    BY <1>1, <1>11, ActivateStep, Zenon
  <2>2. svc'.pc # "c2" /\ life' # "inactive"
    BY <2>1 DEF LifeInv
  <2> QED
    BY <2>1, <2>2, Zenon DEF FrameInv
<1>12. CASE Crash
  <2>1. disk' = disk /\ life' = "unconfigured" /\ svc'.pc = "idle" /\ ~hw'.zApply
    BY <1>1, <1>12, CrashStep, Zenon
  <2>2. life' # "active" /\ life' # "inactive" /\ svc'.pc # "c2"
    BY <2>1
  <2> QED
    BY <2>1, <2>2, Zenon DEF FrameInv
<1>13. CASE Deactivate
  BY <1>1, <1>13, DeactivateStep, Zenon
<1>14. CASE StopServiceThread \/ LinkFault \/ LinkRecovers
  BY <1>1, <1>2, <1>14, OtherStep, Zenon DEF LifeSame, ZeroSame
<1>15. CASE UNCHANGED vars
  BY <1>2, <1>15, Zenon DEF vars, LifeSame, ZeroSame
<1> QED
  BY <1>3, <1>4, <1>5, <1>6, <1>7, <1>8, <1>9, <1>10, <1>11, <1>12, <1>13, <1>14, <1>15,
     Zenon DEF Next, Cycle

LEMMA ArmInvStep ==
  ASSUME "deactivate" \notin Cycling, LoopInv, LifeInv, ArmInv, [Next]_vars PROVE ArmInv'
<1>1. Typed /\ life # "stopping"
  BY Zenon DEF LoopInv, LifeInv
<1>2. ASSUME LifeSame, life # "inactive",
             hw'.estop = hw.estop, hw.blocked => hw'.blocked,
             hw.estop \/ hw.blocked => (hw.stopReq => hw'.stopReq),
             Armed => Armed', life = "active"
      PROVE  ArmInv'
  <2>1. ResetHeld => ResetHeld'
    BY <1>2, Zenon DEF ResetHeld, LifeSame
  <2> QED
    BY <1>2, <2>1, Zenon DEF ArmInv, LifeSame
<1>3. "active" # "inactive" /\ "unconfigured" # "active"
  OBVIOUS
<1>4. CASE Read
  <2>1. /\ Steady(hw, hw') /\ rt'.prevPower = rt.prevPower /\ LifeSame /\ life = "active"
        /\ hist'.armed = (hist.armed /\ (hw'.stopReq => hw.stopReq))
    BY <1>1, <1>4, ReadStep, Zenon DEF LifeSame
  <2>2. Armed => Armed'
    BY <2>1, Zenon DEF Armed, Steady
  <2> QED
    BY <1>2, <1>3, <2>1, <2>2, Zenon DEF Steady
<1>5. CASE WriteBegin
  <2>1. /\ LifeSame /\ life = "active" /\ hw'.estop = hw.estop /\ hw'.blocked = hw.blocked
        /\ hw.estop \/ hw.blocked => (hw.stopReq => hw'.stopReq)
        /\ (~hw.stopReq /\ (hw.brkEn \/ rt.prevPower) => hist.armed \/ hw.blocked)
             => (~hw'.stopReq /\ (hw'.brkEn \/ rt'.prevPower) => hist'.armed \/ hw'.blocked)
    BY <1>1, <1>5, WriteBeginStep, Zenon DEF LifeSame
  <2>2. Armed => Armed'
    BY <2>1, Zenon DEF Armed
  <2> QED
    BY <1>2, <1>3, <2>1, <2>2, Zenon
<1>6. ASSUME NEW c \in MotionCommands, WriteDecide(c) PROVE ArmInv'
  <2>1. /\ Steady(hw, hw') /\ rt'.prevPower = rt.prevPower /\ LifeSame /\ life = "active"
        /\ hist'.armed = (hist.armed /\ (hw'.blocked => hw.blocked))
    BY <1>1, <1>6, WriteDecideStep, Zenon DEF LifeSame
  <2>2. Armed => Armed'
    BY <2>1, Zenon DEF Armed, Steady
  <2> QED
    BY <1>2, <1>3, <2>1, <2>2, Zenon DEF Steady
<1>7. CASE WriteSend
  <2>1. /\ Steady(hw, hw') /\ rt'.prevPower = rt.prevPower /\ LifeSame /\ life = "active"
        /\ hist' = hist
    BY <1>1, <1>7, WriteSendStep, Zenon DEF LifeSame
  <2>2. Armed => Armed'
    BY <2>1, Zenon DEF Armed, Steady
  <2> QED
    BY <1>2, <1>3, <2>1, <2>2, Zenon DEF Steady
<1>8. CASE Service
  <2>1. svc.pc # "idle" /\ (life = "active" /\ ArmInv => ArmInv')
    BY <1>1, <1>8, ServiceLemma, Zenon DEF ServiceStep
  <2> QED
    BY <2>1, Zenon DEF LifeInv
<1>9. ASSUME NEW op \in Services, Call(op) PROVE ArmInv'
  <2>1. /\ UNCHANGED <<life, rt>> /\ life \in {"active", "stopping"} /\ SameFlags(hw, hw')
        /\ hist'.armed = hist.armed
        /\ \/ svc'.pc = "idle"
           \/ svc'.op = op /\ svc'.pc = "s1" /\ (op = "reset" => hw.estop \/ hw.blocked)
    BY <1>1, <1>9, CallStep, Zenon
  <2>2. life = "active" /\ life' # "inactive" /\ svc'.pc # "s2"
    BY <1>1, <2>1
  <2>3. ResetHeld'
    <3>1. svc'.pc \in {"s1", "s2"} => svc'.op = op /\ (op = "reset" => hw.estop \/ hw.blocked)
      BY <2>1
    <3> QED
      BY <2>1, <2>2, <3>1, Zenon DEF ResetHeld, SameFlags
  <2>4. Armed => Armed'
    BY <2>1, Zenon DEF Armed, SameFlags
  <2> QED
    BY <2>2, <2>3, <2>4, Zenon DEF ArmInv
<1>10. CASE StatusTimer
  <2>1. UNCHANGED <<life, hw, rt, hist>> /\ life = "active" /\ svc'.op = "timer"
    BY <1>1, <1>10, StatusTimerStep, Zenon
  <2>2. ResetHeld' /\ (Armed => Armed')
    BY <2>1, Zenon DEF ResetHeld, Armed
  <2> QED
    BY <1>3, <2>1, <2>2, Zenon DEF ArmInv
<1>11. CASE Configure
  <2>1. svc' = svc /\ life' = "inactive" /\ svc.op = "none" /\ ~hw'.brkEn
    BY <1>1, <1>11, ConfigureStep, Zenon
  <2>2. ResetHeld'
    BY <2>1, Zenon DEF ResetHeld
  <2> QED
    BY <1>3, <2>1, <2>2, Zenon DEF ArmInv
<1>12. CASE Activate
  <2>1. /\ svc' = svc /\ life = "inactive" /\ life' = "active" /\ svc.op = "none"
        /\ rt'.prevPower = FALSE /\ hw'.brkEn = hw.brkEn
    BY <1>1, <1>12, ActivateStep, Zenon
  <2>2. ResetHeld'
    BY <2>1, Zenon DEF ResetHeld
  <2>3. Armed'
    BY <2>1, Zenon DEF ArmInv, Armed
  <2> QED
    BY <1>3, <2>1, <2>2, <2>3, Zenon DEF ArmInv
<1>13. CASE Crash
  <2>1. life' = "unconfigured" /\ svc'.op = "none"
    BY <1>1, <1>13, CrashStep, Zenon
  <2>2. ResetHeld' /\ life' # "active" /\ life' # "inactive"
    BY <2>1 DEF ResetHeld
  <2> QED
    BY <2>2, Zenon DEF ArmInv
<1>14. CASE Deactivate
  BY <1>1, <1>14, DeactivateStep, Zenon
<1>15. CASE StopServiceThread \/ LinkFault \/ LinkRecovers
  <2>1. UNCHANGED <<life, hw, rt, svc>> /\ hist'.armed = hist.armed
    BY <1>1, <1>15, OtherStep, Zenon
  <2> QED
    BY <2>1, Zenon DEF ArmInv, Armed, ResetHeld
<1>16. CASE UNCHANGED vars
  BY <1>16, Zenon DEF vars, ArmInv, Armed, ResetHeld
<1> QED
  BY <1>4, <1>5, <1>6, <1>7, <1>8, <1>9, <1>10, <1>11, <1>12, <1>13, <1>14, <1>15, <1>16,
     Zenon DEF Next, Cycle

DutyInv == LoopInv /\ LifeInv /\ FrameInv /\ ArmInv

LEMMA DutyInit == Init => DutyInv
<1> SUFFICES ASSUME Init PROVE DutyInv
  OBVIOUS
<1>1. life = "unconfigured" /\ svc = Idle /\ ~hw.zApply
  BY InitTyped, Zenon DEF Init
<1>2. LoopInv
  BY InitTyped, Zenon DEF LoopInv, EstopIsObeyed
<1>3. svc.op = "none" /\ svc.pc = "idle"
  BY <1>1, IdleLemma, Zenon
<1>4. life # "active" /\ life # "inactive" /\ life # "stopping" /\ svc.pc # "c2"
  BY <1>1, <1>3
<1> QED
  BY <1>1, <1>2, <1>3, <1>4, Zenon DEF DutyInv, LifeInv, FrameInv, ArmInv, ResetHeld

\* complete_pending_zero and apply_pending_zero_offset: the frame of the loop is
\* the one recorded in the file, or the handler or the next cycle has still to
\* apply it, also when the file cannot be written, another request comes before
\* the first is applied, or the process crashes at any point and loads the file
\* again.  on_activate drops a pending offset, so that the file and the frame
\* differ after a deactivation that came between the save and the next cycle:
\* deactivation is excluded.
THEOREM FrameIsRecorded == ("deactivate" \notin Cycling) => (Spec => []FrameMatchesFile)
<1> SUFFICES ASSUME "deactivate" \notin Cycling PROVE Spec => []FrameMatchesFile
  OBVIOUS
<1>1. DutyInv /\ [Next]_vars => DutyInv'
  BY LoopInvStep, LifeInvStep, FrameInvStep, ArmInvStep, Zenon DEF DutyInv
<1>2. DutyInv => FrameMatchesFile
  BY Zenon DEF DutyInv, LifeInv, FrameInv, FrameMatchesFile
<1> QED
  BY <1>1, <1>2, DutyInit, PTL DEF Spec

\* A cycle that decides on a velocity.
Moves == rt.pc = "decide" /\ rt'.pc = "send" /\ rt'.frame.vel # "zero" => hist.armed

\* write() commands a velocity only after an enable that is newer than the last
\* stop, fault, range violation, emergency stop or activation: no order of
\* service handlers, power edges and loop cycles leaves an old enable in force,
\* the safety reset included.  A handler that is still running while the
\* component is deactivated may set the enable again and on_activate keeps it:
\* deactivation is excluded.
THEOREM MotionIsRequested == ("deactivate" \notin Cycling) => (Spec => MotionNeedsRequest)
<1> SUFFICES ASSUME "deactivate" \notin Cycling PROVE Spec => MotionNeedsRequest
  OBVIOUS
<1>1. DutyInv /\ [Next]_vars => DutyInv'
  BY LoopInvStep, LifeInvStep, FrameInvStep, ArmInvStep, Zenon DEF DutyInv
<1>2. DutyInv /\ [Next]_vars => Moves
  <2> SUFFICES ASSUME DutyInv, [Next]_vars, rt.pc = "decide", rt'.pc = "send",
                      rt'.frame.vel # "zero"
               PROVE  hist.armed
    BY Zenon DEF Moves
  <2>1. Typed /\ (life = "active" => Armed)
    BY Zenon DEF DutyInv, LoopInv, ArmInv
  <2>2. CASE \E c \in MotionCommands : WriteDecide(c)
    <3>1. /\ life = "active" /\ ~hw.stopReq /\ (hw.brkEn \/ rt.prevPower) /\ ~hw.blocked
      BY <2>1, <2>2, WriteDecideStep, Zenon
    <3> QED
      BY <2>1, <3>1, Zenon DEF Armed
  <2>3. rt' # rt /\ rt.pc # "read" /\ rt.pc # "begin" /\ rt.pc # "send" /\ rt'.pc # "read"
    BY Zenon
  <2>4. ~Read /\ ~WriteBegin /\ ~WriteSend
    BY <2>3, Zenon DEF Read, WriteBegin, WriteSend
  <2>5. ~Service
    BY <2>1, <2>3, ServiceLemma, Zenon DEF ServiceStep
  <2>6. ~(\E op \in Services : Call(op)) /\ ~StatusTimer
    BY <2>1, <2>3, CallStep, StatusTimerStep, Zenon
  <2>7. ~Configure /\ ~Activate /\ ~Crash
    BY <2>1, <2>3, ConfigureStep, ActivateStep, CrashStep, Zenon
  <2>8. ~Deactivate /\ ~StopServiceThread /\ ~LinkFault /\ ~LinkRecovers /\ ~UNCHANGED vars
    BY <2>1, <2>3, DeactivateStep, OtherStep, Zenon DEF vars
  <2> QED
    BY <2>2, <2>4, <2>5, <2>6, <2>7, <2>8, Zenon DEF Next, Cycle
<1>3. Spec => [][Moves]_vars
  BY <1>1, <1>2, DutyInit, PTL DEF Spec
<1> QED
  BY <1>3, Zenon DEF MotionNeedsRequest, Moves
=============================================================================
