------------------------- MODULE ArmControllerProofs -------------------------
(***************************************************************************)
(* Proofs about the arm controller, for every number of axes, every set of *)
(* command sources and every bound.  One lemma per helper of               *)
(* CommandProcessor_arm says what the helper does to the few facts that    *)
(* the theorems are about; update is the composition of the helpers.       *)
(***************************************************************************)
EXTENDS ArmController, TLAPS

\* While the arm waits after EFFORT every target is the measured pose.
WaitInv(c) ==
  c.state \in {"EFFORT_TO_POSITION_HOLD", "WAIT_FRESH_POSITION_TARGET"} =>
    c.get_pos = Here /\ c.plan = Here

\* The inductive invariant on the processor.
Good(c) == c \in CommandProcessor /\ WaitInv(c)

\* No local target would be commanded, but by the axis planners.
Free(c) ==
  c.initialized /\ c.mode = "POSITION" /\ c.stream = NoStream =>
    ~IsLocal(c.plan) /\ ~IsLocal(c.get_pos)

\* No local target would be commanded, not even by the axis planners.
Yielded(c) ==
  \/ c.stream # NoStream
  \/ c.interp = "RUCKIG" /\ ~IsLocal(c.plan) /\ ~IsLocal(c.get_pos)

\* The power request and the drive feedback are the same in c and d.
SamePower(c, d) ==
  /\ d.power_enabled = c.power_enabled
  /\ d.hardware_available = c.hardware_available
  /\ d.all_enabled = c.all_enabled

\* What the helpers before the gateway's command do.
Neutral(c, d) ==
  /\ Good(d)
  /\ Free(c) => Free(d)
  /\ Yielded(c) => Yielded(d)
  /\ c.stream = NoStream => d.stream = NoStream

-----------------------------------------------------------------------------
LEMMA TargetFacts ==
  /\ Here \in Targets /\ Origin \in Targets
  /\ Local("servo") \in Targets /\ Local("absolute") \in Targets
  /\ Streams \subseteq Targets
  /\ \A n \in 1 .. MaxSeq : Heavy(n) \in Streams /\ Mixed(n) \in Streams
  /\ \A n : Heavy(n) # NoStream /\ Mixed(n) # NoStream
  /\ \A s \in Streams : ~IsLocal(s)
  /\ ~IsLocal(Here) /\ ~IsLocal(Origin)
BY DEF Here, Origin, Local, Heavy, Mixed, NoStream, Streams, Targets, IsLocal

LEMMA SamePowerTransitive ==
  ASSUME NEW c, NEW d, NEW e, SamePower(c, d), SamePower(d, e)
  PROVE  SamePower(c, e)
BY DEF SamePower

LEMMA SyncLemma ==
  ASSUME NEW c \in CommandProcessor
  PROVE  /\ Sync(c) \in CommandProcessor /\ SamePower(c, Sync(c))
         /\ Sync(c).get_pos = Here /\ Sync(c).plan = Here /\ Sync(c).initialized
         /\ Sync(c).stream = c.stream /\ Sync(c).mode = c.mode /\ Sync(c).state = c.state
         /\ Sync(c).interp = c.interp
BY TargetFacts, ZenonT(200) DEF Sync, CommandProcessor, SamePower

LEMMA ResetLemma ==
  ASSUME NEW c \in CommandProcessor
  PROVE  /\ Good(Reset(c)) /\ ~Reset(c).power_enabled /\ ~Reset(c).initialized
         /\ Reset(c).stream = NoStream /\ Reset(c).state = "POSITION_ACTIVE"
         /\ Free(Reset(c)) /\ Yielded(Reset(c))
<1>1. /\ Reset(c) \in CommandProcessor /\ ~Reset(c).power_enabled /\ ~Reset(c).initialized
      /\ Reset(c).stream = NoStream /\ Reset(c).state = "POSITION_ACTIVE"
      /\ Reset(c).interp = "RUCKIG" /\ Reset(c).plan = Here /\ Reset(c).get_pos = Origin
  BY TargetFacts, ZenonT(200) DEF Reset, CommandProcessor, ControlModes, Interpolations
<1> QED BY <1>1, TargetFacts DEF Good, WaitInv, Free, Yielded

LEMMA RequestControlModeLemma ==
  ASSUME NEW c, Good(c), NEW mode \in ControlModes
  PROVE  Neutral(c, RequestControlMode(c, mode)) /\ SamePower(c, RequestControlMode(c, mode))
<1> DEFINE e == [c EXCEPT !.mode = "EFFORT", !.state = "EFFORT_ACTIVE"]
           p == [Sync(c) EXCEPT !.mode = "POSITION", !.state = "EFFORT_TO_POSITION_HOLD"]
<1>1. c \in CommandProcessor /\ WaitInv(c)
  BY DEF Good
<1>2. /\ e \in CommandProcessor /\ SamePower(c, e) /\ e.stream = c.stream /\ e.plan = c.plan
      /\ e.get_pos = c.get_pos /\ e.initialized = c.initialized /\ e.state = "EFFORT_ACTIVE"
      /\ e.interp = c.interp /\ e.mode = "EFFORT"
  BY <1>1, ZenonT(60) DEF CommandProcessor, SamePower, ControlModes
<1>3. /\ p \in CommandProcessor /\ SamePower(Sync(c), p) /\ p.stream = Sync(c).stream
      /\ p.plan = Sync(c).plan /\ p.get_pos = Sync(c).get_pos
      /\ p.initialized = Sync(c).initialized /\ p.interp = Sync(c).interp
  BY <1>1, SyncLemma, ZenonT(60) DEF CommandProcessor, SamePower, ControlModes
<1> HIDE DEF e, p
<1>4. Neutral(c, e) /\ SamePower(c, e)
  BY <1>1, <1>2 DEF Neutral, Good, WaitInv, Free, Yielded
<1>5. Neutral(c, p) /\ SamePower(c, p)
  BY <1>1, <1>3, SyncLemma, TargetFacts DEF Neutral, Good, WaitInv, Free, Yielded, SamePower
<1>6. Neutral(c, c) /\ SamePower(c, c)
  BY <1>1 DEF Neutral, Good, SamePower
<1> QED BY <1>4, <1>5, <1>6 DEF RequestControlMode, e, p

LEMMA RequestPowerEnableLemma ==
  ASSUME NEW c, Good(c), NEW enable \in BOOLEAN
  PROVE  /\ Neutral(c, RequestPowerEnable(c, enable))
         /\ RequestPowerEnable(c, enable).power_enabled = enable
         /\ RequestPowerEnable(c, enable).hardware_available = c.hardware_available
         /\ RequestPowerEnable(c, enable).all_enabled = c.all_enabled
<1> DEFINE e == [c EXCEPT !.power_enabled = enable, !.initialized = @ /\ enable]
<1>1. c \in CommandProcessor /\ WaitInv(c)
  BY DEF Good
<1>2. /\ e \in CommandProcessor /\ e.power_enabled = enable
      /\ e.hardware_available = c.hardware_available /\ e.all_enabled = c.all_enabled
      /\ e.stream = c.stream /\ e.plan = c.plan /\ e.get_pos = c.get_pos
      /\ e.initialized = (c.initialized /\ enable) /\ e.state = c.state
      /\ e.mode = c.mode /\ e.interp = c.interp
  BY <1>1, ZenonT(60) DEF CommandProcessor
<1> HIDE DEF e
<1>3. Neutral(c, e)
  BY <1>1, <1>2 DEF Neutral, Good, WaitInv, Free, Yielded
<1>4. Neutral(c, c)
  BY <1>1 DEF Neutral, Good
<1> QED BY <1>2, <1>3, <1>4 DEF RequestPowerEnable, e

LEMMA UpdateJointStateLemma ==
  ASSUME NEW c, Good(c), NEW fb
  PROVE  /\ Neutral(c, UpdateJointState(c, fb))
         /\ UpdateJointState(c, fb).power_enabled
              = (c.power_enabled /\ \A a \in Axes : fb[a] # "unknown")
         /\ UpdateJointState(c, fb).hardware_available = (\A a \in Axes : fb[a] # "unknown")
         /\ UpdateJointState(c, fb).all_enabled = (\A a \in Axes : fb[a] = "enabled")
<1> DEFINE available == \A a \in Axes : fb[a] # "unknown"
           enabled == \A a \in Axes : fb[a] = "enabled"
           e == [c EXCEPT !.all_enabled = enabled, !.hardware_available = available,
                          !.power_enabled = @ /\ available]
<1>1. c \in CommandProcessor /\ WaitInv(c)
  BY DEF Good
<1>2. available \in BOOLEAN /\ enabled \in BOOLEAN
  OBVIOUS
<1>3. e = UpdateJointState(c, fb)
  BY DEF UpdateJointState
<1> HIDE DEF available, enabled
<1>4. /\ e \in CommandProcessor /\ e.power_enabled = (c.power_enabled /\ available)
      /\ e.hardware_available = available /\ e.all_enabled = enabled
      /\ e.stream = c.stream /\ e.plan = c.plan /\ e.get_pos = c.get_pos
      /\ e.initialized = c.initialized /\ e.state = c.state
      /\ e.mode = c.mode /\ e.interp = c.interp
  BY <1>1, <1>2, ZenonT(60) DEF CommandProcessor
<1> HIDE DEF e
<1>5. Neutral(c, e)
  BY <1>1, <1>4 DEF Neutral, Good, WaitInv, Free, Yielded
<1> QED BY <1>3, <1>4, <1>5 DEF available, enabled

LEMMA RequestPositionHoldLemma ==
  ASSUME NEW c, Good(c)
  PROVE  /\ Neutral(c, RequestPositionHold(c)) /\ SamePower(c, RequestPositionHold(c))
         /\ c.stream = NoStream => Free(RequestPositionHold(c))
         /\ c.mode = "POSITION" =>
              /\ RequestPositionHold(c).stream = NoStream
              /\ RequestPositionHold(c).plan = Here
              /\ RequestPositionHold(c).get_pos = Here
              /\ RequestPositionHold(c).interp = "RUCKIG"
              /\ RequestPositionHold(c).initialized
              /\ RequestPositionHold(c).mode = "POSITION"
              /\ RequestPositionHold(c).state = "POSITION_ACTIVE"
<1> DEFINE e == [Sync(c) EXCEPT !.stream = NoStream, !.interp = "RUCKIG",
                                !.state = "POSITION_ACTIVE"]
<1>1. c \in CommandProcessor /\ WaitInv(c)
  BY DEF Good
<1>2. /\ e \in CommandProcessor /\ SamePower(Sync(c), e) /\ e.stream = NoStream
      /\ e.plan = Sync(c).plan /\ e.get_pos = Sync(c).get_pos /\ e.mode = Sync(c).mode
      /\ e.initialized = Sync(c).initialized /\ e.state = "POSITION_ACTIVE" /\ e.interp = "RUCKIG"
  <2> DEFINE s == Sync(c)
  <2>1. s \in CommandProcessor
    BY <1>1, SyncLemma
  <2> HIDE DEF s
  <2>2. [s EXCEPT !.stream = NoStream, !.interp = "RUCKIG", !.state = "POSITION_ACTIVE"]
          \in CommandProcessor
    BY <2>1, ZenonT(200) DEF CommandProcessor, Interpolations
  <2>3. e = [s EXCEPT !.stream = NoStream, !.interp = "RUCKIG", !.state = "POSITION_ACTIVE"]
    BY DEF s
  <2> HIDE DEF e
  <2>4. /\ SamePower(s, e) /\ e.plan = s.plan /\ e.get_pos = s.get_pos /\ e.mode = s.mode
        /\ e.initialized = s.initialized
    BY <2>1, <2>3, ZenonT(200) DEF CommandProcessor, SamePower
  <2>5. e.stream = NoStream /\ e.state = "POSITION_ACTIVE" /\ e.interp = "RUCKIG"
    BY <2>1, <2>3, ZenonT(200) DEF CommandProcessor
  <2> QED BY <2>2, <2>3, <2>4, <2>5 DEF s
<1> HIDE DEF e
<1>3. Neutral(c, e) /\ SamePower(c, e) /\ Free(e)
  BY <1>1, <1>2, SyncLemma, TargetFacts DEF Neutral, Good, WaitInv, Free, Yielded, SamePower
<1>4. Neutral(c, c) /\ SamePower(c, c)
  BY <1>1 DEF Neutral, Good, SamePower
<1>5. c.mode # "POSITION" => Free(c)
  BY DEF Free
<1> QED BY <1>1, <1>2, <1>3, <1>4, <1>5, SyncLemma DEF RequestPositionHold, e

LEMMA ClearStreamLemma ==
  ASSUME NEW c, Good(c)
  PROVE  /\ Good(ClearHeavyPositionStream(c)) /\ SamePower(c, ClearHeavyPositionStream(c))
         /\ ClearHeavyPositionStream(c).stream = NoStream
         /\ ClearHeavyPositionStream(c).mode = c.mode
         /\ ClearHeavyPositionStream(c).state = c.state
         /\ c.stream = NoStream /\ Free(c) => Free(ClearHeavyPositionStream(c))
<1> DEFINE e == [c EXCEPT !.stream = NoStream]
<1>1. c \in CommandProcessor /\ WaitInv(c)
  BY DEF Good
<1>2. /\ e \in CommandProcessor /\ SamePower(c, e) /\ e.stream = NoStream
      /\ e.plan = c.plan /\ e.get_pos = c.get_pos
      /\ e.initialized = c.initialized /\ e.state = c.state /\ e.mode = c.mode
  BY <1>1, ZenonT(60) DEF CommandProcessor, SamePower
<1> HIDE DEF e
<1>3. Good(e) /\ (c.stream = NoStream /\ Free(c) => Free(e))
  BY <1>1, <1>2 DEF Good, WaitInv, Free
<1> QED BY <1>2, <1>3 DEF ClearHeavyPositionStream, e

LEMMA EndWaitLemma ==
  ASSUME NEW c \in CommandProcessor
  PROVE  /\ EndWait(c) \in CommandProcessor /\ SamePower(c, EndWait(c))
         /\ EndWait(c).stream = c.stream /\ EndWait(c).plan = c.plan
         /\ EndWait(c).get_pos = c.get_pos /\ EndWait(c).mode = c.mode
         /\ EndWait(c).state # "WAIT_FRESH_POSITION_TARGET"
         /\ EndWait(c).state = c.state \/ EndWait(c).state = "POSITION_ACTIVE"
<1> DEFINE s == IF c.state = "WAIT_FRESH_POSITION_TARGET" THEN "POSITION_ACTIVE" ELSE c.state
<1>1. /\ s \in {"POSITION_ACTIVE", "EFFORT_ACTIVE", "EFFORT_TO_POSITION_HOLD",
                "WAIT_FRESH_POSITION_TARGET"}
      /\ s # "WAIT_FRESH_POSITION_TARGET" /\ (s = c.state \/ s = "POSITION_ACTIVE")
  BY DEF CommandProcessor
<1>2. EndWait(c) = [c EXCEPT !.state = s]
  BY DEF EndWait
<1> HIDE DEF s
<1> QED BY <1>1, <1>2, ZenonT(60) DEF CommandProcessor, SamePower

\* A processor that takes targets leaves the wait and takes an interpolation mode.
LEMMA SetInterpolationLemma ==
  ASSUME NEW c \in CommandProcessor, TakesTargets(c), NEW m \in Interpolations
  PROVE  LET b == [EndWait(c) EXCEPT !.interp = m] IN
         /\ b \in CommandProcessor /\ SamePower(c, b) /\ b.stream = c.stream
         /\ b.state \notin {"EFFORT_TO_POSITION_HOLD", "WAIT_FRESH_POSITION_TARGET"}
<1> DEFINE w == EndWait(c)
           b == [w EXCEPT !.interp = m]
<1>1. /\ w \in CommandProcessor /\ SamePower(c, w) /\ w.stream = c.stream
      /\ w.state \notin {"EFFORT_TO_POSITION_HOLD", "WAIT_FRESH_POSITION_TARGET"}
  BY EndWaitLemma DEF TakesTargets
<1> HIDE DEF w
<1>2. /\ b \in CommandProcessor /\ SamePower(w, b) /\ b.stream = w.stream /\ b.state = w.state
  BY <1>1, ZenonT(60) DEF CommandProcessor, SamePower
<1> QED BY <1>1, <1>2 DEF SamePower, w

\* A target sets the trajectory of a processor that does not wait.
LEMMA PlanLemma ==
  ASSUME NEW c \in CommandProcessor, NEW t \in Targets, NEW near \in BOOLEAN,
         c.state \notin {"EFFORT_TO_POSITION_HOLD", "WAIT_FRESH_POSITION_TARGET"}
  PROVE  Good(Plan(c, t, near)) /\ SamePower(c, Plan(c, t, near))
         /\ Plan(c, t, near).stream = c.stream
<1> DEFINE plan == IF c.interp = "RUCKIG" THEN t ELSE c.plan
           moving == c.moving \/ (c.interp = "CUBIC" /\ ~near)
           e == [c EXCEPT !.get_pos = t, !.initialized = TRUE, !.plan = plan, !.moving = moving]
<1>1. Plan(c, t, near) = e
  BY DEF Plan
<1>2. plan \in Targets /\ moving \in BOOLEAN
  BY DEF CommandProcessor
<1> HIDE DEF plan, moving
<1>3. e \in CommandProcessor
  BY <1>2, ZenonT(200) DEF CommandProcessor
<1>4. SamePower(c, e) /\ e.stream = c.stream /\ e.state = c.state
  BY <1>2, ZenonT(200) DEF CommandProcessor, SamePower
<1> HIDE DEF e
<1> QED BY <1>1, <1>3, <1>4 DEF Good, WaitInv

LEMMA ProcessNewArmJointCommandLemma ==
  ASSUME NEW c, Good(c)
  PROVE  /\ Good(ProcessNewArmJointCommand(c)) /\ SamePower(c, ProcessNewArmJointCommand(c))
         /\ ProcessNewArmJointCommand(c).stream = c.stream
<1> DEFINE b == [EndWait(c) EXCEPT !.interp = "RUCKIG"]
<1>1. CASE TakesTargets(c)
  <2>1. /\ b \in CommandProcessor /\ SamePower(c, b) /\ b.stream = c.stream
        /\ b.state \notin {"EFFORT_TO_POSITION_HOLD", "WAIT_FRESH_POSITION_TARGET"}
    BY <1>1, SetInterpolationLemma DEF Good, Interpolations
  <2>2. ProcessNewArmJointCommand(c) = Plan(b, Local("absolute"), FALSE)
    BY <1>1 DEF ProcessNewArmJointCommand
  <2> HIDE DEF b
  <2> DEFINE p == Plan(b, Local("absolute"), FALSE)
  <2>3. Local("absolute") \in Targets /\ FALSE \in BOOLEAN
    BY TargetFacts
  <2>4. Good(p) /\ SamePower(b, p) /\ p.stream = b.stream
    BY <2>1, <2>3, PlanLemma
  <2> HIDE DEF p
  <2> QED BY <2>1, <2>2, <2>4, SamePowerTransitive DEF p
<1>2. CASE ~TakesTargets(c)
  BY <1>2 DEF ProcessNewArmJointCommand, SamePower
<1> QED BY <1>1, <1>2

LEMMA ProcessNewCommandLemma ==
  ASSUME NEW c, Good(c), NEW fresh, NEW msg \in ServoMessages
  PROVE  /\ Good(ProcessNewCommand(c, fresh, msg))
         /\ SamePower(c, ProcessNewCommand(c, fresh, msg))
         /\ ProcessNewCommand(c, fresh, msg).stream = NoStream
         /\ ~AcceptsServo(c, fresh) /\ c.stream = NoStream /\ Free(c) =>
              Free(ProcessNewCommand(c, fresh, msg))
<1> DEFINE a == [c EXCEPT !.stream = NoStream]
           b == [EndWait(a) EXCEPT !.interp = msg.run]
<1>1. a = ClearHeavyPositionStream(c) /\ c \in CommandProcessor
      /\ msg.run \in Interpolations /\ msg.near \in BOOLEAN
  BY DEF ClearHeavyPositionStream, Good, ServoMessages
<1>2. a.mode = c.mode /\ a.state = c.state /\ Good(a) /\ SamePower(c, a) /\ a.stream = NoStream
      /\ (c.stream = NoStream /\ Free(c) => Free(a))
  BY <1>1, ClearStreamLemma
<1>3. \/ ~AcceptsServo(c, fresh) /\ ProcessNewCommand(c, fresh, msg) = a
      \/ AcceptsServo(c, fresh) /\ ProcessNewCommand(c, fresh, msg) = b
      \/ AcceptsServo(c, fresh) /\ ProcessNewCommand(c, fresh, msg) = Plan(b, Local("servo"), msg.near)
  BY DEF ProcessNewCommand
<1>4. AcceptsServo(c, fresh) => TakesTargets(a)
  BY <1>2 DEF AcceptsServo, TakesTargets
<1> HIDE DEF a
<1>5. AcceptsServo(c, fresh) =>
        /\ b \in CommandProcessor /\ SamePower(a, b) /\ b.stream = a.stream
        /\ b.state \notin {"EFFORT_TO_POSITION_HOLD", "WAIT_FRESH_POSITION_TARGET"}
  BY <1>1, <1>2, <1>4, SetInterpolationLemma DEF Good
<1> HIDE DEF b
<1>6. AcceptsServo(c, fresh) =>
        /\ Good(b) /\ SamePower(c, b) /\ b.stream = NoStream
        /\ Good(Plan(b, Local("servo"), msg.near)) /\ SamePower(c, Plan(b, Local("servo"), msg.near))
        /\ Plan(b, Local("servo"), msg.near).stream = NoStream
  BY <1>1, <1>2, <1>5, PlanLemma, TargetFacts DEF Good, WaitInv, SamePower
<1> QED BY <1>2, <1>3, <1>6

LEMMA StartStreamLemma ==
  ASSUME NEW c \in CommandProcessor, NEW n \in 1 .. MaxSeq
  PROVE  /\ StartStream(c, Heavy(n)) \in CommandProcessor
         /\ SamePower(c, StartStream(c, Heavy(n)))
         /\ StartStream(c, Heavy(n)).stream = Heavy(n) /\ StartStream(c, Heavy(n)).initialized
         /\ StartStream(c, Heavy(n)).mode = c.mode /\ StartStream(c, Heavy(n)).state = c.state
<1> DEFINE t == Heavy(n)
<1>1. t \in Streams /\ t \in Targets
  BY TargetFacts
<1> HIDE DEF t
<1>2. /\ StartStream(c, t) \in CommandProcessor
      /\ SamePower(c, StartStream(c, t))
      /\ StartStream(c, t).stream = t /\ StartStream(c, t).initialized
      /\ StartStream(c, t).mode = c.mode /\ StartStream(c, t).state = c.state
  BY <1>1, ZenonT(60) DEF CommandProcessor, SamePower, StartStream
<1> QED BY <1>2 DEF t

\* What the acknowledgement of h promises of the processor.
Obeys(d, h) ==
  /\ d.initialized /\ d.mode # "EFFORT"
  /\ IF h.kind = "stop"
     THEN /\ d.stream = NoStream /\ d.state = "POSITION_ACTIVE"
          /\ d.interp = "RUCKIG" /\ d.plan = Here /\ d.get_pos = Here
     ELSE d.stream = Heavy(h.seq)

LEMMA ObeysFacts == ASSUME NEW d, NEW h, Obeys(d, h) PROVE Free(d) /\ Yielded(d)
BY TargetFacts DEF Obeys, Free, Yielded

LEMMA ProcessHeavyLemma ==
  ASSUME NEW c, Good(c), NEW h \in HeavyCommands
  PROVE  /\ Good(ProcessHeavy(c, h)) /\ SamePower(c, ProcessHeavy(c, h))
         /\ HeavyApplied(c, h) => Obeys(ProcessHeavy(c, h), h)
         /\ Free(c) => Free(ProcessHeavy(c, h))
         /\ Yielded(c) => Yielded(ProcessHeavy(c, h))
<1>1. /\ c \in CommandProcessor /\ WaitInv(c) /\ h.seq \in 1 .. MaxSeq
      /\ h.kind \in {"follow", "hold", "stop"}
  BY DEF Good, HeavyCommands
<1>2. CASE h.kind = "hold" /\ c.mode = "POSITION" /\ ~h.valid
  <2> DEFINE s == IF c.stream = NoStream THEN c.stream ELSE Mixed(h.seq)
             e == [c EXCEPT !.stream = s]
  <2>1. s \in Streams \cup {NoStream} /\ (c.stream # NoStream => s # NoStream)
    BY <1>1, TargetFacts
  <2>2. ProcessHeavy(c, h) = e
    BY <1>2 DEF ProcessHeavy
  <2> HIDE DEF s
  <2>3. /\ e \in CommandProcessor /\ SamePower(c, e) /\ e.state = c.state /\ e.get_pos = c.get_pos
        /\ e.plan = c.plan /\ e.initialized = c.initialized /\ e.mode = c.mode
        /\ e.interp = c.interp /\ e.stream = s
    BY <1>1, <2>1, ZenonT(60) DEF CommandProcessor, SamePower
  <2> HIDE DEF e
  <2>4. ~HeavyApplied(c, h)
    BY <1>2 DEF HeavyApplied
  <2>5. s = NoStream => c.stream = NoStream
    BY <2>1
  <2> QED BY <1>1, <2>1, <2>2, <2>3, <2>4, <2>5 DEF Good, WaitInv, Free, Yielded
<1>3. CASE ~(h.kind = "hold" /\ c.mode = "POSITION" /\ ~h.valid) /\ ~HeavyApplied(c, h)
  <2>1. ProcessHeavy(c, h) = c
    BY <1>3 DEF ProcessHeavy
  <2> QED BY <2>1, <1>3 DEF SamePower
<1>4. CASE h.kind = "follow" /\ HeavyApplied(c, h)
  <2> DEFINE w == EndWait(c)
             d == StartStream(w, Heavy(h.seq))
  <2>1. ProcessHeavy(c, h) = d
    BY <1>4 DEF ProcessHeavy
  <2>2. TakesTargets(c)
    BY <1>4 DEF HeavyApplied
  <2>3. /\ w \in CommandProcessor /\ SamePower(c, w) /\ w.mode # "EFFORT"
        /\ w.state \notin {"EFFORT_TO_POSITION_HOLD", "WAIT_FRESH_POSITION_TARGET"}
    BY <1>1, <2>2, EndWaitLemma DEF TakesTargets
  <2> HIDE DEF w
  <2>4. /\ d \in CommandProcessor /\ SamePower(w, d) /\ d.stream = Heavy(h.seq) /\ d.initialized
        /\ d.mode = w.mode /\ d.state = w.state
    BY <1>1, <2>3, StartStreamLemma
  <2> HIDE DEF d
  <2> QED BY <1>4, <2>1, <2>3, <2>4, TargetFacts DEF Good, WaitInv, SamePower, Obeys, Free, Yielded
<1>5. CASE h.kind = "hold" /\ HeavyApplied(c, h)
  <2> DEFINE w == [c EXCEPT !.state = "POSITION_ACTIVE"]
             d == StartStream(w, Heavy(h.seq))
  <2>1. ProcessHeavy(c, h) = d
    BY <1>5 DEF ProcessHeavy, HeavyApplied
  <2>2. c.mode = "POSITION"
    BY <1>5 DEF HeavyApplied
  <2>3. w \in CommandProcessor /\ SamePower(c, w) /\ w.mode = c.mode /\ w.state = "POSITION_ACTIVE"
    BY <1>1, ZenonT(60) DEF CommandProcessor, SamePower
  <2> HIDE DEF w
  <2>4. /\ d \in CommandProcessor /\ SamePower(w, d) /\ d.stream = Heavy(h.seq) /\ d.initialized
        /\ d.mode = w.mode /\ d.state = w.state
    BY <1>1, <2>3, StartStreamLemma
  <2> HIDE DEF d
  <2> QED BY <1>5, <2>1, <2>2, <2>3, <2>4, TargetFacts DEF Good, WaitInv, SamePower, Obeys, Free,
                                                             Yielded
<1>6. CASE h.kind = "stop" /\ HeavyApplied(c, h)
  <2>1. ProcessHeavy(c, h) = RequestPositionHold(c) /\ c.mode = "POSITION"
    BY <1>6 DEF ProcessHeavy, HeavyApplied
  <2> QED BY <1>6, <2>1, RequestPositionHoldLemma DEF Neutral, Obeys
<1> QED BY <1>1, <1>2, <1>3, <1>4, <1>5, <1>6

LEMMA JointCommandStateLemma ==
  ASSUME NEW c, Good(c), NEW allowed \in BOOLEAN, NEW done \in BOOLEAN
  PROVE  /\ Good(JointCommandState(c, allowed, done))
         /\ SamePower(c, JointCommandState(c, allowed, done))
         /\ JointCommandState(c, allowed, done).stream = c.stream
         /\ JointCommandState(c, allowed, done).state = "WAIT_FRESH_POSITION_TARGET" =>
              c.state \in {"EFFORT_TO_POSITION_HOLD", "WAIT_FRESH_POSITION_TARGET"}
         /\ Yielded(c) => Yielded(JointCommandState(c, allowed, done))
         /\ Free(c) \/ ~allowed \/ ~TakesTargets(c) \/ c.stream # NoStream =>
              Free(JointCommandState(c, allowed, done))
<1> DEFINE u == [c EXCEPT !.initialized = FALSE]
           a == IF ~allowed THEN u
                ELSE IF c.mode = "POSITION" /\ ~c.initialized THEN Sync(c) ELSE c
           s == IF a.state = "EFFORT_TO_POSITION_HOLD" THEN "WAIT_FRESH_POSITION_TARGET"
                ELSE a.state
           m == a.moving /\ ~done
           e == [a EXCEPT !.moving = m, !.state = s]
<1>1. c \in CommandProcessor /\ WaitInv(c)
  BY DEF Good
<1>2. JointCommandState(c, allowed, done) = e
  BY DEF JointCommandState
<1>3. /\ u \in CommandProcessor /\ SamePower(c, u) /\ u.stream = c.stream /\ u.state = c.state
      /\ u.get_pos = c.get_pos /\ u.plan = c.plan /\ u.interp = c.interp /\ u.mode = c.mode
      /\ ~u.initialized
  BY <1>1, ZenonT(60) DEF CommandProcessor, SamePower
<1> HIDE DEF u
<1>4. /\ a \in CommandProcessor /\ SamePower(c, a) /\ a.stream = c.stream /\ a.state = c.state
      /\ a.mode = c.mode /\ WaitInv(a) /\ (Free(c) => Free(a)) /\ (Yielded(c) => Yielded(a))
      /\ (~allowed => ~a.initialized)
  BY <1>1, <1>3, SyncLemma, TargetFacts DEF SamePower, WaitInv, Free, Yielded
<1> HIDE DEF a
<1>5. /\ s \in {"POSITION_ACTIVE", "EFFORT_ACTIVE", "EFFORT_TO_POSITION_HOLD",
                "WAIT_FRESH_POSITION_TARGET"}
      /\ s \in {"EFFORT_TO_POSITION_HOLD", "WAIT_FRESH_POSITION_TARGET"} =>
           a.state \in {"EFFORT_TO_POSITION_HOLD", "WAIT_FRESH_POSITION_TARGET"}
      /\ m \in BOOLEAN
  BY <1>4 DEF CommandProcessor
<1> HIDE DEF s, m
<1>6. /\ e \in CommandProcessor /\ SamePower(a, e) /\ e.stream = a.stream /\ e.state = s
      /\ e.get_pos = a.get_pos /\ e.plan = a.plan /\ e.interp = a.interp /\ e.mode = a.mode
      /\ e.initialized = a.initialized
  BY <1>4, <1>5, ZenonT(200) DEF CommandProcessor, SamePower
<1> HIDE DEF e
<1>7. Good(e) /\ SamePower(c, e) /\ (Free(c) => Free(e)) /\ (Yielded(c) => Yielded(e))
  BY <1>4, <1>5, <1>6 DEF Good, WaitInv, SamePower, Free, Yielded
<1>8. ~allowed \/ ~TakesTargets(c) \/ c.stream # NoStream => Free(e)
  BY <1>4, <1>6, TargetFacts DEF Free, TakesTargets, WaitInv
<1> QED BY <1>2, <1>4, <1>5, <1>6, <1>7, <1>8

LEMMA JointCommandPositionLemma ==
  ASSUME NEW c, Good(c), NEW allowed \in BOOLEAN
  PROVE  /\ JointCommandPosition(c, allowed) \in Targets
         /\ Yielded(c) => ~IsLocal(JointCommandPosition(c, allowed))
         /\ IsLocal(JointCommandPosition(c, allowed)) /\ ~RunsTrajectory(c, allowed) =>
              ~Free(c) /\ allowed /\ TakesTargets(c) /\ c.stream = NoStream
         /\ c.stream = NoStream /\ c.state \in {"EFFORT_TO_POSITION_HOLD",
                                                "WAIT_FRESH_POSITION_TARGET"} =>
              JointCommandPosition(c, allowed) = Here
         /\ \A h : allowed /\ Obeys(c, h) =>
              JointCommandPosition(c, allowed) = IF h.kind = "stop" THEN Here ELSE Heavy(h.seq)
<1> USE DEF RunsTrajectory, RunsPlanner
<1>1. /\ c.plan \in Targets /\ c.get_pos \in Targets /\ c.stream \in Streams \cup {NoStream}
      /\ c.mode \in ControlModes /\ WaitInv(c)
  BY DEF Good, CommandProcessor
<1>2. JointCommandPosition(c, allowed) \in Targets
  BY <1>1, TargetFacts DEF JointCommandPosition
<1>3. ASSUME Yielded(c)
      PROVE  ~IsLocal(JointCommandPosition(c, allowed))
  <2>1. CASE c.stream # NoStream
    BY <1>1, <2>1, TargetFacts DEF JointCommandPosition
  <2>2. CASE c.stream = NoStream
    BY <1>3, <2>2, TargetFacts DEF JointCommandPosition, Yielded
  <2> QED BY <2>1, <2>2
<1>4. ASSUME IsLocal(JointCommandPosition(c, allowed)), ~RunsTrajectory(c, allowed)
      PROVE  ~Free(c) /\ allowed /\ TakesTargets(c) /\ c.stream = NoStream
  <2>1. allowed /\ c.mode = "POSITION" /\ c.initialized
    BY <1>1, <1>4, TargetFacts DEF JointCommandPosition, ControlModes
  <2>2. c.stream = NoStream
    BY <1>1, <1>4, <2>1, TargetFacts DEF JointCommandPosition
  <2>3. IsLocal(c.plan) \/ IsLocal(c.get_pos)
    BY <1>4, <2>1, <2>2, TargetFacts DEF JointCommandPosition
  <2>4. c.state # "EFFORT_TO_POSITION_HOLD"
    BY <1>1, <2>3, TargetFacts DEF WaitInv
  <2> QED BY <2>1, <2>2, <2>3, <2>4 DEF Free, TakesTargets
<1>5. ASSUME c.stream = NoStream,
             c.state \in {"EFFORT_TO_POSITION_HOLD", "WAIT_FRESH_POSITION_TARGET"}
      PROVE  JointCommandPosition(c, allowed) = Here
  BY <1>1, <1>5 DEF JointCommandPosition, WaitInv
<1>6. ASSUME NEW h, allowed, Obeys(c, h)
      PROVE  JointCommandPosition(c, allowed) = IF h.kind = "stop" THEN Here ELSE Heavy(h.seq)
  BY <1>1, <1>6, TargetFacts DEF JointCommandPosition, Obeys, ControlModes
<1> QED BY <1>2, <1>3, <1>4, <1>5, <1>6

-----------------------------------------------------------------------------
(* The stages of update.                                                    *)

LEMMA NeutralTransitive ==
  ASSUME NEW c, NEW d, NEW e, Neutral(c, d), Neutral(d, e)
  PROVE  Neutral(c, e)
BY DEF Neutral

\* The power request and the feedback of the processor after the feedback fb.
PowerIs(c, fb) ==
  /\ c.power_enabled = IF box.power = "none"
                       THEN cp.power_enabled /\ \A a \in Axes : fb[a] # "unknown"
                       ELSE box.power = "on"
  /\ c.hardware_available = (\A a \in Axes : fb[a] # "unknown")
  /\ c.all_enabled = (\A a \in Axes : fb[a] = "enabled")

LEMMA PowerIsKept ==
  ASSUME NEW c, NEW d, NEW fb, PowerIs(c, fb), SamePower(c, d)
  PROVE  PowerIs(d, fb)
BY DEF PowerIs, SamePower

LEMMA RequestedLemma ==
  ASSUME TypeOK, Good(cp), NEW fb
  PROVE  Neutral(cp, Requested(fb)) /\ PowerIs(Requested(fb), fb)
<1> DEFINE u == UpdateJointState(cp, fb)
           m == IF box.mode = "none" THEN u ELSE RequestControlMode(u, box.mode)
           h == IF box.hwMode = "none" THEN m ELSE RequestControlMode(m, box.hwMode)
           r == IF box.power = "none" THEN h ELSE RequestPowerEnable(h, box.power = "on")
<1>1. Requested(fb) = r
  BY DEF Requested, WithRequests
<1>2. /\ Neutral(cp, u)
      /\ u.power_enabled = (cp.power_enabled /\ \A a \in Axes : fb[a] # "unknown")
      /\ u.hardware_available = (\A a \in Axes : fb[a] # "unknown")
      /\ u.all_enabled = (\A a \in Axes : fb[a] = "enabled")
  BY UpdateJointStateLemma
<1> HIDE DEF u
<1>3. /\ box.mode \in ControlModes \cup {"none"} /\ box.hwMode \in ControlModes \cup {"none"}
      /\ box.power \in {"none", "on", "off"}
  BY DEF TypeOK, Buffers
<1>4. Good(u)
  BY <1>2 DEF Neutral
<1>5. Neutral(u, m) /\ SamePower(u, m)
  BY <1>3, <1>4, RequestControlModeLemma DEF Neutral, SamePower
<1> HIDE DEF m
<1>6. Good(m)
  BY <1>5 DEF Neutral
<1>7. Neutral(m, h) /\ SamePower(m, h)
  BY <1>3, <1>6, RequestControlModeLemma DEF Neutral, SamePower
<1> HIDE DEF h
<1>8. Good(h)
  BY <1>7 DEF Neutral
<1>9. (box.power = "on") \in BOOLEAN
  OBVIOUS
<1>10. /\ Neutral(h, r)
       /\ r.power_enabled = IF box.power = "none" THEN h.power_enabled ELSE box.power = "on"
       /\ r.hardware_available = h.hardware_available
       /\ r.all_enabled = h.all_enabled
  BY <1>8, <1>9, RequestPowerEnableLemma DEF Neutral
<1> HIDE DEF r
<1>11. Neutral(cp, r)
  BY <1>2, <1>5, <1>7, <1>10, NeutralTransitive
<1>12. PowerIs(r, fb)
  BY <1>2, <1>5, <1>7, <1>10 DEF PowerIs, SamePower
<1> QED BY <1>1, <1>11, <1>12

LEMMA LeasedLemma ==
  ASSUME TypeOK, Good(cp), NEW fb
  PROVE  /\ Good(Leased(fb)) /\ PowerIs(Leased(fb), fb)
         /\ cp.stream = NoStream \/ LeaseEnded => Leased(fb).stream = NoStream
         /\ Free(cp) \/ LeaseEnded => Free(Leased(fb))
         /\ Yielded(cp) /\ ~LeaseEnded => Yielded(Leased(fb))
<1> DEFINE r == Requested(fb)
           k == ClearHeavyPositionStream(r)
           d == RequestPositionHold(k)
<1>1. Leased(fb) = IF LeaseEnded THEN d ELSE r
  BY DEF Leased, EndLease
<1>2. Neutral(cp, r) /\ PowerIs(r, fb) /\ Good(r)
  BY RequestedLemma DEF Neutral
<1> HIDE DEF r
<1>3. SamePower(r, k) /\ k.stream = NoStream /\ Good(k)
  BY <1>2, ClearStreamLemma
<1> HIDE DEF k
<1>4. Neutral(k, d) /\ SamePower(k, d) /\ Free(d)
  BY <1>3, RequestPositionHoldLemma
<1> HIDE DEF d
<1>5. Good(d) /\ PowerIs(d, fb) /\ d.stream = NoStream
  <2>1. PowerIs(d, fb)
    BY <1>2, <1>3, <1>4, PowerIsKept
  <2> QED BY <1>3, <1>4, <2>1 DEF Neutral
<1> QED BY <1>1, <1>2, <1>4, <1>5 DEF Neutral

LEMMA TakenIsCommand ==
  ASSUME TypeOK, HeavyTaken
  PROVE  box.heavy \in HeavyCommands
<1>1. box.heavy \in HeavyCommands \cup {NoHeavy} /\ rt.lastSeq \in 0 .. MaxSeq
  BY DEF TypeOK, Buffers
<1>2. box.heavy.seq > rt.lastSeq
  BY DEF HeavyTaken
<1>3. NoHeavy.seq = 0
  BY DEF NoHeavy
<1> QED BY <1>1, <1>2, <1>3, ArmAssumption

LEMMA CommandedLemma ==
  ASSUME TypeOK, Good(cp), NEW fb
  PROVE  /\ Good(Commanded(fb)) /\ PowerIs(Commanded(fb), fb)
         /\ Acks(fb) => Obeys(Commanded(fb), box.heavy)
         /\ Free(cp) \/ LeaseEnded \/ Acks(fb) => Free(Commanded(fb))
         /\ (Yielded(cp) /\ ~LeaseEnded) \/ Acks(fb) => Yielded(Commanded(fb))
         /\ ~box.lease => Commanded(fb) = Leased(fb)
<1> DEFINE l == Leased(fb)
           d == ProcessHeavy(l, box.heavy)
<1>1. Commanded(fb) = IF HeavyTaken THEN d ELSE l
  BY DEF Commanded
<1>2. Acks(fb) <=> HeavyTaken /\ HeavyApplied(l, box.heavy)
  BY DEF Acks
<1>3. /\ Good(l) /\ PowerIs(l, fb)
      /\ Free(cp) \/ LeaseEnded => Free(l)
      /\ Yielded(cp) /\ ~LeaseEnded => Yielded(l)
  BY LeasedLemma
<1> HIDE DEF l
<1>4. HeavyTaken =>
        /\ Good(d) /\ SamePower(l, d)
        /\ HeavyApplied(l, box.heavy) => Obeys(d, box.heavy)
        /\ Free(l) => Free(d)
        /\ Yielded(l) => Yielded(d)
  BY <1>3, TakenIsCommand, ProcessHeavyLemma
<1>5. ~box.lease => ~HeavyTaken
  BY DEF HeavyTaken
<1> HIDE DEF d
<1>6. HeavyTaken => PowerIs(d, fb)
  BY <1>3, <1>4, PowerIsKept
<1>7. Acks(fb) => Obeys(d, box.heavy) /\ Free(d) /\ Yielded(d)
  BY <1>2, <1>4, ObeysFacts
<1> QED BY <1>1, <1>2, <1>3, <1>4, <1>5, <1>6, <1>7 DEF l

LEMMA PlannedLemma ==
  ASSUME TypeOK, Good(cp), NEW fb, NEW msg \in ServoMessages
  PROVE  /\ Good(Planned(fb, msg)) /\ PowerIs(Planned(fb, msg), fb)
         /\ box.lease => Planned(fb, msg) = Commanded(fb)
         /\ cp.stream = NoStream \/ rt.leaseLast =>
              /\ ~box.lease => Planned(fb, msg).stream = NoStream
              /\ ~AcceptsLocal(fb) /\ Free(Commanded(fb)) => Free(Planned(fb, msg))
<1> DEFINE k == Commanded(fb)
           c == AfterAbsolute(fb)
           p == IF TakesServo THEN ProcessNewCommand(c, Fresh(fb), msg) ELSE c
<1>1. Planned(fb, msg) = p
  BY DEF Planned
<1>2. Good(k) /\ PowerIs(k, fb)
  BY CommandedLemma
<1>3. ~box.lease /\ (cp.stream = NoStream \/ rt.leaseLast) => k.stream = NoStream
  BY CommandedLemma, LeasedLemma DEF LeaseEnded
<1>4. c = IF TakesAbsolute THEN ProcessNewArmJointCommand(k) ELSE k
  BY DEF AfterAbsolute
<1>5. /\ AcceptsLocal(fb) <=> \/ TakesAbsolute /\ TakesTargets(k)
                              \/ TakesServo /\ AcceptsServo(c, Fresh(fb))
  BY DEF AcceptsLocal
<1>6. box.lease => ~TakesAbsolute /\ ~TakesServo
  BY DEF TakesAbsolute, TakesServo
<1> HIDE DEF k
<1>7. Good(c) /\ PowerIs(c, fb) /\ c.stream = k.stream
  BY <1>2, <1>4, ProcessNewArmJointCommandLemma, PowerIsKept
<1>8. ~AcceptsLocal(fb) => c = k
  BY <1>4, <1>5 DEF ProcessNewArmJointCommand
<1> HIDE DEF c
<1>9. Good(p) /\ PowerIs(p, fb) /\ (p.stream = c.stream \/ p.stream = NoStream)
  BY <1>7, ProcessNewCommandLemma, PowerIsKept
<1>10. ~AcceptsLocal(fb) /\ (TakesServo => c.stream = NoStream) /\ Free(c) => Free(p)
  BY <1>5, <1>7, ProcessNewCommandLemma
<1>11. box.lease => p = k
  BY <1>4, <1>6
<1>12. TakesServo => ~box.lease
  BY DEF TakesServo
<1> HIDE DEF p
<1> QED BY <1>1, <1>3, <1>7, <1>8, <1>9, <1>10, <1>11, <1>12 DEF k

-----------------------------------------------------------------------------
\* What may be commanded without a new local command is known to be free.
LocalKnown == ~hist.local => Free(cp)

\* The watermark is positive only under the lease that update saw last, and the
\* processor has then given up the local targets.
WatermarkInv == rt.lastSeq > 0 => rt.leaseLast /\ Yielded(cp)

\* The inductive invariant of the controller.
ArmInv ==
  /\ TypeOK /\ WaitInv(cp) /\ LocalKnown /\ WatermarkInv
  /\ AckIsCommanded /\ LocalYieldsToGateway /\ StreamNeedsLease /\ WaitHoldsPose /\ NoPlanResumes

\* Every step of the controller and of its environment, with any feedback.
ArmStep ==
  \/ \E fb \in [Axes -> Statuses], msg \in ServoMessages, done \in BOOLEAN : Update(fb, msg, done)
  \/ Callback \/ PowerRequests \/ OnActivate \/ OnDeactivate

LEMMA InitHolds == Init => ArmInv
<1> SUFFICES ASSUME Init PROVE ArmInv
  OBVIOUS
<1> USE DEF Init, ArmInit
<1>1. cp \in CommandProcessor /\ cp.stream = NoStream /\ ~cp.initialized /\ cp.state = "POSITION_ACTIVE"
  BY TargetFacts DEF NewProcessor, CommandProcessor, ControlModes, Interpolations
<1>2. box \in Buffers
  BY DEF NewBox, Buffers, Statuses
<1>3. TypeOK
  BY <1>1, <1>2, TargetFacts, ArmAssumption
     DEF TypeOK, NewCommands, NewController, NewService, NewHistory, ControlModes
<1>4. ~hist.misled /\ hist.resumed = "no" /\ rt.lastSeq = 0
  BY DEF NewHistory, NewController
<1>5. ~(rt.lastSeq > 0)
  BY <1>4
<1> QED BY <1>1, <1>3, <1>4, <1>5 DEF ArmInv, WaitInv, Free, LocalKnown, WatermarkInv, AckIsCommanded,
             LocalYieldsToGateway, StreamNeedsLease, WaitHoldsPose, NoPlanResumes

\* The buffers after an update.
LEMMA UpdatedBuffers ==
  ASSUME TypeOK, NEW fb \in [Axes -> Statuses], NEW msg \in ServoMessages, NEW done \in BOOLEAN,
         Update(fb, msg, done), Good(cp)
  PROVE  /\ box' \in Buffers /\ box'.power = "none" /\ box'.servo = "none" /\ ~box'.absolute
         /\ box'.status = fb /\ box'.lease = box.lease
<1> DEFINE c == Planned(fb, msg)
           left == DropLocal(box)
           heavy == IF box.lease \/ LeaseEnded THEN NoHeavy ELSE left.heavy
           applied == left.applied \/ box.power # "none"
           enabled == c.power_enabled /\ c.hardware_available
           all == c.all_enabled
<1>1. box' = [left EXCEPT !.mode = "none", !.hwMode = "none", !.power = "none",
                          !.heavy = heavy, !.applied = applied, !.status = fb,
                          !.commandEnabled = enabled, !.allEnabled = all]
  BY DEF Update
<1>2. Good(c)
  BY PlannedLemma
<1> HIDE DEF c
<1>3. c.power_enabled \in BOOLEAN /\ c.hardware_available \in BOOLEAN /\ c.all_enabled \in BOOLEAN
  BY <1>2 DEF Good, CommandProcessor
<1>4. box \in Buffers
  BY DEF TypeOK
<1>5. left \in Buffers /\ left.servo = "none" /\ left.absolute = FALSE /\ left.lease = box.lease
  BY <1>4, ZenonT(60) DEF DropLocal, Buffers
<1> HIDE DEF left
<1>6. heavy \in HeavyCommands \cup {NoHeavy}
  BY <1>5 DEF Buffers
<1>7. applied \in BOOLEAN /\ enabled \in BOOLEAN /\ all \in BOOLEAN
  BY <1>3
<1> HIDE DEF heavy, applied, enabled, all
<1> QED BY <1>1, <1>5, <1>6, <1>7, ZenonT(60) DEF Buffers

LEMMA UpdateKeeps ==
  ASSUME ArmInv, NEW fb \in [Axes -> Statuses], NEW msg \in ServoMessages, NEW done \in BOOLEAN,
         Update(fb, msg, done)
  PROVE  ArmInv'
<1> DEFINE c == Planned(fb, msg)
           allowed == ExecutionAllowed(c)
           pos == JointCommandPosition(c, allowed)
           runs == RunsTrajectory(c, allowed)
           follows == FollowsLocal(fb, c)
<1>1. /\ cp' = JointCommandState(c, allowed, done)
      /\ cmd' = [power |-> c.power_enabled, mode |-> c.mode, position |-> pos]
      /\ UNCHANGED <<svc, bus>>
  BY DEF Update
<1>2. TypeOK /\ Good(cp)
  BY DEF ArmInv, TypeOK, Good
<1>3. /\ Good(c)
      /\ box.lease => c = Commanded(fb)
      /\ ~box.lease => c.stream = NoStream
      /\ ~AcceptsLocal(fb) /\ Free(Commanded(fb)) => Free(c)
  BY <1>2, PlannedLemma DEF ArmInv, StreamNeedsLease
<1>4. allowed = (c.all_enabled \/ (SimExecution /\ box.lease)) /\ allowed \in BOOLEAN
  BY DEF ExecutionAllowed
<1>5. (Acks(fb) => HeavyTaken) /\ (HeavyTaken => box.lease) /\ (LeaseEnded => ~box.lease)
  BY DEF Acks, HeavyTaken, LeaseEnded
<1>6. rt' = [rt EXCEPT !.leaseLast = box.lease,
                       !.lastSeq = IF LeaseEnded THEN 0 ELSE IF Acks(fb) THEN box.heavy.seq ELSE @]
  BY DEF Update
<1>7. hist' = [hist EXCEPT
                !.misled = Acks(fb) /\ c.all_enabled
                           /\ pos # IF box.heavy.kind = "stop" THEN Here ELSE Heavy(box.heavy.seq),
                !.local = follows,
                !.resumed = IF ~IsLocal(pos) \/ follows THEN "no"
                            ELSE IF runs THEN "trajectory" ELSE "plan"]
  BY DEF Update
<1>8. follows = (((hist.local /\ ~LeaseEnded /\ ~Acks(fb)) \/ AcceptsLocal(fb))
                 /\ allowed /\ TakesTargets(c) /\ c.stream = NoStream)
  BY DEF FollowsLocal
<1>9. (Acks(fb) => Obeys(c, box.heavy))
  BY <1>2, <1>3, <1>5, CommandedLemma
\* Without a new local command only what is free can be commanded.
<1>10. ~follows /\ allowed /\ TakesTargets(c) /\ c.stream = NoStream => Free(c)
  <2>1. ~hist.local => Free(cp)
    BY DEF ArmInv, LocalKnown
  <2>2. Free(cp) \/ LeaseEnded \/ Acks(fb) => Free(Commanded(fb))
    BY <1>2, CommandedLemma
  <2> QED BY <1>3, <1>8, <2>1, <2>2
\* Under a lease with an acknowledgement the local targets are given up.
<1>11. ~LeaseEnded /\ (rt.lastSeq > 0 \/ Acks(fb)) => box.lease /\ Yielded(c)
  <2>1. rt.lastSeq > 0 => rt.leaseLast /\ Yielded(cp)
    BY DEF ArmInv, WatermarkInv
  <2>2. (Yielded(cp) /\ ~LeaseEnded) \/ Acks(fb) => Yielded(Commanded(fb))
    BY <1>2, CommandedLemma
  <2>3. rt.leaseLast /\ ~LeaseEnded => box.lease
    BY DEF LeaseEnded
  <2> QED BY <1>3, <1>5, <2>1, <2>2, <2>3
<1> HIDE DEF c, allowed, follows, runs
<1>12. /\ cp' \in CommandProcessor /\ WaitInv(cp') /\ cp'.stream = c.stream
       /\ cp'.state = "WAIT_FRESH_POSITION_TARGET" =>
            c.state \in {"EFFORT_TO_POSITION_HOLD", "WAIT_FRESH_POSITION_TARGET"}
       /\ Yielded(c) => Yielded(cp')
       /\ ~follows => Free(cp')
  BY <1>1, <1>3, <1>4, <1>10, JointCommandStateLemma DEF Good
<1>13. /\ pos \in Targets
       /\ c.stream = NoStream /\ c.state \in {"EFFORT_TO_POSITION_HOLD",
                                              "WAIT_FRESH_POSITION_TARGET"} => pos = Here
       /\ allowed /\ Acks(fb) => pos = IF box.heavy.kind = "stop" THEN Here ELSE Heavy(box.heavy.seq)
       /\ Yielded(c) => ~IsLocal(pos)
       /\ IsLocal(pos) /\ ~runs => follows
  BY <1>3, <1>4, <1>9, <1>10, JointCommandPositionLemma DEF runs
<1> HIDE DEF pos
<1>14. cmd' \in [power : BOOLEAN, mode : ControlModes, position : Targets] /\ cmd'.position = pos
  BY <1>1, <1>3, <1>13 DEF Good, CommandProcessor
<1>15. /\ rt' \in [active : BOOLEAN, leaseLast : BOOLEAN, lastSeq : 0 .. MaxSeq]
       /\ rt'.leaseLast = box.lease
       /\ rt'.lastSeq > 0 => ~LeaseEnded /\ (rt.lastSeq > 0 \/ Acks(fb))
  <2> DEFINE n == IF LeaseEnded THEN 0 ELSE IF Acks(fb) THEN box.heavy.seq ELSE rt.lastSeq
  <2>1. n \in 0 .. MaxSeq
    <3>1. Acks(fb) => box.heavy.seq \in 0 .. MaxSeq
      BY <1>2, <1>5, TakenIsCommand, ArmAssumption DEF HeavyCommands
    <3> QED BY <1>2, <3>1, ArmAssumption DEF TypeOK
  <2>2. n > 0 => ~LeaseEnded /\ (rt.lastSeq > 0 \/ Acks(fb))
    OBVIOUS
  <2>3. rt' = [rt EXCEPT !.leaseLast = box.lease, !.lastSeq = n]
    BY <1>6
  <2> HIDE DEF n
  <2>4. box.lease \in BOOLEAN /\ rt \in [active : BOOLEAN, leaseLast : BOOLEAN, lastSeq : 0 .. MaxSeq]
    BY <1>2 DEF TypeOK, Buffers
  <2>5. /\ rt' \in [active : BOOLEAN, leaseLast : BOOLEAN, lastSeq : 0 .. MaxSeq]
        /\ rt'.leaseLast = box.lease /\ rt'.lastSeq = n
    BY <2>1, <2>3, <2>4, Zenon
  <2> QED BY <2>2, <2>5
<1>16. /\ hist' \in [misled : BOOLEAN, local : BOOLEAN, resumed : {"no", "plan", "trajectory"},
                     failedEnable : BOOLEAN]
       /\ ~hist'.misled /\ hist'.local = follows /\ hist'.resumed # "plan"
       /\ hist'.failedEnable = hist.failedEnable
  <2> DEFINE mis == Acks(fb) /\ c.all_enabled
                    /\ pos # IF box.heavy.kind = "stop" THEN Here ELSE Heavy(box.heavy.seq)
             res == IF ~IsLocal(pos) \/ follows THEN "no"
                    ELSE IF runs THEN "trajectory" ELSE "plan"
  <2>1. mis = FALSE
    BY <1>4, <1>13
  <2>2. res \in {"no", "trajectory"} /\ follows \in BOOLEAN
    BY <1>8, <1>13
  <2>3. hist' = [hist EXCEPT !.misled = mis, !.local = follows, !.resumed = res]
    BY <1>7
  <2> HIDE DEF mis, res
  <2>4. hist' = [hist EXCEPT !.misled = FALSE, !.local = follows, !.resumed = res]
    BY <2>1, <2>3
  <2> QED BY <2>2, <2>4, <1>2, ZenonT(60) DEF TypeOK
<1>17. TypeOK'
  BY <1>1, <1>2, <1>12, <1>14, <1>15, <1>16, UpdatedBuffers DEF TypeOK
<1>18. StreamNeedsLease' /\ WaitHoldsPose'
  BY <1>3, <1>12, <1>13, <1>14, <1>15 DEF StreamNeedsLease, WaitHoldsPose
<1>19. WatermarkInv' /\ LocalYieldsToGateway'
  BY <1>11, <1>12, <1>13, <1>14, <1>15 DEF WatermarkInv, LocalYieldsToGateway
<1>20. LocalKnown' /\ AckIsCommanded' /\ NoPlanResumes'
  BY <1>12, <1>16 DEF LocalKnown, AckIsCommanded, NoPlanResumes
<1> QED BY <1>12, <1>17, <1>18, <1>19, <1>20 DEF ArmInv

\* A step that leaves the processor, the command interfaces and the members of
\* update alone preserves the invariant if it keeps the other types.
LEMMA OutsideKeeps ==
  ASSUME ArmInv, UNCHANGED <<cp, cmd, rt>>,
         box' \in Buffers,
         svc' \in [pc : {"idle", "submit", "wait", "rollback", "rollback_wait"}, enable : BOOLEAN],
         bus' \in HeavyCommands \cup {NoHeavy},
         hist' = hist \/ \E f \in BOOLEAN : hist' = [hist EXCEPT !.failedEnable = f]
  PROVE  ArmInv'
<1>1. TypeOK
  BY DEF ArmInv
<1>2. hist \in [misled : BOOLEAN, local : BOOLEAN, resumed : {"no", "plan", "trajectory"},
               failedEnable : BOOLEAN]
  BY <1>1 DEF TypeOK
<1>3. /\ hist' \in [misled : BOOLEAN, local : BOOLEAN, resumed : {"no", "plan", "trajectory"},
                    failedEnable : BOOLEAN]
      /\ hist'.misled = hist.misled /\ hist'.local = hist.local /\ hist'.resumed = hist.resumed
  BY <1>2, ZenonT(60)
<1>4. TypeOK'
  BY <1>1, <1>3 DEF TypeOK
<1> QED BY <1>3, <1>4 DEF ArmInv, WaitInv, Free, Yielded, LocalKnown, WatermarkInv, AckIsCommanded,
             LocalYieldsToGateway, StreamNeedsLease, WaitHoldsPose, NoPlanResumes

LEMMA CallbackKeeps == ASSUME ArmInv, Callback PROVE ArmInv'
<1>1. box \in Buffers /\ TypeOK
  BY DEF ArmInv, TypeOK
<1>2. ASSUME NEW age \in {"fresh", "stale"}, ReceiveServo(age) PROVE ArmInv'
  <2>1. box' \in Buffers
    BY <1>1, <1>2, Zenon DEF ReceiveServo, Buffers
  <2> QED BY <1>1, <1>2, <2>1, OutsideKeeps DEF ReceiveServo, TypeOK
<1>3. ASSUME ReceiveAbsolute PROVE ArmInv'
  <2>1. box' \in Buffers
    BY <1>1, <1>3, Zenon DEF ReceiveAbsolute, Buffers
  <2> QED BY <1>1, <1>3, <2>1, OutsideKeeps DEF ReceiveAbsolute, TypeOK
<1>4. ASSUME NEW kind \in HeavyKinds, NEW valid \in BOOLEAN, ReceiveHeavy(kind, valid) PROVE ArmInv'
  <2>1. bus.seq \in 0 .. MaxSeq /\ bus.seq < MaxSeq
    BY <1>1, <1>4, ArmAssumption DEF TypeOK, HeavyCommands, NoHeavy, ReceiveHeavy
  <2>2. bus' \in HeavyCommands
    BY <1>4, <2>1, ArmAssumption DEF ReceiveHeavy, HeavyCommands
  <2>3. box' = [box EXCEPT !.heavy = bus']
    BY <1>4 DEF ReceiveHeavy
  <2>4. box' \in Buffers
    BY <1>1, <2>2, <2>3, Zenon DEF Buffers
  <2> QED BY <1>1, <1>4, <2>2, <2>4, OutsideKeeps DEF ReceiveHeavy, TypeOK
<1>5. ASSUME ReceiveHeavyAgain PROVE ArmInv'
  <2>1. bus \in HeavyCommands \cup {NoHeavy}
    BY <1>1 DEF TypeOK
  <2>2. box' \in Buffers
    BY <1>1, <1>5, <2>1, Zenon DEF ReceiveHeavyAgain, Buffers
  <2> QED BY <1>1, <1>5, <2>2, OutsideKeeps DEF ReceiveHeavyAgain, TypeOK
<1>7. ASSUME NEW value \in BOOLEAN, ReceiveGate(value) PROVE ArmInv'
  <2>1. box' \in Buffers
    BY <1>1, <1>7, Zenon DEF ReceiveGate, Buffers
  <2> QED BY <1>1, <1>7, <2>1, OutsideKeeps DEF ReceiveGate, TypeOK
<1>6. ASSUME NEW mode \in ControlModes, ReceiveMode(mode) PROVE ArmInv'
  <2>1. box' \in Buffers
    BY <1>1, <1>6, Zenon DEF ReceiveMode, Buffers
  <2> QED BY <1>1, <1>6, <2>1, OutsideKeeps DEF ReceiveMode, TypeOK
<1> QED BY <1>2, <1>3, <1>4, <1>5, <1>6, <1>7 DEF Callback

LEMMA PowerRequestsKeep == ASSUME ArmInv, PowerRequests PROVE ArmInv'
<1>1. box \in Buffers /\ TypeOK
  BY DEF ArmInv, TypeOK
<1>2. svc \in [pc : {"idle", "submit", "wait", "rollback", "rollback_wait"}, enable : BOOLEAN]
  BY <1>1 DEF TypeOK
<1>3. ASSUME NEW value \in {"on", "off"}, ReceivePower(value) PROVE ArmInv'
  <2>1. box' \in Buffers
    BY <1>1, <1>3, Zenon DEF ReceivePower, Buffers
  <2> QED BY <1>1, <1>3, <2>1, OutsideKeeps DEF ReceivePower, TypeOK
<1>4. ASSUME NEW enable \in BOOLEAN, PowerSubmit(enable) PROVE ArmInv'
  <2>1. box' \in Buffers
    BY <1>1, <1>4, Zenon DEF PowerSubmit, Buffers
  <2>2. svc' \in [pc : {"idle", "submit", "wait", "rollback", "rollback_wait"}, enable : BOOLEAN]
    BY <1>4, Zenon DEF PowerSubmit
  <2> QED BY <1>1, <1>4, <2>1, <2>2, OutsideKeeps DEF PowerSubmit, TypeOK
<1>5. ASSUME PowerStore PROVE ArmInv'
  <2>1. box' \in Buffers
    <3> DEFINE v == IF svc.enable THEN "on" ELSE "off"
    <3>1. v \in {"none", "on", "off"} /\ box' = [box EXCEPT !.power = v]
      BY <1>5 DEF PowerStore
    <3> HIDE DEF v
    <3> QED BY <1>1, <3>1, Zenon DEF Buffers
  <2>2. svc' \in [pc : {"idle", "submit", "wait", "rollback", "rollback_wait"}, enable : BOOLEAN]
    BY <1>2, <1>5 DEF PowerStore
  <2> QED BY <1>1, <1>5, <2>1, <2>2, OutsideKeeps DEF PowerStore, TypeOK
<1>6. ASSUME PowerConfirmed PROVE ArmInv'
  <2>1. svc' \in [pc : {"idle", "submit", "wait", "rollback", "rollback_wait"}, enable : BOOLEAN]
    BY <1>2, <1>6 DEF PowerConfirmed
  <2>2. \E f \in BOOLEAN : hist' = [hist EXCEPT !.failedEnable = f]
    <3>1. hist' = [hist EXCEPT !.failedEnable = svc.pc = "rollback_wait"]
      BY <1>6 DEF PowerConfirmed
    <3> QED BY <3>1, ZenonT(60)
  <2> QED BY <1>1, <1>6, <2>1, <2>2, OutsideKeeps DEF PowerConfirmed, TypeOK
<1>7. ASSUME PowerFailed PROVE ArmInv'
  <2>1. CASE svc.enable
    <3>1. box' \in Buffers
      BY <1>1, <1>7, <2>1, ZenonT(60) DEF PowerFailed, Buffers
    <3>2. svc' \in [pc : {"idle", "submit", "wait", "rollback", "rollback_wait"}, enable : BOOLEAN]
      <4>1. svc' = [pc |-> "rollback", enable |-> FALSE]
        BY <1>7, <2>1 DEF PowerFailed
      <4> QED BY <4>1
    <3> QED BY <1>1, <1>7, <2>1, <3>1, <3>2, OutsideKeeps DEF PowerFailed, TypeOK
  <2>2. CASE ~svc.enable
    <3>1. svc' \in [pc : {"idle", "submit", "wait", "rollback", "rollback_wait"}, enable : BOOLEAN]
      BY <1>2, <1>7, <2>2 DEF PowerFailed
    <3>2. \E f \in BOOLEAN : hist' = [hist EXCEPT !.failedEnable = f]
      <4>1. hist' = [hist EXCEPT !.failedEnable = svc.pc = "rollback_wait"]
        BY <1>7, <2>2 DEF PowerFailed
      <4> QED BY <4>1, ZenonT(60)
    <3> QED BY <1>1, <1>7, <2>2, <3>1, <3>2, OutsideKeeps DEF PowerFailed, TypeOK
  <2> QED BY <2>1, <2>2
<1> QED BY <1>3, <1>4, <1>5, <1>6, <1>7 DEF PowerRequests

LEMMA LifecycleKeeps == ASSUME ArmInv, OnActivate \/ OnDeactivate PROVE ArmInv'
<1>1. TypeOK /\ cp \in CommandProcessor /\ box \in Buffers
  BY DEF ArmInv, TypeOK
<1>2. CASE OnActivate
  <2>1. /\ rt' \in [active : BOOLEAN, leaseLast : BOOLEAN, lastSeq : 0 .. MaxSeq]
        /\ rt'.leaseLast = rt.leaseLast /\ rt'.lastSeq = rt.lastSeq
    BY <1>1, <1>2, Zenon DEF OnActivate, TypeOK
  <2>2. TypeOK'
    BY <1>1, <1>2, <2>1 DEF TypeOK, OnActivate
  <2> QED BY <1>2, <2>1, <2>2 DEF OnActivate, ArmInv, WaitInv, Free, Yielded, LocalKnown,
             WatermarkInv, AckIsCommanded, LocalYieldsToGateway, StreamNeedsLease, WaitHoldsPose,
             NoPlanResumes
<1>3. CASE OnDeactivate
  <2>1. /\ rt' \in [active : BOOLEAN, leaseLast : BOOLEAN, lastSeq : 0 .. MaxSeq]
        /\ rt'.leaseLast = rt.leaseLast /\ rt'.lastSeq = rt.lastSeq
    BY <1>1, <1>3, Zenon DEF OnDeactivate, TypeOK
  <2>2. box' \in Buffers
    BY <1>1, <1>3, Zenon DEF OnDeactivate, Buffers
  <2>3. /\ cmd' \in [power : BOOLEAN, mode : ControlModes, position : Targets]
        /\ cmd'.position = cmd.position
    BY <1>1, <1>3, Zenon DEF OnDeactivate, TypeOK
  <2>4. /\ Good(cp') /\ cp'.stream = NoStream /\ cp'.state = "POSITION_ACTIVE"
        /\ Free(cp') /\ Yielded(cp')
    BY <1>1, <1>3, ResetLemma DEF OnDeactivate
  <2>5. /\ hist' \in [misled : BOOLEAN, local : BOOLEAN, resumed : {"no", "plan", "trajectory"},
                      failedEnable : BOOLEAN]
        /\ hist'.misled = hist.misled /\ hist'.resumed = hist.resumed
    BY <1>1, <1>3, ZenonT(60) DEF OnDeactivate, TypeOK
  <2>6. TypeOK'
    BY <1>1, <1>3, <2>1, <2>2, <2>3, <2>4, <2>5 DEF TypeOK, Good, OnDeactivate
  <2>7. WatermarkInv' /\ LocalYieldsToGateway' /\ LocalKnown'
    BY <2>1, <2>3, <2>4 DEF ArmInv, WatermarkInv, LocalYieldsToGateway, LocalKnown
  <2> QED BY <2>4, <2>5, <2>6, <2>7 DEF ArmInv, Good, AckIsCommanded, StreamNeedsLease, WaitHoldsPose,
                                        NoPlanResumes
<1> QED BY <1>2, <1>3

LEMMA StepKeeps == ASSUME ArmInv, ArmStep PROVE ArmInv'
BY UpdateKeeps, CallbackKeeps, PowerRequestsKeep, LifecycleKeeps DEF ArmStep

LEMMA StutterKeeps == ASSUME ArmInv, UNCHANGED armVars PROVE ArmInv'
BY DEF ArmInv, armVars, TypeOK, WaitInv, Free, Yielded, LocalKnown, WatermarkInv, AckIsCommanded,
       LocalYieldsToGateway, StreamNeedsLease, WaitHoldsPose, NoPlanResumes

LEMMA NextIsStep == Next => ArmStep
<1> SUFFICES ASSUME Next PROVE ArmStep
  OBVIOUS
<1>1. ASSUME NEW fb \in [Axes -> Feedbacks], NEW msg \in ServoMessages, NEW done \in BOOLEAN,
             Update(fb, msg, done)
      PROVE  ArmStep
  <2>1. fb \in [Axes -> Statuses]
    BY ArmAssumption DEF Statuses
  <2> QED BY <1>1, <2>1 DEF ArmStep
<1> QED BY <1>1 DEF Next, ArmStep

-----------------------------------------------------------------------------
\* The invariant is inductive.
THEOREM ArmInvariant == Spec => []ArmInv
<1>1. ArmInv /\ [Next]_armVars => ArmInv'
  BY StepKeeps, StutterKeeps, NextIsStep
<1> QED BY <1>1, InitHolds, PTL DEF Spec

\* Every variable keeps its type, in particular the target that is commanded
\* and the watermark of the gateway's sequences.
THEOREM TypesHold == Spec => []TypeOK
<1>1. ArmInv => TypeOK
  BY DEF ArmInv
<1> QED BY <1>1, ArmInvariant, PTL

\* update acknowledges a gateway command only if it commands its target in the
\* same cycle, for every number of axes and every interleaving of mode and
\* lease changes with the commands.
THEOREM AcksAreCommanded == Spec => []AckIsCommanded
<1>1. ArmInv => AckIsCommanded
  BY DEF ArmInv
<1> QED BY <1>1, ArmInvariant, PTL

\* Once update has acknowledged a gateway command, no local target is commanded
\* until it has seen the end of the lease: the invariant WatermarkInv says that
\* either a stream is written or neither planner has a local target.
THEOREM LocalsYieldToGateway == Spec => []LocalYieldsToGateway
<1>1. ArmInv => LocalYieldsToGateway
  BY DEF ArmInv
<1> QED BY <1>1, ArmInvariant, PTL

\* A gateway stream lives only under the lease that the last update saw.
THEOREM StreamsNeedLease == Spec => []StreamNeedsLease
<1>1. ArmInv => StreamNeedsLease
  BY DEF ArmInv
<1> QED BY <1>1, ArmInvariant, PTL

\* After EFFORT the measured pose is commanded until a fresh target arrives.
THEOREM WaitsHoldPose == Spec => []WaitHoldsPose
<1>1. ArmInv => WaitHoldsPose
  BY DEF ArmInv
<1> QED BY <1>1, ArmInvariant, PTL

\* After an interruption (drives disabled, EFFORT, the end of a lease, a gateway
\* command) no local target is commanded again without a new local command, in
\* any later cycle; but by axis planners that are still moving.
THEOREM PlansDoNotResume == Spec => []NoPlanResumes
<1>1. ArmInv => NoPlanResumes
  BY DEF ArmInv
<1> QED BY <1>1, ArmInvariant, PTL
==============================================================================
