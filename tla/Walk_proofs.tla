------------------------------ MODULE Walk_proofs ------------------------------
(****************************************************************************)
(* The types of Walk; that the robot trots, whatever the width of sg_ticks: *)
(* it need not be a multiple of the cycle, and 2^32 is none; that a         *)
(* joystick value is obeyed only while it is fresh; and, with Alone, that   *)
(* no foot jumps, for the widths that do not wrap in the upper part of a    *)
(* swing.                                                                   *)
(****************************************************************************)
EXTENDS Walk, TLAPS

(* Where the phases of the cycle end. *)
LEMMA PhaseEnds ==
    /\ PhaseEnd[0] = 0 /\ PhaseEnd[1] = 6 /\ PhaseEnd[2] = 12
    /\ PhaseEnd[3] = 18 /\ PhaseEnd[4] = 24
  <1> DEFINE ends == [i \in 0 .. 4 |-> 6 * i]
             sums(f) == [i \in 0 .. 4 |-> IF i = 0 THEN 0 ELSE f[i - 1] + PhaseTicks[i]]
  <1>1. \A i \in 1 .. 4 : PhaseTicks[i] = 6
    BY DEF PhaseTicks, OverlapTicks, SwingTicks
  <1>2. ends = sums(ends)
    BY <1>1
  <1>3. PhaseEnd = sums(PhaseEnd)
    <2>1. PhaseEnd = CHOOSE f : f = sums(f)
      BY DEF PhaseEnd
    <2> HIDE DEF ends, sums
    <2> QED BY <1>2, <2>1
  <1>4. \A i \in 1 .. 4 : PhaseEnd[i] = PhaseEnd[i - 1] + 6
    BY <1>1, <1>3
  <1>5. PhaseEnd[0] = 0
    BY <1>3
  <1> QED BY <1>4, <1>5

(* The tick within the cycle. *)
Within(t) == t % 24

(* There are 24 of them. *)
LEMMA WithinCycle == ASSUME NEW t \in Nat PROVE Within(t) \in 0 .. 23
  BY DEF Within

(* Each phase takes a quarter of it. *)
LEMMA PhaseValue ==
    ASSUME NEW t \in Nat
    PROVE  /\ Phase(t) \in 1 .. 4
           /\ Subphase(t) \in 0 .. 5
           /\ Phase(t) = 2 <=> Within(t) \in 6 .. 11
           /\ Phase(t) = 4 <=> Within(t) \in 18 .. 23
  <1> DEFINE holds(i) == PhaseEnd[i - 1] <= t % PhaseLength /\ t % PhaseLength < PhaseEnd[i]
  <1>1. t % PhaseLength = Within(t)
    BY DEF PhaseLength, OverlapTicks, SwingTicks, Within
  <1>2. /\ holds(1) <=> Within(t) \in 0 .. 5
        /\ holds(2) <=> Within(t) \in 6 .. 11
        /\ holds(3) <=> Within(t) \in 12 .. 17
        /\ holds(4) <=> Within(t) \in 18 .. 23
    BY <1>1, PhaseEnds, WithinCycle
  <1>3. \E i \in 1 .. 4 : holds(i)
    BY <1>2, WithinCycle
  <1>4. Phase(t) = CHOOSE i \in 1 .. 4 : holds(i)
    BY DEF Phase
  <1>5. Phase(t) \in 1 .. 4 /\ holds(Phase(t))
    <2> HIDE DEF holds
    <2> QED BY <1>3, <1>4
  <1>6. Phase(t) \in {1, 2, 3, 4}
    BY <1>5
  <1>7. Subphase(t) \in 0 .. 5
    BY <1>1, <1>5, <1>6, PhaseEnds, WithinCycle DEF Subphase
  <1> QED BY <1>2, <1>5, <1>6, <1>7

(* A lift stays within the clearance, and a foot on the ground comes down.  *)
LEMMA LiftValue ==
    ASSUME NEW l \in Legs, NEW t \in Nat, NEW z \in 0 .. Top
    PROVE  /\ NextLift(l, t, z) \in 0 .. Top
           /\ \/ Within(t) \in 6 .. 11 /\ l \in {"FL", "RR"}
              \/ Within(t) \in 18 .. 23 /\ l \in {"FR", "RL"}
              \/ NextLift(l, t, z) = z \div 4
  <1>1. SwingHeight(Subphase(t)) \in 0 .. Top
    <2> DEFINE sub == Subphase(t)
    <2>1. sub \in 0 .. 5
      BY PhaseValue
    <2> HIDE DEF sub
    <2>2. SwingHeight(sub) \in 0 .. Top
      BY <2>1 DEF SwingHeight, SwingTicks, Top
    <2> QED BY <2>2 DEF sub
  <1>2. z \div 4 \in 0 .. Top
    BY DEF Top
  <1>3. CASE Contact(l, Phase(t))
    BY <1>2, <1>3 DEF NextLift
  <1>4. CASE ~Contact(l, Phase(t))
    <2>1. \/ Phase(t) = 2 /\ l \in {"FL", "RR"}
          \/ Phase(t) = 4 /\ l \in {"FR", "RL"}
      BY <1>4 DEF Contact, Legs
    <2> QED BY <1>1, <1>4, <2>1, PhaseValue DEF NextLift
  <1> QED BY <1>3, <1>4

-----------------------------------------------------------------------------
(* The static state of the gait, and the legs. *)
GaitTypes ==
    /\ ticks \in 0 .. TickWrap - 1
    /\ foot \in [Legs -> 0 .. Top] /\ legs \in [Legs -> 0 .. Top]

(* A tick of the gait. *)
LEMMA StepTypes ==
    ASSUME GaitTypes, StepAndFlush
    PROVE  GaitTypes'
  <1>1. TickWrap \in Nat \ {0} /\ ticks \in Nat
    BY WalkAssumption DEF GaitTypes
  <1>2. ticks' \in 0 .. TickWrap - 1
    BY <1>1 DEF StepAndFlush
  <1>3. foot' \in [Legs -> 0 .. Top]
    BY <1>1, LiftValue DEF GaitTypes, StepAndFlush
  <1> QED BY <1>2, <1>3 DEF GaitTypes, StepAndFlush

(* Every step. *)
LEMMA GaitStep == GaitTypes /\ [Next]_vars => GaitTypes'
  <1> SUFFICES ASSUME GaitTypes, [Next]_vars PROVE GaitTypes'
    OBVIOUS
  <1> USE DEF sg
  <1>0. 0 \in 0 .. TickWrap - 1 /\ Down \in [Legs -> 0 .. Top]
    BY WalkAssumption DEF Down, Top
  <1>1. CASE UNCHANGED << sg, legs >>
    BY <1>1 DEF GaitTypes
  <1>2. CASE Tick \/ SwalkTick
    BY <1>2, StepTypes DEF Tick, SwalkTick
  <1>3. CASE RampEnd \/ SwalkBegin
    BY <1>0, <1>3 DEF RampEnd, SwalkBegin, GaitReset, GaitTypes
  <1>4. CASE Stand \/ SwalkEnd
    BY <1>0, <1>4 DEF Stand, SwalkEnd, GaitTypes
  <1>5. CASE Httpd
    BY <1>1, <1>5 DEF Httpd, Press, Raise, StickReset, StickStart, StickSkip, StoreStick, Storing,
                      StoreTime, CliOn, CliReset, Parked, CliOff, Stick
  <1>6. CASE Enter \/ SetStarted \/ LookAtTime \/ ReadStick
    BY <1>1, <1>6 DEF Enter, SetStarted, LookAtTime, ReadStick, Reads
  <1>7. CASE Pass
    BY <1>1, <1>7 DEF Pass
  <1>8. CASE UNCHANGED vars
    BY <1>1, <1>8 DEF vars
  <1> QED BY <1>2, <1>3, <1>4, <1>5, <1>6, <1>7, <1>8 DEF Next, GaitTask, Swalk

(* Where the tasks are, and their flags. *)
TaskTypes ==
    /\ Stanford \in BOOLEAN /\ CliMode \in BOOLEAN /\ started \in BOOLEAN
    /\ gait \in {"top", "ramp", "started", "speed", "x", "y", "w", "step"}
    /\ fresh \in BOOLEAN
    /\ httpd \in {"idle", "raise", "js", "start", "x", "y", "w", "time", "cli", "park"}
    /\ outside \in BOOLEAN /\ console \in {"idle", "walk"}
    /\ byStick \in BOOLEAN /\ switched \in BOOLEAN

(* The joystick and the clock. *)
StickTypes ==
    /\ stick \in [{"x", "y", "w"} -> -1 .. MaxEvents]
    /\ js \in [{"x", "y", "w"} -> 0 .. MaxEvents] /\ last \in 0 .. clock
    /\ event \in 0 .. MaxEvents /\ clock \in 0 .. MaxClock
    /\ answered \in 0 .. event /\ silence \in 0 .. Timeout
    /\ since \in [answered : 0 .. event, silence : 0 .. Timeout]

(* The tasks and their flags keep their types. *)
LEMMA TaskStep == TaskTypes /\ StickTypes /\ [Next]_vars => TaskTypes'
  <1> SUFFICES ASSUME TaskTypes, StickTypes, [Next]_vars PROVE TaskTypes'
    OBVIOUS
  <1> USE DEF TaskTypes, modes, web, reading, notes
  <1>1. CASE Httpd
    <2>1. CASE Press \/ Raise \/ StickReset \/ StickStart \/ StickSkip
               \/ \E o \in BOOLEAN : Stick(o)
      BY <2>1 DEF Press, Raise, StickReset, StickStart, StickSkip, Stick, ResetAllModes
    <2>2. CASE CliOn \/ CliReset \/ Parked \/ CliOff
      BY <2>2 DEF CliOn, CliReset, Parked, CliOff, ResetAllModes
    <2>3. CASE StoreStick
      BY <2>3 DEF StoreStick, Storing, StoreTime
    <2> QED BY <1>1, <2>1, <2>2, <2>3 DEF Httpd
  <1>2. CASE GaitTask
    <2>1. CASE Stand \/ Enter \/ RampEnd \/ SetStarted
      BY <2>1 DEF Stand, Enter, RampEnd, SetStarted, Gait
    <2>2. CASE LookAtTime
      <3>1. (clock - last < Timeout) \in BOOLEAN
        <4>1. clock \in Int /\ last \in Int /\ Timeout \in Int
          BY WalkAssumption DEF StickTypes
        <4> QED BY <4>1
      <3> QED BY <2>2, <3>1 DEF LookAtTime, Gait
    <2>3. CASE ReadStick
      BY <2>3 DEF ReadStick, Reads, Gait
    <2>4. CASE Tick
      BY <2>4 DEF Tick, Gait
    <2> QED BY <1>2, <2>1, <2>2, <2>3, <2>4 DEF GaitTask
  <1>3. CASE Swalk
    BY <1>3 DEF Swalk, SwalkBegin, SwalkTick, SwalkEnd, Console
  <1>4. CASE Pass
    BY <1>4 DEF Pass
  <1>5. CASE UNCHANGED vars
    BY <1>5 DEF vars
  <1> QED BY <1>1, <1>2, <1>3, <1>4, <1>5 DEF Next

(* So do the values of the stick, which are numbers of events that happened. *)
LEMMA StickStep == StickTypes /\ [Next]_vars => StickTypes'
  <1> SUFFICES ASSUME StickTypes, [Next]_vars PROVE StickTypes'
    OBVIOUS
  <1> USE DEF pads, reading, past
  <1>0. MaxEvents \in Nat /\ MaxClock \in Nat /\ Timeout \in Nat
    BY WalkAssumption
  <1>1. ASSUME UNCHANGED << stick, since, pads, past, clock >> PROVE StickTypes'
    BY <1>1 DEF StickTypes
  <1>2. CASE Httpd
    <2>1. CASE Press \/ Raise \/ StickReset \/ StickStart \/ StickSkip \/ CliOn \/ CliReset
               \/ Parked \/ CliOff
      BY <1>1, <2>1 DEF Press, Raise, StickReset, StickStart, StickSkip, CliOn, CliReset, Parked,
                        CliOff
    <2>2. ASSUME NEW o \in BOOLEAN, Stick(o) PROVE StickTypes'
      BY <1>0, <2>2 DEF Stick, StickTypes
    <2>3. ASSUME NEW axis, NEW next, Storing(axis, axis, next) PROVE StickTypes'
      <3>1. js' \in [{"x", "y", "w"} -> 0 .. MaxEvents]
        BY <2>3 DEF Storing, StickTypes
      <3> QED BY <1>0, <2>3, <3>1 DEF Storing, Answers, StickTypes
    <2>4. CASE StoreTime("time", "idle")
      BY <1>0, <2>4 DEF StoreTime, Answers, StickTypes
    <2> QED BY <1>2, <2>1, <2>2, <2>3, <2>4 DEF Httpd, StoreStick
  <1>3. CASE GaitTask
    <2>1. CASE Stand \/ Enter \/ RampEnd \/ SetStarted
      BY <1>1, <2>1 DEF Stand, Enter, RampEnd, SetStarted, Gait
    <2>2. CASE LookAtTime
      BY <2>2 DEF LookAtTime, Gait, StickTypes
    <2>3. ASSUME NEW axis \in {"x", "y", "w"}, NEW next, Reads(axis, axis, next) PROVE StickTypes'
      <3>1. stick' \in [{"x", "y", "w"} -> -1 .. MaxEvents]
        BY <1>0, <2>3 DEF Reads, Forward, StickTypes
      <3> QED BY <2>3, <3>1 DEF Reads, Gait, StickTypes
    <2>4. CASE Tick
      BY <1>0, <2>4 DEF Tick, Gait, AtRest, Nothing, StickTypes
    <2> QED BY <1>3, <2>1, <2>2, <2>3, <2>4 DEF GaitTask, ReadStick
  <1>4. CASE Swalk
    BY <1>1, <1>4 DEF Swalk, SwalkBegin, SwalkTick, SwalkEnd, Console
  <1>5. CASE Pass
    BY <1>0, <1>5 DEF Pass, StickTypes
  <1>6. CASE UNCHANGED vars
    BY <1>1, <1>6 DEF vars
  <1> QED BY <1>2, <1>3, <1>4, <1>5, <1>6 DEF Next

(* The flags, the gait, the tasks and the joystick keep their types: in       *)
(* particular no foot is ever asked for more than the clearance.              *)
THEOREM WalkTypeCorrect == Spec => []TypeOK
<1>1. Init => GaitTypes /\ TaskTypes /\ StickTypes
  <2> SUFFICES ASSUME Init PROVE GaitTypes /\ TaskTypes /\ StickTypes
    OBVIOUS
  <2>1. GaitTypes
    BY WalkAssumption DEF Init, GaitTypes, Down, Top
  <2>2. TaskTypes
    BY DEF Init, TaskTypes
  <2>3. StickTypes
    BY WalkAssumption DEF Init, StickTypes, AtRest, Nothing
  <2> QED BY <2>1, <2>2, <2>3
<1>2. GaitTypes /\ TaskTypes /\ StickTypes /\ [Next]_vars => (GaitTypes /\ TaskTypes /\ StickTypes)'
  BY GaitStep, TaskStep, StickStep
<1>3. GaitTypes /\ TaskTypes /\ StickTypes => TypeOK
  BY DEF GaitTypes, TaskTypes, StickTypes, TypeOK
<1> QED BY <1>1, <1>2, <1>3, PTL DEF Spec

-----------------------------------------------------------------------------
(* Where the feet are along the cycle.  One diagonal is always down; after   *)
(* the second tick of an overlap all are, whatever the feet were before.     *)
Calm(S) == \A l \in S : foot[l] <= Top \div 12

FootInv ==
    /\ Calm({"FR", "RL"}) \/ Calm({"FL", "RR"})
    /\ Within(ticks) \in {1, 13} => \A l \in Legs : foot[l] <= Top \div 4
    /\ Within(ticks) \in 2 .. 6 \cup 14 .. 18 => Calm(Legs)
    /\ Within(ticks) \in 7 .. 13 => Calm({"FR", "RL"})
    /\ Within(ticks) \in 19 .. 23 => Calm({"FL", "RR"})

(* sg_ticks goes to the next tick of the cycle or, when it wraps, to the     *)
(* first.                                                                   *)
LEMMA NextWithin ==
    ASSUME GaitTypes, StepAndFlush
    PROVE  Within(ticks') = 0 \/ Within(ticks') = Within(ticks) + 1
  <1>1. TickWrap \in Nat \ {0} /\ ticks \in Nat
    BY WalkAssumption DEF GaitTypes
  <1>2. ticks' = 0 \/ ticks' = ticks + 1
    BY <1>1 DEF StepAndFlush, GaitTypes
  <1> QED BY <1>1, <1>2 DEF Within

(* A tick keeps the invariant. *)
LEMMA FootStep ==
    ASSUME GaitTypes, FootInv, StepAndFlush
    PROVE  FootInv'
  <1> DEFINE u == Within(ticks)
  <1>1. ticks \in Nat /\ u \in 0 .. 23
    BY WalkAssumption, WithinCycle DEF GaitTypes
  <1>2. Within(ticks') = 0 \/ Within(ticks') = u + 1
    BY NextWithin
  <1>3. \A l \in Legs : /\ foot[l] \in 0 .. Top
                        /\ \/ u \in 6 .. 11 /\ l \in {"FL", "RR"}
                           \/ u \in 18 .. 23 /\ l \in {"FR", "RL"}
                           \/ foot'[l] = foot[l] \div 4
    BY <1>1, LiftValue DEF GaitTypes, StepAndFlush
  <1> HIDE DEF u
  <1> USE DEF FootInv, Calm, Legs, Top
  <1>4. CASE u \in 0 .. 5 \cup 12 .. 17
    <2>1. \A l \in Legs : foot[l] \in 0 .. Top /\ foot'[l] = foot[l] \div 4
      BY <1>3, <1>4
    <2>2. \A l \in Legs : foot'[l] <= 12 /\ foot'[l] <= foot[l] /\ (foot[l] <= 12 => foot'[l] <= 4)
      BY <2>1
    <2>3. CASE u \in {0, 12}
      <3>1. Within(ticks') \in {0, 1, 13}
        BY <1>2, <2>3
      <3>2. /\ Calm({"FR", "RL"}) => Calm({"FR", "RL"})'
            /\ Calm({"FL", "RR"}) => Calm({"FL", "RR"})'
        BY <1>3, <2>2
      <3>3. u = 12 => Calm({"FR", "RL"})
        BY DEF u
      <3>4. Within(ticks') = 13 => u = 12
        BY <1>2, <2>3
      <3> QED BY <2>2, <3>1, <3>2, <3>3, <3>4
    <2>4. CASE u \in 1 .. 5 \cup 13 .. 17
      <3>1. \A l \in Legs : foot[l] <= 12
        BY <1>3, <2>4 DEF u
      <3>2. Calm(Legs)'
        BY <2>2, <3>1
      <3> QED BY <1>2, <2>4, <3>2
    <2> QED BY <1>4, <2>3, <2>4
  <1>5. CASE u \in 6 .. 11
    <2>1. Calm({"FR", "RL"})'
      BY <1>3, <1>5 DEF u
    <2> QED BY <1>2, <1>5, <2>1 DEF u
  <1>6. CASE u \in 18 .. 23
    <2>1. Calm({"FL", "RR"})'
      BY <1>3, <1>6 DEF u
    <2> QED BY <1>2, <1>6, <2>1 DEF u
  <1> QED BY <1>1, <1>4, <1>5, <1>6

TrotInv == GaitTypes /\ FootInv /\ Trots

(* Every step keeps it. *)
LEMMA TrotStep == TrotInv /\ [Next]_vars => TrotInv'
  <1> SUFFICES ASSUME TrotInv, [Next]_vars PROVE FootInv' /\ Trots'
    BY GaitStep DEF TrotInv
  <1> USE DEF TrotInv, sg
  <1>1. CASE UNCHANGED << sg, legs >>
    BY <1>1 DEF FootInv, Calm, Trots
  <1>2. CASE Tick \/ SwalkTick
    <2>1. FootInv' /\ legs' = foot'
      BY <1>2, FootStep DEF Tick, SwalkTick, StepAndFlush
    <2>2. GaitTypes'
      BY GaitStep
    <2>3. Trots'
      BY <2>1, <2>2 DEF FootInv, Calm, Trots, Legs, Top, GaitTypes
    <2> QED BY <2>1, <2>3
  <1>3. ASSUME legs' = Down PROVE Trots'
    BY <1>3 DEF Trots, Down, Legs, Top
  <1>4. CASE RampEnd \/ SwalkBegin
    <2>1. ticks' = 0 /\ foot' = Down /\ legs' = legs
      BY <1>4 DEF RampEnd, SwalkBegin, GaitReset
    <2> QED BY <2>1 DEF FootInv, Calm, Trots, Down, Legs, Top, Within
  <1>5. CASE Stand \/ SwalkEnd
    BY <1>3, <1>5 DEF Stand, SwalkEnd, FootInv, Calm
  <1>6. CASE Httpd
    BY <1>1, <1>6 DEF Httpd, Press, Raise, StickReset, StickStart, StickSkip, StoreStick, Storing,
                      StoreTime, CliOn, CliReset, Parked, CliOff, Stick
  <1>7. CASE Enter \/ SetStarted \/ LookAtTime \/ ReadStick
    BY <1>1, <1>7 DEF Enter, SetStarted, LookAtTime, ReadStick, Reads
  <1>8. CASE Pass
    BY <1>1, <1>8 DEF Pass
  <1>9. CASE UNCHANGED vars
    BY <1>1, <1>9 DEF vars
  <1> QED BY <1>2, <1>4, <1>5, <1>6, <1>7, <1>8, <1>9 DEF Next, GaitTask, Swalk

(* A diagonal always carries the robot, across every wrap of sg_ticks and     *)
(* every way to enter, leave or take over a walk.                             *)
THEOREM TrotsAlways == Spec => []Trots
<1>1. Init => TrotInv
  BY WalkAssumption DEF Init, TrotInv, GaitTypes, FootInv, Calm, Trots, Down, Legs, Top, Within
<1>2. TrotInv => Trots
  BY DEF TrotInv
<1> QED BY <1>1, <1>2, TrotStep, PTL DEF Spec
-----------------------------------------------------------------------------
(* The joystick: its silence is the age of js_last_ms, the values are stored *)
(* before the time, and what gait_task has read so far is at least as recent *)
(* as the answer it looked at.                                               *)
Axes == {"x", "y", "w"}

Ages == silence = IF clock - last < Timeout THEN clock - last ELSE Timeout

Stored ==
    /\ \A a \in Axes : js[a] >= answered
    /\ httpd \in {"y", "w", "time"} => js["x"] = event
    /\ httpd \in {"w", "time"} => js["y"] = event
    /\ httpd = "time" => js["w"] = event

Obeys(a) == IF fresh THEN stick[a] >= since.answered ELSE stick[a] = -1
Reading ==
    /\ gait \in {"x", "y", "w", "step"} =>
          since.answered <= answered /\ (fresh => since.silence < Timeout)
    /\ gait \in {"y", "w", "step"} => Obeys("x")
    /\ gait \in {"w", "step"} => Obeys("y")
    /\ gait = "step" => Obeys("w")

StickInv == TaskTypes /\ StickTypes /\ Ages /\ Stored /\ Reading

(* The HTTP task keeps it: an event overtakes no other. *)
LEMMA HttpdStick ==
    ASSUME StickInv, Httpd
    PROVE  Ages' /\ Stored' /\ Reading'
  <1> USE DEF StickInv, pads, reading, past, Axes
  <1>0. /\ MaxEvents \in Nat /\ Timeout \in Nat /\ event \in Nat /\ answered \in Nat
        /\ answered <= event /\ clock \in Nat /\ last \in Nat /\ last <= clock
        /\ js \in [Axes -> 0 .. MaxEvents]
    BY WalkAssumption DEF StickTypes
  <1>1. gait' = gait /\ fresh' = fresh /\ stick' = stick /\ since' = since /\ clock' = clock
    BY DEF Httpd, Press, Raise, StickReset, StickStart, StickSkip, StoreStick, Storing,
           StoreTime, CliOn, CliReset, Parked, CliOff, Stick
  <1>2. CASE Press \/ Raise \/ StickReset \/ StickStart \/ StickSkip \/ CliOn \/ CliReset
             \/ Parked \/ CliOff
    <2>1. UNCHANGED << pads, past >> /\ httpd' \notin {"y", "w", "time"}
      BY <1>2 DEF Press, Raise, StickReset, StickStart, StickSkip, CliOn, CliReset, Parked, CliOff,
                  web, StickTypes, TaskTypes
    <2> QED BY <1>1, <2>1 DEF Ages, Stored, Reading, Obeys
  <1>3. ASSUME NEW o \in BOOLEAN, Stick(o) PROVE Ages' /\ Stored' /\ Reading'
    <2>1. httpd' = "js" /\ UNCHANGED << js, last, past >>
      BY <1>3 DEF Stick
    <2> QED BY <1>1, <2>1 DEF Ages, Stored, Reading, Obeys
  <1>4. CASE Storing("x", "x", "y") \/ Storing("y", "y", "w") \/ Storing("w", "w", "time")
    <2>1. UNCHANGED << last, event, past >>
      BY <1>4 DEF Storing, Answers
    <2>2. Stored'
      BY <1>0, <1>4, <2>1 DEF Storing, Stored
    <2> QED BY <1>1, <2>1, <2>2 DEF Ages, Reading, Obeys
  <1>5. CASE StoreTime("time", "idle")
    <2>1. /\ httpd = "time" /\ last' = clock /\ httpd' = "idle" /\ answered' = event /\ silence' = 0
          /\ js' = js
      BY <1>5 DEF StoreTime, Answers
    <2>2. Timeout > 0
      BY WalkAssumption
    <2>3. Ages'
      BY <1>0, <1>1, <2>1, <2>2 DEF Ages
    <2>4. Stored'
      BY <1>0, <2>1 DEF Stored
    <2>5. since.answered \in Nat
      BY DEF StickTypes
    <2>6. Reading'
      BY <1>0, <1>1, <2>1, <2>5 DEF Reading, Obeys
    <2> QED BY <2>3, <2>4, <2>6
  <1> QED BY <1>2, <1>3, <1>4, <1>5 DEF Httpd, StoreStick

(* So does gait_task. *)
LEMMA GaitStick ==
    ASSUME StickInv, GaitTask
    PROVE  Ages' /\ Stored' /\ Reading'
  <1> USE DEF StickInv, pads, past, web
  <1>0. /\ Timeout \in Nat /\ answered \in Nat /\ clock \in Nat /\ last \in Nat
        /\ js \in [Axes -> 0 .. MaxEvents] /\ stick \in [Axes -> -1 .. MaxEvents]
        /\ since.answered \in Nat /\ MaxEvents \in Nat
    BY WalkAssumption DEF StickTypes, Axes
  <1>1. UNCHANGED << pads, past, clock, httpd >>
    BY DEF GaitTask, Stand, Enter, RampEnd, SetStarted, LookAtTime, ReadStick, Reads, Tick, Gait
  <1>2. Ages' /\ Stored'
    BY <1>1 DEF Ages, Stored
  <1>3. CASE Stand \/ Enter \/ RampEnd \/ SetStarted \/ Tick
    <2>1. gait' \in {"top", "speed", "ramp", "started"}
      BY <1>3 DEF Stand, Enter, RampEnd, SetStarted, Tick, Gait
    <2> QED BY <1>2, <2>1 DEF Reading
  <1>4. CASE LookAtTime
    <2>1. /\ gait' = "x" /\ fresh' = (clock - last < Timeout)
          /\ since' = [answered |-> answered, silence |-> silence]
      BY <1>4 DEF LookAtTime, Gait
    <2>2. fresh' => silence < Timeout
      BY <1>0, <2>1 DEF Ages
    <2>3. gait' = "x" /\ since'.answered = answered /\ since'.silence = silence /\ answered' = answered
      BY <1>1, <2>1
    <2>4. since'.answered <= answered'
      BY <1>0, <2>3
    <2> QED BY <1>2, <2>2, <2>3, <2>4 DEF Reading
  <1>5. ASSUME NEW a \in Axes, NEW next, Reads(a, a, next),
               << a, next >> \in {<< "x", "y" >>, << "y", "w" >>, << "w", "step" >>}
        PROVE  Reading'
    <2>1. /\ gait = a /\ gait' = next /\ UNCHANGED << fresh, since, answered >>
          /\ stick' = [stick EXCEPT ![a] = IF fresh THEN js[a] ELSE Forward[a]]
      BY <1>5 DEF Reads, Gait
    <2>2. Forward[a] = -1
      BY DEF Axes, Forward
    <2>3. fresh => js[a] >= since.answered
      <3>1. js[a] >= answered /\ since.answered <= answered /\ js[a] \in Nat
        BY <1>0, <1>5, <2>1 DEF Stored, Reading, Axes
      <3> QED BY <1>0, <3>1
    <2>4. Obeys(a)'
      BY <1>0, <2>1, <2>2, <2>3 DEF Obeys
    <2>5. \A e \in Axes : e # a /\ Obeys(e) => Obeys(e)'
      BY <1>0, <2>1 DEF Obeys
    <2> HIDE DEF StickInv
    <2>6. Reading
      BY DEF StickInv
    <2>7. CASE a = "x" /\ next = "y"
      BY <2>1, <2>4, <2>6, <2>7 DEF Reading
    <2>8. CASE a = "y" /\ next = "w"
      BY <2>1, <2>4, <2>5, <2>6, <2>8 DEF Reading, Axes
    <2>9. CASE a = "w" /\ next = "step"
      BY <2>1, <2>4, <2>5, <2>6, <2>9 DEF Reading, Axes
    <2> QED BY <1>5, <2>7, <2>8, <2>9
  <1>6. CASE ReadStick
    <2>1. CASE Reads("x", "x", "y")
      BY <1>2, <1>5, <2>1 DEF Axes
    <2>2. CASE Reads("y", "y", "w")
      BY <1>2, <1>5, <2>2 DEF Axes
    <2>3. CASE Reads("w", "w", "step")
      BY <1>2, <1>5, <2>3 DEF Axes
    <2> QED BY <1>6, <2>1, <2>2, <2>3 DEF ReadStick
  <1> QED BY <1>2, <1>3, <1>4, <1>6 DEF GaitTask

(* Every step. *)
LEMMA StickInvStep == StickInv /\ [Next]_vars => StickInv'
  <1> SUFFICES ASSUME StickInv, [Next]_vars PROVE Ages' /\ Stored' /\ Reading'
    BY TaskStep, StickStep DEF StickInv
  <1>1. ASSUME UNCHANGED << httpd, gait, fresh, stick, since, js, last, event, past, clock >>
        PROVE  Ages' /\ Stored' /\ Reading'
    BY <1>1 DEF StickInv, Ages, Stored, Reading, Obeys, past
  <1>2. CASE Swalk
    BY <1>1, <1>2 DEF Swalk, SwalkBegin, SwalkTick, SwalkEnd, Console, web, pads, reading
  <1>3. CASE Pass
    <2>1. /\ clock \in Nat /\ last \in Nat /\ last <= clock /\ silence \in Nat /\ Timeout \in Nat
      BY WalkAssumption DEF StickInv, StickTypes
    <2>2. /\ clock' = clock + 1 /\ silence' = (IF silence < Timeout THEN silence + 1 ELSE silence)
          /\ UNCHANGED << httpd, gait, fresh, stick, since, js, last, event, answered >>
      BY <1>3 DEF Pass, web, pads, reading
    <2>3. Ages'
      BY <2>1, <2>2 DEF StickInv, Ages
    <2> QED BY <2>2, <2>3 DEF StickInv, Stored, Reading, Obeys
  <1>4. CASE UNCHANGED vars
    BY <1>1, <1>4 DEF vars, web, pads, reading
  <1> QED BY <1>2, <1>3, <1>4, HttpdStick, GaitStick DEF Next

(* Whatever the HTTP task stores while gait_task reads, a joystick value is   *)
(* obeyed only within JOY_TIMEOUT_MS of its answer, and never one older than  *)
(* the last answer: h_js stores the time last and gait_task reads it first.   *)
THEOREM StickIsObeyed == Spec => StickObeyed
<1> DEFINE Obeyed == Tick =>
              \/ stick = Forward
              \/ since.silence < Timeout /\ \A a \in {"x", "y", "w"} : stick[a] >= since.answered
<1>1. ASSUME StickInv PROVE Obeyed
  <2> SUFFICES ASSUME Tick, stick # Forward
               PROVE  since.silence < Timeout /\ \A a \in {"x", "y", "w"} : stick[a] >= since.answered
    OBVIOUS
  <2>1. gait = "step"
    BY DEF Tick, Gait
  <2>2. Obeys("x") /\ Obeys("y") /\ Obeys("w") /\ (fresh => since.silence < Timeout)
    BY <1>1, <2>1 DEF StickInv, Reading
  <2>3. fresh
    <3>1. stick \in [{"x", "y", "w"} -> -1 .. MaxEvents]
      BY <1>1 DEF StickInv, StickTypes
    <3>2. ~fresh => stick["x"] = -1 /\ stick["y"] = -1 /\ stick["w"] = -1
      BY <2>2 DEF Obeys
    <3>3. ~fresh => stick = Forward
      BY <3>1, <3>2 DEF Forward
    <3> QED BY <3>3
  <2> QED BY <2>2, <2>3 DEF Obeys
<1>2. StickInv => [Obeyed]_vars
  BY <1>1
<1>3. Init => StickInv
  <2> SUFFICES ASSUME Init PROVE StickInv
    OBVIOUS
  <2>1. TaskTypes
    BY DEF Init, TaskTypes
  <2>2. StickTypes
    BY WalkAssumption DEF Init, StickTypes, AtRest, Nothing
  <2>3. Ages /\ Stored /\ Reading
    BY WalkAssumption DEF Init, Ages, Stored, Reading, Axes, AtRest
  <2> QED BY <2>1, <2>2, <2>3 DEF StickInv
<1> QED BY <1>2, <1>3, StickInvStep, PTL DEF Spec, StickObeyed
-----------------------------------------------------------------------------
(* No jumps.  Where each foot is along its own cycle, which the legs of a    *)
(* diagonal go through together and half a cycle apart from the others:      *)
(* its swing is in the ticks 6 to 11.                                        *)
Place(l, t) == IF l \in {"FL", "RR"} THEN Within(t) ELSE (Within(t) + 12) % 24

Profile(p, z) ==
    /\ p \in {0, 12} => z <= 16
    /\ p \in {1, 13} => z <= 4
    /\ p \in {2, 14} => z <= 1
    /\ p \in 3 .. 7 \cup 15 .. 23 => z = 0
    /\ p = 8 => z = 16
    /\ p \in {9, 11} => z = 32
    /\ p = 10 => z = 48
Lifts == \A l \in Legs : Profile(Place(l, ticks), foot[l])

(* sg_ticks wraps where no foot is more than a third of the clearance up, as *)
(* it does with its 32 bits: 2^32 is 16 past a multiple of the cycle.        *)
WrapsLow == TickWrap % 24 \notin {9, 10, 11, 21, 22, 23}

(* Who walks.  In CLI mode, once the HTTP task has waited, gait_task is at   *)
(* the top of its loop, and a motion requested from then on begins with      *)
(* sg_started cleared.                                                       *)
Walking == {"speed", "x", "y", "w", "step"}
Turns ==
    /\ console = "walk" => CliMode /\ httpd \notin {"cli", "park"}
    /\ CliMode /\ httpd \notin {"cli", "park"} => gait = "top"
    /\ CliMode /\ (Stanford \/ httpd \in {"raise", "start"}) => httpd = "cli" \/ ~started
    /\ httpd = "park" => ~Stanford
    /\ httpd \in {"cli", "park"} => CliMode
    /\ httpd \in {"raise", "start"} => ~Stanford
    /\ gait \in {"ramp", "started"} => ~started
    /\ gait \in Walking => started \/ switched
    /\ gait = "started" => ticks = 0 /\ foot = Down

(* How the feet of the gait are to those of the robot. *)
Low   == \A l \in Legs : legs[l] <= 16
Fresh == ticks = 0 /\ foot = Down /\ Low
Footing ==
    /\ ~switched =>
          /\ gait \in {"ramp", "started"} => Low
          /\ gait \in Walking => legs = foot \/ Fresh
          /\ gait = "top" /\ started /\ Stanford => legs = foot
          /\ gait = "top" /\ ~started /\ console = "idle" => Low
          /\ console = "walk" => legs = foot
    /\ httpd \in {"raise", "start"} /\ started =>
          /\ foot = Down
          /\ gait = "top" => legs = Down
          /\ gait \in Walking => ticks = 0

SmoothInv == GaitTypes /\ TaskTypes /\ Lifts /\ Turns /\ Footing
(* The heights of a swing. *)
LEMMA SwingHeights ==
    /\ SwingHeight(0) = 0 /\ SwingHeight(1) = 16 /\ SwingHeight(2) = 32
    /\ SwingHeight(3) = 48 /\ SwingHeight(4) = 32 /\ SwingHeight(5) = 16
  BY DEF SwingHeight, SwingTicks, Top

(* Where a swing is, by the place in the leg's own cycle. *)
LEMMA PlaceValue ==
    ASSUME NEW l \in Legs, NEW t \in Nat
    PROVE  /\ Place(l, t) \in 0 .. 23
           /\ ~Contact(l, Phase(t)) <=> Place(l, t) \in 6 .. 11
           /\ Place(l, t) \in 6 .. 11 => Subphase(t) = Place(l, t) - 6
  <1>1. Within(t) \in 0 .. 23 /\ Phase(t) \in 1 .. 4
    BY WithinCycle, PhaseValue
  <1>2. /\ Phase(t) = 2 <=> Within(t) \in 6 .. 11
        /\ Phase(t) = 4 <=> Within(t) \in 18 .. 23
    BY PhaseValue
  <1>3. Subphase(t) = Within(t) - PhaseEnd[Phase(t) - 1]
    BY DEF Subphase, PhaseLength, OverlapTicks, SwingTicks, Within
  <1>4. CASE l \in {"FL", "RR"}
    <2>1. Place(l, t) = Within(t)
      BY <1>4 DEF Place
    <2>2. ~Contact(l, Phase(t)) <=> Phase(t) = 2
      BY <1>4 DEF Contact, Legs
    <2>3. Phase(t) = 2 => Subphase(t) = Within(t) - 6
      BY <1>1, <1>3, PhaseEnds
    <2> QED BY <1>1, <1>2, <2>1, <2>2, <2>3
  <1>5. CASE l \in {"FR", "RL"}
    <2>1. Place(l, t) = (Within(t) + 12) % 24
      BY <1>5 DEF Place
    <2>2. Place(l, t) = IF Within(t) < 12 THEN Within(t) + 12 ELSE Within(t) - 12
      BY <1>1, <2>1
    <2>3. ~Contact(l, Phase(t)) <=> Phase(t) = 4
      BY <1>5 DEF Contact, Legs
    <2>4. Phase(t) = 4 => Subphase(t) = Within(t) - 18
      BY <1>1, <1>3, PhaseEnds
    <2> QED BY <1>1, <1>2, <2>2, <2>3, <2>4
  <1> QED BY <1>4, <1>5 DEF Legs

(* A tick takes a foot from its profile to that of the next place, by at     *)
(* most a third of the clearance, and is above that only in three places.    *)
LEMMA ProfileStep ==
    ASSUME NEW l \in Legs, NEW t \in Nat, NEW z \in 0 .. Top, Profile(Place(l, t), z)
    PROVE  /\ NextLift(l, t, z) - z \in -16 .. 16
           /\ Profile((Place(l, t) + 1) % 24, NextLift(l, t, z))
           /\ NextLift(l, t, z) <= 16 \/ Place(l, t) \in 8 .. 10
  <1> DEFINE p == Place(l, t)
             y == NextLift(l, t, z)
  <1>1. p \in 0 .. 23 /\ z \in 0 .. 48
    BY PlaceValue DEF Top
  <1>2. p \notin 6 .. 11 => y = z \div 4
    BY PlaceValue DEF NextLift
  <1>3. p \in 6 .. 11 => y = SwingHeight(p - 6)
    BY PlaceValue DEF NextLift
  <1>4. Profile(p, z)
    OBVIOUS
  <1> HIDE DEF p, y
  <1>5. /\ p = 6 => y = 0 /\ z = 0
        /\ p = 7 => y = 16 /\ z = 0
        /\ p = 8 => y = 32 /\ z = 16
        /\ p = 9 => y = 48 /\ z = 32
        /\ p = 10 => y = 32 /\ z = 48
        /\ p = 11 => y = 16 /\ z = 32
    BY <1>3, <1>4, SwingHeights DEF Profile
  <1>6. /\ p \in {0, 12} => y <= 4 /\ z <= 16
        /\ p \in {1, 13} => y <= 1 /\ z <= 4
        /\ p \in {2, 14} => y = 0 /\ z <= 1
        /\ p \in 3 .. 5 \cup 15 .. 23 => y = 0 /\ z = 0
    BY <1>1, <1>2, <1>4 DEF Profile
  <1>7. y \in 0 .. 48
    <2>1. p \notin 6 .. 11 => y \in 0 .. 48
      BY <1>1, <1>2
    <2> QED BY <1>1, <2>1, <1>5
  <1>8. y - z \in -16 .. 16 /\ (y <= 16 \/ p \in 8 .. 10)
    BY <1>1, <1>5, <1>6, <1>7
  <1>9. Profile((p + 1) % 24, y)
    <2>1. (p + 1) % 24 = IF p = 23 THEN 0 ELSE p + 1
      BY <1>1
    <2>2. Profile(IF p = 23 THEN 0 ELSE p + 1, y)
      BY <1>1, <1>5, <1>6, <1>7 DEF Profile
    <2> QED BY <2>1, <2>2
  <1> QED BY <1>8, <1>9 DEF p, y

(* A tick keeps every foot on its profile, and the step small. *)
LEMMA LiftsStep ==
    ASSUME WrapsLow, GaitTypes, Lifts, StepAndFlush
    PROVE  /\ Lifts'
           /\ \A l \in Legs : foot'[l] - foot[l] \in -16 .. 16
           /\ ticks = 0 => \A l \in Legs : foot'[l] <= 4
           /\ ticks = 0 /\ foot = Down => foot' = Down
  <1>1. /\ TickWrap \in Nat \ {0} /\ ticks \in Nat /\ foot \in [Legs -> 0 .. Top]
        /\ \A l \in Legs : foot'[l] = NextLift(l, ticks, foot[l])
    BY WalkAssumption DEF GaitTypes, StepAndFlush
  <1>2. \A l \in Legs : /\ foot'[l] - foot[l] \in -16 .. 16
                        /\ Profile((Place(l, ticks) + 1) % 24, foot'[l])
                        /\ foot'[l] <= 16 \/ Place(l, ticks) \in 8 .. 10
    BY <1>1, ProfileStep DEF Lifts
  <1>3. \/ ticks' = 0 /\ ticks = TickWrap - 1
        \/ ticks' = ticks + 1
    BY <1>1 DEF StepAndFlush, GaitTypes
  <1>4. Lifts'
    <2>1. CASE ticks' = ticks + 1
      <3>1. \A l \in Legs : Place(l, ticks') = (Place(l, ticks) + 1) % 24
        BY <1>1, <2>1 DEF Place, Within
      <3> QED BY <1>2, <3>1 DEF Lifts
    <2>2. CASE ticks' = 0 /\ ticks = TickWrap - 1
      <3>1. \A l \in Legs : Place(l, ticks') \in {0, 12}
        BY <2>2 DEF Place, Within
      <3>2. ASSUME NEW l \in Legs, Place(l, ticks) \in 8 .. 10 PROVE FALSE
        <4>1. Within(ticks) \in 8 .. 10 \/ Within(ticks) \in 20 .. 22
          BY <1>1, <3>2 DEF Place, Within
        <4>2. TickWrap % 24 = (Within(ticks) + 1) % 24
          BY <1>1, <2>2 DEF Within
        <4>3. (Within(ticks) + 1) % 24 \in 9 .. 11 \cup 21 .. 23
          BY <4>1
        <4> QED BY <4>2, <4>3 DEF WrapsLow
      <3>3. \A l \in Legs : foot'[l] <= 16
        BY <1>2, <3>2
      <3> QED BY <3>1, <3>3 DEF Lifts, Profile
    <2> QED BY <1>3, <2>1, <2>2
  <1>5. ASSUME ticks = 0 PROVE \A l \in Legs : foot'[l] = foot[l] \div 4 /\ foot[l] \in 0 .. 16
    <2>1. \A l \in Legs : Place(l, 0) \in {0, 12}
      BY DEF Place, Within
    <2>2. \A l \in Legs : foot'[l] = foot[l] \div 4
      BY <1>1, <1>5, <2>1, PlaceValue DEF NextLift
    <2>3. \A l \in Legs : foot[l] <= 16
      BY <1>5, <2>1 DEF Lifts, Profile
    <2> QED BY <1>1, <2>2, <2>3
  <1>6. ASSUME ticks = 0, foot = Down PROVE foot' = Down
    <2>1. \A l \in Legs : foot'[l] = 0
      BY <1>5, <1>6 DEF Down
    <2> QED BY <2>1 DEF StepAndFlush, Down
  <1> QED BY <1>2, <1>4, <1>5, <1>6
(* The HTTP task: a reset clears sg_started before a new walk is requested,  *)
(* and CLI mode is left only while the console is at its prompt.             *)
LEMMA HttpdSmooth ==
    ASSUME Alone, SmoothInv, Httpd
    PROVE  Lifts' /\ Turns' /\ Footing'
  <1> USE DEF SmoothInv
  <1>1. UNCHANGED << ticks, foot, legs, gait, console >>
    BY DEF Httpd, Press, Raise, StickReset, StickStart, StickSkip, StoreStick, Storing, StoreTime,
           CliOn, CliReset, Parked, CliOff, Stick, sg, reading
  <1>2. Lifts'
    BY <1>1 DEF Lifts
  <1>3. CASE Press \/ StickReset
    <2>1. /\ httpd \in {"idle", "js"} /\ httpd' \in {"idle", "raise", "start"} /\ CliMode' = CliMode
          /\ Stanford' = FALSE /\ started' = FALSE /\ switched' = TRUE
      BY <1>3 DEF Press, StickReset, ResetAllModes
    <2>2. Turns'
      BY <1>1, <2>1 DEF Turns
    <2>3. Footing'
      BY <1>1, <2>1 DEF Footing
    <2> QED BY <1>2, <2>2, <2>3
  <1>4. CASE Raise \/ StickStart
    <2>1. /\ httpd \in {"raise", "start"} /\ httpd' \in {"idle", "x"}
          /\ Stanford' = TRUE /\ UNCHANGED << CliMode, started, switched >>
      BY <1>4 DEF Raise, StickStart
    <2>2. Turns'
      BY <1>1, <2>1 DEF Turns
    <2>3. Footing'
      BY <1>1, <2>1 DEF Footing, Low, Fresh
    <2> QED BY <1>2, <2>2, <2>3
  <1>5. CASE StickSkip \/ StoreStick \/ \E o \in BOOLEAN : Stick(o)
    <2>1. /\ httpd \in {"idle", "js", "x", "y", "w", "time"}
          /\ httpd' \in {"idle", "js", "x", "y", "w", "time"}
          /\ UNCHANGED << modes, switched >>
      BY <1>5 DEF StickSkip, StoreStick, Storing, StoreTime, Stick, notes
    <2>2. Turns'
      BY <1>1, <2>1 DEF Turns, modes
    <2>3. Footing'
      BY <1>1, <2>1 DEF Footing, Low, Fresh, modes
    <2> QED BY <1>2, <2>2, <2>3
  <1>6. CASE CliOn
    <2>1. /\ httpd = "idle" /\ ~CliMode /\ CliMode' /\ httpd' = "cli"
          /\ UNCHANGED << Stanford, started, switched >>
      BY <1>6 DEF CliOn, notes
    <2>2. Turns' /\ Footing'
      BY <1>1, <2>1 DEF Turns, Footing, Low, Fresh
    <2> QED BY <1>2, <2>2
  <1>7. CASE CliReset
    <2>1. /\ httpd = "cli" /\ httpd' = "park" /\ CliMode' = CliMode
          /\ Stanford' = FALSE /\ started' = FALSE /\ switched' = TRUE
      BY <1>7 DEF CliReset, ResetAllModes
    <2>2. Turns' /\ Footing'
      BY <1>1, <2>1 DEF Turns, Footing
    <2> QED BY <1>2, <2>2
  <1>8. CASE Parked
    <2>1. httpd = "park" /\ gait = "top" /\ httpd' = "idle" /\ UNCHANGED << modes, switched >>
      BY <1>8 DEF Parked, notes
    <2>2. Turns' /\ Footing'
      BY <1>1, <2>1 DEF Turns, Footing, Low, Fresh, modes
    <2> QED BY <1>2, <2>2
  <1>9. CASE CliOff
    <2>1. /\ httpd = "idle" /\ console = "idle" /\ ~CliMode'
          /\ UNCHANGED << Stanford, started, httpd, switched >>
      BY <1>9 DEF CliOff, web, notes, TaskTypes
    <2>2. Turns' /\ Footing'
      BY <1>1, <2>1 DEF Turns, Footing, Low, Fresh
    <2> QED BY <1>2, <2>2
  <1> QED BY <1>3, <1>4, <1>5, <1>6, <1>7, <1>8, <1>9 DEF Httpd

(* gait_task: its walk begins at a reset, and goes on from its last tick.    *)
LEMMA GaitSmooth ==
    ASSUME WrapsLow, SmoothInv, GaitTask
    PROVE  Lifts' /\ Turns' /\ Footing'
  <1> USE DEF SmoothInv, modes, sg
  <1>0. UNCHANGED << Stanford, CliMode, httpd, console >>
    BY DEF GaitTask, Stand, Enter, RampEnd, SetStarted, LookAtTime, ReadStick, Reads, Tick, Gait, web
  <1>1. CASE Stand
    <2>1. /\ gait = "top" /\ gait' = "top" /\ ~CliMode /\ ~Stanford /\ legs' = Down /\ switched' = FALSE
          /\ UNCHANGED << started, ticks, foot >>
      BY <1>1 DEF Stand, Gait
    <2>2. Lifts' /\ Low'
      BY <2>1 DEF Lifts, Low, Down
    <2>3. Turns'
      BY <1>0, <2>1 DEF Turns, Walking
    <2>4. console = "idle"
      BY <2>1 DEF Turns, TaskTypes
    <2>5. Footing'
      BY <1>0, <2>1, <2>2, <2>4 DEF Footing, Walking
    <2> QED BY <2>2, <2>3, <2>5
  <1>2. CASE Enter
    <2>1. /\ gait = "top" /\ gait' = (IF started THEN "speed" ELSE "ramp") /\ ~CliMode /\ Stanford
          /\ UNCHANGED << started, ticks, foot, legs, switched >>
      BY <1>2 DEF Enter, Gait
    <2>2. console = "idle" /\ httpd \notin {"raise", "start", "cli", "park"}
      BY <2>1 DEF Turns, TaskTypes
    <2>3. Lifts' /\ Turns'
      BY <1>0, <2>1, <2>2 DEF Lifts, Turns, Walking
    <2>4. Footing'
      BY <1>0, <2>1, <2>2 DEF Footing, Low, Fresh, Walking
    <2> QED BY <2>3, <2>4
  <1>3. CASE RampEnd
    <2>1. /\ gait = "ramp" /\ gait' = "started" /\ ticks' = 0 /\ foot' = Down
          /\ UNCHANGED << started, legs, switched >>
      BY <1>3 DEF RampEnd, Gait, GaitReset
    <2>2. Lifts'
      BY <2>1 DEF Lifts, Place, Within, Profile, Down
    <2>3. console = "idle"
      BY <2>1 DEF Turns, TaskTypes
    <2>4. Turns'
      BY <1>0, <2>1, <2>3 DEF Turns, Walking
    <2>5. Footing'
      BY <1>0, <2>1, <2>3 DEF Turns, Footing, Low, Walking
    <2> QED BY <2>2, <2>4, <2>5
  <1>4. CASE SetStarted
    <2>1. /\ gait = "started" /\ gait' = "speed" /\ started' = TRUE
          /\ UNCHANGED << ticks, foot, legs, switched >>
      BY <1>4 DEF SetStarted, Gait
    <2>2. console = "idle" /\ ticks = 0 /\ foot = Down
      BY <2>1 DEF Turns, TaskTypes
    <2>3. Lifts' /\ Turns'
      BY <1>0, <2>1, <2>2 DEF Lifts, Turns, Walking
    <2>4. Footing'
      BY <1>0, <2>1, <2>2 DEF Footing, Low, Fresh, Walking
    <2> QED BY <2>3, <2>4
  <1>5. CASE LookAtTime \/ ReadStick
    <2>1. /\ gait \in Walking /\ gait' \in Walking
          /\ UNCHANGED << started, ticks, foot, legs, switched >>
      BY <1>5 DEF LookAtTime, ReadStick, Reads, Gait, Walking
    <2>2. gait \notin {"top", "ramp", "started"} /\ gait' \notin {"top", "ramp", "started"}
      BY <2>1 DEF Walking
    <2> HIDE DEF SmoothInv
    <2>3. Lifts' /\ Turns' /\ Footing'
      BY <1>0, <2>1, <2>2 DEF SmoothInv, Lifts, Turns, Footing, Low, Fresh
    <2> QED BY <2>3
  <1>6. CASE Tick
    <2>1. /\ gait = "step" /\ gait' = "top" /\ StepAndFlush /\ legs' = foot' /\ started' = started
          /\ switched' = (switched /\ ticks # 0)
      BY <1>6 DEF Tick, Gait, StepAndFlush
    <2>2. /\ Lifts'
          /\ ticks = 0 => \A l \in Legs : foot'[l] <= 4
          /\ ticks = 0 /\ foot = Down => foot' = Down
      BY <2>1, LiftsStep
    <2>3. console = "idle"
      BY <2>1 DEF Turns, TaskTypes
    <2>4. gait \in Walking
      BY <2>1 DEF Walking
    <2>5. Turns'
      BY <1>0, <2>1, <2>3, <2>4 DEF Turns, Walking
    <2>6. ticks = 0 => Low'
      <3>1. \A l \in Legs : foot'[l] \in Int
        BY <2>1, StepTypes DEF GaitTypes
      <3>2. ASSUME ticks = 0, NEW l \in Legs PROVE foot'[l] <= 16
        <4>1. foot'[l] <= 4 /\ foot'[l] \in Int
          BY <2>2, <3>1, <3>2
        <4> HIDE DEF SmoothInv
        <4> QED BY <4>1
      <3> QED BY <2>1, <3>2 DEF Low
    <2>7. ~switched' /\ ~started' => Low'
      BY <2>1, <2>4, <2>6 DEF Turns, TaskTypes
    <2>8. httpd \in {"raise", "start"} /\ started' => foot' = Down /\ legs' = Down
      BY <2>1, <2>2, <2>4 DEF Footing
    <2>9. Footing'
      BY <1>0, <2>1, <2>3, <2>7, <2>8 DEF Footing, Walking
    <2> QED BY <2>2, <2>5, <2>9
  <1> QED BY <1>1, <1>2, <1>3, <1>4, <1>5, <1>6 DEF GaitTask

(* run_swalk: it resets the gait, and puts the legs down when it ends.       *)
LEMMA SwalkSmooth ==
    ASSUME Alone, WrapsLow, SmoothInv, Swalk
    PROVE  Lifts' /\ Turns' /\ Footing'
  <1> USE DEF SmoothInv, modes, web, sg, reading
  <1>0. UNCHANGED << Stanford, CliMode, started, httpd, gait >>
    BY DEF Swalk, SwalkBegin, SwalkTick, SwalkEnd, Console
  <1>1. CASE SwalkBegin
    <2>1. /\ console = "idle" /\ console' = "walk" /\ CliMode /\ httpd \notin {"cli", "park"}
          /\ ticks' = 0 /\ foot' = Down /\ switched' = TRUE /\ legs' = legs
      BY <1>1 DEF SwalkBegin, Console, GaitReset
    <2>2. Lifts'
      BY <2>1 DEF Lifts, Place, Within, Profile, Down
    <2>3. Turns' /\ Footing'
      BY <1>0, <2>1 DEF Turns, Footing
    <2> QED BY <2>2, <2>3
  <1>2. CASE SwalkTick \/ SwalkEnd
    <2>1. console = "walk"
      BY <1>2 DEF SwalkTick, SwalkEnd, Console
    <2>2. /\ CliMode /\ httpd \notin {"cli", "park"} /\ gait = "top"
          /\ Stanford \/ httpd \in {"raise", "start"} => ~started
      BY <2>1 DEF Turns
    <2>3. CASE SwalkTick
      <3>1. console' = "walk" /\ StepAndFlush /\ legs' = foot'
        BY <2>3 DEF SwalkTick, Console, StepAndFlush
      <3>2. Lifts'
        BY <3>1, LiftsStep
      <3>3. Turns'
        BY <1>0, <2>1, <2>2, <3>1 DEF Turns, Walking
      <3>4. Footing'
        BY <1>0, <2>2, <3>1 DEF Footing, Walking
      <3> QED BY <3>2, <3>3, <3>4
    <2>4. CASE SwalkEnd
      <3>1. console' = "idle" /\ legs' = Down /\ UNCHANGED << ticks, foot >>
        BY <2>4 DEF SwalkEnd, Console
      <3>2. Lifts' /\ Low'
        BY <3>1 DEF Lifts, Low, Down
      <3>3. Turns'
        BY <1>0, <2>2, <3>1 DEF Turns, Walking
      <3>4. Footing'
        BY <1>0, <2>2, <3>1, <3>2 DEF Footing, Walking
      <3> QED BY <3>2, <3>3, <3>4
    <2> QED BY <1>2, <2>3, <2>4
  <1> QED BY <1>1, <1>2 DEF Swalk

(* Every step. *)
LEMMA SmoothStep ==
    ASSUME Alone, WrapsLow, StickTypes, SmoothInv, [Next]_vars
    PROVE  SmoothInv'
  <1>1. GaitTypes' /\ TaskTypes'
    BY GaitStep, TaskStep DEF SmoothInv
  <1>2. ASSUME UNCHANGED << modes, httpd, gait, console, switched, ticks, foot, legs >>
        PROVE  Lifts' /\ Turns' /\ Footing'
    BY <1>2 DEF SmoothInv, Lifts, Turns, Footing, Low, Fresh, modes
  <1>3. CASE Pass
    BY <1>1, <1>2, <1>3 DEF Pass, sg, web, reading, notes, SmoothInv
  <1>4. CASE UNCHANGED vars
    BY <1>1, <1>2, <1>4 DEF vars, sg, web, reading, notes, SmoothInv
  <1>5. CASE Httpd \/ GaitTask \/ Swalk
    BY <1>1, <1>5, HttpdSmooth, GaitSmooth, SwalkSmooth DEF SmoothInv
  <1> QED BY <1>3, <1>4, <1>5 DEF Next

(* A foot moves by a third of the clearance at most in a tick, across every   *)
(* toggle, hand-over between the tasks and wrap of sg_ticks, under two        *)
(* hypotheses.  Alone: swalk begins when gait_task is parked and CLI mode is  *)
(* not left before it ends, which the code leaves to the user (main.c 751 and *)
(* 783 only notice it); without it two tasks step one gait, and the feet      *)
(* jump.  WrapsLow: the counter does not wrap in the upper part of a swing;   *)
(* with its 32 bits it does not (CounterWrapsLow).                            *)
THEOREM WalksSmoothly == Alone /\ WrapsLow => (Spec => Smooth)
<1> SUFFICES ASSUME Alone, WrapsLow PROVE Spec => Smooth
  OBVIOUS
<1> DEFINE Small == (Tick \/ SwalkTick) /\ ~switched =>
          \A l \in Legs : legs'[l] - legs[l] \in -(Top \div 3) .. Top \div 3
<1>1. ASSUME SmoothInv PROVE Small
  <2> SUFFICES ASSUME Tick \/ SwalkTick, ~switched, NEW l \in Legs
               PROVE  legs'[l] - legs[l] \in -16 .. 16
    BY DEF Top
  <2>1. /\ legs' = foot' /\ StepAndFlush
        /\ gait = "step" \/ console = "walk"
    BY DEF Tick, SwalkTick, Gait, Console, StepAndFlush
  <2>2. /\ foot'[l] - foot[l] \in -16 .. 16
        /\ ticks = 0 /\ foot = Down => foot' = Down
        /\ legs[l] \in 0 .. Top /\ foot[l] \in 0 .. Top
    BY <1>1, <2>1, LiftsStep DEF SmoothInv, GaitTypes
  <2>3. legs = foot \/ Fresh
    BY <1>1, <2>1 DEF SmoothInv, Footing, Walking
  <2>4. CASE legs = foot
    BY <2>1, <2>2, <2>4
  <2>5. CASE Fresh
    BY <2>1, <2>2, <2>5 DEF Fresh, Low, Down, Top
  <2> QED BY <2>3, <2>4, <2>5
<1>2. SmoothInv => [Small]_vars
  BY <1>1
<1>3. Init => StickTypes /\ SmoothInv
  <2> SUFFICES ASSUME Init PROVE StickTypes /\ SmoothInv
    OBVIOUS
  <2>1. GaitTypes
    BY WalkAssumption DEF Init, GaitTypes, Down, Top
  <2>2. TaskTypes
    BY DEF Init, TaskTypes
  <2>3. StickTypes
    BY WalkAssumption DEF Init, StickTypes, AtRest, Nothing
  <2>4. Lifts /\ Turns /\ Footing
    BY DEF Init, Lifts, Place, Within, Profile, Down, Turns, Footing, Low, Walking
  <2> QED BY <2>1, <2>2, <2>3, <2>4 DEF SmoothInv
<1>4. StickTypes /\ SmoothInv /\ [Next]_vars => (StickTypes /\ SmoothInv)'
  BY StickStep, SmoothStep
<1> QED BY <1>2, <1>3, <1>4, PTL DEF Spec, Smooth

(* The 32-bit counter of the code wraps low. *)
LEMMA CounterWrapsLow == TickWrap = 4294967296 => WrapsLow
  BY DEF WrapsLow
=============================================================================
