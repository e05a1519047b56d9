--------------------------------- MODULE Walk ---------------------------------
(****************************************************************************)
(* The Stanford trot gait of src/main/stanford_gait.c, its static state     *)
(* shared by gait_task and the console's run_swalk, and the web joystick    *)
(* whose values gait_task reads while the HTTP task stores them.            *)
(*                                                                          *)
(* Of a foot only the lift over the reference height is kept, in 48ths of   *)
(* the clearance, whole ones.  A joystick event is its number, for each of  *)
(* the three values it stores.  The legs come from a stand: how they get to *)
(* the stance from another motion is MotionControl's.                       *)
(****************************************************************************)
EXTENDS Integers

CONSTANTS
    TickWrap,  \* sg_ticks counts modulo this, 2^32 in the code
    Timeout,   \* JOY_TIMEOUT_MS, in units of the clock
    Alone,     \* run_swalk has the gait for itself, as explained below
    MaxEvents, \* bound on the joystick events
    MaxClock   \* bound on millis(), which does not wrap

ASSUME WalkAssumption ==
    /\ TickWrap \in Nat \ {0} /\ Timeout \in Nat \ {0} /\ Alone \in BOOLEAN
    /\ MaxEvents \in Nat /\ MaxClock \in Nat

Legs == {"FR", "FL", "RR", "RL"}
Top  == 48                       \* the whole clearance

VARIABLES
    Stanford, CliMode, started,  \* the flags; sg_started
    ticks, foot,                 \* sg_ticks, foot_z: the static state of the gait
    legs,                        \* the lifts flushed last
    gait, fresh, stick,          \* gait_task: where it is, what it has read
    httpd, outside,              \* the HTTP handler, and its event
    js, last,                    \* js_vx, js_vy, js_wz; js_last_ms
    event,                       \* the events begun
    console,                     \* run_swalk
    clock,                       \* millis()
    answered, silence, since,    \* histories: the last event that was answered, the
                                 \* time since then, and both when gait_task looked
    byStick, switched            \* the stick started the walk; a reset since the legs were down

modes   == << Stanford, CliMode, started >>
sg      == << ticks, foot >>
web     == << httpd, outside >>
pads    == << js, last, event >>
reading == << gait, fresh, stick, since >>
past    == << answered, silence >>
notes   == << byStick, switched >>
vars    == << modes, sg, legs, web, pads, reading, past, notes, console, clock >>

Down     == [l \in Legs |-> 0]
AtRest   == [x |-> 0, y |-> 0, w |-> 0]
Forward  == [x |-> -1, y |-> -1, w |-> -1]   \* sgspeed, straight on
Nothing  == [answered |-> 0, silence |-> 0]

Init ==
    /\ Stanford = FALSE /\ CliMode = FALSE /\ started = FALSE
    /\ ticks = 0 /\ foot = Down
    /\ legs = Down
    /\ gait = "top" /\ fresh = FALSE /\ stick = AtRest
    /\ httpd = "idle" /\ outside = FALSE
    /\ js = AtRest /\ last = 0 /\ event = 0
    /\ console = "idle" /\ clock = 0
    /\ answered = 0 /\ silence = 0 /\ since = Nothing
    /\ byStick = FALSE /\ switched = FALSE

-----------------------------------------------------------------------------
(* The phases: all feet down, one diagonal, all feet down, the other.       *)

OverlapTicks == 6
SwingTicks   == 6
PhaseTicks   == << OverlapTicks, SwingTicks, OverlapTicks, SwingTicks >>
PhaseLength  == 2 * OverlapTicks + 2 * SwingTicks

PhaseEnd[i \in 0 .. 4] == IF i = 0 THEN 0 ELSE PhaseEnd[i - 1] + PhaseTicks[i]

Phase(t) == CHOOSE i \in 1 .. 4 : PhaseEnd[i - 1] <= t % PhaseLength /\ t % PhaseLength < PhaseEnd[i]

Subphase(t) == (t % PhaseLength) - PhaseEnd[Phase(t) - 1]

(* Mutant: a pace, the legs of one side together. *)
ContactPace(l, i) == ~(i = (IF l \in {"FL", "RL"} THEN 2 ELSE 4))

(* contact_phases *)
Contact(l, i) == ~(i = (IF l \in {"FL", "RR"} THEN 2 ELSE 4))

(* Mutant: the foot goes up all the way. *)
SwingHeightUp(sub) == (2 * Top * sub) \div SwingTicks

(* swing_height: a triangle over the ticks of a swing. *)
SwingHeight(sub) ==
    IF 2 * sub < SwingTicks THEN (2 * Top * sub) \div SwingTicks
    ELSE Top - (Top * (2 * sub - SwingTicks)) \div SwingTicks

(* A foot on the ground comes down by SG_DT / SG_Z_TIME_CONSTANT, 3/4. *)
NextLift(l, t, z) == IF Contact(l, Phase(t)) THEN z \div 4 ELSE SwingHeight(Subphase(t))

(* stanford_gait_step, and the flush of what it returns. *)
StepAndFlush ==
    /\ foot' = [l \in Legs |-> NextLift(l, ticks, foot[l])]
    /\ ticks' = (ticks + 1) % TickWrap
    /\ legs' = foot'

GaitReset == ticks' = 0 /\ foot' = Down

-----------------------------------------------------------------------------
(* httpd *)

ResetAllModes == Stanford' = FALSE /\ started' = FALSE /\ switched' = TRUE

(* toggle_motion: the reset, and then the flag if it was off. *)
Press ==
    /\ httpd = "idle"
    /\ ResetAllModes
    /\ httpd' = IF Stanford THEN "idle" ELSE "raise"
    /\ UNCHANGED << CliMode, outside, sg, legs, pads, reading, past, byStick, console, clock >>

Raise ==
    /\ httpd = "raise"
    /\ Stanford' = TRUE /\ byStick' = FALSE /\ httpd' = "idle"
    /\ UNCHANGED << CliMode, started, outside, sg, legs, pads, reading, past, switched,
                    console, clock >>

(* h_js: an event out of the dead zone starts the walk; the values are      *)
(* stored one by one, and the time last.                                    *)
Stick(o) ==
    /\ httpd = "idle" /\ event < MaxEvents
    /\ event' = event + 1 /\ outside' = o /\ httpd' = "js"
    /\ UNCHANGED << modes, sg, legs, js, last, reading, past, notes, console, clock >>

StickReset ==
    /\ httpd = "js" /\ outside /\ ~CliMode /\ ~Stanford
    /\ ResetAllModes /\ httpd' = "start"
    /\ UNCHANGED << CliMode, outside, sg, legs, pads, reading, past, byStick, console, clock >>

StickStart ==
    /\ httpd = "start"
    /\ Stanford' = TRUE /\ byStick' = TRUE /\ httpd' = "x" /\ outside' = FALSE
    /\ UNCHANGED << CliMode, started, sg, legs, pads, reading, past, switched,
                    console, clock >>

StickSkip ==
    /\ httpd = "js" /\ (~outside \/ CliMode \/ Stanford)
    /\ httpd' = "x" /\ outside' = FALSE
    /\ UNCHANGED << modes, sg, legs, pads, reading, past, notes, console, clock >>

Answers(next) ==
    IF next = "idle" THEN answered' = event /\ silence' = 0 ELSE UNCHANGED past

Storing(at, axis, next) ==
    /\ httpd = at
    /\ js' = [js EXCEPT ![axis] = event] /\ httpd' = next /\ Answers(next)
    /\ UNCHANGED << modes, outside, sg, legs, last, event, reading, notes, console, clock >>

StoreTime(at, next) ==
    /\ httpd = at
    /\ last' = clock /\ httpd' = next /\ Answers(next)
    /\ UNCHANGED << modes, outside, sg, legs, js, event, reading, notes, console, clock >>

(* Mutant: the time is stored first. *)
StoreTimeFirst ==
    \/ StoreTime("x", "x2") \/ Storing("x2", "x", "y") \/ Storing("y", "y", "w")
    \/ Storing("w", "w", "idle")

StoreStick ==
    \/ Storing("x", "x", "y") \/ Storing("y", "y", "w") \/ Storing("w", "w", "time")
    \/ StoreTime("time", "idle")

(* h_climode: CLI mode clears the motions, after it is on. *)
CliOn ==
    /\ httpd = "idle" /\ ~CliMode
    /\ CliMode' = TRUE /\ httpd' = "cli"
    /\ UNCHANGED << Stanford, started, outside, sg, legs, pads, reading, past, notes, console, clock >>

CliReset ==
    /\ httpd = "cli"
    /\ ResetAllModes /\ httpd' = "park"
    /\ UNCHANGED << CliMode, outside, sg, legs, pads, reading, past, byStick, console, clock >>

(* The 50 ms outlast a tick of the gait, which ends its ramp and its pacing *)
(* early when Stanford is off.                                             *)
Parked ==
    /\ httpd = "park" /\ gait = "top"
    /\ httpd' = "idle"
    /\ UNCHANGED << modes, outside, sg, legs, pads, reading, past, notes, console, clock >>

CliOff ==
    /\ httpd = "idle" /\ CliMode /\ (Alone => console = "idle")
    /\ CliMode' = FALSE
    /\ UNCHANGED << Stanford, started, web, sg, legs, pads, reading, past, notes, console, clock >>

Httpd ==
    \/ Press \/ Raise \/ StickReset \/ StickStart \/ StickSkip \/ StoreStick
    \/ CliOn \/ CliReset \/ Parked \/ CliOff \/ \E o \in BOOLEAN : Stick(o)

-----------------------------------------------------------------------------
(* gait_task *)

Gait(at, next) ==
    /\ gait = at /\ gait' = next
    /\ UNCHANGED << Stanford, CliMode, web, pads, past, console, clock, byStick >>

(* No flag is up: the stand at `height`. *)
Stand ==
    /\ Gait("top", "top") /\ ~CliMode /\ ~Stanford
    /\ legs' = Down /\ switched' = FALSE
    /\ UNCHANGED << started, sg, fresh, stick, since >>

Enter ==
    /\ Gait("top", IF started THEN "speed" ELSE "ramp") /\ ~CliMode /\ Stanford
    /\ UNCHANGED << started, sg, legs, fresh, stick, since, switched >>

(* Mutant: a new walk goes on where the last one was. *)
RampEndKeeps ==
    /\ Gait("ramp", "started")
    /\ UNCHANGED << sg, started, legs, fresh, stick, since, switched >>

(* The ramp is over, or was left. *)
RampEnd ==
    /\ Gait("ramp", "started")
    /\ GaitReset
    /\ UNCHANGED << started, legs, fresh, stick, since, switched >>

SetStarted ==
    /\ Gait("started", "speed")
    /\ started' = TRUE
    /\ UNCHANGED << sg, legs, fresh, stick, since, switched >>

(* Joystick if fresh, else the fixed forward walk. *)
LookAtTime ==
    /\ Gait("speed", "x")
    /\ fresh' = (clock - last < Timeout)
    /\ since' = [answered |-> answered, silence |-> silence]
    /\ UNCHANGED << started, sg, legs, stick, switched >>

Reads(at, axis, next) ==
    /\ Gait(at, next)
    /\ stick' = [stick EXCEPT ![axis] = IF fresh THEN js[axis] ELSE Forward[axis]]
    /\ UNCHANGED << started, sg, legs, fresh, since, switched >>

ReadStick == Reads("x", "x", "y") \/ Reads("y", "y", "w") \/ Reads("w", "w", "step")

Tick ==
    /\ Gait("step", "top")
    /\ StepAndFlush
    /\ fresh' = FALSE /\ stick' = AtRest /\ since' = Nothing  \* they go out of scope
    /\ switched' = (switched /\ ticks # 0)
    /\ UNCHANGED started

GaitTask ==
    Stand \/ Enter \/ RampEnd \/ SetStarted \/ LookAtTime \/ ReadStick \/ Tick

-----------------------------------------------------------------------------
(* run_swalk.  The code keeps nobody from leaving CLI mode while it walks,   *)
(* and does not wait for the gait before it begins; with Alone the people at *)
(* the console and at the page do both.                                     *)

Console(at, next) ==
    /\ console = at /\ console' = next
    /\ UNCHANGED << modes, web, pads, reading, past, byStick, clock >>

SwalkBegin ==
    /\ Console("idle", "walk") /\ CliMode /\ (Alone => httpd \notin {"cli", "park"})
    /\ GaitReset /\ switched' = TRUE /\ UNCHANGED legs

SwalkTick ==
    /\ Console("walk", "walk") /\ CliMode
    /\ StepAndFlush /\ switched' = (switched /\ ticks # 0)

(* The time is over, or CLI mode; the legs go back to the neutral stand. *)
SwalkEnd ==
    /\ Console("walk", "idle")
    /\ legs' = Down /\ switched' = FALSE
    /\ UNCHANGED sg

Swalk == SwalkBegin \/ SwalkTick \/ SwalkEnd

Pass ==
    /\ clock < MaxClock /\ clock' = clock + 1
    /\ silence' = IF silence < Timeout THEN silence + 1 ELSE silence
    /\ UNCHANGED << modes, sg, legs, web, pads, reading, answered, notes, console >>

Next == Httpd \/ GaitTask \/ Swalk \/ Pass

Spec == Init /\ [][Next]_vars

-----------------------------------------------------------------------------
(* Where the tasks are, and what the flags and the gait hold. *)
TypeOK ==
    /\ Stanford \in BOOLEAN /\ CliMode \in BOOLEAN /\ started \in BOOLEAN
    /\ ticks \in 0 .. TickWrap - 1
    /\ foot \in [Legs -> 0 .. Top] /\ legs \in [Legs -> 0 .. Top]
    /\ gait \in {"top", "ramp", "started", "speed", "x", "y", "w", "step"}
    /\ fresh \in BOOLEAN /\ stick \in [{"x", "y", "w"} -> -1 .. MaxEvents]
    /\ httpd \in {"idle", "raise", "js", "start", "x", "y", "w", "time", "cli", "park"}
    /\ outside \in BOOLEAN
    /\ js \in [{"x", "y", "w"} -> 0 .. MaxEvents] /\ last \in 0 .. clock
    /\ event \in 0 .. MaxEvents /\ console \in {"idle", "walk"} /\ clock \in 0 .. MaxClock
    /\ answered \in 0 .. event /\ silence \in 0 .. Timeout
    /\ since \in [answered : 0 .. event, silence : 0 .. Timeout]
    /\ byStick \in BOOLEAN /\ switched \in BOOLEAN

(* The robot trots: the feet that are off the ground belong to one          *)
(* diagonal, so the other always carries it; also where sg_ticks wraps in   *)
(* the middle of a cycle, and when gait_task takes over from the console.   *)
(* The theorem shows it of two tasks that walk at the same time as well.    *)
Trots == {l \in Legs : legs[l] > Top \div 12} \subseteq {"FR", "RL"}
         \/ {l \in Legs : legs[l] > Top \div 12} \subseteq {"FL", "RR"}

(* A foot is never asked for more than a third of the clearance in one      *)
(* tick: a walk begins with every foot on the ground and takes them up and  *)
(* down by ramps, whichever task walked before and left its phase behind.   *)
(* A motion button in between may put the feet down at once, and so does    *)
(* run_swalk, which has no ramp, with the feet that CLI mode caught up.     *)
(* Only with Alone: if CLI mode is left while run_swalk walks, or it begins *)
(* before gait_task is parked, two tasks step one gait and the feet jump.   *)
Smooth ==
    [][(Tick \/ SwalkTick) /\ ~switched =>
          \A l \in Legs : legs'[l] - legs[l] \in -(Top \div 3) .. Top \div 3]_vars

(* A joystick value is obeyed for Timeout only, counted from the answer to  *)
(* its event: what gait_task reads after it looked at js_last_ms is of the  *)
(* last event answered by then or of a later one.                           *)
StickObeyed ==
    [][Tick =>
        \/ stick = Forward
        \/ /\ since.silence < Timeout
           /\ \A a \in {"x", "y", "w"} : stick[a] >= since.answered]_vars

(* "Timeout -> stand (step in place)": a walk that the pads started does    *)
(* not go on by itself once they are silent.                                *)
SilentStands ==
    [][Tick /\ byStick /\ since.answered = event /\ since.silence >= Timeout
          => stick # Forward]_vars
=============================================================================
