---------------------------- MODULE MotionControl ----------------------------
(****************************************************************************)
(* The motion flags of src/main/main.c and the tasks that share them.       *)
(*                                                                          *)
(* The HTTP server task, the serial console task and (ENABLE_MQTT builds)   *)
(* the MQTT event task set and clear the flags; gait_task reads them and    *)
(* moves the legs.  There is no lock anywhere: every C statement that       *)
(* writes a shared variable is one atomic step here, in program order.      *)
(*                                                                          *)
(* Durations are count-down timers in ticks of any length.  With every      *)
(* duration 0 the model is untimed and all interleavings are explored; with *)
(* the real durations a task whose timer has run out acts before the next   *)
(* tick, so that what one delay is long enough for can be asked.            *)
(****************************************************************************)
EXTENDS Naturals, Sequences

CONSTANTS
    Controls,       \* the web controls in use: flags and "joystick"
    Togglers,       \* tasks that call toggle_motion: httpd, and mqtt if enabled
    ConsoleMotions, \* the tuning motions the serial console may run
    PassTicks,      \* duration of one pass of gait_task through each branch
    RampTicks,      \* the 400 ms ramp before a Stanford walk
    ParkTicks,      \* the 50 ms a client waits after turning CLI mode on
    GaitParkTicks   \* the 100 ms gait_task sleeps when it sees CliMode

(* The flags, grouped by the statement of reset_all_modes that clears them. *)
FirstGroup  == {"Ini", "Step", "Roll", "Pitch", "Stretch"}
SecondGroup == {"Advance", "Back", "Left", "Right", "TurnL", "TurnR", "Twerk",
                "Jump", "JumpFwd", "TestSpeed", "Mate", "Stanford"}
Motions     == FirstGroup \cup SecondGroup
Flags       == Motions \cup {"manual8"}

(* gait_task tests the flags in this order. *)
Chain == << "Ini", "Step", "Roll", "Pitch", "Stretch", "Advance", "Back",
            "Right", "Left", "TurnR", "TurnL", "Twerk", "Mate", "Jump",
            "JumpFwd", "TestSpeed", "Stanford", "manual8" >>

(* Branches that clear their own flag when the pass is over. *)
OneShots == {"Jump", "JumpFwd", "TestSpeed"}

(* Tuning motions of the console that check CliMode while they run. *)
Tunings == {"swalk", "sstretch", "sjump"}

Clients == Togglers \cup {"httpd", "console"}
Tasks   == Clients \cup {"gait"}

ASSUME ControlsAssumption == Controls \subseteq Flags \cup {"joystick"}
ASSUME TogglersAssumption == Togglers \subseteq {"httpd", "mqtt"}
ASSUME TuningsAssumption  == ConsoleMotions \subseteq Tunings
ASSUME TicksAssumption    ==
    /\ PassTicks \in [Flags \cup {"stand"} -> Nat]
    /\ RampTicks \in Nat /\ ParkTicks \in Nat /\ GaitParkTicks \in Nat

VARIABLES
    on,          \* the flags that are nonzero, manual8 among them
    cliMode,     \* CliMode
    sgStarted,   \* sg_started
    startedOnce, \* started_once
    pose,        \* pose_x, pose_z: "stand" (0, height) or "neutral" (0, NEUTRAL_Z)
    legs,        \* the motion whose goals were flushed to the servos last
    pc,          \* where each client task is in its handler
    then,        \* what the handler does once reset_all_modes returns
    gait,        \* where gait_task is
    running,     \* the branch of gait_task's pass
    timer,       \* ticks left of each task's delay
    settled      \* history: gait_task has seen CliMode since it was set

shared  == << on, cliMode, sgStarted, startedOnce >>
posture == << pose, legs >>
loop    == << gait, running >>
vars    == << shared, posture, pc, then, loop, timer, settled >>

PcValues   == {"idle", "clear1", "clear2", "clear3", "clear4", "after",
               "delay", "bus", "tuning"}
ThenValues == Flags \cup Tunings \cup {"off", "park", "cli"}
GaitValues == {"top", "choose", "parked", "pass", "ramp", "init", "step", "pace"}
LegValues  == Flags \cup Tunings \cup {"centre", "stand", "neutral", "ramp"}

Init ==
    /\ on = {} /\ cliMode = FALSE /\ sgStarted = FALSE /\ startedOnce = FALSE
    /\ pose = "neutral" /\ legs = "centre"
    /\ pc = [t \in Clients |-> "idle"]
    /\ then = [t \in Clients |-> "off"]
    /\ gait = "top" /\ running = "stand"
    /\ timer = [t \in Tasks |-> 0]
    /\ settled = FALSE

Goto(t, from, to) == pc[t] = from /\ pc' = [pc EXCEPT ![t] = to]

-----------------------------------------------------------------------------
(* The clients: handlers of httpd, the console and the MQTT event task.      *)

(* reset_all_modes called by task t, which does what once it has returned. *)
CallReset(t, what) ==
    /\ Goto(t, "idle", "clear1")
    /\ then' = [then EXCEPT ![t] = what]

(* toggle_motion: the tests and stores before reset_all_modes. *)
PressOff(t, m) ==
    /\ m \in on
    /\ on' = on \ {m}
    /\ startedOnce' = TRUE
    /\ CallReset(t, "off")
    /\ UNCHANGED << cliMode, sgStarted, posture, loop, timer, settled >>

PressOn(t, m) ==
    /\ m \notin on
    /\ startedOnce' = TRUE
    /\ CallReset(t, m)
    /\ UNCHANGED << on, cliMode, sgStarted, posture, loop, timer, settled >>

(* h_leg8, and h_js when a stick leaves its dead zone outside the walk. *)
Leg8 ==
    /\ "manual8" \in Controls
    /\ CallReset("httpd", "manual8")
    /\ UNCHANGED << shared, posture, loop, timer, settled >>

(* Mutant: h_js raises Stanford without turning the other motions off. *)
JoystickKeepsMode ==
    /\ "joystick" \in Controls
    /\ ~cliMode /\ "Stanford" \notin on
    /\ Goto("httpd", "idle", "after")
    /\ then' = [then EXCEPT !["httpd"] = "Stanford"]
    /\ UNCHANGED << shared, posture, loop, timer, settled >>

Joystick ==
    /\ "joystick" \in Controls
    /\ ~cliMode /\ "Stanford" \notin on
    /\ CallReset("httpd", "Stanford")
    /\ UNCHANGED << shared, posture, loop, timer, settled >>

(* h_climode flips CliMode before it resets the modes. *)
WebCliFlip ==
    /\ cliMode' = ~cliMode
    /\ settled' = FALSE
    /\ IF cliMode THEN pc["httpd"] = "idle" /\ UNCHANGED << pc, then >>
                  ELSE CallReset("httpd", "park")
    /\ UNCHANGED << on, sgStarted, startedOnce, posture, loop, timer >>

(* h_api_climode and "cli on" reset the modes before they set CliMode. *)
CliOn(t) ==
    /\ ~cliMode
    /\ CallReset(t, "cli")
    /\ UNCHANGED << shared, posture, loop, timer, settled >>

CliOff(t) ==
    /\ pc[t] = "idle"
    /\ cliMode' = FALSE
    /\ settled' = FALSE
    /\ UNCHANGED << on, sgStarted, startedOnce, posture, pc, then, loop, timer >>

(* The four statements of reset_all_modes. *)
ClearFirst(t) ==
    /\ Goto(t, "clear1", "clear2")
    /\ on' = on \ FirstGroup
    /\ UNCHANGED << cliMode, sgStarted, startedOnce, posture, then, loop, timer, settled >>

(* Mutant: the second statement of reset_all_modes misses TestSpeed. *)
ClearSecondMissesOne(t) ==
    /\ Goto(t, "clear2", "clear3")
    /\ on' = on \ (SecondGroup \ {"TestSpeed"})
    /\ UNCHANGED << cliMode, sgStarted, startedOnce, posture, then, loop, timer, settled >>

ClearSecond(t) ==
    /\ Goto(t, "clear2", "clear3")
    /\ on' = on \ SecondGroup
    /\ UNCHANGED << cliMode, sgStarted, startedOnce, posture, then, loop, timer, settled >>

ClearManual(t) ==
    /\ Goto(t, "clear3", "clear4")
    /\ on' = on \ {"manual8"}
    /\ UNCHANGED << cliMode, sgStarted, startedOnce, posture, then, loop, timer, settled >>

ClearStarted(t) ==
    /\ Goto(t, "clear4", IF then[t] = "off" THEN "idle" ELSE "after")
    /\ sgStarted' = FALSE
    /\ UNCHANGED << on, cliMode, startedOnce, posture, then, loop, timer, settled >>

(* "*flag=1" of toggle_motion, "manual8=1" of h_leg8, "Stanford=1" of h_js. *)
Raise(t, m) ==
    /\ then[t] = m
    /\ Goto(t, "after", "idle")
    /\ on' = on \cup {m}
    /\ startedOnce' = TRUE
    /\ UNCHANGED << cliMode, sgStarted, posture, then, loop, timer, settled >>

(* CliMode=1 where it was not set first, and the start of the 50 ms delay. *)
EnterCli(t) ==
    /\ then[t] \in {"park", "cli"}
    /\ Goto(t, "after", "delay")
    /\ cliMode' = (cliMode \/ then[t] = "cli")
    /\ settled' = (settled /\ then[t] = "park")
    /\ timer' = [timer EXCEPT ![t] = ParkTicks]
    /\ UNCHANGED << on, sgStarted, startedOnce, posture, then, loop >>

DelayOver(t) ==
    /\ timer[t] = 0
    /\ Goto(t, "delay", "idle")
    /\ UNCHANGED << shared, posture, then, loop, timer, settled >>

(* A command that talks to the driver boards.  The web handlers refuse it   *)
(* outside CLI mode; the console only prints a warning.                     *)
BusBegin(t) ==
    /\ t = "httpd" => cliMode
    /\ Goto(t, "idle", "bus")
    /\ UNCHANGED << shared, posture, then, loop, timer, settled >>

BusEnd(t) ==
    /\ Goto(t, "bus", "idle")
    /\ UNCHANGED << shared, posture, then, loop, timer, settled >>

(* run_swalk, run_sstretch and run_sjump on the console task. *)
TuneBegin(k) ==
    /\ cliMode
    /\ Goto("console", "idle", "tuning")
    /\ then' = [then EXCEPT !["console"] = k]
    /\ pose' = IF k = "swalk" THEN "stand" ELSE pose
    /\ UNCHANGED << shared, legs, loop, timer, settled >>

(* run_sjump looks at CliMode between repetitions only. *)
TuneStep ==
    /\ pc["console"] = "tuning"
    /\ cliMode \/ then["console"] = "sjump"
    /\ legs' = then["console"]
    /\ UNCHANGED << shared, pose, pc, then, loop, timer, settled >>

(* Mutant: the recorded pose is the tuning motion, not the parked stance. *)
TuneEndUnparked ==
    /\ Goto("console", "tuning", "idle")
    /\ pose' = then["console"] /\ legs' = "neutral"
    /\ UNCHANGED << shared, then, loop, timer, settled >>

(* The park at the end, whether time is up or CliMode was cleared. *)
TuneEnd ==
    /\ Goto("console", "tuning", "idle")
    /\ LET park == IF then["console"] = "sjump" THEN "stand" ELSE "neutral"
       IN  pose' = park /\ legs' = park
    /\ UNCHANGED << shared, then, loop, timer, settled >>

Request(t) ==
    \/ t \in Togglers /\ \E m \in Controls \cap Motions : PressOff(t, m) \/ PressOn(t, m)
    \/ t = "httpd" /\ (Leg8 \/ Joystick \/ WebCliFlip)
    \/ t \in {"httpd", "console"} /\ (CliOn(t) \/ CliOff(t) \/ BusBegin(t))
    \/ t = "console" /\ \E k \in ConsoleMotions : TuneBegin(k)

Handle(t) ==
    \/ ClearFirst(t) \/ ClearSecond(t) \/ ClearManual(t) \/ ClearStarted(t)
    \/ \E m \in Flags : Raise(t, m)
    \/ EnterCli(t) \/ DelayOver(t) \/ BusEnd(t)
    \/ t = "console" /\ (TuneStep \/ TuneEnd)

-----------------------------------------------------------------------------
(* gait_task. *)

Wait(n) == timer' = [timer EXCEPT !["gait"] = n]

(* Mutant: CLI mode is looked at only when no motion is on. *)
GaitParkWhenStopped ==
    /\ gait = "top" /\ cliMode /\ on = {}
    /\ gait' = "parked"
    /\ settled' = TRUE
    /\ Wait(GaitParkTicks)
    /\ UNCHANGED << shared, posture, pc, then, running >>

GaitPark ==
    /\ gait = "top" /\ cliMode
    /\ gait' = "parked"
    /\ settled' = TRUE
    /\ Wait(GaitParkTicks)
    /\ UNCHANGED << shared, posture, pc, then, running >>

(* Mutant: the "continue" after the 100 ms sleep is missing. *)
GaitWakeNoContinue ==
    /\ gait = "parked" /\ timer["gait"] = 0
    /\ gait' = "choose"
    /\ UNCHANGED << shared, posture, pc, then, running, timer, settled >>

GaitWake ==
    /\ gait = "parked" /\ timer["gait"] = 0
    /\ gait' = "top"
    /\ UNCHANGED << shared, posture, pc, then, running, timer, settled >>

GaitProceed ==
    /\ gait = "top" /\ ~cliMode
    /\ gait' = "choose"
    /\ UNCHANGED << shared, posture, pc, then, running, timer, settled >>

(* The flag the if/else chain stops at. *)
Selected(m) ==
    \E i \in DOMAIN Chain :
        /\ Chain[i] = m /\ m \in on
        /\ \A j \in 1 .. i - 1 : Chain[j] \notin on

(* Every branch but Stanford runs to its end whatever the flags become. *)
GaitBegin(m) ==
    /\ gait = "choose" /\ Selected(m) /\ m # "Stanford"
    /\ gait' = "pass" /\ running' = m
    /\ legs' = m
    /\ Wait(PassTicks[m])
    /\ UNCHANGED << shared, pose, pc, then, settled >>

(* Mutant: only the power-on branch stands, the idle branch is missing. *)
GaitStandAtPowerOn ==
    /\ gait = "choose" /\ on = {} /\ ~startedOnce
    /\ gait' = "pass" /\ running' = "stand"
    /\ legs' = "stand"
    /\ Wait(PassTicks["stand"])
    /\ UNCHANGED << shared, pose, pc, then, settled >>

(* The power-on pose and the idle hold both flush a stand at height. *)
GaitStand ==
    /\ gait = "choose" /\ on = {}
    /\ gait' = "pass" /\ running' = "stand"
    /\ legs' = "stand"
    /\ Wait(PassTicks["stand"])
    /\ UNCHANGED << shared, pose, pc, then, settled >>

(* Mutant: a one-shot motion does not clear its flag. *)
GaitEndKeepsFlag ==
    /\ gait = "pass" /\ timer["gait"] = 0
    /\ gait' = "top"
    /\ pose' = CASE running = "Ini"   -> "neutral"
                 [] running = "stand" -> "stand"
                 [] OTHER             -> pose
    /\ UNCHANGED << shared, legs, pc, then, running, timer, settled >>

GaitEnd ==
    /\ gait = "pass" /\ timer["gait"] = 0
    /\ gait' = "top"
    /\ on' = on \ (OneShots \cap {running})
    /\ pose' = CASE running = "Ini"   -> "neutral"
                 [] running = "stand" -> "stand"
                 [] OTHER             -> pose
    /\ UNCHANGED << cliMode, sgStarted, startedOnce, legs, pc, then,
                    running, timer, settled >>

(* The Stanford branch: ramp to the walk stance if the recorded pose is     *)
(* elsewhere, reset the gait, then one gait tick per pass.                  *)
StanfordBegin ==
    /\ gait = "choose" /\ Selected("Stanford")
    /\ running' = "Stanford"
    /\ IF sgStarted THEN gait' = "step" /\ UNCHANGED timer
       ELSE IF pose = "stand" THEN gait' = "init" /\ UNCHANGED timer
       ELSE gait' = "ramp" /\ Wait(RampTicks)
    /\ UNCHANGED << shared, posture, pc, then, settled >>

(* The ramp is abandoned when the Stanford flag goes away. *)
RampEnd ==
    /\ gait = "ramp" /\ (timer["gait"] = 0 \/ "Stanford" \notin on)
    /\ gait' = "init"
    /\ legs' = IF timer["gait"] = 0 THEN "stand" ELSE "ramp"
    /\ Wait(0)
    /\ UNCHANGED << shared, pose, pc, then, running, settled >>

StanfordInit ==
    /\ gait = "init"
    /\ gait' = "step"
    /\ pose' = "stand"
    /\ sgStarted' = TRUE
    /\ UNCHANGED << on, cliMode, startedOnce, legs, pc, then, running, timer, settled >>

StanfordStep ==
    /\ gait = "step"
    /\ gait' = "pace"
    /\ legs' = "Stanford"
    /\ Wait(PassTicks["Stanford"])
    /\ UNCHANGED << shared, pose, pc, then, running, settled >>

PaceEnd ==
    /\ gait = "pace" /\ (timer["gait"] = 0 \/ "Stanford" \notin on)
    /\ gait' = "top"
    /\ Wait(0)
    /\ UNCHANGED << shared, posture, pc, then, running, settled >>

Gait ==
    \/ GaitPark \/ GaitWake \/ GaitProceed
    \/ \E m \in Flags : GaitBegin(m)
    \/ GaitStand \/ GaitEnd
    \/ StanfordBegin \/ RampEnd \/ StanfordInit \/ StanfordStep \/ PaceEnd

-----------------------------------------------------------------------------
(* Time.  A task between two delays acts before the next tick. *)
Ready(t) ==
    /\ timer[t] = 0
    /\ t \in Clients => pc[t] \notin {"idle", "bus", "tuning"}

Tick ==
    /\ \A t \in Tasks : ~Ready(t)
    /\ timer' = [t \in Tasks |-> IF timer[t] = 0 THEN 0 ELSE timer[t] - 1]
    /\ UNCHANGED << shared, posture, pc, then, loop, settled >>

Next ==
    \/ \E t \in Clients : Request(t) \/ Handle(t)
    \/ Gait
    \/ Tick

Spec == Init /\ [][Next]_vars

(* The scheduler keeps running every task, requests come when they come, and *)
(* time passes: no endless row of requests fits between two ticks.           *)
Fairness ==
    /\ \A t \in Clients : WF_vars(Handle(t))
    /\ WF_vars(TuneEnd)
    /\ WF_vars(Gait)
    /\ SF_vars(Tick)

LiveSpec == Spec /\ Fairness
-----------------------------------------------------------------------------
(* Properties. *)

(* Every variable stays in its type. *)
TypeOK ==
    /\ on \subseteq Flags
    /\ cliMode \in BOOLEAN /\ sgStarted \in BOOLEAN /\ startedOnce \in BOOLEAN
    /\ pose \in {"stand", "neutral"} /\ legs \in LegValues
    /\ pc \in [Clients -> PcValues] /\ then \in [Clients -> ThenValues]
    /\ gait \in GaitValues /\ running \in Flags \cup {"stand"}
    /\ timer \in [Tasks -> Nat]
    /\ settled \in BOOLEAN

(* At most one motion is ever requested, whatever requests, console resets   *)
(* and self-clearing passes interleave: toggle_motion turns "everything else *)
(* off" although reset_all_modes takes four statements and no lock.          *)
AtMostOneMode == \A m, n \in on : m = n

(* Once gait_task has seen CliMode it stays off the bus until CLI mode has   *)
(* been left: no later press, joystick event or tuning run wakes it.         *)
GaitStaysParked == settled => cliMode /\ gait \in {"top", "parked"}

(* The flags and gait_task implement MotionMode: the flag that is on is the  *)
(* requested motion, the branch of the pass the performed one.               *)
SoleFlag(flags) == IF flags = {} THEN "stand" ELSE CHOOSE m \in flags : TRUE
Requested == SoleFlag(on)
Performed == IF gait \in {"top", "choose", "parked"} THEN "stand" ELSE running

Mode == INSTANCE MotionMode WITH
            Motion <- Flags, None <- "stand", mode <- Requested, cli <- cliMode,
            active <- Performed, armed <- gait = "choose"

ImplementsMode == Mode!Spec

(* CLI mode is a working pause: it ends up honoured by gait_task or left.    *)
CliTakesEffect == cliMode ~> (settled \/ ~cliMode)

(* When all motions stay off outside CLI mode the robot ends up standing,    *)
(* even if a tuning run of the console was still parking the legs.           *)
StandsWhenStopped ==
    <>[](on = {} /\ ~cliMode) => <>[](legs = "stand")

(* A one-shot motion is over by itself, unless CLI mode pauses gait_task.    *)
OneShotEnds ==
    \A m \in OneShots : m \in on ~> (m \notin on \/ cliMode)

(* The comment on the wizard API, "All parameter access requires CLI mode    *)
(* (gait paused) so the HTTP task owns the SPI bus": once every handler that *)
(* turns CLI mode on has waited out its delay, a web command that CLI mode   *)
(* admitted does not find gait_task inside a pass.                           *)
HttpOwnsBus ==
    pc["httpd"] = "bus" /\ cliMode /\ (\A t \in Clients : pc[t] \in {"idle", "bus"})
        => gait \notin {"pass", "ramp", "init", "step", "pace"}

(* The comment in the Stanford branch, a "short ramp only if the legs are    *)
(* away from the walk stance (e.g. coming from a crouched mode)": the ramp   *)
(* is skipped only when the legs stand or were walking already.              *)
RampsFromAway ==
    [][gait = "choose" /\ gait' = "init" => legs \in {"stand", "Stanford"}]_vars
=============================================================================
