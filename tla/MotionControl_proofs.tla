------------------------- MODULE MotionControl_proofs -------------------------
(****************************************************************************)
(* Proofs about MotionControl for every value of its constants: its type    *)
(* invariant, that CLI mode keeps gait_task parked, and, when httpd is the  *)
(* only task that calls toggle_motion (ENABLE_MQTT 0), that at most one     *)
(* motion is requested.                                                     *)
(****************************************************************************)
EXTENDS MotionControl, TLAPS

(* A console task inside a tuning motion knows which one. *)
TuningKnown == pc["console"] = "tuning" => then["console"] \in Tunings

TypeInv == TypeOK /\ TuningKnown

(* Every action keeps every variable in its type. *)
LEMMA TypeInvariant == Spec => []TypeInv
<1>1. Init => TypeInv
  <2> SUFFICES ASSUME Init PROVE TypeInv
    OBVIOUS
  <2>1. "console" \in Clients
    BY DEF Clients
  <2>2. pc \in [Clients -> PcValues] /\ then \in [Clients -> ThenValues]
    BY DEF Init, PcValues, ThenValues
  <2>3. timer \in [Tasks -> Nat] /\ TuningKnown
    BY <2>1 DEF Init, TuningKnown
  <2>4. pose \in {"stand", "neutral"} /\ legs \in LegValues /\ gait \in GaitValues
    BY DEF Init, LegValues, GaitValues
  <2> QED BY <2>2, <2>3, <2>4 DEF Init, TypeInv, TypeOK
<1>2. TypeInv /\ [Next]_vars => TypeInv'
  <2> SUFFICES ASSUME TypeInv, [Next]_vars PROVE TypeInv'
    OBVIOUS
  <2>0. "httpd" \in Clients /\ "console" \in Clients
    BY DEF Clients
  <2> USE DEF TypeInv, TypeOK, TuningKnown, shared, posture, loop
  <2>1. ASSUME NEW t \in Clients, Request(t) PROVE TypeInv'
    <3>1. ASSUME NEW m \in Controls \cap Motions, t \in Togglers, PressOff(t, m) PROVE TypeInv'
      BY <3>1 DEF PressOff, CallReset, Goto, PcValues, ThenValues
    <3>2. ASSUME NEW m \in Controls \cap Motions, t \in Togglers, PressOn(t, m) PROVE TypeInv'
      BY <3>2 DEF PressOn, CallReset, Goto, PcValues, ThenValues, Flags
    <3>3. ASSUME Leg8 PROVE TypeInv'
      BY <2>0, <3>3 DEF Leg8, CallReset, Goto, PcValues, ThenValues, Flags
    <3>4. ASSUME Joystick PROVE TypeInv'
      BY <2>0, <3>4 DEF Joystick, CallReset, Goto, PcValues, ThenValues, Flags, Motions, SecondGroup
    <3>5. ASSUME WebCliFlip PROVE TypeInv'
      <4>1. cliMode' \in BOOLEAN /\ settled' \in BOOLEAN
        BY <3>5 DEF WebCliFlip
      <4>2. CASE cliMode
        BY <3>5, <4>1, <4>2 DEF WebCliFlip
      <4>3. CASE ~cliMode
        BY <2>0, <3>5, <4>1, <4>3 DEF WebCliFlip, CallReset, Goto, PcValues, ThenValues
      <4> QED BY <4>2, <4>3
    <3>6. ASSUME CliOn(t) PROVE TypeInv'
      BY <3>6 DEF CliOn, CallReset, Goto, PcValues, ThenValues
    <3>7. ASSUME CliOff(t) PROVE TypeInv'
      BY <3>7 DEF CliOff
    <3>8. ASSUME BusBegin(t) PROVE TypeInv'
      BY <3>8 DEF BusBegin, Goto, PcValues
    <3>9. ASSUME NEW k \in ConsoleMotions, TuneBegin(k) PROVE TypeInv'
      BY <3>9, TuningsAssumption DEF TuneBegin, Goto, PcValues, ThenValues
    <3> QED BY <2>1, <3>1, <3>2, <3>3, <3>4, <3>5, <3>6, <3>7, <3>8, <3>9 DEF Request
  <2>2. ASSUME NEW t \in Clients, Handle(t) PROVE TypeInv'
    <3>1. CASE ClearFirst(t)
      BY <3>1 DEF ClearFirst, Goto, PcValues
    <3>2. CASE ClearSecond(t)
      BY <3>2 DEF ClearSecond, Goto, PcValues
    <3>3. CASE ClearManual(t)
      BY <3>3 DEF ClearManual, Goto, PcValues
    <3>4. CASE ClearStarted(t)
      <4>1. PICK to \in {"idle", "after"} : pc' = [pc EXCEPT ![t] = to]
        BY <3>4 DEF ClearStarted, Goto
      <4>2. pc' \in [Clients -> PcValues] /\ TuningKnown'
        BY <3>4, <4>1 DEF ClearStarted, PcValues
      <4> QED BY <3>4, <4>2 DEF ClearStarted
    <3>5. ASSUME NEW m \in Flags, Raise(t, m) PROVE TypeInv'
      BY <3>5 DEF Raise, Goto, PcValues
    <3>6. CASE EnterCli(t)
      <4>1. cliMode' \in BOOLEAN /\ settled' \in BOOLEAN
        BY <3>6 DEF EnterCli
      <4>2. timer' \in [Tasks -> Nat]
        BY <3>6, TicksAssumption DEF EnterCli, Tasks
      <4>3. pc' \in [Clients -> PcValues] /\ TuningKnown'
        BY <3>6 DEF EnterCli, Goto, PcValues
      <4> QED BY <3>6, <4>1, <4>2, <4>3 DEF EnterCli
    <3>7. CASE DelayOver(t)
      BY <3>7 DEF DelayOver, Goto, PcValues
    <3>8. CASE BusEnd(t)
      BY <3>8 DEF BusEnd, Goto, PcValues
    <3>9. CASE t = "console" /\ TuneStep
      BY <3>9 DEF TuneStep, LegValues
    <3>10. CASE t = "console" /\ TuneEnd
      BY <3>10 DEF TuneEnd, Goto, PcValues, LegValues
    <3> QED BY <2>2, <3>1, <3>2, <3>3, <3>4, <3>5, <3>6, <3>7, <3>8, <3>9, <3>10 DEF Handle
  <2>3. ASSUME Gait PROVE TypeInv'
    <3> USE DEF Wait, GaitValues, Tasks
    <3>1. CASE GaitPark
      BY <3>1, TicksAssumption DEF GaitPark
    <3>2. CASE GaitWake
      BY <3>2 DEF GaitWake
    <3>3. CASE GaitProceed
      BY <3>3 DEF GaitProceed
    <3>4. ASSUME NEW m \in Flags, GaitBegin(m) PROVE TypeInv'
      BY <3>4, TicksAssumption DEF GaitBegin, LegValues
    <3>5. CASE GaitStand
      BY <3>5, TicksAssumption DEF GaitStand, LegValues
    <3>6. CASE GaitEnd
      BY <3>6 DEF GaitEnd
    <3>7. CASE StanfordBegin
      BY <3>7, TicksAssumption DEF StanfordBegin, Flags, Motions, SecondGroup
    <3>8. CASE RampEnd
      BY <3>8 DEF RampEnd, LegValues
    <3>9. CASE StanfordInit
      BY <3>9 DEF StanfordInit
    <3>10. CASE StanfordStep
      BY <3>10, TicksAssumption DEF StanfordStep, LegValues, Flags, Motions, SecondGroup
    <3>11. CASE PaceEnd
      BY <3>11 DEF PaceEnd
    <3> QED BY <2>3, <3>1, <3>2, <3>3, <3>4, <3>5, <3>6, <3>7, <3>8, <3>9, <3>10, <3>11 DEF Gait
  <2>4. CASE Tick
    BY <2>4 DEF Tick
  <2>5. CASE UNCHANGED vars
    BY <2>5 DEF vars
  <2> QED BY <2>1, <2>2, <2>3, <2>4, <2>5 DEF Next
<1> QED BY <1>1, <1>2, PTL DEF Spec

THEOREM TypeCorrect == Spec => []TypeOK
<1>1. TypeInv => TypeOK
  BY DEF TypeInv
<1> QED BY <1>1, TypeInvariant, PTL

-----------------------------------------------------------------------------
(* Once gait_task has seen CliMode, nothing but leaving CLI mode lets it go  *)
(* on: GaitStaysParked is inductive.                                         *)
THEOREM ParkedInCliMode == Spec => []GaitStaysParked
<1>1. Init => GaitStaysParked
  BY DEF Init, GaitStaysParked
<1>2. TypeInv /\ GaitStaysParked /\ [Next]_vars => GaitStaysParked'
  <2> SUFFICES ASSUME TypeInv, GaitStaysParked, [Next]_vars PROVE GaitStaysParked'
    OBVIOUS
  <2> USE DEF GaitStaysParked, TypeInv, TypeOK, shared, loop
  <2>1. ASSUME NEW t \in Clients, Request(t) PROVE GaitStaysParked'
    <3>1. UNCHANGED << cliMode, gait, settled >> \/ settled' = FALSE
      BY <2>1 DEF Request, PressOff, PressOn, Leg8, Joystick, WebCliFlip, CliOn,
                  CliOff, BusBegin, TuneBegin
    <3> QED BY <3>1
  <2>2. ASSUME NEW t \in Clients, Handle(t) PROVE GaitStaysParked'
    <3>1. CASE EnterCli(t)
      BY <3>1 DEF EnterCli
    <3>2. CASE ~EnterCli(t)
      <4>1. UNCHANGED << cliMode, gait, settled >>
        BY <2>2, <3>2 DEF Handle, ClearFirst, ClearSecond, ClearManual, ClearStarted,
                    Raise, DelayOver, BusEnd, TuneStep, TuneEnd
      <4> QED BY <4>1
    <3> QED BY <3>1, <3>2
  <2>3. ASSUME Gait PROVE GaitStaysParked'
    BY <2>3 DEF Gait, GaitPark, GaitWake, GaitProceed, GaitBegin, GaitStand, GaitEnd,
                StanfordBegin, RampEnd, StanfordInit, StanfordStep, PaceEnd
  <2>4. ASSUME Tick \/ UNCHANGED vars PROVE GaitStaysParked'
    BY <2>4 DEF Tick, vars
  <2> QED BY <2>1, <2>2, <2>3, <2>4 DEF Next
<1> QED BY <1>1, <1>2, TypeInvariant, PTL DEF Spec

-----------------------------------------------------------------------------
(* While httpd is inside reset_all_modes the flags its earlier statements    *)
(* cleared are still off, because nobody else raises flags; once it is about *)
(* to raise one, none is on.                                                 *)
ResetProgress ==
    /\ pc["httpd"] = "clear2" => on \cap FirstGroup = {}
    /\ pc["httpd"] = "clear3" => on \subseteq {"manual8"}
    /\ pc["httpd"] \in {"clear4", "after"} => on = {}

ModeInv == AtMostOneMode /\ ResetProgress /\ then["console"] \notin Flags

(* Clearing flags while httpd stands still preserves ModeInv. *)
LEMMA ClearingPreserves ==
  ASSUME ModeInv, on' \subseteq on,
         pc'["httpd"] = pc["httpd"] \/ pc'["httpd"] \in {"idle", "clear1", "delay", "bus"},
         then'["console"] \notin Flags
  PROVE  ModeInv'
BY DEF ModeInv, AtMostOneMode, ResetProgress

(* With httpd the only toggler, ModeInv is an invariant. *)
LEMMA ModeInvariant ==
  ASSUME Togglers = {"httpd"}
  PROVE  Spec => []ModeInv
<1> USE DEF Clients
<1>1. Init => ModeInv
  BY DEF Init, ModeInv, AtMostOneMode, ResetProgress, Flags, Motions, FirstGroup, SecondGroup
<1>2. TypeInv /\ ModeInv /\ [Next]_vars => ModeInv'
  <2> SUFFICES ASSUME TypeInv, ModeInv, [Next]_vars PROVE ModeInv'
    OBVIOUS
  <2>0. pc \in [Clients -> PcValues] /\ then \in [Clients -> ThenValues] /\ on \subseteq Flags
    BY DEF TypeInv, TypeOK
  <2>n. then["console"] \notin Flags
    BY DEF ModeInv
  <2> USE DEF shared
  <2>1. ASSUME NEW t \in Clients, Request(t) PROVE ModeInv'
    <3>1. on' \subseteq on
      BY <2>1 DEF Request, PressOff, PressOn, Leg8, Joystick, WebCliFlip, CliOn,
                  CliOff, BusBegin, TuneBegin
    <3>2. pc'["httpd"] = pc["httpd"] \/ pc'["httpd"] \in {"idle", "clear1", "delay", "bus"}
      BY <2>0, <2>1 DEF Request, PressOff, PressOn, Leg8, Joystick, WebCliFlip, CliOn,
                  CliOff, BusBegin, TuneBegin, CallReset, Goto
    <3>3. then'["console"] \notin Flags
      BY <2>0, <2>1, <2>n, TuningsAssumption
      DEF Request, PressOff, PressOn, Leg8, Joystick, WebCliFlip, CliOn, CliOff, BusBegin,
          TuneBegin, CallReset, Flags, Motions, FirstGroup, SecondGroup, Tunings
    <3> QED BY <3>1, <3>2, <3>3, ClearingPreserves
  <2>2. ASSUME NEW t \in Clients, Handle(t) PROVE ModeInv'
    <3>0. CASE t = "console"
      <4>1. on' \subseteq on /\ then' = then
        BY <2>2, <2>n, <3>0 DEF Handle, ClearFirst, ClearSecond, ClearManual, ClearStarted,
                    Raise, EnterCli, DelayOver, BusEnd, TuneStep, TuneEnd
      <4>2. pc'["httpd"] = pc["httpd"]
        BY <2>0, <2>2, <3>0 DEF Handle, ClearFirst, ClearSecond, ClearManual, ClearStarted,
                    Raise, EnterCli, DelayOver, BusEnd, TuneStep, TuneEnd, Goto
      <4> QED BY <2>n, <4>1, <4>2, ClearingPreserves
    <3>1. CASE t = "httpd" /\ ClearFirst(t)
      BY <2>0, <3>1 DEF ClearFirst, Goto, ModeInv, AtMostOneMode, ResetProgress
    <3>2. CASE t = "httpd" /\ ClearSecond(t)
      BY <2>0, <3>2 DEF ClearSecond, Goto, ModeInv, AtMostOneMode, ResetProgress, Flags, Motions
    <3>3. CASE t = "httpd" /\ ClearManual(t)
      BY <2>0, <3>3 DEF ClearManual, Goto, ModeInv, AtMostOneMode, ResetProgress
    <3>4. CASE t = "httpd" /\ ClearStarted(t)
      <4>1. pc["httpd"] = "clear4" /\ on' = on /\ then' = then
        BY <3>4 DEF ClearStarted, Goto
      <4>2. on = {}
        BY <4>1 DEF ModeInv, ResetProgress
      <4>3. pc'["httpd"] \notin {"clear2", "clear3"}
        <5>1. PICK to \in {"idle", "after"} : pc' = [pc EXCEPT !["httpd"] = to]
          BY <3>4 DEF ClearStarted, Goto
        <5> QED BY <2>0, <5>1
      <4> QED BY <2>n, <4>1, <4>2, <4>3 DEF ModeInv, AtMostOneMode, ResetProgress
    <3>5. ASSUME NEW m \in Flags, t = "httpd", Raise(t, m) PROVE ModeInv'
      <4>1. on = {} /\ on' = {m} /\ then' = then
        BY <3>5 DEF Raise, Goto, ModeInv, ResetProgress
      <4>2. pc'["httpd"] = "idle"
        BY <2>0, <3>5 DEF Raise, Goto
      <4> QED BY <2>n, <4>1, <4>2 DEF ModeInv, AtMostOneMode, ResetProgress
    <3>6. CASE t = "httpd" /\ (EnterCli(t) \/ DelayOver(t) \/ BusEnd(t))
      <4>1. on' = on /\ then' = then
        BY <3>6 DEF EnterCli, DelayOver, BusEnd
      <4>2. pc'["httpd"] \in {"idle", "delay"}
        BY <2>0, <3>6 DEF EnterCli, DelayOver, BusEnd, Goto
      <4> QED BY <2>n, <4>1, <4>2, ClearingPreserves
    <3> QED BY <2>2, <3>0, <3>1, <3>2, <3>3, <3>4, <3>5, <3>6 DEF Handle
  <2>3. ASSUME Gait \/ Tick \/ UNCHANGED vars PROVE ModeInv'
    <3>1. on' \subseteq on /\ pc' = pc /\ then' = then
      BY <2>3 DEF Gait, GaitPark, GaitWake, GaitProceed, GaitBegin, GaitStand, GaitEnd,
                  StanfordBegin, RampEnd, StanfordInit, StanfordStep, PaceEnd, Tick, vars
    <3> QED BY <2>n, <3>1, ClearingPreserves
  <2> QED BY <2>1, <2>2, <2>3 DEF Next
<1> QED BY <1>1, <1>2, TypeInvariant, PTL DEF Spec

(* toggle_motion, h_leg8 and h_js all turn "everything else off" first, and  *)
(* their task handles one request at a time: at most one motion is on.       *)
THEOREM OneModeAtATime ==
  ASSUME Togglers = {"httpd"}
  PROVE  Spec => []AtMostOneMode
<1>1. ModeInv => AtMostOneMode
  BY DEF ModeInv
<1> QED BY <1>1, ModeInvariant, PTL

-----------------------------------------------------------------------------
(* MotionControl implements MotionMode under the mapping of Mode.            *)
LEMMA SoleFlagFacts ==
  /\ SoleFlag({}) = "stand"
  /\ \A m : SoleFlag({m}) = m
BY DEF SoleFlag

(* A step that touches neither the flags nor gait_task is a stutter, or it   *)
(* flips CLI mode.                                                           *)
LEMMA FlipOrStutter ==
  ASSUME cliMode \in BOOLEAN, cliMode' \in BOOLEAN, UNCHANGED << on, gait, running >>
  PROVE  [Mode!Next]_(Mode!vars)
<1>1. UNCHANGED << Requested, Performed, gait = "choose" >>
  BY DEF Requested, Performed
<1>2. cliMode' = cliMode \/ cliMode' = ~cliMode
  OBVIOUS
<1> QED BY <1>1, <1>2 DEF Mode!Next, Mode!Flip, Mode!vars

(* A client's step that clears flags withdraws the request or leaves it. *)
LEMMA StopOrStutter ==
  ASSUME AtMostOneMode, on \subseteq Flags, on' \subseteq on,
         UNCHANGED << cliMode, gait, running >>
  PROVE  [Mode!Next]_(Mode!vars)
<1>1. UNCHANGED << Performed, cliMode, gait = "choose" >>
  BY DEF Performed
<1>2. CASE on' = on
  BY <1>1, <1>2 DEF Requested, Mode!vars
<1>3. CASE on' # on
  <2>1. PICK m \in Flags : on = {m} /\ on' = {}
    BY <1>3 DEF AtMostOneMode
  <2>2. Requested = m /\ Requested' = "stand" /\ m # "stand"
    BY <2>1, SoleFlagFacts DEF Requested, Flags, Motions, FirstGroup, SecondGroup
  <2> QED BY <1>1, <2>2 DEF Mode!Next, Mode!Stop
<1> QED BY <1>2, <1>3

(* The flag the if/else chain stops at is the requested motion. *)
LEMMA SelectedIsRequested ==
  ASSUME AtMostOneMode, NEW m \in Flags, Selected(m)
  PROVE  Requested = m
<1>1. on = {m}
  BY DEF Selected, AtMostOneMode
<1> QED BY <1>1, SoleFlagFacts DEF Requested

(* Every step of gait_task is a step of MotionMode or a stutter. *)
LEMMA GaitRefines ==
  ASSUME TypeInv, ModeInv, Gait
  PROVE  [Mode!Next]_(Mode!vars)
<1> USE DEF shared
<1>0. AtMostOneMode /\ on \subseteq Flags /\ running \in Flags \cup {"stand"}
  BY DEF ModeInv, TypeInv, TypeOK
<1>1. CASE GaitPark \/ GaitWake
  BY <1>1 DEF GaitPark, GaitWake, Requested, Performed, Mode!vars
<1>2. CASE GaitProceed
  BY <1>2 DEF GaitProceed, Requested, Performed, Mode!Next, Mode!Arm
<1>3. ASSUME NEW m \in Flags, GaitBegin(m) PROVE Mode!Perform
  BY <1>0, <1>3, SelectedIsRequested DEF GaitBegin, Requested, Performed, Mode!Perform
<1>4. CASE GaitStand
  BY <1>4, SoleFlagFacts DEF GaitStand, Requested, Performed, Mode!Next, Mode!Perform
<1>5. CASE GaitEnd
  <2>1. UNCHANGED << cliMode, gait = "choose" >> /\ Performed = running /\ Performed' = "stand"
    BY <1>5 DEF GaitEnd, Performed
  <2>2. CASE on' = on
    BY <2>1, <2>2 DEF Requested, Mode!Next, Mode!Finish, Mode!vars
  <2>3. CASE on' # on
    <3>1. running \in OneShots /\ on = {running} /\ on' = {}
      BY <1>0, <1>5, <2>3 DEF GaitEnd, AtMostOneMode
    <3>2. Requested = running /\ Requested' = "stand" /\ running # "stand"
      BY <3>1, SoleFlagFacts DEF Requested, OneShots
    <3> QED BY <2>1, <3>2 DEF Mode!Next, Mode!Finish
  <2> QED BY <2>2, <2>3
<1>6. CASE StanfordBegin
  <2>1. "Stanford" \in Flags
    BY DEF Flags, Motions, SecondGroup
  <2>2. gait = "choose" /\ gait' \in {"step", "init", "ramp"} /\ running' = "Stanford"
    BY <1>6 DEF StanfordBegin
  <2>3. Requested = "Stanford" /\ UNCHANGED << Requested, cliMode >>
    BY <1>0, <1>6, <2>1, SelectedIsRequested DEF StanfordBegin, Requested
  <2>4. Performed' = "Stanford"
    BY <2>2 DEF Performed
  <2> QED BY <2>2, <2>3, <2>4 DEF Mode!Next, Mode!Perform
<1>7. CASE RampEnd \/ StanfordInit \/ StanfordStep
  BY <1>7 DEF RampEnd, StanfordInit, StanfordStep, Requested, Performed, Mode!vars
<1>8. CASE PaceEnd
  BY <1>8 DEF PaceEnd, Requested, Performed, Mode!Next, Mode!Finish, Mode!vars
<1> QED BY <1>1, <1>2, <1>3, <1>4, <1>5, <1>6, <1>7, <1>8 DEF Gait, Mode!Next

(* The flags of main.c and gait_task keep the promises of MotionMode. *)
THEOREM ModeRefinement ==
  ASSUME Togglers = {"httpd"}
  PROVE  Spec => ImplementsMode
<1>1. Init => Mode!Init
  BY SoleFlagFacts DEF Init, Mode!Init, Requested, Performed
<1>2. TypeInv /\ TypeInv' /\ ModeInv /\ [Next]_vars => [Mode!Next]_(Mode!vars)
  <2> SUFFICES ASSUME TypeInv, TypeInv', ModeInv, [Next]_vars PROVE [Mode!Next]_(Mode!vars)
    OBVIOUS
  <2>0. AtMostOneMode /\ on \subseteq Flags /\ cliMode \in BOOLEAN /\ cliMode' \in BOOLEAN
    BY DEF ModeInv, TypeInv, TypeOK
  <2>c. pc \in [Clients -> PcValues] /\ then["console"] \notin Flags
    BY DEF ModeInv, TypeInv, TypeOK
  <2> USE DEF shared, loop
  <2>1. ASSUME NEW t \in Clients, Request(t) PROVE [Mode!Next]_(Mode!vars)
    <3>1. on' \subseteq on /\ UNCHANGED << gait, running >>
      BY <2>1 DEF Request, PressOff, PressOn, Leg8, Joystick, WebCliFlip, CliOn,
                  CliOff, BusBegin, TuneBegin
    <3>2. UNCHANGED on \/ UNCHANGED cliMode
      BY <2>1 DEF Request, PressOff, PressOn, Leg8, Joystick, WebCliFlip, CliOn,
                  CliOff, BusBegin, TuneBegin
    <3> QED BY <2>0, <3>1, <3>2, FlipOrStutter, StopOrStutter
  <2>2. ASSUME NEW t \in Clients, Handle(t) PROVE [Mode!Next]_(Mode!vars)
    <3>1. ASSUME NEW m \in Flags, Raise(t, m) PROVE Mode!Start(m)
      <4>1. t = "httpd"
        BY <2>c, <3>1 DEF Raise, Clients
      <4>2. on = {} /\ on' = {m}
        BY <3>1, <4>1 DEF Raise, Goto, ModeInv, ResetProgress
      <4>3. Requested = "stand" /\ Requested' = m
        BY <4>2, SoleFlagFacts DEF Requested
      <4> QED BY <3>1, <4>3 DEF Raise, Performed, Mode!Start
    <3>2. CASE \E m \in Flags : Raise(t, m)
      BY <3>1, <3>2 DEF Mode!Next
    <3>3. CASE EnterCli(t)
      BY <2>0, <3>3, FlipOrStutter DEF EnterCli
    <3>4. CASE ~EnterCli(t) /\ ~\E m \in Flags : Raise(t, m)
      <4>1. on' \subseteq on /\ UNCHANGED << cliMode, gait, running >>
        BY <2>2, <3>4 DEF Handle, ClearFirst, ClearSecond, ClearManual, ClearStarted,
                    DelayOver, BusEnd, TuneStep, TuneEnd
      <4> QED BY <2>0, <4>1, StopOrStutter
    <3> QED BY <3>2, <3>3, <3>4
  <2>3. CASE Gait
    BY <2>3, GaitRefines
  <2>4. CASE Tick \/ UNCHANGED vars
    BY <2>0, <2>4, FlipOrStutter DEF Tick, vars
  <2> QED BY <2>1, <2>2, <2>3, <2>4 DEF Next
<1> QED BY <1>1, <1>2, TypeInvariant, ModeInvariant, PTL DEF Spec, ImplementsMode, Mode!Spec
=============================================================================
