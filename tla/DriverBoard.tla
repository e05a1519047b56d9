------------------------------ MODULE DriverBoard ------------------------------
(****************************************************************************)
(* The SPI bus to the AT32 driver boards, src/main/driver_board.c, and the  *)
(* command lines of src/main/main.c that use it next to gait_task.          *)
(*                                                                          *)
(* A board answers a transaction in the NEXT one, so every configuration    *)
(* request is followed by a NOP that fetches its answer.  Nothing locks the *)
(* pair: whatever another task sends in between fetches the answer instead. *)
(* The boards (reply, cmd, ram, flash) are modelled from what this code     *)
(* expects of them.                                                         *)
(****************************************************************************)
EXTENDS ServoIds, Integers, Sequences

CONSTANTS
    BoardCount,   \* the boards are 0..BoardCount-1; four on the robot
    Wirings,      \* the board variants the robot may be built with
    Clients,      \* the tasks that run commands: "httpd", "console"
    Named,        \* the connectors the commands name
    ParamCount,   \* the parameters are 0..ParamCount-1; ten on the robot
    Disciplined,  \* commands wait for CLI mode and for the gait to park
    MaxFaults,    \* bound on the transactions that fail
    MaxRestarts   \* bound on the power losses

Channels == 1 .. 3 * BoardCount
Boards   == 0 .. BoardCount - 1

(* Mutant: channels counted from 0. *)
BoardOfFrom0(c) == c \div 3
BoardOf(c) == (c - 1) \div 3
On(b)    == {3 * b + 1, 3 * b + 2, 3 * b + 3}
Params   == 0 .. ParamCount - 1
Users    == Clients \cup {"gait"}
Values   == {0, 1}

ASSUME BoardAssumption  == BoardCount \in 1 .. 4
ASSUME WiringAssumption ==
    /\ Wirings \subseteq Variants
    /\ \A w \in Wirings, id \in Channels : DbPhys(w, id) \in Channels
ASSUME ClientAssumption == Clients \subseteq {"httpd", "console"}
ASSUME NamedAssumption  == Named \subseteq Channels /\ ParamCount \in Nat \ {0}
ASSUME BoundAssumption  ==
    Disciplined \in BOOLEAN /\ MaxFaults \in Nat /\ MaxRestarts \in Nat

VARIABLES
    wiring,   \* g_servo_board
    cliMode,  \* CliMode
    shadow,   \* sh_mode, sh_posdd, sh_cur, by channel
    fb,       \* what fb_position and fb_current were decoded from, by channel
    todo,     \* the driver_board calls each user has left in its command
    pc,       \* where it is in the first of them
    frame,    \* the frame it has built
    job,      \* its command
    ok,       \* whether all calls of the command have succeeded
    cmd,      \* the command each servo obeys
    ram,      \* the parameter set of each servo, in the RAM of its board
    flash,    \* and in the flash
    reply,    \* the answer each board has loaded
    missed,   \* the boards whose servos do not have the shadow's commands (a history)
    faults, restarts

esp   == << cliMode, shadow, fb >>
users == << todo, pc, frame, job, ok >>
at32  == << cmd, ram, flash, reply >>
vars  == << wiring, esp, users, at32, missed, faults, restarts >>

Phys(id) == DbPhys(wiring, id)

(* A command of a servo: where the gait wants it, the angle or torque of a   *)
(* direct command, the centre of the initial shadow, off without power.      *)
Setpoints == {"off", "centre", "gait", "direct"}

(* What a board has to say: the state of its servos, or the answer to a      *)
(* configuration request, of which the code looks at the parameter only.     *)
Feedback == [config |-> FALSE, channel |-> 1, param |-> 0, value |-> 0]
Replies  == [config : BOOLEAN, channel : Channels, param : Params, value : Values]

(* A call of driver_board.c on one of the servos 0..2 of a board; a call on  *)
(* the whole board leaves the servo 0.                                       *)
Asking   == {"get", "set", "live"}
Config   == Asking \cup {"save", "restore"}
Calls    == [op : Config \cup {"sync", "direct", "poll"}, board : Boards,
             servo : 0 .. 2, param : Params, value : Values]
Channel(r) == 3 * r.board + r.servo + 1

(* Mutant: the board is the one with the connector's number. *)
OnServoByConnector(op, id, p, v) ==
    [op |-> op, board |-> BoardOf(id), servo |-> (Phys(id) - 1) % 3, param |-> p, value |-> v]

OnServo(op, id, p, v) ==
    [op |-> op, board |-> BoardOf(Phys(id)), servo |-> (Phys(id) - 1) % 3, param |-> p, value |-> v]
OnBoard(op, b) == [op |-> op, board |-> b, servo |-> 0, param |-> 0, value |-> 0]
EachBoard(op)  == [k \in 1 .. BoardCount |-> OnBoard(op, k - 1)]

(* A command and the connector it names, 0 for none or all. *)
Jobs  == [does : {"none", "get", "set", "dump", "scan", "trace", "direct", "pass", "save", "restore"},
          id : Channels \cup {0}]
NoJob == [does |-> "none", id |-> 0]

NoFrame == [c \in Channels |-> "off"]
Unset == [c \in Channels |-> [p \in Params |-> 0]]  \* the factory parameters

(* Everything but the flash of the boards when the power comes on. *)
Init ==
    /\ wiring \in Wirings
    /\ cliMode = FALSE
    /\ shadow = [c \in Channels |-> "centre"] /\ fb = [c \in Channels |-> Feedback]
    /\ todo = [t \in Users |-> << >>] /\ pc = [t \in Users |-> "call"]
    /\ frame = [t \in Users |-> NoFrame]
    /\ job = [t \in Users |-> NoJob] /\ ok = [t \in Users |-> TRUE]
    /\ cmd = [c \in Channels |-> "off"] /\ reply = [b \in Boards |-> Feedback]
    /\ flash = Unset /\ ram = Unset
    /\ missed = Boards
    /\ faults = 0 /\ restarts = 0

PowerLoss ==
    /\ restarts < MaxRestarts
    /\ restarts' = restarts + 1
    /\ cliMode' = FALSE
    /\ shadow' = [c \in Channels |-> "centre"] /\ fb' = [c \in Channels |-> Feedback]
    /\ todo' = [t \in Users |-> << >>] /\ pc' = [t \in Users |-> "call"]
    /\ frame' = [t \in Users |-> NoFrame]
    /\ job' = [t \in Users |-> NoJob] /\ ok' = [t \in Users |-> TRUE]
    /\ cmd' = [c \in Channels |-> "off"] /\ reply' = [b \in Boards |-> Feedback]
    /\ ram' = flash
    /\ missed' = Boards
    /\ UNCHANGED << wiring, flash, faults >>

-----------------------------------------------------------------------------
(* The commands. *)

Idle(t) == todo[t] = << >>

Begin(t, does, id, calls) ==
    /\ Idle(t)
    /\ job' = [job EXCEPT ![t] = [does |-> does, id |-> id]]
    /\ todo' = [todo EXCEPT ![t] = calls]
    /\ ok' = [ok EXCEPT ![t] = TRUE]
    /\ UNCHANGED << wiring, esp, pc, frame, at32, missed, faults, restarts >>

(* The web refuses a command outside CLI mode; the console only warns.  What *)
(* driver_board.h asks for is that the gait is paused first.                 *)
Allowed(t) ==
    /\ t = "httpd" => cliMode
    /\ Disciplined => cliMode /\ Idle("gait")

GetParam(t, id, p)    == Allowed(t) /\ Begin(t, "get", id, << OnServo("get", id, p, 0) >>)
SetParam(t, id, p, v) ==
    Allowed(t) /\ Begin(t, "set", id, << OnServo("set", id, p, v), OnServo("get", id, p, 0) >>)
Dump(t, id)           == Allowed(t) /\ Begin(t, "dump", id,
                            [k \in 1 .. ParamCount |-> OnServo("get", id, k - 1, 0)])
Scan(t)               == Allowed(t) /\ Begin(t, "scan", 0,
                            [id \in 1 .. 3 * BoardCount |-> OnServo("get", id, 0, 0)])
Trace(t, id)          == Allowed(t) /\ Begin(t, "trace", id,
                            [k \in 1 .. ParamCount |-> OnServo("live", id, k - 1, 0)])
Direct(t, id)         == Allowed(t) /\ Begin(t, "direct", id, << OnServo("direct", id, 0, 0) >>)
Save(t, id)           == Allowed(t) /\ Begin(t, "save", id,
                            IF id = 0 THEN EachBoard("save") ELSE << OnBoard("save", BoardOf(id)) >>)
Restore(t, id)        == Allowed(t) /\ Begin(t, "restore", id,
                            IF id = 0 THEN EachBoard("restore") ELSE << OnBoard("restore", BoardOf(id)) >>)

(* driver_board_sync_write, by gait_task or by swalk, sstretch and sjump. *)
Pass(t) ==
    /\ IF t = "gait" THEN ~cliMode ELSE t = "console" /\ cliMode /\ Allowed(t)
    /\ Begin(t, "pass", 0, EachBoard("sync"))

CliToggle(t) ==
    /\ Idle(t)
    /\ cliMode' = ~cliMode
    /\ UNCHANGED << wiring, shadow, fb, users, at32, missed, faults, restarts >>

-----------------------------------------------------------------------------
(* The calls.  The end of a call: a set is followed by its readback only if  *)
(* it was accepted, a failing trace falls back to a poll of the board, the   *)
(* others go on; all calls of a save must have succeeded.                    *)

Rest(t, won) ==
    IF won \/ job[t].does \in {"dump", "scan", "save", "restore", "pass"} THEN Tail(todo[t])
    ELSE IF job[t].does = "trace" /\ Head(todo[t]).op = "live"
         THEN << [Head(todo[t]) EXCEPT !.op = "poll"] >>
         ELSE << >>

(* Mutant: the result of the last board is taken for all. *)
ReturnsLast(t, won) ==
    /\ todo' = [todo EXCEPT ![t] = Rest(t, won)]
    /\ ok' = [ok EXCEPT ![t] = won]
    /\ pc' = [pc EXCEPT ![t] = "call"]

Returns(t, won) ==
    /\ todo' = [todo EXCEPT ![t] = Rest(t, won)]
    /\ ok' = [ok EXCEPT ![t] = ok[t] /\ won]
    /\ pc' = [pc EXCEPT ![t] = "call"]

At(t, place) == ~Idle(t) /\ pc[t] = place
Calling(t)   == Head(todo[t])

(* spi_device_transmit fails: the board sees and says nothing. *)
Fault(t) ==
    /\ faults < MaxFaults
    /\ faults' = faults + 1
    /\ \/ At(t, "call") /\ Calling(t).op \in Config
       \/ At(t, "nop")
       \/ At(t, "send")
    /\ Returns(t, FALSE)
    /\ missed' = IF pc[t] = "send" THEN missed \cup {Calling(t).board} ELSE missed
    /\ frame' = [frame EXCEPT ![t] = NoFrame]
    /\ UNCHANGED << wiring, esp, job, at32, restarts >>

(* The first transaction of cfg_request: the board acts on it and loads its  *)
(* answer; what it had to say before is dropped.                             *)
Request(t) ==
    /\ At(t, "call")
    /\ LET r == Calling(t) IN
       /\ r.op \in Config
       /\ ram' = [c \in Channels |->
                    IF r.op = "set" /\ c = Channel(r) THEN [ram[c] EXCEPT ![r.param] = r.value]
                    ELSE IF r.op = "restore" /\ c \in On(r.board) THEN Unset[c]
                    ELSE ram[c]]
       /\ flash' = [c \in Channels |-> IF r.op = "save" /\ c \in On(r.board) THEN ram[c] ELSE flash[c]]
       /\ reply' = [reply EXCEPT ![r.board] =
                      [config |-> TRUE, channel |-> Channel(r), param |-> r.param,
                       value |-> IF r.op = "get" THEN ram[Channel(r)][r.param] ELSE r.value]]
    /\ pc' = [pc EXCEPT ![t] = "nop"]
    /\ UNCHANGED << wiring, esp, todo, frame, job, ok, cmd, missed, faults, restarts >>

(* The second: the answer counts if it is one and echoes the parameter. *)
Accepts(r, rx) == rx.config /\ rx.param = r.param

(* Mutant: the second transaction is spared when the answer does not matter. *)
NopSpared(t) ==
    /\ At(t, "nop")
    /\ Returns(t, Accepts(Calling(t), reply[Calling(t).board]))
    /\ reply' = IF Calling(t).op = "get" THEN [reply EXCEPT ![Calling(t).board] = Feedback] ELSE reply
    /\ UNCHANGED << wiring, esp, frame, job, cmd, ram, flash, missed, faults, restarts >>

Nop(t) ==
    /\ At(t, "nop")
    /\ Returns(t, Accepts(Calling(t), reply[Calling(t).board]))
    /\ reply' = [reply EXCEPT ![Calling(t).board] = Feedback]
    /\ UNCHANGED << wiring, esp, frame, job, cmd, ram, flash, missed, faults, restarts >>

(* Mutant: sync_write does not keep the shadow in sync. *)
BuildSyncNoShadow(t) ==
    /\ At(t, "call") /\ Calling(t).op = "sync"
    /\ frame' = [frame EXCEPT ![t] = [c \in Channels |-> "gait"]]
    /\ pc' = [pc EXCEPT ![t] = "send"]
    /\ UNCHANGED << wiring, esp, todo, job, ok, at32, missed, faults, restarts >>

(* sync_write: the frame of one board and its shadow. *)
BuildSync(t) ==
    /\ At(t, "call") /\ Calling(t).op = "sync"
    /\ frame' = [frame EXCEPT ![t] = [c \in Channels |-> "gait"]]
    /\ shadow' = [c \in Channels |-> IF c \in On(Calling(t).board) THEN "gait" ELSE shadow[c]]
    /\ pc' = [pc EXCEPT ![t] = "send"]
    /\ UNCHANGED << wiring, cliMode, fb, todo, job, ok, at32, missed, faults, restarts >>

(* driver_board_direct writes the shadow of its servo, *)
WriteShadow(t) ==
    /\ At(t, "call") /\ Calling(t).op = "direct"
    /\ shadow' = [shadow EXCEPT ![Channel(Calling(t))] = "direct"]
    /\ pc' = [pc EXCEPT ![t] = "resend"]
    /\ UNCHANGED << wiring, cliMode, fb, todo, frame, job, ok, at32, missed, faults, restarts >>

(* and board_resend rebuilds the frame of its board from the shadow. *)
BuildResend(t) ==
    /\ \/ At(t, "resend")
       \/ At(t, "call") /\ Calling(t).op = "poll"
    /\ frame' = [frame EXCEPT ![t] = shadow]
    /\ pc' = [pc EXCEPT ![t] = "send"]
    /\ UNCHANGED << wiring, esp, todo, job, ok, at32, missed, faults, restarts >>

(* The transaction of a command frame; whatever the board had loaded is      *)
(* decoded into the feedback cache.                                          *)
SendFrame(t) ==
    /\ At(t, "send")
    /\ LET b == Calling(t).board IN
       /\ cmd' = [c \in Channels |-> IF c \in On(b) THEN frame[t][c] ELSE cmd[c]]
       /\ fb' = [c \in Channels |-> IF c \in On(b) THEN reply[b] ELSE fb[c]]
       /\ reply' = [reply EXCEPT ![b] = Feedback]
       /\ missed' = missed \ {b}
    /\ frame' = [frame EXCEPT ![t] = NoFrame]
    /\ Returns(t, TRUE)
    /\ UNCHANGED << wiring, cliMode, shadow, job, ram, flash, faults, restarts >>

Command(t) ==
    \/ \E id \in Named :
          \/ \E p \in Params : GetParam(t, id, p) \/ \E v \in Values : SetParam(t, id, p, v)
          \/ Dump(t, id) \/ Trace(t, id) \/ Direct(t, id)
    \/ \E id \in Named \cup {0} : Save(t, id) \/ Restore(t, id)
    \/ Scan(t) \/ CliToggle(t)

Run(t) ==
    Request(t) \/ Nop(t) \/ BuildSync(t) \/ WriteShadow(t) \/ BuildResend(t) \/ SendFrame(t)

Next ==
    \/ \E t \in Clients : Command(t)
    \/ \E t \in Users : Pass(t) \/ Run(t) \/ Fault(t)
    \/ PowerLoss

Spec == Init /\ [][Next]_vars
-----------------------------------------------------------------------------
(* Properties. *)

(* Every variable stays in its type. *)
TypeOK ==
    /\ wiring \in Wirings /\ cliMode \in BOOLEAN
    /\ shadow \in [Channels -> Setpoints] /\ fb \in [Channels -> Replies]
    /\ todo \in [Users -> Seq(Calls)] /\ frame \in [Users -> [Channels -> Setpoints]]
    /\ pc \in [Users -> {"call", "nop", "resend", "send"}]
    /\ job \in [Users -> Jobs] /\ ok \in [Users -> BOOLEAN]
    /\ cmd \in [Channels -> Setpoints] /\ reply \in [Boards -> Replies]
    /\ ram \in [Channels -> [Params -> Values]] /\ flash \in [Channels -> [Params -> Values]]
    /\ missed \subseteq Boards
    /\ faults \in 0 .. MaxFaults /\ restarts \in 0 .. MaxRestarts

(* What cfg_request accepts is the answer of the servo asked, the one that   *)
(* the connector drives, with its present value: the echo check, which       *)
(* compares neither servo nor operation, suffices for one bus user, whatever *)
(* failed before.                                                            *)
AnswersAreOwn ==
    [][\A t \in Users :
          LET r == Calling(t)
              rx == reply[r.board]
          IN Nop(t) /\ r.op \in Asking /\ Accepts(r, rx) =>
                /\ rx.channel = Channel(r)
                /\ job[t].id # 0 => rx.channel = Phys(job[t].id)
                /\ r.op = "get" => rx.value = ram[rx.channel][r.param]]_vars

(* "the OTHER two servos on that board keep their last commanded values"     *)
(* (driver_board.h): a direct write moves the servo its connector names and  *)
(* a poll none, unless the last frame of that board was lost.                *)
NeighboursHold ==
    [][\A t \in Users :
          LET r == Calling(t) IN
          SendFrame(t) /\ r.op \in {"direct", "poll"} /\ r.board \notin missed =>
             \A c \in Channels : cmd'[c] # cmd[c] => r.op = "direct" /\ c = Phys(job[t].id)]_vars

(* The feedback cache is decoded from servo states: an answer to a           *)
(* configuration request gets there only after a transaction has failed.     *)
CacheIsFeedback == faults = 0 => \A c \in Channels : ~fb[c].config

(* "OK. saved to flash (all boards)": every parameter is then in the flash.  *)
Saved(t, id) ==
    Nop(t) /\ job[t] = [does |-> "save", id |-> id] /\ Len(todo[t]) = 1 /\ ok'[t]
SavedWhenOk ==
    [][\A t \in Clients : Saved(t, 0) => \A c \in Channels : flash'[c] = ram'[c]]_vars

(* "RAM only - run 'save %d' to keep after power off" (cli_exec): after      *)
(* `save <id>` the parameters of servo <id> are in the flash.                *)
SaveKeepsServo ==
    [][\A t \in Clients, id \in Named : Saved(t, id) => flash'[Phys(id)] = ram'[Phys(id)]]_vars
===============================================================================
