----------------------------- MODULE ServoRouting -----------------------------
(****************************************************************************)
(* How a servo command finds its motor, src/main/main.c and driver_board.c. *)
(*                                                                          *)
(* The inverse kinematics thinks in roles (servo 1 is the hip of the front  *)
(* right leg).  goal[] and the calibration offset[] are indexed by          *)
(* connector, db_phys(role); the wire and the stored calibration by         *)
(* channel, db_phys(connector).  A role and its channel have the same       *)
(* number because the wirings are self-inverse.                             *)
(*                                                                          *)
(* gait_task reads g_servo_board for every leg and for every frame, while   *)
(* the `board` command of the console or of the web command line changes it *)
(* and reloads the offsets one by one, and the web page calibrates.         *)
(****************************************************************************)
EXTENDS ServoIds

CONSTANTS
    LegCount,    \* the legs are 1..LegCount, three servos each; four on the robot
    Boards,      \* the board variants in use
    Switchers,   \* tasks that give the board command: "httpd", "console"
    Calibrated,  \* the connectors the user calibrates
    MaxTrim,     \* bound on the calibration, in steps of one degree
    MaxRestarts  \* bound on the power losses

N       == 3 * LegCount
Ids     == 1 .. N
Legs    == 1 .. LegCount
Leg(k)  == {3 * k - 2, 3 * k - 1, 3 * k}  \* its roles, and the channels of driver board k - 1
Trims   == 0 .. MaxTrim
Clients == {"httpd", "console"}

ASSUME LegsAssumption      == LegCount \in 1 .. 4
ASSUME BoardsAssumption    ==
    /\ Boards \subseteq Variants
    /\ \A b \in Boards, id \in Ids : DbPhys(b, id) \in Ids
ASSUME SwitchersAssumption == Switchers \subseteq Clients
ASSUME CalAssumption       ==
    Calibrated \subseteq Ids /\ MaxTrim \in Nat /\ MaxRestarts \in Nat

VARIABLES
    board,    \* g_servo_board
    offset,   \* offset[], by connector
    svboard,  \* "svboard" in NVS
    stored,   \* "offset1" .. "offset12" in NVS, by channel
    cliMode,  \* CliMode
    goal,     \* goal[], by connector: the command waiting for its servo
    wire,     \* the last command sent, by channel
    at,       \* where gait_task is
    left,     \* the legs the pass has yet to command
    via,      \* a leg of the IK and the variant its connectors were read under
    angle,    \* the angles of a whole-body pass, by connector
    pos,      \* servo_flush's copy of goal[]
    frames,   \* the driver boards the flush has yet to send to
    pc, arg,  \* where each client is, with the board or connector it was given
    idx,      \* the loop counter of each client
    sum, key, \* the calibration being stored and its NVS key
    restarts  \* counts the power losses

numbering == << board, offset >>
nvs       == << svboard, stored >>
commands  == << goal, wire >>
loop      == << at, left, via, angle, pos, frames >>
handlers  == << pc, arg, idx, sum, key >>
vars      == << numbering, nvs, cliMode, commands, loop, handlers, restarts >>

Phys(id) == DbPhys(board, id)

(* The connectors of leg k under variant b, and the role each is for. *)
Connectors(k, b) == { DbPhys(b, r) : r \in Leg(k) }
RoleAt(k, b, id) == CHOOSE r \in Leg(k) : DbPhys(b, r) = id

(* A servo command: the role its angle is for, the variant under which that  *)
(* role was given its connector (a history), and the calibration added.      *)
Everyone  == 0  \* the role of the centre angle, which is right for any servo
Angles    == [role : Ids \cup {Everyone}, under : Boards \cup {0}]
Commands  == [role : Ids \cup {Everyone}, under : Boards \cup {0}, trim : Trims]
Centre    == [role |-> Everyone, under |-> 0]
Untrimmed == [role |-> Everyone, under |-> 0, trim |-> 0]
NoLeg     == [leg |-> 0, board |-> 0]

AtValues == {"top", "legs", "leg", "walk", "write", "flush", "send"}
PcValues == {"idle", "set", "put", "reload", "store", "key", "save", "zero", "clear"}

(* The volatile state after app_main has read the settings. *)
Boot ==
    /\ board' = svboard
    /\ offset' = [id \in Ids |-> stored[DbPhys(svboard, id)]]
    /\ cliMode' = FALSE
    /\ goal' = [id \in Ids |-> Untrimmed] /\ wire' = [c \in Ids |-> Untrimmed]
    /\ at' = "top" /\ left' = {} /\ via' = NoLeg /\ frames' = {}
    /\ angle' = [id \in Ids |-> Centre] /\ pos' = [id \in Ids |-> Untrimmed]
    /\ pc' = [t \in Clients |-> "idle"] /\ arg' = [t \in Clients |-> 0]
    /\ idx' = [t \in Clients |-> 1] /\ sum' = 0 /\ key' = 1

(* A robot whose calibration has not been stored. *)
Init ==
    /\ board \in Boards /\ svboard = board
    /\ stored = [c \in Ids |-> 0] /\ offset = [id \in Ids |-> 0]
    /\ cliMode = FALSE
    /\ goal = [id \in Ids |-> Untrimmed] /\ wire = [c \in Ids |-> Untrimmed]
    /\ at = "top" /\ left = {} /\ via = NoLeg /\ frames = {}
    /\ angle = [id \in Ids |-> Centre] /\ pos = [id \in Ids |-> Untrimmed]
    /\ pc = [t \in Clients |-> "idle"] /\ arg = [t \in Clients |-> 0]
    /\ idx = [t \in Clients |-> 1] /\ sum = 0 /\ key = 1
    /\ restarts = 0

PowerLoss ==
    /\ restarts < MaxRestarts
    /\ restarts' = restarts + 1
    /\ Boot
    /\ UNCHANGED nvs

-----------------------------------------------------------------------------
(* The clients. *)

Goto(t, from, to) == pc[t] = from /\ pc' = [pc EXCEPT ![t] = to]

(* Either client may enter or leave CLI mode. *)
CliToggle(t) ==
    /\ pc[t] = "idle"
    /\ cliMode' = ~cliMode
    /\ UNCHANGED << numbering, nvs, commands, loop, handlers, restarts >>

(* The command `board b`: the web refuses it outside CLI mode, the console  *)
(* does not.                                                                *)
BoardCommand(t, b) ==
    /\ t = "httpd" => cliMode
    /\ Goto(t, "idle", "set")
    /\ arg' = [arg EXCEPT ![t] = b]
    /\ UNCHANGED << numbering, nvs, cliMode, commands, loop, idx, sum, key, restarts >>

(* servo_board_set: the number, its NVS copy, then offsets_reload. *)
SetBoard(t) ==
    /\ Goto(t, "set", "put")
    /\ board' = arg[t]
    /\ UNCHANGED << offset, nvs, cliMode, commands, loop, arg, idx, sum, key, restarts >>

PutBoard(t) ==
    /\ Goto(t, "put", "reload")
    /\ svboard' = arg[t]
    /\ arg' = [arg EXCEPT ![t] = 0]
    /\ UNCHANGED << numbering, stored, cliMode, commands, loop, idx, sum, key, restarts >>

(* Mutant: the loop counter is not set back. *)
CountOn(t) == idx' = [idx EXCEPT ![t] = idx[t] + 1]

(* The loop counter of a loop over the servos, back at 1 when it is over. *)
Count(t) == idx' = [idx EXCEPT ![t] = IF idx[t] = N THEN 1 ELSE idx[t] + 1]

Reload(t) ==
    /\ Goto(t, "reload", IF idx[t] = N THEN "idle" ELSE "reload")
    /\ Count(t)
    /\ offset' = [offset EXCEPT ![idx[t]] = stored[Phys(idx[t])]]
    /\ UNCHANGED << board, nvs, cliMode, commands, loop, arg, sum, key, restarts >>

(* h_cal: one degree more or less on a connector, kept under its channel. *)
CalLoad(id, d) ==
    /\ Goto("httpd", "idle", "store")
    /\ arg' = [arg EXCEPT !["httpd"] = id]
    /\ sum' = d
    /\ UNCHANGED << numbering, nvs, cliMode, commands, loop, idx, key, restarts >>

CalStore ==
    /\ Goto("httpd", "store", "key")
    /\ offset' = [offset EXCEPT ![arg["httpd"]] = sum]
    /\ sum' = 0
    /\ UNCHANGED << board, nvs, cliMode, commands, loop, arg, idx, key, restarts >>

(* Mutant: the calibration is kept under the connector, not the channel. *)
CalKeyByConnector ==
    /\ Goto("httpd", "key", "save")
    /\ key' = arg["httpd"]
    /\ UNCHANGED << numbering, nvs, cliMode, commands, loop, arg, idx, sum, restarts >>

CalKey ==
    /\ Goto("httpd", "key", "save")
    /\ key' = Phys(arg["httpd"])
    /\ UNCHANGED << numbering, nvs, cliMode, commands, loop, arg, idx, sum, restarts >>

CalSave ==
    /\ Goto("httpd", "save", "idle")
    /\ stored' = [stored EXCEPT ![key] = offset[arg["httpd"]]]
    /\ arg' = [arg EXCEPT !["httpd"] = 0] /\ key' = 1
    /\ UNCHANGED << numbering, svboard, cliMode, commands, loop, idx, sum, restarts >>

(* h_calReset. *)
CalReset ==
    /\ Goto("httpd", "idle", "zero")
    /\ UNCHANGED << numbering, nvs, cliMode, commands, loop, arg, idx, sum, key, restarts >>

ZeroOffset ==
    /\ Goto("httpd", "zero", "clear")
    /\ offset' = [offset EXCEPT ![idx["httpd"]] = 0]
    /\ UNCHANGED << board, nvs, cliMode, commands, loop, arg, idx, sum, key, restarts >>

ZeroStored ==
    /\ Goto("httpd", "clear", IF idx["httpd"] = N THEN "idle" ELSE "zero")
    /\ Count("httpd")
    /\ stored' = [stored EXCEPT ![idx["httpd"]] = 0]
    /\ UNCHANGED << numbering, svboard, cliMode, commands, loop, arg, sum, key, restarts >>

Request ==
    \/ \E t \in Clients : CliToggle(t)
    \/ \E t \in Switchers, b \in Boards : BoardCommand(t, b)
    \/ \E id \in Calibrated : \E d \in Trims \cap {offset[id] + 1, offset[id] - 1} : CalLoad(id, d)
    \/ Calibrated # {} /\ CalReset

Handle(t) ==
    \/ SetBoard(t) \/ PutBoard(t) \/ Reload(t)
    \/ t = "httpd" /\ (CalStore \/ CalKey \/ CalSave \/ ZeroOffset \/ ZeroStored)

-----------------------------------------------------------------------------
(* gait_task: a pass commands every leg at least once.  The three reads of   *)
(* g_servo_board for a leg or for a frame are one step: every servo gets     *)
(* what it would get from a switch before or after them.                     *)

Rest == << numbering, nvs, cliMode, handlers, restarts >>

(* The branches on the inverse kinematics: fRIK, fLIK, rRIK, rLIK in any order. *)
LegsBegin ==
    /\ at = "top" /\ ~cliMode
    /\ at' = "legs" /\ left' = Legs
    /\ UNCHANGED << Rest, commands, via, angle, pos, frames >>

LegBegin(k) ==
    /\ at = "legs" /\ k \in left
    /\ at' = "leg" /\ via' = [leg |-> k, board |-> board]
    /\ UNCHANGED << Rest, commands, left, angle, pos, frames >>

(* The three servo_write calls; the branch may flush before the next leg. *)
LegWrite ==
    /\ at = "leg"
    /\ goal' = [id \in Ids |->
                  IF id \in Connectors(via.leg, via.board)
                  THEN [role  |-> RoleAt(via.leg, via.board, id),
                        under |-> via.board, trim |-> offset[id]]
                  ELSE goal[id]]
    /\ left' = left \ {via.leg} /\ via' = NoLeg
    /\ at' \in IF left' = {} THEN {"flush"} ELSE {"legs", "flush"}
    /\ UNCHANGED << Rest, wire, angle, pos, frames >>

(* The Ini branch centres every servo. *)
CentreBegin ==
    /\ at = "top" /\ ~cliMode
    /\ at' = "write" /\ angle' = [id \in Ids |-> Centre]
    /\ UNCHANGED << Rest, commands, left, via, pos, frames >>

(* stanford_kinematics_servo_deg: zero, then the angles leg by leg. *)
WalkBegin ==
    /\ at = "top" /\ ~cliMode
    /\ at' = "walk" /\ left' = Legs /\ angle' = [id \in Ids |-> Centre]
    /\ UNCHANGED << Rest, commands, via, pos, frames >>

WalkLeg(k) ==
    /\ at = "walk" /\ k \in left /\ \A m \in left : k <= m
    /\ angle' = [id \in Ids |-> IF id \in Connectors(k, board)
                               THEN [role |-> RoleAt(k, board, id), under |-> board]
                               ELSE angle[id]]
    /\ left' = left \ {k}
    /\ at' = IF left' = {} THEN "write" ELSE "walk"
    /\ UNCHANGED << Rest, commands, via, pos, frames >>

(* Mutant: the angles of a whole-body pass are written without offset[]. *)
BodyWriteUntrimmed ==
    /\ at = "write"
    /\ goal' = [id \in Ids |-> [role |-> angle[id].role, under |-> angle[id].under, trim |-> 0]]
    /\ at' = "flush"
    /\ UNCHANGED << Rest, wire, left, via, angle, pos, frames >>

BodyWrite ==
    /\ at = "write"
    /\ goal' = [id \in Ids |-> [role |-> angle[id].role, under |-> angle[id].under,
                               trim |-> offset[id]]]
    /\ at' = "flush"
    /\ UNCHANGED << Rest, wire, left, via, angle, pos, frames >>

(* servo_flush copies goal[], driver_board_sync_write sends it board by board. *)
Flush ==
    /\ at = "flush"
    /\ pos' = goal /\ frames' = Legs /\ at' = "send"
    /\ UNCHANGED << Rest, commands, left, via, angle >>

(* Mutant: driver_board_sync_write takes connector and channel to be the same. *)
SendUnmapped(k) ==
    /\ at = "send" /\ k \in frames /\ \A m \in frames : k <= m
    /\ wire' = [c \in Ids |-> IF c \in Leg(k) THEN pos[c] ELSE wire[c]]
    /\ frames' = frames \ {k}
    /\ at' = IF frames' # {} THEN "send" ELSE IF left = {} THEN "top" ELSE "legs"
    /\ UNCHANGED << Rest, goal, left, via, angle, pos >>

Send(k) ==
    /\ at = "send" /\ k \in frames /\ \A m \in frames : k <= m
    /\ wire' = [c \in Ids |-> IF c \in Leg(k) THEN pos[Phys(c)] ELSE wire[c]]
    /\ frames' = frames \ {k}
    /\ at' = IF frames' # {} THEN "send" ELSE IF left = {} THEN "top" ELSE "legs"
    /\ UNCHANGED << Rest, goal, left, via, angle, pos >>

Gait ==
    \/ LegsBegin \/ CentreBegin \/ WalkBegin
    \/ \E k \in Legs : LegBegin(k) \/ WalkLeg(k) \/ Send(k)
    \/ LegWrite \/ BodyWrite \/ Flush

Next == Request \/ (\E t \in Clients : Handle(t)) \/ Gait \/ PowerLoss

Spec == Init /\ [][Next]_vars

(* The scheduler keeps running every task. *)
Fairness == (\A t \in Clients : WF_vars(Handle(t))) /\ WF_vars(Gait)

LiveSpec == Spec /\ Fairness
-----------------------------------------------------------------------------
(* Properties. *)

(* Every variable stays in its type. *)
TypeOK ==
    /\ board \in Boards /\ svboard \in Boards
    /\ offset \in [Ids -> Trims] /\ stored \in [Ids -> Trims]
    /\ cliMode \in BOOLEAN
    /\ goal \in [Ids -> Commands] /\ wire \in [Ids -> Commands]
    /\ at \in AtValues /\ left \subseteq Legs /\ frames \subseteq Legs
    /\ via \in [leg : Legs \cup {0}, board : Boards \cup {0}]
    /\ angle \in [Ids -> Angles] /\ pos \in [Ids -> Commands]
    /\ pc \in [Clients -> PcValues] /\ idx \in [Clients -> Ids]
    /\ arg \in [Clients -> Boards \cup Ids \cup {0}]
    /\ sum \in Trims /\ key \in Ids /\ restarts \in 0 .. MaxRestarts

(* "the calibration stays with the physical servo across board-variant       *)
(* changes" (h_cal): when no request is under way, the offset of every       *)
(* connector is the one kept for the channel it names.                       *)
Resting == \A t \in Clients : pc[t] = "idle"
TrimsFollowServos == Resting => \A id \in Ids : offset[id] = stored[Phys(id)]

(* A command whose connector was chosen under the variant that also sends it *)
(* reaches the servo of its role: the two applications of db_phys cancel.    *)
Reaches(c, cmd) == cmd.role \in {c, Everyone}
RoutesCurrent ==
    [][\A k \in Legs : Send(k) =>
          \A c \in Leg(k) : wire'[c].under = board => Reaches(c, wire'[c])]_vars

(* "The walk itself is unaffected" by the board command (servo_board_set):   *)
(* every servo receives only commands of its own role.                       *)
WalkUnaffected == \A c \in Ids : Reaches(c, wire[c])

(* Whatever switches, calibrations and power losses came before, once the    *)
(* requests are over and CLI mode is left every servo gets the commands of   *)
(* its role with the calibration stored for it.                              *)
Settles ==
    <>[](Resting /\ ~cliMode) =>
    <>[](\A c \in Ids : Reaches(c, wire[c]) /\ wire[c].trim = stored[c])
===============================================================================
