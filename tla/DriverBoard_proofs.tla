-------------------------- MODULE DriverBoard_proofs --------------------------
(****************************************************************************)
(* What one disciplined bus user may rely on, for any number of boards,     *)
(* parameters, failing transactions and power losses: the answers it        *)
(* accepts are those of the servo it asked, and a direct write disturbs no  *)
(* other servo.                                                             *)
(****************************************************************************)
EXTENDS DriverBoard, TLAPS

(* One client gives the commands, and only while the gait is parked. *)
OneUser == Disciplined /\ \A t, u \in Clients : t = u

-----------------------------------------------------------------------------
(* Channels, boards and calls. *)

(* Dividing a channel number by three: its board and its place on it. *)
LEMMA Thirds ==
    \A n \in 0 .. 11 : n \div 3 \in Int /\ n % 3 \in 0 .. 2 /\ n = 3 * (n \div 3) + (n % 3)
<1>1. \A n \in 0 .. 11 : n \div 3 \in Int /\ n % 3 \in 0 .. 2
  OBVIOUS
<1>2. \A n \in 0 .. 11 : n = 3 * (n \div 3) + (n % 3)
  BY Z3
<1> QED BY <1>1, <1>2

(* Boards and places partition the channels. *)
LEMMA BoardFacts ==
    /\ BoardCount \in Nat /\ Channels \subseteq 1 .. 12
    /\ \A c \in Channels : /\ BoardOf(c) \in Boards /\ c \in On(BoardOf(c))
                           /\ (c - 1) % 3 \in 0 .. 2
                           /\ c = 3 * BoardOf(c) + ((c - 1) % 3) + 1
    /\ \A b \in Boards : On(b) \subseteq Channels
    /\ \A b, e \in Boards : b # e => On(b) \cap On(e) = {}
<1>1. BoardCount \in Nat /\ Channels \subseteq 1 .. 12
  BY BoardAssumption DEF Channels
<1>2. ASSUME NEW c \in Channels
      PROVE  /\ BoardOf(c) \in Boards /\ c \in On(BoardOf(c))
             /\ (c - 1) % 3 \in 0 .. 2 /\ c = 3 * BoardOf(c) + ((c - 1) % 3) + 1
  <2>1. c - 1 \in 0 .. 3 * BoardCount - 1 /\ c \in Int
    BY <1>1, BoardAssumption DEF Channels
  <2>2. PICK n \in 0 .. 11 : n = c - 1
    BY <2>1, <1>1
  <2>3. n \div 3 \in Int /\ n % 3 \in 0 .. 2 /\ n = 3 * (n \div 3) + (n % 3)
    BY Thirds
  <2>4. n \div 3 \in 0 .. BoardCount - 1
    BY <2>1, <2>2, <2>3, <1>1
  <2> QED BY <2>1, <2>2, <2>3, <2>4 DEF BoardOf, Boards, On
<1>3. \A b \in Boards : On(b) \subseteq Channels
  BY BoardAssumption DEF On, Boards, Channels
<1>4. \A b, e \in Boards : b # e => On(b) \cap On(e) = {}
  BY BoardAssumption DEF On, Boards
<1> QED BY <1>1, <1>2, <1>3, <1>4

(* gait_task is a user of the bus and not a client. *)
LEMMA UserFacts == Clients \subseteq Users /\ "gait" \in Users /\ "gait" \notin Clients
  BY ClientAssumption DEF Users

(* A call is for a channel of its board. *)
LEMMA ChannelOfCall ==
    ASSUME NEW r \in Calls
    PROVE  r.board \in Boards /\ Channel(r) \in Channels /\ Channel(r) \in On(r.board)
  BY BoardAssumption DEF Calls, Channel, Channels, Boards, On

(* driver_board_get_param and the like address the channel of db_phys. *)
LEMMA ServoCall ==
    ASSUME wiring \in Wirings, NEW id \in Channels, NEW op \in Config \cup {"sync", "direct", "poll"},
           NEW p \in Params, NEW v \in Values
    PROVE  /\ OnServo(op, id, p, v) \in Calls
           /\ OnServo(op, id, p, v).op = op
           /\ Channel(OnServo(op, id, p, v)) = Phys(id)
<1> DEFINE b == BoardOf(Phys(id))
           s == (Phys(id) - 1) % 3
<1>1. Phys(id) \in Channels
  BY WiringAssumption DEF Phys
<1>2. b \in Boards /\ s \in 0 .. 2 /\ Phys(id) = 3 * b + s + 1
  BY <1>1, BoardFacts
<1>3. OnServo(op, id, p, v) = [op |-> op, board |-> b, servo |-> s, param |-> p, value |-> v]
  BY DEF OnServo
<1> HIDE DEF b, s
<1>4. OnServo(op, id, p, v) \in Calls
  BY <1>2, <1>3 DEF Calls
<1>5. Channel(OnServo(op, id, p, v)) = 3 * b + s + 1
  BY <1>3 DEF Channel
<1>6. OnServo(op, id, p, v).op = op
  BY <1>3
<1> QED BY <1>2, <1>4, <1>5, <1>6

(* Parameter 0 and value 0 exist. *)
LEMMA ZeroParam == 0 \in Params /\ 0 \in Values /\ ParamCount \in Nat
  BY NamedAssumption DEF Params, Values

(* A sequence written as a function from 1..n. *)
LEMMA SeqOfCalls ==
    ASSUME NEW n \in Nat, NEW f, f \in [1 .. n -> Calls]
    PROVE  f \in Seq(Calls) /\ Len(f) = n
  OBVIOUS

(* The calls on every board in turn are calls. *)
LEMMA EachBoardCalls ==
    ASSUME NEW op \in {"sync", "save", "restore"}
    PROVE  EachBoard(op) \in Seq(Calls) /\ \A k \in 1 .. Len(EachBoard(op)) : EachBoard(op)[k].op = op
<1>1. \A k \in 1 .. BoardCount : OnBoard(op, k - 1) \in Calls /\ OnBoard(op, k - 1).op = op
  BY ZeroParam, BoardAssumption DEF OnBoard, Calls, Boards, Config
<1>2. EachBoard(op) \in [1 .. BoardCount -> Calls]
  BY <1>1 DEF EachBoard
<1>3. Len(EachBoard(op)) = BoardCount /\ EachBoard(op) \in Seq(Calls)
  BY <1>2, SeqOfCalls, BoardFacts
<1> QED BY <1>1, <1>3 DEF EachBoard

-----------------------------------------------------------------------------
(* The invariant: who is in the middle of what, which servo every call of a  *)
(* command is for, what the board has loaded for a NOP to fetch, and where   *)
(* the servos obey the shadow.                                               *)

Exclusive == \A t \in Clients : ~Idle(t) => cliMode /\ Idle("gait")

Places ==
    \A t \in Users :
       /\ Idle(t) => pc[t] = "call"
       /\ pc[t] = "nop" => Calling(t).op \in Config
       /\ pc[t] = "resend" => Calling(t).op = "direct"
       /\ pc[t] = "send" => Calling(t).op \in {"sync", "direct", "poll"}

ForServo(r, j) ==
    (r.op \in Asking /\ j.id # 0) \/ r.op = "direct" => Channel(r) = Phys(j.id)
Addressed == \A t \in Users : \A k \in 1 .. Len(todo[t]) : ForServo(todo[t][k], job[t])

AnswerTo(r) ==
    [config |-> TRUE, channel |-> Channel(r), param |-> r.param,
     value |-> IF r.op = "get" THEN ram[Channel(r)][r.param] ELSE r.value]
Answered == \A t \in Users : pc[t] = "nop" => reply[Calling(t).board] = AnswerTo(Calling(t))

Underway(t, c) ==
    /\ pc[t] \in {"resend", "send"}
    /\ BoardOf(c) = Calling(t).board
    /\ Calling(t).op = "sync" \/ (Calling(t).op = "direct" /\ c = Channel(Calling(t)))
Obeyed ==
    \A c \in Channels :
       BoardOf(c) \notin missed => cmd[c] = shadow[c] \/ \E t \in Users : Underway(t, c)
Framed ==
    \A t \in Users : pc[t] = "send" =>
       \A c \in On(Calling(t).board) : frame[t][c] = shadow[c]

BusInv == TypeOK /\ Exclusive /\ Places /\ Addressed /\ Answered /\ Obeyed /\ Framed

(* The calls a command leaves are calls it had, or the poll of a trace. *)
LEMMA RestFacts ==
    ASSUME TypeOK, Addressed, NEW t \in Users, ~Idle(t), NEW won \in BOOLEAN
    PROVE  /\ Rest(t, won) \in Seq(Calls)
           /\ \A k \in 1 .. Len(Rest(t, won)) : ForServo(Rest(t, won)[k], job[t])
<1>1. todo[t] \in Seq(Calls) /\ todo[t] # << >>
  BY DEF TypeOK, Idle
<1>2. /\ Tail(todo[t]) \in Seq(Calls) /\ Head(todo[t]) \in Calls
      /\ \A k \in 1 .. Len(Tail(todo[t])) : Tail(todo[t])[k] = todo[t][k + 1] /\ k + 1 \in 1 .. Len(todo[t])
  BY <1>1
<1>3. CASE Rest(t, won) = Tail(todo[t])
  BY <1>2, <1>3 DEF Addressed
<1>4. CASE Rest(t, won) = << [Head(todo[t]) EXCEPT !.op = "poll"] >>
  <2>1. [Head(todo[t]) EXCEPT !.op = "poll"] \in Calls
    BY <1>2 DEF Calls
  <2>2. [Head(todo[t]) EXCEPT !.op = "poll"].op = "poll"
    BY <1>2 DEF Calls
  <2>3. ForServo([Head(todo[t]) EXCEPT !.op = "poll"], job[t])
    BY <2>2 DEF ForServo, Asking
  <2> HIDE DEF ForServo
  <2> QED BY <1>4, <2>1, <2>3
<1>5. CASE Rest(t, won) = << >>
  BY <1>5
<1> QED BY <1>3, <1>4, <1>5 DEF Rest

(* The call in progress is a call, and it is addressed. *)
LEMMA CallingFacts ==
    ASSUME TypeOK, NEW t \in Users, ~Idle(t)
    PROVE  /\ Calling(t) \in Calls /\ Calling(t).board \in Boards
           /\ Channel(Calling(t)) \in Channels
           /\ Addressed => ForServo(Calling(t), job[t])
<1>1. todo[t] \in Seq(Calls) /\ todo[t] # << >>
  BY DEF TypeOK, Idle
<1>2. Calling(t) = todo[t][1] /\ 1 \in 1 .. Len(todo[t]) /\ Calling(t) \in Calls
  BY <1>1 DEF Calling
<1> QED BY <1>2, ChannelOfCall DEF Addressed

(* The invariant holds when the power comes on. *)
LEMMA InitInv == Init => BusInv
<1> SUFFICES ASSUME Init PROVE BusInv
  OBVIOUS
<1>1. TypeOK
  <2>1. Unset \in [Channels -> [Params -> Values]] /\ NoFrame \in [Channels -> Setpoints]
        /\ Feedback \in Replies /\ NoJob \in Jobs
    <3>1. 1 \in Channels
      BY BoardAssumption DEF Channels
    <3> QED BY <3>1, ZeroParam DEF Unset, NoFrame, Feedback, NoJob, Setpoints, Values, Replies, Jobs
  <2>2. << >> \in Seq(Calls) /\ 0 \in 0 .. MaxFaults /\ 0 \in 0 .. MaxRestarts
    BY BoundAssumption
  <2>3. /\ wiring \in Wirings /\ cliMode \in BOOLEAN /\ shadow \in [Channels -> Setpoints]
        /\ fb \in [Channels -> Replies] /\ cmd \in [Channels -> Setpoints] /\ reply \in [Boards -> Replies]
        /\ ram \in [Channels -> [Params -> Values]] /\ flash \in [Channels -> [Params -> Values]]
        /\ missed \subseteq Boards
    BY <2>1 DEF Init, Setpoints
  <2>4. /\ todo \in [Users -> Seq(Calls)] /\ frame \in [Users -> [Channels -> Setpoints]]
        /\ pc \in [Users -> {"call", "nop", "resend", "send"}]
        /\ job \in [Users -> Jobs] /\ ok \in [Users -> BOOLEAN]
    BY <2>1, <2>2 DEF Init
  <2> QED BY <2>2, <2>3, <2>4 DEF Init, TypeOK
<1>2. Exclusive /\ Places /\ Addressed /\ Answered /\ Obeyed /\ Framed
  BY UserFacts, BoardFacts DEF Init, Exclusive, Places, Addressed, Answered, Obeyed, Framed, Idle
<1> QED BY <1>1, <1>2 DEF BusInv

(* At most one user is in a command. *)
LEMMA Alone ==
    ASSUME BusInv, OneUser, NEW t \in Users, NEW u \in Users, ~Idle(t), ~Idle(u)
    PROVE  t = u
  BY DEF BusInv, Exclusive, OneUser, Users

(* A user whose program counter is not at a call is in a command. *)
LEMMA Busy ==
    ASSUME BusInv, NEW t \in Users, pc[t] # "call"
    PROVE  ~Idle(t)
  BY DEF BusInv, Places

(* A command begins. *)
LEMMA BeginKeeps ==
    ASSUME BusInv, OneUser, NEW t \in Users, NEW does, NEW id, NEW calls,
           Begin(t, does, id, calls),
           IF t = "gait" THEN ~cliMode ELSE cliMode /\ Idle("gait"),
           calls \in Seq(Calls), [does |-> does, id |-> id] \in Jobs,
           \A k \in 1 .. Len(calls) : ForServo(calls[k], [does |-> does, id |-> id])
    PROVE  BusInv'
<1> USE DEF Begin, esp, at32
<1>0. Idle(t) /\ pc[t] = "call" /\ pc' = pc
  BY DEF BusInv, Places
<1>1. TypeOK'
  BY DEF BusInv, TypeOK
<1>2. Exclusive'
  BY UserFacts DEF BusInv, TypeOK, Exclusive, OneUser, Idle, Users
<1>3. \A u \in Users : pc[u] # "call" => todo'[u] = todo[u]
  BY <1>0 DEF BusInv, TypeOK
<1>4. \A u \in Users : pc[u] # "call" => Calling(u)' = Calling(u)
  BY <1>3 DEF Calling
<1>5. Places'
  BY <1>0, <1>4 DEF BusInv, TypeOK, Places, Idle
<1>6. Addressed'
  <2>1. ASSUME NEW u \in Users PROVE \A k \in 1 .. Len(todo'[u]) : ForServo(todo'[u][k], job'[u])
    <3>1. CASE u = t
      BY <3>1 DEF BusInv, TypeOK
    <3>2. CASE u # t
      BY <3>2 DEF BusInv, TypeOK, Addressed
    <3> QED BY <3>1, <3>2
  <2> QED BY <2>1 DEF Addressed, ForServo, Phys
<1>7. Answered' /\ Obeyed' /\ Framed'
  BY <1>4 DEF BusInv, Answered, AnswerTo, Obeyed, Underway, Framed
<1> QED BY <1>1, <1>2, <1>5, <1>6, <1>7 DEF BusInv

(* A call returns. *)
LEMMA ReturnsKeeps ==
    ASSUME BusInv, OneUser, NEW t \in Users, ~Idle(t), NEW won \in BOOLEAN, Returns(t, won),
           UNCHANGED << wiring, cliMode, job >>
    PROVE  /\ todo' \in [Users -> Seq(Calls)] /\ ok' \in [Users -> BOOLEAN]
           /\ pc' \in [Users -> {"call", "nop", "resend", "send"}]
           /\ Exclusive' /\ Places' /\ Addressed'
           /\ \A u \in Users : pc'[u] = "call"
<1>1. /\ todo' \in [Users -> Seq(Calls)] /\ ok' \in [Users -> BOOLEAN]
      /\ pc' \in [Users -> {"call", "nop", "resend", "send"}]
  BY RestFacts DEF BusInv, TypeOK, Returns
<1>2. \A u \in Users : u # t => Idle(u) /\ todo'[u] = todo[u]
  BY Alone DEF BusInv, TypeOK, Returns
<1>3. \A u \in Users : pc'[u] = "call"
  BY <1>2, Alone, Busy DEF BusInv, TypeOK, Returns
<1>4. Exclusive'
  BY <1>2, UserFacts DEF BusInv, Exclusive, Idle
<1>5. Places'
  BY <1>3 DEF Places
<1>6. Addressed'
  <2>1. ASSUME NEW u \in Users PROVE \A k \in 1 .. Len(todo'[u]) : ForServo(todo'[u][k], job[u])
    <3>1. CASE u = t
      BY <3>1, RestFacts DEF BusInv, TypeOK, Returns
    <3>2. CASE u # t
      BY <3>2, <1>2 DEF BusInv, Addressed
    <3> QED BY <3>1, <3>2
  <2> QED BY <2>1 DEF Addressed, ForServo, Phys
<1> QED BY <1>1, <1>3, <1>4, <1>5, <1>6

-----------------------------------------------------------------------------
(* The steps of a call. *)

(* The first transaction of a request keeps the invariant. *)
LEMMA RequestKeeps ==
    ASSUME BusInv, OneUser, NEW t \in Users, Request(t)
    PROVE  BusInv'
<1> DEFINE r == Calling(t)
<1>1. /\ ~Idle(t) /\ pc[t] = "call" /\ pc' = [pc EXCEPT ![t] = "nop"] /\ r.op \in Config
      /\ UNCHANGED << wiring, cliMode, shadow, fb, todo, frame, job, ok, cmd, missed, faults, restarts >>
  BY DEF Request, At, esp
<1>2. \A u \in Users : u # t => pc[u] = "call"
  BY <1>1, Alone, Busy
<1>3. r \in Calls /\ r.board \in Boards /\ Channel(r) \in Channels
  BY <1>1, CallingFacts DEF BusInv
<1>4. ram' \in [Channels -> [Params -> Values]] /\ flash' \in [Channels -> [Params -> Values]]
      /\ reply' \in [Boards -> Replies]
  <2>1. Unset \in [Channels -> [Params -> Values]]
    BY ZeroParam DEF Unset
  <2>2. ram \in [Channels -> [Params -> Values]] /\ flash \in [Channels -> [Params -> Values]]
        /\ reply \in [Boards -> Replies]
    BY DEF BusInv, TypeOK
  <2>3. r.param \in Params /\ r.value \in Values
    BY <1>3 DEF Calls
  <2>4. ram' \in [Channels -> [Params -> Values]]
    <3>1. ram' = [c \in Channels |->
                    IF r.op = "set" /\ c = Channel(r) THEN [ram[c] EXCEPT ![r.param] = r.value]
                    ELSE IF r.op = "restore" /\ c \in On(r.board) THEN Unset[c]
                    ELSE ram[c]]
      BY DEF Request
    <3> HIDE DEF r
    <3> QED BY <3>1, <2>1, <2>2, <2>3
  <2>5. flash' \in [Channels -> [Params -> Values]]
    BY <2>2 DEF Request
  <2>6. reply' = [reply EXCEPT ![r.board] = [config |-> TRUE, channel |-> Channel(r), param |-> r.param,
                    value |-> IF r.op = "get" THEN ram[Channel(r)][r.param] ELSE r.value]]
    BY DEF Request
  <2>7. reply' \in [Boards -> Replies]
    <3> HIDE DEF r
    <3> QED BY <2>6, <2>2, <2>3, <1>3 DEF Replies
  <2> QED BY <2>4, <2>5, <2>7
<1>5. TypeOK'
  BY <1>1, <1>4 DEF BusInv, TypeOK
<1>6. \A u \in Users : Calling(u)' = Calling(u) /\ Idle(u)' = Idle(u)
  BY <1>1 DEF Calling, Idle
<1>7. Exclusive' /\ Addressed'
  BY <1>1, <1>6, UserFacts DEF BusInv, Exclusive, Addressed, ForServo, Phys
<1>8. Places'
  BY <1>1, <1>2, <1>6 DEF BusInv, TypeOK, Places
<1>9. Answered'
  <2>1. ram'[Channel(r)][r.param] = ram[Channel(r)][r.param] \/ r.op # "get"
    BY <1>3 DEF Request, BusInv, TypeOK
  <2>2. reply'[r.board] = [config |-> TRUE, channel |-> Channel(r), param |-> r.param,
              value |-> IF r.op = "get" THEN ram'[Channel(r)][r.param] ELSE r.value]
    BY <2>1, <1>3 DEF Request, BusInv, TypeOK
  <2>3. \A u \in Users : pc'[u] = "nop" => u = t
    BY <1>1, <1>2 DEF BusInv, TypeOK
  <2> QED BY <2>2, <2>3, <1>6 DEF Answered, AnswerTo
<1>10. Obeyed' /\ Framed'
  BY <1>1, <1>2, <1>6 DEF BusInv, TypeOK, Obeyed, Underway, Framed
<1> QED BY <1>5, <1>7, <1>8, <1>9, <1>10 DEF BusInv

(* The second transaction of a request keeps it. *)
LEMMA NopKeeps ==
    ASSUME BusInv, OneUser, NEW t \in Users, Nop(t)
    PROVE  BusInv'
<1>1. /\ ~Idle(t) /\ pc[t] = "nop"
      /\ Returns(t, Accepts(Calling(t), reply[Calling(t).board]))
      /\ reply' = [reply EXCEPT ![Calling(t).board] = Feedback]
      /\ UNCHANGED << wiring, cliMode, shadow, fb, frame, job, cmd, ram, flash, missed, faults, restarts >>
  BY DEF Nop, At, esp
<1>2. \A u \in Users : u # t => pc[u] = "call"
  BY <1>1, Alone, Busy
<1>3. Calling(t).board \in Boards
  BY <1>1, CallingFacts DEF BusInv
<1>4. /\ todo' \in [Users -> Seq(Calls)] /\ ok' \in [Users -> BOOLEAN]
      /\ pc' \in [Users -> {"call", "nop", "resend", "send"}]
      /\ Exclusive' /\ Places' /\ Addressed' /\ \A u \in Users : pc'[u] = "call"
  <2>1. Accepts(Calling(t), reply[Calling(t).board]) \in BOOLEAN
    BY <1>3 DEF Accepts, BusInv, TypeOK, Replies
  <2> QED BY <1>1, <2>1, ReturnsKeeps
<1>5. TypeOK'
  <2>1. Feedback \in Replies
    BY ZeroParam, BoardAssumption DEF Feedback, Replies, Channels, Values
  <2> QED BY <1>1, <1>4, <2>1 DEF BusInv, TypeOK
<1>6. Answered' /\ Framed'
  BY <1>4 DEF Answered, Framed
<1>7. Obeyed'
  BY <1>1, <1>2 DEF BusInv, Obeyed, Underway
<1> QED BY <1>4, <1>5, <1>6, <1>7 DEF BusInv

(* A step of a call that stays within it and leaves the boards alone. *)
LEMMA BuildKeeps ==
    ASSUME BusInv, OneUser, NEW t \in Users, ~Idle(t), pc[t] \in {"call", "resend"},
           NEW place \in {"resend", "send"}, pc' = [pc EXCEPT ![t] = place],
           place = "resend" => Calling(t).op = "direct",
           place = "send" => Calling(t).op \in {"sync", "direct", "poll"},
           frame' \in [Users -> [Channels -> Setpoints]], shadow' \in [Channels -> Setpoints],
           place = "send" => \A c \in On(Calling(t).board) : frame'[t][c] = shadow'[c],
           \A c \in Channels :
              \/ shadow'[c] = shadow[c] /\ (Underway(t, c) => Underway(t, c)')
              \/ Underway(t, c)',
           UNCHANGED << wiring, cliMode, fb, todo, job, ok, at32, missed, faults, restarts >>
    PROVE  BusInv'
<1>1. \A u \in Users : u # t => pc[u] = "call"
  BY Alone, Busy
<1>2. \A u \in Users : Calling(u)' = Calling(u) /\ Idle(u)' = Idle(u)
  BY DEF Calling, Idle
<1>3. TypeOK'
  BY DEF BusInv, TypeOK, at32
<1>4. Exclusive' /\ Addressed'
  BY <1>2, UserFacts DEF BusInv, Exclusive, Addressed, ForServo, Phys
<1>5. Places'
  BY <1>1, <1>2 DEF BusInv, TypeOK, Places
<1>6. Answered' /\ Framed'
  BY <1>1, <1>2 DEF BusInv, TypeOK, Answered, Framed
<1>7. Obeyed'
  <2>1. ASSUME NEW c \in Channels, BoardOf(c) \notin missed'
        PROVE  cmd'[c] = shadow'[c] \/ \E u \in Users : Underway(u, c)'
    <3>1. cmd'[c] = cmd[c] /\ BoardOf(c) \notin missed
      BY <2>1 DEF at32
    <3>2. cmd[c] = shadow[c] \/ Underway(t, c)
      BY <3>1, <1>1 DEF BusInv, Obeyed, Underway
    <3> QED BY <3>1, <3>2
  <2> QED BY <2>1 DEF Obeyed
<1> QED BY <1>3, <1>4, <1>5, <1>6, <1>7 DEF BusInv

(* A channel is on the board that BoardOf says. *)
LEMMA OnBoardOf ==
    ASSUME NEW c \in Channels, NEW b \in Boards
    PROVE  c \in On(b) <=> BoardOf(c) = b
  BY BoardFacts

(* Building a frame of sync_write keeps it. *)
LEMMA BuildSyncKeeps ==
    ASSUME BusInv, OneUser, NEW t \in Users, BuildSync(t)
    PROVE  BusInv'
<1>1. /\ ~Idle(t) /\ pc[t] = "call" /\ Calling(t).op = "sync" /\ pc' = [pc EXCEPT ![t] = "send"]
      /\ frame' = [frame EXCEPT ![t] = [c \in Channels |-> "gait"]]
      /\ shadow' = [c \in Channels |-> IF c \in On(Calling(t).board) THEN "gait" ELSE shadow[c]]
      /\ UNCHANGED << wiring, cliMode, fb, todo, job, ok, at32, missed, faults, restarts >>
  BY DEF BuildSync, At
<1>2. Calling(t).board \in Boards
  BY <1>1, CallingFacts DEF BusInv
<1>3. frame' \in [Users -> [Channels -> Setpoints]] /\ shadow' \in [Channels -> Setpoints]
  BY <1>1 DEF BusInv, TypeOK, Setpoints
<1>4. \A c \in On(Calling(t).board) : frame'[t][c] = shadow'[c]
  BY <1>1, <1>2, BoardFacts DEF BusInv, TypeOK
<1>5. pc'[t] = "send" /\ Calling(t)' = Calling(t) /\ \A c \in Channels : ~Underway(t, c)
  BY <1>1 DEF Calling, BusInv, TypeOK, Underway
<1>6. \A c \in Channels : shadow'[c] = shadow[c] \/ Underway(t, c)'
  BY <1>1, <1>2, <1>5, OnBoardOf DEF Underway
<1> QED BY <1>1, <1>3, <1>4, <1>5, <1>6, BuildKeeps

(* A direct command in the shadow keeps it. *)
LEMMA WriteShadowKeeps ==
    ASSUME BusInv, OneUser, NEW t \in Users, WriteShadow(t)
    PROVE  BusInv'
<1>1. /\ ~Idle(t) /\ pc[t] = "call" /\ Calling(t).op = "direct" /\ pc' = [pc EXCEPT ![t] = "resend"]
      /\ shadow' = [shadow EXCEPT ![Channel(Calling(t))] = "direct"]
      /\ UNCHANGED << wiring, cliMode, fb, todo, frame, job, ok, at32, missed, faults, restarts >>
  BY DEF WriteShadow, At
<1>2. /\ Calling(t).board \in Boards /\ Channel(Calling(t)) \in Channels
      /\ Channel(Calling(t)) \in On(Calling(t).board)
  BY <1>1, CallingFacts, ChannelOfCall DEF BusInv
<1>3. frame' \in [Users -> [Channels -> Setpoints]] /\ shadow' \in [Channels -> Setpoints]
  BY <1>1 DEF BusInv, TypeOK, Setpoints
<1>4. pc'[t] = "resend" /\ Calling(t)' = Calling(t) /\ \A c \in Channels : ~Underway(t, c)
  BY <1>1 DEF Calling, BusInv, TypeOK, Underway
<1>5. \A c \in Channels : shadow'[c] = shadow[c] \/ Underway(t, c)'
  BY <1>1, <1>2, <1>4, OnBoardOf DEF Underway, Channel, BusInv, TypeOK
<1> QED BY <1>1, <1>3, <1>4, <1>5, BuildKeeps

(* Rebuilding a frame from the shadow keeps it. *)
LEMMA BuildResendKeeps ==
    ASSUME BusInv, OneUser, NEW t \in Users, BuildResend(t)
    PROVE  BusInv'
<1>1. /\ ~Idle(t) /\ pc[t] \in {"call", "resend"} /\ pc' = [pc EXCEPT ![t] = "send"]
      /\ frame' = [frame EXCEPT ![t] = shadow]
      /\ UNCHANGED << wiring, cliMode, shadow, fb, todo, job, ok, at32, missed, faults, restarts >>
  BY DEF BuildResend, At, esp
<1>2. Calling(t).op \in {"direct", "poll"}
  BY DEF BuildResend, At, BusInv, Places
<1>3. frame' \in [Users -> [Channels -> Setpoints]] /\ shadow' \in [Channels -> Setpoints]
  BY <1>1 DEF BusInv, TypeOK
<1>4. frame'[t] = shadow /\ pc'[t] = "send" /\ Calling(t)' = Calling(t)
  BY <1>1 DEF Calling, BusInv, TypeOK
<1>5. \A c \in Channels : shadow'[c] = shadow[c] /\ (Underway(t, c) => Underway(t, c)')
  BY <1>1, <1>4 DEF Underway, Channel
<1> QED BY <1>1, <1>2, <1>3, <1>4, <1>5, BuildKeeps

(* Sending a frame keeps it. *)
LEMMA SendFrameKeeps ==
    ASSUME BusInv, OneUser, NEW t \in Users, SendFrame(t)
    PROVE  BusInv'
<1> DEFINE b == Calling(t).board
<1>1. /\ ~Idle(t) /\ pc[t] = "send" /\ Returns(t, TRUE)
      /\ cmd' = [c \in Channels |-> IF c \in On(b) THEN frame[t][c] ELSE cmd[c]]
      /\ fb' = [c \in Channels |-> IF c \in On(b) THEN reply[b] ELSE fb[c]]
      /\ reply' = [reply EXCEPT ![b] = Feedback]
      /\ missed' = missed \ {b} /\ frame' = [frame EXCEPT ![t] = NoFrame]
      /\ UNCHANGED << wiring, cliMode, shadow, job, ram, flash, faults, restarts >>
  BY DEF SendFrame, At
<1>2. \A u \in Users : u # t => pc[u] = "call"
  BY <1>1, Alone, Busy
<1>3. b \in Boards
  BY <1>1, CallingFacts DEF BusInv
<1>4. /\ todo' \in [Users -> Seq(Calls)] /\ ok' \in [Users -> BOOLEAN]
      /\ pc' \in [Users -> {"call", "nop", "resend", "send"}]
      /\ Exclusive' /\ Places' /\ Addressed' /\ \A u \in Users : pc'[u] = "call"
  BY <1>1, ReturnsKeeps
<1>5. TypeOK'
  <2>1. Feedback \in Replies /\ NoFrame \in [Channels -> Setpoints]
    BY ZeroParam, BoardAssumption DEF Feedback, Replies, Channels, Values, NoFrame, Setpoints
  <2>2. /\ cmd' \in [Channels -> Setpoints] /\ fb' \in [Channels -> Replies]
        /\ reply' \in [Boards -> Replies] /\ missed' \subseteq Boards
        /\ frame' \in [Users -> [Channels -> Setpoints]]
    BY <1>1, <1>3, <2>1 DEF BusInv, TypeOK
  <2> QED BY <1>1, <1>4, <2>2 DEF BusInv, TypeOK
<1>6. Answered' /\ Framed'
  BY <1>4 DEF Answered, Framed
<1>7. Obeyed'
  <2>1. ASSUME NEW c \in Channels, BoardOf(c) \notin missed' PROVE cmd'[c] = shadow'[c]
    <3>1. CASE BoardOf(c) = b
      BY <3>1, <1>1, <1>3, OnBoardOf DEF BusInv, Framed
    <3>2. CASE BoardOf(c) # b
      BY <3>2, <2>1, <1>1, <1>2, <1>3, OnBoardOf DEF BusInv, Obeyed, Underway
    <3> QED BY <3>1, <3>2
  <2> QED BY <2>1 DEF Obeyed
<1> QED BY <1>4, <1>5, <1>6, <1>7 DEF BusInv

(* A failing transaction keeps it. *)
LEMMA FaultKeeps ==
    ASSUME BusInv, OneUser, NEW t \in Users, Fault(t)
    PROVE  BusInv'
<1>1. /\ ~Idle(t) /\ Returns(t, FALSE) /\ faults < MaxFaults /\ faults' = faults + 1
      /\ pc[t] \in {"call", "nop", "send"}
      /\ missed' = (IF pc[t] = "send" THEN missed \cup {Calling(t).board} ELSE missed)
      /\ frame' = [frame EXCEPT ![t] = NoFrame]
      /\ UNCHANGED << wiring, cliMode, shadow, fb, job, cmd, ram, flash, reply, restarts >>
  BY DEF Fault, At, esp, at32
<1>2. \A u \in Users : u # t => pc[u] = "call"
  BY <1>1, Alone, Busy
<1>3. /\ todo' \in [Users -> Seq(Calls)] /\ ok' \in [Users -> BOOLEAN]
      /\ pc' \in [Users -> {"call", "nop", "resend", "send"}]
      /\ Exclusive' /\ Places' /\ Addressed' /\ \A u \in Users : pc'[u] = "call"
  BY <1>1, ReturnsKeeps
<1>4. TypeOK'
  <2>1. NoFrame \in [Channels -> Setpoints] /\ Calling(t).board \in Boards
    BY <1>1, CallingFacts DEF NoFrame, Setpoints, BusInv
  <2>2. missed' \subseteq Boards /\ frame' \in [Users -> [Channels -> Setpoints]] /\ faults' \in 0 .. MaxFaults
    BY <1>1, <2>1, BoundAssumption DEF BusInv, TypeOK
  <2> QED BY <1>1, <1>3, <2>2 DEF BusInv, TypeOK
<1>5. Answered' /\ Framed'
  BY <1>3 DEF Answered, Framed
<1>6. Obeyed'
  <2>1. ASSUME NEW c \in Channels, BoardOf(c) \notin missed' PROVE cmd'[c] = shadow'[c]
    <3>1. BoardOf(c) \notin missed /\ ~Underway(t, c)
      BY <2>1, <1>1 DEF Underway
    <3> QED BY <3>1, <1>1, <1>2 DEF BusInv, Obeyed, Underway
  <2> QED BY <2>1 DEF Obeyed
<1> QED BY <1>3, <1>4, <1>5, <1>6 DEF BusInv

-----------------------------------------------------------------------------
(* The commands. *)

(* A begun command of one servo whose calls are on the servo it names. *)
LEMMA OnServoFor ==
    ASSUME TypeOK, NEW id \in Channels, NEW op \in Config \cup {"sync", "direct", "poll"},
           NEW p \in Params, NEW v \in Values, NEW does
    PROVE  /\ OnServo(op, id, p, v) \in Calls
           /\ ForServo(OnServo(op, id, p, v), [does |-> does, id |-> id])
  BY ServoCall DEF ForServo, TypeOK

(* The calls on whole boards ask no servo. *)
LEMMA OnBoardsFor ==
    ASSUME NEW op \in {"sync", "save", "restore"}, NEW j
    PROVE  /\ EachBoard(op) \in Seq(Calls)
           /\ \A k \in 1 .. Len(EachBoard(op)) : ForServo(EachBoard(op)[k], j)
           /\ \A id \in Channels :
                 << OnBoard(op, BoardOf(id)) >> \in Seq(Calls) /\ ForServo(OnBoard(op, BoardOf(id)), j)
<1>1. \A k \in 1 .. Len(EachBoard(op)) : ForServo(EachBoard(op)[k], j)
  BY EachBoardCalls DEF ForServo, Asking
<1>2. ASSUME NEW id \in Channels
      PROVE  << OnBoard(op, BoardOf(id)) >> \in Seq(Calls) /\ ForServo(OnBoard(op, BoardOf(id)), j)
  <2>1. OnBoard(op, BoardOf(id)) \in Calls /\ OnBoard(op, BoardOf(id)).op = op
    BY BoardFacts, ZeroParam DEF OnBoard, Calls, Config
  <2> QED BY <2>1 DEF ForServo, Asking
<1> QED BY <1>1, <1>2, EachBoardCalls

(* Beginning a command keeps it. *)
LEMMA CommandKeeps ==
    ASSUME BusInv, OneUser, NEW t \in Clients, Command(t)
    PROVE  BusInv'
<1> USE UserFacts, ZeroParam
<1>0. t \in Users /\ t # "gait" /\ TypeOK /\ Disciplined
  BY DEF BusInv, OneUser
<1>1. ASSUME Allowed(t) PROVE IF t = "gait" THEN ~cliMode ELSE cliMode /\ Idle("gait")
  BY <1>0, <1>1 DEF Allowed
<1>2. ASSUME NEW id \in Named, NEW p \in Params, GetParam(t, id, p) PROVE BusInv'
  <2> DEFINE calls == << OnServo("get", id, p, 0) >>
  <2>1. OnServo("get", id, p, 0) \in Calls /\ ForServo(OnServo("get", id, p, 0), [does |-> "get", id |-> id])
    BY <1>0, OnServoFor, NamedAssumption DEF Config, Asking
  <2>2. calls \in Seq(Calls) /\ \A k \in 1 .. Len(calls) : ForServo(calls[k], [does |-> "get", id |-> id])
    BY <2>1
  <2>3. [does |-> "get", id |-> id] \in Jobs
    BY NamedAssumption DEF Jobs
  <2> QED BY <1>0, <1>1, <1>2, <2>2, <2>3, BeginKeeps DEF GetParam
<1>3. ASSUME NEW id \in Named, NEW p \in Params, NEW v \in Values, SetParam(t, id, p, v) PROVE BusInv'
  <2> DEFINE calls == << OnServo("set", id, p, v), OnServo("get", id, p, 0) >>
             j     == [does |-> "set", id |-> id]
  <2>1. /\ OnServo("get", id, p, 0) \in Calls /\ ForServo(OnServo("get", id, p, 0), j)
        /\ OnServo("set", id, p, v) \in Calls /\ ForServo(OnServo("set", id, p, v), j)
    BY <1>0, OnServoFor, NamedAssumption DEF Config, Asking
  <2>2. calls \in Seq(Calls) /\ \A k \in 1 .. Len(calls) : ForServo(calls[k], j)
    BY <2>1
  <2>3. j \in Jobs
    BY NamedAssumption DEF Jobs
  <2> QED BY <1>0, <1>1, <1>3, <2>2, <2>3, BeginKeeps DEF SetParam
<1>4. ASSUME NEW id \in Named, NEW op \in Asking, NEW does \in {"dump", "trace"}, Allowed(t),
             Begin(t, does, id, [k \in 1 .. ParamCount |-> OnServo(op, id, k - 1, 0)])
      PROVE  BusInv'
  <2> DEFINE calls == [k \in 1 .. ParamCount |-> OnServo(op, id, k - 1, 0)]
             j     == [does |-> does, id |-> id]
  <2>1. \A k \in 1 .. ParamCount : OnServo(op, id, k - 1, 0) \in Calls /\ ForServo(OnServo(op, id, k - 1, 0), j)
    BY <1>0, OnServoFor, NamedAssumption DEF Config, Params
  <2>2. calls \in [1 .. ParamCount -> Calls] /\ \A k \in 1 .. ParamCount : ForServo(calls[k], j)
    BY <2>1
  <2>3. calls \in Seq(Calls) /\ Len(calls) = ParamCount
    BY <2>2, SeqOfCalls
  <2>4. j \in Jobs
    BY NamedAssumption DEF Jobs
  <2> HIDE DEF calls
  <2>5. \A k \in 1 .. Len(calls) : ForServo(calls[k], j)
    BY <2>2, <2>3
  <2> QED BY <1>0, <1>1, <1>4, <2>3, <2>4, <2>5, BeginKeeps DEF calls
<1>5. ASSUME NEW id \in Named, Direct(t, id) PROVE BusInv'
  <2> DEFINE calls == << OnServo("direct", id, 0, 0) >>
  <2>1. OnServo("direct", id, 0, 0) \in Calls /\ ForServo(OnServo("direct", id, 0, 0), [does |-> "direct", id |-> id])
    BY <1>0, OnServoFor, NamedAssumption
  <2>2. calls \in Seq(Calls) /\ \A k \in 1 .. Len(calls) : ForServo(calls[k], [does |-> "direct", id |-> id])
    BY <2>1
  <2>3. [does |-> "direct", id |-> id] \in Jobs
    BY NamedAssumption DEF Jobs
  <2> QED BY <1>0, <1>1, <1>5, <2>2, <2>3, BeginKeeps DEF Direct
<1>6. ASSUME NEW id \in Named \cup {0}, NEW op \in {"save", "restore"}, Allowed(t),
             Begin(t, op, id, IF id = 0 THEN EachBoard(op) ELSE << OnBoard(op, BoardOf(id)) >>)
      PROVE  BusInv'
  <2> DEFINE calls == IF id = 0 THEN EachBoard(op) ELSE << OnBoard(op, BoardOf(id)) >>
             j     == [does |-> op, id |-> id]
  <2>1. j \in Jobs
    BY NamedAssumption DEF Jobs
  <2>2. calls \in Seq(Calls) /\ \A k \in 1 .. Len(calls) : ForServo(calls[k], j)
    <3>1. CASE id = 0
      BY <3>1, OnBoardsFor
    <3>2. CASE id # 0
      BY <3>2, OnBoardsFor, NamedAssumption
    <3> QED BY <3>1, <3>2
  <2> HIDE DEF calls
  <2> QED BY <1>0, <1>1, <1>6, <2>1, <2>2, BeginKeeps DEF calls
<1>7. ASSUME Scan(t) PROVE BusInv'
  <2> DEFINE calls == [id \in 1 .. 3 * BoardCount |-> OnServo("get", id, 0, 0)]
             j     == [does |-> "scan", id |-> 0]
  <2>1. \A id \in Channels : OnServo("get", id, 0, 0) \in Calls /\ ForServo(OnServo("get", id, 0, 0), j)
    BY <1>0, ServoCall DEF Config, Asking, ForServo, TypeOK
  <2>2. calls \in [1 .. 3 * BoardCount -> Calls] /\ \A id \in 1 .. 3 * BoardCount : ForServo(calls[id], j)
    BY <2>1 DEF Channels
  <2>3. calls \in Seq(Calls) /\ Len(calls) = 3 * BoardCount
    BY <2>2, SeqOfCalls, BoardFacts
  <2>4. j \in Jobs
    BY DEF Jobs
  <2> HIDE DEF calls
  <2>5. \A k \in 1 .. Len(calls) : ForServo(calls[k], j)
    BY <2>2, <2>3
  <2> QED BY <1>0, <1>1, <1>7, <2>3, <2>4, <2>5, BeginKeeps DEF Scan, calls
<1>8. ASSUME CliToggle(t) PROVE BusInv'
  <2>1. \A u \in Clients : Idle(u)
    BY <1>8 DEF CliToggle, OneUser
  <2>2. Exclusive'
    BY <1>8, <2>1 DEF CliToggle, Exclusive, Idle, users
  <2>3. TypeOK'
    BY <1>8 DEF CliToggle, users, at32, BusInv, TypeOK
  <2>4. Places' /\ Addressed'
    BY <1>8 DEF CliToggle, users, BusInv, Places, Addressed, ForServo, Phys, Idle, Calling
  <2>5. Answered' /\ Obeyed' /\ Framed'
    BY <1>8 DEF CliToggle, users, at32, BusInv, Answered, AnswerTo, Obeyed, Underway, Framed, Calling
  <2> QED BY <2>2, <2>3, <2>4, <2>5 DEF BusInv
<1> QED BY <1>2, <1>3, <1>4, <1>5, <1>6, <1>7, <1>8
        DEF Command, Dump, Trace, Save, Restore, Asking

(* Beginning a pass keeps it. *)
LEMMA PassKeeps ==
    ASSUME BusInv, OneUser, NEW t \in Users, Pass(t)
    PROVE  BusInv'
<1>1. IF t = "gait" THEN ~cliMode ELSE cliMode /\ Idle("gait")
  BY DEF Pass, Allowed, OneUser
<1>2. [does |-> "pass", id |-> 0] \in Jobs
  BY DEF Jobs
<1>3. EachBoard("sync") \in Seq(Calls)
      /\ \A k \in 1 .. Len(EachBoard("sync")) : ForServo(EachBoard("sync")[k], [does |-> "pass", id |-> 0])
  BY OnBoardsFor
<1> QED BY <1>1, <1>2, <1>3, BeginKeeps DEF Pass

(* A power loss keeps it. *)
LEMMA PowerLossKeeps ==
    ASSUME BusInv, PowerLoss
    PROVE  BusInv'
<1>1. TypeOK'
  <2>1. NoFrame \in [Channels -> Setpoints] /\ Feedback \in Replies /\ NoJob \in Jobs
    <3>1. 1 \in Channels
      BY BoardAssumption DEF Channels
    <3> QED BY <3>1, ZeroParam DEF NoFrame, Feedback, NoJob, Setpoints, Values, Replies, Jobs
  <2>2. << >> \in Seq(Calls) /\ restarts' \in 0 .. MaxRestarts
    BY BoundAssumption DEF PowerLoss, BusInv, TypeOK
  <2>3. /\ wiring' \in Wirings /\ cliMode' \in BOOLEAN /\ shadow' \in [Channels -> Setpoints]
        /\ fb' \in [Channels -> Replies] /\ cmd' \in [Channels -> Setpoints] /\ reply' \in [Boards -> Replies]
        /\ ram' \in [Channels -> [Params -> Values]] /\ flash' \in [Channels -> [Params -> Values]]
        /\ missed' \subseteq Boards /\ faults' \in 0 .. MaxFaults
    BY <2>1 DEF PowerLoss, Setpoints, BusInv, TypeOK
  <2>4. /\ todo' \in [Users -> Seq(Calls)] /\ frame' \in [Users -> [Channels -> Setpoints]]
        /\ pc' \in [Users -> {"call", "nop", "resend", "send"}]
        /\ job' \in [Users -> Jobs] /\ ok' \in [Users -> BOOLEAN]
    BY <2>1, <2>2 DEF PowerLoss
  <2> QED BY <2>2, <2>3, <2>4 DEF TypeOK
<1>2. Exclusive' /\ Places' /\ Addressed' /\ Answered' /\ Obeyed' /\ Framed'
  BY UserFacts, BoardFacts DEF PowerLoss, Exclusive, Places, Addressed, Answered, Obeyed, Framed, Idle
<1> QED BY <1>1, <1>2 DEF BusInv

(* Every step keeps the invariant. *)
LEMMA NextKeeps ==
    ASSUME BusInv, OneUser, [Next]_vars
    PROVE  BusInv'
<1>1. CASE \E t \in Clients : Command(t)
  BY <1>1, CommandKeeps
<1>2. ASSUME NEW t \in Users, Run(t) PROVE BusInv'
  BY <1>2, RequestKeeps, NopKeeps, BuildSyncKeeps, WriteShadowKeeps, BuildResendKeeps, SendFrameKeeps DEF Run
<1>3. CASE \E t \in Users : Pass(t) \/ Run(t) \/ Fault(t)
  BY <1>2, <1>3, PassKeeps, FaultKeeps
<1>4. CASE PowerLoss
  BY <1>4, PowerLossKeeps
<1>5. CASE UNCHANGED vars
  <2>1. TypeOK' /\ Exclusive' /\ Places' /\ Addressed'
    BY <1>5 DEF vars, esp, users, at32, BusInv, TypeOK, Exclusive, Places, Addressed, ForServo, Phys, Idle, Calling
  <2>2. Answered' /\ Obeyed' /\ Framed'
    BY <1>5 DEF vars, esp, users, at32, BusInv, Answered, AnswerTo, Obeyed, Underway, Framed, Calling
  <2> QED BY <2>1, <2>2 DEF BusInv
<1> QED BY <1>1, <1>3, <1>4, <1>5 DEF Next

-----------------------------------------------------------------------------
(* The feedback cache and the saves: what the boards hold for the command    *)
(* that is under way.                                                        *)

(* Until a transaction fails, a board has an answer loaded only between the  *)
(* two transactions of a request, so no frame decodes one.                   *)
Fetched ==
    \A b \in Boards : reply[b].config => \E t \in Users : pc[t] = "nop" /\ Calling(t).board = b
CacheInv == faults = 0 => Fetched /\ \A c \in Channels : ~fb[c].config

(* A step keeps what is loaded and decoded. *)
LEMMA CacheKeeps ==
    ASSUME BusInv, OneUser, CacheInv, [Next]_vars
    PROVE  CacheInv'
<1> SUFFICES ASSUME faults' = 0 PROVE Fetched' /\ \A c \in Channels : ~fb'[c].config
  BY DEF CacheInv
<1> USE DEF Fetched
<1>0. ASSUME UNCHANGED << faults, reply, fb >>, NEW t \in Users,
             \A u \in Users : u # t => pc'[u] = pc[u] /\ todo'[u] = todo[u],
             pc[t] # "nop"
      PROVE  CacheInv'
  BY <1>0 DEF CacheInv, Calling
<1>1. ASSUME NEW t \in Clients, Command(t) PROVE CacheInv'
  <2>1. Idle(t) /\ pc[t] = "call" /\ t \in Users
    BY <1>1, UserFacts DEF Command, GetParam, SetParam, Dump, Trace, Direct, Save, Restore, Scan,
                           CliToggle, Begin, BusInv, Places
  <2>2. UNCHANGED << faults, reply, fb, pc >>
    BY <1>1 DEF Command, GetParam, SetParam, Dump, Trace, Direct, Save, Restore, Scan,
                CliToggle, Begin, esp, at32, users
  <2>3. \A u \in Users : u # t => todo'[u] = todo[u]
    BY <1>1 DEF Command, GetParam, SetParam, Dump, Trace, Direct, Save, Restore, Scan,
                CliToggle, Begin, users, BusInv, TypeOK
  <2> QED BY <1>0, <2>1, <2>2, <2>3
<1>2. ASSUME NEW t \in Users, Pass(t) PROVE CacheInv'
  BY <1>0, <1>2 DEF Pass, Begin, esp, at32, BusInv, TypeOK, Places
<1>3. ASSUME NEW t \in Users, BuildSync(t) \/ WriteShadow(t) \/ BuildResend(t) PROVE CacheInv'
  <2>1. pc[t] # "nop" /\ UNCHANGED << faults, reply, fb, todo >>
    BY <1>3 DEF BuildSync, WriteShadow, BuildResend, At, esp, at32
  <2>2. \A u \in Users : u # t => pc'[u] = pc[u]
    BY <1>3 DEF BuildSync, WriteShadow, BuildResend, BusInv, TypeOK
  <2> QED BY <1>0, <2>1, <2>2
<1>4. ASSUME NEW t \in Users, Request(t) PROVE CacheInv'
  <2>1. /\ ~Idle(t) /\ pc[t] = "call" /\ pc' = [pc EXCEPT ![t] = "nop"]
        /\ \A b \in Boards : b # Calling(t).board => reply'[b] = reply[b]
        /\ UNCHANGED << faults, fb, todo >>
    BY <1>4 DEF Request, At, esp, BusInv, TypeOK
  <2>2. \A u \in Users : pc[u] # "nop"
    BY <2>1, Alone, Busy
  <2>3. pc'[t] = "nop" /\ Calling(t)' = Calling(t)
    BY <2>1 DEF Calling, BusInv, TypeOK
  <2> QED BY <2>1, <2>2, <2>3 DEF CacheInv
<1>5. ASSUME NEW t \in Users, Nop(t) \/ SendFrame(t) PROVE CacheInv'
  <2>1. ~Idle(t) /\ pc[t] # "call" /\ faults' = faults /\ Calling(t).board \in Boards
        /\ reply' = [reply EXCEPT ![Calling(t).board] = Feedback]
    BY <1>5, CallingFacts DEF Nop, SendFrame, At, BusInv
  <2>2. \A u \in Users : u # t => pc[u] = "call"
    BY <2>1, Alone, Busy
  <2>3. \A b \in Boards : ~reply'[b].config
    BY <2>1, <2>2, BoardFacts DEF CacheInv, BusInv, TypeOK, Feedback
  <2>4. \A c \in Channels : ~fb'[c].config
    <3>1. CASE Nop(t)
      BY <3>1, <2>1 DEF Nop, esp, CacheInv
    <3>2. CASE SendFrame(t)
      <4>1. pc[t] = "send" /\ ~reply[Calling(t).board].config
        BY <3>2, <2>1, <2>2 DEF SendFrame, At, CacheInv
      <4> QED BY <3>2, <2>1, <4>1 DEF SendFrame, CacheInv
    <3> QED BY <1>5, <3>1, <3>2
  <2> QED BY <2>3, <2>4 DEF CacheInv
<1>6. ASSUME NEW t \in Users PROVE ~Fault(t)
  <2>1. faults \in 0 .. MaxFaults
    BY DEF BusInv, TypeOK
  <2>2. Fault(t) => faults' = faults + 1
    BY DEF Fault
  <2> QED BY <2>1, <2>2, BoundAssumption
<1>7. CASE PowerLoss
  BY <1>7 DEF PowerLoss, Feedback, CacheInv
<1>8. CASE UNCHANGED vars
  BY <1>8 DEF vars, esp, users, at32, CacheInv, Calling
<1>9. ASSUME NEW t \in Users, Run(t) PROVE CacheInv'
  BY <1>9, <1>3, <1>4, <1>5 DEF Run
<1>10. CASE \E t \in Clients : Command(t)
  BY <1>1, <1>10 DEF CacheInv
<1>11. CASE \E t \in Users : Pass(t) \/ Run(t) \/ Fault(t)
  BY <1>2, <1>6, <1>9, <1>11 DEF CacheInv
<1> QED BY <1>7, <1>8, <1>10, <1>11 DEF Next, CacheInv

(* A save of every board goes through the boards in order, one of a servo    *)
(* asks the board of the connector's number; the boards a save is done with, *)
(* and the one it has asked, have their parameters in the flash.             *)
Kept(b) == \A c \in On(b) : flash[c] = ram[c]
Saving(t) ==
    job[t].does = "save" /\ ~Idle(t) =>
       /\ \A k \in 1 .. Len(todo[t]) : todo[t][k].op = "save"
       /\ pc[t] = "nop" => Kept(Calling(t).board)
       /\ job[t].id = 0 =>
             /\ Len(todo[t]) <= BoardCount
             /\ \A k \in 1 .. Len(todo[t]) : todo[t][k].board = BoardCount - Len(todo[t]) + k - 1
             /\ ok[t] => \A b \in Boards : b < BoardCount - Len(todo[t]) => Kept(b)
       /\ job[t].id # 0 =>
             Len(todo[t]) = 1 /\ Calling(t).board = BoardOf(job[t].id)
SaveInv == \A t \in Users : Saving(t)

(* What a user that is not in a command does not do cannot disturb its save. *)
LEMMA SavingUntouched ==
    ASSUME NEW u, SaveInv, u \in Users,
           \/ job'[u].does # "save"
           \/ todo'[u] = << >>
           \/ /\ todo'[u] = todo[u] /\ job'[u] = job[u] /\ ok'[u] = ok[u] /\ UNCHANGED << ram, flash >>
              /\ pc'[u] = pc[u] \/ pc'[u] # "nop"
    PROVE  Saving(u)'
<1>1. CASE job'[u].does # "save" \/ todo'[u] = << >>
  BY <1>1 DEF Saving, Idle
<1>2. CASE /\ todo'[u] = todo[u] /\ job'[u] = job[u] /\ ok'[u] = ok[u] /\ UNCHANGED << ram, flash >>
           /\ pc'[u] = pc[u] \/ pc'[u] # "nop"
  BY <1>2 DEF SaveInv, Saving, Idle, Calling, Kept
<1> QED BY <1>1, <1>2

(* A command that begins: a save has its boards before it. *)
LEMMA SaveBegins ==
    ASSUME BusInv, SaveInv, NEW t \in Users, NEW does, NEW id, NEW calls, Begin(t, does, id, calls),
           does = "save" =>
              /\ id \in Named \cup {0}
              /\ calls = IF id = 0 THEN EachBoard("save") ELSE << OnBoard("save", BoardOf(id)) >>
    PROVE  SaveInv'
<1>1. /\ Idle(t) /\ pc[t] = "call" /\ pc' = pc
      /\ job' = [job EXCEPT ![t] = [does |-> does, id |-> id]]
      /\ todo' = [todo EXCEPT ![t] = calls]
      /\ ok' = [ok EXCEPT ![t] = TRUE] /\ UNCHANGED << ram, flash >>
  BY DEF Begin, at32, BusInv, Places
<1>2. /\ todo'[t] = calls /\ job'[t] = [does |-> does, id |-> id] /\ ok'[t] = TRUE
      /\ \A u \in Users : u # t => todo'[u] = todo[u] /\ job'[u] = job[u] /\ ok'[u] = ok[u]
  BY <1>1 DEF BusInv, TypeOK
<1>3. \A u \in Users : u # t => Saving(u)'
  BY <1>1, <1>2, SavingUntouched
<1>4. CASE does # "save"
  <2>1. job'[t].does # "save"
    BY <1>2, <1>4
  <2> QED BY <1>3, <2>1, SavingUntouched DEF SaveInv
<1>5. CASE does = "save" /\ id = 0
  <2>1. /\ calls = EachBoard("save") /\ calls \in Seq(Calls) /\ Len(calls) = BoardCount
        /\ \A k \in 1 .. BoardCount : calls[k] = OnBoard("save", k - 1)
    <3>1. \A k \in 1 .. BoardCount : OnBoard("save", k - 1) \in Calls
      BY ZeroParam, BoardAssumption DEF OnBoard, Calls, Boards, Config
    <3>2. EachBoard("save") \in [1 .. BoardCount -> Calls]
      BY <3>1 DEF EachBoard
    <3> QED BY <1>5, <3>2, SeqOfCalls, BoardFacts DEF EachBoard
  <2>2. \A k \in 1 .. BoardCount : calls[k].op = "save" /\ calls[k].board = k - 1
    <3>1. \A b : OnBoard("save", b).op = "save" /\ OnBoard("save", b).board = b
      BY DEF OnBoard
    <3> QED BY <2>1, <3>1
  <2>3. pc'[t] # "nop" /\ job'[t].id = 0 /\ job'[t].does = "save"
    BY <1>1, <1>2, <1>5
  <2>4. \A b \in Boards : ~(b < BoardCount - BoardCount)
    BY BoardFacts DEF Boards
  <2>5. \A k \in 1 .. BoardCount : calls[k].board = BoardCount - BoardCount + k - 1
    BY <2>2, BoardFacts
  <2>6. Saving(t)'
    BY <1>2, <2>1, <2>2, <2>3, <2>4, <2>5, BoardFacts DEF Saving
  <2> QED BY <1>3, <2>6 DEF SaveInv
<1>6. CASE does = "save" /\ id # 0
  <2>1. calls = << OnBoard("save", BoardOf(id)) >>
    BY <1>6
  <2>2. Len(calls) = 1 /\ \A k \in 1 .. Len(calls) : calls[k].op = "save"
    BY <2>1 DEF OnBoard
  <2>3. Head(calls).board = BoardOf(id)
    BY <2>1 DEF OnBoard
  <2>4. pc'[t] # "nop" /\ job'[t].id # 0 /\ job'[t].id = id
    BY <1>1, <1>2, <1>6
  <2>5. Saving(t)'
    BY <1>2, <2>2, <2>3, <2>4 DEF Saving, Calling
  <2> QED BY <1>3, <2>5 DEF SaveInv
<1> QED BY <1>4, <1>5, <1>6

(* A call that returns: the save has one board less before it. *)
LEMMA SaveReturns ==
    ASSUME BusInv, OneUser, SaveInv, NEW t \in Users, ~Idle(t), NEW won \in BOOLEAN, Returns(t, won),
           won /\ job[t].does = "save" => pc[t] = "nop",
           UNCHANGED << job, ram, flash >>
    PROVE  SaveInv'
<1>1. \A u \in Users : u # t => todo'[u] = << >>
  BY Alone DEF BusInv, TypeOK, Returns, Idle
<1>2. \A u \in Users : u # t => Saving(u)'
  BY <1>1, SavingUntouched
<1>3. Saving(t)'
  <2> SUFFICES ASSUME job[t].does = "save", ~Idle(t)' PROVE Saving(t)'
    BY DEF Saving
  <2> DEFINE s == todo[t]
             n == Len(s)
  <2>1. /\ todo'[t] = Tail(s) /\ pc'[t] = "call" /\ ok'[t] = (ok[t] /\ won)
        /\ s \in Seq(Calls) /\ s # << >>
    BY DEF Returns, Rest, BusInv, TypeOK, Idle
  <2>2. /\ n \in Nat /\ n >= 1 /\ Len(Tail(s)) = n - 1 /\ Calling(t) = s[1]
        /\ \A k \in 1 .. n - 1 : Tail(s)[k] = s[k + 1] /\ k + 1 \in 1 .. n
    BY <2>1 DEF Calling
  <2>3. Tail(s) # << >>
    BY <2>1 DEF Idle
  <2>4. n # 1
    BY <2>1, <2>2, <2>3
  <2>5. Saving(t) /\ job[t].id = 0
    BY <2>4 DEF SaveInv, Saving
  <2>6. /\ \A k \in 1 .. n : s[k].op = "save" /\ s[k].board = BoardCount - n + k - 1
        /\ n <= BoardCount /\ BoardCount \in Nat
        /\ ok[t] => \A b \in Boards : b < BoardCount - n => Kept(b)
        /\ pc[t] = "nop" => Kept(s[1].board)
    BY <2>2, <2>5, BoardFacts DEF Saving
  <2> HIDE DEF s, n
  <2>7. \A k \in 1 .. n - 1 : Tail(s)[k].op = "save" /\ Tail(s)[k].board = BoardCount - (n - 1) + k - 1
    BY <2>2, <2>6
  <2>8. ASSUME ok'[t], NEW b \in Boards, b < BoardCount - (n - 1) PROVE Kept(b)'
    <3>1. pc[t] = "nop" /\ ok[t]
      BY <2>1, <2>8
    <3>2. s[1].board = BoardCount - n
      BY <2>2, <2>6
    <3>3. b < BoardCount - n \/ b = BoardCount - n
      BY <2>2, <2>6, <2>8 DEF Boards
    <3> QED BY <3>1, <3>2, <3>3, <2>6 DEF Kept
  <2>9. n - 1 <= BoardCount /\ job'[t].id = 0 /\ pc'[t] # "nop"
    BY <2>1, <2>2, <2>5, <2>6
  <2> QED BY <2>1, <2>2, <2>7, <2>8, <2>9 DEF Saving
<1> QED BY <1>2, <1>3 DEF SaveInv

(* A request: a save leaves the flash of its board like the RAM, and while a *)
(* save is under way there is no other request.                              *)
LEMMA SaveRequests ==
    ASSUME BusInv, OneUser, SaveInv, NEW t \in Users, Request(t)
    PROVE  SaveInv'
<1> DEFINE r == Calling(t)
<1>1. /\ ~Idle(t) /\ pc[t] = "call" /\ pc' = [pc EXCEPT ![t] = "nop"]
      /\ ram' = [c \in Channels |->
                    IF r.op = "set" /\ c = Channel(r) THEN [ram[c] EXCEPT ![r.param] = r.value]
                    ELSE IF r.op = "restore" /\ c \in On(r.board) THEN Unset[c]
                    ELSE ram[c]]
      /\ flash' = [c \in Channels |-> IF r.op = "save" /\ c \in On(r.board) THEN ram[c] ELSE flash[c]]
      /\ UNCHANGED << todo, job, ok >>
  BY DEF Request, At
<1>2. \A u \in Users : u # t => todo'[u] = << >>
  BY <1>1, Alone DEF Idle
<1>3. \A u \in Users : u # t => Saving(u)'
  BY <1>2, SavingUntouched
<1>4. Saving(t)'
  <2> SUFFICES ASSUME job[t].does = "save" PROVE Saving(t)'
    BY <1>1 DEF Saving
  <2>1. r.op = "save" /\ r.board \in Boards /\ Calling(t)' = r
    <3>1. todo[t] \in Seq(Calls) /\ todo[t] # << >>
      BY <1>1 DEF Idle, BusInv, TypeOK
    <3>2. 1 \in 1 .. Len(todo[t]) /\ r = todo[t][1]
      BY <3>1 DEF Calling
    <3>3. r.op = "save"
      BY <1>1, <3>2 DEF SaveInv, Saving
    <3> QED BY <1>1, <3>3, CallingFacts DEF Calling, BusInv
  <2>2. \A b \in Boards : Kept(b) \/ b = r.board => Kept(b)'
    <3> HIDE DEF r
    <3> QED BY <1>1, <2>1, BoardFacts DEF Kept
  <2>3. Calling(t)' = Calling(t) /\ Kept(Calling(t).board)'
    BY <2>1, <2>2
  <2>4. ~Idle(t) /\ UNCHANGED << todo, job, ok >>
    BY <1>1
  <2> QED BY <2>2, <2>3, <2>4 DEF SaveInv, Saving, Idle
<1> QED BY <1>3, <1>4 DEF SaveInv

(* Every step keeps what the saves have done. *)
LEMMA SaveKeeps ==
    ASSUME BusInv, OneUser, SaveInv, [Next]_vars
    PROVE  SaveInv'
<1>1. ASSUME NEW t \in Clients, Command(t) PROVE SaveInv'
  <2>1. t \in Users
    BY UserFacts
  <2>2. ASSUME NEW id \in Named \cup {0}, Save(t, id) PROVE SaveInv'
    BY <2>1, <2>2, SaveBegins DEF Save
  <2>3. ASSUME NEW id \in Named \cup {0}, Restore(t, id) PROVE SaveInv'
    BY <2>1, <2>3, SaveBegins DEF Restore
  <2>4. ASSUME NEW id \in Named, NEW p \in Params, NEW v \in Values,
               GetParam(t, id, p) \/ SetParam(t, id, p, v) \/ Dump(t, id) \/ Trace(t, id) \/ Direct(t, id)
        PROVE  SaveInv'
    BY <2>1, <2>4, SaveBegins DEF GetParam, SetParam, Dump, Trace, Direct
  <2>5. CASE Scan(t)
    BY <2>1, <2>5, SaveBegins DEF Scan
  <2>6. CASE CliToggle(t)
    BY <2>6, SavingUntouched DEF CliToggle, users, at32, SaveInv
  <2> QED BY <1>1, <2>2, <2>3, <2>4, <2>5, <2>6, ZeroParam DEF Command
<1>2. ASSUME NEW t \in Users, Pass(t) PROVE SaveInv'
  BY <1>2, SaveBegins DEF Pass
<1>3. ASSUME NEW t \in Users, Nop(t) PROVE SaveInv'
  <2>1. ~Idle(t) /\ pc[t] = "nop" /\ Returns(t, Accepts(Calling(t), reply[Calling(t).board]))
        /\ UNCHANGED << job, ram, flash >>
    BY <1>3 DEF Nop, At
  <2>2. Accepts(Calling(t), reply[Calling(t).board]) \in BOOLEAN
    BY <2>1, CallingFacts DEF Accepts, BusInv, TypeOK, Replies
  <2> QED BY <2>1, <2>2, SaveReturns
<1>4. ASSUME NEW t \in Users, SendFrame(t) PROVE SaveInv'
  <2>1. ~Idle(t) /\ pc[t] = "send" /\ Returns(t, TRUE) /\ UNCHANGED << job, ram, flash >>
    BY <1>4 DEF SendFrame, At
  <2>2. job[t].does # "save"
    <3>1. todo[t] \in Seq(Calls) /\ todo[t] # << >>
      BY <2>1 DEF Idle, BusInv, TypeOK
    <3>2. 1 \in 1 .. Len(todo[t]) /\ Calling(t) = todo[t][1]
      BY <3>1 DEF Calling
    <3> QED BY <2>1, <3>2 DEF SaveInv, Saving, BusInv, Places
  <2> QED BY <2>1, <2>2, SaveReturns
<1>5. ASSUME NEW t \in Users, Fault(t) PROVE SaveInv'
  <2>1. ~Idle(t) /\ Returns(t, FALSE) /\ UNCHANGED << job, ram, flash >>
    BY <1>5 DEF Fault, At, at32
  <2> QED BY <2>1, SaveReturns
<1>6. ASSUME NEW t \in Users, BuildSync(t) \/ WriteShadow(t) \/ BuildResend(t) PROVE SaveInv'
  <2>1. UNCHANGED << todo, job, ok, ram, flash >>
    BY <1>6 DEF BuildSync, WriteShadow, BuildResend, at32
  <2>2. \A u \in Users : pc'[u] = pc[u] \/ pc'[u] # "nop"
    BY <1>6 DEF BuildSync, WriteShadow, BuildResend, BusInv, TypeOK
  <2> QED BY <2>1, <2>2, SavingUntouched DEF SaveInv
<1>7. ASSUME NEW t \in Users, Run(t) PROVE SaveInv'
  BY <1>7, <1>3, <1>4, <1>6, SaveRequests DEF Run
<1>8. CASE PowerLoss
  BY <1>8, SavingUntouched DEF PowerLoss, SaveInv
<1>9. CASE UNCHANGED vars
  BY <1>9, SavingUntouched DEF vars, users, at32, SaveInv
<1>10. CASE \E t \in Clients : Command(t)
  BY <1>1, <1>10
<1>11. CASE \E t \in Users : Pass(t) \/ Run(t) \/ Fault(t)
  BY <1>2, <1>5, <1>7, <1>11
<1> QED BY <1>8, <1>9, <1>10, <1>11 DEF Next

(* The step that reports a save: its last call returns well. *)
SavedFacts(t, id) ==
    /\ ~Idle(t) /\ pc[t] = "nop" /\ job[t].does = "save" /\ job[t].id = id
    /\ Len(todo[t]) = 1 /\ Calling(t) = todo[t][1] /\ ok[t]
    /\ UNCHANGED << ram, flash >>
LEMMA SavedMeans ==
    ASSUME BusInv, NEW t \in Users, NEW id, Saved(t, id)
    PROVE  SavedFacts(t, id)
<1>1. ~Idle(t) /\ pc[t] = "nop" /\ UNCHANGED << ram, flash >>
      /\ Returns(t, Accepts(Calling(t), reply[Calling(t).board]))
  BY DEF Saved, Nop, At
<1>2. ok[t]
  BY <1>1 DEF Saved, Returns, BusInv, TypeOK
<1> QED BY <1>1, <1>2 DEF Saved, SavedFacts, Calling

(* The named connectors drive servos of the board they are printed on. *)
StaysOnBoard == \A w \in Wirings, id \in Named : BoardOf(DbPhys(w, id)) = BoardOf(id)

-----------------------------------------------------------------------------
(* The theorems. *)

(* The bus model keeps its types when one disciplined client uses it. *)
THEOREM BusTypeCorrect == OneUser => (Spec => []TypeOK)
<1> SUFFICES ASSUME OneUser PROVE Spec => []TypeOK
  OBVIOUS
<1>1. BusInv => TypeOK
  BY DEF BusInv
<1>2. BusInv /\ [Next]_vars => BusInv'
  BY NextKeeps
<1> QED BY <1>1, <1>2, InitInv, PTL DEF Spec

(* What cfg_request accepts is the present value of the servo whose          *)
(* connector was named, for one disciplined client, whatever failed before.  *)
THEOREM AnswersArrive == OneUser => (Spec => AnswersAreOwn)
<1> SUFFICES ASSUME OneUser PROVE Spec => AnswersAreOwn
  OBVIOUS
<1> DEFINE Own == \A t \in Users :
          LET r == Calling(t)
              rx == reply[r.board]
          IN Nop(t) /\ r.op \in Asking /\ Accepts(r, rx) =>
                /\ rx.channel = Channel(r)
                /\ job[t].id # 0 => rx.channel = Phys(job[t].id)
                /\ r.op = "get" => rx.value = ram[rx.channel][r.param]
<1>1. BusInv => Own
  <2> SUFFICES ASSUME BusInv, NEW t \in Users, Nop(t), Calling(t).op \in Asking
               PROVE  LET r == Calling(t)
                          rx == reply[r.board]
                      IN /\ rx.channel = Channel(r)
                         /\ job[t].id # 0 => rx.channel = Phys(job[t].id)
                         /\ r.op = "get" => rx.value = ram[rx.channel][r.param]
    OBVIOUS
  <2>1. ~Idle(t) /\ pc[t] = "nop"
    BY DEF Nop, At
  <2>2. reply[Calling(t).board] = AnswerTo(Calling(t))
    BY <2>1 DEF BusInv, Answered
  <2>3. ForServo(Calling(t), job[t])
    BY <2>1, CallingFacts DEF BusInv
  <2> QED BY <2>2, <2>3 DEF AnswerTo, ForServo
<1>2. BusInv => [Own]_vars
  BY <1>1
<1>3. BusInv /\ [Next]_vars => BusInv'
  BY NextKeeps
<1> QED BY <1>2, <1>3, InitInv, PTL DEF Spec, AnswersAreOwn

(* A direct write or a poll by one disciplined client moves no other servo   *)
(* of the board, unless the last frame to that board was lost.               *)
THEOREM NeighboursUndisturbed == OneUser => (Spec => NeighboursHold)
<1> SUFFICES ASSUME OneUser PROVE Spec => NeighboursHold
  OBVIOUS
<1> DEFINE Hold == \A t \in Users :
          LET r == Calling(t) IN
          SendFrame(t) /\ r.op \in {"direct", "poll"} /\ r.board \notin missed =>
             \A c \in Channels : cmd'[c] # cmd[c] => r.op = "direct" /\ c = Phys(job[t].id)
<1>1. ASSUME BusInv PROVE Hold
  <2> SUFFICES ASSUME NEW t \in Users, SendFrame(t), Calling(t).op \in {"direct", "poll"},
                      Calling(t).board \notin missed, NEW c \in Channels, cmd'[c] # cmd[c]
               PROVE  Calling(t).op = "direct" /\ c = Phys(job[t].id)
    OBVIOUS
  <2>1. /\ ~Idle(t) /\ pc[t] = "send"
        /\ cmd' = [e \in Channels |-> IF e \in On(Calling(t).board) THEN frame[t][e] ELSE cmd[e]]
    BY DEF SendFrame, At
  <2>2. \A u \in Users : u # t => pc[u] = "call"
    BY <1>1, <2>1, Alone, Busy
  <2>3. Calling(t).board \in Boards /\ ForServo(Calling(t), job[t])
    BY <1>1, <2>1, CallingFacts DEF BusInv
  <2>4. c \in On(Calling(t).board) /\ frame[t][c] # cmd[c]
    BY <2>1
  <2>5. frame[t][c] = shadow[c] /\ BoardOf(c) = Calling(t).board
    BY <1>1, <2>1, <2>3, <2>4, OnBoardOf DEF BusInv, Framed
  <2>6. Underway(t, c)
    BY <1>1, <2>2, <2>4, <2>5 DEF BusInv, Obeyed, Underway
  <2> QED BY <2>3, <2>6 DEF Underway, ForServo
<1>2. BusInv => [Hold]_vars
  BY <1>1
<1>3. BusInv /\ [Next]_vars => BusInv'
  BY NextKeeps
<1> QED BY <1>2, <1>3, InitInv, PTL DEF Spec, NeighboursHold
(* Until a transaction fails, the feedback cache of driver_board.c is        *)
(* decoded from servo states only, for one disciplined client.               *)
THEOREM FeedbackStaysPure == OneUser => (Spec => []CacheIsFeedback)
<1> SUFFICES ASSUME OneUser PROVE Spec => []CacheIsFeedback
  OBVIOUS
<1>1. Init => CacheInv
  BY DEF Init, CacheInv, Fetched, Feedback
<1>2. BusInv /\ CacheInv /\ [Next]_vars => BusInv' /\ CacheInv'
  BY NextKeeps, CacheKeeps
<1>3. CacheInv => CacheIsFeedback
  BY DEF CacheInv, CacheIsFeedback
<1> QED BY <1>1, <1>2, <1>3, InitInv, PTL DEF Spec

(* "OK. saved to flash (all boards)": with one disciplined client every      *)
(* parameter of every servo is then in the flash, whatever failed before.    *)
THEOREM SaveReachesFlash == OneUser => (Spec => SavedWhenOk)
<1> SUFFICES ASSUME OneUser PROVE Spec => SavedWhenOk
  OBVIOUS
<1> DEFINE Flashed == \A t \in Clients : Saved(t, 0) => \A c \in Channels : flash'[c] = ram'[c]
<1>1. ASSUME BusInv, SaveInv PROVE Flashed
  <2> SUFFICES ASSUME NEW t \in Clients, Saved(t, 0), NEW c \in Channels PROVE flash'[c] = ram'[c]
    OBVIOUS
  <2>1. t \in Users /\ SavedFacts(t, 0)
    BY <1>1, UserFacts, SavedMeans
  <2>2. Saving(t) /\ Len(todo[t]) = 1 /\ Calling(t) = todo[t][1]
    BY <1>1, <2>1 DEF SaveInv, SavedFacts
  <2>3. /\ Calling(t).board = BoardCount - 1
        /\ Kept(Calling(t).board)
        /\ \A b \in Boards : b < BoardCount - 1 => Kept(b)
    BY <2>1, <2>2, BoardFacts DEF Saving, SavedFacts
  <2>4. BoardOf(c) \in Boards /\ c \in On(BoardOf(c))
    BY BoardFacts
  <2>5. Kept(BoardOf(c))
    BY <2>3, <2>4, BoardFacts DEF Boards
  <2> QED BY <2>1, <2>4, <2>5 DEF Kept, SavedFacts
<1>2. BusInv /\ SaveInv => [Flashed]_vars
  BY <1>1
<1>3. Init => SaveInv
  BY DEF Init, SaveInv, Saving, Idle
<1>4. BusInv /\ SaveInv /\ [Next]_vars => BusInv' /\ SaveInv'
  BY NextKeeps, SaveKeeps
<1> QED BY <1>2, <1>3, <1>4, InitInv, PTL DEF Spec, SavedWhenOk

(* `save <id>` keeps the parameters of the servo it names on every board     *)
(* variant that leaves the named connectors on their own board (the normal   *)
(* and the swapped build do; the purple board does not, which is what the    *)
(* violated run shows).                                                      *)
THEOREM SaveKeepsServoOnItsBoard ==
    OneUser /\ StaysOnBoard => (Spec => SaveKeepsServo)
<1> SUFFICES ASSUME OneUser, StaysOnBoard PROVE Spec => SaveKeepsServo
  OBVIOUS
<1> DEFINE Flashed == \A t \in Clients, id \in Named : Saved(t, id) => flash'[Phys(id)] = ram'[Phys(id)]
<1>1. ASSUME BusInv, SaveInv PROVE Flashed
  <2> SUFFICES ASSUME NEW t \in Clients, NEW id \in Named, Saved(t, id)
               PROVE  flash'[Phys(id)] = ram'[Phys(id)]
    OBVIOUS
  <2>1. t \in Users /\ SavedFacts(t, id)
    BY <1>1, UserFacts, SavedMeans
  <2>2. Saving(t) /\ id # 0
    BY <1>1, <2>1, NamedAssumption DEF SaveInv, Channels
  <2>3. Calling(t).board = BoardOf(id) /\ Kept(Calling(t).board)
    BY <2>1, <2>2 DEF Saving, SavedFacts
  <2>4. wiring \in Wirings /\ id \in Channels /\ Phys(id) \in Channels
    BY <1>1, NamedAssumption, WiringAssumption DEF BusInv, TypeOK, Phys
  <2>5. BoardOf(Phys(id)) = BoardOf(id) /\ Phys(id) \in On(BoardOf(Phys(id)))
    BY <2>4, BoardFacts DEF StaysOnBoard, Phys
  <2> QED BY <2>1, <2>3, <2>5 DEF Kept, SavedFacts
<1>2. BusInv /\ SaveInv => [Flashed]_vars
  BY <1>1
<1>3. Init => SaveInv
  BY DEF Init, SaveInv, Saving, Idle
<1>4. BusInv /\ SaveInv /\ [Next]_vars => BusInv' /\ SaveInv'
  BY NextKeeps, SaveKeeps
<1> QED BY <1>2, <1>3, <1>4, InitInv, PTL DEF Spec, SaveKeepsServo
===============================================================================
