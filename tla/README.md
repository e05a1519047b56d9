# Verification of the Mini Pupper ESP32-S3 firmware

TLA+ models of the control software of the quadruped in `src/main/` and of the MQTT
client library it is built with, the TLC runs that check them and the theorems TLAPS
proves about them.

## 1. The system

An ESP32-S3 drives twelve servos through four AT32 driver boards on one SPI bus.
FreeRTOS tasks share plain `static` C variables; there is no mutex in
`main.c` or `driver_board.c`.

| Component | State | Operations | Talks to |
|---|---|---|---|
| Motion flags and request handlers (`main.c` 59-144, 1219-1366, 1449-1459) | one `int` per motion, `manual8`, `CliMode`, `sg_started`, `started_once` | `toggle_motion`, `reset_all_modes`, `/leg8`, `/js`, `/climode`, `/api/climode` | read by the gait task |
| Gait task (`main.c` 1703-2154, core 1, priority 22) | `pose_x`, `pose_z`, the branch it is in | endless loop: park in CLI mode, else run one branch for one pass | flags, `goal[]`, driver boards |
| Serial console and command line (`main.c` 191-591) | line buffer, `TraceId`, `TracePeriodMs`, `cli_out` | `cli on/off`, `board`, `trace`, `sweep`, `swalk`, `sstretch`, `sjump`, get/set | flags, driver boards, settings |
| Servo numbering and routing (`driver_board.h` 46-93, `main.c` 619-716, `driver_board.c` 122-160) | `g_servo_board`, `offset[]`, `goal[]` | `db_phys`, `servo_board_set`, `offsets_reload`, `/calN`, `/calReset`, `servo_flush` | NVS, driver boards |
| Driver board protocol (`driver_board.c`) | shadow frames, feedback cache, the AT32's pending reply | `sync_write`, `cfg_request` pairs, `direct`, `poll` | called by gait task, httpd and console |
| Stanford trot gait (`stanford_gait.c`) | `sg_ticks`, foot positions | `reset`, `step` | called by gait task and by `swalk` |
| Web joystick (`main.c` 81-93, 1335-1366, 2097-2107) | `js_vx/vy/wz`, `js_last_ms` | store by httpd, read per gait tick | Stanford branch |
| Inverse kinematics (`main.c` 658-716, `stanford_kinematics.c`) | neutral angles | pure functions of floats | `goal[]` |
| Settings and boot (`main.c` 607-617, 1238-1251, 2156-2180) | sliders and their NVS copies | plus/minus buttons, load at boot | everything |
| Web page and wizard (`main.c` 975-1217, 1415-1571, `wizard.html`) | none | page text, JSON API gated by `CliMode` | driver boards |
| MQTT and Wi-Fi glue (`main.c` 594-605, 1624-1701) | `mqtt_client` | connect, subscribe, command to `toggle_motion` | flags (only with `ENABLE_MQTT 1`) |
| MQTT client library (`managed_components/espressif__mqtt`) | client state, outbox | connect, publish, retransmit, keepalive | vendored, unused with `ENABLE_MQTT 0` |
| Host tools (`tools/`, `stanford_controller.html`) | none | plots, stand-alone page | serial port, HTTP |

What is hard here: three or four tasks write the same flags without a lock;
CLI mode is a request for exclusive bus access that the gait task only notices
between passes; decisions are made from recorded state (`pose`, `sg_started`,
`g_servo_board`, `offset[]`) that another task may have changed; settings are
changed in memory and in flash in separate steps.  `PROJECT.json` lists each
hazard at its line.  What would make each component correct: at most one motion
requested, CLI mode honoured, a stopped robot standing (motion control); a
command reaches the joint it was computed for, with that joint's calibration
(routing); a read returns the parameter asked for and a single-servo write leaves
its neighbours alone (driver boards); exact phase order and bounded feet (gait);
settings equal after a restart (settings); a message is sent until acknowledged
and no longer, and its bytes arrive as the packet they were (MQTT).

## 2. Modules

### MotionControl (and MotionMode, MCMotionControl, MotionControl_proofs)

| Model | Code |
|---|---|
| `on` | the flags that are nonzero, `manual8` among them |
| `cliMode`, `sgStarted`, `startedOnce` | `CliMode`, `sg_started`, `started_once` |
| `pose` | `pose_x`, `pose_z`: "stand" is (0, `height`), "neutral" (0, `NEUTRAL_Z`) |
| `legs` | what was flushed to the servos last |
| `pc[t]`, `then[t]` | where the handler of task `t` is, and what it does after `reset_all_modes` |
| `gait`, `running` | where `gait_task` is, and the branch of its pass |
| `timer[t]` | ticks left of a delay or of a pass |
| `settled` | history: CLI mode has been seen |

Each C statement that writes a shared variable is a step of its own, so
`reset_all_modes` is four steps (`ClearFirst` .. `ClearStarted`) and a press, a
console command or the end of a pass can fall between any two.  `h_climode` sets
`CliMode` *before* the reset, `h_api_climode` and `cli on` *after* it; both orders
are modelled.  A branch of `gait_task` ends with `GaitEnd`, which clears a
one-shot's flag and records the pose; only the Stanford branch watches its flag
while it waits.  A pass is one step plus its duration: trajectories are floating
point.

Assumptions.
- *Store order.*  The flags are non-volatile and unsynchronised.  The
  repository has no sdkconfig; ESP-IDF's default is `-Og`, which keeps stores in
  source order, and every loop that waits on a flag calls a function outside
  the translation unit, so the flag is read again.  A chained assignment
  (`Ini=Step=..=0`) is one step: with at most one flag nonzero an observer cannot
  tell.  For the same reason the `if`/`else if` chain is evaluated in one step:
  between two different motions the flags pass through all-clear.
- *Height.*  "stand" and "neutral" differ, i.e. `height` is not 70, and the
  slider is not moved during a run.
- *Time.*  Durations count down in ticks; `Tick` waits until every task whose
  delay is over has acted (`Ready`), so a task is never late, only a handler of
  unknown length ("bus", "tuning") and an idle client may let time pass.  With all
  durations 0 there is no such ordering and every interleaving is explored.

`MotionMode` is the abstract promise: one requested motion or none, replaced only
through none; the legs begin only what is requested at that moment and only after
CLI mode was seen off.  `MotionControl` implements it with `mode` the sole flag
that is on, `active` the branch running and `armed` the point between the CLI
test and the branch selection.

### ServoIds, ServoRouting (and ServoRouting_proofs)

`ServoIds` holds the three wirings as tables and `DbPhys`.  `ServoRouting` follows
a command from the role the IK computes it for, through `goal[]` (by connector,
first `db_phys`) and `servo_flush`'s copy, to the channel (second `db_phys`).

| Model | Code |
|---|---|
| `board`, `svboard` | `g_servo_board` and its NVS copy |
| `offset`, `stored` | `offset[]` by connector, NVS `offset1..12` by channel |
| `goal`, `pos`, `wire` | `goal[]`, the copy in `servo_flush`, the last frame sent |
| `at`, `left`, `via`, `angle`, `frames` | where a pass is, legs left, the connectors read for a leg, `sdeg[]`, boards left to send |
| `pc`, `arg`, `idx`, `sum`, `key` | the handlers of `board`, `/calN`, `/calReset` and their locals |

A command carries the role it is for, the variant under which it was placed (a
history) and the trim added.  The three kinds of pass are the IK branches (leg by
leg in any order, flushing in between), the Stanford branch (all angles, then all
goals) and Ini (centre).  `servo_board_set` is the number, its NVS copy and one
step per reloaded offset; `h_cal` is load, store, key, save; `h_calReset` two
steps per servo.  `PowerLoss` restarts the robot at any moment from what NVS
holds; one NVS write is atomic and does not fail.  The three reads of
`g_servo_board` for one leg or one frame are one step.  `manual8`, the torque
limits and the SCS-to-degree conversion are left out: no property depends on them.

### DriverBoard (and DriverBoard_proofs)

The SPI bus.  A board answers a transaction in the next one, so a configuration
request is followed by a NOP that fetches its answer; the frames of the gait and
of the direct commands fetch whatever is loaded at that time.

| Model | Code |
|---|---|
| `wiring`, `cliMode` | `g_servo_board` (fixed during a run), `CliMode` |
| `shadow`, `fb` | `sh_mode`/`sh_posdd`/`sh_cur`; what `fb_position`/`fb_current` were decoded from |
| `job`, `todo`, `ok` | the command of a task, the `driver_board_*` calls it has left, whether all have succeeded |
| `pc`, `frame` | where it is in the first call, the frame on its stack |
| `cmd`, `ram`, `flash`, `reply` | the AT32 boards (external): what the servos obey, parameters, the answer loaded |
| `missed` | history: boards that lost a frame |

`Request` and `Nop` are the two transactions of `cfg_request`; `BuildSync`,
`WriteShadow` and `BuildResend` fill shadow and frame, `SendFrame` is the
transaction and the decoding of what came back.  `Rest` is what a command does
after a call: a set is read back if it was accepted, a trace that fails polls, the
others go on.  `Fault` is a transaction that `spi_device_transmit` refuses,
`PowerLoss` restarts everything but the flash.

Nothing locks a request to its NOP.  `driver_board.h` asks that the gait be paused
first: `Disciplined` states it (commands wait for CLI mode and for gait_task to be
between passes).  That the code's 50 ms do not achieve it is shown by
`motion_bus`; what holds once it is achieved is the subject of this module.  With
two clients `AnswersAreOwn` fails even so, since the echo check compares only the
parameter: hence `OneUser` in the theorems and one client in the run.

### Walk (and Walk_proofs)

The Stanford gait's static state, stepped by `gait_task` and by the console's
`swalk`, and the joystick's values, stored by httpd while `gait_task` reads them.

| Model | Code |
|---|---|
| `ticks`, `foot` | `sg_ticks`, `foot_z` over the reference height in 48ths of the clearance |
| `legs` | the lifts flushed to the servos last |
| `Stanford`, `CliMode`, `started` | the flags |
| `js`, `last` | `js_vx`/`vy`/`wz`, each the number of the event that stored it; `js_last_ms` |
| `gait`, `fresh`, `stick` | where `gait_task` is in its tick, what it has read |
| `httpd`, `console`, `clock` | the handlers, `run_swalk`, `millis()` |
| `answered`, `silence`, `since`, `byStick`, `switched` | histories |

`Phase`, `Subphase`, `Contact`, `SwingHeight` and `NextLift` are the integer part
of `stanford_gait.c`; a stance foot comes down by `SG_DT/SG_Z_TIME_CONSTANT`, which
is 3/4.  The horizontal motion is floating point and left out.  `TickWrap` stands
for 2^32; 24 does not divide it, and 40 keeps that: the counter wraps in the
middle of a cycle.  `Alone` says that `swalk` begins with gait_task parked and that
nobody leaves CLI mode before it ends.  The code enforces neither: `run_swalk` tests
CLI mode between its ticks (`main.c` 751, 783), when the gait may already be walking
again.  Without `Alone` two tasks step one gait and `Smooth` fails.

### MqttDelivery, MqttClient (and MCMqttClient, MqttClient_proofs, MqttRefinement_proofs)

`MqttDelivery` is the library's promise for one message of QoS 1 or 2: held until
confirmed or given up, a confirmed one has arrived, QoS 2 arrives once.
`MqttClient` follows `mqtt_client.c` and `lib/mqtt_outbox.c`.

| Model | Code |
|---|---|
| `state`, `run`, `bits`, `pinged` | `client->state`, `run`, `status_bits`, `wait_for_ping_resp` |
| `pc` | where `esp_mqtt_task` is; from "switch" to "keepalive" it holds the lock |
| `app` | a call of the application that has begun |
| `sort`, `pending`, `made` | the outbox: type and `pending_state_t`, in the order of the list |
| `id` | `msg_id`, named by the first message that drew it |
| `published`, `dropped` | histories: the events posted, the items expired or deleted by stop |
| `heard`, `part` | histories: the broker's messages given to the application in full, or their first part only |
| `clash` | history: an id was drawn that was still in use |
| `link`, `up`, `down` | the connection and the packets on their way (external) |
| `got`, `holding`, `inbound` | the broker, which keeps the session (external) |

One iteration of the task is `LoopTop`, one case of the `switch` (`Connect`,
`WaitReconnect`, `DisconnectRequested`, one of the `Receive` actions), then
`Resend`, or `Retransmit` and `Release`, then `KeepAlive` or `Refresh`.  Every
write may fail, with the consequence it has at that place: `FailedWrite` aborts
the connection, `Answers` ignores it, `Subscribe` reports it and leaves the item.  The
last two keep the connection when the write only timed out (`Unwritten`).
`Loss` breaks the connection at any moment; what has reached the broker may still
be read, the answers are gone.  Time is left out: wherever the code compares a
timer, both outcomes are possible.  There is one task (a second
`esp_mqtt_client_start` before the first task has run is left out).

Message ids are drawn at random, as in the default configuration
(`MQTT_MSG_ID_INCREMENTAL` off, `lib/mqtt_msg.c` 67-73), so `DrawId` takes a new id or
that of any earlier message.  The outbox looks an item up by its id and takes the first
(`SetPending`, `Initiator`); so does the broker for a QoS 2 message (`HeldId`).  When an
id is drawn that an item, a packet about one of the client's messages or the broker
still uses, `clash` is set.  From then on an answer can remove, report or mark another
message than its own, and `PublishedArrived`, `ExactlyOnce`, `ImplementsDelivery` and
`Drains` say nothing; dropping `~clash` from any of the first three lets TLC find it
violated by two messages of QoS 1 or 2 with one id.  Before a clash ids may repeat, and the
properties hold across it.

A long publication of the broker is given to the application in parts.  If the next part
does not come in time, `deliver_publish` ends with `ESP_OK` and the answer is written
(`ReceiveStalled`): `HeardBeforeAck` therefore says that an acknowledged message was
given in full or up to where it stalled.  In this module the connection then ends; what
the reader makes of the rest of the bytes is `Stall` in `MqttWire`.

### MqttWire (and MCMqttWire, MqttWire_proofs)

The bytes: `mqtt_msg.c` builds a packet in an output buffer, possibly in fragments,
and `mqtt_message_receive` and `deliver_publish` take it apart again from a stream
that arrives in pieces, with an input buffer that may be shorter than the message.

| Model | Code |
|---|---|
| `total`, `offset` | `fragmented_msg_total_length`, `fragmented_msg_data_offset` |
| `wire`, `ready` | the bytes on their way, and how many have arrived (external) |
| `in`, `before`, `pc` | `in_buffer` with its length, `previous_in_buffer_read_len`, where the reader is |
| `event`, `left` | a long publication being handed on, and its bytes not yet read |
| `sent`, `taken`, `clear`, `cut`, `astray` | histories: packets written and received, three of the exceptions below |

What one client writes another reads: the broker is taken to forward the bytes.
`Base` stands for 128, the base of the remaining length, so that a length of two
digits needs few bytes.  `Framed` has four exceptions, each a behaviour of the
code: a fragment enqueued without store leaves its total length to the next packet
(`clear`), a publication that stalls is taken for complete (`cut`), an acknowledgement
whose id has the high bit in both bytes and which is cut between them sets the reader
off its place (`astray`, section 3; about one random id in four has these bits), and a
header that is one or two bytes longer than the input buffer loses its id (`Straddles`),
because the test at line 1328 leaves out the two bytes of the topic's length.
`FailsForCause`, `WithinBuffer` and `Delivered` have the first three (`Untouched`).
`WithinBuffer` is about the reads that are made before it is known what fits.  It needs
a buffer that is longer than the longest fixed header by four bytes, which nine bytes
always are; TLC finds it violated with six bytes and a fixed header of three.

## 3. Runs

| Run | Bounds | Shows |
|---|---|---|
| `motion_safety` | six controls: one of the first flag group, a cyclic, a one-shot, the walk, `/leg8`, the joystick; two tuning motions; untimed | `TypeOK`, `AtMostOneMode`, `GaitStaysParked`, `ImplementsMode` under every interleaving of httpd, console and gait task |
| `motion_live` | a cyclic and a one-shot motion, `swalk`, short durations | `CliTakesEffect`, `StandsWhenStopped`, `OneShotEnds` under fairness |
| `motion_bus` (violation) | real durations in 50 ms ticks, Advance | the 50 ms after CLI mode do not wait for the pass: `HttpOwnsBus` |
| `motion_ramp` (violation) | the same, Mate and Stanford | the ramp is skipped out of a cyclic motion: `RampsFromAway` |
| `routing_trims` | one leg, variants 1 and 2, connector 1 calibrated by one step, one power loss, httpd switches | `TypeOK`, `TrimsFollowServos`, `Settles`, `RoutesCurrent` |
| `routing_switch` (violation) | one leg, variants 1 and 2, console switches | a switch between `goal[]` and the wire misroutes: `WalkUnaffected` |
| `board` | two boards, variant 3, connectors 1 and 5, one parameter of two values, one failed transaction, one power loss, one client | `TypeOK`, `AnswersAreOwn`, `NeighboursHold`, `CacheIsFeedback`, `SavedWhenOk` |
| `board_save` (violation) | two boards, variant 3 | `save <id>` saves another board than `set` wrote: `SaveKeepsServo` |
| `mqtt_session` | a QoS 2 message, then one of QoS 1 or a subscription, with a new id or the same; one message from the broker, two packets under way, one trouble | `TypeOK`, `PublishedArrived`, `ExactlyOnce`, `HeardBeforeAck`, `ImplementsDelivery`; `Drains`, `StopReturns` under fairness |
| `mqtt_wire` | two packets of three sizes, with an id that is a digit in its first byte and one that is in both; an output buffer of 13 bytes, an input buffer of 7, base 8 | `TypeOK`, `WithinBuffer`, `Framed`, `FailsForCause`; `Delivered` under fairness |
| `walk` | tick counter modulo 40, time-out 2 and clock 3, two joystick events | `TypeOK`, `Trots`, `Smooth`, `StickObeyed` |
| `walk_timeout` (violation) | the same with one event | a silent joystick walks straight on: `SilentStands` |

Why the bounds are enough.
- Motion: the code treats the flags of a group alike, so one motion per kind of
  branch and per clearing statement shows what they all do.
- Routing: variant 2 on the servos of one leg is the real table restricted to a set
  it maps to itself, with a fixed servo and a swap.  `MaxTrim` and `MaxRestarts`
  bound the calibration and the power losses; the theorems have none of them.
- Boards: variant 3 exchanges servos of the two boards; connector 1 crosses, and
  every kind of command is given to both connectors.  A pair of transactions sees
  one stale answer at most, so one failure makes every case; values and parameters
  are compared for equality only.
- Walk: one cycle is 24 ticks, so 40 holds a whole one and a wrap at tick 16 of the
  next.  A read of the joystick overlaps at most the stores of one event, begun
  after another was answered.
- MQTT session: the first item of the outbox and one behind it are what
  `outbox_dequeue` tells apart; one trouble with every later answer and
  retransmission is where the protocol differs from a sequence of calls.  One
  message of the broker has QoS 2, the longer handshake.
- MQTT wire: the sizes are a publication that fits both buffers with QoS 0 and straddles
  with QoS 1, one longer than both that is written in two pieces and read in three, and
  one whose topic the input buffer cannot hold; lengths of one and of two digits.  The
  first byte of both ids looks like a digit of the length that goes on; with one id the
  second byte ends the detour, with the other it leads into the next packet.

The violation runs are disagreements with the text that `PROJECT.json` quotes.
`motion_bus`: a pass lasts 320 ms or more at the default period, the client waits
50 ms.  `motion_ramp`: cyclic branches never record a pose.  `routing_switch`: the
console gives `board` without CLI mode and without a lock.  `board_save`: `save`
does not apply `db_phys`.  `walk_timeout`: past `JOY_TIMEOUT_MS` the velocity is
`sgspeed`.

Three disagreements of the same kind are not runs.  The end of a Jump clears a flag
that a second press may have raised again (`main.c` 1932).  With the console among
`Switchers`, a `board` command during a calibration stores the offset of one servo
for another (`main.c` 1260).  A poll decides by the last byte in the buffer whether the
remaining length goes on (`mqtt_client.c` 1284), and that byte may be the first of the
id of an acknowledgement which the connection cut there: if both bytes of the id have
the high bit, the first byte of the next packet is read as a remaining length too,
although the comment there speaks of the bytes that start at the second one.  The run
`mqtt_wire` has such an id; its properties except what follows (`astray`), and without
that exception TLC finds `FailsForCause` violated.

Fairness.
- *MotionControl.*  Each client's handler runs on, `TuneEnd` is reached (a tuning
  run is bounded by `secs` or `reps`), and so does `gait_task`: FreeRTOS time-slices
  tasks that delay, and every loop here delays (`servo_flush` waits 5 ms between
  frames).  Requests are not fair: nobody has to press a button.  `Tick` is strongly
  fair, which only excludes infinitely many requests within one tick.
- *ServoRouting.*  Handlers and `gait_task` are weakly fair; switches, calibrations,
  CLI mode and power losses are not.
- *MqttClient.*  The task, a waiting `stop` and the broker's reading are weakly fair.
  `Retransmit` and `Release` with a packet written are strongly fair: the timer they
  wait for runs on between the iterations, so a condition that is met again and
  again is met once when it has run out.  The application's calls, losses and the
  broker's own messages are not fair.
- *MqttWire.*  The task polls and bytes sent arrive; nobody has to send.

## 4. Proofs

The seven proof modules are checked for all values of the constants under the named
assumptions of the models.

- `TypeCorrect`, `RoutingTypeCorrect`, `BusTypeCorrect`, `MqttTypeCorrect`,
  `WalkTypeCorrect`, `WireTypeCorrect`: the type invariants.  They need to know what a handler holds while it runs
  (`TuningKnown`, `HandlersKnow`, the typing of calls left to do, that
  packets carry ids of messages made, that a length to be asked of the input buffer is
  there).  `WireTypeCorrect` needs `Octets`, i.e. that ids and digits are bytes, and no
  more: it holds also where the reader has lost its place.
- `ParkedInCliMode`: `GaitStaysParked` is inductive with the types.
- `OneModeAtATime` (one toggling task): `AtMostOneMode` alone is not inductive,
  since nothing says that the flags are clear when `Raise` sets one.
  `ModeInv` adds, for httpd inside a handler, which flag groups its reset has
  already cleared; only httpd raises flags, and all other writers clear them, so
  what was cleared stays so (`ClearingPreserves`).
- `ModeRefinement` (one toggling task): each step maps to a step of `MotionMode`
  or a stutter.  Clearing steps stop or stutter (`StopOrStutter`), CLI writes flip
  or stutter (`FlipOrStutter`), and the branch selected is the one requested
  because at most one flag is on (`SelectedIsRequested`).
- `SelfInverse`: the requirement `driver_board.h` 55-56 puts on every variant,
  for all three tables.
- `CurrentCommandsArrive`: every waiting command sits at the connector of its
  role under the variant it was placed under (`PlacedInv`, which no switch
  disturbs); sent under that variant, the second `db_phys` undoes the first.
- `TrimsStayWithServos` (httpd the only switcher): `TrimsInv` states for each
  point of a handler which offsets already agree with NVS; the reload and the
  reset extend an initial segment, a calibration leaves out exactly its connector.
- `AnswersArrive`, `NeighboursUndisturbed` (`OneUser`: disciplined, one client).
  `BusInv` says that at most one task is in a call (`Exclusive`), where in its
  calls it can be (`Places`), that the calls of a command are those of its
  connector (`Addressed`), that between request and NOP the board holds the
  answer to that request (`Answered`), that a board which missed nothing obeys its
  shadow (`Obeyed`) and that a frame being sent is the shadow (`Framed`).  Stale
  answers after a failure are harmless because the next request replaces them.
- `FeedbackStaysPure` (`OneUser`): while nothing has failed, an answer is loaded only
  between the two transactions of the user's own request (`Fetched`), and frames are
  sent between calls.  A failure is what leaves one behind.
- `SaveReachesFlash`, `SaveKeepsServoOnItsBoard` (`OneUser`): `SaveInv` follows a save
  through the boards: those it is done with, and the one it has just asked, hold in
  the flash what is in the RAM as long as every call has succeeded, and nobody writes
  the RAM in between.  For `save <id>` that is the board of the connector's number; it
  is also the servo's exactly on the variants of `StaysOnBoard` (1 and 2), which is
  what separates the theorem from the violated run `board_save`.
- `PublishedHasArrived`: until `clash`, a PUBACK or PUBCOMP under way, and an item marked
  acknowledged, belong to a message the broker has taken.  `ApartInv` is what that
  rests on: as long as no id was drawn that was in use, two messages in use have
  different ids, so the item an answer finds is the one it is about.
- `AcknowledgedWasHeard`: an acknowledgement under way names a message the
  application has been given, in full or its first part (`part`).
- `TakenOnce`: until `clash`, of a QoS 2 message the broker has taken, either the broker still
  holds it, or no PUBLISH of it is or will be under way: it has been released,
  which it can only be after it was marked acknowledged, and after that the client
  sends only PUBREL for it.
- `DeliveryImplemented`: `Spec => ImplementsDelivery`, whose steps are those before
  `clash`.  Under the two invariants above
  (`HonestInv`, `OnceInv`) and `FateInv` (a message that has a QoS and is no longer in
  the outbox was confirmed or given up, and what was has left it for good) every step
  is one of five kinds: nothing for a message of QoS 1 or 2 (`Quiet`), a new message
  (`MakeFate`), items expired or deleted by stop (`DropFate`), a confirmation
  (`ConfirmFate`), an arrival (`ArriveFate`); `AbstractSteps` maps each to a step of
  `MqttDelivery` or a stutter.
- `TrotsAlways`: `Trots` speaks of the lifts flushed last and says nothing of where in
  the cycle they were made.  `FootInv` gives the bound of each foot for each tick of
  the cycle: two ticks on the ground bring any lift below the threshold, so all feet
  are down before a diagonal goes up.  It holds for every `TickWrap`: the first tick
  of the cycle, where a wrap or a reset leads, asks only that one diagonal is down.
- `StickIsObeyed`: `silence` is the age of `js_last_ms` (`Ages`); the values of an event
  are stored before its time, so they are never older than the last answer (`Stored`);
  what has been read since the look at the time is as recent (`Reading`).
- `WalksSmoothly` (`Alone`, `WrapsLow`).  `Alone` leaves out the executions in
  which `swalk` begins under a walk not yet parked or CLI mode is left before it ends;
  `TrotsAlways` has no such hypothesis.  `Lifts` gives the height of each foot for each
  place in its leg's own cycle, exactly in the swing; a wrap leads to the first tick of
  the cycle from anywhere, so it must not happen where a foot is above a third of the
  clearance: `WrapsLow` excludes 6 of the 24 residues of `TickWrap`, and TLC finds a
  jump at 33, which is one of them.  `CounterWrapsLow` checks that 2^32 is none.
  `Turns` says whose turn it is (CLI mode, once it has waited, finds gait_task at the
  top of its loop; a motion requested after it finds `sg_started` clear), and `Footing`
  that whoever walks next either goes on from the lifts flushed last or begins at a
  reset with low feet.

- `PacketsAreFramed`, `FailureHasCause` (`Framable`).  `Framed` speaks of what has been
  handed on, so it says nothing of the bytes under way.  `WireInv` adds them: as long as
  none of the exceptions has happened (`Untouched`), what has not been read is the encodings
  of the packets not handed on, less what the reader has of the first (`Carries`, with
  the place where each packet ends as a witness), and the buffer holds a beginning of
  that packet which suits the place the reader is at (`Reading`).  The lemmas before it
  say what the operators return on such a buffer: `Digits` and `TotalLength` undo each
  other (`ValueOfDigits`, proved with the least counterexample, since both are
  recursive functions), a long publication is written as the same bytes as a short one,
  a header is valid, topic, id and data are found where they were put.  `Framable` asks
  what the protocol does (ids are two bytes and not 0, the remaining length has at most
  four digits) and `Base` between 3 and 128.  Ids with the high bit in both bytes are
  included: `LengthSafe` follows the reader unless it goes on past an acknowledgement,
  which sets `astray`.
- `ReadsStayInBuffer` (`Framable`, an input buffer of nine bytes or more):
  `WithinBuffer` with `WireInv`, which bounds the fixed header by five bytes; up to four
  more are there after the topic's length has been asked for.

Only model-checked: the liveness properties (`CliTakesEffect`,
`StandsWhenStopped`, `OneShotEnds`, `Settles`, `Drains`, `StopReturns`,
`Delivered`), since the prover handles neither fairness nor `ENABLED`.

## 5. Not modelled, and the plan

Left out for good: trigonometry and the horizontal motion of the feet (floating
point), page generation, browser code, line editing, host scripts, the library's
configuration, TLS and event handlers, MQTT 5 (the default configuration leaves
`MQTT_PROTOCOL_5` undefined).

What would come next:
1. `Settings`: sliders, NVS copies with failing writes, restart.  Its hazards are
   listed; no text of the repository says what should happen, so its properties
   would be the modeller's.
2. A composition of `MotionControl` with `DriverBoard`, so that `HttpOwnsBus` becomes
   a statement about frames and `Disciplined` a consequence of waiting for the pass.
3. The MQTT glue with two toggling tasks (`Togglers = {"httpd", "mqtt"}`), in which
   `AtMostOneMode` fails.
