# Project Hawk: specification and proofs

Project Hawk is a quadcopter flown from an Android phone over the Internet. An
Android application (`src/remote/android`) reads a gamepad and talks to a server on
a Raspberry Pi (`src/drone/rpi`): commands such as ARM and DARM through TCP, the
sticks through UDP. The server turns the sticks into a PPM signal, which a MultiWii
flight controller (`src/drone/arduino`) reads as if it came from an ordinary radio
receiver.

This directory holds TLA+ models of the three programs, the TLC configurations that check
them, and TLAPS proofs of their main properties. File names below are relative to
`src/drone/rpi`, to the Java package directory and to `MultiWii_2_4/MultiWii`.

## 1. Inventory

| Component | State | Operations | Talks to |
|---|---|---|---|
| Remote controls (`RemoteState`, handlers of `MainActivity`) | sticks, gain, throttle platform, pilot arming, buttons, flight mode | gamepad, button and preference handlers | the network layer (`setUDPPayload`) |
| Remote network layer (`NetworkManager`, `TCPClient`, `TCPListener`, `UDPClient`) | `connectionStatus`, queue of 1500 messages, the objects of the last attempt, which client has port 6000 | connect, disconnect, key press, stick move; one AsyncTask each for sending and listening, one scheduler for UDP | the server; the UI thread |
| HAWK packets (`hawk-packets.c`, `Packetizer.java`) | the byte stream of a connection | packetize, cut 31 bytes, look the type up | TCP |
| Server threads (`network_utils/connection.c`) | `connected`, `connection_count`, `remote_fd_tcp`, thread handles | accept, create and join three threads per client; TCP reader; UDP reader | the remote (TCP, UDP port 5000); all of the below through globals, without a lock |
| Command actions and state (`hawk-actions.c`, `drone_utils/state.c`) | `drone_state`: ARMED and eight channels | ARM, DARM, LAND, TELE (TCP); STM (UDP) | called by the TCP and UDP threads |
| PPM encoder (`drone_utils/ppmer.c`) | `ppm_factory`: widths, ring of three waves, `update_time` | `init`, `update`, `update_channels` (a thread) | pigpio, the wire |
| Receiver (`RX.cpp`) | `rcValue`, edge counter | `rxInt` (an interrupt), `readRawRC` | the wire; `loop` |
| Radio and arming (`RX.cpp`, `MultiWii.cpp`) | `rcData`, its filter, MSP overrides, stick command, boxes, `f.ARMED`, `f.OK_TO_ARM`, `calibratingG` | `computeRC`, the radio branch of `loop`, `go_arm`, `go_disarm`, `setup` | the receiver, MSP, the motors |
| Settings (`EEPROM.cpp`) | `conf`, `global_conf`, in RAM and in the EEPROM | boot, defaults, write, trims, calibrations, MSP | `loop`, MSP |
| Serial protocol (`Serial.cpp`, `Protocol.cpp`) | a ring each way, the state of the parser, `inBuf` | two interrupts, `serialCom`, `evaluateCommand` | a ground station; settings, radio |
| Battery report (`packetizer.c`, `i2c_reader.c`, `TCPListener.processPacket`) | one static packet | answer to LAND | TCP, the I2C sensor |

Not part of the project's own logic: MultiWii's configuration GUI, `build/` (generated),
`auth/ssl.c` (an example that is not built), `dialup.sh`, `PPM.py`, the Android views,
schematics and the paper.

**What is hard.**
The server runs four threads on plain globals; the remote runs the UI thread and three
more per attempt to connect, and an attempt may begin before the last has finished.
Datagrams are lost and late; TCP cuts the stream anywhere; a client vanishes at any
time, also while the drone flies. The output repeats its last frame whatever the
server does. The controller knows a channel by counting edges, filters what it counts,
and may restart in flight; its settings are written a byte at a time. Arming is the
business of three parties, each with a flag of its own. `PROJECT.json` lists each hazard
at its line.

**What makes each part correct.**
- Controls: what the client with the port sends is what the controls say; arming needs two
  hands; the throttle comes down.
- Remote: a command is sent once; the status tells the truth; one sender; a disconnect
  completes.
- Packets: only what was sent is executed, once, in order; what was sent is executed.
- Server threads: one client at a time; the next is accepted only when nothing of the
  last is left; the slot is always given back; a hang-up always ends the session.
- Actions and state: armed only while there is a thread that will disarm; the sticks
  move only for a client that has armed.
- Encoder: what is still to play exists (it does not always); nothing leaks; every channel
  is sent with its width, each frame ends in a gap and is given its time.
- Receiver: no channel is taken for another, a fault lasts until the next gap, and no
  width is stored behind the array.
- Radio and arming: armed on frames that say so, calibrated; disarmed when told to.
- Settings: what a torn write leaves does not fly; what flies is what is saved.
- Serial protocol: after a fault on the line every request is executed again, as it was sent.
- All together: the motors turn only when the pilot has asked for it, and stop when he
  says so.

## 2. Modules

| Module | Models | Role |
|---|---|---|
| `DroneServer` | server threads, actions, state, `update_channels` | one action per access to a shared global or system call |
| `DroneSession` | what the server promises | abstract specification; `DroneServer!RefinesSession` |
| `PpmEncoder` | `init` and `update`: wave ring, pulses, sleep | |
| `HawkStream` | TCP framing and lookup | |
| `Remote` | the remote's network layer | |
| `RemoteControls` | `RemoteState` and the handlers | |
| `PpmReceiver` | `rxInt`, `readRawRC`, and the wire | |
| `FlightController` | `computeRC`, boxes, arming, gyro calibration | |
| `Settings` | the two settings blocks, their EEPROM, and all that changes them | |
| `SerialProtocol` | the serial rings, MSP's framing, the lengths of replies | |
| `HawkFlight` | the chain from the gesture to the motors | extends `RemoteControls` with short forms of the others |
| `MC*` | | constants for TLC |
| `*Proofs` | | theorems |

### DroneServer
`main`, `tcp`, `udp`, `ppm` are the program counters of the main thread and of the three
threads of a connection; a worker is `"off"` before its `pthread_create` and after its
`pthread_join`. The globals keep the code's names. A step makes at most one access that
another thread can see (the stores of `state_init` and `action_update_axes` and the
copies of `update_channels` are one step per channel), so every interleaving the
program order allows is a behaviour. The C program has data races; the steps are its
accesses in program order, which is what the build makes of them: `CMakeLists.txt` and
the cached build type ask for no optimisation. `conn`,
`inbox`, `backlog` and `udpq` are the kernel's queues. The listen queue, not the
server, completes a handshake (`Connect`); `Accept` takes the oldest connection. An RST
is treated like a FIN. The answer to LAND is a step of its own, `send_tcp_packet`, which
waits while the client has not read the last one (one unread report fills the socket's
buffer here), and goes on when the client reads or goes away: the code does not look at the
result; pigpio, whose initialisation catches the signals of
the process, ignores SIGPIPE. `gpioInitialise` and `malloc` are assumed to succeed.
`armedHere` and `late` are history variables: ARM was executed for this connection;
frames sent since ARMED was last cleared.

### DroneSession
Seven variables and no threads: idle, serving, closing; armed only in a session;
sticks move, and frames are built, only in a session whose client has armed; after a
disarm at most one more frame.

### PpmEncoder
`update` is split where time matters: send the wave (lines 57 to 83), compute the sleep
(85 to 91), begin it (93), wake, stamp, delete. Time may pass between any two of them, and
the sleep is relative: it begins when it is called, however long ago the clock was read.
pigpio is a set `live` of waves and the chain of those it has still to play, each
with its length: in mode REPEAT_SYNC a wave sent waits behind the last one sent, takes over
at the end of a pass of it, and is repeated until the next. `left` is what is left of the
pass on the wire. `cut` says that a wave of the chain was deleted; what pigpio puts out from
then on is not followed, and the rest of `update` is.
The pulses of a frame are a function of the widths and of the memory behind the
array, because line 63 reads it. `clock` and `update_time` are the microsecond fields;
`since` is a history of the time since the last stamp.
`DroneServer.update` abstracts the whole call to one step.

### HawkStream
A packet is 31 bytes on the wire (the packet and `println`'s newline). `recv` takes what
is there, up to 31 bytes; the bytes are abstracted to whether the buffer starts with
`HAWK` and which letters of the type it holds.

### Remote
State by attempt: where its TCPClient, TCPListener, socket, UDP socket and sender are.
`attempt` counts `startConnection`; NetworkManager keeps only the objects of the last.
A command is the number of its key press. `Crash` is an exception nobody catches: the
null `udpSocket` in `closeSocket`, the null `udpClient` before the first connect, the null
reader of a listener whose socket is not connected. Left out: the wording of packets, the
views, the report, an unknown host. Every submitted task is assumed to run.
`getAxesPacket` always builds a packet: nothing in the code sets the `armingStatus` it
tests.

### RemoteControls
Everything runs on the UI thread, a handler at a time. Raw axes are in thousandths and
`getAxes` does what `setAxes` does to them; the trigger adds to the platform, so the throttle
sent goes up to 2500. `menu` says that `MenuActivity` is in front and gets the pad's events;
`held` is what the fingers do, `buttons` what `RemoteState` believes, and `missed` the
releases the menu got. `client` is the UDPClient that NetworkManager knows and `payload` the
packet of the one that has port 6000. They are the same while `client` is `"bound"`. A
`startConnection` without a `closeConnections` before it (an attempt that failed, or a
connection that dropped) makes a client that finds the port taken (`"lost"`): its sender dies,
`setUDPPayload` writes to it all the same, and the old client goes on with the packet it has.
A handler that needs a client before there is one, and the closing of a client without a
socket, end the app (`Crash`), which is then started again. Preferences saved before the start
are not applied, as the code does not read them then.

### PpmReceiver
A state of the wire is the interval between two of its edges; `elapsed` is the time
since the last edge heard, negative when an edge was made up in the interval. `Edge` is
the interrupt; `LoseEdge`, `Glitch`, `Silence` are faults of the line. A fourth is an
interrupt inside an interrupt, which `sei()` allows: `NestedInRead`, `NestedInWrite` and
`NestedAfter` are the places where it can come, from before `last` is read (a value torn
between its two bytes included) to between the test of `chan`, its use as an index and its
increment. A store with an index behind `rcValue` sets `stray`; what it destroys
is not followed. `rcChannel` is the order of `config.h`, `WireOrder` that of `ppmer.c`.

### FlightController
An action is an iteration of `loop` with the `computeIMU` that ends it: `RcPass` when
`currentTime` has passed `rcTime`, `TaskPass` when it has not (it is disabled once no
calibration is left, as it then changes nothing that is modelled). The interrupt, MSP and
a restart come in between. Two channels carry widths, the throttle and the one of the
arm box; the other sticks are the command they are held in. `ready` stands for
`f.ACC_CALIBRATED && !f.BARO_MODE`, which may change at any pass. `FAILSAFE` is not
compiled in (`config.h` has it in a comment).

### Settings
A block is a function from cells to bytes; of the bytes of `conf` six stand for all (two
single settings, the two bytes of a trim, a switch, the checksum), of `global_conf`
three. `avr-libc`'s `eeprom_write_block` writes upwards in some versions and downwards in
others, so `Write` takes either. Nothing else of the loop happens while a block is
written, as the library waits for the EEPROM.

### SerialProtocol
The station's stream is one frame after another; a byte carries, for the properties only,
which request it ends. `serialCom` takes one byte a step, as its loop does, so that both
interrupts come in between two bytes; the calls after a frame (`cc = 0`) only end an
iteration. A size above 64 leaves `c_state` where it was, because `continue` skips its
store. `inBuf` is kept as far as the longest request. Of the replies there is only the
number of bytes that wait (`tx`), modulo the ring, whose head nobody stops at its tail.
`ReplyLength` is the switch of `evaluateCommand` as `config.h` compiles it; what the
commands do is in `FlightController` and `Settings`.

### HawkFlight
The module extends `RemoteControls`, which is the remote itself; `FlightSpec` is the chain's
specification, `Spec` the remote's. What is sent is the packet of the client that has
the port, also when NetworkManager knows another. The server is its ARMED flag, the
channels, and the stores its two threads have still to do. The PPM thread tests ARMED once
(`BeginFrame`), copies a channel at a time (`CopyChannel`) and then sends (`update`): a
frame may mix two packets, and may be sent after a DARM. The wire repeats `frame`; the
controller is what it goes by (`rcValue`, after the filter, one pass late: `low`), the
box and its ARMED. `asked` is a history: has the pilot ever made the arming gesture, or
asked for a throttle above the lowest. A channel that was never set is sent as a width
below `GAP`, which is an hour of silence inside the frame (`wire = "stuck"`); pigpio may
also refuse it.

## 3. Runs

| Run | Question | Bounds |
|---|---|---|
| `server` | do the invariants and the refinement hold in every interleaving; does a hang-up free the server, does DARM disarm it, does ARM start the output? | one client that comes back any number of times, also while the threads of its last connection are still being joined; all four commands, one channel, one datagram, one unread command and one unread report at a time |
| `ppm_encoder` | do the ring, the pulses and the sleep work? | the real ring, channels and frame (3, 8, 300, 20000), 4 wave ids, a second of five frames, at most 5 ms a step, two stick positions, two heap contents; any number of frames |
| `stream` | can a cut stream be misread? | three packets, four commands, every cut |
| `remote` | do overlapping attempts corrupt the queue, the status or the senders; does a disconnect complete? | two attempts, three presses, a queue of two, two stick positions |
| `controls` | is what is sent what the pilot does? | one control moved at a time, three keys (a thumb, SELECT, START), two preferences, gain 1 to 2, throttle 1000 to 1002 |
| `receiver` | does a stick reach the loop under its own name, and only there? | two frames of eight different widths, one with a throttle of 2500; two faults, of which a nested edge comes 4 us late and tears the bytes of `last` one way |
| `flight_controller` | when does the craft arm and disarm? | three radio frames, one override, two settings of the box, 6 gyro readings (512), a command held for 1 pass (20) |
| `hawk_flight` | do the motors follow the pilot? | throttle down or up, SELECT and the two gestures, one datagram under way; what the pilot does is bounded by `PilotBound` |
| `settings` | what do torn writes and overlapping calibrations leave? | trims -2, 0, 2; two settings by MSP; two failures of power |
| `serial` | does the parser recover from a fault? | two requests, one with data; one fault of any kind at any byte, seven values for a changed one; a ring of 3 |

Two runs are violated; each states what the repository says of itself.

| Run | Says | Shows |
|---|---|---|
| `wave_cut` | "it was necessary to wait for two cycles to pass before resetting the memory for the particular train" (`disertation.tex:158`) | line 104 of `ppmer.c` deletes the wave of two sends before, whatever the wire has played by then; frames may be longer than the 20 ms between two sends, and an update may be late |
| `disarmed_stands` | "Drone disarmed" (`hawk-actions.c:60`) | the server is disarmed, the last frame is repeated with the arm switch on, and the motors stay armed |

**What the passing runs say in a sentence each.** The server's four threads and a client that
comes back keep the invariants `QuiescentAccept`, `KeepsServing`, `ArmedIsAttended`,
`OneLateFrame`, `SticksMoveOnlyAfterArm`, and implement `DroneSession`. `HangUpFreesServer`,
`ArmStartsOutput` and `DisarmTakesEffect` hold under fair threads, the last for a client that
goes on reading its reports. The encoder leaks no wave (`RingOwnsWaves`), sends each width
(`FrameCarriesWidths`), leaves a gap the receiver finds although it computes it from the wrong
words (`GapSynchronises`), and sends no frame before the one before it has had its 20 ms,
unless the second has changed (`FullWindows`). A cut stream loses packets only where it is cut
and invents none (`LostOnlyWhenCut`, `OnlyWhatWasSent`). The remote sends a command once, to
one connection (`CommandsSentOnce`). What the client with the port sends is what the controls
say (`PayloadCurrent`), arming takes the button (`ArmsWhileHeld`), and the throttle comes down
(`PlatformComesDown`). The receiver never reads one stick for another (`NoCrossTalk`),
recovers at the next gap (`Resynchronises`, `CountsAgree`), and after one fault has stored
nothing behind its array (`StoresInside`). The filter follows (`FilterFollows`), one bad frame
moves no switch (`SpikeMovesNoSwitch`), the craft arms only on a run of frames that say so
(`ArmsOnFrames`), never in a calibration (`ArmedIsCalibrated`), and a radio that says disarm
is heard (`DisarmHeard`); MSP's override ends after seven passes (`OverrideEnds`). Together:
motors and throttle only by the pilot (`MotorsOnlyByPilot`, `ThrottleByPilot`), and off when
he says so, his client has the port and the server passes it on (`StopsMotors`). A torn write
of up to two changed bytes is never taken for settings (`TornIsCaught`), what flies is what is
saved (`FliesWhatIsSaved`), a start comes to its end (`BootCompletes`). After a fault on the
serial line every request is executed as it was sent, from some time on (`Recovers`).

**Where the code disagrees with a document or with itself, beside those runs.** These are in
the models as the code has them, and the properties above are stated so that they hold:
- an ARM that comes before the PPM thread's first test of ARMED, or with a DARM between the
  tests of its two loops (`ppmer.c:112` and 115), ends that thread: the drone is armed for
  ever and no frame is sent, where `disertation.tex:325` says that it becomes operational.
  The remote sends what was queued before the connection as soon as it is made, so an early
  ARM is an ordinary case;
- four silent seconds end the UDP listener for the rest of the connection
  (`connection.c:166`), where `disertation.tex:215` has it wait for a TCP message;
- a second client is not refused (`disertation.tex:215`), it waits in the listen queue;
- a packet in two segments is lost (`LostOnlyWhenCut`), where `disertation.tex:190` asks
  for reliable commands;
- a frame is not 20 ms long, as line 63 of `ppmer.c` adds the wrong words: with zeroes behind
  the array and the sticks at rest it takes 25 ms, and the wire falls behind by a quarter of a
  frame with each one sent, until a wave is deleted that has not been played (`wave_cut`);
- a connection that drops, or an attempt that fails, does not close its UDPClient. The next
  attempt makes one that cannot bind the port (`UDPClient.java:42-51`), NetworkManager gives
  the controls' packets to that one (`NetworkManager.java:27-46`), and the old one goes on
  sending what the controls said before the retry, for good: a disarming gesture no longer
  reaches the drone. `PayloadCurrent` and `StopsMotors` therefore speak of `client = "bound"`
  only;
- an edge nested in `rxInt` when an earlier fault has left the count at 11 can store a
  width behind `rcValue`, as the test of `chan` and its use as an index are apart
  (`RX.cpp:288` and 289); one fault alone cannot (`StoresInside`);
- the answer to LAND is written by the TCP thread (`connection.c:126`), and a client that reads
  no reports holds up its own DARM;
- across a change of the second the sleep is up to a second too long (`ppmer.c:90` says
  it is the remaining time);
- an override by MSP lasts seven passes, 140 ms, and not the second of
  `Protocol.cpp:272`, as it is counted down once for each channel;
- serialCom goes on with 72 bytes waiting to be sent and says that this is "enough"
  (`Protocol.cpp:196`), but nobody asks for room after that, and MSP_SERVO_CONF's reply has
  62 bytes, MSP_PIDNAMES' 53: the head of the ring passes its tail, and the replies that
  waited are lost (`MultiWiiConf.java:1190` asks for few at once "Because of checksum error");
- a size of more than 64 does not end a frame: the next byte is taken for the size, where
  `Protocol.cpp:212` says IDLE;
- a calibration of the accelerometer resets the trims in RAM (`change.txt:1487`), and
  the next start brings the saved ones back.

**Why the bounds are enough.** A client that may connect again while its last connection's
threads are being joined is a second client to the server, which identifies none; the model
returns to its idle state, so TLC covers any number of sessions. One datagram may be held by
the thread and another be queued, enough for one to outlive a session. One channel is enough
for the order of ARMED and the stores; the proofs cover any number of clients and channels,
and `HawkFlight`, with two, has the torn packets and frames. Four wave ids are one more than
the ring holds; the chain needs no bound, as it holds only waves that exist. A second of five
frames has a frame in every position to the change of the second, in steps of 5 ms (`wave_cut`
has the real one). Three packets let the reader lose a boundary, cross one and regain it. Two
attempts are what it takes for two to overlap. Two faults are one and one that comes before
the next gap has made it good. `PilotBound`, an action constraint of `hawk_flight`, keeps
SELECT down once it is (`controls` lets it go), and lets a pilot who has both armed and
lifted, for whom the two invariants no longer say anything, only descend and disarm, with the
client he has; one who has done at most one of the two does anything. It never closes the
client, which only stops it sending, as `Send` may stop by itself, and keeps the controls of a
client that has lost the port, as no move of theirs reaches a packet (`controls` does both).
Six gyro readings are three iterations, enough for a calibration to be begun, to be under way
and to end between two passes of the radio branch. The filter's window is its real length. Two
failures of power are one in a write and one in the write of the defaults that follows it; the
six cells of `conf` are what the checksum, which is a sum, can tell apart. One fault on the
serial line is enough to put the parser at any place of the stream with any size; a second one
would begin from such a place again. The proofs cover any value of the constants for the
modules that have them.

**Deadlock** is checked where the environment never stops, and off for `stream` and
`remote`, whose inputs are bounded and where the application may have crashed.

**Fairness.** Server: weak fairness of each thread, which the scheduler gives; `recvfrom`
always returns, with a datagram or after four seconds. Of the clients `DisarmTakesEffect` has
in its premise that they read their reports, and nothing else is assumed. Remote: the
AsyncTasks and the callbacks on the UI thread run; nothing is assumed of the user, and a
listener polls until the status changes. Receiver: there is always another edge, as pigpio
repeats its frame. Controller: a radio pass comes again and again. Settings: the controller
runs when it has power. Serial: the station goes on asking, the loop calls `serialCom`, the
UART sends. `HawkFlight`: the remote sends, the wire repeats, the loop turns; no store of
`state_init` is assumed to come; `StopsMotors` and `DisarmedStands` add in their premises that
the server's threads have not ended (`ThreadsRun`) and that of the datagrams sent again and
again some arrive (strong fairness). `PlatformComesDown` has in its premise a pilot who goes
on pressing the D-pad down.

Every property of a passing run has a mutant of the code (a missing reset, a dropped
join, an off-by-one, a swapped order) under which TLC finds it violated; mutants stand next to the
definitions they change, named `<definition>_<what changed>`.

Of the type invariants only that of `DroneServer` is a property of a run; those of the modules
with proofs, and of `RemoteControls`, are theorems (`TypeCorrect`), and those of
`SerialProtocol` and `HawkFlight` (`FlightTypeOK`) describe the state.

## 4. Proofs

All for every value of the constants under the named assumptions.

| Theorem | Says |
|---|---|
| `DroneServerProofs`: `TypeCorrect`, `AcceptsWhenQuiescent`, `ServerKeepsServing`, `AttendedWhileArmed`, `AtMostOneLateFrame` | the invariants of `server` |
| `DroneServerProofs`: `Refinement`, `SticksAfterArm` | `Spec => Session!Spec`; the action property |
| `PpmEncoderProofs`: `NoWaveLeaks`, `WidthsAreCarried`, `GapIsFound`, `WindowsAreFull`, `TypeCorrect` | ring, widths, gap and time |
| `HawkStreamProofs`: `TypeCorrect`, `NothingInvented`, `WholePacketsExecuted` | nothing executed that was not sent; nothing lost unless cut |
| `RemoteProofs`: `TypeCorrect`, `CommandsOnce`, `StatusOwned`, `AtMostOneSender` | the invariants of `remote` |
| `PpmReceiverProofs`: `TypeCorrect`, `CountsAlign`, `SticksNotMixed`, `OneFaultInside` | the invariants of `receiver` |
| `FlightControllerProofs`: `TypeCorrect`, `CalibratedWhenArmed`, `FilterIsNear`, `OverridesEnd`, `SpikesMoveNothing`, `ArmingTakesFrames` | the invariants of `flight_controller` and its action property |
| `SettingsProofs`: `TypeCorrect`, `SavedIsFlown`, `TornWriteIsCaught` | the invariants of `settings` |
| `HawkFlightProofs`: `TypeCorrect`, `PacketIsCurrent`, `GestureTakesSelect`, `FlightIsPilots` | the remote's types, packet and gesture; the chain implements the remote's `Spec` |
| `HawkFlightProofs`: `PilotStartsMotors`, `PilotLifts` | the motors start, and their throttle rises, only at the pilot's gesture |

**Server.** None of the invariants is inductive. `ThreadsJoined` ties the program counters of
the workers to that of the main thread; `SlotCounted` says whose slot it is at each point;
`ConnectedTold` says that only the TCP thread clears `connected`, on its way out; `ArmedHere`
says who may act on an ARM (a UDP thread in its stores, a PPM thread in a frame, also after
ARMED was cleared); `FrameLicensed` says a frame under way was begun while armed or is the
first since. Without `ConnectedTold`, for example, a new session might begin closed, and
without `ArmedHere` a late store could outlive its session. The refinement maps `phase` from
`main` and `connected` and cites the same invariant.

**Encoder.** The ring's invariant ties its slots to pigpio's waves, for a ring of any size;
nothing is proved of the chain, where the code does not keep what it should. For the
time, `ClockAhead` says that for a frame after the stamp the clock is ahead of `update_time` by
the time since, or has wrapped and is behind it; `SleepCovers`, that while the second has
not changed what is left to sleep makes up what the window still lacks, from the reading
of the clock to the waking, however much time passes between the two. They need a frame to be
shorter than a second.

The gap needs an induction over the channels. The library's rules for that take an operator,
which no backend can instantiate, so `NaturalsByStep` has it for a set, from the
well-foundedness of `<` (`NatLessThanWellFounded`, `WFMin`); `SumsExist` says that the
recursive function of `Micros` is what its equation says, `MicrosBounded` that what it adds up to
is at most a largest word for each channel. `GapIsFound` has a hypothesis about what is read
behind the array, which no code fixes: no word is wider than `most`, and as many as there are
channels leave 3001 microseconds of the frame (`WordsAtMost`; 2124 for eight channels in
20 ms, and the run's instance has it with 2000). Other words there can make the gap
wrap, as line 63 reads memory that is not its own.

**Stream.** Each executed packet lies behind the read position, and a position inside a
packet means that packet is in `cut`; with the fact that every prefix of a type the
remote sends looks up that type, both properties follow.

**Remote.** `Fresh` (no objects before an attempt) and `OneBound` (one holder of the port)
give the sender; `SentBefore`, `SentApart` and `InOrder` say that the queue holds later
presses than every wire, that the wires share none, and that each increases.

**Receiver.** Once synchronised, an edge finds the counter at its place and nothing elapsed;
the stored width is then the one sent, and `rcChannel` and `WireOrder` are each other's
inverse on the names. For `StoresInside` the invariant bounds the count before the first
fault: it is at most one ahead of the interval on the wire, so at most nine. One edge inside
another moves it on by one or two, and the last index that passes the test is 11; it takes a
fault before to bring it that far.

**Controller.** Armed is calibrated because arming, stick commands and reads are in one pass,
in this order. The filter is near because its two tests are made one after the other on a
value that is at most 2500; the unsigned difference is the case that wraps. An override's
count is at most 50 less 8 for each pass since. Because it is near, the mean of four that
three equal values dominate stays in their class (`SpikesMoveNothing`). A craft that arms by a
switch does so a pass after that switch was set, hence `OptionOfBox`: the option is that of a
box setting and of the filtered values it was read from.

**Settings.** The invariant is the types and two facts: `Writing` says that in a write each
byte of the EEPROM is the old or the new one, and the new one where the write has been;
`Saved` says that the loop runs on blocks that pass, and which of them RAM still has. With two
changed bytes, what is neither block has one of them new: its sum differs from the old block's
by the change of one byte, and from the new one's by the change of the other. As neither is 0
modulo 256, the checksum, old or new, does not fit. (With three, it may.)

**Controls.** `PayloadCurrent` is inductive: while NetworkManager knows the client that has
the port, what a handler changes without renewing the packet is the barometer's switch and
nothing else, and `"bound"` is never reached but with an empty packet. The gesture needs that
a button which is set is down, or that the menu got its release (`Pressed`). For the types,
that the trigger is never negative.

**The chain.** Nothing that is under way before the gesture is anything but the switch off or
a channel never set (`Passed`; `Low` for the throttle), in the stores and the copies of a
frame as well, however they mix, and for an old client's packet as for a new one's (`Flows`: a
frame is begun only while the wire flows); the controller, which takes the switch for set at
power-up, takes the throttle for half open until it hears of both (`Heard`), and so never sees
the switch set and the throttle low. That needs a frame with both channels, hence the
exception of `MotorsOnlyByPilot`. For the throttle, the two programs must agree on what is
low: `PilotAssumption` has the remote's lowest platform at most `MINCHECK` (1000 and 1100 in
the code).

**Only model-checked:** what must eventually happen, as liveness under fairness is beyond the
prover: `HangUpFreesServer`, `DisarmTakesEffect`, `ArmStartsOutput`, `DisconnectCompletes`,
`Resynchronises`, `DisarmHeard`, `PlatformComesDown`, `StopsMotors`, `BootCompletes` and
`Recovers`. `SerialProtocol` has no other property, and no theorem. Every safety property of a
passing run is a theorem.

## 5. Plan

Done: all components the inventory names but the battery report, and their composition.
What is left, in this order:

1. `HawkSystem`: `Remote`, `HawkStream` and `DroneServer` composed, to relate a key press to
   the session it is executed in.
2. `HawkPacket`: building and parsing of STM parameters as functions checked against each
   other, and the battery report.
3. The flight modes' flags and altitude hold of `loop`, in `FlightController`.
4. A proof of the types of `SerialProtocol` and `HawkFlight`, and of what the short forms in
   `HawkFlight` keep of `DroneServer` and `FlightController`.

## 6. Not modelled, and why

- `destroy()` is unreachable: `start_server` does not return (`ServerKeepsServing`).
- `read_tcp_packet_params` is passed around and never called.
- Descriptors, I2C and the executor's pool are resources the models do not count.
- A client that disappears without FIN or RST: the code has no timeout for it, so nothing
  is promised, and `HangUpFreesServer` starts from the FIN.
- The battery report and packet text: formatting, and one read of a sensor.
- The controller's attitude estimation, PID and mixing (`IMU.cpp`, most of `Output.cpp` and
  `Sensors.cpp`): fixed-point numerics on a continuous world; what makes them correct is
  the craft's stability, which a finite instance does not show. Half of those files is for
  sensors and aircraft that `config.h` does not select.
- `LCD.cpp` and `GPS.cpp` are not compiled in this configuration, nor are the failsafe,
  the other receivers, in-flight calibration, permanent logging and profiles.
- What a frame that was never sent does. MSP's check is eight bits of exclusive or, and a
  fault in a size makes a frame of any stretch of the stream; one in 256 passes, and TLC
  finds it. So no property says that only requests are executed, and only that it ends.
  Nor is there one about a frame shorter than its command: `s_struct_w` then copies what an
  earlier frame left.
- The bytes of the replies, and the rest of what the port is used for (GPS, LCD).
- A write of the settings in flight, which MSP may ask for, stops the loop for as long as
  it takes; time is left out of `FlightController`.
