# KDHome: a TLA+ model of the home automation server and its endpoints

KDHome is a home automation system. A Linux server (`server/`) talks over UDP to
small boards (`expander16/`, `expander8/`, `endpoint_energy_counter/`, ...) that
drive relays, read switches, infrared codes, thermometers and pulse counters. All
boards share one endpoint library (`providers/`). Python scripts
(`server/scripts/`) hold the house's logic; they talk to the server over a ZeroMQ
PUB/SUB and a REQ/REP socket.

This directory holds TLA+ modules translated from that code, TLC configurations
that check them on small instances, and theorems about them checked by TLAPS.
Paths below are relative to the root of the repository.

## Inventory

| component | source | state | operations | model |
|---|---|---|---|---|
| device session, server side | `server/EthernetDevice.cpp` | connected, session key, providers, two timers | `processData`, `process`/`checkConnection`, `registerDevice`, `markConnected`, `markDisconnected` | `DeviceSession`, `Handshake` |
| device session, endpoint side | `providers/providers.c`, `kdhome.h` | session key, presence timer | `provInit`, `provProcess`, `provTmr`, `provPrepareHeader` | `DeviceSession`, `Handshake` |
| outputs | `server/Controller.cpp`, `server/providers/OutputProvider.cpp`, `server/StorageEngine.cpp`, `providers/provider_output.c` | wanted values, persistent set, configuration in memory and in the file, provider vector, pins | SET, TOGGLE, SET-PERSISTENT, INIT-OK, restore, refresh, save, load | `Outputs` |
| inputs | `expander16/io.c`, `providers/provider_input.c`, `server/providers/InputProvider.cpp`, `server/Controller.cpp` | pin, edge counters, seen counters, value | edge, send state, request, replay, publish | `Inputs` |
| debouncing | `expander16/kdulibs/advinputmanager.c` | level, flag, time of the change | `advimProcess` | `Debounce`, `InputLine` |
| script session | `server/Controller.cpp` (PUB, REP), `server/scripts/kdhome.py` | session key on both sides, `m_initialized`, devices, names | INIT, INIT-OK, RESET, REGISTER-ETHERNET-DEVICE, SET-NAME | `ScriptSession` |
| infrared buttons | `server/providers/IRProvider.cpp`, `providers/provider_ir.c` | codes held down, last code and its time | new code, repeat, release | `IRButtons` |
| counters | `server/providers/CounterProvider.cpp`, `providers/provider_counter.c` | last counts, "first data" flag | new state, reset | `Readings`, registration in `DeviceSession` |
| energy counter | `energy_counter_remote/main.c`, `endpoint_energy_counter/rf.cpp` | pulses, receive buffer and flags of the radio chip, count | pulse, radio receive, read in two steps, failure of the adapter | `Readings` |
| temperatures | `server/providers/TempProvider.cpp`, `providers/provider_temp.c`, `expander8/temp.c` | scratchpads, values read, last values | convert and read in turn, send in turn, reset | `Readings` |
| script timers | `server/scripts/kdhome.py` | list of intervals, timerfd | `setTimeout`, `setInterval`, `removeTimeout`, `process`, `setupTimer` | `ScriptTimers` |
| script helpers | `server/scripts/kdstate.py`, `kdtimer.py`, `kdinput.py` | states, idle timers, keys | process, change | none |
| serial bridge | `expander8/esp/esp.c`, `esp_firmware/user/user_comm.c`, `user_wifi.c`, `driver/uart.c` | one received datagram, frame buffer, commands and replies on the line | poll, status, read, send, process | `EspBridge`, `Relay` |
| board drivers | `expander16/*.c`, `expander8/wiznet/ethernet.c` | chip registers, interrupt flags | SPI, one-wire, infrared capture | none |
| vendored code | `3rd/`, `server/3rd/`, `expander8/wiznet/Ethernet`, `Internet` | - | - | none |

**How they interact.** The server is one thread around `zmq_poll`
(`Controller::run`): UDP datagrams, script requests and a 100 ms timer are handled
one at a time, each to its end, so a handler is one atomic step. Every endpoint is
a main loop as well; its interrupts feed only the tick counter and the drivers. All
concurrency is between processes: server, endpoints and scripts, with a network
that loses, delays, reorders and copies datagrams, and each of them can restart on
its own.

**Hard behaviour.** Sessions whose two sides disagree; keys left over from an older
session; registration packets lost or copied; state changed while nobody is
connected; replay of edges from 8 bit counters that wrap and are reset; a first
state request racing the first change; a crash between sending an output and saving
it, or inside the save; a poll that overtakes the answer to the one before; a reset
that passes for a measurement; a 16 bit clock that wraps; a script that configures the server while the server
is reset. `PROJECT.json` lists each hazard at its line.

## Modules

### DeviceSession and Handshake
`server/EthernetDevice.cpp` against `providers/providers.c`. The actions `DeliverUp`
and `DeliverLateUp` are `processData` with its four ways through (`InSession`,
`OutOfSession`, `OpensSession`, `ForeignKey`); `CheckConnection` is the 100 ms
timer; `DeliverDown`/`DeliverLateDown` are `provProcess`; `SendPresence` is
`provTmr`; `SendReport` stands for every other packet an endpoint sends. `up` and
`down` are the datagrams in flight in order, `lateUp` and `lateDown` those held
back or copied. `Lose`, `Delay`, `Duplicate`, `Reboot` and `ServerRestart` are the
environment; `MaxFaults` bounds their number. Time is counted in ticks of the
presence period; a tick passes only when nothing punctual is in flight. Packet ids
are not modelled because the server's test on them is dead code: the difference of two
16 bit numbers is computed as an `int`, and asked to be at most 0 and at least 11.

`Handshake` is what the session promises to the rest of the server: a key is offered,
the endpoint is told it, and only an endpoint that was told the key in force opens the
session and registers providers; a new offer or the end removes them.
`DeviceSession!ImplementsHandshake` maps to it. "Told" (`Told`) is not a variable of the
program: the endpoint was told the key when it holds it, when a packet with it is on its
way to the server, or when the server has heard it. With fresh keys an offer makes
nobody told; with keys that may repeat, somebody may be told already, and that is all
that a repeated key weakens.

### Outputs
The outputs of one endpoint from `OUTPUT:SET` to the pins, with the persistent
file. Sessions are abstracted to "the provider exists" (justified by
`ImplementsHandshake` and `SettledIsStable` above). `Process` is
`EthernetDevice::process` for the output providers: the restore, the refresh and
`update()`; `SetOutput` includes the save. A registration that comes again makes one
more provider (`ConnectAgain`, `twins`), because `EthernetDevice.cpp:113-122` does not
look for one; commands and restored values still reach the first only, so that a twin
sends that every output is off, at once and every two seconds. `config` is `m_config` in memory and `file`,
`fileState` the file: a `save()` writes all of `config` or, when it cannot open the
file, leaves it as it was, and nobody looks at the result (`saved`); the next one
makes up for it. The server may stop between a packet and its save
(`CrashInSetOutput`) or within a save (`CrashInSave`), which leaves the entries
written so far, or a torn file that ends every new start until somebody removes it
(`Repair`). `last` remembers what each output was last set to, and `forgotten` that
a save that failed or broke off has cost a value.

### Inputs
One input from the pin to `INPUT:CHANGED`. The endpoint counts falling and rising
edges in two bytes; the server replays the difference (`Callbacks` is the loop of
`InputProvider.cpp:44-70`, in closed form). `made` and `told` count confirmed and
published changes of the session; `met` records the kinds of disturbance met in it.

### Debounce and InputLine
`Debounce` is the state machine of `advinputmanager.c` with its 16 bit tick counter;
`InputLine` is the abstract line it implements: only a level other than the last one
told is told, and only while the line has it. It has no clock; how long the level must
have lasted is said of `Debounce` itself. `Debounce!ImplementsLine` is
checked by TLC and proved. The specification's operators carry the module's name
(`DebounceInit`, `DebounceSpec`, ...), so that a module can extend it beside another one:
`Sensing_proofs` does so with `Readings`.

### ScriptSession
The server and the scripts that configure it. `ProcessREQ` is `processREQ` with its
key test: a request with a foreign key gets an empty reply, whose `int("")` ends a
script that parses it (`Return`). `Receive` is the message half of `process()`; the
handler's requests are then made one by one (`Send`, `ProcessREQ`, `Return`), so
that resets and crashes fall between them. `Crash` loses what is on its way, and a
script that waits for a lost reply waits until it is started again (`Start`).
Session keys are only compared for equality, so the model numbers them; an INIT
always fits into an empty queue; another script may use the output's name at any
time. What the requests do to outputs is the subject of `Outputs`.

### ScriptTimers
The list of timeouts and intervals of one script and its timerfd. The `for` loop of
`process()` is a position in the list: `Pass`, `Call` and `Return` are its steps, and
between `Call` and `Return` the callback may set and remove entries, its own too.
Times are what is left to run. `owed` remembers what the script has set, because the
list does not. A message of the server (`Message`) wakes the script as well.

### IRButtons
A remote control, its packets, the IR provider and what the scripts are shown. A
tick is 100 ms, the period of `process()`, so the code's 300 and 500 ms are 3 and 5.
`m_lastCode` and its time are not initialised by the constructor: `AddProvider`
chooses them freely. `onIRButtonReleased(it->first)` after `erase(it)` reads a freed
node whose key the build's allocator leaves alone; the model reads the key.
`orphans` are codes whose provider has gone while they were pressed.

### EspBridge and Relay
The Wi-Fi board of an expander8 and the serial line to it. The Wi-Fi board keeps one
datagram (`rxData`, `rxAvail`); `AtTcpclientRecv` is the receive callback, which the
SDK may call in the middle of `wifiSendFrame()`: the frame is sent by
`CommProcessCommand` and the place is freed by `FrameSent`, a step of its own. On the
main board `EspProcess` and `Poll` start `espProcess()`, `ProcessChar` takes one reply
from the ring buffer, and `Drained` leaves the loop. `toBoard` and `toHost` are the
frames on the line and in the buffers, in order. A read that finds nothing is answered
with an empty frame, and `espProcessCommand` then gives `provProcess()` what the frame
buffer holds from before, its head overwritten by a status (`StatusHead`,
`Replayable`). `Garble` damages frames; those on their way up are dropped at their
check sum or by the timeout, but `processChar()` has by then stored their payload
(`esp.c:177`), so that the buffer may hold one of them whole, or a mixture (`Spoiled`),
and `provProcess()` may get that with the next empty frame. `Restart` and `EspInit` start
the boards anew. `hasty` says that a poll was sent while an earlier one was
unanswered, which nothing in `esp.c` prevents.

`Relay` is what the bridge promises: datagrams wait until they are passed on, oldest
first, and none is lost but to a damage. One place keeps what came last and may hand it
on at any time: the latest datagram again, one whose frame was damaged, or noise, which
it keeps only before the first datagram and after a damage. Datagrams are numbered as
they arrive, so a queue of them is a set of numbers. `EspBridge!ImplementsRelay` maps the
frames on the line and the datagram in `rxData` to that set, the frame buffer to `kept`,
`phantom` to `noise` and the disturbances to `damages` (`INSTANCE Relay WITH`); it is
checked, and proved, under every disturbance, overlapping polls included.

### Readings
Numbers from a sensor to the scripts: the temperatures of an expander8 and the count
of the energy counter, two boards that share their shape (`board` chooses one). An
expander reads its sensors in turn, one conversion ahead (`TempProcess`), and sends
what it holds in turn (`ProvTempTmr`); sensors are unplugged and plugged in. The
energy counter gets a count by radio: `RfRead`, `RfClear` and `RfDone` are the parts of
`rfProcess()` that end with the read of the payload, with the second write of STATUS
(`rf.cpp:173`) and with the report. A payload that arrives between them is flushed; one
that comes between the last two leaves RX_DR set in an empty chip, and the next `RfRead`
reads what no payload has brought (`Payload`; `blind` remembers it) and reports once
more. `RfFails` is the failure of the adapter; an `rfInit()` that fails early does not
keep `rfProcess()` from going on (`rf.cpp:136-143`), so `RfRead` is possible then, too. A REGISTER command clears what either board holds.
`NewTemp` and `NewCount` are the providers; `told` is the last count published.

## Composition

The modules meet at narrow interfaces. `Outputs`, `Inputs`, `IRButtons` and `Readings`
see the session as "the provider is there" (`Connect`, `AddProvider`, `Disconnect`,
`EndSession`); `Handshake` says when that is so, and `DeviceSession` implements it. `ScriptSession` issues the
requests whose effect on outputs is in `Outputs`. `Debounce` produces the confirmed
changes that `Inputs` takes as its environment; `InputLine` says what they are.
`EspBridge` is one of the links that carry the datagrams of the other modules: what
`Relay` allows without damages (to repeat the latest datagram) and what a damage loses
are among the faults those modules are checked with, as is the REGISTER command that
comes twice (`RegisterAgain` in `Inputs` and `Readings`, `ConnectAgain` in `Outputs`).
Noise is not.

## Runs

| run | question | states |
|---|---|---|
| `session_safety` | does a session end only for a reason, is no provider forgotten, and how many disturbances does it take to lose a session that lives (3 faults, keys may repeat)? | 3.0 M |
| `session_converges` | is only an endpoint heard that was told the key, and do both sides settle after any 2 faults, complete and without doubles? | 198 k |
| `session_rate` | is a new key sent at most every 2 s? No: see findings | violation |
| `outputs` | do wanted value, file, provider and last packet agree through commands, failed and broken saves, restarts and network faults (2), and does a settled output reach its pin? | 347 k |
| `inputs` | what are the scripts told through counter wrap and faults (2), and does a settled level reach them? | 853 k |
| `inputs_early` | is the state sent the state shown? No: see findings | violation |
| `debounce` | is the debouncer right around the wrap, and an implementation of the line? | 1.8 k |
| `scripts` | is the server configured, completely and for good, through resets, crashes, stops and lost messages (2)? | 710 k |
| `timers` | is any timeout forgotten, and may the script oversleep? | 79 k |
| `buttons` | are buttons pressed once, held and released (3 faults)? | 19 k |
| `readings` | do temperatures and counts keep to their sensor, and does what settles get shown (2 faults)? | 247 k |
| `bridge` | does the bridge keep the order, and process each datagram once (1 fault)? | 919 k |

**Bounds.** One endpoint with an output and an input provider shows every path of
`processData`; three or four keys are one more than can be in use at once
(server, endpoint, one in flight). Presence 1, registration delay 2 and disconnect
delay 3 ticks keep the order of the real 1, 2 and 3 s. Edge counters have 3 values
instead of 256, the fewest with which a counter that is one ahead differs from one
that is one behind, and 6 changes fit in a session, so both counters wrap; the
debounce counter has 16 values, with a debounce time of 4, and all of them are start
values. Two outputs show what happens to one when the other is set; one datagram at a
time is in flight to them beside late and copied ones. Two scripts, one of
which configures, are enough for a reset in the middle of a configuration; one
device is enough because devices only get registered. Three timeouts are needed for
one that is removed, one passed over and one left, and four calls to arrange it. They
are set for at least one tick: an interval of 0, for which `setupTimer` waits a
millisecond, is not covered, by the proofs neither.
Two buttons show one that is pressed while the other is not yet released. The bridge
has two datagrams, so that one may meet the other in `rxData`, and two polls that may
overlap; a third of either repeats what the two do. Two sensors are the fewest whose
numbers could change places; three pulses leave one after the first report is
swallowed and one lost. Fault budgets of 2 or 3 are the smallest at which every hazard
listed for the component occurs; one garbled frame or restart is enough for the bridge,
whose overlapping polls are not counted as faults. The proofs below need none of the
numbers.

**Fairness.** `FairSpec` asks that datagrams which are not lost arrive, that both
main loops keep running, and that time passes (strongly, because a busy link may
interrupt it). Each is what the poll loop and the endpoint's `while (1)` provide.
In `ScriptTimers` time is strongly fair, since messages may keep the script busy but
do not stop the clock. In `ScriptSession` nothing makes a dead script start again:
`GetsConfigured` assumes that the configuring one runs again and again. In
`EspBridge` the main loops of both boards are weakly fair, and `Poll` strongly: it is
possible only between two calls of `espProcess()`, again and again, and the 20 ms timer
does not wait for replies. In `Readings` both main loops and the delivery of what is
not lost are weakly fair. Nothing is assumed of commands, input changes, pulses or
faults, beyond the finite budget.

## Findings

1. `server/settings.h:4` calls `REGISTRATION_DATA_DELAY` "Time (in milis) of
   preventing sending new registration key". `EthernetDevice.cpp:60-63` sends a new
   key at once whenever a connected device sends a foreign key; the delay limits
   only the disconnected branch (`session_rate`).
2. `providers/provider_input.h:18` says of `provInputSendState` "Sends current state
   to server". The server does not get a state but counters, and replays them: an
   input that has changed once before its first packet of the session is seen has
   both counters at 1 and is shown as high though it is low (`inputs_early`).

## Proofs

All theorems hold for every value of the constants that the named assumptions allow:
any number of outputs, timeouts, keys, providers, codes, datagrams and faults, counters
of any width and any delays. The type invariant of every module is proved
(`TypeCorrect`, `DebounceTypeCorrect`, `ReadingsTypeCorrect`) rather than checked by a
run; each invariant below is inductive together with it.

* `DeviceSession_proofs`: `ProvidersAlwaysNeedSession` (inductive with the types): the
  server has providers only in a session with a real key. `HandshakeImplemented`, the
  refinement, from it: every step of the network and of the endpoint tells, forgets or
  changes nothing (`ShakeOfEndpoint`), a packet with the key in force is an answer of an
  endpoint that was told it, because that packet itself was on its way, and a fresh key
  is in no packet yet (`ShakeOfNewKey`). `ProvidersAreNotForgotten` (inductive with the
  types), the safety half of `ProvidersComplete`: what takes the command or a
  registration out of the network puts the next link of the chain in its place, in every
  branch of `processData`;
  `ProvidersAreUnique`, which assumes that no key is used twice and that an endpoint
  announces each type once, from `OrderedInv`: every session command and every
  registration is in flight at most once, the command before its registrations and
  these before the provider they make; `SettledSessionIsStable`, by cases on the packet
  that arrives; `LossesAreForgiven`: a session that has lasted is given up for silence
  only after so many disturbances that the presence periods they cost reach the
  disconnect delay. It rests on `SilenceIsBounded`, an invariant that follows the age of
  the last packet against the age of the last presence packet, what is in flight, and the
  number of disturbances, and on the condition of `checkConnection`.
* `Outputs_proofs`: `StorageAlwaysAgrees`; `LastIsRestored`, which follows `last`,
  `config` and the file through every save that succeeds, fails or breaks off;
  `ProviderAlwaysFollows`, about the provider that commands reach, whatever twins there
  are; `InitOkNeverUndoesASet`; `LastPacketAlwaysCurrent`, from
  `LastPacketInv`, which adds that an initialised provider's last packet is its vector.
  `LoopReachesTarget` and `DriveEffect` are the lemmas about the restore loop.
* `Inputs_proofs`: `NothingIsMissed`, from `Track`: in a session without disturbances
  each packet is at most one change ahead of the one before it. `NoChangeIsInvented`,
  from `OnlyLosses`: however many packets are lost, the counters in any two packets
  that follow each other (`Chain`) differ by no more than the changes made between them
  (`Within`). `NextChangeHeals`, from `Steady`: the difference of the two counters tells
  the level (`Alternates`), so, whatever was lost, late or copied, a server that is one edge
  behind has the true level after the next packet; it needs counters of three values or
  more. `ShownLowIsTrue` (three values or more, too), from `FewLosses`: the server is
  behind the next packet by at most the packets lost and one change (`InView`), and as
  falling and rising edges alternate, neither kind makes up a turn (`AheadLater`).
* `Sensing_proofs` holds the theorems about both `Debounce` and `Readings`. Debouncer:
  `EdgesAreHeld` and `EdgesAreToldInTime`, from the invariant that ties `age` to
  `ticks - changeTime`; `LineImplemented`, the refinement, step by step. Readings:
  `ReadingsTypeCorrect`, from `ReadingsInv` (the types, with the domains of the arrays),
  which also says that each sensor has its own numbers from the bus to the scripts.
  `CountsAreTold`, from `Rising` (what the radio still has to bring is newer than what
  it has brought) and `SentOnce` (no two reports on their way carry the same count, and
  none the count already shown): the second report the server hears is
  then always news. The proof needs only that no report comes twice and that no empty
  chip was read, so losses, late reports and repeated REGISTER commands are allowed. `NumbersAreNotTakenBack`, from
  `NothingTakenBack`: a number once shown is still held by the endpoint, and no
  report on its way takes back what is shown or what an earlier report tells.
* `IRButtons_proofs`: `ShownIsAlwaysHeld` (inductive with the types);
  `RepeatsNeverPress`, from `LastCodeIsHeld`: while a repeat mark may stand for the
  last code, that code is in `m_codes` and no older there. It needs
  `RepeatTime < ReleaseTime`, which is assumed by name. `HeldButtonsStay`, from
  `OneFrame` (the remote sends one frame per tick) and `HeldIsFresh` (the code of a
  button that is held stays the last one, and is no older than the repeat marks lost
  since then explain).
* `ScriptTimers_proofs`: `OneEntryAlways`; `NothingIsForgotten`; `TimerAlwaysLeads`:
  what a walk over the list has passed, calls and leaves keeps every entry once and in
  its place, whatever the callbacks do to the list meanwhile.
* `ScriptSession_proofs`: `InitializedIsConfigured` and `NameAlwaysLeads`: the key a
  script holds and the requests it has still to make determine how much of the
  configuration the server has. `ConfigurationIsKept`, from `Chosen`: every entry
  that is left for a name is one the name leads to.
* `EspBridge_proofs`: `EachIsProcessedOnce` and `RingAlwaysHasRoom`, from `InLine` (at
  most a read and one poll behind it are on the line, in either direction) and
  `InPlace` (a datagram that was announced stays in `rxData` until it is read).
  `RelayImplemented`, the refinement, from `InOrder`: the datagrams on the line, and
  behind them the one in `rxData`, are in the order of their arrival and later than the
  one passed on and the one in the frame buffer.

Only model-checked:

* every liveness property (`Converges`, `ProvidersComplete`, `FollowsEventually`,
  `SettledLevelIsShown`, `GetsConfigured`, `GetsCalled`, `EventuallyReleased`,
  `ArrivesUpstairs`, `SettledIsShown`), because TLAPS has no support for `ENABLED` and
  so for fairness. The invariants they rest on are proved where the code has one, as
  `ProvidersAreNotForgotten` for `ProvidersComplete`.

No module declares a `RECURSIVE` operator.

## Not modelled

* The infrared receiver (`expander16/ir.c`): pulse lengths measured by an interrupt and
  a decoder over them. `IRButtons` takes decoded codes as its input.
* The drivers of the boards: SPI, one-wire, the Ethernet chips, the analog-to-digital
  converter. Pins, scratchpads and radio payloads are where the models begin. Edges of
  a line that merge into one interrupt, and a restart of the radio board, are left out
  with them: both lose pulses before anything of this code counts them.
* The search for temperature sensors at start-up, whose order gives them their index: a
  sensor that is missing then shifts the others. The expander16 has the temperature
  provider but never sends a reading.
* `kdstate.py`, `kdtimer.py`, `kdinput.py`: a few lines each on top of the timers and
  events modelled here; and the `MESSAGE` request, a broadcast without state.
* The radio link's own retries, and the firmware of the Wi-Fi board beneath
  `user_comm.c` (association, DHCP).
* Message texts, logging and the parsing of requests are abstracted to their fields.
* Vendored code (`3rd/`, `server/3rd/`, the Wiznet library, chip headers) and generated
  board files. They are most of the repository's lines, and not of this system's making.

## Limits worth knowing

Some of what the models show is not contradicted by any comment of the repository,
and so is stated as the exception of a property rather than as a finding:

* A provider whose registration packet is lost is missing for the whole session
  (`ProvidersComplete` assumes that none was lost).
* `removeInterval` does not set the timerfd again, so a script that removes its
  earliest timeout may sleep through the others until a message arrives
  (`TimerLeads`, `GetsCalled`).
* A timeout set by its own callback is removed when the callback returns
  (`NothingForgotten`).
* A registration that comes twice leaves a second output provider, which switches every
  output off every two seconds, and never back on, until the session ends
  (`FollowsEventually`, `twins`).
* A button that is held when its device disconnects stays pressed for the scripts
  (`ShownIsHeld`, orphans).
* A name used before `OUTPUT:SET-NAME` becomes an output of its own
  (`NameLeadsToOutput`).
* The status of the Wi-Fi board is polled without waiting for the answer: when two polls
  overlap, one datagram may be processed twice, or an empty frame be taken for one
  (`OnceEach`, `hasty`). If a frame has failed its check sum before, that empty frame has
  its bytes processed (`ImplementsRelay`, `noise`).
* A payload that reaches the radio chip between `rf.cpp:173` and `:174` is lost, and the
  next `rfProcess()` reports what it reads from the empty chip (`OneReportUntold`, `blind`).
* No endpoint answers the request for a counter's state, so the first report of a
  session is taken for the answer and not told (`OneReportUntold`).
* A REGISTER command clears readings to 0, which the scripts cannot tell from a
  measurement; one that comes twice shows it (`NoZeroOnceRead`).
* An edge shortly before the 16 bit tick counter wraps may never be told, however long
  the line is held (`ToldInTime`, `DeafEdge`).
* When the packets of a whole turn of the edge counters are lost, the server cannot see
  it, and may then show a high input as low (`ShownLowIsLow` asks for fewer losses).

## Plan

Done: sessions, outputs with their file, inputs, debouncing, script sessions and timers,
infrared buttons, readings and the Wi-Fi board, each with its runs; the proofs above.
What is left, in order:

1. The safety half of other liveness properties, as invariants with proofs: what is on
   its way to an output, an input or a script while it has not arrived.
2. The infrared receiver: the capture interrupt against the decoder in the main loop,
   which share a buffer and its index.
