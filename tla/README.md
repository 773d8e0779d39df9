# ESP32 Modbus bridge: formal models

TLA+ models of the firmware in `src/`: a bridge between a Modbus bus (RS485)
and a cloud server (TLS over TCP), with a small TCP server, a UART terminal, a
button, parameters in flash, WiFi, BLE and three lights. TLC checks each model on
a small instance; TLAPS proves the invariants of the cloud connection, of the TCP
server, of the radios with their lights, of the commands coming in, of the
parameters and of the numbering of frames, for every instance, and that the server,
the parameters and the way to the bus implement what they promise.

    tlc -config MCTcpClient.cfg MCTcpClient      # any other pair below
    tlapm TcpClientProofs.tla                    # and TcpServer-, Radio-, Inbound-, Settings-, UplinkProofs

## 1. Inventory

The firmware runs FreeRTOS tasks and callbacks in one address space. Apart from
the mutex of the TCP server nothing protects what they share.

| Component | Source | State it keeps | Operations |
|---|---|---|---|
| TCP client | `src/src/tasks/tcp_client_task.c` | `s_tcp_client`: socket, state, TLS context, `use_tls` | its own task: wait for WiFi, resolve, connect, handshake, receive, tear down, retry; `is_connected`, `send` called by other tasks |
| TCP server | `src/src/tasks/tcp_server_task.c` | four client slots, mutex, listening socket | accept task, one receive task per slot, `get_client_count` |
| RS485 service | `src/src/tasks/rs485_task.c` | receive buffer, frame callback | read and validate a bus frame, send a frame |
| Protocol frames | `src/src/protocol/data_process.c` | `s_frame_sequence`, handles with two callbacks | build, number, parse frames |
| Routing, boot | `src/main/main.c` | handle of the route | `app_main`, bus-to-cloud callback, send wrapper |
| Heartbeat | `src/src/utils/heartbeat.c` | timer, handle | timer expiry |
| Parameters | `src/src/config/param_manager.c` | NVS handle, flash | set and get strings and integers, by a table of types and ranges |
| Terminal | `src/src/shell/terminal_service.c`, `src/src/tasks/uart_rx_task.c` | line buffer | LPTS commands set, LPTQ commands query |
| Button | `src/src/tasks/button_task.c` | time of the press | factory test, factory reset, restart |
| WiFi | `src/src/tasks/wifi_task.c` | connected flag, event bits | event handler, retry task |
| BLE | `src/src/tasks/ble_task.c` | connection handle, last data | GAP events, GATT access, notify |
| LED | `src/src/tasks/led_task.c` | pattern state | shows WiFi and factory mode |
| Poll timer, OTA, ring buffer, watchdog, CRC, Modbus, system, boot | `src/src/utils`, `ota`, `protocol`, `system` | - | pure, without a caller, or called once at boot |
| Stubs | `src/src/drivers`, `src/src/network`, two files of `src/src/shell` | - | empty, not compiled |

How they interact:

- **Bus to cloud.** RS485 task -> callback in `main.c` -> `is_connected()` ->
  `data_process_send()` numbers and builds a frame -> `tcp_client_task_send()`.
- **Heartbeat to cloud.** Timer task -> `data_process_send()` with the same
  counter and the same connection.
- **Cloud to bus.** Client task reads -> `data_process_receive()` *and* a direct
  call -> receive callback parses -> `rs485_task_send_frame()`.
- **Client and server** share nothing but lwIP's table of descriptors.
- **Terminal and button** write the same flash through one NVS handle; the
  client reads host and serial number there before each attempt, the LED task the
  factory test flag in every pass, WiFi its configuration at boot.
- **WiFi** keeps the flag that the client, the LED task and the terminal read.
- **A restart** (terminal, button, power, a BLE write) ends all of them at once.

What is hard to test in this code, with the line where it bites, is the list
`hazards` of `PROJECT.json`: unlocked sharing of the connection and of the frame
counter, a descriptor closed twice, mutex waits that time out without an else
branch, a byte stream taken for frames, boot order, power loss between set and
commit, events handled after the station has moved on, a receive callback that
calls its caller, characters lost while a command runs, bounds at the edge of a
buffer.

What makes each component correct:

- *TCP client*: nothing leaks over failed attempts; what other tasks see as
  READY is a live session; while it is up nobody writes past it; it reconnects.
- *TCP server*: a slot has one task in charge at a time; slots and sockets are not lost;
  the mutex always comes back.
- *Bus to cloud*: an accepted frame is forwarded; numbers advance by one and
  leave 0 out; a frame fits its buffer.
- *Cloud to bus*: only whole frames, in order, once each.
- *Parameters*: flash keeps to types and ranges; OK means durable and found again;
  a factory reset finishes and restores the defaults.
- *Terminal*: one line is one command.
- *WiFi, BLE, LED*: connection attempts and advertising go on after every event;
  the flag, the handle and the lights follow what they stand for.

## 2. Plan

| # | Module | Content | State |
|---|---|---|---|
| 1 | `SocketTable` | lwIP's descriptor table (external) | done |
| 2 | `TcpClient` | connection, senders, sockets of the server beside it | done |
| 3 | `CloudLink` | abstract promise of the connection, implemented by 2 | done |
| 4 | `TcpClientProofs` | inductive invariant of 2, its consequences, the safety half of the refinement | done |
| 5 | `TcpServer` | slots, receive tasks, mutex with timeouts | done |
| 6 | `Uplink`, `Downlink` | the two routes | done |
| 7 | `Settings` | parameters, terminal commands, button, power loss | done |
| 8 | `TcpServerProofs` | slot ownership and mutex discipline of 5 for any number of slots | done |
| 9 | `Wifi`, `Led`, `Ble`, `Radio` | WiFi events and retry task, lights, advertising; composed on one chip | done |
| 10 | `Terminal`, `Inbound` | lines to commands; composed with `Downlink` on one chip | done |
| 11 | `RadioProofs`, `InboundProofs` | their invariants for any queue, ring and buffer | done |
| 12 | `SettingsProofs` | flash keeps to its metadata, OK is durable, a factory reset configures the station | done |
| 13 | `UplinkProofs` | numbering for any byte size | done |
| 14 | `SlotPool`, `ParamStore`, `FrameRoute` | abstract promises of 5, 7 and of `Downlink`, with proofs that they are implemented | done |
| 15 | `SequenceFacts` | the facts about sequences the proofs share | done |
| 16 | abstract numbering of frames, abstract lamps and radios | promises of `Uplink` and `Radio`, implemented likewise | next |

`TcpClient` and `TcpServer` both extend `SocketTable`. Each of them has the
other as environment: `TcpClient` has holders that accept and close sockets of
the server, `TcpServer` has the stray `close()` of the client. `Uplink` and
`Downlink` see the connection as a Boolean that `TcpClient` explains. `Radio`
composes `Wifi`, `Led` and `Ble`, `Inbound` composes `Downlink` and `Terminal`;
what their parts share is the restart, and in `Radio` the flag of the WiFi.
`StationComesBack` of `Radio` is the assumption `TcpClient` makes of its `wifi`.
No module uses a RECURSIVE operator, so all of them can be proved about.

One passing run answers one question about one module or composition. Bounds stay at
the smallest instance that shows the hazard (section 5).

## 3. Modules and code

**SocketTable.** A table from descriptor number to the party that opened it.
`socket` and `accept` take the lowest free number, `close` frees a number whoever
opened it. That is all the callers can tell apart, and why closing twice matters.

**TcpClient.** `pc` follows `tcp_client_task` statement by statement wherever
another task can look: `sock`, `state`, `tls` and `useTls` are the fields of
`s_tcp_client` and each assignment is an action of its own, in the order of the
code. `heap` says of each cell whether it is free, a context in its handshake
("raw") or one whose handshake is over. `spc` follows each sender through
`tcp_client_task_send()`: `IsConnected`, `CheckSock`, `TestUseTls`, `LoadTls`, `Write`.
A sender may be held up between any two of them, through a teardown and the next
handshake. `CheckSock` reads `sock` and `state` at once; the comment at the head of the
module says why that leaves nothing out. `sptr` is the context a sender has picked
up, which may be freed or reused before it writes.
`HandshakeFail` and `DeleteTls` close the socket (`mbedtls_net_free`);
`DropHandshake` and `CloseSock` close its number once more. A failed handshake is
one step: everything it touches but the socket is local to it. Entering the
handshake and leaving it are separate, so other tasks run during it.

**CloudLink.** The connection as the rest of the firmware may rely on it: state
and session, with the promise that READY is only announced with a session, that
sessions come from handshakes, and that a lost connection is dialled again. The
refinement mapping takes `state` for `link`, and a session exists when some
context has completed its handshake.

**TcpServer.** `apc` is the accept task, `rpc[i]` the receive task in charge of slot `i`,
`cpc` a caller of `get_client_count`; `slot[i]` has the fields the code frees and
tests. What happens inside a critical section is one step, as everyone else who
looks at a slot's fields holds the mutex, or is the owner of that slot. Every take may time
out while somebody else holds the mutex; the actions `LockTimeout`,
`RelockTimeout` and `CleanTimeout` are the missing else branches. A
receive task that has given the mutex back, or has not got it, has let go of its slot
but still exists: it is in `leaving` until it has logged the slot's name and deleted
itself (`EndTask`), and the slot may be filled and have its next task before that. The
name it reads may then be written at the same time, with the same text. A task that
returns (`StartFail`) makes FreeRTOS abort; `Restart` is the reboot. TLS is off in this
server from init on, so its branches are not modelled.

**SlotPool.** The capacity of the server: which slots are served, which are lost, which
sockets are lost, and how many waits gave something up. A slot is served, released,
or lost, and no step brings a lost slot back. In the mapping a slot is lost when it
is in use and no task answers for it (`Orphans`), a socket when it is open and
no slot or task remembers it (`LeakedSockets`).

**Uplink.** `Boot` is the order of `app_main`: RS485 runs before its callback is
set, and the heartbeat starts last. `ReadBus` validates a frame, `Gate` is the
callback up to the numbering. `app_main` goes on without a data handle if it gets none:
then `SendRaw` sends the data as it is, and there is no heartbeat (`handle`). `PutLow`, `PutHigh`, `Load`, `Store`, `Wrap` and `Reset` are the
unprotected accesses of `build_protocol_header()`, one each; a compiler that
merges two of them gives a behaviour in which nothing comes between. `Emit` hands
the frame to the connection or drops it.

**Downlink.** The cloud's stream is read in records: one frame, two, or a part of
one. `HandleByCallback` and `HandleDirectly` are the two calls of the receive
callback for one read. `Parses` is the test of length field and CRC against
the bytes of this read. It assumes that a CRC is not right by chance. A restart
loses the record in hand and what the connection held; until `InstallDriver`, the
step of `app_main` that starts the bus, frames of the cloud are dropped.

**FrameRoute.** A good frame is taken in hand, called out twice, and put on the bus by
each call if the bus is open; only a restart takes it out of hand earlier. That is
what the code does and one call more than its documents say (`downlink_twice`). In
the mapping a frame is in hand while the record holds a frame that came
whole; the mapping does not ask the parser, so it is the parser that must agree.

**Terminal.** `Type` is the user and the UART's interrupt; a character that finds
the driver's ring full is lost. `StoreChar`, `DropLongCommand` and `EndLine` are
the three branches of `terminal_rx_callback`. Of the buffer the model keeps how much
it holds and whether that begins where the user began a line.

**Inbound.** `Downlink` and `Terminal` side by side, one step of one of them at a
time. `Lpts5Restarts` is the command that restarts the chip in the middle of both.

**Wifi.** The event queue is between the driver and `wifi_event_handler`, so the
handler lags behind the station; its assignments to the flag and to the event bits
are steps of their own, as `wifi_task` looks at both in between. `esp_wifi_connect`
may fail, and none of its three callers notices.

**Led.** One pass of `led_task`, in factory mode or not; the other tasks see
lights and state after a pass only.

**Ble.** One action per GAP event and per callback of the NimBLE host, which runs
them one at a time. `ble_on_sync` may fail to advertise. `WriteOverflowsStack` is
the write that makes `data_process_receive` and `ble_receive_callback` call each
other without end; what follows is a restart.

**Radio.** `Wifi`, `Led` and `Ble` on one chip, and the restart of all three.

**Settings.** A job is the list of parameters a command or the button sets, and
whether the first error ends it: a terminal command is strict, the button ignores
every error. Each parameter is set (`SetOk`), then committed (`CommitOk`);
`SetRefused` is the validation by the table, `NvsFails` an error of NVS. `stored`
is what reads return, `durable` what a restart is certain to find; `Down` picks
for every parameter set and not committed whether it survived. Texts are the
factory's or the user's. Reads change nothing in flash; what matters of them is
whether they find anything: `missing` holds what the last `Query` (the LPTQ
commands), `TaskReads` (client and LED task) or `Boot` (WiFi configuration) asked
for in vain. The numbers of the parameters are the code's: LPTS1 sets
parameter 9 (`device_id`), though the command list in the repository's README calls
it the WiFi name, and LPTQ2 is always answered ERROR, because the port is a
string that it reads as a number.

**ParamStore.** What setting and asking promise, without jobs, commits and tasks: a
parameter changes only by being set to an allowed value; what is promised has a value, and keeps it
over every restart until it is set again; asking is in vain only if something asked for has
no value. In the mapping a value is what is `stored`, promised is what the last
command answered OK has set (`acked`). `durable` is left out: it is how the
code keeps the promise.

## 4. Runs

| Run | Shows |
|---|---|
| `client` | `NothingLeftBehind`, `PublishedContextIsInitialized`, `ReadyHasSession`, `Reconnects`, that no sender turns to a freed context or the plain path while the session is up (`SendersGoWrongOutsideSession`), that sockets get mixed up by the second `close()` only (`MixUpsStartAtSecondClose`), and that `TcpClient` implements `CloudLink` |
| `server` | a slot is filled only when every earlier task has let go of it (`FilledSlotIsLetGo`), slots have one owner and distinct sockets, change under the mutex only, the mutex comes back, and each lost slot or socket is paid for by one timeout (`LossOnlyByTimeout`); `TcpServer` implements `SlotPool` |
| `uplink` | numbers advance as long as builders do not overlap, also over the wrap; an overlap never leaves the counter at 0; an accepted frame reaches the connection |
| `downlink` | with restarts at any time: only whole frames reach the bus, in order; a good frame in a record of its own does reach it; `Downlink` implements `FrameRoute`; two lines typed at the terminal are two commands unless characters were lost or a line was too long |
| `radio` | with restarts at any time: the flag catches up with the station, the station comes back, the lights show the flag, the BLE handle follows the central, and only a failed attempt leaves BLE silent |
| `settings` | flash keeps to types and ranges, what was answered OK is durable and found by whoever asks, a factory reset ends in a restart and, undisturbed, in a configured station; `Settings` implements `ParamStore` |

Runs that show where the code departs from what it says of itself; TLC finds the
trace:

| Run | Statement | What happens |
|---|---|---|
| `client_ready` | `is_connected`: "true if connected" | during the teardown it is true without a session |
| `client_close` | server "supports multiple concurrent client connections" | the second `close()` of the client ends one of them |
| `uplink_number` | number "incremented for each frame" | two overlapping builders use one number twice |
| `uplink_buffer` | frame format with CRC | two lengths pass the bound though the CRC does not fit |
| `downlink_twice` | frames are "converted to Modbus frames" | each is written to the bus twice |
| `settings_reset` | "Sets all parameters to factory defaults" | serial number and name survive; the port is always refused |

Some losses the models contain and no property forbids, because nothing in the
repository says what should happen: a frame whose connection is lost between check and
write, a frame of the cloud before the bus driver is there, the tail of a line too
long, characters lost in the UART, the silence of BLE after a failed attempt. The
properties make an exception for each of them, and say that there are no others.

Beside most actions stands a variant with one plausible mistake (a forgotten
close, a swapped order, a dropped test). Every property has one that breaks it.

## 5. Bounds

- `client`: 3 descriptors, 2 heap cells, 2 senders (one of which asks
  `is_connected` first, as the RS485 route does), 2 sockets of the server. With 3
  descriptors the client and both server sockets fill the table, so `socket()`
  fails too; the task never has more than one context, and the second cell lets a
  sender keep a pointer to a context other than the new one. No step counter: the run
  covers any number of reconnections.
- `server`: 2 slots (4 in the code), 4 descriptors: the listener, both slots and one
  that can be refused or lost, beside the slots that can be lost. There is no bound on the
  tasks on their way out. `MaxStray` = 1 close by the client. Two slots give every
  pairing of a slot being filled with one being taken apart.
- `uplink`: `Byte` = 2 instead of 256, so the counter has four values and wraps
  within `MaxFrames` = 3 bus frames and `MaxBeats` = 2 heartbeats. Lengths stand at each edge of
  the tests: 3, 4, 5, 494 (the longest that fits), 497 (refused by the builder), 504
  (refused by its caller). 495 and 496 overrun the buffer, what follows then is
  undefined, and they are the subject of `uplink_buffer` alone.
- `downlink`: `MaxCloud` = 4 frames, enough for a pair, a split frame and a whole one in
  one stream. `RingSize` = 1 (512 in the code), so one character waits and the next is lost;
  `MAX_CMD_LEN` = 3 (256 in the code), so the third character of a line overflows and a
  fourth begins a command. There is no bound on lines or restarts.
- `radio`: `MaxEvents` = 3 in the queue: start, address and loss wait behind one
  another while the handler is late. The driver posts nothing to a full queue. No other
  bound.
- `settings`: numbers at and beyond both ends of the period's range, presses on each side of
  each threshold, `MaxErrors` = 1 error of NVS, as no error changes how the next one is
  treated, `MaxJobs` = 3 commands or presses.

The uplink, downlink and settings models come to rest when their bounds are used
up; each has an action that stays enabled (the link, a restart, or power loss), so TLC
checks deadlock in every run.

## 6. Fairness

FreeRTOS schedules every ready task in the end (the tasks delay or block in every
loop), so a task's own steps are weakly fair. No fairness is given to a peer that
may stay silent: the bus, the cloud, the user, and the TLS handshake, whose timeout
is stored and never used. `connect()` is fair, as lwIP bounds it.

`Reconnects` and the liveness half of `CloudLink` also assume the network comes
back: WiFi in the end, and strong fairness for `ResolveOk` and `OpenSocketOk`, which
may fail any number of times but not for ever. A wait for the server's mutex is
fair as a whole: it ends with the mutex or with a timeout.

`Radio`: the event handler, the WiFi task and the LED task are weakly fair. Of
`wifi_task`'s attempts some succeed (strong fairness for a `Retry` that starts to
join); none is assumed of the attempt in the event handler, so the retry task alone
brings the station back. An access point that can be reached again and again takes
the station and gives it an address (strong fairness for `Associate` and
`GetAddress`). `StationComesBack` asks for a configuration, and that the chip
is not restarted for ever. Nothing is assumed of BLE: after a failed attempt
nothing tries again.

`Inbound`: the receive callbacks and `app_main` are weakly fair, the cloud and the
user are not. `Settings`: both tasks and the boot.

## 7. Proofs

`TcpClientProofs` proves, for any number of descriptors, heap cells, senders and
server sockets, of `Spec`:

| Theorem | Property |
|---|---|
| `TypeCorrect` | `TypeOK` |
| `NoLeak` | `NothingLeftBehind` |
| `NoHalfBuiltContext` | `PublishedContextIsInitialized` |
| `ReadyIsTruthful` | `ReadyHasSession` |
| `SessionKeepsSenders` | `SendersGoWrongOutsideSession` |
| `OnlySecondCloseMixesUp` | `MixUpsStartAtSecondClose` |
| `ImplementsLinkSafety` | `Link!Safety`, the safety half of `ImplementsCloudLink` |

None of these properties is inductive: that `ReadyHasSession` survives `Publish`
depends on what `HandshakeOk` left six steps earlier. The invariant `IInv` adds, for
every place of the task, which descriptors are the client's, which cells of the
heap are in use, and what `sock`, `tls`, `useTls` and `state` hold there. Its proof has
one lemma for establishing a connection, one for the teardown, one for the
senders and one for the environment, each with one step per action; the lemmas
`OpenAsEntries` and `CloseEntries` say what opening and closing do to the table. The
first action property says when a sender may begin to go wrong. A sender once gone
wrong (held up with a pointer of an earlier session) stays so until it writes, so it is no
invariant; `StepKeepsSenders` shows that none begins in the receive loop, as its
task touches neither context nor pointer there, and what a sender reads then leads
to the session. Elsewhere it may begin: from the teardown (`client_ready`) to `use_tls =
true` of the next session, for a sender whose check lies before.
The second says where the damage
shown by `client_close` can begin: while every party still has what it opened, no
first `close()`, of client or server, hits a socket of somebody else. It is an action property and no
invariant, as after one such mix-up others follow from it. `FirstClose` and
`ServerOwn` are its two cases. For the refinement,
`SessionByPlace` says at which places the abstract session exists, and
`StepImplementsLink` finds for every action the step of `CloudLink` it is, or
shows that it leaves state and session alone. Assumptions: those of the
modules on their constants (`NullCtx` is no cell, guarded senders are senders,
holders are none of the table's other parties, there is a descriptor).

`TcpServerProofs` proves, for any number of slots, descriptors and stray closes,
of the server's `Spec`:

| Theorem | Property |
|---|---|
| `ServerTypeCorrect` | `TypeOK` |
| `OneTaskInCharge` | `FilledSlotIsLetGo` |
| `ReceiverOwnership` | `ReceiverOwnsItsSlot` |
| `DistinctSockets` | `SlotsHoldDistinctSockets` |
| `MutexDiscipline` | `SlotsChangeUnderMutex` |
| `ServerIsSlotPool` | `ImplementsSlotPool` |
| `LossIsBounded` | `LossOnlyByTimeout` |

That a slot being filled has no task in charge of it is not inductive: it must be known
that a slot with such a task is not FREE, in particular one whose task has lost the
race for the mutex, and that the slot stays whole between `GiveSlot` and
`CreateOk`, when nobody holds the mutex. `SlotInv` says so. `MutexInv` ties the
holder to the places of all tasks; with it two tasks are never inside critical
sections at once, and `Undo` and `Clean` cannot meet in one slot. Tasks on their way
out (`leaving`) do not come into it: they touch no field of the slot but its name. `SocketInv` adds that the
socket just accepted is in no slot yet; it needs no bound on what was lost,
because a lost socket stays open and its number is not given out again. The
lemmas follow the actors: start, accept loop, receive task, the others.
`HandInv` (the accept task has no socket in hand between two rounds) is what the
refinement needs: without it `Accept` could forget one. Each action is then a
step of `SlotPool` or changes none of its variables (`AcceptPool` to `StrayPool`,
put together in `StepImplementsPool`). `LossIsBounded` is proved of `SlotPool`, where it is inductive, and
carried over: there a step adds one element to one of two sets and one to
the count, or takes elements away (`LossCounted`).
Assumptions: there is at least one slot and one descriptor.

`RadioProofs` proves, for a queue of any length, of the `Spec` of `Radio`:

| Theorem | Property |
|---|---|
| `RadioTypeCorrect` | `TypeOK` |
| `FlagIsRight` | `FlagFollowsStation` |
| `LightsInStep` | `PatternFollowsState` |
| `HandleIsRight` | `HandleFollowsCentral` |
| `SilenceHasACause` | `SilentOnlyAfterFailure` |

`FlagFollowsStation` speaks of an empty queue only, so it says nothing about the
steps that lead there. `IInv` says what the flag will be: the last address or loss in
the queue decides, and if there is none, what the handler is doing, or the flag
itself. Posting at the end of the queue changes what decides together with the
station; taking from its front does not, unless it takes the last. The lemmas on
sequences say what `Append` and `Tail` do to that.

`InboundProofs` proves, for any stream, ring and command buffer, of the `Spec` of
`Inbound`:

| Theorem | Property |
|---|---|
| `InboundTypeCorrect` | `TypeOK` |
| `BusKeepsOrder` | `BusCarriesWholeFramesInOrder` |
| `LinesStayApart` | `LinesAreKeptApart` |
| `InboundIsFrameRoute` | `ImplementsFrameRoute` |

For the bus, the invariant adds that the frame in hand is newer than every frame on
the bus, and that a frame which parses is whole. For the terminal, that the
characters in the ring follow one another as they were typed, or are marked with a
gap, and that the last of them agrees with where the user is in the line.
`HandInv`, inductive together with `IInv`, adds that at a write the parser has accepted the
record exactly if it holds one good frame, and that a part or a pair never came
whole. So both writes are calls of `FrameRoute` with the same frame, and the reads
that bring no good frame leave it alone.

`SettingsProofs` proves, for any numbers typed, presses of the button, commands and
errors of NVS, of the `Spec` of `Settings`:

| Theorem | Property |
|---|---|
| `SettingsTypeCorrect` | `TypeOK` |
| `FlashKeepsToMetadata` | `FlashFitsMetadata` |
| `OkIsDurable` | `OkMeansDurable` |
| `AcknowledgedFound` | `AcknowledgedIsFound` |
| `ResetKeepsStation` | `ResetConfiguresStation` |
| `SettingsIsParamStore` | `ImplementsParamStore` |

None but the first two says anything about a job that is not over. The invariant
therefore describes jobs: what a task has done (`did`) is stored and durable, unless
it was set again; as long as nothing has disturbed a factory reset, each of its
texts is still to be set, set and about to be committed, or in place. That flash is
safe from a restart needs its durable half to fit the table too. The lemmas follow
the steps of a job: begin, set, commit, give up, end, restart. That the port can
never be stored is part of the invariant: no command has a text for it. It is why
LPTQ2, which asks for it, may be answered ERROR without breaking a promise.
For the refinement, a `SetOk` is the abstract setting, the end of a command the
promise (what it has done is settled), a restart keeps what is settled and finds
nothing the table refuses, and reads ask; everything else asks for nothing.

`UplinkProofs` proves, for any size of a byte, any lengths and any number of frames
and heartbeats, of the `Spec` of `Uplink`:

| Theorem | Property |
|---|---|
| `UplinkTypeCorrect` | `TypeOK` |
| `NumbersAdvance` | `NumbersAdvanceUnlessOverlap` |
| `CounterIsNotZero` | `CounterLeavesZero` |

`AloneInv` says what a builder that is alone has read of the counter at each of its
places, and what the counter is then: the expected number, its successor modulo
2^16, or 0 on the way to 1. `BytesOfNumber` is the arithmetic of the two bytes. That the
counter is not left at 0 holds with any overlap, by another argument: whoever makes
it 0 still has the test of the wrap before it, and nobody leaves that test with the
counter at 0.

`SequenceFacts` states what taking the first element and appending one do to a
sequence; the proofs about queues, jobs and the bus cite it. All theorems are about `Spec`,
without fairness. `SlotPool`, `ParamStore` and `FrameRoute` promise safety only, so
their refinements are proved whole; of `CloudLink` the safety half is.

Model-checked only: every liveness property (TLAPS has no ENABLED): `Reconnects` and the
progress half of `CloudLink`, `MutexIsGivenBack`, `AcceptedFrameIsForwarded`,
`WholeFrameReachesBus`, `StationComesBack`, `LightShowsWifi` and `ResetEndsInRestart`.

## 8. Not modelled

- Bytes: CRCs are right or wrong, texts are classes, frames have an identity.
- mbedtls: a context is free, raw or initialized. That two tasks may be inside one
  context at once is visible in `TcpClient`; what mbedtls does then is not.
- WiFi: the access point side, whose state nothing reads, and a static address.
  Losing an address without losing the station is modelled; the handler is not told.
- BLE: whether `ble_task_init` finds the characteristics is either outcome, taken at
  boot. `ble_send_callback` is never reached.
- LED: the restart after errors, which nothing counts.
- Terminal: what the commands that read no parameter answer.
- NVS: errors of reads other than a parameter that was never set.
- Code without a caller: OTA, poll timer start, ring buffer, `heartbeat_stop`,
  `param_reset`, frames of function codes 195 and 196, the server's TLS branches.
- One-shot initialisation and the stubs that are not compiled.
