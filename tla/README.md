# Verification of ModbusTools

ModbusTools is a pair of Qt programs built on one C++ library: a Modbus client
that polls devices over TCP or serial lines and a Modbus server (simulator).
This directory holds TLA+ modules that model the parts of the code in which
something can go wrong between two calls, two threads or two messages, TLC
configurations that check them on small instances, and proofs for the TLA+ proof
system. Paths below are relative to the repository (`src/modbus/...` is
`src/src/modbus/...` seen from this directory's parent).

## Inventory

| part | code | state | operations |
|---|---|---|---|
| client port | `modbus/ModbusClientPort.*` | `m_state`, `m_currentRequestParams`, `m_repeats` | `getRequestStatus`, `cancelRequest`, `request`, `process`, `close` |
| client API | `modbus/ModbusClient.*` | none between calls but `m_rp` | `readCoils` ... `writeMultipleRegisters`, polled until not Processing |
| port base | `modbus/ModbusPort.*` | `m_block`, `m_unit`, `m_func`, `m_changed`, `m_state` | `writeBuffer`, `readBuffer`, `open`, `close`, `write`, `read` |
| TCP port | `modbus/ModbusPortTCP.*` | socket, `m_buff`, `m_sz`, `m_packetSz`, `m_transaction`, `m_timestamp` | the same, over a byte stream |
| serial ports | `modbus/ModbusPortSerial.*`, `RTU`, `ASC` | serial port, `m_buff`, `m_sz`, `m_timestamp` | the same, frames ended by silence |
| server port | `modbus/ModbusServerPort.*` | `m_state`, `m_cmdClose`, unit, function, buffers | `process`, `processInputData`, `processDevice`, `processOutputData` |
| TCP server | `modbus/ModbusServerTCP.*` | list of connections, `m_state`, `m_cmdClose` | `open`, `close`, `process` |
| codecs | `modbus/Modbus.cpp`, `readBuffer`, `writeBuffer` | none | `crc16`, `lrc`, `bytesToAscii`, `asciiToBytes`, the frame of each function |
| messages | `client/runtime/client_runmessage.*`, `client_runitem.*` | range, items and buffer of a message | `addItem`, `prepareToSend`, `setComplete` |
| client runtime | `client/runtime/*` | per device: item and message queues, current message; per port: a thread | `run`, `push/pop...`, `createReadMessages`, `createWriteMessage`, `sendMessage`, start and stop |
| send dialog | `client/gui/dialogs/client_dialogsendmessage.cpp` | `m_message`, `m_timer` | `sendOne`, `sendPeriodically`, `stopSending`, timer |
| core runtime | `core/runtime/*` | `m_project`, threads | `start`, `stop` |
| server runtime | `server/runtime/*` | devices by unit, `m_timestamp` of a device, action tasks | delay of a response, `Increment`, `Sine`, `Random` actions |
| device memory | `server/project/server_device.cpp` | four memory blocks, a lock each | bit and register access, resize |
| tables of a device | `server/gui/device/server_deviceuimodel.cpp` | change counter, cached bytes | refresh, paint, edit |
| values | `core/sdk/mbcore.cpp` | none | `toByteArray`, `toVariant` in every format and order |
| project document | `core/project`, `client/project`, `server/project` | ports, devices, references, units, views, items, actions | the commands of the menus, start and stop |
| project files | `core_builder`, `*_builder`, `*_dom` | the file | `loadXml`, `saveXml`, references by name |
| settings | `settings`, `setSettings` of every class | the fields of an object | take, give back |
| dialogs | `*/gui/dialogs/*` | what the widgets hold | fill, show, accept |
| shared objects | `core/sdk/mbcore.h`, `mbcore_sharedpointer.h` | reference count | `incRef`, `decRef` |
| windows, trees, plugins, help | `*/gui`, `help` | | show |

How they interact: the GUI thread starts and stops the runtime, which makes one
thread per port. On the client a port thread calls `run()` of each device on the
port in turn; `run()` picks a message (one sent from the dialog before a write
before a read that is due) and polls one `Modbus::Client` API function until it
is finished. All devices of a port share one `ClientPort` and its `Port`. The
GUI thread reaches a device's queues under a read-write lock. On the server a
port thread calls `process()` of a TCP server, which polls one `ServerPort` per
connection, or of one serial `ServerPort`; requests run on the memory of the
device that has the unit's number, which action tasks and the GUI change from
their threads. A project is edited by menu commands and dialogs in the GUI
thread, beside the threads that run it.

### Hard behaviours, and what makes each part correct

*Client port.* Every client of a port polls the same state machine. A request is
served over many calls; between them other clients call in, the line goes up or
down, settings change, and an attempt may fail and be repeated. `writeBuffer` is
called on every poll and silently does nothing while the buffer is taken. It is
correct when the buffer, the expected response, the repeat count and the line
belong to one client from the moment it is taken up to the end of its call, and
when nothing of that is left for the next one.

*TCP port.* A response is a piece of a byte stream, cut into segments anywhere.
It may be late, double or missing. It is correct when a response that is
accepted is the answer to the request that waits for it, and when every call
ends.

*Serial ports.* As the TCP port, but frames end by silence and carry no number,
and the port stays open after a timeout. Correct when a late answer is not taken
for the next one's.

*Client runtime and dialog.* Three sources of messages (dialog, written values,
read groups with their periods) from two threads, one port for several devices,
and stop and restart in between. Correct when a message is at one place only,
messages are executed in order, nobody starves, and whoever waits for a message
is told.

*Messages.* Items with neighbouring addresses share a message. Correct when each
item's bytes are inside the message, when no address is written that no item
has, and when writes to one address keep their order.

*Core runtime.* The GUI thread waits for its threads inside an event loop that
can start the next stop, open a project or end the program. Correct when threads
only ever use the open project, no thread object is deleted under its thread,
and every stop ends.

*Server port, TCP server, server runtime.* Several connections and units share
one device and one delay timer. Correct when each request has one reply or none,
on its own connection, after its own delay.

*Device memory.* Bits and registers on the same bytes, reached by port threads,
actions and GUI under a lock per access. Correct when an access equals its
definition on a plain array of bits and when an `Increment` loses no client's
write.

*Frames and values.* A value typed in one program passes a format, a byte order,
a register order, an item's place in a message, a frame, a line, a memory and
the way back. Correct when what is taken for good is true, and what is shown is
what is stored.

*Projects.* Objects refer to each other by pointers while a project is open and
by names in its file; menu commands change them beside threads that use them.
Correct when nothing refers to what is deleted, what runs is what is shown, and
a file gives back what was saved.

*Settings and dialogs.* A dialog is one object for all its uses, and a setting's
meaning may hang on another. Correct when an accepted edit changes what the user
typed and nothing else.

*Shared objects.* Correct when an object is deleted exactly when its last
pointer goes.

## Modules

| component | modules | proofs |
|---|---|---|
| what a client port promises | `RequestChannel` | |
| client port, client calls, write buffer | `ModbusClientPort` | `ModbusClientPort_proofs` |
| TCP port under it | `ModbusPortTCP` | `ModbusPortTCP_proofs` |
| serial port under it | `ModbusPortSerial` | `ModbusPortSerial_proofs` |
| client runtime over a channel, send dialog | `ClientPolling`, `ClientPollingTurns` | `ClientPolling_proofs` |
| client messages and items | `ClientMessages` | `ClientMessages_proofs` |
| start and stop, both programs | `CoreRuntime` | `Projects_proofs` |
| what a server promises | `RequestService` | |
| server ports, TCP server, delays, actions | `ModbusServerPort`, `ServerRuntime` | `ServerRuntime_proofs` |
| device memory and its table | `ServerDevice` | `ServerDevice_proofs` |
| the two projects and their commands | `ProjectDocument`, `ServerProject`, `ClientProject`, `Projects` | `Projects_proofs` |
| settings, forms and dialogs, project files | `Settings`, `Forms`, `SettingsDialogs` | |
| values, frames, a message from field to memory and back | `Conversions`, `Frames`, `MessageExchange` | |

```
ClientPolling --uses--> RequestChannel <--implements-- ModbusClientPort
      ^                                                 ^           ^
ClientPollingTurns                             ModbusPortTCP   ModbusPortSerial
ServerRuntime --extends--> ModbusServerPort     ServerRuntime --implements--> RequestService
Projects --extends--> ServerProject, ClientProject --extend--> ProjectDocument
SettingsDialogs --extends--> Forms --> Settings
MessageExchange --extends--> Frames --> Conversions
Projects_proofs --extends--> Projects, CoreRuntime
ClientMessages, ServerDevice stand alone
```

`ClientPolling` does not contain the state of a port. It uses the four
operations of `RequestChannel`, and `ModbusClientPort` is shown to offer no more
than those, so what holds of the polling holds on every port whose `ClientPort`
behaves as modelled. `ModbusPortTCP` and `ModbusPortSerial` extend
`ModbusClientPort`: each of their steps is a step of that module, narrowed to
what this class of port can do at that point (`TcpPortIsPort` and
`SerialPortIsPort` prove it).

MC modules give names to the constants' values and, in `MCClientMessages`, let
TLC evaluate the hypotheses of the theorems; each `.cfg` is one run. Three of
them check a statement of the help that the code does not keep (below).

## Client port: `RequestChannel`, `ModbusClientPort`

`RequestChannel` is the abstract specification: an owner, whether its request is
on the line, how often it was sent, how the last call returned.

`ModbusClientPort` has the fields of `ClientPort` (`state`, `current`,
`repeats`), of `Port` (`block`, `expect` for unit and function, `isOpen`,
`changed`), the contents of the write buffer as the request they encode
(`buff`), the call every caller is in (`call`), and history variables. One step
is one call of an API function of `Modbus::Client`: `getRequestStatus`, then
`writeBuffer`, then `process()` up to where it returns. `open`, `write` and
`read` of the port below may answer Good, Bad or Processing at each call.
`LineChanges`, `SetSettings` and `Close` are what may happen between two calls.
What a call checks of a response (length, echo) decides Good or not, and is a
free choice.

**Run `clientport`.** Two clients; a normal request, one that the client refuses
and one that overflows; two attempts. Do buffer, expectation, counts and line
belong to the owner (`PortIsOwned`), is Good for the caller's own request
(`GoodIsForOwnRequest`), and is this a `RequestChannel` (`ChannelSpec`)? Two
clients are enough for every conflict, since the port only knows "the owner" and
"another"; two attempts are enough for a repetition and its end.

**Proved**, for every set of clients and requests and every repeat count: the
type invariant, both safety properties and `ChannelSpec`. They are not inductive
alone. `IInv` adds that the owner is in a call (`OwnerCalls`), that the buffer
holds its request until the response is read into it (`BufferHoldsOwn`), that
the owner finds the buffer free only to repeat (`BufferFreeOnlyToRepeat`), and
that a send is paid for by a failure (`SendsCounted`); without the third a
skipped `writeBuffer` could not be told from a harmless one, without the last
the bound on sends does not follow. Lemmas state what `WriteBuffer`, `Continue`,
`Finish` and `Fail` do to `IInv`; each way through `process()` is one of them.
The refinement maps each step to a step of the channel or a stutter under
`IInv`. Assumed: `ModbusClientPortAssumption`.

## TCP port: `ModbusPortTCP`

A stream of cells (transaction, length, head, data) instead of bytes; the cell
boundaries are those the code looks at. Each way through `process()` is tied to
the branch of `PortTCP::open`, `write`, `read` or `readBuffer` that takes it.
The server answers each request once, late or never, and `MaxExtra` times twice;
`Deliver` cuts the stream anywhere, inside the prefix only if `SplitPrefix`. The
clock is not modelled: a timeout may elapse whenever the code looks at it. A
read of a socket that has bytes available is taken not to fail. Requests that
overflow are left to `ModbusClientPort` (`Overflow = {}`).

**Run `porttcp`.** Two clients, one double answer, one refused write,
transactions modulo 3. Is the connection empty when the next request is written
unless something was answered twice (`NothingLeftOver`), is Good always the
answer to this very request (`GoodIsOwnAnswer`), does every call end
(`CallsEnd`)? The counter is 16 bits wide in the code; here it wraps at 3, so
that it wraps within a run. The bounds `MaxExtra` and `MaxWriteErrors` are those
of one connection. With more double answers and refused writes than the counter
has room for it comes round to an old answer, which takes 65536 of them in one
connection in the code. `SplitPrefix` is FALSE: a segment that ends inside the 6-byte
prefix is the known defect at `ModbusPortTCP.cpp:285` (below); `SizeErrorIsTrue`
in the module states what it breaks.

**Fairness.** Each client's call is made again and again and progresses (`SF`:
the port is given in turn, see `TurnsAreFair`), bytes that were sent arrive
(`WF` of `Deliver`). Nothing is assumed of the server. `CallsEnd` excludes
settings that change for ever.

**Proved**, for every set of clients and requests, all lengths and bounds, under
`~SplitPrefix`: `TcpTypeOK` and `NothingLeftOver`; and without that hypothesis
that every step is one of `ModbusClientPort` (so all its theorems hold of a TCP
port). `NothingLeftOver` says only what is *between* two exchanges. `TcpIInv`
adds what is on the way during one: what has arrived and is in transit falls
into whole frames, of which the first may already be partly read
(`StreamIsFramed`); as long as nothing was answered twice there is one request
or one response, and what is missing of a response is no more than what its
length field says (`OneAtATime`); nothing but the answer crosses from one
connection to the next (`ConnectionsApart`). The lemmas on frames say what
reading a prefix, appending and cutting keep of a stream.

`GoodIsOwnAnswer` is proved under `~SplitPrefix` and `MaxExtra + MaxWriteErrors <
Transactions`, which the run's instance meets, and the code in any connection
with fewer than 65536 double answers and refused writes. That the transaction
compared is the request's own is not enough: the counter wraps, so what has to
be shown is that no stale frame with the same number is still about. `OwnIInv`
gives each frame that can still come (in the stream, as the answer to a request
not yet answered, or as a second answer) its place in the order of reading, and
says that its `age` in transactions plus its place never exceeds `behind`, the
double answers and refused writes of this connection plus the request being
waited for (`InOrderOfAge`). A double answer adds a place, a refused write a
transaction, and both add one to `behind`; a write ages every frame by one while
`behind` grows by the request waited for; reading a response to its end moves
every other frame up by one place and takes that one from `behind`. So the oldest frame is less than one turn of the counter old,
a new number is on no frame, and only the frame of the request itself bears it
(`NumbersAreFresh`). `ResponsesAreWhole` carries that from the first cell of a
response, which has the number, to all the cells that are read with it. TLC
checked `TcpIInv` and `OwnIInv` as invariants of the instance of `porttcp`
before they were proved.

## Serial ports: `ModbusPortSerial`

The port of a `ModbusClientPort` on a line of cells (head, data, end,
exception). A device may be late or pause inside a frame; silence is a choice
whenever the code compares the clock. A checksum is taken to be right for the
whole frame and wrong for anything else. What had come in before a request was
written is marked `old`.

**Run `portserial`.** Two clients, responses of 3 cells, a buffer of 9, which
late answers that come in one after the other fill in the run. A response is
accepted only as one whole frame of the unit and function that were asked, of
which nothing had come in before the request (`GoodIsTimely`), and calls end
(`CallsEnd`). An answer of the same unit and function that was still on its way
when the request was written may pass for the new one: the protocol has no
number, so this is no property. No more comes in at once than the buffer holds
(see the defects). Fairness: each call progresses (`SF`), as above.

**Proved**, for every buffer size and all lengths: the types (`SerTypeCorrect`),
`GoodIsTimely`, and that the port takes only steps of `ModbusClientPort`.
`SerIInv` adds that a cell of data and a checksum always follow a cell of their
own frame (`Joined`): the frame in front may have lost its beginning, never its
middle, so that what begins with a head and ends with a checksum is one frame.

## Polling: `ClientPolling`, `ClientPollingTurns`

One step of the port thread is one `run()` of the device whose `turn` it is: it
takes the items written since (`createWriteMessage`), and starts or goes on with
a message. `external` and `toWrite` are the queues of `mbClientRunDevice`,
`state`, `message`, `writes` and `reads` are private to the runnable. The GUI
thread acts between two `run()`s; the code's lock per queue makes finer
interleavings equal to these, since a `run()` looks at each queue once. The
clock is not modelled: `PeriodElapses` may happen at any time. Which items share
a message is `ToWrite`'s choice here and `ClientMessages`' matter.
`ClientPollingTurns` adds two counters of history.

| run | question | bounds |
|---|---|---|
| `polling` | Is a sent message at one place and in order (`SentOnceInOrder`), is the port's owner at work (`OwnerIsExecuting`), through stop and restart; is anyone passed over twice (`TurnsAreFair`)? | 3 devices, one with two read groups; 2 sent messages, 1 written value, 1 restart |
| `polling_live` | Do sent messages complete, reads and writes get served (`Served`)? | 2 devices, 2 read groups, 1 sent message, 1 value, 1 restart |

Two messages are enough for an order, three devices for "another device between
two turns". The runs leave one repetition out (`MaxTries = 1`), which is the
channel's matter.

**Fairness.** The port thread runs (`WF` of `Run`). A call of a device that has
the port ends (`SF` of `CallEnds`): `CallsEnd` of `porttcp` and `portserial`
shows it; it is strong since the step is enabled only in that device's turn. The
dialog's timer and the periods elapse (`WF`). Nothing is assumed of the user.
Reads and writes are claimed to be served once the dialog's timer is off: with a
short period it has priority by design.

**Proved**, for any number of devices, read messages, sent messages, written
values and restarts: all safety properties of the run. None is inductive alone.
`IInv` adds that a device's state fits its message (`MessageFitsState`), that
the dialog's message is the newest (`DialogIsNewest`: so the timer may put it
behind any queue), that what is held or completed was created
(`HeldWereCreated`) and that what waits to be written was counted
(`WritesCounted`). A step lets the messages of the devices stay, lets the first
of one device leave, lets the newest join at one end, or clears them all; each
keeps the messages apart and in order. For `TurnsAreFair`, `TurnsInv` says where
the turn stands between a device that was passed once and the one that passed it
(`PassedOnce`, by the distance `Gap` in the round, for every number of devices),
and that a read message that was overtaken stands before the one that did it
(`OvertakenOnce`). It assumes that a read message belongs to one device
(`ReadsOfOneDevice`, which `createReadMessages` makes so).

## Client messages: `ClientMessages`

One device's items, its read and write messages with their ranges and buffers,
as `mbClientRunMessage::addItem` makes them and `prepareToSend`/`setComplete`
use them. A memory of registers whose values are the numbers of the edits stands
for the device, so that "older" and "newer" are `<` and `>`. A request may be
lost before or after it is carried out.

**Run `clientmessages`.** 4 registers, items of one and two registers in two
periods, with neighbours and an overlap, 2 registers a message, 3 edits of two
items. An edit is never forgotten unless its request was lost (`EditsLand`),
what an item shows as good is what the device held at its own addresses
(`ShownIsRead`), no request puts an older value over a newer (`NewerStays`).

**Proved**, for every set of items, every size and number of edits. The
properties are *not* true of every set of items, because of the defects listed
below, so the theorems name what they need, and TLC evaluates the same
conditions on its instance (`HypothesesHold`):

| condition | meaning | needed because |
|---|---|---|
| `FitsBuffer` | a message fits in the buffer | nothing checks it |
| `BelowTop` | no item ends with the last address | the end is 16 bits wide (`client_runmessage.cpp:242`) |
| `NoneReachesOver` | no item of a period begins before and ends behind another | `:248` moves only the beginning |
| `EditsApart` | edited items do not overlap | two edits of one register have no order between items |
| `EditsAdjoin`, or `[]NoGap` | edited items that fit in one message have nothing between them | what lies between is sent as well (`:243`) |

`TypeOK` needs the first, `ShownIsRead` the first three, `EditsLand` and
`NewerStays` the first two and `EditsApart`, for behaviours in which no write
message has a gap (`EditsLandOrAreLost`, `NewerValuesStay`), and for all
behaviours if `EditsAdjoin` (`AdjoiningEditsLand`). The inductive invariants:
`TInv`, every message asks for a range that exists and each item to read is in
one; `RInv`, a read message covers its items; `WInv`, edits are in order within
a message, from one message to the next and in the queue, an item in a later
message was not acceptable to any earlier one, and the device has nothing newer
than what waits and nothing older than what was carried out; `AllTight`, a
message begins and ends with one of its items. What `AddItems` makes of a whole
queue and what a search in a list finds are recursive functions; their equations
and results are proved by the least counterexample, since the library's
induction cannot be used.

## Start and stop: `CoreRuntime`

`project` and `status` are `mbCore`'s, `runtime` is `mbCoreRuntime`'s project,
each thread is starting, polling or finished with its own flag `ctrlRun`,
`frames` counts the calls of `stop()` waiting in their loops. `Enter` is the
moment `run()` sets its own flag; `overrun` is history: a thread has set its
flag after `stop()` cleared it. GUI events may happen in the main loop and in a
waiting `stop()`.

**Run `coreruntime`.** A task thread and three port threads, two projects. Is
the status true, do threads use the open project, does none outlive the program
(`LifeCycle`), is no thread object deleted under its thread
(`DeletedWhenFinished`), do stop and exit end (`Ends`, except after an
`overrun`, a known defect)? Threads do not interact with each other, so a few
stand for any number. Deadlock is not checked: the program ends. Fairness:
threads are scheduled, waiting loops go round (`WF` of `Enter`, `Leave`,
`EndStop`, `LastStop`, `Exit`).

**Proved** in `Projects_proofs`, for every set of threads and projects: all
safety properties. `CoreIInv` is the type invariant, `StatusIsTrue`, that what
runs was started on the open project (`RunsTheOpen`: without it opening another
project could not be seen to be harmless), and that the program ends only when
nothing runs. The proofs are beside those of the projects because one theorem
needs both (below); what both modules define has the prefix `Core` here.

## Server: `RequestService`, `ModbusServerPort`, `ServerRuntime`

`RequestService` is the promise: a request arrives, is carried out at most once,
at one moment, on a memory that all share, and its answer is the outcome of that
moment. `ModbusServerPort` has every way through `ServerPort::process` for a
port; `ServerRuntime` has the thread of a serial port, the thread of a TCP
server walking over its connections (`accept`, poll, erase), the one timestamp
by which a device's delay is measured, an action, start and stop. A request is a
unit, an operation and a value, a frame is good or garbled. `close()` and
`m_cmdClose` are left out: a thread destroys its port as soon as it has called
`close()`.

**Run `server`.** A serial port and a TCP server with two connections, a unit of
a device with a delay and one of nobody; `MaxDelay = 1`, one frame waiting per
port (`MaxInput`); the serial port is asked for a write, an excess of addresses
and garbled frames, the connections for reads (`Asks`), which is what reaches
each branch once. Is it a `RequestService` (`ServiceSpec`), does a serial port
wait out the delay of its device (`SerialDelayed`), and does the delay never stop
all connections (`DelaysEnd`)? Fairness: the TCP thread's steps (`WF` of its four
kinds together) and the clock (`WF` of `Tick`).

**`ServerDelay.cfg`** holds the same instance against what the help says of every
device, that its delay passes before an answer (`ResponseDelayed`): **violated**.
The connections of a TCP port share one timestamp, and a request that finds it
set by another connection, or left by one that was dropped, is answered early or
at once. So a connection may be answered before its delay; that *each*
connection's delay ends is not true either and is not claimed: connections that
keep asking take the elapsed delay from each other (below).

**Proved**, for every set of ports, units, devices and requests, every delay:
`TypeOK`, `ServiceSpec`, `SerialDelayed`. `IInv` adds that a request is kept over
a call only for a delay (`KeptForDelay`), that a serial port's timestamp is set
only while a request is kept and not before it was read (`StampsAreLate`: what
makes the delay of its answer at least the device's), and where the loop over the connections stands. A call of `process()`
is looked at once, as what it does to its port, and mapped to an arrival, an
execution, an answer or a drop.

## Device memory: `ServerDevice`

One block of memory as the set of its bits, with `readBools`, `readBits`,
`writeBits` (16-bit window, shifts, signed mask, the rest of a byte), byte and
register writes, masked write, the resize, an `Increment` action, and a table
that takes the change counter first and the memory afterwards. The four blocks
are alike. A byte has `W` bits.

**Run `serverdevice`.** W = 3, memories of 4, 6 and 7 bits (less than, exactly
and more than two bytes), up to 5 bits at every offset, 2 changes. Do the bit
functions agree with their plain definition on a set of bits (`BitsAgree`), does
a table whose counter is the memory's show the memory (`ShownIsCurrent`), and
does it catch up (`ShownCatchesUp`; `WF` of `Refresh` and `Paint`)? Three bits a
byte have a first, a middle and a last bit, and every alignment.

**Proved**, for every `W` above 1, all sizes, offsets and counts: the three
safety properties. The words, shifts and masks are taken apart into "which bit
comes from where"; the loop over bytes is known in closed form, proved by its
least counterexample. The signed shift of the rest mask is part of it
(`SignShifted`, `RestMaskExact`).

## Projects: `ProjectDocument`, `ServerProject`, `ClientProject`, `Projects`

Objects in their lists, the names they have, the keys they are found by, a
port's devices with their units and the table that a port looks units up in, the
views' items and the actions, and every menu command of both programs that
changes them, with its guard against a running project; save and open; start and
stop, which build what runs from what is shown (`run`). A project belongs to one
of the programs; the bounds `MaxViews` and `MaxRows` are per program.

**Run `project`.** 2 ports, 2 devices, one view, units 0 to 2 (`MaxUnit` stands
for 255; a table of three is exhausted within a run), three names of each kind,
so that one is always free. Names, keys, unit tables and ports agree and nothing
refers to what was deleted (`ReferencesAgree`, `TypeOK`), what runs is what is
shown (`RunsWhatIsShown`), and a project that is saved and opened is the same
(`ReopenKeeps`): same objects in the same order, same rows, units and ports,
same names of ports and devices. The names of views are kept only if no two
views show the same one (`ViewsNamedApart`); two may
(`core_dataview.cpp:470`), and then come back under two. With the run's one view
that cannot happen; the theorem has it for any number. Names and devices are symmetric: a command may ask for any
name, and nothing tells devices apart. `ViewNameLeft` bounds the names that a
document can keep for views it no longer has.

**Proved**, for every set of ports, devices, views and names, every `MaxUnit`
and every set of units a command may ask for: all four properties
(`ProjectTypeOK`, `ProjectReferencesAgree`, `ProjectRunsWhatIsShown`,
`ProjectReopenKeeps`). Assumed is that a free name is always found (the
code counts up until it finds one) and that `"actions"`, by which `rows` knows
the list of a server's actions beside those of the views, is not a view.

`IInv` is a document whose keys are its names (`DocIs`), rows that refer to its
devices (`RowsAre`), references, units and unit tables of ports that agree with
each other and stay in the project (`RefsAre`), devices in the list of the port
they say (`MembersAre`), and `RunsWhatIsShown`. It is stronger than what the run
checks at one place that matters: a server's project has no members and a
client's no references, and it is a client's devices, all of them and no
others, that have a port. Without that neither the deletion of a port nor the
loading of a file keeps `TypeOK`.

Deleting a device, clearing a port, loading a file and taking over units are
loops over a list, written as recursive functions. `Loop` and `EachTurn` say,
by a least counterexample, that what each turn keeps holds in the end; a lemma
per operator (`DocAdded`, `UnitsRemovedIs`, `RefAddedIs`, `LoadedKindIs`, ...)
says what it does to any document, references or memberships. That the units of
a reference survive their text (`UnitsStr`, `UnitsList`) is proved with the
turning points of the runs of consecutive units.

`ThreadsRunWhatIsShown` joins the two modules: the commands know of the runtime
only that it runs, and the life cycle knows of the project only which one is
open. If both agree on when the program runs, a thread at work runs the project
as it is shown.

## Settings and dialogs: `Settings`, `Forms`, `SettingsDialogs`

`Settings` has, per class, each field with its default and what the class makes
of a value it is given; `Forms` what each dialog shows of a field and gives
back, and which widgets keep what they held; `SettingsDialogs` makes, edits,
saves, cuts the file short, and opens.

**Run `settings`.** Two objects of every class, two dialogs, three uses, one
field typed at each use (an edit of two fields is two edits of one, as no dialog
checks two fields against each other). An accepted edit changes what the user
typed and nothing else that the dialog can show (`EditsKeep`); a whole file
gives back what was written and a cut one its beginning (`FileKeeps`). After a
crash the project is only opened again. Deadlock is not checked: the user stops
at the bounds. Only model-checked: a proof would be one evaluation per field,
which is what the run does.

## Values and frames: `Conversions`, `Frames`, `MessageExchange`

`Conversions` has what a typed value becomes in memory and is shown as, in every
format and order; `Frames` the checksums, ASCII digits and frames of every
function; `MessageExchange` sends every function of the dialog over the three
protocols to a server and shows the answer, reads and writes items of a view,
sets values in the server, loses and garbles frames, and changes formats
meanwhile.

**Run `exchange`.** 3 bits a byte, so that a register has 6; five combinations
of protocol, order and refusal rather than their product; items of each kind;
one message, one value set in the server, one fault. The memory changes only as
a message says, and good is true (`AnswersAreTrue`); what is shown is what is
stored (`ShownIsStored`). A second message would depend on the first only
through the memory, which `ServerSetValue` sets to anything a first could leave.
What is typed is claimed to be stored for numbers, except in an item with
MostSignifiedFirst bytes (`client_dataview.cpp:180`), and for byte arrays, except
in UDec; of strings and Bool only that they are shown as they are stored.
Deadlock is not checked: the user stops at the bounds. One message at a time; no
repetition (the client port's matter); texts are typed anew; strings have one
byte a character and end with a zero. Only model-checked: frames are lists of
bytes built by folds, so a proof would be induction over data.

**`ArrayUDec.cfg` and `ArrayDefault.cfg`** hold two statements of the help about byte
arrays, on small sets of items and texts, both **violated**: that one typed in
any of the five formats is stored (`ArraysAreStored`: the digits of UDec are
read as hexadecimal), and that an item in Default is shown in the format of its
device (`DefaultIsOfDevice`: it is shown in Hex).

## What the models showed of the code

Every property above holds of the code as modelled, except the three of
`ServerDelay.cfg`, `ArrayUDec.cfg` and `ArrayDefault.cfg`, which state what the
help says and which TLC finds violated in seconds; `PROJECT.json` lists the runs
that pass. These are places where writing the model showed that the program does not do what one would expect;
where a property would be broken, the run's bounds or a hypothesis named here
leave the case out.

*Ports.*
- `ModbusPortTCP.cpp:349` with `ModbusClientPort.cpp:126`: a request that
  overflows the frame buffer is refused by `writeBuffer`, the refusal is
  ignored, and the bytes of an older request are sent. The limits of the API
  functions (127 registers, 2040 coils) let it happen (`ModbusPortTCP.cpp:348`).
  `clientport` has such a request (`Overflow`); `porttcp` has none.
- `ModbusClientPort.cpp:136`: a repeated request is filled from an uninitialised
  buffer (`Junk`).
- `ModbusPortTCP.cpp:285`: a response cut inside its prefix is measured with the
  length field of the request (`SplitPrefix = FALSE`).
- `ModbusPortSerial.cpp:350`: when the buffer is full, `read()` is asked for 0
  bytes and the silence is timed anew; while bytes stay in the driver the frame
  does not end (`BuffSz` holds all that can come in).
- `ModbusPortRTU.cpp:88`: an exception over RTU becomes its bare code, neither
  good nor bad: the dialog shows an empty text and logs nothing.
  READ_EXCEPTION_STATUS is never answered over RTU (its frame is under the least
  size), and over ASCII reads its status from the caller's buffer. The number of
  registers in the reply to a multiple write is 0.
- `writeSingleRegister` has a precedence error in its test, and
  `readInputStatusAsBoolArray` reads coils.

*Client.*
- `client_dialogsendmessage.cpp:374`: a dialog that sends periodically waits for
  ever after a restart; the completion it waits for was dropped with the queues.
- `client_dialogsendmessage.cpp:317`: the address of a single register is not
  decremented as all others are.
- `client_runmessage.cpp:248`: an item that reaches over a message on both sides
  is taken in by moving the beginning alone; it then shows and writes bytes
  behind the message (`NoneReachesOver`). `:242`: the end of an item at the last
  address is 0 (`BelowTop`). `:243`: what lies between two written items is
  written too (`EditsAdjoin`).
- `client_runmessage.cpp:282`: a message's buffer, status and timestamp are set
  by the port thread without the lock that the GUI reads them under.
- `client_dataview.cpp:180`: setting a value swaps bytes twice for
  MostSignifiedFirst. A format of another size is ignored while running.
  `core_dataview.cpp:470`: a data view is given the name that was asked for,
  though the project has it under another when that was taken; two views that
  show one name have two when the project is opened again.
- Bool items in registers leave the high byte uninitialised; a string is sent
  beyond its data; Utf16 loses its last character.
- `mbcore.cpp:546`: the case of UDec has no break, so the parts of a ByteArray
  typed in UDec are read as hexadecimal, though memory is shown in decimal:
  12 typed is 18 shown (`ArraysAreStored`, `ArrayUDec.cfg`, against
  `help/client/ModbusClient14.html:44`). `core_dataview.cpp:399` and `:417`: the
  byte array format Default is Hex, not the device's (`DefaultIsOfDevice`,
  `ArrayDefault.cfg`, against `help/client/ModbusClient16.html:46` and
  `help/server/ModbusServer18.html:46`).

*Server.*
- `server_runthread.cpp:53`: a stop before a thread's first round is lost, and
  `stop()` waits for ever (`overrun`).
- `server_device.cpp:159`: coils at an offset that is not a multiple of 8 are
  read from an address made of a byte's value; the model lets the bits be
  anything.
- `server_rundevice.cpp:41`: a request over TCP that finds the timestamp set by
  another connection, or left by a dropped one, is answered before its delay has
  passed or at once (`ResponseDelayed`, `ServerDelay.cfg`), against
  `help/server/ModbusServer16.html:43`.
- `server_rundevice.cpp:48`: connections that keep asking can keep one from ever
  being answered, against `help/server/ModbusServer16.html:43`.
- `server_runaction.h:86`: an `Increment` reads and writes under two locks and
  may lose a client's write.
- `server_port.cpp:148`: a device whose units are all taken is shown with a free
  one, which is not entered into the port's table and so is not served
  (`UnitsAreServed` in `ServerProject` states it; no run checks it). New Bit
  actions get the same address, against `help/server/ModbusServer19.html:42`.

*Projects, files, dialogs.*
- `core_builder.cpp:466`: `loadXml` returns true after an error, which is never
  shown; `saveXml` empties the only copy before it writes. `core_ui.cpp:215`:
  Save As changes the project's path before the file is written.
  `server_dom.cpp:245`: data are written under one tag and looked for under
  others.
- `mbcore.cpp:360`: a unit of 300 becomes 44. The DOM's DefaultOrder is -1.
  Client tasks are not added to the project on load. Deleting items and actions
  leaks them.
- Dialogs: a serial port or rate that is not in the list is replaced on any
  accepted edit; the length of a client item's ByteArray is never written; an
  item without a device gets the first; an action's type becomes Bit, its orders
  are never read back; an offset of 65536 is shown as 65535; device limits
  outside the form's range are replaced; the server item's `m_variableLength` is
  uninitialised. A file cut inside an action gives address 000001 and period 0.
  The Send Message form uses the device that is current, not the message's.
- `mbcore.h:77`: `decRef` counts up.

## Only model-checked, and why

- Liveness: `Served`, `CallsEnd` (both ports), `Ends`, `DelaysEnd`,
  `ShownCatchesUp`. The prover has neither fairness nor ENABLED.
- All of `SettingsDialogs` and `MessageExchange`: finite tables and folds over
  bytes, where a proof would be one evaluation per field or codec.

No module declares a RECURSIVE operator; recursion is in functions and folds.

## Not modelled

Shared pointers: a count that is never initialised and that `decRef` raises has
no property to check. Windows, trees, plugins, help, the dialogs of tasks and of
the programs' own settings, layout and validators. The text of files and data of
device memories in them, the order of rows changed by dragging, the client's
tasks, Utf16 strings. The bytes of an exchange appear only where a property
tells them apart. `PROJECT.json` has for each component what is left out, and
for each hazard the properties that cover it.

## Running

```
tlc -workers 2 -config ClientPort.cfg MCModbusClientPort
tlapm ModbusClientPort_proofs.tla
```

Each run's module and `.cfg` are in `PROJECT.json`; `ServerDelay.cfg` goes with
`MCServerRuntime`, `ArrayUDec.cfg` and `ArrayDefault.cfg` with
`MCMessageExchange`. The slowest run takes under
three minutes with two workers (`porttcp`), the longest proofs
(`ClientMessages_proofs`, `ModbusPortTCP_proofs`, `Projects_proofs`) up to five.
