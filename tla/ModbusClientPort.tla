-------------------------- MODULE ModbusClientPort --------------------------
(***************************************************************************)
(* Modbus::ClientPort (src/src/modbus/ModbusClientPort.cpp) with the       *)
(* Modbus::Client objects that share it and the part of Modbus::Port they  *)
(* use: the write buffer with its block flag.  The port below open(),      *)
(* close(), write() and read() is any class derived from Modbus::Port:     *)
(* each of those calls may answer Good, Bad or Processing.                 *)
(*                                                                         *)
(* A client's API function (readCoils, writeSingleRegister, ...) is        *)
(* polled: it returns Processing and is called again with the same         *)
(* arguments until it returns something else.  All calls on one port are   *)
(* made from one thread, so a call is one step; the line may go up or down *)
(* between two calls.                                                      *)
(***************************************************************************)
EXTENDS Naturals

CONSTANTS
    Clients,        \* the Modbus::Client objects created on this port
    NoClient,       \* m_currentRequestParams == nullptr
    Requests,       \* function, address and values of a call
    NoRequest,      \* the caller has no call in progress
    TooLarge,       \* requests with count > MB_MAX_DISCRETS / MB_MAX_REGISTERS
    Overflow,       \* requests whose data do not fit the port's write buffer
    Junk,           \* buffer contents that are nobody's request
    RepeatCount     \* m_settings.repeatCount, 1 by default

ASSUME ModbusClientPortAssumption ==
    /\ NoClient \notin Clients
    /\ NoRequest \notin Requests
    /\ Junk \notin Clients \X Requests
    /\ TooLarge \subseteq Requests
    /\ Overflow \subseteq Requests
    /\ RepeatCount \in Nat \ {0}    \* setRepeatCount ignores 0

VARIABLES
    state,      \* ClientPort::m_state
    current,    \* m_currentRequestParams: the client whose request is served
    repeats,    \* m_repeats: failed attempts of that request so far
    block,      \* Port::m_block: the write buffer is taken
    expect,     \* Port::m_unit and m_func: whose response is accepted
    buff,       \* the request whose bytes the port's buffer m_buff holds
    isOpen,     \* Port::isOpen()
    changed,    \* Port::isChanged(): a setting has changed since open()
    running,    \* the thread that polls the port has not closed it yet
    call,       \* the call each caller has in progress
    \* history variables
    wire,       \* what was last put on the line for the current request
    sends,      \* how often the current request was put on the line
    outcome     \* how the last call returned

portVars == <<state, current, repeats, block, expect, buff, isOpen, changed, running>>
history == <<wire, sends, outcome>>
vars == <<portVars, call, history>>

States == {"BEGIN", "OPENED", "BEGIN_WRITE", "WRITE", "BEGIN_READ", "CLOSED"}

\* A frame stands for the unit, function and data bytes of one request.
Frames == (Clients \X Requests) \union {Junk}

Init ==
    /\ state = "BEGIN"
    /\ current = NoClient
    /\ repeats = 0
    /\ block = FALSE
    /\ expect = Junk
    /\ buff = Junk
    /\ isOpen = FALSE
    /\ changed \in BOOLEAN
    /\ running = TRUE
    /\ call = [c \in Clients |-> NoRequest]
    /\ wire = Junk
    /\ sends = 0
    /\ outcome = [client |-> NoClient, good |-> FALSE]

-----------------------------------------------------------------------------
(* getRequestStatus, cancelRequest and the first lines of every API call   *)

\* A caller with no call in progress starts any, others repeat theirs.
Calls(c, q) == running /\ call[c] \in {NoRequest, q}

Enable_Always == TRUE                       \* mutant: the port is never busy
Enable == current = NoClient
Process_Anyone(c) == current # NoClient     \* mutant: not compared with the caller
Process(c) == current = c
Disable(c) == ~Enable /\ ~Process(c)

\* The port serves another client: the call returns Processing.
Wait(c, q) ==
    /\ Calls(c, q)
    /\ Disable(c)
    /\ call' = [call EXCEPT ![c] = q]
    /\ UNCHANGED <<portVars, history>>

\* The count is checked once, when the port is taken; cancelRequest frees it.
Reject(c, q) ==
    /\ Calls(c, q)
    /\ Enable
    /\ q \in TooLarge
    /\ call' = [call EXCEPT ![c] = NoRequest]
    /\ outcome' = [client |-> c, good |-> FALSE]
    /\ UNCHANGED <<portVars, wire, sends>>

\* The call gets through to ClientPort::request.
Requesting(c, q) ==
    /\ Calls(c, q)
    /\ \/ Enable /\ q \notin TooLarge
       \/ Process(c)

\* Port::writeBuffer.  A blocked buffer is left alone.  A free one takes unit
\* and function first; data that overflow it are refused, and the caller
\* ignores that.  An API function fills its own buffer only when the port is
\* Enabled, so a repeated request passes an uninitialized one.
WriteBuffer_Unblocked(c, q) ==      \* mutant: the block flag is not tested
    /\ expect' = <<c, q>>
    /\ buff' \in IF q \in Overflow THEN {buff}
                 ELSE IF Enable THEN {<<c, q>>} ELSE {<<c, q>>, Junk}

WriteBuffer(c, q) ==
    IF block THEN UNCHANGED <<expect, buff>>
    ELSE /\ expect' = <<c, q>>
         /\ buff' \in IF q \in Overflow THEN {buff}
                      ELSE IF Enable THEN {<<c, q>>} ELSE {<<c, q>>, Junk}

-----------------------------------------------------------------------------
(* How request() ends                                                      *)

\* Processing: c keeps the port and its data keep the buffer.
Continue(c, q) ==
    /\ current' = c
    /\ block' = TRUE
    /\ call' = [call EXCEPT ![c] = q]
    /\ UNCHANGED <<repeats, running, outcome>>

\* Any other status: the port is free for the next client.
Finish(c, good) ==
    /\ current' = NoClient
    /\ repeats' = 0
    /\ block' = FALSE
    /\ call' = [call EXCEPT ![c] = NoRequest]
    /\ wire' = Junk
    /\ sends' = 0
    /\ outcome' = [client |-> c, good |-> good]
    /\ UNCHANGED running

\* A failed attempt is repeated, with the buffer free, or ends the call.
Repeat(c, q) ==
    /\ repeats + 1 < RepeatCount
    /\ repeats' = repeats + 1
    /\ current' = c
    /\ block' = FALSE
    /\ call' = [call EXCEPT ![c] = q]
    /\ UNCHANGED <<running, history>>

Fail_OneMore(c, q) ==               \* mutant: the failures are compared with <=
    \/ /\ repeats + 1 <= RepeatCount
       /\ repeats' = repeats + 1
       /\ current' = c
       /\ block' = FALSE
       /\ call' = [call EXCEPT ![c] = q]
       /\ UNCHANGED <<running, history>>
    \/ repeats + 1 > RepeatCount /\ Finish(c, FALSE)

Fail(c, q) ==
    \/ Repeat(c, q)
    \/ repeats + 1 >= RepeatCount /\ Finish(c, FALSE)

-----------------------------------------------------------------------------
(* ClientPort::process, one action per way through its loop                *)

AtWrite == state \in {"OPENED", "BEGIN_WRITE"}

\* The loop gets to Port::open(), from OPENED and BEGIN_WRITE by way of CLOSED.
Opens == \/ state \in {"BEGIN", "CLOSED"}
         \/ AtWrite /\ ~changed /\ ~isOpen

Opening == IF AtWrite THEN "CLOSED" ELSE state

\* open() is in progress.  It clears the changed flag when it starts.
AwaitOpen(c, q) ==
    /\ Requesting(c, q)
    /\ Opens
    /\ WriteBuffer(c, q)
    /\ state' = Opening
    /\ changed' \in {changed, FALSE}
    /\ Continue(c, q)
    /\ UNCHANGED <<isOpen, wire, sends>>

OpenFails(c, q) ==
    /\ Requesting(c, q)
    /\ Opens
    /\ WriteBuffer(c, q)
    /\ state' = Opening
    /\ changed' \in {changed, FALSE}
    /\ Fail(c, q)
    /\ UNCHANGED isOpen

\* A setting has changed: the port is closed, to be opened by the next call.
Reopen(c, q) ==
    /\ Requesting(c, q)
    /\ changed
    /\ AtWrite \/ Opens
    /\ WriteBuffer(c, q)
    /\ state' = "CLOSED"
    /\ isOpen' = FALSE
    /\ Continue(c, q)
    /\ UNCHANGED <<changed, wire, sends>>

\* The loop gets to Port::write(): from WRITE, from an open port, or through
\* an open() that is Good at once.
GetsToWrite ==
    \/ state = "WRITE" /\ UNCHANGED <<isOpen, changed>>
    \/ AtWrite /\ ~changed /\ isOpen /\ UNCHANGED <<isOpen, changed>>
    \/ Opens /\ isOpen' = TRUE /\ changed' = FALSE

AwaitWrite(c, q) ==
    /\ Requesting(c, q)
    /\ GetsToWrite
    /\ WriteBuffer(c, q)
    /\ state' = "WRITE"
    /\ Continue(c, q)
    /\ UNCHANGED <<wire, sends>>

\* The buffer is on the line.
Written(c, q) ==
    /\ Requesting(c, q)
    /\ GetsToWrite
    /\ WriteBuffer(c, q)
    /\ state' = "BEGIN_READ"
    /\ wire' = buff'
    /\ sends' = sends + 1
    /\ Continue(c, q)

WriteFails(c, q) ==
    /\ Requesting(c, q)
    /\ GetsToWrite
    /\ WriteBuffer(c, q)
    /\ state' = "BEGIN_WRITE"
    /\ Fail(c, q)

\* read() works in the same buffer.
Reads(c, q) ==
    /\ Requesting(c, q)
    /\ state = "BEGIN_READ"
    /\ expect' = IF block THEN expect ELSE <<c, q>>
    /\ buff' = Junk
    /\ UNCHANGED <<isOpen, changed>>

AwaitRead(c, q) ==
    /\ Reads(c, q)
    /\ UNCHANGED <<state, wire, sends>>
    /\ Continue(c, q)

\* No answer in time, or a broken line: the port may have been closed.
ReadFails(c, q) ==
    /\ Requesting(c, q)
    /\ state = "BEGIN_READ"
    /\ expect' = IF block THEN expect ELSE <<c, q>>
    /\ buff' = Junk
    /\ isOpen' \in {isOpen, FALSE}
    /\ state' = "BEGIN_WRITE"
    /\ Fail(c, q)
    /\ UNCHANGED changed

\* A frame has arrived; readBuffer accepts it or not, and there is no repeat.
Answered(c, q) ==
    /\ Reads(c, q)
    /\ state' = "BEGIN_WRITE"
    /\ \E good \in BOOLEAN : Finish(c, good)

-----------------------------------------------------------------------------
(* The surroundings                                                        *)

\* The line goes up or down by itself.
LineChanges ==
    /\ isOpen' = ~isOpen
    /\ UNCHANGED <<state, current, repeats, block, expect, buff, changed, running, call, history>>

\* setSettings of the port changes one, between two calls.
SetSettings ==
    /\ running
    /\ changed' = TRUE
    /\ UNCHANGED <<state, current, repeats, block, expect, buff, isOpen, running, call, history>>

\* The polling thread ends and closes the port.  ClientPort::close leaves
\* the block flag and m_state as they are.
Close ==
    /\ running
    /\ running' = FALSE
    /\ isOpen' = FALSE
    /\ current' = IF isOpen THEN NoClient ELSE current
    /\ sends' = 0
    /\ wire' = Junk
    /\ UNCHANGED <<state, repeats, block, expect, buff, changed, call, outcome>>

\* One call of client c's API function.
ClientCall(c, q) ==
    \/ Wait(c, q)
    \/ Reject(c, q)
    \/ AwaitOpen(c, q)
    \/ OpenFails(c, q)
    \/ Reopen(c, q)
    \/ AwaitWrite(c, q)
    \/ Written(c, q)
    \/ WriteFails(c, q)
    \/ AwaitRead(c, q)
    \/ ReadFails(c, q)
    \/ Answered(c, q)

Next ==
    \/ \E c \in Clients, q \in Requests : ClientCall(c, q)
    \/ LineChanges
    \/ SetSettings
    \/ Close

Spec == Init /\ [][Next]_vars
-----------------------------------------------------------------------------
(* Properties                                                              *)

\* Every variable keeps its type (the fields of Modbus::ClientPort and Port).
TypeOK ==
    /\ state \in States \ {"OPENED"}      \* OPENED never outlasts a call
    /\ current \in Clients \union {NoClient}
    /\ repeats \in 0..(RepeatCount - 1)
    /\ block \in BOOLEAN
    /\ expect \in Frames
    /\ buff \in Frames
    /\ isOpen \in BOOLEAN
    /\ changed \in BOOLEAN
    /\ running \in BOOLEAN
    /\ call \in [Clients -> Requests \union {NoRequest}]
    /\ wire \in Frames
    /\ sends \in 0..RepeatCount
    /\ outcome \in [client : Clients \union {NoClient}, good : BOOLEAN]

\* The request the port is working on.
Own == <<current, call[current]>>

\* A taken write buffer always has an owner, and the response is checked
\* against the owner's unit and function: whenever a client is Enabled the
\* buffer is free, so no request is ever silently skipped by writeBuffer.
BufferHasOwner ==
    running /\ block => current # NoClient /\ expect = Own

\* While the port waits for a response, the buffer is still taken, and what
\* was put on the line is the owner's request, unless the request overflowed
\* the buffer or is a repetition.
AwaitsOwnAnswer ==
    running /\ state = "BEGIN_READ" =>
        /\ current # NoClient
        /\ block
        /\ repeats = 0 /\ call[current] \notin Overflow => wire = Own

\* A free port carries nothing over to the next client: no counted failures,
\* no counted sends, and it is not waiting for a response.
FreePortIsClean ==
    running /\ current = NoClient => repeats = 0 /\ sends = 0 /\ state \notin {"WRITE", "BEGIN_READ"}

\* From one client to the next, the buffer, the line and the counters of the
\* port belong to the client that is served.
PortIsOwned == BufferHasOwner /\ AwaitsOwnAnswer /\ FreePortIsClean

\* A call returns Good only if its own request is the one on the line (with
\* the same two exceptions).
GoodIsForOwnRequest ==
    [][\A c \in Clients :
          /\ call'[c] = NoRequest /\ call[c] # NoRequest
          /\ outcome'.good
          => /\ current = c
             /\ repeats = 0 /\ call[c] \notin Overflow => wire = <<c, call[c]>>]_vars

\* The clients' calls are served one at a time, each sent at most RepeatCount
\* times and Good only while it is on the line: the promise of RequestChannel.
Channel == INSTANCE RequestChannel WITH
    MaxTries <- RepeatCount,
    owner    <- IF running THEN current ELSE NoClient,
    onLine   <- running /\ state = "BEGIN_READ",
    tries    <- sends
ChannelSpec == Channel!Spec

-----------------------------------------------------------------------------
(* The inductive invariant of ModbusClientPort_proofs                      *)

\* A client that holds the port is in the middle of a call.
OwnerCalls == running /\ current # NoClient => call[current] \in Requests

\* A first attempt has its own data in the buffer until it is read into.
BufferHoldsOwn ==
    /\ running /\ block /\ repeats = 0 /\ state # "BEGIN_READ"
    /\ call[current] \notin Overflow
    => buff = Own

\* The owner finds the buffer free only to repeat a failed attempt.
BufferFreeOnlyToRepeat ==
    running /\ current # NoClient /\ ~block => repeats > 0

\* Only a failed attempt makes room for another send.
SendsCounted ==
    running => IF state = "BEGIN_READ" THEN sends <= repeats + 1 ELSE sends <= repeats

IInv ==
    /\ TypeOK
    /\ OwnerCalls
    /\ BufferHasOwner
    /\ BufferHoldsOwn
    /\ BufferFreeOnlyToRepeat
    /\ AwaitsOwnAnswer
    /\ FreePortIsClean
    /\ SendsCounted
=============================================================================
