-------------------------- MODULE ModbusServerPort --------------------------
(***************************************************************************)
(* Modbus::ServerPort (src/src/modbus/ModbusServerPort.cpp) over a serial  *)
(* port or over one connection of a Modbus::ServerTCP, and the memory of   *)
(* the devices it serves.                                                  *)
(*                                                                         *)
(* process() is polled.  It runs through as many of its states as it can   *)
(* and returns where it has to wait, so one call is one step; the actions  *)
(* are the ways through its switch.  m_cmdClose is left out: the program   *)
(* sets it when the thread that polls the port has left its loop.          *)
(***************************************************************************)
EXTENDS Naturals, Sequences, FiniteSets

CONSTANTS
    Ports,          \* the ServerPort objects
    Serial,         \* those of serial ports; the others are TCP connections
    Requests,       \* records: unit, op and value of a request
    NoRequest,
    Units,          \* the units requests are sent to
    Devices,
    NoDevice,
    DeviceOf,       \* mbServerRunDevice::m_units: the device of each unit
    Values,         \* the values of the one item of a device's memory
    Exception,      \* an answer that gives no value
    NoOutcome

Ops == {"read", "write",
        "illegal",  \* refused by the device with a standard error
        "excess",   \* refused by processInputData with a standard error
        "garbled"}  \* refused by readBuffer or processInputData with another

ASSUME ModbusServerPortAssumption ==
    /\ Serial \subseteq Ports
    /\ Requests \subseteq [unit : Units, op : Ops, value : Values]
    /\ NoRequest \notin Requests
    /\ NoDevice \notin Devices
    /\ DeviceOf \in [Units -> Devices \union {NoDevice}]
    /\ 0 \in Values /\ Values \subseteq Nat
    /\ {Exception, NoOutcome} \cap Values = {} /\ Exception # NoOutcome

VARIABLES
    state,      \* m_state where process() has returned
    isOpen,     \* m_port->isOpen()
    input,      \* the frames that have arrived and not been read
    req,        \* m_unit, m_func, m_offset, m_count and values, while in use
    reply,      \* the outcome in the port's buffer, while it is written
    memory      \* the memory of the devices

lineVars == <<isOpen, input>>
serveVars == <<state, req, reply>>
portVars == <<lineVars, serveVars, memory>>

\* OPENED, READ and WRITE never outlast a call; WAIT_FOR_CLOSE needs cmdClose.
States == {"UNKNOWN", "CLOSED", "WAIT_FOR_OPEN", "BEGIN_READ", "PROCESS_DEVICE", "BEGIN_WRITE"}

Outcomes == Values \union {Exception}

\* A ServerPort as it is made: for an accepted connection the socket is open.
PortInit ==
    /\ state = [p \in Ports |-> "UNKNOWN"]
    /\ isOpen = [p \in Ports |-> FALSE]
    /\ input = [p \in Ports |-> <<>>]
    /\ req = [p \in Ports |-> NoRequest]
    /\ reply = [p \in Ports |-> NoOutcome]
    /\ memory = [d \in Devices |-> 0]

-----------------------------------------------------------------------------
(* processInputData, processDevice                                         *)

Refused(r) == r.op = "excess"
Ignored(r) == r.op = "garbled"

\* What a device makes of r when its memory is m: the memory and the outcome.
Effect(r, m) ==
    IF DeviceOf[r.unit] = NoDevice THEN {}
    ELSE IF r.op = "read" THEN {<<m, m[DeviceOf[r.unit]]>>}
    ELSE IF r.op = "write" THEN {<<[m EXCEPT ![DeviceOf[r.unit]] = r.value], r.value>>}
    ELSE {<<m, Exception>>}

-----------------------------------------------------------------------------
(* The ways through process()                                              *)

\* The default branch, of a port that is not open.
Uninitialized(p) ==
    /\ state[p] = "UNKNOWN" /\ ~isOpen[p]
    /\ state' = [state EXCEPT ![p] = "CLOSED"]
    /\ UNCHANGED <<lineVars, req, reply, memory>>

\* open() is in progress, or has failed and is tried again by the next call.
Opening(p) ==
    /\ state[p] \in {"CLOSED", "WAIT_FOR_OPEN"} /\ ~isOpen[p]
    /\ state' = [state EXCEPT ![p] = "WAIT_FOR_OPEN"]
    /\ UNCHANGED <<lineVars, req, reply, memory>>

\* The call gets to read(): from BEGIN_READ, from a port found open, or
\* through an open() that is Good.
GetsToRead(p) ==
    \/ state[p] = "BEGIN_READ" /\ UNCHANGED isOpen
    \/ state[p] = "UNKNOWN" /\ isOpen[p] /\ UNCHANGED isOpen
    \/ /\ state[p] \in {"CLOSED", "WAIT_FOR_OPEN"}
       /\ isOpen' = [isOpen EXCEPT ![p] = TRUE]

\* No frame yet.  A connection on which nothing arrives in time is closed.
ReadWaits(p) ==
    /\ GetsToRead(p)
    /\ input[p] = <<>>
    /\ state' = [state EXCEPT ![p] = "BEGIN_READ"]
    /\ UNCHANGED <<input, req, reply, memory>>

ReadTimesOut(p) ==
    /\ p \notin Serial
    /\ state[p] = "BEGIN_READ" /\ input[p] = <<>>
    /\ isOpen' = [isOpen EXCEPT ![p] = FALSE]
    /\ UNCHANGED <<serveVars, input, memory>>

\* read() gives r, and rest is what is left for later.
Reads(p, r) ==
    /\ GetsToRead(p)
    /\ input[p] # <<>> /\ r = Head(input[p])
    /\ ~Ignored(r) /\ ~Refused(r)

ReadIgnored(p) ==
    /\ GetsToRead(p)
    /\ input[p] # <<>> /\ Ignored(Head(input[p]))
    /\ input' = [input EXCEPT ![p] = Tail(@)]
    /\ state' = [state EXCEPT ![p] = "BEGIN_READ"]
    /\ UNCHANGED <<req, reply, memory>>

\* The call gets to processDevice() with r.
Serves(p, r) ==
    \/ Reads(p, r) /\ input' = [input EXCEPT ![p] = Tail(@)]
    \/ /\ state[p] = "PROCESS_DEVICE" /\ r = req[p]
       /\ UNCHANGED lineVars

\* processDevice() is Processing.
Delay(p, r) ==
    /\ Serves(p, r)
    /\ DeviceOf[r.unit] # NoDevice
    /\ state' = [state EXCEPT ![p] = "PROCESS_DEVICE"]
    /\ req' = [req EXCEPT ![p] = r]
    /\ UNCHANGED <<reply, memory>>

UnknownUnit(p, r) ==
    /\ Serves(p, r)
    /\ DeviceOf[r.unit] = NoDevice
    /\ state' = [state EXCEPT ![p] = "BEGIN_READ"]
    /\ UNCHANGED <<req, reply, memory>>

\* What is left to read when write() begins: a serial port throws away what
\* has arrived in the meantime.
Kept(p, rest) == IF p \in Serial THEN <<>> ELSE rest

\* The call gets to writeBuffer() and write() with the outcome o of r.
Outcome(p, r, o) ==
    \/ /\ Reads(p, r)
       /\ \E e \in Effect(r, memory) : memory' = e[1] /\ o = e[2]
       /\ input' = [input EXCEPT ![p] = Kept(p, Tail(@))]
    \/ /\ state[p] = "PROCESS_DEVICE" /\ r = req[p]
       /\ \E e \in Effect(r, memory) : memory' = e[1] /\ o = e[2]
       /\ input' = [input EXCEPT ![p] = Kept(p, @)]
       /\ UNCHANGED isOpen
    \/ /\ GetsToRead(p)
       /\ input[p] # <<>> /\ r = Head(input[p]) /\ Refused(r)
       /\ o = Exception
       /\ input' = [input EXCEPT ![p] = Kept(p, Tail(@))]
       /\ UNCHANGED memory

\* write() is Processing: a serial port is not done with its bytes.
WriteWaits_ServesAgain(p, r, o) ==      \* mutant: m_state stays PROCESS_DEVICE
    /\ p \in Serial
    /\ Outcome(p, r, o)
    /\ state' = [state EXCEPT ![p] = "PROCESS_DEVICE"]
    /\ req' = [req EXCEPT ![p] = r]
    /\ reply' = [reply EXCEPT ![p] = o]

WriteWaits(p, r, o) ==
    /\ p \in Serial
    /\ Outcome(p, r, o)
    /\ state' = [state EXCEPT ![p] = "BEGIN_WRITE"]
    /\ req' = [req EXCEPT ![p] = r]
    /\ reply' = [reply EXCEPT ![p] = o]

\* write() is Good at once, or Bad: then the answer is lost.
Writes(p, r, o) ==
    /\ Outcome(p, r, o)
    /\ state' = [state EXCEPT ![p] = "BEGIN_READ"]
    /\ req' = [req EXCEPT ![p] = NoRequest]
    /\ UNCHANGED reply

WriteEnds(p) ==
    /\ state[p] = "BEGIN_WRITE"
    /\ state' = [state EXCEPT ![p] = "BEGIN_READ"]
    /\ req' = [req EXCEPT ![p] = NoRequest]
    /\ reply' = [reply EXCEPT ![p] = NoOutcome]
    /\ UNCHANGED <<lineVars, memory>>
=============================================================================
