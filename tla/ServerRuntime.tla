--------------------------- MODULE ServerRuntime ----------------------------
(***************************************************************************)
(* The running server: a thread for each port of the project (mbServer-    *)
(* RunThread, mbServerPortRunnable), one of them with a Modbus::ServerTCP  *)
(* and its connections, the response delay each thread keeps for all its   *)
(* units (mbServerRunDevice), and the task that changes the memory of the  *)
(* devices by itself (mbServerRunActionTask).                              *)
(*                                                                         *)
(* A thread calls process() again and again.  ServerTCP::process accepts   *)
(* one connection and then calls process() of each in turn; other threads  *)
(* run between two of those calls.  Time passes in ticks; what matters of  *)
(* it is how long ago something happened, up to MaxDelay.                  *)
(***************************************************************************)
EXTENDS ModbusServerPort, SequencesExt

CONSTANTS
    DelayOf,        \* mbServerDevice::delay, in ticks
    MaxDelay,       \* none is longer
    MaxInput,       \* bound: frames that wait on a line
    ActionDevice,   \* the device whose item the actions change
    Asks            \* bound: what the master of each port asks

TCP == "tcp"                            \* the thread of the ServerTCP
Threads == Serial \union {TCP}
Connections == Ports \ Serial
ThreadOf(p) == IF p \in Serial THEN p ELSE TCP

ASSUME ServerRuntimeAssumption ==
    /\ MaxDelay \in Nat
    /\ DelayOf \in [Devices -> 0..MaxDelay]
    /\ TCP \notin Serial
    /\ MaxInput \in Nat \ {0}
    /\ ActionDevice \in Devices
    /\ Asks \in [Ports -> SUBSET Requests]

None == MaxDelay + 1        \* m_timestamp == 0

VARIABLES
    listen,     \* ServerTCP::m_state
    backlog,    \* connections the QTcpServer has not given out
    connections,\* m_connections
    turn,       \* whose process() ServerTCP::process calls next, 0 to accept
    closed,     \* it has called it and found the connection closed
    running,    \* the threads in their loop
    stamp,      \* how long ago m_timestamp of each thread was set, or None
    \* history
    waited,     \* how long ago the request in service was read, up to MaxDelay
    answered    \* since the last tick the TCP thread has carried out a delayed request

tcpVars == <<listen, backlog, connections, turn, closed>>
timeVars == <<stamp, waited, answered>>
vars == <<portVars, tcpVars, running, timeVars>>

Init ==
    /\ PortInit
    /\ listen = "UNKNOWN"
    /\ backlog = <<>> /\ connections = <<>> /\ turn = 0 /\ closed = FALSE
    /\ running = Threads
    /\ stamp = [t \in Threads |-> None]
    /\ waited = [p \in Ports |-> 0]
    /\ answered = FALSE

-----------------------------------------------------------------------------
(* CHECK_DELAY: one timestamp for all units and connections of a thread    *)

DelayFor(r) == IF DeviceOf[r.unit] = NoDevice \/ Refused(r) THEN 0 ELSE DelayOf[DeviceOf[r.unit]]

\* The device is not to answer yet; the first who asks sets the timestamp.
StillDelayed_NotSet(t, r) ==        \* mutant: it is not set
    /\ DelayFor(r) > 0
    /\ stamp[t] = None \/ stamp[t] < DelayFor(r)
    /\ UNCHANGED <<stamp, answered>>

StillDelayed(t, r) ==
    /\ DelayFor(r) > 0
    /\ stamp[t] = None \/ stamp[t] < DelayFor(r)
    /\ stamp' = [stamp EXCEPT ![t] = IF @ = None THEN 0 ELSE @]
    /\ UNCHANGED answered

DelayIsOver_StampKept(t, r) ==      \* mutant: the timestamp is not cleared
    IF DelayFor(r) > 0
    THEN /\ stamp[t] # None /\ stamp[t] >= DelayFor(r)
         /\ stamp' = stamp
         /\ answered' = (t = TCP \/ answered)
    ELSE UNCHANGED <<stamp, answered>>

DelayIsOver(t, r) ==
    IF DelayFor(r) > 0
    THEN /\ stamp[t] # None /\ stamp[t] >= DelayFor(r)
         /\ stamp' = [stamp EXCEPT ![t] = None]
         /\ answered' = (t = TCP \/ answered)
    ELSE UNCHANGED <<stamp, answered>>

\* One call of process() of p.
Process(p) ==
    \/ /\ \/ Uninitialized(p)
          \/ Opening(p)
          \/ ReadWaits(p)
          \/ ReadTimesOut(p)
          \/ ReadIgnored(p)
          \/ WriteEnds(p)
          \/ \E r \in Requests : UnknownUnit(p, r)
       /\ UNCHANGED timeVars
    \/ \E r \in Requests :
          /\ Delay(p, r)
          /\ StillDelayed(ThreadOf(p), r)
          /\ waited' = IF state[p] # "PROCESS_DEVICE" THEN [waited EXCEPT ![p] = 0] ELSE waited
    \/ \E r \in Requests, o \in Outcomes :
          /\ WriteWaits(p, r, o) \/ Writes(p, r, o)
          /\ DelayIsOver(ThreadOf(p), r)
          /\ waited' = [waited EXCEPT ![p] = 0]

-----------------------------------------------------------------------------
(* The threads                                                             *)

\* mbServerRunThread::run of a serial port.
PollSerial(p) ==
    /\ p \in running
    /\ Process(p)
    /\ UNCHANGED <<tcpVars, running>>

\* ServerTCP::process as long as it does not listen: UNKNOWN, then CLOSED,
\* and open(), which is tried again for ever.
Listen ==
    /\ TCP \in running
    /\ \/ listen = "UNKNOWN" /\ listen' = "CLOSED"
       \/ listen = "CLOSED" /\ listen' \in {"WAIT_FOR_OPEN", "PROCESS_DEVICE"}
       \/ listen = "WAIT_FOR_OPEN" /\ listen' \in {"CLOSED", "PROCESS_DEVICE"}
    /\ UNCHANGED <<portVars, backlog, connections, turn, closed, running, timeVars>>

\* It accepts one connection and begins with the first of its connections.
Accept ==
    /\ TCP \in running
    /\ listen = "PROCESS_DEVICE" /\ turn = 0
    /\ backlog # <<>> \/ connections # <<>>
    /\ connections' = IF backlog = <<>> THEN connections ELSE Append(connections, Head(backlog))
    /\ backlog' = IF backlog = <<>> THEN backlog ELSE Tail(backlog)
    /\ turn' = 1
    /\ UNCHANGED <<portVars, listen, closed, running, timeVars>>

\* The ServerPort objects P are deleted, or made anew.
Reset(P) ==
    /\ state' = [p \in Ports |-> IF p \in P THEN "UNKNOWN" ELSE state[p]]
    /\ input' = [p \in Ports |-> IF p \in P THEN <<>> ELSE input[p]]
    /\ req' = [p \in Ports |-> IF p \in P THEN NoRequest ELSE req[p]]
    /\ reply' = [p \in Ports |-> IF p \in P THEN NoOutcome ELSE reply[p]]
    /\ waited' = [p \in Ports |-> IF p \in P THEN 0 ELSE waited[p]]

\* process() of the next connection; the one behind it follows if it is open.
PollConnection ==
    /\ TCP \in running
    /\ turn # 0 /\ ~closed
    /\ LET c == connections[turn] IN
        /\ Process(c)
        /\ closed' = ~isOpen'[c]
        /\ turn' = IF closed' THEN turn ELSE IF turn = Len(connections) THEN 0 ELSE turn + 1
    /\ UNCHANGED <<listen, backlog, connections, running>>

EraseConnection_Skips ==            \* mutant: it++ behind erase()
    /\ closed
    /\ closed' = FALSE
    /\ connections' = RemoveAt(connections, turn)
    /\ turn' = IF turn = Len(connections) THEN 0 ELSE turn + 1
    /\ Reset({connections[turn]})
    /\ UNCHANGED <<isOpen, memory, listen, backlog, running, stamp, answered>>

EraseConnection ==
    /\ closed
    /\ closed' = FALSE
    /\ connections' = RemoveAt(connections, turn)
    /\ turn' = IF turn = Len(connections) THEN 0 ELSE turn
    /\ Reset({connections[turn]})
    /\ UNCHANGED <<isOpen, memory, listen, backlog, running, stamp, answered>>

\* The thread leaves its loop, between two calls of process(), and its ports
\* are destroyed, whatever they were doing.
Stop(t) ==
    /\ t \in running
    /\ t = TCP => turn = 0
    /\ running' = running \ {t}
    /\ LET P == {p \in Ports : ThreadOf(p) = t} IN
        /\ Reset(P)
        /\ isOpen' = [p \in Ports |-> IF p \in P THEN FALSE ELSE isOpen[p]]
    /\ IF t = TCP
       THEN listen' = "UNKNOWN" /\ backlog' = <<>> /\ connections' = <<>> /\ UNCHANGED <<turn, closed>>
       ELSE UNCHANGED tcpVars
    /\ stamp' = [stamp EXCEPT ![t] = None]
    /\ answered' = (t # TCP /\ answered)
    /\ UNCHANGED <<memory>>

\* The runtime is started again, with the memory as it is.
Start ==
    /\ running = {}
    /\ running' = Threads
    /\ UNCHANGED <<portVars, tcpVars, timeVars>>

\* mbServerRunActionTask::loop: an action sets the value of its item.
ActionSets ==
    /\ running # {}
    /\ \E v \in Values : memory' = [memory EXCEPT ![ActionDevice] = v]
    /\ UNCHANGED <<lineVars, serveVars, tcpVars, running, timeVars>>

-----------------------------------------------------------------------------
(* The masters and the time                                                *)

\* The event loop of the TCP thread runs between two calls of process().
LineMoves(p) == IF p \in Serial THEN isOpen[p] ELSE turn = 0 /\ isOpen[p]

Send(p) ==
    /\ LineMoves(p)
    /\ Len(input[p]) < MaxInput
    /\ \E r \in Asks[p] : input' = [input EXCEPT ![p] = Append(@, r)]
    /\ UNCHANGED <<isOpen, serveVars, memory, tcpVars, running, timeVars>>

Connect(c) ==
    /\ TCP \in running /\ listen = "PROCESS_DEVICE" /\ turn = 0
    /\ c \notin Range(connections) \union Range(backlog)
    /\ isOpen' = [isOpen EXCEPT ![c] = TRUE]
    /\ backlog' = Append(backlog, c)
    /\ UNCHANGED <<input, serveVars, memory, listen, connections, turn, closed, running, timeVars>>

\* What has arrived can still be read.
Drop(c) ==
    /\ LineMoves(c)
    /\ isOpen' = [isOpen EXCEPT ![c] = FALSE]
    /\ UNCHANGED <<input, serveVars, memory, tcpVars, running, timeVars>>

Later(n) == IF n < MaxDelay THEN n + 1 ELSE n
Tick ==
    /\ stamp' = [t \in Threads |-> IF stamp[t] = None THEN None ELSE Later(stamp[t])]
    /\ waited' = [p \in Ports |-> IF state[p] = "PROCESS_DEVICE" THEN Later(waited[p]) ELSE waited[p]]
    /\ answered' = FALSE
    /\ UNCHANGED <<portVars, tcpVars, running>>

Next ==
    \/ \E p \in Serial : PollSerial(p)
    \/ Listen
    \/ Accept
    \/ PollConnection
    \/ EraseConnection
    \/ \E t \in Threads : Stop(t)
    \/ Start
    \/ ActionSets
    \/ \E p \in Ports : Send(p)
    \/ \E c \in Connections : Connect(c) \/ Drop(c)
    \/ Tick

Spec == Init /\ [][Next]_vars

\* The TCP thread calls process() for ever and time goes by.
FairSpec ==
    /\ Spec
    /\ WF_vars(Listen \/ Accept \/ PollConnection \/ EraseConnection)
    /\ WF_vars(Tick)

-----------------------------------------------------------------------------
(* Properties                                                              *)

\* Every variable keeps its type; a request is kept exactly as long as it is
\* served, and only a serial port is ever found in the middle of a write.
TypeOK ==
    /\ state \in [Ports -> States]
    /\ isOpen \in [Ports -> BOOLEAN]
    /\ input \in [Ports -> Seq(Requests)]
    /\ req \in [Ports -> Requests \union {NoRequest}]
    /\ reply \in [Ports -> Outcomes \union {NoOutcome}]
    /\ memory \in [Devices -> Values]
    /\ turn \in 0..Len(connections)
    /\ running \subseteq Threads
    /\ stamp \in [Threads -> 0..None]
    /\ waited \in [Ports -> 0..MaxDelay] /\ answered \in BOOLEAN
    /\ \A p \in Ports :
          /\ (req[p] # NoRequest) = (state[p] \in {"PROCESS_DEVICE", "BEGIN_WRITE"})
          /\ (reply[p] # NoOutcome) = (state[p] = "BEGIN_WRITE")

\* Each request is carried out at most once, whatever write() has to wait
\* for, between its arrival and its answer, and the answer says what came of
\* it there: the promise of RequestService.
Service == INSTANCE RequestService WITH
    Refusal <- Exception,
    asked   <- req,
    outcome <- reply
ServiceSpec == Service!Spec

\* The step carries out a delayed request of p.
AtHand(p) == IF state[p] = "PROCESS_DEVICE" THEN req[p] ELSE Head(input[p])
CarriesOut(p) ==
    /\ running' = running
    /\ \/ state[p] = "PROCESS_DEVICE"
       \/ Len(input'[p]) < Len(input[p])
    /\ state'[p] \in {"BEGIN_READ", "BEGIN_WRITE"}
    /\ ~Ignored(AtHand(p)) /\ DelayFor(AtHand(p)) > 0

\* A serial port answers no sooner than the delay of the device after it has
\* read the request: the timestamp its units share (CHECK_DELAY) is set by the
\* request in service, never left behind by an earlier one.
SerialDelayed ==
    [][\A p \in Serial : CarriesOut(p) => waited[p] >= DelayFor(AtHand(p))]_vars

\* What the help says of every device, "response delay for current device":
\* no port answers sooner.  The connections of a ServerTCP do, for they share
\* one timestamp: a request that finds it set by another connection, or left
\* behind by one that was dropped, is answered early or at once.
ResponseDelayed ==
    [][\A p \in Ports : CarriesOut(p) => waited[p] >= DelayFor(AtHand(p))]_vars

\* As long as requests wait on connections, one after the other is carried
\* out (answered), though whose turn it is is anybody's guess.
DelaysEnd ==
    []<>(answered \/ \A c \in Connections : state[c] # "PROCESS_DEVICE")

-----------------------------------------------------------------------------
(* The inductive invariant of ServerRuntime_proofs                         *)

\* The loop over the connections stands at one of them, or at none.
LoopAtConnection ==
    /\ connections \in Seq(Connections) /\ backlog \in Seq(Connections)
    /\ closed \in BOOLEAN /\ (closed => turn # 0)

\* A request is kept over a call only for the delay of its device.
KeptForDelay == \A p \in Ports : state[p] = "PROCESS_DEVICE" => DelayFor(req[p]) > 0

\* The timestamp of a serial port is set while a request is kept, and not
\* before it was read.
StampsAreLate ==
    \A p \in Serial : stamp[p] # None => state[p] = "PROCESS_DEVICE" /\ stamp[p] <= waited[p]

IInv == TypeOK /\ LoopAtConnection /\ KeptForDelay /\ StampsAreLate
=============================================================================
