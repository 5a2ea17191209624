--------------------------- MODULE ModbusPortTCP ----------------------------
(***************************************************************************)
(* Modbus::PortTCP (src/src/modbus/ModbusPortTCP.cpp) as the port of a     *)
(* ModbusClientPort, the connection and the server behind it.              *)
(*                                                                         *)
(* Every way through ClientPort::process of the module it extends is tied  *)
(* here to the branches of open(), write(), read() and readBuffer() that   *)
(* take the process that way.                                              *)
(*                                                                         *)
(* A byte stream is a sequence of cells.  A frame is the cell "id" (bytes  *)
(* 0..3: transaction and protocol), the cell "len" (bytes 4, 5: how many   *)
(* cells follow), the cell "head" (unit and function, 1 for an exception)  *)
(* and data cells of value 0.  A clock is not modelled: a timeout may      *)
(* elapse whenever the code looks at it.                                   *)
(***************************************************************************)
EXTENDS ModbusClientPort, Sequences, FiniteSets

CONSTANTS
    Transactions,   \* m_transaction counts modulo this number, 2^16 in the code
    RequestLen,     \* the "len" of a request
    ResponseLens,   \* the "len" of the responses
    SplitPrefix,    \* a segment may end between "id" and "len"
    MaxExtra,       \* bound: how often the server answers twice in one connection
    MaxWriteErrors  \* bound: how often the socket refuses a frame in one connection

ASSUME ModbusPortTCPAssumption ==
    /\ Transactions \in Nat \ {0}
    /\ RequestLen \in Nat \ {0}
    /\ ResponseLens \subseteq Nat \ {0}
    /\ SplitPrefix \in BOOLEAN
    /\ MaxExtra \in Nat /\ MaxWriteErrors \in Nat
    /\ Overflow = {} /\ TooLarge = {}     \* such requests get no further than the port above

VARIABLES
    tcp,            \* PortTCP::m_state
    sock,           \* state of m_socket
    transaction,    \* m_transaction
    autoIncrement,  \* m_autoIncrement
    got,            \* the cells of the response in m_buff, m_sz of them
    packetSz,       \* m_packetSz, in cells
    arrived,        \* what the socket has received and not yet given out
    transit,        \* what the server has sent and the socket not received
    pending,        \* requests the server has not answered
    answered,       \* the request the server answered last
    extra,          \* how often it answered twice in this connection
    errors          \* how often the socket refused a frame in this connection

parser == <<got, packetSz>>
ids == <<transaction, autoIncrement>>
stream == <<arrived, transit>>
server == <<pending, answered>>
bounds == <<extra, errors>>
tcpVars == <<vars, tcp, sock, ids, parser, stream, server, bounds>>

PrefixSz == 2       \* MB_TCP_PREFIX_SZ

\* A request on the line; "own" as long as it is the last one written.
NoFrame == [id |-> Transactions, own |-> FALSE]     \* no transaction has this id
Stale(s) == [i \in 1..Len(s) |-> [s[i] EXCEPT !.own = FALSE]]

Cell(r, p, v) == [own |-> r.own, part |-> p, val |-> v]
ResponseTo(r, len, exception) ==
    <<Cell(r, "id", r.id), Cell(r, "len", len), Cell(r, "head", exception)>>
        \o [i \in 1..(len - 1) |-> Cell(r, "data", 0)]

TcpInit ==
    /\ Init
    /\ tcp = "UNKNOWN"
    /\ sock = "idle"
    /\ transaction = 0
    /\ autoIncrement = TRUE
    /\ got = <<>> /\ packetSz = 0
    /\ arrived = <<>> /\ transit = <<>>
    /\ pending = <<>> /\ answered = NoFrame
    /\ extra = 0 /\ errors = 0

-----------------------------------------------------------------------------
(* Parts of the steps                                                      *)

\* The transaction is counted up when the buffer is filled, except for a
\* repetition: setNextRequestRepeated clears m_autoIncrement until then.
CountTransaction_Never ==
    /\ transaction' = transaction
    /\ autoIncrement' = (repeats' # repeats + 1)

CountTransaction ==
    /\ transaction' =
          IF block \/ ~autoIncrement THEN transaction
          ELSE (transaction + 1) % Transactions
    /\ autoIncrement' = (repeats' # repeats + 1)

\* m_socket->close() or abort(): what was received is gone, and what the
\* server sends to this connection does not arrive.
SocketClosed ==
    /\ sock' = "idle"
    /\ arrived' = <<>> /\ transit' = <<>>
    /\ pending' = <<>> /\ answered' = NoFrame
    /\ extra' = 0 /\ errors' = 0

Connected == tcp = "WAIT_FOR_OPEN" /\ sock = "connected"

\* The socket is open, or open() finds it connected now.
Ready == (AtWrite \/ Connected) /\ isOpen /\ ~changed

-----------------------------------------------------------------------------
(* open(), close() and write()                                             *)

\* connectToHost drops what is left of a connection before.
OpenStarts(c, q) ==
    /\ tcp # "WAIT_FOR_OPEN" /\ ~isOpen
    /\ AwaitOpen(c, q)
    /\ ~changed'
    /\ UNCHANGED isOpen
    /\ tcp' = "WAIT_FOR_OPEN"
    /\ sock' = "connecting"
    /\ arrived' = <<>>
    /\ extra' = 0 /\ errors' = 0
    /\ CountTransaction
    /\ UNCHANGED <<parser, transit, server>>

OpenWaits(c, q) ==
    /\ tcp = "WAIT_FOR_OPEN" /\ ~Connected
    /\ AwaitOpen(c, q)
    /\ changed' = changed
    /\ CountTransaction
    /\ UNCHANGED <<tcp, sock, parser, stream, server, bounds>>

OpenTimesOut(c, q) ==
    /\ tcp = "WAIT_FOR_OPEN" /\ ~Connected
    /\ OpenFails(c, q)
    /\ changed' = changed
    /\ tcp' = "CLOSED"
    /\ SocketClosed
    /\ CountTransaction
    /\ UNCHANGED parser

CloseToReopen(c, q) ==
    /\ AtWrite \/ Connected
    /\ Reopen(c, q)
    /\ tcp' = "CLOSED"
    /\ SocketClosed
    /\ CountTransaction
    /\ UNCHANGED parser

\* The whole frame is handed to the socket.
Write(c, q) ==
    /\ Ready
    /\ Written(c, q)
    /\ UNCHANGED <<isOpen, changed>>
    /\ tcp' = "BEGIN"
    /\ CountTransaction
    /\ pending' = Append(Stale(pending), [id |-> transaction', own |-> TRUE])
    /\ answered' = [answered EXCEPT !.own = FALSE]
    /\ arrived' = Stale(arrived)
    /\ transit' = Stale(transit)
    /\ got' = <<>>
    /\ UNCHANGED <<sock, packetSz, bounds>>

WriteError(c, q) ==
    /\ Ready
    /\ errors < MaxWriteErrors
    /\ errors' = errors + 1
    /\ WriteFails(c, q)
    /\ UNCHANGED <<isOpen, changed>>
    /\ tcp' = "BEGIN"
    /\ CountTransaction
    /\ UNCHANGED <<sock, parser, stream, server, extra>>

-----------------------------------------------------------------------------
(* read() and readBuffer()                                                 *)

Least(m, n) == IF m < n THEN m ELSE n

\* The prefix, read once; the length field is looked at wherever the prefix
\* ends, and is the request's own when it has not arrived yet.
Prefix == SubSeq(arrived, 1, Least(PrefixSz, Len(arrived)))
LenField(s) == IF Len(s) = PrefixSz THEN s[PrefixSz].val ELSE RequestLen

First == tcp # "WAIT_FOR_READ_ALL"
Begun == IF First THEN Prefix ELSE got
Wanted == IF First THEN LenField(Prefix) + PrefixSz ELSE packetSz
Rest == IF First THEN SubSeq(arrived, Len(Prefix) + 1, Len(arrived)) ELSE arrived
Taken == Least(Wanted - Len(Begun), Len(Rest))
Complete_Beyond == Rest # <<>> /\ Len(Begun) + Taken > Wanted     \* mutant: > for >=
Complete == Rest # <<>> /\ Len(Begun) + Taken >= Wanted

\* One call of read() with bytes available, which does not fail.
TakeBytes ==
    /\ arrived # <<>>
    /\ got' = Begun \o SubSeq(Rest, 1, Taken)
    /\ packetSz' = Wanted
    /\ arrived' = SubSeq(Rest, Taken + 1, Len(Rest))
    /\ UNCHANGED <<sock, transit, server, bounds>>

ReadWaits(c, q) ==
    /\ arrived = <<>>
    /\ AwaitRead(c, q)
    /\ tcp' = IF tcp = "BEGIN" THEN "WAIT_FOR_READ" ELSE tcp
    /\ CountTransaction
    /\ UNCHANGED <<sock, parser, stream, server, bounds>>

ReadSome(c, q) ==
    /\ TakeBytes
    /\ ~Complete
    /\ AwaitRead(c, q)
    /\ tcp' = "WAIT_FOR_READ_ALL"
    /\ CountTransaction

\* A timeout that is looked at only before the first byte.
ReadTimesOut_FirstByte(c, q) ==
    /\ arrived = <<>> /\ tcp = "WAIT_FOR_READ"
    /\ ReadFails(c, q)
    /\ ~isOpen'
    /\ tcp' = "CLOSED"
    /\ SocketClosed
    /\ CountTransaction
    /\ UNCHANGED parser

\* A timeout that leaves the connection open.
ReadTimesOut_NotClosed(c, q) ==
    /\ arrived = <<>> /\ tcp # "BEGIN"
    /\ ReadFails(c, q)
    /\ UNCHANGED isOpen
    /\ tcp' = "BEGIN"
    /\ CountTransaction
    /\ UNCHANGED <<sock, parser, stream, server, bounds>>

ReadTimesOut(c, q) ==
    /\ arrived = <<>> /\ tcp # "BEGIN"
    /\ ReadFails(c, q)
    /\ ~isOpen'
    /\ tcp' = "CLOSED"
    /\ SocketClosed
    /\ CountTransaction
    /\ UNCHANGED parser

\* readBuffer: the size, the transaction, the unit and function, and no
\* exception.
SizeIsRight(s) == s[PrefixSz].val = Len(s) - PrefixSz
Accepts(s) ==
    /\ Len(s) > PrefixSz
    /\ SizeIsRight(s)
    /\ s[1].val = transaction
    /\ s[PrefixSz + 1].part = "head" /\ s[PrefixSz + 1].val = 0

\* An accepted response may still fail the checks of the API function.
ReadAll(c, q) ==
    /\ TakeBytes
    /\ Complete
    /\ Answered(c, q)
    /\ outcome'.good => Accepts(got')
    /\ tcp' = "BEGIN"
    /\ CountTransaction

-----------------------------------------------------------------------------
(* The connection and the server                                           *)

Connect ==
    /\ sock = "connecting"
    /\ sock' = "connected"
    /\ LineChanges
    /\ UNCHANGED <<tcp, ids, parser, stream, server, bounds>>

\* What has arrived can still be read.
Drop ==
    /\ sock = "connected"
    /\ sock' = "dropped"
    /\ LineChanges
    /\ transit' = <<>>
    /\ pending' = <<>> /\ answered' = NoFrame
    /\ UNCHANGED <<tcp, ids, parser, arrived, bounds>>

ChangeSettings ==
    /\ SetSettings
    /\ UNCHANGED <<tcp, sock, ids, parser, stream, server, bounds>>

Answer ==
    /\ pending # <<>>
    /\ \E len \in ResponseLens, exception \in 0..1 :
          transit' = transit \o ResponseTo(Head(pending), len, exception)
    /\ answered' = Head(pending)
    /\ pending' = Tail(pending)
    /\ UNCHANGED <<vars, tcp, sock, ids, parser, arrived, bounds>>

AnswerTwice ==
    /\ answered # NoFrame
    /\ extra < MaxExtra
    /\ extra' = extra + 1
    /\ \E len \in ResponseLens : transit' = transit \o ResponseTo(answered, len, 0)
    /\ UNCHANGED <<vars, tcp, sock, ids, parser, arrived, pending, answered, errors>>

\* A segment of the stream arrives, cut anywhere.
Deliver ==
    \E k \in 1..Len(transit) :
        /\ ~SplitPrefix /\ k < Len(transit) => transit[k + 1].part # "len"
        /\ arrived' = arrived \o SubSeq(transit, 1, k)
        /\ transit' = SubSeq(transit, k + 1, Len(transit))
        /\ UNCHANGED <<vars, tcp, sock, ids, parser, server, bounds>>

\* One call of c's API function that gets through to the port.
Progress(c, q) ==
    \/ OpenStarts(c, q)
    \/ OpenWaits(c, q)
    \/ OpenTimesOut(c, q)
    \/ CloseToReopen(c, q)
    \/ Write(c, q)
    \/ WriteError(c, q)
    \/ ReadWaits(c, q)
    \/ ReadSome(c, q)
    \/ ReadTimesOut(c, q)
    \/ ReadAll(c, q)

TcpCall(c, q) ==
    \/ Progress(c, q)
    \/ Wait(c, q) /\ UNCHANGED <<tcp, sock, ids, parser, stream, server, bounds>>

TcpNext ==
    \/ \E c \in Clients, q \in Requests : TcpCall(c, q)
    \/ Connect
    \/ Drop
    \/ ChangeSettings
    \/ Answer
    \/ AnswerTwice
    \/ Deliver

TcpSpec == TcpInit /\ [][TcpNext]_tcpVars

\* The polling thread calls for every client again and again and gives each
\* the port in turn (ClientPollingTurns); what was sent arrives.  Nothing is
\* assumed of the server.
TcpFairSpec ==
    /\ TcpSpec
    /\ \A c \in Clients : SF_tcpVars(\E q \in Requests : TcpCall(c, q))
    /\ WF_tcpVars(Deliver)

-----------------------------------------------------------------------------
(* Properties                                                              *)

TcpTypeOK ==
    /\ TypeOK
    /\ tcp \in {"UNKNOWN", "CLOSED", "WAIT_FOR_OPEN", "BEGIN", "WAIT_FOR_READ", "WAIT_FOR_READ_ALL"}
    /\ sock \in {"idle", "connecting", "connected", "dropped"}
    /\ isOpen = (sock = "connected")
    /\ transaction \in 0..(Transactions - 1)
    /\ autoIncrement \in BOOLEAN
    /\ tcp = "WAIT_FOR_READ_ALL" => got # <<>> /\ packetSz > Len(got)

\* A server that has answered every request once, late or not at all, leaves
\* nothing in the connection by the time the next request is written: a
\* request that timed out takes the connection with it.  This is why write()
\* need not clear the input as PortSerial::write does.
NothingLeftOver ==
    extra = 0 /\ state # "BEGIN_READ" => arrived = <<>> /\ transit = <<>> /\ pending = <<>>

\* A response that is accepted was sent for the request of this very call,
\* even when a server answers twice and the transaction counter wraps, unless
\* the counter gets round while the socket refuses one frame after another.
GoodIsOwnAnswer ==
    [][\A c \in Clients : call[c] # NoRequest /\ call'[c] = NoRequest /\ outcome'.good
         => \A i \in 1..Len(got') : got'[i].own]_tcpVars

\* Every call ends, whatever the server and the line do, unless the settings
\* of the port are changed for ever.
CallsEnd ==
    <>[](~changed) =>
        \A c \in Clients : (call[c] # NoRequest) ~> (call[c] = NoRequest)

\* A response is refused for its size only when its size is wrong: all that
\* the server sends have the size they declare.
SizeErrorIsTrue ==
    [][\A c \in Clients, q \in Requests : ReadAll(c, q) => SizeIsRight(got')]_tcpVars

-----------------------------------------------------------------------------
(* The inductive invariant of ModbusPortTCP_proofs                         *)

Cells == [own : BOOLEAN, part : {"id", "len", "head", "data"}, val : Nat]
FramesSent == [id : Nat, own : BOOLEAN]

\* All that the socket has not given out yet.
incoming == arrived \o transit

\* Every frame says where the next one begins.
Framed(s) ==
    \A i \in 1..Len(s) : s[i].part = "id" =>
        /\ i < Len(s) /\ s[i + 1].part = "len" /\ s[i + 1].val > 0
        /\ i + 2 + s[i + 1].val <= Len(s) => s[i + 2 + s[i + 1].val].part = "id"

\* No frame ends behind s.
FramesEnd(s) ==
    \A i \in 1..Len(s) : s[i].part = "id" => i + 1 + s[i + 1].val <= Len(s)

\* Where in incoming the frame after the one being read begins.
nextFrame == IF First THEN 1 ELSE packetSz - Len(got) + 1

\* What has come in was sent on the connection that is there or was there last.
ConnectionsApart ==
    /\ sock # "connected" => transit = <<>> /\ pending = <<>> /\ answered = NoFrame
    /\ sock \in {"idle", "connecting"} => arrived = <<>> /\ First
    /\ ~First => state = "BEGIN_READ"

\* read() and the stream agree on where the frames begin.
StreamIsFramed ==
    /\ Framed(incoming)
    /\ arrived # <<>> => arrived[Len(arrived)].part # "id"
    /\ nextFrame <= Len(incoming) => incoming[nextFrame].part = "id"
    /\ sock = "connected" => FramesEnd(incoming) /\ nextFrame <= Len(incoming) + 1

\* As long as the server answers once, there is one request or one response
\* on the way while the port reads, and nothing before and after.
OneAtATime ==
    extra = 0 =>
        /\ state # "BEGIN_READ" => pending = <<>> /\ incoming = <<>>
        /\ pending # <<>> => Len(pending) = 1 /\ incoming = <<>> /\ First
        /\ First /\ incoming # <<>> => Len(incoming) <= incoming[2].val + 2
        /\ ~First => Len(incoming) <= packetSz - Len(got)

TcpIInv ==
    /\ IInv
    /\ TcpTypeOK
    /\ got \in Seq(Cells) /\ arrived \in Seq(Cells) /\ transit \in Seq(Cells)
    /\ packetSz \in Nat /\ extra \in Nat
    /\ pending \in Seq(FramesSent) /\ answered \in FramesSent
    /\ ConnectionsApart
    /\ StreamIsFramed
    /\ OneAtATime

-----------------------------------------------------------------------------
(* What GoodIsOwnAnswer needs besides                                      *)

\* How many transactions ago x was the current one.
age(x) == IF x <= transaction THEN transaction - x ELSE transaction - x + Transactions

\* How many frames have begun in the first i cells of s.
Begins(s, i) == Cardinality({j \in 1..i : s[j].part = "id"})

\* A frame that has begun to be read is no longer in the stream.
taken == IF First THEN 0 ELSE 1
frames == Begins(incoming, Len(incoming)) + taken

\* What is on the way, each with its place in the order in which it is read: a
\* response, the response to a request that waits, and a response that could
\* be sent again.
InStream(i) == [id |-> incoming[i].val, own |-> incoming[i].own, place |-> Begins(incoming, i) + taken]
ToCome(j) == [id |-> pending[j].id, own |-> pending[j].own, place |-> frames + j]
Again == [id |-> answered.id, own |-> answered.own, place |-> frames]

OnTheWay ==
    {InStream(i) : i \in {j \in 1..Len(incoming) : incoming[j].part = "id"}}
    \union {ToCome(j) : j \in 1..Len(pending)}
    \union (IF answered # NoFrame /\ extra < MaxExtra THEN {Again} ELSE {})

\* Each answer given twice and each frame refused puts the answers on the way
\* one transaction further behind the requests.
behind == extra + errors + IF state = "BEGIN_READ" THEN 1 ELSE 0

\* The cells of a frame are all of one response.
OfOneResponse(s) ==
    \A i \in 1..Len(s) : s[i].part = "id" =>
        \A j \in i..(i + 1 + s[i + 1].val) : j <= Len(s) => s[j].own = s[i].own

ResponsesAreWhole ==
    /\ OfOneResponse(incoming)
    /\ ~First =>
         /\ got[1].part = "id"
         /\ \A j \in 1..Len(got) : got[j].own = got[1].own
         /\ \A j \in 1..(nextFrame - 1) : j <= Len(incoming) => incoming[j].own = got[1].own

\* A response is no more transactions old than it has places to gain.
InOrderOfAge ==
    /\ frames + Len(pending) <= behind
    /\ \A f \in OnTheWay : f.id \in 0..(Transactions - 1) /\ age(f.id) + f.place <= behind

\* What has the number of the request that is waited for is the response to
\* it; a number that is counted for a request yet to be written is new.
NumbersAreFresh ==
    /\ \A f \in OnTheWay : f.id = transaction =>
         IF state = "BEGIN_READ" THEN f.own ELSE ~block /\ autoIncrement
    /\ ~First /\ got[1].val = transaction => got[1].own

\* While the port opens there is nothing on the way.
OpensEmpty == tcp = "WAIT_FOR_OPEN" => OnTheWay = {}

WithinBounds == extra \in 0..MaxExtra /\ errors \in 0..MaxWriteErrors

OwnIInv ==
    /\ WithinBounds
    /\ OpensEmpty
    /\ ResponsesAreWhole
    /\ InOrderOfAge
    /\ NumbersAreFresh
=============================================================================
