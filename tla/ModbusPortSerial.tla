------------------------- MODULE ModbusPortSerial --------------------------
(***************************************************************************)
(* Modbus::PortSerial (src/src/modbus/ModbusPortSerial.cpp) with the       *)
(* readBuffer of PortRTU and PortASC, as the port of a ModbusClientPort,   *)
(* and the serial line with its devices.                                   *)
(*                                                                         *)
(* Nothing on a serial line says which request a frame answers.  A frame   *)
(* is a sequence of cells from "head" (unit and function) to "end" (the    *)
(* checksum, which holds for the whole frame and for nothing else).  A     *)
(* clock is not modelled: a timeout may elapse whenever the code looks at  *)
(* it, so a device may be late and may pause within a frame.               *)
(***************************************************************************)
EXTENDS ModbusClientPort, Sequences

CONSTANTS
    BuffSz,         \* c_buffSz, in cells
    ResponseLens    \* how many cells the devices answer with

ASSUME ModbusPortSerialAssumption ==
    /\ BuffSz \in Nat \ {0}
    /\ ResponseLens \subseteq Nat \ {0, 1}
    /\ Overflow = {} /\ TooLarge = {}     \* such requests get no further than the port above

VARIABLES
    ser,        \* PortSerial::m_state
    got,        \* the cells read into m_buff, m_sz of them
    arrived,    \* what m_serialPort has received and not given out
    transit,    \* what a device has sent and m_serialPort not received
    pending     \* the request a device is working on

line == <<arrived, transit, pending>>
serVars == <<vars, ser, got, line>>

\* The frames of a line, by the unit and function of the request they answer.
Nothing == Junk
Cell(kind, part) == [kind |-> kind, part |-> part, old |-> FALSE]
Old(s) == [i \in 1..Len(s) |-> [s[i] EXCEPT !.old = TRUE]]

Response(kind, len) ==
    [i \in 1..len |-> Cell(kind, IF i = 1 THEN "head" ELSE IF i = len THEN "end" ELSE "data")]
Exception(kind) == <<Cell(kind, "exception"), Cell(kind, "end")>>

SerInit ==
    /\ Init
    /\ ser = "UNKNOWN"
    /\ got = <<>>
    /\ arrived = <<>> /\ transit = <<>> /\ pending = Nothing

-----------------------------------------------------------------------------
(* open() and close()                                                      *)

\* The port is tried once; when it cannot be opened, the call waits for the
\* timeout all the same.
OpenStarts(c, q) ==
    /\ ser # "WAIT_FOR_OPEN" /\ ~isOpen
    /\ AwaitOpen(c, q)
    /\ ~changed'
    /\ UNCHANGED isOpen
    /\ ser' = "WAIT_FOR_OPEN"
    /\ UNCHANGED <<got, line>>

OpenTimesOut(c, q) ==
    /\ ser = "WAIT_FOR_OPEN"
    /\ OpenFails(c, q)
    /\ changed' = changed
    /\ ser' = "CLOSED"
    /\ UNCHANGED <<got, line>>

\* What the port had received is gone with it.
CloseToReopen(c, q) ==
    /\ AtWrite
    /\ Reopen(c, q)
    /\ ser' = "CLOSED"
    /\ arrived' = <<>>
    /\ UNCHANGED <<got, transit, pending>>

-----------------------------------------------------------------------------
(* write()                                                                 *)

\* The input is cleared when the write starts, not when it goes on.
ClearInput_Not ==           \* mutant: readAll() forgotten
    /\ arrived' = IF ser = "WAIT_FOR_WRITE_ALL" THEN arrived ELSE Old(arrived)
    /\ got' = <<>>

ClearInput ==
    /\ arrived' = IF ser = "WAIT_FOR_WRITE_ALL" THEN arrived ELSE <<>>
    /\ got' = <<>>

\* A device that is still at work may miss the new request.
Reaches(c, q) == pending' \in {pending, <<c, q>>}

WriteWaits(c, q) ==
    /\ ser # "WAIT_FOR_OPEN"
    /\ AwaitWrite(c, q)
    /\ ser' = "WAIT_FOR_WRITE_ALL"
    /\ ClearInput
    /\ UNCHANGED <<transit, pending>>

Write(c, q) ==
    /\ ser # "WAIT_FOR_OPEN"
    /\ Written(c, q)
    /\ ser' = "BEGIN"
    /\ ClearInput
    /\ Reaches(c, q)
    /\ UNCHANGED transit

\* The port refuses the frame or takes too long, and may send it yet.
WriteError(c, q) ==
    /\ ser # "WAIT_FOR_OPEN"
    /\ WriteFails(c, q)
    /\ ser' = "BEGIN"
    /\ ClearInput
    /\ Reaches(c, q)
    /\ UNCHANGED transit

-----------------------------------------------------------------------------
(* read() and readBuffer()                                                 *)

ReadWaits(c, q) ==
    /\ arrived = <<>>
    /\ AwaitRead(c, q)
    /\ ser' = IF ser = "BEGIN" THEN "WAIT_FOR_READ" ELSE ser
    /\ got' = IF ser = "BEGIN" THEN <<>> ELSE got
    /\ UNCHANGED line

\* As many cells as the buffer still holds: none when it is full, and the
\* silence is timed anew.
ReadSome(c, q) ==
    /\ arrived # <<>>
    /\ AwaitRead(c, q)
    /\ ser' = "WAIT_FOR_READ_ALL"
    /\ LET begun == IF ser = "WAIT_FOR_READ_ALL" THEN got ELSE <<>>
           room  == BuffSz - Len(begun)
           n     == IF Len(arrived) < room THEN Len(arrived) ELSE room
       IN  /\ got' = begun \o SubSeq(arrived, 1, n)
           /\ arrived' = SubSeq(arrived, n + 1, Len(arrived))
    /\ UNCHANGED <<transit, pending>>

\* An error while the frame goes on leaves m_state as it is.
ReadError(c, q) ==
    /\ arrived # <<>>
    /\ ReadFails(c, q)
    /\ isOpen' = isOpen
    /\ ser' = IF ser = "WAIT_FOR_READ_ALL" THEN ser ELSE "BEGIN"
    /\ UNCHANGED <<got, line>>

\* mutant: the first byte's timeout is started anew by every poll
ReadTimesOut_Restarted(c, q) == FALSE /\ ReadFails(c, q)

\* The port stays open.
ReadTimesOut(c, q) ==
    /\ arrived = <<>> /\ ser = "WAIT_FOR_READ"
    /\ ReadFails(c, q)
    /\ isOpen' = isOpen
    /\ ser' = "BEGIN"
    /\ UNCHANGED <<got, line>>

Whole(s) ==
    /\ Len(s) >= 2
    /\ s[1].part \in {"head", "exception"} /\ s[Len(s)].part = "end"
    /\ \A i \in 2..(Len(s) - 1) : s[i].part = "data"

\* readBuffer: the size and the checksum, the unit and the function, and no
\* exception.  Data that do not suit the request are refused by the client.
Accepts(s) == Whole(s) /\ s[1].part = "head" /\ s[1].kind = expect

\* Silence ends the frame.
ReadAll(c, q) ==
    /\ arrived = <<>> /\ ser = "WAIT_FOR_READ_ALL"
    /\ Answered(c, q)
    /\ outcome'.good => Accepts(got)
    /\ ser' = "BEGIN"
    /\ got' = <<>>
    /\ UNCHANGED line

-----------------------------------------------------------------------------
(* The line and the devices                                                *)

ChangeSettings ==
    /\ SetSettings
    /\ UNCHANGED <<ser, got, line>>

Answer ==
    /\ pending # Nothing /\ transit = <<>>
    /\ transit' \in {Response(pending, len) : len \in ResponseLens} \union {Exception(pending)}
    /\ pending' = Nothing
    /\ UNCHANGED <<vars, ser, got, arrived>>

Deliver ==
    /\ isOpen
    /\ \E k \in 1..Len(transit) :
          /\ arrived' = arrived \o SubSeq(transit, 1, k)
          /\ transit' = SubSeq(transit, k + 1, Len(transit))
    /\ UNCHANGED <<vars, ser, got, pending>>

\* A port that is not open receives nothing.
Miss ==
    /\ ~isOpen /\ transit # <<>>
    /\ transit' = <<>>
    /\ UNCHANGED <<vars, ser, got, arrived, pending>>

\* One call of c's API function; the driver works.
Progress(c, q) ==
    \/ OpenStarts(c, q)
    \/ OpenTimesOut(c, q)
    \/ CloseToReopen(c, q)
    \/ WriteWaits(c, q)
    \/ Write(c, q)
    \/ WriteError(c, q)
    \/ ReadWaits(c, q)
    \/ ReadSome(c, q)
    \/ ReadTimesOut(c, q)
    \/ ReadAll(c, q)
    \/ Wait(c, q) /\ UNCHANGED <<ser, got, line>>

SerNext ==
    \/ \E c \in Clients, q \in Requests : Progress(c, q) \/ ReadError(c, q)
    \/ ChangeSettings
    \/ Answer
    \/ Deliver
    \/ Miss

SerSpec == SerInit /\ [][SerNext]_serVars

\* The polling thread calls for every client again and again and gives each
\* the port in turn (ClientPollingTurns).  Nothing is assumed of the devices,
\* and no error of the driver helps a call to its end.
SerFairSpec ==
    /\ SerSpec
    /\ \A c \in Clients : SF_serVars(\E q \in Requests : Progress(c, q))

-----------------------------------------------------------------------------
(* Properties                                                              *)

\* The type of m_state and m_sz, and what m_state says of the port below.
SerTypeOK ==
    /\ TypeOK
    /\ ser \in {"UNKNOWN", "CLOSED", "WAIT_FOR_OPEN", "BEGIN", "WAIT_FOR_WRITE_ALL",
                "WAIT_FOR_READ", "WAIT_FOR_READ_ALL"}
    /\ isOpen = (ser \notin {"UNKNOWN", "CLOSED", "WAIT_FOR_OPEN"})
    /\ state = "WRITE" <=> ser = "WAIT_FOR_WRITE_ALL"
    /\ Len(got) <= BuffSz

\* A response is accepted only if it is one whole frame of the unit and the
\* function that were asked, and none that had come in before the request
\* was written.  (A frame of the same unit and function that was still due may
\* pass for the answer.)
GoodIsTimely ==
    [][\A c \in Clients : call[c] # NoRequest /\ call'[c] = NoRequest /\ outcome'.good
         => /\ Whole(got)
            /\ \A i \in 1..Len(got) : got[i].kind = <<c, call[c]>> /\ ~got[i].old]_serVars

\* Every call ends, whatever the devices send, unless the settings of the
\* port are changed for ever.
CallsEnd ==
    <>[](~changed) =>
        \A c \in Clients : (call[c] # NoRequest) ~> (call[c] = NoRequest)

-----------------------------------------------------------------------------
(* The inductive invariant of ModbusPortSerial_proofs                      *)

Cells == [kind : Frames, part : {"head", "data", "end", "exception"}, old : {FALSE}]

\* What the frame being read is made of, and all that may still become of it.
begun == IF ser = "WAIT_FOR_READ_ALL" THEN got ELSE <<>>
incoming == begun \o (arrived \o transit)

\* Only the first cell of a frame says that a new one begins: a cell of data
\* and a checksum belong to the frame of the cell before them.  The frame in
\* front may have lost its beginning, none has lost a part in its middle.
Joined(s) ==
    \A i \in 1..(Len(s) - 1) :
       s[i + 1].part \in {"data", "end"} => s[i + 1].kind = s[i].kind

SerIInv ==
    /\ IInv
    /\ SerTypeOK
    /\ state = "BEGIN_READ" => isOpen
    /\ got \in Seq(Cells) /\ arrived \in Seq(Cells) /\ transit \in Seq(Cells)
    /\ pending \in Frames
    /\ Joined(incoming)
=============================================================================
