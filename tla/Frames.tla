------------------------------- MODULE Frames -------------------------------
(***************************************************************************)
(* A message as bytes on the line: what Modbus::Client makes of a call,    *)
(* what the three ports make of that, what Modbus::ServerPort reads in it, *)
(* and the same way back.                                                  *)
(*                                                                         *)
(* The bytes of a frame have their 8 bits; the bytes of data, offsets and  *)
(* counts are those of Conversions, whose upper bits are 0.                *)
(***************************************************************************)
EXTENDS Conversions

Code == [READ_COILS |-> 1, READ_DISCRETE_INPUTS |-> 2, READ_HOLDING_REGISTERS |-> 3,
         READ_INPUT_REGISTERS |-> 4, WRITE_SINGLE_COIL |-> 5, WRITE_SINGLE_REGISTER |-> 6,
         READ_EXCEPTION_STATUS |-> 7, WRITE_MULTIPLE_COILS |-> 15, WRITE_MULTIPLE_REGISTERS |-> 16]
Functions == DOMAIN Code
Function(code) == CHOOSE f \in Functions : Code[f] = code
MBF_EXCEPTION == 128

BitReads == {"READ_COILS", "READ_DISCRETE_INPUTS"}
RegisterReads == {"READ_HOLDING_REGISTERS", "READ_INPUT_REGISTERS"}
Reads == BitReads \union RegisterReads \union {"READ_EXCEPTION_STATUS"}
Writes == Functions \ Reads
Multiple == {"WRITE_MULTIPLE_COILS", "WRITE_MULTIPLE_REGISTERS"}

MaxRegisters == (Base - 1) \div 2
MaxDiscretes == (Base - 1) * ByteBits
BuffBits == (Base - 1) * ByteBits       \* innerBufferBitSize()

MemoryOf(func) ==
    CASE func \in {"READ_DISCRETE_INPUTS"} -> "1x"
      [] func = "READ_INPUT_REGISTERS"     -> "3x"
      [] func \in {"READ_HOLDING_REGISTERS", "WRITE_SINGLE_REGISTER", "WRITE_MULTIPLE_REGISTERS"} -> "4x"
      [] OTHER -> "0x"
HasRegisters(memory) == memory \in {"3x", "4x"}
UnitBits(memory) == IF HasRegisters(memory) THEN 2 * ByteBits ELSE 1
MaxOf(func) == IF HasRegisters(MemoryOf(func)) THEN MaxRegisters ELSE MaxDiscretes

\* A 16-bit field, and how registers stand in data: the upper byte first.
Word(n) == <<n \div Base, n % Base>>
WordAt(data, i) == data[i] * Base + data[i + 1]
Swapped(bytes) == ChangeByteOrder(bytes)

-----------------------------------------------------------------------------
(* The calls of Modbus::Client, for message m                              *)

Refused(m) == m.func # "READ_EXCEPTION_STATUS" /\ m.count > MaxOf(m.func)

Named(m) == Word(m.offset) \o Word(m.count)
Value(m, bytes) == SubSeq(BytesOf(m.buff), 1, bytes)
SingleCoilData(m) == Word(m.offset) \o <<IF Value(m, 1) # <<0>> THEN Base - 1 ELSE 0, 0>>
SingleRegisterData(m) == Word(m.offset) \o Swapped(Value(m, 2))
MultipleCoilsData(m) == LET n == Up(m.count, ByteBits) IN Named(m) \o <<n>> \o Value(m, n)
MultipleRegistersData(m) == Named(m) \o <<2 * m.count>> \o Swapped(Value(m, 2 * m.count))
RequestData(m) ==
    CASE m.func = "WRITE_SINGLE_COIL"        -> SingleCoilData(m)
      [] m.func = "WRITE_SINGLE_REGISTER"    -> SingleRegisterData(m)
      [] m.func = "WRITE_MULTIPLE_COILS"     -> MultipleCoilsData(m)
      [] m.func = "WRITE_MULTIPLE_REGISTERS" -> MultipleRegistersData(m)
      [] m.func = "READ_EXCEPTION_STATUS"    -> <<>>
      [] m.func \in BitReads \union RegisterReads -> Named(m)

BitsAnswered(m, data) == data # <<>> /\ data[1] = Len(data) - 1 /\ data[1] = Up(m.count, ByteBits)
RegistersAnswered(m, data) == data # <<>> /\ data[1] = Len(data) - 1 /\ data[1] \div 2 = m.count
\* The value of a single register is not compared: its test and that of the
\* offset are joined by "and".
RegisterAnswered(m, data) ==
    /\ Len(data) = 4
    /\ WordAt(data, 1) = m.offset \/ SubSeq(data, 3, 4) # SubSeq(SingleRegisterData(m), 3, 4)
WriteAnswered(m, data) == Len(data) = 4 /\ WordAt(data, 1) = m.offset
RightAnswer(m, data) ==
    CASE m.func \in BitReads                -> BitsAnswered(m, data)
      [] m.func \in RegisterReads           -> RegistersAnswered(m, data)
      [] m.func = "READ_EXCEPTION_STATUS"   -> Len(data) = 1
      [] m.func = "WRITE_SINGLE_REGISTER"   -> RegisterAnswered(m, data)
      [] m.func \in Multiple \union {"WRITE_SINGLE_COIL"} -> WriteAnswered(m, data)

\* What an answer leaves in the message's buffer.
Received(m, data) ==
    CASE m.func \in BitReads      -> Put(m.buff, 0, BitsOf(Tail(data)))
      [] m.func \in RegisterReads -> Put(m.buff, 0, BitsOf(Swapped(Tail(data))))
      [] m.func = "READ_EXCEPTION_STATUS" -> Put(m.buff, 0, BitsOf(data))
      [] OTHER                    -> m.buff

-----------------------------------------------------------------------------
(* The ports                                                               *)

Low(n) == n % 256
High(n) == n \div 256

BitSet(byte) == {i \in 0..7 : (byte \div 2 ^ i) % 2 = 1}
Xor(s, t) == (s \ t) \union (t \ s)
Shifted(crc) ==
    LET half == {i - 1 : i \in crc \ {0}} IN IF 0 \in crc THEN Xor(half, {0, 13, 15}) ELSE half
Crc16(bytes) ==
    LET Of(crc, byte) ==
            LET S[n \in 0..8] == IF n = 0 THEN Xor(crc, BitSet(byte)) ELSE Shifted(S[n - 1]) IN S[8]
        crc == FoldLeft(Of, 0..15, bytes)
        Byte(from) == Number([i \in 1..8 |-> IF from + i - 1 \in crc THEN 1 ELSE 0], 2)
    IN  <<Byte(0), Byte(8)>>

Lrc(bytes) == (256 - (Number(bytes, 1) % 256)) % 256

Digit(n) == IF n < 10 THEN 48 + n ELSE 55 + n
DigitValue(c) == IF c \in 48..57 THEN c - 48 ELSE IF c \in 65..70 THEN c - 55 ELSE -1
BytesToAscii(bytes) == FlattenSeq([i \in DOMAIN bytes |-> <<Digit(bytes[i] \div 16), Digit(bytes[i] % 16)>>])
AsciiToBytes(ascii) ==
    IF \E i \in DOMAIN ascii : DigitValue(ascii[i]) < 0 THEN <<>>
    ELSE [k \in 1..Up(Len(ascii), 2) |-> 16 * DigitValue(ascii[2 * k - 1]) + DigitValue(ascii[2 * k])]

Colon == 58
CrLf == <<13, 10>>

\* writeBuffer; the transaction of TCP is left to ModbusPortTCP.
TcpFrame(body) == <<0, 0, High(Len(body)), Low(Len(body))>> \o body
RtuFrame(body) == body \o Crc16(body)
AscFrame(body) == <<Colon>> \o BytesToAscii(Append(body, Lrc(body))) \o CrLf
WriteBuffer(protocol, unit, code, data) ==
    LET body == <<unit, code>> \o data
    IN  CASE protocol = "TCP" -> TcpFrame(body)
          [] protocol = "RTU" -> RtuFrame(body)
          [] protocol = "ASC" -> AscFrame(body)

\* readBuffer: unit, function and data, or nothing if the frame is not right.
TcpBody(frame) ==
    IF Len(frame) >= 6 /\ frame[1] = 0 /\ frame[2] = 0 /\ 256 * frame[3] + frame[4] = Len(frame) - 4
    THEN SubSeq(frame, 5, Len(frame)) ELSE <<>>
RtuBody_Unchecked(frame) == IF Len(frame) >= 5 THEN SubSeq(frame, 1, Len(frame) - 2) ELSE <<>>   \* mutant
RtuBody(frame) ==
    LET body == SubSeq(frame, 1, Len(frame) - 2)
    IN  IF Len(frame) >= 5 /\ frame = body \o Crc16(body) THEN body ELSE <<>>
AscBody(frame) ==
    LET bytes == AsciiToBytes(SubSeq(frame, 2, Len(frame) - 2))
        body  == SubSeq(bytes, 1, Len(bytes) - 1)
    IN  IF /\ Len(frame) >= 9 /\ frame[1] = Colon
           /\ SubSeq(frame, Len(frame) - 1, Len(frame)) = CrLf
           /\ bytes # <<>> /\ bytes[Len(bytes)] = Lrc(body)
        THEN body ELSE <<>>
ReadBuffer(protocol, frame) ==
    CASE protocol = "TCP" -> TcpBody(frame)
      [] protocol = "RTU" -> RtuBody(frame)
      [] protocol = "ASC" -> AscBody(frame)

\* What a client port makes of a frame: an exception over RTU keeps its bare
\* code, which is neither good nor bad and has no text, one over ASC is read
\* from the caller's buffer.
AnswerStatus(protocol, unit, code, body) ==
    CASE body = <<>> \/ Len(body) < 2 \/ body[1] # unit -> "Bad"
      [] body[2] >= MBF_EXCEPTION /\ protocol = "RTU" ->
            IF body[3] = 0 THEN "Bad" ELSE "Nameless"
      [] body[2] >= MBF_EXCEPTION -> "Bad"
      [] body[2] # code -> "Bad"
      [] OTHER -> "Good"

-----------------------------------------------------------------------------
(* Modbus::ServerPort                                                      *)

\* processInputData: "drop" is answered by nothing, "value" by an exception.
InputStatus(func, data) ==
    LET size  == Len(data)
        count == WordAt(data, 3)
        unit  == IF func = "WRITE_MULTIPLE_REGISTERS" THEN 2 * count ELSE Up(count, ByteBits)
    IN  CASE func = "READ_EXCEPTION_STATUS" -> IF size > 0 THEN "drop" ELSE "Good"
          [] func \in Multiple ->
                IF size < 5 \/ size # data[5] + 5 \/ unit # data[5] THEN "drop"
                ELSE IF count > MaxOf(func) THEN "value" ELSE "Good"
          [] size # 4 -> "drop"
          [] func = "WRITE_SINGLE_COIL" ->
                IF data[3] \in {0, Base - 1} /\ data[4] = 0 THEN "Good" ELSE "drop"
          [] func = "WRITE_SINGLE_REGISTER" -> "Good"
          [] OTHER -> IF count > MaxOf(func) THEN "value" ELSE "Good"

\* The bits a write is to put into the memory.
InputBits(func, data) ==
    LET rest == SubSeq(data, 6, Len(data))
    IN  CASE func = "WRITE_SINGLE_COIL"     -> <<IF data[3] # 0 THEN 1 ELSE 0>>
          [] func = "WRITE_SINGLE_REGISTER" -> BitsOf(Swapped(SubSeq(data, 3, 4)))
          [] func = "WRITE_MULTIPLE_COILS"  -> Get(BitsOf(rest), 0, WordAt(data, 3))
          [] OTHER                          -> BitsOf(Swapped(rest))

\* processOutputData: the answer to a read carries its bits, that to a single
\* write the request; several are acknowledged with a count of 0.
OutputData(func, data, bits) ==
    LET bytes == BytesOf(bits)
    IN  CASE func \in BitReads      -> <<Len(bytes)>> \o bytes
          [] func \in RegisterReads -> <<Len(bytes)>> \o Swapped(bytes)
          [] func = "READ_EXCEPTION_STATUS" -> bytes
          [] func \in Multiple      -> SubSeq(data, 1, 2) \o Word(0)
          [] OTHER                  -> data
=============================================================================
