-------------------------- MODULE MessageExchange ---------------------------
(***************************************************************************)
(* One message from what is typed in the client to the server's memory and *)
(* back: the Send Message dialog and the items of a data view make it, a   *)
(* port carries it, the server's device executes it, and what the user     *)
(* sees is made of the answer.                                             *)
(*                                                                         *)
(* One message at a time: queues, shared ports and timing are those of     *)
(* ClientPolling, ModbusClientPort and ServerRuntime.  A request is sent   *)
(* once; repeats are ModbusClientPort's.                                   *)
(***************************************************************************)
EXTENDS Frames

CONSTANTS
    None,           \* no item: the message of the dialog
    Configs,        \* the settings of the two programs
    Items,          \* items of data views, alike in both programs
    Ranges,         \* first address and count, as the dialog is given them
    Formats,        \* the formats the dialog is given
    ItemFormats,    \* the formats the items of the client are given
    Texts,          \* for each format, what is typed for it
    Sizes,          \* the bits of each memory
    Garbled,        \* the bytes of a frame that noise reaches
    MaxAsks,        \* bound: messages sent
    MaxChanges,     \* bound: values set in the server
    MaxFaults       \* bound: frames lost or garbled

ASSUME MessageExchangeAssumption ==
    /\ \A range \in Ranges : range[1] >= 1 /\ range[2] >= 1
    /\ MaxAsks \in Nat /\ MaxChanges \in Nat /\ MaxFaults \in Nat

VARIABLES
    config,         \* protocol, unit and the devices' settings
    memory,         \* the bits of each memory of the server's device
    form,           \* the dialog's format, text and status
    view,           \* the client's items: m_format, m_value and m_cache
    message,        \* the last message sent
    line,           \* the frame under way
    left            \* what the bounds leave

vars == <<config, memory, form, view, message, line, left>>

Memories == {"0x", "1x", "3x", "4x"}
Unit == 1
Silence == [to |-> "nobody", frame |-> <<>>]
\* A message, what was typed for it, and the memory before and after the
\* server executed it.
NoMessage == [item |-> None, func |-> "READ_COILS", offset |-> 0, count |-> 1, buff |-> Zeros(BuffBits),
              status |-> "None", typed |-> [format |-> "Dec16", text |-> <<>>, status |-> ""],
              before |-> [k \in Memories |-> <<>>], after |-> [k \in Memories |-> <<>>]]

Init ==
    /\ config \in Configs
    /\ memory = [k \in Memories |-> Zeros(Sizes[k])]
    /\ form = [format |-> "Dec16", text |-> <<>>, status |-> ""]
    /\ view = [item \in Items |-> [format |-> item.format, value |-> <<>>, cache |-> <<>>]]
    /\ message = NoMessage
    /\ line = Silence
    /\ left = [asks |-> MaxAsks, changes |-> MaxChanges, faults |-> MaxFaults]

Waiting == message.status = "Sent"
Spend(what) == left[what] > 0 /\ left' = [left EXCEPT ![what] = @ - 1]

-----------------------------------------------------------------------------
(* Items of data views                                                     *)

ByteLength(item) ==
    CASE item.format = "Bool" -> IF HasRegisters(item.memory) THEN 2 ELSE 0
      [] item.format \in NumberFormats -> FormatSize[item.format]
      [] OTHER -> item.length
BitLength(item) ==
    IF item.format = "Bool" /\ ~HasRegisters(item.memory) THEN 1 ELSE ByteBits * ByteLength(item)
Count(item) == IF HasRegisters(item.memory) THEN Up(ByteLength(item), 2) ELSE BitLength(item)
SizeOf(item) == Up(BitLength(item), ByteBits)

\* getRegisterOrder: the order of the device unless the item has its own.  Of
\* byte arrays the item's format is taken as it is, the default too.
ItemSettings(item) ==
    [format |-> item.format, registers |-> HasRegisters(item.memory), byteOrder |-> item.byteOrder,
     registerOrder |-> IF item.registerOrder = "DefaultOrder" THEN config.registerOrder ELSE item.registerOrder,
     byteArrayFormat |-> item.byteArrayFormat]
ItemData(item, text) == ToByteArray(text, ItemSettings(item), item.length) \ {<<>>}

\* The item of the client, in the format it has by now.
ClientSettings(item) == [ItemSettings(item) EXCEPT !.format = view[item].format]
ClientItemData(item, text) == ToByteArray(text, ClientSettings(item), item.length) \ {<<>>}
ItemText(item, p, value) ==
    ToVariant(IF value = <<>> THEN Zeros(SizeOf(item)) ELSE value, p, item.length)
Update(item, data) ==
    view' = [view EXCEPT ![item].value = data, ![item].cache = ItemText(item, ClientSettings(item), data)]

\* While the client runs, the format may change to one of the same size.
IsFormatEqualSize(f, g) == {f, g} \subseteq NumberFormats /\ FormatSize[f] = FormatSize[g]
SetItemFormat(item, format) ==
    /\ Spend("changes")
    /\ format # view[item].format /\ IsFormatEqualSize(view[item].format, format)
    /\ view' = [view EXCEPT ![item].format = format,
                            ![item].cache = ItemText(item, [ItemSettings(item) EXCEPT !.format = format], view[item].value)]
    /\ UNCHANGED <<config, memory, form, message, line>>

\* The server's items are read from the device and written to it at once.
ReadData(type, offset, count) ==
    BytesOf(Get(memory[type], offset * UnitBits(type), count * UnitBits(type)))
ServerValue(item) ==
    LET data == ReadData(item.memory, item.offset, Count(item))
    IN  ToVariant(Filled(data, 2 * SizeOf(item)), ItemSettings(item), item.length)
SetCount(item, data) ==
    IF HasRegisters(item.memory) THEN Len(data) \div 2
    ELSE IF item.format = "Bool" THEN 1 ELSE Len(data) * ByteBits
WriteData(type, offset, count, data) ==
    [memory EXCEPT ![type] = Put(@, offset * UnitBits(type), Get(BitsOf(data), 0, count * UnitBits(type)))]
ServerSetValue(item, text) ==
    /\ Spend("changes")
    /\ ~Waiting
    /\ \E data \in ItemData(item, text) :
        memory' = WriteData(item.memory, item.offset, SetCount(item, data), data)
    /\ UNCHANGED <<config, form, view, message, line>>

-----------------------------------------------------------------------------
(* What the dialog makes of its text, and the text it makes of an answer   *)

FormSettings(format, registers) ==
    [format |-> format, registers |-> registers, byteOrder |-> "LessSignifiedFirst",
     registerOrder |-> config.registerOrder, byteArrayFormat |-> config.byteArrayFormat]

FromStringListBits(text) == BytesOf([i \in DOMAIN text |-> IF text[i] = 1 THEN 1 ELSE 0])
FromStringListNumbers(text, format) ==
    FlattenSeq([i \in DOMAIN text |-> NumberBytes(text[i], FormSettings(format, TRUE))])

FormLength(func, count) ==
    CASE func = "WRITE_SINGLE_REGISTER" -> 2
      [] func = "WRITE_MULTIPLE_COILS"  -> Up(count, ByteBits)
      [] OTHER                          -> 2 * count
FormBytes(func, format, text, count) ==
    CASE func = "WRITE_SINGLE_COIL" -> {IF text = <<1>> THEN <<1>> ELSE <<>>}
      [] format = "Bool"            -> {FromStringListBits(text)}
      [] format \in NumberFormats   -> {FromStringListNumbers(text, format)}
      [] OTHER -> ToByteArray(text, FormSettings(format, FALSE), FormLength(func, count))
\* The bits of them that are set in the message: whole registers, of a list
\* of coils as many as it has.
FormBits(func, format, text, data) ==
    LET even == IF Len(data) % 2 = 1 THEN Append(data, 0) ELSE data
    IN  CASE func = "WRITE_SINGLE_REGISTER"    -> BitsOf(Get(even, 0, 2))
          [] func = "WRITE_MULTIPLE_REGISTERS" -> BitsOf(Get(even, 0, 2 * MaxRegisters))
          [] format = "Bool"                   -> Get(BitsOf(data), 0, Len(text))
          [] OTHER                             -> BitsOf(data)
FillData(func, format, text, count) ==
    IF func \in Reads THEN {<<>>}
    ELSE {FormBits(func, format, text, data) : data \in FormBytes(func, format, text, count)}

ToStringListNumbers(data, format) ==
    LET size == FormatSize[format]
        Chunk(k) == Filled(Get(data, (k - 1) * size, size), size)
    IN  FlattenSeq([k \in 1..Up(Len(data), size) |-> NumberText(Chunk(k), FormSettings(format, TRUE))])
\* fillForm: whatever the status, in the format the dialog has by then.
FillForm(m, format) ==
    LET bits == Filled(Get(m.buff, 0, m.count * UnitBits(MemoryOf(m.func))), m.count * UnitBits(MemoryOf(m.func)))
        data == BytesOf(IF m.func = "READ_EXCEPTION_STATUS" THEN Get(m.buff, 0, ByteBits) ELSE bits)
    IN  CASE format = "Bool"          -> Get(BitsOf(data), 0, IF m.count = 0 THEN ByteBits ELSE Len(bits))
          [] format \in NumberFormats -> ToStringListNumbers(data, format)
          [] OTHER                    -> ToVariant(data, FormSettings(format, FALSE), Len(data))

-----------------------------------------------------------------------------
(* A message is sent and completed                                         *)

Message(item, func, offset, count, bits, typed) ==
    [NoMessage EXCEPT !.item = item, !.func = func, !.offset = offset, !.count = count,
                      !.buff = Put(@, 0, bits), !.typed = typed, !.before = memory, !.after = memory]

\* The bare code of an exception over RTU is no status that has a name.
StatusText(status) == IF status = "Nameless" THEN "" ELSE status

\* setComplete: the dialog shows every read, an item one that is good.
Complete(m, status, f) ==
    LET shown == m.func \in Reads
        data  == BytesOf(Get(m.buff, 0, m.count * UnitBits(MemoryOf(m.func))))
    IN  /\ message' = [m EXCEPT !.status = status]
        /\ line' = Silence
        /\ form' = IF m.item # None THEN f
                   ELSE [f EXCEPT !.status = StatusText(status),
                                  !.text = IF shown THEN FillForm(m, f.format) ELSE @]
        /\ IF m.item # None /\ shown /\ status = "Good"
           THEN Update(m.item, Get(data, 0, SizeOf(m.item)))
           ELSE UNCHANGED view

\* execExternalMessage, execWriteMessage and execReadMessage call the client
\* of the function; a count that is too large is refused before it is sent.
Send(m, f) ==
    \/ /\ Refused(m)
       /\ Complete(m, "Bad", f)
    \/ /\ ~Refused(m)
       /\ message' = [m EXCEPT !.status = "Sent"]
       /\ line' = [to |-> "server", frame |-> WriteBuffer(config.protocol, config.unit, Code[m.func], RequestData(m))]
       /\ form' = f
       /\ UNCHANGED view

\* setModbusFunction: the text of a read cannot be typed in.
Typable(func) == func \in Writes
\* createMessage: the offset of a single register is its address.
FormOffset(func, address) ==
    CASE func = "WRITE_SINGLE_REGISTER" -> address
      [] func = "READ_EXCEPTION_STATUS" -> 0
      [] OTHER                          -> address - 1
FormCount(func, count) ==
    CASE func \in {"WRITE_SINGLE_COIL", "WRITE_SINGLE_REGISTER"} -> 1
      [] func = "READ_EXCEPTION_STATUS" -> 0
      [] OTHER                          -> count
SendOne(func, range, format, text) ==
    /\ Spend("asks")
    /\ ~Waiting
    /\ LET count == FormCount(func, range[2])
           f     == [form EXCEPT !.format = format, !.text = IF Typable(func) THEN text ELSE @]
       IN  \E bits \in FillData(func, format, text, count) :
              Send(Message(None, func, FormOffset(func, range[1]), count, bits, f), f)
    /\ UNCHANGED <<config, memory>>

\* The format may be chosen while the message is under way.
SetFormat(format) ==
    /\ Waiting /\ message.item = None /\ format # form.format
    /\ form' = [form EXCEPT !.format = format]
    /\ UNCHANGED <<config, memory, view, message, line, left>>

ReadOf == [k \in Memories |->
    CASE k = "0x" -> "READ_COILS"
      [] k = "1x" -> "READ_DISCRETE_INPUTS"
      [] k = "3x" -> "READ_INPUT_REGISTERS"
      [] k = "4x" -> "READ_HOLDING_REGISTERS"]
WriteOf(item) == IF item.memory = "0x" THEN "WRITE_MULTIPLE_COILS" ELSE "WRITE_MULTIPLE_REGISTERS"

AskItem(item) ==
    /\ Spend("asks")
    /\ ~Waiting
    /\ Send(Message(item, ReadOf[item.memory], item.offset, Count(item), <<>>, NoMessage.typed), form)
    /\ UNCHANGED <<config, memory>>

\* mbClientDataViewItem::setValue changes the byte order a second time.  The
\* message takes as many bits as the item has: past the data they are any.
WriteItem(item, text) ==
    /\ Spend("asks")
    /\ ~Waiting
    /\ item.memory \in {"0x", "4x"}
    /\ \E data \in ClientItemData(item, text) :
        LET size == Count(item) * UnitBits(item.memory)
            bits == Get(BitsOf(InOrder(data, item.byteOrder)), 0, size)
        IN  \E any \in {0, 1} :
              Send(Message(item, WriteOf(item), item.offset, Count(item),
                           bits \o [i \in 1..(size - Len(bits)) |-> any],
                           [form EXCEPT !.format = view[item].format, !.text = text]), form)
    /\ UNCHANGED <<config, memory>>

-----------------------------------------------------------------------------
(* The server                                                              *)

\* The device's answer to what ModbusServerPort passes on: the call's code in
\* an exception, or nothing.
Words(memoryType) == Sizes[memoryType] \div UnitBits(memoryType)
DeviceStatus(func, offset, count) ==
    CASE config.unit # Unit                                    -> "drop"
      [] func = "READ_EXCEPTION_STATUS"                        -> "Good"
      [] func \in Writes /\ config.readOnly                    -> "function"
      [] func \in {"WRITE_SINGLE_COIL", "WRITE_SINGLE_REGISTER"} ->
            IF offset >= Words(MemoryOf(func)) THEN "address" ELSE "Good"
      [] count > config.limit                                  -> "address"
      [] offset + count > Words(MemoryOf(func))                -> "address"
      [] OTHER                                                 -> "Good"
ExceptionCode == [function |-> 1, address |-> 2, value |-> 3]

ExceptionStatus == Get(memory["0x"], config.statusOffset, ByteBits)
\* The bits a read may find: whole bytes of coils that are not aligned are
\* read through a pointer made of a byte of the memory.
Read(func, offset, count) ==
    LET type == MemoryOf(func)
        unit == UnitBits(type)
        bits == Get(memory[type], offset * unit, count * unit)
        lost == IF unit = 1 /\ offset % ByteBits # 0 THEN (count \div ByteBits) * ByteBits ELSE 0
    IN  CASE func = "READ_EXCEPTION_STATUS" -> {ExceptionStatus}
          [] func \in Writes -> {<<>>}
          [] OTHER -> {any \o SubSeq(bits, lost + 1, Len(bits)) : any \in [1..lost -> {0, 1}]}
Written(func, offset, bits) ==
    IF func \in Writes
    THEN [memory EXCEPT ![MemoryOf(func)] = Put(@, offset * UnitBits(MemoryOf(func)), bits)]
    ELSE memory

Asked == ReadBuffer(config.protocol, line.frame)
Served(body) ==
    LET data  == SubSeq(body, 3, Len(body))
        func  == Function(body[2])
        input == InputStatus(func, data)
    IN  CASE body = <<>> -> [status |-> "drop"]
          [] body[2] \notin {Code[f] : f \in Functions} -> [status |-> "function"]
          [] input # "Good" -> [status |-> input]
          [] OTHER ->
                LET offset == IF func = "READ_EXCEPTION_STATUS" THEN 0 ELSE WordAt(data, 1)
                    count  == IF func = "READ_EXCEPTION_STATUS" THEN 0 ELSE WordAt(data, 3)
                IN  [status |-> DeviceStatus(func, offset, count), func |-> func,
                     offset |-> offset, count |-> count, data |-> data]

Reply(code, data) == line' = [to |-> "client", frame |-> WriteBuffer(config.protocol, Asked[1], code, data)]

Drop ==
    /\ line.to = "server"
    /\ Served(Asked).status = "drop"
    /\ line' = Silence
    /\ UNCHANGED <<config, memory, form, view, message, left>>

Refuse ==
    /\ line.to = "server"
    /\ Served(Asked).status \in DOMAIN ExceptionCode
    /\ Reply(Asked[2] + MBF_EXCEPTION, <<ExceptionCode[Served(Asked).status]>>)
    /\ UNCHANGED <<config, memory, form, view, message, left>>

Execute ==
    /\ line.to = "server"
    /\ Served(Asked).status = "Good"
    /\ LET call == Served(Asked)
       IN  /\ memory' = Written(call.func, call.offset, InputBits(call.func, call.data))
           /\ \E bits \in Read(call.func, call.offset, call.count) :
                Reply(Asked[2], OutputData(call.func, call.data, bits))
    /\ message' = [message EXCEPT !.before = memory, !.after = memory']
    /\ UNCHANGED <<config, form, view, left>>

-----------------------------------------------------------------------------
(* The answer, and none                                                    *)

Answer ==
    /\ line.to = "client"
    /\ LET body   == ReadBuffer(config.protocol, line.frame)
           status == AnswerStatus(config.protocol, config.unit, Code[message.func], body)
           data   == SubSeq(body, 3, Len(body))
       IN  IF status = "Good" /\ RightAnswer(message, data)
           THEN Complete([message EXCEPT !.buff = Received(message, data)], "Good", form)
           ELSE Complete(message, IF status = "Good" THEN "Bad" ELSE status, form)
    /\ UNCHANGED <<config, memory, left>>

Timeout ==
    /\ Waiting /\ line = Silence
    /\ Complete(message, "Bad", form)
    /\ UNCHANGED <<config, memory, left>>

\* Noise reaches serial lines; a connection or a cable may break on any.
Lose ==
    /\ Spend("faults")
    /\ line # Silence
    /\ line' = Silence
    /\ UNCHANGED <<config, memory, form, view, message>>

Garble(i) ==
    /\ Spend("faults")
    /\ line # Silence /\ config.protocol # "TCP"
    /\ i \in DOMAIN line.frame
    /\ line' = [line EXCEPT !.frame[i] = (@ + 1) % 256]
    /\ UNCHANGED <<config, memory, form, view, message>>

Next ==
    \/ \E item \in Items : \E text \in Texts[item.format] : ServerSetValue(item, text)
    \/ \E item \in Items : \E text \in Texts[view[item].format] : WriteItem(item, text)
    \/ \E item \in Items, format \in ItemFormats : SetItemFormat(item, format)
    \/ \E item \in Items : AskItem(item)
    \/ \E func \in Functions, range \in Ranges, format \in Formats : \E text \in Texts[format] :
          SendOne(func, range, format, text)
    \/ \E format \in Formats : SetFormat(format)
    \/ Drop \/ Refuse \/ Execute \/ Answer \/ Timeout \/ Lose
    \/ \E i \in Garbled : Garble(i)

Spec == Init /\ [][Next]_vars

-----------------------------------------------------------------------------
(* Properties                                                              *)

Size(m) == (IF m.func = "READ_EXCEPTION_STATUS" THEN ByteBits ELSE m.count * UnitBits(MemoryOf(m.func)))
First(m) == IF m.func = "READ_EXCEPTION_STATUS" THEN config.statusOffset ELSE m.offset * UnitBits(MemoryOf(m.func))
\* The bits of the memory a message names.
Stored(m) == SubSeq(m.after[MemoryOf(m.func)], First(m) + 1, First(m) + Size(m))
Carried(m) ==
    IF m.func = "WRITE_SINGLE_COIL" THEN <<IF 1 \in {m.buff[i] : i \in 1..ByteBits} THEN 1 ELSE 0>>
    ELSE SubSeq(m.buff, 1, Size(m))
\* server_device.cpp:159: whole bytes of coils that are not aligned are lost.
Lost(m) ==
    IF m.func \in BitReads /\ m.offset % ByteBits # 0 THEN (m.count \div ByteBits) * ByteBits ELSE 0

\* The memory changes by a message in no other bits than those it names, and
\* in them to what it carries, even if noise reaches the request.  A message
\* is good only if all it names exists; then a write has been done, and a read
\* has what was stored when the server executed it
\* (Modbus::Client, Modbus::ServerPort and mbServerDevice; readBuffer of the
\* ports, changed frames being left out).
AnswersAreTrue ==
    LET m    == message
        type == MemoryOf(m.func)
        Touched(k, i) == k = type /\ i \in (First(m) + 1)..(First(m) + Size(m))
    IN  /\ m.after # m.before =>
              \A k \in Memories : \A i \in DOMAIN m.after[k] :
                 m.after[k][i] = IF Touched(k, i) THEN Carried(m)[i - First(m)] ELSE m.before[k][i]
        /\ m.status = "Good" =>
              /\ First(m) + Size(m) <= Len(m.after[type])
              /\ \A i \in (Lost(m) + 1)..Size(m) : Carried(m)[i] = Stored(m)[i]

\* Where byte j of a number of so many bytes stands in it, the least first.
Place(j, size, p) ==
    LET register == IF p.registerOrder = "MostSignifiedFirst" THEN (size \div 2) - 1 - (j \div 2) ELSE j \div 2
        half     == IF p.byteOrder = "MostSignifiedFirst" THEN 1 - (j % 2) ELSE j % 2
    IN  2 * register + half
NumberIn(bits, size, p) ==
    MapThenSumSet(LAMBDA k : bits[k + 1] * 2 ^ (Place(k \div ByteBits, size, p) * ByteBits + (k % ByteBits)),
                  0..(size * ByteBits - 1))

\* The bits that part i of a text is about, as far as there are so many.
PartSize(p) ==
    CASE p.format = "Bool" -> IF p.registers THEN 2 * ByteBits ELSE 1
      [] p.format \in NumberFormats -> Width(p.format)
      [] OTHER -> ByteBits
PartAt(bits, i, p) ==
    LET j == IF p.byteOrder = "MostSignifiedFirst" /\ p.format \in {"String", "ByteArray"}
             THEN (IF i % 2 = 0 THEN i - 1 ELSE i + 1) ELSE i
    IN  SubSeq(bits, (j - 1) * PartSize(p) + 1, j * PartSize(p))
\* That part says what the bits hold.
Says(part, bits, p) ==
    CASE p.format = "Bool" -> (part = 1) <=> (1 \in {bits[k] : k \in DOMAIN bits})
      [] p.format \in NumberFormats ->
            part % 2 ^ Width(p.format) = NumberIn(bits, FormatSize[p.format], p)
      [] OTHER -> part % Base = Number(bits, 2)
Settings(m) == IF m.item = None THEN FormSettings(form.format, FALSE) ELSE ClientSettings(m.item)

\* A text tells what is held, part by part; a string ends where it is zero.
Tells(text, held, p) ==
    LET n    == Up(Len(held), PartSize(p))
        bits == Filled(held, n * PartSize(p))
    IN  /\ \A i \in DOMAIN text : Says(text[i], PartAt(bits, i, p), p)
        /\ p.format = "String" => \A i \in DOMAIN text : text[i] # 0
        /\ p.format = "String" /\ Len(text) < n => Says(0, PartAt(bits, Len(text) + 1, p), p)

\* What is shown of a good read is what is stored, part by part and complete:
\* in the order and format of the device and the item or the dialog
\* (fillForm, mbClientDataViewItem::update).
ReadIsShown(m) ==
    LET p    == Settings(m)
        text == IF m.item = None THEN form.text ELSE view[m.item].cache
    IN  /\ p.format # "String" /\ m.item = None => Len(text) = Up(Size(m), PartSize(p))
        /\ Tells(text, Stored(m), p)

\* What the server shows of an item is what its memory holds.
ServerIsShown ==
    \A item \in Items :
        LET first == item.offset * UnitBits(item.memory)
            last  == first + Count(item) * UnitBits(item.memory)
        IN  last <= Sizes[item.memory] =>
                Tells(ServerValue(item), SubSeq(memory[item.memory], first + 1, last), ItemSettings(item))

\* The numbers typed for a good write are stored, as far as the message has
\* room for them: those that can be read, and all of a byte array's or none.
\* An item with MostSignifiedFirst bytes is left out: client_dataview.cpp:180
\* changes their order twice.
TypedSettings(m) == [Settings(m) EXCEPT !.format = m.typed.format]
TypedIsStored(m) ==
    LET p    == TypedSettings(m)
        text == m.typed.text
        Fits(i) == i * PartSize(p) <= Size(m)
        Known(i) == IF p.format = "ByteArray" THEN \A j \in DOMAIN text : ArrayReadable(text[j], p.byteArrayFormat)
                    ELSE text[i] \in Readable(p.format)
    IN  p.byteOrder # "MostSignifiedFirst" =>
          \A i \in DOMAIN text : Fits(i) /\ Known(i) => Says(text[i], PartAt(Stored(m), i, p), p)

\* mbcore.cpp:546: not so of a byte array in UDec (ArraysAreStored).
WriteIsStored(m) ==
    LET p       == TypedSettings(m)
        claimed == \/ p.format \in NumberFormats
                   \/ p.format = "ByteArray" /\ p.byteArrayFormat # "UDec"
    IN  claimed => TypedIsStored(m)

\* A number is shown as it is stored and stored as it was typed, through the
\* byte and register orders of both programs and of the line
\* (mb::toByteArray, mb::toVariant, Modbus::Client, Modbus::ServerPort).
ShownIsStored ==
    /\ ServerIsShown
    /\ message.status = "Good" /\ Lost(message) = 0 =>
          IF message.func \in Reads THEN ReadIsShown(message) ELSE WriteIsStored(message)

\* What the help says of the byte array formats, "Can be Bin, Oct, Dec, UDec
\* and Hex": a byte array that is typed in any of them and written is stored.
\* In UDec its digits are taken for hexadecimal ones, though memory is shown
\* in decimal (the break that is missing in mb::toByteArray).
ArraysAreStored ==
    message.status = "Good" /\ message.func \in Writes /\ TypedSettings(message).format = "ByteArray" =>
        TypedIsStored(message)

\* What the help says of an item's byte array format, "If Default current
\* device byte array format is used": the server shows such an item as it
\* would in the device's format.  It takes Default for Hex
\* (mbCoreDataViewItem::toVariant, which asks the device for the register
\* order and the separator only).
DefaultIsOfDevice ==
    \A item \in Items :
        item.format = "ByteArray" /\ item.byteArrayFormat = "DefaultDigitalFormat" =>
            ServerValue(item) = ServerValue([item EXCEPT !.byteArrayFormat = config.byteArrayFormat])
=============================================================================
