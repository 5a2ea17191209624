------------------------------ MODULE Settings ------------------------------
(***************************************************************************)
(* What the objects of a project hold: the fields of each class, and how   *)
(* settings() and setSettings() read and write them.                       *)
(*                                                                         *)
(* A value stands for the QVariant of it and for its text.  A number that  *)
(* does not convert is Unreadable, an enumeration's key that does not is   *)
(* a string that is no key.                                                *)
(***************************************************************************)
EXTENDS Integers, Sequences, FiniteSets, TLC

CONSTANTS
    Devices,    \* the devices a row can refer to
    None        \* nullptr

ASSUME DevicesAssumption == None \notin Devices

Unreadable == -1

\* The kinds of fields, with the value that a new object has.
Text(d)     == [kind |-> "text", default |-> d]
Name(d)     == [kind |-> "name", default |-> d]
Number(d)   == [kind |-> "number", default |-> d, top |-> 2147483647]
Word(d)     == [kind |-> "number", default |-> d, top |-> 65535]
Byte(d)     == [kind |-> "number", default |-> d, top |-> 255]
Loose(d)    == [kind |-> "loose", default |-> d]    \* toInt() without ok
Key(d, keys) == [kind |-> "enum", default |-> d, keys |-> keys]
Flag(d)     == [kind |-> "flag", default |-> d]
Address(d, ok) == [kind |-> IF ok THEN "address" ELSE "loose address", default |-> d]
Device      == [kind |-> "device", default |-> None]
Unread(d)   == [kind |-> "unread", default |-> d]   \* written, but not read back

Orders == {"DefaultOrder", "LessSignifiedFirst", "MostSignifiedFirst"}
DigitalFormats == {"DefaultDigitalFormat", "Dec", "Hex"}        \* of six
LengthTypes == {"DefaultStringLengthType", "ZerroEnded", "FullLength"}
Encodings == {"DefaultStringEncoding", "Utf8", "Utf16"}         \* of four
Formats == {"Bool", "Dec16", "Double", "ByteArray", "String"}   \* of twenty
DataTypes == {"Bit", "Int16", "Double64"}                       \* of eleven
DefaultSeparator == "[default]"

PortFields ==
    [name |-> Name("Port"), type |-> Key("TCP", {"TCP", "RTU", "ASC"}),
     host |-> Text("127.0.0.1"), port |-> Word(502), timeout |-> Number(3000),
     serialPortName |-> Text(""), baudRate |-> Number(9600),
     dataBits |-> Key("Data8", {"Data7", "Data8"}),
     parity |-> Key("NoParity", {"NoParity", "EvenParity"}),
     stopBits |-> Key("OneStop", {"OneStop", "TwoStop"}),
     flowControl |-> Key("NoFlowControl", {"NoFlowControl", "HardwareControl"}),
     timeoutFirstByte |-> Number(500), timeoutInterByte |-> Number(50)]

\* The constructor gives the limits of writing those of reading registers.
DeviceFields ==
    [name |-> Name("Device"),
     maxReadCoils |-> Word(2040), maxReadDiscreteInputs |-> Word(2040),
     maxReadHoldingRegisters |-> Word(127), maxReadInputRegisters |-> Word(127),
     maxWriteMultipleCoils |-> Word(127), maxWriteMultipleRegisters |-> Word(127),
     registerOrder |-> Key("LessSignifiedFirst", Orders),
     byteArrayFormat |-> Key("Hex", DigitalFormats), byteArraySeparator |-> Text(" "),
     stringLengthType |-> Key("ZerroEnded", LengthTypes), stringEncoding |-> Key("Utf8", Encodings)]

ClientDeviceFields == DeviceFields @@ [unit |-> Byte(1), portName |-> Text("")]

ServerDeviceFields == DeviceFields @@
    [count0x |-> Number(65535), count1x |-> Number(65535), count3x |-> Number(65535),
     count4x |-> Number(65535), isSaveData |-> Flag(TRUE), isReadOnly |-> Flag(FALSE),
     exceptionStatusAddress |-> Address(1, TRUE), delay |-> Number(0)]

ItemFields ==
    [device |-> Device, address |-> Address(400001, FALSE), format |-> Key("Dec16", Formats),
     comment |-> Text(""), variableLength |-> Loose(20),
     byteOrder |-> Key("LessSignifiedFirst", Orders),
     registerOrder |-> Key("LessSignifiedFirst", Orders),
     byteArrayFormat |-> Key("Hex", DigitalFormats), byteArraySeparator |-> Text(DefaultSeparator),
     stringLengthType |-> Key("ZerroEnded", LengthTypes), stringEncoding |-> Key("Utf8", Encodings)]

ClientItemFields == ItemFields @@ [period |-> Number(1000)]

ViewFields == [name |-> Text("dataView"), period |-> Loose(1000)]
ProjectFields == [name |-> Text(""), author |-> Text(""), comment |-> Text("")]

ActionCommon ==
    [device |-> Device, address |-> Address(400001, FALSE), dataType |-> Key("Int16", DataTypes),
     period |-> Number(1000), comment |-> Text(""),
     actionType |-> Key("Increment", {"Increment", "Sine", "Random"}),
     byteOrder |-> Unread("LessSignifiedFirst"), registerOrder |-> Unread("LessSignifiedFirst")]

\* The objects that an action delegates its type's settings to.
ActionExtended ==
    [Increment |-> [incrementValue |-> Text("1")],
     Sine |-> [sinePeriod |-> Number(10000), sinePhaseShift |-> Number(0),
               sineAmplitude |-> Text("100"), sineVerticalShift |-> Text("0")],
     Random |-> [randomMin |-> Text("0"), randomMax |-> Text("100")]]

Classes == {"clientPort", "serverPort", "clientDevice", "serverDevice", "clientItem", "serverItem", "action",
            "view", "project"}

AllFields ==
    [clientPort |-> PortFields, serverPort |-> PortFields,
     clientDevice |-> ClientDeviceFields, serverDevice |-> ServerDeviceFields,
     clientItem |-> ClientItemFields, serverItem |-> ItemFields,
     action |-> ActionCommon @@ ActionExtended["Increment"] @@ ActionExtended["Sine"]
                             @@ ActionExtended["Random"],
     view |-> ViewFields, project |-> ProjectFields]

-----------------------------------------------------------------------------
(* Conversions                                                             *)

\* mb::toInt(mb::toAddress(n)): an address that is out of range is the first.
Normal(n) == LET type == n \div 100000
                 offset == (n % 100000) - 1
             IN  100000 * (IF type \in {0, 1, 3, 4} THEN type ELSE 4)
                    + 1 + (IF offset \in 0..65535 THEN offset ELSE 0)

MemoryType(address) == address \div 100000
Offset(address) == (address % 100000) - 1

Stored_Unchecked(f, old, v) ==
    CASE f.kind = "enum" -> IF v \in f.keys THEN v ELSE old
      [] f.kind \in {"address", "loose address"} -> Normal(IF v = Unreadable THEN 0 ELSE v)
      [] f.kind = "unread" -> old
      [] OTHER -> v

\* What a field is after setSettings() was given v.
Stored(f, old, v) ==
    CASE f.kind \in {"text", "flag", "device"} -> v
      [] f.kind = "name" -> IF v = "" THEN f.default ELSE v
      [] f.kind = "number" -> IF v = Unreadable THEN old ELSE IF v <= f.top THEN v ELSE v % (f.top + 1)
      [] f.kind = "loose" -> IF v = Unreadable THEN 0 ELSE v
      [] f.kind = "enum" -> IF v \in f.keys THEN v ELSE old
      [] f.kind = "address" -> IF v = Unreadable THEN old ELSE Normal(v)
      [] f.kind = "loose address" -> Normal(IF v = Unreadable THEN 0 ELSE v)
      [] f.kind = "unread" -> old

Defaults(fields) == [f \in DOMAIN fields |-> fields[f].default]

Set(fields, object, given) ==
    [f \in DOMAIN object |-> IF f \in DOMAIN fields \intersect DOMAIN given
                             THEN Stored(fields[f], object[f], given[f]) ELSE object[f]]

ActionSet_OldType(object, given) ==
    LET common == Set(ActionCommon, object, given)
        extended == Set(ActionExtended[object.actionType], common, given)
    IN  IF common.actionType = object.actionType THEN extended
        ELSE [f \in DOMAIN common |-> IF f \in DOMAIN ActionCommon THEN common[f]
                                      ELSE AllFields["action"][f].default]

\* An action of another type has a new object for its type's settings.
ActionSet(object, given) ==
    LET common == Set(ActionCommon, object, given)
        type == common.actionType
        extended == IF type = object.actionType THEN common
                    ELSE [f \in DOMAIN common |-> IF f \in DOMAIN ActionCommon THEN common[f]
                                                  ELSE AllFields["action"][f].default]
    IN  Set(ActionExtended[type], extended, given)

\* setSettings() and settings() of every class.
SetSettings(class, object, given) ==
    IF class = "action" THEN ActionSet(object, given) ELSE Set(AllFields[class], object, given)

SettingsOf(class, object) ==
    IF class = "action"
    THEN [f \in DOMAIN ActionCommon \union DOMAIN ActionExtended[object.actionType] |-> object[f]]
    ELSE object

New(class) == Defaults(AllFields[class])

-----------------------------------------------------------------------------
(* How much memory a row stands for                                        *)

Bits(address) == MemoryType(address) \in {0, 1}

FormatSize == [Dec16 |-> 2, Double |-> 8, Bool |-> 0, ByteArray |-> 0, String |-> 0]

ByteLength(item) ==
    CASE item.format = "Bool" -> IF Bits(item.address) THEN 0 ELSE 2
      [] item.format \in {"ByteArray", "String"} -> item.variableLength
      [] OTHER -> FormatSize[item.format]

DataTypeSize(t) == CASE t = "Bit" -> 0 [] t = "Int16" -> 2 [] t = "Double64" -> 8

\* length(): in bits or in registers.
Length(class, row) ==
    IF class = "action"
    THEN IF Bits(row.address) THEN 8 * DataTypeSize(row.dataType)
         ELSE (DataTypeSize(row.dataType) + 1) \div 2
    ELSE IF Bits(row.address) THEN IF row.format = "Bool" THEN 1 ELSE 8 * ByteLength(row)
         ELSE (ByteLength(row) + 1) \div 2

\* The address that New and Edit give the row after this one.
NextAddress(class, row) == row.address + Length(class, row)
=============================================================================
