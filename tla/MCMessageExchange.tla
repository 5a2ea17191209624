------------------------- MODULE MCMessageExchange --------------------------
(* Instances of MessageExchange for TLC. *)
EXTENDS MessageExchange

Config(protocol, unit, order, array, readOnly, limit) ==
    [protocol |-> protocol, unit |-> unit, registerOrder |-> order, byteArrayFormat |-> array,
     readOnly |-> readOnly, limit |-> limit, statusOffset |-> 0]
\* Every protocol, order and refusal, not their product.
MCConfigs == {
    Config("TCP", 1, "MostSignifiedFirst", "Hex", FALSE, 3),
    Config("TCP", 1, "LessSignifiedFirst", "Dec", TRUE, 3),
    Config("RTU", 1, "LessSignifiedFirst", "Dec", FALSE, 2),
    Config("ASC", 1, "MostSignifiedFirst", "Dec", FALSE, 3),
    Config("RTU", 2, "LessSignifiedFirst", "Dec", FALSE, 3)}

Item(memoryType, offset, format, length, byteOrder, registerOrder) ==
    [memory |-> memoryType, offset |-> offset, format |-> format, length |-> length,
     byteOrder |-> byteOrder, registerOrder |-> registerOrder, byteArrayFormat |-> "Dec"]
MCItems == {
    Item("0x", 2, "Bool", 0, "LessSignifiedFirst", "DefaultOrder"),
    Item("4x", 1, "Hex32", 0, "LessSignifiedFirst", "DefaultOrder"),
    Item("4x", 0, "Dec16", 0, "MostSignifiedFirst", "LessSignifiedFirst"),
    Item("3x", 0, "String", 3, "MostSignifiedFirst", "LessSignifiedFirst"),
    Item("4x", 0, "ByteArray", 3, "LessSignifiedFirst", "LessSignifiedFirst")}

\* A byte array that has no format of its own.
ArrayItems == {[Item("4x", 0, "ByteArray", 3, "LessSignifiedFirst", "LessSignifiedFirst")
                  EXCEPT !.byteArrayFormat = "DefaultDigitalFormat"]}
ArrayConfigs == {Config("TCP", 1, "LessSignifiedFirst", format, FALSE, 3) : format \in {"Dec", "UDec"}}

\* Two registers, coils that are not aligned, and what is past the end.
MCRanges == {<<1, 2>>, <<2, 4>>, <<4, 1>>}
MCItemFormats == {"UDec16", "Hex32"}
MCFormats == {"Bool", "Dec16", "Hex32", "ByteArray"}
MCTexts == [
    Bool      |-> {<<1>>, <<0, 1, 1>>},
    Dec16     |-> {<<-3>>, <<9, NotANumber>>},
    UDec16    |-> {<<60>>},
    Hex32     |-> {<<1234>>},
    ByteArray |-> {<<5, 3, 6>>, <<2, NotANumber>>},
    String    |-> {<<5, 6>>}]
\* Numbers of more than one digit.
ArrayTexts == [MCTexts EXCEPT !.ByteArray = {<<5, 3, 6>>, <<12, 20>>}]
MCSizes == [k \in Memories |->
    CASE k = "0x" -> 7 [] k = "1x" -> 5 [] k = "3x" -> 12 [] k = "4x" -> 18]
MCGarbled == {2, 4}
=============================================================================
