---------------------------- MODULE Conversions -----------------------------
(***************************************************************************)
(* What is typed and shown, and the bytes it stands for: mb::toByteArray   *)
(* and mb::toVariant (core/sdk/mbcore.cpp).                                *)
(*                                                                         *)
(* A text is the sequence of its parts: the numbers between commas or      *)
(* separators, or the characters of a string.  Bytes have ByteBits bits,   *)
(* so that a register has 2 * ByteBits; bits are numbered from the least.  *)
(***************************************************************************)
EXTENDS Integers, SequencesExt

CONSTANTS
    ByteBits,       \* MB_BYTE_SZ_BITES, 8 in the code
    NotANumber      \* a part that no base can read

ASSUME ConversionsAssumption == ByteBits \in Nat \ {0, 1} /\ NotANumber \notin Int

Base == 2 ^ ByteBits

-----------------------------------------------------------------------------
(* Bits, bytes and numbers                                                 *)

Up(n, k) == (n + k - 1) \div k
Least(m, n) == IF m < n THEN m ELSE n
Number(digits, base) == FoldRight(LAMBDA d, n : d + base * n, digits, 0)
Digits(n, base, count) == [i \in 1..count |-> (n \div base ^ (i - 1)) % base]
BitsOf(bytes) ==
    [i \in 1..(Len(bytes) * ByteBits) |->
        (bytes[(i - 1) \div ByteBits + 1] \div 2 ^ ((i - 1) % ByteBits)) % 2]
BytesOf(bits) ==
    [k \in 1..Up(Len(bits), ByteBits) |->
        Number(SubSeq(bits, (k - 1) * ByteBits + 1, Least(k * ByteBits, Len(bits))), 2)]
Zeros(n) == [i \in 1..n |-> 0]
Filled(s, n) == s \o Zeros(n - Len(s))

\* count elements of s from offset on; s with new in place of its elements from
\* offset on: both are cut where s ends.
Get(s, offset, count) == SubSeq(s, offset + 1, Least(offset + count, Len(s)))
Put(s, offset, new) ==
    [i \in DOMAIN s |-> IF i - offset \in DOMAIN new THEN new[i - offset] ELSE s[i]]

-----------------------------------------------------------------------------
(* Formats.  Those that read and show numbers alike are one: Hex stands    *)
(* for Bin and Oct, whose numbers are not signed either, and Hex32 and     *)
(* Hex64 for the unsigned decimals of their size.  A byte array in UDec is *)
(* a case of its own.  The bits of a Float or Double are handled like      *)
(* those of Hex32 and Hex64.                                               *)

FormatSize == [Dec16 |-> 2, UDec16 |-> 2, Hex16 |-> 2, Dec32 |-> 4, Hex32 |-> 4, Dec64 |-> 8, Hex64 |-> 8]
NumberFormats == DOMAIN FormatSize
SignedFormats == {"Dec16", "Dec32", "Dec64"}
Width(format) == FormatSize[format] * ByteBits

Unsigned(bits) == 0..(2 ^ bits - 1)
Signed(bits) == (-2 ^ (bits - 1))..(2 ^ (bits - 1) - 1)
Int32 == Signed(4 * ByteBits)
UInt32 == Unsigned(4 * ByteBits)

\* The numbers that QVariant and QString read for a format: anything else is 0.
\* The 16-bit decimals are read as int and cut.
Readable(format) ==
    CASE format \in {"Dec16", "UDec16"}     -> Int32
      [] format \in SignedFormats           -> Signed(Width(format))
      [] OTHER                              -> Unsigned(Width(format))
Parsed(format, part) ==
    IF part \in Readable(format) THEN part % 2 ^ Width(format) ELSE 0
Shown(format, n) ==
    IF format \in SignedFormats /\ n >= 2 ^ (Width(format) - 1) THEN n - 2 ^ Width(format) ELSE n

\* swapRegisters32, swapRegisters64; changeByteOrder leaves an odd last byte.
SwapRegisters_No(bytes) == bytes                \* mutant: order ignored
SwapRegisters(bytes) ==
    [i \in DOMAIN bytes |-> bytes[Len(bytes) - 2 * ((i - 1) \div 2) - 1 + ((i - 1) % 2)]]
ChangeByteOrder(bytes) ==
    [i \in DOMAIN bytes |->
        CASE i % 2 = 0       -> bytes[i - 1]
          [] i = Len(bytes)  -> bytes[i]
          [] OTHER           -> bytes[i + 1]]

-----------------------------------------------------------------------------
(* toByteArray.  p holds the settings it is given: format, registers       *)
(* (whether the memory has registers), byteOrder, registerOrder and        *)
(* byteArrayFormat; length is variableLength.                              *)

InOrder(bytes, order) == IF order = "MostSignifiedFirst" THEN ChangeByteOrder(bytes) ELSE bytes
RegistersInOrder(bytes, order) == IF order = "MostSignifiedFirst" THEN SwapRegisters(bytes) ELSE bytes

NumberBytes(part, p) ==
    RegistersInOrder(Digits(Parsed(p.format, part), Base, FormatSize[p.format]), p.registerOrder)

\* Of a Bool in a register only the first byte is written.
BoolBytes(part, p) ==
    LET first == IF part = 0 THEN 0 ELSE 1
    IN  IF p.registers THEN {<<first, any>> : any \in 0..(Base - 1)} ELSE {<<first>>}

\* What the decimal digits of n are as hexadecimal.  The case of UDec has no
\* break: each part is read once more in the case of Hex, which is also that
\* of a format that is none of the five.
ReadAsHex[n \in Nat] == IF n = 0 THEN 0 ELSE (n % 10) + 16 * ReadAsHex[n \div 10]
ArrayPart(part, format) == IF format = "UDec" /\ part \in Nat THEN ReadAsHex[part] ELSE part
ArrayReadable(part, format) == ArrayPart(part, format) \in (IF format = "Dec" THEN Int32 ELSE UInt32)

\* No byte at all if one part cannot be read; as many as there are parts, at
\* least variableLength.
ByteArrayBytes(text, p, length) ==
    IF \E i \in DOMAIN text : ~ArrayReadable(text[i], p.byteArrayFormat) THEN <<>>
    ELSE Filled([i \in DOMAIN text |-> ArrayPart(text[i], p.byteArrayFormat) % Base], length)

\* One byte for a character, cut to 2 * variableLength bytes, ended by a zero
\* and made even where there is room.
StringBytes(text, length) ==
    LET room == 2 * length
        cut  == SubSeq(text, 1, Least(Len(text), room))
        ended == IF Len(cut) < room THEN Append(cut, 0) ELSE cut
    IN  IF Len(ended) % 2 = 1 /\ Len(ended) < room THEN Append(ended, 0) ELSE ended

ToByteArray(text, p, length) ==
    LET data == CASE p.format = "Bool"      -> BoolBytes(text[1], p)
                  [] p.format = "ByteArray" -> {ByteArrayBytes(text, p, length)}
                  [] p.format = "String"    -> {StringBytes(text, length)}
                  [] OTHER                  -> {NumberBytes(text[1], p)}
    IN  {InOrder(bytes, p.byteOrder) : bytes \in data}

-----------------------------------------------------------------------------
(* toVariant.  A string is looked for its zero in twice as many bytes as   *)
(* the data have; the byte after them is zero.  A byte array in UDec is    *)
(* shown in decimal, its bytes not signed.                                 *)

NumberText(bytes, p) ==
    <<Shown(p.format, Number(RegistersInOrder(SubSeq(bytes, 1, FormatSize[p.format]), p.registerOrder), Base))>>
BoolText(bytes, p) ==
    <<IF p.registers THEN (IF Number(SubSeq(bytes, 1, 2), Base) # 0 THEN 1 ELSE 0) ELSE bytes[1] % 2>>
ByteArrayText(bytes, p, length) ==
    [i \in 1..length |->
        IF p.byteArrayFormat = "Dec" /\ bytes[i] >= Base \div 2 THEN bytes[i] - Base ELSE bytes[i]]
StringText(bytes) ==
    SubSeq(bytes, 1, SelectInSeq(Append(bytes, 0), LAMBDA c : c = 0) - 1)

ToVariant(data, p, length) ==
    LET bytes == InOrder(data, p.byteOrder)
    IN  CASE p.format = "Bool"      -> BoolText(bytes, p)
          [] p.format = "ByteArray" -> ByteArrayText(bytes, p, length)
          [] p.format = "String"    -> StringText(bytes)
          [] OTHER                  -> NumberText(bytes, p)
=============================================================================
