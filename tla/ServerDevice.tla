---------------------------- MODULE ServerDevice ----------------------------
(***************************************************************************)
(* One memory of a server device (mbServerDevice::MemoryBlock), the        *)
(* requests, actions and edits that read and write it from several         *)
(* threads, and the table that shows it (mbServerDeviceUiModel).           *)
(*                                                                         *)
(* A word is the set of its bits that are 1, a memory is one long word.    *)
(* Every function of MemoryBlock holds the block's lock, so it is a step.  *)
(***************************************************************************)
EXTENDS Integers, FiniteSets

CONSTANTS
    W,              \* MB_BYTE_SZ_BITES, 8 in the code
    MaxBits,        \* bound: the largest size the memory is given
    Sizes,          \* the sizes in bits it is given: coils any, registers whole ones
    MaxCount,       \* the most bits a request may read or write
    ActionOffsets,  \* the addresses of the actions
    TypeBytes,      \* the sizes of the types of their values
    Watched,        \* the bit the table shows
    MaxChanges      \* bound: how often the memory is written

ASSUME ServerDeviceAssumption ==
    /\ W \in Nat \ {0, 1} /\ MaxBits \in Nat
    /\ Sizes \subseteq 1..MaxBits /\ Sizes # {}
    /\ ActionOffsets \subseteq Nat /\ TypeBytes \subseteq Nat \ {0}
    /\ MaxCount \in Nat /\ Watched \in Nat /\ MaxChanges \in Nat

VARIABLES
    mem,        \* MemoryBlock::m_data, the bits that are 1
    size,       \* m_sizeBits
    counter,    \* m_changeCounter
    readOnly,   \* m_settings.isReadOnly
    held,       \* where an Increment action has read and not written yet
    seen,       \* mbServerDeviceUiModel::m_changeCounter
    dirty,      \* the view is to paint the cell again
    shown       \* what the view shows

block == <<mem, size, counter>>
view == <<seen, dirty, shown>>
vars == <<block, readOnly, held, view>>

Nothing == <<>>

Init ==
    /\ mem = {}
    /\ size \in Sizes
    /\ counter = 0
    /\ readOnly \in BOOLEAN
    /\ held = Nothing
    /\ seen = 0 /\ dirty = TRUE /\ shown = "nothing"

-----------------------------------------------------------------------------
(* Words                                                                   *)

Word(s, k, w) == {b - k * W : b \in s \cap (k * W)..(k * W + w - 1)}
Put(s, k, w, v) == (s \ (k * W)..(k * W + w - 1)) \union {b + k * W : b \in v}
Left(v, n, w) == {b + n : b \in v} \cap 0..(w - 1)
Right(v, n) == {b - n : b \in {x \in v : x >= n}}
SignedRight_Unsigned(v, n, w) == Right(v, n)     \* mutant: an unsigned mask
SignedRight(v, n, w) == Right(v, n) \union (IF w - 1 \in v THEN (w - n)..(w - 1) ELSE {})
Not(v, w) == (0..(w - 1)) \ v

-----------------------------------------------------------------------------
(* MemoryBlock                                                             *)

\* What is done of what is asked for: offset and count are cut at the end.
Fits_Not(offset, count, sz) == count    \* mutant: not cut
Fits(offset, count, sz) == IF offset + count > sz THEN sz - offset ELSE count

Spread(v, at) == {b + at : b \in v}

\* readBits: the results it may have.  Whole bytes that are not aligned are
\* read through a pointer made of a byte of the memory: anything may happen.
ReadBits(s, sz, offset, count) ==
    LET c     == Fits(offset, count, sz)
        k     == offset \div W
        bytes == c \div W
        shift == offset % W
        resid == c % W
        mask  == Not(SignedRight({W - 1}, W - 1 - resid, W), W)
        last  == IF resid = 0 THEN {}
                 ELSE IF shift = 0 THEN Word(s, k + bytes, W) \cap mask
                 ELSE Right(Word(s, k + bytes, IF shift + resid > W THEN 2 * W ELSE W), shift) \cap mask
        whole == IF shift = 0 THEN {Word(s, k, bytes * W)} ELSE SUBSET (0..(bytes * W - 1))
    IN  {v \union Spread(last, bytes * W) : v \in whole}

\* readBools: bit by bit, from the first byte to the last.
ReadBools(s, sz, offset, count) ==
    {i \in 0..(Fits(offset, count, sz) - 1) :
        ((offset + i) % W) \in Word(s, (offset + i) \div W, W)}

\* writeBits: unaligned bytes are merged into two bytes at a time, the rest
\* under a mask; aligned ones are copied.
MergeByte(s, k, shift, v) ==
    LET mask == Left(0..(W - 1), shift, 2 * W)
    IN  Put(s, k, 2 * W, (Word(s, k, 2 * W) \ mask) \union Left(v, shift, 2 * W))

RestMask(shift, resid) ==
    IF shift + resid > W
    THEN Right(SignedRight({2 * W - 1}, resid - 1, 2 * W), 2 * W - resid - shift)
    ELSE Right(SignedRight({W - 1}, resid - 1, W), W - resid - shift)

MergeRest(s, k, shift, resid, v) ==
    LET w    == IF shift + resid > W THEN 2 * W ELSE W
        mask == RestMask(shift, resid)
        keep == SignedRight({W - 1}, W - 1 - resid, W)
    IN  IF resid = 0 THEN s
        ELSE IF shift = 0 THEN Put(s, k, W, (Word(s, k, W) \cap keep) \union (v \cap Not(keep, W)))
        ELSE Put(s, k, w, (Word(s, k, w) \ mask) \union (Left(v, shift, w) \cap mask))

WriteBits(s, sz, offset, count, buff) ==
    LET c     == Fits(offset, count, sz)
        k     == offset \div W
        bytes == c \div W
        shift == offset % W
        Bytes[i \in 0..bytes] ==
            IF i = 0 THEN s
            ELSE IF shift = 0 THEN Put(Bytes[i - 1], k + i - 1, W, Word(buff, i - 1, W))
            ELSE MergeByte(Bytes[i - 1], k + i - 1, shift, Word(buff, i - 1, W))
    IN  MergeRest(Bytes[bytes], k + bytes, shift, c % W, Word(buff, bytes, W))

\* writeBools: bit by bit; write: whole bytes.
WriteBools(s, sz, offset, count, buff) ==
    LET n == Fits(offset, count, sz) - 1
    IN  (s \ offset..(offset + n)) \union Spread(buff \cap 0..n, offset)
ByteCount == (size + W - 1) \div W
WriteBytes(k, n, buff) ==
    Put(mem, k, Fits(k, n, ByteCount) * W, buff \cap 0..(Fits(k, n, ByteCount) * W - 1))

\* write, writeBits and writeBools count the change; an offset outside the
\* memory, or nothing to write, is an illegal address.
Changed(new) ==
    /\ counter < MaxChanges
    /\ mem' = new
    /\ counter' = counter + 1
    /\ UNCHANGED size

-----------------------------------------------------------------------------
(* Requests (mbServerDevice::writeMultipleCoils and the like)              *)

Values(count) == SUBSET (0..(count - 1))

\* writeSingleCoil is the case of one bit.
WriteMultipleCoils(offset, count, buff) ==
    /\ ~readOnly
    /\ count <= MaxCount /\ offset + count <= size
    /\ Changed(WriteBits(mem, size, offset, count, buff))
    /\ UNCHANGED <<readOnly, held, view>>

-----------------------------------------------------------------------------
(* Actions: value(), then setValue() with nothing held in between          *)

\* MB_REGE_SZ_BYTES; a memory of registers has whole ones.
RegeBytes == 2
OfRegisters(sz) == sz % (RegeBytes * W) = 0

\* Where a value lies: from the bit of its address, or from the first byte of
\* its register.  At the end of the memory it is cut.
Places ==
    {IF OfRegisters(size) THEN <<"bytes", offset * RegeBytes, bytes>> ELSE <<"bits", offset, bytes * W>> :
        offset \in ActionOffsets, bytes \in TypeBytes}
BitsOf(place) == IF place[1] = "bits" THEN place[3] ELSE place[3] * W

WriteAt(place, v) ==
    IF place[1] = "bits" THEN WriteBits(mem, size, place[2], place[3], v) ELSE WriteBytes(place[2], place[3], v)
Inside(place) == place[2] < IF place[1] = "bits" THEN size ELSE ByteCount

\* What is read, plus the increment, may be any value: the least and the
\* largest are enough to see where it is written.
IncrementReads(place) ==
    /\ held = Nothing
    /\ held' = place
    /\ UNCHANGED <<block, readOnly, view>>

IncrementWrites ==
    /\ held # Nothing
    /\ held' = Nothing
    /\ IF Inside(held)
       THEN \E v \in {{}, 0..(BitsOf(held) - 1)} : Changed(WriteAt(held, v))
       ELSE UNCHANGED block
    /\ UNCHANGED <<readOnly, view>>

-----------------------------------------------------------------------------
(* The user: mbServerDeviceUi and the settings dialog                      *)

\* setData of the table's model, zeroing, and the import of a file.
Edit(offset, v) ==
    /\ offset < size
    /\ Changed(WriteBits(mem, size, offset, 1, v))
    /\ UNCHANGED <<readOnly, held, view>>

ZeroAll ==
    /\ Changed({})
    /\ UNCHANGED <<readOnly, held, view>>

SetData(buff) ==
    /\ Changed(WriteBools(mem, size, 0, size, buff))
    /\ UNCHANGED <<readOnly, held, view>>

\* realloc: the memory is cleared without counting a change, and the table is
\* told to read everything again.
Resize_NotTold(sz) ==           \* mutant: the table is not told
    /\ sz # size /\ OfRegisters(sz) = OfRegisters(size)
    /\ size' = sz
    /\ mem' = {}
    /\ UNCHANGED <<counter, readOnly, held, view>>

Resize(sz) ==
    /\ sz # size /\ OfRegisters(sz) = OfRegisters(size)
    /\ size' = sz
    /\ mem' = {}
    /\ dirty' = TRUE
    /\ UNCHANGED <<counter, readOnly, held, seen, shown>>

SetReadOnly ==
    /\ readOnly' = ~readOnly
    /\ UNCHANGED <<block, held, view>>

\* The timer compares the counters, takes the new one and has the view
\* painted; the view reads the memory when it paints.
Refresh_NoSignal ==             \* mutant: dataChanged not emitted
    /\ seen # counter
    /\ seen' = counter
    /\ UNCHANGED <<block, readOnly, held, dirty, shown>>

Refresh ==
    /\ seen # counter
    /\ seen' = counter
    /\ dirty' = TRUE
    /\ UNCHANGED <<block, readOnly, held, shown>>

Data == IF Watched >= size THEN "nothing" ELSE IF Watched \in mem THEN "1" ELSE "0"

Paint ==
    /\ dirty
    /\ dirty' = FALSE
    /\ shown' = Data
    /\ UNCHANGED <<block, readOnly, held, seen>>

Next ==
    \/ \E offset \in 0..(size - 1), count \in 1..MaxCount :
          \E buff \in Values(count) : WriteMultipleCoils(offset, count, buff)
    \/ \E place \in Places : IncrementReads(place)
    \/ IncrementWrites
    \/ \E offset \in 0..(size - 1), v \in {{}, {0}} : Edit(offset, v)
    \/ ZeroAll
    \/ \E buff \in Values(size) : SetData(buff)
    \/ \E sz \in Sizes : Resize(sz)
    \/ SetReadOnly
    \/ Refresh
    \/ Paint

\* The timer of the shown tab and Qt's event loop.
Spec == Init /\ [][Next]_vars /\ WF_vars(Refresh) /\ WF_vars(Paint)

-----------------------------------------------------------------------------
(* Properties                                                              *)

TypeOK ==
    /\ mem \subseteq 0..(size - 1)
    /\ size \in Sizes
    /\ counter \in 0..MaxChanges /\ seen \in 0..counter
    /\ readOnly \in BOOLEAN /\ dirty \in BOOLEAN
    /\ shown \in {"nothing", "0", "1"}
    /\ held \in Places \union {Nothing}

Fresh == counter = 0 /\ held = Nothing /\ dirty
Slice(s, offset, count) == {i \in 0..(count - 1) : offset + i \in s}

\* Whatever way bits are read, the bits of the memory come out, unless whole
\* bytes are read from an offset that is no multiple of a byte.  (A statement
\* about every memory of the size, which TLC need not repeat in every state.)
ReadsAgree ==
    Fresh => \A s \in SUBSET (0..(size - 1)) :
        \A offset \in 0..(size - 1) : \A count \in 1..(size - offset) :
            /\ ReadBools(s, size, offset, count) = Slice(s, offset, count)
            /\ offset % W = 0 \/ count < W => ReadBits(s, size, offset, count) = {Slice(s, offset, count)}

\* A write puts its values where it says and touches nothing else, whatever
\* its offset and count are to the bytes of the memory.
WritesExactly ==
    Fresh => \A s \in SUBSET (0..(size - 1)) :
        \A offset \in 0..(size - 1) : \A count \in 1..(size - offset) : \A buff \in Values(count) :
            LET w == (s \ offset..(offset + count - 1)) \union Spread(buff, offset)
            IN  WriteBits(s, size, offset, count, buff) = w /\ WriteBools(s, size, offset, count, buff) = w

\* Every way to the bits of a memory agrees with the plain one.
BitsAgree == ReadsAgree /\ WritesExactly

\* A table that has nothing left to do shows the memory as it is, although
\* the memory changes while the table looks at the counter and paints.
ShownIsCurrent == ~dirty /\ seen = counter => shown = Data

\* And it gets there again and again, whatever changes the memory.
ShownCatchesUp == []<>(shown = Data)
=============================================================================
