------------------------ MODULE ServerDevice_proofs -------------------------
(***************************************************************************)
(* Theorems about ServerDevice, for every width of a byte, every size of   *)
(* the memory and every bound.                                             *)
(*                                                                         *)
(* The shifts and masks of readBits and writeBits are taken apart into     *)
(* which bit comes from where.  The bytes writeBits merges one by one are  *)
(* known in closed form; that the loop computes them is an induction over  *)
(* their number, by its least counterexample (WFMin).                      *)
(***************************************************************************)
EXTENDS ServerDevice, WellFoundedInduction, TLAPS

-----------------------------------------------------------------------------
(* Words                                                                   *)

\* An offset is a byte and a shift.
LEMMA ByteAndShift ==
  ASSUME NEW n \in Nat
  PROVE  /\ n \div W \in Nat /\ n % W \in 0..(W - 1)
         /\ n = (n \div W) * W + (n % W)
BY ServerDeviceAssumption

LEMMA ByteOffset ==
  ASSUME NEW k \in Nat
  PROVE  k * W \in Nat /\ \A j \in Nat : (k + j) * W = k * W + j * W
BY ServerDeviceAssumption

LEMMA InWord ==
  ASSUME NEW s \in SUBSET Int, NEW k \in Nat, NEW w \in Nat, NEW x
  PROVE  x \in Word(s, k, w) <=> x \in 0..(w - 1) /\ x + k * W \in s
<1>1. k * W \in Nat
  BY ByteOffset
<1> DEFINE base == k * W
<1>2. x \in {b - base : b \in s \cap base..(base + w - 1)} <=> x \in 0..(w - 1) /\ x + base \in s
  <2> HIDE DEF base
  <2>0. base \in Nat
    BY <1>1 DEF base
  <2>1. ASSUME x \in 0..(w - 1), x + base \in s
        PROVE  x \in {b - base : b \in s \cap base..(base + w - 1)}
    <3>1. x = (x + base) - base /\ x + base \in base..(base + w - 1)
      BY <2>0, <2>1
    <3> QED
      BY <2>1, <3>1
  <2>2. ASSUME NEW b \in s \cap base..(base + w - 1), x = b - base
        PROVE  x \in 0..(w - 1) /\ x + base \in s
    BY <2>0, <2>2
  <2> QED
    BY <2>1, <2>2
<1> QED
  BY <1>2 DEF Word

LEMMA InPut ==
  ASSUME NEW s \in SUBSET Int, NEW k \in Nat, NEW w \in Nat, NEW v \in SUBSET Int, NEW x \in Int
  PROVE  x \in Put(s, k, w, v) <=>
            \/ x \in s /\ x \notin (k * W)..(k * W + w - 1)
            \/ x - k * W \in v
<1>1. k * W \in Nat
  BY ByteOffset
<1> DEFINE base == k * W
<1>2. x \in {b + base : b \in v} <=> x - base \in v
  <2> HIDE DEF base
  <2>0. base \in Nat
    BY <1>1 DEF base
  <2>1. x = (x - base) + base
    BY <2>0
  <2>2. ASSUME NEW b \in v, x = b + base
        PROVE  x - base = b
    BY <2>0, <2>2
  <2> QED
    BY <2>1, <2>2
<1> QED
  BY <1>2 DEF Put

LEMMA InSpread ==
  ASSUME NEW v \in SUBSET Int, NEW at \in Int, NEW x \in Int
  PROVE  x \in Spread(v, at) <=> x - at \in v
<1>1. x = (x - at) + at
  OBVIOUS
<1>2. ASSUME NEW b \in v, x = b + at
      PROVE  x - at = b
  BY <1>2
<1> QED
  BY <1>1, <1>2 DEF Spread

LEMMA InLeft ==
  ASSUME NEW v \in SUBSET Int, NEW n \in Int, NEW w \in Nat, NEW x \in Int
  PROVE  x \in Left(v, n, w) <=> x \in 0..(w - 1) /\ x - n \in v
<1>1. x = (x - n) + n
  OBVIOUS
<1>2. ASSUME NEW b \in v, x = b + n
      PROVE  x - n = b
  BY <1>2
<1> QED
  BY <1>1, <1>2 DEF Left

LEMMA InRight ==
  ASSUME NEW v \in SUBSET Int, NEW n \in Int, NEW x \in Int
  PROVE  x \in Right(v, n) <=> x >= 0 /\ x + n \in v
<1>1. x = (x + n) - n
  OBVIOUS
<1>2. ASSUME NEW b \in v, b >= n, x = b - n
      PROVE  x + n = b /\ x >= 0
  BY <1>2
<1>3. x >= 0 => x + n >= n
  OBVIOUS
<1> QED
  BY <1>1, <1>2, <1>3 DEF Right

\* The sign bit alone, shifted down arithmetically: all bits above.
LEMMA SignShifted ==
  ASSUME NEW w \in Nat \ {0}, NEW n \in 0..(w - 1)
  PROVE  SignedRight({w - 1}, n, w) = (w - 1 - n)..(w - 1)
<1>1. ASSUME NEW x \in Int
      PROVE  x \in Right({w - 1}, n) <=> x = w - 1 - n
  BY InRight
<1>2. Right({w - 1}, n) \subseteq Int
  BY DEF Right
<1>3. SignedRight({w - 1}, n, w) = Right({w - 1}, n) \union (w - n)..(w - 1)
  BY DEF SignedRight
<1>4. (w - 1 - n)..(w - 1) = {w - 1 - n} \union (w - n)..(w - 1)
  OBVIOUS
<1>5. Right({w - 1}, n) = {w - 1 - n}
  BY <1>1, <1>2
<1> QED
  BY <1>3, <1>4, <1>5

-----------------------------------------------------------------------------
(* Induction over the natural numbers, by a least counterexample           *)

LEMMA LeastNat ==
  ASSUME NEW T \in SUBSET Nat, T # {}
  PROVE  \E x \in T : \A y \in T : x <= y
<1> DEFINE R == {ss \in Nat \X Nat : ss[1] < ss[2]}
<1>1. R = OpToRel(<, Nat)
  BY Zenon DEF OpToRel
<1>2. IsWellFoundedOn(R, Nat)
  BY <1>1, NatLessThanWellFounded, Zenon
<1>3. PICK x \in T : \A y \in T : ~(<<y, x>> \in R)
  BY <1>2, WFMin
<1>4. ASSUME NEW y \in T
      PROVE  x <= y
  <2>1. <<y, x>> \in Nat \X Nat /\ <<y, x>>[1] = y /\ <<y, x>>[2] = x
    OBVIOUS
  <2>2. ~(y < x)
    BY <1>3, <2>1
  <2> QED
    BY <2>2
<1> QED
  BY <1>4

-----------------------------------------------------------------------------
(* Reading                                                                 *)

\* readBools gives the bits of the memory, wherever they begin.
LEMMA ReadBoolsExact ==
  ASSUME NEW s \in SUBSET Int, NEW sz \in Nat, NEW offset \in Nat, NEW count \in Nat,
         offset + count <= sz
  PROVE  ReadBools(s, sz, offset, count) = Slice(s, offset, count)
<1>1. Fits(offset, count, sz) = count
  BY DEF Fits
<1>2. ASSUME NEW i \in 0..(count - 1)
      PROVE  ((offset + i) % W) \in Word(s, (offset + i) \div W, W) <=> offset + i \in s
  <2>1. offset + i \in Nat
    OBVIOUS
  <2>2. /\ (offset + i) \div W \in Nat /\ (offset + i) % W \in 0..(W - 1)
        /\ offset + i = ((offset + i) \div W) * W + ((offset + i) % W)
    BY <2>1, ByteAndShift
  <2>3. W \in Nat
    BY ServerDeviceAssumption
  <2>4. ((offset + i) % W) + ((offset + i) \div W) * W = offset + i
    <3> DEFINE p == ((offset + i) \div W) * W
    <3>1. p \in Nat
      BY <2>2, ByteOffset
    <3>2. offset + i = p + ((offset + i) % W)
      BY <2>2
    <3>3. ((offset + i) % W) \in Int
      BY <2>2, <2>3
    <3> QED
      BY <3>1, <3>2, <3>3
  <2> QED
    BY <2>2, <2>3, <2>4, InWord
<1> QED
  BY <1>1, <1>2 DEF ReadBools, Slice

\* The mask of the last bits that readBits gives.
LEMMA RestOfByte ==
  ASSUME NEW resid \in 0..(W - 1)
  PROVE  Not(SignedRight({W - 1}, W - 1 - resid, W), W) = 0..(resid - 1)
<1>1. W \in Nat \ {0} /\ W - 1 - resid \in 0..(W - 1) /\ W - 1 - (W - 1 - resid) = resid
  BY ServerDeviceAssumption
<1>2. SignedRight({W - 1}, W - 1 - resid, W) = resid..(W - 1)
  BY <1>1, SignShifted
<1> QED
  BY <1>1, <1>2 DEF Not

\* readBits gives the bits of the memory, if whole bytes are read from a
\* multiple of a byte only.
LEMMA ReadBitsExact ==
  ASSUME NEW s \in SUBSET Int, NEW sz \in Nat, NEW offset \in Nat, NEW count \in Nat,
         offset + count <= sz,
         offset % W = 0 \/ count < W
  PROVE  ReadBits(s, sz, offset, count) = {Slice(s, offset, count)}
<1> DEFINE k     == offset \div W
           bytes == count \div W
           shift == offset % W
           resid == count % W
           mask  == Not(SignedRight({W - 1}, W - 1 - resid, W), W)
           two   == IF shift + resid > W THEN 2 * W ELSE W
           last  == IF resid = 0 THEN {}
                    ELSE IF shift = 0 THEN Word(s, k + bytes, W) \cap mask
                    ELSE Right(Word(s, k + bytes, two), shift) \cap mask
           whole == IF shift = 0 THEN {Word(s, k, bytes * W)} ELSE SUBSET (0..(bytes * W - 1))
<1>1. Fits(offset, count, sz) = count
  BY DEF Fits
<1>2. ReadBits(s, sz, offset, count) = {v \union Spread(last, bytes * W) : v \in whole}
  BY <1>1 DEF ReadBits
<1>3. /\ W \in Nat /\ W > 1
      /\ k \in Nat /\ shift \in 0..(W - 1) /\ offset = k * W + shift
      /\ bytes \in Nat /\ resid \in 0..(W - 1) /\ count = bytes * W + resid
      /\ k * W \in Nat /\ bytes * W \in Nat /\ (k + bytes) * W = k * W + bytes * W
  BY ByteAndShift, ByteOffset, ServerDeviceAssumption
<1>4. mask = 0..(resid - 1)
  BY <1>3, RestOfByte
<1>5. shift = 0 \/ bytes = 0
  <2>1. count < W => bytes = 0
    BY <1>3, ServerDeviceAssumption
  <2> QED
    BY <2>1
<1> HIDE DEF k, bytes, shift, resid, mask
<1>6. last = {i \in 0..(resid - 1) : i + bytes * W + offset \in s}
  <2>1. CASE shift = 0
    <3>1. \A x : x \in Word(s, k + bytes, W) <=> x \in 0..(W - 1) /\ x + (k + bytes) * W \in s
      BY <1>3, InWord
    <3>2. CASE resid = 0
      BY <1>3, <3>2
    <3>3. CASE resid # 0
      <4>1. last = Word(s, k + bytes, W) \cap mask
        BY <2>1, <3>3
      <4>2. ASSUME NEW x \in 0..(resid - 1)
            PROVE  x \in 0..(W - 1) /\ x + (k + bytes) * W = x + bytes * W + offset
        BY <1>3, <2>1
      <4> QED
        BY <3>1, <4>1, <4>2, <1>4
    <3> QED
      BY <3>2, <3>3
  <2>2. CASE shift # 0
    <3>0. bytes = 0 /\ bytes * W = 0 /\ k + bytes = k
      BY <2>2, <1>3, <1>5
    <3>1. CASE resid = 0
      BY <3>1
    <3>2. CASE resid # 0
      <4> DEFINE w == two
      <4>0. w \in Nat /\ shift + resid <= w
        BY <1>3
      <4> HIDE DEF two
      <4>1. \A x : x \in Word(s, k, w) <=> x \in 0..(w - 1) /\ x + k * W \in s
        BY <1>3, <4>0, InWord
      <4>2. Word(s, k, w) \in SUBSET Int
        BY <4>1, <4>0
      <4>3. ASSUME NEW x \in 0..(resid - 1)
            PROVE  x \in Right(Word(s, k, w), shift) <=> x + bytes * W + offset \in s
        <5>1. x \in Right(Word(s, k, w), shift) <=> x >= 0 /\ x + shift \in Word(s, k, w)
          BY <4>2, <1>3, InRight
        <5>2. x + shift \in 0..(w - 1) /\ (x + shift) + k * W = x + bytes * W + offset
          BY <1>3, <3>0, <4>0
        <5> QED
          BY <4>1, <5>1, <5>2
      <4>4. last = Right(Word(s, k, w), shift) \cap mask
        BY <2>2, <3>0, <3>2
      <4> QED
        BY <4>3, <4>4, <1>4
    <3> QED
      BY <3>1, <3>2
  <2> QED
    BY <2>1, <2>2
<1>7. whole = {{i \in 0..(bytes * W - 1) : i + offset \in s}}
  <2>1. CASE shift = 0
    <3>1. \A x : x \in Word(s, k, bytes * W) <=> x \in 0..(bytes * W - 1) /\ x + k * W \in s
      BY <1>3, InWord
    <3>2. k * W = offset
      BY <2>1, <1>3
    <3> QED
      BY <2>1, <3>1, <3>2
  <2>2. CASE shift # 0
    <3>1. bytes * W = 0
      BY <2>2, <1>3, <1>5
    <3>2. 0..(bytes * W - 1) = {}
      BY <3>1
    <3> QED
      BY <2>2, <3>2
  <2> QED
    BY <2>1, <2>2
<1> HIDE DEF last, whole
<1>8. ReadBits(s, sz, offset, count)
        = {{i \in 0..(bytes * W - 1) : i + offset \in s} \union Spread(last, bytes * W)}
  BY <1>2, <1>7
<1>9. {i \in 0..(bytes * W - 1) : i + offset \in s} \union Spread(last, bytes * W)
        = Slice(s, offset, count)
  <2>1. last \in SUBSET Int
    BY <1>6
  <2>2. ASSUME NEW x \in Int
        PROVE  x \in Spread(last, bytes * W) <=>
                  x \in (bytes * W)..(count - 1) /\ x + offset \in s
    <3>1. x \in Spread(last, bytes * W) <=> x - bytes * W \in last
      BY <2>1, <1>3, InSpread
    <3>2. (x - bytes * W) + bytes * W + offset = x + offset
      BY <1>3
    <3>3. x - bytes * W \in 0..(resid - 1) <=> x \in (bytes * W)..(count - 1)
      BY <1>3
    <3> QED
      BY <1>6, <3>1, <3>2, <3>3
  <2>3. Spread(last, bytes * W) \subseteq Int
    BY <2>1, <1>3 DEF Spread
  <2>4. \A x \in Int : x \in 0..(count - 1) <=> x \in 0..(bytes * W - 1) \/ x \in (bytes * W)..(count - 1)
    BY <1>3
  <2>5. \A x \in Int : offset + x = x + offset
    OBVIOUS
  <2> QED
    BY <2>2, <2>3, <2>4, <2>5 DEF Slice
<1> QED
  BY <1>8, <1>9

-----------------------------------------------------------------------------
(* Writing                                                                 *)

\* s with n bits of buff put in at offset.
Replaced(s, offset, n, buff) ==
    (s \ offset..(offset + n - 1)) \union Spread(buff \cap 0..(n - 1), offset)

LEMMA InReplaced ==
  ASSUME NEW s \in SUBSET Int, NEW offset \in Nat, NEW n \in Nat, NEW buff \in SUBSET Int, NEW x \in Int
  PROVE  x \in Replaced(s, offset, n, buff) <=>
            IF x \in offset..(offset + n - 1) THEN x - offset \in buff ELSE x \in s
<1>1. x \in Spread(buff \cap 0..(n - 1), offset) <=> x - offset \in buff \cap 0..(n - 1)
  BY InSpread
<1>2. x - offset \in 0..(n - 1) <=> x \in offset..(offset + n - 1)
  OBVIOUS
<1> QED
  BY <1>1, <1>2 DEF Replaced

LEMMA ReplacedIsSetOfInt ==
  ASSUME NEW s \in SUBSET Int, NEW offset \in Nat, NEW n \in Nat, NEW buff \in SUBSET Int
  PROVE  Replaced(s, offset, n, buff) \in SUBSET Int
<1>1. Spread(buff \cap 0..(n - 1), offset) \subseteq Int
  BY DEF Spread
<1> QED
  BY <1>1 DEF Replaced

LEMMA PutIsSetOfInt ==
  ASSUME NEW s \in SUBSET Int, NEW k \in Nat, NEW w \in Nat, NEW v \in SUBSET Int
  PROVE  Put(s, k, w, v) \in SUBSET Int
<1> DEFINE base == k * W
<1>1. base \in Nat
  BY ByteOffset
<1> HIDE DEF base
<1>2. \A b \in v : b + base \in Int
  BY <1>1
<1>3. {b + base : b \in v} \subseteq Int
  BY <1>2
<1> QED
  BY <1>3 DEF Put, base

\* writeBools puts its values where it says.
LEMMA WriteBoolsExact ==
  ASSUME NEW s \in SUBSET Int, NEW sz \in Nat, NEW offset \in Nat, NEW count \in Nat, NEW buff \in SUBSET Int,
         offset <= sz
  PROVE  WriteBools(s, sz, offset, count, buff) = Replaced(s, offset, Fits(offset, count, sz), buff)
<1>1. Fits(offset, count, sz) \in Nat
  BY DEF Fits
<1>2. offset + (Fits(offset, count, sz) - 1) = offset + Fits(offset, count, sz) - 1
  BY <1>1
<1> QED
  BY <1>2 DEF WriteBools, Replaced

\* One byte that is not aligned: two bytes are read, masked and written back.
LEMMA MergeByteExact ==
  ASSUME NEW s \in SUBSET Int, NEW k \in Nat, NEW shift \in 1..(W - 1), NEW v \in SUBSET 0..(W - 1)
  PROVE  MergeByte(s, k, shift, v) = Replaced(s, k * W + shift, W, v)
<1>1. /\ W \in Nat /\ k * W \in Nat /\ shift \in Nat
      /\ v \in SUBSET Int /\ 0..(W - 1) \in SUBSET Int /\ 2 * W \in Nat
  BY ServerDeviceAssumption, ByteOffset
<1> DEFINE mask == Left(0..(W - 1), shift, 2 * W)
           new  == (Word(s, k, 2 * W) \ mask) \union Left(v, shift, 2 * W)
<1>2. \A x \in Int : x \in mask <=> x \in shift..(shift + W - 1)
  <2>1. \A x \in Int : x \in mask <=> x \in 0..(2 * W - 1) /\ x - shift \in 0..(W - 1)
    BY <1>1, InLeft
  <2> QED
    BY <1>1, <2>1
<1>3. \A x \in Int : x \in Left(v, shift, 2 * W) <=> x - shift \in v
  <2>1. \A x \in Int : x \in Left(v, shift, 2 * W) <=> x \in 0..(2 * W - 1) /\ x - shift \in v
    BY <1>1, InLeft
  <2> QED
    BY <1>1, <2>1
<1>4. \A x \in Int : x \in Word(s, k, 2 * W) <=> x \in 0..(2 * W - 1) /\ x + k * W \in s
  BY <1>1, InWord
<1>5. Word(s, k, 2 * W) \subseteq Int /\ Left(v, shift, 2 * W) \subseteq Int
  BY <1>1 DEF Word, Left
<1> HIDE DEF mask
<1>6. new \in SUBSET Int
  BY <1>5
<1>7. \A x \in Int : x \in new <=>
        IF x \in shift..(shift + W - 1) THEN x - shift \in v ELSE x \in 0..(2 * W - 1) /\ x + k * W \in s
  BY <1>1, <1>2, <1>3, <1>4
<1> HIDE DEF new
<1>8. ASSUME NEW x \in Int
      PROVE  x \in Put(s, k, 2 * W, new) <=> x \in Replaced(s, k * W + shift, W, v)
  <2> DEFINE base == k * W
  <2>1. x \in Put(s, k, 2 * W, new) <=> (x \in s /\ x \notin base..(base + 2 * W - 1)) \/ x - base \in new
    BY <1>1, <1>6, InPut
  <2>2. x \in Replaced(s, base + shift, W, v) <=>
           IF x \in (base + shift)..(base + shift + W - 1) THEN x - (base + shift) \in v ELSE x \in s
    BY <1>1, InReplaced
  <2> HIDE DEF base
  <2>3. base \in Nat
    BY <1>1 DEF base
  <2>4. x - base \in Int /\ (x - base) + base = x /\ (x - base) - shift = x - (base + shift)
    BY <2>3, <1>1
  <2>5. x - base \in shift..(shift + W - 1) <=> x \in (base + shift)..(base + shift + W - 1)
    BY <2>3, <1>1
  <2>6. x - base \in 0..(2 * W - 1) <=> x \in base..(base + 2 * W - 1)
    BY <2>3, <1>1
  <2>7. x \in (base + shift)..(base + shift + W - 1) => x \in base..(base + 2 * W - 1)
    BY <2>3, <1>1
  <2>8. x - base \in new <=>
          IF x - base \in shift..(shift + W - 1) THEN (x - base) - shift \in v
          ELSE x - base \in 0..(2 * W - 1) /\ (x - base) + base \in s
    BY <1>7, <2>4 DEF base
  <2>9. x \in Put(s, k, 2 * W, new) <=> x \in Replaced(s, base + shift, W, v)
    BY <2>1, <2>2, <2>4, <2>5, <2>6, <2>7, <2>8
  <2> QED
    BY <2>9 DEF base
<1>9. Put(s, k, 2 * W, new) \subseteq Int
  BY <1>1, <1>6, PutIsSetOfInt
<1>10. Replaced(s, k * W + shift, W, v) \subseteq Int
  BY <1>1, ReplacedIsSetOfInt
<1>11. MergeByte(s, k, shift, v) = Put(s, k, 2 * W, new)
  BY DEF MergeByte, new, mask
<1> QED
  BY <1>8, <1>9, <1>10, <1>11

\* One byte that is aligned is copied.
LEMMA CopyByteExact ==
  ASSUME NEW s \in SUBSET Int, NEW k \in Nat, NEW v \in SUBSET 0..(W - 1)
  PROVE  Put(s, k, W, v) = Replaced(s, k * W, W, v)
<1> DEFINE base == k * W
<1>1. W \in Nat /\ base \in Nat /\ v \in SUBSET Int
  BY ServerDeviceAssumption, ByteOffset
<1>2. ASSUME NEW x \in Int
      PROVE  x \in Put(s, k, W, v) <=> x \in Replaced(s, base, W, v)
  <2>1. x \in Put(s, k, W, v) <=> (x \in s /\ x \notin base..(base + W - 1)) \/ x - base \in v
    BY <1>1, InPut
  <2>2. x \in Replaced(s, base, W, v) <=> IF x \in base..(base + W - 1) THEN x - base \in v ELSE x \in s
    BY <1>1, InReplaced
  <2> HIDE DEF base
  <2>3. x - base \in 0..(W - 1) => x \in base..(base + W - 1)
    BY <1>1
  <2> QED
    BY <2>1, <2>2, <2>3
<1>3. Put(s, k, W, v) \subseteq Int /\ Replaced(s, base, W, v) \subseteq Int
  BY <1>1, PutIsSetOfInt, ReplacedIsSetOfInt
<1> QED
  BY <1>2, <1>3

\* The mask of the last bits that writeBits writes to an unaligned byte.
LEMMA RestMaskExact ==
  ASSUME NEW shift \in 0..(W - 1), NEW resid \in 1..(W - 1)
  PROVE  RestMask(shift, resid) = shift..(shift + resid - 1)
<1>1. ASSUME NEW w \in Nat \ {0}, shift + resid <= w, resid < w
      PROVE  Right(SignedRight({w - 1}, resid - 1, w), w - resid - shift) = shift..(shift + resid - 1)
  <2>1. SignedRight({w - 1}, resid - 1, w) = (w - resid)..(w - 1)
    <3>1. resid - 1 \in 0..(w - 1) /\ w - 1 - (resid - 1) = w - resid
      BY <1>1
    <3> QED
      BY <3>1, SignShifted
  <2>2. \A x \in Int : x \in Right((w - resid)..(w - 1), w - resid - shift)
                          <=> x >= 0 /\ x + (w - resid - shift) \in (w - resid)..(w - 1)
    <3>1. (w - resid)..(w - 1) \in SUBSET Int /\ w - resid - shift \in Int
      BY <1>1
    <3> QED
      BY <3>1, InRight
  <2>3. Right((w - resid)..(w - 1), w - resid - shift) \subseteq Int
    BY <1>1 DEF Right
  <2>4. \A x \in Int : x >= 0 /\ x + (w - resid - shift) \in (w - resid)..(w - 1)
                          <=> x \in shift..(shift + resid - 1)
    BY <1>1, ServerDeviceAssumption
  <2> DEFINE R == Right((w - resid)..(w - 1), w - resid - shift)
         I == shift..(shift + resid - 1)
  <2>5. R \subseteq Int /\ I \subseteq Int /\ \A x \in Int : x \in R <=> x \in I
    BY <2>2, <2>3, <2>4
  <2> HIDE DEF R, I
  <2>6. R = I
    BY <2>5
  <2> QED
    BY <2>1, <2>6 DEF R, I
<1>2. W \in Nat \ {0} /\ 2 * W \in Nat \ {0} /\ resid < W /\ resid < 2 * W /\ shift + resid <= 2 * W
  BY ServerDeviceAssumption
<1>3. CASE shift + resid > W
  BY <1>1, <1>2, <1>3 DEF RestMask
<1>4. CASE ~(shift + resid > W)
  BY <1>1, <1>2, <1>4, ServerDeviceAssumption DEF RestMask
<1> QED
  BY <1>3, <1>4

\* The last bits: fewer than a byte, masked into one byte or two.
LEMMA MergeRestExact ==
  ASSUME NEW s \in SUBSET Int, NEW k \in Nat, NEW shift \in 0..(W - 1), NEW resid \in 0..(W - 1),
         NEW v \in SUBSET 0..(W - 1)
  PROVE  MergeRest(s, k, shift, resid, v) = Replaced(s, k * W + shift, resid, v)
<1> DEFINE base == k * W
           two  == IF shift + resid > W THEN 2 * W ELSE W
           keep == SignedRight({W - 1}, W - 1 - resid, W)
           mask == RestMask(shift, resid)
           newA == (Word(s, k, W) \cap keep) \union (v \cap Not(keep, W))
           newU == (Word(s, k, two) \ mask) \union (Left(v, shift, two) \cap mask)
<1>1. /\ W \in Nat /\ W > 1 /\ base \in Nat /\ two \in Nat /\ v \in SUBSET Int
      /\ shift \in Nat /\ resid \in Nat /\ shift + resid <= two
  BY ServerDeviceAssumption, ByteOffset
<1>2. CASE resid = 0
  <2>1. Replaced(s, base + shift, 0, v) = s
    <3>1. base + shift + 0 - 1 < base + shift
      BY <1>1
    <3>2. (base + shift)..(base + shift + 0 - 1) = {} /\ v \cap 0..(0 - 1) = {}
      BY <1>1
    <3> QED
      BY <3>2 DEF Replaced, Spread
  <2> QED
    BY <1>2, <2>1 DEF MergeRest
<1>3. ASSUME NEW w \in Nat, shift + resid <= w, NEW new \in SUBSET Int,
             \A x \in Int : x \in new <=>
                IF x \in shift..(shift + resid - 1) THEN x - shift \in v
                ELSE x \in 0..(w - 1) /\ x + base \in s
      PROVE  Put(s, k, w, new) = Replaced(s, base + shift, resid, v)
  <2>1. ASSUME NEW x \in Int
        PROVE  x \in Put(s, k, w, new) <=> x \in Replaced(s, base + shift, resid, v)
    <3>1. x \in Put(s, k, w, new) <=> (x \in s /\ x \notin base..(base + w - 1)) \/ x - base \in new
      BY <1>1, <1>3, InPut
    <3>2. x \in Replaced(s, base + shift, resid, v) <=>
             IF x \in (base + shift)..(base + shift + resid - 1) THEN x - (base + shift) \in v ELSE x \in s
      BY <1>1, InReplaced
    <3> HIDE DEF base, two, keep, mask, newA, newU
    <3>3. x - base \in Int /\ (x - base) + base = x /\ (x - base) - shift = x - (base + shift)
      BY <1>1
    <3>4. x - base \in shift..(shift + resid - 1) <=> x \in (base + shift)..(base + shift + resid - 1)
      BY <1>1
    <3>5. x - base \in 0..(w - 1) <=> x \in base..(base + w - 1)
      BY <1>1
    <3>6. x \in (base + shift)..(base + shift + resid - 1) => x \in base..(base + w - 1)
      BY <1>1, <1>3
    <3>7. x - base \in new <=>
             IF x - base \in shift..(shift + resid - 1) THEN (x - base) - shift \in v
             ELSE x - base \in 0..(w - 1) /\ (x - base) + base \in s
      BY <1>3, <3>3
    <3> QED
      BY <3>1, <3>2, <3>3, <3>4, <3>5, <3>6, <3>7
  <2>2. Put(s, k, w, new) \subseteq Int
    BY <1>3, PutIsSetOfInt
  <2>3. Replaced(s, base + shift, resid, v) \subseteq Int
    BY <1>1, ReplacedIsSetOfInt
  <2> QED
    BY <2>1, <2>2, <2>3
<1>4. ASSUME NEW w \in {W, two}
      PROVE  /\ \A x \in Int : x \in Word(s, k, w) <=> x \in 0..(w - 1) /\ x + base \in s
             /\ Word(s, k, w) \subseteq Int
  <2>1. w \in Nat
    BY <1>1
  <2>2. \A x : x \in Word(s, k, w) <=> x \in 0..(w - 1) /\ x + base \in s
    BY <2>1, InWord
  <2> QED
    BY <2>1, <2>2
<1>5. CASE resid # 0 /\ shift = 0
  <2>1. Not(keep, W) = 0..(resid - 1)
    BY RestOfByte
  <2>2. keep = resid..(W - 1)
    <3>1. W \in Nat \ {0} /\ W - 1 - resid \in 0..(W - 1) /\ W - 1 - (W - 1 - resid) = resid
      BY <1>1
    <3> QED
      BY <3>1, SignShifted
  <2> HIDE DEF keep
  <2>3. newA \in SUBSET Int
    BY <1>1, <1>4
  <2>4. \A x \in Int : x \in newA <=>
           IF x \in shift..(shift + resid - 1) THEN x - shift \in v ELSE x \in 0..(W - 1) /\ x + base \in s
    <3>1. \A x \in Int : x \in newA <=>
             \/ x \in 0..(W - 1) /\ x + base \in s /\ x \in resid..(W - 1)
             \/ x \in v /\ x \in 0..(resid - 1)
      BY <1>4, <2>1, <2>2
    <3>2. \A x \in Int : x - shift = x /\ (x \in v => x \in 0..(W - 1))
      BY <1>5
    <3> HIDE DEF newA, base
    <3> QED
      BY <1>1, <1>5, <3>1, <3>2
  <2>5. Put(s, k, W, newA) = Replaced(s, base + shift, resid, v)
    <3> HIDE DEF newA, base
    <3>1. shift + resid <= W
      BY <1>1, <1>5
    <3> QED
      BY <1>1, <1>3, <2>3, <2>4, <3>1
  <2> QED
    BY <1>5, <2>5 DEF MergeRest, keep
<1>6. CASE resid # 0 /\ shift # 0
  <2>1. mask = shift..(shift + resid - 1)
    BY <1>6, RestMaskExact
  <2> HIDE DEF mask
  <2>2. \A x \in Int : x \in Left(v, shift, two) <=> x \in 0..(two - 1) /\ x - shift \in v
    BY <1>1, InLeft
  <2>3. newU \in SUBSET Int
    BY <1>1, <1>4, <2>1
  <2>4. \A x \in Int : x \in newU <=>
           IF x \in shift..(shift + resid - 1) THEN x - shift \in v ELSE x \in 0..(two - 1) /\ x + base \in s
    <3>1. \A x \in Int : x \in newU <=>
             \/ x \in 0..(two - 1) /\ x + base \in s /\ x \notin shift..(shift + resid - 1)
             \/ x \in 0..(two - 1) /\ x - shift \in v /\ x \in shift..(shift + resid - 1)
      BY <1>4, <2>1, <2>2
    <3>2. \A x \in Int : x \in shift..(shift + resid - 1) => x \in 0..(two - 1)
      BY <1>1
    <3> HIDE DEF newU, two, base
    <3> QED
      BY <1>1, <3>1, <3>2
  <2>5. Put(s, k, two, newU) = Replaced(s, base + shift, resid, v)
    <3> HIDE DEF newU, two, base
    <3> QED
      BY <1>1, <1>3, <2>3, <2>4
  <2> QED
    BY <1>6, <2>5 DEF MergeRest, mask
<1> QED
  BY <1>2, <1>5, <1>6

\* The next bits, up to a byte of them, go where those before them end.
LEMMA ReplacedFurther ==
  ASSUME NEW s \in SUBSET Int, NEW offset \in Nat, NEW i \in Nat, NEW m \in 0..W, NEW buff \in SUBSET Int
  PROVE  Replaced(Replaced(s, offset, i * W, buff), offset + i * W, m, Word(buff, i, W))
            = Replaced(s, offset, i * W + m, buff)
<1> DEFINE done == i * W
           first == Replaced(s, offset, done, buff)
           v == Word(buff, i, W)
<1>1. W \in Nat /\ done \in Nat /\ m \in Nat /\ offset + done \in Nat /\ done + m \in Nat
  BY ServerDeviceAssumption, ByteOffset
<1>2. \A x : x \in v <=> x \in 0..(W - 1) /\ x + done \in buff
  BY <1>1, InWord
<1>3. v \in SUBSET Int /\ first \in SUBSET Int
  BY <1>1, <1>2, ReplacedIsSetOfInt
<1>4. ASSUME NEW x \in Int
      PROVE  x \in Replaced(first, offset + done, m, v) <=> x \in Replaced(s, offset, done + m, buff)
  <2>1. x \in first <=> IF x \in offset..(offset + done - 1) THEN x - offset \in buff ELSE x \in s
    BY <1>1, InReplaced
  <2>2. x \in Replaced(s, offset, done + m, buff) <=>
           IF x \in offset..(offset + (done + m) - 1) THEN x - offset \in buff ELSE x \in s
    BY <1>1, InReplaced
  <2>3. x \in Replaced(first, offset + done, m, v) <=>
           IF x \in (offset + done)..(offset + done + m - 1) THEN x - (offset + done) \in v ELSE x \in first
    BY <1>1, <1>3, InReplaced
  <2> HIDE DEF done, first, v
  <2>4. (x - (offset + done)) + done = x - offset
    BY <1>1
  <2>5. x \in (offset + done)..(offset + done + m - 1) => x - (offset + done) \in 0..(W - 1)
    BY <1>1
  <2>6. x \in offset..(offset + (done + m) - 1) <=>
           x \in offset..(offset + done - 1) \/ x \in (offset + done)..(offset + done + m - 1)
    BY <1>1
  <2>7. ~(x \in offset..(offset + done - 1) /\ x \in (offset + done)..(offset + done + m - 1))
    BY <1>1
  <2> QED
    BY <1>2, <2>1, <2>2, <2>3, <2>4, <2>5, <2>6, <2>7
<1>5. /\ Replaced(first, offset + done, m, v) \subseteq Int
      /\ Replaced(s, offset, done + m, buff) \subseteq Int
  BY <1>1, <1>3, ReplacedIsSetOfInt
<1> QED
  BY <1>4, <1>5

\* writeBits puts its values where it says and leaves the rest alone,
\* whatever its offset and count are to the bytes of the memory.
LEMMA WriteBitsExact ==
  ASSUME NEW s \in SUBSET Int, NEW sz \in Nat, NEW offset \in Nat, NEW count \in Nat, NEW buff \in SUBSET Int,
         offset <= sz
  PROVE  WriteBits(s, sz, offset, count, buff) = Replaced(s, offset, Fits(offset, count, sz), buff)
<1> DEFINE c     == Fits(offset, count, sz)
           k     == offset \div W
           bytes == c \div W
           shift == offset % W
           resid == c % W
           Body(g) == [i \in 0..bytes |->
              IF i = 0 THEN s
              ELSE IF shift = 0 THEN Put(g[i - 1], k + i - 1, W, Word(buff, i - 1, W))
              ELSE MergeByte(g[i - 1], k + i - 1, shift, Word(buff, i - 1, W))]
           Bytes == CHOOSE g : g = Body(g)
           Closed == [i \in 0..bytes |-> Replaced(s, offset, i * W, buff)]
<1>1. WriteBits(s, sz, offset, count, buff)
         = MergeRest(Bytes[bytes], k + bytes, shift, resid, Word(buff, bytes, W))
  BY DEF WriteBits
<1>2. c \in Nat
  BY DEF Fits
<1> HIDE DEF c, Body, Bytes, Closed
<1>3. /\ W \in Nat /\ W > 1
      /\ k \in Nat /\ shift \in 0..(W - 1) /\ offset = k * W + shift
      /\ bytes \in Nat /\ resid \in 0..(W - 1) /\ c = bytes * W + resid
  BY <1>2, ByteAndShift, ServerDeviceAssumption
<1> HIDE DEF k, bytes, shift, resid
<1> USE DEF Body, Bytes, Closed
<1>4. \A i \in Nat : i * W \in Nat /\ (k + i) * W = k * W + i * W
  BY <1>3, ByteOffset
<1>5. \A i \in Nat : Word(buff, i, W) \in SUBSET 0..(W - 1)
  BY <1>3, <1>4, InWord
<1>6. Closed[0] = s
  <2>1. 0 \in 0..bytes /\ 0 * W = 0
    BY <1>3, <1>4
  <2>2. offset..(offset + 0 - 1) = {} /\ buff \cap 0..(0 - 1) = {}
    OBVIOUS
  <2>3. Replaced(s, offset, 0, buff) = s
    BY <2>2 DEF Replaced, Spread
  <2> QED
    BY <2>1, <2>3
<1>7. ASSUME NEW i \in 1..bytes
      PROVE  Closed[i] = IF shift = 0 THEN Put(Closed[i - 1], k + i - 1, W, Word(buff, i - 1, W))
                         ELSE MergeByte(Closed[i - 1], k + i - 1, shift, Word(buff, i - 1, W))
  <2> DEFINE j == i - 1
             r == Replaced(s, offset, j * W, buff)
             v == Word(buff, j, W)
  <2>1. j \in Nat /\ j \in 0..bytes /\ i \in 0..bytes /\ k + i - 1 = k + j /\ k + j \in Nat
    BY <1>3, <1>4
  <2>2. Closed[i - 1] = r /\ Closed[i] = Replaced(s, offset, i * W, buff)
    BY <2>1
  <2>3. j * W \in Nat /\ i * W = j * W + W /\ (k + j) * W + shift = offset + j * W
    <3>1. i = j + 1 /\ 1 * W = W /\ 1 \in Nat
      BY <1>3, <1>4
    <3>2. (j + 1) * W = j * W + 1 * W
      BY <2>1, <3>1, ByteOffset
    <3>3. (k + j) * W = k * W + j * W /\ k * W \in Nat /\ j * W \in Nat
      BY <1>3, <1>4, <2>1
    <3> QED
      BY <1>3, <1>4, <3>1, <3>2, <3>3
  <2>4. r \in SUBSET Int /\ v \in SUBSET 0..(W - 1) /\ W \in 0..W
    BY <1>3, <1>4, <1>5, <2>1, <2>3, ReplacedIsSetOfInt
  <2>5. Replaced(r, offset + j * W, W, v) = Replaced(s, offset, j * W + W, buff)
    BY <2>1, <2>4, ReplacedFurther
  <2> HIDE DEF j, r, v, Closed
  <2>6. CASE shift = 0
    <3>1. Put(r, k + j, W, v) = Replaced(r, (k + j) * W, W, v)
      BY <2>1, <2>4, CopyByteExact
    <3>2. (k + j) * W = offset + j * W
      <4>1. (k + j) * W \in Nat
        BY <2>1, ByteOffset
      <4> QED
        BY <4>1, <2>3, <2>6
    <3> QED
      BY <2>1, <2>2, <2>3, <2>5, <2>6, <3>1, <3>2 DEF v, j
  <2>7. CASE shift # 0
    <3>1. shift \in 1..(W - 1)
      BY <1>3, <1>4, <2>7
    <3>2. MergeByte(r, k + j, shift, v) = Replaced(r, (k + j) * W + shift, W, v)
      BY <2>1, <2>4, <3>1, MergeByteExact
    <3> QED
      BY <2>1, <2>2, <2>3, <2>5, <2>7, <3>2 DEF v, j
  <2> QED
    BY <2>6, <2>7
<1>8. Closed = Body(Closed)
  <2>1. ASSUME NEW i \in 0..bytes
        PROVE  Closed[i] = Body(Closed)[i]
    <3>1. CASE i = 0
      BY <1>6, <3>1
    <3>2. CASE i # 0
      <4>1. i \in 1..bytes
        BY <1>3, <1>4, <3>2
      <4> HIDE DEF Closed
      <4> QED
        BY <1>7, <3>2, <4>1
    <3> QED
      BY <3>1, <3>2
  <2> QED
    BY <2>1
<1>9. ASSUME NEW g, g = Body(g)
      PROVE  g = Closed
  <2> DEFINE bad == {i \in 0..bytes : g[i] # Closed[i]}
  <2>1. CASE bad = {}
    BY <1>9, <2>1
  <2>2. CASE bad # {}
    <3>1. bad \in SUBSET Nat
      BY <1>3, <1>4
    <3>2. PICK i \in bad : \A j \in bad : i <= j
      BY <2>2, <3>1, LeastNat
    <3>3. i # 0
      <4>1. g[0] = s
        BY <1>3, <1>4, <1>9
      <4> HIDE DEF Closed
      <4> QED
        BY <1>6, <4>1
    <3>4. i \in 1..bytes /\ i - 1 \in 0..bytes
      BY <1>3, <1>4, <3>3
    <3>5. g[i - 1] = Closed[i - 1]
      <4> HIDE DEF Closed
      <4>1. i - 1 \notin bad
        BY <1>3, <1>4, <3>2, <3>4
      <4> QED
        BY <3>4, <4>1
    <3>6. g[i] = IF shift = 0 THEN Put(g[i - 1], k + i - 1, W, Word(buff, i - 1, W))
                 ELSE MergeByte(g[i - 1], k + i - 1, shift, Word(buff, i - 1, W))
      BY <1>9, <3>4
    <3> HIDE DEF Closed
    <3>7. g[i] = Closed[i]
      BY <1>7, <3>4, <3>5, <3>6
    <3> QED
      BY <3>2, <3>7
  <2> QED
    BY <2>1, <2>2
<1> HIDE DEF Body, Closed
<1>10. Bytes = Closed
  BY <1>8, <1>9
<1> HIDE DEF Bytes
<1>11. Bytes[bytes] = Replaced(s, offset, bytes * W, buff)
  BY <1>3, <1>4, <1>10 DEF Closed
<1>12. MergeRest(Replaced(s, offset, bytes * W, buff), k + bytes, shift, resid, Word(buff, bytes, W))
         = Replaced(Replaced(s, offset, bytes * W, buff), offset + bytes * W, resid, Word(buff, bytes, W))
  <2>1. (k + bytes) * W + shift = offset + bytes * W
    BY <1>3, <1>4, ByteOffset
  <2>2. Replaced(s, offset, bytes * W, buff) \in SUBSET Int
    BY <1>3, <1>4, ReplacedIsSetOfInt
  <2>3. k + bytes \in Nat
    BY <1>3, <1>4
  <2> QED
    BY <1>3, <1>4, <1>5, <2>1, <2>2, <2>3, MergeRestExact
<1>13. Replaced(Replaced(s, offset, bytes * W, buff), offset + bytes * W, resid, Word(buff, bytes, W))
         = Replaced(s, offset, bytes * W + resid, buff)
  <2>1. resid \in 0..W
    BY <1>3, <1>4
  <2> QED
    BY <1>3, <1>4, <2>1, ReplacedFurther
<1>14. WriteBits(s, sz, offset, count, buff) = Replaced(s, offset, c, buff)
  BY <1>1, <1>3, <1>4, <1>11, <1>12, <1>13
<1> QED
  BY <1>14 DEF c

-----------------------------------------------------------------------------
(* The memory keeps its type                                               *)

LEMMA SizesAreNat == Sizes \subseteq Nat \ {0}
BY ServerDeviceAssumption

LEMMA ReplacedStays ==
  ASSUME NEW sz \in Nat, NEW s \in SUBSET 0..(sz - 1), NEW offset \in Nat, NEW n \in Nat,
         offset + n <= sz, NEW buff \in SUBSET Int
  PROVE  Replaced(s, offset, n, buff) \in SUBSET 0..(sz - 1)
<1>1. ASSUME NEW x \in Spread(buff \cap 0..(n - 1), offset)
      PROVE  x \in 0..(sz - 1)
  <2>1. PICK b \in buff \cap 0..(n - 1) : x = b + offset
    BY DEF Spread
  <2> QED
    BY <2>1
<1> QED
  BY <1>1 DEF Replaced

LEMMA WriteBitsStays ==
  ASSUME NEW sz \in Nat, NEW s \in SUBSET 0..(sz - 1), NEW offset \in 0..(sz - 1), NEW count \in Nat,
         NEW buff \in SUBSET Int
  PROVE  WriteBits(s, sz, offset, count, buff) \in SUBSET 0..(sz - 1)
<1>1. /\ s \in SUBSET Int /\ offset \in Nat /\ offset <= sz
      /\ Fits(offset, count, sz) \in Nat /\ offset + Fits(offset, count, sz) <= sz
  BY DEF Fits
<1>2. WriteBits(s, sz, offset, count, buff) = Replaced(s, offset, Fits(offset, count, sz), buff)
  BY <1>1, WriteBitsExact
<1> QED
  BY <1>1, <1>2, ReplacedStays

\* A memory of registers ends with a byte.
LEMMA RegistersAreWholeBytes ==
  ASSUME size \in Nat, OfRegisters(size)
  PROVE  ByteCount \in Nat /\ ByteCount * W = size
<1>1. W \in Nat /\ W > 1
  BY ServerDeviceAssumption
<1> DEFINE w == RegeBytes * W
           m == size \div w
<1>2. w \in Nat \ {0} /\ w = 2 * W /\ size % w = 0
  BY <1>1 DEF RegeBytes, OfRegisters
<1> HIDE DEF w
<1>3. m \in Nat /\ size = m * w
  BY <1>2
<1> HIDE DEF m
<1>4. size = (2 * m) * W /\ 2 * m \in Nat
  BY <1>1, <1>2, <1>3
<1> DEFINE h == 2 * m
<1> HIDE DEF h
<1>5. (size + W - 1) \div W = h
  <2>1. size + W - 1 = h * W + (W - 1) /\ W - 1 \in 0..(W - 1) /\ h \in Nat
    BY <1>1, <1>4 DEF h
  <2> QED
    BY <1>1, <2>1
<1> QED
  BY <1>4, <1>5 DEF ByteCount, h

\* write() of whole bytes stays inside a memory of registers.
LEMMA WriteBytesStays ==
  ASSUME size \in Nat, mem \in SUBSET 0..(size - 1), OfRegisters(size),
         NEW k \in Nat, k < ByteCount, NEW n \in Nat, NEW buff \in SUBSET Int
  PROVE  WriteBytes(k, n, buff) \in SUBSET 0..(size - 1)
<1> DEFINE f == Fits(k, n, ByteCount)
           v == buff \cap 0..(f * W - 1)
<1>1. W \in Nat /\ ByteCount \in Nat /\ ByteCount * W = size
  BY RegistersAreWholeBytes, ServerDeviceAssumption
<1>2. f \in Nat /\ k + f <= ByteCount
  BY <1>1 DEF Fits
<1> HIDE DEF f
<1>3. k * W \in Nat /\ f * W \in Nat /\ k * W + f * W <= size
  <2> DEFINE d == ByteCount - (k + f)
  <2>1. d \in Nat /\ ByteCount = (k + f) + d
    BY <1>1, <1>2
  <2> HIDE DEF d
  <2>2. ((k + f) + d) * W = (k + f) * W + d * W /\ (k + f) * W = k * W + f * W
    <3> DEFINE e == k + f
    <3>1. e \in Nat /\ e * W = k * W + f * W
      BY <1>2, ByteOffset
    <3> HIDE DEF e
    <3>2. (e + d) * W = e * W + d * W
      BY <2>1, <3>1, ByteOffset
    <3> QED
      BY <3>1, <3>2 DEF e
  <2>3. k * W \in Nat /\ f * W \in Nat /\ d * W \in Nat
    BY <1>2, <2>1, ByteOffset
  <2> QED
    BY <1>1, <2>1, <2>2, <2>3
<1>4. WriteBytes(k, n, buff) = Put(mem, k, f * W, v)
  BY DEF WriteBytes, f
<1>5. v \in SUBSET Int /\ mem \in SUBSET Int
  OBVIOUS
<1>6. ASSUME NEW x \in Put(mem, k, f * W, v)
      PROVE  x \in 0..(size - 1)
  <2>1. x \in Int
    BY <1>3, <1>5, PutIsSetOfInt
  <2>2. x \in mem \/ x - k * W \in v
    BY <1>3, <1>5, <2>1, InPut
  <2>3. CASE x - k * W \in v
    <3> DEFINE base == k * W
               bits == f * W
    <3>1. x - base \in 0..(bits - 1) /\ base \in Nat /\ bits \in Nat /\ base + bits <= size
      BY <1>3, <2>3
    <3> HIDE DEF base, bits
    <3> QED
      BY <2>1, <3>1
  <2> QED
    BY <2>2, <2>3
<1> QED
  BY <1>4, <1>6

\* A counted write of a memory of the right size.
LEMMA ChangeKeepsTypeOK ==
  ASSUME TypeOK, NEW new \in SUBSET 0..(size - 1), Changed(new), UNCHANGED <<readOnly, view>>,
         held' \in {held, Nothing}
  PROVE  TypeOK'
<1>1. /\ mem' \in SUBSET 0..(size - 1) /\ size' = size /\ counter' = counter + 1 /\ counter < MaxChanges
      /\ UNCHANGED <<readOnly, seen, dirty, shown>>
  BY DEF Changed, view
<1>2. counter \in Nat /\ MaxChanges \in Nat
  BY ServerDeviceAssumption DEF TypeOK
<1>3. counter' \in 0..MaxChanges /\ seen' \in 0..counter'
  BY <1>1, <1>2 DEF TypeOK
<1>4. held' \in Places' \union {Nothing}
  BY <1>1 DEF TypeOK, Places, OfRegisters
<1> QED
  BY <1>1, <1>3, <1>4 DEF TypeOK

LEMMA NextKeepsTypeOK == TypeOK /\ [Next]_vars => TypeOK'
<1> SUFFICES ASSUME TypeOK, [Next]_vars PROVE TypeOK'
  OBVIOUS
<1>0. size \in Nat /\ mem \in SUBSET 0..(size - 1) /\ W \in Nat /\ W > 1
  BY SizesAreNat, ServerDeviceAssumption DEF TypeOK
<1>p. ASSUME UNCHANGED size
      PROVE  Places' = Places
  BY <1>p DEF Places, OfRegisters
<1>1. ASSUME NEW offset \in 0..(size - 1), NEW count \in 1..MaxCount, NEW buff \in Values(count),
             WriteMultipleCoils(offset, count, buff)
      PROVE  TypeOK'
  <2>1. buff \in SUBSET Int /\ count \in Nat
    BY <1>1, ServerDeviceAssumption DEF Values
  <2>2. WriteBits(mem, size, offset, count, buff) \in SUBSET 0..(size - 1)
    BY <1>0, <2>1, WriteBitsStays
  <2> QED
    BY <1>1, <2>2, ChangeKeepsTypeOK DEF WriteMultipleCoils
<1>2. ASSUME NEW place \in Places, IncrementReads(place)
      PROVE  TypeOK'
  BY <1>2, <1>p DEF IncrementReads, TypeOK, block, view
<1>3. CASE IncrementWrites
  <2>1. CASE Inside(held)
    <3>1. PICK v \in {{}, 0..(BitsOf(held) - 1)} : Changed(WriteAt(held, v))
      BY <1>3, <2>1 DEF IncrementWrites
    <3>2. held \in Places
      BY <1>3 DEF IncrementWrites, TypeOK
    <3>3. PICK offset \in ActionOffsets, bytes \in TypeBytes :
             held = IF OfRegisters(size) THEN <<"bytes", offset * RegeBytes, bytes>> ELSE <<"bits", offset, bytes * W>>
      BY <3>2 DEF Places
    <3>4. offset \in Nat /\ offset * RegeBytes \in Nat /\ bytes \in Nat /\ bytes * W \in Nat
      BY ServerDeviceAssumption, ByteOffset DEF RegeBytes
    <3>5. v \in SUBSET Int
      <4>1. BitsOf(held) \in Nat
        BY <3>3, <3>4 DEF BitsOf
      <4> QED
        BY <3>1, <4>1
    <3>6. WriteAt(held, v) \in SUBSET 0..(size - 1)
      <4>1. CASE OfRegisters(size)
        <5>1. held[1] = "bytes" /\ held[2] = offset * RegeBytes /\ held[3] = bytes
          BY <3>3, <4>1
        <5>2. held[2] < ByteCount /\ WriteAt(held, v) = WriteBytes(held[2], held[3], v)
          BY <2>1, <5>1 DEF Inside, WriteAt
        <5> QED
          BY <1>0, <3>4, <3>5, <4>1, <5>1, <5>2, WriteBytesStays
      <4>2. CASE ~OfRegisters(size)
        <5>1. held[1] = "bits" /\ held[2] = offset /\ held[3] = bytes * W
          BY <3>3, <4>2
        <5>2. held[2] \in 0..(size - 1) /\ WriteAt(held, v) = WriteBits(mem, size, held[2], held[3], v)
          BY <1>0, <2>1, <3>4, <5>1 DEF Inside, WriteAt
        <5> QED
          BY <1>0, <3>4, <3>5, <5>1, <5>2, WriteBitsStays
      <4> QED
        BY <4>1, <4>2
    <3> QED
      BY <1>3, <3>1, <3>6, ChangeKeepsTypeOK DEF IncrementWrites
  <2>2. CASE ~Inside(held)
    BY <1>3, <2>2, <1>p DEF IncrementWrites, TypeOK, block, view
  <2> QED
    BY <2>1, <2>2
<1>4. ASSUME NEW offset \in 0..(size - 1), NEW v \in {{}, {0}}, Edit(offset, v)
      PROVE  TypeOK'
  <2>1. WriteBits(mem, size, offset, 1, v) \in SUBSET 0..(size - 1)
    BY <1>0, WriteBitsStays
  <2> QED
    BY <1>4, <2>1, ChangeKeepsTypeOK DEF Edit
<1>5. CASE ZeroAll
  BY <1>5, ChangeKeepsTypeOK DEF ZeroAll
<1>6. ASSUME NEW buff \in Values(size), SetData(buff)
      PROVE  TypeOK'
  <2>1. Fits(0, size, size) = size /\ buff \in SUBSET Int /\ mem \in SUBSET Int
    BY <1>0 DEF Fits, Values
  <2>2. WriteBools(mem, size, 0, size, buff) = Replaced(mem, 0, size, buff)
    BY <1>0, <2>1, WriteBoolsExact
  <2>3. Replaced(mem, 0, size, buff) \in SUBSET 0..(size - 1)
    BY <1>0, <2>1, ReplacedStays
  <2> QED
    BY <1>6, <2>2, <2>3, ChangeKeepsTypeOK DEF SetData
<1>7. ASSUME NEW sz \in Sizes, Resize(sz)
      PROVE  TypeOK'
  <2>1. Places' = Places
    BY <1>7 DEF Resize, Places, OfRegisters
  <2> QED
    BY <1>7, <2>1 DEF Resize, TypeOK
<1>8. CASE SetReadOnly
  BY <1>8, <1>p DEF SetReadOnly, TypeOK, block, view
<1>9. CASE Refresh
  BY <1>9, <1>p DEF Refresh, TypeOK, block
<1>10. CASE Paint
  <2>1. Data \in {"nothing", "0", "1"}
    BY DEF Data
  <2> QED
    BY <1>10, <1>p, <2>1 DEF Paint, TypeOK, block
<1>11. CASE UNCHANGED vars
  BY <1>11, <1>p DEF vars, TypeOK, block, view
<1> QED
  BY <1>1, <1>2, <1>3, <1>4, <1>5, <1>6, <1>7, <1>8, <1>9, <1>10, <1>11 DEF Next

\* No request, action or edit ever writes beyond the end of a memory, not
\* even one whose value is cut there or whose memory has been made smaller
\* since it was read (mbServerDevice::MemoryBlock).
THEOREM TypeCorrect == Spec => []TypeOK
<1>1. Init => TypeOK
  BY ServerDeviceAssumption DEF Init, TypeOK
<1>2. TypeOK /\ [Next]_vars => TypeOK'
  BY NextKeepsTypeOK
<1> QED
  BY <1>1, <1>2, PTL DEF Spec

-----------------------------------------------------------------------------
(* The ways to the bits agree                                              *)

\* All of readBools, readBits, writeBools and writeBits do what they say, in
\* a memory of any size, with bytes of any width.
THEOREM BitsAlwaysAgree == Spec => []BitsAgree
<1>1. TypeOK => BitsAgree
  <2> SUFFICES ASSUME size \in Nat PROVE ReadsAgree /\ WritesExactly
    BY SizesAreNat DEF TypeOK, BitsAgree
  <2>1. ASSUME NEW s \in SUBSET (0..(size - 1)), NEW offset \in 0..(size - 1), NEW count \in 1..(size - offset)
        PROVE  /\ ReadBools(s, size, offset, count) = Slice(s, offset, count)
               /\ offset % W = 0 \/ count < W => ReadBits(s, size, offset, count) = {Slice(s, offset, count)}
    <3>1. s \in SUBSET Int /\ offset \in Nat /\ count \in Nat /\ offset + count <= size
      OBVIOUS
    <3> QED
      BY <3>1, ReadBoolsExact, ReadBitsExact
  <2>2. ASSUME NEW s \in SUBSET (0..(size - 1)), NEW offset \in 0..(size - 1), NEW count \in 1..(size - offset),
               NEW buff \in Values(count)
        PROVE  LET w == (s \ offset..(offset + count - 1)) \union Spread(buff, offset)
               IN  WriteBits(s, size, offset, count, buff) = w /\ WriteBools(s, size, offset, count, buff) = w
    <3>1. /\ s \in SUBSET Int /\ offset \in Nat /\ count \in Nat /\ offset <= size
          /\ Fits(offset, count, size) = count
      BY DEF Fits
    <3>2. buff \in SUBSET (0..(count - 1))
      BY DEF Values
    <3>3. buff \in SUBSET Int /\ buff \cap 0..(count - 1) = buff
      <4> DEFINE bits == 0..(count - 1)
      <4>1. buff \in SUBSET bits /\ bits \subseteq Int
        BY <3>1, <3>2
      <4> HIDE DEF bits
      <4>2. buff \in SUBSET Int /\ buff \cap bits = buff
        BY <4>1
      <4> QED
        BY <4>2 DEF bits
    <3>4. Replaced(s, offset, count, buff) = (s \ offset..(offset + count - 1)) \union Spread(buff, offset)
      BY <3>3 DEF Replaced
    <3> QED
      BY <3>1, <3>3, <3>4, WriteBitsExact, WriteBoolsExact
  <2> QED
    BY <2>1, <2>2 DEF ReadsAgree, WritesExactly
<1> QED
  BY <1>1, TypeCorrect, PTL

-----------------------------------------------------------------------------
(* The table                                                               *)

\* A write counts its change, so that the table, which never counts further
\* than the memory, is behind it.
LEMMA ChangeKeepsShownIsCurrent ==
  ASSUME TypeOK, ShownIsCurrent, NEW new, Changed(new), UNCHANGED view
  PROVE  ShownIsCurrent'
<1>1. counter \in Nat /\ seen \in 0..counter
  BY ServerDeviceAssumption DEF TypeOK
<1> QED
  BY <1>1 DEF ShownIsCurrent, Changed, view

\* A step that leaves the memory and the table alone.
LEMMA BesideKeepsShownIsCurrent ==
  ASSUME ShownIsCurrent, UNCHANGED <<block, view>>
  PROVE  ShownIsCurrent'
BY DEF ShownIsCurrent, Data, block, view

LEMMA NextKeepsShownIsCurrent == TypeOK /\ ShownIsCurrent /\ [Next]_vars => ShownIsCurrent'
<1> SUFFICES ASSUME TypeOK, ShownIsCurrent, [Next]_vars PROVE ShownIsCurrent'
  OBVIOUS
<1>1. ASSUME NEW offset, NEW count, NEW buff, WriteMultipleCoils(offset, count, buff)
      PROVE  ShownIsCurrent'
  BY <1>1, ChangeKeepsShownIsCurrent DEF WriteMultipleCoils
<1>2. ASSUME NEW place, IncrementReads(place)
      PROVE  ShownIsCurrent'
  BY <1>2, BesideKeepsShownIsCurrent DEF IncrementReads
<1>3. CASE IncrementWrites
  <2>1. CASE Inside(held)
    BY <1>3, <2>1, ChangeKeepsShownIsCurrent DEF IncrementWrites
  <2>2. CASE ~Inside(held)
    BY <1>3, <2>2, BesideKeepsShownIsCurrent DEF IncrementWrites
  <2> QED
    BY <2>1, <2>2
<1>4. ASSUME NEW offset, NEW v, Edit(offset, v)
      PROVE  ShownIsCurrent'
  BY <1>4, ChangeKeepsShownIsCurrent DEF Edit
<1>5. CASE ZeroAll
  BY <1>5, ChangeKeepsShownIsCurrent DEF ZeroAll
<1>6. ASSUME NEW buff, SetData(buff)
      PROVE  ShownIsCurrent'
  BY <1>6, ChangeKeepsShownIsCurrent DEF SetData
<1>7. ASSUME NEW sz, Resize(sz)
      PROVE  ShownIsCurrent'
  BY <1>7 DEF Resize, ShownIsCurrent
<1>8. CASE SetReadOnly
  BY <1>8, BesideKeepsShownIsCurrent DEF SetReadOnly
<1>9. CASE Refresh
  BY <1>9 DEF Refresh, ShownIsCurrent
<1>10. CASE Paint
  BY <1>10 DEF Paint, ShownIsCurrent, Data, block
<1>11. CASE UNCHANGED vars
  BY <1>11, BesideKeepsShownIsCurrent DEF vars
<1> QED
  BY <1>1, <1>2, <1>3, <1>4, <1>5, <1>6, <1>7, <1>8, <1>9, <1>10, <1>11 DEF Next

\* Between a change and the paint that shows it the table knows that it has
\* something to do (mbServerDeviceUiModel and MemoryBlock's change counter).
THEOREM ShownCurrent == Spec => []ShownIsCurrent
<1>1. Init => ShownIsCurrent
  BY DEF Init, ShownIsCurrent
<1>2. TypeOK /\ ShownIsCurrent /\ [Next]_vars => ShownIsCurrent'
  BY NextKeepsShownIsCurrent
<1> QED
  BY <1>1, <1>2, TypeCorrect, PTL DEF Spec
=============================================================================
