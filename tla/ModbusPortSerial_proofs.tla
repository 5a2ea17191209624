---------------------- MODULE ModbusPortSerial_proofs -----------------------
(***************************************************************************)
(* Theorems about ModbusPortSerial, for every size of the buffer, every    *)
(* length of a response, every set of clients and every set of requests.   *)
(*                                                                         *)
(* A serial port takes no step of its ModbusClientPort that the port could *)
(* not take, so the invariant of ModbusClientPort_proofs holds.  SerIInv   *)
(* adds what the cells on their way to readBuffer look like: frames one    *)
(* behind the other, the first perhaps without its beginning, none with a  *)
(* gap in its middle.                                                      *)
(***************************************************************************)
EXTENDS ModbusPortSerial, ModbusClientPort_proofs, SequenceTheorems, WellFoundedInduction

-----------------------------------------------------------------------------
(* Cells one behind the other                                              *)

\* A set of numbers has a least element.
LEMMA LeastNat ==
  ASSUME NEW T \in SUBSET Nat, T # {}
  PROVE  \E x \in T : \A y \in T : x <= y
<1> DEFINE R == {ss \in Nat \X Nat : ss[1] < ss[2]}
<1>1. R = OpToRel(<, Nat)
  BY Zenon DEF OpToRel
<1>2. IsWellFoundedOn(R, Nat)
  BY <1>1, NatLessThanWellFounded, Zenon
<1>3. PICK x \in T : \A y \in T : ~(<<y, x>> \in R)
  BY <1>2, WFMin
<1>4. ASSUME NEW y \in T
      PROVE  x <= y
  <2>1. <<y, x>> \in Nat \X Nat /\ <<y, x>>[1] = y /\ <<y, x>>[2] = x
    OBVIOUS
  <2>2. ~(y < x)
    BY <1>3, <2>1
  <2> QED
    BY <2>2
<1> QED
  BY <1>4

\* Both parts of joined cells are joined.
LEMMA JoinedParts ==
  ASSUME NEW S, NEW s \in Seq(S), NEW t \in Seq(S), Joined(s \o t)
  PROVE  Joined(s) /\ Joined(t)
<1> DEFINE u == s \o t
<1>1. /\ Len(s) \in Nat /\ Len(t) \in Nat
      /\ Len(u) = Len(s) + Len(t)
      /\ \A i \in 1..(Len(s) + Len(t)) : u[i] = IF i <= Len(s) THEN s[i] ELSE t[i - Len(s)]
  BY ConcatProperties, LenProperties
<1>2. Joined(u)
  OBVIOUS
<1> HIDE DEF u
<1>3. ASSUME NEW i \in 1..(Len(s) - 1), s[i + 1].part \in {"data", "end"}
      PROVE  s[i + 1].kind = s[i].kind
  <2>1. i \in 1..(Len(u) - 1) /\ u[i] = s[i] /\ u[i + 1] = s[i + 1]
    <3>1. i \in 1..(Len(u) - 1) /\ i + 1 <= Len(s)
      BY <1>1
    <3>2. /\ i \in 1..(Len(s) + Len(t)) /\ i <= Len(s)
          /\ i + 1 \in 1..(Len(s) + Len(t)) /\ i + 1 <= Len(s)
      BY <1>1, <3>1
    <3>3. u[i] = s[i] /\ u[i + 1] = s[i + 1]
      BY <1>1, <3>2
    <3> QED
      BY <3>1, <3>3
  <2> QED
    BY <1>2, <1>3, <2>1 DEF Joined
<1>4. ASSUME NEW i \in 1..(Len(t) - 1), t[i + 1].part \in {"data", "end"}
      PROVE  t[i + 1].kind = t[i].kind
  <2> DEFINE j == i + Len(s)
  <2>1. j \in 1..(Len(u) - 1) /\ u[j] = t[i] /\ u[j + 1] = t[i + 1]
    <3>1. /\ j \in 1..(Len(u) - 1) /\ ~(j <= Len(s)) /\ ~(j + 1 <= Len(s))
          /\ j - Len(s) = i /\ (j + 1) - Len(s) = i + 1
      BY <1>1
    <3>2. j \in 1..(Len(s) + Len(t)) /\ j + 1 \in 1..(Len(s) + Len(t))
      BY <1>1, <3>1
    <3>3. u[j] = t[j - Len(s)] /\ u[j + 1] = t[(j + 1) - Len(s)]
      BY <1>1, <3>1, <3>2
    <3> QED
      BY <3>1, <3>3
  <2> QED
    BY <1>2, <1>4, <2>1 DEF Joined
<1> QED
  BY <1>3, <1>4 DEF Joined

\* A frame may follow anything.
LEMMA JoinedAppend ==
  ASSUME NEW S, NEW s \in Seq(S), NEW t \in Seq(S), Joined(s), Joined(t),
         t # <<>> => t[1].part \notin {"data", "end"}
  PROVE  Joined(s \o t)
<1> DEFINE u == s \o t
<1>1. /\ Len(s) \in Nat /\ Len(t) \in Nat
      /\ Len(u) = Len(s) + Len(t)
      /\ \A i \in 1..(Len(s) + Len(t)) : u[i] = IF i <= Len(s) THEN s[i] ELSE t[i - Len(s)]
      /\ Len(t) # 0 => t # <<>>
  BY ConcatProperties, LenProperties
<1> HIDE DEF u
<1>2. ASSUME NEW i \in 1..(Len(u) - 1), u[i + 1].part \in {"data", "end"}
      PROVE  u[i + 1].kind = u[i].kind
  <2>1. CASE i < Len(s)
    <3>1. i \in 1..(Len(s) - 1) /\ u[i] = s[i] /\ u[i + 1] = s[i + 1]
      BY <1>1, <2>1
    <3> QED
      BY <1>2, <3>1 DEF Joined
  <2>2. CASE i = Len(s)
    <3>1. u[i + 1] = t[1] /\ t # <<>>
      BY <1>1, <2>2
    <3> QED
      BY <1>2, <3>1
  <2>3. CASE i > Len(s)
    <3> DEFINE j == i - Len(s)
    <3>1. j \in 1..(Len(t) - 1) /\ u[i] = t[j] /\ u[i + 1] = t[j + 1]
      BY <1>1, <2>3
    <3> QED
      BY <1>2, <3>1 DEF Joined
  <2> QED
    BY <1>1, <2>1, <2>2, <2>3
<1>3. Joined(u)
  BY <1>2 DEF Joined
<1> QED
  BY <1>3 DEF u

\* What passes readBuffer's checks is one frame from its head to its end.
LEMMA WholeIsOfOneKind ==
  ASSUME NEW s \in Seq(Cells), Joined(s), Whole(s)
  PROVE  \A i \in 1..Len(s) : s[i].kind = s[1].kind
<1>1. Len(s) \in Nat /\ Len(s) >= 2
  BY LenProperties DEF Whole
<1> DEFINE other == {i \in 1..Len(s) : s[i].kind # s[1].kind}
<1>2. SUFFICES ASSUME other # {} PROVE FALSE
  OBVIOUS
<1>3. other \in SUBSET Nat
  BY <1>1
<1>4. PICK i \in other : \A j \in other : i <= j
  BY <1>2, <1>3, LeastNat
<1>5. i \in 2..Len(s) /\ i - 1 \in 1..(Len(s) - 1) /\ i - 1 \notin other
  BY <1>1, <1>4
<1>6. s[i - 1].kind = s[1].kind
  BY <1>1, <1>5
<1>7. s[(i - 1) + 1] = s[i]
  BY <1>1, <1>5
<1>8. s[i].part \in {"data", "end"}
  BY <1>1, <1>5 DEF Whole
<1>9. s[i].kind = s[i - 1].kind
  BY <1>5, <1>7, <1>8 DEF Joined
<1> QED
  BY <1>4, <1>6, <1>9

-----------------------------------------------------------------------------
(* The port above                                                          *)

\* What a serial port does is something its ClientPort can do.
LEMMA SerialStepIsPortStep == SerNext => [Next]_vars
<1>1. ASSUME NEW c \in Clients, NEW q \in Requests, Progress(c, q) \/ ReadError(c, q)
      PROVE  ClientCall(c, q)
  BY <1>1 DEF Progress, ReadError, OpenStarts, OpenTimesOut, CloseToReopen, WriteWaits, Write,
              WriteError, ReadWaits, ReadSome, ReadTimesOut, ReadAll, ClientCall
<1>2. CASE ChangeSettings
  BY <1>2 DEF ChangeSettings, Next
<1>3. CASE Answer \/ Deliver \/ Miss
  BY <1>3 DEF Answer, Deliver, Miss
<1> QED
  BY <1>1, <1>2, <1>3 DEF SerNext, Next

\* IInv holds of the port whatever the serial port does.
LEMMA PortInvariance == IInv /\ [SerNext]_serVars => IInv'
<1>1. [SerNext]_serVars => [Next]_vars
  BY SerialStepIsPortStep DEF serVars
<1> QED
  BY <1>1, NextKeepsIInv

-----------------------------------------------------------------------------
(* The types                                                               *)

\* m_state of the serial port goes with the port being open and with the
\* state of the ClientPort above.
LEMMA StepKeepsSerTypes ==
  ASSUME SerIInv, SerNext
  PROVE  /\ ser' \in {"UNKNOWN", "CLOSED", "WAIT_FOR_OPEN", "BEGIN", "WAIT_FOR_WRITE_ALL",
                      "WAIT_FOR_READ", "WAIT_FOR_READ_ALL"}
         /\ isOpen' = (ser' \notin {"UNKNOWN", "CLOSED", "WAIT_FOR_OPEN"})
         /\ state' = "WRITE" <=> ser' = "WAIT_FOR_WRITE_ALL"
         /\ state' = "BEGIN_READ" => isOpen'
<1> DEFINE Types ==
      /\ ser \in {"UNKNOWN", "CLOSED", "WAIT_FOR_OPEN", "BEGIN", "WAIT_FOR_WRITE_ALL",
                  "WAIT_FOR_READ", "WAIT_FOR_READ_ALL"}
      /\ isOpen = (ser \notin {"UNKNOWN", "CLOSED", "WAIT_FOR_OPEN"})
      /\ state = "WRITE" <=> ser = "WAIT_FOR_WRITE_ALL"
      /\ state = "BEGIN_READ" => isOpen
<1>1. Types
  BY DEF SerIInv, SerTypeOK
<1>2. /\ AtWrite => state # "BEGIN_READ"
      /\ Opens => Opening \notin {"WRITE", "BEGIN_READ"} /\ state # "WRITE"
  BY DEF AtWrite, Opens, Opening
<1>3. SUFFICES Types'
  OBVIOUS
<1>4. ASSUME NEW c \in Clients, NEW q \in Requests, Progress(c, q) \/ ReadError(c, q)
      PROVE  Types'
  <2>1. CASE OpenStarts(c, q)
    BY <1>1, <1>2, <2>1 DEF OpenStarts, AwaitOpen
  <2>2. CASE OpenTimesOut(c, q)
    BY <1>1, <1>2, <2>2 DEF OpenTimesOut, OpenFails
  <2>3. CASE CloseToReopen(c, q)
    BY <1>1, <2>3 DEF CloseToReopen, Reopen
  <2>4. CASE WriteWaits(c, q)
    BY <1>1, <2>4 DEF WriteWaits, AwaitWrite, GetsToWrite
  <2>5. CASE Write(c, q)
    BY <1>1, <2>5 DEF Write, Written, GetsToWrite
  <2>6. CASE WriteError(c, q)
    BY <1>1, <2>6 DEF WriteError, WriteFails, GetsToWrite
  <2>7. CASE ReadWaits(c, q)
    BY <1>1, <2>7 DEF ReadWaits, AwaitRead, Reads
  <2>8. CASE ReadSome(c, q)
    BY <1>1, <2>8 DEF ReadSome, AwaitRead, Reads
  <2>9. CASE ReadTimesOut(c, q)
    BY <1>1, <2>9 DEF ReadTimesOut, ReadFails
  <2>10. CASE ReadAll(c, q)
    BY <1>1, <2>10 DEF ReadAll, Answered, Reads
  <2>11. CASE ReadError(c, q)
    BY <1>1, <2>11 DEF ReadError, ReadFails
  <2>12. CASE Wait(c, q) /\ UNCHANGED <<ser, got, line>>
    BY <1>1, <2>12 DEF Wait, portVars
  <2> QED
    BY <1>4, <2>1, <2>2, <2>3, <2>4, <2>5, <2>6, <2>7, <2>8, <2>9, <2>10, <2>11, <2>12 DEF Progress
<1>5. CASE ChangeSettings
  BY <1>1, <1>5 DEF ChangeSettings, SetSettings
<1>6. CASE Answer \/ Deliver \/ Miss
  BY <1>1, <1>6 DEF Answer, Deliver, Miss, vars, portVars
<1> QED
  BY <1>4, <1>5, <1>6 DEF SerNext

-----------------------------------------------------------------------------
(* The line                                                                *)

\* Concatenation is associative, in the form the steps below cite.
LEMMA Assoc ==
  ASSUME NEW a \in Seq(Cells), NEW b \in Seq(Cells), NEW c \in Seq(Cells)
  PROVE  (a \o b) \o c = a \o (b \o c)
BY ConcatAssociative

\* A frame of a device is joined and begins with its head.
LEMMA FrameOfDevice ==
  ASSUME NEW kind \in Frames,
         NEW s \in {Response(kind, len) : len \in ResponseLens} \union {Exception(kind)}
  PROVE  s \in Seq(Cells) /\ Joined(s) /\ s[1].part \notin {"data", "end"}
<1>1. CASE s = Exception(kind)
  BY <1>1 DEF Exception, Cell, Cells, Joined
<1>2. ASSUME NEW len \in ResponseLens, s = Response(kind, len)
      PROVE  s \in Seq(Cells) /\ Joined(s) /\ s[1].part \notin {"data", "end"}
  <2>1. len \in Nat /\ len >= 2
    BY ModbusPortSerialAssumption
  <2>2. \A i \in 1..len : s[i] \in Cells /\ s[i].kind = kind
    BY <1>2 DEF Response, Cell, Cells
  <2>3. s \in [1..len -> Cells] /\ Len(s) = len
    <3>1. DOMAIN s = 1..len /\ s = [i \in 1..len |-> s[i]]
      BY <1>2 DEF Response
    <3>2. s \in [1..len -> Cells]
      BY <2>2, <3>1
    <3> QED
      BY <2>1, <3>1, <3>2
  <2>4. s[1].part = "head"
    BY <1>2, <2>1 DEF Response, Cell
  <2> QED
    BY <2>1, <2>2, <2>3, <2>4 DEF Joined
<1> QED
  BY <1>1, <1>2

\* The cells that are left when some in front or some behind are dropped.
LEMMA DropKeepsJoined ==
  ASSUME NEW a \in Seq(Cells), NEW b \in Seq(Cells), NEW c \in Seq(Cells), Joined(a \o (b \o c))
  PROVE  /\ Joined(<<>> \o (b \o c))
         /\ Joined(<<>> \o (<<>> \o c))
         /\ Joined(a \o (b \o <<>>))
<1>1. b \o c \in Seq(Cells) /\ a \o b \in Seq(Cells)
  BY ConcatProperties
<1>2. Joined(b \o c)
  BY <1>1, JoinedParts
<1>3. Joined(c)
  BY <1>2, JoinedParts
<1>4. Joined((a \o b) \o c)
  BY Assoc, Zenon
<1>5. Joined(a \o b)
  BY <1>1, <1>4, JoinedParts
<1>6. <<>> \o (b \o c) = b \o c /\ <<>> \o c = c /\ b \o <<>> = b
  BY <1>1, ConcatEmptySeq
<1> QED
  BY <1>2, <1>3, <1>5, <1>6

\* A sequence is its first n elements and the rest.
LEMMA Split ==
  ASSUME NEW s \in Seq(Cells), NEW n \in 0..Len(s)
  PROVE  /\ SubSeq(s, 1, n) \in Seq(Cells) /\ Len(SubSeq(s, 1, n)) = n
         /\ SubSeq(s, n + 1, Len(s)) \in Seq(Cells)
         /\ SubSeq(s, 1, n) \o SubSeq(s, n + 1, Len(s)) = s
<1>1. Len(s) \in Nat /\ \A i \in 1..Len(s) : s[i] \in Cells
  BY LenProperties, ElementOfSeq
<1>2. SubSeq(s, 1, n) \in Seq(Cells) /\ Len(SubSeq(s, 1, n)) = n
  BY <1>1, SubSeqProperties
<1>3. SubSeq(s, n + 1, Len(s)) \in Seq(Cells)
  BY <1>1, SubSeqProperties
<1>4. SubSeq(s, 1, n) \o SubSeq(s, n + 1, Len(s)) = SubSeq(s, 1, Len(s))
  <2>1. 1 \in 1..(Len(s) + 1) /\ n \in (1 - 1)..Len(s) /\ Len(s) \in n..Len(s)
    BY <1>1
  <2> QED
    BY <2>1, ConcatAdjacentSubSeq, Zenon
<1> QED
  BY <1>2, <1>3, <1>4, SubSeqFull

LineOK ==
    /\ got \in Seq(Cells) /\ arrived \in Seq(Cells) /\ transit \in Seq(Cells)
    /\ pending \in Frames
    /\ Len(got) <= BuffSz
    /\ Joined(incoming)

\* The input is kept as it is, or cleared and the frame being read given up.
LEMMA KeptOrCleared ==
  ASSUME LineOK, got' \in {got, <<>>}, transit' = transit, pending' \in Frames,
         \/ ser' = ser /\ got' = got /\ arrived' = arrived
         \/ ser' # "WAIT_FOR_READ_ALL" /\ arrived' \in {arrived, <<>>}
  PROVE  LineOK'
<1>1. begun \in Seq(Cells) /\ <<>> \in Seq(Cells) /\ Len(<<>>) = 0
  BY EmptySeq DEF LineOK, begun
<1>2. \/ begun' = begun /\ arrived' = arrived
      \/ begun' = <<>> /\ arrived' \in {arrived, <<>>}
  BY DEF begun
<1>3. Joined(incoming)'
  BY <1>1, <1>2, DropKeepsJoined DEF LineOK, incoming
<1>4. got' \in Seq(Cells) /\ arrived' \in Seq(Cells) /\ transit' \in Seq(Cells)
  BY <1>1 DEF LineOK
<1>5. Len(got') <= BuffSz
  BY <1>1, ModbusPortSerialAssumption DEF LineOK
<1> QED
  BY <1>3, <1>4, <1>5 DEF LineOK

LEMMA StepKeepsLine ==
  ASSUME IInv, LineOK, SerNext
  PROVE  LineOK'
<1>0. \A c \in Clients, q \in Requests : <<c, q>> \in Frames
  BY DEF Frames
<1>1. ASSUME NEW c \in Clients, NEW q \in Requests, Progress(c, q) \/ ReadError(c, q)
      PROVE  LineOK'
  <2>1. CASE OpenStarts(c, q)
    BY <2>1, KeptOrCleared DEF OpenStarts, line, LineOK
  <2>2. CASE OpenTimesOut(c, q)
    BY <2>2, KeptOrCleared DEF OpenTimesOut, line, LineOK
  <2>3. CASE CloseToReopen(c, q)
    BY <2>3, KeptOrCleared DEF CloseToReopen, line, LineOK
  <2>4. CASE WriteWaits(c, q)
    BY <2>4, KeptOrCleared DEF WriteWaits, ClearInput, LineOK
  <2>5. CASE Write(c, q)
    BY <1>0, <2>5, KeptOrCleared DEF Write, ClearInput, Reaches, LineOK
  <2>6. CASE WriteError(c, q)
    BY <1>0, <2>6, KeptOrCleared DEF WriteError, ClearInput, Reaches, LineOK
  <2>7. CASE ReadWaits(c, q)
    BY <2>7, KeptOrCleared DEF ReadWaits, line, LineOK
  <2>8. CASE ReadSome(c, q)
    <3> DEFINE room == BuffSz - Len(begun)
               n == IF Len(arrived) < room THEN Len(arrived) ELSE room
    <3>1. /\ begun \in Seq(Cells) /\ Len(begun) \in Nat /\ Len(begun) <= BuffSz
          /\ Len(arrived) \in Nat
      BY EmptySeq, LenProperties, ModbusPortSerialAssumption DEF begun, LineOK
    <3>2. n \in 0..Len(arrived) /\ n <= room
      BY <3>1, ModbusPortSerialAssumption
    <3>3. /\ ser' = "WAIT_FOR_READ_ALL"
          /\ got' = begun \o SubSeq(arrived, 1, n)
          /\ arrived' = SubSeq(arrived, n + 1, Len(arrived))
          /\ transit' = transit /\ pending' = pending
      BY <2>8 DEF ReadSome, begun
    <3> HIDE DEF n
    <3>4. /\ SubSeq(arrived, 1, n) \in Seq(Cells) /\ Len(SubSeq(arrived, 1, n)) = n
          /\ arrived' \in Seq(Cells)
          /\ SubSeq(arrived, 1, n) \o arrived' = arrived
      BY <3>2, <3>3, Split DEF LineOK
    <3>5. got' \in Seq(Cells) /\ Len(got') = Len(begun) + n
      BY <3>1, <3>3, <3>4, ConcatProperties
    <3>6. Len(got') <= BuffSz
      BY <3>1, <3>2, <3>5, ModbusPortSerialAssumption
    <3>7. got' \o (arrived' \o transit) = begun \o (arrived \o transit)
      <4> DEFINE front == SubSeq(arrived, 1, n)
      <4>1. front \in Seq(Cells) /\ arrived' \in Seq(Cells) /\ transit \in Seq(Cells)
            /\ arrived' \o transit \in Seq(Cells) /\ front \o arrived' = arrived
        BY <3>4, ConcatProperties DEF LineOK
      <4> HIDE DEF front
      <4>2. (begun \o front) \o (arrived' \o transit) = begun \o (front \o (arrived' \o transit))
        <5> DEFINE r == arrived' \o transit
        <5>1. begun \in Seq(Cells) /\ front \in Seq(Cells) /\ r \in Seq(Cells)
          BY <3>1, <4>1
        <5> HIDE DEF r
        <5>2. (begun \o front) \o r = begun \o (front \o r)
          BY <5>1, Assoc
        <5> QED
          BY <5>2 DEF r
      <4>3. front \o (arrived' \o transit) = (front \o arrived') \o transit
        <5> DEFINE r == arrived'
        <5>1. front \in Seq(Cells) /\ r \in Seq(Cells) /\ transit \in Seq(Cells)
          BY <4>1
        <5> HIDE DEF r
        <5>2. (front \o r) \o transit = front \o (r \o transit)
          BY <5>1, Assoc
        <5> QED
          BY <5>2 DEF r
      <4> QED
        BY <3>3, <4>1, <4>2, <4>3 DEF front
    <3>8. Joined(incoming')
      BY <3>3, <3>7 DEF incoming, begun, LineOK
    <3> QED
      BY <3>3, <3>4, <3>5, <3>6, <3>8 DEF LineOK, incoming, begun
  <2>9. CASE ReadTimesOut(c, q)
    BY <2>9, KeptOrCleared DEF ReadTimesOut, line, LineOK
  <2>10. CASE ReadAll(c, q)
    BY <2>10, KeptOrCleared DEF ReadAll, line, LineOK
  <2>11. CASE ReadError(c, q)
    BY <2>11, KeptOrCleared DEF ReadError, line, LineOK
  <2>12. CASE Wait(c, q) /\ UNCHANGED <<ser, got, line>>
    BY <2>12, KeptOrCleared DEF line, LineOK
  <2> QED
    BY <1>1, <2>1, <2>2, <2>3, <2>4, <2>5, <2>6, <2>7, <2>8, <2>9, <2>10, <2>11, <2>12 DEF Progress
<1>2. CASE ChangeSettings
  BY <1>2, KeptOrCleared DEF ChangeSettings, line, LineOK
<1>3. CASE Answer
  <2>1. /\ transit' \in {Response(pending, len) : len \in ResponseLens} \union {Exception(pending)}
        /\ transit = <<>> /\ pending' = Junk
        /\ UNCHANGED <<ser, got, arrived>>
    BY <1>3 DEF Answer, Nothing
  <2>2. transit' \in Seq(Cells) /\ Joined(transit') /\ transit'[1].part \notin {"data", "end"}
    BY <2>1, FrameOfDevice DEF LineOK
  <2>3. begun \in Seq(Cells) /\ begun \o arrived \in Seq(Cells) /\ arrived \o <<>> = arrived
    BY EmptySeq, ConcatProperties, ConcatEmptySeq DEF LineOK, begun
  <2>4. Joined(begun \o arrived)
    BY <2>1, <2>3 DEF LineOK, incoming
  <2>5. Joined((begun \o arrived) \o transit')
    BY <2>2, <2>3, <2>4, JoinedAppend
  <2>6. Joined(begun \o (arrived \o transit'))
    <3> DEFINE t == transit'
    <3>0. begun \in Seq(Cells) /\ arrived \in Seq(Cells) /\ t \in Seq(Cells)
      BY <2>2, <2>3 DEF LineOK
    <3> HIDE DEF t
    <3>1. (begun \o arrived) \o t = begun \o (arrived \o t)
      BY <3>0, Assoc, Zenon
    <3> QED
      BY <2>5, <3>1, Zenon DEF t
  <2>7. Junk \in Frames
    BY DEF Frames
  <2> QED
    BY <2>1, <2>2, <2>6, <2>7 DEF LineOK, incoming, begun
<1>4. CASE Deliver
  <2>1. PICK k \in 1..Len(transit) :
           /\ arrived' = arrived \o SubSeq(transit, 1, k)
           /\ transit' = SubSeq(transit, k + 1, Len(transit))
    BY <1>4 DEF Deliver
  <2>2. UNCHANGED <<ser, got, pending>>
    BY <1>4 DEF Deliver
  <2> DEFINE front == SubSeq(transit, 1, k)
  <2>3. /\ front \in Seq(Cells) /\ transit' \in Seq(Cells) /\ front \o transit' = transit
    <3>1. k \in 0..Len(transit)
      BY LenProperties DEF LineOK
    <3> QED
      BY <2>1, <3>1, Split DEF LineOK
  <2>4. arrived' \in Seq(Cells)
    BY <2>1, <2>3, ConcatProperties DEF LineOK
  <2> HIDE DEF front
  <2>5. (arrived \o front) \o transit' = arrived \o (front \o transit')
    <3>1. arrived \in Seq(Cells)
      BY DEF LineOK
    <3> QED
      BY <2>3, <3>1, Assoc
  <2>6. arrived' \o transit' = arrived \o transit
    BY <2>1, <2>3, <2>5 DEF front
  <2>7. Joined(incoming')
    BY <2>2, <2>6 DEF LineOK, incoming, begun
  <2> QED
    BY <2>2, <2>3, <2>4, <2>7 DEF LineOK, incoming, begun
<1>5. CASE Miss
  <2>1. transit' = <<>> /\ UNCHANGED <<ser, got, arrived, pending>>
    BY <1>5 DEF Miss
  <2>2. begun \in Seq(Cells) /\ <<>> \in Seq(Cells)
    BY EmptySeq DEF LineOK, begun
  <2>3. Joined(incoming')
    BY <2>1, <2>2, DropKeepsJoined DEF LineOK, incoming, begun
  <2> QED
    BY <2>1, <2>2, <2>3 DEF LineOK, incoming, begun
<1> QED
  BY <1>1, <1>2, <1>3, <1>4, <1>5 DEF SerNext

-----------------------------------------------------------------------------
(* The theorems                                                            *)

\* The constructor establishes the invariant.
LEMMA InitSerIInv == SerInit => SerIInv
<1> SUFFICES ASSUME SerInit PROVE SerIInv
  OBVIOUS
<1>1. IInv
  BY InitIInv DEF SerInit
<1>2. SerTypeOK /\ (state = "BEGIN_READ" => isOpen)
  <2>1. TypeOK
    BY <1>1 DEF IInv
  <2>2. state = "BEGIN" /\ isOpen = FALSE /\ ser = "UNKNOWN" /\ Len(got) = 0
    BY DEF SerInit, Init
  <2>3. 0 <= BuffSz
    BY ModbusPortSerialAssumption
  <2> QED
    BY <2>1, <2>2, <2>3 DEF SerTypeOK
<1>3. <<>> \in Seq(Cells) /\ Nothing \in Frames
  BY DEF Nothing, Frames
<1>4. incoming = <<>>
  BY DEF SerInit, incoming, begun
<1>5. Joined(<<>>)
  BY DEF Joined
<1> QED
  BY <1>1, <1>2, <1>3, <1>4, <1>5 DEF SerInit, SerIInv

LEMMA StepKeepsSerIInv == SerIInv /\ [SerNext]_serVars => SerIInv'
<1> SUFFICES ASSUME SerIInv, [SerNext]_serVars PROVE SerIInv'
  OBVIOUS
<1>1. IInv' /\ TypeOK'
  BY PortInvariance DEF SerIInv, IInv
<1>2. CASE SerNext
  <2>1. LineOK'
    BY <1>2, StepKeepsLine DEF SerIInv, SerTypeOK, LineOK
  <2>2. SerTypeOK' /\ (state' = "BEGIN_READ" => isOpen')
    BY <1>1, <1>2, <2>1, StepKeepsSerTypes DEF SerTypeOK, LineOK
  <2> QED
    BY <1>1, <2>1, <2>2 DEF SerIInv, LineOK
<1>3. CASE UNCHANGED serVars
  BY <1>1, <1>3
  DEF SerIInv, SerTypeOK, serVars, vars, portVars, line, incoming, begun
<1> QED
  BY <1>2, <1>3

LEMMA SerInvariance == SerSpec => []SerIInv
<1>1. SerInit => SerIInv
  BY InitSerIInv
<1>2. SerIInv /\ [SerNext]_serVars => SerIInv'
  BY StepKeepsSerIInv
<1> QED
  BY <1>1, <1>2, PTL DEF SerSpec

\* m_state keeps its type, is in step with the ClientPort above and with the
\* port being open, and no response overflows m_buff, however long the
\* devices go on sending.
THEOREM SerTypeCorrect == SerSpec => []SerTypeOK
<1>1. SerIInv => SerTypeOK
  BY DEF SerIInv
<1> QED
  BY <1>1, SerInvariance, PTL

\* The call that reports Good has a whole frame in its buffer, each cell of
\* the owner's unit and function and none from before the request.
LEMMA GoodHasWholeFrame ==
  ASSUME SerIInv, [SerNext]_serVars,
         NEW c \in Clients, call[c] # NoRequest, call'[c] = NoRequest, outcome'.good
  PROVE  /\ Whole(got)
         /\ \A i \in 1..Len(got) : got[i].kind = <<c, call[c]>> /\ ~got[i].old
<1> USE ModbusClientPortAssumption
<1>0. IInv /\ TypeOK
  BY DEF SerIInv, IInv
<1>1. ASSUME NEW d \in Clients, NEW q \in Requests, Progress(d, q) \/ ReadError(d, q)
      PROVE  /\ Whole(got)
             /\ \A i \in 1..Len(got) : got[i].kind = <<c, call[c]>> /\ ~got[i].old
  <2>1. ~Fail(d, q)
    <3>1. ~Repeat(d, q)
      BY <1>0 DEF Repeat, TypeOK
    <3>2. ~Finish(d, FALSE)
      BY DEF Finish
    <3> QED
      BY <3>1, <3>2 DEF Fail
  <2>2. ~Continue(d, q)
    BY <1>0 DEF Continue, TypeOK
  <2>3. ~Wait(d, q)
    BY <1>0 DEF Wait, TypeOK
  <2>4. ReadAll(d, q)
    BY <1>1, <2>1, <2>2, <2>3
    DEF Progress, OpenStarts, AwaitOpen, OpenTimesOut, OpenFails, CloseToReopen, Reopen,
        WriteWaits, AwaitWrite, Write, Written, WriteError, WriteFails, ReadWaits, ReadSome,
        AwaitRead, ReadTimesOut, ReadError, ReadFails
  <2>5. /\ running /\ state = "BEGIN_READ" /\ ser = "WAIT_FOR_READ_ALL"
        /\ Accepts(got)
    BY <2>4 DEF ReadAll, Answered, Reads, Requesting, Calls
  <2>6. current = c
    BY <1>0, GoodOnlyIfAnswered, SerialStepIsPortStep DEF serVars
  <2>7. expect = <<c, call[c]>>
    BY <1>0, <2>5, <2>6 DEF IInv, AwaitsOwnAnswer, BufferHasOwner, Own
  <2>8. got \in Seq(Cells) /\ Joined(got)
    <3>1. arrived \o transit \in Seq(Cells) /\ got \in Seq(Cells)
      BY ConcatProperties DEF SerIInv
    <3>2. Joined(got \o (arrived \o transit))
      BY <2>5 DEF SerIInv, incoming, begun
    <3> QED
      BY <3>1, <3>2, JoinedParts
  <2>9. \A i \in 1..Len(got) : got[i].kind = got[1].kind /\ ~got[i].old
    <3>1. \A i \in 1..Len(got) : got[i].kind = got[1].kind
      BY <2>5, <2>8, WholeIsOfOneKind DEF Accepts
    <3>2. \A i \in 1..Len(got) : got[i] \in Cells
      BY <2>8, ElementOfSeq
    <3>3. \A x \in Cells : ~x.old
      BY DEF Cells
    <3> QED
      BY <3>1, <3>2, <3>3
  <2> QED
    BY <2>5, <2>7, <2>9 DEF Accepts
<1>2. CASE ChangeSettings \/ Answer \/ Deliver \/ Miss \/ UNCHANGED serVars
  BY <1>2 DEF ChangeSettings, SetSettings, Answer, Deliver, Miss, serVars, vars
<1> QED
  BY <1>1, <1>2 DEF SerNext

\* PortRTU and PortASC report Good only for one whole frame of the unit and
\* the function that were asked, of which nothing had come in before the
\* request was written, however the line cuts, joins and delays the frames.
THEOREM GoodTimely == SerSpec => GoodIsTimely
<1>1. SerIInv /\ [SerNext]_serVars =>
         [\A c \in Clients : call[c] # NoRequest /\ call'[c] = NoRequest /\ outcome'.good
            => /\ Whole(got)
               /\ \A i \in 1..Len(got) : got[i].kind = <<c, call[c]>> /\ ~got[i].old]_serVars
  BY GoodHasWholeFrame
<1> QED
  BY <1>1, SerInvariance, PTL DEF SerSpec, GoodIsTimely

\* A serial port is one of the ports ModbusClientPort is about: what is
\* proved of any port holds of it.
THEOREM SerialPortIsPort == SerSpec => Spec
<1>1. SerInit => Init
  BY DEF SerInit
<1>2. [SerNext]_serVars => [Next]_vars
  BY SerialStepIsPortStep DEF serVars
<1> QED
  BY <1>1, <1>2, PTL DEF SerSpec, Spec
=============================================================================
