------------------------ MODULE ModbusPortTCP_proofs ------------------------
(***************************************************************************)
(* Theorems about ModbusPortTCP, for every set of clients and requests,    *)
(* every length of a response, every modulus of the transaction counter    *)
(* and every bound, if no segment of the stream ends within the prefix     *)
(* that read() takes at once (~SplitPrefix).                               *)
(*                                                                         *)
(* A TCP port takes no step of its ModbusClientPort that the port could    *)
(* not take, so the invariant of ModbusClientPort_proofs holds.  TcpIInv   *)
(* adds that read() and the stream agree on where the frames begin, and    *)
(* how much of one answer is still to come.                                *)
(*                                                                         *)
(* OwnIInv adds how old the answers on the way can be: their transactions  *)
(* and their places in the stream grow together, and the number of a new   *)
(* request has not come round (MaxExtra + MaxWriteErrors < Transactions).  *)
(***************************************************************************)
EXTENDS ModbusPortTCP, ModbusClientPort_proofs, SequenceTheorems, FiniteSetTheorems, FunctionTheorems

-----------------------------------------------------------------------------
(* The port above                                                          *)

\* What a TCP port does is something its ClientPort can do.
LEMMA TcpStepIsPortStep == TcpNext => [Next]_vars
<1>1. ASSUME NEW c \in Clients, NEW q \in Requests, TcpCall(c, q)
      PROVE  ClientCall(c, q)
  BY <1>1 DEF TcpCall, Progress, OpenStarts, OpenWaits, OpenTimesOut, CloseToReopen, Write,
              WriteError, ReadWaits, ReadSome, ReadTimesOut, ReadAll, ClientCall
<1>2. CASE Connect \/ Drop \/ ChangeSettings
  BY <1>2 DEF Connect, Drop, ChangeSettings, Next
<1>3. CASE Answer \/ AnswerTwice \/ Deliver
  BY <1>3 DEF Answer, AnswerTwice, Deliver
<1> QED
  BY <1>1, <1>2, <1>3 DEF TcpNext, Next

\* IInv holds of the port whatever the TCP port does.
LEMMA PortInvariance == IInv /\ [TcpNext]_tcpVars => IInv'
<1>1. [TcpNext]_tcpVars => [Next]_vars
  BY TcpStepIsPortStep DEF tcpVars
<1> QED
  BY <1>1, NextKeepsIInv

\* A TCP port is one of the ports ModbusClientPort is about: what is proved of
\* any port holds of it.
THEOREM TcpPortIsPort == TcpSpec => Spec
<1>1. TcpInit => Init
  BY DEF TcpInit
<1>2. [TcpNext]_tcpVars => [Next]_vars
  BY TcpStepIsPortStep DEF tcpVars
<1> QED
  BY <1>1, <1>2, PTL DEF TcpSpec, Spec

-----------------------------------------------------------------------------
(* Frames in a stream                                                      *)

LEMMA Values ==
  ASSUME NEW s \in Seq(Cells), NEW i \in 1..Len(s)
  PROVE  s[i] \in Cells /\ s[i].val \in Nat
<1>1. s[i] \in Cells
  BY ElementOfSeq
<1>2. \A x \in Cells : x.val \in Nat
  BY DEF Cells
<1> QED
  BY <1>1, <1>2

\* Concatenation is associative, in the form the steps below cite.
LEMMA Assoc ==
  ASSUME NEW a \in Seq(Cells), NEW b \in Seq(Cells), NEW c \in Seq(Cells)
  PROVE  (a \o b) \o c = a \o (b \o c)
BY ConcatAssociative

\* What follows the first n cells of s.
Shifted(t, s, n) ==
    /\ n \in 0..Len(s)
    /\ Len(t) = Len(s) - n
    /\ \A i \in 1..Len(t) : t[i] = s[i + n]

\* Cells taken from the front leave the frames behind them alone.
LEMMA ShiftKeepsFrames ==
  ASSUME NEW s \in Seq(Cells), NEW t \in Seq(Cells), NEW n, Shifted(t, s, n), Framed(s)
  PROVE  Framed(t) /\ (FramesEnd(s) => FramesEnd(t))
<1>1. /\ n \in Nat /\ Len(t) \in Nat /\ Len(s) \in Nat
      /\ Len(t) = Len(s) - n
      /\ \A i \in 1..Len(s) : s[i].val \in Nat
  BY LenProperties, Values DEF Shifted
<1>2. ASSUME NEW i \in 1..Len(t), t[i].part = "id"
      PROVE  /\ i < Len(t) /\ t[i + 1].part = "len" /\ t[i + 1].val > 0
             /\ i + 2 + t[i + 1].val <= Len(t) => t[i + 2 + t[i + 1].val].part = "id"
             /\ FramesEnd(s) => i + 1 + t[i + 1].val <= Len(t)
  <2> DEFINE j == i + n
  <2>1. j \in 1..Len(s) /\ s[j].part = "id"
    BY <1>1, <1>2 DEF Shifted
  <2>2. /\ j < Len(s) /\ s[j + 1].part = "len" /\ s[j + 1].val > 0
        /\ j + 2 + s[j + 1].val <= Len(s) => s[j + 2 + s[j + 1].val].part = "id"
    BY <2>1 DEF Framed
  <2>3. i + 1 \in 1..Len(t) /\ t[i + 1] = s[j + 1] /\ t[i + 1].val \in Nat
    BY <1>1, <2>1, <2>2 DEF Shifted
  <2> DEFINE v == t[i + 1].val
  <2>4. /\ v \in Nat /\ v > 0 /\ s[j + 1].val = v /\ t[i + 1].part = "len"
        /\ j + 2 + v <= Len(s) => s[j + 2 + v].part = "id"
    BY <2>2, <2>3
  <2>5. FramesEnd(s) => j + 1 + v <= Len(s)
    BY <2>1, <2>4 DEF FramesEnd
  <2> HIDE DEF v
  <2>6. ASSUME i + 2 + v <= Len(t)
        PROVE  t[i + 2 + v].part = "id"
    <3>1. i + 2 + v \in 1..Len(t) /\ (i + 2 + v) + n = j + 2 + v /\ j + 2 + v <= Len(s)
      BY <1>1, <2>4, <2>6
    <3>2. t[i + 2 + v] = s[j + 2 + v]
      BY <3>1 DEF Shifted
    <3> QED
      BY <2>4, <3>1, <3>2
  <2>7. FramesEnd(s) => i + 1 + v <= Len(t)
    BY <1>1, <2>4, <2>5
  <2>8. i < Len(t)
    BY <1>1, <2>2
  <2> QED
    BY <2>4, <2>6, <2>7, <2>8 DEF v
<1> QED
  BY <1>2 DEF Framed, FramesEnd

\* A frame that follows where the last one ends keeps the stream framed.
LEMMA AppendKeepsFrames ==
  ASSUME NEW s \in Seq(Cells), NEW t \in Seq(Cells), Framed(s), FramesEnd(s),
         Framed(t), FramesEnd(t), t # <<>>, t[1].part = "id"
  PROVE  Framed(s \o t) /\ FramesEnd(s \o t)
<1> DEFINE u == s \o t
<1>1. /\ u \in Seq(Cells)
      /\ Len(s) \in Nat /\ Len(t) \in Nat /\ Len(t) > 0
      /\ Len(u) = Len(s) + Len(t)
      /\ \A i \in 1..(Len(s) + Len(t)) : u[i] = IF i <= Len(s) THEN s[i] ELSE t[i - Len(s)]
  BY ConcatProperties, LenProperties, EmptySeq
<1>2. /\ \A i \in 1..Len(s) : s[i].val \in Nat
      /\ \A i \in 1..Len(t) : t[i].val \in Nat
  BY Values
<1> HIDE DEF u
<1>3. ASSUME NEW i \in 1..Len(u), u[i].part = "id"
      PROVE  /\ i < Len(u) /\ u[i + 1].part = "len" /\ u[i + 1].val > 0
             /\ i + 2 + u[i + 1].val <= Len(u) => u[i + 2 + u[i + 1].val].part = "id"
             /\ i + 1 + u[i + 1].val <= Len(u)
  <2>1. CASE i <= Len(s)
    <3>1. s[i].part = "id" /\ i \in 1..Len(s)
      BY <1>1, <1>3, <2>1
    <3>2. /\ i < Len(s) /\ s[i + 1].part = "len" /\ s[i + 1].val > 0
          /\ i + 2 + s[i + 1].val <= Len(s) => s[i + 2 + s[i + 1].val].part = "id"
          /\ i + 1 + s[i + 1].val <= Len(s)
      BY <3>1 DEF Framed, FramesEnd
    <3>3. i + 1 \in 1..Len(s) /\ u[i + 1] = s[i + 1] /\ s[i + 1].val \in Nat
      BY <1>1, <1>2, <3>1, <3>2
    <3> DEFINE v == s[i + 1].val
    <3>4. v \in Nat /\ v > 0 /\ i + 1 + v <= Len(s) /\ u[i + 1].val = v
      BY <3>2, <3>3
    <3>5. i + 2 + v <= Len(s) => s[i + 2 + v].part = "id"
      BY <3>2
    <3>6. u[i + 1].part = "len"
      BY <3>2, <3>3
    <3> HIDE DEF v
    <3>7. u[i + 2 + v].part = "id"
      <4>1. CASE i + 2 + v <= Len(s)
        <5>1. u[i + 2 + v] = s[i + 2 + v]
          BY <1>1, <3>1, <3>4, <4>1
        <5> QED
          BY <3>5, <4>1, <5>1
      <4>2. CASE i + 2 + v = Len(s) + 1
        <5>1. u[i + 2 + v] = t[1]
          BY <1>1, <4>2
        <5> QED
          BY <5>1
      <4> QED
        BY <1>1, <3>1, <3>4, <4>1, <4>2
    <3>8. i < Len(u) /\ i + 1 + v <= Len(u)
      BY <1>1, <3>1, <3>3, <3>4
    <3> QED
      BY <3>4, <3>6, <3>7, <3>8
  <2>2. CASE i > Len(s)
    <3> DEFINE j == i - Len(s)
    <3>1. t[j].part = "id" /\ j \in 1..Len(t)
      BY <1>1, <1>3, <2>2
    <3>2. /\ j < Len(t) /\ t[j + 1].part = "len" /\ t[j + 1].val > 0
          /\ j + 2 + t[j + 1].val <= Len(t) => t[j + 2 + t[j + 1].val].part = "id"
          /\ j + 1 + t[j + 1].val <= Len(t)
      BY <3>1 DEF Framed, FramesEnd
    <3>3. j + 1 \in 1..Len(t) /\ t[j + 1].val \in Nat
      <4> HIDE DEF j
      <4>1. j + 1 \in 1..Len(t)
        BY <1>1, <3>1, <3>2
      <4> QED
        BY <1>2, <4>1
    <3>4. u[i + 1] = t[j + 1]
      <4>1. i + 1 \in 1..(Len(s) + Len(t)) /\ i + 1 > Len(s) /\ (i + 1) - Len(s) = j + 1
        BY <1>1, <2>2, <3>3
      <4> QED
        BY <1>1, <4>1
    <3> DEFINE v == t[j + 1].val
    <3>5. v \in Nat /\ v > 0 /\ j + 1 + v <= Len(t) /\ u[i + 1].val = v
      BY <3>2, <3>3, <3>4
    <3>6. j + 2 + v <= Len(t) => t[j + 2 + v].part = "id"
      BY <3>2
    <3>7. u[i + 1].part = "len"
      BY <3>2, <3>4
    <3> HIDE DEF v
    <3>8. ASSUME i + 2 + v <= Len(u)
          PROVE  u[i + 2 + v].part = "id"
      <4>1. /\ i + 2 + v \in 1..(Len(s) + Len(t)) /\ i + 2 + v > Len(s)
            /\ (i + 2 + v) - Len(s) = j + 2 + v /\ j + 2 + v <= Len(t)
        BY <1>1, <2>2, <3>5, <3>8
      <4>2. u[i + 2 + v] = t[j + 2 + v]
        BY <1>1, <4>1
      <4> QED
        BY <3>6, <4>1, <4>2
    <3>9. i < Len(u) /\ i + 1 + v <= Len(u)
      BY <1>1, <2>2, <3>3, <3>5
    <3> QED
      BY <3>5, <3>7, <3>8, <3>9
  <2> QED
    BY <1>1, <2>1, <2>2
<1>4. Framed(u) /\ FramesEnd(u)
  BY <1>3 DEF Framed, FramesEnd
<1> QED
  BY <1>4 DEF u

\* A connection that breaks leaves the frames whose beginning has arrived.
LEMMA BreakKeepsFrames ==
  ASSUME NEW s \in Seq(Cells), NEW t \in Seq(Cells), Framed(s \o t),
         s # <<>> => s[Len(s)].part # "id"
  PROVE  Framed(s)
<1> DEFINE u == s \o t
<1>1. /\ Len(s) \in Nat /\ Len(t) \in Nat
      /\ Len(u) = Len(s) + Len(t)
      /\ \A i \in 1..Len(s) : u[i] = s[i] /\ s[i].val \in Nat
      /\ Len(s) # 0 => s # <<>>
  <2>1. \A i \in 1..Len(s) : s[i].val \in Nat
    BY Values
  <2> QED
    BY <2>1, ConcatProperties, LenProperties
<1>2. Framed(u)
  OBVIOUS
<1> HIDE DEF u
<1>3. ASSUME NEW i \in 1..Len(s), s[i].part = "id"
      PROVE  /\ i < Len(s) /\ s[i + 1].part = "len" /\ s[i + 1].val > 0
             /\ i + 2 + s[i + 1].val <= Len(s) => s[i + 2 + s[i + 1].val].part = "id"
  <2>1. i < Len(s) /\ i + 1 \in 1..Len(s)
    BY <1>1, <1>3
  <2>2. i \in 1..Len(u) /\ u[i] = s[i] /\ u[i + 1] = s[i + 1] /\ s[i + 1].val \in Nat
    BY <1>1, <2>1
  <2>3. /\ u[i + 1].part = "len" /\ u[i + 1].val > 0
        /\ i + 2 + u[i + 1].val <= Len(u) => u[i + 2 + u[i + 1].val].part = "id"
    BY <1>2, <1>3, <2>2 DEF Framed
  <2>4. ASSUME i + 2 + s[i + 1].val <= Len(s)
        PROVE  s[i + 2 + s[i + 1].val].part = "id"
    <3> DEFINE k == i + 2 + s[i + 1].val
    <3>1. k \in 1..Len(s) /\ k <= Len(u)
      BY <1>1, <2>2, <2>4
    <3> QED
      BY <1>1, <2>2, <2>3, <3>1
  <2> QED
    BY <2>1, <2>2, <2>3, <2>4
<1> QED
  BY <1>3 DEF Framed

\* What the server answers is one frame, all of it of one response.
LEMMA ResponseIsFrame ==
  ASSUME NEW r \in FramesSent, NEW len \in ResponseLens, NEW exception \in 0..1
  PROVE  /\ ResponseTo(r, len, exception) \in Seq(Cells)
         /\ Len(ResponseTo(r, len, exception)) = len + 2
         /\ ResponseTo(r, len, exception)[1].part = "id"
         /\ ResponseTo(r, len, exception)[1].val = r.id
         /\ ResponseTo(r, len, exception)[2].val = len
         /\ \A i \in 1..(len + 2) : ResponseTo(r, len, exception)[i].own = r.own
         /\ \A i \in 2..(len + 2) : ResponseTo(r, len, exception)[i].part # "id"
         /\ Framed(ResponseTo(r, len, exception)) /\ FramesEnd(ResponseTo(r, len, exception))
<1> DEFINE s == ResponseTo(r, len, exception)
<1>1. len \in Nat /\ len > 0
  BY ModbusPortTCPAssumption
<1> DEFINE front == <<Cell(r, "id", r.id), Cell(r, "len", len), Cell(r, "head", exception)>>
           back == [i \in 1..(len - 1) |-> Cell(r, "data", 0)]
<1>2. front \in Seq(Cells) /\ Len(front) = 3
  BY <1>1 DEF Cell, Cells, FramesSent
<1>3. /\ back \in Seq(Cells) /\ Len(back) = len - 1
      /\ \A i \in 1..(len - 1) : back[i].part = "data" /\ back[i].own = r.own
  <2>1. /\ Cell(r, "data", 0) \in Cells
        /\ Cell(r, "data", 0).part = "data" /\ Cell(r, "data", 0).own = r.own
    BY DEF Cell, Cells, FramesSent
  <2>2. back \in [1..(len - 1) -> Cells]
    BY <2>1
  <2>3. len - 1 \in Nat
    BY <1>1
  <2> HIDE DEF back
  <2>4. back \in Seq(Cells) /\ Len(back) = len - 1
    BY <2>2, <2>3
  <2> QED
    BY <2>1, <2>4 DEF back
<1>4. /\ front[1].part = "id" /\ front[2].part = "len" /\ front[2].val = len
      /\ front[3].part = "head"
      /\ front[1].val = r.id /\ front[1].own = r.own /\ front[2].own = r.own /\ front[3].own = r.own
  BY DEF Cell
<1> HIDE DEF front, back
<1>5. s = front \o back
  BY DEF ResponseTo, front, back
<1> HIDE DEF s
<1>6. /\ s \in Seq(Cells) /\ Len(s) = len + 2
      /\ \A i \in 1..(len + 2) : s[i] = IF i <= 3 THEN front[i] ELSE back[i - 3]
  <2>1. front \in Seq(Cells) /\ back \in Seq(Cells)
    BY <1>2, <1>3
  <2>2. /\ front \o back \in Seq(Cells)
        /\ Len(front \o back) = Len(front) + Len(back)
        /\ \A i \in 1..(Len(front) + Len(back)) :
              (front \o back)[i] = IF i <= Len(front) THEN front[i] ELSE back[i - Len(front)]
    BY <2>1, ConcatProperties
  <2>3. Len(front) + Len(back) = len + 2
    BY <1>1, <1>2, <1>3
  <2> QED
    BY <1>2, <1>5, <2>2, <2>3
<1>7. s[1].part = "id" /\ s[1].val = r.id /\ s[2].part = "len" /\ s[2].val = len
  BY <1>1, <1>4, <1>6
<1>8. \A i \in 1..(len + 2) : s[i].own = r.own /\ (s[i].part = "id" => i = 1)
  <2> TAKE i \in 1..(len + 2)
  <2>1. CASE i <= 3
    BY <1>1, <1>4, <1>6, <2>1
  <2>2. CASE i > 3
    <3>1. i - 3 \in 1..(len - 1) /\ s[i] = back[i - 3]
      BY <1>1, <1>6, <2>2
    <3> QED
      BY <1>3, <2>2, <3>1
  <2> QED
    BY <1>1, <2>1, <2>2
<1>9. Framed(s) /\ FramesEnd(s)
  BY <1>1, <1>6, <1>7, <1>8 DEF Framed, FramesEnd
<1>10. /\ s \in Seq(Cells) /\ Len(s) = len + 2
       /\ s[1].part = "id" /\ s[1].val = r.id /\ s[2].val = len
       /\ \A i \in 1..(len + 2) : s[i].own = r.own
       /\ \A i \in 2..(len + 2) : s[i].part # "id"
  BY <1>1, <1>6, <1>7, <1>8
<1> QED
  BY <1>9, <1>10 DEF s

-----------------------------------------------------------------------------
(* One call of read()                                                      *)

\* What read() still wants of the frame, and how much of it it gets.
Needed == IF First THEN Wanted ELSE packetSz - Len(got)
Count == Least(Needed, Len(arrived))

\* What it gets goes behind what has been got of the frame before.
GetsFromFront ==
    /\ got'[1] = IF First THEN arrived[1] ELSE got[1]
    /\ \A j \in 1..Len(got') :
         \/ ~First /\ j \in 1..Len(got) /\ got'[j] = got[j]
         \/ \E k \in 1..Count : got'[j] = arrived[k]

\* The end of a sequence.
LEMMA Ending ==
  ASSUME NEW s \in Seq(Cells), NEW n \in 0..Len(s)
  PROVE  SubSeq(s, n + 1, Len(s)) \in Seq(Cells) /\ Shifted(SubSeq(s, n + 1, Len(s)), s, n)
<1> DEFINE t == SubSeq(s, n + 1, Len(s))
<1>1. t \in Seq(Cells)
  OBVIOUS
<1>2. Len(t) = Len(s) - n
  OBVIOUS
<1>3. \A i \in 1..(Len(s) - n) : t[i] = s[i + n]
  OBVIOUS
<1> QED
  BY <1>1, <1>2, <1>3 DEF Shifted

\* The beginning of a sequence.
LEMMA Beginning ==
  ASSUME NEW s \in Seq(Cells), NEW n \in 0..Len(s)
  PROVE  /\ SubSeq(s, 1, n) \in Seq(Cells) /\ Len(SubSeq(s, 1, n)) = n
         /\ \A i \in 1..n : SubSeq(s, 1, n)[i] = s[i]
OBVIOUS

\* The end of an end.
LEMMA ShiftTwice ==
  ASSUME NEW s \in Seq(Cells), NEW r \in Seq(Cells), NEW t \in Seq(Cells), NEW m, NEW n,
         Shifted(r, s, m), Shifted(t, r, n)
  PROVE  Shifted(t, s, m + n)
<1>1. /\ Len(s) \in Nat /\ Len(r) \in Nat /\ Len(t) \in Nat
      /\ m \in 0..Len(s) /\ Len(r) = Len(s) - m /\ \A i \in 1..Len(r) : r[i] = s[i + m]
      /\ n \in 0..Len(r) /\ Len(t) = Len(r) - n /\ \A i \in 1..Len(t) : t[i] = r[i + n]
  BY LenProperties DEF Shifted
<1>2. ASSUME NEW i \in 1..Len(t)
      PROVE  t[i] = s[i + (m + n)]
  <2>1. t[i] = r[i + n] /\ i + n \in 1..Len(r)
    BY <1>1
  <2>2. r[i + n] = s[(i + n) + m]
    BY <1>1, <2>1
  <2>3. (i + n) + m = i + (m + n)
    BY <1>1
  <2> QED
    BY <2>1, <2>2, <2>3
<1> QED
  BY <1>1, <1>2 DEF Shifted

\* The first read() of a frame gets its "id" and "len".
LEMMA PrefixIsWhole ==
  ASSUME TcpIInv, First, arrived # <<>>
  PROVE  /\ Len(arrived) >= 2
         /\ incoming[1].part = "id"
         /\ arrived[2] = incoming[2]
         /\ incoming[2].val \in Nat /\ incoming[2].val > 0
         /\ Prefix = SubSeq(arrived, 1, 2)
         /\ Wanted = incoming[2].val + 2
<1> DEFINE n == Len(arrived)
<1>1. /\ n \in Nat /\ n > 0 /\ Len(transit) \in Nat
      /\ Len(incoming) = n + Len(transit)
      /\ \A i \in 1..n : incoming[i] = arrived[i]
  BY ConcatProperties, LenProperties, EmptySeq DEF TcpIInv, incoming
<1>2. incoming \in Seq(Cells) /\ arrived \in Seq(Cells)
  BY ConcatProperties DEF TcpIInv, incoming
<1>3. 1 <= Len(incoming) => incoming[1].part = "id"
  BY DEF TcpIInv, StreamIsFramed, nextFrame
<1>4. arrived[n].part # "id"
  BY DEF TcpIInv, StreamIsFramed
<1> HIDE DEF n
<1>5. incoming[1].part = "id" /\ 1 \in 1..Len(incoming) /\ incoming[1] = arrived[1]
  BY <1>1, <1>3
<1>6. n # 1
  BY <1>4, <1>5
<1>7. n >= 2 /\ 2 \in 1..n /\ 2 \in 1..Len(incoming)
  BY <1>1, <1>6
<1>8. arrived[2] = incoming[2]
  BY <1>1, <1>7
<1>9. incoming[2].val \in Nat /\ incoming[2].val > 0
  <2>1. incoming[1 + 1].val > 0
    BY <1>5 DEF TcpIInv, StreamIsFramed, Framed
  <2>2. incoming[2].val \in Nat
    BY <1>2, <1>7, Values
  <2> QED
    BY <2>1, <2>2
<1>10. Least(PrefixSz, n) = 2
  BY <1>1, <1>7 DEF Least, PrefixSz
<1>11. Prefix = SubSeq(arrived, 1, 2)
  BY <1>10 DEF Prefix, n
<1>12. Len(Prefix) = 2 /\ Prefix[2] = arrived[2]
  <2>1. 2 \in 0..Len(arrived)
    BY <1>1, <1>7 DEF n
  <2> QED
    BY <1>2, <1>11, <2>1, Beginning
<1>13. Wanted = incoming[2].val + 2
  BY <1>8, <1>12 DEF Wanted, LenField, PrefixSz
<1> QED
  BY <1>5, <1>7, <1>8, <1>9, <1>11, <1>13 DEF n

\* read() never asks for a negative number of bytes, takes them from the
\* front and knows when the frame is whole.
LEMMA TakesCount ==
  ASSUME TcpIInv, TakeBytes
  PROVE  /\ Needed \in Nat /\ Needed > 0
         /\ Count \in 1..Len(arrived) /\ Count <= Needed
         /\ got' \in Seq(Cells) /\ got' # <<>> /\ packetSz' \in Nat
         /\ packetSz' - Len(got') = Needed - Count
         /\ arrived' \in Seq(Cells) /\ Shifted(arrived', arrived, Count)
         /\ Complete <=> Count = Needed
         /\ ~Complete => Count = Len(arrived)
         /\ GetsFromFront
<1> DEFINE n == Len(arrived)
           front == SubSeq(Rest, 1, Taken)
           rest == SubSeq(Rest, Taken + 1, Len(Rest))
<1>1. /\ arrived \in Seq(Cells) /\ got \in Seq(Cells) /\ packetSz \in Nat
      /\ n \in Nat /\ n > 0 /\ Len(got) \in Nat
  BY LenProperties, EmptySeq DEF TcpIInv, TakeBytes
<1>2. got' = Begun \o front /\ packetSz' = Wanted /\ arrived' = rest
  BY DEF TakeBytes
<1>3. CASE First
  <2> DEFINE v == incoming[2].val
  <2>1. /\ n >= 2 /\ v \in Nat /\ v > 0
        /\ Prefix = SubSeq(arrived, 1, 2) /\ Wanted = v + 2
    BY <1>3, PrefixIsWhole DEF TakeBytes
  <2>2. 2 \in 0..Len(arrived)
    BY <1>1, <2>1
  <2> HIDE DEF v
  <2>3. Begun = Prefix /\ Begun \in Seq(Cells) /\ Len(Begun) = 2
    BY <1>1, <1>3, <2>1, <2>2, Beginning DEF Begun
  <2>4. Rest = SubSeq(arrived, 2 + 1, Len(arrived))
    BY <1>3, <2>3 DEF Rest
  <2>5. Rest \in Seq(Cells) /\ Shifted(Rest, arrived, 2)
    BY <1>1, <2>2, <2>4, Ending
  <2>6. Len(Rest) = n - 2
    BY <2>5 DEF Shifted
  <2>7. Taken = Least(v, n - 2)
    <3>1. Wanted - Len(Begun) = v
      BY <2>1, <2>3
    <3> QED
      BY <2>6, <3>1 DEF Taken
  <2>8. Complete <=> (Rest # <<>> /\ 2 + Taken >= v + 2)
    BY <2>1, <2>3 DEF Complete
  <2>9. Rest # <<>> <=> n - 2 # 0
    BY <2>5, <2>6, EmptySeq
  <2>10. Needed = v + 2 /\ Count = Least(v + 2, n)
    BY <1>3, <2>1 DEF Needed, Count
  <2> HIDE DEF n
  <2>11. /\ Taken \in Nat /\ Taken <= n - 2 /\ Taken <= v /\ Count = 2 + Taken
         /\ Taken # v => Taken = n - 2
    BY <1>1, <2>1, <2>7, <2>10 DEF Least
  <2>12. Complete <=> Taken = v
    BY <1>1, <2>1, <2>8, <2>9, <2>11
  <2>13. Taken \in 0..Len(Rest)
    BY <1>1, <2>1, <2>6, <2>11
  <2>14. /\ front \in Seq(Cells) /\ Len(front) = Taken
         /\ \A i \in 1..Taken : front[i] = Rest[i]
    BY <2>5, <2>13, Beginning
  <2>15. rest \in Seq(Cells) /\ Shifted(rest, arrived, 2 + Taken)
    BY <1>1, <2>5, <2>13, Ending, ShiftTwice
  <2> HIDE DEF front, rest
  <2>16. /\ got' \in Seq(Cells) /\ Len(got') = 2 + Taken
         /\ \A i \in 1..(2 + Taken) : got'[i] = IF i <= 2 THEN Begun[i] ELSE front[i - 2]
    <3>1. Begun \in Seq(Cells) /\ front \in Seq(Cells)
      BY <2>3, <2>14
    <3>2. /\ Begun \o front \in Seq(Cells) /\ Len(Begun \o front) = Len(Begun) + Len(front)
          /\ \A i \in 1..(Len(Begun) + Len(front)) :
               (Begun \o front)[i] = IF i <= Len(Begun) THEN Begun[i] ELSE front[i - Len(Begun)]
      BY <3>1, ConcatProperties
    <3> QED
      BY <1>2, <2>3, <2>14, <3>2
  <2>17. got' # <<>>
    BY <2>11, <2>16, EmptySeq
  <2>18. Count \in 1..n /\ Count <= Needed /\ Needed - Count = v - Taken
    BY <1>1, <2>1, <2>10, <2>11
  <2>19. packetSz' - Len(got') = v - Taken
    BY <1>2, <2>1, <2>11, <2>16
  <2>20. \A i \in 1..2 : Begun[i] = arrived[i]
    BY <1>1, <2>1, <2>2, <2>3, Beginning
  <2>21. \A i \in 1..Len(got') : got'[i] = arrived[i]
    <3> TAKE i \in 1..Len(got')
    <3>1. CASE i <= 2
      BY <2>11, <2>16, <2>20, <3>1
    <3>2. CASE i > 2
      <4>1. i - 2 \in 1..Taken /\ (i - 2) + 2 = i /\ ~(i <= 2)
        BY <2>11, <2>16, <3>2
      <4>2. Rest[i - 2] = arrived[(i - 2) + 2]
        BY <2>5, <2>6, <2>11, <4>1 DEF Shifted
      <4> QED
        BY <2>14, <2>16, <4>1, <4>2
    <3> QED
      BY <2>11, <2>16, <3>1, <3>2
  <2>22. GetsFromFront
    <3>1. 1 \in 1..Len(got') /\ Len(got') = Count
      BY <2>11, <2>16
    <3> QED
      BY <1>3, <2>21, <3>1 DEF GetsFromFront
  <2> QED
    BY <1>1, <1>2, <2>1, <2>10, <2>11, <2>12, <2>15, <2>16, <2>17, <2>18, <2>19, <2>22 DEF n
<1>4. CASE ~First
  <2>1. got # <<>> /\ packetSz > Len(got) /\ Len(got) > 0
    BY <1>1, <1>4, EmptySeq DEF TcpIInv, TcpTypeOK, First
  <2>2. Begun = got /\ Rest = arrived /\ Wanted = packetSz
    BY <1>4 DEF Begun, Rest, Wanted
  <2>3. Taken = Count /\ Needed = packetSz - Len(got) /\ Count = Least(Needed, n)
    BY <1>4, <2>2 DEF Taken, Count, Needed
  <2>4. Complete <=> (arrived # <<>> /\ Len(got) + Count >= packetSz)
    BY <2>2, <2>3 DEF Complete
  <2>5. arrived # <<>>
    BY DEF TakeBytes
  <2> HIDE DEF n
  <2>6. /\ Needed \in Nat /\ Needed > 0
        /\ Count \in 1..n /\ Count <= Needed
        /\ Count # Needed => Count = n
    BY <1>1, <2>1, <2>3 DEF Least
  <2>7. Complete <=> Count = Needed
    BY <1>1, <2>1, <2>3, <2>4, <2>5, <2>6
  <2>8. Taken \in 0..Len(Rest)
    BY <2>2, <2>3, <2>6 DEF n
  <2>9. /\ front \in Seq(Cells) /\ Len(front) = Count
        /\ \A i \in 1..Count : front[i] = arrived[i]
    BY <1>1, <2>2, <2>3, <2>8, Beginning
  <2>10. rest \in Seq(Cells) /\ Shifted(rest, arrived, Count)
    BY <1>1, <2>2, <2>3, <2>8, Ending
  <2> HIDE DEF front, rest
  <2>11. /\ got' \in Seq(Cells) /\ Len(got') = Len(got) + Count
         /\ \A i \in 1..(Len(got) + Count) :
              got'[i] = IF i <= Len(got) THEN got[i] ELSE front[i - Len(got)]
    <3>1. got \in Seq(Cells) /\ front \in Seq(Cells)
      BY <1>1, <2>9
    <3>2. /\ got \o front \in Seq(Cells) /\ Len(got \o front) = Len(got) + Len(front)
          /\ \A i \in 1..(Len(got) + Len(front)) :
               (got \o front)[i] = IF i <= Len(got) THEN got[i] ELSE front[i - Len(got)]
      BY <3>1, ConcatProperties
    <3> QED
      BY <1>2, <2>2, <2>9, <3>2
  <2>12. got' # <<>>
    BY <1>1, <2>6, <2>11, EmptySeq
  <2>13. packetSz' - Len(got') = Needed - Count
    <3>1. packetSz' = packetSz /\ Len(got') = Len(got) + Count /\ Needed = packetSz - Len(got)
      BY <1>2, <2>2, <2>3, <2>11
    <3>2. Count \in Nat
      BY <1>1, <2>6
    <3> DEFINE g == Len(got)
               h == Len(got')
    <3>3. g \in Nat /\ h = g + Count /\ packetSz' = packetSz /\ Needed = packetSz - g
      BY <1>1, <3>1
    <3> HIDE DEF g, h
    <3>4. packetSz' - h = Needed - Count
      BY <1>1, <3>2, <3>3
    <3> QED
      BY <3>4 DEF h
  <2>14. GetsFromFront
    <3>1. ASSUME NEW j \in 1..Len(got')
          PROVE  \/ j \in 1..Len(got) /\ got'[j] = got[j]
                 \/ \E k \in 1..Count : got'[j] = arrived[k]
      <4>1. CASE j <= Len(got)
        BY <1>1, <2>6, <2>11, <4>1
      <4>2. CASE j > Len(got)
        <5>1. j - Len(got) \in 1..Count /\ ~(j <= Len(got))
          BY <1>1, <2>6, <2>11, <4>2
        <5> QED
          BY <2>9, <2>11, <5>1
      <4> QED
        BY <1>1, <4>1, <4>2
    <3>2. got'[1] = got[1]
      BY <1>1, <2>1, <2>6, <2>11
    <3> QED
      BY <1>4, <3>1, <3>2 DEF GetsFromFront
  <2> QED
    BY <1>1, <1>2, <2>2, <2>6, <2>7, <2>10, <2>11, <2>12, <2>13, <2>14 DEF n
<1> QED
  BY <1>3, <1>4

-----------------------------------------------------------------------------
(* What the steps do to the stream                                         *)

DataOK ==
    /\ got \in Seq(Cells) /\ arrived \in Seq(Cells) /\ transit \in Seq(Cells)
    /\ packetSz \in Nat /\ extra \in Nat
    /\ pending \in Seq(FramesSent) /\ answered \in FramesSent

Lines == DataOK /\ StreamIsFramed /\ OneAtATime

LEMMA NoFrameIsFrame == NoFrame \in FramesSent
BY ModbusPortTCPAssumption DEF NoFrame, FramesSent

\* The connection is given up or new.
LEMMA Emptied ==
  ASSUME DataOK, arrived' = <<>>, transit' = <<>>, pending' = <<>>,
         answered' \in FramesSent, extra' \in Nat, UNCHANGED <<got, packetSz>>, First'
  PROVE  Lines'
<1>1. incoming' = <<>> /\ <<>> \in Seq(Cells) /\ <<>> \in Seq(FramesSent)
  BY EmptySeq DEF incoming
<1>2. DataOK'
  BY <1>1 DEF DataOK
<1>3. Len(incoming') = 0 /\ nextFrame' = 1
  BY <1>1, EmptySeq DEF nextFrame
<1>4. StreamIsFramed'
  BY <1>1, <1>3 DEF StreamIsFramed, Framed, FramesEnd
<1>5. OneAtATime'
  <2>1. (~First)' = FALSE
    OBVIOUS
  <2> QED
    BY <1>1, <2>1 DEF OneAtATime
<1> QED
  BY <1>2, <1>4, <1>5 DEF Lines

\* Nothing arrives, nothing is read.
LEMMA Untouched ==
  ASSUME Lines, UNCHANGED <<got, packetSz, arrived, transit, pending, answered, sock, extra>>,
         First' = First, state' # "BEGIN_READ" => state # "BEGIN_READ"
  PROVE  Lines'
<1>1. UNCHANGED <<incoming, nextFrame>>
  BY DEF incoming, nextFrame
<1>2. DataOK' /\ StreamIsFramed'
  BY <1>1 DEF Lines, DataOK, StreamIsFramed, Framed, FramesEnd
<1>3. OneAtATime'
  BY <1>1 DEF Lines, OneAtATime
<1> QED
  BY <1>2, <1>3 DEF Lines

\* The server sends a response.
LEMMA Responds ==
  ASSUME TcpIInv,
         NEW r \in FramesSent, NEW len \in ResponseLens, NEW exception \in 0..1,
         sock = "connected",
         transit' = transit \o ResponseTo(r, len, exception),
         UNCHANGED <<state, tcp, sock, got, packetSz, arrived>>,
         answered' \in FramesSent,
         \/ extra' = extra + 1 /\ pending' = pending
         \/ extra' = extra /\ pending # <<>> /\ pending' = Tail(pending)
  PROVE  Lines'
<1> DEFINE s == ResponseTo(r, len, exception)
<1>1. /\ s \in Seq(Cells) /\ Len(s) = len + 2
      /\ s[1].part = "id" /\ s[2].val = len
      /\ Framed(s) /\ FramesEnd(s)
  <2>1. s \in Seq(Cells) /\ Len(s) = len + 2
    BY ResponseIsFrame
  <2>2. s[1].part = "id" /\ s[2].val = len
    BY ResponseIsFrame
  <2>3. Framed(s) /\ FramesEnd(s)
    BY ResponseIsFrame
  <2> QED
    BY <2>1, <2>2, <2>3
<1>2. len \in Nat /\ len > 0
  BY ModbusPortTCPAssumption
<1> HIDE DEF s
<1>3. /\ arrived \in Seq(Cells) /\ transit \in Seq(Cells) /\ incoming \in Seq(Cells)
  BY ConcatProperties DEF TcpIInv, incoming
<1>4. transit' = transit \o s /\ transit' \in Seq(Cells)
  BY <1>1, <1>3, ConcatProperties DEF s
<1>5. incoming' = incoming \o s
  <2>1. arrived \o (transit \o s) = (arrived \o transit) \o s
    <3>1. arrived \in Seq(Cells) /\ transit \in Seq(Cells) /\ s \in Seq(Cells)
      BY <1>1, <1>3
    <3> QED
      BY <3>1, Assoc, Zenon
  <2> QED
    BY <1>4, <2>1 DEF incoming
<1> DEFINE n == Len(incoming)
<1>6. /\ n \in Nat /\ incoming' \in Seq(Cells)
      /\ Len(incoming') = n + len + 2
      /\ \A i \in 1..n : incoming'[i] = incoming[i]
      /\ \A i \in 1..(len + 2) : incoming'[n + i] = s[i]
  <2> DEFINE u == incoming \o s
  <2>1. /\ Len(u) = Len(incoming) + Len(s)
        /\ \A i \in 1..(Len(incoming) + Len(s)) :
             u[i] = IF i <= Len(incoming) THEN incoming[i] ELSE s[i - Len(incoming)]
        /\ u \in Seq(Cells) /\ n \in Nat
    BY <1>1, <1>3, ConcatProperties, LenProperties
  <2> HIDE DEF u
  <2>2. \A i \in 1..n : u[i] = incoming[i]
    BY <1>1, <1>2, <2>1
  <2>3. \A i \in 1..(len + 2) : u[n + i] = s[i]
    <3> TAKE i \in 1..(len + 2)
    <3>1. n + i \in 1..(Len(incoming) + Len(s)) /\ ~(n + i <= n) /\ (n + i) - n = i
      BY <1>1, <1>2, <2>1
    <3> QED
      BY <2>1, <3>1
  <2> QED
    BY <1>1, <1>2, <1>5, <2>1, <2>2, <2>3 DEF u
<1>7. Framed(incoming) /\ FramesEnd(incoming)
  BY DEF TcpIInv, StreamIsFramed
<1>8. s # <<>>
  BY <1>1, <1>2, EmptySeq
<1>9. Framed(incoming') /\ FramesEnd(incoming')
  BY <1>1, <1>3, <1>5, <1>7, <1>8, AppendKeepsFrames
<1>10. nextFrame' = nextFrame /\ nextFrame \in Int /\ nextFrame >= 1
  <2>1. nextFrame' = nextFrame
    BY DEF nextFrame, First
  <2>2. Len(got) \in Nat /\ packetSz \in Nat /\ (~First => packetSz > Len(got))
    BY LenProperties DEF TcpIInv, TcpTypeOK, First
  <2> QED
    BY <2>1, <2>2 DEF nextFrame
<1>11. nextFrame <= n + 1 /\ (nextFrame <= n => incoming[nextFrame].part = "id")
  BY DEF TcpIInv, StreamIsFramed
<1> HIDE DEF n
<1>12. incoming'[nextFrame'].part = "id"
  <2>1. CASE nextFrame <= n
    <3>1. nextFrame \in 1..n
      BY <1>6, <1>10, <2>1
    <3> QED
      BY <1>6, <1>10, <1>11, <2>1, <3>1
  <2>2. CASE nextFrame = n + 1
    <3>1. 1 \in 1..(len + 2)
      BY <1>2
    <3> QED
      BY <1>1, <1>6, <1>10, <2>2, <3>1
  <2> QED
    BY <1>6, <1>10, <1>11, <2>1, <2>2
<1>13. StreamIsFramed'
  <2>1. nextFrame' <= Len(incoming') + 1
    BY <1>2, <1>6, <1>10, <1>11
  <2>2. arrived' # <<>> => arrived'[Len(arrived')].part # "id"
    BY DEF TcpIInv, StreamIsFramed
  <2> QED
    BY <1>9, <1>12, <2>1, <2>2 DEF StreamIsFramed
<1>14. DataOK'
  <2>1. pending' \in Seq(FramesSent)
    BY HeadTailProperties DEF TcpIInv
  <2> QED
    BY <1>4, <2>1 DEF TcpIInv, DataOK
<1>15. OneAtATime'
  <2>1. SUFFICES ASSUME extra' = 0 PROVE OneAtATime'
    BY DEF OneAtATime
  <2>2. /\ extra = 0 /\ pending # <<>> /\ pending' = Tail(pending)
    BY <2>1 DEF TcpIInv
  <2>3. Len(pending) = 1 /\ incoming = <<>> /\ First /\ state = "BEGIN_READ"
    BY <2>2 DEF TcpIInv, OneAtATime
  <2>4. pending' = <<>>
    <3>1. Tail(pending) \in Seq(FramesSent) /\ Len(Tail(pending)) = 0
      BY <2>2, <2>3, HeadTailProperties DEF TcpIInv
    <3> QED
      BY <2>2, <3>1, EmptySeq
  <2>5. n = 0
    BY <2>3, EmptySeq DEF n
  <2>6. incoming'[2] = s[2] /\ Len(incoming') = len + 2
    <3>1. 2 \in 1..(len + 2)
      BY <1>2
    <3> QED
      BY <1>2, <1>6, <2>5, <3>1
  <2>7. First' /\ state' = "BEGIN_READ"
    BY <2>3 DEF First
  <2> QED
    BY <1>1, <1>2, <2>4, <2>6, <2>7 DEF OneAtATime
<1> QED
  BY <1>13, <1>14, <1>15 DEF Lines

\* Cells taken from what has arrived are taken from all that is coming.
LEMMA ShiftBeforeMore ==
  ASSUME NEW s \in Seq(Cells), NEW t \in Seq(Cells), NEW u \in Seq(Cells), NEW n, Shifted(t, s, n)
  PROVE  Shifted(t \o u, s \o u, n)
<1> DEFINE a == t \o u
           b == s \o u
<1>1. /\ Len(s) \in Nat /\ Len(t) \in Nat /\ Len(u) \in Nat
      /\ n \in 0..Len(s) /\ Len(t) = Len(s) - n
      /\ \A i \in 1..Len(t) : t[i] = s[i + n]
  BY LenProperties DEF Shifted
<1>2. /\ Len(a) = Len(t) + Len(u)
      /\ \A i \in 1..(Len(t) + Len(u)) : a[i] = IF i <= Len(t) THEN t[i] ELSE u[i - Len(t)]
  BY ConcatProperties
<1>3. /\ Len(b) = Len(s) + Len(u)
      /\ \A i \in 1..(Len(s) + Len(u)) : b[i] = IF i <= Len(s) THEN s[i] ELSE u[i - Len(s)]
  BY ConcatProperties
<1> HIDE DEF a, b
<1>4. ASSUME NEW i \in 1..Len(a)
      PROVE  a[i] = b[i + n]
  <2>1. i + n \in 1..(Len(s) + Len(u))
    BY <1>1, <1>2
  <2>2. CASE i <= Len(t)
    <3>1. a[i] = t[i] /\ t[i] = s[i + n] /\ i + n <= Len(s)
      BY <1>1, <1>2, <2>2
    <3> QED
      BY <1>3, <2>1, <3>1
  <2>3. CASE i > Len(t)
    <3>1. a[i] = u[i - Len(t)] /\ ~(i + n <= Len(s)) /\ (i + n) - Len(s) = i - Len(t)
      BY <1>1, <1>2, <2>3
    <3> QED
      BY <1>3, <2>1, <3>1
  <2> QED
    BY <1>1, <1>2, <2>2, <2>3
<1>5. Shifted(a, b, n)
  BY <1>1, <1>2, <1>3, <1>4 DEF Shifted
<1> QED
  BY <1>5 DEF a, b

\* Where the frame being read ends.
LEMMA FrameBeingRead ==
  ASSUME TcpIInv, arrived # <<>>
  PROVE  /\ Needed + 1 <= Len(incoming) => incoming[Needed + 1].part = "id"
         /\ sock = "connected" => Needed <= Len(incoming)
         /\ extra = 0 => Len(incoming) <= Needed /\ pending = <<>>
<1>1. /\ Len(incoming) \in Nat /\ incoming # <<>>
  <2>1. /\ arrived \in Seq(Cells) /\ transit \in Seq(Cells)
        /\ Len(incoming) = Len(arrived) + Len(transit)
        /\ Len(arrived) \in Nat /\ Len(transit) \in Nat /\ Len(arrived) > 0
    BY ConcatProperties, LenProperties, EmptySeq DEF TcpIInv, incoming
  <2>2. Len(incoming) > 0 /\ Len(incoming) \in Nat
    BY <2>1
  <2> QED
    BY <2>2, EmptySeq
<1>2. extra = 0 => pending = <<>>
  BY <1>1 DEF TcpIInv, OneAtATime
<1>3. CASE First
  <2> DEFINE v == incoming[2].val
  <2>1. incoming[1].part = "id" /\ v \in Nat /\ v > 0 /\ Wanted = v + 2
    BY <1>3, PrefixIsWhole
  <2>2. Needed = v + 2
    BY <1>3, <2>1 DEF Needed
  <2>3. 1 \in 1..Len(incoming)
    BY <1>1, EmptySeq DEF TcpIInv, incoming
  <2>4. 1 + 2 + v <= Len(incoming) => incoming[1 + 2 + v].part = "id"
    <3>1. 1 + 2 + incoming[1 + 1].val <= Len(incoming)
              => incoming[1 + 2 + incoming[1 + 1].val].part = "id"
      BY <2>1, <2>3 DEF TcpIInv, StreamIsFramed, Framed
    <3> QED
      BY <3>1
  <2>5. sock = "connected" => 1 + 1 + v <= Len(incoming)
    <3>1. sock = "connected" => 1 + 1 + incoming[1 + 1].val <= Len(incoming)
      BY <2>1, <2>3 DEF TcpIInv, StreamIsFramed, FramesEnd
    <3> QED
      BY <3>1
  <2>6. extra = 0 => Len(incoming) <= v + 2
    BY <1>1, <1>3 DEF TcpIInv, OneAtATime
  <2> HIDE DEF v
  <2>7. 1 + 2 + v = Needed + 1 /\ 1 + 1 + v = Needed
    BY <2>1, <2>2
  <2> QED
    BY <1>2, <2>2, <2>4, <2>5, <2>6, <2>7
<1>4. CASE ~First
  <2>1. /\ Needed = packetSz - Len(got) /\ nextFrame = packetSz - Len(got) + 1
        /\ Needed \in Int
    BY <1>4, LenProperties DEF Needed, nextFrame, TcpIInv
  <2>2. nextFrame = Needed + 1
    BY <2>1
  <2>3. extra = 0 => Len(incoming) <= Needed
    BY <1>4, <2>1 DEF TcpIInv, OneAtATime
  <2>4. sock = "connected" => Needed + 1 <= Len(incoming) + 1
    BY <2>2 DEF TcpIInv, StreamIsFramed
  <2>5. sock = "connected" => Needed <= Len(incoming)
    BY <1>1, <2>1, <2>4
  <2>6. Needed + 1 <= Len(incoming) => incoming[Needed + 1].part = "id"
    BY <2>2 DEF TcpIInv, StreamIsFramed
  <2> QED
    BY <1>2, <2>3, <2>5, <2>6
<1> QED
  BY <1>3, <1>4

\* read() gives the response out when it is whole, and not before.
LEMMA Reading ==
  ASSUME TcpIInv, TakeBytes, extra' = extra, state = "BEGIN_READ",
         \/ Complete /\ tcp' = "BEGIN" /\ state' = "BEGIN_WRITE"
         \/ ~Complete /\ tcp' = "WAIT_FOR_READ_ALL" /\ state' = "BEGIN_READ"
  PROVE  /\ Lines'
         /\ ~First' => got' # <<>> /\ packetSz' > Len(got')
<1> DEFINE n == Count
           m == Needed
           l == Len(incoming)
<1>1. /\ m \in Nat /\ m > 0
      /\ n \in 1..Len(arrived) /\ n <= m
      /\ got' \in Seq(Cells) /\ got' # <<>> /\ packetSz' \in Nat
      /\ packetSz' - Len(got') = m - n
      /\ arrived' \in Seq(Cells) /\ Shifted(arrived', arrived, n)
      /\ Complete <=> n = m
  BY TakesCount
<1>2. /\ m + 1 <= l => incoming[m + 1].part = "id"
      /\ sock = "connected" => m <= l
      /\ extra = 0 => l <= m /\ pending = <<>>
  BY FrameBeingRead DEF TakeBytes
<1>3. /\ arrived \in Seq(Cells) /\ transit \in Seq(Cells) /\ incoming \in Seq(Cells)
      /\ UNCHANGED <<sock, transit, pending, answered>>
      /\ l \in Nat /\ Len(arrived) \in Nat
  BY ConcatProperties, LenProperties DEF TcpIInv, incoming, TakeBytes, server
<1>4. Shifted(incoming', incoming, n)
  BY <1>1, <1>3, ShiftBeforeMore DEF incoming
<1>5. incoming' \in Seq(Cells)
  BY <1>1, <1>3, ConcatProperties DEF incoming
<1> HIDE DEF n, m, l
<1>6. First' <=> Complete
  BY DEF First
<1>7. n \in Nat /\ n > 0
  BY <1>1, <1>3
<1>8. Len(got') \in Nat
  BY <1>1, LenProperties
<1>9. ~First' => packetSz' > Len(got')
  <2>1. ~First' => m - n > 0
    BY <1>1, <1>6, <1>7
  <2> QED
    BY <1>1, <1>7, <1>8, <2>1
<1>10. nextFrame' = (m - n) + 1
  <2>1. CASE Complete
    BY <1>1, <1>6, <1>7, <2>1 DEF nextFrame
  <2>2. CASE ~Complete
    BY <1>1, <1>6, <1>7, <1>8, <2>2 DEF nextFrame
  <2> QED
    BY <2>1, <2>2
<1>11. Len(incoming') = l - n
  BY <1>4 DEF Shifted, l
<1>12. StreamIsFramed'
  <2>1. Framed(incoming') /\ (FramesEnd(incoming) => FramesEnd(incoming'))
    BY <1>3, <1>4, <1>5, ShiftKeepsFrames DEF TcpIInv, StreamIsFramed
  <2>2. arrived' # <<>> => arrived'[Len(arrived')].part # "id"
    <3>1. SUFFICES ASSUME arrived' # <<>> PROVE arrived'[Len(arrived')].part # "id"
      OBVIOUS
    <3>2. Len(arrived') \in Nat /\ Len(arrived') > 0 /\ Len(arrived') = Len(arrived) - n
      BY <1>1, <3>1, EmptySeq DEF Shifted
    <3>3. arrived'[Len(arrived')] = arrived[Len(arrived') + n]
      <4>1. Len(arrived') \in 1..Len(arrived')
        BY <3>2
      <4> QED
        BY <1>1, <4>1 DEF Shifted
    <3>4. Len(arrived') + n = Len(arrived)
      BY <1>3, <1>7, <3>2
    <3> QED
      BY <3>3, <3>4 DEF TcpIInv, StreamIsFramed, TakeBytes
  <2>3. ASSUME nextFrame' <= Len(incoming')
        PROVE  incoming'[nextFrame'].part = "id"
    <3>1. /\ nextFrame' \in 1..Len(incoming') /\ nextFrame' + n = m + 1
          /\ m + 1 <= l
      BY <1>1, <1>3, <1>7, <1>10, <1>11, <2>3
    <3>2. incoming'[nextFrame'] = incoming[nextFrame' + n]
      BY <1>4, <3>1 DEF Shifted
    <3> QED
      BY <1>2, <3>1, <3>2
  <2>4. ASSUME sock' = "connected"
        PROVE  FramesEnd(incoming') /\ nextFrame' <= Len(incoming') + 1
    <3>1. FramesEnd(incoming') /\ m <= l
      BY <1>2, <1>3, <2>1, <2>4 DEF TcpIInv, StreamIsFramed
    <3> QED
      BY <1>1, <1>3, <1>7, <1>10, <1>11, <3>1
  <2> QED
    BY <2>1, <2>2, <2>3, <2>4 DEF StreamIsFramed
<1>13. OneAtATime'
  <2>1. SUFFICES ASSUME extra' = 0 PROVE OneAtATime'
    BY DEF OneAtATime
  <2>2. l <= m /\ pending' = <<>>
    BY <1>2, <1>3, <2>1
  <2>3. CASE Complete
    <3>1. Len(incoming') = 0
      BY <1>1, <1>3, <1>5, <1>7, <1>11, <2>2, <2>3, LenProperties
    <3>2. incoming' = <<>>
      BY <1>5, <3>1, EmptySeq
    <3> QED
      BY <1>6, <2>2, <2>3, <3>2 DEF OneAtATime
  <2>4. CASE ~Complete
    <3>1. Len(incoming') <= packetSz' - Len(got')
      BY <1>1, <1>3, <1>7, <1>11, <2>2
    <3> QED
      BY <1>6, <2>2, <2>4, <3>1 DEF OneAtATime
  <2> QED
    BY <2>3, <2>4
<1>14. DataOK'
  BY <1>1, <1>3 DEF DataOK, TcpIInv
<1> QED
  BY <1>1, <1>9, <1>12, <1>13, <1>14 DEF Lines

\* What was sent before a request is written keeps its order.
LEMMA StaleCells ==
  ASSUME NEW s \in Seq(Cells)
  PROVE  /\ Stale(s) \in Seq(Cells) /\ Len(Stale(s)) = Len(s)
         /\ \A i \in 1..Len(s) : Stale(s)[i].part = s[i].part /\ Stale(s)[i].val = s[i].val
<1> DEFINE t == Stale(s)
<1>1. Len(s) \in Nat /\ \A i \in 1..Len(s) : s[i] \in Cells
  BY LenProperties, ElementOfSeq
<1>2. \A x \in Cells : /\ [x EXCEPT !.own = FALSE] \in Cells
                       /\ [x EXCEPT !.own = FALSE].part = x.part
                       /\ [x EXCEPT !.own = FALSE].val = x.val
  BY DEF Cells
<1>3. DOMAIN t = 1..Len(s) /\ \A i \in 1..Len(s) : t[i] = [s[i] EXCEPT !.own = FALSE]
  BY DEF Stale
<1>4. t = [i \in 1..Len(s) |-> t[i]]
  BY DEF Stale
<1> HIDE DEF t
<1>5. \A i \in 1..Len(s) : t[i] \in Cells /\ t[i].part = s[i].part /\ t[i].val = s[i].val
  BY <1>1, <1>2, <1>3
<1>6. t \in [1..Len(s) -> Cells]
  BY <1>4, <1>5
<1>7. t \in Seq(Cells) /\ Len(t) = Len(s)
  BY <1>1, <1>6
<1> QED
  BY <1>5, <1>7 DEF t

LEMMA StaleFrames ==
  ASSUME NEW s \in Seq(FramesSent)
  PROVE  Stale(s) \in Seq(FramesSent) /\ Len(Stale(s)) = Len(s)
<1> DEFINE t == Stale(s)
<1>1. Len(s) \in Nat /\ \A i \in 1..Len(s) : s[i] \in FramesSent
  BY LenProperties, ElementOfSeq
<1>2. \A x \in FramesSent : [x EXCEPT !.own = FALSE] \in FramesSent
  BY DEF FramesSent
<1>3. \A i \in 1..Len(s) : t[i] = [s[i] EXCEPT !.own = FALSE]
  BY DEF Stale
<1>4. t = [i \in 1..Len(s) |-> t[i]]
  BY DEF Stale
<1> HIDE DEF t
<1>5. t \in [1..Len(s) -> FramesSent]
  BY <1>1, <1>2, <1>3, <1>4
<1>6. t \in Seq(FramesSent) /\ Len(t) = Len(s)
  BY <1>1, <1>5
<1> QED
  BY <1>6 DEF t

\* A request is written when the frames before it have been read, or lie
\* there as they did.
LEMMA Writing ==
  ASSUME TcpIInv, state # "BEGIN_READ", state' = "BEGIN_READ", tcp' = "BEGIN",
         NEW r \in FramesSent, pending' = Append(Stale(pending), r), answered' \in FramesSent,
         arrived' = Stale(arrived), transit' = Stale(transit), got' = <<>>,
         UNCHANGED <<sock, packetSz, extra>>
  PROVE  Lines'
<1>1. /\ arrived \in Seq(Cells) /\ transit \in Seq(Cells) /\ incoming \in Seq(Cells)
      /\ Len(arrived) \in Nat /\ Len(transit) \in Nat
      /\ Len(incoming) = Len(arrived) + Len(transit)
      /\ \A i \in 1..(Len(arrived) + Len(transit)) :
            incoming[i] = IF i <= Len(arrived) THEN arrived[i] ELSE transit[i - Len(arrived)]
  BY ConcatProperties, LenProperties DEF TcpIInv, incoming
<1>2. /\ arrived' \in Seq(Cells) /\ Len(arrived') = Len(arrived)
      /\ \A i \in 1..Len(arrived) :
            arrived'[i].part = arrived[i].part /\ arrived'[i].val = arrived[i].val
  BY <1>1, StaleCells
<1>3. /\ transit' \in Seq(Cells) /\ Len(transit') = Len(transit)
      /\ \A i \in 1..Len(transit) :
            transit'[i].part = transit[i].part /\ transit'[i].val = transit[i].val
  BY <1>1, StaleCells
<1>4. /\ incoming' \in Seq(Cells) /\ Len(incoming') = Len(arrived) + Len(transit)
      /\ \A i \in 1..(Len(arrived) + Len(transit)) :
            incoming'[i] = IF i <= Len(arrived) THEN arrived'[i] ELSE transit'[i - Len(arrived)]
  <2> DEFINE a == arrived'
             b == transit'
             u == a \o b
  <2>1. a \in Seq(Cells) /\ b \in Seq(Cells) /\ Len(a) = Len(arrived) /\ Len(b) = Len(transit)
    BY <1>2, <1>3
  <2> HIDE DEF a, b
  <2>2. /\ u \in Seq(Cells) /\ Len(u) = Len(a) + Len(b)
        /\ \A i \in 1..(Len(a) + Len(b)) : u[i] = IF i <= Len(a) THEN a[i] ELSE b[i - Len(a)]
    BY <2>1, ConcatProperties
  <2>3. incoming' = u
    BY DEF incoming, a, b
  <2> HIDE DEF u
  <2> QED
    BY <2>1, <2>2, <2>3 DEF a, b
<1> DEFINE l == Len(incoming)
<1>5. Len(incoming') = l /\ l \in Nat
  BY <1>1, <1>4
<1>6. \A i \in 1..l : incoming'[i].part = incoming[i].part /\ incoming'[i].val = incoming[i].val
  <2> TAKE i \in 1..l
  <2>1. CASE i <= Len(arrived)
    <3>1. i \in 1..Len(arrived) /\ i \in 1..(Len(arrived) + Len(transit))
      BY <1>1, <2>1
    <3>2. incoming[i] = arrived[i] /\ incoming'[i] = arrived'[i]
      BY <1>1, <1>4, <2>1, <3>1
    <3> QED
      BY <1>2, <3>1, <3>2
  <2>2. CASE i > Len(arrived)
    <3>1. i - Len(arrived) \in 1..Len(transit) /\ ~(i <= Len(arrived))
      BY <1>1, <2>2
    <3>2. /\ incoming[i] = transit[i - Len(arrived)]
          /\ incoming'[i] = transit'[i - Len(arrived)]
      BY <1>1, <1>4, <3>1
    <3> QED
      BY <1>3, <3>1, <3>2
  <2> QED
    BY <1>1, <2>1, <2>2
<1>7. First /\ First' /\ nextFrame = 1 /\ nextFrame' = 1
  BY DEF TcpIInv, ConnectionsApart, nextFrame, First
<1>8. Framed(incoming')
  <2>1. ASSUME NEW i \in 1..Len(incoming'), incoming'[i].part = "id"
        PROVE  /\ i < Len(incoming') /\ incoming'[i + 1].part = "len" /\ incoming'[i + 1].val > 0
               /\ i + 2 + incoming'[i + 1].val <= Len(incoming')
                    => incoming'[i + 2 + incoming'[i + 1].val].part = "id"
    <3> DEFINE v == incoming[i + 1].val
    <3>1. /\ i \in 1..l /\ i < l /\ incoming[i + 1].part = "len" /\ v > 0
          /\ i + 2 + v <= l => incoming[i + 2 + v].part = "id"
      BY <1>5, <1>6, <2>1 DEF TcpIInv, StreamIsFramed, Framed
    <3>2. i + 1 \in 1..l /\ v \in Nat
      BY <1>1, <1>5, <3>1, Values
    <3>3. incoming'[i + 1].val = v /\ incoming'[i + 1].part = "len"
      BY <1>6, <3>1, <3>2
    <3> HIDE DEF v, l
    <3>4. i + 2 + v <= l => i + 2 + v \in 1..l
      BY <1>5, <3>1, <3>2
    <3> QED
      BY <1>5, <1>6, <3>1, <3>3, <3>4
  <2> QED
    BY <2>1 DEF Framed
<1>9. FramesEnd(incoming) => FramesEnd(incoming')
  <2>1. ASSUME FramesEnd(incoming), NEW i \in 1..Len(incoming'), incoming'[i].part = "id"
        PROVE  i + 1 + incoming'[i + 1].val <= Len(incoming')
    <3>1. i \in 1..l /\ i + 1 + incoming[i + 1].val <= l /\ i < l
      BY <1>5, <1>6, <2>1 DEF TcpIInv, StreamIsFramed, Framed, FramesEnd
    <3>2. i + 1 \in 1..l
      BY <1>5, <3>1
    <3> QED
      BY <1>5, <1>6, <3>1, <3>2
  <2> QED
    BY <2>1 DEF FramesEnd
<1>10. StreamIsFramed'
  <2>1. 1 <= l => incoming'[1].part = "id"
    BY <1>5, <1>6, <1>7 DEF TcpIInv, StreamIsFramed
  <2>2. arrived' # <<>> => arrived'[Len(arrived')].part # "id"
    <3>1. SUFFICES ASSUME arrived' # <<>> PROVE arrived'[Len(arrived')].part # "id"
      OBVIOUS
    <3>2. Len(arrived) \in 1..Len(arrived) /\ arrived # <<>>
      BY <1>1, <1>2, <3>1, EmptySeq
    <3> QED
      BY <1>2, <3>2 DEF TcpIInv, StreamIsFramed
  <2>3. 1 <= l + 1
    BY <1>5
  <2> QED
    BY <1>5, <1>7, <1>8, <1>9, <2>1, <2>2, <2>3 DEF TcpIInv, StreamIsFramed
<1>11. pending' \in Seq(FramesSent) /\ Len(pending') = Len(pending) + 1
  <2>1. Stale(pending) \in Seq(FramesSent) /\ Len(Stale(pending)) = Len(pending)
    BY StaleFrames DEF TcpIInv
  <2> QED
    BY <2>1, AppendProperties
<1>12. DataOK'
  BY <1>2, <1>3, <1>11, EmptySeq DEF DataOK, TcpIInv
<1>13. OneAtATime'
  <2>1. SUFFICES ASSUME extra' = 0 PROVE OneAtATime'
    BY DEF OneAtATime
  <2>2. pending = <<>> /\ incoming = <<>>
    BY <2>1 DEF TcpIInv, OneAtATime
  <2>3. Len(pending') = 1 /\ incoming' = <<>>
    BY <1>4, <1>5, <1>11, <2>2, EmptySeq
  <2> QED
    BY <1>7, <2>3 DEF OneAtATime
<1> QED
  BY <1>10, <1>12, <1>13 DEF Lines

\* The connection breaks.
LEMMA Breaking ==
  ASSUME TcpIInv, transit' = <<>>, pending' = <<>>, answered' \in FramesSent, sock' # "connected",
         UNCHANGED <<state, tcp, got, packetSz, arrived, extra>>
  PROVE  Lines'
<1>1. arrived \in Seq(Cells) /\ transit \in Seq(Cells) /\ incoming' = arrived
  BY ConcatEmptySeq DEF TcpIInv, incoming
<1>2. /\ Len(arrived) \in Nat /\ Len(transit) \in Nat
      /\ Len(incoming) = Len(arrived) + Len(transit)
      /\ \A i \in 1..Len(arrived) : incoming[i] = arrived[i]
  BY <1>1, ConcatProperties, LenProperties DEF incoming
<1>3. UNCHANGED <<nextFrame, First>>
  BY DEF nextFrame, First
<1>4. /\ nextFrame \in Int /\ nextFrame >= 1
  <2>1. Len(got) \in Nat /\ packetSz \in Nat /\ (~First => packetSz > Len(got))
    BY LenProperties DEF TcpIInv, TcpTypeOK, First
  <2> QED
    BY <2>1 DEF nextFrame
<1>5. Framed(arrived)
  BY <1>1, BreakKeepsFrames DEF TcpIInv, StreamIsFramed, incoming
<1>6. nextFrame <= Len(arrived) => arrived[nextFrame].part = "id"
  <2>1. SUFFICES ASSUME nextFrame <= Len(arrived) PROVE arrived[nextFrame].part = "id"
    OBVIOUS
  <2>2. nextFrame \in 1..Len(arrived) /\ nextFrame <= Len(incoming)
    BY <1>2, <1>4, <2>1
  <2> QED
    BY <1>2, <2>2 DEF TcpIInv, StreamIsFramed
<1>7. StreamIsFramed'
  BY <1>1, <1>3, <1>5, <1>6 DEF StreamIsFramed, TcpIInv
<1>8. DataOK'
  BY EmptySeq DEF DataOK, TcpIInv
<1>9. OneAtATime'
  <2>1. SUFFICES ASSUME extra' = 0 PROVE OneAtATime'
    BY DEF OneAtATime
  <2>2. extra = 0 /\ pending' = <<>>
    BY <2>1
  <2>3. state' # "BEGIN_READ" => incoming' = <<>>
    <3>1. SUFFICES ASSUME incoming = <<>> PROVE arrived = <<>>
      BY <1>1, <2>2 DEF TcpIInv, OneAtATime
    <3>2. Len(arrived) = 0
      BY <1>2, <3>1, EmptySeq
    <3> QED
      BY <1>1, <3>2, EmptySeq
  <2>4. First' /\ incoming' # <<>> => Len(incoming') <= incoming'[2].val + 2
    <3>1. SUFFICES ASSUME First, arrived # <<>> PROVE Len(arrived) <= arrived[2].val + 2
      BY <1>1, <1>3
    <3>2. Len(arrived) >= 2 /\ arrived[2] = incoming[2] /\ incoming[2].val \in Nat
      BY <3>1, PrefixIsWhole
    <3>3. incoming # <<>>
      BY <1>2, <3>2, EmptySeq
    <3>4. Len(incoming) <= incoming[2].val + 2
      BY <2>2, <3>1, <3>3 DEF TcpIInv, OneAtATime
    <3> QED
      BY <1>2, <3>2, <3>4
  <2>5. ~First' => Len(incoming') <= packetSz' - Len(got')
    <3>1. SUFFICES ASSUME ~First PROVE Len(arrived) <= packetSz - Len(got)
      BY <1>1, <1>3
    <3>2. Len(incoming) <= packetSz - Len(got)
      BY <2>2, <3>1 DEF TcpIInv, OneAtATime
    <3>3. packetSz - Len(got) \in Int
      BY LenProperties DEF TcpIInv
    <3> QED
      BY <1>2, <3>2, <3>3
  <2> QED
    BY <2>2, <2>3, <2>4, <2>5 DEF OneAtATime
<1> QED
  BY <1>7, <1>8, <1>9 DEF Lines

\* A segment arrives that does not end within a prefix.
LEMMA Delivering ==
  ASSUME TcpIInv, ~SplitPrefix, Deliver
  PROVE  Lines' /\ incoming' = incoming
<1>1. PICK k \in 1..Len(transit) :
         /\ k < Len(transit) => transit[k + 1].part # "len"
         /\ arrived' = arrived \o SubSeq(transit, 1, k)
         /\ transit' = SubSeq(transit, k + 1, Len(transit))
         /\ UNCHANGED <<vars, tcp, sock, ids, parser, server, bounds>>
  BY DEF Deliver
<1> DEFINE front == SubSeq(transit, 1, k)
<1>2. /\ arrived \in Seq(Cells) /\ transit \in Seq(Cells) /\ incoming \in Seq(Cells)
      /\ Len(arrived) \in Nat /\ Len(transit) \in Nat
  BY ConcatProperties, LenProperties DEF TcpIInv, incoming
<1>3. /\ front \in Seq(Cells) /\ Len(front) = k /\ front[k] = transit[k]
  <2>1. k \in 0..Len(transit) /\ k \in 1..k
    BY <1>2
  <2> QED
    BY <1>2, <2>1, Beginning
<1>4. transit' \in Seq(Cells)
  <2>1. k \in 0..Len(transit)
    BY <1>2
  <2> QED
    BY <1>1, <1>2, <2>1, Ending
<1>5. front \o transit' = transit
  <2>1. \A m \in 1..Len(transit) :
           SubSeq(transit, 1, m) \o SubSeq(transit, m + 1, Len(transit)) = transit
    BY <1>2
  <2> QED
    BY <1>1, <2>1
<1> HIDE DEF front
<1>6. arrived' \in Seq(Cells) /\ Len(arrived') = Len(arrived) + k
      /\ arrived'[Len(arrived) + k] = front[k]
  <2> DEFINE a == arrived \o front
  <2>1. /\ a \in Seq(Cells) /\ Len(a) = Len(arrived) + Len(front)
        /\ \A i \in 1..(Len(arrived) + Len(front)) :
              a[i] = IF i <= Len(arrived) THEN arrived[i] ELSE front[i - Len(arrived)]
    BY <1>2, <1>3, ConcatProperties
  <2>2. a = arrived'
    BY <1>1 DEF front
  <2> HIDE DEF a
  <2>3. /\ Len(arrived) + k \in 1..(Len(arrived) + Len(front))
        /\ ~(Len(arrived) + k <= Len(arrived)) /\ (Len(arrived) + k) - Len(arrived) = k
    BY <1>2, <1>3
  <2> QED
    BY <1>3, <2>1, <2>2, <2>3
<1>7. incoming' = incoming
  <2> DEFINE t == transit'
  <2>1. t \in Seq(Cells) /\ front \o t = transit
    BY <1>4, <1>5
  <2>2. incoming' = (arrived \o front) \o t
    BY <1>1 DEF incoming, front
  <2> HIDE DEF t
  <2>3. (arrived \o front) \o t = arrived \o (front \o t)
    <3>1. arrived \in Seq(Cells) /\ front \in Seq(Cells) /\ t \in Seq(Cells)
      BY <1>2, <1>3, <2>1
    <3> QED
      BY <3>1, Assoc, Zenon
  <2> QED
    BY <2>1, <2>2, <2>3 DEF incoming
<1>8. UNCHANGED <<state, tcp, sock, got, packetSz, pending, answered, extra, nextFrame, First>>
  BY <1>1 DEF vars, portVars, parser, server, bounds, nextFrame, First
<1>9. transit[k].part # "id"
  <2>1. SUFFICES ASSUME transit[k].part = "id" PROVE FALSE
    OBVIOUS
  <2> DEFINE j == Len(arrived) + k
  <2>2. /\ Len(incoming) = Len(arrived) + Len(transit)
        /\ \A i \in 1..(Len(arrived) + Len(transit)) :
              incoming[i] = IF i <= Len(arrived) THEN arrived[i] ELSE transit[i - Len(arrived)]
    BY <1>2, ConcatProperties DEF incoming
  <2>3. j \in 1..Len(incoming) /\ incoming[j] = transit[k]
    <3>1. j \in 1..(Len(arrived) + Len(transit)) /\ ~(j <= Len(arrived)) /\ j - Len(arrived) = k
      BY <1>2
    <3> QED
      BY <2>2, <3>1
  <2>4. j < Len(incoming) /\ incoming[j + 1].part = "len"
    BY <2>1, <2>3 DEF TcpIInv, StreamIsFramed, Framed
  <2>5. k < Len(transit) /\ incoming[j + 1] = transit[k + 1]
    <3>1. /\ j + 1 \in 1..(Len(arrived) + Len(transit)) /\ ~(j + 1 <= Len(arrived))
          /\ (j + 1) - Len(arrived) = k + 1 /\ k < Len(transit)
      BY <1>2, <2>2, <2>4
    <3> QED
      BY <2>2, <3>1
  <2> QED
    BY <1>1, <2>4, <2>5
<1>10. StreamIsFramed'
  BY <1>3, <1>6, <1>7, <1>8, <1>9 DEF TcpIInv, StreamIsFramed
<1>11. OneAtATime'
  BY <1>7, <1>8 DEF TcpIInv, OneAtATime
<1>12. DataOK'
  BY <1>4, <1>6, <1>8 DEF DataOK, TcpIInv
<1> QED
  BY <1>7, <1>10, <1>11, <1>12 DEF Lines

-----------------------------------------------------------------------------
(* The invariant                                                           *)

\* m_state, m_socket and the state of the ClientPort above go together.
PortStates ==
    /\ tcp \in {"UNKNOWN", "CLOSED", "WAIT_FOR_OPEN", "BEGIN", "WAIT_FOR_READ", "WAIT_FOR_READ_ALL"}
    /\ sock \in {"idle", "connecting", "connected", "dropped"}
    /\ isOpen = (sock = "connected")
    /\ ConnectionsApart

Counter ==
    /\ transaction \in 0..(Transactions - 1)
    /\ autoIncrement \in BOOLEAN

FrameNotWhole == tcp = "WAIT_FOR_READ_ALL" => got # <<>> /\ packetSz > Len(got)

LEMMA Parts ==
  TcpIInv <=> IInv /\ PortStates /\ Counter /\ FrameNotWhole /\ Lines
BY DEF TcpIInv, TcpTypeOK, IInv, PortStates, Counter, FrameNotWhole, Lines, DataOK

LEMMA PartsPrimed ==
  TcpIInv' <=> IInv' /\ PortStates' /\ Counter' /\ FrameNotWhole' /\ Lines'
BY Parts, PTL

\* The counter stays below its modulus.
LEMMA Counts ==
  ASSUME Counter, CountTransaction
  PROVE  Counter'
<1>1. autoIncrement' \in BOOLEAN
  BY DEF CountTransaction
<1>2. (transaction + 1) % Transactions \in 0..(Transactions - 1)
  BY ModbusPortTCPAssumption DEF Counter
<1>3. transaction' \in 0..(Transactions - 1)
  BY <1>2 DEF CountTransaction, Counter
<1> QED
  BY <1>1, <1>3 DEF Counter

\* Every call of an API function, whatever the connection does to it, keeps
\* the invariant.
LEMMA CallKeepsTcpIInv ==
  ASSUME TcpIInv, NEW c \in Clients, NEW q \in Requests, TcpCall(c, q)
  PROVE  PortStates' /\ Counter' /\ FrameNotWhole' /\ Lines'
<1>1. PortStates /\ Counter /\ FrameNotWhole /\ Lines /\ DataOK
  BY Parts DEF Lines
<1>2. Opens => state # "BEGIN_READ" /\ Opening # "BEGIN_READ"
  BY DEF Opens, Opening, AtWrite
<1>3. /\ sock # "connected" => transit = <<>> /\ pending = <<>> /\ answered = NoFrame
      /\ sock \in {"idle", "connecting"} => arrived = <<>> /\ First
      /\ ~First => state = "BEGIN_READ"
      /\ isOpen = (sock = "connected")
  BY <1>1 DEF PortStates, ConnectionsApart
<1>4. NoFrame \in FramesSent
  BY NoFrameIsFrame
<1>5. CASE OpenStarts(c, q)
  <2>1. /\ state # "BEGIN_READ" /\ state' # "BEGIN_READ" /\ ~isOpen /\ isOpen' = isOpen
        /\ tcp' = "WAIT_FOR_OPEN" /\ sock' = "connecting" /\ arrived' = <<>>
        /\ CountTransaction /\ extra' \in Nat
        /\ UNCHANGED <<got, packetSz, transit, pending, answered>>
    BY <1>2, <1>5 DEF OpenStarts, AwaitOpen, parser, server
  <2>2. transit' = <<>> /\ pending' = <<>> /\ answered' = NoFrame
    BY <1>3, <2>1
  <2>3. First'
    BY <2>1 DEF First
  <2>4. Lines'
    BY <1>1, <1>4, <2>1, <2>2, <2>3, Emptied
  <2>5. PortStates'
    BY <1>3, <2>1, <2>2, <2>3 DEF PortStates, ConnectionsApart
  <2> QED
    BY <1>1, <2>1, <2>4, <2>5, Counts DEF FrameNotWhole
<1>6. CASE OpenWaits(c, q)
  <2>1. /\ state # "BEGIN_READ" /\ state' # "BEGIN_READ" /\ isOpen' = isOpen
        /\ CountTransaction
        /\ UNCHANGED <<tcp, sock, got, packetSz, arrived, transit, pending, answered, extra>>
    BY <1>2, <1>6 DEF OpenWaits, AwaitOpen, parser, stream, server, bounds
  <2>2. First' = First
    BY <2>1 DEF First
  <2>3. Lines'
    BY <1>1, <2>1, <2>2, Untouched
  <2>4. PortStates'
    BY <1>1, <2>1, <2>2 DEF PortStates, ConnectionsApart, First
  <2> QED
    BY <1>1, <2>1, <2>3, <2>4, Counts DEF FrameNotWhole
<1>7. CASE OpenTimesOut(c, q) \/ CloseToReopen(c, q) \/ ReadTimesOut(c, q)
  <2>1. /\ tcp' = "CLOSED" /\ SocketClosed /\ CountTransaction
        /\ UNCHANGED <<got, packetSz>>
    BY <1>7 DEF OpenTimesOut, CloseToReopen, ReadTimesOut, parser
  <2>2. isOpen' = FALSE
    <3>1. CASE OpenTimesOut(c, q)
      BY <1>3, <3>1 DEF OpenTimesOut, OpenFails, Connected
    <3>2. CASE CloseToReopen(c, q)
      BY <3>2 DEF CloseToReopen, Reopen
    <3>3. CASE ReadTimesOut(c, q)
      <4>1. ~isOpen' /\ isOpen' \in {isOpen, FALSE}
        BY <3>3 DEF ReadTimesOut, ReadFails
      <4> QED
        BY <1>3, <4>1
    <3> QED
      BY <1>7, <3>1, <3>2, <3>3
  <2>3. First'
    BY <2>1 DEF First
  <2>4. Lines'
    BY <1>1, <1>4, <2>1, <2>3, Emptied DEF SocketClosed
  <2>5. PortStates'
    BY <2>1, <2>2, <2>3 DEF PortStates, ConnectionsApart, SocketClosed
  <2> QED
    BY <1>1, <2>1, <2>4, <2>5, Counts DEF FrameNotWhole
<1>8. CASE Write(c, q)
  <2>1. /\ state # "BEGIN_READ" /\ state' = "BEGIN_READ"
        /\ isOpen /\ isOpen' = isOpen /\ sock' = sock
        /\ tcp' = "BEGIN" /\ CountTransaction /\ got' = <<>>
        /\ pending' = Append(Stale(pending), [id |-> transaction', own |-> TRUE])
        /\ answered' = [answered EXCEPT !.own = FALSE]
        /\ arrived' = Stale(arrived) /\ transit' = Stale(transit)
        /\ UNCHANGED <<packetSz, extra>>
    BY <1>2, <1>8 DEF Write, Ready, Written, GetsToWrite, AtWrite, bounds
  <2>2. Counter'
    BY <1>1, <2>1, Counts
  <2>3. [id |-> transaction', own |-> TRUE] \in FramesSent
    BY <2>2, ModbusPortTCPAssumption DEF Counter, FramesSent
  <2>4. answered' \in FramesSent
    BY <1>1, <2>1 DEF DataOK, FramesSent
  <2>5. Lines'
    BY <2>1, <2>3, <2>4, Writing
  <2>6. PortStates'
    BY <1>3, <2>1 DEF PortStates, ConnectionsApart, First
  <2> QED
    BY <2>1, <2>2, <2>5, <2>6 DEF FrameNotWhole
<1>9. CASE WriteError(c, q)
  <2>1. /\ state # "BEGIN_READ" /\ state' # "BEGIN_READ" /\ isOpen' = isOpen
        /\ tcp' = "BEGIN" /\ CountTransaction
        /\ UNCHANGED <<sock, got, packetSz, arrived, transit, pending, answered, extra>>
    BY <1>2, <1>9 DEF WriteError, WriteFails, GetsToWrite, AtWrite, parser, stream, server
  <2>2. First' = First
    BY <1>3, <2>1 DEF First
  <2>3. Lines'
    BY <1>1, <2>1, <2>2, Untouched
  <2>4. PortStates'
    BY <1>1, <2>1, <2>2 DEF PortStates, ConnectionsApart, First
  <2> QED
    BY <1>1, <2>1, <2>3, <2>4, Counts DEF FrameNotWhole
<1>10. CASE ReadWaits(c, q)
  <2>1. /\ state = "BEGIN_READ" /\ state' = state /\ isOpen' = isOpen
        /\ tcp' = (IF tcp = "BEGIN" THEN "WAIT_FOR_READ" ELSE tcp) /\ CountTransaction
        /\ UNCHANGED <<sock, got, packetSz, arrived, transit, pending, answered, extra>>
    BY <1>10 DEF ReadWaits, AwaitRead, Reads, parser, stream, server, bounds
  <2>2. First' = First
    BY <2>1 DEF First
  <2>3. Lines'
    BY <1>1, <2>1, <2>2, Untouched
  <2>4. PortStates'
    BY <1>1, <2>1, <2>2 DEF PortStates, ConnectionsApart, First
  <2>5. FrameNotWhole'
    BY <1>1, <2>1 DEF FrameNotWhole
  <2> QED
    BY <1>1, <2>1, <2>3, <2>4, <2>5, Counts
<1>11. CASE ReadSome(c, q) \/ ReadAll(c, q)
  <2>1. /\ TakeBytes /\ state = "BEGIN_READ" /\ isOpen' = isOpen /\ CountTransaction
        /\ \/ Complete /\ tcp' = "BEGIN" /\ state' = "BEGIN_WRITE"
           \/ ~Complete /\ tcp' = "WAIT_FOR_READ_ALL" /\ state' = "BEGIN_READ"
    BY <1>11 DEF ReadSome, ReadAll, AwaitRead, Answered, Reads
  <2>2. UNCHANGED <<extra, sock, transit, pending, answered>> /\ arrived # <<>>
    BY <2>1 DEF TakeBytes, bounds, server
  <2>3. Lines' /\ (~First' => got' # <<>> /\ packetSz' > Len(got'))
    BY <2>1, <2>2, Reading
  <2>4. PortStates'
    BY <1>1, <1>3, <2>1, <2>2 DEF PortStates, ConnectionsApart, First
  <2>5. FrameNotWhole'
    BY <2>3 DEF FrameNotWhole, First
  <2> QED
    BY <1>1, <2>1, <2>3, <2>4, <2>5, Counts
<1>12. CASE Wait(c, q) /\ UNCHANGED <<tcp, sock, ids, parser, stream, server, bounds>>
  <2>1. UNCHANGED <<state, isOpen, tcp, sock, transaction, autoIncrement, got, packetSz,
                    arrived, transit, pending, answered, extra>>
    BY <1>12 DEF Wait, portVars, ids, parser, stream, server, bounds
  <2>2. First' = First
    BY <2>1 DEF First
  <2>3. Lines'
    BY <1>1, <2>1, <2>2, Untouched
  <2> QED
    BY <1>1, <2>1, <2>2, <2>3 DEF PortStates, ConnectionsApart, Counter, FrameNotWhole, First
<1> QED
  BY <1>5, <1>6, <1>7, <1>8, <1>9, <1>10, <1>11, <1>12 DEF TcpCall, Progress

\* So does everything else that happens, if no prefix is split.
LEMMA NextKeepsTcpIInv ==
  ASSUME ~SplitPrefix
  PROVE  TcpIInv /\ [TcpNext]_tcpVars => TcpIInv'
<1> SUFFICES ASSUME TcpIInv, [TcpNext]_tcpVars PROVE TcpIInv'
  OBVIOUS
<1>1. IInv'
  BY PortInvariance DEF TcpIInv
<1>2. PortStates /\ Counter /\ FrameNotWhole /\ Lines /\ DataOK
  BY Parts DEF Lines
<1>3. SUFFICES PortStates' /\ Counter' /\ FrameNotWhole' /\ Lines'
  BY <1>1, PartsPrimed
<1>4. /\ sock # "connected" => transit = <<>> /\ pending = <<>> /\ answered = NoFrame
      /\ sock \in {"idle", "connecting"} => arrived = <<>> /\ First
      /\ ~First => state = "BEGIN_READ"
      /\ isOpen = (sock = "connected")
  BY <1>2 DEF PortStates, ConnectionsApart
<1>5. ASSUME NEW c \in Clients, NEW q \in Requests, TcpCall(c, q)
      PROVE  PortStates' /\ Counter' /\ FrameNotWhole' /\ Lines'
  BY <1>5, CallKeepsTcpIInv
<1>6. CASE Connect
  <2>1. /\ sock = "connecting" /\ sock' = "connected" /\ isOpen' = ~isOpen /\ state' = state
        /\ UNCHANGED <<tcp, transaction, autoIncrement, got, packetSz, arrived, transit,
                       pending, answered, extra>>
    BY <1>6 DEF Connect, LineChanges, ids, parser, stream, server, bounds
  <2>2. arrived' = <<>> /\ transit' = <<>> /\ pending' = <<>> /\ answered' \in FramesSent /\ extra' \in Nat
    BY <1>2, <1>4, <2>1 DEF DataOK
  <2>3. First'
    BY <1>4, <2>1 DEF First
  <2>4. Lines'
    BY <1>2, <2>1, <2>2, <2>3, Emptied
  <2>5. PortStates'
    BY <1>2, <1>4, <2>1, <2>3 DEF PortStates, ConnectionsApart
  <2> QED
    BY <1>2, <2>1, <2>4, <2>5 DEF Counter, FrameNotWhole
<1>7. CASE Drop
  <2>1. /\ sock = "connected" /\ sock' = "dropped" /\ isOpen' = ~isOpen /\ state' = state
        /\ transit' = <<>> /\ pending' = <<>> /\ answered' = NoFrame
        /\ UNCHANGED <<tcp, transaction, autoIncrement, got, packetSz, arrived, extra>>
    BY <1>7 DEF Drop, LineChanges, ids, parser, bounds
  <2>2. Lines'
    BY <2>1, NoFrameIsFrame, Breaking
  <2>3. PortStates'
    BY <1>2, <1>4, <2>1 DEF PortStates, ConnectionsApart, First
  <2> QED
    BY <1>2, <2>1, <2>2, <2>3 DEF Counter, FrameNotWhole
<1>8. CASE ChangeSettings \/ UNCHANGED tcpVars
  <2>1. UNCHANGED <<state, isOpen, tcp, sock, transaction, autoIncrement, got, packetSz,
                    arrived, transit, pending, answered, extra>>
    BY <1>8 DEF ChangeSettings, SetSettings, tcpVars, vars, portVars, ids, parser, stream, server, bounds
  <2>2. First' = First
    BY <2>1 DEF First
  <2>3. Lines'
    BY <1>2, <2>1, <2>2, Untouched
  <2> QED
    BY <1>2, <2>1, <2>2, <2>3 DEF PortStates, ConnectionsApart, Counter, FrameNotWhole, First
<1>9. CASE Answer
  <2>1. PICK len \in ResponseLens, exception \in 0..1 :
           transit' = transit \o ResponseTo(Head(pending), len, exception)
    BY <1>9 DEF Answer
  <2>2. /\ pending # <<>> /\ answered' = Head(pending) /\ pending' = Tail(pending)
        /\ UNCHANGED <<state, isOpen, tcp, sock, transaction, autoIncrement, got, packetSz,
                       arrived, extra>>
    BY <1>9 DEF Answer, vars, portVars, ids, parser, bounds
  <2>3. Head(pending) \in FramesSent
    BY <1>2, <2>2, HeadTailProperties DEF DataOK
  <2>4. sock = "connected"
    BY <1>4, <2>2
  <2>5. Lines'
    BY <2>1, <2>2, <2>3, <2>4, Responds
  <2> QED
    BY <1>2, <2>2, <2>4, <2>5 DEF PortStates, ConnectionsApart, Counter, FrameNotWhole, First
<1>10. CASE AnswerTwice
  <2>1. PICK len \in ResponseLens : transit' = transit \o ResponseTo(answered, len, 0)
    BY <1>10 DEF AnswerTwice
  <2>2. /\ answered # NoFrame /\ extra' = extra + 1
        /\ UNCHANGED <<state, isOpen, tcp, sock, transaction, autoIncrement, got, packetSz,
                       arrived, pending, answered>>
    BY <1>10 DEF AnswerTwice, vars, portVars, ids, parser
  <2>3. answered \in FramesSent /\ sock = "connected" /\ 0 \in 0..1
    BY <1>2, <1>4, <2>2 DEF DataOK
  <2>4. Lines'
    BY <2>1, <2>2, <2>3, Responds
  <2> QED
    BY <1>2, <2>2, <2>3, <2>4 DEF PortStates, ConnectionsApart, Counter, FrameNotWhole, First
<1>11. CASE Deliver
  <2>1. UNCHANGED <<state, isOpen, tcp, sock, transaction, autoIncrement, got, packetSz,
                    pending, answered>>
    BY <1>11 DEF Deliver, vars, portVars, ids, parser, server
  <2>2. Lines'
    BY <1>11, Delivering
  <2>3. transit # <<>>
    BY <1>11, EmptySeq DEF Deliver
  <2> QED
    BY <1>2, <1>4, <2>1, <2>2, <2>3 DEF PortStates, ConnectionsApart, Counter, FrameNotWhole, First
<1> QED
  BY <1>5, <1>6, <1>7, <1>8, <1>9, <1>10, <1>11 DEF TcpNext

LEMMA InitTcpIInv == TcpInit => TcpIInv
<1> SUFFICES ASSUME TcpInit PROVE TcpIInv
  OBVIOUS
<1>1. IInv /\ isOpen = FALSE
  BY InitIInv DEF TcpInit, Init
<1>2. /\ tcp = "UNKNOWN" /\ sock = "idle" /\ transaction = 0 /\ autoIncrement = TRUE
      /\ got = <<>> /\ packetSz = 0 /\ arrived = <<>> /\ transit = <<>>
      /\ pending = <<>> /\ answered = NoFrame /\ extra = 0
  BY DEF TcpInit
<1>3. <<>> \in Seq(Cells) /\ <<>> \in Seq(FramesSent) /\ NoFrame \in FramesSent
  BY NoFrameIsFrame, EmptySeq
<1>4. DataOK
  BY <1>2, <1>3 DEF DataOK
<1>5. First /\ nextFrame = 1 /\ incoming = <<>> /\ Len(incoming) = 0
  BY <1>2, <1>3, EmptySeq DEF First, nextFrame, incoming
<1>6. StreamIsFramed
  BY <1>2, <1>5 DEF StreamIsFramed, Framed, FramesEnd
<1>7. OneAtATime
  BY <1>2, <1>5 DEF OneAtATime
<1>8. PortStates
  BY <1>1, <1>2, <1>5 DEF PortStates, ConnectionsApart
<1>9. Counter
  BY <1>2, ModbusPortTCPAssumption DEF Counter
<1>10. FrameNotWhole
  BY <1>2 DEF FrameNotWhole
<1> QED
  BY <1>1, <1>4, <1>6, <1>7, <1>8, <1>9, <1>10, Parts DEF Lines

LEMMA TcpInvariance ==
  ASSUME ~SplitPrefix
  PROVE  TcpSpec => []TcpIInv
<1>1. TcpIInv /\ [TcpNext]_tcpVars => TcpIInv'
  BY NextKeepsTcpIInv
<1> QED
  BY <1>1, InitTcpIInv, PTL DEF TcpSpec

\* The states of the port, of the socket and of the ClientPort go together, and
\* a response that is being read is never complete between two calls of read().
THEOREM TcpTypeCorrect ==
  ASSUME ~SplitPrefix
  PROVE  TcpSpec => []TcpTypeOK
<1>1. TcpIInv => TcpTypeOK
  BY DEF TcpIInv
<1> QED
  BY <1>1, TcpInvariance, PTL

\* write() finds nothing of an earlier exchange in the connection if no request
\* was answered twice, however a response was cut into segments, whichever
\* requests timed out and however often the connection broke.
THEOREM ConnectionLeftClean ==
  ASSUME ~SplitPrefix
  PROVE  TcpSpec => []NothingLeftOver
<1>1. TcpIInv => NothingLeftOver
  <2> SUFFICES ASSUME TcpIInv, extra = 0, state # "BEGIN_READ"
               PROVE  arrived = <<>> /\ transit = <<>> /\ pending = <<>>
    BY DEF NothingLeftOver
  <2>1. pending = <<>> /\ arrived \o transit = <<>>
    BY DEF TcpIInv, OneAtATime, incoming
  <2>2. arrived \in Seq(Cells) /\ transit \in Seq(Cells)
    BY DEF TcpIInv
  <2> QED
    BY <2>1, <2>2, ConcatEmptySeq, ConcatProperties, LenProperties, EmptySeq
<1> QED
  BY <1>1, TcpInvariance, PTL

-----------------------------------------------------------------------------
(* How many frames begin                                                   *)

\* The first i cells that begin a frame.
Ids(s, i) == {j \in 1..i : s[j].part = "id"}

LEMMA BeginsIs ==
  ASSUME NEW s, NEW i \in Nat
  PROVE  /\ Ids(s, i) \in SUBSET (1..i) /\ IsFiniteSet(Ids(s, i))
         /\ Begins(s, i) = Cardinality(Ids(s, i)) /\ Begins(s, i) \in Nat
<1>1. Ids(s, i) \in SUBSET (1..i)
  BY DEF Ids
<1>2. IsFiniteSet(1..i)
  BY FS_Interval
<1>3. IsFiniteSet(Ids(s, i))
  BY <1>1, <1>2, FS_Subset
<1>4. Begins(s, i) = Cardinality(Ids(s, i))
  BY DEF Begins, Ids
<1> QED
  BY <1>1, <1>3, <1>4, FS_CardinalityType

LEMMA BeginsGrows ==
  ASSUME NEW s, NEW i \in Nat, NEW k \in Nat, i <= k
  PROVE  Begins(s, i) <= Begins(s, k)
<1>1. Ids(s, i) \in SUBSET Ids(s, k)
  BY DEF Ids
<1>2. /\ IsFiniteSet(Ids(s, k))
      /\ Begins(s, i) = Cardinality(Ids(s, i)) /\ Begins(s, k) = Cardinality(Ids(s, k))
  BY BeginsIs
<1>3. Cardinality(Ids(s, i)) <= Cardinality(Ids(s, k))
  BY <1>1, <1>2, FS_Subset
<1> QED
  BY <1>2, <1>3

LEMMA BeginsAtId ==
  ASSUME NEW s, NEW i \in Nat, NEW j \in 1..i, s[j].part = "id"
  PROVE  Begins(s, i) >= 1
<1>1. j \in Ids(s, i)
  BY DEF Ids
<1>2. /\ IsFiniteSet(Ids(s, i)) /\ Begins(s, i) = Cardinality(Ids(s, i)) /\ Begins(s, i) \in Nat
  BY BeginsIs
<1>3. Begins(s, i) # 0
  BY <1>1, <1>2, FS_EmptySet
<1> QED
  BY <1>2, <1>3

LEMMA BeginsAlike ==
  ASSUME NEW s, NEW t, NEW i \in Nat, \A j \in 1..i : t[j].part = s[j].part
  PROVE  Begins(t, i) = Begins(s, i)
<1>1. Ids(t, i) = Ids(s, i)
  BY DEF Ids
<1> QED
  BY <1>1, BeginsIs

\* What begins in a sequence begins in its front or in its rest.
LEMMA BeginsSplit ==
  ASSUME NEW s, NEW t, NEW n \in Nat, NEW i \in Nat, \A j \in 1..i : t[j].part = s[j + n].part
  PROVE  Begins(s, i + n) = Begins(s, n) + Begins(t, i)
<1> DEFINE A == Ids(s, n)
           B == {j \in (n + 1)..(i + n) : s[j].part = "id"}
           C == Ids(t, i)
           f == [j \in C |-> j + n]
<1>1. /\ i + n \in Nat
      /\ IsFiniteSet(A) /\ Begins(s, n) = Cardinality(A)
      /\ IsFiniteSet(C) /\ Begins(t, i) = Cardinality(C)
      /\ IsFiniteSet(Ids(s, i + n)) /\ Begins(s, i + n) = Cardinality(Ids(s, i + n))
      /\ Cardinality(A) \in Nat /\ Cardinality(C) \in Nat
  BY BeginsIs
<1>2. Ids(s, i + n) = A \union B /\ A \intersect B = {}
  BY DEF Ids
<1>3. f \in Bijection(C, B)
  <2>1. \A j \in C : j \in 1..i /\ t[j].part = "id" /\ j + n \in B
    BY DEF Ids
  <2>2. \A b \in B : b - n \in C /\ (b - n) + n = b
    <3> TAKE b \in B
    <3>1. b \in (n + 1)..(i + n) /\ s[b].part = "id"
      OBVIOUS
    <3>2. b - n \in 1..i /\ (b - n) + n = b
      BY <3>1
    <3>3. t[b - n].part = s[(b - n) + n].part
      BY <3>2
    <3> QED
      BY <3>1, <3>2, <3>3 DEF Ids
  <2> HIDE DEF B, C
  <2>3. f \in [C -> B]
    BY <2>1
  <2>4. \A j, k \in C : f[j] = f[k] => j = k
    BY <2>1
  <2>5. \A b \in B : \E j \in C : f[j] = b
    BY <2>2
  <2> QED
    BY <2>3, <2>4, <2>5, Fun_IsBij
<1>4. IsFiniteSet(B) /\ Cardinality(B) = Cardinality(C)
  BY <1>1, <1>3, FS_Bijection DEF ExistsBijection
<1> HIDE DEF A, B, C
<1>5. Cardinality(A \union B) = Cardinality(A) + Cardinality(B) - Cardinality(A \intersect B)
  BY <1>1, <1>4, FS_Union
<1>6. Cardinality(A \intersect B) = 0
  BY <1>2, FS_EmptySet
<1> QED
  BY <1>1, <1>2, <1>4, <1>5, <1>6

LEMMA BeginsOnce ==
  ASSUME NEW s, NEW i \in Nat \ {0}, s[1].part = "id", \A j \in 2..i : s[j].part # "id"
  PROVE  Begins(s, i) = 1
<1>1. Ids(s, i) = {1}
  BY DEF Ids
<1> QED
  BY <1>1, BeginsIs, FS_Singleton

-----------------------------------------------------------------------------
(* Numbers of transactions                                                 *)

LEMMA Older ==
  ASSUME Counter, transaction' = (transaction + 1) % Transactions,
         NEW x \in 0..(Transactions - 1), age(x) + 1 < Transactions
  PROVE  age(x)' = age(x) + 1 /\ x # transaction'
<1>1. \A a, b \in Nat : 0 < a /\ a < b => a % b = a
  OBVIOUS
<1>2. \A b \in Nat : 0 < b => b % b = 0
  OBVIOUS
<1>3. /\ Transactions \in Nat /\ Transactions > 0
      /\ transaction \in Nat /\ transaction < Transactions
  BY ModbusPortTCPAssumption DEF Counter
<1>4. transaction' = IF transaction + 1 = Transactions THEN 0 ELSE transaction + 1
  <2>1. CASE transaction + 1 = Transactions
    BY <1>2, <1>3, <2>1
  <2>2. CASE transaction + 1 # Transactions
    <3>1. transaction + 1 \in Nat /\ 0 < transaction + 1 /\ transaction + 1 < Transactions
      BY <1>3, <2>2
    <3> QED
      BY <1>1, <1>3, <2>2, <3>1
  <2> QED
    BY <2>1, <2>2
<1> QED
  BY <1>3, <1>4 DEF age

LEMMA AgeIs ==
  ASSUME Counter, NEW x \in 0..(Transactions - 1)
  PROVE  age(x) \in 0..(Transactions - 1) /\ (age(x) = 0 <=> x = transaction)
BY ModbusPortTCPAssumption DEF Counter, age

-----------------------------------------------------------------------------
(* What is on the way                                                      *)

WayIsTyped ==
    /\ arrived \in Seq(Cells) /\ transit \in Seq(Cells) /\ incoming \in Seq(Cells)
    /\ Len(incoming) \in Nat /\ Len(pending) \in Nat
    /\ taken \in 0..1 /\ frames \in Nat
    /\ \A f \in OnTheWay : f.place \in Nat

LEMMA WayTyped == DataOK => WayIsTyped
<1> SUFFICES ASSUME DataOK PROVE WayIsTyped
  OBVIOUS
<1>1. /\ arrived \in Seq(Cells) /\ transit \in Seq(Cells) /\ incoming \in Seq(Cells)
      /\ Len(incoming) \in Nat /\ Len(pending) \in Nat
  BY ConcatProperties, LenProperties DEF DataOK, incoming
<1>2. taken \in 0..1
  BY DEF taken
<1>3. \A i \in Nat : Begins(incoming, i) \in Nat
  BY BeginsIs
<1>4. frames \in Nat
  <2>1. Begins(incoming, Len(incoming)) \in Nat
    BY <1>1, <1>3
  <2> QED
    BY <1>2, <2>1 DEF frames
<1>5. ASSUME NEW f \in OnTheWay
      PROVE  f.place \in Nat
  <2>1. ASSUME NEW i \in 1..Len(incoming), f = InStream(i)
        PROVE  f.place \in Nat
    <3>1. f.place = Begins(incoming, i) + taken /\ i \in Nat
      BY <1>1, <2>1 DEF InStream
    <3>2. Begins(incoming, i) \in Nat
      BY <1>3, <3>1
    <3> QED
      BY <1>2, <3>1, <3>2
  <2>2. ASSUME NEW j \in 1..Len(pending), f = ToCome(j)
        PROVE  f.place \in Nat
    BY <1>1, <1>4, <2>2 DEF ToCome
  <2>3. ASSUME f = Again
        PROVE  f.place \in Nat
    BY <1>4, <2>3 DEF Again
  <2> QED
    BY <2>1, <2>2, <2>3 DEF OnTheWay
<1> QED
  BY <1>1, <1>2, <1>4, <1>5 DEF WayIsTyped

LEMMA WayTypedNext == DataOK' => WayIsTyped'
BY WayTyped, PTL

\* A response follows all that is on the way to the socket.
LEMMA ResponseFollows ==
  ASSUME DataOK, NEW r \in FramesSent, NEW len \in ResponseLens, NEW exception \in 0..1,
         transit' = transit \o ResponseTo(r, len, exception), arrived' = arrived, tcp' = tcp
  PROVE  /\ len \in Nat /\ Len(incoming') = Len(incoming) + len + 2
         /\ \A i \in 1..Len(incoming) :
              incoming'[i] = incoming[i] /\ Begins(incoming', i) = Begins(incoming, i)
         /\ \A i \in 1..(len + 2) : incoming'[Len(incoming) + i].own = r.own
         /\ incoming'[Len(incoming) + 1].val = r.id
         /\ incoming'[Len(incoming) + 2].val = len
         /\ \A i \in 1..(len + 2) : incoming'[Len(incoming) + i].part = "id" <=> i = 1
         /\ \A i \in 1..(len + 2) : Begins(incoming', Len(incoming) + i) = Begins(incoming, Len(incoming)) + 1
         /\ frames' = frames + 1
<1> DEFINE s == ResponseTo(r, len, exception)
           n == Len(incoming)
           u == incoming \o s
<1>1. /\ s \in Seq(Cells) /\ Len(s) = len + 2
      /\ s[1].part = "id" /\ s[1].val = r.id /\ s[2].val = len
      /\ \A i \in 1..(len + 2) : s[i].own = r.own
      /\ \A i \in 2..(len + 2) : s[i].part # "id"
  <2>1. s \in Seq(Cells) /\ Len(s) = len + 2
    BY ResponseIsFrame
  <2>2. s[1].part = "id" /\ s[1].val = r.id /\ s[2].val = len
    BY ResponseIsFrame
  <2>3. \A i \in 1..(len + 2) : s[i].own = r.own
    BY ResponseIsFrame
  <2>4. \A i \in 2..(len + 2) : s[i].part # "id"
    BY ResponseIsFrame
  <2> QED
    BY <2>1, <2>2, <2>3, <2>4
<1> HIDE DEF s
<1>2. len \in Nat /\ len > 0
  BY ModbusPortTCPAssumption
<1>3. arrived \in Seq(Cells) /\ transit \in Seq(Cells) /\ incoming \in Seq(Cells) /\ n \in Nat
  BY WayTyped DEF WayIsTyped
<1>4. incoming' = u
  <2>1. arrived \o (transit \o s) = (arrived \o transit) \o s
    <3>1. arrived \in Seq(Cells) /\ transit \in Seq(Cells) /\ s \in Seq(Cells)
      BY <1>1, <1>3
    <3> QED
      BY <3>1, Assoc, Zenon
  <2> QED
    BY <2>1 DEF incoming, s
<1>5. /\ Len(u) = n + len + 2
      /\ \A i \in 1..(n + len + 2) : u[i] = IF i <= n THEN incoming[i] ELSE s[i - n]
  <2>1. /\ Len(u) = Len(incoming) + Len(s)
        /\ \A i \in 1..(Len(incoming) + Len(s)) :
             u[i] = IF i <= Len(incoming) THEN incoming[i] ELSE s[i - Len(incoming)]
    BY <1>1, <1>3, ConcatProperties, Zenon
  <2> HIDE DEF u
  <2>2. Len(incoming) + Len(s) = n + len + 2
    BY <1>1, <1>2, <1>3
  <2> QED
    BY <2>1, <2>2
<1> HIDE DEF u, n
<1>6. \A i \in 1..n : u[i] = incoming[i]
  BY <1>2, <1>3, <1>5
<1>7. \A i \in 1..(len + 2) : u[n + i] = s[i]
  <2> TAKE i \in 1..(len + 2)
  <2>1. n + i \in 1..(n + len + 2) /\ ~(n + i <= n) /\ (n + i) - n = i
    BY <1>2, <1>3
  <2> QED
    BY <1>5, <2>1
<1>8. \A i \in 1..n : Begins(u, i) = Begins(incoming, i)
  <2> TAKE i \in 1..n
  <2>1. i \in Nat /\ \A j \in 1..i : u[j].part = incoming[j].part
    BY <1>3, <1>6
  <2> QED
    BY <2>1, BeginsAlike
<1>9. \A i \in 1..(len + 2) : Begins(u, n + i) = Begins(incoming, n) + 1
  <2> TAKE i \in 1..(len + 2)
  <2>1. \A j \in 1..i : s[j].part = u[j + n].part
    BY <1>2, <1>3, <1>7
  <2>2. Begins(u, i + n) = Begins(u, n) + Begins(s, i)
    BY <1>2, <1>3, <2>1, BeginsSplit
  <2>3. Begins(s, i) = 1
    <3>1. i \in Nat \ {0} /\ \A j \in 2..i : s[j].part # "id"
      BY <1>1, <1>2
    <3> QED
      BY <1>1, <3>1, BeginsOnce
  <2>4. Begins(u, n) = Begins(incoming, n)
    <3>1. \A j \in 1..n : u[j].part = incoming[j].part
      BY <1>6
    <3> QED
      BY <1>3, <3>1, BeginsAlike
  <2>5. i + n = n + i
    BY <1>3
  <2> QED
    BY <2>2, <2>3, <2>4, <2>5
<1>10. frames' = frames + 1
  <2>1. taken' = taken /\ taken \in 0..1 /\ Begins(incoming, n) \in Nat
    BY <1>3, BeginsIs DEF taken, First
  <2>2. Begins(u, n + (len + 2)) = Begins(incoming, n) + 1
    BY <1>2, <1>9
  <2>3. n + (len + 2) = n + len + 2
    BY <1>2, <1>3
  <2>4. frames' = Begins(u, n + len + 2) + taken
    BY <1>4, <1>5, <2>1 DEF frames
  <2> QED
    BY <2>1, <2>2, <2>3, <2>4 DEF frames, n
<1>11. 1 \in 1..(len + 2) /\ 2 \in 1..(len + 2)
  BY <1>2
<1>12. /\ \A i \in 1..(len + 2) : u[n + i].own = r.own
       /\ u[n + 1].val = r.id /\ u[n + 2].val = len
       /\ \A i \in 1..(len + 2) : u[n + i].part = "id" <=> i = 1
  BY <1>1, <1>7, <1>11
<1>13. len \in Nat /\ Len(u) = n + len + 2
  BY <1>2, <1>5
<1> QED
  BY <1>4, <1>6, <1>8, <1>9, <1>10, <1>12, <1>13 DEF n

-----------------------------------------------------------------------------
(* What the steps do to what is on the way                                 *)

\* All that is on the way was there, at least d places further back.
Carried(d) ==
    \A f \in OnTheWay' : \E g \in OnTheWay :
        f.id = g.id /\ f.own = g.own /\ f.place + d <= g.place

LEMMA WayCases ==
  ASSUME NEW f \in OnTheWay
  PROVE  \/ \E i \in 1..Len(incoming) : incoming[i].part = "id" /\ f = InStream(i)
         \/ \E j \in 1..Len(pending) : f = ToCome(j)
         \/ answered # NoFrame /\ extra < MaxExtra /\ f = Again
BY DEF OnTheWay

LEMMA ShiftBegins ==
  ASSUME NEW s, NEW t, NEW n \in Nat, Len(t) \in Nat, Shifted(t, s, n)
  PROVE  \A i \in 0..Len(t) :
            /\ i + n \in Nat /\ Begins(t, i) \in Nat
            /\ Begins(s, i + n) = Begins(s, n) + Begins(t, i)
<1> TAKE i \in 0..Len(t)
<1>1. i \in Nat /\ i + n \in Nat /\ \A j \in 1..i : t[j].part = s[j + n].part
  BY DEF Shifted
<1>2. Begins(s, i + n) = Begins(s, n) + Begins(t, i)
  BY <1>1, BeginsSplit
<1> QED
  BY <1>1, <1>2, BeginsIs

\* read() brings all that is on the way one place forward with the frame it
\* finishes.
LEMMA ReadFollows ==
  ASSUME TcpIInv, TakeBytes, extra' = extra, NEW d \in 0..1, d = 1 <=> First'
  PROVE  Carried(d) /\ frames' + d <= frames
<1> DEFINE n == Count
           l == Len(incoming)
           b == Begins(incoming, n)
<1>1. /\ n \in 1..Len(arrived)
      /\ arrived' \in Seq(Cells) /\ Shifted(arrived', arrived, n)
  BY TakesCount
<1>2. /\ arrived \in Seq(Cells) /\ transit \in Seq(Cells) /\ incoming \in Seq(Cells)
      /\ UNCHANGED <<transit, pending, answered>>
      /\ l \in Nat /\ Len(arrived) \in Nat /\ l = Len(arrived) + Len(transit)
      /\ Len(transit) \in Nat /\ Len(pending) \in Nat
  BY ConcatProperties, LenProperties DEF TcpIInv, incoming, TakeBytes, server
<1>3. Shifted(incoming', incoming, n)
  BY <1>1, <1>2, ShiftBeforeMore DEF incoming
<1>4. b + taken >= 1 /\ b \in Nat /\ taken \in 0..1 /\ n \in Nat
  <2>1. b \in Nat /\ n \in Nat
    BY <1>1, <1>2, BeginsIs
  <2>2. CASE First
    <3>1. incoming[1].part = "id" /\ 1 \in 1..n
      BY <1>1, <1>2, <2>2, PrefixIsWhole DEF TakeBytes
    <3> QED
      BY <2>1, <2>2, <3>1, BeginsAtId DEF taken
  <2>3. CASE ~First
    BY <2>1, <2>3 DEF taken
  <2> QED
    BY <2>2, <2>3, <2>1 DEF taken
<1> HIDE DEF n, l, b
<1>5. /\ Len(incoming') = l - n /\ Len(incoming') \in Nat
      /\ \A i \in 1..Len(incoming') : incoming'[i] = incoming[i + n]
  BY <1>2, <1>3, <1>4 DEF Shifted, l
<1>6. \A i \in 0..Len(incoming') :
         /\ i + n \in Nat /\ Begins(incoming', i) \in Nat
         /\ Begins(incoming, i + n) = b + Begins(incoming', i)
  <2>1. \A i \in 0..Len(incoming') :
           /\ i + n \in Nat /\ Begins(incoming', i) \in Nat
           /\ Begins(incoming, i + n) = Begins(incoming, n) + Begins(incoming', i)
    BY <1>3, <1>4, <1>5, ShiftBegins
  <2> QED
    BY <2>1 DEF b
<1>7. taken' = 1 - d
  BY DEF taken
<1>8. frames' + d <= frames /\ frames \in Nat /\ frames' \in Nat
  <2> DEFINE p == Len(incoming')
             c == Begins(incoming', p)
  <2>1. p \in 0..p /\ p + n = l
    BY <1>2, <1>4, <1>5
  <2>2. c \in Nat /\ Begins(incoming, p + n) = b + c
    BY <1>6, <2>1
  <2>3. frames = (b + c) + taken
    BY <2>1, <2>2 DEF frames, l
  <2>4. frames' = c + (1 - d)
    BY <1>7 DEF frames
  <2> DEFINE x == frames
             y == frames'
  <2> HIDE DEF c, p, x, y
  <2>5. y + d <= x /\ x \in Nat /\ y \in Nat
    BY <1>4, <2>2, <2>3, <2>4 DEF x, y
  <2> QED
    BY <2>5 DEF x, y
<1>9. ASSUME NEW f \in OnTheWay'
      PROVE  \E g \in OnTheWay : f.id = g.id /\ f.own = g.own /\ f.place + d <= g.place
  <2>1. ASSUME NEW i \in 1..Len(incoming'), incoming'[i].part = "id", f = InStream(i)'
        PROVE  \E g \in OnTheWay : f.id = g.id /\ f.own = g.own /\ f.place + d <= g.place
    <3>1. i + n \in 1..l /\ incoming'[i] = incoming[i + n]
      BY <1>2, <1>4, <1>5
    <3>2. InStream(i + n) \in OnTheWay
      BY <2>1, <3>1 DEF OnTheWay, l
    <3>3. /\ f.id = incoming[i + n].val /\ f.own = incoming[i + n].own
          /\ f.place = Begins(incoming', i) + (1 - d)
      BY <1>7, <2>1, <3>1 DEF InStream
    <3>4. /\ InStream(i + n).id = incoming[i + n].val /\ InStream(i + n).own = incoming[i + n].own
          /\ InStream(i + n).place = Begins(incoming, i + n) + taken
      BY DEF InStream
    <3>5. i \in 0..Len(incoming')
      BY <1>5
    <3>6. (Begins(incoming', i) + (1 - d)) + d <= Begins(incoming, i + n) + taken
      BY <1>4, <1>6, <3>5
    <3> QED
      BY <3>2, <3>3, <3>4, <3>6
  <2>2. ASSUME NEW j \in 1..Len(pending), f = ToCome(j)'
        PROVE  \E g \in OnTheWay : f.id = g.id /\ f.own = g.own /\ f.place + d <= g.place
    <3>1. ToCome(j) \in OnTheWay
      BY DEF OnTheWay
    <3>2. /\ f.id = pending[j].id /\ f.own = pending[j].own /\ f.place = frames' + j
          /\ ToCome(j).id = pending[j].id /\ ToCome(j).own = pending[j].own
          /\ ToCome(j).place = frames + j
      BY <1>2, <2>2 DEF ToCome
    <3>3. (frames' + j) + d <= frames + j
      <4> DEFINE x == frames
                 y == frames'
      <4>1. x \in Nat /\ y \in Nat /\ y + d <= x
        BY <1>8
      <4> HIDE DEF x, y
      <4>2. (y + j) + d <= x + j
        BY <1>2, <4>1
      <4> QED
        BY <4>2 DEF x, y
    <3> QED
      BY <3>1, <3>2, <3>3
  <2>3. ASSUME answered # NoFrame, extra < MaxExtra, f = Again'
        PROVE  \E g \in OnTheWay : f.id = g.id /\ f.own = g.own /\ f.place + d <= g.place
    <3>1. Again \in OnTheWay
      BY <2>3 DEF OnTheWay
    <3>2. /\ f.id = answered.id /\ f.own = answered.own /\ f.place = frames'
          /\ Again.id = answered.id /\ Again.own = answered.own /\ Again.place = frames
      BY <1>2, <2>3 DEF Again
    <3>3. frames' + d <= frames
      BY <1>8
    <3> QED
      BY <3>1, <3>2, <3>3
  <2> QED
    BY <1>2, <2>1, <2>2, <2>3 DEF OnTheWay
<1> QED
  BY <1>8, <1>9 DEF Carried

\* A response that is sent is the last in the stream.
LEMMA ResponseIsLast ==
  ASSUME DataOK, NEW r \in FramesSent, NEW len \in ResponseLens, NEW exception \in 0..1,
         transit' = transit \o ResponseTo(r, len, exception), arrived' = arrived, tcp' = tcp,
         NEW i \in 1..Len(incoming'), incoming'[i].part = "id"
  PROVE  \/ i \in 1..Len(incoming) /\ incoming[i].part = "id" /\ InStream(i)' = InStream(i)
         \/ InStream(i)' = [id |-> r.id, own |-> r.own, place |-> frames + 1]
<1> DEFINE n == Len(incoming)
<1>1. /\ len \in Nat /\ Len(incoming') = n + len + 2
      /\ \A j \in 1..n : incoming'[j] = incoming[j] /\ Begins(incoming', j) = Begins(incoming, j)
      /\ \A j \in 1..(len + 2) : incoming'[n + j].own = r.own
      /\ incoming'[n + 1].val = r.id
      /\ \A j \in 1..(len + 2) : incoming'[n + j].part = "id" <=> j = 1
      /\ \A j \in 1..(len + 2) : Begins(incoming', n + j) = Begins(incoming, n) + 1
  BY ResponseFollows
<1>2. n \in Nat /\ taken \in 0..1 /\ taken' = taken /\ Begins(incoming, n) \in Nat
  BY WayTyped, BeginsIs DEF WayIsTyped, taken, First
<1>3. frames = Begins(incoming, n) + taken
  BY DEF frames
<1> HIDE DEF n
<1>4. CASE i <= n
  <2>1. i \in 1..n
    BY <1>1, <1>2, <1>4
  <2>2. incoming'[i] = incoming[i] /\ Begins(incoming', i) = Begins(incoming, i)
    BY <1>1, <2>1
  <2>3. InStream(i)' = InStream(i)
    BY <1>2, <2>2 DEF InStream
  <2> QED
    BY <2>1, <2>2, <2>3 DEF n
<1>5. CASE i > n
  <2> DEFINE j == i - n
  <2>1. j \in 1..(len + 2) /\ i = n + j
    BY <1>1, <1>2, <1>5
  <2> HIDE DEF j
  <2>2. j = 1
    BY <1>1, <2>1
  <2>3. /\ incoming'[i].own = r.own /\ incoming'[i].val = r.id
        /\ Begins(incoming', i) = Begins(incoming, n) + 1
    BY <1>1, <2>1, <2>2
  <2>4. Begins(incoming', i) + taken' = frames + 1
    BY <1>2, <1>3, <2>3
  <2>5. InStream(i)' = [id |-> r.id, own |-> r.own, place |-> frames + 1]
    BY <2>3, <2>4 DEF InStream
  <2> QED
    BY <2>5
<1> QED
  BY <1>2, <1>4, <1>5

\* An answer takes the place that was kept for it.
LEMMA AnswerFollows ==
  ASSUME TcpIInv, Answer
  PROVE  Carried(0) /\ frames' + Len(pending') = frames + Len(pending)
<1>1. /\ pending # <<>> /\ answered' = Head(pending) /\ pending' = Tail(pending)
      /\ UNCHANGED <<tcp, arrived, extra, errors>>
  BY DEF Answer, bounds
<1>2. PICK len \in ResponseLens, exception \in 0..1 :
         transit' = transit \o ResponseTo(Head(pending), len, exception)
  BY DEF Answer
<1> DEFINE m == Len(pending)
           r == pending[1]
<1>3. DataOK /\ pending \in Seq(FramesSent) /\ m \in Nat
  BY LenProperties DEF TcpIInv, DataOK
<1>4. /\ Head(pending) = r /\ r \in FramesSent /\ m \in Nat \ {0}
      /\ Tail(pending) \in Seq(FramesSent) /\ Len(Tail(pending)) = m - 1
      /\ \A j \in 1..(m - 1) : Tail(pending)[j] = pending[j + 1]
  BY <1>1, <1>3, HeadTailProperties, EmptySeq, ElementOfSeq
<1>5. frames' = frames + 1 /\ frames \in Nat
  BY <1>1, <1>2, <1>3, <1>4, ResponseFollows, WayTyped DEF WayIsTyped
<1>6. ToCome(1) \in OnTheWay /\ ToCome(1) = [id |-> r.id, own |-> r.own, place |-> frames + 1]
  BY <1>4 DEF OnTheWay, ToCome
<1> HIDE DEF m
<1>7. ASSUME NEW f \in OnTheWay'
      PROVE  f \in OnTheWay
  <2>1. ASSUME NEW i \in 1..Len(incoming'), incoming'[i].part = "id", f = InStream(i)'
        PROVE  f \in OnTheWay
    <3>1. CASE i \in 1..Len(incoming) /\ incoming[i].part = "id" /\ InStream(i)' = InStream(i)
      BY <2>1, <3>1 DEF OnTheWay
    <3>2. CASE InStream(i)' = [id |-> r.id, own |-> r.own, place |-> frames + 1]
      BY <1>6, <2>1, <3>2
    <3> QED
      BY <1>1, <1>2, <1>3, <1>4, <2>1, <3>1, <3>2, ResponseIsLast
  <2>2. ASSUME NEW j \in 1..Len(pending'), f = ToCome(j)'
        PROVE  f \in OnTheWay
    <3>1. j \in 1..(m - 1) /\ j + 1 \in 1..m /\ pending'[j] = pending[j + 1]
      BY <1>1, <1>4
    <3>2. f = [id |-> pending[j + 1].id, own |-> pending[j + 1].own, place |-> (frames + 1) + j]
      BY <1>5, <2>2, <3>1 DEF ToCome
    <3>3. (frames + 1) + j = frames + (j + 1)
      BY <1>5
    <3>4. f = ToCome(j + 1)
      BY <3>2, <3>3 DEF ToCome
    <3> QED
      BY <3>1, <3>4 DEF OnTheWay, m
  <2>3. ASSUME f = Again'
        PROVE  f \in OnTheWay
    <3>1. Again' = [id |-> r.id, own |-> r.own, place |-> frames + 1]
      BY <1>1, <1>4, <1>5 DEF Again
    <3> QED
      BY <1>6, <2>3, <3>1
  <2> QED
    BY <2>1, <2>2, <2>3 DEF OnTheWay
<1>8. \A f \in OnTheWay : f.place \in Nat /\ f.place + 0 <= f.place
  BY <1>3, WayTyped DEF WayIsTyped
<1>9. frames' + Len(pending') = frames + m
  BY <1>1, <1>4, <1>5
<1> QED
  BY <1>7, <1>8, <1>9 DEF Carried, m

\* A second answer puts all that follows it one place back.
LEMMA AnswerTwiceFollows ==
  ASSUME TcpIInv, AnswerTwice
  PROVE  Carried(-1) /\ frames' = frames + 1
<1>1. /\ answered # NoFrame /\ extra < MaxExtra /\ extra' = extra + 1
      /\ UNCHANGED <<tcp, arrived, pending, answered>>
  BY DEF AnswerTwice
<1>2. PICK len \in ResponseLens : transit' = transit \o ResponseTo(answered, len, 0)
  BY DEF AnswerTwice
<1>3. DataOK /\ answered \in FramesSent /\ 0 \in 0..1 /\ Len(pending) \in Nat
  BY LenProperties DEF TcpIInv, DataOK
<1>4. frames' = frames + 1 /\ frames \in Nat
  BY <1>1, <1>2, <1>3, ResponseFollows, WayTyped DEF WayIsTyped
<1>5. /\ Again \in OnTheWay
      /\ Again.id = answered.id /\ Again.own = answered.own /\ Again.place = frames
  BY <1>1 DEF OnTheWay, Again
<1>6. \A g \in OnTheWay : g.place \in Nat
  BY <1>3, WayTyped DEF WayIsTyped
<1>7. ASSUME NEW f \in OnTheWay'
      PROVE  \E g \in OnTheWay : f.id = g.id /\ f.own = g.own /\ f.place + (-1) <= g.place
  <2>0. ASSUME f.id = answered.id, f.own = answered.own, f.place = frames + 1
        PROVE  \E g \in OnTheWay : f.id = g.id /\ f.own = g.own /\ f.place + (-1) <= g.place
    <3>1. f.place + (-1) <= Again.place
      BY <1>4, <1>5, <2>0
    <3> QED
      BY <1>5, <2>0, <3>1
  <2>1. ASSUME NEW i \in 1..Len(incoming'), incoming'[i].part = "id", f = InStream(i)'
        PROVE  \E g \in OnTheWay : f.id = g.id /\ f.own = g.own /\ f.place + (-1) <= g.place
    <3>1. CASE i \in 1..Len(incoming) /\ incoming[i].part = "id" /\ InStream(i)' = InStream(i)
      <4>1. f \in OnTheWay
        BY <2>1, <3>1 DEF OnTheWay
      <4>2. f.place + (-1) <= f.place
        BY <1>6, <4>1
      <4> QED
        BY <4>1, <4>2
    <3>2. CASE InStream(i)' = [id |-> answered.id, own |-> answered.own, place |-> frames + 1]
      BY <2>0, <2>1, <3>2
    <3> QED
      BY <1>1, <1>2, <1>3, <2>1, <3>1, <3>2, ResponseIsLast
  <2>2. ASSUME NEW j \in 1..Len(pending), f = ToCome(j)'
        PROVE  \E g \in OnTheWay : f.id = g.id /\ f.own = g.own /\ f.place + (-1) <= g.place
    <3>1. ToCome(j) \in OnTheWay
      BY DEF OnTheWay
    <3>2. /\ f.id = ToCome(j).id /\ f.own = ToCome(j).own
          /\ f.place = (frames + 1) + j /\ ToCome(j).place = frames + j
      BY <1>1, <1>4, <2>2 DEF ToCome
    <3>3. f.place + (-1) <= ToCome(j).place
      <4>1. j \in Nat
        BY <1>3
      <4> QED
        BY <1>4, <3>2, <4>1
    <3> QED
      BY <3>1, <3>2, <3>3
  <2>3. ASSUME f = Again'
        PROVE  \E g \in OnTheWay : f.id = g.id /\ f.own = g.own /\ f.place + (-1) <= g.place
    <3>1. f.id = answered.id /\ f.own = answered.own /\ f.place = frames + 1
      BY <1>1, <1>4, <2>3 DEF Again
    <3> QED
      BY <2>0, <3>1
  <2> QED
    BY <1>1, <2>1, <2>2, <2>3 DEF OnTheWay
<1> QED
  BY <1>4, <1>7 DEF Carried

\* A connection that breaks takes with it what has not arrived.
LEMMA DropFollows ==
  ASSUME TcpIInv, Drop
  PROVE  Carried(0) /\ frames' + Len(pending') <= frames + Len(pending)
<1>1. /\ transit' = <<>> /\ pending' = <<>> /\ answered' = NoFrame
      /\ UNCHANGED <<tcp, arrived, extra, errors>>
  BY DEF Drop, bounds
<1> DEFINE n == Len(arrived)
           l == Len(incoming)
<1>2. /\ DataOK /\ arrived \in Seq(Cells) /\ transit \in Seq(Cells)
      /\ n \in Nat /\ l \in Nat /\ n <= l /\ Len(pending) \in Nat /\ taken \in 0..1
      /\ \A i \in 1..n : incoming[i] = arrived[i]
  BY ConcatProperties, LenProperties DEF TcpIInv, DataOK, incoming, taken
<1>3. incoming' = arrived
  BY <1>1, <1>2, ConcatEmptySeq DEF incoming
<1>4. taken' = taken /\ Len(pending') = 0
  BY <1>1, EmptySeq DEF taken, First
<1> HIDE DEF n, l
<1>5. \A i \in 0..n : Begins(arrived, i) = Begins(incoming, i)
  <2> TAKE i \in 0..n
  <2>1. i \in Nat /\ \A j \in 1..i : arrived[j].part = incoming[j].part
    BY <1>2
  <2> QED
    BY <2>1, BeginsAlike
<1>6. frames' <= frames /\ frames \in Nat /\ frames' \in Nat
  <2>1. Begins(incoming, n) <= Begins(incoming, l)
    BY <1>2, BeginsGrows
  <2>2. Begins(incoming, n) \in Nat /\ Begins(incoming, l) \in Nat
    BY <1>2, BeginsIs
  <2>3. frames' = Begins(incoming, n) + taken /\ frames = Begins(incoming, l) + taken
    <3>1. Begins(arrived, n) = Begins(incoming, n)
      BY <1>2, <1>5
    <3> QED
      BY <1>3, <1>4, <3>1 DEF frames, n, l
  <2> QED
    BY <1>2, <2>1, <2>2, <2>3
<1>7. ASSUME NEW f \in OnTheWay'
      PROVE  f \in OnTheWay
  <2>1. PICK i \in 1..n : arrived[i].part = "id" /\ f = InStream(i)'
    BY <1>1, <1>3, <1>4 DEF OnTheWay, n
  <2>2. i \in 1..l /\ incoming[i] = arrived[i] /\ Begins(arrived, i) = Begins(incoming, i)
    BY <1>2, <1>5
  <2>3. f = InStream(i)
    BY <1>3, <1>4, <2>1, <2>2 DEF InStream
  <2> QED
    BY <2>1, <2>2, <2>3 DEF OnTheWay, l
<1>8. \A f \in OnTheWay : f.place \in Nat /\ f.place + 0 <= f.place
  BY <1>2, WayTyped DEF WayIsTyped
<1>9. frames' + Len(pending') <= frames + Len(pending)
  <2> DEFINE x == frames
             y == frames'
             p == Len(pending)
             o == Len(pending')
  <2>1. x \in Nat /\ y \in Nat /\ y <= x /\ p \in Nat /\ o = 0
    BY <1>2, <1>4, <1>6
  <2> HIDE DEF x, y, p, o
  <2>2. y + o <= x + p
    BY <2>1
  <2> QED
    BY <2>2 DEF x, y, p, o
<1> QED
  BY <1>7, <1>8, <1>9 DEF Carried

\* Nothing comes and nothing goes.
LEMMA SameFollows ==
  ASSUME DataOK, UNCHANGED <<incoming, pending, answered, extra>>, First' = First
  PROVE  OnTheWay' = OnTheWay /\ frames' = frames /\ Carried(0)
<1>1. taken' = taken
  BY DEF taken
<1>2. frames' = frames
  BY <1>1 DEF frames
<1>3. \A i : InStream(i)' = InStream(i) /\ ToCome(i)' = ToCome(i)
  BY <1>1, <1>2 DEF InStream, ToCome
<1>4. Again' = Again
  BY <1>2 DEF Again
<1>5. OnTheWay' = OnTheWay
  BY <1>3, <1>4 DEF OnTheWay
<1>6. \A f \in OnTheWay : f.place \in Nat /\ f.place + 0 <= f.place
  BY WayTyped DEF WayIsTyped
<1> QED
  BY <1>2, <1>5, <1>6 DEF Carried

LEMMA StaleIsNotOwn ==
  ASSUME NEW s \in Seq(Cells), NEW i \in 1..Len(s)
  PROVE  Stale(s)[i].own = FALSE
<1>1. s[i] \in Cells
  BY ElementOfSeq
<1>2. \A x \in Cells : [x EXCEPT !.own = FALSE].own = FALSE
  BY DEF Cells
<1>3. Stale(s)[i] = [s[i] EXCEPT !.own = FALSE]
  BY DEF Stale
<1> QED
  BY <1>1, <1>2, <1>3

LEMMA StaleRequests ==
  ASSUME NEW s \in Seq(FramesSent), NEW i \in 1..Len(s)
  PROVE  Stale(s)[i].own = FALSE /\ Stale(s)[i].id = s[i].id
<1>1. s[i] \in FramesSent
  BY ElementOfSeq
<1>2. \A x \in FramesSent : [x EXCEPT !.own = FALSE].own = FALSE /\ [x EXCEPT !.own = FALSE].id = x.id
  BY DEF FramesSent
<1>3. Stale(s)[i] = [s[i] EXCEPT !.own = FALSE]
  BY DEF Stale
<1> QED
  BY <1>1, <1>2, <1>3

\* write() leaves the stream as it is, as answers to requests before.
LEMMA StaleStream ==
  ASSUME DataOK, arrived' = Stale(arrived), transit' = Stale(transit)
  PROVE  /\ incoming' \in Seq(Cells) /\ Len(incoming') = Len(incoming)
         /\ \A i \in 1..Len(incoming) :
              /\ incoming'[i].part = incoming[i].part /\ incoming'[i].val = incoming[i].val
              /\ incoming'[i].own = FALSE
<1> DEFINE m == Len(arrived)
           n == Len(transit)
           a == Stale(arrived)
           b == Stale(transit)
           u == a \o b
<1>1. /\ arrived \in Seq(Cells) /\ transit \in Seq(Cells)
      /\ m \in Nat /\ n \in Nat /\ Len(incoming) = m + n
      /\ \A i \in 1..(m + n) : incoming[i] = IF i <= m THEN arrived[i] ELSE transit[i - m]
  BY ConcatProperties, LenProperties DEF DataOK, incoming
<1>2. /\ a \in Seq(Cells) /\ Len(a) = m
      /\ \A i \in 1..m : a[i].part = arrived[i].part /\ a[i].val = arrived[i].val /\ a[i].own = FALSE
  BY <1>1, StaleCells, StaleIsNotOwn
<1>3. /\ b \in Seq(Cells) /\ Len(b) = n
      /\ \A i \in 1..n : b[i].part = transit[i].part /\ b[i].val = transit[i].val /\ b[i].own = FALSE
  BY <1>1, StaleCells, StaleIsNotOwn
<1> HIDE DEF a, b
<1>4. /\ u \in Seq(Cells) /\ Len(u) = m + n
      /\ \A i \in 1..(m + n) : u[i] = IF i <= m THEN a[i] ELSE b[i - m]
  <2>1. a \in Seq(Cells) /\ b \in Seq(Cells)
    BY <1>2, <1>3
  <2>2. /\ u \in Seq(Cells) /\ Len(u) = Len(a) + Len(b)
        /\ \A i \in 1..(Len(a) + Len(b)) : u[i] = IF i <= Len(a) THEN a[i] ELSE b[i - Len(a)]
    BY <2>1, ConcatProperties
  <2> QED
    BY <1>2, <1>3, <2>2
<1>5. incoming' = u
  BY DEF incoming, a, b
<1> HIDE DEF u, m, n
<1>6. ASSUME NEW i \in 1..(m + n)
      PROVE  u[i].part = incoming[i].part /\ u[i].val = incoming[i].val /\ u[i].own = FALSE
  <2>1. CASE i <= m
    <3>1. i \in 1..m
      BY <1>1, <2>1
    <3>2. incoming[i] = arrived[i] /\ u[i] = a[i]
      BY <1>1, <1>4, <2>1
    <3> QED
      BY <1>2, <3>1, <3>2
  <2>2. CASE i > m
    <3>1. i - m \in 1..n /\ ~(i <= m)
      BY <1>1, <2>2
    <3>2. incoming[i] = transit[i - m] /\ u[i] = b[i - m]
      BY <1>1, <1>4, <3>1
    <3> QED
      BY <1>3, <3>1, <3>2
  <2>3. i <= m \/ i > m
    BY <1>1
  <2> QED
    BY <2>1, <2>2, <2>3
<1> QED
  BY <1>1, <1>4, <1>5, <1>6

\* A request is the last in the order of reading; what was on the way before
\* stays where it was.
LEMMA WriteFollows ==
  ASSUME TcpIInv, First, First', extra' = extra,
         pending' = Append(Stale(pending), [id |-> transaction', own |-> TRUE]), transaction' \in Nat,
         answered' = [answered EXCEPT !.own = FALSE],
         arrived' = Stale(arrived), transit' = Stale(transit)
  PROVE  /\ frames' = frames /\ Len(pending') = Len(pending) + 1
         /\ \A f \in OnTheWay' :
              \/ f = [id |-> transaction', own |-> TRUE, place |-> frames + (Len(pending) + 1)]
              \/ \E g \in OnTheWay : f.id = g.id /\ f.place = g.place
<1> DEFINE l == Len(incoming)
           m == Len(pending)
           r == [id |-> transaction', own |-> TRUE]
<1>1. /\ DataOK /\ pending \in Seq(FramesSent) /\ m \in Nat /\ answered \in FramesSent
      /\ l \in Nat /\ frames \in Nat
  BY WayTyped DEF TcpIInv, DataOK, WayIsTyped
<1>2. /\ Len(incoming') = l
      /\ \A i \in 1..l : incoming'[i].part = incoming[i].part /\ incoming'[i].val = incoming[i].val
  BY <1>1, StaleStream
<1>3. \A i \in 0..l : Begins(incoming', i) = Begins(incoming, i)
  <2> TAKE i \in 0..l
  <2>1. i \in Nat /\ \A j \in 1..i : incoming'[j].part = incoming[j].part
    BY <1>1, <1>2
  <2> QED
    BY <2>1, BeginsAlike
<1>4. taken = 0 /\ taken' = 0
  BY DEF taken
<1>5. frames' = frames
  <2>1. l \in 0..l
    BY <1>1
  <2>2. Begins(incoming', l) = Begins(incoming, l)
    BY <1>3, <2>1
  <2> QED
    BY <1>2, <1>4, <2>2 DEF frames
<1>6. /\ Len(pending') = m + 1 /\ pending'[m + 1] = r
      /\ \A j \in 1..m : pending'[j].id = pending[j].id
  <2> DEFINE s == Stale(pending)
  <2>1. s \in Seq(FramesSent) /\ Len(s) = m /\ \A j \in 1..m : s[j].id = pending[j].id
    BY <1>1, StaleFrames, StaleRequests
  <2>2. r \in FramesSent
    BY DEF FramesSent
  <2>3. pending' = Append(s, r)
    OBVIOUS
  <2> HIDE DEF s, r
  <2>4. /\ Len(Append(s, r)) = Len(s) + 1 /\ Append(s, r)[Len(s) + 1] = r
        /\ \A j \in 1..Len(s) : Append(s, r)[j] = s[j]
    BY <2>1, <2>2, AppendProperties
  <2> QED
    BY <2>1, <2>3, <2>4
<1> HIDE DEF l, m, r
<1>7. ASSUME NEW f \in OnTheWay'
      PROVE  \/ f = [id |-> transaction', own |-> TRUE, place |-> frames + (m + 1)]
             \/ \E g \in OnTheWay : f.id = g.id /\ f.place = g.place
  <2>1. ASSUME NEW i \in 1..Len(incoming'), incoming'[i].part = "id", f = InStream(i)'
        PROVE  \E g \in OnTheWay : f.id = g.id /\ f.place = g.place
    <3>1. i \in 1..l /\ i \in 0..l
      BY <1>1, <1>2
    <3>2. InStream(i) \in OnTheWay
      BY <1>2, <2>1, <3>1 DEF OnTheWay, l
    <3>3. f.id = InStream(i).id /\ f.place = InStream(i).place
      BY <1>2, <1>3, <1>4, <2>1, <3>1 DEF InStream
    <3> QED
      BY <3>2, <3>3
  <2>2. ASSUME NEW j \in 1..Len(pending'), f = ToCome(j)'
        PROVE  \/ f = [id |-> transaction', own |-> TRUE, place |-> frames + (m + 1)]
               \/ \E g \in OnTheWay : f.id = g.id /\ f.place = g.place
    <3>1. CASE j = m + 1
      <4>1. f = [id |-> pending'[j].id, own |-> pending'[j].own, place |-> frames' + j]
        BY <2>2 DEF ToCome
      <4>2. pending'[j].id = transaction' /\ pending'[j].own = TRUE
        BY <1>6, <3>1 DEF r
      <4>3. f = [id |-> transaction', own |-> TRUE, place |-> frames + (m + 1)]
        BY <1>5, <3>1, <4>1, <4>2
      <4> QED
        BY <4>3
    <3>2. CASE j \in 1..m
      <4>1. ToCome(j) \in OnTheWay
        BY <3>2 DEF OnTheWay, m
      <4>2. f.id = ToCome(j).id /\ f.place = ToCome(j).place
        BY <1>5, <1>6, <2>2, <3>2 DEF ToCome
      <4> QED
        BY <4>1, <4>2
    <3>3. j = m + 1 \/ j \in 1..m
      BY <1>1, <1>6
    <3> QED
      BY <3>1, <3>2, <3>3
  <2>3. ASSUME answered' # NoFrame, extra < MaxExtra, f = Again'
        PROVE  \E g \in OnTheWay : f.id = g.id /\ f.place = g.place
    <3>1. answered # NoFrame
      <4>1. \A x \in FramesSent : x.own = FALSE => [x EXCEPT !.own = FALSE] = x
        BY DEF FramesSent
      <4>2. NoFrame.own = FALSE
        BY DEF NoFrame
      <4>3. [NoFrame EXCEPT !.own = FALSE] = NoFrame
        BY <4>1, <4>2, NoFrameIsFrame
      <4> QED
        BY <2>3, <4>3
    <3>2. Again \in OnTheWay
      BY <2>3, <3>1 DEF OnTheWay
    <3>3. answered'.id = answered.id
      BY <1>1 DEF FramesSent
    <3>4. f.id = Again.id /\ f.place = Again.place
      BY <1>5, <2>3, <3>3 DEF Again
    <3> QED
      BY <3>2, <3>4
  <2> QED
    BY <2>1, <2>2, <2>3 DEF OnTheWay
<1> QED
  BY <1>5, <1>6, <1>7 DEF m

-----------------------------------------------------------------------------
(* Frames of one response                                                  *)

LEMMA ShiftKeepsOwn ==
  ASSUME NEW s \in Seq(Cells), NEW t \in Seq(Cells), NEW n, Shifted(t, s, n), Framed(s),
         OfOneResponse(s)
  PROVE  OfOneResponse(t)
<1>1. /\ n \in Nat /\ Len(t) \in Nat /\ Len(s) \in Nat /\ Len(t) = Len(s) - n
      /\ \A i \in 1..Len(t) : i + n \in 1..Len(s) /\ t[i] = s[i + n]
  BY LenProperties DEF Shifted
<1>2. ASSUME NEW i \in 1..Len(t), t[i].part = "id",
             NEW j \in i..(i + 1 + t[i + 1].val), j <= Len(t)
      PROVE  t[j].own = t[i].own
  <2>1. i + n \in 1..Len(s) /\ s[i + n].part = "id" /\ s[i + n] = t[i]
    BY <1>1, <1>2
  <2>2. i + n < Len(s)
    BY <2>1 DEF Framed
  <2>3. i + 1 \in 1..Len(t) /\ (i + 1) + n = (i + n) + 1
    <3> DEFINE k == Len(t)
               m == Len(s)
    <3>1. n \in Nat /\ k \in Nat /\ m \in Nat /\ k = m - n /\ i \in 1..k /\ i + n < m
      BY <1>1, <2>2
    <3> HIDE DEF k, m
    <3>2. i + 1 \in 1..k /\ (i + 1) + n = (i + n) + 1
      BY <3>1
    <3> QED
      BY <3>2 DEF k
  <2>4. t[i + 1] = s[(i + n) + 1] /\ t[i + 1].val \in Nat
    BY <1>1, <2>3, Values
  <2> DEFINE v == t[i + 1].val
  <2>5. v \in Nat /\ j \in i..(i + 1 + v) /\ s[(i + n) + 1].val = v
    BY <1>2, <2>4
  <2> HIDE DEF v
  <2>6. j \in 1..Len(t) /\ j + n \in (i + n)..((i + n) + 1 + v) /\ j + n <= Len(s)
    BY <1>1, <1>2, <2>5
  <2>7. s[j + n].own = s[i + n].own
    BY <2>1, <2>5, <2>6 DEF OfOneResponse
  <2> QED
    BY <1>1, <2>1, <2>6, <2>7
<1> QED
  BY <1>2 DEF OfOneResponse

LEMMA BeginningKeepsOwn ==
  ASSUME NEW s \in Seq(Cells), NEW t \in Seq(Cells), Len(t) <= Len(s),
         \A i \in 1..Len(t) : t[i] = s[i], Framed(t), OfOneResponse(s)
  PROVE  OfOneResponse(t)
<1>1. Len(t) \in Nat /\ Len(s) \in Nat
  BY LenProperties
<1>2. ASSUME NEW i \in 1..Len(t), t[i].part = "id",
             NEW j \in i..(i + 1 + t[i + 1].val), j <= Len(t)
      PROVE  t[j].own = t[i].own
  <2>1. i < Len(t)
    BY <1>2 DEF Framed
  <2>2. i + 1 \in 1..Len(t) /\ i \in 1..Len(s) /\ j \in 1..Len(t)
    BY <1>1, <1>2, <2>1
  <2>3. t[i + 1] = s[i + 1] /\ t[i] = s[i] /\ t[j] = s[j]
    BY <2>2
  <2>4. j \in i..(i + 1 + s[i + 1].val) /\ j <= Len(s) /\ s[i].part = "id"
    BY <1>1, <1>2, <2>3
  <2>5. s[j].own = s[i].own
    BY <2>2, <2>4 DEF OfOneResponse
  <2> QED
    BY <2>3, <2>5
<1> QED
  BY <1>2 DEF OfOneResponse

\* The server sends whole responses.
LEMMA ResponseKeepsOwn ==
  ASSUME DataOK, Framed(incoming), FramesEnd(incoming), OfOneResponse(incoming),
         NEW r \in FramesSent, NEW len \in ResponseLens, NEW exception \in 0..1,
         transit' = transit \o ResponseTo(r, len, exception), arrived' = arrived, tcp' = tcp
  PROVE  OfOneResponse(incoming')
<1> DEFINE n == Len(incoming)
           u == incoming'
<1>1. /\ len \in Nat /\ Len(u) = n + len + 2
      /\ \A i \in 1..n : u[i] = incoming[i]
      /\ \A i \in 1..(len + 2) : u[n + i].own = r.own
      /\ \A i \in 1..(len + 2) : u[n + i].part = "id" <=> i = 1
  BY ResponseFollows
<1>2. n \in Nat /\ incoming \in Seq(Cells)
  BY WayTyped DEF WayIsTyped
<1> HIDE DEF n, u
<1>3. ASSUME NEW i \in 1..Len(u), u[i].part = "id",
             NEW j \in i..(i + 1 + u[i + 1].val), j <= Len(u)
      PROVE  u[j].own = u[i].own
  <2>1. CASE i <= n
    <3>1. i \in 1..n /\ incoming[i].part = "id"
      BY <1>1, <1>2, <1>3, <2>1
    <3>2. i < n /\ i + 1 + incoming[i + 1].val <= n
      BY <3>1 DEF Framed, FramesEnd, n
    <3>3. i + 1 \in 1..n /\ u[i + 1] = incoming[i + 1] /\ incoming[i + 1].val \in Nat
      <4>1. i + 1 \in 1..n
        BY <1>2, <3>1, <3>2
      <4> QED
        BY <1>1, <1>2, <4>1, Values DEF n
    <3> DEFINE v == incoming[i + 1].val
    <3>4. v \in Nat /\ i + 1 + v <= n /\ j \in i..(i + 1 + v)
      BY <1>3, <3>2, <3>3
    <3>5. \A k \in i..(i + 1 + v) : k <= n => incoming[k].own = incoming[i].own
      BY <3>1 DEF OfOneResponse, n
    <3> HIDE DEF v
    <3>6. j \in 1..n
      BY <1>2, <3>1, <3>4
    <3>7. j <= n
      BY <1>2, <3>6
    <3>8. incoming[j].own = incoming[i].own
      BY <3>4, <3>5, <3>7
    <3> QED
      BY <1>1, <3>1, <3>6, <3>8
  <2>2. CASE i > n
    <3>1. i - n \in 1..(len + 2) /\ n + (i - n) = i
      BY <1>1, <1>2, <2>2
    <3>2. j \in Int /\ j >= i
      BY <1>3
    <3>3. j - n \in 1..(len + 2) /\ n + (j - n) = j
      BY <1>1, <1>2, <1>3, <2>2, <3>2
    <3> QED
      BY <1>1, <3>1, <3>3
  <2> QED
    BY <1>2, <2>1, <2>2
<1> QED
  BY <1>3 DEF OfOneResponse, u

\* What is read of a frame is of one response, and so is its rest; what has
\* the number of the request that is waited for is the response to it.
LEMMA ReadingOwn ==
  ASSUME TcpIInv, ResponsesAreWhole, NumbersAreFresh, TakeBytes, state = "BEGIN_READ"
  PROVE  /\ got'[1].part = "id" /\ \A j \in 1..Len(got') : got'[j].own = got'[1].own
         /\ \A j \in 1..(packetSz' - Len(got')) : j <= Len(incoming') => incoming'[j].own = got'[1].own
         /\ got'[1].val = transaction => got'[1].own
         /\ OfOneResponse(incoming')
<1> DEFINE n == Count
           l == Len(incoming)
           first == IF First THEN incoming[1] ELSE got[1]
<1>1. /\ Needed \in Nat /\ n \in 1..Len(arrived) /\ n <= Needed
      /\ arrived' \in Seq(Cells) /\ Shifted(arrived', arrived, n)
      /\ packetSz' - Len(got') = Needed - n
      /\ GetsFromFront
  BY TakesCount
<1>2. /\ arrived \in Seq(Cells) /\ transit \in Seq(Cells) /\ incoming \in Seq(Cells)
      /\ transit' = transit /\ arrived # <<>>
      /\ Len(arrived) \in Nat /\ Len(transit) \in Nat /\ l = Len(arrived) + Len(transit)
      /\ \A i \in 1..Len(arrived) : incoming[i] = arrived[i]
  BY ConcatProperties, LenProperties DEF TcpIInv, incoming, TakeBytes
<1>3. Shifted(incoming', incoming, n) /\ incoming' \in Seq(Cells)
  BY <1>1, <1>2, ShiftBeforeMore, ConcatProperties DEF incoming
<1>4. OfOneResponse(incoming')
  BY <1>2, <1>3, ShiftKeepsOwn DEF ResponsesAreWhole, TcpIInv, StreamIsFramed
<1> HIDE DEF n, l
<1>5. l \in Nat /\ n \in Nat /\ n > 0 /\ n <= l /\ 1 \in 1..Len(arrived)
  BY <1>1, <1>2
<1>6. /\ first.part = "id"
      /\ \A j \in 1..Needed : j <= l => incoming[j].own = first.own
      /\ ~First => \A j \in 1..Len(got) : got[j].own = first.own
  <2>1. CASE First
    <3>1. /\ incoming[1].part = "id" /\ 1 \in 1..l
          /\ incoming[2].val \in Nat /\ Needed = incoming[2].val + 2
      BY <1>2, <1>5, <2>1, PrefixIsWhole DEF Needed
    <3>2. \A j \in 1..(1 + 1 + incoming[1 + 1].val) : j <= l => incoming[j].own = incoming[1].own
      BY <3>1 DEF ResponsesAreWhole, OfOneResponse, l
    <3>3. 1 + 1 + incoming[1 + 1].val = Needed
      BY <3>1
    <3> QED
      BY <2>1, <3>1, <3>2, <3>3
  <2>2. CASE ~First
    <3>1. Needed = nextFrame - 1
      BY <1>1, <2>2, LenProperties DEF Needed, nextFrame, TcpIInv
    <3> QED
      BY <2>2, <3>1 DEF ResponsesAreWhole, l
  <2> QED
    BY <2>1, <2>2
<1>7. first.val = transaction => first.own
  <2>1. CASE First
    <3>1. incoming[1].part = "id" /\ 1 \in 1..l
      BY <1>2, <1>5, <2>1, PrefixIsWhole
    <3>2. InStream(1) \in OnTheWay /\ InStream(1).id = first.val /\ InStream(1).own = first.own
      BY <2>1, <3>1 DEF OnTheWay, InStream, l
    <3> QED
      BY <3>2 DEF NumbersAreFresh
  <2>2. CASE ~First
    BY <2>2 DEF NumbersAreFresh
  <2> QED
    BY <2>1, <2>2
<1>8. got'[1] = first
  BY <1>1, <1>2, <1>5 DEF GetsFromFront
<1> HIDE DEF first
<1>9. ASSUME NEW j \in 1..Len(got')
      PROVE  got'[j].own = first.own
  <2>1. CASE ~First /\ j \in 1..Len(got) /\ got'[j] = got[j]
    BY <1>6, <2>1
  <2>2. CASE \E k \in 1..n : got'[j] = arrived[k]
    <3>1. PICK k \in 1..n : got'[j] = arrived[k]
      BY <2>2
    <3>2. k \in 1..Len(arrived) /\ k \in 1..Needed /\ k <= l
      BY <1>1, <1>2, <1>5, <3>1
    <3> QED
      BY <1>2, <1>6, <3>1, <3>2
  <2> QED
    BY <1>1, <2>1, <2>2 DEF GetsFromFront, n
<1>10. ASSUME NEW j \in 1..(packetSz' - Len(got')), j <= Len(incoming')
       PROVE  incoming'[j].own = first.own
  <2>1. /\ j \in 1..(Needed - n) /\ Len(incoming') = l - n /\ incoming'[j] = incoming[j + n]
    <3>1. j \in 1..(Needed - n)
      BY <1>1, <1>10
    <3>2. Len(incoming') = l - n
      BY <1>3 DEF Shifted, l
    <3>3. j \in 1..Len(incoming')
      BY <1>5, <1>10, <3>1, <3>2
    <3> QED
      BY <1>3, <3>1, <3>2, <3>3 DEF Shifted
  <2>2. j + n \in 1..Needed /\ j + n <= l
    BY <1>1, <1>5, <1>10, <2>1
  <2> QED
    BY <1>6, <2>1, <2>2
<1> QED
  BY <1>4, <1>6, <1>7, <1>8, <1>9, <1>10

-----------------------------------------------------------------------------
(* The order in which responses are read, and their age                    *)

Behind == /\ extra \in Nat /\ errors \in Nat /\ behind \in Nat
          /\ behind = extra + errors + IF state = "BEGIN_READ" THEN 1 ELSE 0

LEMMA BehindIs ==
  /\ WithinBounds => Behind
  /\ WithinBounds' => Behind'
<1>1. WithinBounds => Behind
  BY ModbusPortTCPAssumption DEF WithinBounds, Behind, behind
<1> QED
  BY <1>1, PTL

\* Places are gained no faster than the bound of what is behind grows.
LEMMA OrderKept ==
  ASSUME DataOK, DataOK', Counter, WithinBounds, WithinBounds', InOrderOfAge,
         transaction' = transaction,
         NEW d \in Int, Carried(d), behind <= behind' + d, frames' + Len(pending') <= behind'
  PROVE  InOrderOfAge'
<1>1. behind \in Nat /\ behind' \in Nat
  BY BehindIs DEF Behind
<1>2. ASSUME NEW f \in OnTheWay'
      PROVE  f.id \in 0..(Transactions - 1) /\ age(f.id)' + f.place <= behind'
  <2>1. PICK g \in OnTheWay : f.id = g.id /\ f.own = g.own /\ f.place + d <= g.place
    BY DEF Carried
  <2>2. g.id \in 0..(Transactions - 1) /\ age(g.id) + g.place <= behind
    BY DEF InOrderOfAge
  <2>3. age(g.id)' = age(g.id) /\ age(g.id) \in Nat
    <3>1. age(g.id) \in 0..(Transactions - 1)
      BY <2>2, AgeIs
    <3>2. age(g.id)' = age(g.id)
      BY DEF age
    <3> QED
      BY <3>1, <3>2, ModbusPortTCPAssumption
  <2>4. f.place \in Nat /\ g.place \in Nat
    BY WayTyped, WayTypedNext DEF WayIsTyped
  <2> DEFINE a == age(g.id)
             b == behind
             c == behind'
             p == f.place
             q == g.place
  <2>5. a \in Nat /\ b \in Nat /\ c \in Nat /\ p \in Nat /\ q \in Nat
    BY <1>1, <2>3, <2>4
  <2>6. a + q <= b /\ p + d <= q /\ b <= c + d
    BY <2>1, <2>2
  <2> HIDE DEF a, b, c, p, q
  <2>7. a + p <= c
    BY <2>5, <2>6
  <2> QED
    BY <2>1, <2>2, <2>3, <2>7 DEF a, c, p
<1> QED
  BY <1>2 DEF InOrderOfAge

\* No number comes back before what was sent with it has been read.
LEMMA YetToWrap ==
  ASSUME DataOK, Counter, WithinBounds, InOrderOfAge, state # "BEGIN_READ",
         MaxExtra + MaxWriteErrors < Transactions, NEW f \in OnTheWay
  PROVE  /\ f.id \in 0..(Transactions - 1) /\ age(f.id) \in Nat
         /\ age(f.id) + 1 < Transactions
<1> DEFINE a == age(f.id)
           p == f.place
<1>1. f.id \in 0..(Transactions - 1) /\ a + p <= behind
  BY DEF InOrderOfAge
<1>2. /\ extra \in 0..MaxExtra /\ errors \in 0..MaxWriteErrors
      /\ MaxExtra \in Nat /\ MaxWriteErrors \in Nat /\ Transactions \in Nat
  BY ModbusPortTCPAssumption DEF WithinBounds
<1>3. behind = extra + errors
  BY <1>2 DEF behind
<1>4. a \in Nat
  <2>1. a \in 0..(Transactions - 1)
    BY <1>1, AgeIs
  <2> QED
    BY <1>2, <2>1
<1>5. WayIsTyped
  BY WayTyped
<1>6. p \in Nat
  BY <1>5 DEF WayIsTyped
<1>7. p >= 1 \/ extra < MaxExtra
  <2>1. ASSUME NEW i \in 1..Len(incoming), incoming[i].part = "id", f = InStream(i)
        PROVE  p >= 1
    <3>1. i \in Nat /\ i \in 1..i
      BY <1>5 DEF WayIsTyped
    <3>2. Begins(incoming, i) >= 1 /\ Begins(incoming, i) \in Nat
      BY <2>1, <3>1, BeginsAtId, BeginsIs
    <3>3. p = Begins(incoming, i) + taken /\ taken \in 0..1
      BY <1>5, <2>1 DEF InStream, WayIsTyped
    <3> QED
      BY <3>2, <3>3
  <2>2. ASSUME NEW j \in 1..Len(pending), f = ToCome(j)
        PROVE  p >= 1
    <3>1. p = frames + j /\ frames \in Nat /\ j \in Nat /\ j >= 1
      BY <1>5, <2>2 DEF ToCome, WayIsTyped
    <3> QED
      BY <3>1
  <2> QED
    BY <2>1, <2>2, WayCases
<1> HIDE DEF a, p
<1>8. a + 1 < Transactions
  BY <1>1, <1>2, <1>3, <1>4, <1>6, <1>7
<1> QED
  BY <1>1, <1>4, <1>8 DEF a

\* The number of the next request is that of nothing on the way.
LEMMA NextIsNew ==
  ASSUME DataOK, Counter, WithinBounds, InOrderOfAge, NumbersAreFresh, CountTransaction,
         state # "BEGIN_READ", MaxExtra + MaxWriteErrors < Transactions, NEW f \in OnTheWay
  PROVE  /\ f.id \in 0..(Transactions - 1) /\ age(f.id) \in Nat /\ age(f.id)' \in Nat
         /\ age(f.id)' <= age(f.id) + 1
         /\ f.id # transaction'
<1>1. f.id \in 0..(Transactions - 1) /\ age(f.id) \in Nat /\ age(f.id) + 1 < Transactions
  BY YetToWrap
<1>2. CASE block \/ ~autoIncrement
  <2>1. transaction' = transaction
    BY <1>2 DEF CountTransaction
  <2>2. f.id # transaction
    BY <1>2 DEF NumbersAreFresh
  <2>3. age(f.id)' = age(f.id)
    BY <2>1 DEF age
  <2> QED
    BY <1>1, <2>1, <2>2, <2>3
<1>3. CASE ~block /\ autoIncrement
  <2>1. transaction' = (transaction + 1) % Transactions
    BY <1>3 DEF CountTransaction
  <2>2. age(f.id)' = age(f.id) + 1 /\ f.id # transaction'
    BY <1>1, <2>1, Older
  <2> QED
    BY <1>1, <2>2
<1> QED
  BY <1>2, <1>3

\* While the port reads the number stays.
LEMMA NumberStays ==
  ASSUME IInv, NEW c \in Clients, NEW q \in Requests, Requesting(c, q), state = "BEGIN_READ",
         CountTransaction
  PROVE  transaction' = transaction
<1>1. block
  BY DEF IInv, AwaitsOwnAnswer, Requesting, Calls
<1> QED
  BY <1>1 DEF CountTransaction

-----------------------------------------------------------------------------
(* The steps, one after the other                                          *)

\* A connection that is closed leaves nothing.
LEMMA ClearedKeepsOwn ==
  ASSUME arrived' = <<>>, transit' = <<>>, pending' = <<>>, answered' = NoFrame,
         extra' = 0, errors' = 0, First'
  PROVE  OwnIInv'
<1>1. incoming' = <<>> /\ Len(incoming') = 0 /\ Len(pending') = 0
  BY EmptySeq DEF incoming
<1>2. OnTheWay' = {}
  <2>1. \A i \in 1..Len(incoming') : FALSE
    BY <1>1
  <2>2. \A j \in 1..Len(pending') : FALSE
    BY <1>1
  <2> QED
    BY <2>1, <2>2 DEF OnTheWay
<1>3. frames' = 0
  <2>1. Begins(incoming', 0) = 0
    <3>1. Ids(incoming', 0) = {}
      BY DEF Ids
    <3> QED
      BY <3>1, BeginsIs, FS_EmptySet
  <2>2. taken' = 0
    BY DEF taken
  <2> QED
    BY <1>1, <2>1, <2>2 DEF frames
<1>4. WithinBounds'
  BY ModbusPortTCPAssumption DEF WithinBounds
<1>5. behind' \in Nat
  BY <1>4, BehindIs DEF Behind
<1>6. InOrderOfAge'
  BY <1>1, <1>2, <1>3, <1>5 DEF InOrderOfAge
<1>7. ResponsesAreWhole'
  BY <1>1 DEF ResponsesAreWhole, OfOneResponse
<1>8. NumbersAreFresh' /\ OpensEmpty'
  BY <1>2 DEF NumbersAreFresh, OpensEmpty
<1> QED
  BY <1>4, <1>6, <1>7, <1>8 DEF OwnIInv

\* Neither the stream nor the numbers change.
LEMMA SameKeepsOwn ==
  ASSUME DataOK, DataOK', Counter, OwnIInv,
         UNCHANGED <<incoming, got, packetSz, pending, answered, extra, errors>>,
         First' = First, state' = "BEGIN_READ" <=> state = "BEGIN_READ",
         \/ OnTheWay = {} /\ First
         \/ /\ transaction' = transaction
            /\ state = "BEGIN_READ" \/ UNCHANGED <<block, autoIncrement>>,
         tcp' = "WAIT_FOR_OPEN" => tcp = "WAIT_FOR_OPEN"
  PROVE  OwnIInv'
<1>1. OnTheWay' = OnTheWay /\ frames' = frames /\ Carried(0)
  BY SameFollows
<1>2. WithinBounds /\ WithinBounds'
  BY DEF OwnIInv, WithinBounds
<1>3. behind' = behind /\ behind \in Nat
  BY <1>2, BehindIs DEF behind, Behind
<1>4. InOrderOfAge'
  <2>1. InOrderOfAge /\ frames' + Len(pending') <= behind'
    BY <1>1, <1>3 DEF OwnIInv, InOrderOfAge
  <2>2. CASE transaction' = transaction
    <3>1. behind <= behind' + 0
      BY <1>3
    <3> QED
      BY <1>1, <1>2, <2>1, <2>2, <3>1, OrderKept
  <2>3. CASE OnTheWay = {}
    BY <1>1, <2>1, <2>3 DEF InOrderOfAge
  <2> QED
    BY <2>2, <2>3
<1>5. ResponsesAreWhole'
  <2>1. nextFrame' = nextFrame
    BY DEF nextFrame
  <2> QED
    BY <2>1 DEF OwnIInv, ResponsesAreWhole
<1>6. NumbersAreFresh'
  BY <1>1 DEF OwnIInv, NumbersAreFresh
<1>7. OpensEmpty'
  BY <1>1 DEF OwnIInv, OpensEmpty
<1> QED
  BY <1>2, <1>4, <1>5, <1>6, <1>7 DEF OwnIInv

\* The connection or the server takes a step while the port does not.
LEMMA LineKeepsOwn ==
  ASSUME TcpIInv, OwnIInv, DataOK', WithinBounds',
         UNCHANGED <<state, block, transaction, autoIncrement, tcp, got, packetSz>>,
         NEW d \in Int, Carried(d), behind <= behind' + d, frames' + Len(pending') <= behind',
         OfOneResponse(incoming'),
         ~First => \A j \in 1..(nextFrame - 1) : j <= Len(incoming') =>
                      j <= Len(incoming) /\ incoming'[j].own = incoming[j].own
  PROVE  OwnIInv'
<1>1. DataOK /\ Counter /\ WithinBounds /\ InOrderOfAge
  BY Parts DEF Lines, OwnIInv
<1>2. InOrderOfAge'
  BY <1>1, OrderKept
<1>3. First' = First /\ nextFrame' = nextFrame
  BY DEF First, nextFrame
<1>4. ResponsesAreWhole'
  BY <1>3 DEF OwnIInv, ResponsesAreWhole
<1>5. NumbersAreFresh'
  <2>1. ASSUME NEW f \in OnTheWay', f.id = transaction
        PROVE  IF state = "BEGIN_READ" THEN f.own ELSE ~block /\ autoIncrement
    <3>1. PICK g \in OnTheWay : f.id = g.id /\ f.own = g.own
      BY DEF Carried
    <3>2. IF state = "BEGIN_READ" THEN g.own ELSE ~block /\ autoIncrement
      BY <2>1, <3>1 DEF OwnIInv, NumbersAreFresh
    <3> QED
      BY <3>1, <3>2
  <2> QED
    BY <1>3, <2>1 DEF OwnIInv, NumbersAreFresh
<1>6. OpensEmpty'
  BY DEF OwnIInv, OpensEmpty, Carried
<1> QED
  BY <1>2, <1>4, <1>5, <1>6 DEF OwnIInv

LEMMA DropKeepsOwn ==
  ASSUME TcpIInv, TcpIInv', OwnIInv, Drop
  PROVE  OwnIInv'
<1>1. /\ transit' = <<>>
      /\ UNCHANGED <<state, block, transaction, autoIncrement, tcp, got, packetSz, arrived, extra, errors>>
  BY DEF Drop, LineChanges, ids, parser, bounds
<1>2. DataOK /\ DataOK'
  BY Parts, PartsPrimed DEF Lines
<1>3. /\ Carried(0) /\ frames' + Len(pending') <= frames + Len(pending)
      /\ frames + Len(pending) <= behind
  BY DropFollows DEF OwnIInv, InOrderOfAge
<1>4. WithinBounds /\ WithinBounds'
  BY <1>1 DEF OwnIInv, WithinBounds
<1>5. behind \in Nat /\ behind' = behind
  BY <1>1, <1>4, BehindIs DEF Behind, behind
<1>6. /\ frames \in Nat /\ frames' \in Nat /\ Len(pending) \in Nat /\ Len(pending') \in Nat
  BY <1>2, WayTyped, WayTypedNext DEF WayIsTyped
<1>7. /\ arrived \in Seq(Cells) /\ transit \in Seq(Cells) /\ incoming \in Seq(Cells)
      /\ Len(arrived) <= Len(incoming)
      /\ \A i \in 1..Len(arrived) : arrived[i] = incoming[i]
  BY <1>2, ConcatProperties, LenProperties DEF DataOK, incoming
<1>8. incoming' = arrived
  BY <1>1, <1>7, ConcatEmptySeq DEF incoming
<1>9. OfOneResponse(incoming')
  <2>1. Framed(arrived)
    BY <1>8 DEF TcpIInv, StreamIsFramed
  <2> QED
    BY <1>7, <1>8, <2>1, BeginningKeepsOwn DEF OwnIInv, ResponsesAreWhole
<1>10. \A j \in 1..(nextFrame - 1) : j <= Len(incoming') =>
          j <= Len(incoming) /\ incoming'[j].own = incoming[j].own
  <2> TAKE j \in 1..(nextFrame - 1)
  <2>1. Len(arrived) \in Nat /\ Len(incoming) \in Nat
    BY <1>7, LenProperties
  <2>2. j <= Len(arrived) => j \in 1..Len(arrived) /\ j <= Len(incoming)
    BY <1>7, <2>1
  <2> QED
    BY <1>7, <1>8, <2>2
<1>11. behind <= behind' + 0
  BY <1>5
<1>12. frames' + Len(pending') <= behind'
  BY <1>3, <1>5, <1>6
<1> QED
  BY <1>1, <1>2, <1>3, <1>4, <1>9, <1>10, <1>11, <1>12, LineKeepsOwn

\* What begins behind the frame that is read.
LEMMA AheadOfTheNext ==
  ASSUME TcpIInv, sock = "connected",
         NEW r \in FramesSent, NEW len \in ResponseLens, NEW exception \in 0..1,
         transit' = transit \o ResponseTo(r, len, exception), arrived' = arrived, tcp' = tcp
  PROVE  \A j \in 1..(nextFrame - 1) : j <= Len(incoming) /\ incoming'[j].own = incoming[j].own
<1>1. DataOK /\ Len(incoming) \in Nat
  BY Parts, WayTyped DEF Lines, WayIsTyped
<1>2. nextFrame <= Len(incoming) + 1 /\ nextFrame \in Int
  BY LenProperties DEF TcpIInv, StreamIsFramed, nextFrame
<1>3. \A j \in 1..Len(incoming) : incoming'[j] = incoming[j]
  BY <1>1, ResponseFollows
<1> TAKE j \in 1..(nextFrame - 1)
<1>4. j \in 1..Len(incoming)
  BY <1>1, <1>2
<1> QED
  BY <1>1, <1>3, <1>4

LEMMA AnswerKeepsOwn ==
  ASSUME TcpIInv, TcpIInv', OwnIInv, Answer
  PROVE  OwnIInv'
<1>1. /\ pending # <<>>
      /\ UNCHANGED <<state, block, transaction, autoIncrement, tcp, got, packetSz, arrived, extra, errors>>
  BY DEF Answer, vars, portVars, ids, parser, bounds
<1>2. PICK len \in ResponseLens, exception \in 0..1 :
         transit' = transit \o ResponseTo(Head(pending), len, exception)
  BY DEF Answer
<1>3. DataOK /\ DataOK' /\ Head(pending) \in FramesSent /\ sock = "connected"
  <2>1. DataOK /\ DataOK'
    BY Parts, PartsPrimed DEF Lines
  <2>2. Head(pending) \in FramesSent
    BY <1>1, <2>1, HeadTailProperties DEF DataOK
  <2>3. sock = "connected"
    BY <1>1 DEF TcpIInv, ConnectionsApart
  <2> QED
    BY <2>1, <2>2, <2>3
<1>4. /\ Carried(0) /\ frames' + Len(pending') = frames + Len(pending)
      /\ frames + Len(pending) <= behind
  BY AnswerFollows DEF OwnIInv, InOrderOfAge
<1>5. WithinBounds /\ WithinBounds'
  BY <1>1 DEF OwnIInv, WithinBounds
<1>6. behind \in Nat /\ behind' = behind
  BY <1>1, <1>5, BehindIs DEF Behind, behind
<1>7. behind <= behind' + 0 /\ frames' + Len(pending') <= behind'
  BY <1>4, <1>6
<1>8. OfOneResponse(incoming')
  BY <1>1, <1>2, <1>3, ResponseKeepsOwn DEF OwnIInv, ResponsesAreWhole, TcpIInv, StreamIsFramed
<1>9. \A j \in 1..(nextFrame - 1) : j <= Len(incoming) /\ incoming'[j].own = incoming[j].own
  BY <1>1, <1>2, <1>3, AheadOfTheNext
<1> QED
  BY <1>1, <1>3, <1>4, <1>5, <1>7, <1>8, <1>9, LineKeepsOwn

LEMMA AnswerTwiceKeepsOwn ==
  ASSUME TcpIInv, TcpIInv', OwnIInv, AnswerTwice
  PROVE  OwnIInv'
<1>1. /\ answered # NoFrame /\ extra < MaxExtra /\ extra' = extra + 1
      /\ UNCHANGED <<state, block, transaction, autoIncrement, tcp, got, packetSz, arrived, pending, errors>>
  BY DEF AnswerTwice, vars, portVars, ids, parser
<1>2. PICK len \in ResponseLens : transit' = transit \o ResponseTo(answered, len, 0)
  BY DEF AnswerTwice
<1>3. DataOK /\ DataOK' /\ answered \in FramesSent /\ sock = "connected" /\ 0 \in 0..1
  <2>1. DataOK /\ DataOK'
    BY Parts, PartsPrimed DEF Lines
  <2>2. sock = "connected"
    BY <1>1 DEF TcpIInv, ConnectionsApart
  <2> QED
    BY <2>1, <2>2 DEF DataOK
<1>4. /\ Carried(-1) /\ frames' = frames + 1 /\ frames + Len(pending) <= behind
  BY AnswerTwiceFollows DEF OwnIInv, InOrderOfAge
<1>5. WithinBounds /\ WithinBounds'
  BY <1>1, ModbusPortTCPAssumption DEF OwnIInv, WithinBounds
<1>6. behind \in Nat /\ behind' = behind + 1
  BY <1>1, <1>5, BehindIs DEF Behind, behind
<1>7. frames \in Nat /\ Len(pending) \in Nat
  BY <1>3, WayTyped DEF WayIsTyped
<1>8. behind <= behind' + (-1) /\ frames' + Len(pending') <= behind'
  BY <1>1, <1>4, <1>6, <1>7
<1>9. OfOneResponse(incoming')
  BY <1>1, <1>2, <1>3, ResponseKeepsOwn DEF OwnIInv, ResponsesAreWhole, TcpIInv, StreamIsFramed
<1>10. \A j \in 1..(nextFrame - 1) : j <= Len(incoming) /\ incoming'[j].own = incoming[j].own
  BY <1>1, <1>2, <1>3, AheadOfTheNext
<1> QED
  BY <1>1, <1>3, <1>4, <1>5, <1>8, <1>9, <1>10, LineKeepsOwn

\* The number of a request is as new when it is written as when it was counted.
LEMMA WriteKeepsOwn ==
  ASSUME TcpIInv, TcpIInv', OwnIInv, MaxExtra + MaxWriteErrors < Transactions,
         NEW c \in Clients, NEW q \in Requests, Write(c, q)
  PROVE  OwnIInv'
<1>1. /\ state # "BEGIN_READ" /\ state' = "BEGIN_READ" /\ tcp' = "BEGIN" /\ CountTransaction
      /\ pending' = Append(Stale(pending), [id |-> transaction', own |-> TRUE])
      /\ answered' = [answered EXCEPT !.own = FALSE]
      /\ arrived' = Stale(arrived) /\ transit' = Stale(transit)
      /\ UNCHANGED <<extra, errors>>
  BY DEF Write, Ready, Written, GetsToWrite, AtWrite, Opens, bounds
<1>2. /\ DataOK /\ DataOK' /\ Counter /\ Counter' /\ WithinBounds /\ WithinBounds'
      /\ InOrderOfAge /\ NumbersAreFresh
  BY <1>1, Parts, PartsPrimed DEF Lines, OwnIInv, WithinBounds
<1>3. First /\ First'
  BY <1>1 DEF TcpIInv, ConnectionsApart, First
<1>4. transaction' \in 0..(Transactions - 1) /\ transaction' \in Nat
  <2>1. transaction' \in 0..(Transactions - 1)
    BY <1>2 DEF Counter
  <2> QED
    BY <2>1, ModbusPortTCPAssumption
<1>5. /\ frames' = frames /\ Len(pending') = Len(pending) + 1
      /\ \A f \in OnTheWay' :
           \/ f = [id |-> transaction', own |-> TRUE, place |-> frames + (Len(pending) + 1)]
           \/ \E g \in OnTheWay : f.id = g.id /\ f.place = g.place
  BY <1>1, <1>3, <1>4, WriteFollows
<1>6. behind \in Nat /\ behind' = behind + 1
  BY <1>1, <1>2, BehindIs DEF Behind, behind
<1>7. frames \in Nat /\ Len(pending) \in Nat /\ frames + Len(pending) <= behind
  BY <1>2, WayTyped DEF WayIsTyped, InOrderOfAge
<1>8. ASSUME NEW f \in OnTheWay'
      PROVE  /\ f.id \in 0..(Transactions - 1) /\ age(f.id)' + f.place <= behind'
             /\ f.id = transaction' => f.own
  <2>1. CASE f = [id |-> transaction', own |-> TRUE, place |-> frames + (Len(pending) + 1)]
    <3>1. f.id = transaction' /\ f.own /\ f.place = frames + (Len(pending) + 1)
      BY <2>1
    <3>2. ASSUME NEW x \in 0..(Transactions - 1)
          PROVE  age(x)' = IF x <= transaction' THEN transaction' - x
                           ELSE transaction' - x + Transactions
      BY DEF age
    <3>4. age(f.id)' = 0
      BY <1>4, <3>1, <3>2
    <3>3. age(f.id)' + f.place <= behind'
      BY <1>6, <1>7, <3>1, <3>4
    <3> QED
      BY <1>4, <3>1, <3>3
  <2>2. CASE \E g \in OnTheWay : f.id = g.id /\ f.place = g.place
    <3>1. PICK g \in OnTheWay : f.id = g.id /\ f.place = g.place
      BY <2>2
    <3>2. /\ g.id \in 0..(Transactions - 1) /\ age(g.id) \in Nat /\ age(g.id)' \in Nat
          /\ age(g.id)' <= age(g.id) + 1
          /\ g.id # transaction'
      BY <1>1, <1>2, NextIsNew
    <3>3. age(g.id) + g.place <= behind /\ g.place \in Nat
      BY <1>2, WayTyped DEF InOrderOfAge, WayIsTyped
    <3> DEFINE a == age(g.id)
               b == age(g.id)'
               p == g.place
    <3> HIDE DEF a, b, p
    <3>4. b + p <= behind'
      BY <1>6, <3>2, <3>3 DEF a, b, p
    <3> QED
      BY <3>1, <3>2, <3>4 DEF b, p
  <2> QED
    BY <1>5, <2>1, <2>2
<1>9. InOrderOfAge'
  <2>1. frames' + Len(pending') <= behind'
    BY <1>5, <1>6, <1>7
  <2> QED
    BY <1>8, <2>1 DEF InOrderOfAge
<1>10. ResponsesAreWhole'
  <2>1. Len(incoming) \in Nat /\ Len(incoming') = Len(incoming)
    BY <1>1, <1>2, WayTyped, StaleStream DEF WayIsTyped
  <2>2. \A i \in 1..Len(incoming') : incoming'[i].own = FALSE
    BY <1>1, <1>2, <2>1, StaleStream
  <2>3. ASSUME NEW i \in 1..Len(incoming'), NEW j \in i..(i + 1 + incoming'[i + 1].val), j <= Len(incoming')
        PROVE  incoming'[j].own = incoming'[i].own
    <3>1. j \in 1..Len(incoming')
      BY <2>1, <2>3
    <3> QED
      BY <2>2, <3>1
  <2>4. OfOneResponse(incoming')
    BY <2>3 DEF OfOneResponse
  <2> QED
    BY <1>3, <2>4 DEF ResponsesAreWhole
<1>11. NumbersAreFresh'
  BY <1>1, <1>3, <1>8 DEF NumbersAreFresh
<1>12. OpensEmpty'
  BY <1>1 DEF OpensEmpty
<1> QED
  BY <1>2, <1>9, <1>10, <1>11, <1>12 DEF OwnIInv

\* A request that the socket refuses uses up a number.
LEMMA WriteErrorKeepsOwn ==
  ASSUME TcpIInv, TcpIInv', OwnIInv, MaxExtra + MaxWriteErrors < Transactions,
         NEW c \in Clients, NEW q \in Requests, WriteError(c, q)
  PROVE  OwnIInv'
<1>1. /\ state # "BEGIN_READ" /\ state' # "BEGIN_READ" /\ tcp' = "BEGIN" /\ CountTransaction
      /\ errors < MaxWriteErrors /\ errors' = errors + 1
      /\ UNCHANGED <<got, packetSz, arrived, transit, pending, answered, extra>>
  BY DEF WriteError, Ready, WriteFails, GetsToWrite, AtWrite, Opens, parser, stream, server
<1>2. /\ DataOK /\ Counter /\ WithinBounds /\ InOrderOfAge /\ NumbersAreFresh
  BY Parts DEF Lines, OwnIInv
<1>3. WithinBounds'
  BY <1>1, <1>2, ModbusPortTCPAssumption DEF WithinBounds
<1>4. First /\ First' /\ incoming' = incoming
  BY <1>1 DEF TcpIInv, ConnectionsApart, First, incoming
<1>5. OnTheWay' = OnTheWay /\ frames' = frames
  BY <1>1, <1>2, <1>4, SameFollows
<1>6. behind \in Nat /\ behind' = behind + 1
  BY <1>1, <1>2, <1>3, BehindIs DEF Behind, behind
<1>7. ASSUME NEW f \in OnTheWay
      PROVE  /\ f.id \in 0..(Transactions - 1) /\ age(f.id)' + f.place <= behind'
             /\ f.id # transaction'
  <2>1. /\ f.id \in 0..(Transactions - 1) /\ age(f.id) \in Nat /\ age(f.id)' \in Nat
        /\ age(f.id)' <= age(f.id) + 1
        /\ f.id # transaction'
    BY <1>1, <1>2, NextIsNew
  <2>2. age(f.id) + f.place <= behind /\ f.place \in Nat
    BY <1>2, WayTyped DEF InOrderOfAge, WayIsTyped
  <2> DEFINE a == age(f.id)
             b == age(f.id)'
             p == f.place
  <2> HIDE DEF a, b, p
  <2>3. b + p <= behind'
    BY <1>6, <2>1, <2>2 DEF a, b, p
  <2> QED
    BY <2>1, <2>3 DEF b, p
<1>8. InOrderOfAge'
  <2>1. frames \in Nat /\ Len(pending) \in Nat /\ frames + Len(pending) <= behind
    BY <1>2, WayTyped DEF WayIsTyped, InOrderOfAge
  <2>2. frames' + Len(pending') <= behind'
    BY <1>1, <1>5, <1>6, <2>1
  <2> QED
    BY <1>5, <1>7, <2>2 DEF InOrderOfAge
<1>9. ResponsesAreWhole'
  BY <1>4 DEF OwnIInv, ResponsesAreWhole
<1>10. NumbersAreFresh'
  BY <1>4, <1>5, <1>7 DEF NumbersAreFresh
<1>11. OpensEmpty'
  BY <1>1 DEF OpensEmpty
<1> QED
  BY <1>3, <1>8, <1>9, <1>10, <1>11 DEF OwnIInv

\* A call of read() that gets bytes.
LEMMA ReadKeepsOwn ==
  ASSUME TcpIInv, TcpIInv', OwnIInv,
         NEW c \in Clients, NEW q \in Requests, ReadSome(c, q) \/ ReadAll(c, q)
  PROVE  OwnIInv'
<1>1. /\ TakeBytes /\ state = "BEGIN_READ" /\ Requesting(c, q) /\ CountTransaction
      /\ UNCHANGED <<pending, answered, extra, errors>>
      /\ \/ Complete /\ tcp' = "BEGIN" /\ state' = "BEGIN_WRITE"
            /\ block' = FALSE /\ repeats' = 0
         \/ ~Complete /\ tcp' = "WAIT_FOR_READ_ALL" /\ state' = "BEGIN_READ"
  BY DEF ReadSome, ReadAll, AwaitRead, Answered, Reads, TakeBytes, server, bounds, Finish
<1>2. /\ DataOK /\ DataOK' /\ Counter /\ WithinBounds /\ WithinBounds'
      /\ InOrderOfAge /\ NumbersAreFresh
  BY <1>1, Parts, PartsPrimed DEF Lines, OwnIInv, WithinBounds
<1>3. transaction' = transaction
  BY <1>1, NumberStays DEF TcpIInv
<1> DEFINE d == IF First' THEN 1 ELSE 0
<1>4. d \in 0..1 /\ (d = 1 <=> First') /\ (First' <=> Complete)
  BY <1>1 DEF First
<1>5. Carried(d)
  BY <1>1, <1>4, ReadFollows
<1>13. frames' + d <= frames
  BY <1>1, <1>4, ReadFollows
<1>14. d \in Nat
  BY <1>4
<1>6. behind \in Nat /\ behind' \in Nat /\ behind = behind' + d
  BY <1>1, <1>2, <1>4, BehindIs DEF Behind, behind
<1>7. /\ frames \in Nat /\ frames' \in Nat /\ Len(pending) \in Nat
      /\ frames + Len(pending) <= behind
  BY <1>2, WayTyped, WayTypedNext DEF WayIsTyped, InOrderOfAge
<1> HIDE DEF d
<1>8. InOrderOfAge'
  <2>1. frames' + Len(pending') <= behind'
    <3> DEFINE p == Len(pending)
    <3>1. Len(pending') = p /\ p \in Nat /\ frames + p <= behind
      BY <1>1, <1>7
    <3> DEFINE m == frames
               n == frames'
               b == behind
               e == behind'
    <3> HIDE DEF p, m, n, b, e
    <3>2. m \in Nat /\ n \in Nat /\ m + p <= b /\ n + d <= m
      BY <1>7, <1>13, <3>1 DEF m, n, b
    <3>3. b \in Nat /\ e \in Nat /\ b = e + d
      BY <1>6 DEF b, e
    <3>4. n + p <= e
      BY <1>14, <3>1, <3>2, <3>3
    <3> QED
      BY <3>1, <3>4 DEF n, e
  <2>2. d \in Int /\ behind <= behind' + d
    <3> DEFINE b == behind
               e == behind'
    <3> HIDE DEF b, e
    <3>1. b \in Nat /\ e \in Nat /\ b = e + d
      BY <1>6 DEF b, e
    <3>2. b <= e + d
      BY <1>14, <3>1
    <3> QED
      BY <1>14, <3>2 DEF b, e
  <2> QED
    BY <1>2, <1>3, <1>5, <2>1, <2>2, OrderKept
<1>9. /\ got'[1].part = "id" /\ \A j \in 1..Len(got') : got'[j].own = got'[1].own
      /\ \A j \in 1..(packetSz' - Len(got')) : j <= Len(incoming') => incoming'[j].own = got'[1].own
      /\ got'[1].val = transaction => got'[1].own
      /\ OfOneResponse(incoming')
  BY <1>1, <1>2, ReadingOwn DEF OwnIInv
<1>10. ResponsesAreWhole'
  <2>1. ~First' => nextFrame' - 1 = packetSz' - Len(got')
    BY <1>2, LenProperties DEF nextFrame, DataOK
  <2> QED
    BY <1>9, <2>1 DEF ResponsesAreWhole
<1>11. NumbersAreFresh'
  <2>1. ASSUME NEW f \in OnTheWay', f.id = transaction
        PROVE  IF state' = "BEGIN_READ" THEN f.own ELSE ~block' /\ autoIncrement'
    <3>1. PICK g \in OnTheWay : f.id = g.id /\ f.own = g.own
      BY <1>5 DEF Carried
    <3>2. g.own
      BY <1>1, <1>2, <2>1, <3>1 DEF NumbersAreFresh
    <3>3. state' # "BEGIN_READ" => ~block' /\ autoIncrement'
      <4>1. SUFFICES ASSUME state' # "BEGIN_READ" PROVE ~block' /\ autoIncrement'
        OBVIOUS
      <4>2. block' = FALSE /\ repeats' = 0
        BY <1>1, <4>1
      <4>3. repeats \in Nat
        BY ModbusClientPortAssumption DEF TcpIInv, IInv, TypeOK
      <4>4. repeats' # repeats + 1
        BY <4>2, <4>3
      <4> QED
        BY <1>1, <4>2, <4>4 DEF CountTransaction
    <3> QED
      BY <3>1, <3>2, <3>3
  <2> QED
    BY <1>3, <1>9, <2>1 DEF NumbersAreFresh
<1>12. OpensEmpty'
  BY <1>1 DEF OpensEmpty
<1> QED
  BY <1>2, <1>8, <1>10, <1>11, <1>12 DEF OwnIInv

\* Every step keeps the invariant, as long as doubled answers and refused
\* frames do not bring the counter round.
LEMMA CallKeepsOwn ==
  ASSUME TcpIInv, TcpIInv', OwnIInv, MaxExtra + MaxWriteErrors < Transactions,
         NEW c \in Clients, NEW q \in Requests, TcpCall(c, q)
  PROVE  OwnIInv'
<1>1. DataOK /\ DataOK' /\ Counter
  BY Parts, PartsPrimed DEF Lines
<1>2. Opens => state # "BEGIN_READ" /\ Opening # "BEGIN_READ"
  BY DEF Opens, Opening, AtWrite
<1>3. ASSUME SocketClosed, tcp' # "WAIT_FOR_READ_ALL"
      PROVE  OwnIInv'
  <2>1. First'
    BY <1>3 DEF First
  <2> QED
    BY <1>3, <2>1, ClearedKeepsOwn DEF SocketClosed
<1>4. CASE OpenStarts(c, q)
  <2>1. /\ sock # "connected"
        /\ arrived' = <<>> /\ UNCHANGED <<transit, pending, answered>> /\ extra' = 0 /\ errors' = 0
        /\ tcp' = "WAIT_FOR_OPEN"
    BY <1>4 DEF OpenStarts, TcpIInv, TcpTypeOK, server
  <2>2. transit = <<>> /\ pending = <<>> /\ answered = NoFrame /\ First'
    BY <2>1 DEF TcpIInv, ConnectionsApart, First
  <2> QED
    BY <2>1, <2>2, ClearedKeepsOwn
<1>5. CASE OpenWaits(c, q)
  <2>1. /\ tcp = "WAIT_FOR_OPEN" /\ state # "BEGIN_READ" /\ state' # "BEGIN_READ"
        /\ UNCHANGED <<tcp, got, packetSz, arrived, transit, pending, answered, extra, errors>>
    BY <1>2, <1>5 DEF OpenWaits, AwaitOpen, parser, stream, server, bounds
  <2>2. First /\ First' /\ incoming' = incoming /\ OnTheWay = {}
    BY <2>1 DEF First, incoming, OwnIInv, OpensEmpty
  <2> QED
    BY <1>1, <2>1, <2>2, SameKeepsOwn
<1>6. CASE OpenTimesOut(c, q)
  BY <1>3, <1>6 DEF OpenTimesOut
<1>7. CASE CloseToReopen(c, q)
  BY <1>3, <1>7 DEF CloseToReopen
<1>8. CASE Write(c, q)
  BY <1>8, WriteKeepsOwn
<1>9. CASE WriteError(c, q)
  BY <1>9, WriteErrorKeepsOwn
<1>10. CASE ReadWaits(c, q)
  <2>1. /\ state = "BEGIN_READ" /\ state' = "BEGIN_READ" /\ Requesting(c, q) /\ CountTransaction
        /\ tcp' = IF tcp = "BEGIN" THEN "WAIT_FOR_READ" ELSE tcp
        /\ UNCHANGED <<got, packetSz, arrived, transit, pending, answered, extra, errors>>
    BY <1>10 DEF ReadWaits, AwaitRead, Reads, parser, stream, server, bounds
  <2>2. transaction' = transaction
    BY <2>1, NumberStays DEF TcpIInv
  <2>3. First' = First /\ incoming' = incoming
    BY <2>1 DEF First, incoming
  <2>4. tcp' = "WAIT_FOR_OPEN" => tcp = "WAIT_FOR_OPEN"
    BY <2>1
  <2> QED
    BY <1>1, <2>1, <2>2, <2>3, <2>4, SameKeepsOwn
<1>11. CASE ReadSome(c, q)
  BY <1>11, ReadKeepsOwn
<1>12. CASE ReadTimesOut(c, q)
  BY <1>3, <1>12 DEF ReadTimesOut
<1>13. CASE ReadAll(c, q)
  BY <1>13, ReadKeepsOwn
<1>14. CASE Wait(c, q) /\ UNCHANGED <<tcp, sock, ids, parser, stream, server, bounds>>
  <2>1. UNCHANGED <<state, block, tcp, transaction, autoIncrement, got, packetSz,
                    arrived, transit, pending, answered, extra, errors>>
    BY <1>14 DEF Wait, portVars, ids, parser, stream, server, bounds
  <2>2. First' = First /\ incoming' = incoming
    BY <2>1 DEF First, incoming
  <2> QED
    BY <1>1, <2>1, <2>2, SameKeepsOwn
<1> QED
  BY <1>4, <1>5, <1>6, <1>7, <1>8, <1>9, <1>10, <1>11, <1>12, <1>13, <1>14 DEF TcpCall, Progress

LEMMA NextKeepsOwn ==
  ASSUME ~SplitPrefix, MaxExtra + MaxWriteErrors < Transactions
  PROVE  TcpIInv /\ OwnIInv /\ [TcpNext]_tcpVars => OwnIInv'
<1> SUFFICES ASSUME TcpIInv, OwnIInv, [TcpNext]_tcpVars PROVE OwnIInv'
  OBVIOUS
<1>1. TcpIInv'
  BY NextKeepsTcpIInv
<1>2. DataOK /\ DataOK' /\ Counter
  BY <1>1, Parts, PartsPrimed DEF Lines
<1>3. ASSUME UNCHANGED <<state, block, tcp, transaction, autoIncrement, got, packetSz, incoming,
                         pending, answered, extra, errors>>
      PROVE  OwnIInv'
  <2>1. First' = First
    BY <1>3 DEF First
  <2> QED
    BY <1>2, <1>3, <2>1, SameKeepsOwn
<1>4. ASSUME NEW c \in Clients, NEW q \in Requests, TcpCall(c, q)
      PROVE  OwnIInv'
  BY <1>1, <1>4, CallKeepsOwn
<1>5. CASE Connect
  BY <1>3, <1>5 DEF Connect, LineChanges, ids, parser, stream, server, bounds, incoming
<1>6. CASE Drop
  BY <1>1, <1>6, DropKeepsOwn
<1>7. CASE ChangeSettings
  BY <1>3, <1>7 DEF ChangeSettings, SetSettings, ids, parser, stream, server, bounds, incoming
<1>8. CASE Answer
  BY <1>1, <1>8, AnswerKeepsOwn
<1>9. CASE AnswerTwice
  BY <1>1, <1>9, AnswerTwiceKeepsOwn
<1>10. CASE Deliver
  <2>1. incoming' = incoming
    BY <1>10, Delivering
  <2> QED
    BY <1>3, <1>10, <2>1 DEF Deliver, vars, portVars, ids, parser, server, bounds
<1>11. CASE UNCHANGED tcpVars
  BY <1>3, <1>11 DEF tcpVars, vars, portVars, ids, parser, stream, server, bounds, incoming
<1> QED
  BY <1>4, <1>5, <1>6, <1>7, <1>8, <1>9, <1>10, <1>11 DEF TcpNext

LEMMA InitOwnIInv == TcpInit => OwnIInv
<1> SUFFICES ASSUME TcpInit PROVE OwnIInv
  OBVIOUS
<1>1. /\ arrived = <<>> /\ transit = <<>> /\ pending = <<>> /\ answered = NoFrame
      /\ extra = 0 /\ errors = 0 /\ First /\ state # "BEGIN_READ"
  BY DEF TcpInit, Init, First
<1>2. incoming = <<>> /\ Len(incoming) = 0 /\ Len(pending) = 0
  BY <1>1, EmptySeq DEF incoming
<1>3. OnTheWay = {}
  <2>1. (\A i \in 1..Len(incoming) : FALSE) /\ (\A j \in 1..Len(pending) : FALSE)
    BY <1>2
  <2> QED
    BY <1>1, <2>1 DEF OnTheWay
<1>4. frames = 0 /\ behind = 0
  <2>1. Ids(incoming, 0) = {}
    BY DEF Ids
  <2>2. Begins(incoming, 0) = 0
    BY <2>1, BeginsIs, FS_EmptySet
  <2> QED
    BY <1>1, <1>2, <2>2 DEF frames, taken, behind
<1>5. WithinBounds
  BY <1>1, ModbusPortTCPAssumption DEF WithinBounds
<1> QED
  BY <1>1, <1>2, <1>3, <1>4, <1>5
  DEF OwnIInv, OpensEmpty, ResponsesAreWhole, OfOneResponse, InOrderOfAge, NumbersAreFresh

LEMMA OwnInvariance ==
  ASSUME ~SplitPrefix, MaxExtra + MaxWriteErrors < Transactions
  PROVE  TcpSpec => []OwnIInv
<1>1. TcpIInv /\ OwnIInv /\ [TcpNext]_tcpVars => OwnIInv'
  BY NextKeepsOwn
<1>2. TcpSpec => []TcpIInv
  BY TcpInvariance
<1> QED
  BY <1>1, <1>2, InitOwnIInv, PTL DEF TcpSpec

\* Only a response that readBuffer has accepted ends a call well.
LEMMA GoodIsAccepted ==
  ASSUME TcpIInv, [TcpNext]_tcpVars,
         NEW d \in Clients, call[d] # NoRequest, call'[d] = NoRequest, outcome'.good
  PROVE  \E c \in Clients, q \in Requests : ReadAll(c, q)
<1> USE ModbusClientPortAssumption
<1>1. /\ repeats \in 0..(RepeatCount - 1)
      /\ call \in [Clients -> Requests \union {NoRequest}]
  BY DEF TcpIInv, IInv, TypeOK
<1>2. ASSUME NEW c \in Clients, NEW q \in Requests, call' = [call EXCEPT ![c] = q]
      PROVE  FALSE
  BY <1>1, <1>2
<1>3. ASSUME NEW c \in Clients, NEW q \in Requests, Fail(c, q)
      PROVE  FALSE
  <2>1. ~Repeat(c, q)
    BY <1>2 DEF Repeat
  <2>2. ~Finish(c, FALSE)
    BY DEF Finish
  <2> QED
    BY <1>3, <2>1, <2>2 DEF Fail
<1>4. ASSUME NEW c \in Clients, NEW q \in Requests, TcpCall(c, q)
      PROVE  ReadAll(c, q)
  <2> USE <1>2, <1>3
  <2>1. ~OpenStarts(c, q) /\ ~OpenWaits(c, q)
    BY DEF OpenStarts, OpenWaits, AwaitOpen, Continue
  <2>2. ~OpenTimesOut(c, q) /\ ~CloseToReopen(c, q)
    BY DEF OpenTimesOut, OpenFails, CloseToReopen, Reopen, Continue
  <2>3. ~Write(c, q) /\ ~WriteError(c, q)
    BY DEF Write, Written, WriteError, WriteFails, Continue
  <2>4. ~ReadWaits(c, q) /\ ~ReadSome(c, q) /\ ~ReadTimesOut(c, q)
    BY DEF ReadWaits, ReadSome, AwaitRead, ReadTimesOut, ReadFails, Continue
  <2>5. ~Wait(c, q)
    BY DEF Wait
  <2> QED
    BY <1>4, <2>1, <2>2, <2>3, <2>4, <2>5 DEF TcpCall, Progress
<1>5. ASSUME call' = call
      PROVE  FALSE
  BY <1>5
<1>6. ~Connect /\ ~Drop /\ ~ChangeSettings
  BY <1>5 DEF Connect, Drop, ChangeSettings, LineChanges, SetSettings
<1>7. ~Answer /\ ~AnswerTwice /\ ~Deliver /\ ~UNCHANGED tcpVars
  BY <1>5 DEF Answer, AnswerTwice, Deliver, tcpVars, vars, portVars
<1> QED
  BY <1>4, <1>6, <1>7 DEF TcpNext

LEMMA AcceptedIsOwn ==
  ASSUME TcpIInv, TcpIInv', OwnIInv,
         NEW c \in Clients, NEW q \in Requests, ReadAll(c, q), outcome'.good
  PROVE  \A i \in 1..Len(got') : got'[i].own
<1>1. /\ TakeBytes /\ state = "BEGIN_READ" /\ Accepts(got') /\ UNCHANGED <<pending, answered, extra, errors>>
  BY DEF ReadAll, Answered, Reads, TakeBytes, server, bounds
<1>2. DataOK /\ DataOK'
  BY Parts, PartsPrimed DEF Lines
<1>3. got'[1].val = transaction
  BY <1>1 DEF Accepts
<1>4. /\ \A j \in 1..Len(got') : got'[j].own = got'[1].own
      /\ got'[1].val = transaction => got'[1].own
  BY <1>1, <1>2, ReadingOwn DEF OwnIInv
<1> QED
  BY <1>3, <1>4

\* A response that readBuffer accepts was sent for the request of this very
\* call: the transaction tells all others apart, for any counter that the
\* answers given twice and the frames refused in one connection do not bring
\* round (2^16 in the code).
THEOREM AcceptsOwnAnswer ==
  ASSUME ~SplitPrefix, MaxExtra + MaxWriteErrors < Transactions
  PROVE  TcpSpec => GoodIsOwnAnswer
<1>1. ASSUME TcpIInv, TcpIInv', OwnIInv, [TcpNext]_tcpVars
      PROVE  [\A c \in Clients : call[c] # NoRequest /\ call'[c] = NoRequest /\ outcome'.good
                => \A i \in 1..Len(got') : got'[i].own]_tcpVars
  BY <1>1, GoodIsAccepted, AcceptedIsOwn
<1>2. TcpSpec => []TcpIInv
  BY TcpInvariance
<1>3. TcpSpec => []OwnIInv
  BY OwnInvariance
<1> QED
  BY <1>1, <1>2, <1>3, PTL DEF TcpSpec, GoodIsOwnAnswer
==============================================================================
