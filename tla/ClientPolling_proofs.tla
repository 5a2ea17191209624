------------------------ MODULE ClientPolling_proofs ------------------------
(***************************************************************************)
(* Theorems about ClientPolling, for any number of devices, read messages, *)
(* sent messages, written values and restarts.                             *)
(*                                                                         *)
(* Every step changes the messages a device holds in one of four ways:     *)
(* they stay, the first one leaves completed, a new or completed one joins *)
(* at the end, or all devices lose theirs.  Each of the ways keeps the     *)
(* messages in order and apart.                                            *)
(***************************************************************************)
EXTENDS ClientPollingTurns, SequenceTheorems, TLAPS

-----------------------------------------------------------------------------
(* Sequences                                                               *)

\* What a sequence over S contains is in S.
LEMMA ElementsOf ==
  ASSUME NEW S, NEW s \in Seq(S)
  PROVE  Elements(s) \subseteq S
BY ElementOfSeq DEF Elements

\* Append adds its element and no other.
LEMMA ElementsOfAppend ==
  ASSUME NEW S, NEW s \in Seq(S), NEW m \in S
  PROVE  Elements(Append(s, m)) \subseteq Elements(s) \union {m}
<1>1. SUFFICES ASSUME NEW i \in 1..Len(Append(s, m))
               PROVE  Append(s, m)[i] \in Elements(s) \union {m}
  BY DEF Elements
<1>2. Len(s) \in Nat /\ Len(Append(s, m)) = Len(s) + 1
  BY AppendProperties, LenProperties
<1>3. CASE i = Len(s) + 1
  BY <1>3, AppendProperties
<1>4. CASE i \in 1..Len(s)
  BY <1>4, AppendProperties DEF Elements
<1> QED
  BY <1>2, <1>3, <1>4

\* Tail adds nothing, and the head was in the sequence.
LEMMA ElementsOfTail ==
  ASSUME NEW S, NEW s \in Seq(S), s # <<>>
  PROVE  /\ Elements(Tail(s)) \subseteq Elements(s)
         /\ Head(s) \in Elements(s)
<1>1. Len(s) \in Nat \ {0} /\ Len(Tail(s)) = Len(s) - 1
  BY EmptySeq, HeadTailProperties
<1>2. \A i \in 1..Len(Tail(s)) : Tail(s)[i] = s[i + 1] /\ i + 1 \in 1..Len(s)
  BY <1>1, HeadTailProperties
<1>3. Head(s) = s[1] /\ 1 \in 1..Len(s)
  BY <1>1
<1> QED
  BY <1>2, <1>3 DEF Elements

\* Length and elements of a concatenation of three sequences.
LEMMA ConcatOfThree ==
  ASSUME NEW S, NEW f \in Seq(S), NEW g \in Seq(S), NEW h \in Seq(S)
  PROVE  /\ f \o g \o h \in Seq(S)
         /\ Len(f \o g \o h) = Len(f) + Len(g) + Len(h)
         /\ \A k \in 1..(Len(f) + Len(g) + Len(h)) :
               (f \o g \o h)[k] = IF k <= Len(f) THEN f[k]
                                  ELSE IF k <= Len(f) + Len(g) THEN g[k - Len(f)]
                                  ELSE h[k - (Len(f) + Len(g))]
<1> DEFINE p == f \o g
           q == p \o h
<1>1. /\ p \in Seq(S)
      /\ Len(p) = Len(f) + Len(g)
      /\ \A k \in 1..(Len(f) + Len(g)) : p[k] = IF k <= Len(f) THEN f[k] ELSE g[k - Len(f)]
  BY ConcatProperties
<1> HIDE DEF p
<1>p. p \in Seq(S)
  BY <1>1
<1>2. /\ q \in Seq(S)
      /\ Len(q) = Len(p) + Len(h)
      /\ \A k \in 1..(Len(p) + Len(h)) : q[k] = IF k <= Len(p) THEN p[k] ELSE h[k - Len(p)]
  BY <1>p, ConcatProperties
<1> HIDE DEF q
<1>3. Len(f) \in Nat /\ Len(g) \in Nat /\ Len(h) \in Nat
  BY LenProperties
<1>4. /\ q \in Seq(S)
      /\ Len(q) = Len(f) + Len(g) + Len(h)
      /\ \A k \in 1..(Len(f) + Len(g) + Len(h)) :
            q[k] = IF k <= Len(f) THEN f[k]
                   ELSE IF k <= Len(f) + Len(g) THEN g[k - Len(f)]
                   ELSE h[k - (Len(f) + Len(g))]
  BY <1>1, <1>2, <1>3
<1> QED
  BY <1>4 DEF q, p

\* Appending to the second part of a concatenation appends to the whole.
LEMMA AppendOfConcat ==
  ASSUME NEW S, NEW f \in Seq(S), NEW s \in Seq(S), NEW m \in S
  PROVE  f \o Append(s, m) = Append(f \o s, m)
<1>1. <<m>> \in Seq(S)
  OBVIOUS
<1>2. Append(s, m) = s \o <<m>>
  BY AppendIsConcat
<1>3. f \o s \in Seq(S)
  BY ConcatProperties
<1>4. Append(f \o s, m) = (f \o s) \o <<m>>
  BY <1>3, AppendIsConcat
<1>5. f \o (s \o <<m>>) = (f \o s) \o <<m>>
  BY <1>1, ConcatAssociative
<1> QED
  BY <1>2, <1>4, <1>5

\* What hasReadMessageOnDuty does to the queue: it loses and gains nothing.
LEMMA RotatedKeepsElements ==
  ASSUME NEW S, NEW s \in Seq(S), NEW i \in 1..Len(s)
  PROVE  /\ Rotated(s, i) \in Seq(S)
         /\ Len(Rotated(s, i)) = Len(s)
         /\ Elements(Rotated(s, i)) = Elements(s)
         /\ \A k \in 1..Len(s) :
               Rotated(s, i)[k] = IF k < i THEN s[k] ELSE IF k < Len(s) THEN s[k + 1] ELSE s[i]
<1> DEFINE f == SubSeq(s, 1, i - 1)
           g == SubSeq(s, i + 1, Len(s))
           h == <<s[i]>>
           r == Rotated(s, i)
<1>0. Len(s) \in Nat /\ i \in Nat /\ 1 <= i /\ i <= Len(s)
  BY LenProperties
<1>1. /\ f \in Seq(S)
      /\ Len(f) = i - 1
      /\ \A k \in 1..(i - 1) : f[k] = s[k]
  <2>1. \A k \in 1..(i - 1) : s[k] \in S
    BY <1>0, ElementOfSeq
  <2> QED
    BY <1>0, <2>1, SubSeqProperties
<1>2. /\ g \in Seq(S)
      /\ Len(g) = Len(s) - i
      /\ \A k \in 1..(Len(s) - i) : g[k] = s[k + i]
  <2>1. \A k \in (i + 1)..Len(s) : s[k] \in S
    BY <1>0, ElementOfSeq
  <2>2. i + 1 \in Int /\ Len(s) \in Int
    BY <1>0
  <2>3. /\ g \in Seq(S)
        /\ Len(g) = IF i + 1 <= Len(s) THEN Len(s) - (i + 1) + 1 ELSE 0
        /\ \A k \in 1..(Len(s) - (i + 1) + 1) : g[k] = s[(i + 1) + k - 1]
    BY <2>1, <2>2, SubSeqProperties
  <2> HIDE DEF g
  <2>4. Len(s) - (i + 1) + 1 = Len(s) - i /\ (\A k \in Int : (i + 1) + k - 1 = k + i)
    BY <1>0
  <2>5. Len(g) = Len(s) - i
    <3>1. Len(g) = IF i + 1 <= Len(s) THEN Len(s) - (i + 1) + 1 ELSE 0
      BY <2>3
    <3>2. CASE i + 1 <= Len(s)
      BY <1>0, <3>1, <3>2
    <3>3. CASE ~(i + 1 <= Len(s))
      <4>1. Len(s) - i = 0
        BY <1>0, <3>3
      <4> QED
        BY <3>1, <3>3, <4>1
    <3> QED
      BY <3>2, <3>3
  <2>6. ASSUME NEW k \in 1..(Len(s) - i)
        PROVE  g[k] = s[k + i]
    <3>1. g[k] = s[(i + 1) + k - 1]
      BY <2>3, <2>4
    <3> QED
      BY <1>0, <2>4, <3>1
  <2> QED
    BY <2>3, <2>5, <2>6
<1>3. h \in Seq(S) /\ Len(h) = 1 /\ h[1] = s[i]
  BY ElementOfSeq
<1>4. r = f \o g \o h
  BY DEF Rotated
<1> HIDE DEF f, g, h, r
<1>5. /\ r \in Seq(S)
      /\ Len(r) = Len(s)
      /\ \A k \in 1..Len(s) :
            r[k] = IF k < i THEN s[k] ELSE IF k < Len(s) THEN s[k + 1] ELSE s[i]
  <2>1. /\ r \in Seq(S)
        /\ Len(r) = Len(s)
        /\ \A k \in 1..Len(s) :
              r[k] = IF k <= i - 1 THEN f[k]
                     ELSE IF k <= Len(s) - 1 THEN g[k - (i - 1)]
                     ELSE h[k - (Len(s) - 1)]
    <3>1. /\ r \in Seq(S)
          /\ Len(r) = Len(f) + Len(g) + Len(h)
          /\ \A k \in 1..(Len(f) + Len(g) + Len(h)) :
                r[k] = IF k <= Len(f) THEN f[k]
                       ELSE IF k <= Len(f) + Len(g) THEN g[k - Len(f)]
                       ELSE h[k - (Len(f) + Len(g))]
      <4>1. f \in Seq(S) /\ g \in Seq(S) /\ h \in Seq(S)
        BY <1>1, <1>2, <1>3
      <4> QED
        BY <1>4, <4>1, ConcatOfThree
    <3>2. Len(f) + Len(g) + Len(h) = Len(s) /\ Len(f) + Len(g) = Len(s) - 1
      BY <1>0, <1>1, <1>2, <1>3
    <3> QED
      BY <1>1, <3>1, <3>2
  <2>2. ASSUME NEW k \in 1..Len(s)
        PROVE  r[k] = IF k < i THEN s[k] ELSE IF k < Len(s) THEN s[k + 1] ELSE s[i]
    <3>1. CASE k < i
      <4>1. k <= i - 1 /\ k \in 1..(i - 1)
        BY <1>0, <3>1
      <4>2. r[k] = f[k]
        BY <2>1, <4>1
      <4>3. f[k] = s[k]
        BY <1>1, <4>1
      <4> QED
        BY <3>1, <4>2, <4>3
    <3>2. CASE ~(k < i) /\ k < Len(s)
      <4>1. k - (i - 1) \in 1..(Len(s) - i) /\ (k - (i - 1)) + i = k + 1
        BY <1>0, <3>2
      <4>2. r[k] = g[k - (i - 1)]
        BY <1>0, <2>1, <3>2
      <4>3. g[k - (i - 1)] = s[(k - (i - 1)) + i]
        BY <1>2, <4>1
      <4> QED
        BY <3>2, <4>1, <4>2, <4>3
    <3>3. CASE ~(k < Len(s))
      <4>1. k = Len(s) /\ k - (Len(s) - 1) = 1 /\ ~(k < i) /\ ~(k <= i - 1) /\ ~(k <= Len(s) - 1)
        BY <1>0, <3>3
      <4> QED
        BY <1>3, <2>1, <3>3, <4>1
    <3> QED
      BY <3>1, <3>2, <3>3
  <2> QED
    BY <2>1, <2>2
<1>6. Elements(r) \subseteq Elements(s)
  <2>1. \A k \in 1..Len(s) :
          \/ k < i /\ k \in 1..Len(s)
          \/ k < Len(s) /\ k + 1 \in 1..Len(s)
          \/ i \in 1..Len(s)
    BY <1>0
  <2>2. ASSUME NEW k \in 1..Len(s)
        PROVE  \E j \in 1..Len(s) : r[k] = s[j]
    <3>1. k + 1 \in 1..Len(s) \/ ~(k < Len(s))
      BY <1>0
    <3> QED
      BY <1>5, <3>1
  <2>3. \A k \in 1..Len(s) : r[k] \in Elements(s)
    BY <2>2 DEF Elements
  <2>4. Elements(r) = {r[k] : k \in 1..Len(s)}
    BY <1>5 DEF Elements
  <2> QED
    BY <2>3, <2>4
<1>7. Elements(s) \subseteq Elements(r)
  <2>1. ASSUME NEW k \in 1..Len(s)
        PROVE  \E j \in 1..Len(s) : s[k] = r[j]
    <3>1. CASE k < i
      <4>1. r[k] = s[k]
        BY <1>5, <3>1
      <4> QED
        BY <4>1
    <3>2. CASE k = i
      <4>1. Len(s) \in 1..Len(s) /\ ~(Len(s) < i) /\ ~(Len(s) < Len(s))
        BY <1>0
      <4> QED
        BY <1>5, <3>2, <4>1
    <3>3. CASE i < k
      <4>1. k - 1 \in 1..Len(s) /\ ~(k - 1 < i) /\ k - 1 < Len(s) /\ (k - 1) + 1 = k
        BY <1>0, <3>3
      <4>2. r[k - 1] = s[(k - 1) + 1]
        BY <1>5, <4>1
      <4> QED
        BY <4>1, <4>2
    <3> QED
      BY <1>0, <3>1, <3>2, <3>3
  <2>2. Elements(r) = {r[k] : k \in 1..Len(s)}
    BY <1>5 DEF Elements
  <2>3. \A k \in 1..Len(s) : s[k] \in Elements(r)
    BY <2>1, <2>2
  <2> QED
    BY <2>3 DEF Elements
<1> QED
  BY <1>5, <1>6, <1>7 DEF r

\* Head and tail of a sequence put behind one element.
LEMMA ConcatFirst ==
  ASSUME NEW S, NEW m \in S, NEW s \in Seq(S)
  PROVE  /\ <<m>> \o s # <<>>
         /\ Head(<<m>> \o s) = m
         /\ Tail(<<m>> \o s) = s
<1> DEFINE t == <<m>> \o s
<1>1. <<m>> \in Seq(S) /\ Len(<<m>>) = 1 /\ <<m>>[1] = m
  OBVIOUS
<1>2. Len(s) \in Nat
  BY LenProperties
<1>3. /\ t \in Seq(S)
      /\ Len(t) = 1 + Len(s)
      /\ t[1] = m
      /\ \A i \in 1..Len(s) : t[i + 1] = s[i]
  BY <1>1, <1>2, ConcatProperties
<1> HIDE DEF t
<1>4. t # <<>>
  BY <1>2, <1>3
<1>5. Head(t) = m
  BY <1>3, <1>4
<1>6. Tail(t) = s
  <2>1. /\ Tail(t) \in Seq(S)
        /\ Len(Tail(t)) = Len(s)
        /\ \A i \in 1..Len(s) : Tail(t)[i] = t[i + 1]
    BY <1>2, <1>3, <1>4, HeadTailProperties
  <2> QED
    BY <1>3, <2>1, SeqEqual
<1> QED
  BY <1>4, <1>5, <1>6 DEF t

\* A sequence is its head before its tail.
LEMMA HeadAndTail ==
  ASSUME NEW S, NEW s \in Seq(S), s # <<>>
  PROVE  <<Head(s)>> \o Tail(s) = s
<1>1. Len(s) \in Nat \ {0} /\ Tail(s) \in Seq(S) /\ Head(s) \in S
      /\ Len(Tail(s)) = Len(s) - 1 /\ Head(s) = s[1]
      /\ \A i \in 1..Len(Tail(s)) : Tail(s)[i] = s[i + 1]
  BY EmptySeq, HeadTailProperties
<1> DEFINE h == <<Head(s)>>
           r == Tail(s)
           t == h \o r
<1>2. h \in Seq(S) /\ Len(h) = 1 /\ h[1] = s[1]
  BY <1>1
<1>3. r \in Seq(S) /\ Len(r) = Len(s) - 1 /\ \A i \in 1..(Len(s) - 1) : r[i] = s[i + 1]
  BY <1>1
<1> HIDE DEF h, r
<1>4. /\ t \in Seq(S)
      /\ Len(t) = Len(h) + Len(r)
      /\ \A i \in 1..(Len(h) + Len(r)) : t[i] = IF i <= Len(h) THEN h[i] ELSE r[i - Len(h)]
  <2>1. h \in Seq(S) /\ r \in Seq(S)
    BY <1>2, <1>3
  <2> QED
    BY <2>1, ConcatProperties
<1> HIDE DEF t
<1>5. Len(t) = Len(s)
  BY <1>1, <1>2, <1>3, <1>4
<1>6. ASSUME NEW i \in 1..Len(s) PROVE t[i] = s[i]
  <2>1. t[i] = IF i <= 1 THEN h[i] ELSE r[i - 1]
    BY <1>1, <1>2, <1>3, <1>4
  <2>2. CASE i = 1
    BY <1>2, <2>1, <2>2
  <2>3. CASE i # 1
    <3>1. i - 1 \in 1..(Len(s) - 1) /\ (i - 1) + 1 = i /\ ~(i <= 1)
      BY <1>1, <2>3
    <3>2. r[i - 1] = s[(i - 1) + 1]
      BY <1>3, <3>1
    <3> QED
      BY <2>1, <3>1, <3>2
  <2> QED
    BY <2>2, <2>3
<1>7. t = s
  BY <1>4, <1>5, <1>6, SeqEqual
<1> QED
  BY <1>7 DEF t, h, r

-----------------------------------------------------------------------------
(* The four ways the messages of the devices change                        *)

OthersKeep(d) == \A e \in Devices \ {d} : Held(e)' = Held(e)

Stay == \A d \in Devices : Held(d)' = Held(d)

Leaves(d) ==
    /\ Held(d) # <<>>
    /\ Held(d)' = Tail(Held(d))
    /\ completed' = completed \union {Head(Held(d))}
    /\ OthersKeep(d)

Joins(d, m) ==
    /\ Held(d)' = Append(Held(d), m)
    /\ OthersKeep(d)

Placed == MessageInOnePlace /\ SentInOrder /\ HeldWereCreated

\* What a device holds are sent messages.
LEMMA HeldIsSequence ==
  ASSUME TypeOK, MessageFitsState, NEW d \in Devices
  PROVE  Held(d) \in Seq(Sent)
<1>1. external[d] \in Seq(Sent)
  BY DEF TypeOK
<1>2. CASE state[d] = "EXEC_EXTERNAL"
  <2>1. message[d] \in Sent
    BY <1>2 DEF MessageFitsState
  <2>2. <<message[d]>> \in Seq(Sent)
    BY <2>1
  <2> QED
    BY <1>1, <1>2, <2>2, ConcatProperties DEF Held
<1>3. CASE state[d] # "EXEC_EXTERNAL"
  BY <1>1, <1>3, ConcatEmptySeq DEF Held
<1> QED
  BY <1>2, <1>3

\* Nothing moves; messages that no device holds may be completed.
LEMMA StayKeepsPlaced ==
  ASSUME Placed, Stay, created \in Nat, created' \in Nat, created <= created',
         NEW M, M \subseteq 1..created', completed' \subseteq completed \union M,
         \A d \in Devices : Elements(Held(d)) \intersect M = {}
  PROVE  Placed'
<1>1. \A d \in Devices : Held(d)' = Held(d)
  BY DEF Stay
<1>2. \A d \in Devices : Elements(Held(d))' = Elements(Held(d))
  BY <1>1 DEF Elements
<1>3. MessageInOnePlace'
  <2>1. \A d, e \in Devices :
           d # e => Elements(Held(d))' \intersect Elements(Held(e))' = {}
    BY <1>2 DEF Placed, MessageInOnePlace
  <2>2. \A d \in Devices : \A i, j \in 1..Len(Held(d)') :
           i # j => Held(d)'[i] # Held(d)'[j]
    BY <1>1 DEF Placed, MessageInOnePlace
  <2>3. \A d \in Devices : Elements(Held(d))' \intersect completed' = {}
    BY <1>2 DEF Placed, MessageInOnePlace
  <2> QED
    BY <2>1, <2>2, <2>3 DEF MessageInOnePlace
<1>4. SentInOrder'
  <2>1. \A d \in Devices : \A i, j \in 1..Len(Held(d)') :
           i < j => Held(d)'[i] < Held(d)'[j]
    BY <1>1 DEF Placed, SentInOrder
  <2> QED
    BY <2>1 DEF SentInOrder
<1>5. HeldWereCreated'
  <2>1. 1..created \subseteq 1..created'
    OBVIOUS
  <2> QED
    BY <1>2, <2>1 DEF Placed, HeldWereCreated
<1> QED
  BY <1>3, <1>4, <1>5 DEF Placed

\* The first message of d leaves, completed.
LEMMA LeavesKeepsPlaced ==
  ASSUME NEW d \in Devices, Placed, Leaves(d), created' = created,
         \A e \in Devices : Held(e) \in Seq(Sent)
  PROVE  Placed'
<1> DEFINE s == Held(d)
           t == Held(d)'
           first == Head(s)
<1>1. /\ s \in Seq(Sent) /\ s # <<>> /\ t = Tail(s)
      /\ Len(s) \in Nat /\ Len(t) = Len(s) - 1
      /\ \A i \in 1..Len(t) : t[i] = s[i + 1]
      /\ first = s[1]
  BY HeadTailProperties, LenProperties DEF Leaves
<1>2. Elements(t) \subseteq Elements(s) /\ first \in Elements(s)
  BY <1>1, ElementsOfTail
<1>3. \A e \in Devices \ {d} : Held(e)' = Held(e)
  BY DEF Leaves, OthersKeep
<1>4. \A e \in Devices : Elements(Held(e))' \subseteq Elements(Held(e))
  <2>1. \A e \in Devices \ {d} : Elements(Held(e))' = Elements(Held(e))
    BY <1>3 DEF Elements
  <2>2. Elements(Held(d))' = Elements(t)
    BY DEF Elements
  <2> QED
    BY <1>2, <2>1, <2>2
<1>5. \A i, j \in 1..Len(s) : i < j => s[i] < s[j]
  BY DEF Placed, SentInOrder
<1>5a. \A i, j \in 1..Len(s) : i # j => s[i] # s[j]
  BY DEF Placed, MessageInOnePlace
<1>6. first \notin Elements(t)
  <2>1. ASSUME NEW i \in 1..Len(t) PROVE t[i] # first
    <3>1. i + 1 \in 1..Len(s) /\ 1 \in 1..Len(s) /\ i + 1 # 1 /\ t[i] = s[i + 1]
      BY <1>1
    <3> QED
      BY <1>1, <1>5a, <3>1
  <2> QED
    BY <2>1 DEF Elements
<1>7. \A e \in Devices : first \notin Elements(Held(e))'
  <2>1. \A e \in Devices \ {d} : first \notin Elements(Held(e))
    BY <1>2 DEF Placed, MessageInOnePlace
  <2> QED
    BY <1>4, <1>6, <2>1 DEF Elements
<1>8. MessageInOnePlace'
  <2>1. \A e, f \in Devices :
           e # f => Elements(Held(e))' \intersect Elements(Held(f))' = {}
    BY <1>4 DEF Placed, MessageInOnePlace
  <2>2. ASSUME NEW e \in Devices, NEW i \in 1..Len(Held(e)'), NEW j \in 1..Len(Held(e)'), i # j
        PROVE  Held(e)'[i] # Held(e)'[j]
    <3>1. CASE e = d
      <4>1. i + 1 \in 1..Len(s) /\ j + 1 \in 1..Len(s) /\ i + 1 # j + 1
        BY <1>1, <2>2, <3>1
      <4> QED
        BY <1>1, <1>5a, <3>1, <4>1
    <3>2. CASE e # d
      BY <1>3, <2>2, <3>2 DEF Placed, MessageInOnePlace
    <3> QED
      BY <3>1, <3>2
  <2>3. \A e \in Devices : Elements(Held(e))' \intersect completed' = {}
    BY <1>4, <1>7 DEF Leaves, Placed, MessageInOnePlace
  <2> QED
    BY <2>1, <2>2, <2>3 DEF MessageInOnePlace
<1>9. SentInOrder'
  <2>1. ASSUME NEW e \in Devices, NEW i \in 1..Len(Held(e)'), NEW j \in 1..Len(Held(e)'), i < j
        PROVE  Held(e)'[i] < Held(e)'[j]
    <3>1. CASE e = d
      <4>1. i + 1 \in 1..Len(s) /\ j + 1 \in 1..Len(s) /\ i + 1 < j + 1
        BY <1>1, <2>1, <3>1
      <4>2. t[i] = s[i + 1] /\ t[j] = s[j + 1]
        BY <1>1, <3>1
      <4> QED
        BY <1>5, <3>1, <4>1, <4>2
    <3>2. CASE e # d
      BY <1>3, <2>1, <3>2 DEF Placed, SentInOrder
    <3> QED
      BY <3>1, <3>2
  <2> QED
    BY <2>1 DEF SentInOrder
<1>10. HeldWereCreated'
  <2>1. first \in 1..created
    BY <1>2 DEF Placed, HeldWereCreated
  <2> QED
    BY <1>4, <2>1 DEF Leaves, Placed, HeldWereCreated
<1> QED
  BY <1>8, <1>9, <1>10 DEF Placed

\* The newest message joins the queue of d, which held only older ones.
LEMMA JoinsKeepsPlaced ==
  ASSUME NEW d \in Devices, NEW m \in Sent, Placed, Joins(d, m),
         \A e \in Devices : Held(e) \in Seq(Sent),
         created \in Nat, created' \in Nat, created <= created', m = created',
         \A e \in Devices : m \notin Elements(Held(e)),
         completed' \subseteq completed \ {m}
  PROVE  Placed'
<1> DEFINE s == Held(d)
           t == Held(d)'
<1>1. /\ s \in Seq(Sent) /\ t = Append(s, m)
      /\ Len(s) \in Nat /\ Len(t) = Len(s) + 1
      /\ \A i \in 1..Len(s) : t[i] = s[i]
      /\ t[Len(s) + 1] = m
  BY AppendProperties, LenProperties DEF Joins
<1>2. Elements(t) \subseteq Elements(s) \union {m}
  BY <1>1, ElementsOfAppend
<1>3. \A e \in Devices \ {d} : Held(e)' = Held(e) /\ Elements(Held(e))' = Elements(Held(e))
  BY DEF Joins, OthersKeep, Elements
<1>4. \A i \in 1..Len(s) : s[i] \in 1..created /\ s[i] # m
  BY DEF Elements, Placed, HeldWereCreated
<1>5. \A i \in 1..Len(s) : t[i] = s[i] /\ t[i] < m
  BY <1>1, <1>4
<1>6. MessageInOnePlace'
  <2>1. ASSUME NEW e \in Devices, NEW f \in Devices, e # f
        PROVE  Elements(Held(e))' \intersect Elements(Held(f))' = {}
    <3>1. Elements(Held(e))' \subseteq Elements(Held(e)) \union (IF e = d THEN {m} ELSE {})
      BY <1>2, <1>3 DEF Elements
    <3>2. Elements(Held(f))' \subseteq Elements(Held(f)) \union (IF f = d THEN {m} ELSE {})
      BY <1>2, <1>3 DEF Elements
    <3>3. Elements(Held(e)) \intersect Elements(Held(f)) = {}
      BY <2>1 DEF Placed, MessageInOnePlace
    <3> QED
      BY <2>1, <3>1, <3>2, <3>3
  <2>2. ASSUME NEW e \in Devices, NEW i \in 1..Len(Held(e)'), NEW j \in 1..Len(Held(e)'), i # j
        PROVE  Held(e)'[i] # Held(e)'[j]
    <3>1. CASE e = d
      <4>1. CASE i \in 1..Len(s) /\ j \in 1..Len(s)
        BY <1>1, <2>2, <3>1, <4>1 DEF Placed, MessageInOnePlace
      <4>2. CASE i = Len(s) + 1 /\ j \in 1..Len(s)
        BY <1>1, <1>4, <3>1, <4>2
      <4>3. CASE j = Len(s) + 1 /\ i \in 1..Len(s)
        BY <1>1, <1>4, <3>1, <4>3
      <4> QED
        BY <1>1, <2>2, <3>1, <4>1, <4>2, <4>3
    <3>2. CASE e # d
      BY <1>3, <2>2, <3>2 DEF Placed, MessageInOnePlace
    <3> QED
      BY <3>1, <3>2
  <2>3. \A e \in Devices : Elements(Held(e))' \intersect completed' = {}
    <3>1. \A e \in Devices : Elements(Held(e))' \subseteq Elements(Held(e)) \union {m}
      BY <1>2, <1>3 DEF Elements
    <3> QED
      BY <3>1 DEF Placed, MessageInOnePlace
  <2> QED
    BY <2>1, <2>2, <2>3 DEF MessageInOnePlace
<1>7. SentInOrder'
  <2>1. ASSUME NEW e \in Devices, NEW i \in 1..Len(Held(e)'), NEW j \in 1..Len(Held(e)'), i < j
        PROVE  Held(e)'[i] < Held(e)'[j]
    <3>1. CASE e = d
      <4>1. CASE i \in 1..Len(s) /\ j \in 1..Len(s)
        BY <1>1, <2>1, <3>1, <4>1 DEF Placed, SentInOrder
      <4>2. CASE j = Len(s) + 1 /\ i \in 1..Len(s)
        BY <1>1, <1>5, <3>1, <4>2
      <4> QED
        BY <1>1, <2>1, <3>1, <4>1, <4>2
    <3>2. CASE e # d
      BY <1>3, <2>1, <3>2 DEF Placed, SentInOrder
    <3> QED
      BY <3>1, <3>2
  <2> QED
    BY <2>1 DEF SentInOrder
<1>8. HeldWereCreated'
  <2>1. 1..created \subseteq 1..created' /\ m \in 1..created'
    BY DEF Sent
  <2>2. \A e \in Devices : Elements(Held(e))' \subseteq Elements(Held(e)) \union {m}
    BY <1>2, <1>3 DEF Elements
  <2> QED
    BY <2>1, <2>2 DEF Placed, HeldWereCreated
<1> QED
  BY <1>6, <1>7, <1>8 DEF Placed

\* All devices lose what they hold.
LEMMA ClearedKeepsPlaced ==
  ASSUME Placed, \A d \in Devices : Held(d)' = <<>>, UNCHANGED <<completed, created>>
  PROVE  Placed'
<1>1. \A d \in Devices : Held(d)' = <<>> /\ Elements(Held(d))' = {}
  BY DEF Elements
<1>2. Len(<<>>) = 0 /\ 1..0 = {}
  OBVIOUS
<1>3. MessageInOnePlace' /\ SentInOrder'
  BY <1>1, <1>2 DEF MessageInOnePlace, SentInOrder
<1>4. HeldWereCreated'
  BY <1>1 DEF Placed, HeldWereCreated
<1> QED
  BY <1>3, <1>4 DEF Placed

-----------------------------------------------------------------------------
(* A step of the port thread                                               *)

Fits(s, m) ==
    /\ s \in {"EXEC_EXTERNAL", "EXEC_WRITE", "EXEC_READ"}
    /\ m \in Sent \union Reads \union {WriteMessage}
    /\ s = "EXEC_EXTERNAL" <=> m \in Sent

\* The kinds of messages, and nullptr, are told apart.
LEMMA MessagesApart ==
  /\ NoMessage \notin Sent
  /\ WriteMessage \notin Sent
  /\ NoMessage \notin Reads
  /\ NoMessage # WriteMessage
  /\ Reads \intersect Sent = {}
  /\ NoDevice \notin Devices
BY ClientPollingAssumption DEF NoDevice, Devices

\* What a device executes fits its state.
LEMMA CurrentFits ==
  ASSUME IInv, NEW d \in Devices, state[d] # "PAUSE"
  PROVE  Fits(state[d], message[d])
BY MessagesApart DEF IInv, TypeOK, MessageFitsState, Fits

\* The variables an execution changes keep their types, and the port still
\* belongs to a device that executes.
LEMMA ExecuteKeepsTypes ==
  ASSUME IInv, NEW d \in Devices, NEW s, NEW m, Fits(s, m), Execute(d, s, m)
  PROVE  /\ Channel!TypeOK'
         /\ state' \in [Devices -> {"PAUSE", "EXEC_EXTERNAL", "EXEC_WRITE", "EXEC_READ"}]
         /\ message' \in [Devices -> Sent \union Reads \union {NoMessage, WriteMessage}]
         /\ due' \subseteq Reads
         /\ completed' \subseteq Sent
         /\ OwnerIsExecuting'
         /\ MessageFitsState'
<1> USE MessagesApart
<1>1. /\ Channel!TypeOK
      /\ state \in [Devices -> {"PAUSE", "EXEC_EXTERNAL", "EXEC_WRITE", "EXEC_READ"}]
      /\ message \in [Devices -> Sent \union Reads \union {NoMessage, WriteMessage}]
      /\ due \subseteq Reads
      /\ completed \subseteq Sent
      /\ MaxTries \in Nat
  BY ClientPollingAssumption DEF IInv, TypeOK
<1>c. /\ owner \in Devices \union {NoDevice}
      /\ onLine \in BOOLEAN
      /\ tries \in 0..MaxTries
      /\ outcome \in [client : Devices \union {NoDevice}, good : BOOLEAN]
      /\ MaxTries \in Nat
  BY <1>1 DEF Channel!TypeOK
<1>2. CASE /\ Waits(d)
           /\ state' = [state EXCEPT ![d] = s]
           /\ message' = [message EXCEPT ![d] = m]
           /\ UNCHANGED <<due, completed>>
  <2>1. /\ owner' \in {owner, d}
        /\ owner' # NoDevice
        /\ owner' \in Devices
        /\ onLine' \in BOOLEAN
        /\ tries' \in 0..MaxTries
        /\ outcome' = outcome
    <3>1. CASE owner \notin {NoDevice, d} /\ UNCHANGED channel
      BY <1>c, <3>1 DEF channel
    <3>2. CASE Channel!Hold(d)
      BY <1>c, <3>2 DEF Channel!Hold
    <3>3. CASE Channel!Send(d)
      BY <1>c, <3>3 DEF Channel!Send
    <3> QED
      BY <1>2, <3>1, <3>2, <3>3 DEF Waits
  <2>2. Channel!TypeOK'
    BY <1>c, <2>1 DEF Channel!TypeOK
  <2>3. OwnerIsExecuting'
    BY <1>1, <1>2, <2>1 DEF OwnerIsExecuting, IInv, Fits
  <2>4. MessageFitsState'
    BY <1>1, <1>2 DEF MessageFitsState, IInv, Fits
  <2> QED
    BY <1>1, <1>2, <2>2, <2>3, <2>4 DEF Fits
<1>3. CASE /\ Completes(d, m)
           /\ state' = [state EXCEPT ![d] = "PAUSE"]
           /\ message' = [message EXCEPT ![d] = NoMessage]
  <2>1. PICK good \in BOOLEAN : Channel!Return(d, good)
    BY <1>3 DEF Completes
  <2>2. owner' = NoDevice /\ Channel!TypeOK'
    <3>1. owner' = NoDevice /\ onLine' = FALSE /\ tries' = 0
      BY <2>1 DEF Channel!Return
    <3>2. outcome' = [client |-> d, good |-> good]
      BY <2>1 DEF Channel!Return
    <3>3. outcome' \in [client : Devices \union {NoDevice}, good : BOOLEAN]
      BY <3>2
    <3>4. 0 \in 0..MaxTries
      BY <1>c
    <3> QED
      BY <3>1, <3>3, <3>4 DEF Channel!TypeOK
  <2>3. OwnerIsExecuting'
    BY <2>2 DEF OwnerIsExecuting
  <2>4. MessageFitsState'
    BY <1>1, <1>3 DEF MessageFitsState, IInv
  <2>5. due' \subseteq Reads /\ completed' \subseteq Sent
    BY <1>1, <1>3 DEF Completes
  <2> QED
    BY <1>1, <1>3, <2>2, <2>3, <2>4, <2>5
<1> QED
  BY <1>2, <1>3 DEF Execute

\* An execution of d's first sent message keeps it or lets it leave.
LEMMA ExecuteMovesSent ==
  ASSUME IInv, NEW d \in Devices, NEW m \in Sent, Execute(d, "EXEC_EXTERNAL", m),
         external' = [external EXCEPT ![d] = external'[d]],
         external'[d] \in Seq(Sent),
         Held(d) = <<m>> \o external'[d]
  PROVE  \/ Stay /\ completed' = completed
         \/ Leaves(d)
<1>1. /\ state \in [Devices -> {"PAUSE", "EXEC_EXTERNAL", "EXEC_WRITE", "EXEC_READ"}]
      /\ DOMAIN message = Devices
      /\ DOMAIN external = Devices
  BY DEF IInv, TypeOK
<1>2. CASE /\ Waits(d)
           /\ state' = [state EXCEPT ![d] = "EXEC_EXTERNAL"]
           /\ message' = [message EXCEPT ![d] = m]
           /\ UNCHANGED <<due, completed>>
  <2>1. Held(d)' = <<m>> \o external'[d]
    BY <1>1, <1>2 DEF Held, IInv, TypeOK
  <2>2. \A e \in Devices \ {d} : Held(e)' = Held(e)
    BY <1>1, <1>2 DEF Held
  <2> QED
    BY <1>2, <2>1, <2>2 DEF Stay
<1>3. CASE /\ Completes(d, m)
           /\ state' = [state EXCEPT ![d] = "PAUSE"]
           /\ message' = [message EXCEPT ![d] = NoMessage]
  <2>1. Held(d)' = <<>> \o external'[d]
    BY <1>1, <1>3 DEF Held
  <2>2. Held(d)' = external'[d]
    BY <2>1, ConcatEmptySeq
  <2>3. \A e \in Devices \ {d} : Held(e)' = Held(e)
    BY <1>1, <1>3 DEF Held
  <2>4. Held(d) # <<>> /\ Head(Held(d)) = m /\ Tail(Held(d)) = external'[d]
    BY ConcatFirst
  <2>5. completed' = completed \union {m}
    BY <1>3 DEF Completes
  <2> QED
    BY <2>2, <2>3, <2>4, <2>5 DEF Leaves, OthersKeep
<1> QED
  BY <1>2, <1>3 DEF Execute

\* An execution of a read or write message leaves the sent messages alone.
LEMMA ExecuteKeepsSent ==
  ASSUME IInv, NEW d \in Devices, NEW s, NEW m, Fits(s, m), m \notin Sent,
         Execute(d, s, m), external' = external,
         state[d] # "EXEC_EXTERNAL"
  PROVE  Stay /\ completed' = completed
<1>1. /\ DOMAIN state = Devices
      /\ DOMAIN message = Devices
  BY DEF IInv, TypeOK
<1>2. completed' = completed
  BY DEF Execute, Completes
<1>3. s # "EXEC_EXTERNAL"
  BY DEF Fits
<1>4. PICK u, v : /\ u # "EXEC_EXTERNAL"
                  /\ state' = [state EXCEPT ![d] = u]
                  /\ message' = [message EXCEPT ![d] = v]
  BY <1>3 DEF Execute
<1>5. Held(d)' = Held(d)
  BY <1>1, <1>4 DEF Held
<1>6. \A e \in Devices \ {d} : Held(e)' = Held(e)
  BY <1>1, <1>4 DEF Held
<1> QED
  BY <1>2, <1>5, <1>6 DEF Stay

\* What one run() does to the variables it may change.
WorkDone(d) ==
    /\ Channel!TypeOK'
    /\ state' \in [Devices -> {"PAUSE", "EXEC_EXTERNAL", "EXEC_WRITE", "EXEC_READ"}]
    /\ message' \in [Devices -> Sent \union Reads \union {NoMessage, WriteMessage}]
    /\ due' \subseteq Reads
    /\ completed' \subseteq Sent
    /\ OwnerIsExecuting'
    /\ MessageFitsState'
    /\ external' \in [Devices -> Seq(Sent)]
    /\ reads' \in [Devices -> Seq(Reads)]
    /\ \A e \in Devices : /\ Len(reads'[e]) = Len(ReadsOf[e])
                          /\ Elements(reads'[e]) = Elements(ReadsOf[e])
    /\ \E w \in 0..(writes[d] + toWrite[d]) : writes' = [writes EXCEPT ![d] = w]
    /\ (Stay /\ completed' = completed) \/ Leaves(d)

\* What createWriteMessage leaves is no more than what waited.
LEMMA ToWriteBounds ==
  ASSUME IInv, NEW d \in Devices
  PROVE  /\ ToWrite(d) \subseteq 0..(writes[d] + toWrite[d])
         /\ \A w \in ToWrite(d) \ {0} : w - 1 \in 0..(writes[d] + toWrite[d])
         /\ 0 \in 0..(writes[d] + toWrite[d])
<1>1. writes[d] \in Nat /\ toWrite[d] \in Nat
  BY ClientPollingAssumption DEF IInv, TypeOK
<1> QED
  BY <1>1 DEF ToWrite

\* The run() of a device that executes a message already.
LEMMA GoOnWorks ==
  ASSUME IInv, NEW d \in Devices, GoOn(d)
  PROVE  WorkDone(d)
<1>1. Fits(state[d], message[d]) /\ Execute(d, state[d], message[d])
  BY CurrentFits DEF GoOn
<1>2. external' = external /\ reads' = reads
  BY DEF GoOn
<1>3. \E w \in 0..(writes[d] + toWrite[d]) : writes' = [writes EXCEPT ![d] = w]
  BY ToWriteBounds DEF GoOn
<1>4. (Stay /\ completed' = completed) \/ Leaves(d)
  <2>1. CASE state[d] = "EXEC_EXTERNAL"
    <3>1. message[d] \in Sent /\ Execute(d, "EXEC_EXTERNAL", message[d])
      BY <1>1, <2>1 DEF Fits
    <3>2. /\ external' = [external EXCEPT ![d] = external'[d]]
          /\ external'[d] \in Seq(Sent)
      BY <1>2 DEF IInv, TypeOK
    <3>3. Held(d) = <<message[d]>> \o external'[d]
      BY <1>2, <2>1 DEF Held
    <3> QED
      BY <3>1, <3>2, <3>3, ExecuteMovesSent
  <2>2. CASE state[d] # "EXEC_EXTERNAL"
    <3>1. message[d] \notin Sent
      BY <1>1, <2>2 DEF Fits
    <3> QED
      BY <1>1, <1>2, <2>2, <3>1, ExecuteKeepsSent
  <2> QED
    BY <2>1, <2>2
<1> QED
  BY <1>1, <1>2, <1>3, <1>4, ExecuteKeepsTypes DEF WorkDone, IInv, TypeOK

\* The run() that takes the next message of the dialog.
LEMMA StartExternalWorks ==
  ASSUME IInv, NEW d \in Devices, StartExternal(d)
  PROVE  WorkDone(d)
<1> DEFINE m == Head(external[d])
<1>1. external \in [Devices -> Seq(Sent)] /\ external[d] \in Seq(Sent) /\ external[d] # <<>>
  BY DEF IInv, TypeOK, StartExternal
<1>2. m \in Sent /\ Tail(external[d]) \in Seq(Sent)
  BY <1>1, HeadTailProperties
<1>3. /\ external' = [external EXCEPT ![d] = Tail(external[d])]
      /\ external'[d] = Tail(external[d])
      /\ external' \in [Devices -> Seq(Sent)]
  BY <1>1, <1>2 DEF StartExternal
<1>4. Fits("EXEC_EXTERNAL", m) /\ Execute(d, "EXEC_EXTERNAL", m)
  BY <1>2 DEF Fits, StartExternal
<1>5. \E w \in 0..(writes[d] + toWrite[d]) : writes' = [writes EXCEPT ![d] = w]
  BY ToWriteBounds DEF StartExternal
<1>6. Held(d) = <<m>> \o external'[d]
  <2>1. Held(d) = external[d]
    BY <1>1, ConcatEmptySeq DEF StartExternal, Held
  <2>2. <<m>> \o Tail(external[d]) = external[d]
    BY <1>1, HeadAndTail
  <2> QED
    BY <1>3, <2>1, <2>2
<1>7. (Stay /\ completed' = completed) \/ Leaves(d)
  BY <1>2, <1>3, <1>4, <1>6, ExecuteMovesSent
<1>8. reads' = reads
  BY DEF StartExternal
<1> QED
  BY <1>3, <1>4, <1>5, <1>7, <1>8, ExecuteKeepsTypes DEF WorkDone, IInv, TypeOK

\* The run() that takes the next write message.
LEMMA StartWriteWorks ==
  ASSUME IInv, NEW d \in Devices, StartWrite(d)
  PROVE  WorkDone(d)
<1>1. /\ Fits("EXEC_WRITE", WriteMessage)
      /\ WriteMessage \notin Sent
      /\ Execute(d, "EXEC_WRITE", WriteMessage)
  BY MessagesApart DEF Fits, StartWrite
<1>2. external' = external /\ reads' = reads /\ state[d] # "EXEC_EXTERNAL"
  BY DEF StartWrite
<1>3. \E w \in 0..(writes[d] + toWrite[d]) : writes' = [writes EXCEPT ![d] = w]
  BY ToWriteBounds DEF StartWrite
<1>4. Stay /\ completed' = completed
  BY <1>1, <1>2, ExecuteKeepsSent
<1> QED
  BY <1>1, <1>2, <1>3, <1>4, ExecuteKeepsTypes DEF WorkDone, IInv, TypeOK

\* The run() that takes the first read message on duty.
LEMMA StartReadWorks ==
  ASSUME IInv, NEW d \in Devices, StartRead(d)
  PROVE  WorkDone(d)
<1>1. PICK i \in 1..Len(reads[d]) :
         /\ reads' = [reads EXCEPT ![d] = Rotated(reads[d], i)]
         /\ Execute(d, "EXEC_READ", reads[d][i])
  BY DEF StartRead
<1>2. reads \in [Devices -> Seq(Reads)] /\ reads[d] \in Seq(Reads)
  BY DEF IInv, TypeOK
<1>3. /\ Rotated(reads[d], i) \in Seq(Reads)
      /\ Len(Rotated(reads[d], i)) = Len(reads[d])
      /\ Elements(Rotated(reads[d], i)) = Elements(reads[d])
  BY <1>2, RotatedKeepsElements
<1>4. /\ reads' \in [Devices -> Seq(Reads)]
      /\ \A e \in Devices : /\ Len(reads'[e]) = Len(ReadsOf[e])
                            /\ Elements(reads'[e]) = Elements(ReadsOf[e])
  <2>1. \A e \in Devices : /\ Len(reads[e]) = Len(ReadsOf[e])
                           /\ Elements(reads[e]) = Elements(ReadsOf[e])
    BY DEF IInv, TypeOK
  <2>2. \A e \in Devices \ {d} : reads'[e] = reads[e]
    BY <1>1, <1>2
  <2>3. reads'[d] = Rotated(reads[d], i)
    BY <1>1, <1>2
  <2>4. reads' \in [Devices -> Seq(Reads)]
    BY <1>1, <1>2, <1>3
  <2> QED
    BY <1>3, <2>1, <2>2, <2>3, <2>4
<1>5. reads[d][i] \in Reads
  BY <1>2, ElementOfSeq
<1>6. Fits("EXEC_READ", reads[d][i]) /\ reads[d][i] \notin Sent
  BY <1>5, MessagesApart DEF Fits
<1>7. external' = external /\ state[d] # "EXEC_EXTERNAL"
  BY DEF StartRead
<1>8. \E w \in 0..(writes[d] + toWrite[d]) : writes' = [writes EXCEPT ![d] = w]
  BY ToWriteBounds DEF StartRead
<1>9. Stay /\ completed' = completed
  BY <1>1, <1>6, <1>7, ExecuteKeepsSent
<1>10. external \in [Devices -> Seq(Sent)]
  BY DEF IInv, TypeOK
<1> QED
  BY <1>1, <1>4, <1>6, <1>7, <1>8, <1>9, <1>10, ExecuteKeepsTypes DEF WorkDone

\* The run() of a device that has nothing to do.
LEMMA IdleWorks ==
  ASSUME IInv, NEW d \in Devices, Idle(d)
  PROVE  WorkDone(d)
<1>1. UNCHANGED <<channel, state, message, external, reads, due, completed>>
  BY DEF Idle
<1>2. Channel!TypeOK' /\ OwnerIsExecuting' /\ MessageFitsState'
  BY <1>1 DEF IInv, TypeOK, Channel!TypeOK, OwnerIsExecuting, MessageFitsState, channel
<1>3. \E w \in 0..(writes[d] + toWrite[d]) : writes' = [writes EXCEPT ![d] = w]
  BY ToWriteBounds DEF Idle
<1>4. Stay /\ completed' = completed
  BY <1>1 DEF Stay, Held
<1> QED
  BY <1>1, <1>2, <1>3, <1>4 DEF WorkDone, IInv, TypeOK

\* Whatever a run() finds, it does what WorkDone says.
LEMMA WorksDo ==
  ASSUME IInv, NEW d \in Devices, Works(d)
  PROVE  WorkDone(d)
BY GoOnWorks, StartExternalWorks, StartWriteWorks, StartReadWorks, IdleWorks DEF Works

\* The turn goes to another device, or comes back to the first.
LEMMA NextTurn ==
  ASSUME NEW d \in Devices
  PROVE  (d % N) + 1 \in Devices
BY ClientPollingAssumption, Z3 DEF Devices

\* A run() of the port thread keeps the inductive invariant.
LEMMA RunKeepsIInv ==
  ASSUME IInv, NEW d \in Devices, Run(d)
  PROVE  IInv'
<1>1. WorkDone(d)
  BY WorksDo DEF Run
<1>2. /\ turn' \in Devices
      /\ toWrite' = [toWrite EXCEPT ![d] = 0]
      /\ UNCHANGED <<runtime, dialog, target, timer, created, written, stops>>
  BY NextTurn DEF Run
<1>3. PICK w \in 0..(writes[d] + toWrite[d]) : writes' = [writes EXCEPT ![d] = w]
  BY <1>1 DEF WorkDone
<1>4. /\ writes \in [Devices -> 0..MaxWrites] /\ toWrite \in [Devices -> 0..MaxWrites]
      /\ written \in 0..MaxWrites /\ MaxWrites \in Nat
      /\ \A e \in Devices : writes[e] + toWrite[e] <= written
  BY ClientPollingAssumption DEF IInv, TypeOK, WritesCounted
<1>5. /\ w \in 0..MaxWrites /\ 0 \in 0..MaxWrites /\ w + 0 <= written
  BY <1>4
<1>6. writes' \in [Devices -> 0..MaxWrites] /\ toWrite' \in [Devices -> 0..MaxWrites]
  BY <1>2, <1>3, <1>4, <1>5
<1>7. WritesCounted'
  <2>1. writes'[d] = w /\ toWrite'[d] = 0
    BY <1>2, <1>3, <1>4
  <2>2. \A e \in Devices \ {d} : writes'[e] = writes[e] /\ toWrite'[e] = toWrite[e]
    BY <1>2, <1>3, <1>4
  <2>3. ASSUME NEW e \in Devices PROVE writes'[e] + toWrite'[e] <= written
    BY <1>4, <1>5, <2>1, <2>2
  <2> QED
    BY <1>2, <1>4, <2>3 DEF WritesCounted
<1>8. TypeOK'
  BY <1>1, <1>2, <1>6 DEF WorkDone, IInv, TypeOK
<1>9. DialogIsNewest'
  BY <1>2 DEF IInv, DialogIsNewest
<1>10. Placed'
  <2>1. Placed /\ created \in Nat /\ created' = created
    BY <1>2, ClientPollingAssumption DEF IInv, Placed, DialogIsNewest
  <2>2. CASE Stay /\ completed' = completed
    <3> DEFINE M == {}
    <3>1. M \subseteq 1..created' /\ completed' \subseteq completed \union M
          /\ \A e \in Devices : Elements(Held(e)) \intersect M = {}
      BY <2>2
    <3>2. created' \in Nat /\ created <= created'
      BY <2>1
    <3> HIDE DEF M
    <3> QED
      BY <2>1, <2>2, <3>1, <3>2, StayKeepsPlaced
  <2>3. CASE Leaves(d)
    <3>1. \A e \in Devices : Held(e) \in Seq(Sent)
      BY HeldIsSequence DEF IInv
    <3> QED
      BY <2>1, <2>3, <3>1, LeavesKeepsPlaced
  <2> QED
    BY <1>1, <2>2, <2>3 DEF WorkDone
<1> QED
  BY <1>1, <1>7, <1>8, <1>9, <1>10 DEF WorkDone, IInv, Placed

-----------------------------------------------------------------------------
(* A step of the GUI thread                                                *)

\* What a device holds follows from three variables.
LEMMA HeldUnchanged ==
  ASSUME UNCHANGED <<state, message, external>>
  PROVE  Stay
BY DEF Stay, Held

\* The clauses about the port thread's own variables, when it does nothing.
LEMMA PortThreadAtRest ==
  ASSUME IInv, UNCHANGED <<channel, private>>
  PROVE  Channel!TypeOK' /\ OwnerIsExecuting' /\ MessageFitsState'
BY DEF IInv, TypeOK, Channel!TypeOK, OwnerIsExecuting, MessageFitsState, channel, private

\* Sending m to d puts it at the end of what d holds, or completes it at once.
LEMMA SendMessageSends ==
  ASSUME IInv, NEW d \in Devices, NEW m \in Sent, NEW before, before \subseteq Sent,
         SendMessage(d, m, before), UNCHANGED <<channel, private>>
  PROVE  /\ external' \in [Devices -> Seq(Sent)]
         /\ completed' \subseteq Sent
         /\ \/ Stay /\ completed' = before \union {m}
            \/ Joins(d, m) /\ completed' = before
<1>1. external \in [Devices -> Seq(Sent)] /\ external[d] \in Seq(Sent)
  BY DEF IInv, TypeOK
<1>2. state' = state /\ message' = message
  BY DEF private
<1>3. CASE runtime = "stopped"
  BY <1>1, <1>2, <1>3, HeldUnchanged DEF SendMessage
<1>4. CASE runtime # "stopped"
  <2>1. external' = [external EXCEPT ![d] = Append(external[d], m)] /\ completed' = before
    BY <1>4 DEF SendMessage
  <2>2. Append(external[d], m) \in Seq(Sent)
    BY <1>1, AppendProperties
  <2>3. external' \in [Devices -> Seq(Sent)]
    BY <1>1, <2>1, <2>2
  <2>4. \A e \in Devices \ {d} : Held(e)' = Held(e)
    BY <1>1, <1>2, <2>1 DEF Held
  <2>5. Held(d)' = Append(Held(d), m)
    <3> DEFINE f == IF state[d] = "EXEC_EXTERNAL" THEN <<message[d]>> ELSE <<>>
    <3>1. f \in Seq(Sent)
      <4>1. state[d] = "EXEC_EXTERNAL" => message[d] \in Sent
        BY DEF IInv, MessageFitsState
      <4> QED
        BY <4>1
    <3>2. Held(d) = f \o external[d] /\ Held(d)' = f \o Append(external[d], m)
      BY <1>1, <1>2, <2>1 DEF Held
    <3> HIDE DEF f
    <3>3. f \o Append(external[d], m) = Append(f \o external[d], m)
      BY <1>1, <3>1, AppendOfConcat
    <3> QED
      BY <3>2, <3>3
  <2> QED
    BY <2>1, <2>3, <2>4, <2>5 DEF Joins, OthersKeep
<1> QED
  BY <1>3, <1>4

\* A step that moves no message and leaves the port thread's variables alone.
LEMMA QuietKeepsIInv ==
  ASSUME IInv,
         UNCHANGED <<channel, external, private, dialog, target, completed, created>>,
         due' \subseteq Reads,
         runtime' \in {"started", "stopping", "stopped"},
         timer' \in BOOLEAN, timer' => timer,
         toWrite' \in [Devices -> 0..MaxWrites],
         WritesCounted'
  PROVE  IInv'
<1>1. Channel!TypeOK' /\ OwnerIsExecuting' /\ MessageFitsState'
  BY PortThreadAtRest
<1>2. UNCHANGED <<turn, state, message, writes, reads>>
  BY DEF private
<1>3. TypeOK'
  BY <1>1, <1>2 DEF IInv, TypeOK
<1>4. DialogIsNewest'
  BY DEF IInv, DialogIsNewest
<1>5. Placed'
  <2>1. Placed /\ Stay
    BY <1>2, HeldUnchanged DEF IInv, Placed
  <2>2. created \in Nat /\ created' \in Nat /\ created <= created'
    BY ClientPollingAssumption DEF IInv, DialogIsNewest
  <2> DEFINE M == {}
  <2>3. /\ M \subseteq 1..created'
        /\ completed' \subseteq completed \union M
        /\ \A e \in Devices : Elements(Held(e)) \intersect M = {}
    OBVIOUS
  <2> HIDE DEF M
  <2> QED
    BY <2>1, <2>2, <2>3, StayKeepsPlaced
<1> QED
  BY <1>1, <1>3, <1>4, <1>5 DEF IInv, Placed

\* A read message becomes due.
LEMMA PeriodElapsesKeepsIInv ==
  ASSUME IInv, NEW m \in Reads, PeriodElapses(m)
  PROVE  IInv'
<1>1. UNCHANGED <<channel, queues, private, runtime, dialog, target, timer,
                  completed, created, written, stops>> /\ due' = due \union {m}
  BY DEF PeriodElapses
<1>2. external' = external /\ toWrite' = toWrite /\ writes' = writes
  BY <1>1 DEF queues, private
<1>3. WritesCounted'
  BY <1>1, <1>2 DEF IInv, WritesCounted
<1>4. due' \subseteq Reads /\ toWrite' \in [Devices -> 0..MaxWrites]
  BY <1>1, <1>2 DEF IInv, TypeOK
<1> QED
  BY <1>1, <1>2, <1>3, <1>4, QuietKeepsIInv DEF IInv, TypeOK

\* A value the user writes is counted before it waits.
LEMMA WriteItemDataKeepsIInv ==
  ASSUME IInv, NEW d \in Devices, WriteItemData(d)
  PROVE  IInv'
<1>1. /\ UNCHANGED <<channel, external, private, due, runtime, dialog, target, timer,
                     completed, created, stops>>
      /\ written < MaxWrites /\ written' = written + 1
      /\ toWrite' = [toWrite EXCEPT ![d] = toWrite[d] + 1]
  BY DEF WriteItemData
<1>2. /\ writes \in [Devices -> 0..MaxWrites] /\ toWrite \in [Devices -> 0..MaxWrites]
      /\ written \in 0..MaxWrites /\ MaxWrites \in Nat
      /\ \A e \in Devices : writes[e] + toWrite[e] <= written
      /\ writes' = writes
  BY <1>1, ClientPollingAssumption DEF IInv, TypeOK, WritesCounted, private
<1>3. toWrite'[d] = toWrite[d] + 1 /\ \A e \in Devices \ {d} : toWrite'[e] = toWrite[e]
  BY <1>1, <1>2
<1>4. \A e \in Devices : writes[e] \in Nat /\ toWrite[e] \in Nat
  BY <1>2
<1>5. \A e \in Devices : writes'[e] + toWrite'[e] <= written'
  BY <1>1, <1>2, <1>3, <1>4
<1>6. written' \in 0..MaxWrites
  BY <1>1, <1>2
<1>7. toWrite[d] + 1 \in 0..MaxWrites
  BY <1>1, <1>2, <1>4
<1>8. toWrite' \in [Devices -> 0..MaxWrites]
  BY <1>1, <1>2, <1>7
<1> QED
  BY <1>1, <1>5, <1>6, <1>8, QuietKeepsIInv DEF IInv, TypeOK, WritesCounted

\* "Stop" of the dialog, the start of the runtime and the begin of its stop.
LEMMA SwitchesKeepIInv ==
  ASSUME IInv, StopSending \/ BeginStop \/ Start
  PROVE  IInv'
<1>1. UNCHANGED <<channel, queues, private, due, dialog, target, completed, created, written>>
  BY DEF StopSending, BeginStop, Start
<1>2. external' = external /\ toWrite' = toWrite /\ writes' = writes
  BY <1>1 DEF queues, private
<1>3. WritesCounted'
  BY <1>1, <1>2 DEF IInv, WritesCounted
<1>4. runtime' \in {"started", "stopping", "stopped"} /\ timer' \in BOOLEAN /\ (timer' => timer)
  <2>1. runtime \in {"started", "stopping", "stopped"}
    BY DEF IInv, TypeOK
  <2>2. timer \in BOOLEAN
    BY DEF IInv, TypeOK
  <2>3. CASE StopSending
    BY <2>1, <2>3 DEF StopSending
  <2>4. CASE BeginStop \/ Start
    <3>1. runtime' \in {"started", "stopping", "stopped"}
      BY <2>4 DEF BeginStop, Start
    <3>2. timer' = timer
      BY <2>4 DEF BeginStop, Start
    <3> QED
      BY <2>2, <3>1, <3>2
  <2> QED
    BY <2>3, <2>4
<1> QED
  BY <1>1, <1>2, <1>3, <1>4, QuietKeepsIInv DEF IInv, TypeOK

\* Both ways of the dialog to send: the message is the newest one, no device
\* holds it and it is not completed when it joins a queue.
LEMMA SendKeepsIInv ==
  ASSUME IInv, NEW d \in Devices, NEW before, before \subseteq completed \ {created'},
         SendMessage(d, created', before),
         created' \in Sent, created \in Nat, created <= created',
         \A e \in Devices : created' \notin Elements(Held(e)),
         dialog' = created', target' \in Devices, timer' \in BOOLEAN,
         UNCHANGED <<channel, toWrite, private, due, runtime, written, stops>>
  PROVE  IInv'
<1>1. Channel!TypeOK' /\ OwnerIsExecuting' /\ MessageFitsState'
  BY PortThreadAtRest
<1>2. UNCHANGED <<turn, state, message, writes, reads>>
  BY DEF private
<1>3. before \subseteq Sent
  BY DEF IInv, TypeOK
<1>4. /\ external' \in [Devices -> Seq(Sent)]
      /\ completed' \subseteq Sent
      /\ \/ Stay /\ completed' = before \union {created'}
         \/ Joins(d, created') /\ completed' = before
  BY <1>3, SendMessageSends
<1>5. TypeOK'
  BY <1>1, <1>2, <1>4 DEF IInv, TypeOK
<1>6. created' \in Nat /\ 1 <= created' /\ created' <= MaxSent /\ MaxSent \in Nat
  BY ClientPollingAssumption DEF Sent
<1>7. DialogIsNewest'
  <2>1. created' # NoMessage
    BY MessagesApart
  <2> QED
    BY <1>6, <2>1 DEF DialogIsNewest
<1>8. Placed'
  <2>1. Placed
    BY DEF IInv, Placed
  <2>2. CASE Stay /\ completed' = before \union {created'}
    <3> DEFINE M == {created'}
    <3>1. /\ M \subseteq 1..created'
          /\ completed' \subseteq completed \union M
          /\ \A e \in Devices : Elements(Held(e)) \intersect M = {}
      BY <1>6, <2>2
    <3> HIDE DEF M
    <3> QED
      BY <1>6, <2>1, <2>2, <3>1, StayKeepsPlaced
  <2>3. CASE Joins(d, created') /\ completed' = before
    <3>1. \A e \in Devices : Held(e) \in Seq(Sent)
      BY HeldIsSequence DEF IInv
    <3> DEFINE m == created'
    <3>2. /\ m \in Sent /\ m = created' /\ Joins(d, m)
          /\ \A e \in Devices : m \notin Elements(Held(e))
          /\ completed' \subseteq completed \ {m}
      BY <2>3
    <3> HIDE DEF m
    <3> QED
      BY <1>6, <2>1, <3>1, <3>2, JoinsKeepsPlaced
  <2> QED
    BY <1>4, <2>2, <2>3
<1>9. WritesCounted'
  BY <1>2 DEF IInv, WritesCounted
<1> QED
  BY <1>1, <1>5, <1>7, <1>8, <1>9 DEF IInv, Placed

\* A button of the dialog sends a message it has just created.
LEMMA SendOneKeepsIInv ==
  ASSUME IInv, NEW d \in Devices, NEW periodically \in BOOLEAN, SendOne(d, periodically)
  PROVE  IInv'
<1>1. created \in 0..MaxSent /\ MaxSent \in Nat /\ created < MaxSent /\ created' = created + 1
  BY ClientPollingAssumption DEF IInv, DialogIsNewest, SendOne
<1>2. created \in Nat /\ created' \in Sent /\ created <= created' /\ created' \notin 1..created
  BY <1>1 DEF Sent
<1>3. /\ completed \subseteq completed \ {created'}
      /\ \A e \in Devices : created' \notin Elements(Held(e))
  BY <1>2 DEF IInv, HeldWereCreated
<1>4. /\ SendMessage(d, created', completed)
      /\ dialog' = created' /\ target' = d /\ timer' = periodically
      /\ UNCHANGED <<channel, toWrite, private, due, runtime, written, stops>>
  BY DEF SendOne
<1> QED
  BY <1>2, <1>3, <1>4, SendKeepsIInv

\* The timer sends the newest message again, once it is completed.
LEMMA TimerEventKeepsIInv ==
  ASSUME IInv, TimerEvent
  PROVE  IInv'
<1>1. /\ timer /\ dialog \in completed
      /\ SendMessage(target, dialog, completed \ {dialog})
      /\ UNCHANGED <<channel, toWrite, private, due, runtime, dialog, target, timer,
                     created, written, stops>>
  BY DEF TimerEvent
<1>2. dialog = created /\ created' = created
  BY <1>1 DEF IInv, DialogIsNewest
<1>3. created' \in Sent /\ created \in Nat /\ created <= created'
  BY <1>1, <1>2, ClientPollingAssumption DEF IInv, TypeOK, DialogIsNewest
<1>4. \A e \in Devices : created' \notin Elements(Held(e))
  BY <1>1, <1>2 DEF IInv, MessageInOnePlace
<1>5. target \in Devices /\ target' \in Devices /\ timer' \in BOOLEAN
  BY <1>1 DEF IInv, TypeOK
<1>6. SendMessage(target, created', completed \ {created'}) /\ dialog' = created'
  BY <1>1, <1>2
<1> QED
  BY <1>1, <1>3, <1>4, <1>5, <1>6, SendKeepsIInv

\* The restart of the runtime empties every queue.
LEMMA ClearComponentsKeepsIInv ==
  ASSUME IInv, ClearComponents
  PROVE  IInv'
<1>1. /\ Channel!Abort
      /\ runtime' = "stopped" /\ turn' = 1
      /\ state' = [d \in Devices |-> "PAUSE"]
      /\ message' = [d \in Devices |-> NoMessage]
      /\ external' = [d \in Devices |-> <<>>]
      /\ toWrite' = [d \in Devices |-> 0]
      /\ writes' = [d \in Devices |-> 0]
      /\ reads' = ReadsOf
      /\ due' = Reads
      /\ UNCHANGED <<dialog, target, timer, completed, created, written, stops>>
  BY DEF ClearComponents, Rebuilt
<1>2. Channel!TypeOK' /\ OwnerIsExecuting'
  <2>1. owner' = NoDevice /\ onLine' = FALSE /\ tries' = 0 /\ outcome' = outcome
    BY <1>1 DEF Channel!Abort
  <2>2. outcome \in [client : Devices \union {NoDevice}, good : BOOLEAN]
    BY DEF IInv, TypeOK, Channel!TypeOK
  <2>3. 0 \in 0..MaxTries
    BY ClientPollingAssumption
  <2>4. Channel!TypeOK'
    BY <2>1, <2>2, <2>3 DEF Channel!TypeOK
  <2> QED
    BY <2>1, <2>4 DEF OwnerIsExecuting
<1>3. MessageFitsState'
  BY <1>1, MessagesApart DEF MessageFitsState
<1>4. 0 \in 0..MaxWrites /\ 1 \in Devices /\ MaxWrites \in Nat
  BY ClientPollingAssumption DEF Devices
<1>5. TypeOK'
  <2>1. external' \in [Devices -> Seq(Sent)]
    BY <1>1
  <2>2. /\ reads' \in [Devices -> Seq(Reads)]
        /\ \A d \in Devices : /\ Len(reads'[d]) = Len(ReadsOf[d])
                              /\ Elements(reads'[d]) = Elements(ReadsOf[d])
    BY <1>1, ClientPollingAssumption
  <2> QED
    BY <1>1, <1>2, <1>4, <2>1, <2>2 DEF IInv, TypeOK
<1>6. Placed'
  <2>1. \A d \in Devices : Held(d)' = <<>>
    <3>1. \A d \in Devices : Held(d)' = <<>> \o <<>>
      BY <1>1 DEF Held
    <3> QED
      BY <3>1
  <2> QED
    BY <1>1, <2>1, ClearedKeepsPlaced DEF IInv, Placed
<1>7. DialogIsNewest'
  BY <1>1 DEF IInv, DialogIsNewest
<1>8. WritesCounted'
  BY <1>1, ClientPollingAssumption DEF IInv, WritesCounted
<1> QED
  BY <1>2, <1>3, <1>5, <1>6, <1>7, <1>8 DEF IInv, Placed

-----------------------------------------------------------------------------
(* The theorems                                                            *)

\* The program starts with empty queues.
LEMMA InitIInv == Init => IInv
<1> SUFFICES ASSUME Init PROVE IInv
  OBVIOUS
<1>1. Channel!TypeOK
  <2>1. /\ owner = NoDevice /\ onLine = FALSE /\ tries = 0
        /\ outcome = [client |-> NoDevice, good |-> FALSE]
    BY DEF Init, Channel!Init
  <2>2. outcome \in [client : Devices \union {NoDevice}, good : BOOLEAN]
    BY <2>1
  <2>3. 0 \in 0..MaxTries
    BY ClientPollingAssumption
  <2> QED
    BY <2>1, <2>2, <2>3 DEF Channel!TypeOK
<1>2. OwnerIsExecuting
  BY DEF Init, Channel!Init, OwnerIsExecuting
<1>3. MessageFitsState
  BY MessagesApart DEF Init, MessageFitsState
<1>4. 0 \in 0..MaxWrites /\ 0 \in 0..MaxSent /\ 1 \in Devices /\ MaxWrites \in Nat
  BY ClientPollingAssumption DEF Devices
<1>5. TypeOK
  <2>1. external \in [Devices -> Seq(Sent)]
    BY DEF Init
  <2>2. /\ reads \in [Devices -> Seq(Reads)]
        /\ \A d \in Devices : /\ Len(reads[d]) = Len(ReadsOf[d])
                              /\ Elements(reads[d]) = Elements(ReadsOf[d])
    BY ClientPollingAssumption DEF Init
  <2> QED
    BY <1>1, <1>4, <2>1, <2>2 DEF Init, TypeOK
<1>6. \A d \in Devices : Held(d) = <<>>
  <2>1. \A d \in Devices : Held(d) = <<>> \o <<>>
    BY DEF Init, Held
  <2> QED
    BY <2>1
<1>7. \A d \in Devices : Elements(Held(d)) = {} /\ 1..Len(Held(d)) = {}
  BY <1>6 DEF Elements
<1>8. MessageInOnePlace /\ SentInOrder /\ HeldWereCreated
  BY <1>7 DEF Init, MessageInOnePlace, SentInOrder, HeldWereCreated
<1>9. DialogIsNewest /\ WritesCounted
  BY <1>4 DEF Init, DialogIsNewest, WritesCounted
<1> QED
  BY <1>1, <1>2, <1>3, <1>5, <1>8, <1>9 DEF IInv

\* Every action of the model keeps the inductive invariant.
LEMMA StepKeepsIInv == IInv /\ [Next]_vars => IInv'
<1> SUFFICES ASSUME IInv, [Next]_vars PROVE IInv'
  OBVIOUS
<1>1. ASSUME NEW d \in Devices, Run(d) PROVE IInv'
  BY <1>1, RunKeepsIInv
<1>2. ASSUME NEW d \in Devices, NEW p \in BOOLEAN, SendOne(d, p) PROVE IInv'
  BY <1>2, SendOneKeepsIInv
<1>3. ASSUME NEW d \in Devices, WriteItemData(d) PROVE IInv'
  BY <1>3, WriteItemDataKeepsIInv
<1>4. ASSUME NEW m \in Reads, PeriodElapses(m) PROVE IInv'
  BY <1>4, PeriodElapsesKeepsIInv
<1>5. CASE TimerEvent
  BY <1>5, TimerEventKeepsIInv
<1>6. CASE StopSending \/ BeginStop \/ Start
  BY <1>6, SwitchesKeepIInv
<1>7. CASE ClearComponents
  BY <1>7, ClearComponentsKeepsIInv
<1>8. CASE UNCHANGED vars
  <2>1. /\ UNCHANGED <<channel, external, private, dialog, target, completed, created>>
        /\ UNCHANGED <<toWrite, writes, due, runtime, timer, written>>
    BY <1>8 DEF vars, queues, private
  <2>2. WritesCounted'
    BY <2>1 DEF IInv, WritesCounted
  <2> QED
    BY <2>1, <2>2, QuietKeepsIInv DEF IInv, TypeOK
<1> QED
  BY <1>1, <1>2, <1>3, <1>4, <1>5, <1>6, <1>7, <1>8 DEF Next

\* The inductive invariant holds in every state of every behaviour.
THEOREM Invariance == Spec => []IInv
BY InitIInv, StepKeepsIInv, PTL DEF Spec

\* Every variable of the port thread, the dialog and the runtime keeps its
\* type, and no device ever loses a read message or queues one twice.
THEOREM TypeCorrect == Spec => []TypeOK
<1>1. IInv => TypeOK
  BY DEF IInv
<1> QED
  BY <1>1, Invariance, PTL

\* The message of the dialog, which the GUI thread and the port thread share,
\* is at one place at one device at most, and is not completed while it is
\* there: the timer cannot send what is still on its way.
THEOREM MessageAtOnePlace == Spec => []MessageInOnePlace
<1>1. IInv => MessageInOnePlace
  BY DEF IInv
<1> QED
  BY <1>1, Invariance, PTL

\* A device executes the messages of the dialog in the order they were made,
\* with any number of devices, restarts and sends of the timer.
THEOREM InOrder == Spec => []SentInOrder
<1>1. IInv => SentInOrder
  BY DEF IInv
<1> QED
  BY <1>1, Invariance, PTL

\* Both at once: no message of the dialog is doubled, lost from its place or
\* overtaken on its device.
THEOREM OnceInOrder == Spec => []SentOnceInOrder
<1>1. IInv => SentOnceInOrder
  BY DEF IInv, SentOnceInOrder
<1> QED
  BY <1>1, Invariance, PTL

\* Whoever has the port executes a message, so its run() will go on until the
\* call returns and the port is free again.
THEOREM PortOwnerExecutes == Spec => []OwnerIsExecuting
<1>1. IInv => OwnerIsExecuting
  BY DEF IInv
<1> QED
  BY <1>1, Invariance, PTL

-----------------------------------------------------------------------------
(* Turns                                                                   *)

\* Behind x, a device is one turn nearer to be called.
LEMMA GapShrinks ==
  ASSUME NEW x \in Devices, NEW e \in Devices, x # e
  PROVE  /\ Gap(x, e) \in Nat /\ Gap((x % N) + 1, e) \in Nat
         /\ Gap((x % N) + 1, e) < Gap(x, e)
<1>1. N \in Nat \ {0} /\ x \in 1..N /\ e \in 1..N
  BY ClientPollingAssumption DEF Devices
<1>2. CASE x < N
  <2>1. (x % N) + 1 = x + 1
    BY <1>1, <1>2
  <2> QED
    BY <1>1, <1>2, <2>1 DEF Gap
<1>3. CASE x = N
  <2>1. (x % N) + 1 = 1
    BY <1>1, <1>3
  <2> QED
    BY <1>1, <1>3, <2>1 DEF Gap
<1> QED
  BY <1>1, <1>2, <1>3

LEMMA GapIsNat ==
  ASSUME NEW x \in Devices, NEW e \in Devices
  PROVE  Gap(x, e) \in Nat /\ Gap(e, e) = 0
BY ClientPollingAssumption DEF Gap, Devices

\* What a run() does to the port: only a free port is taken, and only by the
\* device that runs; a waiting device that finds it free takes it or is done.
LEMMA RunMovesPort ==
  ASSUME IInv, NEW f \in Devices, Run(f)
  PROVE  /\ turn = f /\ turn' = (f % N) + 1
         /\ \/ owner \in {NoDevice, f} /\ owner' \in {NoDevice, f}
            \/ owner' = owner
         /\ Waiting(f) /\ owner = NoDevice => ~Waiting(f)'
         /\ \A e \in Devices : e # f => state'[e] = state[e]
<1>1. turn = f /\ turn' = (f % N) + 1 /\ Works(f)
  BY DEF Run
<1>2. DOMAIN state = Devices
  BY DEF IInv, TypeOK
<1>3. ASSUME NEW s, NEW m, Execute(f, s, m)
      PROVE  /\ \/ owner \in {NoDevice, f} /\ owner' \in {NoDevice, f}
                \/ owner' = owner
             /\ owner = NoDevice => owner' = f \/ state'[f] = "PAUSE"
             /\ \A e \in Devices : e # f => state'[e] = state[e]
  <2>1. CASE Waits(f) /\ state' = [state EXCEPT ![f] = s]
    BY <1>2, <2>1 DEF Waits, channel, Channel!Hold, Channel!Send
  <2>2. CASE Completes(f, m) /\ state' = [state EXCEPT ![f] = "PAUSE"]
    BY <1>2, <2>2 DEF Completes, Channel!Return
  <2> QED
    BY <1>3, <2>1, <2>2 DEF Execute
<1>4. CASE Idle(f)
  <2>1. state[f] = "PAUSE" /\ owner' = owner /\ state' = state
    BY <1>4 DEF Idle, channel
  <2> QED
    BY <1>1, <2>1 DEF Waiting
<1>5. CASE ~Idle(f)
  <2>1. \E s, m : Execute(f, s, m)
    BY <1>1, <1>5 DEF Works, GoOn, StartExternal, StartWrite, StartRead
  <2>2. /\ \/ owner \in {NoDevice, f} /\ owner' \in {NoDevice, f}
           \/ owner' = owner
        /\ owner = NoDevice => owner' = f \/ state'[f] = "PAUSE"
        /\ \A e \in Devices : e # f => state'[e] = state[e]
    BY <1>3, <2>1
  <2> QED
    BY <1>1, <2>2 DEF Waiting
<1> QED
  BY <1>4, <1>5

\* What a run() does to the queues of read messages: the one it takes, which
\* was due, goes to the back, and was the first that was due.
TakesRead(f, i) ==
    /\ i \in 1..Len(reads[f])
    /\ reads' = [reads EXCEPT ![f] = Rotated(reads[f], i)]
    /\ reads[f][i] \in due
    /\ \A j \in 1..(i - 1) : reads[f][j] \notin due
    /\ \A k \in Reads : Taken(f, k) <=> k = reads[f][i]

LEMMA RunMovesReads ==
  ASSUME IInv, NEW f \in Devices, Run(f)
  PROVE  \/ reads' = reads /\ \A k \in Reads : ~Taken(f, k)
         \/ \E i \in 1..Len(reads[f]) : TakesRead(f, i)
<1>0. /\ DOMAIN message = Devices /\ reads \in [Devices -> Seq(Reads)]
      /\ due \subseteq Reads /\ external[f] \in Seq(Sent)
      /\ state[f] = "PAUSE" <=> message[f] = NoMessage
      /\ Works(f)
  BY DEF IInv, TypeOK, MessageFitsState, Run
<1>1. ASSUME NEW s, NEW m, Execute(f, s, m)
      PROVE  /\ message'[f] \in {m, NoMessage}
             /\ due \ due' \subseteq {m}
             /\ m \in due => message'[f] = m \/ m \in due \ due'
  BY <1>0, <1>1 DEF Execute, Completes
<1>2. CASE GoOn(f)
  BY <1>2 DEF GoOn, Taken
<1>3. CASE Idle(f)
  <2>1. state[f] = "PAUSE" /\ message' = message /\ due' = due /\ reads' = reads
    BY <1>3 DEF Idle
  <2> QED
    BY <1>0, <2>1, MessagesApart DEF Taken
<1>4. CASE StartExternal(f)
  <2>1. Head(external[f]) \in Sent
    BY <1>0, <1>4 DEF StartExternal
  <2>2. Execute(f, "EXEC_EXTERNAL", Head(external[f])) /\ reads' = reads
    BY <1>4 DEF StartExternal
  <2>3. message'[f] \in {Head(external[f]), NoMessage} /\ due \ due' \subseteq {Head(external[f])}
    BY <1>1, <2>2
  <2> QED
    BY <2>1, <2>2, <2>3, MessagesApart DEF Taken
<1>5. CASE StartWrite(f)
  <2>1. Execute(f, "EXEC_WRITE", WriteMessage) /\ reads' = reads
    BY <1>5 DEF StartWrite
  <2>2. message'[f] \in {WriteMessage, NoMessage} /\ due \ due' \subseteq {WriteMessage}
    BY <1>1, <2>1
  <2>3. WriteMessage \notin Reads
    BY ClientPollingAssumption
  <2> QED
    BY <2>1, <2>2, <2>3, MessagesApart DEF Taken
<1>6. CASE StartRead(f)
  <2>1. PICK i \in 1..Len(reads[f]) :
          /\ OnDuty(f, i)
          /\ reads' = [reads EXCEPT ![f] = Rotated(reads[f], i)]
          /\ Execute(f, "EXEC_READ", reads[f][i])
    BY <1>6 DEF StartRead
  <2> DEFINE x == reads[f][i]
  <2>2. x \in due /\ (\A j \in 1..(i - 1) : reads[f][j] \notin due) /\ state[f] = "PAUSE"
    BY <1>6, <2>1 DEF OnDuty, StartRead
  <2>3. /\ message'[f] \in {x, NoMessage}
        /\ due \ due' \subseteq {x}
        /\ x \in due => message'[f] = x \/ x \in due \ due'
    BY <1>1, <2>1
  <2> HIDE DEF x
  <2>4. \A k \in Reads : Taken(f, k) <=> k = x
    BY <1>0, <2>2, <2>3, MessagesApart DEF Taken
  <2>5. TakesRead(f, i)
    BY <2>1, <2>2, <2>4 DEF TakesRead, x
  <2> QED
    BY <2>5
<1> QED
  BY <1>0, <1>2, <1>3, <1>4, <1>5, <1>6 DEF Works

\* A run() in which nobody takes the port past a waiting device twice.
LEMMA CountingKeepsPassed ==
  ASSUME IInv, TurnsInv, NEW f \in Devices, CountingRun(f)
  PROVE  passed' \in [Devices -> [Devices -> 0..1]] /\ PassedOnce'
<1>0. /\ turn = f /\ turn' = (f % N) + 1
      /\ \/ owner \in {NoDevice, f} /\ owner' \in {NoDevice, f}
         \/ owner' = owner
      /\ Waiting(f) /\ owner = NoDevice => ~Waiting(f)'
      /\ \A e \in Devices : e # f => state'[e] = state[e]
      /\ owner \in Devices \union {NoDevice} /\ NoDevice \notin Devices
      /\ (f % N) + 1 \in Devices
  BY RunMovesPort, MessagesApart, NextTurn DEF CountingRun, IInv, TypeOK, Channel!TypeOK
<1>1. ASSUME NEW e \in Devices, NEW d \in Devices
      PROVE  passed'[e][d] = IF ~Waiting(e) THEN 0
                             ELSE IF d = f /\ Given(f) THEN UpToTwo(passed[e][d]) ELSE passed[e][d]
  BY <1>1 DEF CountingRun
<1>2. ASSUME NEW e \in Devices, NEW d \in Devices
      PROVE  /\ passed'[e][d] \in 0..1
             /\ passed'[e][d] = 1 /\ Waiting(e)' =>
                  IF owner' = NoDevice THEN Gap(turn', e) < Gap(d, e)
                  ELSE owner' = d \/ Gap(owner', e) < Gap(d, e)
  <2>1. /\ passed[e][d] \in 0..1
        /\ passed[e][d] = 1 /\ Waiting(e) =>
              IF owner = NoDevice THEN Gap(f, e) < Gap(d, e)
              ELSE owner = d \/ Gap(owner, e) < Gap(d, e)
    BY <1>0 DEF TurnsInv, PassedOnce
  <2>2. Gap(f, e) \in Nat /\ Gap(d, e) \in Nat /\ Gap(e, e) = 0 /\ Gap((f % N) + 1, e) \in Nat
    BY <1>0, GapIsNat
  <2>3. CASE ~Waiting(e)
    <3>1. passed'[e][d] = 0
      BY <1>1, <2>3
    <3> QED
      BY <3>1
  <2>4. CASE Waiting(e) /\ d = f /\ Given(f)
    <3>1. owner = NoDevice /\ owner' = f
      BY <2>4 DEF Given
    <3>2. passed[e][d] = 0
      BY <2>1, <2>2, <2>4, <3>1
    <3>3. passed'[e][d] = 1
      BY <1>1, <2>4, <3>2 DEF UpToTwo
    <3> QED
      BY <1>0, <2>4, <3>1, <3>3
  <2>5. CASE Waiting(e) /\ ~(d = f /\ Given(f))
    <3>1. passed'[e][d] = passed[e][d]
      BY <1>1, <2>5
    <3>2. SUFFICES ASSUME passed[e][d] = 1, Waiting(e)'
                   PROVE  IF owner' = NoDevice THEN Gap(turn', e) < Gap(d, e)
                          ELSE owner' = d \/ Gap(owner', e) < Gap(d, e)
      BY <2>1, <3>1
    <3>3. CASE e = f
      <4>1. owner # NoDevice /\ owner # f
        BY <1>0, <2>5, <3>2, <3>3 DEF Waiting
      <4>2. owner' = owner
        BY <1>0, <4>1
      <4> QED
        BY <2>1, <2>5, <3>2, <4>1, <4>2
    <3>4. CASE e # f
      <4>1. Gap((f % N) + 1, e) < Gap(f, e)
        BY <3>4, GapShrinks
      <4>2. CASE owner' = NoDevice
        <5>1. owner \in {NoDevice, f}
          BY <1>0, <4>2
        <5>2. Gap(f, e) <= Gap(d, e)
          BY <1>0, <2>1, <2>2, <2>5, <3>2, <5>1
        <5>3. Gap(turn', e) < Gap(d, e)
          BY <1>0, <2>2, <4>1, <5>2
        <5> QED
          BY <4>2, <5>3
      <4>3. CASE owner' # NoDevice /\ owner = NoDevice
        <5>1. owner' = f
          BY <1>0, <4>3
        <5> QED
          BY <2>1, <2>5, <3>2, <4>3, <5>1
      <4>4. CASE owner' # NoDevice /\ owner # NoDevice
        <5>1. owner' = owner
          BY <1>0, <4>4
        <5> QED
          BY <2>1, <2>5, <3>2, <4>4, <5>1
      <4> QED
        BY <4>2, <4>3, <4>4
    <3> QED
      BY <3>3, <3>4
  <2> QED
    BY <2>3, <2>4, <2>5
<1>3. passed' \in [Devices -> [Devices -> 0..1]]
  <2> DEFINE P(e, d) == IF ~Waiting(e) THEN 0
                        ELSE IF d = f /\ Given(f) THEN UpToTwo(passed[e][d]) ELSE passed[e][d]
  <2>1. passed' = [e \in Devices |-> [d \in Devices |-> P(e, d)]]
    BY DEF CountingRun
  <2>2. \A e, d \in Devices : P(e, d) \in 0..1
    BY <1>1, <1>2
  <2> HIDE DEF P
  <2> QED
    BY <2>1, <2>2
<1>4. PassedOnce'
  BY <1>2 DEF PassedOnce
<1> QED
  BY <1>3, <1>4

\* A queue in which the message at i goes to the back.
LEMMA RotationKeepsOrder ==
  ASSUME NEW S, NEW s \in Seq(S), NEW i \in 1..Len(s),
         \A a, b \in 1..Len(s) : s[a] = s[b] => a = b
  PROVE  /\ \A a, b \in 1..Len(s) : Rotated(s, i)[a] = Rotated(s, i)[b] => a = b
         /\ \A m : m # s[i] =>
               \A a, b \in 1..Len(s) : Rotated(s, i)[a] = m /\ Rotated(s, i)[b] = s[i] => a < b
         /\ \A m, k : /\ m # s[i] /\ k # s[i]
                      /\ \A a, b \in 1..Len(s) : s[a] = m /\ s[b] = k => a < b
                      => \A a, b \in 1..Len(s) :
                            Rotated(s, i)[a] = m /\ Rotated(s, i)[b] = k => a < b
<1> DEFINE r == Rotated(s, i)
           from(a) == IF a < i THEN a ELSE IF a < Len(s) THEN a + 1 ELSE i
<1>1. Len(s) \in Nat /\ i \in 1..Len(s)
  BY LenProperties
<1>2. \A a \in 1..Len(s) : r[a] = s[from(a)]
  BY RotatedKeepsElements
<1>3. \A a \in 1..Len(s) : from(a) \in 1..Len(s) /\ (from(a) = i <=> a = Len(s))
  BY <1>1
<1>4. \A a, b \in 1..Len(s) : from(a) = from(b) => a = b
  BY <1>1
<1>5. \A a, b \in 1..Len(s) : from(a) # i /\ from(b) # i /\ from(a) < from(b) => a < b
  BY <1>1
<1> HIDE DEF r, from
<1>6. \A a, b \in 1..Len(s) : r[a] = r[b] => a = b
  BY <1>2, <1>3, <1>4
<1>7. ASSUME NEW m, m # s[i], NEW a \in 1..Len(s), NEW b \in 1..Len(s), r[a] = m, r[b] = s[i]
      PROVE  a < b
  <2>1. from(b) = i /\ from(a) # i
    BY <1>1, <1>2, <1>3, <1>7
  <2> QED
    BY <1>1, <1>3, <2>1
<1>8. ASSUME NEW m, NEW k, m # s[i], k # s[i],
             \A a, b \in 1..Len(s) : s[a] = m /\ s[b] = k => a < b,
             NEW a \in 1..Len(s), NEW b \in 1..Len(s), r[a] = m, r[b] = k
      PROVE  a < b
  <2>1. from(a) < from(b) /\ from(a) # i /\ from(b) # i
    BY <1>2, <1>3, <1>8
  <2> QED
    BY <1>5, <2>1
<1> QED
  BY <1>6, <1>7, <1>8 DEF r

\* The messages in the queue of a device are its own.
LEMMA QueuesApart ==
  ASSUME IInv, NEW d \in Devices, NEW e \in Devices,
         NEW i \in 1..Len(reads[d]), NEW j \in 1..Len(reads[e]), reads[d][i] = reads[e][j]
  PROVE  d = e
<1>1. /\ Elements(reads[d]) = Elements(ReadsOf[d])
      /\ Elements(reads[e]) = Elements(ReadsOf[e])
  BY DEF IInv, TypeOK
<1>2. reads[d][i] \in Elements(ReadsOf[d]) /\ reads[d][i] \in Elements(ReadsOf[e])
  BY <1>1 DEF Elements
<1> QED
  BY <1>2, ReadsOfOneDevice DEF Elements

LEMMA QueuedTogether ==
  ASSUME IInv, NEW m \in Reads, NEW k \in Reads, NEW d \in Devices,
         NEW i \in 1..Len(reads[d]), reads[d][i] = k, ReadsTogether(m, k)
  PROVE  \E j \in 1..Len(reads[d]) : reads[d][j] = m
<1>1. PICK e \in Devices : {m, k} \subseteq Elements(ReadsOf[e])
  BY DEF ReadsTogether
<1>2. \A x \in Devices : Elements(reads[x]) = Elements(ReadsOf[x])
  BY DEF IInv, TypeOK
<1>3. k \in Elements(reads[e]) /\ m \in Elements(reads[e])
  BY <1>1, <1>2
<1>4. PICK j \in 1..Len(reads[e]) : reads[e][j] = k
  BY <1>3 DEF Elements
<1>5. d = e
  BY <1>4, QueuesApart
<1> QED
  BY <1>3, <1>5 DEF Elements

LEMMA TogetherWhenQueued ==
  ASSUME IInv, NEW d \in Devices, NEW i \in 1..Len(reads[d]), NEW j \in 1..Len(reads[d])
  PROVE  ReadsTogether(reads[d][i], reads[d][j])
<1>1. Elements(reads[d]) = Elements(ReadsOf[d])
  BY DEF IInv, TypeOK
<1>2. {reads[d][i], reads[d][j]} \subseteq Elements(ReadsOf[d])
  BY <1>1 DEF Elements
<1> QED
  BY <1>2 DEF ReadsTogether

\* A run() in which no read message is taken past one that is due twice.
LEMMA CountingKeepsOvertaken ==
  ASSUME IInv, TurnsInv, NEW f \in Devices, CountingRun(f)
  PROVE  overtaken' \in [Reads -> [Reads -> 0..1]] /\ OvertakenOnce' /\ QueuedOnce'
<1>0. /\ Run(f) /\ reads \in [Devices -> Seq(Reads)] /\ due \subseteq Reads
      /\ QueuedOnce /\ OvertakenOnce
  BY DEF CountingRun, IInv, TypeOK, TurnsInv
<1>1. ASSUME NEW m \in Reads, NEW k \in Reads
      PROVE  overtaken'[m][k] = IF m \notin due \/ Taken(f, m) THEN 0
                                ELSE IF Taken(f, k) /\ ReadsTogether(m, k)
                                     THEN UpToTwo(overtaken[m][k]) ELSE overtaken[m][k]
  BY <1>1 DEF CountingRun
<1>2. SUFFICES /\ QueuedOnce'
               /\ \A m, k \in Reads :
                     /\ overtaken'[m][k] \in 0..1
                     /\ overtaken'[m][k] = 1 =>
                           \A d \in Devices : \A i, j \in 1..Len(reads'[d]) :
                              reads'[d][i] = m /\ reads'[d][j] = k => i < j
  <2> DEFINE P(m, k) == IF m \notin due \/ Taken(f, m) THEN 0
                        ELSE IF Taken(f, k) /\ ReadsTogether(m, k)
                             THEN UpToTwo(overtaken[m][k]) ELSE overtaken[m][k]
  <2>1. overtaken' = [m \in Reads |-> [k \in Reads |-> P(m, k)]]
    BY DEF CountingRun
  <2>2. \A m, k \in Reads : P(m, k) \in 0..1
    BY <1>1, <1>2
  <2> HIDE DEF P
  <2>3. overtaken' \in [Reads -> [Reads -> 0..1]]
    BY <2>1, <2>2
  <2> QED
    BY <1>2, <2>3 DEF OvertakenOnce
<1>3. CASE reads' = reads /\ \A k \in Reads : ~Taken(f, k)
  <2>1. QueuedOnce'
    BY <1>0, <1>3 DEF QueuedOnce
  <2>2. \A m, k \in Reads : overtaken'[m][k] \in {0, overtaken[m][k]}
    BY <1>1, <1>3
  <2> QED
    BY <1>0, <1>3, <2>1, <2>2 DEF OvertakenOnce
<1>4. ASSUME NEW i \in 1..Len(reads[f]), TakesRead(f, i)
      PROVE  /\ QueuedOnce'
             /\ \A m, k \in Reads :
                   /\ overtaken'[m][k] \in 0..1
                   /\ overtaken'[m][k] = 1 =>
                         \A d \in Devices : \A a, b \in 1..Len(reads'[d]) :
                            reads'[d][a] = m /\ reads'[d][b] = k => a < b
  <2> DEFINE s == reads[f]
             x == s[i]
             r == Rotated(s, i)
  <2>1. /\ s \in Seq(Reads) /\ i \in 1..Len(s) /\ Len(s) \in Nat
        /\ \A a, b \in 1..Len(s) : s[a] = s[b] => a = b
    BY <1>0, LenProperties DEF QueuedOnce
  <2>2. /\ reads'[f] = r /\ Len(r) = Len(s)
        /\ \A d \in Devices \ {f} : reads'[d] = reads[d]
    BY <1>0, <1>4, <2>1, RotatedKeepsElements DEF TakesRead
  <2>3. /\ x \in due /\ (\A j \in 1..(i - 1) : s[j] \notin due)
        /\ \A k \in Reads : Taken(f, k) <=> k = x
    BY <1>4 DEF TakesRead
  <2>4. /\ \A a, b \in 1..Len(s) : r[a] = r[b] => a = b
        /\ \A m : m # x => \A a, b \in 1..Len(s) : r[a] = m /\ r[b] = x => a < b
        /\ \A m, k : /\ m # x /\ k # x
                     /\ \A a, b \in 1..Len(s) : s[a] = m /\ s[b] = k => a < b
                     => \A a, b \in 1..Len(s) : r[a] = m /\ r[b] = k => a < b
    BY <2>1, RotationKeepsOrder
  <2>5. \A d \in Devices \ {f} : \A a \in 1..Len(reads[d]) : reads[d][a] # x
    BY <2>1, QueuesApart
  <2>6. \A a, b \in 1..Len(s) : ReadsTogether(s[a], s[b])
    BY TogetherWhenQueued
  <2>7. \A m \in Reads : ReadsTogether(m, x) => \E j \in 1..Len(s) : s[j] = m
    BY <1>0, <2>3, QueuedTogether
  <2>8. \A a \in 1..Len(s) : \E c \in 1..Len(s) : r[a] = s[c]
    <3>1. \A a \in 1..Len(s) :
            r[a] = IF a < i THEN s[a] ELSE IF a < Len(s) THEN s[a + 1] ELSE s[i]
      BY <2>1, RotatedKeepsElements
    <3>2. \A a \in 1..Len(s) : ~(a < i) /\ a < Len(s) => a + 1 \in 1..Len(s)
      BY <2>1
    <3> QED
      BY <2>1, <3>1, <3>2
  <2> HIDE DEF s, x, r
  <2>9. QueuedOnce'
    <3>1. ASSUME NEW d \in Devices, NEW a \in 1..Len(reads'[d]), NEW b \in 1..Len(reads'[d]),
                 reads'[d][a] = reads'[d][b]
          PROVE  a = b
      <4>1. CASE d = f
        BY <2>2, <2>4, <3>1, <4>1
      <4>2. CASE d # f
        BY <1>0, <2>2, <3>1, <4>2 DEF QueuedOnce
      <4> QED
        BY <4>1, <4>2
    <3> QED
      BY <3>1 DEF QueuedOnce
  <2>10. ASSUME NEW m \in Reads, NEW k \in Reads
         PROVE  /\ overtaken'[m][k] \in 0..1
                /\ overtaken'[m][k] = 1 =>
                      \A d \in Devices : \A a, b \in 1..Len(reads'[d]) :
                         reads'[d][a] = m /\ reads'[d][b] = k => a < b
    <3>0. /\ overtaken[m][k] \in 0..1
          /\ overtaken[m][k] = 1 =>
               \A d \in Devices : \A a, b \in 1..Len(reads[d]) :
                  reads[d][a] = m /\ reads[d][b] = k => a < b
      BY <1>0 DEF OvertakenOnce
    <3>1. CASE m \notin due \/ m = x
      <4>1. overtaken'[m][k] = 0
        BY <1>1, <2>3, <3>1
      <4> QED
        BY <4>1
    <3>2. CASE m \in due /\ m # x /\ k = x /\ ReadsTogether(m, k)
      <4>1. PICK j \in 1..Len(s) : s[j] = m
        BY <2>7, <3>2
      <4>2. j \notin 1..(i - 1)
        BY <2>3, <3>2, <4>1
      <4>3. ~(j < i)
        BY <2>1, <4>1, <4>2
      <4>4. overtaken[m][k] = 0
        <5>1. overtaken[m][k] = 1 => j < i
          BY <2>1, <3>0, <3>2, <4>1 DEF s, x
        <5> QED
          BY <3>0, <4>3, <5>1
      <4>5. overtaken'[m][k] = 1
        BY <1>1, <2>3, <3>2, <4>4 DEF UpToTwo
      <4>6. ASSUME NEW d \in Devices, NEW a \in 1..Len(reads'[d]), NEW b \in 1..Len(reads'[d]),
                   reads'[d][a] = m, reads'[d][b] = k
            PROVE  a < b
        <5>1. d = f
          BY <2>2, <2>5, <3>2, <4>6
        <5> QED
          BY <2>2, <2>4, <3>2, <4>6, <5>1
      <4> QED
        BY <4>5, <4>6
    <3>3. CASE m \in due /\ m # x /\ ~(k = x /\ ReadsTogether(m, k))
      <4>1. overtaken'[m][k] = overtaken[m][k]
        BY <1>1, <2>3, <3>3
      <4>2. ASSUME overtaken[m][k] = 1,
                   NEW d \in Devices, NEW a \in 1..Len(reads'[d]), NEW b \in 1..Len(reads'[d]),
                   reads'[d][a] = m, reads'[d][b] = k
            PROVE  a < b
        <5>1. CASE d = f
          <6>1. a \in 1..Len(s) /\ b \in 1..Len(s) /\ r[a] = m /\ r[b] = k
            BY <2>2, <4>2, <5>1
          <6>2. ReadsTogether(m, k)
            BY <2>6, <2>8, <6>1
          <6>3. \A p, q \in 1..Len(s) : s[p] = m /\ s[q] = k => p < q
            BY <3>0, <4>2 DEF s
          <6>4. k # x
            BY <3>3, <6>2
          <6> QED
            BY <2>4, <3>3, <6>1, <6>3, <6>4
        <5>2. CASE d # f
          BY <2>2, <3>0, <4>2, <5>2
        <5> QED
          BY <5>1, <5>2
      <4> QED
        BY <3>0, <4>1, <4>2
    <3> QED
      BY <3>1, <3>2, <3>3
  <2> QED
    BY <2>9, <2>10
<1> QED
  BY <1>0, <1>3, <1>4, RunMovesReads

\* The steps of TurnsSpec are steps of Spec.
LEMMA TurnsSteps ==
  ASSUME TurnsNext
  PROVE  Next
BY DEF TurnsNext, CountingRun, Next

LEMMA TurnsKeepInvariant ==
  ASSUME IInv, TurnsInv, [TurnsNext]_<<vars, passed, overtaken>>
  PROVE  TurnsInv'
<1>1. ASSUME NEW f \in Devices, CountingRun(f)
      PROVE  TurnsInv'
  BY <1>1, CountingKeepsPassed, CountingKeepsOvertaken DEF TurnsInv
<1>2. ASSUME UNCHANGED <<channel, private, passed, overtaken>>
      PROVE  TurnsInv'
  <2>1. /\ owner' = owner /\ turn' = turn /\ state' = state /\ reads' = reads
        /\ passed' = passed /\ overtaken' = overtaken
    BY <1>2 DEF channel, private
  <2>2. PassedOnce'
    BY <2>1 DEF TurnsInv, PassedOnce, Waiting
  <2> QED
    BY <2>1, <2>2 DEF TurnsInv, OvertakenOnce, QueuedOnce
<1>3. ASSUME ClearComponents, passed' = NonePassed, overtaken' = NoneOvertaken
      PROVE  TurnsInv'
  <2>1. reads' = ReadsOf
    BY <1>3 DEF ClearComponents, Rebuilt
  <2>2. /\ passed' \in [Devices -> [Devices -> 0..1]] /\ \A e, d \in Devices : passed'[e][d] = 0
        /\ overtaken' \in [Reads -> [Reads -> 0..1]] /\ \A m, k \in Reads : overtaken'[m][k] = 0
    BY <1>3 DEF NonePassed, NoneOvertaken
  <2>3. QueuedOnce'
    BY <2>1, ReadsOfOneDevice DEF QueuedOnce
  <2> QED
    BY <2>2, <2>3 DEF TurnsInv, PassedOnce, OvertakenOnce
<1> QED
  BY <1>1, <1>2, <1>3 DEF TurnsNext, SendOne, WriteItemData, PeriodElapses, TimerEvent, StopSending,
     BeginStop, Start, vars

\* A device that waits for the port sees each other device given it at most
\* once before its turn, and a read message that is due each other one of its
\* device executed at most once: for any number of devices and messages,
\* whatever the channel, the dialog, the user and restarts do.
THEOREM EveryoneGetsATurn == TurnsSpec => []TurnsAreFair
<1>1. TurnsInit => Init /\ TurnsInv
  <2> SUFFICES ASSUME TurnsInit PROVE Init /\ TurnsInv
    OBVIOUS
  <2>1. Init /\ passed = NonePassed /\ overtaken = NoneOvertaken
    BY DEF TurnsInit
  <2>2. reads = ReadsOf
    BY <2>1 DEF Init
  <2>3. /\ passed \in [Devices -> [Devices -> 0..1]] /\ \A e, d \in Devices : passed[e][d] = 0
        /\ overtaken \in [Reads -> [Reads -> 0..1]] /\ \A m, k \in Reads : overtaken[m][k] = 0
    BY <2>1 DEF NonePassed, NoneOvertaken
  <2>4. QueuedOnce
    BY <2>2, ReadsOfOneDevice DEF QueuedOnce
  <2> QED
    BY <2>1, <2>3, <2>4 DEF TurnsInv, PassedOnce, OvertakenOnce
<1>2. IInv /\ TurnsInv /\ [TurnsNext]_<<vars, passed, overtaken>> => IInv' /\ TurnsInv'
  <2> SUFFICES ASSUME IInv, TurnsInv, [TurnsNext]_<<vars, passed, overtaken>>
               PROVE  IInv' /\ TurnsInv'
    OBVIOUS
  <2>1. [Next]_vars
    BY TurnsSteps
  <2> QED
    BY <2>1, StepKeepsIInv, TurnsKeepInvariant
<1>3. TurnsInv => TurnsAreFair
  BY DEF TurnsInv, PassedOnce, OvertakenOnce, TurnsAreFair, FairTurn, ReadsTakeTurns
<1> QED
  BY <1>1, <1>2, <1>3, InitIInv, PTL DEF TurnsSpec
=============================================================================
