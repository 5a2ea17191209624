----------------------- MODULE ClientMessages_proofs -----------------------
(***************************************************************************)
(* Proofs about the messages of a device.                                  *)
(*                                                                         *)
(* The messages are made of the items one by one (AddItems, a recursive    *)
(* function), so that what is true of all messages is proved by induction  *)
(* over the items added.  On this rest:                                    *)
(*                                                                         *)
(*  TypeCorrect          a message asks for a range that exists, no larger *)
(*                       than the device takes; every item to read stays   *)
(*                       in a message (TInv);                              *)
(*  ShownWasRead         a message covers its items (RInv), so that each   *)
(*                       takes its own part of the answer;                 *)
(*  EditsLandOrAreLost,  the edits of an item are sent and carried out in  *)
(*  NewerValuesStay,     their order (WInv): what a message has refused it *)
(*  AdjoiningEditsLand   never accepts later, so that a newer edit cannot  *)
(*                       overtake an older one in an earlier message.      *)
(*                                                                         *)
(* What the theorems assume of the items is at the end of ClientMessages:  *)
(* the program checks none of it, and each condition excludes a case in    *)
(* which the code does something else.                                     *)
(***************************************************************************)
EXTENDS ClientMessages, SequenceTheorems, FiniteSetTheorems, TLAPS

-----------------------------------------------------------------------------
(* Numbers                                                                 *)

\* Induction over the natural numbers, by a least counterexample.
LEMMA LeastNat ==
  ASSUME NEW T \in SUBSET Nat, T # {}
  PROVE  \E x \in T : \A y \in T : x <= y
<1> DEFINE R == {ss \in Nat \X Nat : ss[1] < ss[2]}
<1>1. R = OpToRel(<, Nat)
  BY Zenon DEF OpToRel
<1>2. IsWellFoundedOn(R, Nat)
  BY <1>1, NatLessThanWellFounded, Zenon
<1>3. PICK x \in T : \A y \in T : ~(<<y, x>> \in R)
  BY <1>2, WFMin
<1>4. ASSUME NEW y \in T
      PROVE  x <= y
  <2>1. <<y, x>> \in Nat \X Nat /\ <<y, x>>[1] = y /\ <<y, x>>[2] = x
    OBVIOUS
  <2>2. ~(y < x)
    BY <1>3, <2>1
  <2> QED
    BY <2>2
<1> QED
  BY <1>4

LEMMA Induction ==
  ASSUME NEW N \in Nat, NEW T \in SUBSET (0 .. N), 0 \in T,
         \A n \in 1 .. N : n - 1 \in T => n \in T
  PROVE  T = 0 .. N
<1> SUFFICES ASSUME (0 .. N) \ T # {} PROVE FALSE
  OBVIOUS
<1>1. PICK x \in (0 .. N) \ T : \A y \in (0 .. N) \ T : x <= y
  <2> DEFINE U == (0 .. N) \ T
  <2>1. U \in SUBSET Nat /\ U # {}
    OBVIOUS
  <2> QED
    BY <2>1, LeastNat
<1>2. x \in 1 .. N /\ x - 1 \in 0 .. N /\ ~(x <= x - 1)
  OBVIOUS
<1>3. x - 1 \in T
  BY <1>1, <1>2
<1> QED
  BY <1>1, <1>2, <1>3

LEMMA MinIsLeast ==
  ASSUME NEW T \in SUBSET Nat, T # {}
  PROVE  Min(T) \in T /\ \A y \in T : Min(T) <= y
BY LeastNat DEF Min

LEMMA MaxIsGreatest ==
  ASSUME NEW n \in Nat, NEW T \in SUBSET (1 .. n), T # {}
  PROVE  Max(T) \in T /\ \A y \in T : Max(T) >= y
<1> DEFINE U == {n - y : y \in T}
<1>1. U \in SUBSET Nat /\ U # {}
  <2>1. \A y \in T : n - y \in Nat
    OBVIOUS
  <2> QED
    BY <2>1
<1>2. PICK u \in U : \A y \in U : u <= y
  BY <1>1, LeastNat
<1>3. PICK x \in T : u = n - x
  OBVIOUS
<1>4. \A y \in T : n - y \in U /\ n - x <= n - y /\ y \in 1 .. n
  BY <1>2, <1>3
<1>5. x \in T /\ \A y \in T : x >= y
  BY <1>4
<1> QED
  BY <1>5 DEF Max

-----------------------------------------------------------------------------
(* Items one after the other                                               *)

\* AddItems adds the items one by one.
LEMMA OneByOne ==
  ASSUME NEW S, NEW q, NEW items \in Seq(S)
  PROVE  \E added :
            /\ added[0] = q
            /\ \A n \in 1 .. Len(items) : added[n] = AddItem(added[n - 1], items[n])
            /\ AddItems(q, items) = added[Len(items)]
<1> DEFINE N == Len(items)
           step(f) == [n \in 0 .. N |-> IF n = 0 THEN q ELSE AddItem(f[n - 1], items[n])]
           added[n \in 0 .. N] == IF n = 0 THEN q ELSE AddItem(added[n - 1], items[n])
<1>1. N \in Nat
  OBVIOUS
<1> HIDE DEF N
<1> DEFINE Upto(k, g) == g = [n \in 0 .. k |-> IF n = 0 THEN q ELSE AddItem(g[n - 1], items[n])]
           T == {k \in 0 .. N : \E g : Upto(k, g)}
<1>2. 0 \in T
  <2> DEFINE g == [n \in 0 .. 0 |-> q]
  <2>1. g = [n \in 0 .. 0 |-> IF n = 0 THEN q ELSE AddItem(g[n - 1], items[n])]
    OBVIOUS
  <2> HIDE DEF g
  <2>2. Upto(0, g)
    BY <2>1
  <2> QED
    BY <1>1, <2>2
<1>3. ASSUME NEW k \in 1 .. N, k - 1 \in T
      PROVE  k \in T
  <2>1. PICK g : Upto(k - 1, g)
    BY <1>3
  <2>2. k \in Nat /\ k > 0 /\ k \in 0 .. N
    BY <1>1
  <2> DEFINE h == [n \in 0 .. k |-> IF n < k THEN g[n] ELSE AddItem(g[k - 1], items[k])]
  <2>3. \A n \in 0 .. (k - 1) : g[n] = IF n = 0 THEN q ELSE AddItem(g[n - 1], items[n])
    BY <2>1
  <2>4. \A n \in 0 .. (k - 1) : h[n] = g[n]
    BY <2>2
  <2>5. ASSUME NEW n \in 0 .. k
        PROVE  h[n] = IF n = 0 THEN q ELSE AddItem(h[n - 1], items[n])
    <3>1. CASE n = k
      <4>1. h[n] = AddItem(g[k - 1], items[k])
        BY <2>2, <3>1
      <4>2. h[k - 1] = g[k - 1]
        BY <2>2, <2>4
      <4> QED
        BY <2>2, <3>1, <4>1, <4>2
    <3>2. CASE n = 0
      BY <2>2, <2>3, <2>4, <3>2
    <3>3. CASE n < k /\ n # 0
      <4>1. n \in 0 .. (k - 1) /\ n - 1 \in 0 .. (k - 1)
        BY <2>2, <3>3
      <4>2. h[n] = g[n] /\ h[n - 1] = g[n - 1]
        BY <2>4, <4>1
      <4> HIDE DEF h
      <4> QED
        BY <2>3, <3>3, <4>1, <4>2
    <3> QED
      BY <2>2, <3>1, <3>2, <3>3
  <2>6. h = [n \in 0 .. k |-> h[n]]
    OBVIOUS
  <2> HIDE DEF h
  <2>7. Upto(k, h)
    BY <2>5, <2>6
  <2> QED
    BY <2>2, <2>7
<1>4. T = 0 .. N
  <2>1. T \in SUBSET (0 .. N)
    OBVIOUS
  <2> HIDE DEF T
  <2> QED
    BY <1>1, <1>2, <1>3, <2>1, Induction
<1>5. \E g : Upto(N, g)
  <2>1. N \in T
    <3> HIDE DEF T
    <3> QED
      BY <1>1, <1>4
  <2> QED
    BY <2>1
<1>6. added = CHOOSE f : f = step(f)
  BY DEF added
<1>7. added = step(added)
  BY <1>5, <1>6
<1>8. AddItems(q, items) = added[N]
  BY DEF AddItems, N, added
<1> HIDE DEF added
<1>9. added[0] = q /\ \A n \in 1 .. N : added[n] = AddItem(added[n - 1], items[n])
  BY <1>1, <1>7
<1> QED
  BY <1>8, <1>9 DEF N

-----------------------------------------------------------------------------
(* One item and one message                                                *)

LEMMA ItemTypes ==
  ASSUME NEW x \in Items
  PROVE  /\ x.offset \in Nat /\ x.count \in Nat \ {0} /\ x.period \in Nat
         /\ x.data \in 0 .. MaxWrites
         /\ x = [offset |-> x.offset, count |-> x.count, period |-> x.period, data |-> x.data]
         /\ End(x) \in Nat /\ End(x) <= Size
         /\ \E v \in Views : v.offset = x.offset /\ v.count = x.count
<1>1. \A v \in Views : /\ v.offset \in Nat /\ v.count \in Nat \ {0} /\ v.period \in Nat
                       /\ v.offset + v.count <= Size
  BY ViewsAssumption
<1>2. MaxWrites \in Nat
  BY ViewsAssumption
<1>3. PICK v \in Views : x = ReadItem(v) \/ \E n \in 1 .. MaxWrites : x = WriteItem(v, n)
  BY DEF Items
<1>4. CASE x = ReadItem(v)
  BY <1>1, <1>2, <1>4 DEF ReadItem, End
<1>5. ASSUME NEW n \in 1 .. MaxWrites, x = WriteItem(v, n)
      PROVE  /\ x.offset = v.offset /\ x.count = v.count /\ x.period = 0 /\ x.data \in 0 .. MaxWrites
             /\ x = [offset |-> x.offset, count |-> x.count, period |-> x.period, data |-> x.data]
  BY <1>2, <1>5 DEF WriteItem
<1> QED
  BY <1>1, <1>3, <1>4, <1>5 DEF End

\* The end in 16 bits.
LEMMA NextOffsetIs ==
  ASSUME NEW x \in Items
  PROVE  NextOffset(x) = IF End(x) = Size THEN 0 ELSE End(x)
<1>1. \A a, b \in Nat : 0 < a /\ a < b => a % b = a
  OBVIOUS
<1>2. \A b \in Nat : 0 < b => b % b = 0
  OBVIOUS
<1>3. End(x) \in Nat /\ End(x) <= Size /\ 0 < End(x) /\ Size \in Nat
  BY ItemTypes, ViewsAssumption DEF End
<1>4. NextOffset(x) = End(x) % Size
  BY DEF NextOffset, End
<1> HIDE DEF End
<1> QED
  BY <1>1, <1>2, <1>3, <1>4

LEMMA MessageTypes ==
  ASSUME NEW m \in Messages
  PROVE  /\ m.offset \in Nat /\ m.count \in Nat \ {0} /\ m.period \in Nat
         /\ m.items \in Seq(Items) /\ m.items # << >>
         /\ Len(m.items) \in Nat /\ Len(m.items) > 0 /\ DOMAIN m.items = 1 .. Len(m.items)
         /\ \A i \in 1 .. Len(m.items) : m.items[i] \in Items
         /\ End(m) \in Nat
<1>1. /\ m.offset \in Nat /\ m.count \in Nat \ {0} /\ m.period \in Nat
      /\ m.items \in Seq(Items) /\ m.items # << >>
  BY DEF Messages
<1>2. Len(m.items) \in Nat /\ Len(m.items) > 0 /\ DOMAIN m.items = 1 .. Len(m.items)
  BY <1>1, EmptySeq, LenProperties
<1>3. \A i \in 1 .. Len(m.items) : m.items[i] \in Items
  BY <1>1, ElementOfSeq
<1> QED
  BY <1>1, <1>2, <1>3 DEF End

\* An item alone in a message.
LEMMA NewMessageFits ==
  ASSUME NEW x \in Items
  PROVE  /\ NewMessage(x) \in Messages /\ Possible(NewMessage(x))
         /\ NewMessage(x).items = << x >> /\ Len(<< x >>) = 1 /\ << x >>[1] = x
         /\ NewMessage(x).period = x.period
         /\ Covers(NewMessage(x))
<1> DEFINE m == NewMessage(x)
<1>1. /\ m = [offset |-> x.offset, count |-> x.count, period |-> x.period, items |-> << x >>]
      /\ m.offset = x.offset /\ m.count = x.count /\ m.period = x.period /\ m.items = << x >>
  BY DEF NewMessage
<1>2. << x >> \in Seq(Items) /\ Len(<< x >>) = 1 /\ << x >>[1] = x /\ << x >> # << >>
  OBVIOUS
<1>3. m \in Messages
  BY <1>1, <1>2, ItemTypes DEF Messages
<1>4. End(m) = End(x)
  BY <1>1 DEF End
<1> HIDE DEF m
<1>5. DOMAIN m.items = 1 .. 1
  BY <1>1
<1>6. Possible(m)
  BY <1>1, <1>2, <1>4, <1>5, ItemTypes DEF Possible
<1>7. Covers(m)
  BY <1>1, <1>2, <1>4, ItemTypes DEF Covers
<1> QED
  BY <1>1, <1>2, <1>3, <1>6, <1>7 DEF m

\* A message that takes an item it accepts.
LEMMA ExtendFits ==
  ASSUME NEW m \in Messages, Possible(m), NEW x \in Items, Accepts(m, x)
  PROVE  /\ Extend(m, x) \in Messages /\ Possible(Extend(m, x))
         /\ Extend(m, x).items = Append(m.items, x)
         /\ Extend(m, x).period = m.period
         /\ Extend(m, x).offset = IF ToEnd(m, x) THEN m.offset ELSE x.offset
         /\ Extend(m, x).offset <= m.offset /\ End(m) <= End(Extend(m, x))
         /\ ToEnd(m, x) => NextOffset(x) <= End(Extend(m, x))
         /\ End(Extend(m, x)) = End(m) \/ (ToEnd(m, x) /\ End(Extend(m, x)) = NextOffset(x))
         /\ ~ToEnd(m, x) => End(Extend(m, x)) = End(m)
<1> DEFINE k == Extend(m, x)
           next == NextOffset(x)
           count == IF ~ToEnd(m, x) THEN m.count + (m.offset - x.offset)
                    ELSE IF next >= m.offset + m.count THEN next - m.offset ELSE m.count
           offset == IF ToEnd(m, x) THEN m.offset ELSE x.offset
<1>1. m = [offset |-> m.offset, count |-> m.count, period |-> m.period, items |-> m.items]
  BY DEF Messages
<1>2. k = [offset |-> offset, count |-> count, period |-> m.period, items |-> Append(m.items, x)]
  <2> DEFINE s == Append(m.items, x)
  <2>1. k = [m EXCEPT !.offset = offset, !.count = count, !.items = s]
    BY DEF Extend
  <2> HIDE DEF k, offset, count, s
  <2>2. k = [offset |-> offset, count |-> count, period |-> m.period, items |-> s]
    BY <1>1, <2>1
  <2> QED
    BY <2>2 DEF s
<1> HIDE DEF k
<1>3. k.offset = offset /\ k.count = count /\ k.period = m.period /\ k.items = Append(m.items, x)
  BY <1>2
<1>4. /\ m.offset \in Nat /\ m.count \in Nat \ {0} /\ End(m) = m.offset + m.count
      /\ x.offset \in Nat /\ x.count \in Nat \ {0}
      /\ next \in Nat /\ next <= Size
      /\ End(m) <= Size /\ Size \in Nat /\ MaxCount \in Nat
  <2>1. Size \in Nat /\ MaxCount \in Nat
    BY ViewsAssumption
  <2>2. m.offset \in Nat /\ m.count \in Nat \ {0} /\ End(m) = m.offset + m.count
    BY MessageTypes DEF End
  <2>3. x.offset \in Nat /\ x.count \in Nat \ {0} /\ End(x) \in Nat /\ End(x) <= Size
    BY ItemTypes
  <2>4. next \in Nat /\ next <= Size
    BY <2>1, <2>3, NextOffsetIs
  <2> QED
    BY <2>1, <2>2, <2>3, <2>4 DEF Possible
<1>5. \/ ToEnd(m, x)
      \/ x.offset < m.offset /\ x.offset + MaxCount >= m.offset + m.count
  BY DEF Accepts, FromBegin
<1>6. ToEnd(m, x) => x.offset >= m.offset /\ next <= m.offset + MaxCount
  BY DEF ToEnd
<1> HIDE DEF next
<1>7. /\ offset \in Nat /\ count \in Nat \ {0}
      /\ offset <= m.offset
      /\ End(m) <= offset + count /\ offset + count <= Size
      /\ count <= MaxCount \/ count = m.count
      /\ ToEnd(m, x) => next <= offset + count
      /\ offset + count = End(m) \/ (ToEnd(m, x) /\ offset + count = next)
      /\ ~ToEnd(m, x) => offset + count = End(m)
  BY <1>4, <1>5, <1>6
<1> HIDE DEF offset, count
<1>8. /\ Append(m.items, x) \in Seq(Items) /\ Append(m.items, x) # << >>
      /\ Len(Append(m.items, x)) = Len(m.items) + 1
      /\ \A i \in 1 .. Len(m.items) : Append(m.items, x)[i] = m.items[i]
  BY MessageTypes, AppendProperties
<1>9. k \in Messages
  BY <1>2, <1>7, <1>8, MessageTypes DEF Messages
<1>10. End(k) = offset + count
  BY <1>3 DEF End
<1>11. Possible(k)
  <2>1. ASSUME count = m.count, ~(count <= MaxCount)
        PROVE  \E i \in DOMAIN k.items : k.items[i].count = k.count
    <3>1. PICK i \in DOMAIN m.items : m.items[i].count = m.count
      BY <2>1 DEF Possible
    <3>2. i \in 1 .. Len(m.items) /\ Len(m.items) \in Nat
      BY MessageTypes
    <3>3. DOMAIN Append(m.items, x) = 1 .. Len(Append(m.items, x))
      BY <1>8, LenProperties
    <3>4. i \in DOMAIN k.items /\ k.items[i] = m.items[i]
      BY <1>3, <1>8, <3>2, <3>3
    <3> QED
      BY <1>3, <2>1, <3>1, <3>4
  <2> QED
    BY <1>3, <1>7, <1>10, <2>1 DEF Possible
<1> QED
  BY <1>3, <1>7, <1>9, <1>10, <1>11 DEF k, offset, next

\* It covers all of its items, if the new one does not reach over another.
LEMMA ExtendCovers ==
  ASSUME NEW m \in Messages, Possible(m), NEW x \in Items, Accepts(m, x), Covers(m),
         End(x) < Size,
         \A i \in 1 .. Len(m.items) :
             x.offset < m.items[i].offset => End(x) <= End(m.items[i])
  PROVE  Covers(Extend(m, x))
<1> DEFINE k == Extend(m, x)
           s == Append(m.items, x)
<1>1. /\ k \in Messages /\ k.items = s /\ k.period = m.period
      /\ k.offset = IF ToEnd(m, x) THEN m.offset ELSE x.offset
      /\ k.offset <= m.offset /\ End(m) <= End(k)
      /\ ToEnd(m, x) => NextOffset(x) <= End(k)
      /\ ~ToEnd(m, x) => End(k) = End(m)
  BY ExtendFits
<1> HIDE DEF k
<1>2. /\ k.offset \in Nat /\ End(k) \in Nat /\ m.offset \in Nat /\ End(m) \in Nat
      /\ Len(m.items) \in Nat /\ Len(m.items) > 0
      /\ \A i \in 1 .. Len(m.items) : m.items[i] \in Items
  BY <1>1, MessageTypes
<1>3. /\ Len(s) = Len(m.items) + 1
      /\ \A i \in 1 .. Len(m.items) : s[i] = m.items[i]
      /\ s[Len(m.items) + 1] = x
  BY MessageTypes, AppendProperties
<1> HIDE DEF s
<1>4. /\ x.period = m.period
      /\ x.offset \in Nat /\ End(x) \in Nat
      /\ NextOffset(x) = End(x)
      /\ ToEnd(m, x) => x.offset >= m.offset
      /\ ~ToEnd(m, x) => x.offset < m.offset
  BY ItemTypes, NextOffsetIs, ViewsAssumption DEF Accepts, ToEnd, FromBegin
<1>5. ASSUME NEW i \in 1 .. Len(m.items)
      PROVE  /\ m.items[i].period = k.period
             /\ k.offset <= m.items[i].offset /\ End(m.items[i]) <= End(k)
  <2>1. m.items[i].offset \in Nat /\ End(m.items[i]) \in Nat
    BY <1>2, ItemTypes
  <2>2. m.items[i].period = m.period /\ m.offset <= m.items[i].offset /\ End(m.items[i]) <= End(m)
    BY DEF Covers
  <2> QED
    BY <1>1, <1>2, <2>1, <2>2
<1>6. x.period = k.period /\ k.offset <= x.offset /\ End(x) <= End(k)
  <2>1. CASE ToEnd(m, x)
    BY <1>1, <1>2, <1>4, <2>1
  <2>2. CASE ~ToEnd(m, x)
    <3>1. 1 \in 1 .. Len(m.items)
      BY <1>2
    <3>2. /\ m.items[1].offset \in Nat /\ End(m.items[1]) \in Nat
          /\ m.offset <= m.items[1].offset /\ End(m.items[1]) <= End(m)
      BY <1>2, <3>1, ItemTypes DEF Covers
    <3>3. End(x) <= End(m.items[1])
      BY <1>2, <1>4, <2>2, <3>1, <3>2
    <3> QED
      BY <1>1, <1>2, <1>4, <2>2, <3>2, <3>3
  <2> QED
    BY <2>1, <2>2
<1>7. ASSUME NEW i \in 1 .. Len(s)
      PROVE  s[i].period = k.period /\ k.offset <= s[i].offset /\ End(s[i]) <= End(k)
  <2>1. i \in 1 .. Len(m.items) \/ i = Len(m.items) + 1
    BY <1>2, <1>3
  <2> QED
    BY <1>3, <1>5, <1>6, <2>1
<1>8. Covers(k)
  BY <1>1, <1>7 DEF Covers
<1> QED
  BY <1>8 DEF k

-----------------------------------------------------------------------------
(* One item and all messages                                               *)

\* r is q with x added to, or as, the message at i.
TakenAt(q, r, x, i) ==
    /\ r \in Seq(Messages) /\ i \in 1 .. Len(r) /\ Len(r) >= Len(q)
    /\ \A j \in 1 .. Len(q) : j < i => ~Accepts(q[j], x)
    /\ \A j \in 1 .. Len(r) : j # i => j \in 1 .. Len(q) /\ r[j] = q[j]
    /\ \/ i \in 1 .. Len(q) /\ Len(r) = Len(q) /\ Accepts(q[i], x) /\ r[i] = Extend(q[i], x)
       \/ i = Len(q) + 1 /\ Len(r) = Len(q) + 1 /\ r[i] = NewMessage(x)

LEMMA AddItemTakes ==
  ASSUME NEW q \in Seq(Messages), \A i \in 1 .. Len(q) : Possible(q[i]), NEW x \in Items
  PROVE  \E i \in 1 .. Len(AddItem(q, x)) : TakenAt(q, AddItem(q, x), x, i)
<1> DEFINE willing == {i \in DOMAIN q : Accepts(q[i], x)}
           r == AddItem(q, x)
<1>1. Len(q) \in Nat /\ DOMAIN q = 1 .. Len(q) /\ \A i \in 1 .. Len(q) : q[i] \in Messages
  BY LenProperties, ElementOfSeq
<1>2. r = IF willing = {} THEN Append(q, NewMessage(x))
          ELSE [q EXCEPT ![Min(willing)] = Extend(q[Min(willing)], x)]
  BY DEF AddItem
<1> HIDE DEF r
<1>3. CASE willing = {}
  <2>1. r = Append(q, NewMessage(x)) /\ NewMessage(x) \in Messages
    BY <1>2, <1>3, NewMessageFits
  <2>2. /\ r \in Seq(Messages) /\ Len(r) = Len(q) + 1
        /\ \A i \in 1 .. Len(q) : r[i] = q[i]
        /\ r[Len(q) + 1] = NewMessage(x)
    BY <2>1, AppendProperties
  <2>3. \A j \in 1 .. Len(q) : ~Accepts(q[j], x)
    BY <1>1, <1>3
  <2>4. TakenAt(q, r, x, Len(q) + 1) /\ Len(q) + 1 \in 1 .. Len(r)
    BY <1>1, <2>2, <2>3 DEF TakenAt
  <2> QED
    BY <2>4 DEF r
<1>4. CASE willing # {}
  <2>1. willing \in SUBSET Nat
    BY <1>1
  <2>2. PICK i \in willing : i = Min(willing) /\ \A j \in willing : i <= j
    BY <1>4, <2>1, MinIsLeast
  <2>3. r = [q EXCEPT ![i] = Extend(q[i], x)]
    BY <1>2, <1>4, <2>2
  <2>4. i \in 1 .. Len(q) /\ Accepts(q[i], x) /\ \A j \in 1 .. Len(q) : j < i => ~Accepts(q[j], x)
    <3>1. i \in 1 .. Len(q) /\ Accepts(q[i], x)
      BY <1>1, Zenon
    <3>2. \A j \in 1 .. Len(q) : Accepts(q[j], x) => j \in willing
      BY <1>1, Zenon
    <3>3. \A j \in 1 .. Len(q) : j < i => j \notin willing
      <4> HIDE DEF willing
      <4>1. \A j \in 1 .. Len(q) : j < i => ~(i <= j)
        BY <1>1, <3>1
      <4> QED
        BY <2>2, <4>1
    <3> QED
      BY <3>1, <3>2, <3>3, Zenon
  <2>5. Extend(q[i], x) \in Messages
    BY <1>1, <2>4, ExtendFits
  <2>6. /\ r \in Seq(Messages) /\ Len(r) = Len(q)
        /\ \A j \in 1 .. Len(q) : r[j] = IF j = i THEN Extend(q[i], x) ELSE q[j]
    BY <2>3, <2>4, <2>5, ExceptSeq
  <2>7. i \in 1 .. Len(r) /\ r[i] = Extend(q[i], x)
    BY <1>1, <2>4, <2>6
  <2>8. \A j \in 1 .. Len(r) : j # i => j \in 1 .. Len(q) /\ r[j] = q[j]
    BY <2>6
  <2> HIDE DEF willing
  <2>9. TakenAt(q, r, x, i)
    <3>1. r \in Seq(Messages) /\ i \in 1 .. Len(r) /\ Len(r) >= Len(q)
      BY <1>1, <2>6, <2>7
    <3> QED
      BY <2>4, <2>6, <2>7, <2>8, <3>1, Zenon DEF TakenAt
  <2> QED
    BY <2>7, <2>9 DEF r
<1> QED
  BY <1>3, <1>4

\* Whose items are in the messages.
Holds(q, x) == \E i \in 1 .. Len(q) : \E j \in 1 .. Len(q[i].items) : q[i].items[j] = x

AllAre(q) == q \in Seq(Messages) /\ \A i \in 1 .. Len(q) : Possible(q[i])

\* The items of the message x was added to.
LEMMA TakenItems ==
  ASSUME NEW q \in Seq(Messages), \A i \in 1 .. Len(q) : Possible(q[i]), NEW x \in Items,
         NEW r, NEW i, TakenAt(q, r, x, i)
  PROVE  LET s == r[i].items
         IN  /\ s \in Seq(Items) /\ Len(s) \in Nat /\ Len(s) > 0 /\ s[Len(s)] = x
             /\ \A j \in 1 .. Len(s) : s[j] \in Items
             /\ \/ /\ i \in 1 .. Len(q) /\ Len(s) = Len(q[i].items) + 1
                   /\ \A j \in 1 .. Len(q[i].items) : s[j] = q[i].items[j]
                \/ i = Len(q) + 1 /\ Len(s) = 1
<1>1. r[i] \in Messages
  BY ElementOfSeq DEF TakenAt
<1>2. CASE i \in 1 .. Len(q) /\ Accepts(q[i], x) /\ r[i] = Extend(q[i], x)
  <2>1. q[i] \in Messages
    BY <1>2, ElementOfSeq
  <2>2. r[i].items = Append(q[i].items, x)
    BY <1>2, <2>1, ExtendFits
  <2>3. q[i].items \in Seq(Items)
    BY <2>1, MessageTypes
  <2> QED
    <3> DEFINE u == q[i].items
               s == Append(u, x)
    <3>1. /\ s \in Seq(Items) /\ Len(s) = Len(u) + 1 /\ s[Len(u) + 1] = x
          /\ \A j \in 1 .. Len(u) : s[j] = u[j]
      BY <2>3, AppendProperties
    <3>2. Len(u) \in Nat /\ Len(s) > 0 /\ s[Len(s)] = x
      BY <2>3, <3>1, LenProperties
    <3>3. \A j \in 1 .. Len(s) : s[j] \in Items
      BY <3>1, ElementOfSeq
    <3> HIDE DEF s
    <3>4. r[i].items = s
      BY <2>2 DEF s
    <3> QED
      BY <1>2, <3>1, <3>2, <3>3, <3>4
<1>3. CASE i = Len(q) + 1 /\ r[i] = NewMessage(x)
  <2>1. r[i].items = << x >> /\ Len(<< x >>) = 1 /\ << x >>[1] = x
    BY <1>3, NewMessageFits
  <2> QED
    BY <1>1, <1>3, <2>1, MessageTypes
<1> QED
  BY <1>2, <1>3 DEF TakenAt

LEMMA AddItemKeepsPossible ==
  ASSUME NEW q, AllAre(q), NEW x \in Items
  PROVE  /\ AllAre(AddItem(q, x))
         /\ \A y : Holds(AddItem(q, x), y) <=> (Holds(q, y) \/ y = x)
<1> DEFINE r == AddItem(q, x)
<1>1. PICK i \in 1 .. Len(r) : TakenAt(q, r, x, i)
  BY AddItemTakes DEF AllAre
<1> HIDE DEF r
<1>2. Len(q) \in Nat /\ \A j \in 1 .. Len(q) : q[j] \in Messages /\ Len(q[j].items) \in Nat
  BY LenProperties, ElementOfSeq, MessageTypes DEF AllAre
<1>3. r \in Seq(Messages) /\ Len(r) \in Nat
  BY <1>1, LenProperties DEF TakenAt
<1>4. Possible(r[i])
  BY <1>1, <1>2, ExtendFits, NewMessageFits DEF TakenAt, AllAre
<1>5. AllAre(r)
  BY <1>1, <1>3, <1>4 DEF TakenAt, AllAre
<1> DEFINE s == r[i].items
<1>6. /\ Len(s) \in Nat /\ Len(s) > 0 /\ s[Len(s)] = x
      /\ \/ /\ i \in 1 .. Len(q) /\ Len(s) = Len(q[i].items) + 1
            /\ \A j \in 1 .. Len(q[i].items) : s[j] = q[i].items[j]
         \/ i = Len(q) + 1 /\ Len(s) = 1
  BY <1>1, TakenItems DEF AllAre
<1>7. Holds(r, x)
  BY <1>6 DEF Holds
<1>8. ASSUME NEW y, Holds(q, y)
      PROVE  Holds(r, y)
  <2>1. PICK k \in 1 .. Len(q) : \E j \in 1 .. Len(q[k].items) : q[k].items[j] = y
    BY <1>8 DEF Holds
  <2>2. PICK j \in 1 .. Len(q[k].items) : q[k].items[j] = y
    BY <2>1
  <2>3. k \in 1 .. Len(r)
    BY <1>1, <1>2, <1>3 DEF TakenAt
  <2>4. CASE k = i
    <3>1. Len(s) = Len(q[i].items) + 1 /\ s[j] = y /\ j \in 1 .. Len(s)
      BY <1>2, <1>6, <2>2, <2>4
    <3> QED
      BY <3>1 DEF Holds
  <2>5. CASE k # i
    BY <1>1, <2>2, <2>3, <2>5 DEF TakenAt, Holds
  <2> QED
    BY <2>4, <2>5
<1>9. ASSUME NEW y, Holds(r, y)
      PROVE  Holds(q, y) \/ y = x
  <2>1. PICK k \in 1 .. Len(r) : \E j \in 1 .. Len(r[k].items) : r[k].items[j] = y
    BY <1>9 DEF Holds
  <2>2. PICK j \in 1 .. Len(r[k].items) : r[k].items[j] = y
    BY <2>1
  <2>3. CASE k = i
    <3>1. \/ j = Len(s)
          \/ i \in 1 .. Len(q) /\ j \in 1 .. Len(q[i].items) /\ s[j] = q[i].items[j]
      BY <1>2, <1>6, <2>2, <2>3
    <3> QED
      BY <1>6, <2>2, <2>3, <3>1 DEF Holds
  <2>4. CASE k # i
    BY <1>1, <2>2, <2>4 DEF TakenAt, Holds
  <2> QED
    BY <2>3, <2>4
<1> QED
  BY <1>5, <1>7, <1>8, <1>9 DEF r

\* So do all of them.
LEMMA AddItemsKeepPossible ==
  ASSUME NEW q, AllAre(q), NEW items \in Seq(Items)
  PROVE  /\ AllAre(AddItems(q, items))
         /\ \A y : Holds(AddItems(q, items), y)
                      <=> (Holds(q, y) \/ \E k \in 1 .. Len(items) : items[k] = y)
<1> DEFINE N == Len(items)
<1>1. N \in Nat /\ \A n \in 1 .. N : items[n] \in Items
  BY LenProperties, ElementOfSeq
<1>2. PICK added : /\ added[0] = q
                   /\ \A n \in 1 .. N : added[n] = AddItem(added[n - 1], items[n])
                   /\ AddItems(q, items) = added[N]
  BY OneByOne
<1> HIDE DEF N
<1> DEFINE OK(n) == /\ AllAre(added[n])
                    /\ \A y : Holds(added[n], y)
                                <=> (Holds(q, y) \/ \E k \in 1 .. n : items[k] = y)
           T == {n \in 0 .. N : OK(n)}
<1>3. OK(0)
  BY <1>2
<1>4. ASSUME NEW n \in 1 .. N, OK(n - 1)
      PROVE  OK(n)
  <2>1. added[n] = AddItem(added[n - 1], items[n]) /\ items[n] \in Items
    BY <1>1, <1>2
  <2>2. /\ AllAre(added[n])
        /\ \A y : Holds(added[n], y) <=> (Holds(added[n - 1], y) \/ y = items[n])
    BY <1>4, <2>1, AddItemKeepsPossible
  <2>3. \A y : (\E k \in 1 .. n : items[k] = y) <=> (\E k \in 1 .. (n - 1) : items[k] = y) \/ y = items[n]
    <3>1. 1 .. n = 1 .. (n - 1) \union {n}
      BY <1>1
    <3> QED
      BY <3>1
  <2> QED
    BY <1>4, <2>2, <2>3
<1>5. T = 0 .. N
  <2>1. T \in SUBSET (0 .. N) /\ 0 \in T /\ \A n \in 1 .. N : n - 1 \in T => n \in T
    BY <1>1, <1>3, <1>4
  <2> HIDE DEF T
  <2> QED
    BY <1>1, <2>1, Induction
<1>6. OK(N)
  <2>1. N \in 0 .. N
    BY <1>1
  <2> QED
    BY <1>5, <2>1
<1> QED
  BY <1>2, <1>6 DEF N

AllCover(q) == \A i \in 1 .. Len(q) : Covers(q[i])

\* x ends below the top and does not reach over y.
Beside(x, y) == x.period = y.period /\ x.offset < y.offset => End(x) <= End(y)

LEMMA AddItemKeepsCovers ==
  ASSUME NEW q, AllAre(q), AllCover(q), NEW x \in Items, End(x) < Size,
         \A y : Holds(q, y) => Beside(x, y)
  PROVE  AllCover(AddItem(q, x))
<1> DEFINE r == AddItem(q, x)
<1>1. PICK i \in 1 .. Len(r) : TakenAt(q, r, x, i)
  BY AddItemTakes DEF AllAre
<1> HIDE DEF r
<1>2. CASE i \in 1 .. Len(q) /\ Accepts(q[i], x) /\ r[i] = Extend(q[i], x)
  <2>1. q[i] \in Messages /\ Possible(q[i]) /\ Covers(q[i])
    BY <1>2, ElementOfSeq DEF AllAre, AllCover
  <2>2. ASSUME NEW j \in 1 .. Len(q[i].items), x.offset < q[i].items[j].offset
        PROVE  End(x) <= End(q[i].items[j])
    <3>1. Beside(x, q[i].items[j])
      BY <1>2 DEF Holds
    <3>2. q[i].items[j].period = q[i].period /\ x.period = q[i].period
      BY <1>2, <2>1 DEF Covers, Accepts
    <3> QED
      BY <2>2, <3>1, <3>2 DEF Beside
  <2>3. Covers(r[i])
    BY <1>2, <2>1, <2>2, ExtendCovers
  <2> QED
    BY <1>1, <2>3 DEF TakenAt, AllCover, r
<1>3. CASE r[i] = NewMessage(x)
  <2>1. Covers(r[i])
    BY <1>3, NewMessageFits
  <2> QED
    BY <1>1, <2>1 DEF TakenAt, AllCover, r
<1> QED
  BY <1>1, <1>2, <1>3 DEF TakenAt

LEMMA AddItemsKeepCovers ==
  ASSUME NEW q, AllAre(q), AllCover(q), NEW items \in Seq(Items),
         \A k \in 1 .. Len(items) : End(items[k]) < Size,
         \A k \in 1 .. Len(items) : \A y : Holds(q, y) => Beside(items[k], y),
         \A k, l \in 1 .. Len(items) : Beside(items[k], items[l])
  PROVE  AllCover(AddItems(q, items))
<1> DEFINE N == Len(items)
<1>1. N \in Nat /\ \A n \in 1 .. N : items[n] \in Items
  BY LenProperties, ElementOfSeq
<1>2. PICK added : /\ added[0] = q
                   /\ \A n \in 1 .. N : added[n] = AddItem(added[n - 1], items[n])
                   /\ AddItems(q, items) = added[N]
  BY OneByOne
<1> DEFINE OK(n) == /\ AllAre(added[n]) /\ AllCover(added[n])
                    /\ \A y : Holds(added[n], y) => Holds(q, y) \/ \E k \in 1 .. N : items[k] = y
           T == {n \in 0 .. N : OK(n)}
<1>3. OK(0)
  BY <1>2
<1>4. ASSUME NEW n \in 1 .. N, OK(n - 1)
      PROVE  OK(n)
  <2>1. added[n] = AddItem(added[n - 1], items[n]) /\ items[n] \in Items
    BY <1>1, <1>2
  <2>2. /\ AllAre(added[n])
        /\ \A y : Holds(added[n], y) <=> (Holds(added[n - 1], y) \/ y = items[n])
    BY <1>4, <2>1, AddItemKeepsPossible
  <2>3. \A y : Holds(added[n - 1], y) => Beside(items[n], y)
    BY <1>4
  <2>4. AllCover(added[n])
    BY <1>4, <2>1, <2>3, AddItemKeepsCovers
  <2> QED
    BY <1>4, <2>2, <2>4
<1> HIDE DEF N
<1>5. T = 0 .. N
  <2>1. T \in SUBSET (0 .. N) /\ 0 \in T /\ \A n \in 1 .. N : n - 1 \in T => n \in T
    BY <1>1, <1>3, <1>4
  <2> HIDE DEF T
  <2> QED
    BY <1>1, <2>1, Induction
<1>6. OK(N)
  <2>1. N \in 0 .. N
    BY <1>1
  <2> QED
    BY <1>5, <2>1
<1> QED
  BY <1>2, <1>6

-----------------------------------------------------------------------------
(* The order of the edits                                                  *)

\* What a message does not accept it does not accept when it has grown.
LEMMA RefusedForGood ==
  ASSUME NEW m \in Messages, Possible(m), NEW x \in Items, Accepts(m, x),
         NEW y \in Items, ~Accepts(m, y)
  PROVE  ~Accepts(Extend(m, x), y)
<1> DEFINE k == Extend(m, x)
           next == NextOffset(y)
<1>1. /\ k \in Messages /\ k.period = m.period
      /\ k.offset = IF ToEnd(m, x) THEN m.offset ELSE x.offset
      /\ k.offset <= m.offset /\ End(m) <= End(k)
  BY ExtendFits
<1> HIDE DEF k
<1>2. /\ k.offset \in Nat /\ k.count \in Nat /\ m.offset \in Nat /\ m.count \in Nat
      /\ x.offset \in Nat /\ y.offset \in Nat
      /\ End(m) = m.offset + m.count /\ End(k) = k.offset + k.count
      /\ MaxCount \in Nat
  BY <1>1, MessageTypes, ItemTypes, ViewsAssumption DEF End
<1>3. next \in Nat
  <2>1. End(y) \in Nat
    BY ItemTypes
  <2> QED
    BY <2>1, NextOffsetIs
<1>4. /\ ToEnd(m, y) <=> y.offset >= m.offset /\ next <= m.offset + MaxCount
      /\ ToEnd(k, y) <=> y.offset >= k.offset /\ next <= k.offset + MaxCount
  BY DEF ToEnd
<1>5. /\ FromBegin(m, y) <=> y.offset < m.offset /\ y.offset + MaxCount >= m.offset + m.count
      /\ FromBegin(k, y) <=> y.offset < k.offset /\ y.offset + MaxCount >= k.offset + k.count
      /\ FromBegin(m, x) <=> x.offset < m.offset /\ x.offset + MaxCount >= m.offset + m.count
  BY DEF FromBegin
<1>6. ToEnd(m, x) \/ FromBegin(m, x)
  BY DEF Accepts
<1>7. SUFFICES ASSUME y.period = m.period, ToEnd(k, y) \/ FromBegin(k, y)
               PROVE  ToEnd(m, y) \/ FromBegin(m, y)
  BY <1>1 DEF Accepts, k
<1> HIDE DEF next
<1>8. CASE ToEnd(m, x)
  BY <1>1, <1>2, <1>3, <1>4, <1>5, <1>7, <1>8
<1>9. CASE ~ToEnd(m, x)
  BY <1>1, <1>2, <1>3, <1>4, <1>5, <1>6, <1>7, <1>9
<1> QED
  BY <1>8, <1>9

\* Whether an item is accepted depends on its range and its period.
LEMMA SameRangeSameAnswer ==
  ASSUME NEW m, NEW x, NEW y, x.offset = y.offset, x.count = y.count, x.period = y.period
  PROVE  Accepts(m, x) <=> Accepts(m, y)
<1>1. NextOffset(x) = NextOffset(y)
  BY DEF NextOffset
<1>2. ToEnd(m, x) <=> ToEnd(m, y)
  BY <1>1 DEF ToEnd
<1>3. FromBegin(m, x) <=> FromBegin(m, y)
  BY DEF FromBegin
<1> QED
  BY <1>2, <1>3 DEF Accepts

\* The edits the user has asked for are edits of items that lie apart.
LEMMA EditsLieApart ==
  ASSUME NEW edits, AreEdits(edits), EditsApart, BelowTop, NEW x, NEW y, IsEdit(edits, x), IsEdit(edits, y)
  PROVE  /\ x.period = 0 /\ y.period = 0 /\ End(x) < Size
         /\ x.offset = y.offset => x.count = y.count
         /\ RangeOf(x) \intersect RangeOf(y) # {} => x.offset = y.offset
         /\ Beside(x, y)
<1>1. PICK v \in Writable : x = WriteItem(v, x.data)
  BY DEF AreEdits, IsEdit
<1>2. PICK w \in Writable : y = WriteItem(w, y.data)
  BY DEF AreEdits, IsEdit
<1>3. /\ x.offset = v.offset /\ x.count = v.count /\ x.period = 0
      /\ y.offset = w.offset /\ y.count = w.count /\ y.period = 0
  BY <1>1, <1>2 DEF WriteItem
<1>4. /\ v \in Views /\ w \in Views
      /\ v.offset \in Nat /\ v.count \in Nat \ {0} /\ w.offset \in Nat /\ w.count \in Nat \ {0}
  BY ViewsAssumption
<1>5. End(x) < Size
  BY <1>3, <1>4 DEF BelowTop, End
<1>6. RangeOf(x) = RangeOf(v) /\ RangeOf(y) = RangeOf(w)
  BY <1>3 DEF RangeOf
<1>7. RangeOf(x) \intersect RangeOf(y) # {} => v = w
  BY <1>6 DEF EditsApart
<1>8. x.offset = y.offset => x.count = y.count
  <2>1. v.offset = w.offset => v.offset \in RangeOf(v) \intersect RangeOf(w)
    BY <1>4 DEF RangeOf
  <2> QED
    BY <1>3, <1>6, <1>7, <2>1
<1>9. ASSUME x.offset < y.offset
      PROVE  End(x) <= End(y)
  <2>1. y.offset \in RangeOf(w)
    BY <1>3, <1>4 DEF RangeOf
  <2>2. End(x) > y.offset => y.offset \in RangeOf(v)
    BY <1>3, <1>4, <1>9 DEF RangeOf, End
  <2>3. End(x) > y.offset => v = w
    BY <1>6, <1>7, <2>1, <2>2
  <2> QED
    BY <1>3, <1>4, <1>9, <2>3 DEF End
<1> QED
  BY <1>3, <1>5, <1>7, <1>8, <1>9 DEF Beside

LEMMA EditsMeetAtOnce ==
  ASSUME NEW edits, AreEdits(edits), EditsApart, BelowTop, NEW x, NEW y,
         IsEdit(edits, x), IsEdit(edits, y), RangeOf(x) \intersect RangeOf(y) # {}
  PROVE  x.offset = y.offset
BY EditsLieApart

LEMMA AddItemKeepsInTurn ==
  ASSUME NEW edits, AreEdits(edits), EditsApart, BelowTop,
         NEW q, AllAre(q), InTurn(q), NEW x \in Items, IsEdit(edits, x),
         \A y : Holds(q, y) => IsEdit(edits, y) /\ y.data < x.data
  PROVE  InTurn(AddItem(q, x))
<1> DEFINE r == AddItem(q, x)
<1>1. PICK i \in 1 .. Len(r) : TakenAt(q, r, x, i)
  BY AddItemTakes DEF AllAre
<1>2. AllCover(r)
  <2>1. AllCover(q)
    BY DEF InTurn, IsWriteMessage, AllCover
  <2>2. End(x) < Size /\ \A y : Holds(q, y) => Beside(x, y)
    BY EditsLieApart
  <2> QED
    BY <2>1, <2>2, AddItemKeepsCovers
<1> HIDE DEF r
<1>3. /\ Len(q) \in Nat /\ Len(r) \in Nat
      /\ \A j \in 1 .. Len(q) : q[j] \in Messages /\ Possible(q[j]) /\ Len(q[j].items) \in Nat
  BY <1>1, LenProperties, ElementOfSeq, MessageTypes DEF AllAre, TakenAt
<1> DEFINE s == r[i].items
<1>4. /\ Len(s) \in Nat /\ Len(s) > 0 /\ s[Len(s)] = x
      /\ \/ /\ i \in 1 .. Len(q) /\ Len(s) = Len(q[i].items) + 1
            /\ \A j \in 1 .. Len(q[i].items) : s[j] = q[i].items[j]
         \/ i = Len(q) + 1 /\ Len(s) = 1
  BY <1>1, TakenItems DEF AllAre
\* An item of the message at i is an old one or x.
<1>5. ASSUME NEW l \in 1 .. Len(s)
      PROVE  \/ l = Len(s) /\ s[l] = x
             \/ l < Len(s) /\ i \in 1 .. Len(q) /\ l \in 1 .. Len(q[i].items) /\ s[l] = q[i].items[l]
  BY <1>3, <1>4
<1>6. \A j \in 1 .. Len(q) : \A l \in 1 .. Len(q[j].items) : q[j].items[l].data < x.data
  BY DEF Holds
<1>7. IsWriteMessage(r[i])
  <2>1. Covers(r[i])
    BY <1>2 DEF AllCover
  <2>2. r[i].period = 0
    <3>1. ASSUME i \in 1 .. Len(q), Accepts(q[i], x), r[i] = Extend(q[i], x)
          PROVE  r[i].period = 0
      BY <1>3, <3>1, ExtendFits DEF InTurn, IsWriteMessage
    <3>2. ASSUME r[i] = NewMessage(x)
          PROVE  r[i].period = 0
      <4>1. x.period = 0
        BY EditsLieApart
      <4> QED
        BY <3>2, <4>1, NewMessageFits
    <3> QED
      BY <1>1, <3>1, <3>2 DEF TakenAt
  <2>3. ASSUME NEW k \in 1 .. Len(s), NEW l \in 1 .. Len(s), k < l
        PROVE  s[k].data < s[l].data
    <3>1. k < Len(s) /\ i \in 1 .. Len(q) /\ k \in 1 .. Len(q[i].items) /\ s[k] = q[i].items[k]
      BY <1>4, <1>5, <2>3
    <3>2. CASE s[l] = x
      BY <1>6, <3>1, <3>2
    <3>3. CASE l \in 1 .. Len(q[i].items) /\ s[l] = q[i].items[l]
      BY <2>3, <3>1, <3>3 DEF InTurn, IsWriteMessage
    <3> QED
      BY <1>5, <3>2, <3>3
  <2> QED
    BY <2>1, <2>2, <2>3 DEF IsWriteMessage
<1>8. \A j \in 1 .. Len(r) : IsWriteMessage(r[j])
  BY <1>1, <1>7 DEF TakenAt, InTurn
<1>9. ASSUME NEW j \in 1 .. Len(r), NEW k \in 1 .. Len(r), j < k
      PROVE  /\ Before(r[j], r[k])
             /\ \A l \in 1 .. Len(r[k].items) : ~Accepts(r[j], r[k].items[l])
  <2>1. ASSUME NEW a \in 1 .. Len(q), NEW b \in 1 .. Len(q), a < b
        PROVE  /\ Before(q[a], q[b])
               /\ \A l \in 1 .. Len(q[b].items) : ~Accepts(q[a], q[b].items[l])
    BY <2>1 DEF InTurn
  <2>2. CASE j # i /\ k # i
    BY <1>1, <1>9, <2>1, <2>2 DEF TakenAt
  <2>3. CASE k = i
    <3>1. j \in 1 .. Len(q) /\ r[j] = q[j] /\ j < i /\ ~Accepts(q[j], x)
      BY <1>1, <1>3, <1>9, <2>3 DEF TakenAt
    <3>2. \A l \in 1 .. Len(s) : ~Accepts(q[j], s[l])
      BY <1>5, <2>1, <3>1
    <3>3. ASSUME NEW h \in 1 .. Len(q[j].items), NEW l \in 1 .. Len(s),
                 q[j].items[h].offset = s[l].offset
          PROVE  q[j].items[h].data < s[l].data
      <4>1. CASE s[l] = x
        BY <1>6, <3>1, <4>1
      <4>2. CASE i \in 1 .. Len(q) /\ l \in 1 .. Len(q[i].items) /\ s[l] = q[i].items[l]
        BY <2>1, <3>1, <3>3, <4>2 DEF Before
      <4> QED
        BY <1>5, <4>1, <4>2
    <3> QED
      BY <2>3, <3>1, <3>2, <3>3 DEF Before
  <2>4. CASE j = i
    <3>1. /\ k \in 1 .. Len(q) /\ r[k] = q[k] /\ i < k /\ i \in 1 .. Len(q)
          /\ Accepts(q[i], x) /\ r[i] = Extend(q[i], x)
      BY <1>1, <1>3, <1>9, <2>4 DEF TakenAt
    <3>2. ASSUME NEW l \in 1 .. Len(q[k].items)
          PROVE  /\ ~Accepts(q[i], q[k].items[l]) /\ ~Accepts(r[i], q[k].items[l])
                 /\ q[k].items[l].offset # x.offset
      <4> DEFINE y == q[k].items[l]
      <4>1. ~Accepts(q[i], y)
        BY <2>1, <3>1
      <4>2. q[k] \in Messages /\ q[i] \in Messages /\ Possible(q[i])
        BY <1>3, <3>1
      <4>3. y \in Items
        BY <4>2, MessageTypes
      <4>4. ~Accepts(r[i], y)
        BY <3>1, <4>1, <4>2, <4>3, RefusedForGood
      <4>5. IsEdit(edits, y)
        BY <3>1 DEF Holds
      <4>6. ASSUME y.offset = x.offset PROVE FALSE
        <5> HIDE DEF y
        <5>1. y.count = x.count /\ y.period = x.period
          BY <4>5, <4>6, EditsLieApart
        <5> QED
          BY <3>1, <4>1, <4>6, <5>1, SameRangeSameAnswer
      <4> QED
        BY <4>1, <4>4, <4>6
    <3>3. ASSUME NEW h \in 1 .. Len(s), NEW l \in 1 .. Len(q[k].items),
                 s[h].offset = q[k].items[l].offset
          PROVE  s[h].data < q[k].items[l].data
      <4>1. s[h] # x
        BY <3>2, <3>3
      <4>2. h \in 1 .. Len(q[i].items) /\ s[h] = q[i].items[h]
        BY <1>5, <4>1
      <4> QED
        BY <2>1, <3>1, <3>3, <4>2 DEF Before
    <3> QED
      BY <2>4, <3>1, <3>2, <3>3 DEF Before
  <2> QED
    BY <1>9, <2>2, <2>3, <2>4
<1> QED
  BY <1>8, <1>9 DEF InTurn, r

LEMMA AddItemsKeepInTurn ==
  ASSUME NEW edits, AreEdits(edits), EditsApart, BelowTop,
         NEW q, AllAre(q), InTurn(q), NEW items \in Seq(Items),
         \A k \in 1 .. Len(items) : IsEdit(edits, items[k]),
         \A k, l \in 1 .. Len(items) : k < l => items[k].data < items[l].data,
         \A y : Holds(q, y) => IsEdit(edits, y) /\ \A k \in 1 .. Len(items) : y.data < items[k].data
  PROVE  InTurn(AddItems(q, items))
<1> DEFINE N == Len(items)
<1>1. N \in Nat /\ \A n \in 1 .. N : items[n] \in Items
  BY LenProperties, ElementOfSeq
<1>2. PICK added : /\ added[0] = q
                   /\ \A n \in 1 .. N : added[n] = AddItem(added[n - 1], items[n])
                   /\ AddItems(q, items) = added[N]
  BY OneByOne
<1> DEFINE OK(n) == /\ AllAre(added[n]) /\ InTurn(added[n])
                    /\ \A y : Holds(added[n], y) => Holds(q, y) \/ \E k \in 1 .. n : items[k] = y
           T == {n \in 0 .. N : OK(n)}
<1>3. OK(0)
  BY <1>2
<1>4. ASSUME NEW n \in 1 .. N, OK(n - 1)
      PROVE  OK(n)
  <2>1. added[n] = AddItem(added[n - 1], items[n]) /\ items[n] \in Items /\ IsEdit(edits, items[n])
    BY <1>1, <1>2
  <2>2. /\ AllAre(added[n])
        /\ \A y : Holds(added[n], y) <=> (Holds(added[n - 1], y) \/ y = items[n])
    BY <1>4, <2>1, AddItemKeepsPossible
  <2>3. ASSUME NEW y, Holds(added[n - 1], y)
        PROVE  IsEdit(edits, y) /\ y.data < items[n].data
    <3>1. Holds(q, y) \/ \E k \in 1 .. (n - 1) : items[k] = y
      BY <1>4, <2>3
    <3>2. \A k \in 1 .. (n - 1) : k \in 1 .. N /\ k < n
      BY <1>1
    <3> QED
      BY <3>1, <3>2
  <2>4. InTurn(added[n])
    BY <1>4, <2>1, <2>3, AddItemKeepsInTurn
  <2>5. \A y : (\E k \in 1 .. (n - 1) : items[k] = y) \/ y = items[n] => \E k \in 1 .. n : items[k] = y
    <3>1. 1 .. n = 1 .. (n - 1) \union {n}
      BY <1>1
    <3> QED
      BY <3>1
  <2> QED
    BY <1>4, <2>2, <2>4, <2>5
<1> HIDE DEF N
<1>5. T = 0 .. N
  <2>1. T \in SUBSET (0 .. N) /\ 0 \in T /\ \A n \in 1 .. N : n - 1 \in T => n \in T
    BY <1>1, <1>3, <1>4
  <2> HIDE DEF T
  <2> QED
    BY <1>1, <2>1, Induction
<1>6. OK(N)
  <2>1. N \in 0 .. N
    BY <1>1
  <2> QED
    BY <1>5, <2>1
<1> QED
  BY <1>2, <1>6

-----------------------------------------------------------------------------
(* The buffer                                                              *)

LEMMA BufferOfMessage ==
  ASSUME FitsBuffer, NEW m \in Messages, Possible(m)
  PROVE  /\ m.count <= BuffSize /\ BuffSize \in Nat
         /\ RangeOf(m) \subseteq Addresses
         /\ \A a \in RangeOf(m) : a - m.offset \in 0 .. (BuffSize - 1) /\ a \in Nat
<1>1. /\ m.offset \in Nat /\ m.count \in Nat \ {0} /\ End(m) = m.offset + m.count /\ End(m) <= Size
      /\ DOMAIN m.items = 1 .. Len(m.items) /\ \A i \in 1 .. Len(m.items) : m.items[i] \in Items
  BY MessageTypes DEF Possible, End
<1>2. BuffSize \in Nat /\ MaxCount \in Nat /\ MaxCount <= BuffSize /\ Size \in Nat
  BY ViewsAssumption DEF FitsBuffer
<1>3. m.count <= BuffSize
  <2>1. CASE m.count <= MaxCount
    BY <1>1, <1>2, <2>1
  <2>2. ASSUME NEW i \in DOMAIN m.items, m.items[i].count = m.count
        PROVE  m.count <= BuffSize
    <3>1. PICK v \in Views : v.count = m.items[i].count
      BY <1>1, ItemTypes
    <3> QED
      BY <2>2, <3>1 DEF FitsBuffer
  <2> QED
    BY <2>1, <2>2 DEF Possible
<1>4. \A a \in RangeOf(m) : a \in Nat /\ a >= m.offset /\ a < m.offset + m.count
  BY <1>1 DEF RangeOf
<1> QED
  BY <1>1, <1>2, <1>3, <1>4 DEF Addresses

LEMMA InnerIs ==
  ASSUME NEW m \in Messages, Possible(m), NEW x \in Items, m.offset <= x.offset
  PROVE  Inner(m, x) = x.offset - m.offset
<1>1. \A d, b \in Nat : d < b => (d + b) % b = d
  OBVIOUS
<1>2. /\ m.offset \in Nat /\ x.offset \in Nat /\ x.count \in Nat \ {0}
      /\ x.offset + x.count <= Size /\ Size \in Nat
  BY MessageTypes, ItemTypes, ViewsAssumption DEF End
<1>3. x.offset - m.offset \in Nat /\ x.offset - m.offset < Size
  BY <1>2
<1>4. ((x.offset - m.offset) + Size) % Size = x.offset - m.offset
  <2> DEFINE d == x.offset - m.offset
  <2> HIDE DEF d
  <2>1. d \in Nat /\ d < Size => (d + Size) % Size = d
    BY <1>1, <1>2
  <2> QED
    BY <1>3, <2>1 DEF d
<1>5. (x.offset - m.offset) + Size = x.offset + Size - m.offset
  BY <1>2
<1> QED
  BY <1>4, <1>5 DEF Inner

LEMMA PreparedFits ==
  ASSUME NEW m \in Messages
  PROVE  Prepared(m) \in Buffer
<1>1. /\ DOMAIN m.items = 1 .. Len(m.items) /\ Len(m.items) \in Nat
      /\ \A i \in 1 .. Len(m.items) : m.items[i].data \in 0 .. MaxWrites
  BY MessageTypes, ItemTypes
<1>2. ASSUME NEW r \in 0 .. (BuffSize - 1), Covering(m, r) # {}
      PROVE  m.items[Max(Covering(m, r))].data \in 0 .. MaxWrites
  <2> DEFINE T == Covering(m, r)
  <2>1. T \in SUBSET (1 .. Len(m.items)) /\ T # {}
    BY <1>1, <1>2 DEF Covering
  <2> HIDE DEF T
  <2>2. Max(T) \in 1 .. Len(m.items)
    BY <1>1, <2>1, MaxIsGreatest
  <2> QED
    BY <1>1, <2>2 DEF T
<1>3. 0 \in 0 .. MaxWrites
  BY ViewsAssumption
<1> QED
  BY <1>2, <1>3 DEF Prepared, Buffer

\* Of the items at an address the last one's data are sent.
LEMMA LastIsSent ==
  ASSUME FitsBuffer, NEW m \in Messages, Possible(m), Covers(m),
         NEW i \in 1 .. Len(m.items), NEW a \in RangeOf(m.items[i])
  PROVE  \E j \in i .. Len(m.items) :
            a \in RangeOf(m.items[j]) /\ Prepared(m)[a - m.offset] = m.items[j].data
<1> DEFINE r == a - m.offset
           T == Covering(m, r)
<1>1. /\ m.offset \in Nat /\ m.count \in Nat /\ Len(m.items) \in Nat /\ DOMAIN m.items = 1 .. Len(m.items)
      /\ End(m) = m.offset + m.count
  BY MessageTypes DEF End
<1>2. ASSUME NEW j \in 1 .. Len(m.items)
      PROVE  /\ m.items[j].offset \in Nat /\ m.items[j].count \in Nat
             /\ Inner(m, m.items[j]) = m.items[j].offset - m.offset
             /\ m.offset <= m.items[j].offset /\ m.items[j].offset + m.items[j].count <= End(m)
  <2>1. m.items[j] \in Items /\ m.offset <= m.items[j].offset /\ End(m.items[j]) <= End(m)
    BY MessageTypes DEF Covers
  <2> QED
    BY <2>1, ItemTypes, InnerIs DEF End
<1>3. a \in Nat /\ m.offset <= a /\ a < End(m) /\ End(m) \in Nat
  <2> DEFINE o == m.items[i].offset
             c == m.items[i].count
             e == End(m)
             d == m.offset
  <2>1. o \in Nat /\ c \in Nat /\ d \in Nat /\ e \in Nat /\ d <= o /\ o + c <= e
    BY <1>1, <1>2
  <2>2. a \in o .. (o + c - 1)
    BY DEF RangeOf
  <2> HIDE DEF o, c, e, d
  <2>3. a \in Nat /\ d <= a /\ a < e
    BY <2>1, <2>2
  <2> QED
    BY <2>1, <2>3 DEF d, e
<1>4. a \in RangeOf(m)
  BY <1>1, <1>3 DEF RangeOf
<1>5. r \in 0 .. (BuffSize - 1)
  BY <1>4, BufferOfMessage
<1>6. \A j \in 1 .. Len(m.items) : j \in T <=> a \in RangeOf(m.items[j])
  <2> SUFFICES ASSUME NEW j \in 1 .. Len(m.items)
               PROVE  j \in T <=> a \in RangeOf(m.items[j])
    OBVIOUS
  <2> DEFINE o == m.items[j].offset
             c == m.items[j].count
             d == m.offset
             inner == Inner(m, m.items[j])
  <2>1. j \in T <=> r \in inner .. (inner + c - 1)
    BY <1>1 DEF Covering
  <2>2. o \in Nat /\ c \in Nat /\ d \in Nat /\ a \in Nat /\ d <= o /\ inner = o - d
    BY <1>1, <1>2, <1>3
  <2>3. a \in RangeOf(m.items[j]) <=> a \in o .. (o + c - 1)
    BY DEF RangeOf
  <2>4. r = a - d
    OBVIOUS
  <2> HIDE DEF o, c, d, inner, r, T
  <2>5. r \in inner .. (inner + c - 1) <=> a \in o .. (o + c - 1)
    BY <2>2, <2>4
  <2> QED
    BY <2>1, <2>3, <2>5
<1>7. T \in SUBSET (1 .. Len(m.items)) /\ i \in T
  <2>1. T \in SUBSET (1 .. Len(m.items))
    BY <1>1 DEF Covering
  <2> QED
    BY <1>6, <2>1
<1>8. Max(T) \in T /\ i <= Max(T) /\ Max(T) \in i .. Len(m.items)
  <2> HIDE DEF T
  <2>1. Max(T) \in T /\ Max(T) >= i
    BY <1>1, <1>7, MaxIsGreatest
  <2> DEFINE k == Max(T)
  <2> HIDE DEF k
  <2>2. k \in T /\ k >= i
    BY <2>1 DEF k
  <2>3. k \in 1 .. Len(m.items) /\ i \in 1 .. Len(m.items)
    BY <1>7, <2>2
  <2>4. i <= k /\ k \in i .. Len(m.items)
    BY <1>1, <2>2, <2>3
  <2> QED
    BY <2>2, <2>4 DEF k
<1>9. Prepared(m)[r] = m.items[Max(T)].data
  <2>1. Covering(m, r) # {}
    BY <1>7
  <2> QED
    BY <1>5, <2>1 DEF Prepared
<1> HIDE DEF T
<1>10. Max(T) \in 1 .. Len(m.items)
  BY <1>7, <1>8
<1> QED
  BY <1>6, <1>8, <1>9, <1>10
-----------------------------------------------------------------------------
(* Types                                                                   *)

LEMMA MessageIs ==
  ASSUME NEW m \in Messages, Possible(m)
  PROVE  /\ IsMessage(m)
         /\ m.count <= MaxCount \/ \E i \in DOMAIN m.items : m.items[i].count = m.count
<1>1. RangeOf(m) \subseteq Addresses
  <2>1. m.offset \in Nat /\ m.count \in Nat /\ m.offset + m.count <= Size /\ Size \in Nat
    BY MessageTypes, ViewsAssumption DEF Possible, End
  <2>2. \A a \in m.offset .. (m.offset + m.count - 1) : a \in 0 .. (Size - 1)
    BY <2>1
  <2> QED
    BY <2>2 DEF RangeOf, Addresses
<1> QED
  BY <1>1, MessageTypes DEF IsMessage, Possible

LEMMA TypesAre ==
  ASSUME TInv
  PROVE  TypeOK
<1> USE DEF TInv, Typed, AllPossible
<1>1. /\ DOMAIN readMessages = 1 .. Len(readMessages)
      /\ DOMAIN writeMessages = 1 .. Len(writeMessages)
      /\ DOMAIN itemsToWrite = 1 .. Len(itemsToWrite)
      /\ DOMAIN asked = 1 .. Len(asked)
  BY LenProperties
<1>2. /\ \A i \in 1 .. Len(readMessages) : readMessages[i] \in Messages
      /\ \A i \in 1 .. Len(writeMessages) : writeMessages[i] \in Messages
      /\ \A i \in 1 .. Len(itemsToWrite) : itemsToWrite[i] \in Items
  BY ElementOfSeq
<1>3. /\ \A i \in DOMAIN readMessages : IsMessage(readMessages[i])
      /\ \A i \in DOMAIN writeMessages : IsMessage(writeMessages[i])
  BY <1>1, <1>2, MessageIs
<1>4. state # "PAUSE" => IsMessage(current.message) /\ current.buff \in Buffer
  BY MessageIs
<1>5. \A v \in Views : \E i \in DOMAIN readMessages : HasItem(readMessages[i], v)
  BY <1>1 DEF AllHeld
<1>6. WithinMaxCount
  <2> DEFINE W(m) == m.count <= MaxCount \/ \E i \in DOMAIN m.items : m.items[i].count = m.count
  <2>1. /\ \A i \in 1 .. Len(readMessages) : W(readMessages[i])
        /\ \A i \in 1 .. Len(writeMessages) : W(writeMessages[i])
    BY DEF Possible
  <2> HIDE DEF W
  <2>2. \A m \in {readMessages[i] : i \in DOMAIN readMessages}
                   \cup {writeMessages[i] : i \in DOMAIN writeMessages} : W(m)
    BY <1>1, <2>1
  <2> QED
    BY <2>2 DEF W, WithinMaxCount
<1>7. \A v \in Views : shown[v].good \in BOOLEAN
  OBVIOUS
<1> QED
  BY <1>1, <1>2, <1>3, <1>4, <1>5, <1>6, <1>7 DEF TypeOK

LEMMA ReadItems ==
  ASSUME NEW v \in Views
  PROVE  ReadItem(v) \in Items
BY DEF Items

LEMMA WriteItems ==
  ASSUME NEW v \in Writable, NEW n \in 1 .. MaxWrites
  PROVE  WriteItem(v, n) \in Items /\ WriteItem(v, n).data = n
BY ViewsAssumption DEF Items, WriteItem

\* The messages to read of an order of the items.
LEMMA InitMessages ==
  ASSUME NEW order \in [1 .. Cardinality(Views) -> Views], Range(order) = Views
  PROVE  LET items == [i \in DOMAIN order |-> ReadItem(order[i])]
         IN  /\ items \in Seq(Items)
             /\ \A k \in 1 .. Len(items) : IsRead(items[k])
             /\ AllAre(AddItems(<< >>, items))
             /\ \A y : Holds(AddItems(<< >>, items), y) <=> \E k \in 1 .. Len(items) : items[k] = y
             /\ \A v \in Views : Holds(AddItems(<< >>, items), ReadItem(v))
<1> DEFINE N == Cardinality(Views)
           items == [i \in DOMAIN order |-> ReadItem(order[i])]
<1>1. N \in Nat
  BY ViewsAssumption, FS_CardinalityType
<1>2. DOMAIN order = 1 .. N /\ items = [i \in 1 .. N |-> ReadItem(order[i])]
  OBVIOUS
<1>3. \A i \in 1 .. N : order[i] \in Views /\ ReadItem(order[i]) \in Items
  BY ReadItems
<1> HIDE DEF N
<1>4. items \in Seq(Items) /\ Len(items) = N
  <2>1. items \in [1 .. N -> Items]
    BY <1>2, <1>3
  <2> HIDE DEF items
  <2> QED
    BY <1>1, <2>1, SeqDef, LenProperties
<1>5. \A k \in 1 .. N : items[k] = ReadItem(order[k])
  BY <1>2
<1>6. \A v \in Views : \E k \in 1 .. N : order[k] = v
  BY <1>2 DEF Range
<1> HIDE DEF items
<1>7. AllAre(<< >>) /\ \A y : ~Holds(<< >>, y)
  BY DEF AllAre, Holds
<1>8. /\ AllAre(AddItems(<< >>, items))
      /\ \A y : Holds(AddItems(<< >>, items), y) <=> \E k \in 1 .. Len(items) : items[k] = y
  BY <1>4, <1>7, AddItemsKeepPossible
<1>9. \A v \in Views : Holds(AddItems(<< >>, items), ReadItem(v))
  BY <1>4, <1>5, <1>6, <1>8
<1>10. \A k \in 1 .. Len(items) : IsRead(items[k])
  BY <1>3, <1>4, <1>5 DEF IsRead
<1> QED
  BY <1>4, <1>8, <1>9, <1>10 DEF items

\* Whose items are in the messages to read.
LEMMA HeldIs ==
  ASSUME readMessages \in Seq(Messages)
  PROVE  AllHeld <=> \A v \in Views : Holds(readMessages, ReadItem(v))
<1>1. \A i \in 1 .. Len(readMessages) : DOMAIN readMessages[i].items = 1 .. Len(readMessages[i].items)
  BY ElementOfSeq, MessageTypes
<1> QED
  BY <1>1 DEF AllHeld, HasItem, Holds

LEMMA InitTypes ==
  ASSUME Init
  PROVE  TInv
<1> USE DEF Init
<1>1. PICK order \in [1 .. Cardinality(Views) -> Views] :
         /\ Range(order) = Views
         /\ readMessages = AddItems(<< >>, [i \in DOMAIN order |-> ReadItem(order[i])])
  OBVIOUS
<1>2. AllAre(readMessages) /\ \A v \in Views : Holds(readMessages, ReadItem(v))
  BY <1>1, InitMessages
<1>3. readMessages \in Seq(Messages) /\ \A i \in 1 .. Len(readMessages) : Possible(readMessages[i])
  BY <1>2 DEF AllAre
<1>4. 0 \in 0 .. MaxWrites /\ MaxWrites \in Nat
  BY ViewsAssumption
<1>5. memory \in [Addresses -> 0 .. MaxWrites]
  BY <1>4
<1>6. \A v \in Views : /\ shown[v].data \in [1 .. v.count -> 0 .. MaxWrites]
                       /\ shown[v] \in [good : BOOLEAN, data : Data]
  <2> TAKE v \in Views
  <2>1. [r \in 1 .. v.count |-> 0] \in [1 .. v.count -> 0 .. MaxWrites]
    BY <1>4
  <2>2. [1 .. v.count -> 0 .. MaxWrites] \subseteq Data
    BY DEF Data
  <2>3. shown[v] = [good |-> FALSE, data |-> [r \in 1 .. v.count |-> 0]]
    OBVIOUS
  <2> QED
    BY <2>1, <2>2, <2>3
<1>7. shown \in [Views -> [good : BOOLEAN, data : Data]]
  BY <1>6
<1>8. /\ itemsToWrite \in Seq(Items) /\ writeMessages \in Seq(Messages) /\ asked \in Seq(Items)
      /\ Len(asked) = 0 /\ Len(itemsToWrite) = 0 /\ Len(writeMessages) = 0 /\ lost = {}
  OBVIOUS
<1>9. Typed
  BY <1>3, <1>4, <1>5, <1>6, <1>7, <1>8 DEF Typed
<1>10. AllPossible /\ AllAsked
  BY <1>3, <1>8 DEF AllPossible, AllAsked
<1>11. AllHeld
  BY <1>2, <1>3, HeldIs
<1> QED
  BY <1>9, <1>10, <1>11 DEF TInv

\* Edits stay what they are.
LEMMA EditsStay ==
  ASSUME NEW edits \in Seq(Items), NEW e \in Items, NEW x, IsEdit(edits, x)
  PROVE  IsEdit(Append(edits, e), x)
<1>1. /\ Len(edits) \in Nat /\ Len(Append(edits, e)) = Len(edits) + 1
      /\ \A n \in 1 .. Len(edits) : Append(edits, e)[n] = edits[n]
  BY AppendProperties
<1> QED
  BY <1>1 DEF IsEdit

LEMMA EditTypes ==
  ASSUME TInv, NEW v \in Writable, Edit(v)
  PROVE  TInv'
<1> DEFINE e == WriteItem(v, Len(asked) + 1)
<1>1. /\ Len(asked) < MaxWrites
      /\ asked' = Append(asked, e) /\ itemsToWrite' = Append(itemsToWrite, e)
      /\ UNCHANGED <<memory, readMessages, writeMessages, state, current, answer, shown, lost>>
  BY DEF Edit
<1>2. /\ asked \in Seq(Items) /\ itemsToWrite \in Seq(Items) /\ lost \subseteq 1 .. Len(asked)
      /\ Len(asked) \in Nat /\ Len(itemsToWrite) \in Nat /\ MaxWrites \in Nat
  BY LenProperties, ViewsAssumption DEF TInv, Typed
<1>3. e \in Items /\ e.data = Len(asked) + 1
  BY <1>1, <1>2, WriteItems
<1> HIDE DEF e
<1>4. /\ asked' \in Seq(Items) /\ Len(asked') = Len(asked) + 1 /\ asked'[Len(asked) + 1] = e
      /\ itemsToWrite' \in Seq(Items) /\ Len(itemsToWrite') = Len(itemsToWrite) + 1
      /\ \A i \in 1 .. Len(itemsToWrite) : itemsToWrite'[i] = itemsToWrite[i]
      /\ itemsToWrite'[Len(itemsToWrite) + 1] = e
  BY <1>1, <1>2, <1>3, AppendProperties
<1>5. Typed'
  <2>1. Len(asked') <= MaxWrites /\ lost' \subseteq 1 .. Len(asked')
    BY <1>1, <1>2, <1>4
  <2> QED
    BY <1>1, <1>4, <2>1 DEF TInv, Typed
<1>6. AllPossible' /\ AllHeld'
  BY <1>1 DEF TInv, AllPossible, AllHeld
<1>7. \A x : IsEdit(asked, x) => IsEdit(asked', x)
  BY <1>1, <1>2, <1>3, EditsStay
<1>8. IsEdit(asked', e)
  BY <1>2, <1>3, <1>4 DEF IsEdit
<1>9. AllAsked'
  <2>1. ASSUME NEW i \in 1 .. Len(itemsToWrite')
        PROVE  IsEdit(asked', itemsToWrite'[i])
    <3>1. CASE i \in 1 .. Len(itemsToWrite)
      <4>1. IsEdit(asked, itemsToWrite[i]) /\ itemsToWrite'[i] = itemsToWrite[i]
        BY <1>4, <3>1 DEF TInv, AllAsked
      <4> QED
        BY <1>7, <4>1
    <3>2. CASE i = Len(itemsToWrite) + 1
      BY <1>4, <1>8, <3>2
    <3> QED
      BY <1>2, <1>4, <3>1, <3>2
  <2>2. /\ \A i \in 1 .. Len(writeMessages) :
             \A j \in 1 .. Len(writeMessages[i].items) : IsEdit(asked', writeMessages[i].items[j])
        /\ state = "EXEC_WRITE" =>
             \A j \in 1 .. Len(current.message.items) : IsEdit(asked', current.message.items[j])
    BY <1>7 DEF TInv, AllAsked
  <2> QED
    BY <1>1, <2>1, <2>2 DEF AllAsked
<1> QED
  BY <1>5, <1>6, <1>9 DEF TInv

\* The messages to write after the waiting items are put in them.
LEMMA Queue ==
  ASSUME TInv
  PROVE  /\ AllAre(CreateWriteMessage)
         /\ \A y : Holds(CreateWriteMessage, y)
                     <=> (Holds(writeMessages, y) \/ \E k \in 1 .. Len(itemsToWrite) : itemsToWrite[k] = y)
         /\ \A y : Holds(CreateWriteMessage, y) => IsEdit(asked, y)
<1>1. AllAre(writeMessages) /\ itemsToWrite \in Seq(Items)
  BY DEF TInv, Typed, AllPossible, AllAre
<1>2. /\ AllAre(CreateWriteMessage)
      /\ \A y : Holds(CreateWriteMessage, y)
                     <=> (Holds(writeMessages, y) \/ \E k \in 1 .. Len(itemsToWrite) : itemsToWrite[k] = y)
  BY <1>1, AddItemsKeepPossible DEF CreateWriteMessage
<1>3. ASSUME NEW y, Holds(writeMessages, y) \/ \E k \in 1 .. Len(itemsToWrite) : itemsToWrite[k] = y
      PROVE  IsEdit(asked, y)
  BY <1>3 DEF TInv, AllAsked, Holds
<1> QED
  BY <1>2, <1>3

\* The messages stay the same, in another order.
LEMMA ToBackIs ==
  ASSUME NEW S, NEW q \in Seq(S), NEW i \in 1 .. Len(q)
  PROVE  /\ ToBack(q, i) \in Seq(S) /\ Len(ToBack(q, i)) = Len(q)
         /\ \A j \in 1 .. Len(q) : \E k \in 1 .. Len(q) : ToBack(q, i)[j] = q[k]
         /\ \A k \in 1 .. Len(q) : \E j \in 1 .. Len(q) : ToBack(q, i)[j] = q[k]
<1> DEFINE N == Len(q)
           r == ToBack(q, i)
<1>1. N \in Nat /\ DOMAIN q = 1 .. N /\ \A j \in 1 .. N : q[j] \in S
  BY LenProperties, ElementOfSeq
<1>2. r = [j \in 1 .. N |-> IF j < i THEN q[j] ELSE IF j < N THEN q[j + 1] ELSE q[i]]
  BY <1>1 DEF ToBack
<1> HIDE DEF N, r
<1>3. i \in 1 .. N
  BY DEF N
<1>4. /\ DOMAIN r = 1 .. N
      /\ \A j \in 1 .. N : r[j] = IF j < i THEN q[j] ELSE IF j < N THEN q[j + 1] ELSE q[i]
  BY <1>2
<1>5. ASSUME NEW j \in 1 .. N
      PROVE  \E k \in 1 .. N : r[j] = q[k]
  <2>1. j < N => j + 1 \in 1 .. N
    BY <1>1
  <2> QED
    BY <1>3, <1>4, <2>1
<1>6. ASSUME NEW k \in 1 .. N
      PROVE  \E j \in 1 .. N : r[j] = q[k]
  <2>1. CASE k < i
    BY <1>4, <2>1
  <2>2. CASE k = i
    <3>1. N \in 1 .. N /\ ~(N < i) /\ ~(N < N)
      BY <1>1, <1>3
    <3> QED
      BY <1>4, <2>2, <3>1
  <2>3. CASE k > i
    <3>1. k - 1 \in 1 .. N /\ ~(k - 1 < i) /\ k - 1 < N /\ (k - 1) + 1 = k
      BY <1>1, <1>3, <2>3
    <3>2. r[k - 1] = q[k]
      BY <1>4, <3>1
    <3> QED
      BY <3>1, <3>2
  <2> QED
    BY <1>1, <1>3, <2>1, <2>2, <2>3
<1>7. r \in Seq(S) /\ Len(r) = N
  <2>1. \A j \in 1 .. N : r[j] \in S
    BY <1>1, <1>5
  <2>2. r \in [1 .. N -> S]
    BY <1>2, <1>4, <2>1
  <2> QED
    BY <1>1, <2>2, SeqDef, LenProperties
<1> QED
  BY <1>5, <1>6, <1>7 DEF N, r

LEMMA RunTypes ==
  ASSUME TInv, Run
  PROVE  TInv'
<1> DEFINE queue == CreateWriteMessage
<1>1. /\ AllAre(queue)
      /\ \A y : Holds(queue, y) => IsEdit(asked, y)
  BY Queue
<1>2. /\ StartWrite(queue) \/ StartRead(queue) \/ Wait(queue)
      /\ itemsToWrite' = << >>
      /\ UNCHANGED <<memory, answer, shown, asked, lost>>
  BY DEF Run
<1> HIDE DEF queue
<1>3. /\ queue \in Seq(Messages) /\ Len(queue) \in Nat
      /\ \A i \in 1 .. Len(queue) : queue[i] \in Messages /\ Possible(queue[i])
      /\ \A i \in 1 .. Len(queue) : \A j \in 1 .. Len(queue[i].items) : IsEdit(asked, queue[i].items[j])
  BY <1>1, LenProperties, ElementOfSeq DEF AllAre, Holds
<1>4. itemsToWrite' \in Seq(Items) /\ Len(itemsToWrite') = 0
  BY <1>2
<1>5. readMessages \in Seq(Messages) /\ Len(readMessages) \in Nat /\ DOMAIN readMessages = 1 .. Len(readMessages)
  BY LenProperties DEF TInv, Typed
<1>6. CASE StartWrite(queue)
  <2>1. /\ state = "PAUSE" /\ queue # << >> /\ state' = "EXEC_WRITE"
        /\ current' = [message |-> Head(queue), buff |-> Prepared(Head(queue))]
        /\ writeMessages' = Tail(queue) /\ readMessages' = readMessages
    BY <1>6 DEF StartWrite
  <2>2. /\ 1 \in 1 .. Len(queue) /\ Head(queue) = queue[1]
        /\ Tail(queue) \in Seq(Messages) /\ Len(Tail(queue)) = Len(queue) - 1
        /\ \A i \in 1 .. Len(Tail(queue)) : i + 1 \in 1 .. Len(queue) /\ Tail(queue)[i] = queue[i + 1]
    BY <1>3, <2>1, HeadTailProperties, EmptySeq
  <2>3. /\ current'.message = queue[1] /\ current'.buff = Prepared(queue[1])
        /\ current' \in [message : Messages, buff : Buffer]
    BY <1>3, <2>1, <2>2, PreparedFits
  <2>4. answer' = None
    BY <1>2, <2>1 DEF TInv, Typed
  <2>5. Typed'
    BY <1>2, <1>4, <1>5, <2>1, <2>2, <2>3 DEF TInv, Typed
  <2>6. AllPossible'
    BY <1>3, <2>1, <2>2, <2>3 DEF TInv, AllPossible
  <2>7. AllAsked'
    BY <1>2, <1>3, <1>4, <2>1, <2>2, <2>3 DEF AllAsked
  <2> QED
    BY <2>1, <2>5, <2>6, <2>7 DEF TInv, AllHeld
<1>7. CASE StartRead(queue)
  <2> DEFINE zero == [r \in 0 .. BuffSize - 1 |-> 0]
  <2>1. PICK i \in 1 .. Len(readMessages) :
            /\ current' = [message |-> readMessages[i], buff |-> zero]
            /\ readMessages' = ToBack(readMessages, i)
    BY <1>5, <1>7 DEF StartRead
  <2>2. state = "PAUSE" /\ state' = "EXEC_READ" /\ writeMessages' = queue
    BY <1>7 DEF StartRead
  <2>3. /\ readMessages' \in Seq(Messages) /\ Len(readMessages') = Len(readMessages)
        /\ \A j \in 1 .. Len(readMessages) : \E k \in 1 .. Len(readMessages) : readMessages'[j] = readMessages[k]
        /\ \A k \in 1 .. Len(readMessages) : \E j \in 1 .. Len(readMessages) : readMessages'[j] = readMessages[k]
    <3> DEFINE q == readMessages
               r == ToBack(q, i)
    <3>1. q \in Seq(Messages) /\ i \in 1 .. Len(q)
      BY <1>5
    <3>2. /\ r \in Seq(Messages) /\ Len(r) = Len(q)
          /\ \A j \in 1 .. Len(q) : \E k \in 1 .. Len(q) : r[j] = q[k]
          /\ \A k \in 1 .. Len(q) : \E j \in 1 .. Len(q) : r[j] = q[k]
      BY <3>1, ToBackIs
    <3>3. readMessages' = r
      BY <2>1
    <3> HIDE DEF r
    <3> QED
      BY <3>2, <3>3
  <2>4. readMessages[i] \in Messages /\ zero \in Buffer
    <3>1. 0 \in 0 .. MaxWrites
      BY ViewsAssumption
    <3> QED
      BY <1>5, <3>1, ElementOfSeq DEF Buffer
  <2> HIDE DEF zero
  <2>5. /\ current'.message = readMessages[i]
        /\ current' \in [message : Messages, buff : Buffer]
    BY <2>1, <2>4
  <2>6. Typed'
    BY <1>2, <1>3, <1>4, <2>2, <2>3, <2>5 DEF TInv, Typed
  <2>7. AllPossible'
    <3>1. \A j \in 1 .. Len(readMessages') : Possible(readMessages'[j])
      BY <2>3 DEF TInv, AllPossible
    <3> QED
      BY <1>3, <2>2, <2>5, <3>1 DEF TInv, AllPossible
  <2>8. AllAsked'
    BY <1>2, <1>3, <1>4, <2>2 DEF AllAsked
  <2>9. AllHeld'
    <3>1. \A v \in Views : \E k \in 1 .. Len(readMessages) : HasItem(readMessages[k], v)
      BY DEF TInv, AllHeld
    <3>2. \A v \in Views : \E j \in 1 .. Len(readMessages') : HasItem(readMessages'[j], v)
      BY <2>3, <3>1
    <3> QED
      BY <3>2 DEF AllHeld
  <2> QED
    BY <2>6, <2>7, <2>8, <2>9 DEF TInv
<1>8. CASE Wait(queue)
  <2>1. writeMessages' = queue /\ UNCHANGED <<readMessages, state, current>>
    BY <1>8 DEF Wait
  <2>2. Typed'
    BY <1>2, <1>3, <1>4, <2>1 DEF TInv, Typed
  <2>3. AllPossible'
    BY <1>3, <2>1 DEF TInv, AllPossible
  <2>4. AllAsked'
    BY <1>2, <1>3, <1>4, <2>1 DEF TInv, AllAsked
  <2> QED
    BY <2>1, <2>2, <2>3, <2>4 DEF TInv, AllHeld
<1> QED
  BY <1>2, <1>6, <1>7, <1>8

LEMMA CarryTypes ==
  ASSUME FitsBuffer, TInv, Carry \/ Miss
  PROVE  TInv'
<1>1. /\ state # "PAUSE" /\ answer = None
      /\ answer' = memory' \/ answer' = Failed
      /\ UNCHANGED <<itemsToWrite, readMessages, writeMessages, state, current, shown, asked, lost>>
  BY DEF Carry, Miss
<1>2. memory' \in [Addresses -> 0 .. MaxWrites]
  <2>1. CASE memory' = memory
    BY <2>1 DEF TInv, Typed
  <2>2. CASE memory' = [a \in Addresses |-> IF a \in RangeOf(current.message)
                           THEN current.buff[a - current.message.offset] ELSE memory[a]]
    <3>1. /\ current.message \in Messages /\ current.buff \in [0 .. BuffSize - 1 -> 0 .. MaxWrites]
          /\ Possible(current.message)
      BY <1>1 DEF TInv, Typed, AllPossible, Buffer
    <3>2. \A a \in RangeOf(current.message) : current.buff[a - current.message.offset] \in 0 .. MaxWrites
      BY <3>1, BufferOfMessage
    <3> QED
      BY <2>2, <3>2 DEF TInv, Typed
  <2> QED
    BY <2>1, <2>2 DEF Carry, Miss
<1>3. Typed'
  BY <1>1, <1>2 DEF TInv, Typed
<1> QED
  BY <1>1, <1>3 DEF TInv, AllPossible, AllHeld, AllAsked

LEMMA FinishTypes ==
  ASSUME TInv, Finish
  PROVE  TInv'
<1>1. /\ answer # None /\ (FinishRead \/ FinishWrite)
      /\ state' = "PAUSE" /\ current' = None /\ answer' = None
      /\ UNCHANGED <<memory, itemsToWrite, readMessages, writeMessages, asked>>
  BY DEF Finish
<1> DEFINE m == current.message
<1>2. state # "PAUSE" /\ m \in Messages /\ current.buff \in Buffer /\ Possible(m)
  BY <1>1 DEF TInv, Typed, AllPossible
<1>3. lost' \subseteq 1 .. Len(asked)
  <2>1. CASE FinishRead
    BY <2>1 DEF FinishRead, TInv, Typed
  <2>2. CASE FinishWrite
    <3>1. state = "EXEC_WRITE" /\ (lost' = lost \/ lost' = lost \cup Numbers(m.items))
      BY <2>2 DEF FinishWrite
    <3>2. Numbers(m.items) \subseteq 1 .. Len(asked)
      BY <1>2, <3>1, MessageTypes DEF Numbers, TInv, AllAsked, IsEdit
    <3> QED
      BY <3>1, <3>2 DEF TInv, Typed
  <2> QED
    BY <1>1, <2>1, <2>2
<1>4. /\ shown' \in [Views -> [good : BOOLEAN, data : Data]]
      /\ \A v \in Views : shown'[v].data \in [1 .. v.count -> 0 .. MaxWrites]
  <2>1. CASE FinishRead
    <3> DEFINE buff == [r \in DOMAIN current.buff |->
                          IF r < m.count THEN answer[m.offset + r] ELSE current.buff[r]]
               next(v) == IF ~HasItem(m, v) THEN shown[v]
                          ELSE IF answer = Failed THEN Bad(shown[v])
                          ELSE Shows(m, buff, ReadItem(v), shown[v])
    <3>1. shown' = [v \in Views |-> next(v)]
      BY <2>1 DEF FinishRead
    <3>2. answer # Failed => buff \in Buffer
      <4>1. answer # Failed => answer \in [Addresses -> 0 .. MaxWrites]
        BY <1>1 DEF TInv, Typed
      <4>2. DOMAIN current.buff = 0 .. (BuffSize - 1) /\ \A r \in 0 .. (BuffSize - 1) : current.buff[r] \in 0 .. MaxWrites
        BY <1>2 DEF Buffer
      <4>3. \A r \in 0 .. (BuffSize - 1) : r < m.count => m.offset + r \in Addresses
        <5>1. /\ m.offset \in Nat /\ m.count \in Nat /\ m.offset + m.count <= Size /\ Size \in Nat
              /\ BuffSize \in Nat
          BY <1>2, MessageTypes, ViewsAssumption DEF Possible, End
        <5> HIDE DEF m
        <5> QED
          BY <5>1 DEF Addresses
      <4> HIDE DEF m
      <4> QED
        BY <4>1, <4>2, <4>3 DEF Buffer
    <3>3. ASSUME NEW v \in Views
          PROVE  next(v) \in [good : BOOLEAN, data : [1 .. v.count -> 0 .. MaxWrites]]
      <4> DEFINE x == ReadItem(v)
                 old == shown[v]
      <4>1. old \in [good : BOOLEAN, data : [1 .. v.count -> 0 .. MaxWrites]]
        <5>1. old \in [good : BOOLEAN, data : Data] /\ old.data \in [1 .. v.count -> 0 .. MaxWrites]
          BY DEF TInv, Typed
        <5> HIDE DEF old
        <5> QED
          BY <5>1
      <4>2. x.count = v.count /\ v.count \in Nat /\ Inner(m, x) \in Nat
        <5>1. x.count = v.count /\ x \in Items /\ v.count \in Nat
          BY ReadItems, ViewsAssumption DEF ReadItem
        <5>2. x.offset \in Nat /\ m.offset \in Nat /\ Size \in Nat /\ m.offset <= Size /\ Size > 0
          <6>1. /\ x.offset \in Nat /\ x.count \in Nat \ {0} /\ x.offset + x.count <= Size
                /\ m.offset \in Nat /\ m.count \in Nat /\ m.offset + m.count <= Size /\ Size \in Nat
            BY <1>2, <5>1, ItemTypes, MessageTypes, ViewsAssumption DEF End, Possible
          <6> HIDE DEF x, m
          <6> QED
            BY <6>1
        <5>3. x.offset + Size - m.offset \in Nat
          <6> HIDE DEF x, m
          <6> QED
            BY <5>2
        <5>4. \A a, b \in Nat : b > 0 => a % b \in Nat
          OBVIOUS
        <5> HIDE DEF x, m
        <5> QED
          BY <5>1, <5>2, <5>3, <5>4 DEF Inner
      <4> DEFINE d == Inner(m, x)
                 data == [r \in 1 .. x.count |-> IF d + r - 1 < BuffSize THEN buff[d + r - 1] ELSE old.data[r]]
      <4>3. next(v) = old \/ next(v) = Bad(old)
              \/ (answer # Failed /\ next(v) = [good |-> TRUE, data |-> data])
        BY DEF Shows
      <4>4. answer # Failed => data \in [1 .. v.count -> 0 .. MaxWrites]
        <5> HIDE DEF buff, d, x, old, next
        <5>1. BuffSize \in Nat
          BY ViewsAssumption
        <5>2. d \in Nat
          BY <4>2 DEF d
        <5>3. \A r \in 1 .. v.count : d + r - 1 < BuffSize => d + r - 1 \in 0 .. (BuffSize - 1)
          BY <4>2, <5>1, <5>2
        <5> QED
          BY <3>2, <4>1, <4>2, <5>3 DEF Buffer
      <4> HIDE DEF next, data, old
      <4>5. Bad(old) \in [good : BOOLEAN, data : [1 .. v.count -> 0 .. MaxWrites]]
        <5> DEFINE S == [1 .. v.count -> 0 .. MaxWrites]
        <5>1. old = [good |-> old.good, data |-> old.data] /\ old.data \in S
          BY <4>1
        <5>2. Bad(old) = [good |-> FALSE, data |-> old.data]
          BY DEF Bad
        <5> HIDE DEF S
        <5>3. [good |-> FALSE, data |-> old.data] \in [good : BOOLEAN, data : S]
          BY <5>1
        <5> QED
          BY <5>2, <5>3 DEF S
      <4>6. answer # Failed =>
              [good |-> TRUE, data |-> data] \in [good : BOOLEAN, data : [1 .. v.count -> 0 .. MaxWrites]]
        BY <4>4
      <4> QED
        BY <4>1, <4>3, <4>5, <4>6, Zenon
    <3> HIDE DEF next
    <3>4. \A v \in Views : [1 .. v.count -> 0 .. MaxWrites] \subseteq Data
      BY DEF Data
    <3>5. \A v \in Views : next(v) \in [good : BOOLEAN, data : Data]
      BY <3>3, <3>4
    <3> QED
      BY <3>1, <3>3, <3>5
  <2>2. CASE FinishWrite
    BY <2>2 DEF FinishWrite, TInv, Typed
  <2> QED
    BY <1>1, <2>1, <2>2
<1>5. Typed'
  BY <1>1, <1>3, <1>4 DEF TInv, Typed
<1> QED
  BY <1>1, <1>5 DEF TInv, AllPossible, AllHeld, AllAsked

LEMMA TypesStay ==
  ASSUME FitsBuffer, TInv, [Next]_vars
  PROVE  TInv'
<1>1. CASE UNCHANGED vars
  BY <1>1 DEF vars, TInv, Typed, AllPossible, AllHeld, AllAsked
<1> QED
  BY <1>1, EditTypes, RunTypes, CarryTypes, FinishTypes DEF Next

\* The types are kept, and every item to read stays in a message, if a message
\* fits in the buffer.
THEOREM TypeCorrect ==
  ASSUME FitsBuffer
  PROVE  Spec => []TypeOK
<1>1. Spec => []TInv
  BY InitTypes, TypesStay, PTL DEF Spec
<1>2. TInv => TypeOK
  BY TypesAre
<1> QED
  BY <1>1, <1>2, PTL

-----------------------------------------------------------------------------
(* What is shown                                                           *)

LEMMA ReadsLieApart ==
  ASSUME BelowTop, NoneReachesOver, NEW x, IsRead(x), NEW y, IsRead(y)
  PROVE  End(x) < Size /\ Beside(x, y)
<1>1. PICK v \in Views : x = ReadItem(v)
  BY DEF IsRead
<1>2. PICK w \in Views : y = ReadItem(w)
  BY DEF IsRead
<1>3. /\ x.offset = v.offset /\ x.period = v.period /\ End(x) = End(v)
      /\ y.offset = w.offset /\ y.period = w.period /\ End(y) = End(w)
  BY <1>1, <1>2 DEF ReadItem, End
<1>4. End(v) < Size /\ (v.period = w.period /\ v.offset < w.offset => End(v) <= End(w))
  BY DEF BelowTop, NoneReachesOver
<1> QED
  BY <1>3, <1>4 DEF Beside

LEMMA InitReads ==
  ASSUME BelowTop, NoneReachesOver, Init
  PROVE  RInv
<1>1. PICK order \in [1 .. Cardinality(Views) -> Views] :
         /\ Range(order) = Views
         /\ readMessages = AddItems(<< >>, [i \in DOMAIN order |-> ReadItem(order[i])])
  BY DEF Init
<1> DEFINE items == [i \in DOMAIN order |-> ReadItem(order[i])]
<1>2. /\ items \in Seq(Items) /\ \A k \in 1 .. Len(items) : IsRead(items[k])
      /\ \A y : Holds(readMessages, y) <=> \E k \in 1 .. Len(items) : items[k] = y
  BY <1>1, InitMessages
<1>3. readMessages = AddItems(<< >>, items)
  BY <1>1
<1> HIDE DEF items
<1>4. AllAre(<< >>) /\ AllCover(<< >>) /\ \A y : ~Holds(<< >>, y)
  BY DEF AllAre, AllCover, Holds
<1>5. /\ \A k \in 1 .. Len(items) : End(items[k]) < Size
      /\ \A k, l \in 1 .. Len(items) : Beside(items[k], items[l])
  BY <1>2, ReadsLieApart
<1>6. AllCover(readMessages)
  BY <1>2, <1>3, <1>4, <1>5, AddItemsKeepCovers
<1>7. \A i \in 1 .. Len(readMessages) : \A j \in 1 .. Len(readMessages[i].items) :
          IsRead(readMessages[i].items[j])
  BY <1>2 DEF Holds
<1>8. state # "EXEC_READ"
  BY DEF Init
<1> QED
  BY <1>6, <1>7, <1>8 DEF RInv, IsReadMessage, AllCover

LEMMA ReadsStay ==
  ASSUME TInv, RInv, [Next]_vars
  PROVE  RInv'
<1>1. readMessages \in Seq(Messages) /\ Len(readMessages) \in Nat /\ DOMAIN readMessages = 1 .. Len(readMessages)
  BY LenProperties DEF TInv, Typed
<1>2. CASE UNCHANGED <<readMessages, state, current>>
  BY <1>2 DEF RInv
<1>3. CASE state' # "EXEC_READ" /\ readMessages' = readMessages
  BY <1>3 DEF RInv
<1>4. CASE \E i \in DOMAIN readMessages :
              /\ current' = [message |-> readMessages[i], buff |-> [r \in 0 .. BuffSize - 1 |-> 0]]
              /\ readMessages' = ToBack(readMessages, i)
  <2>1. PICK i \in 1 .. Len(readMessages) :
            /\ current'.message = readMessages[i]
            /\ readMessages' = ToBack(readMessages, i)
    BY <1>1, <1>4
  <2>2. /\ Len(readMessages') = Len(readMessages)
        /\ \A j \in 1 .. Len(readMessages) : \E k \in 1 .. Len(readMessages) : readMessages'[j] = readMessages[k]
    BY <1>1, <2>1, ToBackIs
  <2>3. \A j \in 1 .. Len(readMessages) : IsReadMessage(readMessages[j])
    BY DEF RInv
  <2> QED
    BY <2>1, <2>2, <2>3 DEF RInv
<1>5. ASSUME NEW queue, StartWrite(queue) \/ StartRead(queue) \/ Wait(queue)
      PROVE  RInv'
  <2>1. StartWrite(queue) => state' # "EXEC_READ" /\ readMessages' = readMessages
    BY DEF StartWrite
  <2> QED
    BY <1>2, <1>3, <1>4, <1>5, <2>1 DEF StartRead, Wait
<1>6. Run => RInv'
  BY <1>5 DEF Run
<1>7. Finish => state' # "EXEC_READ" /\ readMessages' = readMessages
  BY DEF Finish
<1>8. (\E v \in Writable : Edit(v)) \/ Carry \/ Miss => UNCHANGED <<readMessages, state, current>>
  BY DEF Edit, Carry, Miss
<1> QED
  BY <1>2, <1>3, <1>6, <1>7, <1>8 DEF Next, vars

\* What an item takes of the answer is what the device held at its addresses.
LEMMA TakesItsOwn ==
  ASSUME FitsBuffer, TInv, RInv, FinishRead, answer # None, answer # Failed,
         NEW v \in Views, HasItem(current.message, v)
  PROVE  shown'[v].data = [r \in 1 .. v.count |-> answer[v.offset + r - 1]]
<1> DEFINE m == current.message
           x == ReadItem(v)
           buff == [r \in DOMAIN current.buff |->
                      IF r < m.count THEN answer[m.offset + r] ELSE current.buff[r]]
           d == v.offset - m.offset
<1>1. state = "EXEC_READ" /\ shown'[v] = Shows(m, buff, x, shown[v])
  BY DEF FinishRead
<1>2. /\ m \in Messages /\ Possible(m) /\ Covers(m)
      /\ DOMAIN current.buff = 0 .. (BuffSize - 1)
  BY <1>1 DEF TInv, Typed, AllPossible, Buffer, RInv, IsReadMessage
<1>3. x \in Items /\ x.offset = v.offset /\ x.count = v.count
  BY ReadItems DEF ReadItem
<1>4. v.offset \in Nat /\ v.count \in Nat \ {0} /\ m.offset \in Nat /\ m.count \in Nat
      /\ m.count <= BuffSize /\ BuffSize \in Nat
  BY <1>2, MessageTypes, BufferOfMessage, ViewsAssumption
<1>5. m.offset <= v.offset /\ v.offset + v.count <= m.offset + m.count
  <2>1. PICK i \in 1 .. Len(m.items) : m.items[i] = x
    BY <1>2, MessageTypes DEF HasItem
  <2> QED
    BY <1>2, <1>3, <2>1 DEF Covers, End
<1>6. Inner(m, x) = d
  BY <1>2, <1>3, <1>5, InnerIs
<1> HIDE DEF m, x, buff
<1>7. d \in Nat /\ d < BuffSize
      /\ \A r \in 1 .. v.count : /\ d + r - 1 \in 0 .. (BuffSize - 1) /\ d + r - 1 < BuffSize
                                 /\ d + r - 1 < m.count
                                 /\ m.offset + (d + r - 1) = v.offset + r - 1
  BY <1>4, <1>5
<1>8. \A r \in 1 .. v.count : buff[d + r - 1] = answer[v.offset + r - 1]
  BY <1>2, <1>7 DEF buff
<1>9. shown'[v].data = [r \in 1 .. v.count |-> IF d + r - 1 < BuffSize THEN buff[d + r - 1] ELSE shown[v].data[r]]
  <2>1. ~(d >= BuffSize)
    BY <1>4, <1>7
  <2> HIDE DEF d
  <2> QED
    BY <1>1, <1>3, <1>6, <2>1 DEF Shows
<1> HIDE DEF d
<1> QED
  BY <1>7, <1>8, <1>9

\* What an item shows as good is what the device held at the item's own
\* addresses, if a message fits in the buffer, no item ends with the last
\* address and none reaches over another of its period.
THEOREM ShownWasRead ==
  ASSUME FitsBuffer, BelowTop, NoneReachesOver
  PROVE  Spec => ShownIsRead
<1> DEFINE Step == \A v \in Views : shown'[v] # shown[v] /\ shown'[v].good
                      => shown'[v].data = [r \in 1 .. v.count |-> answer[v.offset + r - 1]]
<1>1. TInv /\ RInv /\ [Next]_vars => [Step]_vars
  <2> SUFFICES ASSUME TInv, RInv, Next
               PROVE  Step
    OBVIOUS
  <2> SUFFICES ASSUME NEW v \in Views, shown'[v] # shown[v], shown'[v].good
               PROVE  shown'[v].data = [r \in 1 .. v.count |-> answer[v.offset + r - 1]]
    OBVIOUS
  <2>1. answer # None /\ FinishRead
    BY DEF Next, Edit, Run, Carry, Miss, Finish, FinishWrite
  <2>2. HasItem(current.message, v) /\ answer # Failed
    <3>1. HasItem(current.message, v)
      BY <2>1 DEF FinishRead
    <3>2. CASE answer = Failed
      BY <2>1, <3>1, <3>2 DEF FinishRead, Bad
    <3> QED
      BY <3>1, <3>2
  <2> QED
    BY <2>1, <2>2, TakesItsOwn
<1>2. Init => TInv /\ RInv
  BY InitTypes, InitReads
<1>3. TInv /\ RInv /\ [Next]_vars => (TInv /\ RInv)'
  BY TypesStay, ReadsStay
<1> QED
  BY <1>1, <1>2, <1>3, PTL DEF Spec, ShownIsRead


-----------------------------------------------------------------------------
(* What is written                                                         *)

\* Where the edit n waits.
Waits(n, items, messages, st, cur) ==
    \/ \E k \in 1 .. Len(items) : items[k].data = n
    \/ \E y : Holds(messages, y) /\ y.data = n
    \/ st = "EXEC_WRITE" /\ \E j \in 1 .. Len(cur.message.items) : cur.message.items[j].data = n

LEMMA PendingIs ==
  TInv => \A n : Pending(n) <=> Waits(n, itemsToWrite, writeMessages, state, current)
<1> SUFFICES ASSUME TInv, NEW n
             PROVE  Pending(n) <=> Waits(n, itemsToWrite, writeMessages, state, current)
  OBVIOUS
<1>1. /\ DOMAIN itemsToWrite = 1 .. Len(itemsToWrite)
      /\ DOMAIN writeMessages = 1 .. Len(writeMessages)
      /\ \A i \in 1 .. Len(writeMessages) :
            DOMAIN writeMessages[i].items = 1 .. Len(writeMessages[i].items)
      /\ state = "EXEC_WRITE" => DOMAIN current.message.items = 1 .. Len(current.message.items)
  BY LenProperties, ElementOfSeq, MessageTypes DEF TInv, Typed
<1>2. n \in Numbers(itemsToWrite) <=> \E k \in 1 .. Len(itemsToWrite) : itemsToWrite[k].data = n
  BY <1>1 DEF Numbers
<1>3. (\E i \in DOMAIN writeMessages : n \in Numbers(writeMessages[i].items))
         <=> \E y : Holds(writeMessages, y) /\ y.data = n
  <2>1. \A i \in 1 .. Len(writeMessages) : n \in Numbers(writeMessages[i].items)
           <=> \E j \in 1 .. Len(writeMessages[i].items) : writeMessages[i].items[j].data = n
    BY <1>1 DEF Numbers
  <2>2. ASSUME NEW i \in 1 .. Len(writeMessages), NEW j \in 1 .. Len(writeMessages[i].items),
               writeMessages[i].items[j].data = n
        PROVE  \E y : Holds(writeMessages, y) /\ y.data = n
    BY <2>2 DEF Holds
  <2>3. ASSUME NEW y, Holds(writeMessages, y), y.data = n
        PROVE  \E i \in 1 .. Len(writeMessages) :
                  \E j \in 1 .. Len(writeMessages[i].items) : writeMessages[i].items[j].data = n
    BY <2>3 DEF Holds
  <2> QED
    BY <1>1, <2>1, <2>2, <2>3
<1>4. state = "EXEC_WRITE" =>
         (n \in Numbers(current.message.items)
            <=> \E j \in 1 .. Len(current.message.items) : current.message.items[j].data = n)
  BY <1>1 DEF Numbers
<1> QED
  BY <1>2, <1>3, <1>4 DEF Pending, Waits

\* Where an edit that has not come to the memory, nor is lost, may be.
Landed(n) == n \in lost \/ \A a \in RangeOf(asked[n]) : memory[a] >= n

LEMMA EditsLandIs ==
  TInv => (EditsLand <=> \A n \in 1 .. Len(asked) :
                            \/ Waits(n, itemsToWrite, writeMessages, state, current)
                            \/ Landed(n))
<1> SUFFICES ASSUME TInv
             PROVE  EditsLand <=> \A n \in 1 .. Len(asked) :
                            \/ Waits(n, itemsToWrite, writeMessages, state, current)
                            \/ Landed(n)
  OBVIOUS
<1>1. DOMAIN asked = 1 .. Len(asked)
  BY LenProperties DEF TInv, Typed
<1>2. \A n : Pending(n) <=> Waits(n, itemsToWrite, writeMessages, state, current)
  BY PendingIs
<1> QED
  BY <1>1, <1>2 DEF EditsLand, Landed

LEMMA EditsLandIsNext ==
  ASSUME TInv', \A n \in 1 .. Len(asked') :
                    \/ Waits(n, itemsToWrite', writeMessages', state', current')
                    \/ n \in lost' \/ \A a \in RangeOf(asked'[n]) : memory'[a] >= n
  PROVE  EditsLand'
<1>1. (TInv => (EditsLand <=> \A n \in 1 .. Len(asked) :
                            \/ Waits(n, itemsToWrite, writeMessages, state, current)
                            \/ Landed(n)))'
  BY EditsLandIs, PTL
<1> QED
  BY <1>1 DEF Landed

\* The edits in m are older than those of the same item anywhere in q.
LEMMA BeforeAll ==
  ASSUME NEW m, NEW q,
         \A y : Holds(q, y) => \A i \in 1 .. Len(m.items) :
                                   m.items[i].offset = y.offset => m.items[i].data < y.data
  PROVE  \A k \in 1 .. Len(q) : Before(m, q[k])
<1>1. \A k \in 1 .. Len(q) : \A j \in 1 .. Len(q[k].items) : Holds(q, q[k].items[j])
  BY DEF Holds
<1> QED
  BY <1>1 DEF Before

\* The range of an edit, and its number.
LEMMA EditIs ==
  ASSUME TInv, NEW x, IsEdit(asked, x)
  PROVE  /\ x \in Items /\ x.data \in Nat /\ x.data <= Len(asked) /\ x = asked[x.data]
         /\ RangeOf(x) \subseteq Addresses /\ Addresses \subseteq Nat
<1>1. asked \in Seq(Items) /\ Len(asked) \in Nat /\ Size \in Nat
  BY LenProperties, ViewsAssumption DEF TInv, Typed
<1>2. x \in Items /\ x.data \in Nat /\ x.data <= Len(asked) /\ x = asked[x.data]
  BY <1>1, ElementOfSeq DEF IsEdit
<1>3. x.offset \in Nat /\ x.count \in Nat /\ x.offset + x.count <= Size
  BY <1>2, ItemTypes DEF End
<1>4. \A a \in x.offset .. (x.offset + x.count - 1) : a \in 0 .. (Size - 1)
  BY <1>1, <1>3
<1> QED
  BY <1>1, <1>2, <1>4 DEF RangeOf, Addresses

LEMMA InitWrites ==
  ASSUME Init
  PROVE  WInv
<1>1. /\ itemsToWrite = << >> /\ writeMessages = << >> /\ asked = << >> /\ state = "PAUSE"
      /\ Len(<< >>) = 0 /\ DOMAIN asked = {}
      /\ \A a \in Addresses : memory[a] = 0
  BY DEF Init
<1>2. EditsInOrder
  BY <1>1 DEF EditsInOrder, AreEdits, InTurn
<1>3. CurrentFirst /\ EditsLand
  BY <1>1 DEF CurrentFirst, EditsLand
<1>4. MemoryInStep
  BY <1>1 DEF MemoryInStep
<1> QED
  BY <1>2, <1>3, <1>4 DEF WInv

LEMMA EditKeepsOrder ==
  ASSUME TInv, WInv, NEW v \in Writable, Edit(v)
  PROVE  WInv'
<1> DEFINE e == WriteItem(v, Len(asked) + 1)
<1>1. /\ Len(asked) < MaxWrites
      /\ asked' = Append(asked, e) /\ itemsToWrite' = Append(itemsToWrite, e)
      /\ UNCHANGED <<memory, readMessages, writeMessages, state, current, answer, shown, lost>>
  BY DEF Edit
<1>2. /\ asked \in Seq(Items) /\ itemsToWrite \in Seq(Items)
      /\ Len(asked) \in Nat /\ Len(itemsToWrite) \in Nat /\ MaxWrites \in Nat
      /\ memory \in [Addresses -> 0 .. MaxWrites]
  BY LenProperties, ViewsAssumption DEF TInv, Typed
<1>3. e \in Items /\ e.data = Len(asked) + 1
  BY <1>1, <1>2, WriteItems
<1>4. /\ Len(asked') = Len(asked) + 1 /\ asked'[Len(asked) + 1] = e
      /\ \A n \in 1 .. Len(asked) : asked'[n] = asked[n]
      /\ Len(itemsToWrite') = Len(itemsToWrite) + 1
      /\ \A i \in 1 .. Len(itemsToWrite) : itemsToWrite'[i] = itemsToWrite[i]
      /\ itemsToWrite'[Len(itemsToWrite) + 1] = e
  <2> HIDE DEF e
  <2> QED
    BY <1>1, <1>2, <1>3, AppendProperties
<1>5. AreEdits(asked')
  <2>1. \A n \in 1 .. Len(asked) : \E w \in Writable : asked'[n] = WriteItem(w, n)
    BY <1>4 DEF WInv, EditsInOrder, AreEdits
  <2>2. asked'[Len(asked) + 1] = WriteItem(v, Len(asked) + 1)
    BY <1>4
  <2>3. \A n \in 1 .. Len(asked') : n \in 1 .. Len(asked) \/ n = Len(asked) + 1
    BY <1>2, <1>4
  <2> QED
    BY <2>1, <2>2, <2>3 DEF AreEdits
<1> HIDE DEF e
\* The new edit is newer than all others.
<1>6. ASSUME NEW x, IsEdit(asked, x)
      PROVE  x.data < e.data /\ x.data \in Nat
  <2>1. x.data \in Nat /\ x.data <= Len(asked)
    BY <1>6, EditIs
  <2> QED
    BY <1>2, <1>3, <2>1
<1>7. \A i \in 1 .. Len(itemsToWrite') :
         \/ i \in 1 .. Len(itemsToWrite) /\ itemsToWrite'[i] = itemsToWrite[i]
         \/ i = Len(itemsToWrite) + 1 /\ itemsToWrite'[i] = e
  BY <1>2, <1>4
<1>8. EditsInOrder'
  <2>1. ASSUME NEW i \in 1 .. Len(itemsToWrite'), NEW j \in 1 .. Len(itemsToWrite'), i < j
        PROVE  itemsToWrite'[i].data < itemsToWrite'[j].data
    <3>1. i \in 1 .. Len(itemsToWrite) /\ itemsToWrite'[i] = itemsToWrite[i]
      BY <1>2, <1>4, <2>1
    <3>2. IsEdit(asked, itemsToWrite[i])
      BY <3>1 DEF TInv, AllAsked
    <3>3. CASE itemsToWrite'[j] = e
      BY <1>6, <3>1, <3>2, <3>3
    <3>4. CASE j \in 1 .. Len(itemsToWrite) /\ itemsToWrite'[j] = itemsToWrite[j]
      BY <2>1, <3>1, <3>4 DEF WInv, EditsInOrder
    <3> QED
      BY <1>7, <3>3, <3>4
  <2>2. ASSUME NEW i \in 1 .. Len(writeMessages), NEW k \in 1 .. Len(itemsToWrite'),
               NEW j \in 1 .. Len(writeMessages[i].items)
        PROVE  writeMessages[i].items[j].data < itemsToWrite'[k].data
    <3>1. IsEdit(asked, writeMessages[i].items[j])
      BY DEF TInv, AllAsked
    <3>2. CASE itemsToWrite'[k] = e
      BY <1>6, <3>1, <3>2
    <3>3. CASE k \in 1 .. Len(itemsToWrite) /\ itemsToWrite'[k] = itemsToWrite[k]
      BY <3>3 DEF WInv, EditsInOrder
    <3> QED
      BY <1>7, <3>2, <3>3
  <2>3. InTurn(writeMessages)
    BY DEF WInv, EditsInOrder
  <2> QED
    BY <1>1, <1>5, <2>1, <2>2, <2>3 DEF EditsInOrder
<1>9. CurrentFirst'
  <2>1. ASSUME state = "EXEC_WRITE", NEW k \in 1 .. Len(itemsToWrite'),
               NEW j \in 1 .. Len(current.message.items)
        PROVE  current.message.items[j].data < itemsToWrite'[k].data
    <3>1. IsEdit(asked, current.message.items[j])
      BY <2>1 DEF TInv, AllAsked
    <3>2. CASE itemsToWrite'[k] = e
      BY <1>6, <3>1, <3>2
    <3>3. CASE k \in 1 .. Len(itemsToWrite) /\ itemsToWrite'[k] = itemsToWrite[k]
      BY <2>1, <3>3 DEF WInv, CurrentFirst
    <3> QED
      BY <1>7, <3>2, <3>3
  <2>2. state = "EXEC_WRITE" =>
            /\ IsWriteMessage(current.message)
            /\ current.buff = Prepared(current.message)
            /\ \A i \in 1 .. Len(writeMessages) : Before(current.message, writeMessages[i])
    BY DEF WInv, CurrentFirst
  <2> QED
    BY <1>1, <2>1, <2>2 DEF CurrentFirst
<1>10. MemoryInStep'
  <2>1. \A a \in Addresses : memory[a] \in Nat /\ memory[a] <= Len(asked)
    BY <1>2 DEF WInv, MemoryInStep
  <2>2. \A a \in Addresses : memory[a] <= Len(asked')
    BY <1>2, <1>4, <2>1
  <2>3. NotNewer(memory, e)
    <3>1. RangeOf(e) \subseteq Addresses
      <4>1. IsEdit(asked', e) /\ TInv'
        BY <1>2, <1>3, <1>4, EditTypes DEF IsEdit
      <4>2. e.offset \in Nat /\ e.count \in Nat /\ e.offset + e.count <= Size /\ Size \in Nat
        BY <1>3, ItemTypes, ViewsAssumption DEF End
      <4>3. \A a \in e.offset .. (e.offset + e.count - 1) : a \in 0 .. (Size - 1)
        BY <4>2
      <4> QED
        BY <4>3 DEF RangeOf, Addresses
    <3>2. \A a \in Addresses : memory[a] <= e.data
      BY <1>2, <1>3, <2>1
    <3> QED
      BY <3>1, <3>2 DEF NotNewer
  <2>4. \A i \in 1 .. Len(itemsToWrite') : NotNewer(memory, itemsToWrite'[i])
    BY <1>7, <2>3 DEF WInv, MemoryInStep
  <2>5. /\ \A i \in 1 .. Len(writeMessages) :
              \A j \in 1 .. Len(writeMessages[i].items) : NotNewer(memory, writeMessages[i].items[j])
        /\ state = "EXEC_WRITE" =>
              \A j \in 1 .. Len(current.message.items) :
                  /\ answer = None => NotNewer(memory, current.message.items[j])
                  /\ answer \notin {None, Failed} => NotOlder(memory, current.message.items[j])
    BY DEF WInv, MemoryInStep
  <2> QED
    BY <1>1, <2>2, <2>4, <2>5 DEF MemoryInStep
<1>11. EditsLand'
  <2>1. ASSUME NEW n \in 1 .. Len(asked')
        PROVE  \/ Waits(n, itemsToWrite', writeMessages, state, current)
               \/ n \in lost \/ \A a \in RangeOf(asked'[n]) : memory[a] >= n
    <3>1. CASE n = Len(asked) + 1
      <4>1. Len(itemsToWrite) + 1 \in 1 .. Len(itemsToWrite')
        BY <1>2, <1>4
      <4>2. itemsToWrite'[Len(itemsToWrite) + 1].data = n
        BY <1>3, <1>4, <3>1
      <4> QED
        BY <4>1, <4>2 DEF Waits
    <3>2. CASE n \in 1 .. Len(asked)
      <4>1. Waits(n, itemsToWrite, writeMessages, state, current) \/ Landed(n)
        BY <3>2, EditsLandIs DEF WInv
      <4>2. \A k \in 1 .. Len(itemsToWrite) : k \in 1 .. Len(itemsToWrite') /\ itemsToWrite'[k] = itemsToWrite[k]
        BY <1>2, <1>4
      <4>3. asked'[n] = asked[n]
        BY <1>4, <3>2
      <4> QED
        BY <4>1, <4>2, <4>3 DEF Waits, Landed
    <3> QED
      BY <1>2, <1>4, <3>1, <3>2
  <2> QED
    BY <1>1, <2>1, EditTypes, EditsLandIsNext
<1> QED
  BY <1>8, <1>9, <1>10, <1>11 DEF WInv

\* The messages to write, with the waiting items put in them.
LEMMA QueueInTurn ==
  ASSUME EditsApart, BelowTop, TInv, WInv
  PROVE  /\ InTurn(CreateWriteMessage)
         /\ \A y : Holds(CreateWriteMessage, y) =>
               /\ NotNewer(memory, y)
               /\ state = "EXEC_WRITE" =>
                     \A i \in 1 .. Len(current.message.items) :
                        current.message.items[i].offset = y.offset => current.message.items[i].data < y.data
<1>1. /\ AreEdits(asked) /\ InTurn(writeMessages)
      /\ \A i, j \in 1 .. Len(itemsToWrite) : i < j => itemsToWrite[i].data < itemsToWrite[j].data
      /\ \A y : Holds(writeMessages, y) => \A k \in 1 .. Len(itemsToWrite) : y.data < itemsToWrite[k].data
  BY DEF WInv, EditsInOrder, Holds
<1>2. /\ AllAre(writeMessages) /\ itemsToWrite \in Seq(Items)
      /\ \A k \in 1 .. Len(itemsToWrite) : IsEdit(asked, itemsToWrite[k])
      /\ \A y : Holds(writeMessages, y) => IsEdit(asked, y)
  BY DEF TInv, Typed, AllPossible, AllAre, AllAsked, Holds
<1>3. InTurn(CreateWriteMessage)
  BY <1>1, <1>2, AddItemsKeepInTurn DEF CreateWriteMessage
<1>4. \A y : Holds(CreateWriteMessage, y)
                <=> (Holds(writeMessages, y) \/ \E k \in 1 .. Len(itemsToWrite) : itemsToWrite[k] = y)
  BY Queue
<1>5. ASSUME NEW y, Holds(writeMessages, y)
      PROVE  /\ NotNewer(memory, y)
             /\ state = "EXEC_WRITE" =>
                   \A i \in 1 .. Len(current.message.items) :
                      current.message.items[i].offset = y.offset => current.message.items[i].data < y.data
  <2>1. PICK k \in 1 .. Len(writeMessages) : \E j \in 1 .. Len(writeMessages[k].items) : writeMessages[k].items[j] = y
    BY <1>5 DEF Holds
  <2>2. PICK j \in 1 .. Len(writeMessages[k].items) : writeMessages[k].items[j] = y
    BY <2>1
  <2>3. NotNewer(memory, y)
    BY <2>2 DEF WInv, MemoryInStep
  <2>4. state = "EXEC_WRITE" => Before(current.message, writeMessages[k])
    BY DEF WInv, CurrentFirst
  <2> QED
    BY <2>2, <2>3, <2>4 DEF Before
<1>6. ASSUME NEW k \in 1 .. Len(itemsToWrite)
      PROVE  /\ NotNewer(memory, itemsToWrite[k])
             /\ state = "EXEC_WRITE" =>
                   \A i \in 1 .. Len(current.message.items) :
                      current.message.items[i].data < itemsToWrite[k].data
  BY DEF WInv, MemoryInStep, CurrentFirst
<1> QED
  BY <1>3, <1>4, <1>5, <1>6

LEMMA RunKeepsOrder ==
  ASSUME FitsBuffer, EditsApart, BelowTop, TInv, WInv, Run
  PROVE  WInv'
<1> DEFINE queue == CreateWriteMessage
<1>1. /\ AllAre(queue) /\ InTurn(queue)
      /\ \A y : Holds(queue, y)
                  <=> (Holds(writeMessages, y) \/ \E k \in 1 .. Len(itemsToWrite) : itemsToWrite[k] = y)
      /\ \A y : Holds(queue, y) => NotNewer(memory, y)
      /\ state = "EXEC_WRITE" => \A k \in 1 .. Len(queue) : Before(current.message, queue[k])
  <2>1. \A y : Holds(queue, y) /\ state = "EXEC_WRITE" =>
                  \A i \in 1 .. Len(current.message.items) :
                     current.message.items[i].offset = y.offset => current.message.items[i].data < y.data
    BY QueueInTurn
  <2>2. state = "EXEC_WRITE" => \A k \in 1 .. Len(queue) : Before(current.message, queue[k])
    BY <2>1, BeforeAll
  <2> QED
    BY <2>2, Queue, QueueInTurn
<1>2. /\ StartWrite(queue) \/ StartRead(queue) \/ Wait(queue)
      /\ itemsToWrite' = << >>
      /\ UNCHANGED <<memory, answer, shown, asked, lost>>
  BY DEF Run
<1> HIDE DEF queue
<1>3. Len(itemsToWrite') = 0 /\ Len(asked) \in Nat
  BY <1>2, LenProperties DEF TInv, Typed
<1>4. /\ queue \in Seq(Messages) /\ Len(queue) \in Nat
      /\ \A i \in 1 .. Len(queue) : \A j \in 1 .. Len(queue[i].items) : NotNewer(memory, queue[i].items[j])
  BY <1>1, LenProperties DEF AllAre, Holds
<1>5. TInv'
  BY RunTypes
\* The edits wait in the queue now, or in the message on its way.
<1>6. ASSUME NEW n \in 1 .. Len(asked),
             \A y : Holds(queue, y) /\ y.data = n => Waits(n, itemsToWrite', writeMessages', state', current'),
             state = "EXEC_WRITE" => UNCHANGED <<state, current>>
      PROVE  Waits(n, itemsToWrite', writeMessages', state', current')
             \/ n \in lost \/ \A a \in RangeOf(asked[n]) : memory[a] >= n
  <2>1. Waits(n, itemsToWrite, writeMessages, state, current) \/ Landed(n)
    BY EditsLandIs DEF WInv
  <2>2. CASE \E y : Holds(queue, y) /\ y.data = n
    BY <1>6, <2>2
  <2>3. CASE state = "EXEC_WRITE" /\ \E j \in 1 .. Len(current.message.items) : current.message.items[j].data = n
    BY <1>6, <2>3 DEF Waits
  <2> QED
    BY <1>1, <2>1, <2>2, <2>3 DEF Waits, Landed
<1>7. CASE StartWrite(queue)
  <2>1. /\ state = "PAUSE" /\ queue # << >> /\ state' = "EXEC_WRITE"
        /\ current' = [message |-> Head(queue), buff |-> Prepared(Head(queue))]
        /\ writeMessages' = Tail(queue)
    BY <1>7 DEF StartWrite
  <2>2. /\ 1 \in 1 .. Len(queue) /\ Head(queue) = queue[1]
        /\ Len(Tail(queue)) = Len(queue) - 1
        /\ \A i \in 1 .. Len(Tail(queue)) :
              i + 1 \in 1 .. Len(queue) /\ 1 < i + 1 /\ Tail(queue)[i] = queue[i + 1]
    BY <1>4, <2>1, HeadTailProperties, EmptySeq
  <2>3. current'.message = queue[1] /\ current'.buff = Prepared(queue[1])
    BY <2>1, <2>2
  <2>4. answer = None
    BY <2>1 DEF TInv, Typed
  <2>5. InTurn(writeMessages')
    <3>1. \A i, j \in 1 .. Len(Tail(queue)) : i < j => i + 1 < j + 1
      OBVIOUS
    <3> QED
      BY <1>1, <2>1, <2>2, <3>1 DEF InTurn
  <2>6. EditsInOrder'
    BY <1>2, <1>3, <2>5 DEF WInv, EditsInOrder
  <2>7. CurrentFirst'
    <3>1. IsWriteMessage(queue[1])
      BY <1>1, <2>2 DEF InTurn
    <3>2. \A i \in 1 .. Len(writeMessages') : Before(queue[1], writeMessages'[i])
      BY <1>1, <2>1, <2>2 DEF InTurn
    <3> QED
      BY <1>3, <2>3, <3>1, <3>2 DEF CurrentFirst
  <2>8. MemoryInStep'
    <3>1. \A a \in Addresses : memory[a] <= Len(asked)
      BY DEF WInv, MemoryInStep
    <3> QED
      BY <1>2, <1>3, <1>4, <2>1, <2>2, <2>3, <2>4, <3>1 DEF MemoryInStep
  <2>9. EditsLand'
    <3>1. ASSUME NEW n \in 1 .. Len(asked), NEW y, Holds(queue, y), y.data = n
          PROVE  Waits(n, itemsToWrite', writeMessages', state', current')
      <4>1. PICK i \in 1 .. Len(queue) : \E j \in 1 .. Len(queue[i].items) : queue[i].items[j] = y
        BY <3>1 DEF Holds
      <4>2. CASE i = 1
        BY <2>1, <2>3, <3>1, <4>1, <4>2 DEF Waits
      <4>3. CASE i # 1
        <5>1. i - 1 \in 1 .. Len(Tail(queue)) /\ Tail(queue)[i - 1] = queue[(i - 1) + 1] /\ (i - 1) + 1 = i
          BY <1>4, <2>2, <4>3
        <5>2. Holds(writeMessages', y)
          BY <2>1, <4>1, <5>1 DEF Holds
        <5> QED
          BY <3>1, <5>2 DEF Waits
      <4> QED
        BY <4>2, <4>3
    <3> QED
      BY <1>2, <1>5, <1>6, <2>1, <3>1, EditsLandIsNext
  <2> QED
    BY <2>6, <2>7, <2>8, <2>9 DEF WInv
<1>8. CASE StartRead(queue) \/ Wait(queue)
  <2>1. /\ writeMessages' = queue
        /\ state' = "EXEC_WRITE" => UNCHANGED <<state, current>>
        /\ state = "EXEC_WRITE" => UNCHANGED <<state, current>>
    BY <1>8 DEF StartRead, Wait
  <2>2. EditsInOrder'
    BY <1>1, <1>2, <1>3, <2>1 DEF WInv, EditsInOrder
  <2>3. CurrentFirst'
    <3>1. state = "EXEC_WRITE" =>
            IsWriteMessage(current.message) /\ current.buff = Prepared(current.message)
      BY DEF WInv, CurrentFirst
    <3> QED
      BY <1>1, <1>3, <2>1, <3>1 DEF CurrentFirst
  <2>4. MemoryInStep'
    <3>1. /\ \A a \in Addresses : memory[a] <= Len(asked)
          /\ state = "EXEC_WRITE" =>
              \A j \in 1 .. Len(current.message.items) :
                  /\ answer = None => NotNewer(memory, current.message.items[j])
                  /\ answer \notin {None, Failed} => NotOlder(memory, current.message.items[j])
      BY DEF WInv, MemoryInStep
    <3> QED
      BY <1>2, <1>3, <1>4, <2>1, <3>1 DEF MemoryInStep
  <2>5. EditsLand'
    <3>1. ASSUME NEW n \in 1 .. Len(asked), NEW y, Holds(queue, y), y.data = n
          PROVE  Waits(n, itemsToWrite', writeMessages', state', current')
      BY <2>1, <3>1 DEF Waits
    <3> QED
      BY <1>2, <1>5, <1>6, <2>1, <3>1, EditsLandIsNext
  <2> QED
    BY <2>2, <2>3, <2>4, <2>5 DEF WInv
<1> QED
  BY <1>2, <1>7, <1>8

\* What the device's memory holds after it has carried a write out.
LEMMA CarryWrites ==
  ASSUME FitsBuffer, TInv, WInv, NoGap, Carry, state = "EXEC_WRITE"
  PROVE  /\ \A a \in Addresses \ RangeOf(current.message) : memory'[a] = memory[a]
         /\ \A a \in RangeOf(current.message) :
               \E j \in 1 .. Len(current.message.items) :
                   a \in RangeOf(current.message.items[j]) /\ memory'[a] = current.message.items[j].data
         /\ \A i \in 1 .. Len(current.message.items) :
               NotOlder(memory', current.message.items[i])
         /\ \A a \in Addresses : memory'[a] >= memory[a]
         /\ \A a \in Addresses : memory'[a] <= Len(asked)
<1> DEFINE m == current.message
           items == m.items
<1>1. /\ answer = None
      /\ memory' = [a \in Addresses |-> IF a \in RangeOf(m) THEN current.buff[a - m.offset] ELSE memory[a]]
  BY DEF Carry
<1>2. /\ m \in Messages /\ Possible(m) /\ Covers(m)
      /\ current.buff = Prepared(m)
      /\ Len(items) \in Nat /\ DOMAIN items = 1 .. Len(items)
      /\ \A i, j \in 1 .. Len(items) : i < j => items[i].data < items[j].data
      /\ \A i \in 1 .. Len(items) : IsEdit(asked, items[i]) /\ NotNewer(memory, items[i])
  <2>1. m \in Messages /\ Possible(m) /\ \A i \in 1 .. Len(items) : IsEdit(asked, items[i])
    BY DEF TInv, Typed, AllPossible, AllAsked
  <2>2. IsWriteMessage(m) /\ current.buff = Prepared(m)
    BY DEF WInv, CurrentFirst
  <2>3. \A i \in 1 .. Len(items) : NotNewer(memory, items[i])
    BY <1>1 DEF WInv, MemoryInStep
  <2> QED
    BY <2>1, <2>2, <2>3, MessageTypes DEF IsWriteMessage
<1>3. RangeOf(m) \subseteq Addresses
  BY <1>2, BufferOfMessage
<1>4. \A i \in 1 .. Len(items) : /\ RangeOf(items[i]) \subseteq Addresses
                                 /\ items[i].data \in Nat /\ items[i].data <= Len(asked)
  BY <1>2, EditIs
<1>5. \A a \in RangeOf(m) : \E i \in 1 .. Len(items) : a \in RangeOf(items[i])
  BY <1>2 DEF NoGap
<1>6. \A i \in 1 .. Len(items) : RangeOf(items[i]) \subseteq RangeOf(m)
  <2> SUFFICES ASSUME NEW i \in 1 .. Len(items), NEW a \in RangeOf(items[i])
               PROVE  a \in RangeOf(m)
    OBVIOUS
  <2> DEFINE o == items[i].offset
             c == items[i].count
             d == m.offset
             k == m.count
  <2>1. o \in Nat /\ c \in Nat /\ d \in Nat /\ k \in Nat /\ d <= o /\ o + c <= d + k
    BY <1>2, MessageTypes, ItemTypes DEF Covers, End
  <2>2. a \in o .. (o + c - 1)
    BY DEF RangeOf
  <2>3. (a \in d .. (d + k - 1)) => a \in RangeOf(m)
    BY DEF RangeOf
  <2> HIDE DEF o, c, d, k
  <2>4. a \in d .. (d + k - 1)
    BY <2>1, <2>2
  <2> QED
    BY <2>3, <2>4
<1>7. \A i \in 1 .. Len(items) : \A a \in RangeOf(items[i]) :
         \E j \in i .. Len(items) : a \in RangeOf(items[j]) /\ Prepared(m)[a - m.offset] = items[j].data
  BY <1>2, LastIsSent
<1> HIDE DEF m, items
<1>8. ASSUME NEW i \in 1 .. Len(items), NEW a \in RangeOf(items[i])
      PROVE  \E j \in 1 .. Len(items) :
                /\ a \in RangeOf(items[j]) /\ memory'[a] = items[j].data
                /\ items[i].data <= items[j].data
  <2>1. PICK j \in i .. Len(items) : a \in RangeOf(items[j]) /\ Prepared(m)[a - m.offset] = items[j].data
    BY <1>7
  <2>2. j \in 1 .. Len(items) /\ (i = j \/ i < j)
    BY <1>2
  <2>3. items[i].data <= items[j].data
    BY <1>2, <1>4, <2>2
  <2>4. a \in RangeOf(m) /\ a \in Addresses
    BY <1>3, <1>6
  <2>5. memory'[a] = items[j].data
    BY <1>1, <1>2, <2>1, <2>4
  <2> QED
    BY <2>1, <2>2, <2>3, <2>5
<1>9. \A a \in Addresses \ RangeOf(m) : memory'[a] = memory[a]
  BY <1>1
<1>10. \A a \in RangeOf(m) : \E j \in 1 .. Len(items) :
          a \in RangeOf(items[j]) /\ memory'[a] = items[j].data
  BY <1>5, <1>8
<1>11. \A i \in 1 .. Len(items) : NotOlder(memory', items[i])
  BY <1>8, <1>4 DEF NotOlder
<1>12. ASSUME NEW a \in Addresses
       PROVE  memory'[a] >= memory[a] /\ memory'[a] <= Len(asked)
  <2>1. memory[a] \in Nat /\ memory[a] <= Len(asked)
    <3>1. memory \in [Addresses -> 0 .. MaxWrites] /\ MaxWrites \in Nat
      BY ViewsAssumption DEF TInv, Typed
    <3> QED
      BY <3>1 DEF WInv, MemoryInStep
  <2>2. CASE a \in RangeOf(m)
    <3>1. PICK j \in 1 .. Len(items) : a \in RangeOf(items[j]) /\ memory'[a] = items[j].data
      BY <1>10, <2>2
    <3>2. memory[a] <= items[j].data
      BY <1>2, <3>1 DEF NotNewer
    <3> QED
      BY <1>4, <2>1, <3>1, <3>2
  <2>3. CASE a \notin RangeOf(m)
    BY <1>9, <2>1, <2>3
  <2> QED
    BY <2>2, <2>3
<1> QED
  BY <1>9, <1>10, <1>11, <1>12 DEF m, items

LEMMA CarryKeepsOrder ==
  ASSUME FitsBuffer, EditsApart, BelowTop, TInv, WInv, NoGap, Carry
  PROVE  WInv'
<1>1. /\ answer = None /\ answer' \in {memory', Failed}
      /\ UNCHANGED <<itemsToWrite, readMessages, writeMessages, state, current, shown, asked, lost>>
      /\ state # "EXEC_WRITE" => memory' = memory
  BY DEF Carry
<1>2. TInv'
  BY CarryTypes
<1>3. EditsInOrder' /\ CurrentFirst'
  BY <1>1 DEF WInv, EditsInOrder, CurrentFirst
<1>4. \A a \in Addresses : memory'[a] >= memory[a] /\ memory'[a] \in Nat /\ memory[a] \in Nat
  <2>1. /\ memory \in [Addresses -> 0 .. MaxWrites] /\ memory' \in [Addresses -> 0 .. MaxWrites]
        /\ MaxWrites \in Nat
    BY <1>2, ViewsAssumption DEF TInv, Typed
  <2>2. CASE state = "EXEC_WRITE"
    BY <2>1, <2>2, CarryWrites
  <2>3. CASE state # "EXEC_WRITE"
    BY <1>1, <2>1, <2>3
  <2> QED
    BY <2>2, <2>3
<1>5. \A x : IsEdit(asked, x) => RangeOf(x) \subseteq Addresses /\ x.data \in Nat
  BY EditIs
<1>6. /\ \A k \in 1 .. Len(itemsToWrite) : IsEdit(asked, itemsToWrite[k]) /\ NotNewer(memory, itemsToWrite[k])
      /\ \A i \in 1 .. Len(writeMessages) : \A j \in 1 .. Len(writeMessages[i].items) :
            IsEdit(asked, writeMessages[i].items[j]) /\ NotNewer(memory, writeMessages[i].items[j])
      /\ state = "EXEC_WRITE" => \A j \in 1 .. Len(current.message.items) : IsEdit(asked, current.message.items[j])
  BY DEF TInv, AllAsked, WInv, MemoryInStep
\* A waiting edit is newer than what is carried out at its addresses.
<1>7. ASSUME NEW x, IsEdit(asked, x), NotNewer(memory, x),
             state = "EXEC_WRITE" =>
                \A j \in 1 .. Len(current.message.items) :
                   current.message.items[j].offset = x.offset => current.message.items[j].data < x.data
      PROVE  NotNewer(memory', x)
  <2> SUFFICES ASSUME NEW a \in RangeOf(x)
               PROVE  memory'[a] <= x.data
    BY DEF NotNewer
  <2>1. memory[a] <= x.data /\ a \in Addresses
    BY <1>5, <1>7 DEF NotNewer
  <2>2. CASE memory'[a] = memory[a]
    BY <2>1, <2>2
  <2>3. CASE state = "EXEC_WRITE" /\ a \in RangeOf(current.message)
    <3>1. PICK j \in 1 .. Len(current.message.items) :
             a \in RangeOf(current.message.items[j]) /\ memory'[a] = current.message.items[j].data
      BY <2>3, CarryWrites
    <3> DEFINE y == current.message.items[j]
    <3>2. IsEdit(asked, y)
      BY <1>6, <2>3
    <3>3. AreEdits(asked)
      BY DEF WInv, EditsInOrder
    <3>4. RangeOf(x) \intersect RangeOf(y) # {}
      BY <3>1
    <3> HIDE DEF y
    <3>5. x.offset = y.offset
      <4>1. IsEdit(asked, x)
        BY <1>7
      <4> QED
        BY <3>2, <3>3, <3>4, <4>1, EditsMeetAtOnce
    <3>6. y.data < x.data /\ y.data \in Nat /\ x.data \in Nat
      BY <1>5, <1>7, <2>3, <3>2, <3>5 DEF y
    <3> QED
      BY <3>1, <3>6 DEF y
  <2> QED
    BY <1>1, <2>1, <2>2, <2>3, CarryWrites
<1>8. MemoryInStep'
  <2>1. \A k \in 1 .. Len(itemsToWrite) : NotNewer(memory', itemsToWrite[k])
    <3>1. state = "EXEC_WRITE" =>
            \A k \in 1 .. Len(itemsToWrite), j \in 1 .. Len(current.message.items) :
              current.message.items[j].data < itemsToWrite[k].data
      BY DEF WInv, CurrentFirst
    <3> QED
      BY <1>6, <1>7, <3>1
  <2>2. \A i \in 1 .. Len(writeMessages) : \A j \in 1 .. Len(writeMessages[i].items) :
           NotNewer(memory', writeMessages[i].items[j])
    <3>1. state = "EXEC_WRITE" => \A i \in 1 .. Len(writeMessages) : Before(current.message, writeMessages[i])
      BY DEF WInv, CurrentFirst
    <3> QED
      BY <1>6, <1>7, <3>1 DEF Before
  <2>3. state = "EXEC_WRITE" => \A j \in 1 .. Len(current.message.items) : NotOlder(memory', current.message.items[j])
    BY CarryWrites
  <2>4. answer' # None
    <3>1. memory' \in [Addresses -> 0 .. MaxWrites]
      BY <1>2 DEF TInv, Typed
    <3>2. None # Failed /\ None \notin [Addresses -> 0 .. MaxWrites]
      BY ViewsAssumption DEF Addresses
    <3> QED
      BY <1>1, <3>1, <3>2
  <2>5. \A a \in Addresses : memory'[a] <= Len(asked)
    BY <1>1, CarryWrites DEF WInv, MemoryInStep
  <2> QED
    BY <1>1, <2>1, <2>2, <2>3, <2>4, <2>5 DEF MemoryInStep
<1>9. EditsLand'
  <2>1. ASSUME NEW n \in 1 .. Len(asked)
        PROVE  \/ Waits(n, itemsToWrite, writeMessages, state, current)
               \/ n \in lost \/ \A a \in RangeOf(asked[n]) : memory'[a] >= n
    <3>1. Waits(n, itemsToWrite, writeMessages, state, current) \/ Landed(n)
      BY EditsLandIs DEF WInv
    <3>2. ASSUME \A a \in RangeOf(asked[n]) : memory[a] >= n
          PROVE  \A a \in RangeOf(asked[n]) : memory'[a] >= n
      <4>1. asked[n].data = n /\ IsEdit(asked, asked[n])
        <5>1. PICK v \in Writable : asked[n] = WriteItem(v, n)
          BY DEF WInv, EditsInOrder, AreEdits
        <5> QED
          BY <5>1 DEF WriteItem, IsEdit
      <4>2. RangeOf(asked[n]) \subseteq Addresses
        BY <1>5, <4>1
      <4> QED
        BY <1>4, <3>2, <4>2
    <3> QED
      BY <3>1, <3>2 DEF Landed
  <2> QED
    BY <1>1, <1>2, <2>1, EditsLandIsNext
<1> QED
  BY <1>3, <1>8, <1>9 DEF WInv

LEMMA MissKeepsOrder ==
  ASSUME TInv, WInv, Miss
  PROVE  WInv'
<1>1. /\ answer' = Failed
      /\ UNCHANGED <<memory, itemsToWrite, readMessages, writeMessages, state, current, shown, asked, lost>>
      /\ None # Failed
  BY ViewsAssumption DEF Miss
<1>2. EditsLand'
  BY <1>1 DEF WInv, EditsLand, Pending
<1> QED
  BY <1>1, <1>2 DEF WInv, EditsInOrder, CurrentFirst, MemoryInStep

LEMMA FinishKeepsOrder ==
  ASSUME TInv, WInv, Finish
  PROVE  WInv'
<1>1. /\ answer # None /\ (FinishRead \/ FinishWrite)
      /\ state' = "PAUSE" /\ current' = None /\ answer' = None
      /\ UNCHANGED <<memory, itemsToWrite, readMessages, writeMessages, asked>>
  BY DEF Finish
<1>2. EditsInOrder' /\ CurrentFirst' /\ MemoryInStep'
  BY <1>1 DEF WInv, EditsInOrder, CurrentFirst, MemoryInStep
<1>3. EditsLand'
  <2>1. ASSUME NEW n \in 1 .. Len(asked)
        PROVE  \/ Waits(n, itemsToWrite, writeMessages, state', current')
               \/ n \in lost' \/ \A a \in RangeOf(asked[n]) : memory[a] >= n
    <3>1. Waits(n, itemsToWrite, writeMessages, state, current) \/ Landed(n)
      BY EditsLandIs DEF WInv
    <3>2. lost \subseteq lost'
      BY <1>1 DEF FinishRead, FinishWrite
    <3>3. ASSUME state = "EXEC_WRITE", NEW j \in 1 .. Len(current.message.items),
                 current.message.items[j].data = n
          PROVE  n \in lost' \/ \A a \in RangeOf(asked[n]) : memory[a] >= n
      <4>1. lost' = IF answer = Failed THEN lost \cup Numbers(current.message.items) ELSE lost
        BY <1>1, <3>3 DEF FinishRead, FinishWrite
      <4>2. CASE answer = Failed
        <5>1. current.message \in Messages
          BY <3>3 DEF TInv, Typed
        <5>2. n \in Numbers(current.message.items)
          BY <3>3, <5>1, MessageTypes DEF Numbers
        <5> QED
          BY <4>1, <4>2, <5>2
      <4>3. CASE answer # Failed
        <5>1. NotOlder(memory, current.message.items[j])
          BY <1>1, <3>3, <4>3 DEF WInv, MemoryInStep
        <5>2. asked[n] = current.message.items[j]
          BY <3>3 DEF TInv, AllAsked, IsEdit
        <5> QED
          BY <3>3, <5>1, <5>2 DEF NotOlder
      <4> QED
        BY <4>2, <4>3
    <3> QED
      BY <3>1, <3>2, <3>3 DEF Waits, Landed
  <2> QED
    BY <1>1, <2>1, FinishTypes, EditsLandIsNext
<1> QED
  BY <1>2, <1>3 DEF WInv

LEMMA OrderStays ==
  ASSUME FitsBuffer, EditsApart, BelowTop, TInv, WInv, NoGap, [Next]_vars
  PROVE  WInv'
<1>1. CASE UNCHANGED vars
  BY <1>1 DEF vars, WInv, EditsInOrder, CurrentFirst, MemoryInStep, EditsLand, Pending
<1> QED
  BY <1>1, EditKeepsOrder, RunKeepsOrder, CarryKeepsOrder, MissKeepsOrder, FinishKeepsOrder DEF Next

\* No edit is forgotten, while no message has a register that belongs to none
\* of its items: if no two edited items overlap, none ends with the last address
\* and a message fits in the buffer.
THEOREM EditsLandOrAreLost ==
  ASSUME FitsBuffer, BelowTop, EditsApart
  PROVE  Spec /\ []NoGap => []EditsLand
<1>1. Init => TInv /\ WInv
  BY InitTypes, InitWrites
<1>2. TInv /\ WInv /\ NoGap /\ [Next]_vars => (TInv /\ WInv)'
  BY TypesStay, OrderStays
<1>3. WInv => EditsLand
  BY DEF WInv
<1> QED
  BY <1>1, <1>2, <1>3, PTL DEF Spec

\* Nor does a request put an older value over a newer one.
THEOREM NewerValuesStay ==
  ASSUME FitsBuffer, BelowTop, EditsApart
  PROVE  Spec /\ []NoGap => NewerStays
<1>1. Init => TInv /\ WInv
  BY InitTypes, InitWrites
<1>2. TInv /\ WInv /\ NoGap /\ [Next]_vars => (TInv /\ WInv)'
  BY TypesStay, OrderStays
<1>3. TInv /\ WInv /\ NoGap /\ [Next]_vars => [\A a \in Addresses : memory'[a] >= memory[a]]_memory
  <2> SUFFICES ASSUME TInv, WInv, NoGap, [Next]_vars, memory' # memory
               PROVE  \A a \in Addresses : memory'[a] >= memory[a]
    OBVIOUS
  <2>1. Carry /\ state = "EXEC_WRITE"
    BY DEF Next, vars, Edit, Run, Carry, Miss, Finish
  <2> QED
    BY <2>1, CarryWrites
<1> QED
  BY <1>1, <1>2, <1>3, PTL DEF Spec, NewerStays


-----------------------------------------------------------------------------
(* Messages without a gap                                                  *)

AllAreTight(q) == \A i \in 1 .. Len(q) : Tight(q[i])

LEMMA AddItemKeepsTight ==
  ASSUME NEW q, AllAre(q), AllAreTight(q), NEW x \in Items, End(x) < Size
  PROVE  AllAreTight(AddItem(q, x))
<1> DEFINE r == AddItem(q, x)
<1>1. PICK i \in 1 .. Len(r) : TakenAt(q, r, x, i)
  BY AddItemTakes DEF AllAre
<1> HIDE DEF r
<1> DEFINE s == r[i].items
<1>2. /\ Len(s) \in Nat /\ Len(s) > 0 /\ s[Len(s)] = x
      /\ \/ /\ i \in 1 .. Len(q) /\ Len(s) = Len(q[i].items) + 1
            /\ \A j \in 1 .. Len(q[i].items) : s[j] = q[i].items[j]
         \/ i = Len(q) + 1 /\ Len(s) = 1
  BY <1>1, TakenItems DEF AllAre
<1>3. Len(s) \in 1 .. Len(s)
  BY <1>2
<1>4. NextOffset(x) = End(x)
  <2>1. End(x) # Size
    BY ItemTypes, ViewsAssumption
  <2> QED
    BY <2>1, NextOffsetIs
<1>5. CASE i \in 1 .. Len(q) /\ Accepts(q[i], x) /\ r[i] = Extend(q[i], x)
  <2> DEFINE m == q[i]
  <2>1. m \in Messages /\ Possible(m) /\ Tight(m) /\ Len(q) \in Nat
    BY <1>5, ElementOfSeq, LenProperties DEF AllAre, AllAreTight
  <2>2. /\ r[i].offset = IF ToEnd(m, x) THEN m.offset ELSE x.offset
        /\ End(r[i]) = End(m) \/ End(r[i]) = NextOffset(x)
    BY <1>5, <2>1, ExtendFits
  <2>3. Len(s) = Len(m.items) + 1 /\ \A j \in 1 .. Len(m.items) : j \in 1 .. Len(s) /\ s[j] = m.items[j]
    BY <1>2, <1>5, <2>1, MessageTypes
  <2>4. \E j \in 1 .. Len(s) : s[j].offset = r[i].offset
    <3>1. \E j \in 1 .. Len(s) : s[j].offset = m.offset
      BY <2>1, <2>3 DEF Tight
    <3> QED
      BY <1>2, <1>3, <2>2, <3>1
  <2>5. \E j \in 1 .. Len(s) : End(s[j]) = End(r[i])
    <3>1. \E j \in 1 .. Len(s) : End(s[j]) = End(m)
      <4>1. PICK j \in 1 .. Len(m.items) : End(m.items[j]) = End(m)
        BY <2>1 DEF Tight
      <4> QED
        BY <2>3, <4>1
    <3>2. End(s[Len(s)]) = NextOffset(x)
      BY <1>2, <1>4
    <3> QED
      BY <1>3, <2>2, <3>1, <3>2
  <2>6. Tight(r[i])
    BY <2>4, <2>5 DEF Tight
  <2> QED
    BY <1>1, <2>6 DEF TakenAt, AllAreTight, r
<1>6. CASE r[i] = NewMessage(x)
  <2>1. /\ r[i].offset = x.offset /\ End(r[i]) = End(x)
    BY <1>6 DEF NewMessage, End
  <2>2. Tight(r[i])
    BY <1>2, <1>3, <2>1 DEF Tight
  <2> QED
    BY <1>1, <2>2 DEF TakenAt, AllAreTight, r
<1> QED
  BY <1>1, <1>5, <1>6 DEF TakenAt

LEMMA AddItemsKeepTight ==
  ASSUME NEW q, AllAre(q), AllAreTight(q), NEW items \in Seq(Items),
         \A k \in 1 .. Len(items) : End(items[k]) < Size
  PROVE  AllAreTight(AddItems(q, items))
<1> DEFINE N == Len(items)
<1>1. N \in Nat /\ \A n \in 1 .. N : items[n] \in Items
  BY LenProperties, ElementOfSeq
<1>2. PICK added : /\ added[0] = q
                   /\ \A n \in 1 .. N : added[n] = AddItem(added[n - 1], items[n])
                   /\ AddItems(q, items) = added[N]
  BY OneByOne
<1> DEFINE OK(n) == AllAre(added[n]) /\ AllAreTight(added[n])
           T == {n \in 0 .. N : OK(n)}
<1>3. OK(0)
  BY <1>2
<1>4. ASSUME NEW n \in 1 .. N, OK(n - 1)
      PROVE  OK(n)
  <2>1. added[n] = AddItem(added[n - 1], items[n]) /\ items[n] \in Items /\ End(items[n]) < Size
    BY <1>1, <1>2
  <2> QED
    BY <1>4, <2>1, AddItemKeepsPossible, AddItemKeepsTight
<1> HIDE DEF N
<1>5. T = 0 .. N
  <2>1. T \in SUBSET (0 .. N) /\ 0 \in T /\ \A n \in 1 .. N : n - 1 \in T => n \in T
    BY <1>1, <1>3, <1>4
  <2> HIDE DEF T
  <2> QED
    BY <1>1, <2>1, Induction
<1>6. OK(N)
  <2>1. N \in 0 .. N
    BY <1>1
  <2> QED
    BY <1>5, <2>1
<1> QED
  BY <1>2, <1>6

LEMMA TightStays ==
  ASSUME BelowTop, EditsApart, TInv, WInv, AllTight, [Next]_vars
  PROVE  AllTight'
<1> DEFINE queue == CreateWriteMessage
<1>1. /\ queue \in Seq(Messages) /\ Len(queue) \in Nat
      /\ AllAreTight(queue)
  <2>1. AllAre(writeMessages) /\ itemsToWrite \in Seq(Items) /\ AllAreTight(writeMessages)
    BY DEF TInv, Typed, AllPossible, AllAre, AllAreTight, AllTight
  <2>2. \A k \in 1 .. Len(itemsToWrite) : End(itemsToWrite[k]) < Size
    <3>1. AreEdits(asked) /\ \A k \in 1 .. Len(itemsToWrite) : IsEdit(asked, itemsToWrite[k])
      BY DEF WInv, EditsInOrder, TInv, AllAsked
    <3> QED
      BY <3>1, EditsLieApart
  <2> QED
    BY <2>1, <2>2, AddItemsKeepTight, Queue, LenProperties DEF CreateWriteMessage, AllAre
<1> HIDE DEF queue
<1>2. CASE UNCHANGED <<writeMessages, state, current>>
  BY <1>2 DEF AllTight
<1>3. CASE StartWrite(queue)
  <2>1. /\ state' = "EXEC_WRITE" /\ current'.message = Head(queue) /\ writeMessages' = Tail(queue)
        /\ queue # << >>
    BY <1>3 DEF StartWrite
  <2>2. /\ 1 \in 1 .. Len(queue) /\ Head(queue) = queue[1]
        /\ \A i \in 1 .. Len(Tail(queue)) : i + 1 \in 1 .. Len(queue) /\ Tail(queue)[i] = queue[i + 1]
    BY <1>1, <2>1, HeadTailProperties, EmptySeq
  <2> QED
    BY <1>1, <2>1, <2>2 DEF AllTight, AllAreTight
<1>4. CASE StartRead(queue) \/ Wait(queue)
  <2>1. writeMessages' = queue /\ (state' = "EXEC_WRITE" => UNCHANGED <<state, current>>)
    BY <1>4 DEF StartRead, Wait
  <2> QED
    BY <1>1, <2>1 DEF AllTight, AllAreTight
<1>5. CASE Run
  BY <1>3, <1>4, <1>5 DEF Run, queue
<1>6. CASE Finish
  BY <1>6 DEF Finish, AllTight
<1>7. (\E v \in Writable : Edit(v)) \/ Carry \/ Miss => UNCHANGED <<writeMessages, state, current>>
  BY DEF Edit, Carry, Miss
<1> QED
  BY <1>2, <1>5, <1>6, <1>7 DEF Next, vars

LEMMA TightHasNoGap ==
  ASSUME EditsApart, BelowTop, EditsAdjoin, TInv, WInv, AllTight
  PROVE  NoGap
<1> DEFINE m == current.message
<1> SUFFICES ASSUME state = "EXEC_WRITE", NEW a \in RangeOf(m)
             PROVE  \E i \in 1 .. Len(m.items) : a \in RangeOf(m.items[i])
  <2>1. state = "EXEC_WRITE" => DOMAIN m.items = 1 .. Len(m.items)
    BY MessageTypes DEF TInv, Typed
  <2> QED
    BY <2>1 DEF NoGap
<1>1. /\ m \in Messages /\ Possible(m) /\ Covers(m) /\ Tight(m)
      /\ \A i \in 1 .. Len(m.items) : IsEdit(asked, m.items[i])
      /\ AreEdits(asked)
  BY DEF TInv, Typed, AllPossible, AllAsked, WInv, CurrentFirst, IsWriteMessage, AllTight, EditsInOrder
<1>2. PICK i \in 1 .. Len(m.items) : m.items[i].offset = m.offset
  BY <1>1 DEF Tight
<1>3. PICK j \in 1 .. Len(m.items) : End(m.items[j]) = End(m)
  BY <1>1 DEF Tight
<1> HIDE DEF m
<1> DEFINE x == m.items[i]
           y == m.items[j]
<1>4. /\ IsEdit(asked, x) /\ IsEdit(asked, y)
      /\ x.offset = m.offset /\ End(y) = End(m) /\ m.offset <= y.offset
  BY <1>1, <1>2, <1>3 DEF Covers
<1> HIDE DEF x, y
<1>5. PICK v \in Writable : x = WriteItem(v, x.data)
  BY <1>1, <1>4 DEF AreEdits, IsEdit
<1>6. PICK w \in Writable : y = WriteItem(w, y.data)
  BY <1>1, <1>4 DEF AreEdits, IsEdit
<1>7. /\ x.offset = v.offset /\ x.count = v.count /\ y.offset = w.offset /\ y.count = w.count
  BY <1>5, <1>6 DEF WriteItem
<1>8. /\ v.offset \in Nat /\ v.count \in Nat /\ w.offset \in Nat /\ w.count \in Nat
      /\ m.offset \in Nat /\ m.count \in Nat /\ MaxCount \in Nat
  BY <1>1, MessageTypes, ViewsAssumption
<1>9. RangeOf(m) = m.offset .. (m.offset + m.count - 1) /\ a \in RangeOf(m)
  BY DEF RangeOf, m
<1>10. m.offset = v.offset /\ m.offset + m.count = w.offset + w.count /\ v.offset <= w.offset
  BY <1>4, <1>7 DEF End
<1>11. a \in RangeOf(x) <=> a \in v.offset .. (v.offset + v.count - 1)
  BY <1>7 DEF RangeOf
<1>12. a \in RangeOf(y) <=> a \in w.offset .. (w.offset + w.count - 1)
  BY <1>7 DEF RangeOf
<1>13. m.offset + m.count - 1 = w.offset + w.count - 1
  <2> DEFINE mo == m.offset
             mc == m.count
             wo == w.offset
             wc == w.count
  <2>1. mo \in Nat /\ mc \in Nat /\ wo \in Nat /\ wc \in Nat /\ mo + mc = wo + wc
    BY <1>8, <1>10
  <2> HIDE DEF mo, mc, wo, wc
  <2>2. mo + mc - 1 = wo + wc - 1
    BY <2>1
  <2> QED
    BY <2>2 DEF mo, mc, wo, wc
<1>14. a \in v.offset .. (w.offset + w.count - 1)
  <2>1. a \in m.offset .. (m.offset + m.count - 1)
    BY <1>9
  <2> DEFINE top == m.offset + m.count - 1
  <2>2. a \in m.offset .. top /\ top = w.offset + w.count - 1 /\ m.offset = v.offset
    BY <1>10, <1>13, <2>1
  <2> HIDE DEF top
  <2> QED
    BY <2>2
<1>15. CASE v.offset = w.offset
  <2>1. a \in RangeOf(y)
    BY <1>12, <1>14, <1>15
  <2> QED
    BY <2>1 DEF y
<1>16. CASE v.offset < w.offset /\ End(v) = w.offset
  <2> DEFINE vo == v.offset
             vc == v.count
             wo == w.offset
             wc == w.count
  <2>1. /\ vo \in Nat /\ vc \in Nat /\ wo \in Nat /\ wc \in Nat /\ vo + vc = wo
        /\ a \in vo .. (wo + wc - 1)
    BY <1>8, <1>14, <1>16 DEF End
  <2> HIDE DEF vo, vc, wo, wc
  <2>2. a \in vo .. (vo + vc - 1) \/ a \in wo .. (wo + wc - 1)
    BY <2>1
  <2>3. a \in RangeOf(x) \/ a \in RangeOf(y)
    BY <1>11, <1>12, <2>2 DEF vo, vc, wo, wc
  <2> QED
    BY <2>3 DEF x, y
<1>17. CASE v.offset < w.offset /\ End(w) > v.offset + MaxCount
  <2>1. m.count > MaxCount
    BY <1>8, <1>10, <1>17 DEF End
  <2>2. PICK k \in 1 .. Len(m.items) : m.items[k].count = m.count
    <3>1. ~(m.count <= MaxCount) /\ DOMAIN m.items = 1 .. Len(m.items)
      BY <1>1, <1>8, <2>1, MessageTypes
    <3> QED
      BY <1>1, <3>1 DEF Possible
  <2> DEFINE z == m.items[k]
  <2>3. z.offset \in Nat /\ m.offset <= z.offset /\ z.offset + z.count <= m.offset + m.count
    BY <1>1, MessageTypes, ItemTypes DEF Covers, End
  <2>4. z.offset = m.offset /\ z.count = m.count
    BY <1>8, <2>2, <2>3
  <2> QED
    BY <1>9, <2>4 DEF RangeOf
<1> QED
  BY <1>8, <1>10, <1>15, <1>16, <1>17 DEF EditsAdjoin

\* Whatever the user edits, no edit is forgotten and no older value replaces a
\* newer one, if the edited items that fit in one message adjoin.
THEOREM AdjoiningEditsLand ==
  ASSUME FitsBuffer, BelowTop, EditsApart, EditsAdjoin
  PROVE  Spec => []EditsLand /\ NewerStays
<1>1. Init => TInv /\ WInv /\ AllTight
  <2>1. Init => AllTight
    BY DEF Init, AllTight
  <2> QED
    BY <2>1, InitTypes, InitWrites
<1>2. TInv /\ WInv /\ AllTight => NoGap
  BY TightHasNoGap
<1>3. TInv /\ WInv /\ AllTight /\ [Next]_vars => (TInv /\ WInv /\ AllTight)'
  BY <1>2, TypesStay, OrderStays, TightStays
<1>4. Spec => []NoGap
  BY <1>1, <1>2, <1>3, PTL DEF Spec
<1> QED
  BY <1>4, EditsLandOrAreLost, NewerValuesStay, PTL
=============================================================================
