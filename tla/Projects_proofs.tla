-------------------------- MODULE Projects_proofs --------------------------
(***************************************************************************)
(* Proofs about the projects of both programs (Projects) for every set of  *)
(* objects, names and units, and about the life cycle of what runs         *)
(* (CoreRuntime) for every set of threads and of projects.                 *)
(*                                                                         *)
(* The commands and the file are loops over lists.  Loop and EachTurn say  *)
(* that what each turn keeps holds in the end; a lemma per operator says   *)
(* what it does to a document, to memberships or to references, whatever   *)
(* these are, and a lemma per group of commands applies them.              *)
(***************************************************************************)
EXTENDS Projects, CoreRuntime, SequenceTheorems, FiniteSetTheorems, TLAPS

-----------------------------------------------------------------------------
(* Loops                                                                   *)

\* Induction over the natural numbers, by a least counterexample.
LEMMA LeastNat ==
  ASSUME NEW T \in SUBSET Nat, T # {}
  PROVE  \E x \in T : \A y \in T : x <= y
<1> DEFINE R == {ss \in Nat \X Nat : ss[1] < ss[2]}
<1>1. R = OpToRel(<, Nat)
  BY Zenon DEF OpToRel
<1>2. IsWellFoundedOn(R, Nat)
  BY <1>1, NatLessThanWellFounded, Zenon
<1>3. PICK x \in T : \A y \in T : ~(<<y, x>> \in R)
  BY <1>2, WFMin
<1>4. ASSUME NEW y \in T
      PROVE  x <= y
  <2>1. <<y, x>> \in Nat \X Nat /\ <<y, x>>[1] = y /\ <<y, x>>[2] = x
    OBVIOUS
  <2>2. ~(y < x)
    BY <1>3, <2>1
  <2> QED
    BY <2>2
<1> QED
  BY <1>4

LEMMA Induction ==
  ASSUME NEW N \in Nat, NEW T \in SUBSET (0 .. N), 0 \in T,
         \A n \in 1 .. N : n - 1 \in T => n \in T
  PROVE  T = 0 .. N
<1> SUFFICES ASSUME (0 .. N) \ T # {} PROVE FALSE
  OBVIOUS
<1>1. PICK x \in (0 .. N) \ T : \A y \in (0 .. N) \ T : x <= y
  <2> DEFINE U == (0 .. N) \ T
  <2>1. U \in SUBSET Nat /\ U # {}
    OBVIOUS
  <2> QED
    BY <2>1, LeastNat
<1>2. x \in 1 .. N /\ x - 1 \in 0 .. N /\ ~(x <= x - 1)
  OBVIOUS
<1>3. x - 1 \in T
  BY <1>1, <1>2
<1> QED
  BY <1>1, <1>2, <1>3

\* What each turn of a loop keeps is true after all of them.
LEMMA EachTurn ==
  ASSUME NEW N \in Nat, NEW f, NEW G, f[0] \in G[0],
         \A i \in 1 .. N : f[i - 1] \in G[i - 1] => f[i] \in G[i]
  PROVE  \A i \in 0 .. N : f[i] \in G[i]
<1> DEFINE T == {i \in 0 .. N : f[i] \in G[i]}
<1>1. T \in SUBSET (0 .. N) /\ 0 \in T
  OBVIOUS
<1>2. \A i \in 1 .. N : i - 1 \in T => i \in T
  OBVIOUS
<1>3. T = 0 .. N
  <2> HIDE DEF T
  <2> QED
    BY <1>1, <1>2, Induction
<1> QED
  BY <1>3

\* What a loop has made after each of its turns.
Turns(N, base, step, g) == g = [i \in 0 .. N |-> IF i = 0 THEN base ELSE step[i][g[i - 1]]]

\* A loop whose turns stay in G has a function of its turns.
LEMMA Loop ==
  ASSUME NEW N \in Nat, NEW base, NEW step, NEW G, base \in G[0],
         \A i \in 1 .. N : \A x \in G[i - 1] : step[i][x] \in G[i]
  PROVE  \E g : Turns(N, base, step, g) /\ \A i \in 0 .. N : g[i] \in G[i]
<1> DEFINE Upto(k, g) == g = [i \in 0 .. k |-> IF i = 0 THEN base ELSE step[i][g[i - 1]]]
           T == {k \in 0 .. N : \E g : Upto(k, g)}
<1>1. 0 \in T
  <2> DEFINE g == [i \in 0 .. 0 |-> base]
  <2>1. g = [i \in 0 .. 0 |-> IF i = 0 THEN base ELSE step[i][g[i - 1]]]
    OBVIOUS
  <2> HIDE DEF g
  <2>2. Upto(0, g)
    BY <2>1
  <2> QED
    BY <2>2
<1>2. ASSUME NEW k \in 1 .. N, k - 1 \in T
      PROVE  k \in T
  <2>1. PICK g : Upto(k - 1, g)
    BY <1>2
  <2>2. k \in Nat /\ k > 0 /\ k \in 0 .. N
    OBVIOUS
  <2> DEFINE h == [i \in 0 .. k |-> IF i < k THEN g[i] ELSE step[k][g[k - 1]]]
  <2>3. \A i \in 0 .. (k - 1) : g[i] = IF i = 0 THEN base ELSE step[i][g[i - 1]]
    BY <2>1
  <2>4. \A i \in 0 .. (k - 1) : h[i] = g[i]
    BY <2>2
  <2>5. ASSUME NEW i \in 0 .. k
        PROVE  h[i] = IF i = 0 THEN base ELSE step[i][h[i - 1]]
    <3>1. CASE i = k
      <4>1. h[i] = step[k][g[k - 1]]
        BY <2>2, <3>1
      <4>2. h[k - 1] = g[k - 1]
        BY <2>2, <2>4
      <4> QED
        BY <2>2, <3>1, <4>1, <4>2
    <3>2. CASE i = 0
      BY <2>2, <2>3, <2>4, <3>2
    <3>3. CASE i < k /\ i # 0
      <4>1. i \in 0 .. (k - 1) /\ i - 1 \in 0 .. (k - 1)
        BY <2>2, <3>3
      <4>2. h[i] = g[i] /\ h[i - 1] = g[i - 1]
        BY <2>4, <4>1
      <4> HIDE DEF h
      <4> QED
        BY <2>3, <3>3, <4>1, <4>2
    <3> QED
      BY <2>2, <3>1, <3>2, <3>3
  <2>6. h = [i \in 0 .. k |-> h[i]]
    OBVIOUS
  <2> HIDE DEF h
  <2>7. Upto(k, h)
    BY <2>5, <2>6
  <2> QED
    BY <2>2, <2>7
<1>3. T = 0 .. N
  <2>1. T \in SUBSET (0 .. N)
    OBVIOUS
  <2> HIDE DEF T
  <2> QED
    BY <1>1, <1>2, <2>1, Induction
<1>4. PICK g : Upto(N, g)
  <2>1. N \in T
    <3> HIDE DEF T
    <3> QED
      BY <1>3
  <2> QED
    BY <2>1
<1>5. g[0] = base /\ \A i \in 1 .. N : g[i] = step[i][g[i - 1]]
  BY <1>4
<1>6. \A i \in 0 .. N : g[i] \in G[i]
  <2> HIDE DEF Upto, T
  <2> QED
    BY <1>5, EachTurn
<1> QED
  BY <1>4, <1>6 DEF Turns

-----------------------------------------------------------------------------
(* Lists without repetitions                                               *)

LEMMA SeqIs ==
  ASSUME NEW S, NEW s \in Seq(S)
  PROVE  /\ Len(s) \in Nat /\ DOMAIN s = 1 .. Len(s) /\ s \in [1 .. Len(s) -> S]
         /\ \A i \in 1 .. Len(s) : s[i] \in S /\ s[i] \in ToSet(s)
         /\ \A x \in ToSet(s) : x \in S /\ \E i \in 1 .. Len(s) : s[i] = x
BY DEF ToSet

LEMMA Appended ==
  ASSUME NEW S, NEW s \in Seq(S), NEW x \in S
  PROVE  /\ Append(s, x) \in Seq(S) /\ Len(Append(s, x)) = Len(s) + 1
         /\ \A i \in 1 .. Len(s) : Append(s, x)[i] = s[i]
         /\ Append(s, x)[Len(s) + 1] = x
         /\ ToSet(Append(s, x)) = ToSet(s) \union {x}
         /\ IsInjective(s) /\ x \notin ToSet(s) => IsInjective(Append(s, x))
<1> DEFINE a == Append(s, x)
<1>1. /\ a \in Seq(S) /\ Len(a) = Len(s) + 1 /\ Len(s) \in Nat
      /\ \A i \in 1 .. Len(s) : a[i] = s[i]
      /\ a[Len(s) + 1] = x
  OBVIOUS
<1>2. DOMAIN a = 1 .. (Len(s) + 1) /\ DOMAIN s = 1 .. Len(s)
  BY <1>1
<1> HIDE DEF a
<1>3. ToSet(a) = ToSet(s) \union {x}
  <2>1. ASSUME NEW y \in ToSet(a) PROVE y \in ToSet(s) \union {x}
    BY <1>1, <1>2, <2>1 DEF ToSet
  <2>2. ASSUME NEW y \in ToSet(s) PROVE y \in ToSet(a)
    <3>1. PICK i \in 1 .. Len(s) : y = s[i]
      BY <1>2 DEF ToSet
    <3> QED
      BY <1>1, <1>2, <3>1 DEF ToSet
  <2>3. x \in ToSet(a)
    BY <1>1, <1>2 DEF ToSet
  <2> QED
    BY <2>1, <2>2, <2>3
<1>4. ASSUME IsInjective(s), x \notin ToSet(s) PROVE IsInjective(a)
  <2>1. \A i \in 1 .. Len(s) : a[i] \in ToSet(s)
    BY <1>1, <1>2 DEF ToSet
  <2> QED
    BY <1>1, <1>2, <1>4, <2>1 DEF IsInjective
<1> QED
  BY <1>1, <1>3, <1>4 DEF a

\* removeAt(indexOf(x)) of a list.
LEMMA WithoutIt ==
  ASSUME NEW S, NEW s \in Seq(S), NEW x, IsInjective(s)
  PROVE  /\ RemoveFirst(s, x) \in Seq(S) /\ IsInjective(RemoveFirst(s, x))
         /\ ToSet(RemoveFirst(s, x)) = ToSet(s) \ {x}
         /\ x \notin ToSet(s) => RemoveFirst(s, x) = s
         /\ x \in ToSet(s) => Len(RemoveFirst(s, x)) = Len(s) - 1
<1>1. Len(s) \in Nat /\ DOMAIN s = 1 .. Len(s)
  OBVIOUS
<1>2. CASE x \notin ToSet(s)
  <2>1. ~ \E i \in 1 .. Len(s) : s[i] = x
    BY <1>1, <1>2 DEF ToSet
  <2>2. RemoveFirst(s, x) = s
    BY <2>1 DEF RemoveFirst
  <2> QED
    BY <1>2, <2>2
<1>3. CASE x \in ToSet(s)
  <2> DEFINE I == {i \in 1 .. Len(s) : s[i] = x}
             m == Min(I)
             r == RemoveFirst(s, x)
  <2>1. I # {} /\ I \in SUBSET Nat
    BY <1>1, <1>3 DEF ToSet
  <2>2. m \in I
    BY <2>1, LeastNat DEF Min
  <2>3. m \in 1 .. Len(s) /\ s[m] = x
    BY <2>2
  <2>4. r = SubSeq(s, 1, m - 1) \o SubSeq(s, m + 1, Len(s))
    BY <2>1 DEF RemoveFirst, SelectInSeq, RemoveAt
  <2> HIDE DEF I, m
  <2>5. /\ r \in Seq(S) /\ Len(r) = Len(s) - 1
        /\ \A i \in 1 .. (Len(s) - 1) : r[i] = s[IF i < m THEN i ELSE i + 1]
    <3> DEFINE a == SubSeq(s, 1, m - 1)
               b == SubSeq(s, m + 1, Len(s))
    <3>1. a \in Seq(S) /\ Len(a) = m - 1 /\ \A i \in 1 .. (m - 1) : a[i] = s[i]
      BY <1>1, <2>3
    <3>2. b \in Seq(S) /\ Len(b) = Len(s) - m /\ \A i \in 1 .. (Len(s) - m) : b[i] = s[i + m]
      <4>1. \A i \in (m + 1) .. Len(s) : s[i] \in S
        BY <1>1, <2>3
      <4>2. /\ b \in Seq(S) /\ Len(b) = (IF m + 1 <= Len(s) THEN Len(s) - (m + 1) + 1 ELSE 0)
            /\ \A i \in 1 .. (Len(s) - (m + 1) + 1) : b[i] = s[(m + 1) + i - 1]
        BY <1>1, <2>3, <4>1, SubSeqProperties
      <4> HIDE DEF b
      <4>3. \A i \in 1 .. (Len(s) - m) : b[i] = s[i + m]
        <5> SUFFICES ASSUME NEW i \in 1 .. (Len(s) - m) PROVE b[i] = s[i + m]
          OBVIOUS
        <5>1. i \in 1 .. (Len(s) - (m + 1) + 1) /\ (m + 1) + i - 1 = i + m
          BY <1>1, <2>3
        <5> QED
          BY <4>2, <5>1
      <4>4. Len(b) = Len(s) - m
        <5>1. Len(b) = IF m + 1 <= Len(s) THEN Len(s) - (m + 1) + 1 ELSE 0
          BY <4>2
        <5>2. m \in Int /\ m <= Len(s) /\ Len(s) \in Int
          BY <1>1, <2>3
        <5> QED
          BY <5>1, <5>2
      <4> QED
        BY <4>2, <4>3, <4>4
    <3> HIDE DEF a, b, r
    <3>3. r = a \o b
      BY <2>4 DEF a, b
    <3>4. r \in Seq(S) /\ Len(r) = Len(s) - 1
      <4>1. r \in Seq(S) /\ Len(r) = Len(a) + Len(b)
        BY <3>1, <3>2, <3>3, ConcatProperties
      <4> QED
        BY <1>1, <2>3, <3>1, <3>2, <4>1
    <3>5. ASSUME NEW i \in 1 .. (Len(s) - 1) PROVE r[i] = s[IF i < m THEN i ELSE i + 1]
      <4>1. CASE i < m
        <5>1. i \in 1 .. Len(a)
          BY <1>1, <2>3, <3>1, <4>1
        <5>2. r[i] = a[i]
          BY <3>1, <3>2, <3>3, <5>1
        <5> QED
          BY <3>1, <4>1, <5>1, <5>2
      <4>2. CASE ~(i < m)
        <5>1. i \in (Len(a) + 1) .. (Len(a) + Len(b)) /\ i - Len(a) = i - m + 1 /\ i - m + 1 \in 1 .. (Len(s) - m)
          BY <1>1, <2>3, <3>1, <3>2, <4>2
        <5>2. r[i] = b[i - m + 1]
          BY <3>1, <3>2, <3>3, <5>1
        <5>3. (i - m + 1) + m = i + 1
          BY <2>3
        <5> QED
          BY <3>2, <4>2, <5>1, <5>2, <5>3
      <4> QED
        BY <4>1, <4>2
    <3> QED
      BY <3>4, <3>5
  <2>6. DOMAIN r = 1 .. (Len(s) - 1)
    BY <2>5
  <2> HIDE DEF r
  <2>7. IsInjective(r)
    <3> SUFFICES ASSUME NEW i \in 1 .. (Len(s) - 1), NEW j \in 1 .. (Len(s) - 1), r[i] = r[j] PROVE i = j
      BY <2>6 DEF IsInjective
    <3> DEFINE at(k) == IF k < m THEN k ELSE k + 1
    <3>1. at(i) \in 1 .. Len(s) /\ at(j) \in 1 .. Len(s) /\ s[at(i)] = s[at(j)]
      BY <1>1, <2>3, <2>5
    <3>2. at(i) = at(j)
      <4> HIDE DEF at
      <4> QED
        BY <1>1, <3>1 DEF IsInjective
    <3> QED
      BY <2>3, <3>2
  <2>8. ToSet(r) = ToSet(s) \ {x}
    <3>1. ASSUME NEW y \in ToSet(r) PROVE y \in ToSet(s) \ {x}
      <4>1. PICK i \in 1 .. (Len(s) - 1) : y = r[i]
        BY <2>6 DEF ToSet
      <4> DEFINE j == IF i < m THEN i ELSE i + 1
      <4>2. j \in 1 .. Len(s) /\ j # m /\ y = s[j]
        BY <1>1, <2>3, <2>5, <4>1
      <4> HIDE DEF j
      <4> QED
        BY <1>1, <2>3, <4>2 DEF ToSet, IsInjective
    <3>2. ASSUME NEW y \in ToSet(s), y # x PROVE y \in ToSet(r)
      <4>1. PICK j \in 1 .. Len(s) : y = s[j]
        BY <1>1 DEF ToSet
      <4> DEFINE i == IF j < m THEN j ELSE j - 1
      <4>2. j # m
        BY <2>3, <3>2, <4>1
      <4>3. i \in 1 .. (Len(s) - 1) /\ (IF i < m THEN i ELSE i + 1) = j
        BY <1>1, <2>3, <4>1, <4>2
      <4> HIDE DEF i
      <4>4. r[i] = y
        BY <2>5, <4>1, <4>3
      <4> QED
        BY <2>6, <4>3, <4>4 DEF ToSet
    <3> QED
      BY <3>1, <3>2
  <2> QED
    BY <1>3, <2>5, <2>7, <2>8 DEF r
<1> QED
  BY <1>2, <1>3

-----------------------------------------------------------------------------
(* The document                                                            *)

Keys == UNION {[Names[k] -> Objects \union {None}] : k \in Kinds}
Docs == [list : [Kinds -> Seq(Objects)],
         key  : [Kinds -> Keys],
         name : [Objects -> AllNames \union {None}]]

Typed(d) ==
    /\ d \in Docs
    /\ \A k \in Kinds :
         /\ d.list[k] \in Seq(Pool[k]) /\ IsInjective(d.list[k])
         /\ d.key[k] \in [Names[k] -> Pool[k] \union {None}]
         /\ \A o \in Pool[k] : d.name[o] \in Names[k] \union {None}

\* NamesAreKeys, for one kind of object; true of data views only while they
\* are loaded.
KeyedAs(d, k) ==
    /\ \A o \in Listed(d, k) : d.name[o] # None /\ d.key[k][d.name[o]] = o
    /\ \A n \in Names[k] : d.key[k][n] # None =>
         d.key[k][n] \in Listed(d, k) /\ d.name[d.key[k][n]] = n

Keyed(d) == \A k \in {"port", "device"} : KeyedAs(d, k)

LEMMA PoolIs ==
  /\ Pool["port"] = Ports /\ Pool["device"] = Devices /\ Pool["view"] = Views
  /\ Names["port"] = PortNames /\ Names["device"] = DeviceNames /\ Names["view"] = ViewNames
  /\ \A k \in Kinds : /\ Pool[k] \subseteq Objects /\ Names[k] \subseteq AllNames
                      /\ None \notin Pool[k] /\ None \notin Names[k]
  /\ \A k, l \in Kinds : k # l => Pool[k] \intersect Pool[l] = {}
<1>1. /\ Pool["port"] = Ports /\ Pool["device"] = Devices /\ Pool["view"] = Views
      /\ Names["port"] = PortNames /\ Names["device"] = DeviceNames /\ Names["view"] = ViewNames
  BY DEF Pool, Names
<1>2. \A k \in Kinds : Pool[k] \subseteq Objects /\ Names[k] \subseteq AllNames
  BY <1>1 DEF Kinds, Objects, AllNames
<1> QED
  BY <1>1, <1>2, ProjectAssumption

\* An object is in one list and under one kind of name.
LEMMA TypedIs ==
  ASSUME NEW d, Typed(d), NEW k \in Kinds
  PROVE  /\ Listed(d, k) \subseteq Pool[k]
         /\ d = [list |-> d.list, key |-> d.key, name |-> d.name]
         /\ DOMAIN d.list = Kinds /\ DOMAIN d.key = Kinds /\ DOMAIN d.name = Objects
         /\ d.list \in [Kinds -> Seq(Objects)]
         /\ d.key \in [Kinds -> Keys]
         /\ d.name \in [Objects -> AllNames \union {None}]
<1>1. d \in Docs /\ d.list[k] \in Seq(Pool[k])
  BY DEF Typed
<1> QED
  BY <1>1, SeqIs DEF Docs, Listed

\* freePortName finds a name.
LEMMA NameIsFree ==
  ASSUME NEW d, Typed(d), NEW k \in Kinds, KeyedAs(d, k), NEW m \in Names[k]
  PROVE  \E n \in Names[k] : d.key[k][n] = None
<1> DEFINE f == [o \in Pool[k] |-> IF d.name[o] \in Names[k] THEN d.name[o] ELSE m]
<1>2. f \in [Pool[k] -> Names[k]]
  OBVIOUS
<1>3. PICK n \in Names[k] : \A o \in Pool[k] : f[o] # n
  <2> HIDE DEF f
  <2> QED
    BY <1>2, ProjectAssumption
<1>4. d.key[k][n] = None
  <2> SUFFICES ASSUME d.key[k][n] # None PROVE FALSE
    OBVIOUS
  <2>1. d.key[k][n] \in Pool[k] /\ d.name[d.key[k][n]] = n
    BY TypedIs DEF KeyedAs, Typed
  <2>2. f[d.key[k][n]] = n
    BY <2>1
  <2> HIDE DEF f
  <2> QED
    BY <1>3, <2>1, <2>2
<1> QED
  BY <1>4

LEMMA GivenIs ==
  ASSUME NEW d, NEW k, NEW asked \in Names[k], \E n \in Names[k] : d.key[k][n] = None
  PROVE  /\ Given(d, k, asked) \in Names[k] /\ d.key[k][Given(d, k, asked)] = None
         /\ d.key[k][asked] = None => Given(d, k, asked) = asked
<1>1. FreeName(d, k) \in Names[k] /\ d.key[k][FreeName(d, k)] = None
  BY DEF FreeName
<1> QED
  BY <1>1 DEF Given

LEMMA AddedIs ==
  ASSUME NEW d, Typed(d), NEW k \in Kinds, NEW o \in Gone(d, k), NEW asked \in Names[k],
         \E n \in Names[k] : d.key[k][n] = None
  PROVE  /\ Typed(Added(d, k, o, asked))
         /\ Added(d, k, o, asked).list[k] = Append(d.list[k], o)
         /\ \A l \in Kinds \ {k} : Added(d, k, o, asked).list[l] = d.list[l]
         /\ Listed(Added(d, k, o, asked), k) = Listed(d, k) \union {o}
         /\ \A l \in Kinds \ {k} : Listed(Added(d, k, o, asked), l) = Listed(d, l)
         /\ \A m \in Names[k] : Added(d, k, o, asked).key[k][m] = IF m = Given(d, k, asked) THEN o ELSE d.key[k][m]
         /\ \A l \in Kinds \ {k} : Added(d, k, o, asked).key[l] = d.key[l]
         /\ \A x \in Objects : Added(d, k, o, asked).name[x] = IF x = o THEN Given(d, k, asked) ELSE d.name[x]
<1> DEFINE n == Given(d, k, asked)
           a == Added(d, k, o, asked)
<1>1. n \in Names[k] /\ n \in AllNames
  BY GivenIs, PoolIs
<1>2. o \in Pool[k] /\ o \in Objects /\ o \notin Listed(d, k)
  BY PoolIs DEF Gone
<1>3. /\ a.list = [d.list EXCEPT ![k] = Append(d.list[k], o)]
      /\ a.key = [d.key EXCEPT ![k] = [d.key[k] EXCEPT ![n] = o]]
      /\ a.name = [d.name EXCEPT ![o] = n]
      /\ a = [list |-> a.list, key |-> a.key, name |-> a.name]
  BY TypedIs DEF Added
<1> HIDE DEF n, a
<1>4. /\ Append(d.list[k], o) \in Seq(Pool[k]) /\ IsInjective(Append(d.list[k], o))
      /\ ToSet(Append(d.list[k], o)) = Listed(d, k) \union {o}
  <2>1. d.list[k] \in Seq(Pool[k]) /\ IsInjective(d.list[k]) /\ o \notin ToSet(d.list[k])
    BY <1>2 DEF Typed, Listed
  <2> DEFINE L == d.list[k]
             P == Pool[k]
  <2>2. L \in Seq(P) /\ IsInjective(L) /\ o \notin ToSet(L) /\ o \in P
    BY <1>2, <2>1
  <2> HIDE DEF L, P
  <2>3. Append(L, o) \in Seq(P) /\ IsInjective(Append(L, o)) /\ ToSet(Append(L, o)) = ToSet(L) \union {o}
    BY <2>2, Appended
  <2> QED
    BY <2>3 DEF Listed, L, P
<1>5. a.list[k] = Append(d.list[k], o) /\ \A l \in Kinds \ {k} : a.list[l] = d.list[l]
  BY <1>3, TypedIs
<1>6. a.key[k] = [d.key[k] EXCEPT ![n] = o] /\ \A l \in Kinds \ {k} : a.key[l] = d.key[l]
  BY <1>3, TypedIs
<1>7. a.key[k] \in [Names[k] -> Pool[k] \union {None}]
  BY <1>1, <1>2, <1>6 DEF Typed
<1>8. Typed(a)
  <2>1. a.list \in [Kinds -> Seq(Objects)]
    <3>1. \A l \in Kinds : a.list[l] \in Seq(Pool[l])
      BY <1>4, <1>5 DEF Typed
    <3>2. \A l \in Kinds : Seq(Pool[l]) \subseteq Seq(Objects)
      BY PoolIs
    <3>3. DOMAIN a.list = Kinds /\ a.list = [l \in Kinds |-> a.list[l]]
      BY <1>3, TypedIs
    <3> QED
      BY <3>1, <3>2, <3>3
  <2>2. a.key \in [Kinds -> Keys]
    <3>1. \A l \in Kinds : a.key[l] \in [Names[l] -> Pool[l] \union {None}]
      BY <1>7, <1>3, <1>6 DEF Typed
    <3>2. \A l \in Kinds : a.key[l] \in [Names[l] -> Objects \union {None}]
      BY <3>1, PoolIs
    <3>3. DOMAIN a.key = Kinds /\ a.key = [l \in Kinds |-> a.key[l]]
      BY <1>3, TypedIs
    <3>4. \A l \in Kinds : a.key[l] \in Keys
      BY <3>2 DEF Keys
    <3> QED
      BY <3>3, <3>4
  <2>3. a.name \in [Objects -> AllNames \union {None}]
    <3>1. d.name \in [Objects -> AllNames \union {None}]
      BY TypedIs
    <3> QED
      BY <1>1, <1>3, <3>1
  <2>4. a \in Docs
    BY <1>3, <2>1, <2>2, <2>3 DEF Docs
  <2>5. ASSUME NEW l \in Kinds
        PROVE  /\ a.list[l] \in Seq(Pool[l]) /\ IsInjective(a.list[l])
               /\ a.key[l] \in [Names[l] -> Pool[l] \union {None}]
    BY <1>4, <1>5, <1>6, <1>7 DEF Typed
  <2>6. ASSUME NEW l \in Kinds, NEW x \in Pool[l]
        PROVE  a.name[x] \in Names[l] \union {None}
    <3>1. x \in Objects /\ (x = o => l = k)
      BY <1>2, PoolIs
    <3> QED
      BY <1>1, <1>3, <3>1, TypedIs DEF Typed
  <2> QED
    BY <2>4, <2>5, <2>6 DEF Typed
<1>9. \A m \in Names[k] : a.key[k][m] = IF m = n THEN o ELSE d.key[k][m]
  BY <1>6 DEF Typed
<1>10. \A x \in Objects : a.name[x] = IF x = o THEN n ELSE d.name[x]
  BY <1>3, TypedIs
<1> QED
  BY <1>4, <1>5, <1>6, <1>8, <1>9, <1>10 DEF Listed, n, a

LEMMA AddedKeyed ==
  ASSUME NEW d, Typed(d), NEW l \in Kinds, KeyedAs(d, l), NEW k \in Kinds, NEW o \in Gone(d, k), NEW asked \in Names[k],
         \E n \in Names[k] : d.key[k][n] = None
  PROVE  KeyedAs(Added(d, k, o, asked), l)
<1> DEFINE n == Given(d, k, asked)
           a == Added(d, k, o, asked)
<1>1. n \in Names[k] /\ d.key[k][n] = None /\ n # None
  BY GivenIs, PoolIs
<1>2. o \in Pool[k] /\ o \in Objects /\ o \notin Listed(d, k) /\ o # None
  BY PoolIs DEF Gone
<1>3. /\ Listed(a, k) = Listed(d, k) \union {o}
      /\ \A h \in Kinds \ {k} : Listed(a, h) = Listed(d, h)
  BY AddedIs
<1>4. /\ \A m \in Names[k] : a.key[k][m] = IF m = n THEN o ELSE d.key[k][m]
      /\ \A h \in Kinds \ {k} : a.key[h] = d.key[h]
  BY AddedIs
<1>5. \A x \in Objects : a.name[x] = IF x = o THEN n ELSE d.name[x]
  BY AddedIs
<1> HIDE DEF n, a
<1>6. ASSUME NEW x \in Listed(a, l)
      PROVE  a.name[x] # None /\ a.key[l][a.name[x]] = x
  <2>1. CASE x = o
    <3>1. l = k
      BY <1>2, <1>3, <2>1, PoolIs, TypedIs
    <3> QED
      BY <1>1, <1>2, <1>4, <1>5, <2>1, <3>1
  <2>2. CASE x # o
    <3>1. x \in Listed(d, l) /\ x \in Pool[l] /\ x \in Objects /\ x # None
      BY <1>3, <2>2, PoolIs, TypedIs
    <3>2. d.name[x] # None /\ d.key[l][d.name[x]] = x
      BY <3>1 DEF KeyedAs
    <3>3. d.name[x] \in Names[l] /\ a.name[x] = d.name[x]
      BY <1>5, <2>2, <3>1, <3>2 DEF Typed
    <3>4. l = k => d.name[x] # n
      BY <1>1, <3>1, <3>2
    <3> QED
      BY <1>4, <3>2, <3>3, <3>4
  <2> QED
    BY <2>1, <2>2
<1>7. ASSUME NEW m \in Names[l], a.key[l][m] # None
      PROVE  a.key[l][m] \in Listed(a, l) /\ a.name[a.key[l][m]] = m
  <2>1. CASE l = k /\ m = n
    BY <1>1, <1>2, <1>3, <1>4, <1>5, <2>1
  <2>2. CASE ~(l = k /\ m = n)
    <3>1. a.key[l][m] = d.key[l][m]
      BY <1>4, <2>2
    <3>2. d.key[l][m] \in Listed(d, l) /\ d.name[d.key[l][m]] = m
      BY <1>7, <3>1 DEF KeyedAs
    <3>3. d.key[l][m] \in Pool[l] /\ d.key[l][m] \in Objects
      BY <3>2, PoolIs, TypedIs
    <3>4. d.key[l][m] # o
      BY <1>2, <3>2, <3>3, PoolIs
    <3>5. d.key[l][m] \in Listed(a, l)
      BY <1>3, <3>2
    <3> QED
      BY <1>5, <3>1, <3>2, <3>3, <3>4, <3>5
  <2> QED
    BY <2>1, <2>2
<1> QED
  BY <1>6, <1>7 DEF KeyedAs, a

LEMMA RemovedIs ==
  ASSUME NEW d, Typed(d), NEW k \in Kinds, NEW o \in Listed(d, k)
  PROVE  /\ Typed(Removed(d, k, o))
         /\ Removed(d, k, o).list[k] = RemoveFirst(d.list[k], o)
         /\ \A l \in Kinds \ {k} : Removed(d, k, o).list[l] = d.list[l]
         /\ Listed(Removed(d, k, o), k) = Listed(d, k) \ {o}
         /\ \A l \in Kinds \ {k} : Listed(Removed(d, k, o), l) = Listed(d, l)
         /\ \A m \in Names[k] : Removed(d, k, o).key[k][m] = IF m = d.name[o] THEN None ELSE d.key[k][m]
         /\ \A l \in Kinds \ {k} : Removed(d, k, o).key[l] = d.key[l]
         /\ \A x \in Objects : Removed(d, k, o).name[x] = IF x = o THEN None ELSE d.name[x]
<1> DEFINE r == RemoveFirst(d.list[k], o)
           a == Removed(d, k, o)
<1>1. o \in Pool[k] /\ o \in Objects
  BY TypedIs, PoolIs
<1>2. /\ a.list = [d.list EXCEPT ![k] = r]
      /\ a.key = [d.key EXCEPT ![k] = [d.key[k] EXCEPT ![d.name[o]] = None]]
      /\ a.name = [d.name EXCEPT ![o] = None]
      /\ a = [list |-> a.list, key |-> a.key, name |-> a.name]
  BY TypedIs DEF Removed
<1>3. r \in Seq(Pool[k]) /\ IsInjective(r) /\ ToSet(r) = Listed(d, k) \ {o}
  BY WithoutIt DEF Typed, Listed
<1> HIDE DEF r, a
<1>4. a.list[k] = r /\ \A l \in Kinds \ {k} : a.list[l] = d.list[l]
  BY <1>2, TypedIs
<1>5. a.key[k] = [d.key[k] EXCEPT ![d.name[o]] = None] /\ \A l \in Kinds \ {k} : a.key[l] = d.key[l]
  BY <1>2, TypedIs
<1>6. a.key[k] \in [Names[k] -> Pool[k] \union {None}]
  BY <1>5 DEF Typed
<1>7. Typed(a)
  <2>1. a.list \in [Kinds -> Seq(Objects)]
    <3>1. \A l \in Kinds : a.list[l] \in Seq(Pool[l])
      BY <1>3, <1>4 DEF Typed
    <3>2. \A l \in Kinds : Seq(Pool[l]) \subseteq Seq(Objects)
      BY PoolIs
    <3>3. DOMAIN a.list = Kinds /\ a.list = [l \in Kinds |-> a.list[l]]
      BY <1>2, TypedIs
    <3> QED
      BY <3>1, <3>2, <3>3
  <2>2. a.key \in [Kinds -> Keys]
    <3>1. \A l \in Kinds : a.key[l] \in [Names[l] -> Pool[l] \union {None}]
      BY <1>6, <1>2, <1>5 DEF Typed
    <3>2. \A l \in Kinds : a.key[l] \in [Names[l] -> Objects \union {None}]
      BY <3>1, PoolIs
    <3>3. DOMAIN a.key = Kinds /\ a.key = [l \in Kinds |-> a.key[l]]
      BY <1>2, TypedIs
    <3>4. \A l \in Kinds : a.key[l] \in Keys
      BY <3>2 DEF Keys
    <3> QED
      BY <3>3, <3>4
  <2>3. a.name \in [Objects -> AllNames \union {None}]
    <3>1. d.name \in [Objects -> AllNames \union {None}]
      BY TypedIs
    <3> QED
      BY <1>2, <3>1
  <2>4. a \in Docs
    BY <1>2, <2>1, <2>2, <2>3 DEF Docs
  <2>5. ASSUME NEW l \in Kinds
        PROVE  /\ a.list[l] \in Seq(Pool[l]) /\ IsInjective(a.list[l])
               /\ a.key[l] \in [Names[l] -> Pool[l] \union {None}]
    BY <1>3, <1>4, <1>5, <1>6 DEF Typed
  <2>6. ASSUME NEW l \in Kinds, NEW x \in Pool[l]
        PROVE  a.name[x] \in Names[l] \union {None}
    BY <1>2, PoolIs, TypedIs DEF Typed
  <2> QED
    BY <2>4, <2>5, <2>6 DEF Typed
<1>8. \A m \in Names[k] : a.key[k][m] = IF m = d.name[o] THEN None ELSE d.key[k][m]
  BY <1>5 DEF Typed
<1>9. \A x \in Objects : a.name[x] = IF x = o THEN None ELSE d.name[x]
  BY <1>2, TypedIs
<1> QED
  BY <1>3, <1>4, <1>5, <1>7, <1>8, <1>9 DEF Listed, r, a

LEMMA RemovedKeyed ==
  ASSUME NEW d, Typed(d), NEW l \in Kinds, KeyedAs(d, l), NEW k \in Kinds, NEW o \in Listed(d, k)
  PROVE  KeyedAs(Removed(d, k, o), l)
<1> DEFINE a == Removed(d, k, o)
<1>1. o \in Pool[k] /\ o \in Objects
  BY TypedIs, PoolIs
<1>2. /\ Listed(a, k) = Listed(d, k) \ {o}
      /\ \A h \in Kinds \ {k} : Listed(a, h) = Listed(d, h)
  BY RemovedIs
<1>3. /\ \A m \in Names[k] : a.key[k][m] = IF m = d.name[o] THEN None ELSE d.key[k][m]
      /\ \A h \in Kinds \ {k} : a.key[h] = d.key[h]
  BY RemovedIs
<1>4. \A x \in Objects : a.name[x] = IF x = o THEN None ELSE d.name[x]
  BY RemovedIs
<1> HIDE DEF a
<1>5. ASSUME NEW x \in Listed(a, l)
      PROVE  a.name[x] # None /\ a.key[l][a.name[x]] = x
  <2>1. x \in Listed(d, l) /\ x \in Pool[l] /\ x \in Objects
    BY <1>2, PoolIs, TypedIs
  <2>2. x # o
    BY <1>1, <1>2, <2>1, PoolIs
  <2>3. d.name[x] # None /\ d.key[l][d.name[x]] = x
    BY <2>1 DEF KeyedAs
  <2>4. d.name[x] \in Names[l] /\ a.name[x] = d.name[x]
    BY <1>4, <2>1, <2>2, <2>3 DEF Typed
  <2>5. l = k => d.name[x] # d.name[o]
    BY <2>2, <2>3 DEF KeyedAs
  <2> QED
    BY <1>3, <2>3, <2>4, <2>5
<1>6. ASSUME NEW m \in Names[l], a.key[l][m] # None
      PROVE  a.key[l][m] \in Listed(a, l) /\ a.name[a.key[l][m]] = m
  <2>1. a.key[l][m] = d.key[l][m] /\ (l = k => m # d.name[o])
    BY <1>3, <1>6
  <2>2. d.key[l][m] \in Listed(d, l) /\ d.name[d.key[l][m]] = m
    BY <1>6, <2>1 DEF KeyedAs
  <2>3. d.key[l][m] \in Pool[l] /\ d.key[l][m] \in Objects
    BY <2>2, PoolIs, TypedIs
  <2>4. d.key[l][m] # o
    BY <1>1, <2>1, <2>2, <2>3, PoolIs
  <2> QED
    BY <1>2, <1>4, <2>1, <2>2, <2>3, <2>4
<1> QED
  BY <1>5, <1>6 DEF KeyedAs, a

LEMMA RenamedIs ==
  ASSUME NEW d, Typed(d), NEW k \in Kinds, NEW o \in Listed(d, k), NEW asked \in Names[k],
         \E n \in Names[k] : d.key[k][n] = None
  PROVE  /\ Typed(Renamed(d, k, o, asked))
         /\ Renamed(d, k, o, asked).list = d.list
         /\ \A l \in Kinds : Listed(Renamed(d, k, o, asked), l) = Listed(d, l)
         /\ \A l \in Kinds \ {k} : Renamed(d, k, o, asked).key[l] = d.key[l]
         /\ \A x \in Objects \ {o} : Renamed(d, k, o, asked).name[x] = d.name[x]
         /\ Renamed(d, k, o, asked).name[o] \in Names[k]
<1> DEFINE n == IF d.key[k][asked] = o THEN asked ELSE Given(d, k, asked)
           moves == d.key[k][asked] # o /\ d.key[k][d.name[o]] = o /\ d.key[k][n] = None
           keys == IF moves THEN [d.key[k] EXCEPT ![d.name[o]] = None, ![n] = o] ELSE d.key[k]
           m == IF k = "view" THEN asked ELSE n
           a == Renamed(d, k, o, asked)
<1>1. o \in Pool[k] /\ o \in Objects
  BY TypedIs, PoolIs
<1>2. n \in Names[k] /\ m \in Names[k] /\ m \in AllNames
  BY GivenIs, PoolIs
<1>0. d = [list |-> d.list, key |-> d.key, name |-> d.name] /\ DOMAIN d.key = Kinds
  BY TypedIs
<1>3. /\ a.list = d.list
      /\ a.key = [d.key EXCEPT ![k] = keys]
      /\ a.name = [d.name EXCEPT ![o] = m]
      /\ a = [list |-> a.list, key |-> a.key, name |-> a.name]
  <2>1. a = [d EXCEPT !.key = [d.key EXCEPT ![k] = keys], !.name = [d.name EXCEPT ![o] = m]]
    BY <1>0, Zenon DEF Renamed
  <2> HIDE DEF n, moves, keys, m, a
  <2> QED
    BY <1>0, <2>1
<1>4. keys \in [Names[k] -> Pool[k] \union {None}]
  BY <1>1, <1>2 DEF Typed
<1>5. d.key \in [Kinds -> Keys] /\ d.name \in [Objects -> AllNames \union {None}] /\ d.list \in [Kinds -> Seq(Objects)]
  BY TypedIs
<1> HIDE DEF n, moves, keys, m, a
<1>6. a.key[k] = keys /\ \A l \in Kinds \ {k} : a.key[l] = d.key[l]
  BY <1>3, <1>5
<1>7. \A x \in Objects : a.name[x] = IF x = o THEN m ELSE d.name[x]
  BY <1>3, <1>5
<1>8. Typed(a)
  <2>1. keys \in Keys
    BY <1>4, PoolIs DEF Keys
  <2>2. a.key \in [Kinds -> Keys]
    BY <1>3, <1>5, <2>1
  <2>3. a.name \in [Objects -> AllNames \union {None}]
    BY <1>2, <1>3, <1>5
  <2>4. a \in Docs
    BY <1>3, <1>5, <2>2, <2>3 DEF Docs
  <2>5. ASSUME NEW l \in Kinds
        PROVE  /\ a.list[l] \in Seq(Pool[l]) /\ IsInjective(a.list[l])
               /\ a.key[l] \in [Names[l] -> Pool[l] \union {None}]
    BY <1>3, <1>4, <1>6 DEF Typed
  <2>6. ASSUME NEW l \in Kinds, NEW x \in Pool[l]
        PROVE  a.name[x] \in Names[l] \union {None}
    <3>1. x \in Objects /\ (x = o => l = k)
      BY <1>1, PoolIs
    <3> QED
      BY <1>2, <1>7, <3>1 DEF Typed
  <2> QED
    BY <2>4, <2>5, <2>6 DEF Typed
<1>9. \A l \in Kinds : Listed(a, l) = Listed(d, l)
  BY <1>3 DEF Listed
<1> QED
  BY <1>1, <1>2, <1>3, <1>6, <1>7, <1>8, <1>9 DEF a

LEMMA RenamedKeyed ==
  ASSUME NEW d, Typed(d), Keyed(d), NEW k \in Kinds, NEW o \in Listed(d, k), NEW asked \in Names[k],
         \E n \in Names[k] : d.key[k][n] = None
  PROVE  Keyed(Renamed(d, k, o, asked))
<1> DEFINE n == IF d.key[k][asked] = o THEN asked ELSE Given(d, k, asked)
           a == Renamed(d, k, o, asked)
<1>1. o \in Pool[k] /\ o \in Objects /\ o # None
  BY TypedIs, PoolIs
<1>2. /\ \A l \in Kinds : Listed(a, l) = Listed(d, l)
      /\ \A l \in Kinds \ {k} : a.key[l] = d.key[l]
      /\ \A x \in Objects \ {o} : a.name[x] = d.name[x]
  BY RenamedIs
<1>3. k \in {"port", "device"} =>
        /\ a.name[o] = n
        /\ \A m \in Names[k] : a.key[k][m] = IF m = n THEN o
                                             ELSE IF m = d.name[o] THEN None ELSE d.key[k][m]
        /\ n \in Names[k] /\ d.key[k][n] \in {None, o}
  <2> HAVE k \in {"port", "device"}
  <2>1. d.name[o] # None /\ d.key[k][d.name[o]] = o
    BY DEF Keyed, KeyedAs
  <2>2. /\ Given(d, k, asked) \in Names[k] /\ d.key[k][Given(d, k, asked)] = None
    BY GivenIs
  <2>3. d.key[k] \in [Names[k] -> Pool[k] \union {None}] /\ d.name[o] \in Names[k]
    BY <1>1, <2>1 DEF Typed
  <2>4. /\ d.key \in [Kinds -> Keys] /\ d.name \in [Objects -> AllNames \union {None}]
        /\ d = [list |-> d.list, key |-> d.key, name |-> d.name]
    BY TypedIs
  <2>5. a.name[o] = n
    BY <1>1, <2>4 DEF Renamed
  <2>6. CASE d.key[k][asked] = o
    <3>1. a.key[k] = d.key[k]
      BY <2>4, <2>6 DEF Renamed
    <3>2. asked = d.name[o] /\ n = asked
      BY <1>1, <2>6 DEF Keyed, KeyedAs
    <3> QED
      BY <2>1, <2>5, <2>6, <3>1, <3>2
  <2>7. CASE d.key[k][asked] # o
    <3>1. n = Given(d, k, asked)
      BY <2>7
    <3>2. a.key[k] = [d.key[k] EXCEPT ![d.name[o]] = None, ![n] = o]
      BY <2>1, <2>2, <2>4, <2>7 DEF Renamed
    <3> HIDE DEF n
    <3> QED
      BY <1>1, <2>1, <2>2, <2>3, <2>5, <3>1, <3>2
  <2> QED
    BY <2>6, <2>7
<1> HIDE DEF n, a
<1>4. ASSUME NEW l \in {"port", "device"}, NEW x \in Listed(a, l)
      PROVE  a.name[x] # None /\ a.key[l][a.name[x]] = x
  <2>0. l \in Kinds
    BY DEF Kinds
  <2>1. x \in Listed(d, l) /\ x \in Pool[l] /\ x \in Objects
    BY <1>2, <2>0, PoolIs, TypedIs
  <2>2. CASE x = o
    <3>1. l = k
      BY <1>1, <2>0, <2>1, <2>2, PoolIs
    <3> QED
      BY <1>3, <2>0, <2>2, <3>1, PoolIs
  <2>3. CASE x # o
    <3>1. d.name[x] # None /\ d.key[l][d.name[x]] = x
      BY <2>1 DEF Keyed, KeyedAs
    <3>2. d.name[x] \in Names[l] /\ a.name[x] = d.name[x]
      BY <1>2, <2>0, <2>1, <2>3, <3>1 DEF Typed
    <3>3. l = k => d.name[x] # n /\ d.name[x] # d.name[o]
      <4> HAVE l = k
      <4>1. d.key[k][n] \in {None, o} /\ x # None
        BY <1>3, <2>0, <2>1, PoolIs
      <4>2. d.key[k][d.name[o]] = o
        BY DEF Keyed, KeyedAs
      <4> QED
        BY <2>3, <3>1, <4>1, <4>2
    <3> QED
      BY <1>2, <1>3, <2>0, <3>1, <3>2, <3>3
  <2> QED
    BY <2>2, <2>3
<1>5. ASSUME NEW l \in {"port", "device"}, NEW m \in Names[l], a.key[l][m] # None
      PROVE  a.key[l][m] \in Listed(a, l) /\ a.name[a.key[l][m]] = m
  <2>0. l \in Kinds
    BY DEF Kinds
  <2>1. CASE l = k /\ m = n
    BY <1>1, <1>2, <1>3, <2>0, <2>1
  <2>2. CASE ~(l = k /\ m = n)
    <3>1. a.key[l][m] = d.key[l][m] /\ (l = k => m # d.name[o])
      BY <1>2, <1>3, <1>5, <2>0, <2>2
    <3>2. d.key[l][m] \in Listed(d, l) /\ d.name[d.key[l][m]] = m
      BY <1>5, <3>1 DEF Keyed, KeyedAs
    <3>3. d.key[l][m] \in Pool[l] /\ d.key[l][m] \in Objects
      BY <2>0, <3>2, PoolIs, TypedIs
    <3>4. d.key[l][m] # o
      BY <1>1, <2>0, <3>1, <3>2, <3>3, PoolIs
    <3> QED
      BY <1>2, <2>0, <3>1, <3>2, <3>3, <3>4
  <2> QED
    BY <2>1, <2>2
<1> QED
  BY <1>4, <1>5 DEF Keyed, KeyedAs, a

-----------------------------------------------------------------------------
(* The devices of the ports                                                *)

Memberships == [members : [Ports -> Seq(Devices)], portOf : [Devices -> Ports \union {None}]]

AtItsPort(s) ==
    /\ s \in Memberships
    /\ \A p \in Ports : IsInjective(s.members[p])
    /\ \A p \in Ports, d \in Devices : d \in ToSet(s.members[p]) <=> s.portOf[d] = p

LEMMA NoneAtPorts == AtItsPort(NoMembers)
<1>1. NoMembers.members = [p \in Ports |-> <<>>] /\ NoMembers.portOf = [d \in Devices |-> None]
  BY DEF NoMembers
<1>2. NoMembers \in Memberships
  BY DEF NoMembers, Memberships
<1>3. None \notin Ports
  BY PoolIs DEF Kinds
<1>4. ToSet(<<>>) = {} /\ IsInjective(<<>>)
  BY DEF ToSet, IsInjective
<1> QED
  BY <1>1, <1>2, <1>3, <1>4 DEF AtItsPort

LEMMA JoinedIs ==
  ASSUME NEW s, AtItsPort(s), NEW p \in Ports, NEW d \in Devices, s.portOf[d] = None
  PROVE  /\ AtItsPort(Joined(s, p, d))
         /\ \A x \in Devices : Joined(s, p, d).portOf[x] = IF x = d THEN p ELSE s.portOf[x]
<1> DEFINE m == Append(s.members[p], d)
           a == Joined(s, p, d)
<1>1. /\ s = [members |-> s.members, portOf |-> s.portOf]
      /\ s.members \in [Ports -> Seq(Devices)] /\ s.portOf \in [Devices -> Ports \union {None}]
  BY DEF AtItsPort, Memberships
<1>2. a.members = [s.members EXCEPT ![p] = m] /\ a.portOf = [s.portOf EXCEPT ![d] = p]
      /\ a = [members |-> a.members, portOf |-> a.portOf]
  <2>1. a = [s EXCEPT !.members = [s.members EXCEPT ![p] = m], !.portOf = [s.portOf EXCEPT ![d] = p]]
    BY <1>1, Zenon DEF Joined
  <2> HIDE DEF m, a
  <2> QED
    BY <1>1, <2>1
<1>3. None \notin Ports
  BY PoolIs DEF Kinds
<1>4. d \notin ToSet(s.members[p])
  BY <1>3 DEF AtItsPort
<1>5. m \in Seq(Devices) /\ ToSet(m) = ToSet(s.members[p]) \union {d} /\ IsInjective(m)
  <2> DEFINE L == s.members[p]
  <2>1. L \in Seq(Devices) /\ IsInjective(L) /\ d \notin ToSet(L)
    BY <1>1, <1>4 DEF AtItsPort
  <2> HIDE DEF L
  <2>2. Append(L, d) \in Seq(Devices) /\ ToSet(Append(L, d)) = ToSet(L) \union {d} /\ IsInjective(Append(L, d))
    BY <2>1, Appended
  <2> QED
    BY <2>2 DEF L
<1> HIDE DEF m, a
<1>6. \A x \in Devices : a.portOf[x] = IF x = d THEN p ELSE s.portOf[x]
  BY <1>1, <1>2
<1>7. \A q \in Ports : a.members[q] = IF q = p THEN m ELSE s.members[q]
  BY <1>1, <1>2
<1>8. a \in Memberships
  <2>1. a.members \in [Ports -> Seq(Devices)] /\ a.portOf \in [Devices -> Ports \union {None}]
    BY <1>1, <1>2, <1>5
  <2> QED
    BY <1>2, <2>1 DEF Memberships
<1>9. AtItsPort(a)
  <2>1. \A q \in Ports : IsInjective(a.members[q])
    BY <1>5, <1>7 DEF AtItsPort
  <2>2. ASSUME NEW q \in Ports, NEW x \in Devices
        PROVE  x \in ToSet(a.members[q]) <=> a.portOf[x] = q
    <3>1. x \in ToSet(s.members[q]) <=> s.portOf[x] = q
      BY DEF AtItsPort
    <3> QED
      BY <1>3, <1>5, <1>6, <1>7, <3>1
  <2> QED
    BY <1>8, <2>1, <2>2 DEF AtItsPort
<1> QED
  BY <1>6, <1>9 DEF a

LEMMA PartedIs ==
  ASSUME NEW s, AtItsPort(s), NEW d \in Devices
  PROVE  /\ AtItsPort(Parted(s, s.portOf[d], d))
         /\ \A x \in Devices :
              Parted(s, s.portOf[d], d).portOf[x] = IF x = d THEN None ELSE s.portOf[x]
<1> DEFINE p == s.portOf[d]
           m == RemoveFirst(s.members[p], d)
           a == Parted(s, p, d)
<1>1. /\ s = [members |-> s.members, portOf |-> s.portOf]
      /\ s.members \in [Ports -> Seq(Devices)] /\ s.portOf \in [Devices -> Ports \union {None}]
  BY DEF AtItsPort, Memberships
<1>2. CASE p = None
  BY <1>2 DEF Parted
<1>3. CASE p # None
  <2>1. p \in Ports
    BY <1>1, <1>3
  <2>2. a.members = [s.members EXCEPT ![p] = m] /\ a.portOf = [s.portOf EXCEPT ![d] = None]
        /\ a = [members |-> a.members, portOf |-> a.portOf]
    <3>1. a = [s EXCEPT !.members = [s.members EXCEPT ![p] = m], !.portOf = [s.portOf EXCEPT ![d] = None]]
      BY <1>1, <1>3, Zenon DEF Parted
    <3> HIDE DEF m, a, p
    <3> QED
      BY <1>1, <3>1
  <2>3. None \notin Ports
    BY PoolIs DEF Kinds
  <2>4. m \in Seq(Devices) /\ ToSet(m) = ToSet(s.members[p]) \ {d} /\ IsInjective(m)
    <3> DEFINE L == s.members[p]
    <3>1. L \in Seq(Devices) /\ IsInjective(L)
      BY <1>1, <2>1 DEF AtItsPort
    <3> HIDE DEF L
    <3>2. RemoveFirst(L, d) \in Seq(Devices) /\ ToSet(RemoveFirst(L, d)) = ToSet(L) \ {d} /\ IsInjective(RemoveFirst(L, d))
      BY <3>1, WithoutIt
    <3> QED
      BY <3>2 DEF L
  <2>5. s.portOf[d] = p
    OBVIOUS
  <2> HIDE DEF m, a, p
  <2>6. \A x \in Devices : a.portOf[x] = IF x = d THEN None ELSE s.portOf[x]
    BY <1>1, <2>2
  <2>7. \A q \in Ports : a.members[q] = IF q = p THEN m ELSE s.members[q]
    BY <1>1, <2>2
  <2>8. a \in Memberships
    <3>1. a.members \in [Ports -> Seq(Devices)] /\ a.portOf \in [Devices -> Ports \union {None}]
      BY <1>1, <2>2, <2>4
    <3> QED
      BY <2>2, <3>1 DEF Memberships
  <2>9. AtItsPort(a)
    <3>1. \A q \in Ports : IsInjective(a.members[q])
      BY <2>4, <2>7 DEF AtItsPort
    <3>2. ASSUME NEW q \in Ports, NEW x \in Devices
          PROVE  x \in ToSet(a.members[q]) <=> a.portOf[x] = q
      <4>1. x \in ToSet(s.members[q]) <=> s.portOf[x] = q
        BY DEF AtItsPort
      <4> QED
        BY <2>3, <2>4, <2>5, <2>6, <2>7, <4>1
    <3> QED
      BY <2>8, <3>1, <3>2 DEF AtItsPort
  <2> QED
    BY <2>6, <2>9 DEF a, p
<1> QED
  BY <1>2, <1>3

LEMMA MovedIs ==
  ASSUME NEW s, AtItsPort(s), NEW p \in Ports, NEW d \in Devices
  PROVE  /\ AtItsPort(Moved(s, p, d))
         /\ \A x \in Devices : Moved(s, p, d).portOf[x] = IF x = d THEN p ELSE s.portOf[x]
<1> DEFINE a == Parted(s, s.portOf[d], d)
<1>1. AtItsPort(a) /\ \A x \in Devices : a.portOf[x] = IF x = d THEN None ELSE s.portOf[x]
  BY PartedIs
<1>2. Moved(s, p, d) = Joined(a, p, d)
  BY DEF Moved
<1> HIDE DEF a
<1>3. a.portOf[d] = None
  BY <1>1
<1>4. AtItsPort(Joined(a, p, d)) /\ \A x \in Devices : Joined(a, p, d).portOf[x] = IF x = d THEN p ELSE a.portOf[x]
  BY <1>1, <1>3, JoinedIs
<1> QED
  BY <1>1, <1>2, <1>4

-----------------------------------------------------------------------------
(* The references of the ports                                             *)

References == [refs   : [Ports -> Seq(Devices)],
               units  : [Ports -> [Devices -> SUBSET Units]],
               unitOf : [Ports -> [Units -> Devices \union {None}]]]

\* What a port serves it shows, and it shows no units without a reference.
Shown(s) ==
    /\ s \in References
    /\ \A p \in Ports : IsInjective(s.refs[p])
    /\ \A p \in Ports : \A u \in Units : s.unitOf[p][u] # None =>
         s.unitOf[p][u] \in ToSet(s.refs[p]) /\ u \in s.units[p][s.unitOf[p][u]]
    /\ \A p \in Ports : \A d \in Devices \ ToSet(s.refs[p]) : s.units[p][d] = {}

\* deviceFilterUnits: of the units that are asked for, those that are free.
Kept(s, p, d, asked) == {u \in asked : s.unitOf[p][u] \in {None, d}}

\* What a change of the units of one reference leaves of the others.
UnitsBecome(s, a, p, d, kept) ==
    /\ Shown(a)
    /\ \A q \in Ports, x \in Devices : ~(q = p /\ x = d) => a.units[q][x] = s.units[q][x]
    /\ kept # {} => a.units[p][d] = kept
    /\ \A q \in Ports, u \in Units : a.unitOf[q][u] =
         IF q # p THEN s.unitOf[q][u]
         ELSE IF u \in kept THEN d
         ELSE IF s.unitOf[q][u] = d THEN None ELSE s.unitOf[q][u]

LEMMA ReferencesAre ==
  ASSUME NEW s, Shown(s)
  PROVE  /\ s = [refs |-> s.refs, units |-> s.units, unitOf |-> s.unitOf]
         /\ s.refs \in [Ports -> Seq(Devices)]
         /\ s.units \in [Ports -> [Devices -> SUBSET Units]]
         /\ s.unitOf \in [Ports -> [Units -> Devices \union {None}]]
BY DEF Shown, References

LEMMA NoneShown == Shown(NoRefs)
<1>1. /\ NoRefs.refs = [p \in Ports |-> <<>>]
      /\ NoRefs.units = [p \in Ports |-> [d \in Devices |-> {}]]
      /\ NoRefs.unitOf = [p \in Ports |-> [u \in Units |-> None]]
  BY DEF NoRefs
<1>2. NoRefs \in References
  BY DEF NoRefs, References
<1>3. IsInjective(<<>>)
  BY DEF IsInjective
<1> QED
  BY <1>1, <1>2, <1>3 DEF Shown

\* freeDeviceUnit.
LEMMA FreeUnitIs ==
  ASSUME NEW free \in SUBSET Units
  PROVE  FreeUnit(free) \in SUBSET Units
<1> DEFINE some == free \intersect 1..(MaxUnit - 1)
<1>1. some \in SUBSET Nat /\ some \subseteq free
  BY ServerProjectAssumption DEF Units
<1>2. CASE some # {}
  <2>1. Min(some) \in some
    BY <1>1, <1>2, LeastNat DEF Min
  <2>2. FreeUnit(free) = {Min(some)}
    BY <1>2 DEF FreeUnit
  <2> QED
    BY <1>1, <2>1, <2>2
<1>3. CASE some = {}
  <2>1. FreeUnit(free) = free \intersect {0}
    BY <1>3 DEF FreeUnit
  <2> QED
    BY <2>1
<1> QED
  BY <1>2, <1>3

\* deviceSetUnits of a reference of the port.
LEMMA UnitsSetIs ==
  ASSUME NEW s, Shown(s), NEW p \in Ports, NEW d \in ToSet(s.refs[p]), NEW asked \in SUBSET Units
  PROVE  /\ UnitsSet(s, p, d, asked).refs = s.refs
         /\ UnitsBecome(s, UnitsSet(s, p, d, asked), p, d, Kept(s, p, d, asked))
<1> DEFINE left == UnitsRemoved(s, p, d)
           kept == {u \in asked : left[u] \in {None, d}}
           free == {u \in Units : left[u] = None}
           us == IF kept # {} THEN kept ELSE FreeUnit(free)
           of == [u \in Units |-> IF u \in kept THEN d ELSE left[u]]
           a == UnitsSet(s, p, d, asked)
           held == Kept(s, p, d, asked)
<1>1. /\ s = [refs |-> s.refs, units |-> s.units, unitOf |-> s.unitOf]
      /\ s.refs \in [Ports -> Seq(Devices)]
      /\ s.units \in [Ports -> [Devices -> SUBSET Units]]
      /\ s.unitOf \in [Ports -> [Units -> Devices \union {None}]]
  BY ReferencesAre
<1>2. d \in Devices /\ d # None
  BY <1>1, SeqIs, PoolIs DEF Kinds
<1>3. ASSUME NEW u \in Units
      PROVE  left[u] = (IF s.unitOf[p][u] = d THEN None ELSE s.unitOf[p][u])
  <2>1. s.unitOf[p][u] = d => u \in s.units[p][d]
    BY <1>2 DEF Shown
  <2> QED
    BY <2>1 DEF UnitsRemoved
<1>4. us \in SUBSET Units
  <2>1. kept \in SUBSET Units /\ free \in SUBSET Units
    OBVIOUS
  <2> HIDE DEF kept, free
  <2> QED
    BY <2>1, FreeUnitIs
<1>5. /\ a.refs = s.refs
      /\ a.units = [s.units EXCEPT ![p] = [s.units[p] EXCEPT ![d] = us]]
      /\ a.unitOf = [s.unitOf EXCEPT ![p] = of]
      /\ a = [refs |-> a.refs, units |-> a.units, unitOf |-> a.unitOf]
  <2>1. a = [s EXCEPT !.units = [s.units EXCEPT ![p] = [s.units[p] EXCEPT ![d] = us]],
                      !.unitOf = [s.unitOf EXCEPT ![p] = of]]
    BY <1>1, Zenon DEF UnitsSet
  <2> HIDE DEF left, kept, free, us, of, a
  <2> QED
    BY <1>1, <2>1
<1>6. kept = held
  <2>1. \A u \in asked : u \in Units
    OBVIOUS
  <2> HIDE DEF left
  <2> QED
    BY <1>2, <1>3, <2>1 DEF Kept
<1>7. \A u \in Units : of[u] = IF u \in held THEN d ELSE IF s.unitOf[p][u] = d THEN None ELSE s.unitOf[p][u]
  <2> HIDE DEF left, kept, held
  <2> QED
    BY <1>3, <1>6
<1>8. of \in [Units -> Devices \union {None}]
  <2>1. \A u \in Units : of[u] \in Devices \union {None}
    <3> SUFFICES ASSUME NEW u \in Units PROVE of[u] \in Devices \union {None}
      OBVIOUS
    <3> HIDE DEF of, held, left, kept
    <3>1. s.unitOf[p][u] \in Devices \union {None}
      BY <1>1
    <3> QED
      BY <1>2, <1>7, <3>1
  <2>2. of = [u \in Units |-> of[u]]
    OBVIOUS
  <2> HIDE DEF of
  <2> QED
    BY <2>1, <2>2
<1>9. held # {} => us = held
  <2> HIDE DEF kept, held, free
  <2> QED
    BY <1>6
<1> HIDE DEF left, kept, free, us, of, a
<1>10. \A q \in Ports : a.unitOf[q] = IF q = p THEN of ELSE s.unitOf[q]
  BY <1>1, <1>5
<1>11. \A q \in Ports, x \in Devices : a.units[q][x] = IF q = p /\ x = d THEN us ELSE s.units[q][x]
  BY <1>1, <1>5
<1>12. a \in References
  <2>1. a.units \in [Ports -> [Devices -> SUBSET Units]]
    <3>1. [s.units[p] EXCEPT ![d] = us] \in [Devices -> SUBSET Units]
      BY <1>1, <1>4
    <3> QED
      BY <1>1, <1>5, <3>1
  <2>2. a.unitOf \in [Ports -> [Units -> Devices \union {None}]]
    BY <1>1, <1>5, <1>8
  <2> QED
    BY <1>1, <1>5, <2>1, <2>2 DEF References
<1>13. ASSUME NEW q \in Ports, NEW u \in Units, a.unitOf[q][u] # None
       PROVE  a.unitOf[q][u] \in ToSet(a.refs[q]) /\ u \in a.units[q][a.unitOf[q][u]]
  <2>1. CASE q = p /\ u \in held
    <3>1. a.unitOf[q][u] = d
      BY <1>7, <1>10, <2>1
    <3>2. u \in us
      BY <1>9, <2>1
    <3> HIDE DEF held
    <3> QED
      BY <1>2, <1>5, <1>11, <2>1, <3>1, <3>2
  <2>2. CASE ~(q = p /\ u \in held)
    <3> HIDE DEF held
    <3>1. a.unitOf[q][u] = s.unitOf[q][u] /\ (q = p => s.unitOf[q][u] # d)
      BY <1>7, <1>10, <1>13, <2>2
    <3>2. s.unitOf[q][u] \in ToSet(s.refs[q]) /\ u \in s.units[q][s.unitOf[q][u]] /\ s.unitOf[q][u] \in Devices
      BY <1>1, <1>13, <3>1 DEF Shown
    <3> QED
      BY <1>5, <1>11, <3>1, <3>2
  <2> QED
    BY <2>1, <2>2
<1>14. ASSUME NEW q \in Ports, NEW x \in Devices \ ToSet(a.refs[q])
       PROVE  a.units[q][x] = {}
  BY <1>5, <1>11 DEF Shown
<1>15. Shown(a)
  BY <1>5, <1>12, <1>13, <1>14 DEF Shown
<1>16. \A q \in Ports, u \in Units : a.unitOf[q][u] = IF q # p THEN s.unitOf[q][u]
                  ELSE IF u \in held THEN d
                  ELSE IF s.unitOf[q][u] = d THEN None ELSE s.unitOf[q][u]
  <2> HIDE DEF held
  <2> QED
    BY <1>7, <1>10
<1>17. held # {} => a.units[p][d] = held
  <2> HIDE DEF held
  <2> QED
    BY <1>2, <1>9, <1>11
<1>18. \A q \in Ports, x \in Devices : ~(q = p /\ x = d) => a.units[q][x] = s.units[q][x]
  BY <1>11
<1>19. UnitsBecome(s, a, p, d, held)
  <2> HIDE DEF held
  <2> QED
    BY <1>15, <1>16, <1>17, <1>18 DEF UnitsBecome
<1> QED
  BY <1>5, <1>19 DEF a

\* deviceInsert of a device that the port does not have.
LEMMA RefAddedIs ==
  ASSUME NEW s, Shown(s), NEW p \in Ports, NEW d \in Devices, d \notin ToSet(s.refs[p]),
         NEW asked \in SUBSET Units
  PROVE  /\ UnitsBecome(s, RefAdded(s, p, d, asked), p, d, Kept(s, p, d, asked))
         /\ RefAdded(s, p, d, asked).refs[p] = Append(s.refs[p], d)
         /\ \A q \in Ports \ {p} : RefAdded(s, p, d, asked).refs[q] = s.refs[q]
<1> DEFINE m == Append(s.refs[p], d)
           b == [s EXCEPT !.refs[p] = Append(@, d), !.units[p][d] = {}]
           a == UnitsSet(b, p, d, asked)
           kept == Kept(s, p, d, asked)
           held == Kept(b, p, d, asked)
<1>1. /\ s = [refs |-> s.refs, units |-> s.units, unitOf |-> s.unitOf]
      /\ s.refs \in [Ports -> Seq(Devices)]
      /\ s.units \in [Ports -> [Devices -> SUBSET Units]]
      /\ s.unitOf \in [Ports -> [Units -> Devices \union {None}]]
  BY ReferencesAre
<1>2. m \in Seq(Devices) /\ ToSet(m) = ToSet(s.refs[p]) \union {d} /\ IsInjective(m)
  <2> DEFINE L == s.refs[p]
  <2>1. L \in Seq(Devices) /\ IsInjective(L) /\ d \notin ToSet(L)
    BY <1>1 DEF Shown
  <2> HIDE DEF L
  <2>2. Append(L, d) \in Seq(Devices) /\ ToSet(Append(L, d)) = ToSet(L) \union {d} /\ IsInjective(Append(L, d))
    BY <2>1, Appended
  <2> QED
    BY <2>2 DEF L
<1>3. s.units[p][d] = {} /\ s.units = [s.units EXCEPT ![p] = [s.units[p] EXCEPT ![d] = {}]]
  <2>1. s.units[p][d] = {}
    BY DEF Shown
  <2> QED
    BY <1>1, <2>1
<1>4. /\ b.refs = [s.refs EXCEPT ![p] = m] /\ b.units = s.units /\ b.unitOf = s.unitOf
      /\ b = [refs |-> b.refs, units |-> b.units, unitOf |-> b.unitOf]
  <2>1. b = [s EXCEPT !.refs = [s.refs EXCEPT ![p] = m],
                      !.units = [s.units EXCEPT ![p] = [s.units[p] EXCEPT ![d] = {}]]]
    BY <1>1, Zenon
  <2> HIDE DEF b, m
  <2> QED
    BY <1>1, <1>3, <2>1
<1>5. RefAdded(s, p, d, asked) = a
  BY DEF RefAdded
<1> HIDE DEF m, b
<1>6. \A q \in Ports : b.refs[q] = IF q = p THEN m ELSE s.refs[q]
  BY <1>1, <1>4
<1>7. Shown(b)
  <2>1. b \in References
    <3>1. b.refs \in [Ports -> Seq(Devices)]
      BY <1>1, <1>2, <1>4
    <3> QED
      BY <1>1, <1>4, <3>1 DEF References
  <2>2. \A q \in Ports : IsInjective(b.refs[q])
    BY <1>2, <1>6 DEF Shown
  <2>3. \A q \in Ports : ToSet(s.refs[q]) \subseteq ToSet(b.refs[q])
    BY <1>2, <1>6
  <2> QED
    BY <1>4, <2>1, <2>2, <2>3 DEF Shown
<1>8. d \in ToSet(b.refs[p])
  BY <1>2, <1>6
<1>9. held = kept
  BY <1>4 DEF Kept
<1>10. a.refs = b.refs /\ UnitsBecome(b, a, p, d, held)
  BY <1>7, <1>8, UnitsSetIs
<1> HIDE DEF a, kept, held
<1>11. UnitsBecome(s, a, p, d, kept)
  BY <1>4, <1>9, <1>10 DEF UnitsBecome
<1>12. a.refs[p] = m /\ \A q \in Ports \ {p} : a.refs[q] = s.refs[q]
  BY <1>6, <1>10
<1> QED
  BY <1>5, <1>11, <1>12 DEF m, kept

\* deviceRemove: nothing happens to a port that does not have the device.
LEMMA RefRemovedIs ==
  ASSUME NEW s, Shown(s), NEW p \in Ports, NEW d \in Devices
  PROVE  /\ Shown(RefRemoved(s, p, d))
         /\ ToSet(RefRemoved(s, p, d).refs[p]) = ToSet(s.refs[p]) \ {d}
         /\ \A q \in Ports \ {p} : RefRemoved(s, p, d).refs[q] = s.refs[q]
<1> DEFINE m == RemoveFirst(s.refs[p], d)
           of == UnitsRemoved(s, p, d)
           a == RefRemoved(s, p, d)
<1>1. /\ s = [refs |-> s.refs, units |-> s.units, unitOf |-> s.unitOf]
      /\ s.refs \in [Ports -> Seq(Devices)]
      /\ s.units \in [Ports -> [Devices -> SUBSET Units]]
      /\ s.unitOf \in [Ports -> [Units -> Devices \union {None}]]
  BY ReferencesAre
<1>2. d # None
  BY PoolIs DEF Kinds
<1>3. ASSUME NEW u \in Units
      PROVE  of[u] = (IF s.unitOf[p][u] = d THEN None ELSE s.unitOf[p][u])
  <2>1. s.unitOf[p][u] = d => u \in s.units[p][d]
    BY <1>2 DEF Shown
  <2> QED
    BY <2>1 DEF UnitsRemoved
<1>4. m \in Seq(Devices) /\ ToSet(m) = ToSet(s.refs[p]) \ {d} /\ IsInjective(m)
  <2> DEFINE L == s.refs[p]
  <2>1. L \in Seq(Devices) /\ IsInjective(L)
    BY <1>1 DEF Shown
  <2> HIDE DEF L
  <2>2. RemoveFirst(L, d) \in Seq(Devices) /\ ToSet(RemoveFirst(L, d)) = ToSet(L) \ {d} /\ IsInjective(RemoveFirst(L, d))
    BY <2>1, WithoutIt
  <2> QED
    BY <2>2 DEF L
<1>5. /\ a.refs = [s.refs EXCEPT ![p] = m]
      /\ a.units = [s.units EXCEPT ![p] = [s.units[p] EXCEPT ![d] = {}]]
      /\ a.unitOf = [s.unitOf EXCEPT ![p] = of]
      /\ a = [refs |-> a.refs, units |-> a.units, unitOf |-> a.unitOf]
  <2>1. a = [s EXCEPT !.refs = [s.refs EXCEPT ![p] = m],
                      !.unitOf = [s.unitOf EXCEPT ![p] = of],
                      !.units = [s.units EXCEPT ![p] = [s.units[p] EXCEPT ![d] = {}]]]
    BY <1>1, Zenon DEF RefRemoved
  <2> HIDE DEF m, of, a
  <2> QED
    BY <1>1, <2>1
<1>6. of \in [Units -> Devices \union {None}]
  <2>1. \A u \in Units : of[u] \in Devices \union {None}
    <3> HIDE DEF of
    <3> QED
      BY <1>1, <1>3
  <2>2. of = [u \in Units |-> of[u]]
    BY DEF UnitsRemoved
  <2> HIDE DEF of
  <2> QED
    BY <2>1, <2>2
<1> HIDE DEF m, of, a
<1>7. \A q \in Ports : a.refs[q] = IF q = p THEN m ELSE s.refs[q]
  BY <1>1, <1>5
<1>8. \A q \in Ports : a.unitOf[q] = IF q = p THEN of ELSE s.unitOf[q]
  BY <1>1, <1>5
<1>9. \A q \in Ports, x \in Devices : a.units[q][x] = IF q = p /\ x = d THEN {} ELSE s.units[q][x]
  BY <1>1, <1>5
<1>10. a \in References
  <2>1. a.units \in [Ports -> [Devices -> SUBSET Units]]
    <3>1. [s.units[p] EXCEPT ![d] = {}] \in [Devices -> SUBSET Units]
      BY <1>1
    <3> QED
      BY <1>1, <1>5, <3>1
  <2>2. a.unitOf \in [Ports -> [Units -> Devices \union {None}]]
    BY <1>1, <1>5, <1>6
  <2>3. a.refs \in [Ports -> Seq(Devices)]
    BY <1>1, <1>4, <1>5
  <2> QED
    BY <1>5, <2>1, <2>2, <2>3 DEF References
<1>11. ASSUME NEW q \in Ports, NEW u \in Units, a.unitOf[q][u] # None
       PROVE  a.unitOf[q][u] \in ToSet(a.refs[q]) /\ u \in a.units[q][a.unitOf[q][u]]
  <2>1. a.unitOf[q][u] = s.unitOf[q][u] /\ (q = p => s.unitOf[q][u] # d)
    BY <1>3, <1>8, <1>11
  <2>2. s.unitOf[q][u] \in ToSet(s.refs[q]) /\ u \in s.units[q][s.unitOf[q][u]] /\ s.unitOf[q][u] \in Devices
    BY <1>1, <1>11, <2>1 DEF Shown
  <2> QED
    BY <1>4, <1>7, <1>9, <2>1, <2>2
<1>12. ASSUME NEW q \in Ports, NEW x \in Devices \ ToSet(a.refs[q])
       PROVE  a.units[q][x] = {}
  BY <1>4, <1>7, <1>9 DEF Shown
<1>13. \A q \in Ports : IsInjective(a.refs[q])
  BY <1>4, <1>7 DEF Shown
<1>14. Shown(a)
  BY <1>10, <1>11, <1>12, <1>13 DEF Shown
<1> QED
  BY <1>4, <1>7, <1>14 DEF a

-----------------------------------------------------------------------------
(* The loops of the commands                                               *)

\* The first of a list.
First(L, i) == {L[j] : j \in 1 .. i}

LEMMA FirstAre ==
  ASSUME NEW S, NEW L \in Seq(S)
  PROVE  /\ First(L, 0) = {} /\ First(L, Len(L)) = ToSet(L)
         /\ \A i \in 1 .. Len(L) : First(L, i) = First(L, i - 1) \union {L[i]}
         /\ IsInjective(L) => \A i \in 1 .. Len(L) : L[i] \notin First(L, i - 1)
         /\ \A i \in 0 .. Len(L) : First(L, i) \subseteq ToSet(L)
<1>1. Len(L) \in Nat /\ DOMAIN L = 1 .. Len(L)
  OBVIOUS
<1>2. First(L, 0) = {} /\ First(L, Len(L)) = ToSet(L)
  BY <1>1 DEF First, ToSet
<1>3. ASSUME NEW i \in 1 .. Len(L) PROVE First(L, i) = First(L, i - 1) \union {L[i]}
  <2>1. \A j : j \in 1 .. i <=> (j \in 1 .. (i - 1) \/ j = i)
    BY <1>1
  <2> QED
    BY <2>1 DEF First
<1>4. ASSUME IsInjective(L), NEW i \in 1 .. Len(L) PROVE L[i] \notin First(L, i - 1)
  <2>1. \A j \in 1 .. (i - 1) : j \in 1 .. Len(L) /\ j # i
    BY <1>1
  <2> QED
    BY <1>1, <1>4, <2>1 DEF First, IsInjective
<1>5. \A i \in 0 .. Len(L) : First(L, i) \subseteq ToSet(L)
  BY <1>1 DEF First, ToSet
<1> QED
  BY <1>2, <1>3, <1>4, <1>5

LEMMA FirstOf ==
  ASSUME NEW S, NEW s \in Seq(S), NEW L, \A j \in 1 .. Len(s) : s[j] = L[j]
  PROVE  ToSet(s) = First(L, Len(s))
<1>1. DOMAIN s = 1 .. Len(s)
  OBVIOUS
<1> QED
  BY <1>1 DEF ToSet, First

\* menuSlotPortClearAllDevice: the devices leave their port.
LEMMA AllPartedIs ==
  ASSUME AtItsPort(Members), NEW p \in Ports
  PROVE  /\ AtItsPort(AllParted(p))
         /\ \A x \in Devices : AllParted(p).portOf[x] =
              IF x \in ToSet(members[p]) THEN None ELSE portOf[x]
<1> DEFINE L == members[p]
           N == Len(L)
           G == [i \in 0 .. N |-> {s \in Memberships : AtItsPort(s) /\ \A x \in Devices :
                   s.portOf[x] = IF x \in First(L, i) THEN None ELSE portOf[x]}]
           step == [i \in 1 .. N |-> [s \in Memberships |-> Parted(s, p, L[i])]]
           f[i \in 0 .. N] == IF i = 0 THEN Members ELSE Parted(f[i - 1], p, L[i])
<1>1. Members.members = members /\ Members.portOf = portOf
  BY DEF Members
<1>2. Members \in Memberships /\ L \in Seq(Devices) /\ IsInjective(L) /\ ToSet(L) \subseteq Devices
  <2>1. Members \in Memberships /\ L \in Seq(Devices) /\ IsInjective(L)
    BY <1>1 DEF AtItsPort, Memberships
  <2> QED
    BY <2>1, SeqIs
<1>3. N \in Nat
  BY <1>2
<1>4. AllParted(p) = f[N]
  BY DEF AllParted
<1> HIDE DEF L
<1>5. Members \in G[0]
  BY <1>1, <1>2, <1>3, FirstAre
<1>6. ASSUME NEW i \in 1 .. N, NEW s \in G[i - 1]
      PROVE  Parted(s, p, L[i]) \in G[i]
  <2>1. i - 1 \in 0 .. N /\ i \in 0 .. N
    BY <1>3
  <2>2. AtItsPort(s) /\ \A x \in Devices : s.portOf[x] = IF x \in First(L, i - 1) THEN None ELSE portOf[x]
    BY <2>1
  <2>3. L[i] \in Devices /\ L[i] \in ToSet(L) /\ L[i] \notin First(L, i - 1)
        /\ First(L, i) = First(L, i - 1) \union {L[i]}
    BY <1>2, FirstAre, SeqIs
  <2>4. portOf[L[i]] = p
    BY <1>1, <2>3 DEF AtItsPort, L
  <2>5. s.portOf[L[i]] = p
    BY <2>2, <2>3, <2>4
  <2>6. AtItsPort(Parted(s, p, L[i])) /\ \A x \in Devices :
          Parted(s, p, L[i]).portOf[x] = IF x = L[i] THEN None ELSE s.portOf[x]
    BY <2>2, <2>3, <2>5, PartedIs
  <2>7. \A x \in Devices : Parted(s, p, L[i]).portOf[x] = IF x \in First(L, i) THEN None ELSE portOf[x]
    BY <2>2, <2>3, <2>6
  <2>8. Parted(s, p, L[i]) \in Memberships
    BY <2>6 DEF AtItsPort
  <2> QED
    BY <2>1, <2>6, <2>7, <2>8
<1>7. \A i \in 0 .. N : G[i] \subseteq Memberships
  OBVIOUS
<1> HIDE DEF G, N
<1>8. \E g : g = [i \in 0 .. N |-> IF i = 0 THEN Members ELSE Parted(g[i - 1], p, L[i])]
  <2>1. \A i \in 1 .. N : \A s \in G[i - 1] : step[i][s] = Parted(s, p, L[i])
    BY <1>3, <1>7
  <2> HIDE DEF step
  <2>a. \A i \in 1 .. N : \A s \in G[i - 1] : step[i][s] \in G[i]
    BY <1>6, <2>1
  <2>2. PICK g : Turns(N, Members, step, g) /\ \A i \in 0 .. N : g[i] \in G[i]
    BY <1>3, <1>5, <2>a, Loop
  <2>3. \A i \in 1 .. N : step[i][g[i - 1]] = Parted(g[i - 1], p, L[i])
    BY <1>3, <2>1, <2>2
  <2>4. g = [i \in 0 .. N |-> IF i = 0 THEN Members ELSE Parted(g[i - 1], p, L[i])]
    BY <1>3, <2>2, <2>3 DEF Turns
  <2> QED
    BY <2>4
<1>9. f = [i \in 0 .. N |-> IF i = 0 THEN Members ELSE Parted(f[i - 1], p, L[i])]
  <2> DEFINE turn(g) == [i \in 0 .. N |-> IF i = 0 THEN Members ELSE Parted(g[i - 1], p, L[i])]
  <2>1. f = CHOOSE g : g = turn(g)
    BY DEF f
  <2>2. f = turn(f)
    BY <1>8, <2>1
  <2> QED
    BY <2>2
<1> HIDE DEF f
<1>10. f[0] = Members /\ \A i \in 1 .. N : f[i] = Parted(f[i - 1], p, L[i])
  BY <1>3, <1>9
<1>11. \A i \in 0 .. N : f[i] \in G[i]
  BY <1>3, <1>5, <1>6, <1>10, EachTurn
<1>12. f[N] \in G[N]
  BY <1>3, <1>11
<1>13. AtItsPort(f[N]) /\ \A x \in Devices : f[N].portOf[x] = IF x \in First(L, N) THEN None ELSE portOf[x]
  BY <1>3, <1>12 DEF G
<1>14. First(L, N) = ToSet(L)
  BY <1>2, FirstAre DEF N
<1> QED
  BY <1>4, <1>13, <1>14 DEF L

\* menuSlotDeviceDelete: a device of the server leaves all ports.
LEMMA RefsRemovedIs ==
  ASSUME Shown(Refs), Typed(doc), NEW d \in Devices,
         \A p \in Ports : refs[p] # <<>> => p \in Listed(doc, "port")
  PROVE  /\ Shown(RefsRemoved(d))
         /\ \A p \in Ports : ToSet(RefsRemoved(d).refs[p]) = ToSet(refs[p]) \ {d}
<1> DEFINE L == doc.list["port"]
           N == Len(L)
           G == [i \in 0 .. N |-> {s \in References :
                   /\ Shown(s)
                   /\ \A p \in Ports : ToSet(s.refs[p]) =
                        IF p \in First(L, i) THEN ToSet(refs[p]) \ {d} ELSE ToSet(refs[p])}]
           step == [i \in 1 .. N |-> [s \in References |-> RefRemoved(s, L[i], d)]]
           f[i \in 0 .. N] == IF i = 0 THEN Refs ELSE RefRemoved(f[i - 1], L[i], d)
<1>1. Refs.refs = refs
  BY DEF Refs
<1>2. L \in Seq(Ports) /\ ToSet(L) = Listed(doc, "port")
  BY PoolIs DEF Typed, Listed, Kinds
<1>3. N \in Nat
  BY <1>2
<1>4. RefsRemoved(d) = f[N]
  BY DEF RefsRemoved
<1> HIDE DEF L
<1>5. Refs \in G[0]
  <2>1. Refs \in References
    BY DEF Shown
  <2> QED
    BY <1>1, <1>2, <1>3, <2>1, FirstAre
<1>6. ASSUME NEW i \in 1 .. N, NEW s \in G[i - 1]
      PROVE  RefRemoved(s, L[i], d) \in G[i]
  <2>1. i - 1 \in 0 .. N /\ i \in 0 .. N
    BY <1>3
  <2>2. /\ Shown(s)
        /\ \A p \in Ports : ToSet(s.refs[p]) =
                        IF p \in First(L, i - 1) THEN ToSet(refs[p]) \ {d} ELSE ToSet(refs[p])
    BY <2>1
  <2>3. L[i] \in Ports /\ First(L, i) = First(L, i - 1) \union {L[i]}
    BY <1>2, FirstAre, SeqIs
  <2>4. /\ Shown(RefRemoved(s, L[i], d))
        /\ ToSet(RefRemoved(s, L[i], d).refs[L[i]]) = ToSet(s.refs[L[i]]) \ {d}
        /\ \A q \in Ports \ {L[i]} : RefRemoved(s, L[i], d).refs[q] = s.refs[q]
    <3>1. Shown(s) /\ L[i] \in Ports
      BY <2>2, <2>3
    <3> QED
      BY <3>1, RefRemovedIs
  <2>5. RefRemoved(s, L[i], d) \in References
    BY <2>4 DEF Shown
  <2>6. ASSUME NEW p \in Ports
        PROVE  ToSet(RefRemoved(s, L[i], d).refs[p]) =
                 IF p \in First(L, i) THEN ToSet(refs[p]) \ {d} ELSE ToSet(refs[p])
    BY <2>2, <2>3, <2>4
  <2> QED
    BY <2>1, <2>4, <2>5, <2>6
<1>7. \A i \in 0 .. N : G[i] \subseteq References
  OBVIOUS
<1> HIDE DEF G, N
<1>8. \E g : g = [i \in 0 .. N |-> IF i = 0 THEN Refs ELSE RefRemoved(g[i - 1], L[i], d)]
  <2>1. \A i \in 1 .. N : \A s \in G[i - 1] : step[i][s] = RefRemoved(s, L[i], d)
    BY <1>3, <1>7
  <2> HIDE DEF step
  <2>2. \A i \in 1 .. N : \A s \in G[i - 1] : step[i][s] \in G[i]
    BY <1>6, <2>1
  <2>3. PICK g : Turns(N, Refs, step, g) /\ \A i \in 0 .. N : g[i] \in G[i]
    BY <1>3, <1>5, <2>2, Loop
  <2>4. \A i \in 1 .. N : step[i][g[i - 1]] = RefRemoved(g[i - 1], L[i], d)
    BY <1>3, <2>1, <2>3
  <2>5. g = [i \in 0 .. N |-> IF i = 0 THEN Refs ELSE RefRemoved(g[i - 1], L[i], d)]
    BY <1>3, <2>3, <2>4 DEF Turns
  <2> QED
    BY <2>5
<1>9. f = [i \in 0 .. N |-> IF i = 0 THEN Refs ELSE RefRemoved(f[i - 1], L[i], d)]
  <2> DEFINE turn(g) == [i \in 0 .. N |-> IF i = 0 THEN Refs ELSE RefRemoved(g[i - 1], L[i], d)]
  <2>1. f = CHOOSE g : g = turn(g)
    BY DEF f
  <2>2. f = turn(f)
    BY <1>8, <2>1
  <2> QED
    BY <2>2
<1> HIDE DEF f
<1>10. f[0] = Refs /\ \A i \in 1 .. N : f[i] = RefRemoved(f[i - 1], L[i], d)
  BY <1>3, <1>9
<1>11. \A i \in 0 .. N : f[i] \in G[i]
  BY <1>3, <1>5, <1>6, <1>10, EachTurn
<1>12. f[N] \in G[N]
  BY <1>3, <1>11
<1>13. First(L, N) = Listed(doc, "port")
  BY <1>2, FirstAre DEF N
<1>14. /\ Shown(f[N])
       /\ \A p \in Ports : ToSet(f[N].refs[p]) =
            IF p \in First(L, N) THEN ToSet(refs[p]) \ {d} ELSE ToSet(refs[p])
  <2>1. N \in 0 .. N
    BY <1>3
  <2>2. f[N] \in {s \in References :
                   /\ Shown(s)
                   /\ \A p \in Ports : ToSet(s.refs[p]) =
                        IF p \in First(L, N) THEN ToSet(refs[p]) \ {d} ELSE ToSet(refs[p])}
    BY <1>12, <2>1, Zenon DEF G
  <2> QED
    BY <2>2
<1>15. \A p \in Ports \ Listed(doc, "port") : ToSet(refs[p]) = {}
  BY DEF ToSet
<1>16. ASSUME NEW p \in Ports PROVE ToSet(f[N].refs[p]) = ToSet(refs[p]) \ {d}
  <2>1. CASE p \in Listed(doc, "port")
    BY <1>13, <1>14, <2>1
  <2>2. CASE p \notin Listed(doc, "port")
    <3>1. ToSet(refs[p]) = {} /\ p \notin First(L, N)
      BY <1>13, <1>15, <2>2
    <3> QED
      BY <1>14, <3>1
  <2> QED
    BY <2>1, <2>2
<1> QED
  BY <1>4, <1>14, <1>16

-----------------------------------------------------------------------------
(* Files                                                                   *)

\* toProject: the objects of a kind, in their order; each has its own name if
\* no two of them have the same.
LEMMA LoadedKindIs ==
  ASSUME NEW d, Typed(d), NEW k \in Kinds, KeyedAs(d, k), d.list[k] = <<>>,
         NEW file, file.list[k] \in Seq(Pool[k]), IsInjective(file.list[k]),
         \A o \in ToSet(file.list[k]) : file.name[o] \in Names[k]
  PROVE  /\ Typed(LoadedKind(d, k, file)) /\ KeyedAs(LoadedKind(d, k, file), k)
         /\ LoadedKind(d, k, file).list[k] = file.list[k]
         /\ \A l \in Kinds \ {k} : LoadedKind(d, k, file).list[l] = d.list[l]
         /\ \A l \in Kinds \ {k} : LoadedKind(d, k, file).key[l] = d.key[l]
         /\ \A x \in Objects \ Pool[k] : LoadedKind(d, k, file).name[x] = d.name[x]
         /\ \A o \in ToSet(file.list[k]) : LoadedKind(d, k, file).name[o] \in Names[k]
         /\ (\A o, x \in ToSet(file.list[k]) : file.name[o] = file.name[x] => o = x) =>
              \A o \in ToSet(file.list[k]) : LoadedKind(d, k, file).name[o] = file.name[o]
<1> DEFINE L == file.list[k]
           N == Len(L)
           Apart == \A o, x \in ToSet(L) : file.name[o] = file.name[x] => o = x
           Same(c, i) ==
               /\ Typed(c) /\ KeyedAs(c, k)
               /\ Len(c.list[k]) = i /\ \A j \in 1 .. i : c.list[k][j] = L[j]
               /\ \A l \in Kinds \ {k} : c.list[l] = d.list[l]
               /\ \A l \in Kinds \ {k} : c.key[l] = d.key[l]
               /\ \A x \in Objects \ Pool[k] : c.name[x] = d.name[x]
               /\ \A o \in First(L, i) : c.name[o] \in Names[k]
               /\ Apart => \A o \in First(L, i) : c.name[o] = file.name[o]
           G == [i \in 0 .. N |-> {c \in Docs : Same(c, i)}]
           step == [i \in 1 .. N |-> [c \in Docs |-> Added(c, k, L[i], file.name[L[i]])]]
           f[i \in 0 .. N] == IF i = 0 THEN d ELSE Added(f[i - 1], k, L[i], file.name[L[i]])
<1>2. L \in Seq(Pool[k]) /\ IsInjective(L) /\ ToSet(L) \subseteq Pool[k]
  BY SeqIs
<1>3. N \in Nat
  BY <1>2
<1>4. LoadedKind(d, k, file) = f[N]
  BY DEF LoadedKind
<1>a. \A o \in ToSet(L) : file.name[o] \in Names[k]
  OBVIOUS
<1> HIDE DEF L, Apart
<1>5. d \in G[0]
  <2>1. d \in Docs
    BY DEF Typed
  <2>2. First(L, 0) = {}
    BY <1>2, FirstAre
  <2>3. Same(d, 0)
    BY <2>2
  <2> QED
    BY <1>3, <2>1, <2>3
<1>6. ASSUME NEW i \in 1 .. N, NEW c \in G[i - 1]
      PROVE  Added(c, k, L[i], file.name[L[i]]) \in G[i]
  <2> DEFINE o == L[i]
             n == file.name[o]
             a == Added(c, k, o, n)
             m == Given(c, k, n)
  <2>1. i - 1 \in 0 .. N /\ i \in 0 .. N /\ i - 1 \in Nat
    BY <1>3
  <2>2. Same(c, i - 1)
    <3> HIDE DEF Same
    <3> QED
      BY <2>1
  <2>3. /\ o \in Pool[k] /\ o \in ToSet(L) /\ o \notin First(L, i - 1)
        /\ First(L, i) = First(L, i - 1) \union {o}
        /\ First(L, i - 1) \subseteq ToSet(L)
    BY <1>2, <2>1, FirstAre, SeqIs
  <2>4. n \in Names[k]
    BY <1>a, <2>3
  <2>5. Listed(c, k) = First(L, i - 1)
    <3>1. c.list[k] \in Seq(Pool[k]) /\ Len(c.list[k]) = i - 1 /\ \A j \in 1 .. (i - 1) : c.list[k][j] = L[j]
      BY <2>2 DEF Typed
    <3> QED
      BY <3>1, FirstOf DEF Listed
  <2>6. o \in Gone(c, k)
    BY <2>3, <2>5 DEF Gone
  <2>7. \E nn \in Names[k] : c.key[k][nn] = None
    BY <2>2, <2>4, NameIsFree
  <2>8. m \in Names[k] /\ (c.key[k][n] = None => m = n)
    BY <2>4, <2>7, GivenIs
  <2>9. Apart => m = n
    <3> SUFFICES ASSUME Apart, c.key[k][n] # None PROVE FALSE
      BY <2>8
    <3> DEFINE x == c.key[k][n]
    <3>1. x \in First(L, i - 1) /\ c.name[x] = n
      <4>1. KeyedAs(c, k)
        BY <2>2
      <4>2. x \in Listed(c, k) /\ c.name[x] = n
        BY <2>4, <4>1 DEF KeyedAs
      <4> QED
        BY <2>5, <4>2
    <3>2. file.name[x] = n
      BY <2>2, <3>1
    <3> HIDE DEF x
    <3>3. x = o
      BY <2>3, <3>1, <3>2 DEF Apart
    <3> QED
      BY <2>3, <3>1, <3>3
  <2>10. /\ Typed(a) /\ KeyedAs(a, k)
         /\ a.list[k] = Append(c.list[k], o)
         /\ \A l \in Kinds \ {k} : a.list[l] = c.list[l]
         /\ \A l \in Kinds \ {k} : a.key[l] = c.key[l]
         /\ \A x \in Objects : a.name[x] = IF x = o THEN m ELSE c.name[x]
    <3>1. Typed(c) /\ KeyedAs(c, k)
      BY <2>2
    <3> HIDE DEF Same, o, n, L
    <3>2. /\ Typed(a)
          /\ a.list[k] = Append(c.list[k], o)
          /\ \A l \in Kinds \ {k} : a.list[l] = c.list[l]
          /\ \A l \in Kinds \ {k} : a.key[l] = c.key[l]
          /\ \A x \in Objects : a.name[x] = IF x = o THEN m ELSE c.name[x]
      BY <2>4, <2>6, <2>7, <3>1, AddedIs
    <3>3. KeyedAs(a, k)
      BY <2>4, <2>6, <2>7, <3>1, AddedKeyed
    <3> QED
      BY <3>2, <3>3
  <2>11. o \in Objects /\ ToSet(L) \subseteq Objects
    BY <1>2, <2>3, PoolIs
  <2> HIDE DEF o, n, a, m
  <2>12. Len(a.list[k]) = i /\ \A j \in 1 .. i : a.list[k][j] = L[j]
    <3>1. c.list[k] \in Seq(Pool[k]) /\ Len(c.list[k]) = i - 1 /\ \A j \in 1 .. (i - 1) : c.list[k][j] = L[j]
      BY <2>2 DEF Typed
    <3> DEFINE C == c.list[k]
    <3> HIDE DEF C
    <3>2. /\ Len(Append(C, o)) = i /\ Append(C, o)[i] = o
          /\ \A j \in 1 .. (i - 1) : Append(C, o)[j] = C[j]
      <4>1. C \in Seq(Pool[k]) /\ Len(C) = i - 1 /\ (i - 1) + 1 = i
        BY <2>1, <3>1 DEF C
      <4> QED
        BY <2>3, <4>1, Appended
    <3> QED
      BY <2>1, <2>10, <3>1, <3>2 DEF C, o
  <2>13. \A x \in Objects \ Pool[k] : a.name[x] = d.name[x]
    BY <2>2, <2>3, <2>10
  <2>14. /\ \A x \in First(L, i) : a.name[x] \in Names[k]
         /\ Apart => \A x \in First(L, i) : a.name[x] = file.name[x]
    BY <2>2, <2>3, <2>8, <2>9, <2>10, <2>11 DEF n
  <2>15. Same(a, i)
    BY <2>2, <2>10, <2>12, <2>13, <2>14
  <2>16. a \in Docs
    BY <2>10 DEF Typed
  <2> QED
    BY <2>1, <2>15, <2>16 DEF a, n, o
<1>7. \A i \in 0 .. N : G[i] \subseteq Docs
  OBVIOUS
<1> HIDE DEF Same
<1> HIDE DEF G, N
<1>8. \E g : g = [i \in 0 .. N |-> IF i = 0 THEN d ELSE Added(g[i - 1], k, L[i], file.name[L[i]])]
  <2>1. \A i \in 1 .. N : \A s \in G[i - 1] : step[i][s] = Added(s, k, L[i], file.name[L[i]])
    BY <1>3, <1>7
  <2> HIDE DEF step
  <2>2. \A i \in 1 .. N : \A s \in G[i - 1] : step[i][s] \in G[i]
    BY <1>6, <2>1
  <2>3. PICK g : Turns(N, d, step, g) /\ \A i \in 0 .. N : g[i] \in G[i]
    BY <1>3, <1>5, <2>2, Loop
  <2>4. \A i \in 1 .. N : step[i][g[i - 1]] = Added(g[i - 1], k, L[i], file.name[L[i]])
    BY <1>3, <2>1, <2>3
  <2>5. g = [i \in 0 .. N |-> IF i = 0 THEN d ELSE Added(g[i - 1], k, L[i], file.name[L[i]])]
    BY <1>3, <2>3, <2>4 DEF Turns
  <2> QED
    BY <2>5
<1>9. f = [i \in 0 .. N |-> IF i = 0 THEN d ELSE Added(f[i - 1], k, L[i], file.name[L[i]])]
  <2> DEFINE turn(g) == [i \in 0 .. N |-> IF i = 0 THEN d ELSE Added(g[i - 1], k, L[i], file.name[L[i]])]
  <2>1. f = CHOOSE g : g = turn(g)
    BY DEF f
  <2>2. f = turn(f)
    BY <1>8, <2>1
  <2> QED
    BY <2>2
<1> HIDE DEF f
<1>10. f[0] = d /\ \A i \in 1 .. N : f[i] = Added(f[i - 1], k, L[i], file.name[L[i]])
  BY <1>3, <1>9
<1>11. \A i \in 0 .. N : f[i] \in G[i]
  BY <1>3, <1>5, <1>6, <1>10, EachTurn
<1>12. f[N] \in G[N]
  BY <1>3, <1>11
<1>13. Same(f[N], N)
  BY <1>3, <1>12 DEF G
<1>14. First(L, N) = ToSet(L)
  BY <1>2, FirstAre DEF N
<1>15. f[N].list[k] = L
  <2> DEFINE C == f[N].list[k]
  <2>1. C \in Seq(Pool[k]) /\ Len(C) = Len(L) /\ \A j \in 1 .. Len(C) : C[j] = L[j]
    BY <1>13 DEF Same, Typed, N
  <2> HIDE DEF C
  <2>2. C = L
    BY <1>2, <2>1, SeqEqual
  <2> QED
    BY <2>2 DEF C
<1> QED
  BY <1>4, <1>13, <1>14, <1>15 DEF Same, Apart, L

\* mb::toUnitsList reads what mb::toUnitsString writes: each unit is in a run
\* of units that ends on both sides.
LEMMA RunOf ==
  ASSUME NEW us \in SUBSET Units, NEW u \in us
  PROVE  \E r \in Units \X Units :
            /\ r[1] <= u /\ u <= r[2] /\ r[1]..r[2] \subseteq us
            /\ r[1] - 1 \notin us /\ r[2] + 1 \notin us
<1> DEFINE A == {l \in 0 .. u : l .. u \subseteq us}
           B == {h \in Nat : u <= h /\ h + 1 \notin us}
<1>1. MaxUnit \in Nat /\ u \in Nat /\ u <= MaxUnit /\ \A v \in us : v \in Nat /\ v <= MaxUnit
  BY ServerProjectAssumption DEF Units
<1>2. PICK lo \in A : \A y \in A : lo <= y
  <2>1. u \in A /\ A \in SUBSET Nat
    BY <1>1
  <2> HIDE DEF A
  <2> QED
    BY <2>1, LeastNat
<1>3. PICK hi \in B : \A y \in B : hi <= y
  <2>1. MaxUnit \in B /\ B \in SUBSET Nat
    BY <1>1
  <2> HIDE DEF B
  <2> QED
    BY <2>1, LeastNat
<1>4. lo - 1 \notin us
  <2> SUFFICES ASSUME lo - 1 \in us PROVE FALSE
    OBVIOUS
  <2>1. lo - 1 \in 0 .. u /\ \A v \in (lo - 1) .. u : v = lo - 1 \/ v \in lo .. u
    BY <1>1, <1>2
  <2>2. lo - 1 \in A
    BY <1>2, <2>1
  <2> QED
    BY <1>1, <1>2, <2>2
<1>5. ASSUME NEW v \in u .. hi PROVE v \in us
  <2> SUFFICES ASSUME v \notin us PROVE FALSE
    OBVIOUS
  <2>1. v - 1 \in Nat /\ u <= v - 1 /\ (v - 1) + 1 \notin us
    BY <1>1, <1>3
  <2>2. v - 1 \in B
    BY <2>1
  <2> QED
    BY <1>1, <1>3, <2>2
<1>6. lo .. hi \subseteq us
  <2>1. \A v \in lo .. hi : v \in lo .. u \/ v \in u .. hi
    BY <1>1, <1>2, <1>3
  <2> QED
    BY <1>2, <1>5, <2>1
<1>7. lo \in Units /\ hi \in Units /\ hi + 1 \notin us /\ lo <= u /\ u <= hi
  <2>1. lo \in us /\ hi \in us
    BY <1>1, <1>2, <1>3, <1>5
  <2> QED
    BY <1>2, <1>3, <2>1
<1> QED
  <2>1. <<lo, hi>> \in Units \X Units /\ <<lo, hi>>[1] = lo /\ <<lo, hi>>[2] = hi
    BY <1>7
  <2> QED
    BY <1>4, <1>6, <1>7, <2>1

LEMMA UnitsRound ==
  ASSUME NEW us \in SUBSET Units
  PROVE  UnitsList(UnitsStr(us), DefaultUnits) = IF us = {} THEN DefaultUnits ELSE us
<1> DEFINE runs == {r \in Units \X Units : /\ r[1] <= r[2] /\ r[1]..r[2] \subseteq us
                                           /\ r[1] - 1 \notin us /\ r[2] + 1 \notin us}
           long == {r \in runs : r[2] - r[1] >= 2}
           short == {<<u, u>> : u \in UNION {r[1]..r[2] : r \in runs \ long}}
           str == long \union short
<1>1. UnitsStr(us) = str
  BY DEF UnitsStr
<1>2. \A u \in Units : u \in Nat
  BY ServerProjectAssumption DEF Units
<1>3. ASSUME NEW r \in str PROVE r[1]..r[2] # {} /\ r[1]..r[2] \subseteq us
  <2>1. CASE r \in long
    BY <1>2, <2>1
  <2>2. CASE r \in short
    <3>1. PICK u \in UNION {x[1]..x[2] : x \in runs \ long} : r = <<u, u>>
      BY <2>2
    <3>2. PICK x \in runs \ long : u \in x[1]..x[2]
      BY <3>1
    <3>3. u \in us
      BY <3>2
    <3>4. r[1] = u /\ r[2] = u /\ u..u = {u}
      BY <1>2, <3>1, <3>3
    <3> QED
      BY <3>3, <3>4
  <2> QED
    BY <2>1, <2>2
<1>4. ASSUME NEW u \in us PROVE \E r \in str : u \in r[1]..r[2]
  <2>1. PICK r \in Units \X Units :
            /\ r[1] <= u /\ u <= r[2] /\ r[1]..r[2] \subseteq us
            /\ r[1] - 1 \notin us /\ r[2] + 1 \notin us
    BY RunOf
  <2>2. r \in runs /\ u \in r[1]..r[2]
    BY <1>2, <2>1
  <2>3. CASE r \in long
    BY <2>2, <2>3
  <2>4. CASE r \notin long
    <3>1. u \in UNION {x[1]..x[2] : x \in runs \ long}
      BY <2>2, <2>4
    <3>2. <<u, u>> \in short
      BY <3>1
    <3>3. u \in <<u, u>>[1]..<<u, u>>[2]
      BY <1>2
    <3> QED
      BY <3>2, <3>3
  <2> QED
    BY <2>3, <2>4
<1> HIDE DEF runs, long, short, str
<1>5. CASE us = {}
  <2>1. str = {}
    BY <1>3, <1>5
  <2> QED
    BY <1>1, <1>5, <2>1 DEF UnitsList
<1>6. CASE us # {}
  <2>1. str # {}
    BY <1>4, <1>6
  <2>2. UNION {r[1]..r[2] : r \in str} = us
    BY <1>3, <1>4
  <2> QED
    BY <1>1, <1>6, <2>1, <2>2 DEF UnitsList
<1> QED
  BY <1>5, <1>6

\* mbClientBuilder::toProject: a device joins the port that it was written with.
LEMMA LoadedMembersIs ==
  ASSUME NEW d, Typed(d), NEW written,
         \A x \in Listed(d, "device") : written[x] \in PortNames \union {None}
  PROVE  /\ AtItsPort(LoadedMembers(d, written))
         /\ \A x \in Devices : LoadedMembers(d, written).portOf[x] =
              IF x \in Listed(d, "device") THEN Found(d, "port", written[x]) ELSE None
<1> DEFINE L == d.list["device"]
           N == Len(L)
           Same(s, i) == /\ AtItsPort(s)
                         /\ \A x \in Devices : s.portOf[x] =
                              IF x \in First(L, i) THEN Found(d, "port", written[x]) ELSE None
           G == [i \in 0 .. N |-> {s \in Memberships : Same(s, i)}]
           step == [i \in 1 .. N |-> [s \in Memberships |-> JoinedByName(d, s, L[i], written[L[i]])]]
           f[i \in 0 .. N] == IF i = 0 THEN NoMembers ELSE JoinedByName(d, f[i - 1], L[i], written[L[i]])
<1>1. /\ L \in Seq(Devices) /\ IsInjective(L) /\ ToSet(L) = Listed(d, "device")
      /\ d.key["port"] \in [PortNames -> Ports \union {None}]
  BY PoolIs DEF Typed, Listed, Kinds
<1>2. ASSUME NEW x \in ToSet(L)
      PROVE  Found(d, "port", written[x]) \in Ports \union {None}
  BY <1>1, <1>2 DEF Found
<1>3. N \in Nat
  BY <1>1
<1>4. LoadedMembers(d, written) = f[N]
  BY DEF LoadedMembers
<1> HIDE DEF L
<1>5. NoMembers \in G[0]
  <2>1. NoMembers \in Memberships /\ First(L, 0) = {} /\ 0 \in 0 .. N
    BY <1>1, <1>3, NoneAtPorts, FirstAre DEF AtItsPort
  <2>2. \A x \in Devices : NoMembers.portOf[x] = None
    BY DEF NoMembers
  <2> QED
    BY <2>1, <2>2, NoneAtPorts
<1>6. ASSUME NEW i \in 1 .. N, NEW s \in G[i - 1]
      PROVE  JoinedByName(d, s, L[i], written[L[i]]) \in G[i]
  <2> DEFINE x == L[i]
             p == Found(d, "port", written[x])
             a == JoinedByName(d, s, x, written[x])
  <2>1. i - 1 \in 0 .. N /\ i \in 0 .. N
    BY <1>3
  <2>2. Same(s, i - 1) /\ s \in Memberships
    <3> HIDE DEF Same
    <3> QED
      BY <2>1
  <2>3. x \in Devices /\ x \in ToSet(L) /\ x \notin First(L, i - 1)
        /\ First(L, i) = First(L, i - 1) \union {x}
    BY <1>1, FirstAre, SeqIs
  <2>4. p \in Ports \union {None} /\ s.portOf[x] = None
    BY <1>2, <2>2, <2>3
  <2>5. AtItsPort(a) /\ \A y \in Devices : a.portOf[y] = IF y = x THEN p ELSE s.portOf[y]
    <3>1. CASE p = None
      <4>1. a = s
        BY <3>1 DEF JoinedByName
      <4> HIDE DEF p, a
      <4> QED
        BY <2>2, <2>4, <3>1, <4>1
    <3>2. CASE p # None
      <4>1. a = Joined(s, p, x) /\ p \in Ports
        BY <2>4, <3>2 DEF JoinedByName
      <4> HIDE DEF p, a, x
      <4> QED
        BY <2>2, <2>3, <2>4, <4>1, JoinedIs
    <3> QED
      BY <3>1, <3>2
  <2>6. a \in Memberships
    BY <2>5 DEF AtItsPort
  <2>7. Same(a, i)
    <3> SUFFICES ASSUME NEW y \in Devices
                 PROVE  a.portOf[y] = IF y \in First(L, i) THEN Found(d, "port", written[y]) ELSE None
      BY <2>5
    <3> HIDE DEF a
    <3>1. CASE y = x
      BY <2>3, <2>5, <3>1
    <3>2. CASE y # x
      BY <2>2, <2>3, <2>5, <3>2
    <3> QED
      BY <3>1, <3>2
  <2> HIDE DEF Same
  <2> QED
    BY <2>1, <2>6, <2>7
<1>7. \A i \in 0 .. N : G[i] \subseteq Memberships
  OBVIOUS
<1> HIDE DEF Same
<1> HIDE DEF G, N
<1>8. \E g : g = [i \in 0 .. N |-> IF i = 0 THEN NoMembers ELSE JoinedByName(d, g[i - 1], L[i], written[L[i]])]
  <2>1. \A i \in 1 .. N : \A s \in G[i - 1] : step[i][s] = JoinedByName(d, s, L[i], written[L[i]])
    BY <1>3, <1>7
  <2> HIDE DEF step
  <2>2. \A i \in 1 .. N : \A s \in G[i - 1] : step[i][s] \in G[i]
    BY <1>6, <2>1
  <2>3. PICK g : Turns(N, NoMembers, step, g) /\ \A i \in 0 .. N : g[i] \in G[i]
    BY <1>3, <1>5, <2>2, Loop
  <2>4. \A i \in 1 .. N : step[i][g[i - 1]] = JoinedByName(d, g[i - 1], L[i], written[L[i]])
    BY <1>3, <2>1, <2>3
  <2>5. g = [i \in 0 .. N |-> IF i = 0 THEN NoMembers ELSE JoinedByName(d, g[i - 1], L[i], written[L[i]])]
    BY <1>3, <2>3, <2>4 DEF Turns
  <2> QED
    BY <2>5
<1>9. f = [i \in 0 .. N |-> IF i = 0 THEN NoMembers ELSE JoinedByName(d, f[i - 1], L[i], written[L[i]])]
  <2> DEFINE turn(g) == [i \in 0 .. N |-> IF i = 0 THEN NoMembers ELSE JoinedByName(d, g[i - 1], L[i], written[L[i]])]
  <2>1. f = CHOOSE g : g = turn(g)
    BY DEF f
  <2>2. f = turn(f)
    BY <1>8, <2>1
  <2> QED
    BY <2>2
<1> HIDE DEF f
<1>10. f[0] = NoMembers /\ \A i \in 1 .. N : f[i] = JoinedByName(d, f[i - 1], L[i], written[L[i]])
  BY <1>3, <1>9
<1>11. \A i \in 0 .. N : f[i] \in G[i]
  BY <1>3, <1>5, <1>6, <1>10, EachTurn
<1>12. f[N] \in G[N]
  BY <1>3, <1>11
<1>13. Same(f[N], N)
  BY <1>3, <1>12 DEF G
<1>14. First(L, N) = Listed(d, "device")
  BY <1>1, FirstAre DEF N
<1> QED
  BY <1>4, <1>13, <1>14 DEF Same

\* Every unit that is shown for a device of D is served, and no other.
Served(us, of, D) ==
    /\ \A x \in D : us[x] # {} /\ \A u \in us[x] : of[u] = x
    /\ \A u \in Units : of[u] # None => of[u] \in D /\ u \in us[of[u]]

\* The port p of c has the first i references of L; the other ports are as in s.
PortIsAs(c, s, p, L, i, us, of) ==
    /\ Shown(c)
    /\ Len(c.refs[p]) = i /\ \A j \in 1 .. i : c.refs[p][j] = L[j]
    /\ \A q \in Ports \ {p} : /\ c.refs[q] = s.refs[q]
                              /\ \A x \in Devices : c.units[q][x] = s.units[q][x]
                              /\ \A u \in Units : c.unitOf[q][u] = s.unitOf[q][u]
    /\ Served(us, of, ToSet(L)) =>
         /\ \A x \in First(L, i) : c.units[p][x] = us[x]
         /\ \A u \in Units : c.unitOf[p][u] = IF of[u] \in First(L, i) THEN of[u] ELSE None

LEMMA RefLoaded ==
  ASSUME NEW L \in Seq(Devices), IsInjective(L), NEW i \in 1 .. Len(L),
         NEW s, NEW p \in Ports, NEW us \in [Devices -> SUBSET Units],
         NEW of, NEW c, PortIsAs(c, s, p, L, i - 1, us, of)
  PROVE  PortIsAs(RefAdded(c, p, L[i], UnitsList(UnitsStr(us[L[i]]), DefaultUnits)), s, p, L, i, us, of)
<1> DEFINE x == L[i]
           asked == UnitsList(UnitsStr(us[x]), DefaultUnits)
           a == RefAdded(c, p, x, asked)
           R == c.refs[p]
<1>1. /\ x \in Devices /\ x \in ToSet(L) /\ x \notin First(L, i - 1)
      /\ First(L, i) = First(L, i - 1) \union {x} /\ First(L, i - 1) \subseteq ToSet(L)
      /\ ToSet(L) \subseteq Devices
  BY FirstAre, SeqIs
<1>2. Shown(c) /\ R \in Seq(Devices) /\ Len(R) = i - 1 /\ \A j \in 1 .. (i - 1) : R[j] = L[j]
  BY ReferencesAre DEF PortIsAs
<1>3. ToSet(R) = First(L, i - 1)
  <2> HIDE DEF R
  <2> QED
    BY <1>2, FirstOf
<1>4. asked \in SUBSET Units /\ (us[x] # {} => asked = us[x])
  BY <1>1, UnitsRound, ServerProjectAssumption
<1> HIDE DEF x, asked
<1>5. /\ UnitsBecome(c, a, p, x, Kept(c, p, x, asked))
      /\ a.refs[p] = Append(R, x)
      /\ \A q \in Ports \ {p} : a.refs[q] = c.refs[q]
  BY <1>1, <1>2, <1>3, <1>4, RefAddedIs
<1> HIDE DEF a, R
<1>6. Len(Append(R, x)) = i /\ \A j \in 1 .. i : Append(R, x)[j] = L[j]
  <2>1. /\ Len(Append(R, x)) = (i - 1) + 1 /\ Append(R, x)[(i - 1) + 1] = x
        /\ \A j \in 1 .. (i - 1) : Append(R, x)[j] = R[j]
    BY <1>1, <1>2, Appended
  <2> QED
    BY <1>2, <2>1 DEF x
<1>7. ASSUME NEW q \in Ports \ {p}
      PROVE  /\ a.refs[q] = s.refs[q]
             /\ \A y \in Devices : a.units[q][y] = s.units[q][y]
             /\ \A u \in Units : a.unitOf[q][u] = s.unitOf[q][u]
  <2>1. /\ c.refs[q] = s.refs[q]
        /\ \A y \in Devices : c.units[q][y] = s.units[q][y]
        /\ \A u \in Units : c.unitOf[q][u] = s.unitOf[q][u]
    BY DEF PortIsAs
  <2>2. /\ \A y \in Devices : a.units[q][y] = c.units[q][y]
        /\ \A u \in Units : a.unitOf[q][u] = c.unitOf[q][u]
    BY <1>5 DEF UnitsBecome
  <2> QED
    BY <1>5, <2>1, <2>2
<1>8. ASSUME Served(us, of, ToSet(L))
      PROVE  /\ \A y \in First(L, i) : a.units[p][y] = us[y]
             /\ \A u \in Units : a.unitOf[p][u] = IF of[u] \in First(L, i) THEN of[u] ELSE None
  <2>1. /\ \A y \in First(L, i - 1) : c.units[p][y] = us[y]
        /\ \A u \in Units : c.unitOf[p][u] = IF of[u] \in First(L, i - 1) THEN of[u] ELSE None
    BY <1>8 DEF PortIsAs
  <2>2. us[x] # {} /\ asked = us[x] /\ (\A u \in us[x] : of[u] = x) /\ us[x] \in SUBSET Units
        /\ \A u \in Units : of[u] = x => u \in us[x]
    BY <1>1, <1>4, <1>8, PoolIs DEF Served, Kinds
  <2>3. Kept(c, p, x, asked) = us[x]
    BY <1>1, <2>1, <2>2 DEF Kept
  <2>4. /\ a.units[p][x] = us[x]
        /\ \A y \in Devices \ {x} : a.units[p][y] = c.units[p][y]
        /\ \A u \in Units : a.unitOf[p][u] =
             IF u \in us[x] THEN x ELSE IF c.unitOf[p][u] = x THEN None ELSE c.unitOf[p][u]
    BY <1>5, <2>2, <2>3 DEF UnitsBecome
  <2>5. ASSUME NEW y \in First(L, i) PROVE a.units[p][y] = us[y]
    <3>1. CASE y = x
      BY <2>4, <3>1
    <3>2. CASE y # x
      BY <1>1, <2>1, <2>4, <3>2
    <3> QED
      BY <3>1, <3>2
  <2>6. ASSUME NEW u \in Units
        PROVE  a.unitOf[p][u] = IF of[u] \in First(L, i) THEN of[u] ELSE None
    <3>1. CASE u \in us[x]
      BY <1>1, <2>2, <2>4, <3>1
    <3>2. CASE u \notin us[x]
      <4>1. of[u] # x
        BY <2>2, <3>2
      <4>2. c.unitOf[p][u] # x
        BY <1>1, <2>1, <4>1, PoolIs DEF Kinds
      <4> QED
        BY <1>1, <2>1, <2>4, <3>2, <4>1, <4>2
    <3> QED
      BY <3>1, <3>2
  <2> QED
    BY <2>5, <2>6
<1>9. Shown(a)
  BY <1>5 DEF UnitsBecome
<1> QED
  <2>1. /\ Len(a.refs[p]) = i /\ \A j \in 1 .. i : a.refs[p][j] = L[j]
    BY <1>5, <1>6
  <2>2. PortIsAs(a, s, p, L, i, us, of)
    BY <1>7, <1>8, <1>9, <2>1 DEF PortIsAs
  <2> QED
    BY <2>2 DEF a, x, asked

\* mbServerBuilder::toPort.
LEMMA LoadedPortIs ==
  ASSUME NEW L \in Seq(Devices), IsInjective(L), NEW d,
         NEW s, Shown(s), NEW p \in Ports, s.refs[p] = <<>>,
         NEW us \in [Devices -> SUBSET Units], NEW of, NEW written, Len(written) = Len(L),
         \A i \in 1 .. Len(L) : /\ Found(d, "device", written[i].device) = L[i]
                                /\ written[i].units = UnitsStr(us[L[i]])
  PROVE  PortIsAs(LoadedPort(d, s, p, written), s, p, L, Len(L), us, of)
<1> DEFINE N == Len(written)
           G == [i \in 0 .. N |-> {c \in References : PortIsAs(c, s, p, L, i, us, of)}]
           step == [i \in 1 .. N |-> [c \in References |-> LoadedRef(d, c, p, written[i])]]
           f[i \in 0 .. N] == IF i = 0 THEN s ELSE LoadedRef(d, f[i - 1], p, written[i])
<1>1. N = Len(L)
  OBVIOUS
<1>3. N \in Nat
  BY <1>1
<1>4. LoadedPort(d, s, p, written) = f[N]
  BY DEF LoadedPort
<1>5. s \in G[0]
  <2>1. s \in References /\ 0 \in 0 .. N /\ First(L, 0) = {}
    BY <1>3, FirstAre DEF Shown
  <2>2. ToSet(s.refs[p]) = {}
    BY DEF ToSet
  <2>3. \A u \in Units : s.unitOf[p][u] = None
    BY <2>2 DEF Shown
  <2>4. PortIsAs(s, s, p, L, 0, us, of)
    BY <2>1, <2>3 DEF PortIsAs
  <2> QED
    BY <2>1, <2>4
<1>6. ASSUME NEW i \in 1 .. N, NEW c \in G[i - 1]
      PROVE  LoadedRef(d, c, p, written[i]) \in G[i]
  <2> DEFINE a == LoadedRef(d, c, p, written[i])
  <2>1. i - 1 \in 0 .. N /\ i \in 0 .. N /\ i \in 1 .. Len(L)
    BY <1>1, <1>3
  <2>2. PortIsAs(c, s, p, L, i - 1, us, of)
    BY <2>1
  <2>3. L[i] \in Devices /\ L[i] # None
    BY <2>1, SeqIs, PoolIs DEF Kinds
  <2>4. a = RefAdded(c, p, L[i], UnitsList(UnitsStr(us[L[i]]), DefaultUnits))
    BY <2>1, <2>3 DEF LoadedRef
  <2> HIDE DEF a
  <2>5. PortIsAs(a, s, p, L, i, us, of)
    BY <2>1, <2>2, <2>4, RefLoaded
  <2>6. a \in References
    BY <2>5 DEF PortIsAs, Shown
  <2> QED
    BY <2>1, <2>5, <2>6 DEF a
<1>7. \A i \in 0 .. N : G[i] \subseteq References
  OBVIOUS
<1> HIDE DEF G, N
<1>8. \E g : g = [i \in 0 .. N |-> IF i = 0 THEN s ELSE LoadedRef(d, g[i - 1], p, written[i])]
  <2>1. \A i \in 1 .. N : \A x \in G[i - 1] : step[i][x] = LoadedRef(d, x, p, written[i])
    BY <1>3, <1>7
  <2> HIDE DEF step
  <2>2. \A i \in 1 .. N : \A x \in G[i - 1] : step[i][x] \in G[i]
    BY <1>6, <2>1
  <2>3. PICK g : Turns(N, s, step, g) /\ \A i \in 0 .. N : g[i] \in G[i]
    BY <1>3, <1>5, <2>2, Loop
  <2>4. \A i \in 1 .. N : step[i][g[i - 1]] = LoadedRef(d, g[i - 1], p, written[i])
    BY <1>3, <2>1, <2>3
  <2>5. g = [i \in 0 .. N |-> IF i = 0 THEN s ELSE LoadedRef(d, g[i - 1], p, written[i])]
    BY <1>3, <2>3, <2>4 DEF Turns
  <2> QED
    BY <2>5
<1>9. f = [i \in 0 .. N |-> IF i = 0 THEN s ELSE LoadedRef(d, f[i - 1], p, written[i])]
  <2> DEFINE turn(g) == [i \in 0 .. N |-> IF i = 0 THEN s ELSE LoadedRef(d, g[i - 1], p, written[i])]
  <2>1. f = CHOOSE g : g = turn(g)
    BY DEF f
  <2>2. f = turn(f)
    BY <1>8, <2>1
  <2> QED
    BY <2>2
<1> HIDE DEF f
<1>10. f[0] = s /\ \A i \in 1 .. N : f[i] = LoadedRef(d, f[i - 1], p, written[i])
  BY <1>3, <1>9
<1>11. \A i \in 0 .. N : f[i] \in G[i]
  <2>1. f[0] \in G[0]
    BY <1>5, <1>10
  <2>2. \A i \in 1 .. N : f[i - 1] \in G[i - 1] => f[i] \in G[i]
    BY <1>6, <1>10
  <2> QED
    BY <1>3, <2>1, <2>2, EachTurn
<1>12. f[N] \in G[N]
  BY <1>3, <1>11
<1>13. PortIsAs(f[N], s, p, L, N, us, of)
  BY <1>3, <1>12 DEF G
<1> QED
  BY <1>1, <1>4, <1>13

\* A port of c refers to the devices it refers to in s, and serves the same
\* units if s serves what it shows.
PortAgain(c, s, p) ==
    /\ c.refs[p] = s.refs[p]
    /\ Served(s.units[p], s.unitOf[p], ToSet(s.refs[p])) =>
         /\ \A x \in Devices : c.units[p][x] = s.units[p][x]
         /\ \A u \in Units : c.unitOf[p][u] = s.unitOf[p][u]

LEMMA PortLoadedAgain ==
  ASSUME NEW s, Shown(s), NEW d, NEW p \in Ports, NEW c, Shown(c), c.refs[p] = <<>>, NEW written,
         Len(written) = Len(s.refs[p]),
         \A i \in 1 .. Len(s.refs[p]) : /\ Found(d, "device", written[i].device) = s.refs[p][i]
                                        /\ written[i].units = UnitsStr(s.units[p][s.refs[p][i]])
  PROVE  LET a == LoadedPort(d, c, p, written)
         IN  Shown(a) /\ PortAgain(a, s, p) /\ \A q \in Ports \ {p} : a.refs[q] = c.refs[q] /\ (PortAgain(c, s, q) => PortAgain(a, s, q))
<1> DEFINE L == s.refs[p]
           us == s.units[p]
           of == s.unitOf[p]
           a == LoadedPort(d, c, p, written)
           C == a.refs[p]
<1>1. L \in Seq(Devices) /\ IsInjective(L) /\ us \in [Devices -> SUBSET Units]
  BY ReferencesAre DEF Shown
<1>2. \A x \in Devices \ ToSet(L) : us[x] = {}
  BY DEF Shown
<1>3. /\ Len(written) = Len(L)
      /\ \A i \in 1 .. Len(L) : /\ Found(d, "device", written[i].device) = L[i]
                                /\ written[i].units = UnitsStr(us[L[i]])
  OBVIOUS
<1> HIDE DEF L, us, of
<1>4. PortIsAs(a, c, p, L, Len(L), us, of)
  BY <1>1, <1>3, LoadedPortIs
<1>5. First(L, Len(L)) = ToSet(L)
  BY <1>1, FirstAre
<1> HIDE DEF a
<1>6. Shown(a) /\ C \in Seq(Devices) /\ Len(C) = Len(L) /\ \A j \in 1 .. Len(L) : C[j] = L[j]
  BY <1>4, ReferencesAre DEF PortIsAs
<1>7. C = L
  <2> HIDE DEF C
  <2> QED
    BY <1>1, <1>6, SeqEqual
<1>8. ASSUME Served(us, of, ToSet(L))
      PROVE  /\ \A x \in Devices : a.units[p][x] = us[x]
             /\ \A u \in Units : a.unitOf[p][u] = of[u]
  <2>1. /\ \A x \in ToSet(L) : a.units[p][x] = us[x]
        /\ \A u \in Units : a.unitOf[p][u] = IF of[u] \in ToSet(L) THEN of[u] ELSE None
    BY <1>4, <1>5, <1>8 DEF PortIsAs
  <2>2. \A x \in Devices \ ToSet(L) : a.units[p][x] = {}
    BY <1>6, <1>7 DEF Shown
  <2>3. \A u \in Units : of[u] # None => of[u] \in ToSet(L)
    BY <1>8 DEF Served
  <2> QED
    BY <1>2, <2>1, <2>2, <2>3
<1>9. PortAgain(a, s, p)
  <2>1. C = s.refs[p] /\ (Served(s.units[p], s.unitOf[p], ToSet(s.refs[p])) => Served(us, of, ToSet(L)))
    BY <1>7 DEF L, us, of
  <2> QED
    BY <1>8, <2>1 DEF PortAgain, us, of
<1>10. ASSUME NEW q \in Ports \ {p}
       PROVE  a.refs[q] = c.refs[q] /\ (PortAgain(c, s, q) => PortAgain(a, s, q))
  <2>1. /\ a.refs[q] = c.refs[q]
        /\ \A x \in Devices : a.units[q][x] = c.units[q][x]
        /\ \A u \in Units : a.unitOf[q][u] = c.unitOf[q][u]
    BY <1>4 DEF PortIsAs
  <2> QED
    BY <2>1 DEF PortAgain
<1> QED
  BY <1>6, <1>9, <1>10 DEF a

\* mbServerBuilder::toProject: the references of the ports of a file.
LEMMA LoadedRefsIs ==
  ASSUME NEW s, Shown(s), NEW d, NEW file, file.list["port"] \in Seq(Ports), IsInjective(file.list["port"]),
         \A p \in Ports : s.refs[p] # <<>> => p \in ToSet(file.list["port"]),
         NEW written,
         \A p \in Ports :
            /\ Len(written[p]) = Len(s.refs[p])
            /\ \A i \in 1 .. Len(s.refs[p]) :
                 /\ Found(d, "device", written[p][i].device) = s.refs[p][i]
                 /\ written[p][i].units = UnitsStr(s.units[p][s.refs[p][i]])
  PROVE  Shown(LoadedRefs(d, file, written)) /\ \A p \in Ports : PortAgain(LoadedRefs(d, file, written), s, p)
<1> DEFINE L == file.list["port"]
           N == Len(L)
           Same(c, i) == /\ Shown(c)
                         /\ \A p \in Ports : IF p \in First(L, i) THEN PortAgain(c, s, p) ELSE c.refs[p] = <<>>
           G == [i \in 0 .. N |-> {c \in References : Same(c, i)}]
           step == [i \in 1 .. N |-> [c \in References |-> LoadedPort(d, c, L[i], written[L[i]])]]
           f[i \in 0 .. N] == IF i = 0 THEN NoRefs ELSE LoadedPort(d, f[i - 1], L[i], written[L[i]])
<1>1. L \in Seq(Ports) /\ IsInjective(L)
  OBVIOUS
<1>3. N \in Nat
  BY <1>1
<1>4. LoadedRefs(d, file, written) = f[N]
  BY DEF LoadedRefs
<1>a. \A p \in Ports : s.refs[p] # <<>> => p \in ToSet(L)
  OBVIOUS
<1> HIDE DEF L
<1>5. NoRefs \in G[0]
  <2>1. NoRefs \in References /\ 0 \in 0 .. N /\ First(L, 0) = {}
    BY <1>1, <1>3, FirstAre, NoneShown DEF Shown
  <2>2. \A p \in Ports : NoRefs.refs[p] = <<>>
    BY DEF NoRefs
  <2>3. Same(NoRefs, 0)
    BY <2>1, <2>2, NoneShown
  <2> HIDE DEF Same
  <2> QED
    BY <2>1, <2>3
<1>6. ASSUME NEW i \in 1 .. N, NEW c \in G[i - 1]
      PROVE  LoadedPort(d, c, L[i], written[L[i]]) \in G[i]
  <2> DEFINE p == L[i]
             a == LoadedPort(d, c, p, written[p])
  <2>1. i - 1 \in 0 .. N /\ i \in 0 .. N
    BY <1>3
  <2>2. Same(c, i - 1)
    <3> HIDE DEF Same
    <3> QED
      BY <2>1
  <2>3. p \in Ports /\ p \notin First(L, i - 1) /\ First(L, i) = First(L, i - 1) \union {p}
    BY <1>1, FirstAre, SeqIs
  <2> HIDE DEF p
  <2>4. Shown(c) /\ c.refs[p] = <<>>
    BY <2>2, <2>3
  <2>5. /\ Shown(a) /\ PortAgain(a, s, p)
        /\ \A q \in Ports \ {p} : a.refs[q] = c.refs[q] /\ (PortAgain(c, s, q) => PortAgain(a, s, q))
    BY <2>3, <2>4, PortLoadedAgain
  <2> HIDE DEF a
  <2>6. ASSUME NEW q \in Ports
        PROVE  IF q \in First(L, i) THEN PortAgain(a, s, q) ELSE a.refs[q] = <<>>
    <3>1. CASE q = p
      BY <2>3, <2>5, <3>1
    <3>2. CASE q # p
      BY <2>2, <2>3, <2>5, <3>2
    <3> QED
      BY <3>1, <3>2
  <2>7. Same(a, i) /\ a \in References
    BY <2>5, <2>6 DEF Shown
  <2> HIDE DEF Same
  <2> QED
    BY <2>1, <2>7 DEF a, p
<1>7. \A i \in 0 .. N : G[i] \subseteq References
  OBVIOUS
<1> HIDE DEF Same
<1> HIDE DEF G, N
<1>8. \E g : g = [i \in 0 .. N |-> IF i = 0 THEN NoRefs ELSE LoadedPort(d, g[i - 1], L[i], written[L[i]])]
  <2>1. \A i \in 1 .. N : \A x \in G[i - 1] : step[i][x] = LoadedPort(d, x, L[i], written[L[i]])
    BY <1>3, <1>7
  <2> HIDE DEF step
  <2>2. \A i \in 1 .. N : \A x \in G[i - 1] : step[i][x] \in G[i]
    BY <1>6, <2>1
  <2>3. PICK g : Turns(N, NoRefs, step, g) /\ \A i \in 0 .. N : g[i] \in G[i]
    BY <1>3, <1>5, <2>2, Loop
  <2>4. \A i \in 1 .. N : step[i][g[i - 1]] = LoadedPort(d, g[i - 1], L[i], written[L[i]])
    BY <1>3, <2>1, <2>3
  <2>5. g = [i \in 0 .. N |-> IF i = 0 THEN NoRefs ELSE LoadedPort(d, g[i - 1], L[i], written[L[i]])]
    BY <1>3, <2>3, <2>4 DEF Turns
  <2> QED
    BY <2>5
<1>9. f = [i \in 0 .. N |-> IF i = 0 THEN NoRefs ELSE LoadedPort(d, f[i - 1], L[i], written[L[i]])]
  <2> DEFINE turn(g) == [i \in 0 .. N |-> IF i = 0 THEN NoRefs ELSE LoadedPort(d, g[i - 1], L[i], written[L[i]])]
  <2>1. f = CHOOSE g : g = turn(g)
    BY DEF f
  <2>2. f = turn(f)
    BY <1>8, <2>1
  <2> QED
    BY <2>2
<1> HIDE DEF f
<1>10. f[0] = NoRefs /\ \A i \in 1 .. N : f[i] = LoadedPort(d, f[i - 1], L[i], written[L[i]])
  BY <1>3, <1>9
<1>11. \A i \in 0 .. N : f[i] \in G[i]
  <2>1. ASSUME NEW i \in 1 .. N, f[i - 1] \in G[i - 1] PROVE f[i] \in G[i]
    BY <1>6, <1>10, <2>1
  <2>2. f[0] \in G[0]
    BY <1>5, <1>10
  <2> QED
    BY <1>3, <2>1, <2>2, EachTurn
<1>12. f[N] \in G[N]
  BY <1>3, <1>11
<1>13. Same(f[N], N)
  BY <1>3, <1>12 DEF G
<1>14. First(L, N) = ToSet(L)
  BY <1>1, FirstAre DEF N
<1> DEFINE c == f[N]
<1> HIDE DEF c
<1>15. Shown(c) /\ \A p \in Ports : IF p \in ToSet(L) THEN PortAgain(c, s, p) ELSE c.refs[p] = <<>>
  BY <1>13, <1>14 DEF Same, c
<1>16. ASSUME NEW p \in Ports \ ToSet(L) PROVE PortAgain(c, s, p)
  <2>1. c.refs[p] = <<>> /\ s.refs[p] = <<>>
    BY <1>15, <1>a
  <2>2. ToSet(<<>>) = {}
    BY DEF ToSet
  <2>3. (\A x \in Devices : c.units[p][x] = {}) /\ \A u \in Units : c.unitOf[p][u] = None
    BY <1>15, <2>1, <2>2 DEF Shown
  <2>4. (\A x \in Devices : s.units[p][x] = {}) /\ \A u \in Units : s.unitOf[p][u] = None
    BY <2>1, <2>2 DEF Shown
  <2> QED
    BY <2>1, <2>3, <2>4 DEF PortAgain
<1>17. \A p \in Ports : PortAgain(c, s, p)
  BY <1>15, <1>16
<1> QED
  BY <1>4, <1>15, <1>17 DEF c

-----------------------------------------------------------------------------
(* The inductive invariant                                                 *)

\* The objects of the project have names, each in the pool of its kind.
DocIs(d) == Typed(d) /\ Keyed(d) /\ \A v \in Listed(d, "view") : d.name[v] \in ViewNames

\* A row refers to a device of the project, or to none.
RowsAre(r, d) == r \in [Lists -> Seq(Listed(d, "device") \union {None})]

\* The ports and the devices of references are in the project; a client has
\* no references.
RefsAre(c, s, d) ==
    /\ Shown(s)
    /\ \A p \in Ports : /\ ToSet(s.refs[p]) \subseteq Listed(d, "device")
                        /\ s.refs[p] # <<>> => p \in Listed(d, "port") /\ c = "server"

\* The devices of a client's project are at ports of the project; a server's
\* are at none.
MembersAre(c, m, d) ==
    /\ AtItsPort(m)
    /\ \A x \in Devices : /\ m.portOf[x] \in Listed(d, "port") \union {None}
                          /\ c = "server" => m.portOf[x] = None
                          /\ c = "client" => (x \in Listed(d, "device") <=> m.portOf[x] # None)

Consistent(c, d, r, s, m) ==
    /\ c \in Programs
    /\ DocIs(d) /\ RowsAre(r, d) /\ RefsAre(c, s, d) /\ MembersAre(c, m, d)

IInv ==
    /\ Consistent(program, doc, rows, Refs, Members)
    /\ running \in BOOLEAN
    /\ RunsWhatIsShown

LEMMA KindsAre == /\ "port" \in Kinds /\ "device" \in Kinds /\ "view" \in Kinds
                  /\ "port" # "device" /\ "port" # "view" /\ "device" # "view"
                  /\ Kinds = {"port", "device", "view"}
BY DEF Kinds

\* An object enters the project.
LEMMA DocAdded ==
  ASSUME NEW d, DocIs(d), NEW k \in Kinds, NEW o \in Gone(d, k), NEW asked \in Names[k],
         k = "view" => \E n \in Names[k] : d.key[k][n] = None
  PROVE  /\ DocIs(Added(d, k, o, asked))
         /\ Listed(Added(d, k, o, asked), k) = Listed(d, k) \union {o}
         /\ \A l \in Kinds \ {k} : Listed(Added(d, k, o, asked), l) = Listed(d, l)
<1> DEFINE a == Added(d, k, o, asked)
<1>1. Typed(d) /\ Keyed(d)
  BY DEF DocIs
<1>2. \E n \in Names[k] : d.key[k][n] = None
  <2>1. CASE k = "view"
    BY <2>1
  <2>2. CASE k # "view"
    <3>1. KeyedAs(d, k)
      BY <1>1, <2>2, KindsAre DEF Keyed
    <3> QED
      BY <1>1, <3>1, NameIsFree
  <2> QED
    BY <2>1, <2>2
<1>3. /\ Typed(a)
      /\ Listed(a, k) = Listed(d, k) \union {o}
      /\ \A l \in Kinds \ {k} : Listed(a, l) = Listed(d, l)
      /\ \A x \in Objects : a.name[x] = IF x = o THEN Given(d, k, asked) ELSE d.name[x]
  BY <1>1, <1>2, AddedIs
<1>4. Keyed(a)
  <2>1. ASSUME NEW l \in {"port", "device"} PROVE KeyedAs(a, l)
    <3>1. l \in Kinds /\ KeyedAs(d, l)
      BY <1>1, KindsAre DEF Keyed
    <3> QED
      BY <1>1, <1>2, <3>1, AddedKeyed
  <2> HIDE DEF a
  <2> QED
    BY <2>1 DEF Keyed
<1> HIDE DEF a
<1>5. ASSUME NEW v \in Listed(a, "view") PROVE a.name[v] \in ViewNames
  <2>1. v \in Objects /\ v \in Views
    BY <1>3, TypedIs, PoolIs, KindsAre
  <2>2. CASE v = o
    <3>1. k = "view"
      BY <2>1, <2>2, PoolIs, KindsAre DEF Gone
    <3>2. Given(d, k, asked) \in Names[k]
      BY <1>2, GivenIs
    <3> QED
      BY <1>3, <2>1, <2>2, <3>1, <3>2, PoolIs
  <2>3. CASE v # o
    <3>1. v \in Listed(d, "view")
      BY <1>3, <2>3, KindsAre
    <3> QED
      BY <1>3, <2>1, <2>3, <3>1 DEF DocIs
  <2> QED
    BY <2>2, <2>3
<1> QED
  BY <1>3, <1>4, <1>5 DEF DocIs, a

\* An object leaves it.
LEMMA DocRemoved ==
  ASSUME NEW d, DocIs(d), NEW k \in Kinds, NEW o \in Listed(d, k)
  PROVE  /\ DocIs(Removed(d, k, o))
         /\ Listed(Removed(d, k, o), k) = Listed(d, k) \ {o}
         /\ \A l \in Kinds \ {k} : Listed(Removed(d, k, o), l) = Listed(d, l)
<1> DEFINE a == Removed(d, k, o)
<1>1. Typed(d) /\ Keyed(d)
  BY DEF DocIs
<1>2. /\ Typed(a)
      /\ Listed(a, k) = Listed(d, k) \ {o}
      /\ \A l \in Kinds \ {k} : Listed(a, l) = Listed(d, l)
      /\ \A x \in Objects : a.name[x] = IF x = o THEN None ELSE d.name[x]
  BY <1>1, RemovedIs
<1>3. Keyed(a)
  <2>1. ASSUME NEW l \in {"port", "device"} PROVE KeyedAs(a, l)
    <3>1. l \in Kinds /\ KeyedAs(d, l)
      BY <1>1, KindsAre DEF Keyed
    <3> QED
      BY <1>1, <3>1, RemovedKeyed
  <2> HIDE DEF a
  <2> QED
    BY <2>1 DEF Keyed
<1> HIDE DEF a
<1>4. ASSUME NEW v \in Listed(a, "view") PROVE a.name[v] \in ViewNames
  <2>1. v \in Objects /\ v \in Views
    BY <1>2, TypedIs, PoolIs, KindsAre
  <2>2. v \in Listed(d, "view") /\ v # o
    <3>1. CASE k = "view"
      BY <1>2, <3>1
    <3>2. CASE k # "view"
      <4>1. v \in Listed(d, "view") /\ o \in Pool[k]
        BY <1>1, <1>2, <3>2, KindsAre, TypedIs
      <4> QED
        BY <2>1, <3>2, <4>1, PoolIs, KindsAre
    <3> QED
      BY <3>1, <3>2
  <2> QED
    BY <1>2, <2>1, <2>2 DEF DocIs
<1> QED
  BY <1>2, <1>3, <1>4 DEF DocIs, a

\* An object gets another name.
LEMMA DocRenamed ==
  ASSUME NEW d, DocIs(d), NEW k \in Kinds, NEW o \in Listed(d, k), NEW asked \in Names[k],
         k = "view" => \E n \in Names[k] : d.key[k][n] = None
  PROVE  /\ DocIs(Renamed(d, k, o, asked))
         /\ \A l \in Kinds : Listed(Renamed(d, k, o, asked), l) = Listed(d, l)
<1> DEFINE a == Renamed(d, k, o, asked)
<1>1. Typed(d) /\ Keyed(d)
  BY DEF DocIs
<1>2. \E n \in Names[k] : d.key[k][n] = None
  <2>1. CASE k = "view"
    BY <2>1
  <2>2. CASE k # "view"
    <3>1. KeyedAs(d, k)
      BY <1>1, <2>2, KindsAre DEF Keyed
    <3> QED
      BY <1>1, <3>1, NameIsFree
  <2> QED
    BY <2>1, <2>2
<1>3. /\ Typed(a) /\ Keyed(a)
      /\ \A l \in Kinds : Listed(a, l) = Listed(d, l)
      /\ \A x \in Objects \ {o} : a.name[x] = d.name[x]
      /\ a.name[o] \in Names[k]
  BY <1>1, <1>2, RenamedIs, RenamedKeyed
<1> HIDE DEF a
<1>4. ASSUME NEW v \in Listed(a, "view") PROVE a.name[v] \in ViewNames
  <2>1. v \in Listed(d, "view") /\ v \in Objects /\ v \in Views /\ o \in Pool[k]
    BY <1>1, <1>3, TypedIs, PoolIs, KindsAre
  <2>2. CASE v = o
    <3>1. k = "view"
      BY <2>1, <2>2, PoolIs, KindsAre
    <3> QED
      BY <1>3, <2>2, <3>1, PoolIs
  <2>3. CASE v # o
    BY <1>3, <2>1, <2>3 DEF DocIs
  <2> QED
    BY <2>2, <2>3
<1> QED
  BY <1>3, <1>4 DEF DocIs, a

\* menuSlotPortClearAllDevice: the devices of a port leave the project.
LEMMA AllRemovedIs ==
  ASSUME DocIs(doc), NEW p \in Ports, members[p] \in Seq(Devices), IsInjective(members[p]),
         ToSet(members[p]) \subseteq Listed(doc, "device")
  PROVE  /\ DocIs(AllRemoved(p))
         /\ Listed(AllRemoved(p), "device") = Listed(doc, "device") \ ToSet(members[p])
         /\ \A k \in Kinds \ {"device"} : Listed(AllRemoved(p), k) = Listed(doc, k)
<1> DEFINE L == members[p]
           N == Len(L)
           G == [i \in 0 .. N |-> {d \in Docs :
                   /\ DocIs(d)
                   /\ Listed(d, "device") = Listed(doc, "device") \ First(L, i)
                   /\ \A k \in Kinds \ {"device"} : Listed(d, k) = Listed(doc, k)}]
           step == [i \in 1 .. N |-> [d \in Docs |-> Removed(d, "device", L[i])]]
           f[i \in 0 .. N] == IF i = 0 THEN doc ELSE Removed(f[i - 1], "device", L[i])
<1>1. "device" \in Kinds
  BY DEF Kinds
<1>2. L \in Seq(Devices) /\ IsInjective(L) /\ ToSet(L) \subseteq Listed(doc, "device")
  OBVIOUS
<1>3. N \in Nat
  BY <1>2
<1>4. AllRemoved(p) = f[N]
  BY DEF AllRemoved
<1> HIDE DEF L
<1>5. doc \in G[0]
  <2>1. doc \in Docs
    BY DEF DocIs, Typed
  <2> QED
    BY <1>2, <1>3, <2>1, FirstAre
<1>6. ASSUME NEW i \in 1 .. N, NEW d \in G[i - 1]
      PROVE  Removed(d, "device", L[i]) \in G[i]
  <2>1. i - 1 \in 0 .. N /\ i \in 0 .. N
    BY <1>3
  <2>2. /\ DocIs(d)
        /\ Listed(d, "device") = Listed(doc, "device") \ First(L, i - 1)
        /\ \A k \in Kinds \ {"device"} : Listed(d, k) = Listed(doc, k)
    BY <2>1
  <2>3. /\ L[i] \in ToSet(L) /\ L[i] \notin First(L, i - 1)
        /\ First(L, i) = First(L, i - 1) \union {L[i]}
    BY <1>2, FirstAre, SeqIs
  <2>4. L[i] \in Listed(d, "device")
    BY <1>2, <2>2, <2>3
  <2>5. /\ DocIs(Removed(d, "device", L[i]))
        /\ Listed(Removed(d, "device", L[i]), "device") = Listed(d, "device") \ {L[i]}
        /\ \A k \in Kinds \ {"device"} : Listed(Removed(d, "device", L[i]), k) = Listed(d, k)
    BY <1>1, <2>2, <2>4, DocRemoved
  <2>7. Removed(d, "device", L[i]) \in Docs
    BY <2>5 DEF DocIs, Typed
  <2> QED
    BY <2>1, <2>2, <2>3, <2>5, <2>7
<1>7. \A i \in 0 .. N : G[i] \subseteq Docs
  OBVIOUS
<1> HIDE DEF G, N
<1>8. \E g : g = [i \in 0 .. N |-> IF i = 0 THEN doc ELSE Removed(g[i - 1], "device", L[i])]
  <2>1. \A i \in 1 .. N : \A s \in G[i - 1] : step[i][s] = Removed(s, "device", L[i])
    BY <1>3, <1>7
  <2> HIDE DEF step
  <2>2. \A i \in 1 .. N : \A s \in G[i - 1] : step[i][s] \in G[i]
    BY <1>6, <2>1
  <2>3. PICK g : Turns(N, doc, step, g) /\ \A i \in 0 .. N : g[i] \in G[i]
    BY <1>3, <1>5, <2>2, Loop
  <2>4. \A i \in 1 .. N : step[i][g[i - 1]] = Removed(g[i - 1], "device", L[i])
    BY <1>3, <2>1, <2>3
  <2>5. g = [i \in 0 .. N |-> IF i = 0 THEN doc ELSE Removed(g[i - 1], "device", L[i])]
    BY <1>3, <2>3, <2>4 DEF Turns
  <2> QED
    BY <2>5
<1>9. f = [i \in 0 .. N |-> IF i = 0 THEN doc ELSE Removed(f[i - 1], "device", L[i])]
  <2> DEFINE turn(g) == [i \in 0 .. N |-> IF i = 0 THEN doc ELSE Removed(g[i - 1], "device", L[i])]
  <2>1. f = CHOOSE g : g = turn(g)
    BY DEF f
  <2>2. f = turn(f)
    BY <1>8, <2>1
  <2> QED
    BY <2>2
<1> HIDE DEF f
<1>10. f[0] = doc /\ \A i \in 1 .. N : f[i] = Removed(f[i - 1], "device", L[i])
  BY <1>3, <1>9
<1>11. \A i \in 0 .. N : f[i] \in G[i]
  BY <1>3, <1>5, <1>6, <1>10, EachTurn
<1>12. f[N] \in G[N]
  BY <1>3, <1>11
<1>13. First(L, N) = ToSet(L)
  BY <1>2, FirstAre DEF N
<1> QED
  BY <1>3, <1>4, <1>12, <1>13 DEF G, L

LEMMA EmptyIs == DocIs(Empty) /\ \A k \in Kinds : Empty.list[k] = <<>> /\ Listed(Empty, k) = {}
<1>1. /\ Empty.list = [k \in Kinds |-> <<>>]
      /\ Empty.key = [k \in Kinds |-> [n \in Names[k] |-> None]]
      /\ Empty.name = [o \in Objects |-> None]
  BY DEF Empty
<1>2. Empty \in Docs
  <2>1. Empty = [list |-> Empty.list, key |-> Empty.key, name |-> Empty.name]
    BY DEF Empty
  <2>2. Empty.list \in [Kinds -> Seq(Objects)]
    BY <1>1
  <2>3. Empty.key \in [Kinds -> Keys]
    <3>1. ASSUME NEW k \in Kinds PROVE [n \in Names[k] |-> None] \in Keys
      <4>1. [n \in Names[k] |-> None] \in [Names[k] -> Objects \union {None}]
        OBVIOUS
      <4> QED
        BY <4>1 DEF Keys
    <3> QED
      BY <1>1, <3>1
  <2>4. Empty.name \in [Objects -> AllNames \union {None}]
    BY <1>1
  <2> QED
    BY <2>1, <2>2, <2>3, <2>4 DEF Docs
<1>3. \A k \in Kinds : Empty.list[k] = <<>> /\ Listed(Empty, k) = {}
  BY <1>1 DEF Listed, ToSet
<1>4. IsInjective(<<>>)
  BY DEF IsInjective
<1>5. Typed(Empty)
  BY <1>1, <1>2, <1>3, <1>4, PoolIs DEF Typed
<1>6. Keyed(Empty)
  BY <1>1, <1>3, KindsAre DEF Keyed, KeyedAs
<1> QED
  BY <1>3, <1>5, <1>6, KindsAre DEF DocIs

LEMMA SeqGrows ==
  ASSUME NEW A, NEW B, A \subseteq B, NEW s \in Seq(A)
  PROVE  s \in Seq(B)
OBVIOUS

LEMMA RowsGrow ==
  ASSUME NEW r, NEW d, NEW e, RowsAre(r, d), Listed(d, "device") \subseteq Listed(e, "device")
  PROVE  RowsAre(r, e)
<1>1. r \in [Lists -> Seq(Listed(d, "device") \union {None})]
  BY DEF RowsAre
<1>2. \A l \in Lists : r[l] \in Seq(Listed(e, "device") \union {None})
  BY <1>1, SeqGrows
<1> QED
  BY <1>1, <1>2 DEF RowsAre

LEMMA RowsSet ==
  ASSUME NEW r, NEW d, RowsAre(r, d), NEW l \in Lists, NEW x \in Seq(Listed(d, "device") \union {None})
  PROVE  RowsAre([r EXCEPT ![l] = x], d)
BY DEF RowsAre

\* The rows of a list, with others put between them or with one of them left out.
LEMMA RowsPut ==
  ASSUME NEW S, NEW s \in Seq(S), NEW x \in Seq(S), NEW at \in 0 .. Len(s)
  PROVE  SubSeq(s, 1, at) \o x \o SubSeq(s, at + 1, Len(s)) \in Seq(S)
<1>1. SubSeq(s, 1, at) \in Seq(S) /\ SubSeq(s, at + 1, Len(s)) \in Seq(S)
  <2>1. \A i \in 1 .. at : s[i] \in S
    OBVIOUS
  <2>2. \A i \in (at + 1) .. Len(s) : s[i] \in S
    OBVIOUS
  <2> QED
    BY <2>1, <2>2, SubSeqProperties
<1> DEFINE a == SubSeq(s, 1, at)
           b == SubSeq(s, at + 1, Len(s))
<1> HIDE DEF a, b
<1>2. a \o x \in Seq(S)
  BY <1>1, ConcatProperties DEF a
<1>3. (a \o x) \o b \in Seq(S)
  BY <1>1, <1>2, ConcatProperties DEF b
<1> QED
  BY <1>3 DEF a, b

LEMMA RowChanged ==
  ASSUME NEW S, NEW s \in Seq(S), NEW i \in 1 .. Len(s), NEW x \in S
  PROVE  [s EXCEPT ![i] = x] \in Seq(S)
<1>1. s \in [1 .. Len(s) -> S] /\ Len(s) \in Nat
  OBVIOUS
<1>2. [s EXCEPT ![i] = x] \in [1 .. Len(s) -> S]
  BY <1>1
<1> QED
  BY <1>1, <1>2

LEMMA RowOut ==
  ASSUME NEW S, NEW s \in Seq(S), NEW i \in 1 .. Len(s)
  PROVE  RemoveAt(s, i) \in Seq(S)
<1>1. SubSeq(s, 1, i - 1) \in Seq(S) /\ SubSeq(s, i + 1, Len(s)) \in Seq(S)
  <2>1. \A j \in 1 .. (i - 1) : s[j] \in S
    OBVIOUS
  <2>2. \A j \in (i + 1) .. Len(s) : s[j] \in S
    OBVIOUS
  <2> QED
    BY <2>1, <2>2, SubSeqProperties
<1> QED
  BY <1>1, ConcatProperties DEF RemoveAt

LEMMA RowsForgotten ==
  ASSUME NEW r, NEW d, NEW e, NEW gone, RowsAre(r, d), Listed(d, "device") \ gone \subseteq Listed(e, "device")
  PROVE  RowsAre(Forgotten(r, gone), e)
<1> DEFINE S == Listed(e, "device") \union {None}
           x(l) == [i \in DOMAIN r[l] |-> IF r[l][i] \in gone THEN None ELSE r[l][i]]
<1>1. ASSUME NEW l \in Lists PROVE x(l) \in Seq(S)
  <2>1. r[l] \in Seq(Listed(d, "device") \union {None})
    BY DEF RowsAre
  <2> DEFINE R == r[l]
  <2>2. DOMAIN R = 1 .. Len(R) /\ Len(R) \in Nat /\ \A i \in 1 .. Len(R) : R[i] \in Listed(d, "device") \union {None}
    BY <2>1
  <2> HIDE DEF R
  <2>3. [i \in 1 .. Len(R) |-> IF R[i] \in gone THEN None ELSE R[i]] \in Seq(S)
    BY <2>2
  <2> QED
    BY <2>2, <2>3 DEF R
<1>2. Forgotten(r, gone) = [l \in Lists |-> x(l)]
  BY DEF Forgotten
<1> HIDE DEF x, S
<1>3. [l \in Lists |-> x(l)] \in [Lists -> Seq(S)]
  BY <1>1
<1> QED
  BY <1>2, <1>3 DEF RowsAre, S

\* An object more in the project changes nothing for those that are.
LEMMA RefsStay ==
  ASSUME NEW c, NEW s, NEW d, NEW e, RefsAre(c, s, d),
         Listed(d, "device") \subseteq Listed(e, "device"), Listed(d, "port") \subseteq Listed(e, "port")
  PROVE  RefsAre(c, s, e)
BY DEF RefsAre

LEMMA MembersStay ==
  ASSUME NEW c, NEW m, NEW d, NEW e, MembersAre(c, m, d),
         c = "client" => Listed(e, "device") = Listed(d, "device"),
         Listed(d, "port") \subseteq Listed(e, "port")
  PROVE  MembersAre(c, m, e)
BY DEF MembersAre

LEMMA NotEmpty ==
  ASSUME NEW S, NEW s \in Seq(S)
  PROVE  s # <<>> <=> ToSet(s) # {}
<1>1. Len(s) \in Nat /\ DOMAIN s = 1 .. Len(s)
  OBVIOUS
<1>2. CASE s = <<>>
  BY <1>2 DEF ToSet
<1>3. CASE s # <<>>
  <2>1. 1 \in 1 .. Len(s)
    BY <1>1, <1>3
  <2>2. s[1] \in ToSet(s)
    BY <1>1, <2>1 DEF ToSet
  <2> QED
    BY <1>3, <2>2
<1> QED
  BY <1>2, <1>3

\* The commands of the server's ports keep their references in the project.
LEMMA UnitsSetStay ==
  ASSUME NEW s, NEW d, RefsAre("server", s, d), NEW p \in Ports, NEW x \in ToSet(s.refs[p]),
         NEW asked \in SUBSET Units
  PROVE  RefsAre("server", UnitsSet(s, p, x, asked), d)
<1> DEFINE a == UnitsSet(s, p, x, asked)
<1>1. Shown(s)
  BY DEF RefsAre
<1>2. a.refs = s.refs /\ UnitsBecome(s, a, p, x, Kept(s, p, x, asked))
  BY <1>1, UnitsSetIs
<1> HIDE DEF a
<1>3. Shown(a) /\ a.refs = s.refs
  BY <1>2 DEF UnitsBecome
<1>4. RefsAre("server", a, d)
  BY <1>3 DEF RefsAre
<1> QED
  BY <1>4 DEF a

LEMMA RefAddedStay ==
  ASSUME NEW s, NEW d, RefsAre("server", s, d), NEW p \in Ports, p \in Listed(d, "port"),
         NEW x \in Devices, x \in Listed(d, "device"), x \notin ToSet(s.refs[p]),
         NEW asked \in SUBSET Units
  PROVE  RefsAre("server", RefAdded(s, p, x, asked), d)
<1> DEFINE a == RefAdded(s, p, x, asked)
           R == s.refs[p]
<1>1. Shown(s)
  BY DEF RefsAre
<1>2. /\ UnitsBecome(s, a, p, x, Kept(s, p, x, asked))
      /\ a.refs[p] = Append(R, x)
      /\ \A q \in Ports \ {p} : a.refs[q] = s.refs[q]
  BY <1>1, RefAddedIs
<1>3. R \in Seq(Devices) /\ ToSet(R) \subseteq Listed(d, "device")
  BY <1>1, ReferencesAre DEF RefsAre
<1> HIDE DEF a, R
<1>4. Shown(a)
  BY <1>2 DEF UnitsBecome
<1>5. ToSet(a.refs[p]) = ToSet(R) \union {x}
  BY <1>2, <1>3, Appended
<1>6. ASSUME NEW q \in Ports
      PROVE  ToSet(a.refs[q]) \subseteq Listed(d, "device") /\ (a.refs[q] # <<>> => q \in Listed(d, "port"))
  <2>1. CASE q = p
    BY <1>3, <1>5, <2>1
  <2>2. CASE q # p
    BY <1>2, <2>2 DEF RefsAre
  <2> QED
    BY <2>1, <2>2
<1>7. RefsAre("server", a, d)
  BY <1>4, <1>6 DEF RefsAre
<1> QED
  BY <1>7 DEF a

LEMMA RefsLess ==
  ASSUME NEW s, NEW a, NEW d, NEW e, RefsAre("server", s, d), Shown(a),
         \A p \in Ports : ToSet(a.refs[p]) \subseteq ToSet(s.refs[p]) \intersect Listed(e, "device"),
         Listed(d, "port") \subseteq Listed(e, "port")
  PROVE  RefsAre("server", a, e)
<1>1. ASSUME NEW p \in Ports, a.refs[p] # <<>> PROVE p \in Listed(e, "port")
  <2>1. ToSet(a.refs[p]) # {}
    BY <1>1, ReferencesAre, NotEmpty
  <2>2. ToSet(s.refs[p]) # {}
    BY <2>1
  <2>3. s.refs[p] # <<>>
    BY <2>2 DEF ToSet
  <2> QED
    BY <2>3 DEF RefsAre
<1> QED
  BY <1>1 DEF RefsAre

LEMMA RefRemovedStay ==
  ASSUME NEW s, NEW d, RefsAre("server", s, d), NEW p \in Ports, NEW x \in Devices
  PROVE  RefsAre("server", RefRemoved(s, p, x), d)
<1> DEFINE a == RefRemoved(s, p, x)
<1>1. Shown(s) /\ \A q \in Ports : ToSet(s.refs[q]) \subseteq Listed(d, "device")
  BY DEF RefsAre
<1>2. /\ Shown(a)
      /\ ToSet(a.refs[p]) = ToSet(s.refs[p]) \ {x}
      /\ \A q \in Ports \ {p} : a.refs[q] = s.refs[q]
  BY <1>1, RefRemovedIs
<1> HIDE DEF a
<1>3. \A q \in Ports : ToSet(a.refs[q]) \subseteq ToSet(s.refs[q]) \intersect Listed(d, "device")
  BY <1>1, <1>2
<1>4. RefsAre("server", a, d)
  BY <1>2, <1>3, RefsLess
<1> QED
  BY <1>4 DEF a

\* The commands of the client's devices keep them at ports of the project.
LEMMA MembersMade ==
  ASSUME NEW m, NEW a, NEW d, NEW e, MembersAre("client", m, d), AtItsPort(a),
         NEW x \in Devices, NEW p \in Listed(e, "port"), p # None,
         \A y \in Devices : a.portOf[y] = IF y = x THEN p ELSE m.portOf[y],
         Listed(e, "device") = Listed(d, "device") \union {x},
         Listed(d, "port") \subseteq Listed(e, "port")
  PROVE  MembersAre("client", a, e)
BY DEF MembersAre

LEMMA MembersGone ==
  ASSUME NEW m, NEW a, NEW d, NEW e, MembersAre("client", m, d), AtItsPort(a), NEW X \in SUBSET Devices,
         \A y \in Devices : a.portOf[y] = IF y \in X THEN None ELSE m.portOf[y],
         Listed(e, "device") = Listed(d, "device") \ X,
         Listed(e, "port") = Listed(d, "port")
  PROVE  MembersAre("client", a, e)
BY DEF MembersAre

-----------------------------------------------------------------------------
(* The steps                                                               *)

LEMMA RefsBecome ==
  ASSUME NEW s, Shown(s), Become(s)
  PROVE  Refs' = s
BY ReferencesAre DEF Become, Refs

LEMMA MembersSettle ==
  ASSUME NEW m, AtItsPort(m), Settle(m)
  PROVE  Members' = m
BY DEF Settle, Members, AtItsPort, Memberships

\* A command keeps the invariant if it leaves what runs as it is.
LEMMA EditKeeps ==
  ASSUME IInv, UNCHANGED <<program, running, run>>,
         Consistent(program, doc', rows', Refs', Members'),
         running => /\ program = "server"
                    /\ Listed(doc', "port") = Listed(doc, "port") /\ unitOf' = unitOf
                    /\ rows'["actions"] = rows["actions"]
  PROVE  IInv'
<1>1. Consistent(program, doc, rows, Refs, Members)'
  OBVIOUS
<1>2. (running \in BOOLEAN)'
  BY DEF IInv
<1>3. RunsWhatIsShown'
  <2> SUFFICES ASSUME running PROVE run' = Built'
    BY DEF RunsWhatIsShown
  <2>1. run = Built
    BY DEF IInv, RunsWhatIsShown
  <2> QED
    BY <2>1 DEF Built
<1> QED
  BY <1>1, <1>2, <1>3 DEF IInv

LEMMA SharedStep ==
  ASSUME IInv, SharedEdits, UNCHANGED <<program, run>>
  PROVE  IInv'
<1> DEFINE D == Listed(doc, "device") \union {None}
<1>1. Refs' = Refs /\ Members' = Members /\ unitOf' = unitOf
  BY DEF SharedEdits, Refs, Members
<1>2. /\ program \in Programs /\ DocIs(doc) /\ RowsAre(rows, doc)
      /\ RefsAre(program, Refs, doc) /\ MembersAre(program, Members, doc)
  BY DEF IInv, Consistent
<1>3. Typed(doc)
  BY <1>2 DEF DocIs
<1>a. \A d, r : /\ DocIs(d) /\ RowsAre(r, d)
                /\ Listed(d, "device") = Listed(doc, "device") /\ Listed(d, "port") = Listed(doc, "port")
                => Consistent(program, d, r, Refs, Members)
  BY <1>2, RefsStay, MembersStay DEF Consistent
<1>b. \A d : Listed(d, "device") = Listed(doc, "device") => RowsAre(rows, d)
  BY <1>2, RowsGrow
<1>c. \A l \in Lists : rows[l] \in Seq(D)
  BY <1>2 DEF RowsAre
<1>d. MayEdit /\ running => program = "server"
  BY DEF MayEdit
<1>4. CASE NewView
  <2>1. PICK v \in Gone(doc, "view"), n \in ViewNames : doc' = Added(doc, "view", v, n)
    BY <1>4 DEF NewView
  <2>2. MayEdit /\ ViewNameLeft /\ rows' = rows /\ running' = running
    BY <1>4 DEF NewView
  <2>3. \E m \in Names["view"] : doc.key["view"][m] = None
    BY <2>2, PoolIs DEF ViewNameLeft
  <2>4. /\ DocIs(doc') /\ Listed(doc', "port") = Listed(doc, "port")
        /\ Listed(doc', "device") = Listed(doc, "device")
    BY <1>2, <2>1, <2>3, KindsAre, PoolIs, DocAdded
  <2> QED
    BY <1>1, <1>a, <1>b, <1>d, <2>2, <2>4, EditKeeps
<1>5. CASE EditView
  <2>1. PICK v \in Listed(doc, "view"), n \in ViewNames : doc' = Renamed(doc, "view", v, n)
    BY <1>5 DEF EditView
  <2>2. MayEdit /\ ViewNameLeft /\ rows' = rows /\ running' = running
    BY <1>5 DEF EditView
  <2>3. \E m \in Names["view"] : doc.key["view"][m] = None
    BY <2>2, PoolIs DEF ViewNameLeft
  <2>4. /\ DocIs(doc') /\ Listed(doc', "port") = Listed(doc, "port")
        /\ Listed(doc', "device") = Listed(doc, "device")
    BY <1>2, <2>1, <2>3, KindsAre, PoolIs, DocRenamed
  <2> QED
    BY <1>1, <1>a, <1>b, <1>d, <2>2, <2>4, EditKeeps
<1>6. CASE DeleteView
  <2>1. PICK v \in Listed(doc, "view") : doc' = Removed(doc, "view", v) /\ rows' = [rows EXCEPT ![v] = <<>>]
    BY <1>6 DEF DeleteView
  <2>2. MayEdit /\ running' = running
    BY <1>6 DEF DeleteView
  <2>3. v \in Views /\ v \in Lists /\ v # "actions"
    BY <1>3, KindsAre, PoolIs, TypedIs, ProjectAssumption DEF Lists
  <2>4. /\ DocIs(doc') /\ Listed(doc', "port") = Listed(doc, "port")
        /\ Listed(doc', "device") = Listed(doc, "device")
    BY <1>2, <2>1, KindsAre, DocRemoved
  <2>5. RowsAre(rows', doc') /\ rows'["actions"] = rows["actions"]
    <3>1. RowsAre(rows, doc')
      BY <1>b, <2>4
    <3>2. <<>> \in Seq(Listed(doc', "device") \union {None})
      OBVIOUS
    <3>3. RowsAre(rows', doc')
      BY <2>1, <2>3, <3>1, <3>2, RowsSet
    <3>4. "actions" \in DOMAIN rows
      BY <1>2 DEF RowsAre, Lists
    <3> QED
      BY <2>1, <2>3, <3>3, <3>4
  <2> QED
    BY <1>1, <1>a, <1>d, <2>2, <2>4, <2>5, EditKeeps
<1>7. CASE EditPort
  <2>1. PICK p \in Listed(doc, "port"), n \in PortNames : doc' = Renamed(doc, "port", p, n)
    BY <1>7 DEF EditPort
  <2>2. ~running /\ rows' = rows /\ running' = running
    BY <1>7 DEF EditPort
  <2>4. /\ DocIs(doc') /\ Listed(doc', "port") = Listed(doc, "port")
        /\ Listed(doc', "device") = Listed(doc, "device")
    BY <1>2, <2>1, KindsAre, PoolIs, DocRenamed
  <2> QED
    BY <1>1, <1>a, <1>b, <2>2, <2>4, EditKeeps
<1>8. ASSUME NEW l \in Lists, NEW x \in Seq(D), rows' = [rows EXCEPT ![l] = x], MayEditRows(l),
             doc' = doc, running' = running
      PROVE  IInv'
  <2>1. RowsAre(rows', doc')
    BY <1>2, <1>8, RowsSet
  <2>2. running => program = "server" /\ l # "actions"
    BY <1>8 DEF MayEditRows, MayEdit
  <2>3. running => rows'["actions"] = rows["actions"]
    BY <1>2, <1>8, <2>2 DEF RowsAre
  <2> QED
    BY <1>1, <1>2, <1>a, <1>8, <2>1, <2>2, <2>3, EditKeeps
<1>9. ASSUME NEW l \in Lists, NewRows(l) PROVE IInv'
  <2>1. PICK d \in D, n \in 1..MaxRows[program], at \in 0..Len(rows[l]) :
          rows' = [rows EXCEPT ![l] = SubSeq(@, 1, at) \o [i \in 1..n |-> d] \o SubSeq(@, at + 1, Len(@))]
    BY <1>9 DEF NewRows
  <2> DEFINE x == SubSeq(rows[l], 1, at) \o [i \in 1..n |-> d] \o SubSeq(rows[l], at + 1, Len(rows[l]))
             s == rows[l]
  <2>2. [i \in 1..n |-> d] \in Seq(D)
    <3>1. n \in Nat
      BY <1>2, ProjectAssumption
    <3> QED
      BY <3>1
  <2>3. s \in Seq(D)
    BY <1>c
  <2>4. x \in Seq(D)
    BY <2>2, <2>3, RowsPut
  <2>5. rows' = [rows EXCEPT ![l] = x]
    BY <1>2, <2>1 DEF RowsAre
  <2> HIDE DEF x
  <2> QED
    BY <1>8, <1>9, <2>4, <2>5 DEF NewRows
<1>10. ASSUME NEW l \in Lists, InsertRow(l) PROVE IInv'
  <2> DEFINE s == rows[l]
             first == IF doc.list["device"] = <<>> THEN None ELSE doc.list["device"][1]
  <2>1. PICK at \in 1..(Len(s) + 1) :
          rows' = [rows EXCEPT ![l] = InsertAt(s, at, IF at > 1 THEN s[at - 1] ELSE first)]
    BY <1>2, <1>10 DEF InsertRow, RowsAre
  <2> DEFINE y == IF at > 1 THEN s[at - 1] ELSE first
  <2>2. s \in Seq(D)
    BY <1>c
  <2>3. first \in D
    <3> DEFINE L == doc.list["device"]
    <3>1. L \in Seq(Devices) /\ ToSet(L) = Listed(doc, "device")
      BY <1>3, KindsAre, PoolIs DEF Typed, Listed
    <3> HIDE DEF L
    <3>2. L # <<>> => L[1] \in ToSet(L)
      BY <3>1, SeqIs
    <3> QED
      BY <3>1, <3>2 DEF L
  <2> HIDE DEF first
  <2>4. y \in D
    <3> HIDE DEF s, D
    <3>1. at > 1 => at - 1 \in 1 .. Len(s)
      BY <2>2
    <3> QED
      BY <2>2, <2>3, <3>1, SeqIs
  <2> DEFINE x == InsertAt(s, at, y)
  <2>5. x = SubSeq(s, 1, at - 1) \o <<y>> \o SubSeq(s, (at - 1) + 1, Len(s))
    <3> HIDE DEF y, s, D
    <3>1. x = SubSeq(s, 1, at - 1) \o <<y>> \o SubSeq(s, at, Len(s))
      BY Zenon DEF InsertAt
    <3>2. (at - 1) + 1 = at
      BY <2>2
    <3> QED
      BY <3>1, <3>2
  <2>6. rows' = [rows EXCEPT ![l] = x]
    BY <2>1
  <2> HIDE DEF y, x, s, D
  <2>7. <<y>> \in Seq(D) /\ at - 1 \in 0 .. Len(s)
    BY <2>2, <2>4
  <2>8. x \in Seq(D)
    BY <2>2, <2>5, <2>7, RowsPut
  <2> QED
    BY <1>8, <1>10, <2>6, <2>8 DEF InsertRow
<1>11. ASSUME NEW l \in Lists, EditRow(l) PROVE IInv'
  <2>1. PICK i \in DOMAIN rows[l], d \in D : rows' = [rows EXCEPT ![l][i] = d]
    BY <1>11 DEF EditRow
  <2> DEFINE s == rows[l]
             x == [s EXCEPT ![i] = d]
  <2>2. s \in Seq(D)
    BY <1>c
  <2>3. rows' = [rows EXCEPT ![l] = x]
    BY <2>1
  <2> HIDE DEF s
  <2>4. x \in Seq(D)
    <3> HIDE DEF D
    <3>1. i \in 1 .. Len(s)
      BY <2>1, <2>2 DEF s
    <3> QED
      BY <2>2, <3>1, RowChanged
  <2> HIDE DEF x
  <2> QED
    BY <1>8, <1>11, <2>3, <2>4 DEF EditRow
<1>12. ASSUME NEW l \in Lists, DeleteRow(l) PROVE IInv'
  <2>1. PICK i \in DOMAIN rows[l] : rows' = [rows EXCEPT ![l] = RemoveAt(@, i)]
    BY <1>12 DEF DeleteRow
  <2> DEFINE s == rows[l]
             x == RemoveAt(s, i)
  <2>2. s \in Seq(D) /\ i \in 1 .. Len(s)
    BY <1>c
  <2>3. rows' = [rows EXCEPT ![l] = x]
    BY <1>2, <2>1 DEF RowsAre
  <2>4. x \in Seq(D)
    BY <2>2, RowOut
  <2> HIDE DEF x
  <2> QED
    BY <1>8, <1>12, <2>3, <2>4 DEF DeleteRow
<1> QED
  BY <1>4, <1>5, <1>6, <1>7, <1>9, <1>10, <1>11, <1>12 DEF SharedEdits

LEMMA ClientStep ==
  ASSUME IInv, ClientEdits, UNCHANGED <<program, run, refs, units, unitOf>>
  PROVE  IInv'
<1>1. Refs' = Refs /\ program = "client" /\ ~running /\ running' = running
  BY DEF Refs, ClientEdits, Idle, ClientPortNew, ClientPortDelete, ClientDeviceNew, ClientDeviceNewPort,
         ClientDeviceEdit, ClientDeviceEditPort, ClientDeviceDelete, PortClearAllDevice
<1>2. /\ program \in Programs /\ DocIs(doc) /\ RowsAre(rows, doc)
      /\ RefsAre(program, Refs, doc) /\ MembersAre("client", Members, doc)
  BY <1>1 DEF IInv, Consistent
<1>3. Typed(doc) /\ AtItsPort(Members) /\ Members.portOf = portOf /\ Members.members = members
  BY <1>2 DEF DocIs, MembersAre, Members
<1>4. /\ Listed(doc, "port") \subseteq Ports /\ Listed(doc, "device") \subseteq Devices /\ None \notin Ports
  BY <1>3, KindsAre, PoolIs, TypedIs
<1>5. \A p \in Ports : refs[p] = <<>>
  BY <1>1, <1>2 DEF RefsAre, Refs
<1>6. \A d : RefsAre(program, Refs, d)
  <2>1. ToSet(<<>>) = {}
    BY DEF ToSet
  <2> QED
    BY <1>2, <1>5, <2>1 DEF RefsAre, Refs
<1>7. DocIs(doc') /\ RowsAre(rows', doc') /\ MembersAre("client", Members', doc') => IInv'
  BY <1>1, <1>2, <1>6, EditKeeps DEF Consistent
<1>8. CASE ClientPortNew
  <2>1. PICK p \in Gone(doc, "port"), n \in PortNames : doc' = Added(doc, "port", p, n)
    BY <1>8 DEF ClientPortNew
  <2>2. rows' = rows /\ Members' = Members
    BY <1>8 DEF ClientPortNew, Members
  <2>3. /\ DocIs(doc') /\ Listed(doc', "port") = Listed(doc, "port") \union {p}
        /\ Listed(doc', "device") = Listed(doc, "device")
    BY <1>2, <2>1, KindsAre, PoolIs, DocAdded
  <2> QED
    BY <1>2, <1>7, <2>2, <2>3, RowsGrow, MembersStay
<1>9. CASE ClientPortDelete
  <2>1. PICK p \in Listed(doc, "port") : members[p] = <<>> /\ doc' = Removed(doc, "port", p)
    BY <1>9 DEF ClientPortDelete
  <2>2. rows' = rows /\ Members' = Members
    BY <1>9 DEF ClientPortDelete, Members
  <2>3. /\ DocIs(doc') /\ Listed(doc', "port") = Listed(doc, "port") \ {p}
        /\ Listed(doc', "device") = Listed(doc, "device")
    BY <1>2, <2>1, KindsAre, PoolIs, DocRemoved
  <2>4. \A x \in Devices : portOf[x] # p
    <3>1. ToSet(members[p]) = {}
      BY <2>1 DEF ToSet
    <3> QED
      BY <1>3, <1>4, <3>1 DEF AtItsPort
  <2>5. MembersAre("client", Members', doc')
    BY <1>2, <1>3, <2>2, <2>3, <2>4 DEF MembersAre
  <2> QED
    BY <1>2, <1>7, <2>2, <2>3, <2>5, RowsGrow
<1>10. CASE ClientDeviceNew
  <2>1. PICK p \in Listed(doc, "port"), d \in Gone(doc, "device"), n \in DeviceNames :
          doc' = Added(doc, "device", d, n) /\ Settle(Joined(Members, p, d))
    BY <1>10 DEF ClientDeviceNew
  <2>2. rows' = rows /\ d \in Devices /\ d \notin Listed(doc, "device")
    BY <1>10, <2>1, PoolIs DEF ClientDeviceNew, Gone
  <2>3. /\ DocIs(doc') /\ Listed(doc', "device") = Listed(doc, "device") \union {d}
        /\ Listed(doc', "port") = Listed(doc, "port")
    BY <1>2, <2>1, KindsAre, PoolIs, DocAdded
  <2>4. Members.portOf[d] = None
    BY <1>2, <2>2 DEF MembersAre
  <2>5. /\ AtItsPort(Joined(Members, p, d))
        /\ \A x \in Devices : Joined(Members, p, d).portOf[x] = IF x = d THEN p ELSE Members.portOf[x]
    BY <1>3, <1>4, <2>2, <2>4, JoinedIs
  <2>6. Members' = Joined(Members, p, d)
    BY <2>1, <2>5, MembersSettle
  <2>7. MembersAre("client", Members', doc')
    BY <1>2, <1>4, <2>2, <2>3, <2>5, <2>6, MembersMade
  <2> QED
    BY <1>2, <1>7, <2>2, <2>3, <2>7, RowsGrow
<1>11. CASE ClientDeviceNewPort
  <2>1. PICK p \in Gone(doc, "port"), d \in Gone(doc, "device"), m \in PortNames, n \in DeviceNames :
          doc' = Added(Added(doc, "port", p, m), "device", d, n) /\ Settle(Joined(Members, p, d))
    BY <1>11 DEF ClientDeviceNewPort
  <2>2. rows' = rows /\ d \in Devices /\ d \notin Listed(doc, "device") /\ p \in Ports
    BY <1>11, <2>1, PoolIs DEF ClientDeviceNewPort, Gone
  <2> DEFINE b == Added(doc, "port", p, m)
  <2>a. /\ DocIs(b) /\ Listed(b, "port") = Listed(doc, "port") \union {p}
        /\ Listed(b, "device") = Listed(doc, "device")
    BY <1>2, <2>1, KindsAre, PoolIs, DocAdded
  <2>b. d \in Gone(b, "device")
    BY <2>1, <2>a DEF Gone
  <2> HIDE DEF b
  <2>3. /\ DocIs(doc') /\ Listed(doc', "device") = Listed(doc, "device") \union {d}
        /\ Listed(doc', "port") = Listed(doc, "port") \union {p}
    <3>1. doc' = Added(b, "device", d, n)
      BY <2>1 DEF b
    <3> QED
      BY <2>a, <2>b, <3>1, KindsAre, PoolIs, DocAdded
  <2>4. Members.portOf[d] = None
    BY <1>2, <2>2 DEF MembersAre
  <2>5. /\ AtItsPort(Joined(Members, p, d))
        /\ \A x \in Devices : Joined(Members, p, d).portOf[x] = IF x = d THEN p ELSE Members.portOf[x]
    BY <1>3, <1>4, <2>2, <2>4, JoinedIs
  <2>6. Members' = Joined(Members, p, d)
    BY <2>1, <2>5, MembersSettle
  <2>7. MembersAre("client", Members', doc')
    BY <1>2, <1>4, <2>2, <2>3, <2>5, <2>6, MembersMade
  <2> QED
    BY <1>2, <1>7, <2>2, <2>3, <2>7, RowsGrow
<1>12. CASE ClientDeviceEdit
  <2>1. PICK d \in Listed(doc, "device"), p \in Listed(doc, "port"), n \in DeviceNames :
          /\ Settle(IF p = portOf[d] THEN Members ELSE Moved(Members, p, d))
          /\ doc' = Renamed(doc, "device", d, n)
    BY <1>12 DEF ClientDeviceEdit
  <2>2. rows' = rows /\ d \in Devices /\ p \in Ports
    BY <1>4, <1>12 DEF ClientDeviceEdit
  <2>3. /\ DocIs(doc') /\ Listed(doc', "device") = Listed(doc, "device")
        /\ Listed(doc', "port") = Listed(doc, "port")
    BY <1>2, <2>1, KindsAre, PoolIs, DocRenamed
  <2>4. CASE p = portOf[d]
    <3>1. Members' = Members
      BY <1>3, <2>1, <2>4, MembersSettle
    <3> QED
      BY <1>2, <1>7, <2>2, <2>3, <3>1, RowsGrow, MembersStay
  <2>5. CASE p # portOf[d]
    <3>1. /\ AtItsPort(Moved(Members, p, d))
          /\ \A x \in Devices : Moved(Members, p, d).portOf[x] = IF x = d THEN p ELSE Members.portOf[x]
      BY <1>3, <2>2, MovedIs
    <3>2. Members' = Moved(Members, p, d)
      BY <2>1, <2>5, <3>1, MembersSettle
    <3>3. MembersAre("client", Members', doc')
      <4>1. Listed(doc', "device") = Listed(doc, "device") \union {d} /\ p \in Listed(doc', "port") /\ p # None
        BY <1>4, <2>1, <2>2, <2>3
      <4> QED
        BY <1>2, <2>2, <2>3, <3>1, <3>2, <4>1, MembersMade
    <3> QED
      BY <1>2, <1>7, <2>2, <2>3, <3>3, RowsGrow
  <2> QED
    BY <2>4, <2>5
<1>13. CASE ClientDeviceEditPort
  <2>1. PICK d \in Listed(doc, "device"), p \in Gone(doc, "port"), m \in PortNames, n \in DeviceNames :
          /\ Settle(Moved(Members, p, d))
          /\ doc' = Renamed(Added(doc, "port", p, m), "device", d, n)
    BY <1>13 DEF ClientDeviceEditPort
  <2>2. rows' = rows /\ d \in Devices /\ p \in Ports
    BY <1>4, <1>13, <2>1, PoolIs DEF ClientDeviceEditPort, Gone
  <2> DEFINE b == Added(doc, "port", p, m)
  <2>a. /\ DocIs(b) /\ Listed(b, "port") = Listed(doc, "port") \union {p}
        /\ Listed(b, "device") = Listed(doc, "device")
    BY <1>2, <2>1, KindsAre, PoolIs, DocAdded
  <2> HIDE DEF b
  <2>3. /\ DocIs(doc') /\ Listed(doc', "device") = Listed(doc, "device")
        /\ Listed(doc', "port") = Listed(doc, "port") \union {p}
    <3>1. doc' = Renamed(b, "device", d, n)
      BY <2>1 DEF b
    <3> QED
      BY <2>1, <2>a, <3>1, KindsAre, PoolIs, DocRenamed
  <2>4. /\ AtItsPort(Moved(Members, p, d))
        /\ \A x \in Devices : Moved(Members, p, d).portOf[x] = IF x = d THEN p ELSE Members.portOf[x]
    BY <1>3, <2>2, MovedIs
  <2>5. Members' = Moved(Members, p, d)
    BY <2>1, <2>4, MembersSettle
  <2>6. MembersAre("client", Members', doc')
    <3>1. Listed(doc', "device") = Listed(doc, "device") \union {d} /\ p \in Listed(doc', "port") /\ p # None
      BY <1>4, <2>1, <2>2, <2>3
    <3> QED
      BY <1>2, <2>2, <2>3, <2>4, <2>5, <3>1, MembersMade
  <2> QED
    BY <1>2, <1>7, <2>2, <2>3, <2>6, RowsGrow
<1>14. CASE ClientDeviceDelete
  <2>1. PICK d \in Listed(doc, "device") :
          /\ Settle(Parted(Members, portOf[d], d))
          /\ doc' = Removed(doc, "device", d)
          /\ rows' = Forgotten(rows, {d})
    BY <1>14 DEF ClientDeviceDelete
  <2>2. d \in Devices
    BY <1>4
  <2>3. /\ DocIs(doc') /\ Listed(doc', "device") = Listed(doc, "device") \ {d}
        /\ Listed(doc', "port") = Listed(doc, "port")
    BY <1>2, <2>1, KindsAre, PoolIs, DocRemoved
  <2> DEFINE a == Parted(Members, portOf[d], d)
  <2>4. AtItsPort(a) /\ \A x \in Devices : a.portOf[x] = IF x = d THEN None ELSE Members.portOf[x]
    BY <1>3, <2>2, PartedIs
  <2>5. Members' = a
    BY <2>1, <2>4, MembersSettle
  <2> HIDE DEF a
  <2>6. MembersAre("client", Members', doc')
    <3>1. {d} \in SUBSET Devices /\ \A x \in Devices : a.portOf[x] = IF x \in {d} THEN None ELSE Members.portOf[x]
      BY <2>2, <2>4
    <3> QED
      <4>1. MembersAre("client", Members, doc) /\ AtItsPort(a)
        BY <1>2, <2>4
      <4>2. MembersAre("client", a, doc')
        BY <2>2, <2>3, <3>1, <4>1 DEF MembersAre
      <4> QED
        BY <2>5, <4>2
  <2> QED
    BY <1>2, <1>7, <2>1, <2>3, <2>6, RowsForgotten
<1>15. CASE PortClearAllDevice
  <2>1. PICK p \in Listed(doc, "port") :
          /\ Settle(AllParted(p))
          /\ doc' = AllRemoved(p)
          /\ rows' = Forgotten(rows, ToSet(members[p]))
    BY <1>15 DEF PortClearAllDevice
  <2> DEFINE X == ToSet(members[p])
  <2>2. p \in Ports /\ members[p] \in Seq(Devices) /\ IsInjective(members[p])
    BY <1>3, <1>4 DEF AtItsPort, Memberships
  <2>3. X \in SUBSET Devices /\ X \subseteq Listed(doc, "device")
    <3>1. X \subseteq Devices
      BY <2>2, SeqIs
    <3>2. \A x \in X : portOf[x] = p
      BY <1>3, <2>2, <3>1 DEF AtItsPort
    <3> QED
      BY <1>2, <1>3, <1>4, <2>2, <3>1, <3>2 DEF MembersAre
  <2>4. /\ AtItsPort(AllParted(p))
        /\ \A x \in Devices : AllParted(p).portOf[x] = IF x \in X THEN None ELSE portOf[x]
    BY <1>3, <2>2, AllPartedIs
  <2>5. Members' = AllParted(p)
    BY <2>1, <2>4, MembersSettle
  <2>6. /\ DocIs(doc') /\ Listed(doc', "device") = Listed(doc, "device") \ X
        /\ Listed(doc', "port") = Listed(doc, "port")
    BY <1>2, <2>1, <2>2, <2>3, KindsAre, AllRemovedIs
  <2> HIDE DEF X
  <2>8. MembersAre("client", Members', doc')
    <3>1. \A x \in Devices : AllParted(p).portOf[x] = IF x \in X THEN None ELSE Members.portOf[x]
      BY <1>3, <2>4
    <3> QED
      BY <1>2, <2>3, <2>4, <2>5, <2>6, <3>1, MembersGone
  <2>9. RowsAre(rows', doc')
    BY <1>2, <2>1, <2>6, RowsForgotten DEF X
  <2> QED
    BY <1>7, <2>6, <2>8, <2>9
<1> QED
  BY <1>8, <1>9, <1>10, <1>11, <1>12, <1>13, <1>14, <1>15 DEF ClientEdits

LEMMA ServerStep ==
  ASSUME IInv, ServerEdits, UNCHANGED <<program, run, members, portOf>>
  PROVE  IInv'
<1>1. Members' = Members /\ program = "server" /\ running' = running
  BY DEF Members, ServerEdits, ServerIdle, PortNew, PortImport, PortDelete, PortDeviceNew, PortDeviceAdd,
         PortDeviceEdit, PortDeviceDelete, DeviceNew, DeviceEdit, DeviceDelete
<1>2. /\ program \in Programs /\ DocIs(doc) /\ RowsAre(rows, doc)
      /\ RefsAre("server", Refs, doc) /\ MembersAre(program, Members, doc)
  BY <1>1 DEF IInv, Consistent
<1>3. Typed(doc) /\ Shown(Refs) /\ Refs.refs = refs /\ Refs.units = units /\ Refs.unitOf = unitOf
  BY <1>2 DEF DocIs, RefsAre, Refs
<1>4. /\ Listed(doc, "port") \subseteq Ports /\ Listed(doc, "device") \subseteq Devices
      /\ None \notin Devices /\ None \notin Ports
  BY <1>3, KindsAre, PoolIs, TypedIs
<1>5. \A p \in Ports : /\ ToSet(refs[p]) \subseteq Listed(doc, "device")
                       /\ refs[p] # <<>> => p \in Listed(doc, "port")
  BY <1>2, <1>3 DEF RefsAre
<1>6. \A d : MembersAre(program, Members, d)
  BY <1>1, <1>2 DEF MembersAre
<1>7. /\ DocIs(doc') /\ RowsAre(rows', doc') /\ RefsAre("server", Refs', doc')
      /\ running => /\ Listed(doc', "port") = Listed(doc, "port") /\ unitOf' = unitOf /\ rows' = rows
      => IInv'
  BY <1>1, <1>2, <1>6, EditKeeps DEF Consistent
<1>8. \A us \in AskedUnits : us \in SUBSET Units
  BY ServerProjectAssumption
<1>9. ASSUME NEW s, RefsAre("server", s, doc), Become(s) PROVE RefsAre("server", Refs', doc)
  <2>1. Refs' = s
    BY <1>9, RefsBecome DEF RefsAre
  <2> QED
    BY <1>9, <2>1
<1>10. CASE PortNew
  <2>1. PICK p \in Gone(doc, "port"), n \in PortNames : doc' = Added(doc, "port", p, n)
    BY <1>10 DEF PortNew
  <2>2. rows' = rows /\ Refs' = Refs /\ ~running
    BY <1>10 DEF PortNew, ServerIdle, Refs
  <2>3. /\ DocIs(doc') /\ Listed(doc', "port") = Listed(doc, "port") \union {p}
        /\ Listed(doc', "device") = Listed(doc, "device")
    BY <1>2, <2>1, KindsAre, PoolIs, DocAdded
  <2> QED
    BY <1>2, <1>7, <2>2, <2>3, RowsGrow, RefsStay
<1>11. CASE PortImport
  <2>1. PICK p \in Gone(doc, "port"), n \in PortNames, nd \in DeviceNames, us \in AskedUnits :
         /\ doc' = Added(doc, "port", p, n)
         /\ IF doc.key["device"][nd] = None THEN UNCHANGED <<refs, units, unitOf>>
            ELSE Become(RefAdded(Refs, p, doc.key["device"][nd], UnitsList(UnitsStr(us), DefaultUnits)))
    BY <1>11 DEF PortImport
  <2> DEFINE x == doc.key["device"][nd]
             asked == UnitsList(UnitsStr(us), DefaultUnits)
  <2>2. rows' = rows /\ ~running /\ p \in Ports /\ p \notin Listed(doc, "port")
    BY <1>11, <2>1, PoolIs DEF PortImport, ServerIdle, Gone
  <2>3. /\ DocIs(doc') /\ Listed(doc', "port") = Listed(doc, "port") \union {p}
        /\ Listed(doc', "device") = Listed(doc, "device")
    BY <1>2, <2>1, KindsAre, PoolIs, DocAdded
  <2>4. RefsAre("server", Refs, doc')
    BY <1>2, <2>3, RefsStay
  <2>5. CASE x = None
    <3>1. Refs' = Refs
      BY <2>1, <2>5 DEF Refs
    <3> QED
      BY <1>2, <1>7, <2>2, <2>3, <2>4, <3>1, RowsGrow
  <2>6. CASE x # None
    <3>1. x \in Listed(doc, "device") /\ x \in Devices
      <4>1. KeyedAs(doc, "device") /\ nd \in Names["device"]
        BY <1>2, PoolIs DEF DocIs, Keyed
      <4> QED
        BY <1>4, <2>6, <4>1 DEF KeyedAs
    <3>2. asked \in SUBSET Units
      BY <1>8, UnitsRound, ServerProjectAssumption
    <3>3. refs[p] = <<>>
      BY <1>5, <2>2
    <3>4. x \notin ToSet(Refs.refs[p])
      BY <1>3, <3>3 DEF ToSet
    <3> HIDE DEF x, asked
    <3>5. RefsAre("server", RefAdded(Refs, p, x, asked), doc')
      BY <2>2, <2>3, <2>4, <3>1, <3>2, <3>4, RefAddedStay
    <3>6. Become(RefAdded(Refs, p, x, asked))
      BY <2>1, <2>6 DEF x, asked
    <3>7. Refs' = RefAdded(Refs, p, x, asked)
      <4>1. Shown(RefAdded(Refs, p, x, asked))
        BY <3>5 DEF RefsAre
      <4> QED
        BY <3>6, <4>1, RefsBecome
    <3> QED
      BY <1>2, <1>7, <2>2, <2>3, <3>5, <3>7, RowsGrow
  <2> QED
    BY <2>5, <2>6
<1>12. CASE PortDelete
  <2>1. PICK p \in Listed(doc, "port") : refs[p] = <<>> /\ doc' = Removed(doc, "port", p)
    BY <1>12 DEF PortDelete
  <2>2. rows' = rows /\ Refs' = Refs /\ ~running
    BY <1>12 DEF PortDelete, ServerIdle, Refs
  <2>3. /\ DocIs(doc') /\ Listed(doc', "port") = Listed(doc, "port") \ {p}
        /\ Listed(doc', "device") = Listed(doc, "device")
    BY <1>2, <2>1, KindsAre, PoolIs, DocRemoved
  <2>4. RefsAre("server", Refs', doc')
    BY <1>2, <1>3, <2>1, <2>2, <2>3 DEF RefsAre
  <2> QED
    BY <1>2, <1>7, <2>2, <2>3, <2>4, RowsGrow
<1>13. CASE PortDeviceNew
  <2>1. PICK p \in Listed(doc, "port"), d \in Gone(doc, "device"), n \in DeviceNames, us \in AskedUnits :
         /\ doc' = Added(doc, "device", d, n)
         /\ Become(RefAdded(Refs, p, d, us))
    BY <1>13 DEF PortDeviceNew
  <2>2. rows' = rows /\ ~running /\ p \in Ports /\ d \in Devices /\ d \notin Listed(doc, "device")
    BY <1>4, <1>13, <2>1, PoolIs DEF PortDeviceNew, ServerIdle, Gone
  <2>3. /\ DocIs(doc') /\ Listed(doc', "device") = Listed(doc, "device") \union {d}
        /\ Listed(doc', "port") = Listed(doc, "port")
    BY <1>2, <2>1, KindsAre, PoolIs, DocAdded
  <2>4. RefsAre("server", Refs, doc') /\ d \notin ToSet(Refs.refs[p])
    BY <1>2, <1>3, <1>5, <2>2, <2>3, RefsStay
  <2>5. RefsAre("server", RefAdded(Refs, p, d, us), doc')
    BY <1>8, <2>1, <2>2, <2>3, <2>4, RefAddedStay
  <2>6. Refs' = RefAdded(Refs, p, d, us)
    <3>1. Shown(RefAdded(Refs, p, d, us))
      BY <2>5 DEF RefsAre
    <3> QED
      BY <2>1, <3>1, RefsBecome
  <2> QED
    BY <1>2, <1>7, <2>2, <2>3, <2>5, <2>6, RowsGrow
<1>14. CASE PortDeviceAdd
  <2>1. PICK p \in Listed(doc, "port"), d \in Listed(doc, "device"), us \in AskedUnits :
            Become(IF d \in ToSet(refs[p]) THEN UnitsSet(Refs, p, d, units[p][d] \union us)
                   ELSE RefAdded(Refs, p, d, us))
    BY <1>14 DEF PortDeviceAdd
  <2>2. doc' = doc /\ rows' = rows /\ ~running /\ p \in Ports /\ d \in Devices
    BY <1>4, <1>14 DEF PortDeviceAdd, ServerIdle
  <2>3. CASE d \in ToSet(refs[p])
    <3>1. units[p][d] \union us \in SUBSET Units
      BY <1>3, <1>8, <2>2, ReferencesAre
    <3>2. RefsAre("server", UnitsSet(Refs, p, d, units[p][d] \union us), doc)
      BY <1>2, <1>3, <2>2, <2>3, <3>1, UnitsSetStay
    <3> QED
      BY <1>2, <1>7, <1>9, <2>1, <2>2, <2>3, <3>2
  <2>4. CASE d \notin ToSet(refs[p])
    <3>1. RefsAre("server", RefAdded(Refs, p, d, us), doc)
      BY <1>2, <1>3, <1>8, <2>1, <2>2, <2>4, RefAddedStay
    <3> QED
      BY <1>2, <1>7, <1>9, <2>1, <2>2, <2>4, <3>1
  <2> QED
    BY <2>3, <2>4
<1>15. CASE PortDeviceEdit
  <2>1. PICK p \in Listed(doc, "port"), us \in AskedUnits, n \in DeviceNames : \E d \in ToSet(refs[p]) :
         /\ Become(UnitsSet(Refs, p, d, us))
         /\ doc' = Renamed(doc, "device", d, n)
    BY <1>15 DEF PortDeviceEdit
  <2>2. PICK d \in ToSet(refs[p]) :
         /\ Become(UnitsSet(Refs, p, d, us))
         /\ doc' = Renamed(doc, "device", d, n)
    BY <2>1
  <2>3. rows' = rows /\ ~running /\ p \in Ports /\ d \in Listed(doc, "device")
    BY <1>4, <1>5, <1>15, <2>1 DEF PortDeviceEdit, ServerIdle
  <2>4. /\ DocIs(doc') /\ Listed(doc', "device") = Listed(doc, "device")
        /\ Listed(doc', "port") = Listed(doc, "port")
    BY <1>2, <2>2, <2>3, KindsAre, PoolIs, DocRenamed
  <2>5. RefsAre("server", UnitsSet(Refs, p, d, us), doc)
    BY <1>2, <1>3, <1>8, <2>3, UnitsSetStay
  <2>6. RefsAre("server", Refs', doc')
    <3>1. RefsAre("server", Refs', doc)
      BY <1>9, <2>2, <2>5
    <3> QED
      BY <2>4, <3>1, RefsStay
  <2> QED
    BY <1>2, <1>7, <2>3, <2>4, <2>6, RowsGrow
<1>16. CASE PortDeviceDelete
  <2>1. PICK p \in Listed(doc, "port") : \E d \in ToSet(refs[p]) : Become(RefRemoved(Refs, p, d))
    BY <1>16 DEF PortDeviceDelete
  <2>2. PICK d \in ToSet(refs[p]) : Become(RefRemoved(Refs, p, d))
    BY <2>1
  <2>3. doc' = doc /\ rows' = rows /\ ~running /\ p \in Ports /\ d \in Devices
    BY <1>4, <1>5, <1>16 DEF PortDeviceDelete, ServerIdle
  <2>4. RefsAre("server", RefRemoved(Refs, p, d), doc)
    BY <1>2, <2>3, RefRemovedStay
  <2> QED
    BY <1>2, <1>7, <1>9, <2>2, <2>3, <2>4
<1>17. CASE DeviceNew
  <2>1. PICK d \in Gone(doc, "device"), n \in DeviceNames : doc' = Added(doc, "device", d, n)
    BY <1>17 DEF DeviceNew
  <2>2. rows' = rows /\ Refs' = Refs /\ unitOf' = unitOf
    BY <1>17 DEF DeviceNew, Refs
  <2>3. /\ DocIs(doc') /\ Listed(doc', "device") = Listed(doc, "device") \union {d}
        /\ Listed(doc', "port") = Listed(doc, "port")
    BY <1>2, <2>1, KindsAre, PoolIs, DocAdded
  <2> QED
    BY <1>2, <1>7, <2>2, <2>3, RowsGrow, RefsStay
<1>18. CASE DeviceEdit
  <2>1. PICK d \in Listed(doc, "device"), n \in DeviceNames : doc' = Renamed(doc, "device", d, n)
    BY <1>18 DEF DeviceEdit
  <2>2. rows' = rows /\ Refs' = Refs /\ unitOf' = unitOf
    BY <1>18 DEF DeviceEdit, Refs
  <2>3. /\ DocIs(doc') /\ Listed(doc', "device") = Listed(doc, "device")
        /\ Listed(doc', "port") = Listed(doc, "port")
    BY <1>2, <2>1, KindsAre, PoolIs, DocRenamed
  <2> QED
    BY <1>2, <1>7, <2>2, <2>3, RowsGrow, RefsStay
<1>19. CASE DeviceDelete
  <2>1. PICK d \in Listed(doc, "device") :
         /\ doc' = Removed(doc, "device", d)
         /\ Become(RefsRemoved(d))
         /\ rows' = Forgotten(rows, {d})
    BY <1>19 DEF DeviceDelete
  <2>2. ~running /\ d \in Devices
    BY <1>4, <1>19 DEF DeviceDelete, ServerIdle
  <2>3. /\ DocIs(doc') /\ Listed(doc', "device") = Listed(doc, "device") \ {d}
        /\ Listed(doc', "port") = Listed(doc, "port")
    BY <1>2, <2>1, KindsAre, PoolIs, DocRemoved
  <2>4. Shown(RefsRemoved(d)) /\ \A p \in Ports : ToSet(RefsRemoved(d).refs[p]) = ToSet(refs[p]) \ {d}
    BY <1>3, <1>5, <2>2, RefsRemovedIs
  <2>5. RefsAre("server", RefsRemoved(d), doc')
    <3>1. \A p \in Ports : ToSet(RefsRemoved(d).refs[p]) \subseteq ToSet(Refs.refs[p]) \intersect Listed(doc', "device")
      BY <1>3, <1>5, <2>3, <2>4
    <3> QED
      BY <1>2, <2>3, <2>4, <3>1, RefsLess
  <2>6. Refs' = RefsRemoved(d)
    BY <2>1, <2>4, RefsBecome
  <2>7. RowsAre(rows', doc')
    BY <1>2, <2>1, <2>3, RowsForgotten
  <2> QED
    BY <1>7, <2>2, <2>3, <2>5, <2>6, <2>7
<1> QED
  BY <1>10, <1>11, <1>12, <1>13, <1>14, <1>15, <1>16, <1>17, <1>18, <1>19 DEF ServerEdits

\* menuSlotFileOpen of the file that was saved: the project when its devices,
\* when its ports and when its views are loaded.
File == Saved(doc, rows)
DevicesLoaded == LoadedKind(Empty, "device", File)
PortsLoaded == LoadedKind(DevicesLoaded, "port", File)
ViewsLoaded == LoadedKind(PortsLoaded, "view", File)

LEMMA KeyedStays ==
  ASSUME NEW d, NEW e, NEW l \in Kinds, Typed(d), KeyedAs(d, l),
         e.list[l] = d.list[l], e.key[l] = d.key[l], \A o \in Pool[l] : e.name[o] = d.name[o]
  PROVE  KeyedAs(e, l)
<1>1. Listed(e, l) = Listed(d, l) /\ Listed(d, l) \subseteq Pool[l]
  BY TypedIs DEF Listed
<1> QED
  BY <1>1 DEF KeyedAs

LEMMA FileIs ==
  ASSUME DocIs(doc)
  PROVE  /\ File.list = doc.list /\ File.name = doc.name
         /\ \A k \in Kinds : /\ File.list[k] \in Seq(Pool[k]) /\ IsInjective(File.list[k])
                             /\ ToSet(File.list[k]) = Listed(doc, k) /\ Listed(doc, k) \subseteq Pool[k]
                             /\ \A o \in ToSet(File.list[k]) : File.name[o] \in Names[k]
         /\ \A k \in {"port", "device"} : \A o, x \in ToSet(File.list[k]) :
              File.name[o] = File.name[x] => o = x
<1>1. File.list = doc.list /\ File.name = doc.name
  BY DEF File, Saved
<1>2. Typed(doc) /\ Keyed(doc)
  BY DEF DocIs
<1>3. ASSUME NEW k \in Kinds
      PROVE  /\ File.list[k] \in Seq(Pool[k]) /\ IsInjective(File.list[k])
             /\ ToSet(File.list[k]) = Listed(doc, k) /\ Listed(doc, k) \subseteq Pool[k]
  BY <1>1, <1>2, TypedIs DEF Typed, Listed
<1>4. ASSUME NEW k \in Kinds, NEW o \in Listed(doc, k) PROVE doc.name[o] \in Names[k]
  <2>1. o \in Pool[k] /\ doc.name[o] \in Names[k] \union {None}
    BY <1>2, <1>3 DEF Typed
  <2>2. CASE k = "view"
    BY <2>2, PoolIs DEF DocIs
  <2>3. CASE k # "view"
    <3>1. k \in {"port", "device"}
      BY <2>3, KindsAre
    <3> QED
      BY <1>2, <2>1, <3>1 DEF Keyed, KeyedAs
  <2> QED
    BY <2>2, <2>3
<1>5. ASSUME NEW k \in {"port", "device"}, NEW o \in Listed(doc, k), NEW x \in Listed(doc, k),
             doc.name[o] = doc.name[x]
      PROVE  o = x
  BY <1>2, <1>5 DEF Keyed, KeyedAs
<1>6. "port" \in Kinds /\ "device" \in Kinds
  BY KindsAre
<1> QED
  BY <1>1, <1>3, <1>4, <1>5, <1>6

LEMMA DevicesLoadedIs ==
  ASSUME DocIs(doc)
  PROVE  /\ Typed(DevicesLoaded) /\ KeyedAs(DevicesLoaded, "device")
         /\ DevicesLoaded.list["device"] = doc.list["device"]
         /\ \A l \in {"port", "view"} : DevicesLoaded.list[l] = <<>> /\ KeyedAs(DevicesLoaded, l)
         /\ \A x \in Listed(doc, "device") : DevicesLoaded.name[x] = doc.name[x]
<1> DEFINE a == DevicesLoaded
<1>1. Typed(Empty) /\ \A k \in Kinds : Empty.list[k] = <<>>
  BY EmptyIs DEF DocIs
<1>2. \A k \in Kinds : KeyedAs(Empty, k)
  <2>1. \A k \in Kinds : Listed(Empty, k) = {} /\ \A n \in Names[k] : Empty.key[k][n] = None
    BY EmptyIs DEF Empty
  <2> QED
    BY <2>1 DEF KeyedAs
<1>3. /\ Typed(a) /\ KeyedAs(a, "device")
      /\ a.list["device"] = File.list["device"]
      /\ \A l \in Kinds \ {"device"} : a.list[l] = Empty.list[l] /\ a.key[l] = Empty.key[l]
      /\ \A x \in Objects \ Pool["device"] : a.name[x] = Empty.name[x]
      /\ \A o \in ToSet(File.list["device"]) : a.name[o] = File.name[o]
  BY <1>1, <1>2, KindsAre, FileIs, LoadedKindIs DEF DevicesLoaded
<1> HIDE DEF a
<1>4. ASSUME NEW l \in {"port", "view"} PROVE a.list[l] = <<>> /\ KeyedAs(a, l)
  <2>1. l \in Kinds \ {"device"} /\ \A o \in Pool[l] : o \in Objects \ Pool["device"]
    BY KindsAre, PoolIs
  <2> QED
    BY <1>1, <1>2, <1>3, <2>1, KeyedStays
<1> QED
  BY <1>3, <1>4, KindsAre, FileIs DEF a

LEMMA PortsLoadedIs ==
  ASSUME DocIs(doc)
  PROVE  /\ Typed(PortsLoaded) /\ Keyed(PortsLoaded)
         /\ \A k \in {"port", "device"} : PortsLoaded.list[k] = doc.list[k]
         /\ PortsLoaded.list["view"] = <<>> /\ KeyedAs(PortsLoaded, "view")
         /\ \A k \in {"port", "device"} : \A x \in Listed(doc, k) : PortsLoaded.name[x] = doc.name[x]
<1> DEFINE d == DevicesLoaded
           a == PortsLoaded
<1>1. /\ Typed(d) /\ KeyedAs(d, "device") /\ d.list["device"] = doc.list["device"]
      /\ \A l \in {"port", "view"} : d.list[l] = <<>> /\ KeyedAs(d, l)
      /\ \A x \in Listed(doc, "device") : d.name[x] = doc.name[x]
  BY DevicesLoadedIs
<1> HIDE DEF d
<1>2. /\ Typed(a) /\ KeyedAs(a, "port")
      /\ a.list["port"] = File.list["port"]
      /\ \A l \in Kinds \ {"port"} : a.list[l] = d.list[l] /\ a.key[l] = d.key[l]
      /\ \A x \in Objects \ Pool["port"] : a.name[x] = d.name[x]
      /\ \A o \in ToSet(File.list["port"]) : a.name[o] = File.name[o]
  <2>1. a = LoadedKind(d, "port", File)
    BY DEF PortsLoaded, d
  <2> HIDE DEF a
  <2> QED
    BY <1>1, <2>1, KindsAre, FileIs, LoadedKindIs
<1> HIDE DEF a
<1>3. ASSUME NEW l \in {"device", "view"} PROVE KeyedAs(a, l) /\ a.list[l] = d.list[l] /\ \A o \in Pool[l] : a.name[o] = d.name[o]
  <2>1. l \in Kinds \ {"port"} /\ \A o \in Pool[l] : o \in Objects \ Pool["port"]
    BY KindsAre, PoolIs
  <2> QED
    BY <1>1, <1>2, <2>1, KeyedStays
<1>4. \A x \in Listed(doc, "device") : a.name[x] = doc.name[x]
  BY <1>1, <1>3, KindsAre, FileIs
<1> QED
  BY <1>1, <1>2, <1>3, <1>4, KindsAre, FileIs DEF Keyed, a

LEMMA ViewsLoadedIs ==
  ASSUME DocIs(doc)
  PROVE  /\ DocIs(ViewsLoaded) /\ ViewsLoaded.list = doc.list
         /\ \A k \in {"port", "device"} : \A x \in Listed(doc, k) : ViewsLoaded.name[x] = doc.name[x]
         /\ ViewsNamedApart => \A v \in Listed(doc, "view") : ViewsLoaded.name[v] = doc.name[v]
<1> DEFINE d == PortsLoaded
           a == ViewsLoaded
<1>1. /\ Typed(d) /\ Keyed(d)
      /\ \A k \in {"port", "device"} : d.list[k] = doc.list[k]
      /\ d.list["view"] = <<>> /\ KeyedAs(d, "view")
      /\ \A k \in {"port", "device"} : \A x \in Listed(doc, k) : d.name[x] = doc.name[x]
  BY PortsLoadedIs
<1> HIDE DEF d
<1>2. /\ Typed(a)
      /\ a.list["view"] = File.list["view"]
      /\ \A l \in Kinds \ {"view"} : a.list[l] = d.list[l] /\ a.key[l] = d.key[l]
      /\ \A x \in Objects \ Pool["view"] : a.name[x] = d.name[x]
      /\ \A o \in ToSet(File.list["view"]) : a.name[o] \in Names["view"]
      /\ (\A o, x \in ToSet(File.list["view"]) : File.name[o] = File.name[x] => o = x) =>
           \A o \in ToSet(File.list["view"]) : a.name[o] = File.name[o]
  <2>1. a = LoadedKind(d, "view", File)
    BY DEF ViewsLoaded, d
  <2> HIDE DEF a
  <2> QED
    BY <1>1, <2>1, KindsAre, FileIs, LoadedKindIs
<1> HIDE DEF a
<1>3. ASSUME NEW l \in {"port", "device"} PROVE KeyedAs(a, l) /\ a.list[l] = d.list[l] /\ \A o \in Pool[l] : a.name[o] = d.name[o]
  <2>1. l \in Kinds \ {"view"} /\ \A o \in Pool[l] : o \in Objects \ Pool["view"]
    BY KindsAre, PoolIs
  <2>2. KeyedAs(d, l)
    BY <1>1 DEF Keyed
  <2> QED
    BY <1>1, <1>2, <2>1, <2>2, KeyedStays
<1>4. a.list = doc.list
  <2>1. \A k \in Kinds : a.list[k] = doc.list[k]
    BY <1>1, <1>2, <1>3, KindsAre, FileIs
  <2>2. a.list \in [Kinds -> Seq(Objects)] /\ doc.list \in [Kinds -> Seq(Objects)]
    BY <1>2, KindsAre, TypedIs DEF DocIs
  <2> QED
    BY <2>1, <2>2
<1>5. \A v \in Listed(a, "view") : a.name[v] \in ViewNames
  BY <1>2, PoolIs DEF Listed
<1>6. \A k \in {"port", "device"} : \A x \in Listed(doc, k) : a.name[x] = doc.name[x]
  BY <1>1, <1>3, KindsAre, FileIs
<1>7. ViewsNamedApart => \A v \in Listed(doc, "view") : a.name[v] = doc.name[v]
  <2>1. ToSet(File.list["view"]) = Listed(doc, "view") /\ File.name = doc.name
    BY FileIs, KindsAre DEF Listed
  <2> QED
    BY <1>2, <2>1 DEF ViewsNamedApart
<1> QED
  BY <1>2, <1>3, <1>4, <1>5, <1>6, <1>7 DEF DocIs, Keyed, a

\* What is found by its name again.
LEMMA FoundAgain ==
  ASSUME DocIs(doc), NEW d, NEW k \in {"port", "device"}, Typed(d), KeyedAs(d, k), d.list[k] = doc.list[k],
         \A x \in Listed(doc, k) : d.name[x] = doc.name[x],
         NEW o \in Listed(doc, k)
  PROVE  Found(d, k, NameOf(doc, o)) = o
<1>1. Listed(d, k) = Listed(doc, k) /\ k \in Kinds
  BY KindsAre DEF Listed
<1>2. o \in Pool[k] /\ None \notin Pool[k]
  BY <1>1, PoolIs, TypedIs
<1>3. d.name[o] # None /\ d.key[k][d.name[o]] = o
  BY <1>1 DEF KeyedAs
<1> QED
  BY <1>2, <1>3 DEF Found, NameOf

LEMMA RowsReopened ==
  ASSUME DocIs(doc), RowsAre(rows, doc)
  PROVE  LoadedRows(PortsLoaded, File) = rows
<1> DEFINE found(l, i) == Found(PortsLoaded, "device", File.rows[l][i])
<1>1. rows \in [Lists -> Seq(Listed(doc, "device") \union {None})]
  BY DEF RowsAre
<1>2. File.rows = [l \in Lists |-> [i \in DOMAIN rows[l] |-> NameOf(doc, rows[l][i])]]
  BY DEF File, Saved
<1>3. ASSUME NEW l \in Lists PROVE [i \in DOMAIN File.rows[l] |-> found(l, i)] = rows[l]
  <2>1. DOMAIN File.rows[l] = DOMAIN rows[l] /\ \A i \in DOMAIN rows[l] : File.rows[l][i] = NameOf(doc, rows[l][i])
    BY <1>2
  <2>2. ASSUME NEW i \in DOMAIN rows[l] PROVE found(l, i) = rows[l][i]
    <3>1. rows[l][i] \in Listed(doc, "device") \union {None}
      BY <1>1
    <3>2. CASE rows[l][i] = None
      BY <2>1, <3>2 DEF Found, NameOf
    <3>3. CASE rows[l][i] # None
      <4>1. Keyed(PortsLoaded) => KeyedAs(PortsLoaded, "device")
        BY DEF Keyed
      <4> QED
        BY <2>1, <3>1, <3>3, <4>1, PortsLoadedIs, FoundAgain
    <3> QED
      BY <3>2, <3>3
  <2>3. rows[l] = [i \in DOMAIN rows[l] |-> rows[l][i]]
    BY <1>1
  <2> HIDE DEF found
  <2> QED
    BY <2>1, <2>2, <2>3
<1>4. LoadedRows(PortsLoaded, File) = [l \in Lists |-> [i \in DOMAIN File.rows[l] |-> found(l, i)]]
  BY DEF LoadedRows
<1> HIDE DEF found
<1>5. LoadedRows(PortsLoaded, File) = [l \in Lists |-> rows[l]]
  BY <1>3, <1>4
<1> QED
  BY <1>1, <1>5

LEMMA MembersReopened ==
  ASSUME DocIs(doc), MembersAre(program, Members, doc), program \in Programs
  PROVE  LET m == LoadedMembers(PortsLoaded, SavedMembers(doc, Members))
         IN  AtItsPort(m) /\ m.portOf = portOf
<1> DEFINE written == SavedMembers(doc, Members)
           m == LoadedMembers(PortsLoaded, written)
<1>1. /\ Typed(PortsLoaded) /\ KeyedAs(PortsLoaded, "port")
      /\ Listed(PortsLoaded, "device") = Listed(doc, "device") /\ Listed(PortsLoaded, "port") = Listed(doc, "port")
  BY PortsLoadedIs DEF Keyed, Listed
<1>2. Members.portOf = portOf /\ portOf \in [Devices -> Ports \union {None}]
  BY DEF Members, MembersAre, AtItsPort, Memberships
<1>3. ASSUME NEW x \in Devices
      PROVE  written[x] = NameOf(doc, portOf[x]) /\ portOf[x] \in Listed(doc, "port") \union {None}
  BY <1>2 DEF SavedMembers, MembersAre
<1>4. \A p \in Listed(doc, "port") : NameOf(doc, p) \in PortNames
  <2>1. \A o \in ToSet(File.list["port"]) : File.name[o] \in Names["port"]
    BY KindsAre, FileIs
  <2>2. /\ File.name = doc.name /\ ToSet(File.list["port"]) = Listed(doc, "port")
        /\ Listed(doc, "port") \subseteq Pool["port"] /\ None \notin Pool["port"]
    BY KindsAre, FileIs, PoolIs
  <2> QED
    BY <2>1, <2>2, PoolIs DEF NameOf
<1>5. \A x \in Devices : written[x] \in PortNames \union {None}
  BY <1>3, <1>4 DEF NameOf
<1> HIDE DEF written
<1>6. Listed(doc, "device") \subseteq Devices
  BY KindsAre, PoolIs, TypedIs DEF DocIs
<1>7. /\ AtItsPort(m)
      /\ \A x \in Devices : m.portOf[x] =
           IF x \in Listed(doc, "device") THEN Found(PortsLoaded, "port", written[x]) ELSE None
  BY <1>1, <1>5, <1>6, LoadedMembersIs
<1> HIDE DEF m
<1>8. ASSUME NEW x \in Devices PROVE m.portOf[x] = portOf[x]
  <2>1. CASE portOf[x] = None
    BY <1>3, <1>7, <2>1 DEF Found, NameOf
  <2>2. CASE portOf[x] # None
    <3>1. portOf[x] \in Listed(doc, "port") /\ x \in Listed(doc, "device")
      BY <1>2, <1>3, <2>2 DEF MembersAre, Programs
    <3>2. Found(PortsLoaded, "port", NameOf(doc, portOf[x])) = portOf[x]
      BY <1>1, <3>1, PortsLoadedIs, FoundAgain
    <3> QED
      BY <1>3, <1>7, <3>1, <3>2
  <2> QED
    BY <2>1, <2>2
<1>9. m.portOf \in [Devices -> Ports \union {None}]
  BY <1>7 DEF AtItsPort, Memberships
<1>10. m.portOf = portOf
  BY <1>2, <1>8, <1>9
<1> QED
  BY <1>7, <1>10 DEF m, written

LEMMA RefsReopened ==
  ASSUME DocIs(doc), RefsAre(program, Refs, doc)
  PROVE  LET a == LoadedRefs(DevicesLoaded, File, SavedRefs(doc, Refs))
         IN  Shown(a) /\ \A p \in Ports : PortAgain(a, Refs, p)
<1> DEFINE written == SavedRefs(doc, Refs)
<1>1. Shown(Refs) /\ Refs.refs \in [Ports -> Seq(Devices)]
  BY ReferencesAre DEF RefsAre
<1>2. /\ File.list["port"] \in Seq(Ports) /\ IsInjective(File.list["port"])
      /\ ToSet(File.list["port"]) = Listed(doc, "port")
  BY KindsAre, FileIs, PoolIs
<1>3. \A p \in Ports : Refs.refs[p] # <<>> => p \in ToSet(File.list["port"])
  BY <1>2 DEF RefsAre
<1>4. ASSUME NEW p \in Ports
      PROVE  /\ Len(written[p]) = Len(Refs.refs[p])
             /\ \A i \in 1 .. Len(Refs.refs[p]) :
                  /\ Found(DevicesLoaded, "device", written[p][i].device) = Refs.refs[p][i]
                  /\ written[p][i].units = UnitsStr(Refs.units[p][Refs.refs[p][i]])
  <2> DEFINE R == Refs.refs[p]
  <2>1. R \in Seq(Devices) /\ ToSet(R) \subseteq Listed(doc, "device") /\ None \notin Devices
    BY <1>1, KindsAre, PoolIs DEF RefsAre
  <2>2. written[p] = [i \in DOMAIN R |-> [device |-> doc.name[R[i]], units |-> UnitsStr(Refs.units[p][R[i]])]]
    BY DEF SavedRefs
  <2> HIDE DEF R, written
  <2>3. DOMAIN R = 1 .. Len(R) /\ Len(R) \in Nat /\ \A i \in 1 .. Len(R) : R[i] \in Listed(doc, "device") /\ R[i] # None
    BY <2>1, SeqIs
  <2>4. /\ Len(written[p]) = Len(R)
        /\ \A i \in 1 .. Len(R) : /\ written[p][i].device = doc.name[R[i]]
                                  /\ written[p][i].units = UnitsStr(Refs.units[p][R[i]])
    BY <2>2, <2>3
  <2>5. ASSUME NEW i \in 1 .. Len(R) PROVE Found(DevicesLoaded, "device", doc.name[R[i]]) = R[i]
    <3>1. Found(DevicesLoaded, "device", NameOf(doc, R[i])) = R[i]
      BY <2>3, DevicesLoadedIs, FoundAgain
    <3>2. NameOf(doc, R[i]) = doc.name[R[i]]
      BY <2>3 DEF NameOf
    <3> QED
      BY <3>1, <3>2
  <2> QED
    BY <2>4, <2>5 DEF R
<1> HIDE DEF written
<1>5. Shown(LoadedRefs(DevicesLoaded, File, written))
      /\ \A p \in Ports : PortAgain(LoadedRefs(DevicesLoaded, File, written), Refs, p)
  BY <1>1, <1>2, <1>3, <1>4, LoadedRefsIs
<1> QED
  BY <1>5 DEF written

\* A project that is saved and opened.
LEMMA Reopened ==
  ASSUME IInv, Reopen, program' = program
  PROVE  /\ DocIs(doc') /\ doc'.list = doc.list /\ rows' = rows /\ ~running /\ running' = running
         /\ \A k \in {"port", "device"} : \A o \in Listed(doc, k) : doc'.name[o] = doc.name[o]
         /\ ViewsNamedApart => \A v \in Listed(doc, "view") : doc'.name[v] = doc.name[v]
         /\ AtItsPort(Members') /\ portOf' = portOf
         /\ Shown(Refs') /\ \A p \in Ports : PortAgain(Refs', Refs, p)
<1>1. /\ program \in Programs /\ DocIs(doc) /\ RowsAre(rows, doc)
      /\ RefsAre(program, Refs, doc) /\ MembersAre(program, Members, doc)
  BY DEF IInv, Consistent
<1>2. /\ ~running /\ running' = running
      /\ doc' = ViewsLoaded
      /\ rows' = LoadedRows(PortsLoaded, File)
      /\ Become(LoadedRefs(DevicesLoaded, File, SavedRefs(doc, Refs)))
      /\ Settle(LoadedMembers(PortsLoaded, SavedMembers(doc, Members)))
  BY DEF Reopen, ViewsLoaded, PortsLoaded, DevicesLoaded, File
<1> DEFINE a == LoadedRefs(DevicesLoaded, File, SavedRefs(doc, Refs))
           m == LoadedMembers(PortsLoaded, SavedMembers(doc, Members))
<1>3. Shown(a) /\ \A p \in Ports : PortAgain(a, Refs, p)
  BY <1>1, RefsReopened
<1>4. AtItsPort(m) /\ m.portOf = portOf
  BY <1>1, MembersReopened
<1> HIDE DEF a, m
<1>5. Refs' = a
  BY <1>2, <1>3, RefsBecome DEF a
<1>6. Members' = m
  BY <1>2, <1>4, MembersSettle DEF m
<1>7. portOf' = portOf
  <2>1. Members'.portOf = portOf'
    BY DEF Members
  <2> QED
    BY <1>4, <1>6, <2>1
<1> QED
  BY <1>1, <1>2, <1>3, <1>4, <1>5, <1>6, <1>7, ViewsLoadedIs, RowsReopened

LEMMA EmptyIsConsistent ==
  ASSUME NEW c \in Programs, NEW r, r = [l \in Lists |-> <<>>]
  PROVE  Consistent(c, Empty, r, NoRefs, NoMembers)
<1>1. RowsAre(r, Empty)
  BY DEF RowsAre
<1>2. RefsAre(c, NoRefs, Empty)
  <2>1. \A p \in Ports : NoRefs.refs[p] = <<>>
    BY DEF NoRefs
  <2>2. ToSet(<<>>) = {}
    BY DEF ToSet
  <2> QED
    BY <2>1, <2>2, NoneShown DEF RefsAre
<1>3. MembersAre(c, NoMembers, Empty)
  <2>1. \A x \in Devices : NoMembers.portOf[x] = None
    BY DEF NoMembers
  <2> QED
    BY <2>1, NoneAtPorts, EmptyIs, KindsAre DEF MembersAre
<1> QED
  BY <1>1, <1>2, <1>3, EmptyIs DEF Consistent

LEMMA InitIInv == Init => IInv
<1> SUFFICES ASSUME Init PROVE IInv
  OBVIOUS
<1>1. Refs = NoRefs /\ Members = NoMembers
  BY DEF Init, Refs, Members, NoRefs, NoMembers
<1>2. program \in Programs /\ doc = Empty /\ rows = [l \in Lists |-> <<>>] /\ running = FALSE
  BY DEF Init, DocInit
<1> QED
  BY <1>1, <1>2, EmptyIsConsistent DEF IInv, RunsWhatIsShown

LEMMA NewStep ==
  ASSUME IInv, New, UNCHANGED <<program, run>>
  PROVE  IInv'
<1>1. program \in Programs /\ ~running /\ running' = running /\ doc' = Empty /\ rows' = [l \in Lists |-> <<>>]
  BY DEF New, IInv, Consistent
<1>2. Refs' = NoRefs
  BY NoneShown, RefsBecome DEF New
<1>3. Members' = NoMembers
  BY NoneAtPorts, MembersSettle DEF New
<1> QED
  BY <1>1, <1>2, <1>3, EmptyIsConsistent, EditKeeps

LEMMA ReopenStep ==
  ASSUME IInv, Reopen, UNCHANGED <<program, run>>
  PROVE  IInv'
<1>1. /\ program \in Programs /\ RowsAre(rows, doc)
      /\ RefsAre(program, Refs, doc) /\ MembersAre(program, Members, doc)
  BY DEF IInv, Consistent
<1>2. /\ DocIs(doc') /\ doc'.list = doc.list /\ rows' = rows /\ ~running /\ running' = running
      /\ AtItsPort(Members') /\ portOf' = portOf
      /\ Shown(Refs') /\ \A p \in Ports : PortAgain(Refs', Refs, p)
  BY Reopened
<1>3. \A k \in Kinds : Listed(doc', k) = Listed(doc, k)
  BY <1>2 DEF Listed
<1>4. RowsAre(rows', doc')
  BY <1>1, <1>2, <1>3, KindsAre, RowsGrow
<1>5. RefsAre(program, Refs', doc')
  BY <1>1, <1>2, <1>3, KindsAre DEF RefsAre, PortAgain
<1>6. MembersAre(program, Members', doc')
  <2>1. Members.portOf = portOf /\ Members'.portOf = portOf
    BY <1>2 DEF Members
  <2> QED
    BY <1>1, <1>2, <1>3, <2>1, KindsAre DEF MembersAre
<1> QED
  BY <1>1, <1>2, <1>4, <1>5, <1>6, EditKeeps DEF Consistent

LEMMA NextIInv == IInv /\ [Next]_vars => IInv'
<1> SUFFICES ASSUME IInv, [Next]_vars PROVE IInv'
  OBVIOUS
<1>1. CASE Edit
  <2>1. UNCHANGED <<program, run>>
    BY <1>1 DEF Edit
  <2>2. CASE SharedEdits
    BY <2>1, <2>2, SharedStep
  <2>3. CASE ServerEdits /\ UNCHANGED <<members, portOf>>
    BY <2>1, <2>3, ServerStep
  <2>4. CASE ClientEdits /\ UNCHANGED <<refs, units, unitOf>>
    BY <2>1, <2>4, ClientStep
  <2>5. CASE New
    BY <2>1, <2>5, NewStep
  <2>6. CASE Reopen
    BY <2>1, <2>6, ReopenStep
  <2> QED
    BY <1>1, <2>2, <2>3, <2>4, <2>5, <2>6 DEF Edit
<1>2. CASE Start
  <2>1. /\ running' = TRUE /\ run' = Built
        /\ UNCHANGED <<program, doc, rows, refs, units, unitOf, members, portOf>>
    BY <1>2 DEF Start
  <2>2. Consistent(program, doc, rows, Refs, Members)'
    BY <2>1 DEF IInv, Refs, Members
  <2>3. RunsWhatIsShown'
    BY <2>1 DEF RunsWhatIsShown, Built
  <2> QED
    BY <2>1, <2>2, <2>3 DEF IInv
<1>3. CASE Stop
  <2>1. running' = FALSE /\ UNCHANGED <<program, doc, rows, refs, units, unitOf, members, portOf>>
    BY <1>3 DEF Stop
  <2>2. Consistent(program, doc, rows, Refs, Members)'
    BY <2>1 DEF IInv, Refs, Members
  <2>3. RunsWhatIsShown'
    BY <2>1 DEF RunsWhatIsShown
  <2> QED
    BY <2>1, <2>2, <2>3 DEF IInv
<1>4. CASE UNCHANGED vars
  BY <1>4 DEF IInv, vars, Refs, Members, RunsWhatIsShown, Built
<1> QED
  BY <1>1, <1>2, <1>3, <1>4 DEF Next

LEMMA InvariantHolds == Spec => []IInv
BY InitIInv, NextIInv, PTL DEF Spec

-----------------------------------------------------------------------------
(* Theorems about the projects                                             *)

LEMMA TypeOKIs == IInv => TypeOK
<1> SUFFICES ASSUME IInv PROVE TypeOK
  OBVIOUS
<1>1. /\ DocIs(doc) /\ RowsAre(rows, doc) /\ RefsAre(program, Refs, doc) /\ running \in BOOLEAN
  BY DEF IInv, Consistent
<1>2. Typed(doc) /\ Shown(Refs) /\ Refs.refs = refs /\ Refs.units = units /\ Refs.unitOf = unitOf
  BY <1>1 DEF DocIs, RefsAre, Refs
<1>3. DocTypeOK
  <2>1. \A l \in Lists : ToSet(rows[l]) \subseteq Listed(doc, "device") \union {None}
    BY <1>1, SeqIs DEF RowsAre
  <2>2. \A k \in Kinds : Listed(doc, k) \subseteq Pool[k]
    BY <1>2, TypedIs
  <2>3. doc.name \in [Objects -> AllNames \union {None}]
    BY <1>2, KindsAre, TypedIs
  <2> QED
    BY <1>1, <1>2, <2>1, <2>2, <2>3 DEF DocTypeOK, Typed
<1>4. /\ refs \in [Ports -> Seq(Devices)] /\ \A p \in Ports : IsInjective(refs[p])
      /\ units \in [Ports -> [Devices -> SUBSET Units]]
      /\ unitOf \in [Ports -> [Units -> Devices \union {None}]]
  BY <1>2, ReferencesAre DEF Shown
<1> QED
  BY <1>1, <1>2, <1>3, <1>4 DEF TypeOK, RefsAre

\* In a project of either program, whatever has been edited, saved and opened,
\* no list, row, reference or port holds the address of an object that has
\* left it, and none holds an object twice.
THEOREM ProjectTypeOK == Spec => []TypeOK
BY InvariantHolds, TypeOKIs, PTL

LEMMA ReferencesAgreeIs == IInv => ReferencesAgree
<1> SUFFICES ASSUME IInv PROVE ReferencesAgree
  OBVIOUS
<1>1. /\ program \in Programs /\ DocIs(doc) /\ RefsAre(program, Refs, doc) /\ MembersAre(program, Members, doc)
  BY DEF IInv, Consistent
<1>2. NamesAreKeys
  BY <1>1 DEF DocIs, Keyed, KeyedAs, NamesAreKeys
<1>3. UnitsAreShown
  BY <1>1 DEF RefsAre, Shown, Refs, UnitsAreShown
<1>4. DeviceAtItsPort
  <2>1. Members.members = members /\ Members.portOf = portOf
    BY DEF Members
  <2>2. None \notin Listed(doc, "port")
    BY <1>1, KindsAre, PoolIs, TypedIs DEF DocIs
  <2>3. program = "client" =>
          \A d \in Devices : d \in Listed(doc, "device") <=> portOf[d] \in Listed(doc, "port")
    BY <1>1, <2>1, <2>2 DEF MembersAre
  <2> QED
    BY <1>1, <2>1, <2>3 DEF MembersAre, AtItsPort, DeviceAtItsPort
<1> QED
  BY <1>2, <1>3, <1>4 DEF ReferencesAgree

\* A port or a device is found by its own name and by no other, a unit of a
\* server's port is served by a device that shows it, and a device of a client
\* is at one port, its own (the two places each of them is kept in agree).
THEOREM ProjectReferencesAgree == Spec => []ReferencesAgree
BY InvariantHolds, ReferencesAgreeIs, PTL

\* No menu command changes the units, the devices or the rows that the threads
\* were built from before they have stopped.
THEOREM ProjectRunsWhatIsShown == Spec => []RunsWhatIsShown
<1>1. IInv => RunsWhatIsShown
  BY DEF IInv
<1> QED
  BY <1>1, InvariantHolds, PTL

LEMMA ReopenIs ==
  ASSUME IInv, Reopen, program' = program
  PROVE  /\ doc'.list = doc.list /\ rows' = rows
         /\ \A k \in {"port", "device"} : \A o \in Listed(doc, k) : doc'.name[o] = doc.name[o]
         /\ ViewsNamedApart => \A v \in Listed(doc, "view") : doc'.name[v] = doc.name[v]
         /\ portOf' = portOf
         /\ UnitsAreServed /\ (\A p \in Ports : \A d \in ToSet(refs[p]) : units[p][d] # {})
              => refs' = refs /\ units' = units /\ unitOf' = unitOf
<1>1. /\ doc'.list = doc.list /\ rows' = rows /\ portOf' = portOf
      /\ \A k \in {"port", "device"} : \A o \in Listed(doc, k) : doc'.name[o] = doc.name[o]
      /\ ViewsNamedApart => \A v \in Listed(doc, "view") : doc'.name[v] = doc.name[v]
      /\ Shown(Refs') /\ \A p \in Ports : PortAgain(Refs', Refs, p)
  BY Reopened
<1>2. ASSUME UnitsAreServed, \A p \in Ports : \A d \in ToSet(refs[p]) : units[p][d] # {}
      PROVE  refs' = refs /\ units' = units /\ unitOf' = unitOf
  <2>1. /\ Refs.refs = refs /\ Refs.units = units /\ Refs.unitOf = unitOf
        /\ Refs'.refs = refs' /\ Refs'.units = units' /\ Refs'.unitOf = unitOf'
    BY DEF Refs
  <2>2. Shown(Refs)
    BY DEF IInv, Consistent, RefsAre
  <2>3. \A p \in Ports : Served(units[p], unitOf[p], ToSet(refs[p]))
    <3>1. \A p \in Ports : \A u \in Units : unitOf[p][u] # None =>
            unitOf[p][u] \in ToSet(refs[p]) /\ u \in units[p][unitOf[p][u]]
      BY <2>1, <2>2 DEF Shown
    <3> QED
      BY <1>2, <3>1 DEF UnitsAreServed, Served
  <2>4. ASSUME NEW p \in Ports
        PROVE  /\ refs'[p] = refs[p]
               /\ \A x \in Devices : units'[p][x] = units[p][x]
               /\ \A u \in Units : unitOf'[p][u] = unitOf[p][u]
    BY <1>1, <2>1, <2>3 DEF PortAgain
  <2>5. /\ refs \in [Ports -> Seq(Devices)] /\ units \in [Ports -> [Devices -> SUBSET Units]]
        /\ unitOf \in [Ports -> [Units -> Devices \union {None}]]
    BY <2>1, <2>2, ReferencesAre
  <2>6. /\ refs' \in [Ports -> Seq(Devices)] /\ units' \in [Ports -> [Devices -> SUBSET Units]]
        /\ unitOf' \in [Ports -> [Units -> Devices \union {None}]]
    BY <1>1, <2>1, ReferencesAre
  <2>7. refs' = refs
    BY <2>4, <2>5, <2>6
  <2>8. units' = units
    BY <2>4, <2>5, <2>6
  <2>9. unitOf' = unitOf
    BY <2>4, <2>5, <2>6
  <2> QED
    BY <2>7, <2>8, <2>9
<1> QED
  BY <1>1, <1>2

\* A project that is saved and opened again is the same project: the objects
\* and their order, the names of ports and devices, those of views if no two
\* are the same, the device of each row, the port of each device; and the references, the units they show and the
\* devices that serve them, if every unit that was shown was served.
THEOREM ProjectReopenKeeps == Spec => ReopenKeeps
<1> DEFINE A == Reopen =>
         /\ doc'.list = doc.list /\ rows' = rows
         /\ \A k \in {"port", "device"} : \A o \in Listed(doc, k) : doc'.name[o] = doc.name[o]
         /\ ViewsNamedApart => \A v \in Listed(doc, "view") : doc'.name[v] = doc.name[v]
         /\ portOf' = portOf
         /\ UnitsAreServed /\ (\A p \in Ports : \A d \in ToSet(refs[p]) : units[p][d] # {})
              => refs' = refs /\ units' = units /\ unitOf' = unitOf
<1>1. ASSUME IInv, [Next]_vars PROVE [A]_vars
  <2>1. CASE UNCHANGED vars
    BY <2>1
  <2>2. CASE Next
    <3>1. ASSUME Reopen PROVE program' = program
      <4>1. Edit => program' = program
        BY DEF Edit
      <4>2. Start => program' = program
        BY DEF Start
      <4>3. Stop => program' = program
        BY DEF Stop
      <4> QED
        BY <2>2, <4>1, <4>2, <4>3 DEF Next
    <3> QED
      BY <1>1, <3>1, ReopenIs
  <2> QED
    BY <1>1, <2>1, <2>2
<1> QED
  BY <1>1, InvariantHolds, PTL DEF Spec, ReopenKeeps

-----------------------------------------------------------------------------
(* The life cycle of what runs: CoreRuntime                                *)

LEMMA InitCoreIInv == CoreInit => CoreIInv
BY CoreRuntimeAssumption
   DEF CoreInit, CoreIInv, CoreTypeOK, StatusIsTrue, RunsTheOpen, ExitedIsStopped, isRunning

\* BeginStop is the only step that enters stop(); its guard on the status is
\* what keeps the count of frames at one.
LEMMA BeginStopKeeps ==
    ASSUME CoreIInv, BeginStop, phase # "exited"
    PROVE  CoreIInv'
<1> USE DEF CoreIInv, BeginStop, isRunning
<1>1. frames = 0 /\ frames' = 1
  BY DEF CoreTypeOK, StatusIsTrue
<1>2. CoreTypeOK'
  BY <1>1 DEF CoreTypeOK
<1>3. StatusIsTrue'
  BY <1>1 DEF StatusIsTrue
<1>4. RunsTheOpen' /\ ExitedIsStopped'
  BY DEF RunsTheOpen, ExitedIsStopped
<1> QED
  BY <1>2, <1>3, <1>4

LEMMA NextCoreIInv == CoreIInv /\ [CoreNext]_coreVars => CoreIInv'
<1> SUFFICES ASSUME CoreIInv, [CoreNext]_coreVars PROVE CoreIInv'
  OBVIOUS
<1> USE CoreRuntimeAssumption
<1> USE DEF CoreIInv, isRunning
<1>1. ASSUME NEW p \in Projects, CoreOpen(p) PROVE CoreIInv'
  BY <1>1 DEF CoreOpen, CoreTypeOK, StatusIsTrue, RunsTheOpen, ExitedIsStopped
<1>2. CASE CoreStart
  <2>1. phase # "exited" \/ frames > 0
    BY <1>2 DEF CoreStart, Events
  <2>2. frames = 0
    BY <1>2 DEF CoreStart, CoreTypeOK, StatusIsTrue
  <2>3. runtime' # NoProject /\ runtime' = project /\ project' = project
    BY <1>2 DEF CoreStart, CoreTypeOK
  <2>4. CoreTypeOK'
    BY <1>2 DEF CoreStart, CoreTypeOK
  <2>5. StatusIsTrue'
    BY <1>2, <2>2, <2>3 DEF CoreStart, StatusIsTrue
  <2>6. RunsTheOpen'
    BY <1>2, <2>3 DEF CoreStart, RunsTheOpen
  <2>7. ExitedIsStopped'
    BY <1>2, <2>1, <2>2 DEF CoreStart, ExitedIsStopped, CoreTypeOK
  <2> QED
    BY <2>4, <2>5, <2>6, <2>7
<1>3. CASE CoreStop
  <2>1. BeginStop /\ (phase = "running" \/ frames > 0)
    BY <1>3 DEF CoreStop, Events
  <2>2. phase # "exited"
    BY <2>1 DEF BeginStop, StatusIsTrue, CoreTypeOK, ExitedIsStopped
  <2> QED
    BY <2>1, <2>2, BeginStopKeeps
<1>4. CASE EndStop
  BY <1>4 DEF EndStop, CoreTypeOK, StatusIsTrue, RunsTheOpen, ExitedIsStopped
<1>5. CASE Quit
  BY <1>5 DEF Quit, CoreTypeOK, StatusIsTrue, RunsTheOpen, ExitedIsStopped
<1>6. CASE LastStop
  BY <1>6, BeginStopKeeps DEF LastStop
<1>7. CASE Exit
  BY <1>7 DEF Exit, CoreTypeOK, StatusIsTrue, RunsTheOpen, ExitedIsStopped
<1>8. ASSUME NEW t \in Threads, Enter(t) PROVE CoreIInv'
  BY <1>8 DEF Enter, CoreTypeOK, StatusIsTrue, RunsTheOpen, ExitedIsStopped
<1>9. ASSUME NEW t \in Threads, Leave(t) PROVE CoreIInv'
  BY <1>9 DEF Leave, CoreTypeOK, StatusIsTrue, RunsTheOpen, ExitedIsStopped
<1>10. CASE UNCHANGED coreVars
  BY <1>10 DEF coreVars, CoreTypeOK, StatusIsTrue, RunsTheOpen, ExitedIsStopped
<1> QED
  BY <1>1, <1>2, <1>3, <1>4, <1>5, <1>6, <1>7, <1>8, <1>9, <1>10 DEF CoreNext

\* CoreIInv is an invariant of the specification.
THEOREM CoreInvariance == CoreSpec => []CoreIInv
BY InitCoreIInv, NextCoreIInv, PTL DEF CoreSpec

\* stop() is never entered twice, and every variable has its type
\* (mbCore::stop and its guard on the status).
THEOREM CoreTypeCorrect == CoreSpec => []CoreTypeOK
<1>1. CoreIInv => CoreTypeOK
  BY DEF CoreIInv
<1> QED
  BY <1>1, CoreInvariance, PTL

\* The status by which the GUI allows opening, starting and stopping tells
\* the truth about the runtime (mbCore::setStatus).
THEOREM StatusTrue == CoreSpec => []StatusIsTrue
<1>1. CoreIInv => StatusIsTrue
  BY DEF CoreIInv
<1> QED
  BY <1>1, CoreInvariance, PTL

\* However start, stop, open and quit are interleaved with the threads, the
\* project a thread was built from stays open while it runs
\* (mbCore::setProjectCore).
THEOREM ProjectStaysInUse == CoreSpec => []ProjectInUse
<1>1. CoreIInv => ProjectInUse
  <2> SUFFICES ASSUME CoreIInv, NEW t \in Threads, Active(t) PROVE using[t] = project
    BY DEF ProjectInUse
  <2>1. thread[t] # "none"
    BY DEF Active
  <2>2. isRunning
    BY <2>1 DEF CoreIInv, StatusIsTrue
  <2> QED
    BY <2>2 DEF CoreIInv, RunsTheOpen
<1> QED
  BY <1>1, CoreInvariance, PTL

\* The program leaves no thread behind when it ends (the last stop() of
\* mbCore::exec).
THEOREM ExitClean == CoreSpec => []ExitIsClean
<1>1. CoreIInv => ExitIsClean
  BY DEF CoreIInv, ExitIsClean, ExitedIsStopped, StatusIsTrue
<1> QED
  BY <1>1, CoreInvariance, PTL

\* The three together, for any set of threads and projects.
THEOREM LifeCycleHolds == CoreSpec => []LifeCycle
BY StatusTrue, ProjectStaysInUse, ExitClean, PTL DEF LifeCycle

\* A thread object is deleted only after its thread has ended
\* (mbCoreRuntime::tryStopComponents before clearComponents).
THEOREM ThreadsOutlivedByObjects == CoreSpec => DeletedWhenFinished
<1>1. CoreIInv /\ [CoreNext]_coreVars => [\A t \in Threads : Active(t) => thread'[t] # "none"]_coreVars
  <2> SUFFICES ASSUME CoreIInv, CoreNext, NEW t \in Threads, Active(t)
               PROVE  thread'[t] # "none"
    OBVIOUS
  <2>1. thread \in [Threads -> {"none", "starting", "polling", "finished"}]
    BY DEF CoreIInv, CoreTypeOK
  <2>2. ASSUME NEW p \in Projects, CoreOpen(p) PROVE thread'[t] # "none"
    BY <2>2 DEF CoreOpen, Active
  <2>3. CASE CoreStart
    BY <2>3 DEF CoreStart
  <2>4. CASE CoreStop
    BY <2>4 DEF CoreStop, BeginStop, Active
  <2>5. CASE EndStop
    BY <2>5 DEF EndStop, TryStop, Active
  <2>6. CASE Quit
    BY <2>6 DEF Quit, Active
  <2>7. CASE LastStop
    BY <2>7 DEF LastStop, BeginStop, Active
  <2>8. CASE Exit
    BY <2>8 DEF Exit, Active
  <2>9. ASSUME NEW u \in Threads, Enter(u) \/ Leave(u) PROVE thread'[t] # "none"
    BY <2>1, <2>9 DEF Enter, Leave, Active
  <2> QED
    BY <2>2, <2>3, <2>4, <2>5, <2>6, <2>7, <2>8, <2>9 DEF CoreNext
<1> QED
  BY <1>1, CoreInvariance, PTL DEF CoreSpec, DeletedWhenFinished

\* The two together.  running of the projects is mbCoreRuntime::isRunning,
\* which stays true until stop() has returned: the threads are built from the
\* project that is shown for as long as one of them has not ended, whatever
\* commands the loop of stop() lets in.
THEOREM ThreadsRunWhatIsShown ==
  Spec /\ CoreSpec /\ [](running <=> isRunning) => []((\E t \in Threads : Active(t)) => run = Built)
<1>1. /\ IInv /\ CoreIInv /\ (running <=> isRunning)
      => ((\E t \in Threads : Active(t)) => run = Built)
  <2> SUFFICES ASSUME IInv, CoreIInv, running <=> isRunning, NEW t \in Threads, Active(t)
               PROVE  run = Built
    OBVIOUS
  <2>1. isRunning
    BY DEF Active, CoreIInv, StatusIsTrue
  <2> QED
    BY <2>1 DEF IInv, RunsWhatIsShown
<1> QED
  BY <1>1, InvariantHolds, CoreInvariance, PTL
=============================================================================
