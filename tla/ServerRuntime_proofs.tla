------------------------ MODULE ServerRuntime_proofs ------------------------
(***************************************************************************)
(* Theorems about ServerRuntime, for every set of ports, units, devices    *)
(* and requests, every delay and every bound.                              *)
(*                                                                         *)
(* The inductive invariant IInv adds to the types that a request is only   *)
(* kept for the delay of its device, and that the timestamp is never older *)
(* than what it stands for.  One call of process() is looked at once, as   *)
(* what it does to the port it is made for.                                *)
(***************************************************************************)
EXTENDS ServerRuntime, TLAPS

-----------------------------------------------------------------------------
(* Sequences and times                                                     *)

LEMMA OneRemoved ==
  ASSUME NEW S, NEW s \in Seq(S), NEW i \in 1..Len(s)
  PROVE  RemoveAt(s, i) \in Seq(S) /\ Len(RemoveAt(s, i)) = Len(s) - 1
<1> DEFINE before == SubSeq(s, 1, i - 1)
           behind == SubSeq(s, i + 1, Len(s))
<1>1. before \in Seq(S) /\ Len(before) = i - 1
  OBVIOUS
<1>2. behind \in Seq(S) /\ Len(behind) = Len(s) - i
  OBVIOUS
<1>3. RemoveAt(s, i) = before \o behind
  BY DEF RemoveAt
<1> HIDE DEF before, behind
<1>4. before \o behind \in Seq(S) /\ Len(before \o behind) = Len(before) + Len(behind)
  BY <1>1, <1>2
<1> QED
  BY <1>1, <1>2, <1>3, <1>4

LEMMA DelayIsTime == \A r \in Requests : DelayFor(r) \in 0..MaxDelay
BY ServerRuntimeAssumption, ModbusServerPortAssumption DEF DelayFor

LEMMA NoneIsLate == MaxDelay \in Nat /\ None \in Nat /\ None > MaxDelay
BY ServerRuntimeAssumption DEF None

LEMMA LaterIsTime ==
  ASSUME NEW n \in 0..MaxDelay
  PROVE  Later(n) \in 0..MaxDelay /\ n <= Later(n)
BY NoneIsLate DEF Later

LEMMA LaterKeepsOrder ==
  ASSUME NEW m \in 0..MaxDelay, NEW n \in 0..MaxDelay, m <= n
  PROVE  Later(m) <= Later(n)
BY NoneIsLate DEF Later

-----------------------------------------------------------------------------
(* One call of process()                                                   *)

Reading == {"UNKNOWN", "CLOSED", "WAIT_FOR_OPEN", "BEGIN_READ"}

\* What a port keeps: a request as long as it is served, its outcome as long
\* as it is written.
Keeps(st, r, o) ==
    /\ st \in States
    /\ r \in Requests \union {NoRequest}
    /\ o \in Outcomes \union {NoOutcome}
    /\ (r # NoRequest) <=> (st \in {"PROCESS_DEVICE", "BEGIN_WRITE"})
    /\ (o # NoOutcome) <=> (st = "BEGIN_WRITE")
    /\ st = "PROCESS_DEVICE" => DelayFor(r) > 0

\* The part of IInv that is about ports.
ServeInv ==
    /\ state \in [Ports -> States]
    /\ req \in [Ports -> Requests \union {NoRequest}]
    /\ reply \in [Ports -> Outcomes \union {NoOutcome}]
    /\ \A p \in Ports : Keeps(state[p], req[p], reply[p])
LineInv ==
    /\ isOpen \in [Ports -> BOOLEAN]
    /\ input \in [Ports -> Seq(Requests)]
    /\ memory \in [Devices -> Values]
TimeInv ==
    /\ stamp \in [Threads -> 0..None]
    /\ waited \in [Ports -> 0..MaxDelay] /\ answered \in BOOLEAN
LoopInv ==
    /\ LoopAtConnection
    /\ turn \in 0..Len(connections)
    /\ running \subseteq Threads

LEMMA IInvInParts == IInv <=> ServeInv /\ LineInv /\ TimeInv /\ LoopInv /\ StampsAreLate
<1>1. TypeOK /\ KeptForDelay <=>
        ServeInv /\ LineInv /\ TimeInv /\ turn \in 0..Len(connections) /\ running \subseteq Threads
  BY DEF TypeOK, KeptForDelay, ServeInv, Keeps, LineInv, TimeInv
<1> QED
  BY <1>1 DEF IInv, LoopInv

LEMMA PartsAfter == IInv' <=> ServeInv' /\ LineInv' /\ TimeInv' /\ LoopInv' /\ StampsAreLate'
BY IInvInParts, PTL

\* The requests and outcomes that stand for none are not among them.
LEMMA NoneAmongThem == NoRequest \notin Requests /\ NoOutcome \notin Outcomes
BY ModbusServerPortAssumption DEF Outcomes

\* A step that changes what one port keeps.
LEMMA OnePortServes ==
  ASSUME ServeInv, NEW p \in Ports, NEW st, NEW r, NEW o, Keeps(st, r, o),
         state' = [state EXCEPT ![p] = st],
         req' = [req EXCEPT ![p] = r],
         reply' = [reply EXCEPT ![p] = o]
  PROVE  ServeInv' /\ state'[p] = st /\ \A q \in Ports : q # p => state'[q] = state[q]
<1>1. /\ st \in States /\ r \in Requests \union {NoRequest} /\ o \in Outcomes \union {NoOutcome}
  BY DEF Keeps
<1>2. /\ state' \in [Ports -> States]
      /\ req' \in [Ports -> Requests \union {NoRequest}]
      /\ reply' \in [Ports -> Outcomes \union {NoOutcome}]
  BY <1>1 DEF ServeInv
<1>3. ASSUME NEW q \in Ports
      PROVE  /\ Keeps(state'[q], req'[q], reply'[q])
             /\ q # p => state'[q] = state[q]
  <2>1. CASE q = p
    <3>1. state'[q] = st /\ req'[q] = r /\ reply'[q] = o
      BY <2>1 DEF ServeInv
    <3> QED
      BY <2>1, <3>1
  <2>2. CASE q # p
    <3>1. state'[q] = state[q] /\ req'[q] = req[q] /\ reply'[q] = reply[q]
      BY <2>2 DEF ServeInv
    <3> QED
      BY <3>1 DEF ServeInv
  <2> QED
    BY <2>1, <2>2
<1>4. state'[p] = st
  BY DEF ServeInv
<1>5. (\A q \in Ports : Keeps(state[q], req[q], reply[q]))'
  BY <1>3
<1> QED
  BY <1>2, <1>3, <1>4, <1>5 DEF ServeInv

\* The call gets to read(): the port serves nothing.
LEMMA ReadsWhenIdle ==
  ASSUME ServeInv, LineInv, NEW p \in Ports, GetsToRead(p)
  PROVE  /\ isOpen' \in [Ports -> BOOLEAN]
         /\ state[p] \in Reading /\ req[p] = NoRequest /\ reply[p] = NoOutcome
BY NoneAmongThem DEF ServeInv, LineInv, Keeps, GetsToRead, Reading

LEMMA FrameTaken ==
  ASSUME LineInv, NEW p \in Ports, input[p] # <<>>
  PROVE  /\ Head(input[p]) \in Requests /\ Tail(input[p]) \in Seq(Requests)
         /\ [input EXCEPT ![p] = Tail(@)] \in [Ports -> Seq(Requests)]
<1>1. input[p] \in Seq(Requests)
  BY DEF LineInv
<1>2. Head(input[p]) \in Requests /\ Tail(input[p]) \in Seq(Requests)
  BY <1>1
<1> QED
  BY <1>2 DEF LineInv

\* The request at hand has just been read, or has been kept.
AtHandIs(p, r) ==
    \/ state[p] \in Reading /\ req[p] = NoRequest /\ r = Head(input[p])
    \/ state[p] = "PROCESS_DEVICE" /\ r = req[p]

LEMMA ServesOne ==
  ASSUME ServeInv, LineInv, NEW p \in Ports, NEW r \in Requests, Serves(p, r)
  PROVE  /\ isOpen' \in [Ports -> BOOLEAN]
         /\ input' \in [Ports -> Seq(Requests)]
         /\ \A q \in Ports : q # p => input'[q] = input[q]
         /\ AtHandIs(p, r) /\ reply[p] = NoOutcome
<1>1. CASE Reads(p, r) /\ input' = [input EXCEPT ![p] = Tail(@)]
  <2>1. input[p] # <<>> /\ r = Head(input[p]) /\ GetsToRead(p)
    BY <1>1 DEF Reads
  <2>2. input' \in [Ports -> Seq(Requests)]
    BY <1>1, <2>1, FrameTaken
  <2>3. \A q \in Ports : q # p => input'[q] = input[q]
    BY <1>1 DEF LineInv
  <2> QED
    BY <2>1, <2>2, <2>3, ReadsWhenIdle DEF AtHandIs
<1>2. CASE state[p] = "PROCESS_DEVICE" /\ r = req[p] /\ UNCHANGED lineVars
  <2>1. reply[p] = NoOutcome
    BY <1>2 DEF ServeInv, Keeps
  <2> QED
    BY <1>2, <2>1 DEF LineInv, lineVars, AtHandIs
<1> QED
  BY <1>1, <1>2 DEF Serves

LEMMA EffectIsMemory ==
  ASSUME LineInv, NEW r \in Requests, NEW e \in Effect(r, memory)
  PROVE  e[1] \in [Devices -> Values]
<1>1. DeviceOf[r.unit] \in Devices /\ r.value \in Values
  BY ModbusServerPortAssumption DEF Effect
<1>2. [memory EXCEPT ![DeviceOf[r.unit]] = r.value] \in [Devices -> Values]
  BY <1>1 DEF LineInv
<1> QED
  BY <1>2 DEF Effect, LineInv

\* The outcome comes from the memory of this moment, or from a refusal.
CarriedOut(r, o) ==
    \/ \E e \in Effect(r, memory) : memory' = e[1] /\ o = e[2]
    \/ o = Exception /\ UNCHANGED memory

LEMMA OutcomeOfOne ==
  ASSUME ServeInv, LineInv, NEW p \in Ports, NEW r \in Requests, NEW o \in Outcomes, Outcome(p, r, o)
  PROVE  /\ LineInv'
         /\ \A q \in Ports : q # p => input'[q] = input[q]
         /\ AtHandIs(p, r) /\ reply[p] = NoOutcome
         /\ CarriedOut(r, o)
<1>1. ASSUME NEW rest \in Seq(Requests)
      PROVE  /\ [input EXCEPT ![p] = Kept(p, rest)] \in [Ports -> Seq(Requests)]
             /\ \A q \in Ports : q # p => [input EXCEPT ![p] = Kept(p, rest)][q] = input[q]
  <2>1. Kept(p, rest) \in Seq(Requests)
    BY DEF Kept
  <2> QED
    BY <2>1 DEF LineInv
<1>2. ASSUME \E e \in Effect(r, memory) : memory' = e[1] /\ o = e[2]
      PROVE  memory' \in [Devices -> Values]
  BY <1>2, EffectIsMemory
<1>3. CASE /\ Reads(p, r)
           /\ \E e \in Effect(r, memory) : memory' = e[1] /\ o = e[2]
           /\ input' = [input EXCEPT ![p] = Kept(p, Tail(@))]
  <2>1. input[p] # <<>> /\ r = Head(input[p]) /\ GetsToRead(p)
    BY <1>3 DEF Reads
  <2>2. Tail(input[p]) \in Seq(Requests) /\ input' = [input EXCEPT ![p] = Kept(p, Tail(input[p]))]
    BY <1>3, <2>1, FrameTaken
  <2> QED
    BY <1>1, <1>2, <1>3, <2>1, <2>2, ReadsWhenIdle DEF LineInv, AtHandIs, CarriedOut
<1>4. CASE /\ state[p] = "PROCESS_DEVICE" /\ r = req[p]
           /\ \E e \in Effect(r, memory) : memory' = e[1] /\ o = e[2]
           /\ input' = [input EXCEPT ![p] = Kept(p, @)]
           /\ UNCHANGED isOpen
  <2>1. input[p] \in Seq(Requests) /\ input' = [input EXCEPT ![p] = Kept(p, input[p])]
    BY <1>4 DEF LineInv
  <2>2. reply[p] = NoOutcome
    BY <1>4 DEF ServeInv, Keeps
  <2> QED
    BY <1>1, <1>2, <1>4, <2>1, <2>2 DEF LineInv, AtHandIs, CarriedOut
<1>5. CASE /\ GetsToRead(p)
           /\ input[p] # <<>> /\ r = Head(input[p]) /\ Refused(r)
           /\ o = Exception
           /\ input' = [input EXCEPT ![p] = Kept(p, Tail(@))]
           /\ UNCHANGED memory
  <2>1. Tail(input[p]) \in Seq(Requests) /\ input' = [input EXCEPT ![p] = Kept(p, Tail(input[p]))]
    BY <1>5, FrameTaken
  <2> QED
    BY <1>1, <1>5, <2>1, ReadsWhenIdle DEF LineInv, AtHandIs, CarriedOut
<1> QED
  BY <1>3, <1>4, <1>5 DEF Outcome

-----------------------------------------------------------------------------
(* The three kinds of calls                                                *)

\* Nothing is served before or after the call.
IdleCall(p) ==
    \/ Uninitialized(p)
    \/ Opening(p)
    \/ ReadWaits(p)
    \/ ReadTimesOut(p)
    \/ ReadIgnored(p)
    \/ WriteEnds(p)
    \/ \E r \in Requests : UnknownUnit(p, r)

LEMMA IdleCallDoes ==
  ASSUME ServeInv, LineInv, NEW p \in Ports, IdleCall(p)
  PROVE  /\ ServeInv' /\ LineInv' /\ UNCHANGED memory
         /\ state[p] # "PROCESS_DEVICE" /\ state'[p] # "PROCESS_DEVICE"
         /\ \A q \in Ports : q # p => state'[q] = state[q] /\ input'[q] = input[q]
         /\ (req' = req /\ reply' = reply) \/ WriteEnds(p)
<1>0. ServeInv => /\ state = [state EXCEPT ![p] = state[p]]
                  /\ req = [req EXCEPT ![p] = req[p]]
                  /\ reply = [reply EXCEPT ![p] = reply[p]]
  BY DEF ServeInv
<1>1. ASSUME NEW st \in Reading, state[p] \in Reading, state' = [state EXCEPT ![p] = st], UNCHANGED <<req, reply>>
      PROVE  ServeInv' /\ state'[p] # "PROCESS_DEVICE" /\ \A q \in Ports : q # p => state'[q] = state[q]
  <2>1. req[p] = NoRequest /\ reply[p] = NoOutcome
    BY <1>1 DEF ServeInv, Keeps, Reading
  <2>2. Keeps(st, NoRequest, NoOutcome)
    BY <1>1 DEF Keeps, Reading, States
  <2>3. st # "PROCESS_DEVICE"
    BY <1>1 DEF Reading
  <2>4. req' = [req EXCEPT ![p] = NoRequest] /\ reply' = [reply EXCEPT ![p] = NoOutcome]
    BY <1>0, <1>1, <2>1
  <2>5. ServeInv' /\ state'[p] = st /\ \A q \in Ports : q # p => state'[q] = state[q]
    BY <1>1, <2>2, <2>4, OnePortServes
  <2> QED
    BY <2>3, <2>5
<1>2. CASE Uninitialized(p)
  BY <1>1, <1>2 DEF Uninitialized, lineVars, LineInv, Reading
<1>3. CASE Opening(p)
  BY <1>1, <1>3 DEF Opening, lineVars, LineInv, Reading
<1>4. CASE ReadWaits(p)
  <2>1. /\ GetsToRead(p) /\ UNCHANGED <<input, req, reply, memory>>
        /\ state' = [state EXCEPT ![p] = "BEGIN_READ"]
    BY <1>4 DEF ReadWaits
  <2>2. "BEGIN_READ" \in Reading
    BY DEF Reading
  <2>3. state[p] # "PROCESS_DEVICE"
    BY <2>1, ReadsWhenIdle DEF Reading
  <2> QED
    BY <1>1, <2>1, <2>2, <2>3, ReadsWhenIdle DEF LineInv
<1>5. CASE ReadTimesOut(p)
  <2>1. /\ state[p] = "BEGIN_READ" /\ UNCHANGED <<serveVars, input, memory>>
        /\ isOpen' = [isOpen EXCEPT ![p] = FALSE]
    BY <1>5 DEF ReadTimesOut
  <2>2. state' = [state EXCEPT ![p] = "BEGIN_READ"] /\ UNCHANGED <<req, reply>>
    BY <1>0, <2>1 DEF serveVars
  <2>3. "BEGIN_READ" \in Reading
    BY DEF Reading
  <2> QED
    BY <1>1, <2>1, <2>2, <2>3 DEF LineInv
<1>6. CASE ReadIgnored(p)
  <2>1. /\ GetsToRead(p) /\ UNCHANGED <<req, reply, memory>>
        /\ state' = [state EXCEPT ![p] = "BEGIN_READ"]
        /\ input[p] # <<>> /\ input' = [input EXCEPT ![p] = Tail(@)]
    BY <1>6 DEF ReadIgnored
  <2>2. "BEGIN_READ" \in Reading
    BY DEF Reading
  <2>3. state[p] # "PROCESS_DEVICE"
    BY <2>1, ReadsWhenIdle DEF Reading
  <2>4. input' \in [Ports -> Seq(Requests)] /\ \A q \in Ports : q # p => input'[q] = input[q]
    BY <2>1, FrameTaken DEF LineInv
  <2> QED
    BY <1>1, <2>1, <2>2, <2>3, <2>4, ReadsWhenIdle DEF LineInv
<1>7. CASE WriteEnds(p)
  <2>1. Keeps("BEGIN_READ", NoRequest, NoOutcome)
    BY DEF Keeps, States
  <2>2. /\ state[p] = "BEGIN_WRITE" /\ UNCHANGED <<lineVars, memory>>
        /\ state' = [state EXCEPT ![p] = "BEGIN_READ"]
        /\ req' = [req EXCEPT ![p] = NoRequest]
        /\ reply' = [reply EXCEPT ![p] = NoOutcome]
    BY <1>7 DEF WriteEnds
  <2>3. ServeInv' /\ state'[p] = "BEGIN_READ" /\ \A q \in Ports : q # p => state'[q] = state[q]
    BY <2>1, <2>2, OnePortServes
  <2> QED
    BY <1>7, <2>2, <2>3 DEF LineInv, lineVars
<1>8. ASSUME NEW r \in Requests, UnknownUnit(p, r)
      PROVE  /\ ServeInv' /\ LineInv' /\ UNCHANGED <<req, reply, memory>>
             /\ state[p] # "PROCESS_DEVICE" /\ state'[p] # "PROCESS_DEVICE"
             /\ \A q \in Ports : q # p => state'[q] = state[q] /\ input'[q] = input[q]
  <2>1. /\ Serves(p, r) /\ UNCHANGED <<req, reply, memory>>
        /\ state' = [state EXCEPT ![p] = "BEGIN_READ"]
        /\ DelayFor(r) = 0
    BY <1>8 DEF UnknownUnit, DelayFor
  <2>2. /\ isOpen' \in [Ports -> BOOLEAN] /\ input' \in [Ports -> Seq(Requests)]
        /\ AtHandIs(p, r) /\ \A q \in Ports : q # p => input'[q] = input[q]
    BY <2>1, ServesOne
  <2>3. state[p] \in Reading /\ state[p] # "PROCESS_DEVICE"
    BY <2>1, <2>2 DEF AtHandIs, ServeInv, Keeps, Reading
  <2>4. "BEGIN_READ" \in Reading
    BY DEF Reading
  <2> QED
    BY <1>1, <2>1, <2>2, <2>3, <2>4 DEF LineInv
<1> QED
  BY <1>2, <1>3, <1>4, <1>5, <1>6, <1>7, <1>8 DEF IdleCall, Uninitialized, Opening, ReadWaits,
     ReadTimesOut, ReadIgnored, WriteEnds, lineVars, serveVars

\* The request is kept until its device may answer.
DelayCall(p, r) ==
    /\ Delay(p, r)
    /\ StillDelayed(ThreadOf(p), r)
    /\ waited' = IF state[p] # "PROCESS_DEVICE" THEN [waited EXCEPT ![p] = 0] ELSE waited

LEMMA DelayCallDoes ==
  ASSUME ServeInv, LineInv, NEW p \in Ports, NEW r \in Requests, DelayCall(p, r)
  PROVE  /\ ServeInv' /\ LineInv' /\ UNCHANGED memory
         /\ state'[p] = "PROCESS_DEVICE"
         /\ \A q \in Ports : q # p => state'[q] = state[q] /\ input'[q] = input[q]
         /\ req' = [req EXCEPT ![p] = r] /\ reply' = reply /\ reply[p] = NoOutcome
         /\ AtHandIs(p, r) /\ DelayFor(r) > 0
<1>1. /\ Serves(p, r) /\ UNCHANGED <<reply, memory>>
      /\ state' = [state EXCEPT ![p] = "PROCESS_DEVICE"]
      /\ req' = [req EXCEPT ![p] = r]
      /\ DelayFor(r) > 0
  BY DEF DelayCall, Delay, StillDelayed
<1>2. /\ isOpen' \in [Ports -> BOOLEAN] /\ input' \in [Ports -> Seq(Requests)]
      /\ \A q \in Ports : q # p => input'[q] = input[q]
      /\ AtHandIs(p, r) /\ reply[p] = NoOutcome
  BY <1>1, ServesOne
<1>3. Keeps("PROCESS_DEVICE", r, NoOutcome)
  BY <1>1, NoneAmongThem DEF Keeps, States
<1>4. reply' = [reply EXCEPT ![p] = NoOutcome]
  BY <1>1, <1>2 DEF ServeInv
<1>5. ServeInv' /\ state'[p] = "PROCESS_DEVICE" /\ \A q \in Ports : q # p => state'[q] = state[q]
  BY <1>1, <1>3, <1>4, OnePortServes
<1> QED
  BY <1>1, <1>2, <1>5 DEF LineInv

\* The request is carried out and answered, or its answer is begun.
AnswerCall(p, r, o) ==
    /\ WriteWaits(p, r, o) \/ Writes(p, r, o)
    /\ DelayIsOver(ThreadOf(p), r)
    /\ waited' = [waited EXCEPT ![p] = 0]

LEMMA AnswerCallDoes ==
  ASSUME ServeInv, LineInv, NEW p \in Ports, NEW r \in Requests, NEW o \in Outcomes, AnswerCall(p, r, o)
  PROVE  /\ ServeInv' /\ LineInv'
         /\ state'[p] # "PROCESS_DEVICE"
         /\ \A q \in Ports : q # p => state'[q] = state[q] /\ input'[q] = input[q]
         /\ AtHandIs(p, r) /\ reply[p] = NoOutcome /\ CarriedOut(r, o)
         /\ \/ req' = [req EXCEPT ![p] = r] /\ reply' = [reply EXCEPT ![p] = o]
            \/ req' = [req EXCEPT ![p] = NoRequest] /\ reply' = reply
<1>1. Outcome(p, r, o)
  BY DEF AnswerCall, WriteWaits, Writes
<1>2. /\ LineInv'
      /\ \A q \in Ports : q # p => input'[q] = input[q]
      /\ AtHandIs(p, r) /\ reply[p] = NoOutcome
      /\ CarriedOut(r, o)
  BY <1>1, OutcomeOfOne
<1>3. CASE WriteWaits(p, r, o)
  <2>1. /\ state' = [state EXCEPT ![p] = "BEGIN_WRITE"]
        /\ req' = [req EXCEPT ![p] = r]
        /\ reply' = [reply EXCEPT ![p] = o]
    BY <1>3 DEF WriteWaits
  <2>2. Keeps("BEGIN_WRITE", r, o)
    BY NoneAmongThem DEF Keeps, States
  <2>3. ServeInv' /\ state'[p] = "BEGIN_WRITE" /\ \A q \in Ports : q # p => state'[q] = state[q]
    BY <2>1, <2>2, OnePortServes
  <2> QED
    BY <1>2, <2>1, <2>3
<1>4. CASE Writes(p, r, o)
  <2>1. /\ state' = [state EXCEPT ![p] = "BEGIN_READ"]
        /\ req' = [req EXCEPT ![p] = NoRequest]
        /\ reply' = reply
    BY <1>4 DEF Writes
  <2>2. Keeps("BEGIN_READ", NoRequest, NoOutcome)
    BY DEF Keeps, States
  <2>3. reply' = [reply EXCEPT ![p] = NoOutcome]
    BY <1>2, <2>1 DEF ServeInv
  <2>4. ServeInv' /\ state'[p] = "BEGIN_READ" /\ \A q \in Ports : q # p => state'[q] = state[q]
    BY <2>1, <2>2, <2>3, OnePortServes
  <2> QED
    BY <1>2, <2>1, <2>4
<1> QED
  BY <1>3, <1>4 DEF AnswerCall

LEMMA ThreeKinds ==
  ASSUME NEW p, Process(p)
  PROVE  \/ IdleCall(p) /\ UNCHANGED timeVars
         \/ \E r \in Requests : DelayCall(p, r)
         \/ \E r \in Requests, o \in Outcomes : AnswerCall(p, r, o)
BY DEF Process, IdleCall, DelayCall, AnswerCall

-----------------------------------------------------------------------------
(* A call keeps the invariant                                              *)

LEMMA ThreadIsThread ==
  ASSUME NEW p \in Ports
  PROVE  ThreadOf(p) \in Threads /\ (p \in Serial => ThreadOf(p) = p) /\ (p \notin Serial => ThreadOf(p) = TCP)
BY DEF ThreadOf, Threads

LEMMA ProcessKeeps ==
  ASSUME ServeInv, LineInv, TimeInv, StampsAreLate, NEW p \in Ports, Process(p)
  PROVE  /\ ServeInv' /\ LineInv' /\ TimeInv' /\ StampsAreLate'
         /\ \A q \in Ports : q # p => state'[q] = state[q] /\ input'[q] = input[q]
<1> DEFINE t == ThreadOf(p)
<1>0. /\ t \in Threads /\ (p \in Serial => t = p) /\ (p \notin Serial => t = TCP)
      /\ Serial \subseteq Ports /\ TCP \notin Serial /\ TCP \in Threads /\ Serial \subseteq Threads
      /\ None \in Nat /\ MaxDelay \in Nat /\ MaxDelay < None
  BY ThreadIsThread, NoneIsLate, ModbusServerPortAssumption, ServerRuntimeAssumption DEF Threads
<1> HIDE DEF t
<1>1. CASE IdleCall(p) /\ UNCHANGED timeVars
  <2>1. /\ ServeInv' /\ LineInv'
        /\ state[p] # "PROCESS_DEVICE"
        /\ \A q \in Ports : q # p => state'[q] = state[q] /\ input'[q] = input[q]
    BY <1>1, IdleCallDoes
  <2>2. TimeInv'
    BY <1>1 DEF TimeInv, timeVars
  <2>3. StampsAreLate'
    BY <1>0, <1>1, <2>1 DEF StampsAreLate, timeVars
  <2> QED
    BY <2>1, <2>2, <2>3
<1>2. ASSUME NEW r \in Requests, DelayCall(p, r)
      PROVE  /\ ServeInv' /\ LineInv' /\ TimeInv' /\ StampsAreLate'
             /\ \A q \in Ports : q # p => state'[q] = state[q] /\ input'[q] = input[q]
  <2>1. /\ ServeInv' /\ LineInv'
        /\ state'[p] = "PROCESS_DEVICE"
        /\ \A q \in Ports : q # p => state'[q] = state[q] /\ input'[q] = input[q]
    BY <1>2, DelayCallDoes
  <2>2. /\ stamp' = [stamp EXCEPT ![t] = IF @ = None THEN 0 ELSE @]
        /\ answered' = answered
        /\ waited' = IF state[p] # "PROCESS_DEVICE" THEN [waited EXCEPT ![p] = 0] ELSE waited
    BY <1>2 DEF DelayCall, StillDelayed, t
  <2>3. /\ stamp'[t] = IF stamp[t] = None THEN 0 ELSE stamp[t]
        /\ \A u \in Threads : u # t => stamp'[u] = stamp[u]
        /\ stamp' \in [Threads -> 0..None]
    BY <1>0, <2>2 DEF TimeInv
  <2>4. /\ waited' \in [Ports -> 0..MaxDelay]
        /\ \A q \in Ports : q # p => waited'[q] = waited[q]
        /\ waited'[p] = IF state[p] # "PROCESS_DEVICE" THEN 0 ELSE waited[p]
    BY <1>0, <2>2 DEF TimeInv
  <2>5. TimeInv'
    BY <2>2, <2>3, <2>4 DEF TimeInv
  <2>6. ASSUME NEW q \in Serial, stamp'[q] # None
        PROVE  state'[q] = "PROCESS_DEVICE" /\ stamp'[q] <= waited'[q]
    <3>1. CASE q = p
      <4>1. CASE stamp[p] = None
        <5>1. stamp'[q] = 0 /\ waited'[q] \in 0..MaxDelay
          BY <1>0, <2>3, <2>4, <3>1, <4>1
        <5> QED
          BY <1>0, <2>1, <3>1, <5>1
      <4>2. CASE stamp[p] # None
        <5>1. state[p] = "PROCESS_DEVICE" /\ stamp[p] <= waited[p]
          BY <3>1, <4>2 DEF StampsAreLate
        <5> QED
          BY <1>0, <2>1, <2>3, <2>4, <3>1, <4>2, <5>1
      <4> QED
        BY <4>1, <4>2
    <3>2. CASE q # p
      <4>1. stamp'[q] = stamp[q] /\ waited'[q] = waited[q] /\ state'[q] = state[q]
        BY <1>0, <2>1, <2>3, <2>4, <3>2
      <4> QED
        BY <2>6, <4>1 DEF StampsAreLate
    <3> QED
      BY <3>1, <3>2
  <2> QED
    BY <2>1, <2>5, <2>6 DEF StampsAreLate
<1>3. ASSUME NEW r \in Requests, NEW o \in Outcomes, AnswerCall(p, r, o)
      PROVE  /\ ServeInv' /\ LineInv' /\ TimeInv' /\ StampsAreLate'
             /\ \A q \in Ports : q # p => state'[q] = state[q] /\ input'[q] = input[q]
  <2>1. /\ ServeInv' /\ LineInv'
        /\ AtHandIs(p, r)
        /\ \A q \in Ports : q # p => state'[q] = state[q] /\ input'[q] = input[q]
    BY <1>3, AnswerCallDoes
  <2>2. /\ waited' = [waited EXCEPT ![p] = 0]
        /\ DelayIsOver(t, r)
    BY <1>3 DEF AnswerCall, t
  <2>3. /\ waited' \in [Ports -> 0..MaxDelay]
        /\ \A q \in Ports : q # p => waited'[q] = waited[q]
    BY <1>0, <2>2 DEF TimeInv
  <2>4. CASE DelayFor(r) > 0
    <3>1. /\ stamp' = [stamp EXCEPT ![t] = None]
          /\ answered' = (t = TCP \/ answered)
      BY <2>2, <2>4 DEF DelayIsOver
    <3>2. /\ stamp' \in [Threads -> 0..None] /\ stamp'[t] = None
          /\ \A u \in Threads : u # t => stamp'[u] = stamp[u]
          /\ answered' \in BOOLEAN
      BY <1>0, <3>1 DEF TimeInv
    <3>3. ASSUME NEW q \in Serial, stamp'[q] # None
          PROVE  state'[q] = "PROCESS_DEVICE" /\ stamp'[q] <= waited'[q]
      <4>1. q # t /\ q # p
        BY <1>0, <3>2, <3>3
      <4> QED
        BY <1>0, <2>1, <2>3, <3>2, <3>3, <4>1 DEF StampsAreLate
    <3> QED
      BY <2>1, <2>3, <3>2, <3>3 DEF TimeInv, StampsAreLate
  <2>5. CASE ~(DelayFor(r) > 0)
    <3>1. UNCHANGED <<stamp, answered>>
      BY <2>2, <2>5 DEF DelayIsOver
    <3>2. state[p] # "PROCESS_DEVICE"
      BY <2>1, <2>5 DEF AtHandIs, Reading, ServeInv, Keeps
    <3>3. ASSUME NEW q \in Serial, stamp[q] # None
          PROVE  state'[q] = "PROCESS_DEVICE" /\ stamp[q] <= waited'[q]
      <4>1. q # p
        BY <3>2, <3>3 DEF StampsAreLate
      <4> QED
        BY <1>0, <2>1, <2>3, <3>3, <4>1 DEF StampsAreLate
    <3> QED
      BY <2>1, <2>3, <3>1, <3>3 DEF TimeInv, StampsAreLate
  <2> QED
    BY <2>4, <2>5
<1> QED
  BY <1>1, <1>2, <1>3, ThreeKinds

-----------------------------------------------------------------------------
(* Every step keeps the invariant                                          *)

LEMMA ResetKeeps ==
  ASSUME ServeInv, LineInv, TimeInv, NEW P, Reset(P)
  PROVE  /\ ServeInv'
         /\ input' \in [Ports -> Seq(Requests)]
         /\ waited' \in [Ports -> 0..MaxDelay]
         /\ \A p \in Ports : p \in P => state'[p] = "UNKNOWN" /\ input'[p] = <<>>
         /\ \A p \in Ports : p \notin P => state'[p] = state[p] /\ input'[p] = input[p]
         /\ \A p \in Ports : p \notin P => waited'[p] = waited[p]
<1>1. Keeps("UNKNOWN", NoRequest, NoOutcome)
  BY DEF Keeps, States
<1>2. /\ state' = [p \in Ports |-> IF p \in P THEN "UNKNOWN" ELSE state[p]]
      /\ input' = [p \in Ports |-> IF p \in P THEN <<>> ELSE input[p]]
      /\ req' = [p \in Ports |-> IF p \in P THEN NoRequest ELSE req[p]]
      /\ reply' = [p \in Ports |-> IF p \in P THEN NoOutcome ELSE reply[p]]
      /\ waited' = [p \in Ports |-> IF p \in P THEN 0 ELSE waited[p]]
  BY DEF Reset
<1>3. ServeInv'
  <2>1. /\ state' \in [Ports -> States]
        /\ req' \in [Ports -> Requests \union {NoRequest}]
        /\ reply' \in [Ports -> Outcomes \union {NoOutcome}]
    BY <1>2 DEF ServeInv, States
  <2>2. ASSUME NEW p \in Ports PROVE Keeps(state'[p], req'[p], reply'[p])
    <3>1. CASE p \in P
      BY <1>1, <1>2, <3>1
    <3>2. CASE p \notin P
      <4>1. state'[p] = state[p] /\ req'[p] = req[p] /\ reply'[p] = reply[p]
        BY <1>2, <3>2
      <4> QED
        BY <4>1 DEF ServeInv
    <3> QED
      BY <3>1, <3>2
  <2>3. (\A p \in Ports : Keeps(state[p], req[p], reply[p]))'
    BY <2>2
  <2> QED
    BY <2>1, <2>3 DEF ServeInv
<1>4. waited' \in [Ports -> 0..MaxDelay]
  BY <1>2, NoneIsLate DEF TimeInv
<1>5. input' \in [Ports -> Seq(Requests)]
  <2>1. <<>> \in Seq(Requests)
    OBVIOUS
  <2> QED
    BY <1>2, <2>1 DEF LineInv
<1> QED
  BY <1>2, <1>3, <1>4, <1>5

\* A step that leaves the services and the times alone.
LEMMA OnlyTheLine ==
  ASSUME IInv, UNCHANGED <<serveVars, timeVars>>, LineInv', LoopInv'
  PROVE  IInv'
<1>1. ServeInv' /\ TimeInv' /\ StampsAreLate'
  BY IInvInParts DEF ServeInv, TimeInv, StampsAreLate, serveVars, timeVars
<1> QED
  BY <1>1, PartsAfter

LEMMA NextKeeps ==
  ASSUME IInv, [Next]_vars
  PROVE  IInv'
<1>0. /\ ServeInv /\ LineInv /\ TimeInv /\ LoopInv /\ StampsAreLate
      /\ Serial \subseteq Ports /\ TCP \notin Serial /\ TCP \in Threads /\ Serial \subseteq Threads
      /\ Connections \subseteq Ports /\ Connections \cap Serial = {}
  BY IInvInParts, ModbusServerPortAssumption, ServerRuntimeAssumption DEF Threads, Connections
<1>1. ASSUME NEW p \in Serial, PollSerial(p) PROVE IInv'
  <2>1. Process(p) /\ UNCHANGED <<tcpVars, running>>
    BY <1>1 DEF PollSerial
  <2>2. ServeInv' /\ LineInv' /\ TimeInv' /\ StampsAreLate'
    BY <1>0, <2>1, ProcessKeeps
  <2>3. LoopInv'
    BY <1>0, <2>1 DEF LoopInv, LoopAtConnection, tcpVars
  <2> QED
    BY <2>2, <2>3, PartsAfter
<1>2. CASE Listen
  <2>1. LineInv' /\ LoopInv'
    BY <1>0, <1>2 DEF Listen, portVars, lineVars, LineInv, LoopInv, LoopAtConnection
  <2> QED
    BY <1>2, <2>1, OnlyTheLine DEF Listen, portVars
<1>3. CASE Accept
  <2>1. connections' \in Seq(Connections) /\ backlog' \in Seq(Connections) /\ Len(connections') # 0
    <3>1. connections \in Seq(Connections) /\ backlog \in Seq(Connections)
      BY <1>0 DEF LoopInv, LoopAtConnection
    <3>2. CASE backlog = <<>>
      <4>1. connections' = connections /\ backlog' = backlog /\ connections # <<>>
        BY <1>3, <3>2 DEF Accept
      <4> QED
        BY <3>1, <4>1
    <3>3. CASE backlog # <<>>
      <4>1. connections' = Append(connections, Head(backlog)) /\ backlog' = Tail(backlog)
        BY <1>3, <3>3 DEF Accept
      <4>2. Head(backlog) \in Connections /\ Tail(backlog) \in Seq(Connections)
        BY <3>1, <3>3
      <4>3. /\ Append(connections, Head(backlog)) \in Seq(Connections)
            /\ Len(Append(connections, Head(backlog))) = Len(connections) + 1
        BY <3>1, <4>2
      <4> QED
        BY <3>1, <4>1, <4>2, <4>3
    <3> QED
      BY <3>2, <3>3
  <2>2. turn' = 1 /\ closed' = closed /\ running' = running
    BY <1>3 DEF Accept
  <2>3. LoopInv'
    BY <1>0, <2>1, <2>2 DEF LoopInv, LoopAtConnection
  <2>4. LineInv'
    BY <1>0, <1>3 DEF Accept, portVars, lineVars, LineInv
  <2> QED
    BY <1>3, <2>3, <2>4, OnlyTheLine DEF Accept, portVars
<1>4. CASE PollConnection
  <2> DEFINE c == connections[turn]
  <2>1. turn \in 1..Len(connections) /\ c \in Ports
    BY <1>0, <1>4 DEF PollConnection, LoopInv, LoopAtConnection
  <2>2. /\ Process(c)
        /\ closed' = ~isOpen'[c]
        /\ turn' = IF closed' THEN turn ELSE IF turn = Len(connections) THEN 0 ELSE turn + 1
        /\ UNCHANGED <<backlog, connections, running>>
    BY <1>4 DEF PollConnection
  <2> HIDE DEF c
  <2>3. ServeInv' /\ LineInv' /\ TimeInv' /\ StampsAreLate'
    BY <1>0, <2>1, <2>2, ProcessKeeps
  <2>4. connections \in Seq(Connections) /\ turn' \in 0..Len(connections) /\ (closed' => turn' # 0)
    BY <1>0, <2>1, <2>2 DEF LoopInv, LoopAtConnection
  <2>5. closed' \in BOOLEAN
    BY <2>2
  <2>6. LoopInv'
    BY <1>0, <2>2, <2>4, <2>5 DEF LoopInv, LoopAtConnection
  <2> QED
    BY <2>3, <2>6, PartsAfter
<1>5. CASE EraseConnection
  <2> DEFINE c == connections[turn]
  <2>1. turn \in 1..Len(connections) /\ c \in Connections /\ connections \in Seq(Connections)
    BY <1>0, <1>5 DEF EraseConnection, LoopInv, LoopAtConnection
  <2>2. /\ closed' = FALSE
        /\ connections' = RemoveAt(connections, turn)
        /\ turn' = IF turn = Len(connections) THEN 0 ELSE turn
        /\ Reset({c})
        /\ UNCHANGED <<isOpen, memory, backlog, running, stamp, answered>>
    BY <1>5 DEF EraseConnection
  <2> HIDE DEF c
  <2>3. connections' \in Seq(Connections) /\ Len(connections') = Len(connections) - 1
    BY <2>1, <2>2, OneRemoved
  <2>4. LoopInv'
    <3>1. backlog' \in Seq(Connections) /\ running' \subseteq Threads
      BY <1>0, <2>2 DEF LoopInv, LoopAtConnection
    <3>2. closed' \in BOOLEAN /\ ~closed'
      BY <2>2
    <3>3. turn' \in 0..Len(connections')
      BY <2>1, <2>2, <2>3
    <3> QED
      BY <2>3, <3>1, <3>2, <3>3 DEF LoopInv, LoopAtConnection
  <2>5. /\ ServeInv' /\ input' \in [Ports -> Seq(Requests)]
        /\ waited' \in [Ports -> 0..MaxDelay]
        /\ \A p \in Serial : state'[p] = state[p] /\ waited'[p] = waited[p]
    BY <1>0, <2>1, <2>2, ResetKeeps
  <2>6. LineInv' /\ TimeInv'
    BY <1>0, <2>2, <2>5 DEF LineInv, TimeInv
  <2>7. StampsAreLate'
    BY <1>0, <2>2, <2>5 DEF StampsAreLate
  <2> QED
    BY <2>4, <2>5, <2>6, <2>7, PartsAfter
<1>6. ASSUME NEW t \in Threads, Stop(t) PROVE IInv'
  <2> DEFINE P == {p \in Ports : ThreadOf(p) = t}
  <2>1. /\ Reset(P)
        /\ running' = running \ {t}
        /\ isOpen' = [p \in Ports |-> IF p \in P THEN FALSE ELSE isOpen[p]]
        /\ stamp' = [stamp EXCEPT ![t] = None]
        /\ answered' = (t # TCP /\ answered)
        /\ UNCHANGED memory
    BY <1>6 DEF Stop
  <2>2. \A p \in Serial : p \in P => p = t
    BY DEF ThreadOf
  <2> HIDE DEF P
  <2>3. /\ ServeInv' /\ input' \in [Ports -> Seq(Requests)]
        /\ waited' \in [Ports -> 0..MaxDelay]
        /\ \A p \in Serial : p # t => state'[p] = state[p] /\ waited'[p] = waited[p]
    BY <1>0, <2>1, <2>2, ResetKeeps
  <2>4. LineInv'
    BY <1>0, <2>1, <2>3 DEF LineInv
  <2>5. /\ stamp' \in [Threads -> 0..None] /\ stamp'[t] = None
        /\ \A u \in Threads : u # t => stamp'[u] = stamp[u]
    BY <1>0, <2>1, NoneIsLate DEF TimeInv
  <2>6. answered' \in BOOLEAN
    BY <1>0, <2>1 DEF TimeInv
  <2>7. StampsAreLate'
    <3>1. ASSUME NEW p \in Serial, stamp'[p] # None
          PROVE  state'[p] = "PROCESS_DEVICE" /\ stamp'[p] <= waited'[p]
      <4>1. p # t
        BY <2>5, <3>1
      <4> QED
        BY <1>0, <2>3, <2>5, <3>1, <4>1 DEF StampsAreLate
    <3> QED
      BY <3>1 DEF StampsAreLate
  <2>8. LoopInv'
    <3>1. CASE t = TCP
      <4>1. connections' = <<>> /\ backlog' = <<>> /\ turn' = turn /\ turn = 0 /\ closed' = closed
        BY <1>6, <3>1 DEF Stop
      <4> QED
        BY <1>0, <2>1, <4>1 DEF LoopInv, LoopAtConnection
    <3>2. CASE t # TCP
      <4>1. UNCHANGED tcpVars
        BY <1>6, <3>2 DEF Stop
      <4> QED
        BY <1>0, <2>1, <4>1 DEF LoopInv, LoopAtConnection, tcpVars
    <3> QED
      BY <3>1, <3>2
  <2>9. TimeInv'
    BY <2>3, <2>5, <2>6 DEF TimeInv
  <2> QED
    BY <2>3, <2>4, <2>7, <2>8, <2>9, PartsAfter
<1>7. CASE Start
  <2>1. LineInv' /\ LoopInv'
    BY <1>0, <1>7 DEF Start, portVars, lineVars, tcpVars, LineInv, LoopInv, LoopAtConnection
  <2> QED
    BY <1>7, <2>1, OnlyTheLine DEF Start, portVars
<1>8. CASE ActionSets
  <2>1. PICK v \in Values : memory' = [memory EXCEPT ![ActionDevice] = v]
    BY <1>8 DEF ActionSets
  <2>2. LineInv' /\ LoopInv'
    BY <1>0, <1>8, <2>1 DEF ActionSets, lineVars, tcpVars, LineInv, LoopInv, LoopAtConnection
  <2> QED
    BY <1>8, <2>2, OnlyTheLine DEF ActionSets
<1>9. ASSUME NEW p \in Ports, Send(p) PROVE IInv'
  <2>1. PICK r \in Asks[p] : input' = [input EXCEPT ![p] = Append(@, r)]
    BY <1>9 DEF Send
  <2>2. input[p] \in Seq(Requests) /\ r \in Requests
    BY <1>0, ServerRuntimeAssumption DEF LineInv
  <2>3. Append(input[p], r) \in Seq(Requests)
    BY <2>2
  <2>4. input' \in [Ports -> Seq(Requests)]
    BY <1>0, <2>1, <2>3 DEF LineInv
  <2>5. LineInv' /\ LoopInv'
    BY <1>0, <1>9, <2>4 DEF Send, tcpVars, LineInv, LoopInv, LoopAtConnection
  <2> QED
    BY <1>9, <2>5, OnlyTheLine DEF Send
<1>10. ASSUME NEW c \in Connections, Connect(c) PROVE IInv'
  <2>1. backlog \in Seq(Connections) /\ backlog' = Append(backlog, c)
    BY <1>0, <1>10 DEF Connect, LoopInv, LoopAtConnection
  <2>2. backlog' \in Seq(Connections)
    BY <2>1
  <2>3. LineInv' /\ LoopInv'
    BY <1>0, <1>10, <2>2 DEF Connect, LineInv, LoopInv, LoopAtConnection
  <2> QED
    BY <1>10, <2>3, OnlyTheLine DEF Connect
<1>11. ASSUME NEW c \in Connections, Drop(c) PROVE IInv'
  <2>1. LineInv' /\ LoopInv'
    BY <1>0, <1>11 DEF Drop, tcpVars, LineInv, LoopInv, LoopAtConnection
  <2> QED
    BY <1>11, <2>1, OnlyTheLine DEF Drop
<1>12. CASE Tick
  <2>1. /\ stamp' = [t \in Threads |-> IF stamp[t] = None THEN None ELSE Later(stamp[t])]
        /\ waited' = [p \in Ports |-> IF state[p] = "PROCESS_DEVICE" THEN Later(waited[p]) ELSE waited[p]]
        /\ answered' = FALSE
    BY <1>12 DEF Tick
  <2>2. \A t \in Threads : stamp[t] # None => stamp[t] \in 0..MaxDelay
    BY <1>0, NoneIsLate DEF TimeInv, None
  <2>3. stamp' \in [Threads -> 0..None]
    BY <1>0, <2>1, <2>2, LaterIsTime, NoneIsLate DEF TimeInv
  <2>4. waited' \in [Ports -> 0..MaxDelay] /\ answered' \in BOOLEAN
    BY <1>0, <2>1, LaterIsTime DEF TimeInv
  <2>5. ServeInv' /\ LineInv' /\ LoopInv'
    BY <1>0, <1>12 DEF Tick, portVars, lineVars, serveVars, tcpVars, ServeInv, LineInv, LoopInv, LoopAtConnection
  <2>6. ASSUME NEW p \in Serial, stamp'[p] # None
        PROVE  state'[p] = "PROCESS_DEVICE" /\ stamp'[p] <= waited'[p]
    <3>1. stamp[p] # None /\ stamp'[p] = Later(stamp[p]) /\ stamp[p] \in 0..MaxDelay
      BY <1>0, <2>1, <2>2, <2>6
    <3>2. state[p] = "PROCESS_DEVICE" /\ stamp[p] <= waited[p]
      BY <1>0, <3>1 DEF StampsAreLate
    <3>3. waited[p] \in 0..MaxDelay /\ waited'[p] = Later(waited[p]) /\ state' = state
      BY <1>0, <1>12, <2>1, <3>2 DEF TimeInv, Tick, portVars, serveVars
    <3> QED
      BY <3>1, <3>2, <3>3, LaterKeepsOrder
  <2>7. TimeInv' /\ StampsAreLate'
    BY <2>3, <2>4, <2>6 DEF TimeInv, StampsAreLate
  <2> QED
    BY <2>5, <2>7, PartsAfter
<1>13. CASE UNCHANGED vars
  <2>1. LineInv' /\ LoopInv'
    BY <1>0, <1>13 DEF vars, portVars, lineVars, tcpVars, LineInv, LoopInv, LoopAtConnection
  <2> QED
    BY <1>13, <2>1, OnlyTheLine DEF vars, portVars
<1> QED
  BY <1>1, <1>2, <1>3, <1>4, <1>5, <1>6, <1>7, <1>8, <1>9, <1>10, <1>11, <1>12, <1>13 DEF Next

LEMMA Invariance == Spec => []IInv
<1>1. Init => IInv
  <2> SUFFICES ASSUME Init PROVE IInv
    OBVIOUS
  <2>1. Keeps("UNKNOWN", NoRequest, NoOutcome)
    BY DEF Keeps, States
  <2>2. /\ state = [p \in Ports |-> "UNKNOWN"]
        /\ isOpen = [p \in Ports |-> FALSE]
        /\ input = [p \in Ports |-> <<>>]
        /\ req = [p \in Ports |-> NoRequest]
        /\ reply = [p \in Ports |-> NoOutcome]
        /\ memory = [d \in Devices |-> 0]
    BY DEF Init, PortInit
  <2>3. ServeInv
    BY <2>1, <2>2 DEF ServeInv, States
  <2>4. LineInv
    BY <2>2, ModbusServerPortAssumption DEF LineInv
  <2>5. TimeInv /\ StampsAreLate
    <3>1. /\ stamp = [t \in Threads |-> None]
          /\ waited = [p \in Ports |-> 0]
          /\ answered = FALSE
      BY DEF Init
    <3>2. None \in 0..None /\ 0 \in 0..MaxDelay
      BY NoneIsLate
    <3>3. TimeInv
      BY <3>1, <3>2 DEF TimeInv
    <3>4. \A p \in Serial : stamp[p] = None
      BY <3>1 DEF Threads
    <3> QED
      BY <3>3, <3>4 DEF StampsAreLate
  <2>6. LoopInv
    <3>1. connections \in Seq(Connections) /\ backlog \in Seq(Connections) /\ Len(connections) = 0
      BY DEF Init
    <3>2. turn = 0 /\ closed = FALSE /\ running = Threads
      BY DEF Init
    <3>3. closed \in BOOLEAN
      BY <3>2
    <3> QED
      BY <3>1, <3>2, <3>3 DEF LoopInv, LoopAtConnection
  <2> QED
    BY <2>3, <2>4, <2>5, <2>6, IInvInParts
<1> QED
  BY <1>1, NextKeeps, PTL DEF Spec

\* The types of the server, with what belongs to them: a request is kept
\* exactly as long as it is served, whatever the threads, the masters, the
\* time, and a stop and start do in between.
THEOREM TypeCorrect == Spec => []TypeOK
<1>1. IInv => TypeOK
  BY DEF IInv
<1> QED
  BY <1>1, Invariance, PTL

-----------------------------------------------------------------------------
(* The server keeps the promise of RequestService                          *)

\* A call begins a service, carries it out, ends it, or does none of these.
LEMMA ProcessServes ==
  ASSUME ServeInv, LineInv, NEW p \in Ports, Process(p)
  PROVE  [Service!Next]_(Service!vars)
<1>1. CASE IdleCall(p)
  <2>1. UNCHANGED memory /\ ((req' = req /\ reply' = reply) \/ WriteEnds(p))
    BY <1>1, IdleCallDoes
  <2>2. CASE req' = req /\ reply' = reply
    BY <2>2 DEF Service!Next, Service!Change
  <2>3. CASE WriteEnds(p)
    <3>1. /\ req' = [req EXCEPT ![p] = NoRequest]
          /\ reply' = [reply EXCEPT ![p] = NoOutcome]
      BY <2>3 DEF WriteEnds
    <3>2. ASSUME NEW q \in Ports
          PROVE  <<req'[q], reply'[q]>> \in {<<req[q], reply[q]>>, <<NoRequest, NoOutcome>>}
      BY <3>1 DEF ServeInv
    <3> QED
      BY <2>1, <3>2 DEF Service!Next, Service!Finish
  <2> QED
    BY <2>1, <2>2, <2>3
<1>2. ASSUME NEW r \in Requests, DelayCall(p, r)
      PROVE  Service!Next
  <2>1. /\ UNCHANGED memory
        /\ req' = [req EXCEPT ![p] = r] /\ reply' = reply
        /\ AtHandIs(p, r)
    BY <1>2, DelayCallDoes
  <2>2. CASE req[p] = NoRequest
    <3>1. Service!Begin(p, r)
      BY <2>1, <2>2 DEF Service!Begin
    <3> QED
      BY <3>1 DEF Service!Next
  <2>3. CASE r = req[p]
    <3>1. req' = req
      BY <2>1, <2>3 DEF ServeInv
    <3> QED
      BY <2>1, <3>1 DEF Service!Next, Service!Change
  <2> QED
    BY <2>1, <2>2, <2>3 DEF AtHandIs
<1>3. ASSUME NEW r \in Requests, NEW o \in Outcomes, AnswerCall(p, r, o)
      PROVE  Service!Next
  <2>1. /\ AtHandIs(p, r) /\ reply[p] = NoOutcome /\ CarriedOut(r, o)
        /\ \/ req' = [req EXCEPT ![p] = r] /\ reply' = [reply EXCEPT ![p] = o]
           \/ req' = [req EXCEPT ![p] = NoRequest] /\ reply' = reply
    BY <1>3, AnswerCallDoes
  <2>2. req[p] \in {NoRequest, r}
    BY <2>1 DEF AtHandIs
  <2>3. Service!CarryOut(p, r, o)
    BY <2>1, <2>2 DEF Service!CarryOut, CarriedOut
  <2> QED
    BY <2>3 DEF Service!Next
<1> QED
  BY <1>1, <1>2, <1>3, ThreeKinds

LEMMA ResetFinishes ==
  ASSUME NEW P, Reset(P), UNCHANGED memory
  PROVE  Service!Next
<1>1. /\ req' = [p \in Ports |-> IF p \in P THEN NoRequest ELSE req[p]]
      /\ reply' = [p \in Ports |-> IF p \in P THEN NoOutcome ELSE reply[p]]
  BY DEF Reset
<1>2. ASSUME NEW p \in Ports
      PROVE  <<req'[p], reply'[p]>> \in {<<req[p], reply[p]>>, <<NoRequest, NoOutcome>>}
  BY <1>1
<1> QED
  BY <1>2 DEF Service!Next, Service!Finish

\* Whatever the ports do between its arrival and its answer, a request is
\* carried out at most once, at one moment, on the memory they all share,
\* and the answer is the outcome of that moment: the detailed server
\* implements RequestService.
THEOREM ImplementsRequestService == Spec => ServiceSpec
<1>1. Init => Service!Init
  BY DEF Init, PortInit, Service!Init
<1>2. ASSUME IInv, [Next]_vars
      PROVE  [Service!Next]_(Service!vars)
  <2>0. ServeInv /\ LineInv /\ LoopInv /\ Serial \subseteq Ports
    BY <1>2, IInvInParts, ModbusServerPortAssumption
  <2>1. ASSUME NEW p \in Serial, PollSerial(p)
        PROVE  [Service!Next]_(Service!vars)
    BY <2>0, <2>1, ProcessServes DEF PollSerial
  <2>2. CASE PollConnection
    <3>1. connections[turn] \in Ports /\ Process(connections[turn])
      BY <2>0, <2>2 DEF PollConnection, LoopInv, LoopAtConnection, Connections
    <3> QED
      BY <2>0, <3>1, ProcessServes
  <2>3. CASE EraseConnection
    BY <2>3, ResetFinishes DEF EraseConnection
  <2>4. ASSUME NEW t \in Threads, Stop(t)
        PROVE  Service!Next
    BY <2>4, ResetFinishes DEF Stop
  <2>5. CASE UNCHANGED <<req, reply>>
    BY <2>5 DEF Service!Next, Service!Change
  <2>6. CASE Listen \/ Accept \/ Start \/ ActionSets \/ Tick \/ UNCHANGED vars
    BY <2>5, <2>6 DEF Listen, Accept, Start, ActionSets, Tick, vars, portVars, serveVars
  <2>7. ASSUME NEW p \in Ports, Send(p) \/ Connect(p) \/ Drop(p)
        PROVE  Service!Next
    BY <2>5, <2>7 DEF Send, Connect, Drop, serveVars, Service!Next, Service!Change
  <2> QED
    BY <1>2, <2>1, <2>2, <2>3, <2>4, <2>6, <2>7 DEF Next, Connections
<1> QED
  BY <1>1, <1>2, Invariance, PTL DEF Spec, ServiceSpec, Service!Spec

-----------------------------------------------------------------------------
(* The delays                                                              *)

\* Nothing but a call of process() carries out a request.
LEMMA OnlyCallsCarryOut ==
  ASSUME IInv, [Next]_vars, NEW p \in Ports, CarriesOut(p)
  PROVE  \E q \in Ports : Process(q)
<1>0. /\ ServeInv /\ LineInv /\ LoopInv /\ Serial \subseteq Ports
      /\ input[p] \in Seq(Requests)
      /\ running' = running
      /\ state'[p] \in {"BEGIN_READ", "BEGIN_WRITE"}
      /\ state[p] = "PROCESS_DEVICE" \/ Len(input'[p]) < Len(input[p])
  BY IInvInParts, ModbusServerPortAssumption DEF CarriesOut, LineInv
<1>1. CASE PollConnection
  BY <1>0, <1>1 DEF PollConnection, LoopInv, LoopAtConnection, Connections
<1>2. ASSUME state' = state, Len(input'[p]) >= Len(input[p])
      PROVE  FALSE
  BY <1>0, <1>2
<1>3. CASE Listen \/ Accept \/ Start \/ ActionSets \/ Tick \/ UNCHANGED vars
  <2>1. state' = state /\ input' = input
    BY <1>3 DEF Listen, Accept, Start, ActionSets, Tick, vars, portVars, serveVars, lineVars
  <2> QED
    BY <1>0, <1>2, <2>1
<1>4. ASSUME NEW q \in Ports, Connect(q) \/ Drop(q)
      PROVE  FALSE
  <2>1. state' = state /\ input' = input
    BY <1>4 DEF Connect, Drop, serveVars
  <2> QED
    BY <1>0, <1>2, <2>1
<1>5. ASSUME NEW q \in Ports, Send(q)
      PROVE  FALSE
  <2>1. PICK r \in Asks[q] : input' = [input EXCEPT ![q] = Append(@, r)]
    BY <1>5 DEF Send
  <2>2. CASE p = q
    <3>1. r \in Requests /\ input'[p] = Append(input[p], r)
      BY <1>0, <2>1, <2>2, ServerRuntimeAssumption DEF LineInv
    <3>2. Len(Append(input[p], r)) = Len(input[p]) + 1
      BY <1>0, <3>1
    <3> QED
      BY <1>0, <1>2, <1>5, <3>1, <3>2 DEF Send, serveVars
  <2>3. CASE p # q
    <3>1. input'[p] = input[p]
      BY <2>1, <2>3 DEF LineInv
    <3> QED
      BY <1>0, <1>2, <1>5, <3>1 DEF Send, serveVars
  <2> QED
    BY <2>2, <2>3
<1>6. CASE EraseConnection
  <2>1. Reset({connections[turn]})
    BY <1>6 DEF EraseConnection
  <2>2. p # connections[turn] /\ state'[p] = state[p] /\ input'[p] = input[p]
    BY <1>0, <2>1 DEF Reset
  <2> QED
    BY <1>0, <2>2
<1>7. ASSUME NEW t \in Threads, Stop(t)
      PROVE  FALSE
  BY <1>0, <1>7 DEF Stop
<1> QED
  BY <1>0, <1>1, <1>3, <1>4, <1>5, <1>6, <1>7 DEF Next, PollSerial, Connections

\* The call that carries out a delayed request of p found the timestamp set,
\* and the delay over.
LEMMA CarriedOutLate ==
  ASSUME IInv, [Next]_vars, NEW p \in Ports, CarriesOut(p)
  PROVE  \E r \in Requests :
            /\ AtHandIs(p, r) /\ r = AtHand(p) /\ DelayFor(r) > 0
            /\ stamp[ThreadOf(p)] # None /\ stamp[ThreadOf(p)] >= DelayFor(r)
<1>0. /\ ServeInv /\ LineInv
      /\ state'[p] \in {"BEGIN_READ", "BEGIN_WRITE"}
      /\ state[p] = "PROCESS_DEVICE" \/ Len(input'[p]) < Len(input[p])
      /\ ~Ignored(AtHand(p)) /\ DelayFor(AtHand(p)) > 0
  BY IInvInParts DEF CarriesOut
<1>1. PICK q \in Ports : Process(q)
  BY OnlyCallsCarryOut
<1>2. p = q
  <2>1. CASE p # q
    <3>1. state'[p] = state[p] /\ input'[p] = input[p]
      BY <1>0, <1>1, <2>1, IInvInParts, ProcessKeeps
    <3>2. input[p] \in Seq(Requests)
      BY <1>0 DEF LineInv
    <3> QED
      BY <1>0, <3>1, <3>2
  <2> QED
    BY <2>1
<1>3. ASSUME NEW r \in Requests, AtHandIs(p, r)
      PROVE  r = AtHand(p)
  BY <1>3 DEF AtHandIs, AtHand, Reading
<1>4. CASE IdleCall(p)
  <2>1. state[p] # "PROCESS_DEVICE" /\ Len(input'[p]) < Len(input[p])
    BY <1>0, <1>4, IdleCallDoes
  <2>2. input[p] \in Seq(Requests)
    BY <1>0 DEF LineInv
  <2>3. input'[p] # input[p]
    BY <2>1, <2>2
  <2>4. CASE ReadIgnored(p)
    BY <1>0, <2>1, <2>4 DEF ReadIgnored, AtHand
  <2>5. ASSUME NEW r \in Requests, UnknownUnit(p, r)
        PROVE  FALSE
    <3>1. DelayFor(r) = 0 /\ Serves(p, r)
      BY <2>5 DEF UnknownUnit, DelayFor
    <3>2. AtHandIs(p, r)
      BY <1>0, <3>1, ServesOne
    <3> QED
      BY <1>0, <1>3, <3>1, <3>2
  <2>6. CASE Uninitialized(p) \/ Opening(p) \/ ReadWaits(p) \/ ReadTimesOut(p) \/ WriteEnds(p)
    BY <2>3, <2>6 DEF Uninitialized, Opening, ReadWaits, ReadTimesOut, WriteEnds, lineVars
  <2> QED
    BY <1>4, <2>4, <2>5, <2>6 DEF IdleCall
<1>5. ASSUME NEW r \in Requests, DelayCall(p, r)
      PROVE  FALSE
  BY <1>0, <1>5, DelayCallDoes
<1>6. ASSUME NEW r \in Requests, NEW o \in Outcomes, AnswerCall(p, r, o)
      PROVE  /\ AtHandIs(p, r) /\ r = AtHand(p) /\ DelayFor(r) > 0
             /\ stamp[ThreadOf(p)] # None /\ stamp[ThreadOf(p)] >= DelayFor(r)
  <2>1. AtHandIs(p, r)
    BY <1>0, <1>6, AnswerCallDoes
  <2>2. r = AtHand(p) /\ DelayFor(r) > 0
    BY <1>0, <1>3, <2>1
  <2>3. DelayIsOver(ThreadOf(p), r)
    BY <1>6 DEF AnswerCall
  <2> QED
    BY <2>1, <2>2, <2>3 DEF DelayIsOver
<1> QED
  BY <1>1, <1>2, <1>4, <1>5, <1>6, ThreeKinds

\* The delay of a device is kept on a serial port, from the moment the request
\* was read, whichever of the units on the port the timestamp was set for.
THEOREM SerialDelaysKept == Spec => SerialDelayed
<1>1. ASSUME IInv, [Next]_vars, NEW p \in Serial, CarriesOut(p)
      PROVE  waited[p] >= DelayFor(AtHand(p))
  <2>1. p \in Ports /\ ThreadOf(p) = p
    BY ModbusServerPortAssumption, ThreadIsThread
  <2>2. PICK r \in Requests :
          r = AtHand(p) /\ stamp[p] # None /\ stamp[p] >= DelayFor(r)
    BY <1>1, <2>1, CarriedOutLate
  <2>3. stamp[p] <= waited[p] /\ p \in Threads
    BY <1>1, <2>2, IInvInParts DEF StampsAreLate, Threads
  <2>4. stamp[p] \in 0..None /\ waited[p] \in 0..MaxDelay /\ DelayFor(r) \in 0..MaxDelay
    BY <1>1, <2>1, <2>3, IInvInParts, DelayIsTime DEF TimeInv
  <2> QED
    BY <2>2, <2>3, <2>4, NoneIsLate
<1>2. IInv /\ [Next]_vars =>
        [\A p \in Serial : CarriesOut(p) => waited[p] >= DelayFor(AtHand(p))]_vars
  BY <1>1
<1> QED
  BY <1>2, Invariance, PTL DEF Spec, SerialDelayed
=============================================================================
