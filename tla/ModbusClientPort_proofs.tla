---------------------- MODULE ModbusClientPort_proofs -----------------------
(***************************************************************************)
(* Theorems about ModbusClientPort, for every set of clients, every set of *)
(* requests and every repeat count.                                        *)
(*                                                                         *)
(* The inductive invariant IInv strengthens the properties of the module   *)
(* by what ties the write buffer to its owner while the request is not yet *)
(* on the line, and by the count of sends against the count of failures.   *)
(***************************************************************************)
EXTENDS ModbusClientPort, TLAPS

\* What a client's call does to the state, seen from the ways request() ends:
\* the port still has the buffer of c's request, or the attempt has failed.

\* writeBuffer leaves c's unit and function as the expected ones, and on a
\* first attempt c's request in the buffer.
LEMMA WriteBufferLoads ==
  ASSUME NEW c \in Clients, NEW q \in Requests,
         IInv, Requesting(c, q), WriteBuffer(c, q), state # "BEGIN_READ"
  PROVE  /\ expect' = <<c, q>>
         /\ buff' \in Frames
         /\ repeats = 0 /\ q \notin Overflow => buff' = <<c, q>>
<1> USE ModbusClientPortAssumption
    DEF IInv, TypeOK, Requesting, Calls, Enable, Process, WriteBuffer, Own, Frames
<1>1. CASE block
  <2>1. current = c /\ call[c] = q
    BY <1>1 DEF BufferHasOwner, OwnerCalls
  <2> QED
    BY <1>1, <2>1 DEF BufferHasOwner, BufferHoldsOwn
<1>2. CASE ~block
  <2>1. expect' = <<c, q>>
    BY <1>2
  <2>2. buff' \in Frames
    BY <1>2
  <2>3. repeats = 0 => Enable
    BY <1>2 DEF BufferFreeOnlyToRepeat
  <2> QED
    BY <1>2, <2>1, <2>2, <2>3
<1> QED
  BY <1>1, <1>2

\* A call that returns Processing before the request is on the line.
LEMMA ContinueKeepsIInv ==
  ASSUME NEW c \in Clients, NEW q \in Requests,
         IInv, Requesting(c, q), WriteBuffer(c, q), Continue(c, q),
         state \in {"BEGIN", "BEGIN_WRITE", "WRITE", "CLOSED"},
         state' \in {"BEGIN", "WRITE", "CLOSED"},
         isOpen' \in BOOLEAN, changed' \in BOOLEAN,
         UNCHANGED <<wire, sends>>
  PROVE  IInv'
<1>1. /\ expect' = <<c, q>>
      /\ buff' \in Frames
      /\ repeats = 0 /\ q \notin Overflow => buff' = <<c, q>>
  BY WriteBufferLoads
<1>2. /\ current' = c
      /\ block' = TRUE
      /\ call' = [call EXCEPT ![c] = q]
      /\ call'[c] = q
      /\ running /\ running'
      /\ UNCHANGED <<repeats, outcome>>
  BY DEF Continue, IInv, TypeOK, Requesting, Calls
<1>3. TypeOK'
  BY <1>1, <1>2 DEF IInv, TypeOK, States, Frames
<1>4. OwnerCalls' /\ BufferHasOwner' /\ BufferHoldsOwn' /\ BufferFreeOnlyToRepeat'
  BY <1>1, <1>2, ModbusClientPortAssumption
  DEF OwnerCalls, BufferHasOwner, BufferHoldsOwn, BufferFreeOnlyToRepeat, Own
<1>5. AwaitsOwnAnswer' /\ FreePortIsClean'
  BY <1>2, ModbusClientPortAssumption DEF AwaitsOwnAnswer, FreePortIsClean
<1>6. SendsCounted'
  BY <1>2 DEF IInv, SendsCounted, TypeOK
<1> QED
  BY <1>3, <1>4, <1>5, <1>6 DEF IInv

\* The end of a call: the port is free and clean.
LEMMA FinishKeepsIInv ==
  ASSUME NEW c \in Clients, NEW q \in Requests, NEW good \in BOOLEAN,
         IInv, Requesting(c, q), Finish(c, good),
         expect' \in Frames, buff' \in Frames,
         state' \in {"BEGIN", "BEGIN_WRITE", "CLOSED"},
         isOpen' \in BOOLEAN, changed' \in BOOLEAN
  PROVE  IInv'
<1> USE ModbusClientPortAssumption DEF Finish
<1>1. TypeOK'
  <2>1. outcome' \in [client : Clients \union {NoClient}, good : BOOLEAN]
    OBVIOUS
  <2>2. call' \in [Clients -> Requests \union {NoRequest}]
    BY DEF IInv, TypeOK
  <2>3. 0 \in 0..(RepeatCount - 1) /\ 0 \in 0..RepeatCount
    OBVIOUS
  <2> QED
    BY <2>1, <2>2, <2>3 DEF IInv, TypeOK, States, Frames
<1>2. OwnerCalls' /\ BufferHasOwner' /\ BufferHoldsOwn' /\ BufferFreeOnlyToRepeat'
  BY DEF OwnerCalls, BufferHasOwner, BufferHoldsOwn, BufferFreeOnlyToRepeat
<1>3. AwaitsOwnAnswer' /\ FreePortIsClean' /\ SendsCounted'
  BY DEF AwaitsOwnAnswer, FreePortIsClean, SendsCounted
<1> QED
  BY <1>1, <1>2, <1>3 DEF IInv

\* A failed attempt, to be repeated or not.
LEMMA FailKeepsIInv ==
  ASSUME NEW c \in Clients, NEW q \in Requests,
         IInv, Requesting(c, q), Fail(c, q),
         expect' \in Frames, buff' \in Frames,
         state' \in {"BEGIN", "BEGIN_WRITE", "CLOSED"},
         isOpen' \in BOOLEAN, changed' \in BOOLEAN
  PROVE  IInv'
<1>1. CASE Repeat(c, q)
  <2>1. /\ current' = c
        /\ block' = FALSE
        /\ call' = [call EXCEPT ![c] = q]
        /\ call'[c] = q
        /\ repeats' = repeats + 1
        /\ repeats' \in 0..(RepeatCount - 1)
        /\ UNCHANGED <<running, wire, sends, outcome>>
    BY <1>1, ModbusClientPortAssumption DEF Repeat, history, IInv, TypeOK
  <2>2. TypeOK'
    BY <2>1 DEF IInv, TypeOK, States, Frames
  <2>3. OwnerCalls' /\ BufferHasOwner' /\ BufferHoldsOwn' /\ BufferFreeOnlyToRepeat'
    BY <2>1 DEF OwnerCalls, BufferHasOwner, BufferHoldsOwn, BufferFreeOnlyToRepeat, IInv, TypeOK
  <2>4. AwaitsOwnAnswer' /\ FreePortIsClean'
    BY <2>1, ModbusClientPortAssumption DEF AwaitsOwnAnswer, FreePortIsClean
  <2>5. SendsCounted'
    BY <2>1 DEF IInv, SendsCounted, TypeOK
  <2> QED
    BY <2>2, <2>3, <2>4, <2>5 DEF IInv
<1>2. CASE Finish(c, FALSE)
  BY <1>2, FinishKeepsIInv
<1> QED
  BY <1>1, <1>2 DEF Fail

-----------------------------------------------------------------------------

\* The constructor establishes the invariant.
LEMMA InitIInv == Init => IInv
<1> SUFFICES ASSUME Init PROVE IInv
  OBVIOUS
<1> USE ModbusClientPortAssumption DEF Init
<1>1. TypeOK
  <2>1. outcome \in [client : Clients \union {NoClient}, good : BOOLEAN]
    OBVIOUS
  <2>2. call \in [Clients -> Requests \union {NoRequest}]
    OBVIOUS
  <2>3. 0 \in 0..(RepeatCount - 1) /\ 0 \in 0..RepeatCount
    OBVIOUS
  <2> QED
    BY <2>1, <2>2, <2>3 DEF TypeOK, States, Frames
<1>2. OwnerCalls /\ BufferHasOwner /\ BufferHoldsOwn /\ BufferFreeOnlyToRepeat
  BY DEF OwnerCalls, BufferHasOwner, BufferHoldsOwn, BufferFreeOnlyToRepeat
<1>3. AwaitsOwnAnswer /\ FreePortIsClean /\ SendsCounted
  BY DEF AwaitsOwnAnswer, FreePortIsClean, SendsCounted
<1> QED
  BY <1>1, <1>2, <1>3 DEF IInv

\* Every call of an API function, whatever the port answers, keeps it.
LEMMA CallKeepsIInv ==
  ASSUME NEW c \in Clients, NEW q \in Requests, IInv, ClientCall(c, q)
  PROVE  IInv'
<1> USE DEF AtWrite, Opens, Opening, GetsToWrite
<1>0. /\ state \in {"BEGIN", "BEGIN_WRITE", "WRITE", "BEGIN_READ", "CLOSED"}
      /\ isOpen \in BOOLEAN /\ changed \in BOOLEAN
      /\ expect \in Frames /\ buff \in Frames
      /\ <<c, q>> \in Frames /\ Junk \in Frames
  BY DEF IInv, TypeOK, States, Frames
<1>1. ASSUME Requesting(c, q), WriteBuffer(c, q), state # "BEGIN_READ"
      PROVE  expect' \in Frames /\ buff' \in Frames
  BY <1>0, <1>1, WriteBufferLoads
<1>2. CASE Wait(c, q)
  <2>1. /\ UNCHANGED <<state, current, repeats, block, expect, buff, isOpen, changed, running, wire, sends, outcome>>
        /\ call' = [call EXCEPT ![c] = q]
        /\ current # c
    BY <1>2 DEF Wait, Disable, Process, portVars, history
  <2>2. current \in Clients => call'[current] = call[current]
    BY <2>1 DEF IInv, TypeOK
  <2>3. TypeOK'
    BY <2>1 DEF IInv, TypeOK
  <2>4. OwnerCalls' /\ BufferHasOwner' /\ BufferHoldsOwn' /\ BufferFreeOnlyToRepeat'
    BY <2>1, <2>2 DEF IInv, TypeOK, OwnerCalls, BufferHasOwner, BufferHoldsOwn, BufferFreeOnlyToRepeat, Own
  <2>5. AwaitsOwnAnswer' /\ FreePortIsClean' /\ SendsCounted'
    BY <2>1, <2>2 DEF IInv, TypeOK, AwaitsOwnAnswer, FreePortIsClean, SendsCounted, Own
  <2> QED
    BY <2>3, <2>4, <2>5 DEF IInv
<1>3. CASE Reject(c, q)
  <2>1. /\ UNCHANGED <<state, current, repeats, block, expect, buff, isOpen, changed, running, wire, sends>>
        /\ call' = [call EXCEPT ![c] = NoRequest]
        /\ current = NoClient
        /\ outcome' = [client |-> c, good |-> FALSE]
    BY <1>3 DEF Reject, Enable, portVars
  <2>2. outcome' \in [client : Clients \union {NoClient}, good : BOOLEAN]
    BY <2>1
  <2>3. TypeOK'
    BY <2>1, <2>2 DEF IInv, TypeOK
  <2>4. OwnerCalls' /\ BufferHasOwner' /\ BufferHoldsOwn' /\ BufferFreeOnlyToRepeat'
    BY <2>1 DEF IInv, OwnerCalls, BufferHasOwner, BufferHoldsOwn, BufferFreeOnlyToRepeat
  <2>5. AwaitsOwnAnswer' /\ FreePortIsClean' /\ SendsCounted'
    BY <2>1 DEF IInv, AwaitsOwnAnswer, FreePortIsClean, SendsCounted
  <2> QED
    BY <2>3, <2>4, <2>5 DEF IInv
<1>4. CASE AwaitOpen(c, q)
  BY <1>4, <1>0, ContinueKeepsIInv DEF AwaitOpen
<1>5. CASE OpenFails(c, q)
  BY <1>5, <1>0, <1>1, FailKeepsIInv DEF OpenFails
<1>6. CASE Reopen(c, q)
  BY <1>6, <1>0, ContinueKeepsIInv DEF Reopen
<1>7. CASE AwaitWrite(c, q)
  BY <1>7, <1>0, ContinueKeepsIInv DEF AwaitWrite
<1>8. CASE WriteFails(c, q)
  BY <1>8, <1>0, <1>1, FailKeepsIInv DEF WriteFails
<1>9. CASE ReadFails(c, q)
  BY <1>9, <1>0, FailKeepsIInv DEF ReadFails
<1>10. CASE Answered(c, q)
  BY <1>10, <1>0, FinishKeepsIInv DEF Answered, Reads
<1>11. CASE Written(c, q)
  <2>1. /\ Requesting(c, q) /\ WriteBuffer(c, q) /\ Continue(c, q)
        /\ state # "BEGIN_READ" /\ state' = "BEGIN_READ"
        /\ isOpen' \in BOOLEAN /\ changed' \in BOOLEAN
        /\ wire' = buff' /\ sends' = sends + 1
    BY <1>11, <1>0 DEF Written
  <2>2. /\ expect' = <<c, q>>
        /\ buff' \in Frames
        /\ repeats = 0 /\ q \notin Overflow => buff' = <<c, q>>
    BY <2>1, WriteBufferLoads
  <2>3. /\ current' = c
        /\ block' = TRUE
        /\ call' = [call EXCEPT ![c] = q]
        /\ call'[c] = q
        /\ running /\ running'
        /\ UNCHANGED <<repeats, outcome>>
    BY <2>1 DEF Continue, IInv, TypeOK, Requesting, Calls
  <2>4. sends <= repeats /\ repeats + 1 <= RepeatCount
    BY <2>1, <2>3, ModbusClientPortAssumption DEF IInv, SendsCounted, TypeOK
  <2>5. sends' \in 0..RepeatCount /\ sends' <= repeats' + 1
    BY <2>1, <2>3, <2>4, ModbusClientPortAssumption DEF IInv, TypeOK
  <2>6. TypeOK'
    BY <2>1, <2>2, <2>3, <2>5 DEF IInv, TypeOK, States, Frames
  <2>7. OwnerCalls' /\ BufferHasOwner' /\ BufferHoldsOwn' /\ BufferFreeOnlyToRepeat'
    BY <2>1, <2>2, <2>3, ModbusClientPortAssumption
    DEF OwnerCalls, BufferHasOwner, BufferHoldsOwn, BufferFreeOnlyToRepeat, Own
  <2>8. AwaitsOwnAnswer' /\ FreePortIsClean'
    BY <2>1, <2>2, <2>3, ModbusClientPortAssumption DEF AwaitsOwnAnswer, FreePortIsClean, Own
  <2>9. SendsCounted'
    BY <2>1, <2>5 DEF SendsCounted
  <2> QED
    BY <2>6, <2>7, <2>8, <2>9 DEF IInv
<1>12. CASE AwaitRead(c, q)
  <2>1. /\ current = c /\ call[c] = q /\ block
    BY <1>12, ModbusClientPortAssumption
    DEF AwaitRead, Reads, Requesting, Calls, Enable, Process, IInv, AwaitsOwnAnswer, OwnerCalls
  <2>2. /\ UNCHANGED <<state, current, repeats, block, expect, isOpen, changed, running, wire, sends, outcome>>
        /\ buff' = Junk
        /\ state = "BEGIN_READ"
        /\ call' = call
    BY <1>12, <2>1 DEF AwaitRead, Reads, Continue, IInv, TypeOK
  <2>3. TypeOK'
    BY <1>0, <2>2 DEF IInv, TypeOK
  <2>4. OwnerCalls' /\ BufferHasOwner' /\ BufferHoldsOwn' /\ BufferFreeOnlyToRepeat'
    BY <2>2 DEF IInv, OwnerCalls, BufferHasOwner, BufferHoldsOwn, BufferFreeOnlyToRepeat, Own
  <2>5. AwaitsOwnAnswer' /\ FreePortIsClean' /\ SendsCounted'
    BY <2>2 DEF IInv, AwaitsOwnAnswer, FreePortIsClean, SendsCounted, Own
  <2> QED
    BY <2>3, <2>4, <2>5 DEF IInv
<1> QED
  BY <1>2, <1>3, <1>4, <1>5, <1>6, <1>7, <1>8, <1>9, <1>10, <1>11, <1>12 DEF ClientCall

\* So does everything else that happens.
LEMMA NextKeepsIInv == IInv /\ [Next]_vars => IInv'
<1> SUFFICES ASSUME IInv, [Next]_vars PROVE IInv'
  OBVIOUS
<1> USE DEF IInv, TypeOK, OwnerCalls, BufferHasOwner, BufferHoldsOwn, BufferFreeOnlyToRepeat,
        AwaitsOwnAnswer, FreePortIsClean, SendsCounted, Own
<1>1. ASSUME NEW c \in Clients, NEW q \in Requests, ClientCall(c, q)
      PROVE  IInv'
  BY <1>1, CallKeepsIInv
<1>2. CASE LineChanges
  BY <1>2 DEF LineChanges, history
<1>3. CASE SetSettings
  BY <1>3 DEF SetSettings, history
<1>4. CASE Close
  <2>1. Junk \in Frames /\ 0 \in 0..RepeatCount
    BY ModbusClientPortAssumption DEF Frames
  <2> QED
    BY <1>4, <2>1 DEF Close
<1>5. CASE UNCHANGED vars
  BY <1>5 DEF vars, portVars, history
<1> QED
  BY <1>1, <1>2, <1>3, <1>4, <1>5 DEF Next

THEOREM Invariance == Spec => []IInv
<1>1. Init => IInv
  BY InitIInv
<1>2. IInv /\ [Next]_vars => IInv'
  BY NextKeepsIInv
<1> QED
  BY <1>1, <1>2, PTL DEF Spec

\* Every field of the port keeps its type, and no request is put on the line
\* more often than RepeatCount times.
THEOREM TypeCorrect == Spec => []TypeOK
<1>1. IInv => TypeOK
  BY DEF IInv
<1> QED
  BY <1>1, Invariance, PTL

\* ClientPort never leaves the write buffer taken without an owner: a client
\* that is Enabled always gets its request into the buffer.
THEOREM BufferOwned == Spec => []BufferHasOwner
<1>1. IInv => BufferHasOwner
  BY DEF IInv
<1> QED
  BY <1>1, Invariance, PTL

\* A response is awaited only for the request of the client that holds the
\* port, and it is that request which was put on the line.
THEOREM ResponseAwaitedForOwner == Spec => []AwaitsOwnAnswer
<1>1. IInv => AwaitsOwnAnswer
  BY DEF IInv
<1> QED
  BY <1>1, Invariance, PTL

\* A client that takes a free port finds nothing left over by the one before.
THEOREM PortHandedOverClean == Spec => []FreePortIsClean
<1>1. IInv => FreePortIsClean
  BY DEF IInv
<1> QED
  BY <1>1, Invariance, PTL

\* Whatever the clients and the line do, buffer, line and counters belong to
\* the client that is served (ClientPort::request and getRequestStatus).
THEOREM PortOwned == Spec => []PortIsOwned
<1>1. IInv => PortIsOwned
  BY DEF IInv, PortIsOwned
<1> QED
  BY <1>1, Invariance, PTL

-----------------------------------------------------------------------------

\* The only call that reports Good is one whose response has just been read.
LEMMA GoodOnlyIfAnswered ==
  ASSUME IInv, [Next]_vars,
         NEW c \in Clients, call[c] # NoRequest, call'[c] = NoRequest, outcome'.good
  PROVE  /\ current = c
         /\ repeats = 0 /\ call[c] \notin Overflow => wire = <<c, call[c]>>
<1> USE ModbusClientPortAssumption
<1>1. ASSUME NEW d \in Clients, NEW q \in Requests, ClientCall(d, q)
      PROVE  /\ current = c
             /\ repeats = 0 /\ call[c] \notin Overflow => wire = <<c, call[c]>>
  <2>0. ~Fail(d, q)
    <3>1. ~Repeat(d, q)
      BY DEF Repeat, IInv, TypeOK
    <3>2. ~Finish(d, FALSE)
      BY DEF Finish
    <3> QED
      BY <3>1, <3>2 DEF Fail
  <2> USE DEF Continue, Finish, Requesting, Calls, IInv, TypeOK
  <2>1. CASE Wait(d, q)
    BY <2>1 DEF Wait
  <2>2. CASE Reject(d, q)
    BY <2>2 DEF Reject
  <2>3. CASE AwaitOpen(d, q) \/ Reopen(d, q)
    BY <2>3 DEF AwaitOpen, Reopen
  <2>4. CASE OpenFails(d, q)
    BY <2>4, <2>0 DEF OpenFails
  <2>5. CASE AwaitWrite(d, q) \/ Written(d, q)
    BY <2>5 DEF AwaitWrite, Written
  <2>6. CASE WriteFails(d, q)
    BY <2>6, <2>0 DEF WriteFails
  <2>7. CASE AwaitRead(d, q)
    BY <2>7 DEF AwaitRead
  <2>8. CASE ReadFails(d, q)
    BY <2>8, <2>0 DEF ReadFails
  <2>9. CASE Answered(d, q)
    <3>1. d = c /\ current = c
      BY <2>9 DEF Answered, Reads, AwaitsOwnAnswer, Enable, Process
    <3> QED
      BY <2>9, <3>1 DEF Answered, Reads, AwaitsOwnAnswer, Own
  <2> QED
    BY <1>1, <2>1, <2>2, <2>3, <2>4, <2>5, <2>6, <2>7, <2>8, <2>9 DEF ClientCall
<1>2. CASE LineChanges \/ SetSettings \/ Close \/ UNCHANGED vars
  BY <1>2 DEF LineChanges, SetSettings, Close, vars
<1> QED
  BY <1>1, <1>2 DEF Next

\* A client is told Good only about its own request: the one that is on the
\* line, unless it overflowed the buffer or is a repetition.
THEOREM GoodForOwnRequest == Spec => GoodIsForOwnRequest
<1>1. IInv /\ [Next]_vars =>
         [\A c \in Clients :
            /\ call'[c] = NoRequest /\ call[c] # NoRequest
            /\ outcome'.good
            => /\ current = c
               /\ repeats = 0 /\ call[c] \notin Overflow => wire = <<c, call[c]>>]_vars
  BY GoodOnlyIfAnswered
<1> QED
  BY <1>1, Invariance, PTL DEF Spec, GoodIsForOwnRequest

-----------------------------------------------------------------------------
(* ModbusClientPort implements RequestChannel                              *)

\* A failed attempt keeps the line for a repetition or gives it back.
LEMMA FailRefines ==
  ASSUME NEW c \in Clients, NEW q \in Requests,
         IInv, Requesting(c, q), Fail(c, q), state' # "BEGIN_READ"
  PROVE  Channel!Hold(c) \/ Channel!Return(c, FALSE)
<1> USE DEF Channel!Hold, Channel!Return, Requesting, Calls, Enable, Process
<1>1. CASE Repeat(c, q)
  BY <1>1 DEF Repeat, history
<1>2. CASE Finish(c, FALSE)
  BY <1>2 DEF Finish
<1> QED
  BY <1>1, <1>2 DEF Fail

LEMMA CallRefines ==
  ASSUME NEW c \in Clients, NEW q \in Requests, IInv, ClientCall(c, q)
  PROVE  [Channel!Next]_(Channel!chan)
<1> USE DEF Requesting, Calls, Enable, Process
<1>0. Opens => Opening # "BEGIN_READ" /\ state # "BEGIN_READ"
  BY DEF Opening, AtWrite, Opens
<1>1. ASSUME Channel!Hold(c) \/ Channel!Send(c) \/ \E good \in BOOLEAN : Channel!Return(c, good)
      PROVE  Channel!Next
  BY <1>1 DEF Channel!Next
<1>2. ASSUME Requesting(c, q), Fail(c, q), state' # "BEGIN_READ"
      PROVE  Channel!Next
  BY <1>1, <1>2, FailRefines
<1>3. CASE Wait(c, q)
  BY <1>3 DEF Wait, portVars, history, Channel!chan
<1>4. CASE Reject(c, q)
  <2>1. Channel!Return(c, FALSE)
    BY <1>4 DEF Reject, portVars, IInv, FreePortIsClean, Channel!Return
  <2> QED
    BY <1>1, <2>1
<1>5. CASE AwaitOpen(c, q)
  <2>1. Channel!Hold(c)
    BY <1>5, <1>0 DEF AwaitOpen, Continue, Channel!Hold
  <2> QED
    BY <1>1, <2>1
<1>6. CASE OpenFails(c, q)
  BY <1>6, <1>0, <1>2 DEF OpenFails
<1>7. CASE Reopen(c, q)
  <2>1. Channel!Hold(c)
    BY <1>7 DEF Reopen, Continue, Channel!Hold
  <2> QED
    BY <1>1, <2>1
<1>8. CASE AwaitWrite(c, q)
  <2>1. Channel!Hold(c)
    BY <1>8 DEF AwaitWrite, Continue, Channel!Hold
  <2> QED
    BY <1>1, <2>1
<1>9. CASE Written(c, q)
  <2>1. state # "BEGIN_READ"
    BY <1>9, <1>0 DEF Written, GetsToWrite, AtWrite
  <2>2. sends <= repeats /\ repeats < RepeatCount
    BY <1>9, <2>1, ModbusClientPortAssumption DEF Written, IInv, SendsCounted, TypeOK
  <2>3. sends < RepeatCount
    BY <2>2, ModbusClientPortAssumption DEF IInv, TypeOK
  <2>4. Channel!Send(c)
    BY <1>9, <2>1, <2>3 DEF Written, Continue, Channel!Send
  <2> QED
    BY <1>1, <2>4
<1>10. CASE WriteFails(c, q)
  BY <1>10, <1>2 DEF WriteFails
<1>11. CASE AwaitRead(c, q)
  <2>1. current = c
    BY <1>11 DEF AwaitRead, Reads, IInv, AwaitsOwnAnswer
  <2> QED
    BY <1>11, <2>1 DEF AwaitRead, Reads, Continue, Channel!chan
<1>12. CASE ReadFails(c, q)
  BY <1>12, <1>2 DEF ReadFails
<1>13. CASE Answered(c, q)
  <2>1. PICK good \in BOOLEAN : Finish(c, good)
    BY <1>13 DEF Answered
  <2>2. current = c /\ state = "BEGIN_READ"
    BY <1>13 DEF Answered, Reads, IInv, AwaitsOwnAnswer
  <2>3. Channel!Return(c, good)
    BY <1>13, <2>1, <2>2 DEF Answered, Reads, Finish, Channel!Return
  <2> QED
    BY <1>1, <2>3
<1> QED
  BY <1>3, <1>4, <1>5, <1>6, <1>7, <1>8, <1>9, <1>10, <1>11, <1>12, <1>13 DEF ClientCall

\* The port keeps the promise of RequestChannel: one client's request at a
\* time, sent at most RepeatCount times, Good only while it is on the line.
THEOREM ImplementsRequestChannel == Spec => ChannelSpec
<1>1. Init => Channel!Init
  BY DEF Init, Channel!Init
<1>2. IInv /\ [Next]_vars => [Channel!Next]_(Channel!chan)
  <2> SUFFICES ASSUME IInv, [Next]_vars PROVE [Channel!Next]_(Channel!chan)
    OBVIOUS
  <2>1. ASSUME NEW c \in Clients, NEW q \in Requests, ClientCall(c, q)
        PROVE  [Channel!Next]_(Channel!chan)
    BY <2>1, CallRefines
  <2>2. CASE LineChanges \/ SetSettings \/ UNCHANGED vars
    BY <2>2 DEF LineChanges, SetSettings, vars, portVars, history, Channel!chan
  <2>3. CASE Close
    BY <2>3 DEF Close, Channel!Next, Channel!Abort
  <2> QED
    BY <2>1, <2>2, <2>3 DEF Next
<1> QED
  BY <1>1, <1>2, Invariance, PTL DEF Spec, ChannelSpec, Channel!Spec
=============================================================================
