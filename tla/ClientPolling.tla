--------------------------- MODULE ClientPolling ----------------------------
(***************************************************************************)
(* The polling of the devices of one client port: mbClientPortRunnable and *)
(* mbClientDeviceRunnable, the queues of mbClientRunDevice, the start and  *)
(* stop of the runtime as they see it, and the "Send Message" dialog.      *)
(*                                                                         *)
(* The port thread calls run() of each device in turn.  A device executes  *)
(* one message at a time: a message sent from the dialog before a write,   *)
(* a write before a read that is due.  The port below is RequestChannel,   *)
(* which ModbusClientPort implements.  The GUI thread acts between two     *)
(* run() calls; each queue is changed under the device's lock.             *)
(***************************************************************************)
EXTENDS Naturals, Sequences

CONSTANTS
    N,              \* number of devices, in the order of m_runnables
    ReadsOf,        \* the read messages of each device, in creation order
    NoMessage,      \* nullptr
    WriteMessage,   \* any message of m_writeMessages, once it is current
    MaxTries,       \* see RequestChannel
    MaxSent,        \* bound: messages created by the dialog
    MaxWrites,      \* bound: values written by the user
    MaxStops        \* bound: restarts of the runtime

Devices == 1..N
NoDevice == 0
Sent == 1..MaxSent
Reads == UNION {{ReadsOf[d][i] : i \in 1..Len(ReadsOf[d])} : d \in Devices}

ASSUME ClientPollingAssumption ==
    /\ N \in Nat \ {0}
    /\ MaxTries \in Nat
    /\ MaxSent \in Nat /\ MaxWrites \in Nat /\ MaxStops \in Nat
    /\ ReadsOf \in [Devices -> Seq(Reads)]
    /\ NoMessage # WriteMessage
    /\ {NoMessage, WriteMessage} \intersect (Sent \union Reads) = {}
    /\ Reads \intersect Sent = {}

VARIABLES
    owner, onLine, tries, outcome,  \* the channel
    turn,       \* the device whose run() is called next
    state,      \* mbClientDeviceRunnable::m_state
    message,    \* m_currentMessage
    external,   \* mbClientRunDevice::m_externalMessages
    toWrite,    \* how many items m_itemsToWrite holds
    writes,     \* how many messages m_writeMessages holds
    reads,      \* m_readMessages
    due,        \* the read messages whose period has elapsed
    runtime,    \* "started"; "stopping" until the thread has ended; "stopped"
    dialog,     \* m_message of the dialog
    target,     \* the device chosen in the dialog
    timer,      \* the dialog sends periodically
    completed,  \* the sent messages with m_isCompleted
    created, written, stops     \* what the bounds count

channel == <<owner, onLine, tries, outcome>>
\* the queues other threads push to, and what only the port thread touches
queues == <<external, toWrite>>
private == <<turn, state, message, writes, reads>>
vars == <<channel, queues, private, due, runtime, dialog, target, timer,
          completed, created, written, stops>>

Channel == INSTANCE RequestChannel WITH Clients <- Devices, NoClient <- NoDevice

\* A read message is due at once: its timestamp is 0.
Init ==
    /\ Channel!Init
    /\ turn = 1
    /\ state = [d \in Devices |-> "PAUSE"]
    /\ message = [d \in Devices |-> NoMessage]
    /\ external = [d \in Devices |-> <<>>]
    /\ toWrite = [d \in Devices |-> 0]
    /\ writes = [d \in Devices |-> 0]
    /\ reads = ReadsOf
    /\ due = Reads
    /\ runtime = "started"
    /\ dialog = NoMessage
    /\ target = 1
    /\ timer = FALSE
    /\ completed = {}
    /\ created = 0 /\ written = 0 /\ stops = 0

-----------------------------------------------------------------------------
(* One run() of a device, on the port thread                               *)

\* The call of the API function ends with Processing.
Waits(d) ==
    \/ owner \notin {NoDevice, d} /\ UNCHANGED channel
    \/ Channel!Hold(d)
    \/ Channel!Send(d)

\* A message completed only when its call was Good.
Completes_OnlyGood(d, m) ==
    /\ \E good \in BOOLEAN :
          /\ Channel!Return(d, good)
          /\ completed' = IF good /\ m \in Sent THEN completed \union {m} ELSE completed
    /\ due' = due \ {m}

\* The call returned: setComplete marks a sent message completed and stamps
\* a read message, which is due again a period later.
Completes(d, m) ==
    /\ \E good \in BOOLEAN : Channel!Return(d, good)
    /\ completed' = IF m \in Sent THEN completed \union {m} ELSE completed
    /\ due' = due \ {m}

\* run() calls the API function for message m once.  A device that finishes
\* a message stays paused until its next run().
Execute(d, s, m) ==
    \/ /\ Waits(d)
       /\ state' = [state EXCEPT ![d] = s]
       /\ message' = [message EXCEPT ![d] = m]
       /\ UNCHANGED <<due, completed>>
    \/ /\ Completes(d, m)
       /\ state' = [state EXCEPT ![d] = "PAUSE"]
       /\ message' = [message EXCEPT ![d] = NoMessage]

\* createWriteMessage: an item joins a queued message, or gets one of its
\* own, or is dropped when its memory cannot be written.
ToWrite(d) == writes[d]..(writes[d] + toWrite[d])

GoOn(d) ==
    /\ state[d] # "PAUSE"
    /\ \E w \in ToWrite(d) : writes' = [writes EXCEPT ![d] = w]
    /\ Execute(d, state[d], message[d])
    /\ UNCHANGED <<external, reads>>

StartExternal(d) ==
    /\ state[d] = "PAUSE"
    /\ external[d] # <<>>
    /\ external' = [external EXCEPT ![d] = Tail(@)]
    /\ \E w \in ToWrite(d) : writes' = [writes EXCEPT ![d] = w]
    /\ Execute(d, "EXEC_EXTERNAL", Head(external[d]))
    /\ UNCHANGED reads


StartWrite(d) ==
    /\ state[d] = "PAUSE"
    /\ external[d] = <<>>
    /\ \E w \in ToWrite(d) \ {0} : writes' = [writes EXCEPT ![d] = w - 1]
    /\ Execute(d, "EXEC_WRITE", WriteMessage)
    /\ UNCHANGED <<external, reads>>

\* hasReadMessageOnDuty takes the first read message that is due and moves
\* it to the back of the queue.
OnDuty(d, i) ==
    /\ reads[d][i] \in due
    /\ \A j \in 1..(i - 1) : reads[d][j] \notin due

\* A message taken from the queue and never put back; one that stays in front.
Rotated_Lost(s, i) == SubSeq(s, 1, i - 1) \o SubSeq(s, i + 1, Len(s))

Rotated(s, i) == SubSeq(s, 1, i - 1) \o SubSeq(s, i + 1, Len(s)) \o <<s[i]>>

StartRead(d) ==
    /\ state[d] = "PAUSE"
    /\ external[d] = <<>>
    /\ 0 \in ToWrite(d)
    /\ writes' = [writes EXCEPT ![d] = 0]
    /\ \E i \in 1..Len(reads[d]) :
          /\ OnDuty(d, i)
          /\ reads' = [reads EXCEPT ![d] = Rotated(@, i)]
          /\ Execute(d, "EXEC_READ", reads[d][i])
    /\ UNCHANGED external

Idle(d) ==
    /\ state[d] = "PAUSE"
    /\ external[d] = <<>>
    /\ 0 \in ToWrite(d)
    /\ writes' = [writes EXCEPT ![d] = 0]
    /\ \A i \in 1..Len(reads[d]) : reads[d][i] \notin due
    /\ UNCHANGED <<channel, state, message, external, reads, due, completed>>

Works(d) ==
    \/ GoOn(d)
    \/ StartExternal(d)
    \/ StartWrite(d)
    \/ StartRead(d)
    \/ Idle(d)

\* A device that looks for its next message as soon as one is finished.
Run_Again(d) ==
    /\ runtime # "stopped"
    /\ turn = d
    /\ Works(d)
    /\ turn' = IF state[d] # "PAUSE" /\ state'[d] = "PAUSE" THEN turn ELSE (turn % N) + 1
    /\ toWrite' = [toWrite EXCEPT ![d] = 0]
    /\ UNCHANGED <<runtime, dialog, target, timer, created, written, stops>>

Run(d) ==
    /\ runtime # "stopped"
    /\ turn = d
    /\ Works(d)
    /\ turn' = (turn % N) + 1
    /\ toWrite' = [toWrite EXCEPT ![d] = 0]
    /\ UNCHANGED <<runtime, dialog, target, timer, created, written, stops>>

\* The period of a read message elapses.
PeriodElapses(m) ==
    /\ m \notin due
    /\ due' = due \union {m}
    /\ UNCHANGED <<channel, queues, private, runtime, dialog, target, timer,
                   completed, created, written, stops>>

-----------------------------------------------------------------------------
(* The GUI thread                                                          *)


\* mbClientRuntime::sendMessage.  A stopped runtime knows no devices.
SendMessage(d, m, before) ==
    IF runtime = "stopped"
    THEN /\ completed' = before \union {m}
         /\ UNCHANGED external
    ELSE /\ external' = [external EXCEPT ![d] = Append(@, m)]
         /\ completed' = before

\* The buttons that send are disabled while the dialog sends periodically.
SendOne(d, periodically) ==
    /\ ~timer
    /\ created < MaxSent
    /\ created' = created + 1
    /\ target' = d
    /\ dialog' = created'
    /\ timer' = periodically
    /\ SendMessage(d, created', completed)
    /\ UNCHANGED <<channel, toWrite, private, due, runtime, written, stops>>

\* A timer that sends without looking whether the message is back.
TimerEvent_Blind ==
    /\ timer
    /\ SendMessage(target, dialog, completed \ {dialog})
    /\ UNCHANGED <<channel, toWrite, private, due, runtime, dialog, target, timer,
                   created, written, stops>>

TimerEvent ==
    /\ timer
    /\ dialog \in completed
    /\ SendMessage(target, dialog, completed \ {dialog})
    /\ UNCHANGED <<channel, toWrite, private, due, runtime, dialog, target, timer,
                   created, written, stops>>

StopSending ==
    /\ timer
    /\ timer' = FALSE
    /\ UNCHANGED <<channel, queues, private, due, runtime, dialog, target,
                   completed, created, written, stops>>

WriteItemData(d) ==
    /\ runtime # "stopped"
    /\ written < MaxWrites
    /\ written' = written + 1
    /\ toWrite' = [toWrite EXCEPT ![d] = @ + 1]
    /\ UNCHANGED <<channel, external, private, due, runtime, dialog, target, timer,
                   completed, created, stops>>

\* stop() tells the thread to end after its round and lets the GUI go on.
BeginStop ==
    /\ runtime = "started"
    /\ stops < MaxStops
    /\ stops' = stops + 1
    /\ runtime' = "stopping"
    /\ UNCHANGED <<channel, queues, private, due, dialog, target, timer,
                   completed, created, written>>

\* The thread has ended: it closed the port, and its objects are deleted with
\* what their queues held.  createComponents builds them anew.
Rebuilt ==
    /\ runtime = "stopping"
    /\ turn = 1
    /\ runtime' = "stopped"
    /\ turn' = 1
    /\ state' = [d \in Devices |-> "PAUSE"]
    /\ message' = [d \in Devices |-> NoMessage]
    /\ external' = [d \in Devices |-> <<>>]
    /\ toWrite' = [d \in Devices |-> 0]
    /\ writes' = [d \in Devices |-> 0]
    /\ reads' = ReadsOf
    /\ due' = Reads
    /\ UNCHANGED <<dialog, target, timer, completed, created, written, stops>>

\* A port that outlives the clients it served.
ClearComponents_PortKept == Rebuilt /\ UNCHANGED channel

ClearComponents == Rebuilt /\ Channel!Abort

Start ==
    /\ runtime = "stopped"
    /\ runtime' = "started"
    /\ UNCHANGED <<channel, queues, private, due, dialog, target, timer,
                   completed, created, written, stops>>

Next ==
    \/ \E d \in Devices :
          \/ Run(d)
          \/ \E periodically \in BOOLEAN : SendOne(d, periodically)
          \/ WriteItemData(d)
    \/ \E m \in Reads : PeriodElapses(m)
    \/ TimerEvent
    \/ StopSending
    \/ BeginStop
    \/ ClearComponents
    \/ Start

\* The port thread runs the devices in turn; the timer of the dialog and the
\* periods elapse; the call of a device that has the port ends, by an answer
\* or by a timeout.
CallEnds(d) == Run(d) /\ owner = d /\ state'[d] = "PAUSE"

Fairness ==
    /\ WF_vars(\E d \in Devices : Run(d))
    /\ \A d \in Devices : SF_vars(CallEnds(d))
    /\ WF_vars(TimerEvent)
    /\ \A m \in Reads : WF_vars(PeriodElapses(m))

Spec == Init /\ [][Next]_vars
FairSpec == Spec /\ Fairness

-----------------------------------------------------------------------------
(* Properties                                                              *)

Elements(s) == {s[i] : i \in 1..Len(s)}

\* Every field keeps its type, and no read message is lost from its queue or
\* queued twice.
TypeOK ==
    /\ Channel!TypeOK
    /\ turn \in Devices
    /\ state \in [Devices -> {"PAUSE", "EXEC_EXTERNAL", "EXEC_WRITE", "EXEC_READ"}]
    /\ message \in [Devices -> Sent \union Reads \union {NoMessage, WriteMessage}]
    /\ external \in [Devices -> Seq(Sent)]
    /\ toWrite \in [Devices -> 0..MaxWrites]
    /\ writes \in [Devices -> 0..MaxWrites]
    /\ reads \in [Devices -> Seq(Reads)]
    /\ \A d \in Devices : /\ Len(reads[d]) = Len(ReadsOf[d])
                          /\ Elements(reads[d]) = Elements(ReadsOf[d])
    /\ due \subseteq Reads
    /\ runtime \in {"started", "stopping", "stopped"}
    /\ dialog \in Sent \union {NoMessage}
    /\ target \in Devices
    /\ timer \in BOOLEAN
    /\ completed \subseteq Sent

\* The sent messages device d holds: the one it executes, then the queue.
Held(d) ==
    (IF state[d] = "EXEC_EXTERNAL" THEN <<message[d]>> ELSE <<>>) \o external[d]

\* The dialog and the devices share one message object: it is held by one
\* device at one place at most, and while it is held it is not completed,
\* so the timer never sends again what is still on its way.
MessageInOnePlace ==
    /\ \A d, e \in Devices : d # e => Elements(Held(d)) \intersect Elements(Held(e)) = {}
    /\ \A d \in Devices : \A i, j \in 1..Len(Held(d)) : i # j => Held(d)[i] # Held(d)[j]
    /\ \A d \in Devices : Elements(Held(d)) \intersect completed = {}

\* A device executes the messages sent to it in the order of their creation,
\* through stops, restarts and a timer that sends one message again and again.
SentInOrder ==
    \A d \in Devices : \A i, j \in 1..Len(Held(d)) : i < j => Held(d)[i] < Held(d)[j]

\* The messages of the dialog are executed once each, and in order.
SentOnceInOrder == MessageInOnePlace /\ SentInOrder

\* The port belongs to a device that is executing a message: a device that
\* gave up its message while it had the port would block all others.
OwnerIsExecuting == owner # NoDevice => state[owner] # "PAUSE"

\* A message sent from the dialog is completed, unless the runtime is stopped
\* under it.
SentCompletes ==
    \A m \in Sent : \A d \in Devices :
        (m \in Elements(Held(d))) ~> (m \in completed \/ runtime # "started")

\* Every read that is due is executed, and every value written is sent, once
\* the dialog stops sending periodically; while it sends, a fast timer may
\* keep its device from both.
ReadsServed ==
    <>[](runtime = "started" /\ ~timer) => \A m \in Reads : (m \in due) ~> (m \notin due)
WritesServed ==
    <>[](runtime = "started" /\ ~timer) =>
        \A d \in Devices : (writes[d] + toWrite[d] > 0) ~> (writes[d] + toWrite[d] = 0)

\* Nobody waits for ever: neither the dialog, nor an item, nor the user.
Served == SentCompletes /\ ReadsServed /\ WritesServed

-----------------------------------------------------------------------------
(* The inductive invariant of ClientPolling_proofs                         *)

\* The state says whether a device executes a message, and of which kind.
MessageFitsState ==
    \A d \in Devices : /\ state[d] = "PAUSE" <=> message[d] = NoMessage
                       /\ state[d] = "EXEC_EXTERNAL" <=> message[d] \in Sent

\* The timer sends the newest message, so it can join the end of any queue.
DialogIsNewest ==
    /\ created \in 0..MaxSent
    /\ dialog # NoMessage => dialog = created
    /\ timer => dialog # NoMessage

HeldWereCreated ==
    /\ completed \subseteq 1..created
    /\ \A d \in Devices : Elements(Held(d)) \subseteq 1..created

\* A device has no more to write than the user wrote.
WritesCounted ==
    /\ written \in 0..MaxWrites
    /\ \A d \in Devices : writes[d] + toWrite[d] <= written

IInv ==
    /\ TypeOK
    /\ MessageInOnePlace
    /\ SentInOrder
    /\ OwnerIsExecuting
    /\ MessageFitsState
    /\ DialogIsNewest
    /\ HeldWereCreated
    /\ WritesCounted
=============================================================================
