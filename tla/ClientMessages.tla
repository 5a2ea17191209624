---------------------------- MODULE ClientMessages ----------------------------
(***************************************************************************)
(* The messages a device of the client makes of its items                  *)
(* (src/client/runtime/client_runmessage.cpp, client_runitem.cpp,          *)
(* client_rundevice.cpp and client_devicerunnable.cpp).                    *)
(*                                                                         *)
(* An item of a data view is a range of addresses.  When the runtime       *)
(* starts, the items to read are put in messages, neighbours sharing one;  *)
(* what the user edits becomes an item to write, and the items that wait   *)
(* are put in messages the same way.  The thread of the port executes one  *)
(* message at a time, writes first.  ClientPolling has the order of the    *)
(* messages; this module has their ranges and their data: which addresses  *)
(* a request covers and what the items make of its buffer.                 *)
(*                                                                         *)
(* The n-th edit of the user writes the value n to all registers of its    *)
(* item, so that values tell older edits from newer ones.                  *)
(***************************************************************************)
EXTENDS Sequences, FiniteSetsExt

CONSTANTS
    Views,      \* the data view items: records [offset, count, period]
    Writable,   \* those the user edits
    Size,       \* the addresses are 0 .. Size - 1; offsets have 16 bits in the code
    MaxCount,   \* the device's maxWriteCount, the limit of every message
    BuffSize,   \* the registers m_buff has room for
    MaxWrites,  \* bound: the edits of the user
    None, Failed   \* no message or no answer yet; a request that failed

ASSUME ViewsAssumption ==
    /\ IsFiniteSet(Views) /\ Views \subseteq [offset : Nat, count : Nat \ {0}, period : Nat]
    /\ Writable \subseteq Views
    /\ Size \in Nat /\ MaxCount \in Nat /\ BuffSize \in Nat /\ MaxWrites \in Nat
    /\ \A v \in Views : v.offset + v.count <= Size
    /\ None # Failed /\ {None, Failed} \intersect [0 .. Size - 1 -> 0 .. MaxWrites] = {}

VARIABLES
    memory,         \* the registers of the remote device
    itemsToWrite,   \* m_itemsToWrite of mbClientRunDevice, filled by the GUI
    readMessages,   \* m_readMessages of the runnable, the next one first
    writeMessages,  \* m_writeMessages
    state,          \* m_state: "PAUSE", "EXEC_WRITE" or "EXEC_READ"
    current,        \* m_currentMessage and its buffer, None in the pause
    answer,         \* the device's memory as its answer saw it, Failed, or None
    shown,          \* m_value and m_status of each data view item
    asked,          \* all edits of the user, in order
    lost            \* the edits whose request has failed

vars == <<memory, itemsToWrite, readMessages, writeMessages, state, current,
          answer, shown, asked, lost>>

Addresses == 0 .. Size - 1
Numbers(messages) == {messages[i].data : i \in DOMAIN messages}
RangeOf(x) == x.offset .. (x.offset + x.count - 1)
-----------------------------------------------------------------------------
(* mbClientRunMessage: its constructor and addItem.  nextItemOffset is a   *)
(* 16-bit number.                                                          *)

NewMessage_Whole(item) == [offset |-> item.offset, count |-> MaxCount,
                           period |-> item.period, items |-> <<item>>]

NewMessage(item) == [offset |-> item.offset, count |-> item.count,
                     period |-> item.period, items |-> <<item>>]

NextOffset(item) == (item.offset + item.count) % Size

ToEnd(m, item) == /\ item.offset >= m.offset
                  /\ NextOffset(item) <= m.offset + MaxCount

FromBegin_Room(m, item) == item.offset < m.offset

FromBegin(m, item) == /\ item.offset < m.offset
                      /\ item.offset + MaxCount >= m.offset + m.count

Accepts(m, item) == /\ item.period = m.period
                    /\ ToEnd(m, item) \/ FromBegin(m, item)

\* The range of the message after it has taken an item it accepts.
Extend_CountKept(m, item) ==
    [m EXCEPT !.offset = IF item.offset < @ THEN item.offset ELSE @,
              !.count = IF NextOffset(item) >= m.offset + @ /\ item.offset >= m.offset
                          THEN NextOffset(item) - m.offset
                          ELSE @,
              !.items = Append(@, item)]

Extend(m, item) ==
    [m EXCEPT !.offset = IF ToEnd(m, item) THEN @ ELSE item.offset,
              !.count = IF ~ToEnd(m, item) THEN @ + (m.offset - item.offset)
                        ELSE IF NextOffset(item) >= m.offset + @
                               THEN NextOffset(item) - m.offset
                               ELSE @,
              !.items = Append(@, item)]

\* createReadMessages and createWriteMessage: the first message that accepts
\* an item takes it, or else it gets one of its own.

AddItem(messages, item) ==
    LET willing == {i \in DOMAIN messages : Accepts(messages[i], item)}
    IN  IF willing = {}
          THEN Append(messages, NewMessage(item))
          ELSE [messages EXCEPT ![Min(willing)] = Extend(@, item)]

AddItems(messages, items) ==
    LET added[n \in 0 .. Len(items)] ==
            IF n = 0 THEN messages ELSE AddItem(added[n - 1], items[n])
    IN  added[Len(items)]
-----------------------------------------------------------------------------
(* The buffer of a message: get_regs and set_regs, which cut off what does *)
(* not fit, with inner offsets of 16 bits.                                 *)

Buffer == [0 .. BuffSize - 1 -> 0 .. MaxWrites]
Inner(m, item) == (item.offset + Size - m.offset) % Size

\* The items of m whose data have a part in register r of the buffer.
Covering(m, r) ==
    {i \in DOMAIN m.items :
        r \in Inner(m, m.items[i]) .. (Inner(m, m.items[i]) + m.items[i].count - 1)}

Prepared_Reversed(m) ==
    [r \in 0 .. BuffSize - 1 |->
        IF Covering(m, r) = {} THEN 0 ELSE m.items[Min(Covering(m, r))].data]

\* prepareToSend: a new message's buffer is zero, and each item of a message to
\* write puts its data into it, over what the items before it have put there.
Prepared(m) ==
    [r \in 0 .. BuffSize - 1 |->
        IF Covering(m, r) = {} THEN 0 ELSE m.items[Max(Covering(m, r))].data]

\* An item whose data could not be read keeps them with a bad status.
Bad(old) == [good |-> FALSE, data |-> old.data]

\* readDataFromMessage: what the item shows next.
Shows(m, buff, item, old) ==
    IF Inner(m, item) >= BuffSize
      THEN Bad(old)
      ELSE [good |-> TRUE,
            data |-> [r \in 1 .. item.count |->
                        IF Inner(m, item) + r - 1 < BuffSize
                          THEN buff[Inner(m, item) + r - 1] ELSE old.data[r]]]
-----------------------------------------------------------------------------
ReadItem(v) == [offset |-> v.offset, count |-> v.count, period |-> v.period, data |-> 0]
WriteItem(v, n) == [offset |-> v.offset, count |-> v.count, period |-> 0, data |-> n]

Init ==
    /\ memory = [a \in Addresses |-> 0]
    /\ \E order \in [1 .. Cardinality(Views) -> Views] :
         /\ Range(order) = Views
         /\ readMessages = AddItems(<< >>, [i \in DOMAIN order |-> ReadItem(order[i])])
    /\ itemsToWrite = << >> /\ writeMessages = << >>
    /\ state = "PAUSE" /\ current = None /\ answer = None
    /\ shown = [v \in Views |-> [good |-> FALSE, data |-> [r \in 1 .. v.count |-> 0]]]
    /\ asked = << >> /\ lost = {}

\* The GUI: mbClientDataViewItem::setValue, writeItemData and pushItemToWrite.
Edit(v) ==
    /\ Len(asked) < MaxWrites
    /\ asked' = Append(asked, WriteItem(v, Len(asked) + 1))
    /\ itemsToWrite' = Append(itemsToWrite, WriteItem(v, Len(asked) + 1))
    /\ UNCHANGED <<memory, readMessages, writeMessages, state, current, answer, shown, lost>>

\* run(): the items that wait are put in messages, at every call.
CreateWriteMessage == AddItems(writeMessages, itemsToWrite)

StartWrite(queue) ==
    /\ state = "PAUSE" /\ queue # << >>
    /\ state' = "EXEC_WRITE"
    /\ current' = [message |-> Head(queue), buff |-> Prepared(Head(queue))]
    /\ writeMessages' = Tail(queue)
    /\ UNCHANGED readMessages

\* The one at i goes to the back.
ToBack(messages, i) ==
    [j \in DOMAIN messages |->
        IF j < i THEN messages[j]
        ELSE IF j < Len(messages) THEN messages[j + 1] ELSE messages[i]]

\* hasReadMessageOnDuty: the first whose period is over, which goes to the back.
\* Time is left out, so that any message may be the one.
StartRead(queue) ==
    /\ state = "PAUSE" /\ queue = << >>
    /\ state' = "EXEC_READ"
    /\ \E i \in DOMAIN readMessages :
         /\ current' = [message |-> readMessages[i], buff |-> [r \in 0 .. BuffSize - 1 |-> 0]]
         /\ readMessages' = ToBack(readMessages, i)
    /\ writeMessages' = queue

\* run() while a request is under way, or while no message is due.
Wait(queue) ==
    /\ state # "PAUSE" \/ queue = << >>
    /\ writeMessages' = queue
    /\ UNCHANGED <<readMessages, state, current>>

Run ==
    /\ \/ StartWrite(CreateWriteMessage)
       \/ StartRead(CreateWriteMessage)
       \/ Wait(CreateWriteMessage)
    /\ itemsToWrite' = << >>
    /\ UNCHANGED <<memory, answer, shown, asked, lost>>

\* The remote device carries the request out and answers, or its answer is lost.
Carry ==
    /\ state # "PAUSE" /\ answer = None
    /\ memory' = IF state = "EXEC_WRITE"
                   THEN [a \in Addresses |->
                           IF a \in RangeOf(current.message)
                             THEN current.buff[a - current.message.offset] ELSE memory[a]]
                   ELSE memory
    /\ answer' \in {memory', Failed}
    /\ UNCHANGED <<itemsToWrite, readMessages, writeMessages, state, current, shown, asked, lost>>

\* The request never arrives.
Miss ==
    /\ state # "PAUSE" /\ answer = None
    /\ answer' = Failed
    /\ UNCHANGED <<memory, itemsToWrite, readMessages, writeMessages, state, current, shown, asked, lost>>

HasItem(m, v) == \E i \in DOMAIN m.items : m.items[i] = ReadItem(v)

\* execReadMessage, setComplete and readDataFromMessage: the answer is put in
\* the buffer, and each item takes its part of it.
FinishRead ==
    LET m == current.message
        buff == [r \in DOMAIN current.buff |->
                   IF r < m.count THEN answer[m.offset + r] ELSE current.buff[r]]
    IN  /\ state = "EXEC_READ"
        /\ shown' = [v \in Views |->
              IF ~HasItem(m, v) THEN shown[v]
              ELSE IF answer = Failed THEN Bad(shown[v])
              ELSE Shows(m, buff, ReadItem(v), shown[v])]
        /\ UNCHANGED lost

\* execWriteMessage and setComplete: the items are deleted with their message,
\* whatever its status.
FinishWrite ==
    /\ state = "EXEC_WRITE"
    /\ lost' = IF answer = Failed THEN lost \cup Numbers(current.message.items) ELSE lost
    /\ UNCHANGED shown

Finish ==
    /\ answer # None
    /\ FinishRead \/ FinishWrite
    /\ state' = "PAUSE" /\ current' = None /\ answer' = None
    /\ UNCHANGED <<memory, itemsToWrite, readMessages, writeMessages, asked>>

Next == (\E v \in Writable : Edit(v)) \/ Run \/ Carry \/ Miss \/ Finish

Spec == Init /\ [][Next]_vars
-----------------------------------------------------------------------------
Items == {ReadItem(v) : v \in Views} \cup {WriteItem(v, n) : v \in Views, n \in 1 .. MaxWrites}

\* A message's items are items, and the range it asks the device for exists.
IsMessage(m) == /\ m.count > 0 /\ RangeOf(m) \subseteq Addresses
                /\ \A i \in DOMAIN m.items : m.items[i] \in Items

\* No request is larger than the device takes, unless one item alone is.
WithinMaxCount ==
    \A m \in {readMessages[i] : i \in DOMAIN readMessages}
               \cup {writeMessages[i] : i \in DOMAIN writeMessages} :
        m.count <= MaxCount \/ \E i \in DOMAIN m.items : m.items[i].count = m.count

\* The type of every variable; every item to read is in a message.
TypeOK ==
    /\ memory \in [Addresses -> 0 .. MaxWrites]
    /\ \A i \in DOMAIN itemsToWrite : itemsToWrite[i] \in Items
    /\ \A i \in DOMAIN readMessages : IsMessage(readMessages[i])
    /\ \A i \in DOMAIN writeMessages : IsMessage(writeMessages[i])
    /\ \A v \in Views : \E i \in DOMAIN readMessages : HasItem(readMessages[i], v)
    /\ state \in {"PAUSE", "EXEC_WRITE", "EXEC_READ"}
    /\ IF state = "PAUSE" THEN current = None /\ answer = None
       ELSE IsMessage(current.message) /\ current.buff \in Buffer
    /\ answer \in {None, Failed} \cup [Addresses -> 0 .. MaxWrites]
    /\ \A v \in Views : shown[v].good \in BOOLEAN /\ shown[v].data \in [1 .. v.count -> 0 .. MaxWrites]
    /\ lost \subseteq DOMAIN asked
    /\ WithinMaxCount

\* What an item shows as good is what the device held at the item's own
\* addresses when it answered, however the item came into its message.
ShownIsRead ==
    [][\A v \in Views : shown'[v] # shown[v] /\ shown'[v].good
          => shown'[v].data = [r \in 1 .. v.count |-> answer[v.offset + r - 1]]]_vars

\* An edit waits to be sent or is being sent.
Pending(n) == \/ n \in Numbers(itemsToWrite)
              \/ \E i \in DOMAIN writeMessages : n \in Numbers(writeMessages[i].items)
              \/ state = "EXEC_WRITE" /\ n \in Numbers(current.message.items)

\* An edit of the user is under way, has been reported lost, or is in the
\* device's memory unless a newer edit has replaced it.
EditsLand ==
    \A n \in DOMAIN asked :
        Pending(n) \/ n \in lost \/ \A a \in RangeOf(asked[n]) : memory[a] >= n

\* No request puts an older value, or the zero of an unused part of its buffer,
\* over a newer one.
NewerStays == [][\A a \in Addresses : memory'[a] >= memory[a]]_memory

-----------------------------------------------------------------------------
(* What the theorems of ClientMessages_proofs assume of the items.  The    *)
(* program checks none of it.                                              *)

End(x) == x.offset + x.count

\* A message fits in the buffer.
FitsBuffer == MaxCount <= BuffSize /\ \A v \in Views : v.count <= BuffSize

\* No item ends with the last address, where the end is 0 in 16 bits.
BelowTop == \A v \in Views : End(v) < Size

\* No item begins before one of its period and ends behind it: addItem takes it
\* without extending the message to its end.
NoneReachesOver ==
    \A v, w \in Views : v.period = w.period /\ v.offset < w.offset => End(v) <= End(w)

\* No address belongs to two items the user edits.
EditsApart == \A v, w \in Writable : RangeOf(v) \intersect RangeOf(w) # {} => v = w

\* Two edited items that fit in one message have no address between them.
EditsAdjoin ==
    \A v, w \in Writable :
        v.offset < w.offset => End(v) = w.offset \/ End(w) > v.offset + MaxCount

\* No message to write has a register that belongs to none of its items.
NoGap ==
    state = "EXEC_WRITE" =>
        \A a \in RangeOf(current.message) :
            \E i \in DOMAIN current.message.items : a \in RangeOf(current.message.items[i])

-----------------------------------------------------------------------------
(* The inductive invariants of ClientMessages_proofs                       *)

Messages == [offset : Nat, count : Nat \ {0}, period : Nat, items : Seq(Items) \ {<< >>}]

Data == UNION {[1 .. v.count -> 0 .. MaxWrites] : v \in Views}

\* A message asks for a range that exists, and for no more registers than the
\* device takes, unless one item alone has more.
Possible(m) ==
    /\ End(m) <= Size
    /\ m.count <= MaxCount \/ \E i \in DOMAIN m.items : m.items[i].count = m.count

Typed ==
    /\ memory \in [Addresses -> 0 .. MaxWrites]
    /\ readMessages \in Seq(Messages) /\ writeMessages \in Seq(Messages)
    /\ itemsToWrite \in Seq(Items)
    /\ asked \in Seq(Items) /\ Len(asked) <= MaxWrites
    /\ lost \subseteq 1 .. Len(asked)
    /\ shown \in [Views -> [good : BOOLEAN, data : Data]]
    /\ \A v \in Views : shown[v].data \in [1 .. v.count -> 0 .. MaxWrites]
    /\ answer \in {None, Failed} \cup [Addresses -> 0 .. MaxWrites]
    /\ state \in {"PAUSE", "EXEC_WRITE", "EXEC_READ"}
    /\ IF state = "PAUSE" THEN current = None /\ answer = None
       ELSE current \in [message : Messages, buff : Buffer]

\* Every message is possible.
AllPossible ==
    /\ \A i \in 1 .. Len(readMessages) : Possible(readMessages[i])
    /\ \A i \in 1 .. Len(writeMessages) : Possible(writeMessages[i])
    /\ state # "PAUSE" => Possible(current.message)

\* Every item to read is in a message.
AllHeld == \A v \in Views : \E i \in 1 .. Len(readMessages) : HasItem(readMessages[i], v)

\* x is one of the edits.
IsEdit(edits, x) == x.data \in 1 .. Len(edits) /\ edits[x.data] = x

\* What is written are edits.
AllAsked ==
    /\ \A i \in 1 .. Len(itemsToWrite) : IsEdit(asked, itemsToWrite[i])
    /\ \A i \in 1 .. Len(writeMessages) :
          \A j \in 1 .. Len(writeMessages[i].items) : IsEdit(asked, writeMessages[i].items[j])
    /\ state = "EXEC_WRITE" =>
          \A j \in 1 .. Len(current.message.items) : IsEdit(asked, current.message.items[j])

TInv == Typed /\ AllPossible /\ AllHeld /\ AllAsked

\* A message covers all of each of its items.
Covers(m) ==
    \A i \in 1 .. Len(m.items) :
        /\ m.items[i].period = m.period
        /\ m.offset <= m.items[i].offset /\ End(m.items[i]) <= End(m)

IsRead(x) == \E v \in Views : x = ReadItem(v)

\* A message to read holds items to read, and covers them.
IsReadMessage(m) == Covers(m) /\ \A i \in 1 .. Len(m.items) : IsRead(m.items[i])

RInv ==
    /\ \A i \in 1 .. Len(readMessages) : IsReadMessage(readMessages[i])
    /\ state = "EXEC_READ" => IsReadMessage(current.message)

\* A message to write covers its items, which are in the order of the edits.
IsWriteMessage(m) ==
    /\ Covers(m) /\ m.period = 0
    /\ \A i, j \in 1 .. Len(m.items) : i < j => m.items[i].data < m.items[j].data

\* The edits in m are older than those of the same item in k.
Before(m, k) ==
    \A i \in 1 .. Len(m.items), j \in 1 .. Len(k.items) :
        m.items[i].offset = k.items[j].offset => m.items[i].data < k.items[j].data

\* What is in a message was not accepted by those before it, nor will be.
InTurn(messages) ==
    /\ \A i \in 1 .. Len(messages) : IsWriteMessage(messages[i])
    /\ \A i, j \in 1 .. Len(messages) : i < j =>
          /\ Before(messages[i], messages[j])
          /\ \A k \in 1 .. Len(messages[j].items) : ~Accepts(messages[i], messages[j].items[k])

\* The memory holds nothing newer than x, which has not been carried out, or
\* nothing older, when it has.
NotNewer(values, x) == \A a \in RangeOf(x) : values[a] <= x.data
NotOlder(values, x) == \A a \in RangeOf(x) : values[a] >= x.data

\* The n-th edit gives one of the items the value n.
AreEdits(edits) == \A n \in 1 .. Len(edits) : \E v \in Writable : edits[n] = WriteItem(v, n)

EditsInOrder ==
    /\ AreEdits(asked)
    /\ InTurn(writeMessages)
    /\ \A i, j \in 1 .. Len(itemsToWrite) : i < j => itemsToWrite[i].data < itemsToWrite[j].data
    /\ \A i \in 1 .. Len(writeMessages), k \in 1 .. Len(itemsToWrite) :
          \A j \in 1 .. Len(writeMessages[i].items) :
              writeMessages[i].items[j].data < itemsToWrite[k].data

CurrentFirst ==
    state = "EXEC_WRITE" =>
        /\ IsWriteMessage(current.message)
        /\ current.buff = Prepared(current.message)
        /\ \A i \in 1 .. Len(writeMessages) : Before(current.message, writeMessages[i])
        /\ \A k \in 1 .. Len(itemsToWrite), j \in 1 .. Len(current.message.items) :
              current.message.items[j].data < itemsToWrite[k].data

MemoryInStep ==
    /\ \A i \in 1 .. Len(itemsToWrite) : NotNewer(memory, itemsToWrite[i])
    /\ \A i \in 1 .. Len(writeMessages) :
          \A j \in 1 .. Len(writeMessages[i].items) : NotNewer(memory, writeMessages[i].items[j])
    /\ state = "EXEC_WRITE" =>
          \A j \in 1 .. Len(current.message.items) :
              /\ answer = None => NotNewer(memory, current.message.items[j])
              /\ answer \notin {None, Failed} => NotOlder(memory, current.message.items[j])
    /\ \A a \in Addresses : memory[a] <= Len(asked)

WInv == EditsInOrder /\ CurrentFirst /\ MemoryInStep /\ EditsLand

\* A message begins with one of its items and ends with one.
Tight(m) == /\ \E i \in 1 .. Len(m.items) : m.items[i].offset = m.offset
            /\ \E i \in 1 .. Len(m.items) : End(m.items[i]) = End(m)

AllTight == /\ \A i \in 1 .. Len(writeMessages) : Tight(writeMessages[i])
            /\ state = "EXEC_WRITE" => Tight(current.message)
=============================================================================
