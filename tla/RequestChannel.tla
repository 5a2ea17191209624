--------------------------- MODULE RequestChannel ---------------------------
(***************************************************************************)
(* What a Modbus client port promises the clients that share it.           *)
(*                                                                         *)
(* The line to the servers is one resource.  A client holds it from the    *)
(* moment its request is taken up until the call of its API returns, no    *)
(* other client is served meanwhile, the request is put on the line at     *)
(* most MaxTries times, and a call may only return Good while a request    *)
(* sent for it is waiting for its answer.                                  *)
(*                                                                         *)
(* ModbusClientPort.tla is shown to implement this module.                 *)
(***************************************************************************)
EXTENDS Naturals

CONSTANTS
    Clients,    \* the Modbus::Client objects created on one ClientPort
    NoClient,   \* nobody holds the line
    MaxTries    \* how often one request may be put on the line

VARIABLES
    owner,      \* the client that holds the line
    onLine,     \* a request of the owner is on the line, its answer is awaited
    tries,      \* how often the owner's request has been put on the line
    outcome     \* how the last call returned: the client and whether it was Good

chan == <<owner, onLine, tries, outcome>>

TypeOK ==
    /\ owner \in Clients \union {NoClient}
    /\ onLine \in BOOLEAN
    /\ tries \in 0..MaxTries
    /\ outcome \in [client : Clients \union {NoClient}, good : BOOLEAN]

Init ==
    /\ owner = NoClient
    /\ onLine = FALSE
    /\ tries = 0
    /\ outcome = [client |-> NoClient, good |-> FALSE]

\* A free line is taken for c, or the owner goes on; nothing is sent yet.
\* A failed attempt may be withdrawn from the line to be sent again.
Hold(c) ==
    /\ owner \in {NoClient, c}
    /\ owner' = c
    /\ onLine' = FALSE
    /\ UNCHANGED <<tries, outcome>>

\* The request of c, who holds the line or takes it free, is put on the line.
Send(c) ==
    /\ owner \in {NoClient, c}
    /\ ~onLine
    /\ tries < MaxTries
    /\ owner' = c
    /\ onLine' = TRUE
    /\ tries' = tries + 1
    /\ UNCHANGED outcome

\* The call of c returns and the line is free again.  It may fail at any
\* time, but it is Good only with c's own request on the line.
Return(c, good) ==
    /\ owner \in {NoClient, c}
    /\ good => (owner = c /\ onLine)
    /\ owner' = NoClient
    /\ onLine' = FALSE
    /\ tries' = 0
    /\ outcome' = [client |-> c, good |-> good]

\* The port is closed under its owner: nothing is on the line any more.
Abort ==
    /\ owner' = NoClient
    /\ onLine' = FALSE
    /\ tries' = 0
    /\ UNCHANGED outcome

Next ==
    \/ \E c \in Clients :
          \/ Hold(c)
          \/ Send(c)
          \/ \E good \in BOOLEAN : Return(c, good)
    \/ Abort

Spec == Init /\ [][Next]_chan
=============================================================================
