--------------------------- MODULE RequestService ---------------------------
(***************************************************************************)
(* What a Modbus server promises to the masters on its ports: each request *)
(* is carried out at most once, at one moment between its arrival and its  *)
(* answer, on a memory that all ports share; the answer is the outcome of  *)
(* that moment.  A request may be left without an answer, a refused one is *)
(* not carried out.                                                        *)
(***************************************************************************)
CONSTANTS
    Ports,          \* where masters ask
    Requests,       \* what they may ask
    Outcomes,       \* what an answer may say
    NoRequest,
    NoOutcome,
    Refusal,        \* the outcome of a request that is not carried out
    Effect(_, _)    \* Effect(r, m): the memory and outcome r may give when m is the memory

VARIABLES
    memory,         \* the memory of the devices
    asked,          \* the request each port is serving
    outcome         \* its outcome, until the answer is given

vars == <<memory, asked, outcome>>

Init ==
    /\ asked = [p \in Ports |-> NoRequest]
    /\ outcome = [p \in Ports |-> NoOutcome]

\* The port serves r from here on, and has nothing to say yet.
Begin(p, r) ==
    /\ asked[p] = NoRequest
    /\ asked' = [asked EXCEPT ![p] = r]
    /\ UNCHANGED <<memory, outcome>>

\* r, which has just come or is being served, gets its outcome; the answer
\* follows, or is given or lost in the same step.
CarryOut(p, r, o) ==
    /\ asked[p] \in {NoRequest, r}
    /\ outcome[p] = NoOutcome
    /\ \/ \E e \in Effect(r, memory) : memory' = e[1] /\ o = e[2]
       \/ o = Refusal /\ UNCHANGED memory
    /\ \/ /\ asked' = [asked EXCEPT ![p] = r]
          /\ outcome' = [outcome EXCEPT ![p] = o]
       \/ /\ asked' = [asked EXCEPT ![p] = NoRequest]
          /\ UNCHANGED outcome

\* Some ports have answered, or give up what they are serving.
Finish ==
    /\ \A p \in Ports :
          <<asked'[p], outcome'[p]>> \in {<<asked[p], outcome[p]>>, <<NoRequest, NoOutcome>>}
    /\ UNCHANGED memory

\* The program itself writes to the memory.
Change == UNCHANGED <<asked, outcome>>

Next ==
    \/ Change
    \/ Finish
    \/ \E p \in Ports, r \in Requests : Begin(p, r)
    \/ \E p \in Ports, r \in Requests, o \in Outcomes : CarryOut(p, r, o)

Spec == Init /\ [][Next]_vars
=============================================================================
