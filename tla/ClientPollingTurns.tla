------------------------ MODULE ClientPollingTurns --------------------------
(***************************************************************************)
(* Whose turn it is: ClientPolling with two history variables that count   *)
(* how often a waiting device, and a due read message, are passed over.    *)
(***************************************************************************)
EXTENDS ClientPolling

\* Each read message was made for one device, once.
ASSUME ReadsOfOneDevice ==
    \A d, e \in Devices : \A i \in 1..Len(ReadsOf[d]), j \in 1..Len(ReadsOf[e]) :
        ReadsOf[d][i] = ReadsOf[e][j] => d = e /\ i = j

VARIABLES
    passed,     \* how often d was given the port while device e waited
    overtaken   \* how often k was executed while read message m was due

ReadsTogether(m, k) ==
    \E d \in Devices : {m, k} \subseteq Elements(ReadsOf[d])

Waiting(e) == state[e] # "PAUSE" /\ owner # e

\* The free port is given to d.
Given(d) == owner = NoDevice /\ owner' = d

\* d takes read message m from its queue.
Taken(d, m) == state[d] = "PAUSE" /\ (message'[d] = m \/ m \in due \ due')

UpToTwo(n) == IF n < 2 THEN n + 1 ELSE n

NonePassed == [e \in Devices |-> [d \in Devices |-> 0]]
NoneOvertaken == [m \in Reads |-> [k \in Reads |-> 0]]

TurnsInit == Init /\ passed = NonePassed /\ overtaken = NoneOvertaken

CountingRun(d) ==
    /\ Run(d)
    /\ passed' = [e \in Devices |-> [f \in Devices |->
          IF ~Waiting(e) THEN 0
          ELSE IF f = d /\ Given(d) THEN UpToTwo(passed[e][f]) ELSE passed[e][f]]]
    /\ overtaken' = [m \in Reads |-> [k \in Reads |->
          IF m \notin due \/ Taken(d, m) THEN 0
          ELSE IF Taken(d, k) /\ ReadsTogether(m, k) THEN UpToTwo(overtaken[m][k])
          ELSE overtaken[m][k]]]

TurnsNext ==
    \/ \E d \in Devices : CountingRun(d)
    \/ /\ \/ \E d \in Devices :
              \/ \E periodically \in BOOLEAN : SendOne(d, periodically)
              \/ WriteItemData(d)
          \/ \E m \in Reads : PeriodElapses(m)
          \/ TimerEvent
          \/ StopSending
          \/ BeginStop
          \/ Start
       /\ UNCHANGED <<passed, overtaken>>
    \/ ClearComponents /\ passed' = NonePassed /\ overtaken' = NoneOvertaken

TurnsSpec == TurnsInit /\ [][TurnsNext]_<<vars, passed, overtaken>>

-----------------------------------------------------------------------------
(* Properties                                                              *)

\* While a device waits with its request for the port, each other device is
\* given the port at most once: run() executes one message and returns, so a
\* busy device never holds off the devices after it.
FairTurn == \A e, d \in Devices : passed[e][d] <= 1

\* While a read message is due, each other read message of its device is
\* executed at most once: the one that is taken goes to the back, so a group
\* with a short period never holds off one with a long period.
ReadsTakeTurns == \A m, k \in Reads : overtaken[m][k] <= 1

\* Whoever waits for a turn, a device or a message, gets it in one round.
TurnsAreFair == FairTurn /\ ReadsTakeTurns

-----------------------------------------------------------------------------
(* The inductive invariant of ClientPolling_proofs                         *)

\* How many devices are called from x on, before e is.
Gap(x, e) == IF x <= e THEN e - x ELSE e + N - x

\* Once d was given the port while e waited, the port is given only to
\* devices that are called between d and e.
PassedOnce ==
    \A e, d \in Devices :
        /\ passed[e][d] \in 0..1
        /\ passed[e][d] = 1 /\ Waiting(e) =>
              IF owner = NoDevice THEN Gap(turn, e) < Gap(d, e)
              ELSE owner = d \/ Gap(owner, e) < Gap(d, e)

\* Once k was executed while m was due, m stands before k in the queue.
OvertakenOnce ==
    \A m, k \in Reads :
        /\ overtaken[m][k] \in 0..1
        /\ overtaken[m][k] = 1 =>
              \A d \in Devices : \A i, j \in 1..Len(reads[d]) :
                  reads[d][i] = m /\ reads[d][j] = k => i < j

QueuedOnce ==
    \A d \in Devices : \A i, j \in 1..Len(reads[d]) : reads[d][i] = reads[d][j] => i = j

TurnsInv ==
    /\ passed \in [Devices -> [Devices -> 0..1]]
    /\ overtaken \in [Reads -> [Reads -> 0..1]]
    /\ PassedOnce /\ OvertakenOnce /\ QueuedOnce
=============================================================================
