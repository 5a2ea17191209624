----------------------------- MODULE CoreRuntime -----------------------------
(***************************************************************************)
(* Start, stop and exit of the program: mbCore, mbCoreRuntime, and the     *)
(* threads of the client and the server (mbClientRunThread,                *)
(* mbServerRunThread, mbCoreRunTaskThread).                                *)
(*                                                                         *)
(* stop() waits in a loop that lets the GUI go on (processEvents), so any  *)
(* GUI event, a further stop() among them, may happen inside it.           *)
(*                                                                         *)
(* What is also said of the project that runs (Projects) has the prefix    *)
(* Core here.                                                              *)
(***************************************************************************)
EXTENDS Naturals

CONSTANTS
    Tasks,          \* the threads of m_taskThreads
    PortThreads,    \* the threads of m_threads
    Projects,       \* projects the user may open
    NoProject       \* nullptr

Threads == Tasks \union PortThreads

ASSUME CoreRuntimeAssumption ==
    /\ Tasks \intersect PortThreads = {}
    /\ NoProject \notin Projects

VARIABLES
    project,    \* mbCore::m_project
    status,     \* mbCore::m_status
    runtime,    \* mbCoreRuntime::m_project, the project that is run
    thread,     \* "none", "starting", "polling" or "finished"
    ctrlRun,    \* m_ctrlRun (m_run of a task thread)
    using,      \* the project whose objects a thread was built from
    frames,     \* how many calls of stop() wait in their loop
    phase,      \* "running", "quit" once exec() is told to end, "exited"
    overrun     \* history: a thread began its loop after it was told to stop

coreVars == <<project, status, runtime, thread, ctrlRun, using, frames, phase, overrun>>

CoreInit ==
    /\ project \in Projects
    /\ status = "Stopped"
    /\ runtime = NoProject
    /\ thread = [t \in Threads |-> "none"]
    /\ ctrlRun = [t \in Threads |-> FALSE]
    /\ using = [t \in Threads |-> NoProject]
    /\ frames = 0
    /\ phase = "running"
    /\ overrun = FALSE

\* GUI events happen in exec() and in the loop of stop().
Events == phase = "running" \/ frames > 0

isRunning == runtime # NoProject

CoreOpen_WhileRunning(p) ==
    /\ Events
    /\ p # project
    /\ project' = p
    /\ status' = "Stopped"
    /\ UNCHANGED <<runtime, thread, ctrlRun, using, frames, phase, overrun>>

\* setProjectCore deletes the project that was open before.
CoreOpen(p) ==
    /\ Events
    /\ ~isRunning
    /\ p # project
    /\ project' = p
    /\ status' = "Stopped"
    /\ UNCHANGED <<runtime, thread, ctrlRun, using, frames, phase, overrun>>

CoreStart ==
    /\ Events
    /\ ~isRunning
    /\ runtime' = project
    /\ thread' = [t \in Threads |-> "starting"]
    /\ using' = [t \in Threads |-> project]
    /\ status' = "Running"
    /\ overrun' = FALSE
    /\ UNCHANGED <<project, ctrlRun, frames, phase>>

\* A runtime that tells only its task threads to stop.
BeginStop_TasksOnly ==
    /\ isRunning
    /\ status # "Stopping"
    /\ status' = "Stopping"
    /\ ctrlRun' = [t \in Threads |-> ctrlRun[t] /\ t \notin Tasks]
    /\ frames' = frames + 1
    /\ UNCHANGED <<project, runtime, thread, using, phase, overrun>>

\* A stop() that may be called again from its own loop.
BeginStop_Again ==
    /\ isRunning
    /\ frames < 2
    /\ status' = "Stopping"
    /\ ctrlRun' = [t \in Threads |-> FALSE]
    /\ frames' = frames + 1
    /\ UNCHANGED <<project, runtime, thread, using, phase, overrun>>

BeginStop ==
    /\ isRunning
    /\ status # "Stopping"
    /\ status' = "Stopping"
    /\ ctrlRun' = [t \in Threads |-> FALSE]
    /\ frames' = frames + 1
    /\ UNCHANGED <<project, runtime, thread, using, phase, overrun>>

\* The menu command "Start/Stop" of a running project.
CoreStop ==
    /\ Events
    /\ BeginStop

TryStop_TasksOnly == \A t \in Tasks : thread[t] \notin {"starting", "polling"}
TryStop == \A t \in Threads : thread[t] \notin {"starting", "polling"}

\* The loop ends, the objects of the runtime are deleted.
EndStop ==
    /\ frames > 0
    /\ TryStop
    /\ frames' = frames - 1
    /\ thread' = [t \in Threads |-> "none"]
    /\ using' = [t \in Threads |-> NoProject]
    /\ runtime' = NoProject
    /\ status' = "Stopped"
    /\ UNCHANGED <<project, ctrlRun, phase, overrun>>

Quit ==
    /\ Events
    /\ phase = "running"
    /\ phase' = "quit"
    /\ UNCHANGED <<project, status, runtime, thread, ctrlRun, using, frames, overrun>>

\* exec() returns, and mbCore::exec stops what is still running.
LastStop ==
    /\ phase = "quit"
    /\ frames = 0
    /\ BeginStop

Exit ==
    /\ phase = "quit"
    /\ frames = 0
    /\ ~isRunning
    /\ phase' = "exited"
    /\ UNCHANGED <<project, status, runtime, thread, ctrlRun, using, frames, overrun>>

\* run() builds its objects and then sets its own flag.
Enter(t) ==
    /\ thread[t] = "starting"
    /\ thread' = [thread EXCEPT ![t] = "polling"]
    /\ ctrlRun' = [ctrlRun EXCEPT ![t] = TRUE]
    /\ overrun' = (overrun \/ status = "Stopping")
    /\ UNCHANGED <<project, status, runtime, using, frames, phase>>

Leave(t) ==
    /\ thread[t] = "polling"
    /\ ~ctrlRun[t]
    /\ thread' = [thread EXCEPT ![t] = "finished"]
    /\ UNCHANGED <<project, status, runtime, ctrlRun, using, frames, phase, overrun>>

CoreNext ==
    \/ \E p \in Projects : CoreOpen(p)
    \/ CoreStart
    \/ CoreStop
    \/ EndStop
    \/ Quit
    \/ LastStop
    \/ Exit
    \/ \E t \in Threads : Enter(t) \/ Leave(t)

CoreSpec == CoreInit /\ [][CoreNext]_coreVars

\* Threads are scheduled, and the GUI thread runs its loops.
CoreFairSpec ==
    /\ CoreSpec
    /\ \A t \in Threads : WF_coreVars(Enter(t)) /\ WF_coreVars(Leave(t))
    /\ WF_coreVars(EndStop)
    /\ WF_coreVars(LastStop)
    /\ WF_coreVars(Exit)

-----------------------------------------------------------------------------
(* Properties                                                              *)

Active(t) == thread[t] \in {"starting", "polling"}

\* Every variable has its type, and stop() is never entered twice.
CoreTypeOK ==
    /\ project \in Projects
    /\ status \in {"Stopped", "Running", "Stopping"}
    /\ runtime \in Projects \union {NoProject}
    /\ thread \in [Threads -> {"none", "starting", "polling", "finished"}]
    /\ ctrlRun \in [Threads -> BOOLEAN]
    /\ using \in [Threads -> Projects \union {NoProject}]
    /\ frames \in {0, 1}
    /\ phase \in {"running", "quit", "exited"}

\* A thread runs only on the project that is open: the objects it was built
\* from are not deleted under it by opening another.
ProjectInUse == \A t \in Threads : Active(t) => using[t] = project

\* The status that decides what the GUI allows is the truth: "Stopping" while
\* a stop() waits, "Stopped" only when nothing is left of the runtime.
StatusIsTrue ==
    /\ status = "Stopping" <=> frames > 0
    /\ status = "Stopped" <=> ~isRunning
    /\ ~isRunning => \A t \in Threads : thread[t] = "none"

\* The program does not end under its threads.
ExitIsClean == phase = "exited" => \A t \in Threads : thread[t] = "none"

\* Status, project and threads of the program fit each other at every event.
LifeCycle == StatusIsTrue /\ ProjectInUse /\ ExitIsClean

\* No thread object is deleted while its thread still runs.
DeletedWhenFinished == [][\A t \in Threads : Active(t) => thread'[t] # "none"]_coreVars

\* "Stop" stops the project, whatever the GUI does inside stop(), unless a
\* thread sets its flag after stop() has cleared it (Enter): nothing clears it
\* again, and stop() waits for ever.
StopEnds == (status = "Stopping") ~> (status = "Stopped" \/ overrun)

\* A program that is told to end does, with the same exception.
ExitEnds == (phase = "quit") ~> (phase = "exited" \/ overrun)

\* Both ends come.
Ends == StopEnds /\ ExitEnds
-----------------------------------------------------------------------------
(* The inductive invariant                                                 *)

\* What runs was started on the project that is open.
RunsTheOpen ==
    /\ isRunning => runtime = project
    /\ \A t \in Threads : using[t] = runtime

ExitedIsStopped == phase = "exited" => ~isRunning

CoreIInv ==
    /\ CoreTypeOK
    /\ StatusIsTrue
    /\ RunsTheOpen
    /\ ExitedIsStopped
=============================================================================
