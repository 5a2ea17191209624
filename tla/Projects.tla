------------------------------ MODULE Projects ------------------------------
(***************************************************************************)
(* The projects of both programs: edited, saved, opened again and run.     *)
(***************************************************************************)
EXTENDS ServerProject, ClientProject

VARIABLE run    \* what the runtime was built from, None when it does not run

vars == <<program, doc, rows, running, refs, units, unitOf, members, portOf, run>>

Init ==
    /\ DocInit
    /\ refs = NoRefs.refs /\ units = NoRefs.units /\ unitOf = NoRefs.unitOf
    /\ members = NoMembers.members /\ portOf = NoMembers.portOf
    /\ run = None

\* The menu commands that both programs have.
SharedEdits ==
    /\ \/ NewView \/ EditView \/ DeleteView \/ EditPort
       \/ \E l \in Lists : NewRows(l) \/ InsertRow(l) \/ EditRow(l) \/ DeleteRow(l)
    /\ UNCHANGED <<refs, units, unitOf, members, portOf>>

\* menuSlotFileNew.
New ==
    /\ ~running
    /\ doc' = Empty
    /\ rows' = [l \in Lists |-> <<>>]
    /\ Become(NoRefs) /\ Settle(NoMembers)
    /\ UNCHANGED running

\* menuSlotFileSave, then menuSlotFileOpen: devices, ports, views, actions.
Reopen ==
    /\ ~running
    /\ LET file    == Saved(doc, rows)
           devices == LoadedKind(Empty, "device", file)
           ports   == LoadedKind(devices, "port", file)
       IN  /\ doc' = LoadedKind(ports, "view", file)
           /\ rows' = LoadedRows(ports, file)
           /\ Become(LoadedRefs(devices, file, SavedRefs(doc, Refs)))
           /\ Settle(LoadedMembers(ports, SavedMembers(doc, Members)))
    /\ UNCHANGED running

\* createComponents: a server's port is given the devices of its units, a
\* client's port its devices and the items that refer to them.
Built ==
    IF program = "server"
    THEN <<[p \in Listed(doc, "port") |-> unitOf[p]], rows["actions"]>>
    ELSE <<[p \in Listed(doc, "port") |-> ToSet(members[p])], [v \in Listed(doc, "view") |-> rows[v]]>>

Start ==
    /\ ~running
    /\ running' = TRUE
    /\ run' = Built
    /\ UNCHANGED <<program, doc, rows, refs, units, unitOf, members, portOf>>

Stop ==
    /\ running
    /\ running' = FALSE
    /\ run' = None
    /\ UNCHANGED <<program, doc, rows, refs, units, unitOf, members, portOf>>

Edit ==
    /\ \/ SharedEdits
       \/ ServerEdits /\ UNCHANGED <<members, portOf>>
       \/ ClientEdits /\ UNCHANGED <<refs, units, unitOf>>
       \/ New \/ Reopen
    /\ UNCHANGED <<program, run>>

Next == Edit \/ Start \/ Stop
Spec == Init /\ [][Next]_vars

-----------------------------------------------------------------------------
(* Properties                                                              *)

(* Types, and that nothing refers to an object that has left the project: a
   list, a row, a reference, a port (each holds the object's address). *)
TypeOK ==
    /\ DocTypeOK
    /\ refs \in [Ports -> Seq(Devices)] /\ \A p \in Ports : IsInjective(refs[p])
    /\ units \in [Ports -> [Devices -> SUBSET Units]]
    /\ unitOf \in [Ports -> [Units -> Devices \union {None}]]
    /\ \A p \in Ports : /\ ToSet(refs[p]) \subseteq Listed(doc, "device")
                        /\ refs[p] # <<>> => p \in Listed(doc, "port")

(* Names, units and ports, each kept in two places, agree. *)
ReferencesAgree == NamesAreKeys /\ UnitsAreShown /\ DeviceAtItsPort

(* What runs is the project that is shown: no command changes the units, the
   devices or the rows that the threads were built from (the objects of the
   project are used by the threads until stop() returns). *)
RunsWhatIsShown == running => run = Built

(* A project that is saved and opened again is the same project, if no unit
   had to be taken from another device: its objects in their order, the names
   of ports and devices, the device of each row, and the units and ports of
   the devices.  The names of views are kept only if no two views show the same
   one: setName lets them (core_dataview.cpp:470), a load does not. *)
ViewsNamedApart ==
    \A v, w \in Listed(doc, "view") : doc.name[v] = doc.name[w] => v = w
ReopenKeeps ==
    [][Reopen =>
         /\ doc'.list = doc.list /\ rows' = rows
         /\ \A k \in {"port", "device"} : \A o \in Listed(doc, k) : doc'.name[o] = doc.name[o]
         /\ ViewsNamedApart => \A v \in Listed(doc, "view") : doc'.name[v] = doc.name[v]
         /\ portOf' = portOf
         /\ UnitsAreServed /\ (\A p \in Ports : \A d \in ToSet(refs[p]) : units[p][d] # {})
              => refs' = refs /\ units' = units /\ unitOf' = unitOf]_vars

=============================================================================
