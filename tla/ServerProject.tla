---------------------------- MODULE ServerProject ----------------------------
(***************************************************************************)
(* The project of the server: the devices a port refers to and the units   *)
(* they answer to (mbServerPort, mbServerDeviceRef), and the menu commands *)
(* of mbServerUi.                                                          *)
(***************************************************************************)
EXTENDS ProjectDocument

CONSTANTS
    MaxUnit,        \* 255 in the code
    AskedUnits,     \* the sets of units a user may ask for
    DefaultUnits    \* mbServerDeviceRef::Defaults::units

Units == 0..MaxUnit

ASSUME ServerProjectAssumption ==
    /\ MaxUnit \in Nat
    /\ AskedUnits \subseteq SUBSET Units
    /\ DefaultUnits \in SUBSET Units

VARIABLES
    refs,   \* mbServerPort::m_devices, the devices of a port's references
    units,  \* mbServerDeviceRef::m_units, what is shown and saved
    unitOf  \* mbServerPort::m_units, the device that serves a unit

NoRefs == [refs   |-> [p \in Ports |-> <<>>],
           units  |-> [p \in Ports |-> [d \in Devices |-> {}]],
           unitOf |-> [p \in Ports |-> [u \in Units |-> None]]]
Refs == [refs |-> refs, units |-> units, unitOf |-> unitOf]
Become(s) == refs' = s.refs /\ units' = s.units /\ unitOf' = s.unitOf

-----------------------------------------------------------------------------
(* mbServerPort                                                            *)

UnitsRemoved_None(s, p, d) == s.unitOf[p]       \* mutant: nothing is removed

\* deviceRemoveUnits.
UnitsRemoved(s, p, d) ==
    [u \in Units |-> IF u \in s.units[p][d] /\ s.unitOf[p][u] = d THEN None ELSE s.unitOf[p][u]]

\* freeDeviceUnit: 1 to 254, then 0; as a set, empty for -1.
FreeUnit(free) ==
    LET some == free \intersect 1..(MaxUnit - 1)
    IN  IF some # {} THEN {Min(some)} ELSE free \intersect {0}

\* deviceFilterUnits and deviceSetUnits: a unit that is chosen for want of any
\* other is shown, and not served.
UnitsSet(s, p, d, asked) ==
    LET left == UnitsRemoved(s, p, d)
        kept == {u \in asked : left[u] \in {None, d}}
        free == {u \in Units : left[u] = None}
    IN  [s EXCEPT !.units[p][d] = IF kept # {} THEN kept ELSE FreeUnit(free),
                  !.unitOf[p] = [u \in Units |-> IF u \in kept THEN d ELSE left[u]]]

\* deviceInsert.
RefAdded(s, p, d, asked) ==
    UnitsSet([s EXCEPT !.refs[p] = Append(@, d), !.units[p][d] = {}], p, d, asked)

\* deviceRemove.
RefRemoved(s, p, d) ==
    [s EXCEPT !.refs[p] = RemoveFirst(@, d),
              !.unitOf[p] = UnitsRemoved(s, p, d),
              !.units[p][d] = {}]

\* mb::toUnitsString and mb::toUnitsList: three units in a row are a range.
UnitsStr(us) ==
    LET runs == {r \in Units \X Units : /\ r[1] <= r[2] /\ r[1]..r[2] \subseteq us
                                        /\ r[1] - 1 \notin us /\ r[2] + 1 \notin us}
        long == {r \in runs : r[2] - r[1] >= 2}
    IN  long \union {<<u, u>> : u \in UNION {r[1]..r[2] : r \in runs \ long}}

\* UnitsList_EndLeftOut is a mutant: a range stops before its end.
UnitsList_EndLeftOut(str, default) ==
    IF str = {} THEN default ELSE UNION {{r[1]} \union r[1]..(r[2] - 1) : r \in str}

\* A text without a unit is no list and changes nothing.
UnitsList(str, default) == IF str = {} THEN default ELSE UNION {r[1]..r[2] : r \in str}

-----------------------------------------------------------------------------
(* mbServerUi                                                              *)

ServerIdle_Always == program = "server"     \* mutant: open while it runs
ServerIdle == program = "server" /\ ~running
PortNew ==
    /\ ServerIdle
    /\ \E p \in Gone(doc, "port"), n \in PortNames : doc' = Added(doc, "port", p, n)
    /\ UNCHANGED <<rows, running, refs, units, unitOf>>

\* The devices of the file are found by name in the project that is open.
PortImport ==
    /\ ServerIdle
    /\ \E p \in Gone(doc, "port"), n \in PortNames, d \in DeviceNames, us \in AskedUnits :
         /\ doc' = Added(doc, "port", p, n)
         /\ IF doc.key["device"][d] = None THEN UNCHANGED <<refs, units, unitOf>>
            ELSE Become(RefAdded(Refs, p, doc.key["device"][d], UnitsList(UnitsStr(us), DefaultUnits)))
    /\ UNCHANGED <<rows, running>>

PortDelete ==
    /\ ServerIdle
    /\ \E p \in Listed(doc, "port") : refs[p] = <<>> /\ doc' = Removed(doc, "port", p)
    /\ UNCHANGED <<rows, running, refs, units, unitOf>>

PortDeviceNew ==
    /\ ServerIdle
    /\ \E p \in Listed(doc, "port"), d \in Gone(doc, "device"), n \in DeviceNames, us \in AskedUnits :
         /\ doc' = Added(doc, "device", d, n)
         /\ Become(RefAdded(Refs, p, d, us))
    /\ UNCHANGED <<rows, running>>

\* A device the port has already gets the units too.
PortDeviceAdd ==
    /\ ServerIdle
    /\ \E p \in Listed(doc, "port"), d \in Listed(doc, "device"), us \in AskedUnits :
            Become(IF d \in ToSet(refs[p]) THEN UnitsSet(Refs, p, d, units[p][d] \union us)
                   ELSE RefAdded(Refs, p, d, us))
    /\ UNCHANGED <<doc, rows, running>>

PortDeviceEdit ==
    /\ ServerIdle
    /\ \E p \in Listed(doc, "port"), us \in AskedUnits, n \in DeviceNames : \E d \in ToSet(refs[p]) :
         /\ Become(UnitsSet(Refs, p, d, us))
         /\ doc' = Renamed(doc, "device", d, n)
    /\ UNCHANGED <<rows, running>>

PortDeviceDelete ==
    /\ ServerIdle
    /\ \E p \in Listed(doc, "port") : \E d \in ToSet(refs[p]) : Become(RefRemoved(Refs, p, d))
    /\ UNCHANGED <<doc, rows, running>>

\* menuSlotDeviceNew; menuSlotDeviceImport also while the server runs.
DeviceNew ==
    /\ program = "server"
    /\ \E d \in Gone(doc, "device"), n \in DeviceNames : doc' = Added(doc, "device", d, n)
    /\ UNCHANGED <<rows, running, refs, units, unitOf>>

\* Not refused while the server runs.
DeviceEdit ==
    /\ program = "server"
    /\ \E d \in Listed(doc, "device"), n \in DeviceNames : doc' = Renamed(doc, "device", d, n)
    /\ UNCHANGED <<rows, running, refs, units, unitOf>>

DeviceDelete_RefsLeft ==        \* mutant: the ports keep their references
    /\ ServerIdle
    /\ \E d \in Listed(doc, "device") :
         /\ doc' = Removed(doc, "device", d)
         /\ rows' = Forgotten(rows, {d})
    /\ UNCHANGED <<running, refs, units, unitOf>>

\* Its loop over the ports of the project.
RefsRemoved(d) ==
    LET left[i \in 0..Len(doc.list["port"])] ==
            IF i = 0 THEN Refs ELSE RefRemoved(left[i - 1], doc.list["port"][i], d)
    IN  left[Len(doc.list["port"])]

DeviceDelete ==
    /\ ServerIdle
    /\ \E d \in Listed(doc, "device") :
         /\ doc' = Removed(doc, "device", d)
         /\ Become(RefsRemoved(d))
         /\ rows' = Forgotten(rows, {d})
    /\ UNCHANGED running

ServerEdits ==
    \/ PortNew \/ PortImport \/ PortDelete
    \/ PortDeviceNew \/ PortDeviceAdd \/ PortDeviceEdit \/ PortDeviceDelete
    \/ DeviceNew \/ DeviceEdit \/ DeviceDelete

-----------------------------------------------------------------------------
(* Files: mbServerBuilder                                                  *)

\* toDomPort.
SavedRefs(d, s) ==
    [p \in Ports |-> [i \in DOMAIN s.refs[p] |->
        [device |-> d.name[s.refs[p][i]], units |-> UnitsStr(s.units[p][s.refs[p][i]])]]]

\* toPort: the devices are found by name among those that are loaded.
LoadedRef(d, s, p, ref) ==
    IF Found(d, "device", ref.device) = None THEN s
    ELSE RefAdded(s, p, Found(d, "device", ref.device), UnitsList(ref.units, DefaultUnits))
LoadedPort(d, s, p, written) ==
    LET added[i \in 0..Len(written)] ==
            IF i = 0 THEN s ELSE LoadedRef(d, added[i - 1], p, written[i])
    IN  added[Len(written)]
LoadedRefs(d, file, written) ==
    LET ports == file.list["port"]
        loaded[i \in 0..Len(ports)] ==
            IF i = 0 THEN NoRefs ELSE LoadedPort(d, loaded[i - 1], ports[i], written[ports[i]])
    IN  loaded[Len(ports)]

-----------------------------------------------------------------------------
(* Properties                                                              *)

(* A unit of a port is served by a device of that port that shows the unit
   (m_units of the port against m_devices and the references' m_units, which
   five operations change in steps of their own). *)
UnitsAreShown ==
    \A p \in Ports, u \in Units : unitOf[p][u] # None =>
        unitOf[p][u] \in ToSet(refs[p]) /\ u \in units[p][unitOf[p][u]]

(* A unit that is shown for a device of a port is answered by that device
   (mbServerPort::deviceSetUnits against the references' m_units). *)
UnitsAreServed ==
    \A p \in Ports : \A d \in ToSet(refs[p]) : \A u \in units[p][d] : unitOf[p][u] = d
=============================================================================
