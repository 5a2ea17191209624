---------------------------- MODULE ClientProject ----------------------------
(***************************************************************************)
(* The project of the client: the devices of its ports (mbClientPort,      *)
(* mbClientDevice) and the menu commands of mbClientUi, none of which is   *)
(* open while the client runs.                                             *)
(***************************************************************************)
EXTENDS ProjectDocument

VARIABLES
    members,    \* mbClientPort::m_devices
    portOf      \* mbClientDevice::m_port

NoMembers == [members |-> [p \in Ports |-> <<>>], portOf |-> [d \in Devices |-> None]]
Members == [members |-> members, portOf |-> portOf]
Settle(s) == members' = s.members /\ portOf' = s.portOf

\* mbClientPort::deviceInsert and deviceRemove.
Joined(s, p, d) == [s EXCEPT !.members[p] = Append(@, d), !.portOf[d] = p]
Parted(s, p, d) == IF p = None THEN s
                   ELSE [s EXCEPT !.members[p] = RemoveFirst(@, d), !.portOf[d] = None]

Moved(s, p, d) == Joined(Parted(s, s.portOf[d], d), p, d)

-----------------------------------------------------------------------------
(* mbClientUi                                                              *)

Idle == program = "client" /\ ~running

ClientPortNew ==
    /\ Idle
    /\ \E p \in Gone(doc, "port"), n \in PortNames : doc' = Added(doc, "port", p, n)
    /\ UNCHANGED <<rows, running, members, portOf>>

ClientPortDelete ==
    /\ Idle
    /\ \E p \in Listed(doc, "port") : members[p] = <<>> /\ doc' = Removed(doc, "port", p)
    /\ UNCHANGED <<rows, running, members, portOf>>

\* menuSlotPortNewDevice; menuSlotDeviceNew with a port of the project;
\* menuSlotDeviceImport, which takes the port of that name, or the current
\* one, or the first.
ClientDeviceNew ==
    /\ Idle
    /\ \E p \in Listed(doc, "port"), d \in Gone(doc, "device"), n \in DeviceNames :
         /\ doc' = Added(doc, "device", d, n)
         /\ Settle(Joined(Members, p, d))
    /\ UNCHANGED <<rows, running>>

\* menuSlotDeviceNew with a port that is made for it.
ClientDeviceNewPort ==
    /\ Idle
    /\ \E p \in Gone(doc, "port"), d \in Gone(doc, "device"), m \in PortNames, n \in DeviceNames :
         /\ doc' = Added(Added(doc, "port", p, m), "device", d, n)
         /\ Settle(Joined(Members, p, d))
    /\ UNCHANGED <<rows, running>>

\* editDevice: to another port of the project.
ClientDeviceEdit ==
    /\ Idle
    /\ \E d \in Listed(doc, "device"), p \in Listed(doc, "port"), n \in DeviceNames :
         /\ Settle(IF p = portOf[d] THEN Members ELSE Moved(Members, p, d))
         /\ doc' = Renamed(doc, "device", d, n)
    /\ UNCHANGED <<rows, running>>

\* editDevice: to a port that is made for it.
ClientDeviceEditPort ==
    /\ Idle
    /\ \E d \in Listed(doc, "device"), p \in Gone(doc, "port"), m \in PortNames, n \in DeviceNames :
         /\ Settle(Moved(Members, p, d))
         /\ doc' = Renamed(Added(doc, "port", p, m), "device", d, n)
    /\ UNCHANGED <<rows, running>>

ClientDeviceDelete ==
    /\ Idle
    /\ \E d \in Listed(doc, "device") :
         /\ Settle(Parted(Members, portOf[d], d))
         /\ doc' = Removed(doc, "device", d)
         /\ rows' = Forgotten(rows, {d})
    /\ UNCHANGED running

\* Its loop: all devices of a port leave it, and leave the project.
AllParted(p) ==
    LET parted[i \in 0..Len(members[p])] ==
            IF i = 0 THEN Members ELSE Parted(parted[i - 1], p, members[p][i])
    IN  parted[Len(members[p])]
AllRemoved(p) ==
    LET removed[i \in 0..Len(members[p])] ==
            IF i = 0 THEN doc ELSE Removed(removed[i - 1], "device", members[p][i])
    IN  removed[Len(members[p])]

PortClearAllDevice ==
    /\ Idle
    /\ \E p \in Listed(doc, "port") :
         /\ members[p] # <<>>
         /\ Settle(AllParted(p))
         /\ doc' = AllRemoved(p)
         /\ rows' = Forgotten(rows, ToSet(members[p]))
    /\ UNCHANGED running

ClientEdits ==
    \/ ClientPortNew \/ ClientPortDelete
    \/ ClientDeviceNew \/ ClientDeviceNewPort \/ ClientDeviceEdit \/ ClientDeviceEditPort
    \/ ClientDeviceDelete \/ PortClearAllDevice

-----------------------------------------------------------------------------
(* Files: mbClientDevice::portName and mbClientBuilder::toProject          *)

SavedMembers(d, s) == [x \in Devices |-> NameOf(d, s.portOf[x])]

\* The devices join the ports of that name once all are loaded.
JoinedByName(d, s, x, n) == IF Found(d, "port", n) = None THEN s ELSE Joined(s, Found(d, "port", n), x)
LoadedMembers(d, written) ==
    LET joined[i \in 0..Len(d.list["device"])] ==
            IF i = 0 THEN NoMembers
            ELSE JoinedByName(d, joined[i - 1], d.list["device"][i], written[d.list["device"][i]])
    IN  joined[Len(d.list["device"])]

-----------------------------------------------------------------------------
(* Properties                                                              *)

(* A device of the project is in the list of its own port, once, and in no
   other's (mbClientPort::m_devices against mbClientDevice::m_port): else it
   would be polled twice or by a port that is gone. *)
DeviceAtItsPort ==
    /\ \A p \in Ports : IsInjective(members[p])
    /\ \A p \in Ports, d \in Devices : d \in ToSet(members[p]) <=> portOf[d] = p
    /\ program = "client" =>
         \A d \in Devices : d \in Listed(doc, "device") <=> portOf[d] \in Listed(doc, "port")
=============================================================================
