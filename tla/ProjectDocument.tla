-------------------------- MODULE ProjectDocument --------------------------
(***************************************************************************)
(* The project that both programs edit: its ports, devices and data views  *)
(* and the names they are found by (mbCoreProject), the rows of a view,    *)
(* and the menu commands of mbCoreUi.                                      *)
(*                                                                         *)
(* An object is a member of a pool.  An object out of the project is gone. *)
(***************************************************************************)
EXTENDS Naturals, SequencesExt

CONSTANTS
    Ports, Devices, Views,  \* pools of objects
    PortNames, DeviceNames, ViewNames,  \* names they may have, the default one too
    None,                   \* nullptr, and the name of what is gone
    MaxViews,               \* bound: the data views a program has
    MaxRows                 \* bound: its rows, those of all lists together

Programs == {"client", "server"}
Kinds == {"port", "device", "view"}
Pool == [port |-> Ports, device |-> Devices, view |-> Views]
Names == [port |-> PortNames, device |-> DeviceNames, view |-> ViewNames]
AllNames == PortNames \union DeviceNames \union ViewNames
Objects == Ports \union Devices \union Views

ASSUME ProjectAssumption ==
    /\ \A k, l \in Kinds : k # l => Pool[k] \intersect Pool[l] = {}
    /\ None \notin AllNames \union Objects
    \* There is always a name that is not taken.
    /\ \A k \in Kinds : \A f \in [Pool[k] -> Names[k]] :
            \E n \in Names[k] : \A o \in Pool[k] : f[o] # n
    /\ "actions" \notin Views
    /\ MaxViews \in [Programs -> Nat] /\ MaxRows \in [Programs -> Nat]

VARIABLES
    program,    \* "client" or "server"
    doc,        \* the objects of the project and their names
    rows,       \* the rows of a list: the device each refers to
    running     \* mbCoreRuntime::isRunning

\* The lists of rows: the items of a view, the actions of a server's project.
Lists == Views \union {"actions"}

Empty == [list |-> [k \in Kinds |-> <<>>],            \* m_ports, m_devices, m_dataViews
          key  |-> [k \in Kinds |-> [n \in Names[k] |-> None]],  \* m_hashPorts and so on
          name |-> [o \in Objects |-> None]]          \* QObject::objectName

Listed(d, k) == ToSet(d.list[k])
Gone(d, k) == Pool[k] \ Listed(d, k)

-----------------------------------------------------------------------------
(* mbCoreProject: one operator for ports, devices and data views           *)

\* freePortName and the like: a name nothing is found by.
FreeName(d, k) == CHOOSE n \in Names[k] : d.key[k][n] = None
Given(d, k, asked) == IF d.key[k][asked] = None THEN asked ELSE FreeName(d, k)

\* portInsert, deviceInsert, dataViewInsert.
Added(d, k, o, asked) ==
    LET n == Given(d, k, asked)
    IN  [list |-> [d.list EXCEPT ![k] = Append(@, o)],
         key  |-> [d.key EXCEPT ![k][n] = o],
         name |-> [d.name EXCEPT ![o] = n]]

\* portRemove, deviceRemove, dataViewRemove: whatever has the name loses it.
Removed(d, k, o) ==
    [list |-> [d.list EXCEPT ![k] = RemoveFirst(@, o)],
     key  |-> [d.key EXCEPT ![k][d.name[o]] = None],
     name |-> [d.name EXCEPT ![o] = None]]

\* setName and portRename: a data view takes the name that was asked for, and
\* its project keeps the one that was free.
Renamed(d, k, o, asked) ==
    LET n == IF d.key[k][asked] = o THEN asked ELSE Given(d, k, asked)
    IN  [d EXCEPT !.key[k] = IF @[asked] # o /\ @[d.name[o]] = o /\ @[n] = None
                             THEN [@ EXCEPT ![d.name[o]] = None, ![n] = o]
                             ELSE @,
                  !.name[o] = IF k = "view" THEN asked ELSE n]

-----------------------------------------------------------------------------
(* Rows                                                                    *)

\* What the client runs may not change under it; the server runs no views.
MayEdit == program = "server" \/ ~running
MayEditRows(l) == IF l = "actions" THEN program = "server" /\ ~running ELSE MayEdit
Open(l) == l = "actions" \/ l \in Listed(doc, "view")
Room(n) == n + FoldSet(LAMBDA l, sum : sum + Len(rows[l]), 0, Lists) <= MaxRows[program]

\* menuSlotDataViewItemNew, menuSlotActionNew, and items that are imported or
\* pasted, whose device is found by its name.
NewRows(l) ==
    /\ MayEditRows(l) /\ Open(l)
    /\ \E d \in Listed(doc, "device") \union {None}, n \in 1..MaxRows[program], at \in 0..Len(rows[l]) :
         /\ Room(n)
         /\ rows' = [rows EXCEPT ![l] = SubSeq(@, 1, at) \o [i \in 1..n |-> d]
                                          \o SubSeq(@, at + 1, Len(@))]
    /\ UNCHANGED <<doc, running>>

\* menuSlotDataViewItemInsert, menuSlotActionInsert: a copy of the row before
\* it, or a row of the first device.
InsertRow(l) ==
    /\ MayEditRows(l) /\ Open(l) /\ Room(1)
    /\ \E at \in 1..(Len(rows[l]) + 1) :
         LET first == IF doc.list["device"] = <<>> THEN None ELSE doc.list["device"][1]
         IN  rows' = [rows EXCEPT ![l] =
                        InsertAt(@, at, IF at > 1 THEN @[at - 1] ELSE first)]
    /\ UNCHANGED <<doc, running>>

\* menuSlotDataViewItemEdit, menuSlotActionEdit.
EditRow(l) ==
    /\ MayEditRows(l) /\ Open(l)
    /\ \E i \in DOMAIN rows[l], d \in Listed(doc, "device") \union {None} :
         rows' = [rows EXCEPT ![l][i] = d]
    /\ UNCHANGED <<doc, running>>

\* menuSlotDataViewItemDelete, menuSlotActionDelete, menuSlotEditDelete.
DeleteRow(l) ==
    /\ MayEditRows(l) /\ Open(l)
    /\ \E i \in DOMAIN rows[l] : rows' = [rows EXCEPT ![l] = RemoveAt(@, i)]
    /\ UNCHANGED <<doc, running>>

\* A row's QPointer when its device is deleted.
Forgotten(r, gone) == [l \in Lists |-> [i \in DOMAIN r[l] |-> IF r[l][i] \in gone THEN None ELSE r[l][i]]]

-----------------------------------------------------------------------------
(* Data views                                                              *)

\* Bound: the program never runs out of names for views, each of which may
\* keep names that it no longer has.
ViewNameLeft == \E n \in ViewNames : doc.key["view"][n] = None

\* menuSlotDataViewNew, menuSlotDataViewInsert, menuSlotDataViewImport.
NewView ==
    /\ MayEdit /\ Len(doc.list["view"]) < MaxViews[program] /\ ViewNameLeft
    /\ \E v \in Gone(doc, "view"), n \in ViewNames : doc' = Added(doc, "view", v, n)
    /\ UNCHANGED <<rows, running>>

\* menuSlotDataViewEdit.
EditView ==
    /\ MayEdit /\ ViewNameLeft
    /\ \E v \in Listed(doc, "view"), n \in ViewNames : doc' = Renamed(doc, "view", v, n)
    /\ UNCHANGED <<rows, running>>

\* menuSlotDataViewDelete.
DeleteView ==
    /\ MayEdit
    /\ \E v \in Listed(doc, "view") :
         /\ doc' = Removed(doc, "view", v)
         /\ rows' = [rows EXCEPT ![v] = <<>>]
    /\ UNCHANGED running

\* menuSlotPortEdit.
EditPort ==
    /\ ~running
    /\ \E p \in Listed(doc, "port"), n \in PortNames : doc' = Renamed(doc, "port", p, n)
    /\ UNCHANGED <<rows, running>>

-----------------------------------------------------------------------------
(* Files: what mbCoreBuilder writes and makes of it                        *)

NameOf(d, o) == IF o = None THEN None ELSE d.name[o]
Found(d, k, n) == IF n = None THEN None ELSE d.key[k][n]

\* toDomProject, but for the objects' own data.
Saved(d, r) ==
    [list |-> d.list, name |-> d.name,
     rows |-> [l \in Lists |-> [i \in DOMAIN r[l] |-> NameOf(d, r[l][i])]]]

\* toProject adds each object of a kind as it was written.
LoadedKind(d, k, file) ==
    LET added[i \in 0..Len(file.list[k])] ==
            IF i = 0 THEN d
            ELSE Added(added[i - 1], k, file.list[k][i], file.name[file.list[k][i]])
    IN  added[Len(file.list[k])]
LoadedRows(d, file) == [l \in Lists |-> [i \in DOMAIN file.rows[l] |-> Found(d, "device", file.rows[l][i])]]

-----------------------------------------------------------------------------
DocInit ==
    /\ program \in Programs
    /\ doc = Empty
    /\ rows = [l \in Lists |-> <<>>]
    /\ running = FALSE

DocTypeOK ==
    /\ \A k \in Kinds : Listed(doc, k) \subseteq Pool[k] /\ IsInjective(doc.list[k])
    /\ \A k \in Kinds : doc.key[k] \in [Names[k] -> Pool[k] \union {None}]
    /\ doc.name \in [Objects -> AllNames \union {None}]
    /\ \A l \in Lists : ToSet(rows[l]) \subseteq Listed(doc, "device") \union {None}
    /\ running \in BOOLEAN

(* A port or a device of the project is found by its name and by no other,
   and no name finds what is no longer in the project (m_hashPorts,
   m_hashDevices against objectName). *)
NamesAreKeys ==
    \A k \in {"port", "device"} :
        /\ \A o \in Listed(doc, k) : doc.name[o] # None /\ doc.key[k][doc.name[o]] = o
        /\ \A n \in Names[k] : doc.key[k][n] # None =>
             doc.key[k][n] \in Listed(doc, k) /\ doc.name[doc.key[k][n]] = n
=============================================================================
