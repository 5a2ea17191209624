--------------------------- MODULE SettingsDialogs ---------------------------
(***************************************************************************)
(* Objects of one class are made and edited in the class's dialog, and the *)
(* project they are in is saved, cut short by a crash, and opened again.   *)
(* A dialog is modal: nothing else is done while it is shown.              *)
(***************************************************************************)
EXTENDS Forms, SequencesExt

CONSTANTS
    Units,          \* units of a server's port
    Garbage,        \* what an integer that nobody initialized may be
    MaxObjects,     \* bound: objects of the class
    MaxDialogs,     \* bound: dialogs that are opened
    MaxTyped,       \* bound: what the user types in all of them
    MaxUses         \* bound: dialogs, and times that the file is written or read

VARIABLES
    class,      \* the class of the objects
    objs,       \* the project's objects of that class, in their order
    ports,      \* the other objects that dialogs read: a client's ports
    form,       \* what the widgets of the class's dialog hold
    dialog,     \* the dialog that is shown
    file,       \* the project file: the objects in it, as far as they were written
    saved,      \* history: the objects when the file was written
    turns       \* what MaxDialogs, MaxTyped and MaxUses count

vars == <<class, objs, ports, form, dialog, file, saved, turns>>

Rows == {"clientItem", "serverItem", "action"}
Closed == [mode |-> "closed", sel |-> {}, typed |-> {}]
NoFile == [objs |-> <<>>, cut |-> {}, whole |-> 0]
NoReference == {None}   \* of a server's device that no port refers to

Made(c) == CASE c = "serverDevice" -> New(c) @@ [units |-> NoReference]
             [] c = "clientDevice" -> [New(c) EXCEPT !.portName = "P1"]
             [] OTHER -> New(c)
Empty(c) == IF c = "project" THEN <<Made(c)>> ELSE <<>>
Fields == AllFields[class]

\* What a field may be in a project from another computer or version.
Foreign(name, f) ==
    CASE name = "portName" -> {"P1", "P2"}
      [] f.kind = "name" -> {f.default}
      [] f.kind = "text" -> {"text"}
      [] f.kind = "number" -> IF f.top = 65535 THEN {0} ELSE {f.top}
      [] f.kind = "loose" -> {0, 7}
      [] f.kind = "enum" -> f.keys \ {f.default}
      [] f.kind = "flag" -> {~f.default}
      [] f.kind \in {"address", "loose address"} -> {1, 465536}
      [] f.kind = "device" -> Devices
      [] f.kind = "unread" -> {f.default}

\* An action has the fields of its type.
OfType(f) == IF class # "action" THEN {Made(class)}
             ELSE {[Made(class) EXCEPT !.actionType = t] :
                     t \in {t \in DOMAIN ActionExtended :
                             f \in DOMAIN ActionCommon \union DOMAIN ActionExtended[t]}}

Init ==
    /\ class \in Classes
    /\ \/ objs = Empty(class)
       \/ \E f \in DOMAIN Fields : \E v \in Foreign(f, Fields[f]) :
            \E o \in OfType(f) : objs = <<[o EXCEPT ![f] = v]>>
    /\ ports = IF class = "clientDevice" THEN [p \in {"P1", "P2"} |-> p] ELSE <<>>
    /\ \E n \in Garbage : form = IF class = "serverItem"
                                 THEN [Untouched(class) EXCEPT !.variableLength = n]
                                 ELSE Untouched(class)
    /\ dialog = Closed /\ file = NoFile /\ saved = <<>>
    /\ turns = [dialogs |-> 0, typed |-> 0, uses |-> 0]

-----------------------------------------------------------------------------
(* A dialog is shown                                                       *)

Show(mode, sel, filled) ==
    /\ dialog = Closed /\ turns.dialogs < MaxDialogs /\ turns.uses < MaxUses
    /\ form' = filled
    /\ dialog' = [mode |-> mode, sel |-> sel, typed |-> {}]
    /\ turns' = [turns EXCEPT !.dialogs = @ + 1, !.uses = @ + 1]
    /\ UNCHANGED <<class, objs, ports, file, saved>>

Room == class # "project" /\ Len(objs) < MaxObjects

OpenNew == Room /\ Show("new", {}, FillNew(class, form))

\* menuSlotPortNewDevice.
OpenForPort ==
    /\ class = "clientDevice" /\ Room
    /\ \E p \in DOMAIN ports : Show("new", {}, FillForPort(form, ports, p))

\* The first of the objects that are selected is shown.
OpenEdit ==
    \E i, j \in DOMAIN objs :
      /\ i = j \/ (i < j /\ class \in Rows)
      /\ Show("edit", i..j, FillForm(class, form, SettingsOf(class, objs[i]), ports))

Referenced(o) == o.units # NoReference

\* The dialog of server devices for a device and its reference in a port, for
\* a new one, and to choose one of the devices.
OpenReference ==
    /\ class = "serverDevice"
    /\ \/ Room /\ Show("new reference", {}, form)
       \/ \E i \in DOMAIN objs :
            /\ Referenced(objs[i])
            /\ Show("edit reference", {i},
                    [FillForm(class, form, objs[i], ports) EXCEPT !.units = objs[i].units])
       \/ Show("choose", {},
               IF objs = <<>> THEN [form EXCEPT !.units = {}, !.deviceChoice = 0]
               ELSE [FillForm(class, form, objs[1], ports) EXCEPT !.units = {}, !.deviceChoice = 1])

-----------------------------------------------------------------------------
(* The user types                                                          *)

Shows(f) ==
    CASE dialog.mode = "choose" -> FALSE
      [] class = "action" -> \A t \in DOMAIN ActionExtended :
                               f \in DOMAIN ActionExtended[t] => t = form.actionType
      [] class = "clientDevice" /\ f = "portName" -> form.portChoice = "new"
      [] OTHER -> TRUE

TypeField(f, v, filled) ==
    /\ dialog # Closed /\ turns.typed < MaxTyped
    /\ v # form[f]
    /\ form' = filled
    /\ dialog' = [dialog EXCEPT !.typed = @ \union {f}]
    /\ turns' = [turns EXCEPT !.typed = @ + 1]
    /\ UNCHANGED <<class, objs, ports, file, saved>>

Type == \E f \in DOMAIN Form[class] : \E v \in MayType(Form[class][f]) :
          Shows(f) /\ TypeField(f, v, Typed(class, form, f, v))

TypeLength ==
    /\ class \in {"clientItem", "serverItem"} /\ form.format \in Variable
    /\ \E n \in {7, 20} : TypeField("length", n, Typed(class, form, "length", n))

ChoosePort ==
    /\ class = "clientDevice" /\ ~form.portLocked
    /\ \E p \in DOMAIN ports \union {"new"} : TypeField("portChoice", p, PortChosen(form, ports, p))

TypePort ==
    /\ class = "clientDevice" /\ form.portChoice = "new"
    /\ TypeField("portSettings", "typed", [form EXCEPT !.portSettings = "typed"])

TypeUnits ==
    /\ dialog.mode \in {"new reference", "edit reference", "choose"}
    /\ \E us \in SUBSET Units : TypeField("units", us, [form EXCEPT !.units = us])

\* setCurrentDevice.
ChooseDevice ==
    /\ dialog.mode = "choose"
    /\ \E i \in DOMAIN objs :
         TypeField("deviceChoice", i, [FillForm(class, form, objs[i], ports) EXCEPT !.deviceChoice = i])

-----------------------------------------------------------------------------
(* A dialog is closed                                                      *)

Close == dialog' = Closed /\ UNCHANGED <<class, form, file, saved, turns>>

Reject ==
    /\ dialog # Closed /\ turns.uses < MaxUses   \* bound: nothing can follow
    /\ Close /\ UNCHANGED <<objs, ports>>

\* Each row has the address after the one before it.
Chain(old, given) ==
    LET row[i \in DOMAIN old] ==
          SetSettings(class, old[i],
                      IF i = 1 THEN given
                      ELSE [given EXCEPT !.address = NextAddress(class, row[i - 1])])
    IN  row

AcceptRows ==
    /\ class \in Rows
    /\ LET given == FillData(class, form)
       IN  \/ /\ dialog.mode = "new"
              /\ \E n \in 1..(MaxObjects - Len(objs)) :
                   objs' = objs \o Chain([i \in 1..n |-> Made(class)], given)
           \/ /\ dialog.mode = "edit"
              /\ LET first == CHOOSE i \in dialog.sel : \A j \in dialog.sel : i <= j
                     changed == Chain([i \in 1..Cardinality(dialog.sel) |-> objs[first + i - 1]], given)
                 IN  objs' = [i \in DOMAIN objs |-> IF i \in dialog.sel THEN changed[i - first + 1]
                                                    ELSE objs[i]]
    /\ Close /\ UNCHANGED ports

Changed(given) == [i \in DOMAIN objs |-> IF i \in dialog.sel THEN SetSettings(class, objs[i], given)
                                         ELSE objs[i]]

AcceptObject ==
    /\ class \in {"clientPort", "serverPort", "serverDevice", "view", "project"}
    /\ LET given == FillData(class, form)
       IN  \/ dialog.mode = "new" /\ objs' = Append(objs, SetSettings(class, Made(class), given))
           \/ dialog.mode = "edit" /\ objs' = Changed(given)
    /\ Close /\ UNCHANGED ports

\* portAdd: a name that is taken is replaced with one that is free.
PortAdded(name) ==
    IF name # "" /\ name \notin DOMAIN ports THEN name
    ELSE IF name = "" /\ "Port" \notin DOMAIN ports THEN "Port"
    ELSE CHOOSE n \in PortNames : n \notin DOMAIN ports

\* The device joins the port that is chosen, or a new one that has the settings
\* which the dialog shows.
AcceptClientDevice ==
    /\ class = "clientDevice" /\ dialog # Closed
    /\ LET new == form.portChoice = "new"
           port == IF new THEN PortAdded(form.portName) ELSE form.portName
           given == [FillData(class, form) EXCEPT !.portName = port]
       IN  /\ ports' = IF new THEN ports @@ (port :> form.portSettings) ELSE ports
           /\ objs' = IF dialog.mode = "edit" THEN Changed(given)
                      ELSE Append(objs, SetSettings(class, Made(class), given))
    /\ Close

\* deviceFilterUnits: a unit answers for one device.
Free(i, us) == us \ UNION {objs[j].units : j \in DOMAIN objs \ {i}}

AcceptReference ==
    /\ class = "serverDevice"
    /\ LET given == FillData(class, form)
           referred(i, us) == [objs EXCEPT ![i].units = Free(i, us)]
       IN  CASE dialog.mode = "new reference" ->
                  objs' = Append(objs, [SetSettings(class, Made(class), given)
                                          EXCEPT !.units = Free(0, form.units)])
             [] dialog.mode = "edit reference" ->
                  objs' = LET i == CHOOSE i \in dialog.sel : TRUE
                          IN  [Changed(given) EXCEPT ![i].units = Free(i, form.units)]
             [] dialog.mode = "choose" ->
                  \* The device that has the name which the disabled part shows.
                  objs' = IF form.deviceChoice = 0 THEN objs
                          ELSE LET i == form.deviceChoice
                               IN  referred(i, IF Referenced(objs[i]) THEN form.units \union objs[i].units
                                               ELSE form.units)
             [] OTHER -> FALSE
    /\ Close /\ UNCHANGED ports

-----------------------------------------------------------------------------
(* The project file                                                        *)

Written(o) == IF class = "serverDevice" THEN o ELSE SettingsOf(class, o)

\* A server's device and the units of the port that refers to it.
LoadedDevice(w) ==
    SetSettings(class, New(class), w)
      @@ [units |-> IF "units" \in DOMAIN w THEN w.units ELSE NoReference]

\* Each tag of an action is set, those that are not there as what the document
\* has of them: an empty text, and a period of 0.
LoadedAction(w) ==
    LET given == w @@ [address |-> Unreadable, period |-> 0]
    IN  SetSettings(class, New(class),
                    [given EXCEPT !.period = IF @ = Unreadable THEN 0 ELSE @])

Loaded(w) == CASE class = "serverDevice" -> LoadedDevice(w)
               [] class = "action" -> LoadedAction(w)
               [] OTHER -> SetSettings(class, New(class), w)

\* The file is written or read; it is written where it can still be read.
File(left) == dialog = Closed /\ turns.uses + left <= MaxUses
Used(n) == turns' = [turns EXCEPT !.uses = n]

Save ==
    /\ File(2) /\ objs # saved /\ Used(turns.uses + 1)
    /\ file' = [objs |-> [i \in DOMAIN objs |-> Written(objs[i])], cut |-> {}, whole |-> Len(objs)]
    /\ saved' = objs
    /\ UNCHANGED <<class, objs, ports, form, dialog>>

\* The text of v, cut short, as it is read.
Cut(f, v) ==
    CASE f.kind \in {"text", "name"} -> {"", "part"}
      [] f.kind \in {"number", "loose", "address", "loose address"} ->
           IF v < 10 THEN {Unreadable} ELSE {Unreadable, v \div 10}
      [] f.kind \in {"enum", "unread"} -> {""}
      [] f.kind = "flag" -> BOOLEAN
      [] f.kind = "device" -> Devices \union {None}

\* The tags of an object in the order in which they are written, with the
\* fields that each holds.  A data view is one tag with attributes.
RowTags == <<{"device"}, {"address"}, {"byteArrayFormat"}, {"byteArraySeparator"}, {"byteOrder"},
             {"comment"}, {"format"}, {"period"}, {"registerOrder"}, {"stringEncoding"},
             {"stringLengthType"}, {"variableLength"}>>
ActionTags == <<{"device"}, {"address"}, {"dataType"}, {"period"}, {"comment"}, {"actionType"},
                UNION {DOMAIN ActionExtended[t] : t \in DOMAIN ActionExtended},
                {"byteOrder"}, {"registerOrder"}>>
ProjectTags == <<{"name"}, {"author"}, {"comment"}>>
ViewTags == <<{"name", "period"}>>

Tags == CASE class \in {"clientItem", "serverItem"} -> RowTags
          [] class = "action" -> ActionTags
          [] class = "project" -> ProjectTags
          [] class = "view" -> ViewTags
          [] OTHER -> <<>>

\* Up to where an object can be written: some of its tags, and one that is cut.
\* A view that is cut is not read.  The tags of ports and devices are in the
\* order of a hash table.
InOrder == {[kept |-> UNION {Tags[j] : j \in 1..(n - 1)}, cut |-> {}] : n \in DOMAIN Tags}
             \union IF class = "view" THEN {}
                    ELSE {[kept |-> UNION {Tags[j] : j \in 1..(n - 1)}, cut |-> Tags[n]] : n \in DOMAIN Tags}

InNoOrder(fields) == {[kept |-> k, cut |-> c] : k \in {{}, fields}, c \in {{}} \union {{f} : f \in fields}}

Partial(o) ==
    LET different == {f \in DOMAIN Fields \intersect DOMAIN o : o[f] # Fields[f].default}
    IN  IF Tags = <<>> THEN InNoOrder(different) ELSE InOrder

\* What is read of an object that was written up to p.  Of a tag that holds the
\* settings of an action's type, those before the cut are whole.
Remains(o, p) ==
    LET cut == p.cut \intersect DOMAIN o
        Kept(fs) == [f \in fs \intersect DOMAIN o |-> o[f]]
    IN  IF cut = {} THEN {Kept(p.kept)}
        ELSE UNION {{(f :> v) @@ Kept(p.kept \union whole) :
                       v \in Cut(Fields[f], o[f]), whole \in {{}, cut \ {f}}} : f \in cut}

\* The program dies while it writes object k to the file, which it has emptied
\* before.
Crash ==
    /\ File(2) /\ objs # <<>>
    /\ Used(MaxUses - 1)   \* bound: what remains is opened, and not edited
    /\ saved' = objs
    /\ objs' = Empty(class)
    /\ form' = Untouched(class)
    /\ UNCHANGED <<class, ports, dialog>>
    /\ \E k \in DOMAIN objs :
       LET o == Written(objs[k])
           start == [objs |-> [i \in 1..(k - 1) |-> Written(objs[i])], cut |-> {"units"}, whole |-> k - 1]
       IN  \/ file' = start
           \/ \E p \in Partial(o) : \E part \in Remains(o, p) :
                file' = [start EXCEPT !.objs = Append(@, part), !.cut = @ \union p.cut]

\* loadXml: where the text ends too early, what was read is all there is.
Open ==
    /\ File(1) /\ file # NoFile /\ Used(turns.uses + 1)
    /\ objs' = IF file.objs = <<>> THEN Empty(class)
               ELSE [i \in DOMAIN file.objs |-> Loaded(file.objs[i])]
    /\ UNCHANGED <<class, ports, form, dialog, file, saved>>

Next ==
    \/ OpenNew \/ OpenForPort \/ OpenEdit \/ OpenReference
    \/ Type \/ TypeLength \/ ChoosePort \/ TypePort \/ TypeUnits \/ ChooseDevice
    \/ Reject \/ AcceptRows \/ AcceptObject \/ AcceptClientDevice \/ AcceptReference
    \/ Save \/ Crash \/ Open

Spec == Init /\ [][Next]_vars

-----------------------------------------------------------------------------
(* Properties                                                              *)

TypeOK ==
    /\ class \in Classes
    /\ \A i \in DOMAIN objs :
         /\ DOMAIN Fields \subseteq DOMAIN objs[i]
         /\ \A f \in DOMAIN Fields :
              CASE Fields[f].kind \in {"text", "name"} -> objs[i][f] \in STRING
                [] Fields[f].kind = "number" -> objs[i][f] \in 0..Fields[f].top
                [] Fields[f].kind = "loose" -> objs[i][f] \in Nat
                [] Fields[f].kind \in {"enum", "unread"} -> objs[i][f] \in STRING
                [] Fields[f].kind = "flag" -> objs[i][f] \in BOOLEAN
                [] Fields[f].kind = "device" -> objs[i][f] \in Devices \union {None}
                [] OTHER -> objs[i][f] = Normal(objs[i][f])
    /\ DOMAIN Form[class] \subseteq DOMAIN form
    /\ dialog.sel \subseteq DOMAIN objs

\* What a field that the user typed in has an effect on.
Touched ==
    dialog.typed
      \union (IF dialog.typed \intersect {"format", "length"} # {} THEN {"variableLength"} ELSE {})
      \union (IF dialog.typed \intersect {"portChoice", "portSettings"} # {} THEN {"portName"} ELSE {})
      \union (IF "actionType" \in dialog.typed
              THEN UNION {DOMAIN ActionExtended[t] : t \in DOMAIN ActionExtended} ELSE {})
      \* A device that has no port joins one.
      \union {f \in {"portName"} : class = "clientDevice" /\ \E i \in dialog.sel : objs[i][f] \notin DOMAIN ports}
      \* An action's data type is shown as the first one, whatever it is.
      \union (IF class = "action" THEN {"dataType"} ELSE {})

\* What is typed in f says what it is to be: a name that is empty and a text
\* that is no number do not.
Told(f) == CASE Fields[f].kind = "name" -> form[f] # ""
             [] Form[class][f].widget = "digits" -> form[f] # Unreadable
             [] Form[class][f].widget = "address" -> Offset(form[f]) \in 0..65535
             [] OTHER -> Fields[f].kind # "unread"

\* After a dialog is accepted, the objects that it did not show are as before;
\* of the one it showed, what the user typed is what it holds, and what the
\* user did not touch and the dialog could show has not changed, whatever was
\* left in the widgets by earlier uses (fillForm, fillData of each dialog, and
\* settings, setSettings of each class).
\* The dialog can show v in f, or does not show f.
IsShown(f, v) == CASE f \in DOMAIN Form[class] -> CanShow(Form[class][f], v)
                   [] f = "variableLength" -> LengthClamp(class, v) = v
                   [] OTHER -> TRUE

Edited(first) ==
    /\ \A i \in DOMAIN objs \ dialog.sel : objs'[i] = objs[i]
    /\ \A f \in DOMAIN Fields \ Touched : IsShown(f, objs[first][f]) => objs'[first][f] = objs[first][f]
    /\ \A f \in dialog.typed \intersect (DOMAIN Fields \ {"portName"}) :
         Told(f) => objs'[first][f] = form[f]

EditsKeep ==
    [][AcceptRows \/ AcceptObject \/ AcceptClientDevice \/ AcceptReference =>
         IF dialog.mode \in {"edit", "edit reference"}
         THEN Edited(CHOOSE i \in dialog.sel : \A j \in dialog.sel : i <= j)
         ELSE \A i \in DOMAIN objs : \A f \in DOMAIN Fields : objs'[i][f] = objs[i][f]
      ]_vars

\* What an object has in a field that its file says nothing of.
Absent(f) == CASE class = "action" /\ f = "period" -> 0
               [] class = "action" /\ f = "address" -> 1
               [] OTHER -> Fields[f].default

\* A project file that was written to its end is read back as it was, each
\* object with each field (toDom*, to*, write and read of each class).  Of one
\* that was cut short, the objects written before are whole, and the last has no
\* field that is neither what it was, nor what an object has that says nothing of
\* it, other than what was cut (core_builder.cpp:466 keeps what was read).
FileKeeps ==
    [][Open =>
        /\ \A i \in 1..file.whole : objs'[i] = saved[i]
        /\ \A i \in DOMAIN objs' : \A f \in DOMAIN Fields \ file.cut :
             objs'[i][f] \in {saved[i][f], Absent(f)}
        /\ file.cut = {} => Len(objs') = Len(saved)
      ]_vars
=============================================================================
