-------------------------------- MODULE Forms --------------------------------
(***************************************************************************)
(* The dialogs in which the settings of an object are shown and edited.    *)
(* Each program has one dialog of a class, made when it starts: what the   *)
(* widgets hold stays there from one use to the next.                      *)
(***************************************************************************)
EXTENDS Settings

CONSTANTS
    FirstDevice,    \* the device that is first in the project
    SerialPorts,    \* the serial ports of the computer
    PortNames       \* names that ports of a client's project may have

ASSUME FormsAssumption ==
    /\ FirstDevice \in Devices
    /\ SerialPorts # {} /\ "" \notin SerialPorts
    /\ {"Port", "newPort"} \intersect PortNames = {}

IntMax == 2147483647

\* Widgets, and what each can hold.
Line == [widget |-> "line"]
Digits == [widget |-> "digits"]     \* a line whose text is read as a number
Spin(lo, hi) == [widget |-> "spin", lo |-> lo, hi |-> hi]
Combo(items) == [widget |-> "combo", items |-> items]
Check == [widget |-> "check"]
AddressOf(lo, hi) == [widget |-> "address", lo |-> lo, hi |-> hi]    \* a type and an offset from one
DeviceList == [widget |-> "devices"]

NoDefault(keys) == Combo(keys \ {"DefaultOrder", "DefaultDigitalFormat",
                                 "DefaultStringLengthType", "DefaultStringEncoding"})

ServerPortForm ==
    [name |-> Line, type |-> Combo({"TCP", "RTU", "ASC"}),
     port |-> Spin(0, 65535), timeout |-> Spin(0, IntMax),
     serialPortName |-> Combo(SerialPorts), baudRate |-> Combo({9600, 115200}),
     dataBits |-> Combo({"Data7", "Data8"}), parity |-> Combo({"NoParity", "EvenParity"}),
     stopBits |-> Combo({"OneStop", "TwoStop"}),
     flowControl |-> Combo({"NoFlowControl", "HardwareControl"}),
     timeoutFirstByte |-> Spin(0, IntMax), timeoutInterByte |-> Spin(0, IntMax)]

ClientPortForm == ServerPortForm @@ [host |-> Line]

DeviceForm ==
    [name |-> Line,
     maxReadCoils |-> Spin(1, 2040), maxReadDiscreteInputs |-> Spin(1, 2040),
     maxReadHoldingRegisters |-> Spin(1, 127), maxReadInputRegisters |-> Spin(1, 127),
     maxWriteMultipleCoils |-> Spin(1, 2040), maxWriteMultipleRegisters |-> Spin(1, 127),
     registerOrder |-> NoDefault(Orders), byteArrayFormat |-> NoDefault(DigitalFormats),
     byteArraySeparator |-> Line, stringLengthType |-> NoDefault(LengthTypes),
     stringEncoding |-> NoDefault(Encodings)]

\* portChoice: "new" or a port of the project; portName is the name of either.
ClientDeviceForm == DeviceForm @@ [unit |-> Spin(0, 255), portName |-> Line]

ServerDeviceForm == DeviceForm @@
    [count0x |-> Spin(0, 65535), count1x |-> Spin(0, 65535), count3x |-> Spin(0, 65535),
     count4x |-> Spin(0, 65535), isSaveData |-> Check, isReadOnly |-> Check,
     exceptionStatusAddress |-> AddressOf(1, 65536), delay |-> Spin(0, IntMax)]

ServerItemForm ==
    [device |-> DeviceList, address |-> AddressOf(1, 65536), format |-> Combo(Formats),
     byteOrder |-> NoDefault(Orders), registerOrder |-> Combo(Orders),
     byteArrayFormat |-> Combo(DigitalFormats), byteArraySeparator |-> Line,
     stringLengthType |-> Combo(LengthTypes), stringEncoding |-> Combo(Encodings)]

ClientItemForm == ServerItemForm @@ [period |-> Spin(0, IntMax)]

ActionForm ==
    [device |-> DeviceList, address |-> AddressOf(0, 65535), dataType |-> Combo(DataTypes),
     period |-> Spin(0, IntMax), actionType |-> Combo({"Increment", "Sine", "Random"}),
     byteOrder |-> NoDefault(Orders), registerOrder |-> NoDefault(Orders),
     incrementValue |-> Line, sinePeriod |-> Digits, sinePhaseShift |-> Digits,
     sineAmplitude |-> Line, sineVerticalShift |-> Line, randomMin |-> Line, randomMax |-> Line]

ViewForm == [name |-> Line, period |-> Spin(0, IntMax)]
ProjectForm == [name |-> Line, author |-> Line, comment |-> Line]

Form == [clientPort |-> ClientPortForm, serverPort |-> ServerPortForm,
         clientDevice |-> ClientDeviceForm, serverDevice |-> ServerDeviceForm,
         clientItem |-> ClientItemForm, serverItem |-> ServerItemForm, action |-> ActionForm,
         view |-> ViewForm, project |-> ProjectForm]

-----------------------------------------------------------------------------
Clamp(lo, hi, v) == IF v < lo THEN lo ELSE IF v > hi THEN hi ELSE v

\* What a widget that holds old shows after setValue or setCurrentText of v.
Shown(w, old, v) ==
    CASE w.widget \in {"line", "digits", "check"} -> v
      [] w.widget = "spin" -> Clamp(w.lo, w.hi, v)
      [] w.widget = "combo" -> IF v \in w.items THEN v ELSE old
      [] w.widget = "address" -> 100000 * MemoryType(v) + Clamp(w.lo, w.hi, Offset(v) + 1)
      [] w.widget = "devices" -> IF v = None THEN FirstDevice ELSE v  \* cleared and filled

\* A widget can show v, whatever it held.
CanShow(w, v) ==
    CASE w.widget \in {"line", "digits", "check"} -> TRUE
      [] w.widget = "spin" -> v \in w.lo..w.hi
      [] w.widget = "combo" -> v \in w.items
      [] w.widget = "address" -> Offset(v) + 1 \in w.lo..w.hi
      [] w.widget = "devices" -> v # None

\* What is read from a widget: of an offset, the 16 bits below it.
Read(w, v) == IF w.widget = "address"
              THEN 100000 * MemoryType(v) + ((Offset(v) % 65536) + 1)
              ELSE v

Fill(widgets, form, given) ==
    [f \in DOMAIN form |-> IF f \in DOMAIN widgets \intersect DOMAIN given
                           THEN Shown(widgets[f], form[f], given[f]) ELSE form[f]]

-----------------------------------------------------------------------------
(* The length of an item with its format                                   *)

Variable == {"ByteArray", "String"}
LengthClamp(class, n) == IF class = "clientItem" THEN Clamp(0, 32000, n) ELSE Clamp(1, IntMax, n)

\* formatChanged, with the length that was asked for last.
FormatChanged(class, form, format) ==
    IF format \in Variable
    THEN LET n == LengthClamp(class, form.variableLength)
         IN  [form EXCEPT !.format = format, !.variableLength = n, !.length = n]
    ELSE [form EXCEPT !.format = format, !.length = LengthClamp(class, FormatSize[format])]

\* setVariableLength: the widget is set when it shows the length of a string.
LengthGiven(class, form, n) ==
    IF form.format = "String"
    THEN [form EXCEPT !.variableLength = LengthClamp(class, n), !.length = LengthClamp(class, n)]
    ELSE [form EXCEPT !.variableLength = n]

-----------------------------------------------------------------------------
(* A form is filled and read                                               *)

\* What the widgets hold when the program has started.
Untouched(class) ==
    LET base == [f \in DOMAIN Form[class] |->
                   IF CanShow(Form[class][f], AllFields[class][f].default)
                   THEN AllFields[class][f].default
                   ELSE CASE Form[class][f].widget = "combo" -> CHOOSE v \in Form[class][f].items : TRUE
                          [] Form[class][f].widget = "devices" -> FirstDevice]
    IN  CASE class \in {"clientPort", "serverPort"} -> [base EXCEPT !.name = ""]
          [] class = "clientDevice" ->
               [base EXCEPT !.portName = "Port", !.maxWriteMultipleCoils = 2040]
                   @@ [portChoice |-> "new", portLocked |-> FALSE, portSettings |-> "initial"]
          [] class = "serverDevice" ->
               [base EXCEPT !.byteArraySeparator = ",", !.maxWriteMultipleCoils = 2040,
                            !.exceptionStatusAddress = 400001]
                   @@ [units |-> {1}, deviceChoice |-> 0]
          [] class \in {"clientItem", "serverItem"} ->
               [base EXCEPT !.registerOrder = "DefaultOrder",
                            !.byteArrayFormat = "DefaultDigitalFormat",
                            !.byteArraySeparator = " ",
                            !.stringLengthType = "DefaultStringLengthType",
                            !.stringEncoding = "DefaultStringEncoding"]
                   @@ [variableLength |-> 20, length |-> 2]
          [] OTHER -> base

\* setPort: the part for a port shows the one that is chosen.
PortChosen(form, ports, choice) ==
    IF choice \in DOMAIN ports
    THEN [form EXCEPT !.portChoice = choice, !.portName = choice, !.portSettings = ports[choice]]
    ELSE [form EXCEPT !.portChoice = "new"]

FillAction_KeepsPeriod(form, s) ==
    Fill([f \in DOMAIN ActionForm \ {"period"} |-> ActionForm[f]], form,
         [s EXCEPT !.dataType = "Bit", !.byteOrder = "LessSignifiedFirst",
                   !.registerOrder = "LessSignifiedFirst"])

\* An action's data type comes as a name and is read as a number, which gives
\* the first type; the widgets of the types that it is not of are not touched.
FillAction(form, s) ==
    Fill(ActionForm, form, [s EXCEPT !.dataType = "Bit",
                                     !.byteOrder = "LessSignifiedFirst",
                                     !.registerOrder = "LessSignifiedFirst"])

\* The length is set before the format is.
FillFormat(class, form, s) ==
    LET a == LengthGiven(class, form, s.variableLength)
    IN  IF s.format = a.format THEN a ELSE FormatChanged(class, a, s.format)

FillItem(class, form, s) ==
    LET byteOrder == IF s.byteOrder = "DefaultOrder" THEN "LessSignifiedFirst" ELSE s.byteOrder
    IN  Fill(Form[class], FillFormat(class, form, s),
             [f \in DOMAIN s \ {"format"} |-> IF f = "byteOrder" THEN byteOrder ELSE s[f]])

\* fillForm() with the settings of an object.
FillForm(class, form, s, ports) ==
    CASE class = "action" -> FillAction(form, s)
      [] class \in {"clientItem", "serverItem"} -> FillItem(class, form, s)
      [] class = "clientDevice" ->
           PortChosen([Fill([f \in DOMAIN ClientDeviceForm \ {"portName"} |-> ClientDeviceForm[f]],
                            form, s) EXCEPT !.portLocked = FALSE],
                      ports, IF s.portName \in DOMAIN ports THEN s.portName ELSE "new")
      [] OTHER -> Fill(Form[class], form, s)

\* fillForm() for a new device of a port: the list of ports is disabled.
FillForPort(form, ports, port) == [PortChosen(form, ports, port) EXCEPT !.portLocked = TRUE]

\* fillForm() without settings: the lists of devices and of ports are new.
FillNew(class, form) ==
    CASE class \in {"action", "clientItem", "serverItem"} -> [form EXCEPT !.device = FirstDevice]
      [] class = "clientDevice" -> [form EXCEPT !.portChoice = "new"]
      [] OTHER -> form

ReadForm(class, form) == [f \in DOMAIN Form[class] |-> Read(Form[class][f], form[f])]

FillDataAction(form) ==
    LET others == DOMAIN ActionExtended \ {form.actionType}
        fields == DOMAIN ActionForm \ UNION {DOMAIN ActionExtended[t] : t \in others}
    IN  [f \in fields |-> Read(ActionForm[f], form[f])]

\* The length is given for a string, and not for an array of bytes.
FillDataItem(class, form) ==
    ReadForm(class, form) @@ IF form.format = "String" THEN [variableLength |-> form.length] ELSE <<>>

\* fillData().
FillData(class, form) ==
    CASE class = "action" -> FillDataAction(form)
      [] class \in {"clientItem", "serverItem"} -> FillDataItem(class, form)
      [] OTHER -> ReadForm(class, form)

-----------------------------------------------------------------------------
(* The user                                                                *)

\* What the user may put in a widget: of each kind, enough to tell them apart.
MayType(w) ==
    CASE w.widget = "line" -> {"", "text"}
      [] w.widget = "digits" -> {Unreadable, 5}
      [] w.widget = "spin" -> {w.hi}
      [] w.widget = "combo" -> w.items
      [] w.widget = "check" -> BOOLEAN
      [] w.widget = "address" -> {w.lo, 465535}
      [] w.widget = "devices" -> Devices

\* The form after the user put v in the widget of f.
Typed(class, form, f, v) ==
    CASE f = "format" -> IF v = form.format THEN form ELSE FormatChanged(class, form, v)
      [] f = "length" -> [form EXCEPT !.length = v, !.variableLength = v]
      [] OTHER -> [form EXCEPT ![f] = v]
=============================================================================
