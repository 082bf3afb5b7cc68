----------------------------- MODULE SerialPorts -----------------------------
(***************************************************************************)
(* Who opens which serial port, with which parameters, and what the window *)
(* says of it: OptionsDialog (src/options/optionsdialog.cpp), Preference,  *)
(* Widget, SerialPortHelper, and what the pages, the three sessions and    *)
(* the live display do with their ports.                                   *)
(*                                                                         *)
(* Five objects have a QSerialPort of their own.  The options travel to    *)
(* them by signals; the live display reads the preferences itself.  The    *)
(* name of a port is a sequence of characters, <<>> when there is none;    *)
(* baud rate, data bits and parity are one value, the line.                *)
(***************************************************************************)
EXTENDS Integers, Sequences

CONSTANTS
  Names,    \* the names ports have
  Lines,    \* values of baud rate, data bits and parity
  Limits,   \* values of the display's limits
  Default,  \* the line and the limits when there is no tool.ini
  Refuse    \* may a driver refuse a parameter of a port that is open?

ASSUME PortsAssumption ==
  /\ Names \subseteq Seq(Nat) \ {<<>>}
  /\ Default \in Lines \cap Limits
  /\ Refuse \in BOOLEAN

VARIABLES
  prefs,     \* tool.ini: name, line, stop bits and limits
  plugged,   \* the ports that exist
  dialog,    \* the options dialog is shown
  listed,    \* the ports it lists while it is
  cfg,       \* the parameters of each QSerialPort
  held,      \* the port each user of one holds open, or <<>>
  desc,      \* the display's copy of the name of its port
  label,     \* the status line: is a port called open, by whom, which
  shown,     \* the limits the display works with
  accepted,  \* history: options were accepted since the program was started
  report     \* history: who opened a port last, what it was called, what it was

vars == <<prefs, plugged, dialog, listed, cfg, held, desc, label, shown, accepted, report>>

Ports    == {"ymodem", "transmit", "receive", "export", "exporter"}
Sessions == {"transmit", "receive", "exporter"}
Users    == Sessions \cup {"display"}

\* QSerialPort::StopBits; the options store these numbers.
OneStop == 1
TwoStop == 2
OneAndHalfStop == 3
StopBits == {OneStop, TwoStop, OneAndHalfStop}

Config == [name : Names \cup {<<>>}, line : Lines, stop : StopBits]
PrefsOf(c, lim) == [name |-> c.name, line |-> c.line, stop |-> c.stop, limits |-> lim]
Stored(p) == [name |-> p.name, line |-> p.line, stop |-> p.stop]

\* A QSerialPort as it is constructed.
Fresh == [name |-> <<>>, line |-> Default, stop |-> OneStop]

UnknownStopBits == -1

\* initPort() numbers the stop bits in their order.
DecodeStop(n) == CASE n = 1 -> OneStop [] n = 2 -> OneAndHalfStop [] n = 3 -> TwoStop
                   [] OTHER -> UnknownStopBits

initPort(p) == [Stored(p) EXCEPT !.stop = DecodeStop(p.stop)]

\* The program's start: all but the export page restore their parameters.
Restored(p) == [o \in Ports |-> IF o = "export" THEN Fresh ELSE initPort(p)]

Closed(by, name) == [open |-> FALSE, by |-> by, name |-> name]
Opened(by, name) == [open |-> TRUE, by |-> by, name |-> name]
NoReport == [by |-> "display", told |-> Fresh, used |-> Fresh]

Init ==
  /\ prefs = PrefsOf(Fresh, Default)
  /\ plugged \in SUBSET Names
  /\ dialog = FALSE /\ listed = {}
  /\ cfg = Restored(prefs)
  /\ held = [u \in Users |-> <<>>] /\ desc = <<>>
  /\ label = Closed("display", prefs.name)
  /\ shown = prefs.limits
  /\ accepted = FALSE /\ report = NoReport

-----------------------------------------------------------------------------
(* Setting and opening a port *)

\* setPort() and the slots that call it: name, line and stop bits in this
\* order, up to the first that fails.  Only a port that is open can refuse.
setPort(o, old, new) ==
  {new} \cup
  IF Refuse /\ o \in Sessions /\ held[o] # <<>>
  THEN {[old EXCEPT !.name = new.name], [new EXCEPT !.stop = old.stop]} ELSE {}

\* A driver opens a port that exists and that nobody holds.
CanOpen(name) == name \in plugged /\ \A u \in Users : held[u] # name

-----------------------------------------------------------------------------
(* The options *)

\* A port is plugged in or out.
Plug == /\ plugged' \in SUBSET Names
        /\ UNCHANGED <<prefs, dialog, listed, cfg, held, desc, label, shown, accepted, report>>

showOptionsDialog ==
  /\ ~dialog /\ dialog' = TRUE
  /\ listed' = plugged
  /\ UNCHANGED <<prefs, plugged, cfg, held, desc, label, shown, accepted, report>>

\* What the boxes can be left with: a port that is not listed shows as none.
Choices == {c \in Config : c.name \in listed \/ (c.name = <<>> /\ prefs.name \notin listed)}

\* Mutated form of Propagate: the receiver's signal is not connected.
PropagateNotReceiver(c) ==
  \E e \in setPort("exporter", cfg["exporter"], c) :
    cfg' = [cfg EXCEPT !["ymodem"] = c, !["export"] = c, !["exporter"] = e]

\* serialPortUpdated(): the pages set their ports, which are closed, and pass
\* the signal on: to the exporter once, to the receiver twice, to the
\* transmitter never.
Propagate(c) ==
  \E r \in setPort("receive", cfg["receive"], c), e \in setPort("exporter", cfg["exporter"], c) :
    \E again \in setPort("receive", r, c) :
      cfg' = [cfg EXCEPT !["ymodem"] = c, !["export"] = c, !["exporter"] = e,
                         !["receive"] = again]

\* Mutated form of updateOptions: the limits are checked after the port's tab
\* is stored.
updateOptionsLate(c, lim, ok) ==
  /\ prefs' = PrefsOf(c, IF ok THEN lim ELSE prefs.limits)
  /\ IF ok THEN Propagate(c) /\ accepted' = TRUE ELSE UNCHANGED <<cfg, accepted>>

\* updateOptions(): limits that are not numbers change nothing (ok); else the
\* options are stored and sent.
updateOptions(c, lim, ok) ==
  IF ~ok THEN UNCHANGED <<prefs, cfg, accepted>>
  ELSE /\ prefs' = PrefsOf(c, lim)
       /\ Propagate(c) /\ accepted' = TRUE

dispOptionsChanged == shown' = prefs'.limits

\* The dialog is accepted: finished(), then accepted().
acceptOptions ==
  /\ dialog /\ dialog' = FALSE
  /\ \E c \in Choices, lim \in Limits, ok \in BOOLEAN : updateOptions(c, lim, ok)
  /\ dispOptionsChanged
  /\ listed' = {}
  /\ UNCHANGED <<plugged, held, desc, label, report>>

rejectOptions ==
  /\ dialog /\ dialog' = FALSE /\ listed' = {}
  /\ UNCHANGED <<prefs, plugged, cfg, held, desc, label, shown, accepted, report>>

-----------------------------------------------------------------------------
(* The sessions; the dialog is modal, so that only their end can come under it *)

PageOf(s) == IF s = "exporter" THEN "export" ELSE "ymodem"

\* The two sessions of the YMODEM page lock each other out; an export is begun
\* only when the page could open its own port.
Free(s) == IF s = "exporter" THEN held[s] = <<>> /\ CanOpen(cfg["export"].name)
                             ELSE held["transmit"] = <<>> /\ held["receive"] = <<>>

\* A session opens its port; the page reports its own.
startSession(s) ==
  /\ ~dialog /\ Free(s) /\ CanOpen(cfg[s].name)
  /\ held' = [held EXCEPT ![s] = cfg[s].name]
  /\ label' = Opened(s, cfg[PageOf(s)].name)
  /\ report' = [by |-> s, told |-> cfg[PageOf(s)], used |-> cfg[s]]
  /\ UNCHANGED <<prefs, plugged, dialog, listed, cfg, desc, shown, accepted>>

\* Mutated form of SessionReport: an export reports nothing either.
SessionReportNothing(s) == label

\* What is reported at the end: the export page says CLOSED, the YMODEM page
\* nothing.
SessionReport(s) == IF s = "exporter" THEN Closed(s, cfg["export"].name) ELSE label

endSession(s) ==
  /\ held[s] # <<>>
  /\ held' = [held EXCEPT ![s] = <<>>]
  /\ label' = SessionReport(s)
  /\ UNCHANGED <<prefs, plugged, dialog, listed, cfg, desc, shown, accepted, report>>

-----------------------------------------------------------------------------
(* The live display *)

\* memcpy() of a name over another, without its end.
CopyName(old, new) == new \o SubSeq(old, Len(new) + 1, Len(old))

play ==
  /\ ~dialog /\ prefs.name # <<>> /\ held["display"] = <<>>
  /\ IF CanOpen(prefs.name)
     THEN /\ held' = [held EXCEPT !["display"] = prefs.name]
          /\ desc' = CopyName(desc, prefs.name)
          /\ label' = Opened("display", prefs.name)
          /\ report' = [by |-> "display", told |-> Stored(prefs), used |-> Stored(prefs)]
     ELSE label' = Closed("display", prefs.name) /\ UNCHANGED <<held, desc, report>>
  /\ UNCHANGED <<prefs, plugged, dialog, listed, cfg, shown, accepted>>

stop ==
  /\ ~dialog /\ held["display"] # <<>>
  /\ held' = [held EXCEPT !["display"] = <<>>]
  /\ label' = Closed("display", desc)
  /\ UNCHANGED <<prefs, plugged, dialog, listed, cfg, desc, shown, accepted, report>>

-----------------------------------------------------------------------------

\* The program ends, in whatever state, and is started again.
Relaunch ==
  /\ cfg' = Restored(prefs)
  /\ held' = [u \in Users |-> <<>>] /\ desc' = <<>>
  /\ label' = Closed("display", prefs.name)
  /\ shown' = prefs.limits
  /\ dialog' = FALSE /\ listed' = {} /\ accepted' = FALSE /\ report' = NoReport
  /\ UNCHANGED <<prefs, plugged>>

Next == \/ Plug \/ showOptionsDialog \/ acceptOptions \/ rejectOptions
        \/ \E s \in Sessions : startSession(s) \/ endSession(s)
        \/ play \/ stop \/ Relaunch

Spec == Init /\ [][Next]_vars

-----------------------------------------------------------------------------
(* Properties *)

\* Every variable has its type, and only a port that has a name is held.
TypeOK ==
  /\ Stored(prefs) \in Config /\ prefs.limits \in Limits
  /\ plugged \subseteq Names /\ listed \subseteq Names /\ dialog \in BOOLEAN
  /\ cfg \in [Ports -> Config]
  /\ held \in [Users -> Names \cup {<<>>}]
  /\ shown \in Limits /\ accepted \in BOOLEAN
  /\ label.by \in Users /\ label.open \in BOOLEAN
  /\ report.by \in Users /\ report.told \in Config /\ report.used \in Config

\* The receiver and the exporter open what their pages report, if no driver
\* refuses a parameter: page and session have a port each, restored apart at the
\* program's start (the export page restores nothing) and set apart by signals.
ReceivesAsReported == report.by \in {"receive", "exporter"} => report.told = report.used

\* Options that were accepted are stored and set on both pages, all of them or
\* none, also when limits that are no numbers end updateOptions() early.
PagesFollowOptions ==
  accepted => cfg["ymodem"] = Stored(prefs) /\ cfg["export"] = Stored(prefs)

\* A status line of the display or of an export that says open is true.
OpenLabelMeansOpen ==
  label.open /\ label.by \in {"display", "exporter"} => held[label.by] # <<>>

\* What the page reports is what the transmitter opened: violated, since the
\* transmitter is never told of new options.
TransmitsAsReported == report.by = "transmit" => report.told = report.used
=============================================================================
