-------------------------- MODULE SerialPortsProofs --------------------------
(***************************************************************************)
(* Proofs about the options and the ports, for every set of ports, lines   *)
(* and limits.                                                             *)
(***************************************************************************)
EXTENDS SerialPorts, TLAPS

\* What can be set and opened is of the right kind.
Shape ==
  /\ plugged \subseteq Names /\ listed \subseteq Names
  /\ cfg = [o \in Ports |-> cfg[o]]
  /\ held = [u \in Users |-> held[u]]

\* A port that can be opened has a name.
LEMMA OpenNeedsName == Shape => ~CanOpen(<<>>)
BY PortsAssumption DEF Shape, CanOpen

\* The program starts with its ports restored and nothing open.
LEMMA InitShape == Init => Shape
BY DEF Init, Shape, Restored

\* Propagating options sets the two pages, and lets the transmitter be.
LEMMA PropagateSets ==
  ASSUME NEW c, Propagate(c), Shape
  PROVE  /\ cfg' = [o \in Ports |-> cfg'[o]]
         /\ cfg'["ymodem"] = c /\ cfg'["export"] = c
         /\ Refuse = FALSE => cfg'["receive"] = c /\ cfg'["exporter"] = c
<1>1. PICK r \in setPort("receive", cfg["receive"], c), e \in setPort("exporter", cfg["exporter"], c) :
        \E again \in setPort("receive", r, c) :
          cfg' = [cfg EXCEPT !["ymodem"] = c, !["export"] = c, !["exporter"] = e,
                             !["receive"] = again]
  BY DEF Propagate
<1>2. PICK again \in setPort("receive", r, c) :
          cfg' = [cfg EXCEPT !["ymodem"] = c, !["export"] = c, !["exporter"] = e,
                             !["receive"] = again]
  BY <1>1
<1>3. Refuse = FALSE => again = c /\ e = c
  BY DEF setPort
<1> QED BY <1>2, <1>3 DEF Shape, Ports

\* Every step keeps it so.
LEMMA ShapeStep == Shape /\ [Next]_vars => Shape'
<1> SUFFICES ASSUME Shape, [Next]_vars PROVE Shape'
  OBVIOUS
<1> USE DEF Shape
<1>1. CASE Plug \/ showOptionsDialog \/ rejectOptions \/ UNCHANGED vars
  BY <1>1 DEF Plug, showOptionsDialog, rejectOptions, vars
<1>2. CASE acceptOptions
  <2>1. PICK c \in Choices, lim \in Limits, ok \in BOOLEAN : updateOptions(c, lim, ok)
    BY <1>2 DEF acceptOptions
  <2>2. cfg' = [o \in Ports |-> cfg'[o]]
    BY <2>1, PropagateSets DEF updateOptions
  <2> QED BY <1>2, <2>2 DEF acceptOptions
<1>3. ASSUME NEW s \in Sessions, startSession(s) \/ endSession(s) PROVE Shape'
  BY <1>3 DEF startSession, endSession
<1>4. CASE play \/ stop
  BY <1>4 DEF play, stop
<1>5. CASE Relaunch
  BY <1>5 DEF Relaunch, Restored
<1> QED BY <1>1, <1>2, <1>3, <1>4, <1>5 DEF Next

-----------------------------------------------------------------------------
(* The options *)

\* At the start no options were accepted.
LEMMA OptionsInit == Init => PagesFollowOptions
BY DEF Init, PagesFollowOptions

\* Every step keeps the options in force: only accepting them changes both.
LEMMA OptionsStep == Shape /\ PagesFollowOptions /\ [Next]_vars => PagesFollowOptions'
<1> SUFFICES ASSUME Shape, PagesFollowOptions, [Next]_vars PROVE PagesFollowOptions'
  OBVIOUS
<1> USE DEF PagesFollowOptions
<1>1. CASE UNCHANGED <<prefs, cfg, accepted>>
  BY <1>1
<1>2. CASE acceptOptions
  <2>1. PICK c \in Choices, lim \in Limits, ok \in BOOLEAN : updateOptions(c, lim, ok)
    BY <1>2 DEF acceptOptions
  <2>2. CASE ~ok
    BY <2>1, <2>2 DEF updateOptions
  <2>3. CASE ok
    <3>1. accepted' = TRUE /\ prefs' = PrefsOf(c, lim) /\ Propagate(c)
      BY <2>1, <2>3 DEF updateOptions
    <3>2. Stored(prefs') = c
      BY <3>1 DEF Stored, PrefsOf, Choices, Config
    <3>3. cfg'["ymodem"] = c /\ cfg'["export"] = c
      BY <3>1, PropagateSets
    <3> QED BY <3>1, <3>2, <3>3
  <2> QED BY <2>2, <2>3
<1>3. CASE Relaunch
  BY <1>3 DEF Relaunch
<1> QED
  BY <1>1, <1>2, <1>3 DEF Next, Plug, showOptionsDialog, rejectOptions, startSession,
     endSession, play, stop, vars

-----------------------------------------------------------------------------
(* The status line *)

\* A status line that says open stays true: whoever closes the port reports it.
LEMMA LabelStep == Shape /\ OpenLabelMeansOpen /\ [Next]_vars => OpenLabelMeansOpen'
<1> SUFFICES ASSUME Shape, OpenLabelMeansOpen, [Next]_vars PROVE OpenLabelMeansOpen'
  OBVIOUS
<1> USE DEF OpenLabelMeansOpen
<1>1. CASE UNCHANGED <<label, held>>
  BY <1>1
<1>2. ASSUME NEW s \in Sessions, startSession(s) PROVE OpenLabelMeansOpen'
  <2>1. held' = [held EXCEPT ![s] = cfg[s].name] /\ cfg[s].name # <<>> /\ label'.by = s
    BY <1>2, OpenNeedsName DEF startSession, Opened
  <2> QED BY <2>1 DEF Shape, Users
<1>3. ASSUME NEW s \in Sessions, endSession(s) PROVE OpenLabelMeansOpen'
  <2>1. held' = [held EXCEPT ![s] = <<>>] /\ label' = SessionReport(s)
    BY <1>3 DEF endSession
  <2>2. CASE s = "exporter"
    BY <2>1, <2>2 DEF SessionReport, Closed
  <2>3. CASE s # "exporter"
    <3>1. label' = label /\ \A u \in {"display", "exporter"} : held'[u] = held[u]
      BY <2>1, <2>3 DEF SessionReport, Shape, Users, Sessions
    <3> QED BY <3>1
  <2> QED BY <2>2, <2>3
<1>4. CASE play
  <2>1. CASE CanOpen(prefs.name)
    BY <1>4, <2>1 DEF play, Opened, Shape, Users
  <2>2. CASE ~CanOpen(prefs.name)
    BY <1>4, <2>2 DEF play, Closed
  <2> QED BY <2>1, <2>2
<1>5. CASE stop \/ Relaunch
  BY <1>5 DEF stop, Relaunch, Closed
<1> QED
  BY <1>1, <1>2, <1>3, <1>4, <1>5 DEF Next, Plug, showOptionsDialog, acceptOptions,
     rejectOptions, vars

-----------------------------------------------------------------------------
(* Reports, with drivers that refuse nothing *)

\* A page's port and its session's are set alike; the export page, which
\* restores nothing, cannot open its port until options are accepted.
ReportInv ==
  /\ cfg["receive"] = cfg["ymodem"]
  /\ IF accepted THEN cfg["exporter"] = cfg["export"] ELSE cfg["export"] = Fresh
  /\ ReceivesAsReported

\* Nothing was reported yet.
LEMMA ReportInit == Init => ReportInv
BY DEF Init, ReportInv, Restored, Ports, NoReport, ReceivesAsReported

\* Every step keeps reports true.
LEMMA ReportStep ==
  ASSUME Refuse = FALSE PROVE Shape /\ ReportInv /\ [Next]_vars => ReportInv'
<1> SUFFICES ASSUME Shape, ReportInv, [Next]_vars PROVE ReportInv'
  OBVIOUS
<1> USE DEF ReportInv, ReceivesAsReported
<1>1. CASE UNCHANGED <<cfg, accepted, report>>
  BY <1>1
<1>2. CASE acceptOptions
  <2>1. PICK c \in Choices, lim \in Limits, ok \in BOOLEAN : updateOptions(c, lim, ok)
    BY <1>2 DEF acceptOptions
  <2>2. report' = report
    BY <1>2 DEF acceptOptions
  <2>3. CASE ~ok
    BY <2>1, <2>2, <2>3 DEF updateOptions
  <2>4. CASE ok
    <3>1. accepted' = TRUE /\ Propagate(c)
      BY <2>1, <2>4 DEF updateOptions
    <3>2. cfg'["receive"] = c /\ cfg'["exporter"] = c /\ cfg'["ymodem"] = c /\ cfg'["export"] = c
      BY <3>1, PropagateSets
    <3> QED BY <2>2, <3>1, <3>2
  <2> QED BY <2>3, <2>4
<1>3. ASSUME NEW s \in Sessions, startSession(s) PROVE ReportInv'
  <2>1. UNCHANGED <<cfg, accepted>>
        /\ report' = [by |-> s, told |-> cfg[PageOf(s)], used |-> cfg[s]]
    BY <1>3 DEF startSession
  <2>2. s = "exporter" => accepted
    BY <1>3, OpenNeedsName DEF startSession, Free, Fresh
  <2> QED BY <2>1, <2>2 DEF PageOf, Sessions
<1>4. CASE play
  BY <1>4 DEF play
<1>5. CASE Relaunch
  BY <1>5 DEF Relaunch, Restored, Ports, NoReport
<1> QED
  BY <1>1, <1>2, <1>3, <1>4, <1>5 DEF Next, Plug, showOptionsDialog, rejectOptions,
     endSession, stop, vars

-----------------------------------------------------------------------------
(* Theorems *)

\* In every state ports that are listed or plugged in have names.
THEOREM PortsShape == Spec => []Shape
<1> QED BY InitShape, ShapeStep, PTL DEF Spec

\* Accepted options are stored, and set on both pages.
THEOREM OptionsInForce == Spec => []PagesFollowOptions
<1> QED BY OptionsInit, OptionsStep, PortsShape, PTL DEF Spec

\* The status line is true when it says that the display's or an export's
\* port is open.
THEOREM OpenLabelIsTrue == Spec => []OpenLabelMeansOpen
<1>1. Init => OpenLabelMeansOpen
  BY DEF Init, OpenLabelMeansOpen, Closed
<1> QED BY <1>1, LabelStep, PortsShape, PTL DEF Spec

\* Unless a driver refuses a parameter, files are received and exported with
\* the parameters that were reported.
THEOREM ReportIsTrue ==
  ASSUME Refuse = FALSE PROVE Spec => []ReceivesAsReported
<1>1. ReportInv => ReceivesAsReported
  BY DEF ReportInv
<1>2. Shape /\ ReportInv /\ [Next]_vars => ReportInv'
  BY ReportStep
<1> QED BY <1>1, <1>2, ReportInit, PortsShape, PTL DEF Spec
=============================================================================
