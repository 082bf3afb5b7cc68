-------------------------- MODULE CostumTranReceive --------------------------
(***************************************************************************)
(* An export session: CostumTranReceive around the engine of CostumTran,   *)
(* the two export buttons of ui_costum_tran, and the device at the other   *)
(* end of the cable.  Timer slots and clicks run on the GUI thread, each   *)
(* is one atomic step.                                                     *)
(***************************************************************************)
EXTENDS CostumTran

CONSTANTS
  Asked,      \* the exports the user asks for, a subset of Modes
  Cancel,     \* may the user cancel an export?
  MaxFaults,  \* bound: records that arrive with a gap
  GapMax,     \* bound: bytes missing in such a record
  InMax,      \* bound: the device sends while at most InMax bytes wait
  BadMax      \* bound: "bad" is counted up to BadMax

ASSUME SessionAssumption ==
  /\ Asked \subseteq Modes /\ Cancel \in BOOLEAN
  /\ MaxFaults \in Nat /\ GapMax \in Nat /\ InMax \in Nat /\ BadMax \in Nat

VARIABLES
  readTimer,             \* readTimer is armed (10 ms)
  transmitButtonStatus,  \* a data export runs: its button says Cancel
  receiveButtonStatus,   \* an alarm export runs: its button says Cancel
  disabled,              \* the buttons that cannot be clicked
  crashed,               \* the process died
  sending, rec, faults,  \* device: what it sends, its next record, gaps so far
  taken,  \* history: bytes read since the last header, 0 when there is none
  bad,    \* history: packets with bytes of the kind that was asked for, and no
          \* other, that were refused in a row in this session
  whole,  \* history: the last record that was accepted was one of the device's
  cut     \* history: some export began with '!' left over from the last one

session == <<status, readTimer, writeTimer, portOpen, transmitButtonStatus,
             receiveButtonStatus, disabled>>
device  == <<sending, rec, faults>>
history == <<taken, bad, whole, cut>>
vars == <<engine, session, in, request, crashed, device, history>>

Data  == "RequestData"
Alarm == "RequestAlarm"

Running  == transmitButtonStatus \/ receiveButtonStatus
Terminal == {"Abort", "Timeout"}
Statuses == {"Idle", "Establish"} \cup Terminal   \* Idle: not set yet

-----------------------------------------------------------------------------
(* The program *)

\* The buttons' flags and locks while an export of mode m runs.
Lock(m) == /\ transmitButtonStatus' = (m = Data)
           /\ receiveButtonStatus' = (m = Alarm)
           /\ disabled' = {Data, Alarm} \ {m}

\* Mutated form of startRecv: the other button is not locked.
startRecvUnlocked(m) ==
  /\ mode' = m /\ status' = "Establish"
  /\ readTimer' = TRUE /\ portOpen' = TRUE /\ in' = <<>>
  /\ transmitButtonStatus' = (transmitButtonStatus \/ m = Data)
  /\ receiveButtonStatus' = (receiveButtonStatus \/ m = Alarm)
  /\ UNCHANGED disabled

\* startRecv() and startReceive().  Opening the port empties its buffers; the
\* engine is left as the last session left it.
startRecv(m) ==
  /\ mode' = m /\ status' = "Establish"
  /\ \/ \* openPort() succeeds
        readTimer' = TRUE /\ portOpen' = TRUE /\ in' = <<>> /\ Lock(m)
     \/ \* it fails
        UNCHANGED <<readTimer, portOpen, in, transmitButtonStatus,
                    receiveButtonStatus, disabled>>

\* A button is clicked while it says start.  When the page cannot open its own
\* port nothing else is done.
Export(m) ==
  /\ m \in Asked /\ m \notin disabled /\ ~crashed
  /\ IF m = Data THEN ~transmitButtonStatus ELSE ~receiveButtonStatus
  /\ startRecv(m)
  /\ taken' = 0 /\ bad' = 0 /\ whole' = TRUE /\ cut' = (cut \/ rxBuffer # <<>>)
  /\ UNCHANGED <<timeCount, errorCount, code, stage, controlNumCount, rxBuffer,
                 writeTimer, request, crashed, device>>

\* It is clicked while it says cancel: stopReceive().  readTimer runs on.
stopReceive ==
  /\ Cancel /\ ~crashed
  /\ \/ transmitButtonStatus /\ Data \notin disabled
     \/ receiveButtonStatus /\ Alarm \notin disabled
  /\ abort
  /\ status' = "Abort" /\ writeTimer' = TRUE
  /\ taken' = 0
  /\ UNCHANGED <<readTimer, portOpen, transmitButtonStatus, receiveButtonStatus,
                 disabled, in, crashed, device, bad, whole, cut>>

\* A folder is chosen in the dialog that a browse button opens, or none is:
\* then the button beside it is locked.  Both are locked while an export runs.
Browse(m) ==
  /\ ~Running /\ ~crashed
  /\ disabled' \in {disabled \cup {m}, disabled \ {m}}
  /\ UNCHANGED <<engine, status, readTimer, writeTimer, portOpen, in, request,
                 transmitButtonStatus, receiveButtonStatus, crashed, device, history>>

Receives(r) == receiveStageEstablishing(r) \/ receiveStageTransmitting(r)
Overruns(r) == Len(r.buf) > BufferLen

\* What the histories make of a step that read r.  A record is one of the
\* device's when its body and its tail are (the '!' of all headers are the same).
IsRecord(buf) ==
  \E k \in 0 .. RecMod - 1 : \A i \in ControlNumber + 1 .. RecordLen(mode) :
    buf[i] = Record(mode, k)[i]
Lower(a, b) == IF a < b THEN a ELSE b
AllAsked(buf) == \A i \in ControlNumber + 1 .. RecordLen(mode) : buf[i].kind = mode
Notes(r) ==
  /\ taken' = CASE stage' # StageTransmitting /\ status' # "Timeout" -> 0
                [] stage # StageTransmitting -> 0
                [] OTHER -> Lower(taken + r.n, RecordLen(mode))
  /\ bad' = IF r.ret # "Soh" THEN bad
            ELSE IF GoodTail(r.buf) THEN 0
            ELSE IF AllAsked(r.buf) THEN Lower(bad + 1, BadMax) ELSE bad
  /\ whole' = IF r.ret = "Soh" /\ GoodTail(r.buf) THEN IsRecord(r.buf) ELSE whole
  /\ UNCHANGED cut

\* receive(): a read behind rxBuffer and txBuffer overwrites the object itself.
receive ==
  \/ /\ receiveStageNone
     /\ UNCHANGED <<in, crashed, history>>
  \/ /\ stage # StageNone
     /\ \E r \in receivePacket :
          /\ in' = SubSeq(in, r.n + 1, Len(in))
          /\ \/ ~Overruns(r) /\ Receives(r) /\ Notes(r) /\ UNCHANGED crashed
             \/ /\ Overruns(r) /\ crashed' = TRUE
                /\ UNCHANGED <<engine, status, writeTimer, request, history>>

\* Mutated form of readTimeOut: the timer is armed again in any case.
readTimeOutAlways ==
  /\ readTimer /\ ~crashed
  /\ receive
  /\ UNCHANGED <<readTimer, portOpen, transmitButtonStatus, receiveButtonStatus,
                 disabled, device>>

readTimeOut ==
  /\ readTimer /\ ~crashed
  /\ receive
  /\ readTimer' = (status' = "Establish")
  /\ UNCHANGED <<portOpen, transmitButtonStatus, receiveButtonStatus, disabled,
                 device>>

\* Mutated form of receiveStatus: after a timeout the flag of the data export
\* is not reset.
receiveStatusKeepsFlag ==
  /\ receiveButtonStatus' = FALSE
  /\ transmitButtonStatus' = (status = "Timeout" /\ transmitButtonStatus)
  /\ disabled' = {}

\* receiveStatus(): after Abort and Timeout both buttons say start and can be
\* clicked; with Establish nothing is done.
receiveStatus ==
  IF status \in Terminal
  THEN transmitButtonStatus' = FALSE /\ receiveButtonStatus' = FALSE /\ disabled' = {}
  ELSE UNCHANGED <<transmitButtonStatus, receiveButtonStatus, disabled>>

\* The 100 ms timer was armed after the 10 ms one and does not overtake it.
writeTimeOut ==
  /\ writeTimer /\ ~readTimer /\ ~crashed
  /\ writeTimer' = FALSE /\ portOpen' = FALSE /\ in' = <<>>
  /\ receiveStatus
  /\ UNCHANGED <<engine, status, readTimer, request, crashed, device, history>>

\* The user starts the program again after a crash.
Relaunch ==
  /\ crashed /\ crashed' = FALSE
  /\ Settle(StageNone, "None") /\ errorCount' = 0 /\ controlNumCount' = 0
  /\ mode' = Alarm /\ rxBuffer' = <<>> /\ in' = <<>> /\ status' = "Idle"
  /\ readTimer' = FALSE /\ writeTimer' = FALSE /\ portOpen' = FALSE
  /\ transmitButtonStatus' = FALSE /\ receiveButtonStatus' = FALSE /\ disabled' = {}
  /\ taken' = 0 /\ bad' = 0 /\ whole' = TRUE /\ cut' = FALSE
  /\ UNCHANGED <<request, device>>

-----------------------------------------------------------------------------
(* The device *)

Elsewhere == UNCHANGED <<engine, session, crashed, history>>

\* It takes a request, and sends records of that kind until it has no more.
TakeRequest ==
  /\ request # "None" /\ request' = "None"
  /\ sending' \in IF request = "Can" THEN {sending, "None"} ELSE {request}
  /\ UNCHANGED <<in, rec, faults>> /\ Elsewhere

LastRecord == sending # "None" /\ sending' = "None"
              /\ UNCHANGED <<in, request, rec, faults>> /\ Elsewhere

\* A gap in a record: the bytes i .. j are missing.
Gap(s, i, j) == SubSeq(s, 1, i - 1) \o SubSeq(s, j + 1, Len(s))

SendRecord ==
  /\ sending # "None" /\ portOpen /\ Len(in) <= InMax
  /\ \/ in' = in \o Record(sending, rec) /\ UNCHANGED faults
     \/ /\ faults < MaxFaults /\ faults' = faults + 1
        /\ \E i, j \in 1 .. RecordLen(sending) :
             /\ i <= j /\ j - i < GapMax
             /\ in' = in \o Gap(Record(sending, rec), i, j)
  /\ rec' = (rec + 1) % RecMod
  /\ UNCHANGED <<sending, request>> /\ Elsewhere

-----------------------------------------------------------------------------
Init ==
  /\ CostumTranInit /\ in = <<>> /\ request = "None"
  /\ status = "Idle" /\ readTimer = FALSE /\ writeTimer = FALSE /\ portOpen = FALSE
  /\ transmitButtonStatus = FALSE /\ receiveButtonStatus = FALSE /\ disabled = {}
  /\ crashed = FALSE
  /\ sending = "None" /\ rec = 0 /\ faults = 0
  /\ taken = 0 /\ bad = 0 /\ whole = TRUE /\ cut = FALSE

Next == \/ \E m \in Modes : Export(m) \/ Browse(m)
        \/ stopReceive \/ readTimeOut \/ writeTimeOut \/ Relaunch
        \/ TakeRequest \/ LastRecord \/ SendRecord

Spec == Init /\ [][Next]_vars

\* An armed timer fires.  Nothing is assumed of the user and the device.
FairSpec == Spec /\ WF_vars(readTimeOut) /\ WF_vars(writeTimeOut)

-----------------------------------------------------------------------------
(* Properties *)

\* Every variable keeps to its type.
TypeOK ==
  /\ timeCount \in Nat /\ errorCount \in Nat /\ controlNumCount \in Nat
  /\ code \in {"None", "Soh"} /\ mode \in Modes
  /\ stage \in {StageNone, StageEstablishing, StageTransmitting}
  /\ rxBuffer \in Seq(Byte) /\ in \in Seq(Byte) /\ request \in Requests
  /\ status \in Statuses /\ readTimer \in BOOLEAN /\ writeTimer \in BOOLEAN
  /\ portOpen \in BOOLEAN /\ transmitButtonStatus \in BOOLEAN
  /\ receiveButtonStatus \in BOOLEAN /\ disabled \subseteq Modes
  /\ crashed \in BOOLEAN
  /\ sending \in Modes \cup {"None"} /\ rec \in 0 .. RecMod - 1 /\ faults \in Nat
  /\ taken \in Nat /\ bad \in Nat /\ whole \in BOOLEAN
  /\ cut \in BOOLEAN

\* The two buttons share one session.  While none runs the port is closed and
\* no timer will fire; while one runs the port is open, a timer is armed that
\* will move or end it, the engine asks for what the button exports, and that
\* button, and no other, can be clicked to cancel.
SessionOwnsResources ==
  /\ ~Running => ~portOpen /\ ~readTimer /\ ~writeTimer
  /\ Running => portOpen /\ (readTimer \/ writeTimer)
  /\ transmitButtonStatus => mode = Data /\ disabled = {Alarm}
  /\ receiveButtonStatus => mode = Alarm /\ disabled = {Data}

\* The note at CostumTran.cpp:45: no stage waits longer than timeMax + 1
\* periods.
WaitIsBounded == timeCount \div (TimeDivide + 1) <= TimeMax

\* The record that is being read fits the packet the engine waits for, and
\* the '!' that were counted are the ones in the buffer, so the unsigned
\* LEN - rxLength (CostumTran.cpp:282, 300) does not wrap.
RecordFits ==
  /\ stage \in {StageNone, StageEstablishing} =>
       Len(rxBuffer) = controlNumCount /\ controlNumCount < ControlNumber
  /\ stage = StageTransmitting =>
       /\ controlNumCount = 0
       /\ Len(rxBuffer) \in ControlNumber .. RecordLen(mode) - 1

\* "Communication Time Out" (costum_tran_ui.cpp:329): the bytes of a record
\* did not all come after its header did.
TimedOutMeansNothingCame == status = "Timeout" => taken < RecordLen(mode) - ControlNumber

\* What is accepted is one record of the kind that was asked for, byte for
\* byte, although the header and the tail are all that is checked: one gap in
\* a record never makes the rest of it and the start of the next look like one,
\* while it is shorter than the difference between the two kinds and than what
\* a record of data lacks to a whole number of alarms, unless an export that
\* timed out left a header that it had in part.
AcceptedIsOneRecord == whole \/ (cut /\ faults > 0)

\* A gap in one record, whatever its length, costs at most two records of the
\* kind that was asked for, and '!' that an export that timed out left cost one
\* more: the engine finds the next header again, with all that they left in its
\* buffer and its count.  A packet with bytes of the other kind is not counted.
GapCostsTwoRecords == bad <= 2 * faults + (IF cut THEN 1 ELSE 0)

\* Once an export has an outcome only the user changes it.
OutcomeIsFinal ==
  [][Running /\ status \in Terminal /\ status' # status => status' = "Abort"]_vars

\* A device that falls silent does not keep the window locked.
SilentDeviceEndsExport ==
  (<>[][~SendRecord /\ ~stopReceive]_vars) => (Running ~> (~Running \/ crashed))
=============================================================================
