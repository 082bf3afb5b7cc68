------------------------------- MODULE Ymodem -------------------------------
(***************************************************************************)
(* The part of the YMODEM engine (src/ymodem/Ymodem.cpp) that the sending  *)
(* and the receiving side share: the stages, the packet reader             *)
(* receivePacket(), the retransmission clock, the error counter, the ways  *)
(* a session ends, and the session life cycle (start, cancel, closing the  *)
(* port) that YmodemFileTransmit, YmodemFileReceive and ui_ymodem wrap     *)
(* around one engine object.                                               *)
(*                                                                         *)
(* All of this runs on the Qt GUI thread, one event at a time: a timer     *)
(* slot or a click is one atomic step.  YmodemFileTransmit and             *)
(* YmodemFileReceive EXTEND this module and add the file and one operator  *)
(* per stage function.                                                     *)
(*                                                                         *)
(* Bytes on the wire are "units".  A control code is one unit; a packet is *)
(* SohUnits or StxUnits units, of which the first is the SOH or STX byte,  *)
(* so that a packet may arrive, or be lost, in part.  crc16 is taken to    *)
(* tell every damaged packet from a good one.                              *)
(***************************************************************************)
EXTENDS Integers, Sequences

CONSTANTS
  TimeDivide,    \* timeDivide: polls per clock period, less one (499)
  TimeMax,       \* timeMax: periods waited before giving up (5)
  ErrorMax,      \* errorMax: errors tolerated (999)
  PacketSize,    \* YMODEM_PACKET_SIZE, in bytes of file data (128)
  Packet1kSize,  \* YMODEM_PACKET_1K_SIZE, in bytes of file data (1024)
  CanNumber,     \* YMODEM_CODE_CAN_NUMBER (5)
  NumMod,        \* 2^8: dataCount is a uint8_t
  SohUnits,      \* units of a packet that starts with SOH (133 bytes)
  StxUnits,      \* units of a packet that starts with STX (1029 bytes)
  StrayCodes,    \* the values a byte of packet data may be mistaken for
  FileSizes,     \* the sizes of the files that are sent
  OutMax         \* bound: with more than OutMax units unsent no clock runs

Codes == {"None", "Soh", "Stx", "Eot", "Ack", "Nak", "Can", "C", "A1", "A2"}

\* The codes on which every stage gives up: case CodeA1, CodeA2, CodeCan.
AbortCodes == {"A1", "A2", "Can"}

ASSUME ClockAssumption ==
  TimeDivide \in Nat /\ TimeMax \in Nat /\ ErrorMax \in Nat
ASSUME SizeAssumption ==
  PacketSize \in Nat \ {0} /\ Packet1kSize \in Nat /\ Packet1kSize > PacketSize
ASSUME NumberAssumption ==
  CanNumber \in Nat \ {0} /\ NumMod \in Nat /\ NumMod > 2
ASSUME WireAssumption ==
  SohUnits \in Nat \ {0} /\ StxUnits \in Nat \ {0}
ASSUME DataAssumption ==
  StrayCodes \subseteq Codes /\ StrayCodes # {} /\ FileSizes \subseteq Nat

VARIABLES
  timeCount, errorCount, dataCount, code, stage,  \* class Ymodem
  rxBuffer,    \* the units of the packet being read (rxLength is its Len)
  txBuffer,    \* what was last put in txBuffer[0 .. txLength - 1]
  status,      \* status of the adapter
  readTimer,   \* readTimer is armed (10 ms)
  writeTimer,  \* writeTimer is armed (100 ms)
  portOpen,    \* serialPort->isOpen()
  fileOpen,    \* file->isOpen()
  button,      \* transmitButtonStatus or receiveButtonStatus
  in,          \* units on their way to this side, or in the port's buffer
  out          \* units written by this side and not yet taken

engine  == <<timeCount, errorCount, dataCount, code, stage>>
session == <<status, readTimer, writeTimer, portOpen, fileOpen, button>>
ymodemVars == <<engine, rxBuffer, txBuffer, session, in, out>>

-----------------------------------------------------------------------------
(* Stages, statuses, packets and units *)

StageNone         == 0
StageEstablishing == 1
StageEstablished  == 2
StageTransmitting == 3
StageFinishing    == 4
StageFinished     == 5

Running  == {"Establish", "Transmit"}   \* the timer is re-armed in these
Terminal == {"Finish", "Abort", "Timeout", "Error"}
Statuses == Running \cup Terminal \cup {"Idle"}   \* Idle: not set yet

\* A packet: its first byte, its number, and what it carries: the file's
\* name and size n ("info"), n bytes of the file that follow the first
\* "from" ones, padded with zeros ("data"), or zeros only ("zero").
Packet == [kind : {"Soh", "Stx", "None"}, num : 0 .. NumMod - 1,
           what : {"info", "data", "zero"}, from : Nat, n : Nat]

NoPacket == [kind |-> "None", num |-> 0, what |-> "zero", from |-> 0, n |-> 0]

Unit == [byte : Codes \cup {"Data"}, pkt : Packet, part : Nat]

FrameUnits(c) == IF c = "Soh" THEN SohUnits ELSE StxUnits

\* The units of a control code, of a packet, and of the cancel sequence.
Ctl(c)  == <<[byte |-> c, pkt |-> NoPacket, part |-> 0]>>
Wire(p) == [i \in 1 .. FrameUnits(p.kind) |->
              [byte |-> IF i = 1 THEN p.kind ELSE "Data", pkt |-> p, part |-> i]]
Cans    == [i \in 1 .. CanNumber |-> Ctl("Can")[1]]

-----------------------------------------------------------------------------
(* receivePacket() *)

\* The number, its complement and the crc of a complete packet are checked:
\* a buffer that is not exactly what was sent is no packet.
Decode(buf) == IF buf = Wire(buf[1].pkt) THEN buf[1].pkt ELSE NoPacket

\* The rest of a packet that starts with c is read, as far as it is there:
\* n units of "coming" have arrived.
Fill(c, buf, coming, n) ==
  LET need == FrameUnits(c) - Len(buf)
      k    == IF n < need THEN n ELSE need
      got  == buf \o SubSeq(coming, 1, k)
      full == k = need
  IN [ret  |-> IF full THEN c ELSE "None",
      code |-> IF full THEN "None" ELSE c,
      buf  |-> IF full THEN <<>> ELSE got,
      pkt  |-> IF full THEN Decode(got) ELSE NoPacket,
      rest |-> SubSeq(coming, k + 1, Len(coming))]

\* Mutated form of Byte: the code of a byte that starts no packet is kept.
ByteKeepsCode(b, coming) ==
  [ret |-> b, code |-> b, buf |-> <<>>, pkt |-> NoPacket, rest |-> coming]

Byte(b, coming) ==
  [ret |-> b, code |-> "None", buf |-> <<>>, pkt |-> NoPacket, rest |-> coming]

\* The first byte decides; a data byte that is read here by mistake has
\* whatever value the data has.
Reads(u) == IF u.byte = "Data" THEN StrayCodes ELSE {u.byte}

FirstByte(b, n) ==
  IF b \in {"Soh", "Stx"} THEN Fill(b, <<Head(in)>>, Tail(in), n - 1)
                          ELSE Byte(b, Tail(in))

\* What one call may return: any number n of the units on the wire may have
\* arrived by now.  None may have, unless this side is more than OutMax units
\* ahead of the wire.
Room == Len(out) <= OutMax
Late == IF Room THEN 0 ELSE 1

receivePacket ==
  IF code # "None"
  THEN {Fill(code, rxBuffer, in, n) : n \in Late .. Len(in)}
  ELSE {Byte("None", in) : n \in Late .. 0} \cup
       UNION {{FirstByte(b, n) : b \in Reads(Head(in))} : n \in 1 .. Len(in)}

-----------------------------------------------------------------------------
(* What every stage function is built from *)

Reset(s, d) == /\ timeCount' = 0
               /\ errorCount' = 0
               /\ dataCount' = d
               /\ code' = "None"
               /\ stage' = s

\* write(): a closed port takes nothing.
Write(u) == out' = IF portOpen THEN out \o u ELSE out
Send(u)  == txBuffer' = u /\ Write(u)
Resend   == UNCHANGED txBuffer /\ Write(txBuffer)
Quiet    == UNCHANGED <<txBuffer, out>>

Going == UNCHANGED <<status, writeTimer, fileOpen>>

\* Mutated forms of Report: the file stays open; writeTimer is not armed.
ReportKeepsFile(st) == status' = st /\ writeTimer' = TRUE /\ UNCHANGED fileOpen
ReportArmsNothing(st) == /\ status' = st /\ UNCHANGED writeTimer
                         /\ fileOpen' = IF st = "Timeout" THEN fileOpen ELSE FALSE

\* callback() with a status that ends the session.  A timeout is reported
\* before a file was opened and does not close one.
Report(st) == /\ status' = st
              /\ writeTimer' = TRUE
              /\ fileOpen' = IF st = "Timeout" THEN fileOpen ELSE FALSE

\* The peer is told with CAN codes, then the adapter is.
Fail(st) == Reset(StageNone, 0) /\ Send(Cans) /\ Report(st)

\* The peer (or a byte that looks like it) cancelled.
Aborted == Reset(StageNone, 0) /\ Quiet /\ Report("Abort")

\* Mutated form of TooMany: errorCount is compared before it is increased.
TooManyLate == errorCount > ErrorMax

TooMany == errorCount + 1 > ErrorMax

\* Mutated forms of CountError: an error is not counted; it restarts the clock.
CountErrorFree(r, u) ==
  /\ UNCHANGED <<timeCount, errorCount, dataCount, stage>>
  /\ code' = r.code /\ Send(u) /\ Going
CountErrorRestarts(r, u) ==
  \/ TooMany /\ Fail("Error")
  \/ /\ ~TooMany
     /\ timeCount' = 0 /\ errorCount' = errorCount + 1
     /\ UNCHANGED <<dataCount, stage>>
     /\ code' = r.code /\ Send(u) /\ Going

\* One more error: u is the answer as long as errorMax is not exceeded.
CountError(r, u) ==
  \/ TooMany /\ Fail("Error")
  \/ /\ ~TooMany
     /\ errorCount' = errorCount + 1
     /\ code' = r.code
     /\ UNCHANGED <<timeCount, dataCount, stage>>
     /\ Send(u)
     /\ Going

\* Nothing of use arrived: once per period the side does what "resend" says,
\* and after more than timeMax periods the session ends with status st.
Expired(t) == t \div (TimeDivide + 1) > TimeMax
Tick(st, r, resend) ==
  \/ Expired(timeCount + 1) /\ Fail(st)
  \/ /\ ~Expired(timeCount + 1)
     /\ timeCount' = timeCount + 1
     /\ code' = r.code
     /\ UNCHANGED <<errorCount, dataCount, stage>>
     /\ IF (timeCount + 1) % (TimeDivide + 1) = 0 THEN resend ELSE Quiet
     /\ Going

-----------------------------------------------------------------------------
(* The session *)

YmodemInit ==
  /\ timeCount = 0 /\ errorCount = 0 /\ dataCount = 0
  /\ code = "None" /\ stage = StageNone
  /\ rxBuffer = <<>> /\ txBuffer = <<>>
  /\ status = "Idle" /\ readTimer = FALSE /\ writeTimer = FALSE
  /\ portOpen = FALSE /\ fileOpen = FALSE /\ button = FALSE
  /\ in = <<>> /\ out = <<>>

\* The button is clicked while it says start: startTransmit() or
\* startReceive().  Opening the port empties its buffers; the engine is left
\* as the last session left it.
Start ==
  /\ ~button
  /\ status' = "Establish"
  /\ \/ \* openPort() succeeds
        /\ readTimer' = TRUE /\ portOpen' = TRUE /\ button' = TRUE
        /\ in' = <<>>
     \/ \* openPort() fails
        UNCHANGED <<readTimer, portOpen, button, in>>
  /\ UNCHANGED <<engine, rxBuffer, txBuffer, writeTimer, fileOpen, out>>

\* Mutated form of Stop: the engine is not reset.
StopKeepsEngine ==
  /\ button /\ Room
  /\ UNCHANGED engine
  /\ rxBuffer' = <<>> /\ Send(Cans)
  /\ status' = "Abort" /\ fileOpen' = FALSE /\ writeTimer' = TRUE
  /\ UNCHANGED <<readTimer, portOpen, button, in>>

\* The button is clicked while it says cancel: stopTransmit() or
\* stopReceive().  readTimer is not stopped.
Stop ==
  /\ button
  /\ Room
  /\ Reset(StageNone, 0)
  /\ rxBuffer' = <<>>
  /\ Send(Cans)
  /\ status' = "Abort"
  /\ fileOpen' = FALSE
  /\ writeTimer' = TRUE
  /\ UNCHANGED <<readTimer, portOpen, button, in>>

\* Mutated form of WriteTimeOut: the window is unlocked after a success only.
WriteTimeOutOnSuccess ==
  /\ writeTimer /\ ~readTimer
  /\ writeTimer' = FALSE /\ portOpen' = FALSE /\ in' = <<>>
  /\ button' = IF status = "Finish" THEN FALSE ELSE button
  /\ UNCHANGED <<engine, rxBuffer, txBuffer, status, readTimer, fileOpen, out>>

\* writeTimeOut() and the slot that ui_ymodem connects to its signal.  The
\* 100 ms timer was armed after the 10 ms one and does not overtake it.
WriteTimeOut ==
  /\ writeTimer
  /\ ~readTimer
  /\ writeTimer' = FALSE
  /\ portOpen' = FALSE
  /\ button' = IF status \in Running THEN button ELSE FALSE
  /\ in' = <<>>
  /\ UNCHANGED <<engine, rxBuffer, txBuffer, status, readTimer, fileOpen, out>>

\* Mutated form of Rearm: the timer is not armed again once data flows.
RearmEstablishing == \/ status' = "Establish" /\ readTimer' = TRUE
                     \/ status' # "Establish" /\ readTimer' = FALSE

\* The frame of readTimeOut(): the timer is armed again while the status
\* says that the session goes on.  A packet that is given up in the middle
\* is not read any further.
Rearm == \/ status' \in Running /\ readTimer' = TRUE
         \/ status' \notin Running /\ readTimer' = FALSE
Poll(r) == /\ in' = r.rest
           /\ rxBuffer' = IF code' = "None" THEN <<>> ELSE r.buf
NoPoll  == UNCHANGED <<in, rxBuffer>>
-----------------------------------------------------------------------------
(* What the properties of both sides rest on *)

\* A packet that is read in part is short of at least one unit.
PartialPacket == code # "None" => Len(rxBuffer) \in 1 .. FrameUnits(code) - 1

\* An outcome is announced by the armed writeTimer and leaves the engine
\* without a transfer.
NoTransfer == stage \in {StageNone, StageEstablishing}
OutcomePending ==
  /\ writeTimer => status \in Terminal
  /\ button => \/ status \in Running /\ readTimer
               \/ status \in Terminal /\ writeTimer
  /\ status \in Terminal /\ readTimer => stage = StageNone
  /\ status \in Terminal => NoTransfer
  /\ ~button => NoTransfer
=============================================================================
