------------------------- MODULE YmodemFileTransmit -------------------------
(***************************************************************************)
(* The sending side: Ymodem::transmit() with its stage functions           *)
(* (src/ymodem/Ymodem.cpp:178-222, 1178-1760) and YmodemFileTransmit, the  *)
(* object that gives it a file, a serial port and two timers.              *)
(*                                                                         *)
(* The peer is any: Spec lets every unit of Heard arrive at any moment.    *)
(* YmodemLink puts the program's own receiver there instead.               *)
(***************************************************************************)
EXTENDS Ymodem

CONSTANTS
  Heard,   \* the units that may arrive
  InMax    \* bound: at most InMax units are on their way

ASSUME HeardAssumption == Heard \subseteq Unit

VARIABLES
  fileSize,   \* the size of the file when it was opened
  fileCount   \* how much of it has been read

file == <<fileSize, fileCount>>
vars == <<ymodemVars, file>>

KeepFile == UNCHANGED file

-----------------------------------------------------------------------------
(* callback(StatusTransmit): the next block of the file *)

Remaining == fileSize - fileCount

\* Up to 1024 bytes at a time, in a packet of 128 when that is enough.
BlockSize(left) == IF left > PacketSize THEN Packet1kSize ELSE PacketSize
BlockRead(left) == IF left < BlockSize(left) THEN left ELSE BlockSize(left)

\* The packet with number num: the bytes after the first "from" ones.
Block(num, from, left) ==
  [kind |-> IF BlockSize(left) > PacketSize THEN "Stx" ELSE "Soh",
   num |-> num, what |-> "data", from |-> from, n |-> BlockRead(left)]

\* Mutated form of ZeroHeader: it is numbered like the first block.
ZeroHeaderOne == [kind |-> "Soh", num |-> 1, what |-> "zero", from |-> 0, n |-> 0]

Info(size) == [kind |-> "Soh", num |-> 0, what |-> "info", from |-> 0, n |-> size]
ZeroHeader == [kind |-> "Soh", num |-> 0, what |-> "zero", from |-> 0, n |-> 0]

\* Mutated form of NextNum: dataCount is wider than the packet's number.
NextNumWide(d) == d + 1

NextNum(d) == (d + 1) % NumMod

\* Mutated forms of MoreToSend: a last short packet is dropped; an empty file
\* is sent as one block.
MoreThanShort == Remaining > PacketSize
MoreOrEmpty   == Remaining # 0 \/ fileSize = 0

\* A block was read, or the end of the file was seen.
MoreToSend == Remaining # 0
ReadBlock  == fileCount' = fileCount + BlockRead(Remaining) /\ UNCHANGED fileSize
Moving     == status' = "Transmit" /\ UNCHANGED <<writeTimer, fileOpen>>

-----------------------------------------------------------------------------
(* The stage functions.  r is what receivePacket() returned. *)

transmitStageNone ==
  /\ stage = StageNone
  /\ Reset(StageEstablishing, 0)
  /\ Quiet /\ Going /\ KeepFile

transmitStageEstablishing(r) ==
  /\ stage = StageEstablishing
  /\ \/ /\ r.ret = "C"
        /\ \E size \in FileSizes :   \* the file opens
             /\ fileSize' = size /\ fileCount' = 0
             /\ Send(Wire(Info(size)))
        /\ Reset(StageEstablished, 0)
        /\ fileOpen' = TRUE /\ status' = "Establish" /\ UNCHANGED writeTimer
     \/ /\ r.ret = "C"               \* it does not
        /\ Reset(StageNone, 0) /\ Send(Cans)
        /\ status' = "Error" /\ writeTimer' = TRUE /\ UNCHANGED fileOpen
        /\ KeepFile
     \/ r.ret \in AbortCodes /\ Aborted /\ KeepFile
     \/ /\ r.ret \notin {"C"} \cup AbortCodes
        /\ Tick("Timeout", r, Quiet) /\ KeepFile

\* C answers the header: go on to StageEstablished + dataCount and send what
\* is prepared.  That is the header again (0), the first block (1) or EOT (2).
Proceed ==
  \/ TooMany /\ Fail("Error")
  \/ ~TooMany /\ Reset(stage + dataCount, dataCount) /\ Resend /\ Going

\* ACK of the header: the first block is prepared, but it waits for the C.
FirstBlock ==
  /\ Moving
  /\ \/ /\ MoreToSend
        /\ Reset(StageEstablished, 1)
        /\ txBuffer' = Wire(Block(1, fileCount, Remaining)) /\ UNCHANGED out
        /\ ReadBlock
     \/ /\ ~MoreToSend
        /\ Reset(StageEstablished, 2)
        /\ Send(Ctl("Eot"))
        /\ KeepFile

transmitStageEstablished(r) ==
  /\ stage = StageEstablished
  /\ \/ r.ret = "Nak" /\ CountError(r, txBuffer) /\ KeepFile
     \/ r.ret = "C" /\ Proceed /\ KeepFile
     \/ r.ret = "Ack" /\ FirstBlock
     \/ r.ret \in AbortCodes /\ Aborted /\ KeepFile
     \/ /\ r.ret \notin {"Nak", "C", "Ack"} \cup AbortCodes
        /\ Tick("Error", r, Resend) /\ KeepFile

\* Mutated form of NextBlock: the number is stamped before it is increased.
NextBlockOldNumber ==
  /\ Moving
  /\ \/ /\ MoreToSend
        /\ Reset(StageTransmitting, NextNum(dataCount))
        /\ Send(Wire(Block(dataCount, fileCount, Remaining)))
        /\ ReadBlock
     \/ ~MoreToSend /\ Reset(StageFinishing, 0) /\ Send(Ctl("Eot")) /\ KeepFile

\* ACK of a block.
NextBlock ==
  /\ Moving
  /\ \/ /\ MoreToSend
        /\ Reset(StageTransmitting, NextNum(dataCount))
        /\ Send(Wire(Block(NextNum(dataCount), fileCount, Remaining)))
        /\ ReadBlock
     \/ /\ ~MoreToSend
        /\ Reset(StageFinishing, 0)
        /\ Send(Ctl("Eot"))
        /\ KeepFile

transmitStageTransmitting(r) ==
  /\ stage = StageTransmitting
  /\ \/ r.ret = "Nak" /\ CountError(r, txBuffer) /\ KeepFile
     \/ r.ret = "Ack" /\ NextBlock
     \/ r.ret \in AbortCodes /\ Aborted /\ KeepFile
     \/ /\ r.ret \notin {"Nak", "Ack"} \cup AbortCodes
        /\ Tick("Error", r, Resend) /\ KeepFile

transmitStageFinishing(r) ==
  /\ stage = StageFinishing
  /\ KeepFile
  /\ \/ r.ret = "Nak" /\ Reset(StageFinishing, 0) /\ Send(Ctl("Eot")) /\ Going
     \/ r.ret = "C" /\ Reset(StageFinished, 0) /\ Send(Wire(ZeroHeader)) /\ Going
     \/ r.ret \in AbortCodes /\ Aborted
     \/ r.ret \notin {"Nak", "C"} \cup AbortCodes /\ Tick("Error", r, Resend)

transmitStageFinished(r) ==
  /\ stage \notin StageNone .. StageFinishing
  /\ KeepFile
  /\ \/ r.ret \in {"C", "Nak"} /\ CountError(r, txBuffer)
     \/ r.ret = "Ack" /\ Reset(StageNone, 0) /\ Quiet /\ Report("Finish")
     \/ r.ret \in AbortCodes /\ Aborted
     \/ r.ret \notin {"C", "Nak", "Ack"} \cup AbortCodes /\ Tick("Error", r, Resend)

-----------------------------------------------------------------------------
(* The steps of the program *)

\* transmit(), with a packet read where the stage reads one.
transmit ==
  \/ transmitStageNone /\ NoPoll
  \/ /\ stage # StageNone
     /\ \E r \in receivePacket :
          /\ \/ transmitStageEstablishing(r)
             \/ transmitStageEstablished(r)
             \/ transmitStageTransmitting(r)
             \/ transmitStageFinishing(r)
             \/ transmitStageFinished(r)
          /\ Poll(r)

ReadTimeOut ==
  /\ readTimer
  /\ transmit
  /\ Rearm
  /\ UNCHANGED <<portOpen, button>>

startTransmit == Start /\ KeepFile
stopTransmit  == Stop /\ KeepFile
writeTimeOut  == WriteTimeOut /\ KeepFile

Init == YmodemInit /\ fileSize = 0 /\ fileCount = 0

Program == startTransmit \/ stopTransmit \/ ReadTimeOut \/ writeTimeOut

(* The surroundings: units arrive at an open port, and what was written is *)
(* taken by the wire.                                                      *)

Elsewhere == UNCHANGED <<engine, rxBuffer, txBuffer, session, file>>

Arrive == /\ portOpen
          /\ Len(in) < InMax /\ Room
          /\ \E u \in Heard : in' = Append(in, u)
          /\ UNCHANGED out /\ Elsewhere

Drain == /\ out # <<>>
         /\ out' = <<>>
         /\ UNCHANGED in /\ Elsewhere

Next == Program \/ Arrive \/ Drain

Spec == Init /\ [][Next]_vars

\* An armed timer fires, and the wire carries what it is given.  The user
\* need never click.
Fairness == /\ WF_vars(ReadTimeOut)
            /\ WF_vars(writeTimeOut)
            /\ WF_vars(Drain)
FairSpec == Spec /\ Fairness

-----------------------------------------------------------------------------
(* Properties *)

\* Every variable keeps to its type; in particular (Stage)(stage + dataCount)
\* in transmitStageEstablished is a stage (Ymodem.cpp:1337).
TypeOK ==
  /\ timeCount \in Nat /\ errorCount \in Nat /\ dataCount \in 0 .. NumMod - 1
  /\ code \in {"None", "Soh", "Stx"} /\ stage \in StageNone .. StageFinished
  /\ stage = StageEstablished => dataCount \in 0 .. 2
  /\ rxBuffer \in Seq(Unit) /\ txBuffer \in Seq(Unit)
  /\ status \in Statuses /\ readTimer \in BOOLEAN /\ writeTimer \in BOOLEAN
  /\ portOpen \in BOOLEAN /\ fileOpen \in BOOLEAN /\ button \in BOOLEAN
  /\ in \in Seq(Unit) /\ out \in Seq(Unit)
  /\ fileSize \in Nat /\ fileCount \in 0 .. fileSize

\* While the button says start nothing is left of a session: the port and
\* the file are closed and no timer will fire.  While it says cancel the port
\* is open and a timer is armed that will move or end the session.
SessionOwnsResources ==
  /\ ~button => ~portOpen /\ ~fileOpen /\ ~readTimer /\ ~writeTimer
  /\ button => portOpen /\ (readTimer \/ writeTimer)

\* The file is open exactly while the engine may read it.
FileOpenWhileSending == fileOpen <=> stage \in StageEstablished .. StageFinished

\* The clock and the error counter never pass the limits that the note on
\* Ymodem::Ymodem names.  That alone bounds no wait: see CountersRestartOnProgress.
WaitIsBounded ==
  /\ timeCount \div (TimeDivide + 1) <= TimeMax
  /\ errorCount <= ErrorMax

\* What a timeout or a NAK sends again is what the peer is to answer next,
\* and it ends where the reading of the file has got to.
CurrentBlock(num) ==
  \E from \in 0 .. fileCount - 1 :
    txBuffer = Wire(Block(num, from, fileSize - from))
       /\ from + BlockRead(fileSize - from) = fileCount
ResendIsCurrent ==
  /\ stage = StageEstablished =>
       \/ dataCount = 0 /\ fileCount = 0 /\ txBuffer = Wire(Info(fileSize))
       \/ dataCount = 1 /\ CurrentBlock(1)
       \/ dataCount = 2 /\ txBuffer = Ctl("Eot")
  /\ stage = StageTransmitting => CurrentBlock(dataCount)
  /\ stage = StageFinishing => txBuffer = Ctl("Eot")
  /\ stage = StageFinished => txBuffer = Wire(ZeroHeader)

\* "Firmware Update Successful." is shown only after the whole file was read
\* (ymodem_ui.cpp:215), whatever the peer answered and in whatever order.
FinishMeansWholeFileRead == status = "Finish" => fileCount = fileSize

\* The stages that end a transfer are entered with the file at its end.
EndOfFileSeen ==
  (\/ stage \in {StageFinishing, StageFinished}
   \/ stage = StageEstablished /\ dataCount = 2) => fileCount = fileSize

\* What the properties above rest on, with what Ymodem says of both sides.
Inductive == /\ TypeOK
             /\ PartialPacket
             /\ SessionOwnsResources
             /\ FileOpenWhileSending
             /\ OutcomePending
             /\ WaitIsBounded
             /\ EndOfFileSeen
             /\ FinishMeansWholeFileRead

\* Once a session has an outcome only the user changes it: a late answer or
\* a timer that is still armed does not.
OutcomeIsFinal ==
  [][button /\ status \in Terminal /\ status' # status => status' = "Abort"]_vars

\* The session gets on, or is over.
Progress == \/ <<stage, dataCount, fileCount>>' # <<stage, dataCount, fileCount>>
            \/ status' \in Terminal

\* The header and EOT are sent again on demand, and the counters start anew:
\* C after the header (Ymodem.cpp:1333), ACK after an EOT that no C was waited
\* for (Ymodem.cpp:1369), NAK after any other EOT (Ymodem.cpp:1593).
HeaderOrEotAgain == \/ stage = StageEstablished /\ dataCount \in {0, 2}
                    \/ stage = StageFinishing

CountersGoBack == timeCount' < timeCount \/ errorCount' < errorCount

\* A peer does not keep the transmitter at one block, whatever it says: the
\* clock and the error counter keep to the limits of the note on Ymodem::Ymodem
\* and start anew only when the session gets on, but for the header and EOT,
\* which a peer may ask for without end.
CountersRestartOnProgress ==
  [][WaitIsBounded' /\ (CountersGoBack => Progress \/ HeaderOrEotAgain)]_vars

\* A peer that goes on talking does not keep the window locked either, unless
\* it asks for the header or EOT, or the user clicks cancel, for ever.
AskedAgain == /\ ReadTimeOut /\ ~Progress /\ HeaderOrEotAgain
              /\ timeCount' = 0 /\ errorCount' = 0
BabblingPeerEndsSession ==
  (<>[][~AskedAgain /\ ~stopTransmit]_vars) => (button ~> ~button)

\* A peer that falls silent does not keep the window locked: the session
\* ends, unless the user restarts the 100 ms timer by clicking cancel for ever.
SilentPeerEndsSession ==
  (<>[][~Arrive /\ ~stopTransmit]_vars) => (button ~> ~button)
=============================================================================
