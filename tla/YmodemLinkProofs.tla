--------------------------- MODULE YmodemLinkProofs ---------------------------
(***************************************************************************)
(* Proofs about the two programs on a cable that may lose and damage what  *)
(* it carries, be late, and be unplugged by a cancel at either end.        *)
(*                                                                         *)
(* Each program keeps its invariant with the other as its peer.  What the  *)
(* receiver makes of the file: no byte of it is out of order, success is   *)
(* reported after the last one was read, and the process survives.  These  *)
(* three rest on one observation: the transmitter writes header, blocks,   *)
(* EOT and the header of zeros in this order, each as often as it likes,   *)
(* and the cable neither overtakes nor repeats.                            *)
(***************************************************************************)
EXTENDS YmodemLink, TLAPS

\* The proofs about each program, for the variables it has here.
TxP == INSTANCE YmodemFileTransmitProofs WITH
  Heard <- {}, InMax <- 0,
  timeCount <- tTimeCount, errorCount <- tErrorCount, dataCount <- tDataCount,
  code <- tCode, stage <- tStage, rxBuffer <- tRxBuffer, txBuffer <- tTxBuffer,
  status <- tStatus, readTimer <- tReadTimer, writeTimer <- tWriteTimer,
  portOpen <- tPortOpen, fileOpen <- tFileOpen, button <- tButton,
  fileSize <- tFileSize, fileCount <- tFileCount, in <- toTx, out <- toRx

RxP == INSTANCE YmodemFileReceiveProofs WITH
  Heard <- {}, InMax <- 0,
  timeCount <- rTimeCount, errorCount <- rErrorCount, dataCount <- rDataCount,
  code <- rCode, stage <- rStage, rxBuffer <- rRxBuffer, txBuffer <- rTxBuffer,
  status <- rStatus, readTimer <- rReadTimer, writeTimer <- rWriteTimer,
  portOpen <- rPortOpen, fileOpen <- rFileOpen, button <- rButton,
  fileSize <- rFileSize, fileCount <- rFileCount, in <- toRx, out <- toTx

-----------------------------------------------------------------------------
(* The programs are those of the proofs *)

\* Tx is the program that YmodemFileTransmitProofs is about.
LEMMA SameTransmitter ==
  /\ Tx!Init <=> TxP!Init
  /\ Tx!Program <=> TxP!Program
  /\ Tx!ReadTimeOut <=> TxP!ReadTimeOut
  /\ Tx!Inductive <=> TxP!Inductive
  /\ Tx!ResendIsCurrent <=> TxP!ResendIsCurrent
<1>1. Tx!Init <=> TxP!Init
  BY DEF Tx!Init, Tx!StageNone, Tx!YmodemInit, TxP!Init, TxP!StageNone, TxP!YmodemInit
<1>2. Tx!ReadTimeOut <=> TxP!ReadTimeOut
  BY DEF Tx!AbortCodes, Tx!Aborted, Tx!Block, Tx!BlockRead, Tx!BlockSize, Tx!Byte,
         Tx!Cans, Tx!Codes, Tx!CountError, Tx!Ctl, Tx!Decode, Tx!Expired, Tx!Fail,
         Tx!Fill, Tx!FirstBlock, Tx!FirstByte, Tx!FrameUnits, Tx!Going, Tx!Info,
         Tx!KeepFile, Tx!Late, Tx!MoreToSend, Tx!Moving, Tx!NextBlock, Tx!NextNum,
         Tx!NoPacket, Tx!NoPoll, Tx!Poll, Tx!Proceed, Tx!Quiet, Tx!ReadBlock,
         Tx!ReadTimeOut, Tx!Reads, Tx!Rearm, Tx!Remaining, Tx!Report, Tx!Resend,
         Tx!Reset, Tx!Room, Tx!Running, Tx!Send, Tx!StageEstablished,
         Tx!StageEstablishing, Tx!StageFinished, Tx!StageFinishing, Tx!StageNone,
         Tx!StageTransmitting, Tx!Tick, Tx!TooMany, Tx!Wire, Tx!Write, Tx!ZeroHeader,
         Tx!file, Tx!receivePacket, Tx!transmit, Tx!transmitStageEstablished,
         Tx!transmitStageEstablishing, Tx!transmitStageFinished,
         Tx!transmitStageFinishing, Tx!transmitStageNone, Tx!transmitStageTransmitting,
         TxP!AbortCodes, TxP!Aborted, TxP!Block, TxP!BlockRead, TxP!BlockSize, TxP!Byte,
         TxP!Cans, TxP!Codes, TxP!CountError, TxP!Ctl, TxP!Decode, TxP!Expired,
         TxP!Fail, TxP!Fill, TxP!FirstBlock, TxP!FirstByte, TxP!FrameUnits, TxP!Going,
         TxP!Info, TxP!KeepFile, TxP!Late, TxP!MoreToSend, TxP!Moving, TxP!NextBlock,
         TxP!NextNum, TxP!NoPacket, TxP!NoPoll, TxP!Poll, TxP!Proceed, TxP!Quiet,
         TxP!ReadBlock, TxP!ReadTimeOut, TxP!Reads, TxP!Rearm, TxP!Remaining,
         TxP!Report, TxP!Resend, TxP!Reset, TxP!Room, TxP!Running, TxP!Send,
         TxP!StageEstablished, TxP!StageEstablishing, TxP!StageFinished,
         TxP!StageFinishing, TxP!StageNone, TxP!StageTransmitting, TxP!Tick,
         TxP!TooMany, TxP!Wire, TxP!Write, TxP!ZeroHeader, TxP!file, TxP!receivePacket,
         TxP!transmit, TxP!transmitStageEstablished, TxP!transmitStageEstablishing,
         TxP!transmitStageFinished, TxP!transmitStageFinishing, TxP!transmitStageNone,
         TxP!transmitStageTransmitting
<1>3. /\ Tx!startTransmit <=> TxP!startTransmit
      /\ Tx!stopTransmit <=> TxP!stopTransmit
      /\ Tx!writeTimeOut <=> TxP!writeTimeOut
  BY DEF Tx!Cans, Tx!Ctl, Tx!KeepFile, Tx!NoPacket, Tx!Reset, Tx!Room, Tx!Running,
         Tx!Send, Tx!StageNone, Tx!Start, Tx!Stop, Tx!Write, Tx!WriteTimeOut, Tx!engine,
         Tx!file, Tx!startTransmit, Tx!stopTransmit, Tx!writeTimeOut, TxP!Cans, TxP!Ctl,
         TxP!KeepFile, TxP!NoPacket, TxP!Reset, TxP!Room, TxP!Running, TxP!Send,
         TxP!StageNone, TxP!Start, TxP!Stop, TxP!Write, TxP!WriteTimeOut, TxP!engine,
         TxP!file, TxP!startTransmit, TxP!stopTransmit, TxP!writeTimeOut
<1>4. Tx!Inductive <=> TxP!Inductive
  BY DEF Tx!Codes, Tx!EndOfFileSeen, Tx!FileOpenWhileSending,
         Tx!FinishMeansWholeFileRead, Tx!FrameUnits, Tx!Inductive, Tx!NoTransfer,
         Tx!OutcomePending, Tx!Packet, Tx!PartialPacket, Tx!Running,
         Tx!SessionOwnsResources, Tx!StageEstablished, Tx!StageEstablishing,
         Tx!StageFinished, Tx!StageFinishing, Tx!StageNone, Tx!Statuses, Tx!Terminal,
         Tx!TypeOK, Tx!Unit, Tx!WaitIsBounded, TxP!Codes, TxP!EndOfFileSeen,
         TxP!FileOpenWhileSending, TxP!FinishMeansWholeFileRead, TxP!FrameUnits,
         TxP!Inductive, TxP!NoTransfer, TxP!OutcomePending, TxP!Packet,
         TxP!PartialPacket, TxP!Running, TxP!SessionOwnsResources, TxP!StageEstablished,
         TxP!StageEstablishing, TxP!StageFinished, TxP!StageFinishing, TxP!StageNone,
         TxP!Statuses, TxP!Terminal, TxP!TypeOK, TxP!Unit, TxP!WaitIsBounded
<1>5. Tx!ResendIsCurrent <=> TxP!ResendIsCurrent
  BY DEF Tx!Block, Tx!BlockRead, Tx!BlockSize, Tx!Ctl, Tx!CurrentBlock, Tx!FrameUnits,
         Tx!Info, Tx!NoPacket, Tx!ResendIsCurrent, Tx!StageEstablished,
         Tx!StageFinished, Tx!StageFinishing, Tx!StageTransmitting, Tx!Wire,
         Tx!ZeroHeader, TxP!Block, TxP!BlockRead, TxP!BlockSize, TxP!Ctl,
         TxP!CurrentBlock, TxP!FrameUnits, TxP!Info, TxP!NoPacket, TxP!ResendIsCurrent,
         TxP!StageEstablished, TxP!StageFinished, TxP!StageFinishing,
         TxP!StageTransmitting, TxP!Wire, TxP!ZeroHeader
<1> QED BY <1>1, <1>2, <1>3, <1>4, <1>5 DEF Tx!Program, TxP!Program

\* Rx is the program that YmodemFileReceiveProofs is about.
LEMMA SameReceiver ==
  /\ Rx!Init <=> RxP!Init
  /\ Rx!startReceive \/ Rx!stopReceive \/ Rx!ReadTimeOut \/ Rx!writeTimeOut
       => RxP!Program
  /\ Rx!ReadTimeOut <=> RxP!ReadTimeOut
  /\ Rx!Inductive <=> RxP!Inductive
<1>1. Rx!Init <=> RxP!Init
  BY DEF Rx!Init, Rx!StageNone, Rx!YmodemInit, RxP!Init, RxP!StageNone, RxP!YmodemInit
<1>2. Rx!ReadTimeOut <=> RxP!ReadTimeOut
  BY DEF Rx!AbortCodes, Rx!Aborted, Rx!Accept, Rx!AckC, Rx!Announced, Rx!Byte, Rx!Cans,
         Rx!Codes, Rx!CountError, Rx!Crash, Rx!Ctl, Rx!DataLength, Rx!Decode,
         Rx!DividesByZero, Rx!Establish, Rx!Expired, Rx!Fail, Rx!Fill, Rx!FirstByte,
         Rx!FirstEot, Rx!FrameUnits, Rx!Going, Rx!IsHeader, Rx!IsPacket, Rx!KeepFile,
         Rx!Late, Rx!NextNum, Rx!NoPacket, Rx!NoPoll, Rx!NoSession, Rx!OnDisk,
         Rx!Otherwise, Rx!Payload, Rx!Poll, Rx!Quiet, Rx!ReadTimeOut, Rx!Reads,
         Rx!Rearm, Rx!Refuse, Rx!Report, Rx!Reset, Rx!Room, Rx!Running, Rx!Send,
         Rx!StageEstablished, Rx!StageEstablishing, Rx!StageFinished, Rx!StageFinishing,
         Rx!StageNone, Rx!StageTransmitting, Rx!Taken, Rx!Tick, Rx!TooMany, Rx!Wire,
         Rx!Write, Rx!file, Rx!receive, Rx!receivePacket, Rx!receiveStageEstablished,
         Rx!receiveStageEstablishing, Rx!receiveStageFinished, Rx!receiveStageFinishing,
         Rx!receiveStageNone, Rx!receiveStageTransmitting, RxP!AbortCodes, RxP!Aborted,
         RxP!Accept, RxP!AckC, RxP!Announced, RxP!Byte, RxP!Cans, RxP!Codes,
         RxP!CountError, RxP!Crash, RxP!Ctl, RxP!DataLength, RxP!Decode,
         RxP!DividesByZero, RxP!Establish, RxP!Expired, RxP!Fail, RxP!Fill,
         RxP!FirstByte, RxP!FirstEot, RxP!FrameUnits, RxP!Going, RxP!IsHeader,
         RxP!IsPacket, RxP!KeepFile, RxP!Late, RxP!NextNum, RxP!NoPacket, RxP!NoPoll,
         RxP!NoSession, RxP!OnDisk, RxP!Otherwise, RxP!Payload, RxP!Poll, RxP!Quiet,
         RxP!ReadTimeOut, RxP!Reads, RxP!Rearm, RxP!Refuse, RxP!Report, RxP!Reset,
         RxP!Room, RxP!Running, RxP!Send, RxP!StageEstablished, RxP!StageEstablishing,
         RxP!StageFinished, RxP!StageFinishing, RxP!StageNone, RxP!StageTransmitting,
         RxP!Taken, RxP!Tick, RxP!TooMany, RxP!Wire, RxP!Write, RxP!file, RxP!receive,
         RxP!receivePacket, RxP!receiveStageEstablished, RxP!receiveStageEstablishing,
         RxP!receiveStageFinished, RxP!receiveStageFinishing, RxP!receiveStageNone,
         RxP!receiveStageTransmitting
<1>3. /\ Rx!startReceive <=> RxP!startReceive
      /\ Rx!stopReceive <=> RxP!stopReceive
      /\ Rx!writeTimeOut <=> RxP!writeTimeOut
  BY DEF Rx!Cans, Rx!Ctl, Rx!KeepFile, Rx!NoPacket, Rx!Reset, Rx!Room, Rx!Running,
         Rx!Send, Rx!StageNone, Rx!Start, Rx!Stop, Rx!Write, Rx!WriteTimeOut, Rx!engine,
         Rx!file, Rx!startReceive, Rx!stopReceive, Rx!writeTimeOut, RxP!Cans, RxP!Ctl,
         RxP!KeepFile, RxP!NoPacket, RxP!Reset, RxP!Room, RxP!Running, RxP!Send,
         RxP!StageNone, RxP!Start, RxP!Stop, RxP!Write, RxP!WriteTimeOut, RxP!engine,
         RxP!file, RxP!startReceive, RxP!stopReceive, RxP!writeTimeOut
<1>4. Rx!Inductive <=> RxP!Inductive
  BY DEF Rx!Codes, Rx!CountMatchesFile, Rx!CrashedInSession, Rx!FileOpenWhileReceiving,
         Rx!FrameUnits, Rx!Inductive, Rx!NoTransfer, Rx!OutcomePending, Rx!Packet,
         Rx!PartialPacket, Rx!Running, Rx!SessionOwnsResources, Rx!StageEstablished,
         Rx!StageEstablishing, Rx!StageFinished, Rx!StageNone, Rx!Statuses, Rx!Terminal,
         Rx!TypeOK, Rx!Unit, Rx!WaitIsBounded, RxP!Codes, RxP!CountMatchesFile,
         RxP!CrashedInSession, RxP!FileOpenWhileReceiving, RxP!FrameUnits,
         RxP!Inductive, RxP!NoTransfer, RxP!OutcomePending, RxP!Packet,
         RxP!PartialPacket, RxP!Running, RxP!SessionOwnsResources, RxP!StageEstablished,
         RxP!StageEstablishing, RxP!StageFinished, RxP!StageNone, RxP!Statuses,
         RxP!Terminal, RxP!TypeOK, RxP!Unit, RxP!WaitIsBounded
<1> QED BY <1>1, <1>2, <1>3, <1>4 DEF RxP!Program

-----------------------------------------------------------------------------
(* Each program keeps its own invariant on the cable *)

\* The constants are what the proofs about the programs assume them to be.
LEMMA CodesHere ==
  /\ StrayCodes \subseteq TxP!Codes /\ StrayCodes \subseteq RxP!Codes
  /\ TxP!Unit = RxP!Unit
BY ProgramAssumption DEF Tx!Codes, TxP!Codes, RxP!Codes, TxP!Unit, RxP!Unit,
   TxP!Packet, RxP!Packet

ProgramsOK == TxP!Inductive /\ TxP!ResendIsCurrent /\ RxP!Inductive

\* What the cable carries is made of units.
LEMMA ChannelTypes ==
  ASSUME ProgramsOK
  PROVE  toRx \in Seq(RxP!Unit) /\ toTx \in Seq(RxP!Unit) /\ rRxBuffer \in Seq(RxP!Unit)
         /\ toRx \in Seq(TxP!Unit) /\ toTx \in Seq(TxP!Unit)
BY CodesHere DEF ProgramsOK, TxP!Inductive, TxP!TypeOK, RxP!Inductive, RxP!TypeOK

\* A program that does nothing itself keeps its invariant.
LEMMA BystanderOK ==
  /\ /\ TxP!Inductive /\ TxP!ResendIsCurrent /\ UNCHANGED tVars
     /\ toTx' \in Seq(TxP!Unit) /\ toRx' \in Seq(TxP!Unit)
     => TxP!Inductive' /\ TxP!ResendIsCurrent'
  /\ /\ RxP!Inductive /\ UNCHANGED rVars
     /\ toTx' \in Seq(RxP!Unit) /\ toRx' \in Seq(RxP!Unit)
     => RxP!Inductive'
<1>1. ASSUME TxP!Inductive, TxP!ResendIsCurrent, UNCHANGED tVars,
             toTx' \in Seq(TxP!Unit), toRx' \in Seq(TxP!Unit)
      PROVE  TxP!Inductive' /\ TxP!ResendIsCurrent'
  <2>1. TxP!Elsewhere
    BY <1>1 DEF tVars, TxP!Elsewhere, TxP!engine, TxP!session, TxP!file
  <2>2. UNCHANGED <<tStage, tDataCount, tTxBuffer, tFileSize, tFileCount>>
    BY <1>1 DEF tVars
  <2> QED BY <1>1, <2>1, <2>2, TxP!WireOK, TxP!SameCurrent, ProgramAssumption, CodesHere
<1>2. ASSUME RxP!Inductive, UNCHANGED rVars,
             toTx' \in Seq(RxP!Unit), toRx' \in Seq(RxP!Unit)
      PROVE  RxP!Inductive'
  <2>1. RxP!Elsewhere
    BY <1>2 DEF rVars, RxP!Elsewhere, RxP!engine, RxP!session, RxP!file
  <2> QED BY <1>2, <2>1, RxP!WireOK, ProgramAssumption, CodesHere
<1> QED BY <1>1, <1>2

\* A step of the transmitter.
LEMMA SenderOK ==
  ASSUME ProgramsOK, Sender(Tx!Program)
  PROVE  ProgramsOK'
<1>1. TxP!Next /\ UNCHANGED rVars
  BY SameTransmitter DEF Sender, TxP!Next
<1>2. TxP!Inductive' /\ TxP!ResendIsCurrent'
  BY <1>1, TxP!StepOK, TxP!CurrentStep, ProgramAssumption, CodesHere DEF ProgramsOK
<1>3. toTx' \in Seq(RxP!Unit) /\ toRx' \in Seq(RxP!Unit)
  BY <1>2, CodesHere DEF TxP!Inductive, TxP!TypeOK
<1> QED BY <1>1, <1>2, <1>3, BystanderOK DEF ProgramsOK

\* A step of the receiver.
LEMMA ReceiverOK ==
  ASSUME ProgramsOK,
         Receiver(Rx!startReceive \/ Rx!stopReceive \/ Rx!ReadTimeOut \/ Rx!writeTimeOut)
  PROVE  ProgramsOK'
<1>1. RxP!Next /\ UNCHANGED tVars
  BY SameReceiver DEF Receiver, RxP!Next
<1>2. RxP!Inductive'
  BY <1>1, RxP!StepOK, ProgramAssumption, CodesHere DEF ProgramsOK
<1>3. toTx' \in Seq(TxP!Unit) /\ toRx' \in Seq(TxP!Unit)
  BY <1>2, CodesHere DEF RxP!Inductive, RxP!TypeOK
<1> QED BY <1>1, <1>2, <1>3, BystanderOK DEF ProgramsOK

\* What is lost or damaged leaves units.
LEMMA SpoilType ==
  ASSUME NEW chan \in Seq(RxP!Unit), NEW i \in 1 .. Len(chan)
  PROVE  Without(chan, i) \in Seq(RxP!Unit) /\ Damaged(chan, i) \in Seq(RxP!Unit)
<1>1. SubSeq(chan, 1, i - 1) \in Seq(RxP!Unit)
      /\ SubSeq(chan, i + 1, Len(chan)) \in Seq(RxP!Unit)
  OBVIOUS
<1>2. chan[i] \in RxP!Unit
  OBVIOUS
<1>3. [chan[i] EXCEPT !.part = 0] \in RxP!Unit
  BY <1>2 DEF RxP!Unit
<1> QED BY <1>1, <1>3 DEF Without, Damaged

\* A step of the cable.
LEMMA CableOK ==
  ASSUME ProgramsOK, UNCHANGED <<tVars, rVars>>,
         toTx' \in Seq(RxP!Unit), toRx' \in Seq(RxP!Unit)
  PROVE  ProgramsOK'
BY BystanderOK, CodesHere DEF ProgramsOK

\* Every step.
LEMMA ProgramsStep ==
  ASSUME ProgramsOK, [Next]_vars
  PROVE  ProgramsOK'
<1>0. toRx \in Seq(RxP!Unit) /\ toTx \in Seq(RxP!Unit)
  BY ChannelTypes
<1>1. CASE StartTransmit \/ StopTransmit \/ TxReadTimeOut \/ TxWriteTimeOut
  BY <1>1, SenderOK DEF StartTransmit, StopTransmit, TxReadTimeOut, TxWriteTimeOut,
                        Sender, Tx!Program
<1>2. CASE StartReceive \/ StopReceive \/ RxReadTimeOut \/ RxWriteTimeOut
  BY <1>2, ReceiverOK DEF StartReceive, StopReceive, RxReadTimeOut, RxWriteTimeOut,
                          Receiver
<1>3. CASE Fault
  <2>1. toTx' \in Seq(RxP!Unit) /\ toRx' \in Seq(RxP!Unit)
    BY <1>0, <1>3, SpoilType DEF Fault, Spoil
  <2> QED BY <1>3, <2>1, CableOK DEF Fault
<1>4. CASE Discard
  <2>1. <<>> \in Seq(RxP!Unit)
    OBVIOUS
  <2>2. toTx' \in Seq(RxP!Unit) /\ toRx' \in Seq(RxP!Unit)
    BY <1>0, <1>4, <2>1 DEF Discard
  <2> QED BY <1>4, <2>2, CableOK DEF Discard
<1>5. CASE UNCHANGED vars
  BY <1>0, <1>5, CableOK DEF vars
<1> QED BY <1>1, <1>2, <1>3, <1>4, <1>5 DEF Next, Done

\* At the start nothing is open on either side.
LEMMA ProgramsInit == Init => ProgramsOK
<1>1. TxP!Init => TxP!Inductive /\ TxP!ResendIsCurrent
  <2>1. TxP!Init => TxP!ResendIsCurrent
    BY DEF TxP!Init, TxP!YmodemInit, TxP!ResendIsCurrent, TxP!StageNone,
           TxP!StageEstablished, TxP!StageTransmitting, TxP!StageFinishing,
           TxP!StageFinished
  <2> QED BY <2>1, TxP!InitOK, ProgramAssumption, CodesHere
<1>2. RxP!Init => RxP!Inductive
  BY RxP!InitOK, ProgramAssumption, CodesHere
<1> QED BY <1>1, <1>2, SameTransmitter, SameReceiver DEF Init, ProgramsOK

\* Both programs keep their invariants in each other's company: what was proved
\* of the transmitter for every peer, and of the receiver for every peer, holds
\* of the two on a cable, whatever it loses or damages.
THEOREM ProgramsKeepInvariants ==
  Spec => [](Tx!Inductive /\ Tx!ResendIsCurrent /\ Rx!Inductive)
<1>1. Init => ProgramsOK
  BY ProgramsInit
<1>2. ProgramsOK /\ [Next]_vars => ProgramsOK'
  BY ProgramsStep
<1>3. ProgramsOK => Tx!Inductive /\ Tx!ResendIsCurrent /\ Rx!Inductive
  BY SameTransmitter, SameReceiver DEF ProgramsOK
<1> QED BY <1>1, <1>2, <1>3, PTL DEF Spec

-----------------------------------------------------------------------------
(* What is on its way to the receiver *)

\* The first unit of the packet the receiver is reading, and what comes after it.
Coming == RxP!Stream

\* t is what is left of s when units are taken out or damaged.
LeftOf(t, s, f) ==
  /\ f \in [1 .. Len(t) -> 1 .. Len(s)]
  /\ \A i, j \in 1 .. Len(t) : i < j => f[i] < f[j]
  /\ \A i \in 1 .. Len(t) : t[i].byte = s[f[i]].byte /\ t[i].pkt = s[f[i]].pkt
Left(t, s) == \E f : LeftOf(t, s, f)

\* A sequence behind one more element.
LEMMA Prepended ==
  ASSUME NEW S, NEW s \in Seq(S), NEW b
  PROVE  /\ Len(<<b>> \o s) = Len(s) + 1 /\ (<<b>> \o s)[1] = b
         /\ \A i \in 1 .. Len(s) : (<<b>> \o s)[i + 1] = s[i]
<1>1. <<b>> \in Seq({b}) /\ Len(<<b>>) = 1
  OBVIOUS
<1> QED BY <1>1

\* Two sequences, one behind the other.
LEMMA Appended ==
  ASSUME NEW S, NEW a \in Seq(S), NEW b \in Seq(S)
  PROVE  /\ a \o b \in Seq(S) /\ Len(a \o b) = Len(a) + Len(b)
         /\ \A i \in 1 .. Len(a) : (a \o b)[i] = a[i]
         /\ \A i \in 1 .. Len(b) : (a \o b)[Len(a) + i] = b[i]
OBVIOUS

\* The units of the stream, one by one.
LEMMA ComingShape ==
  ASSUME toRx \in Seq(RxP!Unit)
  PROVE  /\ rCode = "None" => Coming = toRx
         /\ rCode # "None" =>
              /\ Len(Coming) = Len(toRx) + 1 /\ Coming[1] = rRxBuffer[1]
              /\ \A i \in 1 .. Len(toRx) : Coming[i + 1] = toRx[i]
         /\ Len(Coming) \in Nat
<1>1. CASE rCode = "None"
  BY <1>1 DEF Coming, RxP!Stream
<1>2. CASE rCode # "None"
  <2>1. Coming = <<rRxBuffer[1]>> \o toRx
    BY <1>2 DEF Coming, RxP!Stream
  <2> QED BY <1>2, <2>1, Prepended
<1> QED BY <1>1, <1>2

\* A stream of which units were taken at the front, or behind the first unit of
\* the packet that is being read.
LEMMA ComingCut ==
  ASSUME toRx \in Seq(RxP!Unit), NEW k \in 0 .. Len(toRx),
         toRx' = SubSeq(toRx, k + 1, Len(toRx)),
         rCode' # "None" => RxP!Begun(k) /\ rRxBuffer'[1] = Coming[1]
  PROVE  Left(Coming', Coming)
<1> DEFINE d == IF rCode = "None" THEN 0 ELSE 1
<1>1. /\ Len(toRx) \in Nat /\ toRx' \in Seq(RxP!Unit) /\ Len(toRx') = Len(toRx) - k
      /\ \A i \in 1 .. Len(toRx') : toRx'[i] = toRx[i + k]
  OBVIOUS
<1>2. /\ Len(Coming) = Len(toRx) + d
      /\ \A i \in 1 .. Len(toRx) : Coming[i + d] = toRx[i]
  BY <1>1, ComingShape
<1>3. CASE rCode' = "None"
  <2>1. Coming' = toRx'
    BY <1>3 DEF Coming, RxP!Stream
  <2> DEFINE f == [i \in 1 .. Len(Coming') |-> i + k + d]
  <2>2. f \in [1 .. Len(Coming') -> 1 .. Len(Coming)]
    BY <1>1, <1>2, <2>1
  <2>3. \A i \in 1 .. Len(Coming') : Coming'[i] = Coming[f[i]]
    <3> SUFFICES ASSUME NEW i \in 1 .. Len(Coming') PROVE Coming'[i] = Coming[f[i]]
      OBVIOUS
    <3>1. Coming'[i] = toRx[i + k] /\ i + k \in 1 .. Len(toRx)
      BY <1>1, <2>1
    <3> QED BY <1>2, <3>1
  <2>4. \A i, j \in 1 .. Len(Coming') : i < j => f[i] < f[j]
    BY <1>1, <2>1
  <2> HIDE DEF f
  <2> QED BY <2>2, <2>3, <2>4 DEF Left, LeftOf
<1>4. CASE rCode' # "None"
  <2>1. /\ Len(Coming') = Len(toRx') + 1 /\ Coming'[1] = rRxBuffer'[1]
        /\ \A i \in 1 .. Len(toRx') : Coming'[i + 1] = toRx'[i]
    <3>1. Coming' = <<rRxBuffer'[1]>> \o toRx'
      BY <1>4 DEF Coming, RxP!Stream
    <3> QED BY <1>1, <3>1, Prepended
  <2>2. k + d >= 1 /\ Coming'[1] = Coming[1]
    BY <1>4, <2>1 DEF RxP!Begun
  <2>3. Len(Coming) >= 1
    BY <1>1, <1>2, <2>2
  <2> DEFINE f == [i \in 1 .. Len(Coming') |-> IF i = 1 THEN 1 ELSE i - 1 + k + d]
  <2>4. f \in [1 .. Len(Coming') -> 1 .. Len(Coming)]
    BY <1>1, <1>2, <2>1, <2>3
  <2>5. \A i \in 1 .. Len(Coming') : Coming'[i] = Coming[f[i]]
    <3> SUFFICES ASSUME NEW i \in 1 .. Len(Coming') PROVE Coming'[i] = Coming[f[i]]
      OBVIOUS
    <3>1. CASE i = 1
      BY <2>2, <3>1
    <3>2. CASE i # 1
      <4>1. i - 1 \in 1 .. Len(toRx') /\ (i - 1) + 1 = i
        <5>1. i \in 1 .. Len(toRx') + 1 /\ Len(toRx') \in Nat
          BY ONLY <1>1, <2>1, i \in 1 .. Len(Coming')
        <5> QED BY ONLY <3>2, <5>1
      <4>2. Coming'[i] = toRx'[i - 1]
        BY <2>1, <4>1
      <4>3. toRx'[i - 1] = toRx[i - 1 + k] /\ i - 1 + k \in 1 .. Len(toRx)
        BY <1>1, <4>1
      <4> QED BY <1>2, <3>2, <4>2, <4>3
    <3> QED BY <3>1, <3>2
  <2>6. \A i, j \in 1 .. Len(Coming') : i < j => f[i] < f[j]
    BY <1>1, <2>1, <2>2
  <2> HIDE DEF f
  <2> QED BY <2>4, <2>5, <2>6 DEF Left, LeftOf
<1> QED BY <1>3, <1>4

\* A poll of the receiver.
LEMMA PollLeaves ==
  ASSUME ProgramsOK, RxP!ReadTimeOut
  PROVE  Left(Coming', Coming)
<1>0. toRx \in Seq(RxP!Unit) /\ rRxBuffer \in Seq(RxP!Unit)
      /\ rCode \in {"None", "Soh", "Stx"} /\ RxP!PartialPacket
  BY ChannelTypes DEF ProgramsOK, RxP!Inductive, RxP!TypeOK
<1>1. CASE RxP!NoPoll /\ rCode' = "None"
  <2>1. toRx' = SubSeq(toRx, 0 + 1, Len(toRx)) /\ 0 \in 0 .. Len(toRx)
    BY <1>0, <1>1 DEF RxP!NoPoll
  <2> QED BY <1>0, <1>1, <2>1, ComingCut
<1>2. ASSUME NEW r \in RxP!receivePacket, RxP!Poll(r), rCode' \in {"None", r.code}
      PROVE  Left(Coming', Coming)
  <2>1. PICK k \in 0 .. Len(toRx) : RxP!Takes(r, k)
    BY <1>0, <1>2, RxP!ReadTakes, ProgramAssumption, CodesHere
  <2>2. toRx' = SubSeq(toRx, k + 1, Len(toRx))
    BY <1>2, <2>1 DEF RxP!Poll, RxP!Takes
  <2>3. rCode' # "None" => RxP!Begun(k) /\ rRxBuffer'[1] = Coming[1]
    BY <1>2, <2>1 DEF RxP!Poll, RxP!Takes, Coming
  <2> QED BY <1>0, <2>1, <2>2, <2>3, ComingCut
<1>3. \/ RxP!NoPoll /\ rCode' = "None"
      \/ \E r \in RxP!receivePacket : RxP!Poll(r) /\ rCode' \in {"None", r.code}
  BY RxP!PollReads, ProgramAssumption, CodesHere DEF ProgramsOK
<1> QED BY <1>1, <1>2, <1>3

\* A stream that nobody reads, behind which the port may be closed or opened.
LEMMA ComingStill ==
  ASSUME toRx \in Seq(RxP!Unit), toRx' \in {toRx, <<>>},
         rCode' = "None" \/ UNCHANGED <<rCode, rRxBuffer>>
  PROVE  Left(Coming', Coming)
<1>1. rCode' # "None" => \A k \in Nat : RxP!Begun(k) /\ rRxBuffer'[1] = Coming[1]
  <2> SUFFICES ASSUME rCode' # "None"
               PROVE  Coming # <<>> /\ rCode # "None" /\ rRxBuffer'[1] = Coming[1]
    BY DEF RxP!Begun, Coming
  <2>1. Len(Coming) = Len(toRx) + 1 /\ Len(toRx) \in Nat /\ Coming[1] = rRxBuffer[1]
    BY ComingShape
  <2> QED BY <2>1
<1>2. CASE toRx' = toRx
  <2>1. toRx' = SubSeq(toRx, 0 + 1, Len(toRx)) /\ 0 \in 0 .. Len(toRx)
    BY <1>2
  <2> QED BY <1>1, <2>1, ComingCut
<1>3. CASE toRx' = <<>>
  <2>1. /\ toRx' = SubSeq(toRx, Len(toRx) + 1, Len(toRx))
        /\ Len(toRx) \in 0 .. Len(toRx) /\ Len(toRx) \in Nat
    BY <1>3
  <2> QED BY <1>1, <2>1, ComingCut
<1> QED BY <1>2, <1>3

\* What a fault leaves of a channel.
LEMMA SpoilLeaves ==
  ASSUME NEW s \in Seq(RxP!Unit), NEW i \in 1 .. Len(s)
  PROVE  Left(Without(s, i), s) /\ Left(Damaged(s, i), s)
<1>0. Len(s) \in Nat
  OBVIOUS
<1>1. Left(Without(s, i), s)
  <2> DEFINE t == Without(s, i)
             f == [j \in 1 .. Len(t) |-> IF j < i THEN j ELSE j + 1]
             a == SubSeq(s, 1, i - 1)
             b == SubSeq(s, i + 1, Len(s))
  <2>1. /\ a \in Seq(RxP!Unit) /\ Len(a) = i - 1 /\ \A j \in 1 .. Len(a) : a[j] = s[j]
        /\ b \in Seq(RxP!Unit) /\ Len(b) = Len(s) - i
        /\ \A j \in 1 .. Len(b) : b[j] = s[j + i]
    BY <1>0
  <2>2. t = a \o b
    BY DEF Without
  <2> HIDE DEF a, b
  <2>3. /\ Len(a \o b) = Len(a) + Len(b)
        /\ \A j \in 1 .. Len(a) : (a \o b)[j] = a[j]
        /\ \A j \in 1 .. Len(b) : (a \o b)[Len(a) + j] = b[j]
    <3>1. a \in Seq(RxP!Unit) /\ b \in Seq(RxP!Unit)
      BY <2>1
    <3> QED BY ONLY <3>1, Appended
  <2>4. Len(t) = Len(s) - 1 /\ \A j \in 1 .. Len(t) : t[j] = s[f[j]]
    <3>1. Len(t) = Len(s) - 1
      BY <1>0, <2>1, <2>2, <2>3
    <3> SUFFICES ASSUME NEW j \in 1 .. Len(t) PROVE t[j] = s[f[j]]
      BY <3>1
    <3>2. CASE j < i
      BY <1>0, <2>1, <2>2, <2>3, <3>1, <3>2
    <3>3. CASE ~(j < i)
      <4>1. j - Len(a) \in 1 .. Len(b) /\ (j - Len(a)) + i = j + 1
            /\ Len(a) + (j - Len(a)) = j
        BY <1>0, <2>1, <3>1, <3>3
      <4>2. t[j] = b[j - Len(a)] /\ b[j - Len(a)] = s[j + 1]
        BY <1>0, <2>1, <2>2, <2>3, <3>1, <4>1
      <4> QED BY <3>3, <4>2
    <3> QED BY <3>2, <3>3
  <2> HIDE DEF t
  <2>5. f \in [1 .. Len(t) -> 1 .. Len(s)]
    BY <1>0, <2>4
  <2>6. \A j, k \in 1 .. Len(t) : j < k => f[j] < f[k]
    BY <1>0, <2>4
  <2> HIDE DEF f
  <2> QED BY <2>4, <2>5, <2>6 DEF Left, LeftOf, t
<1>2. Left(Damaged(s, i), s)
  <2> DEFINE t == Damaged(s, i)
             f == [j \in 1 .. Len(t) |-> j]
  <2>1. Len(t) = Len(s) /\ \A j \in 1 .. Len(s) : t[j].byte = s[j].byte /\ t[j].pkt = s[j].pkt
    <3>1. t \in Seq(RxP!Unit) /\ Len(t) = Len(s)
      BY SpoilType DEF Damaged
    <3>2. \A j \in 1 .. Len(s) : t[j] = IF j = i THEN [s[i] EXCEPT !.part = 0] ELSE s[j]
      BY DEF Damaged
    <3>3. s[i] \in RxP!Unit
      OBVIOUS
    <3>4. [s[i] EXCEPT !.part = 0].byte = s[i].byte /\ [s[i] EXCEPT !.part = 0].pkt = s[i].pkt
      BY <3>3 DEF RxP!Unit
    <3> QED BY <3>1, <3>2, <3>4
  <2> HIDE DEF t
  <2>2. /\ f \in [1 .. Len(t) -> 1 .. Len(s)]
        /\ \A j, k \in 1 .. Len(t) : j < k => f[j] < f[k]
        /\ \A j \in 1 .. Len(t) : f[j] = j
    BY <1>0, <2>1
  <2> HIDE DEF f
  <2> QED BY <2>1, <2>2 DEF Left, LeftOf, t
<1> QED BY <1>1, <1>2

\* A fault on the way to the receiver.
LEMMA ComingSpoilt ==
  ASSUME toRx \in Seq(RxP!Unit), toRx' \in Seq(RxP!Unit), Left(toRx', toRx),
         UNCHANGED <<rCode, rRxBuffer>>
  PROVE  Left(Coming', Coming)
<1>1. CASE rCode = "None"
  BY <1>1 DEF Coming, RxP!Stream
<1>2. CASE rCode # "None"
  <2>0. Len(toRx) \in Nat /\ Len(toRx') \in Nat
    OBVIOUS
  <2>1. PICK g : LeftOf(toRx', toRx, g)
    BY DEF Left
  <2>2. /\ Len(Coming) = Len(toRx) + 1 /\ Coming[1] = rRxBuffer[1]
        /\ \A i \in 1 .. Len(toRx) : Coming[i + 1] = toRx[i]
    BY <1>2, ComingShape
  <2>3. /\ Len(Coming') = Len(toRx') + 1 /\ Coming'[1] = rRxBuffer[1]
        /\ \A i \in 1 .. Len(toRx') : Coming'[i + 1] = toRx'[i]
    <3>1. Coming' = <<rRxBuffer[1]>> \o toRx'
      BY <1>2 DEF Coming, RxP!Stream
    <3> QED BY <3>1, Prepended
  <2> DEFINE f == [i \in 1 .. Len(Coming') |-> IF i = 1 THEN 1 ELSE g[i - 1] + 1]
  <2>4. \A i \in 1 .. Len(toRx') : g[i] \in 1 .. Len(toRx)
    BY <2>1 DEF LeftOf
  <2>8. ASSUME NEW i \in 1 .. Len(Coming'), i # 1
        PROVE  i - 1 \in 1 .. Len(toRx') /\ (i - 1) + 1 = i
    <3>1. i \in Nat /\ i > 1 /\ i <= Len(toRx') + 1
      BY <2>0, <2>3, <2>8
    <3> QED BY <2>0, <3>1
  <2>5. f \in [1 .. Len(Coming') -> 1 .. Len(Coming)]
    <3>1. ASSUME NEW i \in 1 .. Len(Coming'), i # 1
          PROVE  g[i - 1] + 1 \in 1 .. Len(Coming)
      <4>1. g[i - 1] \in 1 .. Len(toRx)
        BY <2>4, <2>8, <3>1
      <4> QED BY <2>0, <2>2, <4>1
    <3>2. 1 \in 1 .. Len(Coming)
      BY <2>0, <2>2
    <3> QED BY <3>1, <3>2
  <2>6. ASSUME NEW i \in 1 .. Len(Coming'), NEW j \in 1 .. Len(Coming'), i < j
        PROVE  f[i] < f[j]
    <3>1. j # 1 /\ f[j] = g[j - 1] + 1 /\ g[j - 1] \in 1 .. Len(toRx)
      BY <2>0, <2>3, <2>4, <2>6, <2>8
    <3>2. CASE i = 1
      BY <2>0, <3>1, <3>2
    <3>3. CASE i # 1
      <4>1. f[i] = g[i - 1] + 1 /\ g[i - 1] \in 1 .. Len(toRx)
        BY <2>4, <2>8, <3>3
      <4>2. i - 1 < j - 1
        BY <2>0, <2>3, <2>6
      <4>3. g[i - 1] < g[j - 1]
        BY <2>1, <2>8, <3>1, <3>3, <4>2 DEF LeftOf
      <4> QED BY <2>0, <3>1, <4>1, <4>3
    <3> QED BY <3>2, <3>3
  <2>7. ASSUME NEW i \in 1 .. Len(Coming')
        PROVE  Coming'[i].byte = Coming[f[i]].byte /\ Coming'[i].pkt = Coming[f[i]].pkt
    <3>1. CASE i = 1
      BY <2>2, <2>3, <3>1
    <3>2. CASE i # 1
      <4>1. i - 1 \in 1 .. Len(toRx') /\ (i - 1) + 1 = i
        BY <2>8, <3>2
      <4>2. Coming'[i] = toRx'[i - 1] /\ Coming[f[i]] = toRx[g[i - 1]]
        BY <2>2, <2>3, <2>4, <3>2, <4>1
      <4> QED BY <2>1, <4>1, <4>2 DEF LeftOf
    <3> QED BY <3>1, <3>2
  <2> HIDE DEF f
  <2> QED BY <2>5, <2>6, <2>7 DEF Left, LeftOf
<1> QED BY <1>1, <1>2

-----------------------------------------------------------------------------
(* The steps, as the file and the other end see them *)

\* Taking a beginning leaves the rest.
LEMMA RestLeft ==
  ASSUME NEW s \in Seq(RxP!Unit), NEW k \in 0 .. Len(s)
  PROVE  Left(SubSeq(s, k + 1, Len(s)), s)
<1> DEFINE t == SubSeq(s, k + 1, Len(s))
           f == [i \in 1 .. Len(t) |-> i + k]
<1>1. Len(s) \in Nat /\ Len(t) = Len(s) - k /\ \A i \in 1 .. Len(t) : t[i] = s[i + k]
  OBVIOUS
<1> HIDE DEF t
<1>2. /\ f \in [1 .. Len(t) -> 1 .. Len(s)]
      /\ \A i, j \in 1 .. Len(t) : i < j => f[i] < f[j]
      /\ \A i \in 1 .. Len(t) : t[i] = s[f[i]]
  BY <1>1
<1> HIDE DEF f
<1> QED BY <1>2 DEF Left, LeftOf, t

\* Nothing is taken, or everything.
LEMMA AllOrNoneLeft ==
  ASSUME NEW s \in Seq(RxP!Unit), NEW t \in {s, <<>>}
  PROVE  Left(t, s)
<1>1. Len(s) \in Nat
  OBVIOUS
<1>2. CASE t = s
  <2>1. t = SubSeq(s, 0 + 1, Len(s)) /\ 0 \in 0 .. Len(s)
    BY <1>1, <1>2
  <2> QED BY <2>1, RestLeft
<1>3. CASE t = <<>>
  <2>1. t = SubSeq(s, Len(s) + 1, Len(s)) /\ Len(s) \in 0 .. Len(s)
    BY <1>1, <1>3
  <2> QED BY <2>1, RestLeft
<1> QED BY <1>2, <1>3

\* A poll of the transmitter takes a beginning of what came back.
LEMMA AnswersLeft ==
  ASSUME ProgramsOK, TxP!ReadTimeOut
  PROVE  Left(toTx', toTx)
<1>0. toTx \in Seq(RxP!Unit) /\ toTx \in Seq(TxP!Unit)
  BY ChannelTypes
<1>1. CASE TxP!NoPoll
  BY <1>0, <1>1, AllOrNoneLeft DEF TxP!NoPoll
<1>2. ASSUME NEW r \in TxP!receivePacket, TxP!Poll(r) PROVE Left(toTx', toTx)
  <2>1. PICK k \in 0 .. Len(toTx) : TxP!Takes(r, k)
    BY <1>0, TxP!ReadTakes, ProgramAssumption, CodesHere
       DEF ProgramsOK, TxP!Inductive, TxP!TypeOK
  <2>2. toTx' = SubSeq(toTx, k + 1, Len(toTx))
    BY <1>2, <2>1 DEF TxP!Poll, TxP!Takes
  <2> QED BY <1>0, <2>1, <2>2, RestLeft
<1> QED BY <1>1, <1>2 DEF TxP!ReadTimeOut, TxP!transmit

\* Neither program sends or takes anything of the file; a session may be started
\* that has no outcome yet.
SenderRests ==
  /\ UNCHANGED <<tStage, tDataCount, tTxBuffer, tFileSize, tFileCount, toRx>>
  /\ \/ UNCHANGED tStatus
     \/ tStatus \notin TxP!Terminal /\ tStatus' = "Establish"
ReceiverRests ==
  /\ UNCHANGED <<rStage, rDataCount, rFileSize, rFileCount, received, crashed, toTx>>
  /\ \/ UNCHANGED rStatus
     \/ rStatus \notin RxP!Terminal /\ rStatus' = "Establish"

SenderMoves ==
  /\ UNCHANGED rVars /\ Left(toTx', toTx)
  /\ TxP!PollEffect \/ SenderRests
ReceiverMoves ==
  /\ UNCHANGED tVars /\ Left(Coming', Coming)
  /\ RxP!PollEffect \/ ReceiverRests
CableMoves == UNCHANGED <<tVars, rVars>> /\ Left(Coming', Coming) /\ Left(toTx', toTx)

LEMMA SenderSteps ==
  ASSUME ProgramsOK, StartTransmit \/ StopTransmit \/ TxReadTimeOut \/ TxWriteTimeOut
  PROVE  SenderMoves
<1>0. toTx \in Seq(RxP!Unit)
  BY ChannelTypes
<1>1. CASE TxReadTimeOut
  <2>1. TxP!ReadTimeOut /\ UNCHANGED rVars
    BY <1>1, SameTransmitter DEF TxReadTimeOut, Sender
  <2>2. TxP!PollEffect
    BY <2>1, TxP!ReadTimeOutEffect, ProgramAssumption, CodesHere DEF ProgramsOK
  <2> QED BY <2>1, <2>2, AnswersLeft DEF SenderMoves
<1>2. CASE StopTransmit
  <2>1. TxP!stopTransmit /\ UNCHANGED <<rVars, toTx>>
    BY <1>2, SameTransmitter DEF StopTransmit, Sender, Tx!stopTransmit, Tx!Stop,
       TxP!stopTransmit, TxP!Stop, Tx!Room, TxP!Room, Tx!Reset, TxP!Reset, Tx!StageNone,
       TxP!StageNone, Tx!Send, TxP!Send, Tx!Write, TxP!Write, Tx!Cans, TxP!Cans,
       Tx!Ctl, TxP!Ctl, Tx!NoPacket, TxP!NoPacket, Tx!KeepFile, TxP!KeepFile,
       Tx!file, TxP!file
  <2>2. TxP!Gives("Abort")
    BY <2>1, TxP!OtherEffects, ProgramAssumption, CodesHere
  <2> QED BY <1>0, <2>1, <2>2, AllOrNoneLeft DEF SenderMoves, TxP!PollEffect, TxP!Terminal
<1>3. CASE StartTransmit \/ TxWriteTimeOut
  <2>1. /\ TxP!startTransmit \/ TxP!writeTimeOut
        /\ TxP!startTransmit => tStatus \notin TxP!Terminal
        /\ UNCHANGED rVars /\ toTx' \in {toTx, <<>>}
    BY <1>3 DEF StartTransmit, TxWriteTimeOut, Sender, Tx!startTransmit, Tx!Start,
       TxP!startTransmit, TxP!Start, Tx!writeTimeOut, Tx!WriteTimeOut,
       TxP!writeTimeOut, TxP!WriteTimeOut, Tx!engine, TxP!engine, Tx!KeepFile,
       TxP!KeepFile, Tx!file, TxP!file, Tx!Running, TxP!Running, Tx!Terminal,
       TxP!Terminal
  <2>2. SenderRests
    BY <2>1, TxP!OtherEffects, ProgramAssumption, CodesHere DEF SenderRests
  <2> QED BY <1>0, <2>1, <2>2, AllOrNoneLeft DEF SenderMoves
<1> QED BY <1>1, <1>2, <1>3

LEMMA ReceiverSteps ==
  ASSUME ProgramsOK, StartReceive \/ StopReceive \/ RxReadTimeOut \/ RxWriteTimeOut
  PROVE  ReceiverMoves
<1>0. toRx \in Seq(RxP!Unit)
  BY ChannelTypes
<1>1. CASE RxReadTimeOut
  <2>1. RxP!ReadTimeOut /\ UNCHANGED tVars
    BY <1>1, SameReceiver DEF RxReadTimeOut, Receiver
  <2>2. RxP!PollEffect
    BY <2>1, RxP!ReadTimeOutEffect, ProgramAssumption, CodesHere DEF ProgramsOK
  <2> QED BY <2>1, <2>2, PollLeaves DEF ReceiverMoves
<1>2. CASE StopReceive
  <2>1. RxP!stopReceive /\ UNCHANGED tVars
    BY <1>2 DEF StopReceive, Receiver, Rx!stopReceive, Rx!Stop,
       RxP!stopReceive, RxP!Stop, Rx!Room, RxP!Room, Rx!Reset, RxP!Reset, Rx!StageNone,
       RxP!StageNone, Rx!Send, RxP!Send, Rx!Write, RxP!Write, Rx!Cans, RxP!Cans,
       Rx!Ctl, RxP!Ctl, Rx!NoPacket, RxP!NoPacket, Rx!KeepFile, RxP!KeepFile,
       Rx!file, RxP!file
  <2>2. RxP!Gives("Abort") /\ UNCHANGED toRx /\ rCode' = "None"
    BY <2>1, RxP!OtherEffects, ProgramAssumption, CodesHere
  <2>3. Left(Coming', Coming)
    BY <1>0, <2>2, ComingStill
  <2> QED BY <2>1, <2>2, <2>3 DEF ReceiverMoves, RxP!PollEffect, RxP!Terminal
<1>3. CASE StartReceive \/ RxWriteTimeOut
  <2>1. /\ RxP!startReceive \/ RxP!writeTimeOut
        /\ RxP!startReceive => rStatus \notin RxP!Terminal
        /\ UNCHANGED tVars
    BY <1>3 DEF StartReceive, RxWriteTimeOut, Receiver, Rx!startReceive, Rx!Start,
       RxP!startReceive, RxP!Start, Rx!writeTimeOut, Rx!WriteTimeOut,
       RxP!writeTimeOut, RxP!WriteTimeOut, Rx!engine, RxP!engine, Rx!KeepFile,
       RxP!KeepFile, Rx!file, RxP!file, Rx!Running, RxP!Running, Rx!Terminal,
       RxP!Terminal
  <2>2. ReceiverRests /\ UNCHANGED <<rCode, rRxBuffer>> /\ toRx' \in {toRx, <<>>}
    BY <2>1, RxP!OtherEffects, ProgramAssumption, CodesHere DEF ReceiverRests
  <2> QED BY <1>0, <2>1, <2>2, ComingStill DEF ReceiverMoves
<1> QED BY <1>1, <1>2, <1>3

LEMMA CableSteps ==
  ASSUME ProgramsOK, Fault \/ Discard \/ UNCHANGED vars
  PROVE  CableMoves
<1>0. /\ toRx \in Seq(RxP!Unit) /\ toTx \in Seq(RxP!Unit)
      /\ UNCHANGED <<tVars, rVars>>
  BY ChannelTypes DEF Fault, Discard, vars
<1>1. UNCHANGED <<rCode, rRxBuffer>>
  BY <1>0 DEF rVars
<1>2. \A s \in Seq(RxP!Unit) : Left(s, s)
  BY AllOrNoneLeft
<1>3. CASE Fault
  <2>1. toRx' \in Seq(RxP!Unit) /\ Left(toRx', toRx) /\ Left(toTx', toTx)
    BY <1>0, <1>2, <1>3, SpoilType, SpoilLeaves DEF Fault, Spoil
  <2> QED BY <1>0, <1>1, <2>1, ComingSpoilt DEF CableMoves
<1>4. CASE Discard \/ UNCHANGED vars
  <2>1. toRx' \in {toRx, <<>>} /\ toTx' \in {toTx, <<>>}
    BY <1>4 DEF Discard, vars
  <2>2. Left(toTx', toTx)
    BY <1>0, <2>1, AllOrNoneLeft
  <2> QED BY <1>0, <1>1, <2>1, <2>2, ComingStill DEF CableMoves
<1> QED BY <1>3, <1>4

\* A step is one of the sending program, of the receiving one, or of the cable.
LEMMA LinkSteps ==
  ASSUME ProgramsOK, [Next]_vars
  PROVE  SenderMoves \/ ReceiverMoves \/ CableMoves
BY SenderSteps, ReceiverSteps, CableSteps DEF Next, Done

-----------------------------------------------------------------------------
(* The order in which units are written *)

\* The header, the blocks, EOT, the header of zeros, the cancel codes.
Rank(u) == IF u.byte = "Can" THEN 4 ELSE IF u.byte = "Eot" THEN 2
           ELSE IF u.pkt.what = "info" THEN 0 ELSE IF u.pkt.what = "data" THEN 1 ELSE 3

\* v may be written after u: blocks follow each other in the file.
Before(u, v) ==
  /\ Rank(u) <= Rank(v)
  /\ Rank(u) = 1 /\ Rank(v) = 1 => u.pkt = v.pkt \/ u.pkt.from + u.pkt.n <= v.pkt.from
Ordered(s) == \A i, j \in 1 .. Len(s) : i < j => Before(s[i], s[j])

\* The units of a packet, of a code or of the cancel sequence.
Alike(w) == /\ w \in Seq(RxP!Unit) /\ Len(w) >= 1
            /\ \A i \in 1 .. Len(w) : w[i].pkt = w[1].pkt /\ Rank(w[i]) = Rank(w[1])

LEMMA RankType == \A u : Rank(u) \in 0 .. 4
BY DEF Rank

\* A packet that is written.
LEMMA WireAlike ==
  ASSUME NEW p \in TxP!Packet, p.kind \in {"Soh", "Stx"}
  PROVE  /\ Alike(TxP!Wire(p)) /\ TxP!Wire(p)[1].pkt = p
         /\ Rank(TxP!Wire(p)[1]) =
              IF p.what = "info" THEN 0 ELSE IF p.what = "data" THEN 1 ELSE 3
<1> DEFINE w == TxP!Wire(p)
<1>1. w \in Seq(RxP!Unit)
  BY TxP!WireType, ProgramAssumption, CodesHere
<1>2. TxP!FrameUnits(p.kind) \in Nat \ {0}
  BY TxP!FrameUnitsType, ProgramAssumption, CodesHere
<1>3. /\ Len(w) = TxP!FrameUnits(p.kind)
      /\ \A i \in 1 .. Len(w) : w[i].pkt = p /\ w[i].byte \in {"Soh", "Stx", "Data"}
  BY <1>2 DEF TxP!Wire
<1> HIDE DEF w
<1>4. \A i \in 1 .. Len(w) :
        Rank(w[i]) = IF p.what = "info" THEN 0 ELSE IF p.what = "data" THEN 1 ELSE 3
  BY <1>3 DEF Rank
<1>5. Len(w) >= 1 /\ 1 \in 1 .. Len(w)
  BY <1>2, <1>3
<1> QED BY <1>1, <1>3, <1>4, <1>5 DEF Alike, w

\* EOT and the cancel sequence.
LEMMA CodesAlike ==
  /\ Alike(TxP!Ctl("Eot")) /\ Rank(TxP!Ctl("Eot")[1]) = 2
  /\ Alike(TxP!Cans) /\ Rank(TxP!Cans[1]) = 4
<1>1. TxP!Ctl("Eot") \in Seq(RxP!Unit) /\ TxP!Cans \in Seq(RxP!Unit)
  <2>1. "Eot" \in TxP!Codes
    BY DEF TxP!Codes
  <2> QED BY <2>1, TxP!CtlType, TxP!CansType, ProgramAssumption, CodesHere
<1>2. Len(TxP!Ctl("Eot")) = 1 /\ Rank(TxP!Ctl("Eot")[1]) = 2
  BY DEF TxP!Ctl, Rank
<1>3. /\ Len(TxP!Cans) = CanNumber
      /\ \A i \in 1 .. Len(TxP!Cans) : TxP!Cans[i].pkt = TxP!NoPacket /\ Rank(TxP!Cans[i]) = 4
  BY ProgramAssumption DEF TxP!Cans, TxP!Ctl, Rank
<1>4. CanNumber >= 1 /\ CanNumber \in Nat
  BY ProgramAssumption
<1> HIDE DEF Rank
<1> QED BY <1>1, <1>2, <1>3, <1>4 DEF Alike

-----------------------------------------------------------------------------
(* What the transmitter sends now *)

Opened   == tStage \in TxP!StageEstablished .. TxP!StageFinished
Unopened == ~Opened /\ tStatus \notin TxP!Terminal

\* A timeout or a NAK sends txBuffer again: the header, the last block that was
\* read, EOT, or the header of zeros.
Item == tTxBuffer[1]
ItemOK ==
  /\ Alike(tTxBuffer)
  /\ Rank(Item) = 0 => Item.pkt = TxP!Info(tFileSize)
  /\ Rank(Item) = 1 => /\ Item.pkt.from + Item.pkt.n = tFileCount
                       /\ Item.pkt.from \in Nat /\ Item.pkt.n \in Nat
                       /\ Item.pkt.n # 0
  /\ Rank(Item) = 3 => Item.pkt.num = 0
  /\ Rank(Item) \in 0 .. 3
  /\ Rank(Item) >= 2 => tFileCount = tFileSize
  /\ tStage = TxP!StageTransmitting => Rank(Item) = 1
  /\ tStage = TxP!StageEstablished => Rank(Item) <= 2
  /\ tStage = TxP!StageFinishing => Rank(Item) = 2
  /\ tStage = TxP!StageFinished => Rank(Item) = 3
LEMMA CurrentItem == ProgramsOK /\ Opened => ItemOK
<1> SUFFICES ASSUME ProgramsOK, Opened PROVE ItemOK
  OBVIOUS
<1> USE DEF TxP!StageEstablished, TxP!StageTransmitting, TxP!StageFinishing,
            TxP!StageFinished
<1>0. /\ tFileSize \in Nat /\ tFileCount \in 0 .. tFileSize
      /\ tDataCount \in 0 .. NumMod - 1 /\ NumMod \in Nat /\ NumMod > 2
      /\ tStage \in {2, 3, 4, 5}
  BY ProgramAssumption DEF ProgramsOK, TxP!Inductive, TxP!TypeOK, Opened
<1>1. CASE tTxBuffer = TxP!Wire(TxP!Info(tFileSize)) /\ tStage = 2
  <2>1. TxP!Info(tFileSize) \in TxP!Packet
    BY <1>0, TxP!InfoType, ProgramAssumption, CodesHere
  <2>2. TxP!Info(tFileSize).kind = "Soh" /\ TxP!Info(tFileSize).what = "info"
    BY DEF TxP!Info
  <2> QED BY <1>1, <2>1, <2>2, WireAlike DEF Item, ItemOK
<1>2. ASSUME NEW num \in 0 .. NumMod - 1, TxP!CurrentBlock(num), tStage \in {2, 3}
      PROVE  /\ Alike(tTxBuffer) /\ Rank(Item) = 1
             /\ Item.pkt.from + Item.pkt.n = tFileCount
             /\ Item.pkt.from \in Nat /\ Item.pkt.n \in Nat /\ Item.pkt.n # 0
  <2>1. PICK from \in 0 .. tFileCount - 1 :
          /\ tTxBuffer = TxP!Wire(TxP!Block(num, from, tFileSize - from))
          /\ from + TxP!BlockRead(tFileSize - from) = tFileCount
    BY <1>2 DEF TxP!CurrentBlock
  <2> DEFINE p == TxP!Block(num, from, tFileSize - from)
  <2>2. from \in Nat /\ tFileSize - from \in Nat /\ from < tFileCount
    BY <1>0, <2>1
  <2>3. p \in TxP!Packet
    BY <2>2, TxP!BlockType, ProgramAssumption, CodesHere
  <2>4. /\ p.kind \in {"Soh", "Stx"} /\ p.what = "data" /\ p.from = from
        /\ p.n = TxP!BlockRead(tFileSize - from)
    BY DEF TxP!Block
  <2>5. TxP!BlockRead(tFileSize - from) \in Nat
    BY <2>2, TxP!BlockReadType, ProgramAssumption, CodesHere
  <2> HIDE DEF p
  <2>6. Alike(tTxBuffer) /\ Item.pkt = p /\ Rank(Item) = 1
    BY <2>1, <2>3, <2>4, WireAlike DEF p, Item
  <2> QED BY <1>0, <2>1, <2>2, <2>4, <2>5, <2>6
<1>3. CASE tTxBuffer = TxP!Ctl("Eot") /\ tStage \in {2, 4} /\ tFileCount = tFileSize
  BY <1>3, CodesAlike DEF Item, ItemOK
<1>4. CASE tTxBuffer = TxP!Wire(TxP!ZeroHeader) /\ tStage = 5 /\ tFileCount = tFileSize
  <2>1. TxP!ZeroHeader \in TxP!Packet
    BY TxP!ZeroHeaderType, ProgramAssumption, CodesHere
  <2>2. TxP!ZeroHeader.kind = "Soh" /\ TxP!ZeroHeader.what = "zero" /\ TxP!ZeroHeader.num = 0
    BY DEF TxP!ZeroHeader
  <2> QED BY <1>4, <2>1, <2>2, WireAlike DEF Item, ItemOK
<1>5. \/ tTxBuffer = TxP!Wire(TxP!Info(tFileSize)) /\ tStage = 2
      \/ \E num \in 0 .. NumMod - 1 : TxP!CurrentBlock(num) /\ tStage \in {2, 3}
      \/ tTxBuffer = TxP!Ctl("Eot") /\ tStage \in {2, 4} /\ tFileCount = tFileSize
      \/ tTxBuffer = TxP!Wire(TxP!ZeroHeader) /\ tStage = 5 /\ tFileCount = tFileSize
  <2>1. TxP!ResendIsCurrent /\ TxP!EndOfFileSeen
    BY DEF ProgramsOK, TxP!Inductive
  <2>2. 1 \in 0 .. NumMod - 1
    BY <1>0
  <2> QED BY <1>0, <2>1, <2>2 DEF TxP!ResendIsCurrent, TxP!EndOfFileSeen
<1> QED BY <1>1, <1>2, <1>3, <1>4, <1>5 DEF ItemOK

-----------------------------------------------------------------------------
(* What comes grows at its end and is lost anywhere *)

LEMMA ComingType ==
  ASSUME ProgramsOK
  PROVE  Coming \in Seq(RxP!Unit) /\ Len(Coming) \in Nat
<1>1. toRx \in Seq(RxP!Unit) /\ rRxBuffer \in Seq(RxP!Unit)
  BY ChannelTypes
<1>2. CASE rCode = "None"
  BY <1>1, <1>2 DEF Coming, RxP!Stream
<1>3. CASE rCode # "None"
  <2>1. Len(rRxBuffer) >= 1
    BY <1>1, <1>3, RxP!FrameUnitsType, ProgramAssumption, CodesHere
       DEF ProgramsOK, RxP!Inductive, RxP!PartialPacket
  <2>2. rRxBuffer[1] \in RxP!Unit
    BY <1>1, <2>1
  <2>3. Coming = <<rRxBuffer[1]>> \o toRx
    BY <1>3 DEF Coming, RxP!Stream
  <2> QED BY <1>1, <2>2, <2>3
<1> QED BY <1>2, <1>3

\* The types that the proofs below need, before and after a step.
LinkTypeOK == /\ Coming \in Seq(RxP!Unit) /\ toTx \in Seq(RxP!Unit)
              /\ tFileSize \in Nat /\ tFileCount \in Nat /\ tFileCount <= tFileSize
              /\ received \in Seq(Nat) /\ rDataCount \in 0 .. NumMod - 1
LEMMA LinkTypes == ProgramsOK => LinkTypeOK
<1> SUFFICES ASSUME ProgramsOK PROVE LinkTypeOK
  OBVIOUS
<1>1. /\ tFileSize \in Nat /\ tFileCount \in 0 .. tFileSize
      /\ received \in Seq(Nat) /\ rDataCount \in 0 .. NumMod - 1
  BY DEF ProgramsOK, TxP!Inductive, TxP!TypeOK, RxP!Inductive, RxP!TypeOK
<1> QED BY <1>1, ComingType, ChannelTypes DEF LinkTypeOK

\* The numbers in a unit.
LEMMA UnitParts ==
  ASSUME NEW u \in RxP!Unit
  PROVE  u.pkt \in RxP!Packet /\ u.pkt.from \in Nat /\ u.pkt.n \in Nat
         /\ u.pkt.num \in 0 .. NumMod - 1
BY DEF RxP!Unit, RxP!Packet

\* Units like v may have been added.
Longer(v) ==
  \A i \in 1 .. Len(Coming') :
    \/ i <= Len(Coming) /\ Coming'[i] = Coming[i]
    \/ i > Len(Coming) /\ Coming'[i].pkt = v.pkt /\ Rank(Coming'[i]) = Rank(v)

\* They are when the transmitter writes them.
LEMMA ComingLonger ==
  ASSUME ProgramsOK, UNCHANGED rVars, NEW w, Alike(w), TxP!Wrote(w)
  PROVE  Longer(w[1])
<1>0. /\ toRx \in Seq(RxP!Unit) /\ w \in Seq(RxP!Unit) /\ Len(Coming) \in Nat
      /\ UNCHANGED <<rCode, rRxBuffer>>
  BY ChannelTypes, ComingType DEF Alike, rVars
<1>1. CASE toRx' = toRx
  <2>1. Coming' = Coming
    BY <1>0, <1>1 DEF Coming, RxP!Stream
  <2> QED BY <1>0, <2>1 DEF Longer
<1>2. CASE toRx' = toRx \o w
  <2> DEFINE d == IF rCode = "None" THEN 0 ELSE 1
  <2>1. /\ toRx' \in Seq(RxP!Unit) /\ Len(toRx') = Len(toRx) + Len(w)
        /\ \A i \in 1 .. Len(toRx) : toRx'[i] = toRx[i]
        /\ \A i \in 1 .. Len(w) : toRx'[Len(toRx) + i] = w[i]
    BY <1>0, <1>2, Appended
  <2>2. /\ Len(Coming) = Len(toRx) + d
        /\ d = 1 => Coming[1] = rRxBuffer[1]
        /\ \A i \in 1 .. Len(toRx) : Coming[i + d] = toRx[i]
    BY <1>0, ComingShape
  <2>3. /\ Len(Coming') = Len(toRx') + d
        /\ d = 1 => Coming'[1] = rRxBuffer[1]
        /\ \A i \in 1 .. Len(toRx') : Coming'[i + d] = toRx'[i]
    <3>1. CASE rCode = "None"
      BY <1>0, <2>1, <3>1 DEF Coming, RxP!Stream
    <3>2. CASE rCode # "None"
      <4>1. Coming' = <<rRxBuffer[1]>> \o toRx'
        BY <1>0, <3>2 DEF Coming, RxP!Stream
      <4> QED BY <2>1, <3>2, <4>1, Prepended
    <3> QED BY <3>1, <3>2
  <2>4. d \in {0, 1} /\ Len(toRx) \in Nat /\ Len(w) \in Nat
    BY <1>0
  <2> HIDE DEF d
  <2>5. ASSUME NEW i \in 1 .. Len(Coming'), i <= Len(Coming)
        PROVE  Coming'[i] = Coming[i]
    <3>1. CASE i <= d
      <4>1. i = 1 /\ d = 1
        BY <2>4, <3>1
      <4> QED BY <2>2, <2>3, <4>1
    <3>2. CASE i > d
      <4>1. i - d \in 1 .. Len(toRx) /\ (i - d) + d = i /\ i - d \in 1 .. Len(toRx')
        BY <2>1, <2>2, <2>4, <2>5, <3>2
      <4> QED BY <2>1, <2>2, <2>3, <4>1
    <3> QED BY <2>4, <3>1, <3>2
  <2>6. ASSUME NEW i \in 1 .. Len(Coming'), ~(i <= Len(Coming))
        PROVE  Coming'[i].pkt = w[1].pkt /\ Rank(Coming'[i]) = Rank(w[1])
    <3> DEFINE j == i - d - Len(toRx)
    <3>1. /\ j \in 1 .. Len(w) /\ Len(toRx) + j \in 1 .. Len(toRx')
          /\ (Len(toRx) + j) + d = i
      BY <2>1, <2>2, <2>3, <2>4, <2>6
    <3> HIDE DEF j
    <3>2. Coming'[i] = w[j]
      BY <2>1, <2>3, <3>1
    <3> QED BY <3>1, <3>2 DEF Alike
  <2> QED BY <1>0, <2>5, <2>6 DEF Longer
<1> QED BY <1>1, <1>2 DEF TxP!Wrote

\* Every unit that is left was there, or is damaged.
LEMMA LeftSame ==
  ASSUME NEW s, NEW t, Left(t, s), NEW i \in 1 .. Len(t)
  PROVE  \E j \in 1 .. Len(s) : t[i].pkt = s[j].pkt /\ t[i].byte = s[j].byte
                                /\ Rank(t[i]) = Rank(s[j])
<1>1. PICK f : LeftOf(t, s, f)
  BY DEF Left
<1>2. f[i] \in 1 .. Len(s) /\ t[i].byte = s[f[i]].byte /\ t[i].pkt = s[f[i]].pkt
  BY <1>1 DEF LeftOf
<1> QED BY <1>2 DEF Rank

\* Nothing of nothing is left.
LEMMA NothingLeft ==
  ASSUME NEW t \in Seq(RxP!Unit), Left(t, <<>>)
  PROVE  t = <<>>
<1>1. Len(t) \in Nat /\ (Len(t) # 0 => 1 \in 1 .. Len(t))
  OBVIOUS
<1>2. Len(t) = 0
  <2> SUFFICES ASSUME Len(t) # 0 PROVE FALSE
    OBVIOUS
  <2>1. \E j \in 1 .. Len(<<>>) : t[1].pkt = <<>>[j].pkt
    BY <1>1, LeftSame
  <2> QED BY <2>1
<1> QED BY <1>2

\* Losses change no order, and neither does what is added, if it is later than
\* all that is on its way.
LEMMA OrderedLeft ==
  ASSUME NEW s, NEW t, Ordered(s), Left(t, s)
  PROVE  Ordered(t)
<1>1. PICK f : LeftOf(t, s, f)
  BY DEF Left
<1> SUFFICES ASSUME NEW i \in 1 .. Len(t), NEW j \in 1 .. Len(t), i < j
             PROVE  Before(t[i], t[j])
  BY DEF Ordered
<1>2. /\ f[i] \in 1 .. Len(s) /\ t[i].byte = s[f[i]].byte /\ t[i].pkt = s[f[i]].pkt
      /\ f[j] \in 1 .. Len(s) /\ t[j].byte = s[f[j]].byte /\ t[j].pkt = s[f[j]].pkt
      /\ f[i] < f[j]
  BY <1>1 DEF LeftOf
<1>3. Before(s[f[i]], s[f[j]])
  BY <1>2 DEF Ordered
<1> QED BY <1>2, <1>3 DEF Before, Rank

LEMMA OrderedLonger ==
  ASSUME ProgramsOK, Ordered(Coming), NEW v, Longer(v), Len(Coming') \in Nat,
         \A i \in 1 .. Len(Coming) : Before(Coming[i], v)
  PROVE  Ordered(Coming')
<1>0. Len(Coming) \in Nat
  BY ComingType
<1> SUFFICES ASSUME NEW i \in 1 .. Len(Coming'), NEW j \in 1 .. Len(Coming'), i < j
             PROVE  Before(Coming'[i], Coming'[j])
  BY DEF Ordered
<1>1. CASE j <= Len(Coming)
  <2>1. Coming'[i] = Coming[i] /\ Coming'[j] = Coming[j] /\ i \in 1 .. Len(Coming)
        /\ j \in 1 .. Len(Coming)
    BY <1>0, <1>1 DEF Longer
  <2> QED BY <2>1 DEF Ordered
<1>2. CASE ~(j <= Len(Coming))
  <2>1. Coming'[j].pkt = v.pkt /\ Rank(Coming'[j]) = Rank(v)
    BY <1>2 DEF Longer
  <2>2. CASE i <= Len(Coming)
    <3>1. Coming'[i] = Coming[i] /\ i \in 1 .. Len(Coming)
      BY <1>0, <2>2 DEF Longer
    <3>2. Before(Coming'[i], v)
      BY <3>1
    <3> QED BY <2>1, <3>2 DEF Before
  <2>3. CASE ~(i <= Len(Coming))
    <3>1. Coming'[i].pkt = v.pkt /\ Rank(Coming'[i]) = Rank(v)
      BY <2>3 DEF Longer
    <3> QED BY <2>1, <3>1, RankType DEF Before
  <2> QED BY <2>2, <2>3
<1> QED BY <1>1, <1>2

-----------------------------------------------------------------------------
(* The order of the file *)

UpTo(n) == \A i \in 1 .. Len(received) : received[i] <= n

\* A header or a block is one of this file, as far as it was read.
Genuine(u) ==
  /\ Rank(u) = 0 => u.pkt = TxP!Info(tFileSize)
  /\ Rank(u) = 1 => u.pkt.from + u.pkt.n <= tFileCount /\ u.pkt.n # 0
  /\ Rank(u) = 3 => u.pkt.num = 0

\* What the receiver would write of a packet is not yet in the file, or it would
\* not write it: it is the block that it has written last.
Fresh(u) ==
  /\ Rank(u) = 0 => UpTo(0)
  /\ Rank(u) = 1 => \/ UpTo(u.pkt.from)
                    \/ rStage = RxP!StageTransmitting /\ u.pkt.num = rDataCount

Receiving == rStage \in {RxP!StageEstablished, RxP!StageTransmitting}

InOrder          == Ordered(Coming)
ComingGenuine    == \A i \in 1 .. Len(Coming) : Genuine(Coming[i])
ComingBeforeItem == Opened => \A i \in 1 .. Len(Coming) : Before(Coming[i], Item)
ComingFresh      == Receiving => /\ \A i \in 1 .. Len(Coming) : Fresh(Coming[i])
                                 /\ Opened => Fresh(Item)
NothingYet       == Unopened => /\ Coming = <<>> /\ received = <<>>
                                /\ rStage \in {RxP!StageNone, RxP!StageEstablishing}

OrderInv == /\ InOrder /\ ComingGenuine /\ ComingBeforeItem /\ ComingFresh /\ NothingYet
            /\ UpTo(tFileCount)
            /\ ReceivedInOrder

\* Nothing is on its way at the start.
LEMMA OrderInit == Init => OrderInv
<1> SUFFICES ASSUME Init PROVE OrderInv
  OBVIOUS
<1>1. /\ rCode = "None" /\ toRx = <<>> /\ received = <<>> /\ rStage = 0
      /\ tStage = 0
  BY DEF Init, Tx!Init, Tx!YmodemInit, Rx!Init, Rx!YmodemInit, Tx!StageNone, Rx!StageNone
<1>2. Coming = <<>> /\ ~Opened
  BY <1>1 DEF Coming, RxP!Stream, Opened, TxP!StageEstablished, TxP!StageFinished
<1> QED BY <1>1, <1>2 DEF OrderInv, InOrder, Ordered, ComingGenuine, ComingBeforeItem,
        ComingFresh, NothingYet, UpTo, ReceivedInOrder, RxP!StageNone

\* Losses leave what comes in order, genuine and no later than what is sent.
LEMMA LeftInOrder ==
  ASSUME OrderInv, Left(Coming', Coming), Coming' \in Seq(RxP!Unit),
         UNCHANGED <<tFileSize, tFileCount>>, Opened' => Opened /\ Item' = Item,
         Unopened' => Unopened
  PROVE  /\ InOrder' /\ ComingGenuine' /\ ComingBeforeItem'
         /\ Unopened' => Coming' = <<>>
<1>1. InOrder'
  BY OrderedLeft DEF OrderInv, InOrder
<1>2. ComingGenuine'
  <2> SUFFICES ASSUME NEW i \in 1 .. Len(Coming') PROVE Genuine(Coming[i])'
    BY DEF ComingGenuine
  <2>1. PICK j \in 1 .. Len(Coming) : Coming'[i].pkt = Coming[j].pkt
                                     /\ Rank(Coming'[i]) = Rank(Coming[j])
    BY LeftSame
  <2>2. Genuine(Coming[j])
    BY DEF OrderInv, ComingGenuine
  <2> QED BY <2>1, <2>2 DEF Genuine, TxP!Info, Rank
<1>3. ComingBeforeItem'
  <2> SUFFICES ASSUME Opened', NEW i \in 1 .. Len(Coming') PROVE Before(Coming'[i], Item')
    BY DEF ComingBeforeItem
  <2>1. PICK j \in 1 .. Len(Coming) : Coming'[i].pkt = Coming[j].pkt
                                     /\ Rank(Coming'[i]) = Rank(Coming[j])
    BY LeftSame
  <2>2. Before(Coming[j], Item) /\ Item' = Item
    BY DEF OrderInv, ComingBeforeItem
  <2> QED BY <2>1, <2>2 DEF Before
<1>4. Unopened' => Coming' = <<>>
  BY NothingLeft DEF OrderInv, NothingYet
<1> QED BY <1>1, <1>2, <1>3, <1>4

\* A step of the transmitter or of the cable by which nothing is written.
LEMMA QuietKeepsOrder ==
  ASSUME OrderInv, UNCHANGED rVars, Left(Coming', Coming), Coming' \in Seq(RxP!Unit),
         UNCHANGED <<tFileSize, tFileCount>>, Opened' => Opened /\ Item' = Item,
         Unopened' => Unopened
  PROVE  OrderInv'
<1>1. /\ InOrder' /\ ComingGenuine' /\ ComingBeforeItem'
      /\ Unopened' => Coming' = <<>>
  BY LeftInOrder
<1>2. ComingFresh'
  <2> SUFFICES ASSUME Receiving'
               PROVE  /\ \A i \in 1 .. Len(Coming') : Fresh(Coming[i])'
                      /\ Opened' => Fresh(Item)'
    BY DEF ComingFresh
  <2>1. Receiving
    BY DEF Receiving, rVars, RxP!StageEstablished, RxP!StageTransmitting
  <2>2. ASSUME NEW i \in 1 .. Len(Coming') PROVE Fresh(Coming[i])'
    <3>1. PICK j \in 1 .. Len(Coming) : Coming'[i].pkt = Coming[j].pkt
                                       /\ Rank(Coming'[i]) = Rank(Coming[j])
      BY LeftSame
    <3>2. Fresh(Coming[j])
      BY <2>1 DEF OrderInv, ComingFresh
    <3> QED BY <3>1, <3>2 DEF Fresh, UpTo, rVars, RxP!StageTransmitting
  <2>3. Opened' => Fresh(Item)'
    <3> SUFFICES ASSUME Opened' PROVE Fresh(Item)'
      OBVIOUS
    <3>1. Fresh(Item) /\ Item' = Item
      BY <2>1 DEF OrderInv, ComingFresh
    <3> QED BY <3>1 DEF Fresh, UpTo, rVars, RxP!StageTransmitting
  <2> QED BY <2>2, <2>3
<1>3. NothingYet' /\ UpTo(tFileCount)' /\ ReceivedInOrder'
  BY <1>1 DEF OrderInv, NothingYet, UpTo, ReceivedInOrder, rVars, RxP!StageNone,
              RxP!StageEstablishing
<1> QED BY <1>1, <1>2, <1>3 DEF OrderInv

\* A step of the transmitter that writes units like v, or does not manage to.
LEMMA WritingKeepsOrder ==
  ASSUME OrderInv, ProgramsOK, ProgramsOK', UNCHANGED rVars, NEW v, Longer(v),
         \/ UNCHANGED tFileSize /\ tFileCount' >= tFileCount
         \/ Coming = <<>> /\ received = <<>>,
         \A i \in 1 .. Len(Coming) : Before(Coming[i], v),
         Genuine(v)', Receiving => Fresh(v),
         ~Unopened', Opened' => Item'.pkt = v.pkt /\ Rank(Item') = Rank(v)
  PROVE  OrderInv'
<1>0. LinkTypeOK /\ LinkTypeOK' /\ Len(Coming) \in Nat /\ Len(Coming') \in Nat
  <2>1. LinkTypeOK /\ LinkTypeOK'
    <3>1. ProgramsOK' => LinkTypeOK'
      BY LinkTypes, PTL
    <3> QED BY <3>1, LinkTypes
  <2> QED BY <2>1 DEF LinkTypeOK
<1>1. InOrder'
  BY <1>0, OrderedLonger DEF OrderInv, InOrder
<1>2. ComingGenuine'
  <2> SUFFICES ASSUME NEW i \in 1 .. Len(Coming') PROVE Genuine(Coming[i])'
    BY DEF ComingGenuine
  <2>1. CASE i <= Len(Coming)
    <3>1. Coming'[i] = Coming[i] /\ Genuine(Coming[i]) /\ Coming[i] \in RxP!Unit
      BY <1>0, <2>1 DEF Longer, OrderInv, ComingGenuine, LinkTypeOK
    <3>2. Coming[i].pkt.from \in Nat /\ Coming[i].pkt.n \in Nat
      BY <3>1, UnitParts
    <3>3. /\ tFileCount \in Nat /\ tFileCount' \in Nat
          /\ UNCHANGED tFileSize /\ tFileCount' >= tFileCount
      BY <1>0, <2>1 DEF LinkTypeOK
    <3> QED BY <3>1, <3>2, <3>3 DEF Genuine, TxP!Info, Rank
  <2>2. CASE ~(i <= Len(Coming))
    <3>1. Coming'[i].pkt = v.pkt /\ Rank(Coming'[i]) = Rank(v)
      BY <2>2 DEF Longer
    <3> QED BY <3>1 DEF Genuine
  <2> QED BY <2>1, <2>2
<1>3. ComingBeforeItem'
  <2> SUFFICES ASSUME Opened', NEW i \in 1 .. Len(Coming') PROVE Before(Coming'[i], Item')
    BY DEF ComingBeforeItem
  <2>0. Item'.pkt = v.pkt /\ Rank(Item') = Rank(v)
    OBVIOUS
  <2>1. CASE i <= Len(Coming)
    <3>1. Coming'[i] = Coming[i] /\ Before(Coming[i], v)
      BY <1>0, <2>1 DEF Longer
    <3> QED BY <2>0, <3>1 DEF Before
  <2>2. CASE ~(i <= Len(Coming))
    <3>1. Coming'[i].pkt = v.pkt /\ Rank(Coming'[i]) = Rank(v)
      BY <2>2 DEF Longer
    <3> QED BY <2>0, <3>1, RankType DEF Before
  <2> QED BY <2>1, <2>2
<1>4. ComingFresh'
  <2> SUFFICES ASSUME Receiving'
               PROVE  /\ \A i \in 1 .. Len(Coming') : Fresh(Coming[i])'
                      /\ Opened' => Fresh(Item)'
    BY DEF ComingFresh
  <2>1. Receiving /\ Fresh(v)
    BY DEF Receiving, rVars, RxP!StageEstablished, RxP!StageTransmitting
  <2>2. ASSUME NEW i \in 1 .. Len(Coming') PROVE Fresh(Coming[i])'
    <3>1. CASE i <= Len(Coming)
      <4>1. Coming'[i] = Coming[i] /\ Fresh(Coming[i])
        BY <1>0, <2>1, <3>1 DEF Longer, OrderInv, ComingFresh
      <4> QED BY <4>1 DEF Fresh, UpTo, rVars, RxP!StageTransmitting
    <3>2. CASE ~(i <= Len(Coming))
      <4>1. Coming'[i].pkt = v.pkt /\ Rank(Coming'[i]) = Rank(v)
        BY <3>2 DEF Longer
      <4> QED BY <2>1, <4>1 DEF Fresh, UpTo, rVars, RxP!StageTransmitting
    <3> QED BY <3>1, <3>2
  <2>3. Opened' => Fresh(Item)'
    BY <2>1 DEF Fresh, UpTo, rVars, RxP!StageTransmitting
  <2> QED BY <2>2, <2>3
<1>5. UpTo(tFileCount)'
  <2> SUFFICES ASSUME NEW i \in 1 .. Len(received) PROVE received[i] <= tFileCount'
    BY DEF UpTo, rVars
  <2>1. received[i] <= tFileCount
    BY DEF OrderInv, UpTo
  <2>2. /\ received[i] \in Nat /\ tFileCount \in Nat /\ tFileCount' \in Nat
        /\ tFileCount' >= tFileCount
    BY <1>0 DEF LinkTypeOK
  <2> QED BY <2>1, <2>2
<1>6. NothingYet' /\ ReceivedInOrder'
  BY DEF OrderInv, NothingYet, ReceivedInOrder, rVars
<1> QED BY <1>1, <1>2, <1>3, <1>4, <1>5, <1>6 DEF OrderInv

\* The step of the transmitter, by what it does.
LEMMA SenderKeepsOrder ==
  ASSUME OrderInv, ProgramsOK, ProgramsOK', SenderMoves
  PROVE  OrderInv'
<1> USE DEF TxP!StageNone, TxP!StageEstablishing, TxP!StageEstablished,
            TxP!StageTransmitting, TxP!StageFinishing, TxP!StageFinished
<1>0. /\ LinkTypeOK /\ LinkTypeOK' /\ (Opened => ItemOK) /\ (Opened' => ItemOK')
      /\ UNCHANGED rVars
  <2>1. (ProgramsOK' => LinkTypeOK') /\ (ProgramsOK' /\ Opened' => ItemOK')
    BY LinkTypes, CurrentItem, PTL
  <2> QED BY <2>1, LinkTypes, CurrentItem DEF SenderMoves
<1>1. CASE TxP!Idles \/ SenderRests
  <2>1. Coming' = Coming
    BY <1>0, <1>1 DEF Coming, RxP!Stream, rVars, TxP!Idles, SenderRests
  <2>2. Left(Coming', Coming) /\ Coming' \in Seq(RxP!Unit)
    BY <1>0, <2>1, AllOrNoneLeft DEF LinkTypeOK
  <2>3. CASE TxP!Idles
    <3>1. ~Opened /\ ~Opened' /\ (Unopened' => Unopened)
          /\ UNCHANGED <<tFileSize, tFileCount>>
      BY <2>3 DEF TxP!Idles, Opened, Unopened
    <3> QED BY <1>0, <2>2, <3>1, QuietKeepsOrder
  <2>4. CASE SenderRests
    <3>1. (Opened' => Opened /\ Item' = Item) /\ (Unopened' => Unopened)
          /\ UNCHANGED <<tFileSize, tFileCount>>
      BY <2>4 DEF SenderRests, Opened, Unopened, Item
    <3> QED BY <1>0, <2>2, <3>1, QuietKeepsOrder
  <2> QED BY <1>1, <2>3, <2>4
<1>2. ASSUME NEW up \in TxP!Terminal, TxP!Gives(up) PROVE OrderInv'
  <2> DEFINE v == TxP!Cans[1]
  <2>1. Longer(v) /\ Rank(v) = 4
    BY <1>0, <1>2, CodesAlike, ComingLonger DEF TxP!Gives
  <2>2. /\ ~Opened' /\ ~Unopened' /\ UNCHANGED tFileSize /\ tFileCount' >= tFileCount
    BY <1>0, <1>2 DEF TxP!Gives, Opened, Unopened, LinkTypeOK
  <2> HIDE DEF v
  <2>3. \A i \in 1 .. Len(Coming) : Before(Coming[i], v)
    BY <2>1, RankType DEF Before
  <2>4. Genuine(v)' /\ Fresh(v)
    BY <2>1 DEF Genuine, Fresh
  <2> QED BY <1>0, <2>1, <2>2, <2>3, <2>4, WritingKeepsOrder
<1>3. CASE TxP!Opens
  <2>1. Coming = <<>> /\ received = <<>> /\ ~Receiving /\ ~Unopened' /\ Opened'
    <3>1. Unopened /\ Opened'
      BY <1>3 DEF TxP!Opens, Opened, Unopened
    <3>2. Coming = <<>> /\ received = <<>> /\ ~Receiving
      BY <3>1 DEF OrderInv, NothingYet, Receiving, RxP!StageNone, RxP!StageEstablishing,
                  RxP!StageTransmitting, RxP!StageEstablished
    <3> QED BY <3>1, <3>2 DEF Unopened
  <2>2. PICK w : w = tTxBuffer'
    OBVIOUS
  <2>3. Alike(w) /\ TxP!Wrote(w)
    BY <1>0, <1>3, <2>1, <2>2 DEF ItemOK, TxP!Opens, TxP!Write, TxP!Wrote
  <2>4. Longer(w[1]) /\ w[1] = Item'
    BY <1>0, <2>2, <2>3, ComingLonger DEF Item
  <2>5. Genuine(w[1])'
    BY <1>0, <2>1, <2>4 DEF ItemOK, Genuine
  <2>6. \A i \in 1 .. Len(Coming) : Before(Coming[i], w[1])
    BY <2>1
  <2> QED BY <1>0, <2>1, <2>4, <2>5, <2>6, WritingKeepsOrder
<1>4. CASE TxP!Repeats
  <2>1. Opened /\ Opened' /\ Alike(tTxBuffer) /\ TxP!Wrote(tTxBuffer)
    BY <1>0, <1>4 DEF TxP!Repeats, TxP!Opened, Opened, ItemOK
  <2>2. Longer(Item) /\ Item' = Item /\ ~Unopened'
    BY <1>0, <1>4, <2>1, ComingLonger DEF Item, TxP!Repeats, Unopened
  <2>3. /\ UNCHANGED tFileSize /\ tFileCount' >= tFileCount
        /\ Item.pkt = Item.pkt /\ Rank(Item') = Rank(Item)
    BY <1>0, <1>4, <2>2 DEF TxP!Repeats, LinkTypeOK
  <2>4. Genuine(Item)'
    BY <1>0, <2>1 DEF ItemOK, Genuine
  <2>5. /\ \A i \in 1 .. Len(Coming) : Before(Coming[i], Item)
        /\ Receiving => Fresh(Item)
    BY <2>1 DEF OrderInv, ComingBeforeItem, ComingFresh
  <2>6. PICK v : v = Item
    OBVIOUS
  <2>7. /\ Longer(v) /\ Genuine(v)' /\ (Receiving => Fresh(v)) /\ Item' = v
        /\ \A i \in 1 .. Len(Coming) : Before(Coming[i], v)
    BY <2>2, <2>4, <2>5, <2>6
  <2> QED BY <1>0, <2>2, <2>3, <2>7, WritingKeepsOrder
<1>5. CASE TxP!NextBlockRead
  <2>1. PICK num \in 0 .. NumMod - 1 :
          tTxBuffer' = TxP!Wire(TxP!Block(num, tFileCount, TxP!Remaining))
    BY <1>5 DEF TxP!NextBlockRead
  <2>2. /\ Opened /\ Opened' /\ ~Unopened' /\ UNCHANGED tFileSize
        /\ TxP!Remaining \in Nat /\ TxP!Remaining # 0 /\ tFileCount # tFileSize
    BY <1>0, <1>5 DEF TxP!NextBlockRead, Opened, Unopened, TxP!ReadBlock, TxP!Remaining,
                      LinkTypeOK
  <2>3. PICK p : p = TxP!Block(num, tFileCount, TxP!Remaining)
    OBVIOUS
  <2>4. /\ p \in TxP!Packet /\ p.kind \in {"Soh", "Stx"} /\ p.what = "data"
        /\ p.from = tFileCount
    BY <1>0, <2>2, <2>3, TxP!BlockType, ProgramAssumption, CodesHere
       DEF LinkTypeOK, TxP!Block
  <2>5. PICK w : w = tTxBuffer'
    OBVIOUS
  <2>6. Alike(w) /\ w[1].pkt = p /\ Rank(w[1]) = 1 /\ w[1] = Item'
    BY <2>1, <2>3, <2>4, <2>5, WireAlike DEF Item
  <2>7. Longer(w[1])
    <3>1. TxP!Wrote(w)
      BY <1>5, <2>5 DEF TxP!NextBlockRead, TxP!Write, TxP!Wrote
    <3> QED BY <1>0, <2>6, <3>1, ComingLonger
  <2>8. Genuine(w[1])' /\ tFileCount' >= tFileCount
    <3>1. Item'.pkt.from + Item'.pkt.n = tFileCount' /\ Item'.pkt.n # 0
          /\ Item'.pkt.n \in Nat /\ tFileCount \in Nat
      BY <1>0, <2>2, <2>6 DEF ItemOK, LinkTypeOK
    <3> QED BY <2>4, <2>6, <3>1 DEF Genuine
  <2>9. Fresh(w[1])
    BY <2>4, <2>6 DEF Fresh, OrderInv
  <2>10. Rank(Item) <= 1
    BY <1>0, <2>2 DEF ItemOK
  <2>11. ASSUME NEW i \in 1 .. Len(Coming) PROVE Before(Coming[i], w[1])
    <3>1. Before(Coming[i], Item) /\ Genuine(Coming[i])
      BY <2>2 DEF OrderInv, ComingBeforeItem, ComingGenuine
    <3> QED BY <2>4, <2>6, <2>10, <3>1, RankType DEF Before, Genuine
  <2> QED BY <1>0, <2>2, <2>6, <2>7, <2>8, <2>9, <2>11, WritingKeepsOrder
<1>6. CASE TxP!FileEnds \/ TxP!BatchEnds
  <2>1. /\ Opened /\ Opened' /\ ~Unopened' /\ UNCHANGED tFileSize
        /\ tFileCount' >= tFileCount
    BY <1>0, <1>6 DEF TxP!FileEnds, TxP!BatchEnds, Opened, Unopened, LinkTypeOK
  <2>2. PICK w : w = tTxBuffer'
    OBVIOUS
  <2>3. Alike(w) /\ TxP!Wrote(w) /\ w[1] = Item'
    BY <1>0, <1>6, <2>1, <2>2 DEF ItemOK, TxP!FileEnds, TxP!BatchEnds, TxP!Write, TxP!Wrote,
       Item
  <2>4. Longer(w[1])
    BY <1>0, <2>3, ComingLonger
  <2>5. Rank(w[1]) \in {2, 3} /\ Rank(Item) <= Rank(w[1])
    <3>1. CASE TxP!FileEnds
      <4>1. Rank(w[1]) = 2
        BY <2>2, <3>1, CodesAlike DEF TxP!FileEnds
      <4>2. Rank(Item) <= 2 /\ Rank(Item) \in 0 .. 3
        BY <1>0, <2>1, <3>1 DEF TxP!FileEnds, ItemOK
      <4> QED BY <4>1, <4>2
    <3>2. CASE TxP!BatchEnds
      BY <1>0, <2>1, <2>3, <3>2 DEF TxP!BatchEnds, ItemOK
    <3> QED BY <1>6, <3>1, <3>2
  <2>6. Genuine(w[1])' /\ Fresh(w[1])
    BY <1>0, <2>1, <2>3, <2>5 DEF ItemOK, Genuine, Fresh
  <2>7. ASSUME NEW i \in 1 .. Len(Coming) PROVE Before(Coming[i], w[1])
    <3>1. Before(Coming[i], Item) /\ Rank(Item) \in 0 .. 4 /\ Rank(Coming[i]) \in 0 .. 4
      BY <2>1, RankType DEF OrderInv, ComingBeforeItem
    <3> QED BY <2>5, <3>1 DEF Before
  <2> QED BY <1>0, <2>1, <2>3, <2>4, <2>6, <2>7, WritingKeepsOrder
<1> QED BY <1>1, <1>2, <1>3, <1>4, <1>5, <1>6 DEF SenderMoves, TxP!PollEffect

\* A packet that is read is the first that comes.
LEMMA PacketRead ==
  ASSUME ProgramsOK, NEW r \in RxP!receivePacket, r.pkt.kind # "None"
  PROVE  /\ 1 \in 1 .. Len(Coming) /\ Coming[1] \in RxP!Unit
         /\ r.pkt = Coming[1].pkt /\ Coming[1].byte = r.pkt.kind
         /\ r.pkt.kind \in {"Soh", "Stx"}
         /\ Rank(Coming[1]) = IF r.pkt.what = "info" THEN 0
                              ELSE IF r.pkt.what = "data" THEN 1 ELSE 3
<1>0. toRx \in Seq(RxP!Unit) /\ rRxBuffer \in Seq(RxP!Unit)
      /\ rCode \in {"None", "Soh", "Stx"} /\ RxP!PartialPacket
  BY ChannelTypes DEF ProgramsOK, RxP!Inductive, RxP!TypeOK
<1>1. PICK k \in 0 .. Len(toRx) : RxP!Takes(r, k)
  BY <1>0, RxP!ReadTakes, ProgramAssumption, CodesHere
<1>2. r.pkt # RxP!NoPacket
  BY DEF RxP!NoPacket
<1>3. Coming # <<>> /\ r.pkt = Coming[1].pkt /\ Coming[1].byte = r.pkt.kind
  BY <1>1, <1>2 DEF RxP!Takes, RxP!Begun, Coming
<1>4. Coming \in Seq(RxP!Unit) /\ Len(Coming) \in Nat
  BY ComingType
<1>5. 1 \in 1 .. Len(Coming) /\ Coming[1] \in RxP!Unit
  <2> HIDE DEF Coming
  <2> QED BY <1>3, <1>4
<1>6. r.pkt.kind \in {"Soh", "Stx"}
  BY <1>3, <1>5 DEF RxP!Unit, RxP!Packet
<1> QED BY <1>3, <1>5, <1>6 DEF Rank

\* What is in the file after a packet was written: what was in it, then bytes of
\* the packet in their places, or padding.
LEMMA Written ==
  ASSUME received \in Seq(Nat), NEW p \in RxP!Packet, NEW k \in Nat,
         received' = RxP!OnDisk(received \o RxP!Payload(p, k)),
         NEW i \in 1 .. Len(received')
  PROVE  IF i <= Len(received) THEN received'[i] = received[i]
         ELSE \/ received'[i] = 0
              \/ /\ p.what = "data" /\ i - Len(received) <= p.n
                 /\ received'[i] = p.from + (i - Len(received))
<1> DEFINE new == RxP!Payload(p, k)
           all == received \o new
<1>1. new \in Seq(Nat) /\ Len(new) = k
  BY RxP!PayloadType, ProgramAssumption, CodesHere
<1>2. /\ all \in Seq(Nat) /\ Len(all) = Len(received) + Len(new)
      /\ \A j \in 1 .. Len(received) : all[j] = received[j]
      /\ \A j \in 1 .. Len(new) : all[Len(received) + j] = new[j]
  <2> HIDE DEF new
  <2>1. received \in Seq(Nat) /\ new \in Seq(Nat)
    BY <1>1
  <2> QED BY ONLY <2>1, Appended
<1>3. \A j \in 1 .. Len(new) :
        \/ new[j] = 0
        \/ p.what = "data" /\ j <= p.n /\ new[j] = p.from + j
  BY <1>1 DEF RxP!Payload
<1> HIDE DEF all, new
<1>4. i \in 1 .. Len(all) /\ received'[i] = all[i]
  <2>1. DiskSize \in Nat /\ Len(all) \in Nat
    BY <1>2, ProgramAssumption
  <2>2. received' = SubSeq(all, 1, IF Len(all) > DiskSize THEN DiskSize ELSE Len(all))
    BY DEF RxP!OnDisk, all, new
  <2> QED BY <1>2, <2>1, <2>2
<1>5. CASE i <= Len(received)
  BY <1>2, <1>4, <1>5
<1>6. CASE ~(i <= Len(received))
  <2>1. i - Len(received) \in 1 .. Len(new) /\ Len(received) + (i - Len(received)) = i
    BY <1>1, <1>2, <1>4, <1>6
  <2> QED BY <1>2, <1>3, <1>4, <1>6, <2>1
<1> QED BY <1>5, <1>6

\* Padding keeps what is in the file below a bound; a block that is not older
\* than the file goes up to its own end.
LEMMA WrittenInOrder ==
  ASSUME received \in Seq(Nat), received' \in Seq(Nat), ReceivedInOrder,
         NEW p \in RxP!Packet, NEW k \in Nat,
         received' = RxP!OnDisk(received \o RxP!Payload(p, k)),
         p.what = "data" => UpTo(p.from)
  PROVE  /\ ReceivedInOrder'
         /\ p.what # "data" => \A n \in Nat : UpTo(n) => UpTo(n)'
         /\ p.what = "data" => UpTo(p.from + p.n)'
<1>0. /\ p.from \in Nat /\ p.n \in Nat /\ Len(received) \in Nat /\ Len(received') \in Nat
      /\ \A i \in 1 .. Len(received) : received[i] \in Nat
      /\ \A i \in 1 .. Len(received') : received'[i] \in Nat
  BY DEF RxP!Packet
<1>1. ASSUME NEW i \in 1 .. Len(received')
      PROVE  IF i <= Len(received) THEN received'[i] = received[i]
             ELSE \/ received'[i] = 0
                  \/ /\ p.what = "data" /\ i - Len(received) <= p.n
                     /\ received'[i] = p.from + (i - Len(received))
  BY Written
<1>2. ASSUME NEW i \in 1 .. Len(received'), NEW j \in 1 .. Len(received'), i < j,
             received'[i] # 0, received'[j] # 0
      PROVE  received'[i] < received'[j]
  <2>1. CASE j <= Len(received)
    <3>0. i \in 1 .. Len(received) /\ j \in 1 .. Len(received)
          /\ i <= Len(received)
      BY <1>0, <1>2, <2>1
    <3>1. received'[i] = received[i] /\ received'[j] = received[j]
      BY <1>1, <2>1, <3>0
    <3> QED BY <1>2, <3>0, <3>1 DEF ReceivedInOrder
  <2>2. CASE ~(j <= Len(received))
    <3>1. p.what = "data" /\ received'[j] = p.from + (j - Len(received))
      BY <1>1, <1>2, <2>2
    <3>2. CASE i <= Len(received)
      <4>1. i \in 1 .. Len(received) /\ received'[i] = received[i]
        BY <1>0, <1>1, <3>2
      <4>2. received[i] <= p.from /\ received[i] \in Nat
        BY <1>0, <3>1, <4>1 DEF UpTo
      <4>3. j - Len(received) > 0 /\ j - Len(received) \in Nat
        BY <1>0, <2>2
      <4>4. received'[i] \in Nat /\ received'[i] <= p.from
            /\ received'[j] = p.from + (j - Len(received))
        BY <3>1, <4>1, <4>2
      <4> HIDE DEF UpTo
      <4> QED BY <1>0, <4>3, <4>4
    <3>3. CASE ~(i <= Len(received))
      <4>1. received'[i] = p.from + (i - Len(received))
        BY <1>1, <1>2, <3>3
      <4> QED BY <1>0, <1>2, <3>1, <4>1
    <3> QED BY <3>2, <3>3
  <2> QED BY <2>1, <2>2
<1>3. ASSUME p.what # "data", NEW n \in Nat, UpTo(n) PROVE UpTo(n)'
  <2> SUFFICES ASSUME NEW i \in 1 .. Len(received') PROVE received'[i] <= n
    BY DEF UpTo
  <2>1. received'[i] = 0 \/ (i \in 1 .. Len(received) /\ received'[i] = received[i])
    BY <1>0, <1>1, <1>3
  <2> QED BY <1>3, <2>1 DEF UpTo
<1>4. ASSUME p.what = "data" PROVE UpTo(p.from + p.n)'
  <2> SUFFICES ASSUME NEW i \in 1 .. Len(received') PROVE received'[i] <= p.from + p.n
    BY DEF UpTo
  <2>1. CASE i <= Len(received)
    <3>1. received'[i] = received[i] /\ received[i] <= p.from /\ received[i] \in Nat
      BY <1>0, <1>1, <1>4, <2>1 DEF UpTo
    <3> QED BY <1>0, <3>1
  <2>2. CASE ~(i <= Len(received))
    BY <1>0, <1>1, <2>2
  <2> QED BY <2>1, <2>2
<1> QED BY <1>2, <1>3, <1>4 DEF ReceivedInOrder

\* A block is written in its place, and what comes behind it is as fresh as it was.
LEMMA BlockKeepsOrder ==
  ASSUME OrderInv, ProgramsOK, ProgramsOK', UNCHANGED tVars, Left(Coming', Coming),
         RxP!BlockTaken
  PROVE  OrderInv'
<1> USE DEF RxP!StageEstablished, RxP!StageTransmitting
<1>0. LinkTypeOK /\ LinkTypeOK' /\ NumMod \in Nat /\ NumMod > 2
  <2>1. ProgramsOK' => LinkTypeOK'
    BY LinkTypes, PTL
  <2> QED BY <2>1, LinkTypes, ProgramAssumption
<1>1. PICK r \in RxP!receivePacket :
        /\ RxP!Due(r) /\ rDataCount' = r.pkt.num
        /\ received' = RxP!OnDisk(received \o RxP!Payload(r.pkt, RxP!Taken(RxP!DataLength(r))))
  BY DEF RxP!BlockTaken
<1>2. PICK p : p = r.pkt
  OBVIOUS
<1>3. /\ 1 \in 1 .. Len(Coming) /\ Coming[1] \in RxP!Unit /\ p = Coming[1].pkt
      /\ Rank(Coming[1]) = IF p.what = "info" THEN 0 ELSE IF p.what = "data" THEN 1 ELSE 3
      /\ p \in RxP!Packet /\ p.from \in Nat /\ p.n \in Nat
  <2>1. r.pkt.kind # "None"
    BY <1>1 DEF RxP!Due
  <2>2. /\ 1 \in 1 .. Len(Coming) /\ Coming[1] \in RxP!Unit /\ r.pkt = Coming[1].pkt
        /\ Rank(Coming[1]) = IF r.pkt.what = "info" THEN 0
                             ELSE IF r.pkt.what = "data" THEN 1 ELSE 3
    BY <2>1, PacketRead
  <2>3. Coming[1].pkt \in RxP!Packet /\ Coming[1].pkt.from \in Nat /\ Coming[1].pkt.n \in Nat
    BY <2>2, UnitParts
  <2> QED BY <1>2, <2>2, <2>3
<1>4. rStage = 2 \/ (rStage = 3 /\ p.num = RxP!NextNum(rDataCount))
  BY <1>1, <1>2 DEF RxP!Due
<1>5. RxP!Taken(RxP!DataLength(r)) \in Nat
  <2>1. rFileSize \in Nat /\ rFileCount \in Nat /\ rFileCount <= rFileSize
    BY <1>4 DEF ProgramsOK, RxP!Inductive, RxP!TypeOK, RxP!FileOpenWhileReceiving,
                RxP!CountMatchesFile, RxP!StageFinished
  <2> QED BY <2>1, RxP!TakenType, ProgramAssumption, CodesHere
<1>6. Genuine(Coming[1]) /\ Fresh(Coming[1])
  BY <1>3, <1>4 DEF OrderInv, ComingGenuine, ComingFresh, Receiving
<1>7. p.what = "data" => UpTo(p.from)
  <2>1. rDataCount \in 0 .. NumMod - 1
    BY <1>0 DEF LinkTypeOK
  <2>2. RxP!NextNum(rDataCount) # rDataCount
    BY <1>0, <2>1 DEF RxP!NextNum
  <2> QED BY <1>3, <1>4, <1>6, <2>2 DEF Fresh
<1>8. /\ ReceivedInOrder'
      /\ p.what # "data" => \A n \in Nat : UpTo(n) => UpTo(n)'
      /\ p.what = "data" => UpTo(p.from + p.n)'
  <2>1. received \in Seq(Nat) /\ received' \in Seq(Nat) /\ ReceivedInOrder
    BY <1>0 DEF LinkTypeOK, OrderInv
  <2>2. received' = RxP!OnDisk(received \o RxP!Payload(p, RxP!Taken(RxP!DataLength(r))))
    BY <1>1, <1>2
  <2> QED BY <1>3, <1>5, <1>7, <2>1, <2>2, WrittenInOrder
<1>9. \A m, n \in Nat : UpTo(m)' /\ m <= n => UpTo(n)'
  <2>1. received' \in Seq(Nat)
    BY <1>0 DEF LinkTypeOK
  <2> QED BY <2>1 DEF UpTo
<1>10. ASSUME NEW u, u.pkt.from \in Nat, Before(Coming[1], u) PROVE Fresh(u)'
  <2>1. ASSUME Rank(Coming[1]) = 0 PROVE UpTo(0)'
    <3>1. p.what # "data" /\ UpTo(0)
      BY <1>3, <1>6, <2>1 DEF Fresh
    <3> QED BY <1>8, <3>1
  <2>2. CASE Rank(u) = 0
    <3>1. Rank(Coming[1]) = 0
      BY <1>10, <2>2, RankType DEF Before
    <3> QED BY <2>1, <2>2, <3>1 DEF Fresh
  <2>3. CASE Rank(u) = 1
    <3>1. CASE Rank(Coming[1]) = 0
      <4>1. UpTo(u.pkt.from)'
        BY <1>9, <1>10, <2>1, <3>1
      <4> QED BY <2>3, <4>1 DEF Fresh
    <3>2. CASE Rank(Coming[1]) = 1
      <4>1. p.what = "data" /\ (p = u.pkt \/ p.from + p.n <= u.pkt.from)
        BY <1>3, <1>10, <2>3, <3>2 DEF Before
      <4>2. CASE p = u.pkt
        <5>1. rStage' = 3 /\ u.pkt.num = rDataCount'
          BY <1>1, <1>2, <4>2 DEF RxP!BlockTaken
        <5> QED BY <2>3, <5>1 DEF Fresh
      <4>3. CASE p.from + p.n <= u.pkt.from
        <5>1. p.from + p.n \in Nat
          BY <1>3
        <5>2. UpTo(u.pkt.from)'
          BY <1>8, <1>9, <1>10, <4>1, <4>3, <5>1
        <5> QED BY <2>3, <5>2 DEF Fresh
      <4> QED BY <4>1, <4>2, <4>3
    <3> QED BY <1>10, <2>3, <3>1, <3>2, RankType DEF Before
  <2> QED BY <2>2, <2>3 DEF Fresh
<1>11. /\ UNCHANGED <<tFileSize, tFileCount>> /\ (Opened' => Opened /\ Item' = Item)
       /\ (Unopened' => Unopened)
  BY DEF tVars, Opened, Unopened, Item
<1>12. InOrder' /\ ComingGenuine' /\ ComingBeforeItem' /\ (Unopened' => Coming' = <<>>)
  BY <1>0, <1>11, LeftInOrder DEF LinkTypeOK
<1>13. ComingFresh'
  <2>1. ASSUME NEW i \in 1 .. Len(Coming') PROVE Fresh(Coming[i])'
    <3>1. PICK j \in 1 .. Len(Coming) : Coming'[i].pkt = Coming[j].pkt
                                       /\ Rank(Coming'[i]) = Rank(Coming[j])
      BY LeftSame
    <3>2. Before(Coming[1], Coming[j])
      <4>1. CASE j = 1
        BY <4>1, RankType DEF Before
      <4>2. CASE j # 1
        BY <1>3, <3>1, <4>2 DEF OrderInv, InOrder, Ordered
      <4> QED BY <4>1, <4>2
    <3>3. Coming[j] \in RxP!Unit
      BY <1>0 DEF LinkTypeOK
    <3>4. PICK u : u = Coming'[i]
      OBVIOUS
    <3>5. u.pkt.from \in Nat /\ Before(Coming[1], u)
      BY <3>1, <3>2, <3>3, <3>4, UnitParts DEF Before
    <3>6. Fresh(u)'
      BY <1>10, <3>5
    <3> QED BY <3>4, <3>6
  <2>2. ASSUME Opened' PROVE Fresh(Item)'
    <3>1. Opened /\ ItemOK /\ Item' = Item /\ Before(Coming[1], Item)
      BY <1>3, <1>11, <2>2, CurrentItem DEF OrderInv, ComingBeforeItem
    <3>2. PICK u : u = Item
      OBVIOUS
    <3>3. Item.pkt.from \in Nat
      <4>1. tTxBuffer \in Seq(RxP!Unit) /\ Len(tTxBuffer) >= 1
        BY <3>1 DEF ItemOK, Alike
      <4>2. Item \in RxP!Unit
        BY <4>1 DEF Item
      <4> QED BY <4>2, UnitParts
    <3>4. Fresh(u)'
      BY <1>10, <3>1, <3>2, <3>3
    <3> QED BY <3>1, <3>2, <3>4
  <2> QED BY <2>1, <2>2 DEF ComingFresh
<1>14. UpTo(tFileCount)'
  <2>1. tFileCount \in Nat /\ UpTo(tFileCount) /\ tFileCount' = tFileCount
    BY <1>0, <1>11 DEF LinkTypeOK, OrderInv
  <2>2. CASE p.what = "data"
    <3>1. p.from + p.n <= tFileCount /\ p.from + p.n \in Nat
      BY <1>3, <1>6, <2>2 DEF Genuine
    <3>2. PICK n \in Nat : n = tFileCount
      BY <2>1
    <3>3. UpTo(n)'
      BY <1>8, <1>9, <2>2, <3>1, <3>2
    <3> QED BY <2>1, <3>2, <3>3
  <2>3. CASE p.what # "data"
    <3>1. PICK n \in Nat : n = tFileCount
      BY <2>1
    <3>2. UpTo(n)'
      BY <1>8, <2>1, <2>3, <3>1
    <3> QED BY <2>1, <3>1, <3>2
  <2> QED BY <2>2, <2>3
<1>15. ~Unopened'
  <2>1. Coming # <<>>
    BY <1>3
  <2> QED BY <1>11, <2>1 DEF OrderInv, NothingYet
<1> QED BY <1>8, <1>12, <1>13, <1>14, <1>15 DEF OrderInv, NothingYet

\* A header empties the file.
LEMMA HeaderKeepsOrder ==
  ASSUME OrderInv, ProgramsOK, ProgramsOK', UNCHANGED tVars, Left(Coming', Coming),
         RxP!HeaderTaken
  PROVE  OrderInv'
<1>1. Coming # <<>>
  <2>1. PICK r \in RxP!receivePacket : r.pkt.kind = "Soh"
    BY DEF RxP!HeaderTaken
  <2>2. 1 \in 1 .. Len(Coming)
    BY <2>1, PacketRead
  <2> HIDE DEF Coming
  <2> QED BY <2>2
<1>2. /\ UNCHANGED <<tFileSize, tFileCount>> /\ (Opened' => Opened /\ Item' = Item)
      /\ (Unopened' => Unopened) /\ received' = <<>>
  BY DEF tVars, Opened, Unopened, Item, RxP!HeaderTaken
<1>3. Coming' \in Seq(RxP!Unit)
  <2>1. ProgramsOK' => LinkTypeOK'
    BY LinkTypes, PTL
  <2> QED BY <2>1 DEF LinkTypeOK
<1>4. InOrder' /\ ComingGenuine' /\ ComingBeforeItem' /\ (Unopened' => Coming' = <<>>)
  BY <1>2, <1>3, LeftInOrder
<1>5. UpTo(tFileCount)' /\ ReceivedInOrder' /\ \A u : Fresh(u)'
  BY <1>2 DEF UpTo, ReceivedInOrder, Fresh
<1>6. ComingFresh'
  <2>1. \A i \in 1 .. Len(Coming') : Fresh(Coming[i])'
    BY <1>2 DEF Fresh, UpTo
  <2>2. Fresh(Item)'
    BY <1>2 DEF Fresh, UpTo
  <2> QED BY <2>1, <2>2 DEF ComingFresh
<1>7. ~Unopened'
  BY <1>1, <1>2 DEF OrderInv, NothingYet
<1> QED BY <1>4, <1>5, <1>6, <1>7 DEF OrderInv, NothingYet

\* Nothing is written.
LEMMA UnwrittenKeepsOrder ==
  ASSUME OrderInv, ProgramsOK', UNCHANGED tVars, Left(Coming', Coming),
         UNCHANGED received, Receiving' => UNCHANGED <<rStage, rDataCount>>,
         rStage \in {RxP!StageNone, RxP!StageEstablishing} =>
           rStage' \in {RxP!StageNone, RxP!StageEstablishing}
  PROVE  OrderInv'
<1>1. /\ UNCHANGED <<tFileSize, tFileCount>> /\ (Opened' => Opened /\ Item' = Item)
      /\ (Unopened' => Unopened)
  BY DEF tVars, Opened, Unopened, Item
<1>2. Coming' \in Seq(RxP!Unit)
  <2>1. ProgramsOK' => LinkTypeOK'
    BY LinkTypes, PTL
  <2> QED BY <2>1 DEF LinkTypeOK
<1>3. InOrder' /\ ComingGenuine' /\ ComingBeforeItem' /\ (Unopened' => Coming' = <<>>)
  BY <1>1, <1>2, LeftInOrder
<1>4. ComingFresh'
  <2> SUFFICES ASSUME Receiving'
               PROVE  /\ \A i \in 1 .. Len(Coming') : Fresh(Coming[i])'
                      /\ Opened' => Fresh(Item)'
    BY DEF ComingFresh
  <2>0. Receiving /\ UNCHANGED <<rStage, rDataCount, received>>
    BY DEF Receiving, RxP!StageEstablished, RxP!StageTransmitting
  <2>1. ASSUME NEW i \in 1 .. Len(Coming') PROVE Fresh(Coming[i])'
    <3>1. PICK j \in 1 .. Len(Coming) : Coming'[i].pkt = Coming[j].pkt
                                       /\ Rank(Coming'[i]) = Rank(Coming[j])
      BY LeftSame
    <3>2. Fresh(Coming[j])
      BY <2>0 DEF OrderInv, ComingFresh
    <3> QED BY <2>0, <3>1, <3>2 DEF Fresh, UpTo, RxP!StageTransmitting
  <2>2. ASSUME Opened' PROVE Fresh(Item)'
    <3>1. Fresh(Item) /\ Item' = Item
      BY <1>1, <2>0, <2>2 DEF OrderInv, ComingFresh
    <3> QED BY <2>0, <3>1 DEF Fresh, UpTo, RxP!StageTransmitting
  <2> QED BY <2>1, <2>2
<1>5. NothingYet' /\ UpTo(tFileCount)' /\ ReceivedInOrder'
  BY <1>1, <1>3 DEF OrderInv, NothingYet, UpTo, ReceivedInOrder, RxP!StageNone,
                    RxP!StageEstablishing
<1> QED BY <1>3, <1>4, <1>5 DEF OrderInv

LEMMA ReceiverKeepsOrder ==
  ASSUME OrderInv, ProgramsOK, ProgramsOK', ReceiverMoves
  PROVE  OrderInv'
<1>0. UNCHANGED tVars /\ Left(Coming', Coming)
  BY DEF ReceiverMoves
<1>1. CASE RxP!HeaderTaken
  BY <1>0, <1>1, HeaderKeepsOrder
<1>2. CASE RxP!BlockTaken
  BY <1>0, <1>2, BlockKeepsOrder
<1>3. CASE \/ RxP!Idles \/ (\E up \in RxP!Terminal : RxP!Gives(up)) \/ RxP!Asks
           \/ RxP!BlockKills \/ RxP!EotRefused \/ RxP!EotTaken \/ ReceiverRests
  <2>1. UNCHANGED received
    BY <1>3 DEF RxP!Idles, RxP!Gives, RxP!Asks, RxP!BlockKills, RxP!EotRefused,
       RxP!EotTaken, ReceiverRests
  <2>2. \/ UNCHANGED <<rStage, rDataCount>>
        \/ rStage' \in {0, 1}
        \/ rStage \in {2, 3, 4} /\ rStage' \in {4, 5}
    BY <1>3 DEF RxP!Idles, RxP!Gives, RxP!Asks, RxP!BlockKills, RxP!EotRefused,
       RxP!EotTaken, ReceiverRests, RxP!StageNone, RxP!StageEstablishing,
       RxP!StageEstablished, RxP!StageTransmitting, RxP!StageFinishing, RxP!StageFinished
  <2>3. /\ Receiving' => UNCHANGED <<rStage, rDataCount>>
        /\ rStage \in {RxP!StageNone, RxP!StageEstablishing} =>
             rStage' \in {RxP!StageNone, RxP!StageEstablishing}
    BY <2>2 DEF Receiving, RxP!StageNone, RxP!StageEstablishing, RxP!StageEstablished,
                RxP!StageTransmitting
  <2> QED BY <1>0, <2>1, <2>3, UnwrittenKeepsOrder
<1> QED BY <1>1, <1>2, <1>3 DEF ReceiverMoves, RxP!PollEffect

LEMMA CableKeepsOrder ==
  ASSUME OrderInv, ProgramsOK', CableMoves
  PROVE  OrderInv'
<1>1. /\ UNCHANGED rVars /\ Left(Coming', Coming)
      /\ UNCHANGED <<tFileSize, tFileCount>> /\ (Opened' => Opened /\ Item' = Item)
      /\ (Unopened' => Unopened)
  BY DEF CableMoves, tVars, Opened, Unopened, Item
<1>2. Coming' \in Seq(RxP!Unit)
  <2>1. ProgramsOK' => LinkTypeOK'
    BY LinkTypes, PTL
  <2> QED BY <2>1 DEF LinkTypeOK
<1> QED BY <1>1, <1>2, QuietKeepsOrder

LEMMA OrderStep == ProgramsOK /\ OrderInv /\ [Next]_vars => OrderInv'
<1> SUFFICES ASSUME ProgramsOK, OrderInv, [Next]_vars PROVE OrderInv'
  OBVIOUS
<1>1. ProgramsOK'
  BY ProgramsStep
<1> QED BY <1>1, LinkSteps, SenderKeepsOrder, ReceiverKeepsOrder, CableKeepsOrder

\* No byte of the file is written twice or before an earlier one: a block that
\* is sent again is taken for what it is, by its number, however late the
\* answers to it are, and whatever the cable lost or damaged.  The number of a
\* block is one of 256 only; that it is enough rests on the order in which
\* packets come.
THEOREM FileIsReceivedInOrder == Spec => []ReceivedInOrder
<1>1. Init => ProgramsOK /\ OrderInv
  BY ProgramsInit, OrderInit
<1>2. ProgramsOK /\ OrderInv /\ [Next]_vars => ProgramsOK' /\ OrderInv'
  BY ProgramsStep, OrderStep
<1>3. OrderInv => ReceivedInOrder
  BY DEF OrderInv
<1> QED BY <1>1, <1>2, <1>3, PTL DEF Spec

-----------------------------------------------------------------------------
(* The end of the file *)

\* EOT or what follows it is on its way to the receiver, or was there: the
\* receiver is further on than the bytes that it misread brought it.
EndWasThere == \/ rStage = RxP!StageFinishing /\ misread < 1
               \/ rStage = RxP!StageFinished /\ misread < 2
               \/ rStatus = "Finish" /\ misread < 2
EndComes == \/ \E i \in 1 .. Len(Coming) : Rank(Coming[i]) \in {2, 3}
            \/ EndWasThere

\* Then the transmitter has read the file to its end, and sends no block again.
EndInv == /\ misread \in Nat
          /\ EndComes => /\ tFileCount = tFileSize /\ ~Unopened
                         /\ Opened => Rank(Item) >= 2

LEMMA EndInit == Init => EndInv
<1> SUFFICES ASSUME Init PROVE EndInv
  OBVIOUS
<1>1. /\ rCode = "None" /\ toRx = <<>> /\ rStage = 0 /\ rStatus = "Idle"
      /\ misread = 0
  BY DEF Init, Rx!Init, Rx!YmodemInit, Rx!StageNone
<1>2. Coming = <<>>
  BY <1>1 DEF Coming, RxP!Stream
<1> QED BY <1>1, <1>2 DEF EndInv, EndComes, EndWasThere, RxP!StageFinishing,
           RxP!StageFinished

\* What is read as EOT and is no byte of a packet is EOT.
LEMMA EotRead ==
  ASSUME ProgramsOK, RxP!Hears("Eot"), Head(toRx).byte # "Data"
  PROVE  EndComes
<1>0. toRx \in Seq(RxP!Unit) /\ rRxBuffer \in Seq(RxP!Unit)
      /\ rCode \in {"None", "Soh", "Stx"} /\ RxP!PartialPacket
  BY ChannelTypes DEF ProgramsOK, RxP!Inductive, RxP!TypeOK
<1>1. PICK r \in RxP!receivePacket : r.ret = "Eot"
  BY DEF RxP!Hears
<1>2. PICK k \in 0 .. Len(toRx) : RxP!Takes(r, k)
  BY <1>0, RxP!ReadTakes, ProgramAssumption, CodesHere
<1>3. rCode = "None" /\ k > 0 /\ "Eot" \in RxP!Reads(Coming[1])
  BY <1>1, <1>2 DEF RxP!Takes, Coming
<1>4. Coming = toRx /\ 1 \in 1 .. Len(toRx)
  BY <1>0, <1>3 DEF Coming, RxP!Stream
<1>5. Coming[1].byte # "Data"
  BY <1>0, <1>4
<1>6. Rank(Coming[1]) = 2
  BY <1>3, <1>5 DEF RxP!Reads, Rank
<1> QED BY <1>4, <1>6 DEF EndComes

\* It comes when it is written, and does not come from nowhere.
LEMMA EndLonger ==
  ASSUME ProgramsOK, UNCHANGED <<rVars, misread>>, NEW v, Longer(v), EndComes'
  PROVE  EndComes \/ Rank(v) \in {2, 3}
<1>1. CASE \E i \in 1 .. Len(Coming') : Rank(Coming'[i]) \in {2, 3}
  <2>1. PICK i \in 1 .. Len(Coming') : Rank(Coming'[i]) \in {2, 3}
    BY <1>1
  <2>2. Len(Coming) \in Nat
    BY ComingType
  <2>3. \/ i \in 1 .. Len(Coming) /\ Coming'[i] = Coming[i]
        \/ Rank(Coming'[i]) = Rank(v)
    BY <2>2 DEF Longer
  <2> QED BY <2>1, <2>3 DEF EndComes
<1>2. CASE ~ \E i \in 1 .. Len(Coming') : Rank(Coming'[i]) \in {2, 3}
  BY <1>2 DEF EndComes, EndWasThere, rVars, RxP!StageFinishing, RxP!StageFinished
<1> QED BY <1>1, <1>2

LEMMA EndLeft ==
  ASSUME Left(Coming', Coming), EndComes', EndWasThere' => EndWasThere
  PROVE  EndComes
<1>1. CASE \E i \in 1 .. Len(Coming') : Rank(Coming'[i]) \in {2, 3}
  BY <1>1, LeftSame DEF EndComes
<1>2. CASE ~ \E i \in 1 .. Len(Coming') : Rank(Coming'[i]) \in {2, 3}
  BY <1>2 DEF EndComes
<1> QED BY <1>1, <1>2

\* Only a byte that is taken for EOT is counted, whoever moves.
LEMMA StepCounts == [Next]_vars => CountMisread
<1> SUFFICES ASSUME [Next]_vars PROVE CountMisread
  OBVIOUS
<1>1. CASE UNCHANGED <<rVars, misread>>
  BY <1>1 DEF CountMisread, TakesEot, rVars
<1>2. CASE CountMisread
  BY <1>2
<1> QED BY <1>1, <1>2 DEF Next, Sender, Receiver, StartTransmit, StartReceive,
           StopTransmit, StopReceive, TxReadTimeOut, TxWriteTimeOut, RxReadTimeOut,
           RxWriteTimeOut, Fault, Discard, Done, vars

\* Before the end was read no block is the last.
LEMMA SenderKeepsEnd ==
  ASSUME EndInv, ProgramsOK, ProgramsOK', SenderMoves, CountMisread
  PROVE  EndInv'
<1> USE DEF TxP!StageNone, TxP!StageEstablishing, TxP!StageEstablished,
            TxP!StageTransmitting, TxP!StageFinishing, TxP!StageFinished
<1>0. /\ LinkTypeOK /\ LinkTypeOK' /\ (Opened => ItemOK) /\ (Opened' => ItemOK')
      /\ UNCHANGED rVars /\ misread' = misread
  <2>1. (ProgramsOK' => LinkTypeOK') /\ (ProgramsOK' /\ Opened' => ItemOK')
    BY LinkTypes, CurrentItem, PTL
  <2>2. misread' = misread
    BY DEF SenderMoves, rVars, CountMisread, TakesEot
  <2> QED BY <2>1, <2>2, LinkTypes, CurrentItem DEF SenderMoves
<1> SUFFICES ASSUME EndComes'
             PROVE  tFileCount' = tFileSize' /\ ~Unopened' /\ (Opened' => Rank(Item') >= 2)
  BY <1>0 DEF EndInv
<1>1. CASE TxP!Idles \/ SenderRests
  <2>1. Coming' = Coming
    BY <1>0, <1>1 DEF Coming, RxP!Stream, rVars, TxP!Idles, SenderRests
  <2>2. EndComes
    BY <1>0, <2>1 DEF EndComes, EndWasThere, rVars, RxP!StageFinishing,
       RxP!StageFinished
  <2>3. /\ UNCHANGED <<tFileSize, tFileCount>> /\ (Unopened' => Unopened)
        /\ (Opened' => Opened /\ Item' = Item)
    <3>1. CASE TxP!Idles
      BY <3>1 DEF TxP!Idles, Opened, Unopened
    <3>2. CASE SenderRests
      BY <3>2 DEF SenderRests, Opened, Unopened, Item
    <3> QED BY <1>1, <3>1, <3>2
  <2> QED BY <2>2, <2>3 DEF EndInv
<1>2. ASSUME NEW up \in TxP!Terminal, TxP!Gives(up)
      PROVE  tFileCount' = tFileSize' /\ ~Unopened' /\ (Opened' => Rank(Item') >= 2)
  <2> DEFINE v == TxP!Cans[1]
  <2>1. Longer(v) /\ Rank(v) = 4
    BY <1>0, <1>2, CodesAlike, ComingLonger DEF TxP!Gives
  <2>2. ~Opened' /\ ~Unopened' /\ UNCHANGED <<tFileSize, tFileCount>>
    BY <1>2 DEF TxP!Gives, Opened, Unopened
  <2> HIDE DEF v
  <2>3. EndComes
    BY <1>0, <2>1, EndLonger
  <2> QED BY <2>2, <2>3 DEF EndInv
<1>3. CASE TxP!Opens
  <2>1. PICK w : w = tTxBuffer'
    OBVIOUS
  <2>2. Alike(w) /\ TxP!Wrote(w) /\ Rank(w[1]) = 0
    <3>1. tFileSize' \in Nat
      BY <1>0 DEF LinkTypeOK
    <3>2. PICK p : p = TxP!Info(tFileSize')
      OBVIOUS
    <3>3. p \in TxP!Packet /\ p.kind = "Soh" /\ p.what = "info"
      <4>1. \A size \in Nat : TxP!Info(size) \in TxP!Packet
        BY TxP!InfoType, ProgramAssumption, CodesHere
      <4> QED BY <3>1, <3>2, <4>1 DEF TxP!Info
    <3> QED BY <1>3, <2>1, <3>2, <3>3, WireAlike DEF TxP!Opens, TxP!Write, TxP!Wrote
  <2>3. Longer(w[1])
    BY <1>0, <2>2, ComingLonger
  <2>4. Unopened
    BY <1>3 DEF TxP!Opens, Opened, Unopened
  <2>5. EndComes
    BY <1>0, <2>2, <2>3, EndLonger
  <2> QED BY <2>4, <2>5 DEF EndInv
<1>4. CASE TxP!Repeats
  <2>1. Opened /\ Opened' /\ Alike(tTxBuffer) /\ TxP!Wrote(tTxBuffer)
    BY <1>0, <1>4 DEF TxP!Repeats, TxP!Opened, Opened, ItemOK
  <2>2. Longer(Item) /\ Item' = Item /\ ~Unopened' /\ UNCHANGED <<tFileSize, tFileCount>>
    BY <1>0, <1>4, <2>1, ComingLonger DEF Item, TxP!Repeats, Unopened
  <2>3. EndComes \/ Rank(Item) \in {2, 3}
    BY <1>0, <2>2, EndLonger
  <2>4. Rank(Item) >= 2
    BY <2>1, <2>3 DEF EndInv
  <2> QED BY <1>0, <2>1, <2>2, <2>4 DEF ItemOK
<1>5. CASE TxP!NextBlockRead
  <2>1. /\ Opened /\ Opened' /\ ~Unopened' /\ tFileCount # tFileSize
        /\ TxP!Remaining \in Nat
    BY <1>0, <1>5 DEF TxP!NextBlockRead, Opened, Unopened, TxP!Remaining, LinkTypeOK
  <2>2. PICK num \in 0 .. NumMod - 1 :
          tTxBuffer' = TxP!Wire(TxP!Block(num, tFileCount, TxP!Remaining))
    BY <1>5 DEF TxP!NextBlockRead
  <2>3. PICK p : p = TxP!Block(num, tFileCount, TxP!Remaining)
    OBVIOUS
  <2>4. p \in TxP!Packet /\ p.kind \in {"Soh", "Stx"} /\ p.what = "data"
    BY <1>0, <2>1, <2>3, TxP!BlockType, ProgramAssumption, CodesHere
       DEF LinkTypeOK, TxP!Block
  <2>5. PICK w : w = tTxBuffer'
    OBVIOUS
  <2>6. Alike(w) /\ Rank(w[1]) = 1
    BY <2>2, <2>3, <2>4, <2>5, WireAlike
  <2>7. Longer(w[1])
    <3>1. TxP!Wrote(w)
      BY <1>5, <2>5 DEF TxP!NextBlockRead, TxP!Write, TxP!Wrote
    <3> QED BY <1>0, <2>6, <3>1, ComingLonger
  <2>8. EndComes
    BY <1>0, <2>6, <2>7, EndLonger
  <2> QED BY <2>1, <2>8 DEF EndInv
<1>6. CASE TxP!FileEnds \/ TxP!BatchEnds
  <2>1. Opened' /\ ~Unopened'
    BY <1>6 DEF TxP!FileEnds, TxP!BatchEnds, Opened, Unopened
  <2>2. Rank(Item') >= 2
    <3>1. CASE TxP!FileEnds
      BY <3>1, CodesAlike DEF TxP!FileEnds, Item
    <3>2. CASE TxP!BatchEnds
      BY <1>0, <2>1, <3>2 DEF TxP!BatchEnds, ItemOK
    <3> QED BY <1>6, <3>1, <3>2
  <2> QED BY <1>0, <2>1, <2>2 DEF ItemOK
<1> QED BY <1>1, <1>2, <1>3, <1>4, <1>5, <1>6 DEF SenderMoves, TxP!PollEffect

\* Each EOT that the receiver takes was there or is counted.
LEMMA TakenIsCounted ==
  ASSUME misread \in Nat, ProgramsOK, RxP!EotRefused \/ RxP!EotTaken, CountMisread,
         EndWasThere'
  PROVE  EndWasThere \/ EndComes
<1> USE DEF RxP!StageNone, RxP!StageEstablishing, RxP!StageEstablished,
            RxP!StageTransmitting, RxP!StageFinishing, RxP!StageFinished
<1>1. CASE Head(toRx).byte # "Data"
  BY <1>1, EotRead DEF RxP!EotRefused, RxP!EotTaken
<1>2. CASE Head(toRx).byte = "Data"
  <2>1. rStage' # rStage /\ rStage' \in {4, 5} /\ UNCHANGED rStatus
    BY DEF RxP!EotRefused, RxP!EotTaken
  <2>2. misread' = misread + 1
    BY <1>2, <2>1 DEF CountMisread, TakesEot, Rx!StageFinishing, Rx!StageFinished
  <2> QED BY <2>1, <2>2 DEF EndWasThere, RxP!EotRefused, RxP!EotTaken
<1> QED BY <1>1, <1>2

LEMMA OthersKeepEnd ==
  ASSUME EndInv, ProgramsOK, ReceiverMoves \/ CableMoves, CountMisread
  PROVE  EndInv'
<1>1. /\ UNCHANGED <<tFileSize, tFileCount>> /\ (Opened' => Opened /\ Item' = Item)
      /\ (Unopened' => Unopened) /\ Left(Coming', Coming)
  BY DEF ReceiverMoves, CableMoves, tVars, Opened, Unopened, Item
<1>2. misread \in Nat /\ misread' \in Nat /\ misread' >= misread
  BY DEF EndInv, CountMisread
<1> SUFFICES ASSUME EndComes' PROVE EndComes
  BY <1>1, <1>2 DEF EndInv
<1>3. CASE CableMoves
  <2>1. EndWasThere' => EndWasThere
    BY <1>2, <1>3 DEF EndWasThere, CableMoves, rVars, RxP!StageFinishing,
       RxP!StageFinished
  <2> QED BY <1>1, <2>1, EndLeft
<1>4. CASE ReceiverMoves
  <2>1. CASE RxP!EotRefused \/ RxP!EotTaken
    BY <1>1, <1>2, <2>1, TakenIsCounted, EndLeft
  <2>2. CASE \/ RxP!Idles \/ RxP!Asks \/ RxP!HeaderTaken \/ RxP!BlockTaken
             \/ RxP!BlockKills \/ ReceiverRests
             \/ \E up \in RxP!Terminal : RxP!Gives(up)
    <3>1. EndWasThere' => EndWasThere
      <4> USE DEF RxP!StageNone, RxP!StageEstablishing, RxP!StageEstablished,
                  RxP!StageTransmitting, RxP!StageFinishing, RxP!StageFinished
      <4>1. CASE \E up \in RxP!Terminal : RxP!Gives(up)
        BY <1>2, <4>1 DEF EndWasThere, RxP!Gives
      <4>2. CASE RxP!Idles \/ RxP!Asks \/ ReceiverRests
        BY <1>2, <4>2 DEF EndWasThere, RxP!Idles, RxP!Asks, ReceiverRests
      <4>3. CASE RxP!HeaderTaken \/ RxP!BlockTaken \/ RxP!BlockKills
        BY <1>2, <4>3 DEF EndWasThere, RxP!HeaderTaken, RxP!BlockTaken, RxP!BlockKills
      <4> QED BY <2>2, <4>1, <4>2, <4>3
    <3> QED BY <1>1, <3>1, EndLeft
  <2> QED BY <1>4, <2>1, <2>2 DEF ReceiverMoves, RxP!PollEffect
<1> QED BY <1>3, <1>4

LEMMA EndStep ==
  ProgramsOK /\ EndInv /\ [Next]_vars => EndInv'
<1> SUFFICES ASSUME ProgramsOK, EndInv, [Next]_vars
             PROVE  EndInv'
  OBVIOUS
<1>1. CountMisread
  BY StepCounts
<1>2. ProgramsOK'
  BY ProgramsStep
<1> QED BY <1>1, <1>2, LinkSteps, SenderKeepsEnd, OthersKeepEnd

\* Unless two bytes of the file were taken for EOT, the receiver reports success
\* only for a file that the transmitter has read to its end, however late the
\* two are, and whatever is lost or damaged, and as many of the files' bytes look
\* like codes as may be: the header of zeros, or what is taken for it, comes
\* after two EOT, and the transmitter writes none before it has seen the end of
\* the file.
THEOREM EarlyEndNeedsTwo == Spec => []EarlyEndTakesTwoMisreads
<1>1. Init => ProgramsOK /\ EndInv
  BY ProgramsInit, EndInit
<1>2. ProgramsOK /\ EndInv /\ [Next]_vars => ProgramsOK' /\ EndInv'
  BY ProgramsStep, EndStep
<1>3. EndInv => EarlyEndTakesTwoMisreads
  BY DEF EndInv, EndComes, EndWasThere, EarlyEndTakesTwoMisreads
<1> QED BY <1>1, <1>2, <1>3, PTL DEF Spec

-----------------------------------------------------------------------------
(* The size of the file *)

Answers == {"Ack", "Nak", "C", "Can"}

\* Before the receiver has taken a header it has acknowledged nothing, and the
\* transmitter has nothing to send but the header and the cancel codes.
NoHeaderYet ==
  rStatus \notin RxP!Terminal /\ rStage \in {RxP!StageNone, RxP!StageEstablishing} =>
    /\ \A i \in 1 .. Len(toTx) : toTx[i].byte # "Ack"
    /\ \A i \in 1 .. Len(Coming) : Rank(Coming[i]) \in {0, 4}
    /\ Opened => Rank(Item) = 0

\* The receiver knows the size of the file that is sent, and takes no block of
\* an empty one.
SizeKnown  == Receiving => rFileSize = tFileSize
NotEmpty   == rStage = RxP!StageTransmitting => rFileSize # 0
AnswerOnly == \A i \in 1 .. Len(toTx) : toTx[i].byte \in Answers

HeaderInv == NoHeaderYet /\ SizeKnown /\ NotEmpty /\ AnswerOnly /\ ReceiverSurvives

LEMMA HeaderInit == Init => HeaderInv
<1> SUFFICES ASSUME Init PROVE HeaderInv
  OBVIOUS
<1>1. /\ rCode = "None" /\ toRx = <<>> /\ toTx = <<>> /\ rStage = 0 /\ tStage = 0
      /\ crashed = FALSE
  BY DEF Init, Tx!Init, Tx!YmodemInit, Tx!StageNone, Rx!Init, Rx!YmodemInit, Rx!StageNone
<1>2. Coming = <<>> /\ ~Opened
  BY <1>1 DEF Coming, RxP!Stream, Opened, TxP!StageEstablished, TxP!StageFinished
<1> QED BY <1>1, <1>2 DEF HeaderInv, NoHeaderYet, SizeKnown, NotEmpty, AnswerOnly,
        ReceiverSurvives, Receiving, RxP!StageEstablished, RxP!StageTransmitting

\* What the transmitter reads as ACK is one.
LEMMA AckRead ==
  ASSUME ProgramsOK, AnswerOnly, TxP!Hears("Ack")
  PROVE  \E i \in 1 .. Len(toTx) : toTx[i].byte = "Ack"
<1>0. toTx \in Seq(TxP!Unit) /\ Len(toTx) \in Nat
  BY ChannelTypes
<1>1. PICK r \in TxP!receivePacket : r.ret = "Ack"
  BY DEF TxP!Hears
<1>2. PICK k \in 0 .. Len(toTx) : TxP!Takes(r, k)
  BY <1>0, <1>1, TxP!ReadTakes, ProgramAssumption, CodesHere
     DEF ProgramsOK, TxP!Inductive, TxP!TypeOK
<1>3. tCode = "None" /\ k > 0 /\ "Ack" \in TxP!Reads(TxP!Stream[1])
  BY <1>1, <1>2 DEF TxP!Takes
<1>4. TxP!Stream = toTx /\ 1 \in 1 .. Len(toTx)
  BY <1>0, <1>3 DEF TxP!Stream
<1>5. toTx[1].byte = "Ack"
  BY <1>3, <1>4 DEF TxP!Reads, AnswerOnly, Answers
<1> QED BY <1>4, <1>5

\* What the receiver writes.
LEMMA AnswerBytes ==
  ASSUME NEW w \in RxP!Answers \cup {RxP!Cans}
  PROVE  /\ w \in Seq(RxP!Unit)
         /\ \A i \in 1 .. Len(w) : w[i].byte \in Answers
         /\ w \in {RxP!Ctl("C"), RxP!Cans} => \A i \in 1 .. Len(w) : w[i].byte # "Ack"
<1>1. \A c \in {"Ack", "Nak", "C"} :
        /\ RxP!Ctl(c) \in Seq(RxP!Unit) /\ Len(RxP!Ctl(c)) = 1 /\ RxP!Ctl(c)[1].byte = c
  <2>1. {"Ack", "Nak", "C"} \subseteq RxP!Codes
    BY DEF RxP!Codes
  <2>2. \A c \in RxP!Codes : RxP!Ctl(c) \in Seq(RxP!Unit)
    BY RxP!CtlType, ProgramAssumption, CodesHere
  <2> QED BY <2>1, <2>2 DEF RxP!Ctl
<1>2. RxP!Cans \in Seq(RxP!Unit) /\ \A i \in 1 .. Len(RxP!Cans) : RxP!Cans[i].byte = "Can"
  <2>1. RxP!Cans \in Seq(RxP!Unit)
    BY RxP!CansType, ProgramAssumption, CodesHere
  <2> QED BY <2>1, ProgramAssumption DEF RxP!Cans, RxP!Ctl
<1>3. /\ RxP!AckC \in Seq(RxP!Unit) /\ Len(RxP!AckC) = 2
      /\ RxP!AckC[1].byte = "Ack" /\ RxP!AckC[2].byte = "C"
  <2>1. PICK a : a = RxP!Ctl("Ack")
    OBVIOUS
  <2>2. PICK c : c = RxP!Ctl("C")
    OBVIOUS
  <2>3. /\ a \in Seq(RxP!Unit) /\ c \in Seq(RxP!Unit) /\ Len(a) = 1 /\ Len(c) = 1
        /\ a[1].byte = "Ack" /\ c[1].byte = "C"
    BY <1>1, <2>1, <2>2
  <2>4. a \o c \in Seq(RxP!Unit) /\ Len(a \o c) = 2 /\ (a \o c)[1] = a[1] /\ (a \o c)[2] = c[1]
    <3>1. a \in Seq(RxP!Unit) /\ c \in Seq(RxP!Unit)
      BY <2>3
    <3>2. /\ a \o c \in Seq(RxP!Unit) /\ Len(a \o c) = Len(a) + Len(c)
          /\ \A i \in 1 .. Len(a) : (a \o c)[i] = a[i]
          /\ \A i \in 1 .. Len(c) : (a \o c)[Len(a) + i] = c[i]
      BY ONLY <3>1, Appended
    <3>3. 1 \in 1 .. Len(a) /\ 1 \in 1 .. Len(c) /\ Len(a) + 1 = 2 /\ Len(a) + Len(c) = 2
      BY <2>3
    <3> QED BY <3>2, <3>3
  <2> QED BY <2>1, <2>2, <2>3, <2>4 DEF RxP!AckC
<1>4. w \in {RxP!Ctl("C"), RxP!Ctl("Nak"), RxP!Ctl("Ack"), RxP!AckC, RxP!Cans}
  BY DEF RxP!Answers
<1>5. CASE w \in {RxP!Ctl("C"), RxP!Ctl("Nak"), RxP!Ctl("Ack")}
  <2>1. PICK c \in {"Ack", "Nak", "C"} : w = RxP!Ctl(c)
    BY <1>5
  <2>2. w \in Seq(RxP!Unit) /\ \A i \in 1 .. Len(w) : w[i].byte = c
    BY <1>1, <2>1
  <2>3. w \in {RxP!Ctl("C"), RxP!Cans} => \A i \in 1 .. Len(w) : w[i].byte # "Ack"
    <3>1. CASE w = RxP!Ctl("C")
      BY <1>1, <3>1
    <3>2. CASE w = RxP!Cans
      BY <1>2, <3>2
    <3> QED BY <3>1, <3>2
  <2> QED BY <2>2, <2>3 DEF Answers
<1>6. CASE w = RxP!AckC
  <2>1. w # RxP!Ctl("C")
    BY <1>1, <1>3, <1>6
  <2>2. w # RxP!Cans
    <3> SUFFICES ASSUME w = RxP!Cans PROVE FALSE
      OBVIOUS
    <3>0. Len(RxP!AckC) = 2 /\ RxP!AckC[1].byte = "Ack"
      BY <1>3
    <3>1. 1 \in 1 .. Len(w) /\ w[1].byte = "Ack"
      BY ONLY <1>6, <3>0
    <3>2. w[1].byte = "Can"
      BY <1>2, <3>1
    <3> QED BY <3>1, <3>2
  <2>3. \A i \in 1 .. Len(w) : w[i].byte \in {"Ack", "C"}
    BY <1>3, <1>6
  <2> QED BY <1>3, <1>6, <2>1, <2>2, <2>3 DEF Answers
<1>7. CASE w = RxP!Cans
  BY <1>2, <1>7 DEF Answers
<1> QED BY <1>4, <1>5, <1>6, <1>7

LEMMA Answered ==
  ASSUME ProgramsOK, AnswerOnly, NEW w \in RxP!Answers \cup {RxP!Cans}, RxP!Wrote(w)
  PROVE  /\ AnswerOnly'
         /\ (\A i \in 1 .. Len(toTx) : toTx[i].byte # "Ack")
              /\ w \in {RxP!Ctl("C"), RxP!Cans}
            => \A i \in 1 .. Len(toTx') : toTx'[i].byte # "Ack"
<1>1. /\ w \in Seq(RxP!Unit)
      /\ \A i \in 1 .. Len(w) : w[i].byte \in Answers
      /\ w \in {RxP!Ctl("C"), RxP!Cans} => \A i \in 1 .. Len(w) : w[i].byte # "Ack"
  BY AnswerBytes
<1>2. CASE toTx' = toTx
  BY <1>2 DEF AnswerOnly
<1>3. CASE toTx' = toTx \o w
  <2>0. toTx \in Seq(RxP!Unit) /\ w \in Seq(RxP!Unit) /\ Len(toTx) \in Nat
    BY <1>1, ChannelTypes
  <2>1. /\ Len(toTx \o w) = Len(toTx) + Len(w)
        /\ \A i \in 1 .. Len(toTx) : (toTx \o w)[i] = toTx[i]
        /\ \A i \in 1 .. Len(w) : (toTx \o w)[Len(toTx) + i] = w[i]
    BY ONLY <2>0, Appended
  <2>2. ASSUME NEW i \in 1 .. Len(toTx')
        PROVE  \/ \E j \in 1 .. Len(toTx) : toTx'[i] = toTx[j]
               \/ \E j \in 1 .. Len(w) : toTx'[i] = w[j]
    <3>1. CASE i <= Len(toTx)
      <4>1. i \in 1 .. Len(toTx)
        BY <2>0, <3>1
      <4> QED BY <1>3, <2>1, <4>1
    <3>2. CASE ~(i <= Len(toTx))
      <4>1. PICK j : j = i - Len(toTx)
        OBVIOUS
      <4>2. j \in 1 .. Len(w) /\ Len(toTx) + j = i
        BY <1>3, <2>0, <2>1, <3>2, <4>1
      <4> QED BY <1>3, <2>1, <4>2
    <3> QED BY <3>1, <3>2
  <2> QED BY <1>1, <2>2 DEF AnswerOnly
<1> QED BY <1>2, <1>3 DEF RxP!Wrote

\* Only headers and cancel codes are on their way to the receiver.
HeaderOnly == \A i \in 1 .. Len(Coming) : Rank(Coming[i]) \in {0, 4}
NoAck      == \A i \in 1 .. Len(toTx) : toTx[i].byte # "Ack"

LEMMA HeaderLonger ==
  ASSUME ProgramsOK, HeaderOnly, NEW v, Longer(v), Rank(v) \in {0, 4}
  PROVE  HeaderOnly'
<1> SUFFICES ASSUME NEW i \in 1 .. Len(Coming') PROVE Rank(Coming'[i]) \in {0, 4}
  BY DEF HeaderOnly
<1>1. Len(Coming) \in Nat
  BY ComingType
<1>2. \/ i \in 1 .. Len(Coming) /\ Coming'[i] = Coming[i]
      \/ Rank(Coming'[i]) = Rank(v)
  BY <1>1 DEF Longer
<1> QED BY <1>2 DEF HeaderOnly

LEMMA HeaderLeft ==
  /\ HeaderOnly /\ Left(Coming', Coming) => HeaderOnly'
  /\ NoAck /\ Left(toTx', toTx) => NoAck'
  /\ AnswerOnly /\ Left(toTx', toTx) => AnswerOnly'
<1>1. ASSUME HeaderOnly, Left(Coming', Coming) PROVE HeaderOnly'
  <2> SUFFICES ASSUME NEW i \in 1 .. Len(Coming') PROVE Rank(Coming'[i]) \in {0, 4}
    BY DEF HeaderOnly
  <2>1. PICK j \in 1 .. Len(Coming) : Rank(Coming'[i]) = Rank(Coming[j])
    BY <1>1, LeftSame
  <2> QED BY <1>1, <2>1 DEF HeaderOnly
<1>2. ASSUME Left(toTx', toTx), NEW i \in 1 .. Len(toTx')
      PROVE  \E j \in 1 .. Len(toTx) : toTx'[i].byte = toTx[j].byte
  BY <1>2, LeftSame
<1> QED BY <1>1, <1>2 DEF NoAck, AnswerOnly

\* A step of the transmitter.
LEMMA SenderKeepsHeader ==
  ASSUME OrderInv, HeaderInv, ProgramsOK, ProgramsOK', SenderMoves
  PROVE  HeaderInv'
<1> USE DEF TxP!StageNone, TxP!StageEstablishing, TxP!StageEstablished,
            TxP!StageTransmitting, TxP!StageFinishing, TxP!StageFinished
<1>0. /\ LinkTypeOK' /\ (Opened => ItemOK) /\ UNCHANGED rVars /\ Left(toTx', toTx)
  <2>1. ProgramsOK' => LinkTypeOK'
    BY LinkTypes, PTL
  <2> QED BY <2>1, CurrentItem DEF SenderMoves
<1>1. AnswerOnly' /\ NotEmpty' /\ ReceiverSurvives' /\ (NoAck => NoAck')
  BY <1>0, HeaderLeft DEF HeaderInv, NotEmpty, ReceiverSurvives, rVars,
     RxP!StageTransmitting
<1>2. TxP!Opens => Unopened
  BY DEF TxP!Opens, Opened, Unopened
<1>3. SizeKnown'
  <2>1. CASE TxP!Opens
    BY <1>0, <1>2, <2>1 DEF OrderInv, NothingYet, SizeKnown, Receiving, rVars,
       RxP!StageNone, RxP!StageEstablishing, RxP!StageEstablished, RxP!StageTransmitting
  <2>2. CASE ~TxP!Opens
    <3>1. UNCHANGED tFileSize
      BY <2>2 DEF SenderMoves, SenderRests, TxP!PollEffect, TxP!Idles, TxP!Gives,
         TxP!Repeats, TxP!NextBlockRead, TxP!ReadBlock, TxP!FileEnds, TxP!BatchEnds
    <3> QED BY <1>0, <3>1 DEF HeaderInv, SizeKnown, Receiving, rVars,
               RxP!StageEstablished, RxP!StageTransmitting
  <2> QED BY <2>1, <2>2
<1>4. NoHeaderYet'
  <2> SUFFICES ASSUME rStatus \notin RxP!Terminal,
                      rStage \in {RxP!StageNone, RxP!StageEstablishing}
               PROVE  HeaderOnly' /\ (Opened' => Rank(Item') = 0)
    <3>1. NoHeaderYet => NoAck \/ ~(/\ rStatus \notin RxP!Terminal
                                   /\ rStage \in {RxP!StageNone, RxP!StageEstablishing})
      BY DEF NoHeaderYet, NoAck
    <3> QED BY <1>0, <1>1, <3>1 DEF HeaderInv, NoHeaderYet, NoAck, HeaderOnly, rVars,
               RxP!Terminal, RxP!StageNone, RxP!StageEstablishing
  <2>1. NoAck /\ HeaderOnly /\ (Opened => Rank(Item) = 0)
    BY DEF HeaderInv, NoHeaderYet, NoAck, HeaderOnly
  <2>2. CASE TxP!Idles \/ SenderRests
    <3>1. Coming' = Coming
      BY <1>0, <2>2 DEF Coming, RxP!Stream, rVars, TxP!Idles, SenderRests
    <3>2. Opened' => Opened /\ Item' = Item
      <4>1. TxP!Idles => ~Opened'
        BY DEF TxP!Idles, Opened
      <4>2. SenderRests => (Opened' => Opened /\ Item' = Item)
        BY DEF SenderRests, Opened, Item
      <4> QED BY <2>2, <4>1, <4>2
    <3> QED BY <2>1, <3>1, <3>2 DEF HeaderOnly
  <2>3. ASSUME NEW up \in TxP!Terminal, TxP!Gives(up)
        PROVE  HeaderOnly' /\ (Opened' => Rank(Item') = 0)
    <3>1. Longer(TxP!Cans[1]) /\ Rank(TxP!Cans[1]) = 4
      BY <1>0, <2>3, CodesAlike, ComingLonger DEF TxP!Gives
    <3>2. ~Opened'
      BY <2>3 DEF TxP!Gives, Opened
    <3> QED BY <2>1, <3>1, <3>2, HeaderLonger
  <2>4. CASE TxP!Opens
    <3>1. PICK w : w = tTxBuffer'
      OBVIOUS
    <3>2. tFileSize' \in Nat
      BY <1>0 DEF LinkTypeOK
    <3>3. PICK p : p = TxP!Info(tFileSize')
      OBVIOUS
    <3>4. p \in TxP!Packet /\ p.kind = "Soh" /\ p.what = "info"
      <4>1. \A size \in Nat : TxP!Info(size) \in TxP!Packet
        BY TxP!InfoType, ProgramAssumption, CodesHere
      <4> QED BY <3>2, <3>3, <4>1 DEF TxP!Info
    <3>5. Alike(w) /\ TxP!Wrote(w) /\ Rank(w[1]) = 0
      BY <2>4, <3>1, <3>3, <3>4, WireAlike DEF TxP!Opens, TxP!Write, TxP!Wrote
    <3>6. Longer(w[1])
      BY <1>0, <3>5, ComingLonger
    <3>7. Rank(Item') = 0
      BY <3>1, <3>5 DEF Item
    <3> QED BY <2>1, <3>5, <3>6, <3>7, HeaderLonger
  <2>5. CASE TxP!Repeats
    <3>1. Opened /\ Alike(tTxBuffer) /\ TxP!Wrote(tTxBuffer)
      BY <1>0, <2>5 DEF TxP!Repeats, TxP!Opened, Opened, ItemOK
    <3>2. Longer(Item) /\ Item' = Item
      BY <1>0, <2>5, <3>1, ComingLonger DEF Item, TxP!Repeats
    <3> QED BY <2>1, <3>1, <3>2, HeaderLonger
  <2>6. CASE TxP!NextBlockRead \/ TxP!FileEnds
    <3>1. TxP!Hears("Ack")
      BY <2>6 DEF TxP!NextBlockRead, TxP!FileEnds
    <3>2. \E i \in 1 .. Len(toTx) : toTx[i].byte = "Ack"
      BY <3>1, AckRead DEF HeaderInv
    <3> QED BY <2>1, <3>2 DEF NoAck
  <2>7. CASE TxP!BatchEnds
    <3>1. Opened /\ Rank(Item) = 2
      BY <1>0, <2>7 DEF TxP!BatchEnds, Opened, ItemOK
    <3> QED BY <2>1, <3>1
  <2> QED BY <2>2, <2>3, <2>4, <2>5, <2>6, <2>7 DEF SenderMoves, TxP!PollEffect
<1> QED BY <1>1, <1>3, <1>4 DEF HeaderInv

\* What is left of the answers, and an answer that was written.
LEMMA AnswersKept ==
  ASSUME ProgramsOK, AnswerOnly,
         \/ toTx' = toTx
         \/ \E w \in RxP!Answers \cup {RxP!Cans} : RxP!Wrote(w)
  PROVE  AnswerOnly'
BY Answered DEF AnswerOnly

\* No packet of an empty file has a number that is due.
LEMMA EmptyFileHasNoBlock ==
  ASSUME OrderInv, HeaderInv, ProgramsOK, NEW r \in RxP!receivePacket, RxP!Due(r)
  PROVE  rFileSize # 0
<1> USE DEF RxP!StageEstablished, RxP!StageTransmitting
<1>1. CASE rStage = RxP!StageTransmitting
  BY <1>1 DEF HeaderInv, NotEmpty
<1>2. CASE rStage = RxP!StageEstablished
  <2>1. r.pkt.kind # "None" /\ r.pkt.num = 1
    BY <1>2 DEF RxP!Due
  <2>2. /\ 1 \in 1 .. Len(Coming) /\ Coming[1] \in RxP!Unit /\ r.pkt = Coming[1].pkt
        /\ Rank(Coming[1]) = IF r.pkt.what = "info" THEN 0
                             ELSE IF r.pkt.what = "data" THEN 1 ELSE 3
    BY <2>1, PacketRead
  <2>3. Genuine(Coming[1])
    BY <2>2 DEF OrderInv, ComingGenuine
  <2>4. r.pkt.from \in Nat /\ r.pkt.n \in Nat
    BY <2>2, UnitParts
  <2>5. r.pkt.what # "info"
    BY <2>1, <2>2, <2>3 DEF Genuine, TxP!Info
  <2>6. r.pkt.what = "data" /\ r.pkt.from + r.pkt.n <= tFileCount /\ r.pkt.n # 0
    BY <2>1, <2>2, <2>3, <2>5 DEF Genuine
  <2>7. tFileCount \in Nat /\ tFileSize \in Nat /\ tFileCount <= tFileSize
    BY LinkTypes DEF LinkTypeOK
  <2>8. rFileSize = tFileSize
    BY <1>2 DEF HeaderInv, SizeKnown, Receiving
  <2> QED BY <2>4, <2>6, <2>7, <2>8
<1> QED BY <1>1, <1>2 DEF RxP!Due

\* The first header that is taken is the transmitter's.
LEMMA HeaderNamesSize ==
  ASSUME OrderInv, HeaderInv, ProgramsOK, RxP!HeaderTaken
  PROVE  rFileSize' = tFileSize
<1>1. /\ rStage = RxP!StageEstablishing /\ rStatus \notin RxP!Terminal
  BY DEF RxP!HeaderTaken
<1>2. PICK r \in RxP!receivePacket :
        r.pkt.kind = "Soh" /\ rFileSize' \in RxP!Announced(r.pkt)
  BY DEF RxP!HeaderTaken
<1>3. /\ 1 \in 1 .. Len(Coming) /\ r.pkt = Coming[1].pkt
      /\ Rank(Coming[1]) = IF r.pkt.what = "info" THEN 0
                           ELSE IF r.pkt.what = "data" THEN 1 ELSE 3
  BY <1>2, PacketRead
<1>4. Rank(Coming[1]) \in {0, 4} /\ Genuine(Coming[1])
  BY <1>1, <1>3 DEF HeaderInv, NoHeaderYet, OrderInv, ComingGenuine
<1>5. r.pkt = TxP!Info(tFileSize)
  BY <1>3, <1>4 DEF Genuine
<1> QED BY <1>2, <1>5 DEF RxP!Announced, TxP!Info

\* A step of the receiver.
LEMMA ReceiverKeepsHeader ==
  ASSUME OrderInv, HeaderInv, ProgramsOK, ReceiverMoves
  PROVE  HeaderInv'
<1> USE DEF RxP!StageNone, RxP!StageEstablishing, RxP!StageEstablished,
            RxP!StageTransmitting, RxP!StageFinishing, RxP!StageFinished
<1>0. UNCHANGED tVars /\ Left(Coming', Coming)
  BY DEF ReceiverMoves
<1>1. AnswerOnly'
  <2>1. \/ toTx' = toTx
        \/ \E w \in RxP!Answers \cup {RxP!Cans} : RxP!Wrote(w)
    BY DEF ReceiverMoves, ReceiverRests, RxP!PollEffect, RxP!Idles, RxP!Gives, RxP!Asks,
       RxP!Suits, RxP!HeaderTaken, RxP!BlockTaken, RxP!BlockKills, RxP!EotRefused,
       RxP!EotTaken, RxP!Answers
  <2> QED BY <2>1, AnswersKept DEF HeaderInv
<1>2. ~RxP!BlockKills
  BY EmptyFileHasNoBlock DEF RxP!BlockKills
<1>3. ReceiverSurvives'
  BY <1>2 DEF HeaderInv, ReceiverSurvives, ReceiverMoves, ReceiverRests, RxP!PollEffect,
     RxP!Idles, RxP!Gives, RxP!Asks, RxP!HeaderTaken, RxP!BlockTaken, RxP!EotRefused,
     RxP!EotTaken
<1>4. SizeKnown' /\ NotEmpty'
  <2>1. tFileSize' = tFileSize
    BY <1>0 DEF tVars
  <2>2. CASE RxP!HeaderTaken
    BY <2>1, <2>2, HeaderNamesSize DEF RxP!HeaderTaken, SizeKnown, NotEmpty
  <2>3. CASE RxP!BlockTaken
    <3>1. Receiving
      BY <2>3 DEF RxP!BlockTaken, RxP!Due, Receiving
    <3> QED BY <2>1, <2>3, <3>1 DEF RxP!BlockTaken, HeaderInv, SizeKnown, NotEmpty
  <2>4. CASE RxP!Asks \/ ReceiverRests
    BY <2>1, <2>4 DEF RxP!Asks, ReceiverRests, HeaderInv, SizeKnown, NotEmpty, Receiving
  <2>5. CASE RxP!Idles \/ RxP!EotRefused \/ RxP!EotTaken
             \/ \E up \in RxP!Terminal : RxP!Gives(up)
    BY <2>5 DEF RxP!Idles, RxP!EotRefused, RxP!EotTaken, RxP!Gives, SizeKnown, NotEmpty,
       Receiving
  <2> QED BY <1>2, <2>2, <2>3, <2>4, <2>5 DEF ReceiverMoves, RxP!PollEffect
<1>5. NoHeaderYet'
  <2> SUFFICES ASSUME rStatus' \notin RxP!Terminal, rStage' \in {0, 1}
               PROVE  NoAck' /\ HeaderOnly' /\ (Opened' => Rank(Item') = 0)
    BY DEF NoHeaderYet, NoAck, HeaderOnly
  <2>1. \/ RxP!Idles \/ (RxP!Asks /\ rStage = RxP!StageEstablishing)
        \/ (ReceiverRests /\ rStage \in {0, 1})
    <3>1. ~ \E up \in RxP!Terminal : RxP!Gives(up)
      BY DEF RxP!Gives
    <3>2. ~RxP!HeaderTaken /\ ~RxP!BlockTaken /\ ~RxP!EotRefused /\ ~RxP!EotTaken
      BY DEF RxP!HeaderTaken, RxP!BlockTaken, RxP!EotRefused, RxP!EotTaken
    <3>3. RxP!Asks => rStage = RxP!StageEstablishing
      BY DEF RxP!Asks
    <3>4. ReceiverRests => rStage \in {0, 1}
      BY DEF ReceiverRests
    <3> QED BY <1>2, <3>1, <3>2, <3>3, <3>4 DEF ReceiverMoves, RxP!PollEffect
  <2>2. rStatus \notin RxP!Terminal /\ rStage \in {0, 1}
    BY <2>1 DEF RxP!Idles, RxP!Asks, ReceiverRests
  <2>3. NoAck /\ HeaderOnly /\ (Opened => Rank(Item) = 0)
    BY <2>2 DEF HeaderInv, NoHeaderYet, NoAck, HeaderOnly
  <2>4. NoAck'
    <3>1. CASE ReceiverRests
      BY <2>3, <3>1 DEF ReceiverRests, NoAck
    <3>2. CASE RxP!Idles \/ (RxP!Asks /\ rStage = RxP!StageEstablishing)
      <4>1. RxP!Wrote(RxP!Ctl("C"))
        BY <3>2 DEF RxP!Idles, RxP!Asks, RxP!Suits
      <4>2. RxP!Ctl("C") \in RxP!Answers \cup {RxP!Cans}
        BY DEF RxP!Answers
      <4>3. PICK w \in RxP!Answers \cup {RxP!Cans} : w = RxP!Ctl("C") /\ RxP!Wrote(w)
        BY <4>1, <4>2
      <4>4. \A i \in 1 .. Len(toTx) : toTx[i].byte # "Ack"
        BY <2>3 DEF NoAck
      <4>5. \A i \in 1 .. Len(toTx') : toTx'[i].byte # "Ack"
        BY <4>3, <4>4, Answered DEF HeaderInv
      <4> QED BY <4>5 DEF NoAck
    <3> QED BY <2>1, <3>1, <3>2
  <2>5. HeaderOnly'
    BY <1>0, <2>3, HeaderLeft
  <2>6. Opened' => Rank(Item') = 0
    <3>1. Opened' => Opened /\ Item' = Item
      BY <1>0 DEF tVars, Opened, Item
    <3> QED BY <2>3, <3>1
  <2> QED BY <2>4, <2>5, <2>6
<1> QED BY <1>1, <1>3, <1>4, <1>5 DEF HeaderInv

LEMMA CableKeepsHeader ==
  ASSUME HeaderInv, CableMoves
  PROVE  HeaderInv'
<1>1. AnswerOnly' /\ (NoAck => NoAck') /\ (HeaderOnly => HeaderOnly')
  BY HeaderLeft DEF CableMoves, HeaderInv
<1>2. /\ UNCHANGED <<rStage, rStatus, rFileSize, tFileSize, crashed>>
      /\ (Opened' => Opened /\ Item' = Item)
  BY DEF CableMoves, tVars, rVars, Opened, Item
<1>3. SizeKnown' /\ NotEmpty' /\ ReceiverSurvives'
  BY <1>2 DEF HeaderInv, SizeKnown, Receiving, NotEmpty, ReceiverSurvives,
     RxP!StageEstablished, RxP!StageTransmitting
<1>4. NoHeaderYet'
  <2> SUFFICES ASSUME rStatus \notin RxP!Terminal,
                      rStage \in {RxP!StageNone, RxP!StageEstablishing}
               PROVE  NoAck' /\ HeaderOnly' /\ (Opened' => Rank(Item') = 0)
    BY <1>2 DEF NoHeaderYet, NoAck, HeaderOnly, RxP!Terminal, RxP!StageNone,
       RxP!StageEstablishing
  <2>1. NoAck /\ HeaderOnly /\ (Opened => Rank(Item) = 0)
    BY DEF HeaderInv, NoHeaderYet, NoAck, HeaderOnly
  <2>2. Opened' => Rank(Item') = 0
    BY <1>2, <2>1
  <2> QED BY <1>1, <2>1, <2>2
<1> QED BY <1>1, <1>3, <1>4 DEF HeaderInv

LEMMA HeaderStep == ProgramsOK /\ OrderInv /\ HeaderInv /\ [Next]_vars => HeaderInv'
<1> SUFFICES ASSUME ProgramsOK, OrderInv, HeaderInv, [Next]_vars PROVE HeaderInv'
  OBVIOUS
<1>1. ProgramsOK'
  BY ProgramsStep
<1> QED BY <1>1, LinkSteps, SenderKeepsHeader, ReceiverKeepsHeader, CableKeepsHeader

\* The program's own transmitter never makes the receiver divide by the size of
\* an empty file: the header that the receiver takes is the one of the file that
\* is sent, and a packet that it then takes for a block carries some of that
\* file, so that the size is not 0.
THEOREM ReceiverIsNotKilled == Spec => []ReceiverSurvives
<1>1. Init => ProgramsOK /\ OrderInv /\ HeaderInv
  BY ProgramsInit, OrderInit, HeaderInit
<1>2. ProgramsOK /\ OrderInv /\ HeaderInv /\ [Next]_vars
        => ProgramsOK' /\ OrderInv' /\ HeaderInv'
  BY ProgramsStep, OrderStep, HeaderStep
<1>3. HeaderInv => ReceiverSurvives
  BY DEF HeaderInv
<1> QED BY <1>1, <1>2, <1>3, PTL DEF Spec

=============================================================================
