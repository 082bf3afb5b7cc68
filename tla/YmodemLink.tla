----------------------------- MODULE YmodemLink -----------------------------
(***************************************************************************)
(* Two copies of the program joined by a serial cable: YmodemFileTransmit  *)
(* in one, YmodemFileReceive in the other, one session on each side.       *)
(*                                                                         *)
(* What one side writes is what the other side will read.  How late it     *)
(* arrives is open (receivePacket in Ymodem.tla), so both retransmission   *)
(* clocks may run out before an answer that is on its way; the cable may   *)
(* also lose or damage up to MaxFaults units.                              *)
(***************************************************************************)
EXTENDS Integers, Sequences, FiniteSets

CONSTANTS
  TimeDivide, TimeMax, ErrorMax, PacketSize, Packet1kSize, CanNumber, NumMod,
  SohUnits, StxUnits, StrayCodes, FileSizes, OutMax, DiskSize,
  MaxFaults,   \* bound: units lost or damaged in a behaviour
  Cancel       \* may the users click cancel?

ASSUME FaultAssumption == MaxFaults \in Nat /\ Cancel \in BOOLEAN

VARIABLES
  \* the sending program
  tTimeCount, tErrorCount, tDataCount, tCode, tStage, tRxBuffer, tTxBuffer,
  tStatus, tReadTimer, tWriteTimer, tPortOpen, tFileOpen, tButton,
  tFileSize, tFileCount,
  \* the receiving program
  rTimeCount, rErrorCount, rDataCount, rCode, rStage, rRxBuffer, rTxBuffer,
  rStatus, rReadTimer, rWriteTimer, rPortOpen, rFileOpen, rButton,
  rFileSize, rFileCount, received, crashed,
  \* the cable
  toRx, toTx, faults,
  \* history: how many bytes of packets that were read out of frame
  \* (Ymodem.cpp:252) the receiver has taken for EOT
  misread

Tx == INSTANCE YmodemFileTransmit WITH
  Heard <- {}, InMax <- 0,
  timeCount <- tTimeCount, errorCount <- tErrorCount, dataCount <- tDataCount,
  code <- tCode, stage <- tStage, rxBuffer <- tRxBuffer, txBuffer <- tTxBuffer,
  status <- tStatus, readTimer <- tReadTimer, writeTimer <- tWriteTimer,
  portOpen <- tPortOpen, fileOpen <- tFileOpen, button <- tButton,
  fileSize <- tFileSize, fileCount <- tFileCount, in <- toTx, out <- toRx

Rx == INSTANCE YmodemFileReceive WITH
  Heard <- {}, InMax <- 0,
  timeCount <- rTimeCount, errorCount <- rErrorCount, dataCount <- rDataCount,
  code <- rCode, stage <- rStage, rxBuffer <- rRxBuffer, txBuffer <- rTxBuffer,
  status <- rStatus, readTimer <- rReadTimer, writeTimer <- rWriteTimer,
  portOpen <- rPortOpen, fileOpen <- rFileOpen, button <- rButton,
  fileSize <- rFileSize, fileCount <- rFileCount, in <- toRx, out <- toTx

\* What Ymodem and YmodemFileReceive assume of the constants, for both programs.
ASSUME ProgramAssumption ==
  /\ TimeDivide \in Nat /\ TimeMax \in Nat /\ ErrorMax \in Nat
  /\ PacketSize \in Nat \ {0} /\ Packet1kSize \in Nat /\ Packet1kSize > PacketSize
  /\ CanNumber \in Nat \ {0} /\ NumMod \in Nat /\ NumMod > 2
  /\ SohUnits \in Nat \ {0} /\ StxUnits \in Nat \ {0}
  /\ StrayCodes \subseteq Tx!Codes /\ StrayCodes # {} /\ FileSizes \subseteq Nat
  /\ DiskSize \in Nat

tVars == <<tTimeCount, tErrorCount, tDataCount, tCode, tStage, tRxBuffer,
           tTxBuffer, tStatus, tReadTimer, tWriteTimer, tPortOpen, tFileOpen,
           tButton, tFileSize, tFileCount>>
rVars == <<rTimeCount, rErrorCount, rDataCount, rCode, rStage, rRxBuffer,
           rTxBuffer, rStatus, rReadTimer, rWriteTimer, rPortOpen, rFileOpen,
           rButton, rFileSize, rFileCount, received, crashed>>
vars == <<tVars, rVars, toRx, toTx, faults, misread>>

-----------------------------------------------------------------------------
Init == Tx!Init /\ Rx!Init /\ faults = 0 /\ misread = 0

\* The receiver takes an EOT: it moves on to the next stage of the end.  What
\* it read is the first unit that was on its way.
TakesEot == rStage' # rStage /\ rStage' \in {Rx!StageFinishing, Rx!StageFinished}
CountMisread ==
  misread' = IF TakesEot /\ Head(toRx).byte = "Data" THEN misread + 1 ELSE misread

\* A step of one program leaves the other's variables alone.
Sender(A)   == A /\ UNCHANGED <<rVars, faults, misread>>
Receiver(A) == A /\ CountMisread /\ UNCHANGED <<tVars, faults>>

StartTransmit == tStatus \notin Tx!Terminal /\ Sender(Tx!startTransmit)
StartReceive  == rStatus \notin Rx!Terminal /\ Receiver(Rx!startReceive)
StopTransmit   == Cancel /\ Sender(Tx!stopTransmit)
StopReceive    == Cancel /\ Receiver(Rx!stopReceive)
TxReadTimeOut  == Sender(Tx!ReadTimeOut)
TxWriteTimeOut == Sender(Tx!writeTimeOut)
RxReadTimeOut  == Receiver(Rx!ReadTimeOut)
RxWriteTimeOut == Receiver(Rx!writeTimeOut)

(* The cable *)

Without(s, i) == SubSeq(s, 1, i - 1) \o SubSeq(s, i + 1, Len(s))
Damaged(s, i) == [s EXCEPT ![i].part = 0]

Spoil(chan) ==
  \E i \in 1 .. Len(chan) :
    \/ chan' = Without(chan, i)
    \/ chan[i].part # 0 /\ chan' = Damaged(chan, i)

Fault == /\ faults < MaxFaults
         /\ faults' = faults + 1
         /\ \/ Spoil(toRx) /\ UNCHANGED toTx
            \/ Spoil(toTx) /\ UNCHANGED toRx
         /\ UNCHANGED <<tVars, rVars, misread>>

\* What arrives at a closed port is gone.
Discard == /\ \/ ~rPortOpen /\ toRx # <<>> /\ toRx' = <<>> /\ UNCHANGED toTx
              \/ ~tPortOpen /\ toTx # <<>> /\ toTx' = <<>> /\ UNCHANGED toRx
           /\ UNCHANGED <<tVars, rVars, faults, misread>>

Over == tStatus \in Tx!Terminal /\ ~tButton /\ rStatus \in Rx!Terminal /\ ~rButton
        /\ toTx = <<>> /\ toRx = <<>>
Done == Over /\ UNCHANGED vars

Next == \/ StartTransmit \/ StartReceive \/ StopTransmit \/ StopReceive
        \/ TxReadTimeOut \/ TxWriteTimeOut \/ RxReadTimeOut \/ RxWriteTimeOut
        \/ Fault \/ Discard \/ Done

Spec == Init /\ [][Next]_vars

Fairness == /\ WF_vars(TxReadTimeOut) /\ WF_vars(TxWriteTimeOut)
            /\ WF_vars(RxReadTimeOut) /\ WF_vars(RxWriteTimeOut)
            /\ WF_vars(Discard)
FairSpec == Spec /\ Fairness

-----------------------------------------------------------------------------
(* Properties *)

WholeFile == [i \in 1 .. tFileSize |-> i]

\* The receiving program keeps the promise of FileTransfer.
Promise == INSTANCE FileTransfer WITH
  size <- tFileSize, delivered <- received,
  outcome <- CASE rStatus = "Finish" -> "Received"
               [] rStatus \in {"Abort", "Timeout", "Error"} -> "Failed"
               [] OTHER -> "Open"
ReliableTransfer == Promise!Spec

\* The program's own transmitter never sends a data packet of an empty file,
\* on which fileCount * 100 / fileSize (YmodemFileReceive.cpp:179) would kill
\* the receiver.
ReceiverSurvives == ~crashed

\* No byte of the file is written twice or before an earlier one, whatever is
\* sent again, lost or damaged.
ReceivedInOrder ==
  \A i, j \in 1 .. Len(received) :
    i < j /\ received[i] # 0 /\ received[j] # 0 => received[i] < received[j]

\* "File Received Successfully." (ymodem_ui.cpp:344): the file is all there.
ReceivedMeansComplete == rStatus = "Finish" => received = WholeFile

\* It takes two bytes that look like EOT to report success for a file that the
\* transmitter has not read to its end.  Any byte of a firmware may have that
\* value; one is refused, and what is sent again on the refusal is no EOT
\* (receiveStageEstablished, receiveStageTransmitting, receiveStageFinishing).
EarlyEndTakesTwoMisreads ==
  rStatus = "Finish" => tFileCount = tFileSize \/ misread >= 2

\* "Firmware Update Successful." (ymodem_ui.cpp:215): when the receiver's
\* session is over as well it ended in success, with the whole file.
SentMeansComplete ==
  tStatus = "Finish" /\ rStatus \in Rx!Terminal
    => rStatus = "Finish" /\ received = WholeFile

\* No session lasts for ever on either side, whatever the cable does.
BothSessionsEnd == (tButton ~> ~tButton) /\ (rButton ~> ~rButton)

\* With a cable that answers within a period of the retransmission clock, a
\* header that was accepted is followed by the whole file, and both ends
\* report success.
Prompt == tTimeCount <= TimeDivide /\ rTimeCount <= TimeDivide
Delivered == /\ tStatus = "Finish" /\ rStatus = "Finish" /\ received = WholeFile
             /\ ~tButton /\ ~rButton
PromptCableDelivers == []Prompt => (rStage = Rx!StageEstablished ~> Delivered)
=============================================================================
