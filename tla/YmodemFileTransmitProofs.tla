----------------------- MODULE YmodemFileTransmitProofs ----------------------
(***************************************************************************)
(* Proofs about the sending side, for every value of the constants and for *)
(* every peer.                                                             *)
(***************************************************************************)
EXTENDS YmodemFileTransmit, YmodemProofs

(* Packets of the transmitter *)

\* What the transmitter puts on the wire are packets.
LEMMA InfoType == \A size \in Nat : Info(size) \in Packet
BY NumberAssumption DEF Info, Packet

\* The header without a name that ends the batch is a packet.
LEMMA ZeroHeaderType == ZeroHeader \in Packet
BY NumberAssumption DEF ZeroHeader, Packet

\* A block holds what is left of the file or less of it, but not nothing.
LEMMA BlockReadType ==
  \A left \in Nat : BlockRead(left) \in 0 .. left
BY SizeAssumption DEF BlockRead, BlockSize

\* A block of the file is a packet, whatever its number and its place.
LEMMA BlockType ==
  \A num \in 0 .. NumMod - 1, from, left \in Nat : Block(num, from, left) \in Packet
<1> SUFFICES ASSUME NEW num \in 0 .. NumMod - 1, NEW from \in Nat, NEW left \in Nat
             PROVE  Block(num, from, left) \in Packet
  OBVIOUS
<1>1. BlockRead(left) \in Nat
  BY BlockReadType
<1> QED BY <1>1 DEF Block, Packet

\* dataCount + 1 wraps to a packet number again.
LEMMA NextNumType == \A d \in 0 .. NumMod - 1 : NextNum(d) \in 0 .. NumMod - 1
BY NumberAssumption DEF NextNum

-----------------------------------------------------------------------------
(* The steps of readTimeOut().  Every lemma of this part is about one kind   *)
(* of step; ReadTimeOutOK puts them together.                                *)

\* When the timer fires in a stage that reads, the session is going on.
LEMMA RunningHere ==
  ASSUME Inductive, readTimer, stage # StageNone
  PROVE  status \in Running /\ ~writeTimer /\ button /\ portOpen
<1> USE DEF Inductive, TypeOK
<1>1. button /\ portOpen
  BY DEF SessionOwnsResources
<1>2. status \notin Terminal
  BY DEF OutcomePending
<1> QED BY <1>1, <1>2 DEF OutcomePending

\* What readTimeOut() does around a stage function.
Around(r) == Poll(r) /\ Rearm /\ UNCHANGED <<portOpen, button>>

\* Whatever is sent is units.
LEMMA WriteType ==
  ASSUME TypeOK, NEW u \in Seq(Unit)
  PROVE  /\ Send(u) => txBuffer' \in Seq(Unit) /\ out' \in Seq(Unit)
         /\ Resend => txBuffer' \in Seq(Unit) /\ out' \in Seq(Unit)
         /\ Quiet => txBuffer' \in Seq(Unit) /\ out' \in Seq(Unit)
<1>1. out \in Seq(Unit) /\ txBuffer \in Seq(Unit)
  BY DEF TypeOK
<1>2. out \o u \in Seq(Unit) /\ out \o txBuffer \in Seq(Unit)
  BY <1>1
<1> QED BY <1>1, <1>2 DEF Send, Resend, Quiet, Write

\* A step that ends the session.
Ends == /\ Reset(StageNone, 0)
        /\ txBuffer' \in Seq(Unit) /\ out' \in Seq(Unit)
        /\ status' \in Terminal \ {"Finish"}
        /\ writeTimer' = TRUE /\ fileOpen' = FALSE
        /\ KeepFile

\* A step that ends the session preserves the invariant.
LEMMA EndsOK ==
  ASSUME Inductive, readTimer, stage # StageNone, NEW r, ReadOK(r), Around(r), Ends
  PROVE  Inductive'
<1> USE DEF Inductive, Ends, Reset, Around, Rearm, StageNone, StageEstablishing,
            StageEstablished, StageTransmitting, StageFinishing, StageFinished
<1>0. button /\ portOpen
  BY RunningHere
<1>1. r.rest \in Seq(Unit) /\ rxBuffer' = <<>> /\ in' = r.rest
  BY DEF ReadOK, Result, Poll
<1>2. status' \in Terminal /\ status' \in Statuses /\ readTimer' = FALSE
  <2>1. status' \in Terminal \ {"Finish"}
    OBVIOUS
  <2>2. status' \in Terminal /\ status' \in Statuses /\ status' \notin Running
    BY <2>1 DEF Terminal, Running, Statuses
  <2> QED BY <2>2
<1>3. TypeOK'
  <2>1. fileSize' \in Nat /\ fileCount' \in 0 .. fileSize'
    BY DEF TypeOK, KeepFile, file
  <2>2. dataCount' \in 0 .. NumMod - 1
    BY NumberAssumption
  <2>3. timeCount' \in Nat /\ errorCount' \in Nat
    OBVIOUS
  <2>4. code' \in {"None", "Soh", "Stx"} /\ stage' \in StageNone .. StageFinished
        /\ (stage' = StageEstablished => dataCount' \in 0 .. 2)
    OBVIOUS
  <2>5. rxBuffer' \in Seq(Unit) /\ txBuffer' \in Seq(Unit) /\ in' \in Seq(Unit) /\ out' \in Seq(Unit)
    BY <1>1
  <2>6. readTimer' \in BOOLEAN /\ writeTimer' \in BOOLEAN /\ fileOpen' \in BOOLEAN
    BY <1>2
  <2>7. portOpen' \in BOOLEAN /\ button' \in BOOLEAN
    BY DEF TypeOK
  <2> QED BY <1>2, <2>1, <2>2, <2>3, <2>4, <2>5, <2>6, <2>7 DEF TypeOK
<1>4. PartialPacket' /\ FileOpenWhileSending' /\ EndOfFileSeen'
  BY DEF PartialPacket, FileOpenWhileSending, EndOfFileSeen
<1>5. SessionOwnsResources' /\ OutcomePending'
  BY <1>0, <1>2 DEF SessionOwnsResources, OutcomePending, NoTransfer
<1>6. WaitIsBounded'
  BY ClockStart, ClockAssumption DEF WaitIsBounded
<1>7. FinishMeansWholeFileRead'
  BY DEF FinishMeansWholeFileRead
<1> QED BY <1>3, <1>4, <1>5, <1>6, <1>7

\* A step that stays in the stage: a resend, an error that is tolerated, or a
\* poll in vain.
Stays(r) == /\ UNCHANGED <<dataCount, stage>>
            /\ code' = r.code
            /\ timeCount' \in Nat /\ timeCount' \div (TimeDivide + 1) <= TimeMax
            /\ errorCount' \in Nat /\ errorCount' <= ErrorMax
            /\ txBuffer' \in Seq(Unit) /\ out' \in Seq(Unit)
            /\ Going /\ KeepFile

\* A step that stays in its stage preserves the invariant.
LEMMA StaysOK ==
  ASSUME Inductive, readTimer, stage # StageNone, NEW r, ReadOK(r), Around(r), Stays(r)
  PROVE  Inductive'
<1> USE DEF Inductive, Stays, Around, Rearm, Going, KeepFile, file
<1>0. status \in Running /\ ~writeTimer /\ button /\ portOpen
  BY RunningHere
<1>1. /\ r.rest \in Seq(Unit) /\ r.buf \in Seq(Unit) /\ in' = r.rest
      /\ r.code \in {"None", "Soh", "Stx"}
      /\ rxBuffer' = IF code' = "None" THEN <<>> ELSE r.buf
  BY DEF ReadOK, Result, Poll
<1>2. TypeOK'
  <2>1. UNCHANGED <<dataCount, stage, status, writeTimer, fileOpen, portOpen, button,
                    fileSize, fileCount>>
    OBVIOUS
  <2>2. rxBuffer' \in Seq(Unit) /\ in' \in Seq(Unit)
    BY <1>1
  <2>3. code' \in {"None", "Soh", "Stx"}
    BY <1>1
  <2>4. readTimer' \in BOOLEAN
    OBVIOUS
  <2> QED BY <2>1, <2>2, <2>3, <2>4 DEF TypeOK
<1>3. PartialPacket'
  BY <1>1 DEF PartialPacket, ReadOK
<1>4. FileOpenWhileSending' /\ EndOfFileSeen' /\ FinishMeansWholeFileRead'
  BY DEF FileOpenWhileSending, EndOfFileSeen, FinishMeansWholeFileRead
<1>5. SessionOwnsResources' /\ OutcomePending'
  BY <1>0 DEF SessionOwnsResources, OutcomePending, NoTransfer, Terminal, Running
<1>6. WaitIsBounded'
  BY DEF WaitIsBounded
<1> QED BY <1>2, <1>3, <1>4, <1>5, <1>6

\* A step to stage s with dataCount d in a transfer; the new stage may say that
\* the end of the file was seen only when it was.
Moves(s, d) == /\ Reset(s, d)
               /\ s \in StageEstablished .. StageFinished
               /\ d \in 0 .. NumMod - 1
               /\ s = StageEstablished => d \in 0 .. 2
               /\ status' \in Running /\ UNCHANGED writeTimer
               /\ fileOpen' = TRUE
               /\ txBuffer' \in Seq(Unit) /\ out' \in Seq(Unit)
               /\ fileSize' \in Nat /\ fileCount' \in 0 .. fileSize'
               /\ (s \in {StageFinishing, StageFinished} \/ (s = StageEstablished /\ d = 2))
                    => fileCount' = fileSize'

\* A step that goes on with the transfer preserves the invariant.
LEMMA MovesOK ==
  ASSUME Inductive, readTimer, stage # StageNone, NEW r, ReadOK(r), Around(r),
         NEW s, NEW d, Moves(s, d)
  PROVE  Inductive'
<1> USE DEF Inductive, Moves, Reset, Around, Rearm, StageNone, StageEstablishing,
            StageEstablished, StageTransmitting, StageFinishing, StageFinished
<1>0. status \in Running /\ ~writeTimer /\ button /\ portOpen
  BY RunningHere
<1>1. r.rest \in Seq(Unit) /\ rxBuffer' = <<>> /\ in' = r.rest
  BY DEF ReadOK, Result, Poll
<1>2. TypeOK'
  <2>1. timeCount' \in Nat /\ errorCount' \in Nat /\ dataCount' \in 0 .. NumMod - 1
        /\ code' \in {"None", "Soh", "Stx"} /\ stage' \in StageNone .. StageFinished
        /\ (stage' = StageEstablished => dataCount' \in 0 .. 2)
    OBVIOUS
  <2>2. status' \in Statuses
    BY DEF Statuses
  <2>3. readTimer' \in BOOLEAN /\ writeTimer' \in BOOLEAN /\ fileOpen' \in BOOLEAN
        /\ portOpen' \in BOOLEAN /\ button' \in BOOLEAN
    BY DEF TypeOK
  <2>4. rxBuffer' \in Seq(Unit) /\ txBuffer' \in Seq(Unit) /\ in' \in Seq(Unit)
        /\ out' \in Seq(Unit)
    BY <1>1
  <2> QED BY <2>1, <2>2, <2>3, <2>4 DEF TypeOK
<1>3. PartialPacket' /\ FileOpenWhileSending' /\ EndOfFileSeen'
  BY DEF PartialPacket, FileOpenWhileSending, EndOfFileSeen
<1>4. SessionOwnsResources' /\ OutcomePending' /\ FinishMeansWholeFileRead'
  BY <1>0 DEF SessionOwnsResources, OutcomePending, NoTransfer, Terminal, Running,
              FinishMeansWholeFileRead
<1>5. WaitIsBounded'
  BY ClockStart, ClockAssumption DEF WaitIsBounded
<1> QED BY <1>2, <1>3, <1>4, <1>5

\* Giving up ends the session; where a timeout is reported no file is open.
LEMMA FailEnds ==
  ASSUME Inductive, readTimer, stage # StageNone,
         NEW st \in Terminal \ {"Finish"}, st = "Timeout" => stage = StageEstablishing,
         Fail(st), KeepFile
  PROVE  Ends
<1>1. TypeOK
  BY DEF Inductive
<1>2. txBuffer' \in Seq(Unit) /\ out' \in Seq(Unit)
  BY <1>1, CansType, WriteType DEF Fail
<1>3. stage = StageEstablishing => fileOpen = FALSE
  BY <1>1 DEF Inductive, FileOpenWhileSending, TypeOK, StageNone, StageEstablishing,
              StageEstablished, StageFinished
<1>4. fileOpen' = FALSE
  BY <1>3 DEF Fail, Report
<1> QED BY <1>2, <1>4 DEF Fail, Report, Ends

LEMMA AbortEnds ==
  ASSUME Inductive, Aborted, KeepFile
  PROVE  Ends
<1>1. TypeOK
  BY DEF Inductive
<1>2. txBuffer' \in Seq(Unit) /\ out' \in Seq(Unit)
  BY <1>1 DEF Aborted, Quiet, TypeOK
<1>3. "Abort" \in Terminal \ {"Finish"}
  BY DEF Terminal
<1> QED BY <1>2, <1>3 DEF Aborted, Report, Ends

\* One more error ends the session or is answered within the limits.
LEMMA CountErrorOK ==
  ASSUME Inductive, readTimer, stage # StageNone, NEW r, ReadOK(r), Around(r),
         NEW u \in Seq(Unit), CountError(r, u), KeepFile
  PROVE  Inductive'
<1>1. CASE TooMany /\ Fail("Error")
  <2>1. "Error" \in Terminal \ {"Finish"}
    BY DEF Terminal
  <2>2. Ends
    BY <1>1, <2>1, FailEnds
  <2> QED BY <2>2, EndsOK
<1>2. CASE ~(TooMany /\ Fail("Error"))
  <2>1. /\ ~TooMany /\ errorCount' = errorCount + 1 /\ code' = r.code
        /\ UNCHANGED <<timeCount, dataCount, stage>> /\ Send(u) /\ Going
    BY <1>2 DEF CountError
  <2>2. errorCount' \in Nat /\ errorCount' <= ErrorMax
    BY <2>1, ClockAssumption DEF Inductive, TypeOK, TooMany
  <2>3. timeCount' \in Nat /\ timeCount' \div (TimeDivide + 1) <= TimeMax
    BY <2>1 DEF Inductive, TypeOK, WaitIsBounded
  <2>4. txBuffer' \in Seq(Unit) /\ out' \in Seq(Unit)
    BY <2>1, WriteType DEF Inductive
  <2>5. Stays(r)
    BY <2>1, <2>2, <2>3, <2>4 DEF Stays
  <2> QED BY <2>5, StaysOK
<1> QED BY <1>1, <1>2

\* So does a poll in vain: on its way out it sends nothing or what is in txBuffer.
LEMMA TickOK ==
  ASSUME Inductive, readTimer, stage # StageNone, NEW r, ReadOK(r), Around(r),
         NEW st \in Terminal \ {"Finish"}, st = "Timeout" => stage = StageEstablishing,
         Tick(st, r, Resend) \/ Tick(st, r, Quiet), KeepFile
  PROVE  Inductive'
<1>1. CASE Expired(timeCount + 1) /\ Fail(st)
  <2>1. Ends
    BY <1>1, FailEnds
  <2> QED BY <2>1, EndsOK
<1>2. CASE ~(Expired(timeCount + 1) /\ Fail(st))
  <2>1. /\ ~Expired(timeCount + 1) /\ timeCount' = timeCount + 1 /\ code' = r.code
        /\ UNCHANGED <<errorCount, dataCount, stage>> /\ (Resend \/ Quiet) /\ Going
    BY <1>2 DEF Tick
  <2>2. errorCount' \in Nat /\ errorCount' <= ErrorMax
    BY <2>1 DEF Inductive, TypeOK, WaitIsBounded
  <2>3. timeCount' \in Nat /\ timeCount' \div (TimeDivide + 1) <= TimeMax
    <3>1. timeCount + 1 \in Nat
      BY DEF Inductive, TypeOK
    <3>2. (timeCount + 1) \div (TimeDivide + 1) \in Int
      BY <3>1, ClockAssumption
    <3> QED BY <2>1, <3>1, <3>2, ClockAssumption DEF Expired
  <2>4. txBuffer' \in Seq(Unit) /\ out' \in Seq(Unit)
    BY <2>1, WriteType DEF Inductive, TypeOK
  <2>5. Stays(r)
    BY <2>1, <2>2, <2>3, <2>4 DEF Stays
  <2> QED BY <2>5, StaysOK
<1> QED BY <1>1, <1>2

-----------------------------------------------------------------------------
(* The stage functions *)

\* The poll that starts the engine, also when a cancelled session left its timer armed.
LEMMA NoneOK ==
  ASSUME Inductive, readTimer, transmitStageNone, NoPoll, Rearm,
         UNCHANGED <<portOpen, button>>
  PROVE  Inductive'
<1> USE DEF Inductive
<1>1. /\ stage = StageNone /\ stage' = StageEstablishing /\ dataCount' = 0
      /\ timeCount' = 0 /\ errorCount' = 0 /\ code' = "None"
      /\ UNCHANGED <<txBuffer, out, status, writeTimer, fileOpen, fileSize, fileCount,
                     in, rxBuffer, portOpen, button>>
  BY DEF transmitStageNone, Reset, Quiet, Going, KeepFile, file, NoPoll
<1>2. button /\ portOpen
  BY DEF SessionOwnsResources
<1>3. \/ status \in Running /\ status \notin Terminal /\ readTimer' = TRUE
      \/ status \in Terminal /\ writeTimer /\ readTimer' = FALSE
  BY <1>1, <1>2, StatusTypes DEF OutcomePending, Rearm
<1>4. TypeOK'
  <2>1. dataCount' \in 0 .. NumMod - 1 /\ stage' \in StageNone .. StageFinished
        /\ stage' # StageEstablished
    BY <1>1, NumberAssumption DEF StageNone, StageEstablishing, StageEstablished, StageFinished
  <2>2. readTimer' \in BOOLEAN
    BY <1>3
  <2> QED BY <1>1, <2>1, <2>2 DEF TypeOK
<1>5. PartialPacket' /\ FinishMeansWholeFileRead'
  BY <1>1 DEF PartialPacket, FinishMeansWholeFileRead
<1>6. FileOpenWhileSending' /\ EndOfFileSeen'
  BY <1>1 DEF FileOpenWhileSending, EndOfFileSeen, StageNone, StageEstablishing,
              StageEstablished, StageFinishing, StageFinished
<1>7. SessionOwnsResources'
  BY <1>1, <1>2, <1>3 DEF SessionOwnsResources
<1>8. OutcomePending'
  BY <1>1, <1>2, <1>3 DEF OutcomePending, NoTransfer
<1>9. WaitIsBounded'
  BY <1>1, ClockStart, ClockAssumption DEF WaitIsBounded
<1> QED BY <1>4, <1>5, <1>6, <1>7, <1>8, <1>9

\* A poll that sees the peer cancel.
LEMMA AbortOK ==
  ASSUME Inductive, readTimer, stage # StageNone, NEW r, ReadOK(r), Around(r),
         Aborted, KeepFile
  PROVE  Inductive'
BY AbortEnds, EndsOK

\* A poll while the peer is awaited: the file is opened, or not, or nobody comes.
LEMMA EstablishingOK ==
  ASSUME Inductive, readTimer, NEW r, ReadOK(r), Around(r), transmitStageEstablishing(r)
  PROVE  Inductive'
<1>0. stage = StageEstablishing /\ stage # StageNone /\ TypeOK
  BY StagesDiffer DEF transmitStageEstablishing, Inductive
<1>1. ASSUME NEW size \in FileSizes, fileSize' = size, fileCount' = 0,
             Send(Wire(Info(size))), Reset(StageEstablished, 0),
             fileOpen' = TRUE, status' = "Establish", UNCHANGED writeTimer
      PROVE  Inductive'
  <2>1. size \in Nat
    BY DataAssumption
  <2>2. txBuffer' \in Seq(Unit) /\ out' \in Seq(Unit)
    BY <1>0, <1>1, <2>1, InfoType, WireType, WriteType
  <2>3. Moves(StageEstablished, 0)
    BY <1>1, <2>1, <2>2, StatusTypes, NumberAssumption
    DEF Moves, StageEstablished, StageFinishing, StageFinished
  <2> QED BY <1>0, <2>3, MovesOK
<1>2. ASSUME Reset(StageNone, 0), Send(Cans), status' = "Error", writeTimer' = TRUE,
             UNCHANGED fileOpen, KeepFile
      PROVE  Inductive'
  <2>1. txBuffer' \in Seq(Unit) /\ out' \in Seq(Unit)
    BY <1>0, <1>2, CansType, WriteType
  <2>2. fileOpen' = FALSE
    BY <1>0, <1>2 DEF Inductive, FileOpenWhileSending, TypeOK, StageEstablishing,
                      StageEstablished, StageFinished
  <2>3. Ends
    BY <1>2, <2>1, <2>2, StatusTypes DEF Ends
  <2> QED BY <1>0, <2>3, EndsOK
<1>3. CASE Aborted /\ KeepFile
  BY <1>0, <1>3, AbortOK
<1>4. CASE Tick("Timeout", r, Quiet) /\ KeepFile
  BY <1>0, <1>4, TickOK, StatusTypes
<1> QED BY <1>1, <1>2, <1>3, <1>4 DEF transmitStageEstablishing

\* A poll while the header is out: (Stage)(stage + dataCount) is a stage, and EOT
\* follows only when the file was read to its end.
LEMMA EstablishedOK ==
  ASSUME Inductive, readTimer, NEW r, ReadOK(r), Around(r), transmitStageEstablished(r)
  PROVE  Inductive'
<1>0. stage = StageEstablished /\ stage # StageNone /\ TypeOK
  BY StagesDiffer DEF transmitStageEstablished, Inductive
<1>1. status \in Running /\ fileOpen = TRUE /\ dataCount \in 0 .. 2
      /\ fileSize \in Nat /\ fileCount \in 0 .. fileSize
  BY <1>0, RunningHere DEF Inductive, FileOpenWhileSending, TypeOK, StageEstablished, StageFinished
<1>2. CASE CountError(r, txBuffer) /\ KeepFile
  BY <1>0, <1>2, CountErrorOK DEF TypeOK
<1>3. CASE TooMany /\ Fail("Error") /\ KeepFile
  BY <1>0, <1>3, FailEnds, EndsOK, StatusTypes
<1>4. CASE Reset(stage + dataCount, dataCount) /\ Resend /\ Going /\ KeepFile
  <2>1. txBuffer' \in Seq(Unit) /\ out' \in Seq(Unit)
    BY <1>0, <1>4, WriteType DEF TypeOK
  <2>2. /\ stage + dataCount \in StageEstablished .. StageFinished
        /\ stage + dataCount \in {StageFinishing, StageFinished} => dataCount = 2
    BY <1>0, <1>1 DEF StageEstablished, StageFinishing, StageFinished
  <2>3. dataCount = 2 => fileCount = fileSize
    BY <1>0 DEF Inductive, EndOfFileSeen
  <2>4. Moves(stage + dataCount, dataCount)
    BY <1>0, <1>1, <1>4, <2>1, <2>2, <2>3, NumberAssumption
    DEF Moves, Going, KeepFile, file, StageEstablished, StageFinishing, StageFinished
  <2> QED BY <1>0, <2>4, MovesOK
<1>5. CASE FirstBlock
  <2>1. status' \in Running /\ UNCHANGED writeTimer /\ fileOpen' = TRUE
    BY <1>1, <1>5, StatusTypes DEF FirstBlock, Moving
  <2>2. CASE MoreToSend /\ Reset(StageEstablished, 1)
             /\ txBuffer' = Wire(Block(1, fileCount, Remaining)) /\ UNCHANGED out
             /\ ReadBlock
    <3>1. Remaining \in Nat /\ BlockRead(Remaining) \in 0 .. Remaining
      BY <1>1, BlockReadType DEF Remaining
    <3>2. txBuffer' \in Seq(Unit) /\ out' \in Seq(Unit)
      BY <1>0, <1>1, <2>2, <3>1, BlockType, WireType, NumberAssumption DEF TypeOK
    <3>3. fileSize' \in Nat /\ fileCount' \in 0 .. fileSize'
      BY <1>1, <2>2, <3>1 DEF ReadBlock, Remaining
    <3>4. Moves(StageEstablished, 1)
      BY <2>1, <2>2, <3>2, <3>3, NumberAssumption
      DEF Moves, StageEstablished, StageFinishing, StageFinished
    <3> QED BY <1>0, <3>4, MovesOK
  <2>3. CASE ~MoreToSend /\ Reset(StageEstablished, 2) /\ Send(Ctl("Eot")) /\ KeepFile
    <3>1. txBuffer' \in Seq(Unit) /\ out' \in Seq(Unit)
      BY <1>0, <2>3, CtlType, WriteType DEF Codes
    <3>2. fileCount = fileSize
      BY <1>1, <2>3 DEF MoreToSend, Remaining
    <3>3. Moves(StageEstablished, 2)
      BY <1>1, <2>1, <2>3, <3>1, <3>2, NumberAssumption
      DEF Moves, KeepFile, file, StageEstablished, StageFinishing, StageFinished
    <3> QED BY <1>0, <3>3, MovesOK
  <2> QED BY <1>5, <2>2, <2>3 DEF FirstBlock
<1>6. CASE Aborted /\ KeepFile
  BY <1>0, <1>6, AbortOK
<1>7. CASE Tick("Error", r, Resend) /\ KeepFile
  BY <1>0, <1>7, TickOK, StatusTypes
<1> QED BY <1>2, <1>3, <1>4, <1>5, <1>6, <1>7 DEF transmitStageEstablished, Proceed

\* A poll while blocks are sent.
LEMMA TransmittingOK ==
  ASSUME Inductive, readTimer, NEW r, ReadOK(r), Around(r), transmitStageTransmitting(r)
  PROVE  Inductive'
<1>0. stage = StageTransmitting /\ stage # StageNone /\ TypeOK
  BY StagesDiffer DEF transmitStageTransmitting, Inductive
<1>1. fileOpen = TRUE /\ fileSize \in Nat /\ fileCount \in 0 .. fileSize
      /\ NextNum(dataCount) \in 0 .. NumMod - 1
  BY <1>0, NextNumType DEF Inductive, FileOpenWhileSending, TypeOK, StageEstablished,
                           StageTransmitting, StageFinished
<1>2. CASE CountError(r, txBuffer) /\ KeepFile
  BY <1>0, <1>2, CountErrorOK DEF TypeOK
<1>3. CASE NextBlock
  <2>1. status' \in Running /\ UNCHANGED writeTimer /\ fileOpen' = TRUE
    BY <1>1, <1>3, StatusTypes DEF NextBlock, Moving
  <2>2. CASE /\ MoreToSend /\ Reset(StageTransmitting, NextNum(dataCount))
             /\ Send(Wire(Block(NextNum(dataCount), fileCount, Remaining)))
             /\ ReadBlock
    <3>1. Remaining \in Nat /\ BlockRead(Remaining) \in 0 .. Remaining
      BY <1>1, BlockReadType DEF Remaining
    <3>2. txBuffer' \in Seq(Unit) /\ out' \in Seq(Unit)
      BY <1>0, <1>1, <2>2, <3>1, BlockType, WireType, WriteType
    <3>3. fileSize' \in Nat /\ fileCount' \in 0 .. fileSize'
      BY <1>1, <2>2, <3>1 DEF ReadBlock, Remaining
    <3>4. Moves(StageTransmitting, NextNum(dataCount))
      BY <1>1, <2>1, <2>2, <3>2, <3>3
      DEF Moves, StageEstablished, StageTransmitting, StageFinishing, StageFinished
    <3> QED BY <1>0, <3>4, MovesOK
  <2>3. CASE ~MoreToSend /\ Reset(StageFinishing, 0) /\ Send(Ctl("Eot")) /\ KeepFile
    <3>1. txBuffer' \in Seq(Unit) /\ out' \in Seq(Unit)
      BY <1>0, <2>3, CtlType, WriteType DEF Codes
    <3>2. fileCount = fileSize
      BY <1>1, <2>3 DEF MoreToSend, Remaining
    <3>3. Moves(StageFinishing, 0)
      BY <1>1, <2>1, <2>3, <3>1, <3>2, NumberAssumption
      DEF Moves, KeepFile, file, StageEstablished, StageFinishing, StageFinished
    <3> QED BY <1>0, <3>3, MovesOK
  <2> QED BY <1>3, <2>2, <2>3 DEF NextBlock
<1>4. CASE Aborted /\ KeepFile
  BY <1>0, <1>4, AbortOK
<1>5. CASE Tick("Error", r, Resend) /\ KeepFile
  BY <1>0, <1>5, TickOK, StatusTypes
<1> QED BY <1>2, <1>3, <1>4, <1>5 DEF transmitStageTransmitting

\* A poll while EOT is out.
LEMMA FinishingOK ==
  ASSUME Inductive, readTimer, NEW r, ReadOK(r), Around(r), transmitStageFinishing(r)
  PROVE  Inductive'
<1>0. stage = StageFinishing /\ stage # StageNone /\ TypeOK /\ KeepFile
  BY StagesDiffer DEF transmitStageFinishing, Inductive
<1>1. status \in Running /\ fileOpen = TRUE /\ fileCount = fileSize
      /\ fileSize \in Nat /\ fileCount \in 0 .. fileSize
  BY <1>0, RunningHere DEF Inductive, FileOpenWhileSending, EndOfFileSeen, TypeOK,
                           StageEstablished, StageFinishing, StageFinished
<1>2. ASSUME NEW s \in {StageFinishing, StageFinished}, NEW u \in Seq(Unit),
             Reset(s, 0), Send(u), Going
      PROVE  Inductive'
  <2>1. txBuffer' \in Seq(Unit) /\ out' \in Seq(Unit)
    BY <1>0, <1>2, WriteType
  <2>2. Moves(s, 0)
    BY <1>0, <1>1, <1>2, <2>1, NumberAssumption
    DEF Moves, Going, KeepFile, file, StageEstablished, StageFinishing, StageFinished
  <2> QED BY <1>0, <2>2, MovesOK
<1>3. CASE Reset(StageFinishing, 0) /\ Send(Ctl("Eot")) /\ Going
  BY <1>2, <1>3, CtlType DEF Codes
<1>4. CASE Reset(StageFinished, 0) /\ Send(Wire(ZeroHeader)) /\ Going
  BY <1>2, <1>4, ZeroHeaderType, WireType
<1>5. CASE Aborted
  BY <1>0, <1>5, AbortOK
<1>6. CASE Tick("Error", r, Resend)
  BY <1>0, <1>6, TickOK, StatusTypes
<1> QED BY <1>3, <1>4, <1>5, <1>6 DEF transmitStageFinishing

\* The one step that reports success: the file was read to its end before.
LEMMA FinishedOK ==
  ASSUME Inductive, readTimer, NEW r, ReadOK(r), Around(r), transmitStageFinished(r)
  PROVE  Inductive'
<1>0. stage = StageFinished /\ stage # StageNone /\ TypeOK /\ KeepFile
  BY DEF transmitStageFinished, Inductive, TypeOK, StageNone, StageFinishing, StageFinished
<1>1. button /\ portOpen /\ fileCount = fileSize
  BY <1>0, RunningHere DEF Inductive, EndOfFileSeen
<1>2. CASE CountError(r, txBuffer)
  BY <1>0, <1>2, CountErrorOK DEF TypeOK
<1>3. CASE Reset(StageNone, 0) /\ Quiet /\ Report("Finish")
  <2>1. /\ stage' = StageNone /\ dataCount' = 0 /\ timeCount' = 0 /\ errorCount' = 0
        /\ code' = "None" /\ rxBuffer' = <<>> /\ in' = r.rest /\ r.rest \in Seq(Unit)
        /\ status' = "Finish" /\ writeTimer' = TRUE /\ fileOpen' = FALSE
        /\ UNCHANGED <<txBuffer, out, fileSize, fileCount, portOpen, button>>
    BY <1>0, <1>3 DEF Reset, Quiet, Report, Around, Poll, ReadOK, Result, KeepFile, file
  <2>2. readTimer' = FALSE /\ status' \in Terminal /\ status' \in Statuses
    BY <2>1 DEF Around, Rearm, Running, Terminal, Statuses
  <2>3. dataCount' \in 0 .. NumMod - 1 /\ stage' \in StageNone .. StageFinished
        /\ stage' # StageEstablished
    BY <2>1, NumberAssumption DEF StageNone, StageEstablished, StageFinished
  <2>4. TypeOK'
    <3>1. txBuffer' \in Seq(Unit) /\ rxBuffer' \in Seq(Unit) /\ in' \in Seq(Unit)
          /\ out' \in Seq(Unit)
      BY <1>0, <2>1 DEF TypeOK
    <3>2. timeCount' \in Nat /\ errorCount' \in Nat /\ fileSize' \in Nat
          /\ fileCount' \in 0 .. fileSize'
      BY <1>0, <2>1 DEF TypeOK
    <3>3. readTimer' \in BOOLEAN /\ writeTimer' \in BOOLEAN /\ fileOpen' \in BOOLEAN
          /\ portOpen' \in BOOLEAN /\ button' \in BOOLEAN
      BY <1>0, <2>1, <2>2 DEF TypeOK
    <3>4. code' \in {"None", "Soh", "Stx"}
      BY <2>1
    <3> QED BY <2>2, <2>3, <3>1, <3>2, <3>3, <3>4 DEF TypeOK
  <2>5. PartialPacket' /\ FinishMeansWholeFileRead'
    BY <1>1, <2>1 DEF PartialPacket, FinishMeansWholeFileRead
  <2>6. FileOpenWhileSending' /\ EndOfFileSeen'
    BY <2>1 DEF FileOpenWhileSending, EndOfFileSeen, StageNone, StageEstablished,
                StageFinishing, StageFinished
  <2>7. SessionOwnsResources' /\ OutcomePending'
    BY <1>1, <2>1, <2>2 DEF SessionOwnsResources, OutcomePending, NoTransfer
  <2>8. WaitIsBounded'
    BY <2>1, ClockStart, ClockAssumption DEF WaitIsBounded
  <2> QED BY <2>4, <2>5, <2>6, <2>7, <2>8 DEF Inductive
<1>4. CASE Aborted
  BY <1>0, <1>4, AbortOK
<1>5. CASE Tick("Error", r, Resend)
  BY <1>0, <1>5, TickOK, StatusTypes
<1> QED BY <1>2, <1>3, <1>4, <1>5 DEF transmitStageFinished

\* readTimeOut() as a whole.
LEMMA ReadTimeOutOK ==
  ASSUME Inductive, ReadTimeOut
  PROVE  Inductive'
<1>1. CASE transmitStageNone /\ NoPoll
  BY <1>1, NoneOK DEF ReadTimeOut
<1>2. ASSUME NEW r \in receivePacket, Poll(r),
             \/ transmitStageEstablishing(r) \/ transmitStageEstablished(r)
             \/ transmitStageTransmitting(r) \/ transmitStageFinishing(r)
             \/ transmitStageFinished(r)
      PROVE  Inductive'
  <2>1. ReadOK(r)
    BY ReceiveOK DEF Inductive, TypeOK
  <2>2. readTimer /\ Around(r)
    BY <1>2 DEF ReadTimeOut, Around
  <2> QED BY <1>2, <2>1, <2>2, EstablishingOK, EstablishedOK, TransmittingOK,
             FinishingOK, FinishedOK
<1> QED BY <1>1, <1>2 DEF ReadTimeOut, transmit

-----------------------------------------------------------------------------
(* The other steps *)

\* startTransmit(): it takes over an engine without a transfer.
LEMMA StartOK ==
  ASSUME Inductive, startTransmit
  PROVE  Inductive'
<1> USE DEF Inductive
<1>1. /\ ~button /\ status' = "Establish" /\ ~portOpen /\ ~fileOpen /\ ~readTimer
      /\ ~writeTimer /\ NoTransfer
      /\ UNCHANGED <<timeCount, errorCount, dataCount, code, stage, rxBuffer, txBuffer,
                     writeTimer, fileOpen, out, fileSize, fileCount>>
  BY DEF startTransmit, Start, engine, KeepFile, file, SessionOwnsResources, OutcomePending
<1>2. \/ readTimer' = TRUE /\ portOpen' = TRUE /\ button' = TRUE /\ in' = <<>>
      \/ UNCHANGED <<readTimer, portOpen, button, in>>
  BY DEF startTransmit, Start
<1>3. status' \in Running /\ status' \notin Terminal /\ status' \in Statuses
  BY <1>1 DEF Running, Terminal, Statuses
<1>4. TypeOK'
  <2>0. in \in Seq(Unit)
    BY DEF TypeOK
  <2>1. in' \in Seq(Unit)
    <3>1. in' = <<>> \/ in' = in
      BY <1>2
    <3>2. CASE in' = <<>>
      BY <3>2
    <3>3. CASE in' = in
      BY <2>0, <3>3
    <3> QED BY <3>1, <3>2, <3>3
  <2>2. readTimer' \in BOOLEAN /\ portOpen' \in BOOLEAN /\ button' \in BOOLEAN
    BY <1>2 DEF TypeOK
  <2> QED BY <1>1, <1>3, <2>1, <2>2 DEF TypeOK
<1>5. PartialPacket' /\ FileOpenWhileSending' /\ EndOfFileSeen' /\ WaitIsBounded'
  BY <1>1 DEF PartialPacket, FileOpenWhileSending, EndOfFileSeen, WaitIsBounded
<1>6. SessionOwnsResources' /\ OutcomePending'
  BY <1>1, <1>2, <1>3 DEF SessionOwnsResources, OutcomePending, NoTransfer
<1>7. FinishMeansWholeFileRead'
  BY <1>1 DEF FinishMeansWholeFileRead
<1> QED BY <1>4, <1>5, <1>6, <1>7

\* stopTransmit(): the file is closed, the engine is reset; readTimer may still
\* be armed, and then fires in StageNone.
LEMMA StopOK ==
  ASSUME Inductive, stopTransmit
  PROVE  Inductive'
<1> USE DEF Inductive
<1>1. /\ button /\ portOpen /\ status' = "Abort" /\ fileOpen' = FALSE /\ writeTimer' = TRUE
      /\ stage' = StageNone /\ dataCount' = 0 /\ timeCount' = 0 /\ errorCount' = 0
      /\ code' = "None" /\ rxBuffer' = <<>> /\ Send(Cans)
      /\ UNCHANGED <<readTimer, portOpen, button, in, fileSize, fileCount>>
  BY DEF stopTransmit, Stop, Reset, KeepFile, file, SessionOwnsResources
<1>2. status' \in Terminal /\ status' \notin Running /\ status' \in Statuses
  BY <1>1 DEF Running, Terminal, Statuses
<1>3. TypeOK'
  <2>1. txBuffer' \in Seq(Unit) /\ out' \in Seq(Unit)
    BY <1>1, CansType, WriteType
  <2>2. dataCount' \in 0 .. NumMod - 1 /\ stage' \in StageNone .. StageFinished
        /\ stage' # StageEstablished /\ timeCount' \in Nat /\ errorCount' \in Nat
    BY <1>1, NumberAssumption DEF StageNone, StageEstablished, StageFinished
  <2>3. code' \in {"None", "Soh", "Stx"} /\ rxBuffer' \in Seq(Unit) /\ in' \in Seq(Unit)
    BY <1>1 DEF TypeOK
  <2>4. /\ readTimer' \in BOOLEAN /\ writeTimer' \in BOOLEAN /\ fileOpen' \in BOOLEAN
        /\ portOpen' \in BOOLEAN /\ button' \in BOOLEAN
    BY <1>1 DEF TypeOK
  <2>5. fileSize' \in Nat /\ fileCount' \in 0 .. fileSize'
    BY <1>1 DEF TypeOK
  <2> QED BY <1>2, <2>1, <2>2, <2>3, <2>4, <2>5 DEF TypeOK
<1>4. PartialPacket' /\ FinishMeansWholeFileRead'
  BY <1>1 DEF PartialPacket, FinishMeansWholeFileRead
<1>5. FileOpenWhileSending' /\ EndOfFileSeen'
  BY <1>1 DEF FileOpenWhileSending, EndOfFileSeen, StageNone, StageEstablished,
              StageFinishing, StageFinished
<1>6. SessionOwnsResources' /\ OutcomePending'
  BY <1>1, <1>2 DEF SessionOwnsResources, OutcomePending, NoTransfer
<1>7. WaitIsBounded'
  BY <1>1, ClockStart, ClockAssumption DEF WaitIsBounded
<1> QED BY <1>3, <1>4, <1>5, <1>6, <1>7

\* writeTimeOut(): by now readTimer is not armed, so that nothing outlives the
\* session.
LEMMA WriteTimeOutOK ==
  ASSUME Inductive, writeTimeOut
  PROVE  Inductive'
<1> USE DEF Inductive
<1>1. /\ writeTimer /\ ~readTimer /\ writeTimer' = FALSE /\ portOpen' = FALSE /\ in' = <<>>
      /\ button' = (IF status \in Running THEN button ELSE FALSE)
      /\ UNCHANGED <<timeCount, errorCount, dataCount, code, stage, rxBuffer, txBuffer,
                     status, readTimer, fileOpen, out, fileSize, fileCount>>
  BY DEF writeTimeOut, WriteTimeOut, engine, KeepFile, file
<1>2. status \in Terminal /\ status \notin Running /\ button' = FALSE /\ NoTransfer
  BY <1>1, StatusTypes DEF OutcomePending
<1>3. fileOpen = FALSE
  BY <1>2 DEF FileOpenWhileSending, NoTransfer, TypeOK, StageNone, StageEstablishing,
              StageEstablished, StageFinished
<1>4. TypeOK'
  <2>1. in' \in Seq(Unit)
    BY <1>1
  <2>2. writeTimer' \in BOOLEAN /\ portOpen' \in BOOLEAN /\ button' \in BOOLEAN
    BY <1>1, <1>2
  <2> QED BY <1>1, <2>1, <2>2 DEF TypeOK
<1>5. PartialPacket' /\ FileOpenWhileSending' /\ EndOfFileSeen' /\ WaitIsBounded'
      /\ FinishMeansWholeFileRead'
  BY <1>1 DEF PartialPacket, FileOpenWhileSending, EndOfFileSeen, WaitIsBounded,
              FinishMeansWholeFileRead
<1>6. SessionOwnsResources' /\ OutcomePending'
  BY <1>1, <1>2, <1>3 DEF SessionOwnsResources, OutcomePending, NoTransfer
<1> QED BY <1>4, <1>5, <1>6

\* Units on the wire and steps of others change no more than "in" and "out".
LEMMA WireOK ==
  ASSUME Inductive, Elsewhere, in' \in Seq(Unit), out' \in Seq(Unit)
  PROVE  Inductive'
<1>1. UNCHANGED <<timeCount, errorCount, dataCount, code, stage, rxBuffer, txBuffer,
                  status, readTimer, writeTimer, portOpen, fileOpen, button,
                  fileSize, fileCount>>
  BY DEF Elsewhere, engine, session, file
<1>2. TypeOK'
  BY <1>1 DEF Inductive, TypeOK
<1> QED BY <1>1, <1>2 DEF Inductive, PartialPacket, SessionOwnsResources,
     FileOpenWhileSending, OutcomePending, NoTransfer, WaitIsBounded, EndOfFileSeen,
     FinishMeansWholeFileRead

\* Every step preserves the invariant.
LEMMA StepOK ==
  ASSUME Inductive, [Next]_vars
  PROVE  Inductive'
<1>0. in \in Seq(Unit) /\ out \in Seq(Unit)
  BY DEF Inductive, TypeOK
<1>1. CASE startTransmit
  BY <1>1, StartOK
<1>2. CASE stopTransmit
  BY <1>2, StopOK
<1>3. CASE ReadTimeOut
  BY <1>3, ReadTimeOutOK
<1>4. CASE writeTimeOut
  BY <1>4, WriteTimeOutOK
<1>5. CASE Arrive
  <2>1. PICK u \in Heard : in' = Append(in, u)
    BY <1>5 DEF Arrive
  <2>2. in' \in Seq(Unit) /\ out' \in Seq(Unit)
    BY <1>0, <1>5, <2>1, HeardAssumption DEF Arrive
  <2> QED BY <1>5, <2>2, WireOK DEF Arrive
<1>6. CASE Drain
  <2>1. in' \in Seq(Unit) /\ out' \in Seq(Unit)
    BY <1>0, <1>6 DEF Drain
  <2> QED BY <1>6, <2>1, WireOK DEF Drain
<1>7. CASE UNCHANGED vars
  <2>1. in' \in Seq(Unit) /\ out' \in Seq(Unit) /\ Elsewhere
    BY <1>0, <1>7 DEF vars, ymodemVars, Elsewhere
  <2> QED BY <2>1, WireOK
<1> QED BY <1>1, <1>2, <1>3, <1>4, <1>5, <1>6, <1>7 DEF Next, Program

\* The program starts with no session.
LEMMA InitOK == Init => Inductive
<1> SUFFICES ASSUME Init PROVE Inductive
  OBVIOUS
<1> USE DEF Init, YmodemInit
<1>1. stage = StageNone /\ stage \in StageNone .. StageFinished /\ stage # StageEstablished
      /\ stage \notin StageEstablished .. StageFinished
      /\ stage \notin {StageFinishing, StageFinished}
  BY DEF StageNone, StageEstablished, StageFinishing, StageFinished
<1>2. status = "Idle" /\ status \in Statuses /\ status \notin Terminal
  BY DEF Statuses, Terminal
<1>3. TypeOK
  <2>1. dataCount \in 0 .. NumMod - 1 /\ timeCount \in Nat /\ errorCount \in Nat
        /\ fileSize \in Nat /\ fileCount \in 0 .. fileSize
    BY NumberAssumption
  <2>2. in \in Seq(Unit) /\ out \in Seq(Unit) /\ rxBuffer \in Seq(Unit)
        /\ txBuffer \in Seq(Unit)
    OBVIOUS
  <2>3. readTimer \in BOOLEAN /\ writeTimer \in BOOLEAN /\ fileOpen \in BOOLEAN
        /\ portOpen \in BOOLEAN /\ button \in BOOLEAN
    OBVIOUS
  <2> QED BY <1>1, <1>2, <2>1, <2>2, <2>3 DEF TypeOK
<1>4. PartialPacket /\ FinishMeansWholeFileRead
  BY DEF PartialPacket, FinishMeansWholeFileRead
<1>5. FileOpenWhileSending /\ EndOfFileSeen
  BY <1>1 DEF FileOpenWhileSending, EndOfFileSeen
<1>6. SessionOwnsResources /\ OutcomePending
  BY <1>1, <1>2 DEF SessionOwnsResources, OutcomePending, NoTransfer
<1>7. WaitIsBounded
  BY ClockStart, ClockAssumption DEF WaitIsBounded
<1> QED BY <1>3, <1>4, <1>5, <1>6, <1>7 DEF Inductive

-----------------------------------------------------------------------------
(* The theorems *)

\* The invariant the others follow from, for every peer and every user: what
\* the engine, the timers, the port, the file and the button say of each other
\* in YmodemFileTransmit, ui_ymodem and Ymodem::transmit().
THEOREM InductiveInvariant == Spec => []Inductive
<1>1. Init => Inductive
  BY InitOK
<1>2. Inductive /\ [Next]_vars => Inductive'
  BY StepOK
<1> QED BY <1>1, <1>2, PTL DEF Spec

\* Every variable keeps to its type; (Stage)(stage + dataCount) in
\* transmitStageEstablished is always a stage.
THEOREM TypeCorrect == Spec => []TypeOK
<1>1. Inductive => TypeOK
  BY DEF Inductive
<1> QED BY <1>1, InductiveInvariant, PTL

\* An idle window holds no port, no file and no timer, and a locked one has the
\* port and a timer that will unlock it.
THEOREM ResourcesOwned == Spec => []SessionOwnsResources
<1>1. Inductive => SessionOwnsResources
  BY DEF Inductive
<1> QED BY <1>1, InductiveInvariant, PTL

\* The file is open exactly in the stages in which the engine may read it, also
\* after a cancel, a timeout and a session started anew.
THEOREM FileOwned == Spec => []FileOpenWhileSending
<1>1. Inductive => FileOpenWhileSending
  BY DEF Inductive
<1> QED BY <1>1, InductiveInvariant, PTL

\* Success is reported only after the whole file was read, whatever the peer
\* sends, in whatever order.
THEOREM WholeFileRead == Spec => []FinishMeansWholeFileRead
<1>1. Inductive => FinishMeansWholeFileRead
  BY DEF Inductive
<1> QED BY <1>1, InductiveInvariant, PTL

\* A poll after the outcome, which only a cancelled session's timer can bring,
\* finds the engine in StageNone.
LEMMA OutcomeStays ==
  ASSUME Inductive, [Next]_vars, button, status \in Terminal, status' # status
  PROVE  status' = "Abort"
<1>1. CASE startTransmit
  BY <1>1 DEF startTransmit, Start
<1>2. CASE stopTransmit
  BY <1>2 DEF stopTransmit, Stop
<1>3. CASE ReadTimeOut
  <2>1. stage = StageNone
    BY <1>3 DEF ReadTimeOut, Inductive, OutcomePending
  <2>2. transmitStageNone
    BY <1>3, <2>1 DEF ReadTimeOut, transmit
  <2> QED BY <2>2 DEF transmitStageNone, Going
<1>4. CASE writeTimeOut
  BY <1>4 DEF writeTimeOut, WriteTimeOut
<1>5. CASE Arrive \/ Drain
  BY <1>5 DEF Arrive, Drain, Elsewhere, session
<1>6. CASE UNCHANGED vars
  BY <1>6 DEF vars, ymodemVars, session
<1> QED BY <1>1, <1>2, <1>3, <1>4, <1>5, <1>6 DEF Next, Program

\* Only the user, by clicking cancel, changes an outcome that is pending: a late
\* answer or a poll that was still armed does not.
THEOREM OutcomeFinal == Spec => OutcomeIsFinal
<1>1. Inductive /\ [Next]_vars
        => [button /\ status \in Terminal /\ status' # status => status' = "Abort"]_vars
  BY OutcomeStays
<1> QED BY <1>1, InductiveInvariant, PTL DEF Spec, OutcomeIsFinal

-----------------------------------------------------------------------------
(* The counters *)

CountersKept == CountersGoBack => Progress \/ HeaderOrEotAgain

\* An error and a tick count, or end the session.
LEMMA CountedOn ==
  ASSUME TypeOK,
         \/ \E r, u : CountError(r, u)
         \/ \E st \in Terminal : \E r, resend : Tick(st, r, resend)
         \/ Aborted
  PROVE  CountersKept
<1>1. ASSUME NEW st, st \in Terminal, Fail(st) \/ Aborted PROVE Progress
  BY <1>1 DEF Fail, Aborted, Report, Progress, Terminal
<1>2. ASSUME NEW r, NEW u, CountError(r, u) PROVE CountersKept
  <2>1. CASE TooMany /\ Fail("Error")
    BY <1>1, <2>1 DEF Terminal, CountersKept
  <2>2. CASE timeCount' = timeCount /\ errorCount' = errorCount + 1
    BY <2>2 DEF TypeOK, CountersKept, CountersGoBack
  <2> QED BY <1>2, <2>1, <2>2 DEF CountError
<1>3. ASSUME NEW st \in Terminal, NEW r, NEW resend, Tick(st, r, resend)
      PROVE  CountersKept
  <2>1. CASE Fail(st)
    BY <1>1, <2>1 DEF CountersKept
  <2>2. CASE timeCount' = timeCount + 1 /\ errorCount' = errorCount
    BY <2>2 DEF TypeOK, CountersKept, CountersGoBack
  <2> QED BY <1>3, <2>1, <2>2 DEF Tick
<1>4. CASE Aborted
  BY <1>1, <1>4 DEF CountersKept, Terminal
<1> QED BY <1>2, <1>3, <1>4

\* Of the file a byte at least is read, and the number of a block is a new one.
LEMMA BlocksGetOn ==
  ASSUME TypeOK
  PROVE  /\ MoreToSend /\ ReadBlock => fileCount' # fileCount
         /\ NextNum(dataCount) # dataCount
<1>1. fileSize \in Nat /\ fileCount \in Nat /\ Remaining \in Nat
  BY DEF TypeOK, Remaining
<1>2. ASSUME MoreToSend PROVE BlockRead(Remaining) \in Nat /\ BlockRead(Remaining) > 0
  BY <1>1, <1>2, SizeAssumption DEF BlockRead, BlockSize, MoreToSend
<1>3. NextNum(dataCount) # dataCount
  <2>1. dataCount \in Nat /\ dataCount < NumMod /\ NumMod \in Nat /\ NumMod > 2
    BY NumberAssumption DEF TypeOK
  <2>2. CASE dataCount + 1 < NumMod
    BY <2>1, <2>2 DEF NextNum
  <2>3. CASE dataCount + 1 = NumMod
    BY <2>1, <2>3 DEF NextNum
  <2> QED BY <2>1, <2>2, <2>3
<1> QED BY <1>1, <1>2, <1>3 DEF ReadBlock

LEMMA TransmitGetsOn ==
  ASSUME TypeOK, transmit
  PROVE  CountersKept
<1> USE DEF StageNone, StageEstablishing, StageEstablished, StageTransmitting,
            StageFinishing, StageFinished
<1>1. CASE stage' # stage \/ HeaderOrEotAgain
  BY <1>1 DEF CountersKept, Progress
<1>2. CASE transmitStageNone
  BY <1>1, <1>2 DEF transmitStageNone, Reset
<1>3. ASSUME NEW r, transmitStageEstablishing(r) PROVE CountersKept
  BY <1>1, <1>3, CountedOn DEF transmitStageEstablishing, Reset, Terminal
<1>4. ASSUME NEW r, transmitStageEstablished(r) PROVE CountersKept
  <2>1. CASE Proceed
    <3>1. CASE Fail("Error")
      BY <1>1, <1>4, <3>1 DEF Fail, Reset, transmitStageEstablished
    <3>2. CASE stage' = stage + dataCount
      BY <1>1, <1>4, <3>2 DEF TypeOK, HeaderOrEotAgain, transmitStageEstablished
    <3> QED BY <2>1, <3>1, <3>2 DEF Proceed, Reset
  <2>2. CASE FirstBlock
    <3>1. CASE MoreToSend /\ ReadBlock
      BY <3>1, BlocksGetOn DEF CountersKept, Progress
    <3>2. CASE dataCount' = 2
      BY <1>4, <3>2 DEF CountersKept, Progress, HeaderOrEotAgain,
         transmitStageEstablished
    <3> QED BY <2>2, <3>1, <3>2 DEF FirstBlock, Reset
  <2> QED BY <1>4, <2>1, <2>2, CountedOn DEF transmitStageEstablished, Terminal
<1>5. ASSUME NEW r, transmitStageTransmitting(r) PROVE CountersKept
  <2>1. CASE NextBlock
    <3>1. CASE dataCount' = NextNum(dataCount)
      BY <3>1, BlocksGetOn DEF CountersKept, Progress
    <3>2. CASE stage' = StageFinishing
      BY <1>1, <1>5, <3>2 DEF transmitStageTransmitting
    <3> QED BY <2>1, <3>1, <3>2 DEF NextBlock, Reset
  <2> QED BY <1>5, <2>1, CountedOn DEF transmitStageTransmitting, Terminal
<1>6. ASSUME NEW r, transmitStageFinishing(r) PROVE CountersKept
  BY <1>1, <1>6 DEF transmitStageFinishing, HeaderOrEotAgain
<1>7. ASSUME NEW r, transmitStageFinished(r) PROVE CountersKept
  <2>1. CASE Reset(StageNone, 0)
    BY <1>1, <1>7, <2>1 DEF transmitStageFinished, Reset
  <2> QED BY <1>7, <2>1, CountedOn DEF transmitStageFinished, Terminal
<1> QED BY <1>2, <1>3, <1>4, <1>5, <1>6, <1>7 DEF transmit

LEMMA CountersStep ==
  ASSUME Inductive, [Next]_vars
  PROVE  WaitIsBounded' /\ CountersKept
<1>1. Inductive'
  BY StepOK
<1>2. TypeOK
  BY DEF Inductive
<1> SUFFICES CountersKept
  BY <1>1 DEF Inductive
<1>3. CASE ReadTimeOut
  BY <1>2, <1>3, TransmitGetsOn DEF ReadTimeOut
<1>4. CASE stopTransmit
  BY <1>4 DEF stopTransmit, Stop, CountersKept, Progress, Terminal
<1>5. CASE UNCHANGED <<timeCount, errorCount>>
  BY <1>2, <1>5 DEF TypeOK, CountersKept, CountersGoBack
<1>6. ~ReadTimeOut /\ ~stopTransmit => UNCHANGED <<timeCount, errorCount>>
  BY DEF Next, Program, startTransmit, Start, writeTimeOut, WriteTimeOut, Arrive, Drain,
         Elsewhere, engine, vars, ymodemVars
<1> QED BY <1>3, <1>4, <1>5, <1>6

\* The clock and the error counter never pass timeMax and errorMax, and they
\* start anew only when a stage, a block or a part of the file is done with, or
\* the session is over, or where the header or EOT is to be answered: no other
\* answer, however often it comes, sets them back.
THEOREM CountersRestart == Spec => CountersRestartOnProgress
<1>1. Inductive /\ [Next]_vars
        => [WaitIsBounded' /\ (CountersGoBack => Progress \/ HeaderOrEotAgain)]_vars
  BY CountersStep DEF CountersKept
<1> QED BY <1>1, InductiveInvariant, PTL DEF Spec, CountersRestartOnProgress

-----------------------------------------------------------------------------
(* What is sent again.  ResendIsCurrent rests on Inductive, which does not   *)
(* need it.                                                                  *)

\* In the stages without a transfer nothing has to be current.
LEMMA NoneCurrent ==
  ASSUME stage' \in {StageNone, StageEstablishing}
  PROVE  ResendIsCurrent'
BY DEF ResendIsCurrent, StageNone, StageEstablishing, StageEstablished,
       StageTransmitting, StageFinishing, StageFinished

\* What stays in the stage with the same packet is as current as it was.
LEMMA SameCurrent ==
  ASSUME ResendIsCurrent, UNCHANGED <<stage, dataCount, txBuffer, fileSize, fileCount>>
  PROVE  ResendIsCurrent'
BY DEF ResendIsCurrent, CurrentBlock

\* The closing answers are current in their stages.
LEMMA ClosingCurrent ==
  ASSUME \/ stage' = StageFinishing /\ txBuffer' = Ctl("Eot")
         \/ stage' = StageFinished /\ txBuffer' = Wire(ZeroHeader)
         \/ stage' = StageEstablished /\ dataCount' = 2 /\ txBuffer' = Ctl("Eot")
  PROVE  ResendIsCurrent'
BY DEF ResendIsCurrent, StageEstablished, StageTransmitting, StageFinishing, StageFinished

\* A block is at least one byte, and it ends where the reading has got to.
LEMMA BlockCurrent ==
  ASSUME TypeOK, MoreToSend, ReadBlock, NEW num,
         txBuffer' = Wire(Block(num, fileCount, Remaining))
  PROVE  \E from \in 0 .. fileCount' - 1 :
           /\ txBuffer' = Wire(Block(num, from, fileSize' - from))
           /\ from + BlockRead(fileSize' - from) = fileCount'
<1>1. fileSize \in Nat /\ fileCount \in Nat /\ Remaining \in Nat /\ Remaining > 0
  BY DEF TypeOK, MoreToSend, Remaining
<1>2. BlockRead(Remaining) \in Nat /\ BlockRead(Remaining) > 0
  BY <1>1, SizeAssumption DEF BlockRead, BlockSize
<1>3. fileCount' = fileCount + BlockRead(Remaining) /\ fileSize' - fileCount = Remaining
  BY DEF ReadBlock, Remaining
<1>4. fileCount \in 0 .. fileCount' - 1
  BY <1>1, <1>2, <1>3
<1> QED BY <1>3, <1>4

\* A step that gives up, or goes on with what it has in txBuffer.
LEMMA ErrorCurrent ==
  ASSUME ResendIsCurrent, KeepFile, NEW r, NEW st,
         CountError(r, txBuffer) \/ Tick(st, r, Resend) \/ Tick(st, r, Quiet)
  PROVE  ResendIsCurrent'
<1>1. \/ stage' = StageNone
      \/ UNCHANGED <<stage, dataCount, txBuffer>>
  BY DEF CountError, Tick, Fail, Reset, Send, Resend, Quiet
<1>2. CASE stage' = StageNone
  BY <1>2, NoneCurrent
<1>3. CASE UNCHANGED <<stage, dataCount, txBuffer>>
  BY <1>3, SameCurrent DEF KeepFile, file
<1> QED BY <1>1, <1>2, <1>3

\* The peer cancelled.
LEMMA AbortCurrent ==
  ASSUME Aborted
  PROVE  ResendIsCurrent'
BY NoneCurrent DEF Aborted, Reset

\* The header is prepared when the file is opened.
LEMMA EstablishingCurrent ==
  ASSUME ResendIsCurrent, NEW r, transmitStageEstablishing(r)
  PROVE  ResendIsCurrent'
<1>1. ASSUME NEW size \in FileSizes, fileSize' = size, fileCount' = 0,
             Send(Wire(Info(size))), Reset(StageEstablished, 0)
      PROVE  ResendIsCurrent'
  BY <1>1 DEF Send, Reset, ResendIsCurrent, StageEstablished, StageTransmitting,
              StageFinishing, StageFinished
<1>2. CASE Reset(StageNone, 0)
  BY <1>2, NoneCurrent DEF Reset
<1>3. CASE Aborted
  BY <1>3, AbortCurrent
<1>4. CASE Tick("Timeout", r, Quiet) /\ KeepFile
  BY <1>4, ErrorCurrent
<1> QED BY <1>1, <1>2, <1>3, <1>4 DEF transmitStageEstablishing

\* C sends what is prepared, in the stage it belongs to.
LEMMA ProceedCurrent ==
  ASSUME Inductive, ResendIsCurrent, stage = StageEstablished, Proceed, KeepFile
  PROVE  ResendIsCurrent'
<1>1. CASE Fail("Error")
  BY <1>1, NoneCurrent DEF Fail, Reset
<1>2. CASE Reset(stage + dataCount, dataCount) /\ Resend
  <2>1. /\ stage' = stage + dataCount
        /\ UNCHANGED <<dataCount, txBuffer, fileSize, fileCount>>
    BY <1>2 DEF Reset, Resend, KeepFile, file
  <2>2. CASE dataCount = 0
    <3>1. stage' = stage
      BY <2>1, <2>2 DEF StageEstablished
    <3> QED BY <2>1, <3>1, SameCurrent
  <2>3. CASE dataCount = 1 /\ CurrentBlock(1)
    <3>1. stage' = StageTransmitting
      BY <2>1, <2>3 DEF StageEstablished, StageTransmitting
    <3>2. CurrentBlock(dataCount)'
      BY <2>1, <2>3 DEF CurrentBlock
    <3> QED BY <3>1, <3>2 DEF ResendIsCurrent, StageEstablished, StageTransmitting,
                              StageFinishing, StageFinished
  <2>4. CASE dataCount = 2 /\ txBuffer = Ctl("Eot")
    <3>1. stage' = StageFinishing
      BY <2>1, <2>4 DEF StageEstablished, StageFinishing
    <3> QED BY <2>1, <2>4, <3>1, ClosingCurrent
  <2> QED BY <2>2, <2>3, <2>4 DEF ResendIsCurrent
<1> QED BY <1>1, <1>2 DEF Proceed

\* ACK of the header prepares the first block or EOT.
LEMMA FirstCurrent ==
  ASSUME Inductive, FirstBlock
  PROVE  ResendIsCurrent'
<1>1. CASE /\ MoreToSend /\ Reset(StageEstablished, 1)
           /\ txBuffer' = Wire(Block(1, fileCount, Remaining)) /\ ReadBlock
  <2>1. stage' = StageEstablished /\ dataCount' = 1
    BY <1>1 DEF Reset
  <2>2. CurrentBlock(1)'
    BY <1>1, BlockCurrent DEF CurrentBlock, Inductive
  <2> QED BY <2>1, <2>2 DEF ResendIsCurrent, StageEstablished, StageTransmitting,
                            StageFinishing, StageFinished
<1>2. CASE Reset(StageEstablished, 2) /\ Send(Ctl("Eot"))
  BY <1>2, ClosingCurrent DEF Reset, Send
<1> QED BY <1>1, <1>2 DEF FirstBlock

\* ACK of a block prepares the next one or EOT.
LEMMA NextCurrent ==
  ASSUME Inductive, NextBlock
  PROVE  ResendIsCurrent'
<1>1. CASE /\ MoreToSend /\ Reset(StageTransmitting, NextNum(dataCount))
           /\ Send(Wire(Block(NextNum(dataCount), fileCount, Remaining))) /\ ReadBlock
  <2>1. /\ stage' = StageTransmitting
        /\ txBuffer' = Wire(Block(dataCount', fileCount, Remaining))
    BY <1>1 DEF Reset, Send
  <2>2. CurrentBlock(dataCount)'
    BY <1>1, <2>1, BlockCurrent DEF CurrentBlock, Inductive
  <2> QED BY <2>1, <2>2 DEF ResendIsCurrent, StageEstablished, StageTransmitting,
                            StageFinishing, StageFinished
<1>2. CASE Reset(StageFinishing, 0) /\ Send(Ctl("Eot"))
  BY <1>2, ClosingCurrent DEF Reset, Send
<1> QED BY <1>1, <1>2 DEF NextBlock

\* Every step leaves in txBuffer what is to be sent again.
LEMMA CurrentStep ==
  ASSUME Inductive, ResendIsCurrent, [Next]_vars
  PROVE  ResendIsCurrent'
<1>1. CASE startTransmit \/ writeTimeOut \/ Arrive \/ Drain \/ UNCHANGED vars
  <2>1. UNCHANGED <<stage, dataCount, txBuffer, fileSize, fileCount>>
    BY <1>1 DEF startTransmit, Start, writeTimeOut, WriteTimeOut, Arrive, Drain,
                Elsewhere, vars, ymodemVars, engine, KeepFile, file
  <2> QED BY <2>1, SameCurrent
<1>2. CASE stopTransmit
  BY <1>2, NoneCurrent DEF stopTransmit, Stop, Reset
<1>3. CASE ReadTimeOut
  <2>1. CASE transmitStageNone
    BY <2>1, NoneCurrent DEF transmitStageNone, Reset
  <2>2. ASSUME NEW r, transmitStageEstablishing(r) PROVE ResendIsCurrent'
    BY <2>2, EstablishingCurrent
  <2>3. ASSUME NEW r, transmitStageEstablished(r) PROVE ResendIsCurrent'
    BY <2>3, ErrorCurrent, ProceedCurrent, FirstCurrent, AbortCurrent
       DEF transmitStageEstablished
  <2>4. ASSUME NEW r, transmitStageTransmitting(r) PROVE ResendIsCurrent'
    BY <2>4, ErrorCurrent, NextCurrent, AbortCurrent DEF transmitStageTransmitting
  <2>5. ASSUME NEW r, transmitStageFinishing(r) PROVE ResendIsCurrent'
    BY <2>5, ErrorCurrent, ClosingCurrent, AbortCurrent
       DEF transmitStageFinishing, Reset, Send
  <2>6. ASSUME NEW r, transmitStageFinished(r) PROVE ResendIsCurrent'
    BY <2>6, ErrorCurrent, NoneCurrent, AbortCurrent DEF transmitStageFinished, Reset
  <2> QED BY <1>3, <2>1, <2>2, <2>3, <2>4, <2>5, <2>6 DEF ReadTimeOut, transmit
<1> QED BY <1>1, <1>2, <1>3 DEF Next, Program

\* What a NAK or a period without an answer sends again is what the peer is to
\* answer next: never a block that was answered, nor one that was not read.
THEOREM ResendCurrent == Spec => []ResendIsCurrent
<1>1. Init => ResendIsCurrent
  BY DEF Init, YmodemInit, ResendIsCurrent, StageNone, StageEstablished,
         StageTransmitting, StageFinishing, StageFinished
<1>2. Inductive /\ ResendIsCurrent /\ [Next]_vars => ResendIsCurrent'
  BY CurrentStep
<1> QED BY <1>1, <1>2, InductiveInvariant, PTL DEF Spec
-----------------------------------------------------------------------------
(* What a poll does, as the other end of the cable sees it *)

Opened == stage \in StageEstablished .. StageFinished

\* The header was sent and not acknowledged yet; the first block was prepared
\* and waits for the C.
HeaderOut == stage = StageEstablished /\ dataCount = 0
Unsent    == stage = StageEstablished /\ dataCount = 1

\* w was written, if the port was open.
Wrote(w) == out' = out \/ out' = out \o w

\* The poll read the code c.
Hears(c) == \E r \in receivePacket : r.ret = c /\ Poll(r)

Idles == /\ stage \in {StageNone, StageEstablishing} /\ stage' = StageEstablishing
         /\ out' = out /\ UNCHANGED <<status, fileSize, fileCount>>

Gives(up) == /\ stage' = StageNone /\ status' = up
             /\ Wrote(Cans) /\ UNCHANGED <<fileSize, fileCount>>

Opens == /\ stage = StageEstablishing /\ stage' = StageEstablished
         /\ status \notin Terminal /\ status' = "Establish"
         /\ fileSize' \in FileSizes /\ fileCount' = 0 /\ dataCount' = 0
         /\ Hears("C")
         /\ txBuffer' = Wire(Info(fileSize')) /\ Write(txBuffer')

Repeats == /\ Opened /\ Opened'
           /\ Wrote(txBuffer) /\ UNCHANGED <<txBuffer, status, fileSize, fileCount>>
           /\ HeaderOut' => HeaderOut
           /\ Unsent' => Unsent /\ \E r \in receivePacket : r.ret # "C" /\ Poll(r)
           /\ Unsent /\ ~Unsent' => Write(txBuffer)

NextBlockRead ==
  /\ stage \in {StageEstablished, StageTransmitting} /\ stage' = stage
  /\ status' = "Transmit" /\ Hears("Ack")
  /\ Remaining # 0 /\ ReadBlock
  /\ \E num \in 0 .. NumMod - 1 :
       /\ num = IF stage = StageEstablished THEN 1 ELSE NextNum(dataCount)
       /\ txBuffer' = Wire(Block(num, fileCount, Remaining)) /\ dataCount' = num
  /\ IF stage = StageEstablished THEN out' = out ELSE Write(txBuffer')

FileEnds ==
  /\ stage \in {StageEstablished, StageTransmitting}
  /\ stage' \in {StageEstablished, StageFinishing}
  /\ status' = "Transmit" /\ Hears("Ack")
  /\ Remaining = 0 /\ UNCHANGED <<fileSize, fileCount>>
  /\ stage' = StageEstablished => dataCount' = 2
  /\ txBuffer' = Ctl("Eot") /\ Write(txBuffer')

BatchEnds ==
  /\ stage = StageFinishing /\ stage' = StageFinished
  /\ UNCHANGED <<status, fileSize, fileCount>>
  /\ txBuffer' = Wire(ZeroHeader) /\ Write(txBuffer')

PollEffect == \/ Idles \/ (\E up \in Terminal : Gives(up)) \/ Opens \/ Repeats
              \/ NextBlockRead \/ FileEnds \/ BatchEnds

\* Nothing is written, or what was asked for is.
LEMMA WriteEffect ==
  /\ Quiet => (\A w : Wrote(w)) /\ out' = out
  /\ \A w : Send(w) => Wrote(w) /\ Write(w) /\ txBuffer' = w
  /\ Resend => Wrote(txBuffer) /\ Write(txBuffer) /\ txBuffer' = txBuffer
BY DEF Quiet, Send, Resend, Write, Wrote

\* A timeout, too many errors, a cancelling peer: the session is given up.
LEMMA GivesUp ==
  ASSUME KeepFile
  PROVE  /\ \A st \in Terminal : Fail(st) => Gives(st)
         /\ Aborted => Gives("Abort")
BY WriteEffect DEF Fail, Aborted, Reset, Report, Gives, KeepFile, file

\* An error is answered with what is to be repeated, or is one too many.
LEMMA ErrorEffect ==
  ASSUME Opened, KeepFile, NEW r \in receivePacket, Poll(r),
         r.ret # "C" \/ stage # StageEstablished, CountError(r, txBuffer)
  PROVE  Repeats \/ Gives("Error")
<1>1. CASE Fail("Error")
  BY <1>1, GivesUp DEF Terminal
<1>2. CASE UNCHANGED <<stage, dataCount>> /\ Send(txBuffer) /\ Going
  BY <1>2, WriteEffect DEF Repeats, Opened, HeaderOut, Unsent, Going, KeepFile, file
<1> QED BY <1>1, <1>2 DEF CountError

\* A period without an answer repeats it as well.
LEMMA TickEffect ==
  ASSUME Opened, KeepFile, NEW r \in receivePacket, Poll(r),
         r.ret # "C" \/ stage # StageEstablished, Tick("Error", r, Resend)
  PROVE  Repeats \/ Gives("Error")
<1>1. CASE Fail("Error")
  BY <1>1, GivesUp DEF Terminal
<1>2. CASE UNCHANGED <<stage, dataCount>> /\ (Resend \/ Quiet) /\ Going
  BY <1>2, WriteEffect DEF Repeats, Opened, HeaderOut, Unsent, Going, KeepFile, file, Quiet
<1> QED BY <1>1, <1>2 DEF Tick

\* transmitStageNone() and transmitStageEstablishing(): nothing is written
\* before the file is open.
LEMMA OpeningEffect ==
  /\ transmitStageNone => Idles
  /\ \A r \in receivePacket :
       status \notin Terminal /\ Poll(r) /\ transmitStageEstablishing(r)
         => Idles \/ Opens \/ \E up \in Terminal : Gives(up)
<1>1. ASSUME transmitStageNone PROVE Idles
  BY <1>1 DEF transmitStageNone, Reset, Quiet, Going, KeepFile, file, Idles
<1>2. ASSUME NEW r \in receivePacket, status \notin Terminal, Poll(r),
             transmitStageEstablishing(r)
      PROVE  Idles \/ Opens \/ \E up \in Terminal : Gives(up)
  <2>1. stage = StageEstablishing
    BY <1>2 DEF transmitStageEstablishing
  <2>2. ASSUME NEW size \in FileSizes, fileSize' = size, fileCount' = 0,
               Send(Wire(Info(size))), Reset(StageEstablished, 0), status' = "Establish",
               r.ret = "C"
        PROVE  Opens
    BY <1>2, <2>1, <2>2, WriteEffect DEF Reset, Opens, Hears
  <2>3. CASE Reset(StageNone, 0) /\ Send(Cans) /\ status' = "Error" /\ KeepFile
    <3>1. Gives("Error")
      BY <2>1, <2>3, WriteEffect DEF Reset, Gives, KeepFile, file
    <3> QED BY <3>1 DEF Terminal
  <2>4. CASE Aborted /\ KeepFile
    BY <2>1, <2>4, GivesUp DEF Terminal
  <2>5. CASE Tick("Timeout", r, Quiet) /\ KeepFile
    <3>1. CASE Fail("Timeout")
      BY <2>1, <2>5, <3>1, GivesUp DEF Terminal
    <3>2. CASE UNCHANGED stage /\ Quiet /\ Going
      BY <2>1, <2>5, <3>2 DEF Quiet, Going, KeepFile, file, Idles
    <3> QED BY <2>5, <3>1, <3>2 DEF Tick
  <2> QED BY <1>2, <2>2, <2>3, <2>4, <2>5 DEF transmitStageEstablishing
<1> QED BY <1>1, <1>2

\* transmitStageEstablished(): the header, the first block or EOT.
LEMMA EstablishedEffect ==
  ASSUME Inductive, NEW r \in receivePacket, transmitStageEstablished(r), Poll(r)
  PROVE  PollEffect
<1>1. stage = StageEstablished /\ Opened /\ stage # StageNone
  BY StagesDiffer DEF transmitStageEstablished, Opened, StageEstablished, StageFinished
<1>2. dataCount \in 0 .. 2
  BY <1>1 DEF Inductive, TypeOK
<1>3. CASE /\ \/ r.ret # "C" /\ (CountError(r, txBuffer) \/ Tick("Error", r, Resend))
              \/ Aborted
           /\ KeepFile
  BY <1>1, <1>3, ErrorEffect, TickEffect, GivesUp DEF PollEffect, Terminal
<1>4. CASE Proceed /\ KeepFile
  <2>1. CASE Fail("Error")
    BY <1>1, <1>4, <2>1, GivesUp DEF PollEffect, Terminal
  <2>2. CASE Reset(stage + dataCount, dataCount) /\ Resend /\ Going
    <3>1. Opened'
      BY <1>1, <1>2, <2>2 DEF Reset, Opened, StageEstablished, StageFinished
    <3>2. stage' = StageEstablished + dataCount /\ dataCount' = dataCount
      BY <1>1, <2>2 DEF Reset
    <3>3. (HeaderOut' => HeaderOut) /\ ~Unsent'
      BY <1>1, <1>2, <3>2 DEF HeaderOut, Unsent, StageEstablished
    <3>4. Repeats
      BY <1>1, <1>4, <2>2, <3>1, <3>3, WriteEffect DEF Repeats, Going, KeepFile, file
    <3> QED BY <3>4 DEF PollEffect
  <2> QED BY <1>4, <2>1, <2>2 DEF Proceed
<1>5. CASE r.ret = "Ack" /\ FirstBlock
  <2>1. Hears("Ack")
    BY <1>5 DEF Hears
  <2>2. CASE MoreToSend /\ Reset(StageEstablished, 1)
             /\ txBuffer' = Wire(Block(1, fileCount, Remaining)) /\ UNCHANGED out
             /\ ReadBlock
    <3>1. 1 \in 0 .. NumMod - 1
      BY NumberAssumption
    <3>2. NextBlockRead
      BY <1>1, <1>5, <2>1, <2>2, <3>1
         DEF NextBlockRead, FirstBlock, Moving, Reset, MoreToSend
    <3> QED BY <3>2 DEF PollEffect
  <2>3. CASE ~MoreToSend /\ Reset(StageEstablished, 2) /\ Send(Ctl("Eot")) /\ KeepFile
    BY <1>1, <1>5, <2>1, <2>3, WriteEffect
       DEF PollEffect, FileEnds, FirstBlock, Moving, Reset, MoreToSend, KeepFile, file
  <2> QED BY <1>5, <2>2, <2>3 DEF FirstBlock
<1> QED BY <1>3, <1>4, <1>5 DEF transmitStageEstablished

\* transmitStageTransmitting(): the next block, or EOT.
LEMMA TransmittingEffect ==
  ASSUME Inductive, NEW r \in receivePacket, transmitStageTransmitting(r), Poll(r)
  PROVE  PollEffect
<1>1. stage = StageTransmitting /\ Opened /\ stage # StageNone
      /\ stage # StageEstablished
  BY StagesDiffer DEF transmitStageTransmitting, Opened, StageEstablished,
                      StageTransmitting, StageFinished
<1>2. CASE (CountError(r, txBuffer) \/ Tick("Error", r, Resend) \/ Aborted) /\ KeepFile
  BY <1>1, <1>2, ErrorEffect, TickEffect, GivesUp DEF PollEffect, Terminal
<1>3. CASE r.ret = "Ack" /\ NextBlock
  <2>1. Hears("Ack")
    BY <1>3 DEF Hears
  <2>2. CASE MoreToSend /\ Reset(StageTransmitting, NextNum(dataCount))
             /\ Send(Wire(Block(NextNum(dataCount), fileCount, Remaining))) /\ ReadBlock
    <3>1. NextNum(dataCount) \in 0 .. NumMod - 1
      BY NextNumType DEF Inductive, TypeOK
    <3>2. Write(txBuffer') /\ txBuffer' = Wire(Block(NextNum(dataCount), fileCount, Remaining))
      BY <2>2, WriteEffect
    <3>3. NextBlockRead
      BY <1>1, <1>3, <2>1, <2>2, <3>1, <3>2
         DEF NextBlockRead, NextBlock, Moving, Reset, MoreToSend
    <3> QED BY <3>3 DEF PollEffect
  <2>3. CASE ~MoreToSend /\ Reset(StageFinishing, 0) /\ Send(Ctl("Eot")) /\ KeepFile
    <3>1. StageFinishing # StageEstablished
      BY DEF StageFinishing, StageEstablished
    <3>2. Write(txBuffer') /\ txBuffer' = Ctl("Eot")
      BY <2>3, WriteEffect
    <3>3. FileEnds
      BY <1>1, <1>3, <2>1, <2>3, <3>1, <3>2
         DEF FileEnds, NextBlock, Moving, Reset, MoreToSend, KeepFile, file
    <3> QED BY <3>3 DEF PollEffect
  <2> QED BY <1>3, <2>2, <2>3 DEF NextBlock
<1> QED BY <1>2, <1>3 DEF transmitStageTransmitting

\* transmitStageFinishing() and transmitStageFinished(): EOT once more, then
\* the header of zeros until it is acknowledged.
LEMMA ClosingEffect ==
  ASSUME Inductive, ResendIsCurrent, NEW r \in receivePacket, Poll(r),
         transmitStageFinishing(r) \/ transmitStageFinished(r)
  PROVE  PollEffect
<1>1. stage \in {StageFinishing, StageFinished} /\ KeepFile
  BY DEF transmitStageFinishing, transmitStageFinished, Inductive, TypeOK, StageNone,
         StageFinishing, StageFinished
<1>2. Opened /\ stage # StageNone /\ stage # StageEstablished
  BY <1>1 DEF Opened, StageNone, StageEstablished, StageFinishing, StageFinished
<1>3. CASE CountError(r, txBuffer) \/ Tick("Error", r, Resend) \/ Aborted
  BY <1>1, <1>2, <1>3, ErrorEffect, TickEffect, GivesUp DEF PollEffect, Terminal
<1>4. CASE /\ stage = StageFinishing
           /\ Reset(StageFinishing, 0) /\ Send(Ctl("Eot")) /\ Going
  <2>1. txBuffer = Ctl("Eot")
    BY <1>4 DEF ResendIsCurrent
  <2>2. stage' # StageEstablished /\ Opened'
    BY <1>4 DEF Reset, Opened, StageEstablished, StageFinishing, StageFinished
  <2>3. Repeats
    BY <1>1, <1>2, <1>4, <2>1, <2>2, WriteEffect
       DEF Repeats, HeaderOut, Unsent, Reset, Going, KeepFile, file
  <2> QED BY <2>3 DEF PollEffect
<1>5. CASE /\ stage = StageFinishing
           /\ Reset(StageFinished, 0) /\ Send(Wire(ZeroHeader)) /\ Going
  BY <1>1, <1>5, WriteEffect DEF PollEffect, BatchEnds, Reset, Going, KeepFile, file
<1>6. CASE Reset(StageNone, 0) /\ Quiet /\ Report("Finish")
  <2>1. Gives("Finish")
    BY <1>1, <1>2, <1>6, WriteEffect DEF Gives, Reset, Report, KeepFile, file
  <2> QED BY <2>1 DEF PollEffect, Terminal
<1> QED BY <1>3, <1>4, <1>5, <1>6 DEF transmitStageFinishing, transmitStageFinished

\* All that Ymodem::transmit() may do in one poll.
LEMMA ReadTimeOutEffect ==
  ASSUME Inductive, ResendIsCurrent, ReadTimeOut
  PROVE  PollEffect
<1>1. CASE transmitStageNone
  BY <1>1, OpeningEffect DEF PollEffect
<1>2. ASSUME NEW r \in receivePacket, Poll(r),
             \/ transmitStageEstablishing(r) \/ transmitStageEstablished(r)
             \/ transmitStageTransmitting(r) \/ transmitStageFinishing(r)
             \/ transmitStageFinished(r)
      PROVE  PollEffect
  <2>1. stage = StageEstablishing => status \notin Terminal
    BY StagesDiffer DEF ReadTimeOut, Inductive, OutcomePending
  <2>2. transmitStageEstablishing(r) => stage = StageEstablishing
    BY DEF transmitStageEstablishing
  <2> QED BY <1>2, <2>1, <2>2, OpeningEffect, EstablishedEffect, TransmittingEffect,
             ClosingEffect DEF PollEffect
<1> QED BY <1>1, <1>2 DEF ReadTimeOut, transmit

\* A poll reads at most once, and keeps of the code that was read what is to be
\* kept.
LEMMA PollReads ==
  ASSUME ReadTimeOut
  PROVE  \/ NoPoll /\ code' = "None"
         \/ \E r \in receivePacket : Poll(r) /\ code' \in {"None", r.code}
<1>1. CASE transmitStageNone /\ NoPoll
  BY <1>1 DEF transmitStageNone, Reset
<1>2. ASSUME NEW r \in receivePacket, Poll(r),
             \/ transmitStageEstablishing(r) \/ transmitStageEstablished(r)
             \/ transmitStageTransmitting(r) \/ transmitStageFinishing(r)
             \/ transmitStageFinished(r)
      PROVE  code' \in {"None", r.code}
  BY <1>2 DEF transmitStageEstablishing, transmitStageEstablished, Proceed, FirstBlock,
              transmitStageTransmitting, NextBlock, transmitStageFinishing,
              transmitStageFinished, Reset, Fail, Aborted, CountError, Tick
<1> QED BY <1>1, <1>2 DEF ReadTimeOut, transmit

\* A cancel gives up in any stage, and nothing else that is not a poll changes
\* what the peer sees.
LEMMA OtherEffects ==
  /\ stopTransmit => Gives("Abort")
  /\ startTransmit \/ writeTimeOut =>
       UNCHANGED <<stage, dataCount, txBuffer, fileSize, fileCount, out>>
  /\ startTransmit => status' = "Establish"
  /\ writeTimeOut => UNCHANGED status
BY WriteEffect DEF stopTransmit, Stop, Reset, Gives, startTransmit, Start, writeTimeOut,
   WriteTimeOut, engine, KeepFile, file

=============================================================================
