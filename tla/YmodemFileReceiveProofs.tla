----------------------- MODULE YmodemFileReceiveProofs -----------------------
(***************************************************************************)
(* Proofs about the receiving side, for every value of the constants and   *)
(* for every peer.                                                         *)
(***************************************************************************)
EXTENDS YmodemFileReceive, YmodemProofs

(* What is sent and what is written *)

\* The answers of the receiver are sequences of units.
LEMMA AnswerTypes ==
  /\ Ctl("C") \in Seq(Unit) /\ Ctl("Ack") \in Seq(Unit) /\ Ctl("Nak") \in Seq(Unit)
  /\ AckC \in Seq(Unit)
<1>1. {"C", "Ack", "Nak"} \subseteq Codes
  BY DEF Codes
<1>2. Ctl("C") \in Seq(Unit) /\ Ctl("Ack") \in Seq(Unit) /\ Ctl("Nak") \in Seq(Unit)
  BY <1>1, CtlType
<1> QED BY <1>2 DEF AckC

\* dataCount + 1 wraps to a packet number again.
LEMMA NextNumType == \A d \in 0 .. NumMod - 1 : NextNum(d) \in 0 .. NumMod - 1
BY NumberAssumption DEF NextNum

\* What is taken of a packet is as many bytes, none of them beyond the
\* announced size.
LEMMA TakenType ==
  ASSUME NEW r, fileSize \in Nat, fileCount \in Nat, fileCount <= fileSize
  PROVE  /\ Taken(DataLength(r)) \in Nat
         /\ fileCount + Taken(DataLength(r)) \in Nat
         /\ fileCount + Taken(DataLength(r)) <= fileSize
<1>1. DataLength(r) \in Nat
  BY SizeAssumption DEF DataLength
<1> HIDE DEF DataLength
<1> QED BY <1>1 DEF Taken

\* The bytes of a packet are numbers, as many as were taken.
LEMMA PayloadType ==
  ASSUME NEW p \in Packet, NEW k \in Nat
  PROVE  Payload(p, k) \in Seq(Nat) /\ Len(Payload(p, k)) = k
<1>1. p.from \in Nat
  BY DEF Packet
<1>2. \A i \in 1 .. k : (IF p.what = "data" /\ i <= p.n THEN p.from + i ELSE 0) \in Nat
  BY <1>1
<1> QED BY <1>2 DEF Payload

\* The disk keeps a beginning of what was written, as long as it has room.
LEMMA OnDiskType ==
  ASSUME NEW s \in Seq(Nat)
  PROVE  /\ OnDisk(s) \in Seq(Nat)
         /\ Len(OnDisk(s)) = IF Len(s) > DiskSize THEN DiskSize ELSE Len(s)
<1> DEFINE k == IF Len(s) > DiskSize THEN DiskSize ELSE Len(s)
<1>1. k \in 0 .. Len(s)
  BY DiskAssumption
<1>2. SubSeq(s, 1, k) \in Seq(Nat) /\ Len(SubSeq(s, 1, k)) = k
  BY <1>1
<1> QED BY <1>2 DEF OnDisk

\* What callback(StatusTransmit) writes keeps the count of fileCount, up to the
\* end of the disk.
LEMMA WrittenOK ==
  ASSUME NEW p \in Packet, NEW k \in Nat, NEW count \in Nat, received \in Seq(Nat),
         Len(received) = IF count > DiskSize THEN DiskSize ELSE count
  PROVE  /\ OnDisk(received \o Payload(p, k)) \in Seq(Nat)
         /\ Len(OnDisk(received \o Payload(p, k)))
              = IF count + k > DiskSize THEN DiskSize ELSE count + k
<1> DEFINE all == received \o Payload(p, k)
<1>1. all \in Seq(Nat) /\ Len(all) = Len(received) + k
  <2> DEFINE new == Payload(p, k)
  <2>1. new \in Seq(Nat) /\ Len(new) = k
    BY PayloadType
  <2> HIDE DEF new
  <2>2. received \o new \in Seq(Nat) /\ Len(received \o new) = Len(received) + Len(new)
    BY ONLY <2>1, received \in Seq(Nat)
  <2> QED BY <2>1, <2>2 DEF new
<1> HIDE DEF all
<1>2. /\ OnDisk(all) \in Seq(Nat)
      /\ Len(OnDisk(all)) = IF Len(all) > DiskSize THEN DiskSize ELSE Len(all)
  BY <1>1, OnDiskType
<1>3. (IF Len(all) > DiskSize THEN DiskSize ELSE Len(all))
        = IF count + k > DiskSize THEN DiskSize ELSE count + k
  BY <1>1, DiskAssumption
<1>4. /\ OnDisk(all) \in Seq(Nat)
      /\ Len(OnDisk(all)) = IF count + k > DiskSize THEN DiskSize ELSE count + k
  BY <1>2, <1>3
<1> QED BY <1>4 DEF all

-----------------------------------------------------------------------------
(* The steps of readTimeOut().  Every lemma of this part is about one kind   *)
(* of step; ReadTimeOutOK puts them together.                                *)

\* When the timer fires in a stage that reads, the session is going on.
LEMMA RunningHere ==
  ASSUME Inductive, readTimer, stage # StageNone
  PROVE  status \in Running /\ ~writeTimer /\ button /\ portOpen
<1> USE DEF Inductive, TypeOK
<1>1. button /\ portOpen
  BY DEF SessionOwnsResources
<1>2. status \notin Terminal
  BY DEF OutcomePending
<1> QED BY <1>1, <1>2 DEF OutcomePending

\* What readTimeOut() does around a stage function.
Around(r) == Poll(r) /\ Rearm /\ UNCHANGED <<portOpen, button>>

\* Whatever is sent is units.
LEMMA WriteType ==
  ASSUME TypeOK, NEW u \in Seq(Unit)
  PROVE  /\ Send(u) => txBuffer' \in Seq(Unit) /\ out' \in Seq(Unit)
         /\ Quiet => txBuffer' \in Seq(Unit) /\ out' \in Seq(Unit)
<1>1. out \in Seq(Unit) /\ txBuffer \in Seq(Unit)
  BY DEF TypeOK
<1>2. out \o u \in Seq(Unit)
  BY <1>1
<1> QED BY <1>1, <1>2 DEF Send, Quiet, Write

\* A step that ends the session; the size of the header may have been noted.
Ends == /\ Reset(StageNone, 0)
        /\ txBuffer' \in Seq(Unit) /\ out' \in Seq(Unit)
        /\ status' \in Terminal
        /\ writeTimer' = TRUE /\ fileOpen' = FALSE
        /\ fileSize' \in Nat /\ fileCount' \in Nat /\ UNCHANGED <<received, crashed>>

\* A step that ends the session preserves the invariant.
LEMMA EndsOK ==
  ASSUME Inductive, readTimer, stage # StageNone, ~crashed,
         NEW r, ReadOK(r), Around(r), Ends
  PROVE  Inductive'
<1> USE DEF Inductive, Ends, Reset, Around, Rearm, StageNone, StageEstablishing,
            StageEstablished, StageTransmitting, StageFinishing, StageFinished
<1>0. button /\ portOpen
  BY RunningHere
<1>1. r.rest \in Seq(Unit) /\ rxBuffer' = <<>> /\ in' = r.rest
  BY DEF ReadOK, Result, Poll
<1>2. status' \in Terminal /\ status' \in Statuses /\ readTimer' = FALSE
  <2>1. status' \in Terminal /\ status' \in Statuses /\ status' \notin Running
    BY DEF Terminal, Running, Statuses
  <2> QED BY <2>1
<1>3. TypeOK'
  <2>1. dataCount' \in 0 .. NumMod - 1
    BY NumberAssumption
  <2>2. timeCount' \in Nat /\ errorCount' \in Nat
    OBVIOUS
  <2>3. code' \in {"None", "Soh", "Stx"} /\ stage' \in StageNone .. StageFinished
    OBVIOUS
  <2>4. rxBuffer' \in Seq(Unit) /\ txBuffer' \in Seq(Unit) /\ in' \in Seq(Unit)
        /\ out' \in Seq(Unit)
    BY <1>1
  <2>5. readTimer' \in BOOLEAN /\ writeTimer' \in BOOLEAN /\ fileOpen' \in BOOLEAN
    BY <1>2
  <2>6. portOpen' \in BOOLEAN /\ button' \in BOOLEAN /\ crashed' \in BOOLEAN
        /\ received' \in Seq(Nat)
    BY DEF TypeOK
  <2> QED BY <1>2, <2>1, <2>2, <2>3, <2>4, <2>5, <2>6 DEF TypeOK
<1>4. PartialPacket' /\ FileOpenWhileReceiving' /\ CountMatchesFile' /\ CrashedInSession'
  BY DEF PartialPacket, FileOpenWhileReceiving, CountMatchesFile, CrashedInSession
<1>5. SessionOwnsResources' /\ OutcomePending'
  BY <1>0, <1>2 DEF SessionOwnsResources, OutcomePending, NoTransfer
<1>6. WaitIsBounded'
  BY ClockStart, ClockAssumption DEF WaitIsBounded
<1> QED BY <1>3, <1>4, <1>5, <1>6

\* A step that stays in the stage: an error that is tolerated, a poll in vain, or
\* the packet that kills the process.
Stays(r) == /\ UNCHANGED <<dataCount, stage>>
            /\ code' = r.code
            /\ timeCount' \in Nat /\ timeCount' \div (TimeDivide + 1) <= TimeMax
            /\ errorCount' \in Nat /\ errorCount' <= ErrorMax
            /\ txBuffer' \in Seq(Unit) /\ out' \in Seq(Unit)
            /\ crashed' \in BOOLEAN
            /\ Going /\ KeepFile

\* A step that stays in its stage preserves the invariant.
LEMMA StaysOK ==
  ASSUME Inductive, readTimer, stage # StageNone, NEW r, ReadOK(r), Around(r), Stays(r)
  PROVE  Inductive'
<1> USE DEF Inductive, Stays, Around, Rearm, Going, KeepFile, file
<1>0. status \in Running /\ ~writeTimer /\ button /\ portOpen
  BY RunningHere
<1>1. /\ r.rest \in Seq(Unit) /\ r.buf \in Seq(Unit) /\ in' = r.rest
      /\ r.code \in {"None", "Soh", "Stx"}
      /\ rxBuffer' = IF code' = "None" THEN <<>> ELSE r.buf
  BY DEF ReadOK, Result, Poll
<1>2. TypeOK'
  <2>1. UNCHANGED <<dataCount, stage, status, writeTimer, fileOpen, portOpen, button,
                    fileSize, fileCount, received>>
    OBVIOUS
  <2>2. rxBuffer' \in Seq(Unit) /\ in' \in Seq(Unit)
    BY <1>1
  <2>3. code' \in {"None", "Soh", "Stx"}
    BY <1>1
  <2>4. readTimer' \in BOOLEAN
    OBVIOUS
  <2> QED BY <2>1, <2>2, <2>3, <2>4 DEF TypeOK
<1>3. PartialPacket'
  BY <1>1 DEF PartialPacket, ReadOK
<1>4. FileOpenWhileReceiving' /\ CountMatchesFile'
  BY DEF FileOpenWhileReceiving, CountMatchesFile
<1>5. SessionOwnsResources' /\ OutcomePending' /\ CrashedInSession'
  BY <1>0 DEF SessionOwnsResources, OutcomePending, NoTransfer, CrashedInSession,
              Terminal, Running
<1>6. WaitIsBounded'
  BY DEF WaitIsBounded
<1> QED BY <1>2, <1>3, <1>4, <1>5, <1>6

\* A step to stage s with dataCount d in a transfer, with the count of what was
\* written.
Moves(s, d) == /\ Reset(s, d)
               /\ s \in StageEstablished .. StageFinished
               /\ d \in 0 .. NumMod - 1
               /\ status' \in Running /\ UNCHANGED writeTimer
               /\ fileOpen' = TRUE
               /\ txBuffer' \in Seq(Unit) /\ out' \in Seq(Unit)
               /\ fileSize' \in Nat /\ fileCount' \in Nat /\ fileCount' <= fileSize'
               /\ received' \in Seq(Nat)
               /\ Len(received') = IF fileCount' > DiskSize THEN DiskSize ELSE fileCount'
               /\ UNCHANGED crashed

\* A step that goes on with the transfer preserves the invariant.
LEMMA MovesOK ==
  ASSUME Inductive, readTimer, stage # StageNone, NEW r, ReadOK(r), Around(r),
         NEW s, NEW d, Moves(s, d)
  PROVE  Inductive'
<1> USE DEF Inductive, Moves, Reset, Around, Rearm, StageNone, StageEstablishing,
            StageEstablished, StageTransmitting, StageFinishing, StageFinished
<1>0. status \in Running /\ ~writeTimer /\ button /\ portOpen
  BY RunningHere
<1>1. r.rest \in Seq(Unit) /\ rxBuffer' = <<>> /\ in' = r.rest
  BY DEF ReadOK, Result, Poll
<1>2. TypeOK'
  <2>1. timeCount' \in Nat /\ errorCount' \in Nat /\ dataCount' \in 0 .. NumMod - 1
        /\ code' \in {"None", "Soh", "Stx"} /\ stage' \in StageNone .. StageFinished
    OBVIOUS
  <2>2. status' \in Statuses
    BY DEF Statuses
  <2>3. readTimer' \in BOOLEAN /\ writeTimer' \in BOOLEAN /\ fileOpen' \in BOOLEAN
        /\ portOpen' \in BOOLEAN /\ button' \in BOOLEAN /\ crashed' \in BOOLEAN
    BY DEF TypeOK
  <2>4. rxBuffer' \in Seq(Unit) /\ txBuffer' \in Seq(Unit) /\ in' \in Seq(Unit)
        /\ out' \in Seq(Unit)
    BY <1>1
  <2> QED BY <2>1, <2>2, <2>3, <2>4 DEF TypeOK
<1>3. PartialPacket' /\ FileOpenWhileReceiving'
  BY DEF PartialPacket, FileOpenWhileReceiving
<1>4. CountMatchesFile'
  BY DEF CountMatchesFile
<1>5. SessionOwnsResources' /\ OutcomePending' /\ CrashedInSession'
  BY <1>0 DEF SessionOwnsResources, OutcomePending, NoTransfer, CrashedInSession,
              Terminal, Running
<1>6. WaitIsBounded'
  BY ClockStart, ClockAssumption DEF WaitIsBounded
<1> QED BY <1>2, <1>3, <1>4, <1>5, <1>6

\* The conditions under which a stage that reads takes its step.
Here(r) == /\ Inductive /\ readTimer /\ ~crashed /\ stage # StageNone
           /\ ReadOK(r) /\ Around(r)

\* What KeepFile keeps has its types.
LEMMA KeptTypes ==
  ASSUME Inductive, KeepFile
  PROVE  fileSize' \in Nat /\ fileCount' \in Nat /\ UNCHANGED received
BY DEF Inductive, TypeOK, KeepFile, file

\* Giving up ends the session; where a timeout is reported no file is open.
LEMMA FailOK ==
  ASSUME NEW r, Here(r), NEW st \in {"Timeout", "Error"},
         st = "Timeout" => stage = StageEstablishing,
         Fail(st), KeepFile, UNCHANGED crashed
  PROVE  Inductive'
<1> USE DEF Here
<1>1. TypeOK
  BY DEF Inductive
<1>2. txBuffer' \in Seq(Unit) /\ out' \in Seq(Unit)
  BY <1>1, CansType, WriteType DEF Fail
<1>3. stage = StageEstablishing => fileOpen = FALSE
  BY <1>1 DEF Inductive, FileOpenWhileReceiving, TypeOK, StageNone, StageEstablishing,
              StageEstablished, StageFinished
<1>4. fileOpen' = FALSE
  BY <1>3 DEF Fail, Report
<1>5. status' \in Terminal
  BY DEF Fail, Report, Terminal
<1>6. Ends
  BY <1>2, <1>4, <1>5, KeptTypes DEF Fail, Report, Ends
<1> QED BY <1>6, EndsOK

\* A poll that sees the peer cancel.
LEMMA AbortOK ==
  ASSUME NEW r, Here(r), Aborted, KeepFile, UNCHANGED crashed
  PROVE  Inductive'
<1> USE DEF Here
<1>1. txBuffer' \in Seq(Unit) /\ out' \in Seq(Unit)
  BY DEF Aborted, Quiet, Inductive, TypeOK
<1>2. status' \in Terminal /\ fileOpen' = FALSE
  BY DEF Aborted, Report, Terminal
<1>3. Ends
  BY <1>1, <1>2, KeptTypes DEF Aborted, Report, Ends
<1> QED BY <1>3, EndsOK

\* One more error ends the session or is answered within the limits.
LEMMA CountErrorOK ==
  ASSUME NEW r, Here(r), NEW u \in Seq(Unit), CountError(r, u), KeepFile, UNCHANGED crashed
  PROVE  Inductive'
<1> USE DEF Here
<1>1. CASE TooMany /\ Fail("Error")
  BY <1>1, FailOK
<1>2. CASE ~(TooMany /\ Fail("Error"))
  <2>1. /\ ~TooMany /\ errorCount' = errorCount + 1 /\ code' = r.code
        /\ UNCHANGED <<timeCount, dataCount, stage>> /\ Send(u) /\ Going
    BY <1>2 DEF CountError
  <2>2. errorCount' \in Nat /\ errorCount' <= ErrorMax
    BY <2>1, ClockAssumption DEF Inductive, TypeOK, TooMany
  <2>3. timeCount' \in Nat /\ timeCount' \div (TimeDivide + 1) <= TimeMax
    BY <2>1 DEF Inductive, TypeOK, WaitIsBounded
  <2>4. txBuffer' \in Seq(Unit) /\ out' \in Seq(Unit)
    BY <2>1, WriteType DEF Inductive
  <2>5. Stays(r)
    BY <2>1, <2>2, <2>3, <2>4 DEF Stays, Inductive, TypeOK
  <2> QED BY <2>5, StaysOK
<1> QED BY <1>1, <1>2

\* So does a poll in vain, which sends u once per period.
LEMMA TickOK ==
  ASSUME NEW r, Here(r), NEW u \in Seq(Unit), NEW st \in {"Timeout", "Error"},
         st = "Timeout" => stage = StageEstablishing,
         Tick(st, r, Send(u)), KeepFile, UNCHANGED crashed
  PROVE  Inductive'
<1> USE DEF Here
<1>1. CASE Expired(timeCount + 1) /\ Fail(st)
  BY <1>1, FailOK
<1>2. CASE ~(Expired(timeCount + 1) /\ Fail(st))
  <2>1. /\ ~Expired(timeCount + 1) /\ timeCount' = timeCount + 1 /\ code' = r.code
        /\ UNCHANGED <<errorCount, dataCount, stage>> /\ (Send(u) \/ Quiet) /\ Going
    BY <1>2 DEF Tick
  <2>2. errorCount' \in Nat /\ errorCount' <= ErrorMax
    BY <2>1 DEF Inductive, TypeOK, WaitIsBounded
  <2>3. timeCount' \in Nat /\ timeCount' \div (TimeDivide + 1) <= TimeMax
    <3>1. timeCount + 1 \in Nat
      BY DEF Inductive, TypeOK
    <3>2. (timeCount + 1) \div (TimeDivide + 1) \in Int
      BY <3>1, ClockAssumption
    <3> QED BY <2>1, <3>1, <3>2, ClockAssumption DEF Expired
  <2>4. txBuffer' \in Seq(Unit) /\ out' \in Seq(Unit)
    BY <2>1, WriteType DEF Inductive
  <2>5. Stays(r)
    BY <2>1, <2>2, <2>3, <2>4 DEF Stays, Inductive, TypeOK
  <2> QED BY <2>5, StaysOK
<1> QED BY <1>1, <1>2

-----------------------------------------------------------------------------
(* The stage functions *)

\* The poll that starts the engine, also when a cancelled session left its timer
\* armed.
LEMMA NoneOK ==
  ASSUME Inductive, readTimer, ~crashed, receiveStageNone, NoPoll, Rearm,
         UNCHANGED <<portOpen, button>>
  PROVE  Inductive'
<1> USE DEF Inductive
<1>1. /\ stage = StageNone /\ stage' = StageEstablishing /\ dataCount' = 0
      /\ timeCount' = 0 /\ errorCount' = 0 /\ code' = "None" /\ Send(Ctl("C"))
      /\ UNCHANGED <<status, writeTimer, fileOpen, fileSize, fileCount, received, crashed,
                     in, rxBuffer, portOpen, button>>
  BY DEF receiveStageNone, Reset, Going, KeepFile, file, NoPoll
<1>2. button /\ portOpen
  BY DEF SessionOwnsResources
<1>3. \/ status \in Running /\ status \notin Terminal /\ readTimer' = TRUE
      \/ status \in Terminal /\ writeTimer /\ readTimer' = FALSE
  BY <1>1, <1>2, StatusTypes DEF OutcomePending, Rearm
<1>4. TypeOK'
  <2>1. dataCount' \in 0 .. NumMod - 1 /\ stage' \in StageNone .. StageFinished
    BY <1>1, NumberAssumption DEF StageNone, StageEstablishing, StageFinished
  <2>2. readTimer' \in BOOLEAN
    BY <1>3
  <2>3. txBuffer' \in Seq(Unit) /\ out' \in Seq(Unit)
    BY <1>1, AnswerTypes, WriteType
  <2> QED BY <1>1, <2>1, <2>2, <2>3 DEF TypeOK
<1>5. PartialPacket'
  BY <1>1 DEF PartialPacket
<1>6. FileOpenWhileReceiving' /\ CountMatchesFile' /\ CrashedInSession'
  BY <1>1 DEF FileOpenWhileReceiving, CountMatchesFile, CrashedInSession, StageNone,
              StageEstablishing, StageEstablished, StageFinished
<1>7. SessionOwnsResources'
  BY <1>1, <1>2, <1>3 DEF SessionOwnsResources
<1>8. OutcomePending'
  BY <1>1, <1>2, <1>3 DEF OutcomePending, NoTransfer
<1>9. WaitIsBounded'
  BY <1>1, ClockStart, ClockAssumption DEF WaitIsBounded
<1> QED BY <1>4, <1>5, <1>6, <1>7, <1>8, <1>9

\* A header: the file is opened and emptied, or the session is refused.
LEMMA EstablishOK ==
  ASSUME NEW r, Here(r), stage = StageEstablishing, Establish(r.pkt), UNCHANGED crashed
  PROVE  Inductive'
<1> USE DEF Here
<1>0. TypeOK /\ fileOpen = FALSE /\ r.pkt \in Packet
  BY DEF Inductive, FileOpenWhileReceiving, TypeOK, ReadOK, Result, StageEstablishing,
         StageEstablished, StageFinished
<1>1. ASSUME NoSession, fileSize' \in Nat, fileCount' \in Nat, UNCHANGED received
      PROVE  Inductive'
  <2>1. txBuffer' \in Seq(Unit) /\ out' \in Seq(Unit)
    BY <1>0, <1>1, CansType, WriteType DEF NoSession
  <2>2. Ends
    BY <1>0, <1>1, <2>1, StatusTypes DEF Ends, NoSession
  <2> QED BY <2>2, EndsOK
<1>2. CASE NoSession /\ KeepFile
  BY <1>1, <1>2, KeptTypes
<1>3. ASSUME NEW size \in Announced(r.pkt), fileSize' = size, fileCount' = 0
      PROVE  fileSize' \in Nat /\ fileCount' \in Nat
  <2>1. r.pkt.n \in Nat /\ r.pkt.what \in {"info", "data", "zero"}
    BY <1>0 DEF Packet
  <2> QED BY <1>3, <2>1, DataAssumption DEF Announced
<1>4. ASSUME NEW size \in Announced(r.pkt), fileSize' = size, fileCount' = 0,
             received' = <<>>, Reset(StageEstablished, 0), Send(AckC),
             status' = "Establish", fileOpen' = TRUE, UNCHANGED writeTimer
      PROVE  Inductive'
  <2>1. txBuffer' \in Seq(Unit) /\ out' \in Seq(Unit)
    BY <1>0, <1>4, AnswerTypes, WriteType
  <2>2. received' \in Seq(Nat) /\ Len(received') = 0
    BY <1>4
  <2>3. Len(received') = IF fileCount' > DiskSize THEN DiskSize ELSE fileCount'
    BY <1>4, <2>2, DiskAssumption
  <2>4. fileSize' \in Nat /\ fileCount' \in Nat /\ fileCount' <= fileSize'
    BY <1>3, <1>4
  <2>5. StageEstablished \in StageEstablished .. StageFinished /\ 0 \in 0 .. NumMod - 1
    BY NumberAssumption DEF StageEstablished, StageFinished
  <2>6. Moves(StageEstablished, 0)
    BY <1>4, <2>1, <2>2, <2>3, <2>4, <2>5, StatusTypes DEF Moves
  <2> QED BY <2>6, MovesOK
<1> QED BY <1>1, <1>2, <1>3, <1>4 DEF Establish

\* A poll while a header is awaited.
LEMMA EstablishingOK ==
  ASSUME NEW r, Here(r), receiveStageEstablishing(r)
  PROVE  Inductive'
<1>0. stage = StageEstablishing /\ UNCHANGED crashed
  BY DEF receiveStageEstablishing
<1>1. CASE Establish(r.pkt)
  BY <1>0, <1>1, EstablishOK
<1>2. CASE CountError(r, Ctl("C")) /\ KeepFile
  BY <1>0, <1>2, CountErrorOK, AnswerTypes
<1>3. CASE Aborted /\ KeepFile
  BY <1>0, <1>3, AbortOK
<1>4. CASE Tick("Timeout", r, Send(Ctl("C"))) /\ KeepFile
  BY <1>0, <1>4, TickOK, AnswerTypes
<1> QED BY <1>1, <1>2, <1>3, <1>4 DEF receiveStageEstablishing

\* In a stage with an open file what was counted is within the announced size.
LEMMA OpenHere ==
  ASSUME Inductive, stage \in StageEstablished .. StageFinished
  PROVE  /\ fileOpen = TRUE /\ fileSize \in Nat /\ fileCount \in Nat
         /\ fileCount <= fileSize /\ received \in Seq(Nat)
         /\ Len(received) = IF fileCount > DiskSize THEN DiskSize ELSE fileCount
BY DEF Inductive, TypeOK, FileOpenWhileReceiving, CountMatchesFile

\* A packet with the next number: its bytes are written and counted, or the
\* division by an announced size of 0 kills the process.
LEMMA AcceptOK ==
  ASSUME NEW r, Here(r), NEW num \in 0 .. NumMod - 1,
         stage \in {StageEstablished, StageTransmitting}, Accept(r, num)
  PROVE  Inductive'
<1> USE DEF Here
<1>0. TypeOK /\ r.pkt \in Packet /\ status \in Running
      /\ stage \in StageEstablished .. StageFinished
  BY RunningHere DEF Inductive, ReadOK, Result, StageEstablished, StageTransmitting,
                     StageFinished
<1>1. CASE Crash(r)
  <2>1. /\ timeCount' \in Nat /\ timeCount' \div (TimeDivide + 1) <= TimeMax
        /\ errorCount' \in Nat /\ errorCount' <= ErrorMax
    BY <1>0, <1>1 DEF Crash, Inductive, TypeOK, WaitIsBounded
  <2>2. txBuffer' \in Seq(Unit) /\ out' \in Seq(Unit)
    BY <1>0, <1>1 DEF Crash, TypeOK
  <2>3. Stays(r)
    BY <1>1, <2>1, <2>2 DEF Crash, Stays, KeepFile
  <2> QED BY <2>3, StaysOK
<1>2. CASE /\ received' = OnDisk(received \o Payload(r.pkt, Taken(DataLength(r))))
           /\ fileCount' = fileCount + Taken(DataLength(r))
           /\ Reset(StageTransmitting, num) /\ Send(Ctl("Ack")) /\ status' = "Transmit"
           /\ UNCHANGED <<writeTimer, fileOpen, fileSize, crashed>>
  <2>1. txBuffer' \in Seq(Unit) /\ out' \in Seq(Unit)
    BY <1>0, <1>2, AnswerTypes, WriteType
  <2>2. /\ Taken(DataLength(r)) \in Nat /\ fileCount' \in Nat /\ fileCount' <= fileSize'
        /\ fileSize' \in Nat
    BY <1>0, <1>2, OpenHere, TakenType
  <2>3. /\ received' \in Seq(Nat)
        /\ Len(received') = IF fileCount' > DiskSize THEN DiskSize ELSE fileCount'
    BY <1>0, <1>2, <2>2, OpenHere, WrittenOK
  <2>4. StageTransmitting \in StageEstablished .. StageFinished
    BY DEF StageEstablished, StageTransmitting, StageFinished
  <2>5. fileOpen' = TRUE /\ status' \in Running
    BY <1>0, <1>2, OpenHere, StatusTypes
  <2>6. Moves(StageTransmitting, num)
    BY <1>2, <2>1, <2>2, <2>3, <2>4, <2>5 DEF Moves
  <2> QED BY <2>6, MovesOK
<1> QED BY <1>1, <1>2 DEF Accept

\* An EOT moves on with the file as it is.
LEMMA EotOK ==
  ASSUME NEW r, Here(r), NEW s \in {StageFinishing, StageFinished}, NEW u \in Seq(Unit),
         stage \in StageEstablished .. StageFinished,
         Reset(s, 0), Send(u), Going, KeepFile, UNCHANGED crashed
  PROVE  Inductive'
<1> USE DEF Here
<1>1. txBuffer' \in Seq(Unit) /\ out' \in Seq(Unit)
  BY WriteType DEF Inductive
<1>2. s \in StageEstablished .. StageFinished /\ 0 \in 0 .. NumMod - 1
  BY NumberAssumption DEF StageEstablished, StageFinishing, StageFinished
<1>3. status \in Running
  BY RunningHere
<1>4. Moves(s, 0)
  BY <1>1, <1>2, <1>3, OpenHere DEF Moves, Going, KeepFile, file
<1> QED BY <1>4, MovesOK

\* Everything but a packet, in the two stages that accept packets.
LEMMA OtherwiseOK ==
  ASSUME NEW r, Here(r), stage \in {StageEstablished, StageTransmitting}, Otherwise(r)
  PROVE  Inductive'
<1>0. KeepFile /\ UNCHANGED crashed /\ stage \in StageEstablished .. StageFinished
  BY DEF Otherwise, StageEstablished, StageTransmitting, StageFinished
<1>1. CASE FirstEot
  BY <1>0, <1>1, EotOK, AnswerTypes DEF FirstEot
<1>2. CASE Aborted
  BY <1>0, <1>2, AbortOK
<1>3. CASE Tick("Error", r, Send(Ctl("Nak")))
  BY <1>0, <1>3, TickOK, AnswerTypes
<1> QED BY <1>1, <1>2, <1>3 DEF Otherwise

\* A poll after the header was accepted.
LEMMA EstablishedOK ==
  ASSUME NEW r, Here(r), receiveStageEstablished(r)
  PROVE  Inductive'
<1>0. stage = StageEstablished /\ 1 \in 0 .. NumMod - 1
  BY NumberAssumption DEF receiveStageEstablished
<1>1. CASE Refuse(r, AckC) \/ Refuse(r, Ctl("Nak"))
  BY <1>1, CountErrorOK, AnswerTypes DEF Refuse
<1>2. CASE Accept(r, 1)
  BY <1>0, <1>2, AcceptOK
<1>3. CASE Otherwise(r)
  BY <1>0, <1>3, OtherwiseOK
<1> QED BY <1>1, <1>2, <1>3 DEF receiveStageEstablished

\* A poll while blocks arrive.
LEMMA TransmittingOK ==
  ASSUME NEW r, Here(r), receiveStageTransmitting(r)
  PROVE  Inductive'
<1>0. stage = StageTransmitting /\ NextNum(dataCount) \in 0 .. NumMod - 1
  BY NextNumType DEF receiveStageTransmitting, Here, Inductive, TypeOK
<1>1. CASE Refuse(r, Ctl("Ack")) \/ Refuse(r, Ctl("Nak"))
  BY <1>1, CountErrorOK, AnswerTypes DEF Refuse
<1>2. CASE Accept(r, NextNum(dataCount))
  BY <1>0, <1>2, AcceptOK
<1>3. CASE Otherwise(r)
  BY <1>0, <1>3, OtherwiseOK
<1> QED BY <1>1, <1>2, <1>3 DEF receiveStageTransmitting

\* A poll while the second EOT is awaited.
LEMMA FinishingOK ==
  ASSUME NEW r, Here(r), receiveStageFinishing(r)
  PROVE  Inductive'
<1>0. KeepFile /\ UNCHANGED crashed /\ stage # StageEstablishing
      /\ stage \in StageEstablished .. StageFinished
  BY DEF receiveStageFinishing, StageEstablishing, StageEstablished, StageFinishing,
         StageFinished
<1>1. CASE Reset(StageFinished, 0) /\ Send(AckC) /\ Going
  BY <1>0, <1>1, EotOK, AnswerTypes
<1>2. CASE Aborted
  BY <1>0, <1>2, AbortOK
<1>3. CASE Tick("Error", r, Send(Ctl("Nak")))
  BY <1>0, <1>3, TickOK, AnswerTypes
<1> QED BY <1>1, <1>2, <1>3 DEF receiveStageFinishing

\* A poll while the closing header is awaited, which ends the session with success.
LEMMA FinishedOK ==
  ASSUME NEW r, Here(r), receiveStageFinished(r)
  PROVE  Inductive'
<1>0. KeepFile /\ UNCHANGED crashed
  BY DEF receiveStageFinished
<1>1. CASE Reset(StageNone, 0) /\ Send(Ctl("Ack")) /\ Report("Finish")
  <2>1. txBuffer' \in Seq(Unit) /\ out' \in Seq(Unit)
    BY <1>1, AnswerTypes, WriteType DEF Here, Inductive
  <2>2. status' \in Terminal /\ fileOpen' = FALSE /\ writeTimer' = TRUE
    BY <1>1 DEF Report, Terminal
  <2>3. fileSize' \in Nat /\ fileCount' \in Nat /\ UNCHANGED received
    BY <1>0, KeptTypes DEF Here
  <2>4. Ends
    BY <1>0, <1>1, <2>1, <2>2, <2>3 DEF Ends
  <2> QED BY <2>4, EndsOK DEF Here
<1>2. CASE CountError(r, Ctl("Nak")) \/ CountError(r, AckC)
  BY <1>0, <1>2, CountErrorOK, AnswerTypes
<1>3. CASE Aborted
  BY <1>0, <1>3, AbortOK
<1>4. CASE Tick("Error", r, Send(Ctl("Nak")))
  BY <1>0, <1>4, TickOK, AnswerTypes
<1> QED BY <1>1, <1>2, <1>3, <1>4 DEF receiveStageFinished

\* readTimeOut() as a whole.
LEMMA ReadTimeOutOK ==
  ASSUME Inductive, ReadTimeOut
  PROVE  Inductive'
<1>1. CASE receiveStageNone /\ NoPoll
  BY <1>1, NoneOK DEF ReadTimeOut
<1>2. ASSUME stage # StageNone, NEW r \in receivePacket, Poll(r),
             \/ receiveStageEstablishing(r) \/ receiveStageEstablished(r)
             \/ receiveStageTransmitting(r) \/ receiveStageFinishing(r)
             \/ receiveStageFinished(r)
      PROVE  Inductive'
  <2>1. ReadOK(r)
    BY ReceiveOK DEF Inductive, TypeOK
  <2>2. Here(r)
    BY <1>2, <2>1 DEF ReadTimeOut, Around, Here
  <2> QED BY <1>2, <2>2, EstablishingOK, EstablishedOK, TransmittingOK, FinishingOK,
             FinishedOK
<1> QED BY <1>1, <1>2 DEF ReadTimeOut, receive

-----------------------------------------------------------------------------
(* The other steps *)

\* startReceive(): it takes over an engine without a transfer.
LEMMA StartOK ==
  ASSUME Inductive, startReceive
  PROVE  Inductive'
<1> USE DEF Inductive
<1>1. /\ ~button /\ status' = "Establish" /\ ~portOpen /\ ~fileOpen /\ ~readTimer
      /\ ~writeTimer /\ NoTransfer /\ ~crashed
      /\ UNCHANGED <<timeCount, errorCount, dataCount, code, stage, rxBuffer, txBuffer,
                     writeTimer, fileOpen, out, fileSize, fileCount, received, crashed>>
  BY DEF startReceive, Start, engine, KeepFile, file, SessionOwnsResources, OutcomePending
<1>2. \/ readTimer' = TRUE /\ portOpen' = TRUE /\ button' = TRUE /\ in' = <<>>
      \/ UNCHANGED <<readTimer, portOpen, button, in>>
  BY DEF startReceive, Start
<1>3. status' \in Running /\ status' \notin Terminal /\ status' \in Statuses
  BY <1>1 DEF Running, Terminal, Statuses
<1>4. TypeOK'
  <2>0. in \in Seq(Unit)
    BY DEF TypeOK
  <2>1. in' \in Seq(Unit)
    <3>1. CASE in' = <<>>
      BY <3>1
    <3>2. CASE in' = in
      BY <2>0, <3>2
    <3> QED BY <1>2, <3>1, <3>2
  <2>2. readTimer' \in BOOLEAN /\ portOpen' \in BOOLEAN /\ button' \in BOOLEAN
    BY <1>2 DEF TypeOK
  <2> QED BY <1>1, <1>3, <2>1, <2>2 DEF TypeOK
<1>5. PartialPacket' /\ FileOpenWhileReceiving' /\ CountMatchesFile' /\ WaitIsBounded'
  BY <1>1 DEF PartialPacket, FileOpenWhileReceiving, CountMatchesFile, WaitIsBounded
<1>6. SessionOwnsResources' /\ OutcomePending' /\ CrashedInSession'
  BY <1>1, <1>2, <1>3 DEF SessionOwnsResources, OutcomePending, NoTransfer,
                          CrashedInSession
<1> QED BY <1>4, <1>5, <1>6

\* stopReceive(): the file is closed, the engine is reset; readTimer may still
\* be armed, and then fires in StageNone.
LEMMA StopOK ==
  ASSUME Inductive, stopReceive
  PROVE  Inductive'
<1> USE DEF Inductive
<1>1. /\ button /\ portOpen /\ status' = "Abort" /\ fileOpen' = FALSE /\ writeTimer' = TRUE
      /\ stage' = StageNone /\ dataCount' = 0 /\ timeCount' = 0 /\ errorCount' = 0
      /\ code' = "None" /\ rxBuffer' = <<>> /\ Send(Cans) /\ ~crashed
      /\ UNCHANGED <<readTimer, portOpen, button, in, fileSize, fileCount, received,
                     crashed>>
  BY DEF stopReceive, Stop, Reset, KeepFile, file, SessionOwnsResources
<1>2. status' \in Terminal /\ status' \notin Running /\ status' \in Statuses
  BY <1>1 DEF Running, Terminal, Statuses
<1>3. TypeOK'
  <2>1. txBuffer' \in Seq(Unit) /\ out' \in Seq(Unit)
    BY <1>1, CansType, WriteType
  <2>2. dataCount' \in 0 .. NumMod - 1 /\ stage' \in StageNone .. StageFinished
        /\ timeCount' \in Nat /\ errorCount' \in Nat
    BY <1>1, NumberAssumption DEF StageNone, StageFinished
  <2>3. code' \in {"None", "Soh", "Stx"} /\ rxBuffer' \in Seq(Unit) /\ in' \in Seq(Unit)
    BY <1>1 DEF TypeOK
  <2>4. /\ readTimer' \in BOOLEAN /\ writeTimer' \in BOOLEAN /\ fileOpen' \in BOOLEAN
        /\ portOpen' \in BOOLEAN /\ button' \in BOOLEAN /\ crashed' \in BOOLEAN
    BY <1>1 DEF TypeOK
  <2>5. fileSize' \in Nat /\ fileCount' \in Nat /\ received' \in Seq(Nat)
    BY <1>1 DEF TypeOK
  <2> QED BY <1>2, <2>1, <2>2, <2>3, <2>4, <2>5 DEF TypeOK
<1>4. PartialPacket' /\ CountMatchesFile' /\ CrashedInSession'
  BY <1>1 DEF PartialPacket, CountMatchesFile, CrashedInSession
<1>5. FileOpenWhileReceiving'
  BY <1>1 DEF FileOpenWhileReceiving, StageNone, StageEstablished, StageFinished
<1>6. SessionOwnsResources' /\ OutcomePending'
  BY <1>1, <1>2 DEF SessionOwnsResources, OutcomePending, NoTransfer
<1>7. WaitIsBounded'
  BY <1>1, ClockStart, ClockAssumption DEF WaitIsBounded
<1> QED BY <1>3, <1>4, <1>5, <1>6, <1>7

\* writeTimeOut(): by now readTimer is not armed, so that nothing outlives the
\* session.
LEMMA WriteTimeOutOK ==
  ASSUME Inductive, writeTimeOut
  PROVE  Inductive'
<1> USE DEF Inductive
<1>1. /\ writeTimer /\ ~readTimer /\ writeTimer' = FALSE /\ portOpen' = FALSE /\ in' = <<>>
      /\ button' = (IF status \in Running THEN button ELSE FALSE) /\ ~crashed
      /\ UNCHANGED <<timeCount, errorCount, dataCount, code, stage, rxBuffer, txBuffer,
                     status, readTimer, fileOpen, out, fileSize, fileCount, received,
                     crashed>>
  BY DEF writeTimeOut, WriteTimeOut, engine, KeepFile, file
<1>2. status \in Terminal /\ status \notin Running /\ button' = FALSE /\ NoTransfer
  BY <1>1, StatusTypes DEF OutcomePending
<1>3. fileOpen = FALSE
  BY <1>2 DEF FileOpenWhileReceiving, NoTransfer, TypeOK, StageNone, StageEstablishing,
              StageEstablished, StageFinished
<1>4. TypeOK'
  <2>1. in' \in Seq(Unit)
    BY <1>1
  <2>2. writeTimer' \in BOOLEAN /\ portOpen' \in BOOLEAN /\ button' \in BOOLEAN
    BY <1>1, <1>2
  <2> QED BY <1>1, <2>1, <2>2 DEF TypeOK
<1>5. PartialPacket' /\ FileOpenWhileReceiving' /\ CountMatchesFile' /\ WaitIsBounded'
  BY <1>1 DEF PartialPacket, FileOpenWhileReceiving, CountMatchesFile, WaitIsBounded
<1>6. SessionOwnsResources' /\ OutcomePending' /\ CrashedInSession'
  BY <1>1, <1>2, <1>3 DEF SessionOwnsResources, OutcomePending, NoTransfer,
                          CrashedInSession
<1> QED BY <1>4, <1>5, <1>6

\* The state in which the program starts, with whatever is on the wire.
Fresh == /\ timeCount = 0 /\ errorCount = 0 /\ dataCount = 0
         /\ code = "None" /\ stage = StageNone
         /\ rxBuffer = <<>> /\ txBuffer = <<>>
         /\ status = "Idle" /\ readTimer = FALSE /\ writeTimer = FALSE
         /\ portOpen = FALSE /\ fileOpen = FALSE /\ button = FALSE
         /\ in = <<>> /\ out \in Seq(Unit)
         /\ fileSize = 0 /\ fileCount = 0 /\ received = <<>> /\ crashed = FALSE

\* It satisfies the invariant.
LEMMA FreshOK == Fresh => Inductive
<1> SUFFICES ASSUME Fresh PROVE Inductive
  OBVIOUS
<1> USE DEF Fresh
<1>1. stage = StageNone /\ stage \in StageNone .. StageFinished
      /\ stage \notin StageEstablished .. StageFinished
  BY DEF StageNone, StageEstablished, StageFinished
<1>2. status = "Idle" /\ status \in Statuses /\ status \notin Terminal
  BY DEF Statuses, Terminal
<1>3. TypeOK
  <2>1. dataCount \in 0 .. NumMod - 1 /\ timeCount \in Nat /\ errorCount \in Nat
        /\ fileSize \in Nat /\ fileCount \in Nat
    BY NumberAssumption
  <2>2. in \in Seq(Unit) /\ out \in Seq(Unit) /\ rxBuffer \in Seq(Unit)
        /\ txBuffer \in Seq(Unit) /\ received \in Seq(Nat)
    OBVIOUS
  <2>3. readTimer \in BOOLEAN /\ writeTimer \in BOOLEAN /\ fileOpen \in BOOLEAN
        /\ portOpen \in BOOLEAN /\ button \in BOOLEAN /\ crashed \in BOOLEAN
    OBVIOUS
  <2> QED BY <1>1, <1>2, <2>1, <2>2, <2>3 DEF TypeOK
<1>4. PartialPacket /\ CountMatchesFile /\ CrashedInSession
  BY DEF PartialPacket, CountMatchesFile, CrashedInSession
<1>5. FileOpenWhileReceiving
  BY <1>1 DEF FileOpenWhileReceiving
<1>6. SessionOwnsResources /\ OutcomePending
  BY <1>1, <1>2 DEF SessionOwnsResources, OutcomePending, NoTransfer
<1>7. WaitIsBounded
  BY ClockStart, ClockAssumption DEF WaitIsBounded
<1> QED BY <1>3, <1>4, <1>5, <1>6, <1>7 DEF Inductive

\* So does the program when it is started again after a crash.
LEMMA RelaunchOK ==
  ASSUME Inductive, Relaunch
  PROVE  Inductive'
<1>1. Fresh'
  BY DEF Relaunch, Reset, Fresh, Inductive, TypeOK
<1>2. Fresh' => Inductive'
  BY FreshOK, PTL
<1> QED BY <1>1, <1>2

\* Units on the wire and steps of others change no more than "in" and "out".
LEMMA WireOK ==
  ASSUME Inductive, Elsewhere, in' \in Seq(Unit), out' \in Seq(Unit)
  PROVE  Inductive'
<1>1. UNCHANGED <<timeCount, errorCount, dataCount, code, stage, rxBuffer, txBuffer,
                  status, readTimer, writeTimer, portOpen, fileOpen, button,
                  fileSize, fileCount, received, crashed>>
  BY DEF Elsewhere, engine, session, file
<1>2. TypeOK'
  BY <1>1 DEF Inductive, TypeOK
<1> QED BY <1>1, <1>2 DEF Inductive, PartialPacket, SessionOwnsResources,
     FileOpenWhileReceiving, OutcomePending, NoTransfer, WaitIsBounded, CountMatchesFile,
     CrashedInSession

\* Every step preserves the invariant.
LEMMA StepOK ==
  ASSUME Inductive, [Next]_vars
  PROVE  Inductive'
<1>0. in \in Seq(Unit) /\ out \in Seq(Unit)
  BY DEF Inductive, TypeOK
<1>1. CASE startReceive
  BY <1>1, StartOK
<1>2. CASE stopReceive
  BY <1>2, StopOK
<1>3. CASE ReadTimeOut
  BY <1>3, ReadTimeOutOK
<1>4. CASE writeTimeOut
  BY <1>4, WriteTimeOutOK
<1>5. CASE Relaunch
  BY <1>5, RelaunchOK
<1>6. CASE Arrive
  <2>1. PICK u \in Heard : in' = Append(in, u)
    BY <1>6 DEF Arrive
  <2>2. in' \in Seq(Unit) /\ out' \in Seq(Unit)
    BY <1>0, <1>6, <2>1, HeardAssumption DEF Arrive
  <2> QED BY <1>6, <2>2, WireOK DEF Arrive
<1>7. CASE Drain
  <2>1. in' \in Seq(Unit) /\ out' \in Seq(Unit)
    BY <1>0, <1>7 DEF Drain
  <2> QED BY <1>7, <2>1, WireOK DEF Drain
<1>8. CASE UNCHANGED vars
  <2>1. in' \in Seq(Unit) /\ out' \in Seq(Unit) /\ Elsewhere
    BY <1>0, <1>8 DEF vars, ymodemVars, Elsewhere
  <2> QED BY <2>1, WireOK
<1> QED BY <1>1, <1>2, <1>3, <1>4, <1>5, <1>6, <1>7, <1>8 DEF Next, Program

\* The program starts with no session.
LEMMA InitOK == Init => Inductive
<1>1. <<>> \in Seq(Unit)
  OBVIOUS
<1>2. Init => Fresh
  BY <1>1 DEF Init, YmodemInit, Fresh
<1> QED BY <1>2, FreshOK

-----------------------------------------------------------------------------
(* The theorems *)

\* The invariant the others follow from, for every peer, every user and every
\* disk: what the engine, the timers, the port, the file and the button say of
\* each other in YmodemFileReceive, ui_ymodem and Ymodem::receive().
THEOREM ReceiverInvariant == Spec => []Inductive
<1>1. Init => Inductive
  BY InitOK
<1>2. Inductive /\ [Next]_vars => Inductive'
  BY StepOK
<1> QED BY <1>1, <1>2, PTL DEF Spec

\* Every variable keeps to its type: no stage, number or buffer of
\* Ymodem::receive() leaves its range.
THEOREM ReceiverTypes == Spec => []TypeOK
<1>1. Inductive => TypeOK
  BY DEF Inductive
<1> QED BY <1>1, ReceiverInvariant, PTL

\* An idle window holds no port, no file and no timer, and a locked one has the
\* port and a timer that will unlock it, also after a crash in a session.
THEOREM ReceiverOwnsResources == Spec => []SessionOwnsResources
<1>1. Inductive => SessionOwnsResources
  BY DEF Inductive
<1> QED BY <1>1, ReceiverInvariant, PTL

\* The file is open exactly in the stages in which the engine may write to it,
\* after a cancel, an error and a session started anew.
THEOREM ReceiverFileOwned == Spec => []FileOpenWhileReceiving
<1>1. Inductive => FileOpenWhileReceiving
  BY DEF Inductive
<1> QED BY <1>1, ReceiverInvariant, PTL

\* The longest wait and the number of errors are what the note on Ymodem says.
THEOREM ReceiverWaitBounded == Spec => []WaitIsBounded
<1>1. Inductive => WaitIsBounded
  BY DEF Inductive
<1> QED BY <1>1, ReceiverInvariant, PTL

\* Whatever packets arrive, fileSize - fileCount of callback() does not wrap and
\* the file holds as many bytes as were counted, up to the end of the disk.
THEOREM ReceiverCountTrue == Spec => []CountMatchesFile
<1>1. Inductive => CountMatchesFile
  BY DEF Inductive
<1> QED BY <1>1, ReceiverInvariant, PTL

\* A poll after the outcome, which only a cancelled session's timer can bring,
\* finds the engine in StageNone; the program that is started again after a
\* crash had no outcome yet.
LEMMA OutcomeStays ==
  ASSUME Inductive, [Next]_vars, button, status \in Terminal, status' # status
  PROVE  status' = "Abort"
<1>1. CASE startReceive
  BY <1>1 DEF startReceive, Start
<1>2. CASE stopReceive
  BY <1>2 DEF stopReceive, Stop
<1>3. CASE ReadTimeOut
  <2>1. stage = StageNone
    BY <1>3 DEF ReadTimeOut, Inductive, OutcomePending
  <2>2. receiveStageNone
    BY <1>3, <2>1 DEF ReadTimeOut, receive
  <2> QED BY <2>2 DEF receiveStageNone, Going
<1>4. CASE writeTimeOut
  BY <1>4 DEF writeTimeOut, WriteTimeOut
<1>5. CASE Relaunch
  BY <1>5, StatusTypes DEF Relaunch, Inductive, CrashedInSession
<1>6. CASE Arrive \/ Drain
  BY <1>6 DEF Arrive, Drain, Elsewhere, session
<1>7. CASE UNCHANGED vars
  BY <1>7 DEF vars, ymodemVars, session
<1> QED BY <1>1, <1>2, <1>3, <1>4, <1>5, <1>6, <1>7 DEF Next, Program

\* Only the user, by clicking cancel, changes an outcome that is pending: a late
\* packet or a poll that was still armed does not.
THEOREM ReceiverOutcomeFinal == Spec => OutcomeIsFinal
<1>1. Inductive /\ [Next]_vars
        => [button /\ status \in Terminal /\ status' # status => status' = "Abort"]_vars
  BY OutcomeStays
<1> QED BY <1>1, ReceiverInvariant, PTL DEF Spec, OutcomeIsFinal
-----------------------------------------------------------------------------
(* What a poll does, as the other end of the cable sees it *)

\* w was written, if the port was open.
Wrote(w) == out' = out \/ out' = out \o w

\* The poll read the code c.
Hears(c) == \E r \in receivePacket : r.ret = c /\ Poll(r)

Answers == {Ctl("C"), Ctl("Nak"), Ctl("Ack"), AckC}

Idles == /\ stage = StageNone /\ stage' = StageEstablishing
         /\ Wrote(Ctl("C")) /\ NoPoll /\ code' = "None"
         /\ UNCHANGED <<status, fileSize, fileCount, received, crashed>>

\* The header or the file is given up; a header that names a file that cannot be
\* written still sets fileSize and fileCount.
Gives(up) == /\ stage' = StageNone /\ status' = up
             /\ up = "Finish" => stage = StageFinished
             /\ Wrote(Cans) \/ (up = "Finish" /\ Wrote(Ctl("Ack")))
             /\ UNCHANGED <<received, crashed>>

\* The packet that r carries has the number that is due.
Due(r) == /\ r.pkt.kind # "None"
          /\ \/ stage = StageEstablished /\ r.pkt.num = 1
             \/ stage = StageTransmitting /\ r.pkt.num = NextNum(dataCount)

\* What was read does not change what the receiver waits for.
InVain(r) == stage \in {StageEstablished, StageTransmitting}
               => ~Due(r) /\ r.ret \notin {"Eot"} \cup AbortCodes

\* An answer that fits the stage: ACK alone is for a packet.
Suits(w) == /\ w \in Answers
            /\ stage = StageEstablishing => w = Ctl("C")
            /\ stage # StageTransmitting => w # Ctl("Ack")

\* The same is asked for again.
Asks == /\ stage # StageNone
        /\ \E w : Suits(w) /\ Wrote(w)
        /\ \E r \in receivePacket : Poll(r) /\ code' = r.code /\ InVain(r)
        /\ UNCHANGED <<stage, dataCount, status, fileSize, fileCount, received, crashed>>

HeaderTaken ==
  /\ stage = StageEstablishing /\ stage' = StageEstablished
  /\ status \notin Terminal /\ status' = "Establish" /\ code' = "None"
  /\ \E r \in receivePacket : /\ r.pkt.kind = "Soh" /\ Poll(r)
                              /\ fileSize' \in Announced(r.pkt)
  /\ fileCount' = 0 /\ received' = <<>> /\ UNCHANGED crashed
  /\ Wrote(AckC)

BlockTaken ==
  /\ stage' = StageTransmitting
  /\ fileSize # 0 /\ UNCHANGED <<fileSize, crashed>>
  /\ status' = "Transmit" /\ code' = "None"
  /\ \E r \in receivePacket :
       /\ Due(r) /\ Poll(r) /\ dataCount' = r.pkt.num
       /\ received' = OnDisk(received \o Payload(r.pkt, Taken(DataLength(r))))
       /\ fileCount' = fileCount + Taken(DataLength(r))
  /\ Wrote(Ctl("Ack"))

BlockKills ==
  /\ fileSize = 0 /\ crashed' = TRUE
  /\ \E r \in receivePacket : Due(r) /\ Poll(r)
  /\ UNCHANGED <<stage, dataCount, status, fileSize, fileCount, received, out>>

EotRefused ==
  /\ stage \in {StageEstablished, StageTransmitting} /\ stage' = StageFinishing
  /\ Hears("Eot") /\ code' = "None" /\ Wrote(Ctl("Nak"))
  /\ UNCHANGED <<status, fileSize, fileCount, received, crashed>>

EotTaken ==
  /\ stage = StageFinishing /\ stage' = StageFinished
  /\ Hears("Eot") /\ code' = "None" /\ Wrote(AckC)
  /\ UNCHANGED <<status, fileSize, fileCount, received, crashed>>

PollEffect == \/ Idles \/ (\E up \in Terminal : Gives(up)) \/ Asks \/ HeaderTaken
              \/ BlockTaken \/ BlockKills \/ EotRefused \/ EotTaken

\* Nothing is written, or what was asked for is.
LEMMA WriteEffect ==
  /\ Quiet => (\A w : Wrote(w)) /\ out' = out
  /\ \A w : Send(w) => Wrote(w) /\ txBuffer' = w
BY DEF Quiet, Send, Write, Wrote

\* A timeout, too many errors, a cancelling peer: the session is given up.
LEMMA GivesUp ==
  ASSUME KeepFile, UNCHANGED crashed
  PROVE  /\ \A st \in Terminal \ {"Finish"} : Fail(st) => Gives(st)
         /\ Aborted => Gives("Abort")
BY WriteEffect DEF Fail, Aborted, Reset, Report, Gives, KeepFile, file

\* The answers are four different ones.
LEMMA AnswersDiffer ==
  /\ Ctl("C") # Ctl("Ack") /\ Ctl("Nak") # Ctl("Ack") /\ AckC # Ctl("Ack")
  /\ Ctl("C") \in Answers /\ Ctl("Nak") \in Answers /\ Ctl("Ack") \in Answers
  /\ AckC \in Answers
<1>1. \A c : Ctl(c)[1].byte = c /\ Len(Ctl(c)) = 1
  BY DEF Ctl
<1>2. Len(AckC) = 2
  BY DEF AckC, Ctl
<1>3. Ctl("C") # Ctl("Ack") /\ Ctl("Nak") # Ctl("Ack")
  BY <1>1
<1>4. AckC # Ctl("Ack")
  BY <1>1, <1>2
<1> QED BY <1>3, <1>4 DEF Answers

\* Only a packet that is returned with its code can be due, and only one with
\* the number that is waited for.
LEMMA NotDue ==
  ASSUME code \in {"None", "Soh", "Stx"}, dataCount \in 0 .. NumMod - 1,
         NEW r \in receivePacket,
         \/ r.ret \notin {"Soh", "Stx", "Eot"} \cup AbortCodes
         \/ /\ r.pkt.kind # "None" \/ r.ret \in {"Soh", "Stx"}
            /\ stage = StageEstablished => r.pkt.num # 1
            /\ stage = StageTransmitting => r.pkt.num # NextNum(dataCount)
  PROVE  InVain(r)
<1>1. r.pkt = NoPacket \/ r.ret \in {"Soh", "Stx"}
  BY PacketHasRet
<1>2. NoPacket.kind = "None"
  BY DEF NoPacket
<1>3. StageEstablished # StageTransmitting
  BY DEF StageEstablished, StageTransmitting
<1> QED BY <1>1, <1>2, <1>3 DEF InVain, Due, AbortCodes

\* An error is answered, or is one too many.
LEMMA ErrorEffect ==
  ASSUME stage # StageNone, KeepFile, UNCHANGED crashed, NEW r \in receivePacket, Poll(r),
         InVain(r), NEW w, Suits(w), CountError(r, w)
  PROVE  Asks \/ Gives("Error")
<1>1. CASE Fail("Error")
  BY <1>1, GivesUp DEF Terminal
<1>2. CASE UNCHANGED <<stage, dataCount>> /\ code' = r.code /\ Send(w) /\ Going
  BY <1>2, WriteEffect DEF Asks, Going, KeepFile, file
<1> QED BY <1>1, <1>2 DEF CountError

\* A period without anything of use is answered as well.
LEMMA TickEffect ==
  ASSUME stage # StageNone, KeepFile, UNCHANGED crashed, NEW r \in receivePacket, Poll(r),
         InVain(r), NEW w, Suits(w), NEW st \in Terminal \ {"Finish"}, Tick(st, r, Send(w))
  PROVE  Asks \/ Gives(st)
<1>1. CASE Fail(st)
  BY <1>1, GivesUp
<1>2. CASE UNCHANGED <<stage, dataCount>> /\ code' = r.code /\ (Send(w) \/ Quiet) /\ Going
  BY <1>2, WriteEffect DEF Asks, Going, KeepFile, file
<1> QED BY <1>1, <1>2 DEF Tick

\* receiveStageNone() and receiveStageEstablishing(): C is sent until a header
\* opens the file.
LEMMA OpeningEffect ==
  /\ receiveStageNone /\ NoPoll => Idles
  /\ \A r \in receivePacket :
       status \notin Terminal /\ receiveStageEstablishing(r) /\ Poll(r) => PollEffect
<1>1. ASSUME receiveStageNone, NoPoll PROVE Idles
  BY <1>1, WriteEffect DEF receiveStageNone, Reset, Going, KeepFile, file, Idles
<1>2. ASSUME NEW r \in receivePacket, status \notin Terminal,
             receiveStageEstablishing(r), Poll(r)
      PROVE  PollEffect
  <2>1. stage = StageEstablishing /\ stage # StageNone /\ stage # StageFinished
        /\ UNCHANGED crashed /\ InVain(r) /\ Suits(Ctl("C"))
    BY <1>2, StagesDiffer, AnswersDiffer
       DEF receiveStageEstablishing, StageEstablishing, StageFinished, InVain, Suits,
           StageEstablished, StageTransmitting
  <2>2. CASE IsHeader(r) /\ Establish(r.pkt)
    <3>1. ASSUME NoSession, UNCHANGED received PROVE PollEffect
      <4>1. Gives("Error")
        BY <2>1, <3>1, WriteEffect DEF NoSession, Reset, Gives
      <4> QED BY <4>1 DEF PollEffect, Terminal
    <3>2. ASSUME NEW size \in Announced(r.pkt), fileSize' = size, fileCount' = 0,
                 received' = <<>>, Reset(StageEstablished, 0), Send(AckC),
                 status' = "Establish"
          PROVE  PollEffect
      <4>1. HeaderTaken
        BY <1>2, <2>1, <2>2, <3>2, WriteEffect DEF HeaderTaken, IsHeader, Reset
      <4> QED BY <4>1 DEF PollEffect
    <3> QED BY <2>2, <3>1, <3>2 DEF Establish, KeepFile, file
  <2>3. CASE CountError(r, Ctl("C")) /\ KeepFile
    BY <1>2, <2>1, <2>3, ErrorEffect DEF PollEffect, Terminal
  <2>4. CASE Aborted /\ KeepFile
    BY <2>1, <2>4, GivesUp DEF PollEffect, Terminal
  <2>5. CASE Tick("Timeout", r, Send(Ctl("C"))) /\ KeepFile
    BY <1>2, <2>1, <2>5, TickEffect DEF PollEffect, Terminal
  <2> QED BY <1>2, <2>2, <2>3, <2>4, <2>5 DEF receiveStageEstablishing
<1> QED BY <1>1, <1>2

\* A packet with the number that is due is written, or kills the process.
LEMMA AcceptEffect ==
  ASSUME NEW r \in receivePacket, Due(r), Accept(r, r.pkt.num), Poll(r)
  PROVE  PollEffect
<1>1. CASE DividesByZero /\ Crash(r)
  BY <1>1 DEF PollEffect, BlockKills, DividesByZero, Crash, Going, file
<1>2. CASE ~DividesByZero
  BY <1>2, WriteEffect DEF PollEffect, BlockTaken, DividesByZero, Accept, Reset
<1> QED BY <1>1, <1>2 DEF Accept

\* Any other packet is answered, and EOT refused.
LEMMA OtherwiseEffect ==
  ASSUME stage \in {StageEstablished, StageTransmitting}, NEW r \in receivePacket, Poll(r),
         Inductive,
         \/ Otherwise(r)
         \/ InVain(r) /\ \E w : Suits(w) /\ Refuse(r, w)
  PROVE  PollEffect
<1>1. stage # StageNone /\ stage # StageEstablishing
  BY DEF StageNone, StageEstablishing, StageEstablished, StageTransmitting
<1>2. KeepFile /\ UNCHANGED crashed
  BY DEF Otherwise, Refuse
<1>3. CASE InVain(r) /\ \E w : Suits(w) /\ Refuse(r, w)
  BY <1>1, <1>2, <1>3, ErrorEffect DEF Refuse, PollEffect, Terminal
<1>4. CASE r.ret = "Eot" /\ FirstEot
  BY <1>2, <1>4, WriteEffect DEF PollEffect, EotRefused, Hears, FirstEot, Reset, Going,
                                 KeepFile, file
<1>5. CASE Aborted
  BY <1>1, <1>2, <1>5, GivesUp DEF PollEffect, Terminal
<1>6. CASE /\ r.ret \notin {"Soh", "Stx", "Eot"} \cup AbortCodes
           /\ Tick("Error", r, Send(Ctl("Nak")))
  <2>1. InVain(r)
    BY <1>6, NotDue DEF Inductive, TypeOK
  <2>2. Suits(Ctl("Nak"))
    BY <1>1, AnswersDiffer DEF Suits
  <2> QED BY <1>1, <1>2, <1>6, <2>1, <2>2, TickEffect DEF PollEffect, Terminal
<1> QED BY <1>3, <1>4, <1>5, <1>6 DEF Otherwise

\* receiveStageEstablished() and receiveStageTransmitting().
LEMMA DataEffect ==
  ASSUME Inductive, NEW r \in receivePacket, Poll(r),
         receiveStageEstablished(r) \/ receiveStageTransmitting(r)
  PROVE  PollEffect
<1>0. code \in {"None", "Soh", "Stx"} /\ dataCount \in 0 .. NumMod - 1
      /\ NextNum(dataCount) # dataCount
  <2>1. code \in {"None", "Soh", "Stx"} /\ dataCount \in 0 .. NumMod - 1
    BY DEF Inductive, TypeOK
  <2>2. ASSUME NEW d \in 0 .. NumMod - 1 PROVE NextNum(d) # d
    <3>1. CASE d + 1 < NumMod
      BY <3>1, NumberAssumption DEF NextNum
    <3>2. CASE d + 1 = NumMod
      <4>1. NextNum(d) = 0
        BY <3>2, NumberAssumption DEF NextNum
      <4> QED BY <3>2, <4>1, NumberAssumption
    <3> QED BY <3>1, <3>2, NumberAssumption
  <2> QED BY <2>1, <2>2
<1>1. CASE receiveStageEstablished(r)
  <2>1. stage = StageEstablished /\ stage # StageTransmitting /\ stage # StageEstablishing
    BY <1>1 DEF receiveStageEstablished, StageEstablished, StageTransmitting,
                StageEstablishing
  <2>2. Suits(AckC) /\ Suits(Ctl("Nak"))
    BY <2>1, AnswersDiffer DEF Suits
  <2>3. CASE IsHeader(r) /\ Refuse(r, AckC)
    <3>1. InVain(r)
      BY <1>0, <2>1, <2>3, NotDue DEF IsHeader
    <3> QED BY <2>1, <2>2, <2>3, <3>1, OtherwiseEffect
  <2>4. CASE IsPacket(r, 1) /\ Accept(r, 1)
    BY <2>1, <2>4, AcceptEffect DEF IsPacket, Due
  <2>5. CASE r.ret \in {"Soh", "Stx"} /\ ~IsPacket(r, 1) /\ Refuse(r, Ctl("Nak"))
    <3>1. InVain(r)
      BY <2>1, <2>5 DEF InVain, Due, IsPacket, AbortCodes
    <3> QED BY <2>1, <2>2, <2>5, <3>1, OtherwiseEffect
  <2>6. CASE Otherwise(r)
    BY <2>1, <2>6, OtherwiseEffect
  <2> QED BY <1>1, <2>3, <2>4, <2>5, <2>6 DEF receiveStageEstablished
<1>2. CASE receiveStageTransmitting(r)
  <2>1. stage = StageTransmitting /\ stage # StageEstablished /\ stage # StageEstablishing
    BY <1>2 DEF receiveStageTransmitting, StageEstablished, StageTransmitting,
                StageEstablishing
  <2>2. Suits(Ctl("Ack")) /\ Suits(Ctl("Nak"))
    BY <2>1, AnswersDiffer DEF Suits
  <2>3. CASE IsPacket(r, dataCount) /\ Refuse(r, Ctl("Ack"))
    <3>1. InVain(r)
      BY <1>0, <2>1, <2>3, NotDue DEF IsPacket
    <3> QED BY <2>1, <2>2, <2>3, <3>1, OtherwiseEffect
  <2>4. CASE IsPacket(r, NextNum(dataCount)) /\ Accept(r, NextNum(dataCount))
    BY <2>1, <2>4, AcceptEffect DEF IsPacket, Due
  <2>5. CASE /\ r.ret \in {"Soh", "Stx"} /\ ~IsPacket(r, NextNum(dataCount))
             /\ Refuse(r, Ctl("Nak"))
    <3>1. InVain(r)
      BY <2>1, <2>5 DEF InVain, Due, IsPacket, AbortCodes
    <3> QED BY <2>1, <2>2, <2>5, <3>1, OtherwiseEffect
  <2>6. CASE Otherwise(r)
    BY <2>1, <2>6, OtherwiseEffect
  <2> QED BY <1>2, <2>3, <2>4, <2>5, <2>6 DEF receiveStageTransmitting
<1> QED BY <1>1, <1>2

\* receiveStageFinishing() and receiveStageFinished().
LEMMA ClosingEffect ==
  ASSUME Inductive, NEW r \in receivePacket, Poll(r),
         receiveStageFinishing(r) \/ receiveStageFinished(r)
  PROVE  PollEffect
<1>1. stage \in {StageFinishing, StageFinished} /\ KeepFile /\ UNCHANGED crashed
  BY DEF receiveStageFinishing, receiveStageFinished, Inductive, TypeOK, StageNone,
         StageFinishing, StageFinished
<1>2. stage # StageNone /\ stage \notin {StageEstablished, StageTransmitting} /\ InVain(r)
  BY <1>1 DEF StageNone, StageEstablished, StageTransmitting, StageFinishing, StageFinished,
              InVain
<1>3. Suits(AckC) /\ Suits(Ctl("Nak"))
  <2>1. stage # StageEstablishing
    BY <1>1 DEF StageEstablishing, StageFinishing, StageFinished
  <2> QED BY <2>1, AnswersDiffer DEF Suits
<1>4. CASE \/ CountError(r, Ctl("Nak")) \/ CountError(r, AckC)
           \/ Tick("Error", r, Send(Ctl("Nak"))) \/ Aborted
  BY <1>1, <1>2, <1>3, <1>4, ErrorEffect, TickEffect, GivesUp DEF PollEffect, Terminal
<1>5. CASE /\ stage = StageFinishing /\ r.ret = "Eot"
           /\ Reset(StageFinished, 0) /\ Send(AckC) /\ Going
  BY <1>1, <1>5, WriteEffect DEF PollEffect, EotTaken, Hears, Reset, Going, KeepFile, file
<1>6. CASE /\ stage # StageFinishing
           /\ Reset(StageNone, 0) /\ Send(Ctl("Ack")) /\ Report("Finish")
  <2>1. Gives("Finish")
    BY <1>1, <1>2, <1>6, WriteEffect DEF Gives, Reset, Report, KeepFile, file
  <2> QED BY <2>1 DEF PollEffect, Terminal
<1>7. receiveStageFinished(r) => stage # StageFinishing
  BY DEF receiveStageFinished, StageNone, StageFinishing
<1> QED BY <1>4, <1>5, <1>6, <1>7 DEF receiveStageFinishing, receiveStageFinished

\* All that Ymodem::receive() may do in one poll.
LEMMA ReadTimeOutEffect ==
  ASSUME Inductive, ReadTimeOut
  PROVE  PollEffect
<1>1. CASE receiveStageNone /\ NoPoll
  BY <1>1, OpeningEffect DEF PollEffect
<1>2. ASSUME NEW r \in receivePacket, Poll(r),
             \/ receiveStageEstablishing(r) \/ receiveStageEstablished(r)
             \/ receiveStageTransmitting(r) \/ receiveStageFinishing(r)
             \/ receiveStageFinished(r)
      PROVE  PollEffect
  <2>1. stage = StageEstablishing => status \notin Terminal
    BY StagesDiffer DEF ReadTimeOut, Inductive, OutcomePending
  <2>2. receiveStageEstablishing(r) => stage = StageEstablishing
    BY DEF receiveStageEstablishing
  <2> QED BY <1>2, <2>1, <2>2, OpeningEffect, DataEffect, ClosingEffect
<1> QED BY <1>1, <1>2 DEF ReadTimeOut, receive

\* Of a packet that is given up nothing is kept, of another one what was read.
LEMMA PollReads ==
  ASSUME Inductive, ReadTimeOut
  PROVE  \/ NoPoll /\ code' = "None"
         \/ \E r \in receivePacket : Poll(r) /\ code' \in {"None", r.code}
<1>1. CASE receiveStageNone /\ NoPoll
  BY <1>1 DEF receiveStageNone, Reset
<1>2. ASSUME NEW r \in receivePacket, Poll(r),
             \/ receiveStageEstablishing(r) \/ receiveStageEstablished(r)
             \/ receiveStageTransmitting(r) \/ receiveStageFinishing(r)
             \/ receiveStageFinished(r)
      PROVE  code' \in {"None", r.code}
  <2>1. \A w : CountError(r, w) => code' \in {"None", r.code}
    BY DEF CountError, Fail, Reset
  <2>2. \A w, st : Tick(st, r, Send(w)) => code' \in {"None", r.code}
    BY DEF Tick, Fail, Reset
  <2>3. \A num : Accept(r, num) => code' \in {"None", r.code}
    BY DEF Accept, Crash, Reset
  <2>4. Aborted \/ FirstEot \/ NoSession \/ (\E p : Establish(p)) => code' = "None"
    BY DEF Aborted, FirstEot, NoSession, Establish, Reset
  <2>5. CASE receiveStageEstablishing(r)
    BY <2>1, <2>2, <2>4, <2>5 DEF receiveStageEstablishing
  <2>6. \A w : Otherwise(r) \/ Refuse(r, w) => code' \in {"None", r.code}
    BY <2>1, <2>2, <2>4 DEF Otherwise, Refuse
  <2>7. CASE receiveStageEstablished(r) \/ receiveStageTransmitting(r)
    BY <2>3, <2>6, <2>7 DEF receiveStageEstablished, receiveStageTransmitting
  <2>8. CASE receiveStageFinishing(r) \/ receiveStageFinished(r)
    BY <2>1, <2>2, <2>4, <2>8 DEF receiveStageFinishing, receiveStageFinished, Reset
  <2> QED BY <1>2, <2>5, <2>7, <2>8
<1> QED BY <1>1, <1>2 DEF ReadTimeOut, receive

\* A cancel gives up in any stage, and nothing else that is not a poll changes
\* what the peer sees; what is on its way is kept, or lost with the port.
LEMMA OtherEffects ==
  /\ stopReceive => Gives("Abort") /\ UNCHANGED in /\ code' = "None"
  /\ startReceive \/ writeTimeOut =>
       /\ UNCHANGED <<code, stage, dataCount, rxBuffer, fileSize, fileCount, received,
                      crashed, out>>
       /\ in' \in {in, <<>>}
  /\ startReceive => status' = "Establish"
  /\ writeTimeOut => UNCHANGED status
BY WriteEffect DEF stopReceive, Stop, Reset, Gives, startReceive, Start, writeTimeOut,
   WriteTimeOut, engine, KeepFile, file

=============================================================================
