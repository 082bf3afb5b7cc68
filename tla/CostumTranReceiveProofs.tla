----------------------- MODULE CostumTranReceiveProofs -----------------------
(***************************************************************************)
(* Proofs about an export, for every value of the constants, every device  *)
(* and every user.                                                         *)
(*                                                                         *)
(* The first parts are about the session.  The others follow the bytes of  *)
(* an export that nobody cancels: the bytes that were read since the last  *)
(* '!' and those that are on their way are a line of whole records, from   *)
(* which one gap may be missing (Line).  Where records can begin and end   *)
(* on it (Distance) says what the engine takes for one, and what it        *)
(* refuses is accounted for on the line that is left (Tracked).            *)
(***************************************************************************)
EXTENDS CostumTranReceive, TLAPS

(* Records and reads *)

\* A record is longer than its header and its tail together.
LEMMA RecordLenType ==
  \A m : RecordLen(m) \in Nat /\ RecordLen(m) > 2 * ControlNumber /\ RecordLen(m) <= BufferLen
BY CostumSizeAssumption DEF RecordLen

\* A record of the device is a sequence of bytes.
LEMMA RecordType ==
  ASSUME NEW m \in Modes, NEW k \in 0 .. RecMod - 1
  PROVE  Record(m, k) \in Seq(Byte) /\ Len(Record(m, k)) = RecordLen(m)
<1>1. RecordLen(m) \in Nat
  BY RecordLenType
<1>2. \A i \in 1 .. RecordLen(m) : [kind |-> m, rec |-> k, pos |-> i] \in Byte
  BY <1>1 DEF Byte
<1> QED BY <1>1, <1>2 DEF Record

\* What a read may return: n bytes are taken off the wire and at most n put
\* in the buffer; a '!' comes only between records and Soh only in one, when
\* it has its full length.
ReadOK(r) ==
  /\ r.ret \in {"None", "!", "Soh"}
  /\ r.n \in 0 .. Len(in)
  /\ r.buf \in Seq(Byte)
  /\ code = "None" =>
       /\ r.ret # "Soh"
       /\ Len(r.buf) = Len(rxBuffer) + (IF r.ret = "!" THEN 1 ELSE 0)
  /\ code # "None" =>
       /\ r.ret # "!"
       /\ Len(r.buf) = Len(rxBuffer) + r.n
       /\ Len(rxBuffer) <= RecordLen(mode) =>
            IF r.ret = "Soh" THEN Len(r.buf) = RecordLen(mode)
                             ELSE Len(r.buf) < RecordLen(mode)

\* Reading on in a record stops at its end, unless the buffer is longer already.
LEMMA FillOK ==
  ASSUME in \in Seq(Byte), rxBuffer \in Seq(Byte), code # "None", NEW m \in 0 .. Len(in)
  PROVE  ReadOK(Fill(m))
<1> DEFINE k == IF Rest >= 0 /\ m > Rest THEN Rest ELSE m
           got == rxBuffer \o SubSeq(in, 1, k)
           ret == IF k = Rest THEN "Soh" ELSE "None"
<1>1. RecordLen(mode) \in Nat /\ Len(in) \in Nat /\ Len(rxBuffer) \in Nat
  BY RecordLenType
<1>2. Rest \in Int /\ Rest = RecordLen(mode) - Len(rxBuffer)
  BY <1>1 DEF Rest
<1>3. k \in 0 .. Len(in)
  BY <1>1, <1>2
<1>4. SubSeq(in, 1, k) \in Seq(Byte) /\ Len(SubSeq(in, 1, k)) = k
  BY <1>1, <1>3
<1>5. got \in Seq(Byte) /\ Len(got) = Len(rxBuffer) + k
  BY <1>4
<1>6. Fill(m) = [ret |-> ret, buf |-> got, n |-> k]
  BY DEF Fill
<1>7. Len(rxBuffer) <= RecordLen(mode) =>
        IF k = Rest THEN Len(got) = RecordLen(mode) ELSE Len(got) < RecordLen(mode)
  BY <1>1, <1>2, <1>3, <1>5
<1>8. ret \in {"None", "Soh"} /\ ret # "!" /\ (ret = "Soh" <=> k = Rest)
  OBVIOUS
<1> HIDE DEF k, got, ret
<1>9. Fill(m).ret = ret /\ Fill(m).buf = got /\ Fill(m).n = k
  BY <1>6
<1> QED BY <1>3, <1>5, <1>7, <1>8, <1>9 DEF ReadOK

\* So does every call of receivePacket().
LEMMA ReceivePacketOK ==
  ASSUME in \in Seq(Byte), rxBuffer \in Seq(Byte), NEW r \in receivePacket
  PROVE  ReadOK(r)
<1>1. CASE code # "None"
  BY <1>1, FillOK DEF receivePacket
<1>2. CASE code = "None" /\ r = NoByte
  BY <1>2 DEF ReadOK, NoByte
<1>3. CASE code = "None" /\ in # <<>> /\ r = FirstByte
  <2>1. Head(in) \in Byte /\ Len(in) \in Nat /\ Len(in) >= 1
    BY <1>3
  <2>2. Append(rxBuffer, Head(in)) \in Seq(Byte)
        /\ Len(Append(rxBuffer, Head(in))) = Len(rxBuffer) + 1
    BY <2>1
  <2> QED BY <1>3, <2>1, <2>2 DEF ReadOK, FirstByte
<1> QED BY <1>1, <1>2, <1>3 DEF receivePacket

-----------------------------------------------------------------------------
(* The invariant *)

\* The engine reads a record exactly in the stage of that name.
CodeMatchesStage == code = "Soh" <=> stage = StageTransmitting

\* Which timer is armed follows from the outcome, a poll that comes after the
\* outcome finds a reset engine, and only a poll before it can kill the process.
OutcomePending ==
  /\ Running => status # "Idle"
  /\ Running /\ status = "Establish" => readTimer
  /\ Running /\ status \in Terminal => writeTimer
  /\ writeTimer => Running /\ status \in Terminal
  /\ readTimer /\ status # "Establish" => status = "Abort" /\ stage = StageNone
  /\ crashed => status = "Establish"

Inductive == /\ TypeOK /\ SessionOwnsResources /\ WaitIsBounded
             /\ CodeMatchesStage /\ OutcomePending

\* The clock that starts from 0 has not run out.
LEMMA ClockStart == 0 \div (TimeDivide + 1) <= TimeMax
BY CostumClockAssumption

\* The program starts with no export.
LEMMA InitOK == Init => Inductive
<1> SUFFICES ASSUME Init PROVE Inductive
  OBVIOUS
<1> USE DEF Init, CostumTranInit
<1>1. timeCount \in Nat /\ errorCount \in Nat /\ controlNumCount \in Nat
      /\ faults \in Nat /\ taken \in Nat /\ bad \in Nat /\ rec \in 0 .. RecMod - 1
  BY CostumSizeAssumption
<1>2. rxBuffer \in Seq(Byte) /\ in \in Seq(Byte)
  OBVIOUS
<1>3. /\ code \in {"None", "Soh"} /\ mode \in Modes /\ request \in Requests
      /\ stage \in {StageNone, StageEstablishing, StageTransmitting}
      /\ status \in Statuses /\ disabled \subseteq Modes
      /\ sending \in Modes \cup {"None"}
  BY DEF Modes, Requests, Statuses
<1>4. /\ readTimer \in BOOLEAN /\ writeTimer \in BOOLEAN /\ portOpen \in BOOLEAN
      /\ transmitButtonStatus \in BOOLEAN /\ receiveButtonStatus \in BOOLEAN
      /\ crashed \in BOOLEAN /\ whole \in BOOLEAN /\ cut \in BOOLEAN
  OBVIOUS
<1>5. TypeOK
  BY <1>1, <1>2, <1>3, <1>4 DEF TypeOK
<1>6. WaitIsBounded
  BY ClockStart DEF WaitIsBounded
<1>7. SessionOwnsResources /\ OutcomePending
  BY DEF SessionOwnsResources, OutcomePending, Running, Terminal
<1>8. CodeMatchesStage
  BY DEF CodeMatchesStage, StageNone, StageTransmitting
<1> QED BY <1>5, <1>6, <1>7, <1>8 DEF Inductive

-----------------------------------------------------------------------------
(* The steps *)

\* A click on a button that says start keeps the invariant: no export runs.
LEMMA ExportOK ==
  ASSUME Inductive, NEW m \in Modes, Export(m)
  PROVE  Inductive'
<1> USE DEF Inductive
<1>1. ~Running
  <2>1. mode \in Modes /\ m \notin disabled
    BY DEF TypeOK, Export
  <2> QED BY <2>1 DEF Export, SessionOwnsResources, Running, Modes, Data, Alarm
<1>2. ~readTimer /\ ~writeTimer /\ ~portOpen
  BY <1>1 DEF SessionOwnsResources
<1>3. mode' = m /\ status' = "Establish" /\ taken' = 0 /\ bad' = 0 /\ whole' = TRUE
      /\ UNCHANGED <<timeCount, errorCount, code, stage, controlNumCount, rxBuffer,
                     writeTimer, request, crashed, sending, rec, faults>>
  BY DEF Export, startRecv, device
<1>4. cut' \in BOOLEAN /\ ~crashed
  BY DEF Export, TypeOK
<1>5. WaitIsBounded' /\ CodeMatchesStage'
  BY <1>3 DEF WaitIsBounded, CodeMatchesStage
<1>6. CASE readTimer' = TRUE /\ portOpen' = TRUE /\ in' = <<>> /\ Lock(m)
  <2>1. /\ transmitButtonStatus' \in BOOLEAN /\ receiveButtonStatus' \in BOOLEAN
        /\ disabled' \subseteq Modes
    BY <1>6 DEF Lock, Modes, Data, Alarm
  <2>2. in' \in Seq(Byte)
    BY <1>6
  <2>3. status' \in Statuses
    BY <1>3 DEF Statuses
  <2>4. TypeOK'
    BY <1>3, <1>4, <1>6, <2>1, <2>2, <2>3 DEF TypeOK
  <2>5. Running'
    BY <1>6 DEF Lock, Running, Modes, Data, Alarm
  <2>6. (transmitButtonStatus' => m = Data) /\ (receiveButtonStatus' => m = Alarm)
        /\ disabled' = {Data, Alarm} \ {m} /\ Data # Alarm
    BY <1>6 DEF Lock, Data, Alarm
  <2>7. SessionOwnsResources'
    BY <1>3, <1>6, <2>5, <2>6 DEF SessionOwnsResources
  <2>8. OutcomePending'
    BY <1>2, <1>3, <1>4, <1>6, <2>5 DEF OutcomePending, Terminal
  <2> QED BY <1>5, <2>4, <2>7, <2>8
<1>7. CASE UNCHANGED <<readTimer, portOpen, in, transmitButtonStatus,
                       receiveButtonStatus, disabled>>
  <2>1. status' \in Statuses
    BY <1>3 DEF Statuses
  <2>2. TypeOK'
    BY <1>3, <1>4, <1>7, <2>1 DEF TypeOK
  <2>3. ~Running' /\ ~transmitButtonStatus' /\ ~receiveButtonStatus'
    BY <1>1, <1>7 DEF Running
  <2>4. SessionOwnsResources' /\ OutcomePending'
    BY <1>2, <1>3, <1>4, <1>7, <2>3 DEF SessionOwnsResources, OutcomePending
  <2> QED BY <1>5, <2>2, <2>4
<1> QED BY <1>6, <1>7 DEF Export, startRecv

\* A cancel leaves the poll that is still armed a reset engine.
LEMMA StopOK ==
  ASSUME Inductive, stopReceive
  PROVE  Inductive'
<1> USE DEF Inductive
<1>1. Running /\ ~crashed
  BY DEF stopReceive, Running
<1>2. /\ timeCount' = 0 /\ code' = "None" /\ stage' = StageNone /\ errorCount' = 0
      /\ request' \in {request, "Can"} /\ status' = "Abort" /\ writeTimer' = TRUE
      /\ taken' = 0
      /\ UNCHANGED <<mode, controlNumCount, rxBuffer, readTimer, portOpen,
                     transmitButtonStatus, receiveButtonStatus, disabled, in, crashed,
                     sending, rec, faults, bad, whole, cut>>
  BY DEF stopReceive, abort, Settle, Write, device
<1>3. request' \in Requests /\ status' \in Statuses
  BY <1>2 DEF Requests, Statuses, Terminal, TypeOK
<1>4. TypeOK'
  BY <1>2, <1>3 DEF TypeOK
<1>5. Running'
  BY <1>1, <1>2 DEF Running
<1>6. SessionOwnsResources'
  BY <1>1, <1>2, <1>5 DEF SessionOwnsResources
<1>7. OutcomePending'
  BY <1>1, <1>2, <1>5 DEF OutcomePending, Terminal
<1>8. WaitIsBounded' /\ CodeMatchesStage'
  BY <1>2, ClockStart DEF WaitIsBounded, CodeMatchesStage, StageNone, StageTransmitting
<1> QED BY <1>4, <1>6, <1>7, <1>8

\* The browse dialogs only lock and unlock buttons of an idle page.
LEMMA BrowseOK ==
  ASSUME Inductive, NEW m \in Modes, Browse(m)
  PROVE  Inductive'
<1> USE DEF Inductive
<1>1. /\ ~Running /\ disabled' \in {disabled \cup {m}, disabled \ {m}}
      /\ UNCHANGED <<timeCount, errorCount, code, stage, mode, controlNumCount, rxBuffer,
                     status, readTimer, writeTimer, portOpen, in, request,
                     transmitButtonStatus, receiveButtonStatus, crashed,
                     sending, rec, faults, taken, bad, whole, cut>>
  BY DEF Browse, engine, device, history
<1>2. disabled' \subseteq Modes
  BY <1>1 DEF TypeOK
<1>3. TypeOK'
  BY <1>1, <1>2 DEF TypeOK
<1> QED BY <1>1, <1>3 DEF SessionOwnsResources, WaitIsBounded, CodeMatchesStage,
      OutcomePending, Running

\* The port is closed and both buttons say start: every session that arms
\* writeTimer has an outcome.
LEMMA WriteTimeOutOK ==
  ASSUME Inductive, writeTimeOut
  PROVE  Inductive'
<1> USE DEF Inductive
<1>1. status \in Terminal /\ ~readTimer
  BY DEF writeTimeOut, OutcomePending
<1>2. /\ writeTimer' = FALSE /\ portOpen' = FALSE /\ in' = <<>> /\ disabled' = {}
      /\ transmitButtonStatus' = FALSE /\ receiveButtonStatus' = FALSE
      /\ UNCHANGED <<timeCount, errorCount, code, stage, mode, controlNumCount, rxBuffer,
                     status, readTimer, request, crashed,
                     sending, rec, faults, taken, bad, whole, cut>>
  BY <1>1 DEF writeTimeOut, receiveStatus, engine, device, history
<1>3. in' \in Seq(Byte)
  BY <1>2
<1>4. TypeOK'
  BY <1>2, <1>3 DEF TypeOK
<1>5. ~Running'
  BY <1>2 DEF Running
<1> QED BY <1>1, <1>2, <1>4, <1>5 DEF SessionOwnsResources, WaitIsBounded,
      CodeMatchesStage, OutcomePending

\* The program starts as it did the first time.
LEMMA RelaunchOK ==
  ASSUME Inductive, Relaunch
  PROVE  Inductive'
<1> USE DEF Inductive
<1>1. /\ crashed' = FALSE /\ timeCount' = 0 /\ code' = "None" /\ stage' = StageNone
      /\ errorCount' = 0 /\ controlNumCount' = 0 /\ mode' = Alarm /\ rxBuffer' = <<>>
      /\ in' = <<>> /\ status' = "Idle" /\ readTimer' = FALSE /\ writeTimer' = FALSE
      /\ portOpen' = FALSE /\ transmitButtonStatus' = FALSE
      /\ receiveButtonStatus' = FALSE /\ disabled' = {} /\ taken' = 0 /\ bad' = 0
      /\ whole' = TRUE /\ cut' = FALSE
      /\ UNCHANGED <<request, sending, rec, faults>>
  BY DEF Relaunch, Settle, device
<1>2. in' \in Seq(Byte) /\ rxBuffer' \in Seq(Byte) /\ disabled' \subseteq Modes
      /\ mode' \in Modes /\ status' \in Statuses
  BY <1>1 DEF Modes, Alarm, Statuses
<1>3. TypeOK'
  BY <1>1, <1>2 DEF TypeOK
<1>4. ~Running'
  BY <1>1 DEF Running
<1> QED BY <1>1, <1>3, <1>4, ClockStart DEF SessionOwnsResources, WaitIsBounded,
      CodeMatchesStage, OutcomePending, StageNone, StageTransmitting

\* The variables that a poll leaves alone, and the frame of readTimeOut().
Polled == /\ readTimer /\ readTimer' = (status' = "Establish")
          /\ UNCHANGED <<portOpen, transmitButtonStatus, receiveButtonStatus, disabled,
                         sending, rec, faults, mode>>

\* What of a poll the invariant depends on: the engine is reset when it
\* reports a timeout, and its clock has not run out otherwise.
Progress ==
  /\ timeCount' \in Nat /\ timeCount' \div (TimeDivide + 1) <= TimeMax
  /\ errorCount' \in Nat /\ controlNumCount' \in Nat
  /\ code' \in {"None", "Soh"} /\ request' \in Requests
  /\ stage' \in {StageNone, StageEstablishing, StageTransmitting}
  /\ code' = "Soh" <=> stage' = StageTransmitting
  /\ rxBuffer' \in Seq(Byte) /\ in' \in Seq(Byte)
  /\ crashed' \in BOOLEAN /\ taken' \in Nat /\ bad' \in Nat
  /\ whole' \in BOOLEAN /\ cut' \in BOOLEAN
  /\ \/ UNCHANGED <<status, writeTimer>>
     \/ status' = "Timeout" /\ writeTimer' = TRUE
  /\ crashed' => status' = "Establish"

\* A poll of that kind keeps the invariant: one that finds an outcome, which
\* is that of a cancel, is the last.
LEMMA PollOK ==
  ASSUME Inductive, Polled, Progress,
         status # "Establish" => UNCHANGED <<status, writeTimer>>
  PROVE  Inductive'
<1> USE DEF Inductive
<1>1. Running /\ Running'
  BY DEF Polled, SessionOwnsResources, Running
<1>2. status' \in Statuses /\ writeTimer' \in BOOLEAN
  BY DEF Progress, TypeOK, Statuses, Terminal
<1>3. readTimer' \in BOOLEAN
  BY DEF Polled
<1>4. TypeOK'
  BY <1>2, <1>3 DEF TypeOK, Polled, Progress
<1>5. status' # "Idle" /\ (status' \in Terminal => writeTimer')
      /\ (status' = "Establish" => readTimer') /\ (writeTimer' => status' \in Terminal)
  <2>1. status # "Idle" /\ (status \in Terminal => writeTimer)
        /\ (writeTimer => status \in Terminal)
    BY <1>1 DEF OutcomePending
  <2>2. (status' = "Establish" => readTimer')
    BY DEF Polled
  <2>3. CASE UNCHANGED <<status, writeTimer>>
    BY <2>1, <2>2, <2>3
  <2>4. CASE status' = "Timeout" /\ writeTimer' = TRUE
    BY <2>2, <2>4 DEF Terminal
  <2> QED BY <2>3, <2>4 DEF Progress
<1>6. status' \in Terminal \/ status' = "Establish"
  BY <1>2, <1>5 DEF Statuses
<1>7. readTimer' => status' = "Establish"
  BY DEF Polled
<1>8. SessionOwnsResources'
  BY <1>1, <1>5, <1>6 DEF SessionOwnsResources, Polled
<1>9. OutcomePending'
  BY <1>1, <1>5, <1>7 DEF OutcomePending, Progress
<1> QED BY <1>4, <1>8, <1>9 DEF WaitIsBounded, CodeMatchesStage, Progress

\* The histories keep their types.
LEMMA NotesOK ==
  ASSUME NEW r, r.n \in Nat, taken \in Nat, bad \in Nat, whole \in BOOLEAN,
         cut \in BOOLEAN, Notes(r)
  PROVE  taken' \in Nat /\ bad' \in Nat /\ whole' \in BOOLEAN /\ cut' \in BOOLEAN
<1>1. \A a, b \in Nat : Lower(a, b) \in Nat
  BY DEF Lower
<1>2. RecordLen(mode) \in Nat /\ taken + r.n \in Nat /\ bad + 1 \in Nat /\ BadMax \in Nat
  BY RecordLenType, SessionAssumption
<1>3. taken' \in Nat
  BY <1>1, <1>2 DEF Notes
<1>4. bad' \in Nat
  BY <1>1, <1>2 DEF Notes
<1>5. IsRecord(r.buf) \in BOOLEAN
  BY DEF IsRecord
<1>6. whole' \in BOOLEAN /\ cut' \in BOOLEAN
  BY <1>5 DEF Notes
<1> QED BY <1>3, <1>4, <1>6

\* A step of a stage function that waits for bytes: the engine's part.
EnginePart ==
  /\ timeCount' \in Nat /\ timeCount' \div (TimeDivide + 1) <= TimeMax
  /\ errorCount' \in Nat /\ controlNumCount' \in Nat
  /\ code' \in {"None", "Soh"} /\ request' \in Requests
  /\ stage' \in {StageNone, StageEstablishing, StageTransmitting}
  /\ code' = "Soh" <=> stage' = StageTransmitting
  /\ rxBuffer' \in Seq(Byte) /\ mode' = mode
  /\ \/ UNCHANGED <<status, writeTimer>>
     \/ status' = "Timeout" /\ writeTimer' = TRUE

\* Waiting for a header does what EnginePart says.
LEMMA EstablishingOK ==
  ASSUME Inductive, NEW r, ReadOK(r), receiveStageEstablishing(r)
  PROVE  EnginePart
<1> USE DEF Inductive
<1>1. stage = StageEstablishing /\ code = "None" /\ rxBuffer' = r.buf /\ mode' = mode
  BY DEF receiveStageEstablishing, TypeOK, CodeMatchesStage, StageEstablishing,
         StageTransmitting
<1>2. rxBuffer' \in Seq(Byte)
  BY <1>1 DEF ReadOK
<1>3. request \in Requests /\ mode \in Requests /\ timeCount + 1 \in Nat
      /\ errorCount \in Nat /\ Marks(r) \in Nat
  BY DEF TypeOK, Requests, Marks
<1>4. StageTransmitting # StageNone /\ StageTransmitting # StageEstablishing
  BY DEF StageNone, StageEstablishing, StageTransmitting
<1>5. CASE Begin
  BY <1>1, <1>2, <1>3, <1>5, ClockStart DEF Begin, Settle, Going, EnginePart
<1>6. CASE Wait(r) /\ Expired(timeCount + 1) /\ Timeout
  BY <1>1, <1>2, <1>3, <1>4, <1>6, ClockStart DEF Wait, Settle, Timeout, EnginePart
<1>7. CASE Wait(r) /\ ~Expired(timeCount + 1)
  <2>1. timeCount' = timeCount + 1 /\ UNCHANGED <<errorCount, code, stage>> /\ Going
        /\ controlNumCount' = Marks(r) /\ request' \in {request, mode}
    BY <1>7 DEF Wait, Write
  <2>2. ~((timeCount + 1) \div (TimeDivide + 1) > TimeMax)
    BY <1>7 DEF Expired
  <2>3. (timeCount + 1) \div (TimeDivide + 1) <= TimeMax
    BY <1>3, <2>2, CostumClockAssumption
  <2> QED BY <1>1, <1>2, <1>3, <1>4, <2>1, <2>3 DEF EnginePart, Going
<1> QED BY <1>5, <1>6, <1>7 DEF receiveStageEstablishing, Wait

\* So does reading a record.
LEMMA TransmittingOK ==
  ASSUME Inductive, NEW r, ReadOK(r), receiveStageTransmitting(r)
  PROVE  EnginePart
<1> USE DEF Inductive
<1>1. stage = StageTransmitting /\ code = "Soh"
      /\ UNCHANGED <<mode, controlNumCount, request>>
  BY DEF receiveStageTransmitting, CodeMatchesStage
<1>2. r.buf \in Seq(Byte)
  BY DEF ReadOK
<1>3. request \in Requests /\ controlNumCount \in Nat /\ timeCount + 1 \in Nat
      /\ errorCount \in Nat /\ errorCount + 1 \in Nat
  BY DEF TypeOK
<1>4. StageTransmitting # StageNone /\ StageTransmitting # StageEstablishing
  BY DEF StageNone, StageEstablishing, StageTransmitting
<1>5. CASE Accept /\ Going
  BY <1>1, <1>3, <1>4, <1>5, ClockStart DEF Accept, Settle, Going, EnginePart
<1>6. CASE Refuse /\ Going
  BY <1>1, <1>3, <1>4, <1>6, ClockStart DEF Refuse, Settle, Going, EnginePart
<1>7. CASE GiveUp(r)
  BY <1>1, <1>3, <1>4, <1>7, ClockStart DEF GiveUp, Settle, Timeout, EnginePart
<1>8. CASE /\ ~Expired(timeCount + 1)
           /\ timeCount' = timeCount + 1 /\ rxBuffer' = r.buf
           /\ Going /\ UNCHANGED <<errorCount, code, stage>>
  <2>1. ~((timeCount + 1) \div (TimeDivide + 1) > TimeMax)
    BY <1>8 DEF Expired
  <2>2. (timeCount + 1) \div (TimeDivide + 1) <= TimeMax
    BY <1>3, <2>1, CostumClockAssumption
  <2> QED BY <1>1, <1>2, <1>3, <1>8, <2>2 DEF EnginePart, Going
<1> QED BY <1>5, <1>6, <1>7, <1>8 DEF receiveStageTransmitting

\* Every poll keeps the invariant.
LEMMA ReadTimeOutOK ==
  ASSUME Inductive, readTimeOut
  PROVE  Inductive'
<1> USE DEF Inductive
<1>1. CASE receiveStageNone /\ UNCHANGED <<in, crashed, history>>
  <2>1. /\ timeCount' = 0 /\ code' = "None" /\ stage' = StageEstablishing
        /\ errorCount' = 0 /\ request' \in {request, mode}
        /\ UNCHANGED <<mode, controlNumCount, rxBuffer, status, writeTimer, in, crashed,
                       taken, bad, whole, cut>>
    BY <1>1 DEF receiveStageNone, Settle, Write, Going, history
  <2>2. request' \in Requests
    BY <2>1 DEF TypeOK, Requests
  <2>3. ~crashed'
    BY <2>1 DEF readTimeOut
  <2>5. Progress
    BY <2>1, <2>2, <2>3, ClockStart
    DEF Progress, TypeOK, StageEstablishing, StageTransmitting
  <2>4. Polled
    BY <2>1 DEF readTimeOut, Polled, device
  <2> QED BY <2>1, <2>4, <2>5, PollOK
<1>2. ASSUME stage # StageNone, NEW r \in receivePacket,
             in' = SubSeq(in, r.n + 1, Len(in)),
             ~Overruns(r), Receives(r), Notes(r), UNCHANGED crashed
      PROVE  Inductive'
  <2>1. ReadOK(r)
    BY <1>2, ReceivePacketOK DEF TypeOK
  <2>2. EnginePart
    BY <1>2, <2>1, EstablishingOK, TransmittingOK DEF Receives
  <2>3. in' \in Seq(Byte) /\ r.n \in Nat
    BY <1>2, <2>1 DEF ReadOK, TypeOK
  <2>4. taken' \in Nat /\ bad' \in Nat /\ whole' \in BOOLEAN /\ cut' \in BOOLEAN
    BY <1>2, <2>3, NotesOK DEF TypeOK
  <2>5. ~crashed /\ ~crashed' /\ crashed' \in BOOLEAN
    BY <1>2 DEF readTimeOut, TypeOK
  <2>6. Polled
    BY <2>2 DEF readTimeOut, Polled, device, EnginePart
  <2>7. status = "Establish"
    BY <1>2 DEF OutcomePending, readTimeOut
  <2>8. Progress
    BY <2>2, <2>3, <2>4, <2>5 DEF Progress, EnginePart
  <2> QED BY <2>6, <2>7, <2>8, PollOK
<1>3. ASSUME stage # StageNone, NEW r \in receivePacket,
             in' = SubSeq(in, r.n + 1, Len(in)), crashed' = TRUE,
             UNCHANGED <<engine, status, writeTimer, request, history>>
      PROVE  Inductive'
  <2>1. ReadOK(r)
    BY <1>3, ReceivePacketOK DEF TypeOK
  <2>2. in' \in Seq(Byte)
    BY <1>3, <2>1 DEF ReadOK, TypeOK
  <2>3. status' = "Establish"
    BY <1>3 DEF OutcomePending, readTimeOut
  <2>4. Progress
    BY <1>3, <2>2, <2>3
    DEF Progress, TypeOK, WaitIsBounded, CodeMatchesStage, engine, history
  <2>5. Polled
    BY <1>3 DEF readTimeOut, Polled, device, engine
  <2> QED BY <1>3, <2>4, <2>5, PollOK
<1> QED BY <1>1, <1>2, <1>3 DEF readTimeOut, receive

\* The device changes only what is on the wire and what it is doing.
LEMMA DeviceOK ==
  ASSUME Inductive, Elsewhere, in' \in Seq(Byte), request' \in Requests,
         sending' \in Modes \cup {"None"}, rec' \in 0 .. RecMod - 1, faults' \in Nat
  PROVE  Inductive'
<1> USE DEF Inductive
<1>1. UNCHANGED <<timeCount, errorCount, code, stage, mode, controlNumCount, rxBuffer,
                  status, readTimer, writeTimer, portOpen, transmitButtonStatus,
                  receiveButtonStatus, disabled, crashed, taken, bad, whole, cut>>
  BY DEF Elsewhere, engine, session, history
<1>2. TypeOK'
  BY <1>1 DEF TypeOK
<1> QED BY <1>1, <1>2 DEF SessionOwnsResources, WaitIsBounded, CodeMatchesStage,
      OutcomePending, Running

\* A record with a gap is a sequence of bytes.
LEMMA GapType ==
  ASSUME NEW s \in Seq(Byte), NEW i \in 1 .. Len(s), NEW j \in 1 .. Len(s)
  PROVE  Gap(s, i, j) \in Seq(Byte)
<1>1. SubSeq(s, 1, i - 1) \in Seq(Byte) /\ SubSeq(s, j + 1, Len(s)) \in Seq(Byte)
  OBVIOUS
<1> QED BY <1>1 DEF Gap

\* Every step preserves the invariant.
LEMMA StepOK ==
  ASSUME Inductive, [Next]_vars
  PROVE  Inductive'
<1>0. /\ in \in Seq(Byte) /\ request \in Requests /\ sending \in Modes \cup {"None"}
      /\ rec \in 0 .. RecMod - 1 /\ faults \in Nat
  BY DEF Inductive, TypeOK
<1>1. CASE \E m \in Modes : Export(m) \/ Browse(m)
  BY <1>1, ExportOK, BrowseOK
<1>2. CASE stopReceive
  BY <1>2, StopOK
<1>3. CASE readTimeOut
  BY <1>3, ReadTimeOutOK
<1>4. CASE writeTimeOut
  BY <1>4, WriteTimeOutOK
<1>5. CASE Relaunch
  BY <1>5, RelaunchOK
<1>6. CASE TakeRequest
  <2>1. request' \in Requests /\ sending' \in Modes \cup {"None"}
        /\ UNCHANGED <<in, rec, faults>> /\ Elsewhere
    BY <1>0, <1>6 DEF TakeRequest, Requests
  <2> QED BY <1>0, <2>1, DeviceOK
<1>7. CASE LastRecord
  BY <1>0, <1>7, DeviceOK DEF LastRecord
<1>8. CASE SendRecord
  <2>1. sending \in Modes /\ UNCHANGED <<sending, request>> /\ Elsewhere
    BY <1>0, <1>8 DEF SendRecord
  <2>2. Record(sending, rec) \in Seq(Byte) /\ Len(Record(sending, rec)) = RecordLen(sending)
    BY <1>0, <2>1, RecordType
  <2>3. in' \in Seq(Byte)
    <3>1. CASE in' = in \o Record(sending, rec)
      BY <1>0, <2>2, <3>1
    <3>2. ASSUME NEW i \in 1 .. RecordLen(sending), NEW j \in 1 .. RecordLen(sending),
                 in' = in \o Gap(Record(sending, rec), i, j)
          PROVE  in' \in Seq(Byte)
      <4>1. Gap(Record(sending, rec), i, j) \in Seq(Byte)
        BY <2>2, GapType
      <4> QED BY <1>0, <3>2, <4>1
    <3> QED BY <1>8, <3>1, <3>2 DEF SendRecord
  <2>4. rec' \in 0 .. RecMod - 1 /\ faults' \in Nat
    BY <1>0, <1>8, CostumSizeAssumption DEF SendRecord
  <2> QED BY <1>0, <2>1, <2>3, <2>4, DeviceOK
<1>9. CASE UNCHANGED vars
  BY <1>0, <1>9, DeviceOK DEF vars, Elsewhere, device
<1> QED BY <1>1, <1>2, <1>3, <1>4, <1>5, <1>6, <1>7, <1>8, <1>9 DEF Next

-----------------------------------------------------------------------------
(* The theorems *)

\* The invariant the others follow from: what the engine, the timers, the port
\* and the two buttons of CostumTranReceive and ui_costum_tran say of each other.
THEOREM ExportInvariant == Spec => []Inductive
<1>1. Inductive /\ [Next]_vars => Inductive'
  BY StepOK
<1> QED BY InitOK, <1>1, PTL DEF Spec

\* Every variable keeps to its type.
THEOREM ExportTypes == Spec => []TypeOK
<1>1. Inductive => TypeOK
  BY DEF Inductive
<1> QED BY <1>1, ExportInvariant, PTL

\* The two buttons share one session, whichever of them began it.
THEOREM ExportOwnsResources == Spec => []SessionOwnsResources
<1>1. Inductive => SessionOwnsResources
  BY DEF Inductive
<1> QED BY <1>1, ExportInvariant, PTL

\* The longest wait is what the note on CostumTran says.
THEOREM ExportWaitBounded == Spec => []WaitIsBounded
<1>1. Inductive => WaitIsBounded
  BY DEF Inductive
<1> QED BY <1>1, ExportInvariant, PTL

\* A poll after the outcome finds the engine in StageNone.
LEMMA OutcomeStays ==
  ASSUME Inductive, [Next]_vars, Running, status \in Terminal, status' # status
  PROVE  status' = "Abort"
<1> USE DEF Inductive
<1>1. ASSUME NEW m \in Modes, Export(m) PROVE FALSE
  <2>1. m \notin disabled /\ (IF m = Data THEN ~transmitButtonStatus
                              ELSE ~receiveButtonStatus)
    BY <1>1 DEF Export
  <2> QED BY <2>1 DEF SessionOwnsResources, Running, Modes, Data, Alarm
<1>2. ASSUME NEW m \in Modes, Browse(m) PROVE FALSE
  BY <1>2 DEF Browse
<1>3. CASE stopReceive
  BY <1>3 DEF stopReceive
<1>4. CASE readTimeOut
  <2>1. stage = StageNone
    BY <1>4 DEF readTimeOut, OutcomePending, Terminal
  <2>2. receiveStageNone
    BY <1>4, <2>1 DEF readTimeOut, receive
  <2> QED BY <2>2 DEF receiveStageNone, Going
<1>5. CASE writeTimeOut
  BY <1>5 DEF writeTimeOut
<1>6. ~Relaunch
  BY DEF Relaunch, OutcomePending, Terminal
<1>7. CASE TakeRequest \/ LastRecord \/ SendRecord
  BY <1>7 DEF TakeRequest, LastRecord, SendRecord, Elsewhere, session
<1>8. CASE UNCHANGED vars
  BY <1>8 DEF vars, session
<1> QED BY <1>1, <1>2, <1>3, <1>4, <1>5, <1>6, <1>7, <1>8 DEF Next

\* Only the user changes the outcome of an export.
THEOREM ExportOutcomeFinal == Spec => OutcomeIsFinal
<1>1. Inductive /\ [Next]_vars
        => [Running /\ status \in Terminal /\ status' # status => status' = "Abort"]_vars
  BY OutcomeStays
<1> QED BY <1>1, ExportInvariant, PTL DEF Spec, OutcomeIsFinal

-----------------------------------------------------------------------------
(* Exports that nobody cancels *)

\* Between two exports the engine is at rest, and while a record is read its
\* bytes are in the buffer: the invariant that a cancel breaks.
Fitting ==
  /\ RecordFits /\ ~crashed /\ status # "Abort"
  /\ ~Running \/ status # "Establish" => stage = StageNone
  /\ stage = StageTransmitting => taken <= Len(rxBuffer) - ControlNumber
  /\ TimedOutMeansNothingCame

\* A poll without a '!' between records, or one with it, keeps buffer and count equal.
LEMMA EstablishingFits ==
  ASSUME Inductive, Fitting, NEW r, ReadOK(r), receiveStageEstablishing(r), Notes(r),
         crashed' = crashed, status = "Establish", UNCHANGED <<transmitButtonStatus,
         receiveButtonStatus>>, Running
  PROVE  Fitting'
<1> USE DEF Inductive
<1>1. stage = StageEstablishing /\ code = "None" /\ rxBuffer' = r.buf /\ mode' = mode
  BY DEF receiveStageEstablishing, TypeOK, CodeMatchesStage, StageEstablishing,
         StageTransmitting
<1>2. Len(rxBuffer) = controlNumCount /\ controlNumCount < ControlNumber
      /\ controlNumCount \in Nat /\ Marks(r) = controlNumCount + (IF r.ret = "!" THEN 1 ELSE 0)
      /\ Len(r.buf) = Marks(r) /\ r.ret # "Soh"
  BY <1>1 DEF Fitting, RecordFits, TypeOK, ReadOK, Marks
<1>3. ControlNumber \in Nat \ {0} /\ RecordLen(mode) \in Nat
      /\ RecordLen(mode) > 2 * ControlNumber
  BY RecordLenType, CostumSizeAssumption
<1>4. StageTransmitting # StageNone /\ StageTransmitting # StageEstablishing
      /\ StageNone # StageEstablishing
  BY DEF StageNone, StageEstablishing, StageTransmitting
<1>5. Running' = Running /\ taken' = 0
  BY <1>1, <1>4 DEF Running, Notes
<1>6. CASE HeaderSeen(r) /\ Begin
  <2>1. Marks(r) = ControlNumber /\ controlNumCount' = 0 /\ stage' = StageTransmitting
        /\ status' = "Establish"
    BY <1>2, <1>3, <1>6 DEF HeaderSeen, Begin, Settle, Going
  <2>2. Len(rxBuffer') = ControlNumber
    BY <1>1, <1>2, <2>1
  <2>3. RecordFits'
    BY <1>1, <1>3, <1>4, <2>1, <2>2 DEF RecordFits
  <2> QED BY <1>3, <1>5, <2>1, <2>2, <2>3 DEF Fitting, TimedOutMeansNothingCame
<1>7. CASE ~HeaderSeen(r) /\ Wait(r)
  <2>1. Marks(r) < ControlNumber /\ controlNumCount' = Marks(r)
    BY <1>2, <1>3, <1>7 DEF HeaderSeen, Wait
  <2>2. \/ stage' = StageNone /\ status' = "Timeout"
        \/ stage' = StageEstablishing /\ status' = "Establish"
    BY <1>1, <1>7 DEF Wait, Settle, Timeout, Going
  <2>3. RecordFits'
    BY <1>1, <1>2, <1>4, <2>1, <2>2 DEF RecordFits
  <2>4. RecordLen(mode') = RecordLen(mode)
    BY <1>1
  <2>5. TimedOutMeansNothingCame'
    BY <1>3, <1>5, <2>4 DEF TimedOutMeansNothingCame
  <2> QED BY <1>4, <1>5, <2>2, <2>3, <2>5 DEF Fitting
<1> QED BY <1>6, <1>7 DEF receiveStageEstablishing

\* A poll in a record reads what is missing of it at most, and forgets it when
\* it is complete or given up.
LEMMA TransmittingFits ==
  ASSUME Inductive, Fitting, NEW r, ReadOK(r), receiveStageTransmitting(r), Notes(r),
         crashed' = crashed, status = "Establish", UNCHANGED <<transmitButtonStatus,
         receiveButtonStatus>>, Running
  PROVE  Fitting'
<1> USE DEF Inductive
<1>1. stage = StageTransmitting /\ code = "Soh" /\ mode' = mode
      /\ controlNumCount' = controlNumCount
  BY DEF receiveStageTransmitting, CodeMatchesStage
<1>2. /\ controlNumCount = 0 /\ Len(rxBuffer) \in ControlNumber .. RecordLen(mode) - 1
      /\ taken <= Len(rxBuffer) - ControlNumber /\ taken \in Nat
  BY <1>1 DEF Fitting, RecordFits, TypeOK
<1>3. ControlNumber \in Nat \ {0} /\ RecordLen(mode) \in Nat
      /\ RecordLen(mode) > 2 * ControlNumber
  BY RecordLenType, CostumSizeAssumption
<1>4. /\ Len(r.buf) = Len(rxBuffer) + r.n /\ r.n \in Nat /\ Len(rxBuffer) \in Nat
      /\ r.ret # "Soh" => Len(r.buf) < RecordLen(mode)
  BY <1>1, <1>2, <1>3 DEF ReadOK, TypeOK
<1>5. StageTransmitting # StageNone /\ StageTransmitting # StageEstablishing
      /\ StageNone # StageEstablishing
  BY DEF StageNone, StageEstablishing, StageTransmitting
<1>6. Running' = Running /\ RecordLen(mode') = RecordLen(mode)
  BY <1>1 DEF Running
<1>7. Len(<<>>) = 0
  OBVIOUS
<1>8. CASE r.ret = "Soh" /\ (Accept \/ Refuse) /\ Going
  <2>1. rxBuffer' = <<>> /\ stage' \in {StageNone, StageEstablishing}
        /\ status' = "Establish"
    BY <1>8 DEF Accept, Refuse, Settle, Going
  <2>2. RecordFits'
    BY <1>1, <1>2, <1>3, <1>5, <1>7, <2>1 DEF RecordFits
  <2> QED BY <1>5, <1>6, <2>1, <2>2 DEF Fitting, TimedOutMeansNothingCame
<1>9. CASE r.ret # "Soh" /\ GiveUp(r)
  <2>1. rxBuffer' = <<>> /\ stage' = StageNone /\ status' = "Timeout"
    BY <1>9 DEF GiveUp, Settle, Timeout
  <2>2. RecordFits'
    BY <1>1, <1>2, <1>3, <1>5, <1>7, <2>1 DEF RecordFits
  <2>3. taken' = Lower(taken + r.n, RecordLen(mode))
    BY <1>1, <2>1 DEF Notes
  <2>4. taken + r.n < RecordLen(mode) - ControlNumber
    BY <1>2, <1>3, <1>4, <1>9
  <2>5. taken' < RecordLen(mode) - ControlNumber
    BY <1>2, <1>3, <1>4, <2>3, <2>4 DEF Lower
  <2> QED BY <1>5, <1>6, <2>1, <2>2, <2>5 DEF Fitting, TimedOutMeansNothingCame
<1>10. CASE r.ret # "Soh" /\ rxBuffer' = r.buf /\ Going /\ stage' = stage
  <2>1. status' = "Establish" /\ stage' = StageTransmitting
    BY <1>1, <1>10 DEF Going
  <2>2. RecordFits'
    BY <1>1, <1>2, <1>3, <1>4, <1>5, <1>6, <1>10, <2>1 DEF RecordFits
  <2>3. taken' = Lower(taken + r.n, RecordLen(mode))
    BY <1>1, <2>1 DEF Notes
  <2>4. taken' <= taken + r.n
    BY <1>2, <1>3, <1>4, <2>3 DEF Lower
  <2>5. Len(rxBuffer') = Len(rxBuffer) + r.n /\ taken' \in Int
    BY <1>2, <1>3, <1>4, <1>10, <2>3 DEF Lower
  <2>6. taken' <= Len(rxBuffer') - ControlNumber
    BY ONLY <1>2, <1>3, <1>4, <2>4, <2>5
  <2> QED BY <1>6, <2>1, <2>2, <2>6 DEF Fitting, TimedOutMeansNothingCame
<1> QED BY <1>8, <1>9, <1>10 DEF receiveStageTransmitting

\* A poll does not outgrow the buffer while the record fits.
LEMMA NoOverrun ==
  ASSUME Inductive, Fitting, stage # StageNone, NEW r \in receivePacket
  PROVE  ~Overruns(r)
<1> USE DEF Inductive
<1>1. ReadOK(r)
  BY ReceivePacketOK DEF TypeOK
<1>2. RecordLen(mode) \in Nat /\ RecordLen(mode) <= BufferLen
      /\ RecordLen(mode) > 2 * ControlNumber /\ ControlNumber \in Nat /\ BufferLen \in Nat
  BY RecordLenType, CostumSizeAssumption
<1>3. Len(r.buf) <= RecordLen(mode)
  <2>1. CASE code = "None"
    <3>1. stage = StageEstablishing
      BY <2>1 DEF TypeOK, CodeMatchesStage
    <3>2. Len(rxBuffer) < ControlNumber /\ Len(rxBuffer) \in Nat
      BY <3>1 DEF Fitting, RecordFits, TypeOK
    <3> QED BY <1>1, <1>2, <2>1, <3>2 DEF ReadOK
  <2>2. CASE code # "None"
    <3>1. stage = StageTransmitting
      BY <2>2 DEF TypeOK, CodeMatchesStage
    <3>2. Len(rxBuffer) <= RecordLen(mode)
      BY <1>2, <3>1 DEF Fitting, RecordFits
    <3> QED BY <1>1, <1>2, <2>2, <3>2 DEF ReadOK, TypeOK
  <2> QED BY <2>1, <2>2
<1>4. Len(r.buf) \in Nat
  BY <1>1 DEF ReadOK
<1> QED BY <1>2, <1>3, <1>4 DEF Overruns

\* Without a cancel every step keeps it.
LEMMA StepFits ==
  ASSUME Cancel = FALSE, Inductive, Fitting, [Next]_vars
  PROVE  Fitting'
<1> USE DEF Inductive
<1>1. ASSUME NEW m \in Modes, Export(m) PROVE Fitting'
  <2>1. ~Running
    BY <1>1 DEF Export, SessionOwnsResources, Running, Modes, Data, Alarm, TypeOK
  <2>2. stage = StageNone
    BY <2>1 DEF Fitting
  <2>3. status' = "Establish" /\ UNCHANGED <<stage, controlNumCount, rxBuffer, crashed>>
    BY <1>1 DEF Export, startRecv
  <2>4. RecordFits'
    BY <2>2, <2>3 DEF Fitting, RecordFits, StageNone, StageTransmitting
  <2> QED BY <2>2, <2>3, <2>4 DEF Fitting, TimedOutMeansNothingCame, StageNone,
        StageTransmitting
<1>2. CASE readTimeOut
  <2>1. UNCHANGED <<transmitButtonStatus, receiveButtonStatus>> /\ status = "Establish"
        /\ Running
    BY <1>2 DEF readTimeOut, OutcomePending, SessionOwnsResources, Running, Fitting
  <2>2. CASE receiveStageNone /\ UNCHANGED <<crashed, history>>
    <3>1. stage = StageNone /\ stage' = StageEstablishing
          /\ UNCHANGED <<controlNumCount, rxBuffer, crashed, status>>
      BY <2>2 DEF receiveStageNone, Settle, Going
    <3>2. RecordFits'
      BY <3>1 DEF Fitting, RecordFits, StageNone, StageEstablishing, StageTransmitting
    <3>3. Running'
      BY <2>1 DEF Running
    <3> QED BY <2>1, <3>1, <3>2, <3>3 DEF Fitting, TimedOutMeansNothingCame, StageNone,
          StageEstablishing, StageTransmitting
  <2>3. ASSUME NEW r \in receivePacket, stage # StageNone,
               ~Overruns(r), Receives(r), Notes(r), UNCHANGED crashed
        PROVE  Fitting'
    <3>1. ReadOK(r)
      BY <2>3, ReceivePacketOK DEF TypeOK
    <3> QED BY <2>1, <2>3, <3>1, EstablishingFits, TransmittingFits DEF Receives
  <2> QED BY <1>2, <2>2, <2>3, NoOverrun DEF readTimeOut, receive
<1>3. CASE writeTimeOut
  <2>1. status = "Timeout"
    BY <1>3 DEF writeTimeOut, OutcomePending, Terminal, Fitting
  <2>2. UNCHANGED <<stage, controlNumCount, rxBuffer, mode, status, crashed, taken>>
    BY <1>3 DEF writeTimeOut, engine, history
  <2>3. RecordFits'
    BY <2>2 DEF Fitting, RecordFits
  <2> QED BY <2>1, <2>2, <2>3 DEF Fitting, TimedOutMeansNothingCame
<1>4. ASSUME NEW m \in Modes, Browse(m) PROVE Fitting'
  BY <1>4 DEF Browse, engine, history, Fitting, RecordFits, TimedOutMeansNothingCame, Running
<1>5. ~stopReceive /\ ~Relaunch
  BY DEF stopReceive, Relaunch, Fitting
<1>6. CASE Elsewhere
  BY <1>6 DEF Elsewhere, engine, session, history, Fitting, RecordFits,
       TimedOutMeansNothingCame, Running
<1>7. TakeRequest \/ LastRecord \/ SendRecord \/ UNCHANGED vars => Elsewhere
  BY DEF TakeRequest, LastRecord, SendRecord, vars, Elsewhere
<1> QED BY <1>1, <1>2, <1>3, <1>4, <1>5, <1>6, <1>7 DEF Next

\* The program starts at rest.
LEMMA InitFits == Init => Fitting
BY CostumSizeAssumption DEF Init, CostumTranInit, Fitting, RecordFits, Running,
   TimedOutMeansNothingCame, StageNone, StageEstablishing, StageTransmitting

\* What follows from never cancelling, in one invariant.
LEMMA FittingInvariant == ASSUME Cancel = FALSE PROVE Spec => []Fitting
<1>1. Inductive /\ Fitting /\ [Next]_vars => Fitting'
  BY StepFits
<1> QED BY InitFits, <1>1, ExportInvariant, PTL DEF Spec

\* Unless an export is cancelled, LEN - rxLength in CostumTran::receivePacket()
\* does not wrap, whatever the device sends.
THEOREM RecordAlwaysFits == ASSUME Cancel = FALSE PROVE Spec => []RecordFits
<1>1. Fitting => RecordFits
  BY DEF Fitting
<1> QED BY <1>1, FittingInvariant, PTL

\* Unless an export is cancelled, "Communication Time Out" is told only when
\* the record was not all there.
THEOREM TimeOutIsTrue == ASSUME Cancel = FALSE PROVE Spec => []TimedOutMeansNothingCame
<1>1. Fitting => TimedOutMeansNothingCame
  BY DEF Fitting
<1> QED BY <1>1, FittingInvariant, PTL

-----------------------------------------------------------------------------
(* What a distance between two records can be *)

\* A distance that whole records can add up to: shorter than a record of data
\* it is a number of alarms.
Distance(b) == b \in Nat /\ (b >= DataLen \/ b % AlarmLen = 0)

\* Remainders of a positive number.
LEMMA Remainder ==
  ASSUME NEW a \in Nat \ {0}, NEW x \in Int
  PROVE  x % a \in 0 .. a - 1 /\ x \div a \in Int /\ x = a * (x \div a) + (x % a)
OBVIOUS

\* Only one multiple of a lies in a row of a numbers.
LEMMA NoMultiple ==
  ASSUME NEW a \in Nat \ {0}, NEW y \in Int, NEW t \in Int, t > 0, t < a
  PROVE  a * y # t
<1>1. CASE y <= 0
  <2>1. a * y <= 0
    BY <1>1
  <2> QED BY <2>1
<1>2. CASE y >= 1
  <2>1. y = 1 + (y - 1) /\ y - 1 \in Nat
    BY <1>2
  <2>2. a * y >= a
    BY <2>1
  <2> QED BY <2>2
<1> QED BY <1>1, <1>2

\* A number with the remainder r, moved by t, is no multiple while r + t is none.
LEMMA RemainderMoved ==
  ASSUME NEW a \in Nat \ {0}, NEW x \in Int, NEW t \in Int, (x % a) + t > 0, (x % a) + t < a,
         NEW b \in Nat, b = x + t \/ b = x + t - a
  PROVE  b % a # 0
<1>1. SUFFICES ASSUME b % a = 0 PROVE FALSE
  OBVIOUS
<1> DEFINE p == b \div a
           q == x \div a
           r == x % a
<1>2. p \in Int /\ b = a * p
  BY <1>1, Remainder
<1>3. q \in Int /\ r \in Int /\ x = a * q + r
  BY Remainder
<1>4. r + t > 0 /\ r + t < a
  OBVIOUS
<1> HIDE DEF p, q, r
<1>5. CASE b = x + t
  <2>1. a * (p - q) = r + t
    BY <1>2, <1>3, <1>5
  <2> QED BY <1>2, <1>3, <1>4, <2>1, NoMultiple
<1>6. CASE b = x + t - a
  <2>1. a * (p - q + 1) = r + t
    BY <1>2, <1>3, <1>6
  <2> QED BY <1>2, <1>3, <1>4, <2>1, NoMultiple
<1> QED BY <1>5, <1>6

\* A number below a is no multiple of it, 0 excepted.
LEMMA SmallRemainder ==
  ASSUME NEW a \in Nat \ {0}, NEW b \in Nat, b < a
  PROVE  b % a = b
OBVIOUS

\* Lengths.
LEMMA Lengths ==
  /\ ControlNumber \in Nat /\ ControlNumber >= 1
  /\ AlarmLen \in Nat /\ AlarmLen > 2 * ControlNumber
  /\ DataLen \in Nat /\ DataLen > AlarmLen
  /\ \A m \in Modes : RecordLen(m) \in {DataLen, AlarmLen}
  /\ \A m \in Modes : m # Data => RecordLen(m) = AlarmLen
  /\ RecordLen(Data) = DataLen
BY CostumSizeAssumption DEF RecordLen, Data, Modes

\* No distance but 0 is shorter than both kinds of record.
LEMMA ShortDistance ==
  ASSUME NEW b, Distance(b), b < AlarmLen
  PROVE  b = 0
<1>1. b \in Nat /\ b < DataLen
  BY Lengths DEF Distance
<1>2. b % AlarmLen = b
  BY <1>1, Lengths, SmallRemainder
<1> QED BY <1>1, <1>2, Lengths DEF Distance

\* The next record is one more.
LEMMA NextDistance ==
  ASSUME NEW b, Distance(b), NEW m \in Modes
  PROVE  Distance(b + RecordLen(m))
<1>0. b \in Nat /\ RecordLen(m) \in Nat
  BY RecordLenType DEF Distance
<1>1. CASE b >= DataLen \/ RecordLen(m) = DataLen
  BY <1>0, <1>1, Lengths DEF Distance
<1>2. CASE b % AlarmLen = 0 /\ RecordLen(m) = AlarmLen
  <2> DEFINE p == b \div AlarmLen
  <2>1. p \in Int /\ b = AlarmLen * p
    BY <1>0, <1>2, Lengths, Remainder
  <2> HIDE DEF p
  <2>2. b + AlarmLen = AlarmLen * (p + 1)
    BY <2>1, Lengths
  <2>3. (b + AlarmLen) % AlarmLen = 0
    BY <1>0, <2>1, <2>2, Lengths
  <2> QED BY <1>0, <1>2, <2>3, Lengths DEF Distance
<1> QED BY <1>0, <1>1, <1>2, Lengths DEF Distance

\* Behind a whole number of alarms a record of data ends in the body of another
\* alarm: alarms alone never end where a record of data does, nor less than a
\* header before.  The code's lengths leave 270 % 88 = 6 bytes, and a header is 3.
ControlsApart == DataLen % AlarmLen >= ControlNumber

\* A record's length, less a part of a header, is no distance.
LEMMA NotShortOfDistance ==
  ASSUME ControlsApart, NEW m \in Modes, NEW t \in 1 .. ControlNumber - 1, NEW b \in Nat,
         b = RecordLen(m) - t
  PROVE  ~Distance(b)
<1>0. t \in Nat /\ t >= 1 /\ t <= ControlNumber - 1
  BY Lengths
<1>1. CASE RecordLen(m) = DataLen
  <2> DEFINE r == DataLen % AlarmLen
  <2>1. r \in 0 .. AlarmLen - 1 /\ r >= ControlNumber
    BY Lengths, Remainder DEF ControlsApart
  <2>2. r + (-t) > 0 /\ r + (-t) < AlarmLen
    BY ONLY <1>0, <2>1, Lengths
  <2>3. b = DataLen + (-t) /\ -t \in Int /\ b < DataLen
    BY <1>0, <1>1, Lengths
  <2>4. b % AlarmLen # 0
    BY <2>2, <2>3, Lengths, RemainderMoved
  <2> QED BY <2>3, <2>4, Lengths DEF Distance
<1>2. CASE RecordLen(m) = AlarmLen
  <2>1. b < AlarmLen /\ b > 0
    BY <1>0, <1>2, Lengths
  <2> QED BY <2>1, ShortDistance
<1> QED BY <1>1, <1>2, Lengths

-----------------------------------------------------------------------------
(* Lines of whole records *)

\* A record of u begins behind its first b bytes.
RecordFrom(u, b, m, k) ==
  /\ b + RecordLen(m) <= Len(u)
  /\ \A i \in 1 .. RecordLen(m) : u[b + i] = [kind |-> m, rec |-> k, pos |-> i]
Begins(u, b) == \E m \in Modes, k \in 0 .. RecMod - 1 : RecordFrom(u, b, m, k)

\* u is one record after the other.
Covered(u) ==
  \A x \in 1 .. Len(u) : \E b \in 0 .. Len(u), m \in Modes, k \in 0 .. RecMod - 1 :
    RecordFrom(u, b, m, k) /\ x \in b + 1 .. b + RecordLen(m)
Spaced(u) ==
  \A a, b \in 0 .. Len(u) :
    Begins(u, a) /\ (Begins(u, b) \/ b = Len(u)) /\ a <= b => Distance(b - a)
OfRecords(u) == u \in Seq(Byte) /\ Covered(u) /\ Spaced(u)

\* A byte in a record of u.
IsByte(c, m, k, p) == c.kind = m /\ c.rec = k /\ c.pos = p
                      /\ c = [kind |-> m, rec |-> k, pos |-> p]

\* The bytes of a record, one by one.
LEMMA ByteOf ==
  \A u, m, k : \A b, x \in Nat :
    RecordFrom(u, b, m, k) /\ x >= b + 1 /\ x <= b + RecordLen(m)
      => IsByte(u[x], m, k, x - b)
<1> SUFFICES ASSUME NEW u, NEW m, NEW k, NEW b \in Nat, NEW x \in Nat,
                    RecordFrom(u, b, m, k), x >= b + 1, x <= b + RecordLen(m)
             PROVE  IsByte(u[x], m, k, x - b)
  OBVIOUS
<1>1. x - b \in 1 .. RecordLen(m) /\ x = b + (x - b)
  BY RecordLenType
<1>2. u[b + (x - b)] = [kind |-> m, rec |-> k, pos |-> x - b]
  BY <1>1 DEF RecordFrom
<1>3. u[x] = [kind |-> m, rec |-> k, pos |-> x - b]
  BY <1>1, <1>2
<1> QED BY <1>3 DEF IsByte

\* Two records of u do not overlap.
LEMMA Apart ==
  ASSUME NEW u, NEW a \in Nat, NEW b \in Nat, NEW m \in Modes, NEW k, NEW n \in Modes, NEW l,
         RecordFrom(u, a, m, k), RecordFrom(u, b, n, l), a < b
  PROVE  a + RecordLen(m) <= b
<1>0. RecordLen(m) \in Nat /\ RecordLen(n) \in Nat /\ RecordLen(n) >= 1
  BY RecordLenType, CostumSizeAssumption
<1>1. SUFFICES ASSUME b + 1 <= a + RecordLen(m) PROVE FALSE
  BY <1>0
<1>2. b + 1 \in Nat /\ b + 1 >= a + 1 /\ b + 1 >= b + 1 /\ b + 1 <= b + RecordLen(n)
  BY <1>0
<1>3. IsByte(u[b + 1], m, k, b + 1 - a)
  BY <1>1, <1>2, ByteOf
<1>4. IsByte(u[b + 1], n, l, b + 1 - b)
  BY <1>2, ByteOf
<1> QED BY <1>3, <1>4 DEF IsByte

\* An empty line.
LEMMA NoRecords == OfRecords(<<>>)
<1>1. <<>> \in Seq(Byte) /\ Len(<<>>) = 0
  OBVIOUS
<1>2. \A m \in Modes, k \in 0 .. RecMod - 1, b \in 0 .. 0 : ~RecordFrom(<<>>, b, m, k)
  BY <1>1, RecordLenType, CostumSizeAssumption DEF RecordFrom
<1>3. \A b \in 0 .. 0 : ~Begins(<<>>, b)
  BY <1>2 DEF Begins
<1> QED BY <1>1, <1>3 DEF OfRecords, Covered, Spaced

\* The first byte is the first of a record.
LEMMA FirstRecord ==
  ASSUME NEW u, OfRecords(u), Len(u) >= 1
  PROVE  \E m \in Modes, k \in 0 .. RecMod - 1 : RecordFrom(u, 0, m, k)
<1>1. Len(u) \in Nat
  BY DEF OfRecords
<1>2. PICK b \in 0 .. Len(u), m \in Modes, k \in 0 .. RecMod - 1 :
        RecordFrom(u, b, m, k) /\ 1 \in b + 1 .. b + RecordLen(m)
  BY <1>1 DEF OfRecords, Covered
<1>3. b = 0
  BY <1>1, <1>2
<1> QED BY <1>2, <1>3

\* The record that a byte is in begins at a distance from the start of u.
LEMMA RecordAt ==
  ASSUME NEW u, OfRecords(u), NEW x \in 1 .. Len(u)
  PROVE  \E b \in Nat, m \in Modes, k \in 0 .. RecMod - 1 :
           /\ RecordFrom(u, b, m, k) /\ x >= b + 1 /\ x <= b + RecordLen(m)
           /\ Distance(b) /\ b + RecordLen(m) <= Len(u)
<1>1. Len(u) \in Nat /\ x \in Nat /\ x >= 1 /\ x <= Len(u)
  BY DEF OfRecords
<1>2. PICK b \in 0 .. Len(u), m \in Modes, k \in 0 .. RecMod - 1 :
        RecordFrom(u, b, m, k) /\ x \in b + 1 .. b + RecordLen(m)
  BY DEF OfRecords, Covered
<1>3. b \in Nat /\ RecordLen(m) \in Nat /\ b \in 0 .. Len(u) /\ 0 \in 0 .. Len(u) /\ 0 <= b
  BY <1>1, RecordLenType
<1>4. Begins(u, 0)
  BY <1>1, FirstRecord DEF Begins
<1>5. Begins(u, b)
  BY <1>2 DEF Begins
<1>6. Distance(b - 0)
  BY <1>3, <1>4, <1>5 DEF OfRecords, Spaced
<1>7. b - 0 = b
  BY <1>3
<1>8. x >= b + 1 /\ x <= b + RecordLen(m)
  BY <1>2, <1>3
<1>9. b + RecordLen(m) <= Len(u)
  BY <1>2 DEF RecordFrom
<1> QED BY <1>2, <1>3, <1>6, <1>7, <1>8, <1>9

\* The length of u is a distance.
LEMMA LineLength ==
  ASSUME NEW u, OfRecords(u)
  PROVE  Distance(Len(u))
<1>1. Len(u) \in Nat
  BY DEF OfRecords
<1>2. CASE Len(u) = 0
  BY <1>2, Lengths, SmallRemainder DEF Distance
<1>3. CASE Len(u) >= 1
  <2>1. Begins(u, 0)
    BY <1>3, FirstRecord DEF Begins
  <2>2. Distance(Len(u) - 0)
    BY <1>1, <2>1 DEF OfRecords, Spaced
  <2> QED BY <1>1, <2>2
<1> QED BY <1>1, <1>2, <1>3

\* The byte behind another is the next of its record, or the first of one.
LEMMA NextByte ==
  ASSUME NEW u, OfRecords(u), NEW x \in 1 .. Len(u)
  PROVE  /\ u[x].pos < RecordLen(u[x].kind)
              => x + 1 <= Len(u) /\ u[x + 1].pos = u[x].pos + 1
         /\ x + 1 <= Len(u) => u[x + 1].pos \in {1, u[x].pos + 1}
         /\ u[x].pos \in Nat /\ u[x].kind \in Modes
<1>1. Len(u) \in Nat /\ x \in Nat /\ x + 1 \in Nat /\ x >= 1 /\ x <= Len(u)
  BY DEF OfRecords
<1>2. PICK b \in Nat, m \in Modes, k \in 0 .. RecMod - 1 :
        /\ RecordFrom(u, b, m, k) /\ x >= b + 1 /\ x <= b + RecordLen(m)
        /\ Distance(b) /\ b + RecordLen(m) <= Len(u)
  BY RecordAt
<1>3. IsByte(u[x], m, k, x - b)
  BY <1>1, <1>2, ByteOf
<1>4. u[x].kind = m /\ u[x].pos = x - b
  BY <1>3 DEF IsByte
<1>5. RecordLen(m) \in Nat
  BY RecordLenType
<1>6. ASSUME x < b + RecordLen(m)
      PROVE  x + 1 <= Len(u) /\ u[x + 1].pos = u[x].pos + 1
  <2>1. x + 1 >= b + 1 /\ x + 1 <= b + RecordLen(m) /\ x + 1 <= Len(u)
    BY <1>1, <1>2, <1>5, <1>6
  <2>2. IsByte(u[x + 1], m, k, x + 1 - b)
    BY <1>1, <1>2, <2>1, ByteOf
  <2>3. u[x + 1].pos = x + 1 - b
    BY <2>2 DEF IsByte
  <2> QED BY <1>1, <1>4, <2>1, <2>3
<1>7. ASSUME x = b + RecordLen(m), x + 1 <= Len(u)
      PROVE  u[x + 1].pos = 1
  <2>1. x + 1 \in 1 .. Len(u)
    BY <1>1, <1>7
  <2>2. PICK a \in Nat, n \in Modes, l \in 0 .. RecMod - 1 :
          /\ RecordFrom(u, a, n, l) /\ x + 1 >= a + 1 /\ x + 1 <= a + RecordLen(n)
          /\ Distance(a) /\ a + RecordLen(n) <= Len(u)
    BY <2>1, RecordAt
  <2>3. RecordLen(n) \in Nat
    BY RecordLenType
  <2>4. IsByte(u[x + 1], n, l, x + 1 - a)
    BY <1>1, <2>2, ByteOf
  <2>5. u[x + 1].pos = x + 1 - a
    BY <2>4 DEF IsByte
  <2>6. CASE a = x
    BY <1>1, <2>5, <2>6
  <2>7. CASE a < x
    <3>1. x >= a + 1 /\ x <= a + RecordLen(n)
      BY <1>1, <2>2, <2>3, <2>7
    <3>2. IsByte(u[x], n, l, x - a)
      BY <1>1, <2>2, <3>1, ByteOf
    <3>3. a = b /\ m = n
      BY <1>1, <1>4, <3>2 DEF IsByte
    <3> QED BY <1>1, <1>5, <1>7, <2>2, <3>3
  <2> QED BY <1>1, <2>2, <2>6, <2>7
<1> QED BY <1>1, <1>2, <1>4, <1>5, <1>6, <1>7

\* The elements of a sequence behind its first n.
LEMMA RestOf ==
  ASSUME NEW s \in Seq(Byte), NEW n \in 0 .. Len(s)
  PROVE  /\ SubSeq(s, n + 1, Len(s)) \in Seq(Byte)
         /\ Len(SubSeq(s, n + 1, Len(s))) = Len(s) - n
         /\ \A i \in 1 .. Len(s) - n : SubSeq(s, n + 1, Len(s))[i] = s[n + i]
<1>1. Len(s) \in Nat /\ n \in Nat /\ n <= Len(s)
  OBVIOUS
<1>2. SubSeq(s, n + 1, Len(s)) \in Seq(Byte)
  BY <1>1
<1>3. Len(SubSeq(s, n + 1, Len(s))) = Len(s) - n
  BY <1>1
<1>4. \A i \in 1 .. Len(s) - n : SubSeq(s, n + 1, Len(s))[i] = s[n + i]
  BY <1>1
<1> QED BY <1>2, <1>3, <1>4

\* The elements of two sequences in one.
LEMMA Joined ==
  ASSUME NEW s \in Seq(Byte), NEW t \in Seq(Byte)
  PROVE  /\ s \o t \in Seq(Byte) /\ Len(s \o t) = Len(s) + Len(t)
         /\ \A i \in 1 .. Len(s) : (s \o t)[i] = s[i]
         /\ \A i \in 1 .. Len(t) : (s \o t)[Len(s) + i] = t[i]
OBVIOUS

\* A record that follows u, and the records of u, are the records of the two.
LEMMA RecordsJoined ==
  ASSUME NEW u, OfRecords(u), NEW n \in Modes, NEW l \in 0 .. RecMod - 1, NEW w,
         w = u \o Record(n, l)
  PROVE  /\ Len(w) = Len(u) + RecordLen(n)
         /\ RecordFrom(w, Len(u), n, l)
         /\ \A b \in Nat, m \in Modes, k \in 0 .. RecMod - 1 :
              RecordFrom(u, b, m, k) => RecordFrom(w, b, m, k)
         /\ \A b \in Nat : Begins(w, b) => b = Len(u) \/ (b <= Len(u) /\ Begins(u, b))
<1> DEFINE r == Record(n, l)
<1>1. u \in Seq(Byte) /\ r \in Seq(Byte) /\ Len(r) = RecordLen(n) /\ Len(u) \in Nat
      /\ RecordLen(n) \in Nat
  BY RecordType, RecordLenType DEF OfRecords
<1>2. \A i \in 1 .. RecordLen(n) : r[i] = [kind |-> n, rec |-> l, pos |-> i]
  BY DEF Record
<1> HIDE DEF r
<1>3. w = u \o r
  BY DEF r
<1>4. Len(w) = Len(u) + RecordLen(n) /\ (\A i \in 1 .. Len(u) : w[i] = u[i])
      /\ (\A i \in 1 .. RecordLen(n) : w[Len(u) + i] = r[i])
  <2>1. w \in Seq(Byte) /\ Len(w) = Len(u) + Len(r)
        /\ (\A i \in 1 .. Len(u) : w[i] = u[i])
        /\ (\A i \in 1 .. Len(r) : w[Len(u) + i] = r[i])
    BY ONLY <1>1, <1>3, Joined
  <2> QED BY ONLY <1>1, <2>1
<1>5. RecordFrom(w, Len(u), n, l)
  BY <1>1, <1>2, <1>4 DEF RecordFrom
<1>6. ASSUME NEW b \in Nat, NEW m \in Modes, NEW k \in 0 .. RecMod - 1
      PROVE  RecordFrom(u, b, m, k) <=> RecordFrom(w, b, m, k) /\ b + RecordLen(m) <= Len(u)
  <2>1. RecordLen(m) \in Nat
    BY RecordLenType
  <2>2. ASSUME b + RecordLen(m) <= Len(u), NEW i \in 1 .. RecordLen(m)
        PROVE  w[b + i] = u[b + i]
    <3>1. b + i \in 1 .. Len(u)
      BY <1>1, <2>1, <2>2
    <3> QED BY <1>4, <3>1
  <2>3. b + RecordLen(m) <= Len(u) => b + RecordLen(m) <= Len(w)
    BY <1>1, <1>4, <2>1
  <2> QED BY <2>2, <2>3 DEF RecordFrom
<1>7. ASSUME NEW b \in Nat, Begins(w, b)
      PROVE  b = Len(u) \/ (b <= Len(u) /\ Begins(u, b))
  <2>1. PICK m \in Modes, k \in 0 .. RecMod - 1 : RecordFrom(w, b, m, k)
    BY <1>7 DEF Begins
  <2>2. RecordLen(m) \in Nat /\ RecordLen(m) >= 1
    BY RecordLenType, CostumSizeAssumption
  <2>3. CASE b < Len(u)
    <3>1. b + RecordLen(m) <= Len(u)
      BY <1>1, <1>5, <2>1, <2>3, Apart
    <3>2. RecordFrom(u, b, m, k)
      BY <1>6, <2>1, <3>1
    <3> QED BY <1>1, <2>3, <3>2 DEF Begins
  <2>4. CASE b > Len(u)
    <3>1. Len(u) + RecordLen(n) <= b
      BY <1>1, <1>5, <2>1, <2>4, Apart
    <3>2. b + RecordLen(m) <= Len(w)
      BY <2>1 DEF RecordFrom
    <3> QED BY <1>1, <1>4, <2>2, <3>1, <3>2
  <2> QED BY <1>1, <2>3, <2>4
<1> QED BY <1>4, <1>5, <1>6, <1>7

\* u with one more record is a line of records.
LEMMA AppendRecord ==
  ASSUME NEW u, OfRecords(u), NEW n \in Modes, NEW l \in 0 .. RecMod - 1
  PROVE  OfRecords(u \o Record(n, l))
<1> DEFINE w == u \o Record(n, l)
<1>1. u \in Seq(Byte) /\ Record(n, l) \in Seq(Byte) /\ w \in Seq(Byte)
  BY RecordType DEF OfRecords
<1>2. /\ Len(w) = Len(u) + RecordLen(n)
      /\ RecordFrom(w, Len(u), n, l)
      /\ \A b \in Nat, m \in Modes, k \in 0 .. RecMod - 1 :
           RecordFrom(u, b, m, k) => RecordFrom(w, b, m, k)
      /\ \A b \in Nat : Begins(w, b) => b = Len(u) \/ (b <= Len(u) /\ Begins(u, b))
  BY RecordsJoined
<1> HIDE DEF w
<1>3. Len(u) \in Nat /\ RecordLen(n) \in Nat /\ RecordLen(n) >= 1 /\ Len(w) \in Nat
  BY <1>1, RecordLenType, CostumSizeAssumption
<1>4. ASSUME NEW x \in 1 .. Len(w)
      PROVE  \E b \in 0 .. Len(w), m \in Modes, k \in 0 .. RecMod - 1 :
               RecordFrom(w, b, m, k) /\ x \in b + 1 .. b + RecordLen(m)
  <2>1. CASE x <= Len(u)
    <3>1. x \in 1 .. Len(u)
      BY <1>3, <2>1
    <3>2. PICK b \in 0 .. Len(u), m \in Modes, k \in 0 .. RecMod - 1 :
            RecordFrom(u, b, m, k) /\ x \in b + 1 .. b + RecordLen(m)
      BY <3>1 DEF OfRecords, Covered
    <3>3. b \in Nat /\ b \in 0 .. Len(w)
      BY <1>2, <1>3, <3>2
    <3> QED BY <1>2, <3>2, <3>3
  <2>2. CASE x > Len(u)
    <3>1. x \in Len(u) + 1 .. Len(u) + RecordLen(n) /\ Len(u) \in 0 .. Len(w)
      BY <1>2, <1>3, <2>2
    <3> QED BY <1>2, <3>1
  <2> QED BY <1>3, <2>1, <2>2
<1>5. ASSUME NEW a \in 0 .. Len(w), NEW b \in 0 .. Len(w), Begins(w, a),
             Begins(w, b) \/ b = Len(w), a <= b
      PROVE  Distance(b - a)
  <2>1. a \in Nat /\ b \in Nat
    BY <1>3
  <2>2. a = Len(u) \/ (a <= Len(u) /\ Begins(u, a))
    BY <1>2, <1>5, <2>1
  <2>3. ASSUME a <= Len(u), Begins(u, a) PROVE Distance(Len(u) - a)
    <3>1. a \in 0 .. Len(u) /\ Len(u) \in 0 .. Len(u)
      BY <1>3, <2>1, <2>3
    <3> QED BY <2>3, <3>1 DEF OfRecords, Spaced
  <2>4. Distance(0)
    BY LineLength, NoRecords
  <2>5. Distance(Len(u) - a)
    <3>1. CASE a = Len(u)
      <4>1. Len(u) - a = 0
        BY <1>3, <3>1
      <4> QED BY <2>4, <4>1
    <3> QED BY <2>2, <2>3, <3>1
  <2>6. CASE b = Len(w)
    <3>1. Distance(Len(u) - a + RecordLen(n))
      BY <2>5, NextDistance
    <3>2. b - a = Len(u) - a + RecordLen(n)
      BY <1>2, <1>3, <2>1, <2>6
    <3> QED BY <3>1, <3>2
  <2>7. CASE b = Len(u)
    BY <2>5, <2>7
  <2>8. CASE b <= Len(u) /\ Begins(u, b)
    <3>1. CASE a = Len(u)
      <4>1. b - a = 0
        BY <1>3, <1>5, <2>1, <2>8, <3>1
      <4> QED BY <2>4, <4>1
    <3>2. CASE a <= Len(u) /\ Begins(u, a)
      <4>1. a \in 0 .. Len(u) /\ b \in 0 .. Len(u)
        BY <1>3, <2>1, <2>8, <3>2
      <4> QED BY <1>5, <2>8, <3>2, <4>1 DEF OfRecords, Spaced
    <3> QED BY <2>2, <3>1, <3>2
  <2> QED BY <1>2, <1>5, <2>1, <2>6, <2>7, <2>8
<1>6. Covered(w)
  BY <1>4 DEF Covered
<1>7. Spaced(w)
  BY <1>5 DEF Spaced
<1>8. w \in Seq(Byte)
  BY <1>1 DEF w
<1>9. OfRecords(w)
  BY <1>6, <1>7, <1>8 DEF OfRecords
<1> QED BY <1>9 DEF w

\* Without the records before one of them u is a line of records.
LEMMA DropRecords ==
  ASSUME NEW u, OfRecords(u), NEW a \in Nat, NEW n \in Modes, NEW l \in 0 .. RecMod - 1,
         RecordFrom(u, a, n, l)
  PROVE  OfRecords(SubSeq(u, a + 1, Len(u)))
<1> DEFINE w == SubSeq(u, a + 1, Len(u))
<1>1. u \in Seq(Byte) /\ Len(u) \in Nat /\ RecordLen(n) \in Nat /\ RecordLen(n) >= 1
  BY RecordLenType, CostumSizeAssumption DEF OfRecords
<1>2. a \in 0 .. Len(u)
  BY <1>1 DEF RecordFrom
<1>3. w \in Seq(Byte) /\ Len(w) = Len(u) - a /\ \A i \in 1 .. Len(u) - a : w[i] = u[a + i]
  BY <1>1, <1>2, RestOf
<1> HIDE DEF w
<1>4. Len(w) \in Nat
  BY <1>1, <1>2, <1>3
<1>5. ASSUME NEW b \in Nat, NEW m \in Modes, NEW k \in 0 .. RecMod - 1
      PROVE  RecordFrom(w, b, m, k) <=> RecordFrom(u, a + b, m, k)
  <2>1. RecordLen(m) \in Nat
    BY RecordLenType
  <2>2. b + RecordLen(m) <= Len(w) <=> (a + b) + RecordLen(m) <= Len(u)
    BY <1>1, <1>3, <2>1
  <2>3. ASSUME b + RecordLen(m) <= Len(w), NEW i \in 1 .. RecordLen(m)
        PROVE  w[b + i] = u[(a + b) + i]
    <3>1. b + i \in 1 .. Len(u) - a /\ a + (b + i) = (a + b) + i
      BY <1>1, <1>3, <2>1, <2>3
    <3> QED BY <1>3, <3>1
  <2> QED BY <2>2, <2>3 DEF RecordFrom
<1>6. ASSUME NEW b \in Nat PROVE Begins(w, b) <=> Begins(u, a + b)
  BY <1>5 DEF Begins
<1>7. ASSUME NEW x \in 1 .. Len(w)
      PROVE  \E b \in 0 .. Len(w), m \in Modes, k \in 0 .. RecMod - 1 :
               RecordFrom(w, b, m, k) /\ x \in b + 1 .. b + RecordLen(m)
  <2>1. a + x \in 1 .. Len(u) /\ x \in Nat
    BY <1>1, <1>3, <1>4
  <2>2. PICK c \in 0 .. Len(u), m \in Modes, k \in 0 .. RecMod - 1 :
          RecordFrom(u, c, m, k) /\ a + x \in c + 1 .. c + RecordLen(m)
    BY <2>1 DEF OfRecords, Covered
  <2>3. c \in Nat /\ RecordLen(m) \in Nat /\ a + x >= c + 1 /\ a + x <= c + RecordLen(m)
    BY <1>1, <2>1, <2>2, RecordLenType
  <2>4. c >= a
    <3>1. CASE c < a
      <4>1. c + RecordLen(m) <= a
        BY <2>2, <2>3, <3>1, Apart
      <4> QED BY <2>1, <2>3, <4>1
    <3> QED BY <2>3, <3>1
  <2>5. c - a \in Nat /\ a + (c - a) = c
    BY <2>3, <2>4
  <2>6. RecordFrom(w, c - a, m, k)
    BY <1>5, <2>2, <2>5
  <2>7. c - a + RecordLen(m) <= Len(w)
    BY <2>6 DEF RecordFrom
  <2>8. c - a \in 0 .. Len(w) /\ x \in (c - a) + 1 .. (c - a) + RecordLen(m)
    BY <1>4, <2>1, <2>3, <2>5, <2>7
  <2> QED BY <2>6, <2>8
<1>8. ASSUME NEW c \in 0 .. Len(w), NEW b \in 0 .. Len(w), Begins(w, c),
             Begins(w, b) \/ b = Len(w), c <= b
      PROVE  Distance(b - c)
  <2>1. c \in Nat /\ b \in Nat /\ a + c \in 0 .. Len(u) /\ a + b \in 0 .. Len(u)
        /\ (b = Len(w) => a + b = Len(u)) /\ a + c <= a + b /\ (a + b) - (a + c) = b - c
    BY <1>1, <1>2, <1>3, <1>4, <1>8
  <2>2. Begins(u, a + c) /\ (Begins(u, a + b) \/ a + b = Len(u))
    BY <1>6, <1>8, <2>1
  <2>3. Distance((a + b) - (a + c))
    BY <2>1, <2>2 DEF OfRecords, Spaced
  <2> QED BY <2>1, <2>3
<1>9. OfRecords(w)
  BY <1>3, <1>7, <1>8 DEF OfRecords, Covered, Spaced
<1> QED BY <1>9 DEF w

-----------------------------------------------------------------------------
(* What arrived of a line of records *)

\* From its f-th byte on s is what arrived of the records u, z bytes of which
\* were read before; behind its g-th byte m bytes are missing.
Place(i, z, g, m) == i + z + (IF i > g THEN m ELSE 0)
Line(s, f, u, z, g, m) ==
  /\ s \in Seq(Byte) /\ OfRecords(u)
  /\ z \in Int /\ g \in Nat /\ m \in 0 .. GapMax /\ f + z >= 1
  /\ Len(u) = Len(s) + z + m
  /\ m > 0 => g >= f /\ g <= Len(s)
  /\ \A i \in f .. Len(s) : s[i] = u[Place(i, z, g, m)]

\* A gap is a number of bytes.
LEMMA GapNat == GapMax \in Nat /\ \A m \in 0 .. GapMax : m \in Nat /\ m <= GapMax
BY SessionAssumption

\* Where a byte of the line is.
LEMMA PlaceOK ==
  ASSUME NEW i \in Int, NEW z \in Int, NEW g \in Int, NEW m \in Int
  PROVE  /\ Place(i, z, g, m) \in Int
         /\ i <= g => Place(i, z, g, m) = i + z
         /\ i > g => Place(i, z, g, m) = i + z + m
         /\ Place(i, z, g, 0) = i + z
BY DEF Place

\* After n more bytes, the gap not among them.
LEMMA DropBefore ==
  ASSUME NEW s, NEW f \in Nat \ {0}, NEW u, NEW z, NEW g, NEW m, Line(s, f, u, z, g, m),
         NEW n \in 0 .. Len(s), n + 1 >= f, m > 0 => n < g,
         NEW h, h = IF m > 0 THEN g - n ELSE 0
  PROVE  Line(SubSeq(s, n + 1, Len(s)), 1, u, z + n, h, m)
<1> DEFINE t == SubSeq(s, n + 1, Len(s))
<1>1. s \in Seq(Byte) /\ Len(s) \in Nat /\ n \in Nat /\ z \in Int /\ g \in Nat /\ m \in Nat
      /\ m \in 0 .. GapMax
  BY GapNat DEF Line
<1>2. t \in Seq(Byte) /\ Len(t) = Len(s) - n /\ \A i \in 1 .. Len(s) - n : t[i] = s[n + i]
  BY <1>1, RestOf
<1> HIDE DEF t
<1>3. OfRecords(u) /\ Len(u) = Len(s) + z + m /\ f + z >= 1 /\ (m > 0 => g >= f /\ g <= Len(s))
      /\ \A i \in f .. Len(s) : s[i] = u[Place(i, z, g, m)]
  BY DEF Line
<1>4. z + n \in Int /\ h \in Nat /\ 1 + (z + n) >= 1 /\ Len(u) = Len(t) + (z + n) + m
      /\ (m > 0 => h >= 1 /\ h <= Len(t))
  <2>1. f \in Nat /\ n <= Len(s) /\ n + 1 >= f /\ (m > 0 => n < g) /\ Len(t) = Len(s) - n
        /\ Len(u) = Len(s) + z + m /\ f + z >= 1 /\ (m > 0 => g >= f /\ g <= Len(s))
    BY <1>1, <1>2, <1>3
  <2>2. h = IF m > 0 THEN g - n ELSE 0
    OBVIOUS
  <2> QED BY ONLY <1>1, <2>1, <2>2
<1>5. ASSUME NEW i \in 1 .. Len(t) PROVE t[i] = u[Place(i, z + n, h, m)]
  <2>1. i \in Nat /\ i >= 1 /\ i \in 1 .. Len(s) - n /\ n + i \in f .. Len(s)
    BY <1>1, <1>2
  <2>2. t[i] = u[Place(n + i, z, g, m)]
    BY <1>2, <1>3, <2>1
  <2>3. Place(n + i, z, g, m) = Place(i, z + n, h, m)
    BY <1>1, <2>1 DEF Place
  <2> QED BY <2>2, <2>3
<1>6. Line(t, 1, u, z + n, h, m)
  BY <1>1, <1>2, <1>3, <1>4, <1>5 DEF Line
<1> QED BY <1>6 DEF t

\* After n more bytes, the gap among them or behind them.
LEMMA DropBehind ==
  ASSUME NEW s, NEW f \in Nat \ {0}, NEW u, NEW z, NEW g, NEW m, Line(s, f, u, z, g, m),
         NEW n \in 0 .. Len(s), n + 1 >= f, n >= g
  PROVE  Line(SubSeq(s, n + 1, Len(s)), 1, u, z + n + m, 0, 0)
<1> DEFINE t == SubSeq(s, n + 1, Len(s))
<1>1. s \in Seq(Byte) /\ Len(s) \in Nat /\ n \in Nat /\ z \in Int /\ g \in Nat /\ m \in Nat
      /\ 0 \in 0 .. GapMax
  BY GapNat DEF Line
<1>2. t \in Seq(Byte) /\ Len(t) = Len(s) - n /\ \A i \in 1 .. Len(s) - n : t[i] = s[n + i]
  BY <1>1, RestOf
<1> HIDE DEF t
<1>3. OfRecords(u) /\ Len(u) = Len(s) + z + m /\ f + z >= 1
      /\ \A i \in f .. Len(s) : s[i] = u[Place(i, z, g, m)]
  BY DEF Line
<1>4. z + n + m \in Int /\ 1 + (z + n + m) >= 1 /\ Len(u) = Len(t) + (z + n + m) + 0
  BY <1>1, <1>2, <1>3
<1>5. ASSUME NEW i \in 1 .. Len(t) PROVE t[i] = u[Place(i, z + n + m, 0, 0)]
  <2>1. i \in Nat /\ i >= 1 /\ i \in 1 .. Len(s) - n /\ n + i \in f .. Len(s)
    BY <1>1, <1>2
  <2>2. t[i] = u[Place(n + i, z, g, m)]
    BY <1>2, <1>3, <2>1
  <2>3. Place(n + i, z, g, m) = Place(i, z + n + m, 0, 0)
    BY <1>1, <2>1 DEF Place
  <2> QED BY <2>2, <2>3
<1>6. Line(t, 1, u, z + n + m, 0, 0)
  BY <1>1, <1>2, <1>3, <1>4, <1>5 DEF Line
<1> QED BY <1>6 DEF t

\* A record that arrives as it was sent.
LEMMA RecordArrives ==
  ASSUME NEW s, NEW f \in Nat \ {0}, NEW u, NEW z, NEW g, NEW m, Line(s, f, u, z, g, m),
         f <= Len(s) + 1, NEW n \in Modes, NEW l \in 0 .. RecMod - 1
  PROVE  Line(s \o Record(n, l), f, u \o Record(n, l), z, g, m)
<1> DEFINE r == Record(n, l)
           t == s \o r
           w == u \o r
<1>1. s \in Seq(Byte) /\ Len(s) \in Nat /\ z \in Int /\ g \in Nat /\ m \in Nat
      /\ m \in 0 .. GapMax /\ u \in Seq(Byte) /\ Len(u) \in Nat
  BY GapNat DEF Line, OfRecords
<1>2. OfRecords(u) /\ Len(u) = Len(s) + z + m /\ f + z >= 1 /\ (m > 0 => g >= f /\ g <= Len(s))
      /\ \A i \in f .. Len(s) : s[i] = u[Place(i, z, g, m)]
  BY DEF Line
<1>3. r \in Seq(Byte) /\ Len(r) \in Nat
  BY RecordType
<1>4. OfRecords(w)
  BY <1>2, AppendRecord
<1> HIDE DEF r
<1>5. /\ t \in Seq(Byte) /\ Len(t) = Len(s) + Len(r)
      /\ \A i \in 1 .. Len(s) : t[i] = s[i]
      /\ \A i \in 1 .. Len(r) : t[Len(s) + i] = r[i]
  BY ONLY <1>1, <1>3, Joined
<1>6. /\ w \in Seq(Byte) /\ Len(w) = Len(u) + Len(r)
      /\ \A i \in 1 .. Len(u) : w[i] = u[i]
      /\ \A i \in 1 .. Len(r) : w[Len(u) + i] = r[i]
  BY ONLY <1>1, <1>3, Joined
<1> HIDE DEF t, w
<1>7. Len(w) = Len(t) + z + m /\ Len(t) \in Nat /\ (m > 0 => g >= f /\ g <= Len(t))
  BY <1>1, <1>2, <1>3, <1>5, <1>6
<1>8. ASSUME NEW i \in f .. Len(t) PROVE t[i] = w[Place(i, z, g, m)]
  <2>0. i \in Int /\ i >= f /\ i <= Len(t)
    BY <1>7
  <2>1. CASE i <= Len(s) /\ i >= 1
    <3>1. i \in 1 .. Len(s) /\ i \in f .. Len(s)
      BY <1>1, <2>0, <2>1
    <3>2. Place(i, z, g, m) \in 1 .. Len(u)
      BY <1>1, <1>2, <2>0, <2>1 DEF Place
    <3> QED BY <1>2, <1>5, <1>6, <3>1, <3>2
  <2>2. CASE i > Len(s)
    <3>1. PICK k \in 1 .. Len(r) : i = Len(s) + k
      <4>1. i - Len(s) \in 1 .. Len(r) /\ i = Len(s) + (i - Len(s))
        BY <1>1, <1>3, <1>5, <2>0, <2>2
      <4> QED BY <4>1
    <3>2. Place(i, z, g, m) = Len(u) + k
      <4>1. Len(u) = Len(s) + z + m /\ (m > 0 => i > g) /\ k \in Nat
        BY <1>1, <1>2, <2>0, <2>2
      <4>2. Place(i, z, g, m) = i + z + m
        BY ONLY <1>1, <2>0, <4>1 DEF Place
      <4> QED BY ONLY <1>1, <2>0, <3>1, <4>1, <4>2
    <3>3. t[Len(s) + k] = r[k] /\ w[Len(u) + k] = r[k]
      BY ONLY <1>5, <1>6, <3>1
    <3> QED BY ONLY <3>1, <3>2, <3>3
  <2> QED BY <1>1, <2>0, <2>1, <2>2
<1>9. Line(t, f, w, z, g, m)
  BY <1>1, <1>2, <1>4, <1>5, <1>7, <1>8 DEF Line
<1> QED BY <1>9 DEF t, w, r

\* What a gap leaves of a record.
Remains(v, r, i, j) ==
  /\ v \in Seq(Byte) /\ Len(v) = Len(r) - (j - i + 1)
  /\ \A k \in 1 .. Len(v) : v[k] = r[IF k < i THEN k ELSE k + (j - i + 1)]

\* A gap leaves of a record what comes before it and what comes behind it.
LEMMA GapOf ==
  ASSUME NEW r \in Seq(Byte), NEW i \in 1 .. Len(r), NEW j \in 1 .. Len(r), i <= j,
         NEW v, v = Gap(r, i, j)
  PROVE  Remains(v, r, i, j)
<1> DEFINE a == SubSeq(r, 1, i - 1)
           b == SubSeq(r, j + 1, Len(r))
<1>1. Len(r) \in Nat /\ i \in Nat /\ j \in Nat /\ i >= 1 /\ j <= Len(r) /\ j \in 0 .. Len(r)
  OBVIOUS
<1>2. a \in Seq(Byte) /\ Len(a) = i - 1 /\ \A k \in 1 .. i - 1 : a[k] = r[k]
  BY <1>1
<1>3. b \in Seq(Byte) /\ Len(b) = Len(r) - j /\ \A k \in 1 .. Len(r) - j : b[k] = r[j + k]
  BY <1>1, RestOf
<1>4. v = a \o b
  BY DEF Gap
<1> HIDE DEF a, b
<1>5. /\ v \in Seq(Byte) /\ Len(v) = Len(a) + Len(b)
      /\ \A k \in 1 .. Len(a) : v[k] = a[k]
      /\ \A k \in 1 .. Len(b) : v[Len(a) + k] = b[k]
  BY ONLY <1>2, <1>3, <1>4, Joined
<1>6. Len(v) = Len(r) - (j - i + 1) /\ Len(v) \in Nat /\ Len(a) = i - 1 /\ Len(b) = Len(r) - j
  BY <1>1, <1>2, <1>3, <1>5
<1>7. ASSUME NEW k \in 1 .. Len(v)
      PROVE  v[k] = r[IF k < i THEN k ELSE k + (j - i + 1)]
  <2>0. k \in Nat /\ k >= 1 /\ k <= Len(v)
    BY <1>6
  <2>1. CASE k < i
    <3>1. k \in 1 .. i - 1 /\ k \in 1 .. Len(a)
      BY <1>1, <1>6, <2>0, <2>1
    <3> QED BY <1>2, <1>5, <2>1, <3>1
  <2>2. CASE k >= i
    <3>1. PICK h \in 1 .. Len(b) : k = Len(a) + h
      <4>1. k - (i - 1) \in 1 .. Len(b) /\ k = Len(a) + (k - (i - 1))
        BY ONLY <1>1, <1>6, <2>0, <2>2
      <4> QED BY <4>1
    <3>2. v[Len(a) + h] = b[h] /\ b[h] = r[j + h]
      BY <1>3, <1>5, <1>6, <3>1
    <3>3. j + h = k + (j - i + 1) /\ ~(k < i)
      BY <1>1, <1>6, <2>0, <2>2, <3>1
    <3>4. (IF k < i THEN k ELSE k + (j - i + 1)) = j + h
      BY ONLY <3>3
    <3> QED BY ONLY <3>1, <3>2, <3>4
  <2> QED BY <1>1, <2>0, <2>1, <2>2
<1> QED BY <1>5, <1>6, <1>7 DEF Remains

\* A record that arrives with a gap, behind some of the record before.
LEMMA GapArrives ==
  ASSUME NEW s, NEW f \in Nat \ {0}, NEW u, NEW z, NEW g, Line(s, f, u, z, g, 0),
         NEW n \in Modes, NEW l \in 0 .. RecMod - 1,
         NEW i \in 1 .. RecordLen(n), NEW j \in 1 .. RecordLen(n), i <= j, j - i < GapMax,
         NEW v, v = Gap(Record(n, l), i, j), f <= Len(s) + i - 1
  PROVE  Line(s \o v, f, u \o Record(n, l), z, Len(s) + i - 1, j - i + 1)
<1> DEFINE r == Record(n, l)
           t == s \o v
           w == u \o r
           m == j - i + 1
           h == Len(s) + i - 1
<1>0. RecordLen(n) \in Nat /\ i \in Nat /\ i >= 1 /\ j \in Nat /\ j <= RecordLen(n)
      /\ GapMax \in Nat /\ f \in Nat /\ f >= 1
  BY RecordLenType, GapNat
<1>1. s \in Seq(Byte) /\ Len(s) \in Nat /\ z \in Int /\ u \in Seq(Byte) /\ Len(u) \in Nat
      /\ OfRecords(u) /\ Len(u) = Len(s) + z + 0 /\ f + z >= 1
  BY DEF Line, OfRecords
<1>2. ASSUME NEW k \in f .. Len(s) PROVE s[k] = u[k + z]
  <2>1. k \in Int /\ z \in Int /\ s[k] = u[Place(k, z, g, 0)]
    BY <1>0, <1>1 DEF Line
  <2>2. Place(k, z, g, 0) = k + z
    BY ONLY <2>1 DEF Place
  <2> QED BY <2>1, <2>2
<1>3. r \in Seq(Byte) /\ Len(r) = RecordLen(n)
  BY RecordType
<1>4. OfRecords(w)
  BY <1>1, AppendRecord
<1> HIDE DEF r
<1>5. i \in 1 .. Len(r) /\ j \in 1 .. Len(r) /\ v = Gap(r, i, j)
  BY <1>3 DEF r
<1>6. v \in Seq(Byte) /\ Len(v) = Len(r) - (j - i + 1)
      /\ \A k \in 1 .. Len(v) : v[k] = r[IF k < i THEN k ELSE k + (j - i + 1)]
  <2>1. Remains(v, r, i, j)
    BY <1>3, <1>5, GapOf
  <2> QED BY <2>1 DEF Remains
<1>m. m = j - i + 1 /\ h = Len(s) + i - 1
  OBVIOUS
<1> HIDE DEF m, h
<1>7. /\ t \in Seq(Byte) /\ Len(t) = Len(s) + Len(v)
      /\ \A k \in 1 .. Len(s) : t[k] = s[k]
      /\ \A k \in 1 .. Len(v) : t[Len(s) + k] = v[k]
  BY ONLY <1>1, <1>6, Joined
<1>8. /\ w \in Seq(Byte) /\ Len(w) = Len(u) + Len(r)
      /\ \A k \in 1 .. Len(u) : w[k] = u[k]
      /\ \A k \in 1 .. Len(r) : w[Len(u) + k] = r[k]
  BY ONLY <1>1, <1>3, Joined
<1> HIDE DEF t, w
<1>9. /\ m \in 0 .. GapMax /\ m \in Nat /\ h \in Nat /\ h >= f /\ h <= Len(t)
      /\ Len(t) \in Nat /\ Len(w) = Len(t) + z + m /\ Len(v) \in Nat /\ Len(r) \in Nat
  <2>1. Len(v) = RecordLen(n) - (j - i + 1) /\ Len(t) = Len(s) + Len(v)
        /\ Len(w) = Len(u) + RecordLen(n) /\ Len(u) = Len(s) + z /\ Len(r) = RecordLen(n)
        /\ f <= Len(s) + i - 1 /\ i <= j /\ j - i < GapMax
    BY <1>1, <1>3, <1>6, <1>7, <1>8
  <2>2. Len(s) \in Nat /\ z \in Int
    BY <1>1
  <2>3. m \in Nat /\ m <= GapMax /\ m >= 1
    BY ONLY <1>0, <1>m, <2>1
  <2>4. h \in Nat /\ h >= f
    BY ONLY <1>0, <1>m, <2>1, <2>2
  <2>5. Len(r) \in Nat /\ Len(v) = Len(r) - m /\ m <= Len(r)
    BY ONLY <1>0, <1>m, <2>1
  <2>6. Len(v) \in Nat /\ Len(t) \in Nat
    BY ONLY <2>1, <2>2, <2>3, <2>5
  <2>7. h <= Len(t)
    BY ONLY <1>0, <1>m, <2>1, <2>2
  <2>8. Len(w) = Len(t) + z + m
    <3>1. Len(w) = Len(u) + Len(r) /\ Len(u) = Len(s) + z /\ Len(t) = Len(s) + Len(v)
      BY ONLY <2>1
    <3> QED BY ONLY <2>2, <2>3, <2>5, <2>6, <3>1
  <2>9. m \in 0 .. GapMax
    BY ONLY <1>0, <2>3
  <2> QED BY ONLY <2>3, <2>4, <2>5, <2>6, <2>7, <2>8, <2>9
<1>10. ASSUME NEW k \in f .. Len(t) PROVE t[k] = w[Place(k, z, h, m)]
  <2>0. k \in Int /\ k >= f /\ k <= Len(t) /\ k >= 1
    BY <1>0, <1>9
  <2>1. CASE k <= Len(s)
    <3>1. k \in 1 .. Len(s) /\ k \in f .. Len(s) /\ k + z \in 1 .. Len(u) /\ k <= h
      BY <1>0, <1>1, <1>m, <2>0, <2>1
    <3>2. Place(k, z, h, m) = k + z
      BY ONLY <1>1, <1>9, <2>0, <3>1 DEF Place
    <3> QED BY <1>2, <1>7, <1>8, <3>1, <3>2
  <2>2. CASE k > Len(s)
    <3>1. PICK a \in 1 .. Len(v) : k = Len(s) + a
      <4>1. k - Len(s) \in 1 .. Len(v) /\ k = Len(s) + (k - Len(s))
        BY <1>1, <1>7, <1>9, <2>0, <2>2
      <4> QED BY <4>1
    <3>2. a \in Nat /\ a >= 1 /\ a <= Len(v)
      BY <1>9, <3>1
    <3>3. t[k] = r[IF a < i THEN a ELSE a + (j - i + 1)]
      BY <1>6, <1>7, <3>1
    <3>4. CASE a < i
      <4>1. k <= h /\ a \in 1 .. Len(r)
        <5>1. Len(r) = RecordLen(n) /\ Len(s) \in Nat
          BY <1>1, <1>3
        <5> QED BY ONLY <1>0, <1>m, <3>1, <3>2, <3>4, <5>1
      <4>2. Place(k, z, h, m) = k + z
        BY ONLY <1>1, <1>9, <2>0, <4>1 DEF Place
      <4>3. k + z = Len(u) + a
        BY <1>1, <3>1, <3>2
      <4>4. w[Len(u) + a] = r[a]
        BY <1>8, <4>1
      <4> QED BY <3>3, <3>4, <4>2, <4>3, <4>4
    <3>5. CASE ~(a < i)
      <4>1. k > h /\ a + (j - i + 1) \in 1 .. Len(r)
        <5>1. Len(r) = RecordLen(n) /\ Len(s) \in Nat /\ i <= j /\ Len(v) = Len(r) - (j - i + 1)
          BY <1>1, <1>3, <1>6
        <5> QED BY ONLY <1>0, <1>m, <3>1, <3>2, <3>5, <5>1
      <4>2. Place(k, z, h, m) = k + z + m
        BY ONLY <1>1, <1>9, <2>0, <4>1 DEF Place
      <4>3. k + z + m = Len(u) + (a + (j - i + 1))
        BY <1>0, <1>1, <1>m, <3>1, <3>2
      <4>4. w[Len(u) + (a + (j - i + 1))] = r[a + (j - i + 1)]
        BY <1>8, <4>1
      <4> QED BY <3>3, <3>5, <4>2, <4>3, <4>4
    <3> QED BY <3>4, <3>5
  <2> QED BY <1>1, <2>0, <2>1, <2>2
<1>11. Line(t, f, w, z, h, m)
  <2>1. m > 0 => h >= f /\ h <= Len(t)
    BY <1>9
  <2> QED BY <1>1, <1>4, <1>7, <1>9, <1>10, <2>1 DEF Line
<1> QED BY <1>11, <1>m DEF t, w, r

\* The first record that arrives, its first bytes missing.
LEMMA GapArrivesFirst ==
  ASSUME NEW s, NEW u, NEW z, NEW g, Line(s, 1, u, z, g, 0), Len(s) = 0,
         NEW n \in Modes, NEW l \in 0 .. RecMod - 1, NEW j \in 1 .. RecordLen(n),
         NEW v, v = Gap(Record(n, l), 1, j)
  PROVE  Line(s \o v, 1, u \o Record(n, l), z + j, 0, 0)
<1> DEFINE r == Record(n, l)
           t == s \o v
           w == u \o r
<1>0. RecordLen(n) \in Nat /\ j \in Nat /\ j >= 1 /\ j <= RecordLen(n) /\ 0 \in 0 .. GapMax
  BY RecordLenType, GapNat
<1>1. s \in Seq(Byte) /\ z \in Int /\ u \in Seq(Byte) /\ Len(u) \in Nat
      /\ OfRecords(u) /\ Len(u) = Len(s) + z + 0 /\ 1 + z >= 1
  BY DEF Line, OfRecords
<1>3. r \in Seq(Byte) /\ Len(r) = RecordLen(n)
  BY RecordType
<1>4. OfRecords(w)
  BY <1>1, AppendRecord
<1> HIDE DEF r
<1>5. 1 \in 1 .. Len(r) /\ j \in 1 .. Len(r) /\ v = Gap(r, 1, j) /\ 1 <= j
  BY <1>0, <1>3 DEF r
<1>6. v \in Seq(Byte) /\ Len(v) = Len(r) - (j - 1 + 1)
      /\ \A k \in 1 .. Len(v) : v[k] = r[IF k < 1 THEN k ELSE k + (j - 1 + 1)]
  <2>1. Remains(v, r, 1, j)
    BY <1>3, <1>5, GapOf
  <2> QED BY <2>1 DEF Remains
<1>7. /\ t \in Seq(Byte) /\ Len(t) = Len(s) + Len(v)
      /\ \A k \in 1 .. Len(v) : t[Len(s) + k] = v[k]
  BY ONLY <1>1, <1>6, Joined
<1>8. /\ w \in Seq(Byte) /\ Len(w) = Len(u) + Len(r)
      /\ \A k \in 1 .. Len(r) : w[Len(u) + k] = r[k]
  BY ONLY <1>1, <1>3, Joined
<1> HIDE DEF t, w
<1>9. /\ Len(v) = Len(r) - j /\ Len(t) = Len(v) /\ Len(u) = z /\ Len(r) \in Nat
      /\ Len(w) = Len(t) + (z + j) + 0 /\ z + j \in Int /\ 1 + (z + j) >= 1
  BY <1>0, <1>1, <1>3, <1>6, <1>7, <1>8
<1>10. ASSUME NEW k \in 1 .. Len(t) PROVE t[k] = w[Place(k, z + j, 0, 0)]
  <2>1. k \in Nat /\ k >= 1 /\ k \in 1 .. Len(v) /\ ~(k < 1) /\ j + k \in 1 .. Len(r)
        /\ Len(s) + k = k /\ k + (j - 1 + 1) = j + k
    BY <1>0, <1>9
  <2>2. t[k] = r[j + k]
    BY <1>6, <1>7, <2>1
  <2>3. w[Len(u) + (j + k)] = r[j + k]
    BY <1>8, <2>1
  <2>4. Place(k, z + j, 0, 0) = Len(u) + (j + k)
    BY <1>0, <1>1, <1>9, <2>1 DEF Place
  <2> QED BY <2>2, <2>3, <2>4
<1>11. Line(t, 1, w, z + j, 0, 0)
  <2>1. 0 \in Nat /\ t \in Seq(Byte) /\ z + j \in Int /\ 1 + (z + j) >= 1
        /\ Len(w) = Len(t) + (z + j) + 0 /\ 0 \in 0 .. GapMax /\ ~(0 > 0)
    BY <1>0, <1>7, <1>9
  <2> QED BY ONLY <1>4, <1>10, <2>1 DEF Line
<1> QED BY <1>11 DEF t, w, r

\* The byte of u that the i-th byte of s is.
LEMMA ByteOfLine ==
  ASSUME NEW s, NEW f \in Nat \ {0}, NEW u, NEW z, NEW g, NEW m, Line(s, f, u, z, g, m),
         NEW i \in f .. Len(s), NEW x, x = Place(i, z, g, m)
  PROVE  s[i] = u[x] /\ x \in 1 .. Len(u) /\ x \in Nat
<1>1. s \in Seq(Byte) /\ Len(s) \in Nat /\ z \in Int /\ g \in Nat /\ m \in Nat
      /\ Len(u) = Len(s) + z + m /\ f + z >= 1 /\ f \in Nat
  BY GapNat DEF Line
<1>2. i \in Int /\ i >= f /\ i <= Len(s)
  BY <1>1
<1>3. x \in Int /\ x >= 1 /\ x <= Len(u)
  BY ONLY <1>1, <1>2, x = Place(i, z, g, m) DEF Place
<1>4. s[i] = u[x]
  BY DEF Line
<1>5. Len(u) \in Int
  BY ONLY <1>1
<1> QED BY <1>3, <1>4, <1>5

\* The third '!' is counted: the line goes on behind the other two, and is that
\* of the record it is in.
LEMMA HeaderRead ==
  ASSUME NEW s, NEW u, NEW z, NEW g, NEW m, Line(s, 1, u, z, g, m), Len(s) >= 1,
         IsExclamationMark(s[1]), NEW q \in Seq(Byte), Len(q) = ControlNumber - 1,
         NEW t, t = Append(q, s[1]) \o SubSeq(s, 2, Len(s))
  PROVE  \E w, y, h : /\ Line(t, ControlNumber, w, y, h, m)
                      /\ y \in 1 - ControlNumber .. 0
                      /\ y = s[1].pos - ControlNumber
<1>1. s \in Seq(Byte) /\ Len(s) \in Nat /\ z \in Int /\ g \in Nat /\ m \in Nat
      /\ Len(u) = Len(s) + z + m /\ 1 + z >= 1 /\ (m > 0 => g >= 1 /\ g <= Len(s))
      /\ m \in 0 .. GapMax
  BY GapNat DEF Line
<1>2. ControlNumber \in Nat /\ ControlNumber >= 1
  BY Lengths
<1>3. 1 \in 1 .. Len(s) /\ 1 \in Nat \ {0}
  BY <1>1
<1>4. Place(1, z, g, m) = 1 + z
  BY ONLY <1>1 DEF Place
<1>5. s[1] = u[1 + z] /\ 1 + z \in 1 .. Len(u) /\ 1 + z \in Nat
  BY <1>3, <1>4, ByteOfLine
<1>6. OfRecords(u) /\ u \in Seq(Byte) /\ Len(u) \in Nat
  BY DEF Line, OfRecords
<1>7. PICK b \in Nat, n \in Modes, k \in 0 .. RecMod - 1 :
        /\ RecordFrom(u, b, n, k) /\ 1 + z >= b + 1 /\ 1 + z <= b + RecordLen(n)
        /\ Distance(b) /\ b + RecordLen(n) <= Len(u)
  BY <1>5, <1>6, RecordAt
<1>8. RecordLen(n) \in Nat /\ b \in 0 .. Len(u)
  BY <1>6, <1>7, RecordLenType
<1>9. s[1].pos = 1 + z - b
  <2>1. PICK x \in Nat : x = 1 + z
    BY <1>5
  <2>2. RecordFrom(u, b, n, k) /\ x >= b + 1 /\ x <= b + RecordLen(n)
    BY <1>7, <2>1
  <2>3. IsByte(u[x], n, k, x - b)
    BY ONLY <1>7, <2>1, <2>2, ByteOf
  <2>4. s[1] = u[x]
    BY ONLY <1>5, <2>1
  <2>5. s[1].pos = x - b
    BY ONLY <2>3, <2>4 DEF IsByte
  <2>6. z \in Int /\ b \in Int
    BY <1>1
  <2> QED BY ONLY <2>1, <2>5, <2>6
<1> DEFINE w == SubSeq(u, b + 1, Len(u))
           y == z - b - ControlNumber + 1
           h == g + ControlNumber - 1
<1>10. OfRecords(w)
  BY <1>6, <1>7, DropRecords
<1>11. Len(w) = Len(u) - b /\ \A i \in 1 .. Len(u) - b : w[i] = u[b + i]
  BY <1>6, <1>8, RestOf
<1>y. y = z - b - ControlNumber + 1 /\ h = g + ControlNumber - 1
  OBVIOUS
<1> HIDE DEF w, y, h
<1>12. s[1].pos <= ControlNumber
  BY DEF IsExclamationMark
<1>13. y \in 1 - ControlNumber .. 0 /\ y = s[1].pos - ControlNumber /\ y \in Int /\ h \in Nat
       /\ ControlNumber + y >= 1
  BY <1>1, <1>2, <1>7, <1>9, <1>12, <1>y
<1> DEFINE a == Append(q, s[1])
           c == SubSeq(s, 1 + 1, Len(s))
<1>14. s[1] \in Byte /\ 1 \in 0 .. Len(s)
  BY <1>1, <1>3
<1>15. a \in Seq(Byte) /\ Len(a) = ControlNumber /\ a[ControlNumber] = s[1]
  BY <1>2, <1>14
<1>16. c \in Seq(Byte) /\ Len(c) = Len(s) - 1 /\ \A i \in 1 .. Len(s) - 1 : c[i] = s[1 + i]
  BY <1>1, <1>14, RestOf
<1>17. t = a \o c
  OBVIOUS
<1> HIDE DEF a, c
<1>18. /\ t \in Seq(Byte) /\ Len(t) = Len(a) + Len(c)
       /\ \A i \in 1 .. Len(a) : t[i] = a[i]
       /\ \A i \in 1 .. Len(c) : t[Len(a) + i] = c[i]
  BY ONLY <1>15, <1>16, <1>17, Joined
<1>19. Len(t) = ControlNumber + Len(s) - 1 /\ Len(t) \in Nat
  <2>1. Len(t) = Len(a) + Len(c) /\ Len(a) = ControlNumber /\ Len(c) = Len(s) - 1
        /\ Len(s) \in Nat /\ Len(s) >= 1
    BY <1>1, <1>15, <1>16, <1>18
  <2> QED BY ONLY <1>2, <2>1
<1>20. ASSUME NEW j \in 1 .. Len(s) PROVE t[ControlNumber - 1 + j] = s[j]
  <2>1. CASE j = 1
    <3>1. ControlNumber - 1 + j = ControlNumber /\ ControlNumber \in 1 .. Len(a)
      BY <1>2, <1>15, <2>1
    <3> QED BY <1>15, <1>18, <2>1, <3>1
  <2>2. CASE j >= 2
    <3>1. j - 1 \in 1 .. Len(c) /\ Len(a) + (j - 1) = ControlNumber - 1 + j
          /\ j - 1 \in 1 .. Len(s) - 1 /\ 1 + (j - 1) = j
      BY <1>1, <1>2, <1>15, <1>16, <2>2
    <3> QED BY <1>16, <1>18, <3>1
  <2>3. j = 1 \/ j >= 2
    BY <1>1
  <2> QED BY <2>1, <2>2, <2>3
<1>21. ASSUME NEW i \in ControlNumber .. Len(t) PROVE t[i] = w[Place(i, y, h, m)]
  <2>1. PICK j \in 1 .. Len(s) : i = ControlNumber - 1 + j
    <3>1. i \in ControlNumber .. Len(t) /\ Len(s) \in Nat
      BY <1>1
    <3>2. i - ControlNumber + 1 \in 1 .. Len(s)
          /\ i = ControlNumber - 1 + (i - ControlNumber + 1)
      BY ONLY <1>2, <1>19, <3>1
    <3> QED BY <3>2
  <2>2. t[i] = s[j]
    BY <1>20, <2>1
  <2> DEFINE x == Place(j, z, g, m)
  <2>3. s[j] = u[x] /\ x \in 1 .. Len(u) /\ x \in Nat
    BY <1>3, ByteOfLine
  <2>4. j \in Nat /\ j >= 1
    BY <1>1
  <2>5. x = j + z + (IF j > g THEN m ELSE 0)
    BY DEF Place
  <2>6. Place(i, y, h, m) = i + y + (IF i > h THEN m ELSE 0)
    BY DEF Place
  <2> HIDE DEF x
  <2>7. Place(i, y, h, m) = x - b /\ x >= b + 1
    BY ONLY <1>1, <1>2, <1>7, <1>y, <2>1, <2>4, <2>5, <2>6
  <2>8. x - b \in 1 .. Len(u) - b /\ b + (x - b) = x
    BY <1>6, <1>8, <2>3, <2>7
  <2>9. w[x - b] = u[x]
    BY <1>11, <2>8
  <2> QED BY <2>2, <2>3, <2>7, <2>9
<1>22. Len(w) = Len(t) + y + m /\ (m > 0 => h >= ControlNumber /\ h <= Len(t))
  <2>1. Len(w) = Len(u) - b /\ Len(u) = Len(s) + z + m /\ b \in Nat /\ Len(s) \in Nat
        /\ z \in Int /\ g \in Nat /\ m \in Nat /\ (m > 0 => g >= 1 /\ g <= Len(s))
    BY <1>1, <1>11
  <2> QED BY ONLY <1>2, <1>19, <1>y, <2>1
<1>23. Line(t, ControlNumber, w, y, h, m)
  BY <1>1, <1>10, <1>13, <1>18, <1>21, <1>22 DEF Line
<1> QED BY <1>13, <1>23

-----------------------------------------------------------------------------
(* What the engine takes for a record *)

\* A gap is shorter than the difference between the two kinds, 270 - 88 bytes,
\* and than what a record of data lacks to a whole number of alarms, 88 - 6: for
\* the code's lengths it is one of 81 bytes at most.
ShortGaps == /\ GapMax < DataLen - AlarmLen
             /\ (DataLen % AlarmLen) + GapMax < AlarmLen

\* A record that ends where a packet does is the packet.
LEMMA EndOfPacket ==
  ASSUME ControlsApart, ShortGaps, NEW M \in Modes, NEW n \in Modes, NEW b, Distance(b),
         NEW y \in 1 - ControlNumber .. 0, NEW d \in 0 .. GapMax, d > 0 => y = 0,
         b + RecordLen(n) = RecordLen(M) + y + d
  PROVE  b = 0 /\ n = M /\ y = 0 /\ d = 0
<1> DEFINE r == DataLen % AlarmLen
<1>1. r \in 0 .. AlarmLen - 1 /\ r >= ControlNumber /\ r + GapMax < AlarmLen
      /\ GapMax < DataLen - AlarmLen
  BY Lengths, Remainder DEF ControlsApart, ShortGaps
<1>2. b \in Nat /\ d \in Nat /\ d <= GapMax /\ GapMax \in Nat /\ y \in Int /\ y <= 0
      /\ y >= 1 - ControlNumber /\ AlarmLen \in Nat /\ DataLen \in Nat
      /\ ControlNumber \in Nat /\ ControlNumber >= 1 /\ DataLen > AlarmLen
  BY GapNat, Lengths DEF Distance
<1>3. r \in Int
  BY <1>1, <1>2
<1> HIDE DEF r
<1>4. CASE n = M
  <2>1. b = y + d
    BY <1>2, <1>4, RecordLenType
  <2>2. CASE d = 0
    BY <1>2, <1>4, <2>1, <2>2
  <2>3. CASE d > 0
    <3>1. b < AlarmLen /\ b > 0
      BY <1>1, <1>2, <1>3, <2>1, <2>3
    <3> QED BY <3>1, ShortDistance
  <2> QED BY <1>2, <2>2, <2>3
<1>5. CASE n # M /\ M = Data
  <2>1. RecordLen(n) = AlarmLen /\ RecordLen(M) = DataLen
    BY <1>5, Lengths
  <2>2. b = DataLen + (y + d) - AlarmLen /\ y + d \in Int
    BY ONLY <1>2, <2>1, b + RecordLen(n) = RecordLen(M) + y + d
  <2>3. r + (y + d) > 0 /\ r + (y + d) < AlarmLen /\ b < DataLen
    BY ONLY <1>1, <1>2, <1>3, <2>2
  <2>4. b % AlarmLen # 0
    <3>1. (DataLen % AlarmLen) + (y + d) > 0 /\ (DataLen % AlarmLen) + (y + d) < AlarmLen
      BY <2>3 DEF r
    <3>2. AlarmLen \in Nat \ {0} /\ DataLen \in Int
      BY Lengths
    <3> QED BY ONLY <1>2, <2>2, <3>1, <3>2, RemainderMoved
  <2> QED BY <1>2, <2>3, <2>4 DEF Distance
<1>6. CASE n # M /\ M # Data
  <2>1. RecordLen(n) = DataLen /\ RecordLen(M) = AlarmLen
    BY <1>6, Lengths DEF Modes, Data
  <2> QED BY ONLY <1>1, <1>2, <2>1, b + RecordLen(n) = RecordLen(M) + y + d
<1> QED BY <1>4, <1>5, <1>6

\* A packet with the tail where it belongs is one record: the bytes from the
\* last '!' on are those of a line, at most one gap in them.
LEMMA PacketIsRecord ==
  ASSUME ControlsApart, ShortGaps, NEW M \in Modes,
         NEW s, NEW u, NEW z, NEW g, NEW m, Line(s, ControlNumber, u, z, g, m),
         z \in 1 - ControlNumber .. 0, m > 0 => z = 0, RecordLen(M) <= Len(s),
         \A i \in RecordLen(M) - ControlNumber + 1 .. RecordLen(M) : IsQuestionMark(s[i])
  PROVE  \E k \in 0 .. RecMod - 1 : \A i \in ControlNumber + 1 .. RecordLen(M) :
           s[i] = Record(M, k)[i]
<1> DEFINE L == RecordLen(M)
           C == ControlNumber
<1>1. Len(s) \in Nat /\ z \in Int /\ g \in Nat /\ m \in Nat /\ m \in 0 .. GapMax
      /\ m <= GapMax /\ GapMax \in Nat
      /\ Len(u) = Len(s) + z + m /\ C + z >= 1 /\ z <= 0 /\ z >= 1 - C /\ OfRecords(u)
  BY GapNat, Lengths DEF Line
<1>2. C \in Nat /\ C >= 1 /\ L \in Nat /\ L > 2 * C /\ L <= Len(s) /\ C \in Nat \ {0}
  BY Lengths, RecordLenType
<1>3. ASSUME NEW i \in C .. L
      PROVE  s[i] = u[Place(i, z, g, m)] /\ Place(i, z, g, m) \in 1 .. Len(u)
             /\ Place(i, z, g, m) \in Nat
  <2>1. i \in C .. Len(s)
    BY <1>1, <1>2
  <2> QED BY <1>2, <2>1, ByteOfLine
<1> DEFINE x == Place(L, z, g, m)
           d == IF L > g THEN m ELSE 0
<1>4. d \in Nat /\ d \in 0 .. GapMax /\ (d > 0 => z = 0) /\ d <= GapMax
  BY <1>1
<1>5. x = L + z + d
  BY DEF Place
<1>6. s[L] = u[x] /\ x \in 1 .. Len(u) /\ x \in Nat
  BY <1>2, <1>3
<1>7. PICK b \in Nat, n \in Modes, k \in 0 .. RecMod - 1 :
        /\ RecordFrom(u, b, n, k) /\ x >= b + 1 /\ x <= b + RecordLen(n)
        /\ Distance(b) /\ b + RecordLen(n) <= Len(u)
  BY <1>1, <1>6, RecordAt
<1>d. d = IF L > g THEN m ELSE 0
  OBVIOUS
<1> HIDE DEF x, d
<1>8. IsByte(s[L], n, k, x - b)
  BY <1>6, <1>7, ByteOf
<1> DEFINE N == RecordLen(n)
<1>9. N \in Nat /\ N >= AlarmLen /\ N > 2 * C
  BY Lengths
<1>10. x - b > N - C
  <2>1. L \in L - C + 1 .. L
    BY <1>2
  <2>2. IsQuestionMark(s[L])
    BY <2>1
  <2> QED BY <1>8, <2>2 DEF IsQuestionMark, IsByte
<1>11. x = b + N
  <2>1. SUFFICES ASSUME x < b + N PROVE FALSE
    BY <1>6, <1>7, <1>9
  <2> DEFINE e == x - b - (N - C)
             j == L - e
  <2>2. e \in 1 .. C - 1 /\ e \in Nat /\ j \in Nat /\ j < L /\ j >= L - C + 1 /\ j > C
    <3>1. x \in Nat /\ b \in Nat /\ x > b + (N - C) /\ x < b + N
      BY <1>2, <1>6, <1>9, <1>10, <2>1
    <3>2. e = x - b - (N - C) /\ j = L - e
      OBVIOUS
    <3> HIDE DEF e, j
    <3> QED BY ONLY <1>2, <1>9, <3>1, <3>2
  <2>e. e = x - b - (N - C) /\ j = L - e
    OBVIOUS
  <2> HIDE DEF e, j
  <2>3. j \in L - C + 1 .. L /\ j \in C .. L
    BY <1>2, <2>2
  <2>4. IsQuestionMark(s[j])
    BY <2>3
  <2> DEFINE v == Place(j, z, g, m)
  <2>5. s[j] = u[v] /\ v \in 1 .. Len(u) /\ v \in Nat
    BY <1>3, <2>3
  <2>6. v = j + z + (IF j > g THEN m ELSE 0)
    BY DEF Place
  <2> HIDE DEF v
  <2>7. \/ v = b + (N - C)
        \/ v = b + (N - C) - m
    <3>1. b \in Nat /\ x \in Nat /\ N \in Int /\ C \in Int /\ L \in Int /\ z \in Int
          /\ m \in Int /\ e \in Int
      BY <1>1, <1>2, <1>6, <1>9, <2>2
    <3>4. x = e + (b + (N - C))
      BY ONLY <2>e, <3>1
    <3>2. CASE j > g
      <4>1. v = j + z + m /\ d = m
        BY ONLY <1>1, <1>2, <1>d, <2>2, <2>6, <3>2
      <4>2. v = x - e
        BY ONLY <1>5, <2>e, <3>1, <4>1
      <4> QED BY ONLY <3>1, <3>4, <4>2
    <3>3. CASE ~(j > g)
      <4>1. v = j + z /\ d \in {0, m}
        BY ONLY <1>1, <1>2, <1>d, <2>2, <2>6, <3>3
      <4>2. v = x - e - d /\ d \in Int
        BY ONLY <1>5, <2>e, <3>1, <4>1
      <4> QED BY ONLY <3>1, <3>4, <4>1, <4>2
    <3> QED BY <3>2, <3>3
  <2>8. N - C - m >= 1
    <3>1. (DataLen % AlarmLen) >= C /\ (DataLen % AlarmLen) + GapMax < AlarmLen
          /\ (DataLen % AlarmLen) \in Int /\ AlarmLen \in Nat
      BY Lengths, Remainder DEF ControlsApart, ShortGaps
    <3> QED BY ONLY <1>1, <1>2, <1>9, <3>1
  <2>9. v >= b + 1 /\ v <= b + N /\ v - b <= N - C
    BY ONLY <1>1, <1>2, <1>7, <1>9, <2>7, <2>8
  <2>10. IsByte(u[v], n, k, v - b)
    BY <1>7, <2>5, <2>9, ByteOf
  <2>11. v - b > N - C
    BY <2>4, <2>5, <2>10 DEF IsQuestionMark, IsByte
  <2> QED BY ONLY <1>2, <1>7, <1>9, <2>5, <2>9, <2>11
<1>12. b = 0 /\ n = M /\ z = 0 /\ d = 0
  <2>1. b + RecordLen(n) = RecordLen(M) + z + d
    BY <1>5, <1>11
  <2> QED BY <1>4, <1>7, <2>1, EndOfPacket
<1>13. ASSUME NEW i \in C + 1 .. L PROVE s[i] = Record(M, k)[i]
  <2>1. i \in C .. L /\ i \in Nat /\ i <= L /\ i >= 1 /\ i \in 1 .. L
    BY <1>2
  <2>2. Place(i, z, g, m) = i
    BY ONLY <1>1, <1>2, <1>d, <1>12, <2>1 DEF Place
  <2>3. s[i] = u[i]
    BY <1>3, <2>1, <2>2
  <2>4. u[0 + i] = [kind |-> M, rec |-> k, pos |-> i]
    BY <1>7, <1>12, <2>1 DEF RecordFrom
  <2>5. 0 + i = i
    BY <2>1
  <2> QED BY <2>1, <2>3, <2>4, <2>5 DEF Record
<1> QED BY <1>13

\* Behind a packet that began with a whole header, and reached over no gap, no
\* header is begun already.
LEMMA BehindPacket ==
  ASSUME ControlsApart, NEW M \in Modes,
         NEW s, NEW u, NEW g, NEW m, Line(s, ControlNumber, u, 0, g, m),
         RecordLen(M) + 1 <= Len(s), m > 0 => g > RecordLen(M)
  PROVE  s[RecordLen(M) + 1].pos = 1 \/ s[RecordLen(M) + 1].pos > ControlNumber
<1> DEFINE L == RecordLen(M)
           C == ControlNumber
<1>1. Len(s) \in Nat /\ g \in Nat /\ m \in Nat /\ OfRecords(u)
  BY GapNat DEF Line
<1>2. C \in Nat /\ C >= 1 /\ L \in Nat /\ L > 2 * C /\ L + 1 <= Len(s) /\ C \in Nat \ {0}
      /\ (m > 0 => g > L)
  BY Lengths, RecordLenType
<1>3. PICK x \in Nat : x = L + 1
  BY <1>2
<1>4. x \in C .. Len(s)
  BY ONLY <1>1, <1>2, <1>3
<1>5. Place(x, 0, g, m) = x
  BY ONLY <1>1, <1>2, <1>3 DEF Place
<1>6. s[x] = u[x] /\ x \in 1 .. Len(u)
  <2>1. x = Place(x, 0, g, m)
    BY <1>5
  <2> QED BY <1>2, <1>4, <2>1, ByteOfLine
<1>7. PICK b \in Nat, n \in Modes, k \in 0 .. RecMod - 1 :
        /\ RecordFrom(u, b, n, k) /\ x >= b + 1 /\ x <= b + RecordLen(n)
        /\ Distance(b) /\ b + RecordLen(n) <= Len(u)
  BY <1>1, <1>6, RecordAt
<1>8. IsByte(s[x], n, k, x - b)
  BY <1>6, <1>7, ByteOf
<1>9. s[x].pos = x - b
  BY <1>8 DEF IsByte
<1>10. SUFFICES ASSUME x - b # 1, x - b <= C PROVE FALSE
  BY <1>2, <1>3, <1>7, <1>9
<1> DEFINE t == x - b - 1
<1>11. t \in 1 .. C - 1 /\ b = L - t
  BY ONLY <1>2, <1>3, <1>7, <1>10
<1> QED BY <1>7, <1>11, NotShortOfDistance

\* A packet with nothing but bytes of one kind behind its header, and no gap.
LEMMA AskedPacket ==
  ASSUME NEW M \in Modes,
         NEW s, NEW u, NEW z, NEW g, NEW m, Line(s, ControlNumber, u, z, g, m),
         z \in 1 - ControlNumber .. 0, RecordLen(M) <= Len(s), m > 0 => g >= RecordLen(M),
         \A i \in ControlNumber + 1 .. RecordLen(M) : s[i].kind = M
  PROVE  /\ z = 0 => \A i \in RecordLen(M) - ControlNumber + 1 .. RecordLen(M) :
                       IsQuestionMark(s[i])
         /\ z < 0 /\ RecordLen(M) + 1 <= Len(s) /\ (m > 0 => g > RecordLen(M))
              => s[RecordLen(M) + 1].pos > ControlNumber
<1> DEFINE L == RecordLen(M)
           C == ControlNumber
<1>1. Len(s) \in Nat /\ z \in Int /\ g \in Nat /\ m \in Nat
      /\ Len(u) = Len(s) + z + m /\ C + z >= 1 /\ z <= 0 /\ z >= 1 - C /\ OfRecords(u)
  BY GapNat, Lengths DEF Line
<1>2. C \in Nat /\ C >= 1 /\ L \in Nat /\ L > 2 * C /\ L <= Len(s) /\ C \in Nat \ {0}
      /\ (m > 0 => g >= L)
  BY Lengths, RecordLenType
<1>3. ASSUME NEW i \in Nat, i >= C, i <= Len(s), m > 0 => g >= i
      PROVE  s[i] = u[i + z] /\ i + z \in 1 .. Len(u) /\ i + z \in Nat
  <2>1. i \in C .. Len(s)
    BY <1>1, <1>2, <1>3
  <2>2. Place(i, z, g, m) = i + z
    BY ONLY <1>1, <1>3, i \in Nat DEF Place
  <2>3. s[i] = u[Place(i, z, g, m)] /\ Place(i, z, g, m) \in 1 .. Len(u)
        /\ Place(i, z, g, m) \in Nat
    BY <1>2, <2>1, ByteOfLine
  <2> QED BY <2>2, <2>3
<1>4. C + z \in 1 .. Len(u) /\ C + z \in Nat /\ C + z <= Len(u) /\ Len(u) \in Nat
  BY ONLY <1>1, <1>2
<1>5. PICK n \in Modes, k \in 0 .. RecMod - 1 : RecordFrom(u, 0, n, k)
  <2>1. Len(u) >= 1
    BY ONLY <1>4
  <2> QED BY <1>1, <2>1, FirstRecord
<1>6. RecordLen(n) \in Nat /\ RecordLen(n) > 2 * C
  BY RecordLenType
<1>7. ASSUME NEW i \in Nat, i >= C, i <= Len(s), m > 0 => g >= i, i + z <= RecordLen(n)
      PROVE  s[i].kind = n /\ s[i].pos = i + z
  <2>1. PICK x \in Nat : x = i + z
    BY <1>3, <1>7
  <2>2. x >= 0 + 1 /\ x <= 0 + RecordLen(n) /\ s[i] = u[x] /\ x - 0 = x
    BY <1>1, <1>2, <1>3, <1>6, <1>7, <2>1
  <2>3. IsByte(u[x], n, k, x - 0)
    BY <1>5, <2>1, <2>2, ByteOf
  <2> QED BY <2>1, <2>2, <2>3 DEF IsByte
<1>8. n = M
  <2>1. C + 1 \in Nat /\ C + 1 >= C /\ C + 1 <= Len(s) /\ (m > 0 => g >= C + 1)
        /\ C + 1 + z <= RecordLen(n) /\ C + 1 \in C + 1 .. L
    BY ONLY <1>1, <1>2, <1>6
  <2>2. s[C + 1].kind = n
    BY <1>7, <2>1
  <2> QED BY <2>1, <2>2
<1>9. ASSUME z = 0, NEW i \in L - C + 1 .. L PROVE IsQuestionMark(s[i])
  <2>1. i \in Nat /\ i >= C /\ i <= Len(s) /\ (m > 0 => g >= i) /\ i + z <= RecordLen(n)
        /\ i + z > RecordLen(n) - C
    BY <1>1, <1>2, <1>8, <1>9
  <2>2. s[i].kind = n /\ s[i].pos = i + z
    BY <1>7, <2>1
  <2> QED BY <2>1, <2>2 DEF IsQuestionMark
<1>10. ASSUME z < 0, L + 1 <= Len(s), m > 0 => g > L
       PROVE  s[L + 1].pos > C
  <2>1. L + 1 \in Nat /\ L + 1 >= C /\ L + 1 <= Len(s) /\ (m > 0 => g >= L + 1)
        /\ L + 1 + z <= RecordLen(n) /\ L + 1 + z > C
    BY <1>1, <1>2, <1>8, <1>10
  <2>2. s[L + 1].pos = L + 1 + z
    BY <1>7, <2>1
  <2> QED BY <2>1, <2>2
<1> QED BY <1>9, <1>10

-----------------------------------------------------------------------------
(* The account of refused records *)

\* The '!' that were counted are those of the header that goes on.
AlignedAt(s, c) == IF Len(s) = 0 THEN c = 0
                   ELSE s[1].pos = c + 1 \/ (c = 0 /\ s[1].pos > ControlNumber)

\* A header that was begun elsewhere will cost a record, and a gap two.
Costs(b, e, m, B) == e \in {0, 1} /\ b + e + (IF m > 0 THEN 2 ELSE 0) <= B

\* Between two records, with c '!' counted and b records refused.
BetweenAt(s, c, b, B) ==
  \E u, z, g, m, e :
    Line(s, 1, u, z, g, m) /\ (e = 0 => AlignedAt(s, c)) /\ Costs(b, e, m, B)

\* In a record: s is what was read since the first '!', and what will be.
WithinAt(s, b, B) ==
  \E u, z, g, m, e :
    /\ Line(s, ControlNumber, u, z, g, m) /\ z \in 1 - ControlNumber .. 0
    /\ (e = 0 => z = 0) /\ Costs(b, e, m, B)

\* The numbers of a line.
LEMMA LineNumbers ==
  ASSUME NEW s, NEW f \in Nat, NEW u, NEW z, NEW g, NEW m, Line(s, f, u, z, g, m)
  PROVE  /\ s \in Seq(Byte) /\ Len(s) \in Nat /\ z \in Int /\ g \in Nat /\ m \in Nat
         /\ m \in 0 .. GapMax
         /\ Len(u) = Len(s) + z + m /\ Len(u) \in Nat /\ f + z >= 1 /\ OfRecords(u)
         /\ (m > 0 => g >= f /\ g <= Len(s))
BY GapNat DEF Line, OfRecords

\* The first bytes of a line that begins between two records.
LEMMA FirstBytes ==
  ASSUME NEW s, NEW u, NEW z, NEW g, NEW m, Line(s, 1, u, z, g, m), Len(s) >= 1
  PROVE  /\ s[1] = u[1 + z] /\ 1 + z \in 1 .. Len(u)
         /\ s[1].pos \in Nat /\ s[1].kind \in Modes
         /\ (m > 0 => g >= 2) =>
              /\ Len(s) >= 2 => s[2].pos \in {1, s[1].pos + 1}
              /\ s[1].pos < RecordLen(s[1].kind) =>
                   Len(s) >= 2 /\ s[2].pos = s[1].pos + 1
<1>1. /\ Len(s) \in Nat /\ z \in Int /\ g \in Nat /\ m \in Nat
      /\ Len(u) = Len(s) + z + m /\ Len(u) \in Nat /\ 1 + z >= 1 /\ OfRecords(u)
      /\ (m > 0 => g >= 1 /\ g <= Len(s))
  BY LineNumbers
<1>2. 1 \in Nat \ {0} /\ 1 \in 1 .. Len(s)
  BY <1>1
<1>3. Place(1, z, g, m) = 1 + z
  BY ONLY <1>1 DEF Place
<1>4. PICK x \in Nat : x = 1 + z
  BY <1>1
<1>5. s[1] = u[x] /\ x \in 1 .. Len(u)
  <2>1. x = Place(1, z, g, m)
    BY <1>3, <1>4
  <2> QED BY <1>2, <2>1, ByteOfLine
<1>6. /\ u[x].pos < RecordLen(u[x].kind) => x + 1 <= Len(u) /\ u[x + 1].pos = u[x].pos + 1
      /\ x + 1 <= Len(u) => u[x + 1].pos \in {1, u[x].pos + 1}
      /\ u[x].pos \in Nat /\ u[x].kind \in Modes
  BY <1>1, <1>5, NextByte
<1>7. ASSUME m > 0 => g >= 2, Len(s) >= 2
      PROVE  s[2] = u[x + 1] /\ x + 1 <= Len(u)
  <2>1. 2 \in 1 .. Len(s)
    BY <1>1, <1>7
  <2>2. Place(2, z, g, m) = x + 1
    BY ONLY <1>1, <1>4, <1>7 DEF Place
  <2>3. x + 1 = Place(2, z, g, m)
    BY <2>2
  <2>4. s[2] = u[x + 1] /\ x + 1 \in 1 .. Len(u) /\ x + 1 \in Nat
    BY <1>2, <2>1, <2>3, ByteOfLine
  <2>5. x + 1 <= Len(u)
    BY ONLY <1>1, <2>4
  <2> QED BY <2>4, <2>5
<1>8. ASSUME m > 0 => g >= 2, x + 1 <= Len(u) PROVE Len(s) >= 2
  BY ONLY <1>1, <1>4, <1>8
<1> QED BY <1>4, <1>5, <1>6, <1>7, <1>8

\* A byte that is no '!' is read, between two records.
LEMMA BodySkipped ==
  ASSUME NEW s, NEW c \in Nat, NEW b \in Nat, NEW B \in Nat, BetweenAt(s, c, b, B),
         Len(s) >= 1, ~IsExclamationMark(s[1]), c < ControlNumber
  PROVE  BetweenAt(SubSeq(s, 2, Len(s)), c, b, B)
<1> DEFINE t == SubSeq(s, 1 + 1, Len(s))
<1>1. PICK u, z, g, m, e :
        Line(s, 1, u, z, g, m) /\ (e = 0 => AlignedAt(s, c)) /\ Costs(b, e, m, B)
  BY DEF BetweenAt
<1>2. /\ s \in Seq(Byte) /\ Len(s) \in Nat /\ z \in Int /\ g \in Nat /\ m \in Nat
      /\ (m > 0 => g >= 1 /\ g <= Len(s))
  BY <1>1, LineNumbers
<1>3. 1 \in 0 .. Len(s) /\ 1 + 1 >= 1 /\ 1 \in Nat \ {0}
  BY <1>2
<1>4. t \in Seq(Byte) /\ Len(t) = Len(s) - 1 /\ \A i \in 1 .. Len(s) - 1 : t[i] = s[1 + i]
  BY <1>2, <1>3, RestOf
<1>5. CASE m > 0 /\ g = 1
  <2>1. Line(t, 1, u, z + 1 + m, 0, 0)
    BY <1>1, <1>2, <1>3, <1>5, DropBehind
  <2>2. Costs(b, 1, 0, B)
    BY <1>1, <1>2, <1>5 DEF Costs
  <2>3. BetweenAt(t, c, b, B)
    BY <2>1, <2>2 DEF BetweenAt
  <2> QED BY <2>3
<1>6. CASE m > 0 => g >= 2
  <2>1. Line(t, 1, u, z + 1, IF m > 0 THEN g - 1 ELSE 0, m)
    <3>1. m > 0 => 1 < g
      BY <1>2, <1>6
    <3> QED BY <1>1, <1>3, <3>1, DropBefore
  <2>2. ASSUME AlignedAt(s, c) PROVE AlignedAt(t, c)
    <3>1. /\ s[1].pos \in Nat
          /\ Len(s) >= 2 => s[2].pos \in {1, s[1].pos + 1}
      BY <1>1, <1>6, FirstBytes
    <3>2. s[1].pos > ControlNumber /\ ControlNumber \in Nat
      BY <3>1, Lengths DEF IsExclamationMark
    <3>3. c = 0
      BY <2>2, <3>1, <3>2 DEF AlignedAt
    <3>4. CASE Len(s) = 1
      BY <1>4, <3>3, <3>4 DEF AlignedAt
    <3>5. CASE Len(s) >= 2
      <4>1. t[1] = s[2] /\ Len(t) # 0
        BY <1>2, <1>4, <3>5
      <4>2. t[1].pos = 0 + 1 \/ t[1].pos > ControlNumber
        BY <3>1, <3>2, <3>5, <4>1
      <4> QED BY <3>3, <4>1, <4>2 DEF AlignedAt
    <3>6. PICK n \in Nat : n = Len(s)
      BY <1>2
    <3>7. n >= 1 => n = 1 \/ n >= 2
      OBVIOUS
    <3> QED BY <3>4, <3>5, <3>6, <3>7
  <2>3. BetweenAt(t, c, b, B)
    BY <1>1, <2>1, <2>2 DEF BetweenAt
  <2> QED BY <2>3
<1> QED BY <1>2, <1>5, <1>6

\* A '!' is read that does not complete a header.
LEMMA MarkCounted ==
  ASSUME NEW s, NEW c \in Nat, NEW b \in Nat, NEW B \in Nat, BetweenAt(s, c, b, B),
         Len(s) >= 1, IsExclamationMark(s[1]), c + 1 < ControlNumber
  PROVE  BetweenAt(SubSeq(s, 2, Len(s)), c + 1, b, B)
<1> DEFINE t == SubSeq(s, 1 + 1, Len(s))
<1>1. PICK u, z, g, m, e :
        Line(s, 1, u, z, g, m) /\ (e = 0 => AlignedAt(s, c)) /\ Costs(b, e, m, B)
  BY DEF BetweenAt
<1>2. /\ s \in Seq(Byte) /\ Len(s) \in Nat /\ z \in Int /\ g \in Nat /\ m \in Nat
      /\ (m > 0 => g >= 1 /\ g <= Len(s))
  BY <1>1, LineNumbers
<1>3. 1 \in 0 .. Len(s) /\ 1 + 1 >= 1 /\ 1 \in Nat \ {0}
  BY <1>2
<1>4. t \in Seq(Byte) /\ Len(t) = Len(s) - 1 /\ \A i \in 1 .. Len(s) - 1 : t[i] = s[1 + i]
  BY <1>2, <1>3, RestOf
<1>5. CASE m > 0 /\ g = 1
  <2>1. Line(t, 1, u, z + 1 + m, 0, 0)
    BY <1>1, <1>2, <1>3, <1>5, DropBehind
  <2>2. Costs(b, 1, 0, B)
    BY <1>1, <1>2, <1>5 DEF Costs
  <2>3. BetweenAt(t, c + 1, b, B)
    BY <2>1, <2>2 DEF BetweenAt
  <2> QED BY <2>3
<1>6. CASE m > 0 => g >= 2
  <2>1. Line(t, 1, u, z + 1, IF m > 0 THEN g - 1 ELSE 0, m)
    <3>1. m > 0 => 1 < g
      BY <1>2, <1>6
    <3> QED BY <1>1, <1>3, <3>1, DropBefore
  <2>2. ASSUME AlignedAt(s, c) PROVE AlignedAt(t, c + 1)
    <3>1. /\ s[1].pos \in Nat /\ s[1].kind \in Modes
          /\ s[1].pos < RecordLen(s[1].kind) => Len(s) >= 2 /\ s[2].pos = s[1].pos + 1
      BY <1>1, <1>6, FirstBytes
    <3>2. s[1].pos <= ControlNumber /\ ControlNumber \in Nat
      BY <3>1, Lengths DEF IsExclamationMark
    <3>3. s[1].pos = c + 1
      BY <1>2, <2>2, <3>1, <3>2 DEF AlignedAt
    <3>4. s[1].pos < RecordLen(s[1].kind)
      BY <3>1, <3>2, RecordLenType
    <3>5. t[1] = s[2] /\ Len(t) # 0
      BY <1>2, <1>4, <3>1, <3>4
    <3> QED BY <3>1, <3>3, <3>4, <3>5 DEF AlignedAt
  <2>3. BetweenAt(t, c + 1, b, B)
    BY <1>1, <2>1, <2>2 DEF BetweenAt
  <2> QED BY <2>3
<1> QED BY <1>2, <1>5, <1>6

\* A '!' is read that completes a header.
LEMMA HeaderCompleted ==
  ASSUME NEW s, NEW c \in Nat, NEW b \in Nat, NEW B \in Nat, BetweenAt(s, c, b, B),
         Len(s) >= 1, IsExclamationMark(s[1]), c + 1 = ControlNumber,
         NEW q \in Seq(Byte), Len(q) = c,
         NEW t, t = Append(q, s[1]) \o SubSeq(s, 2, Len(s))
  PROVE  WithinAt(t, b, B)
<1>1. PICK u, z, g, m, e :
        Line(s, 1, u, z, g, m) /\ (e = 0 => AlignedAt(s, c)) /\ Costs(b, e, m, B)
  BY DEF BetweenAt
<1>2. ControlNumber \in Nat /\ Len(q) = ControlNumber - 1 /\ Len(s) \in Nat
  BY <1>1, Lengths, LineNumbers
<1>3. PICK w, y, h : /\ Line(t, ControlNumber, w, y, h, m)
                     /\ y \in 1 - ControlNumber .. 0
                     /\ y = s[1].pos - ControlNumber
  BY <1>1, <1>2, HeaderRead
<1>4. s[1].pos \in Nat
  BY <1>1, FirstBytes
<1>5. e = 0 => y = 0
  BY <1>1, <1>2, <1>3, <1>4 DEF AlignedAt, IsExclamationMark
<1> QED BY <1>1, <1>3, <1>5 DEF WithinAt

\* Good: the last bytes of a packet are the tail; asked: it is all of the kind
\* that was asked for.
TailOf(s, M) ==
  \A i \in RecordLen(M) - ControlNumber + 1 .. RecordLen(M) : IsQuestionMark(s[i])
KindOf(s, M) == \A i \in ControlNumber + 1 .. RecordLen(M) : s[i].kind = M

\* A whole packet is taken off the line: what it costs was accounted for.
LEMMA PacketTaken ==
  ASSUME ControlsApart, NEW M \in Modes, NEW s, NEW b \in Nat, NEW B \in Nat, WithinAt(s, b, B),
         RecordLen(M) <= Len(s), NEW a \in Nat, a <= b + 1,
         TailOf(s, M) => a = 0, a > b => KindOf(s, M)
  PROVE  BetweenAt(SubSeq(s, RecordLen(M) + 1, Len(s)), 0, a, B)
<1> DEFINE L == RecordLen(M)
           C == ControlNumber
           t == SubSeq(s, L + 1, Len(s))
<1>1. PICK u, z, g, m, e :
        /\ Line(s, ControlNumber, u, z, g, m) /\ z \in 1 - ControlNumber .. 0
        /\ (e = 0 => z = 0) /\ Costs(b, e, m, B)
  BY DEF WithinAt
<1>2. C \in Nat /\ C >= 1 /\ L \in Nat /\ L > 2 * C /\ C \in Nat \ {0}
  BY Lengths, RecordLenType
<1>3. /\ s \in Seq(Byte) /\ Len(s) \in Nat /\ z \in Int /\ g \in Nat /\ m \in Nat
      /\ (m > 0 => g >= C /\ g <= Len(s))
  BY <1>1, <1>2, LineNumbers
<1>4. L \in 0 .. Len(s) /\ L + 1 >= C
  BY <1>2, <1>3
<1>5. t \in Seq(Byte) /\ Len(t) = Len(s) - L /\ \A i \in 1 .. Len(s) - L : t[i] = s[L + i]
  BY <1>3, <1>4, RestOf
<1>6. e \in {0, 1} /\ b + e + (IF m > 0 THEN 2 ELSE 0) <= B
  BY <1>1 DEF Costs
<1>7. CASE m > 0 /\ g <= L
  <2>1. Line(t, 1, u, z + L + m, 0, 0)
    BY <1>1, <1>2, <1>4, <1>7, DropBehind
  <2>2. Costs(a, 1, 0, B)
    BY <1>6, <1>7 DEF Costs
  <2>3. BetweenAt(t, 0, a, B)
    BY <2>1, <2>2 DEF BetweenAt
  <2> QED BY <2>3
<1>8. CASE m > 0 => g > L
  <2>0. m > 0 => L < g
    BY <1>2, <1>3, <1>8
  <2>1. Line(t, 1, u, z + L, IF m > 0 THEN g - L ELSE 0, m)
    BY <1>1, <1>2, <1>4, <2>0, DropBefore
  <2>2. L + 1 <= Len(s) => Len(t) # 0 /\ t[1] = s[L + 1]
    BY <1>2, <1>3, <1>5
  <2>3. Len(t) # 0 => L + 1 <= Len(s)
    BY <1>2, <1>3, <1>4, <1>5
  <2>4. ASSUME L + 1 <= Len(s) => s[L + 1].pos = 1 \/ s[L + 1].pos > C
        PROVE  AlignedAt(t, 0)
    <3>1. CASE Len(t) = 0
      BY <3>1 DEF AlignedAt
    <3>2. CASE Len(t) # 0
      <4>1. t[1].pos = 0 + 1 \/ t[1].pos > ControlNumber
        <5>1. t[1] = s[L + 1] /\ L + 1 <= Len(s)
          BY <2>2, <2>3, <3>2
        <5>2. s[L + 1].pos = 1 \/ s[L + 1].pos > C
          BY <2>4, <5>1
        <5> HIDE DEF t, L
        <5>3. t[1].pos = 1 \/ t[1].pos > ControlNumber
          BY <5>1, <5>2
        <5>4. 0 + 1 = 1
          OBVIOUS
        <5> QED BY ONLY <5>3, <5>4
      <4> HIDE DEF t
      <4> QED BY <3>2, <4>1 DEF AlignedAt
    <3> QED BY <3>1, <3>2
  <2>5. ASSUME z = 0 PROVE AlignedAt(t, 0)
    <3>1. ASSUME L + 1 <= Len(s) PROVE s[L + 1].pos = 1 \/ s[L + 1].pos > C
      BY <1>1, <2>0, <2>5, <3>1, BehindPacket
    <3> QED BY <2>4, <3>1
  <2>6. CASE a <= b
    <3>1. Costs(a, e, m, B)
      BY <1>3, <1>6, <2>6 DEF Costs
    <3>2. e = 0 => AlignedAt(t, 0)
      BY <1>1, <2>5
    <3>3. BetweenAt(t, 0, a, B)
      BY <2>1, <3>1, <3>2 DEF BetweenAt
    <3> QED BY <3>3
  <2>7. CASE a > b
    <3>1. a = b + 1 /\ KindOf(s, M) /\ ~TailOf(s, M)
      BY <2>7
    <3>2. m > 0 => g >= L
      BY <1>2, <1>3, <1>8
    <3>3. /\ z = 0 => TailOf(s, M)
          /\ z < 0 /\ L + 1 <= Len(s) /\ (m > 0 => g > L) => s[L + 1].pos > C
      BY <1>1, <3>1, <3>2, AskedPacket DEF KindOf, TailOf
    <3>4. z < 0 /\ e = 1
      BY <1>1, <1>2, <1>3, <1>6, <3>1, <3>3
    <3>5. AlignedAt(t, 0)
      BY <1>8, <2>4, <3>3, <3>4
    <3>6. Costs(a, 0, m, B)
      BY <1>3, <1>6, <3>1, <3>4 DEF Costs
    <3>7. BetweenAt(t, 0, a, B)
      BY <2>1, <3>5, <3>6 DEF BetweenAt
    <3> QED BY <3>7
  <2> QED BY <2>6, <2>7
<1> QED BY <1>2, <1>3, <1>7, <1>8

\* The first byte of a record.
LEMMA FirstOfRecord ==
  ASSUME NEW n \in Modes, NEW l \in 0 .. RecMod - 1
  PROVE  Record(n, l)[1].pos = 1 /\ Record(n, l) \in Seq(Byte) /\ Len(Record(n, l)) >= 1
<1>1. 1 \in 1 .. RecordLen(n)
  BY RecordLenType, CostumSizeAssumption
<1>2. Record(n, l) \in Seq(Byte) /\ Len(Record(n, l)) = RecordLen(n)
  BY RecordType
<1>3. Record(n, l)[1] = [kind |-> n, rec |-> l, pos |-> 1]
  BY <1>1 DEF Record
<1> QED BY <1>1, <1>2, <1>3, RecordLenType

\* What comes behind leaves a header that was begun as it is, and begins with a
\* header where none was begun.
LEMMA AlignedJoined ==
  ASSUME NEW s \in Seq(Byte), NEW v \in Seq(Byte), NEW c, AlignedAt(s, c),
         Len(s) = 0 => Len(v) >= 1 /\ v[1].pos = 1
  PROVE  AlignedAt(s \o v, c)
<1> DEFINE t == s \o v
<1>1. /\ t \in Seq(Byte) /\ Len(t) = Len(s) + Len(v)
      /\ \A i \in 1 .. Len(s) : t[i] = s[i]
      /\ \A i \in 1 .. Len(v) : t[Len(s) + i] = v[i]
  BY Joined
<1> HIDE DEF t
<1>2. Len(s) \in Nat /\ Len(v) \in Nat
  OBVIOUS
<1>3. CASE Len(s) = 0
  <2>1. c = 0 /\ Len(v) >= 1 /\ v[1].pos = 1
    BY <1>3 DEF AlignedAt
  <2>2. t[0 + 1] = v[1] /\ Len(t) # 0
    BY <1>1, <1>2, <1>3, <2>1
  <2> QED BY <2>1, <2>2 DEF AlignedAt, t
<1>4. CASE Len(s) >= 1
  <2>1. t[1] = s[1] /\ Len(t) # 0
    BY <1>1, <1>2, <1>4
  <2> QED BY <1>4, <2>1 DEF AlignedAt, t
<1> QED BY <1>2, <1>3, <1>4

\* A record arrives while none is read.
LEMMA ArrivesBetween ==
  ASSUME NEW s, NEW c, NEW b, NEW B, BetweenAt(s, c, b, B),
         NEW n \in Modes, NEW l \in 0 .. RecMod - 1
  PROVE  BetweenAt(s \o Record(n, l), c, b, B)
<1>1. PICK u, z, g, m, e :
        Line(s, 1, u, z, g, m) /\ (e = 0 => AlignedAt(s, c)) /\ Costs(b, e, m, B)
  BY DEF BetweenAt
<1>2. s \in Seq(Byte) /\ Len(s) \in Nat /\ 1 \in Nat \ {0} /\ 1 <= Len(s) + 1
  BY <1>1, LineNumbers
<1>3. Line(s \o Record(n, l), 1, u \o Record(n, l), z, g, m)
  BY <1>1, <1>2, RecordArrives
<1>4. e = 0 => AlignedAt(s \o Record(n, l), c)
  BY <1>1, <1>2, FirstOfRecord, AlignedJoined
<1> QED BY <1>1, <1>3, <1>4 DEF BetweenAt

\* A record arrives while another is read.
LEMMA ArrivesWithin ==
  ASSUME NEW s, NEW b, NEW B, WithinAt(s, b, B), ControlNumber <= Len(s),
         NEW n \in Modes, NEW l \in 0 .. RecMod - 1
  PROVE  WithinAt(s \o Record(n, l), b, B)
<1>1. PICK u, z, g, m, e :
        /\ Line(s, ControlNumber, u, z, g, m) /\ z \in 1 - ControlNumber .. 0
        /\ (e = 0 => z = 0) /\ Costs(b, e, m, B)
  BY DEF WithinAt
<1>2. ControlNumber \in Nat \ {0} /\ Len(s) \in Nat
  BY <1>1, Lengths, LineNumbers
<1>3. ControlNumber <= Len(s) + 1
  BY <1>2
<1>4. Line(s \o Record(n, l), ControlNumber, u \o Record(n, l), z, g, m)
  BY <1>1, <1>2, <1>3, RecordArrives
<1> QED BY <1>1, <1>4 DEF WithinAt

\* A record arrives with a gap while none is read: the gap is the first, and may
\* cost two records.
LEMMA GapBetween ==
  ASSUME NEW s, NEW c, NEW b \in Nat, NEW B \in Nat, BetweenAt(s, c, b, B), B < 2,
         NEW n \in Modes, NEW l \in 0 .. RecMod - 1,
         NEW i \in 1 .. RecordLen(n), NEW j \in 1 .. RecordLen(n), i <= j, j - i < GapMax
  PROVE  BetweenAt(s \o Gap(Record(n, l), i, j), c, b, B + 2)
<1> DEFINE v == Gap(Record(n, l), i, j)
<1>1. PICK u, z, g, m, e :
        Line(s, 1, u, z, g, m) /\ (e = 0 => AlignedAt(s, c)) /\ Costs(b, e, m, B)
  BY DEF BetweenAt
<1>2. s \in Seq(Byte) /\ Len(s) \in Nat /\ 1 \in Nat \ {0} /\ m \in Nat
  BY <1>1, LineNumbers
<1>3. m = 0
  BY <1>1, <1>2 DEF Costs
<1>4. RecordLen(n) \in Nat /\ i \in Nat /\ j \in Nat /\ i >= 1
  BY RecordLenType
<1>5. CASE Len(s) = 0 /\ i = 1
  <2>1. v = Gap(Record(n, l), 1, j)
    BY <1>5
  <2> HIDE DEF v
  <2>2. Line(s \o v, 1, u \o Record(n, l), z + j, 0, 0)
    BY <1>1, <1>3, <1>5, <2>1, GapArrivesFirst
  <2>3. Costs(b, 1, 0, B + 2)
    BY <1>1, <1>3 DEF Costs
  <2>4. BetweenAt(s \o v, c, b, B + 2)
    BY <2>2, <2>3 DEF BetweenAt
  <2> QED BY <2>4 DEF v
<1>6. CASE Len(s) >= 1 \/ i >= 2
  <2>0. 1 <= Len(s) + i - 1
    BY <1>2, <1>4, <1>6
  <2>1. Line(s \o v, 1, u \o Record(n, l), z, Len(s) + i - 1, j - i + 1)
    BY <1>1, <1>2, <1>3, <2>0, GapArrives
  <2>2. ASSUME AlignedAt(s, c) PROVE AlignedAt(s \o v, c)
    <3>1. Record(n, l) \in Seq(Byte) /\ Len(Record(n, l)) = RecordLen(n)
          /\ Record(n, l)[1].pos = 1
      BY RecordType, FirstOfRecord
    <3> DEFINE r == Record(n, l)
    <3>2. Remains(v, r, i, j)
      BY <3>1, GapOf
    <3> HIDE DEF r, v
    <3>3. v \in Seq(Byte) /\ Len(v) = Len(r) - (j - i + 1)
          /\ \A k \in 1 .. Len(v) : v[k] = r[IF k < i THEN k ELSE k + (j - i + 1)]
      BY <3>2 DEF Remains
    <3>4. ASSUME Len(s) = 0 PROVE Len(v) >= 1 /\ v[1].pos = 1
      <4>1. i >= 2 /\ 1 < i
        BY <1>2, <1>4, <1>6, <3>4
      <4>2. Len(v) >= 1 /\ 1 \in 1 .. Len(v)
        <5>1. Len(r) = RecordLen(n) /\ j <= RecordLen(n)
          BY <3>1 DEF r
        <5>2. Len(v) = Len(r) - (j - i + 1)
          BY <3>3
        <5> QED BY ONLY <1>4, <4>1, <5>1, <5>2
      <4>3. v[1] = r[1]
        BY <3>3, <4>1, <4>2
      <4> QED BY <3>1, <4>2, <4>3 DEF r
    <3> QED BY <1>2, <2>2, <3>3, <3>4, AlignedJoined
  <2>3. Costs(b, e, j - i + 1, B + 2)
    BY <1>1, <1>3, <1>4 DEF Costs
  <2> HIDE DEF v
  <2>4. BetweenAt(s \o v, c, b, B + 2)
    BY <1>1, <2>1, <2>2, <2>3 DEF BetweenAt
  <2> QED BY <2>4 DEF v
<1> QED BY <1>2, <1>4, <1>5, <1>6

\* The same while a record is read.
LEMMA GapWithin ==
  ASSUME NEW s, NEW b \in Nat, NEW B \in Nat, WithinAt(s, b, B), B < 2, ControlNumber <= Len(s),
         NEW n \in Modes, NEW l \in 0 .. RecMod - 1,
         NEW i \in 1 .. RecordLen(n), NEW j \in 1 .. RecordLen(n), i <= j, j - i < GapMax
  PROVE  WithinAt(s \o Gap(Record(n, l), i, j), b, B + 2)
<1> DEFINE v == Gap(Record(n, l), i, j)
<1>1. PICK u, z, g, m, e :
        /\ Line(s, ControlNumber, u, z, g, m) /\ z \in 1 - ControlNumber .. 0
        /\ (e = 0 => z = 0) /\ Costs(b, e, m, B)
  BY DEF WithinAt
<1>2. ControlNumber \in Nat \ {0} /\ Len(s) \in Nat /\ m \in Nat
  BY <1>1, Lengths, LineNumbers
<1>3. m = 0
  BY <1>1, <1>2 DEF Costs
<1>4. RecordLen(n) \in Nat /\ i \in Nat /\ j \in Nat /\ i >= 1
  BY RecordLenType
<1>5. ControlNumber <= Len(s) + i - 1
  BY <1>2, <1>4
<1>6. Line(s \o v, ControlNumber, u \o Record(n, l), z, Len(s) + i - 1, j - i + 1)
  BY <1>1, <1>2, <1>3, <1>5, GapArrives
<1>7. Costs(b, e, j - i + 1, B + 2)
  BY <1>1, <1>3, <1>4 DEF Costs
<1> HIDE DEF v
<1>8. WithinAt(s \o v, b, B + 2)
  BY <1>1, <1>6, <1>7 DEF WithinAt
<1> QED BY <1>8 DEF v

\* An export begins with nothing on the line, and '!' from the last one.
LEMMA NothingArrived ==
  ASSUME NEW c, NEW B \in Nat, c = 0 \/ B >= 1
  PROVE  BetweenAt(<<>>, c, 0, B)
<1>1. OfRecords(<<>>) /\ <<>> \in Seq(Byte) /\ Len(<<>>) = 0 /\ 0 \in 0 .. GapMax
  BY NoRecords, GapNat
<1>2. Line(<<>>, 1, <<>>, 0, 0, 0)
  BY <1>1 DEF Line
<1>3. CASE c = 0
  <2>1. Costs(0, 0, 0, B) /\ AlignedAt(<<>>, c)
    BY <1>1, <1>3 DEF Costs, AlignedAt
  <2> QED BY <1>2, <2>1 DEF BetweenAt
<1>4. CASE B >= 1
  <2>1. Costs(0, 1, 0, B)
    BY <1>4 DEF Costs
  <2> QED BY <1>2, <2>1 DEF BetweenAt
<1> QED BY <1>3, <1>4

-----------------------------------------------------------------------------
(* The account of an export *)

\* f is what came of the line t, and e what will.
CutAt(t, f, e) ==
  /\ f \in Seq(Byte) /\ t \in Seq(Byte) /\ f \o e = t /\ Len(f) <= Len(t)
  /\ \A i \in 1 .. Len(f) : f[i] = t[i]
  /\ e = SubSeq(t, Len(f) + 1, Len(t))

\* A line may be cut, and the first of it put behind what was there.
LEMMA PutBehind ==
  ASSUME NEW a \in Seq(Byte), NEW b \in Seq(Byte), NEW k \in 0 .. Len(b),
         NEW f, f = a \o SubSeq(b, 1, k), NEW e, e = SubSeq(b, k + 1, Len(b)),
         NEW t, t = a \o b
  PROVE  CutAt(t, f, e) /\ Len(t) >= Len(a)
<1> DEFINE c == SubSeq(b, 1, k)
<1>1. /\ c \in Seq(Byte) /\ Len(c) = k /\ e \in Seq(Byte) /\ Len(e) = Len(b) - k
      /\ \A i \in 1 .. k : c[i] = b[i]
      /\ \A i \in 1 .. Len(b) - k : e[i] = b[k + i]
  <2>1. c \in Seq(Byte) /\ Len(c) = k /\ \A i \in 1 .. k : c[i] = b[i]
    OBVIOUS
  <2> QED BY <2>1, RestOf
<1>2. Len(a) \in Nat /\ Len(b) \in Nat /\ k \in Nat /\ k <= Len(b)
  OBVIOUS
<1>c. f = a \o c
  OBVIOUS
<1> HIDE DEF c
<1>3. /\ t \in Seq(Byte) /\ Len(t) = Len(a) + Len(b)
      /\ \A i \in 1 .. Len(a) : t[i] = a[i]
      /\ \A i \in 1 .. Len(b) : t[Len(a) + i] = b[i]
  <2>1. a \in Seq(Byte) /\ b \in Seq(Byte) /\ t = a \o b
    OBVIOUS
  <2> QED BY ONLY <2>1, Joined
<1>4. /\ f \in Seq(Byte) /\ Len(f) = Len(a) + k
      /\ \A i \in 1 .. Len(a) : f[i] = a[i]
      /\ \A i \in 1 .. k : f[Len(a) + i] = c[i]
  <2>1. a \in Seq(Byte)
    OBVIOUS
  <2>2. /\ f \in Seq(Byte) /\ Len(f) = Len(a) + Len(c)
        /\ \A i \in 1 .. Len(a) : f[i] = a[i]
        /\ \A i \in 1 .. Len(c) : f[Len(a) + i] = c[i]
    BY ONLY <1>1, <1>c, <2>1, Joined
  <2> QED BY <1>1, <2>2
<1>5. /\ f \o e \in Seq(Byte) /\ Len(f \o e) = Len(a) + Len(b)
      /\ \A i \in 1 .. Len(f) : (f \o e)[i] = f[i]
      /\ \A i \in 1 .. Len(e) : (f \o e)[Len(f) + i] = e[i]
  <2>1. /\ f \o e \in Seq(Byte) /\ Len(f \o e) = Len(f) + Len(e)
        /\ \A i \in 1 .. Len(f) : (f \o e)[i] = f[i]
        /\ \A i \in 1 .. Len(e) : (f \o e)[Len(f) + i] = e[i]
    BY ONLY <1>1, <1>4, Joined
  <2>2. Len(f) + Len(e) = Len(a) + Len(b)
    BY ONLY <1>1, <1>2, <1>4
  <2> QED BY ONLY <2>1, <2>2
<1>6. ASSUME NEW i \in 1 .. Len(f) PROVE f[i] = t[i]
  <2>1. i \in Nat /\ i >= 1 /\ i <= Len(a) + k
    BY <1>2, <1>4
  <2>2. CASE i <= Len(a)
    <3>1. i \in 1 .. Len(a)
      BY <1>2, <2>1, <2>2
    <3> QED BY <1>3, <1>4, <3>1
  <2>3. CASE ~(i <= Len(a))
    <3>0. i - Len(a) \in Nat
      BY ONLY <1>2, <2>1, <2>3
    <3>1. PICK j \in Nat : j = i - Len(a)
      BY <3>0
    <3>2. j \in 1 .. k /\ j \in 1 .. Len(b) /\ Len(a) + j = i
      BY ONLY <1>2, <2>1, <2>3, <3>1
    <3> QED BY ONLY <1>1, <1>3, <1>4, <3>2
  <2> QED BY <2>2, <2>3
<1>7. ASSUME NEW i \in 1 .. Len(a) + Len(b) PROVE (f \o e)[i] = t[i]
  <2>1. i \in Nat /\ i >= 1 /\ i <= Len(a) + Len(b)
    BY <1>2
  <2>2. CASE i <= Len(a) + k
    <3>1. i \in 1 .. Len(f)
      BY <1>2, <1>4, <2>1, <2>2
    <3> QED BY <1>5, <1>6, <3>1
  <2>3. CASE ~(i <= Len(a) + k)
    <3>0. i - (Len(a) + k) \in Nat
      BY ONLY <1>2, <2>1, <2>3
    <3>1. PICK j \in Nat : j = i - (Len(a) + k)
      BY <3>0
    <3>2. j \in 1 .. Len(b) - k /\ j \in 1 .. Len(e) /\ k + j \in 1 .. Len(b)
          /\ Len(f) + j = i /\ Len(a) + (k + j) = i
      BY ONLY <1>1, <1>2, <1>4, <2>1, <2>3, <3>1
    <3>3. (f \o e)[i] = e[j]
      BY ONLY <1>5, <3>2
    <3>4. t[i] = b[k + j]
      BY ONLY <1>3, <3>2
    <3>5. e[j] = b[k + j]
      BY ONLY <1>1, <3>2
    <3> QED BY ONLY <3>3, <3>4, <3>5
  <2> QED BY <2>2, <2>3
<1>8. f \o e = t
  <2> HIDE DEF c
  <2>1. f \o e \in Seq(Byte) /\ t \in Seq(Byte) /\ Len(f \o e) = Len(t)
        /\ \A i \in 1 .. Len(t) : (f \o e)[i] = t[i]
    BY <1>3, <1>5, <1>7
  <2> DEFINE w == f \o e
  <2>2. w \in Seq(Byte) /\ t \in Seq(Byte) /\ Len(w) = Len(t)
        /\ \A i \in 1 .. Len(t) : w[i] = t[i]
    BY <2>1
  <2> HIDE DEF w
  <2>3. w = t
    BY ONLY <2>2
  <2> QED BY <2>3 DEF w
<1>9. e = SubSeq(t, Len(f) + 1, Len(t))
  <2>1. Len(f) \in Nat /\ Len(f) <= Len(t) /\ Len(t) - Len(f) = Len(e) /\ Len(f) \in 0 .. Len(t)
    BY ONLY <1>1, <1>2, <1>3, <1>4
  <2> DEFINE w == SubSeq(t, Len(f) + 1, Len(t))
  <2>2. /\ w \in Seq(Byte) /\ Len(w) = Len(t) - Len(f)
        /\ \A i \in 1 .. Len(t) - Len(f) : w[i] = t[Len(f) + i]
    BY <1>3, <2>1, RestOf
  <2> HIDE DEF w
  <2>3. ASSUME NEW i \in 1 .. Len(e) PROVE e[i] = w[i]
    <3>1. i \in Nat /\ i >= 1 /\ i <= Len(b) - k /\ i \in 1 .. Len(t) - Len(f)
          /\ i \in 1 .. Len(b) - k
      BY <1>1, <1>2, <2>1
    <3>2. k + i \in 1 .. Len(b) /\ Len(f) + i = Len(a) + (k + i)
      BY ONLY <1>2, <1>4, <3>1
    <3>3. e[i] = b[k + i]
      BY ONLY <1>1, <3>1
    <3>4. t[Len(a) + (k + i)] = b[k + i]
      BY ONLY <1>3, <3>2
    <3>5. w[i] = t[Len(f) + i]
      BY ONLY <2>2, <3>1
    <3> QED BY ONLY <3>2, <3>3, <3>4, <3>5
  <2>4. e \in Seq(Byte) /\ w \in Seq(Byte) /\ Len(e) = Len(w)
    BY <1>1, <2>1, <2>2
  <2>5. e = w
    BY ONLY <2>3, <2>4
  <2> QED BY <2>5 DEF w
<1>10. Len(f) <= Len(t) /\ Len(t) >= Len(a)
  BY ONLY <1>2, <1>3, <1>4
<1> QED BY <1>3, <1>4, <1>6, <1>8, <1>9, <1>10 DEF CutAt

\* What is read on in a record is what has come of it, and what comes.
LEMMA ReadOn ==
  ASSUME in \in Seq(Byte), rxBuffer \in Seq(Byte), NEW r \in receivePacket, code # "None",
         NEW s, s = rxBuffer \o in, NEW v, v = SubSeq(in, r.n + 1, Len(in))
  PROVE  CutAt(s, r.buf, v) /\ Len(s) >= Len(rxBuffer)
<1>1. PICK m \in 0 .. Len(in) : r = Fill(m)
  BY DEF receivePacket
<1>2. ReadOK(r)
  BY ReceivePacketOK
<1>3. r.n \in 0 .. Len(in)
  BY <1>2 DEF ReadOK
<1>4. r.buf = rxBuffer \o SubSeq(in, 1, r.n)
  BY <1>1 DEF Fill
<1> QED BY <1>3, <1>4, PutBehind

\* What a gap, and '!' that an export left behind, may cost.
Budget == 2 * faults + (IF cut THEN 1 ELSE 0)

\* What the engine has of a record, or of a header, and what is still to come
\* make a line on which the records that it will refuse are accounted for.
Tracked ==
  /\ faults <= 1 /\ bad <= Budget
  /\ Running /\ status = "Establish" =>
       IF stage = StageTransmitting THEN WithinAt(rxBuffer \o in, bad, Budget)
                                    ELSE BetweenAt(in, controlNumCount, bad, Budget)

\* The numbers of the account.
LEMMA BudgetType ==
  ASSUME Inductive
  PROVE  /\ Budget \in Nat /\ bad \in Nat /\ faults \in Nat /\ controlNumCount \in Nat
         /\ in \in Seq(Byte) /\ rxBuffer \in Seq(Byte) /\ mode \in Modes
         /\ faults < 1 => Budget < 2
         /\ cut => Budget >= 1
BY DEF Inductive, TypeOK, Budget

\* No more was refused than may be.
LEMMA WithinBudget ==
  ASSUME NEW s, NEW c, NEW b \in Nat, NEW B \in Nat,
         BetweenAt(s, c, b, B) \/ WithinAt(s, b, B)
  PROVE  b <= B
<1>1. ASSUME NEW e, NEW m, Costs(b, e, m, B) PROVE b <= B
  BY <1>1 DEF Costs
<1> QED BY <1>1 DEF BetweenAt, WithinAt

\* A poll in a record: it is taken off the line when it is complete.
LEMMA TransmittingTracked ==
  ASSUME ControlsApart, Inductive, Fitting, Tracked, Running, status = "Establish",
         NEW r \in receivePacket, receiveStageTransmitting(r), Notes(r),
         in' = SubSeq(in, r.n + 1, Len(in)),
         UNCHANGED <<transmitButtonStatus, receiveButtonStatus, faults>>
  PROVE  Tracked'
<1>1. /\ stage = StageTransmitting /\ code = "Soh" /\ mode' = mode
      /\ controlNumCount' = controlNumCount
  BY DEF receiveStageTransmitting, Inductive, CodeMatchesStage
<1>2. /\ controlNumCount = 0 /\ Len(rxBuffer) \in ControlNumber .. RecordLen(mode) - 1
  BY <1>1 DEF Fitting, RecordFits
<1>3. /\ Budget \in Nat /\ bad \in Nat /\ in \in Seq(Byte) /\ rxBuffer \in Seq(Byte)
      /\ mode \in Modes /\ faults <= 1
  BY BudgetType DEF Tracked
<1>4. Budget' = Budget /\ Running' /\ faults' = faults
  BY DEF Budget, Notes, Running
<1> DEFINE s == rxBuffer \o in
           L == RecordLen(mode)
<1>5. WithinAt(s, bad, Budget)
  BY <1>1 DEF Tracked
<1>6. CutAt(s, r.buf, in')
  BY <1>1, <1>3, ReadOn
<1>7. ReadOK(r)
  BY <1>3, ReceivePacketOK
<1>8. StageTransmitting # StageNone /\ StageTransmitting # StageEstablishing
  BY DEF StageNone, StageEstablishing, StageTransmitting
<1>9. L \in Nat /\ ControlNumber \in Nat /\ L > 2 * ControlNumber
  BY RecordLenType, Lengths
<1>10. CASE r.ret = "Soh" /\ (Accept \/ Refuse) /\ Going
  <2>1. stage' # StageTransmitting /\ status' = "Establish"
    BY <1>8, <1>10 DEF Accept, Refuse, Settle, Going
  <2>2. Len(r.buf) = L
    BY <1>1, <1>2, <1>3, <1>7, <1>9, <1>10 DEF ReadOK
  <2>3. /\ L <= Len(s) /\ in' = SubSeq(s, L + 1, Len(s))
        /\ \A i \in 1 .. L : r.buf[i] = s[i]
    BY <1>6, <2>2 DEF CutAt
  <2>4. TailOf(s, mode) => GoodTail(r.buf)
    <3>1. ASSUME NEW i \in L - ControlNumber + 1 .. L PROVE i \in 1 .. L
      BY <1>9
    <3> QED BY <2>3, <3>1 DEF TailOf, GoodTail
  <2>5. AllAsked(r.buf) => KindOf(s, mode)
    <3>1. ASSUME NEW i \in ControlNumber + 1 .. L PROVE i \in 1 .. L
      BY <1>9
    <3> QED BY <2>3, <3>1 DEF KindOf, AllAsked
  <2>6. bad' = IF GoodTail(r.buf) THEN 0
               ELSE IF AllAsked(r.buf) THEN Lower(bad + 1, BadMax) ELSE bad
    BY <1>10 DEF Notes
  <2>7. Lower(bad + 1, BadMax) \in Nat /\ Lower(bad + 1, BadMax) <= bad + 1
    BY <1>3, SessionAssumption DEF Lower
  <2>8. bad' \in Nat /\ bad' <= bad + 1 /\ (GoodTail(r.buf) => bad' = 0)
        /\ (bad' > bad => AllAsked(r.buf))
    BY <1>3, <2>6, <2>7
  <2>9. BetweenAt(in', 0, bad', Budget)
    <3>1. TailOf(s, mode) => bad' = 0
      BY <2>4, <2>8
    <3>2. bad' > bad => KindOf(s, mode)
      BY <2>5, <2>8
    <3> QED BY <1>3, <1>5, <2>3, <2>8, <3>1, <3>2, PacketTaken
  <2>10. bad' <= Budget
    BY <1>3, <2>8, <2>9, WithinBudget
  <2> QED BY <1>1, <1>2, <1>3, <1>4, <2>1, <2>9, <2>10 DEF Tracked
<1>11. CASE r.ret # "Soh" /\ GiveUp(r)
  <2>1. status' # "Establish" /\ bad' = bad
    BY <1>11 DEF GiveUp, Timeout, Notes
  <2> QED BY <1>3, <1>4, <2>1 DEF Tracked
<1>12. CASE r.ret # "Soh" /\ rxBuffer' = r.buf /\ Going /\ stage' = stage
  <2>1. bad' = bad
    BY <1>12 DEF Notes
  <2>2. rxBuffer' \o in' = s
    BY <1>6, <1>12 DEF CutAt
  <2> QED BY <1>1, <1>3, <1>4, <1>5, <1>12, <2>1, <2>2 DEF Tracked
<1> QED BY <1>10, <1>11, <1>12 DEF receiveStageTransmitting

\* A poll between two records: a byte is skipped, or counted, or is the last of
\* a header.
LEMMA EstablishingTracked ==
  ASSUME Inductive, Fitting, Tracked, Running, status = "Establish",
         NEW r \in receivePacket, receiveStageEstablishing(r), Notes(r),
         in' = SubSeq(in, r.n + 1, Len(in)),
         UNCHANGED <<transmitButtonStatus, receiveButtonStatus, faults>>
  PROVE  Tracked'
<1>1. stage = StageEstablishing /\ code = "None" /\ rxBuffer' = r.buf
  BY DEF receiveStageEstablishing, Inductive, TypeOK, CodeMatchesStage, StageEstablishing,
         StageTransmitting
<1>2. StageEstablishing # StageTransmitting /\ StageNone # StageTransmitting
  BY DEF StageNone, StageEstablishing, StageTransmitting
<1>3. /\ Budget \in Nat /\ bad \in Nat /\ in \in Seq(Byte) /\ rxBuffer \in Seq(Byte)
      /\ controlNumCount \in Nat /\ faults <= 1 /\ bad <= Budget
  BY BudgetType DEF Tracked
<1>4. Len(rxBuffer) = controlNumCount /\ controlNumCount < ControlNumber
      /\ ControlNumber \in Nat
  BY <1>1, Lengths DEF Fitting, RecordFits
<1>5. BetweenAt(in, controlNumCount, bad, Budget)
  BY <1>1, <1>2 DEF Tracked
<1>6. r = NoByte \/ (in # <<>> /\ r = FirstByte)
  BY <1>1 DEF receivePacket
<1>7. r.ret # "Soh"
  BY <1>6 DEF NoByte, FirstByte
<1>8. Budget' = Budget /\ Running' /\ faults' = faults /\ bad' = bad
  BY <1>7 DEF Budget, Notes, Running
<1>9. CASE status' # "Establish"
  BY <1>3, <1>8, <1>9 DEF Tracked
<1>10. CASE ~HeaderSeen(r) /\ status' = "Establish"
  <2>1. stage' = StageEstablishing /\ controlNumCount' = Marks(r)
    BY <1>1, <1>10 DEF receiveStageEstablishing, Wait, Settle, Timeout
  <2>2. BetweenAt(in', controlNumCount', bad, Budget)
    <3>1. CASE r = NoByte
      <4>1. r.n = 0 /\ r.ret = "None"
        BY <3>1 DEF NoByte
      <4>2. in' = in
        BY <1>3, <4>1
      <4>3. controlNumCount' = controlNumCount
        BY <1>3, <2>1, <4>1 DEF Marks
      <4> QED BY <1>5, <4>2, <4>3
    <3>2. CASE in # <<>> /\ r = FirstByte
      <4>1. Len(in) >= 1 /\ Head(in) = in[1]
        BY <1>3, <3>2
      <4>2. r.n = 1
        BY <3>2 DEF FirstByte
      <4>3. in' = SubSeq(in, 2, Len(in))
        BY <4>2
      <4>4. CASE IsExclamationMark(in[1])
        <5>1. r.ret = "!"
          BY <3>2, <4>1, <4>4 DEF FirstByte
        <5>2. controlNumCount' = controlNumCount + 1
              /\ controlNumCount + 1 < ControlNumber
          BY <1>3, <1>4, <1>10, <2>1, <5>1 DEF HeaderSeen, Marks
        <5> QED BY <1>3, <1>5, <4>1, <4>3, <4>4, <5>2, MarkCounted
      <4>5. CASE ~IsExclamationMark(in[1])
        <5>1. r.ret = "None"
          BY <3>2, <4>1, <4>5 DEF FirstByte
        <5>2. controlNumCount' = controlNumCount
          BY <1>3, <2>1, <5>1 DEF Marks
        <5> QED BY <1>3, <1>4, <1>5, <4>1, <4>3, <4>5, <5>2, BodySkipped
      <4> QED BY <4>4, <4>5
    <3> QED BY <1>6, <3>1, <3>2
  <2> QED BY <1>2, <1>3, <1>8, <2>1, <2>2 DEF Tracked
<1>11. CASE HeaderSeen(r) /\ status' = "Establish"
  <2>1. stage' = StageTransmitting
    BY <1>11 DEF receiveStageEstablishing, Begin, Settle
  <2>2. r.ret = "!" /\ controlNumCount + 1 = ControlNumber
    BY <1>3, <1>4, <1>11 DEF HeaderSeen, Marks
  <2>3. in # <<>> /\ r = FirstByte
    BY <1>6, <2>2 DEF NoByte
  <2>4. Len(in) >= 1 /\ Head(in) = in[1]
    BY <1>3, <2>3
  <2>5. IsExclamationMark(in[1])
    BY <2>2, <2>3, <2>4 DEF FirstByte
  <2>6. r.n = 1 /\ r.buf = Append(rxBuffer, in[1])
    BY <2>3, <2>4, <2>5 DEF FirstByte
  <2>7. in' = SubSeq(in, 2, Len(in))
    BY <2>6
  <2>8. rxBuffer' \o in' = Append(rxBuffer, in[1]) \o SubSeq(in, 2, Len(in))
    BY <1>1, <2>6, <2>7
  <2>9. WithinAt(rxBuffer' \o in', bad, Budget)
    BY <1>3, <1>4, <1>5, <2>2, <2>4, <2>5, <2>8, HeaderCompleted
  <2> QED BY <1>3, <1>8, <2>1, <2>9 DEF Tracked
<1> QED BY <1>9, <1>10, <1>11

\* Three sequences in one.
LEMMA Associates ==
  ASSUME NEW a \in Seq(Byte), NEW b \in Seq(Byte), NEW v \in Seq(Byte)
  PROVE  (a \o b) \o v = a \o (b \o v)
<1> DEFINE w == b \o v
           k == Len(b)
<1>1. /\ w \in Seq(Byte) /\ Len(w) = Len(b) + Len(v)
      /\ \A i \in 1 .. Len(b) : w[i] = b[i]
      /\ \A i \in 1 .. Len(v) : w[Len(b) + i] = v[i]
  BY Joined
<1>2. k \in Nat /\ Len(v) \in Nat /\ k = Len(b)
  OBVIOUS
<1> HIDE DEF w, k
<1>3. k \in 0 .. Len(w)
  BY <1>1, <1>2
<1>4. SubSeq(w, 1, k) = b
  <2>1. /\ SubSeq(w, 1, k) \in Seq(Byte) /\ Len(SubSeq(w, 1, k)) = k
        /\ \A i \in 1 .. k : SubSeq(w, 1, k)[i] = w[i]
    BY <1>1, <1>3
  <2> DEFINE x == SubSeq(w, 1, k)
  <2> HIDE DEF x
  <2>2. /\ x \in Seq(Byte) /\ b \in Seq(Byte) /\ Len(x) = Len(b)
        /\ \A i \in 1 .. Len(b) : x[i] = b[i]
    BY <1>1, <1>2, <2>1 DEF x
  <2>3. x = b
    BY ONLY <2>2
  <2> QED BY <2>3 DEF x
<1>5. SubSeq(w, k + 1, Len(w)) = v
  <2> DEFINE x == SubSeq(w, k + 1, Len(w))
  <2>1. /\ x \in Seq(Byte) /\ Len(x) = Len(w) - k
        /\ \A i \in 1 .. Len(w) - k : x[i] = w[k + i]
    BY <1>1, <1>3, RestOf
  <2> HIDE DEF x
  <2>2. Len(w) - k = Len(v)
    BY <1>1, <1>2
  <2>3. /\ x \in Seq(Byte) /\ v \in Seq(Byte) /\ Len(x) = Len(v)
        /\ \A i \in 1 .. Len(v) : x[i] = v[i]
    BY <1>1, <1>2, <2>1, <2>2
  <2>4. x = v
    BY ONLY <2>3
  <2> QED BY <2>4 DEF x
<1>6. CutAt(a \o w, a \o b, v)
  BY <1>1, <1>3, <1>4, <1>5, PutBehind
<1> QED BY <1>6 DEF CutAt, w

\* A record arrives, or what a gap left of one.
LEMMA SendTracked ==
  ASSUME MaxFaults <= 1, Inductive, Fitting, Tracked, SendRecord
  PROVE  Tracked'
<1>1. /\ UNCHANGED <<rxBuffer, controlNumCount, stage, status, transmitButtonStatus,
                     receiveButtonStatus, bad, cut>>
  BY DEF SendRecord, Elsewhere, engine, session, history
<1>2. /\ Budget \in Nat /\ bad \in Nat /\ in \in Seq(Byte) /\ rxBuffer \in Seq(Byte)
      /\ faults <= 1 /\ bad <= Budget /\ faults \in Nat /\ (faults < 1 => Budget < 2)
  BY BudgetType DEF Tracked
<1>3. sending \in Modes /\ rec \in 0 .. RecMod - 1
  BY DEF SendRecord, Inductive, TypeOK
<1>4. Running' = Running
  BY <1>1 DEF Running
<1>5. stage = StageTransmitting => Len(rxBuffer) >= ControlNumber
  <2>1. ControlNumber \in Nat /\ RecordLen(mode) \in Nat
    BY Lengths, RecordLenType
  <2> QED BY <2>1 DEF Fitting, RecordFits
<1>6. stage = StageTransmitting => ControlNumber <= Len(rxBuffer \o in)
  BY <1>2, <1>5, Lengths
<1>7. CASE in' = in \o Record(sending, rec) /\ UNCHANGED faults
  <2>1. Budget' = Budget
    BY <1>1, <1>7 DEF Budget
  <2>2. ASSUME Running, status = "Establish", stage = StageTransmitting
        PROVE  WithinAt(rxBuffer' \o in', bad', Budget')
    <3>1. WithinAt(rxBuffer \o in, bad, Budget)
      BY <2>2 DEF Tracked
    <3>2. WithinAt((rxBuffer \o in) \o Record(sending, rec), bad, Budget)
      BY <1>3, <1>6, <2>2, <3>1, ArrivesWithin
    <3>3. (rxBuffer \o in) \o Record(sending, rec) = rxBuffer \o in'
      BY <1>2, <1>3, <1>7, RecordType, Associates
    <3> QED BY <1>1, <2>1, <3>2, <3>3
  <2>3. ASSUME Running, status = "Establish", stage # StageTransmitting
        PROVE  BetweenAt(in', controlNumCount', bad', Budget')
    <3>1. BetweenAt(in, controlNumCount, bad, Budget)
      BY <2>3 DEF Tracked
    <3> QED BY <1>1, <1>3, <1>7, <2>1, <3>1, ArrivesBetween
  <2> QED BY <1>1, <1>2, <1>4, <1>7, <2>1, <2>2, <2>3 DEF Tracked
<1>8. ASSUME faults < MaxFaults, faults' = faults + 1,
             NEW i \in 1 .. RecordLen(sending), NEW j \in 1 .. RecordLen(sending),
             i <= j, j - i < GapMax, in' = in \o Gap(Record(sending, rec), i, j)
      PROVE  Tracked'
  <2>1. faults = 0 /\ faults' = 1 /\ Budget < 2
    BY <1>2, <1>8, SessionAssumption
  <2>2. Budget' = Budget + 2
    BY <1>1, <2>1 DEF Budget
  <2> DEFINE v == Gap(Record(sending, rec), i, j)
  <2>3. v \in Seq(Byte)
    BY <1>3, RecordType, GapType
  <2>4. ASSUME Running, status = "Establish", stage = StageTransmitting
        PROVE  WithinAt(rxBuffer' \o in', bad', Budget')
    <3>1. WithinAt(rxBuffer \o in, bad, Budget)
      BY <2>4 DEF Tracked
    <3>2. WithinAt((rxBuffer \o in) \o v, bad, Budget + 2)
      BY <1>2, <1>3, <1>6, <1>8, <2>1, <2>4, <3>1, GapWithin
    <3> HIDE DEF v
    <3>3. in' = in \o v
      BY <1>8 DEF v
    <3>4. (rxBuffer \o in) \o v = rxBuffer \o in'
      BY <1>2, <2>3, <3>3, Associates
    <3> QED BY <1>1, <2>2, <3>2, <3>4
  <2>5. ASSUME Running, status = "Establish", stage # StageTransmitting
        PROVE  BetweenAt(in', controlNumCount', bad', Budget')
    <3>1. BetweenAt(in, controlNumCount, bad, Budget)
      BY <2>5 DEF Tracked
    <3>2. BetweenAt(in \o v, controlNumCount, bad, Budget + 2)
      BY <1>2, <1>3, <1>8, <2>1, <3>1, GapBetween
    <3> QED BY <1>1, <1>8, <2>2, <3>2
  <2>6. bad <= Budget + 2
    BY <1>2
  <2> QED BY <1>1, <1>4, <2>1, <2>2, <2>4, <2>5, <2>6 DEF Tracked
<1> QED BY <1>7, <1>8 DEF SendRecord

\* An export begins, and finds '!' from the last one at most.
LEMMA ExportTracked ==
  ASSUME Inductive, Fitting, Tracked, NEW m \in Modes, Export(m)
  PROVE  Tracked'
<1>1. ~Running
  BY DEF Export, Inductive, SessionOwnsResources, Running, Modes, Data, Alarm, TypeOK
<1>2. stage = StageNone /\ StageNone # StageTransmitting
  BY <1>1 DEF Fitting, StageNone, StageTransmitting
<1>3. Len(rxBuffer) = controlNumCount
  BY <1>2 DEF Fitting, RecordFits
<1>4. /\ UNCHANGED <<stage, controlNumCount, rxBuffer, faults>>
      /\ bad' = 0 /\ cut' = (cut \/ rxBuffer # <<>>)
  BY DEF Export, device
<1>5. faults \in Nat /\ faults <= 1 /\ controlNumCount \in Nat
  BY BudgetType DEF Tracked
<1>6. Budget' \in Nat /\ (cut' => Budget' >= 1)
  BY <1>4, <1>5 DEF Budget
<1>7. CASE portOpen' = TRUE /\ in' = <<>>
  <2>1. controlNumCount = 0 \/ cut'
    <3>1. rxBuffer = <<>> => Len(rxBuffer) = 0
      OBVIOUS
    <3> QED BY ONLY <1>3, <1>4, <3>1
  <2>2. BetweenAt(<<>>, controlNumCount, 0, Budget')
    BY <1>6, <2>1, NothingArrived
  <2> QED BY <1>2, <1>4, <1>5, <1>6, <1>7, <2>2 DEF Tracked
<1>8. CASE UNCHANGED <<transmitButtonStatus, receiveButtonStatus>>
  <2>1. ~Running'
    BY <1>1, <1>8 DEF Running
  <2> QED BY <1>4, <1>5, <1>6, <2>1 DEF Tracked
<1> QED BY <1>7, <1>8 DEF Export, startRecv

\* Without a cancel every step keeps the account.
LEMMA StepTracked ==
  ASSUME Cancel = FALSE, MaxFaults <= 1, ControlsApart,
         Inductive, Fitting, Tracked, [Next]_vars
  PROVE  Tracked'
<1>1. ASSUME NEW m \in Modes, Export(m) PROVE Tracked'
  BY <1>1, ExportTracked
<1>2. ASSUME NEW m \in Modes, Browse(m) PROVE Tracked'
  BY <1>2 DEF Browse, engine, device, history, Tracked, Budget, Running
<1>3. ~stopReceive /\ ~Relaunch
  BY DEF stopReceive, Relaunch, Fitting
<1>4. CASE readTimeOut
  <2>1. /\ UNCHANGED <<transmitButtonStatus, receiveButtonStatus, faults>>
        /\ status = "Establish" /\ Running
    BY <1>4 DEF readTimeOut, device, Inductive, OutcomePending, SessionOwnsResources, Running,
       Fitting
  <2>2. CASE receiveStageNone /\ UNCHANGED <<in, history>>
    <3>1. /\ stage # StageTransmitting /\ stage' # StageTransmitting
          /\ UNCHANGED <<status, controlNumCount, bad, cut, in>>
      BY <2>2 DEF receiveStageNone, Settle, Going, history, StageNone, StageEstablishing,
         StageTransmitting
    <3>2. Running' = Running /\ Budget' = Budget
      BY <2>1, <3>1 DEF Running, Budget
    <3> QED BY <2>1, <3>1, <3>2 DEF Tracked
  <2>3. ASSUME NEW r \in receivePacket, Receives(r), Notes(r),
               in' = SubSeq(in, r.n + 1, Len(in))
        PROVE  Tracked'
    BY <2>1, <2>3, EstablishingTracked, TransmittingTracked DEF Receives
  <2> QED BY <1>4, <2>2, <2>3, NoOverrun DEF readTimeOut, receive
<1>5. CASE writeTimeOut
  <2>1. status' # "Establish" /\ UNCHANGED <<bad, faults, cut>>
    BY <1>5 DEF writeTimeOut, Inductive, OutcomePending, Terminal, device, history
  <2> QED BY <2>1 DEF Tracked, Budget
<1>6. CASE SendRecord
  BY <1>6, SendTracked
<1>7. CASE Elsewhere /\ UNCHANGED <<in, faults>>
  BY <1>7 DEF Elsewhere, engine, session, history, Tracked, Budget, Running
<1>8. TakeRequest \/ LastRecord \/ UNCHANGED vars => Elsewhere /\ UNCHANGED <<in, faults>>
  BY DEF TakeRequest, LastRecord, vars, Elsewhere, device
<1> QED BY <1>1, <1>2, <1>3, <1>4, <1>5, <1>6, <1>7, <1>8 DEF Next

\* Nothing was refused, and no export runs.
LEMMA InitTracked == Init => Tracked
BY DEF Init, Tracked, Budget, Running

\* What is accepted in a poll is one of the records of the device.
LEMMA AcceptedHere ==
  ASSUME ControlsApart, ShortGaps, Inductive, Fitting, Tracked, Running, status = "Establish",
         NEW r \in receivePacket, receiveStageTransmitting(r), GoodTail(r.buf), r.ret = "Soh",
         ~(cut /\ faults > 0)
  PROVE  IsRecord(r.buf)
<1>1. stage = StageTransmitting /\ code = "Soh"
  BY DEF receiveStageTransmitting, Inductive, CodeMatchesStage
<1>2. Len(rxBuffer) <= RecordLen(mode)
  BY <1>1, RecordLenType DEF Fitting, RecordFits
<1>3. /\ Budget \in Nat /\ bad \in Nat /\ in \in Seq(Byte) /\ rxBuffer \in Seq(Byte)
      /\ mode \in Modes /\ faults \in Nat /\ faults <= 1
  BY BudgetType DEF Tracked
<1> DEFINE s == rxBuffer \o in
           L == RecordLen(mode)
<1>4. L \in Nat /\ ControlNumber \in Nat /\ L > 2 * ControlNumber
  BY RecordLenType, Lengths
<1>5. CutAt(s, r.buf, SubSeq(in, r.n + 1, Len(in))) /\ Len(r.buf) = L
  BY <1>1, <1>2, <1>3, <1>4, ReadOn, ReceivePacketOK DEF ReadOK
<1>6. L <= Len(s) /\ \A i \in 1 .. L : r.buf[i] = s[i]
  BY <1>5 DEF CutAt
<1>7. ASSUME NEW i \in L - ControlNumber + 1 .. L PROVE IsQuestionMark(s[i])
  <2>1. i \in 1 .. L
    BY <1>4
  <2> QED BY <1>6, <2>1 DEF GoodTail
<1>8. PICK u, z, g, m, e :
        /\ Line(s, ControlNumber, u, z, g, m) /\ z \in 1 - ControlNumber .. 0
        /\ (e = 0 => z = 0) /\ Costs(bad, e, m, Budget)
  BY <1>1 DEF Tracked, WithinAt
<1>9. m > 0 => z = 0
  <2>1. SUFFICES ASSUME m > 0 PROVE e = 0
    BY <1>8
  <2>2. e \in {0, 1} /\ bad + e + 2 <= Budget
    BY <1>8, <2>1 DEF Costs
  <2>3. Budget <= 2
    BY <1>3, <2>2 DEF Budget
  <2> QED BY <1>3, <2>2, <2>3
<1>10. \E k \in 0 .. RecMod - 1 : \A i \in ControlNumber + 1 .. L : s[i] = Record(mode, k)[i]
  BY <1>3, <1>6, <1>7, <1>8, <1>9, PacketIsRecord
<1>11. ASSUME NEW i \in ControlNumber + 1 .. L PROVE r.buf[i] = s[i]
  <2>1. i \in 1 .. L
    BY <1>4
  <2> QED BY <1>6, <2>1
<1> QED BY <1>10, <1>11 DEF IsRecord

\* Without a cancel every step accepts only such records.
LEMMA StepAccepts ==
  ASSUME Cancel = FALSE, MaxFaults <= 1, ControlsApart, ShortGaps,
         Inductive, Fitting, Tracked, AcceptedIsOneRecord, [Next]_vars
  PROVE  AcceptedIsOneRecord'
<1>1. ASSUME NEW m \in Modes, Export(m) PROVE whole'
  BY <1>1 DEF Export
<1>2. ~stopReceive /\ ~Relaunch
  BY DEF stopReceive, Relaunch, Fitting
<1>3. CASE readTimeOut
  <2>1. faults' = faults /\ status = "Establish" /\ Running
    BY <1>3 DEF readTimeOut, device, Inductive, OutcomePending, SessionOwnsResources, Running,
       Fitting
  <2>2. CASE UNCHANGED history
    BY <2>1, <2>2 DEF history, AcceptedIsOneRecord
  <2>3. ASSUME NEW r \in receivePacket, Receives(r), Notes(r)
        PROVE  AcceptedIsOneRecord'
    <3>1. cut' = cut
      BY <2>3 DEF Notes
    <3>2. CASE r.ret = "Soh" /\ GoodTail(r.buf)
      <4>1. receiveStageTransmitting(r)
        <5>1. ASSUME receiveStageEstablishing(r) PROVE r.ret # "Soh"
          <6>1. code = "None"
            BY <5>1 DEF receiveStageEstablishing, Inductive, TypeOK, CodeMatchesStage,
               StageEstablishing, StageTransmitting
          <6> QED BY <2>3, <6>1 DEF receivePacket, NoByte, FirstByte
        <5> QED BY <2>3, <3>2, <5>1 DEF Receives
      <4>2. whole' = IsRecord(r.buf)
        BY <2>3, <3>2 DEF Notes
      <4>3. ~(cut /\ faults > 0) => IsRecord(r.buf)
        BY <2>1, <2>3, <3>2, <4>1, AcceptedHere
      <4> QED BY <2>1, <3>1, <4>2, <4>3 DEF AcceptedIsOneRecord
    <3>3. CASE ~(r.ret = "Soh" /\ GoodTail(r.buf))
      <4>1. whole' = whole
        BY <2>3, <3>3 DEF Notes
      <4> QED BY <2>1, <3>1, <4>1 DEF AcceptedIsOneRecord
    <3> QED BY <3>2, <3>3
  <2> QED BY <1>3, <2>2, <2>3, NoOverrun DEF readTimeOut, receive
<1>4. CASE SendRecord
  <2>1. UNCHANGED <<whole, cut>> /\ (faults' = faults \/ faults' = faults + 1)
    BY <1>4 DEF SendRecord, Elsewhere, history
  <2>2. faults > 0 => faults' > 0
    BY <2>1 DEF Inductive, TypeOK
  <2> QED BY <2>1, <2>2 DEF AcceptedIsOneRecord
<1>5. CASE UNCHANGED <<whole, cut, faults>>
  BY <1>5 DEF AcceptedIsOneRecord
<1>6. ASSUME writeTimeOut \/ TakeRequest \/ LastRecord \/ UNCHANGED vars
             \/ \E m \in Modes : Browse(m)
      PROVE  UNCHANGED <<whole, cut, faults>>
  BY <1>6 DEF writeTimeOut, TakeRequest, LastRecord, vars, Browse, Elsewhere, device, history
<1>7. ASSUME NEW m \in Modes, Export(m) PROVE AcceptedIsOneRecord'
  BY <1>1, <1>7 DEF AcceptedIsOneRecord
<1> QED BY <1>2, <1>3, <1>4, <1>5, <1>6, <1>7 DEF Next

\* The account is kept in every export that nobody cancels.
LEMMA TrackedInvariant ==
  ASSUME Cancel = FALSE, MaxFaults <= 1, ControlsApart
  PROVE  Spec => []Tracked
<1>1. Inductive /\ Fitting /\ Tracked /\ [Next]_vars => Tracked'
  BY StepTracked
<1> QED BY InitTracked, <1>1, ExportInvariant, FittingInvariant, PTL DEF Spec

\* A gap in one record costs at most two of the records that were asked for, be
\* it as long as it may: the engine finds the next header again.
THEOREM GapCostsFewRecords ==
  ASSUME Cancel = FALSE, MaxFaults <= 1, ControlsApart
  PROVE  Spec => []GapCostsTwoRecords
<1>1. Tracked => GapCostsTwoRecords
  BY DEF Tracked, Budget, GapCostsTwoRecords
<1> QED BY <1>1, TrackedInvariant, PTL

\* What CostumTran::receivePacket() takes for a record is one of the device's,
\* while one gap, shorter than ShortGaps says, is all that is lost.
THEOREM AcceptedRecordIsWhole ==
  ASSUME Cancel = FALSE, MaxFaults <= 1, ControlsApart, ShortGaps
  PROVE  Spec => []AcceptedIsOneRecord
<1>1. Init => AcceptedIsOneRecord
  BY DEF Init, AcceptedIsOneRecord
<1>2. Inductive /\ Fitting /\ Tracked /\ AcceptedIsOneRecord /\ [Next]_vars
        => AcceptedIsOneRecord'
  BY StepAccepts
<1> QED BY <1>1, <1>2, ExportInvariant, FittingInvariant, TrackedInvariant, PTL DEF Spec
=============================================================================
