------------------------------ MODULE CostumTran ------------------------------
(***************************************************************************)
(* The engine of the data export (src/costum_tran/CostumTran.cpp): the     *)
(* stages that receive() reaches, its packet reader, its clock and         *)
(* abort().  CostumTranReceive EXTENDS this module and adds the session,   *)
(* the page's two buttons and the device.                                  *)
(*                                                                         *)
(* A record of the device is a header of three '!', a body, and a tail of  *)
(* three '?'.  A byte is its kind of record, the number of the record it   *)
(* belongs to, and its position there: no byte of a body is a '!' or a '?'.*)
(*                                                                         *)
(* dataCount stays 0 and is left out.  receivePacket() returns no code but *)
(* '!' and Soh, so the stages Established, Finishing and Finished, which   *)
(* wait for another, are never reached.                                    *)
(***************************************************************************)
EXTENDS Integers, Sequences

CONSTANTS
  TimeDivide,     \* timeDivide: polls per clock period, less one (499)
  TimeMax,        \* timeMax: periods waited before giving up (5)
  ErrorMax,       \* errorMax: errors tolerated (999)
  DataLen,        \* DATA_PACKAGE_LEN, in bytes (270)
  AlarmLen,       \* ALARM_PACKAGE_LEN, in bytes (88)
  ControlNumber,  \* COSTUM_CODE_CONTROL_NUMBER (3)
  BufferLen,      \* bytes that may be overwritten behind rxBuffer[0] (2058)
  RecMod          \* records are told apart by their number modulo RecMod

ASSUME CostumClockAssumption ==
  TimeDivide \in Nat /\ TimeMax \in Nat /\ ErrorMax \in Nat
ASSUME CostumSizeAssumption ==
  /\ ControlNumber \in Nat \ {0} /\ RecMod \in Nat \ {0}
  /\ AlarmLen \in Nat /\ AlarmLen > 2 * ControlNumber
  /\ DataLen \in Nat /\ DataLen > AlarmLen
  /\ BufferLen \in Nat /\ BufferLen >= DataLen

VARIABLES
  timeCount, errorCount, code, stage, mode, controlNumCount, \* class CostumTran
  rxBuffer,    \* the bytes in rxBuffer[0 .. rxLength - 1]: rxLength is its Len
  status,      \* status of the adapter
  writeTimer,  \* writeTimer is armed (100 ms)
  portOpen,    \* serialPort->isOpen()
  in,          \* bytes on their way to the program, or in the port's buffer
  request      \* what was written last and not taken by the device yet

engine == <<timeCount, errorCount, code, stage, mode, controlNumCount, rxBuffer>>

-----------------------------------------------------------------------------
StageNone         == 0
StageEstablishing == 1
StageTransmitting == 3

Modes    == {"RequestData", "RequestAlarm"}
Requests == Modes \cup {"Can", "None"}

RecordLen(m) == IF m = "RequestData" THEN DataLen ELSE AlarmLen

Byte == [kind : Modes, rec : 0 .. RecMod - 1, pos : Nat \ {0}]
Record(m, k) == [i \in 1 .. RecordLen(m) |-> [kind |-> m, rec |-> k, pos |-> i]]

IsExclamationMark(b) == b.pos <= ControlNumber
IsQuestionMark(b)    == b.pos > RecordLen(b.kind) - ControlNumber

-----------------------------------------------------------------------------
(* receivePacket() *)

\* Nothing to read, or a byte that is no '!': the next one is read over it.
NoByte == [ret |-> "None", buf |-> rxBuffer, n |-> 0]
FirstByte ==
  IF IsExclamationMark(Head(in))
  THEN [ret |-> "!", buf |-> Append(rxBuffer, Head(in)), n |-> 1]
  ELSE [ret |-> "None", buf |-> rxBuffer, n |-> 1]

\* The rest of a record is read, as far as it is there: m bytes have arrived.
\* LEN - rxLength is a uint32_t: when rxLength is beyond LEN it is more than
\* any port holds, so that all there is is read, and the record is never full.
Rest == RecordLen(mode) - Len(rxBuffer)
Fill(m) ==
  LET k    == IF Rest >= 0 /\ m > Rest THEN Rest ELSE m
      full == k = Rest
  IN [ret |-> IF full THEN "Soh" ELSE "None",
      buf |-> rxBuffer \o SubSeq(in, 1, k),
      n   |-> k]

receivePacket ==
  IF code = "None"
  THEN {NoByte} \cup {FirstByte : m \in 1 .. IF in = <<>> THEN 0 ELSE 1}
  ELSE {Fill(m) : m \in 0 .. Len(in)}

-----------------------------------------------------------------------------
(* The stage functions.  r is what receivePacket() returned. *)

\* write(): a closed port takes nothing.
Write(what) == request' = IF portOpen THEN what ELSE request

Settle(s, c) == timeCount' = 0 /\ code' = c /\ stage' = s
Going == UNCHANGED <<status, writeTimer>>

\* callback(StatusTimeout), the only one that receive() makes.
Timeout == status' = "Timeout" /\ writeTimer' = TRUE

\* Mutated form of Expired: one period more.
ExpiredLate(t) == t \div (TimeDivide + 1) > TimeMax + 1

\* Nothing of use: a period of the clock may be over, and after more than
\* timeMax of them the session has timed out.
Expired(t)    == t \div (TimeDivide + 1) > TimeMax
PeriodOver(t) == t % (TimeDivide + 1) = 0

receiveStageNone ==
  /\ stage = StageNone
  /\ Settle(StageEstablishing, "None") /\ errorCount' = 0
  /\ Write(mode)
  /\ Going /\ UNCHANGED <<mode, controlNumCount, rxBuffer>>

\* Three '!', in a row or not, start a record.
Marks(r) == controlNumCount + (IF r.ret = "!" THEN 1 ELSE 0)
HeaderSeen(r) == r.ret = "!" /\ Marks(r) >= ControlNumber

\* Mutated form of Begin: the '!' of the record before are counted as well.
BeginKeepsCount == /\ Settle(StageTransmitting, "Soh") /\ errorCount' = 0
                   /\ controlNumCount' = ControlNumber - 1
                   /\ Going /\ UNCHANGED request

\* Mutated form of Begin: the stage that the YMODEM engine has between the two.
BeginEstablished == /\ Settle(2, "Soh") /\ errorCount' = 0
                    /\ controlNumCount' = 0
                    /\ Going /\ UNCHANGED request

Begin == /\ Settle(StageTransmitting, "Soh") /\ errorCount' = 0
         /\ controlNumCount' = 0
         /\ Going /\ UNCHANGED request

\* Mutated form of Wait: the clock starts again with each request.
WaitRestarts(r) ==
  /\ controlNumCount' = Marks(r)
  /\ timeCount' = IF PeriodOver(timeCount + 1) THEN 0 ELSE timeCount + 1
  /\ IF PeriodOver(timeCount + 1) THEN Write(mode) ELSE UNCHANGED request
  /\ Going /\ UNCHANGED <<errorCount, code, stage>>

\* No header yet: it is asked for again once per period.
Wait(r) ==
  /\ controlNumCount' = Marks(r)
  /\ \/ /\ Expired(timeCount + 1)
        /\ Settle(StageNone, "None") /\ errorCount' = 0
        /\ Timeout /\ UNCHANGED request
     \/ /\ ~Expired(timeCount + 1)
        /\ timeCount' = timeCount + 1
        /\ IF PeriodOver(timeCount + 1) THEN Write(mode) ELSE UNCHANGED request
        /\ Going /\ UNCHANGED <<errorCount, code, stage>>

receiveStageEstablishing(r) ==
  /\ stage = StageEstablishing
  /\ rxBuffer' = r.buf /\ UNCHANGED mode
  /\ \/ HeaderSeen(r) /\ Begin
     \/ ~HeaderSeen(r) /\ Wait(r)

\* Mutated form of GoodTail: only the last byte is looked at.
GoodTailLast(buf) == IsQuestionMark(buf[RecordLen(mode)])

\* The tail is where it belongs.
GoodTail(buf) ==
  \A i \in RecordLen(mode) - ControlNumber + 1 .. RecordLen(mode) :
    IsQuestionMark(buf[i])

Accept == Settle(StageEstablishing, "None") /\ errorCount' = 0 /\ rxBuffer' = <<>>

\* A record with another tail is an error; with too many of them the export
\* is asked for again from the start, and nobody is told.
TooMany == errorCount + 1 > ErrorMax
Refuse ==
  /\ rxBuffer' = <<>>
  /\ \/ TooMany /\ Settle(StageNone, "None") /\ errorCount' = 0
     \/ ~TooMany /\ Settle(StageEstablishing, "None") /\ errorCount' = errorCount + 1

\* Mutated form of GiveUp: what was read stays in the buffer.
GiveUpKeepsBuffer(r) == /\ Settle(StageNone, "None") /\ errorCount' = 0
                        /\ rxBuffer' = r.buf
                        /\ Timeout

\* A record that does not get complete is given up; r is what it was.
GiveUp(r) == /\ Settle(StageNone, "None") /\ errorCount' = 0
             /\ rxBuffer' = <<>>
             /\ Timeout

receiveStageTransmitting(r) ==
  /\ stage = StageTransmitting
  /\ UNCHANGED <<mode, controlNumCount, request>>
  /\ \/ r.ret = "Soh" /\ GoodTail(r.buf) /\ Accept /\ Going
     \/ r.ret = "Soh" /\ ~GoodTail(r.buf) /\ Refuse /\ Going
     \/ r.ret # "Soh" /\ Expired(timeCount + 1) /\ GiveUp(r)
     \/ /\ r.ret # "Soh" /\ ~Expired(timeCount + 1)
        /\ timeCount' = timeCount + 1 /\ rxBuffer' = r.buf
        /\ Going /\ UNCHANGED <<errorCount, code, stage>>

\* abort(): neither rxLength nor controlNumCount is reset.
abort ==
  /\ Settle(StageNone, "None") /\ errorCount' = 0
  /\ Write("Can")
  /\ UNCHANGED <<mode, controlNumCount, rxBuffer>>

CostumTranInit ==
  /\ timeCount = 0 /\ errorCount = 0 /\ code = "None" /\ stage = StageNone
  /\ mode = "RequestAlarm" /\ controlNumCount = 0 /\ rxBuffer = <<>>
=============================================================================
