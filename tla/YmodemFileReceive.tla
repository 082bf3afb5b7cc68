------------------------- MODULE YmodemFileReceive --------------------------
(***************************************************************************)
(* The receiving side: Ymodem::receive() with its stage functions          *)
(* (src/ymodem/Ymodem.cpp:127-171, 347-1171) and YmodemFileReceive, which  *)
(* writes what arrives to a file.                                          *)
(*                                                                         *)
(* A byte of the received file is the position it has in the file that was *)
(* sent, or 0 when it comes from a packet's padding.                       *)
(*                                                                         *)
(* The peer is any: Spec lets every unit of Heard arrive at any moment.    *)
(* YmodemLink puts the program's own transmitter there instead.            *)
(***************************************************************************)
EXTENDS Ymodem

CONSTANTS
  Heard,   \* the units that may arrive
  InMax,   \* bound: at most InMax units are on their way
  DiskSize \* the bytes that the disk has room for

ASSUME HeardAssumption == Heard \subseteq Unit
ASSUME DiskAssumption == DiskSize \in Nat

VARIABLES
  fileSize,   \* the size the header announced
  fileCount,  \* how many bytes were written
  received,   \* the bytes of the file
  crashed     \* the process died

file == <<fileSize, fileCount, received>>
vars == <<ymodemVars, file, crashed>>

KeepFile == UNCHANGED file

AckC == Ctl("Ack") \o Ctl("C")

NextNum(d) == (d + 1) % NumMod

-----------------------------------------------------------------------------
(* callback() *)

IsHeader(r) == r.pkt.kind = "Soh" /\ r.pkt.num = 0

\* The size found behind the name.  A data packet that is taken for a header
\* has any size, and a name or none; a packet of zeros has no name.
Announced(p) == CASE p.what = "info" -> {p.n}
                  [] p.what = "data" -> FileSizes
                  [] p.what = "zero" -> {}

NoSession == /\ Reset(StageNone, 0)
             /\ Send(Cans)
             /\ status' = "Error"
             /\ writeTimer' = TRUE
             /\ UNCHANGED fileOpen

\* callback(StatusEstablish) and what receiveStageEstablishing does with it.
Establish(p) ==
  \/ \E size \in Announced(p) :
       /\ fileSize' = size
       /\ fileCount' = 0
       /\ \/ \* the file opens, and is emptied
             /\ received' = <<>>
             /\ Reset(StageEstablished, 0)
             /\ Send(AckC)
             /\ status' = "Establish" /\ fileOpen' = TRUE /\ UNCHANGED writeTimer
          \/ \* it does not
             NoSession /\ UNCHANGED received
  \/ p.what # "info" /\ NoSession /\ KeepFile

\* Mutated form of Taken: the padding of the last packet is written too.
TakenAll(len) == len

\* callback(StatusTransmit): what is written of a packet of len bytes, never
\* more than is missing from the announced size.
Taken(len) == IF fileSize - fileCount > len THEN len ELSE fileSize - fileCount
Payload(p, k) ==
  [i \in 1 .. k |-> IF p.what = "data" /\ i <= p.n THEN p.from + i ELSE 0]
DataLength(r) == IF r.ret = "Soh" THEN PacketSize ELSE Packet1kSize

\* What is on the disk when s was written: nobody asks write() how much it was.
OnDisk(s) == SubSeq(s, 1, IF Len(s) > DiskSize THEN DiskSize ELSE Len(s))

\* progress = fileCount * 100 / fileSize: the division kills the process when
\* the announced size is 0.
DividesByZero == fileSize = 0
Crash(r) == /\ crashed' = TRUE /\ code' = r.code
            /\ UNCHANGED <<timeCount, errorCount, dataCount, stage, txBuffer, out, file>>
            /\ Going

Accept(r, num) ==
  \/ DividesByZero /\ Crash(r)
  \/ /\ ~DividesByZero
     /\ received' = OnDisk(received \o Payload(r.pkt, Taken(DataLength(r))))
     /\ fileCount' = fileCount + Taken(DataLength(r))
     /\ Reset(StageTransmitting, num)
     /\ Send(Ctl("Ack"))
     /\ status' = "Transmit"
     /\ UNCHANGED <<writeTimer, fileOpen, fileSize, crashed>>

-----------------------------------------------------------------------------
(* The stage functions.  r is what receivePacket() returned. *)

\* Mutated form of IsPacket: the number is not looked at.
IsAnyPacket(r, num) == r.pkt.kind # "None" /\ num \in 0 .. NumMod - 1

IsPacket(r, num) == r.pkt.kind # "None" /\ r.pkt.num = num

receiveStageNone ==
  /\ stage = StageNone
  /\ Reset(StageEstablishing, 0)
  /\ Send(Ctl("C"))
  /\ Going /\ KeepFile /\ UNCHANGED crashed

receiveStageEstablishing(r) ==
  /\ stage = StageEstablishing
  /\ UNCHANGED crashed
  /\ \/ r.ret = "Soh" /\ IsHeader(r) /\ Establish(r.pkt)
     \/ r.ret = "Soh" /\ ~IsHeader(r) /\ CountError(r, Ctl("C")) /\ KeepFile
     \/ r.ret \in AbortCodes /\ Aborted /\ KeepFile
     \/ /\ r.ret \notin {"Soh"} \cup AbortCodes
        /\ Tick("Timeout", r, Send(Ctl("C"))) /\ KeepFile

\* Mutated form of FirstEot: the first EOT is taken for the second.
FirstEotTaken == Reset(StageFinished, 0) /\ Send(AckC) /\ Going

\* EOT: it is refused once, to be sent again.
FirstEot == Reset(StageFinishing, 0) /\ Send(Ctl("Nak")) /\ Going

\* Everything in these two stages but a packet that is accepted.
Otherwise(r) ==
  /\ KeepFile /\ UNCHANGED crashed
  /\ \/ r.ret = "Eot" /\ FirstEot
     \/ r.ret \in AbortCodes /\ Aborted
     \/ /\ r.ret \notin {"Soh", "Stx", "Eot"} \cup AbortCodes
        /\ Tick("Error", r, Send(Ctl("Nak")))

Refuse(r, answer) == CountError(r, answer) /\ KeepFile /\ UNCHANGED crashed

receiveStageEstablished(r) ==
  /\ stage = StageEstablished
  /\ \/ IsHeader(r) /\ Refuse(r, AckC)          \* the header once more
     \/ IsPacket(r, 1) /\ Accept(r, 1)
     \/ /\ r.ret \in {"Soh", "Stx"} /\ ~IsHeader(r) /\ ~IsPacket(r, 1)
        /\ Refuse(r, Ctl("Nak"))
     \/ Otherwise(r)

receiveStageTransmitting(r) ==
  /\ stage = StageTransmitting
  /\ \/ IsPacket(r, dataCount) /\ Refuse(r, Ctl("Ack"))   \* the last once more
     \/ IsPacket(r, NextNum(dataCount)) /\ Accept(r, NextNum(dataCount))
     \/ /\ r.ret \in {"Soh", "Stx"}
        /\ ~IsPacket(r, dataCount) /\ ~IsPacket(r, NextNum(dataCount))
        /\ Refuse(r, Ctl("Nak"))
     \/ Otherwise(r)

receiveStageFinishing(r) ==
  /\ stage = StageFinishing
  /\ KeepFile /\ UNCHANGED crashed
  /\ \/ r.ret = "Eot" /\ Reset(StageFinished, 0) /\ Send(AckC) /\ Going
     \/ r.ret \in AbortCodes /\ Aborted
     \/ /\ r.ret \notin {"Eot"} \cup AbortCodes
        /\ Tick("Error", r, Send(Ctl("Nak")))

receiveStageFinished(r) ==
  /\ stage \notin StageNone .. StageFinishing
  /\ KeepFile /\ UNCHANGED crashed
  /\ \/ /\ r.ret = "Soh" /\ IsHeader(r)
        /\ Reset(StageNone, 0) /\ Send(Ctl("Ack")) /\ Report("Finish")
     \/ r.ret = "Soh" /\ ~IsHeader(r) /\ CountError(r, Ctl("Nak"))
     \/ r.ret = "Eot" /\ CountError(r, AckC)
     \/ r.ret \in AbortCodes /\ Aborted
     \/ /\ r.ret \notin {"Soh", "Eot"} \cup AbortCodes
        /\ Tick("Error", r, Send(Ctl("Nak")))

-----------------------------------------------------------------------------
(* The steps of the program *)

\* receive(), with a packet read where the stage reads one.
receive ==
  \/ receiveStageNone /\ NoPoll
  \/ /\ stage # StageNone
     /\ \E r \in receivePacket :
          /\ \/ receiveStageEstablishing(r)
             \/ receiveStageEstablished(r)
             \/ receiveStageTransmitting(r)
             \/ receiveStageFinishing(r)
             \/ receiveStageFinished(r)
          /\ Poll(r)

ReadTimeOut ==
  /\ readTimer /\ ~crashed
  /\ receive
  /\ Rearm
  /\ UNCHANGED <<portOpen, button>>

startReceive == ~crashed /\ Start /\ KeepFile /\ UNCHANGED crashed
stopReceive  == ~crashed /\ Stop /\ KeepFile /\ UNCHANGED crashed
writeTimeOut == ~crashed /\ WriteTimeOut /\ KeepFile /\ UNCHANGED crashed

Init == /\ YmodemInit
        /\ fileSize = 0 /\ fileCount = 0 /\ received = <<>> /\ crashed = FALSE

\* The user starts the program again after a crash.
Relaunch ==
  /\ crashed
  /\ crashed' = FALSE
  /\ Reset(StageNone, 0)
  /\ rxBuffer' = <<>> /\ txBuffer' = <<>> /\ in' = <<>>
  /\ status' = "Idle" /\ readTimer' = FALSE /\ writeTimer' = FALSE
  /\ portOpen' = FALSE /\ fileOpen' = FALSE /\ button' = FALSE
  /\ fileSize' = 0 /\ fileCount' = 0 /\ received' = <<>>
  /\ UNCHANGED out

Program == startReceive \/ stopReceive \/ ReadTimeOut \/ writeTimeOut \/ Relaunch

(* The surroundings: units arrive at an open port, and what was written is *)
(* taken by the wire.                                                      *)

Elsewhere == UNCHANGED <<engine, rxBuffer, txBuffer, session, file, crashed>>

Arrive == /\ portOpen
          /\ Len(in) < InMax /\ Room
          /\ \E u \in Heard : in' = Append(in, u)
          /\ UNCHANGED out /\ Elsewhere

Drain == /\ out # <<>>
         /\ out' = <<>>
         /\ UNCHANGED in /\ Elsewhere

Next == Program \/ Arrive \/ Drain

Spec == Init /\ [][Next]_vars

\* An armed timer fires, and the wire carries what it is given.  The user
\* need never click.
Fairness == /\ WF_vars(ReadTimeOut)
            /\ WF_vars(writeTimeOut)
            /\ WF_vars(Drain)
FairSpec == Spec /\ Fairness

-----------------------------------------------------------------------------
(* Properties *)

\* Every variable keeps to its type.
TypeOK ==
  /\ timeCount \in Nat /\ errorCount \in Nat /\ dataCount \in 0 .. NumMod - 1
  /\ code \in {"None", "Soh", "Stx"} /\ stage \in StageNone .. StageFinished
  /\ rxBuffer \in Seq(Unit) /\ txBuffer \in Seq(Unit)
  /\ status \in Statuses /\ readTimer \in BOOLEAN /\ writeTimer \in BOOLEAN
  /\ portOpen \in BOOLEAN /\ fileOpen \in BOOLEAN /\ button \in BOOLEAN
  /\ in \in Seq(Unit) /\ out \in Seq(Unit)
  /\ fileSize \in Nat /\ fileCount \in Nat /\ received \in Seq(Nat)
  /\ crashed \in BOOLEAN

\* While the button says start nothing is left of a session: the port and
\* the file are closed and no timer will fire.  While it says cancel the port
\* is open and a timer is armed that will move or end the session.
SessionOwnsResources ==
  /\ ~button => ~portOpen /\ ~fileOpen /\ ~readTimer /\ ~writeTimer
  /\ button => portOpen /\ (readTimer \/ writeTimer)

\* The file is open exactly while the engine may write to it.
FileOpenWhileReceiving ==
  fileOpen <=> stage \in StageEstablished .. StageFinished

\* The note on Ymodem::Ymodem: no stage waits longer than timeMax + 1 periods,
\* nor goes on after more than errorMax errors.
WaitIsBounded ==
  /\ timeCount \div (TimeDivide + 1) <= TimeMax
  /\ errorCount <= ErrorMax

\* The program's account of what it wrote is what is in the file, up to what
\* the disk had room for, and the file never outgrows the announced size,
\* whatever packets arrive: the uint64_t fileSize - fileCount
\* (YmodemFileReceive.cpp:166) does not wrap.
CountMatchesFile ==
  fileOpen => /\ fileCount <= fileSize
              /\ Len(received) = IF fileCount > DiskSize THEN DiskSize ELSE fileCount

\* What the properties above rest on, with what Ymodem says of both sides: the
\* process dies within a session.
CrashedInSession == crashed => status \in Running
Inductive == /\ TypeOK
             /\ PartialPacket
             /\ SessionOwnsResources
             /\ FileOpenWhileReceiving
             /\ OutcomePending
             /\ WaitIsBounded
             /\ CountMatchesFile
             /\ CrashedInSession

\* Once a session has an outcome only the user changes it: a late answer or
\* a timer that is still armed does not.
OutcomeIsFinal ==
  [][button /\ status \in Terminal /\ status' # status => status' = "Abort"]_vars

\* A peer that falls silent does not keep the window locked: the session
\* ends, unless the user restarts the 100 ms timer by clicking cancel for ever.
SilentPeerEndsSession ==
  (<>[][~Arrive /\ ~stopReceive]_vars) => (button ~> (~button \/ crashed))
=============================================================================
