---------------------------- MODULE YmodemProofs ----------------------------
(***************************************************************************)
(* Lemmas about what the two sides share: units and packets, what          *)
(* receivePacket() returns, the clock.  The proofs about the transmitter   *)
(* and about the receiver cite them.                                       *)
(***************************************************************************)
EXTENDS Ymodem, TLAPS

(* Units and packets *)

\* A control code and the cancel sequence are sequences of units.
LEMMA CtlType == \A c \in Codes : Ctl(c) \in Seq(Unit)
<1> SUFFICES ASSUME NEW c \in Codes PROVE Ctl(c) \in Seq(Unit)
  OBVIOUS
<1>1. NoPacket \in Packet
  BY NumberAssumption DEF NoPacket, Packet
<1>2. [byte |-> c, pkt |-> NoPacket, part |-> 0] \in Unit
  BY <1>1 DEF Unit
<1> QED BY <1>2 DEF Ctl

\* The cancel sequence is a sequence of units (YMODEM_CODE_CAN_NUMBER times CAN).
LEMMA CansType == Cans \in Seq(Unit)
<1>1. NoPacket \in Packet
  BY NumberAssumption DEF NoPacket, Packet
<1>2. "Can" \in Codes
  BY DEF Codes
<1>3. [byte |-> "Can", pkt |-> NoPacket, part |-> 0] \in Unit
  BY <1>1, <1>2 DEF Unit
<1>4. Ctl("Can")[1] \in Unit
  BY <1>3 DEF Ctl
<1> QED BY <1>4, NumberAssumption DEF Cans

\* A packet is at least one unit long.
LEMMA FrameUnitsType == \A c : FrameUnits(c) \in Nat \ {0}
BY WireAssumption DEF FrameUnits

\* So is a packet on the wire.
LEMMA WireType == \A p \in Packet : Wire(p) \in Seq(Unit)
<1> SUFFICES ASSUME NEW p \in Packet PROVE Wire(p) \in Seq(Unit)
  OBVIOUS
<1>1. FrameUnits(p.kind) \in Nat
  BY FrameUnitsType
<1>2. p.kind \in Codes \cup {"Data"}
  BY DEF Packet, Codes
<1>3. \A i \in 1 .. FrameUnits(p.kind) :
        [byte |-> IF i = 1 THEN p.kind ELSE "Data", pkt |-> p, part |-> i] \in Unit
  BY <1>1, <1>2 DEF Unit
<1> QED BY <1>1, <1>3 DEF Wire

-----------------------------------------------------------------------------
(* receivePacket() *)

Result == [ret : Codes, code : {"None", "Soh", "Stx"}, buf : Seq(Unit),
           pkt : Packet, rest : Seq(Unit)]

\* What a read may return: of a packet that is not complete at least one unit
\* is missing.
ReadOK(r) == /\ r \in Result
             /\ r.code # "None" => Len(r.buf) \in 1 .. FrameUnits(r.code) - 1

\* A full buffer is decoded to a packet, a real one or NoPacket.
LEMMA DecodeType ==
  \A buf \in Seq(Unit) : Len(buf) > 0 => Decode(buf) \in Packet
<1>1. NoPacket \in Packet
  BY NumberAssumption DEF NoPacket, Packet
<1> SUFFICES ASSUME NEW buf \in Seq(Unit), Len(buf) > 0
             PROVE  Decode(buf) \in Packet
  OBVIOUS
<1>2. buf[1] \in Unit
  OBVIOUS
<1>3. buf[1].pkt \in Packet
  BY <1>2 DEF Unit
<1> QED BY <1>1, <1>3 DEF Decode

\* Reading on in a packet keeps what was read and stops short of the end or decodes it.
LEMMA FillOK ==
  ASSUME NEW c \in {"Soh", "Stx"}, NEW buf \in Seq(Unit), NEW coming \in Seq(Unit),
         NEW n \in 0 .. Len(coming), Len(buf) \in 1 .. FrameUnits(c)
  PROVE  ReadOK(Fill(c, buf, coming, n))
<1> DEFINE need == FrameUnits(c) - Len(buf)
           k    == IF n < need THEN n ELSE need
           got  == buf \o SubSeq(coming, 1, k)
           rest == SubSeq(coming, k + 1, Len(coming))
           full == k = need
<1>1. FrameUnits(c) \in Nat \ {0} /\ Len(buf) \in Nat /\ Len(coming) \in Nat
  BY FrameUnitsType
<1>2. need \in Nat /\ k \in 0 .. Len(coming) /\ k <= need
  BY <1>1
<1>3. SubSeq(coming, 1, k) \in Seq(Unit) /\ Len(SubSeq(coming, 1, k)) = k
  BY <1>1, <1>2
<1>4. rest \in Seq(Unit)
  BY <1>1, <1>2
<1>5. got \in Seq(Unit) /\ Len(got) = Len(buf) + k
  BY <1>3
<1>6. Decode(got) \in Packet
  <2>1. Len(got) > 0
    BY <1>1, <1>2, <1>5
  <2> HIDE DEF got
  <2> QED BY <1>5, <2>1, DecodeType
<1>7. NoPacket \in Packet
  BY NumberAssumption DEF NoPacket, Packet
<1>8. c \in Codes /\ "None" \in Codes
  BY DEF Codes
<1>9. Fill(c, buf, coming, n) =
        [ret |-> IF full THEN c ELSE "None", code |-> IF full THEN "None" ELSE c,
         buf |-> IF full THEN <<>> ELSE got,
         pkt |-> IF full THEN Decode(got) ELSE NoPacket, rest |-> rest]
  BY DEF Fill
<1>10. CASE full
  <2>1. <<>> \in Seq(Unit)
    OBVIOUS
  <2> HIDE DEF need, k, got, rest
  <2> QED BY <1>10, <1>4, <1>6, <1>8, <1>9, <2>1 DEF ReadOK, Result
<1>11. CASE ~full
  <2>1. Len(got) \in 1 .. FrameUnits(c) - 1
    BY <1>11, <1>1, <1>2, <1>5
  <2> HIDE DEF need, k, got, rest
  <2> QED BY <1>11, <1>4, <1>5, <1>7, <1>8, <1>9, <2>1 DEF ReadOK, Result
<1> QED BY <1>10, <1>11

\* A byte that starts no packet is returned as it is.
LEMMA ByteOK ==
  ASSUME NEW b \in Codes, NEW coming \in Seq(Unit)
  PROVE  ReadOK(Byte(b, coming))
<1>1. NoPacket \in Packet
  BY NumberAssumption DEF NoPacket, Packet
<1> QED BY <1>1 DEF ReadOK, Result, Byte

\* receivePacket() keeps its own state in order, whatever has arrived.
LEMMA ReceiveOK ==
  ASSUME in \in Seq(Unit), rxBuffer \in Seq(Unit), code \in {"None", "Soh", "Stx"},
         PartialPacket, NEW r \in receivePacket
  PROVE  ReadOK(r)
<1>0. in \in Seq(Unit) /\ Len(in) \in Nat /\ Late \in {0, 1}
  BY DEF Late
<1>1. CASE code # "None"
  <2>1. PICK n \in Late .. Len(in) : r = Fill(code, rxBuffer, in, n)
    BY <1>1 DEF receivePacket
  <2>2. code \in {"Soh", "Stx"} /\ rxBuffer \in Seq(Unit) /\ n \in 0 .. Len(in)
    BY <1>0, <1>1
  <2>3. Len(rxBuffer) \in 1 .. FrameUnits(code)
    BY <1>1, FrameUnitsType DEF PartialPacket
  <2> QED BY <1>0, <2>1, <2>2, <2>3, FillOK
<1>2. CASE code = "None"
  <2>1. CASE r = Byte("None", in)
    BY <2>1, <1>0, ByteOK DEF Codes
  <2>2. ASSUME NEW n \in 1 .. Len(in), NEW b \in Reads(Head(in)), r = FirstByte(b, n)
        PROVE  ReadOK(r)
    <3>1. in # <<>> /\ Head(in) \in Unit /\ Tail(in) \in Seq(Unit)
          /\ Len(Tail(in)) = Len(in) - 1
      BY <1>0
    <3>2. b \in Codes
      BY <3>1, DataAssumption DEF Reads, Unit
    <3>3. CASE b \in {"Soh", "Stx"}
      <4>1. r = Fill(b, <<Head(in)>>, Tail(in), n - 1)
        BY <2>2, <3>3 DEF FirstByte
      <4>2. <<Head(in)>> \in Seq(Unit) /\ Len(<<Head(in)>>) = 1
        BY <3>1
      <4>3. 1 \in 1 .. FrameUnits(b)
        BY FrameUnitsType
      <4>4. n - 1 \in 0 .. Len(Tail(in))
        BY <1>0, <3>1
      <4> QED BY <3>1, <3>3, <4>1, <4>2, <4>3, <4>4, FillOK
    <3>4. CASE b \notin {"Soh", "Stx"}
      BY <2>2, <3>1, <3>2, <3>4, ByteOK DEF FirstByte
    <3> QED BY <3>3, <3>4
  <2> QED BY <1>2, <2>1, <2>2 DEF receivePacket
<1> QED BY <1>1, <1>2

-----------------------------------------------------------------------------
(* What a read takes from the wire *)

\* What this side has still to make sense of: the packet it is reading, for
\* which its first unit stands, and what has not been read.
Stream == IF code = "None" THEN in ELSE <<rxBuffer[1]>> \o in

\* A read that returns r took k units: the first of the stream is gone, or is
\* the first of the packet that is being read, and a packet or a code that is
\* returned was the first of the stream.
Begun(k)    == Stream # <<>> /\ (code = "None" => k > 0)
Takes(r, k) ==
  /\ r.rest = SubSeq(in, k + 1, Len(in))
  /\ r.code # "None" => Begun(k) /\ r.buf[1] = Stream[1]
  /\ r.pkt # NoPacket => /\ Begun(k)
                         /\ r.pkt = Stream[1].pkt /\ r.pkt.kind = Stream[1].byte
  /\ r.ret \notin {"None", "Soh", "Stx"} =>
       code = "None" /\ k > 0 /\ r.ret \in Reads(Stream[1])

\* A buffer that is decoded to a packet starts with the first byte of it.
LEMMA DecodeFirst ==
  ASSUME NEW buf \in Seq(Unit), Len(buf) > 0, Decode(buf) # NoPacket
  PROVE  Decode(buf) = buf[1].pkt /\ buf[1].byte = buf[1].pkt.kind
<1> DEFINE p == buf[1].pkt
<1>1. Decode(buf) = p /\ buf = Wire(p)
  BY DEF Decode
<1>2. Wire(p)[1] = [byte |-> p.kind, pkt |-> p, part |-> 1]
  BY FrameUnitsType DEF Wire
<1>3. buf[1].byte = p.kind
  BY <1>1, <1>2
<1> QED BY <1>1, <1>3

\* The same for the rest of a packet that starts with the unit "first": r took
\* k units of "coming".
TakesOn(r, first, coming, k) ==
  /\ r.rest = SubSeq(coming, k + 1, Len(coming))
  /\ r.code # "None" => r.buf[1] = first
  /\ r.pkt # NoPacket => r.pkt = first.pkt /\ r.pkt.kind = first.byte
  /\ r.ret \in {"None", "Soh", "Stx"}

\* Reading on in a packet takes its next units.
LEMMA FillTakes ==
  ASSUME NEW c \in {"Soh", "Stx"}, NEW buf \in Seq(Unit), NEW coming \in Seq(Unit),
         NEW n \in 0 .. Len(coming), Len(buf) \in 1 .. FrameUnits(c)
  PROVE  \E k \in 0 .. Len(coming) : TakesOn(Fill(c, buf, coming, n), buf[1], coming, k)
<1> DEFINE need == FrameUnits(c) - Len(buf)
           k    == IF n < need THEN n ELSE need
           got  == buf \o SubSeq(coming, 1, k)
           rest == SubSeq(coming, k + 1, Len(coming))
           full == k = need
<1>1. FrameUnits(c) \in Nat \ {0} /\ Len(buf) \in Nat /\ Len(coming) \in Nat
  BY FrameUnitsType
<1>2. k \in 0 .. Len(coming)
  BY <1>1
<1>3. SubSeq(coming, 1, k) \in Seq(Unit)
  BY <1>1, <1>2
<1>4. got \in Seq(Unit) /\ Len(got) > 0 /\ got[1] = buf[1]
  BY <1>1, <1>3
<1>5. Fill(c, buf, coming, n) =
        [ret |-> IF full THEN c ELSE "None", code |-> IF full THEN "None" ELSE c,
         buf |-> IF full THEN <<>> ELSE got,
         pkt |-> IF full THEN Decode(got) ELSE NoPacket, rest |-> rest]
  BY DEF Fill
<1>6. Decode(got) # NoPacket => Decode(got) = buf[1].pkt /\ Decode(got).kind = buf[1].byte
  <2> HIDE DEF got
  <2> QED BY <1>4, DecodeFirst
<1>7. TakesOn(Fill(c, buf, coming, n), buf[1], coming, k)
  <2> DEFINE r == Fill(c, buf, coming, n)
  <2> HIDE DEF k, got, full, rest
  <2>1. /\ r.rest = rest /\ r.ret = IF full THEN c ELSE "None"
        /\ r.code = IF full THEN "None" ELSE c
        /\ r.buf = IF full THEN <<>> ELSE got
        /\ r.pkt = IF full THEN Decode(got) ELSE NoPacket
    BY <1>5
  <2> HIDE DEF r
  <2>2. TakesOn(r, buf[1], coming, k)
    BY <2>1, <1>4, <1>6 DEF TakesOn, rest
  <2> QED BY <2>2 DEF r
<1> QED BY <1>2, <1>7

\* Every read takes a beginning of what has arrived.
LEMMA ReadTakes ==
  ASSUME in \in Seq(Unit), rxBuffer \in Seq(Unit), code \in {"None", "Soh", "Stx"},
         PartialPacket, NEW r \in receivePacket
  PROVE  \E k \in 0 .. Len(in) : Takes(r, k)
<1>0. Len(in) \in Nat /\ Late \in {0, 1}
  BY DEF Late
<1>1. CASE code # "None"
  <2>1. PICK n \in Late .. Len(in) : r = Fill(code, rxBuffer, in, n)
    BY <1>1 DEF receivePacket
  <2>2. code \in {"Soh", "Stx"} /\ n \in 0 .. Len(in)
        /\ Len(rxBuffer) \in 1 .. FrameUnits(code)
    BY <1>0, <1>1, FrameUnitsType DEF PartialPacket
  <2>3. Stream # <<>> /\ Stream[1] = rxBuffer[1]
    BY <1>1 DEF Stream
  <2>4. PICK k \in 0 .. Len(in) : TakesOn(r, rxBuffer[1], in, k)
    BY <2>1, <2>2, FillTakes
  <2> QED BY <1>1, <2>3, <2>4 DEF Takes, TakesOn, Begun
<1>2. CASE code = "None"
  <2>0. Stream = in
    BY <1>2 DEF Stream
  <2>1. CASE r = Byte("None", in)
    <3>1. r.rest = SubSeq(in, 0 + 1, Len(in)) /\ r.code = "None" /\ r.pkt = NoPacket
          /\ r.ret = "None"
      BY <2>1, <1>0 DEF Byte
    <3> QED BY <3>1, <1>0 DEF Takes
  <2>2. ASSUME NEW n \in 1 .. Len(in), NEW b \in Reads(Head(in)), r = FirstByte(b, n)
        PROVE  \E k \in 0 .. Len(in) : Takes(r, k)
    <3>1. in # <<>> /\ Head(in) \in Unit /\ Head(in) = in[1] /\ Tail(in) \in Seq(Unit)
          /\ Len(Tail(in)) = Len(in) - 1 /\ Tail(in) = SubSeq(in, 2, Len(in))
      BY <1>0
    <3>2. Begun(1) /\ Stream[1] = in[1]
      BY <2>0, <3>1 DEF Begun
    <3>3. CASE b \in {"Soh", "Stx"}
      <4>1. r = Fill(b, <<in[1]>>, Tail(in), n - 1)
        BY <2>2, <3>1, <3>3 DEF FirstByte
      <4>2. <<in[1]>> \in Seq(Unit) /\ Len(<<in[1]>>) \in 1 .. FrameUnits(b)
            /\ <<in[1]>>[1] = in[1] /\ n - 1 \in 0 .. Len(Tail(in))
        BY <1>0, <3>1, FrameUnitsType
      <4>3. PICK j \in 0 .. Len(Tail(in)) : TakesOn(r, in[1], Tail(in), j)
        BY <3>1, <3>3, <4>1, <4>2, FillTakes
      <4>4. SubSeq(Tail(in), j + 1, Len(Tail(in))) = SubSeq(in, j + 2, Len(in))
        BY <1>0, <3>1, <4>3
      <4>5. j + 1 \in 0 .. Len(in) /\ Begun(j + 1) /\ (j + 1) + 1 = j + 2
        BY <1>0, <3>1, <3>2 DEF Begun
      <4>6. Takes(r, j + 1)
        BY <3>2, <4>3, <4>4, <4>5 DEF Takes, TakesOn
      <4> QED BY <4>5, <4>6
    <3>4. CASE b \notin {"Soh", "Stx"}
      <4>1. r = Byte(b, Tail(in))
        BY <2>2, <3>4 DEF FirstByte
      <4>2. r.rest = SubSeq(in, 1 + 1, Len(in)) /\ r.code = "None" /\ r.pkt = NoPacket
            /\ r.ret = b
        BY <3>1, <4>1 DEF Byte
      <4>3. b \in Reads(Stream[1])
        BY <3>1, <3>2
      <4> QED BY <1>0, <1>2, <3>1, <4>2, <4>3 DEF Takes
    <3> QED BY <3>3, <3>4
  <2> QED BY <1>2, <2>1, <2>2 DEF receivePacket
<1> QED BY <1>1, <1>2

-----------------------------------------------------------------------------
(* The clock, the stages and the statuses *)

\* The clock starts below its limit and stays there until it has expired.
LEMMA ClockStart == 0 \div (TimeDivide + 1) <= TimeMax
<1>1. 0 \div (TimeDivide + 1) = 0
  BY ClockAssumption
<1> QED BY <1>1, ClockAssumption

\* A status ends the session or lets it go on, not both.
LEMMA StatusTypes ==
  /\ {"Establish", "Transmit"} \subseteq Running
  /\ {"Abort", "Timeout", "Error"} \subseteq Terminal \ {"Finish"}
  /\ Running \cap Terminal = {}
BY DEF Running, Terminal

\* The stages that read are not the one that does not.
LEMMA StagesDiffer ==
  /\ StageEstablishing # StageNone /\ StageEstablished # StageNone
  /\ StageTransmitting # StageNone /\ StageFinishing # StageNone
BY DEF StageNone, StageEstablishing, StageEstablished, StageTransmitting, StageFinishing


-----------------------------------------------------------------------------
(* A read of a stream of which nothing is missing *)

\* What was read of a packet and what is on the wire.
Pending == rxBuffer \o in

\* u is a code, or the first unit of a packet, which is so many units long.
Starts(u) == u.part \in {0, 1}
Extent(u) == IF u.part = 0 THEN 1 ELSE FrameUnits(u.pkt.kind)

\* At i, s has a code or a packet, and all of it.
WholeAt(s, i) ==
  /\ i + Extent(s[i]) - 1 <= Len(s)
  /\ s[i].part = 0 => s[i].pkt = NoPacket /\ s[i].byte \in Codes \ {"None", "Soh", "Stx"}
  /\ s[i].part = 1 => /\ s[i].pkt.kind \in {"Soh", "Stx"}
                      /\ \A d \in 1 .. Extent(s[i]) : s[i + d - 1] = Wire(s[i].pkt)[d]

\* A packet is being read if and only if code says so.
Clean == IF code = "None" THEN rxBuffer = <<>>
         ELSE rxBuffer # <<>> /\ rxBuffer[1].part = 1 /\ rxBuffer[1].pkt.kind = code

\* What a read does with such a stream: it leaves it as it is, or it takes all
\* of the packet or of the code that is first.
Leaves(r) == /\ r.ret = "None" /\ r.pkt = NoPacket
             /\ r.buf \o r.rest = Pending
             /\ IF r.code = "None" THEN r.buf = <<>>
                ELSE r.buf # <<>> /\ r.buf[1].part = 1 /\ r.buf[1].pkt.kind = r.code
TakesFirst(r) ==
  /\ Pending # <<>> /\ r.code = "None"
  /\ r.rest = SubSeq(Pending, Extent(Pending[1]) + 1, Len(Pending))
  /\ IF Pending[1].part = 0 THEN r.ret = Pending[1].byte /\ r.pkt = NoPacket
                            ELSE r.ret = Pending[1].pkt.kind /\ r.pkt = Pending[1].pkt

\* A sequence is what it holds.
LEMMA SameSeq ==
  ASSUME NEW S, NEW s \in Seq(S), NEW t \in Seq(S), Len(s) = Len(t),
         \A i \in 1 .. Len(s) : s[i] = t[i]
  PROVE  s = t
OBVIOUS

\* Two sequences, one behind the other.
LEMMA Joined ==
  ASSUME NEW S, NEW a \in Seq(S), NEW b \in Seq(S)
  PROVE  /\ a \o b \in Seq(S) /\ Len(a \o b) = Len(a) + Len(b)
         /\ \A i \in 1 .. Len(a) : (a \o b)[i] = a[i]
         /\ \A i \in 1 .. Len(b) : (a \o b)[Len(a) + i] = b[i]
OBVIOUS

\* A sequence may be cut and put together.
LEMMA CutAndJoined ==
  ASSUME NEW S, NEW a \in Seq(S), NEW b \in Seq(S), NEW k \in 0 .. Len(b)
  PROVE  /\ (a \o SubSeq(b, 1, k)) \o SubSeq(b, k + 1, Len(b)) = a \o b
         /\ SubSeq(b, k + 1, Len(b)) = SubSeq(a \o b, Len(a) + k + 1, Len(a \o b))
<1> DEFINE c == SubSeq(b, 1, k)
           e == SubSeq(b, k + 1, Len(b))
<1>1. /\ c \in Seq(S) /\ Len(c) = k /\ e \in Seq(S) /\ Len(e) = Len(b) - k
      /\ \A i \in 1 .. k : c[i] = b[i]
      /\ \A i \in 1 .. Len(b) - k : e[i] = b[k + i]
  OBVIOUS
<1>2. Len(a) \in Nat /\ Len(b) \in Nat /\ k \in Nat /\ k <= Len(b)
  OBVIOUS
<1> HIDE DEF c, e
<1>3. /\ a \o b \in Seq(S) /\ Len(a \o b) = Len(a) + Len(b)
      /\ \A i \in 1 .. Len(a) : (a \o b)[i] = a[i]
      /\ \A i \in 1 .. Len(b) : (a \o b)[Len(a) + i] = b[i]
  <2>1. a \in Seq(S) /\ b \in Seq(S)
    OBVIOUS
  <2> QED BY ONLY <2>1, Joined
<1>4. /\ a \o c \in Seq(S) /\ Len(a \o c) = Len(a) + k
      /\ \A i \in 1 .. Len(a) : (a \o c)[i] = a[i]
      /\ \A i \in 1 .. k : (a \o c)[Len(a) + i] = c[i]
  <2>1. a \in Seq(S) /\ c \in Seq(S)
    BY <1>1
  <2>2. /\ a \o c \in Seq(S) /\ Len(a \o c) = Len(a) + Len(c)
        /\ \A i \in 1 .. Len(a) : (a \o c)[i] = a[i]
        /\ \A i \in 1 .. Len(c) : (a \o c)[Len(a) + i] = c[i]
    BY ONLY <2>1, Joined
  <2> QED BY <1>1, <2>2
<1> DEFINE f == a \o c
<1>5. /\ f \in Seq(S) /\ Len(f) = Len(a) + k
      /\ \A i \in 1 .. Len(a) : f[i] = a[i]
      /\ \A i \in 1 .. k : f[Len(a) + i] = c[i]
  BY ONLY <1>4 DEF f
<1> HIDE DEF f
<1>6. /\ f \o e \in Seq(S) /\ Len(f \o e) = Len(a) + Len(b)
      /\ \A i \in 1 .. Len(f) : (f \o e)[i] = f[i]
      /\ \A i \in 1 .. Len(e) : (f \o e)[Len(f) + i] = e[i]
  <2>1. f \in Seq(S) /\ e \in Seq(S)
    BY <1>1, <1>5
  <2>2. /\ f \o e \in Seq(S) /\ Len(f \o e) = Len(f) + Len(e)
        /\ \A i \in 1 .. Len(f) : (f \o e)[i] = f[i]
        /\ \A i \in 1 .. Len(e) : (f \o e)[Len(f) + i] = e[i]
    BY ONLY <2>1, Joined
  <2>3. Len(f) + Len(e) = Len(a) + Len(b)
    BY <1>1, <1>2, <1>5
  <2> QED BY ONLY <2>2, <2>3
<1>7. \A i \in 1 .. Len(a) + Len(b) : (f \o e)[i] = (a \o b)[i]
  <2> SUFFICES ASSUME NEW i \in 1 .. Len(a) + Len(b) PROVE (f \o e)[i] = (a \o b)[i]
    OBVIOUS
  <2>1. CASE i <= Len(a)
    <3>1. i \in 1 .. Len(a) /\ i \in 1 .. Len(f)
      BY <1>2, <1>5, <2>1
    <3> QED BY <1>3, <1>5, <1>6, <3>1
  <2>2. CASE ~(i <= Len(a)) /\ i <= Len(a) + k
    <3>1. PICK j : j = i - Len(a)
      OBVIOUS
    <3>2. j \in 1 .. k /\ j \in 1 .. Len(b) /\ i \in 1 .. Len(f) /\ Len(a) + j = i
      BY <1>2, <1>5, <2>2, <3>1
    <3> QED BY <1>1, <1>3, <1>5, <1>6, <3>2
  <2>3. CASE ~(i <= Len(a) + k)
    <3>1. PICK j : j = i - (Len(a) + k)
      OBVIOUS
    <3>2. j \in 1 .. Len(b) - k /\ j \in 1 .. Len(e) /\ k + j \in 1 .. Len(b)
          /\ Len(f) + j = i /\ Len(a) + (k + j) = i
      BY <1>1, <1>2, <1>5, <2>3, <3>1
    <3>3. (f \o e)[i] = e[j]
      BY ONLY <1>6, <3>2
    <3>4. (a \o b)[i] = b[k + j]
      BY ONLY <1>3, <3>2
    <3>5. e[j] = b[k + j]
      BY ONLY <1>1, <3>2
    <3> QED BY ONLY <3>3, <3>4, <3>5
  <2> QED BY <1>2, <2>1, <2>2, <2>3
<1>8. f \o e = a \o b
  BY ONLY <1>3, <1>6, <1>7, SameSeq
<1>9. e = SubSeq(a \o b, Len(a) + k + 1, Len(a \o b))
  BY DEF e
<1> QED BY <1>8, <1>9 DEF f, c, e

\* The first units of a packet that is whole are the packet.
LEMMA WholeRead ==
  ASSUME NEW s \in Seq(Unit), s # <<>>, s[1].part = 1, WholeAt(s, 1)
  PROVE  /\ FrameUnits(s[1].pkt.kind) \in 1 .. Len(s)
         /\ s[1].byte = s[1].pkt.kind
         /\ \A got \in Seq(Unit) :
              /\ Len(got) = FrameUnits(s[1].pkt.kind)
              /\ \A i \in 1 .. Len(got) : got[i] = s[i]
              => Decode(got) = s[1].pkt
<1> DEFINE p == s[1].pkt
           m == FrameUnits(p.kind)
<1>1. /\ m \in Nat \ {0} /\ Len(s) \in Nat
      /\ 1 + m - 1 <= Len(s)
      /\ \A d \in 1 .. m : s[1 + d - 1] = Wire(p)[d]
  BY FrameUnitsType DEF WholeAt, Extent
<1>2. m \in 1 .. Len(s) /\ \A d \in 1 .. m : s[d] = Wire(p)[d]
  <2>1. m \in 1 .. Len(s)
    BY ONLY <1>1
  <2>2. \A d \in 1 .. m : 1 + d - 1 = d
    BY <1>1
  <2> QED BY <1>1, <2>1, <2>2
<1>3. p \in Packet
  <2>1. s[1] \in Unit
    BY <1>1, <1>2
  <2> QED BY <2>1 DEF Unit
<1>4. Wire(p) \in Seq(Unit) /\ Len(Wire(p)) = m /\ Wire(p)[1].byte = p.kind
  <2>1. Wire(p) \in Seq(Unit)
    BY <1>3, WireType
  <2> QED BY <1>1, <2>1 DEF Wire
<1>5. ASSUME NEW got \in Seq(Unit), Len(got) = m, \A i \in 1 .. Len(got) : got[i] = s[i]
      PROVE  Decode(got) = p
  <2>1. \A i \in 1 .. Len(got) : got[i] = Wire(p)[i]
    BY <1>2, <1>5
  <2>2. got = Wire(p)
    BY ONLY <1>4, <1>5, <2>1, SameSeq
  <2>3. got[1].pkt = p
    BY <1>1, <1>5
  <2> QED BY <2>2, <2>3 DEF Decode
<1>6. s[1].byte = p.kind
  BY <1>1, <1>2, <1>4
<1> QED BY <1>2, <1>5, <1>6


\* Reading on in a packet that is whole leaves it as it is, or takes all of it.
LEMMA FillWhole ==
  ASSUME NEW c \in {"Soh", "Stx"}, NEW buf \in Seq(Unit), NEW coming \in Seq(Unit),
         NEW n \in 0 .. Len(coming), Len(buf) \in 1 .. FrameUnits(c),
         buf[1].part = 1, buf[1].pkt.kind = c, Pending = buf \o coming,
         WholeAt(Pending, 1)
  PROVE  Leaves(Fill(c, buf, coming, n)) \/ TakesFirst(Fill(c, buf, coming, n))
<1> DEFINE need == FrameUnits(c) - Len(buf)
           k    == IF n < need THEN n ELSE need
           got  == buf \o SubSeq(coming, 1, k)
           rest == SubSeq(coming, k + 1, Len(coming))
           full == k = need
           r    == Fill(c, buf, coming, n)
<1>1. FrameUnits(c) \in Nat \ {0} /\ Len(buf) \in Nat /\ Len(coming) \in Nat
      /\ Len(buf) >= 1 /\ need \in Nat
  BY FrameUnitsType
<1>2. k \in 0 .. Len(coming) /\ k <= need
  BY <1>1
<1>3. /\ r.rest = rest /\ r.ret = IF full THEN c ELSE "None"
      /\ r.code = IF full THEN "None" ELSE c
      /\ r.buf = IF full THEN <<>> ELSE got
      /\ r.pkt = IF full THEN Decode(got) ELSE NoPacket
  BY DEF Fill
<1>4. got \o rest = Pending /\ rest = SubSeq(Pending, Len(buf) + k + 1, Len(Pending))
  BY <1>2, CutAndJoined
<1>5. /\ Pending \in Seq(Unit) /\ Len(Pending) = Len(buf) + Len(coming)
      /\ \A i \in 1 .. Len(buf) : Pending[i] = buf[i]
      /\ \A i \in 1 .. Len(coming) : Pending[Len(buf) + i] = coming[i]
  BY Joined
<1>6. /\ SubSeq(coming, 1, k) \in Seq(Unit) /\ Len(SubSeq(coming, 1, k)) = k
      /\ \A i \in 1 .. k : SubSeq(coming, 1, k)[i] = coming[i]
  BY <1>1, <1>2
<1>7. /\ got \in Seq(Unit) /\ Len(got) = Len(buf) + k
      /\ \A i \in 1 .. Len(buf) : got[i] = buf[i]
      /\ \A i \in 1 .. k : got[Len(buf) + i] = coming[i]
  BY <1>6, Joined
<1> HIDE DEF need, k, got, rest, full, r
<1>8. Pending[1] = buf[1] /\ Pending # <<>> /\ Len(Pending) \in Nat
  BY <1>1, <1>5
<1>9. ASSUME ~full PROVE Leaves(r)
  <2>1. got # <<>> /\ got[1] = buf[1]
    BY <1>1, <1>2, <1>7
  <2> QED BY <1>3, <1>4, <1>9, <2>1 DEF Leaves
<1>10. ASSUME full PROVE TakesFirst(r)
  <2>1. Len(got) = FrameUnits(c) /\ Len(buf) + k = FrameUnits(c)
    BY <1>1, <1>7, <1>10 DEF full, need
  <2>2. \A i \in 1 .. Len(got) : got[i] = Pending[i]
    <3> SUFFICES ASSUME NEW i \in 1 .. Len(got) PROVE got[i] = Pending[i]
      OBVIOUS
    <3>1. CASE i <= Len(buf)
      <4>1. i \in 1 .. Len(buf)
        BY <1>1, <3>1
      <4> QED BY <1>5, <1>7, <4>1
    <3>2. CASE ~(i <= Len(buf))
      <4>1. PICK j : j = i - Len(buf)
        OBVIOUS
      <4>2. j \in 1 .. k /\ j \in 1 .. Len(coming) /\ Len(buf) + j = i
        BY <1>1, <1>2, <1>7, <3>2, <4>1
      <4> QED BY <1>5, <1>7, <4>2
    <3> QED BY <3>1, <3>2
  <2>3. Decode(got) = Pending[1].pkt
    <3>1. Pending[1].pkt.kind = c /\ Pending[1].part = 1
      BY <1>8
    <3>2. Pending \in Seq(Unit) /\ Pending # <<>> /\ WholeAt(Pending, 1)
      BY <1>5, <1>8
    <3>3. \A w \in Seq(Unit) :
            Len(w) = FrameUnits(c) /\ (\A i \in 1 .. Len(w) : w[i] = Pending[i])
            => Decode(w) = Pending[1].pkt
      BY <3>1, <3>2, WholeRead
    <3> QED BY <1>7, <2>1, <2>2, <3>3
  <2>4. Extent(Pending[1]) = FrameUnits(c)
    BY <1>8 DEF Extent
  <2>5. rest = SubSeq(Pending, Extent(Pending[1]) + 1, Len(Pending))
    BY <1>4, <2>1, <2>4
  <2> QED BY <1>3, <1>8, <1>10, <2>3, <2>5 DEF TakesFirst
<1> QED BY <1>9, <1>10 DEF r

\* So does every read of a stream that starts with a packet or a code that is whole.
LEMMA ReadWhole ==
  ASSUME in \in Seq(Unit), rxBuffer \in Seq(Unit), code \in {"None", "Soh", "Stx"},
         PartialPacket, Clean,
         Pending # <<>> => Starts(Pending[1]) /\ WholeAt(Pending, 1),
         NEW r \in receivePacket
  PROVE  Leaves(r) \/ TakesFirst(r)
<1>0. Len(in) \in Nat /\ Late \in {0, 1}
  BY DEF Late
<1>1. CASE code # "None"
  <2>1. PICK n \in Late .. Len(in) : r = Fill(code, rxBuffer, in, n)
    BY <1>1 DEF receivePacket
  <2>2. code \in {"Soh", "Stx"} /\ n \in 0 .. Len(in)
        /\ Len(rxBuffer) \in 1 .. FrameUnits(code)
    BY <1>0, <1>1, FrameUnitsType DEF PartialPacket
  <2>3. Pending = rxBuffer \o in /\ Pending # <<>>
    <3>1. Pending = rxBuffer \o in
      BY DEF Pending
    <3>2. Len(rxBuffer \o in) = Len(rxBuffer) + Len(in)
      OBVIOUS
    <3>3. Len(rxBuffer) \in Nat /\ Len(rxBuffer) >= 1
      BY <2>2
    <3>4. Len(Pending) # 0
      BY <1>0, <3>1, <3>2, <3>3
    <3> QED BY <3>1, <3>4
  <2>4. rxBuffer[1].part = 1 /\ rxBuffer[1].pkt.kind = code
    BY <1>1 DEF Clean
  <2> QED BY <2>1, <2>2, <2>3, <2>4, FillWhole
<1>2. CASE code = "None"
  <2>0. Pending = in
    BY <1>2 DEF Clean, Pending
  <2>1. CASE r = Byte("None", in)
    <3>1. <<>> \o in = in
      OBVIOUS
    <3> QED BY <2>0, <2>1, <3>1 DEF Byte, Leaves
  <2>2. ASSUME NEW n \in 1 .. Len(in), NEW b \in Reads(Head(in)), r = FirstByte(b, n)
        PROVE  Leaves(r) \/ TakesFirst(r)
    <3>1. in # <<>> /\ Head(in) \in Unit /\ Head(in) = in[1] /\ Tail(in) \in Seq(Unit)
          /\ Len(Tail(in)) = Len(in) - 1 /\ Tail(in) = SubSeq(in, 2, Len(in))
          /\ <<Head(in)>> \o Tail(in) = in
      BY <1>0
    <3>2. Starts(in[1]) /\ WholeAt(in, 1)
      BY <2>0, <3>1
    <3>3. CASE in[1].part = 1
      <4>1. in[1].byte = in[1].pkt.kind /\ in[1].pkt.kind \in {"Soh", "Stx"}
        BY <3>1, <3>2, <3>3, WholeRead DEF WholeAt
      <4>2. b = in[1].pkt.kind /\ r = Fill(b, <<in[1]>>, Tail(in), n - 1)
        BY <2>2, <3>1, <4>1 DEF Reads, FirstByte
      <4>3. <<in[1]>> \in Seq(Unit) /\ Len(<<in[1]>>) \in 1 .. FrameUnits(b)
            /\ <<in[1]>>[1] = in[1] /\ n - 1 \in 0 .. Len(Tail(in))
            /\ Pending = <<in[1]>> \o Tail(in)
        BY <1>0, <2>0, <3>1, FrameUnitsType
      <4> QED BY <2>0, <3>1, <3>2, <3>3, <4>1, <4>2, <4>3, FillWhole
    <3>4. CASE in[1].part = 0
      <4>1. b = in[1].byte /\ b \notin {"Soh", "Stx"}
        BY <2>2, <3>1, <3>2, <3>4 DEF WholeAt, Reads, Codes
      <4>2. r = Byte(b, Tail(in))
        BY <2>2, <4>1 DEF FirstByte
      <4>3. Extent(Pending[1]) + 1 = 2
        BY <2>0, <3>4 DEF Extent
      <4> QED BY <2>0, <3>1, <3>4, <4>1, <4>2, <4>3 DEF Byte, TakesFirst
    <3> QED BY <3>2, <3>3, <3>4 DEF Starts
  <2> QED BY <1>2, <2>1, <2>2 DEF receivePacket
<1> QED BY <1>1, <1>2

\* A read of a stream that starts with a code returns it, or nothing yet.
LEMMA ReadCode ==
  ASSUME in \in Seq(Unit), code = "None",
         in # <<>> => in[1].byte \notin {"Soh", "Stx", "Data"},
         NEW r \in receivePacket
  PROVE  \/ r = Byte("None", in)
         \/ in # <<>> /\ r = Byte(in[1].byte, Tail(in))
<1>1. CASE r = Byte("None", in)
  BY <1>1
<1>2. ASSUME NEW n \in 1 .. Len(in), NEW b \in Reads(Head(in)), r = FirstByte(b, n)
      PROVE  in # <<>> /\ r = Byte(in[1].byte, Tail(in))
  <2>1. in # <<>> /\ Head(in) = in[1]
    OBVIOUS
  <2>2. b = in[1].byte /\ b \notin {"Soh", "Stx"}
    BY <1>2, <2>1 DEF Reads
  <2> QED BY <1>2, <2>1, <2>2 DEF FirstByte
<1> QED BY <1>1, <1>2 DEF receivePacket

\* A packet is returned with the code that it starts with.
LEMMA PacketHasRet ==
  ASSUME code \in {"None", "Soh", "Stx"}, NEW r \in receivePacket
  PROVE  r.pkt = NoPacket \/ r.ret \in {"Soh", "Stx"}
<1>1. \A c \in {"Soh", "Stx"} : \A buf, coming, n :
        LET f == Fill(c, buf, coming, n) IN f.pkt = NoPacket \/ f.ret \in {"Soh", "Stx"}
  BY DEF Fill
<1>2. \A b, coming : Byte(b, coming).pkt = NoPacket
  BY DEF Byte
<1>3. CASE code # "None"
  BY <1>1, <1>3 DEF receivePacket
<1>4. CASE code = "None"
  <2>1. \A b, n : FirstByte(b, n).pkt = NoPacket \/ FirstByte(b, n).ret \in {"Soh", "Stx"}
    BY <1>1, <1>2 DEF FirstByte
  <2> QED BY <1>2, <1>4, <2>1 DEF receivePacket
<1> QED BY <1>3, <1>4

\* What a poll makes of such a stream when the read left it as it is, and when
\* it took the first packet or code.
LEMMA KeptAndTaken ==
  ASSUME in \in Seq(Unit), rxBuffer \in Seq(Unit), NEW r, Poll(r)
  PROVE  /\ Leaves(r) /\ code' = r.code => Pending' = Pending /\ Clean'
         /\ TakesFirst(r) /\ code' = "None" =>
              Clean' /\ Pending' = SubSeq(Pending, Extent(Pending[1]) + 1, Len(Pending))
<1>1. ASSUME Leaves(r), code' = r.code PROVE Pending' = Pending /\ Clean'
  <2>1. rxBuffer' = r.buf /\ in' = r.rest
    BY <1>1 DEF Poll, Leaves
  <2>2. Pending' = r.buf \o r.rest
    BY <2>1 DEF Pending
  <2> QED BY <1>1, <2>1, <2>2 DEF Leaves, Clean
<1>2. ASSUME TakesFirst(r), code' = "None"
      PROVE  Clean' /\ Pending' = SubSeq(Pending, Extent(Pending[1]) + 1, Len(Pending))
  <2> DEFINE rest == SubSeq(Pending, Extent(Pending[1]) + 1, Len(Pending))
  <2>1. rxBuffer' = <<>> /\ in' = rest
    BY <1>2 DEF Poll, TakesFirst
  <2>2. Pending \in Seq(Unit) /\ Extent(Pending[1]) \in Nat
    <3>1. Pending \in Seq(Unit)
      BY Joined DEF Pending
    <3>2. Extent(Pending[1]) \in Nat
      BY FrameUnitsType DEF Extent
    <3> QED BY <3>1, <3>2
  <2>3. rest \in Seq(Unit)
    BY <2>2
  <2>4. Pending' = <<>> \o rest
    BY <2>1 DEF Pending
  <2> HIDE DEF rest
  <2>5. <<>> \o rest = rest
    BY <2>3
  <2>6. Clean'
    BY <1>2, <2>1 DEF Clean
  <2> QED BY <2>4, <2>5, <2>6 DEF rest
<1> QED BY <1>1, <1>2


=============================================================================
