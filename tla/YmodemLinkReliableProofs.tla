----------------------- MODULE YmodemLinkReliableProofs -----------------------
(***************************************************************************)
(* The promise of FileTransfer, kept over a cable that loses and damages   *)
(* nothing, however late it is.                                            *)
(*                                                                         *)
(* YmodemLinkProofs says in which order units come; that alone would allow *)
(* a gap.  Here each packet or code that waits in the receiver follows the *)
(* one before it in the sender's program (Follows), the first follows what *)
(* the receiver took last, and the last is what the sender wrote last.  So *)
(* a block whose number is due is the one that begins where the file on    *)
(* disk ends, and EOT comes to a file that is complete.                    *)
(***************************************************************************)
EXTENDS YmodemLinkProofs

-----------------------------------------------------------------------------
(* A cable that loses nothing *)

\* v may be the next packet or code that the transmitter of a file of that size
\* writes after u: the same again, or what an answer to u makes it send.
Follows(size, u, v) ==
  \/ u = v
  \/ Rank(v) = 4
  \/ Rank(u) = 0 /\ Rank(v) = 1 /\ v.pkt = TxP!Block(1, 0, size)
  \/ Rank(u) = 0 /\ Rank(v) = 2 /\ size = 0
  \/ /\ Rank(u) = 1 /\ Rank(v) = 1
     /\ LET end == u.pkt.from + u.pkt.n
        IN v.pkt = TxP!Block(TxP!NextNum(u.pkt.num), end, size - end)
  \/ Rank(u) = 1 /\ Rank(v) = 2 /\ u.pkt.from + u.pkt.n = size
  \/ Rank(u) = 2 /\ Rank(v) = 3

\* s is made of whole packets and codes that follow each other.
Behind(s, i) == i + RxP!Extent(s[i])
Framed(size, s) ==
  /\ s # <<>> => RxP!Starts(s[1])
  /\ \A i \in 1 .. Len(s) : RxP!Starts(s[i]) =>
       /\ RxP!WholeAt(s, i)
       /\ Behind(s, i) <= Len(s) => /\ RxP!Starts(s[Behind(s, i)])
                                    /\ Follows(size, s[i], s[Behind(s, i)])

\* The last packet or code of s starts at i.
Ends(s, i) == RxP!Starts(s[i]) /\ Behind(s, i) = Len(s) + 1

\* t ends in what w ends in.
EndsLike(t, w) == \A i \in 1 .. Len(t) : Ends(t, i) =>
                    \E j \in 1 .. Len(w) : Ends(w, j) /\ t[i] = w[j]

\* What follows comes no earlier in the order of a transfer.
LEMMA FollowsRank == \A size, u, v : Follows(size, u, v) => Rank(u) <= Rank(v)
BY RankType DEF Follows

\* A packet or code takes up at least a unit.
LEMMA ExtentType == \A u : RxP!Extent(u) \in Nat \ {0}
<1>1. \A c : RxP!FrameUnits(c) \in Nat \ {0}
  BY RxP!FrameUnitsType, ProgramAssumption, CodesHere
<1> QED BY <1>1 DEF RxP!Extent

\* What is left when the first packet or code is taken.
LEMMA CutFramed ==
  ASSUME NEW size, NEW s \in Seq(RxP!Unit), s # <<>>, Framed(size, s),
         NEW t, t = SubSeq(s, RxP!Extent(s[1]) + 1, Len(s))
  PROVE  /\ Framed(size, t)
         /\ t # <<>> => Follows(size, s[1], t[1])
         /\ t = <<>> => Ends(s, 1)
         /\ EndsLike(t, s)
<1> DEFINE e == RxP!Extent(s[1])
<1>1. e \in Nat \ {0} /\ Len(s) \in Nat /\ Len(s) >= 1 /\ 1 \in 1 .. Len(s)
  BY ExtentType
<1>2. RxP!Starts(s[1]) /\ 1 + e - 1 <= Len(s) /\ Behind(s, 1) = e + 1
  <2>1. Behind(s, 1) = 1 + e
    BY DEF Behind
  <2>2. RxP!Starts(s[1]) /\ RxP!WholeAt(s, 1)
    BY <1>1 DEF Framed
  <2>3. 1 + e - 1 <= Len(s)
    BY ONLY <2>2 DEF RxP!WholeAt, e
  <2>4. 1 + e = e + 1
    BY ONLY <1>1
  <2> QED BY ONLY <2>1, <2>2, <2>3, <2>4
<1> HIDE DEF e
<1>3. e <= Len(s)
  BY ONLY <1>1, <1>2
<1>4. /\ t \in Seq(RxP!Unit) /\ Len(t) = Len(s) - e
      /\ \A i \in 1 .. Len(t) : t[i] = s[i + e]
  BY <1>1, <1>3 DEF e
<1>11. /\ e \in Nat \ {0} /\ Len(s) \in Nat /\ Len(t) \in Nat /\ Len(t) = Len(s) - e
      /\ Len(t) + e = Len(s)
  <2>1. Len(t) = Len(s) - e /\ e <= Len(s) /\ e \in Nat \ {0} /\ Len(s) \in Nat
    BY ONLY <1>1, <1>3, <1>4
  <2> QED BY ONLY <2>1
<1>5. ASSUME NEW i \in 1 .. Len(t)
      PROVE  i + e \in 1 .. Len(s) /\ Behind(s, i + e) = Behind(t, i) + e
             /\ RxP!Extent(t[i]) = RxP!Extent(s[i + e])
             /\ Behind(t, i) = i + RxP!Extent(t[i]) /\ RxP!Extent(t[i]) \in Nat \ {0}
  <2>1. i + e \in 1 .. Len(s) /\ t[i] = s[i + e]
    BY <1>1, <1>3, <1>4
  <2>2. RxP!Extent(t[i]) \in Nat \ {0} /\ i \in 1 .. Len(t) /\ Len(t) \in Nat
    <3>1. RxP!Extent(t[i]) \in Nat \ {0}
      BY ExtentType
    <3>2. i \in 1 .. Len(t)
      OBVIOUS
    <3> QED BY ONLY <1>11, <3>1, <3>2
  <2>3. Behind(t, i) = i + RxP!Extent(t[i]) /\ Behind(s, i + e) = (i + e) + RxP!Extent(t[i])
    BY ONLY <2>1 DEF Behind
  <2> QED BY ONLY <1>1, <2>1, <2>2, <2>3
<1>6. t # <<>> => RxP!Starts(t[1]) /\ Follows(size, s[1], t[1])
  <2> SUFFICES ASSUME t # <<>> PROVE RxP!Starts(t[1]) /\ Follows(size, s[1], t[1])
    OBVIOUS
  <2>0. Len(t) # 0
    BY <1>4
  <2>1. 1 \in 1 .. Len(t) /\ e + 1 <= Len(s) /\ 1 + e = e + 1
    BY ONLY <1>11, <2>0
  <2>2. t[1] = s[e + 1]
    BY <1>4, <2>1
  <2> QED BY <1>1, <1>2, <2>1, <2>2 DEF Framed
<1>7. ASSUME NEW i \in 1 .. Len(t), RxP!Starts(t[i])
      PROVE  /\ RxP!WholeAt(t, i)
             /\ Behind(t, i) <= Len(t) => /\ RxP!Starts(t[Behind(t, i)])
                                          /\ Follows(size, t[i], t[Behind(t, i)])
  <2>1. /\ i + e \in 1 .. Len(s) /\ t[i] = s[i + e]
        /\ Behind(s, i + e) = Behind(t, i) + e
        /\ Behind(t, i) = i + RxP!Extent(t[i]) /\ RxP!Extent(t[i]) \in Nat \ {0}
    BY <1>4, <1>5
  <2>2. /\ RxP!WholeAt(s, i + e)
        /\ Behind(s, i + e) <= Len(s) =>
             /\ RxP!Starts(s[Behind(s, i + e)])
             /\ Follows(size, s[i + e], s[Behind(s, i + e)])
    BY <1>7, <2>1 DEF Framed
  <2>3. (i + e) + RxP!Extent(t[i]) - 1 <= Len(s)
    BY ONLY <2>1, <2>2 DEF RxP!WholeAt
  <2>6. i \in Nat \ {0}
    OBVIOUS
  <2>4. RxP!WholeAt(t, i)
    <3>1. i + RxP!Extent(t[i]) - 1 <= Len(t)
      BY ONLY <1>1, <1>4, <2>1, <2>3, <2>6
    <3>2. ASSUME NEW d \in 1 .. RxP!Extent(t[i])
          PROVE  t[i + d - 1] = s[(i + e) + d - 1]
      <4>1. i + d - 1 \in 1 .. Len(t) /\ (i + d - 1) + e = (i + e) + d - 1
        BY ONLY <1>1, <1>4, <2>1, <2>6, <3>1, <3>2
      <4> QED BY <1>4, <4>1
    <3> QED BY <2>1, <2>2, <3>1, <3>2 DEF RxP!WholeAt
  <2>5. ASSUME Behind(t, i) <= Len(t)
        PROVE  RxP!Starts(t[Behind(t, i)]) /\ Follows(size, t[i], t[Behind(t, i)])
    <3>1. Behind(t, i) \in 1 .. Len(t) /\ Behind(s, i + e) <= Len(s)
      BY ONLY <1>1, <1>4, <2>1, <2>5, <2>6
    <3>2. t[Behind(t, i)] = s[Behind(s, i + e)]
      BY <1>4, <2>1, <3>1
    <3> QED BY <2>1, <2>2, <3>1, <3>2
  <2> QED BY <2>4, <2>5
<1>8. t = <<>> => Ends(s, 1)
  <2> SUFFICES ASSUME t = <<>> PROVE Ends(s, 1)
    OBVIOUS
  <2>0. t = <<>>
    OBVIOUS
  <2>1. Len(t) = 0
    BY ONLY <2>0
  <2>2. Behind(s, 1) = Len(s) + 1
    BY ONLY <1>11, <1>2, <2>1
  <2> QED BY <1>2, <2>2 DEF Ends
<1>9. ASSUME NEW i \in 1 .. Len(t), Ends(t, i)
      PROVE  \E j \in 1 .. Len(s) : Ends(s, j) /\ t[i] = s[j]
  <2>1. i + e \in 1 .. Len(s) /\ t[i] = s[i + e] /\ Behind(s, i + e) = Behind(t, i) + e
    BY <1>4, <1>5
  <2>2. Behind(t, i) = Len(t) + 1 /\ RxP!Starts(t[i])
    BY <1>9 DEF Ends
  <2>3. Behind(s, i + e) = Len(s) + 1
    BY ONLY <1>1, <1>4, <2>1, <2>2
  <2> QED BY <2>1, <2>2, <2>3 DEF Ends
<1> QED BY <1>6, <1>7, <1>8, <1>9 DEF Framed, EndsLike

\* What is written follows the last of what is on its way.
LEMMA AppendFramed ==
  ASSUME NEW size, NEW s \in Seq(RxP!Unit), NEW w \in Seq(RxP!Unit), w # <<>>,
         Framed(size, s), Framed(size, w),
         \A i \in 1 .. Len(s) : Ends(s, i) => Follows(size, s[i], w[1]),
         NEW t, t = s \o w
  PROVE  /\ Framed(size, t) /\ t # <<>> /\ t[1] = IF s = <<>> THEN w[1] ELSE s[1]
         /\ EndsLike(t, w)
<1> DEFINE e == Len(s)
<1>1. /\ t \in Seq(RxP!Unit) /\ Len(t) = e + Len(w)
      /\ \A i \in 1 .. e : t[i] = s[i]
      /\ \A i \in 1 .. Len(w) : t[e + i] = w[i]
  <2>1. s \in Seq(RxP!Unit) /\ w \in Seq(RxP!Unit) /\ t = s \o w
    OBVIOUS
  <2> QED BY ONLY <2>1, Appended
<1>2. e \in Nat /\ Len(w) \in Nat /\ Len(w) >= 1 /\ (s = <<>> <=> e = 0)
  OBVIOUS
<1>3. \A i \in 1 .. e : i \in 1 .. Len(s)
  OBVIOUS
<1> HIDE DEF e
<1>4. t # <<>> /\ t[1] = IF s = <<>> THEN w[1] ELSE s[1]
  <2>1. t # <<>>
    BY <1>1, <1>2
  <2>2. CASE e = 0
    <3>1. e + 1 = 1 /\ 1 \in 1 .. Len(w)
      BY <1>2, <2>2
    <3> QED BY <1>1, <1>2, <2>1, <2>2, <3>1
  <2>3. CASE e # 0
    <3>1. 1 \in 1 .. e
      BY <1>2, <2>3
    <3> QED BY <1>1, <1>2, <2>1, <2>3, <3>1
  <2> QED BY <2>2, <2>3
<1>5. ASSUME NEW i \in 1 .. e, RxP!Starts(t[i])
      PROVE  /\ RxP!WholeAt(t, i) /\ ~Ends(t, i)
             /\ Behind(t, i) <= Len(t) => /\ RxP!Starts(t[Behind(t, i)])
                                          /\ Follows(size, t[i], t[Behind(t, i)])
  <2>1. t[i] = s[i] /\ i \in 1 .. Len(s)
    BY <1>1, <1>3
  <2>2. /\ Behind(t, i) = Behind(s, i) /\ Behind(s, i) = i + RxP!Extent(t[i])
        /\ RxP!Extent(t[i]) \in Nat \ {0} /\ RxP!Extent(s[i]) = RxP!Extent(t[i])
    BY <2>1, ExtentType DEF Behind
  <2>3. /\ RxP!WholeAt(s, i)
        /\ Behind(s, i) <= Len(s) => /\ RxP!Starts(s[Behind(s, i)])
                                     /\ Follows(size, s[i], s[Behind(s, i)])
    BY <1>5, <2>1 DEF Framed
  <2>4. i + RxP!Extent(t[i]) - 1 <= e
    BY <2>1, <2>3 DEF RxP!WholeAt, e
  <2>5. RxP!WholeAt(t, i)
    <3>1. i + RxP!Extent(t[i]) - 1 <= Len(t)
      BY <1>1, <1>2, <2>2, <2>4
    <3>2. ASSUME NEW d \in 1 .. RxP!Extent(t[i]) PROVE t[i + d - 1] = s[i + d - 1]
      <4>1. i + d - 1 \in 1 .. e
        BY ONLY <1>2, <1>5, <2>2, <2>4, <3>2
      <4> QED BY <1>1, <4>1
    <3> QED BY <2>1, <2>3, <3>1, <3>2 DEF RxP!WholeAt
  <2>6. ~Ends(t, i)
    BY <1>1, <1>2, <2>2, <2>4 DEF Ends
  <2>7. CASE Behind(s, i) <= e
    <3>1. Behind(s, i) \in 1 .. e
      BY ONLY <1>2, <1>5, <2>2, <2>7
    <3>2. t[Behind(t, i)] = s[Behind(s, i)]
      BY <1>1, <2>2, <3>1
    <3>3. Behind(s, i) <= Len(s)
      BY <2>7 DEF e
    <3> QED BY <2>1, <2>3, <2>5, <2>6, <3>2, <3>3
  <2>8. CASE ~(Behind(s, i) <= e)
    <3>0. /\ i \in Nat /\ e \in Nat /\ RxP!Extent(t[i]) \in Nat \ {0}
          /\ Behind(s, i) = i + RxP!Extent(t[i]) /\ Len(w) \in Nat /\ Len(w) >= 1
      BY ONLY <1>2, <1>5, <2>2
    <3>1. Behind(s, i) = e + 1 /\ 1 \in 1 .. Len(w)
      BY ONLY <2>4, <2>8, <3>0
    <3>2. t[Behind(t, i)] = w[1]
      BY <1>1, <2>2, <3>1
    <3>3. Ends(s, i)
      BY <1>5, <2>1, <3>1 DEF Ends, e
    <3>4. Follows(size, s[i], w[1])
      BY <2>1, <3>3
    <3>5. RxP!Starts(w[1])
      BY DEF Framed
    <3> QED BY <2>1, <2>5, <2>6, <3>2, <3>4, <3>5
  <2> QED BY <2>7, <2>8
<1>6. ASSUME NEW i \in 1 .. Len(t), ~(i <= e)
      PROVE  \E j \in 1 .. Len(w) : i = e + j
  <2>1. PICK j : j = i - e
    OBVIOUS
  <2> QED BY <1>1, <1>2, <1>6, <2>1
<1>7. ASSUME NEW j \in 1 .. Len(w), NEW i, i = e + j
      PROVE  /\ t[i] = w[j]
             /\ Ends(t, i) => Ends(w, j)
             /\ RxP!Starts(t[i]) =>
                  /\ RxP!WholeAt(t, i)
                  /\ Behind(t, i) <= Len(t) => /\ RxP!Starts(t[Behind(t, i)])
                                               /\ Follows(size, t[i], t[Behind(t, i)])
  <2>1. t[i] = w[j]
    BY <1>1, <1>7
  <2>2. /\ Behind(t, i) = e + Behind(w, j) /\ Behind(w, j) = j + RxP!Extent(t[i])
        /\ RxP!Extent(t[i]) \in Nat \ {0}
    <3>1. RxP!Extent(t[i]) \in Nat \ {0}
      BY ExtentType
    <3> QED BY <1>2, <1>7, <2>1, <3>1 DEF Behind
  <2>3. Ends(t, i) => Ends(w, j)
    BY <1>1, <1>2, <2>1, <2>2 DEF Ends
  <2> SUFFICES ASSUME RxP!Starts(t[i])
               PROVE  /\ RxP!WholeAt(t, i)
                      /\ Behind(t, i) <= Len(t) => /\ RxP!Starts(t[Behind(t, i)])
                                                   /\ Follows(size, t[i], t[Behind(t, i)])
    BY <2>1, <2>3
  <2>4. /\ RxP!WholeAt(w, j)
        /\ Behind(w, j) <= Len(w) => /\ RxP!Starts(w[Behind(w, j)])
                                     /\ Follows(size, w[j], w[Behind(w, j)])
    BY <2>1 DEF Framed
  <2>5. j + RxP!Extent(t[i]) - 1 <= Len(w)
    BY <2>1, <2>4 DEF RxP!WholeAt
  <2>6. RxP!WholeAt(t, i)
    <3>1. i + RxP!Extent(t[i]) - 1 <= Len(t)
      BY <1>1, <1>2, <1>7, <2>2, <2>5
    <3>2. ASSUME NEW d \in 1 .. RxP!Extent(t[i]) PROVE t[i + d - 1] = w[j + d - 1]
      <4>1. j + d - 1 \in 1 .. Len(w) /\ i + d - 1 = e + (j + d - 1)
        BY ONLY <1>2, <1>7, <2>2, <2>5, <3>2
      <4> QED BY <1>1, <4>1
    <3> QED BY <2>1, <2>4, <3>1, <3>2 DEF RxP!WholeAt
  <2>7. ASSUME Behind(t, i) <= Len(t)
        PROVE  RxP!Starts(t[Behind(t, i)]) /\ Follows(size, t[i], t[Behind(t, i)])
    <3>1. Behind(w, j) \in 1 .. Len(w) /\ Behind(w, j) <= Len(w)
      BY ONLY <1>1, <1>2, <1>7, <2>2, <2>7
    <3>2. t[Behind(t, i)] = w[Behind(w, j)]
      BY <1>1, <2>2, <3>1
    <3> QED BY <2>1, <2>4, <3>1, <3>2
  <2> QED BY <2>6, <2>7
<1>8. ASSUME NEW i \in 1 .. Len(t), RxP!Starts(t[i])
      PROVE  /\ RxP!WholeAt(t, i)
             /\ Behind(t, i) <= Len(t) => /\ RxP!Starts(t[Behind(t, i)])
                                          /\ Follows(size, t[i], t[Behind(t, i)])
  <2>1. CASE i <= e
    <3>1. i \in 1 .. e
      BY <1>2, <2>1
    <3> QED BY <1>5, <1>8, <3>1
  <2>2. CASE ~(i <= e)
    BY <1>6, <1>7, <1>8, <2>2
  <2> QED BY <2>1, <2>2
<1>9. ASSUME NEW i \in 1 .. Len(t), Ends(t, i)
      PROVE  \E j \in 1 .. Len(w) : Ends(w, j) /\ t[i] = w[j]
  <2>1. RxP!Starts(t[i])
    BY <1>9 DEF Ends
  <2>2. CASE i <= e
    <3>1. i \in 1 .. e
      BY <1>2, <2>2
    <3> QED BY <1>5, <1>9, <2>1, <3>1
  <2>3. CASE ~(i <= e)
    BY <1>6, <1>7, <1>9, <2>3
  <2> QED BY <2>2, <2>3
<1>10. RxP!Starts(t[1])
  <2>1. w # <<>> /\ RxP!Starts(w[1]) /\ (s # <<>> => RxP!Starts(s[1]))
    BY DEF Framed
  <2> QED BY <1>4, <2>1
<1> QED BY <1>4, <1>8, <1>9, <1>10 DEF Framed, EndsLike

\* A packet, a code or the cancel sequence, as it is written.
Message(w) == /\ w \in Seq(RxP!Unit) /\ w # <<>> /\ \A size : Framed(size, w)
              /\ \A i \in 1 .. Len(w) : Ends(w, i) => w[i] = w[1]

\* A packet on the wire is a message; so is the same message once more, and a code.
LEMMA WireMessage ==
  ASSUME NEW p \in TxP!Packet, p.kind \in {"Soh", "Stx"}
  PROVE  Message(TxP!Wire(p))
<1> DEFINE w == TxP!Wire(p)
           m == RxP!FrameUnits(p.kind)
<1>1. w \in Seq(RxP!Unit) /\ w = RxP!Wire(p)
  BY TxP!WireType, ProgramAssumption, CodesHere DEF TxP!Wire, RxP!Wire, TxP!FrameUnits,
     RxP!FrameUnits
<1>2. m \in Nat \ {0}
  BY RxP!FrameUnitsType, ProgramAssumption, CodesHere
<1>3. Len(w) = m /\ \A i \in 1 .. m : w[i].pkt = p /\ w[i].part = i
  BY <1>1, <1>2 DEF RxP!Wire
<1> HIDE DEF w, m
<1>4. ASSUME NEW i \in 1 .. m, RxP!Starts(w[i]) PROVE i = 1
  BY <1>3, <1>4 DEF RxP!Starts
<1>5. 1 \in 1 .. m /\ w # <<>> /\ m <= m /\ 1 + m - 1 = m /\ 1 + m = m + 1
  BY <1>2, <1>3
<1>6. w[1].part = 1 /\ w[1].pkt = p /\ RxP!Starts(w[1]) /\ RxP!Extent(w[1]) = m
  BY <1>3, <1>5 DEF RxP!Starts, RxP!Extent, m
<1>7. RxP!WholeAt(w, 1) /\ Behind(w, 1) = Len(w) + 1
  <2>1. \A d \in 1 .. m : 1 + d - 1 = d
    BY <1>2
  <2> QED BY <1>1, <1>3, <1>5, <1>6, <2>1 DEF RxP!WholeAt, Behind
<1>8. ~(Behind(w, 1) <= Len(w))
  BY <1>2, <1>3, <1>7
<1>9. ASSUME NEW size PROVE Framed(size, w)
  BY <1>3, <1>4, <1>6, <1>7, <1>8 DEF Framed
<1>10. \A i \in 1 .. Len(w) : Ends(w, i) => w[i] = w[1]
  BY <1>3, <1>4 DEF Ends
<1> QED BY <1>1, <1>5, <1>9, <1>10 DEF Message, w

LEMMA SameMessage ==
  ASSUME NEW w \in Seq(RxP!Unit), w # <<>>, \A i \in 1 .. Len(w) : w[i] = w[1],
         w[1].part = 0, w[1].pkt = RxP!NoPacket,
         w[1].byte \in RxP!Codes \ {"None", "Soh", "Stx"}
  PROVE  Message(w)
<1>1. \A i \in 1 .. Len(w) : RxP!Starts(w[i]) /\ RxP!Extent(w[i]) = 1 /\ Behind(w, i) = i + 1
  BY DEF RxP!Starts, RxP!Extent, Behind
<1>2. Len(w) \in Nat /\ Len(w) >= 1 /\ 1 \in 1 .. Len(w)
  OBVIOUS
<1>3. ASSUME NEW i \in 1 .. Len(w) PROVE RxP!WholeAt(w, i)
  <2>1. i + 1 - 1 <= Len(w)
    BY <1>2
  <2>2. w[i].part # 1
    OBVIOUS
  <2> QED BY <1>1, <2>1, <2>2 DEF RxP!WholeAt
<1>4. ASSUME NEW i \in 1 .. Len(w), NEW size, Behind(w, i) <= Len(w)
      PROVE  RxP!Starts(w[Behind(w, i)]) /\ Follows(size, w[i], w[Behind(w, i)])
  <2>1. Behind(w, i) \in 1 .. Len(w)
    BY <1>1, <1>2, <1>4
  <2>2. w[Behind(w, i)] = w[i]
    BY <2>1
  <2> QED BY <1>1, <2>2 DEF Follows
<1> QED BY <1>1, <1>2, <1>3, <1>4 DEF Message, Framed

LEMMA CodeMessage == Message(TxP!Ctl("Eot")) /\ Message(TxP!Cans)
<1>1. TxP!Ctl("Eot") \in Seq(RxP!Unit) /\ TxP!Cans \in Seq(RxP!Unit)
  BY CodesAlike DEF Alike
<1>2. Message(TxP!Ctl("Eot"))
  <2> DEFINE w == TxP!Ctl("Eot")
  <2>1. /\ Len(w) = 1 /\ w # <<>>
        /\ w[1] = [byte |-> "Eot", pkt |-> RxP!NoPacket, part |-> 0]
    BY DEF TxP!Ctl, TxP!NoPacket, RxP!NoPacket
  <2> HIDE DEF w
  <2>2. \A i \in 1 .. Len(w) : w[i] = w[1]
    BY <2>1
  <2>3. "Eot" \in RxP!Codes \ {"None", "Soh", "Stx"}
    BY DEF RxP!Codes
  <2>4. w \in Seq(RxP!Unit)
    BY <1>1 DEF w
  <2>5. w[1].part = 0 /\ w[1].pkt = RxP!NoPacket /\ w[1].byte = "Eot"
    BY <2>1
  <2> QED BY <2>1, <2>2, <2>3, <2>4, <2>5, SameMessage DEF w
<1>3. Message(TxP!Cans)
  <2> DEFINE w == TxP!Cans
  <2>0. CanNumber \in Nat \ {0}
    BY ProgramAssumption
  <2>1. /\ Len(w) = CanNumber
        /\ \A i \in 1 .. CanNumber : w[i] = [byte |-> "Can", pkt |-> RxP!NoPacket, part |-> 0]
    BY <2>0 DEF TxP!Cans, TxP!Ctl, TxP!NoPacket, RxP!NoPacket
  <2> HIDE DEF w
  <2>2. 1 \in 1 .. CanNumber /\ w # <<>>
    BY <2>0, <2>1
  <2>3. "Can" \in RxP!Codes \ {"None", "Soh", "Stx"}
    BY DEF RxP!Codes
  <2>4. w \in Seq(RxP!Unit)
    BY <1>1 DEF w
  <2>5. w[1].part = 0 /\ w[1].pkt = RxP!NoPacket /\ w[1].byte = "Can"
        /\ \A i \in 1 .. Len(w) : w[i] = w[1]
    BY <2>1, <2>2
  <2> QED BY <2>2, <2>3, <2>4, <2>5, SameMessage DEF w
<1> QED BY <1>2, <1>3

\* So is what a timeout or a NAK sends again.
LEMMA ItemMessage ==
  ASSUME ProgramsOK, Opened
  PROVE  Message(tTxBuffer)
<1> USE DEF TxP!StageEstablished, TxP!StageTransmitting, TxP!StageFinishing,
            TxP!StageFinished
<1>0. /\ tFileSize \in Nat /\ tFileCount \in 0 .. tFileSize
      /\ tDataCount \in 0 .. NumMod - 1 /\ NumMod \in Nat /\ NumMod > 2
      /\ tStage \in {2, 3, 4, 5}
  BY ProgramAssumption DEF ProgramsOK, TxP!Inductive, TxP!TypeOK, Opened
<1>1. TxP!Info(tFileSize) \in TxP!Packet /\ TxP!Info(tFileSize).kind = "Soh"
  BY <1>0, TxP!InfoType, ProgramAssumption, CodesHere DEF TxP!Info
<1>2. TxP!ZeroHeader \in TxP!Packet /\ TxP!ZeroHeader.kind = "Soh"
  BY TxP!ZeroHeaderType, ProgramAssumption, CodesHere DEF TxP!ZeroHeader
<1>3. ASSUME NEW num \in 0 .. NumMod - 1, TxP!CurrentBlock(num)
      PROVE  Message(tTxBuffer)
  <2>1. PICK from \in 0 .. tFileCount - 1 :
          tTxBuffer = TxP!Wire(TxP!Block(num, from, tFileSize - from))
    BY <1>3 DEF TxP!CurrentBlock
  <2>2. from \in Nat /\ tFileSize - from \in Nat
    BY <1>0, <2>1
  <2>3. TxP!Block(num, from, tFileSize - from) \in TxP!Packet
    BY <2>2, TxP!BlockType, ProgramAssumption, CodesHere
  <2>4. TxP!Block(num, from, tFileSize - from).kind \in {"Soh", "Stx"}
    BY DEF TxP!Block
  <2> QED BY <2>1, <2>3, <2>4, WireMessage
<1>4. \/ tTxBuffer = TxP!Wire(TxP!Info(tFileSize))
      \/ \E num \in 0 .. NumMod - 1 : TxP!CurrentBlock(num)
      \/ tTxBuffer = TxP!Ctl("Eot")
      \/ tTxBuffer = TxP!Wire(TxP!ZeroHeader)
  <2>1. TxP!ResendIsCurrent
    BY DEF ProgramsOK
  <2>2. 1 \in 0 .. NumMod - 1
    BY <1>0
  <2> QED BY <1>0, <2>1, <2>2 DEF TxP!ResendIsCurrent
<1> QED BY <1>1, <1>2, <1>3, <1>4, WireMessage, CodeMessage

-----------------------------------------------------------------------------
(* What the transmitter reads *)

\* It reads the answers one by one.
LEMMA AnswerTaken ==
  ASSUME ProgramsOK, tCode = "None", AnswerOnly, NEW r \in TxP!receivePacket, TxP!Poll(r)
  PROVE  /\ r.code = "None"
         /\ \/ r.ret = "None" /\ toTx' = toTx
            \/ toTx # <<>> /\ r.ret = toTx[1].byte /\ toTx' = Tail(toTx)
<1>1. toTx \in Seq(TxP!Unit)
  BY ChannelTypes
<1>2. toTx # <<>> => toTx[1].byte \notin {"Soh", "Stx", "Data"}
  <2> SUFFICES ASSUME toTx # <<>> PROVE toTx[1].byte \notin {"Soh", "Stx", "Data"}
    OBVIOUS
  <2>1. 1 \in 1 .. Len(toTx)
    BY <1>1
  <2>2. toTx[1].byte \in Answers
    BY <2>1 DEF AnswerOnly
  <2> QED BY <2>2 DEF Answers
<1>3. \/ r = TxP!Byte("None", toTx)
      \/ toTx # <<>> /\ r = TxP!Byte(toTx[1].byte, Tail(toTx))
  BY <1>1, <1>2, TxP!ReadCode, ProgramAssumption, CodesHere
<1> QED BY <1>3 DEF TxP!Byte, TxP!Poll

\* A poll of the transmitter takes one answer, or none.
LEMMA AnswersTaken ==
  ASSUME ProgramsOK, tCode = "None", AnswerOnly, TxP!ReadTimeOut
  PROVE  tCode' = "None" /\ (toTx' = toTx \/ (toTx # <<>> /\ toTx' = Tail(toTx)))
<1>1. CASE TxP!NoPoll /\ tCode' = "None"
  BY <1>1 DEF TxP!NoPoll
<1>2. ASSUME NEW r \in TxP!receivePacket, TxP!Poll(r), tCode' \in {"None", r.code}
      PROVE  tCode' = "None" /\ (toTx' = toTx \/ (toTx # <<>> /\ toTx' = Tail(toTx)))
  BY <1>2, AnswerTaken
<1> QED BY <1>1, <1>2, TxP!PollReads, ProgramAssumption, CodesHere

\* An answer that is heard is the first.
LEMMA AnswerHeard ==
  ASSUME ProgramsOK, tCode = "None", AnswerOnly, NEW c, c # "None", TxP!Hears(c)
  PROVE  toTx # <<>> /\ toTx[1].byte = c /\ toTx' = Tail(toTx)
BY AnswerTaken DEF TxP!Hears

-----------------------------------------------------------------------------
(* The answers to a header *)

\* Every ACK is followed by the C that asks for the first block.
Paired(s) == \A i \in 1 .. Len(s) : s[i].byte = "Ack" => i < Len(s) /\ s[i + 1].byte = "C"

\* Taking an ACK leaves its C in front; any other answer leaves the pairs alone.
LEMMA PairedTail ==
  ASSUME NEW s \in Seq(RxP!Unit), s # <<>>, Paired(s)
  PROVE  /\ Paired(Tail(s))
         /\ s[1].byte = "Ack" => Tail(s) # <<>> /\ Tail(s)[1].byte = "C"
<1> DEFINE t == Tail(s)
<1>1. /\ Len(s) \in Nat /\ Len(s) >= 1 /\ Len(t) \in Nat /\ Len(t) = Len(s) - 1
      /\ \A i \in 1 .. Len(t) : t[i] = s[i + 1]
  OBVIOUS
<1> HIDE DEF t
<1>2. ASSUME NEW i \in 1 .. Len(t), t[i].byte = "Ack"
      PROVE  i < Len(t) /\ t[i + 1].byte = "C"
  <2>1. i + 1 \in 1 .. Len(s) /\ s[i + 1].byte = "Ack"
    BY <1>1, <1>2
  <2>2. i + 1 < Len(s) /\ s[(i + 1) + 1].byte = "C"
    BY <2>1 DEF Paired
  <2>3. i + 1 \in 1 .. Len(t) /\ i < Len(t)
    BY <1>1, <2>2
  <2> QED BY <1>1, <2>2, <2>3
<1>3. ASSUME s[1].byte = "Ack" PROVE t # <<>> /\ t[1].byte = "C"
  <2>1. 1 < Len(s) /\ s[1 + 1].byte = "C"
    BY <1>1, <1>3 DEF Paired
  <2>2. 1 \in 1 .. Len(t)
    BY <1>1, <2>1
  <2>3. t # <<>>
    BY <2>2
  <2> QED BY <1>1, <2>1, <2>2, <2>3
<1> QED BY <1>2, <1>3 DEF Paired, t

\* Pairs stay pairs in front of others.
LEMMA PairedLonger ==
  ASSUME NEW s \in Seq(RxP!Unit), NEW w \in Seq(RxP!Unit), Paired(s), Paired(w)
  PROVE  Paired(s \o w)
<1> DEFINE t == s \o w
<1>1. /\ Len(t) = Len(s) + Len(w)
      /\ \A i \in 1 .. Len(s) : t[i] = s[i]
      /\ \A i \in 1 .. Len(w) : t[Len(s) + i] = w[i]
  <2>1. s \in Seq(RxP!Unit) /\ w \in Seq(RxP!Unit)
    OBVIOUS
  <2> QED BY ONLY <2>1, Appended
<1>2. Len(s) \in Nat /\ Len(w) \in Nat
  OBVIOUS
<1> HIDE DEF t
<1> SUFFICES ASSUME NEW i \in 1 .. Len(t), t[i].byte = "Ack"
             PROVE  i < Len(t) /\ t[i + 1].byte = "C"
  BY DEF Paired, t
<1>3. CASE i <= Len(s)
  <2>1. i \in 1 .. Len(s) /\ t[i] = s[i]
    BY <1>1, <1>2, <1>3
  <2>2. i < Len(s) /\ s[i + 1].byte = "C"
    BY <2>1 DEF Paired
  <2>3. i + 1 \in 1 .. Len(s) /\ i < Len(t)
    BY <1>1, <1>2, <2>2
  <2> QED BY <1>1, <2>2, <2>3
<1>4. CASE ~(i <= Len(s))
  <2>1. PICK j : j = i - Len(s)
    OBVIOUS
  <2>2. j \in 1 .. Len(w) /\ Len(s) + j = i /\ j + 1 = (i + 1) - Len(s)
    BY <1>1, <1>2, <1>4, <2>1
  <2>3. t[i] = w[j]
    BY <1>1, <2>2
  <2>4. j < Len(w) /\ w[j + 1].byte = "C"
    BY <2>2, <2>3 DEF Paired
  <2>5. j + 1 \in 1 .. Len(w) /\ Len(s) + (j + 1) = i + 1 /\ i < Len(t)
    BY <1>1, <1>2, <2>2, <2>4
  <2>6. t[i + 1] = w[j + 1]
    BY <1>1, <2>5
  <2> QED BY <2>4, <2>5, <2>6
<1> QED BY <1>3, <1>4

\* The answers other than a lone ACK.
LEMMA PairedAnswers ==
  \A w \in {RxP!Ctl("C"), RxP!Ctl("Nak"), RxP!AckC} : w \in Seq(RxP!Unit) /\ Paired(w)
<1>1. \A c \in {"Nak", "C"} :
        /\ RxP!Ctl(c) \in Seq(RxP!Unit) /\ Len(RxP!Ctl(c)) = 1 /\ RxP!Ctl(c)[1].byte = c
  <2>1. RxP!Ctl("Nak") \in Seq(RxP!Unit) /\ RxP!Ctl("C") \in Seq(RxP!Unit)
    BY AnswerBytes DEF RxP!Answers
  <2> QED BY <2>1 DEF RxP!Ctl
<1>2. \A c \in {"Nak", "C"} : Paired(RxP!Ctl(c))
  <2> SUFFICES ASSUME NEW c \in {"Nak", "C"}, NEW i \in 1 .. Len(RxP!Ctl(c))
               PROVE  RxP!Ctl(c)[i].byte # "Ack"
    BY DEF Paired
  <2>1. Len(RxP!Ctl(c)) = 1 /\ RxP!Ctl(c)[1].byte = c
    BY <1>1
  <2>2. i \in 1 .. 1
    BY <2>1
  <2>3. i = 1
    BY ONLY <2>2
  <2> QED BY <2>1, <2>3
<1>3. RxP!AckC \in Seq(RxP!Unit)
  BY AnswerBytes DEF RxP!Answers
<1>4. /\ Len(RxP!AckC) = 2 /\ RxP!AckC[1].byte = "Ack" /\ RxP!AckC[2].byte = "C"
  BY DEF RxP!AckC, RxP!Ctl
<1>5. Paired(RxP!AckC)
  <2> SUFFICES ASSUME NEW i \in 1 .. 2, RxP!AckC[i].byte = "Ack"
               PROVE  i < 2 /\ RxP!AckC[i + 1].byte = "C"
    BY <1>4 DEF Paired
  <2>1. i = 1 /\ i + 1 = 2
    BY <1>4
  <2> QED BY <1>4, <2>1
<1> QED BY <1>1, <1>2, <1>3, <1>5

-----------------------------------------------------------------------------
(* A transfer without faults *)

Live == rStatus \notin RxP!Terminal

\* u is what the transmitter wrote last; the first block, while it waits for its
\* C, comes next.
AtEnd(u) == IF TxP!Unsent THEN Follows(tFileSize, u, Item) ELSE u = Item

\* u is what the receiver took last.
TookLast(u) ==
  /\ rStage = RxP!StageEstablished => Rank(u) = 0
  /\ rStage = RxP!StageTransmitting =>
       Rank(u) = 1 /\ u.pkt.from + u.pkt.n = rFileCount /\ u.pkt.num = rDataCount

Reading    == RxP!Clean /\ (rStage = RxP!StageNone => rCode = "None")
AllThere   == Framed(tFileSize, RxP!Pending)
EndsInItem == Opened => \A i \in 1 .. Len(RxP!Pending) :
                          Ends(RxP!Pending, i) => AtEnd(RxP!Pending[i])
NextFollows ==
  Receiving =>
    \E u \in RxP!Unit :
      /\ TookLast(u)
      /\ RxP!Pending # <<>> => Follows(tFileSize, u, RxP!Pending[1])
      /\ RxP!Pending = <<>> /\ Opened => AtEnd(u)
NotStarted == ~rPortOpen => ~Opened /\ toTx = <<>> /\ rStage = RxP!StageNone

\* The file as far as the receiver has it.
Progress ==
  /\ rStage \in {RxP!StageNone, RxP!StageEstablishing} => received = <<>>
  /\ Receiving => received = Promise!FirstBytes(rFileCount) /\ rFileCount <= tFileSize
  /\ rStage = RxP!StageEstablished => rFileCount = 0
  /\ rStage \in {RxP!StageFinishing, RxP!StageFinished} =>
       received = Promise!FirstBytes(tFileSize)

\* The ACK of the header comes with a C, which is there when the first block is.
CFollows == /\ TxP!HeaderOut => Paired(toTx)
            /\ TxP!Unsent => toTx # <<>> /\ toTx[1].byte = "C"

OnTrack == Live => /\ Reading /\ AllThere /\ EndsInItem /\ NextFollows /\ NotStarted
                   /\ Progress /\ CFollows
Complete == rStatus = "Finish" => received = Promise!FirstBytes(tFileSize) /\ ~Unopened
LosslessInv == /\ faults = 0 /\ tFileSize <= DiskSize /\ tCode = "None"
               /\ OnTrack /\ Complete

\* Three sequences, one behind the other.
LEMMA Associative ==
  ASSUME NEW S, NEW a \in Seq(S), NEW b \in Seq(S), NEW c \in Seq(S)
  PROVE  a \o (b \o c) = (a \o b) \o c
OBVIOUS

\* Nothing is written.
LEMMA SenderKeeps ==
  ASSUME UNCHANGED <<rVars, toRx, tFileSize>>, AllThere, EndsInItem, NextFollows,
         Opened' => Opened /\ \A u : AtEnd(u) => AtEnd(u)'
  PROVE  AllThere' /\ EndsInItem' /\ NextFollows'
<1>1. RxP!Pending' = RxP!Pending
  BY DEF RxP!Pending, rVars
<1>2. AllThere'
  BY <1>1 DEF AllThere
<1>3. EndsInItem'
  BY <1>1 DEF EndsInItem
<1>4. NextFollows'
  <2> SUFFICES ASSUME Receiving'
               PROVE  \E u \in RxP!Unit :
                        /\ TookLast(u)'
                        /\ RxP!Pending' # <<>> => Follows(tFileSize', u, RxP!Pending'[1])
                        /\ RxP!Pending' = <<>> /\ Opened' => AtEnd(u)'
    BY DEF NextFollows
  <2>1. Receiving
    BY DEF Receiving, rVars, RxP!StageEstablished, RxP!StageTransmitting
  <2>2. PICK u \in RxP!Unit :
          /\ TookLast(u)
          /\ RxP!Pending # <<>> => Follows(tFileSize, u, RxP!Pending[1])
          /\ RxP!Pending = <<>> /\ Opened => AtEnd(u)
    BY <2>1 DEF NextFollows
  <2>3. TookLast(u)'
    BY <2>2 DEF TookLast, rVars, RxP!StageEstablished, RxP!StageTransmitting
  <2> QED BY <1>1, <2>2, <2>3
<1> QED BY <1>2, <1>3, <1>4

\* What waits in the receiver are units.
LEMMA PendingType ==
  ASSUME ProgramsOK
  PROVE  /\ RxP!Pending \in Seq(RxP!Unit)
         /\ \A size : RxP!Pending = <<>> => Framed(size, RxP!Pending)
<1>1. RxP!Pending \in Seq(RxP!Unit)
  BY ChannelTypes, Appended DEF RxP!Pending
<1>2. \A size : Framed(size, <<>>)
  BY DEF Framed
<1> QED BY <1>1, <1>2

\* What is written follows what was written before.
LEMMA SenderWrites ==
  ASSUME ProgramsOK, UNCHANGED rVars, NEW w, Message(w), toRx' = toRx \o w,
         \/ /\ UNCHANGED tFileSize /\ AllThere /\ EndsInItem /\ NextFollows
            /\ \A u : (Opened => AtEnd(u)) => Follows(tFileSize, u, w[1])
         \/ RxP!Pending = <<>> /\ ~Receiving,
         Opened' => Item' = w[1]
  PROVE  AllThere' /\ EndsInItem' /\ NextFollows'
<1> DEFINE s == RxP!Pending
           t == s \o w
<1>1. RxP!Pending' = t
  <2>1. rRxBuffer \in Seq(RxP!Unit) /\ toRx \in Seq(RxP!Unit) /\ w \in Seq(RxP!Unit)
    BY ChannelTypes DEF Message
  <2>2. rRxBuffer' = rRxBuffer
    BY DEF rVars
  <2>3. rRxBuffer \o (toRx \o w) = (rRxBuffer \o toRx) \o w
    BY ONLY <2>1, Associative
  <2> QED BY <2>2, <2>3 DEF RxP!Pending
<1>2. s \in Seq(RxP!Unit) /\ w \in Seq(RxP!Unit) /\ w # <<>>
      /\ Framed(tFileSize', s) /\ Framed(tFileSize', w)
      /\ \A i \in 1 .. Len(w) : Ends(w, i) => w[i] = w[1]
  BY PendingType DEF Message, AllThere
<1>3. \A i \in 1 .. Len(s) : Ends(s, i) => Follows(tFileSize', s[i], w[1])
  <2>1. CASE RxP!Pending = <<>>
    BY <2>1
  <2>2. CASE /\ UNCHANGED tFileSize /\ EndsInItem
             /\ \A u : (Opened => AtEnd(u)) => Follows(tFileSize, u, w[1])
    BY <2>2 DEF EndsInItem
  <2> QED BY <2>1, <2>2
<1> HIDE DEF s
<1>4. PICK z : z = t
  OBVIOUS
<1>5. /\ Framed(tFileSize', z) /\ z # <<>> /\ z[1] = IF s = <<>> THEN w[1] ELSE s[1]
      /\ EndsLike(z, w)
  <2>1. PICK size : size = tFileSize'
    OBVIOUS
  <2>2. PICK a \in Seq(RxP!Unit) : a = s
    BY <1>2
  <2>3. PICK b \in Seq(RxP!Unit) : b = w
    BY <1>2
  <2>4. /\ a \in Seq(RxP!Unit) /\ b \in Seq(RxP!Unit)
        /\ b # <<>> /\ Framed(size, a) /\ Framed(size, b) /\ z = a \o b
        /\ \A i \in 1 .. Len(a) : Ends(a, i) => Follows(size, a[i], b[1])
    BY <1>2, <1>3, <1>4, <2>1, <2>2, <2>3
  <2>5. /\ Framed(size, z) /\ z # <<>> /\ z[1] = IF a = <<>> THEN b[1] ELSE a[1]
        /\ EndsLike(z, b)
    BY ONLY <2>4, AppendFramed
  <2> QED BY <2>1, <2>2, <2>3, <2>5
<1>6. RxP!Pending' = z
  BY <1>1, <1>4
<1> HIDE DEF t
<1>7. AllThere'
  BY <1>5, <1>6 DEF AllThere
<1>8. EndsInItem'
  <2> SUFFICES ASSUME Opened', NEW i \in 1 .. Len(z), Ends(z, i) PROVE AtEnd(z[i])'
    BY <1>6 DEF EndsInItem
  <2>0. PICK j \in 1 .. Len(w) : Ends(w, j) /\ z[i] = w[j]
    BY <1>5 DEF EndsLike
  <2>1. z[i] = w[1]
    BY <1>2, <2>0
  <2>2. z[i] = Item'
    BY <2>1
  <2> QED BY <2>2 DEF AtEnd, Follows
<1>9. NextFollows'
  <2> SUFFICES ASSUME Receiving'
               PROVE  \E u \in RxP!Unit : TookLast(u)' /\ Follows(tFileSize', u, z[1])
    BY <1>5, <1>6 DEF NextFollows
  <2>1. Receiving
    BY DEF Receiving, rVars, RxP!StageEstablished, RxP!StageTransmitting
  <2>2. PICK u \in RxP!Unit :
          /\ TookLast(u)
          /\ s # <<>> => Follows(tFileSize, u, s[1])
          /\ s = <<>> /\ Opened => AtEnd(u)
    BY <2>1 DEF NextFollows, s
  <2>3. TookLast(u)'
    BY <2>2 DEF TookLast, rVars, RxP!StageEstablished, RxP!StageTransmitting
  <2>4. Follows(tFileSize', u, z[1])
    BY <1>5, <2>1, <2>2
  <2> QED BY <2>3, <2>4
<1> QED BY <1>7, <1>8, <1>9

-----------------------------------------------------------------------------
(* The step of the transmitter *)

\* What a step of the transmitter does on a line without faults.
SenderActs ==
  /\ UNCHANGED <<rVars, faults>> /\ tCode' = "None"
  /\ \/ TxP!PollEffect /\ tPortOpen /\ (toTx' = toTx \/ (toTx # <<>> /\ toTx' = Tail(toTx)))
     \/ TxP!Gives("Abort") /\ toTx' = toTx
     \/ SenderRests /\ (toTx' = toTx \/ (~Opened /\ toTx' = <<>>))

\* Every step of the transmitter is one of these.
LEMMA SenderDoes ==
  ASSUME ProgramsOK, tCode = "None", AnswerOnly,
         StartTransmit \/ StopTransmit \/ TxReadTimeOut \/ TxWriteTimeOut
  PROVE  SenderActs
<1>0. TxP!SessionOwnsResources /\ TxP!OutcomePending /\ tPortOpen \in BOOLEAN
  BY DEF ProgramsOK, TxP!Inductive, TxP!TypeOK
<1>1. CASE TxReadTimeOut
  <2>1. TxP!ReadTimeOut /\ UNCHANGED <<rVars, faults>>
    BY <1>1, SameTransmitter DEF TxReadTimeOut, Sender
  <2>2. TxP!PollEffect
    BY <2>1, TxP!ReadTimeOutEffect, ProgramAssumption, CodesHere DEF ProgramsOK
  <2>3. tPortOpen
    BY <1>0, <2>1 DEF TxP!ReadTimeOut, TxP!SessionOwnsResources
  <2> QED BY <2>1, <2>2, <2>3, AnswersTaken DEF SenderActs
<1>2. CASE StopTransmit
  <2>1. TxP!stopTransmit /\ UNCHANGED <<rVars, toTx, faults>> /\ tCode' = "None"
    BY <1>2, SameTransmitter DEF StopTransmit, Sender, Tx!stopTransmit, Tx!Stop,
       TxP!stopTransmit, TxP!Stop, Tx!Room, TxP!Room, Tx!Reset, TxP!Reset, Tx!StageNone,
       TxP!StageNone, Tx!Send, TxP!Send, Tx!Write, TxP!Write, Tx!Cans, TxP!Cans,
       Tx!Ctl, TxP!Ctl, Tx!NoPacket, TxP!NoPacket, Tx!KeepFile, TxP!KeepFile,
       Tx!file, TxP!file
  <2>2. TxP!Gives("Abort")
    BY <2>1, TxP!OtherEffects, ProgramAssumption, CodesHere
  <2> QED BY <2>1, <2>2 DEF SenderActs
<1>3. CASE StartTransmit \/ TxWriteTimeOut
  <2>1. /\ TxP!startTransmit \/ TxP!writeTimeOut
        /\ TxP!startTransmit => tStatus \notin TxP!Terminal /\ ~tButton
        /\ TxP!writeTimeOut => tWriteTimer
        /\ UNCHANGED <<rVars, faults>> /\ toTx' \in {toTx, <<>>} /\ tCode' = tCode
    BY <1>3 DEF StartTransmit, TxWriteTimeOut, Sender, Tx!startTransmit, Tx!Start,
       TxP!startTransmit, TxP!Start, Tx!writeTimeOut, Tx!WriteTimeOut,
       TxP!writeTimeOut, TxP!WriteTimeOut, Tx!engine, TxP!engine, Tx!KeepFile,
       TxP!KeepFile, Tx!file, TxP!file, Tx!Running, TxP!Running, Tx!Terminal,
       TxP!Terminal
  <2>2. SenderRests
    BY <2>1, TxP!OtherEffects, ProgramAssumption, CodesHere DEF SenderRests
  <2>3. TxP!NoTransfer
    BY <1>0, <2>1 DEF TxP!OutcomePending
  <2>4. ~Opened
    BY <2>3 DEF TxP!NoTransfer, Opened, TxP!StageNone, TxP!StageEstablishing,
       TxP!StageEstablished, TxP!StageFinished
  <2> QED BY <2>1, <2>2, <2>4 DEF SenderActs
<1> QED BY <1>1, <1>2, <1>3

\* The states that a lossless line goes through.
Lossless == ProgramsOK /\ OrderInv /\ HeaderInv /\ LosslessInv

\* What waits in the receiver, as a whole and by first units.
LEMMA NothingPending ==
  ASSUME ProgramsOK, RxP!Clean, Coming = <<>>
  PROVE  RxP!Pending = <<>>
<1>0. toRx \in Seq(RxP!Unit) /\ rRxBuffer \in Seq(RxP!Unit)
  BY ChannelTypes
<1>1. rCode = "None"
  <2> SUFFICES ASSUME rCode # "None" PROVE FALSE
    OBVIOUS
  <2>1. Coming = <<rRxBuffer[1]>> \o toRx
    BY DEF Coming, RxP!Stream
  <2>2. Len(Coming) = Len(toRx) + 1 /\ Len(toRx) \in Nat
    BY <1>0, ComingShape
  <2> QED BY <2>2
<1>2. toRx = <<>> /\ rRxBuffer = <<>>
  BY <1>1 DEF Coming, RxP!Stream, RxP!Clean
<1> QED BY <1>2 DEF RxP!Pending

\* What is asked for again, or sent next, is written when the port is open.
ItemIsMessage == Message(tTxBuffer)

LEMMA WrittenItem == ProgramsOK /\ Opened => ItemIsMessage
BY ItemMessage DEF ItemIsMessage

\* What is said of the units on their way.
Kept == AllThere /\ EndsInItem /\ NextFollows

\* The current packet or code is written behind what was written before.
LEMMA ItemWritten ==
  ASSUME ProgramsOK, ProgramsOK', UNCHANGED rVars, Opened', toRx' = toRx \o tTxBuffer',
         \/ /\ UNCHANGED tFileSize /\ Kept
            /\ \A u : (Opened => AtEnd(u)) => Follows(tFileSize, u, tTxBuffer'[1])
         \/ RxP!Pending = <<>> /\ ~Receiving
  PROVE  Kept'
<1>1. Message(tTxBuffer')
  <2>1. ProgramsOK' /\ Opened' => ItemIsMessage'
    BY WrittenItem, PTL
  <2> QED BY <2>1 DEF ItemIsMessage
<1>2. PICK w : w = tTxBuffer'
  OBVIOUS
<1>3. /\ Message(w) /\ toRx' = toRx \o w /\ (Opened' => Item' = w[1])
      /\ \/ /\ UNCHANGED tFileSize /\ AllThere /\ EndsInItem /\ NextFollows
            /\ \A u : (Opened => AtEnd(u)) => Follows(tFileSize, u, w[1])
         \/ RxP!Pending = <<>> /\ ~Receiving
  BY <1>1, <1>2 DEF Item, Kept
<1>4. AllThere' /\ EndsInItem' /\ NextFollows'
  BY <1>3, SenderWrites
<1> QED BY <1>4 DEF Kept

\* A step that writes nothing keeps what is on its way.
LEMMA NothingWritten ==
  ASSUME UNCHANGED <<rVars, toRx, tFileSize>>, Kept,
         Opened' => Opened /\ \A u : AtEnd(u) => AtEnd(u)'
  PROVE  Kept'
BY SenderKeeps DEF Kept

\* The cases of a step of the transmitter, while the receiver has no outcome.
\* Nothing is sent that is new.
LEMMA SenderIdles ==
  ASSUME ProgramsOK, UNCHANGED rVars, Kept, CFollows,
         \/ TxP!Idles
         \/ SenderRests /\ (toTx' = toTx \/ (~Opened /\ toTx' = <<>>))
  PROVE  Kept' /\ CFollows'
<1> USE DEF TxP!StageNone, TxP!StageEstablishing, TxP!StageEstablished,
            TxP!StageTransmitting, TxP!StageFinishing, TxP!StageFinished
<1>1. UNCHANGED <<rVars, toRx, tFileSize>>
  BY DEF TxP!Idles, SenderRests
<1>2. CASE TxP!Idles
  <2>1. ~Opened' /\ CFollows'
    BY <1>2 DEF TxP!Idles, Opened, CFollows, TxP!HeaderOut, TxP!Unsent
  <2> QED BY <1>1, <2>1, NothingWritten
<1>3. CASE SenderRests /\ (toTx' = toTx \/ (~Opened /\ toTx' = <<>>))
  <2>1. (Opened' <=> Opened) /\ Item' = Item
        /\ (TxP!HeaderOut' <=> TxP!HeaderOut) /\ (TxP!Unsent' <=> TxP!Unsent)
        /\ UNCHANGED tFileSize
    BY <1>3 DEF SenderRests, Opened, Item, TxP!HeaderOut, TxP!Unsent
  <2>2. \A u : AtEnd(u) => AtEnd(u)'
    BY <2>1 DEF AtEnd
  <2>3. TxP!HeaderOut \/ TxP!Unsent => Opened
    BY DEF TxP!HeaderOut, TxP!Unsent, Opened
  <2>4. CFollows'
    BY <1>3, <2>1, <2>3 DEF CFollows
  <2> QED BY <1>1, <2>1, <2>2, <2>4, NothingWritten
<1> QED BY <1>2, <1>3

\* The transmitter gives up.
LEMMA SenderGivesUp ==
  ASSUME ProgramsOK, UNCHANGED rVars, Kept, NEW up, TxP!Gives(up)
  PROVE  Kept' /\ CFollows'
<1> USE DEF TxP!StageNone, TxP!StageEstablishing, TxP!StageEstablished,
            TxP!StageTransmitting, TxP!StageFinishing, TxP!StageFinished
<1>1. ~Opened' /\ CFollows' /\ UNCHANGED tFileSize
  BY DEF TxP!Gives, Opened, CFollows, TxP!HeaderOut, TxP!Unsent
<1>2. CASE toRx' = toRx
  BY <1>1, <1>2, NothingWritten
<1>3. CASE toRx' = toRx \o TxP!Cans
  <2>1. PICK w : w = TxP!Cans
    OBVIOUS
  <2>2. Message(w) /\ Rank(w[1]) = 4
    BY <2>1, CodeMessage, CodesAlike
  <2>3. \A u : Follows(tFileSize, u, w[1])
    BY <2>2 DEF Follows
  <2>4. AllThere' /\ EndsInItem' /\ NextFollows'
    BY <1>1, <1>3, <2>1, <2>2, <2>3, SenderWrites DEF Kept
  <2> QED BY <1>1, <2>4 DEF Kept
<1> QED BY <1>2, <1>3 DEF TxP!Gives, TxP!Wrote

\* The file is opened and its header is sent: nothing was before.
LEMMA SenderOpens ==
  ASSUME ProgramsOK, ProgramsOK', OrderInv, HeaderInv', Live, Reading, tPortOpen,
         UNCHANGED rVars, TxP!Opens
  PROVE  Kept' /\ CFollows'
<1> USE DEF TxP!StageNone, TxP!StageEstablishing, TxP!StageEstablished,
            TxP!StageTransmitting, TxP!StageFinishing, TxP!StageFinished
<1>1. Unopened /\ Opened' /\ ~TxP!Unsent' /\ toRx' = toRx \o tTxBuffer'
  BY DEF TxP!Opens, Opened, Unopened, TxP!Unsent, TxP!Write
<1>2. Coming = <<>> /\ ~Receiving /\ rStage \in {RxP!StageNone, RxP!StageEstablishing}
  BY <1>1 DEF OrderInv, NothingYet, Receiving, RxP!StageNone, RxP!StageEstablishing,
              RxP!StageTransmitting, RxP!StageEstablished
<1>3. RxP!Pending = <<>>
  BY <1>2, NothingPending DEF Reading
<1>4. Kept'
  BY <1>1, <1>2, <1>3, ItemWritten
<1>5. Paired(toTx')
  <2>1. rStatus' \notin RxP!Terminal /\ rStage' \in {RxP!StageNone, RxP!StageEstablishing}
    BY <1>2 DEF rVars, Live, RxP!Terminal
  <2>2. \A i \in 1 .. Len(toTx') : toTx'[i].byte # "Ack"
    BY <2>1 DEF HeaderInv, NoHeaderYet, RxP!Terminal, RxP!StageNone, RxP!StageEstablishing
  <2> QED BY <2>2 DEF Paired
<1>6. CFollows'
  BY <1>1, <1>5 DEF CFollows, Paired
<1> QED BY <1>4, <1>6

\* What answers no block: the same is sent again, or not yet.
LEMMA SenderRepeats ==
  ASSUME ProgramsOK, ProgramsOK', AnswerOnly, tCode = "None", Kept, CFollows, tPortOpen,
         UNCHANGED rVars, TxP!Repeats, toTx' = toTx \/ (toTx # <<>> /\ toTx' = Tail(toTx))
  PROVE  Kept' /\ CFollows'
<1>1. /\ Opened /\ Opened' /\ Item' = Item /\ tTxBuffer' = tTxBuffer
      /\ UNCHANGED tFileSize
  BY DEF TxP!Repeats, TxP!Opened, Opened, Item
<1>2. Kept'
  <2>1. CASE toRx' = toRx \o tTxBuffer
    <3>1. \A u : (Opened => AtEnd(u)) => Follows(tFileSize, u, tTxBuffer'[1])
      BY <1>1 DEF AtEnd, Item, Follows
    <3> QED BY <1>1, <2>1, <3>1, ItemWritten
  <2>2. CASE ~(toRx' = toRx \o tTxBuffer)
    <3>1. toRx' = toRx /\ (TxP!Unsent' <=> TxP!Unsent)
      BY <2>2 DEF TxP!Repeats, TxP!Wrote, TxP!Write
    <3>2. \A u : AtEnd(u) => AtEnd(u)'
      BY <1>1, <3>1 DEF AtEnd
    <3> QED BY <1>1, <3>1, <3>2, NothingWritten
  <2> QED BY <2>1, <2>2
<1>3. CFollows'
  <2>0. toTx \in Seq(RxP!Unit)
    BY ChannelTypes
  <2>1. ASSUME TxP!HeaderOut' PROVE Paired(toTx')
    <3>1. Paired(toTx)
      BY <2>1 DEF TxP!Repeats, CFollows
    <3> QED BY <2>0, <3>1, PairedTail
  <2>2. ASSUME TxP!Unsent' PROVE toTx' # <<>> /\ toTx'[1].byte = "C"
    <3>1. toTx # <<>> /\ toTx[1].byte = "C"
      BY <2>2 DEF TxP!Repeats, CFollows
    <3>2. PICK r \in TxP!receivePacket : r.ret # "C" /\ TxP!Poll(r)
      BY <2>2 DEF TxP!Repeats
    <3>3. toTx' = toTx
      BY <3>1, <3>2, AnswerTaken
    <3> QED BY <3>1, <3>3
  <2> QED BY <2>1, <2>2 DEF CFollows, Paired
<1> QED BY <1>2, <1>3

\* An ACK takes the transmitter from the header to the first block, which waits
\* for the C that comes behind, or from one block to the next.
LEMMA SenderAdvances ==
  ASSUME ProgramsOK, ProgramsOK', AnswerOnly, tCode = "None", Kept, CFollows, tPortOpen,
         UNCHANGED rVars, TxP!NextBlockRead
  PROVE  Kept' /\ CFollows'
<1> USE DEF TxP!StageNone, TxP!StageEstablishing, TxP!StageEstablished,
            TxP!StageTransmitting, TxP!StageFinishing, TxP!StageFinished
<1>0. /\ toTx # <<>> /\ toTx[1].byte = "Ack" /\ toTx' = Tail(toTx)
      /\ toTx \in Seq(RxP!Unit)
  BY AnswerHeard, ChannelTypes DEF TxP!NextBlockRead
<1>1. /\ Opened /\ Opened' /\ UNCHANGED tFileSize /\ tFileCount # tFileSize
      /\ tFileSize \in Nat /\ tFileCount \in Nat /\ TxP!Remaining = tFileSize - tFileCount
      /\ tStage \in {2, 3} /\ tStage' = tStage /\ ItemOK
      /\ tDataCount \in 0 .. NumMod - 1 /\ (tStage = 2 => tDataCount \in 0 .. 2)
  <2>1. /\ tFileSize \in Nat /\ tFileCount \in 0 .. tFileSize /\ tDataCount \in 0 .. NumMod - 1
        /\ (tStage = 2 => tDataCount \in 0 .. 2)
    BY DEF ProgramsOK, TxP!Inductive, TxP!TypeOK
  <2>2. /\ tStage \in {2, 3} /\ tStage' = tStage /\ UNCHANGED tFileSize
        /\ TxP!Remaining = tFileSize - tFileCount /\ TxP!Remaining # 0
    BY DEF TxP!NextBlockRead, TxP!ReadBlock, TxP!Remaining
  <2>3. Opened /\ Opened'
    BY <2>2 DEF Opened
  <2> QED BY <2>1, <2>2, <2>3, CurrentItem
<1>2. PICK num \in 0 .. NumMod - 1 :
        /\ num = IF tStage = 2 THEN 1 ELSE TxP!NextNum(tDataCount)
        /\ tTxBuffer' = TxP!Wire(TxP!Block(num, tFileCount, TxP!Remaining))
        /\ tDataCount' = num
  BY DEF TxP!NextBlockRead
<1>3. /\ Item'.pkt = TxP!Block(num, tFileCount, tFileSize - tFileCount)
      /\ Rank(Item') = 1
  <2>1. PICK p : p = TxP!Block(num, tFileCount, TxP!Remaining)
    OBVIOUS
  <2>2. TxP!Remaining \in Nat
    BY <1>1, LinkTypes DEF LinkTypeOK
  <2>3. p \in TxP!Packet /\ p.kind \in {"Soh", "Stx"} /\ p.what = "data"
    BY <1>1, <1>2, <2>1, <2>2, TxP!BlockType, ProgramAssumption, CodesHere DEF TxP!Block
  <2>4. Item'.pkt = p /\ Rank(Item') = 1
    BY <1>2, <2>1, <2>3, WireAlike DEF Item
  <2> QED BY <1>1, <2>1, <2>4
<1>4. ~TxP!Unsent
  BY <1>0 DEF CFollows
<1>5. CASE tStage = 2
  <2>1. tDataCount = 0
    BY <1>1, <1>4, <1>5 DEF TxP!Unsent, ProgramsOK, TxP!Inductive, TxP!EndOfFileSeen
  <2>2. tFileCount = 0 /\ tTxBuffer = TxP!Wire(TxP!Info(tFileSize))
    BY <1>5, <2>1 DEF ProgramsOK, TxP!ResendIsCurrent
  <2>3. Rank(Item) = 0
    <3>1. TxP!Info(tFileSize) \in TxP!Packet
      BY <1>1, TxP!InfoType, ProgramAssumption, CodesHere
    <3>2. TxP!Info(tFileSize).kind = "Soh" /\ TxP!Info(tFileSize).what = "info"
      BY DEF TxP!Info
    <3> QED BY <2>2, <3>1, <3>2, WireAlike DEF Item
  <2>4. Item'.pkt = TxP!Block(1, 0, tFileSize)
    <3>1. tFileSize - tFileCount = tFileSize
      BY <1>1, <2>2
    <3> QED BY <1>2, <1>3, <1>5, <2>2, <3>1
  <2>5. toRx' = toRx /\ TxP!Unsent' /\ ~TxP!HeaderOut'
    BY <1>1, <1>2, <1>5 DEF TxP!NextBlockRead, TxP!Unsent, TxP!HeaderOut
  <2>6. Follows(tFileSize, Item, Item')
    BY <1>3, <2>3, <2>4 DEF Follows
  <2>7. \A u : AtEnd(u) => AtEnd(u)'
    BY <1>1, <1>4, <2>5, <2>6 DEF AtEnd
  <2>8. Kept'
    BY <1>1, <2>5, <2>7, NothingWritten
  <2>9. toTx' # <<>> /\ toTx'[1].byte = "C"
    <3>1. TxP!HeaderOut
      BY <1>5, <2>1 DEF TxP!HeaderOut
    <3>2. Paired(toTx)
      BY <3>1 DEF CFollows
    <3> QED BY <1>0, <3>2, PairedTail
  <2> QED BY <2>5, <2>8, <2>9 DEF CFollows, Paired
<1>6. CASE tStage = 3
  <2>1. Rank(Item) = 1 /\ Item.pkt.from + Item.pkt.n = tFileCount
    BY <1>1, <1>6 DEF ItemOK
  <2>2. Item.pkt.num = tDataCount
    <3>1. PICK from \in 0 .. tFileCount - 1 :
            tTxBuffer = TxP!Wire(TxP!Block(tDataCount, from, tFileSize - from))
      BY <1>6 DEF ProgramsOK, TxP!ResendIsCurrent, TxP!CurrentBlock
    <3>2. PICK p : p = TxP!Block(tDataCount, from, tFileSize - from)
      OBVIOUS
    <3>3. from \in Nat /\ tFileSize - from \in Nat
      <4>1. tFileCount <= tFileSize
        BY LinkTypes DEF LinkTypeOK
      <4> QED BY <1>1, <4>1
    <3>4. p \in TxP!Packet /\ p.kind \in {"Soh", "Stx"} /\ p.num = tDataCount
      BY <1>1, <3>2, <3>3, TxP!BlockType, ProgramAssumption, CodesHere DEF TxP!Block
    <3>5. Item.pkt = p
      BY <3>1, <3>2, <3>4, WireAlike DEF Item
    <3> QED BY <3>4, <3>5
  <2>3. Follows(tFileSize, Item, Item')
    BY <1>2, <1>3, <1>6, <2>1, <2>2 DEF Follows
  <2>4. toRx' = toRx \o tTxBuffer' /\ ~TxP!Unsent' /\ ~TxP!HeaderOut'
    BY <1>1, <1>6 DEF TxP!NextBlockRead, TxP!Write, TxP!Unsent, TxP!HeaderOut
  <2>5. \A u : (Opened => AtEnd(u)) => Follows(tFileSize, u, tTxBuffer'[1])
    BY <1>1, <1>4, <2>3 DEF AtEnd, Item
  <2>6. Kept'
    BY <1>1, <2>4, <2>5, ItemWritten
  <2> QED BY <2>4, <2>6 DEF CFollows, Paired
<1> QED BY <1>1, <1>5, <1>6

\* The ACK of the last block, or of the header of an empty file, is answered
\* with EOT, and the EOT that was taken with the header of zeros.
LEMMA SenderCloses ==
  ASSUME ProgramsOK, ProgramsOK', AnswerOnly, tCode = "None", Kept, CFollows, tPortOpen,
         UNCHANGED rVars, TxP!FileEnds \/ TxP!BatchEnds
  PROVE  Kept' /\ CFollows'
<1> USE DEF TxP!StageNone, TxP!StageEstablishing, TxP!StageEstablished,
            TxP!StageTransmitting, TxP!StageFinishing, TxP!StageFinished
<1>1. /\ Opened /\ Opened' /\ UNCHANGED tFileSize /\ ItemOK
      /\ tFileSize \in Nat /\ tFileCount \in 0 .. tFileSize
      /\ (tStage = 2 => tDataCount \in 0 .. 2)
      /\ toRx' = toRx \o tTxBuffer'
  <2>1. Opened /\ Opened' /\ UNCHANGED tFileSize /\ toRx' = toRx \o tTxBuffer'
    BY DEF TxP!FileEnds, TxP!BatchEnds, Opened, TxP!Write
  <2> QED BY <2>1, CurrentItem DEF ProgramsOK, TxP!Inductive, TxP!TypeOK
<1>2. ~TxP!HeaderOut' /\ ~TxP!Unsent'
  BY DEF TxP!FileEnds, TxP!BatchEnds, TxP!HeaderOut, TxP!Unsent
<1>3. ~TxP!Unsent /\ Follows(tFileSize, Item, Item')
  <2>1. CASE TxP!BatchEnds
    <3>1. ItemOK'
      <4>1. ProgramsOK' /\ Opened' => ItemOK'
        BY CurrentItem, PTL
      <4> QED BY <1>1, <4>1
    <3>2. Rank(Item) = 2 /\ Rank(Item') = 3 /\ ~TxP!Unsent
      BY <1>1, <2>1, <3>1 DEF TxP!BatchEnds, ItemOK, TxP!Unsent
    <3> QED BY <3>2 DEF Follows
  <2>2. CASE TxP!FileEnds
    <3>0. /\ tFileCount = tFileSize /\ Rank(Item') = 2 /\ Item' = TxP!Ctl("Eot")[1]
          /\ tStage \in {2, 3}
      <4>1. tFileCount = tFileSize
        BY <1>1, <2>2 DEF TxP!FileEnds, TxP!Remaining
      <4> QED BY <2>2, <4>1, CodesAlike DEF TxP!FileEnds, Item
    <3>1. ~TxP!Unsent
      <4>1. toTx # <<>> /\ toTx[1].byte = "Ack"
        BY <2>2, AnswerHeard DEF TxP!FileEnds
      <4> QED BY <4>1 DEF CFollows
    <3>2. CASE tStage = 2 /\ tDataCount = 0
      <4>1. tFileCount = 0 /\ tTxBuffer = TxP!Wire(TxP!Info(tFileSize))
        BY <3>2 DEF ProgramsOK, TxP!ResendIsCurrent
      <4>2. Rank(Item) = 0
        <5>1. TxP!Info(tFileSize) \in TxP!Packet
          BY <1>1, TxP!InfoType, ProgramAssumption, CodesHere
        <5>2. TxP!Info(tFileSize).kind = "Soh" /\ TxP!Info(tFileSize).what = "info"
          BY DEF TxP!Info
        <5> QED BY <4>1, <5>1, <5>2, WireAlike DEF Item
      <4> QED BY <3>0, <3>1, <4>1, <4>2 DEF Follows
    <3>3. CASE tStage = 2 /\ tDataCount = 2
      <4>1. Item = TxP!Ctl("Eot")[1]
        BY <3>3 DEF ProgramsOK, TxP!ResendIsCurrent, Item
      <4> QED BY <3>0, <3>1, <4>1 DEF Follows
    <3>4. CASE tStage = 3
      BY <1>1, <3>0, <3>1, <3>4 DEF ItemOK, Follows
    <3> QED BY <1>1, <3>0, <3>1, <3>2, <3>3, <3>4 DEF TxP!Unsent
  <2> QED BY <2>1, <2>2
<1>4. \A u : (Opened => AtEnd(u)) => Follows(tFileSize, u, tTxBuffer'[1])
  BY <1>1, <1>3 DEF AtEnd, Item
<1>5. Kept'
  BY <1>1, <1>4, ItemWritten
<1> QED BY <1>2, <1>5 DEF CFollows, Paired

\* The disk of the receiving end has room for every file that is sent: a full one
\* loses bytes, and nobody notices.
FitsDisk == \A size \in FileSizes : size <= DiskSize

\* A step of the transmitter.
LEMMA SenderLossless ==
  ASSUME FitsDisk, Lossless, ProgramsOK', HeaderInv', SenderActs
  PROVE  LosslessInv'
<1> USE DEF TxP!StageNone, TxP!StageEstablishing, TxP!StageEstablished,
            TxP!StageTransmitting, TxP!StageFinishing, TxP!StageFinished
<1>0. /\ ProgramsOK /\ OrderInv /\ HeaderInv /\ LosslessInv /\ AnswerOnly
      /\ UNCHANGED <<rVars, faults>> /\ tCode' = "None" /\ tCode = "None"
  BY DEF Lossless, HeaderInv, LosslessInv, SenderActs
<1>1. TxP!Opens => Unopened
  BY DEF TxP!Opens, Unopened, Opened
<1>2. tFileSize' = tFileSize \/ (TxP!Opens /\ tFileSize' \in FileSizes)
  BY DEF SenderActs, SenderRests, TxP!PollEffect, TxP!Idles, TxP!Gives, TxP!Opens,
     TxP!Repeats, TxP!NextBlockRead, TxP!ReadBlock, TxP!FileEnds, TxP!BatchEnds
<1>3. Unopened' => Unopened
  BY DEF SenderActs, SenderRests, TxP!PollEffect, TxP!Idles, TxP!Gives, TxP!Opens,
     TxP!Repeats, TxP!NextBlockRead, TxP!FileEnds, TxP!BatchEnds, Opened, Unopened,
     TxP!Opened, TxP!Terminal
<1>4. faults' = 0 /\ tFileSize' <= DiskSize
  BY <1>0, <1>2 DEF LosslessInv, FitsDisk
<1>5. Complete'
  <2> SUFFICES ASSUME rStatus = "Finish"
               PROVE  received = Promise!FirstBytes(tFileSize') /\ ~Unopened'
    BY <1>0 DEF Complete, rVars, Promise!FirstBytes
  <2>1. received = Promise!FirstBytes(tFileSize) /\ ~Unopened
    BY <1>0 DEF LosslessInv, Complete
  <2> QED BY <1>1, <1>2, <1>3, <2>1
<1>6. OnTrack'
  <2> SUFFICES ASSUME Live'
               PROVE  /\ Reading' /\ AllThere' /\ EndsInItem' /\ NextFollows' /\ NotStarted'
                      /\ Progress' /\ CFollows'
    BY DEF OnTrack
  <2>1. Live
    BY <1>0 DEF Live, rVars, RxP!Terminal
  <2>2. Reading /\ Kept /\ NotStarted /\ Progress /\ CFollows
    BY <1>0, <2>1 DEF LosslessInv, OnTrack, Kept
  <2>3. Reading'
    BY <1>0, <2>2 DEF Reading, RxP!Clean, rVars, RxP!StageNone
  <2>4. NotStarted'
    <3>1. toTx = <<>> => toTx' = <<>>
      BY DEF SenderActs
    <3>2. Opened' => Opened \/ TxP!Opens
      BY DEF SenderActs, SenderRests, TxP!PollEffect, TxP!Idles, TxP!Gives,
         TxP!Repeats, TxP!NextBlockRead, TxP!FileEnds, TxP!BatchEnds, Opened, TxP!Opened
    <3>3. TxP!Opens => toTx # <<>>
      BY <1>0, AnswerHeard DEF TxP!Opens
    <3> QED BY <1>0, <2>2, <3>1, <3>2, <3>3 DEF NotStarted, rVars, RxP!StageNone
  <2>5. Progress'
    <3>1. CASE tFileSize' = tFileSize
      BY <1>0, <2>2, <3>1 DEF Progress, rVars, Receiving, RxP!StageNone,
         RxP!StageEstablishing, RxP!StageEstablished, RxP!StageTransmitting,
         RxP!StageFinishing, RxP!StageFinished, Promise!FirstBytes
    <3>2. CASE TxP!Opens
      <4>1. received = <<>> /\ rStage \in {RxP!StageNone, RxP!StageEstablishing}
        BY <1>0, <1>1, <3>2 DEF OrderInv, NothingYet
      <4> QED BY <1>0, <4>1 DEF Progress, rVars, Receiving, RxP!StageNone,
         RxP!StageEstablishing, RxP!StageEstablished, RxP!StageTransmitting,
         RxP!StageFinishing, RxP!StageFinished
    <3> QED BY <1>2, <3>1, <3>2
  <2>6. Kept' /\ CFollows'
    <3>1. CASE TxP!Idles \/ (SenderRests /\ (toTx' = toTx \/ (~Opened /\ toTx' = <<>>)))
      BY <1>0, <2>2, <3>1, SenderIdles
    <3>2. ASSUME NEW up, TxP!Gives(up) PROVE Kept' /\ CFollows'
      BY <1>0, <2>2, <3>2, SenderGivesUp
    <3>3. CASE TxP!Opens /\ tPortOpen
      BY <1>0, <2>1, <2>2, <3>3, SenderOpens
    <3>4. CASE /\ TxP!Repeats /\ tPortOpen
               /\ toTx' = toTx \/ (toTx # <<>> /\ toTx' = Tail(toTx))
      BY <1>0, <2>2, <3>4, SenderRepeats
    <3>5. CASE TxP!NextBlockRead /\ tPortOpen
      BY <1>0, <2>2, <3>5, SenderAdvances
    <3>6. CASE (TxP!FileEnds \/ TxP!BatchEnds) /\ tPortOpen
      BY <1>0, <2>2, <3>6, SenderCloses
    <3> QED BY <3>1, <3>2, <3>3, <3>4, <3>5, <3>6 DEF SenderActs, TxP!PollEffect
  <2> QED BY <2>3, <2>4, <2>5, <2>6 DEF Kept
<1> QED BY <1>0, <1>4, <1>5, <1>6 DEF LosslessInv

-----------------------------------------------------------------------------
(* What the receiver reads *)

\* What waits begins with what comes.
LEMMA ComingFirst ==
  ASSUME ProgramsOK, RxP!Clean, RxP!Pending # <<>>
  PROVE  1 \in 1 .. Len(Coming) /\ Coming[1] = RxP!Pending[1]
<1>0. toRx \in Seq(RxP!Unit) /\ rRxBuffer \in Seq(RxP!Unit)
  BY ChannelTypes
<1>1. CASE rCode = "None"
  <2>1. Coming = toRx /\ rRxBuffer = <<>>
    BY <1>1 DEF Coming, RxP!Stream, RxP!Clean
  <2>2. <<>> \o toRx = toRx
    BY <1>0
  <2>3. Coming = RxP!Pending
    BY <2>1, <2>2 DEF RxP!Pending
  <2>4. toRx # <<>>
    BY <2>1, <2>3
  <2>5. 1 \in 1 .. Len(toRx)
    BY <1>0, <2>4
  <2> QED BY <2>1, <2>3, <2>5
<1>2. CASE rCode # "None"
  <2>1. rRxBuffer # <<>>
    BY <1>2 DEF RxP!Clean
  <2>2. Len(Coming) = Len(toRx) + 1 /\ Coming[1] = rRxBuffer[1] /\ Len(toRx) \in Nat
    BY <1>0, <1>2, ComingShape
  <2>3. (rRxBuffer \o toRx)[1] = rRxBuffer[1]
    BY <1>0, <2>1
  <2> QED BY <2>2, <2>3 DEF RxP!Pending
<1> QED BY <1>1, <1>2

\* A read leaves what waits as it is, or takes the first packet or code of it.
LEMMA ReadAtAll ==
  ASSUME ProgramsOK, RxP!Clean, AllThere, NEW r \in RxP!receivePacket
  PROVE  RxP!Leaves(r) \/ RxP!TakesFirst(r)
<1>1. RxP!Pending # <<>> => RxP!Starts(RxP!Pending[1]) /\ RxP!WholeAt(RxP!Pending, 1)
  <2> SUFFICES ASSUME RxP!Pending # <<>>
               PROVE  RxP!Starts(RxP!Pending[1]) /\ RxP!WholeAt(RxP!Pending, 1)
    OBVIOUS
  <2>1. PICK s \in Seq(RxP!Unit) : s = RxP!Pending
    BY PendingType
  <2>2. 1 \in 1 .. Len(s)
    BY <2>1
  <2> QED BY <2>1, <2>2 DEF AllThere, Framed
<1>2. /\ toRx \in Seq(RxP!Unit) /\ rRxBuffer \in Seq(RxP!Unit)
      /\ rCode \in {"None", "Soh", "Stx"} /\ RxP!PartialPacket
  BY ChannelTypes DEF ProgramsOK, RxP!Inductive, RxP!TypeOK
<1> QED BY <1>1, <1>2, RxP!ReadWhole, ProgramAssumption, CodesHere

\* A read that returns something took it.
LEMMA ReadSomething ==
  ASSUME ProgramsOK, RxP!Clean, AllThere, NEW r \in RxP!receivePacket,
         r.pkt.kind # "None" \/ r.ret # "None"
  PROVE  RxP!TakesFirst(r)
<1>1. RxP!Leaves(r) \/ RxP!TakesFirst(r)
  BY ReadAtAll
<1>2. RxP!Leaves(r) => r.ret = "None" /\ r.pkt = RxP!NoPacket
  BY DEF RxP!Leaves
<1>3. RxP!NoPacket.kind = "None"
  BY DEF RxP!NoPacket
<1> QED BY <1>1, <1>2, <1>3

\* What it returns says what it took.
LEMMA FirstRead ==
  ASSUME ProgramsOK, RxP!Clean, AllThere, NEW r, RxP!TakesFirst(r)
  PROVE  /\ RxP!Pending \in Seq(RxP!Unit) /\ RxP!Pending # <<>>
         /\ 1 \in 1 .. Len(RxP!Pending) /\ RxP!Starts(RxP!Pending[1])
         /\ Rank(RxP!Pending[1]) = 4 => r.ret = "Can"
         /\ Rank(RxP!Pending[1]) = 2 <=> r.ret = "Eot"
         /\ Rank(RxP!Pending[1]) \in {0, 1} \/ r.pkt.kind # "None" =>
              /\ r.pkt = RxP!Pending[1].pkt /\ r.ret = r.pkt.kind
              /\ r.pkt.kind \in {"Soh", "Stx"}
<1>1. PICK s \in Seq(RxP!Unit) : s = RxP!Pending
  BY PendingType
<1>2. s # <<>> /\ 1 \in 1 .. Len(s) /\ RxP!Starts(s[1]) /\ RxP!WholeAt(s, 1)
  <2>1. s # <<>>
    BY <1>1 DEF RxP!TakesFirst
  <2>2. 1 \in 1 .. Len(s)
    BY <2>1
  <2> QED BY <1>1, <2>1, <2>2 DEF AllThere, Framed
<1>3. PICK v : v = s[1]
  OBVIOUS
<1>4. IF v.part = 0 THEN r.ret = v.byte /\ r.pkt = RxP!NoPacket
                    ELSE r.ret = v.pkt.kind /\ r.pkt = v.pkt
  BY <1>1, <1>3 DEF RxP!TakesFirst
<1>5. CASE v.part = 0
  <2>1. v.pkt = RxP!NoPacket /\ v.byte \in RxP!Codes \ {"None", "Soh", "Stx"}
    BY <1>2, <1>3, <1>5 DEF RxP!WholeAt
  <2>2. v.pkt.what = "zero" /\ v.pkt.kind = "None"
    BY <2>1 DEF RxP!NoPacket
  <2>3. /\ Rank(v) = 4 => v.byte = "Can"
        /\ Rank(v) = 2 <=> v.byte = "Eot"
        /\ Rank(v) \notin {0, 1}
    BY <2>2 DEF Rank
  <2>4. r.ret = v.byte /\ r.pkt.kind = "None"
    BY <1>4, <1>5, <2>1, <2>2
  <2> QED BY <1>1, <1>2, <1>3, <2>3, <2>4
<1>6. CASE v.part = 1
  <2>1. v.pkt.kind \in {"Soh", "Stx"} /\ v.byte = v.pkt.kind
    BY <1>2, <1>3, <1>6, RxP!WholeRead, ProgramAssumption, CodesHere DEF RxP!WholeAt
  <2>2. Rank(v) \notin {2, 4}
    BY <2>1 DEF Rank
  <2>3. r.ret = v.pkt.kind /\ r.pkt = v.pkt
    BY <1>4, <1>6
  <2> QED BY <1>1, <1>2, <1>3, <2>1, <2>2, <2>3
<1> QED BY <1>2, <1>3, <1>5, <1>6 DEF RxP!Starts

\* The stream that is left is whole, and goes on after what was taken.
LEMMA RestFollows ==
  ASSUME ProgramsOK, RxP!Clean, AllThere, EndsInItem, UNCHANGED tVars,
         NEW r, RxP!TakesFirst(r), RxP!Poll(r), rCode' = "None",
         NEW v, v = RxP!Pending[1]
  PROVE  /\ RxP!Clean' /\ AllThere' /\ EndsInItem'
         /\ RxP!Pending' # <<>> => Follows(tFileSize', v, RxP!Pending'[1])
         /\ RxP!Pending' = <<>> /\ Opened' => AtEnd(v)'
<1>1. PICK s \in Seq(RxP!Unit) : s = RxP!Pending
  BY PendingType
<1>2. s # <<>> /\ Framed(tFileSize, s)
  BY <1>1 DEF RxP!TakesFirst, AllThere
<1>3. toRx \in Seq(RxP!Unit) /\ rRxBuffer \in Seq(RxP!Unit)
  BY ChannelTypes
<1>4. RxP!Clean' /\ RxP!Pending' = SubSeq(s, RxP!Extent(s[1]) + 1, Len(s))
  BY <1>1, <1>3, RxP!KeptAndTaken, ProgramAssumption, CodesHere
<1>5. PICK t : t = RxP!Pending'
  OBVIOUS
<1>6. /\ Framed(tFileSize, t)
      /\ t # <<>> => Follows(tFileSize, s[1], t[1])
      /\ t = <<>> => Ends(s, 1)
      /\ EndsLike(t, s)
  <2>1. t = SubSeq(s, RxP!Extent(s[1]) + 1, Len(s))
    BY <1>4, <1>5
  <2> QED BY <1>2, <2>1, CutFramed
<1>7. UNCHANGED tFileSize /\ (Opened' <=> Opened) /\ \A u : AtEnd(u)' <=> AtEnd(u)
  BY DEF tVars, Opened, AtEnd, TxP!Unsent, Item, TxP!StageEstablished, TxP!StageFinished
<1>8. AllThere'
  BY <1>5, <1>6, <1>7 DEF AllThere
<1>9. \A i \in 1 .. Len(s) : Opened /\ Ends(s, i) => AtEnd(s[i])
  BY <1>1 DEF EndsInItem
<1>10. EndsInItem'
  <2> SUFFICES ASSUME Opened', NEW i \in 1 .. Len(t), Ends(t, i) PROVE AtEnd(t[i])'
    BY <1>5 DEF EndsInItem
  <2>1. PICK j \in 1 .. Len(s) : Ends(s, j) /\ t[i] = s[j]
    BY <1>6 DEF EndsLike
  <2> QED BY <1>7, <1>9, <2>1
<1>11. v = s[1]
  BY <1>1
<1>12. ASSUME t = <<>>, Opened' PROVE AtEnd(v)'
  <2>1. 1 \in 1 .. Len(s)
    BY <1>2
  <2>2. AtEnd(s[1])
    BY <1>6, <1>7, <1>9, <1>12, <2>1
  <2> QED BY <1>7, <1>11, <2>2
<1>13. t # <<>> => Follows(tFileSize', v, t[1])
  BY <1>6, <1>7, <1>11
<1> QED BY <1>4, <1>5, <1>8, <1>10, <1>12, <1>13

-----------------------------------------------------------------------------
(* The step of the receiver *)

\* What a step of the receiver does on a line without faults.
ReceiverRestarts ==
  /\ ReceiverRests /\ UNCHANGED <<rCode, rRxBuffer>> /\ toRx' \in {toRx, <<>>}
  /\ Live' => Live /\ ~rPortOpen
ReceiverActs ==
  /\ UNCHANGED <<tVars, faults>>
  /\ \/ RxP!PollEffect /\ rPortOpen /\ rPortOpen'
     \/ RxP!Gives("Abort") /\ UNCHANGED rPortOpen
     \/ ReceiverRestarts

\* Every step of the receiver is one of these.
LEMMA ReceiverDoes ==
  ASSUME ProgramsOK, StartReceive \/ StopReceive \/ RxReadTimeOut \/ RxWriteTimeOut
  PROVE  ReceiverActs
<1>0. RxP!SessionOwnsResources /\ RxP!OutcomePending
  BY DEF ProgramsOK, RxP!Inductive
<1>1. CASE RxReadTimeOut
  <2>1. RxP!ReadTimeOut /\ UNCHANGED <<tVars, faults>>
    BY <1>1, SameReceiver DEF RxReadTimeOut, Receiver
  <2>2. RxP!PollEffect
    BY <2>1, RxP!ReadTimeOutEffect, ProgramAssumption, CodesHere DEF ProgramsOK
  <2>3. rPortOpen /\ rPortOpen' = rPortOpen
    BY <1>0, <2>1 DEF RxP!ReadTimeOut, RxP!SessionOwnsResources
  <2> QED BY <2>1, <2>2, <2>3 DEF ReceiverActs
<1>2. CASE StopReceive
  <2>1. RxP!stopReceive /\ UNCHANGED <<tVars, faults, rPortOpen>>
    BY <1>2 DEF StopReceive, Receiver, Rx!stopReceive, Rx!Stop,
       RxP!stopReceive, RxP!Stop, Rx!Room, RxP!Room, Rx!Reset, RxP!Reset, Rx!StageNone,
       RxP!StageNone, Rx!Send, RxP!Send, Rx!Write, RxP!Write, Rx!Cans, RxP!Cans,
       Rx!Ctl, RxP!Ctl, Rx!NoPacket, RxP!NoPacket, Rx!KeepFile, RxP!KeepFile,
       Rx!file, RxP!file
  <2>2. RxP!Gives("Abort")
    BY <2>1, RxP!OtherEffects, ProgramAssumption, CodesHere
  <2> QED BY <2>1, <2>2 DEF ReceiverActs
<1>3. CASE StartReceive \/ RxWriteTimeOut
  <2>1. /\ RxP!startReceive \/ RxP!writeTimeOut
        /\ RxP!startReceive => rStatus \notin RxP!Terminal /\ ~rButton
        /\ RxP!writeTimeOut => rWriteTimer
        /\ UNCHANGED <<tVars, faults>>
    BY <1>3 DEF StartReceive, RxWriteTimeOut, Receiver, Rx!startReceive, Rx!Start,
       RxP!startReceive, RxP!Start, Rx!writeTimeOut, Rx!WriteTimeOut,
       RxP!writeTimeOut, RxP!WriteTimeOut, Rx!engine, RxP!engine, Rx!KeepFile,
       RxP!KeepFile, Rx!file, RxP!file, Rx!Running, RxP!Running, Rx!Terminal,
       RxP!Terminal
  <2>2. /\ ReceiverRests /\ UNCHANGED <<rCode, rRxBuffer>> /\ toRx' \in {toRx, <<>>}
        /\ RxP!writeTimeOut => UNCHANGED rStatus
    BY <2>1, RxP!OtherEffects, ProgramAssumption, CodesHere DEF ReceiverRests
  <2>3. RxP!startReceive => Live /\ ~rPortOpen
    BY <1>0, <2>1 DEF Live, RxP!SessionOwnsResources
  <2>4. RxP!writeTimeOut => ~Live'
    BY <1>0, <2>1, <2>2 DEF Live, RxP!OutcomePending, RxP!Terminal
  <2> QED BY <2>1, <2>2, <2>3, <2>4 DEF ReceiverActs, ReceiverRestarts
<1> QED BY <1>1, <1>2, <1>3

\* The line is opened, or closed after an outcome: nothing was on it.
LEMMA ReceiverRestartsKeeps ==
  ASSUME ProgramsOK, UNCHANGED tVars, OnTrack, Progress, ReceiverRestarts, Live'
  PROVE  /\ Reading' /\ AllThere' /\ EndsInItem' /\ NextFollows' /\ NotStarted'
         /\ Progress' /\ CFollows'
<1> USE DEF RxP!StageNone, RxP!StageEstablishing, RxP!StageEstablished,
            RxP!StageTransmitting, RxP!StageFinishing, RxP!StageFinished
<1>1. /\ Reading /\ AllThere /\ EndsInItem /\ NextFollows /\ NotStarted /\ CFollows
      /\ ~rPortOpen
  BY DEF OnTrack, ReceiverRestarts
<1>2. /\ rStage = 0 /\ rStage' = 0 /\ rCode' = "None" /\ rRxBuffer' = <<>> /\ toTx' = toTx
      /\ toRx' \in {toRx, <<>>} /\ rRxBuffer = <<>> /\ ~Opened /\ ~Opened'
      /\ received' = received
  BY <1>1 DEF Reading, NotStarted, ReceiverRestarts, ReceiverRests, RxP!Clean, Opened, tVars
<1>3. RxP!Pending' = RxP!Pending \/ RxP!Pending' = <<>>
  <2>1. <<>> \o <<>> = <<>>
    OBVIOUS
  <2> QED BY <1>2, <2>1 DEF RxP!Pending
<1>4. AllThere'
  <2>1. tFileSize' = tFileSize
    BY DEF tVars
  <2>2. \A size : Framed(size, <<>>)
    BY DEF Framed
  <2> QED BY <1>1, <1>3, <2>1, <2>2 DEF AllThere
<1>5. Reading' /\ EndsInItem' /\ NextFollows'
  BY <1>2 DEF Reading, RxP!Clean, EndsInItem, NextFollows, Receiving
<1>6. NotStarted' /\ Progress'
  BY <1>1, <1>2 DEF NotStarted, Progress, Receiving
<1>7. CFollows'
  BY <1>1, <1>2 DEF CFollows, tVars, TxP!HeaderOut, TxP!Unsent, TxP!StageEstablished
<1> QED BY <1>4, <1>5, <1>6, <1>7

\* What is behind the open line.
Track == Reading /\ Kept /\ Progress /\ CFollows

\* An answer that is no lone ACK keeps ACK and C together.
LEMMA CFollowsLonger ==
  ASSUME ProgramsOK, UNCHANGED tVars, CFollows, NEW w \in RxP!Answers, RxP!Wrote(w),
         w = RxP!Ctl("Ack") => ~TxP!HeaderOut
  PROVE  CFollows'
<1>0. toTx \in Seq(RxP!Unit) /\ w \in Seq(RxP!Unit)
  BY ChannelTypes, AnswerBytes
<1>1. (TxP!HeaderOut' <=> TxP!HeaderOut) /\ (TxP!Unsent' <=> TxP!Unsent)
  BY DEF tVars, TxP!HeaderOut, TxP!Unsent, TxP!StageEstablished
<1>2. TxP!HeaderOut => Paired(toTx \o w)
  <2> SUFFICES ASSUME TxP!HeaderOut PROVE Paired(toTx \o w)
    OBVIOUS
  <2>1. w \in {RxP!Ctl("C"), RxP!Ctl("Nak"), RxP!AckC} /\ Paired(toTx)
    BY DEF RxP!Answers, CFollows
  <2> QED BY <1>0, <2>1, PairedAnswers, PairedLonger
<1>3. toTx # <<>> => toTx \o w # <<>> /\ (toTx \o w)[1] = toTx[1]
  BY <1>0
<1>4. CASE toTx' = toTx
  BY <1>1, <1>4 DEF CFollows
<1>5. CASE toTx' = toTx \o w
  BY <1>1, <1>2, <1>3, <1>5 DEF CFollows
<1> QED BY <1>4, <1>5 DEF RxP!Wrote

\* The header waits for its ACK: it is what a timeout or a NAK sends again.
LEMMA HeaderItem ==
  ASSUME ProgramsOK, TxP!HeaderOut
  PROVE  Opened /\ ~TxP!Unsent /\ Rank(Item) = 0
<1>1. /\ tStage = TxP!StageEstablished /\ tDataCount = 0
      /\ tTxBuffer = TxP!Wire(TxP!Info(tFileSize))
  BY DEF TxP!HeaderOut, ProgramsOK, TxP!ResendIsCurrent
<1>2. Opened /\ ~TxP!Unsent
  BY <1>1 DEF Opened, TxP!Unsent, TxP!StageEstablished, TxP!StageFinished
<1>3. TxP!Info(tFileSize) \in TxP!Packet
  <2>1. tFileSize \in Nat
    BY LinkTypes DEF LinkTypeOK
  <2> QED BY <2>1, TxP!InfoType, ProgramAssumption, CodesHere
<1>4. TxP!Info(tFileSize).kind = "Soh" /\ TxP!Info(tFileSize).what = "info"
  BY DEF TxP!Info
<1> QED BY <1>1, <1>2, <1>3, <1>4, WireAlike DEF Item

\* A block on its way means that the header waits no longer.
LEMMA BlockMeansNoHeader ==
  ASSUME ProgramsOK, OrderInv, 1 \in 1 .. Len(Coming), Rank(Coming[1]) >= 1
  PROVE  ~TxP!HeaderOut
<1> SUFFICES ASSUME TxP!HeaderOut PROVE FALSE
  OBVIOUS
<1>1. Opened /\ Rank(Item) = 0
  BY HeaderItem
<1>2. Before(Coming[1], Item)
  BY <1>1 DEF OrderInv, ComingBeforeItem
<1> QED BY <1>1, <1>2, RankType DEF Before

\* Nor does it once a block was taken.
LEMMA TakenMeansNoHeader ==
  ASSUME ProgramsOK, OrderInv, Reading, Kept, rStage = RxP!StageTransmitting
  PROVE  ~TxP!HeaderOut
<1> SUFFICES ASSUME TxP!HeaderOut PROVE FALSE
  OBVIOUS
<1>1. Opened /\ ~TxP!Unsent /\ Rank(Item) = 0
  BY HeaderItem
<1>2. PICK u \in RxP!Unit :
        /\ TookLast(u)
        /\ RxP!Pending # <<>> => Follows(tFileSize, u, RxP!Pending[1])
        /\ RxP!Pending = <<>> /\ Opened => AtEnd(u)
  BY DEF Kept, NextFollows, Receiving
<1>3. Rank(u) = 1
  BY <1>2 DEF TookLast
<1>4. CASE RxP!Pending = <<>>
  BY <1>1, <1>2, <1>3, <1>4 DEF AtEnd
<1>5. CASE RxP!Pending # <<>>
  <2>1. PICK v : v = RxP!Pending[1]
    OBVIOUS
  <2>2. Rank(v) >= 1
    <3>1. Follows(tFileSize, u, v)
      BY <1>2, <1>5, <2>1
    <3> QED BY <1>3, <3>1, FollowsRank
  <2>3. 1 \in 1 .. Len(Coming) /\ Coming[1] = v
    BY <1>5, <2>1, ComingFirst DEF Reading
  <2> QED BY <2>2, <2>3, BlockMeansNoHeader
<1> QED BY <1>4, <1>5

\* What was taken in vain is what was taken last.
LEMMA VainRepeats ==
  ASSUME Receiving, NEW u, NEW v, TookLast(u), Follows(tFileSize, u, v),
         NEW r, RxP!InVain(r),
         Rank(v) = 4 => r.ret = "Can",
         Rank(v) = 2 <=> r.ret = "Eot",
         Rank(v) \in {0, 1} => r.pkt = v.pkt /\ r.pkt.kind # "None"
  PROVE  u = v
<1>1. ~RxP!Due(r) /\ r.ret \notin {"Eot", "Can"}
  BY DEF Receiving, RxP!InVain, RxP!AbortCodes
<1>2. Rank(v) \notin {2, 4}
  BY <1>1
<1>3. /\ rStage \in {2, 3} /\ (rStage = 2 => Rank(u) = 0)
      /\ (rStage = 3 => Rank(u) = 1 /\ u.pkt.num = rDataCount)
  BY DEF Receiving, TookLast, RxP!StageEstablished, RxP!StageTransmitting
<1>4. CASE Rank(u) = 0 /\ Rank(v) = 1 /\ v.pkt = TxP!Block(1, 0, tFileSize)
  <2>1. v.pkt.num = 1 /\ rStage = 2
    BY <1>3, <1>4 DEF TxP!Block
  <2> QED BY <1>1, <1>4, <2>1 DEF RxP!Due, RxP!StageEstablished
<1>5. CASE /\ Rank(u) = 1 /\ Rank(v) = 1
           /\ LET end == u.pkt.from + u.pkt.n
              IN v.pkt = TxP!Block(TxP!NextNum(u.pkt.num), end, tFileSize - end)
  <2>1. rStage = 3 /\ v.pkt.num = RxP!NextNum(rDataCount)
    BY <1>3, <1>5 DEF TxP!Block, TxP!NextNum, RxP!NextNum
  <2> QED BY <1>1, <1>5, <2>1 DEF RxP!Due, RxP!StageTransmitting
<1> QED BY <1>2, <1>3, <1>4, <1>5 DEF Follows

\* What was taken goes, and the rest follows it.
LEMMA FirstGoes ==
  ASSUME ProgramsOK, Reading, Kept, UNCHANGED tVars, NEW r \in RxP!receivePacket,
         RxP!TakesFirst(r), RxP!Poll(r), rCode' = "None",
         NEW v, v = RxP!Pending[1], Receiving' => TookLast(v)'
  PROVE  RxP!Clean' /\ Kept'
<1>1. /\ RxP!Clean' /\ AllThere' /\ EndsInItem'
      /\ RxP!Pending' # <<>> => Follows(tFileSize', v, RxP!Pending'[1])
      /\ RxP!Pending' = <<>> /\ Opened' => AtEnd(v)'
  BY RestFollows DEF Reading, Kept
<1>2. v \in RxP!Unit
  <2>1. PICK s \in Seq(RxP!Unit) : s = RxP!Pending
    BY PendingType
  <2>2. s # <<>>
    BY <2>1 DEF RxP!TakesFirst
  <2>3. s[1] \in RxP!Unit
    BY <2>2
  <2> QED BY <2>1, <2>3
<1>3. NextFollows'
  BY <1>1, <1>2 DEF NextFollows
<1> QED BY <1>1, <1>3 DEF Kept

\* A poll that begins a session.
LEMMA ReceiverIdles ==
  ASSUME ProgramsOK, Track, UNCHANGED tVars, RxP!Idles
  PROVE  Track'
<1> USE DEF RxP!StageNone, RxP!StageEstablishing, RxP!StageEstablished,
            RxP!StageTransmitting, RxP!StageFinishing, RxP!StageFinished
<1>1. /\ rRxBuffer' = rRxBuffer /\ toRx' = toRx /\ rCode' = "None" /\ rStage' = 1
      /\ rStage = 0 /\ received' = received
  BY DEF RxP!Idles, RxP!NoPoll
<1>2. Reading'
  BY <1>1 DEF Track, Reading, RxP!Clean
<1>3. AllThere' /\ EndsInItem' /\ NextFollows'
  <2>1. RxP!Pending' = RxP!Pending
    BY <1>1 DEF RxP!Pending
  <2>2. tFileSize' = tFileSize /\ (Opened' <=> Opened) /\ \A u : AtEnd(u)' <=> AtEnd(u)
    BY DEF tVars, Opened, AtEnd, TxP!Unsent, Item
  <2>3. AllThere'
    BY <2>1, <2>2 DEF Track, Kept, AllThere
  <2>4. EndsInItem'
    BY <2>1, <2>2 DEF Track, Kept, EndsInItem
  <2> QED BY <1>1, <2>3, <2>4 DEF NextFollows, Receiving
<1>4. Progress'
  BY <1>1 DEF Track, Progress, Receiving
<1>5. CFollows'
  <2>1. RxP!Ctl("C") # RxP!Ctl("Ack")
    BY DEF RxP!Ctl
  <2>2. RxP!Ctl("C") \in RxP!Answers /\ RxP!Wrote(RxP!Ctl("C")) /\ CFollows
    BY DEF RxP!Answers, RxP!Idles, Track
  <2> QED BY <2>1, <2>2, CFollowsLonger
<1> QED BY <1>2, <1>3, <1>4, <1>5 DEF Track, Kept

\* A poll that asks again.
LEMMA ReceiverAsks ==
  ASSUME ProgramsOK, OrderInv, Track, UNCHANGED tVars, RxP!Asks
  PROVE  Track'
<1> USE DEF RxP!StageNone, RxP!StageEstablishing, RxP!StageEstablished,
            RxP!StageTransmitting, RxP!StageFinishing, RxP!StageFinished
<1>1. PICK r \in RxP!receivePacket : RxP!Poll(r) /\ rCode' = r.code /\ RxP!InVain(r)
  BY DEF RxP!Asks
<1>2. /\ UNCHANGED <<rStage, rDataCount, rFileCount, received, tFileSize>> /\ rStage # 0
      /\ (Opened' <=> Opened) /\ \A u : AtEnd(u)' <=> AtEnd(u)
  BY DEF RxP!Asks, tVars, Opened, AtEnd, TxP!Unsent, Item
<1>3. Reading /\ Kept /\ RxP!Clean /\ AllThere
  BY DEF Track, Reading, Kept
<1>4. RxP!Clean' /\ Kept'
  <2>1. CASE RxP!Leaves(r)
    <3>1. RxP!Clean' /\ RxP!Pending' = RxP!Pending
      <4>1. toRx \in Seq(RxP!Unit) /\ rRxBuffer \in Seq(RxP!Unit)
        BY ChannelTypes
      <4> QED BY <1>1, <2>1, <4>1, RxP!KeptAndTaken, ProgramAssumption, CodesHere
    <3>2. AllThere' /\ EndsInItem'
      BY <1>2, <1>3, <3>1 DEF Kept, AllThere, EndsInItem
    <3>3. NextFollows'
      <4> SUFFICES ASSUME Receiving'
                   PROVE  \E u \in RxP!Unit :
                            /\ TookLast(u)'
                            /\ RxP!Pending' # <<>> => Follows(tFileSize', u, RxP!Pending'[1])
                            /\ RxP!Pending' = <<>> /\ Opened' => AtEnd(u)'
        BY DEF NextFollows
      <4>1. Receiving
        BY <1>2 DEF Receiving
      <4>2. PICK u \in RxP!Unit :
              /\ TookLast(u)
              /\ RxP!Pending # <<>> => Follows(tFileSize, u, RxP!Pending[1])
              /\ RxP!Pending = <<>> /\ Opened => AtEnd(u)
        BY <1>3, <4>1 DEF Kept, NextFollows
      <4>3. TookLast(u)'
        BY <1>2, <4>2 DEF TookLast
      <4> QED BY <1>2, <3>1, <4>2, <4>3
    <3> QED BY <3>1, <3>2, <3>3 DEF Kept
  <2>2. CASE RxP!TakesFirst(r)
    <3>1. rCode' = "None" /\ RxP!Pending # <<>>
      BY <1>1, <2>2 DEF RxP!TakesFirst
    <3>2. PICK v : v = RxP!Pending[1]
      OBVIOUS
    <3>3. ASSUME Receiving' PROVE TookLast(v)'
      <4>1. Receiving
        BY <1>2, <3>3 DEF Receiving
      <4>2. PICK u \in RxP!Unit : TookLast(u) /\ Follows(tFileSize, u, v)
        BY <1>3, <3>1, <3>2, <4>1 DEF Kept, NextFollows
      <4>3. /\ Rank(v) = 4 => r.ret = "Can"
            /\ Rank(v) = 2 <=> r.ret = "Eot"
            /\ Rank(v) \in {0, 1} => r.pkt = v.pkt /\ r.pkt.kind # "None"
        BY <1>3, <2>2, <3>2, FirstRead
      <4>4. u = v
        BY <1>1, <4>1, <4>2, <4>3, VainRepeats
      <4> QED BY <1>2, <4>2, <4>4 DEF TookLast
    <3> QED BY <1>1, <1>3, <2>2, <3>1, <3>2, <3>3, FirstGoes
  <2> QED BY <1>3, <2>1, <2>2, ReadAtAll
<1>5. Progress'
  BY <1>2 DEF Track, Progress, Receiving, Promise!FirstBytes
<1>6. CFollows'
  <2>1. PICK w \in RxP!Answers : RxP!Suits(w) /\ RxP!Wrote(w)
    BY DEF RxP!Asks, RxP!Suits
  <2>2. w = RxP!Ctl("Ack") => rStage = RxP!StageTransmitting
    BY <2>1 DEF RxP!Suits
  <2>3. w = RxP!Ctl("Ack") => ~TxP!HeaderOut
    BY <1>3, <2>2, TakenMeansNoHeader
  <2> QED BY <2>1, <2>3, CFollowsLonger DEF Track
<1>7. Reading'
  BY <1>2, <1>4 DEF Reading
<1> QED BY <1>4, <1>5, <1>6, <1>7 DEF Track

\* The beginning of a file of no bytes.
LEMMA NoBytes == Promise!FirstBytes(0) = <<>>
BY DEF Promise!FirstBytes

\* The header is taken.
LEMMA ReceiverTakesHeader ==
  ASSUME ProgramsOK, OrderInv, HeaderInv, Track, UNCHANGED tVars, RxP!HeaderTaken
  PROVE  Track'
<1> USE DEF RxP!StageNone, RxP!StageEstablishing, RxP!StageEstablished,
            RxP!StageTransmitting, RxP!StageFinishing, RxP!StageFinished
<1>1. PICK r \in RxP!receivePacket : r.pkt.kind = "Soh" /\ RxP!Poll(r)
  BY DEF RxP!HeaderTaken
<1>2. /\ rStage = 1 /\ rStage' = 2 /\ rStatus \notin RxP!Terminal /\ rCode' = "None"
      /\ rFileCount' = 0 /\ received' = <<>> /\ tFileSize' = tFileSize
  BY DEF RxP!HeaderTaken, tVars
<1>3. Reading /\ Kept /\ RxP!Clean /\ AllThere
  BY DEF Track, Reading, Kept
<1>4. RxP!TakesFirst(r)
  BY <1>1, <1>3, ReadSomething
<1>5. PICK v : v = RxP!Pending[1]
  OBVIOUS
<1>6. Rank(v) = 0
  <2>1. RxP!Pending # <<>>
    BY <1>4 DEF RxP!TakesFirst
  <2>2. 1 \in 1 .. Len(Coming) /\ Coming[1] = v
    BY <1>3, <1>5, <2>1, ComingFirst
  <2>3. Rank(Coming[1]) \in {0, 1, 3}
    BY <1>1, PacketRead
  <2>4. Rank(Coming[1]) \in {0, 4}
    BY <1>2, <2>2 DEF HeaderInv, NoHeaderYet
  <2> QED BY <2>2, <2>3, <2>4
<1>7. RxP!Clean' /\ Kept'
  <2>1. TookLast(v)'
    BY <1>2, <1>6 DEF TookLast, Rank
  <2> QED BY <1>1, <1>2, <1>3, <1>4, <1>5, <2>1, FirstGoes
<1>8. Progress'
  <2>1. tFileSize \in Nat
    BY LinkTypes DEF LinkTypeOK
  <2> QED BY <1>2, <2>1, NoBytes DEF Progress, Receiving, Promise!FirstBytes
<1>9. CFollows'
  <2>1. RxP!AckC # RxP!Ctl("Ack")
    <3>1. Len(RxP!AckC) = 2 /\ Len(RxP!Ctl("Ack")) = 1
      BY DEF RxP!AckC, RxP!Ctl
    <3> QED BY <3>1
  <2>2. RxP!AckC \in RxP!Answers /\ RxP!Wrote(RxP!AckC) /\ CFollows
    BY DEF RxP!Answers, RxP!HeaderTaken, Track
  <2> QED BY <2>1, <2>2, CFollowsLonger
<1> QED BY <1>2, <1>7, <1>8, <1>9 DEF Track, Reading

\* EOT is refused, when all of the file was written, and taken.
LEMMA ReceiverTakesEot ==
  ASSUME ProgramsOK, Track, UNCHANGED tVars, RxP!EotRefused \/ RxP!EotTaken
  PROVE  Track'
<1> USE DEF RxP!StageNone, RxP!StageEstablishing, RxP!StageEstablished,
            RxP!StageTransmitting, RxP!StageFinishing, RxP!StageFinished
<1>1. PICK r \in RxP!receivePacket : r.ret = "Eot" /\ RxP!Poll(r)
  BY DEF RxP!EotRefused, RxP!EotTaken, RxP!Hears
<1>2. /\ rCode' = "None" /\ UNCHANGED <<rFileCount, received, tFileSize>>
      /\ rStage' \in {4, 5}
  BY DEF RxP!EotRefused, RxP!EotTaken, tVars
<1>3. Reading /\ Kept /\ RxP!Clean /\ AllThere
  BY DEF Track, Reading, Kept
<1>4. RxP!TakesFirst(r)
  BY <1>1, <1>3, ReadSomething
<1>5. PICK v : v = RxP!Pending[1]
  OBVIOUS
<1>6. RxP!Clean' /\ Kept'
  <2>1. ~Receiving'
    BY <1>2 DEF Receiving
  <2> QED BY <1>1, <1>2, <1>3, <1>4, <1>5, <2>1, FirstGoes
<1>7. received = Promise!FirstBytes(tFileSize)
  <2>1. CASE RxP!EotTaken
    BY <2>1 DEF RxP!EotTaken, Track, Progress
  <2>2. CASE RxP!EotRefused
    <3>1. Receiving /\ rStage \in {2, 3}
      BY <2>2 DEF RxP!EotRefused, Receiving
    <3>2. RxP!Pending # <<>> /\ Rank(v) = 2
      BY <1>1, <1>3, <1>4, <1>5, FirstRead
    <3>3. PICK u \in RxP!Unit : TookLast(u) /\ Follows(tFileSize, u, v)
      BY <1>3, <1>5, <3>1, <3>2 DEF Kept, NextFollows
    <3>4. /\ rStage = 2 => Rank(u) = 0
          /\ rStage = 3 => Rank(u) = 1 /\ u.pkt.from + u.pkt.n = rFileCount
      BY <3>3 DEF TookLast
    <3>5. /\ Rank(u) = 0 => tFileSize = 0
          /\ Rank(u) = 1 => u.pkt.from + u.pkt.n = tFileSize
      BY <3>2, <3>3 DEF Follows
    <3>6. /\ received = Promise!FirstBytes(rFileCount)
          /\ rStage = 2 => rFileCount = 0
      BY <3>1 DEF Track, Progress
    <3>7. rFileCount = tFileSize
      BY <3>1, <3>4, <3>5, <3>6
    <3> QED BY <3>6, <3>7
  <2> QED BY <2>1, <2>2
<1>8. Progress'
  BY <1>2, <1>7 DEF Progress, Receiving, Promise!FirstBytes
<1>9. CFollows'
  <2>1. RxP!AckC # RxP!Ctl("Ack") /\ RxP!Ctl("Nak") # RxP!Ctl("Ack")
    <3>1. Len(RxP!AckC) = 2 /\ Len(RxP!Ctl("Ack")) = 1
      BY DEF RxP!AckC, RxP!Ctl
    <3>2. RxP!Ctl("Nak")[1].byte = "Nak" /\ RxP!Ctl("Ack")[1].byte = "Ack"
      BY DEF RxP!Ctl
    <3> QED BY <3>1, <3>2
  <2>2. PICK w \in RxP!Answers : w \in {RxP!AckC, RxP!Ctl("Nak")} /\ RxP!Wrote(w)
    BY DEF RxP!Answers, RxP!EotRefused, RxP!EotTaken
  <2> QED BY <2>1, <2>2, CFollowsLonger DEF Track
<1> QED BY <1>2, <1>6, <1>8, <1>9 DEF Track, Reading

\* A packet whose number is due is the block that comes next in the file.
LEMMA DueBlock ==
  ASSUME ProgramsOK, OrderInv, HeaderInv, Track, NEW r \in RxP!receivePacket, RxP!Due(r),
         NEW v, v = RxP!Pending[1]
  PROVE  /\ RxP!TakesFirst(r) /\ r.pkt = v.pkt /\ r.ret = r.pkt.kind
         /\ Rank(v) = 1 /\ v.pkt.n # 0 /\ v.pkt.n \in Nat
         /\ \E num : v.pkt = TxP!Block(num, rFileCount, tFileSize - rFileCount)
         /\ received = Promise!FirstBytes(rFileCount) /\ rFileCount <= tFileSize
         /\ ~TxP!HeaderOut
<1> USE DEF RxP!StageEstablished, RxP!StageTransmitting
<1>0. /\ Receiving /\ rStage \in {2, 3} /\ r.pkt.kind # "None"
      /\ (rStage = 2 => r.pkt.num = 1)
      /\ (rStage = 3 => r.pkt.num = RxP!NextNum(rDataCount))
  BY DEF RxP!Due, Receiving
<1>1. Reading /\ Kept /\ RxP!Clean /\ AllThere
  BY DEF Track, Reading, Kept
<1>2. RxP!TakesFirst(r)
  BY <1>0, <1>1, ReadSomething
<1>3. /\ RxP!Pending # <<>> /\ r.pkt = v.pkt /\ r.ret = r.pkt.kind
      /\ r.pkt.kind \in {"Soh", "Stx"}
  BY <1>0, <1>1, <1>2, FirstRead
<1>4. Rank(v) \in {0, 1, 3} /\ 1 \in 1 .. Len(Coming) /\ Coming[1] = v
  <2>1. 1 \in 1 .. Len(Coming) /\ Coming[1] = v
    BY <1>1, <1>3, ComingFirst
  <2>2. Rank(Coming[1]) \in {0, 1, 3}
    BY <1>0, PacketRead
  <2> QED BY <2>1, <2>2
<1>5. Genuine(v) /\ v \in RxP!Unit /\ v.pkt.n \in Nat
  <2>1. Genuine(v)
    BY <1>4 DEF OrderInv, ComingGenuine
  <2>2. Coming[1] \in RxP!Unit
    BY <1>0, PacketRead
  <2> QED BY <1>4, <2>1, <2>2, UnitParts
<1>6. PICK u \in RxP!Unit : TookLast(u) /\ Follows(tFileSize, u, v)
  BY <1>0, <1>1, <1>3 DEF Kept, NextFollows
<1>7. /\ rStage = 2 => Rank(u) = 0
      /\ rStage = 3 => /\ Rank(u) = 1 /\ u.pkt.from + u.pkt.n = rFileCount
                       /\ u.pkt.num = rDataCount
  BY <1>6 DEF TookLast
<1>8. u # v
  <2>1. CASE rStage = 2
    <3>1. Rank(v) = 0 => v.pkt.num = 0
      BY <1>5 DEF Genuine, TxP!Info
    <3> QED BY <1>0, <1>3, <1>7, <2>1, <3>1
  <2>2. CASE rStage = 3
    <3>1. rDataCount \in 0 .. NumMod - 1 /\ NumMod \in Nat /\ NumMod > 2
      BY LinkTypes, ProgramAssumption DEF LinkTypeOK
    <3>2. RxP!NextNum(rDataCount) # rDataCount
      BY <3>1 DEF RxP!NextNum
    <3> QED BY <1>0, <1>3, <1>7, <2>2, <3>2
  <2> QED BY <1>0, <2>1, <2>2
<1>9. /\ received = Promise!FirstBytes(rFileCount) /\ rFileCount <= tFileSize
      /\ rStage = 2 => rFileCount = 0
  BY <1>0 DEF Track, Progress
<1>10. Rank(v) = 1 /\ \E num : v.pkt = TxP!Block(num, rFileCount, tFileSize - rFileCount)
  <2>1. CASE Rank(u) = 0 /\ Rank(v) = 1 /\ v.pkt = TxP!Block(1, 0, tFileSize)
    <3>1. rFileCount = 0 /\ tFileSize \in Nat
      BY <1>0, <1>7, <1>9, <2>1, LinkTypes DEF LinkTypeOK
    <3>2. tFileSize - rFileCount = tFileSize
      BY <3>1
    <3> QED BY <2>1, <3>1, <3>2
  <2>2. CASE /\ Rank(u) = 1 /\ Rank(v) = 1
             /\ LET end == u.pkt.from + u.pkt.n
                IN v.pkt = TxP!Block(TxP!NextNum(u.pkt.num), end, tFileSize - end)
    <3>1. u.pkt.from + u.pkt.n = rFileCount
      BY <1>0, <1>7, <2>2
    <3>2. v.pkt = TxP!Block(TxP!NextNum(u.pkt.num), rFileCount, tFileSize - rFileCount)
      BY <2>2, <3>1
    <3> QED BY <2>2, <3>2
  <2> QED BY <1>0, <1>4, <1>6, <1>7, <1>8, <2>1, <2>2 DEF Follows
<1>11. v.pkt.n # 0
  BY <1>5, <1>10 DEF Genuine
<1>12. ~TxP!HeaderOut
  BY <1>4, <1>10, BlockMeansNoHeader
<1> QED BY <1>2, <1>3, <1>5, <1>9, <1>10, <1>11, <1>12

\* What is written of it is all of it, in its place.
LEMMA BlockWritten ==
  ASSUME NEW size \in Nat, NEW count \in Nat, count <= size, size <= DiskSize,
         rFileSize = size, rFileCount = count,
         received = Promise!FirstBytes(count),
         NEW num, NEW r, r.pkt = TxP!Block(num, count, size - count), r.ret = r.pkt.kind
  PROVE  /\ RxP!Taken(RxP!DataLength(r)) = r.pkt.n
         /\ r.pkt.from = count /\ r.pkt.n \in Nat /\ count + r.pkt.n <= size
         /\ RxP!OnDisk(received \o RxP!Payload(r.pkt, r.pkt.n))
              = Promise!FirstBytes(count + r.pkt.n)
<1>0. /\ PacketSize \in Nat \ {0} /\ Packet1kSize \in Nat /\ Packet1kSize > PacketSize
      /\ DiskSize \in Nat
  BY ProgramAssumption
<1>1. PICK left \in Nat : left = size - count
  OBVIOUS
<1>2. PICK p : p = r.pkt
  OBVIOUS
<1>3. /\ p.kind = IF left > PacketSize THEN "Stx" ELSE "Soh"
      /\ p.what = "data" /\ p.from = count
      /\ p.n = TxP!BlockRead(left)
  BY <1>0, <1>1, <1>2 DEF TxP!Block, TxP!BlockSize
<1>4. PICK k : k = p.n
  OBVIOUS
<1>5. PICK len : len = RxP!DataLength(r)
  OBVIOUS
<1>6. len = (IF left > PacketSize THEN Packet1kSize ELSE PacketSize)
  BY <1>2, <1>3, <1>5 DEF RxP!DataLength
<1>7. k = (IF left < len THEN left ELSE len) /\ len \in Nat
  BY <1>0, <1>3, <1>4, <1>6 DEF TxP!BlockRead, TxP!BlockSize
<1>8. RxP!Taken(len) = k
  <2>1. RxP!Taken(len) = IF left > len THEN len ELSE left
    BY <1>1 DEF RxP!Taken
  <2> QED BY ONLY <1>1, <1>7, <2>1
<1>9. k \in Nat /\ count + k \in Nat /\ count + k <= size /\ count + k <= DiskSize
  <2>1. size \in Nat /\ count \in Nat /\ count <= size /\ size <= DiskSize
    OBVIOUS
  <2> QED BY ONLY <1>0, <1>1, <1>7, <2>1
<1>10. PICK new : new = RxP!Payload(p, k)
  OBVIOUS
<1>11. new \in Seq(Nat) /\ Len(new) = k /\ \A i \in 1 .. k : new[i] = count + i
  <2>1. \A i \in 1 .. k : (IF p.what = "data" /\ i <= p.n THEN p.from + i ELSE 0) = count + i
    BY <1>3, <1>4, <1>9
  <2>2. new = [i \in 1 .. k |-> count + i]
    BY <1>10, <2>1 DEF RxP!Payload
  <2>3. \A i \in 1 .. k : count + i \in Nat
    OBVIOUS
  <2> QED BY <1>9, <2>2, <2>3
<1>12. received \in Seq(Nat) /\ Len(received) = count /\ \A i \in 1 .. count : received[i] = i
  BY DEF Promise!FirstBytes
<1>13. PICK all : all = received \o new
  OBVIOUS
<1>14. /\ all \in Seq(Nat) /\ Len(all) = count + k
       /\ \A i \in 1 .. count : all[i] = received[i]
       /\ \A i \in 1 .. k : all[count + i] = new[i]
  <2>1. received \in Seq(Nat) /\ new \in Seq(Nat)
    BY <1>11, <1>12
  <2>2. /\ received \o new \in Seq(Nat) /\ Len(received \o new) = Len(received) + Len(new)
        /\ \A i \in 1 .. Len(received) : (received \o new)[i] = received[i]
        /\ \A i \in 1 .. Len(new) : (received \o new)[Len(received) + i] = new[i]
    BY ONLY <2>1, Appended
  <2> QED BY <1>11, <1>12, <1>13, <2>2
<1>15. PICK file : file = Promise!FirstBytes(count + k)
  OBVIOUS
<1>16. file \in Seq(Nat) /\ Len(file) = count + k /\ \A i \in 1 .. count + k : file[i] = i
  BY <1>9, <1>15 DEF Promise!FirstBytes
<1>17. ASSUME NEW i \in 1 .. count + k PROVE all[i] = file[i]
  <2>1. CASE i <= count
    <3>1. i \in 1 .. count
      BY <1>9, <2>1
    <3> QED BY <1>12, <1>14, <1>16, <3>1
  <2>2. CASE ~(i <= count)
    <3>1. PICK j : j = i - count
      OBVIOUS
    <3>2. j \in 1 .. k /\ count + j = i
      BY <1>9, <2>2, <3>1
    <3>3. all[i] = new[j] /\ new[j] = count + j
      BY <1>11, <1>14, <3>2
    <3> QED BY <1>16, <3>2, <3>3
  <2> QED BY <2>1, <2>2
<1>18. all = file
  BY ONLY <1>14, <1>16, <1>17, RxP!SameSeq
<1>19. RxP!OnDisk(all) = all
  <2>1. ~(Len(all) > DiskSize) /\ all \in Seq(Nat)
    BY <1>0, <1>9, <1>14
  <2>2. RxP!OnDisk(all) = SubSeq(all, 1, Len(all))
    BY <2>1 DEF RxP!OnDisk
  <2>3. SubSeq(all, 1, Len(all)) = all
    BY ONLY <2>1
  <2> QED BY <2>2, <2>3
<1> QED BY <1>2, <1>3, <1>4, <1>5, <1>8, <1>9, <1>10, <1>13, <1>15, <1>18, <1>19

\* A block is taken.
LEMMA ReceiverTakesBlock ==
  ASSUME ProgramsOK, OrderInv, HeaderInv, Track, tFileSize <= DiskSize, UNCHANGED tVars,
         RxP!BlockTaken
  PROVE  /\ Track'
         /\ \E n \in Len(received) + 1 .. tFileSize : received' = Promise!FirstBytes(n)
<1> USE DEF RxP!StageNone, RxP!StageEstablishing, RxP!StageEstablished,
            RxP!StageTransmitting, RxP!StageFinishing, RxP!StageFinished
<1>1. PICK r \in RxP!receivePacket :
        /\ RxP!Due(r) /\ RxP!Poll(r) /\ rDataCount' = r.pkt.num
        /\ received' = RxP!OnDisk(received \o RxP!Payload(r.pkt, RxP!Taken(RxP!DataLength(r))))
        /\ rFileCount' = rFileCount + RxP!Taken(RxP!DataLength(r))
  BY DEF RxP!BlockTaken
<1>2. PICK v : v = RxP!Pending[1]
  OBVIOUS
<1>3. /\ RxP!TakesFirst(r) /\ r.pkt = v.pkt /\ r.ret = r.pkt.kind
      /\ Rank(v) = 1 /\ v.pkt.n # 0 /\ v.pkt.n \in Nat
      /\ \E num : v.pkt = TxP!Block(num, rFileCount, tFileSize - rFileCount)
      /\ received = Promise!FirstBytes(rFileCount) /\ rFileCount <= tFileSize
      /\ ~TxP!HeaderOut
  BY <1>1, <1>2, DueBlock
<1>4. /\ tFileSize \in Nat /\ rFileCount \in Nat /\ rFileSize = tFileSize
      /\ rStage' = 3 /\ rCode' = "None" /\ tFileSize' = tFileSize
  <2>1. Receiving
    BY <1>1 DEF RxP!Due, Receiving
  <2>2. rFileSize = tFileSize
    BY <2>1 DEF HeaderInv, SizeKnown
  <2>3. tFileSize \in Nat /\ rFileCount \in Nat
    BY LinkTypes DEF LinkTypeOK, ProgramsOK, RxP!Inductive, RxP!TypeOK
  <2> QED BY <2>2, <2>3 DEF RxP!BlockTaken, tVars
<1>5. PICK num : r.pkt = TxP!Block(num, rFileCount, tFileSize - rFileCount)
  BY <1>3
<1>6. PICK size \in Nat : size = tFileSize
  BY <1>4
<1>7. PICK count \in Nat : count = rFileCount
  BY <1>4
<1>8. PICK n \in Nat : n = r.pkt.n
  BY <1>3
<1>9. /\ RxP!Taken(RxP!DataLength(r)) = n /\ r.pkt.from = count /\ count + n <= size
      /\ RxP!OnDisk(received \o RxP!Payload(r.pkt, n)) = Promise!FirstBytes(count + n)
  <2>1. r.pkt = TxP!Block(num, count, size - count) /\ count <= size /\ size <= DiskSize
        /\ rFileSize = size /\ received = Promise!FirstBytes(count)
    BY <1>3, <1>4, <1>5, <1>6, <1>7
  <2> QED BY <1>3, <1>7, <1>8, <2>1, BlockWritten
<1>10. received' = Promise!FirstBytes(count + n) /\ rFileCount' = count + n
  BY <1>1, <1>7, <1>9
<1>11. RxP!Clean' /\ Kept'
  <2>1. Reading /\ Kept
    BY DEF Track
  <2>2. TookLast(v)'
    BY <1>1, <1>3, <1>4, <1>8, <1>9, <1>10 DEF TookLast, Rank
  <2> QED BY <1>1, <1>2, <1>3, <1>4, <2>1, <2>2, FirstGoes
<1>12. Progress'
  BY <1>4, <1>6, <1>9, <1>10 DEF Progress, Receiving, Promise!FirstBytes
<1>13. CFollows'
  <2>1. RxP!Ctl("Ack") \in RxP!Answers /\ RxP!Wrote(RxP!Ctl("Ack")) /\ CFollows
    BY DEF RxP!Answers, RxP!BlockTaken, Track
  <2> QED BY <1>3, <2>1, CFollowsLonger
<1>14. Len(received) = count
  BY <1>3, <1>7 DEF Promise!FirstBytes
<1>15. count + n \in Len(received) + 1 .. tFileSize
  <2>1. n # 0
    BY <1>3, <1>8
  <2> QED BY ONLY <1>6, <1>9, <1>14, <2>1, count \in Nat, n \in Nat, size \in Nat
<1> QED BY <1>4, <1>10, <1>11, <1>12, <1>13, <1>15 DEF Track, Reading

\* A poll of an open line.
LEMMA ReceiverPolls ==
  ASSUME ProgramsOK, OrderInv, HeaderInv, Track, tFileSize <= DiskSize, UNCHANGED tVars,
         RxP!PollEffect, rStatus' \notin RxP!Terminal
  PROVE  Track'
<1>1. ASSUME NEW up \in RxP!Terminal, RxP!Gives(up) PROVE FALSE
  BY <1>1 DEF RxP!Gives
<1>2. ~RxP!BlockKills
  BY EmptyFileHasNoBlock DEF RxP!BlockKills
<1>3. CASE RxP!Idles
  BY <1>3, ReceiverIdles
<1>4. CASE RxP!Asks
  BY <1>4, ReceiverAsks
<1>5. CASE RxP!HeaderTaken
  BY <1>5, ReceiverTakesHeader
<1>6. CASE RxP!BlockTaken
  BY <1>6, ReceiverTakesBlock
<1>7. CASE RxP!EotRefused \/ RxP!EotTaken
  BY <1>7, ReceiverTakesEot
<1> QED BY <1>1, <1>2, <1>3, <1>4, <1>5, <1>6, <1>7 DEF RxP!PollEffect

\* A session that has an outcome gets no other but a cancel.
LEMMA ReceiverEnds ==
  ASSUME ProgramsOK, ReceiverActs
  PROVE  /\ Live' => Live
         /\ rStatus' = "Finish" =>
              /\ received' = received
              /\ rStatus = "Finish" \/ (Live /\ rStage = RxP!StageFinished)
<1> USE DEF RxP!StageNone, RxP!StageEstablishing, RxP!StageEstablished,
            RxP!StageTransmitting, RxP!StageFinishing, RxP!StageFinished
<1>1. ~Live => rStage \in {0, 1}
  BY DEF ProgramsOK, RxP!Inductive, RxP!OutcomePending, RxP!NoTransfer, Live
<1>2. ASSUME NEW up, RxP!Gives(up)
      PROVE  /\ rStatus' = up
             /\ up = "Finish" => received' = received /\ Live /\ rStage = 5
  BY <1>1, <1>2 DEF RxP!Gives
<1>3. CASE RxP!HeaderTaken \/ RxP!BlockTaken
  BY <1>1, <1>3 DEF RxP!HeaderTaken, RxP!BlockTaken, RxP!Due, Live, RxP!Terminal
<1>4. CASE \/ RxP!Idles \/ RxP!Asks \/ RxP!BlockKills \/ RxP!EotRefused \/ RxP!EotTaken
  BY <1>4 DEF RxP!Idles, RxP!Asks, RxP!BlockKills, RxP!EotRefused, RxP!EotTaken, Live
<1>5. CASE ReceiverRestarts
  BY <1>5 DEF ReceiverRestarts, ReceiverRests, Live
<1>6. CASE RxP!Gives("Abort")
  BY <1>2, <1>6 DEF Live, RxP!Terminal
<1>7. ASSUME NEW up \in RxP!Terminal, RxP!Gives(up)
      PROVE  /\ Live' => Live
             /\ rStatus' = "Finish" =>
                  /\ received' = received
                  /\ rStatus = "Finish" \/ (Live /\ rStage = RxP!StageFinished)
  BY <1>2, <1>7 DEF Live
<1> QED BY <1>3, <1>4, <1>5, <1>6, <1>7 DEF ReceiverActs, RxP!PollEffect

\* A step of the receiver.
LEMMA ReceiverLossless ==
  ASSUME Lossless, ReceiverActs
  PROVE  LosslessInv'
<1>0. /\ ProgramsOK /\ OrderInv /\ HeaderInv /\ LosslessInv
      /\ UNCHANGED <<tVars, faults>>
  BY DEF Lossless, ReceiverActs
<1>1. faults' = 0 /\ tFileSize' <= DiskSize /\ tCode' = "None" /\ tFileSize' = tFileSize
      /\ (Unopened' <=> Unopened)
  BY <1>0 DEF LosslessInv, tVars, Unopened, Opened
<1>2. Complete'
  <2> SUFFICES ASSUME rStatus' = "Finish"
               PROVE  received' = Promise!FirstBytes(tFileSize)' /\ ~Unopened'
    BY DEF Complete
  <2>1. /\ received' = received
        /\ rStatus = "Finish" \/ (Live /\ rStage = RxP!StageFinished)
    BY <1>0, ReceiverEnds
  <2>2. CASE rStatus = "Finish"
    BY <1>0, <1>1, <2>1, <2>2 DEF LosslessInv, Complete, Promise!FirstBytes
  <2>3. CASE Live /\ rStage = RxP!StageFinished
    <3>1. received = Promise!FirstBytes(tFileSize)
      BY <1>0, <2>3 DEF LosslessInv, OnTrack, Progress
    <3>2. ~Unopened
      BY <1>0, <2>3 DEF OrderInv, NothingYet, RxP!StageNone, RxP!StageEstablishing,
         RxP!StageFinished
    <3> QED BY <1>1, <2>1, <3>1, <3>2 DEF Promise!FirstBytes
  <2> QED BY <2>1, <2>2, <2>3
<1>3. OnTrack'
  <2> SUFFICES ASSUME Live'
               PROVE  /\ Reading' /\ AllThere' /\ EndsInItem' /\ NextFollows' /\ NotStarted'
                      /\ Progress' /\ CFollows'
    BY DEF OnTrack
  <2>1. Live /\ OnTrack /\ tFileSize <= DiskSize /\ rStatus' \notin RxP!Terminal
    BY <1>0, ReceiverEnds DEF LosslessInv, Live, RxP!Terminal
  <2>2. Track
    BY <2>1 DEF OnTrack, Track, Kept
  <2>3. CASE RxP!PollEffect /\ rPortOpen'
    <3>1. Track'
      BY <1>0, <2>1, <2>2, <2>3, ReceiverPolls
    <3>2. NotStarted'
      BY <2>3 DEF NotStarted
    <3> QED BY <3>1, <3>2 DEF Track, Kept
  <2>4. CASE ReceiverRestarts
    BY <1>0, <2>1, <2>2, <2>4, ReceiverRestartsKeeps DEF Track
  <2>5. ~RxP!Gives("Abort")
    BY <2>1 DEF RxP!Gives, RxP!Terminal
  <2> QED BY <2>3, <2>4, <2>5 DEF ReceiverActs
<1> QED BY <1>1, <1>2, <1>3 DEF LosslessInv

\* A step of the cable: what is gone had not been sent to a session.
LEMMA CableLossless ==
  ASSUME MaxFaults = 0, Lossless, Fault \/ Discard \/ UNCHANGED vars
  PROVE  LosslessInv'
<1> USE DEF RxP!StageNone, RxP!StageEstablishing, RxP!StageEstablished,
            RxP!StageTransmitting, RxP!StageFinishing, RxP!StageFinished
<1>0. ProgramsOK /\ LosslessInv /\ faults = 0
  BY DEF Lossless, LosslessInv
<1>1. ~Fault
  BY <1>0 DEF Fault
<1>2. UNCHANGED <<tVars, rVars, faults>>
  BY <1>1 DEF Discard, vars
<1>3. /\ faults' = 0 /\ tFileSize' <= DiskSize /\ tCode' = "None" /\ Complete'
      /\ tFileSize' = tFileSize
  BY <1>0, <1>2 DEF LosslessInv, Complete, Unopened, Opened, tVars, rVars,
     Promise!FirstBytes
<1>4. \/ toRx' = toRx
      \/ ~rPortOpen /\ toRx' = <<>>
  BY <1>1 DEF Discard, vars
<1>5. \/ toTx' = toTx
      \/ ~Opened /\ toTx' = <<>>
  <2>1. ~tPortOpen => ~Opened
    <3>1. ~tPortOpen => ~tButton
      BY <1>0 DEF ProgramsOK, TxP!Inductive, TxP!SessionOwnsResources
    <3>2. ~tButton => TxP!NoTransfer
      BY <1>0 DEF ProgramsOK, TxP!Inductive, TxP!OutcomePending
    <3> QED BY <3>1, <3>2 DEF TxP!NoTransfer, Opened, TxP!StageNone,
         TxP!StageEstablishing, TxP!StageEstablished, TxP!StageFinished
  <2>2. toTx' = toTx \/ (~tPortOpen /\ toTx' = <<>>)
    BY <1>1 DEF Discard, vars
  <2> QED BY <2>1, <2>2
<1>6. OnTrack'
  <2> SUFFICES ASSUME Live'
               PROVE  /\ Reading' /\ AllThere' /\ EndsInItem' /\ NextFollows' /\ NotStarted'
                      /\ Progress' /\ CFollows'
    BY DEF OnTrack
  <2>1. Live
    BY <1>2 DEF Live, rVars, RxP!Terminal
  <2>2. Reading /\ Kept /\ NotStarted /\ Progress /\ CFollows /\ OnTrack
    BY <1>0, <2>1 DEF LosslessInv, OnTrack, Kept
  <2>3. Reading' /\ Progress'
    BY <1>2, <2>2 DEF Reading, RxP!Clean, rVars, tVars, Progress, Receiving,
       Promise!FirstBytes
  <2>4. NotStarted' /\ CFollows'
    BY <1>2, <1>5, <2>2 DEF NotStarted, CFollows, tVars, rVars, TxP!HeaderOut,
       TxP!Unsent, TxP!StageEstablished, Opened, TxP!StageFinished
  <2>5. (Opened' => Opened) /\ \A u : AtEnd(u) => AtEnd(u)'
    BY <1>2 DEF Opened, AtEnd, TxP!Unsent, Item, tVars
  <2>6. CASE toRx' = toRx
    <3>1. UNCHANGED <<rVars, toRx, tFileSize>>
      BY <1>2, <1>3, <2>6
    <3>2. Kept'
      BY <2>2, <2>5, <3>1, NothingWritten
    <3> QED BY <2>3, <2>4, <3>2 DEF Kept
  <2>7. CASE ~rPortOpen /\ toRx' = <<>>
    <3>1. rStage = 0 /\ rStage' = 0 /\ rRxBuffer' = <<>> /\ ~Opened'
      BY <1>2, <2>2, <2>5, <2>7 DEF NotStarted, Reading, RxP!Clean, rVars
    <3>2. RxP!Pending' = <<>>
      <4>1. <<>> \o <<>> = <<>>
        OBVIOUS
      <4> QED BY <2>7, <3>1, <4>1 DEF RxP!Pending
    <3>3. AllThere'
      <4>1. \A size : Framed(size, <<>>)
        BY DEF Framed
      <4> QED BY <3>2, <4>1 DEF AllThere
    <3>4. EndsInItem' /\ NextFollows'
      BY <3>1 DEF EndsInItem, NextFollows, Receiving
    <3> QED BY <2>3, <2>4, <3>3, <3>4
  <2> QED BY <1>4, <2>6, <2>7
<1> QED BY <1>3, <1>6 DEF LosslessInv

\* Nothing has been sent at the start.
LEMMA LosslessInit == Init => LosslessInv
<1> SUFFICES ASSUME Init PROVE LosslessInv
  OBVIOUS
<1> USE DEF RxP!StageNone, RxP!StageEstablishing, RxP!StageEstablished,
            RxP!StageTransmitting, RxP!StageFinishing, RxP!StageFinished
<1>1. /\ faults = 0 /\ tFileSize = 0 /\ tCode = "None" /\ tStage = 0
      /\ rCode = "None" /\ rStage = 0 /\ rRxBuffer = <<>> /\ toRx = <<>> /\ toTx = <<>>
      /\ received = <<>> /\ rStatus = "Idle"
  BY DEF Init, Tx!Init, Tx!YmodemInit, Rx!Init, Rx!YmodemInit, Tx!StageNone, Rx!StageNone
<1>2. ~Opened /\ ~TxP!HeaderOut /\ ~TxP!Unsent
  BY <1>1 DEF Opened, TxP!HeaderOut, TxP!Unsent, TxP!StageEstablished, TxP!StageFinished
<1>3. RxP!Pending = <<>>
  <2>1. <<>> \o <<>> = <<>>
    OBVIOUS
  <2> QED BY <1>1, <2>1 DEF RxP!Pending
<1>4. AllThere
  <2>1. \A size : Framed(size, <<>>)
    BY DEF Framed
  <2> QED BY <1>3, <2>1 DEF AllThere
<1>5. Reading /\ EndsInItem /\ NextFollows /\ NotStarted /\ Progress /\ CFollows
  BY <1>1, <1>2 DEF Reading, RxP!Clean, EndsInItem, NextFollows, Receiving, NotStarted,
     Progress, CFollows
<1>6. tFileSize <= DiskSize /\ Complete
  BY <1>1, ProgramAssumption DEF Complete
<1> QED BY <1>1, <1>4, <1>5, <1>6 DEF LosslessInv, OnTrack

\* Every step of the link.
LEMMA LosslessStep ==
  ASSUME MaxFaults = 0, FitsDisk
  PROVE  Lossless /\ [Next]_vars => Lossless'
<1> SUFFICES ASSUME Lossless, [Next]_vars PROVE Lossless'
  OBVIOUS
<1>1. ProgramsOK' /\ OrderInv' /\ HeaderInv'
  BY ProgramsStep, OrderStep, HeaderStep DEF Lossless
<1>2. CASE StartTransmit \/ StopTransmit \/ TxReadTimeOut \/ TxWriteTimeOut
  <2>1. SenderActs
    BY <1>2, SenderDoes DEF Lossless, LosslessInv, HeaderInv
  <2> QED BY <1>1, <2>1, SenderLossless DEF Lossless
<1>3. CASE StartReceive \/ StopReceive \/ RxReadTimeOut \/ RxWriteTimeOut
  <2>1. ReceiverActs
    BY <1>3, ReceiverDoes DEF Lossless
  <2> QED BY <1>1, <2>1, ReceiverLossless DEF Lossless
<1>4. CASE Fault \/ Discard \/ UNCHANGED vars
  BY <1>1, <1>4, CableLossless DEF Lossless
<1> QED BY <1>2, <1>3, <1>4 DEF Next, Done

-----------------------------------------------------------------------------
(* The promise *)

\* A step that changes neither the file on disk nor what is reported of it.
SameStory == /\ tFileSize' = tFileSize /\ received' = received
             /\ rStatus' = rStatus \/ (rStatus \notin RxP!Terminal /\ rStatus' \notin RxP!Terminal)
Promised == [Promise!Next]_Promise!vars

\* A step that changes nothing of this keeps the promise.
LEMMA Told == SameStory => Promised
BY DEF SameStory, Promised, Promise!vars, RxP!Terminal

\* A step of the sending program announces a file, or says nothing.
LEMMA SenderPromised ==
  ASSUME Lossless, SenderActs
  PROVE  Promised
<1>1. /\ OrderInv /\ LosslessInv /\ UNCHANGED rVars
  BY DEF Lossless, SenderActs
<1>2. CASE TxP!Opens
  <2>1. Unopened
    BY <1>2 DEF TxP!Opens, Unopened, Opened, TxP!StageEstablished, TxP!StageEstablishing,
       TxP!StageFinished
  <2>2. received = <<>> /\ rStatus # "Finish" /\ tFileSize' \in FileSizes
        /\ received' = received /\ rStatus' = rStatus
    BY <1>1, <1>2, <2>1 DEF OrderInv, NothingYet, LosslessInv, Complete, TxP!Opens, rVars
  <2>3. Promise!Announce
    BY <2>2 DEF Promise!Announce
  <2> QED BY <2>3 DEF Promised, Promise!Next
<1>3. CASE ~TxP!Opens
  <2>1. tFileSize' = tFileSize
    BY <1>3 DEF SenderActs, SenderRests, TxP!PollEffect, TxP!Idles, TxP!Gives,
       TxP!Repeats, TxP!NextBlockRead, TxP!ReadBlock, TxP!FileEnds, TxP!BatchEnds
  <2>2. SameStory
    BY <1>1, <2>1 DEF SameStory, rVars
  <2> QED BY <2>2, Told
<1> QED BY <1>2, <1>3

\* The receiver gives up, is cancelled, or reports the file that is all there.
LEMMA OutcomePromised ==
  ASSUME Lossless, UNCHANGED tVars, NEW up \in RxP!Terminal, RxP!Gives(up)
  PROVE  Promised
<1> USE DEF RxP!StageNone, RxP!StageEstablishing, RxP!StageEstablished,
            RxP!StageTransmitting, RxP!StageFinishing, RxP!StageFinished
<1>1. ProgramsOK /\ LosslessInv /\ tFileSize' = tFileSize /\ received' = received
      /\ rStatus' = up /\ (up = "Finish" => rStage = 5)
  BY DEF Lossless, RxP!Gives, tVars
<1>2. CASE up = "Finish"
  <2>1. Live
    BY <1>1, <1>2 DEF ProgramsOK, RxP!Inductive, RxP!OutcomePending, RxP!NoTransfer, Live
  <2>2. received = Promise!FirstBytes(tFileSize)
    BY <1>1, <1>2, <2>1 DEF LosslessInv, OnTrack, Progress
  <2>3. Promise!ReportReceived
    BY <1>1, <1>2, <2>1, <2>2 DEF Promise!ReportReceived, Live, RxP!Terminal
  <2> QED BY <2>3 DEF Promised, Promise!Next
<1>3. CASE up # "Finish" /\ rStatus \in {"Abort", "Timeout", "Error"}
  <2>1. UNCHANGED Promise!vars
    BY <1>1, <1>3 DEF Promise!vars, RxP!Terminal
  <2> QED BY <2>1 DEF Promised
<1>4. CASE up # "Finish" /\ rStatus \notin {"Abort", "Timeout", "Error"}
  <2>1. Promise!Fail
    BY <1>1, <1>4 DEF Promise!Fail, RxP!Terminal
  <2> QED BY <2>1 DEF Promised, Promise!Next
<1> QED BY <1>2, <1>3, <1>4

\* A block that is taken makes the beginning of the file longer.
LEMMA BlockPromised ==
  ASSUME Lossless, UNCHANGED tVars, RxP!BlockTaken
  PROVE  Promised
<1> USE DEF RxP!StageNone, RxP!StageEstablishing, RxP!StageEstablished,
            RxP!StageTransmitting, RxP!StageFinishing, RxP!StageFinished
<1>1. ProgramsOK /\ OrderInv /\ HeaderInv /\ LosslessInv /\ tFileSize' = tFileSize
      /\ rStatus' = "Transmit"
  BY DEF Lossless, RxP!BlockTaken, tVars
<1>2. Live
  BY <1>1 DEF RxP!BlockTaken, RxP!Due, ProgramsOK, RxP!Inductive, RxP!OutcomePending,
     RxP!NoTransfer, Live
<1>3. Track /\ tFileSize <= DiskSize
  BY <1>1, <1>2 DEF LosslessInv, OnTrack, Track, Kept
<1>4. \E n \in Len(received) + 1 .. tFileSize : received' = Promise!FirstBytes(n)
  BY <1>1, <1>3, ReceiverTakesBlock
<1>5. Promise!Deliver
  BY <1>1, <1>2, <1>4 DEF Promise!Deliver, Live, RxP!Terminal
<1> QED BY <1>5 DEF Promised, Promise!Next

\* A step of the receiving program.
LEMMA ReceiverPromised ==
  ASSUME Lossless, ReceiverActs
  PROVE  Promised
<1> USE DEF RxP!StageNone, RxP!StageEstablishing, RxP!StageEstablished,
            RxP!StageTransmitting, RxP!StageFinishing, RxP!StageFinished
<1>1. ProgramsOK /\ OrderInv /\ HeaderInv /\ LosslessInv /\ UNCHANGED tVars
      /\ tFileSize' = tFileSize
  BY DEF Lossless, ReceiverActs, tVars
<1>2. ASSUME NEW up \in RxP!Terminal, RxP!Gives(up) PROVE Promised
  BY <1>1, <1>2, OutcomePromised
<1>3. CASE RxP!HeaderTaken
  <2>1. received = <<>> /\ received' = <<>>
    BY <1>1, <1>3 DEF RxP!HeaderTaken, LosslessInv, OnTrack, Progress, Live
  <2>2. SameStory
    BY <1>1, <1>3, <2>1 DEF SameStory, RxP!HeaderTaken, RxP!Terminal
  <2> QED BY <2>2, Told
<1>4. CASE RxP!BlockTaken
  BY <1>1, <1>4, BlockPromised
<1>5. CASE RxP!Idles \/ RxP!Asks \/ RxP!BlockKills \/ RxP!EotRefused \/ RxP!EotTaken
  <2>1. SameStory
    BY <1>1, <1>5 DEF SameStory, RxP!Idles, RxP!Asks, RxP!BlockKills, RxP!EotRefused,
       RxP!EotTaken
  <2> QED BY <2>1, Told
<1>6. CASE ReceiverRestarts
  <2>1. SameStory
    BY <1>1, <1>6 DEF SameStory, ReceiverRestarts, ReceiverRests, RxP!Terminal
  <2> QED BY <2>1, Told
<1>7. "Abort" \in RxP!Terminal
  BY DEF RxP!Terminal
<1> QED BY <1>2, <1>3, <1>4, <1>5, <1>6, <1>7 DEF ReceiverActs, RxP!PollEffect

\* Every step of the link is a step of FileTransfer, or none.
LEMMA StepPromised ==
  ASSUME MaxFaults = 0
  PROVE  Lossless /\ [Next]_vars => Promised
<1> SUFFICES ASSUME Lossless, [Next]_vars PROVE Promised
  OBVIOUS
<1>1. CASE StartTransmit \/ StopTransmit \/ TxReadTimeOut \/ TxWriteTimeOut
  <2>1. SenderActs
    BY <1>1, SenderDoes DEF Lossless, LosslessInv, HeaderInv
  <2> QED BY <2>1, SenderPromised
<1>2. CASE StartReceive \/ StopReceive \/ RxReadTimeOut \/ RxWriteTimeOut
  <2>1. ReceiverActs
    BY <1>2, ReceiverDoes DEF Lossless
  <2> QED BY <2>1, ReceiverPromised
<1>3. CASE Fault \/ Discard \/ UNCHANGED vars
  <2>1. ~Fault
    BY DEF Fault, Lossless, LosslessInv
  <2>2. SameStory
    BY <1>3, <2>1 DEF Discard, SameStory, vars, tVars, rVars
  <2> QED BY <2>2, Told
<1> QED BY <1>1, <1>2, <1>3 DEF Next, Done

\* So is the start.
LEMMA InitPromised == Init => Promise!Init
BY DEF Init, Tx!Init, Tx!YmodemInit, Rx!Init, Rx!YmodemInit, Promise!Init

\* A cable that loses and damages nothing, however late it delivers, and with
\* cancels at either end and starts at any moment: the program keeps the promise
\* of FileTransfer, for every size of file that fits on the disk.
THEOREM TransferIsReliable ==
  ASSUME MaxFaults = 0, FitsDisk
  PROVE  Spec => ReliableTransfer
<1>1. Init => Lossless
  BY ProgramsInit, OrderInit, HeaderInit, LosslessInit DEF Lossless
<1>2. Lossless /\ [Next]_vars => Lossless'
  BY LosslessStep
<1>3. Lossless /\ [Next]_vars => [Promise!Next]_Promise!vars
  BY StepPromised DEF Promised
<1> QED BY <1>1, <1>2, <1>3, InitPromised, PTL DEF Spec, ReliableTransfer, Promise!Spec

\* "File Received Successfully." is said of a file that is all there.
THEOREM ReceivedFileIsComplete ==
  ASSUME MaxFaults = 0, FitsDisk
  PROVE  Spec => []ReceivedMeansComplete
<1>1. Init => Lossless
  BY ProgramsInit, OrderInit, HeaderInit, LosslessInit DEF Lossless
<1>2. Lossless /\ [Next]_vars => Lossless'
  BY LosslessStep
<1>3. Lossless => ReceivedMeansComplete
  BY DEF Lossless, LosslessInv, Complete, ReceivedMeansComplete, WholeFile,
     Promise!FirstBytes
<1> QED BY <1>1, <1>2, <1>3, PTL DEF Spec
=============================================================================
