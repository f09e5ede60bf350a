----------------------------- MODULE AmAdProofs -----------------------------
(***************************************************************************)
(* Proofs about AmAd: nothing is freed under the demux thread, and the     *)
(* client of an audio description gets every payload, for all packets and  *)
(* all ways to cut their stream into reads.                                *)
(***************************************************************************)
EXTENDS AmAd, SequenceTheorems, NaturalsInduction, WellFoundedInduction, TLAPS

-----------------------------------------------------------------------------
(* Life time.                                                              *)

\* The steps of the client and of the demux thread, and none.
LEMMA NextCases ==
  ASSUME [Next]_vars
  PROVE  \/ Create \/ Start \/ StopAndFree \/ CloseBegins \/ CloseJoined \/ PesDestroy \/ Free
         \/ Deliver \/ ThreadEnds \/ AdCallback
         \/ DecodePacket \/ PacketCallbackReturns \/ DecodeEnd
         \/ UNCHANGED vars
  BY DEF Next, Client, Thread

\* The thread and the memory it uses are there together, as long as the handle has
\* the only open of the demux.
LEMMA LifeStep ==
  ASSUME ~OthersOpen, LifeInv, [Next]_vars
  PROVE  LifeInv'
<1>1. CASE Create
  BY <1>1 DEF Create, LifeInv
<1>2. CASE Start \/ StopAndFree \/ CloseBegins
  BY <1>2 DEF Start, StopAndFree, CloseBegins, LifeInv
<1>3. CASE CloseJoined \/ PesDestroy \/ Free
  BY <1>3 DEF CloseJoined, Joined, PesDestroy, Free, LifeInv
<1>4. CASE Deliver \/ ThreadEnds \/ AdCallback
  BY <1>4 DEF Deliver, ThreadEnds, AdCallback, handle, LifeInv
<1>5. CASE DecodePacket \/ PacketCallbackReturns \/ DecodeEnd
  BY <1>5 DEF DecodePacket, PacketCallbackReturns, DecodeEnd, handle, LifeInv
<1>6. CASE UNCHANGED vars
  BY <1>6 DEF vars, LifeInv
<1> QED BY <1>1, <1>2, <1>3, <1>4, <1>5, <1>6, NextCases

\* The thread runs only between the open and the join of a handle.
LEMMA Living ==
  ASSUME ~OthersOpen
  PROVE  Spec => []LifeInv
<1>1. Init => LifeInv
  BY DEF Init, LifeInv
<1>2. LifeInv /\ [Next]_vars => LifeInv'
  BY LifeStep
<1> QED BY <1>1, <1>2, PTL DEF Spec

\* Neither the handle nor its parser is freed while the demux thread is in
\* ad_callback, AM_PES_Decode or the client's callback, if the close in
\* AM_AD_Destroy is the last of the demux.
THEOREM LiveCorrect ==
  ASSUME ~OthersOpen
  PROVE  Spec => []CallbackOnLive
<1>1. LifeInv => CallbackOnLive
  BY DEF LifeInv, CallbackOnLive
<1> QED BY <1>1, Living, PTL

-----------------------------------------------------------------------------
(* Bytes that follow each other.                                           *)

\* The least number of a set.
LEMMA NatMin ==
  ASSUME NEW T \in SUBSET Nat, T # {}
  PROVE  \E x \in T : \A y \in T : x <= y
<1> DEFINE R == OpToRel(<, Nat)
<1>1. IsWellFoundedOn(R, Nat)
  BY NatLessThanWellFounded
<1> HIDE DEF R
<1>2. PICK x \in T : \A y \in T : ~(<<y, x>> \in R)
  BY <1>1, WFMin
<1>3. ASSUME NEW y \in T PROVE x <= y
  <2>1. R = {ss \in Nat \X Nat : ss[1] < ss[2]}
    BY DEF R, OpToRel
  <2>2. ~(y < x)
    BY <1>2, <2>1
  <2> QED BY <2>2
<1> QED BY <1>3

\* The search for a start code finds the first.
LEMMA FirstIs ==
  ASSUME NEW T \in SUBSET Nat, T # {}
  PROVE  FirstOf(T) \in T /\ \A y \in T : FirstOf(T) <= y
<1>1. \E x \in T : \A y \in T : x <= y
  BY NatMin
<1> QED BY <1>1 DEF FirstOf

\* A packet has a header of seven bytes at least.
LEMMA KindIs ==
  ASSUME NEW k \in Nat \ {0}
  PROVE  /\ Kind(k) \in PacketKinds
         /\ Kind(k).size \in Nat /\ Kind(k).open \in BOOLEAN /\ 7 <= Kind(k).size
         /\ HeaderOf(Kind(k)) \in 7 .. Kind(k).size
         /\ \E i \in DOMAIN Packets : Kind(k) = Packets[i]
<1>1. PICK L, m : L = Len(Packets) /\ m = (k - 1) % Len(Packets)
  OBVIOUS
<1>2. L \in Nat /\ L > 0 /\ DOMAIN Packets = 1 .. L
  BY <1>1, PacketAssumption, LenProperties
<1>3. m \in 0 .. (L - 1)
  BY <1>1, <1>2
<1>4. m + 1 \in DOMAIN Packets
  BY <1>2, <1>3
<1>5. Packets[m + 1] \in PacketKinds
  <2>1. Packets \in Seq(PacketKinds) /\ m + 1 \in 1 .. Len(Packets)
    BY <1>1, <1>2, <1>4, PacketAssumption
  <2> QED BY <2>1, ElementOfSeq
<1>6. Packets[m + 1].size \in Nat /\ Packets[m + 1].open \in BOOLEAN
  BY <1>5 DEF PacketKinds
<1>7. HeaderOf(Packets[m + 1]) \in 7 .. Packets[m + 1].size
  BY <1>4, PacketAssumption
<1>8. 7 <= Packets[m + 1].size
  BY <1>6, <1>7
<1>9. Kind(k) = Packets[m + 1]
  BY <1>1 DEF Kind
<1> QED BY <1>4, <1>5, <1>6, <1>7, <1>8, <1>9

\* Where the payload begins for AM_PES_Decode: within the packet, at its true place if
\* the header can be told, and not behind it if the packet has a length.
LEMMA CutIs ==
  ASSUME NEW p \in PacketKinds, HeaderOf(p) \in 7 .. p.size
  PROVE  /\ Cut(p) \in 6 .. p.size
         /\ HeaderSeen(p) => Cut(p) = HeaderOf(p)
         /\ ~p.open => Cut(p) <= HeaderOf(p) /\ Cut(p) = HeaderLen(p)
         /\ p.open => Cut(p) = IF p.size < 9 + p.ext THEN p.size ELSE 9 + p.ext
<1>1. PICK L, x, s, q : L = p.size /\ x = p.ext /\ s = p.stuff /\ q = p.skip
  OBVIOUS
<1>2. /\ L \in Nat /\ x \in Nat /\ s \in Nat /\ q \in Nat
      /\ p.open \in BOOLEAN /\ p.mpeg2 \in BOOLEAN
  BY <1>1 DEF PacketKinds
<1>3. CASE p.mpeg2
  <2>1. HeaderOf(p) = 9 + x /\ HeaderLen(p) = 9 + x
    BY <1>1, <1>3 DEF HeaderOf, HeaderLen
  <2>2. 9 + x \in 6 .. L /\ ~(L < 9 + x)
    BY <1>1, <1>2, <2>1
  <2>3. Cut(p) = 9 + x
    BY <1>1, <2>1, <2>2 DEF Cut
  <2> QED BY <1>1, <1>2, <2>1, <2>2, <2>3
<1>4. CASE ~p.mpeg2 /\ p.open
  <2>1. Cut(p) = IF L < 9 + x THEN L ELSE 9 + x
    BY <1>1, <1>4 DEF Cut
  <2>2. L >= 7
    BY <1>1, <1>2 DEF HeaderOf
  <2>3. Cut(p) \in 6 .. L
    BY <1>2, <2>1, <2>2
  <2> QED BY <1>1, <1>4, <2>1, <2>3 DEF HeaderSeen
<1>5. CASE ~p.mpeg2 /\ ~p.open
  <2>1. /\ HeaderOf(p) = 6 + s + q /\ Cut(p) = HeaderLen(p)
        /\ HeaderLen(p) = IF 6 + s < L - 6 THEN 6 + s + q
                          ELSE IF L - 6 > 6 THEN L - 6 ELSE 6
    BY <1>1, <1>5 DEF HeaderOf, Cut, HeaderLen, Mpeg1Offset
  <2>2. 6 + s + q \in 7 .. L
    BY <1>1, <2>1
  <2>3. Cut(p) \in 6 .. L /\ Cut(p) <= 6 + s + q
    BY <1>2, <2>1, <2>2
  <2>4. HeaderSeen(p) => s + 6 < L - 6
    BY <1>1, <1>5 DEF HeaderSeen
  <2>5. s + 6 < L - 6 => Cut(p) = 6 + s + q
    BY <1>2, <2>1
  <2> QED BY <1>1, <1>5, <2>1, <2>3, <2>4, <2>5
<1> QED BY <1>2, <1>3, <1>4, <1>5

\* A byte of the stream.
LEMMA PlacesAre ==
  /\ \A k, i : <<k, i>> \in Places <=> k \in Nat \ {0} /\ i \in Nat \ {0} /\ i <= Kind(k).size
  /\ \A x \in Places : /\ x = <<x[1], x[2]>> /\ x[1] \in Nat \ {0} /\ x[2] \in Nat \ {0}
                       /\ x[2] <= Kind(x[1]).size
  BY DEF Places

\* Bytes have a byte behind them.
LEMMA SuccIs ==
  ASSUME NEW x \in Places
  PROVE  Succ(x) \in Places
<1>1. x[1] \in Nat \ {0} /\ x[2] \in Nat \ {0} /\ x[2] <= Kind(x[1]).size
  BY PlacesAre
<1>2. Kind(x[1]).size \in Nat
  BY <1>1, KindIs
<1>3. CASE x[2] < Kind(x[1]).size
  <2>1. x[2] + 1 \in Nat \ {0} /\ x[2] + 1 <= Kind(x[1]).size
    BY <1>1, <1>2, <1>3
  <2> QED BY <1>1, <1>3, <2>1, PlacesAre DEF Succ
<1>4. CASE ~(x[2] < Kind(x[1]).size)
  <2>1. PICK k : k = x[1] + 1
    OBVIOUS
  <2>2. k \in Nat \ {0}
    BY <1>1, <2>1
  <2>3. 1 <= Kind(k).size
    BY <2>2, KindIs
  <2>4. <<k, 1>> \in Places
    BY <2>2, <2>3, PlacesAre
  <2> QED BY <1>4, <2>1, <2>4 DEF Succ
<1> QED BY <1>3, <1>4

\* Bytes that follow each other stay in the packet up to its end.
LEMMA FlowStays ==
  ASSUME NEW w \in Seq(Places), NEW e \in Places, Flow(w, e),
         NEW i \in 1 .. (Len(w) + 1), NEW a, a = PlaceAt(w, e, i)
  PROVE  LET q == Kind(a[1]).size - a[2] + 1
         IN  /\ a \in Places /\ q \in Nat \ {0}
             /\ \A m \in Nat : i + m <= Len(w) + 1 /\ m < q =>
                  PlaceAt(w, e, i + m) = <<a[1], a[2] + m>>
             /\ i + q <= Len(w) + 1 => PlaceAt(w, e, i + q) = <<a[1] + 1, 1>>
<1>1. PICK k, s, L, q : k = a[1] /\ s = a[2] /\ L = Kind(a[1]).size /\ q = Kind(a[1]).size - a[2] + 1
  OBVIOUS
<1>2. Len(w) \in Nat /\ \A j \in 1 .. Len(w) : w[j] \in Places
  BY LenProperties, ElementOfSeq
<1>3. a \in Places
  BY <1>2 DEF PlaceAt
<1>4. k \in Nat \ {0} /\ s \in Nat \ {0} /\ s <= L /\ a = <<k, s>>
  BY <1>1, <1>3, PlacesAre
<1>5. L \in Nat /\ q = L - s + 1
  BY <1>1, <1>4, KindIs
<1>6. q \in Nat \ {0} /\ i \in Nat /\ i >= 1
  BY <1>2, <1>4, <1>5
<1>7. \A j \in 1 .. Len(w) : PlaceAt(w, e, j + 1) = Succ(PlaceAt(w, e, j))
  BY <1>2 DEF Flow, PlaceAt
<1> DEFINE T == {m \in Nat : i + m <= Len(w) + 1 /\ m < q /\ PlaceAt(w, e, i + m) # <<k, s + m>>}
<1>8. T = {}
  <2>1. SUFFICES ASSUME T # {} PROVE FALSE
    OBVIOUS
  <2>2. T \in SUBSET Nat
    OBVIOUS
  <2>3. PICK m \in T : \A j \in T : m <= j
    <3> HIDE DEF T
    <3> QED BY <2>1, <2>2, NatMin
  <2>4. m \in Nat /\ i + m <= Len(w) + 1 /\ m < q /\ PlaceAt(w, e, i + m) # <<k, s + m>>
    BY <2>3
  <2>5. m # 0
    <3>1. i + 0 = i /\ s + 0 = s
      BY <1>4, <1>6
    <3> QED BY <1>4, <2>4, <3>1
  <2>6. PICK h : h = m - 1
    OBVIOUS
  <2>7. /\ h \in Nat /\ i + h <= Len(w) + 1 /\ h < q /\ ~(m <= h)
        /\ i + h \in 1 .. Len(w) /\ (i + h) + 1 = i + m
    BY <1>2, <1>6, <2>4, <2>5, <2>6
  <2>8. h \notin T
    <3> HIDE DEF T
    <3> QED BY <2>3, <2>7
  <2>9. PlaceAt(w, e, i + h) = <<k, s + h>>
    BY <2>7, <2>8
  <2>10. PlaceAt(w, e, i + m) = Succ(<<k, s + h>>)
    BY <1>7, <2>7, <2>9
  <2>11. s + h < L /\ (s + h) + 1 = s + m
    BY <1>4, <1>5, <2>4, <2>6, <2>7
  <2>12. Succ(<<k, s + h>>) = <<k, s + m>>
    BY <1>1, <2>11 DEF Succ
  <2> QED BY <2>4, <2>10, <2>12
<1>9. \A m \in Nat : i + m <= Len(w) + 1 /\ m < q => PlaceAt(w, e, i + m) = <<k, s + m>>
  BY <1>8
<1>10. ASSUME i + q <= Len(w) + 1 PROVE PlaceAt(w, e, i + q) = <<k + 1, 1>>
  <2>1. PICK h : h = q - 1
    OBVIOUS
  <2>2. /\ h \in Nat /\ i + h <= Len(w) + 1 /\ h < q /\ s + h = L
        /\ i + h \in 1 .. Len(w) /\ (i + h) + 1 = i + q
    BY <1>2, <1>4, <1>5, <1>6, <1>10, <2>1
  <2>3. PlaceAt(w, e, i + h) = <<k, L>>
    BY <1>9, <2>2
  <2>4. PlaceAt(w, e, i + q) = Succ(<<k, L>>)
    BY <1>7, <2>2, <2>3
  <2>5. ~(L < L)
    BY <1>5
  <2> QED BY <1>1, <2>4, <2>5 DEF Succ
<1> QED BY <1>1, <1>3, <1>6, <1>9, <1>10

\* The two parts of a sequence of bytes.
LEMMA Parts ==
  ASSUME NEW w \in Seq(Places), NEW m \in 0 .. Len(w)
  PROVE  /\ SubSeq(w, 1, m) \in Seq(Places) /\ Len(SubSeq(w, 1, m)) = m
         /\ \A i \in 1 .. m : SubSeq(w, 1, m)[i] = w[i]
         /\ SubSeq(w, m + 1, Len(w)) \in Seq(Places)
         /\ Len(SubSeq(w, m + 1, Len(w))) = Len(w) - m
         /\ \A i \in 1 .. (Len(w) - m) : SubSeq(w, m + 1, Len(w))[i] = w[m + i]
<1>1. Len(w) \in Nat /\ \A i \in 1 .. Len(w) : w[i] \in Places
  BY LenProperties, ElementOfSeq
<1>2. m \in Int /\ 1 \in Int /\ m + 1 \in Int /\ Len(w) \in Int
  BY <1>1
<1>3. (\A i \in 1 .. m : w[i] \in Places) /\ (\A i \in (m + 1) .. Len(w) : w[i] \in Places)
  BY <1>1
<1>4. /\ SubSeq(w, 1, m) \in Seq(Places)
      /\ Len(SubSeq(w, 1, m)) = IF 1 <= m THEN m - 1 + 1 ELSE 0
      /\ \A i \in 1 .. m - 1 + 1 : SubSeq(w, 1, m)[i] = w[1 + i - 1]
  BY <1>2, <1>3, SubSeqProperties
<1>5. /\ SubSeq(w, m + 1, Len(w)) \in Seq(Places)
      /\ Len(SubSeq(w, m + 1, Len(w))) = IF m + 1 <= Len(w) THEN Len(w) - (m + 1) + 1 ELSE 0
      /\ \A i \in 1 .. Len(w) - (m + 1) + 1 : SubSeq(w, m + 1, Len(w))[i] = w[m + 1 + i - 1]
  BY <1>2, <1>3, SubSeqProperties
<1>6. Len(SubSeq(w, 1, m)) = m /\ m - 1 + 1 = m /\ \A i \in 1 .. m : 1 + i - 1 = i
  BY <1>1, <1>4
<1>7. /\ Len(SubSeq(w, m + 1, Len(w))) = Len(w) - m /\ Len(w) - (m + 1) + 1 = Len(w) - m
      /\ \A i \in 1 .. (Len(w) - m) : m + 1 + i - 1 = m + i
  BY <1>1, <1>5
<1>8. \A i \in 1 .. m : SubSeq(w, 1, m)[i] = w[i]
  BY <1>4, <1>6
<1>9. \A i \in 1 .. (Len(w) - m) : SubSeq(w, m + 1, Len(w))[i] = w[m + i]
  BY <1>5, <1>7
<1> QED BY <1>4, <1>5, <1>6, <1>7, <1>8, <1>9

\* The parts of bytes that follow each other.
LEMMA FlowParts ==
  ASSUME NEW w \in Seq(Places), NEW e \in Places, Flow(w, e), NEW m \in 0 .. Len(w)
  PROVE  /\ PlaceAt(w, e, m + 1) \in Places
         /\ Flow(SubSeq(w, 1, m), PlaceAt(w, e, m + 1))
         /\ Flow(SubSeq(w, m + 1, Len(w)), e)
         /\ PlaceAt(SubSeq(w, m + 1, Len(w)), e, 1) = PlaceAt(w, e, m + 1)
         /\ PlaceAt(SubSeq(w, 1, m), PlaceAt(w, e, m + 1), 1) = PlaceAt(w, e, 1)
<1>1. PICK u, v, b : u = SubSeq(w, 1, m) /\ v = SubSeq(w, m + 1, Len(w)) /\ b = PlaceAt(w, e, m + 1)
  OBVIOUS
<1>2. /\ u \in Seq(Places) /\ Len(u) = m /\ \A i \in 1 .. m : u[i] = w[i]
      /\ v \in Seq(Places) /\ Len(v) = Len(w) - m /\ \A i \in 1 .. (Len(w) - m) : v[i] = w[m + i]
  BY <1>1, Parts
<1>3. Len(w) \in Nat /\ m \in Nat /\ m <= Len(w) /\ \A i \in 1 .. Len(w) : w[i] \in Places
  BY LenProperties, ElementOfSeq
<1>4. b \in Places
  BY <1>1, <1>3 DEF PlaceAt
<1>5. ASSUME NEW i \in 1 .. (m + 1) PROVE PlaceAt(u, b, i) = PlaceAt(w, e, i)
  <2>1. CASE i = m + 1
    <3>1. ~(i <= Len(u))
      BY <1>2, <1>3, <2>1
    <3> QED BY <1>1, <2>1, <3>1 DEF PlaceAt
  <2>2. CASE i # m + 1
    <3>1. i \in 1 .. m /\ i <= Len(w) /\ i <= m
      BY <1>3, <2>2
    <3> QED BY <1>2, <3>1 DEF PlaceAt
  <2> QED BY <2>1, <2>2
<1>6. ASSUME NEW i \in 1 .. (Len(w) - m + 1) PROVE PlaceAt(v, e, i) = PlaceAt(w, e, m + i)
  <2>1. CASE i = Len(w) - m + 1
    <3>1. ~(i <= Len(v)) /\ ~(m + i <= Len(w))
      BY <1>2, <1>3, <2>1
    <3> QED BY <3>1 DEF PlaceAt
  <2>2. CASE i # Len(w) - m + 1
    <3>1. i \in 1 .. (Len(w) - m) /\ m + i <= Len(w) /\ i <= Len(v)
      BY <1>2, <1>3, <2>2
    <3> QED BY <1>2, <3>1 DEF PlaceAt
  <2> QED BY <2>1, <2>2
<1>7. Flow(u, b)
  <2>1. ASSUME NEW i \in 1 .. Len(u) PROVE PlaceAt(u, b, i + 1) = Succ(u[i])
    <3>1. i \in 1 .. m /\ i + 1 \in 1 .. (m + 1) /\ i \in 1 .. Len(w)
      BY <1>2, <1>3
    <3>2. PlaceAt(u, b, i + 1) = PlaceAt(w, e, i + 1) /\ u[i] = w[i]
      BY <1>2, <1>5, <3>1
    <3> QED BY <3>1, <3>2 DEF Flow
  <2> QED BY <2>1 DEF Flow
<1>8. Flow(v, e)
  <2>1. ASSUME NEW i \in 1 .. Len(v) PROVE PlaceAt(v, e, i + 1) = Succ(v[i])
    <3>1. /\ i \in 1 .. (Len(w) - m) /\ i + 1 \in 1 .. (Len(w) - m + 1)
          /\ m + i \in 1 .. Len(w) /\ m + (i + 1) = (m + i) + 1
      BY <1>2, <1>3
    <3>2. PlaceAt(v, e, i + 1) = PlaceAt(w, e, (m + i) + 1) /\ v[i] = w[m + i]
      BY <1>2, <1>6, <3>1
    <3> QED BY <3>1, <3>2 DEF Flow
  <2> QED BY <2>1 DEF Flow
<1>9. PlaceAt(v, e, 1) = b
  <2>1. 1 \in 1 .. (Len(w) - m + 1)
    BY <1>3
  <2> QED BY <1>1, <1>6, <2>1
<1>10. PlaceAt(u, b, 1) = PlaceAt(w, e, 1)
  <2>1. 1 \in 1 .. (m + 1)
    BY <1>3
  <2> QED BY <1>5, <2>1
<1> QED BY <1>1, <1>4, <1>7, <1>8, <1>9, <1>10

\* Bytes behind bytes.
LEMMA FlowConcat ==
  ASSUME NEW v \in Seq(Places), NEW w \in Seq(Places), NEW e \in Places,
         Flow(v, PlaceAt(w, e, 1)), Flow(w, e)
  PROVE  /\ v \o w \in Seq(Places) /\ Len(v \o w) = Len(v) + Len(w) /\ Flow(v \o w, e)
         /\ \A i \in 1 .. (Len(v) + 1) : PlaceAt(v \o w, e, i) = PlaceAt(v, PlaceAt(w, e, 1), i)
<1>1. PICK z, b : z = v \o w /\ b = PlaceAt(w, e, 1)
  OBVIOUS
<1>2. /\ z \in Seq(Places) /\ Len(z) = Len(v) + Len(w)
      /\ \A i \in 1 .. Len(v) + Len(w) : z[i] = IF i <= Len(v) THEN v[i] ELSE w[i - Len(v)]
  BY <1>1, ConcatProperties
<1>3. Len(v) \in Nat /\ Len(w) \in Nat
  BY LenProperties
<1>4. ASSUME NEW i \in 1 .. (Len(v) + 1) PROVE PlaceAt(z, e, i) = PlaceAt(v, b, i)
  <2>1. CASE i <= Len(v)
    BY <1>2, <1>3, <2>1 DEF PlaceAt
  <2>2. CASE i = Len(v) + 1 /\ Len(w) > 0
    <3>1. z[i] = w[1]
      BY <1>2, <1>3, <2>2
    <3> QED BY <1>1, <1>2, <1>3, <2>2, <3>1 DEF PlaceAt
  <2>3. CASE i = Len(v) + 1 /\ Len(w) = 0
    BY <1>1, <1>2, <1>3, <2>3 DEF PlaceAt
  <2> QED BY <1>3, <2>1, <2>2, <2>3
<1>5. ASSUME NEW i \in 1 .. Len(w) PROVE PlaceAt(z, e, Len(v) + i + 1) = Succ(w[i])
  <2>1. PlaceAt(w, e, i + 1) = Succ(w[i])
    BY DEF Flow
  <2>2. CASE i = Len(w)
    BY <1>2, <1>3, <2>1, <2>2 DEF PlaceAt
  <2>3. CASE i # Len(w)
    <3>1. PICK m : m = Len(v) + i + 1
      OBVIOUS
    <3>2. m \in 1 .. Len(v) + Len(w) /\ ~(m <= Len(v)) /\ m - Len(v) = i + 1 /\ m <= Len(z)
          /\ i + 1 <= Len(w)
      BY <1>2, <1>3, <2>3, <3>1
    <3>3. z[m] = w[i + 1]
      BY <1>2, <3>2
    <3> QED BY <2>1, <3>1, <3>2, <3>3 DEF PlaceAt
  <2> QED BY <2>2, <2>3
<1>6. ASSUME NEW i \in 1 .. Len(z) PROVE PlaceAt(z, e, i + 1) = Succ(z[i])
  <2>1. CASE i <= Len(v)
    <3>1. i \in 1 .. Len(v) /\ i + 1 \in 1 .. (Len(v) + 1)
      BY <1>2, <1>3, <2>1
    <3>2. z[i] = v[i]
      BY <1>2, <2>1
    <3>3. PlaceAt(v, b, i + 1) = Succ(v[i])
      BY <1>1, <3>1 DEF Flow
    <3> QED BY <1>4, <3>1, <3>2, <3>3
  <2>2. CASE ~(i <= Len(v))
    <3>1. PICK j : j = i - Len(v)
      OBVIOUS
    <3>2. j \in 1 .. Len(w) /\ Len(v) + j + 1 = i + 1
      BY <1>2, <1>3, <2>2, <3>1
    <3>3. z[i] = w[j]
      BY <1>2, <2>2, <3>1
    <3> QED BY <1>5, <3>2, <3>3
  <2> QED BY <2>1, <2>2
<1>7. Flow(z, e)
  BY <1>6 DEF Flow
<1> QED BY <1>1, <1>2, <1>4, <1>7

\* The end of a packet from a byte on.
LEMMA BytesFlow ==
  ASSUME NEW k \in Nat \ {0}, NEW f \in Nat \ {0}, f <= Kind(k).size
  PROVE  LET w == Bytes(k, f, Kind(k).size)
         IN  /\ w \in Seq(Places) /\ Len(w) = Kind(k).size - f + 1 /\ Len(w) > 0
             /\ <<k + 1, 1>> \in Places /\ Flow(w, <<k + 1, 1>>) /\ w[1] = <<k, f>>
<1>1. PICK L, w, n : L = Kind(k).size /\ w = Bytes(k, f, Kind(k).size) /\ n = Kind(k).size - f + 1
  OBVIOUS
<1>2. L \in Nat /\ f <= L /\ n = L - f + 1
  BY <1>1, KindIs
<1>3. n \in Nat /\ n > 0
  BY <1>2
<1>4. w = [i \in 1 .. n |-> <<k, f + i - 1>>]
  BY <1>1 DEF Bytes
<1>5. \A i \in 1 .. n : <<k, f + i - 1>> \in Places
  <2>1. ASSUME NEW i \in 1 .. n PROVE <<k, f + i - 1>> \in Places
    <3>1. f + i - 1 \in Nat \ {0} /\ f + i - 1 <= L
      BY <1>2, <1>3
    <3> QED BY <1>1, <3>1, PlacesAre
  <2> QED BY <2>1
<1>6. w \in Seq(Places) /\ Len(w) = n /\ \A i \in 1 .. n : w[i] = <<k, f + i - 1>>
  <2>1. w \in [1 .. n -> Places] /\ \A i \in 1 .. n : w[i] = <<k, f + i - 1>>
    BY <1>4, <1>5
  <2>2. w \in Seq(Places)
    BY <1>3, <2>1, SeqDef
  <2>3. Len(w) \in Nat /\ DOMAIN w = 1 .. Len(w) /\ DOMAIN w = 1 .. n
    BY <2>1, <2>2, LenProperties
  <2>4. Len(w) = n
    <3>1. PICK x : x = Len(w)
      OBVIOUS
    <3>2. 1 .. x = 1 .. n
      BY <2>3, <3>1, Zenon
    <3>3. x \in Nat /\ n \in Nat /\ n > 0
      BY <1>3, <2>3, <3>1
    <3>4. x = n
      BY <3>2, <3>3
    <3> QED BY <3>1, <3>4
  <2> QED BY <2>1, <2>2, <2>4
<1>7. <<k + 1, 1>> \in Places
  <2>1. k + 1 \in Nat \ {0}
    OBVIOUS
  <2>2. 1 <= Kind(k + 1).size
    BY <2>1, KindIs
  <2> QED BY <2>1, <2>2, PlacesAre
<1>8. ASSUME NEW i \in 1 .. Len(w) PROVE PlaceAt(w, <<k + 1, 1>>, i + 1) = Succ(w[i])
  <2>1. i \in 1 .. n /\ w[i] = <<k, f + i - 1>>
    BY <1>6
  <2>2. CASE i = n
    <3>1. f + i - 1 = L /\ ~(L < L) /\ ~(i + 1 <= Len(w))
      BY <1>2, <1>3, <1>6, <2>2
    <3> QED BY <1>1, <2>1, <3>1 DEF PlaceAt, Succ
  <2>3. CASE i # n
    <3>1. f + i - 1 < L /\ i + 1 \in 1 .. n /\ i + 1 <= Len(w) /\ (f + i - 1) + 1 = f + (i + 1) - 1
      BY <1>2, <1>3, <1>6, <2>1, <2>3
    <3>2. w[i + 1] = <<k, f + (i + 1) - 1>>
      BY <1>6, <3>1
    <3>3. Succ(<<k, f + i - 1>>) = <<k, (f + i - 1) + 1>>
      BY <1>1, <3>1 DEF Succ
    <3> QED BY <2>1, <3>1, <3>2, <3>3 DEF PlaceAt
  <2> QED BY <2>2, <2>3
<1>9. w[1] = <<k, f>>
  <2>1. 1 \in 1 .. n /\ f + 1 - 1 = f
    BY <1>3
  <2> QED BY <1>6, <2>1
<1> QED BY <1>1, <1>3, <1>6, <1>7, <1>8, <1>9 DEF Flow

-----------------------------------------------------------------------------
(* AM_PES_Decode.                                                          *)

\* In bytes of the stream that follow each other every start code is one.
LEMMA StartCodesAre ==
  ASSUME NEW w \in Seq(Places), NEW e \in Places, Flow(w, e), NEW i \in Nat \ {0}
  PROVE  /\ StartCodes(w, i) = {j \in i .. (Len(w) - 4) : w[j][2] = 1}
         /\ StartCodes(w, i) \in SUBSET Nat
<1>1. Len(w) \in Nat /\ \A j \in 1 .. Len(w) : w[j] \in Places
  BY LenProperties, ElementOfSeq
<1>2. ASSUME NEW j \in i .. (Len(w) - 4), w[j][2] = 1
      PROVE  SubSeq(w, j, j + 2) = Bytes(w[j][1], 1, 3)
  <2>1. j \in 1 .. Len(w) /\ j \in 1 .. (Len(w) + 1) /\ j \in Nat /\ j + 2 <= Len(w)
    BY <1>1
  <2>2. PICK a : a = PlaceAt(w, e, j)
    OBVIOUS
  <2>3. a = w[j] /\ a \in Places
    BY <1>1, <2>1, <2>2 DEF PlaceAt
  <2>4. PICK k : k = a[1]
    OBVIOUS
  <2>5. k \in Nat \ {0} /\ a[2] = 1
    BY <1>2, <2>3, <2>4, PlacesAre
  <2>6. Kind(k).size \in Nat /\ Kind(k).size >= 7
    BY <2>5, KindIs
  <2>7. \A m \in Nat : j + m <= Len(w) + 1 /\ m < Kind(a[1]).size - a[2] + 1 =>
          PlaceAt(w, e, j + m) = <<a[1], a[2] + m>>
    BY <2>1, <2>2, FlowStays
  <2>8. ASSUME NEW m \in 0 .. 2 PROVE w[j + m] = <<k, 1 + m>>
    <3>0. m \in Nat /\ m <= 2 /\ j + m <= Len(w) + 1 /\ j + m <= Len(w)
      BY <1>1, <2>1
    <3>1. m \in Nat /\ j + m <= Len(w) + 1 /\ m < Kind(a[1]).size - a[2] + 1 /\ j + m <= Len(w)
      BY <2>4, <2>5, <2>6, <3>0
    <3>2. PlaceAt(w, e, j + m) = <<a[1], a[2] + m>>
      BY <2>7, <3>1
    <3> QED BY <2>4, <2>5, <3>1, <3>2 DEF PlaceAt
  <2>9. PICK u, v : u = SubSeq(w, j, j + 2) /\ v = Bytes(k, 1, 3)
    OBVIOUS
  <2>10. /\ j \in Int /\ j + 2 \in Int
         /\ \A h \in j .. (j + 2) : w[h] \in Places
    BY <1>1, <2>1
  <2>11. /\ u \in Seq(Places) /\ Len(u) = IF j <= j + 2 THEN (j + 2) - j + 1 ELSE 0
         /\ \A h \in 1 .. (j + 2) - j + 1 : u[h] = w[j + h - 1]
    BY <2>9, <2>10, SubSeqProperties
  <2>12. Len(u) = 3 /\ (j + 2) - j + 1 = 3
    BY <2>1, <2>11
  <2>13. ASSUME NEW h \in 1 .. 3 PROVE u[h] = <<k, 1 + h - 1>>
    <3>1. PICK m : m = h - 1
      OBVIOUS
    <3>2. m \in 0 .. 2 /\ j + m = j + h - 1 /\ 1 + m = 1 + h - 1
      BY <2>1, <3>1
    <3> QED BY <2>8, <2>11, <2>12, <3>2
  <2>14. v = [h \in 1 .. 3 |-> <<k, 1 + h - 1>>]
    BY <2>9 DEF Bytes
  <2>15. u = [h \in 1 .. 3 |-> u[h]]
    BY <2>11, <2>12, LenProperties
  <2>16. u = v
    BY <2>13, <2>14, <2>15
  <2> QED BY <2>3, <2>4, <2>9, <2>16
<1>3. StartCodes(w, i) = {j \in i .. (Len(w) - 4) : w[j][2] = 1}
  BY <1>2 DEF StartCodes
<1>4. {j \in i .. (Len(w) - 4) : w[j][2] = 1} \in SUBSET Nat
  BY <1>1
<1> QED BY <1>3, <1>4

\* The first start code behind byte x is that of the first packet that starts there.
LEMMA FirstStart ==
  ASSUME NEW w \in Seq(Places), NEW e \in Places, Flow(w, e), NEW at \in 0 .. Len(w),
         NEW n \in Nat \ {0}, FirstAt(n, PlaceAt(w, e, at + 1)), StartCodes(w, at + 1) # {}
  PROVE  LET i == FirstOf(StartCodes(w, at + 1))
         IN  i \in (at + 1) .. (Len(w) - 4) /\ w[i] = <<n, 1>>
<1>1. PICK s, T, i : s = at + 1 /\ T = StartCodes(w, at + 1) /\ i = FirstOf(StartCodes(w, at + 1))
  OBVIOUS
<1>2. Len(w) \in Nat /\ \A j \in 1 .. Len(w) : w[j] \in Places
  BY LenProperties, ElementOfSeq
<1>3. s \in 1 .. (Len(w) + 1) /\ s \in Nat \ {0}
  BY <1>1, <1>2
<1>4. T = {j \in s .. (Len(w) - 4) : w[j][2] = 1} /\ T \in SUBSET Nat
  BY <1>1, <1>3, StartCodesAre
<1>5. i \in T /\ \A j \in T : i <= j
  BY <1>1, <1>4, FirstIs
<1>6. i \in s .. (Len(w) - 4) /\ w[i][2] = 1 /\ i \in Nat
  BY <1>3, <1>4, <1>5
<1>7. PICK a : a = PlaceAt(w, e, s)
  OBVIOUS
<1>8. PICK q : q = Kind(a[1]).size - a[2] + 1
  OBVIOUS
<1>9. /\ a \in Places /\ q \in Nat \ {0}
      /\ \A m \in Nat : s + m <= Len(w) + 1 /\ m < q => PlaceAt(w, e, s + m) = <<a[1], a[2] + m>>
      /\ s + q <= Len(w) + 1 => PlaceAt(w, e, s + q) = <<a[1] + 1, 1>>
  BY <1>3, <1>7, <1>8, FlowStays
<1>10. a[1] \in Nat \ {0} /\ a[2] \in Nat \ {0} /\ FirstAt(n, a)
  BY <1>1, <1>7, <1>9, PlacesAre
<1>11. CASE a = <<n, 1>>
  <2>1. s <= Len(w) /\ s \in s .. (Len(w) - 4)
    BY <1>2, <1>3, <1>6
  <2>2. w[s] = <<n, 1>>
    BY <1>7, <1>11, <2>1 DEF PlaceAt
  <2>3. s \in T
    BY <1>4, <2>1, <2>2
  <2>4. i <= s
    BY <1>5, <2>3
  <2>5. i = s
    BY <1>3, <1>6, <2>4
  <2> QED BY <1>1, <1>6, <2>2, <2>5
<1>12. CASE a[1] + 1 = n /\ a[2] > 1
  <2>1. PICK m : m = i - s
    OBVIOUS
  <2>2. m \in Nat /\ s + m = i /\ i <= Len(w) /\ i <= Len(w) + 1
    BY <1>2, <1>3, <1>6, <2>1
  <2>3. ~(m < q)
    <3>1. SUFFICES ASSUME m < q PROVE FALSE
      OBVIOUS
    <3>2. PlaceAt(w, e, i) = <<a[1], a[2] + m>>
      BY <1>9, <2>2, <3>1
    <3>3. w[i] = <<a[1], a[2] + m>>
      BY <2>2, <3>2 DEF PlaceAt
    <3>4. a[2] + m = 1
      BY <1>6, <3>3
    <3> QED BY <1>10, <1>12, <2>2, <3>4
  <2>4. PICK g : g = s + q
    OBVIOUS
  <2>5. g \in s .. (Len(w) - 4) /\ g <= Len(w) /\ g <= Len(w) + 1 /\ g <= i
    BY <1>2, <1>3, <1>6, <1>9, <2>2, <2>3, <2>4
  <2>6. w[g] = <<n, 1>>
    <3>1. PlaceAt(w, e, g) = <<a[1] + 1, 1>>
      BY <1>9, <2>4, <2>5
    <3> QED BY <1>12, <2>5, <3>1 DEF PlaceAt
  <2>7. g \in T
    BY <1>4, <2>5, <2>6
  <2>8. i <= g
    BY <1>5, <2>7
  <2>9. i = g
    BY <1>3, <1>6, <2>5, <2>8
  <2> QED BY <1>1, <1>6, <2>6, <2>9
<1> QED BY <1>10, <1>11, <1>12 DEF FirstAt

\* A packet in the buffer, from its start code to its end.
LEMMA WholePacket ==
  ASSUME NEW w \in Seq(Places), NEW e \in Places, Flow(w, e), NEW n \in Nat \ {0},
         NEW i \in 1 .. Len(w), w[i] = <<n, 1>>
  PROVE  LET L == Kind(n).size
             H == Cut(Kind(n))
         IN  /\ \A m \in Nat : i + m <= Len(w) /\ m < L => w[i + m] = <<n, 1 + m>>
             /\ i + L - 1 <= Len(w) =>
                  /\ SubSeq(w, i + H, i + L - 1) = Handed(n)
                  /\ PlaceAt(w, e, i + L) = <<n + 1, 1>>
<1>1. PICK L, H : L = Kind(n).size /\ H = Cut(Kind(n))
  OBVIOUS
<1>2. L \in Nat /\ H \in Nat /\ 6 <= H /\ H <= L
  <2>1. L \in Nat /\ H \in 6 .. L
    BY <1>1, KindIs, CutIs
  <2> QED BY <2>1
<1>3. Len(w) \in Nat /\ \A j \in 1 .. Len(w) : w[j] \in Places
  BY LenProperties, ElementOfSeq
<1>4. i \in 1 .. (Len(w) + 1) /\ i \in Nat /\ i >= 1 /\ i <= Len(w)
  BY <1>3
<1>5. PICK a : a = PlaceAt(w, e, i)
  OBVIOUS
<1>6. a = <<n, 1>> /\ a[1] = n /\ a[2] = 1
  BY <1>4, <1>5 DEF PlaceAt
<1>7. /\ \A m \in Nat : i + m <= Len(w) + 1 /\ m < Kind(a[1]).size - a[2] + 1 =>
           PlaceAt(w, e, i + m) = <<a[1], a[2] + m>>
      /\ i + (Kind(a[1]).size - a[2] + 1) <= Len(w) + 1 =>
           PlaceAt(w, e, i + (Kind(a[1]).size - a[2] + 1)) = <<a[1] + 1, 1>>
  BY <1>4, <1>5, FlowStays
<1>8. Kind(a[1]).size - a[2] + 1 = L
  BY <1>1, <1>2, <1>6
<1>9. ASSUME NEW m \in Nat, i + m <= Len(w), m < L
      PROVE  w[i + m] = <<n, 1 + m>>
  <2>1. i + m <= Len(w) + 1
    BY <1>3, <1>4, <1>9
  <2>2. PlaceAt(w, e, i + m) = <<a[1], a[2] + m>>
    BY <1>7, <1>8, <1>9, <2>1
  <2> QED BY <1>6, <1>9, <2>2 DEF PlaceAt
<1>10. ASSUME i + L - 1 <= Len(w)
       PROVE  /\ SubSeq(w, i + H, i + L - 1) = Handed(n)
              /\ PlaceAt(w, e, i + L) = <<n + 1, 1>>
  <2>1. i + L <= Len(w) + 1
    BY <1>2, <1>3, <1>4, <1>10
  <2>2. PlaceAt(w, e, i + L) = <<n + 1, 1>>
    BY <1>6, <1>7, <1>8, <2>1
  <2>3. PICK f, t, u, v : /\ f = i + H /\ t = i + L - 1
                          /\ u = SubSeq(w, f, t) /\ v = Handed(n)
    OBVIOUS
  <2>4. f \in Int /\ t \in Int /\ f >= 1 /\ t <= Len(w) /\ t - f + 1 = L - H /\ f <= t + 1
    BY <1>2, <1>3, <1>4, <1>10, <2>3
  <2>5. \A h \in f .. t : w[h] \in Places
    BY <1>3, <2>4
  <2>6. /\ u \in Seq(Places) /\ Len(u) = IF f <= t THEN t - f + 1 ELSE 0
        /\ \A h \in 1 .. t - f + 1 : u[h] = w[f + h - 1]
    BY <2>3, <2>4, <2>5, SubSeqProperties
  <2>7. Len(u) = L - H
    BY <1>2, <2>4, <2>6
  <2>8. ASSUME NEW h \in 1 .. (L - H) PROVE u[h] = <<n, (H + 1) + h - 1>>
    <3>1. PICK m : m = H + h - 1
      OBVIOUS
    <3>2. m \in Nat /\ m < L /\ i + m <= Len(w) /\ i + m = f + h - 1 /\ 1 + m = (H + 1) + h - 1
      BY <1>2, <1>3, <1>4, <1>10, <2>3, <3>1
    <3>3. w[i + m] = <<n, 1 + m>>
      BY <1>9, <3>2
    <3>4. h \in 1 .. t - f + 1
      BY <2>4
    <3> QED BY <2>6, <3>2, <3>3, <3>4
  <2>9. v = [h \in 1 .. (L - H) |-> <<n, (H + 1) + h - 1>>]
    <3>1. L - (H + 1) + 1 = L - H
      BY <1>2
    <3> QED BY <1>1, <2>3, <3>1 DEF Handed, Bytes
  <2>10. u = [h \in 1 .. (L - H) |-> u[h]]
    BY <2>6, <2>7, LenProperties
  <2>11. u = v
    BY <2>8, <2>9, <2>10
  <2> QED BY <2>2, <2>3, <2>11
<1> QED BY <1>1, <1>9, <1>10

\* A turn of AM_PES_Decode's loop that finds a packet finds the one that is due, and
\* goes on behind it.
LEMMA PacketIs ==
  ASSUME NEW w \in Seq(Places), NEW e \in Places, Flow(w, e), NEW at \in 0 .. Len(w),
         NEW n \in Nat \ {0}, FirstAt(n, PlaceAt(w, e, at + 1)), NEW p \in Packet(w, at)
  PROVE  /\ p.data = Handed(n) /\ p.end \in 0 .. Len(w)
         /\ PlaceAt(w, e, p.end + 1) = <<n + 1, 1>>
<1>1. PICK T, i : T = StartCodes(w, at + 1) /\ i = FirstOf(StartCodes(w, at + 1))
  OBVIOUS
<1>2. T # {} /\ p \in IF Kind(w[i][1]).open THEN OpenPacket(w, i) ELSE SizedPacket(w, i)
  BY <1>1 DEF Packet
<1>3. i \in (at + 1) .. (Len(w) - 4) /\ w[i] = <<n, 1>>
  BY <1>1, <1>2, FirstStart
<1>4. Len(w) \in Nat /\ i \in Nat /\ i >= 1 /\ i <= Len(w) - 4 /\ i \in 1 .. Len(w)
  <2>1. Len(w) \in Nat
    BY LenProperties
  <2> QED BY <1>3, <2>1
<1>5. PICK L, H : L = Kind(n).size /\ H = Cut(Kind(n))
  OBVIOUS
<1>6. /\ L \in Nat /\ H \in Nat /\ 6 <= H /\ H <= L /\ 7 <= L
      /\ Kind(n) \in PacketKinds /\ Kind(n).open \in BOOLEAN
  <2>1. /\ L \in Nat /\ 7 <= L /\ H \in 6 .. L
        /\ Kind(n) \in PacketKinds /\ Kind(n).open \in BOOLEAN
    BY <1>5, KindIs, CutIs
  <2> QED BY <2>1
<1>7. /\ \A m \in Nat : i + m <= Len(w) /\ m < L => w[i + m] = <<n, 1 + m>>
      /\ i + L - 1 <= Len(w) => /\ SubSeq(w, i + H, i + L - 1) = Handed(n)
                                /\ PlaceAt(w, e, i + L) = <<n + 1, 1>>
  BY <1>3, <1>4, <1>5, WholePacket
<1>8. w[i][1] = n /\ Kind(w[i][1]).size = L
  BY <1>3, <1>5
<1>9. (i + L - 1) + 1 = i + L /\ i + L - 1 \in Nat
  BY <1>4, <1>6
<1>10. CASE ~Kind(n).open /\ p \in SizedPacket(w, i)
  <2>1. ~(Len(w) < i + L - 1) /\ p = [end |-> i + L - 1, data |-> SubSeq(w, i + H, i + L - 1)]
    <3>1. HeaderLen(Kind(n)) = H
      BY <1>5, <1>10, KindIs, CutIs
    <3> QED BY <1>8, <1>10, <3>1 DEF SizedPacket
  <2>2. i + L - 1 <= Len(w)
    BY <1>4, <1>9, <2>1
  <2>3. p.end = i + L - 1 /\ p.data = SubSeq(w, i + H, i + L - 1)
    BY <2>1
  <2>4. p.end \in 0 .. Len(w)
    BY <1>4, <1>9, <2>2, <2>3
  <2> QED BY <1>7, <1>9, <2>2, <2>3, <2>4
<1>11. CASE Kind(n).open /\ p \in OpenPacket(w, i)
  <2>0. PICK G : G = 9 + Kind(n).ext
    OBVIOUS
  <2>00. G \in Nat /\ H = IF L < G THEN L ELSE G
    <3>1. Kind(n).ext \in Nat
      BY <1>6 DEF PacketKinds
    <3>2. H = IF L < G THEN L ELSE G
      BY <1>5, <1>11, <2>0, KindIs, CutIs
    <3> QED BY <2>0, <3>1, <3>2
  <2>1. PICK U, g : U = StartCodes(w, i + 6) /\ g = FirstOf(StartCodes(w, i + 6))
    OBVIOUS
  <2>2. /\ U # {}
        /\ p = [end |-> g - 1, data |-> IF g - i < G THEN <<>> ELSE SubSeq(w, i + G, g - 1)]
    BY <1>8, <1>11, <2>0, <2>1 DEF OpenPacket
  <2>3. i + 6 \in Nat \ {0}
    BY <1>4
  <2>4. U = {j \in (i + 6) .. (Len(w) - 4) : w[j][2] = 1} /\ U \in SUBSET Nat
    BY <2>1, <2>3, StartCodesAre
  <2>5. g \in U /\ \A j \in U : g <= j
    BY <2>1, <2>2, <2>4, FirstIs
  <2>6. g \in Nat /\ i + 6 <= g /\ g <= Len(w) - 4 /\ w[g][2] = 1
    BY <1>4, <2>4, <2>5
  <2>7. ~(g < i + L)
    <3>1. SUFFICES ASSUME g < i + L PROVE FALSE
      OBVIOUS
    <3>2. PICK m : m = g - i
      OBVIOUS
    <3>3. m \in Nat /\ m >= 6 /\ i + m = g /\ i + m <= Len(w) /\ m < L
      BY <1>4, <1>6, <2>6, <3>1, <3>2
    <3>4. w[g] = <<n, 1 + m>>
      BY <1>7, <3>3
    <3>5. 1 + m = 1
      BY <2>6, <3>4
    <3> QED BY <3>3, <3>5
  <2>8. /\ i + L - 1 <= Len(w) /\ i + L <= Len(w) /\ i + L \in (i + 6) .. (Len(w) - 4)
        /\ i + L <= g /\ i + L \in Nat
    BY <1>4, <1>6, <2>6, <2>7
  <2>9. w[i + L] = <<n + 1, 1>>
    BY <1>7, <2>8 DEF PlaceAt
  <2>10. i + L \in U
    BY <2>4, <2>8, <2>9
  <2>11. g <= i + L
    BY <2>5, <2>10
  <2>12. g = i + L
    BY <2>6, <2>8, <2>11
  <2>13. g - 1 = i + L - 1 /\ g - i = L
    BY <1>4, <1>6, <2>12
  <2>14. p.end = i + L - 1 /\ p.data = SubSeq(w, i + H, i + L - 1)
    <3>1. p.end = i + L - 1 /\ p.data = IF L < G THEN <<>> ELSE SubSeq(w, i + G, i + L - 1)
      BY <2>2, <2>13
    <3>2. CASE L < G
      <4>1. PICK f, t : f = i + L /\ t = i + L - 1
        OBVIOUS
      <4>2. f \in Int /\ t \in Int /\ ~(f <= t)
        BY <1>4, <1>6, <4>1
      <4>3. \A h \in f .. t : w[h] \in Places
        BY <4>2
      <4>4. SubSeq(w, f, t) \in Seq(Places) /\ Len(SubSeq(w, f, t)) = 0
        BY <4>2, <4>3, SubSeqProperties
      <4>5. SubSeq(w, f, t) = <<>>
        BY <4>4, EmptySeq
      <4> QED BY <2>00, <3>1, <3>2, <4>1, <4>5
    <3>3. CASE ~(L < G)
      BY <2>00, <3>1, <3>3
    <3> QED BY <3>2, <3>3
  <2>15. p.end \in 0 .. Len(w)
    BY <1>4, <1>9, <2>8, <2>14
  <2> QED BY <1>7, <1>9, <2>8, <2>14, <2>15
<1> QED BY <1>2, <1>6, <1>8, <1>10, <1>11

\* Start codes of the end of the buffer are those of the buffer.
LEMMA StartsShift ==
  ASSUME NEW w \in Seq(Places), NEW e \in Places, Flow(w, e), NEW d \in 0 .. Len(w),
         NEW j \in Nat \ {0}, NEW x \in StartCodes(SubSeq(w, d + 1, Len(w)), j)
  PROVE  x + d \in StartCodes(w, j + d) /\ x \in Nat /\ x >= j
<1>1. PICK v : v = SubSeq(w, d + 1, Len(w))
  OBVIOUS
<1>2. /\ v \in Seq(Places) /\ Len(v) = Len(w) - d
      /\ \A i \in 1 .. (Len(w) - d) : v[i] = w[d + i]
  BY <1>1, Parts
<1>3. Flow(v, e)
  BY <1>1, FlowParts
<1>4. Len(w) \in Nat /\ d \in Nat /\ d <= Len(w) /\ j + d \in Nat \ {0}
  <2>1. Len(w) \in Nat
    BY LenProperties
  <2> QED BY <2>1
<1>5. StartCodes(v, j) = {i \in j .. (Len(v) - 4) : v[i][2] = 1}
  BY <1>2, <1>3, StartCodesAre
<1>6. StartCodes(w, j + d) = {i \in (j + d) .. (Len(w) - 4) : w[i][2] = 1}
  BY <1>4, StartCodesAre
<1>7. x \in j .. (Len(v) - 4) /\ v[x][2] = 1
  BY <1>1, <1>5
<1>8. x \in Nat /\ x >= j /\ x \in 1 .. (Len(w) - d) /\ d + x = x + d
      /\ x + d \in (j + d) .. (Len(w) - 4)
  BY <1>2, <1>4, <1>7
<1>9. w[x + d][2] = 1
  BY <1>2, <1>7, <1>8
<1> QED BY <1>6, <1>8, <1>9

\* What AM_PES_Decode keeps when its loop ends: the bytes from the start code of the
\* packet that is due, which is not complete.
LEMMA LeftIs ==
  ASSUME NEW w \in Seq(Places), NEW e \in Places, Flow(w, e), NEW at \in 0 .. Len(w),
         NEW n \in Nat \ {0}, FirstAt(n, PlaceAt(w, e, at + 1)),
         at >= Len(w) \/ Packet(w, at) = {}
  PROVE  LET v == Left(w, at)
         IN  /\ v \in Seq(Places) /\ Flow(v, e) /\ FirstAt(n, PlaceAt(v, e, 1))
             /\ Packet(v, 0) = {}
<1>1. PICK T, i : T = StartCodes(w, at + 1) /\ i = FirstOf(StartCodes(w, at + 1))
  OBVIOUS
<1>2. PICK d : d = IF T = {} THEN at ELSE i - 1
  OBVIOUS
<1>3. Len(w) \in Nat /\ at \in Nat /\ at + 1 \in Nat \ {0}
  <2>1. Len(w) \in Nat
    BY LenProperties
  <2> QED BY <2>1
<1>4. T # {} => i \in (at + 1) .. (Len(w) - 4) /\ w[i] = <<n, 1>>
  BY <1>1, FirstStart
<1>5. d \in 0 .. Len(w) /\ d \in Nat /\ (T # {} => i \in Nat /\ d + 1 = i /\ i <= Len(w) - 4)
  BY <1>2, <1>3, <1>4
<1>6. PICK v : v = SubSeq(w, d + 1, Len(w))
  OBVIOUS
<1>7. Left(w, at) = v
  BY <1>1, <1>2, <1>5, <1>6 DEF Left
<1>8. /\ v \in Seq(Places) /\ Len(v) = Len(w) - d
      /\ \A h \in 1 .. (Len(w) - d) : v[h] = w[d + h]
  BY <1>5, <1>6, Parts
<1>9. Flow(v, e) /\ PlaceAt(v, e, 1) = PlaceAt(w, e, d + 1)
  BY <1>5, <1>6, FlowParts
<1>10. \A j \in Nat \ {0} : \A x \in StartCodes(v, j) :
         x + d \in StartCodes(w, j + d) /\ x \in Nat /\ x >= j
  BY <1>5, <1>6, StartsShift
<1>11. CASE T = {}
  <2>1. d = at /\ 1 + d = at + 1
    BY <1>2, <1>3, <1>11
  <2>2. StartCodes(v, 1) = {}
    <3>1. 1 \in Nat \ {0}
      OBVIOUS
    <3> QED BY <1>1, <1>10, <1>11, <2>1, <3>1
  <2>3. Packet(v, 0) = {}
    <3>1. 0 + 1 = 1
      OBVIOUS
    <3> QED BY <2>2, <3>1 DEF Packet
  <2>4. FirstAt(n, PlaceAt(v, e, 1))
    BY <1>9, <2>1
  <2> QED BY <1>7, <1>8, <1>9, <2>3, <2>4
<1>12. CASE T # {}
  <2>1. w[i] = <<n, 1>> /\ i \in Nat /\ d + 1 = i /\ at + 1 <= i /\ i <= Len(w) - 4
    BY <1>3, <1>4, <1>5, <1>12
  <2>2. 1 \in 1 .. (Len(w) - d) /\ i <= Len(w) /\ Len(v) = Len(w) - i + 1 /\ 1 \in 1 .. (Len(v) - 4)
    <3>1. Len(v) = Len(w) - d /\ Len(w) \in Nat /\ d \in Nat /\ d + 1 = i /\ i <= Len(w) - 4
      BY <1>3, <1>5, <1>8, <2>1
    <3>2. Len(w) - d >= 5 /\ Len(w) - d \in Nat
      BY <3>1
    <3> QED BY <3>1, <3>2
  <2>3. v[1] = <<n, 1>>
    BY <1>8, <2>1, <2>2
  <2>4. StartCodes(v, 1) = {j \in 1 .. (Len(v) - 4) : v[j][2] = 1} /\ StartCodes(v, 1) \in SUBSET Nat
    BY <1>8, <1>9, StartCodesAre
  <2>5. 1 \in StartCodes(v, 1)
    BY <2>2, <2>3, <2>4
  <2>6. FirstOf(StartCodes(v, 1)) = 1
    <3>1. PICK S, f : S = StartCodes(v, 1) /\ f = FirstOf(StartCodes(v, 1))
      OBVIOUS
    <3>2. S # {} /\ S \in SUBSET Nat /\ 1 \in S
      BY <2>4, <2>5, <3>1
    <3>3. f \in S /\ \A y \in S : f <= y
      BY <3>1, <3>2, FirstIs
    <3>4. f \in Nat /\ f >= 1 /\ f <= 1
      BY <2>4, <3>1, <3>2, <3>3
    <3> QED BY <3>1, <3>4
  <2>7. Packet(w, at) = {}
    BY <1>3, <2>1
  <2>8. PICK L : L = Kind(n).size
    OBVIOUS
  <2>9. L \in Nat /\ Kind(n).open \in BOOLEAN
    BY <2>8, KindIs
  <2>10. Packet(v, 0) = IF Len(v) - 1 + 1 < 6 THEN {}
                        ELSE IF Kind(n).open THEN OpenPacket(v, 1) ELSE SizedPacket(v, 1)
    <3>1. 0 + 1 = 1 /\ Kind(v[1][1]) = Kind(n) /\ StartCodes(v, 1) # {}
      BY <2>3, <2>5
    <3> QED BY <2>6, <3>1 DEF Packet
  <2>11. Len(w) - i + 1 < 6 \/ (IF Kind(n).open THEN OpenPacket(w, i) ELSE SizedPacket(w, i)) = {}
    <3>1. Kind(w[i][1]) = Kind(n)
      BY <2>1
    <3> QED BY <1>1, <1>12, <2>7, <3>1 DEF Packet
  <2>12. Packet(v, 0) = {}
    <3>1. CASE Len(w) - i + 1 < 6
      <4>1. Len(v) - 1 + 1 < 6
        BY <1>3, <2>1, <2>2, <3>1
      <4> QED BY <2>10, <4>1
    <3>2. CASE Kind(n).open /\ OpenPacket(w, i) = {}
      <4>1. StartCodes(w, i + 6) = {}
        BY <3>2 DEF OpenPacket
      <4>2. StartCodes(v, 7) = {}
        <5>1. 7 \in Nat \ {0} /\ 7 + d = i + 6
          BY <1>5, <2>1
        <5> QED BY <1>10, <4>1, <5>1
      <4>3. OpenPacket(v, 1) = {}
        <5>1. 1 + 6 = 7
          OBVIOUS
        <5> QED BY <4>2, <5>1 DEF OpenPacket
      <4> QED BY <2>10, <3>2, <4>3
    <3>3. CASE ~Kind(n).open /\ SizedPacket(w, i) = {}
      <4>1. Len(w) < i + L - 1
        <5>1. Kind(w[i][1]).size = L
          BY <2>1, <2>8
        <5>2. PICK y : y = [end  |-> i + L - 1,
                            data |-> SubSeq(w, i + HeaderLen(Kind(w[i][1])), i + L - 1)]
          OBVIOUS
        <5>3. SizedPacket(w, i) = IF Len(w) < i + L - 1 THEN {} ELSE {y}
          BY <5>1, <5>2 DEF SizedPacket
        <5> QED BY <3>3, <5>3
      <4>2. Len(v) < 1 + L - 1
        BY <1>3, <2>1, <2>2, <2>9, <4>1
      <4>3. SizedPacket(v, 1) = {}
        BY <2>3, <2>8, <4>2 DEF SizedPacket
      <4> QED BY <2>10, <3>3, <4>3
    <3> QED BY <2>9, <2>11, <3>1, <3>2, <3>3
  <2>13. FirstAt(n, PlaceAt(v, e, 1))
    <3>1. PlaceAt(w, e, d + 1) = <<n, 1>>
      BY <2>1, <2>2 DEF PlaceAt
    <3> QED BY <1>9, <3>1 DEF FirstAt
  <2> QED BY <1>7, <1>8, <1>9, <2>12, <2>13
<1> QED BY <1>11, <1>12

-----------------------------------------------------------------------------
(* Payloads.                                                               *)

\* What a read of the filter brings: the next bytes of the stream.
LEMMA StreamIs ==
  ASSUME sent \in Places, NEW n \in Chunks
  PROVE  LET data == Stream(n)
         IN  /\ data \in Seq(Places) /\ Len(data) = n /\ n \in Nat \ {0} /\ data[1] = sent
             /\ Succ(data[Len(data)]) \in Places /\ Flow(data, Succ(data[Len(data)]))
<1>1. PICK k, f : k = sent[1] /\ f = sent[2]
  OBVIOUS
<1>2. k \in Nat \ {0} /\ f \in Nat \ {0} /\ f <= Kind(k).size /\ sent = <<k, f>>
  BY <1>1, PlacesAre
<1>3. PICK B, C, D : /\ B = Bytes(k, f, Kind(k).size)
                     /\ C = Bytes(k + 1, 1, Kind(k + 1).size)
                     /\ D = Bytes(k + 2, 1, Kind(k + 2).size)
  OBVIOUS
<1>4. PICK x, y, z : x = <<k + 1, 1>> /\ y = <<k + 2, 1>> /\ z = <<k + 3, 1>>
  OBVIOUS
<1>5. /\ B \in Seq(Places) /\ Len(B) = Kind(k).size - f + 1 /\ Len(B) > 0
      /\ x \in Places /\ Flow(B, x) /\ B[1] = sent
  BY <1>2, <1>3, <1>4, BytesFlow
<1>6. /\ C \in Seq(Places) /\ Len(C) = Kind(k + 1).size /\ Len(C) > 0
      /\ y \in Places /\ Flow(C, y) /\ C[1] = x
  <2>1. PICK h : h = k + 1
    OBVIOUS
  <2>2. h \in Nat \ {0} /\ h + 1 = k + 2
    BY <1>2, <2>1
  <2>3. Kind(h).size \in Nat /\ 1 <= Kind(h).size
    BY <2>2, KindIs
  <2>4. 1 \in Nat \ {0} /\ Kind(h).size - 1 + 1 = Kind(h).size
    BY <2>3
  <2>5. /\ Bytes(h, 1, Kind(h).size) \in Seq(Places)
        /\ Len(Bytes(h, 1, Kind(h).size)) = Kind(h).size - 1 + 1
        /\ Len(Bytes(h, 1, Kind(h).size)) > 0
        /\ <<h + 1, 1>> \in Places /\ Flow(Bytes(h, 1, Kind(h).size), <<h + 1, 1>>)
        /\ Bytes(h, 1, Kind(h).size)[1] = <<h, 1>>
    BY <2>2, <2>3, <2>4, BytesFlow
  <2> QED BY <1>3, <1>4, <2>1, <2>2, <2>4, <2>5
<1>7. /\ D \in Seq(Places) /\ Len(D) = Kind(k + 2).size /\ Len(D) > 0
      /\ z \in Places /\ Flow(D, z) /\ D[1] = y
  <2>1. PICK h : h = k + 2
    OBVIOUS
  <2>2. h \in Nat \ {0} /\ h + 1 = k + 3
    BY <1>2, <2>1
  <2>3. Kind(h).size \in Nat /\ 1 <= Kind(h).size
    BY <2>2, KindIs
  <2>4. 1 \in Nat \ {0} /\ Kind(h).size - 1 + 1 = Kind(h).size
    BY <2>3
  <2>5. /\ Bytes(h, 1, Kind(h).size) \in Seq(Places)
        /\ Len(Bytes(h, 1, Kind(h).size)) = Kind(h).size - 1 + 1
        /\ Len(Bytes(h, 1, Kind(h).size)) > 0
        /\ <<h + 1, 1>> \in Places /\ Flow(Bytes(h, 1, Kind(h).size), <<h + 1, 1>>)
        /\ Bytes(h, 1, Kind(h).size)[1] = <<h, 1>>
    BY <2>2, <2>3, <2>4, BytesFlow
  <2> QED BY <1>3, <1>4, <2>1, <2>2, <2>4, <2>5
<1>8. Len(B) \in Nat /\ Len(C) \in Nat /\ Len(D) \in Nat
  BY <1>5, <1>6, <1>7, LenProperties
<1>9. PlaceAt(C, y, 1) = x /\ PlaceAt(D, z, 1) = y /\ PlaceAt(B, x, 1) = sent
  BY <1>5, <1>6, <1>7, <1>8 DEF PlaceAt
<1>10. PICK E : E = B \o C
  OBVIOUS
<1>11. /\ E \in Seq(Places) /\ Len(E) = Len(B) + Len(C) /\ Flow(E, y)
       /\ \A i \in 1 .. (Len(B) + 1) : PlaceAt(E, y, i) = PlaceAt(B, x, i)
  <2>1. Flow(B, PlaceAt(C, y, 1))
    BY <1>5, <1>9
  <2>2. /\ B \o C \in Seq(Places) /\ Len(B \o C) = Len(B) + Len(C) /\ Flow(B \o C, y)
        /\ \A i \in 1 .. (Len(B) + 1) : PlaceAt(B \o C, y, i) = PlaceAt(B, PlaceAt(C, y, 1), i)
    BY <1>5, <1>6, <2>1, FlowConcat
  <2> QED BY <1>9, <1>10, <2>2
<1>12. PICK F : F = E \o D
  OBVIOUS
<1>13. /\ F \in Seq(Places) /\ Len(F) = Len(E) + Len(D) /\ Flow(F, z)
       /\ \A i \in 1 .. (Len(E) + 1) : PlaceAt(F, z, i) = PlaceAt(E, y, i)
  <2>1. Flow(E, PlaceAt(D, z, 1))
    BY <1>9, <1>11
  <2>2. /\ E \o D \in Seq(Places) /\ Len(E \o D) = Len(E) + Len(D) /\ Flow(E \o D, z)
        /\ \A i \in 1 .. (Len(E) + 1) : PlaceAt(E \o D, z, i) = PlaceAt(E, PlaceAt(D, z, 1), i)
    BY <1>7, <1>11, <2>1, FlowConcat
  <2> QED BY <1>9, <1>12, <2>2
<1>14. PlaceAt(F, z, 1) = sent
  <2>1. 1 \in 1 .. (Len(B) + 1) /\ 1 \in 1 .. (Len(E) + 1)
    BY <1>8, <1>11
  <2> QED BY <1>9, <1>11, <1>13, <2>1
<1>15. n \in Nat \ {0} /\ n \in 0 .. Len(F)
  <2>1. n \in Nat \ {0}
    BY ChunkAssumption
  <2>2. k + 1 \in Nat \ {0} /\ k + 2 \in Nat \ {0}
    BY <1>2
  <2>3. PICK i \in DOMAIN Packets : Kind(k + 1) = Packets[i]
    BY <2>2, KindIs
  <2>4. PICK j \in DOMAIN Packets : Kind(k + 2) = Packets[j]
    BY <2>2, KindIs
  <2>5. n <= Len(C) + Len(D)
    BY <1>6, <1>7, <2>3, <2>4, ChunkAssumption
  <2> QED BY <1>8, <1>11, <1>13, <2>1, <2>5
<1>16. PICK data, b : data = SubSeq(F, 1, n) /\ b = PlaceAt(F, z, n + 1)
  OBVIOUS
<1>17. data \in Seq(Places) /\ Len(data) = n
  BY <1>13, <1>15, <1>16, Parts
<1>18. b \in Places /\ Flow(data, b) /\ PlaceAt(data, b, 1) = sent
  BY <1>7, <1>13, <1>14, <1>15, <1>16, FlowParts
<1>19. data[1] = sent
  BY <1>15, <1>17, <1>18 DEF PlaceAt
<1>20. Succ(data[Len(data)]) = b
  <2>1. n \in 1 .. Len(data) /\ ~(n + 1 <= Len(data))
    BY <1>15, <1>17
  <2>2. PlaceAt(data, b, n + 1) = Succ(data[n])
    BY <1>18, <2>1 DEF Flow
  <2> QED BY <1>17, <2>1, <2>2 DEF PlaceAt
<1>21. Stream(n) = data
  BY <1>1, <1>3, <1>10, <1>12, <1>16 DEF Stream
<1> QED BY <1>15, <1>17, <1>18, <1>19, <1>20, <1>21

\* The state of the stream after a step.
LEMMA StreamNext ==
  ASSUME NEW b \in Seq(Places), NEW c \in Seq(Places), NEW s \in Places, NEW y,
         y = PlaceAt(c, s, 1), Flow(c, s), Flow(b, y),
         buf' = b, chunk' = c, sent' = s, want' \in Nat \ {0}, pos' \in 0 .. Len(b),
         thread' # "incb" => c = <<>>,
         thread' \in {"none", "poll", "incb"} => pos' = 0,
         FirstAt(IF thread' = "packet" THEN want' + 1 ELSE want', PlaceAt(b, y, pos' + 1))
  PROVE  StreamInv'
<1>1. Behind' = y
  BY DEF Behind, PlaceAt
<1>2. Flow(chunk, sent)'
  BY DEF Flow, PlaceAt
<1>3. Flow(buf, Behind)'
  BY <1>1 DEF Flow, PlaceAt
<1>4. FirstAt(IF thread = "packet" THEN want + 1 ELSE want, PlaceAt(buf, Behind, pos + 1))'
  BY <1>1 DEF FirstAt, PlaceAt
<1> QED BY <1>2, <1>3, <1>4 DEF StreamInv

\* The stream when only the client moves, or the thread ends.
LEMMA StreamStays ==
  ASSUME StreamInv, DeliveryInv, UNCHANGED <<buf, chunk, pos, sent, want, out>>,
         thread' = thread \/ (thread = "poll" /\ thread' = "none")
  PROVE  StreamInv' /\ DeliveryInv'
<1>1. PICK b, c, s, y : b = buf /\ c = chunk /\ s = sent /\ y = Behind
  OBVIOUS
<1>2. b \in Seq(Places) /\ c \in Seq(Places) /\ s \in Places /\ y = PlaceAt(c, s, 1)
  BY <1>1 DEF StreamInv, Behind
<1>3. Flow(c, s) /\ Flow(b, y)
  BY <1>1 DEF StreamInv
<1>4. buf' = b /\ chunk' = c /\ sent' = s /\ want' \in Nat \ {0} /\ pos' \in 0 .. Len(b)
  BY <1>1 DEF StreamInv
<1>5. (thread' # "incb" => c = <<>>) /\ (thread' \in {"none", "poll", "incb"} => pos' = 0)
  BY <1>1 DEF StreamInv
<1>6. FirstAt(IF thread' = "packet" THEN want' + 1 ELSE want', PlaceAt(b, y, pos' + 1))
  BY <1>1 DEF StreamInv
<1>7. StreamInv'
  BY <1>2, <1>3, <1>4, <1>5, <1>6, StreamNext
<1>8. (thread = "packet" => out = Handed(want))'
  BY DEF DeliveryInv, Handed, Cut, HeaderLen, Mpeg1Offset, Bytes, Kind
<1>9. (thread = "poll" => Packet(buf, 0) = {})'
  <2>1. ASSUME thread' = "poll" PROVE Packet(b, 0) = {}
    BY <1>1, <2>1 DEF DeliveryInv
  <2> QED BY <1>4, <2>1
<1> QED BY <1>7, <1>8, <1>9 DEF DeliveryInv

\* AM_AD_Create begins with an empty parser, anywhere in the stream.
LEMMA CreateStream ==
  ASSUME ~OthersOpen, LifeInv, StreamInv, DeliveryInv, Create
  PROVE  StreamInv' /\ DeliveryInv'
<1>1. PICK i \in 1 .. Kind(1).size : sent' = <<1, i>> /\ want' = IF i = 1 THEN 1 ELSE 2
  BY DEF Create
<1>2. thread = "none" /\ thread' = "poll" /\ chunk' = chunk /\ pos' = pos /\ buf' = <<>>
  BY DEF Create, LifeInv
<1>3. chunk' = <<>> /\ pos' = 0
  BY <1>2 DEF StreamInv
<1>4. PICK b, s : b = <<>> /\ s = <<1, i>>
  OBVIOUS
<1>5. s \in Places
  <2>1. 1 \in Nat \ {0} /\ Kind(1).size \in Nat
    BY KindIs
  <2>2. i \in Nat \ {0} /\ i <= Kind(1).size
    BY <2>1
  <2> QED BY <1>4, <2>1, <2>2, PlacesAre
<1>6. b \in Seq(Places) /\ Len(b) = 0
  BY <1>4, EmptySeq
<1>7. Flow(b, s) /\ PlaceAt(b, s, 1) = s
  BY <1>6 DEF Flow, PlaceAt
<1>8. FirstAt(IF thread' = "packet" THEN want' + 1 ELSE want', PlaceAt(b, s, pos' + 1))
  <2>1. PlaceAt(b, s, pos' + 1) = s
    <3>1. pos' + 1 = 1
      BY <1>3
    <3> QED BY <1>7, <3>1
  <2>2. FirstAt(want', s)
    <3>1. CASE i = 1
      BY <1>1, <1>4, <3>1 DEF FirstAt
    <3>2. CASE i # 1
      <4>1. want' = 2 /\ s[1] = 1 /\ s[2] = i /\ i > 1
        <5>1. Kind(1).size \in Nat
          BY KindIs
        <5>2. i > 1
          BY <3>2, <5>1
        <5> QED BY <1>1, <1>4, <3>2, <5>2
      <4> QED BY <4>1 DEF FirstAt
    <3> QED BY <3>1, <3>2
  <2> QED BY <1>2, <2>1, <2>2
<1>9. buf' = b /\ chunk' = b /\ sent' = s /\ want' \in Nat \ {0} /\ pos' \in 0 .. Len(b)
  BY <1>1, <1>2, <1>3, <1>4, <1>6
<1>10. thread' # "incb" => b = <<>>
  BY <1>4
<1>11. StreamInv'
  BY <1>3, <1>5, <1>6, <1>7, <1>8, <1>9, <1>10, StreamNext
<1>12. Packet(b, 0) = {}
  <2>1. StartCodes(b, 0 + 1) = {}
    BY <1>6 DEF StartCodes
  <2> QED BY <2>1 DEF Packet
<1>13. (thread = "poll" => Packet(buf, 0) = {})'
  BY <1>9, <1>12
<1>14. (thread = "packet" => out = Handed(want))'
  BY <1>2
<1> QED BY <1>11, <1>13, <1>14 DEF DeliveryInv

\* A read of the filter brings the bytes behind those the parser has.
LEMMA DeliverStream ==
  ASSUME StreamInv, Deliver
  PROVE  StreamInv' /\ DeliveryInv'
<1>1. PICK n \in Chunks : /\ chunk' = Stream(n)
                          /\ sent' = Succ(Stream(n)[Len(Stream(n))])
  BY DEF Deliver, Succ
<1>2. thread = "poll" /\ thread' = "incb" /\ buf' = buf /\ pos' = pos /\ want' = want
  BY DEF Deliver, parser
<1>3. chunk = <<>> /\ pos = 0 /\ sent \in Places
  BY <1>2 DEF StreamInv
<1>4. PICK b, c, s, y : b = buf /\ c = Stream(n) /\ s = Succ(Stream(n)[Len(Stream(n))]) /\ y = sent
  OBVIOUS
<1>5. /\ Stream(n) \in Seq(Places) /\ Len(Stream(n)) = n /\ n \in Nat \ {0} /\ Stream(n)[1] = sent
      /\ Succ(Stream(n)[Len(Stream(n))]) \in Places
      /\ Flow(Stream(n), Succ(Stream(n)[Len(Stream(n))]))
  BY <1>3, StreamIs
<1>6. c \in Seq(Places) /\ Len(c) = n /\ n \in Nat \ {0} /\ c[1] = y /\ s \in Places /\ Flow(c, s)
  BY <1>4, <1>5
<1>7. y = PlaceAt(c, s, 1)
  BY <1>6 DEF PlaceAt
<1>8. Behind = y
  BY <1>3, <1>4, EmptySeq DEF Behind, PlaceAt
<1>9. b \in Seq(Places) /\ Flow(b, y)
  BY <1>4, <1>8 DEF StreamInv
<1>10. FirstAt(want, PlaceAt(b, y, pos + 1))
  BY <1>2, <1>4, <1>8 DEF StreamInv
<1>11. FirstAt(IF thread' = "packet" THEN want' + 1 ELSE want', PlaceAt(b, y, pos' + 1))
  BY <1>2, <1>10
<1>12. buf' = b /\ chunk' = c /\ sent' = s /\ want' \in Nat \ {0} /\ pos' \in 0 .. Len(b) /\ pos' = 0
  BY <1>1, <1>2, <1>3, <1>4 DEF StreamInv
<1>13. thread' # "incb" => c = <<>>
  BY <1>2
<1>14. StreamInv'
  BY <1>6, <1>7, <1>9, <1>11, <1>12, <1>13, StreamNext
<1> QED BY <1>2, <1>14 DEF DeliveryInv

\* ad_callback puts the bytes it is given behind those in the parser.
LEMMA CallbackStream ==
  ASSUME StreamInv, AdCallback
  PROVE  StreamInv' /\ DeliveryInv'
<1>1. /\ thread = "incb" /\ thread' = "decode" /\ buf' = buf \o chunk /\ pos' = 0 /\ chunk' = <<>>
      /\ sent' = sent /\ want' = want
  BY DEF AdCallback
<1>2. pos = 0
  BY <1>1 DEF StreamInv
<1>3. PICK v, w, b, s, y : v = buf /\ w = chunk /\ b = buf \o chunk /\ s = sent /\ y = Behind
  OBVIOUS
<1>4. /\ v \in Seq(Places) /\ w \in Seq(Places) /\ s \in Places /\ Flow(w, s) /\ Flow(v, y)
      /\ y = PlaceAt(w, s, 1)
  BY <1>3 DEF StreamInv, Behind
<1>5. /\ v \o w \in Seq(Places) /\ Len(v \o w) = Len(v) + Len(w) /\ Flow(v \o w, s)
      /\ \A i \in 1 .. (Len(v) + 1) : PlaceAt(v \o w, s, i) = PlaceAt(v, PlaceAt(w, s, 1), i)
  BY <1>4, FlowConcat
<1>6. b = v \o w
  BY <1>3
<1>7. Len(v) \in Nat /\ Len(b) \in Nat
  BY <1>4, <1>5, <1>6, LenProperties
<1>8. PlaceAt(b, s, 1) = PlaceAt(v, y, 1)
  <2>1. 1 \in 1 .. (Len(v) + 1)
    BY <1>7
  <2> QED BY <1>4, <1>5, <1>6, <2>1
<1>9. FirstAt(want, PlaceAt(v, y, 1))
  <2>1. FirstAt(want, PlaceAt(v, y, pos + 1))
    BY <1>1, <1>3 DEF StreamInv
  <2>2. pos + 1 = 1
    BY <1>2
  <2> QED BY <2>1, <2>2
<1>10. FirstAt(IF thread' = "packet" THEN want' + 1 ELSE want', PlaceAt(b, s, pos' + 1))
  <2>1. pos' + 1 = 1
    BY <1>1
  <2> QED BY <1>1, <1>8, <1>9, <2>1
<1>11. PICK c : c = <<>>
  OBVIOUS
<1>12. c \in Seq(Places) /\ Len(c) = 0
  BY <1>11, EmptySeq
<1>13. Flow(c, s) /\ PlaceAt(c, s, 1) = s
  BY <1>12 DEF Flow, PlaceAt
<1>14. buf' = b /\ chunk' = c /\ sent' = s /\ want' \in Nat \ {0} /\ pos' \in 0 .. Len(b) /\ pos' = 0
  BY <1>1, <1>3, <1>7, <1>11 DEF StreamInv
<1>15. b \in Seq(Places) /\ Flow(b, s)
  BY <1>5, <1>6
<1>16. StreamInv'
  BY <1>4, <1>10, <1>11, <1>12, <1>13, <1>14, <1>15, StreamNext
<1> QED BY <1>1, <1>16 DEF DeliveryInv

\* The loop of AM_PES_Decode calls with the payload of the packet that is due.
LEMMA PacketStream ==
  ASSUME StreamInv, DecodePacket
  PROVE  StreamInv' /\ DeliveryInv'
<1>1. /\ thread = "decode" /\ thread' = "packet" /\ chunk' = chunk /\ buf' = buf
      /\ sent' = sent /\ want' = want
  BY DEF DecodePacket
<1>2. PICK p \in Packet(buf, pos) : out' = p.data /\ pos' = p.end
  BY DEF DecodePacket
<1>3. PICK b, c, s, y, n, h : b = buf /\ c = chunk /\ s = sent /\ y = Behind /\ n = want /\ h = pos
  OBVIOUS
<1>4. /\ b \in Seq(Places) /\ c \in Seq(Places) /\ s \in Places /\ Flow(c, s) /\ Flow(b, y)
      /\ y = PlaceAt(c, s, 1) /\ n \in Nat \ {0} /\ h \in 0 .. Len(b) /\ c = <<>>
  BY <1>1, <1>3 DEF StreamInv, Behind
<1>5. y \in Places
  <2>1. ~(1 <= Len(c))
    BY <1>4, EmptySeq
  <2> QED BY <1>4, <2>1 DEF PlaceAt
<1>6. FirstAt(n, PlaceAt(b, y, h + 1))
  BY <1>1, <1>3 DEF StreamInv
<1>7. p \in Packet(b, h)
  BY <1>2, <1>3
<1>8. p.data = Handed(n) /\ p.end \in 0 .. Len(b) /\ PlaceAt(b, y, p.end + 1) = <<n + 1, 1>>
  BY <1>4, <1>5, <1>6, <1>7, PacketIs
<1>9. FirstAt(IF thread' = "packet" THEN want' + 1 ELSE want', PlaceAt(b, y, pos' + 1))
  BY <1>1, <1>2, <1>3, <1>8 DEF FirstAt
<1>10. buf' = b /\ chunk' = c /\ sent' = s /\ want' \in Nat \ {0} /\ pos' \in 0 .. Len(b)
  BY <1>1, <1>2, <1>3, <1>4, <1>8
<1>11. (thread' # "incb" => c = <<>>) /\ (thread' \in {"none", "poll", "incb"} => pos' = 0)
  BY <1>1, <1>4
<1>12. StreamInv'
  BY <1>4, <1>9, <1>10, <1>11, StreamNext
<1>13. out' = Handed(n) /\ want' = n
  BY <1>1, <1>2, <1>3, <1>8
<1>14. (thread = "packet" => out = Handed(want))'
  BY <1>13 DEF Handed, Cut, HeaderLen, Mpeg1Offset, Bytes, Kind
<1> QED BY <1>1, <1>12, <1>14 DEF DeliveryInv

\* When the client's callback returns the next packet is due.
LEMMA ReturnStream ==
  ASSUME StreamInv, PacketCallbackReturns
  PROVE  StreamInv' /\ DeliveryInv'
<1>1. /\ thread = "packet" /\ thread' = "decode" /\ chunk' = chunk /\ buf' = buf
      /\ sent' = sent /\ want' = want + 1 /\ pos' = pos
  BY DEF PacketCallbackReturns
<1>2. PICK b, c, s, y : b = buf /\ c = chunk /\ s = sent /\ y = Behind
  OBVIOUS
<1>3. /\ b \in Seq(Places) /\ c \in Seq(Places) /\ s \in Places /\ Flow(c, s) /\ Flow(b, y)
      /\ y = PlaceAt(c, s, 1) /\ c = <<>>
  BY <1>1, <1>2 DEF StreamInv, Behind
<1>4. FirstAt(want + 1, PlaceAt(b, y, pos + 1))
  BY <1>1, <1>2 DEF StreamInv
<1>5. FirstAt(IF thread' = "packet" THEN want' + 1 ELSE want', PlaceAt(b, y, pos' + 1))
  BY <1>1, <1>4
<1>6. buf' = b /\ chunk' = c /\ sent' = s /\ want' \in Nat \ {0} /\ pos' \in 0 .. Len(b)
  BY <1>1, <1>2 DEF StreamInv
<1>7. (thread' # "incb" => c = <<>>) /\ (thread' \in {"none", "poll", "incb"} => pos' = 0)
  BY <1>1, <1>3
<1>8. StreamInv'
  BY <1>3, <1>5, <1>6, <1>7, StreamNext
<1> QED BY <1>1, <1>8 DEF DeliveryInv

\* What AM_PES_Decode keeps begins where the packet that is due does or before.
LEMMA EndStream ==
  ASSUME StreamInv, DecodeEnd
  PROVE  StreamInv' /\ DeliveryInv'
<1>1. /\ thread = "decode" /\ thread' = "poll" /\ chunk' = chunk /\ buf' = Left(buf, pos)
      /\ sent' = sent /\ want' = want /\ pos' = 0 /\ (pos >= Len(buf) \/ Packet(buf, pos) = {})
  BY DEF DecodeEnd
<1>2. PICK w, c, s, y, n, h : w = buf /\ c = chunk /\ s = sent /\ y = Behind /\ n = want /\ h = pos
  OBVIOUS
<1>3. /\ w \in Seq(Places) /\ c \in Seq(Places) /\ s \in Places /\ Flow(c, s) /\ Flow(w, y)
      /\ y = PlaceAt(c, s, 1) /\ n \in Nat \ {0} /\ h \in 0 .. Len(w) /\ c = <<>>
  BY <1>1, <1>2 DEF StreamInv, Behind
<1>4. y \in Places
  <2>1. ~(1 <= Len(c))
    BY <1>3, EmptySeq
  <2> QED BY <1>3, <2>1 DEF PlaceAt
<1>5. FirstAt(n, PlaceAt(w, y, h + 1))
  BY <1>1, <1>2 DEF StreamInv
<1>6. h >= Len(w) \/ Packet(w, h) = {}
  BY <1>1, <1>2
<1>7. PICK b : b = Left(w, h)
  OBVIOUS
<1>8. /\ Left(w, h) \in Seq(Places) /\ Flow(Left(w, h), y) /\ FirstAt(n, PlaceAt(Left(w, h), y, 1))
      /\ Packet(Left(w, h), 0) = {}
  BY <1>3, <1>4, <1>5, <1>6, LeftIs
<1>9. b \in Seq(Places) /\ Flow(b, y) /\ FirstAt(n, PlaceAt(b, y, 1)) /\ Packet(b, 0) = {}
  BY <1>7, <1>8
<1>10. FirstAt(IF thread' = "packet" THEN want' + 1 ELSE want', PlaceAt(b, y, pos' + 1))
  <2>1. pos' + 1 = 1
    BY <1>1
  <2> QED BY <1>1, <1>2, <1>9, <2>1
<1>11. Len(b) \in Nat
  BY <1>9, LenProperties
<1>12. buf' = b /\ chunk' = c /\ sent' = s /\ want' \in Nat \ {0} /\ pos' \in 0 .. Len(b) /\ pos' = 0
  BY <1>1, <1>2, <1>3, <1>7, <1>11
<1>13. thread' # "incb" => c = <<>>
  BY <1>3
<1>14. StreamInv'
  BY <1>3, <1>9, <1>10, <1>12, <1>13, StreamNext
<1>15. (thread = "poll" => Packet(buf, 0) = {})'
  BY <1>9, <1>12
<1> QED BY <1>1, <1>14, <1>15 DEF DeliveryInv

\* Every step keeps the stream in order and the packets whole.
LEMMA StreamStep ==
  ASSUME ~OthersOpen, LifeInv, StreamInv, DeliveryInv, [Next]_vars
  PROVE  StreamInv' /\ DeliveryInv'
<1>1. CASE Start \/ StopAndFree \/ CloseBegins
  BY <1>1, StreamStays DEF Start, StopAndFree, CloseBegins, parser
<1>2. CASE CloseJoined \/ PesDestroy \/ Free
  BY <1>2, StreamStays DEF CloseJoined, PesDestroy, Free, parser
<1>3. CASE ThreadEnds
  BY <1>3, StreamStays DEF ThreadEnds, parser
<1>4. CASE UNCHANGED vars
  BY <1>4, StreamStays DEF vars
<1> QED BY <1>1, <1>2, <1>3, <1>4, NextCases, CreateStream, DeliverStream, CallbackStream,
           PacketStream, ReturnStream, EndStream

\* However a filter cuts the stream into reads, the client is called with the end of
\* every packet from the first that starts after the filter does, in order, and
\* AM_PES_Decode leaves no complete packet behind; it gets exactly the payload of the
\* packets whose header can be told, and at least the payload of those with a length:
\* for all packets with a whole header and all sizes of reads, if the close in
\* AM_AD_Destroy is the last of the demux.
THEOREM PayloadsCorrect ==
  ASSUME ~OthersOpen
  PROVE  Spec => []PayloadsExact
<1>1. Init => StreamInv
  <2>1. SUFFICES ASSUME Init PROVE StreamInv
    OBVIOUS
  <2>2. /\ thread = "none" /\ chunk = <<>> /\ buf = <<>> /\ pos = 0 /\ sent = <<1, 1>> /\ want = 1
    BY <2>1 DEF Init
  <2>3. sent \in Places
    <3>1. 1 \in Nat \ {0} /\ 1 <= Kind(1).size
      BY KindIs
    <3> QED BY <2>2, <3>1, PlacesAre
  <2>4. chunk \in Seq(Places) /\ buf \in Seq(Places) /\ Len(chunk) = 0 /\ Len(buf) = 0
    BY <2>2, EmptySeq
  <2>5. Flow(chunk, sent) /\ Flow(buf, Behind) /\ PlaceAt(buf, Behind, pos + 1) = <<1, 1>>
    BY <2>2, <2>4 DEF Flow, Behind, PlaceAt
  <2> QED BY <2>2, <2>3, <2>4, <2>5 DEF StreamInv, FirstAt
<1>2. Init => DeliveryInv
  BY DEF Init, DeliveryInv
<1>3. LifeInv /\ StreamInv /\ DeliveryInv /\ [Next]_vars => StreamInv' /\ DeliveryInv'
  BY StreamStep
<1>4. StreamInv /\ DeliveryInv => PayloadsExact
  <2> SUFFICES ASSUME StreamInv, DeliveryInv PROVE PayloadsExact
    OBVIOUS
  <2>1. PICK k, h : k = Kind(want) /\ h = Cut(Kind(want))
    OBVIOUS
  <2>2. k \in PacketKinds /\ HeaderOf(k) \in 7 .. k.size
    BY <2>1, KindIs DEF StreamInv
  <2>3. /\ h \in 6 .. k.size /\ (HeaderSeen(k) => h = HeaderOf(k))
        /\ ~k.open => h <= HeaderOf(k)
    BY <2>1, <2>2, CutIs
  <2>4. Handed(want) = Bytes(want, h + 1, k.size) /\ PayloadOf(want) = Bytes(want, HeaderOf(k) + 1, k.size)
    BY <2>1 DEF Handed, PayloadOf
  <2>5. HeaderSeen(k) => Handed(want) = PayloadOf(want)
    BY <2>3, <2>4
  <2> QED BY <2>1, <2>3, <2>4, <2>5 DEF DeliveryInv, PayloadsExact
<1> QED BY <1>1, <1>2, <1>3, <1>4, Living, PTL DEF Spec
=============================================================================
