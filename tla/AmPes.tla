-------------------------------- MODULE AmPes --------------------------------
(***************************************************************************)
(* The PES parser dvb/am_adp/am_pes/am_pes.c in payload_only mode: what    *)
(* one turn of the loop in AM_PES_Decode finds in the collected bytes.     *)
(*                                                                         *)
(* A byte is <<packet, index>>; bytes 1 to 3 of a packet are the start     *)
(* code and 5 and 6 the length field.  Nothing else in the stream looks    *)
(* like a start code: 00 00 01 in a payload is outside the model.          *)
(***************************************************************************)
EXTENDS Integers, Sequences, FiniteSets

CONSTANT Packets   \* the kinds of packets of the stream, in turn

\* External: a packet has size bytes; open says that its length field is 0 or
\* 0xffff, so that only the next start code ends it.  An MPEG-2 header says in
\* byte 9 how long its extension ext is; in an MPEG-1 packet ext is what byte 9
\* happens to be, and the header is stuff bytes 0xFF and skip bytes behind them.
PacketKinds == [size : Nat, open : BOOLEAN, mpeg2 : BOOLEAN,
                ext : Nat, stuff : Nat, skip : Nat]
HeaderOf(p) == IF p.mpeg2 THEN 9 + p.ext ELSE 6 + p.stuff + p.skip

ASSUME PacketAssumption ==
  /\ Packets \in Seq(PacketKinds) /\ Len(Packets) > 0
  /\ \A i \in DOMAIN Packets : HeaderOf(Packets[i]) \in 7 .. Packets[i].size

\* External: the stream.
Kind(k) == Packets[((k - 1) % Len(Packets)) + 1]
Bytes(k, from, to) == [i \in 1 .. (to - from + 1) |-> <<k, from + i - 1>>]
PayloadOf(k) == Bytes(k, HeaderOf(Kind(k)) + 1, Kind(k).size)

\* Start codes from index i on that both search loops accept: five bytes or
\* more of the buffer begin there.
StartCodes(buf, i) ==
  {j \in i .. (Len(buf) - 4) :
     buf[j][2] = 1 /\ SubSeq(buf, j, j + 2) = Bytes(buf[j][1], 1, 3)}

FirstOf(S) == CHOOSE i \in S : \A j \in S : i <= j

\* calc_invalid_pes_offset: the packet at index i ends before the next start
\* code, and has no payload if that lies in what should be the header, which is
\* read as an MPEG-2 one whatever it is.
OpenPacket(buf, i) ==
  LET ends == StartCodes(buf, i + 6)
      head == 9 + Kind(buf[i][1]).ext
      e    == FirstOf(ends)
  IN  IF ends = {} THEN {}
      ELSE {[end  |-> e - 1,
             data |-> IF e - i < head THEN <<>> ELSE SubSeq(buf, i + head, e - 1)]}

\* calc_mpeg1_pes_offset, which looks no further than limit.
Mpeg1Offset(p, limit) ==
  IF 6 + p.stuff < limit THEN 6 + p.stuff + p.skip
  ELSE IF limit > 6 THEN limit ELSE 6

\* The bytes that AM_PES_Decode takes for the header.  The limit in an MPEG-1
\* packet is the length field, not the 6 bytes more that the packet has.
HeaderLen(p) == IF p.mpeg2 THEN 9 + p.ext ELSE Mpeg1Offset(p, p.size - 6)

\* Mutant: the packet is taken as complete when its header is.
SizedPacketEarly(buf, i) ==
  LET k == Kind(buf[i][1])
  IN  IF Len(buf) < i + HeaderLen(k) THEN {}
      ELSE {[end |-> i + k.size - 1, data |-> SubSeq(buf, i + HeaderLen(k), Len(buf))]}

\* A packet whose length field says where it ends.
SizedPacket(buf, i) ==
  LET k == Kind(buf[i][1])
  IN  IF Len(buf) < i + k.size - 1 THEN {}
      ELSE {[end  |-> i + k.size - 1,
             data |-> SubSeq(buf, i + HeaderLen(k), i + k.size - 1)]}

\* The packet that the loop finds after pos bytes, if it is all there.
Packet(buf, pos) ==
  LET starts == StartCodes(buf, pos + 1)
      i      == FirstOf(starts)
  IN  IF starts = {} \/ Len(buf) - i + 1 < 6 THEN {}
      ELSE IF Kind(buf[i][1]).open THEN OpenPacket(buf, i) ELSE SizedPacket(buf, i)

\* What stays in the buffer when no packet is found: it begins at the start
\* code, if there is one.
Left(buf, pos) ==
  LET starts == StartCodes(buf, pos + 1)
  IN  SubSeq(buf, IF starts = {} THEN pos + 1 ELSE FirstOf(starts), Len(buf))
=============================================================================
