--------------------------------- MODULE AmAd ---------------------------------
(***************************************************************************)
(* Audio description, dvb/am_adp/am_ad/am_ad.c: a handle composes an open  *)
(* of the demux, a PES filter with ad_callback and a PES parser, as        *)
(* aml_set_ad_source uses it.  The demux thread calls the parser, and the  *)
(* parser the client, while the client may be destroying both.             *)
(*                                                                         *)
(* Of the demux (AmDmx) there is what a handle uses: the thread that takes *)
(* the callback under dev->lock and calls it without, the filter and the   *)
(* last close, which joins the thread.                                     *)
(***************************************************************************)
EXTENDS AmPes

CONSTANTS
  MaxPackets,   \* bound: packets of the stream
  Chunks,       \* sizes of what one read of the filter brings
  OthersOpen    \* somebody else has the demux open all the time

ASSUME ChunkAssumption ==
  /\ Chunks \subseteq Nat \ {0}
  /\ \A n \in Chunks : \A i, j \in DOMAIN Packets : n <= Packets[i].size + Packets[j].size
ASSUME OthersAssumption == OthersOpen \in BOOLEAN

VARIABLES
  pc,       \* of the client: "none", "live", "freed", "closing" or "closed"
  adMem,    \* the handle is allocated
  pesMem,   \* its parser is allocated
  filter,   \* of the demux: "free", "set" or "started"
  thread,   \* of the demux: "none", "poll", "incb", "decode" or "packet"
  chunk,    \* the bytes of the running ad_callback
  buf,      \* parser->buf up to parser->len
  pos,      \* pos in AM_PES_Decode
  out,      \* the payload of the running packet callback
  sent,     \* external: the next byte of the stream
  want      \* ghost: the packet to be delivered next

vars == <<pc, adMem, pesMem, filter, thread, chunk, buf, pos, out, sent, want>>
handle == <<pc, adMem, pesMem, filter>>
parser == <<buf, pos, out>>

-----------------------------------------------------------------------------
(* The client: aml_set_ad_source.                                          *)

\* AM_AD_Create, which leaves nothing behind when it fails, and
\* AM_AD_SetCallback.  The stream is anywhere in a packet.
Create ==
  /\ pc = "none"
  /\ pc' = "live" /\ adMem' = TRUE /\ pesMem' = TRUE /\ filter' = "set"
  /\ thread' = IF OthersOpen THEN thread ELSE "poll"
  /\ buf' = <<>>
  /\ \E i \in 1 .. Kind(1).size :
       /\ sent' = <<1, i>>
       /\ want' = IF i = 1 THEN 1 ELSE 2
  /\ UNCHANGED <<chunk, pos, out>>

Start ==
  /\ pc = "live" /\ filter = "set"
  /\ filter' = "started"
  /\ UNCHANGED <<pc, adMem, pesMem, thread, chunk, parser, sent, want>>

\* AM_AD_Stop and the first call of AM_AD_Destroy, AM_DMX_FreeFilter.
StopAndFree ==
  /\ pc = "live"
  /\ pc' = "freed" /\ filter' = "free"
  /\ UNCHANGED <<adMem, pesMem, thread, chunk, parser, sent, want>>

\* AM_DMX_Close: the last one stops the thread, whose loop ends at the poll.
CloseBegins ==
  /\ pc = "freed"
  /\ pc' = IF OthersOpen THEN "closed" ELSE "closing"
  /\ UNCHANGED <<adMem, pesMem, filter, thread, chunk, parser, sent, want>>

\* Mutant: the device is closed without waiting for the thread.
JoinedAlways == TRUE

Joined == thread = "none"

CloseJoined ==
  /\ pc = "closing"
  /\ Joined
  /\ pc' = "closed"
  /\ UNCHANGED <<adMem, pesMem, filter, thread, chunk, parser, sent, want>>

PesDestroy ==
  /\ pc = "closed" /\ pesMem
  /\ pesMem' = FALSE
  /\ UNCHANGED <<pc, adMem, filter, thread, chunk, parser, sent, want>>

Free ==
  /\ pc = "closed" /\ ~pesMem
  /\ pc' = "none" /\ adMem' = FALSE
  /\ UNCHANGED <<pesMem, filter, thread, chunk, parser, sent, want>>

-----------------------------------------------------------------------------
(* The demux thread.                                                       *)

\* The next n bytes of the stream, which touch three packets at most.
Stream(n) ==
  LET k == sent[1]
  IN  SubSeq(Bytes(k, sent[2], Kind(k).size) \o Bytes(k + 1, 1, Kind(k + 1).size)
               \o Bytes(k + 2, 1, Kind(k + 2).size), 1, n)

Deliver ==
  /\ thread = "poll"
  /\ filter = "started"
  /\ \E n \in Chunks :
       LET data == Stream(n)
           b    == data[Len(data)]
       IN  /\ b[1] <= MaxPackets
           /\ chunk' = data
           /\ sent' = IF b[2] < Kind(b[1]).size THEN <<b[1], b[2] + 1>> ELSE <<b[1] + 1, 1>>
  /\ thread' = "incb"
  /\ UNCHANGED <<handle, parser, want>>

ThreadEnds ==
  /\ thread = "poll" /\ pc = "closing"
  /\ thread' = "none"
  /\ UNCHANGED <<handle, chunk, parser, sent, want>>

\* ad_callback and the start of AM_PES_Decode.
AdCallback ==
  /\ thread = "incb"
  /\ buf' = buf \o chunk
  /\ pos' = 0
  /\ chunk' = <<>>
  /\ thread' = "decode"
  /\ UNCHANGED <<handle, out, sent, want>>

\* A turn of the loop: a packet is found and pes_packet_callback is called.
DecodePacket ==
  /\ thread = "decode"
  /\ pos < Len(buf)
  /\ \E p \in Packet(buf, pos) :
       /\ out' = p.data
       /\ pos' = p.end
  /\ thread' = "packet"
  /\ UNCHANGED <<handle, chunk, buf, sent, want>>

PacketCallbackReturns ==
  /\ thread = "packet"
  /\ want' = want + 1
  /\ out' = <<>>
  /\ thread' = "decode"
  /\ UNCHANGED <<handle, chunk, buf, pos, sent>>

\* The loop ends, and memmove keeps what is left.
DecodeEnd ==
  /\ thread = "decode"
  /\ pos >= Len(buf) \/ Packet(buf, pos) = {}
  /\ buf' = Left(buf, pos)
  /\ pos' = 0
  /\ thread' = "poll"
  /\ UNCHANGED <<handle, chunk, out, sent, want>>

-----------------------------------------------------------------------------
Init ==
  /\ pc = "none" /\ adMem = FALSE /\ pesMem = FALSE /\ filter = "free"
  /\ thread = IF OthersOpen THEN "poll" ELSE "none"
  /\ chunk = <<>> /\ buf = <<>> /\ pos = 0 /\ out = <<>>
  /\ sent = <<1, 1>> /\ want = 1

Client ==
  \/ Create \/ Start \/ StopAndFree
  \/ CloseBegins \/ CloseJoined \/ PesDestroy \/ Free

Thread ==
  \/ Deliver \/ ThreadEnds \/ AdCallback
  \/ DecodePacket \/ PacketCallbackReturns \/ DecodeEnd

Next == Client \/ Thread

Spec == Init /\ [][Next]_vars

-----------------------------------------------------------------------------
(* Properties.                                                             *)

\* While the demux thread is in ad_callback, in AM_PES_Decode or in the
\* client's callback, neither the handle nor the parser has been freed: the
\* close in AM_AD_Destroy waits for the thread.
CallbackOnLive == thread \in {"incb", "decode", "packet"} => adMem /\ pesMem

\* The packets whose header AM_PES_Decode can tell from the payload: those with
\* an MPEG-2 header, and MPEG-1 packets with a length of which more than six
\* bytes follow the stuffing.
HeaderSeen(p) == p.mpeg2 \/ (~p.open /\ p.stuff + 6 < p.size - 6)

\* However the filter cuts the stream into reads, the client gets the end of
\* every packet that starts after the filter does, once and in order, and no
\* byte of another: exactly the payload if the header can be told, and all of
\* the payload if the packet has a length.  No packet that is complete stays in
\* the parser.
PayloadsExact ==
  /\ thread = "packet" =>
       \E h \in 6 .. Kind(want).size :
         /\ out = Bytes(want, h + 1, Kind(want).size)
         /\ HeaderSeen(Kind(want)) => out = PayloadOf(want)
         /\ ~Kind(want).open => h <= HeaderOf(Kind(want))
  /\ thread = "poll" /\ pc = "live" => Packet(buf, 0) = {}

\* Not checked: what a client may expect of every packet.  It fails for short
\* MPEG-1 packets and for MPEG-1 packets without a length.
AllPayloads == thread = "packet" => out = PayloadOf(want)

-----------------------------------------------------------------------------
(* Parts of the inductive invariant of AmAdProofs.                         *)

\* A handle and its parser exist from AM_AD_Create to the end of AM_AD_Destroy, the
\* thread of the demux from the open to the join in the close.
LifeInv ==
  /\ pc \in {"none", "live", "freed", "closing", "closed"}
  /\ thread \in {"none", "poll", "incb", "decode", "packet"}
  /\ pc \in {"live", "freed", "closing"} => adMem /\ pesMem
  /\ pc \in {"none", "closed"} => thread = "none"
  /\ pc \in {"live", "freed"} => thread # "none"

\* The bytes of the stream, and the one behind a byte.
Places == {x \in (Nat \ {0}) \X (Nat \ {0}) : x[2] <= Kind(x[1]).size}
Succ(x) == IF x[2] < Kind(x[1]).size THEN <<x[1], x[2] + 1>> ELSE <<x[1] + 1, 1>>

\* The bytes w follow each other up to before byte e.
PlaceAt(w, e, i) == IF i <= Len(w) THEN w[i] ELSE e
Flow(w, e) == \A i \in 1 .. Len(w) : PlaceAt(w, e, i + 1) = Succ(w[i])

\* The byte behind those in the parser's buffer.
Behind == PlaceAt(chunk, sent, 1)

\* Packet n is the first that starts at or behind byte x.
FirstAt(n, x) == x = <<n, 1>> \/ (x[1] + 1 = n /\ x[2] > 1)

\* What the parser has and what it is being given is a piece of the stream without
\* a gap; the packet that is due is the first that starts in what it has not used.
StreamInv ==
  /\ sent \in Places /\ want \in Nat \ {0} /\ pos \in 0 .. Len(buf)
  /\ chunk \in Seq(Places) /\ buf \in Seq(Places)
  /\ thread # "incb" => chunk = <<>>
  /\ thread \in {"none", "poll", "incb"} => pos = 0
  /\ Flow(chunk, sent) /\ Flow(buf, Behind)
  /\ FirstAt(IF thread = "packet" THEN want + 1 ELSE want, PlaceAt(buf, Behind, pos + 1))

\* What the client gets of a packet, and where it begins.
Cut(p) == IF ~p.open THEN HeaderLen(p)
          ELSE IF p.size < 9 + p.ext THEN p.size ELSE 9 + p.ext
Handed(k) == Bytes(k, Cut(Kind(k)) + 1, Kind(k).size)

\* Complete packets do not stay in the parser.
DeliveryInv ==
  /\ thread = "packet" => out = Handed(want)
  /\ thread = "poll" => Packet(buf, 0) = {}
=============================================================================
