------------------------------- MODULE AmDmxSw -------------------------------
(***************************************************************************)
(* The software demux driver dvb/am_adp/am_dmx/dvr/dvr.c under an open     *)
(* demux device: section filters share channels, one per pid; a recording  *)
(* tap per channel brings its transport packets to the data thread, which  *)
(* assembles sections and calls the first filter that matches.             *)
(*                                                                         *)
(* dev->lock is held by the thread from the packet header to the end of    *)
(* the packet, except while a callback runs (data_cb), and by a client for *)
(* one step.  A section byte is <<pid, section, index>>; the bytes of a    *)
(* header say how long the section is.                                     *)
(***************************************************************************)
EXTENDS Integers, Sequences, SequencesExt, FiniteSets

CONSTANTS
  FilterCount,   \* DVR_FILTER_COUNT
  ChannelCount,  \* DVR_CHANNEL_COUNT
  Pids, NoPid,   \* NoPid: 0x1FFF
  TableSets,     \* what filters may ask for, sets of table ids
  Lengths,       \* lengths of the sections a pid carries, cyclically
  Payload,       \* bytes of a packet's payload
  Garbage,       \* lengths that bytes which are no header may stand for
  SplitHeaders,  \* a section header may be split over two packets
  Syncers        \* filters whose owner calls AM_DMX_Sync

ASSUME CountAssumption == FilterCount \in Nat /\ ChannelCount \in Nat
ASSUME LengthAssumption ==
  /\ Lengths \in Seq(Nat) /\ Len(Lengths) > 1
  /\ \A i \in DOMAIN Lengths : Lengths[i] >= 3
  /\ Payload \in Nat /\ Payload > 3
  /\ Garbage \subseteq Nat /\ \A n \in Garbage : n >= 3
ASSUME PidAssumption == NoPid \notin Pids

Filters  == 1 .. FilterCount
Channels == 1 .. ChannelCount
Sections == DOMAIN Lengths
Stuffing == <<NoPid, 0, 0>>

VARIABLES
  filter,   \* dvr_filters and the device's enable flag
  channel,  \* dvr_channels: used, pid and the bytes collected
  taps,     \* pids of the dmx_fds that record
  failed,   \* ghost: pids whose tap the latest reset could not open and start
  pc,       \* of the data thread: "poll", "pointer", "loop" or "incb"
  ch,       \* the channel of the packet that is parsed
  head,     \* bytes before the first section start of the packet
  rest,     \* bytes of the packet after them that are still to be parsed
  first,    \* parse_sec: no section has been taken from the packet yet
  cbf,      \* the filter whose callback runs
  own,      \* ghost: ch has not been given to another filter meanwhile
  next,     \* external: next section byte that each pid sends
  garbage,  \* external: what bytes that are no header say
  due,      \* ghost: the section that a channel must complete next, or {}
  quiet     \* ghost: filters that were stopped before a finished AM_DMX_Sync

vars == <<filter, channel, taps, failed, pc, ch, head, rest, first, cbf, own, next,
          garbage, due, quiet>>
parser == <<pc, ch, head, rest, first, cbf>>

-----------------------------------------------------------------------------
(* External: packets.                                                      *)

After(s) == (s % Len(Lengths)) + 1
Bytes(p, s, from) == [k \in 1 .. (Lengths[s] - from + 1) |-> <<p, s, from + k - 1>>]

\* The bytes of all sections, and where a pid can be between two packets.
Places == UNION {{s} \X (1 .. Lengths[s]) : s \in Sections}
Positions == {x \in Places : ~SplitHeaders => x[2] \notin {2, 3}}

\* The bytes a pid sends next: the rest of a section and n further sections.
Run(p, n) ==
  LET s == next[p][1]
  IN  CASE n = 0 -> Bytes(p, s, next[p][2])
        [] n = 1 -> Bytes(p, s, next[p][2]) \o Bytes(p, After(s), 1)
        [] n = 2 -> Bytes(p, s, next[p][2]) \o Bytes(p, After(s), 1)
                      \o Bytes(p, After(After(s)), 1)

\* Where sections start.
Starts(bytes) == {i \in DOMAIN bytes : bytes[i][3] = 1}

\* A packet: the section bytes it carries, up to the payload less the pointer
\* field if a section starts in it; the rest is stuffing.
Packets(p) ==
  LET Cut(n) ==
        LET run   == Run(p, n)
            start == Starts(run) # {}
            room  == IF start THEN Payload - 1 ELSE Payload
            taken == IF Len(run) <= room THEN run ELSE SubSeq(run, 1, room)
        IN  [start |-> start, taken |-> taken, run |-> run,
             pad   |-> [i \in 1 .. (room - Len(taken)) |-> Stuffing]]
      Legal(x) ==
        /\ x.start => \E i \in Starts(x.run) : i <= Len(x.taken)
        /\ \A i \in Starts(x.run) :
             /\ i <= Len(x.taken)
             /\ ~SplitHeaders => i + 2 <= Len(x.taken)
  IN  {x \in {Cut(n) : n \in 0 .. 2} : Legal(x)}

\* Where the pid goes on after it sent the bytes.
NextByte(taken) ==
  LET b == Last(taken)
  IN  IF b[3] < Lengths[b[2]] THEN <<b[2], b[3] + 1>> ELSE <<After(b[2]), 1>>

-----------------------------------------------------------------------------
(* Clients: AM_DMX_AllocateFilter, SetSecFilter, StartFilter, StopFilter,  *)
(* FreeFilter and Sync, with what the driver does.                         *)

\* dev->lock is free.
Unlocked == pc \in {"poll", "incb"}

\* dvr_alloc_filter: the channel of the previous owner stays.
AllocFilter(f) ==
  /\ Unlocked
  /\ ~filter[f].used /\ \A g \in 1 .. (f - 1) : filter[g].used
  /\ filter' = [filter EXCEPT ![f].used = TRUE, ![f].pid = NoPid]
  /\ quiet' = quiet \ {f}
  /\ UNCHANGED <<channel, taps, failed, parser, own, next, garbage, due>>

Least(S) == CHOOSE i \in S : \A j \in S : i <= j

\* dvr_find_channel: the channel of the pid, or the first that is free.
FindChannel(pid) ==
  LET same == {c \in Channels : channel[c].used > 0 /\ channel[c].pid = pid}
      idle == {c \in Channels : channel[c].used = 0}
  IN  IF same # {} THEN {Least(same)}
      ELSE IF idle # {} THEN {Least(idle)} ELSE {}

UsedPids(chs) == {chs[c].pid : c \in {d \in Channels : chs[d].used > 0}}

\* Closing all taps and opening one per used channel.  A pid whose open or
\* ioctl fails is skipped or logged, and has no tap; the call succeeds.
OpenTaps(new) ==
  /\ failed' \in SUBSET UsedPids(new)
  /\ taps' = UsedPids(new) \ failed'

\* Mutant: the taps are opened anew only when a channel is added.
RetapOnlyAdds(old, new) ==
  IF \E c \in Channels : new[c].used = 1 /\ old[c].used = 0
  THEN OpenTaps(new) ELSE UNCHANGED <<taps, failed>>

\* dvr_enable_filter does so whenever a channel is used for the first, or no
\* longer for any, filter.
Retap(old, new) ==
  IF \E c \in Channels : (old[c].used = 0) # (new[c].used = 0)
  THEN OpenTaps(new) ELSE UNCHANGED <<taps, failed>>

\* External: where a pid is does not matter while no channel is for it.
Listened(chs) == [p \in Pids |-> IF p \in UsedPids(chs) THEN next[p] ELSE <<1, 1>>]

StartFilter(f) ==
  /\ Unlocked
  /\ filter[f].used /\ ~filter[f].enable /\ filter[f].pid # NoPid
  /\ \E c \in FindChannel(filter[f].pid) :
       /\ channel' =
            [channel EXCEPT
               ![c].used = @ + 1,
               ![c].pid  = IF channel[c].used = 0 THEN filter[f].pid ELSE @]
       /\ filter' = [filter EXCEPT ![f].enable = TRUE, ![f].chan = c]
       /\ due' = [due EXCEPT ![c] = IF channel[c].used = 0 THEN {} ELSE @]
       /\ own' = (own /\ (c = ch => channel[c].used > 0))
       /\ IF channel[c].used > 0 THEN UNCHANGED next
          ELSE \E x \in Positions : next' = [next EXCEPT ![filter[f].pid] = x]
  /\ Retap(channel, channel')
  /\ quiet' = quiet \ {f}
  /\ UNCHANGED <<parser, garbage>>

\* dmx_stop_filter with dvr_enable_filter: what stopping does to the channels.
Release(f) ==
  IF filter[f].enable
  THEN [channel EXCEPT ![filter[f].chan].used = @ - 1] ELSE channel

StopFilter(f) ==
  /\ Unlocked
  /\ filter[f].used /\ filter[f].enable
  /\ channel' = Release(f)
  /\ filter' = [filter EXCEPT ![f].enable = FALSE]
  /\ Retap(channel, channel')
  /\ next' = Listened(channel')
  /\ UNCHANGED <<parser, own, garbage, due, quiet>>

\* AM_DMX_SetSecFilter stops the filter first.
SetSecFilter(f) ==
  /\ Unlocked
  /\ filter[f].used
  /\ \E pid \in Pids, tables \in TableSets :
       filter' = [filter EXCEPT ![f].enable = FALSE, ![f].pid = pid, ![f].tables = tables]
  /\ channel' = Release(f)
  /\ Retap(channel, channel')
  /\ next' = Listened(channel')
  /\ UNCHANGED <<parser, own, garbage, due, quiet>>

FreeFilter(f) ==
  /\ Unlocked
  /\ filter[f].used
  /\ channel' = Release(f)
  /\ filter' = [filter EXCEPT ![f].enable = FALSE, ![f].used = FALSE]
  /\ Retap(channel, channel')
  /\ next' = Listened(channel')
  /\ UNCHANGED <<parser, own, garbage, due, quiet>>

\* AM_DMX_Sync waits for DMX_FL_RUN_CB to be clear; dvr_poll leaves the mask
\* empty, so that dmx_data_thread never sets it.
Sync(f) ==
  /\ Unlocked
  /\ f \in Syncers /\ ~filter[f].enable
  /\ quiet' = quiet \cup {f}
  /\ UNCHANGED <<filter, channel, taps, failed, parser, own, next, garbage, due>>

-----------------------------------------------------------------------------
(* The data thread: parse_ts_packet, parse_sec, check_sec and data_cb.     *)

\* A tap brings a packet.  If its pid has a channel it is parsed under dev->lock;
\* the others change nothing.
PacketArrives(p) ==
  LET wanted == {c \in Channels : channel[c].used > 0 /\ channel[c].pid = p}
  IN  /\ pc = "poll"
      /\ p \in taps /\ wanted # {}
      /\ ch' = Least(wanted)
      /\ \E x \in Packets(p) :
           LET pointer == IF x.start THEN Least(Starts(x.taken)) - 1 ELSE 0
           IN  /\ next' = [next EXCEPT ![p] = NextByte(x.taken)]
               /\ head' = SubSeq(x.taken, 1, pointer)
               /\ rest' = SubSeq(x.taken, pointer + 1, Len(x.taken)) \o x.pad
               /\ pc' = IF x.start THEN "pointer" ELSE "loop"
      /\ first' = TRUE
      /\ own' = TRUE
      /\ UNCHANGED <<filter, channel, taps, failed, cbf, garbage, due, quiet>>

\* External: packets are lost, by the receiver or while dvr_enable_filter
\* closes and opens the taps for another pid.  parse_ts_packet only logs it.
PacketLost(p) ==
  /\ pc = "poll"
  /\ p \in UsedPids(channel)
  /\ \E x \in Positions : next' = [next EXCEPT ![p] = x]
  /\ due' = [c \in Channels |-> IF channel[c].pid = p THEN {} ELSE due[c]]
  /\ UNCHANGED <<filter, channel, taps, failed, parser, own, garbage, quiet>>

\* The length that the second and third byte of a section give.
SectionLength(buf) ==
  LET s == buf[2][2]
  IN  IF buf[2][3] = 2 /\ buf[3] = <<buf[2][1], s, 3>> THEN Lengths[s] ELSE garbage

\* Mutant: all of the payload is copied, not only up to the section's end.
CheckSecUnclipped(c, data) ==
  LET all == channel[c].buf \o data
  IN  IF Len(all) < 3
      THEN [buf |-> channel[c].buf, ret |-> Len(data), done |-> FALSE]
      ELSE [buf |-> all, ret |-> Len(data), done |-> SectionLength(all) <= Len(all)]

\* check_sec, up to the delivery: the bytes collected, how many of data were
\* taken, and whether the section is complete.  Bytes of a header that is not
\* complete are stored and not counted.
CheckSec(c, data) ==
  LET all  == channel[c].buf \o data
      slen == SectionLength(all)
      size == IF slen < Len(all) THEN slen ELSE Len(all)
  IN  IF Len(all) < 3
      THEN [buf |-> channel[c].buf, ret |-> Len(data), done |-> FALSE]
      ELSE [buf  |-> SubSeq(all, 1, size),
            ret  |-> size - Len(channel[c].buf),
            done |-> slen <= Len(all)]

\* The filters that a section is for.  That a filter is stopped does not matter.
Matching(c, buf) ==
  {f \in Filters : /\ filter[f].used
                   /\ filter[f].chan = c
                   /\ buf[1][2] \in filter[f].tables}

\* check_sec with r as its result: the first filter is called, or the channel
\* is emptied if the section is for nobody.
Collect(r, empty) ==
  IF r.done /\ Matching(ch, r.buf) # {}
  THEN /\ channel' = [channel EXCEPT ![ch].buf = r.buf]
       /\ pc' = "incb"
       /\ cbf' = Least(Matching(ch, r.buf))
  ELSE /\ channel' = [channel EXCEPT ![ch].buf = IF r.done \/ empty THEN <<>> ELSE r.buf]
       /\ pc' = "loop"
       /\ UNCHANGED cbf

\* The section that comes after the delivered one, or that starts after head.
Due(complete) ==
  CASE ~own -> {}
    [] own /\ pc = "pointer" -> {rest[1][2]}
    [] own /\ pc = "loop" -> IF complete THEN {After(s) : s \in due[ch]} ELSE due[ch]

\* Mutant: what was collected before a section start is kept.
EmptyAtStartNever == FALSE

\* parse_sec empties the channel where the pointer field says a section starts.
EmptyAtStart == TRUE

ParseBeforeStart ==
  /\ pc = "pointer"
  /\ LET r == CheckSec(ch, head)
     IN  /\ Collect(r, EmptyAtStart)
         /\ due' = [due EXCEPT ![ch] = IF pc' = "incb" THEN @ ELSE Due(r.done)]
  /\ UNCHANGED <<filter, taps, failed, ch, head, rest, first, own, next, garbage, quiet>>

\* The condition of the loop in parse_sec.
MoreSections == rest # <<>> /\ (first \/ Head(rest) # Stuffing)

ParseSection ==
  /\ pc = "loop"
  /\ MoreSections
  /\ LET r == CheckSec(ch, rest)
     IN  /\ Collect(r, FALSE)
         /\ rest' = SubSeq(rest, r.ret + 1, Len(rest))
         /\ due' = [due EXCEPT ![ch] = IF pc' = "incb" THEN @ ELSE Due(r.done)]
  /\ first' = FALSE
  /\ head' = <<>>
  /\ UNCHANGED <<filter, taps, failed, ch, own, next, garbage, quiet>>

\* data_cb takes dev->lock again, and check_sec empties the channel it knows.
CallbackReturns ==
  /\ pc = "incb"
  /\ pc' = "loop"
  /\ cbf' = 0
  /\ channel' = [channel EXCEPT ![ch].buf = <<>>]
  /\ due' = [due EXCEPT ![ch] =
               CASE ~own -> {}
                 [] own /\ first -> {rest[1][2]}
                 [] OTHER -> {After(s) : s \in @}]
  /\ UNCHANGED <<filter, taps, failed, ch, head, rest, first, own, next, garbage, quiet>>

PacketDone ==
  /\ pc = "loop"
  /\ ~MoreSections
  /\ pc' = "poll"
  /\ ch' = 0 /\ head' = <<>> /\ rest' = <<>> /\ first' = TRUE /\ own' = TRUE
  /\ UNCHANGED <<filter, channel, taps, failed, cbf, next, garbage, due, quiet>>

-----------------------------------------------------------------------------
Init ==
  /\ filter = [f \in Filters |-> [used |-> FALSE, enable |-> FALSE, pid |-> NoPid,
                                  tables |-> {}, chan |-> 0]]
  /\ channel = [c \in Channels |-> [used |-> 0, pid |-> NoPid, buf |-> <<>>]]
  /\ taps = {} /\ failed = {}
  /\ pc = "poll" /\ ch = 0 /\ head = <<>> /\ rest = <<>> /\ first = TRUE
  /\ cbf = 0 /\ own = TRUE
  /\ next = [p \in Pids |-> <<1, 1>>]
  /\ garbage \in Garbage
  /\ due = [c \in Channels |-> {}]
  /\ quiet = {}

Client(f) ==
  \/ AllocFilter(f) \/ SetSecFilter(f) \/ StartFilter(f)
  \/ StopFilter(f) \/ FreeFilter(f) \/ Sync(f)

Thread ==
  \/ \E p \in Pids : PacketArrives(p) \/ PacketLost(p)
  \/ ParseBeforeStart \/ ParseSection \/ CallbackReturns \/ PacketDone

Next == Thread \/ \E f \in Filters : Client(f)

Spec == Init /\ [][Next]_vars

-----------------------------------------------------------------------------
(* Properties.                                                             *)

\* Filters, channels and the parser have the values their declarations allow;
\* no more is collected than a section may have.
TypeOK ==
  /\ \A f \in Filters :
       /\ {filter[f].used, filter[f].enable} \subseteq BOOLEAN
       /\ filter[f].pid \in Pids \cup {NoPid}
       /\ filter[f].chan \in Channels \cup {0}
  /\ \A c \in Channels :
       /\ channel[c].used \in 0 .. FilterCount
       /\ \E n \in ToSet(Lengths) \cup Garbage : Len(channel[c].buf) <= n
  /\ taps \subseteq Pids
  /\ pc \in {"poll", "pointer", "loop", "incb"}
  /\ ch \in Channels \cup {0} /\ cbf \in Filters \cup {0}
  /\ (pc = "incb") = (cbf # 0)

\* The use count of a channel is the number of running filters on it, they all
\* ask for its pid, and a pid has one channel (dvr_find_channel,
\* dvr_enable_filter), whatever is started and stopped while callbacks run.
ChannelRefs ==
  /\ \A c \in Channels :
       channel[c].used =
         Cardinality({f \in Filters : filter[f].enable /\ filter[f].chan = c})
  /\ \A f \in Filters : filter[f].enable => channel[filter[f].chan].pid = filter[f].pid
  /\ \A c, d \in Channels :
       channel[c].used > 0 /\ channel[d].used > 0 /\ channel[c].pid = channel[d].pid
         => c = d

\* Every used channel has a tap unless the kernel refused it the last time that
\* the taps were opened, and no tap leaks when filters come and go.
TapsExact == taps \cap failed = {} /\ taps \cup failed = UsedPids(channel)

\* The driver's tables agree with each other and with the kernel's taps after
\* every sequence of starts and stops.
ChannelsExact == ChannelRefs /\ TapsExact

\* Once a channel has seen a section start, the sections it delivers are those
\* of its pid, whole, in order and without a gap, also when filters change
\* while the callback of another section of the same packet runs.
SectionsWhole ==
  pc = "incb" /\ own /\ due[ch] # {} =>
    \E s \in due[ch] : channel[ch].buf = Bytes(channel[ch].pid, s, 1)

\* AM_DMX_Sync "can be used to wait until the callback has finished": the
\* callback of a filter that was stopped does not run after it.
SyncWaits == pc = "incb" => cbf \notin quiet

-----------------------------------------------------------------------------
(* Parts of the inductive invariants of AmDmxSwProofs.                     *)

ByteSet == (Pids \X Sections \X (Nat \ {0})) \cup {Stuffing}

\* Filters that run are allocated, and have a pid and a channel.
FilterInv ==
  /\ filter \in [Filters -> [used : BOOLEAN, enable : BOOLEAN, pid : Pids \cup {NoPid},
                             tables : TableSets \cup {{}}, chan : Channels \cup {0}]]
  /\ \A f \in Filters : filter[f].enable =>
       filter[f].used /\ filter[f].pid # NoPid /\ filter[f].chan \in Channels

\* Channels and the parser hold bytes; a channel holds a header, and no more than it
\* announces.
BytesInv ==
  /\ channel \in [Channels -> [used : Nat, pid : Pids \cup {NoPid}, buf : Seq(ByteSet)]]
  /\ \A c \in Channels :
       \/ channel[c].buf = <<>>
       \/ 3 <= Len(channel[c].buf) /\ Len(channel[c].buf) <= SectionLength(channel[c].buf)
  /\ head \in Seq(ByteSet) /\ rest \in Seq(ByteSet)
  /\ garbage \in Garbage
  /\ next \in [Pids -> Places]

\* The parser has a channel from the header of a packet to its end.
ParserInv ==
  /\ pc \in {"poll", "pointer", "loop", "incb"}
  /\ ch \in Channels \cup {0} /\ cbf \in Filters \cup {0}
  /\ pc = "incb" <=> cbf # 0
  /\ pc # "poll" => ch \in Channels

\* The place behind a byte.
Succ(x) == IF x[2] < Lengths[x[1]] THEN <<x[1], x[2] + 1>> ELSE <<After(x[1]), 1>>

\* The bytes w of pid p follow each other, from place a up to before place e.
PlaceAt(w, e, i) == IF i <= Len(w) THEN <<w[i][2], w[i][3]>> ELSE e
Flow(p, w, a, e) ==
  /\ e \in Places /\ PlaceAt(w, e, 1) = a
  /\ \A i \in 1 .. Len(w) :
       /\ w[i][1] = p /\ w[i] # Stuffing
       /\ PlaceAt(w, e, i) \in Places
       /\ PlaceAt(w, e, i + 1) = Succ(PlaceAt(w, e, i))

\* A channel has collected the bytes of its section up to before place x.
Part(p, s, k) == [j \in 1 .. k |-> <<p, s, j>>]
UpTo(c, x) ==
  /\ x \in Places /\ x[2] \notin {2, 3}
  /\ due[c] = {x[1]}
  /\ channel[c].buf = Part(channel[c].pid, x[1], x[2] - 1)

\* A channel has its section, whole.
Complete(c, s) == due[c] = {s} /\ channel[c].buf = Bytes(channel[c].pid, s, 1)

\* Between packets a channel is where its pid is.
OutsideInv ==
  /\ DOMAIN due = Channels /\ own \in BOOLEAN
  /\ \A p \in Pids : next[p][2] \notin {2, 3}
  /\ \A c \in Channels :
       channel[c].used > 0 /\ due[c] # {} /\ (pc = "poll" \/ c # ch)
         => UpTo(c, next[channel[c].pid])

\* The rest of the packet: n bytes of stuffing after what follows from place a to
\* place e, with no header cut off.
RestIs(n, a, e) ==
  LET w == SubSeq(rest, 1, Len(rest) - n)
  IN  /\ \A i \in (Len(rest) - n + 1) .. Len(rest) : rest[i] = Stuffing
      /\ Flow(channel[ch].pid, w, a, e)
      /\ n > 0 => e[2] = 1
      /\ \A i \in 1 .. Len(w) : w[i][3] = 1 => i + 2 <= Len(w)
      /\ first => w # <<>>

InsideInv ==
  pc # "poll" =>
    /\ ~own => due[ch] = {}
    /\ own => \E n \in 0 .. Len(rest), a, e \in Places :
         /\ RestIs(n, a, e)
         /\ e[2] \notin {2, 3} /\ (channel[ch].used > 0 => next[channel[ch].pid] = e)
         /\ pc = "pointer" =>
              /\ first /\ a[2] = 1
              /\ \A i \in 1 .. Len(head) : head[i][3] # 1
              /\ \E h \in Places :
                   /\ Flow(channel[ch].pid, head, h, a)
                   /\ due[ch] # {} => UpTo(ch, h)
         /\ pc = "incb" /\ first => a[2] = 1
         /\ pc = "incb" /\ due[ch] # {} =>
              \E s \in Sections : Complete(ch, s) /\ (~first => a = <<After(s), 1>>)
         /\ pc = "loop" /\ due[ch] # {} => UpTo(ch, a)
=============================================================================
