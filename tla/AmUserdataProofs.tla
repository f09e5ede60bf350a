-------------------------- MODULE AmUserdataProofs --------------------------
(***************************************************************************)
(* Theorems about AmUserdata for any number of clients, any size of the    *)
(* ring and of the packages, and streams of any length.                    *)
(***************************************************************************)
EXTENDS AmUserdata, FiniteSetTheorems, SequenceTheorems, NaturalsInduction,
        WellFoundedInduction, TLAPS

-----------------------------------------------------------------------------
(* The inductive invariant of the proofs, in parts.                        *)

\* Who holds an open, and what lives while somebody does.  Only the close that
\* takes the last open waits under am_gAdpLock.
Holders == {c \in Clients : pc[c] # "closed"}

LifeInv ==
  /\ open_cnt = Cardinality(Holders)
  /\ \A c \in Clients : gAdpLock = c <=> pc[c] = "join"
  /\ gAdpLock # Nobody => open_cnt = 1
  /\ alive <=> open_cnt > 0
  /\ thread = "none" <=> open_cnt = 0
  /\ running <=> open_cnt > 0 /\ gAdpLock = Nobody
  /\ thread = "exit" => gAdpLock # Nobody
  /\ \A c \in Clients : pc[c] \in {"enter", "wait", "woken"} => size[c] \in Sizes

\* What the sequences hold.
Package ==
  [type : {"I", "B"}, st : {"frame", "top", "bottom"}, poc : Nat, id : Nat,
   len : {Short, Long}]

Queued == [id : Nat, len : {Short, Long}]

HeldRec == [mask : 0 .. 4, buf : [1 .. 2 -> Package \cup {NoPackage}]]

StreamRec ==
  [n : 0 .. MaxPictures, ref : Nat \ {0}, b : Nat, due : {"none", "top", "bottom"},
   type : {"I", "B"}, last : Nat, seen : SUBSET (0 .. MaxPictures), sent : SUBSET Nat]

DataOK ==
  /\ queue \in Seq(Queued)
  /\ buf \in Seq(Package) /\ out \in Seq(Package) /\ list \in Seq(Package)
  /\ got \in Seq(Nat)
  /\ lost \subseteq Nat /\ IsFiniteSet(lost)
  /\ vd \in HeldRec
  /\ HoldsFirst(vd.mask) => vd.buf[1] \in Package
  /\ HoldsBottom(vd.mask) => vd.buf[2] \in Package
  /\ stream \in StreamRec
  /\ stream.b <= stream.n
  /\ IsFiniteSet(stream.sent)

\* A thread starts with nothing, and each format keeps to its own buffers.
CleanInv ==
  /\ thread \in {"none", "exit"} => ud_format = "invalid"
  /\ thread # "work" => out = <<>>
  /\ ud_format = "invalid" =>
       /\ thread # "work"
       /\ buf = <<>> /\ list = <<>> /\ vd = NoReorder /\ stream = NoStream
       /\ thread # "exit" => queue = <<>> /\ got = <<>> /\ lost = {}
  /\ ud_format = "mpeg" => list = <<>>
  /\ ud_format = "h264" => vd = NoReorder

\* The byte k after pos.
Cell(pos, k) == IF pos + k < BufSize THEN pos + k ELSE pos + k - BufSize

\* The bytes from pread on are the packages of the queue: package i starts at
\* offset o[i], with its length word.
Layout(o) ==
  /\ o[1] = 0
  /\ o[Len(queue) + 1] = RingAvail(pread, pwrite)
  /\ \A i, j \in 1 .. (Len(queue) + 1) : i <= j => o[i] <= o[j]
  /\ \A i \in 1 .. Len(queue) :
       /\ o[i + 1] = o[i] + Word + queue[i].len
       /\ \A k \in 1 .. Word :
            data[Cell(pread, o[i] + k - 1)] = LengthWord(queue[i].len)[k]
       /\ \A k \in 1 .. queue[i].len :
            data[Cell(pread, o[i] + Word + k - 1)] = PackageBytes(queue[i])[k]

RingInv ==
  \E o \in [1 .. (Len(queue) + 1) -> 0 .. (BufSize - 1)] : Layout(o)

\* MPEG: a position in the stream is the reference, the number of B pictures
\* after it and the field that is still due.  After(x, p) is the position after
\* p, which may come at x if Follows.
Positions ==
  [ref : Nat \ {0}, b : 0 .. MaxPictures, due : {"none", "top", "bottom"}]

Now == [ref |-> stream.ref, b |-> stream.b, due |-> stream.due]

Base(x) == IF x.b = 0 THEN Gap * x.ref ELSE Gap * (x.ref - 1) + 2 * x.b

After(x, p) ==
  CASE x.due # "none" -> [x EXCEPT !.due = "none"]
    [] x.due = "none" /\ p.type = "I" ->
         [ref |-> x.ref + 1, b |-> 0, due |-> Opposite(p.st)]
    [] OTHER -> [ref |-> x.ref, b |-> x.b + 1, due |-> Opposite(p.st)]

Follows(x, p) ==
  IF x.due # "none"
  THEN /\ p.st = x.due
       /\ p.type = IF x.b = 0 THEN "I" ELSE "B"
       /\ p.id = Base(x) + 1
  ELSE /\ p.st \in {"frame"} \cup FirstFields
       /\ p.id = Base(After(x, p))

\* The packages of buf lead from x to where the stream is.
LeadsFrom(x) ==
  \/ /\ Len(buf) = 1
     /\ Follows(x, buf[1]) /\ Now = After(x, buf[1])
  \/ /\ Len(buf) = 2 /\ thread = "work"
     /\ After(x, buf[1]) \in Positions
     /\ Follows(x, buf[1]) /\ Follows(After(x, buf[1]), buf[2])
     /\ Now = After(After(x, buf[1]), buf[2])

\* What v holds back at x: nothing before the first reference, else the whole
\* of it, or the field that came and perhaps the other one of its predecessor.
MaskAt(v, x) ==
  /\ x.ref = 1 => v.mask = 0
  /\ x.ref > 1 /\ (x.due = "none" \/ x.b > 0) => v.mask \in {3, 4}
  /\ x.b = 0 /\ x.due = "bottom" => v.mask \in {1, 3}
  /\ x.b = 0 /\ x.due = "top" => v.mask \in {2, 3}

HeldAt(v, x) ==
  /\ x.due # "top"
  /\ v.mask = 4 => v.buf[1].id = Gap * x.ref
  /\ v.mask = 3 /\ (x.due = "none" \/ x.b > 0) =>
       v.buf[1].id = Gap * x.ref /\ v.buf[2].id = Gap * x.ref + 1
  /\ x.b = 0 /\ x.due = "bottom" =>
       /\ v.buf[1].id = Gap * x.ref
       /\ v.mask = 3 => v.buf[2].id = Gap * (x.ref - 1) + 1

\* The captions that were handed on, and the last one of them at x.
Done == ToSet(got) \cup Ids(queue) \cup Ids(out)

Limit(x) ==
  Gap * (x.ref - 1) + 2 * x.b + (IF x.due = "none" THEN 1 ELSE 0)

TopFirst == FirstFields \subseteq {"top"}

MpegInv ==
  ud_format = "mpeg" =>
    \E x \in Positions :
      /\ LeadsFrom(x)
      /\ MaskAt(vd, x)
      /\ TopFirst => HeldAt(vd, x) /\ \A d \in Done : d <= Limit(x)

\* H.264: the blocks s belong to one reference, whose captions start at base, and
\* have different order counts; the captions D come before them.
ListOf(s, D, base) ==
  /\ \A i \in DOMAIN s :
       s[i].poc \in 0 .. MaxPictures /\ s[i].id = base + s[i].poc
  /\ \A i, j \in DOMAIN s : s[i].poc = s[j].poc => i = j
  /\ \A d \in D, i \in DOMAIN s : d < s[i].id

\* A block was written only after as many that come later as the list holds.
Crowded(m, seen) == Cardinality({s \in seen : s >= m}) > MaxPocCache

PassedBy(s, D, base, seen) ==
  /\ \A i \in DOMAIN s : s[i].poc \in seen
  /\ \A d \in D :
       d < base \/ \E m \in seen : d = base + m /\ Crowded(m, seen)

\* Order count 0 waits for the blocks of the last reference; another one is
\* larger than any that went before.
H264Idle ==
  /\ buf = <<>>
  /\ ListOf(list, Done, Gap * stream.ref)
  /\ PassedBy(list, Done, Gap * stream.ref, stream.seen)

H264Restart ==
  /\ buf[1].poc = 0 /\ stream.seen = {0} /\ stream.ref > 1
  /\ ListOf(list, Done, Gap * (stream.ref - 1))
  /\ \A d \in Done : d < Gap * stream.ref

H264Next ==
  /\ buf[1].poc \in stream.seen \ {0}
  /\ Cardinality({s \in stream.seen : s > buf[1].poc}) <= MaxPocCache
  /\ ListOf(list, Done, Gap * stream.ref)
  /\ PassedBy(list, Done, Gap * stream.ref, stream.seen \ {buf[1].poc})

H264Inv ==
  ud_format = "h264" =>
    \/ H264Idle
    \/ /\ thread = "work" /\ Len(buf) = 1
       /\ buf[1].id = Gap * stream.ref + buf[1].poc
       /\ H264Restart \/ H264Next

\* What was handed on is in display order, the ring and the captions that are
\* on their way to it included.
Ordered(s) == \A i, j \in DOMAIN s : i < j => s[i].id < s[j].id

OrderInv ==
  /\ CaptionsInOrder /\ Ordered(queue) /\ Ordered(out)
  /\ \A i \in DOMAIN got, j \in DOMAIN queue : got[i] < queue[j].id
  /\ \A i \in DOMAIN got, j \in DOMAIN out : got[i] < out[j].id
  /\ \A i \in DOMAIN queue, j \in DOMAIN out : queue[i].id < out[j].id

\* The next caption of the stream has an identifier that was not used.
SentMpeg ==
  /\ stream.type = "I" <=> stream.b = 0
  /\ stream.due # "none" => stream.last = Base(Now)
  /\ \A s \in stream.sent :
       /\ s <= Gap * stream.ref + 1
       /\ s < Gap * stream.ref => s <= Gap * (stream.ref - 1) + 2 * stream.b + 1
       /\ stream.due # "none" => s # Base(Now) + 1

SentH264 ==
  \A s \in stream.sent :
    \/ s < Gap * stream.ref
    \/ \E m \in stream.seen : s = Gap * stream.ref + m

SentInv ==
  /\ ud_format = "mpeg" => SentMpeg
  /\ ud_format = "h264" => SentH264

-----------------------------------------------------------------------------
(* Opens and closes.                                                       *)

\* The steps of the thread and of the clients, and none.
LEMMA NextCases ==
  ASSUME [Next]_vars
  PROVE  \/ ThreadFlush \/ ThreadRead \/ ThreadReorder
         \/ ThreadWrite \/ ThreadPolls \/ ThreadExits
         \/ \E c \in Clients :
              \/ OpenFirst(c) \/ OpenMore(c)
              \/ CloseShared(c) \/ CloseLast(c) \/ CloseJoined(c)
              \/ ReadCalled(c) \/ ReadAtOnce(c) \/ ReadWaits(c)
              \/ ReadTimesOut(c) \/ WakesUp(c) \/ ReadWoken(c)
         \/ UNCHANGED vars
BY DEF Next, Worker, Client

\* The count follows the set of clients that hold an open.
LEMMA HolderCount ==
  ASSUME TypeOK, LifeInv, NEW c \in Clients
  PROVE  /\ open_cnt \in Nat
         /\ pc[c] # "closed" => open_cnt >= 1
         /\ pc[c] = "closed" => Cardinality(Holders \cup {c}) = open_cnt + 1
         /\ pc[c] # "closed" => Cardinality(Holders \ {c}) = open_cnt - 1
         /\ \A d \in Clients :
              pc[c] # "closed" /\ pc[d] # "closed" /\ open_cnt = 1 => c = d
<1>1. IsFiniteSet(Holders)
  BY FS_Subset, ClientAssumption, Holders \in SUBSET Clients DEF Holders
<1>2. Cardinality(Holders \cup {c}) =
        IF c \in Holders THEN Cardinality(Holders) ELSE Cardinality(Holders) + 1
  BY <1>1, FS_AddElement
<1>3. /\ IsFiniteSet(Holders \ {c})
      /\ Cardinality(Holders \ {c}) =
           IF c \in Holders THEN Cardinality(Holders) - 1 ELSE Cardinality(Holders)
  BY <1>1, FS_RemoveElement
<1>4. c \in Holders <=> pc[c] # "closed"
  BY DEF Holders
<1>5. open_cnt = Cardinality(Holders) /\ open_cnt \in Nat
  BY <1>1, FS_CardinalityType DEF LifeInv
<1>6. Cardinality(Holders \ {c}) \in Nat
  BY <1>3, FS_CardinalityType
<1>7. ASSUME NEW d \in Clients, pc[c] # "closed", pc[d] # "closed", open_cnt = 1
      PROVE  c = d
  <2>1. d \in Holders
    BY <1>7 DEF Holders
  <2>2. Cardinality(Holders \ {c}) = 0
    BY <1>3, <1>4, <1>5, <1>7
  <2>3. Holders \ {c} = {}
    BY <1>3, <2>2, FS_EmptySet
  <2> QED BY <2>1, <2>3
<1>8. pc[c] # "closed" => open_cnt >= 1
  BY <1>3, <1>4, <1>5, <1>6
<1>9. pc[c] = "closed" => Cardinality(Holders \cup {c}) = open_cnt + 1
  BY <1>2, <1>4, <1>5
<1>10. pc[c] # "closed" => Cardinality(Holders \ {c}) = open_cnt - 1
  BY <1>3, <1>4, <1>5
<1> QED BY <1>5, <1>7, <1>8, <1>9, <1>10

\* A step that moves a client between calls leaves the opens alone.
LEMMA CallStep ==
  ASSUME TypeOK, LifeInv, NEW P \in SUBSET Clients, NEW st \in {"open", "enter", "wait", "woken"},
         \A c \in P : pc[c] \in {"open", "enter", "wait", "woken"},
         pc' = [c \in Clients |-> IF c \in P THEN st ELSE pc[c]],
         \A c \in Clients : pc'[c] \in {"enter", "wait", "woken"} => size'[c] \in Sizes,
         thread' \in IF thread = "none" THEN {"none"} ELSE {"poll", "work", thread},
         UNCHANGED <<gAdpLock, open_cnt, alive, running>>
  PROVE  LifeInv'
<1>1. Holders' = Holders
  BY DEF Holders, TypeOK
<1>2. \A c \in Clients : (pc'[c] = "join") = (pc[c] = "join")
  BY DEF TypeOK
<1> QED BY <1>1, <1>2 DEF LifeInv

\* The life time of the lock, of the thread and of am_gAdpLock is that of the opens.
LEMMA LifeStep ==
  ASSUME TypeOK, LifeInv, [Next]_vars
  PROVE  LifeInv'
<1>1. CASE ThreadFlush
  BY <1>1 DEF ThreadFlush, LifeInv, Holders
<1>2. CASE ThreadRead
  BY <1>2 DEF ThreadRead, LifeInv, Holders
<1>3. CASE ThreadReorder
  BY <1>3 DEF ThreadReorder, LifeInv, Holders
<1>4. CASE ThreadWrite
  <2>1. PICK W \in SUBSET Clients :
          /\ W \subseteq Waiting
          /\ pc' = [c \in Clients |-> IF c \in W THEN "woken" ELSE pc[c]]
    <3>1. CASE UNCHANGED pc
      <4>1. pc' = [c \in Clients |-> IF c \in {} THEN "woken" ELSE pc[c]]
        BY <3>1 DEF TypeOK
      <4>2. {} \in SUBSET Clients /\ {} \subseteq Waiting
        OBVIOUS
      <4> QED BY <4>1, <4>2
    <3> QED BY <1>4, <3>1 DEF ThreadWrite, Signal
  <2>2. \A c \in W : pc[c] = "wait"
    BY <2>1 DEF Waiting
  <2>3. \A c \in Clients : pc'[c] \in {"enter", "wait", "woken"} => size'[c] \in Sizes
    BY <1>4, <2>1, <2>2 DEF ThreadWrite, LifeInv
  <2> QED BY <1>4, <2>1, <2>2, <2>3, CallStep DEF ThreadWrite
<1>5. CASE ThreadPolls
  BY <1>5 DEF ThreadPolls, LifeInv, Holders
<1>6. CASE ThreadExits
  <2>1. thread = "poll" /\ ~running /\ thread' = "exit"
    BY <1>6 DEF ThreadExits
  <2>2. UNCHANGED <<gAdpLock, open_cnt, alive, running, pc, size>>
    BY <1>6 DEF ThreadExits
  <2>3. open_cnt > 0 /\ gAdpLock # Nobody
    <3>1. open_cnt # 0 /\ open_cnt \in Nat
      BY <2>1, FS_CardinalityType, FS_Subset, ClientAssumption DEF LifeInv, TypeOK
    <3> QED BY <2>1, <3>1 DEF LifeInv
  <2> QED BY <2>1, <2>2, <2>3 DEF LifeInv, Holders
<1>7. CASE UNCHANGED vars
  BY <1>7 DEF vars, worker, LifeInv, Holders
<1>8. ASSUME NEW c \in Clients, OpenFirst(c) PROVE LifeInv'
  <2>1. Holders' = Holders \cup {c}
    BY <1>8 DEF OpenFirst, Holders, TypeOK
  <2>2. open_cnt' = Cardinality(Holders') /\ open_cnt = 0 /\ open_cnt' = 1
    <3>1. pc[c] = "closed" /\ open_cnt = 0 /\ open_cnt' = 1
      BY <1>8 DEF OpenFirst
    <3>2. Cardinality(Holders \cup {c}) = open_cnt + 1
      BY <3>1, HolderCount
    <3> QED BY <2>1, <3>1, <3>2
  <2>3. alive' = TRUE /\ running' = TRUE /\ thread' = "poll" /\ gAdpLock' = Nobody
    BY <1>8 DEF OpenFirst
  <2>4. \A d \in Clients : gAdpLock' = d <=> pc'[d] = "join"
    BY <1>8, <2>3, ClientAssumption DEF OpenFirst, LifeInv, TypeOK
  <2>5. \A d \in Clients : pc'[d] \in {"enter", "wait", "woken"} => size'[d] \in Sizes
    BY <1>8 DEF OpenFirst, LifeInv, TypeOK
  <2> QED BY <2>2, <2>3, <2>4, <2>5 DEF LifeInv
<1>9. ASSUME NEW c \in Clients, OpenMore(c) PROVE LifeInv'
  <2>1. Holders' = Holders \cup {c}
    BY <1>9 DEF OpenMore, Holders, TypeOK
  <2>2. open_cnt' = Cardinality(Holders') /\ open_cnt \in Nat
    BY <1>9, <2>1, HolderCount DEF OpenMore
  <2> QED BY <1>9, <2>2, ClientAssumption DEF OpenMore, LifeInv, TypeOK, worker
<1>10. ASSUME NEW c \in Clients, CloseShared(c) PROVE LifeInv'
  <2>1. Holders' = Holders \ {c}
    BY <1>10 DEF CloseShared, Holders, TypeOK
  <2>2. open_cnt' = Cardinality(Holders') /\ open_cnt \in Nat
    BY <1>10, <2>1, HolderCount DEF CloseShared
  <2> QED BY <1>10, <2>2, ClientAssumption DEF CloseShared, LifeInv, TypeOK, worker
<1>11. ASSUME NEW c \in Clients, CloseLast(c) PROVE LifeInv'
  <2>1. Holders' = Holders
    BY <1>11 DEF CloseLast, Holders, TypeOK
  <2> QED BY <1>11, <2>1, ClientAssumption DEF CloseLast, LifeInv, TypeOK
<1>12. ASSUME NEW c \in Clients, CloseJoined(c) PROVE LifeInv'
  <2>1. Holders' = Holders \ {c}
    BY <1>12 DEF CloseJoined, Holders, TypeOK
  <2>2. open_cnt' = Cardinality(Holders') /\ open_cnt \in Nat
    BY <1>12, <2>1, HolderCount DEF CloseJoined
  <2>3. gAdpLock = c /\ open_cnt = 1
    BY <1>12, ClientAssumption DEF CloseJoined, LifeInv
  <2>4. /\ alive' = FALSE /\ thread' = "none" /\ gAdpLock' = Nobody /\ open_cnt' = 0
        /\ running' = running /\ ~running
    BY <1>12, <2>3, ClientAssumption DEF CloseJoined, LifeInv
  <2>5. \A d \in Clients : gAdpLock' = d <=> pc'[d] = "join"
    BY <1>12, <2>3, <2>4, ClientAssumption DEF CloseJoined, LifeInv, TypeOK
  <2>6. \A d \in Clients : pc'[d] \in {"enter", "wait", "woken"} => size'[d] \in Sizes
    BY <1>12 DEF CloseJoined, LifeInv, TypeOK
  <2> QED BY <2>2, <2>4, <2>5, <2>6 DEF LifeInv
<1>13. ASSUME NEW c \in Clients, ReadCalled(c) PROVE LifeInv'
  <2>1. pc' = [d \in Clients |-> IF d \in {c} THEN "enter" ELSE pc[d]]
    BY <1>13 DEF ReadCalled, TypeOK
  <2>2. \A d \in Clients : pc'[d] \in {"enter", "wait", "woken"} => size'[d] \in Sizes
    BY <1>13, <2>1 DEF ReadCalled, LifeInv, TypeOK
  <2> QED BY <1>13, <2>1, <2>2, CallStep DEF ReadCalled, worker
<1>14. ASSUME NEW c \in Clients, ReadAtOnce(c) \/ ReadTimesOut(c) \/ ReadWoken(c)
       PROVE  LifeInv'
  <2>1. pc' = [d \in Clients |-> IF d \in {c} THEN "open" ELSE pc[d]]
    BY <1>14 DEF ReadAtOnce, ReadTimesOut, ReadWoken, Returns, TypeOK
  <2>2. \A d \in Clients : pc'[d] \in {"enter", "wait", "woken"} => size'[d] \in Sizes
    BY <1>14, <2>1 DEF ReadAtOnce, ReadTimesOut, ReadWoken, Returns, LifeInv, TypeOK
  <2> QED
    BY <1>14, <2>1, <2>2, CallStep DEF ReadAtOnce, ReadTimesOut, ReadWoken, worker
<1>15. ASSUME NEW c \in Clients, ReadWaits(c) PROVE LifeInv'
  <2>1. pc' = [d \in Clients |-> IF d \in {c} THEN "wait" ELSE pc[d]]
    BY <1>15 DEF ReadWaits, TypeOK
  <2>2. \A d \in Clients : pc'[d] \in {"enter", "wait", "woken"} => size'[d] \in Sizes
    BY <1>15, <2>1 DEF ReadWaits, LifeInv, TypeOK
  <2> QED BY <1>15, <2>1, <2>2, CallStep DEF ReadWaits, worker
<1>16. ASSUME NEW c \in Clients, WakesUp(c) PROVE LifeInv'
  <2>1. pc' = [d \in Clients |-> IF d \in {c} THEN "woken" ELSE pc[d]]
    BY <1>16 DEF WakesUp, TypeOK
  <2>2. \A d \in Clients : pc'[d] \in {"enter", "wait", "woken"} => size'[d] \in Sizes
    BY <1>16, <2>1 DEF WakesUp, LifeInv, TypeOK
  <2> QED BY <1>16, <2>1, <2>2, CallStep DEF WakesUp, worker
<1> QED
  BY <1>1, <1>2, <1>3, <1>4, <1>5, <1>6, <1>7, <1>8, <1>9, <1>10, <1>11, <1>12,
     <1>13, <1>14, <1>15, <1>16, NextCases

-----------------------------------------------------------------------------
(* The ring of bytes.                                                      *)

LEMMA SizeFacts ==
  /\ BufSize \in Nat /\ BufSize > 0 /\ Word \in Nat /\ Word = 4
  /\ Short \in Nat /\ Short > 0 /\ Long \in Nat /\ Long > 0
BY SizeAssumption DEF Word

\* The remainder of a position that is at most one turn ahead.
LEMMA Remainder ==
  ASSUME NEW x \in Nat, x <= BufSize
  PROVE  x % BufSize = IF x = BufSize THEN 0 ELSE x
<1>1. BufSize \in Nat /\ BufSize > 0
  BY SizeFacts
<1>2. PICK B \in Nat : B = BufSize
  BY <1>1
<1> QED BY <1>1, <1>2

\* A position moves to the byte that many places on.
LEMMA AdvanceIs ==
  ASSUME NEW pos \in 0 .. (BufSize - 1), NEW n \in 0 .. (BufSize - 1)
  PROVE  Advance(pos, n) = Cell(pos, n) /\ Cell(pos, n) \in 0 .. (BufSize - 1)
<1>1. BufSize \in Nat /\ BufSize > 0 /\ pos \in Nat /\ n \in Nat /\ pos < BufSize
      /\ n < BufSize
  BY SizeFacts
<1>2. CASE pos + n > BufSize
  <2>1. Advance(pos, n) = (pos + n - BufSize) % BufSize
    BY <1>1, <1>2 DEF Advance, Rest, Split
  <2>2. pos + n - BufSize \in Nat /\ pos + n - BufSize < BufSize
    BY <1>1, <1>2
  <2>3. (pos + n - BufSize) % BufSize = pos + n - BufSize
    BY <1>1, <2>2, Remainder
  <2> QED BY <1>1, <1>2, <2>1, <2>2, <2>3 DEF Cell
<1>3. CASE pos + n <= BufSize
  <2>1. Advance(pos, n) = (pos + n) % BufSize
    BY <1>1, <1>3 DEF Advance, Rest, Split
  <2>2. (pos + n) % BufSize = IF pos + n = BufSize THEN 0 ELSE pos + n
    BY <1>1, <1>3, Remainder
  <2> QED BY <1>1, <1>3, <2>1, <2>2 DEF Cell
<1> QED BY <1>1, <1>2, <1>3

\* Cells: further on, and different.
LEMMA CellFacts ==
  ASSUME NEW pos \in 0 .. (BufSize - 1)
  PROVE  /\ \A k \in 0 .. (BufSize - 1) : Cell(pos, k) \in 0 .. (BufSize - 1)
         /\ \A j, k \in Nat : j + k < BufSize => Cell(Cell(pos, j), k) = Cell(pos, j + k)
         /\ \A j, k \in 0 .. (BufSize - 1) : Cell(pos, j) = Cell(pos, k) => j = k
         /\ \A j \in 0 .. (BufSize - 1) : RingAvail(pos, Cell(pos, j)) = j
         /\ \A w \in 0 .. (BufSize - 1) :
              /\ RingAvail(pos, w) \in 0 .. (BufSize - 1)
              /\ Cell(pos, RingAvail(pos, w)) = w
<1>1. BufSize \in Nat /\ BufSize > 0 /\ pos \in Nat /\ pos < BufSize
  BY SizeFacts
<1>2. \A k \in 0 .. (BufSize - 1) : Cell(pos, k) \in 0 .. (BufSize - 1)
  BY <1>1 DEF Cell
<1>3. \A j, k \in Nat : j + k < BufSize => Cell(Cell(pos, j), k) = Cell(pos, j + k)
  BY <1>1 DEF Cell
<1>4. \A j, k \in 0 .. (BufSize - 1) : Cell(pos, j) = Cell(pos, k) => j = k
  BY <1>1 DEF Cell
<1>5. \A j \in 0 .. (BufSize - 1) : RingAvail(pos, Cell(pos, j)) = j
  BY <1>1 DEF Cell, RingAvail
<1>6. \A w \in 0 .. (BufSize - 1) :
        /\ RingAvail(pos, w) \in 0 .. (BufSize - 1)
        /\ Cell(pos, RingAvail(pos, w)) = w
  BY <1>1 DEF Cell, RingAvail
<1> QED BY <1>2, <1>3, <1>4, <1>5, <1>6

\* userdata_ring_buf_free and userdata_ring_buf_avail share one byte less than
\* the buffer has.
LEMMA FreeIs ==
  ASSUME pread \in 0 .. (BufSize - 1), pwrite \in 0 .. (BufSize - 1)
  PROVE  RingFree = BufSize - 1 - RingAvail(pread, pwrite)
BY SizeFacts DEF RingFree, RingAvail

\* A function on 1 .. n is a sequence of length n.
LEMMA FcnIsSeq ==
  ASSUME NEW S, NEW n \in Nat, NEW f \in [1 .. n -> S]
  PROVE  f \in Seq(S) /\ Len(f) = n
<1>1. f \in Seq(S)
  BY SeqDef
<1>2. DOMAIN f = 1 .. Len(f) /\ Len(f) \in Nat
  BY <1>1, LenProperties
<1>3. 1 .. n = 1 .. Len(f)
  BY <1>2
<1> QED BY <1>1, <1>2, <1>3

\* userdata_ring_buf_write puts the bytes into the cells from pos on and leaves
\* the others.
LEMMA WriteIs ==
  ASSUME NEW d, NEW pos \in 0 .. (BufSize - 1), NEW bytes, NEW n \in 0 .. (BufSize - 1),
         Len(bytes) = n
  PROVE  /\ \A k \in 1 .. n : RingWrite(d, pos, bytes)[Cell(pos, k - 1)] = bytes[k]
         /\ \A k \in n .. (BufSize - 1) :
              RingWrite(d, pos, bytes)[Cell(pos, k)] = d[Cell(pos, k)]
<1>1. BufSize \in Nat /\ BufSize > 0 /\ pos \in Nat /\ n \in Nat /\ pos < BufSize
      /\ n < BufSize
  BY SizeFacts
<1>2. CASE pos + n > BufSize
  <2>1. RingWrite(d, pos, bytes) =
          [i \in 0 .. (BufSize - 1) |->
             IF i >= pos THEN bytes[i - pos + 1]
             ELSE IF i < n - (BufSize - pos) THEN bytes[BufSize - pos + i + 1]
             ELSE d[i]]
    <3>1. Split(pos, Len(bytes)) = BufSize - pos /\ BufSize - pos > 0
      BY <1>1, <1>2 DEF Split
    <3>2. Rest(pos, Len(bytes)) = 0
      BY <3>1 DEF Rest
    <3>3. \A i \in 0 .. (BufSize - 1) :
            (CASE BufSize - pos > 0 /\ i >= pos -> bytes[i - pos + 1]
               [] i >= 0 /\ i < 0 + n - (BufSize - pos) -> bytes[BufSize - pos + i - 0 + 1]
               [] OTHER -> d[i]) =
            IF i >= pos THEN bytes[i - pos + 1]
            ELSE IF i < n - (BufSize - pos) THEN bytes[BufSize - pos + i + 1]
            ELSE d[i]
      BY <1>1, <3>1
    <3> QED BY <3>1, <3>2, <3>3 DEF RingWrite
  <2>2. ASSUME NEW k \in 1 .. n
        PROVE  RingWrite(d, pos, bytes)[Cell(pos, k - 1)] = bytes[k]
    <3>1. CASE pos + k - 1 < BufSize
      <4>1. Cell(pos, k - 1) = pos + k - 1 /\ pos + k - 1 \in 0 .. (BufSize - 1)
        BY <1>1, <3>1 DEF Cell
      <4>2. pos + k - 1 >= pos /\ (pos + k - 1) - pos + 1 = k
        BY <1>1
      <4> QED BY <2>1, <4>1, <4>2
    <3>2. CASE pos + k - 1 >= BufSize
      <4>1. Cell(pos, k - 1) = pos + k - 1 - BufSize /\ Cell(pos, k - 1) \in 0 .. (BufSize - 1)
        BY <1>1, <3>2 DEF Cell
      <4>2. /\ ~(pos + k - 1 - BufSize >= pos) /\ pos + k - 1 - BufSize >= 0
            /\ pos + k - 1 - BufSize < n - (BufSize - pos)
            /\ BufSize - pos + (pos + k - 1 - BufSize) + 1 = k
        BY <1>1, <3>2
      <4> QED BY <2>1, <4>1, <4>2
    <3> QED BY <1>1, <3>1, <3>2
  <2>3. ASSUME NEW k \in n .. (BufSize - 1)
        PROVE  RingWrite(d, pos, bytes)[Cell(pos, k)] = d[Cell(pos, k)]
    <3>1. Cell(pos, k) = pos + k - BufSize /\ Cell(pos, k) \in 0 .. (BufSize - 1)
      BY <1>1, <1>2 DEF Cell
    <3>2. /\ ~(pos + k - BufSize >= pos)
          /\ ~(pos + k - BufSize < n - (BufSize - pos))
      BY <1>1, <1>2
    <3> QED BY <2>1, <3>1, <3>2
  <2> QED BY <2>2, <2>3
<1>3. CASE pos + n <= BufSize
  <2>1. RingWrite(d, pos, bytes) =
          [i \in 0 .. (BufSize - 1) |->
             IF i >= pos /\ i < pos + n THEN bytes[i - pos + 1] ELSE d[i]]
    <3>1. Split(pos, Len(bytes)) = 0
      BY <1>1, <1>3 DEF Split
    <3>2. Rest(pos, Len(bytes)) = pos
      BY <1>1, <3>1 DEF Rest
    <3>3. \A i \in 0 .. (BufSize - 1) :
            (CASE 0 > 0 /\ i >= pos -> bytes[i - pos + 1]
               [] i >= pos /\ i < pos + n - 0 -> bytes[0 + i - pos + 1]
               [] OTHER -> d[i]) =
            IF i >= pos /\ i < pos + n THEN bytes[i - pos + 1] ELSE d[i]
      BY <1>1
    <3> QED BY <3>1, <3>2, <3>3 DEF RingWrite
  <2>2. ASSUME NEW k \in 1 .. n
        PROVE  RingWrite(d, pos, bytes)[Cell(pos, k - 1)] = bytes[k]
    <3>1. Cell(pos, k - 1) = pos + k - 1 /\ pos + k - 1 \in 0 .. (BufSize - 1)
      BY <1>1, <1>3 DEF Cell
    <3>2. pos + k - 1 >= pos /\ pos + k - 1 < pos + n /\ (pos + k - 1) - pos + 1 = k
      BY <1>1
    <3> QED BY <2>1, <3>1, <3>2
  <2>3. ASSUME NEW k \in n .. (BufSize - 1)
        PROVE  RingWrite(d, pos, bytes)[Cell(pos, k)] = d[Cell(pos, k)]
    <3>1. Cell(pos, k) \in 0 .. (BufSize - 1)
      BY <1>1 DEF Cell
    <3>2. ~(Cell(pos, k) >= pos /\ Cell(pos, k) < pos + n)
      BY <1>1, <1>3 DEF Cell
    <3> QED BY <2>1, <3>1, <3>2
  <2> QED BY <2>2, <2>3
<1> QED BY <1>1, <1>2, <1>3

\* userdata_ring_buf_read reads the cells from pos on.
LEMMA ReadIs ==
  ASSUME NEW pos \in 0 .. (BufSize - 1), NEW n \in 0 .. (BufSize - 1)
  PROVE  RingRead(pos, n) = [k \in 1 .. n |-> data[Cell(pos, k - 1)]]
<1>1. BufSize \in Nat /\ BufSize > 0 /\ pos \in Nat /\ n \in Nat /\ pos < BufSize
      /\ n < BufSize
  BY SizeFacts
<1>2. CASE pos + n > BufSize
  <2>1. Split(pos, n) = BufSize - pos /\ BufSize - pos > 0
    BY <1>1, <1>2 DEF Split
  <2>2. Rest(pos, n) = 0
    BY <2>1 DEF Rest
  <2>3. ASSUME NEW k \in 1 .. n
        PROVE  (IF k <= BufSize - pos THEN data[pos + k - 1]
                ELSE data[0 + k - (BufSize - pos) - 1]) = data[Cell(pos, k - 1)]
    <3>1. CASE k <= BufSize - pos
      <4>1. Cell(pos, k - 1) = pos + k - 1
        BY <1>1, <3>1 DEF Cell
      <4> QED BY <3>1, <4>1
    <3>2. CASE ~(k <= BufSize - pos)
      <4>1. Cell(pos, k - 1) = 0 + k - (BufSize - pos) - 1
        BY <1>1, <3>2 DEF Cell
      <4> QED BY <3>2, <4>1
    <3> QED BY <3>1, <3>2
  <2> QED BY <2>1, <2>2, <2>3 DEF RingRead
<1>3. CASE pos + n <= BufSize
  <2>1. Split(pos, n) = 0
    BY <1>1, <1>3 DEF Split
  <2>2. Rest(pos, n) = pos
    BY <1>1, <2>1 DEF Rest
  <2>3. ASSUME NEW k \in 1 .. n
        PROVE  (IF k <= 0 THEN data[pos + k - 1] ELSE data[pos + k - 0 - 1]) =
               data[Cell(pos, k - 1)]
    <3>1. Cell(pos, k - 1) = pos + k - 0 - 1 /\ ~(k <= 0)
      BY <1>1, <1>3 DEF Cell
    <3> QED BY <3>1
  <2> QED BY <2>1, <2>2, <2>3 DEF RingRead
<1> QED BY <1>1, <1>2, <1>3

\* The bytes of s are in the cells from v on once they are written there.
Puts(d, v, s) ==
  \A k \in 1 .. Len(s) : RingWrite(d, v, s)[Cell(v, k - 1)] = s[k]

LEMMA WritePuts ==
  ASSUME NEW d, NEW v \in 0 .. (BufSize - 1), NEW s, Len(s) \in 0 .. (BufSize - 1)
  PROVE  Puts(d, v, s)
<1> PICK n \in 0 .. (BufSize - 1) : n = Len(s)
  OBVIOUS
<1>1. /\ \A k \in 1 .. n : RingWrite(d, v, s)[Cell(v, k - 1)] = s[k]
      /\ \A k \in n .. (BufSize - 1) :
           RingWrite(d, v, s)[Cell(v, k)] = d[Cell(v, k)]
  BY WriteIs
<1> QED BY <1>1 DEF Puts

\* What is not one of the cells from pos on is left alone.
LEMMA WriteKeeps ==
  ASSUME NEW d, NEW pos \in 0 .. (BufSize - 1), NEW bytes, NEW n \in 0 .. (BufSize - 1),
         Len(bytes) = n, NEW i \in 0 .. (BufSize - 1),
         \A k \in 0 .. (n - 1) : i # Cell(pos, k)
  PROVE  RingWrite(d, pos, bytes)[i] = d[i]
<1>1. PICK k \in 0 .. (BufSize - 1) : i = Cell(pos, k)
  <2>1. RingAvail(pos, i) \in 0 .. (BufSize - 1) /\ Cell(pos, RingAvail(pos, i)) = i
    BY CellFacts
  <2> QED BY <2>1
<1>2. k \in n .. (BufSize - 1)
  BY <1>1, SizeFacts
<1> QED BY <1>1, <1>2, WriteIs

\* The contents e have lw and pb where d had other bytes, a bytes after r.
Written(e, d, r, a, lw, pb) ==
  /\ \A m \in 0 .. (a - 1) : e[Cell(r, m)] = d[Cell(r, m)]
  /\ \A k \in 1 .. Word : e[Cell(r, a + k - 1)] = lw[k]
  /\ \A k \in 1 .. Len(pb) : e[Cell(r, a + Word + k - 1)] = pb[k]

\* The two writes of userdata_package_write.
LEMMA PutCells ==
  ASSUME NEW d, NEW r \in 0 .. (BufSize - 1), NEW a \in Nat, NEW lw, NEW pb,
         Len(pb) \in Nat, Len(lw) = Word, a + Word + Len(pb) < BufSize,
         NEW w0, w0 = Cell(r, a), NEW w1, w1 = Cell(r, a + Word),
         NEW e, e = RingWrite(RingWrite(d, w0, lw), w1, pb)
  PROVE  Written(e, d, r, a, lw, pb)
<1> PICK n \in Nat : n = Len(pb) /\ a + Word + n < BufSize
  OBVIOUS
<1>a. a \in 0 .. (BufSize - 1) /\ a + Word \in 0 .. (BufSize - 1) /\ a + Word \in Nat
  BY SizeFacts
<1>1. w0 \in 0 .. (BufSize - 1) /\ w1 \in 0 .. (BufSize - 1)
  BY <1>a, CellFacts
<1>2. n \in 0 .. (BufSize - 1) /\ Word \in 0 .. (BufSize - 1)
  BY SizeFacts
<1>c. /\ \A k \in 0 .. (BufSize - 1) : Cell(r, k) \in 0 .. (BufSize - 1)
      /\ \A j, k \in Nat : j + k < BufSize => Cell(Cell(r, j), k) = Cell(r, j + k)
      /\ \A j, k \in 0 .. (BufSize - 1) : Cell(r, j) = Cell(r, k) => j = k
  BY CellFacts
<1>3. \A k \in 0 .. (Word - 1) :
        a + k \in 0 .. (BufSize - 1) /\ Cell(w0, k) = Cell(r, a + k)
  <2>1. \A k \in 0 .. (Word - 1) : k \in Nat /\ a + k \in 0 .. (BufSize - 1) /\ a + k < BufSize
    BY SizeFacts
  <2> QED BY <1>1, <1>c, <2>1
<1>4. \A k \in 0 .. (n - 1) :
        a + Word + k \in 0 .. (BufSize - 1) /\ Cell(w1, k) = Cell(r, a + Word + k)
  <2>1. \A k \in 0 .. (n - 1) :
          k \in Nat /\ a + Word + k \in 0 .. (BufSize - 1) /\ a + Word + k < BufSize
    BY SizeFacts
  <2> QED BY <1>1, <1>a, <1>c, <2>1
<1>5. PICK f : f = RingWrite(d, w0, lw)
  OBVIOUS
<1>6. e = RingWrite(f, w1, pb)
  BY <1>1, <1>5
<1>g. ASSUME NEW x \in 0 .. (BufSize - 1), \A k \in 0 .. (Word - 1) : x # Cell(w0, k)
      PROVE  RingWrite(d, w0, lw)[x] = d[x]
  <2> PICK q \in 0 .. (BufSize - 1) : q = Word
    BY <1>2
  <2>1. \A k \in 0 .. (q - 1) : x # Cell(w0, k)
    BY <1>g
  <2> QED BY <1>1, <2>1, WriteKeeps
<1>7. ASSUME NEW m \in 0 .. (a - 1) PROVE e[Cell(r, m)] = d[Cell(r, m)]
  <2>1. m \in 0 .. (BufSize - 1)
    BY SizeFacts
  <2>2. PICK x \in 0 .. (BufSize - 1) : x = Cell(r, m)
    BY <1>c, <2>1
  <2>3. \A k \in 0 .. (Word - 1) : x # Cell(w0, k)
    <3>1. \A k \in 0 .. (Word - 1) : a + k # m
      BY SizeFacts
    <3> QED BY <1>3, <1>c, <2>1, <2>2, <3>1
  <2>4. \A k \in 0 .. (n - 1) : x # Cell(w1, k)
    <3>1. \A k \in 0 .. (n - 1) : a + Word + k # m
      BY SizeFacts
    <3> QED BY <1>4, <1>c, <2>1, <2>2, <3>1
  <2>5. f[x] = d[x]
    <3>1. RingWrite(d, w0, lw)[x] = d[x]
      BY <1>g, <2>3
    <3> QED BY <1>5, <3>1
  <2>6. e[x] = f[x]
    BY <1>1, <1>2, <1>6, <2>4, WriteKeeps
  <2> QED BY <2>2, <2>5, <2>6
<1>8. ASSUME NEW k \in 1 .. Word PROVE e[Cell(r, a + k - 1)] = lw[k]
  <2>1. k - 1 \in 0 .. (Word - 1) /\ a + (k - 1) = a + k - 1
    BY SizeFacts
  <2>2. PICK x \in 0 .. (BufSize - 1) : x = Cell(r, a + (k - 1)) /\ x = Cell(w0, k - 1)
    BY <1>3, <1>c, <2>1
  <2>3. f[x] = lw[k]
    <3>1. Puts(d, w0, lw)
      BY <1>1, <1>2, WritePuts
    <3>2. RingWrite(d, w0, lw)[Cell(w0, k - 1)] = lw[k]
      BY <3>1 DEF Puts
    <3> QED BY <1>5, <2>2, <3>2
  <2>4. \A j \in 0 .. (n - 1) : x # Cell(w1, j)
    <3>1. \A j \in 0 .. (n - 1) : a + Word + j # a + (k - 1)
      BY SizeFacts
    <3>2. a + (k - 1) \in 0 .. (BufSize - 1)
      BY <1>3, <2>1
    <3>3. \A j \in 0 .. (n - 1) : Cell(r, a + (k - 1)) # Cell(r, a + Word + j)
      BY <1>4, <1>c, <3>1, <3>2
    <3> QED BY <1>4, <2>2, <3>3
  <2>5. e[x] = f[x]
    BY <1>1, <1>2, <1>6, <2>4, WriteKeeps
  <2> QED BY <2>1, <2>2, <2>3, <2>5
<1>9. ASSUME NEW k \in 1 .. n PROVE e[Cell(r, a + Word + k - 1)] = pb[k]
  <2>1. k - 1 \in 0 .. (n - 1) /\ a + Word + (k - 1) = a + Word + k - 1
    BY SizeFacts
  <2>2. e[Cell(w1, k - 1)] = pb[k]
    <3>1. Puts(f, w1, pb)
      BY <1>1, <1>2, WritePuts
    <3>2. RingWrite(f, w1, pb)[Cell(w1, k - 1)] = pb[k]
      BY <3>1 DEF Puts
    <3> QED BY <1>6, <3>2
  <2>3. Cell(w1, k - 1) = Cell(r, a + Word + (k - 1))
    BY <1>4, <2>1
  <2> QED BY <2>1, <2>2, <2>3
<1> QED BY <1>7, <1>8, <1>9 DEF Written

\* Four bytes of a length mean that length.
LEMMA LengthWordIs ==
  ASSUME NEW n \in Nat
  PROVE  Len(LengthWord(n)) = Word /\ LengthOf(LengthWord(n)) = n
<1>1. LengthWord(n) \in [1 .. Word -> {"len"} \X Nat \X Nat] /\ Word \in Nat
  BY SizeFacts DEF LengthWord
<1>2. Len(LengthWord(n)) = Word
  BY <1>1, FcnIsSeq
<1>3. LengthWord(n)[1][2] = n
  BY SizeFacts DEF LengthWord
<1> QED BY <1>2, <1>3 DEF LengthOf

\* The bytes of a package mean that package.
LEMMA PackageBytesIs ==
  ASSUME NEW p, p.id \in Nat, p.len \in Nat \ {0}
  PROVE  Len(PackageBytes(p)) = p.len /\ IdOf(PackageBytes(p)) = p.id
<1>1. PackageBytes(p) \in [1 .. p.len -> {"pkg"} \X Nat \X Nat]
  BY DEF PackageBytes
<1>2. Len(PackageBytes(p)) = p.len
  BY <1>1, FcnIsSeq
<1>3. PackageBytes(p)[1][2] = p.id
  BY DEF PackageBytes
<1>4. PackageBytes([id |-> p.id, len |-> p.len]) = PackageBytes(p)
  BY DEF PackageBytes
<1> QED BY <1>2, <1>3, <1>4 DEF IdOf

\* What the proofs about the ring need of the types.
RingOK ==
  /\ pread \in 0 .. (BufSize - 1) /\ pwrite \in 0 .. (BufSize - 1)
  /\ queue \in Seq(Queued)

LEMMA QueuedIs ==
  ASSUME RingOK
  PROVE  /\ Len(queue) \in Nat
         /\ \A i \in 1 .. Len(queue) :
              queue[i].id \in Nat /\ queue[i].len \in {Short, Long}
              /\ queue[i].len \in Nat \ {0}
<1> DEFINE S == Queued
<1>1. queue \in Seq(S)
  BY DEF RingOK
<1>2. \A i \in 1 .. Len(queue) : queue[i] \in S
  <2> HIDE DEF S
  <2> QED BY <1>1, ElementOfSeq
<1>3. Len(queue) \in Nat
  BY <1>1, LenProperties
<1> QED BY <1>2, <1>3, SizeFacts DEF Queued

\* The ring is empty exactly when the queue is.
LEMMA EmptyIs ==
  ASSUME RingOK, RingInv
  PROVE  /\ RingAvail(pread, pwrite) \in 0 .. (BufSize - 1)
         /\ queue = <<>> <=> RingAvail(pread, pwrite) <= 0
<1>1. PICK o \in [1 .. (Len(queue) + 1) -> 0 .. (BufSize - 1)] : Layout(o)
  BY DEF RingInv
<1>2. RingAvail(pread, pwrite) \in 0 .. (BufSize - 1)
  BY CellFacts DEF RingOK
<1>3. CASE queue = <<>>
  <2>1. Len(queue) = 0
    BY <1>3
  <2> QED BY <1>1, <1>2, <1>3, <2>1 DEF Layout
<1>4. CASE queue # <<>>
  <2>1. Len(queue) \in Nat /\ Len(queue) > 0 /\ Len(queue) + 1 \in 1 .. (Len(queue) + 1)
        /\ 1 \in 1 .. Len(queue) /\ 2 \in 1 .. (Len(queue) + 1)
    BY <1>4, EmptySeq, QueuedIs DEF RingOK
  <2>2. o[1] = 0 /\ o[1 + 1] = o[1] + Word + queue[1].len /\ queue[1].len \in Nat
    BY <1>1, <2>1, QueuedIs DEF Layout
  <2>3. 2 <= Len(queue) + 1 /\ o[2] <= o[Len(queue) + 1]
    BY <1>1, <2>1 DEF Layout
  <2>4. o[Len(queue) + 1] = RingAvail(pread, pwrite)
    BY <1>1 DEF Layout
  <2> QED BY <1>2, <1>4, <2>2, <2>3, <2>4, SizeFacts
<1> QED BY <1>2, <1>3, <1>4

\* The first package of the ring, as userdata_package_read sees it.
LEMMA HeadIs ==
  ASSUME RingOK, RingInv, queue # <<>>
  PROVE  LET len == queue[1].len
             r   == Advance(pread, Word)
         IN  /\ RingAvail(pread, pwrite) >= Word + len
             /\ LengthOf(RingRead(pread, Word)) = len
             /\ r \in 0 .. (BufSize - 1)
             /\ RingAvail(r, pwrite) = RingAvail(pread, pwrite) - Word
             /\ IdOf(RingRead(r, len)) = queue[1].id
             /\ Advance(r, len) = Cell(pread, Word + len)
             /\ Word + len < BufSize
<1>1. PICK o \in [1 .. (Len(queue) + 1) -> 0 .. (BufSize - 1)] : Layout(o)
  BY DEF RingInv
<1>2. Len(queue) \in Nat /\ Len(queue) > 0 /\ Len(queue) + 1 \in 1 .. (Len(queue) + 1)
      /\ 1 \in 1 .. Len(queue) /\ 2 \in 1 .. (Len(queue) + 1) /\ 2 <= Len(queue) + 1
  BY EmptySeq, QueuedIs DEF RingOK
<1>3. PICK len \in Nat \ {0}, a \in 0 .. (BufSize - 1), p0 \in 0 .. (BufSize - 1) :
        len = queue[1].len /\ a = RingAvail(pread, pwrite) /\ p0 = pread
  BY <1>2, EmptyIs, QueuedIs DEF RingOK
<1>4. /\ o[1] = 0 /\ o[1 + 1] = o[1] + Word + len /\ o[2] <= o[Len(queue) + 1]
      /\ o[Len(queue) + 1] = a
      /\ \A k \in 1 .. Word : data[Cell(p0, o[1] + k - 1)] = LengthWord(len)[k]
      /\ \A k \in 1 .. len : data[Cell(p0, o[1] + Word + k - 1)] = PackageBytes(queue[1])[k]
  BY <1>1, <1>2, <1>3 DEF Layout
<1>5. a >= Word + len /\ Word + len < BufSize
  BY <1>3, <1>4, SizeFacts
<1>6. /\ Word \in 0 .. (BufSize - 1) /\ len \in 0 .. (BufSize - 1)
      /\ Word + len \in 0 .. (BufSize - 1)
  BY <1>5, SizeFacts
<1>7. RingRead(p0, Word) = LengthWord(len)
  <2>1. RingRead(p0, Word) = [k \in 1 .. Word |-> data[Cell(p0, k - 1)]]
    BY <1>3, <1>6, ReadIs
  <2>2. \A k \in 1 .. Word : data[Cell(p0, k - 1)] = <<"len", len, k>>
    <3>1. \A k \in 1 .. Word : 0 + k - 1 = k - 1
      BY SizeFacts
    <3>2. \A k \in 1 .. Word : LengthWord(len)[k] = <<"len", len, k>>
      BY DEF LengthWord
    <3> QED BY <1>4, <3>1, <3>2
  <2> QED BY <2>1, <2>2 DEF LengthWord
<1>8. LengthOf(RingRead(pread, Word)) = len
  BY <1>3, <1>7, LengthWordIs
<1>9. PICK r \in 0 .. (BufSize - 1) : r = Advance(p0, Word) /\ r = Cell(p0, Word)
  BY <1>3, <1>6, AdvanceIs
<1>10. RingAvail(r, pwrite) = a - Word
  <2>1. Cell(p0, a) = pwrite
    BY <1>3, CellFacts DEF RingOK
  <2>2. a - Word \in Nat /\ a - Word \in 0 .. (BufSize - 1) /\ Word + (a - Word) = a
        /\ Word \in Nat /\ a < BufSize
    BY <1>5, SizeFacts
  <2>3. Cell(r, a - Word) = Cell(p0, Word + (a - Word))
    BY <1>9, <2>2, CellFacts
  <2>4. RingAvail(r, Cell(r, a - Word)) = a - Word
    BY <2>2, CellFacts
  <2> QED BY <2>1, <2>2, <2>3, <2>4
<1>11. Advance(r, len) = Cell(p0, Word + len)
  <2>1. Advance(r, len) = Cell(r, len)
    BY <1>6, AdvanceIs
  <2>2. Cell(Cell(p0, Word), len) = Cell(p0, Word + len)
    BY <1>5, CellFacts, SizeFacts
  <2> QED BY <1>9, <2>1, <2>2
<1>12. RingRead(r, len) = PackageBytes(queue[1])
  <2>1. RingRead(r, len) = [k \in 1 .. len |-> data[Cell(r, k - 1)]]
    BY <1>6, ReadIs
  <2>2. ASSUME NEW k \in 1 .. len
        PROVE  data[Cell(r, k - 1)] = <<"pkg", queue[1].id, k>>
    <3>1. k - 1 \in Nat /\ Word + (k - 1) < BufSize /\ 0 + Word + k - 1 = Word + (k - 1)
      BY <1>5, SizeFacts
    <3>2. Cell(r, k - 1) = Cell(p0, Word + (k - 1))
      BY <1>9, <3>1, CellFacts, SizeFacts
    <3>3. PackageBytes(queue[1])[k] = <<"pkg", queue[1].id, k>>
      BY <1>3 DEF PackageBytes
    <3> QED BY <1>4, <3>1, <3>2, <3>3
  <2> QED BY <1>3, <2>1, <2>2 DEF PackageBytes
<1>13. IdOf(RingRead(r, len)) = queue[1].id
  <2>1. queue[1].id \in Nat /\ queue[1].len \in Nat \ {0}
    BY <1>2, QueuedIs
  <2> QED BY <1>12, <2>1, PackageBytesIs
<1> QED BY <1>3, <1>5, <1>8, <1>9, <1>10, <1>11, <1>13

\* What userdata_package_read does, seen from the queue.
LEMMA ReadResult ==
  ASSUME RingOK, RingInv, RingAvail(pread, pwrite) > 0, NEW n \in Nat,
         NEW x, x = PackageRead(n)
  PROVE  /\ queue # <<>>
         /\ x.pread = Cell(pread, Word + queue[1].len)
         /\ x.queue = Tail(queue)
         /\ queue[1].len <= n => x.got = Append(got, queue[1].id) /\ x.lost = lost
         /\ ~(queue[1].len <= n) => x.got = got /\ x.lost = lost \cup {queue[1].id}
<1>1. queue # <<>> /\ RingAvail(pread, pwrite) \in Nat
  BY EmptyIs
<1>2. 1 \in 1 .. Len(queue)
  BY <1>1, EmptySeq, QueuedIs DEF RingOK
<1>3. PICK len \in Nat \ {0}, a \in Nat :
        len = queue[1].len /\ a = RingAvail(pread, pwrite)
  BY <1>1, <1>2, QueuedIs
<1>r. PICK r : r = Advance(pread, Word)
  OBVIOUS
<1>4. /\ a >= Word + len
      /\ LengthOf(RingRead(pread, Word)) = len
      /\ RingAvail(r, pwrite) = a - Word
      /\ IdOf(RingRead(r, len)) = queue[1].id
      /\ Advance(r, len) = Cell(pread, Word + len)
  BY <1>1, <1>3, <1>r, HeadIs
<1>5. a > Word /\ ~(a <= Word) /\ ~(a - Word < len) /\ len # 0
  BY <1>3, <1>4, SizeFacts
<1> DEFINE same   == [pread |-> pread, queue |-> queue, got |-> got, lost |-> lost]
           popped == [same EXCEPT !.queue = Tail(@)]
<1>6. PackageRead(n) =
        CASE a <= Word -> same
          [] a > Word /\ (a - Word < len \/ len = 0) -> [same EXCEPT !.pread = r]
          [] a > Word /\ ~(a - Word < len) /\ len > n ->
               [popped EXCEPT !.pread = Discarded(r, len), !.lost = @ \cup {queue[1].id}]
          [] OTHER ->
               [popped EXCEPT !.pread = Advance(r, len), !.got = Append(@, queue[1].id)]
  BY <1>3, <1>4, <1>r, Zenon DEF PackageRead
<1>7. CASE len <= n
  <2>1. PackageRead(n) =
          [popped EXCEPT !.pread = Advance(r, len), !.got = Append(@, queue[1].id)]
    <3>1. ~(len > n)
      BY <1>7
    <3> HIDE DEF same, popped
    <3> QED BY <1>5, <1>6, <3>1
  <2>2. x = [pread |-> Cell(pread, Word + len), queue |-> Tail(queue),
             got |-> Append(got, queue[1].id), lost |-> lost]
    BY <1>4, <2>1
  <2> QED BY <1>1, <1>3, <1>7, <2>2
<1>8. CASE ~(len <= n)
  <2>1. PackageRead(n) =
          [popped EXCEPT !.pread = Discarded(r, len), !.lost = @ \cup {queue[1].id}]
    <3>1. len > n
      BY <1>3, <1>8
    <3> HIDE DEF same, popped
    <3> QED BY <1>5, <1>6, <3>1
  <2>2. x = [pread |-> Cell(pread, Word + len), queue |-> Tail(queue),
             got |-> got, lost |-> lost \cup {queue[1].id}]
    BY <1>4, <2>1 DEF Discarded
  <2> QED BY <1>1, <1>3, <1>8, <2>2
<1> QED BY <1>7, <1>8

\* Offsets keep their order when the ring's start moves.
LEMMA MinusKeepsOrder == \A x, y, w \in Nat : x <= y => x - w <= y - w
OBVIOUS

\* A read takes the first package out of the ring.
LEMMA PopStep ==
  ASSUME RingOK, RingInv, queue # <<>>,
         pread' = Cell(pread, Word + queue[1].len), queue' = Tail(queue),
         UNCHANGED <<data, pwrite>>
  PROVE  /\ RingOK' /\ RingInv'
         /\ RingAvail(pread', pwrite') =
              RingAvail(pread, pwrite) - (Word + queue[1].len)
<1>1. PICK o \in [1 .. (Len(queue) + 1) -> 0 .. (BufSize - 1)] : Layout(o)
  BY DEF RingInv
<1>2. Len(queue) \in Nat /\ Len(queue) > 0 /\ 1 \in 1 .. Len(queue)
  BY EmptySeq, QueuedIs DEF RingOK
<1>3. PICK len \in Nat \ {0}, a \in 0 .. (BufSize - 1), p0 \in 0 .. (BufSize - 1), n \in Nat :
        /\ len = queue[1].len /\ a = RingAvail(pread, pwrite) /\ p0 = pread
        /\ n = Len(queue)
  BY <1>2, EmptyIs, QueuedIs DEF RingOK
<1>4. a >= Word + len /\ Word + len < BufSize
  BY <1>3, HeadIs
<1>5. Word + len \in 0 .. (BufSize - 1) /\ Word + len \in Nat
  BY <1>4, SizeFacts
<1>6. PICK r \in 0 .. (BufSize - 1) : r = Cell(p0, Word + len) /\ pread' = r
  BY <1>3, <1>5, CellFacts
<1>7. /\ Tail(queue) \in Seq(Queued)
      /\ Len(Tail(queue)) = n - 1
      /\ \A i \in 1 .. (n - 1) : Tail(queue)[i] = queue[i + 1]
  <2> DEFINE S == Queued
  <2>1. queue \in Seq(S)
    BY DEF RingOK
  <2> HIDE DEF S
  <2>2. Tail(queue) \in Seq(S) /\ Len(Tail(queue)) = Len(queue) - 1
        /\ \A i \in 1 .. Len(Tail(queue)) : Tail(queue)[i] = queue[i + 1]
    BY <2>1, HeadTailProperties
  <2>3. Tail(queue) \in Seq(S) /\ Len(Tail(queue)) = n - 1
        /\ \A i \in 1 .. (n - 1) : Tail(queue)[i] = queue[i + 1]
    BY <1>3, <2>2
  <2> QED BY <2>3 DEF S
<1>8. RingAvail(r, pwrite) = a - (Word + len) /\ a - (Word + len) \in 0 .. (BufSize - 1)
  <2>1. Cell(p0, a) = pwrite
    BY <1>3, CellFacts DEF RingOK
  <2>2. PICK z \in Nat : z = a - (Word + len) /\ z \in 0 .. (BufSize - 1)
          /\ (Word + len) + z = a /\ a < BufSize
    <3>1. PICK w \in Nat, B \in Nat : w = Word + len /\ B = BufSize
      BY <1>5, SizeFacts
    <3>2. a \in Nat /\ a < B /\ a >= w
      BY <1>4, <3>1
    <3>3. a - w \in Nat /\ a - w \in 0 .. (B - 1) /\ w + (a - w) = a
      BY <3>2
    <3> QED BY <3>1, <3>2, <3>3, Zenon
  <2>3. Cell(r, z) = Cell(p0, (Word + len) + z)
    BY <1>5, <1>6, <2>2, CellFacts
  <2>4. RingAvail(r, Cell(r, z)) = z
    BY <2>2, CellFacts
  <2> QED BY <2>1, <2>2, <2>3, <2>4
<1>9. RingOK'
  BY <1>6, <1>7 DEF RingOK
<1>10. /\ \A i \in 1 .. (n + 1) : o[i] \in 0 .. (BufSize - 1)
       /\ o[1] = 0 /\ o[n + 1] = a
       /\ \A i, j \in 1 .. (n + 1) : i <= j => o[i] <= o[j]
       /\ \A i \in 1 .. n :
            /\ o[i + 1] = o[i] + Word + queue[i].len
            /\ \A k \in 1 .. Word :
                 data[Cell(p0, o[i] + k - 1)] = LengthWord(queue[i].len)[k]
            /\ \A k \in 1 .. queue[i].len :
                 data[Cell(p0, o[i] + Word + k - 1)] = PackageBytes(queue[i])[k]
  BY <1>1, <1>3 DEF Layout
<1>11. o[2] = Word + len /\ n >= 1
  <2>1. 1 \in 1 .. n /\ n >= 1 /\ 1 + 1 = 2
    BY <1>2, <1>3
  <2>2. o[1 + 1] = o[1] + Word + queue[1].len
    BY <1>10, <2>1
  <2> QED BY <1>3, <1>10, <2>1, <2>2, SizeFacts
<1> DEFINE h == [i \in 1 .. n |-> o[i + 1] - (Word + len)]
<1>12. \A i \in 1 .. n : /\ h[i] = o[i + 1] - (Word + len) /\ o[i + 1] >= Word + len
                         /\ h[i] \in 0 .. (BufSize - 1) /\ o[i + 1] \in Nat
                         /\ i + 1 \in 1 .. (n + 1)
  <2> SUFFICES ASSUME NEW i \in 1 .. n
               PROVE  /\ h[i] = o[i + 1] - (Word + len) /\ o[i + 1] >= Word + len
                      /\ h[i] \in 0 .. (BufSize - 1) /\ o[i + 1] \in Nat
                      /\ i + 1 \in 1 .. (n + 1)
    OBVIOUS
  <2>1. i + 1 \in 1 .. (n + 1) /\ 2 \in 1 .. (n + 1) /\ 2 <= i + 1
    BY <1>11
  <2>2. o[2] <= o[i + 1] /\ o[i + 1] \in 0 .. (BufSize - 1)
    BY <1>10, <2>1
  <2> QED BY <1>5, <1>11, <2>1, <2>2, SizeFacts
<1>13. h \in [1 .. (Len(queue') + 1) -> 0 .. (BufSize - 1)]
  <2>1. Len(queue') + 1 = n
    BY <1>3, <1>7
  <2> QED BY <1>12, <2>1
<1> HIDE DEF h
<1>14. Layout(h)'
  <2>1. Len(queue') = n - 1 /\ Len(queue') + 1 = n
    BY <1>3, <1>7
  <2>2. h[1] = 0
    <3>1. 1 \in 1 .. n /\ 1 + 1 = 2
      BY <1>11
    <3> QED BY <1>11, <1>12, <3>1, SizeFacts
  <2>3. h[n] = RingAvail(pread', pwrite')
    <3>1. n \in 1 .. n
      BY <1>11
    <3>2. h[n] = o[n + 1] - (Word + len)
      BY <1>12, <3>1
    <3> QED BY <1>6, <1>8, <1>10, <3>2
  <2>4. \A i, j \in 1 .. n : i <= j => h[i] <= h[j]
    <3> SUFFICES ASSUME NEW i \in 1 .. n, NEW j \in 1 .. n, i <= j PROVE h[i] <= h[j]
      OBVIOUS
    <3>1. i + 1 <= j + 1 /\ i + 1 \in 1 .. (n + 1) /\ j + 1 \in 1 .. (n + 1)
      OBVIOUS
    <3>2. PICK oi \in Nat, oj \in Nat : oi = o[i + 1] /\ oj = o[j + 1] /\ oi <= oj
      BY <1>10, <1>12, <3>1
    <3>3. h[i] = oi - (Word + len) /\ h[j] = oj - (Word + len)
      BY <1>12, <3>2
    <3>4. PICK w \in Nat : w = Word + len
      BY <1>5
    <3>5. oi - w <= oj - w
      BY <3>2, MinusKeepsOrder, Zenon
    <3> QED BY <3>3, <3>4, <3>5, Zenon
  <2>5. ASSUME NEW i \in 1 .. (n - 1)
        PROVE  /\ h[i + 1] = h[i] + Word + queue'[i].len
               /\ \A k \in 1 .. Word :
                    data'[Cell(pread', h[i] + k - 1)] = LengthWord(queue'[i].len)[k]
               /\ \A k \in 1 .. queue'[i].len :
                    data'[Cell(pread', h[i] + Word + k - 1)] = PackageBytes(queue'[i])[k]
    <3>1. PICK m : m = i + 1 /\ m \in 1 .. n /\ m + 1 \in 1 .. (n + 1) /\ i \in 1 .. n
      OBVIOUS
    <3>2. queue'[i] = queue[m] /\ data' = data /\ pread' = r
      BY <1>6, <1>7, <3>1
    <3>3. /\ o[m + 1] = o[m] + Word + queue[m].len
          /\ \A k \in 1 .. Word :
               data[Cell(p0, o[m] + k - 1)] = LengthWord(queue[m].len)[k]
          /\ \A k \in 1 .. queue[m].len :
               data[Cell(p0, o[m] + Word + k - 1)] = PackageBytes(queue[m])[k]
      BY <1>10, <3>1
    <3>4. h[m] = o[m + 1] - (Word + len) /\ h[i] = o[m] - (Word + len) /\ o[m] >= Word + len
          /\ o[m] \in Nat
      BY <1>12, <3>1
    <3>5. PICK ml \in Nat \ {0} : ml = queue[m].len
      BY <1>3, <3>1, QueuedIs
    <3>6. o[m + 1] < BufSize /\ o[m + 1] \in Nat
      BY <1>10, <3>1, SizeFacts
    <3>a. PICK om \in Nat, wl \in Nat : om = o[m] /\ wl = Word + len
      BY <1>5, <3>4
    <3>b. PICK hi \in Nat : hi = h[i] /\ hi = om - wl
      BY <1>12, <3>1, <3>4, <3>a
    <3>c. om + Word + ml < BufSize
      BY <3>3, <3>5, <3>6, <3>a
    <3>7. h[m] = hi + Word + ml
      <4>1. h[m] = (om + Word + ml) - wl
        BY <3>3, <3>4, <3>5, <3>a
      <4> QED BY <3>b, <4>1, SizeFacts
    <3>8. ASSUME NEW g \in Nat, g < Word + ml
          PROVE  Cell(r, hi + g) = Cell(p0, om + g)
      <4>1. hi + g \in Nat /\ wl + (hi + g) = om + g /\ wl + (hi + g) < BufSize
        BY <3>8, <3>b, <3>c, SizeFacts
      <4>2. PICK z \in Nat : z = hi + g
        BY <4>1
      <4>3. Cell(Cell(p0, wl), z) = Cell(p0, wl + z)
        BY <4>1, <4>2, CellFacts
      <4> QED BY <1>6, <3>a, <4>1, <4>2, <4>3
    <3>9. ASSUME NEW k \in 1 .. Word
          PROVE  data[Cell(r, hi + k - 1)] = LengthWord(ml)[k]
      <4>1. k - 1 \in Nat /\ k - 1 < Word + ml /\ hi + k - 1 = hi + (k - 1)
            /\ om + k - 1 = om + (k - 1)
        BY SizeFacts
      <4>2. Cell(r, hi + (k - 1)) = Cell(p0, om + (k - 1))
        BY <3>8, <4>1
      <4>3. data[Cell(p0, om + k - 1)] = LengthWord(ml)[k]
        BY <3>3, <3>5, <3>a
      <4> QED BY <4>1, <4>2, <4>3
    <3>10. ASSUME NEW k \in 1 .. ml
           PROVE  data[Cell(r, hi + Word + k - 1)] = PackageBytes(queue[m])[k]
      <4>1. Word + (k - 1) \in Nat /\ Word + (k - 1) < Word + ml
            /\ hi + Word + k - 1 = hi + (Word + (k - 1))
            /\ om + Word + k - 1 = om + (Word + (k - 1))
        BY SizeFacts
      <4>2. Cell(r, hi + (Word + (k - 1))) = Cell(p0, om + (Word + (k - 1)))
        BY <3>8, <4>1
      <4>3. data[Cell(p0, om + Word + k - 1)] = PackageBytes(queue[m])[k]
        BY <3>3, <3>5, <3>a
      <4> QED BY <4>1, <4>2, <4>3
    <3> QED BY <3>1, <3>2, <3>5, <3>7, <3>9, <3>10, <3>b
  <2>6. \A i \in 1 .. Len(queue') :
          /\ h[i + 1] = h[i] + Word + queue'[i].len
          /\ \A k \in 1 .. Word :
               data'[Cell(pread', h[i] + k - 1)] = LengthWord(queue'[i].len)[k]
          /\ \A k \in 1 .. queue'[i].len :
               data'[Cell(pread', h[i] + Word + k - 1)] = PackageBytes(queue'[i])[k]
    BY <2>1, <2>5
  <2>7. \A i, j \in 1 .. (Len(queue') + 1) : i <= j => h[i] <= h[j]
    BY <2>1, <2>4
  <2>8. h[Len(queue') + 1] = RingAvail(pread', pwrite')
    BY <2>1, <2>3
  <2>9. Layout(h)' <=>
          /\ h[1] = 0
          /\ h[Len(queue') + 1] = RingAvail(pread', pwrite')
          /\ \A i, j \in 1 .. (Len(queue') + 1) : i <= j => h[i] <= h[j]
          /\ \A i \in 1 .. Len(queue') :
               /\ h[i + 1] = h[i] + Word + queue'[i].len
               /\ \A k \in 1 .. Word :
                    data'[Cell(pread', h[i] + k - 1)] = LengthWord(queue'[i].len)[k]
               /\ \A k \in 1 .. queue'[i].len :
                    data'[Cell(pread', h[i] + Word + k - 1)] = PackageBytes(queue'[i])[k]
    BY Zenon DEF Layout
  <2> QED BY <2>2, <2>6, <2>7, <2>8, <2>9
<1>15. RingInv'
  BY <1>13, <1>14 DEF RingInv
<1> QED BY <1>3, <1>6, <1>8, <1>9, <1>15

\* A write puts a package that fits behind the others.
LEMMA PutStep ==
  ASSUME RingOK, RingInv, NEW p, p.id \in Nat, p.len \in {Short, Long}, Fits(p),
         data' = RingWrite(RingWrite(data, pwrite, LengthWord(p.len)),
                           Advance(pwrite, Word), PackageBytes(p)),
         pwrite' = Advance(Advance(pwrite, Word), p.len),
         queue' = Append(queue, [id |-> p.id, len |-> p.len]),
         pread' = pread
  PROVE  /\ RingOK' /\ RingInv'
         /\ RingAvail(pread', pwrite') = RingAvail(pread, pwrite) + (Word + p.len)
<1>1. PICK o \in [1 .. (Len(queue) + 1) -> 0 .. (BufSize - 1)] : Layout(o)
  BY DEF RingInv
<1>2. PICK len \in Nat \ {0}, a \in 0 .. (BufSize - 1), p0 \in 0 .. (BufSize - 1), n \in Nat :
        /\ len = p.len /\ a = RingAvail(pread, pwrite) /\ p0 = pread
        /\ n = Len(queue)
  <2>1. p.len \in Nat \ {0}
    BY SizeFacts
  <2>2. Len(queue) \in Nat
    BY QueuedIs
  <2>3. RingAvail(pread, pwrite) \in 0 .. (BufSize - 1) /\ pread \in 0 .. (BufSize - 1)
    BY EmptyIs DEF RingOK
  <2> QED BY <2>1, <2>2, <2>3
<1>q. PICK q : q = [id |-> p.id, len |-> p.len]
  OBVIOUS
<1>3. a + Word + len < BufSize /\ a \in Nat
  <2>1. RingFree = BufSize - 1 - a /\ RingFree >= len + Word
    BY <1>2, FreeIs DEF RingOK, Fits
  <2> QED BY <2>1, SizeFacts
<1>4. /\ a + Word \in 0 .. (BufSize - 1) /\ a + Word + len \in 0 .. (BufSize - 1)
      /\ Word \in 0 .. (BufSize - 1) /\ len \in 0 .. (BufSize - 1)
  BY <1>3, SizeFacts
<1>5. Cell(p0, a) = pwrite
  BY <1>2, CellFacts DEF RingOK
<1>6. Advance(pwrite, Word) = Cell(p0, a + Word)
  <2>1. Advance(pwrite, Word) = Cell(pwrite, Word)
    BY <1>4, AdvanceIs DEF RingOK
  <2>2. Cell(Cell(p0, a), Word) = Cell(p0, a + Word)
    BY <1>3, CellFacts, SizeFacts
  <2> QED BY <1>5, <2>1, <2>2
<1>7. PICK w1 \in 0 .. (BufSize - 1) : w1 = Cell(p0, a + Word)
  BY <1>4, CellFacts
<1>8. pwrite' = Cell(p0, a + Word + len) /\ pwrite' \in 0 .. (BufSize - 1)
  <2>1. Advance(w1, len) = Cell(w1, len)
    BY <1>4, AdvanceIs
  <2>2. PICK aw \in Nat : aw = a + Word
    BY <1>4
  <2>3. Cell(Cell(p0, aw), len) = Cell(p0, aw + len)
    BY <1>3, <2>2, CellFacts
  <2>4. pwrite' = Cell(p0, a + Word + len)
    BY <1>2, <1>6, <1>7, <2>1, <2>2, <2>3
  <2> QED BY <1>4, <2>4, CellFacts
<1>9. RingAvail(pread', pwrite') = a + Word + len
  BY <1>2, <1>4, <1>8, CellFacts
<1>10. /\ queue' \in Seq(Queued)
       /\ Len(queue') = n + 1
       /\ \A i \in 1 .. n : queue'[i] = queue[i]
       /\ queue'[n + 1] = q
  <2> DEFINE S == Queued
  <2>1. queue \in Seq(S) /\ q \in S
    BY <1>q DEF RingOK, Queued
  <2> HIDE DEF S
  <2>2. /\ Append(queue, q) \in Seq(S)
        /\ Len(Append(queue, q)) = Len(queue) + 1
        /\ \A i \in 1 .. Len(queue) : Append(queue, q)[i] = queue[i]
        /\ Append(queue, q)[Len(queue) + 1] = q
    BY <2>1, AppendProperties
  <2>3. queue' \in Seq(S) /\ Len(queue') = n + 1
        /\ (\A i \in 1 .. n : queue'[i] = queue[i]) /\ queue'[n + 1] = q
    BY <1>2, <1>q, <2>2
  <2> QED BY <2>3 DEF S
<1>11. RingOK'
  BY <1>8, <1>10 DEF RingOK
<1>12. PICK e, lw, pb : /\ e = data' /\ lw = LengthWord(len) /\ pb = PackageBytes(p)
                        /\ Len(lw) = Word /\ Len(pb) = len
                        /\ \A k \in 1 .. len : pb[k] = PackageBytes(q)[k]
  <2>1. Len(LengthWord(len)) = Word
    BY LengthWordIs
  <2>2. Len(PackageBytes(p)) = len
    BY <1>2, PackageBytesIs
  <2>3. PackageBytes(q) = PackageBytes(p)
    BY <1>q DEF PackageBytes
  <2> QED BY <2>1, <2>2, <2>3
<1>13. /\ \A m \in 0 .. (a - 1) : e[Cell(p0, m)] = data[Cell(p0, m)]
       /\ \A k \in 1 .. Word : e[Cell(p0, a + k - 1)] = lw[k]
       /\ \A k \in 1 .. len : e[Cell(p0, a + Word + k - 1)] = pb[k]
  <2>1. e = RingWrite(RingWrite(data, Cell(p0, a), lw), Cell(p0, a + Word), pb)
    BY <1>2, <1>5, <1>6, <1>12
  <2>2. PICK d : d = data
    OBVIOUS
  <2>3. e = RingWrite(RingWrite(d, Cell(p0, a), lw), Cell(p0, a + Word), pb)
    BY <2>1, <2>2
  <2>4. /\ \A m \in 0 .. (a - 1) : e[Cell(p0, m)] = d[Cell(p0, m)]
        /\ \A k \in 1 .. Word : e[Cell(p0, a + k - 1)] = lw[k]
        /\ \A k \in 1 .. len : e[Cell(p0, a + Word + k - 1)] = pb[k]
    <3>1. Len(pb) \in Nat /\ Len(lw) = Word /\ a + Word + Len(pb) < BufSize /\ a \in Nat
      BY <1>3, <1>12
    <3>2. /\ \A m \in 0 .. (a - 1) : e[Cell(p0, m)] = d[Cell(p0, m)]
          /\ \A k \in 1 .. Word : e[Cell(p0, a + k - 1)] = lw[k]
          /\ \A k \in 1 .. Len(pb) : e[Cell(p0, a + Word + k - 1)] = pb[k]
      <4>1. PICK v0, v1 : v0 = Cell(p0, a) /\ v1 = Cell(p0, a + Word)
        OBVIOUS
      <4>2. e = RingWrite(RingWrite(d, v0, lw), v1, pb)
        BY <2>3, <4>1
      <4>3. Written(e, d, p0, a, lw, pb)
        BY <3>1, <4>1, <4>2, PutCells
      <4> QED BY <4>3 DEF Written
    <3>3. Len(pb) = len
      BY <1>12
    <3> QED BY <3>2, <3>3
  <2> QED BY <2>2, <2>4
<1>14. /\ \A i \in 1 .. (n + 1) : o[i] \in 0 .. (BufSize - 1)
       /\ o[1] = 0 /\ o[n + 1] = a
       /\ \A i, j \in 1 .. (n + 1) : i <= j => o[i] <= o[j]
       /\ \A i \in 1 .. n :
            /\ o[i + 1] = o[i] + Word + queue[i].len
            /\ \A k \in 1 .. Word :
                 data[Cell(p0, o[i] + k - 1)] = LengthWord(queue[i].len)[k]
            /\ \A k \in 1 .. queue[i].len :
                 data[Cell(p0, o[i] + Word + k - 1)] = PackageBytes(queue[i])[k]
  BY <1>1, <1>2 DEF Layout
<1> DEFINE h == [i \in 1 .. (n + 2) |-> IF i <= n + 1 THEN o[i] ELSE a + Word + len]
<1>15. /\ \A i \in 1 .. (n + 1) : h[i] = o[i]
       /\ h[n + 2] = a + Word + len
       /\ h \in [1 .. (n + 2) -> 0 .. (BufSize - 1)]
  <2>1. n + 2 \in 1 .. (n + 2) /\ ~(n + 2 <= n + 1)
    OBVIOUS
  <2>2. \A i \in 1 .. (n + 1) : i \in 1 .. (n + 2) /\ i <= n + 1
    OBVIOUS
  <2>3. \A i \in 1 .. (n + 2) : i <= n + 1 => i \in 1 .. (n + 1)
    OBVIOUS
  <2> QED BY <1>4, <1>14, <2>1, <2>2, <2>3
<1> HIDE DEF h
<1>16. h \in [1 .. (Len(queue') + 1) -> 0 .. (BufSize - 1)] /\ Len(queue') + 1 = n + 2
       /\ Len(queue') = n + 1
  <2>1. Len(queue') + 1 = n + 2
    BY <1>10
  <2> QED BY <1>10, <1>15, <2>1
<1>17. h[1] = 0
  BY <1>14, <1>15
<1>18. h[Len(queue') + 1] = RingAvail(pread', pwrite')
  BY <1>9, <1>15, <1>16
<1>19. \A i, j \in 1 .. (n + 2) : i <= j => h[i] <= h[j]
  <2> SUFFICES ASSUME NEW i \in 1 .. (n + 2), NEW j \in 1 .. (n + 2), i <= j
               PROVE  h[i] <= h[j]
    OBVIOUS
  <2>1. CASE j <= n + 1
    <3>1. i \in 1 .. (n + 1) /\ j \in 1 .. (n + 1)
      BY <2>1
    <3> QED BY <1>14, <1>15, <3>1
  <2>2. CASE i <= n + 1 /\ ~(j <= n + 1)
    <3>1. i \in 1 .. (n + 1) /\ j = n + 2 /\ n + 1 \in 1 .. (n + 1) /\ i <= n + 1
      BY <2>2
    <3>2. o[i] <= a /\ o[i] \in Nat
      BY <1>14, <3>1
    <3> QED BY <1>15, <3>1, <3>2, SizeFacts
  <2>3. CASE ~(i <= n + 1)
    <3>1. i = j
      BY <2>3
    <3>2. h[i] \in Nat
      BY <1>4, <1>15
    <3> QED BY <3>1, <3>2
  <2> QED BY <2>1, <2>2, <2>3
<1>20. ASSUME NEW i \in 1 .. (n + 1)
       PROVE  /\ h[i + 1] = h[i] + Word + queue'[i].len
              /\ \A k \in 1 .. Word :
                   e[Cell(p0, h[i] + k - 1)] = LengthWord(queue'[i].len)[k]
              /\ \A k \in 1 .. queue'[i].len :
                   e[Cell(p0, h[i] + Word + k - 1)] = PackageBytes(queue'[i])[k]
  <2>1. CASE i = n + 1
    <3>1. h[i] = a /\ h[i + 1] = a + Word + len /\ queue'[i] = q /\ q.len = len
      BY <1>2, <1>10, <1>14, <1>15, <1>q, <2>1
    <3>2. \A k \in 1 .. len : e[Cell(p0, a + Word + k - 1)] = PackageBytes(q)[k]
      <4> SUFFICES ASSUME NEW k \in 1 .. len
                   PROVE  e[Cell(p0, a + Word + k - 1)] = PackageBytes(q)[k]
        OBVIOUS
      <4>1. e[Cell(p0, a + Word + k - 1)] = pb[k]
        BY <1>13, Zenon
      <4>2. pb[k] = PackageBytes(q)[k]
        BY <1>12, Zenon
      <4> QED BY <4>1, <4>2, Zenon
    <3>3. \A k \in 1 .. Word : e[Cell(p0, a + k - 1)] = LengthWord(len)[k]
      BY <1>12, <1>13, Zenon
    <3>4. /\ h[i + 1] = a + Word + q.len
          /\ \A k \in 1 .. Word : e[Cell(p0, a + k - 1)] = LengthWord(q.len)[k]
          /\ \A k \in 1 .. q.len : e[Cell(p0, a + Word + k - 1)] = PackageBytes(q)[k]
      BY <3>1, <3>2, <3>3
    <3> QED BY <3>1, <3>4
  <2>2. CASE i \in 1 .. n
    <3>1. i + 1 \in 1 .. (n + 1) /\ i \in 1 .. (n + 1) /\ n + 1 \in 1 .. (n + 1) /\ i + 1 <= n + 1
      BY <2>2
    <3>2. queue'[i] = queue[i]
      BY <1>10, <2>2
    <3>3. PICK oi \in Nat, ml \in Nat \ {0}, on \in Nat :
             oi = o[i] /\ ml = queue[i].len /\ on = o[i + 1]
      <4>1. queue[i].len \in Nat \ {0}
        BY <1>2, <2>2, QueuedIs
      <4>2. o[i] \in 0 .. (BufSize - 1) /\ o[i + 1] \in 0 .. (BufSize - 1)
        BY <1>14, <3>1, Zenon
      <4>3. \A x \in 0 .. (BufSize - 1) : x \in Nat
        OBVIOUS
      <4> QED BY <4>1, <4>2, <4>3, Zenon
    <3>4. on = oi + Word + ml /\ on <= a /\ h[i] = oi /\ h[i + 1] = on
      BY <1>14, <1>15, <2>2, <3>1, <3>3
    <3>5. ASSUME NEW k \in 1 .. Word
          PROVE  e[Cell(p0, oi + k - 1)] = LengthWord(ml)[k]
      <4>1. oi + k - 1 \in 0 .. (a - 1)
        BY <3>4, SizeFacts
      <4>2. data[Cell(p0, oi + k - 1)] = LengthWord(ml)[k]
        BY <1>14, <2>2, <3>3
      <4> QED BY <1>13, <4>1, <4>2
    <3>6. ASSUME NEW k \in 1 .. ml
          PROVE  e[Cell(p0, oi + Word + k - 1)] = PackageBytes(queue[i])[k]
      <4>1. oi + Word + k - 1 \in 0 .. (a - 1)
        BY <3>4, SizeFacts
      <4>2. data[Cell(p0, oi + Word + k - 1)] = PackageBytes(queue[i])[k]
        BY <1>14, <2>2, <3>3
      <4> QED BY <1>13, <4>1, <4>2
    <3> QED BY <3>2, <3>3, <3>4, <3>5, <3>6
  <2>3. i = n + 1 \/ i \in 1 .. n
    OBVIOUS
  <2> QED BY <2>1, <2>2, <2>3
<1>21. Layout(h)' <=>
         /\ h[1] = 0
         /\ h[Len(queue') + 1] = RingAvail(pread', pwrite')
         /\ \A i, j \in 1 .. (Len(queue') + 1) : i <= j => h[i] <= h[j]
         /\ \A i \in 1 .. Len(queue') :
              /\ h[i + 1] = h[i] + Word + queue'[i].len
              /\ \A k \in 1 .. Word :
                   data'[Cell(pread', h[i] + k - 1)] = LengthWord(queue'[i].len)[k]
              /\ \A k \in 1 .. queue'[i].len :
                   data'[Cell(pread', h[i] + Word + k - 1)] = PackageBytes(queue'[i])[k]
  BY Zenon DEF Layout
<1>22. \A i \in 1 .. Len(queue') :
         /\ h[i + 1] = h[i] + Word + queue'[i].len
         /\ \A k \in 1 .. Word :
              data'[Cell(pread', h[i] + k - 1)] = LengthWord(queue'[i].len)[k]
         /\ \A k \in 1 .. queue'[i].len :
              data'[Cell(pread', h[i] + Word + k - 1)] = PackageBytes(queue'[i])[k]
  <2>1. data' = e /\ pread' = p0 /\ 1 .. Len(queue') = 1 .. (n + 1)
    BY <1>2, <1>12, <1>16
  <2> SUFFICES ASSUME NEW i \in 1 .. Len(queue')
               PROVE  /\ h[i + 1] = h[i] + Word + queue'[i].len
                      /\ \A k \in 1 .. Word :
                           e[Cell(p0, h[i] + k - 1)] = LengthWord(queue'[i].len)[k]
                      /\ \A k \in 1 .. queue'[i].len :
                           e[Cell(p0, h[i] + Word + k - 1)] = PackageBytes(queue'[i])[k]
    BY <2>1
  <2>2. i \in 1 .. (n + 1)
    BY <2>1
  <2> QED BY <1>20, <2>2
<1>23. \A i, j \in 1 .. (Len(queue') + 1) : i <= j => h[i] <= h[j]
  BY <1>16, <1>19
<1>24. RingInv'
  BY <1>16, <1>17, <1>18, <1>21, <1>22, <1>23 DEF RingInv
<1>25. RingAvail(pread', pwrite') = RingAvail(pread, pwrite) + (Word + p.len)
  <2>1. a + Word + len = a + (Word + len)
    BY <1>3, SizeFacts
  <2> QED BY <1>2, <1>9, <2>1
<1> QED BY <1>11, <1>24, <1>25

-----------------------------------------------------------------------------
(* The stream and the reordering.                                          *)

\* What the ring needs holds.
LEMMA DataIsRing ==
  ASSUME TypeOK, DataOK
  PROVE  RingOK
BY DEF TypeOK, DataOK, RingOK

LEMMA StreamFacts ==
  /\ MaxPictures \in Nat /\ MaxPocCache \in Nat /\ Gap \in Nat /\ Gap >= 2
  /\ Gap = 2 * MaxPictures + 2
  /\ \A st \in {"frame"} \cup FirstFields : st \in {"frame", "top", "bottom"}
  /\ Opposite("frame") = "none" /\ Opposite("top") = "bottom" /\ Opposite("bottom") = "top"
BY StreamAssumption, PocCacheAssumption DEF Gap, Opposite

LEMMA MulNat ==
  ASSUME NEW a \in Nat, NEW b \in Nat
  PROVE  a * b \in Nat
OBVIOUS

\* The second field of a picture.
FieldFollows(p, t) ==
  /\ stream.due # "none"
  /\ p.type = stream.type /\ p.st = stream.due /\ p.id = stream.last + 1
  /\ t.ref = stream.ref /\ t.b = stream.b /\ t.due = "none" /\ t.type = stream.type

\* The first field of a picture, or the whole of it.
PictureFollows(p, t) ==
  /\ stream.due = "none" /\ p.st \in {"frame"} \cup FirstFields
  /\ p.type = "I" => /\ t.ref = stream.ref + 1 /\ t.b = 0
                     /\ p.id = Gap * (stream.ref + 1)
  /\ p.type = "B" => /\ t.ref = stream.ref /\ t.b = stream.b + 1
                     /\ p.id = Gap * (stream.ref - 1) + 2 * (stream.b + 1)
  /\ t.due = Opposite(p.st) /\ t.type = p.type /\ t.last = p.id

\* A picture of an H.264 stream.
BlockFollows(p, t) ==
  /\ \/ p.poc = 0 /\ t.ref = stream.ref + 1 /\ t.seen = {0}
     \/ /\ p.poc \in (1 .. MaxPictures) \ stream.seen
        /\ Cardinality({s \in stream.seen : s > p.poc}) <= MaxPocCache
        /\ t.ref = stream.ref /\ t.seen = stream.seen \cup {p.poc}
  /\ p.id = Gap * t.ref + p.poc

\* What a package of the stream is, and how the stream goes on.
LEMMA PictureIs ==
  ASSUME stream \in StreamRec, stream.n < MaxPictures, stream.b <= stream.n,
         NEW f \in {"mpeg", "h264"}, NEW x \in NextPictures(f),
         NEW p, p = x.p, NEW t, t = x.stream
  PROVE  /\ p \in Package /\ t \in StreamRec
         /\ t.n = stream.n + 1 /\ t.b <= t.n /\ t.sent = stream.sent \cup {p.id}
         /\ f = "mpeg" => FieldFollows(p, t) \/ PictureFollows(p, t)
         /\ f = "h264" => BlockFollows(p, t)
<1>1. /\ stream.n \in 0 .. MaxPictures /\ stream.ref \in Nat /\ stream.ref > 0
      /\ stream.b \in Nat /\ stream.due \in {"none", "top", "bottom"}
      /\ stream.type \in {"I", "B"} /\ stream.last \in Nat
      /\ stream.seen \subseteq 0 .. MaxPictures /\ stream.sent \subseteq Nat
      /\ stream.n + 1 \in 0 .. MaxPictures /\ stream.n \in Nat
      /\ stream.ref + 1 \in Nat \ {0} /\ stream.ref - 1 \in Nat
  BY StreamFacts DEF StreamRec
<1>2. stream = [n |-> stream.n, ref |-> stream.ref, b |-> stream.b, due |-> stream.due,
                type |-> stream.type, last |-> stream.last, seen |-> stream.seen,
                sent |-> stream.sent]
  BY DEF StreamRec
<1>3. CASE f = "mpeg" /\ stream.due # "none"
  <2>1. x = MpegSecond
    BY <1>3 DEF NextPictures
  <2>2. p = Picture(stream.type, stream.due, 0, stream.last + 1)
    BY <2>1 DEF MpegSecond
  <2>3. t = [n |-> stream.n + 1, ref |-> stream.ref, b |-> stream.b, due |-> "none",
             type |-> stream.type, last |-> stream.last + 1, seen |-> stream.seen,
             sent |-> stream.sent \cup {stream.last + 1}]
    BY <1>2, <2>1 DEF MpegSecond, Sent
  <2>4. p \in Package /\ p.id = stream.last + 1 /\ p.type = stream.type /\ p.st = stream.due
    BY <1>1, <1>3, <2>2 DEF Picture, Package
  <2>5. t \in StreamRec
    BY <1>1, <2>3 DEF StreamRec
  <2>6. t.n = stream.n + 1 /\ t.b <= t.n /\ t.sent = stream.sent \cup {p.id}
    BY <1>1, <2>3, <2>4
  <2> QED BY <1>3, <2>3, <2>4, <2>5, <2>6 DEF FieldFollows
<1>4. CASE f = "mpeg" /\ stream.due = "none"
  <2>1. PICK type \in {"I", "B"}, st \in {"frame"} \cup FirstFields : x = MpegFirst(type, st)
    BY <1>4 DEF NextPictures
  <2>2. PICK ref \in Nat \ {0}, b \in Nat, id \in Nat :
          /\ ref = IF type = "I" THEN stream.ref + 1 ELSE stream.ref
          /\ b = IF type = "I" THEN 0 ELSE stream.b + 1
          /\ id = IF type = "I" THEN Gap * ref ELSE Gap * (ref - 1) + 2 * b
    <3>1. CASE type = "I"
      <4>1. Gap * (stream.ref + 1) \in Nat
        BY <1>1, StreamFacts, MulNat
      <4> QED BY <1>1, <3>1, <4>1
    <3>2. CASE type # "I"
      <4>1. Gap * (stream.ref - 1) \in Nat
        BY <1>1, StreamFacts, MulNat
      <4>2. Gap * (stream.ref - 1) + 2 * (stream.b + 1) \in Nat /\ stream.b + 1 \in Nat
        BY <1>1, <4>1
      <4> QED BY <1>1, <3>2, <4>2
    <3> QED BY <3>1, <3>2
  <2>3. p = Picture(type, st, 0, id)
    BY <2>1, <2>2 DEF MpegFirst
  <2>4. t = [n |-> stream.n + 1, ref |-> ref, b |-> b, due |-> Opposite(st),
             type |-> type, last |-> id, seen |-> stream.seen,
             sent |-> stream.sent \cup {id}]
    BY <1>2, <2>1, <2>2 DEF MpegFirst, Sent
  <2>5. st \in {"frame", "top", "bottom"} /\ Opposite(st) \in {"none", "top", "bottom"}
    BY StreamFacts
  <2>6. p \in Package /\ p.id = id /\ p.type = type /\ p.st = st
    BY <2>3, <2>5 DEF Picture, Package
  <2>7. t \in StreamRec
    BY <1>1, <2>4, <2>5 DEF StreamRec
  <2>8. b <= stream.n + 1
    BY <1>1, <2>2
  <2>9. t.n = stream.n + 1 /\ t.b <= t.n /\ t.sent = stream.sent \cup {p.id}
    BY <2>4, <2>6, <2>8
  <2>10. PictureFollows(p, t)
    BY <1>4, <2>2, <2>4, <2>6 DEF PictureFollows
  <2> QED BY <1>4, <2>6, <2>7, <2>9, <2>10
<1>5. CASE f = "h264"
  <2>1. PICK poc \in {0} \cup {q \in (1 .. MaxPictures) \ stream.seen :
                        Cardinality({s \in stream.seen : s > q}) <= MaxPocCache} :
          x = H264Picture(poc)
    BY <1>5 DEF NextPictures
  <2>2. poc \in Nat /\ poc \in 0 .. MaxPictures
    BY <2>1, StreamFacts
  <2>a. PICK ref \in Nat \ {0} : ref = IF poc = 0 THEN stream.ref + 1 ELSE stream.ref
    BY <1>1
  <2>b. PICK id \in Nat : id = Gap * ref + poc
    BY <2>2, StreamFacts, MulNat
  <2>c. PICK type \in {"I", "B"} : type = IF poc = 0 THEN "I" ELSE "B"
    OBVIOUS
  <2>d. PICK seen \in SUBSET (0 .. MaxPictures) :
          seen = IF poc = 0 THEN {0} ELSE stream.seen \cup {poc}
    <3>1. {0} \in SUBSET (0 .. MaxPictures) /\ stream.seen \cup {poc} \in SUBSET (0 .. MaxPictures)
      BY <1>1, <2>2, StreamFacts
    <3> QED BY <3>1
  <2>3. /\ ref = IF poc = 0 THEN stream.ref + 1 ELSE stream.ref
        /\ id = Gap * ref + poc
        /\ type = IF poc = 0 THEN "I" ELSE "B"
        /\ seen = IF poc = 0 THEN {0} ELSE stream.seen \cup {poc}
    BY <2>a, <2>b, <2>c, <2>d
  <2>4. p = Picture(type, "frame", poc, id)
    BY <2>1, <2>3 DEF H264Picture
  <2>5. t = [n |-> stream.n + 1, ref |-> ref, b |-> stream.b, due |-> stream.due,
             type |-> stream.type, last |-> id, seen |-> seen,
             sent |-> stream.sent \cup {id}]
    BY <1>2, <2>1, <2>3 DEF H264Picture, Sent
  <2>6. p \in Package /\ p.id = id /\ p.poc = poc
    BY <2>2, <2>4 DEF Picture, Package
  <2>7. t \in StreamRec
    BY <1>1, <2>5 DEF StreamRec
  <2>8. t.n = stream.n + 1 /\ t.b <= t.n /\ t.sent = stream.sent \cup {p.id}
    BY <1>1, <2>5, <2>6
  <2>9. BlockFollows(p, t)
    <3>1. CASE poc = 0
      BY <2>3, <2>5, <2>6, <3>1 DEF BlockFollows
    <3>2. CASE poc # 0
      <4>1. /\ poc \in (1 .. MaxPictures) \ stream.seen
            /\ Cardinality({s \in stream.seen : s > poc}) <= MaxPocCache
        BY <2>1, <3>2
      <4>2. t.ref = stream.ref /\ t.seen = stream.seen \cup {poc} /\ t.ref = ref
        BY <2>3, <2>5, <3>2
      <4> QED BY <2>3, <2>6, <4>1, <4>2 DEF BlockFollows
    <3> QED BY <3>1, <3>2
  <2> QED BY <1>5, <2>6, <2>7, <2>8, <2>9
<1> QED BY <1>3, <1>4, <1>5

\* The least number of a set.
LEMMA NatMin ==
  ASSUME NEW T \in SUBSET Nat, T # {}
  PROVE  \E x \in T : \A y \in T : x <= y
<1> DEFINE R == OpToRel(<, Nat)
<1>1. IsWellFoundedOn(R, Nat)
  BY NatLessThanWellFounded
<1> HIDE DEF R
<1>2. PICK x \in T : \A y \in T : ~(<<y, x>> \in R)
  BY <1>1, WFMin
<1>3. ASSUME NEW y \in T PROVE x <= y
  <2>1. R = {ss \in Nat \X Nat : ss[1] < ss[2]}
    BY DEF R, OpToRel
  <2>2. ~(y < x)
    BY <1>2, <2>1
  <2> QED BY <2>2
<1> QED BY <1>3

\* aml_h264_userdata_push finds a block with the least order count.
LEMMA MinPocIs ==
  ASSUME NEW s \in Seq(Package), s # <<>>
  PROVE  /\ MinPoc(s) \in 1 .. Len(s)
         /\ \A j \in 1 .. Len(s) : s[MinPoc(s)].poc <= s[j].poc
<1> DEFINE P == Package
<1>1. /\ Len(s) \in Nat /\ Len(s) > 0 /\ DOMAIN s = 1 .. Len(s)
      /\ \A j \in 1 .. Len(s) : s[j] \in P
  <2> HIDE DEF P
  <2>1. s \in Seq(P)
    BY DEF P
  <2> QED BY <2>1, EmptySeq, LenProperties, ElementOfSeq
<1>2. \A j \in 1 .. Len(s) : s[j].poc \in Nat
  BY <1>1 DEF Package
<1> DEFINE T == {s[j].poc : j \in 1 .. Len(s)}
<1>3. PICK m \in T : \A y \in T : m <= y
  <2>1. T \in SUBSET Nat /\ T # {}
    BY <1>1, <1>2
  <2> QED BY <2>1, NatMin
<1> DEFINE U == {j \in 1 .. Len(s) : s[j].poc = m}
<1>4. PICK i \in U : \A y \in U : i <= y
  <2>1. U \in SUBSET Nat /\ U # {}
    BY <1>3
  <2> QED BY <2>1, NatMin
<1>5. i \in DOMAIN s /\ \A j \in DOMAIN s : s[i].poc <= s[j].poc
  BY <1>1, <1>3, <1>4
<1>6. ASSUME NEW j \in 1 .. (i - 1) PROVE s[j].poc # s[i].poc
  <2>1. j \in 1 .. Len(s) /\ ~(i <= j) /\ i \in 1 .. Len(s)
    BY <1>1, <1>4
  <2> QED BY <1>4, <2>1
<1> HIDE DEF T, U
<1>7. /\ MinPoc(s) \in DOMAIN s
      /\ \A j \in DOMAIN s : s[MinPoc(s)].poc <= s[j].poc
  BY <1>5, <1>6 DEF MinPoc
<1> QED BY <1>1, <1>7

\* A sequence without one of its elements.
LEMMA RemoveAtIs ==
  ASSUME NEW S, NEW s \in Seq(S), NEW i \in 1 .. Len(s)
  PROVE  /\ RemoveAt(s, i) \in Seq(S)
         /\ Len(RemoveAt(s, i)) = Len(s) - 1
         /\ \A j \in 1 .. (Len(s) - 1) :
              RemoveAt(s, i)[j] = IF j < i THEN s[j] ELSE s[j + 1]
<1>1. PICK n \in Nat : n = Len(s) /\ i \in 1 .. n /\ \A j \in 1 .. n : s[j] \in S
  BY LenProperties, ElementOfSeq
<1>2. PICK u : u = SubSeq(s, 1, i - 1)
  OBVIOUS
<1>3. PICK v : v = SubSeq(s, i + 1, n)
  OBVIOUS
<1>4. /\ u \in Seq(S) /\ Len(u) = i - 1
      /\ \A j \in 1 .. (i - 1) : u[j] = s[j]
  <2>1. CASE i = 1
    <3>1. u = <<>>
      BY <1>2, <2>1, SubSeqEmpty
    <3> QED BY <2>1, <3>1, EmptySeq
  <2>2. CASE i # 1
    <3>1. 1 \in 1 .. (n + 1) /\ i - 1 \in 1 .. n /\ 1 <= i - 1 + 1 /\ i - 1 \in 0 .. n
      BY <1>1, <2>2
    <3>2. /\ SubSeq(s, 1, i - 1) \in Seq(S)
          /\ Len(SubSeq(s, 1, i - 1)) =
               IF 1 <= i - 1 THEN i - 1 - 1 + 1 ELSE 0
          /\ \A j \in 1 .. (i - 1 - 1 + 1) : SubSeq(s, 1, i - 1)[j] = s[1 + j - 1]
      BY <1>1, <3>1, SubSeqProperties
    <3> QED BY <1>1, <1>2, <2>2, <3>1, <3>2
  <2> QED BY <2>1, <2>2
<1>5. /\ v \in Seq(S) /\ Len(v) = n - i
      /\ \A j \in 1 .. (n - i) : v[j] = s[i + j]
  <2>1. CASE i = n
    <3>1. v = <<>>
      BY <1>1, <1>3, <2>1, SubSeqEmpty
    <3> QED BY <1>1, <2>1, <3>1, EmptySeq
  <2>2. CASE i # n
    <3>1. i + 1 \in 1 .. (n + 1) /\ n \in 0 .. n /\ i + 1 <= n
      BY <1>1, <2>2
    <3>2. /\ SubSeq(s, i + 1, n) \in Seq(S)
          /\ Len(SubSeq(s, i + 1, n)) =
               IF i + 1 <= n THEN n - (i + 1) + 1 ELSE 0
          /\ \A j \in 1 .. (n - (i + 1) + 1) : SubSeq(s, i + 1, n)[j] = s[i + 1 + j - 1]
      BY <1>1, <3>1, SubSeqProperties
    <3> QED BY <1>1, <1>3, <2>2, <3>1, <3>2
  <2> QED BY <2>1, <2>2
<1>6. RemoveAt(s, i) = u \o v
  BY <1>1, <1>2, <1>3 DEF RemoveAt
<1>7. /\ u \o v \in Seq(S) /\ Len(u \o v) = Len(u) + Len(v)
      /\ \A j \in 1 .. (Len(u) + Len(v)) :
           (u \o v)[j] = IF j <= Len(u) THEN u[j] ELSE v[j - Len(u)]
  BY <1>4, <1>5, ConcatProperties
<1>8. ASSUME NEW j \in 1 .. (n - 1)
      PROVE  (u \o v)[j] = IF j < i THEN s[j] ELSE s[j + 1]
  <2>1. j \in 1 .. (Len(u) + Len(v))
    BY <1>1, <1>4, <1>5
  <2>2. (u \o v)[j] = IF j <= i - 1 THEN u[j] ELSE v[j - (i - 1)]
    BY <1>4, <1>7, <2>1
  <2>3. CASE j < i
    <3>1. j \in 1 .. (i - 1) /\ j <= i - 1
      BY <1>1, <2>3
    <3> QED BY <1>4, <2>2, <2>3, <3>1
  <2>4. CASE ~(j < i)
    <3>1. ~(j <= i - 1) /\ j - (i - 1) \in 1 .. (n - i) /\ i + (j - (i - 1)) = j + 1
      BY <1>1, <2>4
    <3> QED BY <1>5, <2>2, <2>4, <3>1
  <2> QED BY <2>3, <2>4
<1>9. Len(u) + Len(v) = n - 1
  BY <1>1, <1>4, <1>5
<1> QED BY <1>1, <1>6, <1>7, <1>8, <1>9

\* aml_reorder_user_data, case by case.
MpegTable(v, p, r) ==
  \/ p.type = "B" /\ v.mask < 3 /\ r.out = <<>> /\ r.vd.mask = 0 /\ r.vd.buf = v.buf
  \/ p.type = "B" /\ v.mask >= 3 /\ r.out = <<p>> /\ r.vd = v
  \/ /\ p.type = "I" /\ p.st = "frame" /\ r.vd.mask = 4 /\ r.vd.buf[1] = p
     /\ \/ v.mask = 0 /\ r.out = <<>>
        \/ v.mask \in {1, 4} /\ r.out = <<v.buf[1]>>
        \/ v.mask = 2 /\ r.out = <<v.buf[2]>>
        \/ v.mask = 3 /\ r.out = <<v.buf[1], v.buf[2]>>
  \/ /\ p.type = "I" /\ p.st = "top" /\ r.vd.buf[1] = p /\ r.vd.buf[2] = v.buf[2]
     /\ \/ v.mask \in {0, 1} /\ r.vd.mask = 1 /\ r.out = <<>>
        \/ v.mask = 2 /\ r.vd.mask = 3 /\ r.out = <<>>
        \/ v.mask = 3 /\ r.vd.mask = 3 /\ r.out = <<v.buf[1]>>
        \/ v.mask = 4 /\ r.vd.mask = 1 /\ r.out = <<v.buf[1]>>
  \/ /\ p.type = "I" /\ p.st = "bottom" /\ r.vd.buf[2] = p /\ r.vd.buf[1] = v.buf[1]
     /\ \/ v.mask \in {0, 2} /\ r.vd.mask = 2 /\ r.out = <<>>
        \/ v.mask = 1 /\ r.vd.mask = 3 /\ r.out = <<>>
        \/ v.mask = 3 /\ r.vd.mask = 3 /\ r.out = <<v.buf[2]>>
        \/ v.mask = 4 /\ r.vd.mask = 2 /\ r.out = <<v.buf[1]>>

\* What may be held.
HeldOK(v) ==
  /\ v \in HeldRec
  /\ HoldsFirst(v.mask) => v.buf[1] \in Package
  /\ HoldsBottom(v.mask) => v.buf[2] \in Package

LEMMA FlushIs ==
  ASSUME NEW v, v.mask \in 0 .. 4
  PROVE  Flush(v) = CASE v.mask = 0 -> <<>>
                      [] v.mask \in {1, 4} -> <<v.buf[1]>>
                      [] v.mask = 2 -> <<v.buf[2]>>
                      [] v.mask = 3 -> <<v.buf[1], v.buf[2]>>
<1>1. v.mask = 0 \/ v.mask = 1 \/ v.mask = 2 \/ v.mask = 3 \/ v.mask = 4
  OBVIOUS
<1>2. ASSUME NEW a, NEW b
      PROVE  /\ <<>> \o <<>> = <<>> /\ <<a>> \o <<>> = <<a>> /\ <<>> \o <<b>> = <<b>>
             /\ <<a>> \o <<b>> = <<a, b>>
  <2>1. <<a>> \in Seq({a, b}) /\ <<b>> \in Seq({a, b}) /\ <<>> \in Seq({a, b})
    BY EmptySeq
  <2>2. <<>> \o <<>> = <<>> /\ <<a>> \o <<>> = <<a>> /\ <<>> \o <<b>> = <<b>>
    BY <2>1, ConcatEmptySeq
  <2>3. <<a>> \o <<b>> = <<a, b>>
    <3>1. /\ <<a>> \o <<b>> \in Seq({a, b})
          /\ Len(<<a>> \o <<b>>) = Len(<<a>>) + Len(<<b>>)
          /\ \A i \in 1 .. Len(<<a>>) + Len(<<b>>) : (<<a>> \o <<b>>)[i] =
               IF i <= Len(<<a>>) THEN <<a>>[i] ELSE <<b>>[i - Len(<<a>>)]
      BY <2>1, ConcatProperties
    <3>2. <<a, b>> \in Seq({a, b}) /\ Len(<<a, b>>) = 2 /\ Len(<<a>> \o <<b>>) = 2
      BY <3>1
    <3>3. (<<a>> \o <<b>>)[1] = a /\ (<<a>> \o <<b>>)[2] = b
      BY <3>1
    <3>4. PICK s, u : s = <<a>> \o <<b>> /\ u = <<a, b>>
      OBVIOUS
    <3>5. /\ s \in Seq({a, b}) /\ u \in Seq({a, b}) /\ Len(s) = Len(u)
          /\ \A i \in 1 .. Len(s) : s[i] = u[i]
      <4>1. Len(s) = 2 /\ s[1] = a /\ s[2] = b /\ u[1] = a /\ u[2] = b /\ Len(u) = 2
        BY <3>2, <3>3, <3>4
      <4>2. \A i \in 1 .. Len(s) : i = 1 \/ i = 2
        BY <4>1
      <4> QED BY <3>1, <3>2, <3>4, <4>1, <4>2
    <3>6. s = u
      BY <3>5, SeqEqual
    <3> QED BY <3>4, <3>6
  <2> QED BY <2>2, <2>3
<1>3. CASE v.mask = 0
  BY <1>2, <1>3 DEF Flush, HoldsFirst, HoldsBottom
<1>4. CASE v.mask \in {1, 4}
  <2>0. HoldsFirst(v.mask) /\ ~HoldsBottom(v.mask)
    BY <1>4 DEF HoldsFirst, HoldsBottom
  <2>1. Flush(v) = <<v.buf[1]>> \o <<>>
    BY <2>0, Zenon DEF Flush
  <2> QED BY <1>2, <1>4, <2>1
<1>5. CASE v.mask = 2
  BY <1>2, <1>5 DEF Flush, HoldsFirst, HoldsBottom
<1>6. CASE v.mask = 3
  <2>1. Flush(v) = <<v.buf[1]>> \o <<v.buf[2]>>
    BY <1>6 DEF Flush, HoldsFirst, HoldsBottom
  <2> QED BY <1>2, <1>6, <2>1
<1> QED BY <1>1, <1>3, <1>4, <1>5, <1>6

LEMMA MpegIs ==
  ASSUME NEW v, HeldOK(v), NEW p \in Package, NEW r, r = ReorderMpeg(v, p)
  PROVE  MpegTable(v, p, r) /\ HeldOK(r.vd) /\ r.out \in Seq(Package)
<1>1. /\ v.mask \in 0 .. 4 /\ v.buf \in [1 .. 2 -> Package \cup {NoPackage}]
      /\ v = [mask |-> v.mask, buf |-> v.buf]
      /\ v.mask = 0 \/ v.mask = 1 \/ v.mask = 2 \/ v.mask = 3 \/ v.mask = 4
  <2>1. v.mask \in 0 .. 4 /\ v.buf \in [1 .. 2 -> Package \cup {NoPackage}]
        /\ v = [mask |-> v.mask, buf |-> v.buf]
    BY DEF HeldOK, HeldRec
  <2> QED BY <2>1
<1>2. p.type \in {"I", "B"} /\ p.st \in {"frame", "top", "bottom"}
  BY DEF Package
<1>3. PICK v1 : v1 = [v.buf EXCEPT ![1] = p]
  OBVIOUS
<1>4. PICK v2 : v2 = [v.buf EXCEPT ![2] = p]
  OBVIOUS
<1>5. /\ v1 \in [1 .. 2 -> Package \cup {NoPackage}] /\ v1[1] = p /\ v1[2] = v.buf[2]
      /\ v2 \in [1 .. 2 -> Package \cup {NoPackage}] /\ v2[2] = p /\ v2[1] = v.buf[1]
  <2> DEFINE S == Package \cup {NoPackage}
  <2>1. v.buf \in [1 .. 2 -> S] /\ p \in S
    BY <1>1
  <2> HIDE DEF S
  <2>2. /\ v1 \in [1 .. 2 -> S] /\ v1[1] = p /\ v1[2] = v.buf[2]
        /\ v2 \in [1 .. 2 -> S] /\ v2[2] = p /\ v2[1] = v.buf[1]
    BY <1>3, <1>4, <2>1
  <2> QED BY <2>2 DEF S
<1>a. /\ <<>> \in Seq(Package)
      /\ v.mask \in {1, 3, 4} => <<v.buf[1]>> \in Seq(Package)
      /\ v.mask \in {2, 3} => <<v.buf[2]>> \in Seq(Package)
      /\ v.mask = 3 => <<v.buf[1], v.buf[2]>> \in Seq(Package)
  <2> DEFINE S == Package
  <2>1. /\ v.mask \in {1, 3, 4} => v.buf[1] \in S
        /\ v.mask \in {2, 3} => v.buf[2] \in S
    BY DEF HeldOK, HoldsFirst, HoldsBottom
  <2> HIDE DEF S
  <2>2. /\ <<>> \in Seq(S)
        /\ v.mask \in {1, 3, 4} => <<v.buf[1]>> \in Seq(S)
        /\ v.mask \in {2, 3} => <<v.buf[2]>> \in Seq(S)
        /\ v.mask = 3 => <<v.buf[1], v.buf[2]>> \in Seq(S)
    BY <2>1, EmptySeq
  <2> QED BY <2>2 DEF S
<1>6. CASE p.type = "B"
  <2>1. r = BPicture(v, p)
    BY <1>6 DEF ReorderMpeg
  <2>2. CASE v.mask < 3
    <3>1. r.out = <<>> /\ r.vd = [mask |-> 0, buf |-> v.buf]
      BY <1>1, <2>1, <2>2 DEF BPicture
    <3>2. HeldOK(r.vd)
      BY <1>1, <3>1 DEF HeldOK, HeldRec, HoldsFirst, HoldsBottom
    <3>3. r.out \in Seq(Package)
      BY <3>1, EmptySeq
    <3> QED BY <1>6, <2>2, <3>1, <3>2, <3>3 DEF MpegTable
  <2>3. CASE ~(v.mask < 3)
    <3>1. r.out = <<p>> /\ r.vd = v /\ v.mask >= 3
      BY <1>1, <2>1, <2>3 DEF BPicture
    <3> QED BY <1>6, <3>1 DEF MpegTable
  <2> QED BY <2>2, <2>3
<1>7. CASE p.type = "I" /\ p.st = "frame"
  <2>1. r = FramePicture(v, p)
    BY <1>7 DEF ReorderMpeg
  <2>2. r.out = Flush(v) /\ r.vd = [mask |-> 4, buf |-> v1]
    BY <1>3, <2>1 DEF FramePicture
  <2>3. HeldOK(r.vd)
    BY <1>5, <2>2 DEF HeldOK, HeldRec, HoldsFirst, HoldsBottom
  <2>4. \/ v.mask = 0 /\ r.out = <<>>
        \/ v.mask \in {1, 4} /\ r.out = <<v.buf[1]>>
        \/ v.mask = 2 /\ r.out = <<v.buf[2]>>
        \/ v.mask = 3 /\ r.out = <<v.buf[1], v.buf[2]>>
    BY <1>1, <2>2, FlushIs
  <2>5. r.out \in Seq(Package)
    BY <1>a, <2>4
  <2> QED BY <1>5, <1>7, <2>2, <2>3, <2>4, <2>5 DEF MpegTable
<1>8. CASE p.type = "I" /\ p.st = "top"
  <2>1. r = TopField(v, p)
    BY <1>8 DEF ReorderMpeg
  <2>2. r.vd.buf = v1 /\ r.vd = [mask |-> r.vd.mask, buf |-> v1]
    BY <1>3, <2>1 DEF TopField
  <2>3. \/ v.mask \in {0, 1} /\ r.vd.mask = 1 /\ r.out = <<>>
        \/ v.mask = 2 /\ r.vd.mask = 3 /\ r.out = <<>>
        \/ v.mask = 3 /\ r.vd.mask = 3 /\ r.out = <<v.buf[1]>>
        \/ v.mask = 4 /\ r.vd.mask = 1 /\ r.out = <<v.buf[1]>>
    BY <1>1, <2>1 DEF TopField
  <2>4. HeldOK(r.vd)
    BY <1>5, <2>2, <2>3 DEF HeldOK, HeldRec, HoldsFirst, HoldsBottom
  <2>5. r.out \in Seq(Package)
    BY <1>a, <2>3
  <2> QED BY <1>5, <1>8, <2>2, <2>3, <2>4, <2>5 DEF MpegTable
<1>9. CASE p.type = "I" /\ p.st = "bottom"
  <2>1. r = BottomField(v, p)
    BY <1>9 DEF ReorderMpeg
  <2>2. r.vd.buf = v2 /\ r.vd = [mask |-> r.vd.mask, buf |-> v2]
    BY <1>4, <2>1 DEF BottomField
  <2>3. \/ v.mask \in {0, 2} /\ r.vd.mask = 2 /\ r.out = <<>>
        \/ v.mask = 1 /\ r.vd.mask = 3 /\ r.out = <<>>
        \/ v.mask = 3 /\ r.vd.mask = 3 /\ r.out = <<v.buf[2]>>
        \/ v.mask = 4 /\ r.vd.mask = 2 /\ r.out = <<v.buf[1]>>
    BY <1>1, <2>1 DEF BottomField
  <2>4. HeldOK(r.vd)
    BY <1>5, <2>2, <2>3 DEF HeldOK, HeldRec, HoldsFirst, HoldsBottom
  <2>5. r.out \in Seq(Package)
    BY <1>a, <2>3
  <2> QED BY <1>5, <1>9, <2>2, <2>3, <2>4, <2>5 DEF MpegTable
<1> QED BY <1>2, <1>6, <1>7, <1>8, <1>9

\* aml_h264_reorder_user_data, case by case: block m is written, if one is.
H264Table(s, p, r) ==
  \/ /\ p.poc = 0 \/ Len(s) > MaxPocCache
     /\ \E m \in 1 .. Len(s) :
          /\ \A j \in 1 .. Len(s) : s[m].poc <= s[j].poc
          /\ r.out = <<s[m]>>
          /\ \/ p.poc = 0 /\ r.list = RemoveAt(s, m) /\ r.added = FALSE
             \/ p.poc # 0 /\ r.list = Append(RemoveAt(s, m), p) /\ r.added = TRUE
  \/ /\ IF p.poc = 0 THEN s = <<>> ELSE ~(Len(s) > MaxPocCache)
     /\ r.out = <<>> /\ r.list = Append(s, p) /\ r.added = TRUE

LEMMA H264Is ==
  ASSUME NEW s \in Seq(Package), NEW p \in Package, Len(s) <= MaxPocCache + 1,
         NEW r, r = ReorderH264(s, p)
  PROVE  /\ H264Table(s, p, r)
         /\ r.list \in Seq(Package) /\ r.out \in Seq(Package)
         /\ Len(r.list) <= MaxPocCache + 1 /\ r.added \in BOOLEAN
<1> DEFINE P == Package
<1>1. s \in Seq(P) /\ p \in P /\ Len(s) \in Nat /\ (s # <<>> => Len(s) > 0)
  <2>1. s \in Seq(P) /\ p \in P
    OBVIOUS
  <2> HIDE DEF P
  <2> QED BY <2>1, EmptySeq, LenProperties
<1>2. ASSUME s # <<>>
      PROVE  /\ MinPoc(s) \in 1 .. Len(s)
             /\ \A j \in 1 .. Len(s) : s[MinPoc(s)].poc <= s[j].poc
  BY <1>2, MinPocIs
<1> HIDE DEF P
<1>3. ASSUME s # <<>>
      PROVE  /\ s[MinPoc(s)] \in P
             /\ RemoveAt(s, MinPoc(s)) \in Seq(P)
             /\ Len(RemoveAt(s, MinPoc(s))) = Len(s) - 1
  <2>1. PICK i \in 1 .. Len(s) : i = MinPoc(s)
    BY <1>2, <1>3
  <2> QED BY <1>1, <2>1, RemoveAtIs, ElementOfSeq
<1>4. MaxPocCache \in Nat
  BY StreamFacts
<1>5. CASE p.poc = 0 /\ s # <<>>
  <2>1. r = [out |-> <<s[MinPoc(s)]>>, list |-> RemoveAt(s, MinPoc(s)), added |-> FALSE]
    BY <1>5 DEF ReorderH264
  <2>2. r.out \in Seq(P) /\ r.list \in Seq(P) /\ Len(r.list) <= MaxPocCache + 1
    BY <1>1, <1>3, <1>4, <1>5, <2>1
  <2>3. H264Table(s, p, r)
    BY <1>2, <1>5, <2>1 DEF H264Table
  <2> QED BY <2>1, <2>2, <2>3 DEF P
<1>6. CASE p.poc # 0 /\ Len(s) > MaxPocCache
  <2>1. s # <<>>
    BY <1>4, <1>6, EmptySeq
  <2>2. r = [out |-> <<s[MinPoc(s)]>>, list |-> Append(RemoveAt(s, MinPoc(s)), p),
             added |-> TRUE]
    BY <1>6 DEF ReorderH264, CacheFull
  <2>3. PICK u \in Seq(P) : u = RemoveAt(s, MinPoc(s)) /\ Len(u) = Len(s) - 1
    BY <1>3, <2>1
  <2>4. Append(u, p) \in Seq(P) /\ Len(Append(u, p)) = Len(u) + 1
    BY <1>1, <2>3, AppendProperties
  <2>5. r.out \in Seq(P) /\ r.list \in Seq(P) /\ Len(r.list) <= MaxPocCache + 1
    BY <1>1, <1>3, <1>4, <2>1, <2>2, <2>3, <2>4
  <2>6. H264Table(s, p, r)
    <3>1. PICK m \in 1 .. Len(s) : m = MinPoc(s) /\ \A j \in 1 .. Len(s) : s[m].poc <= s[j].poc
      BY <1>2, <2>1
    <3>2. r.out = <<s[m]>> /\ r.list = Append(RemoveAt(s, m), p) /\ r.added = TRUE
      BY <2>2, <3>1
    <3> QED BY <1>6, <3>1, <3>2 DEF H264Table
  <2> QED BY <2>2, <2>5, <2>6 DEF P
<1>7. CASE IF p.poc = 0 THEN s = <<>> ELSE ~(Len(s) > MaxPocCache)
  <2>1. r = [out |-> <<>>, list |-> Append(s, p), added |-> TRUE]
    BY <1>7 DEF ReorderH264, CacheFull
  <2>2. Append(s, p) \in Seq(P) /\ Len(Append(s, p)) = Len(s) + 1
    BY <1>1, AppendProperties
  <2>3. Len(s) <= MaxPocCache
    BY <1>1, <1>4, <1>7
  <2>4. r.out \in Seq(P) /\ r.list \in Seq(P) /\ Len(r.list) <= MaxPocCache + 1
    BY <1>1, <1>4, <2>1, <2>2, <2>3, EmptySeq
  <2>5. H264Table(s, p, r)
    BY <1>7, <2>1 DEF H264Table
  <2> QED BY <2>1, <2>4, <2>5 DEF P
<1> QED BY <1>5, <1>6, <1>7

-----------------------------------------------------------------------------
(* The ring through every step.                                            *)

\* A package read by a client.
ReadBy(c) ==
  /\ pc[c] \in {"enter", "woken"}
  /\ ReadPackage(c) /\ Returns(c)
  /\ UNCHANGED <<gAdpLock, open_cnt, alive, data, pwrite, worker>>

\* The steps by what they do to the ring.
LEMMA RingCases ==
  ASSUME [Next]_vars
  PROVE  \/ UNCHANGED <<ring, ghosts>>
         \/ ThreadWrite
         \/ \E c \in Clients : ReadBy(c)
         \/ \E c \in Clients : CloseJoined(c)
<1>1. CASE \/ ThreadFlush \/ ThreadRead \/ ThreadReorder \/ ThreadPolls \/ ThreadExits
           \/ UNCHANGED vars
  BY <1>1 DEF ThreadFlush, ThreadRead, ThreadReorder, ThreadPolls, ThreadExits, vars
<1>2. ASSUME NEW c \in Clients,
             \/ OpenFirst(c) \/ OpenMore(c) \/ CloseShared(c) \/ CloseLast(c)
             \/ ReadCalled(c) \/ ReadWaits(c) \/ ReadTimesOut(c) \/ WakesUp(c)
      PROVE  UNCHANGED <<ring, ghosts>>
  BY <1>2 DEF OpenFirst, OpenMore, CloseShared, CloseLast, ReadCalled, ReadWaits,
              ReadTimesOut, WakesUp
<1>3. ASSUME NEW c \in Clients, ReadAtOnce(c) PROVE ReadBy(c)
  BY <1>3 DEF ReadAtOnce, ReadBy
<1>4. ASSUME NEW c \in Clients, ReadWoken(c) PROVE ReadBy(c) \/ UNCHANGED <<ring, ghosts>>
  BY <1>4 DEF ReadWoken, ReadBy, ring
<1> QED BY <1>1, <1>2, <1>3, <1>4, NextCases

LEMMA RingSame ==
  ASSUME RingOK, RingInv, UNCHANGED <<ring, ghosts>>
  PROVE  RingOK' /\ RingInv'
<1>1. UNCHANGED <<data, pread, pwrite, queue>>
  BY DEF ring, ghosts
<1>2. RingOK'
  BY <1>1 DEF RingOK
<1>3. PICK o \in [1 .. (Len(queue) + 1) -> 0 .. (BufSize - 1)] : Layout(o)
  BY DEF RingInv
<1>4. Layout(o)'
  BY <1>1, <1>3 DEF Layout
<1> QED BY <1>1, <1>2, <1>3, <1>4 DEF RingInv

\* userdata_package_read as a step of the queue.
LEMMA ReadStep ==
  ASSUME TypeOK, DataOK, LifeInv, RingInv, NEW c \in Clients, ReadBy(c)
  PROVE  /\ queue # <<>> /\ queue' = Tail(queue)
         /\ size[c] \in Sizes /\ size[c] \in Nat
         /\ IF queue[1].len <= size[c]
            THEN got' = Append(got, queue[1].id) /\ lost' = lost
            ELSE got' = got /\ lost' = lost \cup {queue[1].id}
         /\ RingOK' /\ RingInv'
         /\ RingAvail(pread', pwrite') =
              RingAvail(pread, pwrite) - (Word + queue[1].len)
<1>1. RingOK
  BY DataIsRing
<1>2. size[c] \in Sizes /\ size[c] \in Nat
  BY SizeAssumption DEF ReadBy, LifeInv
<1>3. PICK n \in Nat : n = size[c]
  BY <1>2
<1>4. PICK x : x = PackageRead(n)
  OBVIOUS
<1>5. /\ RingAvail(pread, pwrite) > 0
      /\ pread' = x.pread /\ queue' = x.queue /\ got' = x.got /\ lost' = x.lost
  BY <1>3, <1>4 DEF ReadBy, ReadPackage
<1>6. /\ queue # <<>>
      /\ x.pread = Cell(pread, Word + queue[1].len)
      /\ x.queue = Tail(queue)
      /\ queue[1].len <= n => x.got = Append(got, queue[1].id) /\ x.lost = lost
      /\ ~(queue[1].len <= n) => x.got = got /\ x.lost = lost \cup {queue[1].id}
  BY <1>1, <1>4, <1>5, ReadResult
<1>7. UNCHANGED <<data, pwrite>>
  BY DEF ReadBy
<1>8. /\ RingOK' /\ RingInv'
      /\ RingAvail(pread', pwrite') =
           RingAvail(pread, pwrite) - (Word + queue[1].len)
  BY <1>1, <1>5, <1>6, <1>7, PopStep
<1> QED BY <1>2, <1>3, <1>5, <1>6, <1>8

\* userdata_package_write as a step of the queue.
LEMMA WriteStep ==
  ASSUME TypeOK, DataOK, RingInv, ThreadWrite
  PROVE  /\ out # <<>> /\ Head(out) \in Package /\ out' = Tail(out) /\ out' \in Seq(Package)
         /\ \/ /\ Fits(Head(out))
               /\ queue' = Append(queue, [id |-> Head(out).id, len |-> Head(out).len])
               /\ RingAvail(pread', pwrite') =
                    RingAvail(pread, pwrite) + (Word + Head(out).len)
               /\ got' = got /\ lost' = lost
            \/ /\ ~Fits(Head(out))
               /\ queue' = queue /\ got' = got /\ lost' = lost \cup {Head(out).id}
               /\ UNCHANGED <<pc, ring>>
         /\ RingOK' /\ RingInv'
<1>1. RingOK
  BY DataIsRing
<1>2. out # <<>> /\ out' = Tail(out) /\ pread' = pread /\ got' = got
  BY DEF ThreadWrite
<1>3. Head(out) \in Package /\ out' \in Seq(Package)
  <2> DEFINE S == Package
  <2>1. out \in Seq(S)
    BY DEF DataOK
  <2> HIDE DEF S
  <2>2. Head(out) \in S /\ Tail(out) \in Seq(S)
    BY <1>2, <2>1, HeadTailProperties
  <2> QED BY <1>2, <2>2 DEF S
<1>4. PICK p \in Package : p = Head(out)
  BY <1>3
<1>5. p.id \in Nat /\ p.len \in {Short, Long}
  BY DEF Package
<1>6. CASE Fits(p)
  <2>1. /\ data' = RingWrite(RingWrite(data, pwrite, LengthWord(p.len)),
                             Advance(pwrite, Word), PackageBytes(p))
        /\ pwrite' = Advance(Advance(pwrite, Word), p.len)
        /\ queue' = Append(queue, [id |-> p.id, len |-> p.len])
        /\ lost' = lost
    BY <1>4, <1>6 DEF ThreadWrite
  <2>2. /\ RingOK' /\ RingInv'
        /\ RingAvail(pread', pwrite') = RingAvail(pread, pwrite) + (Word + p.len)
    BY <1>1, <1>2, <1>5, <1>6, <2>1, PutStep
  <2> QED BY <1>2, <1>3, <1>4, <1>6, <2>1, <2>2
<1>7. CASE ~Fits(p)
  <2>1. UNCHANGED <<data, pwrite, queue, pc>> /\ lost' = lost \cup {p.id}
    BY <1>4, <1>7 DEF ThreadWrite
  <2>2. UNCHANGED <<data, pread, pwrite, queue>>
    BY <1>2, <2>1
  <2>3. RingOK'
    BY <1>1, <2>2 DEF RingOK
  <2>4. PICK o \in [1 .. (Len(queue) + 1) -> 0 .. (BufSize - 1)] : Layout(o)
    BY DEF RingInv
  <2>5. Layout(o)'
    BY <2>2, <2>4 DEF Layout
  <2>6. RingInv'
    BY <2>2, <2>4, <2>5 DEF RingInv
  <2> QED BY <1>2, <1>3, <1>4, <1>7, <2>1, <2>2, <2>3, <2>6 DEF ring
<1> QED BY <1>6, <1>7

\* The ring holds the queue in every step.
LEMMA RingStep ==
  ASSUME TypeOK, DataOK, LifeInv, RingInv, [Next]_vars
  PROVE  RingOK' /\ RingInv'
<1>1. CASE UNCHANGED <<ring, ghosts>>
  BY <1>1, DataIsRing, RingSame
<1>2. CASE ThreadWrite
  BY <1>2, WriteStep
<1>3. ASSUME NEW c \in Clients, ReadBy(c) PROVE RingOK' /\ RingInv'
  BY <1>3, ReadStep
<1>4. ASSUME NEW c \in Clients, CloseJoined(c) PROVE RingOK' /\ RingInv'
  <2>1. pread' = 0 /\ pwrite' = 0 /\ queue' = <<>>
    BY <1>4 DEF CloseJoined
  <2>2. RingOK'
    BY <2>1, SizeFacts, EmptySeq DEF RingOK
  <2>3. PICK o : o = [i \in 1 .. 1 |-> 0]
    OBVIOUS
  <2>4. Len(queue') = 0 /\ o \in [1 .. (Len(queue') + 1) -> 0 .. (BufSize - 1)] /\ o[1] = 0
    BY <2>1, <2>3, SizeFacts
  <2>5. RingAvail(pread', pwrite') = 0
    BY <2>1 DEF RingAvail
  <2>6. Layout(o)'
    BY <2>4, <2>5 DEF Layout
  <2> QED BY <2>2, <2>4, <2>6 DEF RingInv
<1> QED BY <1>1, <1>2, <1>3, <1>4, RingCases

-----------------------------------------------------------------------------
(* Types.                                                                  *)

\* ThreadRead takes one more package.
LEMMA TakeStep ==
  ASSUME TypeOK, DataOK, ThreadRead
  PROVE  /\ ud_format' \in {"mpeg", "h264"}
         /\ ud_format # "invalid" => ud_format' = ud_format
         /\ \E p \in Package :
              /\ buf' = Append(buf, p)
              /\ stream' \in StreamRec /\ stream'.b <= stream'.n
              /\ stream'.sent = stream.sent \cup {p.id}
              /\ ud_format' = "mpeg" => FieldFollows(p, stream') \/ PictureFollows(p, stream')
              /\ ud_format' = "h264" => BlockFollows(p, stream')
<1>1. /\ ud_format' \in {"mpeg", "h264"}
      /\ ud_format # "invalid" => ud_format' = ud_format
  BY StreamAssumption DEF ThreadRead, TypeOK
<1>2. PICK f \in {"mpeg", "h264"} : f = ud_format'
  BY <1>1
<1>3. PICK x \in NextPictures(f) : buf' = Append(buf, x.p) /\ stream' = x.stream
  BY <1>2 DEF ThreadRead
<1>4. PICK p, t : p = x.p /\ t = x.stream
  OBVIOUS
<1>5. stream \in StreamRec /\ stream.n < MaxPictures /\ stream.b <= stream.n
  BY DEF ThreadRead, DataOK
<1>6. /\ p \in Package /\ t \in StreamRec
      /\ t.n = stream.n + 1 /\ t.b <= t.n /\ t.sent = stream.sent \cup {p.id}
      /\ f = "mpeg" => FieldFollows(p, t) \/ PictureFollows(p, t)
      /\ f = "h264" => BlockFollows(p, t)
  BY <1>4, <1>5, PictureIs
<1>7. stream' = t /\ buf' = Append(buf, p)
  BY <1>3, <1>4
<1> QED BY <1>1, <1>2, <1>6, <1>7

\* The packages in front of the reordering.
LEMMA BufIs ==
  ASSUME DataOK
  PROVE  /\ Len(buf) \in Nat /\ DOMAIN buf = 1 .. Len(buf)
         /\ \A i \in 1 .. Len(buf) : buf[i] \in Package
         /\ buf # <<>> =>
              /\ Len(buf) >= 1 /\ Head(buf) = buf[1] /\ buf[1] \in Package
              /\ Tail(buf) \in Seq(Package) /\ Len(Tail(buf)) = Len(buf) - 1
              /\ \A i \in 1 .. (Len(buf) - 1) : Tail(buf)[i] = buf[i + 1]
<1> DEFINE S == Package
<1>1. buf \in Seq(S)
  BY DEF DataOK
<1> HIDE DEF S
<1>2. /\ Len(buf) \in Nat /\ DOMAIN buf = 1 .. Len(buf)
      /\ \A i \in 1 .. Len(buf) : buf[i] \in S
  BY <1>1, LenProperties, ElementOfSeq
<1>3. ASSUME buf # <<>>
      PROVE  /\ Len(buf) >= 1 /\ Head(buf) = buf[1] /\ buf[1] \in S
             /\ Tail(buf) \in Seq(S) /\ Len(Tail(buf)) = Len(buf) - 1
             /\ \A i \in 1 .. (Len(buf) - 1) : Tail(buf)[i] = buf[i + 1]
  <2>1. Len(buf) >= 1
    BY <1>1, <1>3, EmptySeq
  <2>2. /\ Tail(buf) \in Seq(S) /\ Len(Tail(buf)) = Len(buf) - 1
        /\ \A i \in 1 .. Len(Tail(buf)) : Tail(buf)[i] = buf[i + 1]
    BY <1>1, <1>3, HeadTailProperties
  <2>3. Head(buf) = buf[1]
    BY <1>1, <1>3
  <2> QED BY <1>2, <2>1, <2>2, <2>3
<1> QED BY <1>2, <1>3 DEF S

\* ThreadReorder puts the first package through one of the two tables.
MpegMove(r) ==
  /\ ud_format = "mpeg" /\ Len(buf) >= 2
  /\ MpegTable(vd, buf[1], r) /\ HeldOK(r.vd) /\ r.out \in Seq(Package)
  /\ out' = r.out /\ vd' = r.vd /\ buf' = Tail(buf) /\ list' = list

H264Move(r) ==
  /\ ud_format = "h264"
  /\ H264Table(list, buf[1], r) /\ r.list \in Seq(Package) /\ r.out \in Seq(Package)
  /\ Len(r.list) <= MaxPocCache + 1 /\ r.added \in BOOLEAN
  /\ out' = r.out /\ list' = r.list /\ vd' = vd
  /\ buf' = IF r.added THEN Tail(buf) ELSE buf

LEMMA ReorderStep ==
  ASSUME TypeOK, DataOK, ThreadReorder
  PROVE  /\ buf # <<>> /\ out = <<>> /\ thread = "work"
         /\ \E r : MpegMove(r) \/ H264Move(r)
         /\ UNCHANGED <<gAdpLock, open_cnt, alive, ring, pc, size, thread, running,
                        flush, ud_format, stream, ghosts>>
<1>1. /\ out = <<>> /\ thread = "work"
      /\ UNCHANGED <<gAdpLock, open_cnt, alive, ring, pc, size, thread, running,
                     flush, ud_format, stream, ghosts>>
  BY DEF ThreadReorder
<1>2. buf # <<>> /\ (ud_format = "mpeg" => Len(buf) >= 2)
  <2>1. CASE ud_format = "mpeg"
    <3>1. Len(buf) >= 2
      BY <2>1 DEF ThreadReorder, Extractable
    <3>2. buf # <<>>
      BY <3>1, EmptySeq
    <3> QED BY <3>1, <3>2
  <2>2. CASE ud_format # "mpeg"
    BY <2>2 DEF ThreadReorder, Extractable
  <2> QED BY <2>1, <2>2
<1>3. PICK p \in Package : p = Head(buf) /\ p = buf[1]
  BY <1>2, BufIs
<1>4. CASE ud_format = "mpeg"
  <2>1. PICK r : r = ReorderMpeg(vd, p)
    OBVIOUS
  <2>2. out' = r.out /\ vd' = r.vd /\ buf' = Tail(buf) /\ list' = list
    BY <1>3, <1>4, <2>1 DEF ThreadReorder
  <2>3. PICK v : v = vd /\ HeldOK(v)
    BY DEF DataOK, HeldOK
  <2>4. MpegTable(v, p, r) /\ HeldOK(r.vd) /\ r.out \in Seq(Package)
    BY <2>1, <2>3, MpegIs
  <2>5. MpegMove(r)
    BY <1>2, <1>3, <1>4, <2>2, <2>3, <2>4 DEF MpegMove
  <2> QED BY <1>1, <1>2, <2>5
<1>5. CASE ud_format = "h264"
  <2>1. PICK r : r = ReorderH264(list, p)
    OBVIOUS
  <2>2. /\ out' = r.out /\ list' = r.list /\ vd' = vd
        /\ buf' = IF r.added THEN Tail(buf) ELSE buf
    BY <1>3, <1>5, <2>1 DEF ThreadReorder
  <2>3. PICK s : s = list /\ s \in Seq(Package) /\ Len(s) <= MaxPocCache + 1
    BY DEF DataOK, TypeOK
  <2>4. /\ H264Table(s, p, r)
        /\ r.list \in Seq(Package) /\ r.out \in Seq(Package)
        /\ Len(r.list) <= MaxPocCache + 1 /\ r.added \in BOOLEAN
    BY <2>1, <2>3, H264Is
  <2>5. H264Move(r)
    BY <1>3, <1>5, <2>2, <2>3, <2>4 DEF H264Move
  <2> QED BY <1>1, <1>2, <2>5
<1> QED BY <1>4, <1>5 DEF ThreadReorder

LEMMA NothingHeld ==
  /\ NoReorder \in HeldRec /\ NoReorder.mask = 0 /\ HeldOK(NoReorder)
  /\ NoStream \in StreamRec /\ NoStream.b <= NoStream.n /\ NoStream.sent = {}
  /\ NoStream.ref = 1 /\ NoStream.b = 0 /\ NoStream.due = "none" /\ NoStream.type = "I"
  /\ NoStream.seen = {}
<1>1. NoReorder \in HeldRec /\ NoReorder.mask = 0
  BY DEF NoReorder, HeldRec
<1>2. HeldOK(NoReorder)
  BY <1>1 DEF HeldOK, HoldsFirst, HoldsBottom
<1>3. NoStream \in StreamRec
  BY StreamFacts DEF NoStream, StreamRec
<1>4. NoStream.b <= NoStream.n /\ NoStream.sent = {}
      /\ NoStream.ref = 1 /\ NoStream.b = 0 /\ NoStream.due = "none" /\ NoStream.type = "I"
      /\ NoStream.seen = {}
  BY DEF NoStream
<1> QED BY <1>1, <1>2, <1>3, <1>4

\* What the capture thread and the readers hold stays of its type.
LEMMA DataStep ==
  ASSUME TypeOK, DataOK, LifeInv, RingInv, [Next]_vars
  PROVE  DataOK'
<1>1. queue' \in Seq(Queued)
  BY RingStep DEF RingOK
<1>2. /\ buf \in Seq(Package) /\ out \in Seq(Package) /\ list \in Seq(Package)
      /\ got \in Seq(Nat) /\ lost \subseteq Nat /\ IsFiniteSet(lost)
      /\ HeldOK(vd)
      /\ stream \in StreamRec /\ stream.b <= stream.n /\ IsFiniteSet(stream.sent)
  BY DEF DataOK, HeldOK
<1>3. got' \in Seq(Nat) /\ lost' \subseteq Nat /\ IsFiniteSet(lost')
  <2>1. CASE UNCHANGED <<ring, ghosts>>
    BY <1>2, <2>1 DEF ghosts
  <2>2. ASSUME lost' = lost \/ \E id \in Nat : lost' = lost \cup {id}
        PROVE  lost' \subseteq Nat /\ IsFiniteSet(lost')
    BY <1>2, <2>2, FS_AddElement
  <2>3. CASE ThreadWrite
    <3>1. Head(out).id \in Nat
      BY <2>3, WriteStep DEF Package
    <3>2. got' = got /\ (lost' = lost \/ lost' = lost \cup {Head(out).id})
      BY <2>3, WriteStep
    <3> QED BY <1>2, <2>2, <3>1, <3>2
  <2>4. ASSUME NEW c \in Clients, ReadBy(c)
        PROVE  got' \in Seq(Nat) /\ lost' \subseteq Nat /\ IsFiniteSet(lost')
    <3>1. queue # <<>> /\ RingOK
      BY <2>4, ReadStep, DataIsRing
    <3>2. 1 \in 1 .. Len(queue)
      BY <3>1, EmptySeq, QueuedIs DEF RingOK
    <3>3. PICK id \in Nat : id = queue[1].id
      BY <3>1, <3>2, QueuedIs
    <3>4. got' \in {got, Append(got, id)} /\ (lost' = lost \/ lost' = lost \cup {id})
      BY <2>4, <3>3, ReadStep
    <3>5. Append(got, id) \in Seq(Nat)
      BY <1>2, AppendProperties
    <3> QED BY <1>2, <2>2, <3>4, <3>5
  <2>5. ASSUME NEW c \in Clients, CloseJoined(c)
        PROVE  got' \in Seq(Nat) /\ lost' \subseteq Nat /\ IsFiniteSet(lost')
    BY <2>5, EmptySeq, FS_EmptySet DEF CloseJoined
  <2> QED BY <2>1, <2>3, <2>4, <2>5, RingCases
<1>4. /\ buf' \in Seq(Package) /\ out' \in Seq(Package) /\ list' \in Seq(Package)
      /\ HeldOK(vd')
      /\ stream' \in StreamRec /\ stream'.b <= stream'.n /\ IsFiniteSet(stream'.sent)
  <2>1. CASE ThreadRead
    <3>1. PICK p \in Package :
            /\ buf' = Append(buf, p)
            /\ stream' \in StreamRec /\ stream'.b <= stream'.n
            /\ stream'.sent = stream.sent \cup {p.id}
      BY <2>1, TakeStep
    <3>2. Append(buf, p) \in Seq(Package)
      <4> DEFINE S == Package
      <4>1. buf \in Seq(S) /\ p \in S
        BY <1>2
      <4> HIDE DEF S
      <4>2. Append(buf, p) \in Seq(S)
        BY <4>1, AppendProperties
      <4> QED BY <4>2 DEF S
    <3>3. IsFiniteSet(stream'.sent)
      <4>1. IsFiniteSet(stream.sent) /\ stream'.sent = stream.sent \cup {p.id}
        BY <1>2, <3>1
      <4>2. PICK T, x : T = stream.sent /\ x = p.id
        OBVIOUS
      <4>3. IsFiniteSet(T) /\ stream'.sent = T \cup {x}
        BY <4>1, <4>2
      <4>4. IsFiniteSet(T \cup {x})
        BY <4>3, FS_AddElement
      <4> QED BY <4>3, <4>4
    <3>4. UNCHANGED <<out, list, vd>>
      BY <2>1 DEF ThreadRead
    <3> QED BY <1>2, <3>1, <3>2, <3>3, <3>4
  <2>2. CASE ThreadReorder
    <3>1. UNCHANGED stream
      BY <2>2 DEF ThreadReorder
    <3>2. PICK r : MpegMove(r) \/ H264Move(r)
      BY <2>2, ReorderStep
    <3>3. Tail(buf) \in Seq(Package)
      BY <2>2, ReorderStep, BufIs
    <3>4. CASE MpegMove(r)
      BY <1>2, <3>1, <3>3, <3>4 DEF MpegMove
    <3>5. CASE H264Move(r)
      BY <1>2, <3>1, <3>3, <3>5 DEF H264Move
    <3> QED BY <3>2, <3>4, <3>5
  <2>3. CASE ThreadWrite
    <3>1. out' \in Seq(Package)
      BY <2>3, WriteStep
    <3>2. UNCHANGED <<buf, list, vd, stream>>
      BY <2>3 DEF ThreadWrite
    <3> QED BY <1>2, <3>1, <3>2
  <2>4. CASE ThreadExits
    <3>1. buf' = <<>> /\ vd' = NoReorder /\ list' = <<>> /\ stream' = NoStream /\ out' = out
      BY <2>4 DEF ThreadExits
    <3> QED BY <1>2, <3>1, NothingHeld, EmptySeq, FS_EmptySet
  <2>5. CASE UNCHANGED <<buf, out, list, vd, stream>>
    BY <1>2, <2>5
  <2>6. ASSUME ThreadFlush \/ ThreadPolls \/ UNCHANGED vars
        PROVE  UNCHANGED <<buf, out, list, vd, stream>>
    BY <2>6 DEF ThreadFlush, ThreadPolls, vars, worker
  <2>7. ASSUME NEW c \in Clients, Client(c) PROVE UNCHANGED <<buf, out, list, vd, stream>>
    BY <2>7 DEF Client, OpenFirst, OpenMore, CloseShared, CloseLast, CloseJoined,
                ReadCalled, ReadAtOnce, ReadWaits, ReadTimesOut, WakesUp, ReadWoken, worker
  <2> QED BY <2>1, <2>2, <2>3, <2>4, <2>5, <2>6, <2>7 DEF Next, Worker
<1> QED BY <1>1, <1>3, <1>4 DEF DataOK, HeldOK

\* Positions, counters and buffers keep their types.
LEMMA TypeStep ==
  ASSUME TypeOK, DataOK, LifeInv, RingInv, [Next]_vars
  PROVE  TypeOK'
<1>1. pread' \in 0 .. (BufSize - 1) /\ pwrite' \in 0 .. (BufSize - 1)
  BY RingStep DEF RingOK
<1>2. open_cnt' \in 0 .. Cardinality(Clients)
  <2>1. PICK H \in SUBSET Clients : open_cnt' = Cardinality(H)
    BY LifeStep DEF LifeInv, Holders
  <2>2. Cardinality(H) \in Nat /\ Cardinality(Clients) \in Nat
        /\ Cardinality(H) <= Cardinality(Clients)
    BY ClientAssumption, FS_Subset, FS_CardinalityType
  <2> QED BY <2>1, <2>2
<1>3. vd'.mask \in 0 .. 4
  BY DataStep DEF DataOK, HeldRec
<1>4. Len(list') <= MaxPocCache + 1
  <2>1. CASE ThreadReorder
    <3>1. PICK r : MpegMove(r) \/ H264Move(r)
      BY <2>1, ReorderStep
    <3> QED BY <3>1 DEF MpegMove, H264Move, TypeOK
  <2>2. CASE ThreadExits
    BY <2>2, EmptySeq, StreamFacts DEF ThreadExits
  <2>3. ASSUME \/ ThreadFlush \/ ThreadRead \/ ThreadWrite \/ ThreadPolls \/ UNCHANGED vars
        PROVE  UNCHANGED list
    BY <2>3 DEF ThreadFlush, ThreadRead, ThreadWrite, ThreadPolls, vars, worker
  <2>4. ASSUME NEW c \in Clients, Client(c) PROVE UNCHANGED list
    BY <2>4 DEF Client, OpenFirst, OpenMore, CloseShared, CloseLast, CloseJoined,
                ReadCalled, ReadAtOnce, ReadWaits, ReadTimesOut, WakesUp, ReadWoken, worker
  <2> QED BY <2>1, <2>2, <2>3, <2>4 DEF Next, Worker, TypeOK
<1>5. DOMAIN data' = 0 .. (BufSize - 1)
  <2>1. CASE ThreadWrite
    BY <2>1 DEF ThreadWrite, RingWrite, TypeOK
  <2>2. ASSUME NEW c \in Clients, ReadBy(c) PROVE UNCHANGED data
    BY <2>2 DEF ReadBy
  <2>3. ASSUME NEW c \in Clients, CloseJoined(c) PROVE DOMAIN data' = 0 .. (BufSize - 1)
    BY <2>3 DEF CloseJoined
  <2> QED BY <2>1, <2>2, <2>3, RingCases DEF ring, TypeOK
<1>6. /\ gAdpLock' \in Clients \cup {Nobody}
      /\ {alive', running', flush'} \subseteq BOOLEAN
      /\ thread' \in {"none", "poll", "work", "exit"}
      /\ ud_format' \in {"invalid", "mpeg", "h264"}
  <2>1. CASE ThreadRead
    BY <2>1, TakeStep DEF ThreadRead, TypeOK
  <2>2. CASE ThreadFlush \/ ThreadReorder \/ ThreadWrite \/ ThreadPolls \/ ThreadExits
    BY <2>2 DEF ThreadFlush, ThreadReorder, ThreadWrite, ThreadPolls, ThreadExits, TypeOK
  <2>3. ASSUME NEW c \in Clients,
               OpenFirst(c) \/ OpenMore(c) \/ CloseShared(c) \/ CloseLast(c) \/ CloseJoined(c)
        PROVE  /\ gAdpLock' \in Clients \cup {Nobody}
               /\ {alive', running', flush'} \subseteq BOOLEAN
               /\ thread' \in {"none", "poll", "work", "exit"}
               /\ ud_format' \in {"invalid", "mpeg", "h264"}
    BY <2>3 DEF OpenFirst, OpenMore, CloseShared, CloseLast, CloseJoined, worker, TypeOK
  <2>4. ASSUME NEW c \in Clients,
               \/ ReadCalled(c) \/ ReadAtOnce(c) \/ ReadWaits(c)
               \/ ReadTimesOut(c) \/ WakesUp(c) \/ ReadWoken(c)
        PROVE  UNCHANGED <<gAdpLock, alive, running, flush, thread, ud_format>>
    BY <2>4 DEF ReadCalled, ReadAtOnce, ReadWaits, ReadTimesOut, WakesUp, ReadWoken, worker
  <2>5. CASE UNCHANGED vars
    BY <2>5 DEF vars, worker, TypeOK
  <2>6. CASE UNCHANGED <<gAdpLock, alive, running, flush, thread, ud_format>>
    BY <2>6 DEF TypeOK
  <2> QED BY <2>1, <2>2, <2>3, <2>4, <2>5, <2>6, NextCases
<1>7. /\ pc' \in [Clients -> {"closed", "open", "enter", "wait", "woken", "join"}]
      /\ size' \in [Clients -> Sizes \cup {0}]
  <2>1. CASE ThreadWrite
    BY <2>1 DEF ThreadWrite, TypeOK
  <2>2. ASSUME \/ ThreadFlush \/ ThreadRead \/ ThreadReorder \/ ThreadPolls \/ ThreadExits
               \/ UNCHANGED vars
        PROVE  UNCHANGED <<pc, size>>
    BY <2>2 DEF ThreadFlush, ThreadRead, ThreadReorder, ThreadPolls, ThreadExits, vars
  <2>3. ASSUME NEW c \in Clients,
               OpenFirst(c) \/ OpenMore(c) \/ CloseShared(c) \/ CloseLast(c) \/ CloseJoined(c)
        PROVE  /\ pc' \in [Clients -> {"closed", "open", "enter", "wait", "woken", "join"}]
               /\ size' \in [Clients -> Sizes \cup {0}]
    BY <2>3 DEF OpenFirst, OpenMore, CloseShared, CloseLast, CloseJoined, TypeOK
  <2>4. ASSUME NEW c \in Clients,
               \/ ReadCalled(c) \/ ReadAtOnce(c) \/ ReadWaits(c)
               \/ ReadTimesOut(c) \/ WakesUp(c) \/ ReadWoken(c)
        PROVE  /\ pc' \in [Clients -> {"closed", "open", "enter", "wait", "woken", "join"}]
               /\ size' \in [Clients -> Sizes \cup {0}]
    BY <2>4 DEF ReadCalled, ReadAtOnce, ReadWaits, ReadTimesOut, WakesUp, ReadWoken,
                Returns, TypeOK
  <2>5. CASE UNCHANGED <<pc, size>>
    BY <2>5 DEF TypeOK
  <2> QED BY <2>1, <2>2, <2>3, <2>4, <2>5, NextCases
<1> QED BY <1>1, <1>2, <1>3, <1>4, <1>5, <1>6, <1>7 DEF TypeOK

-----------------------------------------------------------------------------
(* Sleeping readers.                                                       *)

\* A thread starts with nothing, and each format keeps to its own buffers.
LEMMA CleanStep ==
  ASSUME TypeOK, DataOK, LifeInv, CleanInv, RingInv, [Next]_vars
  PROVE  CleanInv'
<1>1. CASE ThreadFlush
  BY <1>1 DEF ThreadFlush, CleanInv, ghosts
<1>2. CASE ThreadRead
  <2>1. ud_format' \in {"mpeg", "h264"} /\ (ud_format # "invalid" => ud_format' = ud_format)
    BY <1>2, TakeStep
  <2>2. thread' = "work" /\ UNCHANGED <<list, vd>>
    BY <1>2 DEF ThreadRead
  <2> QED BY <2>1, <2>2 DEF CleanInv
<1>3. CASE ThreadReorder
  <2>1. UNCHANGED <<thread, ud_format>> /\ thread = "work"
    BY <1>3 DEF ThreadReorder
  <2>2. (ud_format = "mpeg" => list' = list) /\ (ud_format = "h264" => vd' = vd)
    BY <1>3 DEF ThreadReorder
  <2> QED BY <2>1, <2>2 DEF CleanInv
<1>4. CASE ThreadWrite
  <2>1. UNCHANGED <<thread, ud_format, list, vd>> /\ thread = "work"
    BY <1>4 DEF ThreadWrite
  <2> QED BY <2>1 DEF CleanInv
<1>5. CASE ThreadPolls
  BY <1>5 DEF ThreadPolls, CleanInv, ghosts
<1>6. CASE ThreadExits
  BY <1>6 DEF ThreadExits, CleanInv
<1>7. CASE UNCHANGED vars
  BY <1>7 DEF vars, worker, ghosts, CleanInv
<1>8. ASSUME NEW c \in Clients, OpenFirst(c) PROVE CleanInv'
  <2>1. thread = "none"
    BY <1>8 DEF OpenFirst, LifeInv
  <2> QED BY <1>8, <2>1 DEF OpenFirst, CleanInv, ghosts
<1>9. ASSUME NEW c \in Clients,
             \/ OpenMore(c) \/ CloseShared(c) \/ CloseLast(c) \/ ReadCalled(c)
             \/ ReadWaits(c) \/ ReadTimesOut(c) \/ WakesUp(c)
      PROVE  CleanInv'
  <2>1. UNCHANGED <<thread, ud_format, buf, out, vd, list, stream, queue, got, lost>>
    BY <1>9 DEF OpenMore, CloseShared, CloseLast, ReadCalled, ReadWaits, ReadTimesOut,
                WakesUp, worker, ghosts
  <2> QED BY <2>1 DEF CleanInv
<1>10. ASSUME NEW c \in Clients, CloseJoined(c) PROVE CleanInv'
  BY <1>10 DEF CloseJoined, Joined, CleanInv
<1>11. ASSUME NEW c \in Clients, ReadAtOnce(c) \/ ReadWoken(c) PROVE CleanInv'
  <2>1. UNCHANGED <<thread, ud_format, buf, out, vd, list, stream>>
    BY <1>11 DEF ReadAtOnce, ReadWoken, worker
  <2>2. CASE UNCHANGED ghosts
    BY <2>1, <2>2 DEF CleanInv, ghosts
  <2>3. CASE ReadBy(c)
    <3>1. queue # <<>>
      BY <2>3, ReadStep
    <3> QED BY <2>1, <3>1 DEF CleanInv
  <2> QED BY <1>11, <2>2, <2>3 DEF ReadAtOnce, ReadWoken, ReadBy
<1> QED
  BY <1>1, <1>2, <1>3, <1>4, <1>5, <1>6, <1>7, <1>8, <1>9, <1>10, <1>11, NextCases

Awake == {c \in Clients : pc[c] = "woken"}

LEMMA AwakeCount ==
  /\ IsFiniteSet(Awake) /\ Cardinality(Awake) \in Nat
  /\ IsFiniteSet(Waiting) /\ Cardinality(Waiting) \in Nat
<1>1. Awake \in SUBSET Clients /\ Waiting \in SUBSET Clients
  BY DEF Awake, Waiting
<1> QED BY <1>1, ClientAssumption, FS_Subset, FS_CardinalityType

\* Readers that stay asleep and readers that wake up.
LEMMA WakeupSame ==
  ASSUME TypeOK, NoLostWakeup, Waiting' \subseteq Waiting, Awake \subseteq Awake',
         queue' = queue, Len(queue) \in Nat
  PROVE  NoLostWakeup'
<1>1. Cardinality(Awake) <= Cardinality(Awake')
  <2>1. IsFiniteSet(Awake')
    <3>1. Awake' \in SUBSET Clients
      BY DEF Awake
    <3> QED BY <3>1, ClientAssumption, FS_Subset
  <2> QED BY <2>1, FS_Subset
<1>2. Cardinality(Awake) \in Nat /\ Cardinality(Awake') \in Nat
  <2>1. Awake' \in SUBSET Clients
    BY DEF Awake
  <2>2. Cardinality(Awake') \in Nat
    BY <2>1, ClientAssumption, FS_Subset, FS_CardinalityType
  <2> QED BY <2>2, AwakeCount
<1>3. (\E c \in Clients : pc'[c] = "wait") => \E c \in Clients : pc[c] = "wait"
  BY DEF Waiting
<1> QED BY <1>1, <1>2, <1>3 DEF NoLostWakeup, Awake

\* Each package wakes as many readers as it needs.
LEMMA WakeupStep ==
  ASSUME TypeOK, DataOK, LifeInv, RingInv, NoLostWakeup, [Next]_vars
  PROVE  NoLostWakeup'
<1>1. RingOK /\ Len(queue) \in Nat
  BY DataIsRing, QueuedIs
<1>2. ASSUME queue' = queue, pc' = pc PROVE NoLostWakeup'
  BY <1>2 DEF NoLostWakeup
<1>3. ASSUME queue' = <<>> PROVE NoLostWakeup'
  <2>1. Awake' \in SUBSET Clients
    BY DEF Awake
  <2>2. Cardinality(Awake') \in Nat
    BY <2>1, ClientAssumption, FS_Subset, FS_CardinalityType
  <2>3. Len(queue') = 0
    BY <1>3, EmptySeq
  <2> QED BY <2>2, <2>3 DEF NoLostWakeup, Awake
<1>4. CASE ThreadWrite
  <2>1. CASE UNCHANGED pc /\ queue' = queue
    BY <1>2, <2>1
  <2>2. CASE Fits(Head(out))
    <3>1. PICK W \in SUBSET Clients :
            /\ Signal(W)
            /\ pc' = [c \in Clients |-> IF c \in W THEN "woken" ELSE pc[c]]
      BY <1>4, <2>2 DEF ThreadWrite
    <3>2. Waiting' = Waiting \ W /\ Awake' = Awake \cup W /\ Awake \cap W = {}
          /\ W \subseteq Waiting
      BY <3>1 DEF Waiting, Awake, Signal, TypeOK
    <3>3. Len(queue') = Len(queue) + 1
      <4>1. queue' = Append(queue, [id |-> Head(out).id, len |-> Head(out).len])
        BY <1>4, <2>2 DEF ThreadWrite
      <4>2. queue \in Seq(Queued \cup {[id |-> Head(out).id, len |-> Head(out).len]})
        BY <1>1, SeqMonotonic DEF RingOK
      <4> QED BY <4>1, <4>2, AppendProperties
    <3>4. IsFiniteSet(W) /\ Cardinality(W) \in Nat
      BY <3>2, AwakeCount, FS_Subset, FS_CardinalityType
    <3>5. CASE Waiting' = {}
      BY <3>5 DEF NoLostWakeup, Waiting
    <3>6. CASE Waiting' # {}
      <4>1. W # Waiting /\ Waiting # {}
        BY <3>2, <3>6
      <4>2. Cardinality(W) = 2
        <5>1. Cardinality(W) # Cardinality(Waiting)
          BY <3>2, <4>1, AwakeCount, FS_Subset
        <5> QED BY <3>1, <5>1 DEF Signal
      <4>3. Cardinality(Awake) >= Len(queue)
        BY <4>1 DEF NoLostWakeup, Waiting, Awake
      <4>4. Cardinality(Awake \cup W) = Cardinality(Awake) + Cardinality(W)
        <5>1. Cardinality(Awake \cup W) =
                Cardinality(Awake) + Cardinality(W) - Cardinality(Awake \cap W)
          BY <3>4, AwakeCount, FS_Union
        <5>2. Cardinality(Awake \cap W) = 0
          BY <3>2, FS_EmptySet
        <5> QED BY <3>4, <5>1, <5>2, AwakeCount
      <4>5. Cardinality(Awake') >= Len(queue')
        BY <1>1, <3>2, <3>3, <4>2, <4>3, <4>4, AwakeCount
      <4> QED BY <4>5 DEF NoLostWakeup, Awake
    <3> QED BY <3>5, <3>6
  <2> QED BY <1>4, <2>1, <2>2 DEF ThreadWrite
<1>5. ASSUME NEW c \in Clients, ReadAtOnce(c) \/ ReadWoken(c) PROVE NoLostWakeup'
  <2>1. pc' = [pc EXCEPT ![c] = "open"] /\ pc[c] \in {"enter", "woken"}
    BY <1>5 DEF ReadAtOnce, ReadWoken, Returns
  <2>2. Waiting' = Waiting /\ Awake' = Awake \ {c}
    BY <2>1 DEF Waiting, Awake, TypeOK
  <2>3. CASE ReadBy(c)
    <3>1. queue # <<>> /\ queue' = Tail(queue)
      BY <2>3, ReadStep
    <3>2. Len(queue') = Len(queue) - 1
      BY <1>1, <3>1, HeadTailProperties DEF RingOK
    <3>3. /\ Cardinality(Awake \ {c}) \in Nat
          /\ Cardinality(Awake \ {c}) >= Cardinality(Awake) - 1
      <4>1. /\ IsFiniteSet(Awake \ {c})
            /\ Cardinality(Awake \ {c}) =
                 IF c \in Awake THEN Cardinality(Awake) - 1 ELSE Cardinality(Awake)
        BY AwakeCount, FS_RemoveElement
      <4>2. Cardinality(Awake \ {c}) \in Nat
        BY <4>1, FS_CardinalityType
      <4> QED BY <4>1, <4>2, AwakeCount
    <3>4. CASE Waiting = {}
      BY <2>2, <3>4 DEF NoLostWakeup, Waiting
    <3>5. CASE Waiting # {}
      <4>1. Cardinality(Awake) >= Len(queue)
        BY <3>5 DEF NoLostWakeup, Waiting, Awake
      <4>2. Cardinality(Awake') >= Len(queue')
        BY <1>1, <2>2, <3>2, <3>3, <4>1, AwakeCount
      <4> QED BY <4>2 DEF NoLostWakeup, Awake
    <3> QED BY <3>4, <3>5
  <2>4. CASE RingAvail(pread, pwrite) <= 0 /\ UNCHANGED ghosts
    <3>1. queue = <<>>
      BY <1>1, <2>4, EmptyIs
    <3> QED BY <1>3, <2>4, <3>1 DEF ghosts
  <2> QED BY <1>5, <2>3, <2>4 DEF ReadAtOnce, ReadWoken, ReadBy
<1>6. ASSUME NEW c \in Clients, CloseJoined(c) PROVE NoLostWakeup'
  BY <1>3, <1>6 DEF CloseJoined
<1>7. ASSUME NEW c \in Clients, ReadWaits(c) PROVE NoLostWakeup'
  <2>1. queue = <<>>
    BY <1>1, <1>7, EmptyIs DEF ReadWaits
  <2> QED BY <1>3, <1>7, <2>1 DEF ReadWaits, ghosts
<1>8. ASSUME NEW c \in Clients,
             \/ OpenFirst(c) \/ OpenMore(c) \/ CloseShared(c) \/ CloseLast(c)
             \/ ReadCalled(c) \/ ReadTimesOut(c) \/ WakesUp(c)
      PROVE  NoLostWakeup'
  <2>1. PICK st \in {"open", "closed", "join", "enter", "woken"} :
          pc' = [pc EXCEPT ![c] = st] /\ pc[c] # "woken"
    BY <1>8 DEF OpenFirst, OpenMore, CloseShared, CloseLast, ReadCalled, ReadTimesOut,
                WakesUp, Returns
  <2>2. Waiting' \subseteq Waiting /\ Awake \subseteq Awake'
    BY <2>1 DEF Waiting, Awake, TypeOK
  <2>3. queue' = queue
    BY <1>8 DEF OpenFirst, OpenMore, CloseShared, CloseLast, ReadCalled, ReadTimesOut,
                WakesUp, ghosts
  <2> QED BY <1>1, <2>2, <2>3, WakeupSame
<1>9. ASSUME \/ ThreadFlush \/ ThreadRead \/ ThreadReorder \/ ThreadPolls \/ ThreadExits
             \/ UNCHANGED vars
      PROVE  NoLostWakeup'
  BY <1>2, <1>9 DEF ThreadFlush, ThreadRead, ThreadReorder, ThreadPolls, ThreadExits,
                    vars, ghosts
<1> QED BY <1>4, <1>5, <1>6, <1>7, <1>8, <1>9, NextCases

-----------------------------------------------------------------------------
(* The device: the life of its lock, its ring and its readers.             *)

DeviceInv ==
  TypeOK /\ LifeInv /\ DataOK /\ CleanInv /\ RingInv /\ NoLostWakeup

LEMMA DeviceInit == Init => DeviceInv
<1> SUFFICES ASSUME Init PROVE DeviceInv
  OBVIOUS
<1>1. Holders = {} /\ Cardinality(Holders) = 0
  <2>1. Holders = {}
    BY DEF Init, Holders
  <2> QED BY <2>1, FS_EmptySet
<1>2. Cardinality(Clients) \in Nat
  BY ClientAssumption, FS_CardinalityType
<1>3. TypeOK
  <2>1. vd.mask = 0 /\ Len(list) = 0
    BY NothingHeld, EmptySeq DEF Init
  <2>2. DOMAIN data = 0 .. (BufSize - 1)
    BY DEF Init
  <2>3. /\ vd.mask \in 0 .. 4 /\ Len(list) <= MaxPocCache + 1
        /\ open_cnt \in 0 .. Cardinality(Clients)
        /\ {pread, pwrite} \subseteq 0 .. (BufSize - 1)
    BY <1>2, <2>1, SizeFacts, StreamFacts DEF Init
  <2>4. /\ pc \in [Clients -> {"closed", "open", "enter", "wait", "woken", "join"}]
        /\ size \in [Clients -> Sizes \cup {0}]
    BY DEF Init
  <2>5. {alive, running, flush} \subseteq BOOLEAN
    BY DEF Init
  <2> QED BY <2>2, <2>3, <2>4, <2>5 DEF Init, TypeOK
<1>4. LifeInv
  BY <1>1, ClientAssumption DEF Init, LifeInv
<1>5. DataOK
  <2>1. HeldOK(vd) /\ stream = NoStream
    BY NothingHeld DEF Init
  <2>2. queue \in Seq(Queued) /\ buf \in Seq(Package) /\ out \in Seq(Package)
        /\ list \in Seq(Package) /\ got \in Seq(Nat) /\ lost \subseteq Nat /\ IsFiniteSet(lost)
    BY EmptySeq, FS_EmptySet DEF Init
  <2> QED BY <2>1, <2>2, NothingHeld, FS_EmptySet DEF DataOK, HeldOK
<1>6. CleanInv
  BY DEF Init, CleanInv
<1>7. RingInv
  <2>1. PICK o : o = [i \in 1 .. 1 |-> 0]
    OBVIOUS
  <2>2. Len(queue) = 0 /\ o \in [1 .. (Len(queue) + 1) -> 0 .. (BufSize - 1)] /\ o[1] = 0
    BY <2>1, SizeFacts, EmptySeq DEF Init
  <2>3. RingAvail(pread, pwrite) = 0
    BY DEF Init, RingAvail
  <2>4. Layout(o)
    BY <2>2, <2>3 DEF Layout
  <2> QED BY <2>2, <2>4 DEF RingInv
<1>8. NoLostWakeup
  BY DEF Init, NoLostWakeup
<1> QED BY <1>3, <1>4, <1>5, <1>6, <1>7, <1>8 DEF DeviceInv

LEMMA DeviceNext == DeviceInv /\ [Next]_vars => DeviceInv'
<1> SUFFICES ASSUME TypeOK, LifeInv, DataOK, CleanInv, RingInv, NoLostWakeup, [Next]_vars
             PROVE  DeviceInv'
  BY DEF DeviceInv
<1> QED
  BY LifeStep, RingStep, DataStep, TypeStep, CleanStep, WakeupStep DEF DeviceInv

\* The device invariant holds in every behaviour of open, close, read and the
\* capture thread.
THEOREM DeviceCorrect == Spec => []DeviceInv
BY DeviceInit, DeviceNext, PTL DEF Spec

\* Positions, counters and buffers keep the types the C declarations give them,
\* and the read and write positions stay inside the ring.
THEOREM TypeCorrect == Spec => []TypeOK
<1>1. DeviceInv => TypeOK
  BY DEF DeviceInv
<1> QED BY <1>1, DeviceCorrect, PTL

\* AM_USERDATA_Close destroys dev->lock only when no reader and no thread can
\* use it any more, however opens, closes and reads interleave.
THEOREM LockAliveCorrect == Spec => []LockAlive
<1>1. DeviceInv => LockAlive
  <2> SUFFICES ASSUME TypeOK, LifeInv PROVE LockAlive
    BY DEF DeviceInv
  <2>1. open_cnt \in Nat
    BY FS_CardinalityType, ClientAssumption DEF TypeOK
  <2>2. ASSUME NEW c \in Clients, pc[c] \in {"enter", "wait", "woken"} PROVE alive
    <3>1. open_cnt >= 1
      BY <2>2, HolderCount
    <3> QED BY <2>1, <3>1 DEF LifeInv
  <2>3. ASSUME thread \in {"poll", "work"} PROVE alive
    <3>1. open_cnt # 0
      BY <2>3 DEF LifeInv
    <3> QED BY <2>1, <3>1 DEF LifeInv
  <2> QED BY <2>2, <2>3 DEF LockAlive
<1> QED BY <1>1, DeviceCorrect, PTL

\* A reader sleeps beside a waiting package only if as many readers were woken
\* as packages wait: no signal of userdata_ring_buf_write is lost, with any
\* number of readers and any mix of time-outs.
THEOREM WakeupCorrect == Spec => []NoLostWakeup
<1>1. DeviceInv => NoLostWakeup
  BY DEF DeviceInv
<1> QED BY <1>1, DeviceCorrect, PTL

-----------------------------------------------------------------------------
(* The ring of bytes implements the queue of packages.                     *)

\* The package that is offered next.
LEMMA OfferIs ==
  ASSUME NEW s \in Seq(Package)
  PROVE  /\ s # <<>> => /\ [id |-> Head(s).id, len |-> Head(s).len] # NoPackage
                        /\ [id |-> Head(s).id, len |-> Head(s).len] \in Queued
  <1> DEFINE P == Package
  <1> SUFFICES ASSUME s # <<>>
               PROVE  /\ [id |-> Head(s).id, len |-> Head(s).len] # NoPackage
                      /\ [id |-> Head(s).id, len |-> Head(s).len] \in Queued
    OBVIOUS
  <1>1. Head(s) \in P
    <2>1. s \in Seq(P)
      OBVIOUS
    <2> HIDE DEF P
    <2> QED BY <2>1, HeadTailProperties
  <1>2. PICK p \in Package : p = Head(s)
    BY <1>1
  <1>3. p.id \in Nat /\ p.len \in {Short, Long} /\ p.len # 0
    BY SizeFacts DEF Package
  <1>4. [id |-> p.id, len |-> p.len] \in Queued
    BY <1>3 DEF Queued
  <1>5. [id |-> p.id, len |-> p.len] # NoPackage
    <2>1. [id |-> p.id, len |-> p.len].len # NoPackage.len
      BY <1>3 DEF NoPackage
    <2> QED BY <2>1
  <1> QED BY <1>2, <1>4, <1>5

LEMMA QueueInit == Init => Queue!Init
<1> SUFFICES ASSUME Init PROVE Queue!Init
  OBVIOUS
<1>1. out = <<>> /\ queue = <<>> /\ got = <<>> /\ lost = {} /\ RingAvail(pread, pwrite) = 0
  BY DEF Init, RingAvail
<1> QED BY <1>1 DEF Queue!Init, Queue!Empty

LEMMA QueueStep == DeviceInv /\ DeviceInv' /\ [Next]_vars => [Queue!Next]_(Queue!vars)
<1> SUFFICES ASSUME TypeOK, LifeInv, DataOK, CleanInv, RingInv, DataOK', [Next]_vars
             PROVE  [Queue!Next]_(Queue!vars)
  BY DEF DeviceInv
<1> DEFINE of == IF out = <<>> THEN NoPackage
                 ELSE [id |-> Head(out).id, len |-> Head(out).len]
           us == RingAvail(pread, pwrite)
<1>1. /\ out # <<>> => of # NoPackage /\ of \in Queued
      /\ out' # <<>> => of' # NoPackage /\ of' \in Queued
      /\ out = <<>> => of = NoPackage
      /\ out' = <<>> => of' = NoPackage
      /\ Queue!Packages = Queued
  <2>1. out \in Seq(Package) /\ out' \in Seq(Package)
    BY DEF DataOK
  <2>2. Queue!Packages = Queued
    BY DEF Queue!Packages, Queued
  <2>3. PICK s, t : s = out /\ t = out'
    OBVIOUS
  <2>4. /\ s # <<>> => /\ [id |-> Head(s).id, len |-> Head(s).len] # NoPackage
                        /\ [id |-> Head(s).id, len |-> Head(s).len] \in Queued
        /\ t # <<>> => /\ [id |-> Head(t).id, len |-> Head(t).len] # NoPackage
                        /\ [id |-> Head(t).id, len |-> Head(t).len] \in Queued
    BY <2>1, <2>3, OfferIs
  <2> QED BY <2>2, <2>3, <2>4
<1>2. ASSUME UNCHANGED <<out, ring, ghosts>> PROVE UNCHANGED Queue!vars
  <2>1. UNCHANGED <<out, pread, pwrite, queue, got, lost>>
    BY <1>2 DEF ring, ghosts
  <2> QED BY <2>1 DEF Queue!vars
<1>3. CASE ThreadReorder
  <2>1. out = <<>> /\ UNCHANGED <<ring, ghosts>>
    BY <1>3 DEF ThreadReorder
  <2>2. UNCHANGED <<pread, pwrite, queue, got, lost>>
    BY <2>1 DEF ring, ghosts
  <2>3. CASE out' = <<>>
    BY <1>2, <2>1, <2>3
  <2>4. CASE out' # <<>>
    <3>1. of = NoPackage /\ of' \in Queue!Packages
      BY <1>1, <2>1, <2>4
    <3>2. Queue!Offer
      BY <2>2, <3>1 DEF Queue!Offer
    <3> QED BY <3>2 DEF Queue!Next
  <2> QED BY <2>3, <2>4
<1>4. CASE ThreadWrite
  <2>1. PICK p \in Package : p = Head(out) /\ out # <<>>
    BY <1>4, WriteStep
  <2>2. of = [id |-> p.id, len |-> p.len] /\ of # NoPackage /\ of.len = p.len /\ of.id = p.id
    BY <1>1, <2>1
  <2>3. of' \in Queue!Packages \cup {NoPackage}
    BY <1>1
  <2>4. Fits(p) <=> us + Queue!Weight(of) <= BufSize - 1
    <3>1. RingFree = BufSize - 1 - us /\ us \in Nat
      BY DataIsRing, EmptyIs, FreeIs DEF RingOK
    <3>2. p.len \in Nat
      BY SizeFacts DEF Package
    <3>3. PICK a \in Nat, l \in Nat : a = us /\ l = p.len
      BY <3>1, <3>2
    <3>4. Fits(p) <=> BufSize - 1 - a >= l + Word
      BY <3>1, <3>3 DEF Fits
    <3>5. Queue!Weight(of) = Word + l
      BY <2>2, <3>3 DEF Queue!Weight
    <3>6. (BufSize - 1 - a >= l + Word) <=> (a + (Word + l) <= BufSize - 1)
      BY SizeFacts
    <3> QED BY <3>3, <3>4, <3>5, <3>6
  <2>5. CASE Fits(p)
    <3>1. /\ queue' = Append(queue, of) /\ us' = us + Queue!Weight(of)
          /\ got' = got /\ lost' = lost
      BY <1>4, <2>1, <2>2, <2>5, WriteStep DEF Queue!Weight
    <3>2. Queue!Put
      BY <2>2, <2>3, <2>4, <2>5, <3>1 DEF Queue!Put
    <3> QED BY <3>2 DEF Queue!Next
  <2>6. CASE ~Fits(p)
    <3>1. queue' = queue /\ got' = got /\ lost' = lost \cup {of.id} /\ UNCHANGED ring
      BY <1>4, <2>1, <2>2, <2>6, WriteStep
    <3>2. us' = us
      BY <3>1 DEF ring
    <3>3. Queue!Put
      BY <2>2, <2>3, <2>4, <2>6, <3>1, <3>2 DEF Queue!Put
    <3> QED BY <3>3 DEF Queue!Next
  <2> QED BY <2>5, <2>6
<1>5. ASSUME NEW c \in Clients, ReadBy(c) PROVE Queue!Next
  <2>1. PICK n \in Sizes : n = size[c]
    BY <1>5, ReadStep
  <2>2. /\ queue # <<>> /\ queue' = Tail(queue)
        /\ IF queue[1].len <= n
           THEN got' = Append(got, queue[1].id) /\ lost' = lost
           ELSE got' = got /\ lost' = lost \cup {queue[1].id}
        /\ us' = us - (Word + queue[1].len)
    BY <1>5, <2>1, ReadStep
  <2>3. Head(queue) = queue[1]
    BY <2>2, DataIsRing DEF RingOK
  <2>4. UNCHANGED out
    BY <1>5 DEF ReadBy, worker
  <2>5. of' = of
    BY <2>4
  <2>6. Queue!Get(n)
    BY <2>2, <2>3, <2>5 DEF Queue!Get, Queue!Weight
  <2> QED BY <2>6 DEF Queue!Next
<1>6. ASSUME NEW c \in Clients, CloseJoined(c) PROVE Queue!Next
  <2>1. /\ pread' = 0 /\ pwrite' = 0 /\ queue' = <<>> /\ got' = <<>> /\ lost' = {}
        /\ UNCHANGED out
    BY <1>6 DEF CloseJoined
  <2>2. us' = 0 /\ of' = of
    BY <2>1 DEF RingAvail
  <2>3. Queue!Reset
    BY <2>1, <2>2 DEF Queue!Reset, Queue!Empty
  <2> QED BY <2>3 DEF Queue!Next
<1>7. CASE UNCHANGED <<ring, ghosts>>
  <2>1. ThreadReorder \/ ThreadWrite \/ UNCHANGED out
    <3>1. ASSUME \/ ThreadFlush \/ ThreadRead \/ ThreadPolls \/ ThreadExits \/ UNCHANGED vars
          PROVE  UNCHANGED out
      BY <3>1 DEF ThreadFlush, ThreadRead, ThreadPolls, ThreadExits, vars, worker
    <3>2. ASSUME NEW c \in Clients, Client(c) PROVE UNCHANGED out
      BY <3>2 DEF Client, OpenFirst, OpenMore, CloseShared, CloseLast, CloseJoined,
                  ReadCalled, ReadAtOnce, ReadWaits, ReadTimesOut, WakesUp, ReadWoken, worker
    <3> QED BY <3>1, <3>2 DEF Next, Worker
  <2> QED BY <1>2, <1>3, <1>4, <1>7, <2>1
<1> QED BY <1>4, <1>5, <1>6, <1>7, RingCases

\* The ring with its length words, split copies and partial reads implements a
\* queue of whole packages (userdata_package_write, userdata_package_read), for
\* every size of the ring, of the packages and of the readers' buffers.
THEOREM QueueCorrect == Spec => ImplementsQueue
BY QueueInit, QueueStep, DeviceCorrect, PTL DEF Spec, ImplementsQueue, Queue!Spec

-----------------------------------------------------------------------------
(* MPEG: what is held back at a position of the stream.                    *)

LEMMA GapMul ==
  ASSUME NEW r \in Nat \ {0}
  PROVE  /\ Gap * (r - 1) \in Nat /\ Gap * r \in Nat /\ Gap * (r + 1) \in Nat
         /\ Gap * r = Gap * (r - 1) + Gap /\ Gap * (r + 1) = Gap * r + Gap
<1>1. PICK G \in Nat : G = Gap
  BY StreamFacts
<1>2. PICK q \in Nat : r = q + 1
  <2>1. r - 1 \in Nat /\ r = (r - 1) + 1
    OBVIOUS
  <2> QED BY <2>1
<1>3. G * q \in Nat /\ G * (q + 1) = G * q + G /\ G * (q + 1 + 1) = G * q + G + G
  BY MulNat
<1>4. r - 1 = q /\ r + 1 = q + 1 + 1
  BY <1>2
<1> QED BY <1>1, <1>2, <1>3, <1>4

\* A position and its successor.
Succeeds(x, p, y) ==
  \/ /\ x.due # "none" /\ p.st = x.due
     /\ x.b = 0 => p.type = "I" /\ p.id = Gap * x.ref + 1
     /\ x.b # 0 => p.type = "B" /\ p.id = Gap * (x.ref - 1) + 2 * x.b + 1
     /\ y.ref = x.ref /\ y.b = x.b /\ y.due = "none"
  \/ /\ x.due = "none" /\ p.type = "I" /\ p.st \in {"frame"} \cup FirstFields
     /\ p.id = Gap * (x.ref + 1)
     /\ y.ref = x.ref + 1 /\ y.b = 0 /\ y.due = Opposite(p.st)
  \/ /\ x.due = "none" /\ p.type = "B" /\ p.st \in {"frame"} \cup FirstFields
     /\ p.id = Gap * (x.ref - 1) + 2 * (x.b + 1)
     /\ y.ref = x.ref /\ y.b = x.b + 1 /\ y.due = Opposite(p.st)

LEMMA AfterIs ==
  ASSUME NEW x \in Positions, NEW p \in Package, NEW y, y = After(x, p), Follows(x, p)
  PROVE  Succeeds(x, p, y)
<1>1. /\ x.ref \in Nat /\ x.ref > 0 /\ x.b \in Nat
      /\ x = [ref |-> x.ref, b |-> x.b, due |-> x.due] /\ p.type \in {"I", "B"}
  BY StreamFacts DEF Positions, Package
<1>2. CASE x.due # "none"
  <2>1. y = [ref |-> x.ref, b |-> x.b, due |-> "none"]
    BY <1>1, <1>2 DEF After
  <2>2. /\ p.st = x.due /\ p.type = (IF x.b = 0 THEN "I" ELSE "B") /\ p.id = Base(x) + 1
    BY <1>2 DEF Follows
  <2>3. /\ x.b = 0 => Base(x) = Gap * x.ref
        /\ x.b # 0 => Base(x) = Gap * (x.ref - 1) + 2 * x.b
    BY DEF Base
  <2> QED BY <1>2, <2>1, <2>2, <2>3 DEF Succeeds
<1>3. CASE x.due = "none" /\ p.type = "I"
  <2>1. y = [ref |-> x.ref + 1, b |-> 0, due |-> Opposite(p.st)]
    BY <1>3 DEF After
  <2>2. p.st \in {"frame"} \cup FirstFields /\ p.id = Base(y)
    BY <1>3 DEF Follows
  <2>3. Base(y) = Gap * (x.ref + 1)
    BY <2>1 DEF Base
  <2> QED BY <1>3, <2>1, <2>2, <2>3 DEF Succeeds
<1>4. CASE x.due = "none" /\ p.type = "B"
  <2>1. y = [ref |-> x.ref, b |-> x.b + 1, due |-> Opposite(p.st)]
    BY <1>4 DEF After
  <2>2. p.st \in {"frame"} \cup FirstFields /\ p.id = Base(y)
    BY <1>4 DEF Follows
  <2>3. x.b + 1 # 0
    BY <1>1
  <2>4. Base(y) = Gap * (x.ref - 1) + 2 * (x.b + 1)
    BY <2>1, <2>3 DEF Base
  <2> QED BY <1>4, <2>1, <2>2, <2>4 DEF Succeeds
<1> QED BY <1>1, <1>2, <1>3, <1>4

\* A picture of the stream never overwrites a field that is held, and only B
\* pictures before the first reference are dropped.
LEMMA MaskTurn ==
  ASSUME NEW x \in Positions, NEW y \in Positions, NEW p \in Package, Succeeds(x, p, y),
         NEW v, HeldOK(v), MaskAt(v, x), NEW r, MpegTable(v, p, r)
  PROVE  /\ MaskAt(r.vd, y)
         /\ p.type = "B" /\ v.mask < 3 => v.mask = 0 /\ p.id < Gap
         /\ p.type = "I" /\ p.st = "top" => v.mask # 1
         /\ p.type = "I" /\ p.st = "bottom" => v.mask # 2
<1>1. /\ x.ref \in Nat \ {0} /\ x.b \in Nat /\ x.due \in {"none", "top", "bottom"}
      /\ y.ref \in Nat \ {0} /\ y.b \in Nat /\ y.b <= MaxPictures
      /\ v.mask \in 0 .. 4
  BY StreamFacts DEF Positions, HeldOK, HeldRec
<1>2. p.type \in {"I", "B"} /\ p.st \in {"frame", "top", "bottom"}
  BY DEF Package
<1>3. CASE p.type = "B"
  <2>1. /\ y.ref = x.ref /\ (x.due = "none" \/ x.b > 0) /\ (y.due = "none" \/ y.b > 0)
        /\ p.id <= Gap * (x.ref - 1) + 2 * y.b + 1
    <3>1. Gap * (x.ref - 1) \in Nat
      BY <1>1, GapMul
    <3>2. PICK A \in Nat : A = Gap * (x.ref - 1)
      BY <3>1
    <3>3. CASE x.due # "none"
      <4>1. x.b # 0 /\ y.ref = x.ref /\ y.due = "none" /\ y.b = x.b /\ p.id = A + 2 * x.b + 1
        BY <1>3, <3>2, <3>3 DEF Succeeds
      <4> QED BY <1>1, <3>2, <4>1
    <3>4. CASE x.due = "none"
      <4>1. y.ref = x.ref /\ y.b = x.b + 1 /\ p.id = A + 2 * (x.b + 1)
        BY <1>3, <3>2, <3>4 DEF Succeeds
      <4> QED BY <1>1, <3>2, <3>4, <4>1
    <3> QED BY <3>3, <3>4
  <2>2. CASE x.ref = 1
    <3>1. v.mask = 0 /\ r.vd.mask = 0
      BY <1>3, <2>2 DEF MaskAt, MpegTable
    <3>2. p.id < Gap
      <4>1. Gap * (x.ref - 1) = 0
        BY <2>2, StreamFacts
      <4>2. p.id \in Nat
        BY DEF Package
      <4> QED BY <1>1, <2>1, <4>1, <4>2, StreamFacts
    <3>3. MaskAt(r.vd, y)
      BY <1>1, <2>1, <2>2, <3>1 DEF MaskAt
    <3> QED BY <1>3, <3>1, <3>2, <3>3
  <2>3. CASE x.ref # 1
    <3>1. v.mask \in {3, 4} /\ x.ref > 1
      BY <1>1, <2>1, <2>3 DEF MaskAt
    <3>2. r.vd = v
      BY <1>3, <3>1 DEF MpegTable
    <3>3. MaskAt(r.vd, y)
      BY <1>1, <2>1, <3>1, <3>2 DEF MaskAt
    <3> QED BY <1>3, <3>1, <3>3
  <2> QED BY <2>2, <2>3
<1>4. CASE p.type = "I" /\ x.due = "none"
  <2>1. y.ref = x.ref + 1 /\ y.b = 0 /\ y.due = Opposite(p.st) /\ y.ref > 1
    BY <1>1, <1>4 DEF Succeeds
  <2>2. v.mask \in {0, 3, 4}
    BY <1>1, <1>4 DEF MaskAt
  <2>3. CASE p.st = "frame"
    <3>1. r.vd.mask = 4 /\ y.due = "none"
      BY <1>4, <2>1, <2>3, StreamFacts DEF MpegTable
    <3> QED BY <1>1, <1>4, <2>1, <2>2, <2>3, <3>1 DEF MaskAt
  <2>4. CASE p.st = "top"
    <3>1. r.vd.mask \in {1, 3} /\ y.due = "bottom"
      BY <1>4, <2>1, <2>2, <2>4, StreamFacts DEF MpegTable
    <3> QED BY <1>1, <1>4, <2>1, <2>2, <2>4, <3>1 DEF MaskAt
  <2>5. CASE p.st = "bottom"
    <3>1. r.vd.mask \in {2, 3} /\ y.due = "top"
      BY <1>4, <2>1, <2>2, <2>5, StreamFacts DEF MpegTable
    <3> QED BY <1>1, <1>4, <2>1, <2>2, <2>5, <3>1 DEF MaskAt
  <2> QED BY <1>2, <2>3, <2>4, <2>5
<1>5. CASE p.type = "I" /\ x.due # "none"
  <2>1. x.b = 0 /\ y.ref = x.ref /\ y.b = 0 /\ y.due = "none" /\ p.st = x.due
    BY <1>5 DEF Succeeds
  <2>2. x.ref > 1
    <3>1. v.mask # 0
      BY <1>1, <1>5, <2>1 DEF MaskAt
    <3> QED BY <1>1, <3>1 DEF MaskAt
  <2>3. CASE x.due = "top"
    <3>1. v.mask \in {2, 3}
      BY <2>1, <2>3 DEF MaskAt
    <3>2. r.vd.mask = 3
      BY <1>5, <2>1, <2>3, <3>1 DEF MpegTable
    <3> QED BY <1>1, <1>5, <2>1, <2>2, <2>3, <3>1, <3>2 DEF MaskAt
  <2>4. CASE x.due = "bottom"
    <3>1. v.mask \in {1, 3}
      BY <2>1, <2>4 DEF MaskAt
    <3>2. r.vd.mask = 3
      BY <1>5, <2>1, <2>4, <3>1 DEF MpegTable
    <3> QED BY <1>1, <1>5, <2>1, <2>2, <2>4, <3>1, <3>2 DEF MaskAt
  <2> QED BY <1>1, <1>5, <2>3, <2>4
<1> QED BY <1>2, <1>3, <1>4, <1>5

\* Captions in display order between two others.
Between(s, lo, hi) ==
  /\ lo <= hi
  /\ \A i \in 1 .. Len(s) : lo < s[i].id /\ s[i].id <= hi
  /\ \A i, j \in 1 .. Len(s) : i < j => s[i].id < s[j].id

LEMMA BetweenFew ==
  ASSUME NEW lo \in Nat, NEW hi \in Nat, lo <= hi
  PROVE  /\ Between(<<>>, lo, hi)
         /\ \A e : lo < e.id /\ e.id <= hi => Between(<<e>>, lo, hi)
         /\ \A e, f : lo < e.id /\ e.id < f.id /\ f.id <= hi /\ e.id \in Nat /\ f.id \in Nat =>
              Between(<<e, f>>, lo, hi)
<1>1. Between(<<>>, lo, hi)
  BY DEF Between
<1>2. ASSUME NEW e, lo < e.id, e.id <= hi PROVE Between(<<e>>, lo, hi)
  <2>1. PICK s : s = <<e>>
    OBVIOUS
  <2>2. Len(s) = 1 /\ s[1] = e
    BY <2>1
  <2>3. \A i \in 1 .. Len(s) : i = 1
    BY <2>2
  <2>4. Between(s, lo, hi)
    BY <1>2, <2>2, <2>3 DEF Between
  <2> QED BY <2>1, <2>4
<1>3. ASSUME NEW e, NEW f, lo < e.id, e.id < f.id, f.id <= hi, e.id \in Nat, f.id \in Nat
      PROVE  Between(<<e, f>>, lo, hi)
  <2>1. PICK s : s = <<e, f>>
    OBVIOUS
  <2>2. Len(s) = 2 /\ s[1] = e /\ s[2] = f
    BY <2>1
  <2>3. \A i \in 1 .. Len(s) : i = 1 \/ i = 2
    BY <2>2
  <2>4. lo < f.id /\ e.id <= hi
    BY <1>3
  <2>5. Between(s, lo, hi)
    BY <1>3, <2>2, <2>3, <2>4 DEF Between
  <2> QED BY <2>1, <2>5
<1> QED BY <1>1, <1>2, <1>3

\* If the top field is coded first, a picture hands on what comes after all that
\* was handed on before, in display order.
LEMMA HeldTurn ==
  ASSUME TopFirst,
         NEW x \in Positions, NEW y \in Positions, NEW p \in Package, Succeeds(x, p, y),
         NEW v, HeldOK(v), MaskAt(v, x), HeldAt(v, x), NEW r, MpegTable(v, p, r)
  PROVE  HeldAt(r.vd, y) /\ Between(r.out, Limit(x), Limit(y))
<1>1. /\ x.ref \in Nat \ {0} /\ x.b \in Nat /\ x.b <= MaxPictures
      /\ x.due \in {"none", "bottom"}
      /\ y.ref \in Nat \ {0} /\ y.b \in Nat /\ y.b <= MaxPictures
      /\ v.mask \in 0 .. 4
  BY StreamFacts DEF Positions, HeldOK, HeldRec, HeldAt
<1>2. p.type \in {"I", "B"} /\ p.st \in {"frame", "top", "bottom"} /\ p.id \in Nat
  BY DEF Package
<1>3. PICK G \in Nat, A \in Nat :
        /\ G = Gap /\ A = Gap * (x.ref - 1) /\ G >= 2 /\ 2 * x.b + 1 < G
        /\ Gap * x.ref = A + G /\ Gap * (x.ref + 1) = A + G + G
  <2>1. PICK q \in Nat \ {0} : q = x.ref
    BY <1>1
  <2>2. /\ Gap * (q - 1) \in Nat /\ Gap * q \in Nat /\ Gap * (q + 1) \in Nat
        /\ Gap * q = Gap * (q - 1) + Gap /\ Gap * (q + 1) = Gap * q + Gap
    BY GapMul
  <2>3. Gap \in Nat /\ Gap >= 2 /\ 2 * x.b + 1 < Gap
    BY <1>1, StreamFacts
  <2> QED BY <2>1, <2>2, <2>3
<1>4. Limit(x) = A + 2 * x.b + (IF x.due = "none" THEN 1 ELSE 0)
  BY <1>3 DEF Limit
<1>5. p.st # "bottom" \/ x.due = "bottom"
  BY <1>1 DEF Succeeds, TopFirst
<1>6. CASE p.type = "B"
  <2>1. /\ y.ref = x.ref /\ (x.due = "none" \/ x.b > 0) /\ (y.due = "none" \/ y.b > 0)
        /\ y.due # "top"
        /\ Limit(x) < p.id /\ p.id <= Limit(y) /\ Limit(x) \in Nat /\ Limit(y) \in Nat
        /\ Limit(x) <= Limit(y)
    <3>1. CASE x.due # "none"
      <4>1. x.b # 0 /\ y.ref = x.ref /\ y.due = "none" /\ y.b = x.b /\ p.id = A + 2 * x.b + 1
        BY <1>3, <1>6, <3>1 DEF Succeeds
      <4>2. Limit(y) = A + 2 * x.b + 1
        BY <1>3, <4>1 DEF Limit
      <4> QED BY <1>1, <1>4, <3>1, <4>1, <4>2
    <3>2. CASE x.due = "none"
      <4>1. y.ref = x.ref /\ y.b = x.b + 1 /\ p.id = A + 2 * (x.b + 1) /\ y.due = Opposite(p.st)
        BY <1>3, <1>6, <3>2 DEF Succeeds
      <4>2. y.due \in {"none", "bottom"}
        BY <1>2, <1>5, <3>2, <4>1, StreamFacts
      <4>3. Limit(y) = A + 2 * (x.b + 1) + (IF y.due = "none" THEN 1 ELSE 0)
        BY <1>3, <4>1 DEF Limit
      <4>4. Limit(y) \in {A + 2 * (x.b + 1), A + 2 * (x.b + 1) + 1}
        BY <1>1, <4>3
      <4>5. Limit(x) = A + 2 * x.b + 1
        BY <1>4, <3>2
      <4>6. y.b > 0
        BY <1>1, <4>1
      <4> QED BY <1>1, <3>2, <4>1, <4>2, <4>4, <4>5, <4>6
    <3> QED BY <3>1, <3>2
  <2>2. CASE x.ref = 1
    <3>1. v.mask = 0 /\ r.vd.mask = 0 /\ r.out = <<>>
      BY <1>6, <2>2 DEF MaskAt, MpegTable
    <3>2. HeldAt(r.vd, y)
      BY <1>1, <2>1, <3>1 DEF HeldAt
    <3> QED BY <2>1, <3>1, <3>2, BetweenFew
  <2>3. CASE x.ref # 1
    <3>1. v.mask \in {3, 4}
      BY <1>1, <2>1, <2>3 DEF MaskAt
    <3>2. r.vd = v /\ r.out = <<p>>
      BY <1>6, <3>1 DEF MpegTable
    <3>3. HeldAt(r.vd, y)
      BY <1>1, <2>1, <3>1, <3>2 DEF HeldAt
    <3> QED BY <2>1, <3>2, <3>3, BetweenFew
  <2> QED BY <2>2, <2>3
<1>7. CASE p.type = "I" /\ x.due = "none"
  <2>1. /\ y.ref = x.ref + 1 /\ y.b = 0 /\ y.due = Opposite(p.st) /\ y.ref > 1
        /\ p.id = Gap * y.ref /\ p.st # "bottom"
    BY <1>1, <1>5, <1>7 DEF Succeeds
  <2>2. /\ v.mask \in {0, 3, 4}
        /\ v.mask # 0 => v.buf[1].id = A + G
        /\ v.mask = 3 => v.buf[2].id = A + G + 1
    BY <1>1, <1>3, <1>7 DEF MaskAt, HeldAt
  <2>3. Limit(x) = A + 2 * x.b + 1 /\ Limit(x) \in Nat /\ Limit(x) < A + G
    BY <1>1, <1>3, <1>4, <1>7
  <2>4. Limit(y) = A + G + (IF y.due = "none" THEN 1 ELSE 0)
    <3>1. y.ref - 1 = x.ref
      BY <1>1, <2>1
    <3>2. Gap * (y.ref - 1) = A + G
      BY <1>3, <3>1
    <3> QED BY <2>1, <3>2 DEF Limit
  <2>5. CASE p.st = "frame"
    <3>1. /\ r.vd.mask = 4 /\ y.due = "none" /\ r.vd.buf[1] = p
          /\ \/ v.mask = 0 /\ r.out = <<>>
             \/ v.mask = 4 /\ r.out = <<v.buf[1]>>
             \/ v.mask = 3 /\ r.out = <<v.buf[1], v.buf[2]>>
      BY <1>7, <2>1, <2>2, <2>5, StreamFacts DEF MpegTable
    <3>2. HeldAt(r.vd, y)
      BY <2>1, <3>1 DEF HeldAt
    <3>3. Limit(y) = A + G + 1 /\ Limit(y) \in Nat /\ Limit(x) <= Limit(y)
      BY <2>3, <2>4, <3>1
    <3>4. CASE v.mask = 0
      BY <2>3, <3>1, <3>2, <3>3, <3>4, BetweenFew
    <3>5. CASE v.mask = 4
      <4>1. Limit(x) < v.buf[1].id /\ v.buf[1].id <= Limit(y) /\ r.out = <<v.buf[1]>>
        BY <2>2, <2>3, <3>1, <3>3, <3>5
      <4> QED BY <2>3, <3>2, <3>3, <4>1, BetweenFew
    <3>6. CASE v.mask = 3
      <4>1. /\ Limit(x) < v.buf[1].id /\ v.buf[1].id < v.buf[2].id /\ v.buf[2].id <= Limit(y)
            /\ v.buf[1].id \in Nat /\ v.buf[2].id \in Nat
            /\ r.out = <<v.buf[1], v.buf[2]>>
        BY <2>2, <2>3, <3>1, <3>3, <3>6
      <4> QED BY <2>3, <3>2, <3>3, <4>1, BetweenFew
    <3> QED BY <2>2, <3>4, <3>5, <3>6
  <2>6. CASE p.st = "top"
    <3>1. /\ y.due = "bottom" /\ r.vd.buf[1] = p /\ r.vd.buf[2] = v.buf[2]
          /\ \/ v.mask = 0 /\ r.vd.mask = 1 /\ r.out = <<>>
             \/ v.mask = 3 /\ r.vd.mask = 3 /\ r.out = <<v.buf[1]>>
             \/ v.mask = 4 /\ r.vd.mask = 1 /\ r.out = <<v.buf[1]>>
      BY <1>7, <2>1, <2>2, <2>6, StreamFacts DEF MpegTable
    <3>2. HeldAt(r.vd, y)
      <4>1. y.ref - 1 = x.ref
        BY <1>1, <2>1
      <4>2. r.vd.mask = 3 => r.vd.buf[2].id = Gap * (y.ref - 1) + 1
        BY <1>3, <2>2, <3>1, <4>1
      <4>3. r.vd.buf[1].id = Gap * y.ref /\ r.vd.mask # 4
        BY <2>1, <3>1
      <4> QED BY <2>1, <3>1, <4>2, <4>3 DEF HeldAt
    <3>3. Limit(y) = A + G /\ Limit(y) \in Nat /\ Limit(x) <= Limit(y)
      BY <2>3, <2>4, <3>1
    <3>4. CASE v.mask = 0
      BY <2>3, <3>1, <3>2, <3>3, <3>4, BetweenFew
    <3>5. CASE v.mask # 0
      <4>1. Limit(x) < v.buf[1].id /\ v.buf[1].id <= Limit(y) /\ r.out = <<v.buf[1]>>
        BY <2>2, <2>3, <3>1, <3>3, <3>5
      <4> QED BY <2>3, <3>2, <3>3, <4>1, BetweenFew
    <3> QED BY <3>4, <3>5
  <2> QED BY <1>2, <2>1, <2>5, <2>6
<1>8. CASE p.type = "I" /\ x.due # "none"
  <2>1. /\ x.b = 0 /\ y.ref = x.ref /\ y.b = 0 /\ y.due = "none" /\ x.due = "bottom"
        /\ p.st = "bottom" /\ p.id = Gap * x.ref + 1
    BY <1>1, <1>8 DEF Succeeds
  <2>2. /\ v.mask \in {1, 3} /\ v.buf[1].id = Gap * x.ref
        /\ v.mask = 3 => v.buf[2].id = A + 1
    BY <1>3, <2>1 DEF MaskAt, HeldAt
  <2>3. Limit(x) = A /\ Limit(y) = A + 1
    BY <1>3, <1>4, <2>1 DEF Limit
  <2>4. /\ r.vd.mask = 3 /\ r.vd.buf[2] = p /\ r.vd.buf[1] = v.buf[1]
        /\ \/ v.mask = 1 /\ r.out = <<>>
           \/ v.mask = 3 /\ r.out = <<v.buf[2]>>
    BY <1>8, <2>1, <2>2 DEF MpegTable
  <2>5. HeldAt(r.vd, y)
    BY <2>1, <2>2, <2>4 DEF HeldAt
  <2>6. CASE v.mask = 1
    BY <2>3, <2>4, <2>5, <2>6, BetweenFew
  <2>7. CASE v.mask = 3
    <3>1. Limit(x) < v.buf[2].id /\ v.buf[2].id <= Limit(y) /\ r.out = <<v.buf[2]>>
          /\ Limit(x) \in Nat /\ Limit(y) \in Nat /\ Limit(x) <= Limit(y)
      BY <2>2, <2>3, <2>4, <2>7
    <3> QED BY <2>5, <3>1, BetweenFew
  <2> QED BY <2>2, <2>6, <2>7
<1> QED BY <1>2, <1>6, <1>7, <1>8

-----------------------------------------------------------------------------
(* The identifiers of packages.                                            *)

LEMMA IdsAppend ==
  ASSUME NEW S, NEW s \in Seq(S), NEW e \in S
  PROVE  /\ Ids(Append(s, e)) = Ids(s) \cup {e.id}
         /\ ToSet(Append(s, e)) = ToSet(s) \cup {e}
<1>t. PICK t : t = Append(s, e)
  OBVIOUS
<1>1. PICK n \in Nat :
        /\ t = Append(s, e) /\ n = Len(s) /\ DOMAIN s = 1 .. n /\ DOMAIN t = 1 .. (n + 1)
        /\ \A i \in 1 .. n : t[i] = s[i]
        /\ t[n + 1] = e
  <2>1. /\ Append(s, e) \in Seq(S) /\ Len(Append(s, e)) = Len(s) + 1
        /\ \A i \in 1 .. Len(s) : Append(s, e)[i] = s[i]
        /\ Append(s, e)[Len(s) + 1] = e
    BY AppendProperties
  <2>2. /\ Len(s) \in Nat /\ DOMAIN s = 1 .. Len(s)
        /\ DOMAIN Append(s, e) = 1 .. Len(Append(s, e))
    BY <2>1, LenProperties
  <2> QED BY <1>t, <2>1, <2>2
<1>2. \A i \in 1 .. (n + 1) : i \in 1 .. n \/ i = n + 1
  OBVIOUS
<1>3. n + 1 \in 1 .. (n + 1) /\ \A i \in 1 .. n : i \in 1 .. (n + 1)
  OBVIOUS
<1>4. Ids(t) = Ids(s) \cup {e.id}
  BY <1>1, <1>2, <1>3 DEF Ids
<1>5. ToSet(t) = ToSet(s) \cup {e}
  BY <1>1, <1>2, <1>3 DEF ToSet
<1> QED BY <1>1, <1>4, <1>5

LEMMA IdsTail ==
  ASSUME NEW S, NEW s \in Seq(S), s # <<>>
  PROVE  Ids(s) = {s[1].id} \cup Ids(Tail(s)) /\ s[1].id \in Ids(s)
<1>t. PICK t : t = Tail(s)
  OBVIOUS
<1>1. PICK n \in Nat :
        /\ t = Tail(s) /\ n + 1 = Len(s) /\ DOMAIN s = 1 .. (n + 1) /\ DOMAIN t = 1 .. n
        /\ \A i \in 1 .. n : t[i] = s[i + 1]
  <2>1. Tail(s) \in Seq(S) /\ Len(Tail(s)) = Len(s) - 1
        /\ \A i \in 1 .. Len(Tail(s)) : Tail(s)[i] = s[i + 1]
    BY HeadTailProperties
  <2>2. Len(s) \in Nat \ {0} /\ DOMAIN s = 1 .. Len(s) /\ DOMAIN Tail(s) = 1 .. Len(Tail(s))
    BY <2>1, EmptySeq, LenProperties
  <2>3. PICK k \in Nat : k + 1 = Len(s) /\ Len(Tail(s)) = k
    <3>1. Len(s) - 1 \in Nat /\ (Len(s) - 1) + 1 = Len(s)
      BY <2>2
    <3> QED BY <2>1, <3>1
  <2> QED BY <1>t, <2>1, <2>2, <2>3
<1>2. \A i \in 1 .. (n + 1) : i = 1 \/ (i - 1 \in 1 .. n /\ i = (i - 1) + 1)
  OBVIOUS
<1>3. 1 \in 1 .. (n + 1) /\ \A i \in 1 .. n : i + 1 \in 1 .. (n + 1)
  OBVIOUS
<1>4. Ids(s) = {s[1].id} \cup Ids(t)
  <2>1. Ids(t) \subseteq Ids(s) /\ s[1].id \in Ids(s)
    BY <1>1, <1>3 DEF Ids
  <2>2. ASSUME NEW i \in 1 .. (n + 1) PROVE s[i].id \in {s[1].id} \cup Ids(t)
    <3>1. CASE i = 1
      BY <3>1
    <3>2. CASE i - 1 \in 1 .. n /\ i = (i - 1) + 1
      <4>1. t[i - 1] = s[i]
        BY <1>1, <3>2
      <4> QED BY <1>1, <3>2, <4>1 DEF Ids
    <3> QED BY <1>2, <3>1, <3>2
  <2>3. Ids(s) \subseteq {s[1].id} \cup Ids(t)
    BY <1>1, <2>2 DEF Ids
  <2> QED BY <2>1, <2>3
<1> QED BY <1>1, <1>4

LEMMA IdsConcat ==
  ASSUME NEW S, NEW s \in Seq(S), NEW t \in Seq(S)
  PROVE  Ids(s \o t) = Ids(s) \cup Ids(t)
<1>u. PICK u : u = s \o t
  OBVIOUS
<1>1. PICK m \in Nat, n \in Nat :
        /\ u = s \o t /\ m = Len(s) /\ n = Len(t)
        /\ DOMAIN s = 1 .. m /\ DOMAIN t = 1 .. n /\ DOMAIN u = 1 .. (m + n)
        /\ \A i \in 1 .. (m + n) : u[i] = IF i <= m THEN s[i] ELSE t[i - m]
  <2>1. /\ s \o t \in Seq(S)
        /\ Len(s \o t) = Len(s) + Len(t)
        /\ \A i \in 1 .. Len(s) + Len(t) : (s \o t)[i] =
             IF i <= Len(s) THEN s[i] ELSE t[i - Len(s)]
    BY ConcatProperties
  <2>2. /\ Len(s) \in Nat /\ DOMAIN s = 1 .. Len(s) /\ Len(t) \in Nat /\ DOMAIN t = 1 .. Len(t)
        /\ DOMAIN (s \o t) = 1 .. Len(s \o t)
    BY <2>1, LenProperties
  <2> QED BY <1>u, <2>1, <2>2
<1>2. \A i \in 1 .. m : i \in 1 .. (m + n) /\ i <= m
  OBVIOUS
<1>3. \A i \in 1 .. n : i + m \in 1 .. (m + n) /\ ~(i + m <= m) /\ (i + m) - m = i
  OBVIOUS
<1>4. \A i \in 1 .. (m + n) : i \in 1 .. m \/ (i - m \in 1 .. n /\ ~(i <= m))
  OBVIOUS
<1>5. Ids(s) \subseteq Ids(u)
  BY <1>1, <1>2 DEF Ids
<1>6. Ids(t) \subseteq Ids(u)
  <2> SUFFICES ASSUME NEW i \in 1 .. n PROVE t[i].id \in Ids(u)
    BY <1>1 DEF Ids
  <2>1. u[i + m] = t[i]
    BY <1>1, <1>3
  <2> QED BY <1>1, <1>3, <2>1 DEF Ids
<1>7. Ids(u) \subseteq Ids(s) \cup Ids(t)
  <2> SUFFICES ASSUME NEW i \in 1 .. (m + n) PROVE u[i].id \in Ids(s) \cup Ids(t)
    BY <1>1 DEF Ids
  <2>1. CASE i \in 1 .. m
    <3>1. u[i] = s[i]
      BY <1>1, <1>2, <2>1
    <3> QED BY <1>1, <2>1, <3>1 DEF Ids
  <2>2. CASE i - m \in 1 .. n /\ ~(i <= m)
    <3>1. u[i] = t[i - m]
      BY <1>1, <2>2
    <3> QED BY <1>1, <2>2, <3>1 DEF Ids
  <2> QED BY <1>4, <2>1, <2>2
<1> QED BY <1>1, <1>5, <1>6, <1>7

LEMMA IdsFew ==
  /\ Ids(<<>>) = {} /\ ToSet(<<>>) = {}
  /\ \A e : Ids(<<e>>) = {e.id}
  /\ \A e, f : Ids(<<e, f>>) = {e.id, f.id}
<1>1. Ids(<<>>) = {} /\ ToSet(<<>>) = {}
  BY DEF Ids, ToSet
<1>2. ASSUME NEW e PROVE Ids(<<e>>) = {e.id}
  <2>1. PICK s : s = <<e>>
    OBVIOUS
  <2>2. DOMAIN s = {1} /\ s[1] = e
    BY <2>1
  <2>3. Ids(s) = {e.id}
    BY <2>2 DEF Ids
  <2> QED BY <2>1, <2>3
<1>3. ASSUME NEW e, NEW f PROVE Ids(<<e, f>>) = {e.id, f.id}
  <2>1. PICK s : s = <<e, f>>
    OBVIOUS
  <2>2. DOMAIN s = {1, 2} /\ s[1] = e /\ s[2] = f
    BY <2>1
  <2>3. Ids(s) = {e.id, f.id}
    BY <2>2 DEF Ids
  <2> QED BY <2>1, <2>3
<1> QED BY <1>1, <1>2, <1>3

\* Who changes out.
LEMMA OutStep ==
  ASSUME [Next]_vars
  PROVE  ThreadReorder \/ ThreadWrite \/ UNCHANGED out
<1>1. ASSUME \/ ThreadFlush \/ ThreadRead \/ ThreadPolls \/ ThreadExits \/ UNCHANGED vars
      PROVE  UNCHANGED out
  BY <1>1 DEF ThreadFlush, ThreadRead, ThreadPolls, ThreadExits, vars, worker
<1>2. ASSUME NEW c \in Clients, Client(c) PROVE UNCHANGED out
  BY <1>2 DEF Client, OpenFirst, OpenMore, CloseShared, CloseLast, CloseJoined,
              ReadCalled, ReadAtOnce, ReadWaits, ReadTimesOut, WakesUp, ReadWoken, worker
<1> QED BY <1>1, <1>2 DEF Next, Worker

\* Only the reordering hands on captions.
LEMMA DoneStep ==
  ASSUME TypeOK, DataOK, LifeInv, RingInv, [Next]_vars
  PROVE  /\ ~ThreadReorder => Done' \subseteq Done
         /\ ThreadReorder => Done' = Done \cup Ids(out') /\ out = <<>>
<1>1. queue \in Seq(Queued) /\ out \in Seq(Package) /\ got \in Seq(Nat)
  BY DEF DataOK
<1>2. CASE ThreadReorder
  <2>1. out = <<>> /\ UNCHANGED <<queue, got>>
    BY <1>2 DEF ThreadReorder, ghosts
  <2>2. Ids(out) = {}
    BY <2>1, IdsFew
  <2> QED BY <1>2, <2>1, <2>2 DEF Done
<1>3. CASE ThreadWrite
  <2>1. out # <<>> /\ Head(out) \in Package /\ out' = Tail(out) /\ got' = got
    BY <1>3, WriteStep
  <2>2. Head(out) = out[1]
    BY <1>1, <2>1
  <2>3. Ids(out) = {Head(out).id} \cup Ids(Tail(out))
    BY <1>1, <2>1, <2>2, IdsTail
  <2>4. PICK q : q = [id |-> Head(out).id, len |-> Head(out).len]
    OBVIOUS
  <2>a. q.id = Head(out).id
    BY <2>4
  <2>5. queue' = queue \/ queue' = Append(queue, q)
    BY <1>3, <2>4, WriteStep
  <2>6. q \in Queued
    BY <2>1, <2>4 DEF Queued, Package
  <2>7. Ids(Append(queue, q)) = Ids(queue) \cup {q.id}
    BY <1>1, <2>6, IdsAppend
  <2>8. Done' \subseteq Done
    BY <2>1, <2>3, <2>a, <2>5, <2>7 DEF Done
  <2>9. ~ThreadReorder
    BY <2>1 DEF ThreadReorder
  <2> QED BY <2>8, <2>9
<1>4. ASSUME ~ThreadReorder, ~ThreadWrite PROVE Done' \subseteq Done
  <2>1. UNCHANGED out
    BY <1>4, OutStep
  <2>2. CASE UNCHANGED <<ring, ghosts>>
    BY <2>1, <2>2 DEF ghosts, Done
  <2>3. ASSUME NEW c \in Clients, ReadBy(c) PROVE Done' \subseteq Done
    <3>1. queue # <<>> /\ queue' = Tail(queue)
      BY <2>3, ReadStep
    <3>2. Ids(queue) = {queue[1].id} \cup Ids(Tail(queue))
      BY <1>1, <3>1, IdsTail
    <3>3. PICK id : id = queue[1].id
      OBVIOUS
    <3>4. got' = got \/ got' = Append(got, id)
      BY <2>3, <3>3, ReadStep
    <3>5. id \in Nat
      <4>1. RingOK /\ 1 \in 1 .. Len(queue)
        BY <1>1, <3>1, DataIsRing, EmptySeq
      <4> QED BY <3>3, <4>1, QueuedIs
    <3>6. ToSet(Append(got, id)) = ToSet(got) \cup {id}
      BY <1>1, <3>5, IdsAppend
    <3> QED BY <2>1, <3>1, <3>2, <3>3, <3>4, <3>6 DEF Done
  <2>4. ASSUME NEW c \in Clients, CloseJoined(c) PROVE Done' \subseteq Done
    <3>1. queue' = <<>> /\ got' = <<>>
      BY <2>4 DEF CloseJoined
    <3> QED BY <2>1, <3>1, IdsFew DEF Done
  <2> QED BY <1>4, <2>2, <2>3, <2>4, RingCases
<1> QED BY <1>2, <1>3, <1>4

-----------------------------------------------------------------------------
(* The stream goes on.                                                     *)

LEMMA NowIs ==
  ASSUME stream \in StreamRec, stream.b <= stream.n
  PROVE  /\ Now \in Positions
         /\ Now.ref = stream.ref /\ Now.b = stream.b /\ Now.due = stream.due
<1>1. /\ stream.ref \in Nat \ {0} /\ stream.b \in Nat /\ stream.n \in 0 .. MaxPictures
      /\ stream.due \in {"none", "top", "bottom"}
  BY DEF StreamRec
<1>2. stream.b \in 0 .. MaxPictures
  BY <1>1, StreamFacts
<1> QED BY <1>1, <1>2 DEF Now, Positions

\* A package leads from where the stream was to where it is.
LEMMA TakeFollows ==
  ASSUME stream \in StreamRec, stream.b <= stream.n,
         stream.due # "none" => stream.last = Base(Now) /\ (stream.type = "I" <=> stream.b = 0),
         NEW p \in Package, FieldFollows(p, stream') \/ PictureFollows(p, stream')
  PROVE  Follows(Now, p) /\ Now' = After(Now, p)
<1>1. Now = [ref |-> stream.ref, b |-> stream.b, due |-> stream.due]
      /\ Now' = [ref |-> stream'.ref, b |-> stream'.b, due |-> stream'.due]
  BY DEF Now
<1>2. p.type \in {"I", "B"} /\ stream.type \in {"I", "B"} /\ stream.b \in Nat
  BY DEF Package, StreamRec
<1>3. CASE FieldFollows(p, stream')
  <2>1. Now' = After(Now, p)
    BY <1>1, <1>3 DEF After, FieldFollows
  <2>2. Follows(Now, p)
    BY <1>1, <1>2, <1>3 DEF Follows, FieldFollows
  <2> QED BY <2>1, <2>2
<1>4. CASE PictureFollows(p, stream') /\ p.type = "I"
  <2>1. Now' = [ref |-> stream.ref + 1, b |-> 0, due |-> Opposite(p.st)]
    BY <1>1, <1>4 DEF PictureFollows
  <2>2. Now' = After(Now, p)
    BY <1>1, <1>4, <2>1 DEF After, PictureFollows
  <2>3. Base(Now') = Gap * (stream.ref + 1)
    BY <2>1 DEF Base
  <2>4. Follows(Now, p)
    BY <1>1, <1>4, <2>2, <2>3 DEF Follows, PictureFollows
  <2> QED BY <2>2, <2>4
<1>5. CASE PictureFollows(p, stream') /\ p.type = "B"
  <2>1. Now' = [ref |-> stream.ref, b |-> stream.b + 1, due |-> Opposite(p.st)]
    BY <1>1, <1>5 DEF PictureFollows
  <2>2. Now' = After(Now, p)
    BY <1>1, <1>5, <2>1 DEF After, PictureFollows
  <2>3. stream.b + 1 # 0
    BY <1>2
  <2>4. Base(Now') = Gap * (stream.ref - 1) + 2 * (stream.b + 1)
    BY <2>1, <2>3 DEF Base
  <2>5. Follows(Now, p)
    BY <1>1, <1>5, <2>2, <2>4 DEF Follows, PictureFollows
  <2> QED BY <2>2, <2>5
<1> QED BY <1>2, <1>3, <1>4, <1>5

\* The identifiers of an MPEG stream are used once.
LEMMA FreshMpeg ==
  ASSUME stream \in StreamRec, stream.b <= stream.n, SentMpeg,
         stream' \in StreamRec, stream'.b <= stream'.n,
         NEW p \in Package, stream'.sent = stream.sent \cup {p.id},
         FieldFollows(p, stream') \/ PictureFollows(p, stream')
  PROVE  p.id \notin stream.sent /\ SentMpeg'
<1>1. /\ stream.ref \in Nat \ {0} /\ stream.b \in Nat /\ stream.b <= MaxPictures
      /\ stream'.ref \in Nat \ {0} /\ stream'.b \in Nat /\ stream'.b <= MaxPictures
      /\ stream.sent \subseteq Nat /\ p.id \in Nat /\ p.type \in {"I", "B"}
  <2>1. /\ stream.ref \in Nat \ {0} /\ stream.b \in Nat /\ stream.n \in 0 .. MaxPictures
        /\ stream'.ref \in Nat \ {0} /\ stream'.b \in Nat /\ stream'.n \in 0 .. MaxPictures
        /\ stream.sent \subseteq Nat
    BY DEF StreamRec
  <2>2. p.id \in Nat /\ p.type \in {"I", "B"}
    BY DEF Package
  <2> QED BY <2>1, <2>2, StreamFacts
<1>2. PICK b \in Nat, b1 \in Nat, ref \in Nat \ {0} :
        b = stream.b /\ b1 = stream'.b /\ ref = stream.ref
  BY <1>1
<1>3. PICK G \in Nat, A \in Nat :
        /\ G = Gap /\ A = Gap * (ref - 1) /\ G >= 2 /\ 2 * b + 1 < G /\ 2 * b1 + 1 < G
        /\ Gap * ref = A + G /\ Gap * (ref + 1) = A + G + G
  <2>1. /\ Gap * (ref - 1) \in Nat /\ Gap * ref \in Nat /\ Gap * (ref + 1) \in Nat
        /\ Gap * ref = Gap * (ref - 1) + Gap /\ Gap * (ref + 1) = Gap * ref + Gap
    BY GapMul
  <2>2. Gap \in Nat /\ Gap >= 2 /\ 2 * b + 1 < Gap /\ 2 * b1 + 1 < Gap
    BY <1>1, <1>2, StreamFacts
  <2> QED BY <2>1, <2>2
<1>4. /\ Base(Now) = IF b = 0 THEN A + G ELSE A + 2 * b
      /\ Base(Now)' = IF b1 = 0 THEN Gap * stream'.ref ELSE Gap * (stream'.ref - 1) + 2 * b1
  BY <1>2, <1>3 DEF Base, Now
<1>5. /\ stream.due # "none" => stream.last = Base(Now)
      /\ stream.type = "I" <=> b = 0
      /\ \A s \in stream.sent :
           /\ s <= A + G + 1
           /\ s < A + G => s <= A + 2 * b + 1
           /\ stream.due # "none" => s # Base(Now) + 1
  BY <1>2, <1>3 DEF SentMpeg
<1>6. SentMpeg' <=>
        /\ stream'.type = "I" <=> b1 = 0
        /\ stream'.due # "none" => stream'.last = Base(Now)'
        /\ \A s \in stream'.sent :
             /\ s <= Gap * stream'.ref + 1
             /\ s < Gap * stream'.ref => s <= Gap * (stream'.ref - 1) + 2 * b1 + 1
             /\ stream'.due # "none" => s # Base(Now)' + 1
  BY <1>2 DEF SentMpeg
<1>7. CASE FieldFollows(p, stream')
  <2>1. /\ stream.due # "none" /\ stream'.due = "none" /\ stream'.ref = ref /\ b1 = b
        /\ stream'.type = stream.type /\ p.id = Base(Now) + 1
    BY <1>2, <1>5, <1>7 DEF FieldFollows
  <2>2. p.id \notin stream.sent
    BY <1>5, <2>1
  <2>3. p.id <= A + G + 1 /\ (p.id < A + G => p.id <= A + 2 * b + 1)
    BY <1>3, <1>4, <2>1
  <2>4. \A s \in stream'.sent :
          /\ s <= Gap * stream'.ref + 1
          /\ s < Gap * stream'.ref => s <= Gap * (stream'.ref - 1) + 2 * b1 + 1
          /\ stream'.due # "none" => s # Base(Now)' + 1
    BY <1>3, <1>5, <2>1, <2>3
  <2> QED BY <1>5, <1>6, <2>1, <2>2, <2>4
<1>8. CASE PictureFollows(p, stream') /\ p.type = "I"
  <2>1. /\ stream'.ref = ref + 1 /\ b1 = 0 /\ p.id = A + G + G /\ stream'.type = "I"
        /\ stream'.last = p.id
    BY <1>2, <1>3, <1>8 DEF PictureFollows
  <2>2. p.id \notin stream.sent
    <3> SUFFICES ASSUME NEW s \in stream.sent PROVE s # p.id
      OBVIOUS
    <3>1. s <= A + G + 1 /\ s \in Nat
      BY <1>1, <1>5
    <3> QED BY <1>3, <2>1, <3>1
  <2>3. (ref + 1) - 1 = ref /\ Base(Now)' = A + G + G
    BY <1>3, <1>4, <2>1
  <2>4. Gap * stream'.ref = A + G + G /\ Gap * (stream'.ref - 1) = A + G
    BY <1>3, <2>1, <2>3
  <2>5. ASSUME NEW s \in stream'.sent
        PROVE  /\ s <= A + G + G + 1
               /\ s < A + G + G => s <= A + G + 2 * b1 + 1
               /\ s # A + G + G + 1
    <3>1. CASE s = p.id
      BY <1>3, <2>1, <3>1
    <3>2. CASE s \in stream.sent
      <4>1. s <= A + G + 1 /\ s \in Nat
        BY <1>1, <1>5, <3>2
      <4> QED BY <1>3, <2>1, <4>1
    <3> QED BY <3>1, <3>2
  <2>6. \A s \in stream'.sent :
          /\ s <= Gap * stream'.ref + 1
          /\ s < Gap * stream'.ref => s <= Gap * (stream'.ref - 1) + 2 * b1 + 1
          /\ stream'.due # "none" => s # Base(Now)' + 1
    BY <2>3, <2>4, <2>5
  <2>7. stream'.last = Base(Now)'
    BY <2>1, <2>3
  <2> QED BY <1>6, <2>1, <2>2, <2>6, <2>7
<1>9. CASE PictureFollows(p, stream') /\ p.type = "B"
  <2>1. /\ stream'.ref = ref /\ b1 = b + 1 /\ p.id = A + 2 * (b + 1) /\ stream'.type = "B"
        /\ stream'.last = p.id
    BY <1>2, <1>3, <1>9 DEF PictureFollows
  <2>2. b1 # 0 /\ p.id = A + 2 * b1 /\ p.id < A + G
    BY <1>3, <2>1
  <2>3. p.id \notin stream.sent
    <3> SUFFICES ASSUME NEW s \in stream.sent PROVE s # p.id
      OBVIOUS
    <3>1. (s < A + G => s <= A + 2 * b + 1) /\ s \in Nat
      BY <1>1, <1>5
    <3> QED BY <2>1, <2>2, <3>1
  <2>4. Gap * stream'.ref = A + G /\ Gap * (stream'.ref - 1) = A /\ Base(Now)' = A + 2 * b1
    BY <1>3, <1>4, <2>1, <2>2
  <2>5. ASSUME NEW s \in stream'.sent
        PROVE  /\ s <= A + G + 1
               /\ s < A + G => s <= A + 2 * b1 + 1
               /\ s # A + 2 * b1 + 1
    <3>1. CASE s = p.id
      BY <1>3, <2>2, <3>1
    <3>2. CASE s \in stream.sent
      <4>1. s <= A + G + 1 /\ (s < A + G => s <= A + 2 * b + 1) /\ s \in Nat
        BY <1>1, <1>5, <3>2
      <4> QED BY <1>3, <2>1, <2>2, <4>1
    <3> QED BY <3>1, <3>2
  <2>6. \A s \in stream'.sent :
          /\ s <= Gap * stream'.ref + 1
          /\ s < Gap * stream'.ref => s <= Gap * (stream'.ref - 1) + 2 * b1 + 1
          /\ stream'.due # "none" => s # Base(Now)' + 1
    BY <2>4, <2>5
  <2>7. stream'.last = Base(Now)' /\ stream'.type # "I"
    BY <2>1, <2>2, <2>4
  <2> QED BY <1>6, <2>2, <2>3, <2>6, <2>7
<1> QED BY <1>1, <1>7, <1>8, <1>9

\* The identifiers of an H.264 stream are used once.
LEMMA FreshH264 ==
  ASSUME stream \in StreamRec, SentH264,
         NEW p \in Package, stream'.sent = stream.sent \cup {p.id}, BlockFollows(p, stream')
  PROVE  p.id \notin stream.sent /\ SentH264'
<1>1. /\ stream.ref \in Nat \ {0} /\ stream.seen \subseteq 0 .. MaxPictures
      /\ stream.sent \subseteq Nat /\ p.poc \in Nat /\ p.id \in Nat
  BY DEF StreamRec, Package
<1>2. PICK ref \in Nat \ {0} : ref = stream.ref
  BY <1>1
<1>3. PICK G \in Nat, A \in Nat :
        G = Gap /\ A = Gap * ref /\ Gap * (ref + 1) = A + G /\ MaxPictures < G
  <2>1. Gap * ref \in Nat /\ Gap * (ref + 1) = Gap * ref + Gap
    BY GapMul
  <2>2. Gap \in Nat /\ MaxPictures < Gap
    BY StreamFacts
  <2> QED BY <2>1, <2>2
<1>4. \A s \in stream.sent : s < A \/ \E m \in stream.seen : s = A + m
  BY <1>2, <1>3 DEF SentH264
<1>5. SentH264' <=> \A s \in stream'.sent :
                      \/ s < Gap * stream'.ref
                      \/ \E m \in stream'.seen : s = Gap * stream'.ref + m
  BY DEF SentH264
<1>6. CASE p.poc = 0 /\ stream'.ref = stream.ref + 1 /\ stream'.seen = {0}
  <2>1. p.id = A + G + 0 /\ Gap * stream'.ref = A + G
    BY <1>2, <1>3, <1>6 DEF BlockFollows
  <2>2. ASSUME NEW s \in stream.sent PROVE s < A + G
    <3>1. CASE s < A
      BY <1>1, <1>3, <3>1
    <3>2. CASE \E m \in stream.seen : s = A + m
      <4>1. PICK m \in stream.seen : s = A + m
        BY <3>2
      <4>2. m \in Nat /\ m <= MaxPictures
        BY <1>1, StreamFacts
      <4> QED BY <1>3, <4>1, <4>2, StreamFacts
    <3> QED BY <1>4, <3>1, <3>2
  <2>3. p.id \notin stream.sent
    BY <2>1, <2>2, <1>3
  <2> QED BY <1>5, <1>6, <2>1, <2>2, <2>3
<1>7. CASE /\ p.poc \in (1 .. MaxPictures) \ stream.seen
           /\ stream'.ref = stream.ref /\ stream'.seen = stream.seen \cup {p.poc}
  <2>1. p.id = A + p.poc /\ Gap * stream'.ref = A
    BY <1>2, <1>3, <1>7 DEF BlockFollows
  <2>2. p.id \notin stream.sent
    <3> SUFFICES ASSUME NEW s \in stream.sent PROVE s # p.id
      OBVIOUS
    <3>1. CASE s < A
      BY <1>1, <1>3, <2>1, <3>1
    <3>2. CASE \E m \in stream.seen : s = A + m
      <4>1. PICK m \in stream.seen : s = A + m
        BY <3>2
      <4>2. m \in Nat /\ m # p.poc
        BY <1>1, <1>7, StreamFacts
      <4> QED BY <1>1, <1>3, <2>1, <4>1, <4>2
    <3> QED BY <1>4, <3>1, <3>2
  <2>3. ASSUME NEW s \in stream'.sent
        PROVE  s < A \/ \E m \in stream'.seen : s = A + m
    BY <1>4, <1>7, <2>1
  <2> QED BY <1>5, <2>1, <2>2, <2>3
<1> QED BY <1>6, <1>7 DEF BlockFollows

\* Before a stream both formats have used nothing.
LEMMA SentBefore ==
  ASSUME TypeOK, CleanInv, SentInv
  PROVE  /\ ud_format \in {"mpeg", "invalid"} => SentMpeg
         /\ ud_format \in {"h264", "invalid"} => SentH264
<1>1. CASE ud_format = "invalid"
  <2>1. stream = NoStream
    BY <1>1 DEF CleanInv
  <2> QED BY <1>1, <2>1, NothingHeld DEF SentMpeg, SentH264
<1>2. CASE ud_format # "invalid"
  BY <1>2 DEF SentInv
<1> QED BY <1>1, <1>2

\* A package that is taken is new.
LEMMA FreshStep ==
  ASSUME TypeOK, DataOK, CleanInv, SentInv, ThreadRead
  PROVE  /\ SentInv'
         /\ \E p \in Package :
              /\ buf' = Append(buf, p)
              /\ stream'.sent = stream.sent \cup {p.id} /\ p.id \notin stream.sent
              /\ ud_format' = "mpeg" => FieldFollows(p, stream') \/ PictureFollows(p, stream')
              /\ ud_format' = "h264" => BlockFollows(p, stream')
<1>1. /\ ud_format' \in {"mpeg", "h264"}
      /\ ud_format # "invalid" => ud_format' = ud_format
  BY TakeStep
<1>2. PICK p \in Package :
        /\ buf' = Append(buf, p)
        /\ stream' \in StreamRec /\ stream'.b <= stream'.n
        /\ stream'.sent = stream.sent \cup {p.id}
        /\ ud_format' = "mpeg" => FieldFollows(p, stream') \/ PictureFollows(p, stream')
        /\ ud_format' = "h264" => BlockFollows(p, stream')
  BY TakeStep
<1>3. stream \in StreamRec /\ stream.b <= stream.n
  BY DEF DataOK
<1>4. CASE ud_format' = "mpeg"
  <2>1. SentMpeg
    BY <1>1, <1>4, SentBefore
  <2>2. p.id \notin stream.sent /\ SentMpeg'
    BY <1>2, <1>3, <1>4, <2>1, FreshMpeg
  <2> QED BY <1>2, <1>4, <2>2 DEF SentInv
<1>5. CASE ud_format' = "h264"
  <2>1. SentH264
    BY <1>1, <1>5, SentBefore
  <2>2. p.id \notin stream.sent /\ SentH264'
    BY <1>2, <1>3, <1>5, <2>1, FreshH264
  <2> QED BY <1>2, <1>5, <2>2 DEF SentInv
<1> QED BY <1>1, <1>4, <1>5

\* Who changes the stream, and where the thread stands otherwise.
LEMMA WorkerStep ==
  ASSUME LifeInv, CleanInv, [Next]_vars
  PROVE  \/ ThreadRead \/ ThreadReorder
         \/ ud_format' = "invalid"
         \/ /\ UNCHANGED <<ud_format, buf, vd, list, stream>>
            /\ thread' = thread \/ ThreadPolls
<1>1. CASE ThreadExits
  BY <1>1 DEF ThreadExits
<1>2. CASE ThreadFlush \/ ThreadWrite \/ ThreadPolls \/ UNCHANGED vars
  BY <1>2 DEF ThreadFlush, ThreadWrite, ThreadPolls, vars, worker
<1>3. ASSUME NEW c \in Clients, OpenFirst(c) PROVE ud_format' = "invalid"
  <2>1. thread = "none"
    BY <1>3 DEF OpenFirst, LifeInv
  <2> QED BY <1>3, <2>1 DEF OpenFirst, CleanInv
<1>4. ASSUME NEW c \in Clients, CloseJoined(c) PROVE ud_format' = "invalid"
  BY <1>4 DEF CloseJoined, Joined, CleanInv
<1>5. ASSUME NEW c \in Clients,
             \/ OpenMore(c) \/ CloseShared(c) \/ CloseLast(c) \/ ReadCalled(c) \/ ReadAtOnce(c)
             \/ ReadWaits(c) \/ ReadTimesOut(c) \/ WakesUp(c) \/ ReadWoken(c)
      PROVE  UNCHANGED <<ud_format, buf, vd, list, stream, thread>>
  BY <1>5 DEF OpenMore, CloseShared, CloseLast, ReadCalled, ReadAtOnce, ReadWaits,
              ReadTimesOut, WakesUp, ReadWoken, worker
<1> QED BY <1>1, <1>2, <1>3, <1>4, <1>5, NextCases

LEMMA SentStep ==
  ASSUME TypeOK, LifeInv, DataOK, CleanInv, SentInv, [Next]_vars
  PROVE  SentInv'
<1>1. CASE ThreadRead
  BY <1>1, FreshStep
<1>2. CASE ud_format' = "invalid"
  BY <1>2 DEF SentInv
<1>3. CASE UNCHANGED <<ud_format, stream>>
  BY <1>3 DEF SentInv, SentMpeg, SentH264, Now, Base
<1>4. CASE ThreadReorder
  BY <1>3, <1>4 DEF ThreadReorder
<1> QED BY <1>1, <1>2, <1>3, <1>4, WorkerStep

\* The captions that were handed on are numbers.
LEMMA DoneNat ==
  ASSUME DataOK
  PROVE  Done \subseteq Nat
<1>1. queue \in Seq(Queued) /\ out \in Seq(Package) /\ got \in Seq(Nat)
  BY DEF DataOK
<1>2. Ids(out) \subseteq Nat
  <2> DEFINE S == Package
  <2>1. out \in Seq(S)
    BY <1>1
  <2> HIDE DEF S
  <2>2. \A i \in DOMAIN out : out[i] \in S
    BY <2>1, LenProperties, ElementOfSeq
  <2> QED BY <2>2 DEF Ids, S, Package
<1>3. Ids(queue) \subseteq Nat
  <2> DEFINE S == Queued
  <2>1. queue \in Seq(S)
    BY <1>1
  <2> HIDE DEF S
  <2>2. \A i \in DOMAIN queue : queue[i] \in S
    BY <2>1, LenProperties, ElementOfSeq
  <2> QED BY <2>2 DEF Ids, S, Queued
<1>4. ToSet(got) \subseteq Nat
  BY <1>1, LenProperties, ElementOfSeq DEF ToSet
<1> QED BY <1>2, <1>3, <1>4 DEF Done

\* What is held back fits the position of the stream.
LEMMA MpegStep ==
  ASSUME TypeOK, LifeInv, DataOK, CleanInv, RingInv, MpegInv, SentInv, [Next]_vars
  PROVE  MpegInv'
<1> SUFFICES ASSUME ud_format' = "mpeg"
             PROVE  \E x \in Positions :
                      /\ LeadsFrom(x)'
                      /\ MaskAt(vd', x)
                      /\ TopFirst => HeldAt(vd', x) /\ \A d \in Done' : d <= Limit(x)
  BY DEF MpegInv
<1>1. Now \in Positions
  BY NowIs DEF DataOK
<1>2. CASE ThreadRead
  <2>1. PICK p \in Package :
          /\ buf' = Append(buf, p)
          /\ FieldFollows(p, stream') \/ PictureFollows(p, stream')
    BY <1>2, FreshStep
  <2>2. SentMpeg /\ stream \in StreamRec /\ stream.b <= stream.n
    BY <1>2, TakeStep, SentBefore DEF DataOK, TypeOK
  <2>3. Follows(Now, p) /\ Now' = After(Now, p)
    BY <2>1, <2>2, TakeFollows DEF SentMpeg
  <2>4. UNCHANGED <<vd, ghosts>> /\ thread = "poll" /\ thread' = "work"
        /\ (ud_format = "invalid" \/ ud_format = "mpeg")
    BY <1>2, TakeStep DEF ThreadRead
  <2>5. Done' \subseteq Done
    <3>1. ~ThreadReorder
      BY <2>4 DEF ThreadReorder
    <3> QED BY <3>1, DoneStep
  <2>6. CASE ud_format = "invalid"
    <3>1. buf = <<>> /\ vd = NoReorder /\ stream = NoStream /\ got = <<>> /\ queue = <<>>
          /\ out = <<>>
      BY <2>4, <2>6 DEF CleanInv
    <3>2. buf' = <<p>>
      BY <2>1, <3>1
    <3>3. Len(buf') = 1 /\ buf'[1] = p
      BY <3>2
    <3>4. PICK x \in Positions : x = Now
      BY <1>1
    <3>5. x.ref = 1 /\ x.b = 0 /\ x.due = "none"
      BY <3>1, <3>4, NowIs, NothingHeld DEF DataOK
    <3>6. LeadsFrom(x)'
      BY <2>3, <3>3, <3>4 DEF LeadsFrom
    <3>7. vd'.mask = 0
      BY <2>4, <3>1, NothingHeld
    <3>8. MaskAt(vd', x) /\ HeldAt(vd', x)
      BY <3>5, <3>7 DEF MaskAt, HeldAt
    <3>9. Done = {}
      BY <3>1, IdsFew DEF Done
    <3> QED BY <2>5, <3>6, <3>8, <3>9
  <2>7. CASE ud_format = "mpeg"
    <3>1. PICK x \in Positions :
            /\ LeadsFrom(x)
            /\ MaskAt(vd, x)
            /\ TopFirst => HeldAt(vd, x) /\ \A d \in Done : d <= Limit(x)
      BY <2>7 DEF MpegInv
    <3>2. Len(buf) = 1 /\ Follows(x, buf[1]) /\ Now = After(x, buf[1])
      BY <2>4, <3>1 DEF LeadsFrom
    <3>3. Len(buf') = 2 /\ buf'[1] = buf[1] /\ buf'[2] = p
      <4> DEFINE S == Package
      <4>1. buf \in Seq(S) /\ p \in S
        BY DEF DataOK
      <4> HIDE DEF S
      <4>2. /\ Len(Append(buf, p)) = Len(buf) + 1
            /\ \A i \in 1 .. Len(buf) : Append(buf, p)[i] = buf[i]
            /\ Append(buf, p)[Len(buf) + 1] = p
        BY <4>1, AppendProperties
      <4> QED BY <2>1, <3>2, <4>2
    <3>4. LeadsFrom(x)'
      <4>1. After(x, buf'[1]) = Now
        BY <3>2, <3>3
      <4>2. Now' = After(After(x, buf'[1]), buf'[2])
        BY <2>3, <3>3, <4>1
      <4> QED BY <1>1, <2>3, <2>4, <3>2, <3>3, <4>1, <4>2 DEF LeadsFrom
    <3>5. vd' = vd
      BY <2>4
    <3> QED BY <2>5, <3>1, <3>4, <3>5
  <2> QED BY <2>4, <2>6, <2>7
<1>3. CASE ThreadReorder
  <2>1. /\ UNCHANGED <<thread, ud_format, stream>> /\ ud_format = "mpeg"
    BY <1>3 DEF ThreadReorder
  <2>2. PICK r : MpegMove(r)
    BY <1>3, <2>1, ReorderStep DEF H264Move
  <2>3. PICK x \in Positions :
          /\ LeadsFrom(x)
          /\ MaskAt(vd, x)
          /\ TopFirst => HeldAt(vd, x) /\ \A d \in Done : d <= Limit(x)
    BY <2>1 DEF MpegInv
  <2>4. /\ Len(buf) = 2 /\ After(x, buf[1]) \in Positions
        /\ Follows(x, buf[1]) /\ Follows(After(x, buf[1]), buf[2])
        /\ Now = After(After(x, buf[1]), buf[2])
    BY <2>2, <2>3 DEF LeadsFrom, MpegMove
  <2>5. PICK y \in Positions : y = After(x, buf[1])
    BY <2>4
  <2>6. buf # <<>>
    BY <1>3, ReorderStep
  <2>7. PICK p \in Package : p = buf[1]
    BY <2>6, BufIs
  <2>8. /\ buf' = Tail(buf) /\ Len(buf') = 1 /\ buf'[1] = buf[2]
    <3>1. 1 \in 1 .. (Len(buf) - 1) /\ 1 + 1 = 2
      BY <2>4
    <3>2. Tail(buf)[1] = buf[1 + 1] /\ Len(Tail(buf)) = Len(buf) - 1
      BY <2>6, <3>1, BufIs
    <3>3. buf' = Tail(buf)
      BY <2>2 DEF MpegMove
    <3>4. Len(buf) - 1 = 1
      BY <2>4
    <3> QED BY <3>1, <3>2, <3>3, <3>4
  <2>9. LeadsFrom(y)'
    <3>1. Now' = Now
      BY <2>1 DEF Now
    <3> QED BY <2>4, <2>5, <2>8, <3>1 DEF LeadsFrom
  <2>10. Succeeds(x, p, y)
    BY <2>4, <2>5, <2>7, AfterIs
  <2>11. PICK v : v = vd /\ HeldOK(v) /\ MaskAt(v, x)
    BY <2>3 DEF DataOK, HeldOK
  <2>12. MpegTable(v, p, r) /\ vd' = r.vd /\ out' = r.out /\ out' \in Seq(Package)
    BY <2>2, <2>7, <2>11 DEF MpegMove
  <2>13. MaskAt(vd', y)
    BY <2>10, <2>11, <2>12, MaskTurn
  <2>14. ASSUME TopFirst PROVE HeldAt(vd', y) /\ \A d \in Done' : d <= Limit(y)
    <3>1. HeldAt(v, x) /\ \A d \in Done : d <= Limit(x)
      BY <2>3, <2>11, <2>14
    <3>2. HeldAt(r.vd, y) /\ Between(r.out, Limit(x), Limit(y))
      BY <2>10, <2>11, <2>12, <2>14, <3>1, HeldTurn
    <3>3. Done' = Done \cup Ids(out')
      BY <1>3, DoneStep
    <3>4. ASSUME NEW d \in Ids(out') PROVE d <= Limit(y)
      <4>1. DOMAIN out' = 1 .. Len(out')
        BY <2>12, LenProperties
      <4>2. PICK i \in 1 .. Len(out') : d = out'[i].id
        BY <3>4, <4>1 DEF Ids
      <4> QED BY <2>12, <3>2, <4>2 DEF Between
    <3>5. ASSUME NEW d \in Done PROVE d <= Limit(y)
      <4>1. Limit(x) \in Nat /\ Limit(y) \in Nat /\ Limit(x) <= Limit(y)
        <5>1. ASSUME NEW z \in Positions PROVE Limit(z) \in Nat
          <6>1. z.ref \in Nat \ {0} /\ z.b \in Nat
            BY StreamFacts DEF Positions
          <6>2. Gap * (z.ref - 1) \in Nat
            BY <6>1, GapMul
          <6> QED BY <6>1, <6>2 DEF Limit
        <5> QED BY <3>2, <5>1 DEF Between
      <4>2. d <= Limit(x)
        BY <3>1
      <4>3. d \in Nat
        BY DoneNat
      <4> QED BY <4>1, <4>2, <4>3
    <3> QED BY <2>12, <3>2, <3>3, <3>4, <3>5
  <2> QED BY <2>9, <2>13, <2>14
<1>4. CASE UNCHANGED <<ud_format, buf, vd, stream>> /\ (thread' = thread \/ ThreadPolls)
           /\ ~ThreadReorder
  <2>1. PICK x \in Positions :
          /\ LeadsFrom(x)
          /\ MaskAt(vd, x)
          /\ TopFirst => HeldAt(vd, x) /\ \A d \in Done : d <= Limit(x)
    BY <1>4 DEF MpegInv
  <2>2. thread' = thread \/ Len(buf) # 2
    BY <1>4 DEF ThreadPolls, Extractable
  <2>3. LeadsFrom(x)'
    BY <1>4, <2>1, <2>2 DEF LeadsFrom, Now
  <2>4. Done' \subseteq Done
    BY <1>4, DoneStep
  <2>5. vd' = vd
    BY <1>4
  <2> QED BY <2>1, <2>3, <2>4, <2>5
<1> QED BY <1>2, <1>3, <1>4, WorkerStep

-----------------------------------------------------------------------------
(* Where the captions are.                                                 *)

\* The captions in the places b to l, and how many there would be if no two of
\* them were the same.
PlacesOf(b, o, h, q, g, l) ==
  Ids(b) \cup Ids(o) \cup Ids(h) \cup Ids(q) \cup ToSet(g) \cup l

TotalOf(b, o, h, q, g, l) ==
  Len(b) + Len(o) + Len(h) + Len(q) + Len(g) + Cardinality(l)

LEMMA IdsCount ==
  ASSUME NEW S, NEW s \in Seq(S)
  PROVE  /\ Len(s) \in Nat
         /\ IsFiniteSet(Ids(s)) /\ Cardinality(Ids(s)) \in Nat
         /\ Cardinality(Ids(s)) <= Len(s)
         /\ IsFiniteSet(ToSet(s)) /\ Cardinality(ToSet(s)) \in Nat
         /\ Cardinality(ToSet(s)) <= Len(s)
<1>1. PICK n \in Nat : n = Len(s) /\ DOMAIN s = 1 .. n
  BY LenProperties
<1>2. IsFiniteSet(1 .. n) /\ Cardinality(1 .. n) = n
  BY FS_Interval
<1>3. PICK f : f = [i \in 1 .. n |-> s[i].id]
  OBVIOUS
<1>4. f \in Surjection(1 .. n, Ids(s))
  <2>1. f \in [1 .. n -> Ids(s)] /\ \A i \in 1 .. n : f[i] = s[i].id
    BY <1>1, <1>3 DEF Ids
  <2>2. \A t \in Ids(s) : \E i \in 1 .. n : f[i] = t
    BY <1>1, <2>1 DEF Ids
  <2> QED BY <2>1, <2>2 DEF Surjection
<1>5. PICK g : g = [i \in 1 .. n |-> s[i]]
  OBVIOUS
<1>6. g \in Surjection(1 .. n, ToSet(s))
  <2>1. g \in [1 .. n -> ToSet(s)] /\ \A i \in 1 .. n : g[i] = s[i]
    BY <1>1, <1>5 DEF ToSet
  <2>2. \A t \in ToSet(s) : \E i \in 1 .. n : g[i] = t
    BY <1>1, <2>1 DEF ToSet
  <2> QED BY <2>1, <2>2 DEF Surjection
<1>7. IsFiniteSet(Ids(s)) /\ Cardinality(Ids(s)) <= n
  BY <1>2, <1>4, FS_Surjection
<1>8. IsFiniteSet(ToSet(s)) /\ Cardinality(ToSet(s)) <= n
  BY <1>2, <1>6, FS_Surjection
<1> QED BY <1>1, <1>7, <1>8, FS_CardinalityType

LEMMA UnionCount ==
  ASSUME NEW A, IsFiniteSet(A), NEW B, IsFiniteSet(B), NEW m \in Nat, NEW n \in Nat,
         Cardinality(A) <= m, Cardinality(B) <= n
  PROVE  IsFiniteSet(A \cup B) /\ Cardinality(A \cup B) <= m + n
<1>1. /\ IsFiniteSet(A \cup B)
      /\ Cardinality(A \cup B) = Cardinality(A) + Cardinality(B) - Cardinality(A \cap B)
  BY FS_Union
<1>2. IsFiniteSet(A \cap B)
  BY FS_Subset, A \cap B \in SUBSET A
<1>3. Cardinality(A) \in Nat /\ Cardinality(B) \in Nat /\ Cardinality(A \cap B) \in Nat
  BY <1>2, FS_CardinalityType
<1> QED BY <1>1, <1>3

\* There are at most as many captions as the places have room for.
LEMMA PlacesCount ==
  ASSUME NEW b \in Seq(Package), NEW o \in Seq(Package), NEW h \in Seq(Package),
         NEW q \in Seq(Queued), NEW g \in Seq(Nat), NEW l \in SUBSET Nat, IsFiniteSet(l)
  PROVE  /\ IsFiniteSet(PlacesOf(b, o, h, q, g, l))
         /\ Cardinality(PlacesOf(b, o, h, q, g, l)) \in Nat
         /\ TotalOf(b, o, h, q, g, l) \in Nat
         /\ Cardinality(PlacesOf(b, o, h, q, g, l)) <= TotalOf(b, o, h, q, g, l)
<1>1. PICK B : B = Ids(b) /\ IsFiniteSet(B) /\ Cardinality(B) <= Len(b) /\ Len(b) \in Nat
  BY IdsCount
<1>2. PICK O : O = Ids(o) /\ IsFiniteSet(O) /\ Cardinality(O) <= Len(o) /\ Len(o) \in Nat
  BY IdsCount
<1>3. PICK H : H = Ids(h) /\ IsFiniteSet(H) /\ Cardinality(H) <= Len(h) /\ Len(h) \in Nat
  BY IdsCount
<1>4. PICK Q : Q = Ids(q) /\ IsFiniteSet(Q) /\ Cardinality(Q) <= Len(q) /\ Len(q) \in Nat
  BY IdsCount
<1>5. PICK G : G = ToSet(g) /\ IsFiniteSet(G) /\ Cardinality(G) <= Len(g) /\ Len(g) \in Nat
  BY IdsCount
<1>6. Cardinality(l) \in Nat /\ Cardinality(l) <= Cardinality(l)
  BY FS_CardinalityType
<1>7. /\ IsFiniteSet(B \cup O) /\ Cardinality(B \cup O) <= Len(b) + Len(o)
  BY <1>1, <1>2, UnionCount
<1>a. PICK m \in Nat : m = Len(b) + Len(o)
  BY <1>1, <1>2
<1>b. PICK C : C = B \cup O /\ IsFiniteSet(C) /\ Cardinality(C) <= m
  BY <1>7, <1>a
<1>8. IsFiniteSet(C \cup H) /\ Cardinality(C \cup H) <= m + Len(h)
  BY <1>3, <1>a, <1>b, UnionCount
<1>c. PICK n \in Nat : n = m + Len(h)
  BY <1>3
<1>d. PICK D : D = C \cup H /\ IsFiniteSet(D) /\ Cardinality(D) <= n
  BY <1>8, <1>c
<1>9. IsFiniteSet(D \cup Q) /\ Cardinality(D \cup Q) <= n + Len(q)
  BY <1>4, <1>c, <1>d, UnionCount
<1>e. PICK k \in Nat : k = n + Len(q)
  BY <1>4
<1>f. PICK E : E = D \cup Q /\ IsFiniteSet(E) /\ Cardinality(E) <= k
  BY <1>9, <1>e
<1>10. IsFiniteSet(E \cup G) /\ Cardinality(E \cup G) <= k + Len(g)
  BY <1>5, <1>e, <1>f, UnionCount
<1>g. PICK j \in Nat : j = k + Len(g)
  BY <1>5
<1>h. PICK F : F = E \cup G /\ IsFiniteSet(F) /\ Cardinality(F) <= j
  BY <1>10, <1>g
<1>11. IsFiniteSet(F \cup l) /\ Cardinality(F \cup l) <= j + Cardinality(l)
  BY <1>6, <1>g, <1>h, UnionCount
<1>12. PlacesOf(b, o, h, q, g, l) = F \cup l
  BY <1>1, <1>2, <1>3, <1>4, <1>5, <1>b, <1>d, <1>f, <1>h DEF PlacesOf
<1>13. TotalOf(b, o, h, q, g, l) = j + Cardinality(l)
  BY <1>a, <1>c, <1>e, <1>g DEF TotalOf
<1>14. TotalOf(b, o, h, q, g, l) \in Nat
  BY <1>6, <1>13
<1> QED BY <1>11, <1>12, <1>13, <1>14, FS_CardinalityType

\* What is held back, and the B pictures that were dropped before the first
\* reference.
Held == IF ud_format = "mpeg" THEN HeldMpeg(vd) ELSE list

Leading ==
  IF ud_format = "mpeg" THEN {id \in stream.sent : id < Gap} \ Ids(buf) ELSE {}

Places == PlacesOf(buf, out, Held, queue, got, lost)

Total == TotalOf(buf, out, Held, queue, got, lost)

AccountInv ==
  thread \in {"poll", "work"} =>
    Places \cup Leading = stream.sent /\ Cardinality(Places) = Total

LEMMA HeldIs ==
  ASSUME NEW v, HeldOK(v)
  PROVE  /\ HeldMpeg(v) \in Seq(Package)
         /\ v.mask = 0 => HeldMpeg(v) = <<>>
<1>1. PICK w : w = v /\ w.mask \in 0 .. 4
  BY DEF HeldOK, HeldRec
<1>2. HeldMpeg(w) = CASE w.mask = 0 -> <<>>
                      [] w.mask \in {1, 4} -> <<w.buf[1]>>
                      [] w.mask = 2 -> <<w.buf[2]>>
                      [] w.mask = 3 -> <<w.buf[1], w.buf[2]>>
  BY <1>1, FlushIs DEF HeldMpeg
<1>3. w.mask = 0 \/ w.mask \in {1, 4} \/ w.mask = 2 \/ w.mask = 3
  BY <1>1
<1>4. w.mask \in {1, 3, 4} => w.buf[1] \in Package
  BY <1>1 DEF HeldOK, HoldsFirst
<1>5. w.mask \in {2, 3} => w.buf[2] \in Package
  BY <1>1 DEF HeldOK, HoldsBottom
<1> DEFINE P == Package
<1>6. /\ w.mask \in {1, 3, 4} => w.buf[1] \in P
      /\ w.mask \in {2, 3} => w.buf[2] \in P
  BY <1>4, <1>5
<1> HIDE DEF P
<1>7. /\ w.mask = 0 => HeldMpeg(w) = <<>>
      /\ w.mask \in {1, 4} => HeldMpeg(w) = <<w.buf[1]>>
      /\ w.mask = 2 => HeldMpeg(w) = <<w.buf[2]>>
      /\ w.mask = 3 => HeldMpeg(w) = <<w.buf[1], w.buf[2]>>
  BY <1>2
<1>8. HeldMpeg(w) \in Seq(P)
  <2>1. CASE w.mask = 0
    BY <1>7, <2>1
  <2>2. CASE w.mask \in {1, 4}
    <3>1. PICK e : e = w.buf[1] /\ e \in P
      BY <1>6, <2>2
    <3>2. HeldMpeg(w) = <<e>>
      BY <1>7, <2>2, <3>1
    <3> QED BY <3>1, <3>2
  <2>3. CASE w.mask = 2
    <3>1. PICK e : e = w.buf[2] /\ e \in P
      BY <1>6, <2>3
    <3>2. HeldMpeg(w) = <<e>>
      BY <1>7, <2>3, <3>1
    <3> QED BY <3>1, <3>2
  <2>4. CASE w.mask = 3
    <3>1. w.buf[1] \in P /\ w.buf[2] \in P
      BY <1>6, <2>4
    <3>2. <<w.buf[1], w.buf[2]>> \in Seq(P)
      BY <3>1
    <3> QED BY <1>7, <2>4, <3>2
  <2> QED BY <1>3, <2>1, <2>2, <2>3, <2>4
<1> QED BY <1>1, <1>7, <1>8 DEF P

\* What is where, before and after a step.
LEMMA CountNow ==
  ASSUME DataOK
  PROVE  /\ Held \in Seq(Package)
         /\ IsFiniteSet(Places) /\ Cardinality(Places) \in Nat
         /\ Total \in Nat /\ Cardinality(Places) <= Total
<1>1. PICK b, o, h, q, g, l :
        /\ b = buf /\ o = out /\ h = Held /\ q = queue /\ g = got /\ l = lost
  OBVIOUS
<1>2. h \in Seq(Package)
  <2>1. PICK v : v = vd /\ HeldOK(v)
    BY DEF DataOK, HeldOK
  <2>2. HeldMpeg(v) \in Seq(Package)
    BY <2>1, HeldIs
  <2> QED BY <1>1, <2>1, <2>2 DEF Held, DataOK
<1>3. /\ b \in Seq(Package) /\ o \in Seq(Package) /\ q \in Seq(Queued) /\ g \in Seq(Nat)
      /\ l \in SUBSET Nat /\ IsFiniteSet(l)
  BY <1>1 DEF DataOK
<1>4. /\ IsFiniteSet(PlacesOf(b, o, h, q, g, l))
      /\ Cardinality(PlacesOf(b, o, h, q, g, l)) \in Nat
      /\ TotalOf(b, o, h, q, g, l) \in Nat
      /\ Cardinality(PlacesOf(b, o, h, q, g, l)) <= TotalOf(b, o, h, q, g, l)
  BY <1>2, <1>3, PlacesCount
<1> QED BY <1>1, <1>2, <1>4 DEF Places, Total

LEMMA CountNext ==
  ASSUME DataOK'
  PROVE  /\ Held' \in Seq(Package)
         /\ IsFiniteSet(Places') /\ Cardinality(Places') \in Nat
         /\ Total' \in Nat /\ Cardinality(Places') <= Total'
<1>1. PICK b, o, h, q, g, l :
        /\ b = buf' /\ o = out' /\ h = Held' /\ q = queue' /\ g = got' /\ l = lost'
  OBVIOUS
<1>2. h \in Seq(Package)
  <2>1. PICK v : v = vd' /\ HeldOK(v)
    BY DEF DataOK, HeldOK
  <2>2. HeldMpeg(v) \in Seq(Package)
    BY <2>1, HeldIs
  <2> QED BY <1>1, <2>1, <2>2 DEF Held, DataOK
<1>3. /\ b \in Seq(Package) /\ o \in Seq(Package) /\ q \in Seq(Queued) /\ g \in Seq(Nat)
      /\ l \in SUBSET Nat /\ IsFiniteSet(l)
  BY <1>1 DEF DataOK
<1>4. /\ IsFiniteSet(PlacesOf(b, o, h, q, g, l))
      /\ Cardinality(PlacesOf(b, o, h, q, g, l)) \in Nat
      /\ TotalOf(b, o, h, q, g, l) \in Nat
      /\ Cardinality(PlacesOf(b, o, h, q, g, l)) <= TotalOf(b, o, h, q, g, l)
  BY <1>2, <1>3, PlacesCount
<1> QED BY <1>1, <1>2, <1>4 DEF Places, Total

\* A step that moves captions from place to place loses none and doubles none.
LEMMA MovesStep ==
  ASSUME DataOK, DataOK', AccountInv, thread \in {"poll", "work"},
         Places' = Places, Total' <= Total, stream'.sent = stream.sent,
         Leading \subseteq Leading', Leading' \subseteq stream.sent
  PROVE  AccountInv'
<1>1. Places \cup Leading = stream.sent /\ Cardinality(Places) = Total
  BY DEF AccountInv
<1>2. Places' \cup Leading' = stream'.sent
  BY <1>1
<1>3. Cardinality(Places') = Total'
  <2>1. Cardinality(Places') \in Nat /\ Total' \in Nat /\ Cardinality(Places') <= Total'
    BY CountNext
  <2>2. Cardinality(Places') = Total
    BY <1>1
  <2> QED BY <2>1, <2>2
<1> QED BY <1>2, <1>3 DEF AccountInv

LEMMA AccountedIs ==
  ASSUME DataOK, AccountInv
  PROVE  CaptionsAccounted
<1>1. PICK S : S = Package \cup Queued
  OBVIOUS
<1>2. PICK b, o, h, q : b = buf /\ o = out /\ h = Held /\ q = queue
  OBVIOUS
<1>3. b \in Seq(S) /\ o \in Seq(S) /\ h \in Seq(S) /\ q \in Seq(S)
  <2>1. Seq(Package) \subseteq Seq(S) /\ Seq(Queued) \subseteq Seq(S)
    <3> DEFINE P == Package
               Q == Queued
    <3>1. P \subseteq S /\ Q \subseteq S
      BY <1>1
    <3> HIDE DEF P, Q
    <3>2. Seq(P) \subseteq Seq(S) /\ Seq(Q) \subseteq Seq(S)
      BY <3>1, SeqMonotonic
    <3> QED BY <3>2 DEF P, Q
  <2>2. Held \in Seq(Package)
    BY CountNow
  <2> QED BY <1>2, <2>1, <2>2 DEF DataOK
<1>4. /\ b \o o \in Seq(S) /\ Len(b \o o) = Len(b) + Len(o)
      /\ Ids(b \o o) = Ids(b) \cup Ids(o)
  BY <1>3, ConcatProperties, IdsConcat
<1>5. PICK s \in Seq(S) : s = b \o o
  BY <1>4
<1>6. /\ s \o h \in Seq(S) /\ Len(s \o h) = Len(s) + Len(h)
      /\ Ids(s \o h) = Ids(s) \cup Ids(h)
  BY <1>3, ConcatProperties, IdsConcat
<1>7. PICK t \in Seq(S) : t = s \o h
  BY <1>6
<1>8. /\ t \o q \in Seq(S) /\ Len(t \o q) = Len(t) + Len(q)
      /\ Ids(t \o q) = Ids(t) \cup Ids(q)
  BY <1>3, ConcatProperties, IdsConcat
<1>9. PICK u : u = buf \o out \o Held \o queue
  OBVIOUS
<1>10. u = t \o q
  BY <1>2, <1>5, <1>7, <1>9
<1>11. Ids(u) \cup ToSet(got) \cup lost = Places
  BY <1>2, <1>4, <1>5, <1>6, <1>7, <1>8, <1>10 DEF Places, PlacesOf
<1>12. Len(u) + Len(got) + Cardinality(lost) = Total
  <2>1. Len(u) = Len(b) + Len(o) + Len(h) + Len(q)
    BY <1>4, <1>5, <1>6, <1>7, <1>8, <1>10
  <2> QED BY <1>2, <2>1 DEF Total, TotalOf
<1>13. CaptionsAccounted <=>
         (thread \in {"poll", "work"} =>
            /\ (Ids(u) \cup ToSet(got) \cup lost) \cup Leading = stream.sent
            /\ Cardinality(Ids(u) \cup ToSet(got) \cup lost) =
                 Len(u) + Len(got) + Cardinality(lost))
  BY <1>9 DEF CaptionsAccounted, Leading, Held
<1> QED BY <1>11, <1>12, <1>13 DEF AccountInv

\* What a sequence of at most two packages holds.
LEMMA FewCount ==
  /\ Ids(<<>>) = {} /\ Len(<<>>) = 0
  /\ \A e : Ids(<<e>>) = {e.id} /\ Len(<<e>>) = 1
  /\ \A e, f : Ids(<<e, f>>) = {e.id, f.id} /\ Len(<<e, f>>) = 2
BY IdsFew

\* aml_reorder_user_data moves the captions that it does not drop.
LEMMA MpegMoved ==
  ASSUME NEW v, HeldOK(v), NEW p \in Package, NEW r, MpegTable(v, p, r), HeldOK(r.vd),
         p.type = "B" => ~(v.mask < 3),
         p.type = "I" /\ p.st = "top" => v.mask # 1,
         p.type = "I" /\ p.st = "bottom" => v.mask # 2
  PROVE  /\ Ids(r.out) \cup Ids(HeldMpeg(r.vd)) = Ids(HeldMpeg(v)) \cup {p.id}
         /\ Len(r.out) + Len(HeldMpeg(r.vd)) = Len(HeldMpeg(v)) + 1
<1>1. PICK w : w = r.vd
  OBVIOUS
<1>2. v.mask \in 0 .. 4 /\ w.mask \in 0 .. 4
  BY <1>1 DEF HeldOK, HeldRec
<1>3. ASSUME NEW z, z.mask \in 0 .. 4
      PROVE  /\ z.mask = 0 => HeldMpeg(z) = <<>>
             /\ z.mask \in {1, 4} => HeldMpeg(z) = <<z.buf[1]>>
             /\ z.mask = 2 => HeldMpeg(z) = <<z.buf[2]>>
             /\ z.mask = 3 => HeldMpeg(z) = <<z.buf[1], z.buf[2]>>
  <2>1. HeldMpeg(z) = CASE z.mask = 0 -> <<>>
                      [] z.mask \in {1, 4} -> <<z.buf[1]>>
                      [] z.mask = 2 -> <<z.buf[2]>>
                      [] z.mask = 3 -> <<z.buf[1], z.buf[2]>>
    BY <1>3, FlushIs DEF HeldMpeg
  <2> QED BY <2>1
<1>4. ASSUME NEW z, z.mask \in 0 .. 4
      PROVE  /\ z.mask = 0 => Ids(HeldMpeg(z)) = {} /\ Len(HeldMpeg(z)) = 0
             /\ z.mask \in {1, 4} => Ids(HeldMpeg(z)) = {z.buf[1].id} /\ Len(HeldMpeg(z)) = 1
             /\ z.mask = 2 => Ids(HeldMpeg(z)) = {z.buf[2].id} /\ Len(HeldMpeg(z)) = 1
             /\ z.mask = 3 => Ids(HeldMpeg(z)) = {z.buf[1].id, z.buf[2].id}
                              /\ Len(HeldMpeg(z)) = 2
  BY <1>3, <1>4, FewCount
<1>5. PICK I, J, a, c : /\ I = Ids(HeldMpeg(v)) /\ J = Ids(HeldMpeg(w))
                        /\ a = Len(HeldMpeg(v)) /\ c = Len(HeldMpeg(w))
  OBVIOUS
<1>6. /\ v.mask = 0 => I = {} /\ a = 0
      /\ v.mask \in {1, 4} => I = {v.buf[1].id} /\ a = 1
      /\ v.mask = 2 => I = {v.buf[2].id} /\ a = 1
      /\ v.mask = 3 => I = {v.buf[1].id, v.buf[2].id} /\ a = 2
  BY <1>2, <1>4, <1>5
<1>7. /\ w.mask = 0 => J = {} /\ c = 0
      /\ w.mask \in {1, 4} => J = {w.buf[1].id} /\ c = 1
      /\ w.mask = 2 => J = {w.buf[2].id} /\ c = 1
      /\ w.mask = 3 => J = {w.buf[1].id, w.buf[2].id} /\ c = 2
  BY <1>2, <1>4, <1>5
<1>8. PICK O, n : O = Ids(r.out) /\ n = Len(r.out)
  OBVIOUS
<1>9. /\ r.out = <<>> => O = {} /\ n = 0
      /\ \A e : r.out = <<e>> => O = {e.id} /\ n = 1
      /\ \A e, f : r.out = <<e, f>> => O = {e.id, f.id} /\ n = 2
  BY <1>8, FewCount
<1> SUFFICES O \cup J = I \cup {p.id} /\ n + c = a + 1
  BY <1>1, <1>5, <1>8
<1>10. p.type \in {"I", "B"} /\ p.st \in {"frame", "top", "bottom"}
  BY DEF Package
<1>11. CASE p.type = "B"
  <2>1. r.out = <<p>> /\ w = v
    BY <1>1, <1>11 DEF MpegTable
  <2>2. I = J /\ a = c /\ O = {p.id} /\ n = 1
    BY <1>5, <1>9, <2>1
  <2>3. a \in Nat
    BY <1>2, <1>6
  <2> QED BY <2>2, <2>3
<1>12. CASE p.type = "I" /\ p.st = "frame"
  <2>1. J = {p.id} /\ c = 1
    BY <1>1, <1>7, <1>12 DEF MpegTable
  <2>2. \/ v.mask = 0 /\ r.out = <<>>
        \/ v.mask \in {1, 4} /\ r.out = <<v.buf[1]>>
        \/ v.mask = 2 /\ r.out = <<v.buf[2]>>
        \/ v.mask = 3 /\ r.out = <<v.buf[1], v.buf[2]>>
    BY <1>12 DEF MpegTable
  <2>3. O = I /\ n = a /\ a \in Nat
    <3>1. CASE v.mask = 0 /\ r.out = <<>>
      <4>1. O = {} /\ n = 0
        BY <1>8, <3>1, FewCount
      <4>2. I = {} /\ a = 0
        BY <1>6, <3>1
      <4> QED BY <4>1, <4>2
    <3>2. CASE v.mask \in {1, 4} /\ r.out = <<v.buf[1]>>
      BY <1>6, <1>9, <3>2
    <3>3. CASE v.mask = 2 /\ r.out = <<v.buf[2]>>
      BY <1>6, <1>9, <3>3
    <3>4. CASE v.mask = 3 /\ r.out = <<v.buf[1], v.buf[2]>>
      <4>1. O = {v.buf[1].id, v.buf[2].id} /\ n = 2
        BY <1>9, <3>4
      <4>2. I = {v.buf[1].id, v.buf[2].id} /\ a = 2
        BY <1>6, <3>4
      <4> QED BY <4>1, <4>2
    <3> QED BY <2>2, <3>1, <3>2, <3>3, <3>4
  <2> QED BY <2>1, <2>3
<1>13. CASE p.type = "I" /\ p.st = "top"
  <2>1. /\ w.buf[1] = p /\ w.buf[2] = v.buf[2]
        /\ \/ v.mask = 0 /\ w.mask = 1 /\ r.out = <<>>
           \/ v.mask = 2 /\ w.mask = 3 /\ r.out = <<>>
           \/ v.mask = 3 /\ w.mask = 3 /\ r.out = <<v.buf[1]>>
           \/ v.mask = 4 /\ w.mask = 1 /\ r.out = <<v.buf[1]>>
    BY <1>1, <1>13 DEF MpegTable
  <2> QED BY <1>6, <1>7, <1>9, <2>1
<1>14. CASE p.type = "I" /\ p.st = "bottom"
  <2>1. /\ w.buf[2] = p /\ w.buf[1] = v.buf[1]
        /\ \/ v.mask = 0 /\ w.mask = 2 /\ r.out = <<>>
           \/ v.mask = 1 /\ w.mask = 3 /\ r.out = <<>>
           \/ v.mask = 3 /\ w.mask = 3 /\ r.out = <<v.buf[2]>>
           \/ v.mask = 4 /\ w.mask = 2 /\ r.out = <<v.buf[1]>>
    BY <1>1, <1>14 DEF MpegTable
  <2> QED BY <1>6, <1>7, <1>9, <2>1
<1> QED BY <1>10, <1>11, <1>12, <1>13, <1>14

LEMMA IdsRemove ==
  ASSUME NEW S, NEW s \in Seq(S), NEW m \in 1 .. Len(s)
  PROVE  Ids(RemoveAt(s, m)) \cup {s[m].id} = Ids(s)
<1>1. PICK u : u = RemoveAt(s, m)
  OBVIOUS
<1>2. PICK n \in Nat : n = Len(s) /\ DOMAIN s = 1 .. n /\ m \in 1 .. n
  BY LenProperties
<1>3. /\ u \in Seq(S) /\ Len(u) = n - 1
      /\ \A j \in 1 .. (n - 1) : u[j] = IF j < m THEN s[j] ELSE s[j + 1]
  BY <1>1, <1>2, RemoveAtIs
<1>4. DOMAIN u = 1 .. (n - 1)
  BY <1>3, LenProperties
<1>5. \A j \in 1 .. (n - 1) : j \in 1 .. n /\ j + 1 \in 1 .. n
  OBVIOUS
<1>6. ASSUME NEW i \in 1 .. n PROVE s[i].id \in Ids(u) \cup {s[m].id}
  <2>1. CASE i = m
    BY <2>1
  <2>2. CASE i < m
    <3>1. i \in 1 .. (n - 1)
      BY <1>2, <2>2
    <3>2. u[i] = s[i]
      BY <1>3, <2>2, <3>1
    <3> QED BY <1>4, <3>1, <3>2 DEF Ids
  <2>3. CASE i > m
    <3>1. PICK k \in 1 .. (n - 1) : k + 1 = i /\ ~(k < m)
      <4>1. i - 1 \in 1 .. (n - 1) /\ (i - 1) + 1 = i /\ ~(i - 1 < m)
        BY <1>2, <2>3
      <4> QED BY <4>1
    <3>2. u[k] = s[i]
      BY <1>3, <3>1
    <3> QED BY <1>4, <3>2 DEF Ids
  <2> QED BY <1>2, <2>1, <2>2, <2>3
<1>7. ASSUME NEW j \in 1 .. (n - 1) PROVE u[j].id \in Ids(s)
  BY <1>2, <1>3, <1>5 DEF Ids
<1>8. Ids(s) \subseteq Ids(u) \cup {s[m].id}
  <2> SUFFICES ASSUME NEW d \in Ids(s) PROVE d \in Ids(u) \cup {s[m].id}
    OBVIOUS
  <2>1. PICK i \in 1 .. n : d = s[i].id
    BY <1>2 DEF Ids
  <2> QED BY <1>6, <2>1
<1>9. Ids(u) \subseteq Ids(s)
  <2> SUFFICES ASSUME NEW d \in Ids(u) PROVE d \in Ids(s)
    OBVIOUS
  <2>1. PICK j \in 1 .. (n - 1) : d = u[j].id
    BY <1>4 DEF Ids
  <2> QED BY <1>7, <2>1
<1>10. s[m].id \in Ids(s)
  BY <1>2 DEF Ids
<1> QED BY <1>1, <1>8, <1>9, <1>10

\* aml_h264_reorder_user_data moves the captions.
LEMMA H264Moved ==
  ASSUME NEW s \in Seq(Package), NEW p \in Package, NEW r, H264Table(s, p, r)
  PROVE  /\ r.added => /\ Ids(r.out) \cup Ids(r.list) = Ids(s) \cup {p.id}
                       /\ Len(r.out) + Len(r.list) = Len(s) + 1
         /\ ~r.added => /\ Ids(r.out) \cup Ids(r.list) = Ids(s)
                        /\ Len(r.out) + Len(r.list) = Len(s)
<1> DEFINE P == Package
<1>1. s \in Seq(P) /\ p \in P
  OBVIOUS
<1> HIDE DEF P
<1>2. Len(s) \in Nat
  BY <1>1, LenProperties
<1>3. ASSUME NEW u \in Seq(P)
      PROVE  Ids(Append(u, p)) = Ids(u) \cup {p.id} /\ Len(Append(u, p)) = Len(u) + 1
  BY <1>1, IdsAppend, AppendProperties
<1>4. CASE r.out = <<>> /\ r.list = Append(s, p) /\ r.added = TRUE
  <2>1. Ids(r.out) = {} /\ Len(r.out) = 0
    BY <1>4, FewCount
  <2> QED BY <1>1, <1>2, <1>3, <1>4, <2>1
<1>5. ASSUME NEW m \in 1 .. Len(s), r.out = <<s[m]>>,
             \/ r.list = RemoveAt(s, m) /\ r.added = FALSE
             \/ r.list = Append(RemoveAt(s, m), p) /\ r.added = TRUE
      PROVE  /\ r.added => /\ Ids(r.out) \cup Ids(r.list) = Ids(s) \cup {p.id}
                           /\ Len(r.out) + Len(r.list) = Len(s) + 1
             /\ ~r.added => /\ Ids(r.out) \cup Ids(r.list) = Ids(s)
                            /\ Len(r.out) + Len(r.list) = Len(s)
  <2>1. Ids(r.out) = {s[m].id} /\ Len(r.out) = 1
    BY <1>5, FewCount
  <2>2. PICK u \in Seq(P) : u = RemoveAt(s, m) /\ Len(u) = Len(s) - 1
    BY <1>1, RemoveAtIs
  <2>3. Ids(u) \cup {s[m].id} = Ids(s)
    BY <1>1, <2>2, IdsRemove
  <2>4. CASE r.list = u /\ r.added = FALSE
    BY <1>2, <2>1, <2>2, <2>3, <2>4
  <2>5. CASE r.list = Append(u, p) /\ r.added = TRUE
    <3>1. Ids(r.list) = Ids(u) \cup {p.id} /\ Len(r.list) = Len(u) + 1
      BY <1>3, <2>5
    <3>2. Len(r.out) + Len(r.list) = Len(s) + 1
      BY <1>2, <2>1, <2>2, <3>1
    <3> QED BY <2>1, <2>3, <2>5, <3>1, <3>2
  <2> QED BY <1>5, <2>2, <2>4, <2>5
<1> QED BY <1>4, <1>5 DEF H264Table

\* The lengths of the places are numbers.
LEMMA LengthsNow ==
  ASSUME DataOK
  PROVE  /\ Len(buf) \in Nat /\ Len(out) \in Nat /\ Len(Held) \in Nat
         /\ Len(queue) \in Nat /\ Len(got) \in Nat /\ Cardinality(lost) \in Nat
<1>1. Held \in Seq(Package)
  BY CountNow
<1>2. Cardinality(lost) \in Nat
  BY FS_CardinalityType DEF DataOK
<1> QED BY <1>1, <1>2, LenProperties DEF DataOK

LEMMA LengthsNext ==
  ASSUME DataOK'
  PROVE  /\ Len(buf') \in Nat /\ Len(out') \in Nat /\ Len(Held') \in Nat
         /\ Len(queue') \in Nat /\ Len(got') \in Nat /\ Cardinality(lost') \in Nat
<1>1. Held' \in Seq(Package)
  BY CountNext
<1>2. PICK l : l = lost' /\ IsFiniteSet(l)
  BY DEF DataOK
<1>3. Cardinality(l) \in Nat
  BY <1>2, FS_CardinalityType
<1>4. Cardinality(lost') \in Nat
  BY <1>2, <1>3
<1>5. PICK b, o, q, g : b = buf' /\ o = out' /\ q = queue' /\ g = got'
  OBVIOUS
<1>6. Len(b) \in Nat /\ Len(o) \in Nat /\ Len(q) \in Nat /\ Len(g) \in Nat
  BY <1>5, LenProperties DEF DataOK
<1>7. PICK h : h = Held'
  OBVIOUS
<1>8. Len(h) \in Nat
  BY <1>1, <1>7, LenProperties
<1> QED BY <1>4, <1>5, <1>6, <1>7, <1>8

\* A package that is taken is one more, and in one more place.
LEMMA TakeAccount ==
  ASSUME TypeOK, DataOK, DataOK', CleanInv, SentInv, AccountInv, ThreadRead
  PROVE  AccountInv'
<1>1. PICK p \in Package :
        /\ buf' = Append(buf, p)
        /\ stream'.sent = stream.sent \cup {p.id} /\ p.id \notin stream.sent
  BY FreshStep
<1>2. thread = "poll" /\ UNCHANGED <<out, vd, list, queue, got, lost>>
  BY DEF ThreadRead, ghosts
<1>3. /\ ud_format' \in {"mpeg", "h264"}
      /\ ud_format # "invalid" => ud_format' = ud_format
  BY TakeStep
<1>4. Held' = Held
  <2>1. CASE ud_format' = ud_format
    BY <1>2, <2>1 DEF Held
  <2>2. CASE ud_format = "invalid"
    <3>1. list = <<>> /\ vd = NoReorder
      BY <2>2 DEF CleanInv
    <3>2. HeldMpeg(NoReorder) = <<>>
      BY NothingHeld, HeldIs
    <3> QED BY <1>2, <2>2, <3>1, <3>2 DEF Held
  <2> QED BY <1>3, <2>1, <2>2
<1>5. Ids(buf') = Ids(buf) \cup {p.id} /\ Len(buf') = Len(buf) + 1 /\ Len(buf) \in Nat
  <2> DEFINE S == Package
  <2>1. buf \in Seq(S) /\ p \in S
    BY DEF DataOK
  <2> HIDE DEF S
  <2> QED BY <1>1, <2>1, IdsAppend, AppendProperties, LenProperties
<1>6. Places' = Places \cup {p.id}
  BY <1>2, <1>4, <1>5 DEF Places, PlacesOf
<1>7. Total' = Total + 1
  <2>1. PICK a, b, c, d, e, f :
          /\ a = Len(buf) /\ b = Len(out) /\ c = Len(Held) /\ d = Len(queue)
          /\ e = Len(got) /\ f = Cardinality(lost)
    OBVIOUS
  <2>2. a \in Nat /\ b \in Nat /\ c \in Nat /\ d \in Nat /\ e \in Nat /\ f \in Nat
    BY <2>1, LengthsNow
  <2>3. Total = a + b + c + d + e + f /\ Total' = (a + 1) + b + c + d + e + f
    BY <1>2, <1>4, <1>5, <2>1 DEF Total, TotalOf
  <2> QED BY <2>2, <2>3
<1>8. Places \cup Leading = stream.sent /\ Cardinality(Places) = Total
  BY <1>2 DEF AccountInv
<1>9. Cardinality(Places') = Total'
  <2>1. p.id \notin Places
    BY <1>1, <1>8
  <2>2. IsFiniteSet(Places)
    BY CountNow
  <2>3. Cardinality(Places \cup {p.id}) = Cardinality(Places) + 1
    BY <2>1, <2>2, FS_AddElement
  <2> QED BY <1>6, <1>7, <1>8, <2>3
<1>10. Places' \cup Leading' = stream'.sent
  <2>1. CASE ud_format' = "h264"
    <3>1. Leading' = {}
      BY <2>1 DEF Leading
    <3>2. Leading = {}
      BY <1>3, <2>1 DEF Leading
    <3> QED BY <1>1, <1>6, <1>8, <3>1, <3>2
  <2>2. CASE ud_format' = "mpeg"
    <3>1. Leading' = {id \in stream'.sent : id < Gap} \ Ids(buf')
      BY <2>2 DEF Leading
    <3>2. Leading' = {id \in stream.sent : id < Gap} \ Ids(buf)
      BY <1>1, <1>5, <3>1
    <3>3. CASE ud_format = "mpeg"
      <4>1. Leading = Leading'
        BY <3>2, <3>3 DEF Leading
      <4> QED BY <1>1, <1>6, <1>8, <4>1
    <3>4. CASE ud_format = "invalid"
      <4>1. stream.sent = {}
        BY <3>4, NothingHeld DEF CleanInv
      <4> QED BY <1>1, <1>6, <1>8, <3>2, <4>1
    <3> QED BY <1>3, <2>2, <3>3, <3>4
  <2> QED BY <1>3, <2>1, <2>2
<1> QED BY <1>9, <1>10 DEF AccountInv

\* A caption that is lost is counted at most once.
LEMMA LostCount ==
  ASSUME NEW l, IsFiniteSet(l), NEW d
  PROVE  Cardinality(l \cup {d}) \in Nat /\ Cardinality(l \cup {d}) <= Cardinality(l) + 1
<1>1. /\ IsFiniteSet(l \cup {d})
      /\ Cardinality(l \cup {d}) = IF d \in l THEN Cardinality(l) ELSE Cardinality(l) + 1
  BY FS_AddElement
<1>2. Cardinality(l) \in Nat
  BY FS_CardinalityType
<1> QED BY <1>1, <1>2

\* A package goes from the thread to the ring, or is lost.
LEMMA WriteAccount ==
  ASSUME TypeOK, DataOK, DataOK', RingInv, AccountInv, ThreadWrite
  PROVE  AccountInv'
<1>1. PICK e : e = Head(out)
  OBVIOUS
<1>2. PICK f : f = [id |-> e.id, len |-> e.len]
  OBVIOUS
<1>3. /\ out # <<>> /\ e \in Package /\ out' = Tail(out)
      /\ \/ queue' = Append(queue, f) /\ got' = got /\ lost' = lost
         \/ queue' = queue /\ got' = got /\ lost' = lost \cup {e.id}
  BY <1>1, <1>2, WriteStep
<1>4. UNCHANGED <<ud_format, buf, vd, list, stream>> /\ thread \in {"poll", "work"}
  BY DEF ThreadWrite
<1>5. Held' = Held /\ Leading' = Leading
  BY <1>4 DEF Held, Leading
<1>6. Ids(out) = {e.id} \cup Ids(out') /\ Len(out) = Len(out') + 1
  <2> DEFINE S == Package
  <2>1. out \in Seq(S)
    BY DEF DataOK
  <2> HIDE DEF S
  <2>2. e = out[1]
    BY <1>1, <1>3, <2>1
  <2>3. Len(Tail(out)) = Len(out) - 1 /\ Len(out) \in Nat
    BY <1>3, <2>1, HeadTailProperties, LenProperties
  <2> QED BY <1>3, <2>1, <2>2, <2>3, IdsTail
<1>7. f \in Queued /\ f.id = e.id
  BY <1>2, <1>3 DEF Queued, Package
<1>8. Ids(Append(queue, f)) = Ids(queue) \cup {e.id} /\ Len(Append(queue, f)) = Len(queue) + 1
  <2> DEFINE S == Queued
  <2>1. queue \in Seq(S) /\ f \in S
    BY <1>7 DEF DataOK
  <2> HIDE DEF S
  <2> QED BY <1>7, <2>1, IdsAppend, AppendProperties
<1>9. Places' = Places
  <2>1. CASE queue' = Append(queue, f) /\ got' = got /\ lost' = lost
    BY <1>4, <1>5, <1>6, <1>8, <2>1 DEF Places, PlacesOf
  <2>2. CASE queue' = queue /\ got' = got /\ lost' = lost \cup {e.id}
    BY <1>4, <1>5, <1>6, <2>2 DEF Places, PlacesOf
  <2> QED BY <1>3, <2>1, <2>2
<1>10. Total' <= Total
  <2>1. PICK a, b, c, d, g, l :
          /\ a = Len(buf) /\ b = Len(out') /\ c = Len(Held) /\ d = Len(queue)
          /\ g = Len(got) /\ l = Cardinality(lost)
    OBVIOUS
  <2>2. a \in Nat /\ b \in Nat /\ c \in Nat /\ d \in Nat /\ g \in Nat /\ l \in Nat
    BY <2>1, LengthsNow, LengthsNext
  <2>3. Total = a + (b + 1) + c + d + g + l
    BY <1>6, <2>1 DEF Total, TotalOf
  <2>4. Total' = a + b + c + Len(queue') + g + Cardinality(lost')
    BY <1>3, <1>4, <1>5, <2>1 DEF Total, TotalOf
  <2>5. CASE queue' = Append(queue, f) /\ lost' = lost
    <3>1. Total' = a + b + c + (d + 1) + g + l
      BY <1>8, <2>1, <2>4, <2>5
    <3> QED BY <2>2, <2>3, <3>1
  <2>6. CASE queue' = queue /\ lost' = lost \cup {e.id}
    <3>1. Cardinality(lost') \in Nat /\ Cardinality(lost') <= l + 1
      BY <2>1, <2>6, LostCount DEF DataOK
    <3>2. Total' = a + b + c + d + g + Cardinality(lost')
      BY <2>1, <2>4, <2>6
    <3> QED BY <2>2, <2>3, <3>1, <3>2
  <2> QED BY <1>3, <2>5, <2>6
<1>11. Leading \subseteq stream.sent
  BY DEF Leading
<1> QED BY <1>4, <1>5, <1>9, <1>10, <1>11, MovesStep

\* A reader takes a package from the ring, or throws it away.
LEMMA ReadAccount ==
  ASSUME TypeOK, DataOK, DataOK', LifeInv, RingInv, AccountInv, thread \in {"poll", "work"},
         NEW c \in Clients, ReadBy(c)
  PROVE  AccountInv'
<1>1. PICK e : e = queue[1].id
  OBVIOUS
<1>2. /\ queue # <<>> /\ queue' = Tail(queue)
      /\ \/ got' = Append(got, e) /\ lost' = lost
         \/ got' = got /\ lost' = lost \cup {e}
  BY <1>1, ReadStep
<1>3. UNCHANGED <<ud_format, buf, out, vd, list, stream>>
  BY DEF ReadBy, worker
<1>4. Held' = Held /\ Leading' = Leading
  BY <1>3 DEF Held, Leading
<1>5. Ids(queue) = {e} \cup Ids(queue') /\ Len(queue) = Len(queue') + 1
  <2> DEFINE S == Queued
  <2>1. queue \in Seq(S)
    BY DEF DataOK
  <2> HIDE DEF S
  <2>2. Len(Tail(queue)) = Len(queue) - 1 /\ Len(queue) \in Nat
    BY <1>2, <2>1, HeadTailProperties, LenProperties
  <2> QED BY <1>1, <1>2, <2>1, <2>2, IdsTail
<1>6. e \in Nat
  <2>1. RingOK /\ 1 \in 1 .. Len(queue)
    BY <1>2, DataIsRing, EmptySeq DEF DataOK
  <2> QED BY <1>1, <2>1, QueuedIs
<1>7. ToSet(Append(got, e)) = ToSet(got) \cup {e} /\ Len(Append(got, e)) = Len(got) + 1
  <2>1. got \in Seq(Nat)
    BY DEF DataOK
  <2>2. Len(Append(got, e)) = Len(got) + 1
    BY <1>6, <2>1, AppendProperties
  <2>3. ToSet(Append(got, e)) = ToSet(got) \cup {e}
    BY <1>6, <2>1, IdsAppend
  <2> QED BY <2>2, <2>3
<1>8. Places' = Places
  <2>1. CASE got' = Append(got, e) /\ lost' = lost
    BY <1>3, <1>4, <1>5, <1>7, <2>1 DEF Places, PlacesOf
  <2>2. CASE got' = got /\ lost' = lost \cup {e}
    BY <1>3, <1>4, <1>5, <2>2 DEF Places, PlacesOf
  <2> QED BY <1>2, <2>1, <2>2
<1>9. Total' <= Total
  <2>1. PICK a, b, h, d, g, l :
          /\ a = Len(buf) /\ b = Len(out) /\ h = Len(Held) /\ d = Len(queue')
          /\ g = Len(got) /\ l = Cardinality(lost)
    OBVIOUS
  <2>2. a \in Nat /\ b \in Nat /\ h \in Nat /\ d \in Nat /\ g \in Nat /\ l \in Nat
    BY <2>1, LengthsNow, LengthsNext
  <2>3. Total = a + b + h + (d + 1) + g + l
    BY <1>5, <2>1 DEF Total, TotalOf
  <2>4. Total' = a + b + h + d + Len(got') + Cardinality(lost')
    BY <1>3, <1>4, <2>1 DEF Total, TotalOf
  <2>5. CASE got' = Append(got, e) /\ lost' = lost
    <3>1. Total' = a + b + h + d + (g + 1) + l
      BY <1>7, <2>1, <2>4, <2>5
    <3> QED BY <2>2, <2>3, <3>1
  <2>6. CASE got' = got /\ lost' = lost \cup {e}
    <3>1. Cardinality(lost') \in Nat /\ Cardinality(lost') <= l + 1
      BY <2>1, <2>6, LostCount DEF DataOK
    <3>2. Total' = a + b + h + d + g + Cardinality(lost')
      BY <2>1, <2>4, <2>6
    <3> QED BY <2>2, <2>3, <3>1, <3>2
  <2> QED BY <1>2, <2>5, <2>6
<1>10. Leading \subseteq stream.sent
  BY DEF Leading
<1> QED BY <1>3, <1>4, <1>8, <1>9, <1>10, MovesStep

\* What stays behind when the first package leaves buf.
LEMMA BufAccount ==
  ASSUME DataOK, buf # <<>>
  PROVE  /\ Ids(buf) = {buf[1].id} \cup Ids(Tail(buf))
         /\ Len(buf) = Len(Tail(buf)) + 1 /\ Len(Tail(buf)) \in Nat
<1> DEFINE S == Package
<1>1. buf \in Seq(S)
  BY DEF DataOK
<1> HIDE DEF S
<1>2. Tail(buf) \in Seq(S) /\ Len(Tail(buf)) = Len(buf) - 1 /\ Len(buf) \in Nat
  BY <1>1, HeadTailProperties, LenProperties
<1>3. Len(Tail(buf)) \in Nat
  BY <1>2, LenProperties
<1> QED BY <1>1, <1>2, <1>3, IdsTail

\* A step of the reordering that hands on, or holds, all that it takes.
LEMMA TurnAccount ==
  ASSUME DataOK, DataOK', AccountInv, thread = "work", out = <<>>,
         UNCHANGED <<ud_format, stream, queue, got, lost>>,
         Ids(buf') \cup Ids(out') \cup Ids(Held') = Ids(buf) \cup Ids(Held),
         Ids(buf') \subseteq Ids(buf),
         Len(buf') + Len(out') + Len(Held') = Len(buf) + Len(Held)
  PROVE  AccountInv'
<1>1. Ids(out) = {} /\ Len(out) = 0
  BY FewCount
<1>2. Places' = Places
  BY <1>1 DEF Places, PlacesOf
<1>3. Total' <= Total
  <2>1. PICK a, b, c, d, e, f :
          /\ a = Len(buf) /\ c = Len(Held) /\ d = Len(queue)
          /\ e = Len(got) /\ f = Cardinality(lost) /\ b = Len(buf') + Len(out') + Len(Held')
    OBVIOUS
  <2>2. a \in Nat /\ c \in Nat /\ d \in Nat /\ e \in Nat /\ f \in Nat
    BY <2>1, LengthsNow
  <2>3. Total = a + 0 + c + d + e + f
    BY <1>1, <2>1 DEF Total, TotalOf
  <2>4. Total' = b + d + e + f
    <3>1. Total' = Len(buf') + Len(out') + Len(Held') + Len(queue') + Len(got')
                   + Cardinality(lost')
      BY DEF Total, TotalOf
    <3> QED BY <2>1, <3>1
  <2>5. b = a + c
    BY <2>1
  <2> QED BY <2>2, <2>3, <2>4, <2>5
<1>4. Leading \subseteq Leading' /\ Leading' \subseteq stream.sent
  BY DEF Leading
<1> QED BY <1>2, <1>3, <1>4, MovesStep

\* A B picture that comes before any reference is dropped.
LEMMA DropAccount ==
  ASSUME DataOK, DataOK', AccountInv, thread = "work", out = <<>>, out' = <<>>,
         UNCHANGED <<ud_format, stream, queue, got, lost>>, ud_format = "mpeg",
         Held = <<>>, Held' = <<>>, buf # <<>>, buf' = Tail(buf), buf[1].id < Gap
  PROVE  AccountInv'
<1>1. PICK d : d = buf[1].id
  OBVIOUS
<1>2. /\ Ids(buf) = {d} \cup Ids(buf') /\ Len(buf) = Len(buf') + 1
  BY <1>1, BufAccount
<1>3. Ids(out) = {} /\ Len(out) = 0 /\ Ids(Held) = {} /\ Len(Held) = 0
  BY FewCount
<1>4. Places = Places' \cup {d}
  BY <1>2, <1>3 DEF Places, PlacesOf
<1>5. Places \cup Leading = stream.sent /\ Cardinality(Places) = Total
  BY DEF AccountInv
<1>6. Total = Total' + 1
  <2>1. PICK a, b, c, e : a = Len(buf') /\ b = Len(queue) /\ c = Len(got) /\ e = Cardinality(lost)
    OBVIOUS
  <2>2. a \in Nat /\ b \in Nat /\ c \in Nat /\ e \in Nat
    BY <2>1, LengthsNow, LengthsNext
  <2>3. Total = (a + 1) + 0 + 0 + b + c + e /\ Total' = a + 0 + 0 + b + c + e
    BY <1>2, <1>3, <2>1 DEF Total, TotalOf
  <2> QED BY <2>2, <2>3
<1>7. Cardinality(Places') = Total'
  <2>1. /\ IsFiniteSet(Places') /\ Cardinality(Places') \in Nat
        /\ Total' \in Nat /\ Cardinality(Places') <= Total'
    BY CountNext
  <2>2. Cardinality(Places' \cup {d}) <= Cardinality(Places') + 1
    <3>1. PICK P : P = Places' /\ IsFiniteSet(P)
      BY <2>1
    <3>2. Cardinality(P \cup {d}) <= Cardinality(P) + 1
      BY <3>1, LostCount
    <3> QED BY <3>1, <3>2
  <2>3. Cardinality(Places' \cup {d}) = Total' + 1
    BY <1>4, <1>5, <1>6
  <2> QED BY <2>1, <2>2, <2>3
<1>8. Places' \cup Leading' = stream'.sent
  <2>1. /\ Leading = {id \in stream.sent : id < Gap} \ Ids(buf)
        /\ Leading' = {id \in stream.sent : id < Gap} \ Ids(buf')
    BY DEF Leading
  <2>2. d \in stream.sent /\ d < Gap
    BY <1>1, <1>4, <1>5
  <2>3. Ids(buf') \subseteq Places'
    BY DEF Places, PlacesOf
  <2>4. /\ Leading' \subseteq Leading \cup {d} /\ Leading \subseteq Leading'
        /\ d \in Places' \cup Leading'
    BY <1>2, <2>1, <2>2, <2>3
  <2> QED BY <1>4, <1>5, <2>2, <2>4
<1> QED BY <1>7, <1>8 DEF AccountInv

LEMMA ReorderAccount ==
  ASSUME TypeOK, DataOK, DataOK', CleanInv, MpegInv, AccountInv, ThreadReorder
  PROVE  AccountInv'
<1>1. /\ buf # <<>> /\ out = <<>> /\ thread = "work"
      /\ UNCHANGED <<ud_format, stream, queue, got, lost>>
  BY ReorderStep DEF ghosts
<1>2. PICK r : MpegMove(r) \/ H264Move(r)
  BY ReorderStep
<1>3. PICK p \in Package : p = buf[1]
  BY <1>1, BufIs
<1>4. /\ Ids(buf) = {p.id} \cup Ids(Tail(buf))
      /\ Len(buf) = Len(Tail(buf)) + 1 /\ Len(Tail(buf)) \in Nat
  BY <1>1, <1>3, BufAccount
<1>5. CASE MpegMove(r)
  <2>1. ud_format = "mpeg" /\ out' = r.out /\ vd' = r.vd /\ buf' = Tail(buf)
    BY <1>5 DEF MpegMove
  <2>2. PICK v : v = vd /\ HeldOK(v)
    BY DEF DataOK, HeldOK
  <2>3. MpegTable(v, p, r) /\ HeldOK(r.vd) /\ Len(buf) >= 2
    BY <1>3, <1>5, <2>2 DEF MpegMove
  <2>4. Held = HeldMpeg(v) /\ Held' = HeldMpeg(r.vd)
    BY <1>1, <2>1, <2>2 DEF Held
  <2>5. PICK x \in Positions : LeadsFrom(x) /\ MaskAt(v, x)
    BY <2>1, <2>2 DEF MpegInv
  <2>6. PICK y \in Positions : y = After(x, p) /\ Follows(x, p)
    <3>0. LeadsFrom(x) /\ Len(buf) # 1
      BY <2>3, <2>5
    <3>1. Len(buf) = 2 /\ After(x, buf[1]) \in Positions /\ Follows(x, buf[1])
      BY <3>0, Zenon DEF LeadsFrom
    <3> QED BY <1>3, <3>1
  <2>7. Succeeds(x, p, y)
    BY <2>6, AfterIs
  <2>8. /\ p.type = "B" /\ v.mask < 3 => v.mask = 0 /\ p.id < Gap
        /\ p.type = "I" /\ p.st = "top" => v.mask # 1
        /\ p.type = "I" /\ p.st = "bottom" => v.mask # 2
    BY <2>2, <2>3, <2>5, <2>7, MaskTurn
  <2>9. CASE p.type = "B" /\ v.mask < 3
    <3>1. r.out = <<>> /\ r.vd.mask = 0 /\ v.mask = 0 /\ p.id < Gap
      <4>1. ~(v.mask >= 3)
        <5>1. v.mask \in 0 .. 4
          BY <2>2 DEF HeldOK, HeldRec
        <5> QED BY <2>9, <5>1
      <4> QED BY <2>3, <2>8, <2>9, <4>1 DEF MpegTable
    <3>2. HeldMpeg(v) = <<>> /\ HeldMpeg(r.vd) = <<>>
      BY <2>2, <2>3, <3>1, HeldIs
    <3> QED BY <1>1, <1>3, <2>1, <2>4, <3>1, <3>2, DropAccount
  <2>10. CASE ~(p.type = "B" /\ v.mask < 3)
    <3>1. /\ Ids(r.out) \cup Ids(HeldMpeg(r.vd)) = Ids(HeldMpeg(v)) \cup {p.id}
          /\ Len(r.out) + Len(HeldMpeg(r.vd)) = Len(HeldMpeg(v)) + 1
      BY <2>2, <2>3, <2>8, <2>10, MpegMoved
    <3>2. /\ Ids(out') \cup Ids(Held') = Ids(Held) \cup {p.id}
          /\ Len(out') + Len(Held') = Len(Held) + 1
      BY <2>1, <2>4, <3>1
    <3>3. /\ Ids(buf') \cup Ids(out') \cup Ids(Held') = Ids(buf) \cup Ids(Held)
          /\ Ids(buf') \subseteq Ids(buf)
      BY <1>4, <2>1, <3>2
    <3>4. Len(buf') + Len(out') + Len(Held') = Len(buf) + Len(Held)
      <4>1. Len(Held) \in Nat /\ Len(out') \in Nat /\ Len(Held') \in Nat
        BY LengthsNow, LengthsNext
      <4>2. Len(buf) = Len(buf') + 1 /\ Len(buf') \in Nat
        BY <1>4, <2>1
      <4> QED BY <3>2, <4>1, <4>2
    <3> QED BY <1>1, <3>3, <3>4, TurnAccount
  <2> QED BY <2>9, <2>10
<1>6. CASE H264Move(r)
  <2>1. /\ ud_format = "h264" /\ out' = r.out /\ list' = r.list /\ r.added \in BOOLEAN
        /\ buf' = IF r.added THEN Tail(buf) ELSE buf
    BY <1>6 DEF H264Move
  <2>2. PICK s \in Seq(Package) : s = list
    BY DEF DataOK
  <2>3. H264Table(s, p, r)
    BY <1>3, <1>6, <2>2 DEF H264Move
  <2>4. Held = s /\ Held' = r.list
    BY <1>1, <2>1, <2>2 DEF Held
  <2>5. /\ r.added => /\ Ids(r.out) \cup Ids(r.list) = Ids(s) \cup {p.id}
                      /\ Len(r.out) + Len(r.list) = Len(s) + 1
        /\ ~r.added => /\ Ids(r.out) \cup Ids(r.list) = Ids(s)
                       /\ Len(r.out) + Len(r.list) = Len(s)
    BY <2>3, H264Moved
  <2>6. /\ Ids(buf') \cup Ids(out') \cup Ids(Held') = Ids(buf) \cup Ids(Held)
        /\ Ids(buf') \subseteq Ids(buf)
    BY <1>4, <2>1, <2>4, <2>5
  <2>7. Len(buf') + Len(out') + Len(Held') = Len(buf) + Len(Held)
    <3>1. Len(Held) \in Nat /\ Len(out') \in Nat /\ Len(Held') \in Nat /\ Len(buf) \in Nat
      BY LengthsNow, LengthsNext
    <3>2. CASE r.added
      <4>1. Len(out') + Len(Held') = Len(Held) + 1 /\ buf' = Tail(buf)
        BY <2>1, <2>4, <2>5, <3>2
      <4>2. Len(buf) = Len(buf') + 1 /\ Len(buf') \in Nat
        BY <1>4, <4>1
      <4> QED BY <3>1, <4>1, <4>2
    <3>3. CASE ~r.added
      <4>1. Len(out') + Len(Held') = Len(Held) /\ buf' = buf
        BY <2>1, <2>4, <2>5, <3>3
      <4> QED BY <3>1, <4>1
    <3> QED BY <3>2, <3>3
  <2> QED BY <1>1, <2>6, <2>7, TurnAccount
<1> QED BY <1>2, <1>5, <1>6

LEMMA AccountStep ==
  ASSUME TypeOK, LifeInv, DataOK, CleanInv, RingInv, MpegInv, SentInv, AccountInv,
         DataOK', CleanInv', [Next]_vars
  PROVE  AccountInv'
<1>1. CASE ThreadRead
  BY <1>1, TakeAccount
<1>2. CASE ThreadReorder
  BY <1>2, ReorderAccount
<1>3. CASE ThreadWrite
  BY <1>3, WriteAccount
<1>4. CASE thread' \notin {"poll", "work"}
  BY <1>4 DEF AccountInv
<1>5. CASE ud_format' = "invalid" /\ thread' \in {"poll", "work"}
  <2>1. /\ thread' # "work" /\ thread' # "exit" /\ out' = <<>>
        /\ buf' = <<>> /\ list' = <<>> /\ stream' = NoStream
        /\ queue' = <<>> /\ got' = <<>> /\ lost' = {}
    BY <1>5 DEF CleanInv
  <2>2. Held' = <<>> /\ Leading' = {}
    BY <1>5, <2>1 DEF Held, Leading
  <2>3. stream'.sent = {}
    BY <2>1, NothingHeld
  <2>4. Places' = {} /\ Cardinality(Places') = 0
    <3>1. Places' = {}
      BY <2>1, <2>2, IdsFew DEF Places, PlacesOf
    <3> QED BY <3>1, FS_EmptySet
  <2>5. Total' = 0
    <3>1. Cardinality(lost') = 0
      BY <2>1, FS_EmptySet
    <3> QED BY <2>1, <2>2, <3>1, FewCount DEF Total, TotalOf
  <2> QED BY <2>2, <2>3, <2>4, <2>5 DEF AccountInv
<1>6. CASE /\ UNCHANGED <<ud_format, buf, vd, list, stream>> /\ ~ThreadReorder /\ ~ThreadWrite
           /\ thread' = thread \/ ThreadPolls
           /\ thread' \in {"poll", "work"} /\ ud_format' # "invalid"
  <2>1. thread \in {"poll", "work"}
    BY <1>6 DEF ThreadPolls
  <2>2. out' = out
    BY <1>6, OutStep
  <2>3. CASE UNCHANGED <<ring, ghosts>>
    <3>1. UNCHANGED <<queue, got, lost>>
      BY <2>3 DEF ghosts
    <3>2. Held' = Held /\ Leading' = Leading
      BY <1>6 DEF Held, Leading
    <3>3. Places' = Places /\ Total' = Total
      BY <1>6, <2>2, <3>1, <3>2 DEF Places, Total
    <3> QED BY <1>6, <2>1, <3>2, <3>3 DEF AccountInv
  <2>4. ASSUME NEW c \in Clients, ReadBy(c) PROVE AccountInv'
    BY <2>1, <2>4, ReadAccount
  <2>5. ASSUME NEW c \in Clients, CloseJoined(c) PROVE AccountInv'
    BY <1>4, <2>5 DEF CloseJoined
  <2> QED BY <1>6, <2>3, <2>4, <2>5, RingCases
<1> QED BY <1>1, <1>2, <1>3, <1>4, <1>5, <1>6, WorkerStep

-----------------------------------------------------------------------------
(* Every caption is in one place.                                          *)

PlacedInv == DeviceInv /\ MpegInv /\ SentInv /\ AccountInv

LEMMA PlacedInit == Init => PlacedInv
<1> SUFFICES ASSUME Init PROVE PlacedInv
  OBVIOUS
<1>1. DeviceInv
  BY DeviceInit
<1>2. MpegInv /\ SentInv /\ AccountInv
  BY DEF Init, MpegInv, SentInv, AccountInv
<1> QED BY <1>1, <1>2 DEF PlacedInv

LEMMA PlacedNext == PlacedInv /\ [Next]_vars => PlacedInv'
<1> SUFFICES ASSUME DeviceInv, MpegInv, SentInv, AccountInv, [Next]_vars PROVE PlacedInv'
  BY DEF PlacedInv
<1>1. TypeOK /\ LifeInv /\ DataOK /\ CleanInv /\ RingInv
  BY DEF DeviceInv
<1>2. DeviceInv' /\ DataOK' /\ CleanInv'
  BY DeviceNext DEF DeviceInv
<1>3. MpegInv'
  BY <1>1, MpegStep
<1>4. SentInv'
  BY <1>1, SentStep
<1>5. AccountInv'
  BY <1>1, <1>2, AccountStep
<1> QED BY <1>2, <1>3, <1>4, <1>5 DEF PlacedInv

\* Between the decoder and the readers no caption is doubled, and none is gone
\* but the B pictures that aml_reorder_user_data drops before any reference:
\* each is in exactly one place.
THEOREM AccountedCorrect == Spec => []CaptionsAccounted
<1>1. PlacedInv => CaptionsAccounted
  BY AccountedIs DEF PlacedInv, DeviceInv
<1> QED BY <1>1, PlacedInit, PlacedNext, PTL DEF Spec

-----------------------------------------------------------------------------
(* H.264 blocks.                                                           *)

\* The first block with the least order count comes before the others.
LEMMA BlockLeaves ==
  ASSUME NEW s \in Seq(Package), NEW D, NEW base \in Nat, ListOf(s, D, base),
         NEW m \in 1 .. Len(s), \A j \in 1 .. Len(s) : s[m].poc <= s[j].poc
  PROVE  /\ ListOf(RemoveAt(s, m), D \cup {s[m].id}, base)
         /\ \A i \in DOMAIN RemoveAt(s, m) :
              \E j \in DOMAIN s : RemoveAt(s, m)[i] = s[j]
         /\ s[m].poc \in 0 .. MaxPictures /\ s[m].id = base + s[m].poc
         /\ \A d \in D : d < s[m].id
<1>1. PICK u : u = RemoveAt(s, m)
  OBVIOUS
<1>2. PICK n \in Nat : n = Len(s) /\ DOMAIN s = 1 .. n /\ m \in 1 .. n
  <2> DEFINE P == Package
  <2>1. s \in Seq(P)
    OBVIOUS
  <2> HIDE DEF P
  <2> QED BY <2>1, LenProperties
<1>3. /\ Len(u) = n - 1 /\ DOMAIN u = 1 .. (n - 1)
      /\ \A j \in 1 .. (n - 1) : u[j] = IF j < m THEN s[j] ELSE s[j + 1]
  <2> DEFINE P == Package
  <2>1. s \in Seq(P)
    OBVIOUS
  <2> HIDE DEF P
  <2>2. /\ u \in Seq(P) /\ Len(u) = n - 1
        /\ \A j \in 1 .. (n - 1) : u[j] = IF j < m THEN s[j] ELSE s[j + 1]
    BY <1>1, <1>2, <2>1, RemoveAtIs
  <2> QED BY <2>2, LenProperties
<1>4. PICK k : k = [i \in 1 .. (n - 1) |-> IF i < m THEN i ELSE i + 1]
  OBVIOUS
<1>5. \A i \in 1 .. (n - 1) : k[i] \in 1 .. n /\ k[i] # m /\ u[i] = s[k[i]]
  BY <1>2, <1>3, <1>4
<1>6. \A i, j \in 1 .. (n - 1) : k[i] = k[j] => i = j
  BY <1>2, <1>4
<1>7. /\ \A i \in 1 .. n : s[i].poc \in 0 .. MaxPictures /\ s[i].id = base + s[i].poc
      /\ \A i, j \in 1 .. n : s[i].poc = s[j].poc => i = j
      /\ \A d \in D, i \in 1 .. n : d < s[i].id
  BY <1>2 DEF ListOf
<1>8. ASSUME NEW i \in 1 .. n, i # m PROVE s[m].id < s[i].id
  <2>1. s[m].poc \in Nat /\ s[i].poc \in Nat /\ s[m].poc <= s[i].poc /\ s[m].poc # s[i].poc
    BY <1>2, <1>7, <1>8, StreamFacts
  <2>2. s[m].id = base + s[m].poc /\ s[i].id = base + s[i].poc
    BY <1>2, <1>7
  <2> QED BY <2>1, <2>2
<1>9. ListOf(u, D \cup {s[m].id}, base)
  <2>1. ASSUME NEW i \in 1 .. (n - 1)
        PROVE  /\ u[i].poc \in 0 .. MaxPictures /\ u[i].id = base + u[i].poc
               /\ \A d \in D \cup {s[m].id} : d < u[i].id
    <3>1. PICK j \in 1 .. n : j # m /\ u[i] = s[j]
      BY <1>5
    <3> QED BY <1>7, <1>8, <3>1
  <2>2. ASSUME NEW i \in 1 .. (n - 1), NEW j \in 1 .. (n - 1), u[i].poc = u[j].poc
        PROVE  i = j
    <3>1. s[k[i]].poc = s[k[j]].poc /\ k[i] \in 1 .. n /\ k[j] \in 1 .. n
      BY <1>5, <2>2
    <3>2. k[i] = k[j]
      BY <1>7, <3>1
    <3> QED BY <1>6, <3>2
  <2>3. \A i \in DOMAIN u : i \in 1 .. (n - 1)
    BY <1>3
  <2> QED BY <2>1, <2>2, <2>3 DEF ListOf
<1>10. \A i \in DOMAIN u : \E j \in DOMAIN s : u[i] = s[j]
  BY <1>2, <1>3, <1>5
<1>11. s[m].poc \in 0 .. MaxPictures /\ s[m].id = base + s[m].poc /\ \A d \in D : d < s[m].id
  BY <1>2, <1>7
<1> QED BY <1>1, <1>9, <1>10, <1>11

LEMMA BlockEnters ==
  ASSUME NEW s \in Seq(Package), NEW D, NEW base \in Nat, ListOf(s, D, base),
         NEW p \in Package, p.poc \in 0 .. MaxPictures, p.id = base + p.poc,
         \A i \in DOMAIN s : s[i].poc # p.poc,
         \A d \in D : d < p.id
  PROVE  /\ ListOf(Append(s, p), D, base)
         /\ \A i \in DOMAIN Append(s, p) :
              Append(s, p)[i] = p \/ \E j \in DOMAIN s : Append(s, p)[i] = s[j]
<1>1. PICK u : u = Append(s, p)
  OBVIOUS
<1>2. PICK n \in Nat :
        /\ DOMAIN s = 1 .. n /\ DOMAIN u = 1 .. (n + 1)
        /\ u[n + 1] = p /\ \A i \in 1 .. n : u[i] = s[i]
  <2> DEFINE P == Package
  <2>1. s \in Seq(P) /\ p \in P
    OBVIOUS
  <2> HIDE DEF P
  <2>2. /\ Append(s, p) \in Seq(P) /\ Len(Append(s, p)) = Len(s) + 1
        /\ \A i \in 1 .. Len(s) : Append(s, p)[i] = s[i]
        /\ Append(s, p)[Len(s) + 1] = p
    BY <2>1, AppendProperties
  <2>3. /\ Len(s) \in Nat /\ DOMAIN s = 1 .. Len(s)
        /\ DOMAIN Append(s, p) = 1 .. Len(Append(s, p))
    BY <2>1, <2>2, LenProperties
  <2> QED BY <1>1, <2>2, <2>3
<1>3. \A i \in 1 .. (n + 1) : i \in 1 .. n \/ i = n + 1
  OBVIOUS
<1>4. /\ \A i \in 1 .. n : u[i].poc \in 0 .. MaxPictures /\ u[i].id = base + u[i].poc
                           /\ u[i].poc # p.poc
      /\ \A i, j \in 1 .. n : u[i].poc = u[j].poc => i = j
      /\ \A d \in D, i \in 1 .. n : d < u[i].id
  BY <1>2 DEF ListOf
<1>5. \A i \in DOMAIN u : u[i].poc \in 0 .. MaxPictures /\ u[i].id = base + u[i].poc
  BY <1>2, <1>3, <1>4
<1>6. \A i, j \in DOMAIN u : u[i].poc = u[j].poc => i = j
  BY <1>2, <1>3, <1>4
<1>7. \A d \in D, i \in DOMAIN u : d < u[i].id
  BY <1>2, <1>3, <1>4
<1>8. \A i \in DOMAIN u : u[i] = p \/ \E j \in DOMAIN s : u[i] = s[j]
  BY <1>2, <1>3
<1>9. ListOf(u, D, base)
  BY <1>5, <1>6, <1>7 DEF ListOf
<1> QED BY <1>1, <1>8, <1>9

\* A picture overtakes too few others to come before one that was written.
LEMMA Overtakes ==
  ASSUME NEW D \in SUBSET Nat, NEW base \in Nat, NEW seen \in SUBSET (0 .. MaxPictures),
         NEW q \in seen, Cardinality({s \in seen : s > q}) <= MaxPocCache,
         NEW d \in D,
         d < base \/ \E m \in seen \ {q} : d = base + m /\ Crowded(m, seen \ {q})
  PROVE  /\ d < base + q
         /\ d < base \/ \E m \in seen : d = base + m /\ Crowded(m, seen)
<1>1. q \in Nat /\ d \in Nat /\ MaxPocCache \in Nat
  BY StreamFacts
<1>2. CASE d < base
  BY <1>1, <1>2
<1>3. CASE \E m \in seen \ {q} : d = base + m /\ Crowded(m, seen \ {q})
  <2>1. PICK m \in seen \ {q} : d = base + m /\ Crowded(m, seen \ {q})
    BY <1>3
  <2>2. PICK A, B, C : /\ A = {s \in seen \ {q} : s >= m}
                       /\ B = {s \in seen : s >= m}
                       /\ C = {s \in seen : s > q}
    OBVIOUS
  <2>3. \A s \in seen : s \in Nat
    BY StreamFacts
  <2>4. IsFiniteSet(B) /\ IsFiniteSet(C)
    <3>1. IsFiniteSet(0 .. MaxPictures)
      BY StreamFacts, FS_Interval
    <3>2. B \in SUBSET (0 .. MaxPictures) /\ C \in SUBSET (0 .. MaxPictures)
      BY <2>2
    <3> QED BY <3>1, <3>2, FS_Subset
  <2>5. Cardinality(A) > MaxPocCache /\ Cardinality(C) <= MaxPocCache
    BY <2>1, <2>2 DEF Crowded
  <2>6. A \in SUBSET B
    BY <2>2
  <2>7. Cardinality(A) <= Cardinality(B) /\ IsFiniteSet(A)
    BY <2>4, <2>6, FS_Subset
  <2>8. Cardinality(A) \in Nat /\ Cardinality(B) \in Nat /\ Cardinality(C) \in Nat
    BY <2>4, <2>7, FS_CardinalityType
  <2>9. Crowded(m, seen)
    <3>1. Cardinality(B) > MaxPocCache
      BY <1>1, <2>5, <2>7, <2>8
    <3> QED BY <2>2, <3>1 DEF Crowded
  <2>10. m < q
    <3> SUFFICES ASSUME ~(m < q) PROVE FALSE
      OBVIOUS
    <3>1. m > q
      BY <1>1, <2>3, <2>1
    <3>2. A \in SUBSET C
      <4> SUFFICES ASSUME NEW a \in A PROVE a \in C
        OBVIOUS
      <4>1. a \in seen /\ a >= m /\ a \in Nat /\ m \in Nat
        BY <2>2, <2>3
      <4>2. a > q
        BY <1>1, <3>1, <4>1
      <4> QED BY <2>2, <4>1, <4>2
    <3>3. Cardinality(A) <= Cardinality(C)
      BY <2>4, <3>2, FS_Subset
    <3> QED BY <1>1, <2>5, <2>8, <3>3
  <2>11. m \in Nat
    BY <2>3
  <2> QED BY <1>1, <2>1, <2>9, <2>10, <2>11
<1> QED BY <1>2, <1>3

\* The least of more blocks than the list holds has been overtaken by them.
LEMMA FullCrowd ==
  ASSUME NEW s \in Seq(Package), NEW D, NEW base \in Nat, ListOf(s, D, base),
         NEW seen \in SUBSET (0 .. MaxPictures),
         \A i \in DOMAIN s : s[i].poc \in seen,
         NEW m \in 1 .. Len(s), \A j \in 1 .. Len(s) : s[m].poc <= s[j].poc,
         Len(s) > MaxPocCache
  PROVE  s[m].poc \in seen /\ Crowded(s[m].poc, seen)
<1>1. PICK n \in Nat : n = Len(s) /\ DOMAIN s = 1 .. n /\ m \in 1 .. n
  <2> DEFINE P == Package
  <2>1. s \in Seq(P)
    OBVIOUS
  <2> HIDE DEF P
  <2> QED BY <2>1, LenProperties
<1>2. PICK f : f = [i \in 1 .. n |-> s[i].poc]
  OBVIOUS
<1>3. PICK C : C = {t \in seen : t >= s[m].poc}
  OBVIOUS
<1>4. \A t \in seen : t \in Nat
  BY StreamFacts
<1>5. f \in Injection(1 .. n, C)
  <2>1. \A i \in 1 .. n : f[i] = s[i].poc /\ f[i] \in C
    BY <1>1, <1>2, <1>3, <1>4
  <2>2. f \in [1 .. n -> C]
    BY <1>2, <2>1
  <2>3. \A i, j \in 1 .. n : f[i] = f[j] => i = j
    BY <1>1, <2>1 DEF ListOf
  <2> QED BY <2>2, <2>3 DEF Injection, IsInjective
<1>6. IsFiniteSet(C)
  <2>1. IsFiniteSet(0 .. MaxPictures)
    BY StreamFacts, FS_Interval
  <2>2. C \in SUBSET (0 .. MaxPictures)
    BY <1>3
  <2> QED BY <2>1, <2>2, FS_Subset
<1>7. Cardinality(1 .. n) <= Cardinality(C) /\ Cardinality(1 .. n) = n
  <2>1. Cardinality(1 .. n) <= Cardinality(C)
    BY <1>5, <1>6, FS_Injection
  <2>2. Cardinality(1 .. n) = n
    BY FS_Interval
  <2> QED BY <2>1, <2>2
<1>8. Cardinality(C) > MaxPocCache
  BY <1>1, <1>6, <1>7, StreamFacts, FS_CardinalityType
<1> QED BY <1>1, <1>3, <1>8 DEF Crowded

\* A block joins the blocks of its reference.
LEMMA BlockJoins ==
  ASSUME NEW s \in Seq(Package), NEW D \in SUBSET Nat, NEW base \in Nat,
         NEW seen \in SUBSET (0 .. MaxPictures), NEW p \in Package,
         p.id = base + p.poc, p.poc \in seen,
         Cardinality({t \in seen : t > p.poc}) <= MaxPocCache,
         ListOf(s, D, base), PassedBy(s, D, base, seen \ {p.poc})
  PROVE  ListOf(Append(s, p), D, base) /\ PassedBy(Append(s, p), D, base, seen)
<1>1. PICK q \in seen : q = p.poc
  OBVIOUS
<1>2. ASSUME NEW d \in D
      PROVE  /\ d < base + q
             /\ d < base \/ \E m \in seen : d = base + m /\ Crowded(m, seen)
  <2>1. d < base \/ \E m \in seen \ {q} : d = base + m /\ Crowded(m, seen \ {q})
    BY <1>1 DEF PassedBy
  <2>2. Cardinality({t \in seen : t > q}) <= MaxPocCache
    BY <1>1
  <2> QED BY <2>1, <2>2, Overtakes
<1>3. \A i \in DOMAIN s : s[i].poc \in seen /\ s[i].poc # p.poc
  BY DEF PassedBy
<1>4. p.poc \in 0 .. MaxPictures /\ \A d \in D : d < p.id
  BY <1>1, <1>2
<1>5. PICK u : u = Append(s, p)
  OBVIOUS
<1>6. /\ ListOf(u, D, base)
      /\ \A i \in DOMAIN u : u[i] = p \/ \E j \in DOMAIN s : u[i] = s[j]
  BY <1>3, <1>4, <1>5, BlockEnters
<1>7. PassedBy(u, D, base, seen)
  <2>1. \A i \in DOMAIN u : u[i].poc \in seen
    BY <1>3, <1>6
  <2> QED BY <1>2, <2>1 DEF PassedBy
<1> QED BY <1>5, <1>6, <1>7

\* One turn of aml_h264_reorder_user_data, for a block that starts over and for
\* another one.
LEMMA RestartTurn ==
  ASSUME NEW s \in Seq(Package), NEW D \in SUBSET Nat, NEW base \in Nat, NEW next \in Nat,
         next = base + Gap, NEW p \in Package, p.poc = 0, p.id = next,
         ListOf(s, D, base), \A d \in D : d < next, NEW r, H264Table(s, p, r)
  PROVE  \/ /\ r.added = FALSE
            /\ ListOf(r.list, D \cup Ids(r.out), base)
            /\ \A d \in D \cup Ids(r.out) : d < next
         \/ /\ r.added = TRUE
            /\ ListOf(r.list, D \cup Ids(r.out), next)
            /\ PassedBy(r.list, D \cup Ids(r.out), next, {0})
<1>1. CASE s = <<>> /\ r.out = <<>> /\ r.list = Append(s, p) /\ r.added = TRUE
  <2>1. D \cup Ids(r.out) = D
    BY <1>1, IdsFew
  <2>2. PICK u : u = <<p>>
    OBVIOUS
  <2>3. r.list = u /\ DOMAIN u = {1} /\ u[1] = p
    BY <1>1, <2>2
  <2>4. 0 \in 0 .. MaxPictures /\ next + 0 = next
    BY StreamFacts
  <2>5. ListOf(u, D, next)
    BY <2>3, <2>4 DEF ListOf
  <2>6. PassedBy(u, D, next, {0})
    BY <2>3 DEF PassedBy
  <2> QED BY <1>1, <2>1, <2>3, <2>5, <2>6
<1>2. ASSUME NEW m \in 1 .. Len(s), \A j \in 1 .. Len(s) : s[m].poc <= s[j].poc,
             r.out = <<s[m]>>, r.list = RemoveAt(s, m), r.added = FALSE
      PROVE  /\ ListOf(r.list, D \cup Ids(r.out), base)
             /\ \A d \in D \cup Ids(r.out) : d < next
  <2>1. D \cup Ids(r.out) = D \cup {s[m].id}
    BY <1>2, IdsFew
  <2>2. /\ ListOf(RemoveAt(s, m), D \cup {s[m].id}, base)
        /\ s[m].poc \in 0 .. MaxPictures /\ s[m].id = base + s[m].poc
    BY <1>2, BlockLeaves
  <2>3. s[m].id < next
    <3>1. PICK q \in Nat : q = s[m].poc /\ q <= MaxPictures
      BY <2>2, StreamFacts
    <3> QED BY <2>2, <3>1, StreamFacts
  <2> QED BY <1>2, <2>1, <2>2, <2>3
<1>3. \/ s = <<>> /\ r.out = <<>> /\ r.list = Append(s, p) /\ r.added = TRUE
      \/ \E m \in 1 .. Len(s) :
           /\ \A j \in 1 .. Len(s) : s[m].poc <= s[j].poc
           /\ r.out = <<s[m]>> /\ r.list = RemoveAt(s, m) /\ r.added = FALSE
  BY DEF H264Table
<1>4. CASE \E m \in 1 .. Len(s) :
           /\ \A j \in 1 .. Len(s) : s[m].poc <= s[j].poc
           /\ r.out = <<s[m]>> /\ r.list = RemoveAt(s, m) /\ r.added = FALSE
  <2>1. PICK m \in 1 .. Len(s) :
           /\ \A j \in 1 .. Len(s) : s[m].poc <= s[j].poc
           /\ r.out = <<s[m]>> /\ r.list = RemoveAt(s, m) /\ r.added = FALSE
    BY <1>4
  <2> QED BY <1>2, <2>1
<1> QED BY <1>1, <1>3, <1>4

LEMMA NextTurn ==
  ASSUME NEW s \in Seq(Package), NEW D \in SUBSET Nat, NEW base \in Nat,
         NEW seen \in SUBSET (0 .. MaxPictures), NEW p \in Package,
         p.id = base + p.poc, p.poc \in seen, p.poc # 0,
         Cardinality({t \in seen : t > p.poc}) <= MaxPocCache,
         ListOf(s, D, base), PassedBy(s, D, base, seen \ {p.poc}),
         NEW r, H264Table(s, p, r)
  PROVE  /\ r.added = TRUE
         /\ ListOf(r.list, D \cup Ids(r.out), base)
         /\ PassedBy(r.list, D \cup Ids(r.out), base, seen)
<1>1. CASE r.out = <<>> /\ r.list = Append(s, p) /\ r.added = TRUE
  <2>1. D \cup Ids(r.out) = D
    BY <1>1, IdsFew
  <2>2. ListOf(Append(s, p), D, base) /\ PassedBy(Append(s, p), D, base, seen)
    BY BlockJoins
  <2> QED BY <1>1, <2>1, <2>2
<1>2. ASSUME NEW m \in 1 .. Len(s), \A j \in 1 .. Len(s) : s[m].poc <= s[j].poc,
             Len(s) > MaxPocCache,
             r.out = <<s[m]>>, r.list = Append(RemoveAt(s, m), p), r.added = TRUE
      PROVE  /\ ListOf(r.list, D \cup Ids(r.out), base)
             /\ PassedBy(r.list, D \cup Ids(r.out), base, seen)
  <2>1. PICK u : u = RemoveAt(s, m)
    OBVIOUS
  <2>2. PICK E : E = D \cup {s[m].id} /\ E = D \cup Ids(r.out)
    BY <1>2, IdsFew
  <2>3. u \in Seq(Package)
    <3> DEFINE P == Package
    <3>1. s \in Seq(P)
      OBVIOUS
    <3> HIDE DEF P
    <3>2. u \in Seq(P)
      BY <2>1, <3>1, RemoveAtIs
    <3> QED BY <3>2 DEF P
  <2>4. /\ ListOf(u, E, base)
        /\ \A i \in DOMAIN u : \E j \in DOMAIN s : u[i] = s[j]
        /\ s[m].poc \in 0 .. MaxPictures /\ s[m].id = base + s[m].poc
    <3>1. /\ ListOf(RemoveAt(s, m), D \cup {s[m].id}, base)
          /\ \A i \in DOMAIN RemoveAt(s, m) :
               \E j \in DOMAIN s : RemoveAt(s, m)[i] = s[j]
          /\ s[m].poc \in 0 .. MaxPictures /\ s[m].id = base + s[m].poc
      BY <1>2, BlockLeaves
    <3> QED BY <2>1, <2>2, <3>1
  <2>5. PICK S \in SUBSET (0 .. MaxPictures) : S = seen \ {p.poc}
    OBVIOUS
  <2>6. s[m].poc \in S /\ Crowded(s[m].poc, S)
    <3>1. \A i \in DOMAIN s : s[i].poc \in S
      BY <2>5 DEF PassedBy
    <3> QED BY <1>2, <3>1, FullCrowd
  <2>7. E \in SUBSET Nat
    <3>1. s[m].poc \in Nat
      BY <2>4
    <3>2. s[m].id \in Nat
      <4>1. s[m].id = base + s[m].poc
        BY <2>4
      <4> QED BY <3>1, <4>1
    <3> QED BY <2>2, <3>2
  <2>8. PassedBy(u, E, base, seen \ {p.poc})
    <3>1. \A i \in DOMAIN u : u[i].poc \in S
      BY <2>4, <2>5 DEF PassedBy
    <3>2. \A d \in E : d < base \/ \E t \in S : d = base + t /\ Crowded(t, S)
      <4>1. \A d \in D : d < base \/ \E t \in S : d = base + t /\ Crowded(t, S)
        BY <2>5 DEF PassedBy
      <4> QED BY <2>2, <2>4, <2>6, <4>1
    <3>3. PassedBy(u, E, base, S)
      BY <3>1, <3>2 DEF PassedBy
    <3> QED BY <2>5, <3>3
  <2>9. ListOf(Append(u, p), E, base) /\ PassedBy(Append(u, p), E, base, seen)
    BY <2>3, <2>4, <2>7, <2>8, BlockJoins
  <2> QED BY <1>2, <2>1, <2>2, <2>9
<1>3. \/ r.out = <<>> /\ r.list = Append(s, p) /\ r.added = TRUE
      \/ \E m \in 1 .. Len(s) :
           /\ \A j \in 1 .. Len(s) : s[m].poc <= s[j].poc
           /\ Len(s) > MaxPocCache
           /\ r.out = <<s[m]>> /\ r.list = Append(RemoveAt(s, m), p) /\ r.added = TRUE
  BY DEF H264Table
<1>4. CASE \E m \in 1 .. Len(s) :
           /\ \A j \in 1 .. Len(s) : s[m].poc <= s[j].poc
           /\ Len(s) > MaxPocCache
           /\ r.out = <<s[m]>> /\ r.list = Append(RemoveAt(s, m), p) /\ r.added = TRUE
  <2>1. PICK m \in 1 .. Len(s) :
           /\ \A j \in 1 .. Len(s) : s[m].poc <= s[j].poc
           /\ Len(s) > MaxPocCache
           /\ r.out = <<s[m]>> /\ r.list = Append(RemoveAt(s, m), p) /\ r.added = TRUE
    BY <1>4
  <2> QED BY <1>2, <2>1
<1> QED BY <1>1, <1>3, <1>4

\* Fewer captions went before.
LEMMA FewerDone ==
  ASSUME NEW s, NEW D, NEW E \in SUBSET D, NEW base, NEW seen
  PROVE  /\ ListOf(s, D, base) => ListOf(s, E, base)
         /\ PassedBy(s, D, base, seen) => PassedBy(s, E, base, seen)
<1>1. ListOf(s, D, base) => ListOf(s, E, base)
  BY DEF ListOf
<1>2. PassedBy(s, D, base, seen) => PassedBy(s, E, base, seen)
  BY DEF PassedBy
<1> QED BY <1>1, <1>2

\* The blocks of the list are in the order of the stream.
LEMMA H264Step ==
  ASSUME TypeOK, LifeInv, DataOK, CleanInv, RingInv, H264Inv, SentInv, [Next]_vars
  PROVE  H264Inv'
<1> SUFFICES ASSUME ud_format' = "h264"
             PROVE  \/ H264Idle'
                    \/ /\ thread' = "work" /\ Len(buf') = 1
                       /\ buf'[1].id = Gap * stream'.ref + buf'[1].poc
                       /\ H264Restart' \/ H264Next'
  BY DEF H264Inv
<1>1. stream.ref \in Nat \ {0} /\ stream.seen \in SUBSET (0 .. MaxPictures)
  BY DEF DataOK, StreamRec
<1>2. PICK ref \in Nat \ {0} : ref = stream.ref
  BY <1>1
<1>3. PICK low \in Nat, base \in Nat, next \in Nat :
        /\ low = Gap * (ref - 1) /\ base = Gap * ref /\ next = Gap * (ref + 1)
        /\ base = low + Gap /\ next = base + Gap
  BY GapMul
<1>4. PICK D \in SUBSET Nat : D = Done
  BY DoneNat
<1>5. PICK seen \in SUBSET (0 .. MaxPictures) : seen = stream.seen
  BY <1>1
<1>6. PICK s \in Seq(Package) : s = list
  BY DEF DataOK
<1>7. /\ H264Idle <=> buf = <<>> /\ ListOf(s, D, base) /\ PassedBy(s, D, base, seen)
      /\ H264Restart <=> /\ buf[1].poc = 0 /\ seen = {0} /\ ref > 1
                         /\ ListOf(s, D, low) /\ \A d \in D : d < base
      /\ H264Next <=> /\ buf[1].poc \in seen \ {0}
                      /\ Cardinality({t \in seen : t > buf[1].poc}) <= MaxPocCache
                      /\ ListOf(s, D, base) /\ PassedBy(s, D, base, seen \ {buf[1].poc})
  BY <1>2, <1>3, <1>4, <1>5, <1>6 DEF H264Idle, H264Restart, H264Next
<1>8. CASE ThreadRead
  <2>1. PICK p \in Package : buf' = Append(buf, p) /\ BlockFollows(p, stream')
    BY <1>8, FreshStep
  <2>2. UNCHANGED <<list, out, queue, got>> /\ thread = "poll" /\ thread' = "work"
        /\ (ud_format = "invalid" \/ ud_format = "h264")
    BY <1>8, TakeStep DEF ThreadRead, ghosts
  <2>3. Done' = D
    BY <1>4, <2>2 DEF Done
  <2>4. buf = <<>> /\ ListOf(s, D, base) /\ PassedBy(s, D, base, seen)
    <3>1. CASE ud_format = "h264"
      BY <1>7, <2>2, <3>1 DEF H264Inv
    <3>2. CASE ud_format = "invalid"
      <4>1. buf = <<>> /\ list = <<>> /\ queue = <<>> /\ got = <<>> /\ out = <<>>
        BY <2>2, <3>2 DEF CleanInv
      <4>2. D = {} /\ s = <<>>
        BY <1>4, <1>6, <4>1, IdsFew DEF Done
      <4> QED BY <4>1, <4>2 DEF ListOf, PassedBy
    <3> QED BY <2>2, <3>1, <3>2
  <2>5. Len(buf') = 1 /\ buf'[1] = p
    BY <2>1, <2>4
  <2>6. CASE p.poc = 0 /\ stream'.ref = stream.ref + 1 /\ stream'.seen = {0}
    <3>1. p.id = next + p.poc /\ Gap * stream'.ref = next /\ Gap * (stream'.ref - 1) = base
      <4>1. stream'.ref = ref + 1 /\ stream'.ref - 1 = ref
        BY <1>2, <2>6
      <4> QED BY <1>3, <2>1, <4>1 DEF BlockFollows
    <3>2. ASSUME NEW d \in D PROVE d < next
      <4>1. CASE d < base
        BY <1>3, <4>1, StreamFacts
      <4>2. CASE \E m \in seen : d = base + m
        <5>1. PICK m \in seen : d = base + m
          BY <4>2
        <5>2. m \in Nat /\ m <= MaxPictures
          BY StreamFacts
        <5> QED BY <1>3, <5>1, <5>2, StreamFacts
      <4> QED BY <2>4, <4>1, <4>2 DEF PassedBy
    <3>3. stream'.ref > 1
      BY <1>1, <2>6
    <3>4. H264Restart'
      <4>1. H264Restart' <=>
              /\ buf'[1].poc = 0 /\ stream'.seen = {0} /\ stream'.ref > 1
              /\ ListOf(list', Done', Gap * (stream'.ref - 1))
              /\ \A d \in Done' : d < Gap * stream'.ref
        BY DEF H264Restart
      <4>2. list' = s
        BY <1>6, <2>2
      <4> QED BY <2>3, <2>4, <2>5, <2>6, <3>1, <3>2, <3>3, <4>1, <4>2
    <3> QED BY <2>2, <2>5, <3>1, <3>4
  <2>7. CASE /\ p.poc \in (1 .. MaxPictures) \ stream.seen
             /\ Cardinality({t \in stream.seen : t > p.poc}) <= MaxPocCache
             /\ stream'.ref = stream.ref /\ stream'.seen = stream.seen \cup {p.poc}
    <3>1. p.id = base + p.poc /\ Gap * stream'.ref = base
      BY <1>2, <1>3, <2>1, <2>7 DEF BlockFollows
    <3>2. p.poc # 0 /\ p.poc \in Nat
      BY <2>7
    <3>3. stream'.seen \ {p.poc} = seen
      BY <1>5, <2>7
    <3>4. {t \in stream'.seen : t > p.poc} = {t \in seen : t > p.poc}
      BY <1>5, <2>7, <3>2
    <3>5. H264Next'
      <4>1. H264Next' <=>
              /\ buf'[1].poc \in stream'.seen \ {0}
              /\ Cardinality({t \in stream'.seen : t > buf'[1].poc}) <= MaxPocCache
              /\ ListOf(list', Done', Gap * stream'.ref)
              /\ PassedBy(list', Done', Gap * stream'.ref, stream'.seen \ {buf'[1].poc})
        BY DEF H264Next
      <4>2. list' = s
        BY <1>6, <2>2
      <4>3. p.poc \in stream'.seen \ {0}
        BY <2>7, <3>2
      <4>4. Cardinality({t \in stream'.seen : t > p.poc}) <= MaxPocCache
        BY <1>5, <2>7, <3>4
      <4>5. ListOf(list', Done', Gap * stream'.ref)
        BY <2>3, <2>4, <3>1, <4>2
      <4>6. PassedBy(list', Done', Gap * stream'.ref, stream'.seen \ {p.poc})
        BY <2>3, <2>4, <3>1, <3>3, <4>2
      <4> QED BY <2>5, <4>1, <4>3, <4>4, <4>5, <4>6
    <3> QED BY <2>2, <2>5, <3>1, <3>5
  <2> QED BY <2>1, <2>6, <2>7 DEF BlockFollows
<1>9. CASE ThreadReorder
  <2>1. /\ UNCHANGED <<thread, ud_format, stream>> /\ ud_format = "h264"
        /\ buf # <<>> /\ thread = "work"
    BY <1>9, ReorderStep
  <2>2. PICK r : H264Move(r)
    BY <1>9, <2>1, ReorderStep DEF MpegMove
  <2>3. PICK p \in Package : p = buf[1]
    BY <2>1, BufIs
  <2>4. /\ H264Table(s, p, r) /\ list' = r.list /\ out' = r.out
        /\ buf' = IF r.added THEN Tail(buf) ELSE buf
    BY <1>6, <2>2, <2>3 DEF H264Move
  <2>5. /\ Len(buf) = 1 /\ p.id = base + p.poc
        /\ H264Restart \/ H264Next
    BY <1>2, <1>3, <2>1, <2>3 DEF H264Inv, H264Idle
  <2>6. Tail(buf) = <<>>
    <3> DEFINE P == Package
    <3>1. buf \in Seq(P)
      BY DEF DataOK
    <3> HIDE DEF P
    <3>2. Tail(buf) \in Seq(P) /\ Len(Tail(buf)) = 0
      BY <2>1, <2>5, <3>1, HeadTailProperties
    <3> QED BY <3>2, EmptySeq
  <2>7. Done' = D \cup Ids(r.out)
    BY <1>4, <1>9, <2>4, DoneStep
  <2>8. Gap * stream'.ref = base /\ Gap * (stream'.ref - 1) = low /\ stream'.ref = ref
        /\ stream'.seen = seen
    BY <1>2, <1>3, <1>5, <2>1
  <2>9. H264Idle' <=> /\ buf' = <<>> /\ ListOf(r.list, D \cup Ids(r.out), base)
                      /\ PassedBy(r.list, D \cup Ids(r.out), base, seen)
    <3>1. H264Idle' <=> /\ buf' = <<>> /\ ListOf(list', Done', Gap * stream'.ref)
                        /\ PassedBy(list', Done', Gap * stream'.ref, stream'.seen)
      BY DEF H264Idle
    <3> QED BY <2>4, <2>7, <2>8, <3>1
  <2>10. CASE H264Restart
    <3>1. p.poc = 0 /\ seen = {0} /\ ref > 1 /\ ListOf(s, D, low) /\ \A d \in D : d < base
      BY <1>7, <2>3, <2>10
    <3>2. p.id = base
      BY <2>5, <3>1
    <3>3. \/ /\ r.added = FALSE
             /\ ListOf(r.list, D \cup Ids(r.out), low)
             /\ \A d \in D \cup Ids(r.out) : d < base
          \/ /\ r.added = TRUE
             /\ ListOf(r.list, D \cup Ids(r.out), base)
             /\ PassedBy(r.list, D \cup Ids(r.out), base, {0})
      BY <1>3, <2>4, <3>1, <3>2, RestartTurn
    <3>4. CASE r.added = TRUE
      BY <2>4, <2>6, <2>9, <3>1, <3>3, <3>4
    <3>5. CASE r.added = FALSE
      <4>1. buf' = buf
        BY <2>4, <3>5
      <4>2. H264Restart'
        <5>1. H264Restart' <=>
                /\ buf'[1].poc = 0 /\ stream'.seen = {0} /\ stream'.ref > 1
                /\ ListOf(list', Done', Gap * (stream'.ref - 1))
                /\ \A d \in Done' : d < Gap * stream'.ref
          BY DEF H264Restart
        <5> QED BY <2>3, <2>4, <2>7, <2>8, <3>1, <3>3, <3>5, <4>1, <5>1
      <4> QED BY <2>1, <2>3, <2>5, <2>8, <4>1, <4>2
    <3> QED BY <3>3, <3>4, <3>5
  <2>11. CASE H264Next
    <3>1. /\ p.poc \in seen \ {0}
          /\ Cardinality({t \in seen : t > p.poc}) <= MaxPocCache
          /\ ListOf(s, D, base) /\ PassedBy(s, D, base, seen \ {p.poc})
      BY <1>7, <2>3, <2>11
    <3>2. /\ r.added = TRUE
          /\ ListOf(r.list, D \cup Ids(r.out), base)
          /\ PassedBy(r.list, D \cup Ids(r.out), base, seen)
      BY <2>4, <2>5, <3>1, NextTurn
    <3> QED BY <2>4, <2>6, <2>9, <3>2
  <2> QED BY <2>5, <2>10, <2>11
<1>10. CASE UNCHANGED <<ud_format, buf, list, stream>> /\ (thread' = thread \/ ThreadPolls)
            /\ ~ThreadReorder
  <2>1. PICK E \in SUBSET D : E = Done'
    BY <1>4, <1>10, DoneStep
  <2>2. \/ H264Idle
        \/ /\ thread' = "work" /\ Len(buf) = 1
           /\ buf[1].id = Gap * stream.ref + buf[1].poc
           /\ H264Restart \/ H264Next
    <3>1. ThreadPolls => buf = <<>>
      BY <1>10 DEF ThreadPolls, Extractable
    <3> QED BY <1>10, <3>1 DEF H264Inv
  <2>3. /\ \A b \in {low, base} : ListOf(s, D, b) => ListOf(s, E, b)
        /\ \A S : PassedBy(s, D, base, S) => PassedBy(s, E, base, S)
    BY FewerDone
  <2>4. /\ H264Idle' <=> buf = <<>> /\ ListOf(s, E, base) /\ PassedBy(s, E, base, seen)
        /\ H264Restart' <=> /\ buf[1].poc = 0 /\ seen = {0} /\ ref > 1
                            /\ ListOf(s, E, low) /\ \A d \in E : d < base
        /\ H264Next' <=> /\ buf[1].poc \in seen \ {0}
                         /\ Cardinality({t \in seen : t > buf[1].poc}) <= MaxPocCache
                         /\ ListOf(s, E, base) /\ PassedBy(s, E, base, seen \ {buf[1].poc})
    BY <1>2, <1>3, <1>5, <1>6, <1>10, <2>1 DEF H264Idle, H264Restart, H264Next
  <2>5. H264Idle => H264Idle'
    BY <1>7, <2>3, <2>4
  <2>6. H264Restart => H264Restart'
    BY <1>7, <2>3, <2>4
  <2>7. H264Next => H264Next'
    BY <1>7, <2>3, <2>4
  <2> QED BY <1>10, <2>2, <2>5, <2>6, <2>7
<1> QED BY <1>8, <1>9, <1>10, WorkerStep

-----------------------------------------------------------------------------
(* Captions in display order.                                              *)

LEMMA OrderedFew ==
  Ordered(<<>>) /\ \A e : Ordered(<<e>>)
<1>1. Ordered(<<>>)
  BY DEF Ordered
<1>2. ASSUME NEW e PROVE Ordered(<<e>>)
  <2>1. PICK s : s = <<e>>
    OBVIOUS
  <2>2. DOMAIN s = {1}
    BY <2>1
  <2>3. Ordered(s)
    BY <2>2 DEF Ordered
  <2> QED BY <2>1, <2>3
<1> QED BY <1>1, <1>2

LEMMA NotOne ==
  ASSUME NEW n \in Nat, n >= 2
  PROVE  n # 1
OBVIOUS

\* What the reordering hands on comes after all that it handed on before.
LEMMA ReorderOrder ==
  ASSUME TypeOK, DataOK, MpegInv, H264Inv, TopFirst \/ ud_format # "mpeg", ThreadReorder
  PROVE  Ordered(out') /\ \A d \in Done, j \in DOMAIN out' : d < out'[j].id
<1>1. buf # <<>> /\ thread = "work" /\ UNCHANGED <<ud_format, stream>>
  BY ReorderStep
<1>2. PICK r : MpegMove(r) \/ H264Move(r)
  BY ReorderStep
<1>3. PICK p \in Package : p = buf[1]
  BY <1>1, BufIs
<1>4. PICK D \in SUBSET Nat : D = Done
  BY DoneNat
<1>5. CASE MpegMove(r)
  <2>1. ud_format = "mpeg" /\ out' = r.out /\ r.out \in Seq(Package) /\ Len(buf) >= 2
    BY <1>5 DEF MpegMove
  <2>2. PICK v : v = vd /\ HeldOK(v)
    BY DEF DataOK, HeldOK
  <2>3. MpegTable(v, p, r)
    BY <1>3, <1>5, <2>2 DEF MpegMove
  <2>4. TopFirst
    BY <2>1
  <2>5. PICK x \in Positions :
          LeadsFrom(x) /\ MaskAt(v, x) /\ HeldAt(v, x) /\ \A d \in D : d <= Limit(x)
    BY <1>4, <2>1, <2>2, <2>4 DEF MpegInv
  <2>6. PICK y \in Positions : y = After(x, p) /\ Follows(x, p)
    <3>0. Len(buf) # 1
      <4>1. Len(buf) >= 2 /\ Len(buf) \in Nat
        BY <2>1, BufIs
      <4> QED BY <4>1, NotOne
    <3>1. LeadsFrom(x) /\ Len(buf) # 1
      BY <2>5, <3>0, Zenon
    <3>2. Len(buf) = 2 /\ After(x, buf[1]) \in Positions /\ Follows(x, buf[1])
      BY <3>1, Zenon DEF LeadsFrom
    <3> QED BY <1>3, <3>2
  <2>7. Succeeds(x, p, y)
    BY <2>6, AfterIs
  <2>8. Between(r.out, Limit(x), Limit(y))
    BY <2>2, <2>3, <2>4, <2>5, <2>7, HeldTurn
  <2>9. PICK o \in Seq(Package) : o = r.out
    BY <2>1
  <2>10. DOMAIN o = 1 .. Len(o) /\ \A i \in 1 .. Len(o) : o[i].id \in Nat
    <3> DEFINE P == Package
    <3>1. o \in Seq(P)
      OBVIOUS
    <3> HIDE DEF P
    <3>2. DOMAIN o = 1 .. Len(o) /\ \A i \in 1 .. Len(o) : o[i] \in P
      BY <3>1, LenProperties, ElementOfSeq
    <3> QED BY <3>2 DEF P, Package
  <2>11. Limit(x) \in Nat
    <3>1. x.ref \in Nat \ {0} /\ x.b \in Nat
      BY StreamFacts DEF Positions
    <3>2. Gap * (x.ref - 1) \in Nat
      BY <3>1, GapMul
    <3> QED BY <3>1, <3>2 DEF Limit
  <2>12. Ordered(o)
    BY <2>8, <2>9, <2>10 DEF Ordered, Between
  <2>13. ASSUME NEW d \in D, NEW j \in 1 .. Len(o) PROVE d < o[j].id
    <3>1. d <= Limit(x) /\ d \in Nat
      BY <2>5
    <3>2. Limit(x) < o[j].id /\ o[j].id \in Nat
      BY <2>8, <2>9, <2>10 DEF Between
    <3> QED BY <2>11, <3>1, <3>2
  <2> QED BY <1>4, <2>1, <2>9, <2>10, <2>12, <2>13
<1>6. CASE H264Move(r)
  <2>1. ud_format = "h264" /\ out' = r.out
    BY <1>6 DEF H264Move
  <2>2. PICK s \in Seq(Package) : s = list
    BY DEF DataOK
  <2>3. H264Table(s, p, r)
    BY <1>3, <1>6, <2>2 DEF H264Move
  <2>4. PICK base \in Nat : ListOf(s, D, base)
    <3>1. stream.ref \in Nat \ {0}
      BY DEF DataOK, StreamRec
    <3>2. Gap * stream.ref \in Nat /\ Gap * (stream.ref - 1) \in Nat
      BY <3>1, GapMul
    <3> QED BY <1>4, <2>1, <2>2, <3>2 DEF H264Inv, H264Idle, H264Restart, H264Next
  <2>5. CASE r.out = <<>>
    BY <2>1, <2>5, OrderedFew
  <2>6. CASE \E m \in 1 .. Len(s) :
          (\A j \in 1 .. Len(s) : s[m].poc <= s[j].poc) /\ r.out = <<s[m]>>
    <3>1. PICK m \in 1 .. Len(s) :
            (\A j \in 1 .. Len(s) : s[m].poc <= s[j].poc) /\ r.out = <<s[m]>>
      BY <2>6
    <3>2. \A d \in D : d < s[m].id
      BY <2>4, <3>1, BlockLeaves
    <3>3. PICK e : e = s[m]
      OBVIOUS
    <3>4. out' = <<e>>
      BY <2>1, <3>1, <3>3
    <3>5. DOMAIN out' = {1} /\ out'[1] = e
      BY <3>4
    <3>6. Ordered(out')
      <4>1. Ordered(<<e>>)
        BY OrderedFew
      <4> QED BY <3>4, <4>1
    <3> QED BY <1>4, <3>2, <3>3, <3>5, <3>6
  <2> QED BY <2>3, <2>5, <2>6 DEF H264Table
<1> QED BY <1>2, <1>5, <1>6

\* A package goes from a queue to the one behind it.
LEMMA OrderTail ==
  ASSUME NEW S, NEW s \in Seq(S), s # <<>>
  PROVE  /\ Ordered(s) => /\ Ordered(Tail(s))
                          /\ \A j \in DOMAIN Tail(s) : s[1].id < Tail(s)[j].id
         /\ \A j \in DOMAIN Tail(s) : j + 1 \in DOMAIN s /\ Tail(s)[j] = s[j + 1]
         /\ 1 \in DOMAIN s
<1>1. PICK t : t = Tail(s)
  OBVIOUS
<1>2. PICK n \in Nat : n + 1 = Len(s)
  <2>1. Len(s) \in Nat /\ Len(s) # 0
    BY EmptySeq, LenProperties
  <2>2. Len(s) - 1 \in Nat /\ (Len(s) - 1) + 1 = Len(s)
    BY <2>1
  <2> QED BY <2>2
<1>3. /\ DOMAIN s = 1 .. (n + 1) /\ DOMAIN t = 1 .. n
      /\ \A i \in 1 .. n : t[i] = s[i + 1]
  <2>1. Tail(s) \in Seq(S) /\ Len(Tail(s)) = Len(s) - 1
        /\ \A i \in 1 .. Len(Tail(s)) : Tail(s)[i] = s[i + 1]
    BY HeadTailProperties
  <2>2. DOMAIN s = 1 .. Len(s) /\ DOMAIN Tail(s) = 1 .. Len(Tail(s))
    BY <2>1, LenProperties
  <2>3. Len(Tail(s)) = n
    BY <1>2, <2>1
  <2> QED BY <1>1, <1>2, <2>1, <2>2, <2>3
<1>4. 1 \in 1 .. (n + 1) /\ \A i \in 1 .. n : i + 1 \in 1 .. (n + 1) /\ 1 < i + 1
  OBVIOUS
<1>5. ASSUME Ordered(s) PROVE Ordered(t) /\ \A j \in DOMAIN t : s[1].id < t[j].id
  <2>1. ASSUME NEW i \in 1 .. n, NEW j \in 1 .. n, i < j PROVE t[i].id < t[j].id
    <3>1. i + 1 \in DOMAIN s /\ j + 1 \in DOMAIN s /\ i + 1 < j + 1
      BY <1>3, <1>4, <2>1
    <3>2. s[i + 1].id < s[j + 1].id
      BY <1>5, <3>1 DEF Ordered
    <3> QED BY <1>3, <3>2
  <2>2. ASSUME NEW j \in 1 .. n PROVE s[1].id < t[j].id
    <3>1. 1 \in DOMAIN s /\ j + 1 \in DOMAIN s /\ 1 < j + 1
      BY <1>3, <1>4
    <3>2. s[1].id < s[j + 1].id
      BY <1>5, <3>1 DEF Ordered
    <3> QED BY <1>3, <3>2
  <2> QED BY <1>3, <2>1, <2>2 DEF Ordered
<1> QED BY <1>1, <1>3, <1>4, <1>5

LEMMA OrderAppend ==
  ASSUME NEW S, NEW s \in Seq(S), NEW e \in S
  PROVE  /\ \A j \in DOMAIN Append(s, e) :
              (j \in DOMAIN s /\ Append(s, e)[j] = s[j]) \/ Append(s, e)[j] = e
         /\ Ordered(s) /\ (\A i \in DOMAIN s : s[i].id < e.id) => Ordered(Append(s, e))
         /\ (/\ \A i, j \in DOMAIN s : i < j => s[i] < s[j]
             /\ \A i \in DOMAIN s : s[i] < e) =>
              \A i, j \in DOMAIN Append(s, e) : i < j => Append(s, e)[i] < Append(s, e)[j]
<1>1. PICK t : t = Append(s, e)
  OBVIOUS
<1>2. PICK n \in Nat :
        /\ DOMAIN s = 1 .. n /\ DOMAIN t = 1 .. (n + 1)
        /\ \A i \in 1 .. n : t[i] = s[i]
        /\ t[n + 1] = e
  <2>1. /\ Append(s, e) \in Seq(S) /\ Len(Append(s, e)) = Len(s) + 1
        /\ \A i \in 1 .. Len(s) : Append(s, e)[i] = s[i]
        /\ Append(s, e)[Len(s) + 1] = e
    BY AppendProperties
  <2>2. /\ Len(s) \in Nat /\ DOMAIN s = 1 .. Len(s)
        /\ DOMAIN Append(s, e) = 1 .. Len(Append(s, e))
    BY <2>1, LenProperties
  <2> QED BY <1>1, <2>1, <2>2
<1>3. \A i, j \in 1 .. (n + 1) :
        i < j => i \in 1 .. n /\ (j \in 1 .. n \/ j = n + 1)
  OBVIOUS
<1>4. \A j \in 1 .. (n + 1) : j \in 1 .. n \/ j = n + 1
  OBVIOUS
<1>5. \A j \in DOMAIN t : (j \in DOMAIN s /\ t[j] = s[j]) \/ t[j] = e
  BY <1>2, <1>4
<1>6. ASSUME Ordered(s), \A i \in DOMAIN s : s[i].id < e.id PROVE Ordered(t)
  <2>1. ASSUME NEW i \in 1 .. (n + 1), NEW j \in 1 .. (n + 1), i < j
        PROVE  t[i].id < t[j].id
    <3>1. i \in 1 .. n /\ t[i] = s[i]
      BY <1>2, <1>3, <2>1
    <3>2. CASE j \in 1 .. n
      BY <1>2, <1>6, <2>1, <3>1, <3>2 DEF Ordered
    <3>3. CASE j = n + 1
      BY <1>2, <1>6, <3>1, <3>3
    <3> QED BY <1>4, <3>2, <3>3
  <2> QED BY <1>2, <2>1 DEF Ordered
<1>7. ASSUME \A i, j \in DOMAIN s : i < j => s[i] < s[j], \A i \in DOMAIN s : s[i] < e
      PROVE  \A i, j \in DOMAIN t : i < j => t[i] < t[j]
  <2>1. ASSUME NEW i \in 1 .. (n + 1), NEW j \in 1 .. (n + 1), i < j
        PROVE  t[i] < t[j]
    <3>1. i \in 1 .. n /\ t[i] = s[i]
      BY <1>2, <1>3, <2>1
    <3>2. CASE j \in 1 .. n
      BY <1>2, <1>7, <2>1, <3>1, <3>2
    <3>3. CASE j = n + 1
      BY <1>2, <1>7, <3>1, <3>3
    <3> QED BY <1>4, <3>2, <3>3
  <2> QED BY <1>2, <2>1
<1> QED BY <1>1, <1>5, <1>6, <1>7

LEMMA OrderStep ==
  ASSUME TypeOK, LifeInv, DataOK, RingInv, MpegInv, H264Inv, OrderInv,
         TopFirst \/ ud_format # "mpeg", [Next]_vars
  PROVE  OrderInv'
<1>1. /\ CaptionsInOrder /\ Ordered(queue) /\ Ordered(out)
      /\ \A i \in DOMAIN got, j \in DOMAIN queue : got[i] < queue[j].id
      /\ \A i \in DOMAIN got, j \in DOMAIN out : got[i] < out[j].id
      /\ \A i \in DOMAIN queue, j \in DOMAIN out : queue[i].id < out[j].id
  BY DEF OrderInv
<1>2. OrderInv' <=>
        /\ \A i, j \in DOMAIN got' : i < j => got'[i] < got'[j]
        /\ Ordered(queue') /\ Ordered(out')
        /\ \A i \in DOMAIN got', j \in DOMAIN queue' : got'[i] < queue'[j].id
        /\ \A i \in DOMAIN got', j \in DOMAIN out' : got'[i] < out'[j].id
        /\ \A i \in DOMAIN queue', j \in DOMAIN out' : queue'[i].id < out'[j].id
  BY DEF OrderInv, CaptionsInOrder, Ordered
<1>3. \A i, j \in DOMAIN got : i < j => got[i] < got[j]
  BY <1>1 DEF CaptionsInOrder
<1>4. CASE ThreadReorder
  <2>1. UNCHANGED <<queue, got>>
    BY <1>4 DEF ThreadReorder, ghosts
  <2>2. Ordered(out') /\ \A d \in Done, j \in DOMAIN out' : d < out'[j].id
    BY <1>4, ReorderOrder
  <2>3. /\ \A i \in DOMAIN got : got[i] \in Done
        /\ \A i \in DOMAIN queue : queue[i].id \in Done
    BY DEF Done, Ids, ToSet
  <2> QED BY <1>1, <1>2, <1>3, <2>1, <2>2, <2>3
<1>5. CASE ThreadWrite
  <2>1. PICK e : e = Head(out)
    OBVIOUS
  <2>2. PICK f : f = [id |-> e.id, len |-> e.len]
    OBVIOUS
  <2>3. /\ out # <<>> /\ e \in Package /\ out' = Tail(out) /\ got' = got
        /\ queue' = Append(queue, f) \/ queue' = queue
    BY <1>5, <2>1, <2>2, WriteStep
  <2>4. f.id = e.id /\ f \in Queued
    BY <2>2, <2>3 DEF Queued, Package
  <2>5. /\ 1 \in DOMAIN out /\ out[1] = e /\ Ordered(out')
        /\ \A j \in DOMAIN out' : e.id < out'[j].id
        /\ \A j \in DOMAIN out' : j + 1 \in DOMAIN out /\ out'[j] = out[j + 1]
    <3> DEFINE S == Package
    <3>1. out \in Seq(S)
      BY DEF DataOK
    <3> HIDE DEF S
    <3>2. e = out[1]
      BY <2>1, <2>3, <3>1
    <3>3. /\ Ordered(out) => /\ Ordered(Tail(out))
                             /\ \A j \in DOMAIN Tail(out) : out[1].id < Tail(out)[j].id
          /\ \A j \in DOMAIN Tail(out) : j + 1 \in DOMAIN out /\ Tail(out)[j] = out[j + 1]
          /\ 1 \in DOMAIN out
      BY <2>3, <3>1, OrderTail
    <3> QED BY <1>1, <2>3, <3>2, <3>3
  <2>6. /\ \A i \in DOMAIN got, j \in DOMAIN out' : got[i] < out'[j].id
        /\ \A i \in DOMAIN queue, j \in DOMAIN out' : queue[i].id < out'[j].id
        /\ \A i \in DOMAIN queue : queue[i].id < f.id
        /\ \A i \in DOMAIN got : got[i] < f.id
    BY <1>1, <2>4, <2>5
  <2>7. CASE queue' = queue
    BY <1>1, <1>2, <1>3, <2>3, <2>5, <2>6, <2>7
  <2>8. CASE queue' = Append(queue, f)
    <3>1. PICK q : q = Append(queue, f)
      OBVIOUS
    <3>2. /\ \A j \in DOMAIN q : (j \in DOMAIN queue /\ q[j] = queue[j]) \/ q[j] = f
          /\ Ordered(q)
      <4>1. /\ \A j \in DOMAIN Append(queue, f) :
                 (j \in DOMAIN queue /\ Append(queue, f)[j] = queue[j]) \/ Append(queue, f)[j] = f
            /\ Ordered(queue) /\ (\A i \in DOMAIN queue : queue[i].id < f.id) =>
                 Ordered(Append(queue, f))
        <5>1. PICK S : S = Queued
          OBVIOUS
        <5>2. queue \in Seq(S) /\ f \in S
          BY <2>4, <5>1 DEF DataOK
        <5> QED BY <5>2, OrderAppend
      <4> QED BY <1>1, <2>6, <3>1, <4>1
    <3>3. /\ \A i \in DOMAIN got, j \in DOMAIN q : got[i] < q[j].id
      BY <1>1, <2>6, <3>2
    <3>4. \A i \in DOMAIN q, j \in DOMAIN out' : q[i].id < out'[j].id
      BY <1>1, <2>4, <2>5, <2>6, <3>2
    <3>5. queue' = q /\ got' = got
      BY <2>3, <2>8, <3>1
    <3> QED BY <1>2, <1>3, <2>5, <2>6, <3>2, <3>3, <3>4, <3>5
  <2> QED BY <2>3, <2>7, <2>8
<1>6. ASSUME ~ThreadReorder, ~ThreadWrite PROVE OrderInv'
  <2>1. out' = out
    BY <1>6, OutStep
  <2>2. CASE UNCHANGED <<ring, ghosts>>
    <3>1. queue' = queue /\ got' = got
      BY <2>2 DEF ghosts
    <3> QED BY <1>1, <1>2, <1>3, <2>1, <3>1
  <2>3. ASSUME NEW c \in Clients, ReadBy(c) PROVE OrderInv'
    <3>1. PICK e : e = queue[1].id
      OBVIOUS
    <3>2. /\ queue # <<>> /\ queue' = Tail(queue)
          /\ got' = Append(got, e) \/ got' = got
      BY <2>3, <3>1, ReadStep
    <3>3. /\ 1 \in DOMAIN queue /\ Ordered(queue')
          /\ \A j \in DOMAIN queue' : e < queue'[j].id
          /\ \A j \in DOMAIN queue' : j + 1 \in DOMAIN queue /\ queue'[j] = queue[j + 1]
      <4> DEFINE S == Queued
      <4>1. queue \in Seq(S)
        BY DEF DataOK
      <4> HIDE DEF S
      <4>2. /\ Ordered(queue) => /\ Ordered(Tail(queue))
                                 /\ \A j \in DOMAIN Tail(queue) : queue[1].id < Tail(queue)[j].id
            /\ \A j \in DOMAIN Tail(queue) :
                 j + 1 \in DOMAIN queue /\ Tail(queue)[j] = queue[j + 1]
            /\ 1 \in DOMAIN queue
        BY <3>2, <4>1, OrderTail
      <4> QED BY <1>1, <3>1, <3>2, <4>2
    <3>4. /\ \A i \in DOMAIN got, j \in DOMAIN queue' : got[i] < queue'[j].id
          /\ \A i \in DOMAIN queue', j \in DOMAIN out : queue'[i].id < out[j].id
          /\ \A i \in DOMAIN got : got[i] < e
          /\ \A j \in DOMAIN out : e < out[j].id
      BY <1>1, <3>1, <3>3
    <3>5. CASE got' = got
      BY <1>1, <1>2, <1>3, <2>1, <3>3, <3>4, <3>5
    <3>6. CASE got' = Append(got, e)
      <4>1. PICK g : g = Append(got, e)
        OBVIOUS
      <4>2. e \in Nat
        <5>1. RingOK /\ 1 \in 1 .. Len(queue)
          BY <3>2, DataIsRing, EmptySeq DEF DataOK
        <5> QED BY <3>1, <5>1, QueuedIs
      <4>3. /\ \A j \in DOMAIN g : (j \in DOMAIN got /\ g[j] = got[j]) \/ g[j] = e
            /\ \A i, j \in DOMAIN g : i < j => g[i] < g[j]
        <5>1. /\ \A j \in DOMAIN Append(got, e) :
                   (j \in DOMAIN got /\ Append(got, e)[j] = got[j]) \/ Append(got, e)[j] = e
              /\ (/\ \A i, j \in DOMAIN got : i < j => got[i] < got[j]
                  /\ \A i \in DOMAIN got : got[i] < e) =>
                   \A i, j \in DOMAIN Append(got, e) :
                     i < j => Append(got, e)[i] < Append(got, e)[j]
          <6>1. got \in Seq(Nat)
            BY DEF DataOK
          <6> QED BY <4>2, <6>1, OrderAppend
        <5> QED BY <1>3, <3>4, <4>1, <5>1
      <4>4. \A i \in DOMAIN g, j \in DOMAIN queue' : g[i] < queue'[j].id
        BY <3>3, <3>4, <4>3
      <4>5. \A i \in DOMAIN g, j \in DOMAIN out : g[i] < out[j].id
        BY <1>1, <3>4, <4>3
      <4>6. got' = g
        BY <3>6, <4>1
      <4> QED BY <1>1, <1>2, <2>1, <3>3, <3>4, <4>3, <4>4, <4>5, <4>6
    <3> QED BY <3>2, <3>5, <3>6
  <2>4. ASSUME NEW c \in Clients, CloseJoined(c) PROVE OrderInv'
    <3>1. queue' = <<>> /\ got' = <<>>
      BY <2>4 DEF CloseJoined
    <3> QED BY <1>1, <1>2, <2>1, <3>1, OrderedFew
  <2> QED BY <1>6, <2>2, <2>3, <2>4, RingCases
<1> QED BY <1>4, <1>5, <1>6

\* The formats that the decoder may report.
FormatInv == ud_format \in Formats \cup {"invalid"}

LEMMA FormatStep ==
  ASSUME LifeInv, CleanInv, FormatInv, [Next]_vars
  PROVE  FormatInv'
<1>1. CASE ThreadRead
  BY <1>1 DEF ThreadRead, FormatInv
<1>2. CASE ThreadReorder
  BY <1>2 DEF ThreadReorder, FormatInv
<1> QED BY <1>1, <1>2, WorkerStep DEF FormatInv

DisplayInv == DeviceInv /\ MpegInv /\ H264Inv /\ SentInv /\ FormatInv /\ OrderInv

LEMMA DisplayInit == Init => DisplayInv
<1> SUFFICES ASSUME Init PROVE DisplayInv
  OBVIOUS
<1>1. DeviceInv
  BY DeviceInit
<1>2. MpegInv /\ H264Inv /\ SentInv /\ FormatInv
  BY DEF Init, MpegInv, H264Inv, SentInv, FormatInv
<1>3. OrderInv
  BY OrderedFew DEF Init, OrderInv, CaptionsInOrder
<1> QED BY <1>1, <1>2, <1>3 DEF DisplayInv

LEMMA DisplayNext ==
  ASSUME TopFirst \/ "mpeg" \notin Formats
  PROVE  DisplayInv /\ [Next]_vars => DisplayInv'
<1> SUFFICES ASSUME DeviceInv, MpegInv, H264Inv, SentInv, FormatInv, OrderInv, [Next]_vars
             PROVE  DisplayInv'
  BY DEF DisplayInv
<1>1. TypeOK /\ LifeInv /\ DataOK /\ CleanInv /\ RingInv
  BY DEF DeviceInv
<1>2. DeviceInv'
  BY DeviceNext
<1>3. MpegInv' /\ SentInv'
  BY <1>1, MpegStep, SentStep
<1>4. H264Inv'
  BY <1>1, H264Step
<1>5. FormatInv'
  BY <1>1, FormatStep
<1>6. OrderInv'
  <2>1. TopFirst \/ ud_format # "mpeg"
    BY DEF FormatInv
  <2> QED BY <1>1, <2>1, OrderStep
<1> QED BY <1>2, <1>3, <1>4, <1>5, <1>6 DEF DisplayInv

\* Readers get the captions of a stream in display order, whatever was lost on
\* the way, if the top field of an MPEG picture is coded first: what
\* aml_reorder_user_data and aml_h264_reorder_user_data are for.
THEOREM OrderCorrect ==
  ASSUME TopFirst \/ "mpeg" \notin Formats
  PROVE  Spec => []CaptionsInOrder
<1>1. DisplayInv => CaptionsInOrder
  BY DEF DisplayInv, OrderInv
<1>2. Init => DisplayInv
  BY DisplayInit
<1>3. DisplayInv /\ [Next]_vars => DisplayInv'
  BY DisplayNext
<1> QED BY <1>1, <1>2, <1>3, PTL DEF Spec
=============================================================================
