----------------------------- MODULE AmUserdata -----------------------------
(***************************************************************************)
(* The user data (closed caption) device of dvb/am_adp/am_userdata: a      *)
(* thread captures packages from the video decoder, puts them into display *)
(* order (AmUdReorder) and writes them to a ring buffer of bytes, from     *)
(* which clients read whole packages with a timeout.                       *)
(*                                                                         *)
(* Every critical section under dev->lock is one step; am_gAdpLock is held *)
(* across steps only by the close that waits for the thread.  A client     *)
(* reads between its own open and close.                                   *)
(***************************************************************************)
EXTENDS AmUdReorder, FiniteSets

CONSTANTS
  Clients,
  Nobody,
  BufSize,      \* USERDATA_BUF_SIZE
  Short, Long,  \* lengths of the packages
  Sizes,        \* sizes of the readers' buffers
  MaxPictures,  \* bound: pictures of a stream
  Formats,      \* subset of {"mpeg", "h264"}; DirecTV and AVS are as H.264
  FirstFields   \* which field of a picture may be coded first

ASSUME ClientAssumption == IsFiniteSet(Clients) /\ Nobody \notin Clients
ASSUME SizeAssumption ==
  {BufSize, Short, Long} \subseteq Nat \ {0} /\ Sizes \subseteq Nat
ASSUME StreamAssumption ==
  /\ MaxPictures \in Nat
  /\ Formats \subseteq {"mpeg", "h264"}
  /\ FirstFields \subseteq {"top", "bottom"}

VARIABLES
  gAdpLock,   \* owner of am_gAdpLock between steps
  open_cnt,
  alive,      \* dev->lock, its condition and the buffer are initialised
  data, pread, pwrite,  \* pkg_buf
  pc, size,   \* each client's position, and its buffer in AM_USERDATA_Read
  thread,     \* "none", "poll", "work" or "exit"
  running, flush, ud_format,
  buf,        \* packages that were read from the decoder
  out,        \* packages that the reordering hands to write_package
  vd, list,   \* what is held back: aml_ud_reorder, the blocks at p_header
  stream,     \* external: the video stream so far
  queue,      \* ghost: the packages in the ring
  got, lost   \* ghosts: packages that readers got, and that did not fit

ring   == <<data, pread, pwrite>>
worker == <<thread, running, flush, ud_format, buf, out, vd, list, stream>>
ghosts == <<queue, got, lost>>
vars   == <<gAdpLock, open_cnt, alive, ring, pc, size, worker, ghosts>>

-----------------------------------------------------------------------------
(* The ring buffer.                                                        *)

Word == 4   \* sizeof(int)
Blank == <<"blank", 0, 0>>

\* The bytes of a length word and of a package.
LengthWord(n) == [k \in 1 .. Word |-> <<"len", n, k>>]
PackageBytes(p) == [k \in 1 .. p.len |-> <<"pkg", p.id, k>>]

RingFree ==
  (IF pread - pwrite <= 0 THEN pread - pwrite + BufSize ELSE pread - pwrite) - 1

RingAvail(r, w) == IF w - r < 0 THEN w - r + BufSize ELSE w - r

\* How many of len bytes from pos on lie before the end of the buffer, if the
\* rest does not; 0 if all do.
Split(pos, len) == IF pos + len > BufSize THEN BufSize - pos ELSE 0

Rest(pos, len) == IF Split(pos, len) > 0 THEN 0 ELSE pos

Advance(pos, len) == (Rest(pos, len) + len - Split(pos, len)) % BufSize

\* userdata_ring_buf_read.
RingRead(pos, len) ==
  LET split == Split(pos, len)
  IN  [k \in 1 .. len |->
         IF k <= split THEN data[pos + k - 1]
         ELSE data[Rest(pos, len) + k - split - 1]]

\* userdata_ring_buf_write, on the contents d.
RingWrite(d, pos, bytes) ==
  LET split == Split(pos, Len(bytes))
      rest  == Rest(pos, Len(bytes))
  IN  [i \in 0 .. (BufSize - 1) |->
         CASE split > 0 /\ i >= pos -> bytes[i - pos + 1]
           [] i >= rest /\ i < rest + Len(bytes) - split ->
                bytes[split + i - rest + 1]
           [] OTHER -> d[i]]

\* What four bytes mean as a length, and other bytes as a package (0: none).
LengthOf(bytes) ==
  IF bytes = LengthWord(bytes[1][2]) THEN bytes[1][2] ELSE 0

IdOf(bytes) ==
  IF bytes = PackageBytes([id |-> bytes[1][2], len |-> Len(bytes)])
  THEN bytes[1][2] ELSE 0

-----------------------------------------------------------------------------
(* External: the stream.  Identifiers grow in display order: the pictures  *)
(* coded after reference r that refer to it come before it.                *)

Gap == 2 * MaxPictures + 2

\* The packages of I and P pictures are long, those of B pictures short.
Picture(type, st, poc, id) ==
  [type |-> type, st |-> st, poc |-> poc, id |-> id,
   len |-> IF type = "I" THEN Long ELSE Short]

NoStream ==
  [n |-> 0, ref |-> 1, b |-> 0, due |-> "none", type |-> "I", last |-> 0,
   seen |-> {}, sent |-> {}]

Sent(s, id) ==
  [s EXCEPT !.n = @ + 1, !.last = id, !.sent = @ \cup {id}]

Opposite(st) ==
  CASE st = "top" -> "bottom" [] st = "bottom" -> "top" [] OTHER -> "none"

MpegFirst(type, st) ==
  LET ref == IF type = "I" THEN stream.ref + 1 ELSE stream.ref
      b   == IF type = "I" THEN 0 ELSE stream.b + 1
      id  == IF type = "I" THEN Gap * ref ELSE Gap * (ref - 1) + 2 * b
  IN  [p |-> Picture(type, st, 0, id),
       stream |-> [Sent(stream, id) EXCEPT
                     !.ref = ref, !.b = b, !.due = Opposite(st), !.type = type]]

MpegSecond ==
  [p |-> Picture(stream.type, stream.due, 0, stream.last + 1),
   stream |-> [Sent(stream, stream.last + 1) EXCEPT !.due = "none"]]

\* A picture overtakes at most MaxPocCache others, and order count 0 starts
\* over.
H264Picture(poc) ==
  LET ref == IF poc = 0 THEN stream.ref + 1 ELSE stream.ref
      type == IF poc = 0 THEN "I" ELSE "B"
  IN  [p |-> Picture(type, "frame", poc, Gap * ref + poc),
       stream |-> [Sent(stream, Gap * ref + poc) EXCEPT
                     !.ref = ref,
                     !.seen = IF poc = 0 THEN {0} ELSE @ \cup {poc}]]

NextPictures(format) ==
  CASE format = "mpeg" /\ stream.due # "none" -> {MpegSecond}
    [] format = "mpeg" /\ stream.due = "none" ->
         {MpegFirst(type, st) : type \in {"I", "B"}, st \in {"frame"} \cup FirstFields}
    [] format = "h264" ->
         {H264Picture(poc) : poc \in
            {0} \cup {q \in (1 .. MaxPictures) \ stream.seen :
                        Cardinality({s \in stream.seen : s > q}) <= MaxPocCache}}

-----------------------------------------------------------------------------
(* The capture thread, aml_userdata_thread.                                *)

NoPackage == [type |-> "I", st |-> "frame", poc |-> 0, id |-> 0, len |-> 0]
NoReorder == [mask |-> 0, buf |-> <<NoPackage, NoPackage>>]

\* The first read is thrown away, and the decoder told to flush.
ThreadFlush ==
  /\ thread = "poll" /\ running /\ ~flush
  /\ flush' = TRUE
  /\ UNCHANGED <<gAdpLock, open_cnt, alive, ring, pc, size, thread, running,
                 ud_format, buf, out, vd, list, stream, ghosts>>

\* A read returns one more package; the first one decides on the format.  The
\* thread does nothing but process them between two packages of a read, so one
\* package per read is all that matters.
ThreadRead ==
  /\ thread = "poll" /\ running /\ flush
  /\ stream.n < MaxPictures
  /\ ud_format' \in IF ud_format = "invalid" THEN Formats ELSE {ud_format}
  /\ \E x \in NextPictures(ud_format') :
       /\ buf' = Append(buf, x.p)
       /\ stream' = x.stream
  /\ thread' = "work"
  /\ UNCHANGED <<gAdpLock, open_cnt, alive, ring, pc, size, running, flush,
                 out, vd, list, ghosts>>

\* aml_extract_package needs the header of the next MPEG package.
Extractable ==
  CASE ud_format = "mpeg" -> Len(buf) >= 2
    [] OTHER -> buf # <<>>

\* aml_reorder_user_data or aml_h264_reorder_user_data, up to what it writes.
ThreadReorder ==
  /\ thread = "work" /\ out = <<>> /\ Extractable
  /\ \/ /\ ud_format = "mpeg"
        /\ LET r == ReorderMpeg(vd, Head(buf))
           IN  out' = r.out /\ vd' = r.vd
        /\ buf' = Tail(buf)
        /\ UNCHANGED list
     \/ /\ ud_format = "h264"
        /\ LET r == ReorderH264(list, Head(buf))
           IN  /\ out' = r.out /\ list' = r.list
               /\ buf' = IF r.added THEN Tail(buf) ELSE buf
        /\ UNCHANGED vd
  /\ UNCHANGED <<gAdpLock, open_cnt, alive, ring, pc, size, thread, running,
                 flush, ud_format, stream, ghosts>>

Waiting == {c \in Clients : pc[c] = "wait"}

\* Mutant: a waiter is signalled only if the buffer was empty.
SignalIfEmpty(W) ==
  /\ W \subseteq Waiting
  /\ Cardinality(W) = IF pread = pwrite /\ Waiting # {} THEN 1 ELSE 0

\* Each of the two writes signals the condition, which wakes a waiter.
Signal(W) ==
  /\ W \subseteq Waiting
  /\ Cardinality(W) = IF Cardinality(Waiting) < 2
                      THEN Cardinality(Waiting) ELSE 2

\* Mutant: a package that fits exactly is refused.
FitsStrictly(p) == RingFree > p.len + Word

Fits(p) == RingFree >= p.len + Word

\* userdata_package_write.
ThreadWrite ==
  /\ thread = "work" /\ out # <<>>
  /\ LET p == Head(out)
         w == Advance(pwrite, Word)
     IN  \/ /\ Fits(p)
            /\ data' = RingWrite(RingWrite(data, pwrite, LengthWord(p.len)),
                                 w, PackageBytes(p))
            /\ pwrite' = Advance(w, p.len)
            /\ queue' = Append(queue, [id |-> p.id, len |-> p.len])
            /\ \E W \in SUBSET Clients :
                 /\ Signal(W)
                 /\ pc' = [c \in Clients |-> IF c \in W THEN "woken" ELSE pc[c]]
            /\ UNCHANGED lost
         \/ /\ ~Fits(p)
            /\ lost' = lost \cup {p.id}
            /\ UNCHANGED <<data, pwrite, queue, pc>>
  /\ out' = Tail(out)
  /\ UNCHANGED <<gAdpLock, open_cnt, alive, pread, size, thread, running,
                 flush, ud_format, buf, vd, list, stream, got>>

ThreadPolls ==
  /\ thread = "work" /\ out = <<>> /\ ~Extractable
  /\ thread' = "poll"
  /\ UNCHANGED <<gAdpLock, open_cnt, alive, ring, pc, size, running, flush,
                 ud_format, buf, out, vd, list, stream, ghosts>>

\* aml_h264_userdata_del frees the blocks, the other locals are gone.
ThreadExits ==
  /\ thread = "poll" /\ ~running
  /\ thread' = "exit"
  /\ flush' = FALSE
  /\ ud_format' = "invalid"
  /\ buf' = <<>>
  /\ vd' = NoReorder
  /\ list' = <<>>
  /\ stream' = NoStream
  /\ UNCHANGED <<gAdpLock, open_cnt, alive, ring, pc, size, running, out, ghosts>>

-----------------------------------------------------------------------------
(* AM_USERDATA_Open and AM_USERDATA_Close.                                 *)

\* If aml_open fails nothing is left but the memory of the buffer.
OpenFirst(c) ==
  /\ pc[c] = "closed" /\ gAdpLock = Nobody /\ open_cnt = 0
  /\ open_cnt' = 1
  /\ alive' = TRUE
  /\ thread' = "poll"
  /\ running' = TRUE
  /\ pc' = [pc EXCEPT ![c] = "open"]
  /\ UNCHANGED <<gAdpLock, ring, size, flush, ud_format, buf, out, vd, list,
                 stream, ghosts>>

\* Mutant: a further open is not counted.
OpenMoreUncounted(c) ==
  /\ pc[c] = "closed" /\ gAdpLock = Nobody /\ open_cnt > 0
  /\ pc' = [pc EXCEPT ![c] = "open"]
  /\ UNCHANGED <<gAdpLock, open_cnt, alive, ring, size, worker, ghosts>>

OpenMore(c) ==
  /\ pc[c] = "closed" /\ gAdpLock = Nobody /\ open_cnt > 0
  /\ open_cnt' = open_cnt + 1
  /\ pc' = [pc EXCEPT ![c] = "open"]
  /\ UNCHANGED <<gAdpLock, alive, ring, size, worker, ghosts>>

CloseShared(c) ==
  /\ pc[c] = "open" /\ gAdpLock = Nobody /\ open_cnt > 1
  /\ open_cnt' = open_cnt - 1
  /\ pc' = [pc EXCEPT ![c] = "closed"]
  /\ UNCHANGED <<gAdpLock, alive, ring, size, worker, ghosts>>

\* aml_close, up to the join.
CloseLast(c) ==
  /\ pc[c] = "open" /\ gAdpLock = Nobody /\ open_cnt = 1
  /\ gAdpLock' = c
  /\ running' = FALSE
  /\ pc' = [pc EXCEPT ![c] = "join"]
  /\ UNCHANGED <<open_cnt, alive, ring, size, thread, flush, ud_format, buf, out,
                 vd, list, stream, ghosts>>

Joined == thread = "exit"

CloseJoined(c) ==
  /\ pc[c] = "join" /\ Joined
  /\ gAdpLock' = Nobody
  /\ open_cnt' = open_cnt - 1
  /\ alive' = FALSE
  /\ data' = [i \in 0 .. (BufSize - 1) |-> Blank]
  /\ pread' = 0 /\ pwrite' = 0
  /\ thread' = "none"
  /\ pc' = [pc EXCEPT ![c] = "closed"]
  /\ queue' = <<>> /\ got' = <<>> /\ lost' = {}
  /\ UNCHANGED <<size, running, flush, ud_format, buf, out, vd, list, stream>>

-----------------------------------------------------------------------------
(* AM_USERDATA_Read.                                                       *)

ReadCalled(c) ==
  /\ pc[c] = "open" /\ open_cnt > 0
  /\ \E n \in Sizes : size' = [size EXCEPT ![c] = n]
  /\ pc' = [pc EXCEPT ![c] = "enter"]
  /\ UNCHANGED <<gAdpLock, open_cnt, alive, ring, worker, ghosts>>

Returns(c) ==
  /\ pc' = [pc EXCEPT ![c] = "open"]
  /\ size' = [size EXCEPT ![c] = 0]

\* read_unused_data.
Discarded(pos, len) == Advance(pos, len)

\* userdata_package_read: the length word, then the package, if it is there and
\* fits.
PackageRead(n) ==
  LET avail   == RingAvail(pread, pwrite)
      len     == LengthOf(RingRead(pread, Word))
      r       == Advance(pread, Word)
      id      == IdOf(RingRead(r, len))
      short   == RingAvail(r, pwrite) < len
      same    == [pread |-> pread, queue |-> queue, got |-> got, lost |-> lost]
      popped  == [same EXCEPT !.queue = Tail(@)]
  IN  CASE avail <= Word -> same
        [] avail > Word /\ (short \/ len = 0) -> [same EXCEPT !.pread = r]
        [] avail > Word /\ ~short /\ len > n ->
             [popped EXCEPT !.pread = Discarded(r, len), !.lost = @ \cup {id}]
        [] OTHER ->
             [popped EXCEPT !.pread = Advance(r, len), !.got = Append(@, id)]

ReadPackage(c) ==
  /\ RingAvail(pread, pwrite) > 0
  /\ LET x == PackageRead(size[c])
     IN  pread' = x.pread /\ queue' = x.queue /\ got' = x.got /\ lost' = x.lost

ReadAtOnce(c) ==
  /\ pc[c] = "enter"
  /\ ReadPackage(c)
  /\ Returns(c)
  /\ UNCHANGED <<gAdpLock, open_cnt, alive, data, pwrite, worker>>

ReadWaits(c) ==
  /\ pc[c] = "enter"
  /\ RingAvail(pread, pwrite) <= 0
  /\ pc' = [pc EXCEPT ![c] = "wait"]
  /\ UNCHANGED <<gAdpLock, open_cnt, alive, ring, size, worker, ghosts>>

\* pthread_cond_timedwait gives up, or wakes up without a signal.
ReadTimesOut(c) ==
  /\ pc[c] = "wait"
  /\ Returns(c)
  /\ UNCHANGED <<gAdpLock, open_cnt, alive, ring, worker, ghosts>>

WakesUp(c) ==
  /\ pc[c] = "wait"
  /\ pc' = [pc EXCEPT ![c] = "woken"]
  /\ UNCHANGED <<gAdpLock, open_cnt, alive, ring, size, worker, ghosts>>

\* The buffer may be empty again: poll looks once more, and fails.
ReadWoken(c) ==
  /\ pc[c] = "woken"
  /\ \/ ReadPackage(c)
     \/ RingAvail(pread, pwrite) <= 0 /\ UNCHANGED <<pread, ghosts>>
  /\ Returns(c)
  /\ UNCHANGED <<gAdpLock, open_cnt, alive, data, pwrite, worker>>

-----------------------------------------------------------------------------
Init ==
  /\ gAdpLock = Nobody
  /\ open_cnt = 0
  /\ alive = FALSE
  /\ data = [i \in 0 .. (BufSize - 1) |-> Blank]
  /\ pread = 0 /\ pwrite = 0
  /\ pc = [c \in Clients |-> "closed"]
  /\ size = [c \in Clients |-> 0]
  /\ thread = "none"
  /\ running = FALSE /\ flush = FALSE
  /\ ud_format = "invalid"
  /\ buf = <<>> /\ out = <<>>
  /\ vd = NoReorder
  /\ list = <<>>
  /\ stream = NoStream
  /\ queue = <<>> /\ got = <<>> /\ lost = {}

Worker ==
  \/ ThreadFlush \/ ThreadRead \/ ThreadReorder
  \/ ThreadWrite \/ ThreadPolls \/ ThreadExits

Client(c) ==
  \/ OpenFirst(c) \/ OpenMore(c)
  \/ CloseShared(c) \/ CloseLast(c) \/ CloseJoined(c)
  \/ ReadCalled(c) \/ ReadAtOnce(c) \/ ReadWaits(c)
  \/ ReadTimesOut(c) \/ WakesUp(c) \/ ReadWoken(c)

Next == Worker \/ \E c \in Clients : Client(c)

Spec == Init /\ [][Next]_vars

-----------------------------------------------------------------------------
(* Properties.                                                             *)

\* Positions, counters and buffers have the values the C declarations give
\* them, and the positions stay inside the ring.
TypeOK ==
  /\ gAdpLock \in Clients \cup {Nobody}
  /\ open_cnt \in 0 .. Cardinality(Clients)
  /\ {alive, running, flush} \subseteq BOOLEAN
  /\ DOMAIN data = 0 .. (BufSize - 1)
  /\ {pread, pwrite} \subseteq 0 .. (BufSize - 1)
  /\ pc \in [Clients -> {"closed", "open", "enter", "wait", "woken", "join"}]
  /\ size \in [Clients -> Sizes \cup {0}]
  /\ thread \in {"none", "poll", "work", "exit"}
  /\ ud_format \in {"invalid", "mpeg", "h264"}
  /\ vd.mask \in 0 .. 4
  /\ Len(list) <= MaxPocCache + 1

\* The ring of bytes, its length words, the split copies and the partial reads
\* implement a queue of whole packages that holds BufSize - 1 bytes.
Queue == INSTANCE PackageQueue WITH
  offer    <- IF out = <<>> THEN NoPackage
              ELSE [id |-> Head(out).id, len |-> Head(out).len],
  used     <- RingAvail(pread, pwrite),
  Lens     <- {Short, Long},
  Capacity <- BufSize - 1

ImplementsQueue == Queue!Spec

\* Readers get the captions in display order, whatever was lost on the way
\* (reorder_buffer: "convert picture user data from coded order to display
\* order").
CaptionsInOrder ==
  \A i, j \in DOMAIN got : i < j => got[i] < got[j]

\* Every caption of the stream is in exactly one place: still to be reordered,
\* held back, on its way to the ring, in the ring, read, or lost for want of
\* room; only B pictures that come before any reference are dropped.
Ids(s) == {s[i].id : i \in DOMAIN s}

CaptionsAccounted ==
  LET leading == {id \in stream.sent : id < Gap} \ Ids(buf)
      held    == IF ud_format = "mpeg" THEN HeldMpeg(vd) ELSE list
      queued  == buf \o out \o held \o queue
      places  == Ids(queued) \cup ToSet(got) \cup lost
  IN  thread \in {"poll", "work"} =>
        /\ places \cup (IF ud_format = "mpeg" THEN leading ELSE {}) = stream.sent
        /\ Cardinality(places) = Len(queued) + Len(got) + Cardinality(lost)

\* A reader sleeps beside a waiting package only if as many readers have been
\* woken as packages wait (pthread_cond_signal, not broadcast, per write).
NoLostWakeup ==
  (\E c \in Clients : pc[c] = "wait") =>
    Cardinality({c \in Clients : pc[c] = "woken"}) >= Len(queue)

\* dev->lock and the condition are initialised while a reader or the thread may
\* use them: the last AM_USERDATA_Close destroys them under am_gAdpLock only.
LockAlive ==
  (\/ \E c \in Clients : pc[c] \in {"enter", "wait", "woken"}
   \/ thread \in {"poll", "work"}) => alive
=============================================================================
