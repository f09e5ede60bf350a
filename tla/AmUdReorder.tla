----------------------------- MODULE AmUdReorder -----------------------------
(***************************************************************************)
(* How the capture thread of dvb/am_adp/am_userdata/aml/aml.c puts the     *)
(* caption packages of a video stream from coded into display order.       *)
(*                                                                         *)
(* A package has the coding type of its picture ("I": an I or P picture,   *)
(* "B"), its structure ("frame", "top", "bottom"), its picture order count *)
(* (H.264), its length, and an identifier that grows in display order.     *)
(***************************************************************************)
EXTENDS Integers, Sequences, SequencesExt

CONSTANT MaxPocCache  \* MAX_POC_CACHE

ASSUME PocCacheAssumption == MaxPocCache \in Nat

-----------------------------------------------------------------------------
(* MPEG: one I or P picture is held back until the next one comes.         *)

\* reorder_pictures: bit 0 a top field, bit 1 a bottom field, bit 2 a frame.
HoldsFirst(mask)  == mask \in {1, 3, 4}   \* reorder_pictures & 5
HoldsBottom(mask) == mask \in {2, 3}      \* reorder_pictures & 2

\* Mutant: a frame writes only what bit 0 and bit 2 stand for.
FlushOnlyFirst(vd) ==
  IF HoldsFirst(vd.mask) THEN <<vd.buf[1]>> ELSE <<>>

\* What a frame picture writes: all that is held.
Flush(vd) ==
  (IF HoldsFirst(vd.mask) THEN <<vd.buf[1]>> ELSE <<>>)
    \o (IF HoldsBottom(vd.mask) THEN <<vd.buf[2]>> ELSE <<>>)

\* aml_reorder_decode_cc_data for a frame, a top and a bottom field: what is
\* written first, and what is held afterwards.
FramePicture(vd, p) ==
  [out |-> Flush(vd),
   vd  |-> [mask |-> 4, buf |-> [vd.buf EXCEPT ![1] = p]]]

TopField(vd, p) ==
  LET mask == CASE vd.mask = 3 -> 2 [] vd.mask = 4 -> 0 [] OTHER -> vd.mask
  IN  [out |-> IF vd.mask >= 3 THEN <<vd.buf[1]>> ELSE <<>>,
       vd  |-> [mask |-> IF mask \in {0, 1} THEN 1 ELSE 3,
                buf  |-> [vd.buf EXCEPT ![1] = p]]]

BottomField(vd, p) ==
  LET mask == CASE vd.mask = 3 -> 1 [] vd.mask = 4 -> 0 [] OTHER -> vd.mask
  IN  [out |-> CASE vd.mask = 4 -> <<vd.buf[1]>>
                 [] vd.mask = 3 -> <<vd.buf[2]>>
                 [] OTHER -> <<>>,
       vd  |-> [mask |-> IF mask \in {0, 2} THEN 2 ELSE 3,
                buf  |-> [vd.buf EXCEPT ![2] = p]]]

\* aml_reorder_user_data: a B picture goes out at once, and is dropped, with a
\* single field that is held, before there is a whole picture to refer to.
BPicture(vd, p) ==
  IF vd.mask < 3
  THEN [out |-> <<>>,  vd |-> [vd EXCEPT !.mask = 0]]
  ELSE [out |-> <<p>>, vd |-> vd]

ReorderMpeg(vd, p) ==
  CASE p.type = "B"                      -> BPicture(vd, p)
    [] p.type # "B" /\ p.st = "frame"  -> FramePicture(vd, p)
    [] p.type # "B" /\ p.st = "top"    -> TopField(vd, p)
    [] p.type # "B" /\ p.st = "bottom" -> BottomField(vd, p)

\* The packages that are held.
HeldMpeg(vd) == Flush(vd)

-----------------------------------------------------------------------------
(* H.264: a list of blocks, of which the one with the least picture order  *)
(* count is written when there are more than MAX_POC_CACHE.                *)

\* aml_h264_userdata_push writes and unlinks the first block with min_poc.
MinPoc(list) ==
  CHOOSE i \in DOMAIN list :
    /\ \A j \in DOMAIN list : list[i].poc <= list[j].poc
    /\ \A j \in 1 .. (i - 1) : list[j].poc # list[i].poc

\* Mutant: the list is written out one block too early.
CacheFullEarly(list) == Len(list) > MaxPocCache - 1

CacheFull(list) == Len(list) > MaxPocCache

\* aml_h264_reorder_user_data, up to what it writes.  Order count 0 writes one
\* block after another and is added to the list when that is empty.
ReorderH264(list, p) ==
  CASE p.poc = 0 /\ list # <<>> ->
         [out  |-> <<list[MinPoc(list)]>>,
          list |-> RemoveAt(list, MinPoc(list)), added |-> FALSE]
    [] p.poc # 0 /\ CacheFull(list) ->
         [out  |-> <<list[MinPoc(list)]>>,
          list |-> Append(RemoveAt(list, MinPoc(list)), p), added |-> TRUE]
    [] OTHER ->
         [out |-> <<>>, list |-> Append(list, p), added |-> TRUE]
=============================================================================
