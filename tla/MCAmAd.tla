------------------------------- MODULE MCAmAd -------------------------------
(* Model checking of AmAd: an MPEG-1 packet too short for its header to be  *)
(* found, an MPEG-2 packet without a length, the shortest MPEG-1 packet     *)
(* with one stuffing byte whose header is found, an MPEG-1 packet without a *)
(* length, whose byte 9 promises more than it has, and an MPEG-2 packet.    *)
EXTENDS AmAd

Mpeg1(size, stuff, open, ext) ==
  [size |-> size, open |-> open, mpeg2 |-> FALSE, ext |-> ext, stuff |-> stuff, skip |-> 1]
Mpeg2(size, open, ext) ==
  [size |-> size, open |-> open, mpeg2 |-> TRUE, ext |-> ext, stuff |-> 0, skip |-> 0]

MCPackets == <<Mpeg1(8, 0, FALSE, 0), Mpeg2(11, TRUE, 0), Mpeg1(14, 1, FALSE, 7),
               Mpeg1(10, 0, TRUE, 3), Mpeg2(11, FALSE, 1)>>
=============================================================================
