---------------------------- MODULE PackageQueue ----------------------------
(***************************************************************************)
(* What the user data device promises between its capture thread and its   *)
(* readers: a queue of whole packages.  A package enters if it fits beside *)
(* those that wait, with a length word each, and is lost as a whole if it  *)
(* does not; a reader gets the oldest package, or loses it as a whole if   *)
(* its buffer is too small.                                                *)
(***************************************************************************)
EXTENDS Integers, Sequences

CONSTANTS
  Lens,      \* lengths of packages
  NoPackage, \* nothing is offered
  Sizes,     \* sizes of the readers' buffers
  Word,      \* bytes of a length word
  Capacity   \* bytes the queue can hold

VARIABLES
  offer,     \* the package that the producer is about to write
  queue,     \* the packages that wait, oldest first
  used,      \* the bytes they take
  got,       \* identifiers of the packages that were read, oldest first
  lost       \* identifiers of the packages that were not

vars == <<offer, queue, used, got, lost>>

Packages == [id : Nat, len : Lens]

Empty == queue = <<>> /\ used = 0 /\ got = <<>> /\ lost = {}

Init == offer = NoPackage /\ Empty

Weight(p) == Word + p.len

Offer ==
  /\ offer = NoPackage
  /\ offer' \in Packages
  /\ UNCHANGED <<queue, used, got, lost>>

Put ==
  /\ offer # NoPackage
  /\ offer' \in Packages \cup {NoPackage}
  /\ IF used + Weight(offer) <= Capacity
     THEN /\ queue' = Append(queue, offer)
          /\ used' = used + Weight(offer)
          /\ UNCHANGED <<got, lost>>
     ELSE lost' = lost \cup {offer.id} /\ UNCHANGED <<queue, used, got>>

Get(size) ==
  /\ queue # <<>>
  /\ queue' = Tail(queue)
  /\ used' = used - Weight(Head(queue))
  /\ IF Head(queue).len <= size
     THEN got' = Append(got, Head(queue).id) /\ UNCHANGED lost
     ELSE lost' = lost \cup {Head(queue).id} /\ UNCHANGED got
  /\ UNCHANGED offer

\* The device is closed for the last time.
Reset == Empty' /\ UNCHANGED offer

Next ==
  \/ Offer
  \/ Put
  \/ \E size \in Sizes : Get(size)
  \/ Reset

Spec == Init /\ [][Next]_vars
=============================================================================
