---------------------------- MODULE CallbackGate ----------------------------
(***************************************************************************)
(* What a device with a callback thread promises its clients: one callback *)
(* runs at a time, and a registration that has been retired does not run   *)
(* until a client activates it again.  Retiring is the point at which a    *)
(* client may free what the callback uses, so it waits for a running       *)
(* callback of that registration.                                          *)
(***************************************************************************)
CONSTANTS Cbs, NoCb
VARIABLES running, retired

vars == <<running, retired>>

Init == running = NoCb /\ retired = Cbs

Begin(cb) ==
  /\ running = NoCb
  /\ cb \notin retired
  /\ running' = cb
  /\ UNCHANGED retired

End == running # NoCb /\ running' = NoCb /\ UNCHANGED retired

\* Clients change which registrations are retired, none of them running.
Retire(S) ==
  /\ running \notin S
  /\ retired' = S
  /\ UNCHANGED running

Next ==
  \/ \E cb \in Cbs : Begin(cb)
  \/ End
  \/ \E S \in SUBSET Cbs : Retire(S)

Spec == Init /\ [][Next]_vars
=============================================================================
