------------------------------- MODULE AmDvr -------------------------------
(***************************************************************************)
(* One recorder device of dvb/am_adp/am_dvr/am_dvr.c.  A recording takes a *)
(* filter of the demux for each of its streams; the demux's filter table   *)
(* is shared with other clients of the demux and is represented by the     *)
(* owner of each filter.  The demux itself stays open (AM_DVR_Open does    *)
(* not open it; its client does).                                          *)
(*                                                                         *)
(* AM_DVR_StartRecord, StopRecord and Read keep dev->lock over calls to    *)
(* the demux or over a poll; AM_DVR_Close runs the same loop as StopRecord *)
(* under am_gAdpLock only.                                                 *)
(***************************************************************************)
EXTENDS Integers, FiniteSets, FiniteSetsExt

CONSTANTS
  Callers,     \* client threads
  Fids,        \* filters of the demux
  NoFid,       \* -1
  MaxStreams,  \* AM_DVR_MAX_PID_COUNT
  Nobody,      \* no owner of a lock
  CloseAlone   \* clients close when no call is in progress, and make no call on a
               \* device that a close has torn down

ASSUME StreamAssumption == MaxStreams \in Nat \ {0}
ASSUME FidAssumption == NoFid \notin Fids
ASSUME CallerAssumption == IsFiniteSet(Callers) /\ Nobody \notin Callers /\ CloseAlone \in BOOLEAN

Slots == 0..MaxStreams - 1

VARIABLES
  open_cnt, record, stream_cnt, fid,  \* AM_DVR_Device_t
  live,      \* dev->lock is initialised and the driver is open
  owner,     \* of each filter of the demux: "free", "dvr" or "other"
  lock,      \* owner of dev->lock
  gAdpLock,  \* owner of am_gAdpLock
  pc, i,     \* where each client thread is, and its loop index
  ref        \* ghost: the client thread has opened the device

device == <<open_cnt, record, stream_cnt, fid, live>>
calls  == <<pc, i>>
vars   == <<device, owner, lock, gAdpLock, calls, ref>>

LockPCs == {"starting", "stopping", "reading"}
CallPCs == {"idle", "StartRecord", "StopRecord", "Read", "Close", "closing"} \cup LockPCs

\* The device and the calls in progress have the kinds of value the C declarations
\* give them; the stream table holds at most AM_DVR_MAX_PID_COUNT entries.
TypeOK ==
  /\ open_cnt \in Nat
  /\ record \in BOOLEAN /\ live \in BOOLEAN
  /\ stream_cnt \in 0..MaxStreams
  /\ fid \in [Slots -> Fids \cup {NoFid}]
  /\ owner \in [Fids -> {"free", "dvr", "other"}]
  /\ lock \in Callers \cup {Nobody}
  /\ gAdpLock \in Callers \cup {Nobody}
  /\ pc \in [Callers -> CallPCs]
  /\ i \in [Callers -> 0..MaxStreams]
  /\ ref \in [Callers -> BOOLEAN]

Init ==
  /\ open_cnt = 0
  /\ record = FALSE
  /\ stream_cnt = 0
  /\ fid = [s \in Slots |-> NoFid]
  /\ live = FALSE
  /\ owner = [f \in Fids |-> "free"]
  /\ lock = Nobody
  /\ gAdpLock = Nobody
  /\ pc = [c \in Callers |-> "idle"]
  /\ i = [c \in Callers |-> 0]
  /\ ref = [c \in Callers |-> FALSE]

Goto(c, l) == pc' = [pc EXCEPT ![c] = l]

-----------------------------------------------------------------------------
(* Entering a function.                                                    *)

ClosePCs == {"Close", "closing"}

\* dvr_get_openned_dev asks for an open, which may be another thread's.
MayCall(c) ==
  /\ pc[c] = "idle"
  /\ open_cnt > 0
  /\ CloseAlone => live /\ \A d \in Callers : pc[d] \notin ClosePCs

Call(c, op) ==
  /\ MayCall(c)
  /\ Goto(c, op)
  /\ UNCHANGED <<device, owner, lock, gAdpLock, i, ref>>

CallClose(c) ==
  /\ pc[c] = "idle" /\ ref[c]
  /\ CloseAlone => \A d \in Callers : pc[d] \in {"idle"} \cup ClosePCs
  /\ Goto(c, "Close")
  /\ UNCHANGED <<device, owner, lock, gAdpLock, i, ref>>

-----------------------------------------------------------------------------
(* Opening, under am_gAdpLock.                                             *)

AM_DVR_Open(c) ==
  /\ pc[c] = "idle" /\ ~ref[c]
  /\ gAdpLock = Nobody
  /\ open_cnt' = open_cnt + 1
  /\ IF open_cnt # 0
       THEN UNCHANGED <<record, stream_cnt, fid, live>>
       ELSE /\ fid' = [s \in Slots |-> NoFid]
            /\ live' = TRUE
            /\ record' = FALSE
            /\ stream_cnt' = 0
  /\ ref' = [ref EXCEPT ![c] = TRUE]
  /\ UNCHANGED <<owner, lock, gAdpLock, calls>>

\* The driver cannot be opened.
OpenFails(c) ==
  /\ pc[c] = "idle" /\ ~ref[c]
  /\ open_cnt = 0
  /\ gAdpLock = Nobody
  /\ fid' = [s \in Slots |-> NoFid]
  /\ UNCHANGED <<open_cnt, record, stream_cnt, live, owner, lock, gAdpLock, calls, ref>>

-----------------------------------------------------------------------------
(* Recording.                                                              *)

\* n calls of dvr_add_stream; those beyond the end of the table fail.
dvr_add_stream(n) ==
  /\ stream_cnt' = Min({stream_cnt + n, MaxStreams})
  /\ fid' = [s \in Slots |-> IF s \in stream_cnt..stream_cnt' - 1 THEN NoFid ELSE fid[s]]

\* A client asks for at least one pid; the number is cut to the table's size.
AM_DVR_StartRecord(c, n) ==
  /\ pc[c] = "StartRecord"
  /\ lock = Nobody
  /\ \/ /\ record
        /\ Goto(c, "idle")
        /\ UNCHANGED <<stream_cnt, fid, lock, i>>
     \/ /\ ~record
        /\ dvr_add_stream(Min({n, MaxStreams}))
        /\ lock' = c
        /\ i' = [i EXCEPT ![c] = 0]
        /\ Goto(c, "starting")
  /\ UNCHANGED <<open_cnt, record, live, owner, gAdpLock, ref>>

\* One round of dvr_start_all_streams: AM_DMX_AllocateFilter may fail, then
\* the stream is not recorded.  SetPesFilter and StartFilter own nothing.
dvr_start_stream(c) ==
  /\ pc[c] = "starting"
  /\ i[c] < stream_cnt
  /\ i' = [i EXCEPT ![c] = @ + 1]
  /\ \/ \E f \in Fids :
          /\ fid[i[c]] = NoFid
          /\ owner[f] = "free"
          /\ owner' = [owner EXCEPT ![f] = "dvr"]
          /\ fid' = [fid EXCEPT ![i[c]] = f]
     \/ UNCHANGED <<owner, fid>>
  /\ UNCHANGED <<open_cnt, record, stream_cnt, live, lock, gAdpLock, pc, ref>>

StartRecordReturns(c) ==
  /\ pc[c] = "starting"
  /\ i[c] >= stream_cnt
  /\ record' = TRUE
  /\ lock' = Nobody
  /\ Goto(c, "idle")
  /\ UNCHANGED <<open_cnt, stream_cnt, fid, live, owner, gAdpLock, i, ref>>

AM_DVR_StopRecord(c) ==
  /\ pc[c] = "StopRecord"
  /\ lock = Nobody
  /\ \/ /\ record
        /\ lock' = c
        /\ i' = [i EXCEPT ![c] = 0]
        /\ Goto(c, "stopping")
     \/ /\ ~record
        /\ Goto(c, "idle")
        /\ UNCHANGED <<lock, i>>
  /\ UNCHANGED <<device, owner, gAdpLock, ref>>

\* Mutant: the stream keeps its fid.
ForgetFidMissing(s) == UNCHANGED fid

ForgetFid(s) == fid' = [fid EXCEPT ![s] = NoFid]

\* Mutant: the filter is stopped and not freed.
AM_DMX_FreeFilterMissing(f) == UNCHANGED owner

\* The demux frees the filter whoever allocated it.
AM_DMX_FreeFilter(f) == owner' = [owner EXCEPT ![f] = "free"]

\* One round of dvr_stop_all_streams, in AM_DVR_StopRecord or AM_DVR_Close.
dvr_stop_stream(c) ==
  /\ pc[c] \in {"stopping", "closing"}
  /\ i[c] < stream_cnt
  /\ i' = [i EXCEPT ![c] = @ + 1]
  /\ IF fid[i[c]] # NoFid
       THEN AM_DMX_FreeFilter(fid[i[c]]) /\ ForgetFid(i[c])
       ELSE UNCHANGED <<owner, fid>>
  /\ UNCHANGED <<open_cnt, record, stream_cnt, live, lock, gAdpLock, pc, ref>>

ClearStreams == stream_cnt' = 0

StopRecordReturns(c) ==
  /\ pc[c] = "stopping"
  /\ i[c] >= stream_cnt
  /\ ClearStreams
  /\ record' = FALSE
  /\ lock' = Nobody
  /\ Goto(c, "idle")
  /\ UNCHANGED <<open_cnt, fid, live, owner, gAdpLock, i, ref>>

-----------------------------------------------------------------------------
(* Reading, and closing.                                                   *)

\* The lock is kept over the driver's poll and read.
AM_DVR_Read(c) ==
  /\ pc[c] = "Read"
  /\ lock = Nobody
  /\ lock' = c
  /\ Goto(c, "reading")
  /\ UNCHANGED <<device, owner, gAdpLock, i, ref>>

\* Mutant: the error path returns with the lock.
UnlockMissing == UNCHANGED lock

Unlock == lock' = Nobody

ReadReturns(c) ==
  /\ pc[c] = "reading"
  /\ Unlock
  /\ Goto(c, "idle")
  /\ UNCHANGED <<device, owner, gAdpLock, i, ref>>

AM_DVR_Close(c) ==
  /\ pc[c] = "Close"
  /\ gAdpLock = Nobody
  /\ open_cnt > 0
  /\ gAdpLock' = c
  /\ i' = [i EXCEPT ![c] = 0]
  /\ Goto(c, "closing")
  /\ UNCHANGED <<device, owner, lock, ref>>

\* Mutants: not counted; counted twice.
CountCloseMissing == UNCHANGED open_cnt
CountCloseTwice == open_cnt' = open_cnt - 2

CountClose == open_cnt' = open_cnt - 1

\* Every close, not only the last, releases the driver and the lock.
CloseReturns(c) ==
  /\ pc[c] = "closing"
  /\ i[c] >= stream_cnt
  /\ ClearStreams
  /\ record' = FALSE
  /\ live' = FALSE
  /\ CountClose
  /\ gAdpLock' = Nobody
  /\ ref' = [ref EXCEPT ![c] = FALSE]
  /\ Goto(c, "idle")
  /\ UNCHANGED <<fid, owner, lock, i>>

-----------------------------------------------------------------------------
(* Other clients of the demux.                                             *)

OtherAllocates(f) ==
  /\ owner[f] = "free"
  /\ owner' = [owner EXCEPT ![f] = "other"]
  /\ UNCHANGED <<device, lock, gAdpLock, calls, ref>>

OtherFrees(f) ==
  /\ owner[f] = "other"
  /\ owner' = [owner EXCEPT ![f] = "free"]
  /\ UNCHANGED <<device, lock, gAdpLock, calls, ref>>

Body(c) ==
  \/ \E n \in 1..MaxStreams + 1 : AM_DVR_StartRecord(c, n)
  \/ dvr_start_stream(c) \/ StartRecordReturns(c)
  \/ AM_DVR_StopRecord(c) \/ dvr_stop_stream(c) \/ StopRecordReturns(c)
  \/ AM_DVR_Read(c) \/ ReadReturns(c)
  \/ AM_DVR_Close(c) \/ CloseReturns(c)

Next ==
  \/ \E c \in Callers :
       \/ Body(c)
       \/ AM_DVR_Open(c) \/ OpenFails(c)
       \/ \E op \in {"StartRecord", "StopRecord", "Read"} : Call(c, op)
       \/ CallClose(c)
  \/ \E f \in Fids : OtherAllocates(f) \/ OtherFrees(f)

Spec == Init /\ [][Next]_vars

\* Threads are scheduled, a poll ends with its timeout, and a mutex that is
\* free again and again is granted in the end.
Fairness == \A c \in Callers : SF_vars(Body(c))

FairSpec == Spec /\ Fairness

-----------------------------------------------------------------------------
(* Properties.                                                             *)

Holders == {c \in Callers : ref[c]}

\* Although every close tears the device down, also under other clients' opens,
\* the opens are counted exactly: a device that works is held by somebody and is
\* not set up a second time, and one that was torn down is set up again as soon
\* as all have closed.  No filter outlives the tear-down.
DeviceCounted ==
  /\ open_cnt = Cardinality(Holders)
  /\ live => open_cnt > 0
  /\ live \/ \A f \in Fids : owner[f] # "dvr"

\* What a client that holds an open may expect: fails with a second client.
DeviceAlive == Holders # {} => live

\* A stream's fid is a filter that the recorder allocated and no other stream
\* has: stopping a recording never frees another client's filter.
FidsOwned ==
  /\ \A s \in Slots : fid[s] # NoFid => owner[fid[s]] = "dvr"
  /\ \A s, t \in Slots : fid[s] = fid[t] /\ fid[s] # NoFid => s = t

\* Every filter that the recorder has allocated belongs to a stream in the
\* table, so that the next stop frees it.
NoFilterLost ==
  \A f \in Fids : owner[f] = "dvr" => \E s \in Slots : s < stream_cnt /\ fid[s] = f

\* Between calls there are streams exactly while dev->record is set: after a
\* stop or a close all the filters have been given back.
StreamsOnlyInRecord ==
  lock = Nobody /\ gAdpLock = Nobody => (record <=> stream_cnt > 0)

\* AM_DVR_StopRecord returns: a reader that keeps dev->lock over its poll, or a
\* recording being started, delays it but cannot block it for good.
StopReturns == \A c \in Callers : pc[c] = "StopRecord" ~> pc[c] = "idle"
-----------------------------------------------------------------------------
(* The inductive invariant.                                                *)

\* Each lock is kept across steps by exactly the thread that is in its critical
\* section, and a closer was counted.
LocksInv ==
  /\ \A c \in Callers : pc[c] \in LockPCs <=> lock = c
  /\ \A c \in Callers : pc[c] = "closing" <=> gAdpLock = c
  /\ gAdpLock # Nobody => open_cnt > 0

\* The rest needs closes apart from other calls: a closer has an open and there
\* are only closers beside it, every other call finds the device set up.
OpenInv ==
  /\ \A c \in Callers : pc[c] \in ClosePCs => ref[c]
  /\ \A c, d \in Callers : pc[c] \in ClosePCs => pc[d] \in {"idle"} \cup ClosePCs
  /\ \A c \in Callers : pc[c] \in {"idle"} \cup ClosePCs \/ live

\* The opens are counted, and the device is set up under one of them.
CountInv ==
  /\ open_cnt = Cardinality(Holders)
  /\ live => open_cnt > 0

\* There are streams while dev->record is set or is about to be, and what the
\* loops have still to do, or have done, with the table.
StreamInv ==
  /\ record <=> stream_cnt > 0 /\ \A c \in Callers : pc[c] # "starting"
  /\ \A c \in Callers : pc[c] = "starting" => stream_cnt > 0
  /\ ~live => stream_cnt = 0
  /\ \A s \in Slots : s >= stream_cnt => fid[s] = NoFid
  /\ \A c \in Callers : pc[c] = "starting" =>
       \A s \in Slots : s >= i[c] => fid[s] = NoFid
  /\ \A c \in Callers : pc[c] \in {"stopping", "closing"} =>
       \A s \in Slots : s < i[c] => fid[s] = NoFid

IInv == TypeOK /\ LocksInv /\ OpenInv /\ CountInv /\ StreamInv /\ FidsOwned /\ NoFilterLost
=============================================================================
