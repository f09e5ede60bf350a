------------------------------- MODULE AmDmx -------------------------------
(***************************************************************************)
(* One demux device of dvb/am_adp/am_dmx/am_dmx.c on the Linux DVB driver  *)
(* (am_dmx/linux_dvb/linux_dvb.c): its reference count, its table of       *)
(* section/PES filters, the data thread that polls the driver and calls    *)
(* the filters' callbacks, and the client threads that call the AM_DMX_*   *)
(* functions, from their own code or from inside a callback.               *)
(*                                                                         *)
(* dev->lock is never held across a blocking call with this driver         *)
(* (DMX_WAIT_CB is not defined), so each of its critical sections is one   *)
(* step; only its life time (init/destroy) is a variable.  am_gAdpLock is  *)
(* held by AM_DMX_Close while it joins the data thread: it is a variable.  *)
(***************************************************************************)
EXTENDS Integers, FiniteSets

CONSTANTS
  FilterCount,   \* DMX_FILTER_COUNT
  Callers,       \* client threads
  DataThread,    \* the thread that runs dmx_data_thread
  Cbs,           \* registered (callback, user_data) pairs
  NoCb,          \* a null callback
  Nobody,        \* no owner of am_gAdpLock
  Sources,       \* the AM_DMX_Source_t values used
  Src0,          \* AM_DMX_SRC_TS0
  CbOps,         \* functions clients call from inside a callback
  StopMayFail    \* may the DMX_STOP ioctl fail?

ASSUME FilterAssumption == FilterCount \in Nat \ {0}
ASSUME ActorAssumption ==
  /\ IsFiniteSet(Callers)
  /\ DataThread \notin Callers
  /\ Nobody \notin Callers
ASSUME DataAssumption ==
  /\ NoCb \notin Cbs
  /\ Src0 \in Sources
  /\ StopMayFail \in BOOLEAN

Fid    == 0 .. FilterCount - 1
Actors == Callers \cup {DataThread}

\* The functions that take dev->lock.
LockOps == {"AllocateFilter", "SetFilter", "FreeFilter", "StartFilter",
            "StopFilter", "SetCallback", "SetSource", "Sync"}

\* A callback that waits for am_gAdpLock would block a closer that joins the
\* data thread: clients may not do so (README, "Client contract").
ASSUME CbOpsAssumption == CbOps \subseteq LockOps \ {"SetSource"}

VARIABLES
  open_count, enable_thread, run_cb, src, filters, \* AM_DMX_Device_t
  lock_live,  \* dev->lock and dev->cond are initialised
  fd,         \* driver: dmx->fd[id] # -1
  hw_src,     \* driver: the TS input the hardware uses
  gAdpLock,   \* owner of am_gAdpLock
  tpc,        \* where the data thread is
  polled,     \* fids[] handed to poll()
  mask,       \* filters still to be served in this round
  cur,        \* the filter whose callback is prepared or running
  cur_cb,     \* the local cb/data of dmx_data_thread
  pc,         \* what each actor's current call is about to do
  want,       \* SetSource: the source to be stored in dev->src
  crashed,    \* the process died on a null pointer
  ref,        \* ghost: the client thread holds an open of the device
  retired     \* ghost: registrations that were inactive at a later Sync

device == <<open_count, enable_thread, run_cb, src, filters, lock_live>>
driver == <<fd, hw_src>>
thread == <<tpc, polled, mask, cur, cur_cb>>
calls  == <<pc, want, crashed>>
ghosts == <<ref, retired>>
vars   == <<device, driver, gAdpLock, thread, calls, ghosts>>

ThreadPCs == {"none", "poll", "polling", "begin", "scan", "read", "incb",
              "wakeup", "exit"}
CallPCs   == LockOps \cup {"idle", "Open", "Close", "join", "store", "wait"}

FilterRec == [used : BOOLEAN, enable : BOOLEAN, cb : Cbs \cup {NoCb}]

\* The registrations that the data thread may still pick up.
Active(fs) == {fs[f].cb : f \in {g \in Fid : fs[g].used /\ fs[g].enable}}

-----------------------------------------------------------------------------
Init ==
  /\ open_count = 0
  /\ enable_thread = FALSE
  /\ run_cb = FALSE
  /\ src = Src0
  /\ filters = [f \in Fid |-> [used |-> FALSE, enable |-> FALSE, cb |-> NoCb]]
  /\ lock_live = FALSE
  /\ fd = [f \in Fid |-> FALSE]
  /\ hw_src = Src0
  /\ gAdpLock = Nobody
  /\ tpc = "none"
  /\ polled = {}
  /\ mask = {}
  /\ cur = 0
  /\ cur_cb = NoCb
  /\ pc = [p \in Actors |-> "idle"]
  /\ want = [p \in Actors |-> Src0]
  /\ crashed = FALSE
  /\ ref = [c \in Callers |-> FALSE]
  /\ retired = Cbs

Goto(p, l) == pc' = [pc EXCEPT ![p] = l]
Return(p)  == Goto(p, "idle")

-----------------------------------------------------------------------------
(* Entering a function.                                                    *)

\* A client's own code calls with an open of its own; a callback calls while
\* the data thread runs it.  dmx_get_openned_dev is read without a lock.
MayCall(p) == IF p = DataThread THEN tpc = "incb" ELSE ref[p]

dmx_get_openned_dev == open_count > 0

Call(p, op) ==
  /\ pc[p] = "idle"
  /\ MayCall(p)
  /\ p = DataThread => op \in CbOps
  /\ dmx_get_openned_dev
  /\ Goto(p, op)
  /\ UNCHANGED <<device, driver, gAdpLock, thread, want, crashed, ghosts>>

-----------------------------------------------------------------------------
(* Opening and closing the device, under am_gAdpLock.                      *)

\* The branch for a device that is open already.
CountOpen == open_count' = open_count + 1

StartThread == enable_thread' = TRUE
StopThread  == enable_thread' = FALSE

\* Nothing in AM_DMX_Open blocks while it holds am_gAdpLock.  The driver's
\* open or pthread_create may fail: the device then stays closed.
AM_DMX_Open(c) ==
  /\ pc[c] = "idle" /\ ~ref[c]
  /\ gAdpLock = Nobody
  /\ IF open_count > 0
       THEN /\ CountOpen
            /\ UNCHANGED <<enable_thread, run_cb, lock_live, fd, tpc>>
       ELSE /\ open_count' = 1
            /\ fd' = [f \in Fid |-> FALSE]
            /\ lock_live' = TRUE
            /\ StartThread
            /\ run_cb' = FALSE
            /\ tpc' = "poll"
  /\ ref' = [ref EXCEPT ![c] = TRUE]
  /\ UNCHANGED <<src, filters, hw_src, gAdpLock, polled, mask, cur, cur_cb,
                 calls, retired>>

\* pthread_create failed: enable_thread was set, the lock is destroyed again.
OpenFails(c) ==
  /\ pc[c] = "idle" /\ ~ref[c]
  /\ gAdpLock = Nobody
  /\ open_count <= 0
  /\ \/ UNCHANGED <<enable_thread, run_cb, fd>>       \* drv->open failed
     \/ /\ StartThread
        /\ run_cb' = FALSE
        /\ fd' = [f \in Fid |-> FALSE]
  /\ UNCHANGED <<open_count, src, filters, lock_live, hw_src, gAdpLock,
                 thread, calls, ghosts>>

\* Mutant: every close tears the device down.
LastCloseAlways == open_count >= 1

LastClose == open_count = 1

\* The last close stops the data thread and waits for it with the lock held.
AM_DMX_Close(c) ==
  /\ pc[c] = "Close"
  /\ gAdpLock = Nobody
  /\ IF LastClose
       THEN /\ StopThread
            /\ gAdpLock' = c
            /\ Goto(c, "join")
            /\ UNCHANGED <<open_count, ref>>
       ELSE /\ open_count' = open_count - 1
            /\ ref' = [ref EXCEPT ![c] = FALSE]
            /\ Return(c)
            /\ UNCHANGED <<enable_thread, gAdpLock>>
  /\ UNCHANGED <<run_cb, src, filters, lock_live, driver, thread, want,
                 crashed, retired>>

\* Filters in use and enabled, whose DMX_STOP may fail.
StopFailures == IF StopMayFail
                  THEN {f \in Fid : filters[f].used /\ filters[f].enable}
                  ELSE {}

\* dmx_stop_filter clears enable whether or not the driver reports an error:
\* every AM_ErrorCode_t is >= 0.
dmx_stop_filter(r) == [r EXCEPT !.enable = FALSE]

\* Mutant: the slot is given up although the stop failed.
dmx_free_filterAlways(r, stopped) == [dmx_stop_filter(r) EXCEPT !.used = FALSE]

\* A filter whose stop failed keeps its slot.
dmx_free_filter(r, stopped) ==
  [dmx_stop_filter(r) EXCEPT !.used = @ /\ ~stopped]

CloseJoined(c) ==
  /\ pc[c] = "join"
  /\ tpc = "exit"
  /\ \E failed \in SUBSET StopFailures :
       filters' = [f \in Fid |-> IF filters[f].used
                                   THEN dmx_free_filter(filters[f], f \notin failed)
                                   ELSE filters[f]]
  /\ fd' = [f \in Fid |-> FALSE]
  /\ lock_live' = FALSE
  /\ open_count' = open_count - 1
  /\ gAdpLock' = Nobody
  /\ tpc' = "none"
  /\ Return(c)
  /\ ref' = [ref EXCEPT ![c] = FALSE]
  /\ retired' = Cbs
  /\ UNCHANGED <<enable_thread, run_cb, src, hw_src, polled, mask, cur, cur_cb,
                 want, crashed>>

-----------------------------------------------------------------------------
(* The filter functions: one critical section of dev->lock each.           *)

\* What every filter function leaves alone, and the bookkeeping of retired.
FilterFrame ==
  /\ retired' = retired \ Active(filters')
  /\ UNCHANGED <<open_count, enable_thread, run_cb, src, lock_live, hw_src,
                 gAdpLock, thread, want, ref>>

\* The driver gives its descriptor up; it is called only after a good stop.
dvb_free_filter(f, stopped) == fd' = [fd EXCEPT ![f] = @ /\ ~stopped]

\* The first free slot; dvb_alloc_filter opens /dev/dvb0.demuxN and may fail.
AM_DMX_AllocateFilter(p) ==
  /\ pc[p] = "AllocateFilter"
  /\ \/ \E f \in Fid :
          /\ ~filters[f].used
          /\ \A g \in Fid : g < f => filters[g].used
          /\ filters' = [filters EXCEPT ![f].used = TRUE]
          /\ fd' = [fd EXCEPT ![f] = TRUE]
     \/ UNCHANGED <<filters, fd>>         \* no free slot, or open() failed
  /\ Return(p)
  /\ FilterFrame
  /\ UNCHANGED crashed

\* AM_DMX_SetSecFilter and AM_DMX_SetPesFilter stop the filter first.
AM_DMX_SetFilter(p, f) ==
  /\ pc[p] = "SetFilter"
  /\ filters' = IF filters[f].used
                  THEN [filters EXCEPT ![f] = dmx_stop_filter(@)]
                  ELSE filters
  /\ Return(p)
  /\ FilterFrame
  /\ UNCHANGED <<fd, crashed>>

AM_DMX_FreeFilter(p, f) ==
  /\ pc[p] = "FreeFilter"
  /\ \E stopped \in IF f \in StopFailures THEN BOOLEAN ELSE {TRUE} :
       IF filters[f].used
         THEN /\ filters' = [filters EXCEPT ![f] = dmx_free_filter(@, stopped)]
              /\ dvb_free_filter(f, stopped)
         ELSE UNCHANGED <<filters, fd>>
  /\ Return(p)
  /\ FilterFrame
  /\ UNCHANGED crashed

\* filter is null after a failed dmx_get_used_filter and is read all the same.
AM_DMX_StartFilter(p, f) ==
  /\ pc[p] = "StartFilter"
  /\ crashed' = ~filters[f].used
  /\ \/ /\ filters[f].used
        /\ filters' = [filters EXCEPT ![f].enable = TRUE]
     \/ UNCHANGED filters                 \* the DMX_START ioctl failed
  /\ Return(p)
  /\ FilterFrame
  /\ UNCHANGED fd

AM_DMX_StopFilter(p, f) ==
  /\ pc[p] = "StopFilter"
  /\ filters' = IF filters[f].used /\ filters[f].enable
                  THEN [filters EXCEPT ![f] = dmx_stop_filter(@)]
                  ELSE filters
  /\ Return(p)
  /\ FilterFrame
  /\ UNCHANGED <<fd, crashed>>

\* dmx_wait_cb is empty: a callback may be running with the old pair.
AM_DMX_SetCallback(p, f, cb) ==
  /\ pc[p] = "SetCallback"
  /\ filters' = IF filters[f].used
                  THEN [filters EXCEPT ![f].cb = cb]
                  ELSE filters
  /\ Return(p)
  /\ FilterFrame
  /\ UNCHANGED <<fd, crashed>>

\* The hardware is switched under dev->lock, dev->src stored under am_gAdpLock.
AM_DMX_SetSource(p, s) ==
  /\ pc[p] = "SetSource"
  /\ \/ /\ hw_src' = s
        /\ want' = [want EXCEPT ![p] = s]
        /\ Goto(p, "store")
     \/ /\ Return(p)                      \* AM_FileEcho failed
        /\ UNCHANGED <<hw_src, want>>
  /\ UNCHANGED <<device, fd, gAdpLock, thread, crashed, ghosts>>

StoreSource(p) ==
  /\ pc[p] = "store"
  /\ gAdpLock = Nobody
  /\ src' = want[p]
  /\ Return(p)
  /\ UNCHANGED <<open_count, enable_thread, run_cb, filters, lock_live, driver,
                 gAdpLock, thread, want, crashed, ghosts>>

-----------------------------------------------------------------------------
(* AM_DMX_Sync.                                                            *)

\* Mutant: no test of the flag.
MustWaitNever(p) == FALSE

MustWait(p) == p # DataThread /\ run_cb

\* The test of the while loop, made with dev->lock held.  The data thread
\* never waits for itself.
AM_DMX_Sync(p) ==
  /\ pc[p] = "Sync"
  /\ IF MustWait(p)
       THEN Goto(p, "wait") /\ UNCHANGED retired
       ELSE /\ Return(p)
            /\ retired' = IF p = DataThread THEN retired
                                            ELSE Cbs \ Active(filters)
  /\ UNCHANGED <<device, driver, gAdpLock, thread, want, crashed, ref>>

\* pthread_cond_wait may return without a broadcast.
SpuriousWakeup(c) ==
  /\ pc[c] = "wait"
  /\ Goto(c, "Sync")
  /\ UNCHANGED <<device, driver, gAdpLock, thread, want, crashed, ghosts>>

-----------------------------------------------------------------------------
(* The data thread.                                                        *)

ThreadFrame == UNCHANGED <<open_count, enable_thread, src, filters, lock_live,
                           driver, gAdpLock, want, crashed, ghosts>>

\* Mutant: fids[] holds the number of the next slot.
dvb_pollShifted == {f + 1 : f \in {g \in Fid : fd[g]}}

\* The descriptors that dvb_poll hands to poll().
dvb_poll == {f \in Fid : fd[f]}

\* The loop test; dvb_poll collects the open file descriptors without a lock.
PollBegin ==
  /\ tpc = "poll"
  /\ IF enable_thread
       THEN /\ tpc' = "polling"
            /\ polled' = dvb_poll
       ELSE /\ tpc' = "exit"
            /\ UNCHANGED polled
  /\ UNCHANGED <<run_cb, mask, cur, cur_cb, pc>>
  /\ ThreadFrame

\* poll() returns some readable descriptors, or none within DMX_POLL_TIMEOUT.
PollEnd ==
  /\ tpc = "polling"
  /\ mask' \in SUBSET polled
  /\ tpc' = IF mask' = {} THEN "poll" ELSE "begin"
  /\ polled' = {}
  /\ UNCHANGED <<run_cb, cur, cur_cb, pc>>
  /\ ThreadFrame

\* Mutant: DMX_FL_RUN_CB is not set.
RaiseFlagMissing == UNCHANGED run_cb

RaiseFlag == run_cb' = TRUE

SetRunCb ==
  /\ tpc = "begin"
  /\ RaiseFlag
  /\ tpc' = "scan"
  /\ UNCHANGED <<polled, mask, cur, cur_cb, pc>>
  /\ ThreadFrame

\* for(id=0; ...): the unlocked look at enable and used.
NextFilter ==
  /\ tpc = "scan"
  /\ \E f \in mask :
       /\ \A g \in mask : f <= g
       /\ mask' = mask \ {f}
       /\ IF filters[f].enable /\ filters[f].used
            THEN cur' = f /\ tpc' = "read"
            ELSE UNCHANGED <<cur, tpc>>
  /\ UNCHANGED <<run_cb, polled, cur_cb, pc>>
  /\ ThreadFrame

\* The locked look, the copy of cb/user_data and the driver's read.  Data or
\* a timeout lead to the callback; other errors, or no callback, do not.
ReadFilter ==
  /\ tpc = "read"
  /\ \/ /\ filters[cur].enable /\ filters[cur].used
        /\ filters[cur].cb # NoCb
        /\ cur_cb' = filters[cur].cb
        /\ tpc' = "incb"
     \/ /\ tpc' = "scan"
        /\ UNCHANGED cur_cb
  /\ UNCHANGED <<run_cb, polled, mask, cur, pc>>
  /\ ThreadFrame

CallbackReturns ==
  /\ tpc = "incb"
  /\ pc[DataThread] = "idle"
  /\ cur_cb' = NoCb
  /\ tpc' = "scan"
  /\ UNCHANGED <<run_cb, polled, mask, cur, pc>>
  /\ ThreadFrame

ClearRunCb ==
  /\ tpc = "scan"
  /\ mask = {}
  /\ run_cb' = FALSE
  /\ tpc' = "wakeup"
  /\ UNCHANGED <<polled, mask, cur, cur_cb, pc>>
  /\ ThreadFrame

\* Mutant: no broadcast.
WakeWaitersMissing == UNCHANGED pc

WakeWaiters == pc' = [p \in Actors |-> IF pc[p] = "wait" THEN "Sync" ELSE pc[p]]

\* pthread_cond_broadcast, after dev->lock was released.
Broadcast ==
  /\ tpc = "wakeup"
  /\ tpc' = "poll"
  /\ WakeWaiters
  /\ UNCHANGED <<run_cb, polled, mask, cur, cur_cb>>
  /\ ThreadFrame

dmx_data_thread ==
  \/ PollBegin \/ PollEnd \/ SetRunCb \/ NextFilter \/ ReadFilter
  \/ ClearRunCb \/ Broadcast

-----------------------------------------------------------------------------
\* The rest of a call that an actor has entered.
Body(p) ==
  \/ AM_DMX_AllocateFilter(p)
  \/ \E f \in Fid : \/ AM_DMX_SetFilter(p, f)
                    \/ AM_DMX_FreeFilter(p, f)
                    \/ AM_DMX_StartFilter(p, f)
                    \/ AM_DMX_StopFilter(p, f)
                    \/ \E cb \in Cbs \cup {NoCb} : AM_DMX_SetCallback(p, f, cb)
  \/ \E s \in Sources : AM_DMX_SetSource(p, s)
  \/ StoreSource(p)
  \/ AM_DMX_Sync(p)

Close(c) == AM_DMX_Close(c) \/ CloseJoined(c)

Running ==
  \/ \E p \in Actors : Body(p) \/ \E op \in LockOps : Call(p, op)
  \/ \E c \in Callers : \/ AM_DMX_Open(c) \/ OpenFails(c)
                        \/ Call(c, "Close") \/ Close(c)
                        \/ SpuriousWakeup(c)
  \/ dmx_data_thread
  \/ CallbackReturns

Halted == crashed /\ UNCHANGED vars

Next == (~crashed /\ Running) \/ Halted

Spec == Init /\ [][Next]_vars

\* The data thread is scheduled, a callback returns, a thread inside a call
\* gets the CPU, and am_gAdpLock is granted to a waiter in the end.
Fairness ==
  /\ WF_vars(~crashed /\ dmx_data_thread)
  /\ SF_vars(~crashed /\ CallbackReturns)
  /\ \A p \in Actors : WF_vars(~crashed /\ Body(p))
  /\ \A c \in Callers : SF_vars(~crashed /\ Close(c))

FairSpec == Spec /\ Fairness
-----------------------------------------------------------------------------
(* The gate that the callbacks pass.                                       *)

Gate == INSTANCE CallbackGate
          WITH running <- IF tpc = "incb" THEN cur_cb ELSE NoCb

\* The device implements CallbackGate: every step of the callers and of the
\* data thread of am_dmx.c is a step of the gate or leaves it alone.
ImplementsGate == Gate!Spec

-----------------------------------------------------------------------------
(* Properties.                                                             *)

\* Every variable of the device, its driver, its data thread and the calls in
\* progress has the kind of value the C declarations give it.
TypeOK ==
  /\ open_count \in Nat
  /\ enable_thread \in BOOLEAN /\ run_cb \in BOOLEAN /\ lock_live \in BOOLEAN
  /\ src \in Sources /\ hw_src \in Sources
  /\ filters \in [Fid -> FilterRec]
  /\ fd \in [Fid -> BOOLEAN]
  /\ gAdpLock \in Callers \cup {Nobody}
  /\ tpc \in ThreadPCs
  /\ polled \subseteq Fid /\ mask \subseteq Fid /\ cur \in Fid
  /\ cur_cb \in Cbs \cup {NoCb}
  /\ pc \in [Actors -> CallPCs]
  /\ want \in [Actors -> Sources]
  /\ crashed \in BOOLEAN
  /\ ref \in [Callers -> BOOLEAN]
  /\ retired \subseteq Cbs

\* No thread takes or waits on dev->lock/dev->cond before pthread_mutex_init or
\* after pthread_mutex_destroy: the data thread is joined before the destroy,
\* and a caller with an open of its own keeps AM_DMX_Close from reaching it,
\* although dmx_get_openned_dev looks at open_count without any lock.
LockAlive ==
  /\ \A p \in Actors : pc[p] \in LockOps \cup {"wait"} => lock_live
  /\ tpc \notin {"none", "exit"} => lock_live

\* There is a data thread exactly while the device is open, and it has ended
\* its loop only when a closer is about to join it.
ThreadMatchesOpen ==
  /\ tpc # "none" <=> open_count > 0
  /\ tpc = "exit" => \E c \in Callers : pc[c] = "join"

\* What the other invariants rest on: open_count counts the clients that hold
\* an open, a call in progress belongs to one of them (or to a callback), and
\* am_gAdpLock is kept across steps only by the last closer, in pthread_join.
Holders == {c \in Callers : ref[c]}

OpenCountExact ==
  /\ open_count = Cardinality(Holders)
  /\ \A c \in Callers : pc[c] # "idle" => ref[c]
  /\ \A c \in Callers : pc[c] = "join" <=> gAdpLock = c
  /\ gAdpLock # Nobody => open_count = 1
  /\ open_count > 0 => (enable_thread <=> gAdpLock = Nobody)

\* What AM_DMX_Sync is for: once a registration was inactive (its filter
\* stopped, freed or given another callback) when some client's AM_DMX_Sync
\* returned, its callback does not run until it is made active again.  The
\* client may therefore free the user_data.
RetiredNeverRuns == tpc = "incb" => cur_cb \notin retired

\* The inductive invariant behind LockAlive, ThreadMatchesOpen and
\* RetiredNeverRuns.
ThreadInv ==
  /\ tpc # "none" <=> open_count > 0
  /\ lock_live <=> open_count > 0
  /\ tpc = "exit" => gAdpLock # Nobody
  /\ pc[DataThread] # "idle" => tpc = "incb"

CbInv ==
  /\ tpc \in {"scan", "read", "incb"} => run_cb
  /\ retired \cap Active(filters) = {}
  /\ tpc = "incb" => cur_cb \in Cbs \ retired

IInv == TypeOK /\ OpenCountExact /\ ThreadInv /\ CbInv

\* The driver has a descriptor for exactly the allocated filters of an open
\* device: no slot is lost and no descriptor leaks, whatever the clients do.
FdMatchesUsed ==
  /\ \A f \in Fid : fd[f] => filters[f].used
  /\ open_count > 0 => \A f \in Fid : filters[f].used => fd[f]

\* The first half alone, which survives a failing DMX_STOP.
FdNeedsUsed == \A f \in Fid : fd[f] => filters[f].used

\* FdMatchesUsed is inductive with the slots of a closed device.
FdInv ==
  /\ FdNeedsUsed
  /\ ~StopMayFail => /\ FdMatchesUsed
                     /\ open_count = 0 => \A f \in Fid : ~filters[f].used

\* The device lives exactly as long as its opens: every client's count is in
\* open_count, nobody uses dev->lock outside its life time, and the thread is
\* there until the last closer joins it.
LifeCycle == OpenCountExact /\ LockAlive /\ ThreadMatchesOpen

\* The last AM_DMX_Close returns: the data thread leaves its loop and is joined
\* while am_gAdpLock is held.
CloseReturns ==
  \A c \in Callers : pc[c] = "Close" ~> (pc[c] = "idle" \/ crashed)

\* Clearing DMX_FL_RUN_CB and broadcasting outside the lock loses no wake-up.
NoLostWakeup ==
  \A c \in Callers : pc[c] = "wait" ~> (pc[c] # "wait" \/ crashed)

\* AM_DMX_Sync returns once the device goes quiet.
SyncReturns ==
  <>[]~run_cb =>
    \A c \in Callers : pc[c] = "Sync" ~> (pc[c] = "idle" \/ crashed)

\* The calls that wait for the data thread return: the last AM_DMX_Close from
\* pthread_join, AM_DMX_Sync once the device goes quiet; and a wait in it is
\* always ended by the broadcast, although that is sent outside the lock.
CallsReturn == CloseReturns /\ SyncReturns /\ NoLostWakeup

\* AM_DMX_StartFilter reports a handle that is not allocated as an error code
\* (am_dmx.h documents "\return Error code"), it does not end the process.
StartFilterReportsError == ~crashed
=============================================================================
