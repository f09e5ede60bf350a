------------------------------- MODULE AmFend -------------------------------
(***************************************************************************)
(* One frontend (tuner) device of dvb/am_adp/am_fend/am_fend.c on the      *)
(* Linux DVB driver: its reference count, the monitor thread that waits    *)
(* for events and calls the registered callback, and AM_FEND_Lock, which   *)
(* borrows the callback to wait for the outcome of a tuning.               *)
(*                                                                         *)
(* dev->lock is not held across a blocking call, so each of its critical   *)
(* sections is one step; pthread_cond_wait splits a function in two.       *)
(* dev->cb and dev->user_data are written together with dev->lock held     *)
(* and FEND_FL_RUN_CB clear, or by the monitor thread: one registration.   *)
(***************************************************************************)
EXTENDS Integers, FiniteSets

CONSTANTS
  Callers,     \* client threads
  FendThread,  \* the thread that runs fend_thread
  Cbs,         \* registered (callback, user_data) pairs of clients
  NoCb,        \* a null callback
  Nobody,      \* no owner of am_gAdpLock
  Freqs,       \* frequencies
  Details,     \* symbol rates and modulations
  Modes,       \* demod modes that clients pass to Open and SetMode
  NoEvt,       \* wait_event returned no event
  ClientOps,   \* functions clients call
  CbOps,       \* functions clients call from inside a callback
  Exclusive    \* no client configures the device during another's AM_FEND_Lock

ASSUME ActorAssumption ==
  /\ IsFiniteSet(Callers)
  /\ FendThread \notin Callers
  /\ Nobody \notin Callers
ASSUME CbAssumption ==
  /\ NoCb \notin Cbs \cup Callers
  /\ Cbs \cap Callers = {}
ASSUME ParaAssumption ==
  /\ Freqs # {} /\ Details # {}
  /\ Modes # {} /\ Modes \subseteq {"detailed", "freqonly", "unknown"}
  /\ NoEvt \notin [freq : Freqs, detail : Details]
  /\ NoEvt \notin [para : [freq : Freqs, detail : Details], locked : BOOLEAN]

Actors == Callers \cup {FendThread}
Paras  == [freq : Freqs, detail : Details]
Events == [para : Paras, locked : BOOLEAN]

\* A client's registration, none, or fend_lock_cb with the lockp of a caller.
Regs == Cbs \cup {NoCb} \cup Callers

\* The stack frame of a caller that is not in AM_FEND_Lock.
NoFrame == [para |-> NoEvt, old |-> NoCb]

\* The functions that take dev->lock; the ones that configure the frontend.
LockOps == {"SetCallback", "SetActionCallback", "SetPara", "SetMode", "Lock"}
SetOps  == {"SetCallback", "SetPara", "SetMode", "Lock"}

ASSUME OpsAssumption ==
  /\ ClientOps \subseteq LockOps
  /\ CbOps \subseteq LockOps
  /\ Exclusive \in BOOLEAN

VARIABLES
  open_count, enable_thread, enable_cb, run_cb, lock_fl, \* AM_FEND_Device_t
  cb, curr_mode,
  lock_live,  \* dev->lock and dev->cond are initialised
  hw_mode, tuned,  \* driver: demod mode and parameters in force
  gAdpLock,   \* owner of am_gAdpLock
  tpc,        \* where the monitor thread is
  evt,        \* its event
  running,    \* the registration that it runs
  borrowed,   \* fend_lock_cb has to broadcast when the old callback returns
  pc,         \* what each actor's current call is about to do
  reg,        \* SetCallback: the registration to be stored
  lockp,      \* AM_FEND_Lock: para and old_cb/old_data, or NoFrame
  status,     \* AM_FEND_Lock: the parameters whose status was written
  ref,        \* ghost: the client thread holds an open of the device
  retired     \* ghost: registrations replaced by a client since

device == <<open_count, enable_thread, enable_cb, run_cb, lock_fl, cb,
            curr_mode, lock_live>>
driver == <<hw_mode, tuned>>
thread == <<tpc, evt, running, borrowed>>
calls  == <<pc, reg, lockp, status>>
ghosts == <<ref, retired>>
vars   == <<device, driver, gAdpLock, thread, calls, ghosts>>

ThreadPCs == {"none", "wait", "got", "call", "lockcb", "incb", "bcast",
              "clear", "wakeup", "exit"}
\* "set": SetCallback after its wait; "locked": the second loop of Lock.
CallPCs == LockOps \cup {"idle", "Close", "join", "set", "setwait", "lockwait",
                         "locked", "lockedwait"}

\* Calls inside AM_FEND_Lock, before and after it borrowed the callback.
Locking(p)  == pc[p] \in {"Lock", "lockwait", "locked", "lockedwait"}
Borrower(p) == pc[p] \in {"locked", "lockedwait"}
Setting(p)  == pc[p] \in SetOps \cup {"set", "setwait"}

-----------------------------------------------------------------------------
Init ==
  /\ open_count = 0
  /\ enable_thread = FALSE
  /\ enable_cb = FALSE
  /\ run_cb = FALSE
  /\ lock_fl = FALSE
  /\ cb = NoCb
  /\ curr_mode \in Modes
  /\ lock_live = FALSE
  /\ hw_mode = curr_mode
  /\ tuned \in Paras
  /\ gAdpLock = Nobody
  /\ tpc = "none"
  /\ evt = NoEvt
  /\ running = NoCb
  /\ borrowed = FALSE
  /\ pc = [p \in Actors |-> "idle"]
  /\ reg = [p \in Actors |-> NoCb]
  /\ lockp = [c \in Callers |-> NoFrame]
  /\ status = [c \in Callers |-> NoEvt]
  /\ ref = [c \in Callers |-> FALSE]
  /\ retired = Cbs

Goto(p, l) == pc' = [pc EXCEPT ![p] = l]
Return(p)  == Goto(p, "idle")

-----------------------------------------------------------------------------
(* Entering a function.                                                    *)

\* A client calls with an open of its own, a callback while it runs.  In an
\* exclusive system clients keep out of each other's AM_FEND_Lock.
MayCall(p, op) ==
  /\ pc[p] = "idle"
  /\ IF p = FendThread THEN tpc = "incb" /\ op \in CbOps ELSE ref[p]
  /\ Exclusive => /\ op \in SetOps => \A q \in Actors : ~Locking(q)
                  /\ op = "Lock" => \A q \in Actors : ~Setting(q)

CallSetCallback(p, r) ==
  /\ MayCall(p, "SetCallback")
  /\ Goto(p, "SetCallback")
  /\ reg' = [reg EXCEPT ![p] = r]
  /\ UNCHANGED <<device, driver, gAdpLock, thread, lockp, status, ghosts>>

\* AM_FEND_Lock refuses to run in the monitor thread.
CallLock(c, para) ==
  /\ MayCall(c, "Lock")
  /\ Goto(c, "Lock")
  /\ lockp' = [lockp EXCEPT ![c].para = para]
  /\ UNCHANGED <<device, driver, gAdpLock, thread, reg, status, ghosts>>

Call(p, op) ==
  /\ MayCall(p, op)
  /\ Goto(p, op)
  /\ UNCHANGED <<device, driver, gAdpLock, thread, reg, lockp, status, ghosts>>

-----------------------------------------------------------------------------
(* Opening and closing the device, under am_gAdpLock.                      *)

\* Mode -1 leaves the hardware's mode alone, but is stored all the same.
dvb_set_mode(m) == hw_mode' = IF m = "unknown" THEN hw_mode ELSE m

\* Mutant: a further open is not counted.
CountOpenMissing == open_count' = open_count

CountOpen == open_count' = open_count + 1

AM_FEND_Open(c, m) ==
  /\ pc[c] = "idle" /\ ~ref[c]
  /\ gAdpLock = Nobody
  /\ IF open_count > 0
       THEN /\ CountOpen
            /\ UNCHANGED <<enable_thread, enable_cb, run_cb, lock_fl,
                           curr_mode, lock_live, hw_mode, tpc>>
       ELSE /\ open_count' = 1
            /\ enable_thread' = TRUE
            /\ enable_cb' = TRUE
            /\ run_cb' = FALSE /\ lock_fl' = FALSE
            /\ curr_mode' = m
            /\ lock_live' = TRUE
            /\ dvb_set_mode(m)
            /\ tpc' = "wait"
  /\ ref' = [ref EXCEPT ![c] = TRUE]
  /\ UNCHANGED <<cb, tuned, gAdpLock, evt, running, borrowed, calls, retired>>

\* The driver's open or pthread_create failed: the device stays closed.
OpenFails(c, m) ==
  /\ pc[c] = "idle" /\ ~ref[c]
  /\ gAdpLock = Nobody
  /\ open_count <= 0
  /\ \/ UNCHANGED <<enable_thread, enable_cb, run_cb, lock_fl, curr_mode, hw_mode>>
     \/ /\ enable_thread' = TRUE
        /\ enable_cb' = TRUE
        /\ run_cb' = FALSE /\ lock_fl' = FALSE
        /\ curr_mode' = m
        /\ dvb_set_mode(m)
  /\ UNCHANGED <<open_count, cb, lock_live, tuned, gAdpLock, thread, calls, ghosts>>

LastClose == open_count = 1

CountClose == open_count' = open_count - 1

StopThread == enable_cb' = FALSE /\ enable_thread' = FALSE

AM_FEND_Close(c) ==
  /\ pc[c] = "Close"
  /\ gAdpLock = Nobody
  /\ IF LastClose
       THEN /\ StopThread
            /\ gAdpLock' = c
            /\ Goto(c, "join")
            /\ UNCHANGED <<open_count, ref>>
       ELSE /\ CountClose
            /\ ref' = [ref EXCEPT ![c] = FALSE]
            /\ Return(c)
            /\ UNCHANGED <<enable_cb, enable_thread, gAdpLock>>
  /\ UNCHANGED <<run_cb, lock_fl, cb, curr_mode, lock_live, driver, thread,
                 reg, lockp, status, retired>>

CloseJoined(c) ==
  /\ pc[c] = "join"
  /\ tpc = "exit"
  /\ lock_live' = FALSE
  /\ CountClose
  /\ gAdpLock' = Nobody
  /\ tpc' = "none"
  /\ ref' = [ref EXCEPT ![c] = FALSE]
  /\ Return(c)
  /\ UNCHANGED <<enable_thread, enable_cb, run_cb, lock_fl, cb, curr_mode,
                 driver, evt, running, borrowed, reg, lockp, status, retired>>

-----------------------------------------------------------------------------
(* Configuration, with dev->lock held.                                     *)

\* The ioctl may fail; dev->curr_mode is not touched either way.
AM_FEND_SetMode(p, m) ==
  /\ pc[p] = "SetMode"
  /\ dvb_set_mode(m) \/ UNCHANGED hw_mode
  /\ Return(p)
  /\ UNCHANGED <<device, tuned, gAdpLock, thread, reg, lockp, status, ghosts>>

AM_FEND_SetPara(p, para) ==
  /\ pc[p] = "SetPara"
  /\ tuned' = para \/ UNCHANGED tuned
  /\ Return(p)
  /\ UNCHANGED <<device, hw_mode, gAdpLock, thread, reg, lockp, status, ghosts>>

\* The wait for a running callback is disabled with #if 0.
AM_FEND_SetActionCallback(p, b) ==
  /\ pc[p] = "SetActionCallback"
  /\ enable_cb' = b
  /\ Return(p)
  /\ UNCHANGED <<open_count, enable_thread, run_cb, lock_fl, cb, curr_mode,
                 lock_live, driver, gAdpLock, thread, reg, lockp, status, ghosts>>

MustWait(p) == enable_thread /\ p # FendThread /\ run_cb

\* Equal registrations return at once; others wait, then replace.
AM_FEND_SetCallback(p) ==
  /\ \/ pc[p] = "SetCallback" /\ reg[p] # cb
     \/ pc[p] = "set"
  /\ IF MustWait(p)
       THEN /\ Goto(p, "setwait")
            /\ UNCHANGED <<cb, reg, retired>>
       ELSE /\ cb' = reg[p]
            /\ retired' = (IF p = FendThread THEN retired ELSE Cbs) \ {reg[p]}
            /\ reg' = [reg EXCEPT ![p] = NoCb]
            /\ Return(p)
  /\ UNCHANGED <<open_count, enable_thread, enable_cb, run_cb, lock_fl, curr_mode,
                 lock_live, driver, gAdpLock, thread, lockp, status, ref>>

SetSameCallback(p) ==
  /\ pc[p] = "SetCallback" /\ reg[p] = cb
  /\ reg' = [reg EXCEPT ![p] = NoCb]
  /\ Return(p)
  /\ UNCHANGED <<device, driver, gAdpLock, thread, lockp, status, ghosts>>

-----------------------------------------------------------------------------
(* AM_FEND_Lock.                                                           *)

\* Wait for a running callback, then borrow dev->cb and tune.  If set_para
\* fails the callback is given back, with FEND_FL_LOCK left set.
AM_FEND_Lock(c) ==
  /\ pc[c] = "Lock"
  /\ \/ /\ run_cb
        /\ Goto(c, "lockwait")
        /\ UNCHANGED <<cb, lock_fl, lockp, tuned>>
     \/ /\ ~run_cb
        /\ lock_fl' = TRUE
        /\ \/ /\ lockp' = [lockp EXCEPT ![c].old = cb]
              /\ cb' = c
              /\ tuned' = lockp[c].para
              /\ Goto(c, "lockedwait")
           \/ /\ lockp' = [lockp EXCEPT ![c] = NoFrame]
              /\ Return(c)
              /\ UNCHANGED <<cb, tuned>>
  /\ UNCHANGED <<open_count, enable_thread, enable_cb, run_cb, curr_mode, lock_live,
                 hw_mode, gAdpLock, thread, reg, status, ghosts>>

\* Mutants: only one of the two flags is looked at.
LockDoneRunOnly == ~run_cb
LockDoneLockOnly == ~lock_fl

LockDone == ~run_cb /\ ~lock_fl

\* Wait until the tuning was reported and the callback is over, then give
\* dev->cb back.
LockReturns(c) ==
  /\ pc[c] = "locked"
  /\ IF LockDone
       THEN /\ cb' = lockp[c].old
            /\ lockp' = [lockp EXCEPT ![c] = NoFrame]
            /\ status' = [status EXCEPT ![c] = NoEvt]
            /\ Return(c)
       ELSE Goto(c, "lockedwait") /\ UNCHANGED <<cb, lockp, status>>
  /\ UNCHANGED <<open_count, enable_thread, enable_cb, run_cb, lock_fl, curr_mode,
                 lock_live, driver, gAdpLock, thread, reg, ghosts>>

-----------------------------------------------------------------------------
(* Condition variable.                                                     *)

Awake == [setwait |-> "set", lockwait |-> "Lock", lockedwait |-> "locked"]

\* Mutant: no broadcast.
WakeWaitersMissing == UNCHANGED pc

WakeWaiters ==
  pc' = [p \in Actors |-> IF pc[p] \in DOMAIN Awake THEN Awake[pc[p]] ELSE pc[p]]

\* pthread_cond_wait may return without a broadcast.
SpuriousWakeup(c) ==
  /\ pc[c] \in DOMAIN Awake
  /\ Goto(c, Awake[pc[c]])
  /\ UNCHANGED <<device, driver, gAdpLock, thread, reg, lockp, status, ghosts>>

-----------------------------------------------------------------------------
(* The monitor thread.                                                     *)

ThreadFrame == UNCHANGED <<open_count, enable_thread, enable_cb, cb, curr_mode,
                           lock_live, driver, gAdpLock, reg, lockp, ghosts>>

\* The loop test and wait_event: any event of a present or an earlier tuning.
WaitEvent(e) ==
  /\ tpc = "wait"
  /\ enable_thread
  /\ evt' = e
  /\ tpc' = "got"
  /\ UNCHANGED <<run_cb, lock_fl, running, borrowed, pc, status>>
  /\ ThreadFrame

ThreadExit ==
  /\ tpc = "wait"
  /\ ~enable_thread
  /\ tpc' = "exit"
  /\ UNCHANGED <<run_cb, lock_fl, evt, running, borrowed, pc, status>>
  /\ ThreadFrame

\* Mutant: FEND_FL_RUN_CB is not set.
RaiseFlagMissing == UNCHANGED run_cb

RaiseFlag == run_cb' = TRUE

GotEvent ==
  /\ tpc = "got"
  /\ IF enable_thread
       THEN /\ RaiseFlag
            /\ tpc' = IF evt = NoEvt THEN "clear" ELSE "call"
       ELSE /\ tpc' = "wait"
            /\ UNCHANGED run_cb
  /\ UNCHANGED <<lock_fl, evt, running, borrowed, pc, status>>
  /\ ThreadFrame

\* How a registration runs: nothing, a client's function, or fend_lock_cb.
Enter(r, afterwards) ==
  /\ running' = r
  /\ tpc' = IF r = NoCb THEN afterwards ELSE IF r \in Callers THEN "lockcb" ELSE "incb"

\* enable_cb is read without a lock.  The AM_EVT_Signal that follows the
\* callback has no state of this device.
CallCallback ==
  /\ tpc = "call"
  /\ \/ enable_cb /\ Enter(cb, "clear")
     \/ ~enable_cb /\ tpc' = "clear" /\ UNCHANGED running
  /\ UNCHANGED <<run_cb, lock_fl, evt, borrowed, pc, status>>
  /\ ThreadFrame

\* Mutant: any event with a status ends AM_FEND_Lock.
fend_para_equalAlways(mode, p1, p2) == TRUE

fend_para_equal(mode, p1, p2) ==
  /\ p1.freq = p2.freq
  /\ \/ mode = "detailed" /\ p1.detail = p2.detail
     \/ mode = "freqonly"

\* lockp of a caller that has left AM_FEND_Lock is a dead stack frame: what is
\* found there may or may not equal the event, and name any old callback.
fend_lock_cb(c) ==
  /\ tpc = "lockcb" /\ running = c
  /\ \/ /\ evt.locked
        /\ Borrower(c) => fend_para_equal(curr_mode, evt.para, lockp[c].para)
        /\ lock_fl' = FALSE
        /\ status' = [status EXCEPT ![c] = evt.para]
        /\ borrowed' = TRUE
        /\ \E r \in IF Borrower(c) THEN {lockp[c].old} ELSE Regs : Enter(r, "bcast")
     \/ /\ \/ ~evt.locked
           \/ Borrower(c) => ~fend_para_equal(curr_mode, evt.para, lockp[c].para)
        /\ tpc' = IF borrowed THEN "bcast" ELSE "clear"
        /\ running' = NoCb
        /\ UNCHANGED <<lock_fl, status, borrowed>>
  /\ UNCHANGED <<run_cb, evt, pc>>
  /\ ThreadFrame

\* The client's function returns, to the thread or to fend_lock_cb.
CallbackReturns ==
  /\ tpc = "incb"
  /\ pc[FendThread] = "idle"
  /\ running' = NoCb
  /\ tpc' = IF borrowed THEN "bcast" ELSE "clear"
  /\ UNCHANGED <<run_cb, lock_fl, evt, borrowed, pc, status>>
  /\ ThreadFrame

\* The broadcast at the end of fend_lock_cb.
LockBroadcast ==
  /\ tpc = "bcast"
  /\ WakeWaiters
  /\ borrowed' = FALSE
  /\ tpc' = "clear"
  /\ UNCHANGED <<run_cb, lock_fl, evt, running, status>>
  /\ ThreadFrame

ClearRunCb ==
  /\ tpc = "clear"
  /\ run_cb' = FALSE
  /\ tpc' = "wakeup"
  /\ UNCHANGED <<lock_fl, evt, running, borrowed, pc, status>>
  /\ ThreadFrame

Broadcast ==
  /\ tpc = "wakeup"
  /\ WakeWaiters
  /\ evt' = NoEvt
  /\ tpc' = "wait"
  /\ UNCHANGED <<run_cb, lock_fl, running, borrowed, status>>
  /\ ThreadFrame

fend_thread ==
  \/ \E e \in Events \cup {NoEvt} : WaitEvent(e)
  \/ ThreadExit \/ GotEvent \/ CallCallback \/ LockBroadcast
  \/ ClearRunCb \/ Broadcast
  \/ \E c \in Callers : fend_lock_cb(c)

-----------------------------------------------------------------------------
\* The rest of a call that an actor has entered.
Body(p) ==
  \/ \E m \in Modes : AM_FEND_SetMode(p, m)
  \/ \E para \in Paras : AM_FEND_SetPara(p, para)
  \/ \E b \in BOOLEAN : AM_FEND_SetActionCallback(p, b)
  \/ AM_FEND_SetCallback(p)
  \/ SetSameCallback(p)

LockBody(c) == AM_FEND_Lock(c) \/ LockReturns(c)

Close(c) == AM_FEND_Close(c) \/ CloseJoined(c)

Next ==
  \/ \E p \in Actors :
       \/ Body(p)
       \/ "SetCallback" \in ClientOps /\ \E r \in Cbs \cup {NoCb} : CallSetCallback(p, r)
       \/ \E op \in ClientOps \ {"SetCallback", "Lock"} : Call(p, op)
  \/ \E c \in Callers :
       \/ LockBody(c) \/ Close(c) \/ Call(c, "Close") \/ SpuriousWakeup(c)
       \/ "Lock" \in ClientOps /\ \E para \in Paras : CallLock(c, para)
       \/ \E m \in Modes : AM_FEND_Open(c, m) \/ OpenFails(c, m)
  \/ fend_thread
  \/ CallbackReturns

Spec == Init /\ [][Next]_vars

\* Threads are scheduled (a woken waiter gets dev->lock while the monitor
\* thread sleeps in wait_event), callbacks return, am_gAdpLock is granted in the end,
\* and (the kernel's part) a tuning in force is reported sooner or later.
Fairness ==
  /\ WF_vars(fend_thread)
  /\ SF_vars(CallbackReturns)
  /\ \A p \in Actors : WF_vars(Body(p)) /\ SF_vars(~run_cb /\ Body(p))
  /\ \A c \in Callers : WF_vars(LockBody(c)) /\ SF_vars(~run_cb /\ LockBody(c))
  /\ \A c \in Callers : SF_vars(Close(c))
  /\ \A para \in Paras :
       SF_vars(tuned = para /\ WaitEvent([para |-> para, locked |-> TRUE]))

FairSpec == Spec /\ Fairness

-----------------------------------------------------------------------------
(* The gate that the clients' callbacks pass.                              *)

Gate == INSTANCE CallbackGate
          WITH running <- IF tpc = "incb" THEN running ELSE NoCb

\* The frontend implements CallbackGate: AM_FEND_SetCallback retires what it
\* replaces, also while AM_FEND_Lock lends the callback out.
ImplementsGate == Gate!Spec

-----------------------------------------------------------------------------
(* Properties.                                                             *)

\* Every variable of the device, its driver, its thread and the calls in
\* progress has the kind of value the C declarations give it.
TypeOK ==
  /\ open_count \in Nat
  /\ enable_thread \in BOOLEAN /\ enable_cb \in BOOLEAN
  /\ run_cb \in BOOLEAN /\ lock_fl \in BOOLEAN /\ lock_live \in BOOLEAN
  /\ cb \in Regs
  /\ curr_mode \in Modes /\ hw_mode \in Modes
  /\ tuned \in Paras
  /\ gAdpLock \in Callers \cup {Nobody}
  /\ tpc \in ThreadPCs
  /\ evt \in Events \cup {NoEvt}
  /\ running \in Regs
  /\ borrowed \in BOOLEAN
  /\ pc \in [Actors -> CallPCs]
  /\ reg \in [Actors -> Cbs \cup {NoCb}]
  /\ lockp \in [Callers -> [para : Paras \cup {NoEvt}, old : Regs]]
  /\ status \in [Callers -> Paras \cup {NoEvt}]
  /\ ref \in [Callers -> BOOLEAN]
  /\ retired \subseteq Cbs

\* No thread uses dev->lock or dev->cond outside their life time: AM_FEND_Close
\* destroys them after the join, with the last open.
LockAlive ==
  /\ \A p \in Actors : pc[p] \notin {"idle", "Close", "join"} => lock_live
  /\ tpc \notin {"none", "exit"} => lock_live

\* open_count counts the clients that hold an open, and am_gAdpLock is kept
\* across steps only by the last closer, in pthread_join.
Holders == {c \in Callers : ref[c]}

OpenCountExact ==
  /\ open_count = Cardinality(Holders)
  /\ \A c \in Callers : pc[c] # "idle" => ref[c]
  /\ \A c \in Callers : pc[c] = "join" <=> gAdpLock = c
  /\ gAdpLock # Nobody => open_count = 1
  /\ open_count > 0 => (enable_thread <=> gAdpLock = Nobody)

\* The device lives exactly as long as its opens: every client's count is in
\* open_count, and nobody uses dev->lock outside its life time.
LifeCycle == OpenCountExact /\ LockAlive

\* Once a client's AM_FEND_SetCallback has replaced a registration, that
\* callback does not run until it is registered again: not from a copy the
\* monitor thread holds, and not given back by a later AM_FEND_Lock.
RetiredNeverRuns == tpc = "incb" => running \notin retired

\* fend_lock_cb is registered and runs only with the lockp of a caller that is
\* still inside AM_FEND_Lock: its stack frame is alive.
LockParaAlive ==
  /\ cb \in Callers => Borrower(cb)
  /\ tpc = "lockcb" => Borrower(running)

\* AM_FEND_Lock "sets the parameters and waits until that is done": when it
\* returns success, the status it returns is one reported for its own frequency.
LockReportsOwnTuning ==
  [][\A c \in Callers : Borrower(c) /\ pc'[c] = "idle" =>
        status[c] # NoEvt /\ status[c].freq = lockp[c].para.freq]_vars

\* dev->curr_mode is the demod mode in force ("current demod mode" in
\* am_fend_internal.h), which fend_lock_cb relies on to compare parameters.
CurrModeInForce == open_count > 0 => curr_mode = hw_mode

\* AM_FEND_Lock returns, if the tuner reports the tuning in the end.
LockCompletes == \A c \in Callers : pc[c] = "Lock" ~> pc[c] = "idle"

\* AM_FEND_SetCallback returns although it waits for the running callback.
SetCallbackCompletes ==
  \A c \in Callers : pc[c] = "SetCallback" ~> pc[c] = "idle"

\* The last AM_FEND_Close joins the monitor thread and returns.
CloseReturns == \A c \in Callers : pc[c] = "Close" ~> pc[c] = "idle"

\* The calls that wait for the monitor thread return: AM_FEND_Lock,
\* AM_FEND_SetCallback and the last AM_FEND_Close.
CallsReturn == LockCompletes /\ SetCallbackCompletes /\ CloseReturns

-----------------------------------------------------------------------------
(* The inductive invariant of AmFendProofs.                                *)

\* dev->lock and the monitor thread live as long as the opens, and
\* FEND_FL_RUN_CB covers everything the thread does with an event.
ThreadInv ==
  /\ lock_live <=> open_count > 0
  /\ tpc # "none" <=> open_count > 0
  /\ pc[FendThread] # "idle" => tpc = "incb"
  /\ tpc \in {"call", "lockcb", "incb", "bcast", "clear"} => run_cb
  /\ tpc \in {"call", "lockcb"} => evt # NoEvt

\* A call in AM_FEND_Lock has parameters.
FrameInv == \A c \in Callers : Locking(c) => lockp[c].para # NoEvt

\* While a client is in AM_FEND_Lock nobody else configures the device.
ExclusiveUse ==
  /\ ~Locking(FendThread)
  /\ \A p, q \in Actors : Locking(p) /\ p # q => ~Locking(q) /\ ~Setting(q)

\* Exactly the caller past the first loop of AM_FEND_Lock has its lockp in
\* dev->user_data; FEND_FL_LOCK is clear only once its own status is written.
BorrowInv ==
  /\ \A c \in Callers : Borrower(c) <=> cb = c
  /\ \A c \in Callers : Borrower(c) => lockp[c].old \in Cbs \cup {NoCb}
  /\ tpc = "lockcb" => running \in Callers /\ Borrower(running)
  /\ \A c \in Callers : Borrower(c) /\ ~lock_fl =>
       status[c] # NoEvt /\ status[c].freq = lockp[c].para.freq

\* No retired registration is stored, lent out or running.
RegInv ==
  /\ cb \notin retired
  /\ \A c \in Callers : Borrower(c) => lockp[c].old \notin retired
  /\ tpc = "incb" => running \in Cbs /\ running \notin retired

IInv == TypeOK /\ OpenCountExact /\ ThreadInv /\ FrameInv
LockInv == ExclusiveUse /\ BorrowInv /\ RegInv
=============================================================================
