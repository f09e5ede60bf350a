---------------------------- MODULE AmFendProofs ----------------------------
(***************************************************************************)
(* Theorems about AmFend for any number of client threads, registrations,  *)
(* frequencies and modes.  IInv (types, the exact reference count, the     *)
(* life time of the lock and of the monitor thread, FEND_FL_RUN_CB) needs  *)
(* nothing of the clients.  LockInv, what AM_FEND_Lock relies on, needs    *)
(* them to keep out of each other's AM_FEND_Lock (Exclusive).              *)
(*                                                                         *)
(* The second part is about AmBlindScan, the blind scan of the same        *)
(* device, for any size of the table and any number of scans, from a       *)
(* driver that reports no more transponders than the table has room for.   *)
(***************************************************************************)
EXTENDS AmFend, AmBlindScan, FiniteSetTheorems, TLAPS

-----------------------------------------------------------------------------
(* The clients that hold an open.                                          *)

\* A client that holds an open makes the reference count positive, the count
\* follows the set of holders, and with a count of one the holder is unique.
LEMMA HolderCount ==
  ASSUME TypeOK, OpenCountExact, NEW c \in Callers
  PROVE  /\ open_count \in Nat
         /\ ref[c] => open_count >= 1
         /\ ~ref[c] => Cardinality(Holders \cup {c}) = open_count + 1
         /\ ref[c] => Cardinality(Holders \ {c}) = open_count - 1
         /\ \A d \in Callers : ref[c] /\ ref[d] /\ open_count = 1 => c = d
<1>1. IsFiniteSet(Holders)
  BY FS_Subset, ActorAssumption, Holders \in SUBSET Callers DEF Holders
<1>2. Cardinality(Holders \cup {c}) =
        IF c \in Holders THEN Cardinality(Holders) ELSE Cardinality(Holders) + 1
  BY <1>1, FS_AddElement
<1>3. /\ IsFiniteSet(Holders \ {c})
      /\ Cardinality(Holders \ {c}) =
           IF c \in Holders THEN Cardinality(Holders) - 1 ELSE Cardinality(Holders)
  BY <1>1, FS_RemoveElement
<1>4. open_count = Cardinality(Holders) /\ open_count \in Nat
  BY DEF TypeOK, OpenCountExact
<1>5. \A d \in Callers : d \in Holders <=> ref[d]
  BY DEF Holders, TypeOK
<1>6. /\ Cardinality(Holders) = 0 <=> Holders = {}
      /\ Cardinality(Holders \ {c}) = 0 <=> Holders \ {c} = {}
  BY <1>1, <1>3, FS_EmptySet
<1>7. ASSUME NEW d \in Callers, ref[c], ref[d], open_count = 1 PROVE c = d
  <2>1. Holders \ {c} = {}
    BY <1>3, <1>4, <1>5, <1>6, <1>7
  <2> QED BY <1>5, <1>7, <2>1
<1>8. ref[c] => open_count >= 1
  BY <1>4, <1>5, <1>6
<1> QED BY <1>2, <1>3, <1>4, <1>5, <1>7, <1>8

\* Opening and closing change the set of holders by the client that calls, every
\* other step leaves it alone.
LEMMA HoldersStep ==
  /\ TypeOK => \A c \in Callers :
       /\ ref' = [ref EXCEPT ![c] = TRUE] => Holders' = Holders \cup {c}
       /\ ref' = [ref EXCEPT ![c] = FALSE] => Holders' = Holders \ {c}
  /\ ref' = ref => Holders' = Holders
  BY DEF TypeOK, Holders

-----------------------------------------------------------------------------
\* The disjuncts of Next.
LEMMA NextCases ==
  ASSUME [Next]_vars
  PROVE  \/ \E p \in Actors :
              \/ \E r \in Cbs \cup {NoCb} : CallSetCallback(p, r)
              \/ \E op \in LockOps \ {"SetCallback", "Lock"} : Call(p, op)
              \/ \E m \in Modes : AM_FEND_SetMode(p, m)
              \/ \E para \in Paras : AM_FEND_SetPara(p, para)
              \/ \E b \in BOOLEAN : AM_FEND_SetActionCallback(p, b)
              \/ AM_FEND_SetCallback(p)
              \/ SetSameCallback(p)
         \/ \E c \in Callers :
              \/ \E para \in Paras : CallLock(c, para)
              \/ AM_FEND_Lock(c)
              \/ LockReturns(c)
              \/ Call(c, "Close")
              \/ AM_FEND_Close(c)
              \/ CloseJoined(c)
              \/ SpuriousWakeup(c)
              \/ \E m \in Modes : AM_FEND_Open(c, m)
              \/ \E m \in Modes : OpenFails(c, m)
              \/ fend_lock_cb(c)
         \/ \E e \in Events \cup {NoEvt} : WaitEvent(e)
         \/ ThreadExit \/ GotEvent \/ CallCallback \/ CallbackReturns
         \/ LockBroadcast \/ ClearRunCb \/ Broadcast
         \/ UNCHANGED vars
  BY OpsAssumption DEF Next, Body, LockBody, Close, fend_thread

-----------------------------------------------------------------------------
(* The inductive steps of IInv.                                            *)

\* Types are kept; the count stays a natural number because a closer holds an
\* open.
LEMMA TypeStep ==
  ASSUME TypeOK, OpenCountExact, ThreadInv, FrameInv, [Next]_vars
  PROVE  TypeOK'
<1>n. ASSUME NEW c \in Callers, pc[c] # "idle" PROVE open_count - 1 \in Nat
  <2>1. open_count \in Nat /\ open_count >= 1
    BY <1>n, HolderCount DEF OpenCountExact
  <2> QED BY <2>1
<1>w. WakeWaiters => pc' \in [Actors -> CallPCs]
  <2>1. \A p \in Actors : pc[p] \in DOMAIN Awake => Awake[pc[p]] \in CallPCs
    BY DEF Awake, CallPCs, LockOps
  <2> QED BY <2>1 DEF TypeOK, WakeWaiters
<1> USE DEF TypeOK, Actors, CallPCs, LockOps, ThreadPCs, Regs, NoFrame, device, driver, thread, calls, ghosts
<1>1. ASSUME NEW p \in Actors, NEW r \in Cbs \cup {NoCb}, CallSetCallback(p, r) PROVE TypeOK'
  BY <1>1, TypeOK DEF CallSetCallback, MayCall, Goto
<1>2. ASSUME NEW p \in Actors, NEW op \in LockOps \ {"SetCallback", "Lock"}, Call(p, op) PROVE TypeOK'
  BY <1>2, TypeOK DEF Call, MayCall, Goto
<1>3. ASSUME NEW p \in Actors, NEW m \in Modes, AM_FEND_SetMode(p, m) PROVE TypeOK'
  BY <1>3, TypeOK DEF AM_FEND_SetMode, dvb_set_mode, Return, Goto
<1>4. ASSUME NEW p \in Actors, NEW para \in Paras, AM_FEND_SetPara(p, para) PROVE TypeOK'
  BY <1>4, TypeOK DEF AM_FEND_SetPara, Return, Goto
<1>5. ASSUME NEW p \in Actors, NEW b \in BOOLEAN, AM_FEND_SetActionCallback(p, b) PROVE TypeOK'
  BY <1>5, TypeOK DEF AM_FEND_SetActionCallback, Return, Goto
<1>6. ASSUME NEW p \in Actors, AM_FEND_SetCallback(p) PROVE TypeOK'
  BY <1>6, TypeOK DEF AM_FEND_SetCallback, MustWait, Return, Goto
<1>7. ASSUME NEW p \in Actors, SetSameCallback(p) PROVE TypeOK'
  BY <1>7, TypeOK DEF SetSameCallback, Return, Goto
<1>8. ASSUME NEW c \in Callers, NEW para \in Paras, CallLock(c, para) PROVE TypeOK'
  BY <1>8, TypeOK DEF CallLock, MayCall, Goto
<1>9. ASSUME NEW c \in Callers, AM_FEND_Lock(c) PROVE TypeOK'
  <2>1. lockp[c].para \in Paras
    BY <1>9 DEF AM_FEND_Lock, FrameInv, Locking
  <2>2. pc' \in [Actors -> CallPCs]
    BY <1>9 DEF AM_FEND_Lock, Return, Goto
  <2>3. cb' \in Regs /\ tuned' \in Paras /\ lock_fl' \in BOOLEAN
    BY <1>9, <2>1 DEF AM_FEND_Lock
  <2>4. lockp' \in [Callers -> [para : Paras \cup {NoEvt}, old : Regs]]
    <3>1. CASE lockp' = [lockp EXCEPT ![c].old = cb]
      BY <3>1
    <3>2. CASE lockp' = [lockp EXCEPT ![c] = NoFrame]
      BY <3>2
    <3>3. CASE lockp' = lockp
      BY <3>3
    <3> QED BY <1>9, <3>1, <3>2, <3>3 DEF AM_FEND_Lock
  <2>5. UNCHANGED <<open_count, enable_thread, enable_cb, run_cb, curr_mode, lock_live,
                    hw_mode, gAdpLock, thread, reg, status, ghosts>>
    BY <1>9 DEF AM_FEND_Lock
  <2> QED BY <2>2, <2>3, <2>4, <2>5
<1>10. ASSUME NEW c \in Callers, LockReturns(c) PROVE TypeOK'
  BY <1>10, TypeOK DEF LockReturns, LockDone, Return, Goto
<1>11. ASSUME NEW c \in Callers, Call(c, "Close") PROVE TypeOK'
  BY <1>11, TypeOK DEF Call, MayCall, Goto
<1>12. ASSUME NEW c \in Callers, AM_FEND_Close(c) PROVE TypeOK'
  <2>1. open_count' \in Nat
    BY <1>12, <1>n DEF AM_FEND_Close, CountClose
  <2>2. pc' \in [Actors -> CallPCs] /\ ref' \in [Callers -> BOOLEAN]
    BY <1>12 DEF AM_FEND_Close, Return, Goto
  <2>3. /\ enable_cb' \in BOOLEAN /\ enable_thread' \in BOOLEAN
        /\ gAdpLock' \in Callers \cup {Nobody}
    BY <1>12 DEF AM_FEND_Close, StopThread
  <2> QED BY <1>12, <2>1, <2>2, <2>3 DEF AM_FEND_Close
<1>13. ASSUME NEW c \in Callers, CloseJoined(c) PROVE TypeOK'
  BY <1>13, TypeOK, <1>n DEF CloseJoined, CountClose, Return, Goto
<1>14. ASSUME NEW c \in Callers, SpuriousWakeup(c) PROVE TypeOK'
  BY <1>14, TypeOK DEF SpuriousWakeup, Awake, Goto
<1>15. ASSUME NEW c \in Callers, NEW m \in Modes, AM_FEND_Open(c, m) PROVE TypeOK'
  <2>1. open_count' \in Nat
    BY <1>15 DEF AM_FEND_Open, CountOpen
  <2>2. hw_mode' \in Modes /\ curr_mode' \in Modes
    BY <1>15 DEF AM_FEND_Open, dvb_set_mode
  <2>3. /\ enable_cb' \in BOOLEAN /\ enable_thread' \in BOOLEAN /\ run_cb' \in BOOLEAN
        /\ lock_fl' \in BOOLEAN /\ lock_live' \in BOOLEAN /\ tpc' \in ThreadPCs
    BY <1>15 DEF AM_FEND_Open
  <2>4. ref' \in [Callers -> BOOLEAN]
    BY <1>15 DEF AM_FEND_Open
  <2> QED BY <1>15, <2>1, <2>2, <2>3, <2>4 DEF AM_FEND_Open
<1>16. ASSUME NEW c \in Callers, NEW m \in Modes, OpenFails(c, m) PROVE TypeOK'
  <2>1. hw_mode' \in Modes /\ curr_mode' \in Modes
    BY <1>16 DEF OpenFails, dvb_set_mode
  <2>2. /\ enable_cb' \in BOOLEAN /\ enable_thread' \in BOOLEAN /\ run_cb' \in BOOLEAN
        /\ lock_fl' \in BOOLEAN
    BY <1>16 DEF OpenFails
  <2> QED BY <1>16, <2>1, <2>2 DEF OpenFails
<1>17. ASSUME NEW e \in Events \cup {NoEvt}, WaitEvent(e) PROVE TypeOK'
  BY <1>17, TypeOK DEF WaitEvent, ThreadFrame
<1>18. CASE ThreadExit
  BY <1>18, TypeOK DEF ThreadExit, ThreadFrame
<1>19. CASE GotEvent
  BY <1>19, TypeOK, ZenonT(30) DEF GotEvent, RaiseFlag, ThreadFrame
<1>20. CASE CallCallback
  BY <1>20, TypeOK DEF CallCallback, Enter, ThreadFrame
<1>21. ASSUME NEW c \in Callers, fend_lock_cb(c) PROVE TypeOK'
  <2>1. evt.para \in Paras
    BY <1>21 DEF fend_lock_cb, ThreadInv, Events
  <2>2. status' \in [Callers -> Paras \cup {NoEvt}]
    BY <1>21, <2>1 DEF fend_lock_cb
  <2>3. ASSUME NEW r \in Regs, Enter(r, "bcast")
        PROVE  running' \in Regs /\ tpc' \in ThreadPCs
    BY <2>3 DEF Enter
  <2>4. running' \in Regs /\ tpc' \in ThreadPCs
    BY <1>21, <2>3 DEF fend_lock_cb
  <2> QED BY <1>21, <2>2, <2>4, ZenonT(30) DEF fend_lock_cb, ThreadFrame
<1>22. CASE CallbackReturns
  BY <1>22, TypeOK DEF CallbackReturns, ThreadFrame
<1>23. CASE LockBroadcast
  BY <1>23, <1>w, ZenonT(30) DEF LockBroadcast, ThreadFrame
<1>24. CASE ClearRunCb
  BY <1>24, TypeOK, ZenonT(30) DEF ClearRunCb, ThreadFrame
<1>25. CASE Broadcast
  BY <1>25, <1>w DEF Broadcast, ThreadFrame
<1>26. CASE UNCHANGED vars
  BY <1>26, TypeOK DEF vars
<1> QED
  BY <1>1, <1>2, <1>3, <1>4, <1>5, <1>6, <1>7, <1>8, <1>9, <1>10, <1>11,
     <1>12, <1>13, <1>14, <1>15, <1>16, <1>17, <1>18, <1>19, <1>20, <1>21, <1>22,
     <1>23, <1>24, <1>25, <1>26, NextCases

\* The count follows the holders, and am_gAdpLock the last closer.
LEMMA CountStep ==
  ASSUME TypeOK, OpenCountExact, ThreadInv, [Next]_vars
  PROVE  OpenCountExact'
<1>h. ASSUME NEW c \in Callers
      PROVE  /\ open_count \in Nat
             /\ ref[c] => open_count >= 1
             /\ ~ref[c] => Cardinality(Holders \cup {c}) = open_count + 1
             /\ ref[c] => Cardinality(Holders \ {c}) = open_count - 1
             /\ \A d \in Callers : ref[c] /\ ref[d] /\ open_count = 1 => c = d
  BY <1>h, HolderCount
<1>t. /\ open_count \in Nat /\ ref \in [Callers -> BOOLEAN] /\ pc \in [Actors -> CallPCs]
      /\ gAdpLock \in Callers \cup {Nobody}
      /\ enable_thread \in BOOLEAN
  BY DEF TypeOK
<1> USE HoldersStep, ActorAssumption DEF OpenCountExact, Actors, LockOps, device, driver, thread, calls, ghosts
<1>1. ASSUME NEW p \in Actors, NEW r \in Cbs \cup {NoCb}, CallSetCallback(p, r) PROVE OpenCountExact'
  BY <1>1, <1>t DEF CallSetCallback, MayCall, Goto
<1>2. ASSUME NEW p \in Actors, NEW op \in LockOps \ {"SetCallback", "Lock"}, Call(p, op) PROVE OpenCountExact'
  BY <1>2, <1>t DEF Call, MayCall, Goto
<1>3. ASSUME NEW p \in Actors, NEW m \in Modes, AM_FEND_SetMode(p, m) PROVE OpenCountExact'
  BY <1>3, <1>t DEF AM_FEND_SetMode, dvb_set_mode, Return, Goto
<1>4. ASSUME NEW p \in Actors, NEW para \in Paras, AM_FEND_SetPara(p, para) PROVE OpenCountExact'
  BY <1>4, <1>t DEF AM_FEND_SetPara, Return, Goto
<1>5. ASSUME NEW p \in Actors, NEW b \in BOOLEAN, AM_FEND_SetActionCallback(p, b) PROVE OpenCountExact'
  BY <1>5, <1>t DEF AM_FEND_SetActionCallback, Return, Goto
<1>6. ASSUME NEW p \in Actors, AM_FEND_SetCallback(p) PROVE OpenCountExact'
  BY <1>6, <1>t DEF AM_FEND_SetCallback, MustWait, Return, Goto
<1>7. ASSUME NEW p \in Actors, SetSameCallback(p) PROVE OpenCountExact'
  BY <1>7, <1>t DEF SetSameCallback, Return, Goto
<1>8. ASSUME NEW c \in Callers, NEW para \in Paras, CallLock(c, para) PROVE OpenCountExact'
  BY <1>8, <1>t DEF CallLock, MayCall, Goto
<1>9. ASSUME NEW c \in Callers, AM_FEND_Lock(c) PROVE OpenCountExact'
  BY <1>9, <1>t DEF AM_FEND_Lock, Return, Goto
<1>10. ASSUME NEW c \in Callers, LockReturns(c) PROVE OpenCountExact'
  BY <1>10, <1>t DEF LockReturns, LockDone, Return, Goto
<1>11. ASSUME NEW c \in Callers, Call(c, "Close") PROVE OpenCountExact'
  BY <1>11, <1>t DEF Call, MayCall, Goto
<1>12. ASSUME NEW c \in Callers, AM_FEND_Close(c) PROVE OpenCountExact'
  <2>1. ref[c] /\ open_count >= 1
    BY <1>12, <1>h DEF AM_FEND_Close
  <2>2. CASE LastClose
    <3>1. ASSUME NEW d \in Callers
          PROVE  (pc'[d] # "idle" => ref'[d]) /\ (pc'[d] = "join" <=> gAdpLock' = d)
      BY <1>12, <1>t, <2>1, <2>2 DEF AM_FEND_Close, Goto
    <3> QED BY <1>12, <1>t, <2>1, <2>2, <3>1 DEF AM_FEND_Close, LastClose, StopThread
  <2>3. CASE ~LastClose
    <3>1. open_count' = Cardinality(Holders')
      BY <1>12, <1>h, <2>1, <2>3, TypeOK DEF AM_FEND_Close, CountClose
    <3>2. ASSUME NEW d \in Callers PROVE pc'[d] # "idle" => ref'[d]
      BY <1>12, <1>t, <2>3 DEF AM_FEND_Close, Return, Goto
    <3>3. ASSUME NEW d \in Callers PROVE pc'[d] = "join" <=> gAdpLock' = d
      BY <1>12, <1>t, <2>3 DEF AM_FEND_Close, Return, Goto
    <3> QED BY <1>12, <1>t, <2>1, <2>3, <3>1, <3>2, <3>3
            DEF AM_FEND_Close, LastClose, CountClose
  <2> QED BY <2>2, <2>3
<1>13. ASSUME NEW c \in Callers, CloseJoined(c) PROVE OpenCountExact'
  <2>1. ref[c] /\ open_count = 1
    BY <1>13, <1>t DEF CloseJoined
  <2>2. open_count' = Cardinality(Holders') /\ open_count' = 0
    <3>1. Holders' = Holders \ {c}
      BY <1>13, TypeOK DEF CloseJoined
    <3>2. Cardinality(Holders \ {c}) = open_count - 1
      BY <1>h, <2>1
    <3> QED BY <1>13, <2>1, <3>1, <3>2 DEF CloseJoined, CountClose
  <2>3. ASSUME NEW d \in Callers PROVE pc'[d] # "idle" => ref'[d]
    BY <1>13, <1>t DEF CloseJoined, Return, Goto
  <2>4. ASSUME NEW d \in Callers PROVE pc'[d] = "join" <=> gAdpLock' = d
    BY <1>13, <1>t DEF CloseJoined, Return, Goto
  <2> QED BY <1>13, <2>2, <2>3, <2>4 DEF CloseJoined
<1>14. ASSUME NEW c \in Callers, SpuriousWakeup(c) PROVE OpenCountExact'
  BY <1>14, <1>t DEF SpuriousWakeup, Awake, Goto
<1>15. ASSUME NEW c \in Callers, NEW m \in Modes, AM_FEND_Open(c, m) PROVE OpenCountExact'
  <2>1. Cardinality(Holders') = open_count + 1
    BY <1>15, <1>h, TypeOK DEF AM_FEND_Open
  <2>2. open_count' = open_count + 1
    BY <1>15, <1>t DEF AM_FEND_Open, CountOpen
  <2>3. ASSUME NEW d \in Callers PROVE pc'[d] # "idle" => ref'[d]
    BY <1>15, <1>t DEF AM_FEND_Open, calls
  <2>4. open_count' > 0 => (enable_thread' <=> gAdpLock' = Nobody)
    BY <1>15, <1>t DEF AM_FEND_Open, CountOpen
  <2> QED BY <1>15, <1>t, <2>1, <2>2, <2>3, <2>4 DEF AM_FEND_Open
<1>16. ASSUME NEW c \in Callers, NEW m \in Modes, OpenFails(c, m) PROVE OpenCountExact'
  BY <1>16, <1>t DEF OpenFails, dvb_set_mode
<1>17. ASSUME NEW e \in Events \cup {NoEvt}, WaitEvent(e) PROVE OpenCountExact'
  BY <1>17, <1>t DEF WaitEvent, ThreadFrame
<1>18. CASE ThreadExit
  BY <1>18, <1>t DEF ThreadExit, ThreadFrame
<1>19. CASE GotEvent
  BY <1>19, <1>t DEF GotEvent, RaiseFlag, ThreadFrame
<1>20. CASE CallCallback
  BY <1>20, <1>t DEF CallCallback, Enter, ThreadFrame
<1>21. ASSUME NEW c \in Callers, fend_lock_cb(c) PROVE OpenCountExact'
  BY <1>21, <1>t DEF fend_lock_cb, Enter, fend_para_equal, ThreadFrame
<1>22. CASE CallbackReturns
  BY <1>22, <1>t DEF CallbackReturns, ThreadFrame
<1>23. CASE LockBroadcast
  BY <1>23, <1>t DEF LockBroadcast, WakeWaiters, Awake, ThreadFrame
<1>24. CASE ClearRunCb
  BY <1>24, <1>t DEF ClearRunCb, ThreadFrame
<1>25. CASE Broadcast
  BY <1>25, <1>t DEF Broadcast, WakeWaiters, Awake, ThreadFrame
<1>26. CASE UNCHANGED vars
  BY <1>26, <1>t DEF vars
<1> QED
  BY <1>1, <1>2, <1>3, <1>4, <1>5, <1>6, <1>7, <1>8, <1>9, <1>10, <1>11,
     <1>12, <1>13, <1>14, <1>15, <1>16, <1>17, <1>18, <1>19, <1>20, <1>21, <1>22,
     <1>23, <1>24, <1>25, <1>26, NextCases

\* dev->lock and the monitor thread live as long as the opens, and
\* FEND_FL_RUN_CB covers the thread's work on an event.
LEMMA ThreadStep ==
  ASSUME TypeOK, OpenCountExact, ThreadInv, [Next]_vars
  PROVE  ThreadInv'
<1>h. ASSUME NEW c \in Callers, pc[c] # "idle" PROVE open_count >= 1
  BY <1>h, HolderCount DEF OpenCountExact
<1>t. /\ open_count \in Nat /\ run_cb \in BOOLEAN /\ pc \in [Actors -> CallPCs]
      /\ lock_live \in BOOLEAN
      /\ gAdpLock \in Callers \cup {Nobody}
      /\ \A c \in Callers : pc[c] = "join" => open_count = 1
  BY ActorAssumption DEF TypeOK, OpenCountExact
<1> USE ActorAssumption DEF ThreadInv, Actors, LockOps, device, driver, thread, calls, ghosts
<1>1. ASSUME NEW p \in Actors, NEW r \in Cbs \cup {NoCb}, CallSetCallback(p, r) PROVE ThreadInv'
  BY <1>1, <1>t DEF CallSetCallback, MayCall, Goto
<1>2. ASSUME NEW p \in Actors, NEW op \in LockOps \ {"SetCallback", "Lock"}, Call(p, op) PROVE ThreadInv'
  BY <1>2, <1>t DEF Call, MayCall, Goto
<1>3. ASSUME NEW p \in Actors, NEW m \in Modes, AM_FEND_SetMode(p, m) PROVE ThreadInv'
  BY <1>3, <1>t DEF AM_FEND_SetMode, dvb_set_mode, Return, Goto
<1>4. ASSUME NEW p \in Actors, NEW para \in Paras, AM_FEND_SetPara(p, para) PROVE ThreadInv'
  BY <1>4, <1>t DEF AM_FEND_SetPara, Return, Goto
<1>5. ASSUME NEW p \in Actors, NEW b \in BOOLEAN, AM_FEND_SetActionCallback(p, b) PROVE ThreadInv'
  BY <1>5, <1>t DEF AM_FEND_SetActionCallback, Return, Goto
<1>6. ASSUME NEW p \in Actors, AM_FEND_SetCallback(p) PROVE ThreadInv'
  BY <1>6, <1>t DEF AM_FEND_SetCallback, MustWait, Return, Goto
<1>7. ASSUME NEW p \in Actors, SetSameCallback(p) PROVE ThreadInv'
  BY <1>7, <1>t DEF SetSameCallback, Return, Goto
<1>8. ASSUME NEW c \in Callers, NEW para \in Paras, CallLock(c, para) PROVE ThreadInv'
  BY <1>8, <1>t DEF CallLock, MayCall, Goto
<1>9. ASSUME NEW c \in Callers, AM_FEND_Lock(c) PROVE ThreadInv'
  BY <1>9, <1>t DEF AM_FEND_Lock, Return, Goto
<1>10. ASSUME NEW c \in Callers, LockReturns(c) PROVE ThreadInv'
  BY <1>10, <1>t DEF LockReturns, LockDone, Return, Goto
<1>11. ASSUME NEW c \in Callers, Call(c, "Close") PROVE ThreadInv'
  BY <1>11, <1>t DEF Call, MayCall, Goto
<1>12. ASSUME NEW c \in Callers, AM_FEND_Close(c) PROVE ThreadInv'
  BY <1>12, <1>t, <1>h DEF AM_FEND_Close, LastClose, CountClose, StopThread, Return, Goto
<1>13. ASSUME NEW c \in Callers, CloseJoined(c) PROVE ThreadInv'
  BY <1>13, <1>t, <1>h DEF CloseJoined, CountClose, Return, Goto
<1>14. ASSUME NEW c \in Callers, SpuriousWakeup(c) PROVE ThreadInv'
  BY <1>14, <1>t DEF SpuriousWakeup, Awake, Goto
<1>15. ASSUME NEW c \in Callers, NEW m \in Modes, AM_FEND_Open(c, m) PROVE ThreadInv'
  BY <1>15, <1>t DEF AM_FEND_Open, CountOpen, dvb_set_mode
<1>16. ASSUME NEW c \in Callers, NEW m \in Modes, OpenFails(c, m) PROVE ThreadInv'
  BY <1>16, <1>t DEF OpenFails, dvb_set_mode
<1>17. ASSUME NEW e \in Events \cup {NoEvt}, WaitEvent(e) PROVE ThreadInv'
  BY <1>17, <1>t DEF WaitEvent, ThreadFrame
<1>18. CASE ThreadExit
  BY <1>18, <1>t DEF ThreadExit, ThreadFrame
<1>19. CASE GotEvent
  BY <1>19, <1>t DEF GotEvent, RaiseFlag, ThreadFrame
<1>20. CASE CallCallback
  BY <1>20, <1>t DEF CallCallback, Enter, ThreadFrame
<1>21. ASSUME NEW c \in Callers, fend_lock_cb(c) PROVE ThreadInv'
  BY <1>21, <1>t DEF fend_lock_cb, Enter, fend_para_equal, ThreadFrame
<1>22. CASE CallbackReturns
  BY <1>22, <1>t DEF CallbackReturns, ThreadFrame
<1>23. CASE LockBroadcast
  BY <1>23, <1>t DEF LockBroadcast, WakeWaiters, Awake, ThreadFrame
<1>24. CASE ClearRunCb
  BY <1>24, <1>t DEF ClearRunCb, ThreadFrame
<1>25. CASE Broadcast
  BY <1>25, <1>t DEF Broadcast, WakeWaiters, Awake, ThreadFrame
<1>26. CASE UNCHANGED vars
  BY <1>26, <1>t DEF vars
<1> QED
  BY <1>1, <1>2, <1>3, <1>4, <1>5, <1>6, <1>7, <1>8, <1>9, <1>10, <1>11,
     <1>12, <1>13, <1>14, <1>15, <1>16, <1>17, <1>18, <1>19, <1>20, <1>21, <1>22,
     <1>23, <1>24, <1>25, <1>26, NextCases

\* The parameters of a call in AM_FEND_Lock stay where they are.
LEMMA FrameStep ==
  ASSUME TypeOK, FrameInv, [Next]_vars
  PROVE  FrameInv'
<1>t. /\ pc \in [Actors -> CallPCs]
      /\ lockp \in [Callers -> [para : Paras \cup {NoEvt}, old : Regs]]
      /\ \A para \in Paras : para # NoEvt
  BY ParaAssumption DEF TypeOK, Paras
<1> USE DEF FrameInv, Locking, Actors, LockOps, device, driver, thread, calls, ghosts
<1>1. ASSUME NEW p \in Actors, NEW r \in Cbs \cup {NoCb}, CallSetCallback(p, r) PROVE FrameInv'
  BY <1>1, <1>t DEF CallSetCallback, MayCall, Goto
<1>2. ASSUME NEW p \in Actors, NEW op \in LockOps \ {"SetCallback", "Lock"}, Call(p, op) PROVE FrameInv'
  BY <1>2, <1>t DEF Call, MayCall, Goto
<1>3. ASSUME NEW p \in Actors, NEW m \in Modes, AM_FEND_SetMode(p, m) PROVE FrameInv'
  BY <1>3, <1>t DEF AM_FEND_SetMode, dvb_set_mode, Return, Goto
<1>4. ASSUME NEW p \in Actors, NEW para \in Paras, AM_FEND_SetPara(p, para) PROVE FrameInv'
  BY <1>4, <1>t DEF AM_FEND_SetPara, Return, Goto
<1>5. ASSUME NEW p \in Actors, NEW b \in BOOLEAN, AM_FEND_SetActionCallback(p, b) PROVE FrameInv'
  BY <1>5, <1>t DEF AM_FEND_SetActionCallback, Return, Goto
<1>6. ASSUME NEW p \in Actors, AM_FEND_SetCallback(p) PROVE FrameInv'
  BY <1>6, <1>t DEF AM_FEND_SetCallback, MustWait, Return, Goto
<1>7. ASSUME NEW p \in Actors, SetSameCallback(p) PROVE FrameInv'
  BY <1>7, <1>t DEF SetSameCallback, Return, Goto
<1>8. ASSUME NEW c \in Callers, NEW para \in Paras, CallLock(c, para) PROVE FrameInv'
  <2>1. lockp' = [lockp EXCEPT ![c].para = para] /\ pc' = [pc EXCEPT ![c] = "Lock"]
    BY <1>8 DEF CallLock, Goto
  <2>2. ASSUME NEW d \in Callers, Locking(d)' PROVE lockp'[d].para # NoEvt
    <3>1. CASE d = c
      BY <1>t, <2>1, <3>1
    <3>2. CASE d # c
      BY <1>t, <2>1, <2>2, <3>2
    <3> QED BY <3>1, <3>2
  <2> QED BY <2>2
<1>9. ASSUME NEW c \in Callers, AM_FEND_Lock(c) PROVE FrameInv'
  <2>1. ASSUME NEW d \in Callers, Locking(d)' PROVE lockp'[d].para # NoEvt
    <3>1. CASE lockp' = [lockp EXCEPT ![c].old = cb] /\ pc' = [pc EXCEPT ![c] = "lockedwait"]
      BY <1>9, <1>t, <2>1, <3>1 DEF AM_FEND_Lock
    <3>2. CASE lockp' = [lockp EXCEPT ![c] = NoFrame] /\ pc' = [pc EXCEPT ![c] = "idle"]
      BY <1>t, <2>1, <3>2
    <3>3. CASE lockp' = lockp /\ pc' = [pc EXCEPT ![c] = "lockwait"]
      BY <1>9, <1>t, <2>1, <3>3 DEF AM_FEND_Lock
    <3> QED BY <1>9, <3>1, <3>2, <3>3 DEF AM_FEND_Lock, Return, Goto
  <2> QED BY <2>1
<1>10. ASSUME NEW c \in Callers, LockReturns(c) PROVE FrameInv'
  BY <1>10, <1>t DEF LockReturns, LockDone, Return, Goto
<1>11. ASSUME NEW c \in Callers, Call(c, "Close") PROVE FrameInv'
  BY <1>11, <1>t DEF Call, MayCall, Goto
<1>12. ASSUME NEW c \in Callers, AM_FEND_Close(c) PROVE FrameInv'
  BY <1>12, <1>t DEF AM_FEND_Close, LastClose, CountClose, StopThread, Return, Goto
<1>13. ASSUME NEW c \in Callers, CloseJoined(c) PROVE FrameInv'
  BY <1>13, <1>t DEF CloseJoined, CountClose, Return, Goto
<1>14. ASSUME NEW c \in Callers, SpuriousWakeup(c) PROVE FrameInv'
  BY <1>14, <1>t DEF SpuriousWakeup, Awake, Goto
<1>15. ASSUME NEW c \in Callers, NEW m \in Modes, AM_FEND_Open(c, m) PROVE FrameInv'
  BY <1>15, <1>t DEF AM_FEND_Open, CountOpen, dvb_set_mode
<1>16. ASSUME NEW c \in Callers, NEW m \in Modes, OpenFails(c, m) PROVE FrameInv'
  BY <1>16, <1>t DEF OpenFails, dvb_set_mode
<1>17. ASSUME NEW e \in Events \cup {NoEvt}, WaitEvent(e) PROVE FrameInv'
  BY <1>17, <1>t DEF WaitEvent, ThreadFrame
<1>18. CASE ThreadExit
  BY <1>18, <1>t DEF ThreadExit, ThreadFrame
<1>19. CASE GotEvent
  BY <1>19, <1>t DEF GotEvent, RaiseFlag, ThreadFrame
<1>20. CASE CallCallback
  BY <1>20, <1>t DEF CallCallback, Enter, ThreadFrame
<1>21. ASSUME NEW c \in Callers, fend_lock_cb(c) PROVE FrameInv'
  BY <1>21, <1>t DEF fend_lock_cb, Enter, fend_para_equal, ThreadFrame
<1>22. CASE CallbackReturns
  BY <1>22, <1>t DEF CallbackReturns, ThreadFrame
<1>23. CASE LockBroadcast
  BY <1>23, <1>t DEF LockBroadcast, WakeWaiters, Awake, ThreadFrame
<1>24. CASE ClearRunCb
  BY <1>24, <1>t DEF ClearRunCb, ThreadFrame
<1>25. CASE Broadcast
  BY <1>25, <1>t DEF Broadcast, WakeWaiters, Awake, ThreadFrame
<1>26. CASE UNCHANGED vars
  BY <1>26, <1>t DEF vars
<1> QED
  BY <1>1, <1>2, <1>3, <1>4, <1>5, <1>6, <1>7, <1>8, <1>9, <1>10, <1>11,
     <1>12, <1>13, <1>14, <1>15, <1>16, <1>17, <1>18, <1>19, <1>20, <1>21, <1>22,
     <1>23, <1>24, <1>25, <1>26, NextCases

-----------------------------------------------------------------------------
(* The inductive steps of LockInv.                                         *)

\* A client that replaces the callback does so outside of every callback: its
\* open keeps the monitor thread enabled, so it has waited for FEND_FL_RUN_CB.
LEMMA ReplacedWhenQuiet ==
  ASSUME IInv, NEW c \in Callers, pc[c] \in {"SetCallback", "set"}, ~MustWait(c)
  PROVE  ~run_cb
<1>1. ref[c] /\ open_count \in Nat /\ open_count >= 1
  BY HolderCount DEF IInv, OpenCountExact
<1>2. gAdpLock = Nobody
  <2> SUFFICES ASSUME gAdpLock # Nobody PROVE FALSE
    OBVIOUS
  <2>1. gAdpLock \in Callers /\ pc[gAdpLock] = "join" /\ open_count = 1
    BY DEF IInv, TypeOK, OpenCountExact
  <2>2. ref[gAdpLock]
    BY <2>1 DEF IInv, OpenCountExact
  <2>3. c = gAdpLock
    BY <1>1, <2>1, <2>2, HolderCount DEF IInv
  <2> QED BY <2>1, <2>3
<1>3. enable_thread
  BY <1>1, <1>2 DEF IInv, OpenCountExact
<1> QED BY <1>3, ActorAssumption DEF MustWait

\* AM_FEND_Lock stays alone on the device.
LEMMA ExclusiveStep ==
  ASSUME Exclusive, IInv, ExclusiveUse, [Next]_vars
  PROVE  ExclusiveUse'
<1>t. pc \in [Actors -> CallPCs]
  BY DEF IInv, TypeOK
<1> USE ActorAssumption DEF ExclusiveUse, Locking, Setting, SetOps, Actors, LockOps, device, driver, thread, calls, ghosts
<1>1. ASSUME NEW p \in Actors, NEW r \in Cbs \cup {NoCb}, CallSetCallback(p, r) PROVE ExclusiveUse'
  BY <1>1, <1>t DEF CallSetCallback, MayCall, Goto
<1>2. ASSUME NEW p \in Actors, NEW op \in LockOps \ {"SetCallback", "Lock"}, Call(p, op) PROVE ExclusiveUse'
  BY <1>2, <1>t DEF Call, MayCall, Goto
<1>3. ASSUME NEW p \in Actors, NEW m \in Modes, AM_FEND_SetMode(p, m) PROVE ExclusiveUse'
  BY <1>3, <1>t DEF AM_FEND_SetMode, dvb_set_mode, Return, Goto
<1>4. ASSUME NEW p \in Actors, NEW para \in Paras, AM_FEND_SetPara(p, para) PROVE ExclusiveUse'
  BY <1>4, <1>t DEF AM_FEND_SetPara, Return, Goto
<1>5. ASSUME NEW p \in Actors, NEW b \in BOOLEAN, AM_FEND_SetActionCallback(p, b) PROVE ExclusiveUse'
  BY <1>5, <1>t DEF AM_FEND_SetActionCallback, Return, Goto
<1>6. ASSUME NEW p \in Actors, AM_FEND_SetCallback(p) PROVE ExclusiveUse'
  BY <1>6, <1>t DEF AM_FEND_SetCallback, MustWait, Return, Goto
<1>7. ASSUME NEW p \in Actors, SetSameCallback(p) PROVE ExclusiveUse'
  BY <1>7, <1>t DEF SetSameCallback, Return, Goto
<1>8. ASSUME NEW c \in Callers, NEW para \in Paras, CallLock(c, para) PROVE ExclusiveUse'
  BY <1>8, <1>t DEF CallLock, MayCall, Goto
<1>9. ASSUME NEW c \in Callers, AM_FEND_Lock(c) PROVE ExclusiveUse'
  BY <1>9, <1>t DEF AM_FEND_Lock, Return, Goto
<1>10. ASSUME NEW c \in Callers, LockReturns(c) PROVE ExclusiveUse'
  BY <1>10, <1>t DEF LockReturns, LockDone, Return, Goto
<1>11. ASSUME NEW c \in Callers, Call(c, "Close") PROVE ExclusiveUse'
  BY <1>11, <1>t DEF Call, MayCall, Goto
<1>12. ASSUME NEW c \in Callers, AM_FEND_Close(c) PROVE ExclusiveUse'
  BY <1>12, <1>t DEF AM_FEND_Close, LastClose, CountClose, StopThread, Return, Goto
<1>13. ASSUME NEW c \in Callers, CloseJoined(c) PROVE ExclusiveUse'
  BY <1>13, <1>t DEF CloseJoined, CountClose, Return, Goto
<1>14. ASSUME NEW c \in Callers, SpuriousWakeup(c) PROVE ExclusiveUse'
  BY <1>14, <1>t DEF SpuriousWakeup, Awake, Goto
<1>15. ASSUME NEW c \in Callers, NEW m \in Modes, AM_FEND_Open(c, m) PROVE ExclusiveUse'
  BY <1>15, <1>t DEF AM_FEND_Open, CountOpen, dvb_set_mode
<1>16. ASSUME NEW c \in Callers, NEW m \in Modes, OpenFails(c, m) PROVE ExclusiveUse'
  BY <1>16, <1>t DEF OpenFails, dvb_set_mode
<1>17. ASSUME NEW e \in Events \cup {NoEvt}, WaitEvent(e) PROVE ExclusiveUse'
  BY <1>17, <1>t DEF WaitEvent, ThreadFrame
<1>18. CASE ThreadExit
  BY <1>18, <1>t DEF ThreadExit, ThreadFrame
<1>19. CASE GotEvent
  BY <1>19, <1>t DEF GotEvent, RaiseFlag, ThreadFrame
<1>20. CASE CallCallback
  BY <1>20, <1>t DEF CallCallback, Enter, ThreadFrame
<1>21. ASSUME NEW c \in Callers, fend_lock_cb(c) PROVE ExclusiveUse'
  BY <1>21, <1>t DEF fend_lock_cb, Enter, fend_para_equal, ThreadFrame
<1>22. CASE CallbackReturns
  BY <1>22, <1>t DEF CallbackReturns, ThreadFrame
<1>23. CASE LockBroadcast
  BY <1>23, <1>t DEF LockBroadcast, WakeWaiters, Awake, ThreadFrame
<1>24. CASE ClearRunCb
  BY <1>24, <1>t DEF ClearRunCb, ThreadFrame
<1>25. CASE Broadcast
  BY <1>25, <1>t DEF Broadcast, WakeWaiters, Awake, ThreadFrame
<1>26. CASE UNCHANGED vars
  BY <1>26, <1>t DEF vars
<1> QED
  BY <1>1, <1>2, <1>3, <1>4, <1>5, <1>6, <1>7, <1>8, <1>9, <1>10, <1>11,
     <1>12, <1>13, <1>14, <1>15, <1>16, <1>17, <1>18, <1>19, <1>20, <1>21, <1>22,
     <1>23, <1>24, <1>25, <1>26, NextCases

\* The borrowed callback is that of the caller inside AM_FEND_Lock.
LEMMA BorrowStep ==
  ASSUME IInv, ExclusiveUse, BorrowInv, [Next]_vars
  PROVE  BorrowInv'
<1>t. /\ pc \in [Actors -> CallPCs]
      /\ lockp \in [Callers -> [para : Paras \cup {NoEvt}, old : Regs]]
      /\ status \in [Callers -> Paras \cup {NoEvt}]
      /\ reg \in [Actors -> Cbs \cup {NoCb}]
      /\ cb \in Regs /\ run_cb \in BOOLEAN /\ lock_fl \in BOOLEAN
      /\ open_count \in Nat
      /\ tpc = "lockcb" => run_cb
      /\ tpc = "lockcb" => evt # NoEvt
      /\ evt \in Events \cup {NoEvt}
      /\ \A para \in Paras : para # NoEvt
  BY ParaAssumption DEF IInv, TypeOK, ThreadInv, Paras
<1>c. \A c \in Callers : c \notin Cbs \cup {NoCb}
  BY CbAssumption
<1>h. ASSUME NEW c \in Callers, Borrower(c) PROVE open_count >= 1
  BY <1>h, HolderCount DEF Borrower, IInv, OpenCountExact
<1>x. ASSUME NEW c \in Callers, NEW p \in Actors, Borrower(c), p # c
      PROVE  ~Locking(p) /\ ~Setting(p)
  BY <1>x DEF ExclusiveUse, Borrower, Locking, Actors
<1> USE DEF BorrowInv, Borrower, Actors, LockOps, device, driver, thread, calls, ghosts
<1>1. ASSUME NEW p \in Actors, NEW r \in Cbs \cup {NoCb}, CallSetCallback(p, r) PROVE BorrowInv'
  BY <1>1, <1>t DEF CallSetCallback, MayCall, Goto
<1>2. ASSUME NEW p \in Actors, NEW op \in LockOps \ {"SetCallback", "Lock"}, Call(p, op) PROVE BorrowInv'
  BY <1>2, <1>t DEF Call, MayCall, Goto
<1>3. ASSUME NEW p \in Actors, NEW m \in Modes, AM_FEND_SetMode(p, m) PROVE BorrowInv'
  BY <1>3, <1>t DEF AM_FEND_SetMode, dvb_set_mode, Return, Goto
<1>4. ASSUME NEW p \in Actors, NEW para \in Paras, AM_FEND_SetPara(p, para) PROVE BorrowInv'
  BY <1>4, <1>t DEF AM_FEND_SetPara, Return, Goto
<1>5. ASSUME NEW p \in Actors, NEW b \in BOOLEAN, AM_FEND_SetActionCallback(p, b) PROVE BorrowInv'
  BY <1>5, <1>t DEF AM_FEND_SetActionCallback, Return, Goto
<1>6. ASSUME NEW p \in Actors, AM_FEND_SetCallback(p) PROVE BorrowInv'
  <2>1. CASE UNCHANGED cb
    <3>1. \A c \in Callers : Borrower(c)' <=> Borrower(c)
      BY <1>6, <1>t DEF AM_FEND_SetCallback, Return, Goto
    <3> QED BY <1>6, <1>t, <2>1, <3>1 DEF AM_FEND_SetCallback
  <2>2. CASE cb' = reg[p] /\ pc' = [pc EXCEPT ![p] = "idle"]
    <3>1. Setting(p) /\ ~Borrower(p)
      BY <1>6 DEF AM_FEND_SetCallback, Setting, SetOps
    <3>2. \A c \in Callers : ~Borrower(c)
      BY <1>x, <3>1
    <3>3. \A c \in Callers : ~Borrower(c)'
      BY <1>t, <2>2, <3>2
    <3>4. \A c \in Callers : cb' # c
      BY <1>t, <1>c, <2>2
    <3>5. tpc' # "lockcb"
      BY <1>6, <3>2 DEF AM_FEND_SetCallback
    <3> QED BY <3>3, <3>4, <3>5
  <2> QED BY <1>6, <2>1, <2>2 DEF AM_FEND_SetCallback, Return, Goto
<1>7. ASSUME NEW p \in Actors, SetSameCallback(p) PROVE BorrowInv'
  BY <1>7, <1>t DEF SetSameCallback, Return, Goto
<1>8. ASSUME NEW c \in Callers, NEW para \in Paras, CallLock(c, para) PROVE BorrowInv'
  BY <1>8, <1>t DEF CallLock, MayCall, Goto
<1>9. ASSUME NEW c \in Callers, AM_FEND_Lock(c) PROVE BorrowInv'
  <2>1. Locking(c) /\ ~Borrower(c)
    BY <1>9 DEF AM_FEND_Lock, Locking
  <2>2. \A d \in Callers : ~Borrower(d)
    BY <1>x, <2>1
  <2>3. cb \in Cbs \cup {NoCb}
    BY <1>t, <2>2 DEF Regs
  <2>4. tpc # "lockcb" /\ tpc' # "lockcb"
    BY <1>9, <2>2 DEF AM_FEND_Lock
  <2>5. CASE /\ lockp' = [lockp EXCEPT ![c].old = cb] /\ cb' = c /\ lock_fl' = TRUE
             /\ pc' = [pc EXCEPT ![c] = "lockedwait"]
    <3>1. \A d \in Callers : Borrower(d)' <=> d = c
      BY <1>t, <2>2, <2>5
    <3>2. lockp'[c].old = cb
      BY <1>t, <2>5
    <3> QED BY <2>3, <2>4, <2>5, <3>1, <3>2
  <2>6. CASE UNCHANGED cb /\ (pc' = [pc EXCEPT ![c] = "idle"] \/ pc' = [pc EXCEPT ![c] = "lockwait"])
    <3>1. \A d \in Callers : ~Borrower(d)'
      BY <1>t, <2>2, <2>6
    <3> QED BY <2>2, <2>4, <2>6, <3>1
  <2> QED BY <1>9, <2>5, <2>6 DEF AM_FEND_Lock, Return, Goto
<1>10. ASSUME NEW c \in Callers, LockReturns(c) PROVE BorrowInv'
  <2>1. \A d \in Callers : Borrower(d) <=> d = c
    BY <1>10, <1>x DEF LockReturns, Locking
  <2>2. CASE LockDone
    <3>1. \A d \in Callers : ~Borrower(d)'
      BY <1>10, <1>t, <2>1, <2>2 DEF LockReturns, Return, Goto
    <3>2. \A d \in Callers : cb' # d
      BY <1>10, <1>c, <2>1, <2>2 DEF LockReturns
    <3>3. tpc' # "lockcb"
      BY <1>10, <1>t, <2>2 DEF LockReturns, LockDone
    <3> QED BY <3>1, <3>2, <3>3
  <2>3. CASE ~LockDone
    <3>1. \A d \in Callers : Borrower(d)' <=> Borrower(d)
      BY <1>10, <1>t, <2>3 DEF LockReturns, Goto
    <3> QED BY <1>10, <1>t, <2>3, <3>1 DEF LockReturns
  <2> QED BY <2>2, <2>3
<1>11. ASSUME NEW c \in Callers, Call(c, "Close") PROVE BorrowInv'
  BY <1>11, <1>t DEF Call, MayCall, Goto
<1>12. ASSUME NEW c \in Callers, AM_FEND_Close(c) PROVE BorrowInv'
  BY <1>12, <1>t DEF AM_FEND_Close, LastClose, CountClose, StopThread, Return, Goto
<1>13. ASSUME NEW c \in Callers, CloseJoined(c) PROVE BorrowInv'
  BY <1>13, <1>t DEF CloseJoined, CountClose, Return, Goto
<1>14. ASSUME NEW c \in Callers, SpuriousWakeup(c) PROVE BorrowInv'
  BY <1>14, <1>t DEF SpuriousWakeup, Awake, Goto
<1>15. ASSUME NEW c \in Callers, NEW m \in Modes, AM_FEND_Open(c, m) PROVE BorrowInv'
  BY <1>15, <1>t, <1>h DEF AM_FEND_Open, CountOpen, dvb_set_mode
<1>16. ASSUME NEW c \in Callers, NEW m \in Modes, OpenFails(c, m) PROVE BorrowInv'
  BY <1>16, <1>t, <1>h DEF OpenFails, dvb_set_mode
<1>17. ASSUME NEW e \in Events \cup {NoEvt}, WaitEvent(e) PROVE BorrowInv'
  BY <1>17, <1>t DEF WaitEvent, ThreadFrame
<1>18. CASE ThreadExit
  BY <1>18, <1>t DEF ThreadExit, ThreadFrame
<1>19. CASE GotEvent
  BY <1>19, <1>t DEF GotEvent, RaiseFlag, ThreadFrame
<1>20. CASE CallCallback
  BY <1>20, <1>t DEF CallCallback, Enter, ThreadFrame
<1>21. ASSUME NEW c \in Callers, fend_lock_cb(c) PROVE BorrowInv'
  <2>1. Borrower(c) /\ \A d \in Callers : Borrower(d)' <=> Borrower(d)
    BY <1>21 DEF fend_lock_cb
  <2>2. UNCHANGED <<cb, lockp, pc>>
    BY <1>21 DEF fend_lock_cb, ThreadFrame
  <2>3. tpc' # "lockcb"
    <3>1. lockp[c].old \in Cbs \cup {NoCb}
      BY <2>1
    <3>2. \A r \in Cbs \cup {NoCb} : Enter(r, "bcast") => tpc' # "lockcb"
      BY <1>c DEF Enter
    <3> QED BY <1>21, <2>1, <3>1, <3>2 DEF fend_lock_cb
  <2>4. ASSUME NEW d \in Callers, Borrower(d), ~lock_fl'
        PROVE  status'[d] # NoEvt /\ status'[d].freq = lockp[d].para.freq
    <3>1. d = c
      BY <1>x, <2>1, <2>4 DEF Locking
    <3>2. CASE /\ Borrower(c) => fend_para_equal(curr_mode, evt.para, lockp[c].para)
               /\ status' = [status EXCEPT ![c] = evt.para]
      <4>1. evt.para \in Paras
        BY <1>21, <1>t DEF fend_lock_cb, Events
      <4>2. status'[c] = evt.para
        BY <1>t, <3>2
      <4> QED BY <1>t, <2>1, <3>1, <3>2, <4>1, <4>2 DEF fend_para_equal
    <3>3. CASE UNCHANGED <<lock_fl, status>>
      BY <2>4, <3>3
    <3> QED BY <1>21, <3>2, <3>3 DEF fend_lock_cb
  <2> QED BY <2>1, <2>2, <2>3, <2>4
<1>22. CASE CallbackReturns
  BY <1>22, <1>t DEF CallbackReturns, ThreadFrame
<1>23. CASE LockBroadcast
  BY <1>23, <1>t DEF LockBroadcast, WakeWaiters, Awake, ThreadFrame
<1>24. CASE ClearRunCb
  BY <1>24, <1>t DEF ClearRunCb, ThreadFrame
<1>25. CASE Broadcast
  BY <1>25, <1>t DEF Broadcast, WakeWaiters, Awake, ThreadFrame
<1>26. CASE UNCHANGED vars
  BY <1>26, <1>t DEF vars
<1> QED
  BY <1>1, <1>2, <1>3, <1>4, <1>5, <1>6, <1>7, <1>8, <1>9, <1>10, <1>11,
     <1>12, <1>13, <1>14, <1>15, <1>16, <1>17, <1>18, <1>19, <1>20, <1>21, <1>22,
     <1>23, <1>24, <1>25, <1>26, NextCases

\* A registration is retired only when it is neither stored, lent nor running.
LEMMA RegStep ==
  ASSUME IInv, ExclusiveUse, BorrowInv, RegInv, [Next]_vars
  PROVE  RegInv'
<1>t. /\ pc \in [Actors -> CallPCs]
      /\ lockp \in [Callers -> [para : Paras \cup {NoEvt}, old : Regs]]
      /\ reg \in [Actors -> Cbs \cup {NoCb}]
      /\ cb \in Regs /\ run_cb \in BOOLEAN
      /\ retired \subseteq Cbs
      /\ tpc = "incb" => run_cb
  BY DEF IInv, TypeOK, ThreadInv
<1>c. /\ \A c \in Callers : c \notin Cbs \cup {NoCb}
      /\ NoCb \notin Cbs
  BY CbAssumption
<1> USE DEF RegInv, Borrower, Actors, LockOps, device, driver, thread, calls, ghosts
<1>1. ASSUME NEW p \in Actors, NEW r \in Cbs \cup {NoCb}, CallSetCallback(p, r) PROVE RegInv'
  BY <1>1, <1>t, <1>c DEF CallSetCallback, MayCall, Goto
<1>2. ASSUME NEW p \in Actors, NEW op \in LockOps \ {"SetCallback", "Lock"}, Call(p, op) PROVE RegInv'
  BY <1>2, <1>t, <1>c DEF Call, MayCall, Goto
<1>3. ASSUME NEW p \in Actors, NEW m \in Modes, AM_FEND_SetMode(p, m) PROVE RegInv'
  BY <1>3, <1>t, <1>c DEF AM_FEND_SetMode, dvb_set_mode, Return, Goto
<1>4. ASSUME NEW p \in Actors, NEW para \in Paras, AM_FEND_SetPara(p, para) PROVE RegInv'
  BY <1>4, <1>t, <1>c DEF AM_FEND_SetPara, Return, Goto
<1>5. ASSUME NEW p \in Actors, NEW b \in BOOLEAN, AM_FEND_SetActionCallback(p, b) PROVE RegInv'
  BY <1>5, <1>t, <1>c DEF AM_FEND_SetActionCallback, Return, Goto
<1>6. ASSUME NEW p \in Actors, AM_FEND_SetCallback(p) PROVE RegInv'
  <2>1. CASE UNCHANGED <<cb, retired>>
    <3>1. \A c \in Callers : Borrower(c)' => Borrower(c)
      BY <1>6, <1>t DEF AM_FEND_SetCallback, Return, Goto
    <3> QED BY <1>6, <1>t, <2>1, <3>1 DEF AM_FEND_SetCallback
  <2>2. CASE /\ ~MustWait(p) /\ cb' = reg[p] /\ pc' = [pc EXCEPT ![p] = "idle"]
             /\ retired' = (IF p = FendThread THEN retired ELSE Cbs) \ {reg[p]}
    <3>1. \A c \in Callers : ~Borrower(c)'
      BY <1>6, <1>t, <2>2 DEF AM_FEND_SetCallback, ExclusiveUse, Setting, SetOps, Locking
    <3>2. CASE p = FendThread
      BY <1>6, <2>2, <3>1, <3>2 DEF AM_FEND_SetCallback
    <3>3. CASE p # FendThread
      <4>1. tpc # "incb"
        BY <1>6, <1>t, <2>2, <3>3, ReplacedWhenQuiet DEF AM_FEND_SetCallback
      <4> QED BY <1>6, <2>2, <3>1, <4>1 DEF AM_FEND_SetCallback
    <3> QED BY <3>2, <3>3
  <2> QED BY <1>6, <2>1, <2>2 DEF AM_FEND_SetCallback, Return, Goto
<1>7. ASSUME NEW p \in Actors, SetSameCallback(p) PROVE RegInv'
  BY <1>7, <1>t, <1>c DEF SetSameCallback, Return, Goto
<1>8. ASSUME NEW c \in Callers, NEW para \in Paras, CallLock(c, para) PROVE RegInv'
  BY <1>8, <1>t, <1>c DEF CallLock, MayCall, Goto
<1>9. ASSUME NEW c \in Callers, AM_FEND_Lock(c) PROVE RegInv'
  BY <1>9, <1>t, <1>c DEF AM_FEND_Lock, Return, Goto
<1>10. ASSUME NEW c \in Callers, LockReturns(c) PROVE RegInv'
  BY <1>10, <1>t, <1>c DEF LockReturns, LockDone, Return, Goto
<1>11. ASSUME NEW c \in Callers, Call(c, "Close") PROVE RegInv'
  BY <1>11, <1>t, <1>c DEF Call, MayCall, Goto
<1>12. ASSUME NEW c \in Callers, AM_FEND_Close(c) PROVE RegInv'
  BY <1>12, <1>t, <1>c DEF AM_FEND_Close, LastClose, CountClose, StopThread, Return, Goto
<1>13. ASSUME NEW c \in Callers, CloseJoined(c) PROVE RegInv'
  BY <1>13, <1>t, <1>c DEF CloseJoined, CountClose, Return, Goto
<1>14. ASSUME NEW c \in Callers, SpuriousWakeup(c) PROVE RegInv'
  BY <1>14, <1>t, <1>c DEF SpuriousWakeup, Awake, Goto
<1>15. ASSUME NEW c \in Callers, NEW m \in Modes, AM_FEND_Open(c, m) PROVE RegInv'
  BY <1>15, <1>t, <1>c DEF AM_FEND_Open, CountOpen, dvb_set_mode
<1>16. ASSUME NEW c \in Callers, NEW m \in Modes, OpenFails(c, m) PROVE RegInv'
  BY <1>16, <1>t, <1>c DEF OpenFails, dvb_set_mode
<1>17. ASSUME NEW e \in Events \cup {NoEvt}, WaitEvent(e) PROVE RegInv'
  BY <1>17, <1>t, <1>c DEF WaitEvent, ThreadFrame
<1>18. CASE ThreadExit
  BY <1>18, <1>t, <1>c DEF ThreadExit, ThreadFrame
<1>19. CASE GotEvent
  BY <1>19, <1>t, <1>c DEF GotEvent, RaiseFlag, ThreadFrame
<1>20. CASE CallCallback
  <2>1. tpc' = "incb" => running' = cb /\ cb \in Cbs
    BY <1>20, <1>t DEF CallCallback, Enter, Regs
  <2> QED BY <1>20, <2>1 DEF CallCallback, ThreadFrame
<1>21. ASSUME NEW c \in Callers, fend_lock_cb(c) PROVE RegInv'
  <2>1. Borrower(c) /\ lockp[c].old \in Cbs \cup {NoCb}
    BY <1>21 DEF fend_lock_cb, BorrowInv
  <2>2. tpc' = "incb" => running' = lockp[c].old /\ running' \in Cbs
    BY <1>21, <1>c, <2>1 DEF fend_lock_cb, Enter
  <2> QED BY <1>21, <2>1, <2>2 DEF fend_lock_cb, ThreadFrame
<1>22. CASE CallbackReturns
  BY <1>22, <1>t, <1>c DEF CallbackReturns, ThreadFrame
<1>23. CASE LockBroadcast
  BY <1>23, <1>t, <1>c DEF LockBroadcast, WakeWaiters, Awake, ThreadFrame
<1>24. CASE ClearRunCb
  BY <1>24, <1>t, <1>c DEF ClearRunCb, ThreadFrame
<1>25. CASE Broadcast
  BY <1>25, <1>t, <1>c DEF Broadcast, WakeWaiters, Awake, ThreadFrame
<1>26. CASE UNCHANGED vars
  BY <1>26, <1>t, <1>c DEF vars
<1> QED
  BY <1>1, <1>2, <1>3, <1>4, <1>5, <1>6, <1>7, <1>8, <1>9, <1>10, <1>11,
     <1>12, <1>13, <1>14, <1>15, <1>16, <1>17, <1>18, <1>19, <1>20, <1>21, <1>22,
     <1>23, <1>24, <1>25, <1>26, NextCases

-----------------------------------------------------------------------------
(* Theorems.                                                               *)

\* IInv is an inductive invariant, whatever the clients do.
THEOREM Invariance == Spec => []IInv
<1>1. Init => IInv
  <2> SUFFICES ASSUME Init PROVE IInv
    OBVIOUS
  <2>1. TypeOK
    BY ParaAssumption
    DEF Init, TypeOK, ThreadPCs, CallPCs, Regs, NoFrame
  <2>2. Holders = {}
    BY DEF Init, Holders
  <2>3. OpenCountExact
    BY <2>2, FS_EmptySet, ActorAssumption DEF Init, OpenCountExact, Actors
  <2>4. ThreadInv /\ FrameInv
    BY DEF Init, ThreadInv, FrameInv, Locking, Actors
  <2> QED BY <2>1, <2>3, <2>4 DEF IInv
<1>2. IInv /\ [Next]_vars => IInv'
  BY TypeStep, CountStep, ThreadStep, FrameStep DEF IInv
<1> QED BY <1>1, <1>2, PTL DEF Spec

\* Every variable of the frontend keeps its type; open_count never becomes
\* negative.
THEOREM TypeCorrect == Spec => []TypeOK
<1>1. IInv => TypeOK
  BY DEF IInv
<1> QED BY <1>1, Invariance, PTL

\* open_count is the number of clients that hold an open, and am_gAdpLock is kept
\* across steps only by the last closer.
THEOREM CountCorrect == Spec => []OpenCountExact
<1>1. IInv => OpenCountExact
  BY DEF IInv
<1> QED BY <1>1, Invariance, PTL

\* No call and no step of the monitor thread uses dev->lock or dev->cond outside
\* their life time.
THEOREM LockCorrect == Spec => []LockAlive
<1>1. IInv => LockAlive
  <2> SUFFICES ASSUME IInv PROVE LockAlive
    OBVIOUS
  <2>1. ASSUME NEW p \in Actors, pc[p] \notin {"idle", "Close", "join"}
        PROVE  lock_live
    <3>1. CASE p = FendThread
      BY <2>1, <3>1 DEF IInv, ThreadInv
    <3>2. CASE p \in Callers
      <4>1. open_count >= 1
        BY <2>1, <3>2, HolderCount DEF IInv, OpenCountExact
      <4> QED BY <4>1 DEF IInv, TypeOK, ThreadInv
    <3> QED BY <3>1, <3>2 DEF Actors
  <2>2. tpc \notin {"none", "exit"} => lock_live
    BY DEF IInv, ThreadInv
  <2> QED BY <2>1, <2>2 DEF LockAlive
<1> QED BY <1>1, Invariance, PTL

\* Lock and count of the device belong to its opens, whatever the order in which
\* clients open, call and close.
THEOREM LifeCycleCorrect == Spec => []LifeCycle
<1>1. OpenCountExact /\ LockAlive => LifeCycle
  BY DEF LifeCycle
<1> QED BY <1>1, CountCorrect, LockCorrect, PTL

\* LockInv is inductive together with IInv if clients keep out of each other's
\* AM_FEND_Lock.
THEOREM LockInvariance == ASSUME Exclusive PROVE Spec => []LockInv
<1>1. Init => LockInv
  BY CbAssumption, ActorAssumption
  DEF Init, LockInv, ExclusiveUse, BorrowInv, RegInv, Locking, Setting, Borrower,
      SetOps, Actors
<1>2. IInv /\ LockInv /\ [Next]_vars => LockInv'
  BY ExclusiveStep, BorrowStep, RegStep DEF LockInv
<1> QED BY <1>1, <1>2, Invariance, PTL DEF Spec

\* A registration that a client has replaced does not run until it is registered
\* again, AM_FEND_Lock or not.
THEOREM CallbackCorrect == ASSUME Exclusive PROVE Spec => []RetiredNeverRuns
<1>1. LockInv => RetiredNeverRuns
  BY DEF LockInv, RegInv, RetiredNeverRuns
<1> QED BY <1>1, LockInvariance, PTL

\* fend_lock_cb never uses the stack frame of an AM_FEND_Lock that has returned.
THEOREM LockParaCorrect == ASSUME Exclusive PROVE Spec => []LockParaAlive
<1>1. LockInv => LockParaAlive
  BY DEF LockInv, BorrowInv, LockParaAlive
<1> QED BY <1>1, LockInvariance, PTL

\* An AM_FEND_Lock that leaves its second loop has its own status.
LEMMA LockReturnsOwn ==
  ASSUME IInv, LockInv, [Next]_vars, NEW d \in Callers, Borrower(d), pc'[d] = "idle"
  PROVE  status[d] # NoEvt /\ status[d].freq = lockp[d].para.freq
<1> SUFFICES ASSUME ~(status[d] # NoEvt /\ status[d].freq = lockp[d].para.freq)
             PROVE  FALSE
  OBVIOUS
<1>t. pc \in [Actors -> CallPCs] /\ FendThread \notin Callers
  BY ActorAssumption DEF IInv, TypeOK
<1>d. pc[d] \in {"locked", "lockedwait"}
  BY DEF Borrower
<1> USE DEF Borrower, Actors, LockOps, device, driver, thread, calls, ghosts
<1>1. ASSUME NEW p \in Actors, NEW r \in Cbs \cup {NoCb}, CallSetCallback(p, r) PROVE FALSE
  BY <1>1, <1>t, <1>d DEF CallSetCallback, MayCall, Goto
<1>2. ASSUME NEW p \in Actors, NEW op \in LockOps \ {"SetCallback", "Lock"}, Call(p, op) PROVE FALSE
  BY <1>2, <1>t, <1>d DEF Call, MayCall, Goto
<1>3. ASSUME NEW p \in Actors, NEW m \in Modes, AM_FEND_SetMode(p, m) PROVE FALSE
  BY <1>3, <1>t, <1>d DEF AM_FEND_SetMode, dvb_set_mode, Return, Goto
<1>4. ASSUME NEW p \in Actors, NEW para \in Paras, AM_FEND_SetPara(p, para) PROVE FALSE
  BY <1>4, <1>t, <1>d DEF AM_FEND_SetPara, Return, Goto
<1>5. ASSUME NEW p \in Actors, NEW b \in BOOLEAN, AM_FEND_SetActionCallback(p, b) PROVE FALSE
  BY <1>5, <1>t, <1>d DEF AM_FEND_SetActionCallback, Return, Goto
<1>6. ASSUME NEW p \in Actors, AM_FEND_SetCallback(p) PROVE FALSE
  BY <1>6, <1>t, <1>d DEF AM_FEND_SetCallback, MustWait, Return, Goto
<1>7. ASSUME NEW p \in Actors, SetSameCallback(p) PROVE FALSE
  BY <1>7, <1>t, <1>d DEF SetSameCallback, Return, Goto
<1>8. ASSUME NEW c \in Callers, NEW para \in Paras, CallLock(c, para) PROVE FALSE
  BY <1>8, <1>t, <1>d DEF CallLock, MayCall, Goto
<1>9. ASSUME NEW c \in Callers, AM_FEND_Lock(c) PROVE FALSE
  BY <1>9, <1>t, <1>d DEF AM_FEND_Lock, Return, Goto
<1>10. ASSUME NEW c \in Callers, LockReturns(c) PROVE FALSE
  <2>1. CASE LockDone
    BY <1>d, <1>10, <1>t, <2>1 DEF LockDone, LockReturns, BorrowInv, LockInv, Return, Goto
  <2>2. CASE ~LockDone
    BY <1>d, <1>10, <1>t, <2>2 DEF LockReturns, Goto
  <2> QED BY <2>1, <2>2
<1>11. ASSUME NEW c \in Callers, Call(c, "Close") PROVE FALSE
  BY <1>11, <1>t, <1>d DEF Call, MayCall, Goto
<1>12. ASSUME NEW c \in Callers, AM_FEND_Close(c) PROVE FALSE
  BY <1>12, <1>t, <1>d DEF AM_FEND_Close, LastClose, CountClose, StopThread, Return, Goto
<1>13. ASSUME NEW c \in Callers, CloseJoined(c) PROVE FALSE
  BY <1>13, <1>t, <1>d DEF CloseJoined, CountClose, Return, Goto
<1>14. ASSUME NEW c \in Callers, SpuriousWakeup(c) PROVE FALSE
  BY <1>14, <1>t, <1>d DEF SpuriousWakeup, Awake, Goto
<1>15. ASSUME NEW c \in Callers, NEW m \in Modes, AM_FEND_Open(c, m) PROVE FALSE
  BY <1>15, <1>t, <1>d DEF AM_FEND_Open, CountOpen, dvb_set_mode
<1>16. ASSUME NEW c \in Callers, NEW m \in Modes, OpenFails(c, m) PROVE FALSE
  BY <1>16, <1>t, <1>d DEF OpenFails, dvb_set_mode
<1>17. ASSUME NEW e \in Events \cup {NoEvt}, WaitEvent(e) PROVE FALSE
  BY <1>17, <1>t, <1>d DEF WaitEvent, ThreadFrame
<1>18. CASE ThreadExit
  BY <1>18, <1>t, <1>d DEF ThreadExit, ThreadFrame
<1>19. CASE GotEvent
  BY <1>19, <1>t, <1>d DEF GotEvent, RaiseFlag, ThreadFrame
<1>20. CASE CallCallback
  BY <1>20, <1>t, <1>d DEF CallCallback, Enter, ThreadFrame
<1>21. ASSUME NEW c \in Callers, fend_lock_cb(c) PROVE FALSE
  BY <1>21, <1>t, <1>d DEF fend_lock_cb, Enter, fend_para_equal, ThreadFrame
<1>22. CASE CallbackReturns
  BY <1>22, <1>t, <1>d DEF CallbackReturns, ThreadFrame
<1>23. CASE LockBroadcast
  BY <1>23, <1>t, <1>d DEF LockBroadcast, WakeWaiters, Awake, ThreadFrame
<1>24. CASE ClearRunCb
  BY <1>24, <1>t, <1>d DEF ClearRunCb, ThreadFrame
<1>25. CASE Broadcast
  BY <1>25, <1>t, <1>d DEF Broadcast, WakeWaiters, Awake, ThreadFrame
<1>26. CASE UNCHANGED vars
  BY <1>26, <1>t, <1>d DEF vars
<1> QED
  BY <1>1, <1>2, <1>3, <1>4, <1>5, <1>6, <1>7, <1>8, <1>9, <1>10, <1>11,
     <1>12, <1>13, <1>14, <1>15, <1>16, <1>17, <1>18, <1>19, <1>20, <1>21, <1>22,
     <1>23, <1>24, <1>25, <1>26, NextCases

\* A successful AM_FEND_Lock returns a status of its own frequency.
THEOREM LockStatusCorrect == ASSUME Exclusive PROVE Spec => LockReportsOwnTuning
<1>1. IInv /\ LockInv /\ [Next]_vars =>
        [\A c \in Callers : Borrower(c) /\ pc'[c] = "idle" =>
            status[c] # NoEvt /\ status[c].freq = lockp[c].para.freq]_vars
  BY LockReturnsOwn
<1> QED BY <1>1, Invariance, LockInvariance, PTL DEF Spec, LockReportsOwnTuning

-----------------------------------------------------------------------------
(* The refinement of CallbackGate.                                         *)

inside == IF tpc = "incb" THEN running ELSE NoCb

\* A step that leaves the running callback alone and retires nothing further is a
\* gate step or a stutter.
LEMMA GateQuiet ==
  ASSUME IInv, LockInv, inside' = inside, retired' \subseteq retired
  PROVE  [Gate!Next]_(Gate!vars)
<1>1. retired' \in SUBSET Cbs /\ inside \notin retired'
  BY CbAssumption DEF IInv, TypeOK, LockInv, RegInv, inside
<1>2. Gate!Retire(retired')
  BY <1>1 DEF inside, Gate!Retire
<1> QED BY <1>1, <1>2 DEF Gate!Next

\* A callback that starts from outside is registered and not retired.
LEMMA GateBegin ==
  ASSUME NEW r \in Cbs, r \notin retired, tpc # "incb", tpc' = "incb",
         running' = r, retired' = retired
  PROVE  [Gate!Next]_(Gate!vars)
<1>1. Gate!Begin(r)
  BY DEF Gate!Begin
<1> QED BY <1>1 DEF Gate!Next

\* Every step of the frontend is a step of the gate or leaves it alone.
LEMMA GateStep ==
  ASSUME IInv, LockInv, [Next]_vars
  PROVE  [Gate!Next]_(Gate!vars)
<1> USE DEF device, driver, thread, calls, ghosts
<1>1. ASSUME NEW p \in Actors, AM_FEND_SetCallback(p)
      PROVE  [Gate!Next]_(Gate!vars)
  <2>1. UNCHANGED <<tpc, running>>
    BY <1>1 DEF AM_FEND_SetCallback
  <2>2. CASE retired' \subseteq retired
    BY <2>1, <2>2, GateQuiet DEF inside
  <2>3. CASE p # FendThread /\ ~MustWait(p) /\ retired' = Cbs \ {reg[p]}
    <3>1. ~run_cb
      BY <1>1, <2>3, ReplacedWhenQuiet DEF AM_FEND_SetCallback, Actors
    <3>2. tpc # "incb"
      BY <3>1 DEF IInv, ThreadInv
    <3>3. retired' \in SUBSET Cbs /\ NoCb \notin retired'
      BY <2>3, CbAssumption
    <3>4. Gate!Retire(retired')
      BY <2>1, <3>2, <3>3 DEF Gate!Retire
    <3> QED BY <3>3, <3>4 DEF Gate!Next
  <2> QED BY <1>1, <2>2, <2>3 DEF AM_FEND_SetCallback
<1>2. ASSUME NEW p \in Actors,
             \/ \E r \in Cbs \cup {NoCb} : CallSetCallback(p, r)
             \/ \E op \in LockOps \cup {"Close"} : Call(p, op)
             \/ \E m \in Modes : AM_FEND_SetMode(p, m)
             \/ \E para \in Paras : AM_FEND_SetPara(p, para)
             \/ \E b \in BOOLEAN : AM_FEND_SetActionCallback(p, b)
             \/ SetSameCallback(p)
      PROVE  [Gate!Next]_(Gate!vars)
  <2>1. inside' = inside /\ retired' \subseteq retired
    BY <1>2 DEF inside, CallSetCallback, Call, AM_FEND_SetMode, AM_FEND_SetPara,
                AM_FEND_SetActionCallback, SetSameCallback
  <2> QED BY <2>1, GateQuiet
<1>3. ASSUME NEW c \in Callers,
             \/ \E para \in Paras : CallLock(c, para)
             \/ AM_FEND_Lock(c) \/ LockReturns(c)
             \/ AM_FEND_Close(c) \/ CloseJoined(c) \/ SpuriousWakeup(c)
             \/ \E m \in Modes : AM_FEND_Open(c, m) \/ OpenFails(c, m)
      PROVE  [Gate!Next]_(Gate!vars)
  <2>1. inside' = inside /\ retired' \subseteq retired
    BY <1>3 DEF inside, CallLock, AM_FEND_Lock, LockReturns, AM_FEND_Close, CloseJoined,
                SpuriousWakeup, AM_FEND_Open, OpenFails, IInv, TypeOK, ThreadInv
  <2> QED BY <2>1, GateQuiet
<1>4. ASSUME NEW c \in Callers, fend_lock_cb(c)
      PROVE  [Gate!Next]_(Gate!vars)
  <2>1. /\ Borrower(c) /\ lockp[c].old \in Cbs \cup {NoCb}
        /\ lockp[c].old \notin retired /\ tpc = "lockcb" /\ retired' = retired
    BY <1>4 DEF fend_lock_cb, ThreadFrame, LockInv, BorrowInv, RegInv
  <2>2. tpc' = "incb" => running' = lockp[c].old /\ running' \in Cbs
    BY <1>4, <2>1, CbAssumption DEF fend_lock_cb, Enter
  <2>3. CASE tpc' = "incb"
    BY <2>1, <2>2, <2>3, GateBegin
  <2>4. CASE tpc' # "incb"
    BY <2>1, <2>4, GateQuiet DEF inside
  <2> QED BY <2>3, <2>4
<1>5. CASE CallCallback
  <2>1. tpc = "call" /\ cb \notin retired /\ retired' = retired
    BY <1>5 DEF CallCallback, ThreadFrame, LockInv, RegInv
  <2>2. tpc' = "incb" => running' = cb /\ cb \in Cbs
    BY <1>5 DEF CallCallback, Enter, IInv, TypeOK, Regs
  <2>3. CASE tpc' = "incb"
    BY <2>1, <2>2, <2>3, GateBegin
  <2>4. CASE tpc' # "incb"
    BY <2>1, <2>4, GateQuiet DEF inside
  <2> QED BY <2>3, <2>4
<1>6. CASE CallbackReturns
  <2>1. tpc = "incb" /\ tpc' # "incb" /\ retired' = retired /\ running \in Cbs
    BY <1>6 DEF CallbackReturns, ThreadFrame, LockInv, RegInv
  <2>2. Gate!End
    BY <2>1, CbAssumption DEF Gate!End
  <2> QED BY <2>2 DEF Gate!Next
<1>7. CASE \/ \E e \in Events \cup {NoEvt} : WaitEvent(e)
           \/ ThreadExit \/ GotEvent \/ LockBroadcast \/ ClearRunCb \/ Broadcast
           \/ UNCHANGED vars
  <2>1. inside' = inside /\ retired' \subseteq retired
    BY <1>7 DEF inside, WaitEvent, ThreadExit, GotEvent, LockBroadcast, ClearRunCb,
                Broadcast, ThreadFrame, vars
  <2> QED BY <2>1, GateQuiet
<1> QED
  BY <1>1, <1>2, <1>3, <1>4, <1>5, <1>6, <1>7, NextCases DEF Actors

\* The frontend implements CallbackGate: a registration that AM_FEND_SetCallback
\* has replaced is out of use when the call returns.
THEOREM Refinement == ASSUME Exclusive PROVE Spec => ImplementsGate
<1>1. Init => Gate!Init
  BY DEF Init, Gate!Init
<1>2. IInv /\ LockInv /\ [Next]_vars => [Gate!Next]_(Gate!vars)
  BY GateStep
<1> QED
  BY <1>1, <1>2, Invariance, LockInvariance, PTL DEF Spec, ImplementsGate, Gate!Spec

-----------------------------------------------------------------------------
(* The blind scan.                                                         *)

\* The next status after an event is never Exit: only Cancel ends the thread of a
\* scan that was started.
LEMMA AfterEventRange ==
  AfterEvent \subseteq {"Wait", "WaitExit", "User_Process"}
<1>1. CASE cur.kind \in {"startfreq", "result"}
  BY <1>1 DEF AfterEvent
<1>2. CASE cur.kind = "process" /\ hasCb
  BY <1>2 DEF AfterEvent, AfterComplete
<1>3. CASE cur.kind = "process" /\ ~hasCb
  BY <1>3 DEF AfterEvent, AfterComplete
<1>4. CASE cur.kind \notin {"startfreq", "result", "process"}
  BY <1>4 DEF AfterEvent
<1> QED BY <1>1, <1>2, <1>3, <1>4

\* What the driver reports has the type of an event, and a transponder is the one
\* after those of the scan so far.
LEMMA EventType ==
  ASSUME ScanTypeOK, NEW e \in ScanEvents
  PROVE  /\ e \in EventRec
         /\ e.kind = "result" => e.value = demod.sent + 1 /\ demod.sent < MaxReported
<1> USE PercentAssumption DEF EventRec
<1>t. demod.sent \in Nat
  BY ChannelAssumption DEF ScanTypeOK
<1>1. CASE e \in [kind : {"startfreq"}, value : {0}]
  BY <1>1
<1>2. CASE e \in [kind : {"process"}, value : Percents \cup {100}]
  <2>1. Percents \cup {100} \subseteq Nat
    OBVIOUS
  <2> QED BY <1>2, <2>1
<1>3. CASE e \in [kind : {"none"}, value : {0}]
  BY <1>3
<1>4. CASE demod.sent < MaxReported /\ e \in [kind : {"result"}, value : {demod.sent + 1}]
  BY <1>4, <1>t
<1> QED BY <1>1, <1>2, <1>3, <1>4 DEF ScanEvents

\* The disjuncts of Next.
LEMMA ScanNextCases ==
  ASSUME [ScanNext]_scan_vars
  PROVE  \/ \E c \in Clients :
              BlindScan(c) \/ BlindScanCreate(c) \/ BlindExit(c) \/ BlindExitJoined(c)
         \/ BlindGetProcess \/ LoopTop \/ StatusInit \/ StatusStart \/ StatusWait
         \/ StatusUserProcess \/ ScanCallbackReturns \/ StatusWaitExit \/ StatusCancel
         \/ UNCHANGED scan_vars
  BY DEF ScanNext, Client, Thread

-----------------------------------------------------------------------------
(* The blind scan: one lemma per part of the invariant.                    *)

\* AM_FEND_IBlindScanAPI_GetScanEvent counts a report and, if channels[] has room,
\* stores it behind the others.
LEMMA StoreStep ==
  ASSUME ScanInv, NEW e \in ScanEvents, demod.scan # 0, ~demod.stuck, e.kind = "result",
         Store(e), UNCHANGED scans
  PROVE  /\ count' = count + 1 /\ count' = e.value /\ count' \in 0 .. MaxReported
         /\ bsEvent' = e \/ bsEvent' \in Overrun
         /\ channels' \in [1 .. MaxChannel -> (0 .. MaxScans) \X (0 .. MaxReported)]
         /\ \A i \in 1 .. count' : i <= MaxChannel => channels'[i] = <<scans', i>>
<1> USE ChannelAssumption, ScanAssumption
<1>1. /\ count \in Nat /\ count < MaxReported
      /\ MaxReported \in Nat /\ MaxChannel \in Nat
      /\ e.value = count + 1 /\ demod.scan = scans
  BY EventType, SMTT(30) DEF ScanInv, ScanTypeOK, TableInv
<1>2. /\ channels \in [1 .. MaxChannel -> (0 .. MaxScans) \X (0 .. MaxReported)]
      /\ scans \in 0 .. MaxScans
      /\ \A i \in 1 .. count : i <= MaxChannel => channels[i] = <<scans, i>>
  BY DEF ScanInv, ScanTypeOK, TableInv
<1>3. /\ count' = count + 1 /\ count' \in 0 .. MaxReported
      /\ bsEvent' = e \/ bsEvent' \in Overrun
  BY <1>1 DEF Store
<1>4. CASE count >= MaxChannel
  <2>1. channels' = channels
    BY <1>1, <1>4 DEF Store
  <2>2. ASSUME NEW i \in 1 .. count', i <= MaxChannel PROVE channels'[i] = <<scans', i>>
    <3>1. i \in 1 .. count
      BY <1>1, <1>3, <1>4, <2>2
    <3> QED BY <1>2, <2>1, <2>2, <3>1
  <2> QED BY <1>1, <1>2, <1>3, <2>1, <2>2
<1>5. CASE count < MaxChannel
  <2>1. channels' = [channels EXCEPT ![count + 1] = <<scans, count + 1>>]
    BY <1>1, <1>5 DEF Store
  <2>2. <<scans, count + 1>> \in (0 .. MaxScans) \X (0 .. MaxReported)
    BY <1>1, <1>2
  <2>3. channels' \in [1 .. MaxChannel -> (0 .. MaxScans) \X (0 .. MaxReported)]
    BY <1>2, <2>1, <2>2
  <2>4. ASSUME NEW i \in 1 .. count' PROVE channels'[i] = <<scans', i>>
    <3>1. i \in 1 .. MaxChannel /\ (i \in 1 .. count \/ i = count + 1)
      BY <1>1, <1>3, <1>5
    <3>2. channels'[i] = IF i = count + 1 THEN <<scans, count + 1>> ELSE channels[i]
      BY <1>2, <2>1, <3>1
    <3> QED BY <1>1, <1>2, <3>1, <3>2
  <2> QED BY <1>1, <1>3, <2>3, <2>4
<1>6. count \in Nat /\ MaxChannel \in Nat
  BY <1>1
<1>7. count >= MaxChannel \/ count < MaxChannel
  BY <1>6
<1> QED BY <1>4, <1>5, <1>7

\* Types.
LEMMA ScanTypeStep ==
  ASSUME ScanInv, [ScanNext]_scan_vars
  PROVE  ScanTypeOK'
<1> USE ChannelAssumption, ScanAssumption, PercentAssumption
<1>t. ScanTypeOK
  BY DEF ScanInv
<1>1. ASSUME NEW c \in Clients, BlindScan(c) PROVE ScanTypeOK'
  <2>1. NoTP \in (0 .. MaxScans) \X (0 .. MaxReported)
    BY DEF NoTP
  <2>2. channels' \in [1 .. MaxChannel -> (0 .. MaxScans) \X (0 .. MaxReported)]
    BY <1>1, <2>1 DEF BlindScan, Initialize
  <2>3. bsEvent' \in EventRec
    BY <1>1 DEF BlindScan, Initialize, Cleared, EventRec
  <2>4. scans' \in 0 .. MaxScans /\ count' \in 0 .. MaxReported
    BY <1>1, <1>t DEF BlindScan, Initialize, ScanTypeOK
  <2> QED BY <1>1, <1>t, <2>2, <2>3, <2>4 DEF BlindScan, ScanTypeOK
<1>2. ASSUME NEW c \in Clients, BlindScanCreate(c) PROVE ScanTypeOK'
  BY <1>2, <1>t DEF BlindScanCreate, ScanTypeOK, setting
<1>3. ASSUME NEW c \in Clients, BlindExit(c) PROVE ScanTypeOK'
  BY <1>3, <1>t DEF BlindExit, ScanTypeOK, setting
<1>4. ASSUME NEW c \in Clients, BlindExitJoined(c) PROVE ScanTypeOK'
  BY <1>4, <1>t DEF BlindExitJoined, ScanTypeOK, setting
<1>5. CASE BlindGetProcess
  BY <1>5, <1>t DEF BlindGetProcess, ScanTypeOK, session, setting
<1>6. CASE LoopTop
  BY <1>6, <1>t DEF LoopTop, ScanTypeOK, session, setting
<1>7. CASE StatusInit
  BY <1>7, <1>t DEF StatusInit, ScanGoto, ScanTypeOK, session, setting
<1>8. CASE StatusStart
  <2>1. demod' \in [scan : 0 .. MaxScans, sent : 0 .. MaxReported, stuck : BOOLEAN]
    <3>1. demod' = demod \/ demod' = [scan |-> scans, sent |-> 0, stuck |-> FALSE]
      BY <1>8 DEF StatusStart
    <3>2. scans \in 0 .. MaxScans /\ 0 \in 0 .. MaxReported
      BY <1>t DEF ScanTypeOK
    <3>3. demod \in [scan : 0 .. MaxScans, sent : 0 .. MaxReported, stuck : BOOLEAN]
      BY <1>t DEF ScanTypeOK
    <3>4. \A b \in BOOLEAN : [scan |-> scans, sent |-> 0, stuck |-> b]
             \in [scan : 0 .. MaxScans, sent : 0 .. MaxReported, stuck : BOOLEAN]
      BY <3>2
    <3>5. [scan |-> scans, sent |-> 0, stuck |-> FALSE]
             \in [scan : 0 .. MaxScans, sent : 0 .. MaxReported, stuck : BOOLEAN]
      BY <3>4, Zenon
    <3> QED BY <3>1, <3>3, <3>5, Zenon
  <2>2. /\ BS_Status' \in {"Wait", "Exit"} /\ scan_thread' \in {"top", "exited"}
        /\ UNCHANGED <<session, cur, setting, shown>>
    BY <1>8 DEF StatusStart, ScanGoto
  <2> QED BY <1>t, <2>1, <2>2 DEF ScanTypeOK, session, setting
<1>9. CASE StatusWait
  <2>0. /\ BS_Status' \in {"Wait", "User_Process"} /\ scan_thread' = "top"
        /\ UNCHANGED <<session, shown>>
    BY <1>9 DEF StatusWait, ScanGoto
  <2>1. CASE UNCHANGED <<cur, setting, demod>>
    BY <1>t, <2>0, <2>1 DEF ScanTypeOK, session, setting
  <2>2. ASSUME NEW e \in ScanEvents, demod.scan # 0, cur' = e,
               e.kind = "result", Store(e), demod' = [demod EXCEPT !.sent = e.value]
        PROVE  ScanTypeOK'
    <3>0. ~demod.stuck
      BY <1>9 DEF StatusWait, ScanInv, ModeInv
    <3>1. /\ count' \in 0 .. MaxReported /\ e.value \in 0 .. MaxReported
          /\ bsEvent' = e \/ bsEvent' \in Overrun
          /\ channels' \in [1 .. MaxChannel -> (0 .. MaxScans) \X (0 .. MaxReported)]
      BY <2>0, <2>2, <3>0, StoreStep DEF session
    <3>2. demod' \in [scan : 0 .. MaxScans, sent : 0 .. MaxReported, stuck : BOOLEAN]
      BY <1>t, <2>2, <3>1 DEF ScanTypeOK
    <3>3. e \in EventRec
      BY <1>t, EventType
    <3>4. Overrun \subseteq EventRec
      BY DEF Overrun, EventRec
    <3>5. bsEvent' \in EventRec
      BY <3>1, <3>3, <3>4
    <3> QED BY <1>t, <2>0, <2>2, <3>1, <3>2, <3>3, <3>5 DEF ScanTypeOK, session
  <2>3. ASSUME NEW e \in ScanEvents, bsEvent' = e, cur' = e,
               UNCHANGED <<count, channels, demod>>
        PROVE  ScanTypeOK'
    <3>1. e \in EventRec
      BY <1>t, EventType
    <3> QED BY <1>t, <2>0, <2>3, <3>1 DEF ScanTypeOK, session
  <2> QED BY <1>9, <2>1, <2>2, <2>3 DEF StatusWait
<1>10. CASE StatusUserProcess
  <2>1. /\ BS_Status' \in {"Wait", "WaitExit", "User_Process"} /\ scan_thread' \in {"incb", "top"}
        /\ UNCHANGED <<session, cur, setting, demod, shown>>
    BY <1>10, AfterEventRange DEF StatusUserProcess, ScanGoto
  <2> QED BY <1>t, <2>1 DEF ScanTypeOK, session, setting
<1>11. CASE ScanCallbackReturns
  <2>1. /\ BS_Status' \in {"Wait", "WaitExit", "User_Process"} /\ scan_thread' = "top"
        /\ UNCHANGED <<session, cur, setting, demod, shown>>
    BY <1>11, AfterEventRange DEF ScanCallbackReturns, ScanGoto
  <2> QED BY <1>t, <2>1 DEF ScanTypeOK, session, setting
<1>12. CASE StatusWaitExit
  BY <1>12, <1>t DEF StatusWaitExit, ScanGoto, ScanTypeOK, session, setting
<1>13. CASE StatusCancel
  <2>1. demod' \in [scan : 0 .. MaxScans, sent : 0 .. MaxReported, stuck : BOOLEAN]
    <3>1. demod \in [scan : 0 .. MaxScans, sent : 0 .. MaxReported, stuck : BOOLEAN]
      BY <1>t DEF ScanTypeOK
    <3>2. 0 \in 0 .. MaxScans
      OBVIOUS
    <3>3. CASE demod' = [demod EXCEPT !.scan = 0, !.stuck = FALSE]
      BY <3>1, <3>2, <3>3
    <3>4. CASE demod' = [demod EXCEPT !.stuck = TRUE]
      BY <3>1, <3>4
    <3> QED BY <1>13, <3>3, <3>4 DEF StatusCancel
  <2>2. /\ BS_Status' = "Exit" /\ scan_thread' = "exited"
        /\ UNCHANGED <<session, cur, setting, shown>>
    BY <1>13 DEF StatusCancel, ScanGoto
  <2> QED BY <1>t, <2>1, <2>2 DEF ScanTypeOK, session, setting
<1>14. CASE UNCHANGED scan_vars
  BY <1>14, <1>t DEF scan_vars, ScanTypeOK
<1> QED BY ScanNextCases, <1>1, <1>2, <1>3, <1>4, <1>5, <1>6, <1>7, <1>8, <1>9, <1>10,
           <1>11, <1>12, <1>13, <1>14

\* The lock, the scan in progress and the thread's life time.
LEMMA SessionStep ==
  ASSUME ScanInv, [ScanNext]_scan_vars
  PROVE  SessionInv'
<1> USE ClientAssumption DEF SessionInv
<1>t. /\ SessionInv /\ scan_pc \in [Clients -> {"idle", "ranged", "join"}]
      /\ adpLock \in Clients \cup {"free"} /\ active \in BOOLEAN
  BY DEF ScanInv, ScanTypeOK
<1>1. ASSUME NEW c \in Clients, BlindScan(c) PROVE SessionInv'
  BY <1>1, <1>t DEF BlindScan
<1>2. ASSUME NEW c \in Clients, BlindScanCreate(c) PROVE SessionInv'
  BY <1>2, <1>t DEF BlindScanCreate
<1>3. ASSUME NEW c \in Clients, BlindExit(c) PROVE SessionInv'
  BY <1>3, <1>t DEF BlindExit
<1>4. ASSUME NEW c \in Clients, BlindExitJoined(c) PROVE SessionInv'
  BY <1>4, <1>t DEF BlindExitJoined, Joined
<1>5. CASE BlindGetProcess
  BY <1>5, <1>t DEF BlindGetProcess, session
<1>6. CASE scan_thread \in {"top", "body", "incb"} /\ UNCHANGED session
  BY <1>6, <1>t DEF session
<1>7. CASE UNCHANGED scan_vars
  BY <1>7, <1>t DEF scan_vars
<1>8. LoopTop \/ StatusInit \/ StatusStart \/ StatusWait \/ StatusUserProcess
        \/ ScanCallbackReturns \/ StatusWaitExit \/ StatusCancel
      => scan_thread \in {"top", "body", "incb"} /\ UNCHANGED session
  BY DEF LoopTop, StatusInit, StatusStart, StatusWait, StatusUserProcess,
         ScanCallbackReturns, StatusWaitExit, StatusCancel
<1> QED BY ScanNextCases, <1>1, <1>2, <1>3, <1>4, <1>5, <1>6, <1>7, <1>8

\* The mode of the demodulator.
LEMMA ModeStep ==
  ASSUME ScanInv, [ScanNext]_scan_vars
  PROVE  ModeInv'
<1> USE DEF ModeInv
<1>t. ModeInv /\ SessionInv /\ active \in BOOLEAN
  BY DEF ScanInv, ScanTypeOK
<1>d. /\ demod \in [scan : 0 .. MaxScans, sent : 0 .. MaxReported, stuck : BOOLEAN]
      /\ scan_thread \in {"none", "top", "body", "incb", "exited"}
  BY DEF ScanInv, ScanTypeOK
<1>1. ASSUME NEW c \in Clients, BlindScan(c) PROVE ModeInv'
  BY <1>1, <1>t DEF BlindScan
<1>2. ASSUME NEW c \in Clients, BlindScanCreate(c) PROVE ModeInv'
  BY <1>2, <1>t, <1>d DEF BlindScanCreate, SessionInv
<1>3. ASSUME NEW c \in Clients, BlindExit(c) PROVE ModeInv'
  BY <1>3, <1>t DEF BlindExit
<1>4. ASSUME NEW c \in Clients, BlindExitJoined(c) PROVE ModeInv'
  BY <1>4, <1>t DEF BlindExitJoined
<1>5. CASE BlindGetProcess
  BY <1>5, <1>t DEF BlindGetProcess
<1>6. CASE LoopTop
  BY <1>6, <1>t DEF LoopTop
<1>7. CASE StatusInit
  BY <1>7, <1>t DEF StatusInit, ScanGoto
<1>8. CASE StatusStart
  BY <1>8, <1>t, <1>d DEF StatusStart, ScanGoto
<1>9. CASE StatusWait
  <2>1. /\ BS_Status = "Wait" /\ BS_Status' \in {"Wait", "User_Process"} /\ scan_thread' = "top"
    BY <1>9 DEF StatusWait, ScanGoto
  <2>2. demod'.stuck = demod.stuck
    BY <1>9, <1>d DEF StatusWait
  <2> QED BY <1>t, <2>1, <2>2
<1>10. CASE StatusUserProcess
  BY <1>10, <1>t, AfterEventRange DEF StatusUserProcess, ScanGoto
<1>11. CASE ScanCallbackReturns
  BY <1>11, <1>t, AfterEventRange DEF ScanCallbackReturns, ScanGoto
<1>12. CASE StatusWaitExit
  BY <1>12, <1>t DEF StatusWaitExit, ScanGoto
<1>13. CASE StatusCancel
  BY <1>13, <1>t, <1>d DEF StatusCancel, ScanGoto
<1>14. CASE UNCHANGED scan_vars
  BY <1>14, <1>t DEF scan_vars
<1> QED BY ScanNextCases, <1>1, <1>2, <1>3, <1>4, <1>5, <1>6, <1>7, <1>8, <1>9, <1>10,
           <1>11, <1>12, <1>13, <1>14

\* The table of transponders.
LEMMA TableStep ==
  ASSUME ScanInv, [ScanNext]_scan_vars
  PROVE  TableInv'
<1> USE DEF TableInv
<1>t. TableInv /\ ModeInv /\ SessionInv /\ ScanTypeOK
  BY DEF ScanInv
<1>d. /\ demod \in [scan : 0 .. MaxScans, sent : 0 .. MaxReported, stuck : BOOLEAN]
      /\ scan_thread \in {"none", "top", "body", "incb", "exited"}
      /\ scan_pc \in [Clients -> {"idle", "ranged", "join"}]
      /\ active \in BOOLEAN
  BY DEF ScanInv, ScanTypeOK
<1>1. ASSUME NEW c \in Clients, BlindScan(c) PROVE TableInv'
  <2>1. scan_thread \in {"none", "exited"} /\ (demod.scan = 0 \/ demod.stuck)
    BY <1>1, <1>t, <1>d DEF BlindScan, SessionInv, ModeInv
  <2>2. count' = 0 /\ UNCHANGED <<scan_thread, demod>>
    BY <1>1 DEF BlindScan, Initialize
  <2> QED BY <2>1, <2>2
<1>2. ASSUME NEW c \in Clients, BlindScanCreate(c) PROVE TableInv'
  <2>1. count = 0 /\ UNCHANGED <<count, channels, scans, demod>>
    BY <1>2, <1>t DEF BlindScanCreate, setting
  <2>2. scan_thread \in {"none", "exited"} /\ (demod.scan = 0 \/ demod.stuck)
    BY <1>2, <1>t, <1>d DEF BlindScanCreate, SessionInv, ModeInv
  <2> QED BY <2>1, <2>2
<1>3. ASSUME NEW c \in Clients, BlindExit(c) PROVE TableInv'
  BY <1>3, <1>t, <1>d DEF BlindExit, setting
<1>4. ASSUME NEW c \in Clients, BlindExitJoined(c) PROVE TableInv'
  BY <1>4, <1>t, <1>d DEF BlindExitJoined, setting
<1>5. CASE BlindGetProcess
  BY <1>5, <1>t DEF BlindGetProcess, session, setting
<1>6. CASE LoopTop
  BY <1>6, <1>t DEF LoopTop, session, setting
<1>7. CASE StatusInit
  BY <1>7, <1>t DEF StatusInit, ScanGoto, session, setting
<1>8. CASE StatusStart
  <2>1. /\ count = 0 /\ (demod.scan = 0 \/ demod.stuck)
        /\ UNCHANGED <<scan_pc, count, channels, scans>>
    BY <1>8, <1>t DEF StatusStart, ModeInv, session, setting
  <2>2. /\ BS_Status' \in {"Wait", "Exit"}
        /\ demod' = demod \/ demod' = [scan |-> scans, sent |-> 0, stuck |-> FALSE]
    BY <1>8 DEF StatusStart, ScanGoto
  <2> QED BY <1>t, <2>1, <2>2
<1>9. CASE StatusWait
  <2>0. BS_Status' \in {"Wait", "User_Process"} /\ UNCHANGED <<scan_pc, scans, active>>
    BY <1>9 DEF StatusWait, ScanGoto, session
  <2>r. \A c \in Clients : scan_pc[c] # "ranged"
    BY <1>9, <1>t DEF StatusWait, SessionInv
  <2>1. CASE UNCHANGED <<cur, setting, demod>>
    BY <1>t, <2>0, <2>1 DEF setting
  <2>2. ASSUME NEW e \in ScanEvents, demod.scan # 0,
               e.kind = "result", Store(e), demod' = [demod EXCEPT !.sent = e.value]
        PROVE  TableInv'
    <3>0. ~demod.stuck
      BY <1>9, <1>t DEF StatusWait, ModeInv
    <3>1. /\ count' = e.value
          /\ \A i \in 1 .. count' : i <= MaxChannel => channels'[i] = <<scans', i>>
      BY <2>0, <2>2, <3>0, StoreStep
    <3>2. demod'.scan = scans' /\ demod'.sent = count'
      BY <1>t, <1>d, <2>0, <2>2, <3>0, <3>1
    <3> QED BY <2>0, <2>r, <3>1, <3>2
  <2>3. CASE UNCHANGED <<count, channels, demod>>
    BY <1>t, <2>0, <2>3
  <2> QED BY <1>9, <2>1, <2>2, <2>3 DEF StatusWait
<1>10. CASE StatusUserProcess
  BY <1>10, <1>t, AfterEventRange DEF StatusUserProcess, ScanGoto, session, setting
<1>11. CASE ScanCallbackReturns
  BY <1>11, <1>t, AfterEventRange DEF ScanCallbackReturns, ScanGoto, session, setting
<1>12. CASE StatusWaitExit
  BY <1>12, <1>t DEF StatusWaitExit, ScanGoto, session, setting
<1>13. CASE StatusCancel
  BY <1>13, <1>t, <1>d DEF StatusCancel, ScanGoto, session, setting
<1>14. CASE UNCHANGED scan_vars
  BY <1>14, <1>t DEF scan_vars
<1> QED BY ScanNextCases, <1>1, <1>2, <1>3, <1>4, <1>5, <1>6, <1>7, <1>8, <1>9, <1>10,
           <1>11, <1>12, <1>13, <1>14

-----------------------------------------------------------------------------
(* The blind scan: the theorems.                                           *)

\* The inductive invariant holds in every reachable state.
THEOREM ScanInvariance == ScanSpec => []ScanInv
<1> USE ChannelAssumption, ScanAssumption
<1>1. ScanInit => ScanTypeOK
  <2> SUFFICES ASSUME ScanInit PROVE ScanTypeOK
    OBVIOUS
  <2>1. NoTP \in (0 .. MaxScans) \X (0 .. MaxReported)
    BY DEF NoTP
  <2>2. channels \in [1 .. MaxChannel -> (0 .. MaxScans) \X (0 .. MaxReported)]
    BY <2>1 DEF ScanInit
  <2>3. Cleared \in EventRec
    BY DEF Cleared, EventRec
  <2>4. demod \in [scan : 0 .. MaxScans, sent : 0 .. MaxReported, stuck : BOOLEAN]
    BY DEF ScanInit
  <2>5. /\ scan_pc \in [Clients -> {"idle", "ranged", "join"}]
        /\ adpLock \in Clients \cup {"free"}
    BY DEF ScanInit
  <2>6. scans \in 0 .. MaxScans /\ count \in 0 .. MaxReported
    BY DEF ScanInit
  <2>7. /\ active \in BOOLEAN /\ enable \in BOOLEAN /\ hasCb \in BOOLEAN
        /\ scan_thread = "none" /\ BS_Status = "Exit"
        /\ cur = Cleared /\ bsEvent = Cleared /\ shown = Cleared
    BY DEF ScanInit
  <2> QED BY <2>2, <2>3, <2>4, <2>5, <2>6, <2>7 DEF ScanTypeOK
<1>2. ScanInit => SessionInv
  BY ClientAssumption DEF ScanInit, SessionInv
<1>3. ScanInit => ModeInv /\ TableInv
  BY DEF ScanInit, ModeInv, TableInv
<1>4. ScanInv /\ [ScanNext]_scan_vars => ScanInv'
  BY ScanTypeStep, SessionStep, ModeStep, TableStep DEF ScanInv
<1> QED BY <1>1, <1>2, <1>3, <1>4, PTL DEF ScanSpec, ScanInv

\* Over any number of scans the transponders counted are at most those the driver
\* reports in one, and every variable of the blind scan keeps its type.
THEOREM ScanTypeCorrect == ScanSpec => []ScanTypeOK
<1>1. ScanInv => ScanTypeOK
  BY DEF ScanInv
<1> QED BY <1>1, ScanInvariance, PTL

\* AM_FEND_BlindGetTPInfo returns transponders of the latest scan only, in the
\* order in which the driver reported them.
THEOREM TableCorrect == ScanSpec => []TPsExact
<1>1. ScanInv => TPsExact
  <2> SUFFICES ASSUME ScanInv, NEW n \in 0 .. MaxChannel, NEW i \in DOMAIN TPInfo(n)
               PROVE  TPInfo(n)[i] = <<scans, i>>
    BY DEF TPsExact
  <2> DEFINE m == IF n > count THEN count ELSE n
  <2>1. count \in Nat /\ n \in Nat
    BY ChannelAssumption DEF ScanInv, ScanTypeOK
  <2>2. m \in Nat /\ m <= count /\ m <= n
    BY <2>1
  <2>3. TPInfo(n) = [j \in 1 .. m |-> channels[j]]
    BY DEF TPInfo
  <2> HIDE DEF m
  <2>4. i \in 1 .. m /\ TPInfo(n)[i] = channels[i]
    BY <2>3
  <2>5. i \in 1 .. count /\ i <= MaxChannel
    BY <2>1, <2>2, <2>4, ChannelAssumption
  <2> QED BY <2>4, <2>5 DEF ScanInv, TableInv
<1> QED BY <1>1, ScanInvariance, PTL

\* No scan callback runs before AM_FEND_BlindScan or after AM_FEND_BlindExit.
THEOREM ScanCallbackCorrect == ScanSpec => []CallbackInScan
<1>1. ScanInv => CallbackInScan
  BY DEF ScanInv, SessionInv, CallbackInScan
<1> QED BY <1>1, ScanInvariance, PTL

\* When AM_FEND_BlindExit has returned the demodulator is out of blind scan mode,
\* unless it refused to leave it when the thread told it to.
THEOREM DemodCorrect == ScanSpec => []DemodRestored
<1>1. ScanInv => DemodRestored
  BY DEF ScanInv, ScanTypeOK, SessionInv, ModeInv, DemodRestored
<1> QED BY <1>1, ScanInvariance, PTL
=============================================================================
