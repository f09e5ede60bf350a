---------------------------- MODULE AmDmxProofs ----------------------------
(***************************************************************************)
(* Theorems about AmDmx for any number of filters, clients, registrations  *)
(* and sources.  The inductive invariant is IInv: the device's reference   *)
(* count is exact, which makes the life time of the lock and of the data   *)
(* thread that of the opens (ThreadInv), which makes DMX_FL_RUN_CB cover   *)
(* every callback (CbInv).                                                 *)
(***************************************************************************)
EXTENDS AmDmx, FiniteSetTheorems, TLAPS

\* A client that holds an open makes the reference count positive, and the
\* count goes up and down by one with the set of holders.
LEMMA HolderCount ==
  ASSUME TypeOK, OpenCountExact, NEW c \in Callers
  PROVE  /\ open_count \in Nat
         /\ ref[c] => open_count >= 1
         /\ ~ref[c] => Cardinality(Holders \cup {c}) = open_count + 1
         /\ ref[c] => Cardinality(Holders \ {c}) = open_count - 1
         /\ \A d \in Callers : ref[c] /\ ref[d] /\ open_count = 1 => c = d
<1>1. IsFiniteSet(Holders)
  BY FS_Subset, ActorAssumption, Holders \in SUBSET Callers DEF Holders
<1>2. /\ Cardinality(Holders \cup {c}) =
           IF c \in Holders THEN Cardinality(Holders) ELSE Cardinality(Holders) + 1
      /\ IsFiniteSet(Holders \ {c})
      /\ Cardinality(Holders \ {c}) =
           IF c \in Holders THEN Cardinality(Holders) - 1 ELSE Cardinality(Holders)
  <2>1. IsFiniteSet(Holders) => Cardinality(Holders \cup {c}) =
           IF c \in Holders THEN Cardinality(Holders) ELSE Cardinality(Holders) + 1
    BY FS_AddElement
  <2>2. IsFiniteSet(Holders) =>
          /\ IsFiniteSet(Holders \ {c})
          /\ Cardinality(Holders \ {c}) =
               IF c \in Holders THEN Cardinality(Holders) - 1
                                ELSE Cardinality(Holders)
    BY FS_RemoveElement
  <2> QED BY <1>1, <2>1, <2>2
<1>3. open_count = Cardinality(Holders) /\ open_count \in Nat
  BY DEF TypeOK, OpenCountExact
<1>4. c \in Holders <=> ref[c]
  BY DEF Holders, TypeOK
<1>5. Cardinality(Holders) = 0 <=> Holders = {}
  BY <1>1, FS_EmptySet
<1>6. Cardinality(Holders \ {c}) = 0 <=> Holders \ {c} = {}
  BY <1>2, FS_EmptySet
<1>7. ref[c] => open_count >= 1
  BY <1>3, <1>4, <1>5
<1>8. ASSUME NEW d \in Callers, ref[c], ref[d], open_count = 1 PROVE c = d
  <2>1. Holders \ {c} = {}
    BY <1>2, <1>3, <1>4, <1>6, <1>8
  <2>2. d \in Holders
    BY <1>8 DEF Holders
  <2> QED BY <2>1, <2>2
<1> QED BY <1>2, <1>3, <1>4, <1>7, <1>8

-----------------------------------------------------------------------------
\* Opening and closing change the set of holders by the one client that calls.
LEMMA HoldersStep ==
  ASSUME TypeOK, NEW c \in Callers
  PROVE  /\ ref' = [ref EXCEPT ![c] = TRUE] => Holders' = Holders \cup {c}
         /\ ref' = [ref EXCEPT ![c] = FALSE] => Holders' = Holders \ {c}
  BY DEF TypeOK, Holders

\* Every other step leaves the set of holders alone.
LEMMA HoldersSame == ref' = ref => Holders' = Holders
  BY DEF Holders

-----------------------------------------------------------------------------
(* The six filter functions are alike for the invariant: one critical      *)
(* section that returns, with some well-typed filter table.                *)

\* A slot and its descriptor change together.
SlotAndFd ==
  \A g \in Fid : \/ /\ filters'[g].used = filters[g].used
                    /\ fd'[g] = fd[g]
                 \/ filters'[g].used /\ fd'[g]
                 \/ ~filters'[g].used /\ ~fd'[g]

FilterOp(p) ==
  /\ pc[p] \in LockOps
  /\ pc' = [pc EXCEPT ![p] = "idle"]
  /\ filters' \in [Fid -> FilterRec]
  /\ fd' \in [Fid -> BOOLEAN]
  /\ crashed' \in BOOLEAN
  /\ SlotAndFd
  /\ FilterFrame

\* Each of the filter functions of am_dmx.c is a FilterOp.
LEMMA FilterOps ==
  ASSUME TypeOK, NEW p \in Actors, NEW f \in Fid, NEW cb \in Cbs \cup {NoCb},
         \/ AM_DMX_AllocateFilter(p)
         \/ AM_DMX_SetFilter(p, f)
         \/ AM_DMX_FreeFilter(p, f)
         \/ AM_DMX_StartFilter(p, f)
         \/ AM_DMX_StopFilter(p, f)
         \/ AM_DMX_SetCallback(p, f, cb)
  PROVE  FilterOp(p)
<1> USE DEF TypeOK, FilterRec, LockOps, FilterOp, Return, Goto
<1>1. CASE AM_DMX_AllocateFilter(p)
  <2>1. CASE UNCHANGED <<filters, fd>>
    BY <1>1, <2>1 DEF AM_DMX_AllocateFilter, SlotAndFd
  <2>2. ASSUME NEW g \in Fid,
               filters' = [filters EXCEPT ![g].used = TRUE],
               fd' = [fd EXCEPT ![g] = TRUE]
        PROVE  FilterOp(p)
    <3>1. filters' \in [Fid -> FilterRec]
      BY <2>2
    <3>2. fd' \in [Fid -> BOOLEAN]
      BY <2>2
    <3>3. SlotAndFd
      BY <2>2 DEF SlotAndFd
    <3> QED BY <1>1, <3>1, <3>2, <3>3 DEF AM_DMX_AllocateFilter
  <2> QED BY <1>1, <2>1, <2>2 DEF AM_DMX_AllocateFilter
<1>2. CASE AM_DMX_SetFilter(p, f)
  <2>1. SlotAndFd
    BY <1>2 DEF AM_DMX_SetFilter, dmx_stop_filter, SlotAndFd
  <2> QED BY <1>2, <2>1 DEF AM_DMX_SetFilter, dmx_stop_filter
<1>3. CASE AM_DMX_FreeFilter(p, f)
  <2>1. PICK stopped \in BOOLEAN :
          IF filters[f].used
            THEN /\ filters' = [filters EXCEPT ![f] = dmx_free_filter(@, stopped)]
                 /\ fd' = [fd EXCEPT ![f] = @ /\ ~stopped]
            ELSE UNCHANGED <<filters, fd>>
    BY <1>3 DEF AM_DMX_FreeFilter, dvb_free_filter
  <2>2. dmx_free_filter(filters[f], stopped) \in FilterRec
    BY ZenonT(30) DEF dmx_free_filter, dmx_stop_filter
  <2>3. filters' \in [Fid -> FilterRec]
    BY <2>1, <2>2
  <2>4. fd' \in [Fid -> BOOLEAN]
    BY <2>1
  <2>5. dmx_free_filter(filters[f], stopped).used = (filters[f].used /\ ~stopped)
    BY DEF dmx_free_filter, dmx_stop_filter
  <2>6. SlotAndFd
    BY <2>1, <2>2, <2>5 DEF SlotAndFd
  <2> QED BY <1>3, <2>3, <2>4, <2>6 DEF AM_DMX_FreeFilter
<1>4. CASE AM_DMX_StartFilter(p, f)
  <2>1. SlotAndFd
    BY <1>4 DEF AM_DMX_StartFilter, SlotAndFd
  <2> QED BY <1>4, <2>1, ZenonT(30) DEF AM_DMX_StartFilter
<1>5. CASE AM_DMX_StopFilter(p, f)
  <2>1. SlotAndFd
    BY <1>5 DEF AM_DMX_StopFilter, dmx_stop_filter, SlotAndFd
  <2> QED BY <1>5, <2>1 DEF AM_DMX_StopFilter, dmx_stop_filter
<1>6. CASE AM_DMX_SetCallback(p, f, cb)
  <2>1. SlotAndFd
    BY <1>6 DEF AM_DMX_SetCallback, SlotAndFd
  <2> QED BY <1>6, <2>1 DEF AM_DMX_SetCallback
<1> QED BY <1>1, <1>2, <1>3, <1>4, <1>5, <1>6

\* The disjuncts of Next, with the filter functions folded into FilterOp.
LEMMA NextCases ==
  ASSUME TypeOK, [Next]_vars
  PROVE  \/ \E p \in Actors : \/ FilterOp(p)
                              \/ \E op \in LockOps : Call(p, op)
                              \/ \E s \in Sources : AM_DMX_SetSource(p, s)
                              \/ StoreSource(p)
                              \/ AM_DMX_Sync(p)
         \/ \E c \in Callers : \/ AM_DMX_Open(c)
                               \/ OpenFails(c)
                               \/ Call(c, "Close")
                               \/ AM_DMX_Close(c)
                               \/ CloseJoined(c)
                               \/ SpuriousWakeup(c)
         \/ PollBegin \/ PollEnd \/ SetRunCb \/ NextFilter \/ ReadFilter
         \/ CallbackReturns \/ ClearRunCb \/ Broadcast
         \/ UNCHANGED vars
<1>1. ASSUME NEW p \in Actors, Body(p)
      PROVE  \/ FilterOp(p)
             \/ \E s \in Sources : AM_DMX_SetSource(p, s)
             \/ StoreSource(p)
             \/ AM_DMX_Sync(p)
  <2>1. CASE AM_DMX_AllocateFilter(p)
    <3>1. 0 \in Fid /\ NoCb \in Cbs \cup {NoCb}
      BY FilterAssumption DEF Fid
    <3> QED BY <2>1, <3>1, FilterOps
  <2>2. CASE \E f \in Fid : \/ AM_DMX_SetFilter(p, f)
                            \/ AM_DMX_FreeFilter(p, f)
                            \/ AM_DMX_StartFilter(p, f)
                            \/ AM_DMX_StopFilter(p, f)
                            \/ \E cb \in Cbs \cup {NoCb} : AM_DMX_SetCallback(p, f, cb)
    BY <2>2, FilterOps
  <2> QED BY <1>1, <2>1, <2>2 DEF Body
<1> QED BY <1>1 DEF Next, Running, Halted, Close, dmx_data_thread

-----------------------------------------------------------------------------
(* The inductive steps, one per part of IInv.                        *)

\* Types are kept; the count stays a natural number because a closer holds an
\* open.
LEMMA TypeStep ==
  ASSUME TypeOK, OpenCountExact, [Next]_vars
  PROVE  TypeOK'
<1>n. ASSUME NEW c \in Callers, ref[c] PROVE open_count - 1 \in Nat
  <2>1. open_count \in Nat /\ open_count >= 1
    BY <1>n, HolderCount
  <2> QED BY <2>1
<1> USE DEF TypeOK, Actors, CallPCs, LockOps, ThreadPCs, device, driver, thread, calls, ghosts
<1>1. ASSUME NEW p \in Actors, FilterOp(p) PROVE TypeOK'
  BY <1>1 DEF FilterOp, FilterFrame
<1>2. ASSUME NEW p \in Actors, NEW op \in LockOps, Call(p, op) PROVE TypeOK'
  BY <1>2 DEF Call, MayCall, Goto
<1>3. ASSUME NEW p \in Actors, NEW s \in Sources, AM_DMX_SetSource(p, s) PROVE TypeOK'
  BY <1>3 DEF AM_DMX_SetSource, Goto, Return
<1>4. ASSUME NEW p \in Actors, StoreSource(p) PROVE TypeOK'
  BY <1>4 DEF StoreSource, Goto, Return
<1>5. ASSUME NEW p \in Actors, AM_DMX_Sync(p) PROVE TypeOK'
  BY <1>5 DEF AM_DMX_Sync, MustWait, Goto, Return
<1>6. ASSUME NEW c \in Callers, AM_DMX_Open(c) PROVE TypeOK'
  <2>1. /\ open_count' \in Nat /\ fd' \in [Fid -> BOOLEAN]
        /\ enable_thread' \in BOOLEAN /\ run_cb' \in BOOLEAN
        /\ lock_live' \in BOOLEAN /\ tpc' \in ThreadPCs
    <3>1. CASE open_count > 0
      BY <1>6, <3>1 DEF AM_DMX_Open, StartThread, CountOpen
    <3>2. CASE ~(open_count > 0)
      <4>1. /\ open_count' = 1 /\ fd' = [f \in Fid |-> FALSE] /\ tpc' = "poll"
            /\ enable_thread' = TRUE /\ run_cb' = FALSE /\ lock_live' = TRUE
        BY <1>6, <3>2 DEF AM_DMX_Open, StartThread, CountOpen
      <4> QED BY <4>1
    <3> QED BY <3>1, <3>2
  <2>2. ref' \in [Callers -> BOOLEAN]
    BY <1>6 DEF AM_DMX_Open, StartThread, CountOpen
  <2> QED BY <1>6, <2>1, <2>2 DEF AM_DMX_Open, StartThread, CountOpen
<1>7. ASSUME NEW c \in Callers, OpenFails(c) PROVE TypeOK'
  BY <1>7 DEF OpenFails, StartThread
<1>8. ASSUME NEW c \in Callers, Call(c, "Close") PROVE TypeOK'
  BY <1>8 DEF Call, MayCall, Goto
<1>9. ASSUME NEW c \in Callers, AM_DMX_Close(c) PROVE TypeOK'
  <2>0. ref[c]
    BY <1>9 DEF OpenCountExact, AM_DMX_Close
  <2>1. open_count - 1 \in Nat
    BY <2>0, <1>n
  <2> QED BY <1>9, <2>1 DEF AM_DMX_Close, LastClose, StopThread, Goto, Return
<1>10. ASSUME NEW c \in Callers, CloseJoined(c) PROVE TypeOK'
  <2>0. ref[c]
    BY <1>10 DEF OpenCountExact, CloseJoined
  <2>1. open_count - 1 \in Nat
    BY <2>0, <1>n
  <2>2. filters' \in [Fid -> FilterRec]
    BY <1>10, ZenonT(30) DEF CloseJoined, FilterRec, dmx_free_filter, dmx_stop_filter
  <2> QED BY <1>10, <2>1, <2>2 DEF CloseJoined, Goto, Return
<1>11. ASSUME NEW c \in Callers, SpuriousWakeup(c) PROVE TypeOK'
  BY <1>11 DEF SpuriousWakeup, Goto
<1>12. CASE PollBegin
  BY <1>12 DEF PollBegin, dvb_poll, ThreadFrame
<1>13. CASE PollEnd
  <2>1. mask' \subseteq Fid
    BY <1>13 DEF PollEnd
  <2> QED BY <1>13, <2>1 DEF PollEnd, ThreadFrame
<1>14. CASE SetRunCb
  BY <1>14 DEF SetRunCb, RaiseFlag, ThreadFrame
<1>15. CASE NextFilter
  BY <1>15 DEF NextFilter, ThreadFrame
<1>16. CASE ReadFilter
  <2>1. cur_cb' \in Cbs \cup {NoCb}
    BY <1>16 DEF ReadFilter, FilterRec
  <2> QED BY <1>16, <2>1 DEF ReadFilter, ThreadFrame
<1>17. CASE CallbackReturns
  BY <1>17 DEF CallbackReturns, ThreadFrame
<1>18. CASE ClearRunCb
  BY <1>18 DEF ClearRunCb, ThreadFrame
<1>19. CASE Broadcast
  BY <1>19 DEF Broadcast, WakeWaiters, ThreadFrame
<1>20. CASE UNCHANGED vars
  BY <1>20 DEF vars
<1> QED
  BY <1>1, <1>2, <1>3, <1>4, <1>5, <1>6, <1>7, <1>8, <1>9, <1>10, <1>11,
     <1>12, <1>13, <1>14, <1>15, <1>16, <1>17, <1>18, <1>19, <1>20, NextCases

\* The reference count stays exact and am_gAdpLock with the closer in join.
LEMMA CountStep ==
  ASSUME TypeOK, OpenCountExact, ThreadInv, [Next]_vars
  PROVE  OpenCountExact'
<1>h. \A c \in Callers :
        /\ ref[c] => open_count >= 1
        /\ ~ref[c] => Cardinality(Holders \cup {c}) = open_count + 1
        /\ ref[c] => Cardinality(Holders \ {c}) = open_count - 1
  BY HolderCount
<1>t. /\ open_count \in Nat /\ enable_thread \in BOOLEAN
      /\ pc \in [Actors -> CallPCs]
      /\ ref \in [Callers -> BOOLEAN]
      /\ gAdpLock \in Callers \cup {Nobody}
  BY DEF TypeOK
<1> USE DEF OpenCountExact, Actors, LockOps, device, driver, thread, calls, ghosts
<1>1. ASSUME NEW p \in Actors, FilterOp(p) PROVE OpenCountExact'
  BY <1>1, <1>t, HoldersSame, ActorAssumption DEF FilterOp, FilterFrame
<1>2. ASSUME NEW p \in Actors, NEW op \in LockOps, Call(p, op) PROVE OpenCountExact'
  BY <1>2, <1>t, HoldersSame, ActorAssumption DEF Call, MayCall, Goto
<1>3. ASSUME NEW p \in Actors, NEW s \in Sources, AM_DMX_SetSource(p, s) PROVE OpenCountExact'
  BY <1>3, <1>t, HoldersSame, ActorAssumption DEF AM_DMX_SetSource, Goto, Return
<1>4. ASSUME NEW p \in Actors, StoreSource(p) PROVE OpenCountExact'
  BY <1>4, <1>t, HoldersSame, ActorAssumption DEF StoreSource, Goto, Return
<1>5. ASSUME NEW p \in Actors, AM_DMX_Sync(p) PROVE OpenCountExact'
  BY <1>5, <1>t, HoldersSame, ActorAssumption DEF AM_DMX_Sync, MustWait, Goto, Return
<1>6. ASSUME NEW c \in Callers, AM_DMX_Open(c) PROVE OpenCountExact'
  <2>1. Holders' = Holders \cup {c}
    BY <1>6, HoldersStep DEF AM_DMX_Open, StartThread, CountOpen
  <2>2. open_count' = Cardinality(Holders')
    <3>1. Cardinality(Holders') = open_count + 1
      BY <1>6, <2>1, <1>h DEF AM_DMX_Open, StartThread, CountOpen
    <3>2. open_count' = open_count + 1
      BY <1>6, <1>t DEF AM_DMX_Open, StartThread, CountOpen
    <3> QED BY <3>1, <3>2
  <2>3. open_count' > 0 => (enable_thread' <=> gAdpLock' = Nobody)
    BY <1>6, <1>t DEF AM_DMX_Open, StartThread, CountOpen
  <2> QED BY <1>6, <2>2, <2>3, <1>t DEF AM_DMX_Open, StartThread, CountOpen
<1>7. ASSUME NEW c \in Callers, OpenFails(c) PROVE OpenCountExact'
  BY <1>7, <1>t, HoldersSame, ActorAssumption DEF OpenFails, StartThread
<1>8. ASSUME NEW c \in Callers, Call(c, "Close") PROVE OpenCountExact'
  BY <1>8, <1>t, HoldersSame, ActorAssumption DEF Call, MayCall, Goto
<1>9. ASSUME NEW c \in Callers, AM_DMX_Close(c) PROVE OpenCountExact'
  <2>0. ref[c] /\ open_count >= 1
    BY <1>9, <1>h DEF AM_DMX_Close, LastClose, StopThread
  <2>1. CASE open_count = 1
    <3>1. Holders' = Holders
      BY <1>9, <2>1, HoldersSame DEF AM_DMX_Close, LastClose, StopThread
    <3>2. \A d \in Callers : pc'[d] = "join" <=> gAdpLock' = d
      BY <1>9, <2>1, <1>t, ActorAssumption DEF AM_DMX_Close, LastClose, StopThread, Goto
    <3>3. \A d \in Callers : pc'[d] # "idle" => ref'[d]
      BY <1>9, <2>0, <2>1, <1>t DEF AM_DMX_Close, LastClose, StopThread, Goto
    <3>4. ~enable_thread' /\ gAdpLock' # Nobody /\ open_count' = 1
      BY <1>9, <2>1, ActorAssumption DEF AM_DMX_Close, LastClose, StopThread
    <3> QED BY <1>9, <2>1, <3>1, <3>2, <3>3, <3>4 DEF AM_DMX_Close, LastClose, StopThread
  <2>2. CASE open_count # 1
    <3>1. Holders' = Holders \ {c}
      BY <1>9, <2>2, HoldersStep DEF AM_DMX_Close, LastClose, StopThread
    <3>2. open_count' = Cardinality(Holders')
      BY <1>9, <2>0, <2>2, <3>1, <1>h DEF AM_DMX_Close, LastClose, StopThread
    <3> QED BY <1>9, <2>0, <2>2, <3>2, <1>t, ActorAssumption DEF AM_DMX_Close, LastClose, StopThread, Goto, Return
  <2> QED BY <2>1, <2>2
<1>10. ASSUME NEW c \in Callers, CloseJoined(c) PROVE OpenCountExact'
  <2>0. ref[c] /\ gAdpLock = c /\ open_count = 1
    BY <1>10, ActorAssumption DEF CloseJoined
  <2>1. Holders' = Holders \ {c}
    BY <1>10, HoldersStep DEF CloseJoined
  <2>2. open_count' = Cardinality(Holders')
    BY <1>10, <2>0, <2>1, <1>h DEF CloseJoined
  <2>3. ~(open_count' > 0)
    BY <1>10, <2>0 DEF CloseJoined
  <2> QED BY <1>10, <2>0, <2>2, <2>3, <1>t, ActorAssumption DEF CloseJoined, Goto, Return
<1>11. ASSUME NEW c \in Callers, SpuriousWakeup(c) PROVE OpenCountExact'
  BY <1>11, <1>t, HoldersSame, ActorAssumption DEF SpuriousWakeup, Goto
<1>12. CASE PollBegin
  BY <1>12, <1>t, HoldersSame, ActorAssumption DEF PollBegin, dvb_poll, ThreadFrame
<1>13. CASE PollEnd
  BY <1>13, <1>t, HoldersSame, ActorAssumption DEF PollEnd, ThreadFrame
<1>14. CASE SetRunCb
  BY <1>14, <1>t, HoldersSame, ActorAssumption DEF SetRunCb, RaiseFlag, ThreadFrame
<1>15. CASE NextFilter
  BY <1>15, <1>t, HoldersSame, ActorAssumption DEF NextFilter, ThreadFrame
<1>16. CASE ReadFilter
  BY <1>16, <1>t, HoldersSame, ActorAssumption DEF ReadFilter, ThreadFrame
<1>17. CASE CallbackReturns
  BY <1>17, <1>t, HoldersSame, ActorAssumption DEF CallbackReturns, ThreadFrame
<1>18. CASE ClearRunCb
  BY <1>18, <1>t, HoldersSame, ActorAssumption DEF ClearRunCb, ThreadFrame
<1>19. CASE Broadcast
  BY <1>19, <1>t, HoldersSame, ActorAssumption DEF Broadcast, WakeWaiters, ThreadFrame
<1>20. CASE UNCHANGED vars
  BY <1>20, <1>t, HoldersSame, ActorAssumption DEF vars
<1> QED
  BY <1>1, <1>2, <1>3, <1>4, <1>5, <1>6, <1>7, <1>8, <1>9, <1>10, <1>11,
     <1>12, <1>13, <1>14, <1>15, <1>16, <1>17, <1>18, <1>19, <1>20, NextCases

\* The data thread and dev->lock live exactly as long as the device is open.
LEMMA ThreadStep ==
  ASSUME TypeOK, OpenCountExact, ThreadInv, [Next]_vars
  PROVE  ThreadInv'
<1>t. /\ open_count \in Nat /\ lock_live \in BOOLEAN
      /\ pc \in [Actors -> CallPCs]
  BY DEF TypeOK
<1> USE DEF ThreadInv, Actors, LockOps, device, driver, thread, calls, ghosts
<1>1. ASSUME NEW p \in Actors, FilterOp(p) PROVE ThreadInv'
  BY <1>1, <1>t, ActorAssumption DEF FilterOp, FilterFrame
<1>2. ASSUME NEW p \in Actors, NEW op \in LockOps, Call(p, op) PROVE ThreadInv'
  BY <1>2, <1>t, ActorAssumption DEF Call, MayCall, Goto
<1>3. ASSUME NEW p \in Actors, NEW s \in Sources, AM_DMX_SetSource(p, s) PROVE ThreadInv'
  BY <1>3, <1>t, ActorAssumption DEF AM_DMX_SetSource, Goto, Return
<1>4. ASSUME NEW p \in Actors, StoreSource(p) PROVE ThreadInv'
  BY <1>4, <1>t, ActorAssumption DEF StoreSource, Goto, Return
<1>5. ASSUME NEW p \in Actors, AM_DMX_Sync(p) PROVE ThreadInv'
  BY <1>5, <1>t, ActorAssumption DEF AM_DMX_Sync, MustWait, Goto, Return
<1>6. ASSUME NEW c \in Callers, AM_DMX_Open(c) PROVE ThreadInv'
  BY <1>6, <1>t, ActorAssumption DEF AM_DMX_Open, StartThread, CountOpen
<1>7. ASSUME NEW c \in Callers, OpenFails(c) PROVE ThreadInv'
  BY <1>7, <1>t, ActorAssumption DEF OpenFails, StartThread
<1>8. ASSUME NEW c \in Callers, Call(c, "Close") PROVE ThreadInv'
  BY <1>8, <1>t, ActorAssumption DEF Call, MayCall, Goto
<1>9. ASSUME NEW c \in Callers, AM_DMX_Close(c) PROVE ThreadInv'
  <2>0. open_count \in Nat /\ open_count >= 1
    BY <1>9, HolderCount DEF AM_DMX_Close, LastClose, StopThread, OpenCountExact
  <2>1. CASE open_count = 1
    BY <1>9, <2>1, <1>t, ActorAssumption DEF AM_DMX_Close, LastClose, StopThread, Goto
  <2>2. CASE open_count # 1
    BY <1>9, <2>0, <2>2, <1>t, ActorAssumption DEF AM_DMX_Close, LastClose, StopThread, Goto, Return
  <2> QED BY <2>1, <2>2
<1>10. ASSUME NEW c \in Callers, CloseJoined(c) PROVE ThreadInv'
  <2>0. gAdpLock = c /\ open_count = 1
    BY <1>10, ActorAssumption DEF CloseJoined, OpenCountExact
  <2>1. open_count' = 0
    BY <1>10, <2>0 DEF CloseJoined
  <2> QED BY <1>10, <2>1, <1>t, ActorAssumption DEF CloseJoined, Goto, Return
<1>11. ASSUME NEW c \in Callers, SpuriousWakeup(c) PROVE ThreadInv'
  BY <1>11, <1>t, ActorAssumption DEF SpuriousWakeup, Goto
<1>12. CASE PollBegin
  <2>1. ~enable_thread => gAdpLock # Nobody
    BY <1>12 DEF PollBegin, OpenCountExact
  <2> QED BY <1>12, <2>1, <1>t DEF PollBegin, dvb_poll, ThreadFrame
<1>13. CASE PollEnd
  BY <1>13, <1>t, ActorAssumption DEF PollEnd, ThreadFrame
<1>14. CASE SetRunCb
  BY <1>14, <1>t, ActorAssumption DEF SetRunCb, RaiseFlag, ThreadFrame
<1>15. CASE NextFilter
  BY <1>15, <1>t, ActorAssumption DEF NextFilter, ThreadFrame
<1>16. CASE ReadFilter
  BY <1>16, <1>t, ActorAssumption DEF ReadFilter, ThreadFrame
<1>17. CASE CallbackReturns
  BY <1>17, <1>t, ActorAssumption DEF CallbackReturns, ThreadFrame
<1>18. CASE ClearRunCb
  BY <1>18, <1>t, ActorAssumption DEF ClearRunCb, ThreadFrame
<1>19. CASE Broadcast
  BY <1>19, <1>t, ActorAssumption DEF Broadcast, WakeWaiters, ThreadFrame
<1>20. CASE UNCHANGED vars
  BY <1>20, <1>t, ActorAssumption DEF vars
<1> QED
  BY <1>1, <1>2, <1>3, <1>4, <1>5, <1>6, <1>7, <1>8, <1>9, <1>10, <1>11,
     <1>12, <1>13, <1>14, <1>15, <1>16, <1>17, <1>18, <1>19, <1>20, NextCases

\* DMX_FL_RUN_CB covers every callback, so that AM_DMX_Sync retires nothing that
\* runs.
LEMMA CbStep ==
  ASSUME TypeOK, ThreadInv, CbInv, [Next]_vars
  PROVE  CbInv'
<1>t. /\ open_count \in Nat /\ run_cb \in BOOLEAN
      /\ filters \in [Fid -> FilterRec] /\ cur \in Fid
      /\ retired \subseteq Cbs
      /\ tpc # "none" <=> open_count > 0
  BY DEF TypeOK, ThreadInv
<1> USE DEF CbInv, device, driver, thread, calls, ghosts
<1>1. ASSUME NEW p \in Actors, FilterOp(p) PROVE CbInv'
  BY <1>1, <1>t DEF FilterOp, FilterFrame
<1>2. ASSUME NEW p \in Actors, NEW op \in LockOps, Call(p, op) PROVE CbInv'
  BY <1>2, <1>t DEF Call, MayCall, Goto
<1>3. ASSUME NEW p \in Actors, NEW s \in Sources, AM_DMX_SetSource(p, s) PROVE CbInv'
  BY <1>3, <1>t DEF AM_DMX_SetSource, Goto, Return
<1>4. ASSUME NEW p \in Actors, StoreSource(p) PROVE CbInv'
  BY <1>4, <1>t DEF StoreSource, Goto, Return
<1>5. ASSUME NEW p \in Actors, AM_DMX_Sync(p) PROVE CbInv'
  BY <1>5, <1>t DEF AM_DMX_Sync, MustWait, Goto, Return
<1>6. ASSUME NEW c \in Callers, AM_DMX_Open(c) PROVE CbInv'
  BY <1>6, <1>t DEF AM_DMX_Open, StartThread, CountOpen
<1>7. ASSUME NEW c \in Callers, OpenFails(c) PROVE CbInv'
  BY <1>7, <1>t DEF OpenFails, StartThread
<1>8. ASSUME NEW c \in Callers, Call(c, "Close") PROVE CbInv'
  BY <1>8, <1>t DEF Call, MayCall, Goto
<1>9. ASSUME NEW c \in Callers, AM_DMX_Close(c) PROVE CbInv'
  BY <1>9, <1>t DEF AM_DMX_Close, LastClose, StopThread, Goto, Return
<1>10. ASSUME NEW c \in Callers, CloseJoined(c) PROVE CbInv'
  <2>0. PICK failed \in SUBSET StopFailures :
          filters' = [f \in Fid |-> IF filters[f].used
                                     THEN dmx_free_filter(filters[f], f \notin failed)
                                     ELSE filters[f]]
    BY <1>10 DEF CloseJoined
  <2>1. ASSUME NEW f \in Fid PROVE ~(filters'[f].used /\ filters'[f].enable)
    <3>1. CASE filters[f].used
      <4>1. filters'[f] = dmx_free_filter(filters[f], f \notin failed)
        BY <2>0, <3>1
      <4>2. filters[f] \in FilterRec
        BY <1>t
      <4>3. ~dmx_free_filter(filters[f], f \notin failed).enable
        BY <4>2 DEF dmx_free_filter, dmx_stop_filter, FilterRec
      <4> QED BY <4>1, <4>3
    <3>2. CASE ~filters[f].used
      BY <2>0, <3>2
    <3> QED BY <3>1, <3>2
  <2>2. Active(filters') = {}
    BY <2>1 DEF Active
  <2> QED BY <1>10, <2>2 DEF CloseJoined
<1>11. ASSUME NEW c \in Callers, SpuriousWakeup(c) PROVE CbInv'
  BY <1>11, <1>t DEF SpuriousWakeup, Goto
<1>12. CASE PollBegin
  BY <1>12, <1>t DEF PollBegin, dvb_poll, ThreadFrame
<1>13. CASE PollEnd
  BY <1>13, <1>t DEF PollEnd, ThreadFrame
<1>14. CASE SetRunCb
  BY <1>14, <1>t DEF SetRunCb, RaiseFlag, ThreadFrame
<1>15. CASE NextFilter
  BY <1>15, <1>t DEF NextFilter, ThreadFrame
<1>16. CASE ReadFilter
  <2>1. cur_cb' # cur_cb \/ tpc' = "incb" =>
          /\ cur_cb' \in Active(filters)
          /\ cur_cb' \in Cbs
    BY <1>16, <1>t DEF ReadFilter, Active, FilterRec
  <2> QED BY <1>16, <2>1 DEF ReadFilter, ThreadFrame
<1>17. CASE CallbackReturns
  BY <1>17, <1>t DEF CallbackReturns, ThreadFrame
<1>18. CASE ClearRunCb
  BY <1>18, <1>t DEF ClearRunCb, ThreadFrame
<1>19. CASE Broadcast
  BY <1>19, <1>t DEF Broadcast, WakeWaiters, ThreadFrame
<1>20. CASE UNCHANGED vars
  BY <1>20, <1>t DEF vars
<1> QED
  BY <1>1, <1>2, <1>3, <1>4, <1>5, <1>6, <1>7, <1>8, <1>9, <1>10, <1>11,
     <1>12, <1>13, <1>14, <1>15, <1>16, <1>17, <1>18, <1>19, <1>20, NextCases

-----------------------------------------------------------------------------
(* Theorems.                                                               *)

\* IInv is an inductive invariant of the device.
THEOREM Invariance == Spec => []IInv
<1>1. Init => IInv
  <2> SUFFICES ASSUME Init PROVE IInv
    OBVIOUS
  <2>1. TypeOK
    <3>1. 0 \in Fid
      BY FilterAssumption DEF Fid
    <3> QED BY <3>1, ActorAssumption, DataAssumption
            DEF Init, TypeOK, FilterRec, ThreadPCs, CallPCs
  <2>2. Holders = {}
    BY DEF Init, Holders
  <2>3. OpenCountExact
    BY <2>2, FS_EmptySet, ActorAssumption DEF Init, OpenCountExact, Actors
  <2>4. ThreadInv
    BY DEF Init, ThreadInv, Actors
  <2>5. CbInv
    BY DEF Init, CbInv, Active
  <2> QED BY <2>1, <2>3, <2>4, <2>5 DEF IInv
<1>2. IInv /\ [Next]_vars => IInv'
  BY TypeStep, CountStep, ThreadStep, CbStep DEF IInv
<1> QED BY <1>1, <1>2, PTL DEF Spec

\* Every variable keeps its type, whatever the clients do: open_count, in
\* particular, never becomes negative.
THEOREM TypeCorrect == Spec => []TypeOK
<1>1. IInv => TypeOK
  BY DEF IInv
<1> QED BY <1>1, Invariance, PTL

\* open_count is the number of clients that hold an open, and am_gAdpLock is kept
\* across steps only by the last closer.
THEOREM CountCorrect == Spec => []OpenCountExact
<1>1. IInv => OpenCountExact
  BY DEF IInv
<1> QED BY <1>1, Invariance, PTL

\* A call that is about to take dev->lock finds it alive.
LEMMA LockWhenCalled ==
  ASSUME IInv, NEW p \in Actors, pc[p] \in LockOps \cup {"wait"}
  PROVE  lock_live
<1>1. pc[p] # "idle"
  BY DEF LockOps
<1>2. CASE p = DataThread
  BY <1>1, <1>2 DEF IInv, ThreadInv
<1>3. CASE p \in Callers
  <2>1. ref[p]
    BY <1>1, <1>3 DEF IInv, OpenCountExact
  <2>2. open_count \in Nat /\ open_count >= 1
    BY <1>3, <2>1, HolderCount DEF IInv
  <2> QED BY <2>2 DEF IInv, ThreadInv
<1> QED BY <1>2, <1>3 DEF Actors

\* No call and no step of the data thread uses dev->lock outside its life time.
THEOREM LockCorrect == Spec => []LockAlive
<1>1. IInv => LockAlive
  <2> SUFFICES ASSUME IInv PROVE LockAlive
    OBVIOUS
  <2>1. ASSUME NEW p \in Actors, pc[p] \in LockOps \cup {"wait"} PROVE lock_live
    BY <2>1, LockWhenCalled
  <2>2. tpc \notin {"none", "exit"} => lock_live
    BY DEF IInv, ThreadInv
  <2> QED BY <2>1, <2>2 DEF LockAlive
<1> QED BY <1>1, Invariance, PTL

\* The data thread exists exactly while the device is open, and has ended only
\* when a closer waits for it in pthread_join.
THEOREM ThreadCorrect == Spec => []ThreadMatchesOpen
<1>1. IInv => ThreadMatchesOpen
  BY DEF IInv, TypeOK, OpenCountExact, ThreadInv, ThreadMatchesOpen
<1> QED BY <1>1, Invariance, PTL

\* Lock, thread and count of the device belong to its opens: whatever the order
\* in which clients open, call and close.
THEOREM LifeCycleCorrect == Spec => []LifeCycle
<1>1. OpenCountExact /\ LockAlive /\ ThreadMatchesOpen => LifeCycle
  BY DEF LifeCycle
<1> QED BY <1>1, CountCorrect, LockCorrect, ThreadCorrect, PTL

\* A registration retired by AM_DMX_Sync does not run until it is active again.
THEOREM SyncCorrect == Spec => []RetiredNeverRuns
<1>1. IInv => RetiredNeverRuns
  BY DEF IInv, CbInv, RetiredNeverRuns
<1> QED BY <1>1, Invariance, PTL

-----------------------------------------------------------------------------
(* Slots and descriptors.                                                  *)

\* FdInv is kept by every step.
LEMMA FdStep ==
  ASSUME IInv, FdInv, [Next]_vars
  PROVE  FdInv'
<1> USE DEF FdInv, FdNeedsUsed, FdMatchesUsed, device, driver, thread, calls, ghosts
<1>t. /\ TypeOK
      /\ open_count \in Nat
      /\ filters \in [Fid -> FilterRec]
      /\ fd \in [Fid -> BOOLEAN]
  BY DEF IInv, TypeOK
<1>1. CASE UNCHANGED <<filters, fd, open_count>>
  BY <1>1
<1>2. ASSUME NEW p \in Actors, FilterOp(p) PROVE FdInv'
  <2>1. open_count > 0
    <3>1. lock_live
      BY <1>2, LockWhenCalled DEF FilterOp
    <3> QED BY <3>1 DEF IInv, ThreadInv
  <2>2. open_count' = open_count /\ SlotAndFd
    BY <1>2 DEF FilterOp, FilterFrame
  <2> QED BY <2>1, <2>2, <1>t DEF SlotAndFd
<1>3. ASSUME NEW c \in Callers, AM_DMX_Open(c) PROVE FdInv'
  <2>1. CASE open_count > 0
    BY <1>3, <2>1, <1>t DEF AM_DMX_Open, CountOpen
  <2>2. CASE open_count = 0
    BY <1>3, <2>2 DEF AM_DMX_Open
  <2> QED BY <2>1, <2>2, <1>t
<1>4. ASSUME NEW c \in Callers, OpenFails(c) PROVE FdInv'
  <2>1. open_count = 0 /\ open_count' = 0 /\ filters' = filters
    BY <1>4, <1>t DEF OpenFails
  <2>2. \A f \in Fid : fd'[f] => fd[f]
    BY <1>4 DEF OpenFails
  <2> QED BY <2>1, <2>2, <1>t
<1>5. ASSUME NEW c \in Callers, AM_DMX_Close(c) PROVE FdInv'
  <2>0. open_count >= 1
    BY <1>5, HolderCount DEF IInv, AM_DMX_Close, OpenCountExact
  <2>1. open_count' > 0 /\ filters' = filters /\ fd' = fd
    BY <1>5, <2>0, <1>t DEF AM_DMX_Close, LastClose
  <2> QED BY <2>0, <2>1, <1>t
<1>6. ASSUME NEW c \in Callers, CloseJoined(c) PROVE FdInv'
  <2>1. open_count' = 0
    BY <1>6, ActorAssumption DEF CloseJoined, IInv, OpenCountExact
  <2>2. \A f \in Fid : ~fd'[f]
    BY <1>6 DEF CloseJoined
  <2>3. ASSUME ~StopMayFail, NEW f \in Fid PROVE ~filters'[f].used
    <3>1. filters' = [g \in Fid |-> IF filters[g].used
                                      THEN dmx_free_filter(filters[g], TRUE)
                                      ELSE filters[g]]
      BY <1>6, <2>3 DEF CloseJoined, StopFailures
    <3>2. filters[f] \in FilterRec
      BY <1>t
    <3>3. ~dmx_free_filter(filters[f], TRUE).used
      BY <3>2 DEF dmx_free_filter, dmx_stop_filter, FilterRec
    <3> QED BY <3>1, <3>3
  <2> QED BY <2>1, <2>2, <2>3
<1>7. ASSUME NEW p \in Actors,
             \/ \E op \in LockOps \cup {"Close"} : Call(p, op)
             \/ \E s \in Sources : AM_DMX_SetSource(p, s)
             \/ StoreSource(p) \/ AM_DMX_Sync(p) \/ SpuriousWakeup(p)
      PROVE  FdInv'
  BY <1>7, <1>1 DEF Call, AM_DMX_SetSource, StoreSource, AM_DMX_Sync, SpuriousWakeup
<1>8. CASE \/ PollBegin \/ PollEnd \/ SetRunCb \/ NextFilter \/ ReadFilter
           \/ CallbackReturns \/ ClearRunCb \/ Broadcast \/ UNCHANGED vars
  BY <1>8, <1>1 DEF PollBegin, PollEnd, SetRunCb, NextFilter, ReadFilter,
                    CallbackReturns, ClearRunCb, Broadcast, ThreadFrame, vars
<1> QED
  BY <1>2, <1>3, <1>4, <1>5, <1>6, <1>7, <1>8, <1>t, NextCases DEF Actors

\* The slots and descriptors stay in step.
LEMMA FdInvariance == Spec => []FdInv
<1>1. Init => FdInv
  BY DEF Init, FdInv, FdNeedsUsed, FdMatchesUsed
<1>2. IInv /\ FdInv /\ [Next]_vars => FdInv'
  BY FdStep
<1> QED BY <1>1, <1>2, Invariance, PTL DEF Spec

\* The driver never keeps a descriptor for a slot that is free, even if DMX_STOP
\* fails.
THEOREM FdNeverLeaks == Spec => []FdNeedsUsed
<1>1. FdInv => FdNeedsUsed
  BY DEF FdInv
<1> QED BY <1>1, FdInvariance, PTL

\* Without a failing DMX_STOP the descriptors of an open device are those of its
\* allocated filters.
THEOREM FdExact == ASSUME ~StopMayFail PROVE Spec => []FdMatchesUsed
<1>1. FdInv => FdMatchesUsed
  BY DEF FdInv
<1> QED BY <1>1, FdInvariance, PTL

-----------------------------------------------------------------------------
(* The refinement of CallbackGate.                                         *)

running == IF tpc = "incb" THEN cur_cb ELSE NoCb

\* A step that moves the data thread neither into nor out of a callback and
\* shrinks, or leaves, the retired registrations is a gate step or a stutter.
LEMMA GateQuiet ==
  ASSUME IInv, running' = running, retired' \subseteq retired
  PROVE  [Gate!Next]_(Gate!vars)
<1>1. retired' \in SUBSET Cbs /\ running \notin retired'
  BY DataAssumption DEF IInv, TypeOK, CbInv, running
<1>2. Gate!Retire(retired')
  BY <1>1 DEF running, Gate!Retire
<1> QED BY <1>1, <1>2 DEF Gate!Next

\* Every step of the device is a step of the gate or leaves it alone.
LEMMA GateStep ==
  ASSUME IInv, [Next]_vars
  PROVE  [Gate!Next]_(Gate!vars)
<1> USE DEF device, driver, thread, calls, ghosts
<1>t. TypeOK /\ ThreadInv /\ CbInv
  BY DEF IInv
<1>1. ASSUME NEW p \in Actors,
             \/ FilterOp(p)
             \/ \E op \in LockOps : Call(p, op)
             \/ \E s \in Sources : AM_DMX_SetSource(p, s)
             \/ StoreSource(p)
      PROVE  [Gate!Next]_(Gate!vars)
  <2>1. running' = running /\ retired' \subseteq retired
    BY <1>1 DEF running, FilterOp, FilterFrame, Call, AM_DMX_SetSource, StoreSource
  <2> QED BY <2>1, GateQuiet
<1>2. ASSUME NEW p \in Actors, AM_DMX_Sync(p)
      PROVE  [Gate!Next]_(Gate!vars)
  <2>1. CASE UNCHANGED retired
    <3>1. running' = running /\ retired' \subseteq retired
      BY <1>2, <2>1 DEF running, AM_DMX_Sync, MustWait
    <3> QED BY <3>1, GateQuiet
  <2>2. CASE ~run_cb /\ retired' = Cbs \ Active(filters)
    <3>1. retired' \in SUBSET Cbs
      BY <2>2
    <3>2. tpc # "incb" /\ UNCHANGED <<tpc, cur_cb>>
      BY <1>2, <2>2, <1>t DEF CbInv, AM_DMX_Sync, MustWait
    <3>3. NoCb \notin retired'
      BY <3>1, DataAssumption
    <3>4. Gate!Retire(retired')
      BY <3>1, <3>2, <3>3 DEF Gate!Retire
    <3> QED BY <3>1, <3>4 DEF Gate!Next
  <2> QED BY <1>2, <2>1, <2>2 DEF AM_DMX_Sync, MustWait
<1>3. ASSUME NEW c \in Callers, CloseJoined(c)
      PROVE  [Gate!Next]_(Gate!vars)
  <2>1. tpc = "exit" /\ tpc' = "none" /\ retired' = Cbs
    BY <1>3 DEF CloseJoined
  <2>2. Gate!Retire(Cbs)
    BY <2>1, <1>t, DataAssumption DEF Gate!Retire, TypeOK
  <2> QED BY <2>2 DEF Gate!Next
<1>4. ASSUME NEW c \in Callers,
             \/ AM_DMX_Open(c) \/ OpenFails(c) \/ Call(c, "Close")
             \/ AM_DMX_Close(c) \/ SpuriousWakeup(c)
      PROVE  [Gate!Next]_(Gate!vars)
  <2>1. running' = running /\ retired' \subseteq retired
    BY <1>4, <1>t DEF TypeOK, ThreadInv, running, AM_DMX_Open, OpenFails, Call,
                      AM_DMX_Close, SpuriousWakeup
  <2> QED BY <2>1, GateQuiet
<1>5. CASE PollBegin \/ PollEnd \/ SetRunCb \/ NextFilter \/ ClearRunCb \/ Broadcast
  <2>1. running' = running /\ retired' \subseteq retired
    BY <1>5 DEF running, PollBegin, PollEnd, SetRunCb, NextFilter, ClearRunCb,
                Broadcast, ThreadFrame
  <2> QED BY <2>1, GateQuiet
<1>6. CASE ReadFilter
  <2>1. CASE tpc' = "incb"
    <3>1. cur_cb' \in Active(filters) /\ cur_cb' \in Cbs /\ tpc = "read" /\ retired' = retired
      BY <1>6, <2>1, <1>t DEF ReadFilter, ThreadFrame, Active, TypeOK, FilterRec
    <3>2. Gate!Begin(cur_cb')
      BY <2>1, <3>1, <1>t DEF Gate!Begin, CbInv
    <3> QED BY <3>1, <3>2 DEF Gate!Next
  <2>2. CASE tpc' # "incb"
    <3>1. running' = running /\ retired' \subseteq retired
      BY <1>6, <2>2 DEF running, ReadFilter, ThreadFrame
    <3> QED BY <3>1, GateQuiet
  <2> QED BY <2>1, <2>2
<1>7. CASE CallbackReturns
  <2>1. Gate!End
    BY <1>7, <1>t, DataAssumption DEF CallbackReturns, ThreadFrame, CbInv, Gate!End
  <2> QED BY <2>1 DEF Gate!Next
<1>8. CASE UNCHANGED vars
  <2>1. running' = running /\ retired' \subseteq retired
    BY <1>8 DEF running, vars
  <2> QED BY <2>1, GateQuiet
<1> QED
  BY <1>1, <1>2, <1>3, <1>4, <1>5, <1>6, <1>7, <1>8, <1>t, NextCases

\* The device implements the gate: one callback at a time, none retired.
THEOREM Refinement == Spec => ImplementsGate
<1>1. Init => Gate!Init
  BY DEF Init, Gate!Init
<1>2. IInv /\ [Next]_vars => [Gate!Next]_(Gate!vars)
  BY GateStep
<1> QED BY <1>1, <1>2, Invariance, PTL DEF Spec, ImplementsGate, Gate!Spec
=============================================================================
