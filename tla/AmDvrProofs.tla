---------------------------- MODULE AmDvrProofs ----------------------------
(***************************************************************************)
(* Theorems about AmDvr for any number of client threads, streams and      *)
(* filters.  Types and the discipline of the two locks need nothing of the *)
(* clients; the recorder's filters are safe if the clients, which may each *)
(* have an open, do not call while one of them closes, nor afterwards.     *)
(***************************************************************************)
EXTENDS AmDvr, FiniteSetTheorems, TLAPS

-----------------------------------------------------------------------------
(* The operators.                                                          *)

\* The smaller of two numbers.
LEMMA MinOfTwo ==
  ASSUME NEW a \in Int, NEW b \in Int
  PROVE  /\ Min({a, b}) \in {a, b}
         /\ Min({a, b}) <= a /\ Min({a, b}) <= b
<1>1. \E x \in {a, b} : \A y \in {a, b} : x <= y
  <2>1. CASE a <= b
    BY <2>1
  <2>2. CASE b <= a
    BY <2>2
  <2> QED BY <2>1, <2>2
<1> QED BY <1>1 DEF Min

\* Adding streams to an empty table: at least one is added, never more than fit,
\* and they have no filter yet.
LEMMA AddStreams ==
  ASSUME TypeOK, NEW n \in 1..MaxStreams + 1, dvr_add_stream(Min({n, MaxStreams}))
  PROVE  /\ stream_cnt' \in 1..MaxStreams
         /\ fid' \in [Slots -> Fids \cup {NoFid}]
         /\ \A s \in Slots :
              fid'[s] = IF s \in stream_cnt..stream_cnt' - 1 THEN NoFid ELSE fid[s]
<1> DEFINE m == Min({n, MaxStreams})
<1>1. m \in 1..MaxStreams
  BY MinOfTwo, StreamAssumption
<1>2. stream_cnt \in 0..MaxStreams
  BY DEF TypeOK
<1>3. stream_cnt' = Min({stream_cnt + m, MaxStreams})
  BY DEF dvr_add_stream
<1> HIDE DEF m
<1>4. stream_cnt' \in 1..MaxStreams
  <2>1. stream_cnt + m \in Int /\ MaxStreams \in Int
    BY <1>1, <1>2, StreamAssumption
  <2>2. /\ stream_cnt' \in {stream_cnt + m, MaxStreams}
        /\ stream_cnt' <= stream_cnt + m /\ stream_cnt' <= MaxStreams
    BY <2>1, <1>3, MinOfTwo
  <2> QED BY <1>1, <1>2, <2>2, StreamAssumption
<1>5. fid' = [s \in Slots |-> IF s \in stream_cnt..stream_cnt' - 1 THEN NoFid ELSE fid[s]]
  BY DEF dvr_add_stream
<1> QED BY <1>4, <1>5 DEF TypeOK

\* The disjuncts of Next.
LEMMA NextCases ==
  ASSUME [Next]_vars
  PROVE  \/ \E c \in Callers :
              \/ \E n \in 1..MaxStreams + 1 : AM_DVR_StartRecord(c, n)
              \/ dvr_start_stream(c) \/ StartRecordReturns(c)
              \/ AM_DVR_StopRecord(c) \/ dvr_stop_stream(c) \/ StopRecordReturns(c)
              \/ AM_DVR_Read(c) \/ ReadReturns(c)
              \/ AM_DVR_Close(c) \/ CloseReturns(c)
              \/ AM_DVR_Open(c) \/ OpenFails(c)
              \/ \E op \in {"StartRecord", "StopRecord", "Read"} : Call(c, op)
              \/ CallClose(c)
         \/ \E f \in Fids : OtherAllocates(f) \/ OtherFrees(f)
         \/ UNCHANGED vars
  BY DEF Next, Body

\* Types and locks, whatever the clients do.
LEMMA TypeStep ==
  ASSUME TypeOK, LocksInv, [Next]_vars
  PROVE  TypeOK' /\ LocksInv'
<1> USE StreamAssumption, FidAssumption, CallerAssumption DEF Slots, LockPCs, CallPCs
<1>1. ASSUME NEW c \in Callers, NEW n \in 1..MaxStreams + 1, AM_DVR_StartRecord(c, n)
      PROVE  TypeOK' /\ LocksInv'
  <2>1. open_cnt' \in Nat /\ stream_cnt' \in 0..MaxStreams
    BY <1>1, AddStreams DEF AM_DVR_StartRecord, Goto, device, calls, TypeOK, LocksInv
  <2>2. record' \in BOOLEAN /\ live' \in BOOLEAN
    BY <1>1 DEF AM_DVR_StartRecord, Goto, device, calls, TypeOK
  <2>3. /\ fid' \in [Slots -> Fids \cup {NoFid}]
        /\ owner' \in [Fids -> {"free", "dvr", "other"}]
    BY <1>1, AddStreams DEF AM_DVR_StartRecord, Goto, device, calls, TypeOK
  <2>4. lock' \in Callers \cup {Nobody} /\ gAdpLock' \in Callers \cup {Nobody}
    BY <1>1 DEF AM_DVR_StartRecord, Goto, device, calls, TypeOK
  <2>5. pc' \in [Callers -> CallPCs]
    BY <1>1 DEF AM_DVR_StartRecord, Goto, device, calls, TypeOK
  <2>6. i' \in [Callers -> 0..MaxStreams]
    <3>1. i' = i \/ i' = [i EXCEPT ![c] = 0]
      BY <1>1 DEF AM_DVR_StartRecord
    <3>2. i \in [Callers -> 0..MaxStreams] /\ 0 \in 0..MaxStreams
      BY DEF TypeOK
    <3> QED BY <3>1, <3>2
  <2>7. ref' \in [Callers -> BOOLEAN]
    BY <1>1 DEF AM_DVR_StartRecord, Goto, device, calls, TypeOK
  <2>8. LocksInv'
    BY <1>1 DEF AM_DVR_StartRecord, Goto, device, calls, TypeOK, LocksInv
  <2> QED BY <2>1, <2>2, <2>3, <2>4, <2>5, <2>6, <2>7, <2>8 DEF TypeOK
<1>2. ASSUME NEW c \in Callers, dvr_start_stream(c)
      PROVE  TypeOK' /\ LocksInv'
  <2>1. open_cnt' \in Nat /\ stream_cnt' \in 0..MaxStreams
    BY <1>2 DEF dvr_start_stream, device, calls, TypeOK, LocksInv
  <2>2. record' \in BOOLEAN /\ live' \in BOOLEAN
    BY <1>2 DEF dvr_start_stream, device, calls, TypeOK
  <2>3. /\ fid' \in [Slots -> Fids \cup {NoFid}]
        /\ owner' \in [Fids -> {"free", "dvr", "other"}]
    BY <1>2 DEF dvr_start_stream, device, calls, TypeOK
  <2>4. lock' \in Callers \cup {Nobody} /\ gAdpLock' \in Callers \cup {Nobody}
    BY <1>2 DEF dvr_start_stream, device, calls, TypeOK
  <2>5. pc' \in [Callers -> CallPCs]
    BY <1>2 DEF dvr_start_stream, device, calls, TypeOK
  <2>6. i' \in [Callers -> 0..MaxStreams]
    BY <1>2 DEF dvr_start_stream, device, calls, TypeOK
  <2>7. ref' \in [Callers -> BOOLEAN]
    BY <1>2 DEF dvr_start_stream, device, calls, TypeOK
  <2>8. LocksInv'
    BY <1>2 DEF dvr_start_stream, device, calls, TypeOK, LocksInv
  <2> QED BY <2>1, <2>2, <2>3, <2>4, <2>5, <2>6, <2>7, <2>8 DEF TypeOK
<1>3. ASSUME NEW c \in Callers, StartRecordReturns(c)
      PROVE  TypeOK' /\ LocksInv'
  <2>1. TypeOK'
    BY <1>3 DEF StartRecordReturns, Goto, device, calls, TypeOK, LocksInv
  <2>2. LocksInv'
    BY <1>3, <2>1 DEF StartRecordReturns, Goto, device, calls, TypeOK, LocksInv
  <2> QED BY <2>1, <2>2
<1>4. ASSUME NEW c \in Callers, AM_DVR_StopRecord(c)
      PROVE  TypeOK' /\ LocksInv'
  <2>1. open_cnt' \in Nat /\ stream_cnt' \in 0..MaxStreams
    BY <1>4 DEF AM_DVR_StopRecord, Goto, device, calls, TypeOK, LocksInv
  <2>2. record' \in BOOLEAN /\ live' \in BOOLEAN
    BY <1>4 DEF AM_DVR_StopRecord, Goto, device, calls, TypeOK
  <2>3. /\ fid' \in [Slots -> Fids \cup {NoFid}]
        /\ owner' \in [Fids -> {"free", "dvr", "other"}]
    BY <1>4 DEF AM_DVR_StopRecord, Goto, device, calls, TypeOK
  <2>4. lock' \in Callers \cup {Nobody} /\ gAdpLock' \in Callers \cup {Nobody}
    BY <1>4 DEF AM_DVR_StopRecord, Goto, device, calls, TypeOK
  <2>5. pc' \in [Callers -> CallPCs]
    BY <1>4 DEF AM_DVR_StopRecord, Goto, device, calls, TypeOK
  <2>6. i' \in [Callers -> 0..MaxStreams]
    <3>1. i' = i \/ i' = [i EXCEPT ![c] = 0]
      BY <1>4 DEF AM_DVR_StopRecord
    <3>2. i \in [Callers -> 0..MaxStreams] /\ 0 \in 0..MaxStreams
      BY DEF TypeOK
    <3> QED BY <3>1, <3>2
  <2>7. ref' \in [Callers -> BOOLEAN]
    BY <1>4 DEF AM_DVR_StopRecord, Goto, device, calls, TypeOK
  <2>8. LocksInv'
    BY <1>4 DEF AM_DVR_StopRecord, Goto, device, calls, TypeOK, LocksInv
  <2> QED BY <2>1, <2>2, <2>3, <2>4, <2>5, <2>6, <2>7, <2>8 DEF TypeOK
<1>5. ASSUME NEW c \in Callers, dvr_stop_stream(c)
      PROVE  TypeOK' /\ LocksInv'
  <2>1. TypeOK'
    BY <1>5, SMTT(30) DEF dvr_stop_stream, AM_DMX_FreeFilter, ForgetFid, device, calls,
         TypeOK, LocksInv
  <2>2. LocksInv'
    BY <1>5, <2>1 DEF dvr_stop_stream, AM_DMX_FreeFilter, ForgetFid, device,
         calls, TypeOK, LocksInv
  <2> QED BY <2>1, <2>2
<1>6. ASSUME NEW c \in Callers, StopRecordReturns(c)
      PROVE  TypeOK' /\ LocksInv'
  <2>1. open_cnt' \in Nat /\ stream_cnt' \in 0..MaxStreams
    BY <1>6 DEF StopRecordReturns, ClearStreams, Goto, device, calls, TypeOK, LocksInv
  <2>2. record' \in BOOLEAN /\ live' \in BOOLEAN
    BY <1>6 DEF StopRecordReturns, ClearStreams, Goto, device, calls, TypeOK
  <2>3. /\ fid' \in [Slots -> Fids \cup {NoFid}]
        /\ owner' \in [Fids -> {"free", "dvr", "other"}]
    BY <1>6 DEF StopRecordReturns, ClearStreams, Goto, device, calls, TypeOK
  <2>4. lock' \in Callers \cup {Nobody} /\ gAdpLock' \in Callers \cup {Nobody}
    BY <1>6 DEF StopRecordReturns, ClearStreams, Goto, device, calls, TypeOK
  <2>5. pc' \in [Callers -> CallPCs]
    BY <1>6 DEF StopRecordReturns, ClearStreams, Goto, device, calls, TypeOK
  <2>6. i' \in [Callers -> 0..MaxStreams]
    BY <1>6 DEF StopRecordReturns, ClearStreams, Goto, device, calls, TypeOK
  <2>7. ref' \in [Callers -> BOOLEAN]
    BY <1>6 DEF StopRecordReturns, ClearStreams, Goto, device, calls, TypeOK
  <2>8. LocksInv'
    BY <1>6 DEF StopRecordReturns, ClearStreams, Goto, device, calls, TypeOK, LocksInv
  <2> QED BY <2>1, <2>2, <2>3, <2>4, <2>5, <2>6, <2>7, <2>8 DEF TypeOK
<1>7. ASSUME NEW c \in Callers, AM_DVR_Read(c)
      PROVE  TypeOK' /\ LocksInv'
  <2>1. TypeOK'
    BY <1>7 DEF AM_DVR_Read, Goto, device, calls, TypeOK, LocksInv
  <2>2. LocksInv'
    BY <1>7, <2>1 DEF AM_DVR_Read, Goto, device, calls, TypeOK, LocksInv
  <2> QED BY <2>1, <2>2
<1>8. ASSUME NEW c \in Callers, ReadReturns(c)
      PROVE  TypeOK' /\ LocksInv'
  <2>1. TypeOK'
    BY <1>8 DEF ReadReturns, Unlock, Goto, device, calls, TypeOK, LocksInv
  <2>2. LocksInv'
    BY <1>8, <2>1 DEF ReadReturns, Unlock, Goto, device, calls, TypeOK, LocksInv
  <2> QED BY <2>1, <2>2
<1>9. ASSUME NEW c \in Callers, AM_DVR_Close(c)
      PROVE  TypeOK' /\ LocksInv'
  <2>1. TypeOK'
    BY <1>9 DEF AM_DVR_Close, Goto, device, calls, TypeOK, LocksInv
  <2>2. LocksInv'
    BY <1>9, <2>1 DEF AM_DVR_Close, Goto, device, calls, TypeOK, LocksInv
  <2> QED BY <2>1, <2>2
<1>10. ASSUME NEW c \in Callers, CloseReturns(c)
      PROVE  TypeOK' /\ LocksInv'
  <2>1. open_cnt' \in Nat /\ stream_cnt' \in 0..MaxStreams
    BY <1>10 DEF CloseReturns, ClearStreams, CountClose, Goto, device, calls,
         TypeOK, LocksInv
  <2>2. record' \in BOOLEAN /\ live' \in BOOLEAN
    BY <1>10 DEF CloseReturns, ClearStreams, CountClose, Goto, device, calls, TypeOK
  <2>3. /\ fid' \in [Slots -> Fids \cup {NoFid}]
        /\ owner' \in [Fids -> {"free", "dvr", "other"}]
    BY <1>10 DEF CloseReturns, ClearStreams, CountClose, Goto, device, calls, TypeOK
  <2>4. lock' \in Callers \cup {Nobody} /\ gAdpLock' \in Callers \cup {Nobody}
    BY <1>10 DEF CloseReturns, ClearStreams, CountClose, Goto, device, calls, TypeOK
  <2>5. pc' \in [Callers -> CallPCs]
    BY <1>10 DEF CloseReturns, ClearStreams, CountClose, Goto, device, calls, TypeOK
  <2>6. i' \in [Callers -> 0..MaxStreams]
    BY <1>10 DEF CloseReturns, ClearStreams, CountClose, Goto, device, calls, TypeOK
  <2>7. ref' \in [Callers -> BOOLEAN]
    BY <1>10 DEF CloseReturns, ClearStreams, CountClose, Goto, device, calls, TypeOK
  <2>8. LocksInv'
    BY <1>10 DEF CloseReturns, ClearStreams, CountClose, Goto, device, calls,
         TypeOK, LocksInv
  <2> QED BY <2>1, <2>2, <2>3, <2>4, <2>5, <2>6, <2>7, <2>8 DEF TypeOK
<1>11. ASSUME NEW c \in Callers, AM_DVR_Open(c)
      PROVE  TypeOK' /\ LocksInv'
  <2>1. open_cnt' \in Nat /\ stream_cnt' \in 0..MaxStreams
    BY <1>11 DEF AM_DVR_Open, device, calls, TypeOK, LocksInv
  <2>2. record' \in BOOLEAN /\ live' \in BOOLEAN
    BY <1>11 DEF AM_DVR_Open, device, calls, TypeOK
  <2>3. /\ fid' \in [Slots -> Fids \cup {NoFid}]
        /\ owner' \in [Fids -> {"free", "dvr", "other"}]
    BY <1>11 DEF AM_DVR_Open, device, calls, TypeOK
  <2>4. lock' \in Callers \cup {Nobody} /\ gAdpLock' \in Callers \cup {Nobody}
    BY <1>11 DEF AM_DVR_Open, device, calls, TypeOK
  <2>5. pc' \in [Callers -> CallPCs]
    BY <1>11 DEF AM_DVR_Open, device, calls, TypeOK
  <2>6. i' \in [Callers -> 0..MaxStreams]
    BY <1>11 DEF AM_DVR_Open, device, calls, TypeOK
  <2>7. ref' \in [Callers -> BOOLEAN]
    BY <1>11 DEF AM_DVR_Open, device, calls, TypeOK
  <2>8. LocksInv'
    BY <1>11 DEF AM_DVR_Open, device, calls, TypeOK, LocksInv
  <2> QED BY <2>1, <2>2, <2>3, <2>4, <2>5, <2>6, <2>7, <2>8 DEF TypeOK
<1>12. ASSUME NEW c \in Callers, OpenFails(c)
      PROVE  TypeOK' /\ LocksInv'
  <2>1. TypeOK'
    BY <1>12 DEF OpenFails, device, calls, TypeOK, LocksInv
  <2>2. LocksInv'
    BY <1>12, <2>1 DEF OpenFails, device, calls, TypeOK, LocksInv
  <2> QED BY <2>1, <2>2
<1>13. ASSUME NEW c \in Callers,
             NEW op \in {"StartRecord", "StopRecord", "Read"}, Call(c, op)
      PROVE  TypeOK' /\ LocksInv'
  <2>1. TypeOK'
    BY <1>13 DEF Call, MayCall, Goto, device, calls, TypeOK, LocksInv
  <2>2. LocksInv'
    BY <1>13, <2>1 DEF Call, MayCall, Goto, device, calls, TypeOK, LocksInv
  <2> QED BY <2>1, <2>2
<1>14. ASSUME NEW c \in Callers, CallClose(c)
      PROVE  TypeOK' /\ LocksInv'
  <2>1. TypeOK'
    BY <1>14 DEF CallClose, MayCall, Goto, device, calls, TypeOK, LocksInv
  <2>2. LocksInv'
    BY <1>14, <2>1 DEF CallClose, MayCall, Goto, device, calls, TypeOK, LocksInv
  <2> QED BY <2>1, <2>2
<1>15. ASSUME NEW f \in Fids, OtherAllocates(f)
      PROVE  TypeOK' /\ LocksInv'
  <2>1. TypeOK'
    BY <1>15 DEF OtherAllocates, device, calls, TypeOK, LocksInv
  <2>2. LocksInv'
    BY <1>15, <2>1 DEF OtherAllocates, device, calls, TypeOK, LocksInv
  <2> QED BY <2>1, <2>2
<1>16. ASSUME NEW f \in Fids, OtherFrees(f)
      PROVE  TypeOK' /\ LocksInv'
  <2>1. TypeOK'
    BY <1>16 DEF OtherFrees, device, calls, TypeOK, LocksInv
  <2>2. LocksInv'
    BY <1>16, <2>1 DEF OtherFrees, device, calls, TypeOK, LocksInv
  <2> QED BY <2>1, <2>2
<1>17. ASSUME UNCHANGED vars
      PROVE  TypeOK' /\ LocksInv'
  <2>1. TypeOK'
    BY <1>17 DEF vars, device, calls, TypeOK, LocksInv
  <2>2. LocksInv'
    BY <1>17, <2>1 DEF vars, device, calls, TypeOK, LocksInv
  <2> QED BY <2>1, <2>2
<1> QED BY NextCases, <1>1, <1>2, <1>3, <1>4, <1>5, <1>6, <1>7, <1>8, <1>9, <1>10,
     <1>11, <1>12, <1>13, <1>14, <1>15, <1>16, <1>17

\* Closers keep apart from the other calls.
LEMMA OpenStep ==
  ASSUME CloseAlone, TypeOK, LocksInv, OpenInv, [Next]_vars
  PROVE  OpenInv'
<1> USE StreamAssumption, FidAssumption, CallerAssumption DEF Slots, LockPCs, CallPCs, ClosePCs
<1>1. ASSUME NEW c \in Callers, NEW n \in 1..MaxStreams + 1, AM_DVR_StartRecord(c, n)
      PROVE  OpenInv'
  BY <1>1, AddStreams DEF AM_DVR_StartRecord, Goto, device, calls, TypeOK, LocksInv,
       OpenInv
<1>2. ASSUME NEW c \in Callers, dvr_start_stream(c)
      PROVE  OpenInv'
  BY <1>2 DEF dvr_start_stream, device, calls, TypeOK, LocksInv, OpenInv
<1>3. ASSUME NEW c \in Callers, StartRecordReturns(c)
      PROVE  OpenInv'
  BY <1>3 DEF StartRecordReturns, Goto, device, calls, TypeOK, LocksInv, OpenInv
<1>4. ASSUME NEW c \in Callers, AM_DVR_StopRecord(c)
      PROVE  OpenInv'
  BY <1>4 DEF AM_DVR_StopRecord, Goto, device, calls, TypeOK, LocksInv, OpenInv
<1>5. ASSUME NEW c \in Callers, dvr_stop_stream(c)
      PROVE  OpenInv'
  BY <1>5 DEF dvr_stop_stream, AM_DMX_FreeFilter, ForgetFid, device, calls, TypeOK,
       LocksInv, OpenInv
<1>6. ASSUME NEW c \in Callers, StopRecordReturns(c)
      PROVE  OpenInv'
  BY <1>6 DEF StopRecordReturns, ClearStreams, Goto, device, calls, TypeOK,
       LocksInv, OpenInv
<1>7. ASSUME NEW c \in Callers, AM_DVR_Read(c)
      PROVE  OpenInv'
  BY <1>7 DEF AM_DVR_Read, Goto, device, calls, TypeOK, LocksInv, OpenInv
<1>8. ASSUME NEW c \in Callers, ReadReturns(c)
      PROVE  OpenInv'
  BY <1>8 DEF ReadReturns, Unlock, Goto, device, calls, TypeOK, LocksInv, OpenInv
<1>9. ASSUME NEW c \in Callers, AM_DVR_Close(c)
      PROVE  OpenInv'
  BY <1>9 DEF AM_DVR_Close, Goto, device, calls, TypeOK, LocksInv, OpenInv
<1>10. ASSUME NEW c \in Callers, CloseReturns(c)
      PROVE  OpenInv'
  BY <1>10 DEF CloseReturns, ClearStreams, CountClose, Goto, device, calls, TypeOK,
       LocksInv, OpenInv
<1>11. ASSUME NEW c \in Callers, AM_DVR_Open(c)
      PROVE  OpenInv'
  BY <1>11 DEF AM_DVR_Open, device, calls, TypeOK, LocksInv, OpenInv
<1>12. ASSUME NEW c \in Callers, OpenFails(c)
      PROVE  OpenInv'
  BY <1>12 DEF OpenFails, device, calls, TypeOK, LocksInv, OpenInv
<1>13. ASSUME NEW c \in Callers,
             NEW op \in {"StartRecord", "StopRecord", "Read"}, Call(c, op)
      PROVE  OpenInv'
  BY <1>13 DEF Call, MayCall, Goto, device, calls, TypeOK, LocksInv, OpenInv
<1>14. ASSUME NEW c \in Callers, CallClose(c)
      PROVE  OpenInv'
  BY <1>14 DEF CallClose, MayCall, Goto, device, calls, TypeOK, LocksInv, OpenInv
<1>15. ASSUME NEW f \in Fids, OtherAllocates(f)
      PROVE  OpenInv'
  BY <1>15 DEF OtherAllocates, device, calls, TypeOK, LocksInv, OpenInv
<1>16. ASSUME NEW f \in Fids, OtherFrees(f)
      PROVE  OpenInv'
  BY <1>16 DEF OtherFrees, device, calls, TypeOK, LocksInv, OpenInv
<1>17. ASSUME UNCHANGED vars
      PROVE  OpenInv'
  BY <1>17 DEF vars, device, calls, TypeOK, LocksInv, OpenInv
<1> QED BY NextCases, <1>1, <1>2, <1>3, <1>4, <1>5, <1>6, <1>7, <1>8, <1>9, <1>10,
     <1>11, <1>12, <1>13, <1>14, <1>15, <1>16, <1>17

\* The holders of an open, counted.
LEMMA HolderCount ==
  ASSUME TypeOK, CountInv, NEW c \in Callers
  PROVE  /\ ref[c] => open_cnt >= 1
         /\ ~ref[c] => Cardinality(Holders \cup {c}) = open_cnt + 1
         /\ ref[c] => Cardinality(Holders \ {c}) = open_cnt - 1
<1>1. IsFiniteSet(Holders)
  BY FS_Subset, CallerAssumption, Holders \in SUBSET Callers DEF Holders
<1>2. Cardinality(Holders \cup {c}) =
        IF c \in Holders THEN Cardinality(Holders) ELSE Cardinality(Holders) + 1
  BY <1>1, FS_AddElement
<1>3. Cardinality(Holders \ {c}) =
        IF c \in Holders THEN Cardinality(Holders) - 1 ELSE Cardinality(Holders)
  BY <1>1, FS_RemoveElement
<1>4. open_cnt = Cardinality(Holders) /\ open_cnt \in Nat
  BY DEF TypeOK, CountInv
<1>5. c \in Holders <=> ref[c]
  BY DEF Holders
<1>6. Cardinality(Holders) = 0 <=> Holders = {}
  BY <1>1, FS_EmptySet
<1> QED BY <1>2, <1>3, <1>4, <1>5, <1>6

\* Only opens and closes count.
LEMMA RefStep ==
  ASSUME [Next]_vars
  PROVE  \/ UNCHANGED <<open_cnt, live, ref>>
         \/ \E c \in Callers : AM_DVR_Open(c) \/ CloseReturns(c)
<1>1. ASSUME NEW c \in Callers,
             \/ \E n \in 1..MaxStreams + 1 : AM_DVR_StartRecord(c, n)
             \/ dvr_start_stream(c) \/ StartRecordReturns(c)
             \/ AM_DVR_StopRecord(c) \/ dvr_stop_stream(c) \/ StopRecordReturns(c)
      PROVE  UNCHANGED <<open_cnt, live, ref>>
  BY <1>1 DEF AM_DVR_StartRecord, dvr_start_stream, StartRecordReturns,
       AM_DVR_StopRecord, dvr_stop_stream, StopRecordReturns, device
<1>2. ASSUME NEW c \in Callers,
             \/ AM_DVR_Read(c) \/ ReadReturns(c) \/ AM_DVR_Close(c) \/ OpenFails(c)
             \/ \E op \in {"StartRecord", "StopRecord", "Read"} : Call(c, op)
             \/ CallClose(c)
      PROVE  UNCHANGED <<open_cnt, live, ref>>
  BY <1>2 DEF AM_DVR_Read, ReadReturns, AM_DVR_Close, OpenFails, Call, CallClose, device
<1>3. ASSUME NEW f \in Fids, OtherAllocates(f) \/ OtherFrees(f)
      PROVE  UNCHANGED <<open_cnt, live, ref>>
  BY <1>3 DEF OtherAllocates, OtherFrees, device
<1>4. CASE UNCHANGED vars
  BY <1>4 DEF vars, device
<1> QED BY NextCases, <1>1, <1>2, <1>3, <1>4

\* The count of the opens; a close tears the device down.
LEMMA CountStep ==
  ASSUME TypeOK, OpenInv, CountInv, [Next]_vars
  PROVE  CountInv'
<1>t. open_cnt \in Nat /\ ref \in [Callers -> BOOLEAN]
  BY DEF TypeOK
<1>1. CASE UNCHANGED <<open_cnt, live, ref>>
  BY <1>1 DEF CountInv, Holders
<1>2. ASSUME NEW c \in Callers, AM_DVR_Open(c) PROVE CountInv'
  <2>1. ~ref[c] /\ open_cnt' = open_cnt + 1 /\ ref' = [ref EXCEPT ![c] = TRUE]
    BY <1>2 DEF AM_DVR_Open
  <2>2. Holders' = Holders \cup {c}
    BY <1>t, <2>1 DEF Holders
  <2>3. open_cnt' = Cardinality(Holders')
    BY <2>1, <2>2, HolderCount
  <2> QED BY <1>t, <2>1, <2>3 DEF CountInv
<1>3. ASSUME NEW c \in Callers, CloseReturns(c) PROVE CountInv'
  <2>1. /\ pc[c] = "closing" /\ open_cnt' = open_cnt - 1 /\ live' = FALSE
        /\ ref' = [ref EXCEPT ![c] = FALSE]
    BY <1>3 DEF CloseReturns, CountClose
  <2>2. ref[c]
    BY <2>1 DEF OpenInv, ClosePCs
  <2>3. Holders' = Holders \ {c}
    BY <1>t, <2>1 DEF Holders
  <2>4. open_cnt' = Cardinality(Holders')
    BY <2>1, <2>2, <2>3, HolderCount
  <2> QED BY <2>1, <2>4 DEF CountInv
<1> QED BY <1>1, <1>2, <1>3, RefStep

\* The table of streams.
LEMMA StreamStep ==
  ASSUME CloseAlone, TypeOK, LocksInv, OpenInv, CountInv, StreamInv, [Next]_vars
  PROVE  StreamInv'
<1> USE StreamAssumption, FidAssumption, CallerAssumption DEF Slots, LockPCs, CallPCs, ClosePCs, CountInv
<1>1. ASSUME NEW c \in Callers, NEW n \in 1..MaxStreams + 1, AM_DVR_StartRecord(c, n)
      PROVE  StreamInv'
  <2>0. ASSUME ~record PROVE stream_cnt = 0 /\ \A s \in Slots : fid[s] = NoFid
    <3>1. \A d \in Callers : pc[d] # "starting"
      BY <1>1 DEF AM_DVR_StartRecord, LocksInv
    <3> QED BY <2>0, <3>1 DEF StreamInv, TypeOK
  <2>1. CASE record
    <3>1. /\ UNCHANGED <<record, stream_cnt, fid, live, i>>
          /\ \A d \in Callers : pc'[d] = IF d = c THEN "idle" ELSE pc[d]
      BY <1>1, <2>1 DEF AM_DVR_StartRecord, Goto, TypeOK
    <3>2. pc[c] = "StartRecord"
      BY <1>1 DEF AM_DVR_StartRecord
    <3> QED BY <3>1, <3>2 DEF StreamInv
  <2>2. CASE ~record
    <3>1. /\ dvr_add_stream(Min({n, MaxStreams}))
          /\ UNCHANGED <<record, live>>
          /\ pc' = [pc EXCEPT ![c] = "starting"]
      BY <1>1, <2>2 DEF AM_DVR_StartRecord, Goto
    <3>2. stream_cnt' \in 1..MaxStreams /\ \A s \in Slots : fid'[s] = NoFid
      BY <2>0, <2>2, <3>1, AddStreams
    <3>3. pc'[c] = "starting" /\ live /\ ~record'
      <4>1. pc[c] = "StartRecord"
        BY <1>1 DEF AM_DVR_StartRecord
      <4>2. live
        BY <4>1 DEF OpenInv
      <4>3. pc'[c] = "starting"
        BY <3>1 DEF TypeOK
      <4> QED BY <2>2, <3>1, <4>2, <4>3
    <3> QED BY <3>1, <3>2, <3>3 DEF StreamInv
  <2> QED BY <2>1, <2>2
<1>2. ASSUME NEW c \in Callers, dvr_start_stream(c)
      PROVE  StreamInv'
  BY <1>2 DEF dvr_start_stream, device, calls, TypeOK, LocksInv, OpenInv, StreamInv
<1>3. ASSUME NEW c \in Callers, StartRecordReturns(c)
      PROVE  StreamInv'
  <2>1. /\ record' = TRUE
        /\ UNCHANGED <<stream_cnt, fid, live, i>>
        /\ pc[c] = "starting"
        /\ \A d \in Callers : pc'[d] = IF d = c THEN "idle" ELSE pc[d]
    BY <1>3 DEF StartRecordReturns, Goto, TypeOK
  <2>2. \A d \in Callers : pc'[d] # "starting"
    BY <2>1 DEF LocksInv
  <2>3. stream_cnt' > 0 /\ live
    BY <2>1 DEF StreamInv, OpenInv
  <2> QED BY <2>1, <2>2, <2>3 DEF StreamInv
<1>4. ASSUME NEW c \in Callers, AM_DVR_StopRecord(c)
      PROVE  StreamInv'
  BY <1>4 DEF AM_DVR_StopRecord, Goto, device, calls, TypeOK, LocksInv, OpenInv,
       StreamInv
<1>5. ASSUME NEW c \in Callers, dvr_stop_stream(c)
      PROVE  StreamInv'
  BY <1>5 DEF dvr_stop_stream, AM_DMX_FreeFilter, ForgetFid, device, calls, TypeOK,
       LocksInv, OpenInv, StreamInv
<1>6. ASSUME NEW c \in Callers, StopRecordReturns(c)
      PROVE  StreamInv'
  BY <1>6 DEF StopRecordReturns, ClearStreams, Goto, device, calls, TypeOK,
       LocksInv, OpenInv, StreamInv
<1>7. ASSUME NEW c \in Callers, AM_DVR_Read(c)
      PROVE  StreamInv'
  BY <1>7 DEF AM_DVR_Read, Goto, device, calls, TypeOK, LocksInv, OpenInv, StreamInv
<1>8. ASSUME NEW c \in Callers, ReadReturns(c)
      PROVE  StreamInv'
  BY <1>8 DEF ReadReturns, Unlock, Goto, device, calls, TypeOK, LocksInv, OpenInv,
       StreamInv
<1>9. ASSUME NEW c \in Callers, AM_DVR_Close(c)
      PROVE  StreamInv'
  BY <1>9 DEF AM_DVR_Close, Goto, device, calls, TypeOK, LocksInv, OpenInv, StreamInv
<1>10. ASSUME NEW c \in Callers, CloseReturns(c)
      PROVE  StreamInv'
  BY <1>10 DEF CloseReturns, ClearStreams, CountClose, Goto, device, calls, TypeOK,
       LocksInv, OpenInv, StreamInv
<1>11. ASSUME NEW c \in Callers, AM_DVR_Open(c)
      PROVE  StreamInv'
  BY <1>11 DEF AM_DVR_Open, device, calls, TypeOK, LocksInv, OpenInv, StreamInv
<1>12. ASSUME NEW c \in Callers, OpenFails(c)
      PROVE  StreamInv'
  BY <1>12 DEF OpenFails, device, calls, TypeOK, LocksInv, OpenInv, StreamInv
<1>13. ASSUME NEW c \in Callers,
             NEW op \in {"StartRecord", "StopRecord", "Read"}, Call(c, op)
      PROVE  StreamInv'
  BY <1>13 DEF Call, MayCall, Goto, device, calls, TypeOK, LocksInv, OpenInv, StreamInv
<1>14. ASSUME NEW c \in Callers, CallClose(c)
      PROVE  StreamInv'
  BY <1>14 DEF CallClose, MayCall, Goto, device, calls, TypeOK, LocksInv, OpenInv,
       StreamInv
<1>15. ASSUME NEW f \in Fids, OtherAllocates(f)
      PROVE  StreamInv'
  BY <1>15 DEF OtherAllocates, device, calls, TypeOK, LocksInv, OpenInv, StreamInv
<1>16. ASSUME NEW f \in Fids, OtherFrees(f)
      PROVE  StreamInv'
  BY <1>16 DEF OtherFrees, device, calls, TypeOK, LocksInv, OpenInv, StreamInv
<1>17. ASSUME UNCHANGED vars
      PROVE  StreamInv'
  BY <1>17 DEF vars, device, calls, TypeOK, LocksInv, OpenInv, StreamInv
<1> QED BY NextCases, <1>1, <1>2, <1>3, <1>4, <1>5, <1>6, <1>7, <1>8, <1>9, <1>10,
     <1>11, <1>12, <1>13, <1>14, <1>15, <1>16, <1>17

\* The filters of the streams.
LEMMA OwnStep ==
  ASSUME CloseAlone, TypeOK, LocksInv, OpenInv, CountInv, StreamInv,
         FidsOwned, NoFilterLost, [Next]_vars
  PROVE  FidsOwned' /\ NoFilterLost'
<1> USE StreamAssumption, FidAssumption, CallerAssumption DEF Slots, LockPCs, CallPCs, ClosePCs, CountInv
<1>1. ASSUME NEW c \in Callers, NEW n \in 1..MaxStreams + 1, AM_DVR_StartRecord(c, n)
      PROVE  FidsOwned' /\ NoFilterLost'
  <2>0. ASSUME ~record PROVE stream_cnt = 0 /\ \A s \in Slots : fid[s] = NoFid
    <3>1. \A d \in Callers : pc[d] # "starting"
      BY <1>1 DEF AM_DVR_StartRecord, LocksInv
    <3> QED BY <2>0, <3>1 DEF StreamInv, TypeOK
  <2>1. CASE record
    <3>1. UNCHANGED <<stream_cnt, fid, owner>>
      BY <1>1, <2>1 DEF AM_DVR_StartRecord
    <3> QED BY <3>1 DEF FidsOwned, NoFilterLost
  <2>2. CASE ~record
    <3>1. dvr_add_stream(Min({n, MaxStreams})) /\ UNCHANGED owner
      BY <1>1, <2>2 DEF AM_DVR_StartRecord
    <3>2. \A s \in Slots : fid'[s] = NoFid
      BY <2>0, <2>2, <3>1, AddStreams
    <3>3. \A f \in Fids : owner[f] # "dvr"
      BY <2>0, <2>2 DEF NoFilterLost
    <3> QED BY <3>1, <3>2, <3>3 DEF FidsOwned, NoFilterLost
  <2> QED BY <2>1, <2>2
<1>2. ASSUME NEW c \in Callers, dvr_start_stream(c)
      PROVE  FidsOwned' /\ NoFilterLost'
  <2>1. CASE UNCHANGED <<owner, fid>>
    BY <1>2, <2>1 DEF dvr_start_stream, FidsOwned, NoFilterLost
  <2>2. ASSUME NEW f \in Fids, fid[i[c]] = NoFid, owner[f] = "free",
               owner' = [owner EXCEPT ![f] = "dvr"],
               fid' = [fid EXCEPT ![i[c]] = f]
        PROVE  FidsOwned' /\ NoFilterLost'
    <3>1. i[c] \in Slots /\ i[c] < stream_cnt /\ stream_cnt' = stream_cnt
      BY <1>2 DEF dvr_start_stream, TypeOK
    <3>2. /\ \A s \in Slots : fid'[s] = IF s = i[c] THEN f ELSE fid[s]
          /\ \A g \in Fids : owner'[g] = IF g = f THEN "dvr" ELSE owner[g]
      BY <2>2, <3>1 DEF TypeOK
    <3>3. \A s \in Slots : fid[s] # f /\ fid[s] \in Fids \cup {NoFid}
      BY <2>2 DEF FidsOwned, TypeOK
    <3>4. FidsOwned'
      BY <3>2, <3>3 DEF FidsOwned
    <3>5. NoFilterLost'
      BY <2>2, <3>1, <3>2 DEF NoFilterLost
    <3> QED BY <3>4, <3>5
  <2> QED BY <1>2, <2>1, <2>2 DEF dvr_start_stream
<1>3. ASSUME NEW c \in Callers, StartRecordReturns(c)
      PROVE  FidsOwned' /\ NoFilterLost'
  <2>1. FidsOwned'
    BY <1>3 DEF StartRecordReturns, Goto, device, calls, TypeOK, LocksInv,
         OpenInv, StreamInv, FidsOwned
  <2>2. NoFilterLost'
    BY <1>3, <2>1 DEF StartRecordReturns, Goto, device, calls, TypeOK, LocksInv,
         OpenInv, StreamInv, FidsOwned, NoFilterLost
  <2> QED BY <2>1, <2>2
<1>4. ASSUME NEW c \in Callers, AM_DVR_StopRecord(c)
      PROVE  FidsOwned' /\ NoFilterLost'
  <2>1. FidsOwned'
    BY <1>4 DEF AM_DVR_StopRecord, Goto, device, calls, TypeOK, LocksInv, OpenInv,
         StreamInv, FidsOwned
  <2>2. NoFilterLost'
    BY <1>4, <2>1 DEF AM_DVR_StopRecord, Goto, device, calls, TypeOK, LocksInv,
         OpenInv, StreamInv, FidsOwned, NoFilterLost
  <2> QED BY <2>1, <2>2
<1>5. ASSUME NEW c \in Callers, dvr_stop_stream(c)
      PROVE  FidsOwned' /\ NoFilterLost'
  <2>1. CASE UNCHANGED <<owner, fid>>
    BY <1>5, <2>1 DEF dvr_stop_stream, FidsOwned, NoFilterLost
  <2>2. CASE fid[i[c]] # NoFid
    <3> DEFINE f == fid[i[c]]
    <3>1. i[c] \in Slots /\ stream_cnt' = stream_cnt
      BY <1>5 DEF dvr_stop_stream, TypeOK
    <3>2. f \in Fids
      BY <2>2, <3>1 DEF TypeOK
    <3>3. /\ \A s \in Slots : fid'[s] = IF s = i[c] THEN NoFid ELSE fid[s]
          /\ \A g \in Fids : owner'[g] = IF g = f THEN "free" ELSE owner[g]
      BY <1>5, <2>2, <3>1, <3>2 DEF dvr_stop_stream, AM_DMX_FreeFilter,
           ForgetFid, TypeOK
    <3>4. \A s \in Slots : fid[s] \in Fids \cup {NoFid} /\ (fid[s] = f => s = i[c])
      BY <2>2, <3>1 DEF FidsOwned, TypeOK
    <3> HIDE DEF f
    <3>5. FidsOwned'
      BY <3>3, <3>4 DEF FidsOwned
    <3>6. NoFilterLost'
      <4> SUFFICES ASSUME NEW g \in Fids, owner'[g] = "dvr"
                   PROVE  \E s \in Slots : s < stream_cnt' /\ fid'[s] = g
        BY DEF NoFilterLost
      <4>1. g # f /\ owner[g] = "dvr"
        BY <3>3
      <4>2. PICK s \in Slots : s < stream_cnt /\ fid[s] = g
        BY <4>1 DEF NoFilterLost
      <4> QED BY <3>1, <3>3, <4>1, <4>2 DEF f
    <3> QED BY <3>5, <3>6
  <2> QED BY <1>5, <2>1, <2>2 DEF dvr_stop_stream
<1>6. ASSUME NEW c \in Callers, StopRecordReturns(c)
      PROVE  FidsOwned' /\ NoFilterLost'
  <2>1. FidsOwned'
    BY <1>6 DEF StopRecordReturns, ClearStreams, Goto, device, calls, TypeOK,
         LocksInv, OpenInv, StreamInv, FidsOwned
  <2>2. NoFilterLost'
    BY <1>6, <2>1 DEF StopRecordReturns, ClearStreams, Goto, device, calls,
         TypeOK, LocksInv, OpenInv, StreamInv, FidsOwned, NoFilterLost
  <2> QED BY <2>1, <2>2
<1>7. ASSUME NEW c \in Callers, AM_DVR_Read(c)
      PROVE  FidsOwned' /\ NoFilterLost'
  <2>1. FidsOwned'
    BY <1>7 DEF AM_DVR_Read, Goto, device, calls, TypeOK, LocksInv, OpenInv,
         StreamInv, FidsOwned
  <2>2. NoFilterLost'
    BY <1>7, <2>1 DEF AM_DVR_Read, Goto, device, calls, TypeOK, LocksInv, OpenInv,
         StreamInv, FidsOwned, NoFilterLost
  <2> QED BY <2>1, <2>2
<1>8. ASSUME NEW c \in Callers, ReadReturns(c)
      PROVE  FidsOwned' /\ NoFilterLost'
  <2>1. FidsOwned'
    BY <1>8 DEF ReadReturns, Unlock, Goto, device, calls, TypeOK, LocksInv,
         OpenInv, StreamInv, FidsOwned
  <2>2. NoFilterLost'
    BY <1>8, <2>1 DEF ReadReturns, Unlock, Goto, device, calls, TypeOK, LocksInv,
         OpenInv, StreamInv, FidsOwned, NoFilterLost
  <2> QED BY <2>1, <2>2
<1>9. ASSUME NEW c \in Callers, AM_DVR_Close(c)
      PROVE  FidsOwned' /\ NoFilterLost'
  <2>1. FidsOwned'
    BY <1>9 DEF AM_DVR_Close, Goto, device, calls, TypeOK, LocksInv, OpenInv,
         StreamInv, FidsOwned
  <2>2. NoFilterLost'
    BY <1>9, <2>1 DEF AM_DVR_Close, Goto, device, calls, TypeOK, LocksInv,
         OpenInv, StreamInv, FidsOwned, NoFilterLost
  <2> QED BY <2>1, <2>2
<1>10. ASSUME NEW c \in Callers, CloseReturns(c)
      PROVE  FidsOwned' /\ NoFilterLost'
  <2>1. FidsOwned'
    BY <1>10 DEF CloseReturns, ClearStreams, CountClose, Goto, device, calls,
         TypeOK, LocksInv, OpenInv, StreamInv, FidsOwned
  <2>2. NoFilterLost'
    BY <1>10, <2>1 DEF CloseReturns, ClearStreams, CountClose, Goto, device,
         calls, TypeOK, LocksInv, OpenInv, StreamInv, FidsOwned, NoFilterLost
  <2> QED BY <2>1, <2>2
<1>11. ASSUME NEW c \in Callers, AM_DVR_Open(c)
      PROVE  FidsOwned' /\ NoFilterLost'
  <2>1. FidsOwned'
    BY <1>11 DEF AM_DVR_Open, device, calls, TypeOK, LocksInv, OpenInv, StreamInv,
         FidsOwned
  <2>2. NoFilterLost'
    BY <1>11, <2>1 DEF AM_DVR_Open, device, calls, TypeOK, LocksInv, OpenInv,
         StreamInv, FidsOwned, NoFilterLost
  <2> QED BY <2>1, <2>2
<1>12. ASSUME NEW c \in Callers, OpenFails(c)
      PROVE  FidsOwned' /\ NoFilterLost'
  <2>1. FidsOwned'
    BY <1>12 DEF OpenFails, device, calls, TypeOK, LocksInv, OpenInv, StreamInv,
         FidsOwned
  <2>2. NoFilterLost'
    BY <1>12, <2>1 DEF OpenFails, device, calls, TypeOK, LocksInv, OpenInv,
         StreamInv, FidsOwned, NoFilterLost
  <2> QED BY <2>1, <2>2
<1>13. ASSUME NEW c \in Callers,
             NEW op \in {"StartRecord", "StopRecord", "Read"}, Call(c, op)
      PROVE  FidsOwned' /\ NoFilterLost'
  <2>1. FidsOwned'
    BY <1>13 DEF Call, MayCall, Goto, device, calls, TypeOK, LocksInv, OpenInv,
         StreamInv, FidsOwned
  <2>2. NoFilterLost'
    BY <1>13, <2>1 DEF Call, MayCall, Goto, device, calls, TypeOK, LocksInv,
         OpenInv, StreamInv, FidsOwned, NoFilterLost
  <2> QED BY <2>1, <2>2
<1>14. ASSUME NEW c \in Callers, CallClose(c)
      PROVE  FidsOwned' /\ NoFilterLost'
  <2>1. FidsOwned'
    BY <1>14 DEF CallClose, MayCall, Goto, device, calls, TypeOK, LocksInv,
         OpenInv, StreamInv, FidsOwned
  <2>2. NoFilterLost'
    BY <1>14, <2>1 DEF CallClose, MayCall, Goto, device, calls, TypeOK, LocksInv,
         OpenInv, StreamInv, FidsOwned, NoFilterLost
  <2> QED BY <2>1, <2>2
<1>15. ASSUME NEW f \in Fids, OtherAllocates(f)
      PROVE  FidsOwned' /\ NoFilterLost'
  <2>1. FidsOwned'
    BY <1>15 DEF OtherAllocates, device, calls, TypeOK, LocksInv, OpenInv,
         StreamInv, FidsOwned
  <2>2. NoFilterLost'
    BY <1>15, <2>1 DEF OtherAllocates, device, calls, TypeOK, LocksInv, OpenInv,
         StreamInv, FidsOwned, NoFilterLost
  <2> QED BY <2>1, <2>2
<1>16. ASSUME NEW f \in Fids, OtherFrees(f)
      PROVE  FidsOwned' /\ NoFilterLost'
  <2>1. FidsOwned'
    BY <1>16 DEF OtherFrees, device, calls, TypeOK, LocksInv, OpenInv, StreamInv,
         FidsOwned
  <2>2. NoFilterLost'
    BY <1>16, <2>1 DEF OtherFrees, device, calls, TypeOK, LocksInv, OpenInv,
         StreamInv, FidsOwned, NoFilterLost
  <2> QED BY <2>1, <2>2
<1>17. ASSUME UNCHANGED vars
      PROVE  FidsOwned' /\ NoFilterLost'
  <2>1. FidsOwned'
    BY <1>17 DEF vars, device, calls, TypeOK, LocksInv, OpenInv, StreamInv, FidsOwned
  <2>2. NoFilterLost'
    BY <1>17, <2>1 DEF vars, device, calls, TypeOK, LocksInv, OpenInv, StreamInv,
         FidsOwned, NoFilterLost
  <2> QED BY <2>1, <2>2
<1> QED BY NextCases, <1>1, <1>2, <1>3, <1>4, <1>5, <1>6, <1>7, <1>8, <1>9, <1>10,
     <1>11, <1>12, <1>13, <1>14, <1>15, <1>16, <1>17

-----------------------------------------------------------------------------
(* Theorems.                                                               *)

\* Types, and the discipline of dev->lock and am_gAdpLock, need no assumption on
\* the clients.
LEMMA TypeInvariance == Spec => [](TypeOK /\ LocksInv)
<1>1. Init => TypeOK
  <2> SUFFICES ASSUME Init PROVE TypeOK
    OBVIOUS
  <2>1. open_cnt \in Nat /\ stream_cnt \in 0..MaxStreams /\ i \in [Callers -> 0..MaxStreams]
    BY StreamAssumption DEF Init
  <2>2. record \in BOOLEAN /\ live \in BOOLEAN /\ ref \in [Callers -> BOOLEAN]
    BY DEF Init
  <2>3. /\ fid \in [Slots -> Fids \cup {NoFid}]
        /\ owner \in [Fids -> {"free", "dvr", "other"}]
    BY DEF Init
  <2>4. lock \in Callers \cup {Nobody} /\ gAdpLock \in Callers \cup {Nobody}
    BY DEF Init
  <2>5. pc \in [Callers -> CallPCs]
    BY DEF Init, CallPCs
  <2> QED BY <2>1, <2>2, <2>3, <2>4, <2>5 DEF TypeOK
<1>2. Init => LocksInv
  BY CallerAssumption DEF Init, LocksInv, LockPCs
<1>3. TypeOK /\ LocksInv /\ [Next]_vars => (TypeOK /\ LocksInv)'
  BY TypeStep
<1> QED BY <1>1, <1>2, <1>3, PTL DEF Spec

\* Every variable of the recorder keeps its type: the table never holds more than
\* AM_DVR_MAX_PID_COUNT streams and open_cnt is never negative, also if several
\* clients open and close the device.
THEOREM TypeCorrect == Spec => []TypeOK
  BY TypeInvariance, PTL

\* The inductive invariant of a recorder whose clients keep their closes apart from
\* their other calls.
THEOREM Invariance == ASSUME CloseAlone PROVE Spec => []IInv
<1> DEFINE Rest == OpenInv /\ CountInv /\ StreamInv /\ FidsOwned /\ NoFilterLost
<1>1. Init => OpenInv
  BY DEF Init, OpenInv, ClosePCs
<1>2. Init => CountInv
  <2> SUFFICES ASSUME Init PROVE CountInv
    OBVIOUS
  <2>1. Holders = {} /\ open_cnt = 0 /\ ~live
    BY DEF Init, Holders
  <2> QED BY <2>1, FS_EmptySet DEF CountInv
<1>3. Init => StreamInv /\ FidsOwned /\ NoFilterLost
  BY DEF Init, StreamInv, FidsOwned, NoFilterLost
<1>4. TypeOK /\ LocksInv /\ Rest /\ [Next]_vars => Rest'
  BY OpenStep, CountStep, StreamStep, OwnStep
<1> QED BY <1>1, <1>2, <1>3, <1>4, TypeInvariance, PTL DEF Spec, IInv

\* The opens of any number of clients are counted although every close tears the
\* device down: it is set up by the first open after all have closed, never while
\* it works, and a device that is torn down has no filters.
THEOREM DeviceCorrect == ASSUME CloseAlone PROVE Spec => []DeviceCounted
<1>1. ASSUME IInv PROVE DeviceCounted
  <2>1. open_cnt = Cardinality(Holders) /\ (live => open_cnt > 0)
    BY <1>1 DEF IInv, CountInv
  <2>2. live \/ \A f \in Fids : owner[f] # "dvr"
    <3> SUFFICES ASSUME ~live, NEW f \in Fids, owner[f] = "dvr" PROVE FALSE
      OBVIOUS
    <3>1. stream_cnt = 0 /\ \E s \in Slots : s < stream_cnt
      BY <1>1 DEF IInv, StreamInv, NoFilterLost
    <3> QED BY <3>1, StreamAssumption DEF Slots
  <2> QED BY <2>1, <2>2 DEF DeviceCounted
<1> QED BY <1>1, Invariance, PTL

\* The recorder never frees a filter of another client of the demux.
THEOREM FidsCorrect == ASSUME CloseAlone PROVE Spec => []FidsOwned
<1>1. IInv => FidsOwned
  BY DEF IInv
<1> QED BY <1>1, Invariance, PTL

\* The recorder loses no filter, whichever allocations fail.
THEOREM FiltersKept == ASSUME CloseAlone PROVE Spec => []NoFilterLost
<1>1. IInv => NoFilterLost
  BY DEF IInv
<1> QED BY <1>1, Invariance, PTL

\* Between calls there are streams exactly while dev->record is set.
THEOREM StreamsCorrect == ASSUME CloseAlone PROVE Spec => []StreamsOnlyInRecord
<1>1. IInv => StreamsOnlyInRecord
  BY CallerAssumption DEF IInv, LocksInv, StreamInv, StreamsOnlyInRecord, LockPCs
<1> QED BY <1>1, Invariance, PTL
=============================================================================
