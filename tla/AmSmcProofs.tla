----------------------------- MODULE AmSmcProofs -----------------------------
(***************************************************************************)
(* Theorems about AmSmc for any number of clients and callbacks.           *)
(***************************************************************************)
EXTENDS AmSmc, SequenceTheorems, TLAPS

\* The disjuncts of Next.
LEMMA NextCases ==
  ASSUME [Next]_vars
  PROVE  \/ \E c \in Clients :
              \/ AM_SMC_Open(c) \/ AM_SMC_Close(c) \/ CloseJoined(c)
              \/ CallSetCallback(c) \/ AM_SMC_SetCallback(c)
              \/ AM_SMC_Reset(c) \/ AM_SMC_TransferT0(c)
              \/ SendHeader(c) \/ ReadProcedure(c) \/ ReadData(c) \/ ReadOne(c)
              \/ ReadStatus(c) \/ TransferFails(c)
         \/ GetStatus \/ ThreadExit \/ SetRunCb \/ CallCallback
         \/ ClearRunCb \/ Broadcast
         \/ CallbackReturns \/ SetCallbackInCallback \/ CardActs
         \/ UNCHANGED vars
  BY DEF Next, Client, Transferring, smc_status_thread

\* What the actions do to dev->lock's owner, the command and rxlen.
LEMMA OneLessRange ==
  ASSUME rxlen \in 0 .. 255
  PROVE  OneLess \in 0 .. 255
  BY DEF OneLess

\* A command of a client.
LEMMA CommandType ==
  ASSUME NEW c \in Clients, NEW command \in Commands(c)
  PROVE  /\ command \in CommandRec
         /\ command.n \in 1 .. 255 /\ command.by = c /\ command.dir \in {"read", "write"}
<1>1. command.n \in 1 .. 255 /\ command.by = c /\ command.dir \in {"read", "write"}
  BY SizeAssumption DEF Commands
<1> QED BY <1>1, SizeAssumption DEF Commands, CommandRec

-----------------------------------------------------------------------------
(* Types.                                                                  *)

\* The device and its clients keep their types, rxlen as an uint8_t.
LEMMA TypeStep ==
  ASSUME TypeOK, [Next]_vars
  PROVE  TypeOK'
<1>n. NoCommand \in CommandRec
  BY DEF NoCommand, CommandRec
<1>1. ASSUME NEW c \in Clients, AM_SMC_Open(c) PROVE TypeOK'
  <2>1. /\ enable_thread' \in BOOLEAN /\ held' \in BOOLEAN
        /\ thread' \in {"none", "top"}
    BY <1>1 DEF AM_SMC_Open
  <2> QED BY <1>1, <2>1 DEF AM_SMC_Open, TypeOK, slot
<1>2. ASSUME NEW c \in Clients, AM_SMC_Close(c) PROVE TypeOK'
  <2>1. /\ openned' \in BOOLEAN /\ enable_thread' \in BOOLEAN /\ held' \in BOOLEAN
        /\ run_cb' \in BOOLEAN /\ dirty' \in BOOLEAN /\ present' \in BOOLEAN
    BY <1>2 DEF AM_SMC_Close, Goto, TypeOK, callback, watcher, transfer, slot
  <2> QED BY <1>2, <2>1 DEF AM_SMC_Close, Goto, TypeOK, callback, watcher, transfer, slot
<1>3. ASSUME NEW c \in Clients, CloseJoined(c) PROVE TypeOK'
  BY <1>3, ZenonT(30) DEF CloseJoined, Goto, TypeOK, transfer, slot
<1>4. ASSUME NEW c \in Clients, CallSetCallback(c) PROVE TypeOK'
  BY <1>4 DEF CallSetCallback, Goto, TypeOK, device, callback, watcher, transfer, slot
<1>5. ASSUME NEW c \in Clients, AM_SMC_SetCallback(c) PROVE TypeOK'
  <2>1. UNCHANGED <<device, run_cb, watcher, transfer, slot>>
    BY <1>5 DEF AM_SMC_SetCallback
  <2>2. CASE run_cb
    <3>1. pc' = [pc EXCEPT ![c] = "asleep"] /\ UNCHANGED <<cb, retired, told, want>>
      BY <1>5, <2>2 DEF AM_SMC_SetCallback, Goto
    <3> QED BY <2>1, <3>1 DEF TypeOK, device, watcher, transfer, slot
  <2>3. CASE ~run_cb
    <3>1. /\ pc' = [pc EXCEPT ![c] = "idle"] /\ cb' = want[c] /\ retired' \subseteq Cbs
          /\ told' \in {"none", "in", "out"} /\ want' = [want EXCEPT ![c] = NoCb]
      BY <1>5, <2>3 DEF AM_SMC_SetCallback, Goto, TypeOK
    <3> QED BY <2>1, <3>1 DEF TypeOK, device, watcher, transfer, slot
  <2> QED BY <2>2, <2>3
<1>6. ASSUME NEW c \in Clients, AM_SMC_Reset(c) PROVE TypeOK'
  <2>1. /\ openned' \in BOOLEAN /\ enable_thread' \in BOOLEAN /\ held' \in BOOLEAN
        /\ run_cb' \in BOOLEAN /\ dirty' \in BOOLEAN /\ present' \in BOOLEAN
    BY <1>6 DEF AM_SMC_Reset, TypeOK, device, callback, watcher
  <2> QED BY <1>6, <2>1 DEF AM_SMC_Reset, TypeOK, device, callback, watcher
<1>7. ASSUME NEW c \in Clients, AM_SMC_TransferT0(c) PROVE TypeOK'
  <2>1. PICK command \in Commands(c) : cmd' = [cmd EXCEPT ![c] = command]
    BY <1>7 DEF AM_SMC_TransferT0
  <2>2. command \in CommandRec
    BY CommandType
  <2>3. cmd' \in [Clients -> CommandRec]
    BY <2>1, <2>2 DEF TypeOK
  <2> QED BY <1>7, <2>3 DEF AM_SMC_TransferT0, Goto, TypeOK, device, callback, watcher, slot
<1>8. ASSUME NEW c \in Clients, SendHeader(c) PROVE TypeOK'
  <2>1. rxlen' \in 0 .. 255
    BY <1>8 DEF SendHeader, TypeOK, CommandRec
  <2> QED BY <1>8, <2>1 DEF SendHeader, Goto, TypeOK, device, callback, watcher
\* The end of a transfer.
<1>f. ASSUME NEW c \in Clients, Final(c, TRUE) \/ Final(c, FALSE),
             UNCHANGED <<device, callback, watcher, want, present>>
      PROVE  TypeOK'
  <2>1. cmd' = [cmd EXCEPT ![c] = NoCommand]
    BY <1>f DEF Final
  <2>2. cmd' \in [Clients -> CommandRec]
    BY <1>n, <2>1 DEF TypeOK
  <2>3. dirty' \in BOOLEAN
    BY <1>f DEF Final, TypeOK
  <2> QED BY <1>f, <2>2, <2>3 DEF Final, Goto, TypeOK, device, callback, watcher
<1>9. ASSUME NEW c \in Clients, ReadProcedure(c) PROVE TypeOK'
  <2>1. UNCHANGED <<device, callback, watcher, want, present>>
    BY <1>9 DEF ReadProcedure
  <2>2. CASE Final(c, TRUE)
    BY <1>f, <2>1, <2>2
  <2>3. CASE ~Final(c, TRUE)
    <3>1. /\ lock' = lock /\ cmd' = cmd /\ rxlen' = rxlen /\ dirty' = dirty
          /\ \/ pc' = pc
             \/ \E x \in {"sw2", "proc", "data", "one"} : pc' = [pc EXCEPT ![c] = x]
      BY <1>9, <2>3 DEF ReadProcedure, Goto, transfer
    <3> QED BY <2>1, <3>1 DEF TypeOK, device, callback, watcher
  <2> QED BY <2>2, <2>3
<1>10. ASSUME NEW c \in Clients, ReadData(c) PROVE TypeOK'
  BY <1>10 DEF ReadData, Goto, TypeOK, device, callback, watcher
<1>11. ASSUME NEW c \in Clients, ReadOne(c) PROVE TypeOK'
  <2>1. rxlen' \in 0 .. 255
    BY <1>11, OneLessRange DEF ReadOne, TypeOK
  <2> QED BY <1>11, <2>1 DEF ReadOne, Goto, TypeOK, device, callback, watcher
<1>12. ASSUME NEW c \in Clients, ReadStatus(c) PROVE TypeOK'
  BY <1>12, <1>f DEF ReadStatus
<1>13. ASSUME NEW c \in Clients, TransferFails(c) PROVE TypeOK'
  BY <1>13, <1>f DEF TransferFails
<1>14. CASE GetStatus
  BY <1>14 DEF GetStatus, TypeOK, device, callback, transfer, slot
<1>15. CASE ThreadExit
  BY <1>15 DEF ThreadExit, TypeOK, device, callback, transfer, slot
<1>16. CASE SetRunCb
  BY <1>16 DEF SetRunCb, RaiseFlag, TypeOK, device, transfer, slot
<1>17. CASE CallCallback
  BY <1>17 DEF CallCallback, TypeOK, device, transfer, slot
<1>18. CASE ClearRunCb
  <2>1. /\ openned' \in BOOLEAN /\ enable_thread' \in BOOLEAN /\ held' \in BOOLEAN
        /\ run_cb' \in BOOLEAN /\ dirty' \in BOOLEAN /\ present' \in BOOLEAN
    BY <1>18 DEF ClearRunCb, TypeOK, device, transfer, slot
  <2> QED BY <1>18, <2>1 DEF ClearRunCb, TypeOK, device, transfer, slot
<1>19. CASE Broadcast
  BY <1>19 DEF Broadcast, WakeWaiters, TypeOK, device, callback, transfer, slot
<1>20. CASE CallbackReturns
  BY <1>20 DEF CallbackReturns, TypeOK, device, callback, transfer, slot
<1>21. CASE SetCallbackInCallback
  BY <1>21 DEF SetCallbackInCallback, TypeOK, device, watcher, transfer, slot
<1>22. CASE CardActs
  <2>1. present' \in BOOLEAN
    BY <1>22 DEF CardActs, CardMoves, TypeOK
  <2> QED BY <1>22, <2>1 DEF CardActs, TypeOK, device, callback, watcher, transfer
<1>23. CASE UNCHANGED vars
  BY <1>23 DEF vars, TypeOK, device, callback, watcher, transfer, slot
<1> QED BY <1>1, <1>2, <1>3, <1>4, <1>5, <1>6, <1>7, <1>8, <1>9, <1>10, <1>11, <1>12,
           <1>13, <1>14, <1>15, <1>16, <1>17, <1>18, <1>19, <1>20, <1>21, <1>22, <1>23,
           NextCases

-----------------------------------------------------------------------------
(* Open, close and the callback gate.                                      *)

\* Who holds dev->lock across steps.
LEMMA LockStep ==
  ASSUME TypeOK, LockInv, [Next]_vars
  PROVE  LockInv'
<1> DEFINE In == {"proc", "data", "one", "sw2"}
<1> USE NameAssumption
<1>p. /\ pc \in [Clients -> {"idle", "join", "setcb", "asleep",
                             "t0", "proc", "data", "one", "sw2"}]
      /\ lock \in Clients \cup {Nobody}
  BY DEF TypeOK
\* A client outside goes elsewhere outside, or one inside stays inside.
<1>g. ASSUME NEW c \in Clients, NEW l, pc' = [pc EXCEPT ![c] = l], lock' = lock,
             pc[c] \in In <=> l \in In
      PROVE  LockInv'
  <2>1. \A d \in Clients : pc'[d] = IF d = c THEN l ELSE pc[d]
    BY <1>g, <1>p
  <2> QED BY <1>g, <2>1 DEF LockInv
\* A transfer ends.
<1>f. ASSUME NEW c \in Clients, pc' = [pc EXCEPT ![c] = "idle"], lock' = Nobody, lock = c
      PROVE  LockInv'
  <2>1. \A d \in Clients : pc'[d] = IF d = c THEN "idle" ELSE pc[d]
    BY <1>f, <1>p
  <2> QED BY <1>f, <2>1 DEF LockInv
<1>u. ASSUME pc' = pc, lock' = lock PROVE LockInv'
  BY <1>u DEF LockInv
<1>1. ASSUME NEW c \in Clients,
             AM_SMC_Open(c) \/ AM_SMC_Reset(c)
      PROVE  LockInv'
  BY <1>1, <1>u DEF AM_SMC_Open, AM_SMC_Reset
<1>2. ASSUME NEW c \in Clients, AM_SMC_Close(c) PROVE LockInv'
  BY <1>2, <1>g DEF AM_SMC_Close, MayCall, Goto, transfer
<1>3. ASSUME NEW c \in Clients, CloseJoined(c) PROVE LockInv'
  BY <1>3, <1>g DEF CloseJoined, Goto, transfer
<1>4. ASSUME NEW c \in Clients, CallSetCallback(c) PROVE LockInv'
  BY <1>4, <1>g DEF CallSetCallback, MayCall, Goto, transfer
<1>5. ASSUME NEW c \in Clients, AM_SMC_SetCallback(c) PROVE LockInv'
  <2>1. pc[c] = "setcb" /\ lock' = lock
    BY <1>5 DEF AM_SMC_SetCallback, transfer
  <2>2. \E l \in {"idle", "asleep"} : pc' = [pc EXCEPT ![c] = l]
    BY <1>5 DEF AM_SMC_SetCallback, Goto
  <2> QED BY <1>g, <2>1, <2>2
<1>6. ASSUME NEW c \in Clients, AM_SMC_TransferT0(c) PROVE LockInv'
  BY <1>6, <1>g DEF AM_SMC_TransferT0, MayCall, Goto
<1>7. ASSUME NEW c \in Clients, SendHeader(c) PROVE LockInv'
  <2>1. lock = Nobody /\ lock' = c /\ pc' = [pc EXCEPT ![c] = "proc"]
    BY <1>7 DEF SendHeader, Goto
  <2>2. \A d \in Clients : pc'[d] = IF d = c THEN "proc" ELSE pc[d]
    BY <1>p, <2>1
  <2> QED BY <2>1, <2>2 DEF LockInv
<1>8. ASSUME NEW c \in Clients, ReadProcedure(c) PROVE LockInv'
  <2>1. pc[c] = "proc" /\ lock = c
    BY <1>8 DEF ReadProcedure, LockInv
  <2>2. CASE Final(c, TRUE)
    BY <1>f, <2>1, <2>2 DEF Final, Goto
  <2>3. CASE ~Final(c, TRUE)
    <3>1. /\ lock' = lock
          /\ pc' = pc \/ \E l \in {"sw2", "proc", "data", "one"} : pc' = [pc EXCEPT ![c] = l]
      BY <1>8, <2>3 DEF ReadProcedure, Goto, transfer
    <3> QED BY <1>g, <1>u, <2>1, <3>1
  <2> QED BY <2>2, <2>3
<1>9. ASSUME NEW c \in Clients, ReadData(c) PROVE LockInv'
  <2>1. /\ pc[c] = "data" /\ lock' = lock
        /\ pc' = pc \/ pc' = [pc EXCEPT ![c] = "proc"]
    BY <1>9 DEF ReadData, Goto
  <2> QED BY <1>g, <1>u, <2>1
<1>10. ASSUME NEW c \in Clients, ReadOne(c) PROVE LockInv'
  BY <1>10, <1>g DEF ReadOne, Goto
<1>11. ASSUME NEW c \in Clients, ReadStatus(c) PROVE LockInv'
  BY <1>11, <1>f DEF ReadStatus, Final, Goto, LockInv
<1>12. ASSUME NEW c \in Clients, TransferFails(c) PROVE LockInv'
  BY <1>12, <1>f DEF TransferFails, Final, Goto
<1>13. CASE GetStatus \/ ThreadExit \/ SetRunCb \/ CallCallback \/ ClearRunCb
  BY <1>13, <1>u DEF GetStatus, ThreadExit, SetRunCb, CallCallback, ClearRunCb, transfer
<1>14. CASE CallbackReturns \/ SetCallbackInCallback \/ CardActs
  BY <1>14, <1>u DEF CallbackReturns, SetCallbackInCallback, CardActs, transfer
<1>15. CASE Broadcast
  <2>1. /\ lock' = lock
        /\ \A d \in Clients : pc'[d] = IF pc[d] = "asleep" THEN "setcb" ELSE pc[d]
    BY <1>15 DEF Broadcast, WakeWaiters, transfer
  <2> QED BY <2>1 DEF LockInv
<1>16. CASE UNCHANGED vars
  BY <1>16, <1>u DEF vars, transfer
<1> QED BY <1>1, <1>2, <1>3, <1>4, <1>5, <1>6, <1>7, <1>8, <1>9, <1>10, <1>11, <1>12,
           <1>13, <1>14, <1>15, <1>16, NextCases

\* Who holds the device, and who closes it.
LEMMA LifeStep ==
  ASSUME TypeOK, LockInv, LifeInv, [Next]_vars
  PROVE  LifeInv'
<1> USE NameAssumption
<1>p. /\ pc \in [Clients -> {"idle", "join", "setcb", "asleep",
                             "t0", "proc", "data", "one", "sw2"}]
      /\ closer \in Clients \cup {Nobody}
  BY DEF TypeOK
\* A client that has the device goes on to another step of its call.
<1>g. ASSUME UNCHANGED <<openned, held, closer, thread>>, NEW c \in Clients,
             held, closer = Nobody, NEW l \in {"idle", "setcb", "asleep", "t0", "proc", "data", "one", "sw2"},
             pc' = [pc EXCEPT ![c] = l]
      PROVE  LifeInv'
  <2>1. \A d \in Clients : pc'[d] = IF d = c THEN l ELSE pc[d]
    BY <1>g, <1>p
  <2>2. \A d \in Clients : pc[d] # "join"
    BY <1>g DEF LifeInv
  <2>3. \A d \in Clients : pc'[d] # "join" /\ closer # d
    BY <1>g, <2>1, <2>2
  <2> QED BY <1>g, <2>3 DEF LifeInv
<1>h. ASSUME NEW c \in Clients, pc[c] \notin {"idle", "join"}
      PROVE  held /\ closer = Nobody
  BY <1>h, <1>p DEF LifeInv
\* Steps of the thread.
<1>t. ASSUME UNCHANGED <<openned, held, closer>>, pc' = pc, thread # "none"
      PROVE  LifeInv'
  BY <1>t DEF LifeInv
<1>1. ASSUME NEW c \in Clients, AM_SMC_Open(c) PROVE LifeInv'
  <2>1. ~held /\ (\A d \in Clients : pc[d] = "idle") /\ closer = Nobody
    BY <1>1 DEF AM_SMC_Open, LifeInv
  <2>2. openned' /\ pc' = pc /\ closer' = closer /\ (thread' # "none" => held')
    BY <1>1 DEF AM_SMC_Open
  <2> QED BY <2>1, <2>2 DEF LifeInv
<1>2. ASSUME NEW c \in Clients, AM_SMC_Close(c) PROVE LifeInv'
  <2>1. /\ held /\ closer' = c /\ pc' = [pc EXCEPT ![c] = "join"] /\ UNCHANGED <<openned, held, thread>>
        /\ \A d \in Clients : pc[d] = "idle"
    BY <1>2 DEF AM_SMC_Close, MayCall, Goto, watcher
  <2>2. \A d \in Clients : pc'[d] = IF d = c THEN "join" ELSE "idle"
    BY <1>p, <2>1
  <2> QED BY <2>1, <2>2 DEF LifeInv
<1>3. ASSUME NEW c \in Clients, CloseJoined(c) PROVE LifeInv'
  <2>1. /\ closer = c /\ closer' = Nobody /\ pc' = [pc EXCEPT ![c] = "idle"]
        /\ thread' = "none" /\ held' = FALSE
    BY <1>3 DEF CloseJoined, Goto, LifeInv
  <2>2. \A d \in Clients : pc'[d] = "idle"
    BY <1>p, <2>1 DEF LifeInv
  <2> QED BY <2>1, <2>2 DEF LifeInv
<1>4. ASSUME NEW c \in Clients, CallSetCallback(c) PROVE LifeInv'
  BY <1>4, <1>g DEF CallSetCallback, MayCall, Goto, device, watcher
<1>5. ASSUME NEW c \in Clients, AM_SMC_SetCallback(c) PROVE LifeInv'
  <2>1. UNCHANGED <<openned, held, closer, thread>> /\ held /\ closer = Nobody
    BY <1>5, <1>h DEF AM_SMC_SetCallback, device, watcher
  <2>2. \E l \in {"idle", "asleep"} : pc' = [pc EXCEPT ![c] = l]
    BY <1>5 DEF AM_SMC_SetCallback, Goto
  <2> QED BY <1>g, <2>1, <2>2
<1>6. ASSUME NEW c \in Clients, AM_SMC_Reset(c) PROVE LifeInv'
  BY <1>6 DEF AM_SMC_Reset, LifeInv, device, watcher
<1>7. ASSUME NEW c \in Clients, AM_SMC_TransferT0(c) PROVE LifeInv'
  BY <1>7, <1>g DEF AM_SMC_TransferT0, MayCall, Goto, device, watcher
<1>8. ASSUME NEW c \in Clients, SendHeader(c) PROVE LifeInv'
  BY <1>8, <1>g, <1>h DEF SendHeader, Goto, device, watcher
<1>9. ASSUME NEW c \in Clients, ReadProcedure(c) PROVE LifeInv'
  <2>1. UNCHANGED <<openned, held, closer, thread>> /\ held /\ closer = Nobody
    BY <1>9, <1>h DEF ReadProcedure, device, watcher
  <2>2. pc' = pc \/ \E l \in {"idle", "sw2", "proc", "data", "one"} : pc' = [pc EXCEPT ![c] = l]
    BY <1>9 DEF ReadProcedure, Final, Goto
  <2>3. CASE pc' = pc
    BY <2>1, <2>3 DEF LifeInv
  <2> QED BY <1>g, <2>1, <2>2, <2>3
<1>10. ASSUME NEW c \in Clients, ReadData(c) PROVE LifeInv'
  <2>1. UNCHANGED <<openned, held, closer, thread>> /\ held /\ closer = Nobody
    BY <1>10, <1>h DEF ReadData, device, watcher
  <2>2. pc' = pc \/ pc' = [pc EXCEPT ![c] = "proc"]
    BY <1>10 DEF ReadData, Goto
  <2>3. CASE pc' = pc
    BY <2>1, <2>3 DEF LifeInv
  <2> QED BY <1>g, <2>1, <2>2, <2>3
<1>11. ASSUME NEW c \in Clients, ReadOne(c) PROVE LifeInv'
  BY <1>11, <1>g, <1>h DEF ReadOne, Goto, device, watcher
<1>12. ASSUME NEW c \in Clients, ReadStatus(c) PROVE LifeInv'
  BY <1>12, <1>g, <1>h DEF ReadStatus, Final, Goto, device, watcher
<1>13. ASSUME NEW c \in Clients, TransferFails(c) PROVE LifeInv'
  BY <1>13, <1>g, <1>h DEF TransferFails, Final, Goto, device, watcher, LockInv
<1>14. CASE GetStatus
  BY <1>14, <1>t DEF GetStatus, device
<1>15. CASE ThreadExit
  BY <1>15, <1>t DEF ThreadExit, device
<1>16. CASE SetRunCb
  BY <1>16, <1>t DEF SetRunCb, device
<1>17. CASE CallCallback
  BY <1>17, <1>t DEF CallCallback, device
<1>18. CASE ClearRunCb
  BY <1>18, <1>t DEF ClearRunCb, device
<1>19. CASE Broadcast
  <2>1. /\ UNCHANGED <<openned, held, closer>> /\ held
        /\ \A d \in Clients : pc'[d] = IF pc[d] = "asleep" THEN "setcb" ELSE pc[d]
    BY <1>19 DEF Broadcast, WakeWaiters, device, LifeInv
  <2> QED BY <2>1 DEF LifeInv
<1>20. CASE CallbackReturns
  BY <1>20, <1>t DEF CallbackReturns, device
<1>21. CASE SetCallbackInCallback
  BY <1>21, <1>t DEF SetCallbackInCallback, device, watcher
<1>22. CASE CardActs
  BY <1>22 DEF CardActs, LifeInv, device, watcher
<1>23. CASE UNCHANGED vars
  BY <1>23 DEF vars, LifeInv, device, watcher
<1> QED BY <1>1, <1>2, <1>3, <1>4, <1>5, <1>6, <1>7, <1>8, <1>9, <1>10, <1>11, <1>12,
           <1>13, <1>14, <1>15, <1>16, <1>17, <1>18, <1>19, <1>20, <1>21, <1>22, <1>23,
           NextCases

\* No registration that runs, or that the thread may take up, has been retired.
LEMMA GateStep ==
  ASSUME ClearBeforeClose, TypeOK, LifeInv, GateInv, [Next]_vars
  PROVE  GateInv' /\ [Gate!Next]_(Gate!vars)
<1> USE NameAssumption
\* Steps that neither registration nor thread take part in.
<1>u. ASSUME UNCHANGED <<run_cb, thread, running, cb, retired>>,
             closer' = closer \/ cb = NoCb
      PROVE  GateInv' /\ [Gate!Next]_(Gate!vars)
  BY <1>u DEF GateInv, Gate!vars
<1>1. ASSUME NEW c \in Clients, AM_SMC_Open(c) PROVE GateInv' /\ [Gate!Next]_(Gate!vars)
  <2>1. /\ thread = "none" /\ run_cb' = FALSE /\ thread' \in {"none", "top"}
        /\ UNCHANGED <<running, cb, retired, closer>>
    BY <1>1 DEF AM_SMC_Open, LifeInv
  <2> QED BY <2>1 DEF GateInv, Gate!vars
<1>2. ASSUME NEW c \in Clients, AM_SMC_Close(c) PROVE GateInv' /\ [Gate!Next]_(Gate!vars)
  BY <1>2, <1>u DEF AM_SMC_Close, callback, watcher
<1>3. ASSUME NEW c \in Clients, CloseJoined(c) PROVE GateInv' /\ [Gate!Next]_(Gate!vars)
  <2>1. closer = c /\ cb = NoCb /\ running = NoCb /\ ~run_cb
    BY <1>3 DEF CloseJoined, Joined, LifeInv, GateInv
  <2>2. /\ retired' = Cbs /\ thread' = "none" /\ closer' = Nobody
        /\ UNCHANGED <<run_cb, cb, running>>
    BY <1>3 DEF CloseJoined
  <2>3. GateInv'
    BY <2>1, <2>2 DEF GateInv
  <2>4. Gate!Retire(Cbs)
    BY <2>1, <2>2 DEF Gate!Retire
  <2> QED BY <2>3, <2>4 DEF Gate!Next
<1>4. ASSUME NEW c \in Clients, CallSetCallback(c) PROVE GateInv' /\ [Gate!Next]_(Gate!vars)
  BY <1>4, <1>u DEF CallSetCallback, device, callback, watcher
<1>5. ASSUME NEW c \in Clients, AM_SMC_SetCallback(c) PROVE GateInv' /\ [Gate!Next]_(Gate!vars)
  <2>1. UNCHANGED <<closer, run_cb, thread, running>>
    BY <1>5 DEF AM_SMC_SetCallback, device, watcher
  <2>2. CASE run_cb
    BY <1>5, <1>u, <2>1, <2>2 DEF AM_SMC_SetCallback
  <2>3. CASE ~run_cb
    <3>1. cb' = want[c] /\ retired' = Cbs \ {want[c]}
      BY <1>5, <2>3 DEF AM_SMC_SetCallback
    <3>2. running = NoCb
      BY <2>3 DEF GateInv
    <3>3. closer = Nobody
      BY <1>5 DEF AM_SMC_SetCallback, LifeInv, TypeOK
    <3>4. GateInv'
      BY <2>1, <3>1, <3>2, <3>3 DEF GateInv
    <3>5. Gate!Retire(Cbs \ {want[c]})
      BY <2>1, <3>1, <3>2 DEF Gate!Retire
    <3> QED BY <3>4, <3>5 DEF Gate!Next
  <2> QED BY <2>2, <2>3
<1>6. ASSUME NEW c \in Clients, AM_SMC_Reset(c) \/ AM_SMC_TransferT0(c)
      PROVE  GateInv' /\ [Gate!Next]_(Gate!vars)
  BY <1>6, <1>u DEF AM_SMC_Reset, AM_SMC_TransferT0, device, callback, watcher
<1>7. ASSUME NEW c \in Clients,
             \/ SendHeader(c) \/ ReadProcedure(c) \/ ReadData(c) \/ ReadOne(c)
             \/ ReadStatus(c) \/ TransferFails(c)
      PROVE  GateInv' /\ [Gate!Next]_(Gate!vars)
  <2>1. UNCHANGED <<device, callback, watcher>>
    BY <1>7 DEF SendHeader, ReadProcedure, ReadData, ReadOne, ReadStatus, TransferFails
  <2> QED BY <1>u, <2>1 DEF device, callback, watcher
<1>8. CASE GetStatus
  BY <1>8 DEF GetStatus, GateInv, Gate!vars, device, callback
<1>9. CASE ThreadExit
  BY <1>9 DEF ThreadExit, GateInv, Gate!vars, device, callback
<1>10. CASE SetRunCb
  BY <1>10 DEF SetRunCb, RaiseFlag, GateInv, Gate!vars, device
<1>11. CASE CallCallback
  <2>1. UNCHANGED <<run_cb, cb, retired, closer>> /\ running = NoCb /\ thread = "call"
    BY <1>11 DEF CallCallback, device, GateInv
  <2>2. CASE cb # NoCb
    <3>1. thread' = "incb" /\ running' = cb
      BY <1>11, <2>2 DEF CallCallback, Reports
    <3>2. GateInv'
      BY <2>1, <2>2, <3>1 DEF GateInv
    <3>3. Gate!Begin(cb) /\ cb \in Cbs
      BY <2>1, <2>2, <3>1 DEF Gate!Begin, GateInv, TypeOK
    <3> QED BY <3>2, <3>3 DEF Gate!Next
  <2>3. CASE cb = NoCb
    <3>1. thread' = "called" /\ running' = running
      BY <1>11, <2>3 DEF CallCallback
    <3> QED BY <2>1, <3>1 DEF GateInv, Gate!vars
  <2> QED BY <2>2, <2>3
<1>12. CASE ClearRunCb
  BY <1>12 DEF ClearRunCb, GateInv, Gate!vars, device
<1>13. CASE Broadcast
  BY <1>13 DEF Broadcast, GateInv, Gate!vars, device, callback
<1>14. CASE CallbackReturns
  <2>1. GateInv'
    BY <1>14 DEF CallbackReturns, GateInv, device, callback, TypeOK
  <2>2. Gate!End
    BY <1>14 DEF CallbackReturns, GateInv, callback, Gate!End
  <2> QED BY <2>1, <2>2 DEF Gate!Next
<1>15. CASE SetCallbackInCallback
  <2>1. PICK r \in Cbs \cup {NoCb} : cb' = r /\ retired' = retired \ {r}
    BY <1>15 DEF SetCallbackInCallback
  <2>2. UNCHANGED <<run_cb, thread, running, closer>> /\ closer = Nobody
    BY <1>15 DEF SetCallbackInCallback, device, watcher
  <2>3. GateInv'
    BY <2>1, <2>2 DEF GateInv
  <2>4. Gate!Retire(retired') /\ retired' \in SUBSET Cbs
    BY <2>1, <2>2 DEF Gate!Retire, GateInv, TypeOK
  <2> QED BY <2>3, <2>4 DEF Gate!Next
<1>16. CASE CardActs
  BY <1>16, <1>u DEF CardActs, device, callback, watcher
<1>17. CASE UNCHANGED vars
  BY <1>17, <1>u DEF vars, device, callback, watcher
<1> QED BY <1>1, <1>2, <1>3, <1>4, <1>5, <1>6, <1>7, <1>8, <1>9, <1>10, <1>11, <1>12,
           <1>13, <1>14, <1>15, <1>16, <1>17, NextCases

\* The device and its clients keep their types; a transfer holds dev->lock from its
\* header to its end, and only while the device is open.
THEOREM Invariance == Spec => [](TypeOK /\ LockInv /\ LifeInv)
<1>1. Init => TypeOK
  <2> SUFFICES ASSUME Init PROVE TypeOK
    OBVIOUS
  <2>1. cmd \in [Clients -> CommandRec]
    BY DEF Init, NoCommand, CommandRec
  <2>2. /\ pc \in [Clients -> {"idle", "join", "setcb", "asleep",
                               "t0", "proc", "data", "one", "sw2"}]
        /\ want \in [Clients -> Cbs \cup {NoCb}]
    BY DEF Init
  <2>3. /\ openned \in BOOLEAN /\ enable_thread \in BOOLEAN /\ held \in BOOLEAN
        /\ run_cb \in BOOLEAN /\ dirty \in BOOLEAN /\ present \in BOOLEAN
    BY DEF Init
  <2> QED BY <2>1, <2>2, <2>3 DEF Init, TypeOK
<1>2. Init => LockInv /\ LifeInv
  BY NameAssumption DEF Init, LockInv, LifeInv
<1>3. TypeOK /\ LockInv /\ LifeInv /\ [Next]_vars => (TypeOK /\ LockInv /\ LifeInv)'
  BY TypeStep, LockStep, LifeStep
<1> QED BY <1>1, <1>2, <1>3, PTL DEF Spec

\* What AM_SMC_SetCallback has replaced does not run, although the status thread
\* reads dev->cb without the lock; clients take their callback back before they
\* close, since AM_SMC_Close leaves it in the device for the next open.
THEOREM Refinement == ASSUME ClearBeforeClose PROVE Spec => ImplementsGate
<1>1. Init => GateInv /\ Gate!Init
  BY NameAssumption DEF Init, GateInv, Gate!Init
<1>2. TypeOK /\ LifeInv /\ GateInv /\ [Next]_vars => GateInv' /\ [Gate!Next]_(Gate!vars)
  BY GateStep
<1> QED BY <1>1, <1>2, Invariance, PTL DEF Spec, ImplementsGate, Gate!Spec

-----------------------------------------------------------------------------
(* The T=0 conversation.  Its invariant says that what is on the wire will *)
(* lead the reader to the point at which the card is.                      *)

ByteRec == [kind : {"header", "null", "ins", "inv", "data", "sw1", "sw2"},
            cmd : CommandRec, i : Nat]
CardRec == [mode : {"off", "idle", "answer", "take", "lost"}, cmd : CommandRec,
            done : Nat, ask : Nat, got : Seq(ByteRec), said : Seq(ByteRec)]

\* Buffers and wire are sequences of bytes.
BytesOK ==
  /\ txbuf \in Seq(ByteRec) /\ rxbuf \in Seq(ByteRec) /\ buf \in Seq(ByteRec)
  /\ wire \in Seq(ByteRec)
  /\ card \in CardRec

\* A point of a transfer: what the reader does next, after r bytes of data.  At
\* "due" it has the data to send, at "end" the transfer is over.
Points == [at : {"proc", "one", "data", "sw2", "due", "end"}, r : Nat]
Point(at, r) == [at |-> at, r |-> r]

\* At point p, byte b is what the T=0 protocol has there and leads to point q.
Reads(command, p, b, q) ==
  \/ /\ p.at = "proc"
     /\ \/ b = Byte("null", command, 0) /\ q = p
        \/ b = Byte("sw1", command, 0) /\ q = Point("sw2", p.r)
        \/ /\ b = Byte("inv", command, 0) /\ q = Point("one", p.r)
           /\ command.dir = "read" /\ p.r < command.n
        \/ /\ b = Byte("ins", command, 0) /\ q = Point("data", p.r)
           /\ command.dir = "read" /\ p.r < command.n
        \/ /\ b = Byte("ins", command, 0) /\ q = Point("due", 0)
           /\ command.dir = "write" /\ p.r = 0
  \/ /\ p.at \in {"one", "data"} /\ p.r < command.n
     /\ b = Byte("data", command, p.r + 1)
     /\ q = Point(IF p.at = "one" \/ p.r + 1 = command.n THEN "proc" ELSE "data", p.r + 1)
  \/ p.at = "sw2" /\ b = Byte("sw2", command, 0) /\ q = Point("end", p.r)

\* The bytes w take the reader from point p to point q.
Leads(command, w, p, q) ==
  \E st \in [1 .. Len(w) + 1 -> Points] :
    /\ st[1] = p /\ st[Len(w) + 1] = q
    /\ \A i \in 1 .. Len(w) : Reads(command, st[i], w[i], st[i + 1])

\* The reader is at p; it has in its buffers what came before.
ReaderAt(command, at, r) ==
  /\ command.dir = "read" =>
       /\ r <= command.n /\ txbuf = <<>>
       /\ IF at = "sw2"
            THEN buf = <<>> /\ rxbuf = Append(Data(command, 1, r), Byte("sw1", command, 0))
            ELSE rxbuf \o buf = Data(command, 1, r)
       /\ at \in {"proc", "one"} => buf = <<>> /\ (rxlen = command.n - r \/ r = command.n)
       /\ at = "data" => rxlen = command.n - Len(rxbuf) /\ r < command.n
  /\ command.dir = "write" =>
       /\ r \in {0, command.n} /\ at \in {"proc", "sw2"}
       /\ txbuf = IF r = 0 THEN Data(command, 1, command.n) ELSE <<>>
       /\ buf = <<>> /\ rxlen = 0
       /\ rxbuf = IF at = "sw2" THEN <<Byte("sw1", command, 0)>> ELSE <<>>

\* The card is at the point at which the bytes on the wire end.
CardAt(command, at) ==
  /\ card.cmd = command
  /\ <<card.mode, at>> \in {<<"answer", "proc">>, <<"take", "due">>, <<"idle", "end">>}
  /\ command.dir = "write" => card.done \in {0, command.n}
  /\ card.mode = "take" => card.ask = command.n /\ card.done = 0
  /\ card.got = IF command.dir = "write" THEN Data(command, 1, card.done) ELSE <<>>
  /\ card.said = (IF command.dir = "read" THEN Data(command, 1, card.done) ELSE <<>>) \o
                 (IF card.mode = "idle"
                  THEN <<Byte("sw1", command, 0), Byte("sw2", command, 0)>> ELSE <<>>)

\* The reader will understand what the card has said: the bytes on the wire lead
\* the reader to the point where the card is.
Conversation(c) ==
  /\ cmd[c] \in Commands(c)
  /\ \E r \in Nat, at \in {"proc", "due", "end"} :
       /\ ReaderAt(cmd[c], pc[c], r) /\ CardAt(cmd[c], at)
       /\ Leads(cmd[c], wire, Point(pc[c], r), Point(at, card.done))

TransferInv ==
  /\ \A c \in Clients : pc[c] \in {"t0", "proc", "data", "one", "sw2"} => c \in Talkers
  /\ \A c \in Clients : pc[c] = "t0" =>
       /\ lock = Nobody /\ ~dirty
       /\ cmd[c] \in Commands(c)
       /\ rxbuf = <<>>
       /\ txbuf = <<Header(cmd[c])>> \o
                  (IF cmd[c].dir = "write" THEN Data(cmd[c], 1, cmd[c].n) ELSE <<>>)
  /\ lock = Nobody /\ ~dirty => wire = <<>> /\ card.mode \in {"idle", "off"}
  /\ lock # Nobody =>
       /\ ~dirty
       /\ (card.mode = "off" /\ wire = <<>>) \/ Conversation(lock)

-----------------------------------------------------------------------------
(* Data and runs over the wire.                                            *)

\* The data bytes of a command behind the first r.
LEMMA DataIs ==
  ASSUME NEW C \in CommandRec, NEW r \in Nat, NEW n \in Nat, r <= n
  PROVE  /\ Data(C, r + 1, n) \in Seq(ByteRec) /\ Len(Data(C, r + 1, n)) = n - r
         /\ \A k \in 1 .. n - r : Data(C, r + 1, n)[k] = Byte("data", C, r + k)
<1> DEFINE L == n - r
<1>1. L \in Nat /\ n - (r + 1) + 1 = L /\ \A k \in 1 .. L : (r + 1) + k - 1 = r + k
  OBVIOUS
<1>2. \A k \in 1 .. L : Byte("data", C, r + k) \in ByteRec
  BY DEF Byte, ByteRec
<1>3. Data(C, r + 1, n) = [k \in 1 .. L |-> Byte("data", C, r + k)]
  BY <1>1 DEF Data
<1> HIDE DEF L
<1>4. Data(C, r + 1, n) \in [1 .. L -> ByteRec]
  BY <1>2, <1>3
<1>5. Data(C, r + 1, n) \in Seq(ByteRec) /\ Len(Data(C, r + 1, n)) = L
  <2>1. Data(C, r + 1, n) \in Seq(ByteRec) /\ DOMAIN Data(C, r + 1, n) = 1 .. L
    BY <1>1, <1>4, SeqDef
  <2> QED BY <1>1, <2>1, LenProperties
<1>6. \A k \in 1 .. L : Data(C, r + 1, n)[k] = Byte("data", C, r + k)
  BY <1>3
<1> QED BY <1>5, <1>6 DEF L

\* All of it.
LEMMA DataAll ==
  ASSUME NEW C \in CommandRec, NEW n \in Nat
  PROVE  /\ Data(C, 1, n) \in Seq(ByteRec) /\ Len(Data(C, 1, n)) = n
         /\ \A k \in 1 .. n : Data(C, 1, n)[k] = Byte("data", C, k)
<1>1. n - 1 + 1 = n /\ \A k \in 1 .. n : 1 + k - 1 = k
  OBVIOUS
<1>2. \A k \in 1 .. n : Byte("data", C, k) \in ByteRec
  BY DEF Byte, ByteRec
<1>3. Data(C, 1, n) = [k \in 1 .. n |-> Byte("data", C, k)]
  BY <1>1 DEF Data
<1>4. Data(C, 1, n) \in [1 .. n -> ByteRec]
  BY <1>2, <1>3
<1>5. Data(C, 1, n) \in Seq(ByteRec) /\ DOMAIN Data(C, 1, n) = 1 .. n
  BY <1>4, SeqDef
<1>6. Len(Data(C, 1, n)) = n
  BY <1>5, LenProperties
<1> QED BY <1>3, <1>5, <1>6

\* The data of a command falls into two parts anywhere.
LEMMA DataConcat ==
  ASSUME NEW C \in CommandRec, NEW r \in Nat, NEW n \in Nat, r <= n
  PROVE  Data(C, 1, r) \o Data(C, r + 1, n) = Data(C, 1, n)
<1> DEFINE a == Data(C, 1, r)
           b == Data(C, r + 1, n)
           d == Data(C, 1, n)
<1>1. a \in Seq(ByteRec) /\ Len(a) = r /\ \A k \in 1 .. r : a[k] = Byte("data", C, k)
  BY DataAll
<1>2. /\ b \in Seq(ByteRec) /\ Len(b) = n - r
      /\ \A k \in 1 .. n - r : b[k] = Byte("data", C, r + k)
  BY DataIs
<1>3. d \in Seq(ByteRec) /\ Len(d) = n /\ \A k \in 1 .. n : d[k] = Byte("data", C, k)
  BY DataAll
<1> HIDE DEF a, b, d
<1>c. /\ a \o b \in Seq(ByteRec) /\ Len(a \o b) = Len(a) + Len(b)
      /\ \A k \in 1 .. Len(a) + Len(b) :
           (a \o b)[k] = IF k <= Len(a) THEN a[k] ELSE b[k - Len(a)]
  BY <1>1, <1>2, ConcatProperties
<1>4. a \o b \in Seq(ByteRec) /\ Len(a \o b) = n
  BY <1>1, <1>2, <1>c
<1>5. ASSUME NEW k \in 1 .. n PROVE (a \o b)[k] = d[k]
  <2>0. k \in Nat /\ (k <= r \/ k > r)
    OBVIOUS
  <2>1. (a \o b)[k] = IF k <= r THEN a[k] ELSE b[k - r]
    <3>1. Len(a) + Len(b) = n
      BY <1>1, <1>2
    <3>2. (a \o b)[k] = IF k <= Len(a) THEN a[k] ELSE b[k - Len(a)]
      BY <1>c, <3>1
    <3> QED BY <1>1, <3>2
  <2>2. CASE k <= r
    BY <1>1, <1>3, <2>1, <2>2
  <2>3. CASE k > r
    <3>1. k - r \in 1 .. n - r /\ r + (k - r) = k
      BY <2>3
    <3>2. b[k - r] = Byte("data", C, r + (k - r))
      BY <1>2, <3>1
    <3>3. ~(k <= r)
      BY <2>0, <2>3
    <3> QED BY <1>3, <2>1, <3>1, <3>2, <3>3
  <2> QED BY <2>0, <2>2, <2>3
<1>6. a \o b = d
  BY <1>3, <1>4, <1>5, SeqEqual
<1> QED BY <1>6 DEF a, b, d

\* A single byte of data.
LEMMA DataOne ==
  ASSUME NEW C \in CommandRec, NEW r \in Nat
  PROVE  Data(C, r + 1, r + 1) = <<Byte("data", C, r + 1)>>
<1>1. (r + 1) - (r + 1) + 1 = 1 /\ \A k \in 1 .. 1 : (r + 1) + k - 1 = r + 1
  OBVIOUS
<1>2. Data(C, r + 1, r + 1) = [k \in 1 .. 1 |-> Byte("data", C, r + 1)]
  BY <1>1 DEF Data
<1> QED BY <1>2

\* Nothing on the wire: reader and card are at the same point.
LEMMA LeadsNowhere ==
  ASSUME NEW C, NEW p \in Points, NEW q
  PROVE  Leads(C, <<>>, p, q) <=> p = q
<1>1. Len(<<>>) = 0 /\ 1 .. 0 + 1 = {1} /\ 1 .. 0 = {}
  OBVIOUS
<1>2. ASSUME Leads(C, <<>>, p, q) PROVE p = q
  BY <1>1, <1>2 DEF Leads
<1>3. ASSUME p = q PROVE Leads(C, <<>>, p, q)
  <2>1. [i \in {1} |-> p] \in [1 .. Len(<<>>) + 1 -> Points]
    BY <1>1
  <2>2. [i \in {1} |-> p][1] = p /\ [i \in {1} |-> p][Len(<<>>) + 1] = q
    BY <1>1, <1>3
  <2>3. \A i \in 1 .. Len(<<>>) :
          Reads(C, [j \in {1} |-> p][i], <<>>[i], [j \in {1} |-> p][i + 1])
    BY <1>1
  <2> QED BY <2>1, <2>2, <2>3 DEF Leads
<1> QED BY <1>2, <1>3

\* The reader takes the first byte.
LEMMA LeadsTail ==
  ASSUME NEW C, NEW w \in Seq(ByteRec), w # <<>>, NEW p, NEW q, Leads(C, w, p, q)
  PROVE  \E m \in Points : Reads(C, p, Head(w), m) /\ Leads(C, Tail(w), m, q)
<1>1. /\ Len(w) \in Nat /\ Len(w) >= 1 /\ Head(w) = w[1]
      /\ Tail(w) \in Seq(ByteRec) /\ Len(Tail(w)) = Len(w) - 1
      /\ \A i \in 1 .. Len(Tail(w)) : Tail(w)[i] = w[i + 1]
  BY LenProperties, EmptySeq, HeadTailProperties
<1>2. PICK st \in [1 .. Len(w) + 1 -> Points] :
        /\ st[1] = p /\ st[Len(w) + 1] = q
        /\ \A i \in 1 .. Len(w) : Reads(C, st[i], w[i], st[i + 1])
  BY DEF Leads
<1> DEFINE T == Tail(w)
           L == Len(w)
           tt == [i \in 1 .. L |-> st[i + 1]]
<1>3. st[2] \in Points /\ Reads(C, p, Head(w), st[2])
  <2>1. 1 \in 1 .. Len(w) /\ 2 \in 1 .. Len(w) + 1 /\ 1 + 1 = 2
    BY <1>1
  <2> QED BY <1>1, <1>2, <2>1
<1>4. Len(T) + 1 = L /\ L \in Nat /\ L >= 1
  BY <1>1
<1>5. tt \in [1 .. L -> Points]
  <2>1. \A i \in 1 .. L : i + 1 \in 1 .. L + 1
    BY <1>4
  <2> QED BY <1>2, <2>1
<1>6. tt[1] = st[2] /\ tt[L] = q
  <2>1. 1 \in 1 .. L /\ L \in 1 .. L /\ 1 + 1 = 2
    BY <1>4
  <2> QED BY <1>2, <2>1
<1>7. ASSUME NEW i \in 1 .. Len(T) PROVE Reads(C, tt[i], T[i], tt[i + 1])
  <2>1. i \in 1 .. L /\ i + 1 \in 1 .. L
    BY <1>4
  <2>2. Reads(C, st[i + 1], w[i + 1], st[(i + 1) + 1])
    BY <1>2, <2>1
  <2>3. tt[i] = st[i + 1] /\ tt[i + 1] = st[(i + 1) + 1]
    BY <2>1
  <2> HIDE DEF tt
  <2> QED BY <1>1, <2>2, <2>3
<1> HIDE DEF tt, L
<1>8. Leads(C, T, st[2], q)
  BY <1>4, <1>5, <1>6, <1>7 DEF Leads
<1> QED BY <1>3, <1>8

\* The card sends more.
LEMMA LeadsOn ==
  ASSUME NEW C, NEW v \in Seq(ByteRec), NEW w \in Seq(ByteRec), NEW p, NEW q, NEW r,
         Leads(C, v, p, q), Leads(C, w, q, r)
  PROVE  Leads(C, v \o w, p, r)
<1> DEFINE M == Len(v)
           N == Len(w)
           x == v \o w
<1>1. M \in Nat /\ N \in Nat
  BY LenProperties
<1>2. Len(x) = M + N /\ \A i \in 1 .. M + N : x[i] = IF i <= M THEN v[i] ELSE w[i - M]
  BY ConcatProperties
<1>3. PICK s \in [1 .. M + 1 -> Points] :
        /\ s[1] = p /\ s[M + 1] = q
        /\ \A i \in 1 .. M : Reads(C, s[i], v[i], s[i + 1])
  BY DEF Leads
<1>4. PICK t \in [1 .. N + 1 -> Points] :
        /\ t[1] = q /\ t[N + 1] = r
        /\ \A i \in 1 .. N : Reads(C, t[i], w[i], t[i + 1])
  BY DEF Leads
<1> DEFINE u == [i \in 1 .. (M + N) + 1 |-> IF i <= M THEN s[i] ELSE t[i - M]]
<1> HIDE DEF M, N, x
<1>5. u \in [1 .. (M + N) + 1 -> Points]
  <2>1. ASSUME NEW i \in 1 .. (M + N) + 1 PROVE (IF i <= M THEN s[i] ELSE t[i - M]) \in Points
    <3>1. CASE i <= M
      <4>1. i \in 1 .. M + 1
        BY <1>1, <3>1
      <4> QED BY <1>3, <3>1, <4>1
    <3>2. CASE ~(i <= M)
      <4>1. i - M \in 1 .. N + 1
        BY <1>1, <3>2
      <4> QED BY <1>4, <3>2, <4>1
    <3> QED BY <3>1, <3>2
  <2> QED BY <2>1
\* Also the last point of the first part is the first of the second.
<1>6. \A i \in 1 .. M + 1 : u[i] = s[i]
  <2> SUFFICES ASSUME NEW i \in 1 .. M + 1 PROVE u[i] = s[i]
    OBVIOUS
  <2>1. i \in 1 .. (M + N) + 1
    BY <1>1
  <2>2. CASE i <= M
    BY <2>1, <2>2
  <2>3. CASE ~(i <= M)
    <3>1. i = M + 1 /\ i - M = 1
      BY <1>1, <2>3
    <3>2. u[i] = t[i - M]
      BY <2>1, <2>3
    <3> QED BY <1>3, <1>4, <3>1, <3>2
  <2> QED BY <2>2, <2>3
<1>7. \A i \in 1 .. N + 1 : u[M + i] = t[i]
  <2> SUFFICES ASSUME NEW i \in 1 .. N + 1 PROVE u[M + i] = t[i]
    OBVIOUS
  <2>1. M + i \in 1 .. (M + N) + 1 /\ ~(M + i <= M) /\ (M + i) - M = i
    BY <1>1
  <2> QED BY <2>1
<1> HIDE DEF u
<1>8. ASSUME NEW i \in 1 .. M + N PROVE Reads(C, u[i], x[i], u[i + 1])
  <2>1. CASE i <= M
    <3>1. i \in 1 .. M /\ i \in 1 .. M + 1 /\ i + 1 \in 1 .. M + 1
      BY <1>1, <2>1
    <3>2. Reads(C, s[i], v[i], s[i + 1]) /\ x[i] = v[i]
      BY <1>2, <1>3, <2>1, <3>1
    <3> QED BY <1>6, <3>1, <3>2
  <2>2. CASE ~(i <= M)
    <3> DEFINE k == i - M
    <3>1. k \in 1 .. N /\ k \in 1 .. N + 1 /\ k + 1 \in 1 .. N + 1
          /\ M + k = i /\ M + (k + 1) = i + 1
      BY <1>1, <2>2
    <3>2. x[i] = w[k]
      BY <1>2, <2>2
    <3> HIDE DEF k
    <3>3. Reads(C, t[k], w[k], t[k + 1])
      BY <1>4, <3>1
    <3>4. u[i] = t[k] /\ u[i + 1] = t[k + 1]
      BY <1>7, <3>1
    <3> QED BY <3>2, <3>3, <3>4
  <2> QED BY <2>1, <2>2
<1>9. u[1] = p /\ u[(M + N) + 1] = r
  <2>1. 1 \in 1 .. M + 1 /\ N + 1 \in 1 .. N + 1 /\ M + (N + 1) = (M + N) + 1
    BY <1>1
  <2>2. u[1] = s[1] /\ u[M + (N + 1)] = t[N + 1]
    BY <1>6, <1>7, <2>1
  <2> QED BY <1>3, <1>4, <2>1, <2>2
<1>10. Leads(C, x, p, r)
  BY <1>2, <1>5, <1>8, <1>9 DEF Leads
<1> QED BY <1>10 DEF x

\* One byte.
LEMMA LeadsByte ==
  ASSUME NEW C, NEW b \in ByteRec, NEW p \in Points, NEW q \in Points, Reads(C, p, b, q)
  PROVE  Leads(C, <<b>>, p, q)
<1> DEFINE st == [i \in 1 .. 2 |-> IF i = 1 THEN p ELSE q]
<1>1. Len(<<b>>) = 1 /\ <<b>>[1] = b /\ 1 .. 1 = {1} /\ 1 + 1 = 2
  OBVIOUS
<1>2. st \in [1 .. 2 -> Points] /\ st[1] = p /\ st[2] = q
  OBVIOUS
<1> HIDE DEF st
<1> QED BY <1>1, <1>2 DEF Leads

\* All the data that is left.
LEMMA LeadsData ==
  ASSUME NEW C \in CommandRec, NEW r \in Nat, r < C.n
  PROVE  Leads(C, Data(C, r + 1, C.n), Point("data", r), Point("proc", C.n))
<1> DEFINE n == C.n
           L == n - r
           w == Data(C, r + 1, n)
           st == [i \in 1 .. L + 1 |-> Point(IF i = L + 1 THEN "proc" ELSE "data", r + i - 1)]
<1>1. n \in Nat /\ L \in Nat /\ L >= 1 /\ r + L = n /\ r <= n
  BY DEF CommandRec
<1> HIDE DEF n
<1>2. Len(w) = L /\ \A k \in 1 .. L : w[k] = Byte("data", C, r + k)
  BY <1>1, DataIs
<1> HIDE DEF L, w
<1>3. ASSUME NEW i \in 1 .. L + 1 PROVE r + i - 1 \in Nat
  BY <1>1
<1>4. st \in [1 .. L + 1 -> Points]
  BY <1>3 DEF Point, Points
<1>5. st[1] = Point("data", r) /\ st[L + 1] = Point("proc", n)
  <2>1. 1 \in 1 .. L + 1 /\ 1 # L + 1 /\ r + 1 - 1 = r
    BY <1>1
  <2>2. L + 1 \in 1 .. L + 1 /\ r + (L + 1) - 1 = n
    BY <1>1
  <2> QED BY <2>1, <2>2
<1>6. ASSUME NEW i \in 1 .. L PROVE Reads(C, st[i], w[i], st[i + 1])
  <2>1. /\ i \in 1 .. L + 1 /\ i # L + 1 /\ i + 1 \in 1 .. L + 1
        /\ r + (i + 1) - 1 = r + i /\ (r + i - 1) + 1 = r + i /\ r + i - 1 < n
        /\ (i + 1 = L + 1 <=> r + i = n)
    BY <1>1
  <2>2. st[i] = Point("data", r + i - 1)
    BY <2>1
  <2>3. st[i + 1] = Point(IF r + i = n THEN "proc" ELSE "data", r + i)
    BY <2>1
  <2>4. w[i] = Byte("data", C, r + i)
    BY <1>2
  <2> HIDE DEF st
  <2>5. st[i].at = "data" /\ st[i].r = r + i - 1
    BY <2>2 DEF Point
  <2> QED BY <2>1, <2>3, <2>4, <2>5 DEF Reads, n
<1> HIDE DEF st
<1>7. Leads(C, w, Point("data", r), Point("proc", n))
  BY <1>2, <1>4, <1>5, <1>6 DEF Leads
<1> QED BY <1>7 DEF w, n

-----------------------------------------------------------------------------
(* Types of the bytes and of the card.                                     *)

\* A byte is a byte.
LEMMA ByteType ==
  ASSUME NEW kind \in {"header", "null", "ins", "inv", "data", "sw1", "sw2"},
         NEW C \in CommandRec, NEW i \in Nat
  PROVE  Byte(kind, C, i) \in ByteRec
  BY DEF Byte, ByteRec

\* The card that gets bytes stays a card.
LEMMA ReceivedType ==
  ASSUME BytesOK, NEW bytes \in Seq(ByteRec), bytes # <<>>
  PROVE  Received(bytes) \in CardRec
<1>1. card \in CardRec
  BY DEF BytesOK
<1>2. bytes[1] \in ByteRec
  BY EmptySeq, LenProperties
<1>3. CASE card.mode = "off"
  BY <1>1, <1>3 DEF Received
<1>4. CASE card.mode = "idle" /\ bytes[1].kind = "header"
  <2>1. bytes[1].cmd \in CommandRec
    BY <1>2 DEF ByteRec
  <2>2. <<>> \in Seq(ByteRec)
    OBVIOUS
  <2>3. Card("answer", bytes[1].cmd) \in CardRec
    BY <2>1, <2>2 DEF Card, CardRec
  <2> QED BY <1>4, <2>3 DEF Received
<1>5. CASE card.mode = "take" /\ Len(bytes) = card.ask
  <2>1. card.got \o bytes \in Seq(ByteRec) /\ card.done + card.ask \in Nat
    BY <1>1, ConcatProperties DEF CardRec
  <2>2. [card EXCEPT !.mode = "answer", !.done = @ + card.ask, !.got = @ \o bytes] \in CardRec
    BY <1>1, <2>1 DEF CardRec
  <2> QED BY <1>5, <2>2 DEF Received
<1>6. CASE /\ card.mode # "off"
           /\ ~(card.mode = "idle" /\ bytes[1].kind = "header")
           /\ ~(card.mode = "take" /\ Len(bytes) = card.ask)
  <2>1. [card EXCEPT !.mode = "lost"] \in CardRec
    BY <1>1 DEF CardRec
  <2> QED BY <1>6, <2>1 DEF Received
<1> QED BY <1>3, <1>4, <1>5, <1>6

\* What the card does.
LEMMA CardType ==
  ASSUME BytesOK, CardActs
  PROVE  BytesOK'
<1>1. card \in CardRec /\ wire \in Seq(ByteRec) /\ card.cmd \in CommandRec
  BY DEF BytesOK, CardRec
<1>2. UNCHANGED transfer
  BY DEF CardActs
<1>3. CASE CardNull
  <2>1. <<Byte("null", card.cmd, 0)>> \in Seq(ByteRec)
    BY <1>1, ByteType
  <2> QED BY <1>1, <1>2, <1>3, <2>1 DEF CardNull, BytesOK, transfer
<1>4. ASSUME NEW kind \in {"ins", "inv"}, CardProcedure(kind) PROVE BytesOK'
  <2> DEFINE left == card.cmd.n - card.done
             k == IF kind = "inv" THEN 1 ELSE left
             data == Data(card.cmd, card.done + 1, card.done + k)
  <2>1. card.done \in Nat /\ k \in Nat /\ card.done + k \in Nat /\ card.done <= card.done + k
    <3>0. card.done \in Nat /\ card.cmd.n \in 0 .. 255
      <4>1. card.done \in Nat
        BY <1>1 DEF CardRec
      <4>2. card.cmd.n \in 0 .. 255
        BY <1>1 DEF CommandRec
      <4> QED BY <4>1, <4>2
    <3>1. card.done \in Nat /\ card.cmd.n \in Nat
      BY <3>0
    <3>2. left > 0
      BY <1>4 DEF CardProcedure
    <3>3. left \in Nat
      BY <3>1, <3>2
    <3>4. k \in Nat
      BY <3>3
    <3> HIDE DEF k
    <3> QED BY <3>1, <3>4
  <2> HIDE DEF k
  <2>2. data \in Seq(ByteRec) /\ Len(data) = (card.done + k) - card.done
    BY <1>1, <2>1, DataIs
  <2>3. Byte(kind, card.cmd, 0) \in ByteRec
    BY <1>1, ByteType
  <2>4. \/ /\ wire' = wire \o <<Byte(kind, card.cmd, 0)>> \o data
           /\ card' = [card EXCEPT !.done = @ + Len(data), !.said = @ \o data]
        \/ /\ wire' = Append(wire, Byte(kind, card.cmd, 0))
           /\ card' = [card EXCEPT !.mode = "take", !.ask = k]
    BY <1>4 DEF CardProcedure, CardSays, k
  <2> HIDE DEF data
  <2>5. card.done + Len(data) \in Nat
    BY <2>1, <2>2
  <2>6. wire' \in Seq(ByteRec)
    <3>1. <<Byte(kind, card.cmd, 0)>> \in Seq(ByteRec)
      BY <2>3
    <3>2. wire \o <<Byte(kind, card.cmd, 0)>> \in Seq(ByteRec)
      BY <1>1, <3>1, ConcatProperties
    <3>3. wire \o <<Byte(kind, card.cmd, 0)>> \o data \in Seq(ByteRec)
      BY <2>2, <3>2, ConcatProperties
    <3>4. Append(wire, Byte(kind, card.cmd, 0)) \in Seq(ByteRec)
      BY <1>1, <2>3, AppendProperties
    <3> QED BY <2>4, <3>3, <3>4
  <2>7. card.said \o data \in Seq(ByteRec)
    BY <1>1, <2>2, ConcatProperties DEF CardRec
  <2>8. card' \in CardRec
    BY <1>1, <2>1, <2>4, <2>5, <2>7 DEF CardRec
  <2> QED BY <1>2, <2>6, <2>8 DEF BytesOK, transfer
<1>5. CASE CardStatus
  <2> DEFINE sw == <<Byte("sw1", card.cmd, 0), Byte("sw2", card.cmd, 0)>>
  <2>1. sw \in Seq(ByteRec)
    BY <1>1, ByteType
  <2>2. /\ wire' = wire \o sw
        /\ card' = [card EXCEPT !.mode = "idle", !.said = @ \o sw]
    BY <1>5 DEF CardStatus
  <2> HIDE DEF sw
  <2>3. card.said \o sw \in Seq(ByteRec) /\ wire' \in Seq(ByteRec)
    BY <1>1, <2>1, <2>2, ConcatProperties DEF CardRec
  <2>4. card' \in CardRec
    BY <1>1, <2>2, <2>3 DEF CardRec
  <2> QED BY <1>2, <2>3, <2>4 DEF BytesOK, transfer
<1>6. CASE CardMoves
  <2>1. NoCommand \in CommandRec /\ <<>> \in Seq(ByteRec)
    BY DEF NoCommand, CommandRec
  <2>2. Card("off", NoCommand) \in CardRec
    BY <2>1 DEF Card, CardRec
  <2> QED BY <1>2, <1>6, <2>1, <2>2 DEF CardMoves, BytesOK, transfer
<1> QED BY <1>3, <1>4, <1>5, <1>6 DEF CardActs

\* Buffers and wire stay sequences of bytes, in every state and not only in
\* transfers that go well.
LEMMA BytesStep ==
  ASSUME TypeOK, BytesOK, [Next]_vars
  PROVE  BytesOK'
<1>e. <<>> \in Seq(ByteRec)
  OBVIOUS
<1>b. /\ txbuf \in Seq(ByteRec) /\ rxbuf \in Seq(ByteRec) /\ buf \in Seq(ByteRec)
      /\ wire \in Seq(ByteRec) /\ card \in CardRec
  BY DEF BytesOK
<1>n. NoCommand \in CommandRec
  BY DEF NoCommand, CommandRec
<1>c. ASSUME NEW mode \in {"off", "idle"} PROVE Card(mode, NoCommand) \in CardRec
  BY <1>e, <1>n DEF Card, CardRec
<1>h. ASSUME wire # <<>> PROVE Head(wire) \in ByteRec /\ Tail(wire) \in Seq(ByteRec)
  BY <1>b, <1>h, HeadTailProperties
<1>u. ASSUME UNCHANGED <<transfer, slot>> PROVE BytesOK'
  BY <1>u DEF BytesOK, transfer, slot
<1>1. ASSUME NEW c \in Clients, AM_SMC_Open(c) PROVE BytesOK'
  <2>1. txbuf' \in {<<>>, txbuf} /\ rxbuf' \in {<<>>, rxbuf} /\ buf' = buf /\ UNCHANGED slot
    BY <1>1 DEF AM_SMC_Open
  <2> QED BY <1>e, <1>b, <2>1 DEF BytesOK, slot
<1>2. ASSUME NEW c \in Clients,
             \/ AM_SMC_Close(c) \/ CloseJoined(c) \/ CallSetCallback(c) \/ AM_SMC_SetCallback(c)
      PROVE  BytesOK'
  BY <1>2, <1>u DEF AM_SMC_Close, CloseJoined, CallSetCallback, AM_SMC_SetCallback
<1>3. ASSUME NEW c \in Clients, AM_SMC_Reset(c) PROVE BytesOK'
  BY <1>3, <1>b, <1>c, <1>e DEF AM_SMC_Reset, BytesOK
<1>4. ASSUME NEW c \in Clients, AM_SMC_TransferT0(c) PROVE BytesOK'
  <2>1. PICK command \in Commands(c) :
          txbuf' = <<>> \o <<Header(command)>> \o
                   (IF command.dir = "write" THEN Data(command, 1, command.n) ELSE <<>>)
    BY <1>4 DEF AM_SMC_TransferT0, ResetTxbuf
  <2>2. command \in CommandRec /\ command.n \in Nat
    BY CommandType
  <2>3. <<Header(command)>> \in Seq(ByteRec)
    BY <2>2, ByteType DEF Header
  <2>4. (IF command.dir = "write" THEN Data(command, 1, command.n) ELSE <<>>) \in Seq(ByteRec)
    BY <1>e, <2>2, DataAll
  <2>5. txbuf' \in Seq(ByteRec)
    BY <1>e, <2>1, <2>3, <2>4, ConcatProperties
  <2> QED BY <1>4, <1>b, <1>e, <2>5 DEF AM_SMC_TransferT0, BytesOK, slot
<1>5. ASSUME NEW c \in Clients, SendHeader(c) PROVE BytesOK'
  <2>1. /\ buf' = <<>> /\ rxbuf' = rxbuf /\ wire' = wire
        /\ txbuf' = IF txbuf = <<>> THEN <<>> ELSE Tail(txbuf)
        /\ card' = IF txbuf = <<>> THEN [card EXCEPT !.mode = "lost"]
                   ELSE Received(<<Head(txbuf)>>)
    BY <1>5 DEF SendHeader
  <2>2. CASE txbuf = <<>>
    <3>1. card' \in CardRec
      BY <1>b, <2>1, <2>2 DEF CardRec
    <3> QED BY <1>b, <1>e, <2>1, <2>2, <3>1 DEF BytesOK
  <2>3. CASE txbuf # <<>>
    <3>1. Head(txbuf) \in ByteRec /\ Tail(txbuf) \in Seq(ByteRec)
      BY <1>b, <2>3, HeadTailProperties
    <3>2. <<Head(txbuf)>> \in Seq(ByteRec) /\ <<Head(txbuf)>> # <<>>
      BY <3>1
    <3>3. card' \in CardRec
      BY <2>1, <2>3, <3>2, ReceivedType
    <3> QED BY <1>b, <1>e, <2>1, <2>3, <3>1, <3>3 DEF BytesOK
  <2> QED BY <2>2, <2>3
<1>6. ASSUME NEW c \in Clients, ReadProcedure(c) PROVE BytesOK'
  <2>1. wire # <<>> /\ wire' = Tail(wire) /\ wire' \in Seq(ByteRec) /\ Head(wire) \in ByteRec
    BY <1>6, <1>h DEF ReadProcedure
  <2>2. /\ txbuf' \in {txbuf, <<>>} /\ buf' \in {buf, <<>>}
        /\ rxbuf' \in {rxbuf, <<>>, Append(rxbuf, Head(wire))}
        /\ card' = card \/ (txbuf # <<>> /\ card' = Received(txbuf))
    BY <1>6 DEF ReadProcedure, Final, transfer
  <2>3. card' \in CardRec
    BY <1>b, <2>2, ReceivedType
  <2>4. rxbuf' \in Seq(ByteRec)
    <3>1. Append(rxbuf, Head(wire)) \in Seq(ByteRec)
      BY <1>b, <2>1, AppendProperties
    <3> QED BY <1>b, <1>e, <2>2, <3>1
  <2> QED BY <1>b, <1>e, <2>1, <2>2, <2>3, <2>4 DEF BytesOK
<1>7. ASSUME NEW c \in Clients, ReadData(c) PROVE BytesOK'
  <2> DEFINE all == Append(buf, Head(wire))
  <2>1. wire # <<>> /\ wire' = Tail(wire) /\ wire' \in Seq(ByteRec) /\ Head(wire) \in ByteRec
    BY <1>7, <1>h DEF ReadData
  <2>2. all \in Seq(ByteRec)
    BY <1>b, <2>1, AppendProperties
  <2>3. buf' \in {all, <<>>} /\ rxbuf' \in {rxbuf, rxbuf \o all}
    BY <1>7 DEF ReadData
  <2>4. txbuf' = txbuf /\ card' = card
    BY <1>7 DEF ReadData
  <2> HIDE DEF all
  <2>5. rxbuf \o all \in Seq(ByteRec)
    BY <1>b, <2>2, ConcatProperties
  <2> QED BY <1>b, <1>e, <2>1, <2>2, <2>3, <2>4, <2>5 DEF BytesOK
<1>8. ASSUME NEW c \in Clients, ReadOne(c) PROVE BytesOK'
  <2>1. wire # <<>> /\ wire' = Tail(wire) /\ wire' \in Seq(ByteRec) /\ Head(wire) \in ByteRec
    BY <1>8, <1>h DEF ReadOne
  <2>2. rxbuf' \in Seq(ByteRec)
    BY <1>8, <1>b, <2>1, AppendProperties DEF ReadOne
  <2> QED BY <1>8, <1>b, <2>1, <2>2 DEF ReadOne, BytesOK
<1>9. ASSUME NEW c \in Clients, ReadStatus(c) PROVE BytesOK'
  <2>1. wire' \in Seq(ByteRec)
    BY <1>9, <1>h DEF ReadStatus
  <2> QED BY <1>9, <1>b, <1>e, <2>1 DEF ReadStatus, Final, BytesOK
<1>10. ASSUME NEW c \in Clients, TransferFails(c) PROVE BytesOK'
  <2>1. card' \in CardRec
    BY <1>10, <1>b DEF TransferFails, CardRec
  <2> QED BY <1>10, <1>b, <1>e, <2>1 DEF TransferFails, Final, BytesOK
<1>11. CASE GetStatus \/ ThreadExit \/ SetRunCb \/ CallCallback \/ ClearRunCb \/ Broadcast
  BY <1>11, <1>u DEF GetStatus, ThreadExit, SetRunCb, CallCallback, ClearRunCb, Broadcast
<1>12. CASE CallbackReturns \/ SetCallbackInCallback
  BY <1>12, <1>u DEF CallbackReturns, SetCallbackInCallback
<1>13. CASE CardActs
  BY <1>13, CardType
<1>14. CASE UNCHANGED vars
  BY <1>14, <1>u DEF vars
<1> QED BY <1>1, <1>2, <1>3, <1>4, <1>5, <1>6, <1>7, <1>8, <1>9, <1>10, <1>11, <1>12,
           <1>13, <1>14, NextCases

-----------------------------------------------------------------------------
(* Steps of the conversation.                                              *)

Busy == {"t0", "proc", "data", "one", "sw2"}

\* Calls that have nothing to do with transfers.
LEMMA TransferFrame ==
  ASSUME TypeOK, LockInv, TransferInv, UNCHANGED <<transfer, slot>>,
         \A c \in Clients : pc'[c] = pc[c] \/ (pc[c] \notin Busy /\ pc'[c] \notin Busy)
  PROVE  TransferInv'
<1>1. UNCHANGED <<lock, cmd, txbuf, rxbuf, buf, rxlen, dirty, card, wire>>
  BY DEF transfer, slot
<1>2. /\ \A c \in Clients : pc'[c] \in Busy => c \in Talkers
      /\ \A c \in Clients : pc'[c] = "t0" => pc[c] = "t0"
  BY DEF TransferInv, Busy
<1>3. ASSUME lock # Nobody, Conversation(lock) PROVE Conversation(lock)'
  <2>1. lock \in Clients /\ pc'[lock] = pc[lock]
    BY <1>3 DEF LockInv, TypeOK, Busy
  <2>2. PICK r \in Nat, at \in {"proc", "due", "end"} :
          /\ ReaderAt(cmd[lock], pc[lock], r) /\ CardAt(cmd[lock], at)
          /\ Leads(cmd[lock], wire, Point(pc[lock], r), Point(at, card.done))
    BY <1>3 DEF Conversation
  <2>3. cmd'[lock'] = cmd[lock] /\ pc'[lock'] = pc[lock] /\ wire' = wire /\ card' = card
    BY <1>1, <2>1
  <2>4. ReaderAt(cmd[lock], pc[lock], r)'
    BY <1>1, <2>2, <2>3 DEF ReaderAt
  <2>5. CardAt(cmd[lock], at)'
    BY <2>2, <2>3 DEF CardAt
  <2>6. cmd'[lock'] \in Commands(lock')
    BY <1>1, <1>3, <2>3 DEF Conversation
  <2>7. Leads(cmd[lock], wire, Point(pc[lock], r), Point(at, card.done))'
    BY <2>2, <2>3
  <2> QED BY <2>4, <2>5, <2>6, <2>7 DEF Conversation
<1>4. lock # Nobody =>
        /\ ~dirty
        /\ (card.mode = "off" /\ wire = <<>>) \/ Conversation(lock)'
  BY <1>3 DEF TransferInv
<1> QED BY <1>1, <1>2, <1>4 DEF TransferInv, Busy

\* The card goes on while a transfer runs: what it says leads from the point where
\* it was to the point where it is then.
LEMMA CardGoesOn ==
  ASSUME TypeOK, LockInv, BytesOK, NEW c \in Clients, lock = c,
         Conversation(c), card.mode = "answer", NEW C, cmd[c] = C,
         NEW w \in Seq(ByteRec), NEW at \in {"proc", "due", "end"},
         wire' = wire \o w,
         Leads(C, w, Point("proc", card.done), Point(at, card'.done)),
         CardAt(C, at)',
         UNCHANGED <<pc, transfer>>
  PROVE  Conversation(c)'
<1>1. PICK r \in Nat, a \in {"proc", "due", "end"} :
        /\ ReaderAt(cmd[c], pc[c], r) /\ CardAt(cmd[c], a)
        /\ Leads(cmd[c], wire, Point(pc[c], r), Point(a, card.done))
  BY DEF Conversation
<1>2. a = "proc"
  BY <1>1 DEF CardAt
<1>3. wire \in Seq(ByteRec)
  BY DEF BytesOK
<1>4. Leads(cmd[c], wire', Point(pc[c], r), Point(at, card'.done))
  BY <1>1, <1>2, <1>3, LeadsOn
<1>5. ReaderAt(cmd[c], pc[c], r)'
  BY <1>1 DEF ReaderAt, transfer
<1>6. cmd' = cmd /\ pc' = pc /\ cmd[c] \in Commands(c)
  BY DEF transfer, Conversation
<1> QED BY <1>4, <1>5, <1>6 DEF Conversation

\* Points and what leads from one to the next, for the bytes of a card.
LEMMA PointType ==
  ASSUME NEW at \in {"proc", "one", "data", "sw2", "due", "end"}, NEW r \in Nat
  PROVE  /\ Point(at, r) \in Points /\ Point(at, r).at = at /\ Point(at, r).r = r
  BY DEF Point, Points

\* Two bytes one after the other.
LEMMA PairIs ==
  ASSUME NEW b \in ByteRec, NEW d \in ByteRec
  PROVE  <<b>> \o <<d>> = <<b, d>>
<1>1. <<b>> \in Seq(ByteRec) /\ <<d>> \in Seq(ByteRec)
  OBVIOUS
<1>2. <<b>> \o <<d>> \in Seq(ByteRec) /\ Len(<<b>> \o <<d>>) = 2
  BY <1>1, ConcatProperties
<1>3. (<<b>> \o <<d>>)[1] = b /\ (<<b>> \o <<d>>)[2] = d
  BY <1>1, ConcatProperties
<1>4. /\ <<b, d>> \in Seq(ByteRec) /\ Len(<<b, d>>) = 2
      /\ <<b, d>>[1] = b /\ <<b, d>>[2] = d
  OBVIOUS
<1>5. \A k \in 1 .. 2 : k = 1 \/ k = 2
  OBVIOUS
<1>6. \A k \in 1 .. 2 : (<<b>> \o <<d>>)[k] = <<b, d>>[k]
  BY <1>3, <1>4, <1>5
<1> QED BY <1>2, <1>4, <1>6, SeqEqual

\* The card asks for more time, or sends the status bytes.
LEMMA CardEnds ==
  ASSUME TypeOK, LockInv, BytesOK, NEW c \in Clients, lock = c, NEW C, cmd[c] = C,
         Conversation(c), card.mode = "answer", CardNull \/ CardStatus,
         UNCHANGED <<pc, transfer>>
  PROVE  Conversation(c)'
<1> DEFINE q == Point("proc", card.done)
<1>1. /\ wire \in Seq(ByteRec) /\ C \in CommandRec /\ card.done \in Nat
      /\ C.dir \in {"read", "write"}
  BY CommandType DEF BytesOK, CardRec, Conversation
<1>2. card.cmd = C /\ CardAt(C, "proc") /\ cmd' = cmd
  BY DEF Conversation, CardAt, transfer
<1>3. q \in Points /\ q.at = "proc" /\ q.r = card.done
  BY <1>1, PointType
<1>4. CASE CardNull
  <2> DEFINE b == Byte("null", C, 0)
  <2>1. b \in ByteRec
    BY <1>1, ByteType
  <2>2. Reads(C, q, b, q)
    BY <1>3 DEF Reads
  <2>3. Leads(C, <<b>>, q, q)
    BY <1>3, <2>1, <2>2, LeadsByte
  <2>4. wire' = wire \o <<b>> /\ card' = card
    BY <1>2, <1>4, <2>1 DEF CardNull
  <2>5. CardAt(C, "proc")'
    BY <1>2, <2>4 DEF CardAt
  <2>6. <<b>> \in Seq(ByteRec)
    BY <2>1
  <2> HIDE DEF b
  <2> QED BY <1>1, <2>3, <2>4, <2>5, <2>6, CardGoesOn
<1>5. CASE CardStatus
  <2> DEFINE b == Byte("sw1", C, 0)
             d == Byte("sw2", C, 0)
             m == Point("sw2", card.done)
             e == Point("end", card.done)
  <2>1. b \in ByteRec /\ d \in ByteRec /\ <<b>> \in Seq(ByteRec) /\ <<d>> \in Seq(ByteRec)
    BY <1>1, ByteType
  <2>2. m \in Points /\ e \in Points /\ m.at = "sw2" /\ m.r = card.done
    BY <1>1, PointType
  <2>3. Reads(C, q, b, m) /\ Reads(C, m, d, e)
    BY <1>3, <2>2 DEF Reads
  <2>4. Leads(C, <<b>>, q, m) /\ Leads(C, <<d>>, m, e)
    BY <1>3, <2>1, <2>2, <2>3, LeadsByte
  <2>5. /\ wire' = wire \o <<b, d>>
        /\ card' = [card EXCEPT !.mode = "idle", !.said = @ \o <<b, d>>]
    BY <1>2, <1>5 DEF CardStatus
  <2>6. CardAt(C, "end")'
    <3>1. /\ card'.cmd = C /\ card'.mode = "idle" /\ card'.done = card.done
          /\ card'.got = card.got /\ card'.said = card.said \o <<b, d>>
      BY <1>2, <2>5 DEF BytesOK, CardRec
    <3>2. card.said = (IF C.dir = "read" THEN Data(C, 1, card.done) ELSE <<>>) \o <<>>
      BY <1>2 DEF CardAt
    <3>3. (IF C.dir = "read" THEN Data(C, 1, card.done) ELSE <<>>) \in Seq(ByteRec)
      BY <1>1, DataAll
    <3>4. card.said = (IF C.dir = "read" THEN Data(C, 1, card.done) ELSE <<>>)
      BY <3>2, <3>3, ConcatEmptySeq
    <3> HIDE DEF b, d
    <3>5. /\ C.dir = "write" => card.done \in {0, C.n}
          /\ card.got = IF C.dir = "write" THEN Data(C, 1, card.done) ELSE <<>>
      BY <1>2 DEF CardAt
    <3>6. card'.said = (IF C.dir = "read" THEN Data(C, 1, card'.done) ELSE <<>>) \o
                       (IF card'.mode = "idle" THEN <<b, d>> ELSE <<>>)
      BY <3>1, <3>4
    <3> QED BY <3>1, <3>5, <3>6 DEF CardAt, b, d
  <2> HIDE DEF b, d, m, e
  <2>7. <<b>> \o <<d>> = <<b, d>>
    BY <2>1, PairIs
  <2>c. <<b, d>> \in Seq(ByteRec)
    BY <2>1
  <2>8. Leads(C, <<b, d>>, q, e)
    BY <2>1, <2>4, <2>7, LeadsOn
  <2>9. card'.done = card.done
    BY <2>5 DEF BytesOK, CardRec
  <2> QED BY <1>1, <2>5, <2>6, <2>c, <2>8, <2>9, CardGoesOn DEF e
<1> QED BY <1>4, <1>5

\* The card sends data of a read: all that is left, or one byte.
LEMMA CardSends ==
  ASSUME TypeOK, LockInv, BytesOK, NEW c \in Clients, lock = c, NEW C, cmd[c] = C,
         Conversation(c), card.mode = "answer", C.dir = "read",
         NEW kind \in {"ins", "inv"}, CardProcedure(kind), UNCHANGED <<pc, transfer>>
  PROVE  Conversation(c)'
<1> DEFINE q == Point("proc", card.done)
           m == Point(IF kind = "inv" THEN "one" ELSE "data", card.done)
           k == IF kind = "inv" THEN 1 ELSE C.n - card.done
           to == card.done + k
           b == Byte(kind, C, 0)
           data == Data(C, card.done + 1, to)
<1>1. wire \in Seq(ByteRec) /\ C \in CommandRec /\ card.done \in Nat /\ C.n \in Nat
  <2>1. wire \in Seq(ByteRec) /\ C \in CommandRec /\ card.done \in Nat
    BY CommandType DEF BytesOK, CardRec, Conversation
  <2>2. C.n \in 0 .. 255
    BY <2>1 DEF CommandRec
  <2>3. C.n \in Nat
    BY <2>2
  <2> QED BY <2>1, <2>3
<1>2. card.cmd = C /\ CardAt(C, "proc")
  BY DEF Conversation, CardAt
<1>3. card.done < C.n
  <2>1. C.n - card.done > 0
    BY <1>2 DEF CardProcedure
  <2> QED BY <1>1, <2>1
<1>4. /\ wire' = wire \o <<b>> \o data
      /\ card' = [card EXCEPT !.done = @ + Len(data), !.said = @ \o data]
  BY <1>2 DEF CardProcedure, CardSays
<1>5. /\ to \in Nat /\ card.done <= to /\ to - card.done = k /\ k \in Nat
      /\ kind = "ins" => to = C.n
      /\ kind = "inv" => to = card.done + 1
  BY <1>1, <1>3
<1>6. b \in ByteRec /\ <<b>> \in Seq(ByteRec)
  BY <1>1, ByteType
<1>7. q \in Points /\ m \in Points /\ q.at = "proc" /\ q.r = card.done /\ m.r = card.done
  BY <1>1, PointType
<1>8. Leads(C, <<b>>, q, m)
  <2>1. Reads(C, q, b, m)
    BY <1>3, <1>7 DEF Reads
  <2> QED BY <1>6, <1>7, <2>1, LeadsByte
<1> HIDE DEF k, to
<1>9. data \in Seq(ByteRec) /\ Len(data) = k
  BY <1>1, <1>5, DataIs
<1>10. Leads(C, data, m, Point("proc", to))
  <2>1. CASE kind = "ins"
    BY <1>1, <1>3, <1>5, <2>1, LeadsData
  <2>2. CASE kind = "inv"
    <3> DEFINE x == Byte("data", C, card.done + 1)
    <3>1. data = <<x>> /\ x \in ByteRec
      BY <1>1, <1>5, <2>2, DataOne, ByteType
    <3>2. m.at = "one"
      BY <1>1, <2>2, PointType
    <3>3. Point("proc", card.done + 1) \in Points
      BY <1>1, PointType
    <3>4. Reads(C, m, x, Point("proc", card.done + 1))
      BY <1>3, <1>7, <3>2 DEF Reads
    <3> HIDE DEF x, m, data
    <3>5. Leads(C, <<x>>, m, Point("proc", card.done + 1))
      BY <1>7, <3>1, <3>3, <3>4, LeadsByte
    <3> QED BY <1>5, <2>2, <3>1, <3>5
  <2> QED BY <2>1, <2>2
<1>11. Data(C, 1, card.done) \o data = Data(C, 1, to)
  BY <1>1, <1>5, DataConcat
<1>12. card.said = Data(C, 1, card.done) /\ card.got = <<>>
  <2>1. card.said = Data(C, 1, card.done) \o <<>> /\ card.got = <<>>
    BY <1>2 DEF CardAt
  <2>2. Data(C, 1, card.done) \in Seq(ByteRec)
    BY <1>1, DataAll
  <2> QED BY <2>1, <2>2, ConcatEmptySeq
<1> HIDE DEF data, b, m
<1>13. /\ card'.cmd = C /\ card'.mode = "answer" /\ card'.got = <<>>
       /\ card'.done = card.done + Len(data) /\ card'.said = card.said \o data
  BY <1>2, <1>4, <1>12 DEF BytesOK, CardRec
<1>14. card'.done = to
  BY <1>9, <1>13 DEF to
<1>15. CardAt(C, "proc")'
  <2>1. Data(C, 1, to) \in Seq(ByteRec)
    BY <1>1, <1>5, DataAll
  <2>2. card'.said = Data(C, 1, card'.done) \o <<>>
    BY <1>11, <1>12, <1>13, <1>14, <2>1, ConcatEmptySeq
  <2> QED BY <1>13, <2>2 DEF CardAt
<1>16. <<b>> \o data \in Seq(ByteRec)
  BY <1>6, <1>9, ConcatProperties
<1>17. wire' = wire \o (<<b>> \o data)
  BY <1>1, <1>4, <1>6, <1>9, ConcatAssociative
<1>18. Leads(C, <<b>> \o data, q, Point("proc", to))
  BY <1>6, <1>8, <1>9, <1>10, LeadsOn
<1> QED BY <1>5, <1>14, <1>15, <1>16, <1>17, <1>18, CardGoesOn

\* The card asks for the data of a write, all of it.
LEMMA CardAsks ==
  ASSUME TypeOK, LockInv, BytesOK, NEW c \in Clients, lock = c, NEW C, cmd[c] = C,
         Conversation(c), card.mode = "answer", C.dir = "write",
         CardProcedure("ins"), UNCHANGED <<pc, transfer>>
  PROVE  Conversation(c)'
<1> DEFINE q == Point("proc", card.done)
           b == Byte("ins", C, 0)
<1>1. wire \in Seq(ByteRec) /\ C \in CommandRec /\ card.done \in Nat /\ C.n \in Nat
  <2>1. wire \in Seq(ByteRec) /\ C \in CommandRec /\ card.done \in Nat
    BY CommandType DEF BytesOK, CardRec, Conversation
  <2>2. C.n \in 0 .. 255
    BY <2>1 DEF CommandRec
  <2>3. C.n \in Nat
    BY <2>2
  <2> QED BY <2>1, <2>3
<1>2. card.cmd = C /\ CardAt(C, "proc")
  BY DEF Conversation, CardAt
<1>3. card.done = 0
  <2>1. C.n - card.done > 0
    BY <1>2 DEF CardProcedure
  <2>2. card.done \in {0, C.n}
    BY <1>2 DEF CardAt
  <2> QED BY <1>1, <2>1, <2>2
<1>4. wire' = Append(wire, b) /\ card' = [card EXCEPT !.mode = "take", !.ask = C.n - 0]
  BY <1>2, <1>3 DEF CardProcedure
<1>5. b \in ByteRec /\ <<b>> \in Seq(ByteRec)
  BY <1>1, ByteType
<1>6. /\ q \in Points /\ q.at = "proc" /\ q.r = 0 /\ Point("due", 0) \in Points
  BY <1>1, <1>3, PointType
<1>7. Leads(C, <<b>>, q, Point("due", 0))
  <2>1. Reads(C, q, b, Point("due", 0))
    BY <1>6 DEF Reads
  <2> QED BY <1>5, <1>6, <2>1, LeadsByte
<1> HIDE DEF b
<1>8. /\ card'.cmd = C /\ card'.mode = "take" /\ card'.ask = C.n - 0 /\ card'.done = 0
      /\ card'.got = card.got /\ card'.said = card.said
  BY <1>2, <1>3, <1>4 DEF BytesOK, CardRec
<1>9. card'.ask = C.n
  BY <1>1, <1>8
<1>10. CardAt(C, "due")'
  BY <1>2, <1>3, <1>8, <1>9 DEF CardAt
<1>11. wire' = wire \o <<b>>
  BY <1>1, <1>4, <1>5, AppendIsConcat
<1>12. Leads(C, <<b>>, Point("proc", card.done), Point("due", card'.done))
  BY <1>7, <1>8
<1> QED BY <1>5, <1>10, <1>11, <1>12, CardGoesOn

\* Whatever the card does, the reader will understand it.
LEMMA CardTalks ==
  ASSUME TypeOK, LockInv, BytesOK, TransferInv, CardActs, Inverting \subseteq {"read"}
  PROVE  TransferInv'
<1>1. UNCHANGED <<pc, transfer>> /\ UNCHANGED <<lock, cmd, txbuf, rxbuf, dirty>>
  BY DEF CardActs, transfer
<1>2. CASE CardMoves
  <2>1. wire' = <<>> /\ card'.mode = "off"
    BY <1>2 DEF CardMoves, Card
  <2> QED BY <1>1, <2>1 DEF TransferInv
<1>3. ASSUME \/ CardNull \/ CardStatus
             \/ \E kind \in {"ins", "inv"} : CardProcedure(kind)
      PROVE  TransferInv'
  <2>1. card.mode = "answer"
    BY <1>3 DEF CardNull, CardStatus, CardProcedure
  <2>2. dirty \/ lock # Nobody
    BY <2>1 DEF TransferInv
  <2>3. ASSUME lock # Nobody PROVE Conversation(lock)'
    <3>1. lock \in Clients /\ Conversation(lock)
      BY <2>1, <2>3 DEF TransferInv, TypeOK
    <3>2. cmd[lock].dir \in {"read", "write"} /\ card.cmd = cmd[lock]
      BY <3>1, CommandType DEF Conversation, CardAt
    <3>3. PICK c \in Clients : c = lock
      BY <3>1
    <3>4. PICK C : C = cmd[c]
      OBVIOUS
    <3>5. CASE CardNull \/ CardStatus
      <4>1. Conversation(c)'
        BY <1>1, <2>1, <3>1, <3>3, <3>4, <3>5, CardEnds
      <4> QED BY <1>1, <3>3, <4>1
    <3>6. ASSUME NEW kind \in {"ins", "inv"}, CardProcedure(kind), C.dir = "read"
          PROVE  Conversation(lock)'
      <4>1. Conversation(c)'
        BY <1>1, <2>1, <3>1, <3>3, <3>4, <3>6, CardSends
      <4> QED BY <1>1, <3>3, <4>1
    <3>7. ASSUME NEW kind \in {"ins", "inv"}, CardProcedure(kind), C.dir = "write"
          PROVE  Conversation(lock)'
      <4>1. kind = "ins"
        BY <3>2, <3>3, <3>4, <3>7 DEF CardProcedure
      <4>2. Conversation(c)'
        BY <1>1, <2>1, <3>1, <3>3, <3>4, <3>7, <4>1, CardAsks
      <4> QED BY <1>1, <3>3, <4>2
    <3> QED BY <1>3, <3>2, <3>3, <3>4, <3>5, <3>6, <3>7
  <2>4. /\ lock' = Nobody /\ ~dirty' => wire' = <<>> /\ card'.mode \in {"idle", "off"}
        /\ lock' # Nobody =>
             /\ ~dirty'
             /\ (card'.mode = "off" /\ wire' = <<>>) \/ Conversation(lock)'
    <3>1. lock # Nobody => ~dirty
      BY DEF TransferInv
    <3> QED BY <1>1, <2>2, <2>3, <3>1
  <2>5. /\ \A c \in Clients : pc'[c] \in {"t0", "proc", "data", "one", "sw2"} => c \in Talkers
        /\ \A c \in Clients : pc'[c] = "t0" =>
             /\ lock' = Nobody /\ ~dirty'
             /\ cmd'[c] \in Commands(c)
             /\ rxbuf' = <<>>
             /\ txbuf' = <<Header(cmd'[c])>> \o
                         (IF cmd'[c].dir = "write" THEN Data(cmd'[c], 1, cmd'[c].n) ELSE <<>>)
    BY <1>1 DEF TransferInv
  <2> QED BY <2>4, <2>5 DEF TransferInv
<1> QED BY <1>2, <1>3 DEF CardActs

\* A transfer that holds dev->lock goes on: nobody is before the lock.
LEMMA TransferGoesOn ==
  ASSUME TypeOK, LockInv, TransferInv, NEW c \in Clients, lock = c, lock' = c, ~dirty',
         \A d \in Clients : d # c => pc'[d] = pc[d],
         pc'[c] # "t0", Conversation(c)'
  PROVE  TransferInv'
<1>1. lock # Nobody /\ \A d \in Clients : pc[d] # "t0"
  BY NameAssumption DEF TransferInv
<1>2. c \in Talkers
  BY DEF LockInv, TransferInv
<1> QED BY <1>1, <1>2 DEF TransferInv

\* A transfer that gives dev->lock up.
LEMMA TransferEnds ==
  ASSUME TypeOK, LockInv, TransferInv, NEW c \in Clients, lock = c, lock' = Nobody,
         \A d \in Clients : d # c => pc'[d] = pc[d],
         pc'[c] = "idle",
         dirty' \/ (wire' = <<>> /\ card'.mode = "idle")
  PROVE  TransferInv'
<1>1. lock # Nobody /\ \A d \in Clients : pc[d] # "t0"
  BY NameAssumption DEF TransferInv
<1>2. \A d \in Clients : pc'[d] \in {"t0", "proc", "data", "one", "sw2"} => d \in Talkers
  BY DEF TransferInv
<1> QED BY <1>1, <1>2 DEF TransferInv

\* No data at all.
LEMMA DataNone ==
  ASSUME NEW C \in CommandRec
  PROVE  Data(C, 1, 0) = <<>>
<1>1. Data(C, 1, 0) \in Seq(ByteRec) /\ Len(Data(C, 1, 0)) = 0
  BY DataAll
<1> QED BY <1>1, EmptySeq

\* Head and tail of a sequence that a byte was put in front of.
LEMMA HeadTailFront ==
  ASSUME NEW b \in ByteRec, NEW w \in Seq(ByteRec)
  PROVE  /\ <<b>> \o w # <<>> /\ Head(<<b>> \o w) = b /\ Tail(<<b>> \o w) = w
<1> DEFINE x == <<b>> \o w
           n == Len(w)
<1>1. n \in Nat /\ <<b>> \in Seq(ByteRec) /\ Len(<<b>>) = 1 /\ <<b>>[1] = b
  BY LenProperties
<1>2. /\ x \in Seq(ByteRec) /\ Len(x) = 1 + n
      /\ \A k \in 1 .. 1 + n : x[k] = IF k <= 1 THEN <<b>>[k] ELSE w[k - 1]
  BY <1>1, ConcatProperties
<1> HIDE DEF x
<1>3. x # <<>> /\ x[1] = b
  <2>1. 1 \in 1 .. 1 + n /\ 1 + n # 0 /\ 1 <= 1
    BY <1>1
  <2>2. x[1] = b
    BY <1>1, <1>2, <2>1
  <2> QED BY <1>2, <2>1, <2>2, EmptySeq
<1>4. /\ Head(x) = x[1] /\ Tail(x) \in Seq(ByteRec) /\ Len(Tail(x)) = Len(x) - 1
      /\ \A i \in 1 .. Len(Tail(x)) : Tail(x)[i] = x[i + 1]
  BY <1>2, <1>3, HeadTailProperties
<1>5. Len(Tail(x)) = n
  BY <1>1, <1>2, <1>4
<1>6. ASSUME NEW i \in 1 .. n PROVE Tail(x)[i] = w[i]
  <2>1. i + 1 \in 1 .. 1 + n /\ ~(i + 1 <= 1) /\ (i + 1) - 1 = i
    BY <1>1
  <2>2. x[i + 1] = w[(i + 1) - 1]
    BY <1>2, <2>1
  <2> QED BY <1>4, <1>5, <2>1, <2>2
<1>7. Tail(x) = w
  BY <1>4, <1>5, <1>6, SeqEqual
<1> QED BY <1>3, <1>4, <1>7 DEF x

\* The header starts a conversation.
LEMMA HeaderStarts ==
  ASSUME TypeOK, LockInv, BytesOK, TransferInv, NEW c \in Clients, SendHeader(c),
         \A d, e \in Talkers : d = e
  PROVE  TransferInv'
<1>1. pc[c] = "t0" /\ lock = Nobody /\ lock' = c /\ wire' = wire /\ cmd' = cmd
      /\ rxbuf' = rxbuf /\ buf' = <<>> /\ dirty' = dirty
      /\ pc' = [pc EXCEPT ![c] = "proc"]
  BY DEF SendHeader, Goto
<1>2. PICK C \in Commands(c) : C = cmd[c]
  BY <1>1 DEF TransferInv
<1> DEFINE X == IF C.dir = "write" THEN Data(C, 1, C.n) ELSE <<>>
           h == Header(C)
<1>3. C \in CommandRec /\ C.dir \in {"read", "write"} /\ C.n \in Nat /\ C.n # 0
  <2>1. C \in CommandRec /\ C.dir \in {"read", "write"} /\ C.n \in 1 .. 255
    BY CommandType
  <2>2. C.n \in Nat /\ C.n # 0
    BY <2>1
  <2> QED BY <2>1, <2>2
<1>4. /\ ~dirty /\ rxbuf = <<>> /\ wire = <<>> /\ card.mode \in {"idle", "off"}
      /\ txbuf = <<h>> \o X
      /\ c \in Talkers
  BY <1>1, <1>2 DEF TransferInv
<1>5. h \in ByteRec /\ <<h>> \in Seq(ByteRec) /\ X \in Seq(ByteRec)
  <2>1. h \in ByteRec
    BY <1>3, ByteType DEF Header
  <2>2. X \in Seq(ByteRec)
    BY <1>3, DataAll
  <2> QED BY <2>1, <2>2
<1> HIDE DEF h, X
<1>6. txbuf # <<>> /\ Head(txbuf) = h /\ Tail(txbuf) = X
  BY <1>4, <1>5, HeadTailFront
<1>7. txbuf' = X /\ card' = Received(<<h>>) /\ rxlen' = IF C.dir = "read" THEN C.n ELSE 0
  BY <1>2, <1>6 DEF SendHeader
<1>8. \A d \in Clients : pc'[d] \in {"t0", "proc", "data", "one", "sw2"} => d = c
  <2>1. ASSUME NEW d \in Clients, d # c PROVE pc'[d] = pc[d]
    BY <1>1, <2>1 DEF TypeOK
  <2>2. ASSUME NEW d \in Clients, pc[d] \in {"t0", "proc", "data", "one", "sw2"} PROVE d = c
    BY <1>4, <2>2 DEF TransferInv
  <2> QED BY <2>1, <2>2
<1>9. pc'[c] = "proc"
  BY <1>1 DEF TypeOK
<1>10. (card'.mode = "off" /\ wire' = <<>>) \/ Conversation(c)'
  <2>1. CASE card.mode = "off"
    BY <1>1, <1>4, <1>7, <2>1 DEF Received
  <2>2. CASE card.mode = "idle"
    <3>1. <<h>>[1] = h /\ h.kind = "header" /\ h.cmd = C
      BY <1>5 DEF h, Header, Byte
    <3>2. card' = Card("answer", C)
      BY <1>7, <2>2, <3>1 DEF Received
    <3>3. /\ card'.mode = "answer" /\ card'.cmd = C /\ card'.done = 0
          /\ card'.got = <<>> /\ card'.said = <<>>
      BY <3>2 DEF Card
    <3>4. Data(C, 1, 0) = <<>>
      BY <1>3, DataNone
    <3>5. CardAt(C, "proc")'
      BY <3>3, <3>4 DEF CardAt
    <3>6. ReaderAt(C, "proc", 0)'
      <4>1. C.n - 0 = C.n /\ 0 <= C.n
        BY <1>3
      <4>2. rxbuf' = <<>> /\ rxbuf' \o buf' = <<>>
        BY <1>1, <1>4
      <4>3. CASE C.dir = "read"
        BY <1>1, <1>7, <3>4, <4>1, <4>2, <4>3 DEF ReaderAt, X
      <4>4. CASE C.dir = "write"
        BY <1>1, <1>7, <4>2, <4>4 DEF ReaderAt, X
      <4> QED BY <1>3, <4>3, <4>4
    <3>7. Leads(C, <<>>, Point("proc", 0), Point("proc", 0))
      BY LeadsNowhere, PointType
    <3>8. wire' = <<>> /\ cmd'[c] = C /\ C \in Commands(c)
      BY <1>1, <1>2, <1>4
    <3> QED BY <1>9, <3>3, <3>5, <3>6, <3>7, <3>8 DEF Conversation
  <2> QED BY <1>4, <2>1, <2>2
<1> QED BY <1>1, <1>4, <1>8, <1>9, <1>10, NameAssumption DEF TransferInv

\* The next byte for a transfer.
LEMMA NextByte ==
  ASSUME TypeOK, LockInv, BytesOK, TransferInv, NEW c \in Clients, lock = c, wire # <<>>
  PROVE  /\ ~dirty
         /\ cmd[c] \in Commands(c)
         /\ \E r \in Nat, at \in {"proc", "due", "end"}, m \in Points :
              /\ ReaderAt(cmd[c], pc[c], r) /\ CardAt(cmd[c], at)
              /\ Reads(cmd[c], Point(pc[c], r), Head(wire), m)
              /\ Leads(cmd[c], Tail(wire), m, Point(at, card.done))
<1>1. ~dirty /\ Conversation(c)
  BY NameAssumption DEF TransferInv
<1>2. wire \in Seq(ByteRec)
  BY DEF BytesOK
<1>3. PICK r \in Nat, at \in {"proc", "due", "end"} :
        /\ ReaderAt(cmd[c], pc[c], r) /\ CardAt(cmd[c], at)
        /\ Leads(cmd[c], wire, Point(pc[c], r), Point(at, card.done))
  BY <1>1 DEF Conversation
<1>4. \E m \in Points : /\ Reads(cmd[c], Point(pc[c], r), Head(wire), m)
                        /\ Leads(cmd[c], Tail(wire), m, Point(at, card.done))
  BY <1>2, <1>3, LeadsTail
<1> QED BY <1>1, <1>3, <1>4 DEF Conversation

\* Nothing follows the status bytes, or the request for the data of a write.
LEMMA NoMore ==
  ASSUME NEW C, NEW w \in Seq(ByteRec), NEW a \in {"due", "end"}, NEW r \in Nat, NEW q,
         Leads(C, w, Point(a, r), q)
  PROVE  w = <<>> /\ q = Point(a, r)
<1>1. Point(a, r) \in Points /\ Point(a, r).at = a
  BY PointType
<1>2. w = <<>>
  <2>1. ASSUME NEW b, NEW m PROVE ~Reads(C, Point(a, r), b, m)
    BY <1>1 DEF Reads
  <2> QED BY <2>1, LeadsTail
<1> QED BY <1>1, <1>2, LeadsNowhere

\* The reader takes a byte and is at a point from which the rest leads on.
LEMMA ReaderGoesOn ==
  ASSUME TypeOK, LockInv, TransferInv, NEW c \in Clients, lock = c, lock' = c, ~dirty',
         cmd' = cmd, card' = card, wire' = Tail(wire),
         NEW to \in {"proc", "data", "one", "sw2"}, pc' = [pc EXCEPT ![c] = to],
         NEW C \in Commands(c), cmd[c] = C,
         NEW r \in Nat, NEW at \in {"proc", "due", "end"}, CardAt(C, at),
         ReaderAt(C, to, r)',
         Leads(C, Tail(wire), Point(to, r), Point(at, card.done))
  PROVE  TransferInv'
<1>1. pc'[c] = to /\ \A d \in Clients : d # c => pc'[d] = pc[d]
  BY DEF TypeOK
<1>2. CardAt(C, at)'
  BY DEF CardAt
<1>3. cmd'[c] = C
  OBVIOUS
<1>4. Conversation(c)'
  BY <1>1, <1>2, <1>3 DEF Conversation
<1> QED BY <1>1, <1>4, TransferGoesOn

\* Data that grows by a byte.
LEMMA DataGrows ==
  ASSUME NEW C \in CommandRec, NEW r \in Nat
  PROVE  Append(Data(C, 1, r), Byte("data", C, r + 1)) = Data(C, 1, r + 1)
<1>1. Data(C, 1, r) \in Seq(ByteRec) /\ Byte("data", C, r + 1) \in ByteRec
  BY DataAll, ByteType
<1>2. Data(C, 1, r) \o Data(C, r + 1, r + 1) = Data(C, 1, r + 1)
  BY DataConcat
<1> QED BY <1>1, <1>2, DataOne, AppendIsConcat

\* smc_read of the data of an INS: as many bytes as the card sends.
LEMMA DataComes ==
  ASSUME TypeOK, LockInv, BytesOK, TransferInv, NEW c \in Clients, ReadData(c)
  PROVE  TransferInv'
<1> DEFINE all == Append(buf, Head(wire))
<1>1. /\ pc[c] = "data" /\ wire # <<>> /\ wire' = Tail(wire) /\ lock = c
      /\ lock' = lock /\ cmd' = cmd /\ txbuf' = txbuf /\ rxlen' = rxlen /\ dirty' = dirty
      /\ card' = card
      /\ IF Len(all) < rxlen
           THEN buf' = all /\ UNCHANGED <<rxbuf, pc>>
           ELSE buf' = <<>> /\ rxbuf' = rxbuf \o all /\ pc' = [pc EXCEPT ![c] = "proc"]
  BY DEF ReadData, Goto, LockInv
<1>2. PICK C \in Commands(c) : C = cmd[c]
  BY <1>1, NextByte
<1>3. PICK r \in Nat, at \in {"proc", "due", "end"}, m \in Points :
        /\ ReaderAt(C, "data", r) /\ CardAt(C, at)
        /\ Reads(C, Point("data", r), Head(wire), m)
        /\ Leads(C, Tail(wire), m, Point(at, card.done))
  BY <1>1, <1>2, NextByte
<1>4. ~dirty
  BY <1>1, NextByte
<1>5. C \in CommandRec /\ C.n \in Nat /\ C.dir \in {"read", "write"}
  <2>1. C \in CommandRec /\ C.n \in 1 .. 255 /\ C.dir \in {"read", "write"}
    BY CommandType
  <2>2. C.n \in Nat
    BY <2>1
  <2> QED BY <2>1, <2>2
<1>6. /\ r < C.n /\ Head(wire) = Byte("data", C, r + 1)
      /\ m = Point(IF r + 1 = C.n THEN "proc" ELSE "data", r + 1)
  <2>1. Point("data", r).at = "data" /\ Point("data", r).r = r
    BY PointType
  <2> QED BY <1>3, <2>1 DEF Reads
<1>7. C.dir = "read"
  BY <1>3, <1>5 DEF ReaderAt
<1>8. /\ txbuf = <<>> /\ rxbuf \o buf = Data(C, 1, r) /\ rxlen = C.n - Len(rxbuf)
  BY <1>3, <1>7 DEF ReaderAt
<1>9. rxbuf \in Seq(ByteRec) /\ buf \in Seq(ByteRec) /\ wire \in Seq(ByteRec)
  BY DEF BytesOK
<1>10. Head(wire) \in ByteRec
  BY <1>1, <1>9, HeadTailProperties
<1>11. /\ Len(rxbuf) \in Nat /\ Len(buf) \in Nat /\ Len(rxbuf) + Len(buf) = r
       /\ Len(all) = Len(buf) + 1 /\ all \in Seq(ByteRec)
  <2>1. Len(rxbuf \o buf) = Len(rxbuf) + Len(buf)
    BY <1>9, ConcatProperties
  <2>2. Len(Data(C, 1, r)) = r
    BY <1>5, DataAll
  <2>3. Len(all) = Len(buf) + 1 /\ all \in Seq(ByteRec)
    BY <1>9, <1>10, AppendProperties
  <2>4. Len(rxbuf) \in Nat /\ Len(buf) \in Nat
    BY <1>9, LenProperties
  <2> QED BY <1>8, <2>1, <2>2, <2>3, <2>4
<1>12. rxbuf \o all = Data(C, 1, r + 1)
  <2>1. all = buf \o <<Head(wire)>>
    BY <1>9, <1>10, AppendIsConcat
  <2>2. <<Head(wire)>> \in Seq(ByteRec)
    BY <1>10
  <2>3. rxbuf \o all = (rxbuf \o buf) \o <<Head(wire)>>
    BY <1>9, <2>1, <2>2, ConcatAssociative
  <2>4. rxbuf \o buf \in Seq(ByteRec)
    BY <1>9, ConcatProperties
  <2>5. rxbuf \o all = Append(rxbuf \o buf, Head(wire))
    BY <1>10, <2>3, <2>4, AppendIsConcat
  <2> QED BY <1>5, <1>6, <1>8, <2>5, DataGrows
<1> HIDE DEF all
<1>13. Len(all) < rxlen <=> r + 1 # C.n
  BY <1>5, <1>6, <1>8, <1>11
<1>14. r + 1 \in Nat /\ r + 1 <= C.n
  BY <1>5, <1>6
<1>15. CASE r + 1 # C.n
  <2>1. buf' = all /\ rxbuf' = rxbuf /\ pc' = pc
    BY <1>1, <1>13, <1>15
  <2>2. pc' = [pc EXCEPT ![c] = "data"]
    BY <1>1, <2>1 DEF TypeOK
  <2>3. r + 1 < C.n
    BY <1>5, <1>14, <1>15
  <2>4. ReaderAt(C, "data", r + 1)'
    BY <1>1, <1>7, <1>8, <1>12, <1>14, <2>1, <2>3 DEF ReaderAt
  <2>5. m = Point("data", r + 1)
    BY <1>6, <1>15
  <2> QED BY <1>1, <1>2, <1>3, <1>4, <1>14, <2>2, <2>4, <2>5, ReaderGoesOn
<1>16. CASE r + 1 = C.n
  <2>1. buf' = <<>> /\ rxbuf' = Data(C, 1, r + 1) /\ pc' = [pc EXCEPT ![c] = "proc"]
    BY <1>1, <1>12, <1>13, <1>16
  <2>2. Data(C, 1, r + 1) \o <<>> = Data(C, 1, r + 1)
    BY <1>5, <1>14, DataAll, ConcatEmptySeq
  <2>3. ReaderAt(C, "proc", r + 1)'
    BY <1>1, <1>7, <1>8, <1>14, <1>16, <2>1, <2>2 DEF ReaderAt
  <2>4. m = Point("proc", r + 1)
    BY <1>6, <1>16
  <2> QED BY <1>1, <1>2, <1>3, <1>4, <1>14, <2>1, <2>3, <2>4, ReaderGoesOn
<1> QED BY <1>15, <1>16

\* smc_read of the one byte after the complement of INS: rxlen is not 0 there.
LEMMA ByteComes ==
  ASSUME TypeOK, LockInv, BytesOK, TransferInv, NEW c \in Clients, ReadOne(c)
  PROVE  TransferInv'
<1>1. /\ pc[c] = "one" /\ wire # <<>> /\ wire' = Tail(wire) /\ lock = c
      /\ lock' = lock /\ cmd' = cmd /\ txbuf' = txbuf /\ buf' = buf /\ dirty' = dirty
      /\ card' = card /\ rxlen' = (rxlen + 255) % 256
      /\ rxbuf' = Append(rxbuf, Head(wire))
      /\ pc' = [pc EXCEPT ![c] = "proc"]
  BY DEF ReadOne, OneLess, Goto, LockInv
<1>2. PICK C \in Commands(c) : C = cmd[c]
  BY <1>1, NextByte
<1>3. PICK r \in Nat, at \in {"proc", "due", "end"}, m \in Points :
        /\ ReaderAt(C, "one", r) /\ CardAt(C, at)
        /\ Reads(C, Point("one", r), Head(wire), m)
        /\ Leads(C, Tail(wire), m, Point(at, card.done))
  BY <1>1, <1>2, NextByte
<1>4. ~dirty
  BY <1>1, NextByte
<1>5. C \in CommandRec /\ C.n \in 1 .. 255 /\ C.dir \in {"read", "write"}
  BY CommandType
<1>6. r < C.n /\ Head(wire) = Byte("data", C, r + 1) /\ m = Point("proc", r + 1)
  <2>1. Point("one", r).at = "one" /\ Point("one", r).r = r
    BY PointType
  <2> QED BY <1>3, <2>1 DEF Reads
<1>7. C.dir = "read"
  BY <1>3, <1>5 DEF ReaderAt
<1>8. /\ txbuf = <<>> /\ buf = <<>> /\ rxbuf \o <<>> = Data(C, 1, r)
      /\ rxlen = C.n - r \/ r = C.n
  BY <1>3, <1>7 DEF ReaderAt
<1>9. rxbuf \in Seq(ByteRec)
  BY DEF BytesOK
<1>10. rxbuf = Data(C, 1, r)
  BY <1>8, <1>9, ConcatEmptySeq
<1>11. rxbuf' = Data(C, 1, r + 1) /\ rxbuf' \o <<>> = Data(C, 1, r + 1)
  <2>1. rxbuf' = Data(C, 1, r + 1)
    BY <1>1, <1>5, <1>6, <1>10, DataGrows
  <2>2. Data(C, 1, r + 1) \in Seq(ByteRec)
    BY <1>5, DataAll
  <2> QED BY <2>1, <2>2, ConcatEmptySeq
<1>12. r + 1 \in Nat /\ r + 1 <= C.n
  BY <1>5, <1>6
<1>13. rxlen' = C.n - (r + 1)
  <2>1. rxlen = C.n - r
    BY <1>5, <1>6, <1>8
  <2>2. C.n - r \in 1 .. 255
    <3>1. ASSUME NEW n \in 1 .. 255, NEW k \in Nat, k < n PROVE n - k \in 1 .. 255
      BY <3>1
    <3> QED BY <1>5, <1>6, <3>1
  <2>3. ASSUME NEW x \in 1 .. 255 PROVE (x + 255) % 256 = x - 1
    OBVIOUS
  <2>4. rxlen' = (C.n - r) - 1
    BY <1>1, <2>1, <2>2, <2>3
  <2> QED BY <1>5, <2>4
<1>14. ReaderAt(C, "proc", r + 1)'
  BY <1>1, <1>7, <1>8, <1>11, <1>12, <1>13 DEF ReaderAt
<1> QED BY <1>1, <1>2, <1>3, <1>4, <1>6, <1>12, <1>14, ReaderGoesOn

\* smc_read of SW2 ends the transfer, with nothing left on the wire.
LEMMA StatusComes ==
  ASSUME TypeOK, LockInv, BytesOK, TransferInv, NEW c \in Clients, ReadStatus(c)
  PROVE  TransferInv'
<1>1. /\ pc[c] = "sw2" /\ wire # <<>> /\ wire' = Tail(wire) /\ lock = c
      /\ lock' = Nobody /\ card' = card
      /\ pc' = [pc EXCEPT ![c] = "idle"]
  BY DEF ReadStatus, Final, Goto, LockInv
<1>2. PICK r \in Nat, at \in {"proc", "due", "end"}, m \in Points :
        /\ ReaderAt(cmd[c], "sw2", r) /\ CardAt(cmd[c], at)
        /\ Reads(cmd[c], Point("sw2", r), Head(wire), m)
        /\ Leads(cmd[c], Tail(wire), m, Point(at, card.done))
  BY <1>1, NextByte
<1>3. m = Point("end", r)
  <2>1. Point("sw2", r).at = "sw2" /\ Point("sw2", r).r = r
    BY PointType
  <2> QED BY <1>2, <2>1 DEF Reads
<1>4. Tail(wire) \in Seq(ByteRec)
  BY <1>1, HeadTailProperties DEF BytesOK
<1>5. Tail(wire) = <<>> /\ Point(at, card.done) = m
  <2>1. Leads(cmd[c], Tail(wire), Point("end", r), Point(at, card.done))
    BY <1>2, <1>3
  <2> QED BY <1>3, <1>4, <2>1, NoMore
<1>6. at = "end"
  BY <1>3, <1>5 DEF Point
<1>7. card.mode = "idle"
  BY <1>2, <1>6 DEF CardAt
<1>8. pc'[c] = "idle" /\ \A d \in Clients : d # c => pc'[d] = pc[d]
  BY <1>1 DEF TypeOK
<1> QED BY <1>1, <1>5, <1>7, <1>8, TransferEnds

\* A procedure byte of the card is taken for what it is.
LEMMA Meaning ==
  ASSUME NEW C, NEW kind \in {"null", "sw1", "ins", "inv"}
  PROVE  Meanings(Byte(kind, C, 0), C) = {kind}
<1>1. Byte(kind, C, 0).kind = kind /\ Byte(kind, C, 0).cmd = C
  BY DEF Byte
<1>2. CASE kind \in {"ins", "inv"}
  BY <1>1, <1>2 DEF Meanings
<1>3. CASE kind \in {"null", "sw1"}
  BY <1>1, <1>3 DEF Meanings
<1> QED BY <1>2, <1>3

\* smc_read of a procedure byte.
LEMMA ProcedureComes ==
  ASSUME TypeOK, LockInv, BytesOK, TransferInv, NEW c \in Clients, ReadProcedure(c)
  PROVE  TransferInv'
<1>1. pc[c] = "proc" /\ wire # <<>> /\ wire' = Tail(wire) /\ lock = c
  BY DEF ReadProcedure, LockInv
<1>2. PICK C \in Commands(c) : C = cmd[c]
  BY <1>1, NextByte
<1>3. PICK r \in Nat, at \in {"proc", "due", "end"}, m \in Points :
        /\ ReaderAt(C, "proc", r) /\ CardAt(C, at)
        /\ Reads(C, Point("proc", r), Head(wire), m)
        /\ Leads(C, Tail(wire), m, Point(at, card.done))
  BY <1>1, <1>2, NextByte
<1>4. ~dirty
  BY <1>1, NextByte
<1>5. C \in CommandRec /\ C.n \in Nat /\ C.n # 0 /\ C.dir \in {"read", "write"}
  <2>1. C \in CommandRec /\ C.n \in 1 .. 255 /\ C.dir \in {"read", "write"}
    BY CommandType
  <2>2. C.n \in Nat /\ C.n # 0
    BY <2>1
  <2> QED BY <2>1, <2>2
<1>6. Point("proc", r).at = "proc" /\ Point("proc", r).r = r
  BY PointType
<1>7. rxbuf \in Seq(ByteRec) /\ wire \in Seq(ByteRec) /\ Tail(wire) \in Seq(ByteRec)
  BY <1>1, HeadTailProperties DEF BytesOK
<1>8. C.dir = "read" => rxbuf = Data(C, 1, r) /\ buf = <<>>
  BY <1>3, <1>7, ConcatEmptySeq DEF ReaderAt
<1>p. pc = [pc EXCEPT ![c] = "proc"]
  BY <1>1 DEF TypeOK
<1>9. CASE Head(wire) = Byte("null", C, 0) /\ m = Point("proc", r)
  <2>1. Meanings(Head(wire), cmd[c]) = {"null"}
    BY <1>2, <1>9, Meaning
  <2>2. UNCHANGED <<pc, transfer, card>>
    BY <2>1 DEF ReadProcedure
  <2>3. UNCHANGED <<lock, cmd, dirty>> /\ ReaderAt(C, "proc", r)'
    BY <1>3, <2>2 DEF ReaderAt, transfer
  <2> QED BY <1>1, <1>2, <1>3, <1>4, <1>9, <1>p, <2>2, <2>3, ReaderGoesOn
<1>10. CASE Head(wire) = Byte("sw1", C, 0) /\ m = Point("sw2", r)
  <2>1. Meanings(Head(wire), cmd[c]) = {"sw1"}
    BY <1>2, <1>10, Meaning
  <2>2. /\ rxbuf' = Append(rxbuf, Head(wire)) /\ pc' = [pc EXCEPT ![c] = "sw2"]
        /\ UNCHANGED <<lock, cmd, txbuf, buf, rxlen, dirty, card>>
    BY <2>1 DEF ReadProcedure, Goto
  <2>3. ReaderAt(C, "sw2", r)'
    <3>1. CASE C.dir = "read"
      BY <1>3, <1>8, <1>10, <2>2, <3>1 DEF ReaderAt
    <3>2. CASE C.dir = "write"
      <4>1. rxbuf = <<>>
        BY <1>3, <3>2 DEF ReaderAt
      <4>2. rxbuf' = <<Byte("sw1", C, 0)>>
        BY <1>10, <2>2, <4>1
      <4> QED BY <1>3, <2>2, <3>2, <4>2 DEF ReaderAt
    <3> QED BY <1>5, <3>1, <3>2
  <2> QED BY <1>1, <1>2, <1>3, <1>4, <1>10, <2>2, <2>3, ReaderGoesOn
<1>11. CASE /\ Head(wire) = Byte("inv", C, 0) /\ m = Point("one", r)
            /\ C.dir = "read" /\ r < C.n
  <2>1. Meanings(Head(wire), cmd[c]) = {"inv"}
    BY <1>2, <1>11, Meaning
  <2>2. pc' = [pc EXCEPT ![c] = "one"] /\ UNCHANGED <<transfer, card>>
    BY <2>1 DEF ReadProcedure, Goto
  <2>3. UNCHANGED <<lock, cmd, dirty>> /\ ReaderAt(C, "one", r)'
    BY <1>3, <1>11, <2>2 DEF ReaderAt, transfer
  <2> QED BY <1>1, <1>2, <1>3, <1>4, <1>11, <2>2, <2>3, ReaderGoesOn
<1>12. CASE /\ Head(wire) = Byte("ins", C, 0) /\ m = Point("data", r)
            /\ C.dir = "read" /\ r < C.n
  <2>1. Meanings(Head(wire), cmd[c]) = {"ins"}
    BY <1>2, <1>12, Meaning
  <2>2. txbuf = <<>> /\ rxlen = C.n - r /\ rxlen # 0
    <3>1. txbuf = <<>> /\ (rxlen = C.n - r \/ r = C.n)
      BY <1>3, <1>12 DEF ReaderAt
    <3> QED BY <1>5, <1>12, <3>1
  <2>3. pc' = [pc EXCEPT ![c] = "data"] /\ UNCHANGED <<transfer, card>>
    BY <2>1, <2>2 DEF ReadProcedure, Goto
  <2>4. UNCHANGED <<lock, cmd, dirty, txbuf, rxbuf, buf, rxlen>>
    BY <2>3 DEF transfer
  <2>5. rxlen = C.n - Len(rxbuf)
    BY <1>5, <1>8, <1>12, <2>2, DataAll
  <2>6. rxbuf \o buf = Data(C, 1, r) /\ r <= C.n
    BY <1>3, <1>12 DEF ReaderAt
  <2>7. ReaderAt(C, "data", r)'
    BY <1>12, <2>2, <2>4, <2>5, <2>6 DEF ReaderAt
  <2> QED BY <1>1, <1>2, <1>3, <1>4, <1>12, <2>3, <2>4, <2>7, ReaderGoesOn
<1>13. CASE /\ Head(wire) = Byte("ins", C, 0) /\ m = Point("due", 0)
            /\ C.dir = "write" /\ r = 0
  <2>1. Meanings(Head(wire), cmd[c]) = {"ins"}
    BY <1>2, <1>13, Meaning
  <2>2. txbuf = Data(C, 1, C.n) /\ buf = <<>> /\ rxlen = 0 /\ rxbuf = <<>>
    BY <1>3, <1>13 DEF ReaderAt
  <2>3. txbuf \in Seq(ByteRec) /\ Len(txbuf) = C.n /\ txbuf # <<>>
    BY <1>5, <2>2, DataAll, EmptySeq
  <2>4. /\ txbuf' = <<>> /\ card' = Received(txbuf)
        /\ UNCHANGED <<pc, lock, cmd, rxbuf, buf, rxlen, dirty>>
    BY <2>1, <2>3 DEF ReadProcedure
  <2>5. Tail(wire) = <<>> /\ Point(at, card.done) = Point("due", 0)
    <3>1. Leads(C, Tail(wire), Point("due", 0), Point(at, card.done))
      BY <1>3, <1>13
    <3> QED BY <1>7, <3>1, NoMore
  <2>6. at = "due"
    BY <2>5 DEF Point
  <2>7. /\ card.mode = "take" /\ card.ask = C.n /\ card.done = 0 /\ card.cmd = C
        /\ card.got = Data(C, 1, 0) /\ card.said = <<>>
    BY <1>3, <1>13, <2>6 DEF CardAt
  <2>8. card' = [card EXCEPT !.mode = "answer", !.done = @ + card.ask, !.got = @ \o txbuf]
    BY <2>3, <2>4, <2>7 DEF Received
  <2>9. /\ card'.mode = "answer" /\ card'.done = 0 + C.n /\ card'.cmd = C
        /\ card'.got = Data(C, 1, 0) \o txbuf /\ card'.said = <<>>
    BY <2>7, <2>8 DEF BytesOK, CardRec
  <2>10. card'.done = C.n /\ card'.got = Data(C, 1, C.n)
    <3>1. 0 + C.n = C.n
      BY <1>5
    <3>2. <<>> \o txbuf = txbuf
      BY <2>3, ConcatEmptySeq
    <3> QED BY <1>5, <2>2, <2>9, <3>1, <3>2, DataNone
  <2>11. CardAt(C, "proc")'
    BY <1>13, <2>9, <2>10 DEF CardAt
  <2>12. ReaderAt(C, "proc", C.n)'
    BY <1>5, <1>13, <2>2, <2>4 DEF ReaderAt
  <2>13. Leads(C, <<>>, Point("proc", C.n), Point("proc", C.n))
    BY <1>5, LeadsNowhere, PointType
  <2>14. pc'[c] = "proc" /\ cmd'[c] = C /\ wire' = <<>> /\ C \in Commands(c)
    BY <1>1, <1>2, <2>4, <2>5
  <2>15. Conversation(c)'
    BY <1>5, <2>10, <2>11, <2>12, <2>13, <2>14 DEF Conversation
  <2>16. lock' = c /\ ~dirty' /\ pc'[c] # "t0"
         /\ \A d \in Clients : d # c => pc'[d] = pc[d]
    BY <1>1, <1>4, <2>4
  <2> QED BY <1>1, <2>15, <2>16, TransferGoesOn
<1>14. \/ Head(wire) = Byte("null", C, 0) /\ m = Point("proc", r)
       \/ Head(wire) = Byte("sw1", C, 0) /\ m = Point("sw2", r)
       \/ /\ Head(wire) = Byte("inv", C, 0) /\ m = Point("one", r)
          /\ C.dir = "read" /\ r < C.n
       \/ /\ Head(wire) = Byte("ins", C, 0) /\ m = Point("data", r)
          /\ C.dir = "read" /\ r < C.n
       \/ /\ Head(wire) = Byte("ins", C, 0) /\ m = Point("due", 0)
          /\ C.dir = "write" /\ r = 0
  BY <1>3, <1>6 DEF Reads
<1> QED BY <1>9, <1>10, <1>11, <1>12, <1>13, <1>14

\* Every step keeps reader and card in step, if one client talks to the card at a
\* time, resets it after an error, and no card takes its data byte by byte.
LEMMA TransferStep ==
  ASSUME TypeOK, LockInv, LifeInv, BytesOK, TransferInv, [Next]_vars,
         \A d, e \in Talkers : d = e, ResetAfterError, Inverting \subseteq {"read"}
  PROVE  TransferInv'
<1>1. ASSUME NEW c \in Clients, AM_SMC_Open(c) PROVE TransferInv'
  <2>1. /\ ~openned /\ pc' = pc /\ lock' = lock /\ dirty' = dirty /\ card' = card
        /\ wire' = wire
    BY <1>1 DEF AM_SMC_Open, slot
  <2>2. \A d \in Clients : pc[d] = "idle"
    BY <2>1 DEF LifeInv
  <2>3. lock = Nobody
    BY <2>2 DEF LockInv, TypeOK
  <2> QED BY <2>1, <2>2, <2>3 DEF TransferInv
<1>2. ASSUME NEW c \in Clients,
             AM_SMC_Close(c) \/ CloseJoined(c) \/ CallSetCallback(c) \/ AM_SMC_SetCallback(c)
      PROVE  TransferInv'
  <2>1. UNCHANGED <<transfer, slot>>
    BY <1>2 DEF AM_SMC_Close, CloseJoined, CallSetCallback, AM_SMC_SetCallback
  <2>2. /\ pc[c] \in {"idle", "join", "setcb"}
        /\ \E label \in {"idle", "join", "setcb", "asleep"} : pc' = [pc EXCEPT ![c] = label]
    BY <1>2 DEF AM_SMC_Close, CloseJoined, CallSetCallback, AM_SMC_SetCallback, MayCall, Goto
  <2>3. \A d \in Clients : pc'[d] = pc[d] \/ (pc[d] \notin Busy /\ pc'[d] \notin Busy)
    BY <2>2 DEF TypeOK, Busy
  <2> QED BY <2>1, <2>3, TransferFrame
<1>3. ASSUME NEW c \in Clients, AM_SMC_Reset(c) PROVE TransferInv'
  <2>1. /\ lock = Nobody /\ lock' = Nobody /\ ~dirty' /\ wire' = <<>> /\ pc' = pc
        /\ cmd' = cmd /\ txbuf' = txbuf /\ rxbuf' = rxbuf
        /\ card'.mode = "idle"
    BY <1>3 DEF AM_SMC_Reset, Card
  <2> QED BY <2>1 DEF TransferInv
<1>4. ASSUME NEW c \in Clients, AM_SMC_TransferT0(c) PROVE TransferInv'
  <2>1. /\ pc[c] = "idle" /\ c \in Talkers /\ ~dirty /\ rxbuf' = <<>>
        /\ pc' = [pc EXCEPT ![c] = "t0"]
        /\ UNCHANGED <<lock, dirty, card, wire>>
    BY <1>4 DEF AM_SMC_TransferT0, MayCall, Goto, slot
  <2>2. PICK command \in Commands(c) :
          /\ cmd' = [cmd EXCEPT ![c] = command]
          /\ txbuf' = <<>> \o <<Header(command)>> \o
                      (IF command.dir = "write" THEN Data(command, 1, command.n) ELSE <<>>)
    BY <1>4 DEF AM_SMC_TransferT0, ResetTxbuf
  <2>3. cmd'[c] = command
    BY <2>2 DEF TypeOK
  <2>4. txbuf' = <<Header(command)>> \o
                 (IF command.dir = "write" THEN Data(command, 1, command.n) ELSE <<>>)
    <3>1. command \in CommandRec
      BY CommandType
    <3>2. <<Header(command)>> \in Seq(ByteRec)
      BY <3>1, ByteType DEF Header
    <3>3. <<>> \o <<Header(command)>> = <<Header(command)>>
      BY <3>2, ConcatEmptySeq
    <3> QED BY <2>2, <3>3
  <2>5. lock = Nobody
    <3>1. ASSUME lock # Nobody PROVE FALSE
      <4>1. lock \in Clients /\ pc[lock] \in {"proc", "data", "one", "sw2"}
        BY <3>1 DEF TypeOK, LockInv
      <4>2. lock \in Talkers
        BY <4>1 DEF TransferInv
      <4> QED BY <2>1, <4>1, <4>2
    <3> QED BY <3>1
  <2>6. /\ pc'[c] = "t0"
        /\ \A d \in Clients : d # c => pc'[d] = pc[d]
    BY <2>1 DEF TypeOK
  <2>7. \A d \in Clients : pc'[d] \in {"t0", "proc", "data", "one", "sw2"} => d = c
    BY <2>1, <2>6 DEF TransferInv
  <2> QED BY <2>1, <2>3, <2>4, <2>5, <2>7 DEF TransferInv
<1>5. ASSUME NEW c \in Clients, TransferFails(c) PROVE TransferInv'
  <2>1. lock = c /\ lock' = Nobody /\ dirty' /\ pc' = [pc EXCEPT ![c] = "idle"]
    BY <1>5 DEF TransferFails, Final, Goto
  <2>2. pc'[c] = "idle" /\ \A d \in Clients : d # c => pc'[d] = pc[d]
    BY <2>1 DEF TypeOK
  <2> QED BY <2>1, <2>2, TransferEnds
<1>6. ASSUME NEW c \in Clients,
             SendHeader(c) \/ ReadProcedure(c) \/ ReadData(c) \/ ReadOne(c) \/ ReadStatus(c)
      PROVE  TransferInv'
  BY <1>6, HeaderStarts, ProcedureComes, DataComes, ByteComes, StatusComes
<1>7. CASE GetStatus \/ ThreadExit \/ SetRunCb \/ CallCallback \/ ClearRunCb
           \/ CallbackReturns \/ SetCallbackInCallback \/ UNCHANGED vars
  <2>1. UNCHANGED <<pc, transfer, slot>>
    BY <1>7 DEF GetStatus, ThreadExit, SetRunCb, CallCallback, ClearRunCb, CallbackReturns,
                SetCallbackInCallback, vars
  <2> QED BY <2>1, TransferFrame
<1>8. CASE Broadcast
  <2>1. UNCHANGED <<transfer, slot>>
    BY <1>8 DEF Broadcast
  <2>2. \A d \in Clients : pc'[d] = pc[d] \/ (pc[d] \notin Busy /\ pc'[d] \notin Busy)
    BY <1>8 DEF Broadcast, WakeWaiters, Busy
  <2> QED BY <2>1, <2>2, TransferFrame
<1>9. CASE CardActs
  BY <1>9, CardTalks
<1> QED BY <1>1, <1>2, <1>3, <1>4, <1>5, <1>6, <1>7, <1>8, <1>9, NextCases

\* Two bytes at the end, as the reader appends them and as the card sends them.
LEMMA AppendTwo ==
  ASSUME NEW D \in Seq(ByteRec), NEW b \in ByteRec, NEW d \in ByteRec
  PROVE  Append(Append(D, b), d) = D \o <<b, d>>
<1>1. <<b>> \in Seq(ByteRec) /\ <<d>> \in Seq(ByteRec)
  OBVIOUS
<1>2. <<b>> \o <<d>> = <<b, d>>
  BY PairIs
<1>3. Append(D, b) = D \o <<b>> /\ Append(D, b) \in Seq(ByteRec)
  BY AppendIsConcat, AppendProperties
<1>4. Append(Append(D, b), d) = (D \o <<b>>) \o <<d>>
  BY <1>3, AppendIsConcat
<1> QED BY <1>1, <1>2, <1>4, ConcatAssociative

\* A transfer that ends with SW2 has the card's answer.
LEMMA ExactStep ==
  ASSUME TypeOK, LockInv, BytesOK, TransferInv, [Next]_vars,
         NEW c \in Clients, pc[c] = "sw2", pc'[c] = "idle", wire' # wire
  PROVE  /\ card.cmd = cmd[c]
         /\ Append(rxbuf, Head(wire)) = card.said
         /\ card.got = IF cmd[c].dir = "write" THEN Data(cmd[c], 1, card.done) ELSE <<>>
<1>1. lock = c
  BY DEF LockInv
<1>2. wire # <<>>
  <2>1. ASSUME NEW d \in Clients,
               AM_SMC_Open(d) \/ AM_SMC_Close(d) \/ CloseJoined(d) \/ CallSetCallback(d)
               \/ AM_SMC_SetCallback(d) \/ AM_SMC_TransferT0(d) \/ SendHeader(d)
               \/ TransferFails(d)
        PROVE  wire' = wire
    BY <2>1 DEF AM_SMC_Open, AM_SMC_Close, CloseJoined, CallSetCallback, AM_SMC_SetCallback,
                AM_SMC_TransferT0, SendHeader, TransferFails, slot
  <2>2. ASSUME NEW d \in Clients, AM_SMC_Reset(d) PROVE pc' = pc
    BY <2>2 DEF AM_SMC_Reset
  <2>3. ASSUME NEW d \in Clients, ReadProcedure(d) \/ ReadData(d) \/ ReadOne(d) \/ ReadStatus(d)
        PROVE  wire # <<>>
    BY <2>3 DEF ReadProcedure, ReadData, ReadOne, ReadStatus
  <2>4. ASSUME \/ GetStatus \/ ThreadExit \/ SetRunCb \/ CallCallback \/ ClearRunCb
               \/ Broadcast \/ CallbackReturns \/ SetCallbackInCallback \/ UNCHANGED vars
        PROVE  wire' = wire
    BY <2>4 DEF GetStatus, ThreadExit, SetRunCb, CallCallback, ClearRunCb, Broadcast,
                CallbackReturns, SetCallbackInCallback, vars, slot
  <2>5. ASSUME CardActs PROVE pc' = pc
    BY <2>5 DEF CardActs
  <2> QED BY <2>1, <2>2, <2>3, <2>4, <2>5, NextCases
<1>3. PICK C \in Commands(c) : C = cmd[c]
  BY <1>1, <1>2, NextByte
<1>4. PICK r \in Nat, at \in {"proc", "due", "end"}, m \in Points :
        /\ ReaderAt(C, "sw2", r) /\ CardAt(C, at)
        /\ Reads(C, Point("sw2", r), Head(wire), m)
        /\ Leads(C, Tail(wire), m, Point(at, card.done))
  BY <1>1, <1>2, <1>3, NextByte
<1>5. m = Point("end", r) /\ Head(wire) = Byte("sw2", C, 0)
  <2>1. Point("sw2", r).at = "sw2" /\ Point("sw2", r).r = r
    BY PointType
  <2> QED BY <1>4, <2>1 DEF Reads
<1>6. at = "end" /\ card.done = r
  <2>1. Tail(wire) \in Seq(ByteRec)
    BY <1>2, HeadTailProperties DEF BytesOK
  <2>2. Point(at, card.done) = Point("end", r)
    BY <1>4, <1>5, <2>1, NoMore, ZenonT(30)
  <2> QED BY <2>2 DEF Point
<1>7. C \in CommandRec /\ C.dir \in {"read", "write"}
  BY CommandType
<1> DEFINE b == Byte("sw1", C, 0)
           d == Byte("sw2", C, 0)
           D == IF C.dir = "read" THEN Data(C, 1, r) ELSE <<>>
<1>8. b \in ByteRec /\ d \in ByteRec /\ D \in Seq(ByteRec)
  BY <1>7, ByteType, DataAll
<1>9. /\ card.mode = "idle" /\ card.cmd = C
      /\ card.got = IF C.dir = "write" THEN Data(C, 1, card.done) ELSE <<>>
      /\ card.said = D \o <<b, d>>
  BY <1>4, <1>6 DEF CardAt
<1>10. rxbuf = Append(D, b)
  <2>1. CASE C.dir = "read"
    BY <1>4, <2>1 DEF ReaderAt
  <2>2. CASE C.dir = "write"
    BY <1>4, <2>2 DEF ReaderAt
  <2> QED BY <1>7, <2>1, <2>2
<1> HIDE DEF b, d, D
<1>11. Append(Append(D, b), d) = D \o <<b, d>>
  BY <1>8, AppendTwo
<1> QED BY <1>3, <1>5, <1>9, <1>10, <1>11 DEF d

\* The conversation holds from the start.
LEMMA TransferInit ==
  ASSUME Init
  PROVE  BytesOK /\ TransferInv
<1>1. NoCommand \in CommandRec /\ <<>> \in Seq(ByteRec)
  BY DEF NoCommand, CommandRec
<1>2. Card("off", NoCommand) \in CardRec
  BY <1>1 DEF Card, CardRec
<1>3. BytesOK
  BY <1>1, <1>2 DEF Init, BytesOK
<1>4. card.mode = "off"
  BY DEF Init, Card
<1>5. \A c \in Clients : pc[c] = "idle"
  BY DEF Init
<1> QED BY <1>3, <1>4, <1>5 DEF Init, TransferInv

\* Reader and card stay in step: what the card has sent and the reader has not read
\* is what the reader waits for, to the last byte.
THEOREM Conversing ==
  ASSUME \A d, e \in Talkers : d = e, ResetAfterError, Inverting \subseteq {"read"}
  PROVE  Spec => [](TypeOK /\ LockInv /\ BytesOK /\ TransferInv)
<1>1. Init => BytesOK /\ TransferInv
  BY TransferInit
<1>2. TypeOK /\ LockInv /\ LifeInv /\ BytesOK /\ TransferInv /\ [Next]_vars
        => BytesOK' /\ TransferInv'
  BY BytesStep, TransferStep
<1> QED BY <1>1, <1>2, Invariance, PTL DEF Spec

\* The reader and a card that has been reset never wait for each other: an empty
\* wire is at the point where the card is, and a transfer waits only where the card
\* has to answer.
THEOREM CardCorrect ==
  ASSUME \A d, e \in Talkers : d = e, ResetAfterError, Inverting \subseteq {"read"}
  PROVE  Spec => []CardOwesAnswer
<1>1. TypeOK /\ LockInv /\ TransferInv => CardOwesAnswer
  <2> SUFFICES ASSUME TypeOK, LockInv, TransferInv, lock # Nobody, wire = <<>>
               PROVE  card.mode \in {"answer", "off"}
    BY DEF CardOwesAnswer
  <2>1. CASE card.mode = "off"
    BY <2>1
  <2>2. CASE Conversation(lock)
    <3>1. PICK r \in Nat, at \in {"proc", "due", "end"} :
            /\ CardAt(cmd[lock], at)
            /\ Leads(cmd[lock], <<>>, Point(pc[lock], r), Point(at, card.done))
      BY <2>2 DEF Conversation
    <3>2. pc[lock] \in {"proc", "data", "one", "sw2"}
      BY DEF TypeOK, LockInv
    <3>3. Point(pc[lock], r) = Point(at, card.done)
      <4>1. Point(pc[lock], r) \in Points
        BY <3>2, PointType
      <4> QED BY <3>1, <4>1, LeadsNowhere
    <3>4. at = pc[lock]
      BY <3>3 DEF Point
    <3> QED BY <3>1, <3>2, <3>4 DEF CardAt
  <2> QED BY <2>1, <2>2 DEF TransferInv
<1> QED BY <1>1, Conversing, PTL

\* A transfer that ends well has given the client what the card answered to its
\* command, and the card what the client sent, however the card divided it.
THEOREM TransferCorrect ==
  ASSUME \A d, e \in Talkers : d = e, ResetAfterError, Inverting \subseteq {"read"}
  PROVE  Spec => TransferExact
<1>1. TypeOK /\ LockInv /\ BytesOK /\ TransferInv /\ [Next]_vars =>
        [\A c \in Clients :
           pc[c] = "sw2" /\ pc'[c] = "idle" /\ wire' # wire =>
             /\ card.cmd = cmd[c]
             /\ Append(rxbuf, Head(wire)) = card.said
             /\ card.got = IF cmd[c].dir = "write" THEN Data(cmd[c], 1, card.done)
                           ELSE <<>>]_vars
  BY ExactStep
<1> QED BY <1>1, Conversing, PTL DEF Spec, TransferExact
=============================================================================
