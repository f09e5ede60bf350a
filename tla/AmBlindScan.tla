----------------------------- MODULE AmBlindScan -----------------------------
(***************************************************************************)
(* The satellite blind scan of dvb/am_adp/am_fend/am_fend.c on an open     *)
(* frontend: AM_FEND_BlindScan starts a thread that takes scan events from *)
(* the driver and calls the client, AM_FEND_BlindExit joins it, and the    *)
(* table of transponders is read while the thread fills it.                *)
(*                                                                         *)
(* A section under dev->lock is one step.  am_gAdpLock is held over the    *)
(* join.  A transponder is <<scan, number>>, so that what a scan reports   *)
(* is told from what an earlier one did.  Names that AmFend has too begin  *)
(* with Scan or scan: AmFendProofs is about both parts of the device.      *)
(***************************************************************************)
EXTENDS Integers, Sequences, FiniteSets

CONSTANTS
  Clients,
  MaxChannel,    \* FEND_BS_MAX_CHANNEL
  MaxReported,   \* most transponders that the driver reports in a scan
  MaxScans,      \* bound: scans in a behaviour
  Percents,      \* progress that the driver reports, below 100
  CallbackLocks  \* the client's callback makes a call that takes am_gAdpLock

ASSUME ChannelAssumption == MaxChannel \in Nat /\ MaxReported \in Nat
ASSUME ScanAssumption == MaxScans \in Nat
ASSUME ClientAssumption == "free" \notin Clients
ASSUME PercentAssumption == Percents \subseteq 0 .. 99
ASSUME LocksAssumption == CallbackLocks \in BOOLEAN

VARIABLES
  scan_pc,    \* of each client: "idle", "ranged" or "join"
  adpLock,    \* the holder of am_gAdpLock, or "free"
  active,     \* a client has a scan: BlindScan succeeded, no BlindExit returned
  scans,      \* number of the scan
  enable,     \* dev->enable_blindscan_thread
  hasCb,      \* dev->blindscan_cb is not NULL
  scan_thread, \* the thread: "none", "top", "body", "incb" or "exited"
  BS_Status,
  cur,        \* cur_bsevent of the thread
  bsEvent,    \* bs_setting.bsEvent
  count,      \* bs_setting.m_uiChannelCount
  channels,   \* bs_setting.channels
  demod,      \* external: scan the demodulator is in (0: none), transponders sent,
              \* and whether the latest cancel failed
  shown       \* what the last AM_FEND_BlindGetProcess read

scan_vars == <<scan_pc, adpLock, active, scans, enable, hasCb, scan_thread,
               BS_Status, cur, bsEvent, count, channels, demod, shown>>
session == <<scan_pc, adpLock, active, scans, enable, hasCb>>
setting == <<bsEvent, count, channels>>

EventRec == [kind : {"startfreq", "process", "none", "result"}, value : Nat]
NoTP   == <<0, 0>>
Cleared == [kind |-> "process", value |-> 0]

\* External: what FE_GET_BLINDSCANEVENT may report.
ScanEvents ==
  [kind : {"startfreq"}, value : {0}]
    \cup [kind : {"process"}, value : Percents \cup {100}]
    \cup [kind : {"none"}, value : {0}]
    \cup (IF demod.sent < MaxReported
          THEN [kind : {"result"}, value : {demod.sent + 1}] ELSE {})

-----------------------------------------------------------------------------
(* Clients.                                                                *)

\* Mutant: the number of transponders of the last scan is kept.
InitializeKeepsCount == bsEvent' = Cleared /\ UNCHANGED <<count, channels>>

\* AM_FEND_IBlindScanAPI_Initialize.
Initialize ==
  /\ bsEvent' = Cleared
  /\ count' = 0
  /\ channels' = [i \in 1 .. MaxChannel |-> NoTP]

\* AM_FEND_BlindScan up to the lock.  A client that has no scan calls it.
BlindScan(c) ==
  /\ scan_pc[c] = "idle"
  /\ ~active /\ \A d \in Clients : scan_pc[d] # "ranged"
  /\ scans < MaxScans
  /\ scans' = scans + 1
  /\ Initialize
  /\ scan_pc' = [scan_pc EXCEPT ![c] = "ranged"]
  /\ UNCHANGED <<adpLock, active, enable, hasCb, scan_thread, BS_Status, cur,
                 demod, shown>>

\* The rest of it: the callback is set and the thread is created.
BlindScanCreate(c) ==
  /\ scan_pc[c] = "ranged"
  /\ adpLock = "free"
  /\ enable' = TRUE
  /\ hasCb' \in BOOLEAN
  /\ \/ scan_thread' = "top" /\ BS_Status' = "Init" /\ active' = TRUE
     \/ UNCHANGED <<scan_thread, BS_Status, active>>
  /\ scan_pc' = [scan_pc EXCEPT ![c] = "idle"]
  /\ UNCHANGED <<adpLock, scans, cur, setting, demod, shown>>

BlindExit(c) ==
  /\ scan_pc[c] = "idle"
  /\ active /\ \A d \in Clients : scan_pc[d] # "join"
  /\ adpLock = "free"
  /\ adpLock' = c
  /\ enable' = FALSE
  /\ scan_pc' = [scan_pc EXCEPT ![c] = "join"]
  /\ UNCHANGED <<active, scans, hasCb, scan_thread, BS_Status, cur, setting,
                 demod, shown>>

\* Mutant: the thread is not waited for.
JoinedAlways == TRUE

\* pthread_join returns.
Joined == scan_thread = "exited"

BlindExitJoined(c) ==
  /\ scan_pc[c] = "join"
  /\ Joined
  /\ adpLock' = "free"
  /\ active' = FALSE
  /\ scan_pc' = [scan_pc EXCEPT ![c] = "idle"]
  /\ UNCHANGED <<scans, enable, hasCb, scan_thread, BS_Status, cur, setting,
                 demod, shown>>

\* AM_FEND_BlindGetTPInfo with room for n transponders.
TPInfo(n) == [i \in 1 .. (IF n > count THEN count ELSE n) |-> channels[i]]

BlindGetProcess ==
  /\ shown' = bsEvent
  /\ UNCHANGED <<session, scan_thread, BS_Status, cur, setting, demod>>

-----------------------------------------------------------------------------
(* The scan thread: one step for the test at the top of the loop and one,  *)
(* or two around the callback, for the case that is taken.                 *)

\* Mutant: a thread that has seen the end of the scan is not told to cancel.
LoopTopUnlessDone ==
  /\ scan_thread = "top"
  /\ scan_thread' = "body"
  /\ BS_Status' = IF enable \/ BS_Status = "WaitExit" THEN BS_Status ELSE "Cancel"
  /\ UNCHANGED <<session, cur, setting, demod, shown>>

LoopTop ==
  /\ scan_thread = "top"
  /\ scan_thread' = "body"
  /\ BS_Status' = IF enable THEN BS_Status ELSE "Cancel"
  /\ UNCHANGED <<session, cur, setting, demod, shown>>

\* The end of a case: to the test of the loop, which ends it at Exit.
ScanGoto(s) ==
  /\ BS_Status' = s
  /\ scan_thread' = IF s = "Exit" THEN "exited" ELSE "top"

StatusInit ==
  /\ scan_thread = "body" /\ BS_Status = "Init"
  /\ ScanGoto("Start")
  /\ UNCHANGED <<session, cur, setting, demod, shown>>

\* AM_FEND_IBlindScanAPI_Start: the driver may refuse.
StatusStart ==
  /\ scan_thread = "body" /\ BS_Status = "Start"
  /\ \/ ScanGoto("Wait") /\ demod' = [scan |-> scans, sent |-> 0, stuck |-> FALSE]
     \/ ScanGoto("Exit") /\ UNCHANGED demod
  /\ UNCHANGED <<session, cur, setting, shown>>

\* The report is copied behind the others, although the table may be full: then
\* into bsEvent, which follows channels[] and takes any status from it.
Overrun == [kind : {"startfreq", "process", "none", "result"}, value : {0}]

Store(e) ==
  /\ count' = count + 1
  /\ IF count < MaxChannel
     THEN /\ channels' = [channels EXCEPT ![count + 1] = <<demod.scan, e.value>>]
          /\ bsEvent' = e
     ELSE bsEvent' \in Overrun /\ UNCHANGED channels

\* AM_FEND_IBlindScanAPI_GetScanEvent: nothing yet, or an event.
StatusWait ==
  /\ scan_thread = "body" /\ BS_Status = "Wait"
  /\ \/ ScanGoto("Wait") /\ UNCHANGED <<cur, setting, demod>>
     \/ \E e \in ScanEvents :
          /\ demod.scan # 0
          /\ ScanGoto("User_Process")
          /\ cur' = e
          /\ IF e.kind = "result"
             THEN Store(e) /\ demod' = [demod EXCEPT !.sent = e.value]
             ELSE bsEvent' = e /\ UNCHANGED <<count, channels, demod>>
  /\ UNCHANGED <<session, shown>>

\* Mutant: the thread ends by itself when the scan is complete.
AfterCompleteExits == {"Exit"}

\* Where the thread goes when the progress is 100.
AfterComplete == {"WaitExit"}

\* The statuses after an event.  Without a callback evt.process was never
\* written and may be anything; an event of another kind leaves the status.
AfterEvent ==
  CASE cur.kind \in {"startfreq", "result"} -> {"Wait"}
    [] cur.kind = "process" /\ hasCb ->
         IF cur.value < 100 THEN {"Wait"} ELSE AfterComplete
    [] cur.kind = "process" /\ ~hasCb -> {"Wait"} \cup AfterComplete
    [] OTHER -> {"User_Process"}

StatusUserProcess ==
  /\ scan_thread = "body" /\ BS_Status = "User_Process"
  /\ IF hasCb /\ cur.kind # "none"
     THEN scan_thread' = "incb" /\ UNCHANGED BS_Status
     ELSE \E s \in AfterEvent : ScanGoto(s)
  /\ UNCHANGED <<session, cur, setting, demod, shown>>

ScanCallbackReturns ==
  /\ scan_thread = "incb"
  /\ CallbackLocks => adpLock = "free"
  /\ \E s \in AfterEvent : ScanGoto(s)
  /\ UNCHANGED <<session, cur, setting, demod, shown>>

StatusWaitExit ==
  /\ scan_thread = "body" /\ BS_Status = "WaitExit"
  /\ ScanGoto("WaitExit")
  /\ UNCHANGED <<session, cur, setting, demod, shown>>

\* AM_FEND_IBlindScanAPI_Exit: the driver leaves the blind scan mode or refuses,
\* and the thread does not look at the result.
StatusCancel ==
  /\ scan_thread = "body" /\ BS_Status = "Cancel"
  /\ ScanGoto("Exit")
  /\ \/ demod' = [demod EXCEPT !.scan = 0, !.stuck = FALSE]
     \/ demod' = [demod EXCEPT !.stuck = TRUE]
  /\ UNCHANGED <<session, cur, setting, shown>>

-----------------------------------------------------------------------------
ScanInit ==
  /\ scan_pc = [c \in Clients |-> "idle"]
  /\ adpLock = "free" /\ active = FALSE /\ scans = 0
  /\ enable = FALSE /\ hasCb = FALSE
  /\ scan_thread = "none" /\ BS_Status = "Exit" /\ cur = Cleared
  /\ bsEvent = Cleared /\ count = 0 /\ channels = [i \in 1 .. MaxChannel |-> NoTP]
  /\ demod = [scan |-> 0, sent |-> 0, stuck |-> FALSE]
  /\ shown = Cleared

Client(c) ==
  \/ BlindScan(c) \/ BlindScanCreate(c)
  \/ BlindExit(c) \/ BlindExitJoined(c)

Thread ==
  \/ LoopTop
  \/ StatusInit \/ StatusStart \/ StatusWait \/ StatusUserProcess
  \/ ScanCallbackReturns \/ StatusWaitExit \/ StatusCancel

ScanNext == Thread \/ BlindGetProcess \/ \E c \in Clients : Client(c)

ScanSpec == ScanInit /\ [][ScanNext]_scan_vars

\* The thread is scheduled and callbacks return; a join that may return does.
ScanFairSpec ==
  /\ ScanSpec
  /\ WF_scan_vars(Thread)
  /\ \A c \in Clients : WF_scan_vars(BlindExitJoined(c))

-----------------------------------------------------------------------------
(* Properties.                                                             *)

\* Every variable has the values its declaration allows; over any sequence of
\* scans the number of transponders is at most what the driver reports in one.
ScanTypeOK ==
  /\ scan_pc \in [Clients -> {"idle", "ranged", "join"}]
  /\ adpLock \in Clients \cup {"free"}
  /\ active \in BOOLEAN /\ enable \in BOOLEAN /\ hasCb \in BOOLEAN
  /\ scans \in 0 .. MaxScans
  /\ scan_thread \in {"none", "top", "body", "incb", "exited"}
  /\ BS_Status \in {"Init", "Start", "Wait", "User_Process", "Cancel", "Exit",
                    "WaitExit"}
  /\ count \in 0 .. MaxReported
  /\ channels \in [1 .. MaxChannel -> (0 .. MaxScans) \X (0 .. MaxReported)]
  /\ cur \in EventRec /\ bsEvent \in EventRec /\ shown \in EventRec
  /\ demod \in [scan : 0 .. MaxScans, sent : 0 .. MaxReported, stuck : BOOLEAN]

\* AM_FEND_BlindGetTPInfo copies the first transponders of the latest scan in
\* the order of the reports: no event of an earlier scan's thread is stored
\* after AM_FEND_IBlindScanAPI_Initialize.
TPsExact ==
  \A n \in 0 .. MaxChannel : \A i \in DOMAIN TPInfo(n) : TPInfo(n)[i] = <<scans, i>>

\* The scan's callback runs only between AM_FEND_BlindScan and the return of
\* AM_FEND_BlindExit, after which the client may free user_data.
CallbackInScan == scan_thread = "incb" => active

\* When AM_FEND_BlindExit has returned, the driver is out of the blind scan
\* mode, whichever state the thread was in when it was told to stop, unless the
\* driver refused the cancel that followed the last successful start: no way out
\* of the thread's loop forgets the cancel.
DemodRestored == ~active => demod.scan = 0 \/ demod.stuck

\* Not checked: no report is written behind channels[].  Nothing in the code
\* ensures it; it holds only with MaxReported <= MaxChannel.
NoOverflow == count <= MaxChannel

\* Parts of the inductive invariant.  am_gAdpLock is held over a join only, which
\* is that of the scan in progress; no scan is in progress while another is being
\* prepared, and the thread runs only within a scan.
SessionInv ==
  /\ \A c \in Clients : (scan_pc[c] = "join") = (adpLock = c)
  /\ adpLock # "free" => active
  /\ \A c, d \in Clients : scan_pc[c] = "ranged" /\ scan_pc[d] = "ranged" => c = d
  /\ \A c \in Clients : scan_pc[c] = "ranged" => ~active
  /\ scan_thread \in {"top", "body", "incb"} => active

\* The demodulator is in the blind scan mode from a successful start to the
\* cancel, and only Cancel and a refused start lead the thread out of its loop.
\* No cancel comes between the start and the events.
ModeInv ==
  /\ scan_thread \in {"none", "exited"} => demod.scan = 0 \/ demod.stuck
  /\ scan_thread = "incb" => BS_Status = "User_Process"
  /\ scan_thread \in {"top", "body"} => BS_Status # "Exit"
  /\ BS_Status \in {"Init", "Start"} => demod.scan = 0 \/ demod.stuck
  /\ BS_Status \in {"Wait", "User_Process", "WaitExit"} => ~demod.stuck

\* The table holds the reports of this scan so far, which the driver counts too.
TableInv ==
  /\ \A i \in 1 .. count : i <= MaxChannel => channels[i] = <<scans, i>>
  /\ demod.scan # 0 /\ ~demod.stuck => demod.scan = scans /\ demod.sent = count
  /\ scan_thread \in {"top", "body"} /\ BS_Status \in {"Init", "Start"} => count = 0
  /\ \A c \in Clients : scan_pc[c] = "ranged" => count = 0

ScanInv == ScanTypeOK /\ SessionInv /\ ModeInv /\ TableInv

\* AM_FEND_BlindExit returns: the join under am_gAdpLock ends, if the client's
\* callback takes no lock that AM_FEND_BlindExit holds.
ExitReturns == \A c \in Clients : scan_pc[c] = "join" ~> scan_pc[c] = "idle"

\* AM_FEND_BlindGetProcess returns the "progress of the blind scan, 0-100".
ProgressIsPercent == shown.kind = "process"
=============================================================================
