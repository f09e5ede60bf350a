-------------------------------- MODULE AmSmc --------------------------------
(***************************************************************************)
(* The smart card reader dvb/am_adp/am_smc/am_smc.c: a thread that watches *)
(* the card and calls the client, and transfers by the T=0 protocol, in    *)
(* which the card decides, procedure byte by procedure byte, who sends.    *)
(*                                                                         *)
(* A section under dev->lock is one step, except for a transfer, which     *)
(* holds the lock from its header to its status bytes.  Of the five bytes  *)
(* of a header there is the command: the direction of its data (which      *)
(* stands for the instruction byte INS) and how many bytes there are.      *)
(***************************************************************************)
EXTENDS Integers, Sequences, SequencesExt, FiniteSets

CONSTANTS
  Clients, Nobody,
  Talkers,           \* clients that make transfers
  Listeners,         \* clients that register callbacks
  Cbs, NoCb,         \* registrations of a callback with its user_data
  Sizes,             \* lengths of a command's data
  Inverting,         \* directions in which cards ask for single bytes (~INS)
  StatusResults,     \* what AMSMC_IOC_GET_STATUS may return
  ResetAfterError,   \* clients reset the card after a transfer that failed
  ClearBeforeClose   \* clients take the callback back before they close

ASSUME SizeAssumption == Sizes \subseteq 1 .. 255
ASSUME RoleAssumption == Talkers \subseteq Clients /\ Listeners \subseteq Clients
ASSUME NameAssumption == Nobody \notin Clients /\ NoCb \notin Cbs
ASSUME CardAssumption ==
  Inverting \subseteq {"read", "write"} /\ StatusResults \subseteq {"ok", "error"}

VARIABLES
  openned, enable_thread, run_cb, cb,  \* struct AM_SMC_Device
  held,      \* a client has the device open: dev->lock is initialised
  closer,    \* who holds am_gAdpLock over pthread_join
  lock,      \* the transfer that holds dev->lock
  thread,    \* where the status thread is
  running,   \* the registration whose callback runs
  status, old_status,
  pc,        \* of each client
  want,      \* the registration a client is setting
  cmd,       \* the command of a client's transfer
  txbuf, rxbuf,
  buf,       \* bytes read by smc_read that are not yet in rxbuf
  rxlen,
  present,   \* external: a card is in the slot
  card,      \* external: state of the card
  wire,      \* external: bytes of the card that wait in the driver
  dirty,     \* a transfer has failed since the last reset
  retired,   \* ghost: registrations that clients have replaced
  told       \* ghost: what the registered callback was last told

device   == <<openned, enable_thread, held, closer>>
callback == <<run_cb, cb, retired, told>>
watcher  == <<thread, running, status, old_status>>
transfer == <<lock, cmd, txbuf, rxbuf, buf, rxlen, dirty>>
slot     == <<present, card, wire>>
vars     == <<device, callback, watcher, pc, want, transfer, slot>>

Goto(c, label) == pc' = [pc EXCEPT ![c] = label]

-----------------------------------------------------------------------------
(* External: commands, bytes and the card.                                 *)

Commands(c) == [by : {c}, dir : {"read", "write"}, n : Sizes]
NoCommand   == [by |-> Nobody, dir |-> "none", n |-> 0]

Byte(kind, command, i) == [kind |-> kind, cmd |-> command, i |-> i]
Data(command, from, to) ==
  [k \in 1 .. (to - from + 1) |-> Byte("data", command, from + k - 1)]

\* mode: "off", "idle", "answer" (the next byte is the card's), "take" (the
\* reader's) or "lost" (the card got bytes it cannot place).
Card(mode, command) ==
  [mode |-> mode, cmd |-> command, done |-> 0, ask |-> 0, got |-> <<>>, said |-> <<>>]

\* The card gets bytes that the reader writes.
Received(bytes) ==
  CASE card.mode = "off" -> card
    [] card.mode = "idle" /\ bytes[1].kind = "header" -> Card("answer", bytes[1].cmd)
    [] card.mode = "take" /\ Len(bytes) = card.ask ->
         [card EXCEPT !.mode = "answer", !.done = @ + card.ask, !.got = @ \o bytes]
    [] OTHER -> [card EXCEPT !.mode = "lost"]

CardSays(procedure, data) ==
  /\ wire' = wire \o <<procedure>> \o data
  /\ card' = [card EXCEPT !.done = @ + Len(data), !.said = @ \o data]

CardNull ==
  /\ card.mode = "answer" /\ wire = <<>>
  /\ wire' = <<Byte("null", card.cmd, 0)>>
  /\ UNCHANGED card

\* INS asks for, or announces, all of the data; its complement one byte.
CardProcedure(kind) ==
  LET left == card.cmd.n - card.done
      k    == IF kind = "inv" THEN 1 ELSE left
  IN  /\ card.mode = "answer" /\ left > 0
      /\ kind = "inv" => card.cmd.dir \in Inverting
      /\ \/ /\ card.cmd.dir = "read"
            /\ CardSays(Byte(kind, card.cmd, 0),
                        Data(card.cmd, card.done + 1, card.done + k))
         \/ /\ card.cmd.dir = "write"
            /\ wire' = Append(wire, Byte(kind, card.cmd, 0))
            /\ card' = [card EXCEPT !.mode = "take", !.ask = k]

\* SW1 and SW2 end a command, at any point if the card has an error to report.
CardStatus ==
  LET sw == <<Byte("sw1", card.cmd, 0), Byte("sw2", card.cmd, 0)>>
  IN  /\ card.mode = "answer"
      /\ wire' = wire \o sw
      /\ card' = [card EXCEPT !.mode = "idle", !.said = @ \o sw]

\* A card is pulled out, or put in: it has to be reset before it works.
CardMoves ==
  /\ present' = ~present
  /\ card' = Card("off", NoCommand)
  /\ wire' = <<>>

CardActs ==
  /\ \/ CardNull /\ UNCHANGED present
     \/ \E kind \in {"ins", "inv"} : CardProcedure(kind) /\ UNCHANGED present
     \/ CardStatus /\ UNCHANGED present
     \/ CardMoves
  /\ UNCHANGED <<device, callback, watcher, pc, want, transfer>>

-----------------------------------------------------------------------------
(* Open and close.                                                         *)

\* AM_SMC_Open refuses a device that is open; dev->cb stays as it was.  If the
\* thread cannot be created the lock is destroyed again and openned stays set.
AM_SMC_Open(c) ==
  /\ pc[c] = "idle"
  /\ closer = Nobody /\ ~openned
  /\ openned' = TRUE
  /\ run_cb' = FALSE
  /\ \E threaded, created \in BOOLEAN :
       /\ enable_thread' = threaded
       /\ held' = (threaded => created)
       /\ thread' = IF threaded /\ created THEN "top" ELSE "none"
       /\ txbuf' = IF held' THEN <<>> ELSE txbuf
       /\ rxbuf' = IF held' THEN <<>> ELSE rxbuf
  /\ old_status' = "none"
  /\ UNCHANGED <<closer, cb, retired, told, running, status, pc, want, lock, cmd, buf, rxlen,
                 dirty, slot>>

\* A client calls with an open of the device, which nobody is closing.
MayCall(c) == held /\ closer = Nobody /\ pc[c] = "idle"

\* AM_SMC_Close, called when no other call is in progress.
AM_SMC_Close(c) ==
  /\ MayCall(c)
  /\ \A d \in Clients : pc[d] = "idle"
  /\ ClearBeforeClose => cb = NoCb
  /\ closer' = c
  /\ enable_thread' = FALSE
  /\ Goto(c, "join")
  /\ UNCHANGED <<openned, held, callback, watcher, want, transfer, slot>>

Joined == thread \in {"none", "exit"}

CloseJoined(c) ==
  /\ pc[c] = "join"
  /\ Joined
  /\ openned' = FALSE /\ held' = FALSE
  /\ closer' = Nobody
  /\ thread' = "none"
  /\ retired' = Cbs
  /\ told' = "none"
  /\ Goto(c, "idle")
  /\ UNCHANGED <<enable_thread, run_cb, cb, running, status, old_status, want, transfer,
                 slot>>

-----------------------------------------------------------------------------
(* AM_SMC_SetCallback, by a client or, at once, by the running callback.   *)

CallSetCallback(c) ==
  /\ MayCall(c)
  /\ c \in Listeners
  /\ \E r \in Cbs \cup {NoCb} : want' = [want EXCEPT ![c] = r]
  /\ Goto(c, "setcb")
  /\ UNCHANGED <<device, callback, watcher, transfer, slot>>

AM_SMC_SetCallback(c) ==
  /\ pc[c] = "setcb"
  /\ lock = Nobody
  /\ IF run_cb
       THEN Goto(c, "asleep") /\ UNCHANGED <<cb, retired, told, want>>
       ELSE /\ cb' = want[c]
            /\ retired' = Cbs \ {want[c]}
            /\ told' = IF cb = want[c] THEN told ELSE "none"
            /\ want' = [want EXCEPT ![c] = NoCb]
            /\ Goto(c, "idle")
  /\ UNCHANGED <<device, run_cb, watcher, transfer, slot>>

SetCallbackInCallback ==
  /\ thread = "incb"
  /\ ClearBeforeClose => closer = Nobody
  /\ lock = Nobody
  /\ \E r \in Cbs \cup {NoCb} :
       /\ cb' = r
       /\ retired' = retired \ {r}
       /\ told' = IF cb = r THEN told ELSE "none"
  /\ UNCHANGED <<device, run_cb, watcher, pc, want, transfer, slot>>

-----------------------------------------------------------------------------
(* smc_status_thread.                                                      *)

\* A failing ioctl leaves the local variable status without a value.
GetStatus ==
  /\ thread = "top"
  /\ lock = Nobody
  /\ enable_thread
  /\ \E result \in StatusResults, s \in {"in", "out"} :
       /\ result = "ok" => s = (IF present THEN "in" ELSE "out")
       /\ status' = s
       /\ thread' = IF s # old_status THEN "changed" ELSE "top"
  /\ UNCHANGED <<device, callback, running, old_status, pc, want, transfer, slot>>

ThreadExit ==
  /\ thread = "top" /\ ~enable_thread
  /\ thread' = "exit"
  /\ UNCHANGED <<device, callback, running, status, old_status, pc, want, transfer,
                 slot>>

\* Mutant: SMC_FL_RUN_CB is not set.
RaiseFlagMissing == UNCHANGED run_cb
RaiseFlag == run_cb' = TRUE

SetRunCb ==
  /\ thread = "changed"
  /\ lock = Nobody
  /\ old_status' = status
  /\ RaiseFlag
  /\ thread' = "call"
  /\ UNCHANGED <<device, cb, retired, told, running, status, pc, want, transfer, slot>>

\* Mutant: only the insertion of a card is reported.
ReportsInsertion == status = "in"
Reports == TRUE

\* dev->cb is read without dev->lock.
CallCallback ==
  /\ thread = "call"
  /\ IF cb # NoCb /\ Reports
       THEN thread' = "incb" /\ running' = cb /\ told' = status
       ELSE thread' = "called" /\ UNCHANGED <<running, told>>
  /\ UNCHANGED <<device, run_cb, cb, retired, status, old_status, pc, want, transfer,
                 slot>>

CallbackReturns ==
  /\ thread = "incb"
  /\ thread' = "called"
  /\ running' = NoCb
  /\ UNCHANGED <<device, callback, status, old_status, pc, want, transfer, slot>>

ClearRunCb ==
  /\ thread = "called"
  /\ lock = Nobody
  /\ run_cb' = FALSE
  /\ thread' = "cleared"
  /\ UNCHANGED <<device, cb, retired, told, running, status, old_status, pc, want,
                 transfer, slot>>

\* Mutant: no broadcast.
WakeWaitersMissing == UNCHANGED pc
WakeWaiters == pc' = [c \in Clients |-> IF pc[c] = "asleep" THEN "setcb" ELSE pc[c]]

Broadcast ==
  /\ thread = "cleared"
  /\ WakeWaiters
  /\ thread' = "top"
  /\ UNCHANGED <<device, callback, running, status, old_status, want, transfer, slot>>

smc_status_thread ==
  \/ GetStatus \/ ThreadExit \/ SetRunCb \/ CallCallback
  \/ ClearRunCb \/ Broadcast

-----------------------------------------------------------------------------
(* AM_SMC_Reset and AM_SMC_TransferT0.                                     *)

\* The ioctl resets the card and drops what it sent, or fails.
AM_SMC_Reset(c) ==
  /\ MayCall(c)
  /\ lock = Nobody
  /\ present
  /\ card' = Card("idle", NoCommand)
  /\ wire' = <<>>
  /\ dirty' = FALSE
  /\ UNCHANGED <<device, callback, watcher, pc, want, lock, cmd, txbuf, rxbuf, buf, rxlen,
                 present>>

Header(command) == Byte("header", command, 0)

\* Mutant: what an earlier transfer did not send is kept.
ResetTxbufMissing == txbuf
ResetTxbuf == <<>>

\* The buffers, which all transfers share, are filled before dev->lock is taken.
AM_SMC_TransferT0(c) ==
  /\ MayCall(c)
  /\ c \in Talkers
  /\ ResetAfterError => ~dirty
  /\ \E command \in Commands(c) :
       /\ cmd' = [cmd EXCEPT ![c] = command]
       /\ txbuf' = ResetTxbuf \o <<Header(command)>> \o
                   (IF command.dir = "write" THEN Data(command, 1, command.n) ELSE <<>>)
  /\ rxbuf' = <<>>
  /\ Goto(c, "t0")
  /\ UNCHANGED <<device, callback, watcher, want, lock, buf, rxlen, dirty, slot>>

\* smc_write of the header, with dev->lock held from here on.
SendHeader(c) ==
  /\ pc[c] = "t0"
  /\ lock = Nobody
  /\ lock' = c
  /\ rxlen' = IF cmd[c].dir = "read" THEN cmd[c].n ELSE 0
  /\ buf' = <<>>
  /\ txbuf' = IF txbuf = <<>> THEN <<>> ELSE Tail(txbuf)
  /\ card' = IF txbuf = <<>> THEN [card EXCEPT !.mode = "lost"]
             ELSE Received(<<Head(txbuf)>>)
  /\ Goto(c, "proc")
  /\ UNCHANGED <<device, callback, watcher, want, cmd, rxbuf, dirty, present, wire>>

\* What a byte is taken for; one that is no procedure byte, for anything.
Meanings(byte, command) ==
  CASE byte.kind \in {"data", "sw2"} -> {"null", "sw1", "ins", "inv", "other"}
    [] byte.kind \in {"ins", "inv"} /\ byte.cmd.dir # command.dir -> {"other"}
    [] OTHER -> {byte.kind}

\* The end of AM_SMC_TransferT0: rxbuf is emptied into the caller's buffer and
\* dev->lock is released.
Final(c, failed) ==
  /\ rxbuf' = <<>> /\ buf' = <<>> /\ rxlen' = 0
  /\ cmd' = [cmd EXCEPT ![c] = NoCommand]
  /\ lock' = Nobody
  /\ dirty' = (dirty \/ failed)
  /\ Goto(c, "idle")

\* smc_read of a procedure byte, and what it leads to.
ReadProcedure(c) ==
  /\ pc[c] = "proc"
  /\ wire # <<>>
  /\ wire' = Tail(wire)
  /\ \E meaning \in Meanings(Head(wire), cmd[c]) :
       \/ /\ meaning = "null"
          /\ UNCHANGED <<pc, transfer, card>>
       \/ /\ meaning = "sw1"
          /\ rxbuf' = Append(rxbuf, Head(wire))
          /\ Goto(c, "sw2")
          /\ UNCHANGED <<lock, cmd, txbuf, buf, rxlen, dirty, card>>
       \/ /\ meaning = "ins" /\ txbuf # <<>>
          /\ txbuf' = <<>>
          /\ card' = Received(txbuf)
          /\ UNCHANGED <<pc, lock, cmd, rxbuf, buf, rxlen, dirty>>
       \/ /\ meaning = "ins" /\ txbuf = <<>>
          /\ Goto(c, IF rxlen = 0 THEN "proc" ELSE "data")
          /\ UNCHANGED <<transfer, card>>
       \/ /\ meaning = "inv"
          /\ Goto(c, "one")
          /\ UNCHANGED <<transfer, card>>
       \/ /\ meaning = "other"
          /\ Final(c, TRUE)
          /\ UNCHANGED <<txbuf, card>>
  /\ UNCHANGED <<device, callback, watcher, want, present>>

\* smc_read of rxlen bytes, which go to rxbuf when the last has come.
ReadData(c) ==
  /\ pc[c] = "data"
  /\ wire # <<>>
  /\ wire' = Tail(wire)
  /\ LET all == Append(buf, Head(wire))
     IN  IF Len(all) < rxlen
         THEN buf' = all /\ UNCHANGED <<rxbuf, pc>>
         ELSE buf' = <<>> /\ rxbuf' = rxbuf \o all /\ Goto(c, "proc")
  /\ UNCHANGED <<device, callback, watcher, want, lock, cmd, txbuf, rxlen, dirty, present,
                 card>>

\* Mutant: the byte is not counted.
OneLessSame == rxlen
OneLess == (rxlen + 255) % 256

ReadOne(c) ==
  /\ pc[c] = "one"
  /\ wire # <<>>
  /\ wire' = Tail(wire)
  /\ rxbuf' = Append(rxbuf, Head(wire))
  /\ rxlen' = OneLess
  /\ Goto(c, "proc")
  /\ UNCHANGED <<device, callback, watcher, want, lock, cmd, txbuf, buf, dirty, present,
                 card>>

ReadStatus(c) ==
  /\ pc[c] = "sw2"
  /\ wire # <<>>
  /\ wire' = Tail(wire)
  /\ Final(c, FALSE)
  /\ UNCHANGED <<device, callback, watcher, want, txbuf, present, card>>

\* A write or a read fails or times out, also when a part has been transferred:
\* the card may be left with a part of what it waits for.
TransferFails(c) ==
  /\ lock = c
  /\ Final(c, TRUE)
  /\ card' \in {card, [card EXCEPT !.mode = IF @ = "off" THEN "off" ELSE "lost"]}
  /\ UNCHANGED <<device, callback, watcher, want, txbuf, present, wire>>

Transferring(c) ==
  \/ SendHeader(c) \/ ReadProcedure(c) \/ ReadData(c) \/ ReadOne(c)
  \/ ReadStatus(c) \/ TransferFails(c)

-----------------------------------------------------------------------------
Init ==
  /\ openned = FALSE /\ enable_thread = FALSE /\ held = FALSE
  /\ closer = Nobody
  /\ run_cb = FALSE /\ cb = NoCb /\ retired = Cbs /\ told = "none"
  /\ thread = "none" /\ running = NoCb /\ status = "out" /\ old_status = "none"
  /\ pc = [c \in Clients |-> "idle"]
  /\ want = [c \in Clients |-> NoCb]
  /\ lock = Nobody
  /\ cmd = [c \in Clients |-> NoCommand]
  /\ txbuf = <<>> /\ rxbuf = <<>> /\ buf = <<>> /\ rxlen = 0
  /\ dirty = FALSE
  /\ present \in BOOLEAN
  /\ card = Card("off", NoCommand)
  /\ wire = <<>>

Client(c) ==
  \/ AM_SMC_Open(c) \/ AM_SMC_Close(c) \/ CloseJoined(c)
  \/ CallSetCallback(c) \/ AM_SMC_SetCallback(c)
  \/ AM_SMC_Reset(c) \/ AM_SMC_TransferT0(c) \/ Transferring(c)

Next ==
  \/ \E c \in Clients : Client(c)
  \/ smc_status_thread \/ CallbackReturns \/ SetCallbackInCallback
  \/ CardActs

Spec == Init /\ [][Next]_vars

\* Threads are scheduled and get a mutex that is free again and again, a
\* callback returns, a woken waiter gets dev->lock while the status thread is
\* in usleep, smc_read and smc_write end by their timeouts, and a card does not
\* ask for more time for ever.
Fairness ==
  /\ SF_vars(smc_status_thread)
  /\ WF_vars(CallbackReturns)
  /\ WF_vars(CardStatus /\ CardActs)
  /\ \A c \in Clients :
       /\ WF_vars(CloseJoined(c))
       /\ WF_vars(AM_SMC_SetCallback(c)) /\ SF_vars(~run_cb /\ AM_SMC_SetCallback(c))
       /\ SF_vars(Transferring(c))

FairSpec == Spec /\ Fairness

-----------------------------------------------------------------------------
(* Properties.                                                             *)

Gate == INSTANCE CallbackGate

\* The reader implements CallbackGate: the status thread reads dev->cb without
\* the lock, but no callback runs that AM_SMC_SetCallback has replaced or that
\* was registered before the last AM_SMC_Close.
ImplementsGate == Gate!Spec

\* AM_SMC_TransferT0 succeeds only with what the card answered to this command,
\* all of it and in order, however the card divided it by procedure bytes, and
\* the card got bytes of this command only; cards that are pulled out, timeouts
\* and transfers that fail before it do not matter.
TransferExact ==
  [][\A c \in Clients :
       pc[c] = "sw2" /\ pc'[c] = "idle" /\ wire' # wire =>
         /\ card.cmd = cmd[c]
         /\ Append(rxbuf, Head(wire)) = card.said
         /\ card.got = IF cmd[c].dir = "write" THEN Data(cmd[c], 1, card.done) ELSE <<>>]_vars

\* While a transfer waits for a byte and none is on its way, it is the card's
\* turn: the reader and a card that has been reset never wait for each other,
\* which would end in a timeout of a transfer that nobody disturbed.
CardOwesAnswer ==
  lock # Nobody /\ wire = <<>> => card.mode \in {"answer", "off"}

\* A callback that has been told one status is not left with a stale one: if
\* the card stays in or out, smc_status_thread tells it so in the end.
StatusReported ==
  \A s \in {"in", "out"} :
    <>[](held /\ closer = Nobody /\ cb # NoCb /\ told # "none" /\ present = (s = "in"))
      => <>[](told = s)

\* The calls that wait return: AM_SMC_Close from the join, AM_SMC_SetCallback
\* from the wait for a callback, AM_SMC_TransferT0 from the card.
CallsReturn ==
  \A c \in Clients : pc[c] # "idle" ~> pc[c] = "idle"

\* Also the status that the card has when the callback is registered is told
\* in the end ("to enable force run while AC on ignore card inserted or not").
FirstStatusReported ==
  \A s \in {"in", "out"} :
    <>[](thread # "none" /\ closer = Nobody /\ cb # NoCb /\ present = (s = "in"))
      => <>(told = s)

-----------------------------------------------------------------------------
(* Parts of the inductive invariants of AmSmcProofs.                       *)

CommandRec == [by : Clients \cup {Nobody}, dir : {"none", "read", "write"}, n : 0 .. 255]

\* The device and its clients have the values the C declarations give them.
TypeOK ==
  /\ openned \in BOOLEAN /\ enable_thread \in BOOLEAN /\ held \in BOOLEAN
  /\ run_cb \in BOOLEAN /\ dirty \in BOOLEAN /\ present \in BOOLEAN
  /\ closer \in Clients \cup {Nobody} /\ lock \in Clients \cup {Nobody}
  /\ cb \in Cbs \cup {NoCb} /\ running \in Cbs \cup {NoCb} /\ retired \subseteq Cbs
  /\ thread \in {"none", "top", "changed", "call", "incb", "called", "cleared", "exit"}
  /\ status \in {"in", "out"}
  /\ old_status \in {"none", "in", "out"} /\ told \in {"none", "in", "out"}
  /\ pc \in [Clients -> {"idle", "join", "setcb", "asleep",
                         "t0", "proc", "data", "one", "sw2"}]
  /\ want \in [Clients -> Cbs \cup {NoCb}]
  /\ cmd \in [Clients -> CommandRec]
  /\ rxlen \in 0 .. 255

\* A transfer holds dev->lock from its header on.
LockInv ==
  \A c \in Clients : lock = c <=> pc[c] \in {"proc", "data", "one", "sw2"}

\* dev->lock and the thread exist while the device is held, and a close is alone.
LifeInv ==
  /\ thread # "none" => held
  /\ held => openned
  /\ closer # Nobody => held
  /\ \A c \in Clients : pc[c] # "idle" => held
  /\ \A c \in Clients : pc[c] = "join" <=> closer = c
  /\ closer # Nobody => \A c \in Clients : c # closer => pc[c] = "idle"

\* SMC_FL_RUN_CB is set around the call of dev->cb, which nobody has retired.
GateInv ==
  /\ run_cb <=> thread \in {"call", "incb", "called"}
  /\ running # NoCb <=> thread = "incb"
  /\ cb \notin retired /\ running \notin retired
  /\ closer # Nobody => cb = NoCb
=============================================================================
