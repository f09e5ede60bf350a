# Verification of the DVB adaptation layer (`dvb/am_adp`)

The repository is an Amlogic vendor tree for Android: vendored libraries
(`external/`, the FFmpeg under `frameworks/av`), system services, Java
applications, and the C library `dvb/am_adp` through which everything that
watches, records or scans digital television reaches the kernel. `am_adp` is
the code of this tree that is both its own and concurrent: every device module
has a thread, callbacks, a per-device mutex and a share in one global mutex.
This project models that library, device by device.

`dvb/am_adp` has no design document. Its documentation is the Doxygen text in
`dvb/include/am_adp/*.h` and in the sources, and the programs in `dvb/test`.

## 1. Inventory

| Component | State | Operations | What is hard |
|---|---|---|---|
| Demux `am_dmx.c` | `open_count`, filter table (`used`, `enable`, cb), `flags`, `enable_thread`, `src`; the driver's descriptors | Open, Close, AllocateFilter, SetSec/PesFilter, SetCallback, StartFilter, StopFilter, FreeFilter, SetSource, Sync, and `dmx_data_thread` | callbacks run without the lock while clients free filters; Close joins the thread under the global lock; the poll looks at the table unlocked |
| Frontend `am_fend.c` | `open_count`, cb/user_data, `flags`, `enable_cb`, `curr_mode`; the tuner | Open, Close, SetMode, SetPara, SetCallback, SetActionCallback, Lock, and `fend_thread` | Lock lends the callback to a stack frame and waits for the thread to run it; late events of other tunings |
| Events `am_evt.c` | hash table of subscriptions, one rwlock | Subscribe, Unsubscribe, Signal | lists walked by device threads while clients change them; check and insert are two critical sections |
| Recorder `am_dvr.c` | `open_cnt`, `record`, table of streams with a demux filter each | Open, Close, StartRecord, StopRecord, Read, SetSource | its filters live in another device's table; Close works under another lock than Start/Stop |
| Software demux `am_dmx/dvr` | filters, channels (use count, pid, bytes collected), recording taps | allocate, set, start, stop, free, `dvr_poll` with `parse_sec`, `check_sec`, `data_cb` | callbacks from inside `poll`; the lock is given away in mid-packet; sections split over packets, packets lost |
| Blind scan (in `am_fend.c`) | result table, last event, a second thread with its own state machine | BlindScan, BlindExit, BlindGetProcess, BlindGetTPInfo | unbounded result count; join under the global lock; two scans after one another |
| User data `am_userdata` | ring of bytes, condition variable, capture thread, pictures held back | Open, Read with timeout, Close | a byte ring at its limits; pictures out of display order; readers that time out |
| PES `am_pes.c`, audio description `am_ad.c` | parser buffer; a handle made of an open, a filter and a parser | Create, Start, Stop, Destroy, Decode | packets cut anywhere; memory freed under the demux thread |
| Descrambler `am_dsc.c` | channel table | Open, Allocate, SetKey, Close | the same open/lock scheme |
| Smart card `am_smc.c` | card status, a thread, cb, `flags`; `txbuf`, `rxbuf` of the transfers | Open, Close, SetCallback, Reset, TransferT0, and `smc_status_thread` | the card decides who sends next; timeouts with an answer on its way; buffers shared outside the lock; a status reported once |
| Input, outputs, ... | see `PROJECT.json` | | |

Interactions: the recorder and audio description call the demux, which runs on
one of two drivers; audio description feeds the PES assembler from the demux
thread; device
threads call `AM_EVT_Signal`; all `Open`/`Close` functions, and `SetSource`,
serialise on `am_gAdpLock` (`am_misc/am_adplock.c`). A client's callback runs on
a device thread and calls back into the devices.

What makes each part correct: a device's lock and thread live exactly as long
as some client holds an open; a callback that a client has retired does not run
(the client frees its data); a wait always ends; each handle belongs to one
owner and is given back. `PROJECT.json` lists, under "hazards", the lines where
this could go wrong.

## 2. Modules

| Module | Models | Level of atomicity |
|---|---|---|
| `CallbackGate` | abstract: what a device with a callback thread promises | one step per begin/end of a callback and per change of the retired set |
| `AmDmx` | `am_dmx.c` on `linux_dvb.c` | one step per critical section of `dev->lock`; the data thread's unlocked steps are separate |
| `AmFend` | `am_fend.c` on `linux_dvb.c` | the same; `pthread_cond_wait` splits a function |
| `AmEvt` | one bucket of `am_evt.c` | one step per critical section; a Signal is a walk, node by node, with the read lock held |
| `AmDvr` | `am_dvr.c` and the ownership of demux filters | a Start/Stop/Close is a loop, filter by filter, with its lock held |
| `AmDmxSw` | the driver `am_dmx/dvr/dvr.c` under an open demux | one step per client call, per section taken from a packet, and per callback |
| `AmBlindScan` | the blind scan of `am_fend.c` on an open frontend | one step per critical section and per turn of the thread's `switch` |
| `PackageQueue` | abstract: a bounded queue of whole packages | one step per package |
| `AmUdReorder` | the two reorderings of `am_userdata/aml/aml.c`, as operators | |
| `AmUserdata` | `am_userdata.c` and the capture thread | one step per critical section; `pthread_cond_timedwait` splits a read |
| `AmPes` | `AM_PES_Decode`, as operators on a buffer of bytes | |
| `AmAd` | `am_ad.c`, composed with the PES parser and the thread of the demux | one step per call of a component, per packet and per callback |
| `AmSmc` | `am_smc.c` with a card, as the T=0 protocol lets it act | one step per critical section; a transfer holds the lock over a step per byte or write |
| `AmDmxProofs`, `AmFendProofs`, `AmDvrProofs`, `AmEvtProofs`, `AmSmcProofs`, `AmDmxSwProofs`, `AmAdProofs`, `AmUserdataProofs` | theorems about the module in the name; `AmFendProofs` is about `AmFend` and `AmBlindScan` | |
| `MCAmDmx`, `MCAmFend`, `MCAmEvt`, `MCAmDvr`, `MCAmDmxSw`, `MCAmBlindScan`, `MCAmUserdata`, `MCAmAd`, `MCAmSmc` | symmetry sets and streams for TLC | |

How the state corresponds: variables have the names of the C fields
(`open_count`, `enable_thread`, `cb`, `curr_mode`, `stream_cnt`, ...); `run_cb`
and `lock_fl` are the flags `*_FL_RUN_CB` and `FEND_FL_LOCK`; `lock_live` (in
`AmDvr`: `live`) says that the mutex is between its init and its destroy; `pc`
says which function a client thread is in, `tpc` where the device thread is. An
action has the name of the function it is the body of. A function whose wait or
loop splits it has several actions (`AM_FEND_Lock`, `LockReturns`;
`AM_DMX_Close`, `CloseJoined`; `AM_DVR_StartRecord`, `dvr_start_stream`,
`StartRecordReturns`). `ref` and `retired`, in `AmEvt` `called`, `owner` and `last`, in
`AmDmxSw` `failed`, in `AmBlindScan` the field `stuck` of `demod`, and in
`AmUserdata` `queue`, `got` and `lost`, are ghosts: no guard of a device's action
reads them, only those that say when a client calls.

Data is abstracted to what the control distinguishes. A (callback, user_data)
pair is one registration. A tuning is a frequency and a detail (symbol rate,
modulation), because `fend_para_equal` compares different fields in different
modes. In the devices (`AmDmx`, `AmFend`, `AmEvt`, `AmDvr`) filter contents,
section data, pids and buffers do not appear. Where the code is about bytes
they are kept, tagged with where they come from: a section byte is
`<<pid, section, index>>`, a byte of the user data ring belongs to a length word
or to a package, a PES byte to a packet, a byte of a smart card to a command. A property can so tell a right byte
from a wrong one that happens to have the same value.

Operators whose comment begins with "Mutant" are deliberately wrong variants of
the definition that follows them. No specification uses them; each stands for
a plausible bug that one of the properties must detect.

`CallbackGate` is what the demux with `AM_DMX_Sync`, the frontend with
`AM_FEND_SetCallback` and the smart card reader with `AM_SMC_SetCallback` have in
common: one callback at a time, and none of a retired registration.
`ImplementsGate` in `AmDmx`, `AmFend` and `AmSmc` maps the running callback of
the device to the gate's. `PackageQueue` is what the user data ring
promises: a package enters whole if it fits and is lost whole if not, and
readers take them in turn; `ImplementsQueue` maps the queue's space to the bytes
between `pread` and `pwrite`, and its packages to the ghost `queue`. What a reader gets
comes out of the bytes, so that a ring that loses step with the ghost does not
implement the queue.

### Client contract

The library cannot protect itself against every client. What the models assume
of clients, and where it comes from:

- A client calls with an open of its own (`MayCall`/`Call`): the check of
  `open_count` in `dmx_get_openned_dev` is unlocked and cannot be relied on.
- A callback does not call `AM_DMX_SetSource`, Open or Close of its device: it
  would wait for `am_gAdpLock`, which a closer may hold while it joins the
  thread (`CbOpsAssumption`).
- `Exclusive`: nobody configures a frontend during another client's
  `AM_FEND_Lock`. Without it two locks share one flag, and one of them returns
  success without a status; set `Exclusive = FALSE` to see it.
- Event callbacks call no `AM_EVT_*` function (the comment at `am_evt.c:192`).
  Nothing else is asked of the event table's clients: any number of threads
  subscribe at once, with any data.
- `CloseAlone`: clients of a recorder close it while no other call is in
  progress, and make no call on a recorder that somebody's close has torn down,
  although their own open is still counted. Each has an open of its own. The
  demux stays open meanwhile, as in `test/am_dvr_test`.
- Blind scan: one scan at a time, ended by `AM_FEND_BlindExit` (a second
  BlindScan would overwrite the handle of the first thread); its callback takes
  no `am_gAdpLock` (`CallbackLocks`). The driver may report more transponders
  (`MaxReported`) than the table has entries (`MaxChannel`).
- Audio description: a handle has the only open of its demux (`OthersOpen`),
  and is started once, as `aml_set_ad_source` in `am_av/aml/aml.c` does. In
  the stream the bytes 00 00 01 occur only where a packet starts, and a packet is
  at least as long as its header: both search loops of `am_pes.c` (31-39, 188-196)
  take any 00 00 01 for a start code, which would cut a packet without a length
  and mislead the first synchronisation. Audio data is not protected against it.
- Software demux streams: a section header lies in one packet
  (`SplitHeaders`). User data: pictures are coded top field first
  (`FirstFields`).
- Smart card: one client makes transfers (`Talkers`), resets the card after one
  that failed (`ResetAfterError`), and clients take their callback back before
  they close (`ClearBeforeClose`), which happens while no other call is in
  progress. Cards ask for single bytes only when they send (`Inverting`), and
  commands have 1 to 255 bytes of data: a length byte of 0, which T=0 reads as
  256, makes `rxlen` 0.

Each of these is a constant where the other value can be tried; section 3 says
what happens then.

## 3. Runs

| Run | Bounds | Result |
|---|---|---|
| `dmx_safety` | 2 clients, 2 filters, 2 registrations, callbacks that stop, free and sync, failing `DMX_STOP` | holds (858,105 states) |
| `dmx_live` | 2 clients, 1 filter, 2 registrations | holds (67,014 states) |
| `fend_safety` | 2 clients, 2 registrations, 2 frequencies with 2 details, 2 modes, all functions, callbacks that re-register | holds (752,074 states) |
| `fend_live` | 2 clients, 1 registration; callbacks are not disabled | holds (5,102 states) |
| `evt` | 2 subscribers, 2 signallers, 2 nodes, 2 events, 1 callback with 2 data | holds (223,552 states) |
| `dvr` | 2 clients that open and close, 3 filters, 2 streams, up to 3 pids asked for | holds (47,320 states) |
| `swdmx` | 2 filters, 2 channels, 2 pids, sections of 3 and 5 bytes, payloads of 5, lost packets, taps that fail to open | holds (1,830,890 states) |
| `swdmx_sync` | the same filters, `AM_DMX_Sync` | the finding |
| `blindscan` | 2 clients, 3 scans of up to 3 transponders, a table of 2, starts and cancels that fail | holds (58,541 states) |
| `userdata` | 2 readers, a ring of 12 bytes, packages of 1 and 2, streams of 4 pictures, MPEG and H.264 | holds (152,547 states) |
| `smc` | 2 clients, one that transfers 2 bytes either way, one that listens; 1 registration | holds (74,572 states) |
| `ad` | 11 packets of 5 kinds, MPEG-1 and MPEG-2, with and without a length; reads of 1 to 16 bytes | holds (7,598 states) |

What the properties say, by run. `LifeCycle`: the open count is the number of
opens, lock and thread live exactly as long as there is one. `RetiredNeverRuns`,
`ImplementsGate`: no callback after Sync or SetCallback. `FdNeedsUsed`: no
descriptor for a free slot. `NoLostWakeup`: a waiter asleep has something to be
woken by. `LockParaAlive`, `LockReportsOwnTuning`: the stack frame lent by
`AM_FEND_Lock`, and the status it returns. `NodesSafe`, `SignalReachesAll`:
the event list under walks. `SubscriptionsKept`: a callback that was subscribed
with success is registered until somebody unsubscribes it, although the search for
repetitions is stale and ignores the data, and it is registered twice only if two
threads subscribed it. `DeviceCounted`: opens are counted exactly although every
close tears the recorder down, which is set up again after the last one and leaves
no filter behind. `FidsOwned`, `NoFilterLost`: the recorder's filters. `ChannelsExact`:
use counts and pids of the software demux agree, and each used pid has a tap unless
the kernel refused it when the taps were last opened. `SectionsWhole`: once a
channel has seen a section start it delivers the sections of its pid, whole, in
order and without a gap until packets are lost. `TPsExact`: the table of the
blind scan holds what the driver reported in the latest scan and nothing else.
`CallbackInScan`: no scan callback before BlindScan or after BlindExit.
`DemodRestored`: however the thread ends, the demodulator has left blind scan mode
or has refused the cancel, whose result the code ignores.
`CaptionsInOrder`, `CaptionsAccounted`: captions are read in display order, and
each one is read, waiting, held back or known to be lost. `CallbackOnLive`: the
parser and the handle exist while the demux thread is in them. `PayloadsExact`:
the client gets the end of every packet, in order: exactly the payload if the parser
can tell the header (`HeaderSeen`), and no less than it if the packet has a length. `TransferExact`: a
transfer that succeeds returns the card's whole answer to this command, and the
card got this command's data, wherever the card split it and whatever failed
before. `CardOwesAnswer`: the reader never waits for a card that waits for the
reader. `StatusReported`: a callback is not left with a status that no longer
holds. `CallsReturn`,
`StopReturns`, `ExitReturns`: the calls that wait return.

Why these bounds. Two clients are what it takes for one to close, free or
re-register under the other, with the device thread as the third party; two
filters let the thread serve one callback after another in one round; two
registrations distinguish the old callback from the new one; two frequencies
distinguish the tuning of a Lock from a late event, and two details and modes
tunings that `fend_para_equal` tells apart in one mode and not in the other. A recorder with two streams
can have one allocation fail and one succeed, and a third pid does not fit; the
third filter is the other client's. Two event nodes are what two threads need to
race for one callback, with equal or different data; lists of any length are left
to the proofs. Two signallers let walks overlap and relieve each other. The
counters are bounded by the number of clients, not by a cut-off. With a payload of 5 a packet holds the end of one
section, a whole one and the beginning of a third; two pids on two channels let
a channel change hands while the parser is in a callback. A third scan is the
first that can meet what two before it left. In a ring of 12 bytes two short
packages fit and wrap at every offset, and a third does not; four pictures are
two field pairs with a B picture or a full H.264 cache between them. Eleven
packets bring each kind of packet twice, an MPEG-1 packet too short for its header
to be found and one just long enough among them; the reads cut them in every field.
A table of 2 with scans of 3 transponders is filled, overrun and filled again. Two bytes of data are the fewest that a card can announce one by
one, at once, or one and then the rest; the listener's calls need no second
registration, since a retired one is refused by the gate just as well.

Fairness. Threads inside a call, and device threads, are scheduled (weak
fairness). Strong fairness stands for: a callback returns; `am_gAdpLock` is
granted to a thread that waits for it (others hold it only briefly); a woken
waiter of the frontend gets `dev->lock` while the monitor thread is asleep in
`wait_event`, as it is again and again; the kernel reports a tuning in
force sooner or later; a writer gets an rwlock that is free again and again
(the default rwlock lets overlapping readers starve a writer, so `CallsReturn` of
the event table promises the end of a Subscribe only if walks do not overlap for
ever); the recorder's mutex is granted in the end, and its poll ends
with its timeout; the scan thread is scheduled, its callback returns, and
`BlindExit` is resumed after the join (weak fairness suffices there); the smart
card's status thread gets `dev->lock` between transfers, a waiter of
`AM_SMC_SetCallback` while that thread is in `usleep`, and a card does not ask for
more time (procedure byte 0x60) for ever. The part of
`CallsReturn` about `AM_DMX_Sync` is conditional on the device going quiet: a
device that always has data can keep `AM_DMX_Sync` waiting, since it looks at
the flag only when it is scheduled.

### Finding

With the software demux, `AM_DMX_Sync` returns while a callback runs: the driver
calls it inside `poll`, where `DMX_FL_RUN_CB` is not set
(`am_dmx/dvr/dvr.c:405`); and stopped filters are still called.

### What other values of the constants show

These deviate from what a comment of the code promises, and each takes one
change in a configuration to reproduce:

- `AM_DMX_StartFilter` reads `filter->enable` through a null pointer if the
  handle is not allocated (`am_dmx.c:630`): check `StartFilterReportsError`
  in `AmDmx`.
- `AM_FEND_SetMode` does not update `dev->curr_mode`, by which `fend_lock_cb`
  chooses how to compare parameters (`am_fend.c:646`): check `CurrModeInForce`
  of `AmFend` in `fend_safety`.
- `AM_FEND_Lock` never returns while callbacks are disabled
  (`am_fend.c:167`): `fend_live` with `AM_FEND_SetActionCallback` among the
  operations.
- Two concurrent `AM_EVT_Subscribe` calls insert the same callback twice
  (`am_evt.c:106`): check `NoDuplicates` of `AmEvt` in `evt`. A callback that is
  registered is not registered with other data, although the call returns success
  (`am_evt.c:99`): check `SubscribedWithData`.
- Every `AM_DVR_Close`, not only the last, tears the recorder down
  (`am_dvr.c:267`): check `DeviceAlive` of `AmDvr` in `dvr`. With
  `CloseAlone = FALSE` calls use the lock and the stream table of a recorder that
  is being closed: `NoFilterLost` and `DeviceCounted` fail.
- A driver that reports more transponders than `FEND_BS_MAX_CHANNEL` makes
  `am_fend.c:298` write behind `channels[]`, first into `bsEvent`: check `NoOverflow` of
  `AmBlindScan` in `blindscan`. What lies behind `bsEvent` is not modelled: `bsPara`,
  which only the start of a scan reads, and then memory that is not the device's.
- `am_pes.c:228` passes the length field to `calc_mpeg1_pes_offset` as its limit,
  not the 6 bytes more that the packet has, so that a short MPEG-1 packet is
  delivered with header bytes; a packet without a length is always read as MPEG-2
  (`am_pes.c:29`): check `AllPayloads` of `AmAd` in `ad`.
- A section header split over two packets is lost (`am_dmx/dvr/dvr.c:411`):
  `swdmx` with `SplitHeaders = TRUE`.
- A picture coded bottom field first and followed by a frame picture is written
  top field first (`am_userdata/aml/aml.c:144`): `userdata` with
  `FirstFields = {"top", "bottom"}`.
- A scan callback that takes `am_gAdpLock` and `AM_FEND_BlindExit` wait for each
  other (`am_fend.c:1523`): `blindscan` with `CallbackLocks = TRUE`.
- `AM_AD_Destroy` frees the parser under the demux thread if somebody else has
  the demux open (`am_ad.c:202`): `ad` with `OthersOpen = TRUE`.
- `AM_FEND_BlindGetProcess` returns part of a frequency after an event that is no
  progress report, "0-100" at line 1533 notwithstanding (`am_fend.c:344`): check
  `ProgressIsPercent` of `AmBlindScan` in `blindscan`.
- Two transfers of a smart card mix their bytes, because the buffers are filled
  before the lock is taken (`am_smc.c:678`): `smc` with `Talkers = {c1, c2}`.
- The late answer to a transfer that timed out is taken for the answer to the
  next (`am_smc.c:689`): `smc` with `ResetAfterError = FALSE`.
- If a card asks for a single byte of data by the complement of INS, the reader
  reads, and each waits for the other until the timeout (`am_smc.c:728`): `smc`
  with `Inverting = {"read", "write"}`.
- A callback survives `AM_SMC_Close` and is called after the next open
  (`am_smc.c:372`): `smc` with `ClearBeforeClose = FALSE`.
- The status of the card at the time of the open is lost on a client that
  registers after the thread's first round (`am_smc.c:304`), although the comment
  at line 291 wants it reported: check `FirstStatusReported` of `AmSmc`. A failing
  `get_status` reports a variable without a value: `StatusResults = {"ok",
  "error"}`.
- If the status thread cannot be created, `openned` stays set and the device
  cannot be opened again (`am_smc.c:376`); `AM_SMC_Open` of the model shows it.

## 4. Proofs

All proofs are for any number of clients, filters, registrations, frequencies,
streams, events, nodes, sections and packets, from the named assumptions on the
constants. A condition of the client contract that a theorem needs is its
`ASSUME`; what is not assumed there is not used.

**Demux (`AmDmxProofs`).** `IInv` is inductive: types, `OpenCountExact`
(the count is the number of holders, the global lock is kept only by the last
closer; with the next two parts it gives `LifeCycle`), `ThreadInv` (lock and thread live with the opens, the thread ends only
under a closer) and `CbInv` (`run_cb` covers the whole serving round; retired
registrations are neither active nor running). `OpenCountExact` is what makes
`LockAlive` inductive: while a client has an open of its own, the close of
another is not the last.
`CbInv` is needed because `RetiredNeverRuns` speaks of a copy the thread took
earlier; it must also say that nothing retired can still be picked up.
Descriptors: `FdInv`. `Refinement`: every step is a gate step or leaves it alone.

**Frontend (`AmFendProofs`).** `IInv` is as above and needs no assumption on the
clients. `LockInv` assumes `Exclusive`: `BorrowInv` says that exactly the caller
past the first loop of `AM_FEND_Lock` has its frame in `dev->user_data`, and that
a clear `FEND_FL_LOCK` means its own status is written; `RegInv` that no retired
registration is stored, lent out or running, so that the hand-back at the end of
`AM_FEND_Lock` cannot revive one. From these: `RetiredNeverRuns`,
`LockParaAlive`, the action property `LockReportsOwnTuning` and `ImplementsGate`.

**Recorder (`AmDvrProofs`).** Types and lock discipline need no assumption. With
`CloseAlone`, for any number of clients with opens of their own, `IInv` adds that a
closer has an open and only closers are beside it (`OpenInv`), that `open_cnt` is the
number of holders (`CountInv`), and what the loops have done so far (`StreamInv`:
below the index of a stop, above that of a start, and beyond `stream_cnt` no slot
has a filter). It yields `DeviceCounted`, `FidsOwned`, `NoFilterLost` and
`StreamsOnlyInRecord`.

**Event table (`AmEvtProofs`).** `IInv` has the types, `NodesSafe`, `HandsInv` (a
node is linked, or in the hand of the one subscriber that is inserting or
freeing it) and `WalkInv` (a walk stands on a linked node or behind the last, and
has called exactly the subscribers of its event up to there). The last holds
because the list does not change under a walk: only holders of the write lock link
or unlink. `NodesSafe`
and `SignalReachesAll` (an action property) follow. `RepeatsFromRaces` says of a thread
about to insert what still holds of its search: none of the nodes it subscribed
itself has the callback. It is inductive because only the thread itself adds
such nodes. `SubscribeTakesEffect` holds for any data, since an `AM_EVT_Unsubscribe` that
unlinks a node ends what was promised for its callback. `SubscriptionsKept` is both. None
needs an assumption on the clients.

**Blind scan (second part of `AmFendProofs`).** `SessionInv` ties the thread to the client that
will join it, `ModeInv` the demodulator's mode to the thread's state machine, and
`TableInv` says of every entry below the count that it is of the latest scan and in the
driver's order, as far as `channels[]` reaches. `TPsExact`, `CallbackInScan` and
`DemodRestored` follow. `ModeInv` also says that no cancel, failed or not, lies between
the start of a scan and its events. The bound on the count is part of the types and is
what the driver reports in one scan: a relation to the size of the table is not assumed,
and there is none in the code.

**Smart card (`AmSmcProofs`).** `LockInv` and `LifeInv`: a transfer holds `dev->lock` from
header to end, within an open. `GateInv`, under `ClearBeforeClose`, gives
`ImplementsGate`, although the status thread reads `dev->cb` without the lock.
`TransferExact` and `CardOwesAnswer` rest on `TransferInv` and `BytesOK`: what is on the
wire, where the card is and how far the reader has got determine each other, for any
lengths and however the card divides the data. One client that transfers, a reset after
a failure and complements of INS only when the card sends are each needed: section 3
shows what happens without.

**Software demux (`AmDmxSwProofs`).** `StructInv` (`FilterInv`, `BytesInv`, `ParserInv`,
`ChannelsExact`) needs nothing: filters may change in every callback, while the
parser is in mid-packet, and any tap may fail to open. `SectionsWhole`, for all section lengths and all
payload sizes the assumptions allow, adds `OutsideInv` and `InsideInv`: the bytes a channel
has collected, those left in the packet and those still to come follow each
other in the stream of the pid. `~SplitHeaders` is needed because `check_sec` drops
a header of which only one or two bytes have come.

**Audio description (`AmAdProofs`).** `LifeInv` gives `CallbackOnLive`: the thread exists only
between the open and the join of a handle. `PayloadsExact` adds `StreamInv` (parser
buffer, current read and the rest of the stream follow each other without a gap,
and the packet due is the first that starts in the bytes not yet used) and `DeliveryInv`:
what is handed out begins at `Cut`, the place that `AM_PES_Decode` computes, which
`CutIs` compares with the true end of the header. The theorem is for all MPEG-1 and
MPEG-2 packets, with and without a length, that are no shorter than their header, and
all reads of at least one byte that are no longer than any two packets together; where
the parser cannot tell the header it says less (`HeaderSeen`). Both assume
`~OthersOpen`, without which `AM_AD_Destroy` does not wait for the thread.

**User data (`AmUserdataProofs`).** The proofs are for any size of the ring and of the
two kinds of packages, reads of any size and streams of any length; a package may be
longer than the ring. Two invariants rest on a common one.

- `DeviceInv` needs no assumption on clients or streams. `LifeInv`: lock, buffer and
  thread live with the opens, and only the last closer holds the global lock while it
  joins; hence `LockAlive`. `CleanInv`: a thread starts with empty buffers, and each
  format keeps to its own. `RingInv`: there are offsets at which the packages of
  `queue` lie behind each other from `pread`, each behind its length word, and the last
  one ends at `pwrite`. That is what `ImplementsQueue` needs: a reader interprets any
  four bytes at `pread` as a length, so that one wrong offset would garble all
  packages after it. `Cell` hides where the ring wraps: `WriteIs` and `ReadIs` say once
  what the two `memcpy` calls of a wrapped access do, and the proofs of put and get
  do not split on it. `NoLostWakeup` counts: a package that came while readers slept
  has woken one of them, who is still on the way.
- `PlacedInv` gives `CaptionsAccounted`. `MpegInv` has the place in the stream that the
  pictures not yet reordered lead from, and the mask that the reordering must have
  there; `SentInv` says that the identifiers of the stream are new; `AccountInv` that
  buffers, cache, ring, readers and losses hold each caption once. Only the B
  pictures before the first reference are missing.
- `DisplayInv` gives `CaptionsInOrder`. For MPEG, `HeldAt` says which fields are held
  back at a place in the stream, and `Limit` bounds what was handed on; for H.264, a
  block leaves the full cache only when as many later ones are in it as the encoder
  may reorder over (`Crowded`), so that what is still to come is later too.
  `OrderInv` carries this through `out`, the ring and the readers. The theorem has the
  hypothesis that MPEG pictures are coded top field first, or that the decoder reports
  no MPEG: bottom-first pictures are written in the wrong order (section 3).

Facts about byte sequences of any length ("these bytes follow each other up to
the end of the packet") are not proved by the library's induction theorems, whose
operator parameters the provers cannot instantiate, but from a least
counterexample: `NatMin` takes the smallest index at which the fact fails, and
the step before it refutes it.

Only model-checked: the liveness properties (`CallsReturn`, `StopReturns`, `ExitReturns`,
`StatusReported`, ...), since the prover has no support for fairness. Every safety
invariant, action property and refinement that a passing run checks is also a theorem.

## 5. Not modelled

`AM_DMX_GetCallback`, `AM_DMX_GetScrambleStatus` and the frontend's getters only
read. `AM_DMX_SetBufferSize`, `AM_DVR_SetBufferSize` and the frontend's tone,
voltage and property setters pass one ioctl through. `AM_DVR_SetSource` is the
split of `AM_DMX_SetSource` again. `AM_EVT_Init` and `AM_EVT_Destory` are called
nowhere. The PES filters of the software demux deliver nothing: `parse_pes`
follows `ch->filters`, which no code sets. Of the user data packages only order,
length and picture are kept, not the layout of the decoder's headers; both fields of
a picture bring a package, so that the overwriting of a lone field
(`aml/aml.c:173-178`, `201-206`, `414-416`) does not happen, and the H.264 package that
is dropped when the buffer is full (`aml/aml.c:776`) is not modelled. Of a PES header
only the lengths are kept that the parser reads. The array bound of a channel's section
buffer in the software demux is not modelled: `buf[4096]` (`am_dmx/dvr/dvr.c:45`) is two
bytes shorter than the longest section that line 430 accepts. `AM_EVT_Signal` in the smart card's status thread is the
event table's. The reader's other functions (`AM_SMC_Read`, `AM_SMC_Write` and
their `Ex` forms, T=1 and T=14, parameters, activation) pass driver calls through
under `dev->lock`. DiSEqC builds command bytes and does floating-point
geometry; the decoders (`am_av`), the drawing code (`am_osd`) and the remaining
ioctl wrappers have their state in the kernel. Everything outside `dvb/am_adp` is
another program; `PROJECT.json` says why each is left out.

## 6. Plan

1. `AmDsc`, `AmInp`: channel table; input thread with key repeat.
2. `AmUserdata`: failing reads of the device, and packages that the decoder cuts short.
