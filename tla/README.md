# TLA+ models of xemu-android's device threads

xemu is an emulator of the original Xbox built on QEMU; this repository is its
Android port. What xemu adds to QEMU lives in `hw/xbox/` (the NV2A graphics
processor, the MCPX audio and network devices, SMBus devices) and in `ui/` (the
user interface, snapshots). The hard part of it is threads: the GPU's PFIFO
thread with four locks between it, the vCPU, the main loop and the UI; the
audio processor's frame thread with its workers and the host's audio callback;
two copies of video memory with three writers. That is what these modules
model, with the network device as the one in which events, not threads, meet.

The modules are in plain TLA+. TLC checks them on small instances (`*.cfg`,
`MC*.tla`); TLAPS proves the theorems of `*Proofs.tla` for every value of the
constants. `PROJECT.json` lists the runs, which source lines each definition
stands for, a mutant per property, the findings and the hazards.

## 1. Inventory

| component | state | operations | interacts through | hard behaviour |
|---|---|---|---|---|
| NV2A interrupts (`nv2a.c`, `pmc.c`, `pcrtc.c`, interrupt registers of `pfifo.c`, `pgraph.c`) | pending and enabled bits per unit, PMC summary, PCI line | `nv2a_update_irq`, register writes, vertical blank timer | called from the vCPU and the main loop under the BQL, from the PFIFO thread after it has given up `pgraph.lock` | interrupt raised after the lock is dropped, summary not recomputed, reset |
| PGRAPH stalls (`pgraph.c`) | `waiting_for_nop`, `waiting_for_context_switch`, `waiting_for_flip`, TRAPPED_ADDR, CTX_USER, CTX_CONTROL | NO_OPERATION trap, `pgraph_context_switch`, FLIP_STALL, `pgraph_write` | the guest's service routine answers | handshake over two locks, lost kick |
| PFIFO thread (`pfifo.c`, `user.c`) | DMA_GET, DMA_PUT, DMA_STATE, DMA_SUBROUTINE, `fifo_kick`, `halt` | pusher, puller, `pfifo_kick`, DMA_PUT write | `pfifo.lock`, `fifo_cond`, `fifo_idle_cond`, guest memory | lock released while a method runs, batching, wrap-around |
| FIFO quiescence (`nv2a.c` 299-467, `vk/renderer.c`, `vk/surface.c`) | `halt`, pending flags and completion events for flush, dirty surfaces, downloads | lock/unlock FIFO, reset, vm state change, pre/post load and save, scale change, frame, surface access | BQL, main-loop lock, `pfifo.lock`, `pgraph.lock`, three events | lock order, condition wait without predicate, one flag with two owners |
| PGRAPH methods (`pgraph.c`, rest) | method state, vertex and inline buffers, reports, flip indices | some 200 handlers | executed by the PFIFO thread | BEGIN/END state machine, buffer limits, squashing of draws |
| surface cache (`vk/surface.c`) | list of surfaces with dirty, download and upload flags, the two bindings | bind, reuse, download, upload, evict, expire, flush, access callback | PFIFO thread under `pgraph.lock`, vCPU accesses, UI under `pfifo.lock`, one shared event | which copy is newest, eviction of what is bound, overlap, a request lost between two locks |
| texture, shader, pipeline caches (`lru.h` and users) | LRU list and hash bins | lookup, evict | draws in flight veto eviction | no evictable entry |
| renderer switch (`pgraph.c` 3255-3325) | switch phase, `renderer_lock`, `framebuffer_in_use` | process pending, vCPU waits | UI frame, PFIFO thread, vCPU | lock order |
| MCPX APU (`mcpx/apu/apu.c`) | registers, `set_irq`, monitor FIFO, throttle | frame thread, audio callback, register writes, reset, save, load | `d->lock`, `cond`, BQL | lost signal, lost interrupt request, FIFO limit, reset of a sleeping thread |
| voice processor (`mcpx/apu/vp/vp.c`) | voice lists in guest memory, lock bits, spin locks, work queues | VOICE_LOCK, ON, OFF, RELEASE, list walk, dispatch, workers | frame thread under `d->lock`, vCPU without it, workers under `vwd->lock` | a voice guarded by two locks, waits without a loop, grouping of multipass voices |
| NVNet (`mcpx/nvnet`) | descriptor rings, interrupt status and line, PHY registers, packet buffer | transmit, receive, register writes, link changes, negotiation timer, reset, load | BQL, host network | half-sent packet in a snapshot, timer against link changes, packet during the interrupt routine |
| SMBus devices, EEPROM, controllers | small register files | requests of the guest | BQL | little |
| UI, snapshots (`ui/`) | run state, jobs | pause, resume, save, load, reset | BQL, main-loop lock | job while another is under way |
| Android application | activity, controls | JNI start-up | SDL | platform glue |

What makes them correct, in short: no assertion of the GPU thread can fail for
a guest that follows the hardware's protocol; every stall has a cause that the
guest can remove and does end; every word of a push buffer reaches its method
once and in order; the FIFO is at rest where its state is saved, loaded or
cleared; every job that waits for the GPU thread returns; the newest pixels of
every piece of memory are where the next reader looks; every audio frame mixes
each of its voices once, fits into the FIFO and ends; interrupts of the audio
and network devices reach the guest; packets leave whole and in order.

## 2. Modules

### PgraphIntr: interrupts and the two stalls

The PFIFO thread pulls one method at a time. A method is a SET_OBJECT (with the
channel of its RAMHT entry), a trapping NO_OPERATION, or any other. `pf` says
where the thread is; a step of it runs from one lock release to the next:

| `pf` | code | locks |
|---|---|---|
| `pusher` | `pfifo_run_pusher` loop | `pfifo.lock` |
| `pull` | puller has decided, about to take `pgraph.lock` | none |
| `ctx_irq`, `ctx_relock` | inside `pgraph_context_switch`, before and after the BQL | none |
| `nop_irq` | inside NO_OPERATION, before the BQL | none |
| `done`, `stop` | back from the puller, with success or -1 | none |
| `parked` | `qemu_cond_wait(fifo_cond)` | none |
| `abort_*` | an assertion has failed | |

One register access of the vCPU is one step; those that take `pfifo.lock` wait
while `pf = "pusher"`. The guest is external: a service routine that reads
NV_PMC_INTR_0, then NV_PGRAPH_INTR, loads the channel TRAPPED_ADDR names before
it acknowledges a context switch, and acknowledges the bits it has read;
`BlindAck` adds a guest that writes NV_PGRAPH_INTR at any time. `Reset` is
`nv2a_reset` for this part of the state.

The pusher's own stall check leaves out the context switch and the puller's
adds it; since the model's stream consists of methods, `ShouldStall` is the
two together.

### FifoSync: halting and draining the PFIFO thread

Four threads: the PFIFO thread and the vCPU as state machines, the UI and the
main loop as programs. A job (save, load, reset, pause, resume, scale change,
frame) is the sequence of its blocking points, `prog[t]` what is left of it; so
`LockFifo` is the five points of `nv2a_lock_fifo`, and a job that uses it twice
contains it twice. Locks are owners; a condition variable is the fact that a
thread's next point is the wait; an event is a Boolean with its pending flag.
`PfPending` does the renderer's downloads, dirty-surface downloads and flush in
the order of `pgraph_vk_process_pending`, as one step: what it completes is in
the model, which surfaces it reached is not. The frame is that of a build without
external memory, the path Android takes. The UI jobs that stop, save or load
are those of `ui/`; the Android build currently stubs out the snapshot
commands (`xemu_snapshots_stub.c`) and shares everything below them.

`Spurious` lets a condition wait return unsignalled. `PausedSave` adds saving
while paused.

### PushStream and PushBuffer: the DMA pusher

`PushStream` is the promise: words between DMA_GET and DMA_PUT are fetched one
at a time along jumps, calls and returns; each data word is handled once, by the
handler of its method, with the value it had when published; the guest may
rewrite what lies behind. `PushBuffer` is the code: the puller is offered
`MIN(method_count, put - get)` words, the difference taken in address-width
arithmetic; a batching handler takes several (`pgraph_method_inc`,
`pgraph_method_non_inc`) while `pfifo.lock` is free; DMA_GET and DMA_STATE catch
up afterwards; a call may be refused and is repeated. The refinement mapping
adds the words already handled to the registers (`Ahead`). Addresses count
words. Jumps in their old and new form decode alike and are one word here.

### VoiceWork: one audio frame

The frame thread (`fr.pc`) walks the voice lists in guest memory, reads a
voice's link, takes its spin lock (`held`), or waits on `d->cond` while the
guest has it locked, and deals the queued voices to the workers: `Deal` is one
turn of the loop of `voice_work_schedule`, `sched` its locals and `SchedStep`
what the turn makes of them. All of that happens under `vwd->lock`, so a worker
that needs the lock waits; `Await` signals and gives the lock up. The workers wait, wake (also
unsignalled), process voice by voice without `vwd->lock` and report. The vCPU's
methods are cut where another thread can see the difference: the lock bit, the
link, ACTIVE_VOICE, the bit cleared, the signal. VOICE_OFF and a worker's
update of the same word race, so a worker may leave ACTIVE_VOICE either way.
The samples are left out; `mixed` counts contributions. The mixing of the
workers' bins after the wait is the frame thread's own and not a step.

The frame thread's wait for `work_finished` has no loop either. `Unsignalled`
lets `SpuriousWake` end it early, as it does the workers' waits and as FifoSync
does its own; the thread then ends in `failed`, where
`assert(!vwd->workers_pending)` stops it (`AwaitUnsignalled`). MixComplete is
false then (§4, 11), so it is checked and proved under `~Unsignalled`;
VoiceExclusive and MultipassTogether are proved without it.

External: a driver that turns on only voices that are in no list, does not
touch a second voice while it holds one's lock, gives locks back, answers an
idle-voice trap by taking an idle voice out of its list, and lists its plain
voices first. `Relink` and `Nested` drop the first two assumptions. The last
(`PlainFirst`) is stronger than what `voice_work_schedule` says it has observed,
that sources are consecutive: a source, an idle multipass voice and a plain
voice would satisfy that and fail the assertion at vp.c:1700.

### ApuFrame: the frame thread and its surroundings

`pc` follows `mcpx_apu_frame_thread` through `throttle` and `se_frame`:
`Holding` are the places where it has `d->lock`, `Waiting` those where it waits
on `d->cond`. Register writes happen under the BQL at any time, for they do not
take `d->lock`; `Signal` wakes the thread only if it is waiting, so a signal
between `FrameCheck` and `FramePark` is lost, as in the code. FIFO level,
watermarks and the count of frames are those of the code with sizes as
constants; the time the throttle sleeps until is a choice. Reset, save and load
are the main thread's, with the BQL held throughout; a load puts arbitrary
registers there that a running driver could have saved. A frame's voices are
reduced to what they do to this state: trap, notify, stall. `IdleAtZero` says
that guest memory at address zero does not look like an active voice.

### SurfaceCache: which copy is newest

Video memory is a few cells; a surface covers a run of them from its address.
`gpu.fresh[c]` is the set of copies (RAM, or a surface's image) that hold the
newest data of cell `c`: writing makes one copy the only newest one, copying
spreads newness or staleness. The operators on `gpu` follow surface.c function
by function; a method of the PFIFO thread is one step since it runs with
`pgraph.lock` held. A step of the vCPU is one critical section of
`surface_access_callback`, then the access; the UI picks a surface under
`pfifo.lock`, asks under it again, waits. `ProcessDownloads` and
`ReportDownloads` are separate, for requests under `pfifo.lock` come in between.
The event is forgotten when its last waiter has left: whoever asks next resets
it first, so its value in between cannot matter. Size stands for width, height
and pitch; a draw with its BEGIN and END is one step.

External: the guest does not let the GPU use a surface that its CPU is
accessing (`Fenced`, `Settle`), keeps the surface on display until the UI has
asked for it, and begins blits at a surface's start or outside of all.
`Careful` is a guest that keeps its targets apart even at the size of a larger
surface that is reused and does not mask writes while it moves them.
`ClearSurface` writes the targets the method names, masked or not, and marks
those whose writes are enabled, as `pgraph_vk_set_surface_dirty` does; the two
differ only with `MaskedClears`, without which the guest clears what it has not
masked. `Forced`
is Android's display without external memory. `DisplayKept` says of the
constants that no depth target lies where the display may be and that neither
the CPU nor a blit writes there; `MCSurfaceCache` assumes it, so `surf` runs
under the hypotheses of the theorems in §5, and `surf_fallback` shows why it is
one.

### NvNet: the Ethernet controller

Everything runs under the BQL, so a handler is a step. `Kick` takes descriptors
as `dma_packet_from_guest` does, up to the end of one packet or an invalid
descriptor; `buf` is what waits in `tx_dma_buf`. `PacketArrives` delivers what
the network queue held back with the packet that comes; the address filter and
a lack of descriptors are the choice of `n`. `Reload` is a snapshot saved and
loaded in one step: what is saved stays, what is not is as reset and
`nvnet_post_load` leave it. `Torn` allows it in the middle of a packet. A
register write that carries no control is left out. External: a driver that
queues a packet part by part, kicks when it likes, acknowledges what it has
read and then serves it. A write of TX_RX_CONTROL (`Control`) has any of the
bits RESET, BIT1 and BIT2; with RESET the driver sets its rings up again. BIT1
clears the status without `update_irq`: unless `LiveClear`, the driver writes
it only to open the device, with interrupts masked and nothing received that it
has not taken.

## 3. Runs

| run | property | what it shows |
|---|---|---|
| `intr` | TypeOK, TrapAssertHolds, ChannelAssertHolds, TrapNamesWaiter, OwnChannel | the assertions of pgraph.c:735 and 941 hold and context switches answer the right channel |
| | StallsEnd, PmcCatchesUp | stalls end, the thread pulls on, stale summary bits are corrected |
| `intr_hostile` | StallHasCause | whatever the guest acknowledges and whenever the machine resets, a stall can be acknowledged away |
| `intr_reset` | TrapAssertHolds (violated) | reset keeps PGRAPH's pending interrupts |
| `sync` | TypeOK, Quiescent, UnlockedByOwner, NoLockInversion, HaltedThroughout, JobsEnd, no deadlock | the FIFO is at rest where it must be and every job returns |
| `sync_paused_save` | Quiescent (violated) | saving while paused does not halt the FIFO |
| `push` | TypeOK, NoAbort, Implements, Drains | the pusher implements the stream; what is published is executed |
| `voices` | TypeOK, MixComplete, VoiceExclusive, MultipassTogether, QueueAssertsHold, FrameEnds | the assertions of vp.c:1657 and 1700 hold; every voice is mixed once, by one worker with its group, never while the guest edits it; frames end |
| `apu` | TypeOK, FifoRoom, Resumes, TrapRaises, NotifyRaises, SnapshotEnds | no overflow of the monitor FIFO; lost signals are made up for; interrupts and snapshots get through |
| `apu_reset` | IdleTrapForced (violated) | a reset of the sleeping frame thread |
| `surf` | TypeOK, NoAbort, NoOverlap, FlagsTrue, ReadsFresh | the flags are true, nobody reads the older copy, the assertions of surface.c:744, 748 and 1821-1822 hold |
| `surf_fallback` | PixelsSurvive (violated) | Android's forced download overwrites CPU writes |
| `net` | TypeOK, LineTrue, LinkTrue, TxWhole, RxTaken | line and link are true, packets go out whole, received ones are taken |

Bounds. Two channels give a switch in both directions; a third adds nothing, as
the code only compares channels. `MaxConfig = 2` lets the guest mask and unmask,
or withdraw access, around any step. In `sync` one pending method (`MaxWork`) and
one frame (`MaxFrames`) per idle period let the thread meet a request before,
in and after a method; the violation run uses two. `push` starts from every
buffer of five words over an increasing command that leaves its handler's range,
a non-increasing one, a jump back, a call and a return, so data words look like
commands and commands wrap; two writes of DMA_PUT move it over a wrapped
stream, and one ring word is rewritten. `MaxPath` only bounds what the guest
publishes at once. `voices` has one list, since the three are walked one after
the other into one queue, one voice of each role and two workers: a group can
be split and a worker can be left without work. `apu` has two frames to a
buffer, three buffers of FIFO (the least `monitor_init` allows) and a device
that takes two at a time, so the high watermark is the capped one. `surf` has
a colour target at 0 or 1 that overlaps itself at size 2, a depth target behind
it that takes its size, textures of both kinds and a CPU at a cell colour
targets share. `net` has a packet longer than one descriptor in rings of two.
`CHECK_DEADLOCK FALSE` is used where the model may stop: the push buffer (an
idle GPU with its bounds used up) and the runs in which an assertion may end
the process or only a violation is sought.

Fairness. The PFIFO thread is an operating system thread, so its enabled steps
are taken (WF); in FifoSync threads also compete for mutexes, so each is
strongly fair: a mutex is not handed past a waiter for ever. The vertical blank
timer re-arms itself. The guest is assumed to service its interrupts and, in
its own code, to give FIFO access back. No job has to begin and no spurious
wake-up is relied on. `MaxFrames` is an assumption, not only a bound:
`fifo_idle_cond` is signalled only by a pass that ends unkicked, and a UI that
asked for a frame in every single pass would starve `nv2a_lock_fifo`; frames
are paced to the display and passes are not. In VoiceWork and ApuFrame the
frame thread, the workers, a started method of the vCPU and the audio callback
go on (WF: the host's audio device keeps asking while the machine runs); the
guest unlocks what it has locked, and competition for `d->lock` and the BQL is
strongly fair; that a frame gets past its voices is assumed in ApuFrame and is
FrameEnds of VoiceWork, which itself excludes a guest that locks voices for
ever. SnapshotEnds does not use that the machine runs: it holds because a
stopped machine drains no audio and the frame thread comes to wait. In NvNet
the guest serves interrupts and QEMU's timer fires.

## 4. Findings

Each with a run:

1. `nv2a_reset` keeps `pgraph.pending_interrupts` (`intr_reset`; the shortest
   trace goes through the window of a context switch and has two resets, the
   last part of it is what the finding tells).
2. Saving while paused neither halts nor locks the FIFO, and `nv2a_post_save`
   unlocks mutexes that are not held (`sync_paused_save`).
3. `mcpx_apu_reset` clears the registers under a frame thread that sleeps in
   the throttle; it goes on with zeroed registers into `assert(false)`
   (`apu_reset`).
4. Android's forced download of the displayed surface overwrites a CPU write
   that waits for its upload (`surf_fallback`).

Reproducible by changing one constant of a configuration:

5. `BlindAck = TRUE` in `Intr.cfg`: `pgraph_context_switch` flags before it
   raises; a write to NV_PGRAPH_INTR in between lets a method run without a
   channel (ChannelAssertHolds).
6. `Nested = TRUE` in `Voice.cfg`: the stalled frame thread keeps other voices'
   spin locks; a guest that touches one of them while it holds the awaited
   voice's lock never gets on (FrameEnds).
7. `Relink = TRUE` in `Voice.cfg`: a voice met twice in a list spins on its own
   lock, before the bound of the walk can help (FrameEnds). A plain voice
   that is linked again behind a source further on takes the source out of the
   list, but a walk that has come to the source goes on to the plain voice and
   queues it behind (QueueAssertsHold).
8. `Careful = FALSE` in `Surf.cfg`: the check that colour and depth surfaces
   have the same size fails (NoAbort).
9. `Torn = TRUE` in `Net.cfg`: the packet buffer is not part of a snapshot
   (TxWhole).
10. `Forced = FALSE` in `SurfFallback.cfg`: the same loss without Android's
    forced download, since `pgraph_vk_wait_for_surface_download` reads
    `draw_dirty` before it takes `pfifo.lock`. If the surface is downloaded and
    then written by the CPU in between, the request downloads an image that is
    no longer the newest (PixelsSurvive).
11. `Unsignalled = TRUE` in `Voice.cfg`: `voice_work_dispatch` waits once for
    `work_finished` and asserts that nobody is pending, but the wait may return
    unsignalled (MixComplete).
12. `MaskedClears = TRUE` in `Surf.cfg`: a clear of a target whose writes are
    masked writes the image and leaves `draw_dirty` false ("FIXME: Does this
    apply to CLEARs too?"), so the newest pixels are where no reader looks
    (FlagsTrue, and with it left out ReadsFresh).
13. `LiveClear = TRUE` in `Net.cfg`: TX_RX_CONTROL bit 1 clears the interrupt
    status and leaves the line asserted (LineTrue).

Read from the code while modelling:

14. `pgraph_write` does not recompute the interrupt summary; PmcCatchesUp is
    what holds instead.
15. `nv2a_update_irq` tests `pending && enabled` where pmc.c says the enable
    register selects units.
16. The renderer switch and the UI's frame take `renderer_lock` and `pfifo.lock`
    in opposite orders.
17. A frame's download requested while the previous batch is being finished is
    dropped and its waiter released (in SurfaceCache: `UiAsk` between
    `ProcessDownloads` and `ReportDownloads`); the CPU's requests are safe.
18. `nvnet_post_load` takes every link that was down for one that was being
    negotiated, and brings it up.

## 5. Proofs

`PgraphIntrProofs` proves, for every set of channels that contains 0 and every
bound on reconfigurations:

- `TypeCorrect`: `Spec => []TypeOK`;
- `AssertsHold`: without blind acknowledgements, TrapAssertHolds,
  ChannelAssertHolds and TrapNamesWaiter;
- `NoMethodWithoutChannel`, `TrappedAddrNamesWaiter`: ChannelAssertHolds and
  TrapNamesWaiter by themselves, under the same assumption;
- `SetObjectOnOwnChannel`: without blind acknowledgements, OwnChannel;
- `StallsHaveCauses`: with resets and any guest, StallHasCause.

The assumptions are those of PgraphIntr (`ChannelsAssumption`,
`GuestAssumption`) and, for all but the first and the last, `~BlindAck`;
finding 5 shows it is needed.

The assertions are not inductive: that a trap finds no trap pending depends on
the stall that kept the puller away, and that on the guest's acknowledgements.
`IInv` says that each stall flag and its interrupt bit come and go together,
except in the one window of the context switch (NopInv, CtxInv); that past its
stall checks the thread runs with nothing outstanding (PullInv); that what the
service routine has read is still pending, and that the context it has loaded
is the one asked for (IsrInv); that a switch answered while the thread was
between its locks has left the right channel loaded (SwitchInv); and that a
method other than SET_OBJECT is only in the stream with a context (StreamInv).
The proof has one step per action. StallHasCause is inductive by itself.

`NvNetProofs` proves, for rings of any size, any packets and any bound on held
packets, `NetTypeCorrect` (TypeOK), `LinkIsTrue` (LinkTrue) and, for a driver
that writes BIT1 only with its interrupts masked (`~LiveClear`, needed by
finding 13), `LineIsTrue` (LineTrue). The three are inductive only together: the
line needs that the
status and mask registers are sets of bits; the link needs that a negotiation
is complete whenever the PHY shows a link, so that a load infers the right
state. The proof goes by groups of actions (transmission, reception, link,
restart, driver, interrupt routine), with lemmas on what a step that leaves a
part of the state alone keeps, and on ring arithmetic.

It also proves `PacketsAreWhole`: without snapshots in the middle of a packet
(`~Torn`, needed by finding 9), the action property TxWhole. A packet's parts
are queued one by one, taken by kicks that may end anywhere, and joined in
`tx_dma_buf`, so the invariant `TxInv` is about all three places at once. The
valid descriptors are a row that starts at TX_RING_NEXT_DESC and ends at the
driver's tail (`InRow`). Read along the row, with the part the driver queues
next behind it, the packets come in order and a packet's parts are numbered
through up to its last one (`Chain`). The buffer holds the parts before the
row's first, of the same packet, which is later than the last one sent
(`Begun`). `Follow` relates any two parts of the row and not only neighbours:
with that, taking n parts needs no induction. The lemmas on `Slot` are the
arithmetic of a ring of any size. TLC checked `TxInv` on a ring of three and
packets of two, one and three parts first.

`ApuFrameProofs` proves, for any number of frames to a buffer, any buffer and
device size and any FIFO of at least three buffers, `ApuTypeCorrect` (TypeOK)
and `MonitorHasRoom` (FifoRoom). FifoRoom is not inductive, since the look at
the FIFO is taken when a buffer begins and the assertion comes when it ends.
`RoomKept` says that there is room for a buffer wherever the thread has been
let through by the throttle (also while it sleeps or stalls there) and
whenever a buffer has been begun; EPRST in a stalled frame makes the count zero
without a look, but only where the thread has been let through. That the high
watermark leaves room is `HighLeavesRoom`, and needs the cap of `monitor_init`.

`FifoSyncProofs` proves, for any amount of work, any number of frames and with
or without spurious wake-ups, `Typed` (TypeOK), `Quiescence` (Quiescent),
`Ownership` (UnlockedByOwner), `LockOrder` (NoLockInversion) and `HaltKept`
(HaltedThroughout), all under `~PausedSave`, without which finding 2 refutes
Quiescent. The jobs are programs, so the argument is one in Hoare's manner. A
*context* is what a thread may rely on at a blocking point: the main-loop lock,
the FIFO's locks, whether the vCPU has been asked to stop or has stopped, and
how far the FIFO is drained. `Step(q, op, z)` says what a blocking point needs
and what it makes of a context, `Run` that a whole program leads from one
context to another; lemmas show that `LockFifo` and the other blocks run, and
with them every job. The inductive invariant `IInv` is that there is a context
per thread that is true of the state (`Holds`) and from which what is left of
the thread's job runs (`Follows`), together with the owner of `pfifo.lock`
(`LockInv`) and what a stopped machine means for the vCPU (`StopInv`). The key
step is that of the drain: with `halt` set, a completed flush or download means
that the PFIFO thread has been at the top of its loop since, and is not pushing.
That is also why each property depends on the main-loop lock: it is what keeps
another thread's job from clearing `halt` in between.

`VoiceWorkProofs` proves, for any number of voices, lists and workers, any
roles, and any guest (`Nested` and `Relink` may hold), `Typed` (TypeOK),
`Exclusion` (VoiceExclusive) and `Together` (MultipassTogether), whether or not
the frame thread's wait returns unsignalled, and `Mixing` (MixComplete) if it
does not (`~Unsignalled`, needed by finding 11). None is inductive. `GuestInv`
says that the lock bit and the spin lock exclude each other and that the vCPU edits under the bit;
`LocksInv` that the queued voices are those whose spin locks the walk has
taken, none twice, except for the one it is at; `WorkInv` that what has been
dealt is in one place of one worker's queue, or mixed once, that a worker with
a queue is pending, and that one is processing only while the frame thread
waits, which is what makes unsignalled wake-ups harmless; `MultiInv` that the
sources which no multipass voice has followed are in the queue of the worker
whose turn it is. `VoiceExclusive` combines the first three.

For a guest that turns on only voices that are in no list (`~Relink`, needed by
finding 7; `Nested` may hold) it proves `QueueAsserts` (QueueAssertsHold). What
is reachable along the links (`Path`) is a recursion over data that two threads
look at, one of them while the other edits it. `ListInv` replaces it by
sequences: there is one of voices for each list, no voice has two places in
them, the plain ones come first, and tops and links are what they spell
(`Spells`). `PathSpells` shows, by induction, that following the links reads the
sequence, hence that to be listed is to be on one (`ListedOn`). VOICE_ON is then
an insertion and the driver's service a removal (`InsertedSpells`,
`RemovedSpells`), and both keep the order of all other voices. So the walk can
say where it is without a position: the queued voices come before the voice it
goes to next (`Walking`), and a voice put in under its feet, in front of or
behind it, changes nothing of that. From it follow that the queue is in the
order of the lists and holds no voice twice (`SortedQueue`), that there is room
for it, by the pigeonhole principle (`Room`), and that no plain voice is dealt
after a source (`SchedInv`). `CallInv` is what makes the insertion one: the
voice of a VOICE_ON under way is still in no list. TLC checked the invariant on
two lists, with sequences read off the links, and `Nested = TRUE` first.

`PushBufferProofs` proves, for push buffers of any size and content, any table
of handlers with their ranges, any address space that holds the buffer and any
bound on what is published at once, `Typed` (TypeOK), `NoAssertFails` (NoAbort)
and `Refinement` (`Implements`, the whole of `Spec => Stream!Spec`). What the
guest promises is a recursive walk along the words to DMA_PUT (`Walk`), so the
first half is about that: it is well defined (`WalkDefined`), one step of it is
`WalkOn`, the words read lie before DMA_PUT (`ReadsBeforePut`), a DMA_PUT that
is moved on keeps them (`Prefix`), a word written elsewhere does not change them
(`Rewritten`), and k data words in a row are k steps of it (`DataRun`). These go
by induction on the bound; `Induction`, of `NaturalInduction`, is stated for
sets of numbers and follows from the library's well-founded minimum, which needs
no operator parameter. The
invariant `IInv` says that the words from DMA_GET lead to DMA_PUT (`Published`);
that what a call was offered lies in use, all of it, also after DMA_PUT moved
while the call ran (`Offered`); and that the methods of an increasing batch
belong to one handler (`OneRange`). That the offer is right where DMA_PUT is
behind DMA_GET, and the difference is close to the whole address space, is
`AvailableFits`. The assumptions are those of PushBuffer (`StreamAssumption`,
`BatchAssumption`): words decode into their fields' widths, and the methods of a
range share its handler.

`SurfaceCacheProofs` proves, for any video memory, any targets and sizes and any
guest (`Careful`, `MaskedClears` and `Forced` may be either), `Typed` (TypeOK) and
`SurfacesApart` (NoOverlap). NoOverlap is not inductive by itself: `Sound` adds
that the bound surfaces and the holders of newest copies are surfaces of the
cache. Every operation of surface.c is a function on the state of the cache, so
there is one lemma for each (`Evict`, `Put`, `Rebind`, `UpdatePart`, ...): from
`Sound` it leads to `Sound`. The evictions and the downloads of a list are folds
over sets. Such a fold is well defined (`FoldExists`) and keeps what each of its
steps keeps (`EvictAllKeeps`, `DownloadAllKeeps`), by induction on the size of
the set; that nothing of the list is left after it is what makes room for a
surface that is put.

For a guest that is `Careful`, keeps `DisplayKept` and clears no target whose
writes it has masked (`~MaskedClears`), and again any video memory, targets and
sizes, it proves `FlagsTell` (FlagsTrue), `ReadsNewest` (ReadsFresh) and `AssertionsHold` (NoAbort: the assertions at surface.c:744, 748
and 1821-1822). Without the hypotheses they are false (§4, 4, 8, 10 and 12), but
for NoAbort with masked clears, of which the invariant, being about the flags
too, says nothing; `Forced` may be either. None of the
three is inductive. The invariant `FInv` adds to `Sound`:

- `Good`, the flags of each surface while the CPU is in an access. With K the
  cell it is at, W the cell if it will write it, and D the cell once the
  downloads it waits for are done: a surface that is dirty, or awaits no upload,
  has the newest data of all it covers; it is both dirty and waiting for an
  upload only if the CPU is at it; `download_pending` is set only on one that is
  dirty or is on display and awaits no upload; one the CPU will write awaits an
  upload; a dirty one the CPU is at is marked for download, and after D none is
  dirty. RAM is newest where no dirty surface is.
- `Calm`, the bindings between two methods: one that is not stale is to the
  target register's address and at least as large as the last shape; the two
  bound surfaces have the same size; once something has been drawn and not yet
  marked, the targets have not moved since; and what is on display awaits no
  upload.
- what the processors know: D covers the CPU's cell as soon as the PFIFO thread
  has downloaded, still before it reports, and as long as the event is set. That
  is why a report for the interface's request, or a request that arrives between
  the downloads and the report, does no harm to the CPU.

There is again a lemma for each operation (`DownloadGood`, `EvictGood`,
`PutGood`, `RebindGood`, `DrawTargetsGood`, `UploadGood`, `BlitGood`, ...), and
`DrawGood`, `UpdateGood` for whole surface updates. `FInv` was checked with TLC
on the instance of `surf` and a larger one first.

Only model-checked: liveness (StallsEnd, PmcCatchesUp, JobsEnd, Drains,
FrameEnds, Resumes, TrapRaises, NotifyRaises, SnapshotEnds, RxTaken), which
needs fairness and ENABLED. Every invariant, action property and refinement that
a passing run checks is proved.

## 6. Not modelled

Pixels, shaders, vertex formats, the DSP and the processing of samples: data.
PTIMER, PVIDEO, PRAMDAC and the other register blocks: register files without
control. The OpenGL renderer: it follows the protocol of the Vulkan one.
SMBus devices, EEPROM and controllers: request handlers under the BQL without
state that several of them share. Upstream QEMU, except for what stops and
starts the machine, and its vendored libraries, which are nearly all of the
repository's lines. The Android application.

Left out of modelled parts:

- PgraphIntr: the puller's and the pusher's other conditions (PULL0 access and
  the low mark, pfifo.c:166-169; PUSH0 and DMA_PUSH, 263-267), `halt` and the
  flip stall. The first are guards that only take steps away, `halt` is
  FifoSync's, the flip stall is planned.
- PushBuffer: the squashing of draws, and the translation of the handles in
  methods 0x180-0x1ff to instance addresses (pfifo.c:209-214), which changes a
  word's value and not its way. A call is refused for want of FIFO access; the
  stalls that also refuse it are PgraphIntr's.
- VoiceWork: a multipass voice that also mixes into the multipass bin; the reset
  of voice locks.
- ApuFrame: the throttle's loop until the next frame's time; any signal may end
  the sleep, which allows more than the code does (apu.c:142-151).
- SurfaceCache: formats, pitch, surfaces of size zero, and with them the
  assertions at surface.c:739-741, 1482-1512 and 1630; blits that begin inside a
  surface (surface.c does not track them either, so the guest's assumption
  excludes them); the surface entry the UI's pointer refers to after an
  eviction; and the delay with which the vCPU comes to know of a new or removed
  access callback, which is work queued for it (physmem.c:894, 917): `Put` and
  `Invalidate` do it at once, and the guest's fences are relied on for the rest.
- NvNet: KICK in the same write as other bits, and the assertion that a packet
  fits into `tx_dma_buf` (nvnet.c:522), since parts have no lengths. TxWhole
  compares `sent` before and after, so the same packet sent twice in a row
  would not be seen.
- Failing saves and loads, which would leave `d->lock` or the FIFO's locks held;
  the creation and the joining of threads.

## 7. Plan

1. FifoSync: the renderer switch with `renderer_lock` and `framebuffer_in_use`,
   shutdown, and saves and loads that fail between their two halves.
2. The flip queue: FLIP_INCREMENT_WRITE, FLIP_STALL, NV_PGRAPH_INCREMENT,
   modulo zero, and its stall in PgraphIntr.
3. The draw state machine of pgraph.c (BEGIN/END, draw arrays, inline buffers
   and their limits) and the squashing of draws in PushBuffer.
4. The LRU cache with vetoed eviction.
