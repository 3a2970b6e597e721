------------------------------- MODULE VoiceWork -------------------------------
(* One audio frame of the APU's voice processor (hw/xbox/mcpx/apu/vp/vp.c): *)
(* the frame thread walks the voice lists, takes every active voice's spin *)
(* lock, deals the voices to the worker threads and waits for them, while  *)
(* the guest's CPU locks voices, turns them on and off and edits the lists *)
(* without d->lock.  The samples are left out; what a worker contributes   *)
(* is the voice it mixed.                                                  *)
EXTENDS Naturals, Sequences, FiniteSets, Functions

CONSTANTS
    Voices,       \* voice handles; MCPX_HW_MAX_VOICES is their number
    NumLists,     \* voice_list_regs: 2D, 3D, multipass
    NumWorkers,   \* vwd->num_workers
    Role,         \* [Voices -> Roles]: what a voice has to do with the multipass bin
    Nested,       \* the guest touches a voice while it holds another one's lock
    Relink,       \* the guest turns on a voice that is still in a list
    Unsignalled   \* the frame thread's wait for the workers may return unsignalled

(* A voice goes past the multipass bin, mixes into it, or is the multipass *)
(* voice that reads and clears it (which does not write into it again).    *)
NoVoice == "none"                      \* the handle 0xFFFF
Roles   == {"plain", "source", "multi"}
Lists   == 1 .. NumLists
Workers == 0 .. NumWorkers - 1
MaxVoices == Cardinality(Voices)

ASSUME VoicesAssumption   == IsFiniteSet(Voices) /\ Voices # {} /\ NoVoice \notin Voices
ASSUME CountsAssumption   == NumLists \in Nat \ {0} /\ NumWorkers \in Nat \ {0}
ASSUME RoleAssumption     == Role \in [Voices -> Roles]
ASSUME GuestAssumption    == Nested \in BOOLEAN /\ Relink \in BOOLEAN
ASSUME WaitAssumption     == Unsignalled \in BOOLEAN

VARIABLES
    voiceLocked,  \* vp.voice_locked: the voices the guest has locked
    held,         \* the voices whose spin lock the frame thread holds
    top,          \* [Lists -> handle]: TVL2D, TVL3D, TVLMP
    link,         \* [Voices -> handle]: NEXT_VOICE_HANDLE in guest memory
    active,       \* the voices with ACTIVE_VOICE set in guest memory
    trapped,      \* FECTL says TRAPPED: no further frame is started
    fr,           \* the frame thread: [pc, list, cur, nxt, n]
    queue,        \* vwd->queue
    sched,        \* voice_work_schedule's locals: [worker, group, dirty], and the assertion, ok
    wpc,          \* [Workers -> "wait", "woken", "process"]
    wq,           \* [Workers -> Seq(Voices)]: the worker's own queue
    pending,      \* vwd->workers_pending
    mixed,        \* [Voices -> Nat]: contributions to the mix of this frame
    cpu           \* the vCPU inside a voice method: [pc, op, v, keep]

guest == <<voiceLocked, top, link, active, trapped, cpu>>
work  == <<queue, sched, wpc, wq, pending, mixed>>
vars  == <<voiceLocked, held, top, link, active, trapped, fr, queue, sched, wpc, wq,
           pending, mixed, cpu>>
-------------------------------------------------------------------------------
(* The handles met when list l is followed from its top: at position       *)
(* MaxVoices + 1 the walk has come full circle.                            *)
Path(t, lk, l) ==
    LET p[i \in 1 .. MaxVoices + 1] ==
            IF i = 1 THEN t[l] ELSE IF p[i - 1] = NoVoice THEN NoVoice ELSE lk[p[i - 1]]
    IN  p

Listed(t, lk, v) == \E l \in Lists, i \in 1 .. MaxVoices : Path(t, lk, l)[i] = v

(* What voice_work_schedule assumes of the lists ("a few assumptions based *)
(* on Xbox software observations"): no plain voice after a multipass one.  *)
(* The comment only asks for sources in a row; of the voices in the lists  *)
(* that is not enough, for a multipass voice that is idle is not queued.   *)
PlainFirst(t, lk) ==
    \A l, k \in Lists, i, j \in 1 .. MaxVoices :
        LET v == Path(t, lk, l)[i]
            w == Path(t, lk, k)[j]
        IN  (l < k \/ (l = k /\ i < j)) /\ NoVoice \notin {v, w} /\ Role[w] = "plain"
                => Role[v] = "plain"

Outside == [pc |-> "outside", list |-> 1, cur |-> NoVoice, nxt |-> NoVoice, n |-> 0]
SchedStart == [worker |-> 0, group |-> FALSE, dirty |-> FALSE, ok |-> TRUE]
Idle    == [pc |-> "idle", op |-> "none", v |-> NoVoice, keep |-> FALSE]

(* mcpx_apu_vp_init: the workers have started and wait, the lists are empty *)
(* as the guest's driver sets them up.                                     *)
Init ==
    /\ voiceLocked = {} /\ held = {} /\ active = {} /\ trapped = FALSE
    /\ top = [l \in Lists |-> NoVoice] /\ link = [v \in Voices |-> NoVoice]
    /\ fr = Outside
    /\ queue = <<>> /\ sched = SchedStart
    /\ wpc = [w \in Workers |-> "wait"] /\ wq = [w \in Workers |-> <<>>]
    /\ pending = {} /\ mixed = [v \in Voices |-> 0]
    /\ cpu = Idle
-------------------------------------------------------------------------------
(* The guest: vp_write and fe_method on the vCPU, which holds the BQL and  *)
(* neither d->lock nor, between two steps, a spin lock.                    *)

MaySelect(v) == Nested \/ voiceLocked \subseteq {v}

(* PIO_VOICE_LOCK, VOICE_ON and VOICE_RELEASE begin.  The last two lock    *)
(* the voice for themselves unless the guest has locked it.                *)
CpuCall(op, v) ==
    /\ cpu.pc = "idle" /\ MaySelect(v)
    /\ op = "lock" => v \notin voiceLocked
    /\ op = "unlock" => v \in voiceLocked
    /\ op = "on" => Relink \/ ~Listed(top, link, v)
    /\ LET keep == v \in voiceLocked
       IN  cpu' = [op |-> op, v |-> v, keep |-> keep,
                   pc |-> IF op = "unlock" THEN "clear"
                          ELSE IF op = "lock" \/ ~keep THEN "set"
                          ELSE IF op = "on" THEN "link" ELSE "edit"]
    /\ UNCHANGED <<voiceLocked, held, top, link, active, trapped, fr, work>>

CpuUnlocks == \E v \in Voices : CpuCall("unlock", v)

(* VOICE_OFF: voice_off clears ACTIVE_VOICE under no lock at all.          *)
CpuVoiceOff(v) ==
    /\ cpu.pc = "idle" /\ v \in active /\ active' = active \ {v}
    /\ UNCHANGED <<voiceLocked, held, top, link, trapped, fr, work, cpu>>

(* voice_lock(d, v, true): the bit is set under the voice's spin lock.     *)
CpuSet ==
    /\ cpu.pc = "set" /\ cpu.v \notin held
    /\ voiceLocked' = voiceLocked \cup {cpu.v}
    /\ cpu' = IF cpu.op = "lock" THEN Idle
              ELSE [cpu EXCEPT !.pc = IF cpu.op = "on" THEN "link" ELSE "edit"]
    /\ UNCHANGED <<held, top, link, active, trapped, fr, work>>

(* VOICE_ON puts the voice at the top of a list or behind an antecedent    *)
(* voice, and only later marks it active.                                  *)
CpuLink ==
    /\ cpu.pc = "link" /\ cpu' = [cpu EXCEPT !.pc = "edit"]
    /\ \/ \E l \in Lists : /\ link' = [link EXCEPT ![cpu.v] = top[l]]
                           /\ top' = [top EXCEPT ![l] = cpu.v]
       \/ \E a \in Voices \ {cpu.v} :
              /\ Listed(top, link, a)
              /\ link' = [link EXCEPT ![cpu.v] = link[a], ![a] = cpu.v]
              /\ UNCHANGED top
    /\ PlainFirst(top', link')
    /\ UNCHANGED <<voiceLocked, held, active, trapped, fr, work>>

CpuEdit ==
    /\ cpu.pc = "edit"
    /\ active' = IF cpu.op = "on" THEN active \cup {cpu.v} ELSE active
    /\ cpu' = IF cpu.keep THEN Idle ELSE [cpu EXCEPT !.pc = "clear"]
    /\ UNCHANGED <<voiceLocked, held, top, link, trapped, fr, work>>

(* voice_lock(d, v, false), then qemu_cond_signal(&d->cond) without d->lock. *)
CpuClear ==
    /\ cpu.pc = "clear" /\ cpu.v \notin held
    /\ voiceLocked' = voiceLocked \ {cpu.v}
    /\ cpu' = [Idle EXCEPT !.pc = "signal"]
    /\ UNCHANGED <<held, top, link, active, trapped, fr, work>>

Wake == fr' = IF fr.pc = "stalled" THEN [fr EXCEPT !.pc = "acquire"] ELSE fr

CpuSignal ==
    /\ cpu.pc = "signal" /\ cpu' = Idle /\ Wake
    /\ UNCHANGED <<voiceLocked, held, top, link, active, trapped, work>>

(* The driver answers an idle-voice trap: it takes an idle voice out of    *)
(* its list, if there is one left, and lets the front end run again.  The  *)
(* interrupt it answers is raised between frames.                          *)
GuestService ==
    /\ cpu.pc = "idle" /\ trapped /\ fr.pc = "outside" /\ trapped' = FALSE
    /\ \/ UNCHANGED <<top, link>>
       \/ \E v \in Voices \ active :
              /\ Listed(top, link, v)
              /\ top' = [l \in Lists |-> IF top[l] = v THEN link[v] ELSE top[l]]
              /\ link' = [a \in Voices |-> IF a # v /\ link[a] = v THEN link[v] ELSE link[a]]
    /\ UNCHANGED <<voiceLocked, held, active, fr, work, cpu>>

CpuFinish == CpuSet \/ CpuLink \/ CpuEdit \/ CpuClear \/ CpuSignal
CpuStep == \/ \E v \in Voices, op \in {"lock", "on", "release"} : CpuCall(op, v)
           \/ CpuUnlocks \/ CpuFinish \/ GuestService \/ \E v \in Voices : CpuVoiceOff(v)
-------------------------------------------------------------------------------
(* The frame thread: mcpx_apu_vp_frame, under d->lock except in the stall. *)

FrameStart ==
    /\ fr.pc = "outside" /\ ~trapped
    /\ fr' = [fr EXCEPT !.pc = "walk", !.cur = top[1]]
    /\ UNCHANGED <<guest, held, work>>

InList == fr.pc = "walk" /\ fr.cur # NoVoice /\ fr.n < MaxVoices

(* fe_method(d, SE2FE_IDLE_VOICE, v): the front end traps; the walk goes on. *)
VisitIdle ==
    /\ InList /\ fr.cur \notin active /\ trapped' = TRUE
    /\ fr' = [fr EXCEPT !.cur = link[fr.cur], !.n = @ + 1]
    /\ UNCHANGED <<voiceLocked, held, top, link, active, cpu, work>>

(* voice_work_enqueue up to the voice's lock; the link is read before.     *)
VisitPutsFirst ==
    /\ InList /\ fr.cur \in active
    /\ queue' = <<fr.cur>> \o queue
    /\ fr' = [fr EXCEPT !.pc = "acquire", !.nxt = link[fr.cur], !.n = @ + 1]
    /\ UNCHANGED <<guest, held, sched, wpc, wq, pending, mixed>>
VisitActive ==
    /\ InList /\ fr.cur \in active
    /\ queue' = Append(queue, fr.cur)
    /\ fr' = [fr EXCEPT !.pc = "acquire", !.nxt = link[fr.cur], !.n = @ + 1]
    /\ UNCHANGED <<guest, held, sched, wpc, wq, pending, mixed>>

(* voice_work_acquire_voice_lock_for_processing: the spin lock is kept if  *)
(* the guest has not locked the voice; otherwise it is given back ...      *)
AcquireUnchecked ==
    /\ fr.pc = "acquire" /\ fr.cur \notin held
    /\ held' = held \cup {fr.cur}
    /\ fr' = [fr EXCEPT !.pc = "walk", !.cur = fr.nxt, !.nxt = NoVoice]
    /\ UNCHANGED <<guest, work>>
AcquireCounts ==
    /\ fr.pc = "acquire" /\ fr.cur \notin held \cup voiceLocked
    /\ held' = held \cup {fr.cur}
    /\ fr' = [fr EXCEPT !.pc = "walk", !.cur = fr.nxt, !.nxt = NoVoice, !.n = @ + 1]
    /\ UNCHANGED <<guest, work>>
AcquireTaken ==
    /\ fr.pc = "acquire" /\ fr.cur \notin held \cup voiceLocked
    /\ held' = held \cup {fr.cur}
    /\ fr' = [fr EXCEPT !.pc = "walk", !.cur = fr.nxt, !.nxt = NoVoice]
    /\ UNCHANGED <<guest, work>>
AcquireRefused ==
    /\ fr.pc = "acquire" /\ fr.cur \in voiceLocked \ held
    /\ fr' = [fr EXCEPT !.pc = "refused"]
    /\ UNCHANGED <<guest, held, work>>

(* ... and the thread waits on d->cond.  A signal in between is lost.      *)
Stall ==
    /\ fr.pc = "refused" /\ fr' = [fr EXCEPT !.pc = "stalled"]
    /\ UNCHANGED <<guest, held, work>>

(* monitor_sink_cb broadcasts d->cond every time the audio device asks.    *)
AudioSilent == FALSE
AudioBroadcast ==
    /\ fr.pc = "stalled" /\ Wake
    /\ UNCHANGED <<guest, held, work>>

NextList ==
    /\ fr.pc = "walk" /\ ~InList
    /\ fr' = IF fr.list < NumLists
             THEN [fr EXCEPT !.list = @ + 1, !.cur = top[fr.list + 1], !.n = 0]
             ELSE [Outside EXCEPT !.pc = "dispatch"]
    /\ UNCHANGED <<guest, held, work>>

(* voice_work_dispatch takes vwd->lock, until it waits for the workers.    *)
Dispatch ==
    /\ fr.pc = "dispatch"
    /\ fr' = IF queue = <<>> THEN Outside ELSE [fr EXCEPT !.pc = "deal"]
    /\ UNCHANGED <<guest, held, work>>

(* What one turn of the loop of voice_work_schedule does to its locals:    *)
(* round robin, except that the sources of the multipass bin stay with the *)
(* worker that got the first one, up to and including the multipass voice  *)
(* that clears it.                                                         *)
SchedStepRoundRobin(s, v) ==
    [worker |-> (s.worker + 1) % NumWorkers, group |-> FALSE, dirty |-> FALSE, ok |-> TRUE]
SchedStep(s, v) ==
    LET source == Role[v] = "source"
        multi  == Role[v] = "multi"
        group  == (s.group \/ (source /\ ~s.dirty)) /\ ~multi
    IN  [worker |-> IF group THEN s.worker ELSE (s.worker + 1) % NumWorkers,
         group  |-> group,
         dirty  |-> (s.dirty /\ ~multi) \/ source,
         ok     |-> s.ok /\ (multi \/ source \/ ~s.dirty)]

Deal ==
    /\ fr.pc = "deal" /\ fr.n < Len(queue)
    /\ LET v == queue[fr.n + 1]
       IN  /\ wq' = [wq EXCEPT ![sched.worker] = Append(@, v)]
           /\ sched' = SchedStep(sched, v)
    /\ pending' = pending \cup {sched.worker}
    /\ fr' = [fr EXCEPT !.n = @ + 1]
    /\ UNCHANGED <<guest, held, queue, wpc, mixed>>

(* Signal the workers that got something, and wait.                        *)
Await ==
    /\ fr.pc = "deal" /\ fr.n = Len(queue)
    /\ wpc' = [w \in Workers |-> IF w \in pending /\ wpc[w] = "wait" THEN "woken" ELSE wpc[w]]
    /\ fr' = [Outside EXCEPT !.pc = "await"]
    /\ sched' = SchedStart   \* the locals die with the call
    /\ UNCHANGED <<guest, held, queue, wq, pending, mixed>>

(* pthread_cond_wait may return unsignalled, and this wait has no loop: if *)
(* the thread has vwd->lock back before the last worker is done,           *)
(* assert(!vwd->workers_pending) fails.  (If it has it back later, the     *)
(* return is like a signalled one.)  The others run until the abort ends   *)
(* them.                                                                   *)
AwaitUnsignalled ==
    /\ Unsignalled /\ fr.pc = "await" /\ pending # {}
    /\ fr' = [fr EXCEPT !.pc = "failed"]
    /\ UNCHANGED <<guest, held, work>>

(* work_finished was signalled: give the voices back.  The buffers mixed   *)
(* into are the frame's own: the next one begins with silence.             *)
Finish ==
    /\ fr.pc = "finish" /\ pending = {}
    /\ held' = held \ Range(queue) /\ queue' = <<>>
    /\ fr' = Outside /\ mixed' = [v \in Voices |-> 0]
    /\ UNCHANGED <<guest, sched, wpc, wq, pending>>

FrameStep == \/ FrameStart \/ VisitIdle \/ VisitActive \/ AcquireTaken \/ AcquireRefused
             \/ Stall \/ NextList \/ Dispatch \/ Deal \/ Await \/ Finish
-------------------------------------------------------------------------------
(* The workers: voice_worker_thread.                                       *)

WorkerDoneEarly(w) ==
    /\ pending' = pending \ {w} /\ wpc' = [wpc EXCEPT ![w] = "wait"]
    /\ fr' = IF fr.pc = "await" THEN [fr EXCEPT !.pc = "finish"] ELSE fr

(* Contributions added, the queue emptied; the last worker signals.        *)
WorkerDone(w) ==
    /\ pending' = pending \ {w} /\ wpc' = [wpc EXCEPT ![w] = "wait"]
    /\ fr' = IF pending' = {} /\ fr.pc = "await" THEN [fr EXCEPT !.pc = "finish"] ELSE fr

(* Woken, with vwd->lock: an empty queue means there is nothing to do.     *)
WorkerWoken(w) ==
    /\ wpc[w] = "woken" /\ fr.pc # "deal"
    /\ IF wq[w] = <<>> THEN WorkerDone(w)
       ELSE wpc' = [wpc EXCEPT ![w] = "process"] /\ UNCHANGED <<pending, fr>>
    /\ UNCHANGED <<guest, held, queue, sched, wq, mixed>>

(* voice_process on the next queued voice, without vwd->lock.  The voice   *)
(* may turn itself off; a word of its state that is read, changed and      *)
(* written back here can also undo a VOICE_OFF that comes in between.      *)
WorkerProcess(w) ==
    /\ wpc[w] = "process" /\ wq[w] # <<>>
    /\ LET v == Head(wq[w])
       IN  /\ active' \in {active, active \ {v}, active \cup {v}}
           /\ mixed' = [mixed EXCEPT ![v] = @ + 1]
    /\ wq' = [wq EXCEPT ![w] = Tail(@)]
    /\ UNCHANGED <<voiceLocked, held, top, link, trapped, fr, queue, sched, wpc, pending,
                   cpu>>

WorkerFinish(w) ==
    /\ wpc[w] = "process" /\ wq[w] = <<>> /\ fr.pc # "deal" /\ WorkerDone(w)
    /\ UNCHANGED <<guest, held, queue, sched, wq, mixed>>

WorkerStep(w) == WorkerWoken(w) \/ WorkerProcess(w) \/ WorkerFinish(w)

(* The worker's wait may return unsignalled, and it does not loop either.  *)
WorkerUnsignalled(w) ==
    /\ wpc[w] = "wait" /\ wpc' = [wpc EXCEPT ![w] = "woken"]
    /\ UNCHANGED <<guest, held, fr, queue, sched, wq, pending, mixed>>

(* pthread_cond_wait of a worker, or of the frame thread (NumWorkers).     *)
SpuriousWake(t) == IF t \in Workers THEN WorkerUnsignalled(t) ELSE AwaitUnsignalled

Next == CpuStep \/ FrameStep \/ AudioBroadcast
        \/ (\E w \in Workers : WorkerStep(w)) \/ (\E t \in 0 .. NumWorkers : SpuriousWake(t))

Spec == Init /\ [][Next]_vars

(* The frame thread, the workers, the audio callback and the vCPU inside a *)
(* method are scheduled, and the guest unlocks what it has locked.         *)
FairSpec ==
    /\ Spec /\ WF_vars(FrameStep) /\ WF_vars(AudioBroadcast)
    /\ \A w \in Workers : WF_vars(WorkerStep(w))
    /\ WF_vars(CpuFinish) /\ SF_vars(CpuUnlocks)
-------------------------------------------------------------------------------
(* The frame thread is between two voices of a list or at one of them.     *)
AtVoice == {"acquire", "refused", "stalled"}
FramePcs == {"outside", "walk", "dispatch", "deal", "await", "finish", "failed"} \cup AtVoice
Handles == Voices \cup {NoVoice}

(* Type correctness; the walk and the dealing stay within their bounds,    *)
(* whatever the guest makes of the lists, and a voice is at hand where one *)
(* is used.                                                                *)
GuestTypes ==
    /\ voiceLocked \subseteq Voices /\ active \subseteq Voices /\ trapped \in BOOLEAN
    /\ top \in [Lists -> Handles] /\ link \in [Voices -> Handles]
    /\ cpu \in [pc : {"idle", "set", "link", "edit", "clear", "signal"}, v : Handles,
               op : {"none", "lock", "unlock", "on", "release"}, keep : BOOLEAN]
    /\ cpu.pc \in {"set", "link", "edit", "clear"} => cpu.v # NoVoice
FrameTypes ==
    /\ held \subseteq Voices
    /\ fr \in [pc : FramePcs, list : Lists, cur : Handles, nxt : Handles, n : Nat]
    /\ fr.pc \in AtVoice => fr.cur # NoVoice
    /\ fr.n <= IF fr.pc = "deal" THEN Len(queue) ELSE MaxVoices
WorkTypes ==
    /\ queue \in Seq(Voices) /\ wq \in [Workers -> Seq(Voices)] /\ pending \subseteq Workers
    /\ sched \in [worker : Workers, group : BOOLEAN, dirty : BOOLEAN, ok : BOOLEAN]
    /\ wpc \in [Workers -> {"wait", "woken", "process"}] /\ mixed \in [Voices -> Nat]
TypeOK == GuestTypes /\ FrameTypes /\ WorkTypes

(* voice_work_dispatch waits for work_finished once, without a loop, and   *)
(* asserts !workers_pending: whatever the workers, which wake unsignalled, *)
(* early or late, make of the signal, the assertion holds after the wait   *)
(* and every queued voice has been mixed exactly once.  It is so as long   *)
(* as the wait itself ends with the signal (~Unsignalled).                 *)
MixComplete ==
    /\ fr.pc # "failed"
    /\ fr.pc = "finish" =>
           /\ pending = {}
           /\ \A v \in Voices : mixed[v] = IF v \in Range(queue) THEN 1 ELSE 0

(* A voice is not processed while the guest has it locked or is in the     *)
(* middle of VOICE_ON or VOICE_RELEASE on it: the bit and the spin lock    *)
(* are two locks, looked at in different orders by the two sides.          *)
VoiceExclusive ==
    /\ held \cap voiceLocked = {}
    /\ \A w \in Workers, v \in Voices :
           v \in Range(wq[w]) => v \in held /\ ~(cpu.pc \in {"link", "edit"} /\ cpu.v = v)

(* Sources of the multipass bin are mixed before, and by the same worker   *)
(* as, the multipass voice that consumes the bin: they precede it in its   *)
(* queue, however the voices between and before them were dealt.           *)
MultipassTogether ==
    fr.pc = "deal" =>
        \A i, j \in 1 .. fr.n :
            i < j /\ Role[queue[i]] = "source" /\ Role[queue[j]] = "multi"
            /\ (\A k \in i .. j - 1 : Role[queue[k]] # "multi")
                => \E w \in Workers : \E a, b \in DOMAIN wq[w] :
                       a < b /\ wq[w][a] = queue[i] /\ wq[w][b] = queue[j]

(* Two assertions about lists the guest edits under the walk's feet.       *)
(* voice_work_enqueue: the queue has room for each voice once, so none may *)
(* be met twice in a walk.  voice_work_schedule: the sources of the bin    *)
(* come together, for any lists that start with their plain voices and     *)
(* whichever of the voices are active.                                     *)
QueueAssertsHold == Len(queue) <= MaxVoices /\ sched.ok

(* A frame that has begun ends, unless the guest locks voices for ever:    *)
(* the thread stalls on a voice only "until voice is available" (vp.c),    *)
(* although it keeps the spin locks of other voices meanwhile and the      *)
(* guest unlocks and signals without d->lock.                              *)
FrameEnds == []<><<CpuSet>>_vars \/ []<>(fr.pc = "outside")
================================================================================
