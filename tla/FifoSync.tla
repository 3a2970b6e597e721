------------------------------- MODULE FifoSync -------------------------------
(***************************************************************************)
(* How the rest of the emulator halts and drains the PFIFO thread of the   *)
(* NV2A: machine reset, snapshot save and load, pause and resume, a change *)
(* of the surface scale, and the two ways of asking for a surface          *)
(* download (the UI's frame, a guest access to a rendered surface).        *)
(*                                                                         *)
(* Four threads share pfifo.lock, pgraph.lock, the BQL and the main-loop   *)
(* lock, two condition variables and three events.  The PFIFO thread and   *)
(* the vCPU are state machines.  The UI and main-loop threads run one job  *)
(* at a time; a job is the sequence of its blocking points, prog[t] what   *)
(* is left of it, and Do(t, op) the guard that t is about to do op.        *)
(***************************************************************************)
EXTENDS Naturals, Sequences

CONSTANTS MaxWork,     \* bound: methods between DMA_GET and DMA_PUT
          MaxFrames,   \* pacing: frames the UI begins before the FIFO next runs dry
          Spurious,    \* may a wait on fifo_idle_cond return unsignalled?
          PausedSave   \* may a snapshot be saved while the machine is paused?

ASSUME BoundsAssumption == MaxWork \in Nat \ {0} /\ MaxFrames \in Nat \ {0}
ASSUME SwitchAssumption == Spurious \in BOOLEAN /\ PausedSave \in BOOLEAN

VARIABLES
    pf,          \* where the PFIFO thread is
    cpu,         \* where the vCPU is
    prog,        \* what the "ui" and "main" threads still have to do
    pfifoLock, pgraphLock, bql, mainLoopLock,   \* owners
    halt,        \* pfifo.halt
    kick,        \* pfifo.fifo_kick
    work,        \* methods left to push
    flushPending, flushComplete,   \* pgraph.flush_pending, .flush_complete
    dirtyPending, dirtyComplete,   \* vk download_dirty_surfaces_pending, dirty_surfaces_download_complete
    loadPending, loadComplete,     \* vk downloads_pending, .downloads_complete
    wasHalted,   \* nv2a_reset's local
    vmRunning,   \* runstate_is_running()
    vcpuStop,    \* pause_all_vcpus is in force
    frames       \* frames begun since the PFIFO thread last parked

locks  == <<pfifoLock, pgraphLock, bql, mainLoopLock>>
events == <<flushPending, flushComplete, dirtyPending, dirtyComplete, loadPending,
            loadComplete>>
vm     == <<wasHalted, vmRunning, vcpuStop, frames>>
vars   == <<pf, cpu, prog, locks, halt, kick, work, events, vm>>

Threads == {"ui", "main"}
Owner   == Threads \cup {"pf", "cpu", "none"}
PfStates == {"top", "pending", "relock", "decide", "pusher", "method", "irq", "irq_relock",
             "method_done", "end", "parked", "woken"}

(* The blocking points of nv2a_lock_fifo, and of the code that uses it.    *)
LockFifo  == <<"lock_fifo", "idle_wait", "idle_woken", "bql_under_lock", "pgraph_lock">>
ResetFifo == LockFifo \o <<"reset_halt", "unlock_fifo", "bql_unlock", "wait_flush", "bql_lock">>
             \o LockFifo \o <<"reset_clear", "unlock_fifo">>

Enter == <<"main_loop_lock", "bql_lock">>
Leave == <<"bql_unlock", "main_loop_unlock">>
StopVcpus == <<"pause_all_vcpus", "vcpus_paused">>

(* vm_start: nv2a_vm_state_change(RUNNING), then resume_all_vcpus.         *)
VmStart == LockFifo \o <<"running", "unlock_fifo", "resume_all_vcpus">>

(* do_vm_stop(SAVE_VM): the FIFO stays locked until nv2a_post_save.        *)
SaveStop == StopVcpus \o LockFifo \o <<"save_halt", "unlock_fifo", "bql_unlock", "wait_dirty",
                                       "bql_lock">> \o LockFifo

Frame == <<"frame", "wait_download">>
Scale == Enter \o <<"bql_unlock", "scale_halt", "scale_dirty", "kick", "wait_dirty">>
               \o <<"scale_flush", "kick", "wait_flush", "scale_resume", "bql_lock">> \o Leave
Pause == Enter \o StopVcpus \o Leave
Resume == Enter \o VmStart \o Leave

(* save_snapshot.  do_vm_stop notifies only a machine that was running.    *)
Save(running) ==
    IF running THEN Enter \o SaveStop \o <<"save", "unlock_fifo">> \o VmStart \o Leave
               ELSE Enter \o <<"save", "unlock_fifo">> \o Leave

(* xemu_snapshots_load and load_snapshot: stop, reset, pre_load, post_load. *)
Load(running) ==
    Enter \o (IF running THEN StopVcpus \o LockFifo \o <<"restore_halt", "unlock_fifo">>
                         ELSE <<>>)
          \o ResetFifo \o LockFifo \o <<"load", "post_load">>
          \o (IF running THEN VmStart ELSE <<>>) \o Leave

(* The main loop's reset request.                                          *)
MutResetLive == Enter \o ResetFifo \o Leave
Reset == Enter \o StopVcpus \o ResetFifo \o <<"resume_all_vcpus">> \o Leave

Init ==
    /\ pf = "woken" /\ cpu = "run" /\ prog = [t \in Threads |-> <<>>]
    /\ pfifoLock = "none" /\ pgraphLock = "none" /\ bql = "none" /\ mainLoopLock = "none"
    /\ halt = FALSE /\ kick = FALSE /\ work = 0
    /\ flushPending = FALSE /\ flushComplete = FALSE /\ dirtyPending = FALSE
    /\ dirtyComplete = FALSE /\ loadPending = FALSE /\ loadComplete = FALSE
    /\ wasHalted = FALSE /\ vmRunning = TRUE /\ vcpuStop = FALSE /\ frames = 0
-------------------------------------------------------------------------------
(* pfifo_kick, and the broadcast on fifo_cond it shares with lock_fifo.    *)
Broadcast == pf' = IF pf = "parked" THEN "woken" ELSE pf
Kick == kick' = TRUE /\ Broadcast
-------------------------------------------------------------------------------
(* pfifo_thread.                                                           *)

PfRest == <<cpu, bql, mainLoopLock, pgraphLock, halt, vm>>

(* The top of the loop: pgraph_vk_process_pending trades its lock only if  *)
(* something is pending.                                                   *)
PfTop ==
    /\ pf = "top" /\ kick' = FALSE
    /\ IF loadPending \/ dirtyPending \/ flushPending
       THEN pf' = "pending" /\ pfifoLock' = "none"
       ELSE pf' = "decide" /\ UNCHANGED pfifoLock
    /\ UNCHANGED <<PfRest, prog, work, events>>

Completes(pending, complete) == IF pending THEN TRUE ELSE complete

(* Under pgraph.lock: downloads, dirty surfaces, flush, each then flagged. *)
PfPending ==
    /\ pf = "pending" /\ pgraphLock = "none"
    /\ loadPending' = FALSE /\ loadComplete' = Completes(loadPending, loadComplete)
    /\ dirtyPending' = FALSE /\ dirtyComplete' = Completes(dirtyPending, dirtyComplete)
    /\ flushPending' = FALSE /\ flushComplete' = Completes(flushPending, flushComplete)
    /\ pf' = "relock"
    /\ UNCHANGED <<PfRest, prog, pfifoLock, kick, work>>

PfRelock ==
    /\ pf = "relock" /\ pfifoLock = "none"
    /\ pfifoLock' = "pf" /\ pf' = "decide"
    /\ UNCHANGED <<PfRest, prog, kick, work, events>>

MutIgnoreHalt ==
    /\ pf = "decide" /\ pf' = "pusher"
    /\ UNCHANGED <<PfRest, prog, pfifoLock, kick, work, events>>
PfDecide ==
    /\ pf = "decide" /\ pf' = IF halt THEN "end" ELSE "pusher"
    /\ UNCHANGED <<PfRest, prog, pfifoLock, kick, work, events>>

(* The pusher hands a method to the puller, which releases pfifo.lock.     *)
MutPushEmpty ==
    /\ pf = "pusher"
    /\ pf' = "method" /\ pfifoLock' = "none"
    /\ UNCHANGED <<PfRest, prog, kick, work, events>>
PfPush ==
    /\ pf = "pusher" /\ work > 0
    /\ pf' = "method" /\ pfifoLock' = "none"
    /\ UNCHANGED <<PfRest, prog, kick, work, events>>

(* It stops with nothing left, or stalled; halt it does not look at.       *)
PfPushEnd ==
    /\ pf = "pusher" /\ pf' = "end"
    /\ UNCHANGED <<PfRest, prog, pfifoLock, kick, work, events>>

(* A method executes under pgraph.lock; one that raises an interrupt gives *)
(* the lock up for the BQL and takes it again.                             *)
PfMethod ==
    /\ pf = "method" /\ pgraphLock = "none"
    /\ pf' \in {"method_done", "irq"}
    /\ UNCHANGED <<PfRest, prog, pfifoLock, kick, work, events>>
PfIrq ==
    /\ pf = "irq" /\ bql = "none" /\ pf' = "irq_relock"
    /\ UNCHANGED <<PfRest, prog, pfifoLock, kick, work, events>>
PfIrqRelock ==
    /\ pf = "irq_relock" /\ pgraphLock = "none" /\ pf' = "method_done"
    /\ UNCHANGED <<PfRest, prog, pfifoLock, kick, work, events>>
PfMethodDone ==
    /\ pf = "method_done" /\ pfifoLock = "none"
    /\ pfifoLock' = "pf" /\ pf' = "pusher"
    /\ work' = work - 1
    /\ UNCHANGED <<PfRest, prog, kick, events>>

PfAgain ==
    /\ pf = "end" /\ kick /\ pf' = "top"
    /\ UNCHANGED <<PfRest, prog, pfifoLock, kick, work, events>>

(* Signal one waiter on fifo_idle_cond, if there is one, and park.         *)
IdleWaiters == {t \in Threads : prog[t] # <<>> /\ Head(prog[t]) = "idle_wait"}
MutParkSilent == UNCHANGED prog
SignalIdle == IF IdleWaiters = {} THEN UNCHANGED prog
              ELSE \E t \in IdleWaiters : prog' = [prog EXCEPT ![t] = Tail(@)]
PfPark ==
    /\ pf = "end" /\ ~kick
    /\ SignalIdle
    /\ pf' = "parked" /\ pfifoLock' = "none" /\ frames' = 0
    /\ UNCHANGED <<cpu, bql, mainLoopLock, pgraphLock, halt, kick, work, events, wasHalted,
                   vmRunning, vcpuStop>>

PfWake ==
    /\ pf = "woken" /\ pfifoLock = "none"
    /\ pfifoLock' = "pf" /\ pf' = "top"
    /\ UNCHANGED <<PfRest, prog, kick, work, events>>

PfStep == \/ PfTop \/ PfPending \/ PfRelock \/ PfDecide \/ PfPush \/ PfPushEnd \/ PfMethod
          \/ PfIrq \/ PfIrqRelock \/ PfMethodDone \/ PfAgain \/ PfPark \/ PfWake
-------------------------------------------------------------------------------
(* The vCPU: a register write takes the BQL, pfifo.lock, pgraph.lock; an   *)
(* access to a rendered surface asks for its download and waits for it.    *)

CpuRest == <<prog, mainLoopLock, halt, vm>>

CpuEnter ==
    /\ cpu = "run" /\ ~vcpuStop /\ bql = "none"
    /\ bql' = "cpu" /\ cpu' = "write"
    /\ UNCHANGED <<CpuRest, pf, pfifoLock, pgraphLock, kick, work, events>>
CpuLock ==
    /\ cpu = "write" /\ pfifoLock = "none"
    /\ pfifoLock' = "cpu" /\ cpu' = "locked"
    /\ UNCHANGED <<CpuRest, pf, pgraphLock, bql, kick, work, events>>
CpuWrite ==
    /\ cpu = "locked" /\ pgraphLock = "none"
    /\ Kick /\ work' \in {work, MaxWork}
    /\ pfifoLock' = "none" /\ bql' = "none" /\ cpu' = "run"
    /\ UNCHANGED <<CpuRest, pgraphLock, events>>

(* surface_access_callback, and the UI's pgraph_vk_wait_for_surface_download. *)
AskDownload ==
    /\ pfifoLock = "none"
    /\ loadComplete' = FALSE /\ loadPending' = TRUE /\ Kick
    /\ UNCHANGED <<flushPending, flushComplete, dirtyPending, dirtyComplete>>

CpuAccess ==
    /\ cpu = "run" /\ ~vcpuStop /\ AskDownload /\ cpu' = "access"
    /\ UNCHANGED <<CpuRest, pfifoLock, pgraphLock, bql, work>>
CpuAccessed ==
    /\ cpu = "access" /\ loadComplete /\ cpu' = "run"
    /\ UNCHANGED <<CpuRest, pf, pfifoLock, pgraphLock, bql, kick, work, events>>

CpuFinish == CpuLock \/ CpuWrite \/ CpuAccessed
CpuStep == CpuEnter \/ CpuAccess \/ CpuFinish
-------------------------------------------------------------------------------
(* The operations of the UI and main-loop threads.                         *)

Do(t, op) == /\ prog[t] # <<>> /\ Head(prog[t]) = op
             /\ prog' = [prog EXCEPT ![t] = Tail(@)]

MutMainLoopLock(t) ==
    /\ Do(t, "main_loop_lock")
    /\ UNCHANGED <<pf, cpu, locks, halt, kick, work, events, vm>>
LockMainLoop(t) ==
    /\ Do(t, "main_loop_lock") /\ mainLoopLock = "none" /\ mainLoopLock' = t
    /\ UNCHANGED <<pf, cpu, pfifoLock, pgraphLock, bql, halt, kick, work, events, vm>>
UnlockMainLoop(t) ==
    /\ Do(t, "main_loop_unlock") /\ mainLoopLock' = "none"
    /\ UNCHANGED <<pf, cpu, pfifoLock, pgraphLock, bql, halt, kick, work, events, vm>>

(* bql_lock, on its own and inside nv2a_lock_fifo.                         *)
LockBql(t) ==
    /\ Do(t, "bql_lock") \/ Do(t, "bql_under_lock")
    /\ bql = "none" /\ bql' = t
    /\ UNCHANGED <<pf, cpu, pfifoLock, pgraphLock, mainLoopLock, halt, kick, work, events, vm>>
UnlockBql(t) ==
    /\ Do(t, "bql_unlock") /\ bql' = "none"
    /\ UNCHANGED <<pf, cpu, pfifoLock, pgraphLock, mainLoopLock, halt, kick, work, events, vm>>

(* do_vm_stop and the main loop: pause_all_vcpus waits on the BQL.         *)
PauseVcpus(t) ==
    /\ Do(t, "pause_all_vcpus")
    /\ vcpuStop' = TRUE /\ bql' = "none"
    /\ vmRunning' = (t = "main" /\ vmRunning)
    /\ UNCHANGED <<pf, cpu, pfifoLock, pgraphLock, mainLoopLock, halt, kick, work, events,
                   wasHalted, frames>>
VcpusPaused(t) ==
    /\ Do(t, "vcpus_paused") /\ cpu = "run" /\ bql = "none" /\ bql' = t
    /\ UNCHANGED <<pf, cpu, pfifoLock, pgraphLock, mainLoopLock, halt, kick, work, events, vm>>
ResumeVcpus(t) ==
    /\ Do(t, "resume_all_vcpus")
    /\ vmRunning' = (t = "ui" \/ vmRunning)
    /\ vcpuStop' = ~vmRunning'
    /\ UNCHANGED <<pf, cpu, locks, halt, kick, work, events, wasHalted, frames>>

(* nv2a_lock_fifo: broadcast, drop the BQL, wait for the idle signal.      *)
LockFifoWait(t) ==
    /\ Do(t, "lock_fifo") /\ pfifoLock = "none"
    /\ Broadcast /\ bql' = "none"
    /\ UNCHANGED <<cpu, pfifoLock, pgraphLock, mainLoopLock, halt, kick, work, events, vm>>
(* POSIX lets a condition wait return unsignalled, and there is no loop.   *)
SpuriousWake(t) ==
    /\ Spurious /\ Do(t, "idle_wait")
    /\ UNCHANGED <<pf, cpu, locks, halt, kick, work, events, vm>>
LockFifoWoken(t) ==
    /\ Do(t, "idle_woken") /\ pfifoLock = "none" /\ pfifoLock' = t
    /\ UNCHANGED <<pf, cpu, pgraphLock, bql, mainLoopLock, halt, kick, work, events, vm>>
MutNoPgraphLock(t) ==
    /\ Do(t, "pgraph_lock")
    /\ UNCHANGED <<pf, cpu, locks, halt, kick, work, events, vm>>
LockFifoPgraph(t) ==
    /\ Do(t, "pgraph_lock") /\ pgraphLock = "none" /\ pgraphLock' = t
    /\ UNCHANGED <<pf, cpu, pfifoLock, bql, mainLoopLock, halt, kick, work, events, vm>>

(* nv2a_unlock_fifo, and nv2a_post_save which is nothing else.             *)
UnlockFifo(t) ==
    /\ Do(t, "unlock_fifo") /\ Kick
    /\ pfifoLock' = "none" /\ pgraphLock' = "none"
    /\ UNCHANGED <<cpu, bql, mainLoopLock, halt, work, events, vm>>

AskFlush == flushComplete' = FALSE /\ flushPending' = TRUE
            /\ UNCHANGED <<dirtyPending, dirtyComplete, loadPending, loadComplete>>
AskDirty == dirtyComplete' = FALSE /\ dirtyPending' = TRUE
            /\ UNCHANGED <<flushPending, flushComplete, loadPending, loadComplete>>

ResetHalt(t) ==
    /\ Do(t, "reset_halt") /\ wasHalted' = halt /\ halt' = TRUE /\ AskFlush
    /\ UNCHANGED <<pf, cpu, locks, kick, work, vmRunning, vcpuStop, frames>>
ResetClear(t) ==
    /\ Do(t, "reset_clear") /\ halt' = wasHalted /\ work' = 0
    /\ wasHalted' = FALSE   \* the local dies with the call
    /\ UNCHANGED <<pf, cpu, locks, kick, events, vmRunning, vcpuStop, frames>>
SaveHalt(t) ==
    /\ Do(t, "save_halt") /\ halt' = TRUE /\ AskDirty
    /\ UNCHANGED <<pf, cpu, locks, kick, work, vm>>
SaveState(t) ==
    /\ Do(t, "save")
    /\ UNCHANGED <<pf, cpu, locks, halt, kick, work, events, vm>>
RestoreHalt(t) ==
    /\ Do(t, "restore_halt") /\ halt' = TRUE
    /\ UNCHANGED <<pf, cpu, locks, kick, work, events, vm>>
LoadState(t) ==
    /\ Do(t, "load") /\ work' \in 0 .. MaxWork
    /\ UNCHANGED <<pf, cpu, locks, halt, kick, events, vm>>
PostLoad(t) ==
    /\ Do(t, "post_load") /\ flushPending' = TRUE /\ Kick
    /\ pfifoLock' = "none" /\ pgraphLock' = "none"
    /\ UNCHANGED <<cpu, bql, mainLoopLock, halt, work, flushComplete, dirtyPending,
                   dirtyComplete, loadPending, loadComplete, vm>>
Running(t) ==
    /\ Do(t, "running") /\ halt' = FALSE
    /\ UNCHANGED <<pf, cpu, locks, kick, work, events, vm>>

WaitFlush(t) == /\ Do(t, "wait_flush") /\ flushComplete
                /\ UNCHANGED <<pf, cpu, locks, halt, kick, work, events, vm>>
WaitDirty(t) == /\ Do(t, "wait_dirty") /\ dirtyComplete
                /\ UNCHANGED <<pf, cpu, locks, halt, kick, work, events, vm>>
WaitDownload(t) == /\ Do(t, "wait_download") /\ loadComplete
                   /\ UNCHANGED <<pf, cpu, locks, halt, kick, work, events, vm>>

(* pgraph_vk_set_surface_scale_factor: each step takes the one lock it     *)
(* needs and releases it again.                                            *)
ScaleHalt(t) ==
    /\ Do(t, "scale_halt") /\ pfifoLock = "none" /\ halt' = TRUE
    /\ UNCHANGED <<pf, cpu, locks, kick, work, events, vm>>
ScaleAsk(t) ==
    /\ pgraphLock = "none"
    /\ \/ Do(t, "scale_dirty") /\ AskDirty
       \/ Do(t, "scale_flush") /\ AskFlush
    /\ UNCHANGED <<pf, cpu, locks, halt, kick, work, vm>>
ScaleKick(t) ==
    /\ Do(t, "kick") /\ pfifoLock = "none" /\ Kick
    /\ UNCHANGED <<cpu, locks, halt, work, events, vm>>
ScaleResume(t) ==
    /\ Do(t, "scale_resume") /\ pfifoLock = "none" /\ halt' = FALSE /\ Kick
    /\ UNCHANGED <<cpu, locks, work, events, vm>>

AskFrame(t) ==
    /\ Do(t, "frame") /\ AskDownload
    /\ UNCHANGED <<cpu, locks, halt, work, vm>>

OpStep(t) ==
    \/ LockMainLoop(t) \/ UnlockMainLoop(t) \/ LockBql(t) \/ UnlockBql(t)
    \/ PauseVcpus(t) \/ VcpusPaused(t) \/ ResumeVcpus(t)
    \/ LockFifoWait(t) \/ LockFifoWoken(t) \/ LockFifoPgraph(t) \/ UnlockFifo(t)
    \/ ResetHalt(t) \/ ResetClear(t) \/ SaveHalt(t) \/ SaveState(t) \/ RestoreHalt(t)
    \/ LoadState(t) \/ PostLoad(t) \/ Running(t)
    \/ WaitFlush(t) \/ WaitDirty(t) \/ WaitDownload(t)
    \/ ScaleHalt(t) \/ ScaleAsk(t) \/ ScaleKick(t) \/ ScaleResume(t) \/ AskFrame(t)
-------------------------------------------------------------------------------
(* What the threads set out to do.                                         *)

Begin(t, job) == /\ prog[t] = <<>> /\ prog' = [prog EXCEPT ![t] = job]
                 /\ UNCHANGED <<pf, cpu, locks, halt, kick, work, events, wasHalted,
                                vmRunning, vcpuStop>>

UiBegins ==
    \/ /\ frames < MaxFrames /\ frames' = frames + 1
       /\ Begin("ui", Frame)
    \/ /\ UNCHANGED frames
       /\ \/ \E job \in {Scale, Load(vmRunning)} : Begin("ui", job)
          \/ vmRunning /\ Begin("ui", Pause)
          \/ ~vmRunning /\ Begin("ui", Resume)
          \/ (vmRunning \/ PausedSave) /\ Begin("ui", Save(vmRunning))
MainBegins == Begin("main", Reset) /\ UNCHANGED frames

Next == \/ PfStep \/ CpuStep \/ UiBegins \/ MainBegins
        \/ \E t \in Threads : OpStep(t) \/ SpuriousWake(t)

Spec == Init /\ [][Next]_vars

(* Threads are scheduled, and a thread that waits for a mutex or an event  *)
(* is not passed over for ever by the others (strong fairness).  No job    *)
(* has to begin, and no wake-up is spurious for the sake of progress.      *)
FairSpec == /\ Spec /\ SF_vars(PfStep) /\ SF_vars(CpuFinish)
            /\ \A t \in Threads : SF_vars(OpStep(t))
-------------------------------------------------------------------------------
(* Type correctness; in particular the puller never executes more methods  *)
(* than the guest has pushed, across halts, resets and loads.              *)
TypeOK ==
    /\ pf \in PfStates /\ cpu \in {"run", "write", "locked", "access"}
    /\ {pfifoLock, pgraphLock, bql, mainLoopLock} \subseteq Owner
    /\ work \in 0 .. MaxWork /\ frames \in 0 .. MaxFrames
    /\ {halt, kick, wasHalted, vmRunning, vcpuStop} \subseteq BOOLEAN
    /\ {flushPending, flushComplete, dirtyPending, dirtyComplete, loadPending,
        loadComplete} \subseteq BOOLEAN

At(t, op) == prog[t] # <<>> /\ Head(prog[t]) = op
InMethod  == pf \in {"method", "irq", "irq_relock", "method_done"}

(* No method is in flight while the FIFO's state is cleared by nv2a_reset, *)
(* written to a snapshot or overwritten from one.  lock_fifo alone does    *)
(* not give this: its wait has no predicate, and the woken thread can find *)
(* the puller out of its locks again.  Halting and then waiting for a      *)
(* flush or a download, which only the top of the loop performs, does.     *)
Quiescent ==
    \A t \in Threads :
        At(t, "reset_clear") \/ At(t, "save") \/ At(t, "load") => ~InMethod

(* Whoever unlocks the FIFO holds both of its locks.                       *)
UnlockedByOwner ==
    \A t \in Threads : At(t, "unlock_fifo") \/ At(t, "post_load")
                           => pfifoLock = t /\ pgraphLock = t

(* nv2a_lock_fifo takes the BQL with pfifo.lock held; register writes take *)
(* them in the opposite order.  The two never meet.                        *)
NoLockInversion ==
    \A t \in Threads : At(t, "bql_under_lock") => cpu # "write"

(* A scale change and a reset, a save or a load never overlap, though the  *)
(* scale change gives up the BQL: halt is released by the one that set it. *)
HaltedThroughout ==
    \A t \in Threads :
        At(t, "reset_clear") \/ At(t, "save") \/ At(t, "scale_resume") => halt

(* Every job of the UI and main-loop threads ends: no wake-up on           *)
(* fifo_idle_cond is lost, no event is set before it is reset, no two      *)
(* threads wait for each other; and no vCPU hangs, since most jobs wait    *)
(* for the vCPU to pause.                                                  *)
JobsEnd == \A t \in Threads : prog[t] # <<>> ~> prog[t] = <<>>

===============================================================================
