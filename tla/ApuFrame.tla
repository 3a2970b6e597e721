-------------------------------- MODULE ApuFrame --------------------------------
(* The APU's frame thread (hw/xbox/mcpx/apu/apu.c) with the threads around  *)
(* it: the vCPU that writes its registers without d->lock, the host's audio *)
(* callback that drains the monitor FIFO, and the main thread that resets,  *)
(* saves and loads the device.  What a frame mixes is VoiceWork's subject;  *)
(* here a frame may trap, notify the guest or stall on a locked voice.      *)
EXTENDS Naturals, FiniteSets, FiniteSetsExt

CONSTANTS
    FramesPerBuf,  \* 8: calls of se_frame that fill monitor.frame_buf
    FrameBytes,    \* sizeof(monitor.frame_buf)
    FifoFrames,    \* fifo_frames of monitor_init: 3 to 128
    DeviceBytes,   \* what the audio device asks for at a time
    IdleAtZero     \* the "voice" at guest address zero is not marked active

ASSUME SizesAssumption ==
    /\ FramesPerBuf \in Nat \ {0, 1} /\ FrameBytes \in Nat \ {0}
    /\ FifoFrames \in Nat \ {0, 1, 2} /\ DeviceBytes \in Nat \ {0}
ASSUME GuestAssumption == IdleAtZero \in BOOLEAN

(* monitor_init: the watermarks of the throttle.                            *)
Capacity   == FifoFrames * FrameBytes
Drain      == Max({DeviceBytes, FrameBytes})
QueuedHighUncapped == 3 * Drain
QueuedHigh == Min({3 * Drain, Max({Capacity - FrameBytes, FrameBytes})})
QueuedLow  == Min({Drain, QueuedHigh})

VARIABLES
    regs,     \* the registers that matter: see Registers
    line,     \* the PCI interrupt line
    setIrq,   \* d->set_irq
    pc,       \* where the frame thread is
    div,      \* d->ep_frame_div, modulo FramesPerBuf
    used,     \* bytes in monitor.fifo
    failed,   \* an assertion has failed
    cpu,      \* "idle", or "ep": the vCPU waits in ep_write for d->lock
    running,  \* runstate_is_running()
    main      \* the main thread's operation: [op, pc, was]

vars == <<regs, line, setIrq, pc, div, used, failed, cpu, running, main>>

Sources   == {"fet", "fev"}           \* ISTS: front-end trap; voice and notify
Registers == [secOn : BOOLEAN,        \* SECTL.XCNTMODE is not OFF
              fectl : {"free", "halted", "trapped"},  \* FECTL.FEMETHMODE
              forced : BOOLEAN,       \* FETFORCE1 has SE2FE_IDLE_VOICE
              ists : SUBSET Sources, ien : BOOLEAN]   \* IEN: all sources or none
ZeroRegs  == [secOn |-> FALSE, fectl |-> "free", forced |-> FALSE, ists |-> {},
              ien |-> FALSE]

(* Where the frame thread has d->lock, and where it waits on d->cond.       *)
Holding   == {"top", "check", "park", "throttle", "frame", "mix"}
Waiting   == {"wait", "throttled", "sleep", "stalled"}
LockFree  == pc \notin Holding /\ main.pc # "locked"
BqlFree   == main.pc = "idle" /\ cpu = "idle"
Blocked   == ~regs.secOn \/ regs.fectl # "free"

Init ==
    /\ regs = ZeroRegs /\ line = FALSE /\ setIrq = FALSE
    /\ pc = "relock" /\ div = 0 /\ used = 0 /\ failed = FALSE
    /\ cpu = "idle" /\ running = TRUE
    /\ main = [op |-> "none", pc |-> "idle", was |-> TRUE]
--------------------------------------------------------------------------------
(* update_irq on registers r: a front end that is not running freely counts *)
(* as trapped, for the mask has all three bits of the mode.                 *)
Updated(r) == IF r.fectl # "free" THEN [r EXCEPT !.ists = @ \cup {"fet"}] ELSE r
UpdateIrq(r) == regs' = Updated(r) /\ line' = (r.ien /\ Updated(r).ists # {})

(* qemu_cond_signal and qemu_cond_broadcast on d->cond: the frame thread is *)
(* the only one that waits; woken, it still has to get d->lock.             *)
After == [wait |-> "relock", throttled |-> "rethrottle", sleep |-> "rested",
          stalled |-> "available"]
Signal == pc' = IF pc \in Waiting THEN After[pc] ELSE pc
--------------------------------------------------------------------------------
(* mcpx_apu_frame_thread.                                                   *)
Here(p, q) == pc = p /\ pc' = q
ThreadOnly == UNCHANGED <<cpu, running, main>>

FrameTopTrapOnly ==
    /\ Here("top", IF setIrq THEN "irq" ELSE "check")
    /\ UNCHANGED <<regs, line, setIrq, div, used, failed>> /\ ThreadOnly
FrameTopForgets ==
    /\ setIrq' = Blocked
    /\ Here("top", IF setIrq' THEN "irq" ELSE "check")
    /\ UNCHANGED <<regs, line, div, used, failed>> /\ ThreadOnly
FrameTop ==
    /\ setIrq' = (setIrq \/ Blocked)
    /\ Here("top", IF setIrq' THEN "irq" ELSE "check")
    /\ UNCHANGED <<regs, line, div, used, failed>> /\ ThreadOnly

(* d->lock given up, the BQL taken for update_irq, then d->lock again.      *)
FrameIrq ==
    /\ Here("irq", "served") /\ BqlFree /\ UpdateIrq(regs)
    /\ UNCHANGED <<setIrq, div, used, failed>> /\ ThreadOnly
FrameServed ==
    /\ Here("served", "check") /\ LockFree /\ setIrq' = FALSE
    /\ UNCHANGED <<regs, line, div, used, failed>> /\ ThreadOnly

FrameCheck ==
    /\ Here("check", IF Blocked THEN "park" ELSE "throttle")
    /\ UNCHANGED <<regs, line, setIrq, div, used, failed>> /\ ThreadOnly

(* Between the check and the wait a signal of the vCPU's is lost.           *)
FramePark ==
    /\ Here("park", "wait")
    /\ UNCHANGED <<regs, line, setIrq, div, used, failed>> /\ ThreadOnly

(* throttle: wait while the FIFO is too full, then sleep until the frame's  *)
(* time unless the FIFO runs low.                                           *)
Full == used >= QueuedHigh
Throttle ==
    /\ IF div # 0 THEN Here("throttle", "frame")
       ELSE IF Full THEN Here("throttle", "throttled")
       ELSE Here("throttle", "frame") \/ (used > QueuedLow /\ Here("throttle", "sleep"))
    /\ UNCHANGED <<regs, line, setIrq, div, used, failed>> /\ ThreadOnly

(* Every wait of the throttle's is timed.                                   *)
Timeout ==
    /\ pc \in {"throttled", "sleep"} /\ Signal
    /\ UNCHANGED <<regs, line, setIrq, div, used, failed>> /\ ThreadOnly

Resumed == [relock |-> "top", rethrottle |-> "throttle", rested |-> "frame",
            available |-> "frame"]
FrameRelock ==
    /\ pc \in DOMAIN Resumed /\ LockFree /\ pc' = Resumed[pc]
    /\ UNCHANGED <<regs, line, setIrq, div, used, failed>> /\ ThreadOnly

(* mcpx_apu_vp_frame: a voice in a list is idle (fe_method SE2FE_IDLE_VOICE *)
(* with its assertion) ...                                                  *)
VoiceIdle ==
    /\ pc = "frame" /\ (regs.forced \/ IdleAtZero)
    /\ IF regs.forced THEN regs' = [regs EXCEPT !.fectl = "trapped"] /\ setIrq' = TRUE
                      ELSE UNCHANGED <<regs, setIrq>>
    /\ failed' = (failed \/ ~regs.forced)
    /\ UNCHANGED <<line, pc, div, used>> /\ ThreadOnly

(* ... or locked by the guest, which suspends the frame and frees d->lock.  *)
VoiceStall ==
    /\ Here("frame", "stalled")
    /\ UNCHANGED <<regs, line, setIrq, div, used, failed>> /\ ThreadOnly

(* voice_process on a worker: the voice ends and the guest is notified.     *)
VoiceEnds ==
    /\ pc = "mix" /\ regs' = [regs EXCEPT !.ists = @ \cup {"fev"}] /\ setIrq' = TRUE
    /\ UNCHANGED <<line, pc, div, used, failed>> /\ ThreadOnly
FrameMix ==
    /\ Here("frame", "mix")
    /\ UNCHANGED <<regs, line, setIrq, div, used, failed>> /\ ThreadOnly

(* The end of se_frame: every FramesPerBuf-th time the buffer goes out.     *)
FrameEnd ==
    /\ Here("mix", "top")
    /\ LET push == div + 1 = FramesPerBuf
       IN  /\ failed' = (failed \/ (push /\ Capacity - used < FrameBytes))
           /\ used' = IF push THEN Min({used + FrameBytes, Capacity}) ELSE used
    /\ div' = (div + 1) % FramesPerBuf
    /\ UNCHANGED <<regs, line, setIrq>> /\ ThreadOnly

FrameLock == FrameIrq \/ FrameServed \/ FrameRelock
FrameRun  == FrameTop \/ FrameCheck \/ FramePark \/ Throttle \/ Timeout \/ FrameMix \/ FrameEnd
--------------------------------------------------------------------------------
(* monitor_sink_cb: silence while the machine does not run.                 *)
AudioCallbackUnclamped ==
    /\ running /\ used' = used - DeviceBytes /\ Signal
    /\ UNCHANGED <<regs, line, setIrq, div, failed, cpu, running, main>>
AudioCallbackSilent ==
    /\ running /\ used' = used - Min({DeviceBytes, used})
    /\ UNCHANGED <<regs, line, setIrq, pc, div, failed, cpu, running, main>>
AudioCallbackPaused ==
    /\ used' = used - Min({DeviceBytes, used}) /\ Signal
    /\ UNCHANGED <<regs, line, setIrq, div, failed, cpu, running, main>>
AudioCallback ==
    /\ running /\ used' = used - Min({DeviceBytes, used}) /\ Signal
    /\ UNCHANGED <<regs, line, setIrq, div, failed, cpu, running, main>>
--------------------------------------------------------------------------------
(* The vCPU: register writes under the BQL, without d->lock.                *)
CpuMay == running /\ BqlFree
CpuOnly == UNCHANGED <<div, used, failed, cpu, running, main>>

WriteIsts(ack) ==
    /\ CpuMay /\ UpdateIrq([regs EXCEPT !.ists = @ \ ack]) /\ Signal
    /\ UNCHANGED setIrq /\ CpuOnly
WriteFectl(mode) ==
    /\ CpuMay /\ regs' = [regs EXCEPT !.fectl = mode] /\ Signal
    /\ UNCHANGED <<line, setIrq>> /\ CpuOnly
(* The driver asks for idle-voice traps before it turns the engine on.      *)
WriteSectl(on) ==
    /\ CpuMay /\ (on => regs.forced) /\ regs' = [regs EXCEPT !.secOn = on] /\ Signal
    /\ UNCHANGED <<line, setIrq>> /\ CpuOnly
(* IEN and FETFORCE1 are plain registers: nothing follows from the write.   *)
WriteIen(on) ==
    /\ CpuMay /\ regs' = [regs EXCEPT !.ien = on]
    /\ UNCHANGED <<line, setIrq, pc>> /\ CpuOnly
WriteFetforce ==
    /\ CpuMay /\ regs' = [regs EXCEPT !.forced = TRUE]
    /\ UNCHANGED <<line, setIrq, pc>> /\ CpuOnly

(* VOICE_OFF: voice_off and set_notify_status, without d->lock or a signal. *)
CpuVoiceOff ==
    /\ CpuMay /\ regs' = [regs EXCEPT !.ists = @ \cup {"fev"}] /\ setIrq' = TRUE
    /\ UNCHANGED <<line, pc>> /\ CpuOnly

(* Unlocking a voice signals d->cond.                                       *)
CpuVoiceUnlock == CpuMay /\ Signal /\ UNCHANGED <<regs, line, setIrq>> /\ CpuOnly

(* ep_write of EPRST restarts the frame count, under d->lock and the BQL.   *)
CpuEpReset ==
    /\ CpuMay /\ cpu' = "ep"
    /\ UNCHANGED <<regs, line, setIrq, pc, div, used, failed, running, main>>
CpuEpLocked ==
    /\ cpu = "ep" /\ LockFree /\ div' = 0 /\ cpu' = "idle"
    /\ UNCHANGED <<regs, line, setIrq, pc, used, failed, running, main>>

CpuStep ==
    \/ \E ack \in SUBSET Sources : WriteIsts(ack)
    \/ \E mode \in {"free", "halted"} : WriteFectl(mode)
    \/ \E on \in BOOLEAN : WriteSectl(on) \/ WriteIen(on)
    \/ WriteFetforce \/ CpuVoiceOff \/ CpuVoiceUnlock \/ CpuEpReset
--------------------------------------------------------------------------------
(* The main thread, which keeps the BQL from the start of an operation to   *)
(* its end.                                                                 *)
MainOnly == UNCHANGED <<div, used, failed, cpu>>

TogglePause ==
    /\ BqlFree /\ running' = ~running
    /\ UNCHANGED <<regs, line, setIrq, pc, main>> /\ MainOnly

(* Save stops the machine first, which runs mcpx_apu_vm_state_change; a     *)
(* machine that is already paused skips it (see FifoSync).  Load stops it   *)
(* too; a system reset pauses the vCPUs and leaves the run state alone.     *)
Begin(op) ==
    /\ BqlFree /\ (op = "save" => running)
    /\ main' = [op |-> op, pc |-> IF op = "save" THEN "lock" ELSE "reset", was |-> running]
    /\ running' = (running /\ op = "reset")
    /\ UNCHANGED <<regs, line, setIrq, pc>> /\ MainOnly

(* mcpx_apu_reset: lock, clear, signal, unlock.  The PCI bus lowers the     *)
(* line of a device it resets.                                              *)
MainReset ==
    /\ main.pc = "reset" /\ LockFree /\ regs' = ZeroRegs /\ setIrq' = FALSE /\ Signal
    /\ IF main.op = "reset"
       THEN line' = FALSE /\ main' = [main EXCEPT !.op = "none", !.pc = "idle"]
       ELSE line' = line  /\ main' = [main EXCEPT !.pc = "lock"]
    /\ UNCHANGED running /\ MainOnly

MainLock ==
    /\ main.pc = "lock" /\ LockFree /\ main' = [main EXCEPT !.pc = "locked"]
    /\ UNCHANGED <<regs, line, setIrq, pc, running>> /\ MainOnly

(* Saved or loaded; mcpx_apu_post_save and post_load signal and unlock.     *)
Done == /\ main' = [main EXCEPT !.op = "none", !.pc = "idle"] /\ running' = main.was
        /\ Signal /\ UNCHANGED setIrq /\ MainOnly
SaveDone == main.pc = "locked" /\ main.op = "save" /\ Done /\ UNCHANGED <<regs, line>>
LoadDone ==
    /\ main.pc = "locked" /\ main.op = "load" /\ Done
    /\ regs' \in {r \in Registers : r.secOn => r.forced}
    /\ line' \in {b \in BOOLEAN : b => regs'.ists # {}}

MainStep == MainReset \/ MainLock \/ SaveDone \/ LoadDone

Next ==
    \/ FrameLock \/ FrameRun \/ VoiceIdle \/ VoiceStall \/ VoiceEnds \/ AudioCallback
    \/ CpuStep \/ CpuEpLocked \/ TogglePause
    \/ \E op \in {"save", "load", "reset"} : Begin(op)
    \/ MainStep

Spec == Init /\ [][Next]_vars

(* Every thread runs, timed waits time out, the audio device keeps asking,  *)
(* a mutex that is free again and again is got in the end, and a frame gets *)
(* past its voices (FrameEnds of VoiceWork).                                *)
FairSpec ==
    /\ Spec /\ WF_vars(FrameRun) /\ SF_vars(FrameLock) /\ WF_vars(AudioCallback)
    /\ SF_vars(CpuEpLocked) /\ SF_vars(MainStep) /\ SF_vars(FrameMix)
--------------------------------------------------------------------------------
(* Registers and thread positions; the monitor FIFO stays within its bounds, *)
(* whatever the audio device takes out of it.                               *)
TypeOK ==
    /\ regs \in Registers /\ {line, setIrq, failed, running} \subseteq BOOLEAN
    /\ pc \in Holding \cup Waiting \cup DOMAIN Resumed \cup {"irq", "served"}
    /\ div \in 0 .. FramesPerBuf - 1 /\ used \in 0 .. Capacity
    /\ cpu \in {"idle", "ep"}
    /\ main \in [op : {"none", "save", "load", "reset"},
                 pc : {"idle", "reset", "lock", "locked"}, was : BOOLEAN]

(* se_frame asserts that the monitor FIFO has room for a buffer: throttle   *)
(* looks at the FIFO only when a buffer begins, and EPRST may restart the   *)
(* count in the middle of one, even in the middle of a frame that has       *)
(* stalled.                                                                 *)
FifoRoom == pc = "mix" /\ div = FramesPerBuf - 1 => Capacity - used >= FrameBytes

(* fe_method's assertion for SE2FE_IDLE_VOICE: the thread reports an idle   *)
(* voice only while FETFORCE1 asks for the trap, whatever happens to the    *)
(* registers while it sleeps or stalls inside a frame.                      *)
IdleTrapForced == ~failed

(* A front end set running and an engine turned on start frames, although   *)
(* the vCPU's signal can fall between the thread's check and its wait.      *)
Runnable == running /\ main.op = "none" /\ ~Blocked
Resumes == Runnable ~> (pc = "frame" \/ ~Runnable)

(* A trapped front end raises the interrupt, whenever IEN is set, whatever  *)
(* is acknowledged meanwhile and although set_irq is cleared outside the    *)
(* critical section that served it.                                         *)
Trapped == running /\ main.op = "none" /\ regs.fectl = "trapped" /\ regs.ien
TrapRaises == Trapped ~> (line \/ ~Trapped)

(* A notification that sets set_irq, from a worker inside a frame or from   *)
(* VOICE_OFF on the vCPU, reaches the guest, unless it falls between the    *)
(* thread's update_irq and its set_irq = false.                             *)
Notified == running /\ main.op = "none" /\ "fev" \in regs.ists /\ regs.ien
NotifyRaises == (Notified /\ setIrq /\ pc # "served") ~> (line \/ ~Notified)

(* Snapshots end: the stopped machine drains no audio, so the frame thread  *)
(* comes to wait in throttle and gives d->lock up.                          *)
SnapshotEnds == (main.op \in {"save", "load"}) ~> (main.op = "none")
================================================================================
